------------------------------ MODULE Friends ------------------------------
(***************************************************************************)
(* Friend requests between two users (api/src/users/friends.service.ts).     *)
(* A row is kept under its sender: the table is unique on (sender, receiver) *)
(* and says nothing of the row the other way round.                         *)
(***************************************************************************)
EXTENDS Calls

CONSTANTS
  Friends,     \* the two users
  MaxRows      \* bound: rows ever created

ASSUME FriendsAssumption == \E u, v \in Friends : u # v /\ Friends = {u, v}

VARIABLES
  request,     \* friendRequest, by sender
  rows         \* rows created so far, the next row's identifier

friendVars == <<request, rows>>

Nobody == [id |-> 0, status |-> "NONE", together |-> FALSE]
Exists(s) == request[s].id # 0
SenderOf(id) == {s \in Friends : request[s].id = id}

FriendsInit ==
  /\ request = [u \in Friends |-> Nobody] /\ rows = 0
  /\ calls = NoCalls

\* A mutated form of Asked: only one's own request is looked for.
AskedByMe(u) == Exists(u)

\* sendRequest's findFirst looks both ways. (rejectRequest deletes: no row is
\* ever REJECTED.)
Asked(u) == \E s \in Friends : Exists(s)

SendRequest(c, u) ==
  /\ ~Asked(u)
  /\ Enter(c, [op |-> "send", at |-> "create", user |-> u, id |-> 0, together |-> InCompany])
  /\ UNCHANGED friendVars

\* The create, refused by the unique index if the row is there by now.
CreateRequest(c) ==
  LET u == calls[c].user IN
  /\ At(c, "create") /\ ~Exists(u) /\ rows < MaxRows
  /\ rows' = rows + 1
  /\ request' = [request EXCEPT ![u] =
       [id |-> rows + 1, status |-> "PENDING", together |-> calls[c].together]]
  /\ Return(c)

\* A mutated form of MayAnswer: nothing is asked of the request's status.
MayAnswerAgain(op, u, s) == Exists(s) /\ (op = "accept" => s # u)

\* acceptRequest is the receiver's, rejectRequest also the sender's who withdraws.
MayAnswer(op, u, s) ==
  Exists(s) /\ request[s].status = "PENDING" /\ (op = "accept" => s # u)

Answer(c, op, u) ==
  \E s \in Friends :
    /\ MayAnswer(op, u, s)
    /\ Enter(c, [op |-> op, at |-> op, user |-> u, id |-> request[s].id, together |-> InCompany])
    /\ UNCHANGED friendVars

\* acceptRequest's update: by the identifier alone, as it was read before.
Accept(c) ==
  /\ At(c, "accept")
  /\ \E s \in SenderOf(calls[c].id) : request' = [request EXCEPT ![s].status = "ACCEPTED"]
  /\ Return(c) /\ UNCHANGED rows

\* removeFriend finds one accepted row, whichever way it goes.
RemoveFriend(c, u) ==
  \E s \in Friends :
    /\ Exists(s) /\ request[s].status = "ACCEPTED"
    /\ Enter(c, [op |-> "remove", at |-> "remove", user |-> u, id |-> request[s].id, together |-> InCompany])
    /\ UNCHANGED friendVars

\* rejectRequest's and removeFriend's delete, by identifier.
Delete(c) ==
  /\ At(c, "reject") \/ At(c, "remove")
  /\ \E s \in SenderOf(calls[c].id) : request' = [request EXCEPT ![s] = Nobody]
  /\ Return(c) /\ UNCHANGED rows

FriendsNext ==
  \/ \E c \in CallIds :
       \/ \E u \in Friends : SendRequest(c, u) \/ RemoveFriend(c, u)
                             \/ \E op \in {"accept", "reject"} : Answer(c, op, u)
       \/ CreateRequest(c) \/ Accept(c) \/ Delete(c)
       \/ Throw(c) /\ UNCHANGED friendVars
  \/ CallsLost /\ UNCHANGED friendVars

FriendsSpec == FriendsInit /\ [][FriendsNext]_<<friendVars, calls>>

\* Two users have one request between them, unless each asked while another call was on
\* its way. (With two, both accepted, removeFriend deletes one and the two are still
\* friends.)
OneRequestPerPair ==
  (\A s \in Friends : Exists(s)) => \A s \in Friends : request[s].together

\* A friendship ends by removeFriend alone, unless a withdrawal or a refusal met
\* another call on its way, the acceptance.
FriendshipEndsByRemoval ==
  [][\A c \in CallIds, s \in Friends :
       Delete(c) /\ request[s].status = "ACCEPTED" /\ request'[s].id = 0
         => calls[c].op = "remove" \/ calls[c].together]_<<friendVars, calls>>
=============================================================================
