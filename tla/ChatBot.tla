------------------------------ MODULE ChatBot ------------------------------
(***************************************************************************)
(* The automatic accounts that answer in a public room                       *)
(* (api/src/chat/chat-bot.service.ts), for one room: each human message      *)
(* starts a call of maybeReply that nobody waits for.                       *)
(***************************************************************************)
EXTENDS Calls

VARIABLES
  busy,        \* busyRooms has the room
  cool,        \* ROOM_COOLDOWN_MS has passed since lastReplyAt
  broken       \* the lock of a conversation going on was released by another call

botVars == <<busy, cool, broken>>

BotCall == [at : {"plan", "cast", "first", "second"}, voices : {1, 2}, together : BOOLEAN]

ASSUME BotAssumption == Idle \notin BotCall

Talking == {c \in Running : calls[c].at \in {"first", "second"}}

BotInit ==
  /\ busy = FALSE /\ cool = TRUE /\ broken = FALSE
  /\ calls = NoCalls

\* A human message: planReply reads the sender and the room. voices is how many
\* accounts the message calls for: a greeting or a short message one, a longer
\* one two if the room's cast has them.
MaybeReply(c, voices) ==
  /\ Enter(c, [at |-> "plan", voices |-> voices, together |-> InCompany])
  /\ UNCHANGED botVars

\* A mutated form of Unlock: a conversation that ends leaves the lock behind.
LeaveLocked == busy' = busy

\* The finally of maybeReply releases the lock, in a call that never took it too.
Unlock == busy' = FALSE

Finish(c) ==
  /\ Unlock
  /\ broken' = (Talking \ {c} # {} /\ (broken \/ c \notin Talking))
  /\ Return(c)

MayPlan == cool /\ ~busy

\* planReply's refusals; then it reads the cast and the recent messages.
Plan(c) ==
  /\ At(c, "plan")
  /\ IF MayPlan THEN GoOn(c, "cast") /\ UNCHANGED botVars
                ELSE Finish(c) /\ UNCHANGED cool

\* A mutated form of Free: the lock is not looked at again after the awaits.
FreeAlready == TRUE
Free == ~busy

\* maybeReply looks at the lock again and takes it.
Take(c) ==
  /\ At(c, "cast")
  /\ IF Free THEN GoOn(c, "first") /\ busy' = TRUE /\ UNCHANGED <<cool, broken>>
             ELSE Finish(c) /\ UNCHANGED cool

\* speak: the first account's message is saved, then maybe the second's. lastReplyAt
\* is set after the last.
SpeakFirst(c) ==
  /\ At(c, "first")
  /\ IF calls[c].voices = 2 THEN GoOn(c, "second") /\ UNCHANGED botVars
                            ELSE Finish(c) /\ cool' = FALSE

SpeakSecond(c) == At(c, "second") /\ Finish(c) /\ cool' = FALSE

\* An await throws and the catch swallows it, or planReply refuses for another
\* reason, the length of the message or an empty cast: the finally runs.
BotFails(c) == c \in Running /\ Finish(c) /\ UNCHANGED cool

CoolDown == ~cool /\ cool' = TRUE /\ UNCHANGED <<busy, broken, calls>>

BotRestart == CallsLost /\ busy' = FALSE /\ cool' = TRUE /\ broken' = FALSE

BotNext ==
  \/ \E c \in CallIds :
       \/ \E voices \in {1, 2} : MaybeReply(c, voices)
       \/ Plan(c) \/ Take(c) \/ SpeakFirst(c) \/ SpeakSecond(c) \/ BotFails(c)
  \/ CoolDown \/ BotRestart

BotSpec == BotInit /\ [][BotNext]_<<botVars, calls>>

\* One conversation goes on at a time, under the lock, until a call that held no
\* lock has released it; and the lock is never left behind: nobody talking, the
\* room is free (a leaked lock would silence the room for good).
LockIsHeldWhileTalking ==
  broken \/ (Cardinality(Talking) <= 1 /\ (busy <=> Talking # {}))
=============================================================================
