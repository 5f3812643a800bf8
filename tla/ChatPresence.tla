---------------------------- MODULE ChatPresence ----------------------------
(***************************************************************************)
(* Who is online where in the chat (api/src/chat/chat.gateway.ts).  A user  *)
(* is listed in a chat while one of its sockets counts there: because of    *)
(* the site-wide channels registered when the socket connected              *)
(* (presenceRoomIds) or because it entered the room                         *)
(* (joinedPresenceRoomIds).  The entry of a user counts these references.   *)
(*                                                                          *)
(* Handlers of one process interleave only at their awaits; a join or a     *)
(* registration whose socket disconnects meanwhile still runs to its end.   *)
(* Sockets without a valid token only get errors back and are left out.     *)
(* The lists broadcast after a change (emitOnlineList) are not modelled.    *)
(***************************************************************************)
EXTENDS Integers, FiniteSets

CONSTANTS
  Chats,
  Sockets,     \* connections; an id is used once
  Users,
  userOf,      \* the user whose token each socket carries
  JoinIds,     \* activations of handleJoin (bounds those in flight)
  Idle

ASSUME UserAssumption == userOf \in [Sockets -> Users]
ASSUME SocketsFinite == IsFiniteSet(Sockets)

VARIABLES
  conn,     \* connection of each socket
  known,    \* client.userId is set
  setup,    \* handleConnection of each socket: reading the profile, then
            \* pending in registerSitePresence, then done
  site,     \* client.presenceRoomIds
  joined,   \* client.joinedPresenceRoomIds
  room,     \* chatId -> sockets in the socket.io room
  joins,    \* activations of handleJoin between their first check and the join
  refs,     \* roomPresence: chatId -> userId -> refs; 0 when there is no entry
  torn      \* history: users with a socket gone in the middle of a handler

vars == <<conn, known, setup, site, joined, room, joins, refs, torn>>

Join == [sock : Sockets, chat : Chats]

ASSUME IdleAssumption == Idle \notin Join

TypeOK ==
  /\ conn \in [Sockets -> {"fresh", "open", "gone"}]
  /\ known \in [Sockets -> BOOLEAN]
  /\ setup \in [Sockets -> {"none", "profile", "pending", "done"}]
  /\ site \in [Sockets -> SUBSET Chats]
  /\ joined \in [Sockets -> SUBSET Chats]
  /\ room \in [Chats -> SUBSET Sockets]
  /\ joins \in [JoinIds -> Join \cup {Idle}]
  /\ refs \in [Chats -> [Users -> Nat]]
  /\ torn \in SUBSET Users

Init ==
  /\ conn = [s \in Sockets |-> "fresh"]
  /\ known = [s \in Sockets |-> FALSE]
  /\ setup = [s \in Sockets |-> "none"]
  /\ site = [s \in Sockets |-> {}]
  /\ joined = [s \in Sockets |-> {}]
  /\ room = [c \in Chats |-> {}]
  /\ joins = [j \in JoinIds |-> Idle]
  /\ refs = [c \in Chats |-> [u \in Users |-> 0]]
  /\ torn = {}

Live(s) == conn[s] = "open"
Joining(s) == \E j \in JoinIds : joins[j] # Idle /\ joins[j].sock = s
Finish(j) == joins' = [joins EXCEPT ![j] = Idle]

-----------------------------------------------------------------------------

AddPresence(cs, s) ==
  refs' = IF known[s]
          THEN [c \in Chats |-> IF c \in cs THEN [refs[c] EXCEPT ![userOf[s]] = @ + 1]
                                            ELSE refs[c]]
          ELSE refs

\* A mutated form of Dropped: the entry goes with the first socket that leaves.
DroppedEntry(count, times) == IF times > 0 THEN 0 ELSE count

\* removePresence, run times times: the entry goes with its last reference.
Dropped(count, times) == IF count > times THEN count - times ELSE 0

-----------------------------------------------------------------------------

HandleConnection(s) ==
  /\ conn[s] = "fresh"
  /\ conn' = [conn EXCEPT ![s] = "open"]
  /\ known' = [known EXCEPT ![s] = TRUE]
  /\ setup' = [setup EXCEPT ![s] = "profile"]
  /\ UNCHANGED <<site, joined, room, joins, refs, torn>>

ProfileLoaded(s) ==
  /\ setup[s] = "profile"
  /\ setup' = [setup EXCEPT ![s] = "pending"]
  /\ UNCHANGED <<conn, known, site, joined, room, joins, refs, torn>>

\* The account is gone: the socket stays, as a reader.  What it joined while
\* the profile was being read stays counted.
ProfileMissing(s) ==
  /\ setup[s] = "profile"
  /\ setup' = [setup EXCEPT ![s] = "done"]
  /\ known' = [known EXCEPT ![s] = FALSE]
  /\ torn' = IF joined[s] # {} THEN torn \cup {userOf[s]} ELSE torn
  /\ UNCHANGED <<conn, site, joined, room, joins, refs>>

\* The read failed: the socket keeps its user but registers nowhere.
ProfileFails(s) ==
  /\ setup[s] = "profile"
  /\ setup' = [setup EXCEPT ![s] = "done"]
  /\ UNCHANGED <<conn, known, site, joined, room, joins, refs, torn>>

\* checkCanJoin and getPresenceChatIds have answered; the channels are the
\* global one and those of the profile.  Nothing asks whether the socket is
\* still there.
RegisterSitePresence(s, ids) ==
  /\ setup[s] = "pending"
  /\ setup' = [setup EXCEPT ![s] = "done"]
  /\ site' = [site EXCEPT ![s] = ids]
  /\ AddPresence(ids, s)
  /\ UNCHANGED <<conn, known, joined, room, joins, torn>>

\* Banned from the chat, or a read failed.
RegistrationRefused(s) ==
  /\ setup[s] = "pending"
  /\ setup' = [setup EXCEPT ![s] = "done"]
  /\ UNCHANGED <<conn, known, site, joined, room, joins, refs, torn>>

HandleDisconnect(s) ==
  LET times(c) == (IF c \in site[s] THEN 1 ELSE 0) + (IF c \in joined[s] THEN 1 ELSE 0)
  IN  /\ Live(s)
      /\ conn' = [conn EXCEPT ![s] = "gone"]
      /\ room' = [c \in Chats |-> room[c] \ {s}]
      /\ refs' = IF known[s]
                 THEN [c \in Chats |-> [refs[c] EXCEPT ![userOf[s]] = Dropped(@, times(c))]]
                 ELSE refs
      /\ torn' = IF known[s] /\ (setup[s] # "done" \/ Joining(s))
                 THEN torn \cup {userOf[s]} ELSE torn
      /\ UNCHANGED <<known, setup, site, joined, joins>>

-----------------------------------------------------------------------------
(* Rooms. *)

HandleJoin(s, c) ==
  /\ Live(s)
  /\ known[s]
  /\ \E j \in JoinIds :
       /\ joins[j] = Idle
       /\ joins' = [joins EXCEPT ![j] = [sock |-> s, chat |-> c]]
  /\ UNCHANGED <<conn, known, setup, site, joined, room, refs, torn>>

\* Banned, access denied, wrong password, or a failed read.
JoinRefused(j) ==
  /\ joins[j] # Idle
  /\ Finish(j)
  /\ UNCHANGED <<conn, known, setup, site, joined, room, refs, torn>>

\* socket.io's join: it does nothing on a socket that has disconnected.
SocketJoin(s, c) ==
  room' = IF Live(s) THEN [room EXCEPT ![c] = @ \cup {s}] ELSE room

\* A mutated form of EnterRoom: a room entered again is counted again.
EnterCountsTwice(j) ==
  LET s == joins[j].sock
      c == joins[j].chat
  IN  /\ joins[j] # Idle
      /\ SocketJoin(s, c)
      /\ joined' = [joined EXCEPT ![s] = @ \cup {c}]
      /\ AddPresence({c}, s)
      /\ Finish(j)
      /\ UNCHANGED <<conn, known, setup, site, torn>>

\* The checks passed.  The in-memory adapter joins at once, so the handler
\* goes on before any other event.
EnterRoom(j) ==
  LET s == joins[j].sock
      c == joins[j].chat
      counted == IF c \in joined[s] \cup site[s] THEN {} ELSE {c}
  IN  /\ joins[j] # Idle
      /\ SocketJoin(s, c)
      /\ joined' = [joined EXCEPT ![s] = @ \cup counted]
      /\ AddPresence(counted, s)
      /\ Finish(j)
      /\ UNCHANGED <<conn, known, setup, site, torn>>

\* A mutated form of HandleLeave: the site-wide reference is taken back too.
LeaveDropsSite(s, c) ==
  /\ Live(s)
  /\ room' = [room EXCEPT ![c] = @ \ {s}]
  /\ IF known[s] /\ c \in joined[s] \cup site[s]
     THEN /\ joined' = [joined EXCEPT ![s] = @ \ {c}]
          /\ refs' = [refs EXCEPT ![c][userOf[s]] = Dropped(@, 1)]
     ELSE UNCHANGED <<joined, refs>>
  /\ UNCHANGED <<conn, known, setup, site, joins, torn>>

HandleLeave(s, c) ==
  /\ Live(s)
  /\ room' = [room EXCEPT ![c] = @ \ {s}]
  /\ IF known[s] /\ c \in joined[s]
     THEN /\ joined' = [joined EXCEPT ![s] = @ \ {c}]
          /\ refs' = [refs EXCEPT ![c][userOf[s]] = Dropped(@, 1)]
     ELSE UNCHANGED <<joined, refs>>
  /\ UNCHANGED <<conn, known, setup, site, joins, torn>>

\* The process restarts: the presence map is only in its memory.
Restart ==
  /\ conn' = [s \in Sockets |-> IF conn[s] = "fresh" THEN "fresh" ELSE "gone"]
  /\ setup' = [s \in Sockets |-> IF setup[s] = "none" THEN "none" ELSE "done"]
  /\ room' = [c \in Chats |-> {}]
  /\ joins' = [j \in JoinIds |-> Idle]
  /\ refs' = [c \in Chats |-> [u \in Users |-> 0]]
  /\ torn' = {}
  /\ UNCHANGED <<known, site, joined>>

Next ==
  \/ \E s \in Sockets :
       \/ HandleConnection(s)
       \/ ProfileLoaded(s)
       \/ ProfileMissing(s)
       \/ ProfileFails(s)
       \/ \E ids \in SUBSET Chats \ {{}} : RegisterSitePresence(s, ids)
       \/ RegistrationRefused(s)
       \/ HandleDisconnect(s)
       \/ \E c \in Chats : HandleJoin(s, c) \/ HandleLeave(s, c)
  \/ \E j \in JoinIds : JoinRefused(j) \/ EnterRoom(j)
  \/ Restart

Spec == Init /\ [][Next]_vars

-----------------------------------------------------------------------------
(* Properties. *)

Counting(s) == Live(s) /\ known[s]

\* How many references the connected sockets of u hold in c, on either list.
Sited(c, u) == {s \in Sockets : Counting(s) /\ userOf[s] = u /\ c \in site[s]}
Entered(c, u) == {s \in Sockets : Counting(s) /\ userOf[s] = u /\ c \in joined[s]}
References(c, u) == Cardinality(Sited(c, u)) + Cardinality(Entered(c, u))

\* Nobody goes offline while one of their sockets still counts: closing one
\* tab, leaving a room or joining it twice never takes another tab's
\* reference away.
ReferencesAreCovered ==
  \A c \in Chats, u \in Users : refs[c][u] >= References(c, u)

\* "Odaya fiilen giren kullanici o odada cevrimici gorunmeli": who is in the
\* room of a chat, and receives its messages, is listed as online there.
RoomMembersAreOnline ==
  \A c \in Chats : \A s \in room[c] : Counting(s) => refs[c][userOf[s]] > 0

\* The only ghosts are those of a socket that went away in the middle of its
\* connection, registration or join: everyone else is listed exactly as long
\* as their sockets hold references.
OnlyTornHandlersLeaveGhosts ==
  \A u \in Users \ torn : \A c \in Chats : refs[c][u] = References(c, u)
=============================================================================
