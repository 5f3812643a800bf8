----------------------------- MODULE MobileChat -----------------------------
(***************************************************************************)
(* The composer of the mobile chat screen                                    *)
(* (mobile/app/(tabs)/sohbet/[slug].tsx): a message is shown as a pending    *)
(* bubble until the room's broadcast of it replaces the bubble, or a timer   *)
(* of 10 s marks it failed. The gateway (chat.gateway.ts handleMessage,      *)
(* handleJoin) is modelled by what the screen sees of it. One room, one      *)
(* user, who may also write from another device.                            *)
(***************************************************************************)
EXTENDS Naturals, Sequences, FiniteSets

CONSTANTS
  Clients,       \* clientIds of the messages composed on this screen
  Elsewhere,     \* the user's other device
  MaxStored      \* bound: messages in the room

ASSUME ElsewhereAssumption == Elsewhere \notin Clients

VARIABLES
  bubbles,       \* messages, the list shown: [client, msg, state]
  timers,        \* pendingTimeoutsRef
  buffered,      \* emitted while offline, kept by the socket
  wire,          \* copies of each message on their way to the gateway or moderated
  stored,        \* the room's messages, by author; a message is named by its place
  unsent,        \* messages saved, not yet broadcast
  untold,        \* messages whose handler ended after the save: never broadcast
  down,          \* events on their way to the screen, in order
  join,          \* the gateway's side of the connection
  snapshot,      \* history as it was read
  crossed        \* a broadcast crossed the last history

screenVars == <<bubbles, timers>>
serverVars == <<stored, unsent, untold, snapshot, crossed>>
mobileVars == <<screenVars, buffered, wire, serverVars, down, join>>

Bubble(client, msg, state) == [client |-> client, msg |-> msg, state |-> state]
online == join # "offline"
Copies == [m \in Clients |-> 0]

MobileInit ==
  /\ bubbles = <<>> /\ timers = {} /\ down = <<>> /\ stored = <<>>
  /\ buffered = Copies /\ wire = Copies
  /\ unsent = {} /\ untold = {} /\ join = "offline" /\ snapshot = 0
  /\ crossed = FALSE

-----------------------------------------------------------------------------
(* The screen. *)

\* getSocket(token).emit("send_message"), and the timer.
Emit(m) ==
  /\ IF online THEN wire' = [wire EXCEPT ![m] = @ + 1] /\ UNCHANGED buffered
               ELSE buffered' = [buffered EXCEPT ![m] = @ + 1] /\ UNCHANGED wire
  /\ timers' = timers \cup {m}

\* sendWithAttachments
SendMessage(m) ==
  /\ online
  /\ wire[m] + buffered[m] = 0 /\ m \notin timers
  /\ \A i \in DOMAIN bubbles : bubbles[i].client # m
  /\ \A i \in DOMAIN stored : stored[i] # m
  /\ bubbles' = Append(bubbles, Bubble(m, 0, "pending"))
  /\ Emit(m)
  /\ UNCHANGED <<serverVars, down, join>>

Marked(m, from, to) ==
  [i \in DOMAIN bubbles |->
     IF bubbles[i].client = m /\ bubbles[i].state = from
     THEN [bubbles[i] EXCEPT !.state = to] ELSE bubbles[i]]

\* A mutated form of Repeat: the message goes out again without a timer.
RepeatWithoutTimer(m) ==
  /\ IF online THEN wire' = [wire EXCEPT ![m] = @ + 1] /\ UNCHANGED buffered
               ELSE buffered' = [buffered EXCEPT ![m] = @ + 1] /\ UNCHANGED wire
  /\ UNCHANGED timers

Repeat(m) == Emit(m)

\* retrySendMessage, which does not ask for a connection.
RetrySendMessage(m) ==
  /\ \E i \in DOMAIN bubbles : bubbles[i].client = m /\ bubbles[i].state = "failed"
  /\ wire[m] + buffered[m] < 2
  /\ bubbles' = Marked(m, "failed", "pending")
  /\ Repeat(m)
  /\ UNCHANGED <<serverVars, down, join>>

\* A broadcast that comes later finds no pending bubble of its own.
TimeoutFires(m) ==
  /\ m \in timers
  /\ bubbles' = Marked(m, "pending", "failed")
  /\ timers' = timers \ {m}
  /\ UNCHANGED <<buffered, wire, serverVars, down, join>>

Pending == {i \in DOMAIN bubbles : bubbles[i].state = "pending"}
First == CHOOSE i \in Pending : \A j \in Pending : i <= j

\* A mutated form of OnOwnMessage: it is shown only in place of a pending bubble.
OnOwnMessageInPlace(msg) ==
  IF Pending = {}
  THEN UNCHANGED screenVars
  ELSE /\ bubbles' = [bubbles EXCEPT ![First] = Bubble(Elsewhere, msg, "sent")]
       /\ timers' = timers \ {bubbles[First].client}

\* onNewMessage of one's own message: the first pending bubble, whichever message
\* it was shown for, makes room for it and loses its timer.
OnOwnMessage(msg) ==
  IF Pending = {}
  THEN bubbles' = Append(bubbles, Bubble(Elsewhere, msg, "sent")) /\ UNCHANGED timers
  ELSE /\ bubbles' = [bubbles EXCEPT ![First] = Bubble(Elsewhere, msg, "sent")]
       /\ timers' = timers \ {bubbles[First].client}

\* onHistory replaces the list; the timers run on.
OnHistory(k) ==
  /\ bubbles' = [i \in 1..k |-> Bubble(Elsewhere, i, "sent")]
  /\ UNCHANGED timers

Receive ==
  /\ down # <<>>
  /\ IF Head(down).kind = "new" THEN OnOwnMessage(Head(down).msg) ELSE OnHistory(Head(down).msg)
  /\ down' = Tail(down)
  /\ UNCHANGED <<buffered, wire, serverVars, join>>

-----------------------------------------------------------------------------
(* The connection. *)

\* On connect the socket first sends what it kept; onConnect joins the room.
Connect ==
  /\ join = "offline" /\ join' = "asked"
  /\ wire' = [m \in Clients |-> wire[m] + buffered[m]] /\ buffered' = Copies
  /\ UNCHANGED <<screenVars, serverVars, down>>

\* What is on its way down is lost, what is on its way up may be.
Disconnect ==
  /\ online /\ join' = "offline" /\ down' = <<>>
  /\ \/ UNCHANGED wire
     \/ wire' = Copies
  /\ UNCHANGED <<screenVars, buffered, serverVars>>

-----------------------------------------------------------------------------
(* The gateway. Its handlers run at once, so answers come in any order. *)

\* handleMessage saves the message, or moderation refuses it: the notice leaves
\* the bubble as it is.
Save(m) ==
  /\ wire[m] > 0 /\ Len(stored) < MaxStored
  /\ wire' = [wire EXCEPT ![m] = @ - 1]
  /\ stored' = Append(stored, m) /\ unsent' = unsent \cup {Len(stored) + 1}
  /\ UNCHANGED <<screenVars, buffered, down, join, untold, snapshot, crossed>>

Refuse(m) ==
  /\ wire[m] > 0
  /\ wire' = [wire EXCEPT ![m] = @ - 1]
  /\ UNCHANGED <<screenVars, buffered, serverVars, down, join>>

\* The same user's message from another device.
SaveElsewhere ==
  /\ Len(stored) < MaxStored
  /\ stored' = Append(stored, Elsewhere) /\ unsent' = unsent \cup {Len(stored) + 1}
  /\ UNCHANGED <<screenVars, buffered, wire, down, join, untold, snapshot, crossed>>

\* saveMessage fails after the row is there (the queries on the chat and its members),
\* or the process ends: the handler tells nobody.
SaveCutOff(i) ==
  /\ i \in unsent /\ unsent' = unsent \ {i} /\ untold' = untold \cup {i}
  /\ UNCHANGED <<screenVars, buffered, wire, down, join, stored, snapshot, crossed>>

Broadcast(i) ==
  /\ i \in unsent /\ unsent' = unsent \ {i}
  /\ down' = IF join \in {"joined", "read", "in"}
             THEN Append(down, [kind |-> "new", msg |-> i]) ELSE down
  /\ crossed' = (crossed \/ (join = "read" /\ i > snapshot) \/ (join = "in" /\ i <= snapshot))
  /\ UNCHANGED <<screenVars, buffered, wire, stored, untold, join, snapshot>>

\* handleJoin: into the room, then the history is read, then it is sent.
Join == join = "asked" /\ join' = "joined"
        /\ UNCHANGED <<screenVars, buffered, wire, serverVars, down>>
ReadHistory ==
  /\ join = "joined" /\ join' = "read"
  /\ snapshot' = Len(stored) /\ crossed' = FALSE
  /\ UNCHANGED <<screenVars, buffered, wire, stored, unsent, untold, down>>
SendHistory ==
  /\ join = "read" /\ join' = "in"
  /\ down' = Append(down, [kind |-> "history", msg |-> snapshot])
  /\ UNCHANGED <<screenVars, buffered, wire, serverVars>>

MobileNext ==
  \/ \E m \in Clients : SendMessage(m) \/ RetrySendMessage(m) \/ TimeoutFires(m)
                        \/ Save(m) \/ Refuse(m)
  \/ Receive \/ Connect \/ Disconnect \/ SaveElsewhere
  \/ \E i \in unsent : Broadcast(i) \/ SaveCutOff(i)
  \/ Join \/ ReadHistory \/ SendHistory

MobileSpec == MobileInit /\ [][MobileNext]_mobileVars

-----------------------------------------------------------------------------
Quiet == join = "in" /\ down = <<>> /\ unsent = {} /\ wire = Copies /\ timers = {}

\* A bubble never spins for good: while it is pending its timer runs, however
\* broadcasts are paired with bubbles.
PendingBubbleHasTimer == \A i \in Pending : bubbles[i].client \in timers

\* Once the socket has had its history and all is quiet, every message of the room is
\* on the screen exactly once, in whatever order answers came and whichever bubble each
\* replaced, unless a broadcast crossed that history. Only a message stored after the
\* history was read, by a handler that ended before its broadcast, is not there at all.
StoredShownOnce ==
  Quiet /\ ~crossed =>
    \A i \in DOMAIN stored :
      Cardinality({j \in DOMAIN bubbles : bubbles[j].msg = i}) =
        IF i \in untold /\ i > snapshot THEN 0 ELSE 1
=============================================================================
