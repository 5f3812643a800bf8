--------------------------- MODULE TelsizGateway ---------------------------
(***************************************************************************)
(* The push-to-talk gateway (api/src/telsiz/telsiz.gateway.ts).  One Node   *)
(* process runs every handler; a handler is interrupted only where it       *)
(* awaits, so each action below is the code between two awaits.  Only       *)
(* handleConnection (the profile read) and handlePttStart (the mute read)   *)
(* await, and handlePttStart keeps using what it checked before the await.  *)
(*                                                                          *)
(* A socket id is used for one connection only and never comes back.        *)
(* Time passes in ticks; a setTimeout that is due fires before the next     *)
(* tick.  Handlers whose arguments fail validation change nothing and are   *)
(* stuttering steps.                                                        *)
(***************************************************************************)
EXTENDS Integers

CONSTANTS
  Channels,    \* TELSIZ_CHANNELS
  Sockets,     \* connections
  Users,
  userOf,      \* the user whose token each socket carries
  TimerIds,    \* setTimeout handles (bounds the timers pending at once)
  PttIds,      \* activations of handlePttStart (bounds those in flight)
  MaxTalk,     \* MAX_TALK_MS, in ticks
  Nobody, NoChannel, NoTimer, Idle

ASSUME MaxTalkAssumption == MaxTalk \in Nat \ {0}
ASSUME UserAssumption == userOf \in [Sockets -> Users]
ASSUME NullAssumption ==
  /\ Nobody \notin Sockets
  /\ NoChannel \notin Channels
  /\ NoTimer \notin TimerIds

VARIABLES
  conn,      \* connection of each socket; "ready" once client.userId is set
  channel,   \* client.channelId
  presence,  \* channelId -> sockets in it; also the socket.io room
  speaker,   \* channelId -> socketId of the speaker entry
  timeout,   \* channelId -> the timeout of that entry
  hands,     \* handRaises: channelId -> sockets
  timers,    \* pending setTimeout callbacks
  ptt,       \* activations of handlePttStart past their guards
  told,      \* last speaker_start / speaker_end each socket was sent
  held,      \* history: ticks since the present speaker took the floor
  muted      \* users whose muteUntil lies ahead; written by the moderation

memory == <<channel, presence, speaker, timeout, hands, timers, told, held>>
gatewayVars == <<conn, memory, ptt>>
vars == <<gatewayVars, muted>>

Timer == [chan : Channels, sock : Sockets, left : 0 .. MaxTalk]
Ptt == [sock : Sockets, chan : Channels, mute : {"unread", "muted", "clear"}]

ASSUME IdleAssumption == Idle \notin Timer \cup Ptt

TypeOK ==
  /\ conn \in [Sockets -> {"fresh", "connecting", "ready", "gone"}]
  /\ channel \in [Sockets -> Channels \cup {NoChannel}]
  /\ presence \in [Channels -> SUBSET Sockets]
  /\ speaker \in [Channels -> Sockets \cup {Nobody}]
  /\ timeout \in [Channels -> TimerIds \cup {NoTimer}]
  /\ hands \in [Channels -> SUBSET Sockets]
  /\ timers \in [TimerIds -> Timer \cup {Idle}]
  /\ ptt \in [PttIds -> Ptt \cup {Idle}]
  /\ told \in [Sockets -> Sockets \cup {Nobody}]
  /\ held \in [Channels -> Nat]
  /\ muted \in SUBSET Users

Init ==
  /\ conn = [s \in Sockets |-> "fresh"]
  /\ channel = [s \in Sockets |-> NoChannel]
  /\ presence = [c \in Channels |-> {}]
  /\ speaker = [c \in Channels |-> Nobody]
  /\ timeout = [c \in Channels |-> NoTimer]
  /\ hands = [c \in Channels |-> {}]
  /\ timers = [t \in TimerIds |-> Idle]
  /\ ptt = [p \in PttIds |-> Idle]
  /\ told = [s \in Sockets |-> Nobody]
  /\ held = [c \in Channels |-> 0]
  /\ muted = {}

-----------------------------------------------------------------------------
(* The private helpers of the gateway. *)

Armed(t) == timers[t] # Idle

\* releaseSpeaker for every channel of cs whose entry belongs to s.
Freed(cs, s) == {c \in cs : speaker[c] = s}

ClearTimeouts(freed) ==
  [t \in TimerIds |-> IF \E c \in freed : timeout[c] = t THEN Idle ELSE timers[t]]

SpeakerEnd(freed) ==
  [s \in Sockets |->
     IF \E c \in freed : s \in presence[c] THEN Nobody ELSE told[s]]

DropEntries(freed) ==
  /\ speaker' = [c \in Channels |-> IF c \in freed THEN Nobody ELSE speaker[c]]
  /\ timeout' = [c \in Channels |-> IF c \in freed THEN NoTimer ELSE timeout[c]]
  /\ held' = [c \in Channels |-> IF c \in freed THEN 0 ELSE held[c]]

HandStaysUp(cs, s) == hands          \* a mutated form of LowerHand

LowerHand(cs, s) ==
  [c \in Channels |-> IF c \in cs THEN hands[c] \ {s} ELSE hands[c]]

ReleaseSpeaker(c, s) ==
  LET freed == Freed({c}, s)
  IN  /\ DropEntries(freed)
      /\ timers' = ClearTimeouts(freed)
      /\ told' = SpeakerEnd(freed)

\* What removeFromChannel gives up in the channels of left (at most one).
RemoveFromChannel(s, left) ==
  LET freed == Freed(left, s)
  IN  /\ DropEntries(freed)
      /\ timers' = ClearTimeouts(freed)
      /\ hands' = LowerHand(left, s)

Leave(s) ==
  LET left == {channel[s]} \ {NoChannel}
  IN  /\ RemoveFromChannel(s, left)
      /\ told' = [SpeakerEnd(Freed(left, s)) EXCEPT ![s] = Nobody]
      /\ presence' = [c \in Channels |-> IF c \in left THEN presence[c] \ {s}
                                                        ELSE presence[c]]
      /\ channel' = [channel EXCEPT ![s] = NoChannel]

-----------------------------------------------------------------------------
(* Connections. *)

\* The token verifies; the profile read is under way.
HandleConnection(s) ==
  /\ conn[s] = "fresh"
  /\ conn' = [conn EXCEPT ![s] = "connecting"]
  /\ UNCHANGED <<memory, ptt, muted>>

ProfileLoaded(s) ==
  /\ conn[s] = "connecting"
  /\ conn' = [conn EXCEPT ![s] = "ready"]
  /\ UNCHANGED <<memory, ptt, muted>>

Connected(s) == conn[s] \in {"connecting", "ready"}

\* A bad token or a failed profile read disconnects too.
HandleDisconnect(s) ==
  /\ Connected(s)
  /\ conn' = [conn EXCEPT ![s] = "gone"]
  /\ Leave(s)
  /\ UNCHANGED <<ptt, muted>>

\* Mutated forms of HandleJoin: the old channel is kept; the newcomer is not
\* told who is speaking.
JoinKeepsOldChannel(s, c) ==
  /\ conn[s] = "ready"
  /\ channel' = [channel EXCEPT ![s] = c]
  /\ presence' = [presence EXCEPT ![c] = @ \cup {s}]
  /\ told' = [told EXCEPT ![s] = speaker[c]]
  /\ UNCHANGED <<conn, speaker, timeout, hands, timers, held, ptt, muted>>

JoinUninformed(s, c) ==
  LET left == {channel[s]} \ {NoChannel, c}
  IN  /\ conn[s] = "ready"
      /\ RemoveFromChannel(s, left)
      /\ channel' = [channel EXCEPT ![s] = c]
      /\ presence' = [d \in Channels |-> IF d = c THEN presence[d] \cup {s}
                                         ELSE IF d \in left THEN presence[d] \ {s}
                                         ELSE presence[d]]
      /\ told' = [SpeakerEnd(Freed(left, s)) EXCEPT ![s] = Nobody]
      /\ UNCHANGED <<conn, ptt, muted>>

HandleJoin(s, c) ==
  LET left == {channel[s]} \ {NoChannel, c}
  IN  /\ conn[s] = "ready"
      /\ RemoveFromChannel(s, left)
      /\ channel' = [channel EXCEPT ![s] = c]
      /\ presence' = [d \in Channels |-> IF d = c THEN presence[d] \cup {s}
                                         ELSE IF d \in left THEN presence[d] \ {s}
                                         ELSE presence[d]]
      /\ told' = [SpeakerEnd(Freed(left, s)) EXCEPT ![s] = speaker[c]]
      /\ UNCHANGED <<conn, ptt, muted>>

HandleLeave(s) ==
  /\ Connected(s)
  /\ channel[s] # NoChannel
  /\ Leave(s)
  /\ UNCHANGED <<conn, ptt, muted>>

-----------------------------------------------------------------------------
(* Push to talk. *)

\* The press passes the guards and asks the database for the mute.
HandlePttStart(s, c) ==
  /\ conn[s] = "ready"
  /\ channel[s] = c
  /\ \E p \in PttIds :
       /\ ptt[p] = Idle
       /\ ptt' = [ptt EXCEPT ![p] = [sock |-> s, chan |-> c, mute |-> "unread"]]
  /\ UNCHANGED <<conn, memory, muted>>

\* A mutated form of GetMuteUntil: the mute is not looked at.
MuteIgnored(p) ==
  /\ ptt[p] # Idle
  /\ ptt[p].mute = "unread"
  /\ ptt' = [ptt EXCEPT ![p].mute = "clear"]
  /\ UNCHANGED <<conn, memory, muted>>

\* The database answers; the handler has not resumed yet.
GetMuteUntil(p) ==
  /\ ptt[p] # Idle
  /\ ptt[p].mute = "unread"
  /\ ptt' = [ptt EXCEPT ![p].mute =
               IF userOf[ptt[p].sock] \in muted THEN "muted" ELSE "clear"]
  /\ UNCHANGED <<conn, memory, muted>>

\* The read is rejected: the handler throws and nothing happens.
MuteReadFails(p) ==
  /\ ptt[p] # Idle
  /\ ptt[p].mute = "unread"
  /\ ptt' = [ptt EXCEPT ![p] = Idle]
  /\ UNCHANGED <<conn, memory, muted>>

PttMuted(p) ==
  /\ ptt[p] # Idle
  /\ ptt[p].mute = "muted"
  /\ ptt' = [ptt EXCEPT ![p] = Idle]
  /\ UNCHANGED <<conn, memory, muted>>

Busy(c, s) == speaker[c] \notin {Nobody, s}

PttBusy(p) ==
  /\ ptt[p] # Idle
  /\ ptt[p].mute = "clear"
  /\ Busy(ptt[p].chan, ptt[p].sock)
  /\ hands' = [hands EXCEPT ![ptt[p].chan] = @ \cup {ptt[p].sock}]
  /\ ptt' = [ptt EXCEPT ![p] = Idle]
  /\ UNCHANGED <<conn, channel, presence, speaker, timeout, timers, told, held, muted>>

\* A mutated form of PttGranted: a repeated press clears the old timeout.
RepeatedPressRestartsTimer(p, t) ==
  LET c == ptt[p].chan
      s == ptt[p].sock
  IN  /\ ptt[p] # Idle
      /\ ptt[p].mute = "clear"
      /\ ~Busy(c, s)
      /\ ~Armed(t)
      /\ timers' = [u \in TimerIds |->
                      IF u = t THEN [chan |-> c, sock |-> s, left |-> MaxTalk]
                      ELSE IF u = timeout[c] THEN Idle ELSE timers[u]]
      /\ speaker' = [speaker EXCEPT ![c] = s]
      /\ timeout' = [timeout EXCEPT ![c] = t]
      /\ held' = [held EXCEPT ![c] = IF speaker[c] = s THEN @ ELSE 0]
      /\ told' = [m \in Sockets |-> IF m \in presence[c] \ {s} THEN s ELSE told[m]]
      /\ ptt' = [ptt EXCEPT ![p] = Idle]
      /\ UNCHANGED <<conn, channel, presence, hands, muted>>

\* A repeated press of the holder overwrites the entry: the timeout of the
\* entry it replaces stays pending.
PttGranted(p, t) ==
  LET c == ptt[p].chan
      s == ptt[p].sock
  IN  /\ ptt[p] # Idle
      /\ ptt[p].mute = "clear"
      /\ ~Busy(c, s)
      /\ ~Armed(t)
      /\ timers' = [timers EXCEPT ![t] = [chan |-> c, sock |-> s, left |-> MaxTalk]]
      /\ speaker' = [speaker EXCEPT ![c] = s]
      /\ timeout' = [timeout EXCEPT ![c] = t]
      /\ held' = [held EXCEPT ![c] = IF speaker[c] = s THEN @ ELSE 0]
      /\ told' = [m \in Sockets |-> IF m \in presence[c] \ {s} THEN s ELSE told[m]]
      /\ ptt' = [ptt EXCEPT ![p] = Idle]
      /\ UNCHANGED <<conn, channel, presence, hands, muted>>

\* handlePttChunk and handlePttAudio forward what these sockets send.
MayTransmit(s, c) == conn[s] = "ready" /\ channel[s] = c /\ speaker[c] = s

\* The channel is the client's to name, whichever channel it is in.
HandlePttEnd(s, c) ==
  /\ Connected(s)
  /\ hands' = LowerHand({c}, s)
  /\ ReleaseSpeaker(c, s)
  /\ UNCHANGED <<conn, channel, presence, ptt, muted>>

\* handleReport, once its report muted v: cut the talk it was made about.
CutMuted(v, c) ==
  /\ IF speaker[c] # Nobody /\ userOf[speaker[c]] = v
     THEN ReleaseSpeaker(c, speaker[c])
     ELSE UNCHANGED <<speaker, timeout, timers, held, told>>
  /\ UNCHANGED <<conn, channel, presence, hands, ptt, muted>>

\* A mutated form of TalkTimeout: the callback forgets the speaker entry.
TimeoutKeepsEntry(t) ==
  /\ Armed(t)
  /\ timers[t].left = 0
  /\ timers' = [timers EXCEPT ![t] = Idle]
  /\ UNCHANGED <<conn, channel, presence, speaker, timeout, hands, ptt, told, held, muted>>

\* A setTimeout callback: releaseSpeaker(channelId, client.id).
TalkTimeout(t) ==
  LET freed == Freed({timers[t].chan}, timers[t].sock)
  IN  /\ Armed(t)
      /\ timers[t].left = 0
      /\ DropEntries(freed)
      /\ timers' = [ClearTimeouts(freed) EXCEPT ![t] = Idle]
      /\ told' = SpeakerEnd(freed)
      /\ UNCHANGED <<conn, channel, presence, hands, ptt, muted>>

-----------------------------------------------------------------------------
(* The process and its surroundings. *)

\* A mutated form of Tick: a timer that is due is passed over.
TickPastDeadline ==
  /\ \E t \in TimerIds : Armed(t)
  /\ timers' = [t \in TimerIds |->
                  IF Armed(t) THEN [timers[t] EXCEPT !.left = @ - 1] ELSE Idle]
  /\ held' = [c \in Channels |-> IF speaker[c] = Nobody THEN 0 ELSE held[c] + 1]
  /\ UNCHANGED <<conn, channel, presence, speaker, timeout, hands, ptt, told, muted>>

Tick ==
  /\ \E t \in TimerIds : Armed(t)
  /\ \A t \in TimerIds : Armed(t) => timers[t].left > 0
  /\ timers' = [t \in TimerIds |->
                  IF Armed(t) THEN [timers[t] EXCEPT !.left = @ - 1] ELSE Idle]
  /\ held' = [c \in Channels |-> IF speaker[c] = Nobody THEN 0 ELSE held[c] + 1]
  /\ UNCHANGED <<conn, channel, presence, speaker, timeout, hands, ptt, told, muted>>

\* The process manager restarts the process: the maps, the timers and the
\* activations are gone, and so is every connection.
Restart ==
  /\ conn' = [s \in Sockets |-> IF conn[s] = "fresh" THEN "fresh" ELSE "gone"]
  /\ channel' = [s \in Sockets |-> NoChannel]
  /\ presence' = [c \in Channels |-> {}]
  /\ hands' = [c \in Channels |-> {}]
  /\ DropEntries(Channels)
  /\ timers' = [t \in TimerIds |-> Idle]
  /\ ptt' = [p \in PttIds |-> Idle]
  /\ told' = [s \in Sockets |-> Nobody]
  /\ UNCHANGED muted

\* Mutes begin and end in the database, at any time.
MutesChange ==
  /\ \E m \in SUBSET Users : muted' = m
  /\ UNCHANGED gatewayVars

GatewayStep ==
  \/ \E s \in Sockets :
       \/ HandleConnection(s)
       \/ ProfileLoaded(s)
       \/ HandleDisconnect(s)
       \/ HandleLeave(s)
       \/ \E c \in Channels : HandleJoin(s, c) \/ HandlePttStart(s, c) \/ HandlePttEnd(s, c)
  \/ \E p \in PttIds :
       \/ GetMuteUntil(p)
       \/ MuteReadFails(p)
       \/ PttMuted(p)
       \/ PttBusy(p)
       \/ \E t \in TimerIds : PttGranted(p, t)
  \/ \E t \in TimerIds : TalkTimeout(t)
  \/ Tick

Next ==
  \/ GatewayStep
  \/ \E v \in Users, c \in Channels : CutMuted(v, c)
  \/ Restart
  \/ MutesChange

Spec == Init /\ [][Next]_vars

\* The clock runs and Node serves its timers; no client is assumed to act.
Fairness == WF_vars(Tick) /\ \A t \in TimerIds : WF_vars(TalkTimeout(t))

FairSpec == Spec /\ Fairness

-----------------------------------------------------------------------------
(* Properties. *)

\* A socket is in the presence map (and the room) of the channel its
\* client.channelId names and of no other, and only once it is
\* authenticated: join, switch, leave and disconnect keep the two in step.
PresenceIsMembership ==
  \A s \in Sockets :
    /\ \A c \in Channels : s \in presence[c] <=> channel[s] = c
    /\ channel[s] # NoChannel => conn[s] = "ready"

\* A speaker entry always has a pending timeout that will remove that very
\* entry, whatever presses, releases, departures and other timeouts came
\* before: no channel can stay busy because its timer got lost.
FloorHasTimer ==
  \A c \in Channels :
    IF speaker[c] = Nobody
    THEN timeout[c] = NoTimer
    ELSE /\ timeout[c] \in TimerIds
         /\ Armed(timeout[c])
         /\ timers[timeout[c]].chan = c
         /\ timers[timeout[c]].sock = speaker[c]

\* Every member of a channel other than the speaker was last told what the
\* speaker entry says: whoever can be heard is shown as speaking, and a free
\* channel is shown as free.
ListenersInformed ==
  \A c \in Channels : \A m \in presence[c] :
    /\ \A s \in Sockets \ {m} : MayTransmit(s, c) => told[m] = s
    /\ speaker[c] = Nobody => told[m] = Nobody

\* A socket that leaves a channel, by leaving, switching or disconnecting,
\* keeps neither its floor nor its raised hand there.
LeavingGivesUpAll ==
  [][\A c \in Channels, s \in Sockets :
       s \in presence[c] /\ s \notin presence'[c]
         => speaker'[c] # s /\ s \notin hands'[c]]_vars

\* The gateway implements the half-duplex floor: it never hands a channel
\* over without freeing it, and no sequence of presses keeps it longer than
\* MaxTalk (a repeated press leaves the first timeout pending, and that
\* timeout is what ends the talk).
Floor == INSTANCE TelsizFloor WITH holder <- speaker
HalfDuplexFloor == Floor!Spec

\* A busy channel is freed again, even if every client goes silent.
FloorFreed ==
  \A c \in Channels, s \in Sockets : speaker[c] = s ~> speaker[c] # s

\* A mute that lasts silences its target: a talk under way, and a press whose
\* mute was read earlier, may survive the mute for a while, but from some
\* point on the user never speaks again on any channel.
Speaks(u) == \E c \in Channels : speaker[c] # Nobody /\ userOf[speaker[c]] = u

LastingMuteSilences ==
  \A u \in Users : <>[](u \in muted) => <>[]~Speaks(u)
=============================================================================
