------------------------ MODULE TelsizGatewayProofs ------------------------
(***************************************************************************)
(* Safety of the push-to-talk gateway for any number of channels, sockets,  *)
(* timers and presses, and for any length of the talk limit; and that the   *)
(* radio as a whole, complaints and mutes included, still is this gateway.  *)
(***************************************************************************)
EXTENDS Telsiz, TLAPS

-----------------------------------------------------------------------------
(* The inductive invariant.  FloorHasTimer alone does not bound a talk: the  *)
(* timeout of the entry is that of the last press, and it is an older one,   *)
(* still pending, that ends the talk in time (TalkBounded).                  *)

TalkBounded ==
  \A c \in Channels :
    speaker[c] # Nobody =>
      \E t \in TimerIds :
        /\ Armed(t)
        /\ timers[t].chan = c
        /\ timers[t].sock = speaker[c]
        /\ timers[t].left + held[c] <= MaxTalk

EveryoneTold ==
  \A c \in Channels : \A m \in presence[c] : m # speaker[c] => told[m] = speaker[c]

IInv ==
  /\ TypeOK
  /\ PresenceIsMembership
  /\ FloorHasTimer
  /\ TalkBounded
  /\ EveryoneTold

-----------------------------------------------------------------------------
(* The type invariant. *)

LEMMA TypeKept ==
  ASSUME TypeOK, [Next]_vars
  PROVE  TypeOK'
<1> USE DEF TypeOK
<1>1. ASSUME NEW s \in Sockets, HandleConnection(s) PROVE TypeOK'
  BY <1>1 DEF HandleConnection, memory
<1>2. ASSUME NEW s \in Sockets, ProfileLoaded(s) PROVE TypeOK'
  BY <1>2 DEF ProfileLoaded, memory
<1>3. ASSUME NEW s \in Sockets, HandleDisconnect(s) PROVE TypeOK'
  BY <1>3 DEF HandleDisconnect, Leave, RemoveFromChannel, DropEntries,
              Freed, ClearTimeouts, SpeakerEnd, LowerHand
<1>4. ASSUME NEW s \in Sockets, HandleLeave(s) PROVE TypeOK'
  BY <1>4 DEF HandleLeave, Leave, RemoveFromChannel, DropEntries,
              Freed, ClearTimeouts, SpeakerEnd, LowerHand
<1>5. ASSUME NEW s \in Sockets, NEW c \in Channels, HandleJoin(s, c) PROVE TypeOK'
  BY <1>5 DEF HandleJoin, RemoveFromChannel, DropEntries,
              Freed, ClearTimeouts, SpeakerEnd, LowerHand
<1>6. ASSUME NEW s \in Sockets, NEW c \in Channels, HandlePttStart(s, c) PROVE TypeOK'
  BY <1>6 DEF HandlePttStart, memory, Ptt
<1>7. ASSUME NEW s \in Sockets, NEW c \in Channels, HandlePttEnd(s, c) PROVE TypeOK'
  BY <1>7 DEF HandlePttEnd, ReleaseSpeaker, DropEntries,
              Freed, ClearTimeouts, SpeakerEnd, LowerHand
<1>8. ASSUME NEW p \in PttIds, GetMuteUntil(p) PROVE TypeOK'
  BY <1>8 DEF GetMuteUntil, memory, Ptt
<1>9. ASSUME NEW p \in PttIds, MuteReadFails(p) \/ PttMuted(p) PROVE TypeOK'
  BY <1>9 DEF MuteReadFails, PttMuted, memory
<1>10. ASSUME NEW p \in PttIds, PttBusy(p) PROVE TypeOK'
  BY <1>10 DEF PttBusy, Ptt
<1>11. ASSUME NEW p \in PttIds, NEW t \in TimerIds, PttGranted(p, t) PROVE TypeOK'
  BY <1>11, MaxTalkAssumption DEF PttGranted, Ptt, Timer
<1>12. ASSUME NEW t \in TimerIds, TalkTimeout(t) PROVE TypeOK'
  BY <1>12 DEF TalkTimeout, DropEntries, Freed, ClearTimeouts, SpeakerEnd
<1>13. CASE Tick
  <2>1. timers' \in [TimerIds -> Timer \cup {Idle}]
    <3> SUFFICES ASSUME NEW t \in TimerIds, Armed(t)
                 PROVE  [timers[t] EXCEPT !.left = @ - 1] \in Timer
      BY <1>13 DEF Tick
    <3>1. timers[t] \in Timer /\ timers[t].left > 0
      BY <1>13 DEF Tick, Armed
    <3> QED
      BY <3>1, MaxTalkAssumption DEF Timer
  <2> QED
    BY <1>13, <2>1 DEF Tick
<1>14. ASSUME NEW v \in Users, NEW c \in Channels, CutMuted(v, c) PROVE TypeOK'
  BY <1>14 DEF CutMuted, ReleaseSpeaker, DropEntries, Freed, ClearTimeouts,
               SpeakerEnd
<1>15. CASE Restart
  BY <1>15 DEF Restart, DropEntries
<1>16. CASE MutesChange
  BY <1>16 DEF MutesChange, gatewayVars, memory
<1>17. CASE UNCHANGED vars
  BY <1>17 DEF vars, gatewayVars, memory
<1> QED
  BY <1>1, <1>2, <1>3, <1>4, <1>5, <1>6, <1>7, <1>8, <1>9, <1>10, <1>11,
     <1>12, <1>13, <1>14, <1>15, <1>16, <1>17 DEF Next, GatewayStep

-----------------------------------------------------------------------------
(* The two ways the floor of channels changes hands: entries dropped with    *)
(* their timeouts cleared, and nothing else of theirs touched.               *)

Dropped(freed) ==
  /\ freed \subseteq {c \in Channels : speaker[c] # Nobody}
  /\ DropEntries(freed)
  /\ timers' = ClearTimeouts(freed)

LEMMA DropKeepsFloorHasTimer ==
  ASSUME TypeOK, FloorHasTimer, NEW freed, Dropped(freed)
  PROVE  FloorHasTimer'
<1> SUFFICES ASSUME NEW c \in Channels
             PROVE  FloorHasTimer!(c)'
  BY DEF FloorHasTimer
<1>1. CASE c \in freed
  BY <1>1 DEF Dropped, DropEntries, TypeOK
<1>2. CASE c \notin freed
  BY <1>2, IdleAssumption, NullAssumption
  DEF Dropped, DropEntries, ClearTimeouts, TypeOK, FloorHasTimer, Armed
<1> QED
  BY <1>1, <1>2

LEMMA DropKeepsTalkBounded ==
  ASSUME TypeOK, FloorHasTimer, TalkBounded, NEW freed, Dropped(freed)
  PROVE  TalkBounded'
<1> SUFFICES ASSUME NEW c \in Channels, speaker'[c] # Nobody
             PROVE  \E t \in TimerIds :
                      /\ timers'[t] # Idle
                      /\ timers'[t].chan = c
                      /\ timers'[t].sock = speaker'[c]
                      /\ timers'[t].left + held'[c] <= MaxTalk
  BY DEF TalkBounded, Armed
<1>1. c \notin freed /\ speaker[c] # Nobody /\ speaker'[c] = speaker[c] /\ held'[c] = held[c]
  BY DEF Dropped, DropEntries, TypeOK
<1>2. PICK t \in TimerIds : /\ Armed(t)
                           /\ timers[t].chan = c
                           /\ timers[t].sock = speaker[c]
                           /\ timers[t].left + held[c] <= MaxTalk
  BY <1>1 DEF TalkBounded
<1>3. \A d \in freed : timeout[d] # t
  BY <1>1, <1>2 DEF FloorHasTimer, Dropped
<1>4. timers'[t] = timers[t]
  BY <1>3 DEF Dropped, ClearTimeouts
<1> QED
  BY <1>1, <1>2, <1>4 DEF Armed

\* Seen from the floor, a step is one of these.
LEMMA FloorSteps ==
  ASSUME TypeOK, [Next]_vars
  PROVE  \/ UNCHANGED <<speaker, timeout, timers, held>>
         \/ \E freed \in SUBSET Channels : Dropped(freed)
         \/ \E p \in PttIds, t \in TimerIds : PttGranted(p, t)
         \/ \E t \in TimerIds : TalkTimeout(t)
         \/ Tick
         \/ Restart
<1>1. ASSUME NEW s \in Sockets, NEW cs,
             DropEntries(Freed(cs, s)), timers' = ClearTimeouts(Freed(cs, s)),
             cs \subseteq Channels
      PROVE  \E freed \in SUBSET Channels : Dropped(freed)
  <2>1. Freed(cs, s) \subseteq {c \in Channels : speaker[c] # Nobody}
    BY <1>1, NullAssumption DEF Freed
  <2> QED
    BY <1>1, <2>1 DEF Dropped
<1>2. ASSUME NEW s \in Sockets, HandleDisconnect(s) \/ HandleLeave(s)
      PROVE  \E freed \in SUBSET Channels : Dropped(freed)
  <2>1. {channel[s]} \ {NoChannel} \subseteq Channels
    BY DEF TypeOK
  <2> QED
    BY <1>1, <1>2, <2>1 DEF HandleDisconnect, HandleLeave, Leave, RemoveFromChannel
<1>3. ASSUME NEW s \in Sockets, NEW c \in Channels, HandleJoin(s, c)
      PROVE  \E freed \in SUBSET Channels : Dropped(freed)
  <2>1. {channel[s]} \ {NoChannel, c} \subseteq Channels
    BY DEF TypeOK
  <2> QED
    BY <1>1, <1>3, <2>1 DEF HandleJoin, RemoveFromChannel
<1>4. ASSUME NEW s \in Sockets, NEW c \in Channels, HandlePttEnd(s, c)
      PROVE  \E freed \in SUBSET Channels : Dropped(freed)
  BY <1>1, <1>4 DEF HandlePttEnd, ReleaseSpeaker
<1>5. ASSUME NEW v \in Users, NEW c \in Channels, CutMuted(v, c)
      PROVE  \/ UNCHANGED <<speaker, timeout, timers, held>>
             \/ \E freed \in SUBSET Channels : Dropped(freed)
  <2>1. CASE speaker[c] # Nobody /\ userOf[speaker[c]] = v
    <3>1. speaker[c] \in Sockets
      BY <2>1 DEF TypeOK
    <3> QED
      BY <1>1, <1>5, <2>1, <3>1 DEF CutMuted, ReleaseSpeaker
  <2> QED
    BY <1>5, <2>1 DEF CutMuted
<1>6. ASSUME NEW s \in Sockets, NEW c \in Channels, HandlePttStart(s, c)
      PROVE  UNCHANGED <<speaker, timeout, timers, held>>
  BY <1>6 DEF HandlePttStart, memory
<1>7. ASSUME NEW p \in PttIds,
             GetMuteUntil(p) \/ MuteReadFails(p) \/ PttMuted(p) \/ PttBusy(p)
      PROVE  UNCHANGED <<speaker, timeout, timers, held>>
  <2>1. CASE PttBusy(p)
    BY <2>1 DEF PttBusy
  <2> QED
    BY <1>7, <2>1 DEF GetMuteUntil, MuteReadFails, PttMuted, memory
<1>8. CASE MutesChange \/ UNCHANGED vars
  BY <1>8 DEF MutesChange, vars, gatewayVars, memory
<1>9. ASSUME NEW s \in Sockets, HandleConnection(s) \/ ProfileLoaded(s)
      PROVE  UNCHANGED <<speaker, timeout, timers, held>>
  BY <1>9 DEF HandleConnection, ProfileLoaded, memory
<1> QED
  BY <1>2, <1>3, <1>4, <1>5, <1>6, <1>7, <1>8, <1>9 DEF Next, GatewayStep

-----------------------------------------------------------------------------
(* The floor and its timers. *)

LEMMA FloorHasTimerKept ==
  ASSUME TypeOK, FloorHasTimer, [Next]_vars
  PROVE  FloorHasTimer'
<1>1. CASE UNCHANGED <<speaker, timeout, timers, held>>
  BY <1>1 DEF FloorHasTimer, Armed
<1>2. ASSUME NEW freed \in SUBSET Channels, Dropped(freed) PROVE FloorHasTimer'
  BY <1>2, DropKeepsFloorHasTimer
<1>3. ASSUME NEW p \in PttIds, NEW t \in TimerIds, PttGranted(p, t) PROVE FloorHasTimer'
  <2> DEFINE c == ptt[p].chan
             s == ptt[p].sock
             timer == [chan |-> c, sock |-> s, left |-> MaxTalk]
  <2>1. c \in Channels /\ s \in Sockets
    BY <1>3 DEF PttGranted, TypeOK, Ptt
  <2>2. timer # Idle
    BY <2>1, IdleAssumption, MaxTalkAssumption DEF Timer
  <2>3. /\ timers' = [timers EXCEPT ![t] = timer]
        /\ speaker' = [speaker EXCEPT ![c] = s]
        /\ timeout' = [timeout EXCEPT ![c] = t]
        /\ timers[t] = Idle
    BY <1>3 DEF PttGranted, Armed
  <2> SUFFICES ASSUME NEW d \in Channels
               PROVE  FloorHasTimer!(d)'
    BY DEF FloorHasTimer
  <2>4. CASE d = c
    BY <2>1, <2>2, <2>3, <2>4, NullAssumption DEF TypeOK, Armed
  <2>5. CASE d # c
    <3>1. speaker'[d] = speaker[d] /\ timeout'[d] = timeout[d]
      BY <2>3, <2>5 DEF TypeOK
    <3>2. speaker[d] # Nobody => timeout[d] # t
      BY <2>3 DEF FloorHasTimer, Armed
    <3> QED
      BY <2>3, <3>1, <3>2 DEF FloorHasTimer, Armed, TypeOK
  <2> QED
    BY <2>4, <2>5
<1>4. ASSUME NEW t \in TimerIds, TalkTimeout(t) PROVE FloorHasTimer'
  <2> DEFINE freed == Freed({timers[t].chan}, timers[t].sock)
  <2>1. timers[t] \in Timer
    BY <1>4 DEF TalkTimeout, Armed, TypeOK
  <2> SUFFICES ASSUME NEW c \in Channels
               PROVE  FloorHasTimer!(c)'
    BY DEF FloorHasTimer
  <2>2. /\ speaker'[c] = IF c \in freed THEN Nobody ELSE speaker[c]
        /\ timeout'[c] = IF c \in freed THEN NoTimer ELSE timeout[c]
    BY <1>4 DEF TalkTimeout, DropEntries
  <2>3. ASSUME c \notin freed, speaker[c] # Nobody
        PROVE  timers'[timeout[c]] = timers[timeout[c]]
    <3>1. timeout[c] # t
      BY <2>3 DEF FloorHasTimer, Freed
    <3>2. \A d \in freed : timeout[d] # timeout[c]
      BY <2>1, <2>3, NullAssumption DEF FloorHasTimer, Freed, Timer
    <3>3. timeout[c] \in TimerIds
      BY <2>3 DEF FloorHasTimer
    <3> QED
      BY <1>4, <3>1, <3>2, <3>3 DEF TalkTimeout, ClearTimeouts
  <2> QED
    BY <2>2, <2>3 DEF FloorHasTimer, Armed
<1>5. CASE Tick
  <2> SUFFICES ASSUME NEW c \in Channels
               PROVE  FloorHasTimer!(c)'
    BY DEF FloorHasTimer
  <2>1. speaker' = speaker /\ timeout' = timeout
    BY <1>5 DEF Tick
  <2>2. ASSUME speaker[c] # Nobody
        PROVE  timers'[timeout[c]] = [timers[timeout[c]] EXCEPT !.left = @ - 1]
    BY <1>5, <2>2 DEF Tick, FloorHasTimer
  <2>3. ASSUME speaker[c] # Nobody
        PROVE  timers'[timeout[c]] \in Timer
    <3>1. timers[timeout[c]] \in Timer /\ timers[timeout[c]].left > 0
      BY <1>5, <2>3 DEF Tick, FloorHasTimer, TypeOK, Armed
    <3> QED
      BY <2>2, <2>3, <3>1, MaxTalkAssumption DEF Timer
  <2>4. ASSUME speaker[c] # Nobody
        PROVE  timers[timeout[c]] \in Timer
    BY <2>4 DEF FloorHasTimer, TypeOK, Armed
  <2> QED
    BY <2>1, <2>2, <2>3, <2>4, IdleAssumption DEF FloorHasTimer, Armed, Timer
<1>6. CASE Restart
  BY <1>6 DEF Restart, DropEntries, FloorHasTimer
<1> QED
  BY <1>1, <1>2, <1>3, <1>4, <1>5, <1>6, FloorSteps

LEMMA TalkBoundedKept ==
  ASSUME TypeOK, FloorHasTimer, TalkBounded, [Next]_vars
  PROVE  TalkBounded'
<1>1. CASE UNCHANGED <<speaker, timeout, timers, held>>
  BY <1>1 DEF TalkBounded, Armed
<1>2. ASSUME NEW freed \in SUBSET Channels, Dropped(freed) PROVE TalkBounded'
  BY <1>2, DropKeepsTalkBounded
<1>3. ASSUME NEW p \in PttIds, NEW t \in TimerIds, PttGranted(p, t) PROVE TalkBounded'
  <2> DEFINE c == ptt[p].chan
             s == ptt[p].sock
             timer == [chan |-> c, sock |-> s, left |-> MaxTalk]
  <2>1. c \in Channels /\ s \in Sockets
    BY <1>3 DEF PttGranted, TypeOK, Ptt
  <2>2. timer # Idle
    BY <2>1, IdleAssumption, MaxTalkAssumption DEF Timer
  <2>3. /\ timers' = [timers EXCEPT ![t] = timer]
        /\ speaker' = [speaker EXCEPT ![c] = s]
        /\ held' = [held EXCEPT ![c] = IF speaker[c] = s THEN @ ELSE 0]
        /\ timers[t] = Idle
        /\ speaker[c] \in {Nobody, s}
    BY <1>3 DEF PttGranted, Armed, Busy
  <2> SUFFICES ASSUME NEW d \in Channels, speaker'[d] # Nobody
               PROVE  \E u \in TimerIds :
                        /\ timers'[u] # Idle
                        /\ timers'[u].chan = d
                        /\ timers'[u].sock = speaker'[d]
                        /\ timers'[u].left + held'[d] <= MaxTalk
    BY DEF TalkBounded, Armed
  <2>4. CASE d = c /\ speaker[c] # s
    \* A fresh talk: its own timer bounds it.
    <3>1. timers'[t] = timer /\ held'[d] = 0 /\ speaker'[d] = s
      BY <2>1, <2>3, <2>4 DEF TypeOK
    <3> QED
      BY <2>2, <2>4, <3>1, MaxTalkAssumption
  <2>5. CASE d # c \/ speaker[c] = s
    \* The talk was under way, and so was the timer that bounds it.
    <3>1. speaker'[d] = speaker[d] /\ held'[d] = held[d]
      BY <2>3, <2>5 DEF TypeOK
    <3>2. PICK u \in TimerIds : /\ Armed(u)
                               /\ timers[u].chan = d
                               /\ timers[u].sock = speaker[d]
                               /\ timers[u].left + held[d] <= MaxTalk
      BY <3>1 DEF TalkBounded
    <3>3. timers'[u] = timers[u]
      BY <2>3, <3>2 DEF Armed, TypeOK
    <3> QED
      BY <3>1, <3>2, <3>3 DEF Armed
  <2> QED
    BY <2>4, <2>5
<1>4. ASSUME NEW t \in TimerIds, TalkTimeout(t) PROVE TalkBounded'
  <2> DEFINE freed == Freed({timers[t].chan}, timers[t].sock)
  <2> SUFFICES ASSUME NEW c \in Channels, speaker'[c] # Nobody
               PROVE  \E u \in TimerIds :
                        /\ timers'[u] # Idle
                        /\ timers'[u].chan = c
                        /\ timers'[u].sock = speaker'[c]
                        /\ timers'[u].left + held'[c] <= MaxTalk
    BY DEF TalkBounded, Armed
  <2>1. c \notin freed /\ speaker'[c] = speaker[c] /\ held'[c] = held[c]
    BY <1>4 DEF TalkTimeout, DropEntries
  <2>2. PICK u \in TimerIds : /\ Armed(u)
                             /\ timers[u].chan = c
                             /\ timers[u].sock = speaker[c]
                             /\ timers[u].left + held[c] <= MaxTalk
    BY <2>1 DEF TalkBounded
  <2>3. timers[t] \in Timer
    BY <1>4 DEF TalkTimeout, Armed, TypeOK
  <2>4. u # t
    BY <2>1, <2>2 DEF Freed
  <2>5. \A d \in freed : timeout[d] # u
    BY <2>1, <2>2, <2>3, NullAssumption DEF FloorHasTimer, Freed, Timer
  <2>6. timers'[u] = timers[u]
    BY <1>4, <2>4, <2>5 DEF TalkTimeout, ClearTimeouts
  <2> QED
    BY <2>1, <2>2, <2>6 DEF Armed
<1>5. CASE Tick
  <2> SUFFICES ASSUME NEW c \in Channels, speaker[c] # Nobody
               PROVE  \E t \in TimerIds :
                        /\ timers'[t] # Idle
                        /\ timers'[t].chan = c
                        /\ timers'[t].sock = speaker[c]
                        /\ timers'[t].left + held'[c] <= MaxTalk
    BY <1>5 DEF Tick, TalkBounded, Armed
  <2>1. PICK t \in TimerIds : /\ Armed(t)
                             /\ timers[t].chan = c
                             /\ timers[t].sock = speaker[c]
                             /\ timers[t].left + held[c] <= MaxTalk
    BY DEF TalkBounded
  <2>2. timers[t] \in Timer /\ timers[t].left > 0 /\ held[c] \in Nat
    BY <1>5, <2>1 DEF Tick, TypeOK, Armed
  <2>3. timers'[t] = [timers[t] EXCEPT !.left = @ - 1] /\ held'[c] = held[c] + 1
    BY <1>5, <2>1 DEF Tick
  <2>4. timers'[t] \in Timer
    BY <2>2, <2>3, MaxTalkAssumption DEF Timer
  <2>5. timers'[t].chan = c /\ timers'[t].sock = speaker[c]
    BY <2>1, <2>2, <2>3 DEF Timer
  <2>6. timers'[t].left = timers[t].left - 1
    BY <2>2, <2>3 DEF Timer
  <2>7. timers'[t].left + held'[c] <= MaxTalk
    <3>1. timers[t].left \in Int
      BY <2>2 DEF Timer
    <3> QED
      BY <2>1, <2>2, <2>3, <2>6, <3>1, MaxTalkAssumption
  <2> QED
    BY <2>4, <2>5, <2>7, IdleAssumption
<1>6. CASE Restart
  BY <1>6 DEF Restart, DropEntries, TalkBounded
<1> QED
  BY <1>1, <1>2, <1>3, <1>4, <1>5, <1>6, FloorSteps

-----------------------------------------------------------------------------
(* Membership. *)

\* Seen from the presence map, a step is one of these.
LEMMA MembershipSteps ==
  ASSUME TypeOK, [Next]_vars
  PROVE  \/ UNCHANGED <<channel, presence>> /\ \A s \in Sockets : conn[s] = "ready" => conn'[s] = "ready"
         \/ \E s \in Sockets : HandleDisconnect(s) \/ HandleLeave(s)
         \/ \E s \in Sockets, c \in Channels : HandleJoin(s, c)
         \/ Restart
<1>1. ASSUME NEW s \in Sockets, HandleConnection(s) \/ ProfileLoaded(s)
      PROVE  /\ UNCHANGED <<channel, presence>>
             /\ \A r \in Sockets : conn[r] = "ready" => conn'[r] = "ready"
  BY <1>1 DEF HandleConnection, ProfileLoaded, memory, TypeOK
<1>2. ASSUME NEW s \in Sockets, NEW c \in Channels,
             HandlePttStart(s, c) \/ HandlePttEnd(s, c)
      PROVE  UNCHANGED <<conn, channel, presence>>
  BY <1>2 DEF HandlePttStart, HandlePttEnd, memory
<1>3. ASSUME NEW p \in PttIds,
             \/ GetMuteUntil(p) \/ MuteReadFails(p) \/ PttMuted(p) \/ PttBusy(p)
             \/ \E t \in TimerIds : PttGranted(p, t)
      PROVE  UNCHANGED <<conn, channel, presence>>
  BY <1>3 DEF GetMuteUntil, MuteReadFails, PttMuted, PttBusy, PttGranted, memory
<1>4. ASSUME \/ \E t \in TimerIds : TalkTimeout(t)
             \/ Tick
             \/ \E v \in Users, c \in Channels : CutMuted(v, c)
             \/ MutesChange
             \/ UNCHANGED vars
      PROVE  UNCHANGED <<conn, channel, presence>>
  BY <1>4 DEF TalkTimeout, Tick, CutMuted, MutesChange, vars, gatewayVars, memory
<1> QED
  BY <1>1, <1>2, <1>3, <1>4 DEF Next, GatewayStep

LEMMA MembershipKept ==
  ASSUME TypeOK, PresenceIsMembership, [Next]_vars
  PROVE  PresenceIsMembership'
<1>1. CASE UNCHANGED <<channel, presence>> /\ \A s \in Sockets : conn[s] = "ready" => conn'[s] = "ready"
  BY <1>1 DEF PresenceIsMembership
<1>2. ASSUME NEW s \in Sockets, HandleDisconnect(s) \/ HandleLeave(s)
      PROVE  PresenceIsMembership'
  <2>1. /\ channel' = [channel EXCEPT ![s] = NoChannel]
        /\ presence' = [c \in Channels |->
                         IF c \in {channel[s]} \ {NoChannel} THEN presence[c] \ {s}
                                                           ELSE presence[c]]
        /\ \A r \in Sockets \ {s} : conn'[r] = conn[r]
    BY <1>2 DEF HandleDisconnect, HandleLeave, Leave, TypeOK
  <2> QED
    BY <2>1, NullAssumption DEF PresenceIsMembership, TypeOK
<1>3. ASSUME NEW s \in Sockets, NEW c \in Channels, HandleJoin(s, c)
      PROVE  PresenceIsMembership'
  <2>1. /\ channel' = [channel EXCEPT ![s] = c]
        /\ presence' = [d \in Channels |->
                         IF d = c THEN presence[d] \cup {s}
                         ELSE IF d \in {channel[s]} \ {NoChannel, c} THEN presence[d] \ {s}
                         ELSE presence[d]]
        /\ conn' = conn
        /\ conn[s] = "ready"
    BY <1>3 DEF HandleJoin
  <2> QED
    BY <2>1, NullAssumption DEF PresenceIsMembership, TypeOK
<1>4. CASE Restart
  BY <1>4, NullAssumption DEF Restart, PresenceIsMembership
<1> QED
  BY <1>1, <1>2, <1>3, <1>4, MembershipSteps

\* A channel that is freed is announced to everyone in its room.
LEMMA EndReachesRoom ==
  ASSUME TypeOK, PresenceIsMembership, EveryoneTold,
         NEW freed, DropEntries(freed), freed \subseteq Channels,
         NEW c \in Channels, NEW m \in presence[c], m # speaker'[c]
  PROVE  SpeakerEnd(freed)[m] = speaker'[c]
<1>1. m \in Sockets /\ \A d \in Channels : m \in presence[d] => d = c
  BY DEF TypeOK, PresenceIsMembership
<1>2. CASE c \in freed
  BY <1>1, <1>2 DEF DropEntries, SpeakerEnd
<1>3. CASE c \notin freed
  BY <1>1, <1>3 DEF DropEntries, SpeakerEnd, EveryoneTold
<1> QED
  BY <1>2, <1>3

LEMMA EveryoneToldKept ==
  ASSUME TypeOK, PresenceIsMembership, EveryoneTold, [Next]_vars
  PROVE  EveryoneTold'
<1>1. CASE UNCHANGED <<presence, speaker, told>>
  BY <1>1 DEF EveryoneTold
<1>2. ASSUME NEW freed \in SUBSET Channels, DropEntries(freed),
             told' = SpeakerEnd(freed), presence' = presence
      PROVE  EveryoneTold'
  BY <1>2, EndReachesRoom DEF EveryoneTold
<1>3. ASSUME NEW s \in Sockets, HandleDisconnect(s) \/ HandleLeave(s)
      PROVE  EveryoneTold'
  <2> DEFINE left == {channel[s]} \ {NoChannel}
  <2>1. /\ DropEntries(Freed(left, s))
        /\ told' = [SpeakerEnd(Freed(left, s)) EXCEPT ![s] = Nobody]
        /\ presence' = [c \in Channels |-> IF c \in left THEN presence[c] \ {s}
                                                        ELSE presence[c]]
    BY <1>3 DEF HandleDisconnect, HandleLeave, Leave, RemoveFromChannel
  <2>2. Freed(left, s) \subseteq Channels
    BY DEF TypeOK, Freed
  <2> SUFFICES ASSUME NEW c \in Channels, NEW m \in presence'[c], m # speaker'[c]
               PROVE  told'[m] = speaker'[c]
    BY DEF EveryoneTold
  <2>3. m \in presence[c] /\ m # s
    BY <2>1, NullAssumption DEF PresenceIsMembership, TypeOK
  <2>4. told'[m] = SpeakerEnd(Freed(left, s))[m]
    BY <2>1, <2>3 DEF SpeakerEnd, TypeOK
  <2> QED
    BY <2>1, <2>2, <2>3, <2>4, EndReachesRoom
<1>4. ASSUME NEW s \in Sockets, NEW d \in Channels, HandleJoin(s, d)
      PROVE  EveryoneTold'
  <2> DEFINE left == {channel[s]} \ {NoChannel, d}
  <2>1. /\ DropEntries(Freed(left, s))
        /\ told' = [SpeakerEnd(Freed(left, s)) EXCEPT ![s] = speaker[d]]
        /\ presence' = [c \in Channels |->
                         IF c = d THEN presence[c] \cup {s}
                         ELSE IF c \in left THEN presence[c] \ {s}
                         ELSE presence[c]]
    BY <1>4 DEF HandleJoin, RemoveFromChannel
  <2>2. Freed(left, s) \subseteq Channels
    BY DEF TypeOK, Freed
  <2> SUFFICES ASSUME NEW c \in Channels, NEW m \in presence'[c], m # speaker'[c]
               PROVE  told'[m] = speaker'[c]
    BY DEF EveryoneTold
  <2>3. CASE m = s
    <3>1. c = d
      BY <2>1, <2>3, NullAssumption DEF PresenceIsMembership, TypeOK
    <3>2. speaker'[d] = speaker[d]
      BY <2>1 DEF DropEntries, Freed
    <3> QED
      BY <2>1, <2>3, <3>1, <3>2 DEF SpeakerEnd
  <2>4. CASE m # s
    <3>1. m \in presence[c]
      BY <2>1, <2>4
    <3>2. told'[m] = SpeakerEnd(Freed(left, s))[m]
      BY <2>1, <2>4, <3>1 DEF SpeakerEnd, TypeOK
    <3> QED
      BY <2>1, <2>2, <3>1, <3>2, EndReachesRoom
  <2> QED
    BY <2>3, <2>4
<1>5. ASSUME NEW p \in PttIds, NEW t \in TimerIds, PttGranted(p, t)
      PROVE  EveryoneTold'
  <2> DEFINE d == ptt[p].chan
             s == ptt[p].sock
  <2>1. d \in Channels /\ s \in Sockets
    BY <1>5 DEF PttGranted, TypeOK, Ptt
  <2>2. /\ speaker' = [speaker EXCEPT ![d] = s]
        /\ told' = [m \in Sockets |-> IF m \in presence[d] \ {s} THEN s ELSE told[m]]
        /\ presence' = presence
    BY <1>5 DEF PttGranted
  <2> SUFFICES ASSUME NEW c \in Channels, NEW m \in presence[c], m # speaker'[c]
               PROVE  told'[m] = speaker'[c]
    BY <2>2 DEF EveryoneTold
  <2>3. CASE c = d
    BY <2>1, <2>2, <2>3 DEF TypeOK
  <2>4. CASE c # d
    <3>1. m \in Sockets /\ m \notin presence[d] /\ speaker'[c] = speaker[c]
      BY <2>1, <2>2, <2>4 DEF PresenceIsMembership, TypeOK
    <3> QED
      BY <2>2, <3>1 DEF EveryoneTold
  <2> QED
    BY <2>3, <2>4
<1>6. CASE Restart
  BY <1>6 DEF Restart, EveryoneTold
<1>7. ASSUME NEW s \in Sockets, NEW c \in Channels, HandlePttEnd(s, c)
      PROVE  EveryoneTold'
  <2>1. Freed({c}, s) \in SUBSET Channels
    BY DEF Freed
  <2> QED
    BY <1>2, <1>7, <2>1 DEF HandlePttEnd, ReleaseSpeaker
<1>8. ASSUME NEW v \in Users, NEW c \in Channels, CutMuted(v, c)
      PROVE  EveryoneTold'
  <2>1. Freed({c}, speaker[c]) \in SUBSET Channels
    BY DEF Freed
  <2>2. CASE speaker[c] # Nobody /\ userOf[speaker[c]] = v
    BY <1>2, <1>8, <2>1, <2>2 DEF CutMuted, ReleaseSpeaker
  <2> QED
    BY <1>1, <1>8, <2>2 DEF CutMuted
<1>9. ASSUME NEW t \in TimerIds, TalkTimeout(t) PROVE EveryoneTold'
  <2>1. Freed({timers[t].chan}, timers[t].sock) \in SUBSET Channels
    BY <1>9 DEF TalkTimeout, Freed, Armed, TypeOK, Timer
  <2> QED
    BY <1>2, <1>9, <2>1 DEF TalkTimeout
<1>10. ASSUME \/ \E s \in Sockets :
                   \/ HandleConnection(s) \/ ProfileLoaded(s)
                   \/ \E c \in Channels : HandlePttStart(s, c)
              \/ \E p \in PttIds :
                   GetMuteUntil(p) \/ MuteReadFails(p) \/ PttMuted(p) \/ PttBusy(p)
              \/ Tick
              \/ MutesChange
              \/ UNCHANGED vars
       PROVE  UNCHANGED <<presence, speaker, told>>
  BY <1>10 DEF HandleConnection, ProfileLoaded, HandlePttStart, GetMuteUntil,
               MuteReadFails, PttMuted, PttBusy, Tick, MutesChange, vars,
               gatewayVars, memory
<1> QED
  BY <1>1, <1>3, <1>4, <1>5, <1>6, <1>7, <1>8, <1>9, <1>10 DEF Next, GatewayStep

-----------------------------------------------------------------------------
(* The theorems. *)

LEMMA Inductive == Spec => []IInv
<1>1. Init => IInv
  BY NullAssumption, MaxTalkAssumption
  DEF Init, IInv, TypeOK, PresenceIsMembership, FloorHasTimer, TalkBounded, EveryoneTold
<1>2. IInv /\ [Next]_vars => IInv'
  BY TypeKept, MembershipKept, FloorHasTimerKept, TalkBoundedKept, EveryoneToldKept DEF IInv
<1> QED
  BY <1>1, <1>2, PTL DEF Spec

\* Every variable keeps its type, in every reachable state.
THEOREM TypeCorrect == Spec => []TypeOK
BY Inductive, PTL DEF IInv

\* join, switch, leave, disconnect and restart keep the presence map and
\* client.channelId in step, for any number of sockets and channels.
THEOREM PresenceCorrect == Spec => []PresenceIsMembership
BY Inductive, PTL DEF IInv

\* A busy channel never loses the timer that will free it.
THEOREM FloorTimerNeverLost == Spec => []FloorHasTimer
BY Inductive, PTL DEF IInv

\* Nobody is heard on a channel without being shown there as speaking, and a
\* free channel is shown as free.
THEOREM ListenersAlwaysInformed == Spec => []ListenersInformed
<1>1. IInv => ListenersInformed
  <2> SUFFICES ASSUME IInv, NEW c \in Channels, NEW m \in presence[c]
               PROVE  /\ \A s \in Sockets \ {m} : MayTransmit(s, c) => told[m] = s
                      /\ speaker[c] = Nobody => told[m] = Nobody
    BY DEF ListenersInformed
  <2>1. m \in Sockets /\ (m # speaker[c] => told[m] = speaker[c])
    BY DEF IInv, EveryoneTold, TypeOK
  <2> QED
    BY <2>1, NullAssumption DEF MayTransmit
<1> QED
  BY <1>1, Inductive, PTL

\* Whoever leaves a channel gives up its floor and its raised hand there.
THEOREM LeavingGivesUp == Spec => LeavingGivesUpAll
<1>1. ASSUME IInv, [Next]_vars, NEW c \in Channels, NEW s \in Sockets,
             s \in presence[c], s \notin presence'[c]
      PROVE  speaker'[c] # s /\ s \notin hands'[c]
  <2> USE DEF IInv
  <2>1. channel[s] = c /\ c # NoChannel
    BY <1>1, NullAssumption DEF PresenceIsMembership
  <2>2. ASSUME NEW r \in Sockets, HandleDisconnect(r) \/ HandleLeave(r)
        PROVE  speaker'[c] # s /\ s \notin hands'[c]
    <3>1. Leave(r)
      BY <2>2 DEF HandleDisconnect, HandleLeave
    <3>2. r = s
      BY <1>1, <3>1 DEF Leave
    <3> QED
      BY <1>1, <2>1, <3>1, <3>2, NullAssumption
      DEF Leave, RemoveFromChannel, DropEntries, LowerHand, Freed
  <2>3. ASSUME NEW r \in Sockets, NEW d \in Channels, HandleJoin(r, d)
        PROVE  speaker'[c] # s /\ s \notin hands'[c]
    <3>1. r = s /\ d # c
      BY <1>1, <2>3 DEF HandleJoin
    <3> QED
      BY <1>1, <2>1, <2>3, <3>1, NullAssumption
      DEF HandleJoin, RemoveFromChannel, DropEntries, LowerHand, Freed
  <2>4. CASE Restart
    BY <2>4, NullAssumption DEF Restart, DropEntries
  <2> QED
    BY <1>1, <2>2, <2>3, <2>4, MembershipSteps
<1>2. IInv /\ [Next]_vars => [\A c \in Channels, s \in Sockets :
                               s \in presence[c] /\ s \notin presence'[c]
                                 => speaker'[c] # s /\ s \notin hands'[c]]_vars
  BY <1>1
<1> QED
  BY <1>2, Inductive, PTL DEF Spec, LeavingGivesUpAll

\* The gateway implements TelsizFloor: the floor of a channel passes on only
\* after having been free, and no sequence of presses holds it beyond MaxTalk.
THEOREM ImplementsFloor == Spec => HalfDuplexFloor
<1>1. Init => Floor!Init
  BY DEF Init, Floor!Init
<1>2. ASSUME IInv, [Next]_vars
      PROVE  [Floor!Next]_(Floor!floorVars)
  <2> USE DEF Floor!floorVars, Floor!Next
  <2>1. CASE UNCHANGED <<speaker, timeout, timers, held>>
    BY <2>1
  <2>2. ASSUME NEW freed \in SUBSET Channels, DropEntries(freed)
        PROVE  Floor!Yield(freed)
    BY <2>2 DEF DropEntries, Floor!Yield
  <2>3. ASSUME NEW p \in PttIds, NEW t \in TimerIds, PttGranted(p, t)
        PROVE  [Floor!Next]_(Floor!floorVars)
    <3> DEFINE c == ptt[p].chan
               s == ptt[p].sock
    <3>1. c \in Channels /\ s \in Sockets
      BY <1>2, <2>3 DEF PttGranted, IInv, TypeOK, Ptt
    <3>2. /\ speaker' = [speaker EXCEPT ![c] = s]
          /\ held' = [held EXCEPT ![c] = IF speaker[c] = s THEN @ ELSE 0]
          /\ speaker[c] \in {Nobody, s}
      BY <2>3 DEF PttGranted, Busy
    <3>3. CASE speaker[c] = s
      BY <1>2, <3>1, <3>2, <3>3 DEF IInv, TypeOK
    <3>4. CASE speaker[c] = Nobody
      <4>1. Floor!Take(c, s)
        BY <1>2, <3>1, <3>2, <3>4, NullAssumption DEF IInv, TypeOK, Floor!Take
      <4> QED
        BY <3>1, <4>1
    <3> QED
      BY <3>2, <3>3, <3>4
  <2>4. ASSUME NEW t \in TimerIds, TalkTimeout(t)
        PROVE  Floor!Next
    <3>1. Freed({timers[t].chan}, timers[t].sock) \in SUBSET Channels
      BY <1>2, <2>4 DEF TalkTimeout, Freed, Armed, IInv, TypeOK, Timer
    <3> QED
      BY <2>2, <2>4, <3>1 DEF TalkTimeout
  <2>5. CASE Tick
    <3>1. ASSUME NEW c \in Channels, speaker[c] # Nobody
          PROVE  held[c] < MaxTalk
      <4>1. PICK t \in TimerIds : Armed(t) /\ timers[t].left + held[c] <= MaxTalk
        BY <1>2, <3>1 DEF IInv, TalkBounded
      <4>2. timers[t] \in Timer /\ timers[t].left > 0 /\ held[c] \in Nat
        BY <1>2, <2>5, <4>1 DEF Tick, IInv, TypeOK, Armed
      <4>3. timers[t].left \in Int
        BY <4>2 DEF Timer
      <4> QED
        BY <4>1, <4>2, <4>3, MaxTalkAssumption
    <3> QED
      BY <2>5, <3>1 DEF Tick, Floor!Tick
  <2>6. CASE Restart
    BY <2>2, <2>6 DEF Restart
  <2> QED
    BY <1>2, <2>1, <2>2, <2>3, <2>4, <2>5, <2>6, FloorSteps DEF IInv, Dropped
<1> QED
  BY <1>1, <1>2, Inductive, PTL DEF Spec, HalfDuplexFloor, Floor!Spec


-----------------------------------------------------------------------------
(* The radio as a whole: each of its parts behaves in it as it does alone, so *)
(* that the theorems about the gateway and those about the moderation hold of  *)
(* the two together.                                                           *)

\* A call of report() is about a user and a channel: that user is muted, and cut there.
ReportsAreAboutUsers ==
  /\ DOMAIN calls = ReportIds
  /\ \A r \in ReportIds : calls[r] # NoReport => 
       /\ {"about", "chan"} \subseteq DOMAIN calls[r]
       /\ calls[r].about \in Users /\ calls[r].chan \in Channels
  /\ muted \subseteq Users

LEMMA GatewayLeavesMutes ==
  ASSUME GatewayStep
  PROVE  UNCHANGED muted
BY DEF GatewayStep, HandleConnection, ProfileLoaded, HandleDisconnect, HandleLeave, HandleJoin,
       HandlePttStart, HandlePttEnd, GetMuteUntil, MuteReadFails, PttMuted, PttBusy, PttGranted,
       TalkTimeout, Tick

LEMMA ReportsStart == TelsizInit => ReportsAreAboutUsers
  BY DEF TelsizInit, Mod!Init, ReportsAreAboutUsers

LEMMA ReportsStep == ReportsAreAboutUsers /\ [TelsizNext]_telsizVars => ReportsAreAboutUsers'
<1> SUFFICES ASSUME ReportsAreAboutUsers, [TelsizNext]_telsizVars
             PROVE  ReportsAreAboutUsers'
  OBVIOUS
<1> USE DEF ReportsAreAboutUsers
<1>1. ASSUME UNCHANGED <<calls, muted>>
      PROVE  ReportsAreAboutUsers'
  BY <1>1
<1>2. CASE UNCHANGED complaints /\ GatewayStep
  <2>1. UNCHANGED muted
    BY <1>2, GatewayLeavesMutes
  <2> QED
    BY <1>1, <1>2, <2>1 DEF complaints
<1>3. ASSUME NEW s \in Sockets, NEW v \in Users, NEW c \in Channels, HandleReport(s, v, c)
      PROVE  ReportsAreAboutUsers'
  <2> DEFINE call == [by |-> userOf[s], about |-> v, chan |-> c, at |-> "find", total |-> 0, warned |-> 0]
  <2>1. call.about = v /\ call.chan = c /\ {"about", "chan"} \subseteq DOMAIN call
    OBVIOUS
  <2>2. \E r \in ReportIds : calls' = [calls EXCEPT ![r] = call]
    BY <1>3 DEF HandleReport, Mod!Report
  <2>3. UNCHANGED muted
    BY <1>3 DEF HandleReport, Mod!Report
  <2> HIDE DEF call
  <2> QED
    BY <2>1, <2>2, <2>3
<1>4. ASSUME NEW r \in ReportIds, Mod!ReportStep(r) \/ Mod!ReturnMuted(r)
      PROVE  ReportsAreAboutUsers'
  <2>1. calls[r] # NoReport
    BY <1>4 DEF Mod!ReportStep, Mod!FindExisting, Mod!CreateReport, Mod!CountReports, Mod!ReadRecord,
                Mod!Warn, Mod!Mute, Mod!ResetReports, Mod!ReportFails, Mod!ReturnMuted, Mod!At
  <2>2. \/ calls' = [calls EXCEPT ![r] = NoReport]
        \/ \E x, y : calls' = [calls EXCEPT ![r].at = x, ![r].total = y]
        \/ \E x, y : calls' = [calls EXCEPT ![r].at = x, ![r].warned = y]
        \/ \E x : calls' = [calls EXCEPT ![r].at = x]
    BY <1>4 DEF Mod!ReportStep, Mod!FindExisting, Mod!CreateReport, Mod!CountReports, Mod!ReadRecord,
                Mod!Warn, Mod!Mute, Mod!ResetReports, Mod!ReportFails, Mod!ReturnMuted, Mod!Return, Mod!GoTo
  <2>3. muted' \in {muted, muted \cup {calls[r].about}}
    BY <1>4 DEF Mod!ReportStep, Mod!FindExisting, Mod!CreateReport, Mod!CountReports, Mod!ReadRecord,
                Mod!Warn, Mod!Mute, Mod!ResetReports, Mod!ReportFails, Mod!ReturnMuted
  <2>4. DOMAIN calls' = ReportIds /\ \A q \in ReportIds \ {r} : calls'[q] = calls[q]
    BY <2>2
  <2>5. calls'[r] # NoReport => /\ {"about", "chan"} \subseteq DOMAIN calls'[r]
                                /\ calls'[r].about = calls[r].about /\ calls'[r].chan = calls[r].chan
    BY <2>1, <2>2
  <2> QED
    BY <2>1, <2>3, <2>4, <2>5
<1>5. ASSUME NEW u \in Users, Mod!MuteEnds(u)
      PROVE  ReportsAreAboutUsers'
  BY <1>5 DEF Mod!MuteEnds
<1>6. CASE Restart /\ Mod!CallsLost
  BY <1>6 DEF Mod!CallsLost
<1>7. CASE UNCHANGED telsizVars
  BY <1>1, <1>7 DEF telsizVars, vars, complaints
<1> QED
  BY <1>2, <1>3, <1>4, <1>5, <1>6, <1>7 DEF TelsizNext, CutTalk, MuteRunsOut

LEMMA GatewayMoves ==
  ReportsAreAboutUsers /\ ReportsAreAboutUsers' /\ [TelsizNext]_telsizVars => [Next]_vars
<1> SUFFICES ASSUME ReportsAreAboutUsers, muted' \subseteq Users, [TelsizNext]_telsizVars
             PROVE  [Next]_vars
  BY DEF ReportsAreAboutUsers
<1>1. ASSUME UNCHANGED gatewayVars
      PROVE  [Next]_vars
  BY <1>1 DEF Next, MutesChange
<1>2. CASE \E s \in Sockets, v \in Users, c \in Channels : HandleReport(s, v, c)
  BY <1>1, <1>2 DEF HandleReport
<1>3. ASSUME NEW r \in ReportIds, CutTalk(r)
      PROVE  [Next]_vars
  <2>1. calls[r].about \in Users /\ calls[r].chan \in Channels
    BY <1>3 DEF CutTalk, Mod!ReturnMuted, Mod!At, ReportsAreAboutUsers
  <2> QED
    BY <1>3, <2>1 DEF CutTalk, Next
<1>4. CASE \E r \in ReportIds : Mod!ReportStep(r) /\ UNCHANGED gatewayVars
  BY <1>1, <1>4
<1>5. CASE \E u \in Users : MuteRunsOut(u)
  BY <1>1, <1>5 DEF MuteRunsOut
<1>6. CASE (UNCHANGED complaints /\ GatewayStep) \/ (Restart /\ Mod!CallsLost)
  BY <1>6 DEF Next
<1>7. CASE UNCHANGED telsizVars
  BY <1>7 DEF telsizVars
<1> QED
  BY <1>2, <1>3, <1>4, <1>5, <1>6, <1>7 DEF TelsizNext

\* The complaints do to the gateway what it allows for in isolation: they change who is
\* muted and cut a talk (handleReport).  What holds of the gateway holds of the radio.
THEOREM ImplementsGateway == TelsizSpec => Spec
<1>1. TelsizInit => Init
  BY DEF TelsizInit
<1> QED
  BY <1>1, ReportsStart, ReportsStep, GatewayMoves, PTL DEF TelsizSpec, Spec

LEMMA ModerationMoves == [TelsizNext]_telsizVars => [Mod!ModNext]_(Mod!modVars)
<1> SUFFICES ASSUME [TelsizNext]_telsizVars
             PROVE  [Mod!ModNext]_(Mod!modVars)
  OBVIOUS
<1> USE DEF Mod!modVars, Mod!ModNext
<1>1. CASE UNCHANGED complaints /\ GatewayStep
  BY <1>1, GatewayLeavesMutes DEF complaints
<1>2. CASE \E s \in Sockets, v \in Users, c \in Channels : HandleReport(s, v, c)
  BY <1>2, UserAssumption DEF HandleReport
<1>3. CASE \E r \in ReportIds : (Mod!ReportStep(r) /\ UNCHANGED gatewayVars) \/ CutTalk(r)
  BY <1>3 DEF CutTalk
<1>4. CASE \E u \in Users : MuteRunsOut(u)
  BY <1>4 DEF MuteRunsOut
<1>5. CASE Restart /\ Mod!CallsLost
  BY <1>5
<1>6. CASE UNCHANGED telsizVars
  BY <1>6 DEF telsizVars, vars, complaints
<1> QED
  BY <1>1, <1>2, <1>3, <1>4, <1>5, <1>6 DEF TelsizNext

\* The gateway files complaints and takes back their verdict, and nothing of it touches
\* the tables otherwise: what holds of report() holds of the radio.
THEOREM ImplementsModeration == TelsizSpec => Mod!ModSpec
<1>1. TelsizInit => Mod!Init
  BY DEF TelsizInit
<1> QED
  BY <1>1, ModerationMoves, PTL DEF TelsizSpec, Mod!ModSpec

\* Of the whole radio: one speaker, never handed the floor by another, never beyond
\* MaxTalk, however complaints mute and cut the speakers.
THEOREM RadioImplementsFloor == TelsizSpec => HalfDuplexFloor
  BY ImplementsGateway, ImplementsFloor

=============================================================================
