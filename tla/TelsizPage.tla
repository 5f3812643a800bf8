----------------------------- MODULE TelsizPage -----------------------------
(***************************************************************************)
(* The page of the push-to-talk radio                                        *)
(* (web/src/components/uygulamalar/YolculukTelsizPage.tsx) and what the      *)
(* gateway (api/src/telsiz/telsiz.gateway.ts, all of it in TelsizGateway) is *)
(* to one socket.  One channel; the picker is the only other place.  The     *)
(* token stays the same.                                                     *)
(*                                                                          *)
(* Events wait in order both ways.  What the page emits while it is offline  *)
(* the socket keeps, and sends before the page learns that it is connected.  *)
(* Sound is abstracted: a chunk changes nothing, on the page or behind.      *)
(***************************************************************************)
EXTENDS Naturals, Sequences

CONSTANTS
  StartIds,    \* bound: calls of startTalking on their way
  WireLimit    \* bound: events on their way, in each direction

ASSUME WireAssumption == WireLimit \in Nat

VARIABLES
  held,        \* the button, or the space bar, is down
  tuned,       \* channelIdRef
  someone,     \* speaker: someone else is shown to speak
  guard,       \* speakerGuardRef
  starts,      \* calls of startTalking: before the stream, before ctx.resume
  talking,     \* talkingRef
  autoStop,    \* autoStopRef: 30 s
  strayStop,   \* a timer that is no longer in autoStopRef is pending
  link,        \* the socket
  kept, upward, downward,         \* its send buffer, events on their way
  session, member, floor, presses, \* the gateway: the socket, the room, the
                                  \* speaker, calls of handlePttStart
  hurried,     \* history: the page went on before a press was answered
  late,        \* history: it began to transmit with the button up, or no channel
  deaf,        \* history: the gateway ignored the press, or cut the talk
  unheard      \* history: the last join came before the gateway knew the user

pageVars == <<held, tuned, someone, guard, starts, talking, autoStop, strayStop>>
wires == <<link, kept, upward, downward>>
gatewayVars == <<session, member, floor, presses>>
marks == <<hurried, late, deaf, unheard>>
radioVars == <<pageVars, wires, gatewayVars, marks>>

RadioTypeOK ==
  /\ {held, tuned, someone, guard, talking, autoStop, strayStop, member} \subseteq BOOLEAN
  /\ {hurried, late, deaf, unheard} \subseteq BOOLEAN
  /\ starts \in [StartIds -> {"none", "stream", "resume"}]
  /\ link \in {"up", "down", "refused", "closed"}
  /\ {kept, upward} \subseteq Seq({"join", "leave", "start", "end"})
  /\ downward \in Seq({"granted", "denied", "speaker_start", "speaker_end"})
  /\ session \in {"off", "loading", "ready"}
  /\ floor \in {"free", "page", "other"} /\ presses \in Nat

RadioInit ==
  /\ held = FALSE /\ tuned = FALSE /\ someone = FALSE /\ guard = FALSE
  /\ starts = [a \in StartIds |-> "none"]
  /\ talking = FALSE /\ autoStop = FALSE /\ strayStop = FALSE
  /\ link = "up" /\ kept = <<>> /\ upward = <<>> /\ downward = <<>>
  /\ session = "loading" /\ member = FALSE /\ floor = "free" /\ presses = 0
  /\ hurried = FALSE /\ late = FALSE /\ deaf = FALSE /\ unheard = FALSE

-----------------------------------------------------------------------------
(* The page. *)

Occurs(e, s) == \E i \in DOMAIN s : s[i] = e

\* A press has not been answered.
Unanswered == \/ presses > 0 \/ Occurs("start", kept \o upward)
              \/ Occurs("granted", downward) \/ Occurs("denied", downward)

\* socket.emit
EmitAll(events) ==
  /\ Len(kept) + Len(upward) + Len(events) <= WireLimit
  /\ IF link = "up" THEN upward' = upward \o events /\ UNCHANGED kept
                    ELSE kept' = kept \o events /\ UNCHANGED upward

StopCapture == talking' = FALSE /\ autoStop' = FALSE

\* A mutated form of EndOfTalk: the gateway is not told.
NoEndOfTalk == <<>>
EndOfTalk == IF tuned THEN <<"end">> ELSE <<>>

\* stopTalking, and what the page emits after it.
StopTalking(more) ==
  /\ StopCapture
  /\ EmitAll((IF talking THEN EndOfTalk ELSE <<>>) \o more)
  /\ hurried' = (hurried \/ (Unanswered /\ (talking \/ more # <<>>)))

\* startTalking, up to the wait for the microphone.
Press(a) ==
  /\ link # "closed" /\ ~held /\ held' = TRUE
  /\ IF tuned /\ ~talking /\ ~someone
     THEN starts[a] = "none" /\ starts' = [starts EXCEPT ![a] = "stream"]
     ELSE UNCHANGED starts
  /\ UNCHANGED <<tuned, someone, guard, talking, autoStop, strayStop, wires, gatewayVars, marks>>

\* No microphone.
NoStream(a) ==
  /\ starts[a] = "stream" /\ starts' = [starts EXCEPT ![a] = "none"]
  /\ UNCHANGED <<held, tuned, someone, guard, talking, autoStop, strayStop, wires, gatewayVars, marks>>

\* "İzin beklerken kullanıcı bırakmış olabilir": the channel is looked at, not
\* the button.
StreamReady(a) ==
  /\ starts[a] = "stream"
  /\ starts' = [starts EXCEPT ![a] = IF tuned THEN "resume" ELSE "none"]
  /\ UNCHANGED <<held, tuned, someone, guard, talking, autoStop, strayStop, wires, gatewayVars, marks>>

\* The rest of startTalking. Nothing asks whether another call has come first,
\* whose timer is left behind then. Of a page that was left, the closed audio context
\* may throw before the timer is set.
StartTalking(a) ==
  /\ starts[a] = "resume" /\ starts' = [starts EXCEPT ![a] = "none"]
  /\ talking' = TRUE
  /\ autoStop' \in IF link = "closed" THEN {TRUE, autoStop} ELSE {TRUE}
  /\ strayStop' = (strayStop \/ autoStop)
  /\ EmitAll(<<"start">>)
  /\ hurried' = (Unanswered \/ talking \/ (hurried /\ floor = "page"))
  /\ late' = ~(held /\ tuned) /\ deaf' = FALSE
  /\ UNCHANGED <<held, tuned, someone, guard, link, downward, gatewayVars, unheard>>

\* The button or the space bar is let go, or the pointer leaves the button. The
\* picker has no button and does not listen to the keys. (A touch the system
\* cancels, a key let go in another window: the page never hears of these.)
Release ==
  /\ held /\ link # "closed" /\ held' = FALSE
  /\ IF tuned THEN StopTalking(<<>>)
              ELSE UNCHANGED <<talking, autoStop, kept, upward, hurried>>
  /\ UNCHANGED <<tuned, someone, guard, starts, strayStop, link, downward, gatewayVars, late, deaf, unheard>>

AutoStopFires ==
  /\ autoStop \/ strayStop
  /\ \/ autoStop /\ UNCHANGED strayStop
     \/ strayStop /\ strayStop' = FALSE
  /\ StopTalking(<<>>)
  /\ UNCHANGED <<held, tuned, someone, guard, starts, link, downward, gatewayVars, late, deaf, unheard>>

SelectChannel ==
  /\ ~tuned /\ link # "closed"
  /\ tuned' = TRUE /\ someone' = FALSE
  /\ EmitAll(<<"join">>)
  /\ UNCHANGED <<held, guard, starts, talking, autoStop, strayStop, link, downward, gatewayVars, marks>>

LeaveChannel ==
  /\ tuned /\ link # "closed"
  /\ tuned' = FALSE /\ someone' = FALSE
  /\ StopTalking(<<"leave">>)
  /\ UNCHANGED <<held, guard, starts, strayStop, link, downward, gatewayVars, late, deaf, unheard>>

\* "speaker_end kaybolursa buton süresiz kilitli kalmasın"
GuardFires ==
  /\ guard /\ guard' = FALSE /\ someone' = FALSE
  /\ UNCHANGED <<held, tuned, starts, talking, autoStop, strayStop, wires, gatewayVars, marks>>

\* The listeners. Only the speaker's events are compared with the channel.
Hear ==
  /\ downward # <<>> /\ downward' = Tail(downward)
  /\ LET e == Head(downward)
         shown == e \in {"speaker_start", "speaker_end"} /\ tuned
     IN /\ someone' = IF shown THEN e = "speaker_start" ELSE someone
        /\ guard' = IF shown THEN e = "speaker_start" ELSE guard
        /\ IF e = "denied" THEN StopCapture ELSE UNCHANGED <<talking, autoStop>>
  /\ UNCHANGED <<held, tuned, starts, strayStop, link, kept, upward, gatewayVars, marks>>

-----------------------------------------------------------------------------
(* The connection. *)

\* The gateway notices at once, or later: the floor of a socket that is gone is
\* as good as another's. (A restart of the gateway is the same.)
Gone ==
  /\ upward' = <<>> /\ downward' = <<>>
  /\ session' = "off" /\ member' = FALSE /\ presses' = 0
  /\ floor' \in IF floor = "page" THEN {"free", "other"} ELSE {floor}
  /\ hurried' = FALSE

\* onDisconnect
Cut(state) ==
  /\ link' = state /\ Gone
  /\ someone' = FALSE /\ StopCapture
  /\ UNCHANGED <<held, tuned, guard, starts, strayStop, kept, late, deaf, unheard>>

LoseLink == link = "up" /\ Cut("down")

\* The socket sends what it kept, then onConnect joins the channel again.
Reconnect ==
  /\ link = "down" /\ link' = "up" /\ session' = "loading"
  /\ upward' = kept \o (IF tuned THEN <<"join">> ELSE <<>>) /\ kept' = <<>>
  /\ UNCHANGED <<pageVars, downward, member, floor, presses, marks>>

\* The page is left. A call of startTalking goes on.
Unmount ==
  /\ link # "closed" /\ link' = "closed" /\ Gone
  /\ StopCapture /\ guard' = FALSE
  /\ UNCHANGED <<held, tuned, someone, starts, strayStop, kept, late, deaf, unheard>>

-----------------------------------------------------------------------------
(* The gateway, as far as this socket is concerned. *)

ToRoom(e) == downward' = IF member THEN Append(downward, e) ELSE downward

\* handleConnection has the profile, or it fails and the socket is disconnected:
\* a client does not try again after that.
ProfileLoaded ==
  /\ session = "loading" /\ session' = "ready"
  /\ UNCHANGED <<pageVars, wires, member, floor, presses, marks>>
ProfileFails == session = "loading" /\ Cut("refused")

\* handleJoin, which does nothing before the profile is there.
HandleJoin ==
  IF session = "ready"
  THEN /\ member' = TRUE /\ unheard' = FALSE
       /\ downward' = IF floor = "other" THEN Append(downward, "speaker_start") ELSE downward
       /\ UNCHANGED <<floor, presses, deaf>>
  ELSE unheard' = TRUE /\ UNCHANGED <<member, floor, presses, downward, deaf>>

\* handleLeave, and handlePttEnd, which asks for no membership.
HandleLeave ==
  /\ member' = FALSE
  /\ floor' = IF member /\ floor = "page" THEN "free" ELSE floor
  /\ IF member /\ floor = "page" THEN ToRoom("speaker_end") ELSE UNCHANGED downward
  /\ UNCHANGED <<presses, deaf, unheard>>

HandlePttEnd ==
  /\ IF floor = "page" THEN floor' = "free" /\ ToRoom("speaker_end")
                       ELSE UNCHANGED <<floor, downward>>
  /\ UNCHANGED <<member, presses, deaf, unheard>>

\* handlePttStart, up to the read of the mute.
HandlePttStart ==
  /\ IF session = "ready" /\ member THEN presses' = presses + 1 /\ UNCHANGED deaf
                                    ELSE deaf' = TRUE /\ UNCHANGED presses
  /\ UNCHANGED <<member, floor, downward, unheard>>

GatewayHandles ==
  /\ upward # <<>> /\ upward' = Tail(upward)
  /\ Len(downward) < WireLimit /\ presses < WireLimit
  /\ CASE Head(upward) = "join"  -> HandleJoin
       [] Head(upward) = "leave" -> HandleLeave
       [] Head(upward) = "start" -> HandlePttStart
       [] Head(upward) = "end"   -> HandlePttEnd
  /\ UNCHANGED <<pageVars, link, kept, session, hurried, late>>

\* The rest of handlePttStart: the user is muted, or the channel is busy, or
\* the page has the floor. A read that fails is not answered at all.
Answered(e) == presses > 0 /\ presses' = presses - 1 /\ downward' = Append(downward, e)
PttDenied == Answered("denied") /\ UNCHANGED <<floor, deaf>>
PttGranted == floor # "other" /\ Answered("granted") /\ floor' = "page" /\ UNCHANGED deaf
MuteReadFails ==
  /\ presses > 0 /\ presses' = presses - 1 /\ deaf' = TRUE
  /\ UNCHANGED <<floor, downward>>
GatewayAnswers ==
  /\ Len(downward) < WireLimit
  /\ PttDenied \/ PttGranted \/ MuteReadFails
  /\ UNCHANGED <<pageVars, link, kept, upward, session, member, hurried, late, unheard>>

\* The gateway's timer, or the cut of a muted user.
CutTalk ==
  /\ floor = "page" /\ floor' = "free" /\ Len(downward) < WireLimit
  /\ ToRoom("speaker_end")
  /\ deaf' = (deaf \/ talking)
  /\ UNCHANGED <<pageVars, link, kept, upward, session, member, presses, hurried, late, unheard>>

\* Others speak and stop speaking.
OthersSpeak ==
  /\ Len(downward) < WireLimit
  /\ \/ floor = "free" /\ floor' = "other" /\ ToRoom("speaker_start")
     \/ floor = "other" /\ floor' = "free" /\ ToRoom("speaker_end")
  /\ UNCHANGED <<pageVars, link, kept, upward, session, member, presses, marks>>

RadioNext ==
  \/ \E a \in StartIds : Press(a) \/ NoStream(a) \/ StreamReady(a) \/ StartTalking(a)
  \/ Release \/ AutoStopFires \/ SelectChannel \/ LeaveChannel \/ GuardFires \/ Hear
  \/ LoseLink \/ Reconnect \/ Unmount
  \/ ProfileLoaded \/ ProfileFails \/ GatewayHandles \/ GatewayAnswers \/ CutTalk \/ OthersSpeak

RadioSpec == RadioInit /\ [][RadioNext]_radioVars

-----------------------------------------------------------------------------

AtRest == link = "up" /\ session = "ready" /\ upward = <<>> /\ downward = <<>> /\ presses = 0

\* The button, the page and the gateway agree. The page transmits only while the
\* button is held, unless it was let go, or the channel left, while the microphone
\* was waited for. Once all that was sent has arrived, the page shows a channel
\* exactly when its socket is in it, unless its join came before the gateway knew
\* the user; while the socket has the floor the page transmits, and while the page
\* transmits the socket has the floor, unless the page went on before a press was
\* answered, or the gateway ignored the press or cut the talk.
ButtonPageAndFloorAgree ==
  /\ talking => held \/ late
  /\ AtRest =>
       /\ ~unheard => (tuned <=> member)
       /\ floor = "page" /\ ~hurried => talking
       /\ talking /\ ~hurried /\ ~deaf => floor = "page"
=============================================================================
