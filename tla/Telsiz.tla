------------------------------- MODULE Telsiz -------------------------------
(***************************************************************************)
(* The radio as a whole: the gateway's handlers and the complaints they     *)
(* take, in one process over one database.  handleReport runs report() of   *)
(* the moderation service and, when that muted the user, cuts the talk in   *)
(* the channel the complaint names.                                         *)
(***************************************************************************)
EXTENDS TelsizGateway

CONSTANTS
  ReportIds, Threshold, MaxWarn, NoReport,
  Grievances     \* the complaints <<reporter, reported>> users may come to file

VARIABLES
  warnCount, reports, calls, accusers,
  silenced   \* history: muted users whose talk the muting complaint has since cut

Mod == INSTANCE TelsizModeration

complaints == <<warnCount, reports, calls, accusers>>
telsizVars == <<vars, complaints, silenced>>

TelsizInit == Init /\ Mod!Init /\ silenced = {}

HandleReport(s, v, c) ==
  /\ conn[s] = "ready"
  /\ <<userOf[s], v>> \in Grievances
  /\ Mod!Report(userOf[s], v, c)
  /\ UNCHANGED <<gatewayVars, silenced>>

CutTalk(r) ==
  /\ Mod!ReturnMuted(r)
  /\ CutMuted(calls[r].about, calls[r].chan)
  /\ silenced' = silenced \cup ({calls[r].about} \cap muted)

MuteRunsOut(u) ==
  /\ Mod!MuteEnds(u)
  /\ silenced' = silenced \ {u}
  /\ UNCHANGED gatewayVars

TelsizNext ==
  \/ UNCHANGED <<complaints, silenced>> /\ GatewayStep
  \/ \E s \in Sockets, v \in Users, c \in Channels : HandleReport(s, v, c)
  \/ \E r \in ReportIds : Mod!ReportStep(r) /\ UNCHANGED <<gatewayVars, silenced>>
  \/ \E r \in ReportIds : CutTalk(r)
  \/ \E u \in Users : MuteRunsOut(u)
  \/ Restart /\ Mod!CallsLost /\ UNCHANGED silenced

TelsizSpec == TelsizInit /\ [][TelsizNext]_telsizVars

-----------------------------------------------------------------------------
(* Properties. *)

\* "1 saat boyunca Telsizde konusamazsiniz": once a complaint has muted a user
\* and cut the talk it found, the user takes no floor while the mute lasts.
MutedTakesNoFloor ==
  [][\A u \in silenced : Speaks(u)' => Speaks(u)]_telsizVars
=============================================================================
