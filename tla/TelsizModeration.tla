-------------------------- MODULE TelsizModeration --------------------------
(***************************************************************************)
(* Complaints about radio speakers                                          *)
(* (api/src/telsiz/telsiz-moderation.service.ts).  Each database statement  *)
(* of report() commits atomically and the handler interleaves with other    *)
(* reports between any two of them; a step below is one statement and the   *)
(* code up to the next one.  Nothing is locked and nothing is a             *)
(* transaction.                                                             *)
(*                                                                          *)
(* The hour of a mute is not measured: a mute ends at some moment.          *)
(***************************************************************************)
EXTENDS Integers, FiniteSets

CONSTANTS
  Users,
  Channels,
  ReportIds,      \* activations of report() (bounds those in flight)
  Threshold,      \* REPORTS_FOR_WARNING
  MaxWarn,        \* bound of the model on warnCount
  NoReport

ASSUME ThresholdAssumption == Threshold \in Nat \ {0}
ASSUME MaxWarnAssumption == MaxWarn \in Nat

VARIABLES
  muted,       \* users whose muteUntil lies ahead (table telsiz_mutes)
  warnCount,   \* the same table; 0 when the user has no row
  reports,     \* table telsiz_reports, unique per <<reporter, reported>>
  calls,       \* activations of report()
  accusers     \* history: who ever had a complaint about the user stored

modVars == <<muted, warnCount, reports, calls, accusers>>

Phases == {"find", "create", "count", "record", "warn", "mute", "reset", "cut"}

Call == [by : Users, about : Users, chan : Channels, at : Phases,
         total : Nat, warned : Nat]

ASSUME NoReportAssumption == NoReport \notin Call
ASSUME UsersFinite == IsFiniteSet(Users)

TypeOK ==
  /\ muted \in SUBSET Users
  /\ warnCount \in [Users -> Nat]
  /\ reports \in SUBSET (Users \X Users)
  /\ calls \in [ReportIds -> Call \cup {NoReport}]
  /\ accusers \in [Users -> SUBSET Users]

Init ==
  /\ muted = {}
  /\ warnCount = [u \in Users |-> 0]
  /\ reports = {}
  /\ calls = [r \in ReportIds |-> NoReport]
  /\ accusers = [u \in Users |-> {}]

ReportsAbout(u) == {p \in reports : p[2] = u}

-----------------------------------------------------------------------------

At(r, phase) == calls[r] # NoReport /\ calls[r].at = phase
GoTo(r, phase) == calls' = [calls EXCEPT ![r].at = phase]
Return(r) == calls' = [calls EXCEPT ![r] = NoReport]

\* A complaint about oneself returns at once and leaves no trace.
Report(u, v, c) ==
  /\ u # v
  /\ \E r \in ReportIds :
       /\ calls[r] = NoReport
       /\ calls' = [calls EXCEPT ![r] = [by |-> u, about |-> v, chan |-> c,
                                         at |-> "find", total |-> 0, warned |-> 0]]
  /\ UNCHANGED <<muted, warnCount, reports, accusers>>

FindExisting(r) ==
  /\ At(r, "find")
  /\ IF <<calls[r].by, calls[r].about>> \in reports THEN Return(r) ELSE GoTo(r, "create")
  /\ UNCHANGED <<muted, warnCount, reports, accusers>>

\* The unique index rejects a second row: the handler throws.
CreateReport(r) ==
  LET row == <<calls[r].by, calls[r].about>>
  IN  /\ At(r, "create")
      /\ IF row \in reports
         THEN Return(r) /\ UNCHANGED <<reports, accusers>>
         ELSE /\ GoTo(r, "count")
              /\ reports' = reports \cup {row}
              /\ accusers' = [accusers EXCEPT ![row[2]] = @ \cup {row[1]}]
      /\ UNCHANGED <<muted, warnCount>>

CountReports(r) ==
  /\ At(r, "count")
  /\ calls' = [calls EXCEPT ![r].at = "record",
                            ![r].total = Cardinality(ReportsAbout(calls[r].about))]
  /\ UNCHANGED <<muted, warnCount, reports, accusers>>

\* Enough complaints for the next sanction of a user warned that often.
ThresholdReached(total, warned) == total >= Threshold * (warned + 1)

\* A mutated form of ReadRecord: the sanction is chosen the other way round.
MuteFirst(r) ==
  LET warned == warnCount[calls[r].about]
  IN  /\ At(r, "record")
      /\ IF ThresholdReached(calls[r].total, warned)
         THEN calls' = [calls EXCEPT ![r].at = IF warned = 0 THEN "mute" ELSE "warn",
                                     ![r].warned = warned]
         ELSE Return(r)
      /\ UNCHANGED <<muted, warnCount, reports, accusers>>

ReadRecord(r) ==
  LET warned == warnCount[calls[r].about]
  IN  /\ At(r, "record")
      /\ IF ThresholdReached(calls[r].total, warned)
         THEN calls' = [calls EXCEPT ![r].at = IF warned = 0 THEN "warn" ELSE "mute",
                                     ![r].warned = warned]
         ELSE Return(r)
      /\ UNCHANGED <<muted, warnCount, reports, accusers>>

\* The first sanction: the row is written with warnCount 1, whatever it holds.
Warn(r) ==
  /\ At(r, "warn")
  /\ warnCount' = [warnCount EXCEPT ![calls[r].about] = 1]
  /\ Return(r)
  /\ UNCHANGED <<muted, reports, accusers>>

\* The second: muted for an hour, warnCount incremented in the database.
Mute(r) ==
  /\ At(r, "mute")
  /\ warnCount[calls[r].about] < MaxWarn
  /\ muted' = muted \cup {calls[r].about}
  /\ warnCount' = [warnCount EXCEPT ![calls[r].about] = @ + 1]
  /\ GoTo(r, "reset")
  /\ UNCHANGED <<reports, accusers>>

ResetReports(r) ==
  /\ At(r, "reset")
  /\ reports' = reports \ ReportsAbout(calls[r].about)
  /\ GoTo(r, "cut")
  /\ UNCHANGED <<muted, warnCount, accusers>>

\* A statement (or the notification that precedes the return) fails.
ReportFails(r) ==
  /\ calls[r] # NoReport
  /\ Return(r)
  /\ UNCHANGED <<muted, warnCount, reports, accusers>>

\* The caller gets { muted: true }; what the gateway then does is its own step.
ReturnMuted(r) ==
  /\ At(r, "cut")
  /\ Return(r)
  /\ UNCHANGED <<muted, warnCount, reports, accusers>>

\* muteUntil is reached.
MuteEnds(u) ==
  /\ u \in muted
  /\ muted' = muted \ {u}
  /\ UNCHANGED <<warnCount, reports, calls, accusers>>

\* The process restarts: the activations die where they stand, the rows stay.
CallsLost ==
  /\ calls' = [r \in ReportIds |-> NoReport]
  /\ UNCHANGED <<muted, warnCount, reports, accusers>>

ReportStep(r) ==
  \/ FindExisting(r)
  \/ CreateReport(r)
  \/ CountReports(r)
  \/ ReadRecord(r)
  \/ Warn(r)
  \/ Mute(r)
  \/ ResetReports(r)
  \/ ReportFails(r)

ModNext ==
  \/ \E u, v \in Users, c \in Channels : Report(u, v, c)
  \/ \E r \in ReportIds : ReportStep(r) \/ ReturnMuted(r)
  \/ \E u \in Users : MuteEnds(u)
  \/ CallsLost

ModSpec == Init /\ [][ModNext]_modVars

-----------------------------------------------------------------------------
(* Properties. *)

\* Nobody is muted on the word of a few: a muted user was reported by at least
\* twice Threshold different people, however the reports interleaved, however
\* often one person repeated a complaint and wherever a handler failed.
MuteNeedsManyAccusers ==
  \A u \in muted : Cardinality(accusers[u]) >= 2 * Threshold

\* A mute is never the first sanction: whoever gets muted has a warning in the
\* table by then, however many reports act on counts they read earlier.
WarnedBeforeMuted ==
  [][\A u \in Users : u \in muted' \ muted => warnCount[u] >= 1]_modVars

\* A sanction about to be written rests on complaints of that many people.
SanctionsAreBacked ==
  \A r \in ReportIds :
    /\ At(r, "warn") => Cardinality(accusers[calls[r].about]) >= Threshold
    /\ At(r, "mute") => Cardinality(accusers[calls[r].about]) >= 2 * Threshold
=============================================================================
