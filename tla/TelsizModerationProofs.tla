----------------------- MODULE TelsizModerationProofs -----------------------
(***************************************************************************)
(* What report() guarantees about warnings and mutes for any number of      *)
(* users and of reports in flight, and for any threshold.                   *)
(***************************************************************************)
EXTENDS TelsizModeration, FiniteSetTheorems, TLAPS

-----------------------------------------------------------------------------
(* The inductive invariant.  What a handler counted or read may be stale by  *)
(* the time it acts, but complaints that were ever filed stay filed in       *)
(* accusers, and a warning, once written, is never taken back.               *)

ComplaintsAreKnown == \A p \in reports : p[1] \in accusers[p[2]]

CountIsBacked ==
  \A r \in ReportIds :
    calls[r] # NoReport /\ calls[r].at \in {"record", "warn", "mute"}
      => calls[r].total <= Cardinality(accusers[calls[r].about])

SanctionIsDue ==
  \A r \in ReportIds :
    /\ At(r, "warn") => calls[r].total >= Threshold
    /\ At(r, "mute") => /\ calls[r].total >= 2 * Threshold
                        /\ warnCount[calls[r].about] >= 1

IInv ==
  /\ TypeOK
  /\ ComplaintsAreKnown
  /\ CountIsBacked
  /\ SanctionIsDue
  /\ MuteNeedsManyAccusers

-----------------------------------------------------------------------------
(* Counting. *)

LEMMA AccusersFinite ==
  ASSUME TypeOK, NEW u \in Users
  PROVE  IsFiniteSet(accusers[u]) /\ Cardinality(accusers[u]) \in Nat
BY UsersFinite, FS_Subset, FS_CardinalityType DEF TypeOK

LEMMA MoreAccusers ==
  ASSUME NEW S, NEW T, IsFiniteSet(T), S \subseteq T
  PROVE  Cardinality(S) <= Cardinality(T) /\ Cardinality(S) \in Nat /\ Cardinality(T) \in Nat
BY FS_Subset, FS_CardinalityType

\* The unique index makes the number of rows the number of complainants.
LEMMA RowsArePeople ==
  ASSUME TypeOK, ComplaintsAreKnown, NEW u \in Users
  PROVE  /\ Cardinality(ReportsAbout(u)) \in Nat
         /\ Cardinality(ReportsAbout(u)) <= Cardinality(accusers[u])
<1> DEFINE who == [p \in ReportsAbout(u) |-> p[1]]
<1>1. who \in [ReportsAbout(u) -> accusers[u]]
  BY DEF ReportsAbout, ComplaintsAreKnown
<1>2. ASSUME NEW p \in ReportsAbout(u), NEW q \in ReportsAbout(u), p[1] = q[1]
      PROVE  p = q
  <2>1. p \in Users \X Users /\ q \in Users \X Users /\ p[2] = u /\ q[2] = u
    BY DEF ReportsAbout, TypeOK
  <2> QED
    BY <1>2, <2>1
<1>3. who \in Injection(ReportsAbout(u), accusers[u])
  BY <1>1, <1>2 DEF Injection, IsInjective
<1> HIDE DEF who
<1>4. IsFiniteSet(ReportsAbout(u)) /\ Cardinality(ReportsAbout(u)) <= Cardinality(accusers[u])
  BY <1>3, AccusersFinite, FS_Injection
<1> QED
  BY <1>4, FS_CardinalityType

\* Nobody's complainants or warnings are ever forgotten.
LEMMA HistoryGrows ==
  ASSUME TypeOK, [ModNext]_modVars
  PROVE  \A u \in Users : /\ accusers[u] \subseteq accusers'[u]
                          /\ warnCount[u] >= 1 => warnCount'[u] >= 1
<1> SUFFICES ASSUME NEW u \in Users
             PROVE  /\ accusers[u] \subseteq accusers'[u]
                    /\ warnCount[u] >= 1 => warnCount'[u] >= 1
  OBVIOUS
<1> USE DEF TypeOK
<1>1. ASSUME NEW r \in ReportIds, ReportStep(r)
      PROVE  /\ accusers[u] \subseteq accusers'[u]
             /\ warnCount[u] >= 1 => warnCount'[u] >= 1
  <2>1. CASE CreateReport(r)
    BY <2>1 DEF CreateReport
  <2>2. CASE Warn(r)
    BY <2>2 DEF Warn
  <2>3. CASE Mute(r)
    BY <2>3 DEF Mute
  <2> QED
    BY <1>1, <2>1, <2>2, <2>3
    DEF ReportStep, FindExisting, CountReports, ReadRecord, ResetReports, ReportFails
<1>2. ASSUME \/ \E v, w \in Users, c \in Channels : Report(v, w, c)
             \/ \E r \in ReportIds : ReturnMuted(r)
             \/ \E v \in Users : MuteEnds(v)
             \/ CallsLost
             \/ UNCHANGED modVars
      PROVE  accusers' = accusers /\ warnCount' = warnCount
  BY <1>2 DEF Report, ReturnMuted, MuteEnds, CallsLost, modVars
<1> QED
  BY <1>1, <1>2 DEF ModNext

LEMMA TypeKept ==
  ASSUME TypeOK, ComplaintsAreKnown, [ModNext]_modVars
  PROVE  TypeOK'
<1> USE DEF TypeOK
<1>1. ASSUME NEW u \in Users, NEW v \in Users, NEW c \in Channels, Report(u, v, c)
      PROVE  TypeOK'
  BY <1>1 DEF Report, Call, Phases
<1>2. ASSUME NEW r \in ReportIds, calls[r] # NoReport,
             NEW phase \in Phases, GoTo(r, phase)
      PROVE  calls' \in [ReportIds -> Call \cup {NoReport}]
  BY <1>2 DEF GoTo, Call
<1>3. ASSUME NEW r \in ReportIds, Return(r)
      PROVE  calls' \in [ReportIds -> Call \cup {NoReport}]
  BY <1>3 DEF Return
<1>4. ASSUME NEW r \in ReportIds, FindExisting(r) PROVE TypeOK'
  BY <1>2, <1>3, <1>4 DEF FindExisting, At, Phases
<1>5. ASSUME NEW r \in ReportIds, CreateReport(r) PROVE TypeOK'
  <2> DEFINE row == <<calls[r].by, calls[r].about>>
  <2>1. calls[r] # NoReport /\ row \in Users \X Users
    BY <1>5 DEF CreateReport, At, Call
  <2>2. CASE row \in reports
    BY <1>3, <1>5, <2>2 DEF CreateReport
  <2>3. CASE row \notin reports
    <3>1. calls' \in [ReportIds -> Call \cup {NoReport}]
      BY <1>2, <1>5, <2>1, <2>3 DEF CreateReport, Phases
    <3> QED
      BY <1>5, <2>1, <2>3, <3>1 DEF CreateReport
  <2> QED
    BY <2>2, <2>3
<1>6. ASSUME NEW r \in ReportIds, CountReports(r) PROVE TypeOK'
  <2>1. calls[r] \in Call
    BY <1>6 DEF CountReports, At
  <2>2. Cardinality(ReportsAbout(calls[r].about)) \in Nat
    BY <1>6, <2>1, RowsArePeople DEF Call
  <2> QED
    BY <1>6, <2>1, <2>2 DEF CountReports, Call, Phases
<1>7. ASSUME NEW r \in ReportIds, ReadRecord(r) PROVE TypeOK'
  <2>1. calls[r] \in Call /\ warnCount[calls[r].about] \in Nat
    BY <1>7 DEF ReadRecord, At, Call
  <2> QED
    BY <1>3, <1>7, <2>1 DEF ReadRecord, Call, Phases
<1>8. ASSUME NEW r \in ReportIds, Warn(r) PROVE TypeOK'
  BY <1>3, <1>8 DEF Warn
<1>9. ASSUME NEW r \in ReportIds, Mute(r) PROVE TypeOK'
  <2>1. calls[r] # NoReport /\ calls[r].about \in Users
    BY <1>9 DEF Mute, At, Call
  <2> QED
    BY <1>2, <1>9, <2>1 DEF Mute, Phases
<1>10. ASSUME NEW r \in ReportIds, ResetReports(r) PROVE TypeOK'
  BY <1>2, <1>10 DEF ResetReports, At, Phases
<1>11. ASSUME NEW r \in ReportIds, ReportFails(r) \/ ReturnMuted(r) PROVE TypeOK'
  BY <1>3, <1>11 DEF ReportFails, ReturnMuted
<1>12. ASSUME NEW u \in Users, MuteEnds(u) PROVE TypeOK'
  BY <1>12 DEF MuteEnds
<1>13. CASE CallsLost \/ UNCHANGED modVars
  BY <1>13 DEF CallsLost, modVars
<1> QED
  BY <1>1, <1>4, <1>5, <1>6, <1>7, <1>8, <1>9, <1>10, <1>11, <1>12, <1>13
  DEF ModNext, ReportStep

-----------------------------------------------------------------------------
(* The invariants, one by one. *)

LEMMA ComplaintsKept ==
  ASSUME TypeOK, ComplaintsAreKnown, [ModNext]_modVars
  PROVE  ComplaintsAreKnown'
<1> SUFFICES ASSUME NEW p \in reports'
             PROVE  p[1] \in accusers'[p[2]]
  BY DEF ComplaintsAreKnown
<1>1. CASE p \in reports
  <2>1. p[2] \in Users /\ p[1] \in accusers[p[2]]
    BY <1>1 DEF ComplaintsAreKnown, TypeOK
  <2> QED
    BY <2>1, HistoryGrows
<1>2. CASE p \notin reports
  <2>1. PICK r \in ReportIds : CreateReport(r)
    BY <1>2 DEF ModNext, ReportStep, Report, FindExisting, CountReports, ReadRecord,
                Warn, Mute, ResetReports, ReportFails, ReturnMuted, MuteEnds,
                CallsLost, modVars
  <2>2. calls[r].about \in Users
    BY <2>1 DEF CreateReport, At, TypeOK, Call
  <2> QED
    BY <1>2, <2>1, <2>2 DEF CreateReport, TypeOK
<1> QED
  BY <1>1, <1>2

\* A call that is at "record" or beyond either was there before, about the
\* same user and with the same count, or has just counted.
LEMMA CallsAdvance ==
  ASSUME TypeOK, ComplaintsAreKnown, [ModNext]_modVars,
         NEW r \in ReportIds, calls'[r] # NoReport,
         calls'[r].at \in {"record", "warn", "mute"}
  PROVE  /\ calls[r] # NoReport
         /\ calls[r] \in Call
         /\ calls'[r].about = calls[r].about
         /\ \/ calls'[r].total = calls[r].total /\ calls[r].at \in {"record", "warn", "mute"}
            \/ /\ calls'[r].total = Cardinality(ReportsAbout(calls[r].about))
               /\ calls'[r].at = "record"
         /\ calls'[r].at = "warn" => \/ calls[r].at = "warn"
                                     \/ ReadRecord(r)
         /\ calls'[r].at = "mute" => \/ calls[r].at = "mute"
                                     \/ ReadRecord(r)
<1> USE DEF TypeOK
<1>1. CASE calls'[r] = calls[r]
  BY <1>1
<1>2. CASE calls'[r] # calls[r]
  <2>1. ASSUME NEW u \in Users, NEW v \in Users, NEW c \in Channels, Report(u, v, c)
        PROVE  FALSE
    BY <1>2, <2>1 DEF Report
  <2>2. ASSUME CallsLost \/ (\E u \in Users : MuteEnds(u)) \/ UNCHANGED modVars
        PROVE  FALSE
    BY <1>2, <2>2 DEF CallsLost, MuteEnds, modVars
  <2>3. ASSUME NEW q \in ReportIds, ReportStep(q) \/ ReturnMuted(q)
        PROVE  q = r /\ calls[r] # NoReport
    <3>1. calls[q] # NoReport
      BY <2>3 DEF ReportStep, FindExisting, CreateReport, CountReports, ReadRecord,
                  Warn, Mute, ResetReports, ReportFails, ReturnMuted, At
    <3>2. CASE CountReports(q)
      BY <1>2, <3>1, <3>2 DEF CountReports
    <3>3. CASE ReadRecord(q)
      BY <1>2, <3>1, <3>3 DEF ReadRecord, Return
    <3>4. CASE CreateReport(q) \/ FindExisting(q)
      BY <1>2, <3>1, <3>4 DEF CreateReport, FindExisting, GoTo, Return
    <3>5. CASE Warn(q) \/ Mute(q) \/ ResetReports(q) \/ ReportFails(q) \/ ReturnMuted(q)
      BY <1>2, <3>1, <3>5 DEF Warn, Mute, ResetReports, ReportFails, ReturnMuted, GoTo, Return
    <3> QED
      BY <2>3, <3>2, <3>3, <3>4, <3>5 DEF ReportStep
  <2>4. (ReportStep(r) \/ ReturnMuted(r)) /\ calls[r] # NoReport
    <3>1. \E q \in ReportIds : ReportStep(q) \/ ReturnMuted(q)
      BY <2>1, <2>2 DEF ModNext
    <3> QED
      BY <2>3, <3>1
  <2>5. calls[r] \in Call
    BY <2>4
  <2>6. CASE CountReports(r)
    <3>1. calls'[r] = [calls[r] EXCEPT !.at = "record",
                                       !.total = Cardinality(ReportsAbout(calls[r].about))]
      BY <2>6 DEF CountReports
    <3> HIDE DEF TypeOK
    <3> QED
      BY <2>4, <2>5, <3>1 DEF Call
  <2>7. CASE ReadRecord(r)
    BY <1>2, <2>5, <2>7 DEF ReadRecord, At, Return, Call
  <2>8. ASSUME NEW phase \in {"create", "count", "reset", "cut"}, GoTo(r, phase) PROVE FALSE
    <3>1. calls'[r].at = phase
      BY <2>5, <2>8 DEF GoTo, Call
    <3> QED
      BY <3>1
  <2>9. ASSUME Return(r) PROVE FALSE
    BY <2>9 DEF Return
  <2> QED
    BY <2>4, <2>6, <2>7, <2>8, <2>9
    DEF ReportStep, FindExisting, CreateReport, Warn, Mute, ResetReports, ReportFails,
        ReturnMuted
<1> QED
  BY <1>1, <1>2

LEMMA CountKept ==
  ASSUME TypeOK, ComplaintsAreKnown, CountIsBacked, [ModNext]_modVars
  PROVE  CountIsBacked'
<1> SUFFICES ASSUME NEW r \in ReportIds, calls'[r] # NoReport,
                    calls'[r].at \in {"record", "warn", "mute"}
             PROVE  calls'[r].total <= Cardinality(accusers'[calls'[r].about])
  BY DEF CountIsBacked
<1> DEFINE u == calls[r].about
<1>1. /\ calls[r] \in Call /\ calls[r] # NoReport
      /\ calls'[r].about = u
      /\ \/ calls'[r].total = calls[r].total /\ calls[r].at \in {"record", "warn", "mute"}
         \/ calls'[r].total = Cardinality(ReportsAbout(u))
  BY CallsAdvance
<1>2. u \in Users /\ calls[r].total \in Nat
  BY <1>1 DEF Call
<1>3. accusers[u] \subseteq accusers'[u] /\ IsFiniteSet(accusers'[u])
  BY <1>2, HistoryGrows, TypeKept, UsersFinite, FS_Subset DEF TypeOK
<1>4. /\ Cardinality(accusers[u]) <= Cardinality(accusers'[u])
      /\ Cardinality(accusers[u]) \in Nat /\ Cardinality(accusers'[u]) \in Nat
  BY <1>3, MoreAccusers
<1>5. calls'[r].total \in Nat /\ calls'[r].total <= Cardinality(accusers[u])
  BY <1>1, <1>2, RowsArePeople DEF CountIsBacked
<1> QED
  BY <1>1, <1>4, <1>5

LEMMA SanctionKept ==
  ASSUME TypeOK, ComplaintsAreKnown, SanctionIsDue, [ModNext]_modVars
  PROVE  SanctionIsDue'
<1> SUFFICES ASSUME NEW r \in ReportIds, calls'[r] # NoReport
             PROVE  /\ calls'[r].at = "warn" => calls'[r].total >= Threshold
                    /\ calls'[r].at = "mute" => /\ calls'[r].total >= 2 * Threshold
                                                /\ warnCount'[calls'[r].about] >= 1
  BY DEF SanctionIsDue, At
<1>1. ASSUME ReadRecord(r), calls'[r].at \in {"warn", "mute"}
      PROVE  /\ calls'[r].at = "warn" => calls'[r].total >= Threshold
             /\ calls'[r].at = "mute" => /\ calls'[r].total >= 2 * Threshold
                                         /\ warnCount'[calls'[r].about] >= 1
  <2> DEFINE warned == warnCount[calls[r].about]
  <2>1. calls[r] \in Call /\ calls[r].about \in Users /\ warned \in Nat
    BY <1>1 DEF ReadRecord, At, TypeOK, Call
  <2>2. /\ calls[r].total >= Threshold * (warned + 1)
        /\ calls'[r].total = calls[r].total
        /\ calls'[r].about = calls[r].about
        /\ calls'[r].at = IF warned = 0 THEN "warn" ELSE "mute"
        /\ warnCount' = warnCount
    BY <1>1, <2>1 DEF ReadRecord, ThresholdReached, Return, TypeOK, Call
  <2>3. calls[r].total \in Nat
    BY <2>1 DEF Call
  <2>4. CASE warned = 0
    BY <2>2, <2>3, <2>4, ThresholdAssumption
  <2>5. CASE warned # 0
    <3>1. Threshold * (warned + 1) >= Threshold * 2
      BY <2>1, <2>5, ThresholdAssumption
    <3>2. Threshold * (warned + 1) \in Nat
      BY <2>1, ThresholdAssumption
    <3> QED
      BY <2>1, <2>2, <2>3, <2>5, <3>1, <3>2, ThresholdAssumption
  <2> QED
    BY <2>4, <2>5
<1>2. ASSUME calls'[r].at = "warn", calls[r].at = "warn"
      PROVE  calls'[r].total >= Threshold
  BY <1>2, CallsAdvance DEF SanctionIsDue, At, TypeOK
<1>3. ASSUME calls'[r].at = "mute", calls[r].at = "mute"
      PROVE  calls'[r].total >= 2 * Threshold /\ warnCount'[calls'[r].about] >= 1
  BY <1>3, CallsAdvance, HistoryGrows DEF SanctionIsDue, At, Call
<1> QED
  BY <1>1, <1>2, <1>3, CallsAdvance

LEMMA MutesKept ==
  ASSUME TypeOK, CountIsBacked, SanctionIsDue, MuteNeedsManyAccusers,
         ComplaintsAreKnown, [ModNext]_modVars
  PROVE  MuteNeedsManyAccusers'
<1> SUFFICES ASSUME NEW u \in muted'
             PROVE  Cardinality(accusers'[u]) >= 2 * Threshold
  BY DEF MuteNeedsManyAccusers
<1>1. u \in Users
  BY TypeKept DEF TypeOK
<1>2. accusers[u] \subseteq accusers'[u] /\ IsFiniteSet(accusers'[u])
  BY <1>1, HistoryGrows, TypeKept, UsersFinite, FS_Subset DEF TypeOK
<1>3. /\ Cardinality(accusers[u]) <= Cardinality(accusers'[u])
      /\ Cardinality(accusers[u]) \in Nat /\ Cardinality(accusers'[u]) \in Nat
  BY <1>2, MoreAccusers
<1>4. Cardinality(accusers[u]) >= 2 * Threshold
  <2>1. CASE u \in muted
    BY <2>1 DEF MuteNeedsManyAccusers
  <2>2. CASE u \notin muted
    <3>1. PICK r \in ReportIds : Mute(r) /\ u = calls[r].about
      BY <2>2 DEF ModNext, ReportStep, Report, FindExisting, CreateReport, CountReports,
                  ReadRecord, Warn, Mute, ResetReports, ReportFails, ReturnMuted,
                  MuteEnds, CallsLost, modVars
    <3>2. /\ calls[r].total >= 2 * Threshold
          /\ calls[r].total <= Cardinality(accusers[u])
      BY <3>1 DEF Mute, SanctionIsDue, CountIsBacked, At
    <3>3. calls[r].total \in Nat
      BY <3>1 DEF Mute, At, TypeOK, Call
    <3> QED
      BY <1>3, <3>2, <3>3, ThresholdAssumption
  <2> QED
    BY <2>1, <2>2
<1> QED
  BY <1>1, <1>3, <1>4, HistoryGrows, ThresholdAssumption

-----------------------------------------------------------------------------
(* The theorems. *)

LEMMA Inductive == ModSpec => []IInv
<1>1. Init => IInv
  BY DEF Init, IInv, TypeOK, ComplaintsAreKnown, CountIsBacked, SanctionIsDue, At,
         MuteNeedsManyAccusers
<1>2. IInv /\ [ModNext]_modVars => IInv'
  BY TypeKept, ComplaintsKept, CountKept, SanctionKept, MutesKept DEF IInv
<1> QED
  BY <1>1, <1>2, PTL DEF ModSpec

\* The tables and the activations of report() keep their types.
THEOREM TypeCorrect == ModSpec => []TypeOK
BY Inductive, PTL DEF IInv

\* Nobody is muted before twice Threshold people complained, whatever the
\* interleaving of the reports and wherever one fails.
THEOREM MutesNeedManyAccusers == ModSpec => []MuteNeedsManyAccusers
BY Inductive, PTL DEF IInv

\* A mute is never the first sanction.
THEOREM WarningComesFirst == ModSpec => WarnedBeforeMuted
<1>1. IInv /\ [ModNext]_modVars
        => [\A u \in Users : u \in muted' \ muted => warnCount[u] >= 1]_modVars
  <2> SUFFICES ASSUME IInv, ModNext, NEW u \in Users, u \in muted', u \notin muted
               PROVE  warnCount[u] >= 1
    OBVIOUS
  <2>1. PICK r \in ReportIds : Mute(r) /\ u = calls[r].about
    BY DEF ModNext, ReportStep, Report, FindExisting, CreateReport, CountReports,
           ReadRecord, Warn, Mute, ResetReports, ReportFails, ReturnMuted,
           MuteEnds, CallsLost
  <2> QED
    BY <2>1 DEF Mute, IInv, SanctionIsDue
<1> QED
  BY <1>1, Inductive, PTL DEF ModSpec, WarnedBeforeMuted

\* A sanction about to be written is backed by that many people.
THEOREM SanctionsBacked == ModSpec => []SanctionsAreBacked
<1>1. IInv => SanctionsAreBacked
  <2> SUFFICES ASSUME IInv, NEW r \in ReportIds, At(r, "warn") \/ At(r, "mute")
               PROVE  /\ At(r, "warn") => Cardinality(accusers[calls[r].about]) >= Threshold
                      /\ At(r, "mute") => Cardinality(accusers[calls[r].about]) >= 2 * Threshold
    BY DEF SanctionsAreBacked
  <2>1. calls[r].about \in Users /\ calls[r].total \in Nat
    BY DEF At, IInv, TypeOK, Call
  <2>2. Cardinality(accusers[calls[r].about]) \in Nat
    BY <2>1, AccusersFinite DEF IInv
  <2>3. calls[r].total <= Cardinality(accusers[calls[r].about])
    BY DEF At, IInv, CountIsBacked
  <2> QED
    BY <2>1, <2>2, <2>3, ThresholdAssumption DEF IInv, SanctionIsDue
<1> QED
  BY <1>1, Inductive, PTL
=============================================================================
