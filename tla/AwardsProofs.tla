---------------------------- MODULE AwardsProofs ----------------------------
(***************************************************************************)
(* Points, levels and the nightly task, for any number of users, of awards   *)
(* and attendances in flight, and of failures and restarts.                  *)
(***************************************************************************)
EXTENDS Awards, FiniteSetTheorems, TLAPS

-----------------------------------------------------------------------------
(* The event.  Nothing here does to it what its own operations could not do. *)

LEMMA EventStart == Init => EventInit
  BY DEF Init

LEMMA EventMoves == [Next]_vars => [EventNext]_eventVars
<1> SUFFICES ASSUME [Next]_vars
             PROVE  [EventNext]_eventVars
  OBVIOUS
<1>1. CASE \E a \in AwardIds : Steps(a) \/ AwardFails(a)
  BY <1>1 DEF Steps, CreateLog, Increment, WriteLevel, AwardFails
<1>2. CASE EventStep
  BY <1>2 DEF EventStep, EventNext
<1>3. CASE \E c \in CallIds : AttendanceFails(c) \/ \E a \in AwardIds : AwardJoined(c, a)
  BY <1>3 DEF AttendanceFails, AwardJoined, EventNext
<1>4. CASE Night
  <2>1. MarkCompleted => SetStatus
    BY DEF MarkCompleted, SetStatus, Statuses
  <2> QED
    BY <1>4, <2>1 DEF Night, FindEnded, ReadGuests, AwardNext, NightOver, EventNext
<1>5. CASE NightFails
  BY <1>5 DEF NightFails
<1>6. CASE Restart
  BY <1>6 DEF Restart, EventNext
<1>7. CASE UNCHANGED vars
  BY <1>7 DEF vars
<1> QED
  BY <1>1, <1>2, <1>3, <1>4, <1>5, <1>6, <1>7 DEF Next

\* The awards and the nightly task leave the event to its own operations: with them, too,
\* it behaves as Events says (markCompletedEvents is an administrator's change to it), so
\* that what holds of EventSpec holds of an event that earns points.
THEOREM ImplementsEvents == Spec => EventSpec
  BY EventStart, EventMoves, PTL DEF Spec, EventSpec

EventCall ==
  [user : Users, status : {"GOING", "INTERESTED"}, at : {"find", "upsert", "notify"},
   known : BOOLEAN, together : BOOLEAN]

LEMMA EventTypes == EventTypeOK /\ [EventNext]_eventVars => EventTypeOK'
<1> SUFFICES ASSUME EventTypeOK, [EventNext]_eventVars
             PROVE  EventTypeOK'
  OBVIOUS
<1> USE DEF EventTypeOK, event, Running, At
<1>1. ASSUME NEW c \in CallIds, NEW u \in Users, NEW s \in {"GOING", "INTERESTED"},
             Attend(c, u, s)
      PROVE  EventTypeOK'
  <2> DEFINE call == [user |-> u, status |-> s, at |-> "find", known |-> FALSE,
                      together |-> InCompany]
  <2>1. call \in EventCall
    BY DEF EventCall, InCompany
  <2>2. calls' = [Met EXCEPT ![c] = call] /\ UNCHANGED <<event, going>>
    BY <1>1 DEF Attend, Enter
  <2> HIDE DEF call
  <2>3. \A r \in EventCall : [r EXCEPT !.together = TRUE] \in EventCall
    BY DEF EventCall
  <2>4. Met \in [CallIds -> {Idle} \cup EventCall]
    BY <2>3 DEF Met, EventCall
  <2> QED
    BY <2>1, <2>2, <2>4 DEF EventCall
<1>2. ASSUME NEW c \in CallIds, FindExisting(c)
      PROVE  EventTypeOK'
  <2> DEFINE known == going[calls[c].user] # "no"
             call == [calls[c] EXCEPT !.at = "upsert", !.known = known]
  <2>1. calls[c] \in EventCall /\ calls' = [calls EXCEPT ![c] = call] /\ UNCHANGED <<event, going>>
    BY <1>2 DEF FindExisting, EventCall
  <2>2. call \in EventCall
    BY <2>1 DEF EventCall
  <2> HIDE DEF call
  <2> QED
    BY <2>1, <2>2 DEF EventCall
<1>3. ASSUME NEW c \in CallIds, Upsert(c)
      PROVE  EventTypeOK'
  <2>1. calls[c] \in EventCall /\ going' = [going EXCEPT ![calls[c].user] = calls[c].status]
        /\ UNCHANGED event
    BY <1>3 DEF Upsert, EventCall
  <2>2. calls' \in [CallIds -> {Idle} \cup EventCall]
    BY <1>3, <2>1 DEF Upsert, GoOn, Return, EventCall
  <2> QED
    BY <2>1, <2>2 DEF EventCall
<1>4. ASSUME NEW c \in CallIds, NotifyAndAward(c) \/ AttendFails(c)
      PROVE  EventTypeOK'
  BY <1>4 DEF NotifyAndAward, AttendFails, Throw, Return
<1>5. CASE SetStatus \/ DeleteEvent \/ EndsAt
  BY <1>5 DEF SetStatus, DeleteEvent, EndsAt
<1>6. CASE EventsLost
  BY <1>6 DEF EventsLost, CallsLost, NoCalls
<1>7. CASE UNCHANGED eventVars
  BY <1>7 DEF eventVars
<1> QED
  BY <1>1, <1>2, <1>3, <1>4, <1>5, <1>6, <1>7 DEF EventNext

-----------------------------------------------------------------------------
(* Levels. *)

Steps5 == 1..5

LEMMA LevelsOf ==
  /\ DOMAIN TotalPointsForLevel = Steps5
  /\ \A p \in Nat : LevelForPoints(p) \in Steps5
  /\ \A p, q \in Nat : p <= q => LevelForPoints(p) <= LevelForPoints(q)
  /\ LevelForPoints(0) = 1
<1> DEFINE Reached(p) == {n \in DOMAIN TotalPointsForLevel : TotalPointsForLevel[n] <= p}
<1>1. DOMAIN TotalPointsForLevel = Steps5
  BY DEF TotalPointsForLevel, Steps5
<1>2. \A n \in Steps5 : TotalPointsForLevel[n] \in Nat
  BY DEF TotalPointsForLevel, Steps5
<1>3. TotalPointsForLevel[1] = 0 /\ \A n \in Steps5 \ {1} : TotalPointsForLevel[n] > 0
  BY DEF TotalPointsForLevel, Steps5
<1>4. IsFiniteSet(Steps5) /\ Cardinality(Steps5) = 5
  <2>1. 1 \in Int /\ 5 \in Int
    OBVIOUS
  <2>2. IsFiniteSet(1..5) /\ Cardinality(1..5) = IF 1 > 5 THEN 0 ELSE 5 - 1 + 1
    BY <2>1, FS_Interval
  <2> QED
    BY <2>2 DEF Steps5
<1>5. \A p \in Nat : Reached(p) \subseteq Steps5 /\ 1 \in Reached(p)
  BY <1>1, <1>3 DEF Steps5
<1>6. \A p \in Nat : /\ IsFiniteSet(Reached(p)) /\ Cardinality(Reached(p)) \in Nat
                     /\ Cardinality(Reached(p)) <= 5
  BY <1>4, <1>5, FS_Subset, FS_CardinalityType
<1>7. ASSUME NEW p \in Nat, NEW q \in Nat, p <= q
      PROVE  Cardinality(Reached(p)) <= Cardinality(Reached(q))
  <2>1. Reached(p) \subseteq Reached(q)
    BY <1>1, <1>2, <1>7
  <2> QED
    BY <1>6, <2>1, FS_Subset
<1>8. Reached(0) = {1}
  BY <1>1, <1>2, <1>3 DEF Steps5
<1>9. Cardinality({1}) = 1 /\ IsFiniteSet({1})
  BY FS_Singleton
<1>10. \A p \in Nat : Cardinality(Reached(p)) >= 1
  <2> SUFFICES ASSUME NEW p \in Nat
               PROVE  Cardinality(Reached(p)) >= 1
    OBVIOUS
  <2>1. {1} \subseteq Reached(p) /\ IsFiniteSet(Reached(p))
    BY <1>5, <1>6
  <2>2. Cardinality({1}) <= Cardinality(Reached(p))
    BY <2>1, FS_Subset
  <2> QED
    BY <1>6, <1>9, <2>2
<1>11. \A p : LevelForPoints(p) = Cardinality(Reached(p))
  BY DEF LevelForPoints
<1> HIDE DEF Reached
<1>12. \A p \in Nat : LevelForPoints(p) \in Steps5
  BY <1>6, <1>10, <1>11 DEF Steps5
<1>13. \A p, q \in Nat : p <= q => LevelForPoints(p) <= LevelForPoints(q)
  BY <1>7, <1>11
<1> QED
  BY <1>1, <1>8, <1>9, <1>11, <1>12, <1>13

-----------------------------------------------------------------------------
(* The types. *)

AwardTypeOK ==
  /\ log \subseteq Keys /\ lost \subseteq Keys /\ missed \subseteq Keys /\ owed \subseteq Keys
  /\ uneven \subseteq Users
  /\ points \in [Users -> Nat] /\ level \in [Users -> Steps5]
  /\ awards \in [AwardIds -> {Idle} \cup Activation]
  /\ night \in [at : {"asleep", "complete", "read", "award"}, todo : SUBSET Keys]
  /\ faults \in 0..MaxFaults

\* A level that waits to be written is one.
ValuesAreLevels == \A a \in AwardIds : Open(a, "level") => awards[a].val \in Steps5

TypeInv == EventTypeOK /\ AwardTypeOK /\ ValuesAreLevels

LEMMA AwardTypes ==
  /\ TypeOK <=> EventTypeOK /\ AwardTypeOK
  /\ TypeOK' <=> EventTypeOK' /\ AwardTypeOK'
BY LevelsOf DEF TypeOK, AwardTypeOK

LEMMA ValueOf ==
  /\ DOMAIN Value = {"CREATED", "JOINED", "ORGANIZER", "ATTENDEE"}
  /\ \A x \in DOMAIN Value : Value[x] \in Nat
BY DEF Value

LEMMA KeyOf ==
  ASSUME NEW k \in Keys
  PROVE  k[1] \in Users /\ k[2] \in DOMAIN Value /\ k = <<k[1], k[2]>>
BY DEF Keys

LEMMA AwardBegins ==
  ASSUME AwardTypeOK, NEW a \in AwardIds, NEW key \in Keys, NEW by \in {"night", "other"}
  PROVE  /\ Award(key, by) \in Activation /\ Award(key, by) # Idle
         /\ Begun(a, key, by) \in [AwardIds -> {Idle} \cup Activation]
<1>1. Award(key, by) \in Activation
  BY DEF Award, Activation
<1>2. Award(key, by) # Idle
  BY <1>1, ActivationAssumption
<1> QED
  BY <1>1, <1>2 DEF Begun, AwardTypeOK

\* What stops is written off as a row without points, as no row, or as a level.
LEMMA CutTypes ==
  ASSUME AwardTypeOK, NEW A \in SUBSET AwardIds, Cut(A)
  PROVE  lost' \subseteq Keys /\ missed' \subseteq Keys /\ uneven' \subseteq Users
<1>1. \A a \in A, at \in {"create", "increment", "level"} : Open(a, at) => awards[a].key \in Keys
  BY DEF Open, AwardTypeOK, Activation
<1> QED
  BY <1>1, KeyOf DEF Cut, AwardTypeOK

LEMMA AwardTypesStep == TypeInv /\ [Next]_vars => TypeInv'
<1> SUFFICES ASSUME TypeInv, [Next]_vars
             PROVE  TypeInv'
  OBVIOUS
<1>1. EventTypeOK' /\ EventTypeOK /\ AwardTypeOK /\ ValuesAreLevels
  BY EventMoves, EventTypes DEF TypeInv
<1>2. SUFFICES AwardTypeOK' /\ ValuesAreLevels'
  BY <1>1 DEF TypeInv
<1> DEFINE Goal == AwardTypeOK' /\ ValuesAreLevels'
<1> USE DEF AwardTypeOK, ValuesAreLevels
<1>3. ASSUME NEW a \in AwardIds, CreateLog(a)
      PROVE  Goal
  <2>1. awards[a] \in Activation
    BY <1>1, <1>3 DEF CreateLog, Open
  <2>2. /\ awards' \in [AwardIds -> {Idle} \cup Activation]
        /\ \A b \in AwardIds \ {a} : awards'[b] = awards[b]
        /\ awards'[a] = Idle \/ awards'[a].at = "increment"
    BY <1>1, <1>3, <2>1 DEF CreateLog, Over, Activation
  <2> QED
    BY <1>1, <1>3, <2>1, <2>2 DEF CreateLog, Activation, Open
<1>4. ASSUME NEW a \in AwardIds, Increment(a)
      PROVE  Goal
  <2> DEFINE u == awards[a].key[1]
             new == NewLevel(a)
  <2>1. awards[a] \in Activation /\ awards[a].key \in Keys
    BY <1>1, <1>4 DEF Increment, Open, Activation
  <2>2. u \in Users /\ Value[awards[a].key[2]] \in Nat
    BY <2>1, KeyOf, ValueOf
  <2>3. new \in Steps5
    <3>1. points[u] + Value[awards[a].key[2]] \in Nat
      BY <1>1, <2>2
    <3> QED
      BY <3>1, LevelsOf DEF NewLevel
  <2>4. awards' = [awards EXCEPT ![a].at = "level", ![a].val = new] \/ Over(a)
    BY <1>4 DEF Increment
  <2> HIDE DEF new
  <2>5. /\ awards' \in [AwardIds -> {Idle} \cup Activation]
        /\ \A b \in AwardIds \ {a} : awards'[b] = awards[b]
        /\ awards'[a] = Idle \/ awards'[a].val = new
    BY <1>1, <2>1, <2>3, <2>4 DEF Over, Activation, Steps5
  <2>6. points' = [points EXCEPT ![u] = @ + Value[awards[a].key[2]]]
        /\ uneven' \in {uneven \cup {u}, uneven \ {u}}
        /\ UNCHANGED <<log, level, lost, missed, night, faults, owed>>
    BY <1>4 DEF Increment
  <2>7. points' \in [Users -> Nat]
    BY <1>1, <2>2, <2>6
  <2>8. ValuesAreLevels'
    BY <1>1, <2>3, <2>5 DEF Open
  <2> QED
    BY <1>1, <2>2, <2>5, <2>6, <2>7, <2>8
<1>5. ASSUME NEW a \in AwardIds, WriteLevel(a)
      PROVE  Goal
  <2>1. awards[a] \in Activation /\ awards[a].val \in Steps5 /\ awards[a].key[1] \in Users
    BY <1>1, <1>5, KeyOf DEF WriteLevel, Open, Activation
  <2> QED
    BY <1>1, <1>5, <2>1 DEF WriteLevel, Over, Open
<1>6. ASSUME NEW a \in AwardIds, AwardFails(a)
      PROVE  Goal
  <2>1. lost' \subseteq Keys /\ missed' \subseteq Keys /\ uneven' \subseteq Users
    BY <1>1, <1>6, CutTypes DEF AwardFails
  <2>2. faults' \in 0..MaxFaults
    BY <1>1, <1>6, FaultsAssumption DEF AwardFails
  <2> QED
    BY <1>1, <1>6, <2>1, <2>2 DEF AwardFails, Over, Open
<1>7. CASE EventStep
  BY <1>1, <1>7 DEF EventStep, ledger, Open
<1>8. ASSUME NEW c \in CallIds, AttendanceFails(c)
      PROVE  Goal
  <2>1. faults' \in 0..MaxFaults
    BY <1>1, <1>8, FaultsAssumption DEF AttendanceFails
  <2> QED
    BY <1>1, <1>8, <2>1 DEF AttendanceFails, ledger, Open
<1>9. ASSUME NEW a \in AwardIds, NEW key \in Keys, NEW by \in {"night", "other"},
             awards' = Begun(a, key, by), night' \in [at : {"asleep", "complete", "read", "award"}, todo : SUBSET Keys],
             UNCHANGED <<log, points, level, lost, missed, uneven, faults, owed>>
      PROVE  Goal
  <2>1. awards' \in [AwardIds -> {Idle} \cup Activation]
    BY <1>1, <1>9, AwardBegins
  <2>2. \A b \in AwardIds : awards'[b] = awards[b] \/ awards'[b].at = "create"
    BY <1>1, <1>9 DEF Begun, Award
  <2> QED
    BY <1>1, <1>9, <2>1, <2>2 DEF Open
<1>10. ASSUME NEW c \in CallIds, NEW a \in AwardIds, AwardJoined(c, a)
       PROVE  Goal
  <2>1. calls[c].user \in Users
    BY <1>1, <1>10 DEF AwardJoined, NotifyAndAward, At, Running, EventTypeOK
  <2>2. <<calls[c].user, "JOINED">> \in Keys
    BY <2>1, ValueOf DEF Keys
  <2> QED
    BY <1>1, <1>9, <1>10, <2>2 DEF AwardJoined
<1>11. ASSUME NEW a \in AwardIds, AwardNext(a)
       PROVE  Goal
  <2> PICK key \in night.todo : awards' = Begun(a, key, "night")
                                /\ night' = [night EXCEPT !.todo = @ \ {key}]
    BY <1>11 DEF AwardNext
  <2>1. key \in Keys
    BY <1>1
  <2>2. night' \in [at : {"asleep", "complete", "read", "award"}, todo : SUBSET Keys]
    BY <1>1
  <2> QED
    BY <1>9, <1>11, <2>1, <2>2 DEF AwardNext
<1>12. ASSUME UNCHANGED <<ledger, faults>>, owed' \subseteq Keys,
              night' \in [at : {"asleep", "complete", "read", "award"}, todo : SUBSET Keys]
       PROVE  Goal
  BY <1>1, <1>12 DEF ledger, Open
<1>13. CASE FindEnded \/ MarkCompleted \/ NightOver
  <2>1. night' \in [at : {"asleep", "complete", "read", "award"}, todo : SUBSET Keys]
    BY <1>13 DEF FindEnded, MarkCompleted, NightOver, Asleep
  <2> QED
    BY <1>1, <1>12, <1>13, <2>1 DEF FindEnded, MarkCompleted, NightOver
<1>14. CASE ReadGuests
  <2> DEFINE todo == {<<Organizer, "ORGANIZER">>} \cup
                     {<<u, "ATTENDEE">> : u \in {v \in Users \ {Organizer} : going[v] = "GOING"}}
  <2>1. todo \in SUBSET Keys
    BY ValueOf, EventAssumption DEF Keys
  <2>2. night' = [night EXCEPT !.at = "award", !.todo = todo] /\ owed' = night'.todo
        /\ UNCHANGED <<ledger, faults>>
    BY <1>14 DEF ReadGuests
  <2> HIDE DEF todo
  <2>3. night' \in [at : {"asleep", "complete", "read", "award"}, todo : SUBSET Keys]
    BY <1>1, <2>1, <2>2
  <2> QED
    BY <1>12, <2>1, <2>2, <2>3
<1>15. CASE NightFails
  <2>1. faults' \in 0..MaxFaults
    BY <1>1, <1>15, FaultsAssumption DEF NightFails
  <2> QED
    BY <1>1, <1>15, <2>1 DEF NightFails, Asleep, ledger, Open
<1>16. CASE Restart
  <2> DEFINE A == {a \in AwardIds : ~Free(a)}
  <2>1. A \in SUBSET AwardIds /\ Cut(A)
    BY <1>16 DEF Restart
  <2>2. lost' \subseteq Keys /\ missed' \subseteq Keys /\ uneven' \subseteq Users
    BY <1>1, <2>1, CutTypes
  <2>3. faults' \in 0..MaxFaults
    BY <1>1, <1>16, FaultsAssumption DEF Restart
  <2> QED
    BY <1>1, <1>16, <2>2, <2>3 DEF Restart, Asleep, Open
<1>17. CASE UNCHANGED vars
  BY <1>1, <1>17 DEF vars, ledger, Open
<1> QED
  BY <1>3, <1>4, <1>5, <1>6, <1>7, <1>8, <1>10, <1>11, <1>13, <1>14, <1>15, <1>16, <1>17
  DEF Next, Steps, Night

-----------------------------------------------------------------------------
(* Points and levels. *)

\* A row is there before its points, is cut off only with its award, and has one award.
RowsWritten ==
  /\ lost \subseteq log
  /\ \A a \in AwardIds : ~Free(a) /\ awards[a].at # "create" => awards[a].key \in log
  /\ \A a \in AwardIds : Open(a, "increment") => awards[a].key \notin lost
  /\ \A a, b \in AwardIds :
       Open(a, "increment") /\ Open(b, "increment") /\ awards[a].key = awards[b].key => a = b

\* A level on its way is not above the points, and is theirs while it is not late.
LevelsAreDue ==
  \A a \in AwardIds : Open(a, "level") =>
    /\ awards[a].val <= LevelForPoints(points[awards[a].key[1]])
    /\ awards[a].key[1] \notin uneven => awards[a].val = LevelForPoints(points[awards[a].key[1]])

LedgerInv == RowsWritten /\ PointsMatchLog /\ LevelFollowsPoints /\ LevelsAreDue

\* The rows whose points have been given.
OnItsWay(k) == \E a \in AwardIds : Open(a, "increment") /\ awards[a].key = k
Given == {k \in log : k \notin lost /\ ~OnItsWay(k)}

LEMMA WorthSame ==
  ASSUME NEW u, NEW S, NEW T, \A x \in DOMAIN Value : <<u, x>> \in S <=> <<u, x>> \in T
  PROVE  Worth(u, S) = Worth(u, T)
BY ValueOf DEF Worth

LEMMA WorthMore ==
  ASSUME NEW u, NEW x \in DOMAIN Value, NEW S, <<u, x>> \notin S
  PROVE  /\ Worth(u, S \cup {<<u, x>>}) = Worth(u, S) + Value[x]
         /\ \A v : v # u => Worth(v, S \cup {<<u, x>>}) = Worth(v, S)
<1> DEFINE T == S \cup {<<u, x>>}
           Of(v, R, y) == IF <<v, y>> \in R THEN Value[y] ELSE 0
<1>1. \A y \in DOMAIN Value : y # x => Of(u, T, y) = Of(u, S, y)
  OBVIOUS
<1>2. Of(u, T, x) = Value[x] /\ Of(u, S, x) = 0
  OBVIOUS
<1>3. \A y \in DOMAIN Value : Of(u, S, y) \in Nat
  BY ValueOf
<1>4. \A v, R : Worth(v, R) = Of(v, R, "CREATED") + Of(v, R, "JOINED") + Of(v, R, "ORGANIZER")
                              + Of(v, R, "ATTENDEE")
  BY DEF Worth
<1>5. \A v : v # u => \A y \in DOMAIN Value : <<v, y>> \in T <=> <<v, y>> \in S
  OBVIOUS
<1>6. \A v : v # u => Worth(v, T) = Worth(v, S)
  BY <1>5, WorthSame
<1> HIDE DEF T, Of
<1>7. Worth(u, T) = Worth(u, S) + Value[x]
  BY <1>1, <1>2, <1>3, <1>4, ValueOf
<1> QED
  BY <1>6, <1>7 DEF T

LEMMA PointsGiven ==
  /\ PointsMatchLog <=> \A u \in Users : points[u] = Worth(u, Given)
  /\ PointsMatchLog' <=> \A u \in Users : points'[u] = Worth(u, Given')
<1>1. ASSUME NEW u \in Users
      PROVE  Worth(u, log \ (Pending(u) \cup lost)) = Worth(u, Given)
  <2>1. \A x : <<u, x>> \in Pending(u) <=> OnItsWay(<<u, x>>)
    BY DEF Pending, OnItsWay
  <2> QED
    BY <2>1, WorthSame DEF Given
<1>2. ASSUME NEW u \in Users
      PROVE  Worth(u, log' \ (Pending(u)' \cup lost')) = Worth(u, Given')
  <2>1. \A x : <<u, x>> \in Pending(u)' <=> OnItsWay(<<u, x>>)'
    BY DEF Pending, OnItsWay
  <2> QED
    BY <2>1, WorthSame DEF Given
<1> QED
  BY <1>1, <1>2 DEF PointsMatchLog

\* Awards begin, and nothing else happens to the ledger.
LEMMA Undisturbed ==
  ASSUME LedgerInv, UNCHANGED <<log, points, level, lost, uneven>>,
         \A a \in AwardIds : awards'[a] = awards[a]
                             \/ (Free(a) /\ ~Free(a)' /\ awards'[a].at = "create")
  PROVE  LedgerInv'
<1>1. \A a \in AwardIds, at \in {"increment", "level"} :
        /\ Open(a, at)' <=> Open(a, at)
        /\ Open(a, at) => awards'[a] = awards[a]
  BY DEF Open, Free
<1>2. RowsWritten'
  <2>1. \A a \in AwardIds : ~Free(a)' /\ awards'[a].at # "create" =>
          ~Free(a) /\ awards[a].at # "create" /\ awards'[a].key = awards[a].key
    BY DEF Free
  <2> QED
    BY <1>1, <2>1 DEF LedgerInv, RowsWritten
<1>3. Given' = Given
  BY <1>1 DEF Given, OnItsWay
<1>4. PointsMatchLog'
  BY <1>3, PointsGiven DEF LedgerInv
<1>5. LevelFollowsPoints' /\ LevelsAreDue'
  BY <1>1 DEF LedgerInv, LevelFollowsPoints, LevelsAreDue
<1> QED
  BY <1>2, <1>4, <1>5 DEF LedgerInv

LEMMA RowCreated ==
  ASSUME TypeInv, LedgerInv, NEW a \in AwardIds, CreateLog(a)
  PROVE  LedgerInv'
<1>1. /\ awards \in [AwardIds -> {Idle} \cup Activation] /\ awards[a] \in Activation
      /\ ~Free(a) /\ awards[a].at = "create"
  BY DEF TypeInv, AwardTypeOK, CreateLog, Open, Free
<1>0. PICK key \in Keys : key = awards[a].key
  BY <1>1 DEF Activation
<1>2. log' = log \cup {key} /\ UNCHANGED <<points, level, lost, uneven>>
  BY <1>0 DEF CreateLog
<1>3. \A b \in AwardIds \ {a} : awards'[b] = awards[b]
  BY <1>1 DEF CreateLog, Over
<1>4. CASE key \in log
  <2>1. awards'[a] = Idle /\ log' = log
    BY <1>0, <1>1, <1>2, <1>4 DEF CreateLog, Over
  <2>2. \A b \in AwardIds, at \in {"increment", "level"} :
          /\ Open(b, at)' <=> Open(b, at)
          /\ Open(b, at) => awards'[b] = awards[b]
    BY <1>1, <1>3, <2>1 DEF Open
  <2>3. RowsWritten'
    BY <1>2, <1>3, <2>1, <2>2 DEF LedgerInv, RowsWritten, Free
  <2>4. Given' = Given
    BY <1>2, <2>1, <2>2 DEF Given, OnItsWay
  <2>5. PointsMatchLog'
    BY <1>2, <2>4, PointsGiven DEF LedgerInv
  <2>6. LevelFollowsPoints' /\ LevelsAreDue'
    BY <1>2, <2>2 DEF LedgerInv, LevelFollowsPoints, LevelsAreDue
  <2> QED
    BY <2>3, <2>5, <2>6 DEF LedgerInv
<1>5. CASE key \notin log
  <2> DEFINE r == [awards[a] EXCEPT !.at = "increment"]
  <2>1. awards'[a] = r
    BY <1>0, <1>1, <1>5 DEF CreateLog
  <2>2. r \in Activation /\ r.at = "increment" /\ r.key = key
    BY <1>0, <1>1 DEF Activation
  <2> HIDE DEF r
  <2>3. r # Idle
    BY <2>2, ActivationAssumption
  <2>4. Open(a, "increment")' /\ awards'[a].key = key
    BY <2>1, <2>2, <2>3 DEF Open
  <2>5. \A b \in AwardIds \ {a}, at \in {"increment", "level"} :
          (Open(b, at)' <=> Open(b, at)) /\ awards'[b] = awards[b]
    BY <1>3 DEF Open
  <2>6. ~Open(a, "level") /\ ~Open(a, "level")' /\ ~Open(a, "increment")
    BY <1>1, <2>4 DEF Open
  <2>7. \A b \in AwardIds : Open(b, "increment") => awards[b].key \in log
    BY DEF Open, Free, LedgerInv, RowsWritten
  <2>8. RowsWritten'
    BY <1>2, <1>3, <1>5, <2>1, <2>2, <2>4, <2>5, <2>7 DEF LedgerInv, RowsWritten, Free
  <2>9. \A k \in log : OnItsWay(k)' <=> OnItsWay(k)
    BY <1>5, <2>4, <2>5, <2>6 DEF OnItsWay
  <2>10. OnItsWay(key)'
    BY <2>4 DEF OnItsWay
  <2>11. Given' = Given
    BY <1>2, <2>9, <2>10 DEF Given
  <2>12. PointsMatchLog'
    BY <1>2, <2>11, PointsGiven DEF LedgerInv
  <2>13. LevelFollowsPoints' /\ LevelsAreDue'
    BY <1>2, <2>5, <2>6 DEF LedgerInv, LevelFollowsPoints, LevelsAreDue
  <2> QED
    BY <2>8, <2>12, <2>13 DEF LedgerInv
<1> QED
  BY <1>4, <1>5

LEMMA LevelPending ==
  ASSUME NEW r \in Activation, NEW n \in Nat
  PROVE  LET s == [r EXCEPT !.at = "level", !.val = n] IN
         s \in Activation /\ s.at = "level" /\ s.val = n /\ s.key = r.key
BY DEF Activation

LEMMA PointsAdded ==
  ASSUME TypeInv, LedgerInv, NEW a \in AwardIds, Increment(a)
  PROVE  LedgerInv'
<1>1. /\ awards \in [AwardIds -> {Idle} \cup Activation] /\ awards[a] \in Activation
      /\ Open(a, "increment") /\ points \in [Users -> Nat]
      /\ level \in [Users -> Steps5]
  BY DEF TypeInv, AwardTypeOK, Increment, Open
<1>0. PICK key \in Keys : key = awards[a].key
  BY <1>1 DEF Activation
<1> DEFINE u == key[1]
           more == Value[key[2]]
           new == NewLevel(a)
<1>2. /\ key \in Keys /\ u \in Users /\ key[2] \in DOMAIN Value /\ key = <<u, key[2]>>
      /\ more \in Nat
  BY KeyOf, ValueOf
<1>3. /\ points' = [points EXCEPT ![u] = @ + more]
      /\ IF new # level[u]
         THEN awards' = [awards EXCEPT ![a].at = "level", ![a].val = new]
         ELSE Over(a)
      /\ uneven' = IF \E b \in Others(a, u) : Open(b, "level") THEN uneven \cup {u}
                                                               ELSE uneven \ {u}
      /\ UNCHANGED <<log, level, lost>>
  BY <1>0 DEF Increment
<1>4. new = LevelForPoints(points'[u]) /\ points'[u] \in Nat /\ points[u] <= points'[u]
  BY <1>0, <1>1, <1>2, <1>3 DEF NewLevel
<1>5. new \in Steps5 /\ LevelForPoints(points[u]) <= new /\ LevelForPoints(points[u]) \in Steps5
  BY <1>1, <1>2, <1>4, LevelsOf
<1>6. \A v \in Users \ {u} : points'[v] = points[v]
  BY <1>1, <1>3
<1> HIDE DEF new
<1>7. \A b \in AwardIds \ {a} : awards'[b] = awards[b]
  BY <1>1, <1>3 DEF Over
<1>8. IF new # level[u]
      THEN Open(a, "level")' /\ awards'[a].val = new /\ awards'[a].key = key
      ELSE awards'[a] = Idle
  <2> DEFINE r == [awards[a] EXCEPT !.at = "level", !.val = new]
  <2>1. r \in Activation /\ r.at = "level" /\ r.val = new /\ r.key = key
    <3>1. new \in Nat /\ awards[a] \in Activation
      BY <1>1, <1>5 DEF Steps5
    <3> QED
      BY <1>0, <3>1, LevelPending
  <2>2. new # level[u] => awards'[a] = r
    BY <1>1, <1>3
  <2> HIDE DEF r
  <2>3. r # Idle
    BY <2>1, ActivationAssumption
  <2> QED
    BY <1>1, <1>3, <2>1, <2>2, <2>3 DEF Over, Open
<1>9. ~Open(a, "increment")' /\ (Open(a, "level")' => awards'[a].val = new /\ awards'[a].key = key)
  BY <1>8 DEF Open
<1>10. \A b \in AwardIds \ {a}, at \in {"increment", "level"} :
         (Open(b, at)' <=> Open(b, at)) /\ awards'[b] = awards[b]
  BY <1>7 DEF Open
<1>11. RowsWritten'
  <2>1. key \in log /\ key \notin lost
    BY <1>0, <1>1 DEF LedgerInv, RowsWritten, Open, Free
  <2>2. \A b \in AwardIds : ~Free(b)' /\ awards'[b].at # "create" => awards'[b].key \in log
    <3>1. \A b \in AwardIds \ {a} : ~Free(b)' /\ awards'[b].at # "create" => awards'[b].key \in log
      BY <1>7 DEF LedgerInv, RowsWritten, Free
    <3>2. ~Free(a)' => awards'[a].key = key
      BY <1>8 DEF Free
    <3> QED
      BY <2>1, <3>1, <3>2
  <2> QED
    BY <1>3, <1>9, <1>10, <2>2 DEF LedgerInv, RowsWritten
<1>12. PointsMatchLog'
  <2>1. key \in log /\ key \notin lost /\ OnItsWay(key)
    BY <1>0, <1>1 DEF LedgerInv, RowsWritten, Open, Free, OnItsWay
  <2>2. ~OnItsWay(key)'
    BY <1>0, <1>1, <1>9, <1>10 DEF LedgerInv, RowsWritten, OnItsWay
  <2>3. \A k : k # key => (OnItsWay(k)' <=> OnItsWay(k))
    BY <1>0, <1>1, <1>9, <1>10 DEF OnItsWay
  <2>4. Given' = Given \cup {key} /\ key \notin Given
    BY <1>3, <2>1, <2>2, <2>3 DEF Given
  <2> DEFINE x == key[2]
  <2>5. Given' = Given \cup {<<u, x>>} /\ <<u, x>> \notin Given /\ x \in DOMAIN Value
    BY <1>2, <2>4
  <2>6. /\ Worth(u, Given \cup {<<u, x>>}) = Worth(u, Given) + Value[x]
        /\ \A v : v # u => Worth(v, Given \cup {<<u, x>>}) = Worth(v, Given)
    BY <2>5, WorthMore
  <2>7. \A v \in Users : points[v] = Worth(v, Given)
    BY PointsGiven DEF LedgerInv
  <2>8. points'[u] = points[u] + Value[x]
    BY <1>1, <1>2, <1>3
  <2> HIDE DEF x, u, more
  <2>9. \A v \in Users : points'[v] = Worth(v, Given')
    BY <1>2, <1>6, <2>5, <2>6, <2>7, <2>8
  <2> QED
    BY <2>9, PointsGiven
<1>13. LevelFollowsPoints'
  <2>1. ASSUME NEW v \in Users, v # u
        PROVE  /\ level'[v] <= LevelForPoints(points'[v])
               /\ (\A b \in AwardIds : Open(b, "level")' => awards'[b].key[1] # v) /\ v \notin uneven'
                    => level'[v] = LevelForPoints(points'[v])
    <3>1. points'[v] = points[v] /\ level'[v] = level[v] /\ (v \in uneven' <=> v \in uneven)
      BY <1>3, <1>6, <2>1
    <3>2. ~Open(a, "level")
      BY <1>1 DEF Open
    <3>3. ASSUME \A b \in AwardIds : Open(b, "level")' => awards'[b].key[1] # v
          PROVE  \A b \in AwardIds : Open(b, "level") => awards[b].key[1] # v
      BY <1>10, <3>2, <3>3
    <3> QED
      BY <3>1, <3>3 DEF LedgerInv, LevelFollowsPoints
  <2>2. level'[u] <= LevelForPoints(points'[u])
    <3>1. level[u] <= LevelForPoints(points[u]) /\ level[u] \in Steps5
      BY <1>1, <1>2 DEF LedgerInv, LevelFollowsPoints
    <3> QED
      BY <1>3, <1>4, <1>5, <3>1 DEF Steps5
  <2>3. ASSUME \A b \in AwardIds : Open(b, "level")' => awards'[b].key[1] # u
        PROVE  level'[u] = LevelForPoints(points'[u])
    <3>1. new = level[u]
      BY <1>8, <2>3
    <3> QED
      BY <1>3, <1>4, <3>1
  <2> HIDE DEF u
  <2> QED
    BY <2>1, <2>2, <2>3 DEF LevelFollowsPoints
<1>14. LevelsAreDue'
  <2>1. Open(a, "level")' => /\ awards'[a].val <= LevelForPoints(points'[awards'[a].key[1]])
                             /\ awards'[a].val = LevelForPoints(points'[awards'[a].key[1]])
    BY <1>4, <1>5, <1>9 DEF Steps5
  <2>2. ASSUME NEW b \in AwardIds \ {a}, Open(b, "level")
        PROVE  /\ awards'[b].val <= LevelForPoints(points'[awards'[b].key[1]])
               /\ awards'[b].key[1] \notin uneven'
                    => awards'[b].val = LevelForPoints(points'[awards'[b].key[1]])
    <3>1. awards'[b] = awards[b] /\ awards[b].val \in Steps5
      BY <1>7, <2>2 DEF TypeInv, ValuesAreLevels
    <3>2. /\ awards[b].val <= LevelForPoints(points[awards[b].key[1]])
          /\ awards[b].key[1] \notin uneven => awards[b].val = LevelForPoints(points[awards[b].key[1]])
      BY <2>2 DEF LedgerInv, LevelsAreDue
    <3>3. CASE awards[b].key[1] = u
      <4>1. b \in Others(a, u)
        BY <2>2, <3>3 DEF Others, Open
      <4>2. u \in uneven'
        BY <1>3, <2>2, <4>1
      <4>3. awards[b].val <= new
        BY <1>5, <3>1, <3>2, <3>3 DEF Steps5
      <4> QED
        BY <1>4, <3>1, <3>3, <4>2, <4>3
    <3>4. CASE awards[b].key[1] # u
      <4>1. awards[b].key[1] \in Users
        BY <1>1, <2>2, KeyOf DEF Open, Activation
      <4>2. points'[awards[b].key[1]] = points[awards[b].key[1]]
        BY <1>6, <3>4, <4>1
      <4>3. awards[b].key[1] \in uneven' <=> awards[b].key[1] \in uneven
        BY <1>3, <3>4
      <4> QED
        BY <3>1, <3>2, <4>2, <4>3
    <3> QED
      BY <3>3, <3>4
  <2> QED
    BY <1>10, <2>1, <2>2 DEF LevelsAreDue
<1> QED
  BY <1>11, <1>12, <1>13, <1>14 DEF LedgerInv

LEMMA LevelWritten ==
  ASSUME TypeInv, LedgerInv, NEW a \in AwardIds, WriteLevel(a)
  PROVE  LedgerInv'
<1>1. /\ awards \in [AwardIds -> {Idle} \cup Activation] /\ awards[a] \in Activation
      /\ Open(a, "level") /\ level \in [Users -> Steps5]
  BY DEF TypeInv, AwardTypeOK, WriteLevel, Open
<1>2. PICK u \in Users : u = awards[a].key[1]
  BY <1>1, KeyOf DEF Activation
<1>3. /\ level' = [level EXCEPT ![u] = awards[a].val] /\ awards'[a] = Idle
      /\ UNCHANGED <<log, points, lost, uneven>>
  BY <1>1, <1>2 DEF WriteLevel, Over
<1>4. \A b \in AwardIds \ {a} : awards'[b] = awards[b]
  BY <1>1 DEF WriteLevel, Over
<1>5. /\ ~Open(a, "level")' /\ ~Open(a, "increment")' /\ ~Open(a, "increment")
      /\ \A b \in AwardIds \ {a}, at \in {"increment", "level"} :
           (Open(b, at)' <=> Open(b, at)) /\ awards'[b] = awards[b]
  BY <1>1, <1>3, <1>4 DEF Open
<1>6. RowsWritten'
  BY <1>3, <1>4, <1>5 DEF LedgerInv, RowsWritten, Free
<1>7. Given' = Given
  BY <1>3, <1>5 DEF Given, OnItsWay
<1>8. PointsMatchLog'
  BY <1>3, <1>7, PointsGiven DEF LedgerInv
<1>9. LevelsAreDue'
  BY <1>3, <1>5 DEF LedgerInv, LevelsAreDue
<1>10. LevelFollowsPoints'
  <2>1. /\ awards[a].val <= LevelForPoints(points[u])
        /\ u \notin uneven => awards[a].val = LevelForPoints(points[u])
    BY <1>1, <1>2 DEF LedgerInv, LevelsAreDue
  <2>2. level'[u] = awards[a].val /\ \A v \in Users \ {u} : level'[v] = level[v]
    BY <1>1, <1>3
  <2>3. ASSUME NEW v \in Users \ {u}, \A b \in AwardIds : Open(b, "level")' => awards'[b].key[1] # v
        PROVE  \A b \in AwardIds : Open(b, "level") => awards[b].key[1] # v
    BY <1>2, <1>5, <2>3
  <2> QED
    BY <1>3, <2>1, <2>2, <2>3 DEF LedgerInv, LevelFollowsPoints
<1> QED
  BY <1>6, <1>8, <1>9, <1>10 DEF LedgerInv

\* Awards stop where they are, one or all.
LEMMA Stopped ==
  ASSUME TypeInv, LedgerInv, NEW A \in SUBSET AwardIds, Cut(A),
         \A a \in AwardIds : awards'[a] = IF a \in A THEN Idle ELSE awards[a],
         UNCHANGED <<log, points, level>>
  PROVE  LedgerInv'
<1>1. \A a \in A : ~Open(a, "increment")' /\ ~Open(a, "level")' /\ Free(a)'
  BY DEF Open, Free
<1>2. \A a \in AwardIds \ A, at \in {"increment", "level"} :
        (Open(a, at)' <=> Open(a, at)) /\ awards'[a] = awards[a]
  BY DEF Open
<1>3. \A k : k \in lost' <=> k \in lost \/ \E a \in A : Open(a, "increment") /\ awards[a].key = k
  BY DEF Cut
<1>4. \A u : u \in uneven' <=> u \in uneven \/ \E a \in A : Open(a, "level") /\ awards[a].key[1] = u
  BY DEF Cut
<1>5. \A a \in AwardIds : Open(a, "increment") => awards[a].key \in log
  BY DEF Open, Free, LedgerInv, RowsWritten
<1>6. RowsWritten'
  <2>1. lost' \subseteq log'
    BY <1>3, <1>5 DEF LedgerInv, RowsWritten
  <2>2. \A a \in AwardIds : ~Free(a)' /\ awards'[a].at # "create" => awards'[a].key \in log'
    BY <1>1, <1>2 DEF LedgerInv, RowsWritten, Free
  <2>3. \A a \in AwardIds : Open(a, "increment")' => awards'[a].key \notin lost'
    BY <1>1, <1>2, <1>3 DEF LedgerInv, RowsWritten
  <2>4. \A a, b \in AwardIds :
          Open(a, "increment")' /\ Open(b, "increment")' /\ awards'[a].key = awards'[b].key => a = b
    BY <1>1, <1>2 DEF LedgerInv, RowsWritten
  <2> QED
    BY <2>1, <2>2, <2>3, <2>4 DEF RowsWritten
<1>7. Given' = Given
  <2>1. \A k : k \notin lost' /\ ~(\E a \in AwardIds : Open(a, "increment")' /\ awards'[a].key = k)
               <=> k \notin lost /\ ~(\E a \in AwardIds : Open(a, "increment") /\ awards[a].key = k)
    BY <1>1, <1>2, <1>3
  <2> QED
    BY <2>1 DEF Given, OnItsWay
<1>8. PointsMatchLog'
  BY <1>7, PointsGiven DEF LedgerInv
<1>9. LevelsAreDue'
  BY <1>1, <1>2, <1>4 DEF LedgerInv, LevelsAreDue
<1>10. LevelFollowsPoints'
  BY <1>1, <1>2, <1>4 DEF LedgerInv, LevelFollowsPoints
<1> QED
  BY <1>6, <1>8, <1>9, <1>10 DEF LedgerInv

LEMMA LedgerStep == TypeInv /\ LedgerInv /\ [Next]_vars => LedgerInv'
<1> SUFFICES ASSUME TypeInv, LedgerInv, [Next]_vars
             PROVE  LedgerInv'
  OBVIOUS
<1>1. AwardTypeOK /\ awards \in [AwardIds -> {Idle} \cup Activation]
  BY DEF TypeInv, AwardTypeOK
<1>2. ASSUME NEW a \in AwardIds, Steps(a)
      PROVE  LedgerInv'
  BY <1>2, RowCreated, PointsAdded, LevelWritten DEF Steps
<1>3. ASSUME NEW a \in AwardIds, AwardFails(a)
      PROVE  LedgerInv'
  <2>1. /\ {a} \in SUBSET AwardIds /\ Cut({a}) /\ UNCHANGED <<log, points, level>>
        /\ \A b \in AwardIds : awards'[b] = IF b \in {a} THEN Idle ELSE awards[b]
    BY <1>1, <1>3 DEF AwardFails, Over
  <2> QED
    BY <2>1, Stopped
<1>4. CASE Restart
  <2> DEFINE A == {a \in AwardIds : ~Free(a)}
  <2>1. /\ A \in SUBSET AwardIds /\ Cut(A) /\ UNCHANGED <<log, points, level>>
        /\ \A b \in AwardIds : awards'[b] = IF b \in A THEN Idle ELSE awards[b]
    BY <1>4 DEF Restart, Free
  <2> HIDE DEF A
  <2> QED
    BY <2>1, Stopped
<1>5. ASSUME NEW a \in AwardIds, NEW key \in Keys, NEW by \in {"night", "other"},
             Free(a), awards' = Begun(a, key, by), UNCHANGED <<log, points, level, lost, uneven>>
      PROVE  LedgerInv'
  <2>1. Award(key, by) # Idle /\ Award(key, by).at = "create"
    BY <1>1, AwardBegins DEF Award
  <2>2. awards'[a] = Award(key, by) /\ \A b \in AwardIds \ {a} : awards'[b] = awards[b]
    BY <1>1, <1>5 DEF Begun
  <2>3. \A b \in AwardIds : awards'[b] = awards[b]
                            \/ (Free(b) /\ ~Free(b)' /\ awards'[b].at = "create")
    BY <1>5, <2>1, <2>2 DEF Free
  <2> QED
    BY <1>5, <2>3, Undisturbed
<1>6. ASSUME NEW c \in CallIds, NEW a \in AwardIds, AwardJoined(c, a)
      PROVE  LedgerInv'
  <2>1. calls[c].user \in Users
    BY <1>6 DEF AwardJoined, NotifyAndAward, At, Running, TypeInv, EventTypeOK
  <2>2. <<calls[c].user, "JOINED">> \in Keys
    BY <2>1, ValueOf DEF Keys
  <2> QED
    BY <1>5, <1>6, <2>2 DEF AwardJoined
<1>7. ASSUME NEW a \in AwardIds, AwardNext(a)
      PROVE  LedgerInv'
  <2> PICK key \in night.todo : awards' = Begun(a, key, "night")
    BY <1>7 DEF AwardNext
  <2>1. key \in Keys
    BY <1>1 DEF AwardTypeOK
  <2> QED
    BY <1>5, <1>7, <2>1 DEF AwardNext
<1>8. ASSUME UNCHANGED ledger
      PROVE  LedgerInv'
  BY <1>8, Undisturbed DEF ledger
<1>9. CASE EventStep \/ \E c \in CallIds : AttendanceFails(c)
  BY <1>8, <1>9 DEF EventStep, AttendanceFails
<1>10. CASE FindEnded \/ MarkCompleted \/ ReadGuests \/ NightOver \/ NightFails \/ UNCHANGED vars
  BY <1>8, <1>10 DEF FindEnded, MarkCompleted, ReadGuests, NightOver, NightFails, vars
<1> QED
  BY <1>2, <1>3, <1>4, <1>6, <1>7, <1>9, <1>10 DEF Next, Night

-----------------------------------------------------------------------------
(* The nightly task. *)

\* Whom the task has yet to award is in its list, or has an award of the task on its way.
NightInv ==
  /\ night.at \in {"complete", "read"} => owed = {}
  /\ night.at = "award" => owed \subseteq log \cup missed \cup night.todo \cup Awaited
  /\ EveryGuestIsAwarded

\* An award of the task leaves its row, or is known to have been cut off before.
LEMMA NightStep == TypeInv /\ RowsWritten /\ NightInv /\ [Next]_vars => NightInv'
<1> SUFFICES ASSUME TypeInv, RowsWritten, NightInv, [Next]_vars
             PROVE  NightInv'
  OBVIOUS
<1>1. AwardTypeOK /\ awards \in [AwardIds -> {Idle} \cup Activation]
      /\ night \in [at : {"asleep", "complete", "read", "award"}, todo : SUBSET Keys]
  BY DEF TypeInv, AwardTypeOK
<1>2. ASSUME UNCHANGED <<night, owed>>, log \cup missed \subseteq log' \cup missed',
             Awaited \subseteq log' \cup missed' \cup Awaited'
      PROVE  NightInv'
  BY <1>2 DEF NightInv, EveryGuestIsAwarded
<1>3. \A k : k \in Awaited <=> \E a \in AwardIds : ~Free(a) /\ awards[a].by = "night" /\ awards[a].key = k
  BY DEF Awaited
<1>4. \A k : k \in Awaited' <=> \E a \in AwardIds : ~Free(a)' /\ awards'[a].by = "night" /\ awards'[a].key = k
  BY DEF Awaited
<1>5. ASSUME NEW A \in SUBSET AwardIds, UNCHANGED <<night, owed>>, log \cup missed \subseteq log' \cup missed',
             \A a \in AwardIds \ A : ~Free(a) => /\ ~Free(a)' /\ awards'[a].by = awards[a].by
                                                 /\ awards'[a].key = awards[a].key,
             \A a \in A : ~Free(a) => awards[a].key \in log' \cup missed'
      PROVE  NightInv'
  <2>1. Awaited \subseteq log' \cup missed' \cup Awaited'
    BY <1>3, <1>4, <1>5
  <2> QED
    BY <1>2, <1>5, <2>1
<1>6. ASSUME NEW a \in AwardIds, Steps(a)
      PROVE  NightInv'
  <2>1. ~Free(a) /\ awards[a].at \in {"create", "increment", "level"}
    BY <1>6 DEF Steps, CreateLog, Increment, WriteLevel, Open, Free
  <2>2. awards[a].key \in log' /\ log \subseteq log' /\ UNCHANGED <<night, owed, missed>>
    BY <1>6, <2>1 DEF Steps, CreateLog, Increment, WriteLevel, Open, RowsWritten
  <2>3. \A b \in AwardIds \ {a} : awards'[b] = awards[b]
    BY <1>1, <1>6 DEF Steps, CreateLog, Increment, WriteLevel, Over
  <2>4. log \cup missed \subseteq log' \cup missed' /\ {a} \in SUBSET AwardIds
    BY <2>2
  <2>5. \A b \in AwardIds \ {a} : ~Free(b) => /\ ~Free(b)' /\ awards'[b].by = awards[b].by
                                              /\ awards'[b].key = awards[b].key
    BY <2>3 DEF Free
  <2>6. \A b \in {a} : ~Free(b) => awards[b].key \in log' \cup missed'
    BY <2>2
  <2> QED
    BY <1>5, <2>2, <2>4, <2>5, <2>6
<1>7. ASSUME NEW A \in SUBSET AwardIds, Cut(A), UNCHANGED log
      PROVE  missed \subseteq missed' /\ \A a \in A : ~Free(a) => awards[a].key \in log' \cup missed'
  <2>1. \A a \in A : Open(a, "create") => awards[a].key \in missed'
    BY <1>7 DEF Cut
  <2>2. \A a \in A : ~Free(a) /\ awards[a].at # "create" => awards[a].key \in log'
    BY <1>7 DEF RowsWritten
  <2> QED
    BY <1>7, <2>1, <2>2 DEF Cut, Open, Free
<1>8. ASSUME NEW a \in AwardIds, AwardFails(a)
      PROVE  NightInv'
  <2>1. {a} \in SUBSET AwardIds /\ Cut({a}) /\ UNCHANGED <<log, night, owed>>
    BY <1>8 DEF AwardFails
  <2>2. \A b \in AwardIds \ {a} : awards'[b] = awards[b]
    BY <1>1, <1>8 DEF AwardFails, Over
  <2> QED
    BY <1>5, <1>7, <2>1, <2>2 DEF Free
<1>9. ASSUME NEW a \in AwardIds, NEW key \in Keys, NEW by \in {"night", "other"},
             Free(a), awards' = Begun(a, key, by)
      PROVE  Awaited \subseteq Awaited' /\ (by = "night" => key \in Awaited')
  <2>1. Award(key, by) # Idle /\ Award(key, by).by = by /\ Award(key, by).key = key
    BY <1>1, AwardBegins DEF Award
  <2>2. awards'[a] = Award(key, by) /\ \A b \in AwardIds \ {a} : awards'[b] = awards[b]
    BY <1>1, <1>9 DEF Begun
  <2> QED
    BY <1>3, <1>4, <1>9, <2>1, <2>2 DEF Free
<1>10. ASSUME NEW c \in CallIds, NEW a \in AwardIds, AwardJoined(c, a)
       PROVE  NightInv'
  <2>1. calls[c].user \in Users
    BY <1>10 DEF AwardJoined, NotifyAndAward, At, Running, TypeInv, EventTypeOK
  <2>2. <<calls[c].user, "JOINED">> \in Keys
    BY <2>1, ValueOf DEF Keys
  <2>3. Awaited \subseteq Awaited'
    BY <1>9, <1>10, <2>2 DEF AwardJoined
  <2> QED
    BY <1>2, <1>10, <2>3 DEF AwardJoined
<1>11. ASSUME NEW a \in AwardIds, AwardNext(a)
       PROVE  NightInv'
  <2> PICK key \in night.todo : awards' = Begun(a, key, "night")
                                /\ night' = [night EXCEPT !.todo = @ \ {key}]
    BY <1>11 DEF AwardNext
  <2>1. key \in Keys
    BY <1>1
  <2>2. Awaited \subseteq Awaited' /\ key \in Awaited'
    BY <1>9, <1>11, <2>1 DEF AwardNext
  <2>3. night.at = "award" /\ night'.at = "award" /\ night'.todo = night.todo \ {key}
        /\ UNCHANGED <<log, missed, owed>>
    BY <1>1, <1>11 DEF AwardNext
  <2> QED
    BY <2>2, <2>3 DEF NightInv, EveryGuestIsAwarded
<1>12. ASSUME UNCHANGED <<ledger, night, owed>>
       PROVE  NightInv'
  <2>1. Awaited' = Awaited
    BY <1>12 DEF ledger, Awaited, Free
  <2> QED
    BY <1>2, <1>12, <2>1 DEF ledger
<1>13. CASE EventStep \/ \E c \in CallIds : AttendanceFails(c)
  BY <1>12, <1>13 DEF EventStep, AttendanceFails
<1>14. CASE UNCHANGED vars
  BY <1>12, <1>14 DEF vars
<1>15. CASE FindEnded
  <2>1. night'.at = "complete" /\ owed' = {}
    BY <1>15 DEF FindEnded, Asleep
  <2> QED
    BY <2>1 DEF NightInv, EveryGuestIsAwarded
<1>16. CASE MarkCompleted
  <2>1. night.at = "complete" /\ night'.at = "read" /\ owed' = owed
    BY <1>16 DEF MarkCompleted, Asleep
  <2> QED
    BY <2>1 DEF NightInv, EveryGuestIsAwarded
<1>17. CASE ReadGuests
  <2>1. night'.at = "award" /\ owed' = night'.todo
    BY <1>1, <1>17 DEF ReadGuests
  <2> QED
    BY <2>1 DEF NightInv, EveryGuestIsAwarded
<1>18. CASE NightOver
  <2>1. night.at = "award" /\ night.todo = {} /\ Awaited = {} /\ night'.at = "asleep"
        /\ UNCHANGED <<log, missed, owed>>
    BY <1>18 DEF NightOver, Asleep, ledger
  <2> QED
    BY <2>1 DEF NightInv, EveryGuestIsAwarded
<1>19. CASE NightFails
  <2>1. night.at \in {"complete", "read"} /\ night'.at = "asleep" /\ owed' = owed
    BY <1>19 DEF NightFails, Asleep
  <2> QED
    BY <2>1 DEF NightInv, EveryGuestIsAwarded
<1>20. CASE Restart
  <2>1. night'.at = "asleep" /\ owed' = {}
    BY <1>20 DEF Restart, Asleep
  <2> QED
    BY <2>1 DEF NightInv, EveryGuestIsAwarded
<1> QED
  BY <1>6, <1>8, <1>10, <1>11, <1>13, <1>14, <1>15, <1>16, <1>17, <1>18, <1>19, <1>20 DEF Next, Night

-----------------------------------------------------------------------------

AwardsInv == TypeInv /\ LedgerInv /\ NightInv

LEMMA AwardsStart == Init => AwardsInv
<1> SUFFICES ASSUME Init
             PROVE  AwardsInv
  OBVIOUS
<1>1. PICK a \in AwardIds :
        awards = [b \in AwardIds |-> IF b = a THEN Award(<<Organizer, "CREATED">>, "other") ELSE Idle]
  BY DEF Init
<1>2. <<Organizer, "CREATED">> \in Keys
  BY EventAssumption, ValueOf DEF Keys
<1>3. Award(<<Organizer, "CREATED">>, "other") \in Activation
      /\ Award(<<Organizer, "CREATED">>, "other").at = "create"
  BY <1>2 DEF Award, Activation
<1>4. EventTypeOK
  BY DEF Init, EventInit, EventTypeOK, Statuses, NoCalls
<1>5. points \in [Users -> Nat] /\ level \in [Users -> Steps5]
      /\ \A u \in Users : points[u] = 0 /\ level[u] = 1
  BY DEF Init, Steps5
<1>6. log = {} /\ lost = {} /\ missed = {} /\ uneven = {} /\ owed = {} /\ night = Asleep /\ faults = 0
  BY DEF Init
<1>7. awards \in [AwardIds -> {Idle} \cup Activation]
  BY <1>1, <1>3
<1>8. night \in [at : {"asleep", "complete", "read", "award"}, todo : SUBSET Keys] /\ night.at = "asleep"
  BY <1>6 DEF Asleep
<1>9. AwardTypeOK
  BY <1>5, <1>6, <1>7, <1>8, FaultsAssumption DEF AwardTypeOK
<1>10. \A b \in AwardIds : ~Free(b) => awards[b].at = "create"
  BY <1>1, <1>3 DEF Free
<1>11. \A b \in AwardIds : ~Open(b, "increment") /\ ~Open(b, "level")
  BY <1>10 DEF Open, Free
<1>12. RowsWritten
  BY <1>6, <1>10, <1>11 DEF RowsWritten
<1>13. Given = {}
  BY <1>6 DEF Given
<1>14. \A u : Worth(u, {}) = 0
  BY ValueOf DEF Worth
<1>15. PointsMatchLog
  BY <1>5, <1>13, <1>14, PointsGiven
<1>16. LevelFollowsPoints /\ LevelsAreDue
  BY <1>5, <1>11, LevelsOf DEF LevelFollowsPoints, LevelsAreDue
<1>17. NightInv
  BY <1>6, <1>8 DEF NightInv, EveryGuestIsAwarded
<1> QED
  BY <1>4, <1>9, <1>11, <1>12, <1>15, <1>16, <1>17 DEF AwardsInv, TypeInv, LedgerInv, ValuesAreLevels

LEMMA AwardsCorrect == Spec => []AwardsInv
<1>1. AwardsInv /\ [Next]_vars => AwardsInv'
  BY AwardTypesStep, LedgerStep, NightStep DEF AwardsInv, LedgerInv
<1> QED
  BY <1>1, AwardsStart, PTL DEF Spec

\* Rows, points, levels and the activations of award() keep their types.
THEOREM TypeCorrect == Spec => []TypeOK
<1>1. AwardsInv => TypeOK
  BY AwardTypes DEF AwardsInv, TypeInv
<1> QED
  BY <1>1, AwardsCorrect, PTL

\* However many awards of a user cross, fail or are tried again, a row of the log gives
\* its points once (gamification.service.ts award).
THEOREM PointsAreThose == Spec => []PointsMatchLog
<1>1. AwardsInv => PointsMatchLog
  BY DEF AwardsInv, LedgerInv
<1> QED
  BY <1>1, AwardsCorrect, PTL

\* The level is never above the points, and is theirs once the awards of the user are over
\* and none of them wrote its level late or was cut off before (award writes the level it
\* computed from the points its increment returned).
THEOREM LevelIsDue == Spec => []LevelFollowsPoints
<1>1. AwardsInv => LevelFollowsPoints
  BY DEF AwardsInv, LedgerInv
<1> QED
  BY <1>1, AwardsCorrect, PTL

\* The nightly task forgets nobody it read: once it is over each has a row, unless a
\* statement failed or the process restarted (tasks.service.ts awardEventCompleted).
THEOREM NobodyForgotten == Spec => []EveryGuestIsAwarded
<1>1. AwardsInv => EveryGuestIsAwarded
  BY DEF AwardsInv, NightInv
<1> QED
  BY <1>1, AwardsCorrect, PTL

=============================================================================
