------------------------------- MODULE Awards -------------------------------
(***************************************************************************)
(* The points an event earns (api/src/gamification/gamification.service.ts, *)
(* tasks/tasks.service.ts), composed with the event itself (Events).        *)
(*                                                                          *)
(* award() is called by many services and awaited by few: it writes a log   *)
(* row that a unique index admits once, then the points, then the level,    *)
(* each in a statement that may be the last one.  The event is the only     *)
(* source of points here.                                                   *)
(***************************************************************************)
EXTENDS Events

CONSTANTS
  AwardIds,    \* bound: awards in flight
  MaxFaults    \* bound: statements that fail, and restarts

ASSUME FaultsAssumption == MaxFaults \in Nat

VARIABLES
  log,        \* point_logs, pairs of a user and an action
  points, level,
  awards,     \* activations of award
  night,      \* the nightly task: where it is and whom it has yet to award
  faults,
  lost,       \* history: awards cut off between their row and their points
  missed,     \* history: awards cut off before their row
  uneven,     \* history: users whose level was, or may have been, written late
  owed        \* history: what the task, now over, had to award

ledger == <<log, points, level, awards, lost, missed, uneven>>
vars == <<eventVars, ledger, night, faults, owed>>

\* POINT_VALUES, and the first values of totalPointsForLevel.
Value == [CREATED |-> 10, JOINED |-> 5, ORGANIZER |-> 100, ATTENDEE |-> 75]
TotalPointsForLevel == <<0, 25, 76, 145, 230>>
LevelForPoints(p) == Cardinality({n \in DOMAIN TotalPointsForLevel : TotalPointsForLevel[n] <= p})

Keys == Users \X DOMAIN Value
Asleep == [at |-> "asleep", todo |-> {}]

Activation ==
  [key : Keys, by : {"night", "other"}, at : {"create", "increment", "level"}, val : Nat]

ASSUME ActivationAssumption == Idle \notin Activation

TypeOK ==
  /\ EventTypeOK
  /\ log \subseteq Keys /\ {lost, missed} \subseteq SUBSET Keys /\ owed \subseteq Keys /\ uneven \subseteq Users
  /\ points \in [Users -> Nat] /\ level \in [Users -> DOMAIN TotalPointsForLevel]
  /\ awards \in [AwardIds -> {Idle} \cup Activation]
  /\ night \in [at : {"asleep", "complete", "read", "award"}, todo : SUBSET Keys]
  /\ faults \in 0..MaxFaults

Free(a) == awards[a] = Idle
Award(key, by) == [key |-> key, by |-> by, at |-> "create", val |-> 0]
Begun(a, key, by) == [awards EXCEPT ![a] = Award(key, by)]

\* createEvent has just been called.
Init ==
  /\ EventInit
  /\ log = {} /\ lost = {} /\ missed = {} /\ uneven = {}
  /\ points = [u \in Users |-> 0] /\ level = [u \in Users |-> 1]
  /\ \E a \in AwardIds :
       awards = [b \in AwardIds |-> IF b = a THEN Award(<<Organizer, "CREATED">>, "other")
                                            ELSE Idle]
  /\ night = Asleep /\ owed = {}
  /\ faults = 0

-----------------------------------------------------------------------------
(* award *)

Open(a, phase) == awards[a] # Idle /\ awards[a].at = phase
Over(a) == awards' = [awards EXCEPT ![a] = Idle]
Others(a, u) == {b \in AwardIds \ {a} : awards[b] # Idle /\ awards[b].key[1] = u}

\* A mutated form of CreateLog: the refusal of the index is overlooked.
CreateLogAgain(a) ==
  /\ Open(a, "create")
  /\ log' = log \cup {awards[a].key}
  /\ awards' = [awards EXCEPT ![a].at = "increment"]
  /\ UNCHANGED <<eventVars, points, level, lost, missed, uneven, night, faults, owed>>

\* The unique index refuses a second row: the points "have been given".
CreateLog(a) ==
  /\ Open(a, "create")
  /\ IF awards[a].key \in log THEN Over(a) ELSE awards' = [awards EXCEPT ![a].at = "increment"]
  /\ log' = log \cup {awards[a].key}
  /\ UNCHANGED <<eventVars, points, level, lost, missed, uneven, night, faults, owed>>

\* A mutated form of NewLevel: the level of the points before this award.
NewLevelBefore(a) == LevelForPoints(points[awards[a].key[1]])

\* The level of the points the increment returns.
NewLevel(a) == LevelForPoints(points[awards[a].key[1]] + Value[awards[a].key[2]])

Increment(a) ==
  /\ Open(a, "increment")
  /\ LET u == awards[a].key[1]
         late == \E b \in Others(a, u) : Open(b, "level")
     IN  /\ points' = [points EXCEPT ![u] = @ + Value[awards[a].key[2]]]
         /\ IF NewLevel(a) # level[u]
            THEN awards' = [awards EXCEPT ![a].at = "level", ![a].val = NewLevel(a)]
            ELSE Over(a)
         /\ uneven' = IF late THEN uneven \cup {u} ELSE uneven \ {u}
  /\ UNCHANGED <<eventVars, log, level, lost, missed, night, faults, owed>>

WriteLevel(a) ==
  /\ Open(a, "level")
  /\ level' = [level EXCEPT ![awards[a].key[1]] = awards[a].val]
  /\ Over(a)
  /\ UNCHANGED <<eventVars, log, points, lost, missed, uneven, night, faults, owed>>

\* What is left undone when the awards of A stop where they are.
Cut(A) ==
  /\ lost' = lost \cup {awards[a].key : a \in {b \in A : Open(b, "increment")}}
  /\ missed' = missed \cup {awards[a].key : a \in {b \in A : Open(b, "create")}}
  /\ uneven' = uneven \cup {awards[a].key[1] : a \in {b \in A : Open(b, "level")}}

\* A statement fails: award logs that and returns.
AwardFails(a) ==
  /\ ~Free(a) /\ faults < MaxFaults
  /\ faults' = faults + 1
  /\ Cut({a})
  /\ Over(a)
  /\ UNCHANGED <<eventVars, log, points, level, night, owed>>

-----------------------------------------------------------------------------
(* The event.  attend does not await the award it starts. *)

EventStep ==
  /\ \/ SetStatus \/ DeleteEvent \/ EndsAt
     \/ \E c \in CallIds :
          \/ \E u \in Users, s \in {"GOING", "INTERESTED"} : Attend(c, u, s)
          \/ FindExisting(c) \/ Upsert(c)
  /\ UNCHANGED <<ledger, night, faults, owed>>

AwardJoined(c, a) ==
  /\ Free(a)
  /\ NotifyAndAward(c)
  /\ awards' = Begun(a, <<calls[c].user, "JOINED">>, "other")
  /\ UNCHANGED <<log, points, level, lost, missed, uneven, night, faults, owed>>

AttendanceFails(c) ==
  /\ faults < MaxFaults /\ faults' = faults + 1
  /\ AttendFails(c)
  /\ UNCHANGED <<ledger, night, owed>>

-----------------------------------------------------------------------------
(* markCompletedEvents, and in it awardEventCompleted *)

\* A mutated form of FindEnded: events that were rejected are looked for.
FindCancelled ==
  /\ night.at = "asleep" /\ status = "CANCELLED" /\ ended
  /\ night' = [Asleep EXCEPT !.at = "complete"] /\ owed' = {}
  /\ UNCHANGED <<eventVars, ledger, faults>>

\* Deleted events are found too.
FindEnded ==
  /\ night.at = "asleep" /\ status = "PUBLISHED" /\ ended
  /\ night' = [Asleep EXCEPT !.at = "complete"] /\ owed' = {}
  /\ UNCHANGED <<eventVars, ledger, faults>>

\* By id: whatever became of the event meanwhile.
MarkCompleted ==
  /\ night.at = "complete"
  /\ status' = "COMPLETED"
  /\ night' = [Asleep EXCEPT !.at = "read"]
  /\ UNCHANGED <<ended, deleted, going, ledger, calls, faults, owed>>

ReadGuests ==
  /\ night.at = "read"
  /\ night' = [night EXCEPT !.at = "award",
                 !.todo = {<<Organizer, "ORGANIZER">>} \cup
                          {<<u, "ATTENDEE">> : u \in {v \in Users \ {Organizer} : going[v] = "GOING"}}]
  /\ owed' = night'.todo
  /\ UNCHANGED <<eventVars, ledger, faults>>

Awaited == {awards[a].key : a \in {b \in AwardIds : ~Free(b) /\ awards[b].by = "night"}}

\* The organizer first and alone, then the guests together.
AwardNext(a) ==
  /\ night.at = "award" /\ Free(a)
  /\ \E key \in night.todo :
       /\ \A other \in night.todo \cup Awaited : other[2] = "ORGANIZER" => key = other
       /\ awards' = Begun(a, key, "night")
       /\ night' = [night EXCEPT !.todo = @ \ {key}]
  /\ UNCHANGED <<eventVars, log, points, level, lost, missed, uneven, faults, owed>>

\* A mutated form of NightOver: nobody awaits the awards.
NightOverEarly ==
  /\ night.at = "award" /\ night.todo = {}
  /\ night' = Asleep
  /\ UNCHANGED <<eventVars, ledger, faults, owed>>

NightOver ==
  /\ night.at = "award" /\ night.todo = {} /\ Awaited = {}
  /\ night' = Asleep
  /\ UNCHANGED <<eventVars, ledger, faults, owed>>

\* A statement of the task itself fails.
NightFails ==
  /\ night.at \in {"complete", "read"} /\ faults < MaxFaults
  /\ faults' = faults + 1
  /\ night' = Asleep
  /\ UNCHANGED <<eventVars, ledger, owed>>

Restart ==
  /\ faults < MaxFaults
  /\ faults' = faults + 1
  /\ Cut({a \in AwardIds : ~Free(a)})
  /\ awards' = [a \in AwardIds |-> Idle] /\ EventsLost
  /\ night' = Asleep /\ owed' = {}
  /\ UNCHANGED <<log, points, level>>

-----------------------------------------------------------------------------

Night == FindEnded \/ MarkCompleted \/ ReadGuests \/ (\E a \in AwardIds : AwardNext(a)) \/ NightOver
Steps(a) == CreateLog(a) \/ Increment(a) \/ WriteLevel(a)

Next ==
  \/ \E a \in AwardIds : Steps(a) \/ AwardFails(a)
  \/ EventStep
  \/ \E c \in CallIds : AttendanceFails(c) \/ \E a \in AwardIds : AwardJoined(c, a)
  \/ Night \/ NightFails \/ Restart

Spec == Init /\ [][Next]_vars

\* The task comes every night and awaits its statements, and the database
\* answers those of an award.  Strong fairness where weak would do if awards
\* did not share the few activations AwardIds allows.
FairSpec == Spec /\ SF_vars(Night) /\ \A a \in AwardIds : WF_vars(Steps(a))

-----------------------------------------------------------------------------

\* What the rows of S are worth to the user.
Worth(u, S) ==
  LET Of(action) == IF <<u, action>> \in S THEN Value[action] ELSE 0
  IN  Of("CREATED") + Of("JOINED") + Of("ORGANIZER") + Of("ATTENDEE")
Pending(u) == {awards[a].key : a \in {b \in AwardIds : Open(b, "increment") /\ awards[b].key[1] = u}}

\* What a user has is what the log says, each row once, but for the rows whose
\* award is on its way or was cut off: no retry, no second completion of the
\* event and no overlap of calls gives points twice.
PointsMatchLog ==
  \A u \in Users : points[u] = Worth(u, log \ (Pending(u) \cup lost))

\* The level is never above the points, and it is the level of the points once
\* the awards of the user are over, unless one of them wrote its level late or
\* was cut off before; the next award makes up for it.
LevelFollowsPoints ==
  \A u \in Users :
    /\ level[u] <= LevelForPoints(points[u])
    /\ (\A a \in AwardIds : Open(a, "level") => awards[a].key[1] # u) /\ u \notin uneven
         => level[u] = LevelForPoints(points[u])

\* Once the task is over, the organizer and every guest it read have their row,
\* unless a statement failed or the process restarted.
EveryGuestIsAwarded == night.at = "asleep" => owed \subseteq log \cup missed

\* A published event that is over does not stay published.
EndedEventIsCompleted == (ended /\ status = "PUBLISHED") ~> status # "PUBLISHED"

\* "@@unique([userId, action, refId]) ihlali = bu olay için puan zaten verilmiş"
\* (gamification.service.ts:78): an award the index refuses has been given.
RefusedMeansGiven ==
  [][\A a \in AwardIds : CreateLog(a) /\ awards[a].key \in log => awards[a].key \notin lost]_vars
=============================================================================
