------------------------------- MODULE Events -------------------------------
(***************************************************************************)
(* An event and who attends it (api/src/events/events.service.ts, and the   *)
(* administrator's approval, change and removal of events in                *)
(* admin/admin.service.ts).                                                 *)
(***************************************************************************)
EXTENDS Calls

CONSTANTS
  Users, Organizer,
  Capacity

ASSUME EventAssumption == Organizer \in Users /\ Capacity \in Nat \ {0}

VARIABLES
  status, ended, deleted,   \* the event
  going       \* its attendees

event == <<status, ended, deleted>>
eventVars == <<event, going, calls>>

\* "PENDING" is DRAFT and PENDING_APPROVAL.
Statuses == {"PENDING", "PUBLISHED", "COMPLETED", "CANCELLED"}

EventTypeOK ==
  /\ status \in Statuses /\ {ended, deleted} \subseteq BOOLEAN
  /\ going \in [Users -> {"no", "GOING", "INTERESTED"}]
  /\ calls \in [CallIds -> {Idle} \cup
       [user : Users, status : {"GOING", "INTERESTED"}, at : {"find", "upsert", "notify"},
        known : BOOLEAN, together : BOOLEAN]]

\* createEvent.
EventInit ==
  /\ status = "PENDING" /\ ended = FALSE /\ deleted = FALSE
  /\ going = [u \in Users |-> "no"]
  /\ calls = NoCalls

\* approveEvent and rejectEvent look at nothing but deletedAt, updateEvent not
\* even at that.
SetStatus ==
  /\ status' \in Statuses
  /\ UNCHANGED <<ended, deleted, going, calls>>

DeleteEvent ==
  /\ ~deleted /\ deleted' = TRUE
  /\ UNCHANGED <<status, ended, going, calls>>

EndsAt ==
  /\ ~ended /\ ended' = TRUE
  /\ UNCHANGED <<status, deleted, going, calls>>

Attendees == {u \in Users : going[u] # "no"}

\* A mutated form of HasRoom: one seat too many.
HasRoomForOneMore == Cardinality(Attendees) <= Capacity

\* Whoever is interested takes a seat, and a guest is counted as well.
HasRoom == Cardinality(Attendees) < Capacity

\* attend: the event and its seats, then the guest's own row, then the upsert,
\* then the notification of the organizer and the award.
Attend(c, u, s) ==
  /\ status = "PUBLISHED" /\ ~deleted /\ HasRoom
  /\ Enter(c, [user |-> u, status |-> s, at |-> "find", known |-> FALSE, together |-> InCompany])
  /\ UNCHANGED <<event, going>>

FindExisting(c) ==
  /\ At(c, "find")
  /\ calls' = [calls EXCEPT ![c].at = "upsert", ![c].known = going[calls[c].user] # "no"]
  /\ UNCHANGED <<event, going>>

Upsert(c) ==
  /\ At(c, "upsert")
  /\ going' = [going EXCEPT ![calls[c].user] = calls[c].status]
  /\ IF ~calls[c].known /\ calls[c].status = "GOING" THEN GoOn(c, "notify") ELSE Return(c)
  /\ UNCHANGED event

NotifyAndAward(c) ==
  /\ At(c, "notify") /\ Return(c)
  /\ UNCHANGED <<event, going>>

\* A statement fails, the notification's among them.
AttendFails(c) == Throw(c) /\ UNCHANGED <<event, going>>

EventsLost == CallsLost /\ UNCHANGED <<event, going>>

EventNext ==
  \/ SetStatus \/ DeleteEvent \/ EndsAt \/ EventsLost
  \/ \E c \in CallIds :
       \/ \E u \in Users, s \in {"GOING", "INTERESTED"} : Attend(c, u, s)
       \/ FindExisting(c) \/ Upsert(c) \/ NotifyAndAward(c) \/ AttendFails(c)

EventSpec == EventInit /\ [][EventNext]_eventVars

\* The event never has more attendees than its capacity, unless the one too many
\* was let in by a call that met another on its way.
SeatsAreTakenTogetherOnly ==
  [][\A c \in CallIds : At(c, "upsert") /\ Upsert(c) /\ Cardinality(Attendees) >= Capacity
                         /\ going[calls[c].user] = "no" => calls[c].together]_eventVars
=============================================================================
