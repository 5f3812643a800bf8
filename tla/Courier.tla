------------------------------ MODULE Courier ------------------------------
(***************************************************************************)
(* A courier request and the travellers who offer to carry it                *)
(* (api/src/courier/courier.service.ts, expireCourierRequests of             *)
(* tasks/tasks.service.ts).                                                 *)
(***************************************************************************)
EXTENDS Calls

CONSTANTS Owner, Travelers, NoOne

ASSUME CourierAssumption == NoOne \notin Travelers

VARIABLES
  courier,     \* CourierRequest: its status, deletedAt, confirmedAcceptanceId
  offers       \* CourierAcceptance, one per traveller (a unique index)

courierVars == <<courier, offers>>
Parties == Travelers \cup {Owner}
Confirmed == {t \in Travelers : offers[t] = "CONFIRMED"}

CourierInit ==
  /\ courier = [status |-> "OPEN", deleted |-> FALSE, confirmed |-> NoOne]
  /\ offers = [t \in Travelers |-> "none"]
  /\ calls = NoCalls

Check(c, op, u, t) ==
  /\ Enter(c, [op |-> op, at |-> op, user |-> u, traveler |-> t, together |-> InCompany])
  /\ UNCHANGED courierVars

\* accept: the owner's own offer is refused.
Offer(c, t) ==
  /\ courier.status = "OPEN" /\ ~courier.deleted
  /\ Check(c, "offer", t, t)

\* The create and then the owner's notification. An error of either is answered
\* "you have already made an offer".
CreateOffer(c) ==
  /\ At(c, "offer") /\ offers[calls[c].traveler] = "none"
  /\ offers' = [offers EXCEPT ![calls[c].traveler] = "PENDING"]
  /\ GoOn(c, "notify") /\ UNCHANGED courier
NotifyOwner(c) == At(c, "notify") /\ Return(c) /\ UNCHANGED courierVars

\* confirm does not look at deletedAt.
Confirm(c, t) == courier.status = "OPEN" /\ offers[t] # "none" /\ Check(c, "confirm", Owner, t)

\* A mutated form of Declined: the other offers are forgotten.
NoneDeclined(t) == offers
Declined(t) == [u \in Travelers |-> IF offers[u] = "none" \/ u = t THEN offers[u] ELSE "DECLINED"]

\* confirm's transaction. It does not look at the status again.
Match(c) ==
  LET t == calls[c].traveler IN
  /\ At(c, "confirm")
  /\ offers' = [Declined(t) EXCEPT ![t] = "CONFIRMED"]
  /\ courier' = [courier EXCEPT !.status = "MATCHED", !.confirmed = t]
  /\ Return(c)

\* complete: by the owner or the traveller confirmed when it looks.
Complete(c, u) ==
  /\ courier.status = "MATCHED" /\ u \in {Owner, courier.confirmed}
  /\ Check(c, "complete", u, courier.confirmed)

\* cancel asks for no status.
Cancel(c) == Check(c, "cancel", Owner, NoOne)

SetStatusOf(c) ==
  /\ At(c, "complete") \/ At(c, "cancel")
  /\ courier' = [courier EXCEPT !.status =
       IF calls[c].op = "complete" THEN "COMPLETED" ELSE "CANCELLED"]
  /\ Return(c) /\ UNCHANGED offers

\* The nightly expiry, one statement.
Expire ==
  /\ courier.status = "OPEN"
  /\ courier' = [courier EXCEPT !.status = "EXPIRED"]
  /\ UNCHANGED <<offers, calls>>

\* An administrator's deletion.
DeleteCourier ==
  /\ courier' = [courier EXCEPT !.deleted = TRUE, !.status = "CANCELLED"]
  /\ UNCHANGED <<offers, calls>>

CourierNext ==
  \/ \E c \in CallIds :
       \/ \E t \in Travelers : Offer(c, t) \/ Confirm(c, t)
       \/ \E u \in Parties : Complete(c, u)
       \/ Cancel(c)
       \/ CreateOffer(c) \/ NotifyOwner(c) \/ Match(c) \/ SetStatusOf(c)
       \/ Throw(c) /\ UNCHANGED courierVars
  \/ Expire \/ DeleteCourier
  \/ CallsLost /\ UNCHANGED courierVars

CourierSpec == CourierInit /\ [][CourierNext]_<<courierVars, calls>>

\* At most one offer is confirmed, and it is the one the request names, even when
\* two confirmations cross.
OneTravelerConfirmed ==
  Confirmed = IF courier.confirmed = NoOne THEN {} ELSE {courier.confirmed}
=============================================================================
