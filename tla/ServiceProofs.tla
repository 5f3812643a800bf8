---------------------------- MODULE ServiceProofs ----------------------------
(***************************************************************************)
(* What the request handlers of the API guarantee for any number of calls   *)
(* in flight and of users, offers, tokens, votes and replies.  Their safety  *)
(* rests on one argument: what a call read before an await still holds when  *)
(* it writes, unless another call ran beside it, and then both know it.      *)
(***************************************************************************)
EXTENDS Events, Courier, Memberships, Friends, PasswordReset, Forum, ForumPoll,
        ChatBot, FiniteSetTheorems, TLAPS

-----------------------------------------------------------------------------
(* Calls in flight, whatever their records hold besides together. *)

CallsIn(Record) == calls \in [CallIds -> {Idle} \cup Record]

\* Of two calls in flight, each has met the other: a call that ran alone up to now
\* is the only one.
Company == \A c, d \in Running : c # d => calls[c].together

Accompanied(r) == [r EXCEPT !.together = TRUE]

\* Meeting another call changes nothing else of a record.
MeetingOnly(Record) ==
  \A r \in Record : Accompanied(r) \in Record /\ Accompanied(r).together

LEMMA Entered ==
  ASSUME NEW c \in CallIds, NEW call, Enter(c, call)
  PROVE  /\ calls[c] = Idle
         /\ DOMAIN calls' = CallIds /\ calls'[c] = call
         /\ \A d \in CallIds : d # c =>
              /\ calls[d] = Idle => calls'[d] = Idle
              /\ calls[d] # Idle => calls'[d] = Accompanied(calls[d])
<1>1. c \notin Running /\ calls' = [Met EXCEPT ![c] = call]
  BY DEF Enter
<1>2. Met = [d \in CallIds |-> IF d \in Running THEN Accompanied(calls[d]) ELSE Idle]
  BY Zenon DEF Met, Accompanied
<1> QED
  BY <1>1, <1>2 DEF Running

LEMMA Joined ==
  ASSUME calls' = Met
  PROVE  /\ DOMAIN calls' = CallIds
         /\ \A d \in CallIds :
              /\ calls[d] = Idle => calls'[d] = Idle
              /\ calls[d] # Idle => calls'[d] = Accompanied(calls[d])
<1>1. Met = [d \in CallIds |-> IF d \in Running THEN Accompanied(calls[d]) ELSE Idle]
  BY Zenon DEF Met, Accompanied
<1> QED
  BY <1>1 DEF Running

LEMMA CallsEntered ==
  ASSUME NEW Record, CallsIn(Record), MeetingOnly(Record),
         NEW c \in CallIds, NEW call \in Record, Enter(c, call)
  PROVE  CallsIn(Record)'
<1>1. calls' = [d \in CallIds |-> calls'[d]]
  BY Zenon DEF Enter, Met
<1> QED
  BY <1>1, Entered DEF CallsIn, MeetingOnly

LEMMA CompanyEntered ==
  ASSUME NEW Record, CallsIn(Record), Company, MeetingOnly(Record),
         NEW c \in CallIds, NEW call \in Record, Enter(c, call), call.together = InCompany
  PROVE  CallsIn(Record)' /\ Company'
<1> DEFINE Facts ==
         /\ calls[c] = Idle
         /\ DOMAIN calls' = CallIds /\ calls'[c] = call
         /\ \A d \in CallIds : d # c =>
              /\ calls[d] = Idle => calls'[d] = Idle
              /\ calls[d] # Idle => calls'[d] = Accompanied(calls[d])
<1>1. Facts
  BY Entered
<1>2. CallsIn(Record)'
  BY CallsEntered
<1>3. ASSUME NEW d \in Running', NEW e \in Running', d # e
      PROVE  calls'[d].together
  <2>1. CASE d = c
    BY <1>1, <1>3, <2>1 DEF Running, InCompany
  <2>2. CASE d # c
    BY <1>1, <1>3, <2>2 DEF Running, CallsIn, MeetingOnly
  <2> QED
    BY <2>1, <2>2
<1> QED
  BY <1>2, <1>3 DEF Company

LEMMA CompanyJoined ==
  ASSUME NEW Record, CallsIn(Record), MeetingOnly(Record), calls' = Met
  PROVE  CallsIn(Record)' /\ Company' /\ \A c \in Running' : calls'[c].together
<1> DEFINE Facts ==
         \A d \in CallIds :
              /\ calls[d] = Idle => calls'[d] = Idle
              /\ calls[d] # Idle => calls'[d] = Accompanied(calls[d])
<1>1. Facts
  BY Joined
<1>2. calls' = [d \in CallIds |-> calls'[d]]
  BY Zenon DEF Met
<1>3. CallsIn(Record)'
  BY <1>1, <1>2 DEF CallsIn, MeetingOnly
<1>4. \A c \in Running' : calls'[c].together
  BY <1>1 DEF CallsIn, MeetingOnly, Running
<1> QED
  BY <1>3, <1>4 DEF Company

-----------------------------------------------------------------------------
(* The votes of a poll. *)

PollCall == [at : {"unvote", "vote"}, user : Voters, option : Options, together : BOOLEAN]

PollTypeOK ==
  /\ votes \subseteq [user : Voters, option : Options, together : BOOLEAN]
  /\ CallsIn(PollCall)

LEMMA PollMeeting ==
  /\ MeetingOnly(PollCall)
  /\ \A r \in PollCall : Accompanied(r).at = r.at /\ Accompanied(r).user = r.user
BY DEF PollCall, Accompanied, MeetingOnly

\* A call that met no other since its deleteMany has left its user without a vote; the
\* votes its user has met it on their way.
VoterIsFree ==
  \A c \in CallIds : At(c, "vote") =>
    /\ ~calls[c].together => Others(calls[c].user) = votes
    /\ \A v \in votes : v.user = calls[c].user => v.together

PollIInv == PollTypeOK /\ Company /\ VoterIsFree /\ OneVoteEach

LEMMA PollInitial == PollInit => PollIInv
  BY DEF PollInit, PollIInv, VoterIsFree, PollTypeOK, CallsIn, Company, OneVoteEach, NoCalls, Running, At

LEMMA PollStep == PollIInv /\ [PollNext]_<<pollVars, calls>> => PollIInv'
<1> SUFFICES ASSUME PollIInv, [PollNext]_<<pollVars, calls>>
             PROVE  PollIInv'
  OBVIOUS
<1> USE DEF PollIInv, PollTypeOK, VoterIsFree, OneVoteEach, At, pollVars, Others
<1>1. ASSUME NEW c \in CallIds, NEW u \in Voters, NEW o \in Options, VotePoll(c, u, o)
      PROVE  PollIInv'
  <2> DEFINE call == [at |-> "unvote", user |-> u, option |-> o, together |-> InCompany]
  <2>1. call \in PollCall /\ call.together = InCompany /\ call.at = "unvote"
    BY DEF PollCall, InCompany
  <2>2. Enter(c, call) /\ UNCHANGED pollVars
    BY <1>1 DEF VotePoll
  <2> HIDE DEF call
  <2>3. CallsIn(PollCall)' /\ Company'
    BY <2>1, <2>2, CompanyEntered, PollMeeting
  <2>4. \A d \in CallIds : At(d, "vote")' =>
          /\ At(d, "vote") /\ calls'[d].user = calls[d].user
          /\ calls'[d].together
    BY <2>1, <2>2, Entered, PollMeeting DEF Running, CallsIn, MeetingOnly
  <2> QED
    BY <2>2, <2>3, <2>4
<1> USE DEF Company, Running, CallsIn, PollCall
<1>2. ASSUME NEW c \in CallIds, Unvote(c)
      PROVE  PollIInv'
  BY <1>2 DEF Unvote, GoOn
<1>3. ASSUME NEW c \in CallIds, Vote(c)
      PROVE  PollIInv'
  BY <1>3 DEF Vote, Return
<1>4. ASSUME NEW c \in CallIds, Throw(c), UNCHANGED pollVars
      PROVE  PollIInv'
  BY <1>4 DEF Throw, Return
<1>5. CASE EndPoll
  BY <1>5 DEF EndPoll
<1>6. CASE CallsLost /\ UNCHANGED pollVars
  BY <1>6 DEF CallsLost, NoCalls
<1>7. CASE UNCHANGED <<pollVars, calls>>
  BY <1>7
<1> QED
  BY <1>1, <1>2, <1>3, <1>4, <1>5, <1>6, <1>7 DEF PollNext

\* A user has one vote in the poll, a second only when each met another call (votePoll).
THEOREM PollIsFair == PollSpec => []OneVoteEach
<1>1. PollIInv => OneVoteEach
  BY DEF PollIInv
<1> QED
  BY <1>1, PollInitial, PollStep, PTL DEF PollSpec

-----------------------------------------------------------------------------
(* A courier request. *)

CourierCall ==
  [op : {"offer", "confirm", "complete", "cancel"},
   at : {"offer", "notify", "confirm", "complete", "cancel"},
   user : Parties, traveler : Travelers \cup {NoOne}, together : BOOLEAN]

CourierTypeOK ==
  /\ courier \in [status : {"OPEN", "MATCHED", "COMPLETED", "CANCELLED", "EXPIRED"},
                  deleted : BOOLEAN, confirmed : Travelers \cup {NoOne}]
  /\ offers \in [Travelers -> {"none", "PENDING", "CONFIRMED", "DECLINED"}]
  /\ CallsIn(CourierCall)

OffersAreOfTravelers ==
  \A c \in CallIds :
    At(c, "offer") \/ At(c, "confirm") => calls[c].traveler \in Travelers

CourierIInv == CourierTypeOK /\ OffersAreOfTravelers /\ OneTravelerConfirmed

LEMMA CourierMeeting ==
  /\ MeetingOnly(CourierCall)
  /\ \A r \in CourierCall : Accompanied(r).at = r.at /\ Accompanied(r).traveler = r.traveler
BY DEF CourierCall, Accompanied, MeetingOnly

LEMMA CourierInitial == CourierInit => CourierIInv
BY CourierAssumption
   DEF CourierInit, CourierIInv, CourierTypeOK, OffersAreOfTravelers, OneTravelerConfirmed,
       Confirmed, CallsIn, NoCalls, Running, At

LEMMA CourierChecked ==
  ASSUME CourierIInv,
         NEW c \in CallIds, NEW op \in {"offer", "confirm", "complete", "cancel"},
         NEW u \in Parties, NEW t \in Travelers \cup {NoOne},
         op \in {"offer", "confirm"} => t \in Travelers, Check(c, op, u, t)
  PROVE  CourierIInv'
<1> DEFINE call == [op |-> op, at |-> op, user |-> u, traveler |-> t, together |-> InCompany]
<1>1. call \in CourierCall /\ call.at = op /\ call.traveler = t
  BY DEF CourierCall, InCompany
<1>2. Enter(c, call) /\ UNCHANGED courierVars
  BY DEF Check
<1> HIDE DEF call
<1>3. CallsIn(CourierCall)'
  BY <1>1, <1>2, CallsEntered, CourierMeeting DEF CourierIInv, CourierTypeOK
<1>4. OffersAreOfTravelers'
  BY <1>1, <1>2, Entered, CourierMeeting
     DEF OffersAreOfTravelers, At, Running, CallsIn, CourierIInv, CourierTypeOK
<1> QED
  BY <1>2, <1>3, <1>4
     DEF CourierIInv, CourierTypeOK, OneTravelerConfirmed, Confirmed, courierVars

LEMMA CourierStep == CourierIInv /\ [CourierNext]_<<courierVars, calls>> => CourierIInv'
<1> SUFFICES ASSUME CourierIInv, [CourierNext]_<<courierVars, calls>>
             PROVE  CourierIInv'
  OBVIOUS
<1>1. ASSUME NEW c \in CallIds, NEW t \in Travelers, Offer(c, t) \/ Confirm(c, t)
      PROVE  CourierIInv'
  BY <1>1, CourierChecked DEF Offer, Confirm, Parties
<1>2. ASSUME NEW c \in CallIds, NEW u \in Parties, Complete(c, u)
      PROVE  CourierIInv'
  BY <1>2, CourierChecked DEF Complete, CourierIInv, CourierTypeOK
<1>3. ASSUME NEW c \in CallIds, Cancel(c)
      PROVE  CourierIInv'
  BY <1>3, CourierChecked DEF Cancel, Parties
<1> USE CourierAssumption
    DEF CourierIInv, CourierTypeOK, OffersAreOfTravelers, OneTravelerConfirmed, Confirmed,
        CallsIn, CourierCall, At, Running, courierVars
<1>4. ASSUME NEW c \in CallIds, CreateOffer(c)
      PROVE  CourierIInv'
  BY <1>4 DEF CreateOffer, GoOn
<1>5. ASSUME NEW c \in CallIds, NotifyOwner(c)
      PROVE  CourierIInv'
  BY <1>5 DEF NotifyOwner, Return
<1>6. ASSUME NEW c \in CallIds, Match(c)
      PROVE  CourierIInv'
  <2> DEFINE t == calls[c].traveler
  <2>1. t \in Travelers
    BY <1>6 DEF Match
  <2>2. /\ offers' = [Declined(t) EXCEPT ![t] = "CONFIRMED"]
        /\ courier' = [courier EXCEPT !.status = "MATCHED", !.confirmed = t]
        /\ calls' = [calls EXCEPT ![c] = Idle]
    BY <1>6 DEF Match, Return
  <2>3. \A u \in Travelers : offers'[u] = IF u = t THEN "CONFIRMED"
                              ELSE IF offers[u] = "none" THEN "none" ELSE "DECLINED"
    BY <2>1, <2>2 DEF Declined
  <2>4. CourierTypeOK'
    BY <2>1, <2>2 DEF Declined
  <2>5. Confirmed' = {t} /\ courier'.confirmed = t
    BY <2>1, <2>2, <2>3
  <2> QED
    BY <2>1, <2>2, <2>4, <2>5
<1>7. ASSUME NEW c \in CallIds, SetStatusOf(c)
      PROVE  CourierIInv'
  BY <1>7 DEF SetStatusOf, Return
<1>8. ASSUME NEW c \in CallIds, Throw(c), UNCHANGED courierVars
      PROVE  CourierIInv'
  BY <1>8 DEF Throw, Return
<1>9. CASE Expire
  BY <1>9 DEF Expire
<1>10. CASE DeleteCourier
  BY <1>10 DEF DeleteCourier
<1>11. CASE CallsLost /\ UNCHANGED courierVars
  BY <1>11 DEF CallsLost, NoCalls
<1>12. CASE UNCHANGED <<courierVars, calls>>
  BY <1>12
<1> QED
  BY <1>1, <1>2, <1>3, <1>4, <1>5, <1>6, <1>7, <1>8, <1>9, <1>10, <1>11, <1>12 DEF CourierNext

\* At most one offer is confirmed, the one the request names, however many
\* confirmations cross and wherever one fails.
THEOREM CourierIsOne == CourierSpec => []OneTravelerConfirmed
<1>1. CourierIInv => OneTravelerConfirmed
  BY DEF CourierIInv
<1> QED
  BY <1>1, CourierInitial, CourierStep, PTL DEF CourierSpec

-----------------------------------------------------------------------------
(* Memberships and promotion codes. *)

MembershipCall ==
  [at : {"redemption", "promo", "apply"}, user : Members, together : BOOLEAN]

MembershipTypeOK ==
  /\ membership \in [Members -> {"NONE", "ACTIVE", "EXPIRED"}]
  /\ used \in Nat /\ IsFiniteSet(redeemed)
  /\ CallsIn(MembershipCall)

\* A call that met no other, no payment either, still finds what it looked at.
LooksAreGood ==
  \A c \in Running : ~calls[c].together =>
    /\ membership[calls[c].user] # "ACTIVE"
    /\ calls[c].at = "apply" => used < MaxUses

MembershipIInv ==
  MembershipTypeOK /\ Company /\ LooksAreGood /\ UsesAreRedemptions

LEMMA MembershipMeeting == MeetingOnly(MembershipCall)
BY DEF MembershipCall, Accompanied, MeetingOnly

LEMMA MembershipInitial == MembershipInit => MembershipIInv
BY FS_EmptySet
   DEF MembershipInit, MembershipIInv, MembershipTypeOK, LooksAreGood, UsesAreRedemptions,
       Company, CallsIn, NoCalls, Running

LEMMA MembershipStep ==
  MembershipIInv /\ [MembershipNext]_<<memberVars, calls>> => MembershipIInv'
<1> SUFFICES ASSUME MembershipIInv, [MembershipNext]_<<memberVars, calls>>
             PROVE  MembershipIInv'
  OBVIOUS
<1> USE DEF MembershipIInv, MembershipTypeOK, LooksAreGood, UsesAreRedemptions, memberVars, Running
<1>1. ASSUME NEW c \in CallIds, NEW u \in Members, ApplyPromoCode(c, u)
      PROVE  MembershipIInv'
  <2> DEFINE call == [at |-> "redemption", user |-> u, together |-> InCompany]
  <2>1. call \in MembershipCall /\ call.together = InCompany
        /\ call.at = "redemption" /\ call.user = u
    BY DEF MembershipCall, InCompany
  <2>2. Enter(c, call) /\ UNCHANGED memberVars /\ membership[u] # "ACTIVE"
    BY <1>1 DEF ApplyPromoCode
  <2> HIDE DEF call
  <2>3. CallsIn(MembershipCall)' /\ Company'
    BY <2>1, <2>2, CompanyEntered, MembershipMeeting
  <2>4. \A d \in CallIds : d # c /\ calls'[d] # Idle => calls'[d].together
    BY <2>2, Entered, MembershipMeeting DEF CallsIn, MeetingOnly
  <2>5. calls'[c] = call
    BY <2>2, Entered
  <2> QED
    BY <2>1, <2>2, <2>3, <2>4, <2>5
<1>2. ASSUME NEW u \in Members, StripeWebhook(u)
      PROVE  MembershipIInv'
  BY <1>2, CompanyJoined, MembershipMeeting DEF StripeWebhook
<1> USE DEF Company, CallsIn, MembershipCall, At
<1>3. ASSUME NEW c \in CallIds, CheckRedemption(c)
      PROVE  MembershipIInv'
  BY <1>3 DEF CheckRedemption, GoOn
<1>4. ASSUME NEW c \in CallIds, CheckPromo(c)
      PROVE  MembershipIInv'
  BY <1>4 DEF CheckPromo, UsesLeft, GoOn
<1>5. ASSUME NEW c \in CallIds, Apply(c)
      PROVE  MembershipIInv'
  <2> DEFINE u == calls[c].user
  <2>1. /\ c \in Running /\ u \in Members /\ u \notin redeemed
        /\ used' = used + 1 /\ redeemed' = redeemed \cup {u}
        /\ membership' = [membership EXCEPT ![u] = "ACTIVE"]
        /\ calls' = [calls EXCEPT ![c] = Idle]
    BY <1>5 DEF Apply, Redeem, Return
  <2>2. used' = Cardinality(redeemed') /\ IsFiniteSet(redeemed')
    BY <2>1, FS_AddElement
  <2>3. \A d \in Running' : calls'[d].together
    BY <2>1
  <2> QED
    BY <2>1, <2>2, <2>3
<1>6. ASSUME NEW c \in CallIds, Throw(c), UNCHANGED memberVars
      PROVE  MembershipIInv'
  BY <1>6 DEF Throw, Return
<1>7. ASSUME NEW u \in Members, ExpireSubscription(u)
      PROVE  MembershipIInv'
  BY <1>7 DEF ExpireSubscription
<1>8. CASE CallsLost /\ UNCHANGED memberVars
  BY <1>8 DEF CallsLost, NoCalls
<1>9. CASE UNCHANGED <<memberVars, calls>>
  BY <1>9
<1> QED
  BY <1>1, <1>2, <1>3, <1>4, <1>5, <1>6, <1>7, <1>8, <1>9 DEF MembershipNext

\* A code counts as many uses as there are users who redeemed it.
THEOREM UsesAreCounted == MembershipSpec => []UsesAreRedemptions
<1>1. MembershipIInv => UsesAreRedemptions
  BY DEF MembershipIInv
<1> QED
  BY <1>1, MembershipInitial, MembershipStep, PTL DEF MembershipSpec

\* A code is applied beyond its uses, or over a membership in force, only by a call
\* that another call, or a payment, met on its way.
THEOREM OverUseTakesTwo == MembershipSpec => AppliedOverOnlyTogether
<1>1. MembershipIInv /\ [MembershipNext]_<<memberVars, calls>> =>
        [\A c \in CallIds :
           Apply(c) /\ (used >= MaxUses \/ membership[calls[c].user] = "ACTIVE")
             => calls[c].together]_<<memberVars, calls>>
  BY UsesAssumption DEF MembershipIInv, MembershipTypeOK, LooksAreGood, Apply, At
<1> QED
  BY <1>1, MembershipInitial, MembershipStep, PTL DEF MembershipSpec, AppliedOverOnlyTogether

-----------------------------------------------------------------------------
(* An event and its seats. *)

EventCall ==
  [user : Users, status : {"GOING", "INTERESTED"}, at : {"find", "upsert", "notify"},
   known : BOOLEAN, together : BOOLEAN]

\* A guest let in alone still has the room that was there.
GuestHasRoom ==
  \A c \in Running :
    calls[c].at \in {"find", "upsert"} /\ ~calls[c].together => HasRoom

EventIInv == EventTypeOK /\ Company /\ GuestHasRoom /\ IsFiniteSet(Attendees)

LEMMA EventMeeting ==
  /\ MeetingOnly(EventCall)
  /\ \A r \in EventCall : Accompanied(r).at = r.at
BY DEF EventCall, Accompanied, MeetingOnly

LEMMA EventInitial == EventInit => EventIInv
<1> SUFFICES ASSUME EventInit
             PROVE  EventIInv
  OBVIOUS
<1>1. Attendees = {}
  BY DEF EventInit, Attendees
<1> QED
  BY <1>1, FS_EmptySet
     DEF EventInit, EventIInv, EventTypeOK, Statuses, GuestHasRoom, Company, NoCalls, Running

LEMMA EventStep == EventIInv /\ [EventNext]_eventVars => EventIInv'
<1> SUFFICES ASSUME EventIInv, [EventNext]_eventVars
             PROVE  EventIInv'
  OBVIOUS
<1> USE DEF EventIInv, EventTypeOK, GuestHasRoom, HasRoom, Running, event
<1>1. ASSUME NEW c \in CallIds, NEW u \in Users, NEW s \in {"GOING", "INTERESTED"},
             Attend(c, u, s)
      PROVE  EventIInv'
  <2> DEFINE call == [user |-> u, status |-> s, at |-> "find", known |-> FALSE,
                      together |-> InCompany]
  <2>1. call \in EventCall /\ call.together = InCompany
    BY DEF EventCall, InCompany
  <2>2. Enter(c, call) /\ UNCHANGED <<event, going>> /\ HasRoom
    BY <1>1 DEF Attend
  <2> HIDE DEF call
  <2>3. CallsIn(EventCall)' /\ Company'
    BY <2>1, <2>2, CompanyEntered, EventMeeting DEF CallsIn, EventCall
  <2>4. Attendees' = Attendees
    BY <2>2 DEF Attendees
  <2> QED
    BY <2>2, <2>3, <2>4 DEF CallsIn, EventCall
<1> USE DEF Company, At
<1>2. ASSUME NEW c \in CallIds, FindExisting(c)
      PROVE  EventIInv'
  <2>1. Attendees' = Attendees
    BY <1>2 DEF FindExisting, Attendees
  <2> DEFINE known == going[calls[c].user] # "no"
             call == [calls[c] EXCEPT !.at = "upsert", !.known = known]
  <2>2. /\ c \in Running /\ calls[c].at = "find"
        /\ UNCHANGED <<event, going>>
        /\ calls' = [calls EXCEPT ![c] = call]
    BY <1>2 DEF FindExisting
  <2>3. call \in EventCall /\ call.at = "upsert" /\ call.together = calls[c].together
    BY <2>2 DEF EventCall
  <2> HIDE DEF call
  <2> QED
    BY <2>1, <2>2, <2>3 DEF EventCall
<1>3. ASSUME NEW c \in CallIds, Upsert(c)
      PROVE  EventIInv'
  <2> DEFINE u == calls[c].user
  <2>1. c \in Running /\ u \in Users /\ going' = [going EXCEPT ![u] = calls[c].status]
    BY <1>3 DEF Upsert
  <2>2. Attendees' \subseteq Attendees \cup {u}
    BY <2>1 DEF Attendees
  <2>3. IsFiniteSet(Attendees')
    BY <2>2, FS_AddElement, FS_Subset
  <2>4. CASE calls' = [calls EXCEPT ![c] = Idle]
    BY <1>3, <2>1, <2>3, <2>4 DEF Upsert
  <2>5. CASE calls' = [calls EXCEPT ![c].at = "notify"]
    BY <1>3, <2>1, <2>3, <2>5 DEF Upsert
  <2> QED
    BY <1>3, <2>4, <2>5 DEF Upsert, GoOn, Return
<1>4. ASSUME NEW c \in CallIds, NotifyAndAward(c) \/ AttendFails(c)
      PROVE  EventIInv'
  <2>1. Attendees' = Attendees
    BY <1>4 DEF NotifyAndAward, AttendFails, Attendees
  <2> QED
    BY <1>4, <2>1 DEF NotifyAndAward, AttendFails, Throw, Return
<1>5. CASE SetStatus \/ DeleteEvent \/ EndsAt
  <2>1. UNCHANGED <<going, calls>> /\ status' \in Statuses /\ {ended', deleted'} \subseteq BOOLEAN
    BY <1>5 DEF SetStatus, DeleteEvent, EndsAt
  <2>2. Attendees' = Attendees
    BY <2>1 DEF Attendees
  <2> QED
    BY <2>1, <2>2
<1>6. CASE EventsLost
  <2>1. Attendees' = Attendees
    BY <1>6 DEF EventsLost, Attendees
  <2> QED
    BY <1>6, <2>1 DEF EventsLost, CallsLost, NoCalls
<1>7. CASE UNCHANGED eventVars
  <2>1. Attendees' = Attendees
    BY <1>7 DEF eventVars, Attendees
  <2> QED
    BY <1>7, <2>1 DEF eventVars
<1> QED
  BY <1>1, <1>2, <1>3, <1>4, <1>5, <1>6, <1>7 DEF EventNext

\* The event, its attendees and the calls of attend() keep their types.
THEOREM EventTypeCorrect == EventSpec => []EventTypeOK
<1>1. EventIInv => EventTypeOK
  BY DEF EventIInv
<1> QED
  BY <1>1, EventInitial, EventStep, PTL DEF EventSpec

\* Nobody takes a seat beyond the capacity who came alone.
THEOREM OverbookingTakesTwo == EventSpec => SeatsAreTakenTogetherOnly
<1>1. EventIInv /\ [EventNext]_eventVars =>
        [\A c \in CallIds : At(c, "upsert") /\ Upsert(c) /\ Cardinality(Attendees) >= Capacity
                             /\ going[calls[c].user] = "no" => calls[c].together]_eventVars
  BY EventAssumption, FS_CardinalityType DEF EventIInv, GuestHasRoom, HasRoom, At
<1> QED
  BY <1>1, EventInitial, EventStep, PTL DEF EventSpec, SeatsAreTakenTogetherOnly

-----------------------------------------------------------------------------
(* A forgotten password. *)

ResetCall ==
  [at : {"delete", "create", "mail", "write"}, token : Tokens \cup {"none"}, together : BOOLEAN]

ResetTypeOK ==
  /\ token \in [Tokens -> [state : {"none", "live", "expired", "used"}, together : BOOLEAN]]
  /\ CallsIn(ResetCall)

OldLinksAreDead ==
  \A c \in Running : calls[c].at = "create" =>
    /\ ~calls[c].together => Live = {}
    /\ \A t \in Live : token[t].together

LinksWereAskedTogether ==
  \A s, t \in Live : s # t => token[s].together /\ token[t].together

ResetIInv == ResetTypeOK /\ Company /\ OldLinksAreDead /\ LinksWereAskedTogether

LEMMA ResetMeeting ==
  MeetingOnly(ResetCall) /\ \A r \in ResetCall : Accompanied(r).at = r.at
BY DEF ResetCall, Accompanied, MeetingOnly

LEMMA ResetInitial == ResetInit => ResetIInv
BY DEF ResetInit, ResetIInv, ResetTypeOK, OldLinksAreDead, LinksWereAskedTogether, Company,
       Live, NoRow, CallsIn, NoCalls, Running

LEMMA ResetEntered ==
  ASSUME ResetIInv, NEW c \in CallIds, NEW call \in ResetCall, Enter(c, call),
         call.together = InCompany, call.at # "create", UNCHANGED resetVars
  PROVE  ResetIInv'
<1>1. CallsIn(ResetCall)' /\ Company'
  BY CompanyEntered, ResetMeeting DEF ResetIInv, ResetTypeOK
<1>2. \A d \in CallIds : d # c /\ calls'[d] # Idle =>
        calls[d] # Idle /\ calls'[d].at = calls[d].at /\ calls'[d].together
  BY Entered, ResetMeeting DEF CallsIn, MeetingOnly, ResetIInv, ResetTypeOK
<1>3. calls'[c] = call
  BY Entered
<1> QED
  BY <1>1, <1>2, <1>3
     DEF ResetIInv, ResetTypeOK, OldLinksAreDead, LinksWereAskedTogether, Live, resetVars, Running

LEMMA ResetStep == ResetIInv /\ [ResetNext]_<<resetVars, calls>> => ResetIInv'
<1> SUFFICES ASSUME ResetIInv, [ResetNext]_<<resetVars, calls>>
             PROVE  ResetIInv'
  OBVIOUS
<1>1. ASSUME NEW c \in CallIds, NEW t \in Tokens, ResetPassword(c, t)
      PROVE  ResetIInv'
  <2> DEFINE call == [at |-> "write", token |-> t, together |-> InCompany]
  <2>1. call \in ResetCall /\ call.together = InCompany /\ call.at # "create"
    BY DEF ResetCall, InCompany
  <2>2. Enter(c, call) /\ UNCHANGED resetVars
    BY <1>1 DEF ResetPassword
  <2> HIDE DEF call
  <2> QED
    BY <2>1, <2>2, ResetEntered
<1>2. ASSUME NEW c \in CallIds, RequestPasswordReset(c)
      PROVE  ResetIInv'
  <2> DEFINE call == [at |-> "delete", token |-> "none", together |-> InCompany]
  <2>1. call \in ResetCall /\ call.together = InCompany /\ call.at # "create"
    BY DEF ResetCall, InCompany
  <2>2. Enter(c, call) /\ UNCHANGED resetVars
    BY <1>2 DEF RequestPasswordReset
  <2> HIDE DEF call
  <2> QED
    BY <2>1, <2>2, ResetEntered
<1> USE DEF ResetIInv, ResetTypeOK, OldLinksAreDead, LinksWereAskedTogether, Live, Company,
            CallsIn, ResetCall, At, Running, resetVars
<1>3. ASSUME NEW c \in CallIds, DeleteOld(c)
      PROVE  ResetIInv'
  BY <1>3 DEF DeleteOld, OldTokensGone, NoRow, GoOn
<1>4. ASSUME NEW c \in CallIds, NEW t \in Tokens, CreateToken(c, t)
      PROVE  ResetIInv'
  <2> DEFINE met == calls[c].together
  <2>1. c \in Running /\ calls[c] \in ResetCall /\ calls[c].at = "create" /\ met \in BOOLEAN
    BY <1>4 DEF CreateToken
  <2>2. /\ token' = [token EXCEPT ![t] = [state |-> "live", together |-> met]]
        /\ calls' = [calls EXCEPT ![c].at = "mail"]
    BY <1>4 DEF CreateToken, GoOn
  <2>3. Live' = Live \cup {t} /\ (~met => Live = {})
    BY <2>1, <2>2
  <2>4. LinksWereAskedTogether'
    BY <2>1, <2>2, <2>3
  <2>5. CallsIn(ResetCall)' /\ Company'
    BY <2>1, <2>2
  <2>6. OldLinksAreDead'
    BY <2>1, <2>2
  <2> QED
    BY <2>1, <2>2, <2>4, <2>5, <2>6
<1>5. ASSUME NEW c \in CallIds, SendMail(c)
      PROVE  ResetIInv'
  BY <1>5 DEF SendMail, Return
<1>6. ASSUME NEW c \in CallIds, WritePassword(c)
      PROVE  ResetIInv'
  <2> DEFINE t == calls[c].token
  <2>1. /\ calls' = [calls EXCEPT ![c] = Idle]
        /\ token' = [token EXCEPT ![t].state = "used"]
    BY <1>6 DEF WritePassword, Return
  <2>2. ResetTypeOK' /\ Company'
    <3> DEFINE row == [token[t] EXCEPT !.state = "used"]
    <3>1. token' = [token EXCEPT ![t] = row]
      BY <2>1
    <3>2. t \in Tokens => row \in [state : {"none", "live", "expired", "used"}, together : BOOLEAN]
      OBVIOUS
    <3> HIDE DEF row
    <3>3. token' \in [Tokens -> [state : {"none", "live", "expired", "used"}, together : BOOLEAN]]
      BY <3>1, <3>2
    <3>4. CallsIn(ResetCall)' /\ Company'
      BY <2>1
    <3> QED
      BY <3>3, <3>4
  <2>3. Live' \subseteq Live /\ \A s \in Live' : token'[s] = token[s]
    BY <2>1
  <2> QED
    BY <2>1, <2>2, <2>3
<1>7. ASSUME NEW c \in CallIds, Throw(c), UNCHANGED resetVars
      PROVE  ResetIInv'
  BY <1>7 DEF Throw, Return
<1>8. CASE CleanExpired
  BY <1>8 DEF CleanExpired, NoRow
<1>9. ASSUME NEW t \in Tokens, TokenExpires(t)
      PROVE  ResetIInv'
  BY <1>9 DEF TokenExpires
<1>10. CASE CallsLost /\ UNCHANGED resetVars
  BY <1>10 DEF CallsLost, NoCalls
<1>11. CASE UNCHANGED <<resetVars, calls>>
  BY <1>11
<1> QED
  BY <1>1, <1>2, <1>3, <1>4, <1>5, <1>6, <1>7, <1>8, <1>9, <1>10, <1>11 DEF ResetNext

\* Only the last link mailed is good, unless each good one met another call
\* (requestPasswordReset).
THEOREM LastLinkIsGood == ResetSpec => []OneLinkIsGood
<1>1. ResetIInv => OneLinkIsGood
  <2> SUFFICES ASSUME ResetIInv, Cardinality(Live) > 1, NEW t \in Live, ~token[t].together
               PROVE  FALSE
    BY DEF OneLinkIsGood
  <2>2. Live = {t}
    BY DEF ResetIInv, LinksWereAskedTogether
  <2>3. Cardinality({t}) = 1
    BY FS_Singleton
  <2> QED
    BY <2>2, <2>3
<1> QED
  BY <1>1, ResetInitial, ResetStep, PTL DEF ResetSpec

-----------------------------------------------------------------------------
(* The automatic accounts of a chat room. *)

BotTypeOK ==
  /\ {busy, cool, broken} \subseteq BOOLEAN
  /\ CallsIn(BotCall)

\* Until somebody else released it, the lock is held by the one call that talks.
LockHasItsHolder ==
  broken \/ (busy /\ \E c \in Talking : Talking = {c}) \/ (~busy /\ Talking = {})

BotIInv == BotTypeOK /\ LockHasItsHolder

LEMMA BotMeeting ==
  /\ MeetingOnly(BotCall)
  /\ \A r \in BotCall : Accompanied(r).at = r.at
BY DEF BotCall, Accompanied, MeetingOnly

LEMMA BotWentOn ==
  ASSUME CallsIn(BotCall), NEW c \in Running, NEW phase \in {"plan", "cast", "first", "second"},
         GoOn(c, phase)
  PROVE  /\ CallsIn(BotCall)' /\ Running' = Running
         /\ calls'[c].at = phase /\ \A d \in Running \ {c} : calls'[d].at = calls[d].at
<1> DEFINE call == [calls[c] EXCEPT !.at = phase]
<1>1. c \in CallIds /\ calls[c] \in BotCall
  BY DEF CallsIn, Running
<1>2. call \in BotCall /\ call.at = phase /\ call # Idle
  BY <1>1, BotAssumption DEF BotCall
<1>3. calls' = [calls EXCEPT ![c] = call]
  BY DEF GoOn
<1> HIDE DEF call
<1> QED
  BY <1>1, <1>2, <1>3 DEF CallsIn, Running

LEMMA BotInitial == BotInit => BotIInv
BY DEF BotInit, BotIInv, BotTypeOK, LockHasItsHolder, Talking, CallsIn, NoCalls, Running

LEMMA BotFinished ==
  ASSUME BotIInv, NEW c \in Running, Finish(c), cool' \in BOOLEAN
  PROVE  BotIInv'
<1>1. Talking' = Talking \ {c}
  BY DEF Finish, Return, Talking, Running, BotIInv, BotTypeOK, CallsIn
<1>2. ~busy' /\ broken' = (Talking \ {c} # {} /\ (broken \/ c \notin Talking))
  BY DEF Finish, Unlock
<1>3. LockHasItsHolder'
  BY <1>1, <1>2 DEF LockHasItsHolder, BotIInv
<1>4. BotTypeOK'
  BY <1>2 DEF Finish, Unlock, Return, Running, BotIInv, BotTypeOK, CallsIn
<1> QED
  BY <1>3, <1>4 DEF BotIInv

LEMMA BotStep == BotIInv /\ [BotNext]_<<botVars, calls>> => BotIInv'
<1> SUFFICES ASSUME BotIInv, [BotNext]_<<botVars, calls>>
             PROVE  BotIInv'
  OBVIOUS
<1>1. ASSUME NEW c \in CallIds, NEW voices \in {1, 2}, MaybeReply(c, voices)
      PROVE  BotIInv'
  <2> DEFINE call == [at |-> "plan", voices |-> voices, together |-> InCompany]
  <2>1. call \in BotCall /\ call.at = "plan"
    BY DEF BotCall, InCompany
  <2>2. Enter(c, call) /\ UNCHANGED botVars
    BY <1>1 DEF MaybeReply
  <2> HIDE DEF call
  <2>3. CallsIn(BotCall)'
    BY <2>1, <2>2, CallsEntered, BotMeeting DEF BotIInv, BotTypeOK
  <2>4. Talking' = Talking
    <3>1. calls[c] = Idle /\ calls'[c].at = "plan"
      BY <2>1, <2>2, Entered
    <3>2. \A d \in CallIds \ {c} :
            /\ calls[d] = Idle => calls'[d] = Idle
            /\ calls[d] # Idle => calls'[d] # Idle /\ calls'[d].at = calls[d].at
      BY <2>2, Entered, BotMeeting, BotAssumption DEF MeetingOnly, BotIInv, BotTypeOK, CallsIn
    <3> QED
      BY <3>1, <3>2 DEF Talking, Running
  <2> QED
    BY <2>2, <2>3, <2>4 DEF BotIInv, BotTypeOK, LockHasItsHolder, botVars
<1>2. ASSUME NEW c \in CallIds, Plan(c)
      PROVE  BotIInv'
  <2>1. CASE Finish(c) /\ UNCHANGED cool
    BY <1>2, <2>1, BotFinished DEF Plan, At, BotIInv, BotTypeOK
  <2>2. CASE GoOn(c, "cast") /\ UNCHANGED botVars
    <3>1. c \in Running /\ calls[c].at = "plan"
      BY <1>2 DEF Plan, At
    <3>2. Talking' = Talking
      BY <2>2, <3>1, BotWentOn DEF Talking, BotIInv, BotTypeOK
    <3>3. CallsIn(BotCall)'
      BY <2>2, <3>1, BotWentOn DEF BotIInv, BotTypeOK
    <3> QED
      BY <2>2, <3>2, <3>3 DEF BotIInv, BotTypeOK, LockHasItsHolder, botVars
  <2> QED
    BY <1>2, <2>1, <2>2 DEF Plan
<1>3. ASSUME NEW c \in CallIds, Take(c)
      PROVE  BotIInv'
  <2>1. CASE Finish(c) /\ UNCHANGED cool
    BY <1>3, <2>1, BotFinished DEF Take, At, BotIInv, BotTypeOK
  <2>2. CASE Free /\ GoOn(c, "first") /\ busy' = TRUE /\ UNCHANGED <<cool, broken>>
    <3>1. c \in Running /\ calls[c].at = "cast"
      BY <1>3 DEF Take, At
    <3>2. Talking' = Talking \cup {c}
      BY <2>2, <3>1, BotWentOn DEF Talking, BotIInv, BotTypeOK
    <3>3. CallsIn(BotCall)'
      BY <2>2, <3>1, BotWentOn DEF BotIInv, BotTypeOK
    <3> QED
      BY <2>2, <3>2, <3>3 DEF BotIInv, BotTypeOK, LockHasItsHolder, Free
  <2> QED
    BY <1>3, <2>1, <2>2 DEF Take
<1>4. ASSUME NEW c \in CallIds, SpeakFirst(c)
      PROVE  BotIInv'
  <2>1. CASE Finish(c) /\ cool' = FALSE
    BY <1>4, <2>1, BotFinished DEF SpeakFirst, At
  <2>2. CASE GoOn(c, "second") /\ UNCHANGED botVars
    <3>1. c \in Running /\ calls[c].at = "first"
      BY <1>4 DEF SpeakFirst, At
    <3>2. Talking' = Talking
      BY <2>2, <3>1, BotWentOn DEF Talking, BotIInv, BotTypeOK
    <3>3. CallsIn(BotCall)'
      BY <2>2, <3>1, BotWentOn DEF BotIInv, BotTypeOK
    <3> QED
      BY <2>2, <3>2, <3>3 DEF BotIInv, BotTypeOK, LockHasItsHolder, botVars
  <2> QED
    BY <1>4, <2>1, <2>2 DEF SpeakFirst
<1>5. ASSUME NEW c \in CallIds, SpeakSecond(c)
      PROVE  BotIInv'
  BY <1>5, BotFinished DEF SpeakSecond, At
<1>6. ASSUME NEW c \in CallIds, BotFails(c)
      PROVE  BotIInv'
  BY <1>6, BotFinished DEF BotFails, BotIInv, BotTypeOK
<1>7. CASE CoolDown \/ UNCHANGED <<botVars, calls>>
  <2>1. UNCHANGED <<calls, busy, broken>> /\ cool' \in BOOLEAN
    BY <1>7 DEF CoolDown, BotIInv, BotTypeOK, botVars
  <2> QED
    BY <2>1 DEF BotIInv, BotTypeOK, LockHasItsHolder, Talking, Running, CallsIn
<1>8. CASE BotRestart
  BY <1>8 DEF BotRestart, CallsLost, NoCalls, BotIInv, BotTypeOK, LockHasItsHolder, Talking,
              Running, CallsIn
<1> QED
  BY <1>1, <1>2, <1>3, <1>4, <1>5, <1>6, <1>7, <1>8 DEF BotNext

\* One conversation at a time under the lock, and no lock left behind, for any
\* number of messages and wherever a call fails.
THEOREM BotLockIsHeld == BotSpec => []LockIsHeldWhileTalking
<1>1. BotIInv => LockIsHeldWhileTalking
  BY FS_EmptySet, FS_Singleton DEF BotIInv, BotTypeOK, LockHasItsHolder, LockIsHeldWhileTalking
<1> QED
  BY <1>1, BotInitial, BotStep, PTL DEF BotSpec

-----------------------------------------------------------------------------
(* A forum topic and its replies. *)

ForumTypeOK ==
  /\ topicStatus \in TopicStatuses
  /\ best \subseteq Replies /\ solved \in Replies \cup {NoReply} /\ torn \in BOOLEAN
  /\ CallsIn(ForumCall)

\* Before anything is written, the topic still names the reply marked best.
MarksAgree ==
  ~torn /\ (\A c \in Marking : calls[c].at = "clear")
    => best = IF solved = NoReply THEN {} ELSE {solved}

\* A marking that met no other finds the marks as it left them.
MarkingIsOrderly ==
  \A c \in Running : ~calls[c].together =>
    /\ calls[c].at = "best" => best = {}
    /\ calls[c].at = "topic" => best = {calls[c].reply}

\* A reply that met no other call has read the topic as it is.
ReadingIsFresh ==
  \A c \in Running : ~calls[c].together =>
    /\ calls[c].at = "reply" => calls[c].status = topicStatus
    /\ calls[c].at = "answered" => topicStatus = "OPEN"

ForumIInv == ForumTypeOK /\ Company /\ MarksAgree /\ MarkingIsOrderly /\ ReadingIsFresh

LEMMA ForumMeeting ==
  /\ MeetingOnly(ForumCall)
  /\ \A r \in ForumCall : Accompanied(r).at = r.at
BY DEF ForumCall, Accompanied, MeetingOnly

LEMMA ForumInitial == ForumInit => ForumIInv
BY DEF ForumInit, ForumIInv, ForumTypeOK, TopicStatuses, Company, MarksAgree, MarkingIsOrderly,
       ReadingIsFresh, Marking, CallsIn, NoCalls, Running

\* Nobody but a call that begins or goes on can break what the invariant says of the
\* calls: those that met another are free of it.
LEMMA ForumEntered ==
  ASSUME ForumIInv, NEW c \in CallIds, NEW call \in ForumCall, Enter(c, call),
         call.together = InCompany, UNCHANGED forumVars,
         \/ call.at = "clear"
         \/ call.at = "reply" /\ call.status = topicStatus
  PROVE  ForumIInv'
<1>1. CallsIn(ForumCall)' /\ Company'
  BY CompanyEntered, ForumMeeting DEF ForumIInv, ForumTypeOK
<1>2. \A d \in CallIds : d # c /\ calls'[d] # Idle => calls'[d].together
  BY Entered, ForumMeeting DEF CallsIn, MeetingOnly, ForumIInv, ForumTypeOK
<1>3. calls'[c] = call
  BY Entered
<1>4. (\A d \in Marking' : calls'[d].at = "clear") => \A d \in Marking : calls[d].at = "clear"
  <2> SUFFICES ASSUME \A d \in Marking' : calls'[d].at = "clear", NEW d \in Marking,
                      calls[d].at # "clear"
               PROVE  FALSE
    OBVIOUS
  <2>1. calls[c] = Idle /\ d \in CallIds /\ calls[d] # Idle /\ d # c
    BY Entered DEF Marking, Running
  <2>2. calls'[d] = Accompanied(calls[d]) /\ calls[d] \in ForumCall
    BY <2>1, Entered DEF ForumIInv, ForumTypeOK, CallsIn
  <2>3. calls'[d].at = calls[d].at /\ calls'[d] \in ForumCall
    BY <2>2, ForumMeeting DEF MeetingOnly
  <2> QED
    BY <2>1, <2>2, <2>3, ForumAssumption DEF Marking, Running
<1> QED
  BY <1>1, <1>2, <1>3, <1>4
     DEF ForumIInv, ForumTypeOK, MarksAgree, MarkingIsOrderly, ReadingIsFresh, forumVars,
         replyVars, markVars, Running

LEMMA ForumStep == ForumIInv /\ [ForumNext]_<<forumVars, calls>> => ForumIInv'
<1> SUFFICES ASSUME ForumIInv, [ForumNext]_<<forumVars, calls>>
             PROVE  ForumIInv'
  OBVIOUS
<1>1. ASSUME NEW c \in CallIds, NEW r \in Replies, MarkSolved(c, r)
      PROVE  ForumIInv'
  <2> DEFINE call == [at |-> "clear", reply |-> r, status |-> "SOLVED", together |-> InCompany]
  <2>1. call \in ForumCall /\ call.together = InCompany /\ call.at = "clear"
    BY DEF ForumCall, TopicStatuses, InCompany
  <2>2. Enter(c, call) /\ UNCHANGED forumVars
    BY <1>1 DEF MarkSolved
  <2> HIDE DEF call
  <2> QED
    BY <2>1, <2>2, ForumEntered
<1>2. ASSUME NEW c \in CallIds, NEW r \in Replies, CreateReply(c, r)
      PROVE  ForumIInv'
  <2> DEFINE call == [at |-> "reply", reply |-> r, status |-> topicStatus, together |-> InCompany]
  <2>1. call \in ForumCall /\ call.together = InCompany /\ call.at = "reply"
        /\ call.status = topicStatus
    BY DEF ForumCall, ForumIInv, ForumTypeOK, InCompany
  <2>2. Enter(c, call) /\ UNCHANGED forumVars
    BY <1>2 DEF CreateReply
  <2> HIDE DEF call
  <2> QED
    BY <2>1, <2>2, ForumEntered
<1>3. ASSUME NEW s \in TopicStatuses, SetTopicStatus(s)
      PROVE  ForumIInv'
  <2>1. CallsIn(ForumCall)' /\ Company' /\ \A c \in Running' : calls'[c].together
    BY <1>3, CompanyJoined, ForumMeeting DEF SetTopicStatus, ForumIInv, ForumTypeOK
  <2>2. ASSUME \A d \in Marking' : calls'[d].at = "clear", NEW d \in Marking, calls[d].at # "clear"
        PROVE  FALSE
    <3>1. calls'[d] = Accompanied(calls[d]) /\ calls[d] \in ForumCall
      BY <1>3, Joined DEF SetTopicStatus, Marking, Running, ForumIInv, ForumTypeOK, CallsIn
    <3>2. calls'[d].at = calls[d].at /\ calls'[d] \in ForumCall
      BY <3>1, ForumMeeting DEF MeetingOnly
    <3> QED
      BY <2>2, <3>2, ForumAssumption DEF Marking, Running
  <2> QED
    BY <1>3, <2>1, <2>2
       DEF SetTopicStatus, ForumIInv, ForumTypeOK, MarksAgree, MarkingIsOrderly, ReadingIsFresh,
           replyVars, markVars
<1> USE ForumAssumption, NoReplyAssumption
    DEF ForumIInv, ForumTypeOK, Company, MarksAgree, MarkingIsOrderly, ReadingIsFresh, Marking,
        CallsIn, ForumCall, TopicStatuses, At, Running, replyVars, markVars, forumVars
<1>4. ASSUME NEW c \in CallIds, PostReply(c)
      PROVE  ForumIInv'
  BY <1>4 DEF PostReply, FirstReply, GoOn, Return
<1>5. ASSUME NEW c \in CallIds, MarkAnswered(c)
      PROVE  ForumIInv'
  BY <1>5 DEF MarkAnswered, Return
<1>6. ASSUME NEW c \in CallIds, ClearBest(c)
      PROVE  ForumIInv'
  BY <1>6 DEF ClearBest, Cleared, GoOn
<1>7. ASSUME NEW c \in CallIds, SetBest(c)
      PROVE  ForumIInv'
  BY <1>7 DEF SetBest, GoOn
<1>8. ASSUME NEW c \in CallIds, UpdateSolved(c)
      PROVE  ForumIInv'
  BY <1>8 DEF UpdateSolved, Return
<1>9. ASSUME NEW c \in CallIds, ForumFails(c)
      PROVE  ForumIInv'
  BY <1>9 DEF ForumFails, Throw, Return
<1>10. CASE ForumRestart
  BY <1>10 DEF ForumRestart, CallsLost, NoCalls
<1>11. ASSUME NEW r \in Replies, DeleteReply(r)
       PROVE  ForumIInv'
  BY <1>11 DEF DeleteReply
<1>12. CASE UNCHANGED <<forumVars, calls>>
  BY <1>12
<1> QED
  BY <1>1, <1>2, <1>3, <1>4, <1>5, <1>6, <1>7, <1>8, <1>9, <1>10, <1>11, <1>12 DEF ForumNext

\* Once nobody is marking, the one reply marked best is the one the topic names,
\* unless the last marking was cut short or crossed another.
THEOREM BestReplyIsOne == ForumSpec => []OneBestReply
<1>1. ForumIInv => OneBestReply
  BY DEF ForumIInv, MarksAgree, OneBestReply
<1> QED
  BY <1>1, ForumInitial, ForumStep, PTL DEF ForumSpec

\* A topic that is solved or locked becomes merely answered only by a reply that
\* another call, or the administrator, met on its way.
THEOREM SolvedTopicStays == ForumSpec => SolvedStays
<1>1. ForumIInv /\ [ForumNext]_<<forumVars, calls>> =>
        [\A c \in CallIds : MarkAnswered(c) /\ topicStatus # "OPEN"
                              => calls[c].together]_<<forumVars, calls>>
  BY DEF ForumIInv, ReadingIsFresh, MarkAnswered, At
<1> QED
  BY <1>1, ForumInitial, ForumStep, PTL DEF ForumSpec, SolvedStays

-----------------------------------------------------------------------------
(* Friend requests. *)

FriendCall ==
  [op : {"send", "accept", "reject", "remove"}, at : {"create", "accept", "reject", "remove"},
   user : Friends, id : Nat, together : BOOLEAN]

Row == [id : Nat, status : {"NONE", "PENDING", "ACCEPTED"}, together : BOOLEAN]

FriendTypeOK ==
  /\ rows \in Nat /\ request \in [Friends -> Row]
  /\ CallsIn(FriendCall)

\* A row has an identifier of its own, given when it was created, and a status.
RowsAreDistinct ==
  /\ \A s \in Friends : request[s].id <= rows /\ (Exists(s) <=> request[s].status # "NONE")
  /\ \A s, t \in Friends : Exists(s) /\ request[s].id = request[t].id => s = t

\* An answer on its way names a row that was there.
AnswersNameRows ==
  \A c \in Running : calls[c].at # "create" =>
    calls[c].id # 0 /\ calls[c].id <= rows /\ calls[c].op = calls[c].at

\* What a call that met no other looked for is still so: no request at all, or the
\* one it refuses still pending.
LooksStillHold ==
  \A c \in Running : ~calls[c].together =>
    /\ calls[c].at = "create" => ~Asked(calls[c].user)
    /\ calls[c].at = "reject" =>
         \A s \in SenderOf(calls[c].id) : request[s].status = "PENDING"

\* A row that is there before a request on its way is in met that request.
RowsMetTheRequest ==
  \A c \in Running : calls[c].at = "create" =>
    \A s \in Friends : Exists(s) => request[s].together

CrossedTogether ==
  \A s, t \in Friends : s # t /\ Exists(s) /\ Exists(t) => request[s].together /\ request[t].together

FriendsIInv ==
  /\ FriendTypeOK /\ Company
  /\ RowsAreDistinct /\ AnswersNameRows /\ LooksStillHold /\ RowsMetTheRequest
  /\ CrossedTogether

LEMMA FriendMeeting ==
  /\ MeetingOnly(FriendCall)
  /\ \A r \in FriendCall :
       /\ Accompanied(r).at = r.at /\ Accompanied(r).op = r.op /\ Accompanied(r).id = r.id
BY DEF FriendCall, Accompanied, MeetingOnly

LEMMA FriendsInitial == FriendsInit => FriendsIInv
BY DEF FriendsInit, FriendsIInv, FriendTypeOK, Row, RowsAreDistinct, AnswersNameRows,
       LooksStillHold, RowsMetTheRequest, CrossedTogether, Exists, Nobody, Company, CallsIn, NoCalls, Running

LEMMA FriendsEntered ==
  ASSUME FriendsIInv, NEW c \in CallIds, NEW call \in FriendCall, Enter(c, call),
         call.together = InCompany, UNCHANGED friendVars,
         \/ call.at = "create" /\ ~Asked(call.user)
         \/ /\ call.at # "create" /\ call.at = call.op /\ call.id # 0 /\ call.id <= rows
            /\ call.at = "reject" => \A s \in SenderOf(call.id) : request[s].status = "PENDING"
  PROVE  FriendsIInv'
<1>1. CallsIn(FriendCall)' /\ Company'
  BY CompanyEntered, FriendMeeting DEF FriendsIInv, FriendTypeOK
<1>2. calls'[c] = call
  BY Entered
<1>3. ASSUME NEW d \in Running', d # c
      PROVE  /\ d \in Running /\ calls'[d].together
             /\ calls'[d].at = calls[d].at /\ calls'[d].op = calls[d].op /\ calls'[d].id = calls[d].id
  <2>1. d \in CallIds /\ calls[d] \in FriendCall /\ calls[d] # Idle
        /\ calls'[d] = Accompanied(calls[d])
    BY <1>3, Entered DEF Running, CallsIn, FriendsIInv, FriendTypeOK
  <2> QED
    BY <2>1, FriendMeeting DEF MeetingOnly, Running
<1>4. AnswersNameRows'
  BY <1>2, <1>3 DEF AnswersNameRows, FriendsIInv, friendVars
<1>5. LooksStillHold'
  <2>1. UNCHANGED request
    BY DEF friendVars
  <2>2. ASSUME NEW d \in Running', ~calls'[d].together
        PROVE  d = c
    BY <1>3, <2>2
  <2> QED
    BY <1>2, <2>1, <2>2 DEF LooksStillHold, Asked, Exists, SenderOf
<1>6. RowsMetTheRequest'
  <2>1. UNCHANGED request
    BY DEF friendVars
  <2>2. CASE \E s \in Friends : Exists(s)
    BY <1>2, <1>3, <2>1, <2>2 DEF RowsMetTheRequest, FriendsIInv, Asked, Exists
  <2>3. CASE ~\E s \in Friends : Exists(s)
    BY <2>1, <2>3 DEF RowsMetTheRequest, Exists
  <2> QED
    BY <2>2, <2>3
<1> QED
  BY <1>1, <1>4, <1>5, <1>6
     DEF FriendsIInv, FriendTypeOK, RowsAreDistinct, CrossedTogether, Exists, friendVars

LEMMA FriendsStep == FriendsIInv /\ [FriendsNext]_<<friendVars, calls>> => FriendsIInv'
<1> SUFFICES ASSUME FriendsIInv, [FriendsNext]_<<friendVars, calls>>
             PROVE  FriendsIInv'
  OBVIOUS
<1>1. ASSUME NEW c \in CallIds, NEW u \in Friends, SendRequest(c, u)
      PROVE  FriendsIInv'
  <2> DEFINE call == [op |-> "send", at |-> "create", user |-> u, id |-> 0, together |-> InCompany]
  <2>1. call \in FriendCall /\ call.together = InCompany /\ call.at = "create" /\ call.user = u
    BY DEF FriendCall, InCompany
  <2>2. Enter(c, call) /\ UNCHANGED friendVars /\ ~Asked(u)
    BY <1>1 DEF SendRequest
  <2> HIDE DEF call
  <2> QED
    BY <2>1, <2>2, FriendsEntered
<1>2. ASSUME NEW c \in CallIds, NEW u \in Friends, NEW op \in {"accept", "reject", "remove"},
             NEW s \in Friends, Exists(s), op = "reject" => request[s].status = "PENDING",
             Enter(c, [op |-> op, at |-> op, user |-> u, id |-> request[s].id,
                       together |-> InCompany]),
             UNCHANGED friendVars
      PROVE  FriendsIInv'
  <2> DEFINE call == [op |-> op, at |-> op, user |-> u, id |-> request[s].id,
                      together |-> InCompany]
  <2>1. request[s].id \in Nat /\ request[s].id # 0 /\ request[s].id <= rows
    BY <1>2 DEF FriendsIInv, FriendTypeOK, Row, RowsAreDistinct, Exists
  <2>2. call \in FriendCall /\ call.together = InCompany /\ call.at = op /\ call.op = op
        /\ call.id = request[s].id
    BY <2>1 DEF FriendCall, InCompany
  <2>3. SenderOf(request[s].id) = {s}
    BY <1>2 DEF FriendsIInv, RowsAreDistinct, SenderOf
  <2>4. Enter(c, call)
    BY <1>2
  <2> HIDE DEF call
  <2> QED
    BY <1>2, <2>1, <2>2, <2>3, <2>4, FriendsEntered
<1>3. ASSUME NEW c \in CallIds, NEW u \in Friends,
             RemoveFriend(c, u) \/ \E op \in {"accept", "reject"} : Answer(c, op, u)
      PROVE  FriendsIInv'
  BY <1>2, <1>3 DEF RemoveFriend, Answer, MayAnswer
<1> USE DEF FriendsIInv, FriendTypeOK, Row, RowsAreDistinct, AnswersNameRows, LooksStillHold,
        RowsMetTheRequest, CrossedTogether, Exists, SenderOf, Asked, Company, CallsIn, FriendCall, At, Running,
        friendVars
<1>4. ASSUME NEW c \in CallIds, CreateRequest(c)
      PROVE  FriendsIInv'
  BY <1>4 DEF CreateRequest, Return
<1>5. ASSUME NEW c \in CallIds, Accept(c)
      PROVE  FriendsIInv'
  BY <1>5 DEF Accept, Return
<1>6. ASSUME NEW c \in CallIds, Delete(c)
      PROVE  FriendsIInv'
  BY <1>6 DEF Delete, Nobody, Return
<1>7. ASSUME NEW c \in CallIds, Throw(c), UNCHANGED friendVars
      PROVE  FriendsIInv'
  BY <1>7 DEF Throw, Return
<1>8. CASE CallsLost /\ UNCHANGED friendVars
  BY <1>8 DEF CallsLost, NoCalls
<1>9. CASE UNCHANGED <<friendVars, calls>>
  BY <1>9
<1> QED
  BY <1>1, <1>3, <1>4, <1>5, <1>6, <1>7, <1>8, <1>9 DEF FriendsNext

\* Two users have one request between them, unless each asked beside another call
\* (sendRequest).
THEOREM RequestIsOne == FriendsSpec => []OneRequestPerPair
<1>1. FriendsIInv => OneRequestPerPair
  BY FriendsAssumption DEF FriendsIInv, CrossedTogether, OneRequestPerPair
<1> QED
  BY <1>1, FriendsInitial, FriendsStep, PTL DEF FriendsSpec

\* A friendship ends by removeFriend alone, unless the refusal that ends it met
\* another call on its way.
THEOREM FriendshipEnds == FriendsSpec => FriendshipEndsByRemoval
<1>1. FriendsIInv /\ [FriendsNext]_<<friendVars, calls>> =>
        [\A c \in CallIds, s \in Friends :
           Delete(c) /\ request[s].status = "ACCEPTED" /\ request'[s].id = 0
             => calls[c].op = "remove" \/ calls[c].together]_<<friendVars, calls>>
  <2> SUFFICES ASSUME FriendsIInv, NEW c \in CallIds, NEW s \in Friends,
                      Delete(c), request[s].status = "ACCEPTED", request'[s].id = 0,
                      ~calls[c].together
               PROVE  calls[c].op = "remove"
    OBVIOUS
  <2>1. c \in Running /\ calls[c].at \in {"reject", "remove"} /\ calls[c].op = calls[c].at
    BY DEF Delete, At, FriendsIInv, AnswersNameRows
  <2>2. PICK t \in SenderOf(calls[c].id) : request' = [request EXCEPT ![t] = Nobody]
    BY DEF Delete
  <2>3. Exists(s) /\ t = s
    BY <2>2 DEF FriendsIInv, FriendTypeOK, Row, RowsAreDistinct, Exists, SenderOf
  <2> QED
    BY <2>1, <2>2, <2>3 DEF FriendsIInv, LooksStillHold
<1> QED
  BY <1>1, FriendsInitial, FriendsStep, PTL DEF FriendsSpec, FriendshipEndsByRemoval

=============================================================================
