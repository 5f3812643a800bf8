---------------------------- MODULE Memberships ----------------------------
(***************************************************************************)
(* Memberships: a promotion code, the payment webhook and the nightly expiry *)
(* (api/src/subscriptions/subscriptions.service.ts, expireSubscriptions of   *)
(* tasks/tasks.service.ts).                                                 *)
(***************************************************************************)
EXTENDS Calls

CONSTANTS Members, MaxUses

ASSUME UsesAssumption == MaxUses \in Nat

VARIABLES
  membership,  \* Subscription.status of each user
  used,        \* PromoCode.usedCount
  redeemed     \* PromoCodeRedemption: its users (a unique index)

memberVars == <<membership, used, redeemed>>

MembershipInit ==
  /\ membership = [u \in Members |-> "NONE"]
  /\ used = 0 /\ redeemed = {}
  /\ calls = NoCalls

\* applyPromoCode looks at three rows, one after the other.
ApplyPromoCode(c, u) ==
  /\ membership[u] # "ACTIVE"
  /\ Enter(c, [at |-> "redemption", user |-> u, together |-> InCompany])
  /\ UNCHANGED memberVars

CheckRedemption(c) ==
  /\ At(c, "redemption") /\ calls[c].user \notin redeemed
  /\ GoOn(c, "promo") /\ UNCHANGED memberVars

\* A mutated form of UsesLeft: one use too many.
OneMoreUse == used <= MaxUses
UsesLeft == used < MaxUses

CheckPromo(c) ==
  /\ At(c, "promo") /\ UsesLeft
  /\ GoOn(c, "apply") /\ UNCHANGED memberVars

\* A mutated form of Redeem: the use is counted before the redemption is refused.
RedeemApart(u) ==
  /\ used' = used + 1
  /\ redeemed' = redeemed \cup {u}
  /\ membership' = [membership EXCEPT ![u] = "ACTIVE"]

\* The transaction: membership, use and redemption, or, the redemption refused by
\* its index, nothing.
Redeem(u) ==
  /\ u \notin redeemed
  /\ used' = used + 1
  /\ redeemed' = redeemed \cup {u}
  /\ membership' = [membership EXCEPT ![u] = "ACTIVE"]

Apply(c) == At(c, "apply") /\ Redeem(calls[c].user) /\ Return(c)

\* checkout.session.completed, delivered again at will by the payment service.
StripeWebhook(u) ==
  /\ membership' = [membership EXCEPT ![u] = "ACTIVE"]
  /\ calls' = Met /\ UNCHANGED <<used, redeemed>>

\* The year is over and the nightly task runs.
ExpireSubscription(u) ==
  /\ membership[u] = "ACTIVE"
  /\ membership' = [membership EXCEPT ![u] = "EXPIRED"]
  /\ UNCHANGED <<used, redeemed, calls>>

MembershipNext ==
  \/ \E c \in CallIds :
       \/ \E u \in Members : ApplyPromoCode(c, u)
       \/ CheckRedemption(c) \/ CheckPromo(c) \/ Apply(c)
       \/ Throw(c) /\ UNCHANGED memberVars
  \/ \E u \in Members : StripeWebhook(u) \/ ExpireSubscription(u)
  \/ CallsLost /\ UNCHANGED memberVars

MembershipSpec == MembershipInit /\ [][MembershipNext]_<<memberVars, calls>>

\* The code is used as often as it was redeemed, once per user: a second
\* redemption on its way, or a failure, counts for nothing.
UsesAreRedemptions == used = Cardinality(redeemed)

\* A code is applied beyond its uses, or over a membership in force, only by a call
\* that met another on its way.
AppliedOverOnlyTogether ==
  [][\A c \in CallIds :
       Apply(c) /\ (used >= MaxUses \/ membership[calls[c].user] = "ACTIVE")
         => calls[c].together]_<<memberVars, calls>>
=============================================================================
