------------------------------- MODULE MCSaga -------------------------------
(* Instances of Saga for TLC: one funded wallet, two concurrent requests.  *)
EXTENDS Saga, TLC

CONSTANTS c1, c2, alice, shop, funding, r0, r1, r2, r3, ann, bob

MCOwner == (alice :> ann) @@ (shop :> bob)
MCDeposit == [rrn |-> r0, debit |-> funding, credit |-> alice, amount |-> 2,
              kind |-> "topup"]

J(k, u, d, c, n) == [kind |-> k, user |-> u, debit |-> d, credit |-> c, amount |-> n]

Purchase == J("purchase", ann, alice, shop, 1)
PayAll   == J("purchase", ann, alice, shop, 2)   \* two of these do not fit
Stolen   == J("transfer", bob, alice, shop, 1)   \* not the caller's card
ToSelf   == J("transfer", ann, alice, alice, 1)
Topup    == J("topup", bob, funding, shop, 2)

MCJob == {Purchase, PayAll, Stolen, ToSelf, Topup}
ReplayJob == {PayAll}
=============================================================================
