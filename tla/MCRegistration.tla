--------------------------- MODULE MCRegistration ----------------------------
(* Instances of Registration for TLC: country code 9, numbers of 3 digits.  *)
EXTENDS Registration, TLC

CONSTANTS alice, bob, nobody

\* A local and an international spelling of one number, the number of
\* another, and digits that are no number.
MCSubscriber == (<<0, 3, 1>> :> alice) @@ (<<9, 3, 1>> :> alice)
             @@ (<<0, 3, 2>> :> bob) @@ (<<3>> :> nobody)
MCSpelling == DOMAIN MCSubscriber
MCCountryCode == <<9>>

Symmetry == Permutations(Registration) \cup Permutations(Card)
=============================================================================
