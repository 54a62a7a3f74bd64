----------------------------- MODULE MCRiskCheck -----------------------------
(* Three payments with one card, two replicas.  Cards share nothing.        *)
EXTENDS RiskCheck, TLC

CONSTANTS c1, c2, c3, card

MCCardOf == [c \in Call |-> card]

\* One that no rule but velocity objects to; one that two rules object to.
MCRequest == {[amount |-> 1, entry |-> "05"], [amount |-> 5, entry |-> "01"]}

Symmetry == Permutations({c1, c2, c3})
=============================================================================
