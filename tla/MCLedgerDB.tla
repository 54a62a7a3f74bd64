----------------------------- MODULE MCLedgerDB -----------------------------
(* Instances of LedgerDB for TLC: two wallets, two concurrent requests.    *)
EXTENDS LedgerDB, TLC

CONSTANTS s1, s2, w1, w2, funding, r1, r2, r3

P(r, d, c, n, k) == [rrn |-> r, debit |-> d, credit |-> c, amount |-> n, kind |-> k]

TopUp == P(r1, funding, w1, 2, "topup")
Pay   == P(r2, w1, w2, 1, "purchase")
Again == P(r3, w1, w2, 2, "purchase")   \* competes with Pay for the balance
Back  == P(r2, w2, w1, 1, "transfer")   \* another payment under Pay's RRN, which
                                        \* locks Again's accounts in the other order

MCRequest == {TopUp, Pay, Again, Back}

\* A call that a client made is answered: lock waits, RRN conflicts and
\* deadlocks between opposite transfers always end.
Waiting(s) == pc[s] \notin {"idle"} \cup Answers
EveryCallIsAnswered == \A s \in Session : Waiting(s) ~> ~Waiting(s)

Symmetry == Permutations(Session)
=============================================================================
