------------------------------- MODULE Ledger -------------------------------
(***************************************************************************)
(* What the ledger promises its callers: a set of postings, at most one    *)
(* per reference number (RRN), each applied to the balances in one step,   *)
(* and never a wallet below zero.  The statement-by-statement behaviour of *)
(* the service is LedgerDB, which is checked and proved to implement this. *)
(***************************************************************************)
EXTENDS Integers

CONSTANTS Wallet,   \* customer and merchant accounts, type 'wallet'
          Funding,  \* acc_system_funding, the one account of type 'system'
          Request   \* the postings callers ask for

VARIABLES posted,   \* the postings in the books
          balance   \* credits minus debits of every account

vars == <<posted, balance>>

Account == Wallet \cup {Funding}

Init == /\ posted = {}
        /\ balance = [a \in Account |-> 0]

\* The RRN is the primary key of the transactions table.
Fresh(p) == \A q \in posted : q.rrn # p.rrn

\* System accounts are exempt from the solvency rule.
Covered(p) == p.debit = Funding \/ balance[p.debit] >= p.amount

\* One balanced journal entry: the debit and the credit land together.
Post(p) ==
    /\ Fresh(p)
    /\ Covered(p)
    /\ posted' = posted \cup {p}
    /\ balance' = [balance EXCEPT ![p.debit] = @ - p.amount,
                                  ![p.credit] = @ + p.amount]

\* The sandbox reset and purge empty the books in one step.
Wipe == /\ posted' = {}
        /\ balance' = [a \in Account |-> 0]

Next == Wipe \/ \E p \in Request : Post(p)

Spec == Init /\ [][Next]_vars
=============================================================================
