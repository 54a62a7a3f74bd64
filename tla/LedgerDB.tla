------------------------------ MODULE LedgerDB ------------------------------
(***************************************************************************)
(* The ledger service over its database, one action per SQL statement:     *)
(* ledger-service/app/repository.py run by concurrent requests on          *)
(* PostgreSQL (READ COMMITTED, row locks) or SQLite (one writer).          *)
(* `posted', `balance' and `accounts' are the COMMITTED rows; what an open *)
(* transaction has written is implied by its program counter.              *)
(***************************************************************************)
EXTENDS Integers, FiniteSets

CONSTANTS
    Dialect,      \* "postgres" or "sqlite"
    Maintenance,  \* the wipes operators may run: a subset of {"reset", "purge"}
    Faults,       \* the infrastructure faults considered, see FaultKind
    Session,      \* requests being served, each on a connection of its own
    Operator,     \* the request that runs the wipes (one at a time)
    Wallet,       \* account ids of type 'wallet'
    Opened,       \* the wallets that exist when the service starts
    Funding,      \* acc_system_funding, the account of type 'system'
    Rrn, Kind,    \* reference numbers and kinds of posting
    Request,      \* the postings callers may ask for
    None          \* "no process", "no request"

Account == Wallet \cup {Funding}
Process == Session \cup {Operator}
Posting == [rrn : Rrn, debit : Account, credit : Account,
            amount : Nat \ {0}, kind : Kind]
FaultKind == {"connection_lost", "commit_unacknowledged", "details_unreadable"}

ASSUME ConstantsAssumption ==
    /\ Dialect \in {"postgres", "sqlite"}
    /\ Maintenance \subseteq {"reset", "purge"}
    /\ Faults \subseteq FaultKind
    /\ Operator \notin Session
    /\ Opened \subseteq Wallet
    /\ Funding \notin Wallet
    /\ Request \subseteq Posting
    /\ None \notin Process \cup Request

VARIABLES
    accounts,   \* committed rows of accounts
    posted,     \* committed transactions with their two ledger entries
    balance,    \* SUM over the committed ledger entries, per account
    pc, req,    \* per session: statement it is about to run, posting it carries
    forUpdate,  \* per account row: the process holding FOR UPDATE, or None
    keyShare,   \* per account row: the processes holding FOR KEY SHARE
    opPc, wipe, \* the operator's statement, and which wipe it runs
    counted,    \* the operator's SELECT COUNT(*) FROM transactions
    doomed,     \* postings whose entries the operator's DELETE removed
    sums        \* what those entries added up to, per account

postingVars == <<pc, req>>
operatorVars == <<opPc, wipe, counted, doomed, sums>>
tables == <<accounts, posted, balance>>
locks == <<forUpdate, keyShare>>
vars == <<accounts, posted, balance, pc, req, forUpdate, keyShare,
          opPc, wipe, counted, doomed, sums>>

InTransactionPc == {"solvency", "readBalance", "insertTransaction",
                    "insertDebit", "insertCredit", "commit"}
Answers == {"recorded", "already_recorded", "collision", "insufficient",
            "rejected"}
SessionPc == {"idle", "begin", "details"} \cup InTransactionPc \cup Answers
OperatorPc == {"idle", "begin", "count", "deleteEntries",
               "deleteTransactions", "deleteAccounts", "commit", "ensure"}

Zero == [a \in Account |-> 0]

Init ==
    /\ accounts = Opened \cup {Funding}
    /\ posted = {}
    /\ balance = Zero
    /\ pc = [s \in Session |-> "idle"]
    /\ req = [s \in Session |-> None]
    /\ forUpdate = [a \in Account |-> None]
    /\ keyShare = [a \in Account |-> {}]
    /\ opPc = "idle" /\ wipe = "reset" /\ counted = 0
    /\ doomed = {} /\ sums = Zero

-----------------------------------------------------------------------------
(* Locks.                                                                  *)

InTransaction(p) ==
    IF p = Operator THEN opPc \notin {"idle", "begin", "ensure"}
                    ELSE pc[p] \in InTransactionPc

\* SQLite: BEGIN IMMEDIATE takes the database's only write lock.
WriterActive == Dialect = "sqlite" /\ \E p \in Process : InTransaction(p)

ForUpdateFree(a, p) == forUpdate[a] = None /\ keyShare[a] \subseteq {p}
KeyShareFree(a, p) == forUpdate[a] \in {None, p}

TakeForUpdate(a, p) ==
    /\ forUpdate' = [forUpdate EXCEPT ![a] = p]
    /\ UNCHANGED keyShare

TakeKeyShare(a, p) ==
    /\ keyShare' = [keyShare EXCEPT ![a] = @ \cup {p}]
    /\ UNCHANGED forUpdate

ReleaseLocks(p) ==
    /\ forUpdate' = [a \in Account |-> IF forUpdate[a] = p THEN None
                                                           ELSE forUpdate[a]]
    /\ keyShare' = [a \in Account |-> keyShare[a] \ {p}]

\* Sessions whose INSERT INTO transactions is not committed yet.
Inserted(s) == pc[s] \in {"insertDebit", "insertCredit", "commit"}

\* An RRN is in doubt while the transaction that inserted or deleted its row
\* is open: a second INSERT of it waits for that transaction to end.
InsertersOf(s) == {t \in Session \ {s} : Inserted(t) /\ req[t].rrn = req[s].rrn}
BeingDeleted(s) ==
    /\ opPc \in {"deleteAccounts", "commit"}
    /\ \E q \in doomed : q.rrn = req[s].rrn

-----------------------------------------------------------------------------
(* record_posting, one call per session at a time.                         *)

Goto(s, label) == pc' = [pc EXCEPT ![s] = label]

\* Bug: the request is served without its posting.
Call_Empty(s, p) ==
    /\ pc[s] = "idle"
    /\ Goto(s, "begin")
    /\ UNCHANGED <<req, tables, locks, operatorVars>>

\* A request arrives: /internal/ledger/postings or /internal/ledger/topup.
Call(s, p) ==
    /\ pc[s] = "idle"
    /\ Goto(s, "begin")
    /\ req' = [req EXCEPT ![s] = p]
    /\ UNCHANGED <<tables, locks, operatorVars>>

\* The answer leaves, the session serves the next request.
Return(s) ==
    /\ pc[s] \in Answers
    /\ Goto(s, "idle")
    /\ req' = [req EXCEPT ![s] = None]
    /\ UNCHANGED <<tables, locks, operatorVars>>

\* Bug: a plain BEGIN, which takes no lock before the first write.
Begin_Deferred(s) ==
    /\ pc[s] = "begin"
    /\ Goto(s, "solvency")
    /\ UNCHANGED <<req, tables, locks, operatorVars>>

Begin(s) ==
    /\ pc[s] = "begin"
    /\ ~WriterActive
    /\ Goto(s, "solvency")
    /\ UNCHANGED <<req, tables, locks, operatorVars>>

\* SQLite gives up on a busy database after 15 seconds.
WriteLockTimeout(s) ==
    /\ pc[s] = "begin"
    /\ WriterActive
    /\ Goto(s, "rejected")
    /\ UNCHANGED <<req, tables, locks, operatorVars>>

\* Bug: the account row is read without FOR UPDATE.
SelectDebitAccount_NoLock(s) ==
    /\ pc[s] = "solvency"
    /\ Goto(s, IF req[s].debit \in accounts /\ req[s].debit # Funding
                 THEN "readBalance" ELSE "insertTransaction")
    /\ UNCHANGED <<req, tables, locks, operatorVars>>

\* _assert_solvent: SELECT type FROM accounts, FOR UPDATE on PostgreSQL.
\* A missing account is left to the foreign key, a system account is exempt.
SelectDebitAccount(s) ==
    LET debit == req[s].debit IN
    /\ pc[s] = "solvency"
    /\ Goto(s, IF debit \in accounts /\ debit # Funding
                 THEN "readBalance" ELSE "insertTransaction")
    /\ IF Dialect = "postgres" /\ debit \in accounts
         THEN ForUpdateFree(debit, s) /\ TakeForUpdate(debit, s)
         ELSE UNCHANGED locks
    /\ UNCHANGED <<req, tables, operatorVars>>

\* Bug: the connection goes back to a pool with its transaction still open.
Rollback_Forgotten(s, label) ==
    /\ Goto(s, label)
    /\ UNCHANGED <<req, tables, locks, operatorVars>>

\* Every exception leaves `with transaction()' through a rollback.
Rollback(s, label) ==
    /\ Goto(s, label)
    /\ ReleaseLocks(s)
    /\ UNCHANGED <<req, tables, operatorVars>>

\* The SELECT SUM(...) that follows sees what is committed by now.
ReadBalance(s) ==
    /\ pc[s] = "readBalance"
    /\ IF balance[req[s].debit] - req[s].amount < 0
         THEN Rollback(s, "insufficient")
         ELSE /\ Goto(s, "insertTransaction")
              /\ UNCHANGED <<req, tables, locks, operatorVars>>

\* Bug: no PRIMARY KEY on transactions.rrn.
InsertTransaction_NoKey(s) ==
    /\ pc[s] = "insertTransaction"
    /\ Goto(s, "insertDebit")
    /\ UNCHANGED <<req, tables, locks, operatorVars>>

\* INSERT INTO transactions: waits while the RRN is in doubt, fails with a
\* unique violation when it is taken.
InsertTransaction(s) ==
    /\ pc[s] = "insertTransaction"
    /\ InsertersOf(s) = {} /\ ~BeingDeleted(s)
    /\ IF \E q \in posted : q.rrn = req[s].rrn
         THEN Rollback(s, "details")
         ELSE /\ Goto(s, "insertDebit")
              /\ UNCHANGED <<req, tables, locks, operatorVars>>

\* INSERT INTO ledger_entries: the foreign key rejects a missing account and
\* takes FOR KEY SHARE on an existing one.
InsertEntry(s, account, label) ==
    IF account \notin accounts
      THEN Rollback(s, "rejected")
      ELSE /\ Goto(s, label)
           /\ IF Dialect = "postgres"
                THEN KeyShareFree(account, s) /\ TakeKeyShare(account, s)
                ELSE UNCHANGED locks
           /\ UNCHANGED <<req, tables, operatorVars>>

InsertDebit(s) == pc[s] = "insertDebit" /\ InsertEntry(s, req[s].debit, "insertCredit")
InsertCredit(s) == pc[s] = "insertCredit" /\ InsertEntry(s, req[s].credit, "commit")

\* Bug: only the debit entry is written.
Apply_OneSided(p) == [balance EXCEPT ![p.debit] = @ - p.amount]

Apply(p) == [balance EXCEPT ![p.debit] = @ - p.amount,
                            ![p.credit] = @ + p.amount]

CommitAs(s, label) ==
    /\ pc[s] = "commit"
    /\ posted' = posted \cup {req[s]}
    /\ balance' = Apply(req[s])
    /\ Goto(s, label)
    /\ ReleaseLocks(s)
    /\ UNCHANGED <<req, accounts, operatorVars>>

Commit(s) == CommitAs(s, "recorded")

\* The COMMIT takes effect and its acknowledgement is lost: the driver raises
\* and the route turns it into a 422 like every other exception.
CommitUnacknowledged(s) ==
    "commit_unacknowledged" \in Faults /\ CommitAs(s, "rejected")

\* Bug: a taken RRN is always called a replay.
ReadDetails_AnyReplay(s) ==
    /\ pc[s] = "details"
    /\ Goto(s, "already_recorded")
    /\ UNCHANGED <<req, tables, locks, operatorVars>>

\* _posting_details, read back on another connection after the rollback.
ReadDetails(s) ==
    /\ pc[s] = "details"
    /\ Goto(s, IF \E q \in posted : q.rrn = req[s].rrn /\ q # req[s]
                 THEN "collision" ELSE "already_recorded")
    /\ UNCHANGED <<req, tables, locks, operatorVars>>

\* The read fails: None, which the caller treats as a replay.
DetailsUnreadable(s) ==
    /\ "details_unreadable" \in Faults
    /\ pc[s] = "details"
    /\ Goto(s, "already_recorded")
    /\ UNCHANGED <<req, tables, locks, operatorVars>>

\* The connection drops inside the transaction: rolled back, answered 422.
ConnectionLost(s) ==
    /\ "connection_lost" \in Faults
    /\ InTransaction(s)
    /\ Rollback(s, "rejected")

-----------------------------------------------------------------------------
(* reset and purge.                                                        *)

OperatorGoto(label) == opPc' = label

\* Back to nothing held: the transaction rolls back, the route answers 500.
OperatorRollback ==
    /\ OperatorGoto("idle")
    /\ counted' = 0 /\ doomed' = {} /\ sums' = Zero
    /\ ReleaseLocks(Operator)
    /\ UNCHANGED <<tables, postingVars, wipe>>

StartWipe(kind) ==
    /\ opPc = "idle"
    /\ kind \in Maintenance
    /\ wipe' = kind
    /\ OperatorGoto("begin")
    /\ UNCHANGED <<tables, locks, postingVars, counted, doomed, sums>>

\* Bug: a plain BEGIN, which takes no lock before the first DELETE.
BeginWipe_Deferred ==
    /\ opPc = "begin"
    /\ OperatorGoto("count")
    /\ UNCHANGED <<tables, locks, postingVars, wipe, counted, doomed, sums>>

BeginWipe ==
    /\ opPc = "begin"
    /\ ~WriterActive
    /\ OperatorGoto("count")
    /\ UNCHANGED <<tables, locks, postingVars, wipe, counted, doomed, sums>>

\* SQLite gives up on a busy database after 15 seconds.
WipeLockTimeout ==
    /\ opPc \in {"begin", "ensure"}
    /\ WriterActive
    /\ OperatorRollback

CountRows ==
    /\ opPc = "count"
    /\ counted' = Cardinality(posted)
    /\ OperatorGoto("deleteEntries")
    /\ UNCHANGED <<tables, locks, postingVars, wipe, doomed, sums>>

\* DELETE FROM ledger_entries: every entry committed by now.
DeleteEntries ==
    /\ opPc = "deleteEntries"
    /\ doomed' = posted
    /\ sums' = balance
    /\ OperatorGoto("deleteTransactions")
    /\ UNCHANGED <<tables, locks, postingVars, wipe, counted>>

\* DELETE FROM transactions: the foreign key of ledger_entries fails the
\* statement when a posting was committed since its entries were deleted.
DeleteTransactions ==
    /\ opPc = "deleteTransactions"
    /\ IF posted # doomed
         THEN OperatorRollback
         ELSE /\ OperatorGoto(IF wipe = "purge" THEN "deleteAccounts" ELSE "commit")
              /\ UNCHANGED <<tables, locks, postingVars, wipe, counted, doomed, sums>>

\* DELETE FROM accounts (PostgreSQL) locks the rows one after another ...
LockAccount(a) ==
    /\ opPc = "deleteAccounts" /\ Dialect = "postgres"
    /\ a \in accounts /\ forUpdate[a] # Operator
    /\ ForUpdateFree(a, Operator)
    /\ TakeForUpdate(a, Operator)
    /\ UNCHANGED <<tables, postingVars, operatorVars>>

AccountsLocked == Dialect = "sqlite" \/ \A a \in accounts : forUpdate[a] = Operator

\* Bug: ledger_entries.account_id does not reference accounts.
DeleteAccounts_NoForeignKey ==
    /\ opPc = "deleteAccounts"
    /\ AccountsLocked
    /\ OperatorGoto("commit")
    /\ UNCHANGED <<tables, locks, postingVars, wipe, counted, doomed, sums>>

\* ... and fails when an entry still refers to one of them.
DeleteAccounts ==
    /\ opPc = "deleteAccounts"
    /\ AccountsLocked
    /\ IF posted # doomed
         THEN OperatorRollback
         ELSE /\ OperatorGoto("commit")
              /\ UNCHANGED <<tables, locks, postingVars, wipe, counted, doomed, sums>>

CommitWipe ==
    /\ opPc = "commit"
    /\ posted' = posted \ doomed
    /\ balance' = [a \in Account |-> balance[a] - sums[a]]
    /\ accounts' = IF wipe = "purge" THEN {} ELSE accounts
    /\ counted' = 0 /\ doomed' = {} /\ sums' = Zero
    /\ OperatorGoto("ensure")
    /\ ReleaseLocks(Operator)
    /\ UNCHANGED <<postingVars, wipe>>

\* ensure_system_accounts, in a transaction of its own.  When it fails (below,
\* and WipeLockTimeout), the wipe stays and the funding account is missing.
EnsureSystemAccounts ==
    /\ opPc = "ensure"
    /\ ~WriterActive
    /\ accounts' = accounts \cup {Funding}
    /\ OperatorGoto("idle")
    /\ UNCHANGED <<posted, balance, locks, postingVars, wipe, counted, doomed, sums>>

OperatorConnectionLost ==
    /\ "connection_lost" \in Faults
    /\ InTransaction(Operator) \/ opPc = "ensure"
    /\ OperatorRollback

-----------------------------------------------------------------------------
(* PostgreSQL's deadlock detector: a process waiting in a cycle is made to *)
(* fail, and its transaction rolls back like after any other exception.    *)

RowHolders(a) == (keyShare[a] \cup {forUpdate[a]}) \ {None}

BlockersOf(p) ==
    CASE p = Operator ->
           IF opPc = "deleteAccounts"
             THEN UNION {RowHolders(a) : a \in accounts} \ {p} ELSE {}
      [] p # Operator /\ pc[p] = "solvency" ->
           IF req[p].debit \in accounts THEN RowHolders(req[p].debit) \ {p} ELSE {}
      [] p # Operator /\ pc[p] = "insertTransaction" ->
           InsertersOf(p) \cup (IF BeingDeleted(p) THEN {Operator} ELSE {})
      [] p # Operator /\ pc[p] = "insertDebit" -> {forUpdate[req[p].debit]} \ {None, p}
      [] p # Operator /\ pc[p] = "insertCredit" -> {forUpdate[req[p].credit]} \ {None, p}
      [] OTHER -> {}

Deadlocked(p) ==
    /\ Dialect = "postgres"
    /\ BlockersOf(p) # {}
    /\ \E n \in 1..Cardinality(Process) : \E path \in [0..n -> Process] :
          /\ path[0] = p /\ path[n] = p
          /\ \A i \in 1..n : path[i] \in BlockersOf(path[i - 1])

DeadlockAbort(s) == Deadlocked(s) /\ Rollback(s, "rejected")
DeadlockAbortWipe == Deadlocked(Operator) /\ OperatorRollback

-----------------------------------------------------------------------------
Proceed(s) ==
    \/ SelectDebitAccount(s) \/ ReadBalance(s) \/ InsertTransaction(s)
    \/ InsertDebit(s) \/ InsertCredit(s) \/ Commit(s) \/ ReadDetails(s)

ServePosting(s) ==
    \/ \E p \in Request : Call(s, p)
    \/ Begin(s) \/ WriteLockTimeout(s) \/ Proceed(s) \/ Return(s)
    \/ CommitUnacknowledged(s) \/ DetailsUnreadable(s)
    \/ ConnectionLost(s) \/ DeadlockAbort(s)

RunWipe ==
    \/ \E kind \in {"reset", "purge"} : StartWipe(kind)
    \/ BeginWipe \/ WipeLockTimeout \/ CountRows \/ DeleteEntries
    \/ DeleteTransactions \/ \E a \in Account : LockAccount(a)
    \/ DeleteAccounts \/ CommitWipe \/ EnsureSystemAccounts
    \/ OperatorConnectionLost \/ DeadlockAbortWipe

Next == RunWipe \/ \E s \in Session : ServePosting(s)

Spec == Init /\ [][Next]_vars

\* Server threads run (weak fairness), PostgreSQL queues lock waiters first
\* come first served (strong fairness of the statements that wait) and its
\* detector breaks every deadlock.  Nothing obliges a client to call.
Fairness ==
    /\ \A s \in Session :
         /\ WF_vars(Begin(s) \/ WriteLockTimeout(s))
         /\ SF_vars(Proceed(s))
         /\ WF_vars(DeadlockAbort(s))
    /\ WF_vars(BeginWipe \/ WipeLockTimeout)
    /\ WF_vars(CountRows \/ DeleteEntries \/ DeleteTransactions
               \/ DeleteAccounts \/ CommitWipe \/ EnsureSystemAccounts)
    /\ \A a \in Account : SF_vars(LockAccount(a))
    /\ WF_vars(DeadlockAbortWipe)

FairSpec == Spec /\ Fairness

-----------------------------------------------------------------------------
(* Properties.                                                             *)

TypeOK ==
    /\ accounts \subseteq Account
    /\ posted \subseteq Request /\ IsFiniteSet(posted)
    /\ balance \in [Account -> Int]
    /\ pc \in [Session -> SessionPc]
    /\ req \in [Session -> Request \cup {None}]
    /\ \A s \in Session : pc[s] # "idle" => req[s] \in Request
    /\ forUpdate \in [Account -> Process \cup {None}]
    /\ keyShare \in [Account -> SUBSET Session]
    /\ opPc \in OperatorPc
    /\ wipe \in {"reset", "purge"}
    /\ counted \in Nat
    /\ doomed \subseteq Request
    /\ sums \in [Account -> Int]

\* A reference number names one posting: two concurrent INSERTs of an RRN
\* never both commit (PRIMARY KEY of transactions, RrnCollision).
UniqueRrn == \A p, q \in posted : p.rrn = q.rrn => p = q

\* No wallet is ever overdrawn, however concurrent debits, top-ups and wipes
\* interleave (_assert_solvent inside the posting's transaction).
Solvent == \A w \in Wallet : balance[w] >= 0

\* A caller told "recorded" or "already_recorded" finds its own posting in the
\* books, never another one that took the same RRN and never none, unless a
\* purge has emptied the service since (record_posting).
Purged == ~ Opened \subseteq accounts
SuccessIsRecorded ==
    \A s \in Session :
        pc[s] \in {"recorded", "already_recorded"} => req[s] \in posted \/ Purged

\* The counts a wipe reports are the rows it removed, postings racing it or
\* not (reset, purge).
WipeReportsWhatItRemoved ==
    [][opPc = "commit" /\ opPc' = "ensure"
         => counted = Cardinality(posted) - Cardinality(posted')]_vars

\* The statements implement the atomic ledger: an RRN is posted once, in one
\* step, covered at that step, and a wipe removes everything or nothing.
Abstract == INSTANCE Ledger
LedgerSpec == Abstract!Spec

=============================================================================
