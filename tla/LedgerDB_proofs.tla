--------------------------- MODULE LedgerDB_proofs ---------------------------
(***************************************************************************)
(* Theorems about LedgerDB for any number of sessions, accounts, RRNs and  *)
(* postings.                                                               *)
(***************************************************************************)
EXTENDS LedgerDB, TLAPS, FiniteSetTheorems

-----------------------------------------------------------------------------
(* Types.                                                                  *)

LEMMA TypeInit == Init => TypeOK
BY ConstantsAssumption, FS_EmptySet DEF Init, TypeOK, Zero, SessionPc, OperatorPc, Account, Process

LEMMA TypeNext == ASSUME TypeOK, [Next]_vars PROVE TypeOK'
<1> USE ConstantsAssumption DEF TypeOK, Goto, tables, locks, operatorVars, postingVars
<1>1. ASSUME NEW s \in Session, NEW label \in SessionPc \ {"idle"}, req[s] \in Request,
             Rollback(s, label)
      PROVE  TypeOK'
  BY <1>1 DEF Rollback, ReleaseLocks
<1>2. ASSUME OperatorRollback PROVE TypeOK'
  BY <1>2 DEF OperatorRollback, OperatorGoto, OperatorPc, ReleaseLocks, Zero
<1>3. ASSUME NEW s \in Session, NEW label \in SessionPc \ {"idle"}, req[s] \in Request, Goto(s, label),
             UNCHANGED <<req, tables, operatorVars>>,
             \/ UNCHANGED locks
             \/ \E a \in Account : TakeForUpdate(a, s) \/ TakeKeyShare(a, s)
      PROVE  TypeOK'
  BY <1>3 DEF TakeForUpdate, TakeKeyShare, Process
<1>4. ASSUME NEW s \in Session, ServePosting(s) PROVE TypeOK'
  <2>1. pc[s] # "idle" => req[s] \in Request
    OBVIOUS
  <2>2. ASSUME NEW p \in Request, Call(s, p) PROVE TypeOK'
    BY <2>2 DEF Call, SessionPc
  <2>3. CASE Return(s)
    BY <2>3 DEF Return, SessionPc
  <2>4. CASE Begin(s) \/ WriteLockTimeout(s)
    BY <2>1, <2>4, <1>3 DEF Begin, WriteLockTimeout, SessionPc, InTransactionPc, Answers
  <2>5. CASE SelectDebitAccount(s)
    <3>1. pc[s] = "solvency" /\ req[s] \in Request /\ req[s].debit \in Account
      BY <2>5 DEF SelectDebitAccount, Posting
    <3>2. PICK label \in {"readBalance", "insertTransaction"} : Goto(s, label)
      BY <2>5 DEF SelectDebitAccount
    <3>3. label \in SessionPc \ {"idle"}
      BY DEF SessionPc, InTransactionPc
    <3>4. \/ UNCHANGED locks
          \/ \E a \in Account : TakeForUpdate(a, s) \/ TakeKeyShare(a, s)
      BY <2>5, <3>1 DEF SelectDebitAccount
    <3>. QED  BY <2>5, <3>1, <3>2, <3>3, <3>4, <1>3 DEF SelectDebitAccount
  <2>6. CASE ReadBalance(s)
    BY <2>1, <2>6, <1>1, <1>3 DEF ReadBalance, SessionPc, InTransactionPc, Answers
  <2>7. CASE InsertTransaction(s)
    BY <2>1, <2>7, <1>1, <1>3 DEF InsertTransaction, SessionPc, InTransactionPc, Answers
  <2>8. CASE InsertDebit(s) \/ InsertCredit(s)
    <3>1. req[s] \in Request /\ req[s].debit \in Account /\ req[s].credit \in Account
      BY <2>8 DEF InsertDebit, InsertCredit, Posting
    <3>2. PICK a \in Account, label \in {"insertCredit", "commit"} : InsertEntry(s, a, label)
      BY <2>8, <3>1 DEF InsertDebit, InsertCredit
    <3>3. label \in SessionPc \ {"idle"} /\ "rejected" \in SessionPc \ {"idle"}
      BY DEF SessionPc, InTransactionPc, Answers
    <3>4. CASE a \notin accounts
      BY <3>1, <3>2, <3>3, <3>4, <1>1 DEF InsertEntry
    <3>5. CASE a \in accounts
      BY <3>1, <3>2, <3>3, <3>5, <1>3 DEF InsertEntry
    <3>. QED  BY <3>4, <3>5
  <2>9. ASSUME NEW label \in {"recorded", "rejected"}, CommitAs(s, label) PROVE TypeOK'
    <3>1. req[s] \in Request /\ req[s] \in Posting
      BY <2>9 DEF CommitAs
    <3>2. Apply(req[s]) \in [Account -> Int]
      BY <3>1 DEF Apply, Posting
    <3>3. label \in SessionPc \ {"idle"}
      BY DEF SessionPc, Answers
    <3>4. IsFiniteSet(posted \cup {req[s]})
      BY FS_AddElement
    <3>. QED  BY <2>9, <3>1, <3>2, <3>3, <3>4 DEF CommitAs, ReleaseLocks
  <2>10. CASE ReadDetails(s) \/ DetailsUnreadable(s)
    BY <2>1, <2>10, <1>3 DEF ReadDetails, DetailsUnreadable, SessionPc, Answers
  <2>11. CASE ConnectionLost(s)
    BY <2>1, <2>11, <1>1 DEF ConnectionLost, InTransaction, InTransactionPc, SessionPc, Answers
  <2>12. CASE DeadlockAbort(s)
    <3>1. BlockersOf(s) # {}
      BY <2>12 DEF DeadlockAbort, Deadlocked
    <3>2. pc[s] # "idle"
      BY <3>1 DEF BlockersOf
    <3>. QED  BY <2>1, <2>12, <3>2, <1>1 DEF DeadlockAbort, SessionPc, Answers
  <2>. QED  BY <1>4, <2>2, <2>3, <2>4, <2>5, <2>6, <2>7, <2>8, <2>9, <2>10, <2>11, <2>12
            DEF ServePosting, Proceed, Commit, CommitUnacknowledged
<1>5. ASSUME RunWipe PROVE TypeOK'
  <2>1. ASSUME NEW kind \in {"reset", "purge"}, StartWipe(kind) PROVE TypeOK'
    BY <2>1 DEF StartWipe, OperatorGoto, OperatorPc
  <2>2. CASE BeginWipe \/ DeleteEntries
    BY <2>2 DEF BeginWipe, DeleteEntries, OperatorGoto, OperatorPc
  <2>3. CASE CountRows
    BY <2>3, FS_CardinalityType DEF CountRows, OperatorGoto, OperatorPc
  <2>4. CASE DeleteTransactions \/ DeleteAccounts
    BY <2>4, <1>2 DEF DeleteTransactions, DeleteAccounts, OperatorGoto, OperatorPc
  <2>5. ASSUME NEW a \in Account, LockAccount(a) PROVE TypeOK'
    BY <2>5 DEF LockAccount, TakeForUpdate, Process
  <2>6. CASE CommitWipe
    BY <2>6, FS_Subset DEF CommitWipe, OperatorGoto, OperatorPc, ReleaseLocks, Zero
  <2>7. CASE EnsureSystemAccounts
    BY <2>7 DEF EnsureSystemAccounts, OperatorGoto, OperatorPc, Account
  <2>8. CASE WipeLockTimeout \/ OperatorConnectionLost \/ DeadlockAbortWipe
    BY <2>8, <1>2 DEF WipeLockTimeout, OperatorConnectionLost, DeadlockAbortWipe
  <2>. QED  BY <1>5, <2>1, <2>2, <2>3, <2>4, <2>5, <2>6, <2>7, <2>8 DEF RunWipe
<1>6. CASE UNCHANGED vars
  BY <1>6 DEF vars
<1>. QED  BY <1>4, <1>5, <1>6 DEF Next

\* Every reachable state is well typed.
THEOREM TypeCorrect == Spec => []TypeOK
<1>1. Init => TypeOK
  BY TypeInit
<1>2. TypeOK /\ [Next]_vars => TypeOK'
  BY TypeNext
<1>. QED  BY <1>1, <1>2, PTL DEF Spec

-----------------------------------------------------------------------------
(* Reference numbers.  What makes UniqueRrn inductive: a transaction that  *)
(* has inserted its RRN is the only one, committed or open, that holds it. *)

RrnHeld ==
    /\ UniqueRrn
    /\ \A s \in Session : Inserted(s) => \A q \in posted : q.rrn # req[s].rrn
    /\ \A s, t \in Session :
          Inserted(s) /\ Inserted(t) /\ req[s].rrn = req[t].rrn => s = t

LEMMA RrnNext == ASSUME TypeOK, RrnHeld, [Next]_vars PROVE RrnHeld'
<1> USE DEF RrnHeld, UniqueRrn, Inserted, tables
\* Steps that neither change the books nor make another session hold an RRN.
<1>1. ASSUME posted' \subseteq posted,
             \A t \in Session : Inserted(t)' => Inserted(t) /\ req'[t] = req[t]
      PROVE  RrnHeld'
  BY <1>1
<1>2. ASSUME NEW s \in Session, NEW label, Goto(s, label),
             posted' = posted, UNCHANGED req,
             Inserted(s)' => Inserted(s)
      PROVE  RrnHeld'
  BY <1>1, <1>2 DEF Goto, TypeOK
<1>3. ASSUME NEW s \in Session, ServePosting(s) PROVE RrnHeld'
  <2>1. ASSUME NEW p \in Request, Call(s, p) PROVE RrnHeld'
    BY <1>1, <2>1 DEF Call, Goto, TypeOK
  <2>2. CASE Return(s)
    BY <1>1, <2>2 DEF Return, Goto, TypeOK
  <2>3. ASSUME NEW label \in {"insufficient", "details", "rejected"}, Rollback(s, label)
        PROVE  RrnHeld'
    BY <1>1, <2>3 DEF Rollback, Goto, TypeOK
  <2>4. CASE Begin(s) \/ WriteLockTimeout(s) \/ SelectDebitAccount(s) \/ ReadBalance(s)
             \/ ReadDetails(s) \/ DetailsUnreadable(s)
    BY <1>1, <2>3, <2>4 DEF Begin, WriteLockTimeout, SelectDebitAccount, ReadBalance,
         ReadDetails, DetailsUnreadable, Goto, TypeOK
  <2>5. CASE InsertTransaction(s)
    <3>1. CASE \E q \in posted : q.rrn = req[s].rrn
      BY <2>3, <2>5, <3>1 DEF InsertTransaction
    <3>2. CASE \A q \in posted : q.rrn # req[s].rrn
      <4>1. \A t \in Session \ {s} : Inserted(t) => req[t].rrn # req[s].rrn
        BY <2>5 DEF InsertTransaction, InsertersOf
      <4>. QED  BY <2>5, <3>2, <4>1 DEF InsertTransaction, Goto, TypeOK
    <3>. QED  BY <3>1, <3>2
  <2>6. CASE InsertDebit(s) \/ InsertCredit(s)
    BY <1>1, <2>3, <2>6 DEF InsertDebit, InsertCredit, InsertEntry, Goto, TypeOK
  <2>7. ASSUME NEW label \in {"recorded", "rejected"}, CommitAs(s, label) PROVE RrnHeld'
    <3>1. Inserted(s) /\ ~Inserted(s)'
      BY <2>7 DEF CommitAs, Goto, TypeOK
    <3>2. \A t \in Session \ {s} : Inserted(t)' => Inserted(t) /\ req[t].rrn # req[s].rrn
      BY <2>7, <3>1 DEF CommitAs, Goto, TypeOK
    <3>3. \A p, q \in posted \cup {req[s]} : p.rrn = q.rrn => p = q
      BY <3>1
    <3>. QED  BY <2>7, <3>1, <3>2, <3>3 DEF CommitAs
  <2>8. CASE ConnectionLost(s) \/ DeadlockAbort(s)
    BY <2>3, <2>8 DEF ConnectionLost, DeadlockAbort
  <2>. QED  BY <1>3, <2>1, <2>2, <2>4, <2>5, <2>6, <2>7, <2>8
            DEF ServePosting, Proceed, Commit, CommitUnacknowledged
<1>4. ASSUME RunWipe PROVE RrnHeld'
  <2>1. posted' \subseteq posted /\ UNCHANGED postingVars
    BY <1>4 DEF RunWipe, StartWipe, BeginWipe, WipeLockTimeout, CountRows, DeleteEntries,
         DeleteTransactions, LockAccount, DeleteAccounts, CommitWipe, EnsureSystemAccounts,
         OperatorConnectionLost, DeadlockAbortWipe, OperatorRollback
  <2>. QED  BY <1>1, <2>1 DEF postingVars
<1>5. CASE UNCHANGED vars
  BY <1>1, <1>5 DEF vars
<1>. QED  BY <1>3, <1>4, <1>5 DEF Next

\* However many sessions race for an RRN, wipes and faults included, the books
\* hold at most one posting under it.
THEOREM RrnUnique == Spec => []UniqueRrn
<1>1. Init => RrnHeld
  BY DEF Init, RrnHeld, UniqueRrn, Inserted
<1>2. TypeOK /\ RrnHeld /\ [Next]_vars => RrnHeld'
  BY RrnNext
<1>3. RrnHeld => UniqueRrn
  BY DEF RrnHeld
<1>. QED  BY <1>1, <1>2, <1>3, TypeCorrect, PTL DEF Spec

-----------------------------------------------------------------------------
(* Solvency.  It needs one writer at a time (SQLite) or the row locks of   *)
(* PostgreSQL against every wipe that runs; a reset takes no row lock.     *)

NoRacingReset == Dialect = "sqlite" \/ "reset" \notin Maintenance

\* BEGIN IMMEDIATE: one transaction at a time.
Exclusive ==
    Dialect = "sqlite" =>
        \A p, q \in Process : InTransaction(p) /\ InTransaction(q) => p = q

\* Entries are only inserted for accounts that exist, and on PostgreSQL the
\* inserter then holds FOR KEY SHARE on them.
LocksCompatible ==
    \A a \in Account : forUpdate[a] # None => keyShare[a] \subseteq {forUpdate[a]}
Referenced(s, a) ==
    /\ a \in accounts
    /\ Dialect = "postgres" => s \in keyShare[a]
References(s) ==
    /\ pc[s] \in {"insertCredit", "commit"} => Referenced(s, req[s].debit)
    /\ pc[s] = "commit" => Referenced(s, req[s].credit)
ReferencesHeld == LocksCompatible /\ \A s \in Session : References(s)

\* A session past the solvency check of a wallet still has it locked, and the
\* balance it read still covers the debit.
DebitHeld(s) == Dialect = "postgres" => forUpdate[req[s].debit] = s
Debiting(s) ==
    \/ pc[s] \in {"insertTransaction", "insertDebit"} /\ req[s].debit \in accounts
    \/ pc[s] \in {"insertCredit", "commit"}
Reserves(s) ==
    /\ pc[s] = "readBalance" => req[s].debit \in Wallet /\ DebitHeld(s)
    /\ Debiting(s) /\ req[s].debit \in Wallet =>
         DebitHeld(s) /\ balance[req[s].debit] >= req[s].amount
Reserved == \A s \in Session : Reserves(s)

\* What a wipe is about to remove is in the books, and all of it once the
\* wipe can commit.
Wiping ==
    /\ opPc # "idle" => wipe \in Maintenance
    /\ opPc \in {"deleteTransactions", "deleteAccounts", "commit"} =>
         doomed \subseteq posted /\ (posted = doomed => balance = sums)
    /\ opPc = "deleteAccounts" => wipe = "purge"
    /\ opPc = "commit" => posted = doomed
    /\ opPc = "commit" /\ Dialect = "postgres" =>
         \A a \in accounts : forUpdate[a] = Operator

SolvencyInv == /\ TypeOK /\ RrnHeld
               /\ Exclusive /\ ReferencesHeld /\ Reserved /\ Wiping /\ Solvent

LEMMA ExclusiveNext == ASSUME TypeOK, Exclusive, [Next]_vars PROVE Exclusive'
<1>1. ASSUME \A q \in Process : InTransaction(q)' => InTransaction(q)
      PROVE  Exclusive'
  BY <1>1 DEF Exclusive
<1>2. ASSUME ~WriterActive, NEW p \in Process,
             \A q \in Process \ {p} : InTransaction(q)' => InTransaction(q)
      PROVE  Exclusive'
  BY <1>2 DEF Exclusive, WriterActive
<1>3. ASSUME NEW s \in Session, ServePosting(s) PROVE Exclusive'
  <2>0. ASSUME NEW label, Goto(s, label), UNCHANGED opPc
        PROVE  \A q \in Process \ {s} : InTransaction(q)' => InTransaction(q)
    BY <2>0, ConstantsAssumption DEF Goto, InTransaction, Process, TypeOK
  <2>1. ASSUME NEW label, Goto(s, label), UNCHANGED opPc,
               label \in InTransactionPc => pc[s] \in InTransactionPc
        PROVE  Exclusive'
    BY <2>0, <2>1, <1>1, ConstantsAssumption DEF Goto, InTransaction, Process, TypeOK
  <2>2. CASE Begin(s)
    BY <2>0, <2>2, <1>2 DEF Begin, Process, operatorVars
  <2>3. ASSUME NEW label \in {"insufficient", "details", "rejected"}, Rollback(s, label)
        PROVE  Exclusive'
    BY <2>1, <2>3 DEF Rollback, InTransactionPc, operatorVars
  <2>4. ASSUME NEW p \in Request, Call(s, p) PROVE Exclusive'
    BY <2>1, <2>4 DEF Call, InTransactionPc, operatorVars
  <2>5. CASE Return(s) \/ WriteLockTimeout(s) \/ ReadDetails(s) \/ DetailsUnreadable(s)
    BY <2>1, <2>5 DEF Return, WriteLockTimeout, ReadDetails, DetailsUnreadable,
         InTransactionPc, operatorVars
  <2>6. CASE SelectDebitAccount(s)
    BY <2>1, <2>6 DEF SelectDebitAccount, InTransactionPc, operatorVars
  <2>7. CASE ReadBalance(s) \/ InsertTransaction(s)
    BY <2>1, <2>3, <2>7 DEF ReadBalance, InsertTransaction, InTransactionPc, operatorVars
  <2>8. CASE InsertDebit(s) \/ InsertCredit(s)
    BY <2>1, <2>3, <2>8 DEF InsertDebit, InsertCredit, InsertEntry, InTransactionPc, operatorVars
  <2>9. CASE Commit(s) \/ CommitUnacknowledged(s)
    BY <2>1, <2>9 DEF Commit, CommitUnacknowledged, CommitAs, InTransactionPc, operatorVars
  <2>10. CASE ConnectionLost(s) \/ DeadlockAbort(s)
    BY <2>3, <2>10 DEF ConnectionLost, DeadlockAbort
  <2>. QED  BY <1>3, <2>2, <2>4, <2>5, <2>6, <2>7, <2>8, <2>9, <2>10 DEF ServePosting, Proceed
<1>4. ASSUME RunWipe PROVE Exclusive'
  <2>0. \A q \in Session : InTransaction(q)' <=> InTransaction(q)
    BY <1>4, ConstantsAssumption DEF RunWipe, StartWipe, BeginWipe, WipeLockTimeout, CountRows,
         DeleteEntries, DeleteTransactions, LockAccount, DeleteAccounts, CommitWipe,
         EnsureSystemAccounts, OperatorConnectionLost, DeadlockAbortWipe, OperatorRollback,
         InTransaction, postingVars
  <2>1. CASE BeginWipe
    BY <2>0, <2>1, <1>2 DEF BeginWipe, Process
  <2>2. ASSUME InTransaction(Operator)' => InTransaction(Operator) PROVE Exclusive'
    BY <2>0, <2>2, <1>1 DEF Process
  <2>3. CASE OperatorRollback
    BY <2>2, <2>3 DEF OperatorRollback, OperatorGoto, InTransaction
  <2>4. CASE ~BeginWipe /\ ~OperatorRollback
    BY <1>4, <2>2, <2>4 DEF RunWipe, StartWipe, WipeLockTimeout, CountRows,
         DeleteEntries, DeleteTransactions, LockAccount, DeleteAccounts, CommitWipe,
         EnsureSystemAccounts, OperatorConnectionLost, DeadlockAbortWipe, OperatorGoto,
         InTransaction, operatorVars
  <2>. QED  BY <2>1, <2>3, <2>4
<1>5. CASE UNCHANGED vars
  BY <1>1, <1>5 DEF vars, InTransaction
<1>. QED  BY <1>3, <1>4, <1>5 DEF Next

\* Taking and releasing row locks keeps the lock table consistent.
LEMMA LocksNext ==
    ASSUME TypeOK, LocksCompatible, NEW p \in Process, p # None,
           \/ UNCHANGED locks
           \/ ReleaseLocks(p)
           \/ \E a \in Account : ForUpdateFree(a, p) /\ TakeForUpdate(a, p)
           \/ \E a \in Account : KeyShareFree(a, p) /\ TakeKeyShare(a, p)
    PROVE  LocksCompatible'
<1> USE DEF LocksCompatible, TypeOK, locks
<1>1. CASE UNCHANGED locks
  BY <1>1
<1>2. CASE ReleaseLocks(p)
  BY <1>2 DEF ReleaseLocks
<1>3. ASSUME NEW a \in Account, ForUpdateFree(a, p), TakeForUpdate(a, p)
      PROVE  LocksCompatible'
  BY <1>3 DEF ForUpdateFree, TakeForUpdate
<1>4. ASSUME NEW a \in Account, KeyShareFree(a, p), TakeKeyShare(a, p)
      PROVE  LocksCompatible'
  BY <1>4 DEF KeyShareFree, TakeKeyShare
<1>. QED  BY <1>1, <1>2, <1>3, <1>4

\* At the end of a purge on PostgreSQL the operator holds every account row:
\* no posting can be between its entries.
LEMMA WipeExcludesPostings ==
    ASSUME TypeOK, NoRacingReset, Exclusive, ReferencesHeld, Wiping,
           opPc = "commit", NEW s \in Session
    PROVE  pc[s] \notin {"insertCredit", "commit"}
<1>1. CASE Dialect = "sqlite"
  <2>1. InTransaction(Operator) /\ Operator # s
    BY ConstantsAssumption DEF InTransaction
  <2>2. ~InTransaction(s)
    BY <1>1, <2>1, ConstantsAssumption DEF Exclusive, Process
  <2>. QED  BY <2>1, <2>2 DEF InTransaction, InTransactionPc
<1>2. CASE Dialect = "postgres"
  <2>1. SUFFICES ASSUME pc[s] \in {"insertCredit", "commit"} PROVE FALSE
    OBVIOUS
  <2>2. /\ req[s].debit \in accounts /\ req[s].debit \in Account
        /\ s \in keyShare[req[s].debit]
    BY <1>2, <2>1 DEF ReferencesHeld, References, Referenced, TypeOK
  <2>3. forUpdate[req[s].debit] = Operator
    BY <1>2, <2>2 DEF Wiping
  <2>. QED  BY <2>2, <2>3, ConstantsAssumption DEF ReferencesHeld, LocksCompatible, Process
<1>. QED  BY <1>1, <1>2, ConstantsAssumption

LEMMA ReferencesNext ==
    ASSUME TypeOK, NoRacingReset, Exclusive, ReferencesHeld, Wiping, [Next]_vars
    PROVE  ReferencesHeld'
<1> USE DEF ReferencesHeld
<1>0. None \notin Process /\ Operator \in Process /\ Session \subseteq Process /\ Operator \notin Session
  BY ConstantsAssumption DEF Process
\* A statement of session s leaves the other sessions' references alone.
<1>1. ASSUME NEW s \in Session, NEW label, Goto(s, label), accounts' = accounts,
             \A t \in Session \ {s} : req'[t] = req[t],
             \A a \in Account : keyShare[a] \ {s} \subseteq keyShare'[a]
      PROVE  \A t \in Session \ {s} : References(t)'
  BY <1>1 DEF Goto, References, Referenced, TypeOK, SessionPc, Posting
<1>2. ASSUME NEW s \in Session, NEW label, Goto(s, label), accounts' = accounts,
             \A t \in Session \ {s} : req'[t] = req[t],
             label \notin {"insertCredit", "commit"},
             \/ UNCHANGED locks
             \/ ReleaseLocks(s)
             \/ \E a \in Account : ForUpdateFree(a, s) /\ TakeForUpdate(a, s)
      PROVE  ReferencesHeld'
  <2>1. References(s)'
    BY <1>2 DEF References, Goto, TypeOK
  <2>2. \A a \in Account : keyShare[a] \ {s} \subseteq keyShare'[a]
    BY <1>2 DEF ReleaseLocks, TakeForUpdate, locks
  <2>3. LocksCompatible'
    BY <1>0, <1>2, LocksNext
  <2>. QED  BY <1>1, <1>2, <2>1, <2>2, <2>3
<1>3. ASSUME NEW s \in Session, NEW label \in {"insufficient", "details", "rejected"},
             Rollback(s, label)
      PROVE  ReferencesHeld'
  BY <1>2, <1>3 DEF Rollback, tables
<1>4. ASSUME NEW s \in Session, NEW account \in Account, NEW label,
             account \in accounts, InsertEntry(s, account, label), References(s)'
      PROVE  ReferencesHeld'
  <2>1. \/ UNCHANGED locks
        \/ KeyShareFree(account, s) /\ TakeKeyShare(account, s)
    BY <1>4 DEF InsertEntry
  <2>2. \A a \in Account : keyShare[a] \ {s} \subseteq keyShare'[a]
    BY <2>1 DEF TakeKeyShare, locks, TypeOK
  <2>3. LocksCompatible'
    BY <1>0, <2>1, LocksNext
  <2>4. Goto(s, label) /\ accounts' = accounts /\ req' = req
    BY <1>4 DEF InsertEntry, tables
  <2>. QED  BY <1>1, <1>4, <2>2, <2>3, <2>4
<1>5. ASSUME NEW s \in Session, ServePosting(s) PROVE ReferencesHeld'
  <2>1. ASSUME NEW p \in Request, Call(s, p) PROVE ReferencesHeld'
    BY <1>2, <2>1 DEF Call, TypeOK, tables
  <2>2. CASE Return(s) \/ Begin(s) \/ WriteLockTimeout(s) \/ ReadDetails(s)
             \/ DetailsUnreadable(s)
    BY <1>2, <2>2 DEF Return, Begin, WriteLockTimeout, ReadDetails, DetailsUnreadable,
         TypeOK, tables
  <2>3. CASE SelectDebitAccount(s)
    <3>1. \/ UNCHANGED locks
          \/ \E a \in Account : ForUpdateFree(a, s) /\ TakeForUpdate(a, s)
      BY <2>3 DEF SelectDebitAccount, TypeOK
    <3>. QED  BY <1>2, <2>3, <3>1 DEF SelectDebitAccount, tables
  <2>4. CASE ReadBalance(s) \/ InsertTransaction(s)
    BY <1>2, <1>3, <2>4 DEF ReadBalance, InsertTransaction, tables
  <2>5. CASE InsertDebit(s)
    <3>1. req[s].debit \in Account
      BY <2>5, ConstantsAssumption DEF InsertDebit, TypeOK, Posting
    <3>2. CASE req[s].debit \notin accounts
      BY <1>3, <2>5, <3>2 DEF InsertDebit, InsertEntry
    <3>3. CASE req[s].debit \in accounts
      <4>1. References(s)'
        BY <2>5, <3>1, <3>3 DEF InsertDebit, InsertEntry, References, Referenced, Goto,
             TakeKeyShare, TypeOK, tables
      <4>. QED  BY <1>4, <2>5, <3>1, <3>3, <4>1 DEF InsertDebit
    <3>. QED  BY <3>2, <3>3
  <2>6. CASE InsertCredit(s)
    <3>1. req[s].debit \in Account /\ req[s].credit \in Account
      BY <2>6, ConstantsAssumption DEF InsertCredit, TypeOK, Posting
    <3>2. CASE req[s].credit \notin accounts
      BY <1>3, <2>6, <3>2 DEF InsertCredit, InsertEntry
    <3>3. CASE req[s].credit \in accounts
      <4>1. References(s)
        OBVIOUS
      <4>2. References(s)'
        BY <2>6, <3>1, <3>3, <4>1 DEF InsertCredit, InsertEntry, References, Referenced, Goto,
             TakeKeyShare, TypeOK, tables, locks
      <4>. QED  BY <1>4, <2>6, <3>1, <3>3, <4>2 DEF InsertCredit
    <3>. QED  BY <3>2, <3>3
  <2>7. CASE Commit(s) \/ CommitUnacknowledged(s)
    BY <1>2, <2>7 DEF Commit, CommitUnacknowledged, CommitAs
  <2>8. CASE ConnectionLost(s) \/ DeadlockAbort(s)
    BY <1>3, <2>8 DEF ConnectionLost, DeadlockAbort
  <2>. QED  BY <1>5, <2>1, <2>2, <2>3, <2>4, <2>5, <2>6, <2>7, <2>8 DEF ServePosting, Proceed
<1>6. ASSUME RunWipe PROVE ReferencesHeld'
  <2>1. UNCHANGED postingVars
    BY <1>6 DEF RunWipe, StartWipe, BeginWipe, WipeLockTimeout, CountRows, DeleteEntries,
         DeleteTransactions, LockAccount, DeleteAccounts, CommitWipe, EnsureSystemAccounts,
         OperatorConnectionLost, DeadlockAbortWipe, OperatorRollback
  <2>2. \/ UNCHANGED locks
        \/ ReleaseLocks(Operator)
        \/ \E a \in Account : ForUpdateFree(a, Operator) /\ TakeForUpdate(a, Operator)
    BY <1>6 DEF RunWipe, StartWipe, BeginWipe, WipeLockTimeout, CountRows, DeleteEntries,
         DeleteTransactions, LockAccount, DeleteAccounts, CommitWipe, EnsureSystemAccounts,
         OperatorConnectionLost, DeadlockAbortWipe, OperatorRollback
  <2>3. LocksCompatible'
    BY <1>0, <2>2, LocksNext
  <2>4. \A a \in Account : keyShare[a] \subseteq keyShare'[a]
    BY <1>0, <2>2 DEF ReleaseLocks, TakeForUpdate, locks, TypeOK
  <2>5. CASE CommitWipe
    <3>1. \A s \in Session : pc[s] \notin {"insertCredit", "commit"}
      BY <2>5, WipeExcludesPostings DEF CommitWipe
    <3>. QED  BY <2>1, <2>3, <3>1 DEF postingVars, References
  <2>6. CASE ~CommitWipe
    <3>1. accounts \subseteq accounts'
      BY <1>6, <2>6 DEF RunWipe, StartWipe, BeginWipe, WipeLockTimeout, CountRows,
           DeleteEntries, DeleteTransactions, LockAccount, DeleteAccounts,
           EnsureSystemAccounts, OperatorConnectionLost, DeadlockAbortWipe,
           OperatorRollback, tables
    <3>. QED  BY <2>1, <2>3, <2>4, <3>1, ConstantsAssumption
              DEF postingVars, References, Referenced, TypeOK, Posting
  <2>. QED  BY <2>5, <2>6
<1>7. CASE UNCHANGED vars
  BY <1>7 DEF vars, LocksCompatible, References, Referenced
<1>. QED  BY <1>5, <1>6, <1>7 DEF Next

\* A posting lowers no balance but that of the account it debits.
LEMMA ApplyLowersDebitOnly ==
    ASSUME TypeOK, NEW p \in Request, NEW a \in Account, a # p.debit
    PROVE  Apply(p)[a] \in Int /\ Apply(p)[a] >= balance[a]
<1>1. p.debit \in Account /\ p.credit \in Account /\ p.amount \in Nat
  BY ConstantsAssumption DEF Posting
<1>. QED  BY <1>1 DEF TypeOK, Apply

LEMMA ReservedNext ==
    ASSUME TypeOK, NoRacingReset, Exclusive, ReferencesHeld, Reserved, Wiping, [Next]_vars
    PROVE  Reserved'
<1> USE DEF Reserved
<1>0. /\ None \notin Process /\ Operator \in Process /\ Session \subseteq Process
      /\ Operator \notin Session /\ Funding \notin Wallet
      /\ \A p \in Request : p.debit \in Account /\ p.credit \in Account
      /\ Dialect \in {"postgres", "sqlite"}
  BY ConstantsAssumption DEF Process, Posting
\* A statement of session s that leaves the books alone leaves the other
\* sessions' reservations alone.
<1>1. ASSUME NEW s \in Session, NEW label, Goto(s, label), UNCHANGED <<accounts, balance>>,
             \A t \in Session \ {s} : req'[t] = req[t],
             \/ UNCHANGED locks
             \/ ReleaseLocks(s)
             \/ \E a \in Account : KeyShareFree(a, s) /\ TakeKeyShare(a, s)
             \/ \E a \in Account : ForUpdateFree(a, s) /\ TakeForUpdate(a, s)
      PROVE  \A t \in Session \ {s} : Reserves(t)'
  <2>1. SUFFICES ASSUME NEW t \in Session \ {s} PROVE Reserves(t)'
    OBVIOUS
  <2>2. pc'[t] = pc[t] /\ req'[t] = req[t]
    BY <1>1 DEF Goto, TypeOK
  <2>3. \A a \in Account : forUpdate[a] = t => forUpdate'[a] = t
    BY <1>0, <1>1 DEF ReleaseLocks, TakeKeyShare, TakeForUpdate, ForUpdateFree, locks, TypeOK
  <2>4. pc[t] # "idle" => req[t].debit \in Account
    BY <1>0 DEF TypeOK
  <2>. QED  BY <1>1, <2>2, <2>3, <2>4 DEF Reserves, Debiting, DebitHeld
<1>2. ASSUME NEW s \in Session, NEW label, Goto(s, label), UNCHANGED <<accounts, balance>>,
             \A t \in Session \ {s} : req'[t] = req[t],
             UNCHANGED locks \/ ReleaseLocks(s),
             label \notin InTransactionPc
      PROVE  Reserved'
  <2>1. Reserves(s)'
    BY <1>2 DEF Reserves, Debiting, Goto, TypeOK, InTransactionPc
  <2>. QED  BY <1>1, <1>2, <2>1
<1>3. ASSUME NEW s \in Session, NEW label \in {"insufficient", "details", "rejected"},
             Rollback(s, label)
      PROVE  Reserved'
  BY <1>2, <1>3 DEF Rollback, tables, InTransactionPc
<1>4. ASSUME NEW s \in Session, ServePosting(s) PROVE Reserved'
  <2>1. ASSUME NEW p \in Request, Call(s, p) PROVE Reserved'
    BY <1>2, <2>1 DEF Call, TypeOK, tables, InTransactionPc
  <2>2. CASE Return(s) \/ WriteLockTimeout(s) \/ ReadDetails(s) \/ DetailsUnreadable(s)
    BY <1>2, <2>2 DEF Return, WriteLockTimeout, ReadDetails, DetailsUnreadable,
         TypeOK, tables, InTransactionPc
  <2>3. CASE Begin(s)
    <3>1. Reserves(s)'
      BY <2>3 DEF Begin, Reserves, Debiting, Goto, TypeOK
    <3>. QED  BY <1>1, <2>3, <3>1 DEF Begin, tables
  <2>4. CASE SelectDebitAccount(s)
    <3>1. pc[s] = "solvency" /\ req[s].debit \in Account
      BY <1>0, <2>4 DEF SelectDebitAccount, TypeOK
    <3>2. \/ UNCHANGED locks
          \/ \E a \in Account : ForUpdateFree(a, s) /\ TakeForUpdate(a, s)
      BY <2>4, <3>1 DEF SelectDebitAccount
    <3>3. Reserves(s)'
      BY <1>0, <2>4, <3>1 DEF SelectDebitAccount, TakeForUpdate, Reserves, Debiting, DebitHeld,
           Goto, TypeOK, tables, Account
    <3>. QED  BY <1>1, <2>4, <3>2, <3>3 DEF SelectDebitAccount, tables
  <2>5. CASE ReadBalance(s)
    <3>1. CASE balance[req[s].debit] - req[s].amount < 0
      BY <1>3, <2>5, <3>1 DEF ReadBalance
    <3>2. CASE ~(balance[req[s].debit] - req[s].amount < 0)
      <4>1. req[s] \in Posting /\ balance[req[s].debit] \in Int
        BY <1>0, <2>5, ConstantsAssumption DEF ReadBalance, TypeOK
      <4>2. balance[req[s].debit] >= req[s].amount
        BY <3>2, <4>1 DEF Posting
      <4>3. Reserves(s)'
        BY <2>5, <3>2, <4>2 DEF ReadBalance, Reserves, Debiting, DebitHeld, Goto, TypeOK, tables, locks
      <4>. QED  BY <1>1, <2>5, <3>2, <4>3 DEF ReadBalance, tables
    <3>. QED  BY <3>1, <3>2
  <2>6. CASE InsertTransaction(s)
    <3>1. CASE \E q \in posted : q.rrn = req[s].rrn
      BY <1>3, <2>6, <3>1 DEF InsertTransaction
    <3>2. CASE \A q \in posted : q.rrn # req[s].rrn
      <4>1. Reserves(s)'
        BY <2>6, <3>2 DEF InsertTransaction, Reserves, Debiting, DebitHeld, Goto, TypeOK, tables, locks
      <4>. QED  BY <1>1, <2>6, <3>2, <4>1 DEF InsertTransaction, tables
    <3>. QED  BY <3>1, <3>2
  <2>7. CASE InsertDebit(s) \/ InsertCredit(s)
    <3>1. /\ pc[s] \in {"insertDebit", "insertCredit"}
          /\ req[s].debit \in Account /\ req[s].credit \in Account
      BY <1>0, <2>7 DEF InsertDebit, InsertCredit, TypeOK
    <3>2. PICK a \in Account, label \in {"insertCredit", "commit"} :
               /\ InsertEntry(s, a, label)
               /\ pc[s] = "insertDebit" => a = req[s].debit
      BY <2>7, <3>1 DEF InsertDebit, InsertCredit
    <3>3. CASE a \notin accounts
      BY <1>3, <3>2, <3>3 DEF InsertEntry
    <3>4. CASE a \in accounts
      <4>1. \/ UNCHANGED locks
            \/ \E b \in Account : KeyShareFree(b, s) /\ TakeKeyShare(b, s)
        BY <3>2, <3>4 DEF InsertEntry
      <4>2. UNCHANGED forUpdate
        BY <4>1 DEF TakeKeyShare, locks
      <4>3. Goto(s, label) /\ UNCHANGED <<req, accounts, balance>>
        BY <3>2, <3>4 DEF InsertEntry, tables
      <4>4. Debiting(s)
        BY <3>1, <3>2, <3>4 DEF Debiting
      <4>5. Reserves(s)'
        BY <3>1, <4>2, <4>3, <4>4 DEF Reserves, Debiting, DebitHeld, Goto, TypeOK
      <4>. QED  BY <1>1, <4>1, <4>3, <4>5
    <3>. QED  BY <3>3, <3>4
  <2>8. ASSUME NEW label \in {"recorded", "rejected"}, CommitAs(s, label) PROVE Reserved'
    <3>1. /\ pc[s] = "commit" /\ req[s] \in Request /\ req[s].debit \in Account
          /\ pc' = [pc EXCEPT ![s] = label] /\ UNCHANGED <<req, accounts>>
      BY <1>0, <2>8 DEF CommitAs, TypeOK, Goto
    <3>2. Reserves(s)'
      BY <3>1 DEF Reserves, Debiting, TypeOK
    <3>3. ASSUME NEW t \in Session \ {s} PROVE Reserves(t)'
      <4>1. pc'[t] = pc[t] /\ req'[t] = req[t]
        BY <3>1 DEF TypeOK
      <4>2. \A a \in Account : forUpdate[a] = t => forUpdate'[a] = t
        BY <1>0, <2>8 DEF CommitAs, ReleaseLocks
      <4>3. pc[t] # "idle" => req[t] \in Request /\ req[t].debit \in Account
        BY <1>0 DEF TypeOK
      <4>4. ASSUME Debiting(t), req[t].debit \in Wallet PROVE req[t].debit # req[s].debit
        <5>1. InTransaction(s) /\ InTransaction(t)
          BY <1>0, <3>1, <4>4 DEF InTransaction, InTransactionPc, Debiting
        <5>2. Dialect = "postgres"
          BY <1>0, <5>1 DEF Exclusive
        <5>3. DebitHeld(t) /\ forUpdate[req[t].debit] = t
          BY <4>4, <5>2 DEF Reserves, DebitHeld
        <5>4. req[s].debit \in Wallet => forUpdate[req[s].debit] = s
          BY <3>1, <5>2 DEF Reserves, DebitHeld, Debiting
        <5>. QED  BY <4>4, <5>3, <5>4
      <4>5. ASSUME Debiting(t), req[t].debit \in Wallet
            PROVE  balance'[req[t].debit] >= req[t].amount
        <5>1. req[t] \in Request /\ req[t].debit \in Account /\ req[t].amount \in Nat
          BY <4>3, <4>5, ConstantsAssumption DEF Debiting, Posting
        <5>2. balance' = Apply(req[s])
          BY <2>8 DEF CommitAs
        <5>3. balance[req[t].debit] >= req[t].amount /\ balance[req[t].debit] \in Int
          BY <4>5, <5>1 DEF Reserves, TypeOK
        <5>4. /\ balance'[req[t].debit] \in Int
              /\ balance'[req[t].debit] >= balance[req[t].debit]
          BY <3>1, <4>4, <4>5, <5>1, <5>2, ApplyLowersDebitOnly
        <5>. QED  BY <5>1, <5>3, <5>4
      <4>. QED  BY <3>1, <4>1, <4>2, <4>3, <4>5 DEF Reserves, Debiting, DebitHeld
    <3>. QED  BY <3>2, <3>3
  <2>9. CASE ConnectionLost(s) \/ DeadlockAbort(s)
    BY <1>3, <2>9 DEF ConnectionLost, DeadlockAbort
  <2>. QED  BY <1>4, <2>1, <2>2, <2>3, <2>4, <2>5, <2>6, <2>7, <2>8, <2>9
            DEF ServePosting, Proceed, Commit, CommitUnacknowledged
<1>5. ASSUME RunWipe PROVE Reserved'
  <2>1. UNCHANGED postingVars
    BY <1>5 DEF RunWipe, StartWipe, BeginWipe, WipeLockTimeout, CountRows, DeleteEntries,
         DeleteTransactions, LockAccount, DeleteAccounts, CommitWipe, EnsureSystemAccounts,
         OperatorConnectionLost, DeadlockAbortWipe, OperatorRollback
  <2>2. \/ UNCHANGED locks
        \/ ReleaseLocks(Operator)
        \/ \E a \in Account : ForUpdateFree(a, Operator) /\ TakeForUpdate(a, Operator)
    BY <1>5 DEF RunWipe, StartWipe, BeginWipe, WipeLockTimeout, CountRows, DeleteEntries,
         DeleteTransactions, LockAccount, DeleteAccounts, CommitWipe, EnsureSystemAccounts,
         OperatorConnectionLost, DeadlockAbortWipe, OperatorRollback
  <2>3. ASSUME NEW t \in Session, NEW a \in Account, forUpdate[a] = t PROVE forUpdate'[a] = t
    BY <1>0, <2>2, <2>3 DEF ReleaseLocks, TakeForUpdate, ForUpdateFree, locks, TypeOK
  <2>4. \A t \in Session : pc[t] # "idle" => req[t].debit \in Account
    BY <1>0 DEF TypeOK
  <2>5. CASE CommitWipe
    <3>1. \A t \in Session : pc[t] \notin {"insertCredit", "commit"}
      BY <2>5, WipeExcludesPostings DEF CommitWipe
    <3>2. CASE Dialect = "sqlite"
      <4>1. \A t \in Session : ~InTransaction(t)
        BY <1>0, <2>5, <3>2 DEF CommitWipe, Exclusive, InTransaction, Process
      <4>2. \A t \in Session : pc[t] \notin InTransactionPc
        BY <1>0, <4>1 DEF InTransaction
      <4>. QED  BY <2>1, <4>2 DEF postingVars, Reserves, Debiting, InTransactionPc
    <3>3. CASE Dialect = "postgres"
      <4>1. accounts' = {}
        BY <2>5, <3>3 DEF CommitWipe, NoRacingReset, Wiping, TypeOK
      <4>. QED  BY <2>1, <2>3, <2>4, <3>1, <4>1 DEF postingVars, Reserves, Debiting, DebitHeld
    <3>. QED  BY <1>0, <3>2, <3>3
  <2>6. CASE ~CommitWipe
    <3>1. accounts' \subseteq accounts \cup {Funding} /\ balance' = balance
      BY <1>5, <2>6 DEF RunWipe, StartWipe, BeginWipe, WipeLockTimeout, CountRows,
           DeleteEntries, DeleteTransactions, LockAccount, DeleteAccounts,
           EnsureSystemAccounts, OperatorConnectionLost, DeadlockAbortWipe,
           OperatorRollback, tables
    <3>. QED  BY <1>0, <2>1, <2>3, <2>4, <3>1 DEF postingVars, Reserves, Debiting, DebitHeld
  <2>. QED  BY <2>5, <2>6
<1>6. CASE UNCHANGED vars
  BY <1>6 DEF vars, Reserves, Debiting, DebitHeld
<1>. QED  BY <1>4, <1>5, <1>6 DEF Next

LEMMA WipingNext ==
    ASSUME TypeOK, RrnHeld, NoRacingReset, Exclusive, ReferencesHeld, Wiping, [Next]_vars
    PROVE  Wiping'
<1> USE DEF Wiping
<1>0. /\ None \notin Process /\ Operator \in Process /\ Session \subseteq Process
      /\ Operator \notin Session /\ Dialect \in {"postgres", "sqlite"}
  BY ConstantsAssumption DEF Process
\* Rows locked by the operator stay locked while sessions run.
<1>1. ASSUME NEW s \in Session, UNCHANGED operatorVars, accounts' = accounts,
             posted' = posted, balance' = balance,
             \/ UNCHANGED locks
             \/ ReleaseLocks(s)
             \/ \E a \in Account : KeyShareFree(a, s) /\ TakeKeyShare(a, s)
             \/ \E a \in Account : ForUpdateFree(a, s) /\ TakeForUpdate(a, s)
      PROVE  Wiping'
  <2>1. \A a \in Account : forUpdate[a] = Operator => forUpdate'[a] = Operator
    BY <1>0, <1>1 DEF ReleaseLocks, TakeKeyShare, TakeForUpdate, ForUpdateFree, locks, TypeOK
  <2>. QED  BY <1>1, <2>1 DEF operatorVars, TypeOK
<1>2. ASSUME NEW s \in Session, NEW label, Rollback(s, label) PROVE Wiping'
  BY <1>1, <1>2 DEF Rollback, tables
<1>3. ASSUME NEW s \in Session, ServePosting(s) PROVE Wiping'
  <2>1. ASSUME NEW p \in Request, Call(s, p) PROVE Wiping'
    BY <1>1, <2>1 DEF Call, tables
  <2>2. CASE Return(s) \/ Begin(s) \/ WriteLockTimeout(s) \/ ReadDetails(s)
             \/ DetailsUnreadable(s)
    BY <1>1, <2>2 DEF Return, Begin, WriteLockTimeout, ReadDetails, DetailsUnreadable, tables
  <2>3. CASE SelectDebitAccount(s)
    <3>1. \/ UNCHANGED locks
          \/ \E a \in Account : ForUpdateFree(a, s) /\ TakeForUpdate(a, s)
      BY <2>3 DEF SelectDebitAccount, TypeOK
    <3>. QED  BY <1>1, <2>3, <3>1 DEF SelectDebitAccount, tables
  <2>4. CASE ReadBalance(s) \/ InsertTransaction(s)
    BY <1>1, <1>2, <2>4 DEF ReadBalance, InsertTransaction, tables
  <2>5. CASE InsertDebit(s) \/ InsertCredit(s)
    BY <1>1, <1>2, <2>5 DEF InsertDebit, InsertCredit, InsertEntry, TypeOK, tables
  <2>6. ASSUME NEW label \in {"recorded", "rejected"}, CommitAs(s, label) PROVE Wiping'
    <3>1. opPc # "commit"
      BY <2>6, WipeExcludesPostings DEF CommitAs
    <3>2. req[s] \notin posted
      BY <2>6 DEF CommitAs, RrnHeld, Inserted
    <3>. QED  BY <2>6, <3>1, <3>2 DEF CommitAs, operatorVars
  <2>7. CASE ConnectionLost(s) \/ DeadlockAbort(s)
    BY <1>2, <2>7 DEF ConnectionLost, DeadlockAbort
  <2>. QED  BY <1>3, <2>1, <2>2, <2>3, <2>4, <2>5, <2>6, <2>7
            DEF ServePosting, Proceed, Commit, CommitUnacknowledged
<1>4. ASSUME RunWipe PROVE Wiping'
  <2>1. ASSUME NEW kind \in {"reset", "purge"}, StartWipe(kind) PROVE Wiping'
    BY <2>1 DEF StartWipe, OperatorGoto
  <2>2. CASE BeginWipe \/ CountRows
    BY <2>2 DEF BeginWipe, CountRows, OperatorGoto
  <2>3. CASE OperatorRollback
    BY <2>3 DEF OperatorRollback, OperatorGoto
  <2>4. CASE DeleteEntries
    BY <2>4 DEF DeleteEntries, OperatorGoto, tables
  <2>5. CASE DeleteTransactions
    BY <1>0, <2>3, <2>5 DEF DeleteTransactions, OperatorGoto, NoRacingReset, TypeOK, tables
  <2>6. ASSUME NEW a \in Account, LockAccount(a) PROVE Wiping'
    BY <2>6 DEF LockAccount, operatorVars, tables
  <2>7. CASE DeleteAccounts
    BY <1>0, <2>3, <2>7 DEF DeleteAccounts, AccountsLocked, OperatorGoto, tables, locks
  <2>8. CASE CommitWipe \/ EnsureSystemAccounts
    BY <2>8 DEF CommitWipe, EnsureSystemAccounts, OperatorGoto
  <2>. QED  BY <1>4, <2>1, <2>2, <2>3, <2>4, <2>5, <2>6, <2>7, <2>8
            DEF RunWipe, WipeLockTimeout, OperatorConnectionLost, DeadlockAbortWipe
<1>5. CASE UNCHANGED vars
  BY <1>5 DEF vars
<1>. QED  BY <1>3, <1>4, <1>5 DEF Next

-----------------------------------------------------------------------------
(* The statements implement the atomic ledger.                             *)

\* A commit is the atomic Post, a wipe's commit the atomic Wipe, and every
\* other statement is invisible.
LEMMA StepImplements ==
    ASSUME SolvencyInv, NoRacingReset, [Next]_vars
    PROVE  [Abstract!Next]_(Abstract!vars)
<1> USE DEF SolvencyInv
<1>1. ASSUME NEW s \in Session, NEW label, CommitAs(s, label)
      PROVE  \E p \in Request : Abstract!Post(p)
  <2>1. pc[s] = "commit" /\ req[s] \in Request /\ req[s].debit \in Account
    BY <1>1, ConstantsAssumption DEF CommitAs, TypeOK, Posting
  <2>2. Abstract!Fresh(req[s])
    BY <2>1 DEF RrnHeld, Inserted, Abstract!Fresh
  <2>3. Abstract!Covered(req[s])
    BY <2>1 DEF Reserved, Reserves, Debiting, Abstract!Covered, Account
  <2>. QED  BY <1>1, <2>1, <2>2, <2>3 DEF CommitAs, Apply, Abstract!Post
<1>2. ASSUME CommitWipe PROVE Abstract!Wipe
  <2>1. posted = doomed /\ balance = sums
    BY <1>2 DEF CommitWipe, Wiping
  <2>2. \A a \in Account : balance[a] - sums[a] = 0
    BY <2>1 DEF TypeOK
  <2>. QED  BY <1>2, <2>1, <2>2 DEF CommitWipe, Abstract!Wipe, Abstract!Account, Account
<1>3. ASSUME NEW s \in Session, ServePosting(s),
             ~ \E label \in {"recorded", "rejected"} : CommitAs(s, label)
      PROVE  UNCHANGED <<posted, balance>>
  BY <1>3 DEF ServePosting, Proceed, Call, Return, Begin, WriteLockTimeout, SelectDebitAccount,
     ReadBalance, InsertTransaction, InsertDebit, InsertCredit, InsertEntry, Commit,
     CommitUnacknowledged, ReadDetails, DetailsUnreadable, ConnectionLost, DeadlockAbort,
     Rollback, tables
<1>4. ASSUME RunWipe, ~CommitWipe PROVE UNCHANGED <<posted, balance>>
  BY <1>4 DEF RunWipe, StartWipe, BeginWipe, WipeLockTimeout, CountRows, DeleteEntries,
     DeleteTransactions, LockAccount, DeleteAccounts, EnsureSystemAccounts,
     OperatorConnectionLost, DeadlockAbortWipe, OperatorRollback, tables
<1>. QED  BY <1>1, <1>2, <1>3, <1>4 DEF Next, vars, Abstract!Next, Abstract!vars

LEMMA SolventNext ==
    ASSUME SolvencyInv, NoRacingReset, [Next]_vars
    PROVE  Solvent'
<1> USE DEF SolvencyInv, Solvent
<1>1. ASSUME NEW p \in Request, Abstract!Post(p) PROVE Solvent'
  <2>1. p.debit \in Account /\ p.amount \in Nat
    BY ConstantsAssumption DEF Posting
  <2>2. balance' = Apply(p) /\ (p.debit \in Wallet => balance[p.debit] >= p.amount)
    BY <1>1, ConstantsAssumption DEF Abstract!Post, Abstract!Covered, Apply
  <2>3. ASSUME NEW w \in Wallet, w # p.debit PROVE balance'[w] >= 0
    BY <2>2, <2>3, ApplyLowersDebitOnly DEF TypeOK, Account
  <2>4. ASSUME p.debit \in Wallet PROVE balance'[p.debit] >= 0
    BY <2>1, <2>2, <2>4, ConstantsAssumption DEF Apply, TypeOK, Posting
  <2>. QED  BY <2>3, <2>4
<1>2. ASSUME Abstract!Wipe PROVE Solvent'
  BY <1>2 DEF Abstract!Wipe, Abstract!Account
<1>3. CASE UNCHANGED <<posted, balance>>
  BY <1>3
<1>. QED  BY <1>1, <1>2, <1>3, StepImplements DEF Abstract!Next, Abstract!vars

LEMMA SolvencyInductive ==
    /\ Init => SolvencyInv
    /\ NoRacingReset /\ SolvencyInv /\ [Next]_vars => SolvencyInv'
<1>1. ASSUME Init PROVE SolvencyInv
  <2>1. RrnHeld /\ Exclusive /\ Wiping
    BY <1>1, ConstantsAssumption DEF Init, RrnHeld, UniqueRrn, Inserted, Exclusive, InTransaction,
       InTransactionPc, Process, Wiping
  <2>2. ReferencesHeld /\ Reserved
    BY <1>1 DEF Init, ReferencesHeld, LocksCompatible, References, Reserved, Reserves, Debiting
  <2>3. Solvent
    BY <1>1 DEF Init, Zero, Account, Solvent
  <2>. QED  BY <1>1, <2>1, <2>2, <2>3, TypeInit DEF SolvencyInv
<1>2. ASSUME NoRacingReset, SolvencyInv, [Next]_vars PROVE SolvencyInv'
  BY <1>2, TypeNext, RrnNext, ExclusiveNext, ReferencesNext, ReservedNext, WipingNext,
     SolventNext DEF SolvencyInv
<1>. QED  BY <1>1, <1>2

\* No interleaving of postings, purges and faults overdraws a wallet, as long as
\* no reset runs on PostgreSQL.
THEOREM SolventUnlessReset == NoRacingReset => (Spec => []Solvent)
<1> SUFFICES ASSUME NoRacingReset PROVE Spec => []Solvent
  OBVIOUS
<1>1. Init => SolvencyInv
  BY SolvencyInductive
<1>2. SolvencyInv /\ [Next]_vars => SolvencyInv'
  BY SolvencyInductive
<1>3. SolvencyInv => Solvent
  BY DEF SolvencyInv
<1>. QED  BY <1>1, <1>2, <1>3, PTL DEF Spec

\* Under the same condition the service implements the atomic ledger: one
\* posting per RRN, covered when it lands, and wipes of everything or nothing.
THEOREM ImplementsLedger == NoRacingReset => (Spec => LedgerSpec)
<1> SUFFICES ASSUME NoRacingReset PROVE Spec => LedgerSpec
  OBVIOUS
<1>1. Init => SolvencyInv /\ Abstract!Init
  BY SolvencyInductive DEF Init, Zero, Abstract!Init, Abstract!Account, Account
<1>2. SolvencyInv /\ [Next]_vars => SolvencyInv'
  BY SolvencyInductive
<1>3. SolvencyInv /\ [Next]_vars => [Abstract!Next]_(Abstract!vars)
  BY StepImplements
<1>. QED  BY <1>1, <1>2, <1>3, PTL DEF Spec, LedgerSpec, Abstract!Spec

-----------------------------------------------------------------------------
(* Answers.  A success stays true because nothing but a purge takes a      *)
(* posting back out of the books, and a purge is seen for ever after.      *)

WipesArePurges == "reset" \notin Maintenance /\ Opened # {}
DetailsReadable == "details_unreadable" \notin Faults

\* A session whose INSERT met its RRN still finds a posting under it.
Conflict ==
    \A s \in Session :
        pc[s] = "details" => (\E q \in posted : q.rrn = req[s].rrn) \/ Purged

AnswerInv ==
    /\ TypeOK
    /\ opPc # "idle" => wipe = "purge"
    /\ Conflict
    /\ SuccessIsRecorded

\* The books only grow, until a purge has emptied the service for good.
LEMMA BooksGrowUntilPurged ==
    ASSUME WipesArePurges, AnswerInv, [Next]_vars
    PROVE  (posted \subseteq posted' \/ Purged') /\ (Purged => Purged')
<1>0. Funding \notin Opened
  BY ConstantsAssumption
<1>1. ASSUME NEW s \in Session, ServePosting(s)
      PROVE  posted \subseteq posted' /\ accounts' = accounts
  BY <1>1 DEF ServePosting, Proceed, Call, Return, Begin, WriteLockTimeout, SelectDebitAccount,
     ReadBalance, InsertTransaction, InsertDebit, InsertCredit, InsertEntry, Commit, CommitAs,
     CommitUnacknowledged, ReadDetails, DetailsUnreadable, ConnectionLost, DeadlockAbort,
     Rollback, tables
<1>2. CASE CommitWipe
  <2>1. accounts' = {}
    BY <1>2 DEF CommitWipe, AnswerInv
  <2>. QED  BY <2>1 DEF WipesArePurges, Purged
<1>3. ASSUME RunWipe, ~CommitWipe
      PROVE  posted' = posted /\ accounts' \subseteq accounts \cup {Funding}
  BY <1>3 DEF RunWipe, StartWipe, BeginWipe, WipeLockTimeout, CountRows, DeleteEntries,
     DeleteTransactions, LockAccount, DeleteAccounts, EnsureSystemAccounts,
     OperatorConnectionLost, DeadlockAbortWipe, OperatorRollback, tables
<1>4. CASE UNCHANGED vars
  BY <1>4 DEF vars, Purged
<1>. QED  BY <1>0, <1>1, <1>2, <1>3, <1>4 DEF Next, Purged

LEMMA AnswerNext ==
    ASSUME WipesArePurges, DetailsReadable, AnswerInv, [Next]_vars
    PROVE  AnswerInv'
<1>0. TypeOK' /\ (posted \subseteq posted' \/ Purged') /\ (Purged => Purged')
  BY TypeNext, BooksGrowUntilPurged DEF AnswerInv
<1>1. (opPc # "idle" => wipe = "purge")'
  <2>1. ASSUME NEW s \in Session, ServePosting(s) PROVE UNCHANGED <<opPc, wipe>>
    BY <2>1 DEF ServePosting, Proceed, Call, Return, Begin, WriteLockTimeout,
       SelectDebitAccount, ReadBalance, InsertTransaction, InsertDebit, InsertCredit,
       InsertEntry, Commit, CommitAs, CommitUnacknowledged, ReadDetails, DetailsUnreadable,
       ConnectionLost, DeadlockAbort, Rollback, operatorVars
  <2>2. ASSUME RunWipe PROVE (opPc # "idle" => wipe = "purge")'
    BY <2>2 DEF RunWipe, StartWipe, BeginWipe, WipeLockTimeout, CountRows, DeleteEntries,
       DeleteTransactions, LockAccount, DeleteAccounts, CommitWipe, EnsureSystemAccounts,
       OperatorConnectionLost, DeadlockAbortWipe, OperatorRollback, OperatorGoto, InTransaction,
       operatorVars, AnswerInv, WipesArePurges
  <2>. QED  BY <2>1, <2>2 DEF Next, vars, AnswerInv
\* What a session is told at this step, if it is told anything.
<1>2. ASSUME NEW s \in Session
      PROVE  \/ pc'[s] = pc[s] /\ req'[s] = req[s]
             \/ pc'[s] = "details" /\ \E q \in posted : q.rrn = req'[s].rrn
             \/ pc'[s] = "recorded" /\ req'[s] \in posted'
             \/ pc'[s] = "already_recorded" /\ (req'[s] \in posted \/ Purged)
             \/ pc'[s] \notin {"details", "recorded", "already_recorded"}
  <2>1. ASSUME NEW t \in Session, t # s, ServePosting(t)
        PROVE  pc'[s] = pc[s] /\ req'[s] = req[s]
    BY <2>1 DEF ServePosting, Proceed, Call, Return, Begin, WriteLockTimeout,
       SelectDebitAccount, ReadBalance, InsertTransaction, InsertDebit, InsertCredit,
       InsertEntry, Commit, CommitAs, CommitUnacknowledged, ReadDetails, DetailsUnreadable,
       ConnectionLost, DeadlockAbort, Rollback, Goto, AnswerInv, TypeOK
  <2>2. CASE RunWipe
    BY <2>2 DEF RunWipe, StartWipe, BeginWipe, WipeLockTimeout, CountRows, DeleteEntries,
       DeleteTransactions, LockAccount, DeleteAccounts, CommitWipe, EnsureSystemAccounts,
       OperatorConnectionLost, DeadlockAbortWipe, OperatorRollback, postingVars
  <2>3. CASE InsertTransaction(s)
    BY <2>3 DEF InsertTransaction, Rollback, Goto, AnswerInv, TypeOK
  <2>4. CASE Commit(s) \/ CommitUnacknowledged(s)
    BY <2>4 DEF Commit, CommitUnacknowledged, CommitAs, Goto, AnswerInv, TypeOK
  <2>5. CASE ReadDetails(s)
    <3>1. (\E q \in posted : q.rrn = req[s].rrn) \/ Purged
      BY <2>5 DEF ReadDetails, AnswerInv, Conflict
    <3>2. \/ pc'[s] = "collision"
          \/ pc'[s] = "already_recorded" /\ \A q \in posted : q.rrn = req[s].rrn => q = req[s]
      BY <2>5 DEF ReadDetails, Goto, AnswerInv, TypeOK
    <3>3. req'[s] = req[s]
      BY <2>5 DEF ReadDetails
    <3>. QED  BY <3>1, <3>2, <3>3
  <2>6. ~DetailsUnreadable(s)
    BY DEF DetailsReadable, DetailsUnreadable
  <2>7. ASSUME NEW p \in Request, Call(s, p) PROVE pc'[s] = "begin"
    BY <2>7 DEF Call, Goto, AnswerInv, TypeOK
  <2>8. CASE Return(s) \/ Begin(s) \/ WriteLockTimeout(s) \/ SelectDebitAccount(s)
             \/ ReadBalance(s) \/ InsertDebit(s) \/ InsertCredit(s)
    BY <2>8 DEF Return, Begin, WriteLockTimeout, SelectDebitAccount, ReadBalance, InsertDebit,
       InsertCredit, InsertEntry, Rollback, Goto, AnswerInv, TypeOK
  <2>9. CASE ConnectionLost(s) \/ DeadlockAbort(s)
    BY <2>9 DEF ConnectionLost, DeadlockAbort, Rollback, Goto, AnswerInv, TypeOK
  <2>10. CASE UNCHANGED vars
    BY <2>10 DEF vars
  <2>. QED  BY <2>1, <2>2, <2>3, <2>4, <2>5, <2>6, <2>7, <2>8, <2>9, <2>10
            DEF Next, ServePosting, Proceed
<1>3. Conflict'
  BY <1>0, <1>2 DEF AnswerInv, Conflict
<1>4. SuccessIsRecorded'
  BY <1>0, <1>2 DEF AnswerInv, SuccessIsRecorded
<1>. QED  BY <1>0, <1>1, <1>3, <1>4 DEF AnswerInv

\* Where the only wipe is the purge and the details of a conflicting posting
\* can be read back, "recorded" and "already_recorded" always name a posting
\* that is in the books, whatever the races, faults and deadlocks.
THEOREM SuccessesAreRecorded ==
    WipesArePurges /\ DetailsReadable => (Spec => []SuccessIsRecorded)
<1> SUFFICES ASSUME WipesArePurges, DetailsReadable PROVE Spec => []SuccessIsRecorded
  OBVIOUS
<1>1. Init => AnswerInv
  BY TypeInit DEF Init, AnswerInv, Conflict, SuccessIsRecorded
<1>2. AnswerInv /\ [Next]_vars => AnswerInv'
  BY AnswerNext
<1>3. AnswerInv => SuccessIsRecorded
  BY DEF AnswerInv
<1>. QED  BY <1>1, <1>2, <1>3, PTL DEF Spec

-----------------------------------------------------------------------------
(* The counts of a wipe.  On SQLite the rows it counted are the rows it    *)
(* deletes, because no posting can commit in between.                      *)

Counting ==
    /\ opPc \in {"deleteEntries", "deleteTransactions", "deleteAccounts", "commit"} =>
         counted = Cardinality(posted)
    /\ opPc \in {"deleteTransactions", "deleteAccounts", "commit"} => doomed = posted

LEMMA CountingNext ==
    ASSUME Dialect = "sqlite", TypeOK, Exclusive, Counting, [Next]_vars
    PROVE  Counting'
<1> USE DEF Counting
<1>1. ASSUME NEW s \in Session, ServePosting(s) PROVE Counting'
  <2>1. CASE Commit(s) \/ CommitUnacknowledged(s)
    <3>1. InTransaction(s) /\ s \in Process /\ Operator \in Process /\ s # Operator
      BY <2>1, ConstantsAssumption DEF Commit, CommitUnacknowledged, CommitAs, InTransaction,
         InTransactionPc, Process
    <3>2. ~InTransaction(Operator)
      BY <3>1 DEF Exclusive
    <3>3. opPc' = opPc
      BY <2>1 DEF Commit, CommitUnacknowledged, CommitAs, operatorVars
    <3>. QED  BY <3>2, <3>3 DEF InTransaction
  <2>2. CASE ~(Commit(s) \/ CommitUnacknowledged(s))
    <3>1. UNCHANGED <<posted, opPc, counted, doomed>>
      BY <1>1, <2>2 DEF ServePosting, Proceed, Call, Return, Begin, WriteLockTimeout,
         SelectDebitAccount, ReadBalance, InsertTransaction, InsertDebit, InsertCredit,
         InsertEntry, ReadDetails, DetailsUnreadable, ConnectionLost, DeadlockAbort, Rollback,
         tables, operatorVars
    <3>. QED  BY <3>1
  <2>. QED  BY <2>1, <2>2
<1>2. CASE RunWipe
  BY <1>2 DEF RunWipe, StartWipe, BeginWipe, WipeLockTimeout, CountRows, DeleteEntries,
     DeleteTransactions, LockAccount, DeleteAccounts, CommitWipe, EnsureSystemAccounts,
     OperatorConnectionLost, DeadlockAbortWipe, OperatorRollback, OperatorGoto, tables,
     operatorVars
<1>3. CASE UNCHANGED vars
  BY <1>3 DEF vars
<1>. QED  BY <1>1, <1>2, <1>3 DEF Next

\* On SQLite the count a wipe reports is the number of postings its commit
\* removes.
THEOREM WipeCountsWhatItRemoves == Dialect = "sqlite" => (Spec => WipeReportsWhatItRemoved)
<1> SUFFICES ASSUME Dialect = "sqlite" PROVE Spec => WipeReportsWhatItRemoved
  OBVIOUS
<1> DEFINE Inv == TypeOK /\ Exclusive /\ Counting
           Reports == opPc = "commit" /\ opPc' = "ensure"
                        => counted = Cardinality(posted) - Cardinality(posted')
<1>1. Init => Inv
  BY TypeInit, ConstantsAssumption DEF Init, Exclusive, InTransaction, InTransactionPc, Process,
     Counting
<1>2. Inv /\ [Next]_vars => Inv'
  BY TypeNext, ExclusiveNext, CountingNext
<1>3. Inv /\ [Next]_vars => [Reports]_vars
  <2> SUFFICES ASSUME Inv, Next, opPc = "commit", opPc' = "ensure"
               PROVE  counted = Cardinality(posted) - Cardinality(posted')
    OBVIOUS
  <2>1. posted' = posted \ doomed
    BY DEF Next, ServePosting, Proceed, Call, Return, Begin, WriteLockTimeout,
       SelectDebitAccount, ReadBalance, InsertTransaction, InsertDebit, InsertCredit,
       InsertEntry, Commit, CommitAs, CommitUnacknowledged, ReadDetails, DetailsUnreadable,
       ConnectionLost, DeadlockAbort, Rollback, operatorVars, RunWipe, StartWipe, BeginWipe,
       WipeLockTimeout, CountRows, DeleteEntries, DeleteTransactions, LockAccount,
       DeleteAccounts, CommitWipe, EnsureSystemAccounts, OperatorConnectionLost,
       DeadlockAbortWipe, OperatorRollback, OperatorGoto
  <2>2. posted' = {} /\ counted = Cardinality(posted)
    BY <2>1 DEF Counting
  <2>3. Cardinality(posted') = 0 /\ Cardinality(posted) \in Nat
    BY <2>2, FS_EmptySet, FS_CardinalityType DEF TypeOK
  <2>. QED  BY <2>2, <2>3
<1>. QED  BY <1>1, <1>2, <1>3, PTL DEF Spec, WipeReportsWhatItRemoved

=============================================================================
