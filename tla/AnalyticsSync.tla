---------------------------- MODULE AnalyticsSync ----------------------------
(***************************************************************************)
(* The hourly CronJob that copies the ledger into ClickHouse               *)
(* (analytics-sync/app/sync.py, warehouse.py) through ledger-service's     *)
(* export endpoint, while postings commit and wipes remove rows.  A        *)
(* posting draws created_at before its transaction begins and becomes      *)
(* visible when it commits; nothing orders the commits by created_at.      *)
(* `late', `exposed' and `offered' are history variables: no action reads  *)
(* them.                                                                   *)
(***************************************************************************)
EXTENDS Integers, FiniteSets, Sequences, SequencesExt, FiniteSetsExt

CONSTANTS
    Rrn,         \* the postings, named by their reference number
    Account,     \* accounts that may be debited
    DebitOf,     \* debit_account_id of each posting
    Run,         \* pods of the CronJob that may exist at a time
    PageSize,    \* SYNC_PAGE_SIZE, the LIMIT of one export
    BatchSize,   \* DEFAULT_BATCH_SIZE, rows of one INSERT
    MaxTime,     \* bound: distinct readings of the ledger's clock
    MaxFailures, \* bound: runs that end with an exception or are killed
    MaxWipes     \* bound: wipes of the ledger

ASSUME ConstantsAssumption ==
    /\ DebitOf \in [Rrn -> Account]
    /\ PageSize \in Nat \ {0} /\ BatchSize \in Nat \ {0}
    /\ MaxTime \in Nat \ {0} /\ MaxFailures \in Nat /\ MaxWipes \in Nat

Time == 1..MaxTime
NoMark == 0        \* no watermark yet: the export has no WHERE clause
SchemaObjects == 4 \* fact table, watermark table, aggregate, materialized view

VARIABLES
    now,       \* the clock of ledger-service
    posting,   \* per RRN: "new", "open", "committed", "rolledBack" or "wiped"
    created,   \* per RRN: created_at, NoMark before it is drawn
    wipes,
    objects,   \* how many of the warehouse's objects exist
    parts,     \* per RRN: rows of fact_transactions, duplicates not merged yet
    agg,       \* per account: txn_count of agg_daily_volume
    marks,     \* rows of etl_watermark in the order of updated_at
    pc,        \* per run: "idle", "start", "fetch", "load", "advance"
    since,     \* per run: the local `watermark'
    page, loaded, \* per run: the rows fetched, how many of them are inserted
    failures,
    late,      \* rows that committed behind a page already read
    exposed,   \* rows inserted by a run that stopped before its watermark moved
    offered    \* per run: rows the last export could see

ledger == <<now, posting, created, wipes>>
warehouse == <<objects, parts, agg, marks>>
locals == <<pc, since, page, loaded>>
history == <<late, exposed, offered>>
vars == <<now, posting, created, wipes, objects, parts, agg, marks,
          pc, since, page, loaded, failures, late, exposed, offered>>

Init ==
    /\ now = 1 /\ wipes = 0 /\ failures = 0
    /\ posting = [r \in Rrn |-> "new"]
    /\ created = [r \in Rrn |-> NoMark]
    /\ objects = 0
    /\ parts = [r \in Rrn |-> 0]
    /\ agg = [a \in Account |-> 0]
    /\ marks = <<>>
    /\ pc = [p \in Run |-> "idle"]
    /\ since = [p \in Run |-> NoMark]
    /\ page = [p \in Run |-> <<>>]
    /\ loaded = [p \in Run |-> 0]
    /\ late = {} /\ exposed = {}
    /\ offered = [p \in Run |-> {}]

Committed == {r \in Rrn : posting[r] = "committed"}
Facts == {r \in Rrn : parts[r] > 0}   \* SELECT ... FROM fact_transactions FINAL

\* A row some run has read, in this page or an earlier one, was created no
\* earlier than r.
Overtaken(r) ==
    \/ \E i \in DOMAIN marks : created[r] <= marks[i]
    \/ \E p \in Run : \E i \in DOMAIN page[p] : created[r] <= created[page[p][i]]

-----------------------------------------------------------------------------
(* ledger-service.                                                         *)

Tick ==
    /\ now < MaxTime
    /\ now' = now + 1
    /\ UNCHANGED <<posting, created, wipes, warehouse, locals, failures, history>>

\* record_posting: now = utc_now_param() comes before the transaction.
Draw(r) ==
    /\ posting[r] = "new"
    /\ posting' = [posting EXCEPT ![r] = "open"]
    /\ created' = [created EXCEPT ![r] = now]
    /\ UNCHANGED <<now, wipes, warehouse, locals, failures, history>>

\* Lock waits and scheduling may let any number of ticks and commits pass.
Commit(r) ==
    /\ posting[r] = "open"
    /\ posting' = [posting EXCEPT ![r] = "committed"]
    /\ late' = IF Overtaken(r) THEN late \cup {r} ELSE late
    /\ UNCHANGED <<now, created, wipes, warehouse, locals, failures, exposed, offered>>

RollBack(r) ==
    /\ posting[r] = "open"
    /\ posting' = [posting EXCEPT ![r] = "rolledBack"]
    /\ UNCHANGED <<now, created, wipes, warehouse, locals, failures, history>>

\* reset or purge: every committed posting goes, the warehouse keeps its copy.
Wipe ==
    /\ wipes < MaxWipes
    /\ Committed # {}
    /\ wipes' = wipes + 1
    /\ posting' = [r \in Rrn |-> IF r \in Committed THEN "wiped" ELSE posting[r]]
    /\ UNCHANGED <<now, created, warehouse, locals, failures, history>>

-----------------------------------------------------------------------------
(* export_since and the warehouse's statements.                            *)

\* WHERE t.created_at > since
Newer(w) == {r \in Committed : created[r] > w}

Sorted(s) == \A i, j \in 1..Len(s) : i < j => created[s[i]] <= created[s[j]]

\* Bug: no ORDER BY, any rows fill the page.
PagesAfter_Unordered(w) ==
    {SubSeq(s, 1, Min({PageSize, Len(s)})) : s \in SetToSeqs(Newer(w))}

\* ORDER BY t.created_at ASC LIMIT n: rows of one created_at in any order.
PagesAfter(w) ==
    {SubSeq(s, 1, Min({PageSize, Len(s)})) : s \in {t \in SetToSeqs(Newer(w)) : Sorted(t)}}

\* Bug: the SELECT without FINAL may return a row that was replaced.
StoredMarks_NotFinal == IF marks = <<>> THEN {NoMark} ELSE Range(marks)

\* get_watermark: the answers the SELECT ... FINAL may give.
StoredMarks == IF marks = <<>> THEN {NoMark} ELSE {Last(marks)}

\* Rows of the page of run p that its next INSERT carries.
Batch(p) == {page[p][i] : i \in (loaded[p] + 1)..Min({loaded[p] + BatchSize, Len(page[p])})}

\* One INSERT: the rows are added to the fact table and the materialized view
\* counts each of them, whether or not the fact table has it already.
Insert(rows) ==
    /\ parts' = [r \in Rrn |-> IF r \in rows THEN parts[r] + 1 ELSE parts[r]]
    /\ agg' = [a \in Account |-> agg[a] + Cardinality({r \in rows : DebitOf[r] = a})]

-----------------------------------------------------------------------------
(* main(), one run of the CronJob.                                         *)

Idle(p) == pc[p] = "idle"

\* Bug: concurrencyPolicy Allow.
Start_Allow(p) ==
    /\ Idle(p)
    /\ pc' = [pc EXCEPT ![p] = "start"]
    /\ UNCHANGED <<ledger, warehouse, since, page, loaded, failures, history>>

\* concurrencyPolicy: Forbid.
Start(p) ==
    /\ \A q \in Run : Idle(q)
    /\ pc' = [pc EXCEPT ![p] = "start"]
    /\ UNCHANGED <<ledger, warehouse, since, page, loaded, failures, history>>

\* ensure_schema, then get_watermark.
Prepare(p) ==
    /\ pc[p] = "start"
    /\ objects' = SchemaObjects
    /\ \E w \in StoredMarks : since' = [since EXCEPT ![p] = w]
    /\ pc' = [pc EXCEPT ![p] = "fetch"]
    /\ UNCHANGED <<ledger, parts, agg, marks, page, loaded, failures, history>>

Finish(p) ==
    /\ pc' = [pc EXCEPT ![p] = "idle"]
    /\ since' = [since EXCEPT ![p] = NoMark]
    /\ page' = [page EXCEPT ![p] = <<>>]
    /\ loaded' = [loaded EXCEPT ![p] = 0]
    /\ offered' = [offered EXCEPT ![p] = {}]

\* fetch_page; no rows: break, exit 0.
Fetch(p) ==
    /\ pc[p] = "fetch"
    /\ IF Newer(since[p]) = {}
         THEN Finish(p)
         ELSE /\ offered' = [offered EXCEPT ![p] = Newer(since[p])]
              /\ \E s \in PagesAfter(since[p]) : page' = [page EXCEPT ![p] = s]
              /\ pc' = [pc EXCEPT ![p] = "load"]
              /\ UNCHANGED <<since, loaded>>
    /\ UNCHANGED <<ledger, warehouse, failures, late, exposed>>

\* load_transactions: one INSERT per batch.
Load(p) ==
    /\ pc[p] = "load"
    /\ Insert(Batch(p))
    /\ loaded' = [loaded EXCEPT ![p] = Min({@ + BatchSize, Len(page[p])})]
    /\ pc' = [pc EXCEPT ![p] = IF loaded'[p] = Len(page[p]) THEN "advance" ELSE "load"]
    /\ UNCHANGED <<ledger, objects, marks, since, page, failures, history>>

\* Bug: the last row's reference number is kept instead of its created_at.
NextMark_Rrn(p) == Last(page[p])

\* watermark = rows[-1]["created_at"], passed back verbatim.
NextMark(p) == created[Last(page[p])]

\* Bug: a full page is taken for the last one.
LastPage_FullPage(p) == Len(page[p]) <= PageSize

\* len(rows) < PAGE_SIZE
LastPage(p) == Len(page[p]) < PageSize

\* set_watermark; on the last page the run ends, exit 0.
Advance(p) ==
    /\ pc[p] = "advance"
    /\ marks' = Append(marks, NextMark(p))
    /\ IF LastPage(p)
         THEN Finish(p)
         ELSE /\ since' = [since EXCEPT ![p] = NextMark(p)]
              /\ page' = [page EXCEPT ![p] = <<>>]
              /\ loaded' = [loaded EXCEPT ![p] = 0]
              /\ offered' = [offered EXCEPT ![p] = {}]
              /\ pc' = [pc EXCEPT ![p] = "fetch"]
    /\ UNCHANGED <<ledger, objects, parts, agg, failures, late, exposed>>

\* Rows this run has inserted and not covered by its watermark.
Unconfirmed(p) == {page[p][i] : i \in 1..loaded[p]}

\* Bug: a run that cannot go on hangs and keeps the next ones from starting.
Stop_Hung(p, rows) ==
    /\ failures < MaxFailures
    /\ failures' = failures + 1
    /\ exposed' = exposed \cup rows
    /\ pc' = [pc EXCEPT ![p] = "hung"]
    /\ UNCHANGED <<since, page, loaded, offered>>

Stop(p, rows) ==
    /\ failures < MaxFailures
    /\ failures' = failures + 1
    /\ exposed' = exposed \cup rows
    /\ Finish(p)

\* An exception (exit 1), or the pod is killed, activeDeadlineSeconds included.
\* There is no retry: the next scheduled run resumes from the watermark.
Fail(p) ==
    /\ ~ Idle(p)
    /\ Stop(p, Unconfirmed(p))
    /\ objects' \in IF pc[p] = "start" THEN objects..SchemaObjects ELSE {objects}
    /\ UNCHANGED <<ledger, parts, agg, marks, late>>

\* The INSERT takes effect and its answer is lost.
LoadUnconfirmed(p) ==
    /\ pc[p] = "load"
    /\ Insert(Batch(p))
    /\ Stop(p, Unconfirmed(p) \cup Batch(p))
    /\ UNCHANGED <<ledger, objects, marks, late>>

AdvanceUnconfirmed(p) ==
    /\ pc[p] = "advance"
    /\ marks' = Append(marks, NextMark(p))
    /\ Stop(p, {})
    /\ UNCHANGED <<ledger, objects, parts, agg, late>>

-----------------------------------------------------------------------------
(* ClickHouse merges parts in the background.                              *)

\* ReplacingMergeTree keeps the newest row of (transaction_ts, rrn).
MergeFacts ==
    /\ \E r \in Rrn : parts[r] > 1
    /\ parts' = [r \in Rrn |-> IF parts[r] > 1 THEN 1 ELSE parts[r]]
    /\ UNCHANGED <<ledger, objects, agg, marks, locals, failures, history>>

\* ReplacingMergeTree(updated_at) ORDER BY table_name.
MergeMarks ==
    /\ Len(marks) > 1
    /\ marks' = <<Last(marks)>>
    /\ UNCHANGED <<ledger, objects, parts, agg, locals, failures, history>>

-----------------------------------------------------------------------------
Sync(p) == Prepare(p) \/ Fetch(p) \/ Load(p) \/ Advance(p)

Next ==
    \/ Tick \/ Wipe
    \/ \E r \in Rrn : Draw(r) \/ Commit(r) \/ RollBack(r)
    \/ \E p \in Run : \/ Start(p) \/ Sync(p) \/ Fail(p)
                      \/ LoadUnconfirmed(p) \/ AdvanceUnconfirmed(p)
    \/ MergeFacts \/ MergeMarks

Spec == Init /\ [][Next]_vars

\* The scheduler starts a run every hour and a run that is not stopped goes on.
FairSpec ==
    /\ Spec
    /\ WF_vars(\E p \in Run : Start(p))
    /\ WF_vars(\E p \in Run : Sync(p))
-----------------------------------------------------------------------------
(* Properties.                                                             *)

TypeOK ==
    /\ now \in Time /\ wipes \in Nat /\ failures \in Nat
    /\ posting \in [Rrn -> {"new", "open", "committed", "rolledBack", "wiped"}]
    /\ created \in [Rrn -> Time \cup {NoMark}]
    /\ objects \in 0..SchemaObjects
    /\ parts \in [Rrn -> Nat]
    /\ agg \in [Account -> Nat]
    /\ marks \in Seq(Time)
    /\ pc \in [Run -> {"idle", "start", "fetch", "load", "advance"}]
    /\ since \in [Run -> Time \cup {NoMark}]
    /\ page \in [Run -> Seq(Rrn)]
    /\ loaded \in [Run -> Nat]
    /\ late \subseteq Rrn /\ exposed \subseteq Rrn
    /\ offered \in [Run -> SUBSET Rrn]

StoredMark == IF marks = <<>> THEN NoMark ELSE Last(marks)

\* What the code leaves out for ever: a row that committed when a row created
\* no earlier had been read, and a row created at the same instant as one that
\* was exported before it.
Excused(r) == r \in late \/ \E q \in Facts \ {r} : created[q] = created[r]

\* The watermark never moves past a visible row: whatever is behind it is in
\* the warehouse, whichever pages, batches and stopped runs brought it there,
\* but for the rows that are excused (sync.py: "rather than skipping rows").
NothingSkipped ==
    \A r \in Committed :
        created[r] <= StoredMark => r \in Facts \/ Excused(r)

\* The daily aggregate, which counts before duplicates are merged, agrees with
\* the fact table for every account none of whose rows was inserted by a run
\* that stopped before confirming them (mv_daily_volume, set_watermark).
HonestAggregate ==
    \A a \in Account :
        LET rows == {r \in Rrn : DebitOf[r] = a} IN
        rows \cap exposed = {} => agg[a] = Cardinality(rows \cap Facts)

\* A run that exits 0 has loaded every row its last export could see, rows
\* created at the same instant included (main's two breaks).
CleanExitMissesNothing ==
    [][\A p \in Run :
         pc[p] # "idle" /\ pc'[p] = "idle" /\ failures' = failures
           => offered[p] \subseteq Facts']_vars

\* Every committed posting reaches the warehouse, through any finite number of
\* failed runs, unless it is excused or wiped first.
EventuallyLoaded ==
    \A r \in Rrn :
        posting[r] = "committed"
          ~> (r \in Facts \/ Excused(r) \/ posting[r] = "wiped")
=============================================================================
