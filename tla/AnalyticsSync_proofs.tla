------------------------ MODULE AnalyticsSync_proofs ------------------------
(***************************************************************************)
(* Theorems about AnalyticsSync for any postings, accounts, runs, page and *)
(* batch sizes.  The invariant relates the three places where a row can    *)
(* be: behind the watermark, in the page of the one run, or not read yet.  *)
(***************************************************************************)
EXTENDS AnalyticsSync, TLAPS, FiniteSetTheorems, SequenceTheorems

-----------------------------------------------------------------------------
(* The inductive invariant.                                                *)

Drawn == {r \in Rrn : posting[r] # "new"}

\* Postings have their created_at from the moment they are drawn, and only
\* such rows are exported.
Ledger ==
    /\ IsFiniteSet(Drawn)
    /\ \A r \in Rrn : created[r] = NoMark <=> r \notin Drawn
    /\ Facts \subseteq Drawn

\* concurrencyPolicy Forbid: one run at a time.
OneRun == \A p, q \in Run : ~ Idle(p) /\ ~ Idle(q) => p = q

HasPage(p) == pc[p] \in {"load", "advance"}

\* Between pages a run keeps nothing but the watermark it goes on from, which
\* is the stored one.
Keeps(p) ==
    /\ pc[p] \in {"idle", "start"} => since[p] = NoMark
    /\ pc[p] \notin {"idle", "start"} => since[p] = StoredMark
    /\ ~ HasPage(p) => page[p] = <<>> /\ loaded[p] = 0 /\ offered[p] = {}
Locals == \A p \in Run : Keeps(p)

\* The rows of a page are distinct, in the order of created_at and newer than
\* the watermark; the first `loaded' of them are in the warehouse; a page that
\* is not full has everything the export could see.
Page(p) ==
    /\ page[p] # <<>>
    /\ \A i \in DOMAIN page[p] : created[page[p][i]] > since[p]
    /\ \A i, j \in DOMAIN page[p] : page[p][i] = page[p][j] => i = j
    /\ Sorted(page[p])
    /\ loaded[p] <= Len(page[p])
    /\ \A i \in 1..loaded[p] : page[p][i] \in Facts
    /\ pc[p] = "advance" => loaded[p] = Len(page[p])
    /\ LastPage(p) => \A r \in offered[p] : \E i \in DOMAIN page[p] : page[p][i] = r

\* Nothing visible is behind the page: a row created no later than the last
\* one of the page is in the warehouse, excused, or as old as one in the page.
Behind(p) ==
    \A r \in Committed :
        created[r] <= NextMark(p) =>
            \/ r \in Facts \/ Excused(r)
            \/ \E i \in DOMAIN page[p] : created[page[p][i]] = created[r]

Pages == \A p \in Run : HasPage(p) => Page(p) /\ Behind(p)

\* A row in the warehouse is behind the watermark, in the part of a page that
\* is loaded, or was left by a run that stopped.
Accounted ==
    \A r \in Facts :
        \/ r \in exposed
        \/ created[r] <= StoredMark
        \/ \E p \in Run : r \in Unconfirmed(p)

SyncInv == /\ TypeOK /\ Ledger /\ OneRun /\ Locals /\ Pages /\ Accounted
           /\ NothingSkipped /\ HonestAggregate

-----------------------------------------------------------------------------
(* Operators of the model.                                                 *)

LEMMA MinOfTwo ==
    ASSUME NEW a \in Int, NEW b \in Int
    PROVE  Min({a, b}) = IF a <= b THEN a ELSE b
BY DEF Min

\* SetToSeqs enumerates every element, once.
LEMMA Enumeration ==
    ASSUME NEW S, IsFiniteSet(S), NEW s \in SetToSeqs(S)
    PROVE  /\ s \in Seq(S) /\ Len(s) = Cardinality(S)
           /\ \A i, j \in 1..Len(s) : s[i] = s[j] => i = j
           /\ \A x \in S : \E i \in 1..Len(s) : s[i] = x
<1> DEFINE n == Cardinality(S)
<1>1. n \in Nat
  BY FS_CardinalityType
<1>2. s \in [1..n -> S] /\ \A i, j \in 1..n : s[i] = s[j] => i = j
  BY DEF SetToSeqs
<1>3. s \in Seq(S) /\ Len(s) = n
  BY <1>1, <1>2
<1>4. s \in Injection(1..n, S)
  BY <1>2 DEF Injection, IsInjective
<1>5. Cardinality(1..n) = n
  BY <1>1, FS_Interval
<1>6. s \in Surjection(1..n, S)
  BY <1>4, <1>5, FS_Injection
<1>. QED  BY <1>2, <1>3, <1>6 DEF Surjection

\* A page is a first part of the rows in the order of created_at: what it
\* leaves out comes after its last row, and it leaves nothing out unless full.
LEMMA PageOfRows ==
    ASSUME TypeOK, NEW w, IsFiniteSet(Newer(w)), Newer(w) # {}, NEW s \in PagesAfter(w)
    PROVE  /\ s \in Seq(Newer(w)) /\ s # <<>> /\ Len(s) <= PageSize
           /\ \A i, j \in 1..Len(s) : s[i] = s[j] => i = j
           /\ Sorted(s)
           /\ \A r \in Newer(w) :
                 \/ \E i \in 1..Len(s) : s[i] = r
                 \/ Len(s) = PageSize /\ created[Last(s)] <= created[r]
<1> DEFINE S == Newer(w)
<1>1. PICK t \in SetToSeqs(S) : Sorted(t) /\ s = SubSeq(t, 1, Min({PageSize, Len(t)}))
  BY DEF PagesAfter
<1>2. /\ t \in Seq(S) /\ Len(t) = Cardinality(S)
      /\ \A i, j \in 1..Len(t) : t[i] = t[j] => i = j
      /\ \A x \in S : \E i \in 1..Len(t) : t[i] = x
  BY Enumeration
<1>3. Cardinality(S) \in Nat \ {0}
  BY FS_CardinalityType, FS_EmptySet
<1> DEFINE k == Min({PageSize, Len(t)})
<1>4. k \in 1..Len(t) /\ k <= PageSize /\ (k = PageSize \/ k = Len(t))
  BY <1>2, <1>3, MinOfTwo, ConstantsAssumption
<1>5. \A i \in 1..k : t[i] \in S
  BY <1>2, <1>4
<1> HIDE DEF k, S
<1>6. s = SubSeq(t, 1, k)
  BY <1>1 DEF k
<1>7. s \in Seq(S) /\ Len(s) = k /\ \A i \in 1..k : s[i] = t[i]
  <2>1. k \in Int /\ 1 <= k
    BY <1>2, <1>3, <1>4
  <2>2. SubSeq(t, 1, k) \in Seq(S)
    BY <1>5, <2>1, SubSeqProperties
  <2>3. Len(SubSeq(t, 1, k)) = k - 1 + 1 /\ \A i \in 1..(k - 1 + 1) : SubSeq(t, 1, k)[i] = t[1 + i - 1]
    BY <1>5, <2>1, SubSeqProperties
  <2>4. \A i \in 1..k : 1 + i - 1 = i
    BY <2>1
  <2>. QED  BY <1>6, <2>1, <2>2, <2>3, <2>4
<1>8. Len(t) \in Nat
  BY <1>2, <1>3
<1>9. s # <<>> /\ Len(s) <= PageSize
  BY <1>4, <1>7, <1>8
<1>10. \A i, j \in 1..Len(s) : s[i] = s[j] => i = j
  BY <1>2, <1>4, <1>7, <1>8
<1>11. Sorted(s)
  <2>1. \A i, j \in 1..Len(t) : i < j => created[t[i]] <= created[t[j]]
    BY <1>1 DEF Sorted
  <2>2. \A i \in 1..Len(s) : i \in 1..Len(t) /\ s[i] = t[i]
    BY <1>4, <1>7, <1>8
  <2>. QED  BY <2>1, <2>2 DEF Sorted
<1>12. ASSUME NEW r \in S
       PROVE  \/ \E i \in 1..Len(s) : s[i] = r
              \/ Len(s) = PageSize /\ created[Last(s)] <= created[r]
  <2>1. PICK i \in 1..Len(t) : t[i] = r
    BY <1>2
  <2>2. CASE i <= k
    BY <1>4, <1>7, <1>8, <2>1, <2>2
  <2>3. CASE k < i
    <3>1. created[t[k]] <= created[t[i]]
      BY <1>1, <1>4, <2>3 DEF Sorted
    <3>2. Last(s) = t[k]
      BY <1>4, <1>7, <1>8 DEF Last
    <3>. QED  BY <1>4, <1>7, <1>8, <2>1, <2>3, <3>1, <3>2
  <2>. QED  BY <1>4, <1>8, <2>2, <2>3
<1>. QED  BY <1>7, <1>9, <1>10, <1>11, <1>12 DEF S

LEMMA MarkType == ASSUME TypeOK PROVE StoredMark \in Time \cup {NoMark}
BY LenProperties, EmptySeq DEF TypeOK, StoredMark, Last

\* A watermark that is appended is the stored one.
LEMMA MarkAppended ==
    ASSUME TypeOK, NEW w \in Time, marks' = Append(marks, w)
    PROVE  marks' \in Seq(Time) /\ StoredMark' = w
<1>1. marks \in Seq(Time)
  BY DEF TypeOK
<1>2. /\ marks' \in Seq(Time) /\ marks' # <<>> /\ Len(marks') = Len(marks) + 1
      /\ marks'[Len(marks) + 1] = w
  BY <1>1, AppendProperties
<1>. QED  BY <1>2 DEF StoredMark, Last

\* The rows of a page, and its last one.
LEMMA RowsOfPage ==
    ASSUME TypeOK, Ledger, NEW p \in Run, Page(p)
    PROVE  /\ Len(page[p]) \in Nat \ {0} /\ DOMAIN page[p] = 1..Len(page[p])
           /\ \A i \in 1..Len(page[p]) :
                 /\ page[p][i] \in Drawn
                 /\ created[page[p][i]] \in Time
                 /\ since[p] < created[page[p][i]]
                 /\ created[page[p][i]] <= NextMark(p)
           /\ NextMark(p) \in Time /\ since[p] < NextMark(p)
           /\ Last(page[p]) = page[p][Len(page[p])]
<1>1. page[p] \in Seq(Rrn) /\ page[p] # <<>> /\ since[p] \in Time \cup {NoMark}
  BY DEF Page, TypeOK
<1>2. Len(page[p]) \in Nat \ {0} /\ DOMAIN page[p] = 1..Len(page[p])
  BY <1>1, EmptySeq, LenProperties
<1>3. ASSUME NEW i \in 1..Len(page[p])
      PROVE  /\ page[p][i] \in Rrn
             /\ created[page[p][i]] \in Time
             /\ since[p] < created[page[p][i]]
  <2>1. page[p][i] \in Rrn
    BY <1>1, <1>3, ElementOfSeq
  <2>2. created[page[p][i]] > since[p]
    BY <1>2, <1>3 DEF Page
  <2>3. created[page[p][i]] \in Time \cup {NoMark}
    BY <2>1 DEF TypeOK
  <2>. QED  BY <1>1, <2>1, <2>2, <2>3, ConstantsAssumption DEF Time, NoMark
<1>4. ASSUME NEW i \in 1..Len(page[p]) PROVE page[p][i] \in Drawn
  BY <1>3, <1>4 DEF Ledger, Time, NoMark
<1>5. Last(page[p]) = page[p][Len(page[p])] /\ Len(page[p]) \in 1..Len(page[p])
  BY <1>2 DEF Last
<1>6. NextMark(p) = created[page[p][Len(page[p])]]
  BY <1>5 DEF NextMark
<1>7. ASSUME NEW i \in 1..Len(page[p]) PROVE created[page[p][i]] <= NextMark(p)
  <2>1. CASE i = Len(page[p])
    BY <1>3, <1>6, <2>1, ConstantsAssumption DEF Time
  <2>2. CASE i < Len(page[p])
    BY <1>2, <1>5, <1>6, <2>2 DEF Page, Sorted
  <2>. QED  BY <1>2, <2>1, <2>2
<1>. QED  BY <1>2, <1>3, <1>4, <1>5, <1>6, <1>7

\* What one INSERT carries: rows of the page that are not loaded yet.
LEMMA RowsOfBatch ==
    ASSUME TypeOK, Ledger, NEW p \in Run, Page(p),
           NEW reached, reached = Min({loaded[p] + BatchSize, Len(page[p])})
    PROVE  /\ loaded[p] \in Nat /\ reached \in Nat
           /\ loaded[p] <= reached /\ reached <= Len(page[p])
           /\ Batch(p) \subseteq Drawn
           /\ \A r \in Batch(p) : \E i \in 1..reached : i > loaded[p] /\ page[p][i] = r
           /\ \A i \in 1..reached : i <= loaded[p] \/ page[p][i] \in Batch(p)
<1>1. loaded[p] \in Nat /\ loaded[p] <= Len(page[p]) /\ Len(page[p]) \in Nat
  BY RowsOfPage DEF TypeOK, Page
<1>2. reached \in Nat /\ loaded[p] <= reached /\ reached <= Len(page[p])
  BY <1>1, MinOfTwo, ConstantsAssumption
<1>3. Batch(p) = {page[p][i] : i \in (loaded[p] + 1)..reached}
  BY DEF Batch
<1>4. \A r \in Batch(p) : \E i \in 1..reached : i > loaded[p] /\ page[p][i] = r
  <2>1. \A i \in (loaded[p] + 1)..reached : i \in 1..reached /\ i > loaded[p]
    BY <1>1, <1>2
  <2>. QED  BY <1>3, <2>1
<1>5. Batch(p) \subseteq Drawn
  <2>1. \A i \in 1..Len(page[p]) : page[p][i] \in Drawn
    BY RowsOfPage
  <2>2. \A i \in 1..reached : i \in 1..Len(page[p])
    BY <1>1, <1>2
  <2>. QED  BY <1>4, <2>1, <2>2
<1>6. \A i \in 1..reached : i <= loaded[p] \/ page[p][i] \in Batch(p)
  <2>1. \A i \in 1..reached : i <= loaded[p] \/ i \in (loaded[p] + 1)..reached
    BY <1>1, <1>2
  <2>. QED  BY <1>3, <2>1
<1>. QED  BY <1>1, <1>2, <1>4, <1>5, <1>6

LEMMA LoadedRows ==
    ASSUME TypeOK, Ledger, NEW p \in Run, Page(p)
    PROVE  Unconfirmed(p) \subseteq Drawn
<1>1. loaded[p] \in Nat /\ loaded[p] <= Len(page[p]) /\ Len(page[p]) \in Nat
  BY RowsOfPage DEF TypeOK, Page
<1>2. \A i \in 1..loaded[p] : i \in 1..Len(page[p])
  BY <1>1
<1>3. \A i \in 1..Len(page[p]) : page[p][i] \in Drawn
  BY RowsOfPage
<1>. QED  BY <1>2, <1>3 DEF Unconfirmed

\* The effect of an INSERT on the fact table and on the counts.
LEMMA InsertEffect ==
    ASSUME TypeOK, Ledger, NEW rows, rows \subseteq Drawn, Insert(rows)
    PROVE  /\ parts' \in [Rrn -> Nat] /\ agg' \in [Account -> Nat]
           /\ Facts' = Facts \cup rows
<1>1. rows \subseteq Rrn /\ IsFiniteSet(rows)
  BY FS_Subset DEF Ledger, Drawn
<1>2. parts' \in [Rrn -> Nat] /\ Facts' = Facts \cup rows
  BY <1>1 DEF Insert, TypeOK, Facts
<1>3. ASSUME NEW a \in Account PROVE agg[a] + Cardinality({r \in rows : DebitOf[r] = a}) \in Nat
  <2>1. IsFiniteSet({r \in rows : DebitOf[r] = a})
    BY <1>1, FS_Subset
  <2>. QED  BY <2>1, FS_CardinalityType DEF TypeOK
<1>. QED  BY <1>2, <1>3 DEF Insert

\* The counts stay honest when the rows inserted are new to the fact table or
\* given up to `exposed'.
LEMMA InsertCounts ==
    ASSUME TypeOK, Ledger, HonestAggregate, NEW rows, rows \subseteq Drawn, Insert(rows),
           exposed \subseteq exposed', \A r \in rows : r \notin Facts \/ r \in exposed'
    PROVE  HonestAggregate'
<1> SUFFICES ASSUME NEW a \in Account, {r \in Rrn : DebitOf[r] = a} \cap exposed' = {}
             PROVE  agg'[a] = Cardinality({r \in Rrn : DebitOf[r] = a} \cap Facts')
  BY DEF HonestAggregate
<1> DEFINE R == {r \in Rrn : DebitOf[r] = a}
           B == {r \in rows : DebitOf[r] = a}
<1>1. rows \subseteq Rrn /\ IsFiniteSet(B) /\ IsFiniteSet(R \cap Facts)
  BY FS_Subset DEF Ledger, Drawn
<1>2. agg[a] = Cardinality(R \cap Facts)
  BY DEF HonestAggregate
<1>3. R \cap Facts' = (R \cap Facts) \cup B
  BY <1>1, InsertEffect
<1>4. (R \cap Facts) \cap B = {}
  BY <1>1
<1>5. Cardinality(R \cap Facts') = Cardinality(R \cap Facts) + Cardinality(B) - Cardinality({})
  BY <1>1, <1>3, <1>4, FS_Union
<1>6. /\ Cardinality({}) = 0 /\ Cardinality(R \cap Facts) \in Nat /\ Cardinality(B) \in Nat
  BY <1>1, FS_EmptySet, FS_CardinalityType
<1>7. agg'[a] = agg[a] + Cardinality(B)
  BY DEF Insert
<1>. QED  BY <1>2, <1>5, <1>6, <1>7

-----------------------------------------------------------------------------
(* Types.                                                                  *)

LEMMA TypeInit == Init => TypeOK
<1> SUFFICES ASSUME Init PROVE TypeOK
  OBVIOUS
<1>1. now \in Time
  BY ConstantsAssumption DEF Init, Time
<1>2. marks \in Seq(Time) /\ page \in [Run -> Seq(Rrn)]
  BY EmptySeq DEF Init
<1>. QED  BY <1>1, <1>2 DEF Init, TypeOK, SchemaObjects

LEMMA TypeNext == ASSUME TypeOK, Ledger, Locals, Pages, [Next]_vars PROVE TypeOK'
<1> USE DEF TypeOK
<1>0. ASSUME NEW p \in Run, HasPage(p) PROVE Page(p)
  BY <1>0 DEF Pages
\* Forgetting the locals.
<1>1. ASSUME NEW p \in Run, Finish(p)
      PROVE  /\ pc' \in [Run -> {"idle", "start", "fetch", "load", "advance"}]
             /\ since' \in [Run -> Time \cup {NoMark}] /\ page' \in [Run -> Seq(Rrn)]
             /\ loaded' \in [Run -> Nat] /\ offered' \in [Run -> SUBSET Rrn]
  BY <1>1, EmptySeq DEF Finish
<1>2. ASSUME NEW p \in Run, NEW rows, rows \subseteq Rrn, Stop(p, rows)
      PROVE  failures' \in Nat /\ exposed' \subseteq Rrn
  BY <1>2 DEF Stop
<1>3. CASE Tick
  BY <1>3, ConstantsAssumption DEF Tick, Time, ledger, warehouse, locals, history
<1>4. CASE Wipe
  BY <1>4 DEF Wipe, ledger, warehouse, locals, history
<1>5. ASSUME NEW r \in Rrn, Draw(r) \/ Commit(r) \/ RollBack(r) PROVE TypeOK'
  BY <1>5 DEF Draw, Commit, RollBack, warehouse, locals, history
<1>6. ASSUME NEW p \in Run, Start(p) PROVE TypeOK'
  BY <1>6 DEF Start, ledger, warehouse, history
<1>7. ASSUME NEW p \in Run, Prepare(p) PROVE TypeOK'
  <2>1. StoredMarks \subseteq Time \cup {NoMark}
    BY MarkType DEF StoredMarks, StoredMark
  <2>. QED  BY <1>7, <2>1 DEF Prepare, SchemaObjects, ledger, history
<1>8. ASSUME NEW p \in Run, Fetch(p) PROVE TypeOK'
  <2>1. CASE Newer(since[p]) = {}
    BY <1>1, <1>8, <2>1 DEF Fetch, ledger, warehouse
  <2>2. CASE Newer(since[p]) # {}
    <3>1. PICK s \in PagesAfter(since[p]) : page' = [page EXCEPT ![p] = s]
      BY <1>8, <2>2 DEF Fetch
    <3>2. IsFiniteSet(Newer(since[p])) /\ Newer(since[p]) \subseteq Rrn
      BY FS_Subset DEF Ledger, Newer, Committed, Drawn
    <3>3. s \in Seq(Rrn)
      <4>1. s \in Seq(Newer(since[p]))
        BY <2>2, <3>1, <3>2, PageOfRows
      <4>2. PICK n \in Nat : s \in [1..n -> Newer(since[p])]
        BY <4>1, LenProperties
      <4>3. s \in [1..n -> Rrn]
        BY <3>2, <4>2
      <4>. QED  BY <4>3
    <3>. QED  BY <1>8, <2>2, <3>1, <3>2, <3>3, ZenonT(60) DEF Fetch, ledger, warehouse
  <2>. QED  BY <2>1, <2>2
<1>9. ASSUME NEW p \in Run, Load(p) PROVE TypeOK'
  <2>1. Page(p)
    BY <1>0, <1>9 DEF Load, HasPage
  <2>2. PICK reached : reached = Min({loaded[p] + BatchSize, Len(page[p])})
    OBVIOUS
  <2>3. reached \in Nat /\ Batch(p) \subseteq Drawn
    BY <2>1, <2>2, RowsOfBatch
  <2>4. parts' \in [Rrn -> Nat] /\ agg' \in [Account -> Nat]
    BY <1>9, <2>3, InsertEffect DEF Load
  <2>5. loaded' = [loaded EXCEPT ![p] = reached]
    BY <1>9, <2>2 DEF Load
  <2>6. pc' \in [Run -> {"idle", "start", "fetch", "load", "advance"}]
    BY <1>9 DEF Load
  <2>. QED  BY <1>9, <2>3, <2>4, <2>5, <2>6 DEF Load, ledger, history
<1>10. ASSUME NEW p \in Run, pc[p] = "advance", marks' = Append(marks, NextMark(p))
       PROVE  marks' \in Seq(Time) /\ NextMark(p) \in Time
  <2>1. NextMark(p) \in Time
    BY <1>0, <1>10, RowsOfPage DEF HasPage
  <2>. QED  BY <1>10, <2>1, MarkAppended
<1>11. ASSUME NEW p \in Run, Advance(p) PROVE TypeOK'
  <2>1. marks' \in Seq(Time) /\ NextMark(p) \in Time
    BY <1>10, <1>11 DEF Advance
  <2>2. CASE LastPage(p)
    BY <1>1, <1>11, <2>1, <2>2 DEF Advance, ledger
  <2>3. CASE ~LastPage(p)
    <3>1. /\ since' = [since EXCEPT ![p] = NextMark(p)] /\ page' = [page EXCEPT ![p] = <<>>]
          /\ loaded' = [loaded EXCEPT ![p] = 0] /\ offered' = [offered EXCEPT ![p] = {}]
          /\ pc' = [pc EXCEPT ![p] = "fetch"]
      BY <1>11, <2>3 DEF Advance
    <3>2. page' \in [Run -> Seq(Rrn)]
      BY <3>1, EmptySeq
    <3>3. since' \in [Run -> Time \cup {NoMark}]
      BY <2>1, <3>1
    <3>4. /\ pc' \in [Run -> {"idle", "start", "fetch", "load", "advance"}]
          /\ loaded' \in [Run -> Nat] /\ offered' \in [Run -> SUBSET Rrn]
      BY <3>1
    <3>. QED  BY <1>11, <2>1, <3>2, <3>3, <3>4 DEF Advance, ledger
  <2>. QED  BY <2>2, <2>3
<1>12. ASSUME NEW p \in Run, Fail(p) PROVE TypeOK'
  <2>1. Unconfirmed(p) \subseteq Rrn
    <3>1. CASE HasPage(p)
      BY <1>0, <3>1, LoadedRows DEF Drawn
    <3>2. CASE loaded[p] = 0
      BY <3>2 DEF Unconfirmed
    <3>. QED  BY <3>1, <3>2 DEF Locals, Keeps
  <2>2. Finish(p) /\ failures' \in Nat /\ exposed' \subseteq Rrn
    BY <1>2, <1>12, <2>1 DEF Fail, Stop
  <2>3. objects' \in 0..SchemaObjects
    BY <1>12 DEF Fail, SchemaObjects
  <2>. QED  BY <1>1, <1>12, <2>2, <2>3 DEF Fail, ledger
<1>13. ASSUME NEW p \in Run, LoadUnconfirmed(p) PROVE TypeOK'
  <2>1. Page(p)
    BY <1>0, <1>13 DEF LoadUnconfirmed, HasPage
  <2>2. Batch(p) \subseteq Drawn /\ Unconfirmed(p) \subseteq Drawn
    BY <2>1, RowsOfBatch, LoadedRows
  <2>3. parts' \in [Rrn -> Nat] /\ agg' \in [Account -> Nat]
    BY <1>13, <2>2, InsertEffect DEF LoadUnconfirmed
  <2>4. Finish(p) /\ failures' \in Nat /\ exposed' \subseteq Rrn
    BY <1>2, <1>13, <2>2 DEF LoadUnconfirmed, Stop, Drawn
  <2>. QED  BY <1>1, <1>13, <2>3, <2>4 DEF LoadUnconfirmed, ledger
<1>14. ASSUME NEW p \in Run, AdvanceUnconfirmed(p) PROVE TypeOK'
  <2>1. marks' \in Seq(Time)
    BY <1>10, <1>14 DEF AdvanceUnconfirmed
  <2>2. Finish(p) /\ failures' \in Nat /\ exposed' \subseteq Rrn
    BY <1>2, <1>14 DEF AdvanceUnconfirmed, Stop
  <2>. QED  BY <1>1, <1>14, <2>1, <2>2 DEF AdvanceUnconfirmed, ledger
<1>15. CASE MergeFacts
  BY <1>15 DEF MergeFacts, ledger, locals, history
<1>16. CASE MergeMarks
  <2>1. Len(marks) \in Nat /\ marks # <<>>
    BY <1>16, LenProperties, EmptySeq DEF MergeMarks
  <2>2. Last(marks) \in Time
    BY <1>16, <2>1, ElementOfSeq DEF MergeMarks, Last
  <2>. QED  BY <1>16, <2>2 DEF MergeMarks, ledger, locals, history
<1>17. CASE UNCHANGED vars
  BY <1>17 DEF vars
<1>. QED  BY <1>3, <1>4, <1>5, <1>6, <1>7, <1>8, <1>9, <1>11, <1>12, <1>13, <1>14, <1>15,
          <1>16, <1>17 DEF Next, Sync

-----------------------------------------------------------------------------
(* Steps of ledger-service.                                                *)

\* The ledger may draw, commit, roll back and wipe rows behind the back of a
\* run: what the run has read is still in order, and a row that commits behind
\* it is late.
LEMMA LedgerSteps ==
    ASSUME SyncInv, TypeOK', Ledger', UNCHANGED <<warehouse, locals, exposed, offered>>,
           late \subseteq late', \A r \in Drawn : created'[r] = created[r],
           \A r \in Committed' : r \in Drawn /\ (r \in Committed \/ r \in late' \/ ~Overtaken(r))
    PROVE  SyncInv'
<1> USE DEF SyncInv
<1>1. /\ UNCHANGED <<parts, agg, marks, pc, since, page, loaded, exposed, offered>>
      /\ Facts' = Facts /\ StoredMark' = StoredMark
  BY DEF warehouse, locals, Facts, StoredMark
<1>2. OneRun' /\ Locals'
  BY <1>1 DEF OneRun, Idle, Locals, Keeps, HasPage
<1>3. Facts \subseteq Drawn
  BY DEF Ledger
<1>4. ASSUME NEW r \in Drawn, Excused(r) PROVE Excused(r)'
  BY <1>1, <1>3, <1>4 DEF Excused
<1>5. ASSUME NEW p \in Run, HasPage(p)
      PROVE  /\ Page(p) /\ Behind(p)
             /\ DOMAIN page[p] = 1..Len(page[p])
             /\ \A i \in 1..Len(page[p]) : page[p][i] \in Drawn
                                           /\ created'[page[p][i]] = created[page[p][i]]
             /\ Last(page[p]) = page[p][Len(page[p])] /\ Len(page[p]) \in 1..Len(page[p])
             /\ NextMark(p)' = NextMark(p)
  <2>1. Page(p) /\ Behind(p)
    BY <1>5 DEF Pages
  <2>2. /\ DOMAIN page[p] = 1..Len(page[p]) /\ Len(page[p]) \in 1..Len(page[p])
        /\ \A i \in 1..Len(page[p]) : page[p][i] \in Drawn
        /\ Last(page[p]) = page[p][Len(page[p])]
    BY <2>1, RowsOfPage
  <2>3. Last(page[p]) \in Drawn
    BY <2>2
  <2>. QED  BY <1>1, <2>1, <2>2, <2>3 DEF NextMark
<1>6. ASSUME NEW p \in Run, HasPage(p) PROVE Page(p)'
  <2>1. Page(p)
    BY <1>5, <1>6
  <2>2. \A i \in DOMAIN page'[p] : created'[page'[p][i]] > since'[p]
    BY <1>1, <1>5, <1>6, <2>1 DEF Page
  <2>3. Sorted(page[p])'
    BY <1>1, <1>5, <1>6, <2>1 DEF Page, Sorted
  <2>. QED  BY <1>1, <2>1, <2>2, <2>3 DEF Page, LastPage
<1>7. ASSUME NEW p \in Run, HasPage(p) PROVE Behind(p)'
  <2> SUFFICES ASSUME NEW r \in Committed', created'[r] <= NextMark(p)'
               PROVE  \/ r \in Facts' \/ Excused(r)'
                      \/ \E i \in DOMAIN page'[p] : created'[page'[p][i]] = created'[r]
    BY DEF Behind
  <2>1. r \in Drawn /\ created'[r] = created[r] /\ created[r] <= NextMark(p)
    BY <1>5, <1>7
  <2>2. CASE r \in Committed
    BY <1>1, <1>4, <1>5, <1>7, <2>1, <2>2 DEF Behind
  <2>3. CASE r \notin Committed
    <3>1. Overtaken(r)
      BY <1>5, <1>7, <2>1 DEF Overtaken, NextMark
    <3>. QED  BY <2>3, <3>1 DEF Excused
  <2>. QED  BY <2>2, <2>3
<1>8. Pages'
  BY <1>1, <1>6, <1>7 DEF Pages, HasPage
<1>9. Accounted'
  BY <1>1, <1>3 DEF Accounted, Unconfirmed
<1>10. NothingSkipped'
  <2> SUFFICES ASSUME NEW r \in Committed', created'[r] <= StoredMark'
               PROVE  r \in Facts' \/ Excused(r)'
    BY DEF NothingSkipped
  <2>1. r \in Drawn /\ created'[r] = created[r] /\ created[r] <= StoredMark
    BY <1>1
  <2>2. CASE r \in Committed
    BY <1>1, <1>4, <2>1, <2>2 DEF NothingSkipped
  <2>3. CASE r \notin Committed
    <3>1. created[r] \in Time
      BY <2>1 DEF Ledger, TypeOK, Drawn
    <3>2. marks # <<>>
      BY <2>1, <3>1, ConstantsAssumption DEF StoredMark, Time, NoMark
    <3>3. Len(marks) \in DOMAIN marks /\ StoredMark = marks[Len(marks)]
      BY <3>2, EmptySeq, LenProperties DEF StoredMark, Last, TypeOK
    <3>4. Overtaken(r)
      BY <2>1, <3>3 DEF Overtaken
    <3>. QED  BY <2>3, <3>4 DEF Excused
  <2>. QED  BY <2>2, <2>3
<1>11. HonestAggregate'
  BY <1>1 DEF HonestAggregate
<1>. QED  BY <1>2, <1>8, <1>9, <1>10, <1>11

LEMMA LedgerNext ==
    ASSUME SyncInv, TypeOK', Tick \/ Wipe \/ \E r \in Rrn : Draw(r) \/ Commit(r) \/ RollBack(r)
    PROVE  SyncInv'
<1>0. TypeOK /\ Ledger
  BY DEF SyncInv
<1>1. UNCHANGED <<warehouse, locals, exposed, offered>> /\ Facts' = Facts
  BY DEF Tick, Wipe, Draw, Commit, RollBack, history, warehouse, Facts
<1>2. CASE Tick
  BY <1>0, <1>1, <1>2, LedgerSteps DEF Tick, history, Ledger, Drawn, Committed
<1>3. CASE Wipe
  <2>1. Drawn' = Drawn /\ Committed' = {} /\ created' = created /\ late' = late
    BY <1>0, <1>3 DEF Wipe, history, Drawn, Committed, TypeOK
  <2>2. Ledger'
    BY <1>0, <1>1, <2>1 DEF Ledger
  <2>. QED  BY <1>1, <2>1, <2>2, LedgerSteps
<1>4. ASSUME NEW r \in Rrn, Draw(r) PROVE SyncInv'
  <2>1. /\ r \notin Drawn /\ Drawn' = Drawn \cup {r} /\ Committed' = Committed
        /\ created' = [created EXCEPT ![r] = now] /\ late' = late
    BY <1>0, <1>4 DEF Draw, history, Drawn, Committed, TypeOK
  <2>2. now # NoMark
    BY <1>0, ConstantsAssumption DEF TypeOK, Time, NoMark
  <2>3. IsFiniteSet(Drawn')
    BY <1>0, <2>1, FS_AddElement DEF Ledger
  <2>4. \A q \in Rrn : created'[q] = NoMark <=> q \notin Drawn'
    BY <1>0, <2>1, <2>2 DEF Ledger, TypeOK
  <2>5. Ledger'
    BY <1>0, <1>1, <2>1, <2>3, <2>4 DEF Ledger
  <2>6. \A q \in Drawn : created'[q] = created[q]
    BY <1>0, <2>1 DEF TypeOK, Drawn
  <2>7. Committed \subseteq Drawn
    BY DEF Committed, Drawn
  <2>. QED  BY <1>1, <2>1, <2>5, <2>6, <2>7, LedgerSteps
<1>5. ASSUME NEW r \in Rrn, Commit(r) PROVE SyncInv'
  <2>1. /\ r \in Drawn /\ Drawn' = Drawn /\ Committed' = Committed \cup {r}
        /\ created' = created /\ late \subseteq late' /\ (Overtaken(r) => r \in late')
    BY <1>0, <1>5 DEF Commit, Drawn, Committed, TypeOK
  <2>2. Ledger'
    BY <1>0, <1>1, <2>1 DEF Ledger
  <2>3. Committed \subseteq Drawn
    BY DEF Committed, Drawn
  <2>. QED  BY <1>1, <2>1, <2>2, <2>3, LedgerSteps
<1>6. ASSUME NEW r \in Rrn, RollBack(r) PROVE SyncInv'
  <2>1. Drawn' = Drawn /\ Committed' = Committed /\ created' = created /\ late' = late
    BY <1>0, <1>6 DEF RollBack, history, Drawn, Committed, TypeOK
  <2>2. Ledger'
    BY <1>0, <1>1, <2>1 DEF Ledger
  <2>3. Committed \subseteq Drawn
    BY DEF Committed, Drawn
  <2>. QED  BY <1>1, <2>1, <2>2, <2>3, LedgerSteps
<1>. QED  BY <1>2, <1>3, <1>4, <1>5, <1>6

-----------------------------------------------------------------------------
(* Steps of a run.                                                         *)

LEMMA OthersIdle ==
    ASSUME SyncInv, NEW p \in Run, ~ Idle(p)
    PROVE  \A q \in Run \ {p} : Idle(q) /\ Unconfirmed(q) = {}
BY DEF SyncInv, OneRun, Locals, Keeps, HasPage, Idle, Unconfirmed

\* What a run that stops leaves behind.
LEMMA Finished ==
    ASSUME TypeOK, NEW p \in Run, Finish(p)
    PROVE  /\ Idle(p)' /\ Keeps(p)' /\ ~ HasPage(p)'
           /\ \A q \in Run \ {p} : /\ pc'[q] = pc[q] /\ since'[q] = since[q]
                                   /\ page'[q] = page[q] /\ loaded'[q] = loaded[q]
                                   /\ offered'[q] = offered[q]
BY DEF TypeOK, Finish, Idle, Keeps, HasPage

\* A run touches its own locals while the others are idle.
LEMMA RunFrame ==
    ASSUME SyncInv, TypeOK', NEW p \in Run, \A q \in Run \ {p} : Idle(q),
           \A q \in Run \ {p} : /\ pc'[q] = pc[q] /\ since'[q] = since[q]
                                /\ page'[q] = page[q] /\ loaded'[q] = loaded[q]
                                /\ offered'[q] = offered[q],
           UNCHANGED ledger, Facts' \subseteq Drawn,
           Keeps(p)', HasPage(p)' => Page(p)' /\ Behind(p)',
           NothingSkipped', Accounted', HonestAggregate'
    PROVE  SyncInv'
<1>1. Drawn' = Drawn /\ created' = created
  BY DEF ledger, Drawn
<1>2. Ledger'
  BY <1>1 DEF SyncInv, Ledger
<1>3. \A q \in Run \ {p} : pc'[q] = "idle" /\ pc[q] = "idle"
  BY DEF Idle
<1>4. OneRun'
  BY <1>3 DEF OneRun, Idle
<1>5. Locals'
  BY <1>3 DEF SyncInv, Locals, Keeps, HasPage
<1>6. Pages'
  BY <1>3 DEF Pages, HasPage
<1>. QED  BY <1>2, <1>4, <1>5, <1>6 DEF SyncInv

\* Rows that reach the warehouse, and merges, skip nothing.
LEMMA NothingLost ==
    ASSUME SyncInv, UNCHANGED <<ledger, late>>, Facts \subseteq Facts', StoredMark' = StoredMark
    PROVE  NothingSkipped' /\ \A r \in Rrn : Excused(r) => Excused(r)'
<1>1. created' = created /\ Committed' = Committed
  BY DEF ledger, Committed
<1>2. \A r \in Rrn : Excused(r) => Excused(r)'
  BY <1>1 DEF Excused
<1>3. Committed \subseteq Rrn
  BY DEF Committed
<1>. QED  BY <1>1, <1>2, <1>3 DEF SyncInv, NothingSkipped

LEMMA StartNext == ASSUME SyncInv, TypeOK', NEW p \in Run, Start(p) PROVE SyncInv'
<1>1. /\ UNCHANGED <<ledger, warehouse, since, page, loaded, offered, late, exposed>>
      /\ pc' = [pc EXCEPT ![p] = "start"] /\ \A q \in Run : Idle(q)
  BY DEF Start, history
<1>2. TypeOK /\ Keeps(p) /\ pc[p] = "idle"
  BY <1>1 DEF SyncInv, Locals, Idle
<1>3. Keeps(p)' /\ ~ HasPage(p)'
  BY <1>1, <1>2 DEF Keeps, HasPage, TypeOK
<1>4. Facts' = Facts /\ StoredMark' = StoredMark /\ agg' = agg /\ created' = created
  BY <1>1 DEF warehouse, ledger, Facts, StoredMark
<1>5. NothingSkipped'
  BY <1>1, <1>4, NothingLost
<1>6. Accounted' /\ HonestAggregate' /\ Facts \subseteq Drawn
  BY <1>1, <1>4 DEF SyncInv, Ledger, Accounted, Unconfirmed, HonestAggregate
<1>7. \A q \in Run \ {p} : pc'[q] = pc[q]
  BY <1>1, <1>2 DEF TypeOK
<1>. QED  BY <1>1, <1>3, <1>4, <1>5, <1>6, <1>7, RunFrame

LEMMA PrepareNext == ASSUME SyncInv, TypeOK', NEW p \in Run, Prepare(p) PROVE SyncInv'
<1>1. /\ UNCHANGED <<ledger, parts, agg, marks, page, loaded, offered, late, exposed>>
      /\ pc[p] = "start" /\ pc' = [pc EXCEPT ![p] = "fetch"]
      /\ since' = [since EXCEPT ![p] = StoredMark]
  BY DEF Prepare, history, StoredMarks, StoredMark
<1>2. TypeOK /\ Keeps(p) /\ \A q \in Run \ {p} : Idle(q)
  BY <1>1, OthersIdle DEF SyncInv, Locals, Idle
<1>3. Facts' = Facts /\ StoredMark' = StoredMark /\ created' = created
  BY <1>1 DEF ledger, Facts, StoredMark
<1>4. Keeps(p)' /\ ~ HasPage(p)'
  BY <1>1, <1>2, <1>3 DEF Keeps, HasPage, TypeOK
<1>5. NothingSkipped'
  BY <1>1, <1>3, NothingLost
<1>6. Accounted' /\ HonestAggregate' /\ Facts \subseteq Drawn
  BY <1>1, <1>3 DEF SyncInv, Ledger, Accounted, Unconfirmed, HonestAggregate
<1>7. \A q \in Run \ {p} : pc'[q] = pc[q] /\ since'[q] = since[q]
  BY <1>1, <1>2 DEF TypeOK
<1>. QED  BY <1>1, <1>2, <1>3, <1>4, <1>5, <1>6, <1>7, RunFrame

\* Fetching a page: everything visible between the watermark and the page's
\* last row is in the page, or as old as that row.
LEMMA FetchNext == ASSUME SyncInv, TypeOK', NEW p \in Run, Fetch(p) PROVE SyncInv'
<1>1. /\ UNCHANGED <<ledger, warehouse, late, exposed>> /\ pc[p] = "fetch"
      /\ TypeOK /\ Ledger /\ Keeps(p) /\ since[p] = StoredMark
  BY DEF Fetch, SyncInv, Locals, Keeps
<1>2. \A q \in Run \ {p} : Idle(q) /\ Unconfirmed(q) = {}
  BY <1>1, OthersIdle DEF Idle
<1>3. Facts' = Facts /\ StoredMark' = StoredMark /\ agg' = agg /\ created' = created
  BY <1>1 DEF warehouse, ledger, Facts, StoredMark
<1>4. NothingSkipped' /\ \A r \in Rrn : Excused(r) => Excused(r)'
  BY <1>1, <1>3, NothingLost
<1>5. loaded[p] = 0 /\ Unconfirmed(p) = {} /\ since[p] \in Time \cup {NoMark}
  BY <1>1 DEF Keeps, HasPage, Unconfirmed, TypeOK
<1>6. HonestAggregate' /\ Facts \subseteq Drawn
  BY <1>1, <1>3 DEF SyncInv, Ledger, HonestAggregate
<1>7. \A r \in Facts : r \in exposed \/ created[r] <= StoredMark
  BY <1>2, <1>5 DEF SyncInv, Accounted
<1>8. Accounted'
  BY <1>1, <1>3, <1>7 DEF Accounted
<1>9. CASE Newer(since[p]) = {}
  <2>1. Finish(p)
    BY <1>9 DEF Fetch
  <2>. QED  BY <1>1, <1>2, <1>3, <1>4, <1>6, <1>8, <2>1, Finished, RunFrame
<1>10. CASE Newer(since[p]) # {}
  <2>1. PICK s \in PagesAfter(since[p]) : page' = [page EXCEPT ![p] = s]
    BY <1>10 DEF Fetch
  <2>2. /\ offered' = [offered EXCEPT ![p] = Newer(since[p])]
        /\ pc' = [pc EXCEPT ![p] = "load"] /\ since' = since /\ loaded' = loaded
    BY <1>10 DEF Fetch
  <2>3. /\ page'[p] = s /\ offered'[p] = Newer(since[p]) /\ pc'[p] = "load"
        /\ since'[p] = since[p] /\ loaded'[p] = 0
        /\ \A q \in Run \ {p} : pc'[q] = pc[q] /\ page'[q] = page[q] /\ offered'[q] = offered[q]
    BY <1>1, <1>5, <2>1, <2>2 DEF TypeOK
  <2>4. IsFiniteSet(Newer(since[p])) /\ Newer(since[p]) \subseteq Rrn
    BY <1>1, FS_Subset DEF Ledger, Newer, Committed, Drawn
  <2>5. /\ s \in Seq(Newer(since[p])) /\ s # <<>> /\ Len(s) <= PageSize
        /\ \A i, j \in 1..Len(s) : s[i] = s[j] => i = j
        /\ Sorted(s)
        /\ \A r \in Newer(since[p]) :
              \/ \E i \in 1..Len(s) : s[i] = r
              \/ Len(s) = PageSize /\ created[Last(s)] <= created[r]
    BY <1>1, <1>10, <2>1, <2>4, PageOfRows
  <2>6. /\ DOMAIN s = 1..Len(s) /\ Len(s) \in 1..Len(s)
        /\ \A i \in 1..Len(s) : s[i] \in Newer(since[p])
    BY <2>5, LenProperties, EmptySeq, ElementOfSeq
  <2>7. \A r \in Newer(since[p]) : r \in Committed /\ created[r] > since[p]
    BY DEF Newer
  <2>8. Keeps(p)' /\ HasPage(p)'
    BY <1>1, <1>3, <2>3 DEF Keeps, HasPage
  <2>9. Page(p)'
    <3>1. Sorted(s)'
      BY <1>3, <2>5 DEF Sorted
    <3>2. LastPage(p)' => \A r \in offered'[p] : \E i \in DOMAIN page'[p] : page'[p][i] = r
      BY <2>3, <2>5, <2>6, ConstantsAssumption DEF LastPage
    <3>3. loaded'[p] <= Len(page'[p]) /\ \A i \in 1..loaded'[p] : page'[p][i] \in Facts'
      BY <2>3, <2>6
    <3>4. Sorted(page[p])'
      BY <2>3, <3>1
    <3>. QED  BY <1>3, <2>3, <2>5, <2>6, <2>7, <3>2, <3>3, <3>4 DEF Page
  <2>10. Behind(p)'
    <3> SUFFICES ASSUME NEW r \in Committed', created'[r] <= NextMark(p)'
                 PROVE  \/ r \in Facts' \/ Excused(r)'
                        \/ \E i \in DOMAIN page'[p] : created'[page'[p][i]] = created'[r]
      BY DEF Behind
    <3>1. r \in Committed /\ r \in Rrn /\ created[r] \in Int /\ since[p] \in Int
      BY <1>1, <1>5 DEF ledger, Committed, TypeOK, Time, NoMark
    <3>2. Last(s) = s[Len(s)] /\ NextMark(p)' = created[Last(s)] /\ created[Last(s)] \in Int
      BY <1>1, <1>3, <2>3, <2>4, <2>6 DEF NextMark, Last, TypeOK, Time, NoMark
    <3>3. CASE created[r] <= since[p]
      BY <1>1, <1>3, <1>4, <3>1, <3>3 DEF SyncInv, NothingSkipped
    <3>4. CASE created[r] > since[p]
      <4>1. r \in Newer(since[p])
        BY <3>1, <3>4 DEF Newer
      <4>2. \E i \in 1..Len(s) : created[s[i]] = created[r]
        BY <1>3, <2>5, <2>6, <3>1, <3>2, <4>1
      <4>. QED  BY <1>3, <2>3, <2>6, <4>2
    <3>. QED  BY <3>1, <3>3, <3>4
  <2>. QED  BY <1>1, <1>2, <1>3, <1>4, <1>6, <1>8, <2>2, <2>3, <2>8, <2>9, <2>10, RunFrame
<1>. QED  BY <1>9, <1>10

\* The rows of the next INSERT are not in the warehouse, unless a run that
\* stopped left them there.
LEMMA BatchIsFresh ==
    ASSUME SyncInv, NEW p \in Run, pc[p] = "load"
    PROVE  Page(p) /\ Batch(p) \subseteq Drawn /\ \A r \in Batch(p) : r \notin Facts \/ r \in exposed
<1>1. TypeOK /\ Ledger /\ Page(p) /\ since[p] = StoredMark /\ ~ Idle(p)
  BY DEF SyncInv, Pages, HasPage, Locals, Keeps, Idle
<1>2. PICK reached : reached = Min({loaded[p] + BatchSize, Len(page[p])})
  OBVIOUS
<1>3. /\ loaded[p] \in Nat /\ reached \in Nat /\ reached <= Len(page[p])
      /\ Batch(p) \subseteq Drawn
      /\ \A r \in Batch(p) : \E i \in 1..reached : i > loaded[p] /\ page[p][i] = r
  BY <1>1, <1>2, RowsOfBatch
<1>4. /\ DOMAIN page[p] = 1..Len(page[p]) /\ Len(page[p]) \in Nat
      /\ \A i \in 1..Len(page[p]) : since[p] < created[page[p][i]] /\ created[page[p][i]] \in Time
  BY <1>1, RowsOfPage
<1>5. ASSUME NEW r \in Batch(p), r \in Facts, r \notin exposed PROVE FALSE
  <2>1. PICK i \in 1..Len(page[p]) : i > loaded[p] /\ page[p][i] = r
    BY <1>3, <1>4
  <2>2. ~(created[r] <= StoredMark)
    BY <1>1, <1>4, <2>1, MarkType DEF Time, NoMark
  <2>3. r \notin Unconfirmed(p)
    <3>1. SUFFICES ASSUME NEW j \in 1..loaded[p], page[p][j] = r PROVE FALSE
      BY DEF Unconfirmed
    <3>2. j \in 1..Len(page[p]) /\ j # i
      BY <1>1, <1>3, <1>4, <2>1 DEF Page
    <3>. QED  BY <1>1, <1>4, <2>1, <3>1, <3>2 DEF Page
  <2>. QED  BY <1>1, <1>5, <2>2, <2>3, OthersIdle DEF SyncInv, Accounted
<1>. QED  BY <1>1, <1>3, <1>5

LEMMA LoadNext == ASSUME SyncInv, TypeOK', NEW p \in Run, Load(p) PROVE SyncInv'
<1>1. /\ UNCHANGED <<ledger, marks, since, page, offered, late, exposed>> /\ pc[p] = "load"
      /\ Insert(Batch(p)) /\ TypeOK /\ Ledger /\ Keeps(p)
      /\ since[p] = StoredMark /\ ~ Idle(p) /\ Behind(p)
  BY DEF Load, history, SyncInv, Locals, Keeps, Pages, HasPage, Idle
<1>2. \A q \in Run \ {p} : Idle(q) /\ Unconfirmed(q) = {}
  BY <1>1, OthersIdle
<1>3. /\ Page(p) /\ Batch(p) \subseteq Drawn
      /\ \A r \in Batch(p) : r \notin Facts \/ r \in exposed
  BY <1>1, BatchIsFresh
<1>4. Facts' = Facts \cup Batch(p) /\ StoredMark' = StoredMark /\ created' = created
  BY <1>1, <1>3, InsertEffect DEF ledger, StoredMark
<1>5. HonestAggregate'
  <2>1. exposed \subseteq exposed' /\ \A r \in Batch(p) : r \notin Facts \/ r \in exposed'
    BY <1>1, <1>3
  <2>. QED  BY <1>1, <1>3, <2>1, InsertCounts DEF SyncInv
<1>6. NothingSkipped' /\ \A r \in Rrn : Excused(r) => Excused(r)'
  BY <1>1, <1>4, NothingLost
<1>7. PICK reached : reached = Min({loaded[p] + BatchSize, Len(page[p])})
  OBVIOUS
<1>8. /\ loaded[p] \in Nat /\ reached \in Nat
      /\ loaded[p] <= reached /\ reached <= Len(page[p])
      /\ \A r \in Batch(p) : \E i \in 1..reached : i > loaded[p] /\ page[p][i] = r
      /\ \A i \in 1..reached : i <= loaded[p] \/ page[p][i] \in Batch(p)
  BY <1>1, <1>3, <1>7, RowsOfBatch
<1>9. loaded' = [loaded EXCEPT ![p] = reached]
  BY <1>1, <1>7 DEF Load
<1>10. /\ loaded'[p] = reached /\ pc'[p] = IF reached = Len(page[p]) THEN "advance" ELSE "load"
       /\ \A q \in Run \ {p} : pc'[q] = pc[q] /\ loaded'[q] = loaded[q]
  BY <1>1, <1>9 DEF Load, TypeOK
<1>11. Keeps(p)'
  BY <1>1, <1>4, <1>10 DEF Keeps, HasPage
<1>12. Page(p)'
  <2>1. \A i \in 1..reached : page[p][i] \in Facts'
    BY <1>3, <1>4, <1>8 DEF Page
  <2>2. Sorted(page[p])'
    BY <1>1, <1>3, <1>4 DEF Page, Sorted
  <2>3. reached <= Len(page[p]) /\ (pc'[p] = "advance" => reached = Len(page[p]))
    BY <1>8, <1>10
  <2>. QED  BY <1>1, <1>3, <1>4, <1>10, <2>1, <2>2, <2>3 DEF Page, LastPage
<1>13. Behind(p)'
  <2>1. Committed' = Committed /\ NextMark(p)' = NextMark(p)
    BY <1>1, <1>4 DEF ledger, Committed, NextMark
  <2>2. Committed \subseteq Rrn
    BY DEF Committed
  <2>. QED  BY <1>1, <1>4, <1>6, <2>1, <2>2 DEF Behind
<1>14. Accounted'
  <2>1. Unconfirmed(p) \cup Batch(p) \subseteq Unconfirmed(p)'
    BY <1>1, <1>8, <1>10 DEF Unconfirmed
  <2>2. ASSUME NEW r \in Facts, r \notin exposed, ~(created[r] <= StoredMark)
        PROVE  r \in Unconfirmed(p)
    BY <1>2, <2>2 DEF SyncInv, Accounted
  <2>. QED  BY <1>1, <1>4, <2>1, <2>2 DEF Accounted
<1>15. Facts' \subseteq Drawn
  BY <1>1, <1>3, <1>4 DEF Ledger
<1>. QED  BY <1>1, <1>2, <1>5, <1>6, <1>10, <1>11, <1>12, <1>13, <1>14, <1>15, RunFrame

\* Moving the watermark to the last row of a page that is loaded.
LEMMA MarkMoves ==
    ASSUME SyncInv, NEW p \in Run, pc[p] = "advance", marks' = Append(marks, NextMark(p)),
           UNCHANGED <<ledger, parts, late>>
    PROVE  /\ StoredMark' = NextMark(p) /\ Facts' = Facts /\ NothingSkipped'
           /\ \A r \in Facts : r \in exposed \/ created[r] <= NextMark(p)
<1>1. TypeOK /\ Ledger /\ Page(p) /\ Behind(p) /\ since[p] = StoredMark /\ ~ Idle(p)
  BY DEF SyncInv, Pages, HasPage, Locals, Keeps, Idle
<1>2. /\ DOMAIN page[p] = 1..Len(page[p]) /\ NextMark(p) \in Time /\ since[p] < NextMark(p)
      /\ \A i \in 1..Len(page[p]) : created[page[p][i]] <= NextMark(p)
      /\ \A i \in 1..Len(page[p]) : page[p][i] \in Facts
  BY <1>1, RowsOfPage DEF Page
<1>3. StoredMark' = NextMark(p)
  BY <1>1, <1>2, MarkAppended
<1>4. /\ Facts' = Facts /\ created' = created /\ Committed' = Committed
      /\ Committed \subseteq Rrn /\ Facts \subseteq Rrn
  BY DEF ledger, Facts, Committed
<1>5. \A r \in Rrn : Excused(r)' <=> Excused(r)
  BY <1>4 DEF Excused
<1>6. ASSUME NEW r \in Committed, created[r] <= NextMark(p) PROVE r \in Facts \/ Excused(r)
  <2>1. CASE r \in Facts \/ Excused(r)
    BY <2>1
  <2>2. CASE \E i \in DOMAIN page[p] : created[page[p][i]] = created[r]
    BY <1>2, <2>2 DEF Excused
  <2>. QED  BY <1>1, <1>6, <2>1, <2>2 DEF Behind
<1>7. NothingSkipped'
  BY <1>3, <1>4, <1>5, <1>6 DEF NothingSkipped
<1>8. ASSUME NEW r \in Facts, r \notin exposed PROVE created[r] <= NextMark(p)
  <2>1. CASE created[r] <= StoredMark
    <3>1. created[r] \in Int
      BY <1>1, <1>4 DEF TypeOK, Time, NoMark
    <3>. QED  BY <1>1, <1>2, <2>1, <3>1, MarkType DEF Time, NoMark
  <2>2. CASE r \in Unconfirmed(p)
    <3>1. loaded[p] = Len(page[p])
      BY <1>1 DEF Page
    <3>. QED  BY <1>2, <2>2, <3>1 DEF Unconfirmed
  <2>. QED  BY <1>1, <1>8, <2>1, <2>2, OthersIdle DEF SyncInv, Accounted
<1>. QED  BY <1>3, <1>4, <1>7, <1>8

LEMMA AdvanceNext == ASSUME SyncInv, TypeOK', NEW p \in Run, Advance(p) PROVE SyncInv'
<1>1. /\ UNCHANGED <<ledger, parts, agg, late, exposed>> /\ pc[p] = "advance"
      /\ marks' = Append(marks, NextMark(p)) /\ TypeOK /\ Ledger
  BY DEF Advance, SyncInv
<1>2. \A q \in Run \ {p} : Idle(q) /\ Unconfirmed(q) = {}
  BY <1>1, OthersIdle DEF Idle
<1>3. /\ StoredMark' = NextMark(p) /\ Facts' = Facts /\ NothingSkipped'
      /\ \A r \in Facts : r \in exposed \/ created[r] <= NextMark(p)
  BY <1>1, MarkMoves
<1>4. Accounted' /\ HonestAggregate' /\ Facts \subseteq Drawn
  BY <1>1, <1>3 DEF ledger, SyncInv, Ledger, Accounted, HonestAggregate
<1>5. CASE LastPage(p)
  <2>1. Finish(p)
    BY <1>5 DEF Advance
  <2>. QED  BY <1>1, <1>2, <1>3, <1>4, <2>1, Finished, RunFrame
<1>6. CASE ~ LastPage(p)
  <2>1. /\ since' = [since EXCEPT ![p] = NextMark(p)] /\ page' = [page EXCEPT ![p] = <<>>]
        /\ loaded' = [loaded EXCEPT ![p] = 0] /\ offered' = [offered EXCEPT ![p] = {}]
        /\ pc' = [pc EXCEPT ![p] = "fetch"]
    BY <1>6 DEF Advance
  <2>2. /\ pc'[p] = "fetch" /\ since'[p] = NextMark(p) /\ page'[p] = <<>> /\ loaded'[p] = 0
        /\ offered'[p] = {}
        /\ \A q \in Run \ {p} : /\ pc'[q] = pc[q] /\ since'[q] = since[q]
                                /\ page'[q] = page[q] /\ loaded'[q] = loaded[q]
                                /\ offered'[q] = offered[q]
    BY <1>1, <2>1 DEF TypeOK
  <2>3. Keeps(p)' /\ ~ HasPage(p)'
    BY <1>3, <2>2 DEF Keeps, HasPage
  <2>. QED  BY <1>1, <1>2, <1>3, <1>4, <2>2, <2>3, RunFrame
<1>. QED  BY <1>5, <1>6

LEMMA FailNext == ASSUME SyncInv, TypeOK', NEW p \in Run, Fail(p) PROVE SyncInv'
<1>1. /\ UNCHANGED <<ledger, parts, agg, marks, late>> /\ ~ Idle(p) /\ Finish(p)
      /\ exposed' = exposed \cup Unconfirmed(p) /\ TypeOK /\ Ledger
  BY DEF Fail, Stop, SyncInv
<1>2. \A q \in Run \ {p} : Idle(q) /\ Unconfirmed(q) = {}
  BY <1>1, OthersIdle
<1>3. Facts' = Facts /\ StoredMark' = StoredMark /\ created' = created
  BY <1>1 DEF ledger, Facts, StoredMark
<1>4. NothingSkipped'
  BY <1>1, <1>3, NothingLost
<1>5. Accounted' /\ HonestAggregate' /\ Facts \subseteq Drawn
  BY <1>1, <1>2, <1>3 DEF SyncInv, Ledger, Accounted, HonestAggregate
<1>. QED  BY <1>1, <1>2, <1>3, <1>4, <1>5, Finished, RunFrame

LEMMA LoadUnconfirmedNext ==
    ASSUME SyncInv, TypeOK', NEW p \in Run, LoadUnconfirmed(p) PROVE SyncInv'
<1>1. /\ UNCHANGED <<ledger, marks, late>> /\ pc[p] = "load" /\ ~ Idle(p) /\ Finish(p)
      /\ Insert(Batch(p)) /\ exposed' = exposed \cup (Unconfirmed(p) \cup Batch(p))
      /\ TypeOK /\ Ledger
  BY DEF LoadUnconfirmed, Stop, SyncInv, Idle
<1>2. \A q \in Run \ {p} : Idle(q) /\ Unconfirmed(q) = {}
  BY <1>1, OthersIdle
<1>3. Batch(p) \subseteq Drawn
  BY <1>1, BatchIsFresh
<1>4. Facts' = Facts \cup Batch(p) /\ StoredMark' = StoredMark /\ created' = created
  BY <1>1, <1>3, InsertEffect DEF ledger, StoredMark
<1>5. NothingSkipped'
  BY <1>1, <1>4, NothingLost
<1>6. HonestAggregate'
  <2>1. exposed \subseteq exposed' /\ \A r \in Batch(p) : r \notin Facts \/ r \in exposed'
    BY <1>1
  <2>. QED  BY <1>1, <1>3, <2>1, InsertCounts DEF SyncInv
<1>7. Accounted' /\ Facts' \subseteq Drawn
  BY <1>1, <1>2, <1>3, <1>4 DEF SyncInv, Ledger, Accounted
<1>. QED  BY <1>1, <1>2, <1>5, <1>6, <1>7, Finished, RunFrame

LEMMA AdvanceUnconfirmedNext ==
    ASSUME SyncInv, TypeOK', NEW p \in Run, AdvanceUnconfirmed(p) PROVE SyncInv'
<1>1. /\ UNCHANGED <<ledger, parts, agg, late>> /\ pc[p] = "advance" /\ ~ Idle(p) /\ Finish(p)
      /\ marks' = Append(marks, NextMark(p)) /\ exposed' = exposed /\ TypeOK /\ Ledger
  BY DEF AdvanceUnconfirmed, Stop, SyncInv, Idle
<1>2. \A q \in Run \ {p} : Idle(q)
  BY <1>1, OthersIdle
<1>3. /\ StoredMark' = NextMark(p) /\ Facts' = Facts /\ NothingSkipped'
      /\ \A r \in Facts : r \in exposed \/ created[r] <= NextMark(p)
  BY <1>1, MarkMoves
<1>4. Accounted' /\ HonestAggregate' /\ Facts \subseteq Drawn
  BY <1>1, <1>3 DEF ledger, SyncInv, Ledger, Accounted, HonestAggregate
<1>. QED  BY <1>1, <1>2, <1>3, <1>4, Finished, RunFrame

\* Merges forget duplicates and replaced watermarks, nothing else.
LEMMA MergeNext == ASSUME SyncInv, TypeOK', MergeFacts \/ MergeMarks PROVE SyncInv'
<1>1. UNCHANGED <<ledger, agg, locals, history>> /\ TypeOK
  BY DEF MergeFacts, MergeMarks, SyncInv
<1>2. Facts' = Facts
  BY <1>1 DEF MergeFacts, MergeMarks, Facts, TypeOK
<1>3. StoredMark' = StoredMark
  <2>1. CASE MergeFacts
    BY <2>1 DEF MergeFacts, StoredMark
  <2>2. CASE MergeMarks
    <3>1. marks' = <<Last(marks)>> /\ marks # <<>>
      BY <2>2, EmptySeq DEF MergeMarks
    <3>2. Last(marks') = Last(marks)
      BY <3>1 DEF Last
    <3>. QED  BY <3>1, <3>2 DEF StoredMark
  <2>. QED  BY <2>1, <2>2
<1>4. /\ UNCHANGED <<now, posting, created, wipes, pc, since, page, loaded, late, exposed, offered>>
      /\ Drawn' = Drawn /\ Committed' = Committed
  BY <1>1 DEF ledger, locals, history, Drawn, Committed
<1>5. Ledger' /\ OneRun' /\ Locals' /\ Accounted' /\ HonestAggregate'
  BY <1>1, <1>2, <1>3, <1>4 DEF SyncInv, Ledger, OneRun, Idle, Locals, Keeps, HasPage, Accounted,
     Unconfirmed, HonestAggregate
<1>6. NothingSkipped' /\ \A r \in Rrn : Excused(r)' <=> Excused(r)
  BY <1>1, <1>2, <1>3, <1>4, NothingLost DEF history, Excused
<1>7. ASSUME NEW p \in Run, HasPage(p) PROVE Page(p)' /\ Behind(p)'
  <2>1. Page(p) /\ Behind(p)
    BY <1>7 DEF SyncInv, Pages
  <2>2. Page(p)'
    BY <1>2, <1>4, <2>1 DEF Page, Sorted, LastPage
  <2>3. Committed \subseteq Rrn
    BY DEF Committed
  <2>4. Behind(p)'
    BY <1>2, <1>4, <1>6, <2>1, <2>3 DEF Behind, NextMark
  <2>. QED  BY <2>2, <2>4
<1>8. Pages'
  BY <1>4, <1>7 DEF Pages, HasPage
<1>. QED  BY <1>5, <1>6, <1>8 DEF SyncInv

-----------------------------------------------------------------------------
(* The theorems.                                                           *)

LEMMA SyncInit == Init => SyncInv
<1> SUFFICES ASSUME Init PROVE SyncInv
  OBVIOUS
<1>1. /\ Drawn = {} /\ Facts = {} /\ Committed = {} /\ StoredMark = NoMark
      /\ \A p \in Run : ~ HasPage(p) /\ Idle(p)
  BY DEF Init, Drawn, Facts, Committed, StoredMark, HasPage, Idle
<1>2. Ledger
  BY <1>1, FS_EmptySet DEF Init, Ledger, Drawn
<1>3. OneRun /\ Locals /\ Pages /\ Accounted
  BY <1>1 DEF Init, OneRun, Locals, Keeps, Pages, Accounted, Idle
<1>4. NothingSkipped /\ HonestAggregate
  BY <1>1, FS_EmptySet DEF Init, NothingSkipped, HonestAggregate
<1>. QED  BY <1>2, <1>3, <1>4, TypeInit DEF SyncInv

LEMMA SyncNext == SyncInv /\ [Next]_vars => SyncInv'
<1> SUFFICES ASSUME SyncInv, [Next]_vars PROVE SyncInv'
  OBVIOUS
<1>1. TypeOK'
  BY TypeNext DEF SyncInv
<1>2. CASE Tick \/ Wipe \/ \E r \in Rrn : Draw(r) \/ Commit(r) \/ RollBack(r)
  BY <1>1, <1>2, LedgerNext
<1>3. ASSUME NEW p \in Run,
             \/ Start(p) \/ Sync(p) \/ Fail(p) \/ LoadUnconfirmed(p) \/ AdvanceUnconfirmed(p)
      PROVE  SyncInv'
  <2>1. CASE Start(p)
    BY <1>1, <2>1, StartNext
  <2>2. CASE Prepare(p)
    BY <1>1, <2>2, PrepareNext
  <2>3. CASE Fetch(p)
    BY <1>1, <2>3, FetchNext
  <2>4. CASE Load(p)
    BY <1>1, <2>4, LoadNext
  <2>5. CASE Advance(p)
    BY <1>1, <2>5, AdvanceNext
  <2>6. CASE Fail(p)
    BY <1>1, <2>6, FailNext
  <2>7. CASE LoadUnconfirmed(p)
    BY <1>1, <2>7, LoadUnconfirmedNext
  <2>8. CASE AdvanceUnconfirmed(p)
    BY <1>1, <2>8, AdvanceUnconfirmedNext
  <2>. QED  BY <1>3, <2>1, <2>2, <2>3, <2>4, <2>5, <2>6, <2>7, <2>8 DEF Sync
<1>4. CASE MergeFacts \/ MergeMarks
  BY <1>1, <1>4, MergeNext
<1>5. CASE UNCHANGED vars
  <2>1. UNCHANGED <<warehouse, locals, late, exposed, offered, created, posting>>
    BY <1>5 DEF vars, warehouse, locals
  <2>2. Drawn' = Drawn /\ Committed' = Committed /\ Facts' = Facts /\ Committed \subseteq Drawn
    BY <1>5 DEF vars, Drawn, Committed, Facts
  <2>3. Ledger'
    BY <2>1, <2>2 DEF SyncInv, Ledger
  <2>. QED  BY <1>1, <2>1, <2>2, <2>3, LedgerSteps
<1>. QED  BY <1>2, <1>3, <1>4, <1>5 DEF Next

\* Every reachable state is well typed: the watermark in particular is always
\* the created_at of some row.
THEOREM TypeCorrect == Spec => []TypeOK
<1>1. SyncInv => TypeOK
  BY DEF SyncInv
<1>. QED  BY <1>1, SyncInit, SyncNext, PTL DEF Spec

\* Whatever order the postings commit in, however many rows share an instant,
\* wherever a run stops and whatever is wiped, what is behind the watermark is
\* in the warehouse or excused.
THEOREM WatermarkSkipsNothing == Spec => []NothingSkipped
<1>1. SyncInv => NothingSkipped
  BY DEF SyncInv
<1>. QED  BY <1>1, SyncInit, SyncNext, PTL DEF Spec

\* Retried batches and merged duplicates never make the daily counts of an
\* account differ from its rows, unless a run stopped between the INSERT of
\* one of them and its watermark.
THEOREM AggregateIsHonest == Spec => []HonestAggregate
<1>1. SyncInv => HonestAggregate
  BY DEF SyncInv
<1>. QED  BY <1>1, SyncInit, SyncNext, PTL DEF Spec

\* A run that ends without an exception had a last page that was not full, or
\* found nothing newer than its watermark: all its export could see is loaded.
THEOREM CleanExitIsComplete == Spec => CleanExitMissesNothing
<1> DEFINE Complete == \A p \in Run :
             pc[p] # "idle" /\ pc'[p] = "idle" /\ failures' = failures
               => offered[p] \subseteq Facts'
<1>1. SyncInv /\ [Next]_vars => [Complete]_vars
  <2> SUFFICES ASSUME SyncInv, Next, NEW p \in Run,
                      pc[p] # "idle", pc'[p] = "idle", failures' = failures
               PROVE  offered[p] \subseteq Facts'
    OBVIOUS
  <2>0. /\ TypeOK /\ Ledger /\ Keeps(p) /\ (HasPage(p) => Page(p))
        /\ failures + 1 # failures
    BY DEF SyncInv, Locals, Pages, TypeOK
  \* Only a break of main() ends a run without an exception.
  <2>1. Fetch(p) \/ Advance(p)
    <3>1. ASSUME NEW q \in Run, NEW rows PROVE ~ Stop(q, rows)
      BY <2>0 DEF Stop
    <3>2. ~ UNCHANGED pc
      OBVIOUS
    <3>3. PICK q \in Run : Start(q) \/ Sync(q)
      BY <3>1, <3>2 DEF Next, Tick, Wipe, Draw, Commit, RollBack, MergeFacts, MergeMarks, Fail,
         LoadUnconfirmed, AdvanceUnconfirmed, locals
    <3>4. \/ Fetch(q) \/ Advance(q)
          \/ \E at \in {"start", "fetch", "load", "advance"} : pc' = [pc EXCEPT ![q] = at]
      BY <3>3 DEF Sync, Start, Prepare, Load
    <3>5. Fetch(q) \/ Advance(q)
      BY <2>0, <3>4 DEF TypeOK
    <3>6. \E at \in {"idle", "load", "fetch"} : pc' = [pc EXCEPT ![q] = at]
      BY <3>5 DEF Fetch, Advance, Finish
    <3>7. q = p
      BY <2>0, <3>6 DEF TypeOK
    <3>. QED  BY <3>5, <3>7
  <2>2. CASE Fetch(p)
    BY <2>0, <2>2 DEF Fetch, Keeps, HasPage
  <2>3. CASE Advance(p)
    <3>1. HasPage(p) /\ pc[p] = "advance" /\ Facts' = Facts
      BY <2>3 DEF Advance, HasPage, Facts
    <3>2. LastPage(p)
      BY <2>0, <2>3 DEF Advance, TypeOK
    <3>3. DOMAIN page[p] = 1..loaded[p]
      BY <2>0, <3>1, RowsOfPage DEF Page
    <3>. QED  BY <2>0, <3>1, <3>2, <3>3 DEF Page
  <2>. QED  BY <2>1, <2>2, <2>3
<1>. QED  BY <1>1, SyncInit, SyncNext, PTL DEF Spec, CleanExitMissesNothing

=============================================================================
