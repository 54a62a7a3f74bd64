----------------------------- MODULE Saga_proofs -----------------------------
(***************************************************************************)
(* Theorems about Saga for any number of calls, jobs, wallets, references  *)
(* and retries, and any choice of faults.                                  *)
(***************************************************************************)
EXTENDS Saga, TLAPS, FiniteSetTheorems

\* What the step a call is at says of its own fields.
Unauthorized == {"idle", "resolve", "afford", "risk", "authorize"}
PastPosting == {"post", "posting", "reverse", "reversing", "done"}
Places ==
    \A c \in Call :
        /\ outcome[c] # None <=> pc[c] = "done"
        /\ pc[c] # "idle" => job[c] \in Job
        /\ pc[c] \in {"idle", "resolve", "afford", "risk"} => drawn[c] = 0
        /\ pc[c] \in {"authorize", "authorizing"} \cup (PastPosting \ {"done"})
              => rrn[c] \in Rrn
        /\ pc[c] \in {"afford", "risk", "authorize", "authorizing", "reverse", "reversing"}
              => ~IsTopup(c)
        /\ pc[c] = "posting" => attempt[c] \in 1..(PostRetries + 1)
        /\ pc[c] = "reversing" => attempt[c] \in 1..(ReverseRetries + 1)

\* An authorisation still travelling has not been served, and whoever gave up
\* waiting for it said so; a card payment that posts is held.
Holds ==
    \A c \in Call :
        /\ c \in authorizing \cup hold => pc[c] \notin Unauthorized /\ ~IsTopup(c)
        /\ c \in authorizing =>
              c \notin hold /\ (pc[c] = "authorizing" \/ outcome[c] \in {"unknown", "crashed"})
        /\ pc[c] \in {"post", "posting"} /\ ~IsTopup(c) => c \in hold

\* A copy of a posting that still travels carries its call's reference, or one
\* that the books gave to another posting before the call drew again.
Taken(r) == \E q \in posted : q.rrn = r
Requests ==
    \A m \in wire : /\ pc[m.call] \in PastPosting
                    /\ m.rrn = rrn[m.call] \/ Taken(m.rrn)

\* What a call's request recorded is under the reference the call still has.
Moves ==
    \A c \in Call, r \in Rrn :
        <<c, r>> \in moved => /\ pc[c] \in PastPosting
                              /\ r = rrn[c]
                              /\ PostingOf(c, r) \in posted

SagaInv ==
    /\ TypeOK /\ Places /\ Holds /\ Requests /\ Moves
    /\ ApprovedIsRecorded /\ HeldIsTold
-----------------------------------------------------------------------------
LEMMA JobFields ==
    ASSUME NEW j \in Job
    PROVE  /\ j.kind \in Kind /\ j.debit \in Account /\ j.credit \in Account
           /\ j.amount \in Nat \ {0}
           /\ j.kind = "topup" <=> j.debit = Funding
BY ConstantsAssumption

LEMMA PostingType ==
    ASSUME NEW c \in Call, NEW r \in Rrn, job[c] \in Job
    PROVE  PostingOf(c, r) \in Posting /\ PostingOf(c, r).rrn = r
BY JobFields DEF PostingOf, Posting

LEMMA SagaInit == Init => SagaInv
<1> SUFFICES ASSUME Init PROVE SagaInv
  OBVIOUS
<1>1. TypeOK
  <2>1. Deposit \in Posting /\ Deposit.amount \in Nat
    BY ConstantsAssumption DEF Posting
  <2>2. balance \in [Account -> Int]
    BY <2>1 DEF Init
  <2> QED
    BY <2>1, <2>2, ConstantsAssumption DEF Init, TypeOK, Steps
<1>2. Places
  BY DEF Init, Places, PastPosting
<1>3. Holds /\ Requests /\ Moves
  BY DEF Init, Holds, Requests, Moves
<1>4. ApprovedIsRecorded /\ HeldIsTold
  BY ConstantsAssumption DEF Init, ApprovedIsRecorded, HeldIsTold, Final
<1> QED
  BY <1>1, <1>2, <1>3, <1>4 DEF SagaInv

-----------------------------------------------------------------------------
(* What a call does by itself: nothing the books or the wire hold changes  *)
(* under a call that has not asked for a posting yet.                      *)

\* The references a draw may take.
LEMMA DrawsAReference == ASSUME NEW c \in Call, NEW step, DrawAndGoto(c, step)
    PROVE \E r \in Rrn : rrn' = [rrn EXCEPT ![c] = r]
BY DEF DrawAndGoto, Drawable

LEMMA BeforePosting ==
    ASSUME SagaInv, NEW c \in Call,
           \/ \E j \in Job : Receive(c, j)
           \/ Resolve(c) \/ CheckFunds(c) \/ EvaluateRisk(c)
    PROVE  SagaInv'
<1> USE ConstantsAssumption DEF Goto, switchVars, books
<1>1. /\ TypeOK /\ Places /\ Holds /\ Requests /\ Moves
      /\ ApprovedIsRecorded /\ HeldIsTold
  BY DEF SagaInv
<1>2. /\ pc[c] \in {"idle", "resolve", "afford", "risk"} /\ outcome[c] = None
      /\ c \notin authorizing \cup hold /\ drawn[c] = 0
      /\ \A m \in wire : m.call # c
      /\ \A r \in Rrn : <<c, r>> \notin moved
  BY <1>1 DEF Receive, Resolve, CheckFunds, EvaluateRisk, Places, Holds, Requests, Moves,
     PastPosting, Unauthorized
<1>3. UNCHANGED <<authorizing, hold, wire, posted, balance, moved>>
  BY DEF Receive, Resolve, CheckFunds, EvaluateRisk
<1>4. ASSUME NEW j \in Job, Receive(c, j) PROVE SagaInv'
  <2> USE <1>1, <1>2, <1>3, <1>4 DEF Receive, TypeOK
  <2>1. TypeOK'
    BY DEF Steps
  <2>2. Places'
    BY DEF Places, IsTopup, PastPosting
  <2>3. Holds' /\ HeldIsTold'
    BY DEF Holds, HeldIsTold, IsTopup, Unauthorized
  <2>4. Requests' /\ Moves'
    BY DEF Requests, Moves, PostingOf, Taken, PastPosting
  <2>5. ApprovedIsRecorded'
    BY DEF ApprovedIsRecorded, PostingOf, IsTopup, Final
  <2> QED
    BY <2>1, <2>2, <2>3, <2>4, <2>5 DEF SagaInv
<1>5. ASSUME NEW told \in Final \ {"approved"}, Finish(c, told), pc[c] # "idle" PROVE SagaInv'
  <2> USE <1>1, <1>2, <1>3, <1>5 DEF Finish, TypeOK
  <2>1. TypeOK'
    BY DEF Steps
  <2>2. Places'
    BY DEF Places, IsTopup, PastPosting
  <2>3. Holds' /\ HeldIsTold'
    BY DEF Holds, HeldIsTold, IsTopup, Unauthorized
  <2>4. Requests' /\ Moves'
    BY DEF Requests, Moves, PostingOf, Taken, PastPosting
  <2>5. ApprovedIsRecorded'
    BY DEF ApprovedIsRecorded, PostingOf, IsTopup, Final
  <2> QED
    BY <2>1, <2>2, <2>3, <2>4, <2>5 DEF SagaInv
<1>6. ASSUME NEW step \in {"afford", "risk"}, Advance(c, step), pc[c] # "idle", ~IsTopup(c)
      PROVE  SagaInv'
  <2> USE <1>1, <1>2, <1>3, <1>6 DEF Advance, TypeOK
  <2>1. TypeOK'
    BY DEF Steps
  <2>2. Places'
    BY DEF Places, IsTopup, PastPosting
  <2>3. Holds' /\ HeldIsTold'
    BY DEF Holds, HeldIsTold, IsTopup, Unauthorized
  <2>4. Requests' /\ Moves'
    BY DEF Requests, Moves, PostingOf, Taken, PastPosting
  <2>5. ApprovedIsRecorded'
    BY DEF ApprovedIsRecorded, PostingOf, IsTopup, Final
  <2> QED
    BY <2>1, <2>2, <2>3, <2>4, <2>5 DEF SagaInv
<1>7. ASSUME NEW step \in {"post", "authorize"}, DrawAndGoto(c, step), pc[c] # "idle",
             step = "post" <=> IsTopup(c)
      PROVE  SagaInv'
  <2>1. PICK r \in Rrn : rrn' = [rrn EXCEPT ![c] = r]
    BY <1>7, DrawsAReference
  <2>2. pc' = [pc EXCEPT ![c] = step] /\ UNCHANGED <<job, attempt, outcome>>
        /\ drawn' = [drawn EXCEPT ![c] = 1]
    BY <1>1, <1>2, <1>7 DEF DrawAndGoto, TypeOK
  <2> USE <1>1, <1>2, <1>3, <1>7, <2>1, <2>2 DEF TypeOK
  <2>3. TypeOK'
    BY DEF Steps
  <2>4. Places'
    BY DEF Places, IsTopup, PastPosting
  <2>5. Holds' /\ HeldIsTold'
    BY DEF Holds, HeldIsTold, IsTopup, Unauthorized
  <2>6. Requests' /\ Moves'
    BY DEF Requests, Moves, PostingOf, Taken, PastPosting
  <2>7. ApprovedIsRecorded'
    BY DEF ApprovedIsRecorded, PostingOf, IsTopup, Final
  <2> QED
    BY <2>3, <2>4, <2>5, <2>6, <2>7 DEF SagaInv
<1>8. {"unavailable", "refused", "declined"} \subseteq Final \ {"approved"}
  BY DEF Final
<1>9. pc[c] \in {"afford", "risk"} => ~IsTopup(c)
  BY <1>1 DEF Places
<1> QED
  BY <1>4, <1>5, <1>6, <1>7, <1>8, <1>9 DEF Resolve, CheckFunds, EvaluateRisk, Receive

-----------------------------------------------------------------------------
(* The authorisation and its compensation: only the caller and the switch. *)

LEMMA AtTheSwitch ==
    ASSUME SagaInv, NEW c \in Call,
           \/ Authorize(c) \/ AuthorizeAnswered(c) \/ AuthorizeUnheard(c) \/ AuthorizeUnknown(c)
           \/ Reverse(c) \/ ReverseAcknowledged(c) \/ ReverseUnheard(c)
    PROVE  SagaInv'
<1> USE ConstantsAssumption DEF Goto, Advance, Finish, callVars, switchVars, books
<1>1. /\ TypeOK /\ Places /\ Holds /\ Requests /\ Moves
      /\ ApprovedIsRecorded /\ HeldIsTold
  BY DEF SagaInv
<1>2. UNCHANGED <<job, rrn, drawn, wire, posted, balance, moved>>
  BY DEF Authorize, AuthorizeAnswered, AuthorizeUnheard, AuthorizeUnknown,
     Reverse, ReverseAcknowledged, ReverseUnheard
<1>3. ASSUME Places', pc'[c] \notin {"idle", "resolve", "afford", "risk", "authorize"},
             \A d \in Call \ {c} : pc'[d] = pc[d] /\ outcome'[d] = outcome[d],
             pc[c] \in PastPosting => pc'[c] \in PastPosting,
             outcome[c] = outcome'[c] \/ outcome'[c] # "approved",
             c \in hold' \/ outcome'[c] # "approved" \/ IsTopup(c),
             \A d \in Call \ {c} : d \in hold' <=> d \in hold
      PROVE  Requests' /\ Moves' /\ ApprovedIsRecorded'
  <2>1. Requests'
    BY <1>1, <1>2, <1>3 DEF Requests, Taken, TypeOK
  <2>2. Moves'
    BY <1>1, <1>2, <1>3 DEF Moves, PostingOf, TypeOK
  <2>3. ApprovedIsRecorded'
    BY <1>1, <1>2, <1>3 DEF ApprovedIsRecorded, PostingOf, IsTopup
  <2> QED
    BY <2>1, <2>2, <2>3
<1>4. CASE Authorize(c)
  <2> USE <1>1, <1>2, <1>4 DEF Authorize, TypeOK, Places, PastPosting, IsTopup, Unauthorized, Final
  <2>1. TypeOK' /\ Places'
    BY DEF Steps
  <2>2. Holds' /\ HeldIsTold'
    BY DEF Holds, HeldIsTold
  <2> QED
    BY <2>1, <2>2, <1>3 DEF SagaInv
<1>5. CASE AuthorizeAnswered(c)
  <2> USE <1>1, <1>2, <1>5 DEF AuthorizeAnswered, TypeOK, Places, PastPosting, IsTopup, Unauthorized, Final
  <2>1. TypeOK' /\ Places'
    BY DEF Steps
  <2>2. Holds' /\ HeldIsTold'
    BY DEF Holds, HeldIsTold
  <2> QED
    BY <2>1, <2>2, <1>3 DEF SagaInv
<1>6. CASE AuthorizeUnheard(c)
  <2> USE <1>1, <1>2, <1>6 DEF AuthorizeUnheard, TypeOK, Places, PastPosting, IsTopup, Unauthorized, Final
  <2>1. TypeOK' /\ Places'
    OBVIOUS
  <2>2. Holds' /\ HeldIsTold'
    BY DEF Holds, HeldIsTold
  <2>3. c \notin hold /\ pc[c] \notin Unauthorized
    BY DEF Holds
  <2>4. Requests' /\ Moves' /\ ApprovedIsRecorded'
    BY <2>3 DEF Requests, Moves, ApprovedIsRecorded, Taken, PostingOf
  <2> QED
    BY <2>1, <2>2, <2>4 DEF SagaInv
<1>7. CASE AuthorizeUnknown(c)
  <2> USE <1>1, <1>2, <1>7 DEF AuthorizeUnknown, TypeOK, Places, PastPosting, IsTopup, Unauthorized, Final
  <2>1. TypeOK' /\ Places'
    BY DEF Steps
  <2>2. Holds' /\ HeldIsTold'
    BY DEF Holds, HeldIsTold
  <2> QED
    BY <2>1, <2>2, <1>3 DEF SagaInv
<1>8. CASE Reverse(c)
  <2> USE <1>1, <1>2, <1>8 DEF Reverse, TypeOK, Places, PastPosting, IsTopup, Unauthorized, Final
  <2>1. TypeOK' /\ Places'
    BY SMTT(40) DEF Steps
  <2>2. Holds' /\ HeldIsTold'
    BY DEF Holds, HeldIsTold
  <2> QED
    BY <2>1, <2>2, <1>3 DEF SagaInv
<1>9. CASE ReverseAcknowledged(c)
  <2> USE <1>1, <1>2, <1>9 DEF ReverseAcknowledged, TypeOK, Places, PastPosting, IsTopup, Unauthorized, Final
  <2>1. TypeOK' /\ Places'
    BY DEF Steps
  <2>2. Holds' /\ HeldIsTold'
    BY DEF Holds, HeldIsTold
  <2> QED
    BY <2>1, <2>2, <1>3 DEF SagaInv
<1>10. CASE ReverseUnheard(c)
  <2> USE <1>1, <1>2, <1>10 DEF ReverseUnheard, TypeOK, Places, PastPosting, IsTopup, Unauthorized, Final
  <2>1. TypeOK' /\ Places'
    BY DEF Steps
  <2>2. Holds' /\ HeldIsTold'
    BY DEF Holds, HeldIsTold
  <2> QED
    BY <2>1, <2>2, <1>3 DEF SagaInv
<1> QED
  BY <1>4, <1>5, <1>6, <1>7, <1>8, <1>9, <1>10

LEMMA DyingCall == ASSUME SagaInv, NEW c \in Call, Crash(c) PROVE SagaInv'
<1> USE ConstantsAssumption
    DEF SagaInv, Crash, Finish, Goto, switchVars, books, TypeOK, Places, PastPosting, IsTopup
<1>1. TypeOK' /\ Places'
  BY DEF Steps, Final
<1>2. Holds' /\ HeldIsTold'
  BY DEF Holds, HeldIsTold, Unauthorized, Final
<1>3. Requests' /\ Moves' /\ ApprovedIsRecorded'
  BY DEF Requests, Moves, ApprovedIsRecorded, Taken, PostingOf
<1> QED
  BY <1>1, <1>2, <1>3

-----------------------------------------------------------------------------
(* Asking for a posting, and what comes of it.                             *)

LEMMA AskForPosting ==
    ASSUME SagaInv, NEW c \in Call, Post(c) \/ PostingTimeout(c)
    PROVE  SagaInv'
<1> USE ConstantsAssumption
    DEF Goto, switchVars, books, TypeOK, Places, PastPosting, IsTopup, Final, Steps
<1>1. /\ TypeOK /\ Places /\ Holds /\ Requests /\ Moves
      /\ ApprovedIsRecorded /\ HeldIsTold
  BY DEF SagaInv
<1>2. pc[c] \in {"post", "posting"} /\ UNCHANGED <<job, rrn, drawn, switchVars, books>>
  BY DEF Post, PostingTimeout, PostingFailed, SendPosting, Finish, Advance
<1>3. ASSUME PostingFailed(c) PROVE SagaInv'
  <2> USE <1>1, <1>2, <1>3 DEF PostingFailed, Finish, Advance
  <2>1. TypeOK' /\ Places'
    OBVIOUS
  <2>2. Holds' /\ HeldIsTold'
    BY DEF Holds, HeldIsTold, Unauthorized
  <2>3. Requests' /\ Moves' /\ ApprovedIsRecorded'
    BY ZenonT(60) DEF Requests, Moves, ApprovedIsRecorded, Taken, PostingOf
  <2> QED
    BY <2>1, <2>2, <2>3 DEF SagaInv
<1>4. ASSUME NEW n \in 1..(PostRetries + 1), SendPosting(c, n) PROVE SagaInv'
  <2> USE <1>1, <1>2, <1>4 DEF SendPosting
  <2>1. Request(c, n) \in [call : Call, rrn : Rrn, try : 1..(PostRetries + 1)]
    BY DEF Request
  <2>2. TypeOK' /\ Places'
    BY <2>1
  <2>3. Holds' /\ HeldIsTold'
    BY DEF Holds, HeldIsTold, Unauthorized
  <2>4. Requests'
    BY DEF Requests, Taken, Request
  <2>5. Moves' /\ ApprovedIsRecorded'
    BY DEF Moves, ApprovedIsRecorded, PostingOf
  <2> QED
    BY <2>2, <2>3, <2>4, <2>5 DEF SagaInv
<1>5. CASE Post(c)
  BY <1>3, <1>4, <1>5 DEF Post
<1>6. CASE PostingTimeout(c)
  <2>1. attempt[c] \in 1..(PostRetries + 1)
    BY <1>1, <1>6 DEF PostingTimeout
  <2> QED
    BY <1>3, <1>4, <1>6, <2>1 DEF PostingTimeout
<1> QED
  BY <1>5, <1>6

\* The ledger serves a request, or fails over it: what is in the books after.
ServedBooks(m) ==
    \/ UNCHANGED books
    \/ /\ Answer(PostingOf(m.call, m.rrn)) = "recorded"
       /\ Record(m, PostingOf(m.call, m.rrn))

LEMMA BooksAfterServing ==
    ASSUME SagaInv, NEW m \in wire, ServedBooks(m)
    PROVE  /\ posted \subseteq posted' /\ posted' \subseteq Posting
           /\ balance' \in [Account -> Int]
           /\ moved' \subseteq Call \X Rrn
           /\ \A r \in Rrn : Taken(r) => Taken(r)'
           /\ \A c \in Call, r \in Rrn :
                 <<c, r>> \in moved' => /\ pc[c] \in PastPosting
                                        /\ r = rrn[c]
                                        /\ PostingOf(c, r) \in posted'
<1> DEFINE c == m.call
           p == PostingOf(c, m.rrn)
<1>1. TypeOK /\ Places /\ Requests /\ Moves
  BY DEF SagaInv
<1>2. /\ c \in Call /\ m.rrn \in Rrn /\ pc[c] \in PastPosting
      /\ m.rrn = rrn[c] \/ Taken(m.rrn)
  BY <1>1 DEF TypeOK, Requests
<1>3. p \in Posting /\ p.rrn = m.rrn
  BY <1>1, <1>2, PostingType DEF Places, PastPosting
<1>4. CASE UNCHANGED books
  BY <1>1, <1>4 DEF books, TypeOK, Moves, Taken
<1>5. CASE Answer(p) = "recorded" /\ Record(m, p)
  <2>1. /\ Books!Fresh(p) /\ posted' = posted \cup {p}
        /\ balance' = [balance EXCEPT ![p.debit] = @ - p.amount, ![p.credit] = @ + p.amount]
        /\ moved' = moved \cup {<<c, m.rrn>>}
    BY <1>5 DEF Record, Books!Post
  <2>2. m.rrn = rrn[c]
    BY <1>2, <1>3, <2>1 DEF Books!Fresh, Taken
  <2>3. balance' \in [Account -> Int]
    BY <1>1, <1>3, <2>1 DEF TypeOK, Posting
  <2> HIDE DEF p, c
  <2>4. posted' \subseteq Posting /\ moved' \subseteq Call \X Rrn
    BY <1>1, <1>2, <1>3, <2>1 DEF TypeOK
  <2>5. \A r \in Rrn : Taken(r) => Taken(r)'
    BY <2>1 DEF Taken
  <2>6. \A d \in Call, r \in Rrn :
           <<d, r>> \in moved' => /\ pc[d] \in PastPosting
                                  /\ r = rrn[d]
                                  /\ PostingOf(d, r) \in posted'
    BY <1>1, <1>2, <2>1, <2>2 DEF Moves, p
  <2> QED
    BY <2>1, <2>3, <2>4, <2>5, <2>6
<1> QED
  BY <1>4, <1>5 DEF ServedBooks

LEMMA ServePosting ==
    ASSUME SagaInv, NEW m \in wire, LedgerServes(m) \/ LedgerFails(m)
    PROVE  SagaInv'
<1> DEFINE c == m.call
           p == PostingOf(c, m.rrn)
<1>1. /\ TypeOK /\ Places /\ Holds /\ Requests /\ Moves
      /\ ApprovedIsRecorded /\ HeldIsTold
  BY DEF SagaInv
<1>2. ServedBooks(m) /\ wire' = wire \ {m} /\ UNCHANGED switchVars
  BY DEF ServedBooks, LedgerServes, LedgerFails
<1>3. c \in Call /\ m.rrn \in Rrn
  BY <1>1 DEF TypeOK
<1>4. /\ posted \subseteq posted' /\ posted' \subseteq Posting
      /\ balance' \in [Account -> Int]
      /\ moved' \subseteq Call \X Rrn
      /\ \A r \in Rrn : Taken(r) => Taken(r)'
      /\ \A d \in Call, r \in Rrn :
            <<d, r>> \in moved' => /\ pc[d] \in PastPosting
                                   /\ r = rrn[d]
                                   /\ PostingOf(d, r) \in posted'
  BY <1>2, BooksAfterServing
\* The answer its caller may hear.
<1>5. \/ UNCHANGED callVars
      \/ Listening(m) /\ p \in posted' /\ Finish(c, "approved")
      \/ Listening(m) /\ ~IsTopup(c) /\ Advance(c, "reverse")
      \/ Listening(m) /\ IsTopup(c) /\ Finish(c, "refused")
      \/ /\ Listening(m) /\ IsTopup(c) /\ drawn[c] < References
         /\ p \notin posted' /\ Taken(m.rrn) /\ DrawAndGoto(c, "post")
  <2>1. CASE LedgerServes(m)
    <3>1. Answer(p) \in {"recorded", "already_recorded"} => p \in posted'
      BY <1>4, <2>1 DEF LedgerServes, Answer, Record, Books!Post
    <3>2. Answer(p) = "collision" => p \notin posted /\ UNCHANGED books /\ ~Books!Fresh(p)
      BY <2>1 DEF LedgerServes, Answer
    <3>3. p.rrn = m.rrn
      BY DEF PostingOf
    <3>4. Answer(p) = "collision" => p \notin posted' /\ Taken(m.rrn)
      BY <3>2, <3>3 DEF books, Books!Fresh, Taken
    <3> HIDE DEF p
    <3>5. \/ Listening(m) /\ HearPosting(c, Answer(p))
          \/ UNCHANGED callVars
      BY <2>1 DEF LedgerServes, p
    <3> QED
      BY <3>1, <3>4, <3>5 DEF HearPosting
  <2>2. CASE LedgerFails(m)
    BY <2>2 DEF LedgerFails, HearPosting
  <2> QED
    BY <2>1, <2>2
<1> HIDE DEF p, c
<1> USE ConstantsAssumption, <1>1, <1>2, <1>3, <1>4
    DEF Goto, switchVars, TypeOK, Places, PastPosting, IsTopup, Final, Steps
<1>6. CASE UNCHANGED callVars
  <2> USE <1>6 DEF callVars
  <2>1. TypeOK' /\ Places' /\ Holds' /\ HeldIsTold'
    BY DEF Holds, HeldIsTold
  <2>2. Requests' /\ Moves' /\ ApprovedIsRecorded'
    BY DEF Requests, Moves, ApprovedIsRecorded, Taken, PostingOf
  <2> QED
    BY <2>1, <2>2 DEF SagaInv
<1>7. CASE Listening(m) /\ ( \/ p \in posted' /\ Finish(c, "approved")
                             \/ ~IsTopup(c) /\ Advance(c, "reverse")
                             \/ IsTopup(c) /\ Finish(c, "refused"))
  <2>1. pc[c] = "posting" /\ rrn[c] = m.rrn /\ p = PostingOf(c, rrn[c])
    BY <1>7 DEF Listening, p, c
  <2> USE <1>7, <2>1 DEF Finish, Advance
  <2>2. TypeOK' /\ Places'
    OBVIOUS
  <2>3. Holds' /\ HeldIsTold'
    BY DEF Holds, HeldIsTold, Unauthorized
  <2>4. Requests'
    BY DEF Requests, Taken
  <2>5. Moves'
    BY DEF Moves, PostingOf
  <2>6. ApprovedIsRecorded'
    BY DEF ApprovedIsRecorded, PostingOf, Holds
  <2> QED
    BY <2>2, <2>3, <2>4, <2>5, <2>6 DEF SagaInv
<1>8. CASE /\ Listening(m) /\ IsTopup(c) /\ drawn[c] < References
           /\ p \notin posted' /\ Taken(m.rrn) /\ DrawAndGoto(c, "post")
  <2>1. pc[c] = "posting" /\ rrn[c] = m.rrn /\ p = PostingOf(c, rrn[c])
    BY <1>8 DEF Listening, p, c
  <2>2. PICK r \in Rrn : rrn' = [rrn EXCEPT ![c] = r]
    BY <1>8, DrawsAReference
  <2> USE <1>8, <2>1, <2>2 DEF DrawAndGoto
  <2>3. TypeOK' /\ Places'
    OBVIOUS
  <2>4. Holds' /\ HeldIsTold'
    BY DEF Holds, HeldIsTold, Unauthorized
  <2>5. Requests'
    BY DEF Requests, Taken
  <2>6. \A s \in Rrn : <<c, s>> \notin moved'
    OBVIOUS
  <2>7. Moves'
    BY <2>6 DEF Moves, PostingOf
  <2>8. ApprovedIsRecorded'
    BY DEF ApprovedIsRecorded, PostingOf
  <2> QED
    BY <2>3, <2>4, <2>5, <2>7, <2>8 DEF SagaInv
<1> QED
  BY <1>5, <1>6, <1>7, <1>8

LEMMA LostRequest == ASSUME SagaInv, NEW m \in wire, LoseRequest(m) PROVE SagaInv'
BY DEF SagaInv, LoseRequest, callVars, switchVars, books, TypeOK, Places, Holds, Requests,
   Moves, ApprovedIsRecorded, HeldIsTold, Taken, PostingOf, IsTopup

LEMMA SagaNext == SagaInv /\ [Next]_vars => SagaInv'
<1> SUFFICES ASSUME SagaInv, [Next]_vars PROVE SagaInv'
  OBVIOUS
<1>1. CASE UNCHANGED vars
  BY <1>1 DEF vars, SagaInv, callVars, switchVars, books, TypeOK, Places, Holds, Requests,
     Moves, ApprovedIsRecorded, HeldIsTold, Taken, PostingOf, IsTopup
<1> QED
  BY <1>1, BeforePosting, AtTheSwitch, AskForPosting, ServePosting, LostRequest, DyingCall
     DEF Next, Serve

LEMMA SagaAlways == Spec => []SagaInv
BY SagaInit, SagaNext, PTL DEF Spec

-----------------------------------------------------------------------------
\* Every reachable state of the saga is well typed: the retry loops stay within
\* their bounds and a top-up within its references.
THEOREM TypeCorrect == Spec => []TypeOK
<1>1. SagaInv => TypeOK
  BY DEF SagaInv
<1> QED
  BY <1>1, SagaAlways, PTL

\* Whoever is told "approved" is in the books, and a card payment is held.
THEOREM ApprovalsAreRecorded == Spec => []ApprovedIsRecorded
<1>1. SagaInv => ApprovedIsRecorded
  BY DEF SagaInv
<1> QED
  BY <1>1, SagaAlways, PTL

\* What has asked for no posting asks for none later, unless it gets to "post".
Silent(c) == /\ \A m \in wire : m.call # c
             /\ \A x \in moved : x[1] # c

LEMMA SilenceLasts ==
    ASSUME SagaInv, [Next]_vars, NEW c \in Call, Silent(c), pc[c] \notin {"post", "posting"}
    PROVE  Silent(c)'
<1>1. CASE UNCHANGED vars
  BY <1>1 DEF vars, books, Silent
<1>2. CASE \E d \in Call : Post(d) \/ PostingTimeout(d)
  <2>1. PICK d \in Call : Post(d) \/ PostingTimeout(d)
    BY <1>2
  <2>2. d # c /\ UNCHANGED moved /\ \A m \in wire' \ wire : m.call = d
    BY <2>1 DEF Post, PostingTimeout, PostingFailed, SendPosting, Request, books
  <2> QED
    BY <2>2 DEF Silent
<1>3. CASE \E m \in wire : LedgerServes(m) \/ LedgerFails(m)
  <2>1. PICK m \in wire : LedgerServes(m) \/ LedgerFails(m)
    BY <1>3
  <2>2. wire' \subseteq wire /\ moved' \subseteq moved \cup {<<m.call, m.rrn>>}
    BY <2>1 DEF LedgerServes, LedgerFails, Record, books
  <2> QED
    BY <2>2 DEF Silent
<1>4. CASE wire' \subseteq wire /\ UNCHANGED moved
  BY <1>4 DEF Silent
<1> QED
  BY <1>1, <1>2, <1>3, <1>4 DEF Next, Serve, books, Receive, Resolve, CheckFunds, EvaluateRisk,
     Authorize, AuthorizeAnswered, AuthorizeUnheard, AuthorizeUnknown, Reverse,
     ReverseAcknowledged, ReverseUnheard, Crash, LoseRequest

\* Only before its posting is a payment refused.
LEMMA RefusedBefore ==
    ASSUME SagaInv, [Next]_vars, NEW c \in Call, outcome'[c] = "refused", ~IsTopup(c)'
    PROVE  /\ ~IsTopup(c)
           /\ outcome[c] = "refused" \/ pc[c] \in {"resolve", "authorizing"}
<1> USE ConstantsAssumption DEF SagaInv, TypeOK, Places, IsTopup, Goto, Finish, Advance,
        DrawAndGoto, callVars, PastPosting
<1>1. CASE UNCHANGED vars
  BY <1>1 DEF vars
<1>2. ASSUME NEW d \in Call, NEW j \in Job, Receive(d, j) PROVE outcome[c] = "refused" /\ ~IsTopup(c)
  BY <1>2 DEF Receive, Final
<1>3. ASSUME NEW d \in Call, Resolve(d) \/ AuthorizeAnswered(d)
      PROVE  ~IsTopup(c) /\ (outcome[c] = "refused" \/ pc[c] \in {"resolve", "authorizing"})
  BY <1>3 DEF Resolve, AuthorizeAnswered
<1>4. ASSUME NEW d \in Call,
             \/ CheckFunds(d) \/ EvaluateRisk(d) \/ Authorize(d) \/ AuthorizeUnknown(d)
             \/ AuthorizeUnheard(d) \/ Crash(d)
      PROVE  outcome[c] = "refused" /\ ~IsTopup(c)
  BY <1>4 DEF CheckFunds, EvaluateRisk, Authorize, AuthorizeUnknown, AuthorizeUnheard, Crash
<1>5. ASSUME NEW d \in Call,
             \/ Post(d) \/ PostingTimeout(d) \/ Reverse(d) \/ ReverseAcknowledged(d)
             \/ ReverseUnheard(d)
      PROVE  outcome[c] = "refused" /\ ~IsTopup(c)
  BY <1>5 DEF Post, PostingTimeout, PostingFailed, SendPosting, Reverse, ReverseAcknowledged,
     ReverseUnheard
<1>6. ASSUME NEW m \in wire, LedgerServes(m) \/ LedgerFails(m) \/ LoseRequest(m)
      PROVE  outcome[c] = "refused" /\ ~IsTopup(c)
  BY <1>6 DEF LedgerServes, LedgerFails, LoseRequest, HearPosting
<1> QED
  BY <1>1, <1>2, <1>3, <1>4, <1>5, <1>6 DEF Next, Serve

\* The switch keeps no money for a card payment whose caller was told that
\* nothing happened; and a payment answered 4xx holds nothing, has moved nothing
\* and has nothing under way, which api-gateway relies on when it gives an
\* idempotency key back.
THEOREM HoldsAreKnown == Spec => []NoSilentHold
<1> DEFINE Refused == \A c \in Call : outcome[c] = "refused" /\ ~IsTopup(c) => Silent(c)
<1>1. Init => Refused
  BY DEF Init, Silent
<1>2. ASSUME SagaInv, Refused, [Next]_vars PROVE Refused'
  <2> SUFFICES ASSUME NEW c \in Call, outcome'[c] = "refused", ~IsTopup(c)' PROVE Silent(c)'
    OBVIOUS
  <2>1. /\ ~IsTopup(c)
        /\ outcome[c] = "refused" \/ pc[c] \in {"resolve", "authorizing"}
    BY <1>2, RefusedBefore
  <2>2. CASE outcome[c] = "refused"
    <3>1. Silent(c) /\ pc[c] = "done"
      BY <1>2, <2>1, <2>2, ConstantsAssumption DEF SagaInv, Places, Final
    <3> QED
      BY <1>2, <3>1, SilenceLasts
  <2>3. CASE pc[c] \in {"resolve", "authorizing"}
    <3>1. Silent(c)
      BY <1>2, <2>3 DEF SagaInv, TypeOK, Requests, Moves, PastPosting, Silent
    <3> QED
      BY <1>2, <2>3, <3>1, SilenceLasts
  <2> QED
    BY <2>1, <2>2, <2>3
<1>3. SagaInv /\ Refused => NoSilentHold
  BY ConstantsAssumption DEF SagaInv, Places, Holds, HeldIsTold, Silent, Final,
     RefusedPaymentDoesNothing, NoSilentHold
<1> HIDE DEF Refused
<1> QED
  BY <1>1, <1>2, <1>3, SagaAlways, PTL DEF Spec

\* A call moves money at most once, for any number of retries, redrawn
\* references, late copies and lost acknowledgements.
THEOREM MoneyMovesOnce == Spec => []MovesMoneyOnce
<1>1. SagaInv => MovesMoneyOnce
  <2> SUFFICES ASSUME SagaInv, NEW c \in Call
               PROVE  Cardinality({x \in moved : x[1] = c}) <= 1
    BY DEF MovesMoneyOnce
  <2> DEFINE mine == {x \in moved : x[1] = c}
  <2>1. mine \subseteq {<<c, rrn[c]>>}
    BY DEF SagaInv, TypeOK, Moves
  <2>2. IsFiniteSet({<<c, rrn[c]>>}) /\ Cardinality({<<c, rrn[c]>>}) = 1
    BY FS_Singleton
  <2> HIDE DEF mine
  <2>3. Cardinality(mine) <= 1
    BY <2>1, <2>2, FS_Subset
  <2> QED
    BY <2>3 DEF mine
<1> QED
  BY <1>1, SagaAlways, PTL

\* No copy of a card payment's posting leaves while the switch does not hold
\* the money, at the first attempt or at any retry.
THEOREM OnlyHeldIsPosted == Spec => PostsOnlyWhatIsHeld
<1> DEFINE HeldFirst == \A m \in wire' \ wire : IsTopup(m.call) \/ m.call \in hold
<1>1. SagaInv /\ [Next]_vars => HeldFirst
  <2> SUFFICES ASSUME SagaInv, [Next]_vars, NEW m \in wire' \ wire
               PROVE  IsTopup(m.call) \/ m.call \in hold
    OBVIOUS
  <2>1. PICK c \in Call : Post(c) \/ PostingTimeout(c)
    BY DEF Next, Serve, vars, Receive, Resolve, CheckFunds, EvaluateRisk, Authorize,
       AuthorizeAnswered, AuthorizeUnheard, AuthorizeUnknown, Reverse, ReverseAcknowledged,
       ReverseUnheard, Crash, LedgerServes, LedgerFails, LoseRequest
  <2>2. m.call = c /\ pc[c] \in {"post", "posting"}
    BY <2>1 DEF Post, PostingTimeout, PostingFailed, SendPosting, Request
  <2> QED
    BY <2>2 DEF SagaInv, Holds
<1> HIDE DEF HeldFirst
<1>2. [][HeldFirst]_vars => PostsOnlyWhatIsHeld
  BY DEF HeldFirst, PostsOnlyWhatIsHeld
<1> QED
  BY <1>1, <1>2, SagaAlways, PTL DEF Spec
=============================================================================
