-------------------------------- MODULE Saga --------------------------------
(***************************************************************************)
(* The money saga of transaction-service: purchase, transfer and top-up,   *)
(* with the HTTP calls it makes to ledger-service, risk-service and the    *)
(* ISO 8583 adapter.  A call may be lost before it is served, served after *)
(* its caller gave up, or served and its answer lost; some are retried.    *)
(* The books are the atomic ledger of module Ledger, which LedgerDB is     *)
(* proved to implement; a posting request answers as record_posting does.  *)
(* The switch behind the adapter is a set of holds, at most one per call.  *)
(***************************************************************************)
EXTENDS Integers, FiniteSets

CONSTANTS
    Call,            \* requests served by the replicas of transaction-service
    Job,             \* what a request may ask for
    Wallet, Funding, \* accounts, as in Ledger
    Owner,           \* the user each wallet belongs to
    Rrn,             \* reference numbers _generate_rrn may draw
    Faults,          \* the faults considered, see FaultKind
    PostRetries,     \* retries of a posting (3 in the code)
    ReverseRetries,  \* retries of a compensating reversal (2 in the code)
    References,      \* references a top-up may try (3 in the code)
    Deposit,         \* the top-up already in the books when the model starts
    None             \* "no job", "no reference"

Account == Wallet \cup {Funding}
Kind == {"purchase", "transfer", "topup"}
Posting == [rrn : Rrn, debit : Account, credit : Account,
            amount : Nat \ {0}, kind : Kind]
FaultKind == {"collision",     \* two calls draw the same reference
              "database",      \* a posting fails inside ledger-service
              "crash"}         \* a transaction-service pod dies

Final == {"approved", "declined", "refused", "unavailable", "unknown",
          "reversed", "crashed"}

ASSUME ConstantsAssumption ==
    /\ Funding \notin Wallet
    /\ Job \subseteq [kind : Kind, user : {Owner[w] : w \in Wallet},
                      debit : Account, credit : Account, amount : Nat \ {0}]
    /\ \A j \in Job : (j.kind = "topup") <=> (j.debit = Funding)
    /\ Faults \subseteq FaultKind
    /\ PostRetries \in Nat /\ ReverseRetries \in Nat /\ References \in Nat \ {0}
    /\ Deposit \in Posting /\ Deposit.debit = Funding /\ Deposit.credit \in Wallet
    /\ None \notin Job /\ None \notin Rrn /\ None \notin Final

VARIABLES
    pc, job,          \* per call: the step it is at, what it was asked
    rrn, drawn,       \* its reference, and how many it has drawn
    attempt,          \* attempts made of the HTTP request it is waiting for
    outcome,          \* what its caller was told
    authorizing,      \* calls whose authorisation request is still travelling
    hold,             \* calls for which the switch holds the customer's money
    wire,             \* posting requests still travelling
    posted, balance,  \* the books
    moved             \* <<call, rrn>> of every posting a call's request made

callVars == <<pc, job, rrn, drawn, attempt, outcome>>
switchVars == <<authorizing, hold>>
books == <<posted, balance, moved>>
vars == <<callVars, switchVars, wire, books>>

Books == INSTANCE Ledger WITH Request <- Posting

Steps == {"idle", "resolve", "afford", "risk", "authorize", "authorizing",
          "post", "posting", "reverse", "reversing", "done"}

Init ==
    /\ pc = [c \in Call |-> "idle"]
    /\ job = [c \in Call |-> None]
    /\ rrn = [c \in Call |-> None]
    /\ drawn = [c \in Call |-> 0]
    /\ attempt = [c \in Call |-> 0]
    /\ outcome = [c \in Call |-> None]
    /\ authorizing = {} /\ hold = {} /\ wire = {} /\ moved = {}
    /\ posted = {Deposit}
    /\ balance = [a \in Account |->
           CASE a = Funding -> -Deposit.amount
             [] a = Deposit.credit -> Deposit.amount
             [] OTHER -> 0]

-----------------------------------------------------------------------------
Goto(c, step) == pc' = [pc EXCEPT ![c] = step]

\* The answer to the caller.  4xx is "refused", 503 is "unavailable"; risk's
\* "review" is a decline here.
Finish(c, told) ==
    /\ Goto(c, "done")
    /\ outcome' = [outcome EXCEPT ![c] = told]
    /\ UNCHANGED <<job, rrn, drawn, attempt>>

Advance(c, step) ==
    /\ Goto(c, step)
    /\ UNCHANGED <<job, rrn, drawn, attempt, outcome>>

\* References are ten digits of the clock and two random ones: they differ,
\* unless two are drawn in the same second and the random digits agree.
Drawable == IF "collision" \in Faults THEN Rrn
            ELSE {r \in Rrn : /\ \A c \in Call : rrn[c] # r
                              /\ \A p \in posted : p.rrn # r}

\* _generate_rrn, then the step that uses the reference.
DrawAndGoto(c, step) ==
    /\ \E r \in Drawable : rrn' = [rrn EXCEPT ![c] = r]
    /\ drawn' = [drawn EXCEPT ![c] = @ + 1]
    /\ Goto(c, step)
    /\ UNCHANGED <<job, attempt, outcome>>

PostingOf(c, r) == [rrn |-> r, debit |-> job[c].debit, credit |-> job[c].credit,
                    amount |-> job[c].amount, kind |-> job[c].kind]
IsTopup(c) == job[c].kind = "topup"

-----------------------------------------------------------------------------
(* Before the point of no return.                                          *)

Receive(c, j) ==
    /\ pc[c] = "idle"
    /\ Goto(c, "resolve")
    /\ job' = [job EXCEPT ![c] = j]
    /\ UNCHANGED <<rrn, drawn, attempt, outcome, switchVars, wire, books>>

\* The account the caller must own: the debit side, a top-up's credit side.
Mine(j) == Owner[IF j.kind = "topup" THEN j.credit ELSE j.debit] = j.user
SelfTransfer(j) == j.kind = "transfer" /\ j.debit = j.credit

\* Both identifiers are resolved (retried reads: they answer or they do not),
\* then ownership and self-transfer are checked.
Resolve(c) ==
    /\ pc[c] = "resolve"
    /\ \/ Finish(c, "unavailable")
       \/ /\ ~Mine(job[c]) \/ SelfTransfer(job[c])
          /\ Finish(c, "refused")
       \/ /\ Mine(job[c]) /\ ~SelfTransfer(job[c])
          /\ IF IsTopup(c) THEN DrawAndGoto(c, "post") ELSE Advance(c, "afford")
    /\ UNCHANGED <<switchVars, wire, books>>

\* _can_afford: a read of the balance with no lock, open when it fails.
CheckFunds(c) ==
    /\ pc[c] = "afford"
    /\ \/ /\ balance[job[c].debit] < job[c].amount
          /\ Finish(c, "declined")
       \/ Advance(c, "risk")
    /\ UNCHANGED <<switchVars, wire, books>>

\* Never retried, and closed when it fails.
EvaluateRisk(c) ==
    /\ pc[c] = "risk"
    /\ \/ Finish(c, "unavailable")
       \/ Finish(c, "declined")
       \/ DrawAndGoto(c, "authorize")
    /\ UNCHANGED <<switchVars, wire, books>>

-----------------------------------------------------------------------------
(* The authorisation, sent once.                                           *)

\* The adapter's circuit breaker is open, or the request leaves.
Authorize(c) ==
    /\ pc[c] = "authorize"
    /\ \/ Finish(c, "unknown") /\ UNCHANGED authorizing
       \/ /\ Advance(c, "authorizing")
          /\ authorizing' = authorizing \cup {c}
    /\ UNCHANGED <<hold, wire, books>>

\* The switch decides: it holds the money and says so, declines, or the
\* adapter refuses the message before it gets there.
AuthorizeAnswered(c) ==
    /\ pc[c] = "authorizing" /\ c \in authorizing
    /\ authorizing' = authorizing \ {c}
    /\ \/ Advance(c, "post") /\ hold' = hold \cup {c}
       \/ Finish(c, "declined") /\ UNCHANGED hold
       \/ Finish(c, "refused") /\ UNCHANGED hold
    /\ UNCHANGED <<wire, books>>

\* The switch holds the money and the answer never comes back, or the request
\* is lost, declined with nobody listening, or sent to no switch at all.
AuthorizeUnheard(c) ==
    /\ c \in authorizing
    /\ authorizing' = authorizing \ {c}
    /\ hold' \in {hold, hold \cup {c}}
    /\ UNCHANGED <<callVars, wire, books>>

\* Bug: an unreachable adapter is taken for an approval.
AuthorizeUnknown_Approved(c) ==
    /\ pc[c] = "authorizing"
    /\ Advance(c, "post")
    /\ hold' \in {hold, hold \ {c}}
    /\ UNCHANGED <<authorizing, wire, books>>

\* A timeout anywhere on the way, or the adapter's 502 or 503.  ACE or the
\* adapter may have sent a reversal, which the switch may have served.
AuthorizeUnknown(c) ==
    /\ pc[c] = "authorizing"
    /\ Finish(c, "unknown")
    /\ hold' \in {hold, hold \ {c}}
    /\ UNCHANGED <<authorizing, wire, books>>

-----------------------------------------------------------------------------
(* The posting.                                                            *)

Request(c, n) == [call |-> c, rrn |-> rrn[c], try |-> n]

SendPosting(c, n) ==
    /\ Goto(c, "posting")
    /\ attempt' = [attempt EXCEPT ![c] = n]
    /\ wire' = wire \cup {Request(c, n)}
    /\ UNCHANGED <<job, rrn, drawn, outcome>>

\* ServiceCallError: no answer.
PostingFailed(c) ==
    /\ IF IsTopup(c) THEN Finish(c, "unavailable") ELSE Advance(c, "reverse")
    /\ UNCHANGED wire

\* The ledger's circuit breaker is open, or the first attempt leaves.
Post(c) ==
    /\ pc[c] = "post"
    /\ PostingFailed(c) \/ SendPosting(c, 1)
    /\ UNCHANGED <<switchVars, books>>

\* Bug: a retry is not counted.
PostingTimeout_Uncounted(c) ==
    /\ pc[c] = "posting"
    /\ SendPosting(c, attempt[c])
    /\ UNCHANGED <<switchVars, books>>

\* Bug: a top-up whose request timed out draws a fresh reference.
PostingTimeout_FreshReference(c) ==
    /\ pc[c] = "posting"
    /\ IF attempt[c] <= PostRetries
       THEN IF IsTopup(c) /\ drawn[c] < References
            THEN DrawAndGoto(c, "post") /\ UNCHANGED wire
            ELSE SendPosting(c, attempt[c] + 1)
       ELSE PostingFailed(c)
    /\ UNCHANGED <<switchVars, books>>

\* A transport error or a 5xx.  The request may be served all the same.
PostingTimeout(c) ==
    /\ pc[c] = "posting"
    /\ IF attempt[c] <= PostRetries THEN SendPosting(c, attempt[c] + 1)
                                    ELSE PostingFailed(c)
    /\ UNCHANGED <<switchVars, books>>

\* Bug: one reference too many.
HearPosting_Unbounded(c, answer) ==
    \/ /\ answer \in {"recorded", "already_recorded"}
       /\ Finish(c, "approved")
    \/ /\ answer \notin {"recorded", "already_recorded"}
       /\ IF ~IsTopup(c) THEN Advance(c, "reverse")
          ELSE IF answer = "collision" /\ drawn[c] <= References
               THEN DrawAndGoto(c, "post")
               ELSE Finish(c, "refused")

\* Bug: the 4xx of a payment's posting is passed on, as a top-up's is.
HearPosting_PassedOn(c, answer) ==
    \/ /\ answer \in {"recorded", "already_recorded"}
       /\ Finish(c, "approved")
    \/ /\ answer \notin {"recorded", "already_recorded"}
       /\ IF IsTopup(c) /\ answer = "collision" /\ drawn[c] < References
          THEN DrawAndGoto(c, "post")
          ELSE Finish(c, "refused")

\* What the caller does with an answer it hears.  Only a top-up, which has
\* authorised nothing, tries another reference.
HearPosting(c, answer) ==
    \/ /\ answer \in {"recorded", "already_recorded"}
       /\ Finish(c, "approved")
    \/ /\ answer \notin {"recorded", "already_recorded"}
       /\ IF ~IsTopup(c) THEN Advance(c, "reverse")
          ELSE IF answer = "collision" /\ drawn[c] < References
               THEN DrawAndGoto(c, "post")
               ELSE Finish(c, "refused")

\* Bug: any duplicate reference is reported as a replay.
Answer_NoCollision(p) ==
    IF ~Books!Covered(p) THEN "insufficient"
    ELSE IF Books!Fresh(p) THEN "recorded" ELSE "already_recorded"

\* record_posting: solvency first, then the primary key, then the comparison
\* with what the reference already stores.
Answer(p) ==
    IF ~Books!Covered(p) THEN "insufficient"
    ELSE IF Books!Fresh(p) THEN "recorded"
    ELSE IF p \in posted THEN "already_recorded" ELSE "collision"

Listening(m) == /\ pc[m.call] = "posting" /\ rrn[m.call] = m.rrn
                /\ attempt[m.call] = m.try

Record(m, p) == /\ Books!Post(p)
                /\ moved' = moved \cup {<<m.call, m.rrn>>}

\* ledger-service serves a posting request, however late, and its caller
\* hears the answer or does not.
LedgerServes(m) ==
    LET p == PostingOf(m.call, m.rrn) IN
    /\ m \in wire
    /\ wire' = wire \ {m}
    /\ IF Answer(p) = "recorded" THEN Record(m, p) ELSE UNCHANGED books
    /\ \/ Listening(m) /\ HearPosting(m.call, Answer(p))
       \/ UNCHANGED callVars
    /\ UNCHANGED switchVars

\* The database fails under the request: 422, and if it was the COMMIT whose
\* acknowledgement was lost, the posting is in the books.
LedgerFails(m) ==
    LET p == PostingOf(m.call, m.rrn) IN
    /\ "database" \in Faults
    /\ m \in wire
    /\ wire' = wire \ {m}
    /\ \/ UNCHANGED books
       \/ Answer(p) = "recorded" /\ Record(m, p)
    /\ \/ Listening(m) /\ HearPosting(m.call, "rejected")
       \/ UNCHANGED callVars
    /\ UNCHANGED switchVars

LoseRequest(m) ==
    /\ m \in wire
    /\ wire' = wire \ {m}
    /\ UNCHANGED <<callVars, switchVars, books>>

-----------------------------------------------------------------------------
(* The compensation.                                                       *)

\* The adapter's circuit breaker is open, or the reversal leaves.
Reverse(c) ==
    /\ pc[c] = "reverse"
    /\ \/ Finish(c, "unknown")
       \/ /\ Goto(c, "reversing")
          /\ attempt' = [attempt EXCEPT ![c] = 1]
          /\ UNCHANGED <<job, rrn, drawn, outcome>>
    /\ UNCHANGED <<switchVars, wire, books>>

\* The reversal carries card, amount and RRN, so it undoes the call's hold.
\* The switch acknowledges every reversal (host_simulator.py).
ReverseAcknowledged(c) ==
    /\ pc[c] = "reversing"
    /\ hold' = hold \ {c}
    /\ Finish(c, "reversed")
    /\ UNCHANGED <<authorizing, wire, books>>

\* Bug: the compensation is believed without an acknowledgement.
ReverseUnheard_Believed(c) ==
    /\ pc[c] = "reversing"
    /\ hold' \in {hold, hold \ {c}}
    /\ Finish(c, "reversed")
    /\ UNCHANGED <<authorizing, wire, books>>

\* No acknowledgement: the switch may have served the reversal all the same.
ReverseUnheard(c) ==
    /\ pc[c] = "reversing"
    /\ hold' \in {hold, hold \ {c}}
    /\ IF attempt[c] <= ReverseRetries
       THEN /\ attempt' = [attempt EXCEPT ![c] = @ + 1]
            /\ UNCHANGED <<pc, job, rrn, drawn, outcome>>
       ELSE Finish(c, "unknown")
    /\ UNCHANGED <<authorizing, wire, books>>

-----------------------------------------------------------------------------
\* The pod dies, the saga with it: nothing of it is stored anywhere.
Crash(c) ==
    /\ "crash" \in Faults
    /\ pc[c] \notin {"idle", "done"}
    /\ Finish(c, "crashed")
    /\ UNCHANGED <<switchVars, wire, books>>

Serve(c) ==
    \/ Resolve(c) \/ CheckFunds(c) \/ EvaluateRisk(c)
    \/ Authorize(c) \/ AuthorizeAnswered(c) \/ AuthorizeUnknown(c)
    \/ Post(c) \/ PostingTimeout(c)
    \/ Reverse(c) \/ ReverseAcknowledged(c) \/ ReverseUnheard(c)

Next ==
    \/ \E c \in Call : \/ \E j \in Job : Receive(c, j)
                       \/ Serve(c)
                       \/ AuthorizeUnheard(c)
                       \/ Crash(c)
    \/ \E m \in wire : LedgerServes(m) \/ LedgerFails(m) \/ LoseRequest(m)

Spec == Init /\ [][Next]_vars

\* A call is a thread that runs, and every request it waits for has a timeout:
\* 3 s for risk, 5 s for the ledger, 30 s for the adapter.
Fairness == \A c \in Call : WF_vars(Serve(c))
FairSpec == Spec /\ Fairness

-----------------------------------------------------------------------------
TypeOK ==
    /\ pc \in [Call -> Steps]
    /\ job \in [Call -> Job \cup {None}]
    /\ rrn \in [Call -> Rrn \cup {None}]
    /\ drawn \in [Call -> 0..References]
    /\ attempt \in [Call -> 0..(PostRetries + ReverseRetries + 1)]
    /\ outcome \in [Call -> Final \cup {None}]
    /\ authorizing \subseteq Call /\ hold \subseteq Call
    /\ wire \subseteq [call : Call, rrn : Rrn, try : 1..(PostRetries + 1)]
    /\ posted \subseteq Posting /\ balance \in [Account -> Int]
    /\ moved \subseteq Call \X Rrn

\* A caller told "approved" finds its posting in the books, and for a card
\* payment the switch still holds the money: saga steps 4 and 5.
ApprovedIsRecorded ==
    \A c \in Call : outcome[c] = "approved" =>
        /\ PostingOf(c, rrn[c]) \in posted
        /\ IsTopup(c) \/ c \in hold

\* However many copies of its posting travel, are late or are retried, a call
\* moves money once: the primary key is the saga's idempotency.
MovesMoneyOnce ==
    \A c \in Call : Cardinality({x \in moved : x[1] = c}) <= 1

\* A hold is behind an approval, or the caller was told that the outcome is
\* unknown, or the pod that placed it is gone.
HeldIsTold ==
    \A c \in hold : pc[c] = "done" =>
        outcome[c] \in {"approved", "unknown", "crashed"}

\* Nothing of a payment answered 4xx was done, and nothing of it travels.
RefusedPaymentDoesNothing ==
    \A c \in Call : outcome[c] = "refused" /\ ~IsTopup(c) =>
        /\ c \notin hold \cup authorizing
        /\ \A m \in wire : m.call # c
        /\ \A x \in moved : x[1] # c

\* Who was told that nothing happened was told the truth: the switch holds
\* nothing for him, and a payment answered 4xx has done nothing and will do
\* nothing, for api-gateway gives its idempotency key back.  (A top-up answered
\* 4xx may have moved its money.)  No ledger posting means no silent hold.
NoSilentHold == HeldIsTold /\ RefusedPaymentDoesNothing

\* A posting leaves for the ledger, the first time and at every retry, only
\* while the switch holds the money: an unknown outcome is never posted.
PostsOnlyWhatIsHeld ==
    [][\A m \in wire' \ wire : IsTopup(m.call) \/ m.call \in hold]_vars

\* The retry loops end: whoever calls gets an answer.
EveryCallIsAnswered == \A c \in Call : pc[c] = "resolve" ~> pc[c] = "done"

\* "A retry after a lost response finds the row already there and reports
\* already_recorded" (_post_to_ledger): a copy still travelling of a posting
\* that its call already made will be answered so.
RetryFindsThePosting ==
    \A m \in wire : <<m.call, m.rrn>> \in moved =>
        Answer(PostingOf(m.call, m.rrn)) = "already_recorded"
=============================================================================
