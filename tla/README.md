# Microfinance platform: a TLA+ verification project

This directory holds TLA+ models of the platform in `src/`, the TLC
configurations that check them on small instances, and proofs of their central
properties for all values of their constants. The models are translated from
the Python code. Where a comment, docstring or `README.md` of the repository
disagrees with the code, the model follows the code; *Findings* lists the
disagreements, those a run demonstrates and those that were only noticed.

Paths below are relative to `src/`. `mfcommon/` stands for
`libs/mfcommon/mfcommon/`.

## 1. The system

| Component | State it keeps | Operations | Talks to |
|---|---|---|---|
| api-gateway (`services/api-gateway`, 2 replicas) | idempotency claims and responses (Redis, 24 h TTL, or a dictionary) | money routes, registration, login, console reset and purge | auth, transaction, ledger (HTTP) |
| transaction-service (2 replicas) | nothing durable: requests in flight, circuit breakers | purchase, transfer, top-up | ledger, risk, adapter (HTTP) |
| ledger-service (2 replicas, PostgreSQL, or SQLite on a laptop) | accounts, cards, transactions (primary key: RRN), ledger entries | post, top up, resolve, open account, export, reset, purge | its database |
| risk-service (2 replicas) | sliding window of attempts per card (Redis or memory) | evaluate | Redis |
| auth-service (2 replicas) | users | register, delete (compensation), login, introspect, purge | its database |
| iso8583-adapter (1 replica) | nothing durable | authorize, reverse | ISO 8583 gateway (SOAP, 20 s) |
| ISO 8583 gateway, `ace-stub` (1 replica, one event loop) | one TCP connection, a STAN counter, the pending request | SOAP to ISO 8583 mediation, correlation, automatic reversal, heartbeat, reconnect | the switch (TCP, 10 s) |
| switch (external; `host-simulator` stands in) | what it holds for whom | 0200 authorise, 0400 reverse, 0800 echo | |
| analytics-sync (CronJob) | the watermark, in ClickHouse | export, load, advance | ledger (HTTP), ClickHouse |
| `mfcommon` | | HTTP client with retries and breaker, database layer, ISO 8583 codec, MSISDN, PIN block, tokens, tracing | |

A payment is a saga (`README.md:85-110`). The gateway claims the idempotency
key. Transaction-service resolves both accounts, checks funds without a lock,
asks risk (3 s, closed on failure), draws a reference (RRN), asks the switch
through the adapter (30 s, never retried), posts to the ledger (5 s, three
retries) and reverses the authorisation if the posting cannot be made (two
retries). The gateway then stores the response, or gives the key back after a
4xx. Nothing in the saga is persisted. Three mechanisms protect the money: the
primary key on the RRN, the solvency check inside the posting's transaction,
and the idempotency claim.

What is hard in each part, and what makes it correct:

* **Ledger.** Concurrent debits of a wallet, two postings of one RRN, opposite
  transfers that deadlock, wipes racing postings, a COMMIT whose answer is
  lost. Correct: one posting per RRN, no overdrawn wallet, double entry adds
  up, "recorded" means recorded, every call ends.
* **Saga.** Each HTTP request can be lost, served after its caller gave up, or
  served with its answer lost; some are repeated, so several copies travel;
  pods die. Correct: approved means recorded and held, money moves once, no
  hold that nobody was told about, unknown outcomes are not posted.
* **Gateway.** Clients retry, replicas race, the store answers one command at a
  time, keys expire, replicas die. Correct: one execution per key, no release
  while the money may have moved, equal answers to equal requests.
* **Adapter to switch.** Answers late or out of order on a connection shared
  with heartbeats; two timeouts that race the answer; reversals queued behind
  or ahead of the authorisation; drops. Correct: an approval belongs to the
  call's own request, what is reported undone is undone.
* **Registration and purge.** Two databases and no transaction over both: an
  answer may be lost in either service, the compensation is repeated, a purge
  passes through meanwhile. Correct: a success has user and account, can log in
  and be paid, a failure blocks no number, a purge reported done is done.
* **Risk check and breaker.** Several replicas count one card's attempts with
  clocks of their own; the breaker is shared by all calls and half-opens under
  them. Correct: a burst is caught, a payment goes on only after its one
  recorded attempt, the breaker holds back exactly when it should.
* **Analytics.** Rows become visible out of the order of their timestamps, runs
  die between statements, an aggregate counts before duplicates are merged.
  Correct: the watermark passes over nothing but rows the scheme cannot see,
  nothing is counted twice but what a dead run left, everything else arrives.
* **The bytes in between.** A payment is renamed, padded, packed, enciphered,
  framed and cut up four times between adapter and switch. Correct: what is
  read is what was written, and an answer names its request.

`PROJECT.json` lists every component with its status, and every hazard with
its line and the properties that cover it.

## 2. Modules

| Module | What it is | Code |
|---|---|---|
| `Ledger` | abstract ledger: postings applied in one atomic step | what callers of ledger-service rely on |
| `LedgerDB` | the ledger, one action per SQL statement | `ledger-service/app/repository.py`, `mfcommon/db/dialect.py` |
| `LedgerDB_proofs` | its proofs, refinement of `Ledger` included | |
| `Saga` | transaction-service over the atomic ledger | `transaction-service/app/main.py`, `ledger-service/app/main.py`, `mfcommon/http/client.py` |
| `Saga_proofs` | its proofs | |
| `Gateway` | money routes and idempotency store | `api-gateway/app/main.py`, `idempotency.py` |
| `Gateway_proofs` | its proofs | |
| `RiskCheck` | circuit breaker, risk check, velocity window | `mfcommon/http/client.py`, `risk-service/app/*.py` |
| `RiskCheck_proofs` | its proofs | |
| `Iso8583` | adapter, ISO 8583 gateway, connection, switch | `iso8583-adapter/app/main.py`, `ace-stub/app/main.py`, `mfcommon/iso8583/*.py`, `mfcommon/soap/client.py` |
| `Iso8583_proofs` | its proofs | |
| `Codec` | the bytes of a message: data elements, bitmap, BCD, framing | `mfcommon/iso8583/parser.py`, `framing.py`, `client.py`, `host_simulator.py` |
| `Codec_proofs` | proofs about `Codec` and `Mediation`: streams, files, whole messages, the PIN block, a request's way to the switch and back | |
| `Mediation` | a request's way to the switch and back: PIN block, SOAP elements, mapping, faults | `ace-stub/app/mediation.py`, `main.py`, `iso8583-adapter/app/main.py`, `mfcommon/soap/envelope.py`, `mfcommon/security/*.py` |
| `Registration` | registration, its compensation, login, the platform purge, phone numbers | `api-gateway/app/main.py`, `console.py`, `auth-service/app/main.py`, `ledger-service/app/repository.py`, `mfcommon/identity/msisdn.py` |
| `Registration_proofs` | its proofs | |
| `AnalyticsSync` | the hourly load into ClickHouse | `analytics-sync/app/sync.py`, `warehouse.py`, `export_since`, the CronJob |
| `AnalyticsSync_proofs` | its proofs | |
| `MC*` | instances for TLC | |

How they compose: `LedgerDB` implements `Ledger` (checked and proved), `Saga`
uses `Ledger` as its books (`Books == INSTANCE Ledger`), and takes of the adapter
exactly the outcomes `Iso8583` produces: approved and held, declined, or unknown
with or without a hold. `Iso8583` passes a message as a record with its STAN and
RRN; `Mediation`, over `Codec`, is why it may: both are checked in the
same run, on the values a call really takes. `Saga` takes of `RiskCheck` a
verdict or nothing, and of its breaker a refusal at any time. `Gateway` takes of
transaction-service what `Saga` produces: done and answered, refused, or not heard
of and perhaps done. That a refused payment has done nothing, and will do nothing, is
part of `NoSilentHold` of `Saga`; of a refused top-up it is not true, and
`Gateway` lets one be done, or still be on its way. `Registration` fills the tables whose rows the others take as
given, and `AnalyticsSync` reads what `LedgerDB` commits: of a posting it keeps only
when its time was drawn and when it became visible.

### LedgerDB

`posted`, `balance` and `accounts` are the committed rows. The writes of an
open transaction are implied by its program counter `pc`; `req` is the
posting a session carries. `forUpdate` and `keyShare` are PostgreSQL's row
locks; on SQLite, `WriterActive` is the database's write lock (BEGIN IMMEDIATE).
`record_posting` is `Begin`, `SelectDebitAccount`, `ReadBalance`,
`InsertTransaction`, `InsertDebit`, `InsertCredit`, `Commit`, and `ReadDetails`
after a duplicate key. An INSERT of an RRN waits while another open transaction
has inserted or deleted it, as a unique index makes it. `reset` and `purge`
are run by one `Operator`, statement by statement. `Faults` selects a lost
connection, a COMMIT that takes effect unacknowledged, and a details read that
fails. `Deadlocked` is PostgreSQL's detector, the victim rolls back.

### Saga

One record of progress per call (`pc`, `job`, `rrn`, `drawn`, `attempt`,
`outcome`). `wire` holds the posting requests that still travel: a timeout
(`PostingTimeout`) adds another copy and takes none away; `LedgerServes`
serves any of them, however late, and its answer is heard only by an attempt
still waiting. `authorizing` and `hold` are the same for the switch.
`moved` records which call's request each posting came from, and is read by
properties only. `CheckFunds` may pass without funds, because the code lets
a failed read pass. `Crash` ends a call at any step.

### Gateway

`SetNX`, `ReadHash` and `ReadResponse` are the Redis commands of `claim`;
`ClaimInMemory` is the dictionary under its lock. `Call`, `Answered`, `Rejected`,
`Unheard`, `Unavailable` are the one request to transaction-service (no
retries), `StoreResponse` and `Release` what follows. The bodies in `Topups` ask for
a top-up: the ledger answers any exception of one with 422, so that a 4xx comes
with its money moved, about to move, or neither (`Rejected`). `Misreported` are the
top-ups answered 4xx; `OneExecutionPerKey` and `ClaimedWhileInDoubt` except those
and no others, since such a top-up can be credited twice (*Findings*). `store` is chosen at the
start. `ExpireClaim` is restricted to keys nobody is working on (`Quiet`):
24 h against a request of at most 35 s. `Crash` is for Redis, since the
dictionary dies with its process. `SuccessesAgree` says that the clients of a key are
told of one request, with their own body, except when, on Redis, a claim one found was given back
between the two reads (`GivenBack`): the key may then be another body's. What a key is
worth once its claim has expired is not stated; the promise is for 24 h.

### Iso8583

`adapter` and `told` are the adapter's view of each call. `queue` holds
the SOAP requests the gateway has not taken: its event loop blocks in
`send_and_wait`, so at most one is served (`ace`, `stan`). `Timeout` is the
10 s wait that ends in an automatic 0400 naming the STAN; `SoapTimeout` is the
adapter's own 20 s. `toHost` is ordered (one TCP stream). `toAce` is a set, since
answers may overtake each other (`host_simulator.py` answers each message on a
thread of its own), and a message in it need never arrive. `Drop` loses
everything on the connection. STANs are taken as increasing: the counter wraps
after a million messages, far beyond 10 s of traffic, and `next_stan` is not
interrupted on the CPython versions the images use. The gateway takes requests
in the order they were sent, as its accept loop does, and may find that the
client of one has hung up (`Abandon`). The switch takes messages in order,
and acknowledges every reversal, as the simulator does.

### Registration

A call is named by its `user_id`; `users` and `accounts` are the rows in
auth-service and ledger-service. `wire` holds the requests of calls that still
travel: `CreateUser`, `CreateAccount` and `DeleteUser` serve one, however late,
and its answer is heard only by an attempt still waiting. `Timeout` goes on
without an answer: creating is tried once, the compensating delete
`DeleteRetries` times more. `told` is the answer, with "orphaned" for the log's
COMPENSATION FAILED. The operator's purge (`Purge`, `PurgeHalf`,
`PurgeUnheard`) asks the ledger, then auth-service, whatever the first answered.
`before` and `wiped` are read by properties only. A phone number is the sequence
of its digits; `Normalise` and `Resolve` are the code's. A transaction of either
service is one step, because each route runs one (the ledger's purge then
recreates the funding account, which is nobody's here). `Login` is whom a
spelling, with the right password, gives a token for, `Active` what
introspection says of it. `SpellingAssumption` names what is asked of the numbers
typed: spellings of one number differ as `Normalise` means them to. Numbers typed
with 00 in front are thereby left out (`lstrip` turns them into others). A card number
that is also a phone number goes to the card's account, as documented; the
instance has none.

### RiskCheck

`failures` and `openedAt` are the breaker's; `Submit` reads `is_open`, as does
the readiness probe (`Ready`), and half-opens it. `Deliver`, `DeliverError` and
`TransportError` end a call; the request of the last may be served all the
same. A replica reads its clock (`ReadClock`) and, up to `Delay` later, runs the
pipeline (`Evaluate`), whose answer may be lost after it took effect.
`attempts` is the window, per store: Redis, or the memory of the only replica.
`InWindow` keeps the one difference between them, the attempt exactly
`window_seconds` old. `streak`, `lastFailure`, `ranAt` and `executions` are read
by properties only.

### AnalyticsSync

`posting` and `created` are the ledger's rows: `Draw` takes `created_at`,
`Commit` shows the row, any time later. A run is `Start` (nobody else's pod is
running), `Prepare`, then `Fetch`, `Load` per INSERT and `Advance` per page;
`Fail`, `LoadUnconfirmed` and `AdvanceUnconfirmed` end it anywhere, with the
statement in flight done or not. `parts` are rows not merged yet, `agg` is what the
materialized view has counted, `marks` the versions of the watermark.
`late`, `exposed` and `offered` are read by properties only: they name the rows
the code is known to lose or to count twice, so that the properties except those
and no others.

### Codec and Mediation

Operators, no state. A digit, a character or a byte is a number. `FIELD_SPECS` is
the catalogue of data elements by length and kind; `build_message` and
`parse_message` work on it as in the code. `read_exact` and `receive_loop` read a
stream that arrives in arbitrary segments and closes anywhere. The loops of the code
are recursive functions, and a bitmap or an exclusive or is written with the weights
of eight bits, so that the operators can be proved about. In `Mediation`, the
HMAC of the KSN is some function of all its digits, which is all that matters of
it: the same KSN gives the same key, another does not. `soap_endpoint` says which
reply each fate of a request gets, `Told` what the adapter makes of it. A timeout
that finds the link down ("cut") gets the reply of a request that never left:
`FaultsAreToldApart` is about the others, and `switch_down` about that one.

## 3. Runs

| Run | Instance | Shows |
|---|---|---|
| `ledger_postgres` | 2 sessions, 2 wallets, 4 postings on 3 RRNs, purge, lost connections, with fairness | types, one posting per RRN, solvency, success means recorded, refinement of `Ledger`; every call is answered, deadlocks included |
| `ledger_sqlite` | SQLite, reset and purge, all faults | refinement with both wipes; wipes report what they removed |
| `ledger_reset_overdraw` | PostgreSQL with reset | **violated**: a wallet below zero |
| `saga` | 2 concurrent calls over 5 kinds of request, all faults, 1 retry each, 3 references | the saga's safety, that a payment answered 4xx is void included, and its termination |
| `saga_replay` | one wallet paying all it has | **violated**: a retry is refused for lack of the money it took |
| `gateway` | 3 requests, 1 key, a payment and a top-up, both stores, expiry, crashes | one execution per key, no release in doubt, both but for top-ups answered 4xx; equal answers, each about the client's own body; termination |
| `risk` | 3 payments with 1 card, 2 replicas, both stores, breaker of 2 failures, clock 0 to 3 | a burst is caught, a payment is vetted once, the breaker is exact |
| `iso8583` | 2 calls, 2 heartbeats or drops in any combination; every data element, 192 requests, every segmentation of 2 messages | an approval is the call's own; declined and reversed mean undone; a reversal that was sent undoes; elements, requests and streams read back as written |
| `switch_down` | 2 calls, 1 drop | **violated**: a call answered "switch unavailable" is held at the switch |
| `registration` | 2 calls over 4 spellings and 2 cards, 1 purge, 1 retry | one user per subscriber; success is complete, payable and logs in; failure and purge leave nothing |
| `registration_two_accounts` | the same without purge | **violated**: a subscriber with two accounts |
| `analytics` | 3 postings of 2 accounts, pages of 2 rows in INSERTs of 1, 2 pods, 3 instants, 1 failure, 1 wipe, with fairness | the watermark skips nothing but what the model names as lost; nothing else is counted twice; a clean exit has missed nothing; every posting arrives |

The bounds, and why they are enough:

* *Two sessions and an operator.* The ledger's races are between two
  transactions: two debits, two inserts of a key, two lock orders, a posting
  and a wipe. The four postings are a top-up, a payment, a competitor for the
  balance, and another payment under the first one's RRN, which also goes the
  other way and so locks the accounts in the other order. More is
  covered by the proofs, which have no bound.
* *`PostRetries` = 1 and `ReverseRetries` = 1 (3 and 2 in the code), `References`
  = 2 (3).* One retry already makes two copies travel, be served in either
  order, or be served after the reversal. Further retries add copies of the
  same request. Two references are enough to draw a second time and
  to run out.
* *`Rrn` has three members*: one in use by the deposit, one for each call, so
  two calls can collide with each other and with the books.
* *Three requests on one key* are the smallest number for the store's races:
  one that claims, one that releases, one that reads between. Keys do not
  interact, so one is enough.
* *Two calls on one connection* give an answer to the wrong request, a
  reversal behind and ahead of another call's authorisation, and a queue.
  `MaxEvents` = 2 gives a heartbeat before or after a drop, and two drops.
* *Two registrations* compete for a number, for a card, or follow one another
  with a late delete of the first. Spellings are a local and an international
  one of one number, another number, and digits that are none; three digits
  stand for the 10 to 15 of the code. One retry of the delete (2 in the code) is
  served before or after the other attempt.
* *Three payments of one card* with thresholds 1 and 2 pass, are reviewed and are
  declined; a clock of four instants and a window of three let an attempt leave it
  and one stand at its very edge. `Delay` = 1 lets two readings be counted in the
  other order. Two failures open the breaker, and the clock has room for it to
  half-open and open again.
* *Three postings, pages of two* give a full page, a last page and an empty one, and
  a tie at the edge of a page; three instants give rows before, at and after the
  watermark. One failure may hit any statement. Two pods are what `Forbid` must
  keep apart.
* *Codec and Mediation* take each data element at the lengths where padding, filler
  nibble, prefix and stripping differ, beside another (DE 4, 39, 66 or 128);
  STANs at both ends of the counter and one that needs padding; PINs and cards of
  the shortest and longest lengths. `MaxPayload` = 2 bytes, since framing looks
  at lengths only (a message of 300 bytes is read from a file, for the upper byte
  of the header). Amounts have at most nine digits (TLC's integers): an amount
  of 10^12 and more would not fit DE 4, and the adapter does not refuse it.

Deadlock is checked in the ledger runs, where sessions serve for ever, and in the
analytics run, whose job starts every hour. The other models end when every call
is answered, so there `CHECK_DEADLOCK FALSE` is set and termination is a liveness
property instead
(`Iso8583`, `Registration` and `RiskCheck` state no liveness: each wait of theirs
has a timeout, and nothing in them waits for another call).

Symmetry over sessions or calls is used only in runs without liveness.

### Fairness

* `LedgerDB`: a server thread runs (WF), and PostgreSQL queues lock waiters
  first come first served, so a statement that is repeatedly possible is
  eventually executed (SF of `Proceed` and `LockAccount`). The deadlock
  detector runs (WF). SQLite's busy timeout ends a wait. No client is obliged
  to call.
* `Saga`, `Gateway`: WF of a request's own steps. A timeout is always
  one of them (3, 5 and 30 s in transaction-service, 35 s in the gateway), so
  nothing is assumed of the other side: no request need ever be served.
* `AnalyticsSync`: WF of a run's own steps (its requests have timeouts, and a
  killed run ends as a failure) and of starting one (the CronJob's schedule).
  Failures are finitely many; nothing is assumed of postings.
* `Iso8583`, `Registration` and `RiskCheck` are checked for safety only and
  assume none.

## 4. Proofs

TLAPS checks the eight `*_proofs` modules. Every safety property of the passing
runs is a theorem. The theorems
assume of the constants only what each module's named assumptions say
(`ConstantsAssumption`, and `SpellingAssumption`, `CounterAssumption`,
`PayloadAssumption` where there are spellings or bytes): any set of sessions,
wallets, postings, requests, keys, bodies, calls, cards, replicas and rows, any
threshold, page size and number of retries. Four theorems about the ledger have
a hypothesis more, on the dialect or the kinds of wipe and fault, named below.

**Ledger.** `TypeCorrect` by induction alone. `RrnUnique` from `RrnHeld`: a
session that has inserted an RRN and not ended excludes every other posting and
inserter of it. `UniqueRrn` alone is not inductive, because a commit depends on
what was true at the INSERT.

`SolventUnlessReset` and `ImplementsLedger` share the inductive invariant
`SolvencyInv`:

* `RrnHeld`, as above;
* `Exclusive`: on SQLite at most one process is in a transaction;
* `ReferencesHeld`: what a session has read or inserted is protected by a lock
  it holds, so account rows cannot vanish under it;
* `Reserved`: from the balance check to the commit, the debited wallet keeps
  at least the amount, because any other debit needs the same row lock. This is
  the heart of it: `Solvent` says nothing of a session that is about to debit;
* `Wiping`: what the operator's DELETEs counted on is still what is committed;
* `Solvent`.

Both theorems assume `NoRacingReset` (SQLite, or no reset). The assumption is
exactly the one `ledger_reset_overdraw` drops: without it `Reserved`
is false, and so is the theorem. `StepImplements` shows that a commit is one
`Post`, a wipe's commit is one `Wipe`, and every other statement a stutter.

`SuccessesAreRecorded` needs `AnswerInv`: a session whose INSERT met its RRN still
finds a posting under it when it reads the details, or a purge has emptied the
books (`Conflict`). It assumes `WipesArePurges` (there is an account at the start,
so a purge is seen in the accounts for ever after; a reset is not) and
`DetailsReadable` (the conflicting row can be read back; where it cannot, the code
takes the conflict for a replay and says "already_recorded" of what may be another's
posting). Both hold in `ledger_postgres`. `WipeCountsWhatItRemoves` holds on SQLite
only, where the wipe excludes every posting from its first count to
its commit (`Counting`, with `Exclusive`); on PostgreSQL a posting may commit
between the count and the DELETE.

**Saga.** `SagaInv` is `TypeOK`, `Places`, `Holds` (an authorisation that still
travels was not served, and who gave it up said "unknown" or crashed; a card payment
that posts is held), `Requests` (a copy of a posting still on the wire carries its
call's present reference, or one the books have given to another posting),
`Moves` (what a call recorded is under the reference it still has),
`ApprovedIsRecorded` and `HeldIsTold`, the first part of `NoSilentHold`. `Requests` and `Moves` are the heart of
`MoneyMovesOnce`: a reference is redrawn only when the ledger said it belongs to
another posting, so every older copy is refused whenever it arrives, and
the copies that can still move money share one reference. `MovesMoneyOnce`
itself says nothing of copies that have not been served.

`HoldsAreKnown` needs `Holds` and `Requests` too, and that a card payment that posts
is never answered 4xx: it is reversed, and told so. Its part about a payment's 4xx
(`RefusedPaymentDoesNothing`) is what `Gateway` assumes.

**Gateway.** The theorems rest on `ClaimInv`: a request between claim and
answer holds its key's claim (`HoldersClaimed`), no other request or execution
does unless the claim has lapsed (`HoldersAlone`), and every stored response
is that of an execution (`ResponsesReal`); `Places` says which fields
are set at each step. `Holds`, that is who counts, leaves out the `Misreported`, the
top-ups answered 4xx; `MoneyMovesOncePerKey` and `NoReleaseInDoubt` say as much, and
no more can be proved, since without the exception both are false. `OneExecutionPerKey`
alone is not inductive, because two requests may both be about to execute.
`OneSuccessPerKey` adds `BodyInv`: an unexpired claim carries the hash of its
holder (`Owned`), so that a stored response is of the claim's body (`StoredIsOwners`);
and what a request has found between its two reads is still there, or was given back
(`Found`).

**Risk check.** `RiskInv` adds three parts to the types. `Serving`: a request
being served has a clock reading and a replica, and the stores are finite (so that
a count is a number). `Vetted`: where a call is fixes how often it was counted,
and its verdict is the outcome of that count; `VettedOnce` alone forgets the
requests that are still on their way. `Breaker` relates the code's counter to the
true run of failures: below the threshold they are equal, from it on the breaker
is open since the last failure or the counter stands one short of the threshold.
`BreakerIsExact` follows at once; the converse is lost at every half-opening, which
is why it is not inductive.

`BurstsCaught` adds `BurstInv`: a reading of the clock that is being counted is at
most `Delay` old (`Readings`), an attempt that was counted is still in the one store
while it is in the window (`Remembered`), and of the attempts of a burst at most n
have seen a count of n or less (`Spread`). The last is what carries the
thresholds: the property looks at one burst, `Spread` at every part of it, so that
adding one attempt is a step from n to n + 1.

**Registration.** `RegistrationInv` is `TypeOK`, `Places` (what a call's position
says of its rows), `Travelling` (what each request still on the wire may do: a
creation is asked once, a delete belongs to a call that can no longer succeed),
`Outcomes`, `Unique` (of normalised numbers and cards) and `Purging` (what the
purge saw does not come back). `Travelling` is the heart: every property here can
be broken by a request served late, and says nothing of it. `SuccessHasBoth` then
needs `SpellingAssumption`, to go from any spelling to the number stored.

**ISO 8583.** `IsoInv` relates the queue of the gateway, the one operation it blocks
on, the two directions of the connection and the switch. `Stream`: STANs grow along
the connection, and what was answered has left it. `Queued` and `Travelling`: a
call has one 0200, and it precedes whatever undoes it. `Blocked`: the STAN of the
operation in progress names nothing else. `Answers`: an answer with that STAN tells
what the switch holds. `Settled` and `Promises` say what the adapter has told. The
properties alone forget everything that is still on its way; `Stream` is what makes a late
answer harmless, because its STAN is smaller than the one waited for. `ReversalUndoes`
says that the reversal is behind the 0200 in the same stream, and no drop has
lost it; `switch_down` shows what becomes of a hold when the connection drops.

**Analytics.** `SyncInv` says where a row can be: in the warehouse behind the
watermark, in the loaded part of the page of the one run, or left by a run that
stopped (`Accounted`, `Page`); nothing the export can see lies behind a page but its
own instant (`Behind`); a run goes on from the stored watermark (`Locals`), and there
is one run (`OneRun`). `NothingSkipped` is not inductive alone: whether the
watermark may advance depends on how the page was read. `PageOfRows` proves of the
export that it returns a first part of the rows in order.

**Codec.** `StreamsAreSplitBack` is about functions, not steps: it has no invariant, but
`receive_loop` and `read_exact` are loops. Each is a recursive function of the
position, and each is proved to return what it should by taking the last position
where it does not (`LeastExists`, from well-foundedness), since induction theorems are out of
reach of the provers. `FramesComeBack` and `FilesComeBack` have no bound on the
messages, so the property holds for every `MaxPayload`. (They read the two bytes of
the header as numbers. A message of 65536 bytes has no such header: the code raises
before it sends one, and none of its messages is near that.) `DigitsComeBack` covers
BCD at any length, with the filler nibble of odd ones; `FixedNumbersComeBack` and
`FixedTextsComeBack` cover padding, cutting and stripping of the data elements of a
fixed length.

`MessagesComeBack` is the centre of it: a message of any set of data elements of the
catalogue, with any values that fit them (`Legal`), is parsed into exactly those
elements, each as its reader sees it (`Normal`), to its last byte. It needs that

* the bitmap of a set is read back as that set (`BitmapsComeBack`);
* the elements are read in the order in which they were written: `Sorted` lists a
  set by rank, and ranks are a bijection (`FiniteSetTheorems`);
* a length written in front of a value is read back (`NumbersComeBack`: a number
  below 10^w has exactly w digits, which are read as that number, for w up to 12);
* each element lies in the message where the reader looks for it. The writer's loop
  gives the first part of the message up to each element (`Builds`, `InPlace`); the
  reader's has, after i elements, the values of the first i and the position where
  the writer's i-th part ended. Where the two would first differ is refuted.

`ElementsAreReadBack` then says of each entry of the catalogue that the values tried
fit it; that no data element has two entries (`OneEntry`) comes from its classes.

**Mediation.** `AnswersAreNamed` follows a request through every step it takes. A PIN
is recovered from its block because an exclusive or undoes itself (`XorEachTwice`)
under one key, and the key of a KSN is eight bytes whatever the KSN; hex digits and
nibbles come back (`HexComesBack`). `Wants` says what elements a request has,
`Sends` what fields the gateway makes of them, `Hears` what the switch reads of
those, `Answers` what the gateway reads of its answer; each follows from the one before
it and `MessagesComeBack`. The lemmas hold for every `Request`, that is any card of 12
to 19 digits, PIN of 4 to 12, amount below 10^12 and reference of printable
characters, and for every value of both counters; the theorem instantiates them with the requests
that the run tries (`TriedRequest`). Of the amount, `TenTo[12]` is what DE 4 holds.

Model-checked only: the liveness properties (`EveryCallIsAnswered`,
`EveryRequestIsAnswered`, `EventuallyLoaded`), which are beyond the proof system.

## 5. Findings

1. `ledger_reset_overdraw`: on PostgreSQL, `reset` locks no account, so a
   posting that has read its balance commits a debit whose credits are gone. The
   README calls wallets impossible to overdraw.
2. `saga_replay`: `_assert_solvent` runs before the duplicate key is found, so
   a retry of a recorded posting can be refused for lack of funds. The saga
   then reverses the authorisation and answers "No money left your account",
   although the ledger has debited it.
3. `registration_two_accounts`: a registration whose ledger answer is lost is
   compensated by deleting the user; the account stays. The next registration
   opens a second account under the same number, and a transfer to the number
   reaches either.
4. `switch_down`: a timeout with the connection down raises the exception that
   means "never reached the switch". No reversal is ever sent. (Transaction-service
   happens to treat the resulting 503 as an unknown outcome, so the customer is
   not misinformed; the hold stays until reconciliation.)

Each has its exact place and quotation in `PROJECT.json`.

Noticed while modelling, without a run of their own (the first three are what a
property of a passing run excepts or leaves open):

* ledger-service answers every exception of a top-up with 422 (`main.py:230`), a lost
  COMMIT acknowledgement and a database error on a retry included;
  transaction-service passes it on (`main.py:439`), and api-gateway gives the key
  back: "Refused before anything happened" (`main.py:431`), "so nothing happened"
  (`:314`), where a release is "ONLY for work that definitively did not happen"
  (`idempotency.py:53`). A retry under the same key then credits the wallet again.
  Without `Misreported`, `OneExecutionPerKey` and `ClaimedWhileInDoubt` are violated by
  exactly this: claim, credit, 422, release, claim, credit.
* On Redis, a key is given back between the GET of its hash and the GET of its
  response, and claimed and answered for another body: that response is returned
  (`idempotency.py:148`), which "would silently answer the wrong question"
  (`main.py:334`). It takes three requests, the first of them refused. Without
  `GivenBack`, `SuccessesAgree` is violated.
* Two equal payments that draw one reference in one second are one posting
  (`ledger-service/app/repository.py:426`): the second is told "already_recorded" and
  both are approved and authorised, although "the ledger's PRIMARY KEY turns a
  collision into a rejected duplicate rather than corrupted money"
  (`transaction-service/app/main.py:166`). `ApprovedIsRecorded` is satisfied: there is a
  posting with the details of each.
* A posting that commits after a row with a later `created_at` was exported is
  never exported (`ledger-service/app/repository.py:376` draws the time before the
  transaction), nor is one cut off by the page limit from a row of its instant,
  although `analytics-sync/app/sync.py:107` speaks of resuming "rather than skipping rows".
  `NothingSkipped` and `EventuallyLoaded` except exactly these (`Excused`).
* `mfcommon/http/client.py:81` promises "exactly one probe" when half-open; every
  caller passes until one fails. `BreakerIsExact` is what does hold.
* `auth-service/app/main.py:252` says "Introspection does not check the user still
  exists"; `introspect` (`:304`) does. The model follows the code.
* `ace-stub/app/mediation.py:116` and `mfcommon/soap/client.py:182` say that DE 90 of a
  reversal is built from `originalMti` and `originalStan`. For the reversals that the
  adapter asks for nothing builds it (`soap_to_iso_reverse` drops both elements, and
  the STAN sent is "000000"); only the gateway's automatic reversals have it.
  `ReversalNamesOriginal` says what names the original instead.
* DE 22 has three digits and is sent "05", so that the switch reads 005, whose first
  two, the entry mode to `decode_meaning` (`parser.py:462`), are 00. DE 4 is
  formatted to at least, not exactly, 12 digits (`iso8583-adapter/app/main.py:155`).
* A heartbeat thread that sleeps through a drop and a reconnection goes on beside
  the new one. `Iso8583` lets heartbeats come at any time, so no more can happen
  than it allows.

## 6. Plan

Done, in this order: `LedgerDB` over `Ledger`, with proofs; `Saga` over
`Ledger`; `Gateway`, with proofs; `Iso8583`; `Registration`, with proofs;
`AnalyticsSync`; `RiskCheck`, with proofs; `Codec`; `Mediation`.

Then the proofs of `Saga`, `Iso8583`, `AnalyticsSync` and `Codec`, and on the ledger
and the risk check those of `SuccessIsRecorded`, `WipeReportsWhatItRemoved` and
`BurstsAreCaught`.

Last the proofs of whole messages, of the PIN block and of the mapping (`Mediation`).

Next, modules: in `Iso8583`, a restart of the gateway with STANs from 1, and a gateway
that dies under a request of the adapter; in `Gateway`, what a response that outlives
its claim answers.

## 7. Not modelled

* Tokens and password hashing, the HSM's MACs, and key storage and rotation: no
  decision of a payment reads them but "right or wrong".
* Tracing, logging and audit: nothing reads them back.
* The console's and the ledger's read routes for display: they change nothing.
* Readiness probes, but for the one that half-opens a breaker (`Ready`).
* `scripts/`, which are manual scenarios and a launcher; deployment files, but for
  the replica counts, the CronJob's policy and the flags the models name; the ESQL
  and DFDL twin of `ace-stub`, which is another implementation.
* The memory store of idempotency claims in several replicas, or through a restart:
  the code documents it as single-process.
