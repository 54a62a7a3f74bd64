------------------------------ MODULE Gateway -------------------------------
(***************************************************************************)
(* The money routes of api-gateway: a client's idempotency key is claimed, *)
(* transaction-service is called once, and the response is stored or the   *)
(* key is given back.  The store is Redis, one command per step and shared *)
(* by the replicas, or the in-memory dictionary under its lock.            *)
(* transaction-service is what Saga makes of it: it does what it was asked *)
(* and answers, refuses with a 4xx, or is not heard of while what it was   *)
(* asked may still happen.  A payment that is refused has done nothing     *)
(* (Saga's RefusedPaymentDoesNothing); a top-up may have moved its money.  *)
(***************************************************************************)
EXTENDS Integers, FiniteSets

CONSTANTS
    Client,   \* HTTP requests reaching the gateway, retries included
    Key,      \* idempotency keys
    Body,     \* request bodies, hence their hashes
    Topups,   \* those that ask for a top-up, the others for a card payment
    Stores,   \* the stores considered, a subset of StoreKind
    Faults,   \* the faults considered, see FaultKind
    None      \* "no request", "no hash"

\* What the gateway answers: 200 fresh or cached, 400, 409, 4xx, 503, nothing.
Status == {"ok", "cached", "mismatch", "in_progress", "refused",
           "unavailable", "crashed"}
StoreKind == {"redis", "memory"}
FaultKind == {"expiry",  \* a TTL (24 h) runs out
              "crash"}   \* a replica dies under a request

ASSUME ConstantsAssumption ==
    /\ Stores \subseteq StoreKind /\ Faults \subseteq FaultKind
    /\ Topups \subseteq Body
    /\ None \notin Client \cup Key \cup Body \cup Status

VARIABLES
    store,          \* IDEMPOTENCY_BACKEND, chosen when the gateway starts
    pc, key, body,  \* per request: where it is, what it carries
    status, result, \* what it was answered, and whose execution that reports
    hash,           \* per key: the hash its claim recorded, or None
    response,       \* per key: the request whose response is stored, or None
    travelling,     \* requests on their way to transaction-service
    executed,       \* requests transaction-service has carried out
    lapsed          \* keys whose claim has expired

requestVars == <<pc, key, body, status, result>>
storeVars == <<hash, response, lapsed>>
serviceVars == <<travelling, executed>>
vars == <<store, requestVars, storeVars, serviceVars>>

Steps == {"idle", "claim", "readHash", "readResponse", "call", "calling",
          "store", "release", "done"}

Init ==
    /\ store \in Stores
    /\ pc = [r \in Client |-> "idle"]
    /\ key = [r \in Client |-> None]
    /\ body = [r \in Client |-> None]
    /\ status = [r \in Client |-> None]
    /\ result = [r \in Client |-> None]
    /\ hash = [k \in Key |-> None]
    /\ response = [k \in Key |-> None]
    /\ travelling = {} /\ executed = {} /\ lapsed = {}

-----------------------------------------------------------------------------
Goto(r, step) ==
    /\ pc' = [pc EXCEPT ![r] = step]
    /\ UNCHANGED <<key, body, status, result>>

Finish(r, told, whose) ==
    /\ pc' = [pc EXCEPT ![r] = "done"]
    /\ status' = [status EXCEPT ![r] = told]
    /\ result' = [result EXCEPT ![r] = whose]
    /\ UNCHANGED <<key, body>>

Receive(r, k, b) ==
    /\ pc[r] = "idle"
    /\ pc' = [pc EXCEPT ![r] = "claim"]
    /\ key' = [key EXCEPT ![r] = k]
    /\ body' = [body EXCEPT ![r] = b]
    /\ UNCHANGED <<store, status, result, storeVars, serviceVars>>

-----------------------------------------------------------------------------
(* RedisIdempotencyStore.claim: SET NX, GET of the hash, GET of the        *)
(* response.                                                               *)

\* Bug: the claim is a GET followed by a SET.
SetNX_NotAtomic(r) ==
    /\ store = "redis" /\ pc[r] = "claim"
    /\ \/ /\ hash[key[r]] = None
          /\ Goto(r, "call")
          /\ UNCHANGED hash
       \/ /\ hash' = [hash EXCEPT ![key[r]] = body[r]]
          /\ Goto(r, "call")
    /\ UNCHANGED <<store, response, lapsed, serviceVars>>

SetNX(r) ==
    /\ store = "redis" /\ pc[r] = "claim"
    /\ IF hash[key[r]] = None
       THEN /\ hash' = [hash EXCEPT ![key[r]] = body[r]]
            /\ Goto(r, "call")
       ELSE /\ Goto(r, "readHash")
            /\ UNCHANGED hash
    /\ UNCHANGED <<store, response, lapsed, serviceVars>>

\* Bug: a claim for another body is taken for one's own.
ReadHash_AnyBody(r) ==
    /\ pc[r] = "readHash"
    /\ IF hash[key[r]] = None THEN Goto(r, "claim") ELSE Goto(r, "readResponse")
    /\ UNCHANGED <<store, storeVars, serviceVars>>

\* A hash that is gone by now is claimed again from the start.
ReadHash(r) ==
    /\ pc[r] = "readHash"
    /\ CASE hash[key[r]] = None    -> Goto(r, "claim")
         [] hash[key[r]] = body[r] -> Goto(r, "readResponse")
         [] OTHER                  -> Finish(r, "mismatch", None)
    /\ UNCHANGED <<store, storeVars, serviceVars>>

\* What a claim answers of a key already claimed for the same body.
AnswerClaimed(r) ==
    IF response[key[r]] # None THEN Finish(r, "cached", response[key[r]])
                               ELSE Finish(r, "in_progress", None)

\* Bug: a missing response is returned as if it were one.
ReadResponse_Unchecked(r) ==
    /\ pc[r] = "readResponse"
    /\ Finish(r, "cached", response[key[r]])
    /\ UNCHANGED <<store, storeVars, serviceVars>>

\* Bug: the request waits for the response to appear.
ReadResponse_Waits(r) ==
    /\ pc[r] = "readResponse"
    /\ response[key[r]] # None
    /\ Finish(r, "cached", response[key[r]])
    /\ UNCHANGED <<store, storeVars, serviceVars>>

ReadResponse(r) ==
    /\ pc[r] = "readResponse"
    /\ AnswerClaimed(r)
    /\ UNCHANGED <<store, storeVars, serviceVars>>

\* InMemoryIdempotencyStore.claim: the same under one lock.
ClaimInMemory(r) ==
    /\ store = "memory" /\ pc[r] = "claim"
    /\ IF hash[key[r]] = None
       THEN /\ hash' = [hash EXCEPT ![key[r]] = body[r]]
            /\ Goto(r, "call")
       ELSE /\ IF hash[key[r]] # body[r] THEN Finish(r, "mismatch", None)
                                         ELSE AnswerClaimed(r)
            /\ UNCHANGED hash
    /\ UNCHANGED <<store, response, lapsed, serviceVars>>

-----------------------------------------------------------------------------
(* The call, retries = 0.                                                  *)

\* The circuit breaker is open, or the request leaves.
Call(r) ==
    /\ pc[r] = "call"
    /\ \/ Finish(r, "unavailable", None) /\ UNCHANGED travelling
       \/ Goto(r, "calling") /\ travelling' = travelling \cup {r}
    /\ UNCHANGED <<store, storeVars, executed>>

\* 200, whatever the saga came to.
Answered(r) ==
    /\ pc[r] = "calling" /\ r \in travelling
    /\ travelling' = travelling \ {r}
    /\ executed' = executed \cup {r}
    /\ Goto(r, "store")
    /\ UNCHANGED <<store, storeVars>>

\* Bug: a payment whose posting fails is answered 4xx as well.
Rejected_AnyBody(r) ==
    /\ pc[r] = "calling" /\ r \in travelling
    /\ travelling' = travelling \ {r}
    /\ executed' \in {executed, executed \cup {r}}
    /\ Goto(r, "release")
    /\ UNCHANGED <<store, storeVars>>

\* A 4xx.  The ledger answers 422 to every exception of a top-up: a COMMIT
\* whose acknowledgement was lost, or the failure of a retry, an earlier copy
\* of which may still be served.  transaction-service passes it on.
Rejected(r) ==
    /\ pc[r] = "calling" /\ r \in travelling
    /\ Goto(r, "release")
    /\ \/ travelling' = travelling \ {r} /\ UNCHANGED executed
       \/ /\ body[r] \in Topups
          /\ \/ travelling' = travelling \ {r} /\ executed' = executed \cup {r}
             \/ UNCHANGED serviceVars
    /\ UNCHANGED <<store, storeVars>>

\* The request is carried out with nobody listening, or it never gets there.
Unheard(r) ==
    /\ r \in travelling
    /\ travelling' = travelling \ {r}
    /\ executed' \in {executed, executed \cup {r}}
    /\ UNCHANGED <<store, requestVars, storeVars>>

\* Bug: the key is given back after a timeout too.
Unavailable_Releases(r) ==
    /\ pc[r] = "calling"
    /\ Goto(r, "release")
    /\ UNCHANGED <<store, storeVars, serviceVars>>

\* A timeout (35 s) or a 5xx: 503 to the client, and the claim is kept.
Unavailable(r) ==
    /\ pc[r] = "calling"
    /\ Finish(r, "unavailable", None)
    /\ UNCHANGED <<store, storeVars, serviceVars>>

\* Bug: the claim is dropped once the response is stored.
StoreResponse_Forgets(r) ==
    /\ pc[r] = "store"
    /\ response' = [response EXCEPT ![key[r]] = r]
    /\ hash' = [hash EXCEPT ![key[r]] = None]
    /\ Finish(r, "ok", r)
    /\ UNCHANGED <<store, lapsed, serviceVars>>

\* The dictionary stores a response only under a claim; Redis always does.
StoreResponse(r) ==
    /\ pc[r] = "store"
    /\ response' = IF store = "memory" /\ hash[key[r]] = None THEN response
                   ELSE [response EXCEPT ![key[r]] = r]
    /\ Finish(r, "ok", r)
    /\ UNCHANGED <<store, hash, lapsed, serviceVars>>

\* _release_on_definite_failure: one DEL of both keys.
Release(r) ==
    /\ pc[r] = "release"
    /\ hash' = [hash EXCEPT ![key[r]] = None]
    /\ response' = [response EXCEPT ![key[r]] = None]
    /\ Finish(r, "refused", None)
    /\ UNCHANGED <<store, lapsed, serviceVars>>

-----------------------------------------------------------------------------
\* A claim outlives by far (24 h to 35 s) the request that made it and
\* anything that request still has travelling.
Quiet(k) ==
    /\ \A r \in travelling : key[r] # k
    /\ \A r \in Client : pc[r] \in {"call", "calling", "store", "release"}
                            => key[r] # k

\* The dictionary prunes claim and response together.  In Redis the claim,
\* set first, expires first.
ExpireClaim(k) ==
    /\ "expiry" \in Faults
    /\ hash[k] # None /\ Quiet(k)
    /\ hash' = [hash EXCEPT ![k] = None]
    /\ response' = IF store = "memory" THEN [response EXCEPT ![k] = None]
                                       ELSE response
    /\ lapsed' = lapsed \cup {k}
    /\ UNCHANGED <<store, requestVars, serviceVars>>

\* The response of an expired claim, whether or not the key is claimed anew.
ExpireResponse(k) ==
    /\ k \in lapsed /\ store = "redis"
    /\ response[k] # None
    /\ response' = [response EXCEPT ![k] = None]
    /\ UNCHANGED <<store, requestVars, hash, lapsed, serviceVars>>

\* The replica serving the request dies: its claim stays until it expires.
\* Only with Redis: the dictionary would die too.
Crash(r) ==
    /\ "crash" \in Faults /\ store = "redis"
    /\ pc[r] \notin {"idle", "done"}
    /\ Finish(r, "crashed", None)
    /\ UNCHANGED <<store, storeVars, serviceVars>>

Serve(r) ==
    \/ SetNX(r) \/ ReadHash(r) \/ ReadResponse(r) \/ ClaimInMemory(r)
    \/ Call(r) \/ Answered(r) \/ Rejected(r) \/ Unavailable(r)
    \/ StoreResponse(r) \/ Release(r)

Next ==
    \/ \E r \in Client : \/ \E k \in Key, b \in Body : Receive(r, k, b)
                         \/ Serve(r)
                         \/ Unheard(r)
                         \/ Crash(r)
    \/ \E k \in Key : ExpireClaim(k) \/ ExpireResponse(k)

Spec == Init /\ [][Next]_vars

\* A request is a thread that runs; its only wait, the call, has a timeout.
Fairness == \A r \in Client : WF_vars(Serve(r))
FairSpec == Spec /\ Fairness

-----------------------------------------------------------------------------
TypeOK ==
    /\ store \in Stores
    /\ pc \in [Client -> Steps]
    /\ key \in [Client -> Key \cup {None}]
    /\ body \in [Client -> Body \cup {None}]
    /\ status \in [Client -> Status \cup {None}]
    /\ result \in [Client -> Client \cup {None}]
    /\ hash \in [Key -> Body \cup {None}]
    /\ response \in [Key -> Client \cup {None}]
    /\ travelling \subseteq Client /\ executed \subseteq Client
    /\ lapsed \subseteq Key
    /\ \A r \in Client : status[r] \in {"ok", "cached"} <=> result[r] # None

\* What a claim promises from here on it cannot keep for a top-up answered
\* 4xx, whose key is given back although its money may have moved or may yet.
Misreported(r) == body[r] \in Topups /\ status[r] = "refused"

\* A request like r found its key free, was refused and gave the key back.
GivenBack(r) ==
    \E q \in Client : key[q] = key[r] /\ body[q] = body[r] /\ status[q] = "refused"

\* However many copies of a request arrive, at whichever replica and in
\* whatever order, its money moves once per key until the claim expires,
\* beside what top-ups answered 4xx have moved unreported.
OneExecutionPerKey ==
    \A r, s \in {x \in executed : ~Misreported(x)} :
        key[r] = key[s] /\ key[r] \notin lapsed => r = s

\* A key stays claimed from the moment its money may have moved: after a 200,
\* a timeout or a crash alike, and after a payment's 4xx, nobody can claim it
\* again.  After a top-up's 4xx, somebody can.
ClaimedWhileInDoubt ==
    \A r \in travelling \cup executed :
        Misreported(r) \/ key[r] \in lapsed \/ hash[key[r]] # None

\* All the clients told of a success of one key are told of the same one.
SameExecution ==
    \A r, s \in Client :
        (result[r] # None /\ result[s] # None /\ key[r] = key[s]
         /\ key[r] \notin lapsed) => result[r] = result[s]

\* It is one of a request with the body they sent.  Except that on Redis the
\* claim found under one's own hash may be given back, and the key claimed for
\* another body, before the response is read.
ReplayAnswersItsBody ==
    \A r \in Client : result[r] # None /\ key[r] \notin lapsed =>
        body[result[r]] = body[r] \/ (store = "redis" /\ GivenBack(r))

\* A replay is answered with the one success of its key, and with the right
\* one: the cached response of another body "would silently answer the wrong
\* question" (_claim).
SuccessesAgree == SameExecution /\ ReplayAnswersItsBody

\* Nobody waits on another request's claim: every request is answered.
EveryRequestIsAnswered ==
    \A r \in Client : pc[r] = "claim" ~> pc[r] = "done"
=============================================================================
