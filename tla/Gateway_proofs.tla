--------------------------- MODULE Gateway_proofs ---------------------------
(***************************************************************************)
(* Theorems about Gateway for any number of requests, keys and bodies, on  *)
(* either store.                                                           *)
(***************************************************************************)
EXTENDS Gateway, TLAPS

\* The request's own steps, from its claim to its answer.
Processing(r) == pc[r] \in {"call", "calling", "store", "release"}

\* What it asked for may yet happen, or has.
InDoubt(r) == r \in travelling \cup executed

\* A top-up that was told 4xx holds its key no longer.
Holds(r) == Processing(r) \/ (InDoubt(r) /\ ~Misreported(r))

\* Where a request can be in doubt.
Places ==
    \A r \in Client :
        /\ pc[r] # "idle" => key[r] \in Key /\ body[r] \in Body
        /\ pc[r] = "idle" => key[r] = None /\ status[r] = None
        /\ pc[r] \in {"idle", "claim", "readHash", "readResponse", "call"} => ~InDoubt(r)
        /\ pc[r] = "release" /\ InDoubt(r) => body[r] \in Topups
        /\ pc[r] = "store" => r \in executed
        /\ pc[r] # "done" => result[r] = None /\ status[r] = None
        /\ ~(r \in travelling /\ r \in executed)

\* Whoever holds an unexpired key finds it claimed, and is the only one.
HoldersClaimed ==
    \A r \in Client : Holds(r) => key[r] \in lapsed \/ hash[key[r]] # None
HoldersAlone ==
    \A r, s \in Client :
        Holds(r) /\ Holds(s) /\ key[r] = key[s] /\ key[r] \notin lapsed => r = s

\* Responses, stored or given, are those of executions of the same key.
ResponsesReal ==
    /\ \A k \in Key : response[k] # None => /\ response[k] \in executed
                                            /\ key[response[k]] = k
                                            /\ status[response[k]] = "ok"
    /\ \A r \in Client : result[r] # None => /\ result[r] \in executed
                                             /\ key[result[r]] = key[r]
                                             /\ status[result[r]] = "ok"

Fields ==
    /\ pc \in [Client -> Steps]
    /\ key \in [Client -> Key \cup {None}]
    /\ body \in [Client -> Body \cup {None}]
    /\ status \in [Client -> Status \cup {None}]
    /\ result \in [Client -> Client \cup {None}]
    /\ hash \in [Key -> Body \cup {None}]
    /\ response \in [Key -> Client \cup {None}]
    /\ travelling \subseteq Client /\ executed \subseteq Client
    /\ lapsed \subseteq Key

ClaimInv == TypeOK /\ Places /\ HoldersClaimed /\ HoldersAlone /\ ResponsesReal

-----------------------------------------------------------------------------
LEMMA ClaimInit == Init => ClaimInv
<1> SUFFICES ASSUME Init PROVE ClaimInv
  OBVIOUS
<1>1. TypeOK
  BY ConstantsAssumption DEF Init, TypeOK, Steps, Status
<1>2. Places
  BY DEF Init, Places, InDoubt
<1>3. HoldersClaimed /\ HoldersAlone
  BY DEF Init, HoldersClaimed, HoldersAlone, Holds, Processing, InDoubt, Misreported
<1>4. ResponsesReal
  BY DEF Init, ResponsesReal
<1>. QED  BY <1>1, <1>2, <1>3, <1>4 DEF ClaimInv

LEMMA TypeNext == ASSUME TypeOK, Places, [Next]_vars PROVE TypeOK'
<1> USE ConstantsAssumption DEF TypeOK, Goto, Finish, requestVars, storeVars, serviceVars
<1>1. ASSUME NEW r \in Client, NEW k \in Key, NEW b \in Body, Receive(r, k, b) PROVE TypeOK'
  BY <1>1 DEF Receive, Steps
<1>2. ASSUME NEW r \in Client, Serve(r) PROVE TypeOK'
  <2>1. key[r] \in Key /\ body[r] \in Body /\ result[r] = None /\ status[r] = None
    BY <1>2 DEF Serve, Places, SetNX, ReadHash, ReadResponse, ClaimInMemory, Call, Answered,
       Rejected, Unavailable, StoreResponse, Release
  <2>2. CASE SetNX(r) \/ ReadHash(r) \/ Call(r) \/ Answered(r) \/ Rejected(r)
          \/ Unavailable(r) \/ Release(r)
    BY <2>1, <2>2 DEF SetNX, ReadHash, Call, Answered, Rejected, Unavailable, Release, Steps, Status
  <2>3. CASE ReadResponse(r) \/ ClaimInMemory(r)
    BY <2>1, <2>3 DEF ReadResponse, ClaimInMemory, AnswerClaimed, Steps, Status
  <2>4. CASE StoreResponse(r)
    BY <2>1, <2>4 DEF StoreResponse, Steps, Status
  <2>. QED  BY <1>2, <2>2, <2>3, <2>4 DEF Serve
<1>3. ASSUME NEW r \in Client, Unheard(r) PROVE TypeOK'
  BY <1>3 DEF Unheard
<1>4. ASSUME NEW r \in Client, Crash(r) PROVE TypeOK'
  BY <1>4 DEF Crash, Places, Steps, Status
<1>5. ASSUME NEW k \in Key, ExpireClaim(k) \/ ExpireResponse(k) PROVE TypeOK'
  BY <1>5 DEF ExpireClaim, ExpireResponse
<1>6. CASE UNCHANGED vars
  BY <1>6 DEF vars
<1>. QED  BY <1>1, <1>2, <1>3, <1>4, <1>5, <1>6 DEF Next

LEMMA ClaimNext == ASSUME ClaimInv, [Next]_vars PROVE ClaimInv'
<1> USE ConstantsAssumption DEF requestVars, storeVars, serviceVars, Status
<1>0. TypeOK' /\ Fields
  BY TypeNext DEF ClaimInv, TypeOK, Fields
<1> DEFINE Rest == Places /\ HoldersClaimed /\ HoldersAlone /\ ResponsesReal
<1>a. Rest
  BY DEF ClaimInv
<1> SUFFICES Rest'
  BY <1>0 DEF ClaimInv
<1>1. ASSUME NEW r \in Client, NEW k \in Key, NEW b \in Body, Receive(r, k, b) PROVE Rest'
  <2>1. ~InDoubt(r) /\ result[r] = None
    BY <1>1, <1>a DEF Receive, Places
  <2>. QED  BY <1>0, <1>a, <1>1, <2>1 DEF Receive, Fields, Places, HoldersClaimed, HoldersAlone,
            ResponsesReal, Holds, Processing, InDoubt, Misreported
<1>2. ASSUME NEW r \in Client, Serve(r) PROVE Rest'
  <2> USE DEF Goto, Finish, Fields, Places, HoldersClaimed, HoldersAlone, Holds, Processing,
              InDoubt, Misreported, ResponsesReal
  <2>1. CASE SetNX(r)
    BY <1>0, <1>a, <2>1 DEF SetNX
  <2>2. CASE ReadHash(r)
    BY <1>0, <1>a, <2>2 DEF ReadHash
  <2>3. CASE ReadResponse(r)
    BY <1>0, <1>a, <2>3 DEF ReadResponse, AnswerClaimed
  <2>4. CASE ClaimInMemory(r)
    BY <1>0, <1>a, <2>4 DEF ClaimInMemory, AnswerClaimed
  <2>5. CASE Call(r)
    BY <1>0, <1>a, <2>5 DEF Call
  <2>6. CASE Answered(r)
    BY <1>0, <1>a, <2>6 DEF Answered
  <2>7. CASE Unavailable(r)
    BY <1>0, <1>a, <2>7 DEF Unavailable
  <2>10. CASE Rejected(r)
    BY <1>0, <1>a, <2>10 DEF Rejected
  <2>8. CASE StoreResponse(r)
    BY <1>0, <1>a, <2>8 DEF StoreResponse
  <2>9. CASE Release(r)
    BY <1>0, <1>a, <2>9 DEF Release
  <2>. QED  BY <1>2, <2>1, <2>2, <2>3, <2>4, <2>5, <2>6, <2>7, <2>8, <2>9, <2>10 DEF Serve
<1>3. ASSUME NEW r \in Client, Unheard(r) PROVE Rest'
  BY <1>0, <1>a, <1>3 DEF Unheard, Fields, Places, HoldersClaimed, HoldersAlone, Holds,
     Processing, InDoubt, Misreported, ResponsesReal
<1>4. ASSUME NEW r \in Client, Crash(r) PROVE Rest'
  BY <1>0, <1>a, <1>4 DEF Crash, Finish, Fields, Places, HoldersClaimed, HoldersAlone, Holds,
     Processing, InDoubt, Misreported, ResponsesReal
<1>5. ASSUME NEW k \in Key, ExpireClaim(k) \/ ExpireResponse(k) PROVE Rest'
  BY <1>0, <1>a, <1>5 DEF ExpireClaim, ExpireResponse, Fields, Places, HoldersClaimed,
     HoldersAlone, Holds, Processing, InDoubt, Misreported, ResponsesReal
<1>6. CASE UNCHANGED vars
  BY <1>0, <1>a, <1>6 DEF vars, Fields, Places, HoldersClaimed, HoldersAlone, Holds,
     Processing, InDoubt, Misreported, ResponsesReal
<1>. QED  BY <1>1, <1>2, <1>3, <1>4, <1>5, <1>6 DEF Next

LEMMA ClaimAlways == Spec => []ClaimInv
BY ClaimInit, ClaimNext, PTL DEF Spec

-----------------------------------------------------------------------------
\* Every reachable state of the gateway is well typed, and a client told of a
\* success is told of somebody's execution.
THEOREM TypeCorrect == Spec => []TypeOK
BY ClaimAlways, PTL DEF ClaimInv

\* The money of an idempotency key moves once until its claim expires, however
\* many copies of the request arrive and whatever is lost or crashes, but for
\* what top-ups answered 4xx have moved.
THEOREM MoneyMovesOncePerKey == Spec => []OneExecutionPerKey
<1>1. ClaimInv => OneExecutionPerKey
  BY DEF ClaimInv, TypeOK, HoldersAlone, Holds, InDoubt, OneExecutionPerKey
<1>. QED  BY <1>1, ClaimAlways, PTL

\* A key stays claimed from the moment its money may have moved, unless a
\* top-up was answered 4xx under it.
THEOREM NoReleaseInDoubt == Spec => []ClaimedWhileInDoubt
<1>1. ClaimInv => ClaimedWhileInDoubt
  BY DEF ClaimInv, TypeOK, HoldersClaimed, Holds, InDoubt, ClaimedWhileInDoubt
<1>. QED  BY <1>1, ClaimAlways, PTL

\* All clients told of a success of one key are told of the same execution.
LEMMA SuccessesShared == Spec => []SameExecution
<1>1. ASSUME ClaimInv PROVE SameExecution
  <2>1. ASSUME NEW r \in Client, NEW s \in Client, result[r] # None, result[s] # None,
               key[r] = key[s], key[r] \notin lapsed
        PROVE  result[r] = result[s]
    <3>1. /\ result[r] \in executed /\ key[result[r]] = key[r]
          /\ result[s] \in executed /\ key[result[s]] = key[r]
          /\ ~Misreported(result[r]) /\ ~Misreported(result[s])
      BY <1>1, <2>1 DEF ClaimInv, ResponsesReal, Misreported
    <3>2. result[r] \in Client /\ result[s] \in Client
      BY <1>1, <3>1 DEF ClaimInv, TypeOK
    <3>. QED  BY <1>1, <2>1, <3>1, <3>2 DEF ClaimInv, HoldersAlone, Holds, InDoubt
  <2>. QED  BY <2>1 DEF SameExecution
<1>. QED  BY <1>1, ClaimAlways, PTL
-----------------------------------------------------------------------------
(* Bodies: whose response a claim may read.                                *)

\* An unexpired claim carries the hash of the request that holds it.
Owned == \A r \in Client : Holds(r) => key[r] \in lapsed \/ hash[key[r]] = body[r]

\* Between the two reads, the claim is still one for the same body, or the one
\* that was has been given back.
Reading ==
    \A r \in Client : pc[r] \in {"readHash", "readResponse"} => store = "redis"
Found ==
    \A r \in Client : pc[r] = "readResponse" /\ key[r] \notin lapsed =>
        hash[key[r]] = body[r] \/ GivenBack(r)

BodyInv == Owned /\ Reading /\ Found /\ ReplayAnswersItsBody

\* A request keeps what it carries, and its answer once it has one.
Kept(r) ==
    /\ pc[r] # "idle" => pc'[r] # "idle" /\ key'[r] = key[r] /\ body'[r] = body[r]
    /\ pc[r] = "done" => pc'[r] = "done" /\ status'[r] = status[r] /\ result'[r] = result[r]

LEMMA RequestsKept == ASSUME ClaimInv, [Next]_vars PROVE \A r \in Client : Kept(r)
<1> USE DEF Kept, ClaimInv, TypeOK, Goto, Finish, requestVars, Steps
<1>1. ASSUME NEW s \in Client, NEW k \in Key, NEW b \in Body, Receive(s, k, b)
      PROVE  \A r \in Client : Kept(r)
  BY <1>1 DEF Receive
<1>2. ASSUME NEW s \in Client, Serve(s) PROVE \A r \in Client : Kept(r)
  <2>1. CASE SetNX(s) \/ ReadHash(s) \/ Call(s) \/ Answered(s) \/ Rejected(s)
          \/ Unavailable(s) \/ Release(s)
    BY <2>1 DEF SetNX, ReadHash, Call, Answered, Rejected, Unavailable, Release
  <2>2. CASE ReadResponse(s) \/ ClaimInMemory(s)
    BY <2>2 DEF ReadResponse, ClaimInMemory, AnswerClaimed
  <2>3. CASE StoreResponse(s)
    BY <2>3 DEF StoreResponse
  <2>. QED  BY <1>2, <2>1, <2>2, <2>3 DEF Serve
<1>3. ASSUME NEW s \in Client, Unheard(s) \/ Crash(s) PROVE \A r \in Client : Kept(r)
  BY <1>3 DEF Unheard, Crash
<1>4. ASSUME NEW k \in Key, ExpireClaim(k) \/ ExpireResponse(k) PROVE \A r \in Client : Kept(r)
  BY <1>4 DEF ExpireClaim, ExpireResponse
<1>5. CASE UNCHANGED vars
  BY <1>5 DEF vars
<1>. QED  BY <1>1, <1>2, <1>3, <1>4, <1>5 DEF Next

LEMMA GivenBackLasts ==
    ASSUME ClaimInv, [Next]_vars, NEW r \in Client, pc[r] # "idle", GivenBack(r)
    PROVE  GivenBack(r)'
<1>1. PICK q \in Client : key[q] = key[r] /\ body[q] = body[r] /\ status[q] = "refused"
  BY DEF GivenBack
<1>2. pc[q] = "done"
  BY <1>1, ConstantsAssumption DEF ClaimInv, Places, Status
<1>. QED  BY <1>1, <1>2, RequestsKept DEF Kept, GivenBack

\* A stored response under an unexpired claim is of the claim's body.
LEMMA StoredIsOwners ==
    ASSUME ClaimInv, Owned, NEW k \in Key, response[k] # None, k \notin lapsed
    PROVE  body[response[k]] = hash[k]
<1>1. /\ response[k] \in executed /\ key[response[k]] = k /\ status[response[k]] = "ok"
  BY DEF ClaimInv, ResponsesReal
<1>2. response[k] \in Client /\ Holds(response[k])
  BY <1>1 DEF ClaimInv, TypeOK, Holds, InDoubt, Misreported
<1>. QED  BY <1>1, <1>2 DEF Owned

LEMMA BodyInit == Init => BodyInv
BY DEF Init, BodyInv, Owned, Reading, Found, ReplayAnswersItsBody, Holds, Processing, InDoubt

LEMMA OwnedNext == ASSUME ClaimInv, Owned, [Next]_vars PROVE Owned'
<1> USE ConstantsAssumption DEF requestVars, storeVars, serviceVars, Owned, Goto, Finish,
        Holds, Processing, InDoubt, Misreported, Places, HoldersAlone
<1>a. Fields /\ Places /\ HoldersAlone
  BY DEF ClaimInv, TypeOK, Fields
<1>b. \A r \in Client : Holds(r) => key[r] \in Key /\ body[r] \in Body
  BY <1>a
<1>1. ASSUME NEW r \in Client, NEW k \in Key, NEW b \in Body, Receive(r, k, b) PROVE Owned'
  BY <1>a, <1>1 DEF Receive, Fields
<1>2. ASSUME NEW r \in Client, Serve(r) PROVE Owned'
  <2>1. CASE SetNX(r)
    BY <1>a, <1>b, <2>1 DEF SetNX, Fields
  <2>2. CASE ReadHash(r)
    BY <1>a, <2>2 DEF ReadHash, Fields
  <2>3. CASE ReadResponse(r)
    BY <1>a, <2>3 DEF ReadResponse, AnswerClaimed, Fields
  <2>4. CASE ClaimInMemory(r)
    BY <1>a, <1>b, <2>4 DEF ClaimInMemory, AnswerClaimed, Fields
  <2>5. CASE Call(r)
    BY <1>a, <2>5 DEF Call, Fields
  <2>6. CASE Answered(r) \/ Rejected(r)
    BY <1>a, <2>6 DEF Answered, Rejected, Fields
  <2>7. CASE Unavailable(r)
    BY <1>a, <2>7 DEF Unavailable, Fields
  <2>8. CASE StoreResponse(r)
    BY <1>a, <2>8 DEF StoreResponse, Fields
  <2>9. CASE Release(r)
    BY <1>a, <2>9 DEF Release, Fields
  <2>. QED  BY <1>2, <2>1, <2>2, <2>3, <2>4, <2>5, <2>6, <2>7, <2>8, <2>9 DEF Serve
<1>3. ASSUME NEW r \in Client, Unheard(r) PROVE Owned'
  BY <1>a, <1>3 DEF Unheard, Fields
<1>4. ASSUME NEW r \in Client, Crash(r) PROVE Owned'
  BY <1>a, <1>4 DEF Crash, Fields, Status
<1>5. ASSUME NEW k \in Key, ExpireClaim(k) \/ ExpireResponse(k) PROVE Owned'
  BY <1>a, <1>5 DEF ExpireClaim, ExpireResponse, Fields
<1>6. CASE UNCHANGED vars
  BY <1>6 DEF vars
<1>. QED  BY <1>1, <1>2, <1>3, <1>4, <1>5, <1>6 DEF Next

LEMMA ReadingNext == ASSUME ClaimInv, Reading, [Next]_vars PROVE Reading'
<1> USE DEF Reading, requestVars, Goto, Finish, ClaimInv, TypeOK
<1>1. ASSUME NEW r \in Client, NEW k \in Key, NEW b \in Body, Receive(r, k, b) PROVE Reading'
  BY <1>1 DEF Receive
<1>2. ASSUME NEW r \in Client, Serve(r) PROVE Reading'
  BY <1>2 DEF Serve, SetNX, ReadHash, ReadResponse, ClaimInMemory, AnswerClaimed, Call,
     Answered, Rejected, Unavailable, StoreResponse, Release
<1>3. ASSUME NEW r \in Client, Unheard(r) \/ Crash(r) PROVE Reading'
  BY <1>3 DEF Unheard, Crash
<1>4. ASSUME NEW k \in Key, ExpireClaim(k) \/ ExpireResponse(k) PROVE Reading'
  BY <1>4 DEF ExpireClaim, ExpireResponse
<1>5. CASE UNCHANGED vars
  BY <1>5 DEF vars
<1>. QED  BY <1>1, <1>2, <1>3, <1>4, <1>5 DEF Next

\* What becomes of an unexpired claim: it stays, is made where there was none,
\* or is given back by a request with its body.
LEMMA ClaimStays ==
    ASSUME ClaimInv, Owned, [Next]_vars, NEW k \in Key, hash[k] # None, k \notin lapsed'
    PROVE  \/ hash'[k] = hash[k]
           \/ \E q \in Client : /\ key'[q] = k /\ body'[q] = hash[k]
                                /\ status'[q] = "refused"
<1> USE DEF ClaimInv, TypeOK, requestVars, storeVars, serviceVars, Goto, Finish
<1>1. ASSUME NEW q \in Client, Release(q), key[q] = k
      PROVE  key'[q] = k /\ body'[q] = hash[k] /\ status'[q] = "refused"
  BY <1>1 DEF Release, Owned, Holds, Processing
<1>2. ASSUME NEW q \in Client, Serve(q), ~(Release(q) /\ key[q] = k) PROVE hash'[k] = hash[k]
  BY <1>2 DEF Serve, SetNX, ReadHash, ReadResponse, ClaimInMemory, AnswerClaimed, Call,
     Answered, Rejected, Unavailable, StoreResponse, Release
<1>3. ASSUME NEW q \in Client, Unheard(q) \/ Crash(q)
                                \/ \E j \in Key, b \in Body : Receive(q, j, b)
      PROVE  hash'[k] = hash[k]
  BY <1>3 DEF Unheard, Crash, Receive
<1>4. ASSUME NEW j \in Key, ExpireClaim(j) \/ ExpireResponse(j) PROVE hash'[k] = hash[k]
  BY <1>4 DEF ExpireClaim, ExpireResponse
<1>5. CASE UNCHANGED vars
  BY <1>5 DEF vars
<1>. QED  BY <1>1, <1>2, <1>3, <1>4, <1>5 DEF Next

LEMMA LapsedGrows == ASSUME [Next]_vars PROVE lapsed \subseteq lapsed'
BY DEF Next, vars, Serve, Receive, SetNX, ReadHash, ReadResponse, ClaimInMemory, Call,
   Answered, Rejected, Unavailable, StoreResponse, Release, Unheard, Crash, ExpireClaim,
   ExpireResponse, storeVars

\* A request that has found its own body's claim.
LEMMA FoundNext == ASSUME ClaimInv, BodyInv, [Next]_vars PROVE Found'
<1> SUFFICES ASSUME NEW r \in Client, pc'[r] = "readResponse", key'[r] \notin lapsed'
             PROVE  hash'[key'[r]] = body'[r] \/ GivenBack(r)'
  BY DEF Found
<1>1. /\ pc[r] # "idle" /\ pc[r] # "done"
      /\ (hash[key[r]] = body[r] /\ pc[r] \in {"readHash", "readResponse"}) \/ GivenBack(r)
  <2> USE DEF Goto, Finish, requestVars, ClaimInv, TypeOK, BodyInv, Found
  <2>1. key[r] \notin lapsed \/ pc[r] = "idle"
    BY LapsedGrows, RequestsKept DEF Kept
  <2>2. ASSUME NEW q \in Client, NEW k \in Key, NEW b \in Body, Receive(q, k, b)
        PROVE  pc[r] = "readResponse"
    BY <2>2 DEF Receive
  <2>3. ASSUME NEW q \in Client, Serve(q)
        PROVE  pc[r] = "readResponse" \/ (pc[r] = "readHash" /\ hash[key[r]] = body[r])
    BY <2>3 DEF Serve, SetNX, ReadHash, ReadResponse, ClaimInMemory, AnswerClaimed, Call,
       Answered, Rejected, Unavailable, StoreResponse, Release
  <2>4. ASSUME NEW q \in Client, Unheard(q) \/ Crash(q) PROVE pc[r] = "readResponse"
    BY <2>4 DEF Unheard, Crash
  <2>5. ASSUME NEW k \in Key, ExpireClaim(k) \/ ExpireResponse(k) PROVE pc[r] = "readResponse"
    BY <2>5 DEF ExpireClaim, ExpireResponse
  <2>6. CASE UNCHANGED vars
    BY <2>1, <2>6 DEF vars
  <2>7. pc[r] = "readResponse" \/ (pc[r] = "readHash" /\ hash[key[r]] = body[r])
    BY <2>2, <2>3, <2>4, <2>5, <2>6 DEF Next, vars
  <2>. QED  BY <2>1, <2>7
<1>2. key'[r] = key[r] /\ body'[r] = body[r]
  BY <1>1, RequestsKept DEF Kept
<1>3. CASE GivenBack(r)
  BY <1>1, <1>3, GivenBackLasts
<1>4. CASE hash[key[r]] = body[r]
  <2>1. key[r] \in Key /\ hash[key[r]] # None
    BY <1>1, <1>4, ConstantsAssumption DEF ClaimInv, Places
  <2>2. \/ hash'[key[r]] = hash[key[r]]
        \/ \E q \in Client : /\ key'[q] = key[r] /\ body'[q] = hash[key[r]]
                             /\ status'[q] = "refused"
    BY <1>2, <2>1, ClaimStays DEF BodyInv
  <2>. QED  BY <1>2, <1>4, <2>2 DEF GivenBack
<1>. QED  BY <1>1, <1>3, <1>4

\* A request that is answered with a result has just found it, or had it.
LEMMA ReplayNext == ASSUME ClaimInv, BodyInv, [Next]_vars PROVE ReplayAnswersItsBody'
<1> SUFFICES ASSUME NEW r \in Client, result'[r] # None, key'[r] \notin lapsed'
             PROVE  body'[result'[r]] = body'[r] \/ (store' = "redis" /\ GivenBack(r)')
  BY DEF ReplayAnswersItsBody
<1> DEFINE told == result'[r]
<1>1. store' = store
  BY DEF Next, vars, Serve, Receive, SetNX, ReadHash, ReadResponse, ClaimInMemory, Call,
     Answered, Rejected, Unavailable, StoreResponse, Release, Unheard, Crash, ExpireClaim,
     ExpireResponse
<1>2. /\ pc[r] # "idle"
      /\ \/ told = r
         \/ told = result[r]
         \/ /\ told = response[key[r]]
            /\ hash[key[r]] = body[r] \/ pc[r] = "readResponse"
  <2> USE DEF Goto, Finish, requestVars, ClaimInv, TypeOK, Places
  <2>1. ASSUME NEW q \in Client, NEW k \in Key, NEW b \in Body, Receive(q, k, b)
        PROVE  pc[r] # "idle" /\ told = result[r]
    BY <2>1 DEF Receive
  <2>2. ASSUME NEW q \in Client, Serve(q), q # r PROVE pc[r] # "idle" /\ told = result[r]
    BY <2>2 DEF Serve, SetNX, ReadHash, ReadResponse, ClaimInMemory, AnswerClaimed, Call,
       Answered, Rejected, Unavailable, StoreResponse, Release
  <2>3. CASE ReadResponse(r) \/ ClaimInMemory(r)
    BY <2>3 DEF ReadResponse, ClaimInMemory, AnswerClaimed
  <2>4. CASE SetNX(r) \/ ReadHash(r) \/ Call(r) \/ Answered(r) \/ Rejected(r)
          \/ Unavailable(r) \/ Release(r)
    BY <2>4 DEF SetNX, ReadHash, Call, Answered, Rejected, Unavailable, Release
  <2>5. CASE StoreResponse(r)
    BY <2>5 DEF StoreResponse
  <2>6. ASSUME NEW q \in Client, Unheard(q) \/ Crash(q) PROVE pc[r] # "idle" /\ told = result[r]
    BY <2>6 DEF Unheard, Crash
  <2>7. ASSUME NEW k \in Key, ExpireClaim(k) \/ ExpireResponse(k)
        PROVE  pc[r] # "idle" /\ told = result[r]
    BY <2>7 DEF ExpireClaim, ExpireResponse
  <2>8. CASE UNCHANGED vars
    BY <2>8 DEF vars
  <2>. QED  BY <2>1, <2>2, <2>3, <2>4, <2>5, <2>6, <2>7, <2>8 DEF Next, Serve
<1>3. /\ key[r] \in Key /\ key[r] \notin lapsed
      /\ key'[r] = key[r] /\ body'[r] = body[r]
  BY <1>2, LapsedGrows, RequestsKept DEF Kept, ClaimInv, Places
<1>4. ASSUME told # r, told \in executed, told \in Client,
             body[told] = body[r] \/ (store = "redis" /\ GivenBack(r))
      PROVE  body'[told] = body'[r] \/ (store' = "redis" /\ GivenBack(r)')
  <2>1. pc[told] # "idle"
    BY <1>4 DEF ClaimInv, Places, InDoubt
  <2>2. body'[told] = body[told]
    BY <1>4, <2>1, RequestsKept DEF Kept
  <2>. QED  BY <1>1, <1>2, <1>3, <1>4, <2>2, GivenBackLasts
<1>5. CASE told = result[r] /\ told # r
  <2>1. told \in executed /\ told \in Client
    BY <1>5 DEF ClaimInv, ResponsesReal, TypeOK
  <2>2. body[told] = body[r] \/ (store = "redis" /\ GivenBack(r))
    BY <1>3, <1>5 DEF BodyInv, ReplayAnswersItsBody
  <2>. QED  BY <1>4, <1>5, <2>1, <2>2
<1>6. CASE told = response[key[r]] /\ told # r
           /\ (hash[key[r]] = body[r] \/ pc[r] = "readResponse")
  <2>1. told \in executed /\ told \in Client
    BY <1>3, <1>6 DEF ClaimInv, ResponsesReal, TypeOK
  <2>2. body[told] = hash[key[r]]
    BY <1>3, <1>6, StoredIsOwners DEF BodyInv
  <2>3. hash[key[r]] = body[r] \/ (store = "redis" /\ GivenBack(r))
    BY <1>3, <1>6 DEF BodyInv, Found, Reading
  <2>. QED  BY <1>4, <1>6, <2>1, <2>2, <2>3
<1>. QED  BY <1>2, <1>3, <1>5, <1>6

\* All clients told of a success of one key are told of the same execution, of
\* a request with the body they sent, unless, on Redis, the claim they had found
\* was given back before they read the response.
THEOREM OneSuccessPerKey == Spec => []SuccessesAgree
<1>1. ASSUME ClaimInv, BodyInv, [Next]_vars PROVE BodyInv'
  BY <1>1, OwnedNext, ReadingNext, FoundNext, ReplayNext DEF BodyInv
<1>2. BodyInv /\ SameExecution => SuccessesAgree
  BY DEF BodyInv, SuccessesAgree
<1>. QED  BY <1>1, <1>2, BodyInit, ClaimAlways, SuccessesShared, PTL DEF Spec
=============================================================================
