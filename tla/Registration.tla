---------------------------- MODULE Registration ----------------------------
(***************************************************************************)
(* Registration and the platform purge, the operations of api-gateway that *)
(* write to two services: auth-service keeps the users, ledger-service the *)
(* accounts and cards, and only the order of the gateway's calls and a     *)
(* compensating delete tie their databases together.  A request may be     *)
(* lost, served after its caller gave up, or served with its answer lost.  *)
(* A transaction of a service is one step.  An open circuit breaker and a  *)
(* 5xx are a request nobody serves.                                        *)
(***************************************************************************)
EXTENDS Integers, SequencesExt

CONSTANTS
    Registration,  \* calls of /users/register, each with a user_id of its own
    Card,          \* card numbers
    Spelling,      \* the digits typed as a phone number, a set of sequences
    Subscriber,    \* who each spelling means
    CountryCode,   \* DEFAULT_COUNTRY_CODE, a sequence of digits
    MinDigits, MaxDigits,
    DeleteRetries, \* retries of the compensating delete
    Purges,        \* bound: purges of the platform
    None           \* "not yet"

ASSUME ConstantsAssumption ==
    /\ Spelling \cup {CountryCode} \subseteq Seq(0..9)
    /\ DOMAIN Subscriber = Spelling
    /\ MinDigits \in Nat \ {0} /\ MaxDigits \in Nat
    /\ DeleteRetries \in Nat /\ Purges \in Nat

VARIABLES
    pc, form, told,   \* per call: what it waits for, what was typed, its end
    attempt,          \* per call: the attempt of that request it waits for
    wire,             \* requests of calls still travelling
    users, accounts,  \* calls whose user, whose account and card, exist
    opPc, opTold,     \* the purge: the half waited for, what it reported
    opDone,           \* halves it heard were done
    purging, purges,  \* its requests still travelling, purges so far
    before,           \* the rows there were when it was asked for
    wiped             \* the rows purges have deleted

callVars == <<pc, told, attempt, wire>>
opVars == <<opPc, opTold, opDone, purging, purges, before, wiped>>
vars == <<callVars, form, users, accounts, opVars>>

Half == {"ledger", "auth"}
Steps == {"idle", "user", "account", "delete", "done"}

\* 200; auth-service's 4xx; its 503; "Could not create the account" with the
\* user deleted, or with COMPENSATION FAILED in the log; no answer at all.
Ends == {"success", "refused", "unavailable", "undone", "orphaned", "crashed"}

Init ==
    /\ pc = [r \in Registration |-> "idle"]
    /\ form = [r \in Registration |-> None]
    /\ told = [r \in Registration |-> None]
    /\ attempt = [r \in Registration |-> 1]
    /\ wire = {} /\ users = {} /\ accounts = {}
    /\ opPc = "idle" /\ opTold = None /\ opDone = {}
    /\ purging = {} /\ purges = 0 /\ before = {} /\ wiped = {}

-----------------------------------------------------------------------------
(* Phone numbers and cards.                                                *)

\* lstrip("0")
WithoutZeros(digits) ==
    LET first == SelectInSeq(digits, LAMBDA d : d # 0)
    IN IF first = 0 THEN <<>> ELSE SubSeq(digits, first, Len(digits))

Normalise(digits) ==
    IF digits # <<>> /\ digits[1] = 0 THEN CountryCode \o WithoutZeros(digits)
                                      ELSE digits

IsMsisdn(digits) == Len(Normalise(digits)) \in MinDigits..MaxDigits

\* The spellings of a number that is one differ as Normalise means them to, and
\* none of them reads as a card; None is no end of a call.
ASSUME SpellingAssumption ==
    /\ \A d, e \in Spelling :
          Subscriber[d] = Subscriber[e] /\ IsMsisdn(d) => Normalise(d) = Normalise(e)
    /\ Card \cap Spelling = {}
    /\ None \notin Ends \cup {"purged", "partial"}

\* Bug: the number is stored as it was typed.
Number_AsTyped(r) == form[r].spelling

\* users.msisdn
Number(r) == Normalise(form[r].spelling)

\* Bug: the gateway hands the ledger what was typed, not what auth returned.
Msisdn_AsTyped(r) == form[r].spelling

\* accounts.msisdn
Msisdn(r) == Number(r)

\* resolve_account: every account the query may return for a payee.
Resolve(identifier) ==
    LET byCard == {r \in accounts : form[r].card = identifier}
    IN IF byCard # {} THEN byCard
       ELSE {r \in accounts :
               IsMsisdn(identifier) /\ Msisdn(r) = Normalise(identifier)}

\* Bug: the number is looked up as it is typed.
Login_AsTyped(digits) == {r \in users : IsMsisdn(digits) /\ Number(r) = digits}

\* login, with the right password: whom the token is for, nobody for a 401.
Login(digits) ==
    {r \in users : IsMsisdn(digits) /\ Number(r) = Normalise(digits)}

\* introspect: a token is good while its user is there.
Active(r) == r \in users

-----------------------------------------------------------------------------
(* The gateway's side of a call.                                           *)

Request(r, op, n) == [call |-> r, op |-> op, try |-> n]

\* The caller of m still waits for it.
Waiting(m) == pc[m.call] = m.op /\ attempt[m.call] = m.try

\* The call asks next for op; otherwise, travelling is what travels.
Ask(r, op, n, travelling) ==
    /\ pc' = [pc EXCEPT ![r] = op]
    /\ attempt' = [attempt EXCEPT ![r] = n]
    /\ wire' = travelling \cup {Request(r, op, n)}
    /\ UNCHANGED told

Finish(r, end, travelling) ==
    /\ pc' = [pc EXCEPT ![r] = "done"]
    /\ told' = [told EXCEPT ![r] = end]
    /\ wire' = travelling
    /\ UNCHANGED attempt

\* The answer to m is lost, or nobody waits for it any more.
Unheard(m) ==
    /\ wire' = wire \ {m}
    /\ UNCHANGED <<pc, told, attempt>>

Register(r, digits, card) ==
    /\ pc[r] = "idle"
    /\ form' = [form EXCEPT ![r] = [spelling |-> digits, card |-> card]]
    /\ Ask(r, "user", 1, wire)
    /\ UNCHANGED <<users, accounts, opVars>>

\* Bug: one attempt too many.
Timeout_OffByOne(r) ==
    /\ \/ pc[r] = "user" /\ Finish(r, "unavailable", wire)
       \/ pc[r] = "account" /\ Ask(r, "delete", 1, wire)
       \/ /\ pc[r] = "delete"
          /\ IF attempt[r] <= DeleteRetries + 1
             THEN Ask(r, "delete", attempt[r] + 1, wire)
             ELSE Finish(r, "orphaned", wire)
    /\ UNCHANGED <<form, users, accounts, opVars>>

\* Bug: a delete nobody acknowledged is believed.
Timeout_Believed(r) ==
    /\ \/ pc[r] = "user" /\ Finish(r, "unavailable", wire)
       \/ pc[r] = "account" /\ Ask(r, "delete", 1, wire)
       \/ pc[r] = "delete" /\ Finish(r, "undone", wire)
    /\ UNCHANGED <<form, users, accounts, opVars>>

\* ServiceCallError: nothing is heard of the request, which may still be
\* served.  Creating is tried once, deleting again.
Timeout(r) ==
    /\ \/ pc[r] = "user" /\ Finish(r, "unavailable", wire)
       \/ pc[r] = "account" /\ Ask(r, "delete", 1, wire)
       \/ /\ pc[r] = "delete"
          /\ IF attempt[r] <= DeleteRetries
             THEN Ask(r, "delete", attempt[r] + 1, wire)
             ELSE Finish(r, "orphaned", wire)
    /\ UNCHANGED <<form, users, accounts, opVars>>

\* The gateway's pod dies, and the saga with it.
Crash(r) ==
    /\ pc[r] \notin {"idle", "done"}
    /\ Finish(r, "crashed", wire)
    /\ UNCHANGED <<form, users, accounts, opVars>>

-----------------------------------------------------------------------------
(* auth-service and ledger-service.                                        *)

\* register: 400 for what is no number, 409 for a number somebody has.
CreateUser(m) ==
    LET r == m.call
        accepted == /\ IsMsisdn(form[r].spelling)
                    /\ \A s \in users : Number(s) # Number(r)
    IN /\ m.op = "user"
       /\ users' = IF accepted THEN users \cup {r} ELSE users
       /\ \/ Unheard(m)
          \/ /\ Waiting(m)
             /\ IF accepted THEN Ask(r, "account", 1, wire \ {m})
                            ELSE Finish(r, "refused", wire \ {m})
       /\ UNCHANGED <<form, accounts, opVars>>

\* create_account: account and card in one transaction, 409 for a bound card.
CreateAccount(m) ==
    LET r == m.call
        accepted == \A s \in accounts : form[s].card # form[r].card
    IN /\ m.op = "account"
       /\ accounts' = IF accepted THEN accounts \cup {r} ELSE accounts
       /\ \/ Unheard(m)
          \/ /\ Waiting(m)
             /\ IF accepted THEN Finish(r, "success", wire \ {m})
                            ELSE Ask(r, "delete", 1, wire \ {m})
       /\ UNCHANGED <<form, users, opVars>>

\* Bug: the compensation deletes whoever has the number.
DeleteUser_ByNumber(m) ==
    /\ m.op = "delete"
    /\ users' = {s \in users : Number(s) # Number(m.call)}
    /\ \/ Unheard(m)
       \/ Waiting(m) /\ Finish(m.call, "undone", wire \ {m})
    /\ UNCHANGED <<form, accounts, opVars>>

\* delete_user: by user_id, and a user who is not there is deleted too.
DeleteUser(m) ==
    /\ m.op = "delete"
    /\ users' = users \ {m.call}
    /\ \/ Unheard(m)
       \/ Waiting(m) /\ Finish(m.call, "undone", wire \ {m})
    /\ UNCHANGED <<form, accounts, opVars>>

-----------------------------------------------------------------------------
(* purge_platform: the ledger, then the users whatever the ledger answered. *)

Purge ==
    /\ opPc = "idle" /\ purges < Purges
    /\ opPc' = "ledger" /\ opTold' = None /\ opDone' = {}
    /\ purges' = purges + 1
    /\ purging' = purging \cup {<<"ledger", purges + 1>>}
    /\ before' = ({"auth"} \X users) \cup ({"ledger"} \X accounts)
    /\ UNCHANGED <<callVars, form, users, accounts, wiped>>

\* Bug: the report of the last half is the report of the purge.
Proceed_LastHalf(done, travelling) ==
    /\ opDone' = done
    /\ IF opPc = "ledger"
       THEN /\ opPc' = "auth"
            /\ purging' = travelling \cup {<<"auth", purges>>}
            /\ UNCHANGED opTold
       ELSE /\ opPc' = "idle"
            /\ opTold' = IF "auth" \in done THEN "purged" ELSE "partial"
            /\ purging' = travelling

\* On to the other half, or to the report of both (207 if one is missing).
Proceed(done, travelling) ==
    /\ opDone' = done
    /\ IF opPc = "ledger"
       THEN /\ opPc' = "auth"
            /\ purging' = travelling \cup {<<"auth", purges>>}
            /\ UNCHANGED opTold
       ELSE /\ opPc' = "idle"
            /\ opTold' = IF done = Half THEN "purged" ELSE "partial"
            /\ purging' = travelling

\* purge, purge_users: the request of the n-th purge to the half h is served.
PurgeHalf(h, n) ==
    LET rows == IF h = "auth" THEN users ELSE accounts
        others == purging \ {<<h, n>>}
    IN /\ <<h, n>> \in purging
       /\ IF h = "auth" THEN users' = {} /\ UNCHANGED accounts
                        ELSE accounts' = {} /\ UNCHANGED users
       /\ wiped' = wiped \cup ({h} \X rows)
       /\ \/ /\ opPc = h /\ purges = n
             /\ Proceed(opDone \cup {h}, others)
          \/ purging' = others /\ UNCHANGED <<opPc, opTold, opDone>>
       /\ UNCHANGED <<callVars, form, purges, before>>

\* A half that is switched off (403), fails, or is not heard of.
PurgeUnheard ==
    /\ opPc # "idle"
    /\ Proceed(opDone, purging)
    /\ UNCHANGED <<callVars, form, users, accounts, purges, before, wiped>>

-----------------------------------------------------------------------------
Next ==
    \/ \E r \in Registration :
          \/ \E digits \in Spelling, card \in Card : Register(r, digits, card)
          \/ Timeout(r)
          \/ Crash(r)
    \/ \E m \in wire : CreateUser(m) \/ CreateAccount(m) \/ DeleteUser(m)
    \/ Purge \/ PurgeUnheard
    \/ \E h \in Half, n \in 1..Purges : PurgeHalf(h, n)

Spec == Init /\ [][Next]_vars

-----------------------------------------------------------------------------
TypeOK ==
    /\ pc \in [Registration -> Steps]
    /\ form \in [Registration -> [spelling : Spelling, card : Card] \cup {None}]
    /\ told \in [Registration -> Ends \cup {None}]
    /\ attempt \in [Registration -> 1..(DeleteRetries + 1)]
    /\ wire \subseteq [call : Registration, op : Steps \ {"idle", "done"},
                       try : 1..(DeleteRetries + 1)]
    /\ users \cup accounts \subseteq Registration
    /\ opPc \in Half \cup {"idle"} /\ opTold \in {None, "purged", "partial"}
    /\ opDone \subseteq Half /\ purges \in 0..Purges
    /\ purging \subseteq Half \X (1..Purges)
    /\ before \cup wiped \subseteq Half \X Registration

\* However a subscriber spells a number, and whatever calls, compensations and
\* purges race, auth-service has one user for it.
OneUserPerSubscriber ==
    \A r, s \in users :
        Subscriber[form[r].spelling] = Subscriber[form[s].spelling] => r = s

\* A customer told "success" has a user and an account until a purge takes
\* them: no late request of another call, no compensation, no loss undoes one.
\* He logs in, with any spelling of his number, as himself and nobody else, and
\* can be paid: the card resolves to the account, and every spelling of the
\* number does (if not only to that one).
SuccessHasBoth ==
    \A r \in Registration : told[r] = "success" =>
        /\ \/ <<"auth", r>> \in wiped
           \/ /\ Active(r)
              /\ \A digits \in Spelling :
                    Subscriber[digits] = Subscriber[form[r].spelling]
                        => Login(digits) = {r}
        /\ \/ <<"ledger", r>> \in wiped
           \/ /\ r \in accounts
              /\ Resolve(form[r].card) = {r}
              /\ \A digits \in Spelling :
                    Subscriber[digits] = Subscriber[form[r].spelling]
                        => r \in Resolve(digits)

\* A call that was refused, or compensated with an acknowledgement, leaves no
\* user behind to block the number: not by a late request either.
FailedLeavesNoUser ==
    \A r \in users : told[r] \notin {"refused", "undone"}

\* An operator told "purged" has lost, in both services, every row there was
\* when the purge was asked for.
PurgedLeavesNothing ==
    opTold = "purged" =>
        /\ ({"auth"} \X users) \cap before = {}
        /\ ({"ledger"} \X accounts) \cap before = {}

\* "All four are one subscriber and must resolve to one account" (msisdn.py).
SubscriberHasOneAccount ==
    \A digits, others \in Spelling : Subscriber[digits] = Subscriber[others] =>
        \A r \in Resolve(digits), s \in Resolve(others) : r = s
=============================================================================
