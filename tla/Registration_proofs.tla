------------------------- MODULE Registration_proofs -------------------------
(***************************************************************************)
(* Proofs about Registration, for any number of calls, cards, spellings,   *)
(* retries and purges.                                                     *)
(***************************************************************************)
EXTENDS Registration, TLAPS

\* Where a call is, and what that says of its rows.
Places ==
    \A r \in Registration :
        /\ told[r] # None <=> pc[r] = "done"
        /\ pc[r] # "idle" => form[r] \in [spelling : Spelling, card : Card]
        /\ r \in users => pc[r] # "idle" /\ IsMsisdn(form[r].spelling)
        /\ r \in accounts => pc[r] \notin {"idle", "user"} /\ IsMsisdn(form[r].spelling)

\* A request that still travels: creating is asked once, so that its row is not
\* there yet; nobody told "refused" or "undone" has a user to come, and nobody
\* who succeeded one to be deleted.
Travelling ==
    \A m \in wire :
        /\ m.op \in {"user", "account"} => m.try = 1
        /\ m.op = "user" =>
              /\ m.call \notin users
              /\ pc[m.call] = "user" \/ told[m.call] \in {"unavailable", "crashed"}
        /\ m.op = "account" =>
              /\ m.call \notin accounts
              /\ pc[m.call] \notin {"idle", "user"}
              /\ IsMsisdn(form[m.call].spelling)
        /\ m.op = "delete" =>
              pc[m.call] = "delete" \/ told[m.call] \in {"undone", "orphaned", "crashed"}

Outcomes ==
    \A r \in Registration :
        /\ pc[r] = "account" => r \in users \/ <<"auth", r>> \in wiped
        /\ told[r] = "success" => /\ r \in users \/ <<"auth", r>> \in wiped
                                  /\ r \in accounts \/ <<"ledger", r>> \in wiped
        /\ told[r] \in {"refused", "undone"} => r \notin users

Unique ==
    /\ \A r, s \in users : Number(r) = Number(s) => r = s
    /\ \A r, s \in accounts : form[r].card = form[s].card => r = s

\* What a purge has seen does not come back, and a half it heard of is empty
\* of it.
Purging ==
    /\ opPc # "idle" => purges \in 1..Purges /\ opTold = None
    /\ opTold = "purged" => opDone = Half
    /\ "auth" \in opDone => \A r \in users : <<"auth", r>> \notin before
    /\ "ledger" \in opDone => \A r \in accounts : <<"ledger", r>> \notin before
    /\ \A r \in Registration :
          /\ <<"auth", r>> \in before => pc[r] # "idle"
          /\ <<"ledger", r>> \in before => pc[r] \notin {"idle", "user"}
    /\ \A m \in wire :
          /\ m.op = "user" => <<"auth", m.call>> \notin before
          /\ m.op = "account" => <<"ledger", m.call>> \notin before

RegistrationInv == TypeOK /\ Places /\ Travelling /\ Outcomes /\ Unique /\ Purging

USE DEF Steps, Ends, Half

-----------------------------------------------------------------------------
LEMMA Constants ==
    /\ DeleteRetries \in Nat /\ Purges \in Nat
    /\ None \notin Ends \cup {"purged", "partial"}
BY ConstantsAssumption, SpellingAssumption DEF ConstantsAssumption

LEMMA InitInv == Init => RegistrationInv
<1> SUFFICES ASSUME Init PROVE RegistrationInv
  OBVIOUS
<1>1. TypeOK /\ Places /\ Travelling /\ Outcomes /\ Unique
  BY Constants DEF Init, TypeOK, Places, Travelling, Outcomes, Unique
<1>2. Purging
  BY Constants DEF Init, Purging
<1> QED
  BY <1>1, <1>2 DEF RegistrationInv

\* What asking and finishing do to the calls and to the wire.
LocalsTyped ==
    /\ pc \in [Registration -> Steps]
    /\ told \in [Registration -> Ends \cup {None}]
    /\ attempt \in [Registration -> 1..(DeleteRetries + 1)]
    /\ wire \subseteq [call : Registration, op : Steps \ {"idle", "done"},
                       try : 1..(DeleteRetries + 1)]

Moved(r, to, end) ==
    /\ pc'[r] = to /\ told'[r] = end
    /\ \A s \in Registration \ {r} : pc'[s] = pc[s] /\ told'[s] = told[s]

LEMMA AskStep ==
    ASSUME TypeOK, NEW r \in Registration, NEW op \in Steps \ {"idle", "done"},
           NEW n \in 1..(DeleteRetries + 1), NEW travelling,
           travelling \subseteq wire, Ask(r, op, n, travelling)
    PROVE  /\ LocalsTyped' /\ Moved(r, op, told[r])
           /\ wire' = travelling \cup {[call |-> r, op |-> op, try |-> n]}
BY DEF TypeOK, Ask, Request, LocalsTyped, Moved

LEMMA FinishStep ==
    ASSUME TypeOK, NEW r \in Registration, NEW end \in Ends, NEW travelling,
           travelling \subseteq wire, Finish(r, end, travelling)
    PROVE  LocalsTyped' /\ Moved(r, "done", end) /\ wire' = travelling
BY DEF TypeOK, Finish, LocalsTyped, Moved

-----------------------------------------------------------------------------
LEMMA RegisterStep ==
    ASSUME RegistrationInv, NEW r \in Registration, NEW digits \in Spelling,
           NEW card \in Card, Register(r, digits, card)
    PROVE  RegistrationInv'
<1> DEFINE m0 == [call |-> r, op |-> "user", try |-> 1]
<1>1. /\ TypeOK /\ Places /\ Travelling /\ Outcomes /\ Unique /\ Purging
      /\ pc[r] = "idle" /\ told[r] = None /\ r \notin users \cup accounts
  BY DEF RegistrationInv, Register, Places
<1>2. LocalsTyped' /\ Moved(r, "user", None) /\ wire' = wire \cup {m0}
  BY <1>1, Constants, AskStep DEF Register
<1>3. /\ form' = [form EXCEPT ![r] = [spelling |-> digits, card |-> card]]
      /\ form' \in [Registration -> [spelling : Spelling, card : Card] \cup {None}]
      /\ UNCHANGED <<users, accounts, opVars>>
  BY <1>1 DEF Register, TypeOK
<1>4. \A s \in Registration \ {r} :
          pc'[s] = pc[s] /\ told'[s] = told[s] /\ form'[s] = form[s]
  BY <1>1, <1>2, <1>3 DEF TypeOK, Moved
<1>5. /\ pc'[r] = "user" /\ told'[r] = None
      /\ form'[r] = [spelling |-> digits, card |-> card]
  BY <1>1, <1>2, <1>3 DEF TypeOK, Moved
<1>6. \A m \in wire : m.call \in Registration /\ (m.call = r => m.op \notin {"user", "account", "delete"})
  BY <1>1, Constants DEF TypeOK, Travelling
<1>7. TypeOK'
  BY <1>1, <1>2, <1>3 DEF TypeOK, LocalsTyped, opVars
<1>8. Places'
  BY <1>1, <1>2, <1>3, <1>4, <1>5, Constants DEF Places
<1>9. Travelling'
  <2> SUFFICES ASSUME NEW m \in wire'
               PROVE  /\ m.op \in {"user", "account"} => m.try = 1
                      /\ m.op = "user" =>
                            /\ m.call \notin users'
                            /\ pc'[m.call] = "user" \/ told'[m.call] \in {"unavailable", "crashed"}
                      /\ m.op = "account" =>
                            /\ m.call \notin accounts'
                            /\ pc'[m.call] \notin {"idle", "user"}
                            /\ IsMsisdn(form'[m.call].spelling)
                      /\ m.op = "delete" => pc'[m.call] = "delete"
                            \/ told'[m.call] \in {"undone", "orphaned", "crashed"}
    BY DEF Travelling
  <2>1. CASE m = m0
    BY <1>1, <1>3, <1>5, <2>1
  <2>2. CASE m \in wire
    BY <1>1, <1>2, <1>3, <1>4, <1>6, <2>2 DEF Travelling
  <2> QED
    BY <1>2, <2>1, <2>2
<1>10. Outcomes'
  BY <1>1, <1>2, <1>3, <1>4, <1>5 DEF Outcomes, opVars
<1>11. Unique'
  BY <1>1, <1>3, <1>4 DEF Unique, Number, TypeOK
<1>12. Purging'
  <2>1. \A s \in Registration : pc'[s] = pc[s] \/ s = r
    BY <1>4
  <2>2. <<"auth", r>> \notin before /\ <<"ledger", r>> \notin before
    BY <1>1 DEF Purging
  <2> QED
    BY <1>1, <1>2, <1>3, <1>4, <2>2 DEF Purging, opVars
<1> QED
  BY <1>7, <1>8, <1>9, <1>10, <1>11, <1>12 DEF RegistrationInv

\* How a call leaves a request nobody answered it, or dies.
GivesUp(r) ==
    /\ LocalsTyped'
    /\ \A m \in wire' : m \in wire \/ (m.call = r /\ m.op = "delete" /\ pc'[r] = "delete")
    /\ \A s \in Registration \ {r} : pc'[s] = pc[s] /\ told'[s] = told[s]
    /\ \/ pc[r] \in {"account", "delete"} /\ pc'[r] = "delete" /\ told'[r] = None
       \/ pc[r] = "user" /\ pc'[r] = "done" /\ told'[r] = "unavailable"
       \/ pc[r] = "delete" /\ pc'[r] = "done" /\ told'[r] = "orphaned"
       \/ pc'[r] = "done" /\ told'[r] = "crashed"

\* A call that moves on or ends without its services doing anything.
LEMMA GatewayStep ==
    ASSUME RegistrationInv, NEW r \in Registration, Timeout(r) \/ Crash(r)
    PROVE  RegistrationInv'
<1>1. /\ TypeOK /\ Places /\ Travelling /\ Outcomes /\ Unique /\ Purging
      /\ pc[r] \in {"user", "account", "delete"} /\ told[r] = None
      /\ UNCHANGED <<form, users, accounts, opVars>>
  BY DEF RegistrationInv, Timeout, Crash, Places, TypeOK
<1>2. \/ /\ pc[r] \in {"account", "delete"}
         /\ \E n \in 1..(DeleteRetries + 1) : Ask(r, "delete", n, wire)
      \/ pc[r] = "user" /\ Finish(r, "unavailable", wire)
      \/ pc[r] = "delete" /\ Finish(r, "orphaned", wire)
      \/ Finish(r, "crashed", wire)
  <2>1. CASE Crash(r)
    BY <2>1 DEF Crash
  <2>2. CASE Timeout(r)
    <3>1. attempt[r] \in 1..(DeleteRetries + 1)
      BY <1>1 DEF TypeOK
    <3>2. attempt[r] <= DeleteRetries => attempt[r] + 1 \in 1..(DeleteRetries + 1)
      BY <3>1, Constants
    <3>3. 1 \in 1..(DeleteRetries + 1)
      BY Constants
    <3> QED
      BY <2>2, <3>2, <3>3 DEF Timeout
  <2> QED
    BY <2>1, <2>2
<1>3. GivesUp(r)
  <2>1. ASSUME pc[r] \in {"account", "delete"}, NEW n \in 1..(DeleteRetries + 1),
               Ask(r, "delete", n, wire)
        PROVE  GivesUp(r)
    BY <1>1, <2>1, AskStep DEF Moved, GivesUp
  <2>2. ASSUME NEW end \in {"unavailable", "orphaned", "crashed"}, Finish(r, end, wire)
        PROVE  LocalsTyped' /\ Moved(r, "done", end) /\ wire' = wire
    BY <1>1, <2>2, FinishStep
  <2> QED
    BY <1>2, <2>1, <2>2 DEF Moved, GivesUp
<1>4. \A s \in Registration \ {r} : pc'[s] = pc[s] /\ told'[s] = told[s]
  BY <1>3 DEF GivesUp
<1>5. \/ pc[r] \in {"account", "delete"} /\ pc'[r] = "delete" /\ told'[r] = None
      \/ pc[r] = "user" /\ pc'[r] = "done" /\ told'[r] = "unavailable"
      \/ pc[r] = "delete" /\ pc'[r] = "done" /\ told'[r] = "orphaned"
      \/ pc'[r] = "done" /\ told'[r] = "crashed"
  BY <1>3 DEF GivesUp
<1>6. TypeOK'
  BY <1>1, <1>3 DEF TypeOK, LocalsTyped, opVars, GivesUp
<1>7. Places'
  BY <1>1, <1>4, <1>5, Constants DEF Places
<1>8. Travelling'
  <2> SUFFICES ASSUME NEW m \in wire'
               PROVE  /\ m.op \in {"user", "account"} => m.try = 1
                      /\ m.op = "user" =>
                            /\ m.call \notin users'
                            /\ pc'[m.call] = "user" \/ told'[m.call] \in {"unavailable", "crashed"}
                      /\ m.op = "account" =>
                            /\ m.call \notin accounts'
                            /\ pc'[m.call] \notin {"idle", "user"}
                            /\ IsMsisdn(form'[m.call].spelling)
                      /\ m.op = "delete" => pc'[m.call] = "delete"
                            \/ told'[m.call] \in {"undone", "orphaned", "crashed"}
    BY DEF Travelling
  <2>1. CASE m.call = r /\ m.op = "delete" /\ pc'[r] = "delete"
    BY <2>1
  <2>2. CASE m \in wire
    <3>1. m.call \in Registration
      BY <1>1, <2>2 DEF TypeOK
    <3>2. CASE m.call = r
      BY <1>1, <1>5, <2>2, <3>2, Constants DEF Travelling
    <3>3. CASE m.call # r
      BY <1>1, <1>4, <2>2, <3>1, <3>3 DEF Travelling
    <3> QED
      BY <3>2, <3>3
  <2> QED
    BY <1>3, <2>1, <2>2 DEF GivesUp
<1>9. Outcomes'
  BY <1>1, <1>4, <1>5, Constants DEF Outcomes, opVars
<1>10. Unique'
  BY <1>1 DEF Unique, Number
<1>11. Purging'
  <2>1. \A m \in wire' : m \in wire \/ m.op = "delete"
    BY <1>3 DEF GivesUp
  <2>2. \A s \in Registration : pc[s] \notin {"idle", "user"} => pc'[s] \notin {"idle", "user"}
    BY <1>4, <1>5
  <2>3. \A s \in Registration : pc[s] # "idle" => pc'[s] # "idle"
    BY <1>4, <1>5
  <2> QED
    BY <1>1, <2>1, <2>2, <2>3 DEF Purging, opVars
<1> QED
  BY <1>6, <1>7, <1>8, <1>9, <1>10, <1>11 DEF RegistrationInv

-----------------------------------------------------------------------------
LEMMA CreateUserStep ==
    ASSUME RegistrationInv, NEW m \in wire, CreateUser(m)
    PROVE  RegistrationInv'
<1> DEFINE r == m.call
           accepted == IsMsisdn(form[r].spelling) /\ \A s \in users : Number(s) # Number(r)
           next == [call |-> r, op |-> "account", try |-> 1]
<1>1. /\ TypeOK /\ Places /\ Travelling /\ Outcomes /\ Unique /\ Purging
      /\ m.op = "user" /\ r \in Registration
      /\ UNCHANGED <<form, accounts, opVars>>
      /\ users' = IF accepted THEN users \cup {r} ELSE users
  BY DEF RegistrationInv, CreateUser, TypeOK
<1>2. /\ r \notin users /\ pc[r] # "idle"
      /\ pc[r] = "user" \/ told[r] \in {"unavailable", "crashed"}
      /\ pc[r] = "user" => told[r] = None
  BY <1>1, Constants DEF Travelling, Places
<1>3. \A x \in wire : x.op = "user" /\ x.call = r => x = m
  BY <1>1 DEF Travelling, TypeOK
<1>4. /\ LocalsTyped'
      /\ \A s \in Registration \ {r} : pc'[s] = pc[s] /\ told'[s] = told[s]
      /\ \/ pc'[r] = pc[r] /\ told'[r] = told[r] /\ wire' = wire \ {m}
         \/ /\ accepted /\ pc[r] = "user" /\ pc'[r] = "account" /\ told'[r] = None
            /\ wire' = (wire \ {m}) \cup {next}
         \/ /\ ~ accepted /\ pc[r] = "user" /\ pc'[r] = "done" /\ told'[r] = "refused"
            /\ wire' = wire \ {m}
  <2>1. CASE Unheard(m)
    BY <1>1, <2>1 DEF Unheard, LocalsTyped, TypeOK
  <2>2. CASE Waiting(m) /\ accepted /\ Ask(r, "account", 1, wire \ {m})
    BY <1>1, <1>2, <2>2, AskStep, Constants DEF Waiting, Moved
  <2>3. CASE Waiting(m) /\ ~ accepted /\ Finish(r, "refused", wire \ {m})
    BY <1>1, <2>3, FinishStep DEF Waiting, Moved
  <2> QED
    BY <2>1, <2>2, <2>3 DEF CreateUser
<1> HIDE DEF accepted
<1>5. TypeOK'
  BY <1>1, <1>4 DEF TypeOK, LocalsTyped, opVars
<1>6. accepted => IsMsisdn(form[r].spelling) /\ \A s \in users : Number(s) # Number(r)
  BY DEF accepted
<1>7. Places'
  BY <1>1, <1>2, <1>4, <1>6, Constants DEF Places
<1>8. Travelling'
  <2> SUFFICES ASSUME NEW x \in wire'
               PROVE  /\ x.op \in {"user", "account"} => x.try = 1
                      /\ x.op = "user" =>
                            /\ x.call \notin users'
                            /\ pc'[x.call] = "user" \/ told'[x.call] \in {"unavailable", "crashed"}
                      /\ x.op = "account" =>
                            /\ x.call \notin accounts'
                            /\ pc'[x.call] \notin {"idle", "user"}
                            /\ IsMsisdn(form'[x.call].spelling)
                      /\ x.op = "delete" => pc'[x.call] = "delete"
                            \/ told'[x.call] \in {"undone", "orphaned", "crashed"}
    BY DEF Travelling
  <2>1. CASE x \in wire /\ x # m
    <3>1. x.call \in Registration
      BY <1>1, <2>1 DEF TypeOK
    <3>2. CASE x.call = r
      BY <1>1, <1>2, <1>3, <1>4, <2>1, <3>2, Constants DEF Travelling
    <3>3. CASE x.call # r
      BY <1>1, <1>4, <2>1, <3>1, <3>3 DEF Travelling
    <3> QED
      BY <3>2, <3>3
  <2>2. CASE x = next /\ accepted /\ pc[r] = "user" /\ pc'[r] = "account"
    BY <1>1, <1>6, <2>2 DEF Places
  <2> QED
    BY <1>4, <2>1, <2>2
<1>9. Outcomes'
  <2>1. \A s \in Registration \ {r} : s \in users' <=> s \in users
    BY <1>1
  <2> QED
    BY <1>1, <1>2, <1>4, <2>1, Constants DEF Outcomes, opVars
<1>10. Unique'
  BY <1>1, <1>6 DEF Unique, Number
<1>11. Purging'
  <2>1. <<"auth", r>> \notin before /\ (pc[r] = "user" => <<"ledger", r>> \notin before)
    BY <1>1 DEF Purging
  <2>2. \A x \in wire' : x \in wire \/ (x = next /\ pc[r] = "user")
    BY <1>4
  <2>3. \A s \in Registration : /\ pc[s] # "idle" => pc'[s] # "idle"
                                /\ pc[s] \notin {"idle", "user"} => pc'[s] \notin {"idle", "user"}
    BY <1>4
  <2> QED
    BY <1>1, <2>1, <2>2, <2>3 DEF Purging, opVars
<1> QED
  BY <1>5, <1>7, <1>8, <1>9, <1>10, <1>11 DEF RegistrationInv

LEMMA CreateAccountStep ==
    ASSUME RegistrationInv, NEW m \in wire, CreateAccount(m)
    PROVE  RegistrationInv'
<1> DEFINE r == m.call
           accepted == \A s \in accounts : form[s].card # form[r].card
           next == [call |-> r, op |-> "delete", try |-> 1]
<1>1. /\ TypeOK /\ Places /\ Travelling /\ Outcomes /\ Unique /\ Purging
      /\ m.op = "account" /\ r \in Registration
      /\ UNCHANGED <<form, users, opVars>>
      /\ accounts' = IF accepted THEN accounts \cup {r} ELSE accounts
  BY DEF RegistrationInv, CreateAccount, TypeOK
<1>2. /\ r \notin accounts /\ pc[r] \notin {"idle", "user"} /\ IsMsisdn(form[r].spelling)
      /\ pc[r] = "account" => told[r] = None
  BY <1>1, Constants DEF Travelling, Places
<1>3. \A x \in wire : x.op = "account" /\ x.call = r => x = m
  BY <1>1 DEF Travelling, TypeOK
<1>4. /\ LocalsTyped'
      /\ \A s \in Registration \ {r} : pc'[s] = pc[s] /\ told'[s] = told[s]
      /\ \/ pc'[r] = pc[r] /\ told'[r] = told[r] /\ wire' = wire \ {m}
         \/ /\ accepted /\ pc[r] = "account" /\ pc'[r] = "done" /\ told'[r] = "success"
            /\ wire' = wire \ {m}
         \/ /\ ~ accepted /\ pc[r] = "account" /\ pc'[r] = "delete" /\ told'[r] = None
            /\ wire' = (wire \ {m}) \cup {next}
  <2>1. CASE Unheard(m)
    BY <1>1, <2>1 DEF Unheard, LocalsTyped, TypeOK
  <2>2. CASE Waiting(m) /\ accepted /\ Finish(r, "success", wire \ {m})
    BY <1>1, <2>2, FinishStep DEF Waiting, Moved
  <2>3. CASE Waiting(m) /\ ~ accepted /\ Ask(r, "delete", 1, wire \ {m})
    BY <1>1, <1>2, <2>3, AskStep, Constants DEF Waiting, Moved
  <2> QED
    BY <2>1, <2>2, <2>3 DEF CreateAccount
<1> HIDE DEF accepted
<1>5. TypeOK'
  BY <1>1, <1>4 DEF TypeOK, LocalsTyped, opVars
<1>6. Places'
  BY <1>1, <1>2, <1>4, Constants DEF Places
<1>7. Travelling'
  <2> SUFFICES ASSUME NEW x \in wire'
               PROVE  /\ x.op \in {"user", "account"} => x.try = 1
                      /\ x.op = "user" =>
                            /\ x.call \notin users'
                            /\ pc'[x.call] = "user" \/ told'[x.call] \in {"unavailable", "crashed"}
                      /\ x.op = "account" =>
                            /\ x.call \notin accounts'
                            /\ pc'[x.call] \notin {"idle", "user"}
                            /\ IsMsisdn(form'[x.call].spelling)
                      /\ x.op = "delete" => pc'[x.call] = "delete"
                            \/ told'[x.call] \in {"undone", "orphaned", "crashed"}
    BY DEF Travelling
  <2>1. CASE x \in wire /\ x # m
    <3>1. x.call \in Registration
      BY <1>1, <2>1 DEF TypeOK
    <3>2. CASE x.call = r
      BY <1>1, <1>2, <1>3, <1>4, <2>1, <3>2, Constants DEF Travelling
    <3>3. CASE x.call # r
      BY <1>1, <1>4, <2>1, <3>1, <3>3 DEF Travelling
    <3> QED
      BY <3>2, <3>3
  <2>2. CASE x = next /\ pc'[r] = "delete"
    BY <2>2
  <2> QED
    BY <1>4, <2>1, <2>2
<1>8. Outcomes'
  <2>1. \A s \in Registration \ {r} : s \in accounts' <=> s \in accounts
    BY <1>1
  <2> QED
    BY <1>1, <1>2, <1>4, <2>1, Constants DEF Outcomes, opVars
<1>9. Unique'
  BY <1>1 DEF Unique, Number, accepted
<1>10. Purging'
  <2>1. <<"ledger", r>> \notin before
    BY <1>1 DEF Purging
  <2>2. \A x \in wire' : x \in wire \/ x.op = "delete"
    BY <1>4
  <2>3. \A s \in Registration : /\ pc[s] # "idle" => pc'[s] # "idle"
                                /\ pc[s] \notin {"idle", "user"} => pc'[s] \notin {"idle", "user"}
    BY <1>4
  <2> QED
    BY <1>1, <2>1, <2>2, <2>3 DEF Purging, opVars
<1> QED
  BY <1>5, <1>6, <1>7, <1>8, <1>9, <1>10 DEF RegistrationInv

LEMMA DeleteUserStep ==
    ASSUME RegistrationInv, NEW m \in wire, DeleteUser(m)
    PROVE  RegistrationInv'
<1> DEFINE r == m.call
<1>1. /\ TypeOK /\ Places /\ Travelling /\ Outcomes /\ Unique /\ Purging
      /\ m.op = "delete" /\ r \in Registration
      /\ UNCHANGED <<form, accounts, opVars>>
      /\ users' = users \ {r}
  BY DEF RegistrationInv, DeleteUser, TypeOK
<1>2. \/ pc[r] = "delete" /\ told[r] = None
      \/ pc[r] = "done" /\ told[r] \in {"undone", "orphaned", "crashed"}
  <2>1. pc[r] = "delete" \/ told[r] \in {"undone", "orphaned", "crashed"}
    BY <1>1 DEF Travelling
  <2>2. told[r] # None <=> pc[r] = "done"
    BY <1>1 DEF Places
  <2> QED
    BY <2>1, <2>2, Constants
<1>3. /\ LocalsTyped'
      /\ \A s \in Registration \ {r} : pc'[s] = pc[s] /\ told'[s] = told[s]
      /\ \/ pc'[r] = pc[r] /\ told'[r] = told[r]
         \/ pc[r] = "delete" /\ pc'[r] = "done" /\ told'[r] = "undone"
      /\ wire' = wire \ {m}
  <2>1. CASE Unheard(m)
    BY <1>1, <2>1 DEF Unheard, LocalsTyped, TypeOK
  <2>2. CASE Waiting(m) /\ Finish(r, "undone", wire \ {m})
    BY <1>1, <2>2, FinishStep DEF Waiting, Moved
  <2> QED
    BY <2>1, <2>2 DEF DeleteUser
<1>4. TypeOK'
  BY <1>1, <1>3 DEF TypeOK, LocalsTyped, opVars
<1>5. Places'
  BY <1>1, <1>2, <1>3, Constants DEF Places
<1>6. Travelling'
  <2> SUFFICES ASSUME NEW x \in wire'
               PROVE  /\ x.op \in {"user", "account"} => x.try = 1
                      /\ x.op = "user" =>
                            /\ x.call \notin users'
                            /\ pc'[x.call] = "user" \/ told'[x.call] \in {"unavailable", "crashed"}
                      /\ x.op = "account" =>
                            /\ x.call \notin accounts'
                            /\ pc'[x.call] \notin {"idle", "user"}
                            /\ IsMsisdn(form'[x.call].spelling)
                      /\ x.op = "delete" => pc'[x.call] = "delete"
                            \/ told'[x.call] \in {"undone", "orphaned", "crashed"}
    BY DEF Travelling
  <2>1. x \in wire /\ x.call \in Registration
    BY <1>1, <1>3 DEF TypeOK
  <2>2. CASE x.call = r
    BY <1>1, <1>2, <1>3, <2>1, <2>2, Constants DEF Travelling
  <2>3. CASE x.call # r
    BY <1>1, <1>3, <2>1, <2>3 DEF Travelling
  <2> QED
    BY <2>2, <2>3
<1>7. Outcomes'
  BY <1>1, <1>2, <1>3, Constants DEF Outcomes, opVars
<1>8. Unique'
  BY <1>1 DEF Unique, Number
<1>9. Purging'
  <2>1. \A s \in Registration : /\ pc[s] # "idle" => pc'[s] # "idle"
                                /\ pc[s] \notin {"idle", "user"} => pc'[s] \notin {"idle", "user"}
    BY <1>3
  <2> QED
    BY <1>1, <1>3, <2>1 DEF Purging, opVars
<1> QED
  BY <1>4, <1>5, <1>6, <1>7, <1>8, <1>9 DEF RegistrationInv

-----------------------------------------------------------------------------
\* What the operator hears of a half, at a moment when the rows of that half
\* are gone, or of none.
LEMMA ProceedStep ==
    ASSUME TypeOK, Purging, opPc # "idle", NEW done \in SUBSET Half, NEW left,
           left \subseteq purging, Proceed(done, left), UNCHANGED purges
    PROVE  /\ opDone' = done /\ opPc' \in Half \cup {"idle"}
           /\ opTold' \in {None, "purged", "partial"}
           /\ purging' \subseteq Half \X (1..Purges)
           /\ opPc' # "idle" => opTold' = None
           /\ opTold' = "purged" => done = Half
<1>1. purges \in 1..Purges /\ opTold = None
  BY DEF Purging
<1>2. <<"auth", purges>> \in Half \X (1..Purges)
  BY <1>1
<1> QED
  BY <1>1, <1>2, Constants DEF TypeOK, Proceed

LEMMA PurgeStep ==
    ASSUME RegistrationInv, Purge \/ PurgeUnheard
    PROVE  RegistrationInv'
<1>1. /\ TypeOK /\ Places /\ Travelling /\ Outcomes /\ Unique /\ Purging
      /\ UNCHANGED <<pc, told, attempt, wire, form, users, accounts, wiped>>
  BY DEF RegistrationInv, Purge, PurgeUnheard, callVars
<1>2. Places' /\ Travelling' /\ Outcomes' /\ Unique'
  BY <1>1 DEF Places, Travelling, Outcomes, Unique, Number
<1>3. CASE Purge
  <2>1. /\ purges < Purges /\ purges' = purges + 1 /\ opPc' = "ledger"
        /\ opTold' = None /\ opDone' = {}
        /\ before' = ({"auth"} \X users) \cup ({"ledger"} \X accounts)
        /\ purging' = purging \cup {<<"ledger", purges + 1>>}
    BY <1>3 DEF Purge
  <2>2. purges \in Nat /\ purges + 1 \in 1..Purges
    BY <1>1, <2>1, Constants DEF TypeOK
  <2>3. before' \subseteq Half \X Registration
    BY <1>1, <2>1 DEF TypeOK
  <2>4. TypeOK'
    BY <1>1, <2>1, <2>2, <2>3, Constants DEF TypeOK
  <2>5. \A r : /\ <<"auth", r>> \in before' <=> r \in users
               /\ <<"ledger", r>> \in before' <=> r \in accounts
    BY <2>1
  <2>6. Purging'
    <3>1. \A r \in Registration : /\ <<"auth", r>> \in before' => pc[r] # "idle"
                                  /\ <<"ledger", r>> \in before' => pc[r] \notin {"idle", "user"}
      BY <1>1, <2>5 DEF Places
    <3>2. \A m \in wire : /\ m.op = "user" => <<"auth", m.call>> \notin before'
                          /\ m.op = "account" => <<"ledger", m.call>> \notin before'
      BY <1>1, <2>5 DEF Travelling
    <3> QED
      BY <1>1, <2>1, <2>2, <3>1, <3>2, Constants DEF Purging
  <2> QED
    BY <1>2, <2>4, <2>6 DEF RegistrationInv
<1>4. CASE PurgeUnheard
  <2>1. /\ opPc # "idle" /\ Proceed(opDone, purging) /\ UNCHANGED <<purges, before>>
        /\ opDone \in SUBSET Half
    BY <1>1, <1>4 DEF PurgeUnheard, TypeOK
  <2>2. /\ opDone' = opDone /\ opPc' \in Half \cup {"idle"}
        /\ opTold' \in {None, "purged", "partial"}
        /\ purging' \subseteq Half \X (1..Purges)
        /\ opPc' # "idle" => opTold' = None
        /\ opTold' = "purged" => opDone = Half
    BY <1>1, <2>1, ProceedStep
  <2>3. TypeOK'
    BY <1>1, <2>1, <2>2 DEF TypeOK
  <2>4. Purging'
    BY <1>1, <2>1, <2>2 DEF Purging
  <2> QED
    BY <1>2, <2>3, <2>4 DEF RegistrationInv
<1> QED
  BY <1>3, <1>4

LEMMA PurgeHalfStep ==
    ASSUME RegistrationInv, NEW h \in Half, NEW n \in 1..Purges, PurgeHalf(h, n)
    PROVE  RegistrationInv'
<1> DEFINE rows == IF h = "auth" THEN users ELSE accounts
<1>1. /\ TypeOK /\ Places /\ Travelling /\ Outcomes /\ Unique /\ Purging
      /\ UNCHANGED <<pc, told, attempt, wire, form, purges, before>>
      /\ \/ h = "auth" /\ users' = {} /\ accounts' = accounts
         \/ h = "ledger" /\ accounts' = {} /\ users' = users
      /\ wiped' = wiped \cup ({h} \X rows)
  BY DEF RegistrationInv, PurgeHalf, callVars
<1>2. Places' /\ Travelling' /\ Unique'
  BY <1>1 DEF Places, Travelling, Unique, Number
<1>3. Outcomes'
  <2>1. \A r \in Registration : r \in users => r \in users' \/ <<"auth", r>> \in wiped'
    BY <1>1
  <2>2. \A r \in Registration : r \in accounts => r \in accounts' \/ <<"ledger", r>> \in wiped'
    BY <1>1
  <2>3. wiped \subseteq wiped' /\ users' \subseteq users
    BY <1>1
  <2> QED
    BY <1>1, <2>1, <2>2, <2>3 DEF Outcomes
<1>4. /\ opPc' \in Half \cup {"idle"} /\ opTold' \in {None, "purged", "partial"}
      /\ opDone' \in SUBSET Half /\ opDone' \subseteq opDone \cup {h}
      /\ purging' \subseteq Half \X (1..Purges)
      /\ opPc' # "idle" => purges \in 1..Purges /\ opTold' = None
      /\ opTold' = "purged" => opDone' = Half
  <2>1. CASE UNCHANGED <<opPc, opTold, opDone>> /\ purging' = purging \ {<<h, n>>}
    BY <1>1, <2>1 DEF TypeOK, Purging
  <2>2. CASE opPc = h /\ Proceed(opDone \cup {h}, purging \ {<<h, n>>})
    <3>1. opPc # "idle" /\ opDone \cup {h} \in SUBSET Half
      BY <1>1, <2>2 DEF TypeOK
    <3>2. purges \in 1..Purges
      BY <1>1, <3>1 DEF Purging
    <3> QED
      BY <1>1, <2>2, <3>1, <3>2, ProceedStep
  <2> QED
    BY <2>1, <2>2 DEF PurgeHalf
<1>5. TypeOK'
  <2>1. wiped' \subseteq Half \X Registration
    BY <1>1 DEF TypeOK
  <2> QED
    BY <1>1, <1>4, <2>1 DEF TypeOK
<1>6. Purging'
  BY <1>1, <1>4 DEF Purging
<1> QED
  BY <1>2, <1>3, <1>5, <1>6 DEF RegistrationInv

LEMMA RegistrationInvHolds == Spec => []RegistrationInv
<1>1. RegistrationInv /\ [Next]_vars => RegistrationInv'
  <2>1. RegistrationInv /\ Next => RegistrationInv'
    BY RegisterStep, GatewayStep, CreateUserStep, CreateAccountStep, DeleteUserStep,
       PurgeStep, PurgeHalfStep DEF Next
  <2>2. RegistrationInv /\ UNCHANGED vars => RegistrationInv'
    BY DEF RegistrationInv, TypeOK, Places, Travelling, Outcomes, Unique, Purging, Number,
       vars, callVars, opVars
  <2> QED
    BY <2>1, <2>2
<1> QED
  BY InitInv, <1>1, PTL DEF Spec

-----------------------------------------------------------------------------
\* Requests, answers, rows and reports stay of their types.
THEOREM TypeCorrect == Spec => []TypeOK
<1>1. RegistrationInv => TypeOK
  BY DEF RegistrationInv
<1> QED
  BY RegistrationInvHolds, <1>1, PTL

\* However many calls race with whatever spellings, auth-service never has two
\* users for one subscriber.
THEOREM OneUser == Spec => []OneUserPerSubscriber
<1>1. RegistrationInv => OneUserPerSubscriber
  <2> SUFFICES ASSUME RegistrationInv, NEW r \in users, NEW s \in users,
                      Subscriber[form[r].spelling] = Subscriber[form[s].spelling]
               PROVE  r = s
    BY DEF OneUserPerSubscriber
  <2>1. /\ IsMsisdn(form[r].spelling)
        /\ form[r].spelling \in Spelling /\ form[s].spelling \in Spelling
    BY DEF RegistrationInv, TypeOK, Places
  <2>2. Number(r) = Number(s)
    BY <2>1, SpellingAssumption DEF SpellingAssumption, Number
  <2> QED
    BY <2>2 DEF RegistrationInv, Unique
<1> QED
  BY RegistrationInvHolds, <1>1, PTL

\* A call told that it failed, and that its user is gone, has none, and no
\* request still on its way can give it one.
THEOREM FailureIsClean == Spec => []FailedLeavesNoUser
<1>1. RegistrationInv => FailedLeavesNoUser
  BY DEF RegistrationInv, TypeOK, Outcomes, FailedLeavesNoUser
<1> QED
  BY RegistrationInvHolds, <1>1, PTL

\* What was there when a purge was asked for is gone when it is reported done,
\* and no call that raced it brings a row of it back.
THEOREM PurgeIsComplete == Spec => []PurgedLeavesNothing
<1>1. RegistrationInv => PurgedLeavesNothing
  BY DEF RegistrationInv, Purging, PurgedLeavesNothing
<1> QED
  BY RegistrationInvHolds, <1>1, PTL

\* A customer told "success" can log in and be paid, with any spelling of the
\* number, until a purge: whatever other calls and compensations do.
THEOREM SuccessIsWhole == Spec => []SuccessHasBoth
<1>1. RegistrationInv => SuccessHasBoth
  <2> SUFFICES ASSUME RegistrationInv, NEW r \in Registration, told[r] = "success"
               PROVE  /\ \/ <<"auth", r>> \in wiped
                         \/ /\ Active(r)
                            /\ \A digits \in Spelling :
                                  Subscriber[digits] = Subscriber[form[r].spelling]
                                      => Login(digits) = {r}
                      /\ \/ <<"ledger", r>> \in wiped
                         \/ /\ r \in accounts
                            /\ Resolve(form[r].card) = {r}
                            /\ \A digits \in Spelling :
                                  Subscriber[digits] = Subscriber[form[r].spelling]
                                      => r \in Resolve(digits)
    BY DEF SuccessHasBoth
  <2>1. /\ r \in users \/ <<"auth", r>> \in wiped
        /\ r \in accounts \/ <<"ledger", r>> \in wiped
    BY DEF RegistrationInv, Outcomes
  <2>2. ASSUME NEW digits \in Spelling, r \in users \cup accounts,
               Subscriber[digits] = Subscriber[form[r].spelling]
        PROVE  /\ Normalise(digits) = Number(r)
               /\ IsMsisdn(digits)
    <3>1. IsMsisdn(form[r].spelling) /\ form[r].spelling \in Spelling
      BY <2>2 DEF RegistrationInv, Places
    <3>2. Normalise(form[r].spelling) = Normalise(digits)
      BY <2>2, <3>1, SpellingAssumption DEF SpellingAssumption
    <3> QED
      BY <3>1, <3>2 DEF IsMsisdn, Number
  <2>3. ASSUME r \in users
        PROVE  \A digits \in Spelling :
                  Subscriber[digits] = Subscriber[form[r].spelling] => Login(digits) = {r}
    BY <2>2, <2>3 DEF RegistrationInv, Unique, Login
  <2>4. ASSUME r \in accounts PROVE Resolve(form[r].card) = {r}
    BY <2>4 DEF RegistrationInv, Unique, Resolve
  <2>5. ASSUME r \in accounts, NEW digits \in Spelling,
               Subscriber[digits] = Subscriber[form[r].spelling]
        PROVE  r \in Resolve(digits)
    <3>1. \A s \in accounts : form[s].card \in Card
      BY DEF RegistrationInv, TypeOK, Places
    <3>2. \A s \in accounts : form[s].card # digits
      BY <2>5, <3>1, SpellingAssumption DEF SpellingAssumption
    <3> QED
      BY <2>2, <2>5, <3>2 DEF Resolve, Msisdn
  <2> QED
    BY <2>1, <2>3, <2>4, <2>5 DEF Active
<1> QED
  BY RegistrationInvHolds, <1>1, PTL
=============================================================================
