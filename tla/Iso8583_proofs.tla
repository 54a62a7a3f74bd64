--------------------------- MODULE Iso8583_proofs ----------------------------
(***************************************************************************)
(* Theorems about Iso8583 for any number of calls, heartbeats and drops.   *)
(***************************************************************************)
EXTENDS Iso8583, SequenceTheorems, TLAPS

Auth(c) == [op |-> "authorize", call |-> c]
Rev(c) == [op |-> "reverse", call |-> c]

Msg == [mti : {"0200", "0400", "0800"}, stan : Nat \ {0},
        call : Call \cup {None}, original : Nat]

Typed ==
    /\ TypeOK
    /\ toHost \in Seq(Msg)
    /\ \A i \in 1..Len(toHost) : toHost[i].mti = "0200" => toHost[i].call \in Call
    /\ toAce \subseteq [stan : Nat \ {0}, code : {"00", "05", "none"}]

\* One TCP stream: STANs grow along it, a message names an earlier one, and what
\* was answered has left it.
Stream ==
    /\ \A i \in 1..Len(toHost) : toHost[i].original < toHost[i].stan
    /\ \A i, j \in 1..Len(toHost) : i < j => toHost[i].stan < toHost[j].stan
    /\ \A i \in 1..Len(toHost), m \in toAce : m.stan < toHost[i].stan

\* A call is authorised by one request, which is taken before its reversal.
Ordered(c) ==
    \A i, j \in 1..Len(queue) :
        queue[i] = Auth(c) => /\ queue[j] = Auth(c) => i = j
                              /\ queue[j] = Rev(c) => i < j
Waiting(c) ==
    \A i \in 1..Len(queue) :
        /\ queue[i] = Auth(c) =>
              /\ ace \notin {Auth(c), Rev(c)}
              /\ adapter[c] # "idle" /\ holdStan[c] = 0
              /\ \A j \in 1..Len(toHost) : toHost[j].mti = "0200" => toHost[j].call # c
        /\ queue[i] = Rev(c) => adapter[c] \notin {"idle", "authorizing"}
                                /\ told[c] # "approved"
Queued == \A c \in Call : Ordered(c) /\ Waiting(c)

\* The one operation in progress is the only thing its STAN names.
Blocked ==
    ace # None =>
        /\ \A i \in 1..Len(toHost) :
              /\ toHost[i].stan = stan =>
                    toHost[i] = Message(IF ace.op = "authorize" THEN "0200" ELSE "0400",
                                        stan, ace.call, 0)
              /\ toHost[i].original < stan
        /\ \A c \in Call : holdStan[c] = stan => ace = Auth(c)
        /\ adapter[ace.call] # "idle" /\ told[ace.call] # "approved"
        /\ ace.op = "authorize" => holdStan[ace.call] \in {0, stan}
        /\ ace.op = "reverse" => adapter[ace.call] # "authorizing"

\* Each call has one 0200, before anything that undoes it.
Travelling ==
    \A c \in Call : \A i \in 1..Len(toHost) :
        /\ toHost[i].mti = "0200" /\ toHost[i].call = c =>
              /\ holdStan[c] = 0 /\ adapter[c] # "idle"
              /\ \A j \in 1..Len(toHost) : toHost[j].mti = "0200" /\ toHost[j].call = c => i = j
              /\ ace = Auth(c) => toHost[i].stan = stan
              /\ ace = Rev(c) => toHost[i].stan < stan
              /\ toHost[i].original = 0
        /\ toHost[i].mti = "0400" =>
              /\ toHost[i].call = c => adapter[c] \notin {"idle", "authorizing"}
                                       /\ told[c] # "approved"
              /\ told[c] = "approved" => toHost[i].original # holdStan[c]

\* What the adapter tells is settled at the switch.
Settled ==
    \A c \in Call :
        /\ told[c] # None <=> adapter[c] = "done"
        /\ adapter[c] = "idle" => holdStan[c] = 0
        /\ c \in hold => holdStan[c] > 0
        /\ adapter[c] = "compensating" => holdStan[c] > 0
        /\ c \in reversalSent => told[c] = "unknown"

\* An answer to the operation in progress tells what the switch holds.
Answers ==
    \A m \in toAce, c \in Call :
        m.stan = stan =>
            /\ ace = Auth(c) /\ adapter[c] = "authorizing" => (m.code = "00" <=> c \in hold)
            /\ ace = Rev(c) => c \notin hold

\* The properties, in terms of positions.
Unqueued(c) == \A i \in 1..Len(queue) : queue[i] # Auth(c)
Undoing(i, c) ==
    /\ toHost[i].mti = "0400"
    /\ \/ toHost[i].call = c
       \/ /\ toHost[i].original # 0
          /\ \/ holdStan[c] = toHost[i].original
             \/ \E k \in 1..Len(toHost) : toHost[k] = Message("0200", toHost[i].original, c, 0)
    /\ \A j \in i..Len(toHost) : toHost[j].mti = "0200" => toHost[j].call # c
Promised(c) ==
    /\ told[c] = "approved" => c \in hold
    /\ told[c] \in {"declined", "reversed"} => Undone(c) /\ Unqueued(c)
ReversalSent(c) ==
    drops = 0 /\ c \in reversalSent =>
        Unqueued(c) /\ (Undone(c) \/ \E i \in 1..Len(toHost) : Undoing(i, c))
Promises == \A c \in Call : Promised(c) /\ ReversalSent(c)

IsoInv == /\ Typed /\ Stream /\ Queued /\ Blocked /\ Travelling
          /\ Settled /\ Answers /\ Promises

-----------------------------------------------------------------------------
(* Sequences: what sending adds to one, and taking removes.                *)

LEMMA Sending ==
    ASSUME NEW S, NEW s \in Seq(S), NEW e \in S
    PROVE  /\ Append(s, e) \in Seq(S)
           /\ Len(Append(s, e)) = Len(s) + 1 /\ Len(s) \in Nat
           /\ \A i \in 1..(Len(s) + 1) :
                 Append(s, e)[i] = IF i = Len(s) + 1 THEN e ELSE s[i]
           /\ Range(Append(s, e)) = Range(s) \cup {e}
<1>1. /\ Append(s, e) \in Seq(S) /\ Len(s) \in Nat
      /\ Len(Append(s, e)) = Len(s) + 1
      /\ \A i \in 1..Len(s) : Append(s, e)[i] = s[i]
      /\ Append(s, e)[Len(s) + 1] = e
  BY AppendProperties, LenProperties
<1>2. Range(Append(s, e)) = {Append(s, e)[i] : i \in 1..(Len(s) + 1)}
      /\ Range(s) = {s[i] : i \in 1..Len(s)}
  BY <1>1, RangeEquality
<1> QED
  BY <1>1, <1>2

LEMMA Taking ==
    ASSUME NEW S, NEW s \in Seq(S), s # <<>>
    PROVE  /\ Head(s) = s[1] /\ Head(s) \in S
           /\ Tail(s) \in Seq(S)
           /\ Len(s) \in Nat \ {0} /\ Len(Tail(s)) = Len(s) - 1
           /\ \A i \in 1..(Len(s) - 1) : Tail(s)[i] = s[i + 1]
           /\ Range(s) = Range(Tail(s)) \cup {s[1]}
<1>1. /\ Head(s) = s[1] /\ Head(s) \in S
      /\ Tail(s) \in Seq(S)
      /\ Len(s) \in Nat \ {0} /\ Len(Tail(s)) = Len(s) - 1
      /\ \A i \in 1..(Len(s) - 1) : Tail(s)[i] = s[i + 1]
  BY HeadTailProperties, EmptySeq
<1>2. Range(Tail(s)) = {Tail(s)[i] : i \in 1..(Len(s) - 1)}
      /\ Range(s) = {s[i] : i \in 1..Len(s)}
  BY <1>1, RangeEquality
<1>3. Range(s) \subseteq Range(Tail(s)) \cup {s[1]}
  <2> SUFFICES ASSUME NEW i \in 1..Len(s) PROVE s[i] \in Range(Tail(s)) \cup {s[1]}
    BY <1>2
  <2>1. CASE i = 1
    BY <2>1
  <2>2. CASE i # 1
    <3>1. i - 1 \in 1..(Len(s) - 1) /\ Tail(s)[i - 1] = s[i]
      BY <1>1, <2>2
    <3> QED
      BY <1>2, <3>1
  <2> QED
    BY <2>1, <2>2
<1> QED
  BY <1>1, <1>2, <1>3

LEMMA InRange ==
    ASSUME NEW S, NEW s \in Seq(S), NEW x
    PROVE  x \in Range(s) <=> \E i \in 1..Len(s) : s[i] = x
BY RangeEquality

-----------------------------------------------------------------------------
LEMMA IsoInit == Init => IsoInv
<1> SUFFICES ASSUME Init PROVE IsoInv
  OBVIOUS
<1> USE ConstantsAssumption DEF Init
<1>1. /\ queue = <<>> /\ Len(queue) = 0 /\ queue \in Seq(Op)
      /\ toHost = <<>> /\ Len(toHost) = 0 /\ toHost \in Seq(Msg)
  BY EmptySeq
<1>2. Typed
  BY <1>1 DEF Typed, TypeOK
<1>3. Stream /\ Queued /\ Blocked /\ Travelling /\ Settled /\ Answers
  BY <1>1 DEF Stream, Queued, Ordered, Waiting, Blocked, Travelling, Settled, Answers
<1>4. Promises
  BY <1>1 DEF Promises, Promised, ReversalSent, Verdict
<1> QED
  BY <1>2, <1>3, <1>4 DEF IsoInv

\* The types, as the steps below use them.
LEMMA Fields ==
    ASSUME Typed
    PROVE  /\ adapter \in [Call -> {"idle", "authorizing", "undoing", "compensating", "done"}]
           /\ told \in [Call -> Verdict \cup {None}] /\ reversalSent \subseteq Call
           /\ queue \in Seq(Op) /\ Len(queue) \in Nat
           /\ \A i \in 1..Len(queue) : queue[i] \in Op
           /\ toHost \in Seq(Msg) /\ Len(toHost) \in Nat
           /\ \A i \in 1..Len(toHost) :
                 /\ toHost[i] \in Msg
                 /\ toHost[i].stan \in 1..counter
                 /\ toHost[i].mti = "0200" => toHost[i].call \in Call
           /\ ace \in Op \cup {None} /\ stan \in 0..counter /\ counter \in Nat \ {0}
           /\ ace = None <=> stan = 0
           /\ hold \subseteq Call /\ holdStan \in [Call -> 0..counter]
           /\ \A m \in toAce : m.stan \in 1..counter
           /\ None \notin {"approved", "declined", "unknown", "unavailable", "reversed"}
           /\ None \notin Call
BY ConstantsAssumption, LenProperties, ElementOfSeq DEF Typed, TypeOK, Verdict

-----------------------------------------------------------------------------
(* The adapter's own steps.                                                *)

LEMMA Operations ==
    \A c, d \in Call :
        /\ Auth(c) \in Op /\ Rev(c) \in Op
        /\ Auth(c).call = c /\ Auth(c).op = "authorize"
        /\ Rev(c).call = c /\ Rev(c).op = "reverse"
        /\ Auth(c) = Auth(d) <=> c = d
        /\ Rev(c) = Rev(d) <=> c = d
        /\ Auth(c) # Rev(d)
BY DEF Auth, Rev, Op

LEMMA AdapterAsks ==
    ASSUME IsoInv, NEW c \in Call, Authorize(c) \/ SoapTimeout(c) \/ Compensate(c)
    PROVE  IsoInv'
<1> USE ConstantsAssumption, Operations
<1>1. /\ Typed /\ Stream /\ Queued /\ Blocked /\ Travelling
      /\ Settled /\ Answers /\ Promises
  BY DEF IsoInv
<1>2. PICK o \in {Auth(c), Rev(c)}, step \in {"authorizing", "undoing", "compensating"} :
         /\ queue' = Append(queue, o)
         /\ adapter' = [adapter EXCEPT ![c] = step]
         /\ \/ /\ o = Auth(c) /\ adapter[c] = "idle" /\ step = "authorizing"
               /\ told' = told
            \/ /\ o = Rev(c) /\ adapter[c] = "authorizing" /\ step = "undoing"
               /\ told' = told
            \/ /\ o = Rev(c) /\ adapter[c] = "done" /\ step = "compensating"
               /\ told[c] = "approved" /\ told' = [told EXCEPT ![c] = None]
  BY DEF Authorize, SoapTimeout, Compensate, Become, Ask, Auth, Rev
<1>3. UNCHANGED <<reversalSent, ace, stan, counter, link, toHost, toAce, hold,
                  holdStan, drops, beats>>
  BY DEF Authorize, SoapTimeout, Compensate, gatewayVars, switchVars
<1>4. /\ queue' \in Seq(Op) /\ Len(queue) \in Nat
      /\ Len(queue') = Len(queue) + 1
      /\ \A i \in 1..(Len(queue) + 1) :
            queue'[i] = IF i = Len(queue) + 1 THEN o ELSE queue[i]
  BY <1>1, <1>2, Sending DEF Typed, TypeOK
<1>5. /\ adapter \in [Call -> {"idle", "authorizing", "undoing", "compensating", "done"}]
      /\ told \in [Call -> Verdict \cup {None}] /\ reversalSent \subseteq Call
      /\ ace \in Op \cup {None}
  BY <1>1 DEF Typed, TypeOK
<1>6. adapter[c] = "idle" =>
         /\ ace \notin {Auth(c), Rev(c)} /\ holdStan[c] = 0
         /\ \A i \in 1..Len(queue) : queue[i] \notin {Auth(c), Rev(c)}
         /\ \A i \in 1..Len(toHost) : toHost[i].mti = "0200" => toHost[i].call # c
  BY <1>1, <1>5 DEF Queued, Waiting, Blocked, Travelling, Settled
<1>7. /\ c \notin reversalSent \/ told[c] = "unknown"
      /\ adapter[c] # "done" => told[c] = None
      /\ None \notin {"approved", "declined", "unknown", "unavailable", "reversed"}
  BY <1>1 DEF Settled, Verdict
<1>8. Typed'
  <2>1. /\ adapter' \in [Call -> {"idle", "authorizing", "undoing", "compensating", "done"}]
        /\ told' \in [Call -> Verdict \cup {None}]
    BY <1>2, <1>5
  <2> QED
    BY <1>1, <1>3, <1>4, <2>1 DEF Typed, TypeOK
<1>9. Stream'
  BY <1>1, <1>3 DEF Stream
<1>10. Queued'
  <2> SUFFICES ASSUME NEW d \in Call PROVE Ordered(d)' /\ Waiting(d)'
    BY DEF Queued
  <2>1. Ordered(d) /\ Waiting(d)
    BY <1>1 DEF Queued
  <2>2. Ordered(d)'
    BY <1>2, <1>4, <1>6, <2>1 DEF Ordered
  <2>3. Waiting(d)'
    BY <1>2, <1>3, <1>4, <1>5, <1>6, <1>7, <2>1 DEF Waiting
  <2> QED
    BY <2>2, <2>3
<1>11. Blocked'
  BY <1>1, <1>2, <1>3, <1>5 DEF Blocked, Op
<1>12. Travelling'
  BY <1>1, <1>2, <1>3, <1>5 DEF Travelling
<1>13. Answers'
  BY <1>1, <1>2, <1>3, <1>5, <1>6 DEF Answers
<1>14. Settled'
  BY <1>1, <1>2, <1>3, <1>5, <1>7 DEF Settled, Promises, Promised
<1>15. Promises'
  <2> SUFFICES ASSUME NEW d \in Call PROVE Promised(d)' /\ ReversalSent(d)'
    BY DEF Promises
  <2>1. Promised(d) /\ ReversalSent(d) /\ (adapter[d] = "idle" => told[d] = None)
    BY <1>1 DEF Promises, Settled
  <2>2. Undone(d)' <=> Undone(d)
    BY <1>3 DEF Undone
  <2>3. told'[d] \in {"declined", "reversed"} => (Unqueued(d)' <=> Unqueued(d))
    BY <1>2, <1>4, <1>5, <1>7, <2>1 DEF Unqueued
  <2>4. Promised(d)'
    BY <1>2, <1>3, <1>5, <1>7, <2>1, <2>2, <2>3 DEF Promised
  <2>5. d \in reversalSent => (Unqueued(d)' <=> Unqueued(d))
    BY <1>2, <1>4, <1>5, <1>7 DEF Unqueued
  <2>6. \A i \in 1..Len(toHost) : Undoing(i, d)' <=> Undoing(i, d)
    BY <1>3 DEF Undoing
  <2>7. ReversalSent(d)'
    BY <1>3, <2>1, <2>2, <2>5, <2>6 DEF ReversalSent
  <2> QED
    BY <2>4, <2>7
<1> QED
  BY <1>8, <1>9, <1>10, <1>11, <1>12, <1>13, <1>14, <1>15 DEF IsoInv

LEMMA AdapterGivesUp ==
    ASSUME IsoInv, NEW c \in Call, ReverseTimeout(c)
    PROVE  IsoInv'
<1> USE ConstantsAssumption
<1>1. /\ Typed /\ Stream /\ Queued /\ Blocked /\ Travelling
      /\ Settled /\ Answers /\ Promises
  BY DEF IsoInv
<1>2. /\ adapter[c] \in {"undoing", "compensating"}
      /\ adapter' = [adapter EXCEPT ![c] = "done"]
      /\ told' = [told EXCEPT ![c] = "unknown"]
      /\ UNCHANGED <<reversalSent, queue, ace, stan, counter, link, toHost, toAce, hold,
                     holdStan, drops, beats>>
  BY DEF ReverseTimeout, Tell, Become, gatewayVars, switchVars
<1>3. /\ adapter \in [Call -> {"idle", "authorizing", "undoing", "compensating", "done"}]
      /\ told \in [Call -> Verdict \cup {None}]
      /\ ace \in Op \cup {None}
  BY <1>1 DEF Typed, TypeOK
<1> USE <1>1, <1>2, <1>3
<1>4. Typed' /\ Stream'
  BY DEF Typed, TypeOK, Stream, Verdict
<1>5. Blocked' /\ Settled'
  BY DEF Blocked, Settled, Op, Verdict
<1>6. Queued' /\ Travelling' /\ Answers'
  BY DEF Queued, Ordered, Waiting, Travelling, Answers
<1>7. Promises'
  BY DEF Promises, Promised, ReversalSent, Undone, Unqueued, Undoing
<1> QED
  BY <1>4, <1>5, <1>6, <1>7 DEF IsoInv

-----------------------------------------------------------------------------
(* The gateway's steps that nobody is told of.                             *)

\* What a message on its way will undo, it still will behind a message that
\* authorises nothing.
LEMMA StillUndoing ==
    ASSUME Typed, NEW m \in Msg, toHost' = Append(toHost, m),
           NEW d \in Call, m.mti = "0200" => m.call # d, holdStan'[d] = holdStan[d],
           NEW i \in 1..Len(toHost), Undoing(i, d)
    PROVE  i \in 1..Len(toHost') /\ Undoing(i, d)'
<1>1. /\ Len(toHost) \in Nat /\ Len(toHost') = Len(toHost) + 1
      /\ \A k \in 1..(Len(toHost) + 1) :
            toHost'[k] = IF k = Len(toHost) + 1 THEN m ELSE toHost[k]
  <2>1. toHost \in Seq(Msg)
    BY Fields
  <2> QED
    BY <2>1, Sending
<1>2. toHost'[i] = toHost[i]
  BY <1>1
<1>3. \A k \in 1..Len(toHost) : k \in 1..Len(toHost') /\ toHost'[k] = toHost[k]
  BY <1>1
<1>4. (\E k \in 1..Len(toHost) : toHost[k] = Message("0200", toHost[i].original, d, 0))
      => \E k \in 1..Len(toHost') : toHost'[k] = Message("0200", toHost[i].original, d, 0)
  BY <1>3
<1>5. ASSUME NEW j \in i..Len(toHost'), toHost'[j].mti = "0200"
      PROVE  toHost'[j].call # d
  <2>1. CASE j = Len(toHost) + 1
    BY <1>1, <1>5, <2>1
  <2>2. CASE j # Len(toHost) + 1
    <3>1. j \in i..Len(toHost) /\ j \in 1..Len(toHost) /\ toHost'[j] = toHost[j]
      BY <1>1, <2>2
    <3> QED
      BY <1>5, <3>1 DEF Undoing
  <2> QED
    BY <2>1, <2>2
<1>6. toHost[i].mti = "0400"
      /\ \/ toHost[i].call = d
         \/ /\ toHost[i].original # 0
            /\ \/ holdStan[d] = toHost[i].original
               \/ \E k \in 1..Len(toHost) : toHost[k] = Message("0200", toHost[i].original, d, 0)
  BY DEF Undoing
<1> QED
  BY <1>2, <1>3, <1>4, <1>5, <1>6 DEF Undoing

\* A heartbeat or a sign-on: a message about no call.
LEMMA NetworkMessage ==
    ASSUME IsoInv, Heartbeat \/ Connect
    PROVE  IsoInv'
<1>1. /\ Typed /\ Stream /\ Queued /\ Blocked /\ Travelling
      /\ Settled /\ Answers /\ Promises
  BY DEF IsoInv
<1> DEFINE m == Message("0800", counter + 1, None, 0)
<1>2. /\ toHost' = Append(toHost, m) /\ counter' = counter + 1
      /\ UNCHANGED <<adapter, told, reversalSent, queue, ace, stan, toAce, hold, holdStan, drops>>
      /\ beats' \in 0..MaxEvents /\ link' = TRUE
  BY <1>1, ConstantsAssumption
     DEF Heartbeat, Connect, Send, adapterVars, gatewayVars, switchVars, Typed, TypeOK
<1>3. /\ m \in Msg /\ m.mti = "0800" /\ m.call = None /\ m.original = 0
      /\ m.stan = counter + 1
  BY <1>1, Fields DEF Message, Msg
<1> HIDE DEF m
<1>4. /\ toHost' \in Seq(Msg) /\ Len(toHost') = Len(toHost) + 1
      /\ \A i \in 1..(Len(toHost) + 1) :
            toHost'[i] = IF i = Len(toHost) + 1 THEN m ELSE toHost[i]
  BY <1>1, <1>2, <1>3, Fields, Sending
<1> USE <1>1, <1>2, <1>3, <1>4, Fields
<1>5. Typed'
  BY SMTT(40) DEF Typed, TypeOK
<1>6. Stream'
  BY SMTT(40) DEF Stream
<1>7. Queued'
  BY DEF Queued, Ordered, Waiting
<1>8. Blocked'
  BY DEF Blocked, Message
<1>9. Travelling'
  BY DEF Travelling
<1>10. Settled' /\ Answers'
  BY DEF Settled, Answers
<1>11. Promises'
  <2> SUFFICES ASSUME NEW d \in Call PROVE Promised(d)' /\ ReversalSent(d)'
    BY DEF Promises
  <2>1. Promised(d) /\ ReversalSent(d)
    BY DEF Promises
  <2>2. (Undone(d)' <=> Undone(d)) /\ (Unqueued(d)' <=> Unqueued(d))
    BY DEF Undone, Unqueued
  <2>3. \A i \in 1..Len(toHost) :
           Undoing(i, d) => i \in 1..Len(toHost') /\ Undoing(i, d)'
    BY StillUndoing
  <2> QED
    BY <2>1, <2>2, <2>3 DEF Promised, ReversalSent
<1> QED
  BY <1>5, <1>6, <1>7, <1>8, <1>9, <1>10, <1>11 DEF IsoInv

LEMMA Abandoned == ASSUME IsoInv, Abandon PROVE IsoInv'
<1>1. /\ Typed /\ Stream /\ Queued /\ Blocked /\ Travelling
      /\ Settled /\ Answers /\ Promises
  BY DEF IsoInv
<1>2. UNCHANGED <<adapter, told, reversalSent, ace, stan, counter, link, toHost, toAce,
                  hold, holdStan, drops, beats>>
  BY DEF Abandon, adapterVars, gatewayVars, switchVars
<1>3. /\ queue' \in Seq(Op) /\ Len(queue') = Len(queue) - 1
      /\ \A i \in 1..(Len(queue) - 1) : queue'[i] = queue[i + 1]
  BY <1>1, Fields, Taking DEF Abandon
<1> USE <1>1, <1>2, <1>3, Fields
<1>4. Typed'
  BY DEF Typed, TypeOK
<1>5. Stream' /\ Blocked' /\ Travelling' /\ Settled' /\ Answers'
  <2>1. Stream'
    BY DEF Stream
  <2>2. Blocked'
    BY DEF Blocked
  <2>3. Travelling'
    BY DEF Travelling
  <2>4. Settled'
    BY DEF Settled
  <2>5. Answers'
    BY DEF Answers
  <2> QED
    BY <2>1, <2>2, <2>3, <2>4, <2>5
<1>6. Queued'
  <2> SUFFICES ASSUME NEW d \in Call PROVE Ordered(d)' /\ Waiting(d)'
    BY DEF Queued
  <2>1. Ordered(d) /\ Waiting(d)
    BY DEF Queued
  <2>2. Ordered(d)'
    BY <2>1 DEF Ordered
  <2>3. Waiting(d)'
    BY <2>1 DEF Waiting
  <2> QED
    BY <2>2, <2>3
<1>7. Promises'
  <2> SUFFICES ASSUME NEW d \in Call PROVE Promised(d)' /\ ReversalSent(d)'
    BY DEF Promises
  <2>1. Promised(d) /\ ReversalSent(d)
    BY DEF Promises
  <2>2. Undone(d)' <=> Undone(d)
    BY DEF Undone
  <2>3. Unqueued(d) => Unqueued(d)'
    BY DEF Unqueued
  <2>4. \A i \in 1..Len(toHost) : Undoing(i, d)' <=> Undoing(i, d)
    BY DEF Undoing
  <2>5. Promised(d)'
    BY <2>1, <2>2, <2>3 DEF Promised
  <2>6. ReversalSent(d)'
    BY <2>1, <2>2, <2>3, <2>4 DEF ReversalSent
  <2> QED
    BY <2>5, <2>6
<1> QED
  BY <1>4, <1>5, <1>6, <1>7 DEF IsoInv

LEMMA Dropped == ASSUME IsoInv, Drop PROVE IsoInv'
<1>1. /\ Typed /\ Stream /\ Queued /\ Blocked /\ Travelling
      /\ Settled /\ Answers /\ Promises
  BY DEF IsoInv
<1>2. /\ UNCHANGED <<adapter, told, reversalSent, queue, ace, stan, counter, hold, holdStan>>
      /\ toHost' = <<>> /\ toAce' = {}
      /\ drops' \in 1..MaxEvents /\ beats' = beats
  <2>1. drops \in Nat /\ beats \in Nat /\ drops + beats < MaxEvents /\ drops' = drops + 1
    BY <1>1 DEF Drop, Typed, TypeOK
  <2> QED
    BY <2>1, ConstantsAssumption DEF Drop, adapterVars, gatewayVars, switchVars
<1>8. link' \in BOOLEAN
  BY DEF Drop
<1>3. toHost' \in Seq(Msg) /\ Len(toHost') = 0
  BY <1>2, EmptySeq
<1> USE <1>1, <1>2, <1>8, <1>3, Fields
<1>4. Typed'
  <2>1. /\ \A i \in 1..Len(toHost') : FALSE
        /\ \A m \in toAce' : FALSE
        /\ drops' \in 0..MaxEvents
    BY ConstantsAssumption
  <2>2. TypeOK'
    BY <2>1 DEF Typed, TypeOK
  <2> QED
    BY <2>1, <2>2 DEF Typed
<1>5. Stream' /\ Travelling' /\ Settled' /\ Answers'
  <2>1. Stream' /\ Travelling'
    BY DEF Stream, Travelling
  <2>2. Settled'
    BY DEF Settled
  <2>3. Answers'
    BY DEF Answers
  <2> QED
    BY <2>1, <2>2, <2>3
<1>6. Queued' /\ Blocked'
  <2>1. Queued'
    BY DEF Queued, Ordered, Waiting
  <2>2. Blocked'
    BY DEF Blocked
  <2> QED
    BY <2>1, <2>2
<1>7. Promises'
  BY DEF Promises, Promised, ReversalSent, Undone, Unqueued
<1> QED
  BY <1>4, <1>5, <1>6, <1>7 DEF IsoInv

-----------------------------------------------------------------------------
(* An operation that ends without an answer.                               *)

\* The adapter is told of nothing that anybody relies on, but, on a timeout,
\* that a reversal was sent for the authorisation it is waiting for.
LEMMA NoVerdict ==
    ASSUME IsoInv, NEW o \in Op, HearDown(o) \/ HearTimeout(o)
    PROVE  /\ adapter' \in [Call -> {"idle", "authorizing", "undoing", "compensating", "done"}]
           /\ told' \in [Call -> Verdict \cup {None}] /\ reversalSent' \subseteq Call
           /\ HearDown(o) => reversalSent' = reversalSent
           /\ \A d \in Call :
                 \/ /\ adapter'[d] = adapter[d] /\ told'[d] = told[d]
                    /\ d \in reversalSent' => d \in reversalSent
                 \/ /\ d = o.call /\ adapter[d] \in {"authorizing", "undoing", "compensating"}
                    /\ adapter'[d] = "done" /\ told'[d] \in {"unknown", "unavailable"}
                    /\ d \notin reversalSent
                    /\ d \in reversalSent' => o = Auth(d) /\ told'[d] = "unknown"
<1>1. Typed /\ Settled
  BY DEF IsoInv
<1>2. PICK c \in Call : o.call = c /\ o \in {Auth(c), Rev(c)}
  BY DEF Op, Auth, Rev
<1>3. o = Rev(c) => o.op # "authorize"
  BY DEF Rev
<1>4. \A d \in reversalSent : adapter[d] = "done"
  BY <1>1, Fields DEF Settled
<1>5. CASE UNCHANGED adapterVars /\ (HearDown(o) => reversalSent' = reversalSent)
  BY <1>1, <1>5, Fields DEF adapterVars
<1>6. ASSUME NEW v \in {"unknown", "unavailable"}, Listening(o), Tell(c, v),
             HearDown(o) => reversalSent' = reversalSent,
             \/ reversalSent' = reversalSent
             \/ reversalSent' = reversalSent \cup {c} /\ o.op = "authorize" /\ v = "unknown"
      PROVE  /\ adapter' \in [Call -> {"idle", "authorizing", "undoing", "compensating", "done"}]
             /\ told' \in [Call -> Verdict \cup {None}] /\ reversalSent' \subseteq Call
             /\ \A d \in Call :
                   \/ /\ adapter'[d] = adapter[d] /\ told'[d] = told[d]
                      /\ d \in reversalSent' => d \in reversalSent
                   \/ /\ d = o.call /\ adapter[d] \in {"authorizing", "undoing", "compensating"}
                      /\ adapter'[d] = "done" /\ told'[d] \in {"unknown", "unavailable"}
                      /\ d \notin reversalSent
                      /\ d \in reversalSent' => o = Auth(d) /\ told'[d] = "unknown"
  <2>1. adapter[c] \in {"authorizing", "undoing", "compensating"} /\ c \notin reversalSent
    BY <1>2, <1>4, <1>6 DEF Listening
  <2>2. adapter' = [adapter EXCEPT ![c] = "done"] /\ told' = [told EXCEPT ![c] = v]
    BY <1>6 DEF Tell, Become
  <2> QED
    BY <1>1, <1>2, <1>3, <1>6, <2>1, <2>2, Fields DEF Verdict
<1>7. \/ UNCHANGED adapterVars /\ (HearDown(o) => reversalSent' = reversalSent)
      \/ \E v \in {"unknown", "unavailable"} :
            /\ Listening(o) /\ Tell(c, v)
            /\ HearDown(o) => reversalSent' = reversalSent
            /\ \/ reversalSent' = reversalSent
               \/ reversalSent' = reversalSent \cup {c} /\ o.op = "authorize" /\ v = "unknown"
  <2>1. CASE Unheard(o)
    BY <2>1 DEF Unheard, adapterVars
  <2>2. CASE ~Unheard(o)
    BY <1>2, <2>2 DEF HearDown, HearTimeout
  <2> QED
    BY <2>1, <2>2
<1> QED
  BY <1>5, <1>6, <1>7

LEMMA NoVerdictSettles ==
    ASSUME IsoInv, NEW o \in Op, HearDown(o) \/ HearTimeout(o), UNCHANGED <<hold, holdStan>>
    PROVE  Settled'
<1>1. Typed /\ Settled
  BY DEF IsoInv
<1>2. None \notin {"unknown", "unavailable"}
  BY <1>1, Fields
<1> QED
  BY <1>1, <1>2, NoVerdict DEF Settled

LEMMA TimedOut == ASSUME IsoInv, Timeout PROVE IsoInv'
<1>1. /\ Typed /\ Stream /\ Queued /\ Blocked /\ Travelling
      /\ Settled /\ Answers /\ Promises
  BY DEF IsoInv
<1>2. /\ ace \in Op /\ stan \in 1..counter
      /\ HearDown(ace) \/ HearTimeout(ace)
      /\ ace' = None /\ stan' = 0
      /\ UNCHANGED <<queue, link, toAce, hold, holdStan, drops, beats>>
  BY <1>1, Fields DEF Timeout, Unblock, switchVars
<1>3. Settled'
  BY <1>2, NoVerdictSettles
<1>4. /\ adapter' \in [Call -> {"idle", "authorizing", "undoing", "compensating", "done"}]
      /\ told' \in [Call -> Verdict \cup {None}] /\ reversalSent' \subseteq Call
      /\ \A d \in Call :
            \/ /\ adapter'[d] = adapter[d] /\ told'[d] = told[d]
               /\ d \in reversalSent' => d \in reversalSent
            \/ /\ d = ace.call /\ adapter[d] \in {"authorizing", "undoing", "compensating"}
               /\ adapter'[d] = "done" /\ told'[d] \in {"unknown", "unavailable"}
               /\ d \notin reversalSent
               /\ d \in reversalSent' => ace = Auth(d) /\ told'[d] = "unknown"
  BY <1>2, NoVerdict
<1> DEFINE m == Message("0400", counter + 1, None, stan)
<1>5. \/ /\ toHost' = toHost /\ counter' = counter /\ reversalSent' = reversalSent
      \/ toHost' = Append(toHost, m) /\ counter' = counter + 1
  <2>1. CASE link /\ Send("0400", None, stan)
    BY <2>1 DEF Send
  <2>2. CASE HearDown(ace) /\ UNCHANGED <<counter, toHost>>
    BY <1>2, <2>2, NoVerdict
  <2> QED
    BY <2>1, <2>2 DEF Timeout
<1>6. /\ m \in Msg /\ m.mti = "0400" /\ m.call = None /\ m.original = stan
      /\ m.stan = counter + 1
  BY <1>1, <1>2, Fields DEF Message, Msg
<1> HIDE DEF m
<1>7. toHost \in Seq(Msg)
  BY <1>1, Fields
<1>8. /\ toHost' \in Seq(Msg) /\ Len(toHost) \in Nat /\ Len(toHost') \in Nat
      /\ \A i \in 1..Len(toHost') : \/ i \in 1..Len(toHost) /\ toHost'[i] = toHost[i]
                                    \/ /\ i = Len(toHost) + 1 /\ toHost'[i] = m
                                       /\ counter' = counter + 1
      /\ \A i \in 1..Len(toHost) : i \in 1..Len(toHost') /\ toHost'[i] = toHost[i]
  <2>1. CASE toHost' = toHost
    BY <1>7, <2>1, LenProperties
  <2>2. CASE toHost' = Append(toHost, m) /\ counter' = counter + 1
    <3>1. /\ toHost' \in Seq(Msg) /\ Len(toHost) \in Nat /\ Len(toHost') = Len(toHost) + 1
          /\ \A i \in 1..(Len(toHost) + 1) :
                toHost'[i] = IF i = Len(toHost) + 1 THEN m ELSE toHost[i]
      BY <1>6, <1>7, <2>2, Sending
    <3> QED
      BY <2>2, <3>1
  <2> QED
    BY <1>5, <2>1, <2>2
<1>17. /\ counter \in Nat \ {0} /\ counter' \in Nat \ {0} /\ counter <= counter'
       /\ \A i \in 1..Len(toHost) : toHost[i].stan \in 1..counter
       /\ \A i \in 1..Len(toHost) : toHost[i].mti = "0200" => toHost[i].call \in Call
       /\ \A a \in toAce : a.stan \in 1..counter
       /\ holdStan \in [Call -> 0..counter] /\ None \notin Call /\ None \notin Op
  <2>1. /\ counter \in Nat \ {0}
        /\ \A i \in 1..Len(toHost) : toHost[i].stan \in 1..counter
        /\ \A i \in 1..Len(toHost) : toHost[i].mti = "0200" => toHost[i].call \in Call
        /\ \A a \in toAce : a.stan \in 1..counter
        /\ holdStan \in [Call -> 0..counter] /\ None \notin Call /\ None \notin Op
    BY <1>1, ConstantsAssumption DEF Typed, TypeOK
  <2>2. counter' \in Nat \ {0} /\ counter <= counter'
    BY <1>5, <2>1
  <2> QED
    BY <2>1, <2>2
<1>9. Typed'
  <2>1. /\ \A i \in 1..Len(toHost') : toHost'[i].stan \in 1..counter'
        /\ \A i \in 1..Len(toHost') : toHost'[i].mti = "0200" => toHost'[i].call \in Call
    <3> SUFFICES ASSUME NEW i \in 1..Len(toHost')
                 PROVE  /\ toHost'[i].stan \in 1..counter'
                        /\ toHost'[i].mti = "0200" => toHost'[i].call \in Call
      OBVIOUS
    <3>1. CASE i \in 1..Len(toHost) /\ toHost'[i] = toHost[i]
      BY <1>17, <3>1
    <3>2. CASE toHost'[i] = m /\ counter' = counter + 1
      BY <1>6, <1>17, <3>2
    <3> QED
      BY <1>8, <3>1, <3>2
  <2>2. (\A a \in toAce : a.stan \in 1..counter') /\ holdStan \in [Call -> 0..counter']
    BY <1>17
  <2> QED
    BY <1>1, <1>2, <1>4, <1>8, <1>17, <2>1, <2>2 DEF Typed, TypeOK
<1>10. Stream'
  <2>1. ASSUME NEW i \in 1..Len(toHost'), NEW j \in 1..Len(toHost'), i < j
        PROVE  toHost'[i].stan < toHost'[j].stan
    <3>1. i \in 1..Len(toHost) /\ toHost'[i] = toHost[i]
      BY <1>8, <2>1
    <3>2. CASE j \in 1..Len(toHost) /\ toHost'[j] = toHost[j]
      BY <1>1, <2>1, <3>1, <3>2 DEF Stream
    <3>3. CASE toHost'[j] = m
      BY <1>6, <1>17, <3>1, <3>3
    <3> QED
      BY <1>8, <3>2, <3>3
  <2>2. ASSUME NEW i \in 1..Len(toHost'), NEW a \in toAce
        PROVE  a.stan < toHost'[i].stan
    <3>1. CASE i \in 1..Len(toHost) /\ toHost'[i] = toHost[i]
      BY <1>1, <3>1 DEF Stream
    <3>2. CASE toHost'[i] = m
      BY <1>6, <1>17, <3>2
    <3> QED
      BY <1>8, <3>1, <3>2
  <2>3. ASSUME NEW i \in 1..Len(toHost')
        PROVE  toHost'[i].original < toHost'[i].stan
    <3>1. CASE i \in 1..Len(toHost) /\ toHost'[i] = toHost[i]
      BY <1>1, <3>1 DEF Stream
    <3>2. CASE toHost'[i] = m
      BY <1>2, <1>6, <1>17, <3>2
    <3> QED
      BY <1>8, <3>1, <3>2
  <2> QED
    BY <1>2, <2>1, <2>2, <2>3 DEF Stream
<1>11. Queued'
  <2> SUFFICES ASSUME NEW d \in Call PROVE Ordered(d)' /\ Waiting(d)'
    BY DEF Queued
  <2>1. Ordered(d) /\ Waiting(d) /\ Auth(d) \in Op /\ Rev(d) \in Op
    BY <1>1, Operations DEF Queued
  <2>2. Ordered(d)'
    BY <1>2, <2>1 DEF Ordered
  <2>3. Waiting(d)'
    BY <1>2, <1>4, <1>6, <1>8, <1>17, <2>1 DEF Waiting
  <2> QED
    BY <2>2, <2>3
<1>12. Blocked'
  BY <1>2 DEF Blocked
<1>13. \A d \in Call : told[d] = "approved" => stan # holdStan[d]
  BY <1>1, <1>2, Operations, ConstantsAssumption DEF Blocked
<1>14. Travelling'
  <2> SUFFICES ASSUME NEW d \in Call, NEW i \in 1..Len(toHost')
               PROVE  /\ toHost'[i].mti = "0200" /\ toHost'[i].call = d =>
                            /\ holdStan[d] = 0 /\ adapter'[d] # "idle"
                            /\ \A j \in 1..Len(toHost') : toHost'[j].mti = "0200" /\ toHost'[j].call = d => i = j
                            /\ toHost'[i].original = 0
                      /\ toHost'[i].mti = "0400" =>
                            /\ toHost'[i].call = d => adapter'[d] \notin {"idle", "authorizing"}
                                                      /\ told'[d] # "approved"
                            /\ told'[d] = "approved" => toHost'[i].original # holdStan[d]
    BY <1>2, <1>17, Operations DEF Travelling
  <2>1. CASE i \in 1..Len(toHost) /\ toHost'[i] = toHost[i]
    BY <1>1, <1>4, <1>6, <1>8, <2>1 DEF Travelling
  <2>2. CASE toHost'[i] = m
    BY <1>4, <1>6, <1>13, <1>17, <2>2
  <2> QED
    BY <1>8, <2>1, <2>2
<1>15. Answers'
  BY <1>1, <1>2, Fields DEF Answers
<1>16. Promises'
  <2> SUFFICES ASSUME NEW d \in Call PROVE Promised(d)' /\ ReversalSent(d)'
    BY DEF Promises
  <2>1. Promised(d) /\ ReversalSent(d)
    BY <1>1 DEF Promises
  <2>2. (Undone(d)' <=> Undone(d)) /\ (Unqueued(d)' <=> Unqueued(d))
    BY <1>2, <1>6, <1>8 DEF Undone, Unqueued
  <2>3. Promised(d)'
    BY <1>2, <1>4, <2>1, <2>2 DEF Promised
  <2>4. \A i \in 1..Len(toHost) :
           Undoing(i, d) => i \in 1..Len(toHost') /\ Undoing(i, d)'
    <3>1. CASE toHost' = toHost
      BY <1>2, <3>1 DEF Undoing
    <3>2. CASE toHost' = Append(toHost, m)
      BY <1>1, <1>2, <1>6, <3>2, StillUndoing
    <3> QED
      BY <1>5, <3>1, <3>2
  <2>5. ASSUME d \in reversalSent' => d \in reversalSent PROVE ReversalSent(d)'
    <3>1. CASE drops = 0 /\ d \in reversalSent /\ ~Undone(d)
      <4>1. PICK i \in 1..Len(toHost) : Undoing(i, d)
        BY <2>1, <3>1 DEF ReversalSent
      <4>2. i \in 1..Len(toHost') /\ Undoing(i, d)'
        BY <2>4, <4>1
      <4> QED
        BY <2>1, <2>2, <3>1, <4>2 DEF ReversalSent
    <3>2. CASE ~(drops = 0 /\ d \in reversalSent) \/ Undone(d)
      BY <1>2, <2>1, <2>2, <2>5, <3>2 DEF ReversalSent
    <3> QED
      BY <3>1, <3>2
  <2>6. ASSUME d \in reversalSent', d \notin reversalSent PROVE ReversalSent(d)'
    <3>1. ace = Auth(d) /\ toHost' = Append(toHost, m)
      BY <1>4, <1>5, <2>6
    <3>2. Unqueued(d)'
      BY <1>1, <2>2, <3>1 DEF Queued, Waiting, Unqueued
    <3>3. /\ Len(toHost) \in Nat /\ Len(toHost') = Len(toHost) + 1
          /\ toHost'[Len(toHost) + 1] = m
          /\ \A i \in 1..Len(toHost) : i \in 1..Len(toHost') /\ toHost'[i] = toHost[i]
      BY <1>6, <1>7, <3>1, Sending
    <3>4. \/ Undone(d)
          \/ holdStan[d] = stan
          \/ \E k \in 1..Len(toHost) : toHost[k] = Message("0200", stan, d, 0)
      <4>1. CASE d \in hold
        BY <1>1, <1>2, <3>1, <4>1, Operations, ConstantsAssumption DEF Blocked, Settled
      <4>2. CASE d \notin hold /\ ~Undone(d)
        <5>1. PICK k \in 1..Len(toHost) : toHost[k].mti = "0200" /\ toHost[k].call = d
          BY <4>2 DEF Undone
        <5>2. toHost[k].stan = stan
          BY <1>1, <3>1, <5>1 DEF Travelling
        <5> QED
          BY <1>1, <1>2, <3>1, <5>1, <5>2, Operations, ConstantsAssumption DEF Blocked
      <4> QED
        BY <4>1, <4>2
    <3>5. CASE Undone(d)
      BY <2>2, <3>2, <3>5 DEF ReversalSent
    <3>6. CASE ~Undone(d)
      <4>1. /\ m.original # 0
            /\ \/ holdStan'[d] = m.original
               \/ \E k \in 1..Len(toHost') : toHost'[k] = Message("0200", m.original, d, 0)
        BY <1>2, <1>6, <1>17, <3>3, <3>4, <3>6
      <4>2. \A j \in (Len(toHost) + 1)..Len(toHost') : toHost'[j] = m
        BY <3>3
      <4>3. PICK i \in 1..Len(toHost') :
               toHost'[i] = m /\ \A j \in i..Len(toHost') : toHost'[j] = m
        BY <3>3, <4>2
      <4>4. Undoing(i, d)'
        BY <1>6, <4>1, <4>3 DEF Undoing
      <4>5. \E k \in 1..Len(toHost') : Undoing(k, d)'
        BY <4>4
      <4> QED
        BY <3>2, <4>5 DEF ReversalSent
    <3> QED
      BY <3>5, <3>6
  <2> QED
    BY <2>3, <2>5, <2>6
<1> QED
  BY <1>3, <1>9, <1>10, <1>11, <1>12, <1>14, <1>15, <1>16 DEF IsoInv

-----------------------------------------------------------------------------
(* The gateway takes a request.                                            *)

TakesFirst == queue # <<>> /\ queue' = Tail(queue)

LEMMA FirstTaken ==
    ASSUME IsoInv, TakesFirst
    PROVE  /\ 1 \in 1..Len(queue) /\ queue[1] \in Op /\ queue' \in Seq(Op)
           /\ \A i \in 1..Len(queue') : /\ i + 1 \in 1..Len(queue) /\ i + 1 # 1
                                        /\ queue'[i] = queue[i + 1]
<1>1. queue \in Seq(Op)
  BY Fields DEF IsoInv
<1>2. /\ queue[1] \in Op /\ Len(queue) \in Nat \ {0}
      /\ queue' \in Seq(Op) /\ Len(queue') = Len(queue) - 1
      /\ \A i \in 1..(Len(queue) - 1) : queue'[i] = queue[i + 1]
  BY <1>1, Taking DEF TakesFirst
<1> QED
  BY <1>2

LEMMA HeadIsFirst == ASSUME IsoInv, TakesFirst PROVE Head(queue) = queue[1]
<1>1. queue \in Seq(Op)
  BY Fields DEF IsoInv
<1> QED
  BY <1>1, Taking DEF TakesFirst

\* What stays behind it.
LEMMA Behind ==
    ASSUME IsoInv, TakesFirst, NEW d \in Call
    PROVE  /\ Ordered(d)'
           /\ Unqueued(d) => Unqueued(d)' /\ queue[1] # Auth(d)
           /\ queue[1] = Rev(d) => Unqueued(d)
           /\ queue[1] = Auth(d) => Unqueued(d)'
           /\ \A i \in 1..Len(queue') : queue'[i] = Auth(d) => queue[1] \notin {Auth(d), Rev(d)}
<1>1. Ordered(d) /\ Len(queue) \in Nat /\ Len(queue') \in Nat
  BY Fields, FirstTaken, LenProperties DEF IsoInv, Queued
<1>2. /\ 1 \in 1..Len(queue)
      /\ \A i \in 1..Len(queue') : /\ i + 1 \in 1..Len(queue) /\ i + 1 # 1
                                   /\ queue'[i] = queue[i + 1]
  BY FirstTaken
<1>3. Ordered(d)'
  <2>1. SUFFICES ASSUME NEW i \in 1..Len(queue'), NEW j \in 1..Len(queue'),
                        queue'[i] = Auth(d)
                 PROVE  /\ queue'[j] = Auth(d) => i = j
                        /\ queue'[j] = Rev(d) => i < j
    BY DEF Ordered
  <2>2. /\ i + 1 \in 1..Len(queue) /\ queue'[i] = queue[i + 1]
        /\ j + 1 \in 1..Len(queue) /\ queue'[j] = queue[j + 1]
    BY <1>2
  <2>3. /\ queue[j + 1] = Auth(d) => i + 1 = j + 1
        /\ queue[j + 1] = Rev(d) => i + 1 < j + 1
    BY <1>1, <2>1, <2>2 DEF Ordered
  <2> QED
    BY <1>1, <2>2, <2>3
<1>4. Unqueued(d) => Unqueued(d)' /\ queue[1] # Auth(d)
  BY <1>1, <1>2 DEF Unqueued
<1>5. queue[1] = Rev(d) => Unqueued(d)
  BY <1>1, <1>2 DEF Unqueued, Ordered
<1>6. \A i \in 1..Len(queue') : queue'[i] = Auth(d) => queue[1] \notin {Auth(d), Rev(d)}
  BY <1>1, <1>2 DEF Ordered
<1>7. queue[1] = Auth(d) => Unqueued(d)'
  BY <1>6 DEF Unqueued
<1> QED
  BY <1>3, <1>4, <1>5, <1>6, <1>7

\* With the connection down it says so at once.
LEMMA RefusedUnsent ==
    ASSUME IsoInv, TakesFirst, ace = None, HearDown(Head(queue)),
           UNCHANGED <<ace, stan, counter, link, toHost, toAce, hold, holdStan, drops, beats>>
    PROVE  IsoInv'
<1>1. /\ Typed /\ Stream /\ Queued /\ Blocked /\ Travelling
      /\ Settled /\ Answers /\ Promises
  BY DEF IsoInv
<1> DEFINE o == Head(queue)
<1>2. /\ o \in Op /\ queue' \in Seq(Op)
      /\ \A i \in 1..Len(queue') : i + 1 \in 1..Len(queue) /\ queue'[i] = queue[i + 1]
  BY FirstTaken
<1>3. /\ adapter' \in [Call -> {"idle", "authorizing", "undoing", "compensating", "done"}]
      /\ told' \in [Call -> Verdict \cup {None}] /\ reversalSent' = reversalSent
      /\ \A d \in Call :
            \/ /\ adapter'[d] = adapter[d] /\ told'[d] = told[d]
            \/ /\ adapter[d] \in {"authorizing", "undoing", "compensating"}
               /\ adapter'[d] = "done" /\ told'[d] \in {"unknown", "unavailable"}
  BY <1>2, NoVerdict
<1>4. Settled'
  BY <1>2, NoVerdictSettles
<1>5. Typed'
  BY <1>1, <1>2, <1>3 DEF Typed, TypeOK
<1>6. Stream'
  BY <1>1 DEF Stream
<1>7. Queued'
  <2> SUFFICES ASSUME NEW d \in Call PROVE Ordered(d)' /\ Waiting(d)'
    BY DEF Queued
  <2>2. Ordered(d)'
    BY Behind
  <2>1. Waiting(d)
    BY <1>1 DEF Queued
  <2>3. Waiting(d)'
    BY <1>2, <1>3, <2>1 DEF Waiting
  <2> QED
    BY <2>2, <2>3
<1>8. Blocked'
  BY DEF Blocked
<1>9. Travelling'
  BY <1>1, <1>3 DEF Travelling
<1>10. Answers'
  BY <1>1, Fields DEF Answers
<1>11. Promises'
  <2> SUFFICES ASSUME NEW d \in Call PROVE Promised(d)' /\ ReversalSent(d)'
    BY DEF Promises
  <2>1. Promised(d) /\ ReversalSent(d)
    BY <1>1 DEF Promises
  <2>2. Undone(d)' <=> Undone(d)
    BY DEF Undone
  <2>3. \A i \in 1..Len(toHost) : Undoing(i, d)' <=> Undoing(i, d)
    BY DEF Undoing
  <2>4. Unqueued(d) => Unqueued(d)'
    BY Behind
  <2>5. Promised(d)'
    BY <1>3, <2>1, <2>2, <2>4 DEF Promised
  <2>6. ReversalSent(d)'
    BY <1>3, <2>1, <2>2, <2>3, <2>4 DEF ReversalSent
  <2> QED
    BY <2>5, <2>6
<1> QED
  BY <1>4, <1>5, <1>6, <1>7, <1>8, <1>9, <1>10, <1>11 DEF IsoInv

\* With the connection up it sends it, with a STAN nothing else has.
LEMMA RequestSent ==
    ASSUME IsoInv, TakesFirst, ace = None,
           Send(IF Head(queue).op = "authorize" THEN "0200" ELSE "0400", Head(queue).call, 0),
           ace' = Head(queue), stan' = counter + 1,
           UNCHANGED <<adapter, told, reversalSent, link, toAce, hold, holdStan, drops, beats>>
    PROVE  IsoInv'
<1>1. /\ Typed /\ Stream /\ Queued /\ Blocked /\ Travelling
      /\ Settled /\ Answers /\ Promises
  BY DEF IsoInv
<1>2. PICK o \in Op : o = queue[1] /\ o = Head(queue) /\ ace' = o
  BY FirstTaken, HeadIsFirst
<1>3. PICK c \in Call : o.call = c /\ (\/ o = Auth(c) /\ o.op = "authorize"
                                       \/ o = Rev(c) /\ o.op = "reverse")
  <2>1. o.call \in Call /\ o.op \in {"authorize", "reverse"} /\ o = [op |-> o.op, call |-> o.call]
    BY DEF Op
  <2>2. o.op = "authorize" => o = Auth(o.call)
    BY <2>1 DEF Auth
  <2>3. o.op = "reverse" => o = Rev(o.call)
    BY <2>1 DEF Rev
  <2> QED
    BY <2>1, <2>2, <2>3
<1> DEFINE mti == IF o.op = "authorize" THEN "0200" ELSE "0400"
           m == Message(mti, counter + 1, c, 0)
<1>4. toHost' = Append(toHost, m) /\ counter' = counter + 1
  BY <1>2, <1>3 DEF Send
<1>5. /\ counter \in Nat \ {0} /\ None \notin Call /\ None \notin Op
      /\ toHost \in Seq(Msg) /\ Len(toHost) \in Nat
      /\ \A i \in 1..Len(toHost) : toHost[i].stan \in 1..counter
      /\ \A i \in 1..Len(toHost) : toHost[i].mti = "0200" => toHost[i].call \in Call
      /\ \A a \in toAce : a.stan \in 1..counter
      /\ holdStan \in [Call -> 0..counter]
  BY <1>1, Fields, ConstantsAssumption
<1>6. /\ m \in Msg /\ m.mti = mti /\ m.stan = counter + 1 /\ m.call = c /\ m.original = 0
      /\ o = Auth(c) => mti = "0200"
      /\ o = Rev(c) => mti = "0400"
  BY <1>3, <1>5, Operations DEF Message, Msg
<1>7. m = Message(mti, counter + 1, c, 0)
  OBVIOUS
<1> HIDE DEF m
<1>8. /\ toHost' \in Seq(Msg) /\ Len(toHost') \in Nat
      /\ \A i \in 1..Len(toHost') : \/ i \in 1..Len(toHost) /\ toHost'[i] = toHost[i]
                                    \/ i = Len(toHost) + 1 /\ toHost'[i] = m
      /\ \A i \in 1..Len(toHost) : i \in 1..Len(toHost') /\ toHost'[i] = toHost[i]
  <2>1. /\ toHost' \in Seq(Msg) /\ Len(toHost') = Len(toHost) + 1
        /\ \A i \in 1..(Len(toHost) + 1) :
              toHost'[i] = IF i = Len(toHost) + 1 THEN m ELSE toHost[i]
    BY <1>4, <1>5, <1>6, Sending
  <2> QED
    BY <1>5, <2>1
<1> HIDE DEF mti
\* What the queue says of the call the request is about.
<1>9. /\ o = Auth(c) =>
            /\ holdStan[c] = 0 /\ adapter[c] # "idle" /\ told[c] # "approved"
            /\ \A j \in 1..Len(toHost) : toHost[j].mti = "0200" => toHost[j].call # c
      /\ o = Rev(c) => adapter[c] \notin {"idle", "authorizing"} /\ told[c] # "approved"
  <2>1. Waiting(c) /\ 1 \in 1..Len(queue) /\ Promised(c) /\ (c \in hold => holdStan[c] > 0)
    BY <1>1, FirstTaken DEF Queued, Promises, Settled
  <2> QED
    BY <1>2, <1>5, <2>1 DEF Waiting, Promised
<1>10. Typed'
  <2>1. ASSUME NEW i \in 1..Len(toHost')
        PROVE  /\ toHost'[i].stan \in 1..counter'
               /\ toHost'[i].mti = "0200" => toHost'[i].call \in Call
    <3>1. CASE i \in 1..Len(toHost) /\ toHost'[i] = toHost[i]
      BY <1>4, <1>5, <3>1
    <3>2. CASE toHost'[i] = m
      BY <1>4, <1>5, <1>6, <3>2
    <3> QED
      BY <1>8, <3>1, <3>2
  <2>2. /\ \A a \in toAce : a.stan \in 1..counter'
        /\ holdStan \in [Call -> 0..counter'] /\ counter' \in Nat \ {0}
        /\ stan' \in 0..counter' /\ stan' # 0 /\ ace' # None /\ ace' \in Op
    BY <1>2, <1>4, <1>5
  <2>3. queue' \in Seq(Op)
    BY FirstTaken
  <2> QED
    BY <1>1, <1>8, <2>1, <2>2, <2>3 DEF Typed, TypeOK
<1>11. Stream'
  <2>1. ASSUME NEW i \in 1..Len(toHost'), NEW j \in 1..Len(toHost'), i < j
        PROVE  toHost'[i].stan < toHost'[j].stan
    <3>1. i \in 1..Len(toHost) /\ toHost'[i] = toHost[i]
      BY <1>5, <1>8, <2>1
    <3>2. CASE j \in 1..Len(toHost) /\ toHost'[j] = toHost[j]
      BY <1>1, <2>1, <3>1, <3>2 DEF Stream
    <3>3. CASE toHost'[j] = m
      BY <1>5, <1>6, <3>1, <3>3
    <3> QED
      BY <1>8, <3>2, <3>3
  <2>2. ASSUME NEW i \in 1..Len(toHost')
        PROVE  /\ toHost'[i].original < toHost'[i].stan
               /\ \A a \in toAce : a.stan < toHost'[i].stan
    <3>1. CASE i \in 1..Len(toHost) /\ toHost'[i] = toHost[i]
      BY <1>1, <3>1 DEF Stream
    <3>2. CASE toHost'[i] = m
      BY <1>5, <1>6, <3>2
    <3> QED
      BY <1>8, <3>1, <3>2
  <2> QED
    BY <2>1, <2>2 DEF Stream
<1>12. Queued'
  <2> SUFFICES ASSUME NEW d \in Call PROVE Ordered(d)' /\ Waiting(d)'
    BY DEF Queued
  <2>1. Ordered(d)'
    BY Behind
  <2>2. \A i \in 1..Len(queue') : queue'[i] = Auth(d) => o \notin {Auth(d), Rev(d)}
    BY <1>2, Behind
  <2>3. \A i \in 1..Len(queue') : i + 1 \in 1..Len(queue) /\ queue'[i] = queue[i + 1]
    BY FirstTaken
  <2>4. Waiting(d)
    BY <1>1 DEF Queued
  <2>5. o # Auth(d) /\ (\A j \in 1..Len(toHost) : toHost[j].mti = "0200" => toHost[j].call # d)
                    => (\A j \in 1..Len(toHost') : toHost'[j].mti = "0200" => toHost'[j].call # d)
    BY <1>3, <1>6, <1>8, Operations
  <2>6. Waiting(d)'
    BY <1>2, <2>2, <2>3, <2>4, <2>5 DEF Waiting
  <2> QED
    BY <2>1, <2>6
<1>13. Blocked'
  <2>1. ASSUME NEW i \in 1..Len(toHost')
        PROVE  /\ toHost'[i].stan = counter + 1 => toHost'[i] = m
               /\ toHost'[i].original < counter + 1
    <3>1. CASE i \in 1..Len(toHost) /\ toHost'[i] = toHost[i]
      <4>1. toHost[i].original \in Nat
        <5>1. toHost[i] \in Msg
          BY <1>1, <3>1, Fields
        <5> QED
          BY <5>1 DEF Msg
      <4>2. toHost[i].original < toHost[i].stan /\ toHost[i].stan \in 1..counter
        BY <1>1, <1>5, <3>1 DEF Stream
      <4> QED
        BY <1>5, <3>1, <4>1, <4>2
    <3>2. CASE toHost'[i] = m
      BY <1>5, <1>6, <3>2
    <3> QED
      BY <1>8, <3>1, <3>2
  <2>2. \A d \in Call : holdStan[d] # counter + 1
    BY <1>5
  <2>3. m = Message(IF o.op = "authorize" THEN "0200" ELSE "0400", counter + 1, o.call, 0)
    BY <1>3, <1>7 DEF mti
  <2> QED
    BY <1>2, <1>3, <1>9, <2>1, <2>2, <2>3, Operations DEF Blocked
<1>14. Travelling'
  <2> SUFFICES ASSUME NEW d \in Call, NEW i \in 1..Len(toHost')
               PROVE  /\ toHost'[i].mti = "0200" /\ toHost'[i].call = d =>
                            /\ holdStan[d] = 0 /\ adapter[d] # "idle"
                            /\ \A j \in 1..Len(toHost') : toHost'[j].mti = "0200" /\ toHost'[j].call = d => i = j
                            /\ o = Auth(d) => toHost'[i].stan = counter + 1
                            /\ o = Rev(d) => toHost'[i].stan < counter + 1
                            /\ toHost'[i].original = 0
                      /\ toHost'[i].mti = "0400" =>
                            /\ toHost'[i].call = d => adapter[d] \notin {"idle", "authorizing"}
                                                      /\ told[d] # "approved"
                            /\ told[d] = "approved" => toHost'[i].original # holdStan[d]
    BY <1>2 DEF Travelling
  <2>1. CASE i \in 1..Len(toHost) /\ toHost'[i] = toHost[i]
    <3>1. toHost[i].mti = "0200" /\ toHost[i].call = d => o # Auth(d) /\ ~(m.mti = "0200" /\ m.call = d)
      BY <1>3, <1>6, <1>9, <2>1, Operations
    <3> QED
      BY <1>1, <1>5, <1>8, <2>1, <3>1 DEF Travelling
  <2>2. CASE i = Len(toHost) + 1 /\ toHost'[i] = m
    <3>1. told[d] = "approved" => 0 # holdStan[d]
      BY <1>1, <1>5 DEF Promises, Promised, Settled
    <3>2. m.mti = "0200" /\ d = c => o = Auth(c)
      BY <1>3, <1>6
    <3>3. m.mti = "0400" /\ d = c => o = Rev(c)
      BY <1>3, <1>6
    <3> QED
      BY <1>6, <1>8, <1>9, <2>2, <3>1, <3>2, <3>3, Operations
  <2> QED
    BY <1>8, <2>1, <2>2
<1>15. Settled'
  BY <1>1 DEF Settled
<1>16. Answers'
  BY <1>5 DEF Answers
<1>17. Promises'
  <2> SUFFICES ASSUME NEW d \in Call PROVE Promised(d)' /\ ReversalSent(d)'
    BY DEF Promises
  <2>1. Promised(d) /\ ReversalSent(d)
    BY <1>1 DEF Promises
  <2>2. Unqueued(d) => Unqueued(d)' /\ o # Auth(d)
    BY <1>2, Behind
  <2>3. o # Auth(d) => (m.mti = "0200" => m.call # d)
    BY <1>3, <1>6
  <2>4. Unqueued(d) /\ Undone(d) => Undone(d)'
    BY <1>8, <2>2, <2>3 DEF Undone
  <2>5. Promised(d)'
    BY <2>1, <2>2, <2>4 DEF Promised
  <2>6. ASSUME Unqueued(d), NEW i \in 1..Len(toHost), Undoing(i, d)
        PROVE  i \in 1..Len(toHost') /\ Undoing(i, d)'
    BY <1>1, <1>4, <1>6, <2>2, <2>3, <2>6, StillUndoing
  <2>7. ReversalSent(d)'
    BY <2>1, <2>2, <2>4, <2>6 DEF ReversalSent
  <2> QED
    BY <2>5, <2>7
<1> QED
  BY <1>10, <1>11, <1>12, <1>13, <1>14, <1>15, <1>16, <1>17 DEF IsoInv

LEMMA Taken == ASSUME IsoInv, Take PROVE IsoInv'
<1>1. TakesFirst /\ ace = None /\ UNCHANGED <<link, toAce, hold, holdStan, drops, beats>>
  BY DEF Take, TakesFirst, switchVars
<1>2. CASE /\ HearDown(Head(queue))
           /\ UNCHANGED <<counter, toHost, gatewayVars>>
  BY <1>1, <1>2, RefusedUnsent DEF gatewayVars
<1>3. CASE /\ Send(IF Head(queue).op = "authorize" THEN "0200" ELSE "0400", Head(queue).call, 0)
           /\ ace' = Head(queue) /\ stan' = counter + 1 /\ UNCHANGED adapterVars
  BY <1>1, <1>3, RequestSent DEF adapterVars
<1> QED
  BY <1>2, <1>3 DEF Take

-----------------------------------------------------------------------------
(* The gateway receives an answer.                                         *)

LEMMA NotWanted ==
    ASSUME IsoInv, NEW a \in toAce, toAce' = toAce \ {a},
           UNCHANGED <<adapter, told, reversalSent, queue, ace, stan, counter, link, toHost,
                       hold, holdStan, drops, beats>>
    PROVE  IsoInv'
<1>1. /\ Typed /\ Stream /\ Queued /\ Blocked /\ Travelling
      /\ Settled /\ Answers /\ Promises
  BY DEF IsoInv
<1>2. Typed'
  BY <1>1 DEF Typed, TypeOK
<1>3. Stream'
  BY <1>1 DEF Stream
<1>4. Queued'
  BY <1>1 DEF Queued, Ordered, Waiting
<1>5. Blocked'
  BY <1>1 DEF Blocked
<1>6. Travelling'
  BY <1>1 DEF Travelling
<1>7. Settled'
  BY <1>1 DEF Settled
<1>8. Answers'
  BY <1>1 DEF Answers
<1>9. Promises'
  BY <1>1 DEF Promises, Promised, ReversalSent, Undone, Unqueued, Undoing
<1> QED
  BY <1>2, <1>3, <1>4, <1>5, <1>6, <1>7, <1>8, <1>9 DEF IsoInv

\* What an answer to the operation in progress says is so at the switch.
Heard(d, code) ==
    \/ /\ adapter'[d] = adapter[d] /\ told'[d] = told[d]
       /\ d \in reversalSent' <=> d \in reversalSent
    \/ /\ ace = Auth(d) /\ adapter[d] = "authorizing" /\ adapter'[d] = "done"
       /\ told'[d] = (IF code = "00" THEN "approved" ELSE "declined")
       /\ d \notin reversalSent'
    \/ /\ ace = Rev(d) /\ adapter[d] \in {"undoing", "compensating"} /\ adapter'[d] = "done"
       /\ told'[d] \in {"unknown", "reversed"}
       /\ d \in reversalSent' => told'[d] = "unknown"

LEMMA Hearing ==
    ASSUME IsoInv, ace # None, NEW code, HearAnswer(ace, code)
    PROVE  /\ adapter' \in [Call -> {"idle", "authorizing", "undoing", "compensating", "done"}]
           /\ told' \in [Call -> Verdict \cup {None}] /\ reversalSent' \subseteq Call
           /\ \A d \in Call : Heard(d, code)
<1>1. Typed /\ Settled
  BY DEF IsoInv
<1>2. /\ adapter \in [Call -> {"idle", "authorizing", "undoing", "compensating", "done"}]
      /\ told \in [Call -> Verdict \cup {None}] /\ reversalSent \subseteq Call /\ ace \in Op
  BY <1>1, Fields
<1>3. PICK c \in Call : /\ ace.call = c
                       /\ \/ ace = Auth(c) /\ ace.op = "authorize"
                          \/ ace = Rev(c) /\ ace.op = "reverse"
  <2>1. ace.call \in Call /\ ace.op \in {"authorize", "reverse"}
        /\ ace = [op |-> ace.op, call |-> ace.call]
    BY <1>2 DEF Op
  <2>2. ace.op = "authorize" => ace = Auth(ace.call)
    BY <2>1 DEF Auth
  <2>3. ace.op = "reverse" => ace = Rev(ace.call)
    BY <2>1 DEF Rev
  <2> QED
    BY <2>1, <2>2, <2>3
<1>4. adapter[c] # "done" => c \notin reversalSent
  BY <1>1, Fields DEF Settled
<1>5. CASE UNCHANGED adapterVars
  BY <1>2, <1>5 DEF adapterVars, Heard
<1>6. ASSUME NEW v \in Verdict, Tell(c, v), adapter[c] # "done",
             \/ /\ ace = Auth(c) /\ adapter[c] = "authorizing"
                /\ v = (IF code = "00" THEN "approved" ELSE "declined")
                /\ reversalSent' = reversalSent
             \/ /\ ace = Rev(c) /\ adapter[c] \in {"undoing", "compensating"}
                /\ \/ v = "unknown" /\ reversalSent' = reversalSent \cup {c}
                   \/ v = "reversed" /\ reversalSent' = reversalSent
      PROVE  /\ adapter' \in [Call -> {"idle", "authorizing", "undoing", "compensating", "done"}]
             /\ told' \in [Call -> Verdict \cup {None}] /\ reversalSent' \subseteq Call
             /\ \A d \in Call : Heard(d, code)
  <2>1. adapter' = [adapter EXCEPT ![c] = "done"] /\ told' = [told EXCEPT ![c] = v]
    BY <1>6 DEF Tell, Become
  <2>2. /\ adapter' \in [Call -> {"idle", "authorizing", "undoing", "compensating", "done"}]
        /\ told' \in [Call -> Verdict \cup {None}] /\ reversalSent' \subseteq Call
    BY <1>2, <1>6, <2>1
  <2>3. ASSUME NEW d \in Call PROVE Heard(d, code)
    <3>1. CASE d = c
      BY <1>2, <1>4, <1>6, <2>1, <3>1 DEF Heard
    <3>2. CASE d # c
      BY <1>2, <1>6, <2>1, <3>2 DEF Heard
    <3> QED
      BY <3>1, <3>2
  <2> QED
    BY <2>2, <2>3
<1>7. \/ UNCHANGED adapterVars
      \/ \E v \in Verdict :
            /\ Tell(c, v) /\ adapter[c] # "done"
            /\ \/ /\ ace = Auth(c) /\ adapter[c] = "authorizing"
                  /\ v = (IF code = "00" THEN "approved" ELSE "declined")
                  /\ reversalSent' = reversalSent
               \/ /\ ace = Rev(c) /\ adapter[c] \in {"undoing", "compensating"}
                  /\ \/ v = "unknown" /\ reversalSent' = reversalSent \cup {c}
                     \/ v = "reversed" /\ reversalSent' = reversalSent
  <2>1. CASE Unheard(ace)
    BY <2>1 DEF Unheard
  <2>2. CASE /\ Listening(ace) /\ ace.op = "authorize"
             /\ Tell(c, IF code = "00" THEN "approved" ELSE "declined")
             /\ UNCHANGED reversalSent
    BY <1>3, <2>2, Operations DEF Listening, Verdict
  <2>3. CASE /\ adapter[c] = "undoing" /\ ace.op = "reverse" /\ Tell(c, "unknown")
             /\ reversalSent' = reversalSent \cup {c}
    BY <1>3, <2>3, Operations DEF Verdict
  <2>4. CASE /\ adapter[c] = "compensating" /\ ace.op = "reverse" /\ Tell(c, "reversed")
             /\ UNCHANGED reversalSent
    BY <1>3, <2>4, Operations DEF Verdict
  <2> QED
    BY <1>3, <2>1, <2>2, <2>3, <2>4 DEF HearAnswer
<1> QED
  BY <1>5, <1>6, <1>7

LEMMA Answered ==
    ASSUME IsoInv, ace # None, NEW a \in toAce, a.stan = stan, HearAnswer(ace, a.code),
           toAce' = toAce \ {a}, ace' = None, stan' = 0,
           UNCHANGED <<queue, counter, link, toHost, hold, holdStan, drops, beats>>
    PROVE  IsoInv'
<1>1. /\ Typed /\ Stream /\ Queued /\ Blocked /\ Travelling
      /\ Settled /\ Answers /\ Promises
  BY DEF IsoInv
<1>2. /\ adapter' \in [Call -> {"idle", "authorizing", "undoing", "compensating", "done"}]
      /\ told' \in [Call -> Verdict \cup {None}] /\ reversalSent' \subseteq Call
      /\ \A d \in Call : Heard(d, a.code)
  BY Hearing
<1>3. /\ holdStan \in [Call -> 0..counter] /\ counter \in Nat \ {0}
      /\ ace \in Op /\ stan \in 1..counter /\ None \notin Op
      /\ \A i \in 1..Len(toHost) : toHost[i].stan \in 1..counter
      /\ None \notin {"approved", "declined", "unknown", "unavailable", "reversed"}
  BY <1>1, Fields, ConstantsAssumption
\* An answered authorisation or reversal has left the connection and the queue.
<1>4. ASSUME NEW d \in Call, ace \in {Auth(d), Rev(d)}
      PROVE  /\ \A i \in 1..Len(toHost) : toHost[i].mti = "0200" => toHost[i].call # d
             /\ Unqueued(d)
  <2>1. ASSUME NEW i \in 1..Len(toHost), toHost[i].mti = "0200", toHost[i].call = d PROVE FALSE
    <3>1. stan < toHost[i].stan
      BY <1>1 DEF Stream
    <3>2. toHost[i].stan <= stan
      BY <1>1, <1>3, <1>4, <2>1 DEF Travelling
    <3> QED
      BY <1>3, <3>1, <3>2
  <2>2. Unqueued(d)
    BY <1>1, <1>4 DEF Queued, Waiting, Unqueued
  <2> QED
    BY <2>1, <2>2
<1>5. ASSUME NEW d \in Call, told'[d] = "approved", told[d] # "approved"
      PROVE  /\ d \in hold /\ holdStan[d] = stan /\ adapter[d] = "authorizing"
  <2>1. ace = Auth(d) /\ adapter[d] = "authorizing" /\ a.code = "00"
    BY <1>2, <1>5 DEF Heard
  <2>2. d \in hold
    BY <1>1, <2>1 DEF Answers
  <2> QED
    BY <1>1, <1>3, <2>1, <2>2, Operations DEF Blocked, Settled
<1>6. ASSUME NEW d \in Call,
             \/ told'[d] \in {"declined", "reversed"} /\ told[d] \notin {"declined", "reversed"}
             \/ d \in reversalSent' /\ d \notin reversalSent
      PROVE  Undone(d) /\ Unqueued(d)
  <2>1. \/ ace = Auth(d) /\ adapter[d] = "authorizing" /\ a.code # "00"
        \/ ace = Rev(d)
    BY <1>2, <1>6 DEF Heard
  <2>2. d \notin hold
    BY <1>1, <2>1 DEF Answers
  <2> QED
    BY <1>4, <2>1, <2>2 DEF Undone
<1>7. Typed'
  BY <1>1, <1>2 DEF Typed, TypeOK
<1>8. Stream'
  BY <1>1 DEF Stream
<1>9. Queued'
  <2> SUFFICES ASSUME NEW d \in Call PROVE Ordered(d)' /\ Waiting(d)'
    BY DEF Queued
  <2>1. Ordered(d) /\ Waiting(d) /\ Auth(d) \in Op /\ Rev(d) \in Op
    BY <1>1, Operations DEF Queued
  <2>2. Ordered(d)'
    BY <2>1 DEF Ordered
  <2>3. adapter'[d] \in {"idle", "authorizing"} => adapter'[d] = adapter[d]
    BY <1>2 DEF Heard
  <2>4. Waiting(d)'
    BY <1>3, <1>5, <2>1, <2>3 DEF Waiting
  <2> QED
    BY <2>2, <2>4
<1>10. Blocked'
  BY DEF Blocked
<1>11. Travelling'
  <2> SUFFICES ASSUME NEW d \in Call, NEW i \in 1..Len(toHost)
               PROVE  /\ toHost[i].mti = "0200" /\ toHost[i].call = d =>
                            /\ holdStan[d] = 0 /\ adapter'[d] # "idle"
                            /\ \A j \in 1..Len(toHost) : toHost[j].mti = "0200" /\ toHost[j].call = d => i = j
                            /\ toHost[i].original = 0
                      /\ toHost[i].mti = "0400" =>
                            /\ toHost[i].call = d => adapter'[d] \notin {"idle", "authorizing"}
                                                     /\ told'[d] # "approved"
                            /\ told'[d] = "approved" => toHost[i].original # holdStan[d]
    BY <1>3, Operations DEF Travelling
  <2>1. adapter'[d] \in {"idle", "authorizing"} => adapter'[d] = adapter[d]
    BY <1>2 DEF Heard
  <2>2. toHost[i].original < stan
    BY <1>1, <1>3, ConstantsAssumption DEF Blocked
  <2>3. toHost[i].original # stan
    <3>1. toHost[i] \in Msg
      BY <1>1, Fields
    <3> QED
      BY <1>3, <2>2, <3>1 DEF Msg
  <2> QED
    BY <1>1, <1>5, <2>1, <2>3 DEF Travelling
<1>12. Settled'
  <2> SUFFICES ASSUME NEW d \in Call
               PROVE  /\ told'[d] # None <=> adapter'[d] = "done"
                      /\ adapter'[d] = "idle" => holdStan[d] = 0
                      /\ d \in hold => holdStan[d] > 0
                      /\ adapter'[d] = "compensating" => holdStan[d] > 0
                      /\ d \in reversalSent' => told'[d] = "unknown"
    BY DEF Settled
  <2>1. Heard(d, a.code)
    BY <1>2
  <2> QED
    BY <1>1, <1>3, <2>1 DEF Settled, Heard
<1>13. Answers'
  <2>1. \A m \in toAce : m.stan # 0
    BY <1>1, Fields
  <2> QED
    BY <2>1 DEF Answers
<1>14. Promises'
  <2> SUFFICES ASSUME NEW d \in Call PROVE Promised(d)' /\ ReversalSent(d)'
    BY DEF Promises
  <2>1. Promised(d) /\ ReversalSent(d)
    BY <1>1 DEF Promises
  <2>2. (Undone(d)' <=> Undone(d)) /\ (Unqueued(d)' <=> Unqueued(d))
    BY DEF Undone, Unqueued
  <2>3. \A i \in 1..Len(toHost) : Undoing(i, d)' <=> Undoing(i, d)
    BY DEF Undoing
  <2>4. Promised(d)'
    BY <1>5, <1>6, <2>1, <2>2 DEF Promised
  <2>5. ReversalSent(d)'
    BY <1>6, <2>1, <2>2, <2>3 DEF ReversalSent
  <2> QED
    BY <2>4, <2>5
<1> QED
  BY <1>7, <1>8, <1>9, <1>10, <1>11, <1>12, <1>13, <1>14 DEF IsoInv

LEMMA Received == ASSUME IsoInv, NEW a \in toAce, Receive(a) PROVE IsoInv'
<1>1. CASE ace # None /\ a.stan = stan
  BY <1>1, Answered DEF Receive, Unblock, switchVars
<1>2. CASE ~(ace # None /\ a.stan = stan)
  BY <1>2, NotWanted DEF Receive, adapterVars, gatewayVars, switchVars
<1> QED
  BY <1>1, <1>2

-----------------------------------------------------------------------------
(* The switch takes the first message of the connection and answers it.    *)

ServesFirst == toHost # <<>> /\ toHost' = Tail(toHost)

LEMMA FirstServed ==
    ASSUME Typed, ServesFirst
    PROVE  /\ Head(toHost) = toHost[1] /\ 1 \in 1..Len(toHost)
           /\ toHost' \in Seq(Msg) /\ Len(toHost') \in Nat
           /\ \A i \in 1..Len(toHost') : i + 1 \in 1..Len(toHost) /\ toHost'[i] = toHost[i + 1]
           /\ \A i \in 1..Len(toHost) :
                 i # 1 => i - 1 \in 1..Len(toHost') /\ toHost'[i - 1] = toHost[i]
<1>1. toHost \in Seq(Msg)
  BY Fields
<1>2. /\ Head(toHost) = toHost[1] /\ Len(toHost) \in Nat \ {0}
      /\ toHost' \in Seq(Msg) /\ Len(toHost') = Len(toHost) - 1
      /\ \A i \in 1..(Len(toHost) - 1) : toHost'[i] = toHost[i + 1]
  BY <1>1, Taking DEF ServesFirst
<1> QED
  BY <1>2

\* What becomes of a call, and the answer's code.
Served(d, code) ==
    \/ /\ toHost[1].mti = "0200" /\ code = "00"
       /\ IF toHost[1].call = d
          THEN d \in hold' /\ holdStan'[d] = toHost[1].stan
          ELSE (d \in hold' <=> d \in hold) /\ holdStan'[d] = holdStan[d]
    \/ /\ toHost[1].mti \in {"0200", "0800"} /\ code # "00"
       /\ (d \in hold' <=> d \in hold) /\ holdStan'[d] = holdStan[d]
    \/ /\ toHost[1].mti = "0400" /\ holdStan'[d] = holdStan[d]
       /\ d \in hold' <=> d \in hold /\ toHost[1].call # d /\ holdStan[d] # toHost[1].original

LEMMA Serving ==
    ASSUME IsoInv, SwitchServes
    PROVE  \E code \in {"00", "05", "none"} :
              /\ toAce' = toAce \cup {[stan |-> toHost[1].stan, code |-> code]}
              /\ hold' \subseteq Call /\ holdStan' \in [Call -> 0..counter]
              /\ \A d \in Call : Served(d, code)
<1>1. /\ hold \subseteq Call /\ holdStan \in [Call -> 0..counter]
      /\ \A i \in 1..Len(toHost) : toHost[i].mti = "0200" => toHost[i].call \in Call
      /\ \A i \in 1..Len(toHost) : toHost[i].stan \in 1..counter
      /\ counter \in Nat
  BY Fields DEF IsoInv
<1>2. Head(toHost) = toHost[1] /\ 1 \in 1..Len(toHost)
  BY FirstServed DEF SwitchServes, ServesFirst, IsoInv
<1> DEFINE m == toHost[1]
<1>3. CASE Approves(m) /\ Answer(m, "00")
  <2>1. /\ m.mti = "0200" /\ m.call \in Call /\ m.stan \in 0..counter
        /\ hold' = hold \cup {m.call} /\ holdStan' = [holdStan EXCEPT ![m.call] = m.stan]
        /\ toAce' = toAce \cup {[stan |-> m.stan, code |-> "00"]}
    BY <1>1, <1>2, <1>3 DEF Approves, Answer
  <2>2. hold' \subseteq Call /\ holdStan' \in [Call -> 0..counter]
    BY <1>1, <2>1
  <2>3. \A d \in Call : Served(d, "00")
    BY <1>1, <2>1 DEF Served
  <2> QED
    BY <2>1, <2>2, <2>3
<1>4. CASE Declines(m) /\ Answer(m, "05")
  <2>1. \A d \in Call : Served(d, "05")
    BY <1>4 DEF Declines, Served, switchVars
  <2> QED
    BY <1>1, <1>4, <2>1 DEF Declines, Answer, switchVars
<1>5. CASE Reverses(m) /\ Answer(m, "00")
  <2>1. /\ m.mti = "0400" /\ holdStan' = holdStan
        /\ hold' = {c \in hold : ~(c = m.call \/ holdStan[c] = m.original)}
        /\ toAce' = toAce \cup {[stan |-> m.stan, code |-> "00"]}
    BY <1>5 DEF Reverses, Reversed, Answer
  <2>2. \A d \in Call : Served(d, "00")
    BY <2>1 DEF Served
  <2> QED
    BY <1>1, <2>1, <2>2
<1>6. CASE Echoes(m) /\ Answer(m, "none")
  <2>1. \A d \in Call : Served(d, "none")
    BY <1>6 DEF Echoes, Served, switchVars
  <2> QED
    BY <1>1, <1>6, <2>1 DEF Echoes, Answer, switchVars
<1> QED
  BY <1>2, <1>3, <1>4, <1>5, <1>6 DEF SwitchServes

LEMMA SwitchAnswers == ASSUME IsoInv, SwitchServes PROVE IsoInv'
<1>1. /\ Typed /\ Stream /\ Queued /\ Blocked /\ Travelling
      /\ Settled /\ Answers /\ Promises
  BY DEF IsoInv
<1>2. UNCHANGED <<adapter, told, reversalSent, queue, ace, stan, counter, link, drops, beats>>
  BY DEF SwitchServes, adapterVars, gatewayVars
<1>3. /\ 1 \in 1..Len(toHost) /\ toHost' \in Seq(Msg) /\ Len(toHost') \in Nat
      /\ \A i \in 1..Len(toHost') : i + 1 \in 1..Len(toHost) /\ toHost'[i] = toHost[i + 1]
      /\ \A i \in 1..Len(toHost) :
            i # 1 => i - 1 \in 1..Len(toHost') /\ toHost'[i - 1] = toHost[i]
  BY <1>1, FirstServed DEF SwitchServes, ServesFirst
<1>4. PICK code \in {"00", "05", "none"} :
         /\ toAce' = toAce \cup {[stan |-> toHost[1].stan, code |-> code]}
         /\ hold' \subseteq Call /\ holdStan' \in [Call -> 0..counter]
         /\ \A d \in Call : Served(d, code)
  BY Serving
<1>5. PICK h : h = toHost[1]
  OBVIOUS
<1>6. /\ counter \in Nat \ {0} /\ ace \in Op \cup {None} /\ stan \in 0..counter
      /\ None \notin Op /\ (ace = None <=> stan = 0)
      /\ hold \subseteq Call /\ holdStan \in [Call -> 0..counter]
      /\ \A i \in 1..Len(toHost) : toHost[i].stan \in 1..counter
      /\ \A i \in 1..Len(toHost) : toHost[i].mti = "0200" => toHost[i].call \in Call
      /\ \A m \in toAce : m.stan \in 1..counter
      /\ h.stan \in 1..counter /\ h \in Msg
  BY <1>1, <1>3, <1>5, Fields, ConstantsAssumption
<1>8. \A i \in 1..Len(toHost') : h.stan < toHost'[i].stan
  BY <1>1, <1>3, <1>5 DEF Stream
<1>9. \A m \in toAce : m.stan < h.stan
  BY <1>1, <1>3, <1>5 DEF Stream
\* A message of the stream that authorises d, and a hold of d, exclude each other.
<1>10. ASSUME NEW d \in Call, h.mti = "0200", h.call = d
       PROVE  /\ holdStan[d] = 0 /\ adapter[d] # "idle" /\ d \notin hold /\ told[d] # "approved"
              /\ \A i \in 1..Len(toHost') : toHost'[i].mti = "0200" => toHost'[i].call # d
              /\ ace = Auth(d) => h.stan = stan
              /\ ace = Rev(d) => h.stan < stan
              /\ Unqueued(d)
  <2>1. /\ holdStan[d] = 0 /\ adapter[d] # "idle"
        /\ \A i \in 1..Len(toHost) : toHost[i].mti = "0200" /\ toHost[i].call = d => i = 1
        /\ ace = Auth(d) => h.stan = stan
        /\ ace = Rev(d) => h.stan < stan
    BY <1>1, <1>3, <1>5, <1>10 DEF Travelling
  <2>2. d \notin hold /\ told[d] # "approved"
    BY <1>1, <2>1 DEF Settled, Promises, Promised
  <2>3. ASSUME NEW i \in 1..Len(toHost'), toHost'[i].mti = "0200" PROVE toHost'[i].call # d
    <3>1. i + 1 \in 1..Len(toHost) /\ toHost'[i] = toHost[i + 1] /\ i + 1 # 1
      BY <1>3
    <3> QED
      BY <2>1, <2>3, <3>1
  <2>4. Unqueued(d)
    BY <1>1, <1>3, <1>5, <1>10 DEF Queued, Waiting, Unqueued
  <2> QED
    BY <2>1, <2>2, <2>3, <2>4
<1>11. Typed'
  <2>1. /\ \A i \in 1..Len(toHost') : toHost'[i].stan \in 1..counter
        /\ \A i \in 1..Len(toHost') : toHost'[i].mti = "0200" => toHost'[i].call \in Call
    BY <1>3, <1>6
  <2>2. toAce' \subseteq [stan : Nat \ {0}, code : {"00", "05", "none"}]
    <3>1. h.stan \in Nat \ {0}
      BY <1>6
    <3> QED
      BY <1>1, <1>4, <1>5, <3>1 DEF Typed
  <2>3. \A m \in toAce' : m.stan \in 1..counter
    BY <1>4, <1>5, <1>6
  <2> QED
    BY <1>1, <1>2, <1>3, <1>4, <2>1, <2>2, <2>3 DEF Typed, TypeOK
<1>12. Stream'
  <2>1. \A i \in 1..Len(toHost') : toHost'[i].original < toHost'[i].stan
    BY <1>1, <1>3 DEF Stream
  <2>2. ASSUME NEW i \in 1..Len(toHost'), NEW j \in 1..Len(toHost'), i < j
        PROVE  toHost'[i].stan < toHost'[j].stan
    <3>1. i + 1 \in 1..Len(toHost) /\ j + 1 \in 1..Len(toHost) /\ i + 1 < j + 1
      BY <1>3, <2>2
    <3> QED
      BY <1>1, <1>3, <3>1 DEF Stream
  <2>3. ASSUME NEW i \in 1..Len(toHost'), NEW m \in toAce' PROVE m.stan < toHost'[i].stan
    <3>1. CASE m \in toAce
      BY <1>1, <1>3, <3>1 DEF Stream
    <3>2. CASE m.stan = h.stan
      BY <1>8, <3>2
    <3> QED
      BY <1>4, <1>5, <3>1, <3>2
  <2> QED
    BY <2>1, <2>2, <2>3 DEF Stream
<1>13. Queued'
  <2> SUFFICES ASSUME NEW d \in Call PROVE Ordered(d)' /\ Waiting(d)'
    BY DEF Queued
  <2>1. Ordered(d) /\ Waiting(d) /\ Served(d, code)
    BY <1>1, <1>4 DEF Queued
  <2>2. Ordered(d)'
    BY <1>2, <2>1 DEF Ordered
  <2>3. ASSUME NEW i \in 1..Len(queue), queue[i] = Auth(d)
        PROVE  /\ holdStan'[d] = 0
               /\ \A j \in 1..Len(toHost') : toHost'[j].mti = "0200" => toHost'[j].call # d
    <3>1. /\ holdStan[d] = 0
          /\ \A j \in 1..Len(toHost) : toHost[j].mti = "0200" => toHost[j].call # d
      BY <2>1, <2>3 DEF Waiting
    <3>2. ~(toHost[1].mti = "0200" /\ toHost[1].call = d)
      BY <1>3, <3>1
    <3>3. holdStan'[d] = holdStan[d]
      BY <2>1, <3>2 DEF Served
    <3> QED
      BY <1>3, <3>1, <3>3
  <2>4. Waiting(d)'
    BY <1>2, <2>1, <2>3 DEF Waiting
  <2> QED
    BY <2>2, <2>4
<1>14. Blocked'
  <2> SUFFICES ASSUME ace # None
               PROVE  /\ \A i \in 1..Len(toHost') :
                            /\ toHost'[i].stan = stan =>
                                  toHost'[i] = Message(IF ace.op = "authorize" THEN "0200" ELSE "0400",
                                                       stan, ace.call, 0)
                            /\ toHost'[i].original < stan
                      /\ \A c \in Call : holdStan'[c] = stan => ace = Auth(c)
                      /\ adapter[ace.call] # "idle" /\ told[ace.call] # "approved"
                      /\ ace.op = "authorize" => holdStan'[ace.call] \in {0, stan}
                      /\ ace.op = "reverse" => adapter[ace.call] # "authorizing"
    BY <1>2 DEF Blocked
  <2>1. \A i \in 1..Len(toHost) :
            /\ toHost[i].stan = stan =>
                  toHost[i] = Message(IF ace.op = "authorize" THEN "0200" ELSE "0400",
                                      stan, ace.call, 0)
            /\ toHost[i].original < stan
    BY <1>1 DEF Blocked
  <2>2. /\ \A c \in Call : holdStan[c] = stan => ace = Auth(c)
        /\ adapter[ace.call] # "idle" /\ told[ace.call] # "approved"
        /\ ace.op = "authorize" => holdStan[ace.call] \in {0, stan}
        /\ ace.op = "reverse" => adapter[ace.call] # "authorizing"
    BY <1>1 DEF Blocked
  <2>3. ace = [op |-> ace.op, call |-> ace.call] /\ ace.op \in {"authorize", "reverse"} /\ ace.call \in Call
    BY <1>6 DEF Op
  <2>4. ace.op = "authorize" => ace = Auth(ace.call)
    BY <2>3 DEF Auth
  <2>5. ASSUME NEW c \in Call, holdStan'[c] = stan PROVE ace = Auth(c)
    <3>1. CASE holdStan'[c] = holdStan[c]
      BY <2>2, <2>5, <3>1
    <3>2. CASE h.mti = "0200" /\ h.call = c /\ holdStan'[c] = h.stan
      <4>1. h = Message(IF ace.op = "authorize" THEN "0200" ELSE "0400", stan, ace.call, 0)
        BY <1>3, <1>5, <2>1, <2>5, <3>2
      <4>2. ace.op = "authorize" /\ ace.call = c
        BY <2>3, <3>2, <4>1 DEF Message
      <4> QED
        BY <2>4, <4>2
    <3> QED
      BY <1>4, <1>5, <3>1, <3>2 DEF Served
  <2>6. ace.op = "authorize" => holdStan'[ace.call] \in {0, stan}
    <3>1. CASE holdStan'[ace.call] = holdStan[ace.call]
      BY <2>2, <3>1
    <3>2. CASE h.mti = "0200" /\ h.call = ace.call /\ holdStan'[ace.call] = h.stan
      BY <1>10, <2>3, <2>4, <3>2
    <3> QED
      BY <1>4, <1>5, <2>3, <3>1, <3>2 DEF Served
  <2> QED
    BY <1>3, <2>1, <2>2, <2>5, <2>6
<1>15. Travelling'
  <2> SUFFICES ASSUME NEW d \in Call, NEW i \in 1..Len(toHost')
               PROVE  /\ toHost'[i].mti = "0200" /\ toHost'[i].call = d =>
                            /\ holdStan'[d] = 0 /\ adapter[d] # "idle"
                            /\ \A j \in 1..Len(toHost') : toHost'[j].mti = "0200" /\ toHost'[j].call = d => i = j
                            /\ ace = Auth(d) => toHost'[i].stan = stan
                            /\ ace = Rev(d) => toHost'[i].stan < stan
                            /\ toHost'[i].original = 0
                      /\ toHost'[i].mti = "0400" =>
                            /\ toHost'[i].call = d => adapter[d] \notin {"idle", "authorizing"}
                                                      /\ told[d] # "approved"
                            /\ told[d] = "approved" => toHost'[i].original # holdStan'[d]
    BY <1>2 DEF Travelling
  <2>1. i + 1 \in 1..Len(toHost) /\ toHost'[i] = toHost[i + 1]
    BY <1>3
  <2>2. \/ holdStan'[d] = holdStan[d]
        \/ h.mti = "0200" /\ h.call = d
    BY <1>4, <1>5 DEF Served
  <2>3. CASE toHost'[i].mti = "0200" /\ toHost'[i].call = d
    <3>1. holdStan'[d] = holdStan[d]
      BY <1>10, <2>2, <2>3
    <3>2. \A j \in 1..Len(toHost') :
             toHost'[j].mti = "0200" /\ toHost'[j].call = d => i + 1 = j + 1
      BY <1>1, <1>3, <2>1, <2>3, SMTT(40) DEF Travelling
    <3>3. \A j \in 1..Len(toHost') :
             toHost'[j].mti = "0200" /\ toHost'[j].call = d => i = j
      BY <1>3, <3>2
    <3> QED
      BY <1>1, <2>1, <2>3, <3>1, <3>3 DEF Travelling
  <2>4. CASE toHost'[i].mti = "0400"
    <3>1. told[d] = "approved" => holdStan'[d] = holdStan[d]
      BY <1>10, <2>2
    <3> QED
      BY <1>1, <2>1, <2>4, <3>1 DEF Travelling
  <2> QED
    BY <2>3, <2>4
<1>16. Settled'
  <2> SUFFICES ASSUME NEW d \in Call
               PROVE  /\ told[d] # None <=> adapter[d] = "done"
                      /\ adapter[d] = "idle" => holdStan'[d] = 0
                      /\ d \in hold' => holdStan'[d] > 0
                      /\ adapter[d] = "compensating" => holdStan'[d] > 0
                      /\ d \in reversalSent => told[d] = "unknown"
    BY <1>2 DEF Settled
  <2>1. \/ holdStan'[d] = holdStan[d] /\ (d \in hold' => d \in hold)
        \/ h.mti = "0200" /\ h.call = d /\ holdStan'[d] = h.stan
    BY <1>4, <1>5 DEF Served
  <2> QED
    BY <1>1, <1>6, <1>10, <2>1 DEF Settled
<1>17. Answers'
  <2> SUFFICES ASSUME NEW m \in toAce', NEW c \in Call, m.stan = stan
               PROVE  /\ ace = Auth(c) /\ adapter[c] = "authorizing" => (m.code = "00" <=> c \in hold')
                      /\ ace = Rev(c) => c \notin hold'
    BY <1>2 DEF Answers
  <2>1. Served(c, code) /\ Auth(c) \in Op /\ Rev(c) \in Op
    BY <1>4, Operations
  <2>2. CASE m \in toAce
    <3>1. m.stan < h.stan /\ m.stan \in Nat /\ h.stan \in Nat
      BY <1>6, <1>9, <2>2
    <3>2. ace \in {Auth(c), Rev(c)} => ~(h.mti = "0200" /\ h.call = c)
      BY <1>10, <3>1
    <3>3. ASSUME ace = Auth(c), adapter[c] = "authorizing" PROVE c \in hold' <=> c \in hold
      <4>1. CASE h.mti = "0400"
        <5>1. h.call # c
          BY <1>1, <1>3, <1>5, <3>3, <4>1 DEF Travelling
        <5>2. c \in hold => holdStan[c] = stan
          BY <1>1, <1>6, <2>1, <3>3, Operations DEF Settled, Blocked
        <5>3. h.original < stan /\ h.original \in Nat
          BY <1>1, <1>3, <1>5, <1>6, <2>1, <3>3 DEF Blocked, Msg
        <5> QED
          BY <1>5, <1>6, <2>1, <4>1, <5>1, <5>2, <5>3 DEF Served
      <4>2. CASE h.mti # "0400"
        BY <1>5, <2>1, <3>2, <3>3, <4>2 DEF Served
      <4> QED
        BY <4>1, <4>2
    <3>4. ASSUME ace = Rev(c) PROVE c \in hold' => c \in hold
      BY <1>5, <2>1, <3>2, <3>4 DEF Served
    <3> QED
      BY <1>1, <2>2, <3>3, <3>4 DEF Answers
  <2>3. CASE m = [stan |-> h.stan, code |-> code]
    <3>1. h.stan = stan /\ m.code = code
      BY <2>3
    <3>2. ace # None => h = Message(IF ace.op = "authorize" THEN "0200" ELSE "0400", stan, ace.call, 0)
      BY <1>1, <1>3, <1>5, <3>1 DEF Blocked
    <3>3. ASSUME ace = Auth(c) PROVE m.code = "00" <=> c \in hold'
      <4>1. h.mti = "0200" /\ h.call = c
        BY <1>6, <2>1, <3>2, <3>3, Operations DEF Message
      <4>2. c \notin hold
        BY <1>10, <4>1
      <4> QED
        BY <1>5, <2>1, <3>1, <4>1, <4>2 DEF Served
    <3>4. ASSUME ace = Rev(c) PROVE c \notin hold'
      <4>1. h.mti = "0400" /\ h.call = c
        BY <1>6, <2>1, <3>2, <3>4, Operations DEF Message
      <4> QED
        BY <1>5, <2>1, <4>1 DEF Served
    <3> QED
      BY <3>3, <3>4
  <2> QED
    BY <1>4, <1>5, <2>2, <2>3
<1>18. Promises'
  <2> SUFFICES ASSUME NEW d \in Call PROVE Promised(d)' /\ ReversalSent(d)'
    BY DEF Promises
  <2>1. Promised(d) /\ ReversalSent(d) /\ Served(d, code)
    BY <1>1, <1>4 DEF Promises
  <2>2. Unqueued(d)' <=> Unqueued(d)
    BY <1>2 DEF Unqueued
  <2>3. Undone(d) => Undone(d)'
    BY <1>3, <2>1 DEF Undone, Served
  <2>4. ASSUME told[d] = "approved" PROVE d \in hold'
    <3>1. d \in hold
      BY <2>1, <2>4 DEF Promised
    <3>2. h.mti = "0400" => h.call # d /\ h.original # holdStan[d]
      BY <1>1, <1>3, <1>5, <2>4 DEF Travelling
    <3> QED
      BY <1>5, <2>1, <3>1, <3>2 DEF Served
  <2>5. Promised(d)'
    BY <1>2, <2>1, <2>2, <2>3, <2>4 DEF Promised
  <2>6. ASSUME NEW i \in 1..Len(toHost), Undoing(i, d)
        PROVE  Undone(d)' \/ \E j \in 1..Len(toHost') : Undoing(j, d)'
    <3>1. /\ toHost[i].mti = "0400"
          /\ \/ toHost[i].call = d
             \/ /\ toHost[i].original # 0
                /\ \/ holdStan[d] = toHost[i].original
                   \/ \E k \in 1..Len(toHost) :
                         toHost[k] = Message("0200", toHost[i].original, d, 0)
          /\ \A j \in i..Len(toHost) : toHost[j].mti = "0200" => toHost[j].call # d
      BY <2>6 DEF Undoing
    <3>2. CASE i = 1
      <4>1. \A j \in 1..Len(toHost) : toHost[j].mti = "0200" => toHost[j].call # d
        BY <3>1, <3>2
      <4>2. h.call = d \/ holdStan[d] = h.original
        BY <1>5, <3>1, <3>2, <4>1 DEF Message
      <4>3. d \notin hold'
        BY <1>5, <2>1, <3>1, <3>2, <4>2 DEF Served
      <4> QED
        BY <1>3, <4>1, <4>3 DEF Undone
    <3>3. CASE i # 1 /\ h.mti = "0200" /\ h.call = d /\ code # "00"
      <4>1. d \notin hold'
        BY <1>5, <1>10, <2>1, <3>3 DEF Served
      <4> QED
        BY <1>10, <3>3, <4>1 DEF Undone
    <3>4. CASE i # 1 /\ ~(h.mti = "0200" /\ h.call = d /\ code # "00")
      <4>1. PICK n \in 1..Len(toHost') : n = i - 1 /\ toHost'[n] = toHost[i]
        BY <1>3, <3>4
      <4>2. \A j \in n..Len(toHost') : toHost'[j].mti = "0200" => toHost'[j].call # d
        <5> SUFFICES ASSUME NEW j \in n..Len(toHost'), toHost'[j].mti = "0200"
                     PROVE  toHost'[j].call # d
          OBVIOUS
        <5>1. j \in 1..Len(toHost') /\ j + 1 \in i..Len(toHost) /\ toHost'[j] = toHost[j + 1]
          BY <1>3, <4>1
        <5> QED
          BY <3>1, <5>1
      <4>3. ASSUME holdStan[d] = toHost[i].original, toHost[i].original # 0
            PROVE  holdStan'[d] = toHost[i].original
        BY <1>5, <1>10, <2>1, <4>3 DEF Served
      <4>4. ASSUME NEW k \in 1..Len(toHost), toHost[k] = Message("0200", toHost[i].original, d, 0)
            PROVE  \/ holdStan'[d] = toHost[i].original
                   \/ \E l \in 1..Len(toHost') :
                         toHost'[l] = Message("0200", toHost[i].original, d, 0)
        <5>1. CASE k = 1
          <6>1. h.mti = "0200" /\ h.call = d /\ h.stan = toHost[i].original
            BY <1>5, <4>4, <5>1 DEF Message
          <6> QED
            BY <1>5, <2>1, <3>4, <6>1 DEF Served
        <5>2. CASE k # 1
          BY <1>3, <4>4, <5>2
        <5> QED
          BY <5>1, <5>2
      <4>5. /\ toHost'[n].mti = "0400"
            /\ \/ toHost'[n].call = d
               \/ /\ toHost'[n].original # 0
                  /\ \/ holdStan'[d] = toHost'[n].original
                     \/ \E l \in 1..Len(toHost') :
                           toHost'[l] = Message("0200", toHost'[n].original, d, 0)
        BY <3>1, <4>1, <4>3, <4>4
      <4>6. Undoing(n, d)'
        BY <4>2, <4>5 DEF Undoing
      <4> QED
        BY <4>6
    <3> QED
      BY <3>2, <3>3, <3>4
  <2>7. ReversalSent(d)'
    <3>1. CASE drops = 0 /\ d \in reversalSent
      <4>1. Unqueued(d) /\ (Undone(d) \/ \E i \in 1..Len(toHost) : Undoing(i, d))
        BY <2>1, <3>1 DEF ReversalSent
      <4>2. Undone(d)' \/ \E i \in 1..Len(toHost') : Undoing(i, d)'
        BY <2>3, <2>6, <4>1
      <4> QED
        BY <2>2, <4>1, <4>2 DEF ReversalSent
    <3>2. CASE ~(drops = 0 /\ d \in reversalSent)
      BY <1>2, <3>2 DEF ReversalSent
    <3> QED
      BY <3>1, <3>2
  <2> QED
    BY <2>5, <2>7
<1> QED
  BY <1>11, <1>12, <1>13, <1>14, <1>15, <1>16, <1>17, <1>18 DEF IsoInv

-----------------------------------------------------------------------------
LEMMA IsoNext == ASSUME IsoInv, [Next]_vars PROVE IsoInv'
<1>1. CASE UNCHANGED vars
  <2>1. UNCHANGED <<adapter, told, reversalSent, queue, ace, stan, counter, link, toHost, toAce,
                    hold, holdStan, drops, beats>>
    BY <1>1 DEF vars, adapterVars, gatewayVars, switchVars
  <2> QED
    BY <2>1 DEF IsoInv, Typed, TypeOK, Stream, Queued, Ordered, Waiting, Blocked, Travelling,
                Settled, Answers, Promises, Promised, ReversalSent, Undone, Unqueued, Undoing
<1>2. ASSUME NEW c \in Call, Authorize(c) \/ SoapTimeout(c) \/ Compensate(c) PROVE IsoInv'
  BY <1>2, AdapterAsks
<1>3. ASSUME NEW c \in Call, ReverseTimeout(c) PROVE IsoInv'
  BY <1>3, AdapterGivesUp
<1>4. CASE Take
  BY <1>4, Taken
<1>5. CASE Timeout
  BY <1>5, TimedOut
<1>6. CASE Abandon
  BY <1>6, Abandoned
<1>7. CASE Heartbeat \/ Connect
  BY <1>7, NetworkMessage
<1>8. CASE Drop
  BY <1>8, Dropped
<1>9. ASSUME NEW m \in toAce, Receive(m) PROVE IsoInv'
  BY <1>9, Received
<1>10. CASE SwitchServes
  BY <1>10, SwitchAnswers
<1> QED
  BY <1>1, <1>2, <1>3, <1>4, <1>5, <1>6, <1>7, <1>8, <1>9, <1>10 DEF Next

LEMMA IsoAlways == Spec => []IsoInv
<1>1. Init => IsoInv
  BY IsoInit
<1>2. IsoInv /\ [Next]_vars => IsoInv'
  BY IsoNext
<1> QED
  BY <1>1, <1>2, PTL DEF Spec

-----------------------------------------------------------------------------
(* The queue, as the properties speak of it.                               *)
LEMMA NotQueued ==
    ASSUME Typed, NEW c \in Call
    PROVE  Unqueued(c) <=> [op |-> "authorize", call |-> c] \notin Range(queue)
<1>1. queue \in Seq(Op)
  BY Fields
<1> QED
  BY <1>1, InRange DEF Unqueued, Auth

LEMMA StillUndoes ==
    ASSUME Typed, NEW c \in Call, NEW i \in 1..Len(toHost), Undoing(i, c)
    PROVE  /\ Undoes(toHost[i], c)
           /\ \A j \in i..Len(toHost) : toHost[j].mti = "0200" => toHost[j].call # c
<1>1. toHost \in Seq(Msg)
  BY Fields
<1>2. \A m : m \in Range(toHost) <=> \E k \in 1..Len(toHost) : toHost[k] = m
  BY <1>1, InRange
<1> QED
  BY <1>2 DEF Undoing, Undoes, Names

-----------------------------------------------------------------------------
\* Every state is one of the types TypeOK gives: STANs are drawn from the one
\* counter, and there is a STAN exactly when the gateway blocks on a request.
THEOREM TypeCorrect == Spec => []TypeOK
<1>1. IsoInv => TypeOK
  BY DEF IsoInv, Typed
<1> QED
  BY <1>1, IsoAlways, PTL

\* An approval the adapter reports is the answer to that call's own 0200: the
\* switch holds the money, however late, lost or reordered the answers are.
THEOREM ApprovalIsHeld == Spec => []ApprovedIsHeld
<1>1. IsoInv => ApprovedIsHeld
  BY DEF IsoInv, Promises, Promised, ApprovedIsHeld
<1> QED
  BY <1>1, IsoAlways, PTL

\* A call reported as declined or reversed holds nothing at the switch, and no
\* 0200 of it is on the connection or in the gateway's queue.
THEOREM UndoneHoldsNothing == Spec => []UndoneIsNotHeld
<1>1. IsoInv => UndoneIsNotHeld
  BY NotQueued DEF IsoInv, Promises, Promised, UndoneIsNotHeld
<1> QED
  BY <1>1, IsoAlways, PTL

\* While the connection has stayed up, a call answered with reversal_sent holds
\* nothing, or a reversal on its way will undo whatever it holds by then.
THEOREM ReversalUndoes == Spec => []SentReversalUndoes
<1>1. ASSUME IsoInv PROVE SentReversalUndoes
  <2> SUFFICES ASSUME drops = 0, NEW c \in reversalSent
               PROVE  /\ [op |-> "authorize", call |-> c] \notin Range(queue)
                      /\ \/ Undone(c)
                         \/ \E i \in 1..Len(toHost) :
                               /\ Undoes(toHost[i], c)
                               /\ \A j \in i..Len(toHost) :
                                     toHost[j].mti = "0200" => toHost[j].call # c
    BY DEF SentReversalUndoes
  <2>1. Typed /\ c \in Call
    BY <1>1, Fields DEF IsoInv
  <2>2. Unqueued(c) /\ (Undone(c) \/ \E i \in 1..Len(toHost) : Undoing(i, c))
    BY <1>1, <2>1 DEF IsoInv, Promises, ReversalSent
  <2>3. [op |-> "authorize", call |-> c] \notin Range(queue)
    BY <2>1, <2>2, NotQueued
  <2>4. ASSUME NEW i \in 1..Len(toHost), Undoing(i, c)
        PROVE  /\ Undoes(toHost[i], c)
               /\ \A j \in i..Len(toHost) : toHost[j].mti = "0200" => toHost[j].call # c
    BY <2>1, <2>4, StillUndoes
  <2> QED
    BY <2>2, <2>3, <2>4
<1> QED
  BY <1>1, IsoAlways, PTL
=============================================================================
