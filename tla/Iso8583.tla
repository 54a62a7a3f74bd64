------------------------------ MODULE Iso8583 -------------------------------
(***************************************************************************)
(* From the ISO 8583 adapter to the switch: the adapter's SOAP calls, the  *)
(* gateway (ace-stub) that serves them one at a time because its event     *)
(* loop blocks in send_and_wait, the correlation of 0210s with 0200s by    *)
(* STAN, the automatic reversal on a timeout, and the one TCP connection,  *)
(* which heartbeats use too and which can drop with everything on it.      *)
(* The switch is outside the repository: it approves or declines, may stay *)
(* silent, may answer out of order, and acknowledges every reversal.       *)
(*   A message is here a record; that its bytes are read as they were      *)
(* written, on a stream TCP cuts where it likes, is for Codec to show.     *)
(***************************************************************************)
EXTENDS Integers, Sequences, SequencesExt, Codec

CONSTANTS
    Call,      \* authorisations the adapter is asked for
    MaxEvents, \* bound: heartbeats sent and connections dropped, together
    None       \* "nothing told", "no operation"

Verdict == {"approved", "declined", "unknown", "unavailable", "reversed"}
Op == [op : {"authorize", "reverse"}, call : Call]

ASSUME ConstantsAssumption ==
    MaxEvents \in Nat /\ None \notin Call \cup Verdict /\ None \notin Op

VARIABLES
    adapter,       \* per call: what the adapter is doing for it
    told,          \* per call: what the adapter last answered
    reversalSent,  \* calls answered with reversal_sent, as the adapter says
    queue,         \* SOAP requests the gateway has not taken yet
    ace, stan,     \* the operation it blocks on, or None, and its STAN
    counter,       \* _stan_counter (a million values, then it wraps)
    link,          \* the TCP connection is up
    toHost, toAce, \* messages on it; answers may overtake each other
    hold, holdStan,\* calls the switch holds money for, and their 0200's STAN
    drops, beats   \* bounds

adapterVars == <<adapter, told, reversalSent>>
gatewayVars == <<ace, stan>>
switchVars == <<hold, holdStan>>
vars == <<adapterVars, queue, gatewayVars, counter, link, toHost, toAce,
          switchVars, drops, beats>>

Listening(o) == adapter[o.call] \in
    IF o.op = "authorize" THEN {"authorizing"} ELSE {"undoing", "compensating"}

\* An 0200 carries its call; an explicit 0400 names it by card, amount and RRN;
\* an automatic 0400 only by the STAN of the original, in DE 90.
Message(mti, s, c, original) ==
    [mti |-> mti, stan |-> s, call |-> c, original |-> original]

Init ==
    /\ adapter = [c \in Call |-> "idle"]
    /\ told = [c \in Call |-> None]
    /\ reversalSent = {} /\ queue = <<>>
    /\ ace = None /\ stan = 0 /\ counter = 1
    /\ link = TRUE /\ toHost = <<>> /\ toAce = {}
    /\ hold = {} /\ holdStan = [c \in Call |-> 0]
    /\ drops = 0 /\ beats = 0

-----------------------------------------------------------------------------
(* The adapter.                                                            *)

Become(c, step) == adapter' = [adapter EXCEPT ![c] = step]
Tell(c, verdict) == /\ Become(c, "done")
                    /\ told' = [told EXCEPT ![c] = verdict]
Ask(c, operation) == queue' = Append(queue, [op |-> operation, call |-> c])

Authorize(c) ==
    /\ adapter[c] = "idle"
    /\ Become(c, "authorizing")
    /\ Ask(c, "authorize")
    /\ UNCHANGED <<told, reversalSent, gatewayVars, counter, link, toHost,
                   toAce, switchVars, drops, beats>>

\* SoapTimeout (20 s): the adapter sends a reversal of its own.
SoapTimeout(c) ==
    /\ adapter[c] = "authorizing"
    /\ Become(c, "undoing")
    /\ Ask(c, "reverse")
    /\ UNCHANGED <<told, reversalSent, gatewayVars, counter, link, toHost,
                   toAce, switchVars, drops, beats>>

\* The saga's compensation of an approved authorisation.
Compensate(c) ==
    /\ adapter[c] = "done" /\ told[c] = "approved"
    /\ Become(c, "compensating")
    /\ told' = [told EXCEPT ![c] = None]
    /\ Ask(c, "reverse")
    /\ UNCHANGED <<reversalSent, gatewayVars, counter, link, toHost, toAce,
                   switchVars, drops, beats>>

\* A reversal that is not answered in time (10 s, or 20 s): not acknowledged.
ReverseTimeout(c) ==
    /\ adapter[c] \in {"undoing", "compensating"}
    /\ Tell(c, "unknown")
    /\ UNCHANGED <<reversalSent, queue, gatewayVars, counter, link, toHost,
                   toAce, switchVars, drops, beats>>

-----------------------------------------------------------------------------
(* What the adapter makes of the gateway's answers.                        *)

Unheard(o) == ~Listening(o) /\ UNCHANGED adapterVars

\* "00" approves, anything else declines; an answered reversal is an
\* acknowledged one whatever its code.
HearAnswer(o, code) ==
    \/ Unheard(o)
    \/ /\ Listening(o) /\ o.op = "authorize"
       /\ Tell(o.call, IF code = "00" THEN "approved" ELSE "declined")
       /\ UNCHANGED reversalSent
    \/ /\ adapter[o.call] = "undoing" /\ o.op = "reverse"
       /\ Tell(o.call, "unknown")
       /\ reversalSent' = reversalSent \cup {o.call}
    \/ /\ adapter[o.call] = "compensating" /\ o.op = "reverse"
       /\ Tell(o.call, "reversed")
       /\ UNCHANGED reversalSent

\* SWITCH_TIMEOUT: outcome unknown, reversal sent.
HearTimeout(o) ==
    \/ Unheard(o)
    \/ /\ Listening(o)
       /\ Tell(o.call, "unknown")
       /\ reversalSent' = IF o.op = "authorize" THEN reversalSent \cup {o.call}
                                                ELSE reversalSent

\* SWITCH_DOWN: a 503 for an authorisation, a failed reversal otherwise.
HearDown(o) ==
    \/ Unheard(o)
    \/ /\ Listening(o)
       /\ Tell(o.call, IF o.op = "authorize" THEN "unavailable" ELSE "unknown")
       /\ UNCHANGED reversalSent

-----------------------------------------------------------------------------
(* The gateway.                                                            *)

\* Every message takes the next STAN.
Send(mti, c, original) ==
    /\ counter' = counter + 1
    /\ toHost' = Append(toHost, Message(mti, counter + 1, c, original))

\* send_and_wait: register the STAN, send, block.
Take ==
    /\ ace = None /\ queue # <<>>
    /\ queue' = Tail(queue)
    /\ LET o == Head(queue) IN
       \/ /\ link
          /\ Send(IF o.op = "authorize" THEN "0200" ELSE "0400", o.call, 0)
          /\ ace' = o /\ stan' = counter + 1
          /\ UNCHANGED adapterVars
       \/ /\ ~link
          /\ HearDown(o)
          /\ UNCHANGED <<counter, toHost, gatewayVars>>
    /\ UNCHANGED <<link, toAce, switchVars, drops, beats>>

\* The client hung up before its request was taken: the server drops it.
Abandon ==
    /\ ace = None /\ queue # <<>> /\ ~Listening(Head(queue))
    /\ queue' = Tail(queue)
    /\ UNCHANGED <<adapterVars, gatewayVars, counter, link, toHost, toAce,
                   switchVars, drops, beats>>

Unblock == ace' = None /\ stan' = 0

\* Bug: whatever arrives answers whatever is waiting.
Receive_AnyStan(m) ==
    /\ m \in toAce
    /\ toAce' = toAce \ {m}
    /\ IF ace # None
       THEN HearAnswer(ace, m.code) /\ Unblock
       ELSE UNCHANGED <<adapterVars, gatewayVars>>
    /\ UNCHANGED <<queue, counter, link, toHost, switchVars, drops, beats>>

\* The receive loop: a response is matched by its STAN, or nobody wants it.
Receive(m) ==
    /\ m \in toAce
    /\ toAce' = toAce \ {m}
    /\ IF ace # None /\ m.stan = stan
       THEN HearAnswer(ace, m.code) /\ Unblock
       ELSE UNCHANGED <<adapterVars, gatewayVars>>
    /\ UNCHANGED <<queue, counter, link, toHost, switchVars, drops, beats>>

\* Bug: the pending request is not forgotten.
Timeout_StillPending ==
    /\ ace # None
    /\ \/ link /\ Send("0400", None, stan) /\ HearTimeout(ace)
       \/ ~link /\ HearDown(ace) /\ UNCHANGED <<counter, toHost>>
    /\ stan' = 0
    /\ UNCHANGED <<ace, queue, link, toAce, switchVars, drops, beats>>

\* Bug: the outcome of a timeout is taken for a decline.
Timeout_Declines ==
    /\ ace # None
    /\ \/ link /\ Send("0400", None, stan) /\ HearAnswer(ace, "68")
       \/ ~link /\ HearDown(ace) /\ UNCHANGED <<counter, toHost>>
    /\ Unblock
    /\ UNCHANGED <<queue, link, toAce, switchVars, drops, beats>>

\* Bug: no reversal is sent.
Timeout_NoReversal ==
    /\ ace # None
    /\ HearTimeout(ace)
    /\ Unblock
    /\ UNCHANGED <<counter, queue, link, toHost, toAce, switchVars, drops, beats>>

\* No answer in 10 s: a reversal naming the STAN, sent once, and "unknown".
\* With the connection down, sending it raises the exception that says the
\* switch was never reached.
Timeout ==
    /\ ace # None
    /\ \/ link /\ Send("0400", None, stan) /\ HearTimeout(ace)
       \/ ~link /\ HearDown(ace) /\ UNCHANGED <<counter, toHost>>
    /\ Unblock
    /\ UNCHANGED <<queue, link, toAce, switchVars, drops, beats>>

Heartbeat ==
    /\ link /\ drops + beats < MaxEvents
    /\ Send("0800", None, 0)
    /\ beats' = beats + 1
    /\ UNCHANGED <<adapterVars, queue, gatewayVars, link, toAce, switchVars, drops>>

\* The connection drops with everything on it.
Drop ==
    /\ link /\ drops + beats < MaxEvents
    /\ link' = FALSE /\ toHost' = <<>> /\ toAce' = {}
    /\ drops' = drops + 1
    /\ UNCHANGED <<adapterVars, queue, gatewayVars, counter, switchVars, beats>>

\* Reconnected, and signed on.
Connect ==
    /\ ~link
    /\ link' = TRUE
    /\ Send("0800", None, 0)
    /\ UNCHANGED <<adapterVars, queue, gatewayVars, toAce, switchVars, drops, beats>>

-----------------------------------------------------------------------------
(* The switch.                                                             *)

Reversed(m) == {c \in hold : c = m.call \/ holdStan[c] = m.original}

\* What becomes of a message: holds afterwards, and the answer's DE 39.
Approves(m) == m.mti = "0200" /\ hold' = hold \cup {m.call}
                              /\ holdStan' = [holdStan EXCEPT ![m.call] = m.stan]
Declines(m) == m.mti = "0200" /\ UNCHANGED switchVars
Reverses(m) == m.mti = "0400" /\ hold' = hold \ Reversed(m) /\ UNCHANGED holdStan
Echoes(m)   == m.mti = "0800" /\ UNCHANGED switchVars

\* An answer may be late or lost: nothing makes Receive happen.
Answer(m, code) == toAce' = toAce \cup {[stan |-> m.stan, code |-> code]}

SwitchServes ==
    /\ toHost # <<>>
    /\ toHost' = Tail(toHost)
    /\ LET m == Head(toHost) IN
       \/ Approves(m) /\ Answer(m, "00")
       \/ Declines(m) /\ Answer(m, "05")
       \/ Reverses(m) /\ Answer(m, "00")
       \/ Echoes(m) /\ Answer(m, "none")
    /\ UNCHANGED <<adapterVars, queue, gatewayVars, counter, link, drops, beats>>

-----------------------------------------------------------------------------
Next ==
    \/ \E c \in Call : \/ Authorize(c) \/ SoapTimeout(c)
                       \/ Compensate(c) \/ ReverseTimeout(c)
    \/ Take \/ Timeout \/ Abandon \/ Heartbeat \/ Drop \/ Connect
    \/ \E m \in toAce : Receive(m)
    \/ SwitchServes

Spec == Init /\ [][Next]_vars

-----------------------------------------------------------------------------
TypeOK ==
    /\ adapter \in [Call -> {"idle", "authorizing", "undoing", "compensating", "done"}]
    /\ told \in [Call -> Verdict \cup {None}]
    /\ reversalSent \subseteq Call
    /\ queue \in Seq(Op)
    /\ ace \in Op \cup {None} /\ stan \in 0..counter
    /\ counter \in Nat \ {0} /\ link \in BOOLEAN
    /\ \A i \in 1..Len(toHost) : toHost[i].stan \in 1..counter
    /\ \A m \in toAce : m.stan \in 1..counter
    /\ hold \subseteq Call /\ holdStan \in [Call -> 0..counter]
    /\ drops \in 0..MaxEvents /\ beats \in 0..MaxEvents
    /\ ace = None <=> stan = 0

Undone(c) == c \notin hold /\ \A i \in 1..Len(toHost) :
                 toHost[i].mti = "0200" => toHost[i].call # c

\* An approval is the answer to this call's own 0200, never a late or a
\* reordered answer to another message: the switch holds the money.
ApprovedIsHeld == \A c \in Call : told[c] = "approved" => c \in hold

\* A call reported as declined or reversed holds nothing at the switch, and
\* nothing on the way there will change that.
UndoneIsNotHeld ==
    \A c \in Call : told[c] \in {"declined", "reversed"} =>
        Undone(c) /\ [op |-> "authorize", call |-> c] \notin Range(queue)

\* A call answered with reversal_sent holds nothing at the switch, or a reversal
\* that will undo it is on its way there and nothing can authorise it after
\* that: for as long as the connection stayed up, since the automatic reversal
\* is sent only once.
Names(original, c) ==
    /\ original # 0
    /\ \/ holdStan[c] = original
       \/ Message("0200", original, c, 0) \in Range(toHost)
Undoes(m, c) == m.mti = "0400" /\ (m.call = c \/ Names(m.original, c))
SentReversalUndoes ==
    drops = 0 => \A c \in reversalSent :
        /\ [op |-> "authorize", call |-> c] \notin Range(queue)
        /\ \/ Undone(c)
           \/ \E i \in 1..Len(toHost) :
                 /\ Undoes(toHost[i], c)
                 /\ \A j \in i..Len(toHost) :
                       toHost[j].mti = "0200" => toHost[j].call # c

\* "Never reached the switch, so nothing was authorized and no reversal is
\* needed" (ace-stub, SWITCH_DOWN).
UnavailableIsNotHeld == \A c \in Call : told[c] = "unavailable" => c \notin hold

-----------------------------------------------------------------------------
(* What lets a message arrive whole.  Both are about values, not states, and *)
(* are evaluated in the initial state only.                                  *)

\* Data elements survive build_message and parse_message, whatever their kind.
ElementsReadBack == Init => EveryElementReadsBack

\* Framing gives every message back whole, however TCP segments the stream.
StreamsSplitBack == Init => StreamSplitsBack
=============================================================================
