----------------------------- MODULE Mediation ------------------------------
(***************************************************************************)
(* One request of iso8583-adapter, from its REST body to the message the   *)
(* switch reads and back: the PIN block, the SOAP envelope, the mapping of *)
(* its elements to data elements and of the answer's to the response.      *)
(* Every step renames, pads, hexes or drops something; Iso8583 carries a   *)
(* call from one end to the other as a single value, and this module is    *)
(* why it may.                                                             *)
(*   An element is digits or latin-1 characters, as in Codec.              *)
(***************************************************************************)
EXTENDS Codec

Absent == <<-1>>       \* Python's None
Currency == <<8, 4, 0>>
Unknown == Replicate(0, 6)

-----------------------------------------------------------------------------
(* The PIN block: ISO 9564 format 0, encrypted under a key of its own.     *)

F == 15
Ending(s, n) == SubSeq(s, Len(s) - n + 1, Len(s))

build_pin_field(pin) == <<0, Len(pin)>> \o pin \o Replicate(F, 14 - Len(pin))

\* pan[-13:-1]: the 12 digits before the check digit, 11 of the shortest card.
build_pan_field(pan) ==
    LET digits == Ending(SubSeq(pan, 1, Len(pan) - 1), LeastOf(12, Len(pan) - 1))
    IN  Replicate(0, 16 - Len(digits)) \o digits

Xor(x, y) == FromBits([k \in 1..8 |-> (Bit(x, k) + Bit(y, k)) % 2])
XorEach(a, b) == [i \in DOMAIN a |-> Xor(a[i], b[i])]
Bytes(nibbles) == bcd_encode(nibbles)
Nibbles(bytes) == bcd_decode(bytes, 2 * Len(bytes))

build_iso0_pin_block(pin, pan) ==
    Bytes(XorEach(build_pin_field(pin), build_pan_field(pan)))

recover_pin(block, pan) ==
    LET field == XorEach(Nibbles(block), build_pan_field(pan))
    IN  SubSeq(field, 3, 2 + field[2])

\* _next_ksn, after served blocks.
next_ksn(served) == Decimal(served + 1, 10)

\* The HMAC of a KSN under the base key: of all its digits, zeros included.
Hash(seed, ksn) ==
    LET hash[i \in 0..Len(ksn)] ==
            IF i = 0 THEN seed ELSE ((7 * hash[i - 1]) + ksn[i]) % 256
    IN  hash[Len(ksn)]
TransactionKey(ksn) ==
    [i \in 1..8 |-> ((31 * Len(ksn)) + (29 * i) + Hash(i, ksn)) % 256]

encrypt_pin_block(ksn, pin, pan) ==
    XorEach(build_iso0_pin_block(pin, pan), TransactionKey(ksn))
decrypt_pin_block(ksn, block) == XorEach(block, TransactionKey(ksn))

\* Hex digits, as characters and back.
Hex(bytes) ==
    [i \in 1..(2 * Len(bytes)) |->
        LET n == Nibbles(bytes)[i] IN IF n < 10 THEN 48 + n ELSE 87 + n]
fromhex(text) ==
    Bytes([i \in DOMAIN text |-> IF text[i] < 58 THEN text[i] - 48 ELSE text[i] - 87])

-----------------------------------------------------------------------------
(* The envelope.                                                           *)

\* Characters of a text element that XML 1.0 has no way to carry, and the
\* carriage return, which its reader changes.
Unfit == (0..31) \ {9, 10}
TextElements == {"rrn", "pinBlockHex", "accountId2", "responseCode", "authId"}
Fits(elements) ==
    \A e \in DOMAIN elements \cap TextElements :
        \A i \in DOMAIN elements[e] : elements[e][i] \notin Unfit

\* build_envelope, build_response, and what parse_request, parse_response make
\* of it: an element of value None is not sent.
Envelope(elements) ==
    [e \in {x \in DOMAIN elements : elements[x] # Absent} |-> elements[e]]

\* fields.get(e), and its truth.
Get(elements, e, otherwise) ==
    IF e \in DOMAIN elements THEN elements[e] ELSE otherwise
Given(elements, e) == Get(elements, e, <<>>) # <<>>
GetOr(elements, e, otherwise) ==
    IF Given(elements, e) THEN elements[e] ELSE otherwise

-----------------------------------------------------------------------------
(* The adapter's requests.                                                 *)

\* Bug: the bytes of the block as they are.
pin_block_hex_Raw(block) == block

pin_block_hex(block) == Hex(block)

\* authorize, with what the HSM gives for the PIN after served others.
AuthorizeElements(b, served) ==
    LET ksn == next_ksn(served)
        block == encrypt_pin_block(ksn, b.pin, b.card)
    IN  [pan |-> b.card, processingCode |-> b.processing,
         amountMinor |-> Decimal(b.cents, 12), entryMode |-> <<0, 5>>,
         rrn |-> b.rrn, currencyCode |-> Currency,
         pinBlockHex |-> IF b.pin = Absent THEN Absent ELSE pin_block_hex(block),
         ksn |-> IF b.pin = Absent THEN Absent ELSE ksn,
         stan |-> Absent, accountId2 |-> b.credit]

ReverseElements(b) ==
    [originalMti |-> <<0, 2, 0, 0>>, originalStan |-> Unknown, rrn |-> b.rrn,
     amountMinor |-> Decimal(b.cents, 12), pan |-> b.card]

EchoElements == [networkCode |-> <<3, 0, 1>>]

-----------------------------------------------------------------------------
(* The gateway's mapping.  Outside Mappable it answers with a fault.       *)

Required(mti) ==
    IF mti[2] = 8 THEN {}
    ELSE {"pan", "amountMinor", "rrn"}
           \cup (IF mti[2] = 2 THEN {"processingCode"} ELSE {})

\* Digits and small letters; fromhex reads capitals too, which nothing sends.
HexDigits == (48..57) \cup (97..102)
NetworkCodes ==
    {<<0, 0, 1>>, <<0, 0, 2>>, <<3, 0, 1>>, <<1, 6, 1>>, <<2, 0, 1>>, <<3, 0, 2>>}

Mappable(f, mti) ==
    /\ \A e \in Required(mti) : Given(f, e)
    /\ mti[2] = 2 /\ Given(f, "pinBlockHex") =>
          /\ Len(f.pinBlockHex) = 16
          /\ \A i \in DOMAIN f.pinBlockHex : f.pinBlockHex[i] \in HexDigits
    /\ mti[2] = 8 => GetOr(f, "networkCode", <<3, 0, 1>>) \in NetworkCodes

\* Bug: the serial number is filled from the right, as a text is.
rjust_Left(ksn) == ksn \o Replicate(0, 16 - Len(ksn))

\* ksn.rjust(16, "0")
rjust(ksn) == Replicate(0, 16 - Len(ksn)) \o ksn

soap_to_iso_authorize(f) ==
    IsoMessage(<<0, 2, 0, 0>>,
        Field(2, f.pan) ++ Field(3, f.processingCode) ++ Field(4, f.amountMinor)
     ++ Field(22, GetOr(f, "entryMode", <<0, 5>>)) ++ Field(37, f.rrn)
     ++ Field(49, GetOr(f, "currencyCode", Currency))
     ++ With(Given(f, "pinBlockHex"), 52, fromhex(f.pinBlockHex))
     ++ With(Given(f, "ksn"), 53, rjust(f.ksn))
     ++ With(Given(f, "accountId2"), 103, f.accountId2)
     ++ With(Given(f, "additionalData"), 48, f.additionalData))

soap_to_iso_reverse(f) ==
    IsoMessage(<<0, 4, 0, 0>>,
        Field(2, f.pan) ++ Field(4, f.amountMinor) ++ Field(37, f.rrn))

soap_to_iso_network(f) ==
    IsoMessage(<<0, 8, 0, 0>>, Field(70, GetOr(f, "networkCode", <<3, 0, 1>>)))

iso_to_soap_authorize(parsed, fallback_rrn) ==
    LET de == parsed.fields
    IN  [responseCode |-> Get(de, 39, <<>>), authId |-> Get(de, 38, Absent),
         stan |-> Get(de, 11, Unknown), rrn |-> Get(de, 37, fallback_rrn),
         mti |-> parsed.mti]

iso_to_soap_reverse(parsed) ==
    [responseCode |-> Get(parsed.fields, 39, <<>>),
     stan |-> Get(parsed.fields, 11, Unknown)]

\* An 0810 has no DE 39: that it came at all is the acknowledgement.
iso_to_soap_network(parsed) ==
    [responseCode |-> Get(parsed.fields, 39, Approval),
     networkCode |-> Get(parsed.fields, 70, <<>>),
     stan |-> Get(parsed.fields, 11, Unknown)]

\* What the adapter answers, of result = parse_response(...).
AuthorizeResponse(result, b) ==
    [outcome |-> IF Get(result, "responseCode", <<>>) = Approval
                 THEN "approved" ELSE "declined",
     authorization_id |-> Get(result, "authId", Absent),
     stan |-> Get(result, "stan", Absent),
     rrn |-> GetOr(result, "rrn", b.rrn)]

-----------------------------------------------------------------------------
(* Faults.  The body of a reply is an envelope with a fault or with elements, *)
(* or no envelope; a fault has the status 500 or more, as SOAP 1.1 wants.     *)

NoFault == [code |-> "none", detail |-> "none"]
Reply(status, envelope, fault, elements) ==
    [status |-> status, envelope |-> envelope, fault |-> fault, elements |-> elements]
Fault(status, code, detail) ==
    Reply(status, TRUE, [code |-> code, detail |-> detail], <<>>)

\* soap_endpoint: what became of the request and of the message it turned into.
\* "cut": it timed out, and the link it came by is down when its reversal is to
\* be sent, which raises what "unlinked", never sent, raises.
Fates == {"unread", "unmapped", "silent", "cut", "unlinked", "answered"}
soap_endpoint(fate, body) ==
    CASE fate = "unread" -> Fault(500, "Client", "none")
      [] fate = "unmapped" -> Fault(500, "Client", "VALIDATION")
      [] fate = "silent" -> Fault(504, "Server", "SWITCH_TIMEOUT")
      [] fate \in {"cut", "unlinked"} -> Fault(503, "Server", "SWITCH_DOWN")
      [] fate = "answered" -> Reply(200, TRUE, NoFault, Envelope(body))

\* What answers in place of a gateway that is not there.
ErrorPages == {Reply(status, FALSE, NoFault, <<>>) : status \in {502, 503, 504}}

\* Bug: the status is looked at before the body.
parse_response_StatusFirst(r) ==
    IF ~r.envelope \/ r.status >= 500 THEN "SoapProtocolError"
    ELSE IF r.fault # NoFault THEN "SoapFault" ELSE "response"

parse_response(r) ==
    IF ~r.envelope THEN "SoapProtocolError"
    ELSE IF r.fault # NoFault THEN "SoapFault" ELSE "response"

\* The status of the adapter's answer, and its outcome if that is 200.
Told(r, b) ==
    LET read == parse_response(r)
        error(status) == [status |-> status, outcome |-> "none"]
    IN  CASE read = "response" ->
                [status |-> 200, outcome |-> AuthorizeResponse(r.elements, b).outcome]
          [] read = "SoapProtocolError" -> error(IF r.status >= 500 THEN 503 ELSE 500)
          [] read = "SoapFault" ->
                IF r.fault.detail = "SWITCH_TIMEOUT"
                THEN [status |-> 200, outcome |-> "unknown"]
                ELSE error(IF r.fault.detail = "SWITCH_DOWN" THEN 503
                           ELSE IF r.fault.code = "Client" THEN 422 ELSE 502)

-----------------------------------------------------------------------------
(* Whole trips.                                                            *)

Rrn(width) == [i \in 1..width |-> 48 + (i % 10)]

\* AuthorizeRequest, at the lengths where padding and filler differ, as a
\* payment or as a transfer to an account; an amount has nine digits at most.
Amounts == {1, 999999999}
Pins == {Absent, <<0, 0, 0, 0>>, Digits(4, 5), Digits(9, 12)}
Payees == {Absent, [i \in 1..16 |-> 96 + i]}
Asking(size, cents, width, pin, credit) ==
    [card |-> Digits(3, size), pin |-> pin, cents |-> cents,
     processing |-> IF credit = Absent THEN Unknown ELSE <<4, 0, 0, 0, 0, 0>>,
     rrn |-> Rrn(width), credit |-> credit]
AuthorizeRequest ==
    { Asking(size, cents, width, pin, credit) :
        size \in {12, 15, 16, 19}, cents \in Amounts, width \in {6, 11, 12},
        pin \in Pins, credit \in Payees }

\* m as the switch reads it, the elements of an authorisation, and the answer
\* of the switch as the gateway reads it.
Heard(m, stan) == parse_message(build_message(m.mti, m.fields ++ Field(11, stan)))
Asked(b, n) == Envelope(AuthorizeElements(b, n))
Back(m, code) == LET r == Response(m, code) IN parse_message(build_message(r.mti, r.fields))

\* An authorisation that reaches the switch after n others, and its reversal.
Authorisation(b, n) ==
    [asked |-> b, after |-> n,
     heard |-> Heard(soap_to_iso_authorize(Asked(b, n)), next_stan(n)),
     reversal |-> Heard(soap_to_iso_reverse(Envelope(ReverseElements(b))), next_stan(n))]
Authorisations == {Authorisation(b, n) : b \in AuthorizeRequest, n \in Counter}

Sendable(elements, mti) == Fits(elements) /\ Mappable(elements, mti)

\* Card, amount, reference and payee, and a PIN block exactly if a PIN was typed.
SameRequest(heard, b) ==
    /\ heard.mti = <<0, 2, 0, 0>> /\ heard.fields[2] = b.card
    /\ Number(heard.fields[4]) = b.cents
    /\ heard.fields[37] = b.rrn
    /\ Get(heard.fields, 103, Absent) = b.credit
    /\ {52, 53} \cap DOMAIN heard.fields = (IF b.pin = Absent THEN {} ELSE {52, 53})

\* Whoever has the base key gets the PIN from the block.
PinArrives(heard, b) ==
    LET block == decrypt_pin_block(Ending(heard.fields[53], 10), heard.fields[52])
    IN  b.pin # Absent => recover_pin(block, b.card) = b.pin

AnswerArrives(reply, code, b, n) ==
    \A told \in {AuthorizeResponse(Envelope(reply), b)} :
        /\ told.outcome = "approved" <=> code = Approval
        /\ told.authorization_id # Absent <=> code = Approval
        /\ told.stan = next_stan(n) /\ told.rrn = b.rrn

\* An authorisation reaches the switch as it was asked for, with a PIN block
\* if and only if a PIN was typed, from which whoever has the base key gets
\* that PIN; and what the switch decides reaches the adapter with the RRN it
\* asked under and the STAN the gateway gave it.
AuthorisationArrives ==
    \A a \in Authorisations, code \in {Approval, <<53, 49>>} :
        /\ Sendable(Asked(a.asked, a.after), <<0, 2, 0, 0>>)
        /\ SameRequest(a.heard, a.asked) /\ PinArrives(a.heard, a.asked)
        /\ AnswerArrives(iso_to_soap_authorize(Back(a.heard, code), a.asked.rrn),
                         code, a.asked, a.after)

ToldApart(told, fate, code) ==
    /\ told.outcome = "unknown" <=> fate = "silent"
    /\ told.outcome = "approved" <=> fate = "answered" /\ code = Approval
    /\ told.status = 422 <=> fate \in {"unread", "unmapped"}
    /\ told.status = 503 <=> fate \in {"cut", "unlinked"}

\* With the link up, a timeout of the switch is never told as an error a caller
\* may repeat, nor a request that never left as an unknown outcome, whatever
\* status they come with; and nothing but the switch's approval is told as one.
\* A timeout that finds the link down is told as a request that never left.
FaultsAreToldApart ==
    LET b == [rrn |-> Rrn(12)]
        sent == IsoMessage(<<0, 2, 0, 0>>, Field(11, Unknown) ++ Field(37, b.rrn))
    IN  /\ \A fate \in Fates, code \in {Approval, <<53, 49>>} :
              LET body == iso_to_soap_authorize(Response(sent, code), b.rrn)
              IN  ToldApart(Told(soap_endpoint(fate, body), b), fate, code)
        /\ \A page \in ErrorPages : Told(page, b).status = 503

Acknowledged(heard, n) ==
    \A reply \in {Back(heard, Approval)} :
        iso_to_soap_reverse(reply) = [responseCode |-> Approval, stan |-> next_stan(n)]

Echoed(heard, n) ==
    \A reply \in {Back(heard, Approval)} :
        iso_to_soap_network(reply) =
            [responseCode |-> Approval, networkCode |-> <<3, 0, 1>>, stan |-> next_stan(n)]

\* A reversal names its authorisation to the switch by the same card, amount
\* and RRN, or by its STAN in DE 90 if the gateway sends it by itself; it and
\* an echo are acknowledged under the STAN they were sent with.
ReversalNamesOriginal ==
    /\ \A a \in Authorisations :
          /\ Sendable(Envelope(ReverseElements(a.asked)), <<0, 4, 0, 0>>)
          /\ \A de \in {2, 4, 37} : a.reversal.fields[de] = a.heard.fields[de]
          /\ Acknowledged(a.reversal, a.after)
    /\ \A m \in AutomaticReversals, n \in Counter :
          \A heard \in {Heard(m, next_stan(n))} :
              /\ heard.fields[90] = m.fields[90]
              /\ \E k \in Counter : SubSeq(heard.fields[90], 5, 10) = next_stan(k)
              /\ Acknowledged(heard, n)
    /\ Sendable(Envelope(EchoElements), <<0, 8, 0, 0>>)
    /\ \A n \in Counter :
          \A heard \in {Heard(soap_to_iso_network(Envelope(EchoElements)), next_stan(n))} :
              Echoed(heard, n)
=============================================================================
