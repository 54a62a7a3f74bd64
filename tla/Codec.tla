------------------------------- MODULE Codec --------------------------------
(***************************************************************************)
(* The bytes under Iso8583: what the gateway and the switch write on their *)
(* connection for a message, and what the other side reads back.  Iso8583  *)
(* lets a message carry its STAN, its RRN and the STAN of the message it   *)
(* reverses; this module is why it may.                                    *)
(*   A byte is a number below 256, a digit one below 10, a character its   *)
(* latin-1 code.  A value is a sequence of digits or of characters, as its *)
(* data element (DE) is numeric or not.                                    *)
(***************************************************************************)
EXTENDS Integers, Sequences, FiniteSets, FiniteSetsExt, SequencesExt

CONSTANTS
    Counter,      \* values of _stan_counter tried
    MaxPayload    \* bound: bytes of a message where its content is ignored

ASSUME CounterAssumption == \A n \in Counter : n \in Nat /\ n < 1000000
ASSUME PayloadAssumption == MaxPayload \in Nat

Space == 32
Filler == 15
Replicate(x, n) == [i \in 1..n |-> x]
Sorted(S) == [i \in 1..Cardinality(S) |->
                CHOOSE n \in S : Cardinality({m \in S : m < n}) = i - 1]
LeastOf(a, b) == IF a < b THEN a ELSE b
Slice(s, from, n) == SubSeq(s, from + 1, LeastOf(from + n, Len(s)))

-----------------------------------------------------------------------------
(* FIELD_SPECS.                                                            *)

Binary == {44, 52, 56, 64, 96, 120, 128}
FixedDigits ==
    { <<1, {27, 66}>>, <<2, {25, 26, 67, 92}>>,
      <<3, (19..24) \cup (49..51) \cup (68..70)>>,
      <<4, (13..18) \cup {71, 72}>>, <<5, {93}>>, <<6, {3, 11, 12, 73}>>,
      <<8, 8..10>>, <<10, {7} \cup (74..81)>>, <<12, (4..6) \cup (82..85)>>,
      <<15, 86..89>>, <<16, {53}>>, <<42, {90}>> }
FixedText ==
    { <<1, {91}>>, <<2, {39}>>, <<3, {40}>>, <<6, {38}>>, <<7, {94}>>,
      <<8, {41, 52, 64, 96, 128}>>, <<9, 28..31>>, <<12, {37}>>,
      <<15, {42}>>, <<17, {97}>>, <<25, {98}>>, <<40, {43}>>, <<42, {95}>> }
VarDigits == { <<11, {32, 33, 99, 100}>>, <<19, {2}>>, <<28, {34}>> }
VarText ==
    { <<17, {101}>>, <<25, {44}>>, <<28, {102, 103}>>, <<37, {35}>>,
      <<76, {45}>> }
LongVarText ==
    { <<100, {104}>>, <<104, {36}>>, <<120, {54}>>, <<255, {55}>>,
      <<999, (46..48) \cup (56..63) \cup (105..127)>> }

Kind(prefix, numeric, classes) ==
    UNION {{[de |-> de, prefix |-> prefix, length |-> c[1], numeric |-> numeric]
                : de \in c[2]} : c \in classes}

\* prefix: digits of the length in front of the value, 0 for a fixed length.
FIELD_SPECS ==
    LET all == Kind(0, TRUE, FixedDigits) \cup Kind(0, FALSE, FixedText)
                 \cup Kind(2, TRUE, VarDigits) \cup Kind(2, FALSE, VarText)
                 \cup Kind(4, FALSE, LongVarText)
    IN  [de \in {s.de : s \in all} |-> CHOOSE s \in all : s.de = de]
DataElement == DOMAIN FIELD_SPECS

-----------------------------------------------------------------------------
(* Binary-coded decimals.                                                  *)

\* f"{n:0<width>d}": wider than width if n has more digits.
Decimal(n, width) ==
    LET digits[k \in 0..n] ==
            IF k < 10 THEN <<k>> ELSE Append(digits[k \div 10], k % 10)
    IN  Replicate(0, width - Len(digits[n])) \o digits[n]

\* int(digits)
Number(digits) ==
    LET number[i \in 0..Len(digits)] ==
            IF i = 0 THEN 0 ELSE (10 * number[i - 1]) + digits[i]
    IN  number[Len(digits)]

bcd_encode(digits) ==
    LET even == IF Len(digits) % 2 = 1 THEN Append(digits, Filler) ELSE digits
    IN  [i \in 1..(Len(even) \div 2) |-> (16 * even[2 * i - 1]) + even[2 * i]]

bcd_decode(data, n) ==
    LET nibbles == [i \in 1..(2 * Len(data)) |->
                       IF i % 2 = 1 THEN data[(i + 1) \div 2] \div 16
                                    ELSE data[i \div 2] % 16]
    IN  Slice(nibbles, 0, n)

\* Bug: the filler of an odd number of digits is forgotten.
bcd_byte_len_Down(n) == n \div 2

bcd_byte_len(n) == (n + 1) \div 2

-----------------------------------------------------------------------------
(* The bitmap: bit n says that DE n is there, bit 1 that it is the long    *)
(* one.  The bits of a byte are counted from the highest.                  *)

Weight == <<128, 64, 32, 16, 8, 4, 2, 1>>
Bit(byte, k) == (byte \div Weight[k]) % 2
FromBits(bit) ==
    (128 * bit[1]) + (64 * bit[2]) + (32 * bit[3]) + (16 * bit[4])
      + (8 * bit[5]) + (4 * bit[6]) + (2 * bit[7]) + bit[8]

\* length bytes in which the bits are set.
Bitmap(length, bits) ==
    [i \in 1..length |->
        FromBits([k \in 1..8 |-> IF (8 * (i - 1)) + k \in bits THEN 1 ELSE 0])]

\* Bug: DE 65 and up without the bit that announces the second half.
build_bitmap_Unannounced(des) ==
    Bitmap(IF \E n \in des : n > 64 THEN 16 ELSE 8, des)

build_bitmap(des) ==
    IF \E n \in des : n > 64 THEN Bitmap(16, des \cup {1}) ELSE Bitmap(8, des)

bitmap_length(raw, at) == IF raw[at + 1] >= 128 THEN 16 ELSE 8
read_bitmap(raw, at) ==
    {n \in 2..(8 * bitmap_length(raw, at)) :
        Bit(raw[at + 1 + (n - 1) \div 8], 1 + ((n - 1) % 8)) = 1}

-----------------------------------------------------------------------------
(* One message.                                                            *)

Encode(spec, value) ==
    IF spec.prefix = 0
    THEN IF spec.numeric
         THEN bcd_encode(Replicate(0, spec.length - Len(value)) \o value)
         ELSE Slice(value \o Replicate(Space, spec.length - Len(value)),
                    0, spec.length)
    ELSE bcd_encode(Decimal(Len(value), spec.prefix))
           \o IF spec.numeric THEN bcd_encode(value) ELSE value

build_message(mti, fields) ==
    LET des == Sorted(DOMAIN fields)
        out[i \in 0..Len(des)] ==
            IF i = 0 THEN bcd_encode(mti) \o build_bitmap(DOMAIN fields)
            ELSE out[i - 1] \o Encode(FIELD_SPECS[des[i]], fields[des[i]])
    IN  out[Len(des)]

Whitespace == (9..13) \cup (28..32) \cup {133, 160}
rstrip(s) ==
    LET kept == {i \in 1..Len(s) : s[i] \notin Whitespace}
    IN  IF kept = {} THEN <<>> ELSE SubSeq(s, 1, Max(kept))

\* Bug: what ends in a blank byte is taken for padded text, a PIN block too.
Text_Stripped(de, s) == rstrip(s)

\* The padding goes, but a PIN block or a MAC may end in any byte.
Text(de, s) == IF de \in Binary THEN s ELSE rstrip(s)

\* Digits or characters of a value, where its length is written or fixed.
SizeAt(spec, raw, at) ==
    IF spec.prefix = 0 THEN spec.length
    ELSE Number(bcd_decode(Slice(raw, at, bcd_byte_len(spec.prefix)), spec.prefix))

ByteLength(spec, size) == IF spec.numeric THEN bcd_byte_len(size) ELSE size

Value(de, spec, size, data) ==
    IF spec.numeric THEN bcd_decode(data, size)
    ELSE IF spec.prefix = 0 THEN Text(de, data) ELSE data

\* The values so far with that of a DE, found where they end, and its own end.
ReadValue(so_far, de, spec, raw, start, size) ==
    [next |-> start + ByteLength(spec, size),
     values |-> Append(so_far.values,
                       Value(de, spec, size, Slice(raw, start, ByteLength(spec, size))))]
ReadElement(so_far, de, spec, raw) ==
    ReadValue(so_far, de, spec, raw, so_far.next + bcd_byte_len(spec.prefix),
              SizeAt(spec, raw, so_far.next))

ReadElements(raw, des) ==
    LET order == Sorted(des)
        so_far[i \in 0..Len(order)] ==
            IF i = 0 THEN [next |-> 2 + bitmap_length(raw, 2), values |-> <<>>]
            ELSE ReadElement(so_far[i - 1], order[i], FIELD_SPECS[order[i]], raw)
    IN  so_far[Len(order)]

AsRead(raw, des, read) ==
    [mti |-> bcd_decode(Slice(raw, 0, 2), 4),
     fields |-> [de \in des |-> read.values[Cardinality({n \in des : n <= de})]],
     consumed |-> read.next]

parse_message(raw) ==
    AsRead(raw, read_bitmap(raw, 2), ReadElements(raw, read_bitmap(raw, 2)))

-----------------------------------------------------------------------------
(* What the owners of the connection add: the gateway's STAN, the data of  *)
(* its automatic reversals, and the answers of the switch.                 *)

Digits(n, size) == [i \in 1..size |-> (n + i) % 10]

\* The fields of a message: one, one that is there if the test holds, and those
\* of two.  (The provers cannot expand the :> and @@ of TLC.)
Field(de, value) == [d \in {de} |-> value]
With(test, de, value) == IF test THEN Field(de, value) ELSE <<>>
f ++ g ==
    [de \in DOMAIN f \cup DOMAIN g |-> IF de \in DOMAIN f THEN f[de] ELSE g[de]]
IsoMessage(mti, fields) == [mti |-> mti, fields |-> fields]

\* Bug: the STAN is sent as the number it is, without its leading zeros.
next_stan_Unpadded(counter) == Decimal((counter + 1) % 1000000, 1)

next_stan(counter) == Decimal((counter + 1) % 1000000, 6)

\* DE 90: the original's MTI and STAN, and placeholders.
build_original_data_elements(mti, stan) == mti \o stan \o Replicate(0, 32)

AutomaticReversals ==
    { IsoMessage(<<0, 4, 0, 0>>,
          Field(90, build_original_data_elements(<<0, 2, 0, 0>>, next_stan(n)))) :
        n \in Counter }

Approval == <<48, 48>>

\* _build_response, of a switch that does not stay silent; one that declines
\* an 0200 answers with another code and no authorisation id.
Response(m, code) ==
    LET f == m.fields IN
    IF m.mti[2] = 8
    THEN IsoMessage(<<0, 8, 1, 0>>, Field(11, f[11]) ++ Field(70, f[70]))
    ELSE IF m.mti[2] = 4
    THEN IsoMessage(<<0, 4, 1, 0>>, Field(11, f[11]) ++ Field(39, Approval))
    ELSE IsoMessage(<<0, 2, 1, 0>>,
             Field(11, f[11]) ++ Field(37, f[37]) ++ Field(39, code)
               ++ With(code = Approval, 38, <<65, 49, 56, 48, 48, 56>>))

-----------------------------------------------------------------------------
(* Framing.  A connection delivers a stream in segments, whose ends are    *)
(* the set cuts, and closes after its last byte.                           *)

Closed == -1

\* Of a header, or of the one byte left of it at the end of a broken file.
from_bytes(header) ==
    IF Len(header) = 1 THEN header[1] ELSE (256 * header[1]) + header[2]
frame(message) == <<Len(message) \div 256, Len(message) % 256>> \o message

recv(stream, cuts, at, n) ==
    Min({n, Len(stream) - at} \cup {c - at : c \in {k \in cuts : k > at}})

\* Bug: one recv is taken to return all there is to read.
read_exact_Once(stream, cuts, at, n) ==
    IF n = 0 THEN at
    ELSE IF at = Len(stream) THEN Closed ELSE at + recv(stream, cuts, at, n)

\* The position after n more bytes.
read_exact(stream, cuts, at, n) ==
    LET loop[p \in at..(at + n)] ==
            IF p = at + n THEN p
            ELSE IF p = Len(stream) THEN Closed
            ELSE loop[p + recv(stream, cuts, p, at + n - p)]
    IN  loop[at]

\* What read_framed_message returns, call after call, until the connection
\* closes under one.
receive_loop(stream, cuts) ==
    LET loop[p \in 0..Len(stream)] ==
            LET body == read_exact(stream, cuts, p, 2)
                size == from_bytes(Slice(stream, p, body - p))
                next == read_exact(stream, cuts, body, size)
            IN  IF body = Closed THEN <<>>
                ELSE IF next = Closed THEN <<>>
                ELSE <<Slice(stream, body, next - body)>> \o loop[next]
    IN  loop[0]

\* iter_messages_from_file, of a file that write_messages_to_file wrote.
iter_messages_from_file(data) ==
    LET loop[p \in 0..Len(data)] ==
            IF p = Len(data) THEN <<>>
            ELSE LET size == from_bytes(Slice(data, p, 2))
                 IN  <<Slice(data, p + 2, size)>>
                       \o loop[LeastOf(p + 2 + size, Len(data))]
    IN  loop[0]

-----------------------------------------------------------------------------
\* Lengths at which a value of a DE is tried; a text may also be too long.
Lengths(de) ==
    LET n == FIELD_SPECS[de].length IN
    IF de \in Binary /\ FIELD_SPECS[de].prefix = 0 THEN {n}
    ELSE {0, 1, n - 1, n}
           \cup (IF FIELD_SPECS[de].prefix = 0 /\ ~FIELD_SPECS[de].numeric
                 THEN {n + 2} ELSE {})
Values(de) ==
    { Digits(5, n) : n \in {k \in Lengths(de) : FIELD_SPECS[de].numeric} }
      \cup { [i \in 1..n |-> IF i = n THEN last ELSE 64 + (i % 190)] :
                n \in {k \in Lengths(de) : ~FIELD_SPECS[de].numeric},
                last \in {48, Space, 160} }

Plain(de) ==
    IF FIELD_SPECS[de].numeric THEN Digits(0, FIELD_SPECS[de].length)
                               ELSE Replicate(65, FIELD_SPECS[de].length)

\* What the reader of a value sees of it: fixed digits filled from the left,
\* a fixed text cut to its length and without its trailing blanks.
Normal(de, value) ==
    LET spec == FIELD_SPECS[de] IN
    IF spec.prefix # 0 THEN value
    ELSE IF spec.numeric THEN Replicate(0, spec.length - Len(value)) \o value
    ELSE IF de \in Binary THEN value
    ELSE rstrip(Slice(value, 0, spec.length))

Parsed(mti, fields) ==
    [mti |-> mti, fields |-> [de \in DOMAIN fields |-> Normal(de, fields[de])],
     consumed |-> Len(build_message(mti, fields))]

\* Any data element of the catalogue, at the lengths where padding, filler
\* nibbles, prefixes and stripping differ, is read back as it was written, and
\* the element that follows it, with every byte accounted for.
EveryElementReadsBack ==
    \A de \in DataElement, follower \in {4, 39, 66, 128} :
        \A value \in Values(de) :
            LET mti == <<0, 2, 0, 0>>
                fields == Field(de, value) ++ Field(follower, Plain(follower))
            IN  parse_message(build_message(mti, fields)) = Parsed(mti, fields)

\* Wherever TCP cuts the stream, and wherever the connection closes in it, the
\* receive loop gets the messages that are wholly there, in order, and nothing
\* of the one that is not; a file is read back whole.
LongMessage == Replicate(1, 300)
Payloads == BoundedSeq({1, 2}, MaxPayload)
StreamSplitsBack ==
    \A a, b \in Payloads :
        LET stream == frame(a) \o frame(b) IN
        /\ iter_messages_from_file(frame(LongMessage) \o stream) = <<LongMessage, a, b>>
        /\ \A cuts \in SUBSET (1..(Len(stream) - 1)), end \in 0..Len(stream) :
              receive_loop(SubSeq(stream, 1, end), cuts) =
                  (IF end >= Len(frame(a)) THEN <<a>> ELSE <<>>)
                    \o (IF end = Len(stream) THEN <<b>> ELSE <<>>)
=============================================================================
