---------------------------- MODULE Codec_proofs -----------------------------
(***************************************************************************)
(* Theorems about Codec and Mediation: how messages come back whole from a *)
(* stream or a file, digits from their nibbles, a bitmap and the elements  *)
(* it announces from their bytes, a PIN from its block, and so a request   *)
(* of the adapter, its answer and its reversal from one end to the other.  *)
(*   A loop of the code is a recursive function of Codec; what it returns  *)
(* is proved by looking at the last, or the least, position where it would *)
(* return anything else.                                                   *)
(***************************************************************************)
EXTENDS MCIso8583, SequenceTheorems, WellFoundedInduction, FiniteSetTheorems,
        FunctionTheorems, TLAPS

LEMMA LeastExists ==
    ASSUME NEW T \in SUBSET Nat, T # {}
    PROVE  \E x \in T : \A y \in T : x <= y
<1>1. IsWellFoundedOn(OpToRel(<, Nat), Nat)
  BY NatLessThanWellFounded
<1>2. PICK x \in T : \A y \in T : ~ (<<y, x>> \in OpToRel(<, Nat))
  BY <1>1, WFMin, Zenon
<1>3. \A y \in T : y < x => <<y, x>> \in OpToRel(<, Nat)
  BY DEF OpToRel
<1>4. \A y \in T : ~ (y < x)
  BY <1>2, <1>3, Zenon
<1> QED
  BY <1>4

-----------------------------------------------------------------------------
(* One read: what recv returns, and what the loop around it returns.       *)

LEMMA RecvAdvances ==
    ASSUME NEW stream \in Seq(Nat), NEW cuts \in SUBSET Nat,
           NEW at \in 0..(Len(stream) - 1), NEW n \in Nat \ {0}
    PROVE  recv(stream, cuts, at, n) \in 1..LeastOf(n, Len(stream) - at)
<1> DEFINE S == {n, Len(stream) - at} \cup {c - at : c \in {k \in cuts : k > at}}
<1>1. Len(stream) \in Nat /\ S \in SUBSET Nat /\ S # {} /\ \A x \in S : x >= 1
  OBVIOUS
<1>2. PICK x \in S : \A y \in S : x <= y
  BY <1>1, LeastExists
<1>3. Min(S) \in S /\ \A y \in S : Min(S) <= y
  BY <1>2 DEF Min
<1>4. recv(stream, cuts, at, n) = Min(S)
  BY DEF recv
<1> HIDE DEF S
<1>5. n \in S /\ Len(stream) - at \in S
  BY DEF S
<1>6. Min(S) \in Nat /\ Min(S) >= 1 /\ Min(S) <= n /\ Min(S) <= Len(stream) - at
  BY <1>1, <1>3, <1>5
<1>7. LeastOf(n, Len(stream) - at) \in {n, Len(stream) - at}
  BY DEF LeastOf
<1> QED
  BY <1>1, <1>4, <1>6, <1>7

\* What is at hand of n bytes after at, or that they will never come.
Whole(stream, at, n) == IF at + n <= Len(stream) THEN at + n ELSE Closed

LEMMA ReadExactLoop ==
    ASSUME NEW stream \in Seq(Nat), NEW cuts \in SUBSET Nat,
           NEW at \in 0..Len(stream), NEW n \in Nat,
           NEW f, f = [p \in at..(at + n) |->
                          IF p = at + n THEN p
                          ELSE IF p = Len(stream) THEN Closed
                          ELSE f[p + recv(stream, cuts, p, at + n - p)]]
    PROVE  f[at] = Whole(stream, at, n)
<1> DEFINE Left == {k \in 0..n : at + n - k <= Len(stream)
                                   /\ f[at + n - k] # Whole(stream, at, n)}
<1>0. Len(stream) \in Nat
  OBVIOUS
<1>1. CASE Left = {}
  <2>1. n \in 0..n /\ at + n - n = at
    OBVIOUS
  <2>2. ~ (at + n - n <= Len(stream) /\ f[at + n - n] # Whole(stream, at, n))
    BY <1>1, <2>1, Zenon
  <2>3. at <= Len(stream)
    BY <1>0
  <2> QED
    BY <2>1, <2>2, <2>3
<1>2. CASE Left # {}
  <2>0. Left \in SUBSET Nat
    OBVIOUS
  <2>1. PICK k \in Left : \A j \in Left : k <= j
    BY <1>2, <2>0, LeastExists, Zenon
  <2> DEFINE p == at + n - k
  <2>2. k \in 0..n /\ p \in at..(at + n) /\ p <= Len(stream) /\ p \in Nat
        /\ f[p] # Whole(stream, at, n) /\ k = at + n - p
    BY <1>0
  <2> HIDE DEF p
  <2>3. f[p] = IF p = at + n THEN p
               ELSE IF p = Len(stream) THEN Closed
               ELSE f[p + recv(stream, cuts, p, at + n - p)]
    BY <2>2
  <2>4. p # at + n
    BY <2>2, <2>3, <1>0 DEF Whole
  <2>5. p # Len(stream)
    BY <2>2, <2>3, <2>4, <1>0 DEF Whole
  <2> DEFINE q == p + recv(stream, cuts, p, at + n - p)
  <2>6. recv(stream, cuts, p, at + n - p)
            \in 1..LeastOf(at + n - p, Len(stream) - p)
    <3>1. p \in 0..(Len(stream) - 1) /\ at + n - p \in Nat \ {0}
      BY <1>0, <2>2, <2>4, <2>5
    <3> QED
      BY <3>1, RecvAdvances
  <2>7. q \in Nat /\ p < q /\ q <= at + n /\ q <= Len(stream)
    <3>1. /\ recv(stream, cuts, p, at + n - p) \in Nat \ {0}
          /\ recv(stream, cuts, p, at + n - p) <= at + n - p
          /\ recv(stream, cuts, p, at + n - p) <= Len(stream) - p
      BY <1>0, <2>2, <2>6, SMTT(40) DEF LeastOf
    <3> QED
      BY <1>0, <2>2, <3>1
  <2>8. f[p] = f[q]
    BY <2>3, <2>4, <2>5
  <2> HIDE DEF q
  <2>9. at + n - q \in 0..n /\ at + n - (at + n - q) = q /\ at + n - q < k
    BY <1>0, <2>2, <2>7
  <2>10. at + n - q \in Left
    BY <2>2, <2>7, <2>8, <2>9
  <2>11. k <= at + n - q
    BY <2>1, <2>10, Zenon
  <2> QED
    BY <2>2, <2>9, <2>11
<1> QED
  BY <1>1, <1>2

\* However TCP cuts the stream, the loop around recv returns all the bytes it
\* is asked for, or finds that the connection closed before the last of them.
LEMMA ReadExactIsWhole ==
    ASSUME NEW stream \in Seq(Nat), NEW cuts \in SUBSET Nat,
           NEW at \in 0..Len(stream), NEW n \in Nat
    PROVE  read_exact(stream, cuts, at, n) = Whole(stream, at, n)
<1> DEFINE Step(f) == [p \in at..(at + n) |->
                          IF p = at + n THEN p
                          ELSE IF p = Len(stream) THEN Closed
                          ELSE f[p + recv(stream, cuts, p, at + n - p)]]
           g == [p \in at..(at + n) |->
                    IF p = at + n THEN p ELSE Whole(stream, at, n)]
<1>0. Len(stream) \in Nat
  OBVIOUS
<1>1. ASSUME NEW p \in at..(at + n)
      PROVE  g[p] = IF p = at + n THEN p
                    ELSE IF p = Len(stream) THEN Closed
                    ELSE g[p + recv(stream, cuts, p, at + n - p)]
  <2>1. CASE p < Len(stream) /\ p # at + n
    <3> DEFINE q == p + recv(stream, cuts, p, at + n - p)
    <3>1. p \in 0..(Len(stream) - 1) /\ at + n - p \in Nat \ {0}
      BY <1>0, <2>1
    <3>2. recv(stream, cuts, p, at + n - p)
              \in 1..LeastOf(at + n - p, Len(stream) - p)
      BY <3>1, RecvAdvances
    <3>3. q \in at..(at + n) /\ q <= Len(stream)
      BY <1>0, <3>1, <3>2, SMTT(40) DEF LeastOf
    <3> HIDE DEF q
    <3>4. g[q] = Whole(stream, at, n)
      BY <3>3, <1>0 DEF Whole
    <3> QED
      BY <2>1, <3>4, <1>0 DEF q
  <2>2. CASE p = Len(stream) /\ p # at + n
    BY <1>0, <2>2 DEF Whole
  <2>3. CASE p > Len(stream) /\ p # at + n
    <3> DEFINE S == {at + n - p, Len(stream) - p}
                      \cup {c - p : c \in {k \in cuts : k > p}}
    <3>1. /\ \A y \in S : y \in Int /\ Len(stream) - p <= y
          /\ Len(stream) - p \in S
      BY <1>0, <2>3
    <3> HIDE DEF S
    <3>2. Min(S) = Len(stream) - p
      <4>1. Min(S) \in S /\ \A y \in S : Min(S) <= y
        BY <3>1 DEF Min
      <4>2. Min(S) <= Len(stream) - p /\ Len(stream) - p <= Min(S) /\ Min(S) \in Int
        BY <3>1, <4>1
      <4> QED
        BY <1>0, <4>2
    <3>3. recv(stream, cuts, p, at + n - p) = Len(stream) - p
      BY <3>2 DEF recv, S
    <3>4. p + recv(stream, cuts, p, at + n - p) = Len(stream)
      BY <1>0, <3>3
    <3>5. Len(stream) \in at..(at + n) /\ Len(stream) # at + n
      BY <1>0, <2>3
    <3> QED
      BY <1>0, <2>3, <3>4, <3>5 DEF Whole
  <2> QED
    BY <1>0, <2>1, <2>2, <2>3
<1>2. g = Step(g)
  BY <1>1
<1> DEFINE loop == CHOOSE f : f = Step(f)
<1>3. loop = Step(loop)
  BY <1>2
<1>4. read_exact(stream, cuts, at, n) = loop[at]
  BY DEF read_exact
<1> HIDE DEF loop
<1>5. loop[at] = Whole(stream, at, n)
  BY <1>3, ReadExactLoop, ZenonT(40)
<1> QED
  BY <1>4, <1>5

-----------------------------------------------------------------------------
(* A loop over a stream: at each position it stops, or yields a piece and  *)
(* goes on further along.                                                  *)

\* The loop ends, whatever the pieces and wherever they end: there is a function
\* that the code's recursion describes.
Unrolls(f, L, stop, next, piece) ==
    f = [p \in 0..L |-> IF p \in stop THEN <<>> ELSE <<piece[p]>> \o f[next[p]]]
Forward(L, stop, next) ==
    L \in stop /\ \A p \in (0..L) \ stop : p < next[p] /\ next[p] <= L

LEMMA LoopExists ==
    ASSUME NEW L \in Nat, NEW stop, NEW next \in [0..L -> Nat], NEW piece,
           Forward(L, stop, next)
    PROVE  \E f : Unrolls(f, L, stop, next, piece)
<1> DEFINE P == {piece[p] : p \in 0..L}
<1> USE DEF Forward
<1> DEFINE Tails(k) ==
               \E f \in [(L - k)..L -> Seq(P)] : \A p \in (L - k)..L :
                   f[p] = IF p \in stop THEN <<>> ELSE <<piece[p]>> \o f[next[p]]
           Bad == {k \in 0..L : ~ Tails(k)}
<1>1. Tails(0)
  <2>1. \A p \in (L - 0)..L : p = L
    OBVIOUS
  <2>2. [p \in (L - 0)..L |-> <<>>] \in [(L - 0)..L -> Seq(P)]
    OBVIOUS
  <2> WITNESS [p \in (L - 0)..L |-> <<>>] \in [(L - 0)..L -> Seq(P)]
  <2> QED
    BY <2>1
<1>2. ASSUME NEW k \in 0..L, k # 0, Tails(k - 1)
      PROVE  Tails(k)
  <2>1. PICK g \in [(L - (k - 1))..L -> Seq(P)] : \A p \in (L - (k - 1))..L :
                   g[p] = IF p \in stop THEN <<>> ELSE <<piece[p]>> \o g[next[p]]
    BY <1>2
  <2> DEFINE h == [p \in (L - k)..L |->
                     IF p = L - k
                     THEN IF p \in stop THEN <<>> ELSE <<piece[p]>> \o g[next[p]]
                     ELSE g[p]]
  <2>2. ASSUME NEW p \in (L - k)..L
        PROVE  /\ h[p] = IF p \in stop THEN <<>> ELSE <<piece[p]>> \o h[next[p]]
               /\ h[p] \in Seq(P)
    <3>0. p \in 0..L /\ (p = L - k \/ p \in (L - (k - 1))..L)
      BY <1>2
    <3>1. CASE p \in stop
      <4>1. h[p] = <<>>
        BY <2>1, <3>0, <3>1
      <4> QED
        BY <3>1, <4>1, SMTT(40)
    <3>2. CASE p \notin stop
      <4>0. p < next[p] /\ next[p] <= L /\ next[p] \in Nat
        BY <3>0, <3>2
      <4>1. next[p] \in (L - (k - 1))..L /\ next[p] # L - k /\ next[p] \in (L - k)..L
        <5> HIDE DEF h
        <5>1. k \in Nat /\ p \in Nat /\ L - k <= p
          BY <3>0
        <5>2. L - (k - 1) <= next[p]
          BY <4>0, <5>1
        <5> QED
          BY <4>0, <5>1, <5>2
      <4>2. h[next[p]] = g[next[p]]
        BY <4>1
      <4>3. h[p] = <<piece[p]>> \o g[next[p]]
        BY <2>1, <3>0, <3>2
      <4>4. piece[p] \in P /\ g[next[p]] \in Seq(P)
        BY <2>1, <3>0, <4>1
      <4>5. <<piece[p]>> \o g[next[p]] \in Seq(P)
        <5> HIDE DEF P, h
        <5>1. <<piece[p]>> \in Seq(P)
          BY <4>4
        <5> QED
          BY <4>4, <5>1, ConcatProperties
      <4> QED
        BY <3>2, <4>2, <4>3, <4>5
    <3> QED
      BY <3>1, <3>2
  <2>3. h \in [(L - k)..L -> Seq(P)]
    BY <2>2
  <2> HIDE DEF h
  <2> QED
    BY <2>2, <2>3
<1> HIDE DEF Tails
<1>3. Bad = {}
  <2> SUFFICES ASSUME Bad # {} PROVE FALSE
    OBVIOUS
  <2>0. Bad \in SUBSET Nat
    OBVIOUS
  <2>1. PICK k \in Bad : \A j \in Bad : k <= j
    BY <2>0, LeastExists, Zenon
  <2>2. k \in 0..L /\ ~ Tails(k) /\ k # 0
    BY <1>1
  <2>3. k - 1 \in 0..L /\ ~ (k <= k - 1)
    BY <2>2
  <2>4. Tails(k - 1)
    BY <2>1, <2>3, Zenon
  <2> QED
    BY <1>2, <2>2, <2>4
<1>4. Tails(L) /\ L - L = 0
  <2>1. L \in 0..L /\ L - L = 0
    OBVIOUS
  <2>2. Tails(L)
    BY <1>3, <2>1, Zenon
  <2> QED
    BY <2>1, <2>2
<1>5. PICK f \in [(L - L)..L -> Seq(P)] : \A p \in (L - L)..L :
                   f[p] = IF p \in stop THEN <<>> ELSE <<piece[p]>> \o f[next[p]]
  BY <1>4 DEF Tails
<1>6. f = [p \in 0..L |-> IF p \in stop THEN <<>> ELSE <<piece[p]>> \o f[next[p]]]
  BY <1>4, <1>5
<1> QED
  BY <1>6 DEF Unrolls

\* The message whose frame starts at p, and the positions that start no frame.
SizeHere(stream, p) == from_bytes(Slice(stream, p, 2))
EndHere(stream, p) == p + 2 + SizeHere(stream, p)
MessageHere(stream, p) == Slice(stream, p + 2, SizeHere(stream, p))
NoFrame(stream) == {p \in 0..Len(stream) : p + 2 > Len(stream)
                                             \/ EndHere(stream, p) > Len(stream)}
Frames(stream, f) ==
    \A p \in 0..Len(stream) :
        f[p] = IF p \in NoFrame(stream) THEN <<>>
               ELSE <<MessageHere(stream, p)>> \o f[EndHere(stream, p)]

LEMMA SliceLength ==
    ASSUME NEW s \in Seq(Nat), NEW from \in Nat, NEW n \in Nat,
           from + n <= Len(s)
    PROVE  /\ Slice(s, from, n) \in Seq(Nat) /\ Len(Slice(s, from, n)) = n
           /\ \A i \in 1..n : Slice(s, from, n)[i] = s[from + i]
<1>1. Slice(s, from, n) = SubSeq(s, from + 1, from + n)
  BY DEF Slice, LeastOf
<1>2. CASE n = 0
  <2>1. SubSeq(s, from + 1, from + n) = <<>>
    BY <1>2, SubSeqEmpty
  <2> QED
    BY <1>1, <1>2, <2>1
<1>3. CASE n # 0
  <2>1. from + 1 \in 1..(Len(s) + 1) /\ from + n \in (from + 1 - 1)..Len(s)
    BY <1>3
  <2> QED
    BY <1>1, <2>1, SubSeqProperties
<1> QED
  BY <1>2, <1>3

LEMMA SizeIsNat ==
    ASSUME NEW stream \in Seq(Nat), NEW p \in Nat, p + 2 <= Len(stream)
    PROVE  /\ SizeHere(stream, p) = (256 * stream[p + 1]) + stream[p + 2]
           /\ SizeHere(stream, p) \in Nat
<1>1. /\ Len(Slice(stream, p, 2)) = 2
      /\ Slice(stream, p, 2)[1] = stream[p + 1]
      /\ Slice(stream, p, 2)[2] = stream[p + 2]
  <2>1. 2 \in Nat /\ 1 \in 1..2 /\ 2 \in 1..2
    OBVIOUS
  <2> QED
    BY <2>1, SliceLength, Zenon
<1>2. SizeHere(stream, p) = (256 * stream[p + 1]) + stream[p + 2]
  BY <1>1 DEF SizeHere, from_bytes
<1>3. stream[p + 1] \in Nat /\ stream[p + 2] \in Nat
  OBVIOUS
<1> QED
  BY <1>2, <1>3, SMTT(40)

\* The receive loop yields frame after frame, and where TCP cuts the stream does
\* not matter to it.
LEMMA ReceiveLoop ==
    ASSUME NEW stream \in Seq(Nat), NEW cuts \in SUBSET Nat
    PROVE  \E f : Frames(stream, f) /\ receive_loop(stream, cuts) = f[0]
<1> DEFINE Body(f, p) ==
               LET body == read_exact(stream, cuts, p, 2)
                   size == from_bytes(Slice(stream, p, body - p))
                   next == read_exact(stream, cuts, body, size)
               IN  IF body = Closed THEN <<>>
                   ELSE IF next = Closed THEN <<>>
                   ELSE <<Slice(stream, body, next - body)>> \o f[next]
           PlainLoop(f, p) ==
               IF p \in NoFrame(stream) THEN <<>>
               ELSE <<MessageHere(stream, p)>> \o f[EndHere(stream, p)]
           L == Len(stream)
<1>0. L \in Nat
  OBVIOUS
<1>1. ASSUME NEW p \in 0..L, p + 2 <= L
      PROVE  EndHere(stream, p) \in Nat /\ p < EndHere(stream, p)
             /\ EndHere(stream, p) = p + 2 + SizeHere(stream, p)
             /\ SizeHere(stream, p) \in Nat
  BY <1>1, SizeIsNat DEF EndHere
<1>2. ASSUME NEW f, NEW p \in 0..L
      PROVE  Body(f, p) = PlainLoop(f, p)
  <2>1. read_exact(stream, cuts, p, 2) = Whole(stream, p, 2)
    BY ReadExactIsWhole
  <2>2. CASE p + 2 > L
    BY <2>1, <2>2 DEF Whole, NoFrame
  <2>3. CASE p + 2 <= L
    <3> DEFINE size == SizeHere(stream, p)
               next == read_exact(stream, cuts, p + 2, size)
    <3>1. Whole(stream, p, 2) = p + 2 /\ p + 2 # Closed /\ p + 2 - p = 2
      BY <2>3 DEF Whole, Closed
    <3>2. Body(f, p) = IF next = Closed THEN <<>>
                       ELSE <<Slice(stream, p + 2, next - (p + 2))>> \o f[next]
      BY <2>1, <3>1 DEF SizeHere
    <3>3. next = Whole(stream, p + 2, size)
      BY <1>1, <2>3, ReadExactIsWhole
    <3>4. CASE EndHere(stream, p) > L
      <4>1. next = Closed
        BY <1>1, <2>3, <3>3, <3>4 DEF Whole
      <4>2. p \in NoFrame(stream)
        BY <3>4 DEF NoFrame
      <4> QED
        BY <3>2, <4>1, <4>2
    <3>5. CASE EndHere(stream, p) <= L
      <4>1. next = EndHere(stream, p) /\ next # Closed /\ next - (p + 2) = size
        BY <1>0, <1>1, <2>3, <3>3, <3>5 DEF Whole, Closed
      <4>2. p \notin NoFrame(stream)
        BY <1>0, <1>1, <2>3, <3>5 DEF NoFrame
      <4> QED
        BY <3>2, <4>1, <4>2 DEF MessageHere
    <3> QED
      BY <1>0, <1>1, <2>3, <3>4, <3>5
  <2> QED
    BY <1>0, <2>2, <2>3
<1> DEFINE after == [p \in 0..L |-> IF p \in NoFrame(stream) THEN 0
                                    ELSE EndHere(stream, p)]
           piece == [p \in 0..L |-> MessageHere(stream, p)]
<1>3. PICK g : Unrolls(g, L, NoFrame(stream), after, piece)
  <2>1. L \in NoFrame(stream)
    BY <1>0 DEF NoFrame
  <2>2. \A p \in (0..L) \ NoFrame(stream) :
            /\ p + 2 <= L /\ EndHere(stream, p) \in Nat
            /\ p < EndHere(stream, p) /\ EndHere(stream, p) <= L
    BY <1>0, <1>1 DEF NoFrame
  <2>3. after \in [0..L -> Nat]
    BY <2>2
  <2>4. \A p \in (0..L) \ NoFrame(stream) : p < after[p] /\ after[p] <= L
    BY <2>2
  <2>5. Forward(L, NoFrame(stream), after)
    BY <2>1, <2>4 DEF Forward
  <2> HIDE DEF after, piece, L
  <2> QED
    BY <1>0, <2>3, <2>5, LoopExists, Zenon
<1>4. g = [p \in 0..L |-> PlainLoop(g, p)]
  BY <1>3 DEF Unrolls
<1>5. g = [p \in 0..L |-> Body(g, p)]
  BY <1>2, <1>4
<1> DEFINE loop == CHOOSE f : f = [p \in 0..L |-> Body(f, p)]
<1>6. loop = [p \in 0..L |-> Body(loop, p)]
  BY <1>5
<1>7. receive_loop(stream, cuts) = loop[0]
  BY DEF receive_loop
<1> HIDE DEF loop
<1>8. \A p \in 0..L : loop[p] = PlainLoop(loop, p)
  BY <1>2, <1>6
<1> QED
  BY <1>7, <1>8 DEF Frames

\* As much of the frame of m as the stream has is there from p on.
Framed(stream, p, m) ==
    \A i \in 1..(2 + Len(m)) : p + i <= Len(stream) => stream[p + i] = frame(m)[i]

LEMMA FrameBytes ==
    ASSUME NEW m \in Seq(Nat)
    PROVE  /\ frame(m) \in Seq(Nat) /\ Len(frame(m)) = 2 + Len(m)
           /\ frame(m)[1] = Len(m) \div 256 /\ frame(m)[2] = Len(m) % 256
           /\ \A i \in 1..Len(m) : frame(m)[2 + i] = m[i]
<1> DEFINE header == <<Len(m) \div 256, Len(m) % 256>>
<1>1. Len(m) \in Nat /\ Len(m) \div 256 \in Nat /\ Len(m) % 256 \in Nat
  OBVIOUS
<1>2. /\ header \in Seq(Nat) /\ Len(header) = 2
      /\ header[1] = Len(m) \div 256 /\ header[2] = Len(m) % 256
  BY <1>1
<1>3. frame(m) = header \o m
  BY DEF frame
<1> HIDE DEF header
<1>4. /\ header \o m \in Seq(Nat) /\ Len(header \o m) = Len(header) + Len(m)
      /\ \A i \in 1..(Len(header) + Len(m)) :
            (header \o m)[i] = IF i <= Len(header) THEN header[i] ELSE m[i - Len(header)]
  <2>1. header \in Seq(Nat) /\ m \in Seq(Nat)
    BY <1>2
  <2> QED
    BY <2>1, ConcatProperties, Zenon
<1>5. ASSUME NEW i \in 1..Len(m)
      PROVE  (header \o m)[2 + i] = m[i]
  <2>1. 2 + i \in 1..(Len(header) + Len(m)) /\ ~ (2 + i <= Len(header))
        /\ 2 + i - Len(header) = i
    BY <1>1, <1>2
  <2> QED
    BY <1>4, <2>1
<1>6. 1 \in 1..(Len(header) + Len(m)) /\ 2 \in 1..(Len(header) + Len(m))
      /\ 1 <= Len(header) /\ 2 <= Len(header)
  BY <1>1, <1>2
<1> QED
  BY <1>2, <1>3, <1>4, <1>5, <1>6

\* The header of a frame is the length of its message, at any length.
LEMMA FrameHere ==
    ASSUME NEW stream \in Seq(Nat), NEW p \in Nat, NEW m \in Seq(Nat),
           Framed(stream, p, m), p + 2 <= Len(stream)
    PROVE  /\ SizeHere(stream, p) = Len(m)
           /\ p + 2 + Len(m) <= Len(stream) => MessageHere(stream, p) = m
<1>0. Len(m) \in Nat /\ Len(stream) \in Nat
  OBVIOUS
<1>1. stream[p + 1] = Len(m) \div 256 /\ stream[p + 2] = Len(m) % 256
  <2>1. 1 \in 1..(2 + Len(m)) /\ 2 \in 1..(2 + Len(m))
        /\ p + 1 <= Len(stream) /\ p + 2 <= Len(stream)
    BY <1>0
  <2> QED
    BY <2>1, FrameBytes DEF Framed
<1>2. (256 * (Len(m) \div 256)) + (Len(m) % 256) = Len(m)
  BY <1>0
<1>3. SizeHere(stream, p) = Len(m)
  BY <1>1, <1>2, SizeIsNat
<1>4. ASSUME p + 2 + Len(m) <= Len(stream)
      PROVE  MessageHere(stream, p) = m
  <2> DEFINE s == Slice(stream, p + 2, Len(m))
  <2>1. p + 2 \in Nat
    OBVIOUS
  <2>2. /\ s \in Seq(Nat) /\ Len(s) = Len(m)
        /\ \A i \in 1..Len(m) : s[i] = stream[p + 2 + i]
    BY <1>0, <1>4, <2>1, SliceLength
  <2>3. \A i \in 1..Len(m) : stream[p + 2 + i] = m[i]
    <3> SUFFICES ASSUME NEW i \in 1..Len(m) PROVE stream[p + 2 + i] = m[i]
      OBVIOUS
    <3>1. 2 + i \in 1..(2 + Len(m)) /\ p + (2 + i) <= Len(stream)
          /\ p + (2 + i) = p + 2 + i
      BY <1>0, <1>4
    <3>2. stream[p + (2 + i)] = frame(m)[2 + i]
      BY <3>1 DEF Framed
    <3> QED
      BY <3>1, <3>2, FrameBytes
  <2> HIDE DEF s
  <2>4. s = m
    BY <2>2, <2>3, SeqEqual
  <2> QED
    BY <1>3, <2>4 DEF s, MessageHere
<1> QED
  BY <1>3, <1>4

\* A frame that is wholly there is one message, one that is not is none.
LEMMA FrameStep ==
    ASSUME NEW stream \in Seq(Nat), NEW p \in 0..Len(stream), NEW m \in Seq(Nat),
           Framed(stream, p, m), NEW f, Frames(stream, f)
    PROVE  f[p] = IF p + 2 + Len(m) <= Len(stream)
                  THEN <<m>> \o f[p + 2 + Len(m)] ELSE <<>>
<1>0. Len(m) \in Nat /\ Len(stream) \in Nat /\ p \in Nat
  OBVIOUS
<1>1. CASE p + 2 > Len(stream)
  <2>1. p \in NoFrame(stream) /\ ~ (p + 2 + Len(m) <= Len(stream))
    BY <1>0, <1>1 DEF NoFrame
  <2> QED
    BY <2>1 DEF Frames
<1>2. CASE p + 2 <= Len(stream)
  <2>1. EndHere(stream, p) = p + 2 + Len(m)
    BY <1>0, <1>2, FrameHere DEF EndHere
  <2>2. CASE p + 2 + Len(m) <= Len(stream)
    <3>1. p \notin NoFrame(stream)
      BY <1>0, <1>2, <2>1, <2>2 DEF NoFrame
    <3>2. MessageHere(stream, p) = m
      BY <1>0, <1>2, <2>2, FrameHere
    <3> QED
      BY <2>1, <2>2, <3>1, <3>2 DEF Frames
  <2>3. CASE ~ (p + 2 + Len(m) <= Len(stream))
    <3>1. p \in NoFrame(stream)
      BY <1>0, <2>1, <2>3 DEF NoFrame
    <3> QED
      BY <2>3, <3>1 DEF Frames
  <2> QED
    BY <2>2, <2>3
<1> QED
  BY <1>0, <1>1, <1>2

\* Frames laid end to end, and what is there of them if the stream ends early.
LaidOut(whole, s, m, t) == whole = s \o (frame(m) \o t)
EndsAt(stream, whole, end) == stream = SubSeq(whole, 1, end)

LEMMA FramesInPlace ==
    ASSUME NEW s \in Seq(Nat), NEW m \in Seq(Nat), NEW t \in Seq(Nat),
           NEW whole, LaidOut(whole, s, m, t),
           NEW end \in 0..Len(whole), NEW stream, EndsAt(stream, whole, end)
    PROVE  /\ whole \in Seq(Nat) /\ Len(whole) = Len(s) + 2 + Len(m) + Len(t)
           /\ stream \in Seq(Nat) /\ Len(stream) = end
           /\ Framed(stream, Len(s), m)
<1> DEFINE fm == frame(m)
           rest == fm \o t
<1>0. Len(s) \in Nat /\ Len(m) \in Nat /\ Len(t) \in Nat
  OBVIOUS
<1>1. fm \in Seq(Nat) /\ Len(fm) = 2 + Len(m)
  BY FrameBytes
<1> HIDE DEF fm
<1>2. /\ rest \in Seq(Nat) /\ Len(rest) = 2 + Len(m) + Len(t)
      /\ \A i \in 1..(2 + Len(m)) : rest[i] = fm[i]
  <2>1. /\ rest \in Seq(Nat) /\ Len(rest) = Len(fm) + Len(t)
        /\ \A i \in 1..(Len(fm) + Len(t)) :
              rest[i] = IF i <= Len(fm) THEN fm[i] ELSE t[i - Len(fm)]
    BY <1>1, ConcatProperties, ZenonT(40)
  <2>2. \A i \in 1..(2 + Len(m)) : i \in 1..(Len(fm) + Len(t)) /\ i <= Len(fm)
    BY <1>0, <1>1
  <2> QED
    BY <1>0, <1>1, <2>1, <2>2
<1> HIDE DEF rest
<1>3. /\ whole \in Seq(Nat) /\ Len(whole) = Len(s) + 2 + Len(m) + Len(t)
      /\ \A i \in 1..(2 + Len(m)) : whole[Len(s) + i] = fm[i]
  <2>1. /\ whole \in Seq(Nat) /\ Len(whole) = Len(s) + Len(rest)
        /\ \A i \in 1..(Len(s) + Len(rest)) :
              whole[i] = IF i <= Len(s) THEN s[i] ELSE rest[i - Len(s)]
    <3>1. s \in Seq(Nat) /\ rest \in Seq(Nat)
      BY <1>2
    <3>2. whole = s \o rest
      BY DEF rest, fm, LaidOut
    <3> QED
      BY <3>1, <3>2, ConcatProperties, Zenon
  <2>2. \A i \in 1..(2 + Len(m)) : /\ Len(s) + i \in 1..(Len(s) + Len(rest))
                                   /\ ~ (Len(s) + i <= Len(s))
                                   /\ Len(s) + i - Len(s) = i
    BY <1>0, <1>2
  <2>3. \A i \in 1..(2 + Len(m)) : whole[Len(s) + i] = rest[i]
    BY <2>1, <2>2, SMTT(40)
  <2>4. Len(whole) = Len(s) + 2 + Len(m) + Len(t)
    BY <1>0, <1>2, <2>1
  <2> QED
    BY <1>2, <2>1, <2>3, <2>4
<1>5. /\ stream \in Seq(Nat) /\ Len(stream) = end
      /\ \A i \in 1..end : stream[i] = whole[i]
  <2>0. stream = SubSeq(whole, 1, end)
    BY DEF EndsAt
  <2>1. CASE end = 0
    BY <2>0, <2>1, SubSeqEmpty
  <2>2. CASE end # 0
    <3>1. /\ 1 \in Int /\ end \in Int
          /\ \A i \in 1..end : whole[i] \in Nat
      <4>1. whole \in Seq(Nat) /\ Len(whole) \in Nat /\ end <= Len(whole)
            /\ 1 \in Int /\ end \in Int
        BY <1>0, <1>3
      <4>2. \A i \in 1..end : i \in 1..Len(whole)
        BY <4>1
      <4> QED
        BY <4>1, <4>2
    <3>2. \A i \in 1..end : 1 + i - 1 = i
      OBVIOUS
    <3>3. /\ SubSeq(whole, 1, end) \in Seq(Nat)
          /\ Len(SubSeq(whole, 1, end)) = IF 1 <= end THEN end - 1 + 1 ELSE 0
          /\ \A i \in 1..(end - 1 + 1) : SubSeq(whole, 1, end)[i] = whole[1 + i - 1]
      BY <3>1, SubSeqProperties
    <3>4. end - 1 + 1 = end /\ 1 <= end
      BY <1>3, <2>2
    <3> QED
      BY <2>0, <3>2, <3>3, <3>4
  <2> QED
    BY <2>1, <2>2
<1>6. Framed(stream, Len(s), m)
  <2> SUFFICES ASSUME NEW i \in 1..(2 + Len(m)), Len(s) + i <= Len(stream)
               PROVE  stream[Len(s) + i] = fm[i]
    BY DEF Framed, fm
  <2>1. Len(s) + i \in 1..end
    BY <1>0, <1>5
  <2> QED
    BY <1>3, <1>5, <2>1
<1> QED
  BY <1>3, <1>5, <1>6

\* Two messages on a connection that is cut anywhere and closes anywhere.
THEOREM FramesComeBack ==
    ASSUME NEW a \in Seq(Nat), NEW b \in Seq(Nat), NEW cuts \in SUBSET Nat,
           NEW end \in 0..Len(frame(a) \o frame(b))
    PROVE  receive_loop(SubSeq(frame(a) \o frame(b), 1, end), cuts) =
               (IF end >= Len(frame(a)) THEN <<a>> ELSE <<>>)
                 \o (IF end = Len(frame(a) \o frame(b)) THEN <<b>> ELSE <<>>)
<1> DEFINE stream == SubSeq(frame(a) \o frame(b), 1, end)
<1>0. /\ Len(a) \in Nat /\ Len(b) \in Nat /\ end \in Nat
      /\ frame(a) \in Seq(Nat) /\ Len(frame(a)) = 2 + Len(a)
      /\ frame(b) \in Seq(Nat) /\ Len(frame(b)) = 2 + Len(b)
      /\ <<>> \in Seq(Nat) /\ Len(<<>>) = 0
  <2>1. end \in Nat
    <3>1. frame(a) \in Seq(Nat) /\ frame(b) \in Seq(Nat)
      BY FrameBytes
    <3>2. Len(frame(a) \o frame(b)) \in Nat
      BY <3>1
    <3> QED
      BY <3>2
  <2>2. /\ Len(a) \in Nat /\ Len(b) \in Nat
        /\ <<>> \in Seq(Nat) /\ Len(<<>>) = 0
    OBVIOUS
  <2>3. /\ frame(a) \in Seq(Nat) /\ Len(frame(a)) = 2 + Len(a)
        /\ frame(b) \in Seq(Nat) /\ Len(frame(b)) = 2 + Len(b)
    BY FrameBytes
  <2> QED
    BY <2>1, <2>2, <2>3
<1>1. /\ <<>> \o (frame(a) \o frame(b)) = frame(a) \o frame(b)
      /\ frame(a) \o (frame(b) \o <<>>) = frame(a) \o frame(b)
  <2>1. frame(a) \o frame(b) \in Seq(Nat)
    BY <1>0
  <2>2. frame(b) \o <<>> = frame(b)
    BY <1>0, ConcatEmptySeq, Zenon
  <2>3. <<>> \o (frame(a) \o frame(b)) = frame(a) \o frame(b)
    BY <2>1, ConcatEmptySeq, Zenon
  <2> QED
    BY <2>2, <2>3
<1>2. /\ stream \in Seq(Nat) /\ Len(stream) = end
      /\ Len(frame(a) \o frame(b)) = 4 + Len(a) + Len(b)
      /\ Framed(stream, 0, a)
  <2>0. PICK e \in Seq(Nat) : e = <<>> /\ Len(e) = 0
    BY <1>0
  <2>1. e \o (frame(a) \o frame(b)) = frame(a) \o frame(b)
    BY <1>1, <2>0
  <2>2. stream = SubSeq(e \o (frame(a) \o frame(b)), 1, end)
    BY <2>1
  <2> HIDE DEF stream
  <2> DEFINE whole == frame(a) \o frame(b)
  <2>3. LaidOut(whole, e, a, frame(b)) /\ end \in 0..Len(whole)
        /\ EndsAt(stream, whole, end)
    BY <2>1, <2>2 DEF LaidOut, EndsAt
  <2> HIDE DEF whole
  <2>4. /\ Len(whole) = Len(e) + 2 + Len(a) + Len(frame(b))
        /\ stream \in Seq(Nat) /\ Len(stream) = end
        /\ Framed(stream, Len(e), a)
    <3>1. e \in Seq(Nat) /\ a \in Seq(Nat) /\ frame(b) \in Seq(Nat)
      BY <1>0
    <3> QED
      BY <2>3, <3>1, FramesInPlace
  <2> QED
    BY <1>0, <2>0, <2>4 DEF whole
<1>3. Framed(stream, 2 + Len(a), b)
  <2> DEFINE whole == frame(a) \o frame(b)
  <2>1. LaidOut(whole, frame(a), b, <<>>) /\ end \in 0..Len(whole)
        /\ EndsAt(stream, whole, end)
    BY <1>1 DEF LaidOut, EndsAt
  <2> HIDE DEF whole, stream
  <2>2. Framed(stream, Len(frame(a)), b)
    BY <1>0, <2>1, FramesInPlace, Zenon
  <2> QED
    BY <1>0, <2>2
<1> DEFINE total == 4 + Len(a) + Len(b)
<1>e. end <= total
  BY <1>0, <1>2
<1> HIDE DEF stream
<1>4. PICK f : Frames(stream, f) /\ receive_loop(stream, cuts) = f[0]
  BY <1>2, ReceiveLoop
<1>5. f[0] = IF 2 + Len(a) <= end THEN <<a>> \o f[2 + Len(a)] ELSE <<>>
  <2>1. 0 \in 0..Len(stream)
    BY <1>0, <1>2
  <2>2. f[0] = IF 0 + 2 + Len(a) <= Len(stream)
               THEN <<a>> \o f[0 + 2 + Len(a)] ELSE <<>>
    BY <1>2, <1>4, <2>1, FrameStep, Zenon
  <2>3. 0 + 2 + Len(a) = 2 + Len(a)
    BY <1>0
  <2> QED
    BY <1>2, <2>2, <2>3
<1>6. ASSUME 2 + Len(a) <= end
      PROVE  f[2 + Len(a)] = IF total <= end THEN <<b>> \o f[total] ELSE <<>>
  <2>1. 2 + Len(a) \in 0..Len(stream)
    BY <1>0, <1>2, <1>6
  <2>2. 2 + Len(a) + 2 + Len(b) = total
    BY <1>0
  <2> QED
    BY <1>2, <1>3, <1>4, <2>1, <2>2, FrameStep, ZenonT(40)
<1>7. ASSUME end = total
      PROVE  f[total] = <<>>
  <2>1. total \in 0..Len(stream) /\ total + 2 > Len(stream)
    BY <1>0, <1>2, <1>7
  <2> QED
    BY <2>1, <1>4 DEF Frames, NoFrame
<1>8. receive_loop(stream, cuts) = (IF end >= 2 + Len(a) THEN <<a>> ELSE <<>>)
                                     \o (IF end = total THEN <<b>> ELSE <<>>)
  <2>0. /\ <<a>> \in Seq(Seq(Nat)) /\ <<b>> \in Seq(Seq(Nat))
        /\ <<>> \o <<>> = <<>> /\ <<a>> \o <<>> = <<a>> /\ <<b>> \o <<>> = <<b>>
    OBVIOUS
  <2>1. CASE end < 2 + Len(a)
    <3>1. end # total /\ ~ (end >= 2 + Len(a)) /\ ~ (2 + Len(a) <= end)
      BY <1>0, <2>1
    <3> QED
      BY <1>4, <1>5, <2>0, <3>1
  <2>2. CASE end >= 2 + Len(a) /\ end # total
    <3>1. 2 + Len(a) <= end /\ ~ (total <= end)
      <4>1. total \in Nat
        BY <1>0
      <4> HIDE DEF total
      <4> QED
        BY <1>0, <1>e, <2>2, <4>1
    <3>2. f[0] = <<a>> \o <<>>
      BY <1>5, <1>6, <3>1
    <3> QED
      BY <1>4, <2>2, <3>2
  <2>3. CASE end = total
    <3>1. 2 + Len(a) <= end /\ total <= end /\ end >= 2 + Len(a)
      BY <1>0, <2>3
    <3>2. f[2 + Len(a)] = <<b>> \o <<>>
      BY <1>6, <1>7, <2>3, <3>1
    <3>3. f[0] = <<a>> \o <<b>>
      BY <1>5, <2>0, <3>1, <3>2
    <3> QED
      BY <1>4, <2>3, <3>1, <3>3
  <2> QED
    BY <1>0, <2>1, <2>2, <2>3, SMTT(40)
<1> QED
  BY <1>0, <1>2, <1>8 DEF stream

-----------------------------------------------------------------------------
(* A file of framed messages.                                              *)

Pieces(data, f) ==
    \A p \in 0..Len(data) :
        f[p] = IF p = Len(data) THEN <<>>
               ELSE <<MessageHere(data, p)>>
                      \o f[LeastOf(EndHere(data, p), Len(data))]

LEMMA FileLoop ==
    ASSUME NEW data \in Seq(Nat)
    PROVE  \E f : Pieces(data, f) /\ iter_messages_from_file(data) = f[0]
<1> DEFINE L == Len(data)
           Body(f, p) == IF p = Len(data) THEN <<>>
                         ELSE LET size == from_bytes(Slice(data, p, 2))
                              IN  <<Slice(data, p + 2, size)>>
                                    \o f[LeastOf(p + 2 + size, Len(data))]
           PlainLoop(f, p) ==
               IF p = L THEN <<>>
               ELSE <<MessageHere(data, p)>> \o f[LeastOf(EndHere(data, p), L)]
           after == [p \in 0..L |-> IF p = L THEN 0
                                    ELSE LeastOf(EndHere(data, p), L)]
           piece == [p \in 0..L |-> MessageHere(data, p)]
<1>0. L \in Nat
  OBVIOUS
<1>1. ASSUME NEW f, NEW p \in 0..L
      PROVE  Body(f, p) = PlainLoop(f, p)
  BY DEF MessageHere, EndHere, SizeHere
<1>2. ASSUME NEW p \in 0..L, p # L
      PROVE  SizeHere(data, p) \in Nat
  <2>1. CASE p + 2 <= L
    BY <2>1, SizeIsNat
  <2>2. CASE p + 1 = L
    <3>1. Slice(data, p, 2) = SubSeq(data, p + 1, p + 1)
      BY <1>0, <2>2 DEF Slice, LeastOf
    <3>2. /\ p + 1 \in Int /\ p + 1 <= p + 1 /\ p + 1 - (p + 1) + 1 = 1
          /\ p + 1 + 1 - 1 = p + 1 /\ p + 1 \in 1..Len(data)
      BY <1>0, <2>2
    <3>3. data[p + 1] \in Nat /\ \A i \in (p + 1)..(p + 1) : data[i] \in Nat
      BY <3>2
    <3>4. /\ Len(SubSeq(data, p + 1, p + 1)) = 1
          /\ SubSeq(data, p + 1, p + 1)[1] = data[p + 1]
      BY <3>2, <3>3, SubSeqProperties
    <3> QED
      BY <3>1, <3>3, <3>4 DEF SizeHere, from_bytes
  <2> QED
    BY <1>0, <1>2, <2>1, <2>2
<1>3. PICK g : Unrolls(g, L, {L}, after, piece)
  <2>1. ASSUME NEW p \in 0..L, p # L
        PROVE  after[p] \in Nat /\ p < after[p] /\ after[p] <= L
    <3>1. EndHere(data, p) \in Nat /\ p < EndHere(data, p)
      BY <1>2, <2>1 DEF EndHere
    <3> QED
      BY <1>0, <2>1, <3>1 DEF LeastOf
  <2>2. after \in [0..L -> Nat]
    BY <2>1
  <2> HIDE DEF after, piece, L
  <2>3. Forward(L, {L}, after)
    BY <2>1 DEF Forward
  <2> QED
    BY <1>0, <2>2, <2>3, LoopExists, Zenon
<1>4. g = [p \in 0..L |-> PlainLoop(g, p)]
  BY <1>3 DEF Unrolls
<1>5. g = [p \in 0..L |-> Body(g, p)]
  BY <1>1, <1>4
<1> DEFINE loop == CHOOSE f : f = [p \in 0..L |-> Body(f, p)]
<1>6. loop = [p \in 0..L |-> Body(loop, p)]
  BY <1>5
<1>7. iter_messages_from_file(data) = loop[0]
  BY DEF iter_messages_from_file
<1> HIDE DEF loop
<1>8. \A p \in 0..L : loop[p] = PlainLoop(loop, p)
  BY <1>1, <1>6
<1> QED
  BY <1>7, <1>8 DEF Pieces

LEMMA Associative ==
    ASSUME NEW s \in Seq(Nat), NEW t \in Seq(Nat), NEW u \in Seq(Nat)
    PROVE  s \o (t \o u) = (s \o t) \o u
BY ConcatAssociative, SMTT(40)

LEMMA OneMore ==
    ASSUME NEW P, NEW x \in P, NEW s \in Seq(P), NEW t \in Seq(P),
           Len(t) = 1 + Len(s), t[1] = x, \A i \in 1..Len(s) : t[i + 1] = s[i]
    PROVE  <<x>> \o s = t
<1> DEFINE one == <<x>>
           both == one \o s
<1>0. Len(s) \in Nat
  OBVIOUS
<1>1. one \in Seq(P) /\ Len(one) = 1 /\ one[1] = x
  OBVIOUS
<1> HIDE DEF one
<1>2. /\ both \in Seq(P) /\ Len(both) = Len(one) + Len(s)
      /\ \A i \in 1..(Len(one) + Len(s)) :
            both[i] = IF i <= Len(one) THEN one[i] ELSE s[i - Len(one)]
  BY <1>1, ConcatProperties, Zenon
<1> HIDE DEF both
<1>3. ASSUME NEW i \in 1..Len(both)
      PROVE  both[i] = t[i]
  <2>1. CASE i = 1
    BY <1>0, <1>1, <1>2, <2>1
  <2>2. CASE i # 1
    <3>1. i - 1 \in 1..Len(s) /\ i - 1 + 1 = i /\ ~ (i <= 1)
      BY <1>0, <1>1, <1>2, <2>2
    <3>2. both[i] = s[i - 1]
      BY <1>1, <1>2, <3>1
    <3> QED
      BY <3>1, <3>2
  <2> QED
    BY <2>1, <2>2
<1>4. Len(both) = Len(t)
  BY <1>0, <1>1, <1>2
<1>5. both = t
  BY <1>2, <1>3, <1>4, SeqEqual
<1> QED
  BY <1>5 DEF both, one

LEMMA OneByOne ==
    ASSUME NEW c \in Seq(Nat), NEW a \in Seq(Nat), NEW b \in Seq(Nat)
    PROVE  <<a>> \o <<b>> = <<a, b>> /\ <<c>> \o <<a, b>> = <<c, a, b>>
<1> DEFINE P == Seq(Nat)
           b1 == <<b>>
           ab == <<a, b>>
           cab == <<c, a, b>>
<1>1. /\ a \in P /\ c \in P
      /\ b1 \in Seq(P) /\ Len(b1) = 1 /\ b1[1] = b
      /\ ab \in Seq(P) /\ Len(ab) = 2 /\ ab[1] = a /\ ab[2] = b
      /\ cab \in Seq(P) /\ Len(cab) = 3 /\ cab[1] = c /\ cab[2] = a /\ cab[3] = b
  OBVIOUS
<1> HIDE DEF P, b1, ab, cab
<1>2. /\ Len(ab) = 1 + Len(b1) /\ \A i \in 1..Len(b1) : ab[i + 1] = b1[i]
      /\ Len(cab) = 1 + Len(ab) /\ \A i \in 1..Len(ab) : cab[i + 1] = ab[i]
  BY <1>1
<1>3. <<a>> \o b1 = ab
  BY <1>1, <1>2, OneMore
<1>4. <<c>> \o ab = cab
  BY <1>1, <1>2, OneMore
<1> QED
  BY <1>3, <1>4 DEF b1, ab, cab

Yields(f, p, m, next) == f[p] = <<m>> \o f[next]

LEMMA FileStep ==
    ASSUME NEW data \in Seq(Nat), NEW p \in Nat, NEW m \in Seq(Nat),
           Framed(data, p, m),
           NEW next \in Nat, next = p + 2 + Len(m), next <= Len(data),
           NEW f, Pieces(data, f)
    PROVE  Yields(f, p, m, next)
<1>0. Len(m) \in Nat /\ Len(data) \in Nat
  OBVIOUS
<1>1. p + 2 <= Len(data) /\ p \in 0..Len(data) /\ p # Len(data)
  BY <1>0
<1>2. SizeHere(data, p) = Len(m) /\ MessageHere(data, p) = m
  BY <1>1, FrameHere
<1>3. LeastOf(EndHere(data, p), Len(data)) = next
  BY <1>0, <1>2 DEF EndHere, LeastOf
<1> QED
  BY <1>1, <1>2, <1>3 DEF Pieces, Yields

LEMMA WholeFrames ==
    ASSUME NEW s \in Seq(Nat), NEW m \in Seq(Nat), NEW t \in Seq(Nat),
           NEW whole, LaidOut(whole, s, m, t)
    PROVE  /\ whole \in Seq(Nat) /\ Len(whole) = Len(s) + 2 + Len(m) + Len(t)
           /\ Framed(whole, Len(s), m)
<1>1. whole \in Seq(Nat)
  <2>1. frame(m) \o t \in Seq(Nat)
    BY FrameBytes, ConcatProperties
  <2> QED
    BY <2>1, ConcatProperties DEF LaidOut
<1>2. Len(whole) \in 0..Len(whole)
  BY <1>1
<1>3. EndsAt(whole, whole, Len(whole))
  BY <1>1, SubSeqFull DEF EndsAt
<1> QED
  BY <1>2, <1>3, FramesInPlace, SMTT(30)

\* A file of messages is read back message by message, to its end.
THEOREM FilesComeBack ==
    ASSUME NEW c \in Seq(Nat), NEW a \in Seq(Nat), NEW b \in Seq(Nat)
    PROVE  iter_messages_from_file(frame(c) \o (frame(a) \o frame(b))) = <<c, a, b>>
<1> DEFINE data == frame(c) \o (frame(a) \o frame(b))
           la == 2 + Len(c)
           lb == la + 2 + Len(a)
           total == lb + 2 + Len(b)
<1>0. /\ Len(a) \in Nat /\ Len(b) \in Nat /\ Len(c) \in Nat
      /\ frame(a) \in Seq(Nat) /\ Len(frame(a)) = 2 + Len(a)
      /\ frame(b) \in Seq(Nat) /\ Len(frame(b)) = 2 + Len(b)
      /\ frame(c) \in Seq(Nat) /\ Len(frame(c)) = 2 + Len(c)
  <2>1. Len(a) \in Nat /\ Len(b) \in Nat /\ Len(c) \in Nat
    OBVIOUS
  <2> QED
    BY <2>1, FrameBytes
<1>1. PICK e \in Seq(Nat) : e = <<>> /\ Len(e) = 0
  <2>1. <<>> \in Seq(Nat) /\ Len(<<>>) = 0
    OBVIOUS
  <2> QED
    BY <2>1, Zenon
<1> DEFINE ab == frame(a) \o frame(b)
           ca == frame(c) \o frame(a)
<1>2. /\ ab \in Seq(Nat) /\ Len(ab) = 4 + Len(a) + Len(b)
      /\ ca \in Seq(Nat) /\ Len(ca) = lb
  <2>1. /\ ab \in Seq(Nat) /\ Len(ab) = Len(frame(a)) + Len(frame(b))
        /\ ca \in Seq(Nat) /\ Len(ca) = Len(frame(c)) + Len(frame(a))
    BY <1>0, ConcatProperties
  <2> HIDE DEF ab, ca
  <2> QED
    BY <1>0, <2>1
<1>3. LaidOut(data, e, c, ab)
  <2>1. frame(c) \o ab \in Seq(Nat)
    BY <1>0, <1>2, ConcatProperties
  <2>2. <<>> \o (frame(c) \o ab) = frame(c) \o ab
    BY <2>1, ConcatEmptySeq, Zenon
  <2> QED
    BY <1>1, <2>2 DEF LaidOut
<1>4. LaidOut(data, frame(c), a, frame(b))
  BY DEF LaidOut
<1>5. LaidOut(data, ca, b, e)
  <2>1. frame(b) \o <<>> = frame(b)
    BY <1>0, ConcatEmptySeq, Zenon
  <2>2. frame(c) \o (frame(a) \o frame(b)) = (frame(c) \o frame(a)) \o frame(b)
    <3>1. frame(a) \in Seq(Nat) /\ frame(b) \in Seq(Nat) /\ frame(c) \in Seq(Nat)
      BY <1>0
    <3> QED
      BY <3>1, Associative, ZenonT(60)
  <2> QED
    BY <1>1, <2>1, <2>2 DEF LaidOut
<1> HIDE DEF data, ab, ca
<1>6. /\ data \in Seq(Nat) /\ Len(data) = total
      /\ Framed(data, 0, c) /\ Framed(data, la, a) /\ Framed(data, lb, b)
  <2>1. /\ data \in Seq(Nat) /\ Len(data) = Len(e) + 2 + Len(c) + Len(ab)
        /\ Framed(data, Len(e), c)
    <3>1. e \in Seq(Nat) /\ c \in Seq(Nat) /\ ab \in Seq(Nat)
      BY <1>2
    <3> QED
      BY <3>1, <1>3, WholeFrames, Zenon
  <2>2. Framed(data, Len(frame(c)), a)
    BY <1>0, <1>4, WholeFrames
  <2>3. Framed(data, Len(ca), b)
    BY <1>0, <1>1, <1>2, <1>5, WholeFrames
  <2> QED
    BY <1>0, <1>1, <1>2, <2>1, <2>2, <2>3
<1>7. PICK f : Pieces(data, f) /\ iter_messages_from_file(data) = f[0]
  BY <1>6, FileLoop
<1>8. /\ la \in Nat /\ lb \in Nat /\ total \in Nat /\ 0 \in Nat
      /\ la = 0 + 2 + Len(c) /\ lb = la + 2 + Len(a) /\ total = lb + 2 + Len(b)
      /\ la <= total /\ lb <= total /\ total <= total
  BY <1>0
<1> HIDE DEF la, lb, total
<1>9. Yields(f, 0, c, la)
  BY <1>6, <1>7, <1>8, FileStep
<1>10. Yields(f, la, a, lb) /\ Yields(f, lb, b, total)
  BY <1>6, <1>7, <1>8, FileStep
<1>11. f[total] = <<>>
  <2>1. total = Len(data)
    BY <1>6
  <2>2. f[Len(data)] = <<>>
    <3>1. Len(data) \in 0..Len(data)
      BY <1>6
    <3> QED
      BY <3>1, <1>7 DEF Pieces
  <2> QED
    BY <2>1, <2>2
<1>12. f[lb] = <<b>>
  <2>1. f[lb] = <<b>> \o <<>>
    BY <1>10, <1>11 DEF Yields
  <2> QED
    BY <2>1
<1>13. f[la] = <<a, b>>
  <2>1. f[la] = <<a>> \o <<b>>
    BY <1>10, <1>12 DEF Yields
  <2> QED
    BY <2>1, OneByOne, Zenon
<1>14. f[0] = <<c, a, b>>
  <2>1. f[0] = <<c>> \o <<a, b>>
    BY <1>9, <1>13 DEF Yields
  <2> QED
    BY <2>1, OneByOne, Zenon
<1> QED
  BY <1>7, <1>14 DEF data

-----------------------------------------------------------------------------
(* Digits in nibbles.                                                      *)

Byte == 0..255
High(byte) == byte \div 16
Low(byte) == byte % 16

LEMMA TwoNibbles ==
    ASSUME NEW x \in 0..15, NEW y \in 0..15
    PROVE  /\ (16 * x) + y \in Byte
           /\ High((16 * x) + y) = x /\ Low((16 * x) + y) = y
BY DEF Byte, High, Low

LEMMA NibblesAreNat ==
    ASSUME NEW x \in Byte
    PROVE  High(x) \in Nat /\ Low(x) \in Nat
BY DEF Byte, High, Low

LEMMA Elements ==
    ASSUME NEW S, NEW s \in Seq(S)
    PROVE  Len(s) \in Nat /\ \A i \in 1..Len(s) : s[i] \in S
OBVIOUS

LEMMA FromFunction ==
    ASSUME NEW S, NEW n \in Nat, NEW f \in [1..n -> S]
    PROVE  f \in Seq(S) /\ Len(f) = n
OBVIOUS

LEMMA Encoded ==
    ASSUME NEW digits \in Seq(0..15)
    PROVE  /\ Len(bcd_encode(digits)) = bcd_byte_len(Len(digits))
           /\ bcd_encode(digits) \in Seq(Byte)
           /\ \A i \in 1..Len(digits) :
                 LET byte == bcd_encode(digits)[(i + 1) \div 2]
                 IN  digits[i] = IF i % 2 = 1 THEN High(byte) ELSE Low(byte)
<1> DEFINE n == Len(digits)
           even == IF n % 2 = 1 THEN Append(digits, Filler) ELSE digits
           size == Len(even) \div 2
           raw == bcd_encode(digits)
<1>0. n \in Nat
  OBVIOUS
<1>1. /\ even \in Seq(0..15) /\ \A i \in 1..n : even[i] = digits[i]
      /\ Len(even) = IF n % 2 = 1 THEN n + 1 ELSE n
  <2>1. digits \in Seq(0..15)
    OBVIOUS
  <2>2. CASE n % 2 = 1
    <3>1. even = Append(digits, Filler)
      BY <2>2
    <3>2. Filler \in 0..15
      BY DEF Filler
    <3> QED
      BY <2>1, <2>2, <3>1, <3>2, AppendProperties
  <2>3. CASE n % 2 # 1
    BY <2>1, <2>3
  <2> QED
    BY <2>2, <2>3
<1>2. raw = [i \in 1..size |-> (16 * even[2 * i - 1]) + even[2 * i]]
  BY DEF bcd_encode
<1> HIDE DEF even
<1>3. size \in Nat /\ Len(even) = 2 * size /\ size = bcd_byte_len(n)
  <2>1. CASE n % 2 = 1
    <3>1. Len(even) = n + 1 /\ n + 1 = 2 * ((n + 1) \div 2) /\ (n + 1) \div 2 \in Nat
      BY <1>0, <1>1, <2>1
    <3> QED
      BY <3>1 DEF bcd_byte_len
  <2>2. CASE n % 2 # 1
    <3>1. /\ Len(even) = n /\ n = 2 * (n \div 2) /\ n \div 2 \in Nat
          /\ (n + 1) \div 2 = n \div 2
      BY <1>0, <1>1, <2>2
    <3> QED
      BY <3>1 DEF bcd_byte_len
  <2> QED
    BY <2>1, <2>2
<1> HIDE DEF size, raw
<1>4. \A k \in 1..size : 2 * k - 1 \in 1..Len(even) /\ 2 * k \in 1..Len(even)
  BY <1>3
<1>5. \A k \in 1..size : even[2 * k - 1] \in 0..15 /\ even[2 * k] \in 0..15
  <2>1. \A j \in 1..Len(even) : even[j] \in 0..15
    BY <1>1, Elements
  <2> QED
    BY <1>4, <2>1
<1>6. \A k \in 1..size : /\ raw[k] \in Byte
                         /\ High(raw[k]) = even[2 * k - 1]
                         /\ Low(raw[k]) = even[2 * k]
  <2> SUFFICES ASSUME NEW k \in 1..size
               PROVE  /\ raw[k] \in Byte
                      /\ High(raw[k]) = even[2 * k - 1]
                      /\ Low(raw[k]) = even[2 * k]
    OBVIOUS
  <2>1. raw[k] = (16 * even[2 * k - 1]) + even[2 * k]
    BY <1>2
  <2>2. even[2 * k - 1] \in 0..15 /\ even[2 * k] \in 0..15
    BY <1>5
  <2>3. /\ (16 * even[2 * k - 1]) + even[2 * k] \in Byte
        /\ High((16 * even[2 * k - 1]) + even[2 * k]) = even[2 * k - 1]
        /\ Low((16 * even[2 * k - 1]) + even[2 * k]) = even[2 * k]
    BY <2>2, TwoNibbles
  <2> QED
    BY <2>1, <2>3, Zenon
<1>7. raw \in Seq(Byte) /\ Len(raw) = size
  <2>1. raw \in [1..size -> Byte]
    BY <1>2, <1>6
  <2> QED
    BY <1>3, <2>1, FromFunction, Zenon
<1>8. ASSUME NEW i \in 1..n
      PROVE  digits[i] = IF i % 2 = 1 THEN High(raw[(i + 1) \div 2])
                                      ELSE Low(raw[(i + 1) \div 2])
  <2>1. (i + 1) \div 2 \in 1..size
    BY <1>0, <1>3 DEF bcd_byte_len
  <2>2. CASE i % 2 = 1
    <3>1. 2 * ((i + 1) \div 2) - 1 = i
      BY <1>0, <2>2
    <3> QED
      BY <1>1, <1>6, <2>1, <2>2, <3>1
  <2>3. CASE i % 2 # 1
    <3>1. 2 * ((i + 1) \div 2) = i
      BY <1>0, <2>3
    <3> QED
      BY <1>1, <1>6, <2>1, <2>3, <3>1
  <2> QED
    BY <2>2, <2>3
<1> QED
  BY <1>3, <1>7, <1>8 DEF raw

\* Digits, those of a PIN block in hex too, come back from their nibbles, however
\* many there are: an odd number of them too, whose last byte is half filler.
THEOREM DigitsComeBack ==
    ASSUME NEW digits \in Seq(0..15)
    PROVE  bcd_decode(bcd_encode(digits), Len(digits)) = digits
<1> DEFINE n == Len(digits)
           raw == bcd_encode(digits)
           nibbles == [i \in 1..(2 * Len(raw)) |->
                          IF i % 2 = 1 THEN High(raw[(i + 1) \div 2])
                                       ELSE Low(raw[i \div 2])]
           read == bcd_decode(raw, n)
<1>0. n \in Nat
  OBVIOUS
<1>1. /\ raw \in Seq(Byte) /\ Len(raw) = bcd_byte_len(n)
      /\ \A i \in 1..n : digits[i] = IF i % 2 = 1 THEN High(raw[(i + 1) \div 2])
                                                  ELSE Low(raw[(i + 1) \div 2])
  BY Encoded
<1>2. read = Slice(nibbles, 0, n)
  BY DEF bcd_decode, High, Low
<1> HIDE DEF raw, read
<1>3. 2 * Len(raw) \in Nat /\ n <= 2 * Len(raw)
  BY <1>0, <1>1 DEF bcd_byte_len
<1>4. \A i \in 1..n : nibbles[i] = digits[i]
  <2> SUFFICES ASSUME NEW i \in 1..n PROVE nibbles[i] = digits[i]
    OBVIOUS
  <2>1. i \in 1..(2 * Len(raw))
    BY <1>0, <1>3
  <2>2. i % 2 # 1 => i \div 2 = (i + 1) \div 2
    BY <1>0
  <2> QED
    BY <1>1, <2>1, <2>2
<1>5. nibbles \in Seq(Nat) /\ Len(nibbles) = 2 * Len(raw)
  <2>1. \A i \in 1..(2 * Len(raw)) : nibbles[i] \in Nat
    <3> SUFFICES ASSUME NEW i \in 1..(2 * Len(raw)) PROVE nibbles[i] \in Nat
      OBVIOUS
    <3>1. (i + 1) \div 2 \in 1..Len(raw) /\ i % 2 # 1 => i \div 2 \in 1..Len(raw)
      BY <1>3
    <3>2. \A k \in 1..Len(raw) : raw[k] \in Byte
      BY <1>1, Elements, Zenon
    <3>3. High(raw[(i + 1) \div 2]) \in Nat
      BY <3>1, <3>2, NibblesAreNat
    <3>4. i % 2 # 1 => Low(raw[i \div 2]) \in Nat
      BY <3>1, <3>2, NibblesAreNat
    <3> QED
      BY <3>3, <3>4
  <2> QED
    BY <1>3, <2>1
<1> HIDE DEF nibbles
<1>6. /\ read \in Seq(Nat) /\ Len(read) = n
      /\ \A i \in 1..n : read[i] = nibbles[0 + i]
  <2>1. 0 \in Nat /\ n \in Nat /\ 0 + n <= Len(nibbles)
    BY <1>0, <1>3, <1>5
  <2> QED
    BY <1>2, <1>5, <2>1, SliceLength
<1>7. \A i \in 1..n : read[i] = digits[i]
  BY <1>4, <1>6
<1>8. digits \in Seq(Nat)
  <2>1. \A i \in 1..n : digits[i] \in Nat
    OBVIOUS
  <2> QED
    BY <2>1
<1> HIDE DEF n
<1>9. read = digits
  BY <1>6, <1>7, <1>8, SeqEqual DEF n
<1> QED
  BY <1>9 DEF read, raw, n

-----------------------------------------------------------------------------
(* Data elements of a fixed length.                                        *)

Spec8583 == [de : Nat, prefix : {0, 2, 4}, length : Nat, numeric : BOOLEAN]

\* A length is written in two digits if it has two, or in four.
Lengths2 == 1..99
Lengths4 == {n \in Nat : 1 <= n /\ n <= 9999}
IsSpec(s) ==
    /\ s \in Spec8583 /\ s.de \in 2..128 /\ s.length \in Lengths4
    /\ s.prefix = 2 => s.length \in Lengths2

LEMMA LengthsAreNat == \A x \in Lengths4 : x \in Nat \ {0}
BY DEF Lengths4

Classes(classes, lengths) ==
    \A c \in classes : c[1] \in lengths /\ \A de \in c[2] : de \in 2..128

LEMMA KindIsSpec ==
    ASSUME NEW prefix \in {0, 2, 4}, NEW numeric \in BOOLEAN,
           NEW lengths \in {Lengths2, Lengths4}, prefix = 2 => lengths = Lengths2,
           NEW classes, Classes(classes, lengths)
    PROVE  \A s \in Kind(prefix, numeric, classes) : IsSpec(s)
<1> SUFFICES ASSUME NEW s \in Kind(prefix, numeric, classes)
             PROVE  IsSpec(s)
  OBVIOUS
<1>1. PICK c \in classes :
          s \in {[de |-> de, prefix |-> prefix, length |-> c[1], numeric |-> numeric]
                    : de \in c[2]}
  BY DEF Kind
<1>2. c[1] \in lengths /\ \A de \in c[2] : de \in 2..128
  BY DEF Classes
<1>3. PICK de \in c[2] :
          s = [de |-> de, prefix |-> prefix, length |-> c[1], numeric |-> numeric]
  BY <1>1
<1>4. de \in 2..128
  BY <1>2
<1>5. c[1] \in Lengths4
  <2>1. \A x \in Lengths2 : x \in Lengths4
    BY DEF Lengths2, Lengths4
  <2> QED
    BY <1>2, <2>1
<1>6. c[1] \in Nat /\ de \in Nat
  BY <1>4, <1>5, LengthsAreNat
<1>7. s \in Spec8583
  BY <1>3, <1>6 DEF Spec8583
<1>8. s.prefix = prefix /\ s.length = c[1] /\ s.de = de
  BY <1>3
<1> QED
  BY <1>2, <1>4, <1>5, <1>7, <1>8, Zenon DEF IsSpec

LEMMA FixedDigitsAreSpecs == Classes(FixedDigits, Lengths4)
<1> SUFFICES ASSUME NEW c \in FixedDigits
             PROVE  c[1] \in Lengths4 /\ \A de \in c[2] : de \in 2..128
  BY DEF Classes
<1>1. c[1] \in Lengths4
  BY SMT DEF Lengths4, FixedDigits
<1>2. \A de \in c[2] : de \in 2..128
  BY SMT DEF FixedDigits
<1> QED
  BY <1>1, <1>2

LEMMA FixedTextAreSpecs == Classes(FixedText, Lengths4)
<1> SUFFICES ASSUME NEW c \in FixedText
             PROVE  c[1] \in Lengths4 /\ \A de \in c[2] : de \in 2..128
  BY DEF Classes
<1>1. c[1] \in Lengths4
  BY SMT DEF Lengths4, FixedText
<1>2. \A de \in c[2] : de \in 2..128
  BY SMT DEF FixedText
<1> QED
  BY <1>1, <1>2

LEMMA VarDigitsAreSpecs == Classes(VarDigits, Lengths2)
<1> SUFFICES ASSUME NEW c \in VarDigits
             PROVE  c[1] \in Lengths2 /\ \A de \in c[2] : de \in 2..128
  BY DEF Classes
<1>1. c[1] \in Lengths2
  BY SMT DEF Lengths2, VarDigits
<1>2. \A de \in c[2] : de \in 2..128
  BY SMT DEF VarDigits
<1> QED
  BY <1>1, <1>2

LEMMA VarTextAreSpecs == Classes(VarText, Lengths2)
<1> SUFFICES ASSUME NEW c \in VarText
             PROVE  c[1] \in Lengths2 /\ \A de \in c[2] : de \in 2..128
  BY DEF Classes
<1>1. c[1] \in Lengths2
  BY SMT DEF Lengths2, VarText
<1>2. \A de \in c[2] : de \in 2..128
  BY SMT DEF VarText
<1> QED
  BY <1>1, <1>2

LEMMA LongVarTextAreSpecs == Classes(LongVarText, Lengths4)
<1> SUFFICES ASSUME NEW c \in LongVarText
             PROVE  c[1] \in Lengths4 /\ \A de \in c[2] : de \in 2..128
  BY DEF Classes
<1>1. c[1] \in Lengths4
  BY SMT DEF Lengths4, LongVarText
<1>2. \A de \in c[2] : de \in 2..128
  BY SMT DEF LongVarText
<1> QED
  BY <1>1, <1>2

\* Every entry of the catalogue is a field specification, of its element.
LEMMA SpecOfElement ==
    ASSUME NEW de \in DataElement
    PROVE  /\ IsSpec(FIELD_SPECS[de]) /\ FIELD_SPECS[de].de = de
           /\ FIELD_SPECS[de].length \in Nat \ {0} /\ de \in 2..128
<1> DEFINE all == Kind(0, TRUE, FixedDigits) \cup Kind(0, FALSE, FixedText)
                    \cup Kind(2, TRUE, VarDigits) \cup Kind(2, FALSE, VarText)
                    \cup Kind(4, FALSE, LongVarText)
           specs == [d \in {s.de : s \in all} |-> CHOOSE s \in all : s.de = d]
<1>1. FIELD_SPECS = specs
  BY SMT DEF FIELD_SPECS
<1>3. \A s \in all : IsSpec(s)
  <2>1. 0 # 2 /\ 4 # 2
    OBVIOUS
  <2>2. \A s \in Kind(0, TRUE, FixedDigits) : IsSpec(s)
    BY <2>1, FixedDigitsAreSpecs, KindIsSpec, Zenon
  <2>3. \A s \in Kind(0, FALSE, FixedText) : IsSpec(s)
    BY <2>1, FixedTextAreSpecs, KindIsSpec, Zenon
  <2>4. \A s \in Kind(2, TRUE, VarDigits) : IsSpec(s)
    BY VarDigitsAreSpecs, KindIsSpec, Zenon
  <2>5. \A s \in Kind(2, FALSE, VarText) : IsSpec(s)
    BY VarTextAreSpecs, KindIsSpec, Zenon
  <2>6. \A s \in Kind(4, FALSE, LongVarText) : IsSpec(s)
    BY <2>1, LongVarTextAreSpecs, KindIsSpec, Zenon
  <2> QED
    BY <2>2, <2>3, <2>4, <2>5, <2>6
<1> HIDE DEF all
<1>4. de \in {s.de : s \in all}
  BY <1>1 DEF DataElement
<1>5. PICK s \in all : s.de = de
  BY <1>4
<1>6. (CHOOSE t \in all : t.de = de) \in all /\ (CHOOSE t \in all : t.de = de).de = de
  BY <1>5, Zenon
<1>7. IsSpec(FIELD_SPECS[de]) /\ FIELD_SPECS[de].de = de
  BY <1>1, <1>3, <1>4, <1>6
<1>8. FIELD_SPECS[de].length \in Nat \ {0} /\ FIELD_SPECS[de].de \in 2..128
  BY <1>7, LengthsAreNat DEF IsSpec
<1> QED
  BY <1>7, <1>8

Digit == 0..9

LEMMA BytesAreNat ==
    ASSUME NEW s \in Seq(Byte)
    PROVE  s \in Seq(Nat)
<1>1. \A x \in Byte : x \in Nat
  BY DEF Byte
<1>2. \A i \in 1..Len(s) : s[i] \in Nat
  BY <1>1, Elements
<1> QED
  BY <1>2

LEMMA DigitsAreNibbles ==
    ASSUME NEW s \in Seq(0..9)
    PROVE  s \in Seq(0..15)
<1>1. \A i \in 1..Len(s) : s[i] \in 0..15
  OBVIOUS
<1> QED
  BY <1>1

LEMMA Zeros ==
    ASSUME NEW n \in Nat
    PROVE  Replicate(0, n) \in Seq(Digit) /\ Len(Replicate(0, n)) = n
<1> DEFINE zeros == Replicate(0, n)
<1>1. zeros \in [1..n -> Digit]
  BY DEF Replicate, Digit
<1> HIDE DEF zeros
<1>2. zeros \in Seq(Digit) /\ Len(zeros) = n
  BY <1>1, FromFunction, Zenon
<1> QED
  BY <1>2 DEF zeros

\* A number of a fixed length comes back filled with zeros from the left, and
\* the element that follows it starts where it ends.
THEOREM FixedNumbersComeBack ==
    ASSUME NEW de \in DataElement, NEW value \in Seq(0..9),
           FIELD_SPECS[de].prefix = 0, FIELD_SPECS[de].numeric,
           Len(value) <= FIELD_SPECS[de].length
    PROVE  LET spec == FIELD_SPECS[de]
               raw  == Encode(spec, value)
           IN  /\ Value(de, spec, spec.length, raw) = Normal(de, value)
               /\ raw \in Seq(Nat) /\ Len(raw) = ByteLength(spec, spec.length)
<1> DEFINE spec == FIELD_SPECS[de]
           missing == spec.length - Len(value)
           zeros == Replicate(0, missing)
           digits == zeros \o value
<1>1. /\ spec.length \in Nat /\ Len(value) \in Nat /\ missing \in Nat
      /\ missing + Len(value) = spec.length
  BY SpecOfElement
<1> HIDE DEF missing
<1>2. zeros \in Seq(0..9) /\ Len(zeros) = missing
  <2>1. zeros \in Seq(Digit) /\ Len(zeros) = missing
    BY <1>1, Zeros
  <2> QED
    BY <2>1 DEF Digit
<1> HIDE DEF zeros
<1>3. digits \in Seq(0..9) /\ Len(digits) = spec.length
  <2>1. digits \in Seq(0..9) /\ Len(digits) = Len(zeros) + Len(value)
    BY <1>2, ConcatProperties, ZenonT(40)
  <2> QED
    BY <1>1, <1>2, <2>1
<1>4. Encode(spec, value) = bcd_encode(digits) /\ Normal(de, value) = digits
  BY DEF Encode, Normal, zeros, missing
<1> HIDE DEF digits
<1>5. /\ bcd_decode(bcd_encode(digits), spec.length) = digits
      /\ Len(bcd_encode(digits)) = bcd_byte_len(spec.length)
  BY <1>3, DigitsAreNibbles, DigitsComeBack, Encoded
<1>6. bcd_encode(digits) \in Seq(Nat)
  <2>1. bcd_encode(digits) \in Seq(Byte)
    BY <1>3, DigitsAreNibbles, Encoded
  <2> QED
    BY <2>1, BytesAreNat, Zenon
<1> QED
  BY <1>4, <1>5, <1>6 DEF Value, ByteLength

LEMMA StripIgnoresBlanks ==
    ASSUME NEW s \in Seq(Nat), NEW t \in Seq(Nat), Len(s) <= Len(t),
           \A i \in 1..Len(s) : t[i] = s[i],
           \A i \in 1..Len(t) : i > Len(s) => t[i] \in Whitespace
    PROVE  rstrip(t) = rstrip(s)
<1> DEFINE K == {i \in 1..Len(s) : s[i] \notin Whitespace}
           T == {i \in 1..Len(t) : t[i] \notin Whitespace}
<1>0. Len(s) \in Nat /\ Len(t) \in Nat
  OBVIOUS
<1>1. T = K
  <2>1. \A i \in 1..Len(t) : i > Len(s) \/ i \in 1..Len(s)
    BY <1>0
  <2>2. \A i \in 1..Len(s) : i \in 1..Len(t)
    BY <1>0
  <2> QED
    BY <2>1, <2>2
<1>2. /\ rstrip(s) = IF K = {} THEN <<>> ELSE SubSeq(s, 1, Max(K))
      /\ rstrip(t) = IF T = {} THEN <<>> ELSE SubSeq(t, 1, Max(T))
  BY DEF rstrip
<1>k. K \in SUBSET (1..Len(s))
  OBVIOUS
<1> HIDE DEF K, T
<1>3. CASE K = {}
  BY <1>1, <1>2, <1>3
<1>4. CASE K # {}
  <2> DEFINE M == {Len(s) - i : i \in K}
             m == Max(K)
  <2>0. \A i \in K : Len(s) - i \in Nat
    BY <1>0, <1>k
  <2>1. M \in SUBSET Nat /\ M # {}
    BY <1>4, <2>0
  <2>2. PICK x \in M : \A y \in M : x <= y
    BY <2>1, LeastExists
  <2>3. PICK k \in K : x = Len(s) - k
    BY <2>2
  <2>4. \A i \in K : k >= i
    <3> SUFFICES ASSUME NEW i \in K PROVE k >= i
      OBVIOUS
    <3>1. Len(s) - k <= Len(s) - i
      BY <2>2, <2>3
    <3> QED
      BY <1>0, <1>k, <3>1
  <2>5. m \in K
    BY <2>4 DEF Max
  <2> HIDE DEF m
  <2>6. m \in 1..Len(s) /\ m \in 1..Len(t)
    BY <1>0, <1>k, <2>5
  <2>7. SubSeq(s, 1, m) = SubSeq(t, 1, m)
    <3>1. Slice(s, 0, m) = SubSeq(s, 1, m) /\ Slice(t, 0, m) = SubSeq(t, 1, m)
      BY <1>0, <2>6 DEF Slice, LeastOf
    <3>2. 0 \in Nat /\ m \in Nat /\ 0 + m <= Len(s) /\ 0 + m <= Len(t)
      BY <1>0, <2>6
    <3>3. /\ SubSeq(s, 1, m) \in Seq(Nat) /\ Len(SubSeq(s, 1, m)) = m
          /\ \A i \in 1..m : SubSeq(s, 1, m)[i] = s[0 + i]
      <4>1. /\ Slice(s, 0, m) \in Seq(Nat) /\ Len(Slice(s, 0, m)) = m
            /\ \A i \in 1..m : Slice(s, 0, m)[i] = s[0 + i]
        BY <3>2, SliceLength, Zenon
      <4> QED
        BY <3>1, <4>1, Zenon
    <3>4. /\ SubSeq(t, 1, m) \in Seq(Nat) /\ Len(SubSeq(t, 1, m)) = m
          /\ \A i \in 1..m : SubSeq(t, 1, m)[i] = t[0 + i]
      <4>1. /\ Slice(t, 0, m) \in Seq(Nat) /\ Len(Slice(t, 0, m)) = m
            /\ \A i \in 1..m : Slice(t, 0, m)[i] = t[0 + i]
        BY <3>2, SliceLength, Zenon
      <4> QED
        BY <3>1, <4>1, Zenon
    <3>5. \A i \in 1..m : 0 + i = i /\ i \in 1..Len(s)
      BY <1>0, <2>6
    <3>6. \A i \in 1..m : SubSeq(s, 1, m)[i] = SubSeq(t, 1, m)[i]
      BY <3>3, <3>4, <3>5
    <3> QED
      BY <3>3, <3>4, <3>6, SeqEqual
  <2> QED
    BY <1>1, <1>2, <1>4, <2>7 DEF m
<1> QED
  BY <1>3, <1>4

LEMMA Blanks ==
    ASSUME NEW n \in Int
    PROVE  /\ n \in Nat => /\ Replicate(Space, n) \in Seq(Nat)
                           /\ Len(Replicate(Space, n)) = n
                           /\ \A i \in 1..n : Replicate(Space, n)[i] \in Whitespace
           /\ n <= 0 => Replicate(Space, n) = <<>>
<1> DEFINE blanks == Replicate(Space, n)
<1>1. blanks = [i \in 1..n |-> Space]
  BY DEF Replicate
<1>2. Space \in Nat /\ Space \in Whitespace
  BY DEF Space, Whitespace
<1> HIDE DEF blanks
<1>3. ASSUME n \in Nat
      PROVE  /\ blanks \in Seq(Nat) /\ Len(blanks) = n
             /\ \A i \in 1..n : blanks[i] \in Whitespace
  <2>1. blanks \in [1..n -> Nat]
    BY <1>1, <1>2
  <2>2. blanks \in Seq(Nat) /\ Len(blanks) = n
    BY <1>3, <2>1, FromFunction, Zenon
  <2>3. \A i \in 1..n : blanks[i] \in Whitespace
    BY <1>1, <1>2
  <2> QED
    BY <2>2, <2>3
<1>4. ASSUME n <= 0
      PROVE  blanks = <<>>
  <2>1. 1..n = {}
    BY <1>4
  <2> QED
    BY <1>1, <2>1
<1> QED
  BY <1>3, <1>4 DEF blanks

\* A text of a fixed length comes back cut to that length and without its
\* trailing blanks, those of the padding and its own alike; a PIN block or a MAC,
\* which fills its element, comes back byte for byte; and the element that
\* follows starts where it ends.
THEOREM FixedTextsComeBack ==
    ASSUME NEW de \in DataElement, NEW value \in Seq(Nat),
           FIELD_SPECS[de].prefix = 0, ~FIELD_SPECS[de].numeric,
           de \in Binary => Len(value) = FIELD_SPECS[de].length
    PROVE  LET spec == FIELD_SPECS[de]
               raw  == Encode(spec, value)
           IN  /\ Value(de, spec, spec.length, raw) = Normal(de, value)
               /\ raw \in Seq(Nat) /\ Len(raw) = ByteLength(spec, spec.length)
<1> DEFINE spec == FIELD_SPECS[de]
           size == spec.length
           missing == size - Len(value)
           blanks == Replicate(Space, missing)
           padded == value \o blanks
           raw == Encode(spec, value)
           cut == Slice(value, 0, size)
<1>1. /\ size \in Nat /\ Len(value) \in Nat /\ missing \in Int
      /\ missing + Len(value) = size
  BY SpecOfElement
<1>2. raw = Slice(padded, 0, size)
  BY DEF Encode
<1>3. /\ Value(de, spec, size, raw) = IF de \in Binary THEN raw ELSE rstrip(raw)
      /\ Normal(de, value) = IF de \in Binary THEN value ELSE rstrip(cut)
      /\ ByteLength(spec, size) = size
  BY DEF Value, Text, Normal, ByteLength
<1> HIDE DEF missing, raw
<1>4. /\ missing \in Nat => /\ blanks \in Seq(Nat) /\ Len(blanks) = missing
                            /\ \A i \in 1..missing : blanks[i] \in Whitespace
      /\ missing <= 0 => blanks = <<>>
  BY <1>1, Blanks
<1> HIDE DEF blanks, size
<1>5. CASE missing <= 0
  <2>1. raw = cut
    <3>1. padded = value
      BY <1>4, <1>5, ConcatEmptySeq
    <3> QED
      BY <1>2, <3>1
  <2>2. Len(cut) = size /\ cut \in Seq(Nat)
    BY <1>1, <1>5, SliceLength
  <2>3. ASSUME de \in Binary
        PROVE  cut = value
    <3>1. size = Len(value)
      BY <2>3 DEF size
    <3>2. cut = SubSeq(value, 1, Len(value))
      BY <1>1, <3>1 DEF Slice, LeastOf
    <3> QED
      BY <3>2, SubSeqFull
  <2> QED
    BY <1>3, <2>1, <2>2, <2>3 DEF raw, size
<1>6. CASE ~(missing <= 0)
  <2>1. missing \in Nat /\ de \notin Binary /\ Len(value) <= size
    BY <1>1, <1>6 DEF size
  <2>2. /\ padded \in Seq(Nat) /\ Len(padded) = size
        /\ \A i \in 1..Len(value) : padded[i] = value[i]
        /\ \A i \in 1..Len(padded) : i > Len(value) => padded[i] \in Whitespace
    <3>1. /\ padded \in Seq(Nat) /\ Len(padded) = Len(value) + Len(blanks)
          /\ \A i \in 1..(Len(value) + Len(blanks)) :
               padded[i] = IF i <= Len(value) THEN value[i] ELSE blanks[i - Len(value)]
      BY <1>4, <2>1, ConcatProperties
    <3> HIDE DEF padded
    <3>2. Len(padded) = size /\ Len(blanks) = missing
      <4>1. Len(blanks) = missing
        BY <1>4, <2>1
      <4>2. Len(padded) = Len(value) + missing
        BY <3>1, <4>1
      <4> QED
        BY <1>1, <4>1, <4>2
    <3>3. \A i \in 1..Len(value) : padded[i] = value[i]
      BY <1>1, <2>1, <3>1, <3>2
    <3>4. ASSUME NEW i \in 1..Len(padded), i > Len(value)
          PROVE  padded[i] \in Whitespace
      <4>1. i - Len(value) \in 1..missing
        BY <1>1, <3>2, <3>4
      <4>2. padded[i] = blanks[i - Len(value)]
        BY <1>1, <3>1, <3>2, <3>4
      <4> QED
        BY <1>4, <2>1, <4>1, <4>2
    <3> QED
      BY <3>1, <3>2, <3>3, <3>4
  <2> HIDE DEF padded
  <2>3. raw = padded
    <3>1. raw = SubSeq(padded, 1, Len(padded))
      BY <1>1, <1>2, <2>2 DEF Slice, LeastOf
    <3> QED
      BY <2>2, <3>1, SubSeqFull
  <2>4. cut = value
    <3>1. LeastOf(0 + size, Len(value)) = Len(value)
      BY <1>1, <2>1 DEF LeastOf
    <3>2. cut = SubSeq(value, 1, Len(value))
      BY <3>1 DEF Slice
    <3> QED
      BY <3>2, SubSeqFull
  <2>5. rstrip(padded) = rstrip(value)
    BY <1>1, <2>1, <2>2, StripIgnoresBlanks
  <2> QED
    BY <1>3, <2>1, <2>2, <2>3, <2>4, <2>5 DEF raw, size
<1> QED
  BY <1>5, <1>6

-----------------------------------------------------------------------------
\* The messages of a stream come back whole, in order and only when they are
\* wholly there, wherever TCP cuts it and wherever the connection closes in it,
\* and those of a file too, for messages of any length up to any MaxPayload.
THEOREM StreamsAreSplitBack == Spec => []StreamsSplitBack
<1>1. StreamSplitsBack
  <2> SUFFICES ASSUME NEW a \in Payloads, NEW b \in Payloads
               PROVE  LET stream == frame(a) \o frame(b) IN
                      /\ iter_messages_from_file(frame(LongMessage) \o stream)
                             = <<LongMessage, a, b>>
                      /\ \A cuts \in SUBSET (1..(Len(stream) - 1)),
                            end \in 0..Len(stream) :
                            receive_loop(SubSeq(stream, 1, end), cuts) =
                                (IF end >= Len(frame(a)) THEN <<a>> ELSE <<>>)
                                  \o (IF end = Len(stream) THEN <<b>> ELSE <<>>)
    BY Zenon DEF StreamSplitsBack
  <2>1. a \in Seq(Nat) /\ b \in Seq(Nat)
    <3>1. MaxPayload \in Nat
      BY PayloadAssumption
    <3>2. ASSUME NEW x \in Payloads
          PROVE  x \in Seq(Nat)
      <4>1. x \in UNION {[1..n -> {1, 2}] : n \in 0..MaxPayload}
        BY Zenon DEF Payloads, BoundedSeq, SeqOf
      <4>2. PICK k \in 0..MaxPayload : x \in [1..k -> {1, 2}]
        BY <4>1, Zenon
      <4> QED
        BY <3>1, <4>2
    <3> QED
      BY <3>2
  <2>2. LongMessage \in Seq(Nat)
    <3>1. \A n \in Nat : Replicate(1, n) \in Seq(Nat)
      BY DEF Replicate
    <3>2. 300 \in Nat
      BY SMT
    <3> QED
      BY <3>1, <3>2, SMT DEF LongMessage
  <2>3. \A cuts \in SUBSET (1..(Len(frame(a) \o frame(b)) - 1)) : cuts \in SUBSET Nat
    OBVIOUS
  <2>4. iter_messages_from_file(frame(LongMessage) \o (frame(a) \o frame(b)))
            = <<LongMessage, a, b>>
    BY <2>1, <2>2, FilesComeBack
  <2>5. \A cuts \in SUBSET (1..(Len(frame(a) \o frame(b)) - 1)),
           end \in 0..Len(frame(a) \o frame(b)) :
           receive_loop(SubSeq(frame(a) \o frame(b), 1, end), cuts) =
               (IF end >= Len(frame(a)) THEN <<a>> ELSE <<>>)
                 \o (IF end = Len(frame(a) \o frame(b)) THEN <<b>> ELSE <<>>)
    BY <2>1, <2>3, FramesComeBack
  <2> QED
    BY <2>4, <2>5
<1>2. StreamsSplitBack
  BY <1>1 DEF StreamsSplitBack
<1> QED
  BY <1>2, PTL

-----------------------------------------------------------------------------
(* A loop over positions, or over the digits of a number: what it has so   *)
(* far depends on what it had at an earlier one.                           *)

Recurs(f, N, stop, base, prev, step) ==
    \A i \in 0..N : f[i] = IF i \in stop THEN base[i] ELSE step[i][f[prev[i]]]
Grounded(N, S, stop, base, prev, step) ==
    /\ \A i \in (0..N) \cap stop : base[i] \in S
    /\ \A i \in (0..N) \ stop : prev[i] \in Nat /\ prev[i] < i /\ step[i] \in [S -> S]

LEMMA RecursionExists ==
    ASSUME NEW N \in Nat, NEW S, NEW stop, NEW base, NEW prev, NEW step,
           Grounded(N, S, stop, base, prev, step)
    PROVE  \E f : f \in [0..N -> S] /\ Recurs(f, N, stop, base, prev, step)
<1> USE DEF Grounded
<1> DEFINE Begins(k) ==
               \E f \in [0..k -> S] : \A i \in 0..k :
                   f[i] = IF i \in stop THEN base[i] ELSE step[i][f[prev[i]]]
           Bad == {k \in 0..N : ~ Begins(k)}
<1>1. Begins(0)
  <2>1. \A i \in 0..0 : i = 0 /\ i \in stop
    OBVIOUS
  <2>2. [i \in 0..0 |-> base[i]] \in [0..0 -> S]
    BY <2>1
  <2> WITNESS [i \in 0..0 |-> base[i]] \in [0..0 -> S]
  <2> QED
    BY <2>1
<1>2. ASSUME NEW k \in 0..N, k # 0, Begins(k - 1)
      PROVE  Begins(k)
  <2>1. PICK g \in [0..(k - 1) -> S] : \A i \in 0..(k - 1) :
            g[i] = IF i \in stop THEN base[i] ELSE step[i][g[prev[i]]]
    BY <1>2
  <2> DEFINE h == [i \in 0..k |->
                     IF i = k THEN IF k \in stop THEN base[k] ELSE step[k][g[prev[k]]]
                     ELSE g[i]]
  <2>2. ASSUME NEW i \in 0..k
        PROVE  /\ h[i] = IF i \in stop THEN base[i] ELSE step[i][h[prev[i]]]
               /\ h[i] \in S
    <3>0. i \in 0..N /\ (i = k \/ i \in 0..(k - 1))
      BY <1>2
    <3>1. CASE i \in stop
      <4>1. h[i] = base[i]
        BY <2>1, <3>0, <3>1
      <4> QED
        BY <3>0, <3>1, <4>1
    <3>2. CASE i \notin stop
      <4>1. prev[i] \in 0..(k - 1) /\ prev[i] \in 0..k /\ prev[i] # k
        BY <1>2, <3>0, <3>2
      <4>2. h[prev[i]] = g[prev[i]] /\ g[prev[i]] \in S
        BY <2>1, <4>1
      <4>3. h[i] = step[i][g[prev[i]]]
        BY <2>1, <3>0, <3>2
      <4>4. step[i] \in [S -> S]
        BY <3>0, <3>2
      <4> HIDE DEF h
      <4> QED
        BY <3>2, <4>2, <4>3, <4>4
    <3> QED
      BY <3>1, <3>2
  <2>3. h \in [0..k -> S]
    BY <2>2
  <2> HIDE DEF h
  <2> QED
    BY <2>2, <2>3
<1> HIDE DEF Begins
<1>3. Bad = {}
  <2> SUFFICES ASSUME Bad # {} PROVE FALSE
    OBVIOUS
  <2>0. Bad \in SUBSET Nat
    OBVIOUS
  <2>1. PICK k \in Bad : \A j \in Bad : k <= j
    BY <2>0, LeastExists, Zenon
  <2>2. k \in 0..N /\ ~ Begins(k) /\ k # 0
    BY <1>1
  <2>3. k - 1 \in 0..N /\ ~ (k <= k - 1)
    BY <2>2
  <2>4. Begins(k - 1)
    BY <2>1, <2>3, Zenon
  <2> QED
    BY <1>2, <2>2, <2>4
<1>4. Begins(N)
  <2>1. N \in 0..N
    OBVIOUS
  <2> QED
    BY <1>3, <2>1, Zenon
<1>5. PICK f \in [0..N -> S] : \A i \in 0..N :
          f[i] = IF i \in stop THEN base[i] ELSE step[i][f[prev[i]]]
  BY <1>4 DEF Begins
<1> QED
  BY <1>5 DEF Recurs

-----------------------------------------------------------------------------
(* Numbers in decimal digits.                                              *)

Counts(f, digits) ==
    /\ f[0] = 0
    /\ \A i \in 1..Len(digits) : f[i] = (10 * f[i - 1]) + digits[i]

LEMMA NumberLoop ==
    ASSUME NEW digits \in Seq(Nat)
    PROVE  \E f \in [0..Len(digits) -> Nat] : Counts(f, digits) /\ Number(digits) = f[Len(digits)]
<1> DEFINE n == Len(digits)
           Body(f, i) == IF i = 0 THEN 0 ELSE (10 * f[i - 1]) + digits[i]
           base == [i \in {0} |-> 0]
           prev == [i \in 0..n |-> i - 1]
           step == [i \in 0..n |-> [x \in Nat |-> (10 * x) + digits[i]]]
           loop == CHOOSE f : f = [i \in 0..n |-> Body(f, i)]
<1>0. n \in Nat
  OBVIOUS
<1>1. \A i \in 1..n : digits[i] \in Nat
  OBVIOUS
<1>2. Grounded(n, Nat, {0}, base, prev, step)
  <2>1. ASSUME NEW i \in (0..n) \ {0}
        PROVE  prev[i] \in Nat /\ prev[i] < i /\ step[i] \in [Nat -> Nat]
    <3>1. i \in 1..n /\ digits[i] \in Nat
      BY <1>1
    <3>2. \A x \in Nat : (10 * x) + digits[i] \in Nat
      BY <3>1
    <3> QED
      BY <3>1, <3>2
  <2> HIDE DEF prev, step
  <2> QED
    BY <2>1 DEF Grounded
<1>3. PICK g : g \in [0..n -> Nat] /\ Recurs(g, n, {0}, base, prev, step)
  <2> HIDE DEF n, base, prev, step
  <2> QED
    BY <1>0, <1>2, RecursionExists
<1>4. g = [i \in 0..n |-> Body(g, i)]
  <2>1. ASSUME NEW i \in 0..n
        PROVE  g[i] = Body(g, i)
    <3>1. CASE i = 0
      BY <1>3, <3>1 DEF Recurs
    <3>2. CASE i # 0
      <4>1. i - 1 \in 0..n /\ g[i - 1] \in Nat
        <5>1. i - 1 \in 0..n
          BY <1>0, <3>2
        <5> HIDE DEF n
        <5> QED
          BY <1>3, <5>1
      <4>2. g[i] = step[i][g[i - 1]]
        BY <1>3, <3>2 DEF Recurs
      <4> QED
        BY <3>2, <4>1, <4>2
    <3> QED
      BY <3>1, <3>2
  <2> QED
    BY <1>3, <2>1
<1>5. loop = [i \in 0..n |-> Body(loop, i)]
  BY <1>4
<1>6. Number(digits) = loop[n]
  BY DEF Number
<1> HIDE DEF loop
<1>7. \A i \in 0..n : loop[i] = Body(loop, i)
  BY <1>5
<1>8. ASSUME NEW i \in 0..n
      PROVE  loop[i] \in Nat
  <2> DEFINE Bad == {k \in 0..n : loop[k] \notin Nat}
  <2> SUFFICES ASSUME Bad # {} PROVE FALSE
    OBVIOUS
  <2>0. Bad \in SUBSET Nat
    OBVIOUS
  <2>1. PICK k \in Bad : \A j \in Bad : k <= j
    BY <2>0, LeastExists, Zenon
  <2>2. k \in 0..n /\ loop[k] \notin Nat /\ k # 0
    BY <1>7, <2>1
  <2>3. k - 1 \in 0..n /\ ~ (k <= k - 1) /\ k \in 1..n
    BY <1>0, <2>2
  <2>4. loop[k - 1] \in Nat
    BY <2>1, <2>3, Zenon
  <2>5. loop[k] = (10 * loop[k - 1]) + digits[k]
    BY <1>7, <2>2
  <2> QED
    BY <1>1, <2>2, <2>3, <2>4, <2>5
<1>9. loop \in [0..n -> Nat] /\ Counts(loop, digits)
  <2>1. loop \in [0..n -> Nat]
    BY <1>5, <1>8
  <2>2. loop[0] = 0 /\ \A i \in 1..n : loop[i] = (10 * loop[i - 1]) + digits[i]
    BY <1>0, <1>7
  <2> QED
    BY <2>1, <2>2 DEF Counts
<1> QED
  BY <1>6, <1>9

\* What is counted depends on the digits alone.
Shifts(f, s, m) == \A i \in 1..m : f[i] = (10 * f[i - 1]) + s[i]

LEMMA CountsAgree ==
    ASSUME NEW m \in Nat, NEW f, NEW g, f[0] = g[0],
           NEW s, NEW t, Shifts(f, s, m), Shifts(g, t, m),
           \A i \in 1..m : s[i] = t[i]
    PROVE  f[m] = g[m]
<1> DEFINE Bad == {k \in 0..m : f[k] # g[k]}
<1> SUFFICES ASSUME Bad # {} PROVE FALSE
  OBVIOUS
<1>0. Bad \in SUBSET Nat
  OBVIOUS
<1>1. PICK k \in Bad : \A j \in Bad : k <= j
  BY <1>0, LeastExists, Zenon
<1>2. k \in 0..m /\ f[k] # g[k] /\ k # 0
  BY <1>1
<1>3. k - 1 \in 0..m /\ ~ (k <= k - 1) /\ k \in 1..m
  BY <1>2
<1>4. f[k - 1] = g[k - 1]
  BY <1>1, <1>3, Zenon
<1> QED
  BY <1>2, <1>3, <1>4 DEF Shifts

LEMMA NumberOfNone == Number(<<>>) = 0
<1>1. <<>> \in Seq(Nat) /\ Len(<<>>) = 0
  OBVIOUS
<1> QED
  BY <1>1, NumberLoop DEF Counts

LEMMA NumberIsNat ==
    ASSUME NEW s \in Seq(Nat)
    PROVE  Number(s) \in Nat
<1>1. PICK f \in [0..Len(s) -> Nat] : Counts(f, s) /\ Number(s) = f[Len(s)]
  BY NumberLoop
<1>2. Len(s) \in 0..Len(s)
  OBVIOUS
<1> QED
  BY <1>1, <1>2

LEMMA NumberOfMore ==
    ASSUME NEW s \in Seq(Nat), NEW d \in Nat
    PROVE  Number(Append(s, d)) = (10 * Number(s)) + d
<1> DEFINE n == Len(s)
           more == Append(s, d)
<1>0. /\ n \in Nat /\ more \in Seq(Nat) /\ Len(more) = n + 1 /\ more[n + 1] = d
      /\ \A i \in 1..n : more[i] = s[i]
  BY AppendProperties
<1> HIDE DEF n, more
<1>1. PICK f \in [0..n -> Nat] : Counts(f, s) /\ Number(s) = f[n]
  BY NumberLoop DEF n
<1>2. PICK g \in [0..Len(more) -> Nat] : Counts(g, more) /\ Number(more) = g[Len(more)]
  BY <1>0, NumberLoop
<1>3. /\ f[0] = 0 /\ \A i \in 1..n : f[i] = (10 * f[i - 1]) + s[i]
      /\ g[0] = 0 /\ \A i \in 1..(n + 1) : g[i] = (10 * g[i - 1]) + more[i]
  BY <1>0, <1>1, <1>2 DEF Counts, n
<1>4. f[n] = g[n]
  <2>1. Shifts(f, s, n) /\ Shifts(g, more, n) /\ f[0] = g[0]
    BY <1>0, <1>3 DEF Shifts
  <2>2. n \in Nat /\ \A i \in 1..n : s[i] = more[i]
    BY <1>0
  <2> QED
    BY <2>1, <2>2, CountsAgree, Zenon
<1>5. g[n + 1] = (10 * g[n]) + d
  <2>1. n + 1 \in 1..(n + 1) /\ n + 1 - 1 = n
    BY <1>0
  <2> QED
    BY <1>0, <1>3, <2>1
<1> QED
  BY <1>0, <1>1, <1>2, <1>4, <1>5 DEF more

\* Zeros in front change nothing.
LEMMA NumberOfPadded ==
    ASSUME NEW m \in Nat, NEW s \in Seq(Nat), NEW padded \in Seq(Nat),
           Len(padded) = m + Len(s), \A i \in 1..m : padded[i] = 0,
           \A i \in 1..Len(s) : padded[m + i] = s[i]
    PROVE  Number(padded) = Number(s)
<1> DEFINE n == Len(s)
<1>0. n \in Nat
  OBVIOUS
<1>1. PICK f \in [0..n -> Nat] : Counts(f, s) /\ Number(s) = f[n]
  BY NumberLoop
<1>2. PICK g \in [0..(m + n) -> Nat] : Counts(g, padded) /\ Number(padded) = g[m + n]
  BY NumberLoop
<1>3. /\ f[0] = 0 /\ \A i \in 1..n : f[i] = (10 * f[i - 1]) + s[i]
      /\ g[0] = 0 /\ \A i \in 1..(m + n) : g[i] = (10 * g[i - 1]) + padded[i]
  BY <1>1, <1>2 DEF Counts
<1> HIDE DEF n
<1>4. g[m] = 0
  <2> DEFINE zero == [i \in 0..m |-> 0]
  <2>1. g[0] = zero[0] /\ zero[m] = 0 /\ Shifts(g, padded, m)
    BY <1>0, <1>3 DEF Shifts
  <2>2. \A i \in 1..m : zero[i] = (10 * zero[i - 1]) + zero[i] /\ padded[i] = zero[i]
    <3>1. \A i \in 1..m : i - 1 \in 0..m /\ i \in 0..m
      OBVIOUS
    <3> QED
      BY <3>1
  <2> HIDE DEF zero
  <2>3. g[m] = zero[m]
    <3>1. Shifts(zero, zero, m) /\ \A i \in 1..m : padded[i] = zero[i]
      BY <2>2 DEF Shifts
    <3> QED
      BY <2>1, <3>1, CountsAgree, ZenonT(40)
  <2> QED
    BY <2>1, <2>3
<1>5. f[n] = g[m + n]
  <2> DEFINE h == [i \in 0..n |-> g[m + i]]
             t == [i \in 1..n |-> padded[m + i]]
  <2>1. h[0] = 0 /\ h[n] = g[m + n]
    BY <1>0, <1>4
  <2>2. ASSUME NEW i \in 1..n
        PROVE  h[i] = (10 * h[i - 1]) + t[i] /\ s[i] = t[i]
    <3>1. m + i \in 1..(m + n) /\ m + i - 1 = m + (i - 1) /\ i - 1 \in 0..n /\ i \in 0..n
      BY <1>0
    <3>2. g[m + i] = (10 * g[m + (i - 1)]) + padded[m + i]
      BY <1>3, <3>1
    <3>3. padded[m + i] = s[i]
      BY DEF n
    <3> QED
      BY <3>1, <3>2, <3>3
  <2> HIDE DEF h, t
  <2>3. f[n] = h[n]
    <3>1. Shifts(f, s, n) /\ Shifts(h, t, n) /\ f[0] = h[0]
      BY <1>3, <2>1, <2>2 DEF Shifts
    <3>2. \A i \in 1..n : s[i] = t[i]
      BY <2>2
    <3> QED
      BY <1>0, <3>1, <3>2, CountsAgree, Zenon
  <2> QED
    BY <2>1, <2>3
<1> QED
  BY <1>1, <1>2, <1>5

\* The digits of k, for every k up to n.
Writes(f, n) ==
    \A k \in 0..n : f[k] = IF k < 10 THEN <<k>> ELSE Append(f[k \div 10], k % 10)

LEMMA DecimalLoop ==
    ASSUME NEW n \in Nat
    PROVE  \E f \in [0..n -> Seq(Digit)] :
               /\ Writes(f, n)
               /\ \A w \in Nat : Decimal(n, w) = Replicate(0, w - Len(f[n])) \o f[n]
<1> DEFINE Body(f, k) == IF k < 10 THEN <<k>> ELSE Append(f[k \div 10], k % 10)
           base == [k \in 0..n |-> <<k>>]
           prev == [k \in 0..n |-> k \div 10]
           step == [k \in 0..n |-> [s \in Seq(Digit) |-> Append(s, k % 10)]]
           loop == CHOOSE f : f = [k \in 0..n |-> Body(f, k)]
<1>2. Grounded(n, Seq(Digit), Digit, base, prev, step)
  <2>1. ASSUME NEW k \in (0..n) \cap Digit
        PROVE  base[k] \in Seq(Digit)
    <3>1. <<k>> \in Seq(Digit)
      OBVIOUS
    <3> QED
      BY <3>1
  <2>2. ASSUME NEW k \in (0..n) \ Digit
        PROVE  prev[k] \in Nat /\ prev[k] < k /\ step[k] \in [Seq(Digit) -> Seq(Digit)]
    <3>1. k \in Nat /\ k >= 10
      BY DEF Digit
    <3>2. k \div 10 \in Nat /\ k \div 10 < k /\ k % 10 \in Digit
      BY <3>1 DEF Digit
    <3>3. \A s \in Seq(Digit) : Append(s, k % 10) \in Seq(Digit)
      BY <3>2, AppendProperties
    <3> QED
      BY <3>2, <3>3
  <2> HIDE DEF base, prev, step
  <2> QED
    BY <2>1, <2>2 DEF Grounded
<1>3. PICK g : g \in [0..n -> Seq(Digit)] /\ Recurs(g, n, Digit, base, prev, step)
  <2> HIDE DEF base, prev, step
  <2> QED
    BY <1>2, RecursionExists
<1>4. g = [k \in 0..n |-> Body(g, k)]
  <2>1. ASSUME NEW k \in 0..n
        PROVE  g[k] = Body(g, k)
    <3>1. CASE k < 10
      <4>1. k \in Digit
        BY <3>1 DEF Digit
      <4> QED
        BY <1>3, <3>1, <4>1 DEF Recurs
    <3>2. CASE ~ (k < 10)
      <4>1. k \notin Digit /\ k \div 10 \in 0..n
        BY <3>2 DEF Digit
      <4>2. g[k \div 10] \in Seq(Digit)
        BY <1>3, <4>1
      <4>3. g[k] = step[k][g[k \div 10]]
        BY <1>3, <4>1 DEF Recurs
      <4> QED
        BY <3>2, <4>2, <4>3
    <3> QED
      BY <3>1, <3>2
  <2> QED
    BY <1>3, <2>1
<1>5. loop = [k \in 0..n |-> Body(loop, k)]
  BY <1>4
<1>6. \A w : Decimal(n, w) = Replicate(0, w - Len(loop[n])) \o loop[n]
  BY DEF Decimal
<1> HIDE DEF loop
<1>7. \A k \in 0..n : loop[k] = Body(loop, k)
  BY <1>5
<1>8. ASSUME NEW i \in 0..n
      PROVE  loop[i] \in Seq(Digit)
  <2> DEFINE Bad == {k \in 0..n : loop[k] \notin Seq(Digit)}
  <2> SUFFICES ASSUME Bad # {} PROVE FALSE
    OBVIOUS
  <2>0. Bad \in SUBSET Nat
    OBVIOUS
  <2>1. PICK k \in Bad : \A j \in Bad : k <= j
    BY <2>0, LeastExists, Zenon
  <2>2. k \in 0..n /\ loop[k] \notin Seq(Digit)
    BY <2>1
  <2>3. CASE k < 10
    <3>1. loop[k] = <<k>>
      BY <1>7, <2>2, <2>3
    <3>0. k \in Digit
      BY <2>2, <2>3 DEF Digit
    <3>2. <<k>> \in Seq(Digit)
      BY <3>0
    <3> QED
      BY <2>2, <3>1, <3>2
  <2>4. CASE ~ (k < 10)
    <3>1. k \div 10 \in 0..n /\ ~ (k <= k \div 10) /\ k % 10 \in Digit
      BY <2>2, <2>4 DEF Digit
    <3>2. loop[k \div 10] \in Seq(Digit)
      BY <2>1, <3>1, Zenon
    <3>3. loop[k] = Append(loop[k \div 10], k % 10)
      BY <1>7, <2>2, <2>4
    <3> QED
      BY <2>2, <3>1, <3>2, <3>3, AppendProperties
  <2> QED
    BY <2>3, <2>4
<1>9. loop \in [0..n -> Seq(Digit)] /\ Writes(loop, n)
  BY <1>5, <1>7, <1>8 DEF Writes
<1> QED
  BY <1>6, <1>9

LEMMA OneDigit ==
    ASSUME NEW d \in Nat
    PROVE  Number(<<d>>) = d
<1>1. Append(<<>>, d) = <<d>> /\ <<>> \in Seq(Nat)
  OBVIOUS
<1>2. Number(Append(<<>>, d)) = (10 * Number(<<>>)) + d
  BY <1>1, NumberOfMore
<1> QED
  BY <1>1, <1>2, NumberOfNone

LEMMA DigitsAreNat ==
    ASSUME NEW s \in Seq(Digit)
    PROVE  s \in Seq(Nat)
<1>1. \A i \in 1..Len(s) : s[i] \in Nat
  BY DEF Digit
<1> QED
  BY <1>1

LEMMA WrittenNumber ==
    ASSUME NEW n \in Nat, NEW f \in [0..n -> Seq(Digit)], Writes(f, n),
           NEW k \in 0..n
    PROVE  Number(f[k]) = k
<1> DEFINE Bad == {j \in 0..n : Number(f[j]) # j}
<1> SUFFICES ASSUME Bad # {} PROVE FALSE
  OBVIOUS
<1>0. Bad \in SUBSET Nat
  OBVIOUS
<1>1. PICK j \in Bad : \A i \in Bad : j <= i
  BY <1>0, LeastExists, Zenon
<1>2. j \in 0..n /\ Number(f[j]) # j
  BY <1>1
<1>3. f[j] = IF j < 10 THEN <<j>> ELSE Append(f[j \div 10], j % 10)
  BY <1>2 DEF Writes
<1>4. CASE j < 10
  <2>1. j \in Nat /\ f[j] = <<j>>
    BY <1>2, <1>3, <1>4
  <2> QED
    BY <1>2, <2>1, OneDigit
<1>5. CASE ~ (j < 10)
  <2> DEFINE q == j \div 10
             d == j % 10
  <2>1. q \in 0..n /\ ~ (j <= q) /\ d \in Nat /\ j = (10 * q) + d
    BY <1>2, <1>5
  <2>2. f[j] = Append(f[q], d)
    BY <1>3, <1>5
  <2> HIDE DEF q, d
  <2>3. Number(f[q]) = q
    BY <1>1, <2>1, Zenon
  <2>4. f[q] \in Seq(Nat)
    BY <2>1, DigitsAreNat
  <2>5. Number(Append(f[q], d)) = (10 * Number(f[q])) + d
    BY <2>1, <2>4, NumberOfMore, Zenon
  <2> QED
    BY <1>2, <2>1, <2>2, <2>3, <2>5
<1> QED
  BY <1>4, <1>5

\* A number below limit has at most size digits.
Narrow(f, n, limit, size) == \A k \in 0..n : k < limit => Len(f[k]) <= size

LEMMA Wider ==
    ASSUME NEW n \in Nat, NEW f \in [0..n -> Seq(Digit)], Writes(f, n),
           NEW limit \in Nat, NEW size \in Nat, Narrow(f, n, limit, size)
    PROVE  Narrow(f, n, 10 * limit, size + 1)
<1> SUFFICES ASSUME NEW k \in 0..n, k < 10 * limit
             PROVE  Len(f[k]) <= size + 1
  BY DEF Narrow
<1>1. f[k] = IF k < 10 THEN <<k>> ELSE Append(f[k \div 10], k % 10)
  BY DEF Writes
<1>2. CASE k < 10
  <2>1. Len(<<k>>) = 1
    OBVIOUS
  <2> QED
    BY <1>1, <1>2, <2>1
<1>3. CASE ~ (k < 10)
  <2>1. k \div 10 \in 0..n /\ k \div 10 < limit /\ k % 10 \in Digit
    BY <1>3 DEF Digit
  <2>2. Len(f[k \div 10]) <= size /\ f[k \div 10] \in Seq(Digit)
    BY <2>1 DEF Narrow
  <2>3. Len(Append(f[k \div 10], k % 10)) = Len(f[k \div 10]) + 1
    BY <2>1, <2>2, AppendProperties
  <2> QED
    BY <1>1, <1>3, <2>2, <2>3
<1> QED
  BY <1>2, <1>3

TenTo == <<10, 100, 1000, 10000, 100000, 1000000, 10000000, 100000000, 1000000000,
           10000000000, 100000000000, 1000000000000>>

LEMMA WrittenWidth ==
    ASSUME NEW n \in Nat, NEW f \in [0..n -> Seq(Digit)], Writes(f, n),
           NEW w \in 1..12, n < TenTo[w]
    PROVE  Len(f[n]) <= w
<1> DEFINE Fits10(k) == Narrow(f, n, TenTo[k], k)
           Bad == {k \in 1..12 : ~ Fits10(k)}
<1>1. TenTo[1] = 10 /\ \A k \in 2..12 : TenTo[k - 1] \in Nat /\ TenTo[k] = 10 * TenTo[k - 1]
  <2>1. \A k \in 2..12 : k \in {2, 3, 4, 5, 6, 7, 8, 9, 10, 11, 12}
    OBVIOUS
  <2> QED
    BY <2>1, SMT DEF TenTo
<1>2. Narrow(f, n, 10, 1)
  <2>1. ASSUME NEW k \in 0..n, k < 10
        PROVE  Len(f[k]) <= 1
    <3>1. f[k] = <<k>> /\ Len(<<k>>) = 1
      BY <2>1 DEF Writes
    <3> QED
      BY <3>1
  <2> QED
    BY <2>1 DEF Narrow
<1>3. Bad = {}
  <2> SUFFICES ASSUME Bad # {} PROVE FALSE
    OBVIOUS
  <2>0. Bad \in SUBSET Nat
    OBVIOUS
  <2>1. PICK k \in Bad : \A j \in Bad : k <= j
    BY <2>0, LeastExists, Zenon
  <2>2. k \in 1..12 /\ ~ Fits10(k) /\ k # 1
    BY <1>1, <1>2
  <2>3. k - 1 \in 1..12 /\ ~ (k <= k - 1) /\ k \in 2..12 /\ k - 1 \in Nat /\ (k - 1) + 1 = k
    BY <2>2
  <2>4. Narrow(f, n, TenTo[k - 1], k - 1)
    BY <2>1, <2>3, Zenon
  <2>5. Narrow(f, n, 10 * TenTo[k - 1], (k - 1) + 1)
    BY <1>1, <2>3, <2>4, Wider, Zenon
  <2> QED
    BY <1>1, <2>2, <2>3, <2>5
<1>4. Fits10(w)
  BY <1>3, Zenon
<1> QED
  BY <1>4 DEF Narrow

\* A number written in decimal digits, filled with zeros to a width it fits, is
\* as wide as that, and read as the number it is.
THEOREM NumbersComeBack ==
    ASSUME NEW n \in Nat, NEW w \in 1..12, n < TenTo[w]
    PROVE  /\ Decimal(n, w) \in Seq(0..9) /\ Len(Decimal(n, w)) = w
           /\ Number(Decimal(n, w)) = n
<1>1. PICK f \in [0..n -> Seq(Digit)] :
          /\ Writes(f, n)
          /\ \A v \in Nat : Decimal(n, v) = Replicate(0, v - Len(f[n])) \o f[n]
  BY DecimalLoop
<1> DEFINE digits == f[n]
           size == Len(digits)
           zeros == Replicate(0, w - size)
           padded == Decimal(n, w)
<1>2. n \in 0..n /\ digits \in Seq(Digit) /\ digits \in Seq(Nat)
  BY <1>1, DigitsAreNat
<1>3. Number(digits) = n
  BY <1>1, <1>2, WrittenNumber, Zenon
<1>4. size \in Nat /\ size <= w
  <2>1. Len(digits) <= w
    BY <1>1, WrittenWidth, Zenon
  <2>2. Len(digits) \in Nat
    BY <1>2
  <2> QED
    BY <2>1, <2>2
<1>5. padded = zeros \o digits
  <2>1. w \in Nat
    OBVIOUS
  <2> QED
    BY <1>1, <2>1, Zenon
<1> HIDE DEF digits, zeros, padded
<1>6. /\ w - size \in Nat /\ zeros \in Seq(Digit) /\ Len(zeros) = w - size
      /\ \A i \in 1..(w - size) : zeros[i] = 0
  <2>1. w - size \in Nat
    BY <1>4
  <2> HIDE DEF size
  <2>2. \A i \in 1..(w - size) : zeros[i] = 0
    BY DEF zeros, Replicate
  <2> QED
    BY <2>1, <2>2, Zeros DEF zeros
<1>7. /\ padded \in Seq(Digit) /\ Len(padded) = w
      /\ \A i \in 1..(w - size) : padded[i] = 0
      /\ \A i \in 1..size : padded[(w - size) + i] = digits[i]
  <2>1. padded \in Seq(Digit) /\ Len(padded) = Len(zeros) + Len(digits)
        /\ \A i \in 1..(Len(zeros) + Len(digits)) :
             padded[i] = IF i <= Len(zeros) THEN zeros[i] ELSE digits[i - Len(zeros)]
    BY <1>2, <1>5, <1>6, ConcatProperties
  <2>2. Len(padded) = w
    <3>1. Len(padded) = (w - size) + size
      BY <1>6, <2>1
    <3> QED
      BY <1>4, <3>1
  <2>3. \A i \in 1..(w - size) : padded[i] = 0
    <3>1. \A i \in 1..(w - size) : i \in 1..(Len(zeros) + Len(digits)) /\ i <= Len(zeros)
      BY <1>4, <1>6
    <3> QED
      BY <1>6, <2>1, <3>1
  <2>4. ASSUME NEW i \in 1..size
        PROVE  padded[(w - size) + i] = digits[i]
    <3> DEFINE j == (w - size) + i
    <3>1. j \in 1..(Len(zeros) + Len(digits)) /\ ~ (j <= Len(zeros)) /\ j - Len(zeros) = i
      BY <1>4, <1>6
    <3> HIDE DEF j
    <3>2. padded[j] = IF j <= Len(zeros) THEN zeros[j] ELSE digits[j - Len(zeros)]
      BY <2>1, <3>1
    <3>3. padded[j] = digits[i]
      BY <3>1, <3>2
    <3> QED
      BY <3>3 DEF j
  <2> QED
    BY <2>1, <2>2, <2>3, <2>4
<1>8. Number(padded) = Number(digits)
  <2>1. padded \in Seq(Nat) /\ w - size \in Nat /\ Len(padded) = (w - size) + Len(digits)
    BY <1>4, <1>7, DigitsAreNat
  <2> QED
    BY <1>2, <1>7, <2>1, NumberOfPadded
<1> QED
  BY <1>3, <1>7, <1>8 DEF padded, Digit

-----------------------------------------------------------------------------
(* The elements of a message in the order of their numbers.                *)

Below(S, n) == {m \in S : m < n}
Place(S, de) == Cardinality({n \in S : n <= de})

LEMMA Ranks ==
    ASSUME NEW S \in SUBSET Nat, IsFiniteSet(S), NEW n \in S
    PROVE  /\ Cardinality(S) \in Nat
           /\ Cardinality(Below(S, n)) \in 0..(Cardinality(S) - 1)
           /\ Place(S, n) = Cardinality(Below(S, n)) + 1
<1> DEFINE B == Below(S, n)
<1>1. Cardinality(S) \in Nat
  BY FS_CardinalityType
<1>2. B \in SUBSET S /\ n \notin B /\ {m \in S : m <= n} = B \cup {n}
  <2>1. n \in Nat /\ \A m \in S : m \in Nat
    OBVIOUS
  <2>2. \A m \in S : m <= n <=> m < n \/ m = n
    BY <2>1
  <2>3. ~ (n < n)
    BY <2>1
  <2> QED
    BY <2>2, <2>3 DEF Below
<1> HIDE DEF B
<1>3. IsFiniteSet(B) /\ Cardinality(B) <= Cardinality(S)
      /\ (Cardinality(S) = Cardinality(B) => S = B)
  BY <1>2, FS_Subset
<1>4. Cardinality(B) \in Nat
  BY <1>3, FS_CardinalityType
<1>5. Cardinality(B \cup {n}) = Cardinality(B) + 1
  BY <1>2, <1>3, FS_AddElement
<1>6. Cardinality(B) # Cardinality(S)
  BY <1>2, <1>3
<1>7. Place(S, n) = Cardinality(B) + 1
  BY <1>2, <1>5, Zenon DEF Place
<1>8. Cardinality(B) \in 0..(Cardinality(S) - 1)
  BY <1>1, <1>3, <1>4, <1>6
<1> QED
  BY <1>1, <1>7, <1>8 DEF B

LEMMA RanksDiffer ==
    ASSUME NEW S \in SUBSET Nat, IsFiniteSet(S), NEW m \in S, NEW n \in S,
           Cardinality(Below(S, m)) = Cardinality(Below(S, n))
    PROVE  m = n
<1>1. ASSUME NEW x \in S, NEW y \in S, x < y
      PROVE  Cardinality(Below(S, x)) # Cardinality(Below(S, y))
  <2>1. /\ Below(S, x) \in SUBSET Below(S, y) /\ Below(S, y) \in SUBSET S
        /\ x \in Below(S, y) /\ x \notin Below(S, x)
    <3>1. x \in Nat /\ y \in Nat /\ \A z \in S : z \in Nat
      OBVIOUS
    <3>2. ~ (x < x) /\ \A z \in S : z < x => z < y
      BY <1>1, <3>1
    <3> QED
      BY <1>1, <3>2 DEF Below
  <2>2. IsFiniteSet(Below(S, y))
    BY <2>1, FS_Subset
  <2> QED
    BY <2>1, <2>2, FS_Subset
<1>2. m \in Nat /\ n \in Nat
  OBVIOUS
<1>3. m < n \/ n < m \/ m = n
  BY <1>2
<1> QED
  BY <1>1, <1>3

\* Every element has its place, and is alone there.
LEMMA InOrder ==
    ASSUME NEW S \in SUBSET Nat, IsFiniteSet(S)
    PROVE  /\ Cardinality(S) \in Nat /\ Len(Sorted(S)) = Cardinality(S)
           /\ Sorted(S) \in Seq(S)
           /\ \A de \in S : Place(S, de) \in 1..Cardinality(S)
                            /\ Sorted(S)[Place(S, de)] = de
<1> DEFINE N == Cardinality(S)
           rank == [n \in S |-> Cardinality(Below(S, n))]
<1>1. N \in Nat
  BY FS_CardinalityType
<1> HIDE DEF N
<1>2. rank \in [S -> 0..(N - 1)]
  BY Ranks DEF N
<1>3. \A m, n \in S : rank[m] = rank[n] => m = n
  <2>1. \A m, n \in S :
            Cardinality(Below(S, m)) = Cardinality(Below(S, n)) => m = n
    BY RanksDiffer, Zenon
  <2> QED
    BY <2>1
<1> DEFINE at(i) == CHOOSE n \in S : Cardinality({m \in S : m < n}) = i - 1
<1>4. Sorted(S) = [i \in 1..N |-> at(i)]
  BY DEF Sorted, N
<1>5. \A n \in S : rank[n] = Cardinality(Below(S, n)) /\ rank[n] \in 0..(N - 1)
  BY <1>2
<1> HIDE DEF rank
<1>6. IsFiniteSet(0..(N - 1)) /\ Cardinality(0..(N - 1)) = N
  <2>1. 0 \in Int /\ N - 1 \in Int
    BY <1>1
  <2>2. IsFiniteSet(0..(N - 1))
        /\ Cardinality(0..(N - 1)) = IF 0 > N - 1 THEN 0 ELSE N - 1 - 0 + 1
    BY <2>1, FS_Interval, Zenon
  <2> QED
    BY <1>1, <2>2
<1>7. rank \in Injection(S, 0..(N - 1))
  BY <1>2, <1>3, Fun_IsInj, Zenon
<1>8. rank \in Surjection(S, 0..(N - 1))
  BY <1>6, <1>7, FS_Injection, Zenon DEF N
<1>9. \A r \in 0..(N - 1) : \E n \in S : rank[n] = r
  BY <1>8, Fun_SurjectionProperties, ZenonT(40)
<1>10. ASSUME NEW i \in 1..N
       PROVE  at(i) \in S /\ rank[at(i)] = i - 1
  <2>1. i - 1 \in 0..(N - 1)
    BY <1>1
  <2>2. PICK n \in S : rank[n] = i - 1
    BY <1>9, <2>1
  <2>3. Cardinality({m \in S : m < n}) = i - 1
    BY <1>5, <2>2 DEF Below
  <2>4. at(i) \in S /\ Cardinality({m \in S : m < at(i)}) = i - 1
    BY <2>3, Zenon
  <2> HIDE DEF at
  <2> QED
    BY <1>5, <2>4 DEF Below
<1> HIDE DEF at
<1>11. Sorted(S) \in Seq(S) /\ Len(Sorted(S)) = N
  <2>1. Sorted(S) \in [1..N -> S]
    BY <1>4, <1>10
  <2> QED
    BY <1>1, <2>1, FromFunction, Zenon
<1>12. ASSUME NEW de \in S
       PROVE  Place(S, de) \in 1..N /\ Sorted(S)[Place(S, de)] = de
  <2>1. Place(S, de) = rank[de] + 1
    BY <1>5, Ranks
  <2>2. Place(S, de) \in 1..N /\ Place(S, de) - 1 = rank[de]
    BY <1>1, <1>5, <2>1
  <2>3. at(Place(S, de)) \in S /\ rank[at(Place(S, de))] = rank[de]
    BY <1>10, <2>2
  <2>4. at(Place(S, de)) = de
    BY <1>3, <2>3
  <2> QED
    BY <1>4, <2>2, <2>4
<1> QED
  BY <1>1, <1>11, <1>12 DEF N

-----------------------------------------------------------------------------
(* The bitmap.                                                             *)

LEMMA BitsComeBack ==
    ASSUME NEW bit \in [1..8 -> {0, 1}]
    PROVE  /\ FromBits(bit) \in Byte
           /\ \A k \in 1..8 : Bit(FromBits(bit), k) = bit[k]
           /\ FromBits(bit) >= 128 <=> bit[1] = 1
<1> DEFINE a == bit[1]
           b == bit[2]
           c == bit[3]
           d == bit[4]
           e == bit[5]
           f == bit[6]
           g == bit[7]
           h == bit[8]
           byte == FromBits(bit)
<1>1. /\ a \in {0, 1} /\ b \in {0, 1} /\ c \in {0, 1} /\ d \in {0, 1}
      /\ e \in {0, 1} /\ f \in {0, 1} /\ g \in {0, 1} /\ h \in {0, 1}
  OBVIOUS
<1>2. byte = (128 * a) + (64 * b) + (32 * c) + (16 * d) + (8 * e) + (4 * f) + (2 * g) + h
  BY SMT DEF FromBits
<1>3. \A k \in 1..8 : k \in {1, 2, 3, 4, 5, 6, 7, 8}
  OBVIOUS
<1>4. /\ Weight[1] = 128 /\ Weight[2] = 64 /\ Weight[3] = 32 /\ Weight[4] = 16
      /\ Weight[5] = 8 /\ Weight[6] = 4 /\ Weight[7] = 2 /\ Weight[8] = 1
  BY SMT DEF Weight
<1> HIDE DEF a, b, c, d, e, f, g, h, byte
<1>5. byte \in Byte /\ (byte >= 128 <=> a = 1)
  BY <1>1, <1>2, SMT DEF Byte
<1>6. (byte \div 128) % 2 = a
  BY <1>1, <1>2, SMT
<1>7. (byte \div 64) % 2 = b
  BY <1>1, <1>2, SMT
<1>8. (byte \div 32) % 2 = c
  BY <1>1, <1>2, SMT
<1>9. (byte \div 16) % 2 = d
  BY <1>1, <1>2, SMT
<1>10. (byte \div 8) % 2 = e
  BY <1>1, <1>2, SMT
<1>11. (byte \div 4) % 2 = f
  BY <1>1, <1>2, SMT
<1>12. (byte \div 2) % 2 = g
  BY <1>1, <1>2, SMT
<1>13. (byte \div 1) % 2 = h
  BY <1>1, <1>2, SMT
<1>14. \A k \in 1..8 : Bit(byte, k) = bit[k]
  <2>1. /\ Bit(byte, 1) = bit[1] /\ Bit(byte, 2) = bit[2]
        /\ Bit(byte, 3) = bit[3] /\ Bit(byte, 4) = bit[4]
    BY <1>4, <1>6, <1>7, <1>8, <1>9, SMT DEF Bit, a, b, c, d
  <2>2. /\ Bit(byte, 5) = bit[5] /\ Bit(byte, 6) = bit[6]
        /\ Bit(byte, 7) = bit[7] /\ Bit(byte, 8) = bit[8]
    BY <1>4, <1>10, <1>11, <1>12, <1>13, SMT DEF Bit, e, f, g, h
  <2> QED
    BY <1>3, <2>1, <2>2
<1> QED
  BY <1>5, <1>14 DEF byte, a

\* A byte is made of its bits.
LEMMA ByteOfBits ==
    ASSUME NEW x \in Byte
    PROVE  /\ \A k \in 1..8 : Bit(x, k) \in {0, 1}
           /\ FromBits([k \in 1..8 |-> Bit(x, k)]) = x
<1> DEFINE bits == [k \in 1..8 |-> Bit(x, k)]
<1>1. /\ Weight[1] = 128 /\ Weight[2] = 64 /\ Weight[3] = 32 /\ Weight[4] = 16
      /\ Weight[5] = 8 /\ Weight[6] = 4 /\ Weight[7] = 2 /\ Weight[8] = 1
  BY SMT DEF Weight
<1>2. \A k \in 1..8 : k \in {1, 2, 3, 4, 5, 6, 7, 8}
  OBVIOUS
<1>3. x \in 0..255
  BY DEF Byte
<1>4. /\ bits[1] = (x \div 128) % 2 /\ bits[2] = (x \div 64) % 2
      /\ bits[3] = (x \div 32) % 2 /\ bits[4] = (x \div 16) % 2
      /\ bits[5] = (x \div 8) % 2 /\ bits[6] = (x \div 4) % 2
      /\ bits[7] = (x \div 2) % 2 /\ bits[8] = (x \div 1) % 2
  <2>1. \A k \in 1..8 : bits[k] = (x \div Weight[k]) % 2
    BY DEF Bit
  <2>2. /\ 1 \in 1..8 /\ 2 \in 1..8 /\ 3 \in 1..8 /\ 4 \in 1..8
        /\ 5 \in 1..8 /\ 6 \in 1..8 /\ 7 \in 1..8 /\ 8 \in 1..8
    OBVIOUS
  <2> HIDE DEF bits
  <2> QED
    BY <1>1, <2>1, <2>2, SMT
<1> HIDE DEF bits
<1>5. FromBits(bits) = x
  <2>1. (128 * bits[1]) + (64 * bits[2]) + (32 * bits[3]) + (16 * bits[4])
          + (8 * bits[5]) + (4 * bits[6]) + (2 * bits[7]) + bits[8] = x
    BY <1>3, <1>4, SMTT(40)
  <2> QED
    BY <2>1, SMT DEF FromBits
<1>6. \A k \in 1..8 : Bit(x, k) \in {0, 1}
  <2>1. /\ (x \div 128) % 2 \in {0, 1} /\ (x \div 64) % 2 \in {0, 1}
        /\ (x \div 32) % 2 \in {0, 1} /\ (x \div 16) % 2 \in {0, 1}
        /\ (x \div 8) % 2 \in {0, 1} /\ (x \div 4) % 2 \in {0, 1}
        /\ (x \div 2) % 2 \in {0, 1} /\ (x \div 1) % 2 \in {0, 1}
    BY <1>3, SMT
  <2>2. \A k \in 1..8 : bits[k] \in {0, 1}
    BY <1>2, <1>4, <2>1
  <2> QED
    BY <2>2 DEF bits
<1> QED
  BY <1>5, <1>6 DEF bits

\* Byte i of a bitmap.
Octet(bits, i) == [k \in 1..8 |-> IF (8 * (i - 1)) + k \in bits THEN 1 ELSE 0]

LEMMA BitmapBytes ==
    ASSUME NEW bits \in SUBSET Nat, NEW size \in {8, 16}
    PROVE  /\ Bitmap(size, bits) \in Seq(Byte) /\ Len(Bitmap(size, bits)) = size
           /\ \A i \in 1..size, k \in 1..8 :
                 Bit(Bitmap(size, bits)[i], k) = 1 <=> (8 * (i - 1)) + k \in bits
           /\ Bitmap(size, bits)[1] >= 128 <=> 1 \in bits
<1> DEFINE map == Bitmap(size, bits)
<1>1. \A i \in 1..size : Octet(bits, i) \in [1..8 -> {0, 1}]
                         /\ \A k \in 1..8 : Octet(bits, i)[k] = 1
                               <=> (8 * (i - 1)) + k \in bits
  BY DEF Octet
<1>2. \A i \in 1..size : map[i] = FromBits(Octet(bits, i))
  BY DEF Bitmap, Octet
<1>3. map = [i \in 1..size |-> map[i]]
  BY DEF Bitmap
<1> HIDE DEF map
<1>4. ASSUME NEW i \in 1..size
      PROVE  /\ map[i] \in Byte
             /\ \A k \in 1..8 : Bit(map[i], k) = Octet(bits, i)[k]
             /\ map[i] >= 128 <=> Octet(bits, i)[1] = 1
  BY <1>1, <1>2, BitsComeBack
<1>5. map \in Seq(Byte) /\ Len(map) = size
  <2>1. map \in [1..size -> Byte]
    BY <1>3, <1>4
  <2>2. size \in Nat
    OBVIOUS
  <2> QED
    BY <2>1, <2>2, FromFunction, Zenon
<1>6. \A i \in 1..size, k \in 1..8 :
          Bit(map[i], k) = 1 <=> (8 * (i - 1)) + k \in bits
  BY <1>1, <1>4
<1>7. map[1] >= 128 <=> 1 \in bits
  <2>1. 1 \in 1..size /\ 1 \in 1..8 /\ (8 * (1 - 1)) + 1 = 1
    OBVIOUS
  <2> QED
    BY <1>1, <1>4, <2>1
<1> QED
  BY <1>5, <1>6, <1>7 DEF map

Elements8583 == 2..128

LEMMA BitmapIsBytes ==
    ASSUME NEW des \in SUBSET Elements8583
    PROVE  build_bitmap(des) \in Seq(Byte) /\ Len(build_bitmap(des)) \in {8, 16}
<1>1. des \in SUBSET Nat /\ des \cup {1} \in SUBSET Nat
  BY DEF Elements8583
<1>2. /\ Bitmap(16, des \cup {1}) \in Seq(Byte) /\ Len(Bitmap(16, des \cup {1})) = 16
      /\ Bitmap(8, des) \in Seq(Byte) /\ Len(Bitmap(8, des)) = 8
  BY <1>1, BitmapBytes
<1> QED
  BY <1>2 DEF build_bitmap

\* The data elements a bitmap names are those it was built for, and it is as
\* long as its first bit says.
THEOREM BitmapsComeBack ==
    ASSUME NEW des \in SUBSET Elements8583, NEW raw, NEW at \in Nat,
           \A i \in 1..Len(build_bitmap(des)) : raw[at + i] = build_bitmap(des)[i]
    PROVE  /\ bitmap_length(raw, at) = Len(build_bitmap(des))
           /\ read_bitmap(raw, at) = des
<1> DEFINE long == \E n \in des : n > 64
           size == IF long THEN 16 ELSE 8
           bits == IF long THEN des \cup {1} ELSE des
           map == build_bitmap(des)
<1>1. map = Bitmap(size, bits)
  BY DEF build_bitmap
<1>2. bits \in SUBSET Nat /\ size \in {8, 16}
  BY DEF Elements8583
<1>3. \A n \in des : n \in 2..(8 * size)
  BY DEF Elements8583
<1>4. 1 \in bits <=> size = 16
  BY DEF Elements8583
<1>5. \A n \in 2..(8 * size) : n \in bits <=> n \in des
  OBVIOUS
<1> HIDE DEF long, size, bits, map
<1>6. /\ map \in Seq(Byte) /\ Len(map) = size
      /\ \A i \in 1..size, k \in 1..8 : Bit(map[i], k) = 1 <=> (8 * (i - 1)) + k \in bits
      /\ map[1] >= 128 <=> 1 \in bits
  BY <1>1, <1>2, BitmapBytes
<1>7. \A i \in 1..size : raw[at + i] = map[i]
  BY <1>6 DEF map
<1>8. bitmap_length(raw, at) = size
  <2>1. 1 \in 1..size
    BY <1>2
  <2>2. raw[at + 1] = map[1]
    BY <1>7, <2>1
  <2> QED
    BY <1>2, <1>4, <1>6, <2>2 DEF bitmap_length
<1>9. ASSUME NEW n \in 2..(8 * size)
      PROVE  Bit(raw[at + 1 + (n - 1) \div 8], 1 + ((n - 1) % 8)) = 1 <=> n \in des
  <2> DEFINE i == 1 + ((n - 1) \div 8)
             k == 1 + ((n - 1) % 8)
  <2>1. /\ i \in 1..size /\ k \in 1..8 /\ (8 * (i - 1)) + k = n
        /\ at + 1 + ((n - 1) \div 8) = at + i
    BY <1>2
  <2> HIDE DEF i
  <2>2. raw[at + 1 + ((n - 1) \div 8)] = map[i]
    BY <1>7, <2>1
  <2> HIDE DEF k
  <2>3. Bit(map[i], k) = 1 <=> n \in bits
    BY <1>6, <2>1
  <2> QED
    BY <1>5, <2>2, <2>3 DEF k
<1>10. read_bitmap(raw, at) = des
  <2>1. read_bitmap(raw, at) =
            {n \in 2..(8 * size) :
                Bit(raw[at + 1 + (n - 1) \div 8], 1 + ((n - 1) % 8)) = 1}
    BY <1>8 DEF read_bitmap
  <2> QED
    BY <1>3, <1>9, <2>1, Zenon
<1> QED
  BY <1>2, <1>6, <1>8, <1>10 DEF map

-----------------------------------------------------------------------------
(* One element, wherever it lies in a message.                             *)

\* Values of a DE that are written as they should be: a number of the digits it
\* has, a PIN block or a MAC of its length, a text that its length can count.
Legal(de, value) ==
    LET spec == FIELD_SPECS[de] IN
    /\ IF spec.numeric THEN value \in Seq(0..9) ELSE value \in Seq(Nat)
    /\ spec.numeric \/ spec.prefix # 0 => Len(value) <= spec.length
    /\ de \in Binary /\ spec.prefix = 0 => Len(value) = spec.length

LiesAt(piece, raw, at) ==
    /\ at + Len(piece) <= Len(raw)
    /\ \A i \in 1..Len(piece) : raw[at + i] = piece[i]

LEMMA SliceOfPiece ==
    ASSUME NEW raw \in Seq(Nat), NEW piece \in Seq(Nat), NEW at \in Nat,
           LiesAt(piece, raw, at)
    PROVE  Slice(raw, at, Len(piece)) = piece
<1> DEFINE cut == Slice(raw, at, Len(piece))
           n == Len(piece)
<1>1. n \in Nat /\ at + n <= Len(raw) /\ \A i \in 1..n : raw[at + i] = piece[i]
  BY DEF LiesAt
<1>2. cut \in Seq(Nat) /\ Len(cut) = n /\ \A i \in 1..n : cut[i] = raw[at + i]
  BY <1>1, SliceLength
<1> HIDE DEF cut
<1>3. \A i \in 1..n : cut[i] = piece[i]
  BY <1>1, <1>2
<1> HIDE DEF n
<1> QED
  BY <1>2, <1>3, SeqEqual DEF cut, n

LEMMA PiecesLie ==
    ASSUME NEW raw \in Seq(Nat), NEW s \in Seq(Nat), NEW t \in Seq(Nat), NEW at \in Nat,
           LiesAt(s \o t, raw, at)
    PROVE  LiesAt(s, raw, at) /\ LiesAt(t, raw, at + Len(s))
<1> DEFINE m == Len(s)
           n == Len(t)
           st == s \o t
<1>1. m \in Nat /\ n \in Nat /\ Len(st) = m + n
      /\ \A i \in 1..(m + n) : st[i] = IF i <= m THEN s[i] ELSE t[i - m]
  BY ConcatProperties
<1> HIDE DEF st
<1>2. at + (m + n) <= Len(raw) /\ \A i \in 1..(m + n) : raw[at + i] = st[i]
  BY <1>1 DEF LiesAt, st
<1> HIDE DEF m, n
<1>3. at + m <= Len(raw) /\ (at + m) + n <= Len(raw)
  BY <1>1, <1>2
<1>4. ASSUME NEW i \in 1..m
      PROVE  raw[at + i] = s[i]
  <2>1. i \in 1..(m + n) /\ i <= m
    BY <1>1
  <2> QED
    BY <1>1, <1>2, <2>1
<1>5. ASSUME NEW i \in 1..n
      PROVE  raw[(at + m) + i] = t[i]
  <2> DEFINE j == m + i
  <2>1. j \in 1..(m + n) /\ ~ (j <= m) /\ j - m = i /\ at + j = (at + m) + i
    BY <1>1
  <2> HIDE DEF j
  <2>2. raw[at + j] = st[j] /\ st[j] = t[j - m]
    BY <1>1, <1>2, <2>1
  <2> QED
    BY <2>1, <2>2
<1> QED
  BY <1>3, <1>4, <1>5 DEF LiesAt, m, n

LEMMA LengthDigits ==
    ASSUME NEW spec, IsSpec(spec), spec.prefix # 0, NEW size \in Nat, size <= spec.length
    PROVE  LET d == Decimal(size, spec.prefix)
           IN  /\ d \in Seq(0..9) /\ d \in Seq(0..15) /\ Len(d) = spec.prefix
               /\ Number(d) = size
<1>1. spec.prefix \in {2, 4}
  BY DEF IsSpec, Spec8583
<1>2. spec.prefix \in 1..12 /\ size < TenTo[spec.prefix]
  <2>1. TenTo[2] = 100 /\ TenTo[4] = 10000
    BY SMT DEF TenTo
  <2>2. CASE spec.prefix = 2
    <3>1. size < 100
      BY <2>2, SMT DEF IsSpec, Lengths2
    <3> QED
      BY <2>1, <2>2, <3>1, SMT
  <2>3. CASE spec.prefix = 4
    <3>1. size < 10000
      <4>1. \A x \in Lengths4 : x \in Nat /\ x < 10000
        BY SMT DEF Lengths4
      <4>2. spec.length \in Nat /\ spec.length < 10000
        BY <4>1 DEF IsSpec
      <4> QED
        BY <4>2
    <3> QED
      BY <2>1, <2>3, <3>1, SMT
  <2> QED
    BY <1>1, <2>2, <2>3
<1> DEFINE d == Decimal(size, spec.prefix)
<1>3. d \in Seq(0..9) /\ Len(d) = spec.prefix /\ Number(d) = size
  BY <1>2, NumbersComeBack, Zenon
<1> QED
  BY <1>3, DigitsAreNibbles

\* What is written of an element and what is read of it.
LEMMA FixedElementComesBack ==
    ASSUME NEW de \in DataElement, NEW value, Legal(de, value),
           FIELD_SPECS[de].prefix = 0,
           NEW raw \in Seq(Nat), NEW so_far, so_far.next \in Nat,
           LiesAt(Encode(FIELD_SPECS[de], value), raw, so_far.next)
    PROVE  ReadElement(so_far, de, FIELD_SPECS[de], raw) =
               [next |-> so_far.next + Len(Encode(FIELD_SPECS[de], value)),
                values |-> Append(so_far.values, Normal(de, value))]
<1> DEFINE spec == FIELD_SPECS[de]
           piece == Encode(spec, value)
           at == so_far.next
<1>1. /\ Value(de, spec, spec.length, piece) = Normal(de, value)
      /\ piece \in Seq(Nat) /\ Len(piece) = ByteLength(spec, spec.length)
  <2>1. CASE spec.numeric
    BY <2>1, FixedNumbersComeBack DEF Legal
  <2>2. CASE ~ spec.numeric
    BY <2>2, FixedTextsComeBack DEF Legal
  <2> QED
    BY <2>1, <2>2
<1>2. bcd_byte_len(spec.prefix) = 0 /\ SizeAt(spec, raw, at) = spec.length
  <2>1. bcd_byte_len(0) = 0
    BY DEF bcd_byte_len
  <2> QED
    BY <2>1 DEF SizeAt
<1>3. at + 0 = at /\ at \in Nat
  OBVIOUS
<1> HIDE DEF spec, piece
<1>4. Slice(raw, at, Len(piece)) = piece
  BY <1>1, <1>3, SliceOfPiece DEF piece, spec
<1>5. ReadElement(so_far, de, spec, raw) =
          ReadValue(so_far, de, spec, raw, at, spec.length)
  BY <1>2, <1>3 DEF ReadElement
<1>6. ReadValue(so_far, de, spec, raw, at, spec.length) =
          [next |-> at + Len(piece), values |-> Append(so_far.values, Normal(de, value))]
  BY <1>1, <1>4, Zenon DEF ReadValue
<1> QED
  BY <1>5, <1>6 DEF piece, spec

LEMMA VariableElementComesBack ==
    ASSUME NEW de \in DataElement, NEW value, Legal(de, value),
           FIELD_SPECS[de].prefix # 0,
           NEW raw \in Seq(Nat), NEW so_far, so_far.next \in Nat,
           Encode(FIELD_SPECS[de], value) \in Seq(Nat),
           LiesAt(Encode(FIELD_SPECS[de], value), raw, so_far.next)
    PROVE  ReadElement(so_far, de, FIELD_SPECS[de], raw) =
               [next |-> so_far.next + Len(Encode(FIELD_SPECS[de], value)),
                values |-> Append(so_far.values, Normal(de, value))]
<1> DEFINE spec == FIELD_SPECS[de]
           piece == Encode(spec, value)
           at == so_far.next
           size == Len(value)
           d == Decimal(size, spec.prefix)
           head == bcd_encode(d)
           body == IF spec.numeric THEN bcd_encode(value) ELSE value
<1>1. IsSpec(spec)
  BY SpecOfElement
<1>2. /\ spec.numeric => value \in Seq(0..9)
      /\ ~ spec.numeric => value \in Seq(Nat)
      /\ size \in Nat /\ size <= spec.length
  BY DEF Legal
<1>3. /\ d \in Seq(0..15) /\ Len(d) = spec.prefix /\ Number(d) = size
  BY <1>1, <1>2, LengthDigits
<1>4. piece = head \o body
  BY DEF Encode
<1>5. Normal(de, value) = value
  BY DEF Normal
<1> HIDE DEF spec, size, d
<1>6. /\ head \in Seq(Nat) /\ Len(head) = bcd_byte_len(spec.prefix)
      /\ bcd_decode(head, spec.prefix) = d
  <2>1. head \in Seq(Byte) /\ Len(head) = bcd_byte_len(Len(d))
    BY <1>3, Encoded
  <2>2. bcd_decode(head, Len(d)) = d
    BY <1>3, DigitsComeBack
  <2> QED
    BY <1>3, <2>1, <2>2, BytesAreNat
<1>7. /\ body \in Seq(Nat) /\ Len(body) = ByteLength(spec, size)
      /\ (IF spec.numeric THEN bcd_decode(body, size) ELSE body) = value
  <2>1. CASE spec.numeric
    <3>1. value \in Seq(0..15)
      BY <1>2, <2>1, DigitsAreNibbles
    <3>2. /\ body = bcd_encode(value) /\ bcd_encode(value) \in Seq(Byte)
          /\ Len(bcd_encode(value)) = bcd_byte_len(size)
          /\ bcd_decode(bcd_encode(value), size) = value
      BY <2>1, <3>1, Encoded, DigitsComeBack DEF size
    <3> QED
      BY <2>1, <3>2, BytesAreNat DEF ByteLength
  <2>2. CASE ~ spec.numeric
    BY <1>2, <2>2 DEF ByteLength, size
  <2> QED
    BY <2>1, <2>2
<1> HIDE DEF head, body
<1>8. LiesAt(head, raw, at) /\ LiesAt(body, raw, at + Len(head))
  <2>1. LiesAt(head \o body, raw, at)
    BY <1>4 DEF spec
  <2> QED
    BY <1>6, <1>7, <2>1, PiecesLie
<1> DEFINE start == at + bcd_byte_len(spec.prefix)
<1>9. at \in Nat /\ start \in Nat /\ start + Len(body) = at + Len(piece)
  <2>1. Len(piece) = Len(head) + Len(body) /\ Len(head) \in Nat /\ Len(body) \in Nat
    <3>1. Len(head \o body) = Len(head) + Len(body)
      BY <1>6, <1>7, ConcatProperties
    <3>2. Len(head) \in Nat /\ Len(body) \in Nat
      BY <1>6, <1>7
    <3> QED
      BY <1>4, <3>1, <3>2, Zenon
  <2> HIDE DEF piece
  <2> QED
    BY <1>6, <2>1
<1>10. Slice(raw, at, bcd_byte_len(spec.prefix)) = head
  BY <1>6, <1>8, <1>9, SliceOfPiece
<1>11. Slice(raw, start, ByteLength(spec, size)) = body
  BY <1>6, <1>7, <1>8, <1>9, SliceOfPiece
<1>12. SizeAt(spec, raw, at) = size
  BY <1>3, <1>6, <1>10 DEF SizeAt, spec
<1>13. Value(de, spec, size, body) = value
  BY <1>7 DEF Value, spec
<1> HIDE DEF start, piece
<1>14. ReadElement(so_far, de, spec, raw) = ReadValue(so_far, de, spec, raw, start, size)
  BY <1>12 DEF ReadElement, start
<1>15. ReadValue(so_far, de, spec, raw, start, size) =
           [next |-> at + Len(piece), values |-> Append(so_far.values, value)]
  BY <1>7, <1>9, <1>11, <1>13 DEF ReadValue
<1> QED
  BY <1>5, <1>14, <1>15 DEF piece, spec

LEMMA ElementBytes ==
    ASSUME NEW de \in DataElement, NEW value, Legal(de, value)
    PROVE  Encode(FIELD_SPECS[de], value) \in Seq(Nat)
<1> DEFINE spec == FIELD_SPECS[de]
<1>1. CASE spec.prefix = 0
  <2>1. CASE spec.numeric
    BY <1>1, <2>1, FixedNumbersComeBack DEF Legal
  <2>2. CASE ~ spec.numeric
    BY <1>1, <2>2, FixedTextsComeBack DEF Legal
  <2> QED
    BY <2>1, <2>2
<1>2. CASE spec.prefix # 0
  <2> DEFINE d == Decimal(Len(value), spec.prefix)
             body == IF spec.numeric THEN bcd_encode(value) ELSE value
  <2>1. IsSpec(spec) /\ Len(value) \in Nat /\ Len(value) <= spec.length
    BY <1>2, SpecOfElement DEF Legal
  <2>2. d \in Seq(0..15)
    BY <1>2, <2>1, LengthDigits
  <2>3. bcd_encode(d) \in Seq(Nat)
    <3> HIDE DEF d
    <3> QED
      BY <2>2, Encoded, BytesAreNat
  <2>4. body \in Seq(Nat)
    <3>1. CASE spec.numeric
      <4>1. value \in Seq(0..15)
        BY <3>1, DigitsAreNibbles DEF Legal
      <4>2. bcd_encode(value) \in Seq(Byte)
        BY <4>1, Encoded
      <4> QED
        BY <3>1, <4>2, BytesAreNat
    <3>2. CASE ~ spec.numeric
      BY <3>2 DEF Legal
    <3> QED
      BY <3>1, <3>2
  <2>5. Encode(spec, value) = bcd_encode(d) \o body
    BY <1>2 DEF Encode
  <2> HIDE DEF d, body
  <2> QED
    BY <2>3, <2>4, <2>5, ConcatProperties
<1> QED
  BY <1>1, <1>2

\* Read where it lies, an element gives the value it was written for, and the
\* position of the next one.
LEMMA ElementComesBack ==
    ASSUME NEW de \in DataElement, NEW value, Legal(de, value),
           NEW raw \in Seq(Nat), NEW so_far, so_far.next \in Nat,
           LiesAt(Encode(FIELD_SPECS[de], value), raw, so_far.next)
    PROVE  ReadElement(so_far, de, FIELD_SPECS[de], raw) =
               [next |-> so_far.next + Len(Encode(FIELD_SPECS[de], value)),
                values |-> Append(so_far.values, Normal(de, value))]
<1>1. CASE FIELD_SPECS[de].prefix = 0
  BY <1>1, FixedElementComesBack, Zenon
<1>2. CASE FIELD_SPECS[de].prefix # 0
  BY <1>2, ElementBytes, VariableElementComesBack, Zenon
<1> QED
  BY <1>1, <1>2, Zenon

-----------------------------------------------------------------------------
(* A whole message.                                                        *)

\* What is written after i pieces.
Builds(f, n, base, piece) ==
    /\ f \in [0..n -> Seq(Nat)] /\ f[0] = base
    /\ \A i \in 1..n : f[i] = f[i - 1] \o piece[i]

Adds(loop, n, base, piece) ==
    loop = CHOOSE f : f = [i \in 0..n |-> IF i = 0 THEN base ELSE f[i - 1] \o piece[i]]

LEMMA PiecesAdd ==
    ASSUME NEW n \in Nat, NEW base \in Seq(Nat), NEW piece \in [1..n -> Seq(Nat)],
           NEW loop, Adds(loop, n, base, piece)
    PROVE  Builds(loop, n, base, piece)
<1> DEFINE Body(f, i) == IF i = 0 THEN base ELSE f[i - 1] \o piece[i]
           bases == [i \in {0} |-> base]
           prev == [i \in 0..n |-> i - 1]
           step == [i \in 1..n |-> [s \in Seq(Nat) |-> s \o piece[i]]]
<1>1. \A i \in 1..n : piece[i] \in Seq(Nat)
  OBVIOUS
<1>2. Grounded(n, Seq(Nat), {0}, bases, prev, step)
  <2>1. ASSUME NEW i \in (0..n) \ {0}
        PROVE  prev[i] \in Nat /\ prev[i] < i /\ step[i] \in [Seq(Nat) -> Seq(Nat)]
    <3>1. i \in 1..n /\ piece[i] \in Seq(Nat)
      BY <1>1
    <3>2. \A s \in Seq(Nat) : s \o piece[i] \in Seq(Nat)
      BY <3>1, ConcatProperties
    <3> QED
      BY <3>1, <3>2
  <2>2. \A i \in (0..n) \cap {0} : bases[i] \in Seq(Nat)
    OBVIOUS
  <2> HIDE DEF bases, prev, step
  <2> QED
    BY <2>1, <2>2 DEF Grounded
<1>3. PICK g : g \in [0..n -> Seq(Nat)] /\ Recurs(g, n, {0}, bases, prev, step)
  <2> HIDE DEF bases, prev, step
  <2> QED
    BY <1>2, RecursionExists
<1>4. g = [i \in 0..n |-> Body(g, i)]
  <2>1. ASSUME NEW i \in 0..n
        PROVE  g[i] = Body(g, i)
    <3>1. CASE i = 0
      BY <1>3, <3>1 DEF Recurs
    <3>2. CASE i # 0
      <4>1. i - 1 \in 0..n /\ g[i - 1] \in Seq(Nat) /\ i \in 1..n
        <5>1. i - 1 \in 0..n /\ i \in 1..n
          BY <3>2
        <5> QED
          BY <1>3, <5>1
      <4>2. g[i] = step[i][g[i - 1]]
        BY <1>3, <3>2 DEF Recurs
      <4> QED
        BY <3>2, <4>1, <4>2
    <3> QED
      BY <3>1, <3>2
  <2> QED
    BY <1>3, <2>1
<1>5. loop = [i \in 0..n |-> Body(loop, i)]
  BY <1>4 DEF Adds
<1>6. \A i \in 0..n : loop[i] = Body(loop, i)
  BY <1>5
<1>7. loop[0] = base /\ \A i \in 1..n : loop[i] = loop[i - 1] \o piece[i]
  <2>1. 0 \in 0..n /\ \A i \in 1..n : i \in 0..n /\ i # 0
    OBVIOUS
  <2>2. loop[0] = base
    BY <1>6, <2>1
  <2>3. ASSUME NEW i \in 1..n
        PROVE  loop[i] = loop[i - 1] \o piece[i]
    BY <1>6, <2>1
  <2> QED
    BY <2>2, <2>3
<1>8. ASSUME NEW i \in 0..n
      PROVE  loop[i] \in Seq(Nat)
  <2> DEFINE Bad == {k \in 0..n : loop[k] \notin Seq(Nat)}
  <2> SUFFICES ASSUME Bad # {} PROVE FALSE
    OBVIOUS
  <2>0. Bad \in SUBSET Nat
    OBVIOUS
  <2>1. PICK k \in Bad : \A j \in Bad : k <= j
    BY <2>0, LeastExists, Zenon
  <2>2. k \in 0..n /\ loop[k] \notin Seq(Nat) /\ k # 0
    BY <1>7, <2>1
  <2>3. k - 1 \in 0..n /\ ~ (k <= k - 1) /\ k \in 1..n
    BY <2>2
  <2>4. loop[k - 1] \in Seq(Nat)
    BY <2>1, <2>3, Zenon
  <2>5. loop[k] = loop[k - 1] \o piece[k]
    BY <1>7, <2>3
  <2> QED
    BY <1>1, <2>2, <2>3, <2>4, <2>5, ConcatProperties
<1>9. loop \in [0..n -> Seq(Nat)]
  BY <1>5, <1>8
<1> QED
  BY <1>7, <1>9 DEF Builds

InPlace(f, n, piece) ==
    /\ LiesAt(f[0], f[n], 0)
    /\ \A i \in 1..n : /\ LiesAt(piece[i], f[n], Len(f[i - 1]))
                       /\ Len(f[i]) = Len(f[i - 1]) + Len(piece[i])

LEMMA PieceInPlace ==
    ASSUME NEW n \in Nat, NEW base, NEW piece \in [1..n -> Seq(Nat)],
           NEW f, Builds(f, n, base, piece)
    PROVE  InPlace(f, n, piece)
<1> DEFINE whole == f[n]
           Begins(i) == LiesAt(f[i], whole, 0)
           Bad == {k \in 0..n : ~ Begins(n - k)}
<1>1. /\ \A i \in 0..n : f[i] \in Seq(Nat)
      /\ \A i \in 1..n : f[i] = f[i - 1] \o piece[i] /\ piece[i] \in Seq(Nat)
  BY DEF Builds
<1>2. whole \in Seq(Nat)
  BY <1>1
<1>3. Begins(n)
  BY <1>2 DEF LiesAt
<1> HIDE DEF whole
<1>4. ASSUME NEW i \in 1..n, Begins(i)
      PROVE  /\ Begins(i - 1) /\ LiesAt(piece[i], whole, Len(f[i - 1]))
             /\ Len(f[i]) = Len(f[i - 1]) + Len(piece[i])
  <2>0. i - 1 \in 0..n /\ 0 \in Nat
    OBVIOUS
  <2>1. f[i - 1] \in Seq(Nat) /\ piece[i] \in Seq(Nat) /\ f[i] = f[i - 1] \o piece[i]
    BY <1>1, <2>0, Zenon
  <2>2. LiesAt(f[i - 1] \o piece[i], whole, 0)
    BY <1>4, <2>1
  <2>3. LiesAt(f[i - 1], whole, 0) /\ LiesAt(piece[i], whole, 0 + Len(f[i - 1]))
    BY <1>2, <2>0, <2>1, <2>2, PiecesLie, Zenon
  <2>4. Len(f[i - 1] \o piece[i]) = Len(f[i - 1]) + Len(piece[i])
    BY <2>1, ConcatProperties
  <2>5. 0 + Len(f[i - 1]) = Len(f[i - 1])
    BY <2>1
  <2> QED
    BY <2>0, <2>1, <2>3, <2>4, <2>5
<1> HIDE DEF Begins
<1>5. Bad = {}
  <2> SUFFICES ASSUME Bad # {} PROVE FALSE
    OBVIOUS
  <2>0. Bad \in SUBSET Nat
    OBVIOUS
  <2>1. PICK k \in Bad : \A j \in Bad : k <= j
    BY <2>0, LeastExists, Zenon
  <2>2. k \in 0..n /\ ~ Begins(n - k) /\ k # 0
    <3>1. n - 0 = n
      OBVIOUS
    <3> QED
      BY <1>3, <2>1, <3>1
  <2>3. k - 1 \in 0..n /\ ~ (k <= k - 1) /\ n - (k - 1) \in 1..n /\ n - (k - 1) - 1 = n - k
    BY <2>2
  <2>4. Begins(n - (k - 1))
    BY <2>1, <2>3, Zenon
  <2>5. Begins(n - (k - 1) - 1)
    BY <1>4, <2>3, <2>4, Zenon
  <2> QED
    BY <2>2, <2>3, <2>5
<1>6. \A i \in 0..n : Begins(i)
  <2> SUFFICES ASSUME NEW i \in 0..n PROVE Begins(i)
    OBVIOUS
  <2>1. n - i \in 0..n /\ n - (n - i) = i
    OBVIOUS
  <2>2. Begins(n - (n - i))
    BY <1>5, <2>1, Zenon
  <2> QED
    BY <2>1, <2>2
<1>7. \A i \in 1..n : i \in 0..n
  OBVIOUS
<1>8. 0 \in 0..n
  OBVIOUS
<1> QED
  BY <1>4, <1>6, <1>7, <1>8 DEF Begins, whole, InPlace

\* Fields that build_message is meant for.
Fields(fields) ==
    /\ DOMAIN fields \in SUBSET DataElement
    /\ \A de \in DOMAIN fields : Legal(de, fields[de])
Piece(fields) ==
    LET des == Sorted(DOMAIN fields)
    IN  [i \in 1..Len(des) |-> Encode(FIELD_SPECS[des[i]], fields[des[i]])]
Head8583(mti, fields) == bcd_encode(mti) \o build_bitmap(DOMAIN fields)

LEMMA OrderOfFields ==
    ASSUME NEW fields, Fields(fields)
    PROVE  LET des == Sorted(DOMAIN fields) IN
           /\ DOMAIN fields \in SUBSET Elements8583
           /\ Len(des) \in Nat
           /\ \A i \in 1..Len(des) : des[i] \in DOMAIN fields
           /\ \A de \in DOMAIN fields : /\ Place(DOMAIN fields, de) \in 1..Len(des)
                                        /\ des[Place(DOMAIN fields, de)] = de
           /\ Piece(fields) \in [1..Len(des) -> Seq(Nat)]
<1> DEFINE S == DOMAIN fields
           des == Sorted(S)
<1>1. S \in SUBSET Elements8583
  BY SpecOfElement DEF Fields, Elements8583
<1>2. S \in SUBSET Nat /\ IsFiniteSet(S)
  <2>1. \A x \in Elements8583 : x \in Nat
    BY DEF Elements8583
  <2>2. IsFiniteSet(Elements8583)
    <3>1. 2 \in Int /\ 128 \in Int
      OBVIOUS
    <3> QED
      BY <3>1, FS_Interval DEF Elements8583
  <2> QED
    BY <1>1, <2>1, <2>2, FS_Subset
<1>3. /\ Cardinality(S) \in Nat /\ Len(des) = Cardinality(S) /\ des \in Seq(S)
      /\ \A de \in S : Place(S, de) \in 1..Cardinality(S) /\ des[Place(S, de)] = de
  BY <1>2, InOrder
<1> HIDE DEF des
<1>4. \A i \in 1..Len(des) : des[i] \in S
  BY <1>3, Elements
<1>5. Piece(fields) = [i \in 1..Len(des) |-> Encode(FIELD_SPECS[des[i]], fields[des[i]])]
  BY DEF Piece, des
<1>6. ASSUME NEW i \in 1..Len(des)
      PROVE  Encode(FIELD_SPECS[des[i]], fields[des[i]]) \in Seq(Nat)
  <2>1. des[i] \in DataElement /\ Legal(des[i], fields[des[i]])
    BY <1>4 DEF Fields
  <2> QED
    BY <2>1, ElementBytes
<1>7. Piece(fields) \in [1..Len(des) -> Seq(Nat)]
  BY <1>5, <1>6
<1> QED
  BY <1>1, <1>3, <1>4, <1>7 DEF des

LEMMA HeadComesBack ==
    ASSUME NEW fields, Fields(fields), NEW mti \in [1..4 -> 0..9],
           NEW raw \in Seq(Nat), LiesAt(Head8583(mti, fields), raw, 0)
    PROVE  /\ bcd_decode(Slice(raw, 0, 2), 4) = mti
           /\ read_bitmap(raw, 2) = DOMAIN fields
           /\ 2 + bitmap_length(raw, 2) = Len(Head8583(mti, fields))
<1> DEFINE map == build_bitmap(DOMAIN fields)
           start == bcd_encode(mti)
<1>1. DOMAIN fields \in SUBSET Elements8583
  BY OrderOfFields
<1>2. map \in Seq(Byte) /\ Len(map) \in {8, 16}
  BY <1>1, BitmapIsBytes
<1>3. mti \in Seq(0..9) /\ Len(mti) = 4
  BY FromFunction, ZenonT(40)
<1>4. start \in Seq(Nat) /\ Len(start) = 2 /\ bcd_decode(start, 4) = mti
  <2>1. mti \in Seq(0..15)
    BY <1>3, DigitsAreNibbles
  <2>2. bcd_byte_len(4) = 2
    BY DEF bcd_byte_len
  <2>3. start \in Seq(Byte) /\ Len(start) = bcd_byte_len(4) /\ bcd_decode(start, 4) = mti
    BY <1>3, <2>1, Encoded, DigitsComeBack
  <2> QED
    BY <2>2, <2>3, BytesAreNat
<1>5. map \in Seq(Nat)
  BY <1>2, BytesAreNat
<1>6. Head8583(mti, fields) = start \o map
  BY DEF Head8583
<1> HIDE DEF map, start
<1>7. LiesAt(start, raw, 0) /\ LiesAt(map, raw, 2)
  <2>1. LiesAt(start \o map, raw, 0) /\ 0 \in Nat
    BY <1>6
  <2>2. LiesAt(start, raw, 0) /\ LiesAt(map, raw, 0 + Len(start))
    BY <1>4, <1>5, <2>1, PiecesLie, Zenon
  <2>3. 0 + Len(start) = 2
    BY <1>4
  <2> QED
    BY <2>2, <2>3
<1>8. Slice(raw, 0, 2) = start
  BY <1>4, <1>7, SliceOfPiece
<1>9. bitmap_length(raw, 2) = Len(map) /\ read_bitmap(raw, 2) = DOMAIN fields
  <2>1. \A i \in 1..Len(map) : raw[2 + i] = map[i]
    BY <1>7 DEF LiesAt
  <2> QED
    BY <1>1, <2>1, BitmapsComeBack DEF map
<1>10. Len(Head8583(mti, fields)) = 2 + Len(map)
  <2>1. Len(start \o map) = Len(start) + Len(map)
    BY <1>4, <1>5, ConcatProperties
  <2> QED
    BY <1>4, <1>6, <2>1
<1> QED
  BY <1>4, <1>8, <1>9, <1>10

LEMMA MessageIsBuilt ==
    ASSUME NEW fields, Fields(fields), NEW mti \in [1..4 -> 0..9]
    PROVE  LET n == Len(Sorted(DOMAIN fields)) IN
           \E out : /\ Builds(out, n, Head8583(mti, fields), Piece(fields))
                    /\ build_message(mti, fields) = out[n]
<1> DEFINE des == Sorted(DOMAIN fields)
           n == Len(des)
           base == Head8583(mti, fields)
           piece == Piece(fields)
           element(i) == Encode(FIELD_SPECS[des[i]], fields[des[i]])
           Body(f, i) == IF i = 0 THEN base ELSE f[i - 1] \o element(i)
           loop == CHOOSE f : f = [i \in 0..n |-> Body(f, i)]
           out == CHOOSE f : f = [i \in 0..n |-> IF i = 0 THEN base ELSE f[i - 1] \o piece[i]]
<1>1. build_message(mti, fields) = loop[n]
  BY DEF build_message, Head8583
<1>2. n \in Nat /\ piece \in [1..n -> Seq(Nat)]
  BY OrderOfFields
<1>3. base \in Seq(Nat)
  <2>1. DOMAIN fields \in SUBSET Elements8583
    BY OrderOfFields
  <2>2. build_bitmap(DOMAIN fields) \in Seq(Byte)
    BY <2>1, BitmapIsBytes
  <2>3. mti \in Seq(0..9) /\ mti \in Seq(0..15)
    BY FromFunction, DigitsAreNibbles
  <2>4. bcd_encode(mti) \in Seq(Byte)
    BY <2>3, Encoded
  <2> QED
    BY <2>2, <2>4, BytesAreNat, ConcatProperties DEF Head8583
<1>4. \A i \in 1..n : piece[i] = element(i)
  BY DEF Piece
<1> HIDE DEF n, base, piece, element
<1>5. ASSUME NEW f
      PROVE  [i \in 0..n |-> Body(f, i)]
                 = [i \in 0..n |-> IF i = 0 THEN base ELSE f[i - 1] \o piece[i]]
  <2>1. \A i \in 0..n : i # 0 => i \in 1..n
    BY <1>2
  <2>2. \A i \in 0..n : Body(f, i) = IF i = 0 THEN base ELSE f[i - 1] \o piece[i]
    BY <1>4, <2>1
  <2> QED
    BY <2>2
<1>6. loop = out
  BY <1>5, Zenon
<1>7. Builds(out, n, base, piece)
  <2>1. Adds(out, n, base, piece)
    BY DEF Adds
  <2> HIDE DEF out
  <2> QED
    BY <1>2, <1>3, <2>1, PiecesAdd
<1> HIDE DEF loop, out
<1> QED
  BY <1>1, <1>6, <1>7, Zenon DEF n, base, piece

\* What has been read after i elements.
Reads(so_far, n, raw, order) ==
    so_far = CHOOSE f : f = [i \in 0..n |->
        IF i = 0 THEN [next |-> 2 + bitmap_length(raw, 2), values |-> <<>>]
        ELSE ReadElement(f[i - 1], order[i], FIELD_SPECS[order[i]], raw)]

ReadsOn(g, n, raw, order) ==
    /\ g = [i \in 0..n |-> g[i]]
    /\ g[0] = [next |-> 2 + bitmap_length(raw, 2), values |-> <<>>]
    /\ \A i \in 1..n :
          g[i] = ReadElement(g[i - 1], order[i], FIELD_SPECS[order[i]], raw)

LEMMA MessageIsRead ==
    ASSUME NEW n \in Nat, NEW raw, NEW order, NEW so_far, Reads(so_far, n, raw, order),
           NEW g, ReadsOn(g, n, raw, order)
    PROVE  so_far[n] = g[n]
<1> DEFINE base == [next |-> 2 + bitmap_length(raw, 2), values |-> <<>>]
           element(x, i) == ReadElement(x, order[i], FIELD_SPECS[order[i]], raw)
           Body(f, i) == IF i = 0 THEN base ELSE element(f[i - 1], i)
           Bad == {k \in 0..n : so_far[k] # g[k]}
<1>1. so_far = CHOOSE f : f = [i \in 0..n |-> Body(f, i)]
  BY DEF Reads
<1>2. /\ g[0] = base /\ \A i \in 1..n : g[i] = element(g[i - 1], i)
      /\ g = [i \in 0..n |-> g[i]]
  BY Zenon DEF ReadsOn
<1> HIDE DEF base, element
<1>3. g = [i \in 0..n |-> Body(g, i)]
  <2>1. \A i \in 0..n : i # 0 => i \in 1..n
    OBVIOUS
  <2>2. \A i \in 0..n : g[i] = Body(g, i)
    BY <1>2, <2>1
  <2> QED
    BY <1>2, <2>2
<1>4. so_far = [i \in 0..n |-> Body(so_far, i)]
  BY <1>1, <1>3
<1>5. so_far[0] = base /\ \A i \in 1..n : so_far[i] = element(so_far[i - 1], i)
  <2>1. 0 \in 0..n /\ \A i \in 1..n : i \in 0..n /\ i # 0
    OBVIOUS
  <2>2. \A i \in 0..n : so_far[i] = Body(so_far, i)
    BY <1>4
  <2> QED
    BY <2>1, <2>2
<1> SUFFICES ASSUME Bad # {} PROVE FALSE
  <2>1. n \in 0..n
    OBVIOUS
  <2> QED
    BY <2>1
<1>6. Bad \in SUBSET Nat
  OBVIOUS
<1>7. PICK k \in Bad : \A j \in Bad : k <= j
  BY <1>6, LeastExists, Zenon
<1>8. k \in 0..n /\ so_far[k] # g[k] /\ k # 0
  BY <1>2, <1>5, <1>7
<1>9. k - 1 \in 0..n /\ ~ (k <= k - 1) /\ k \in 1..n
  BY <1>8
<1>10. so_far[k - 1] = g[k - 1]
  BY <1>7, <1>9, Zenon
<1> QED
  BY <1>2, <1>5, <1>8, <1>9, <1>10, Zenon

\* Any message of the catalogue's elements, with any values that are written as
\* they should be, is read as it was built: its elements are found, each at its
\* place and with its value, and every byte is accounted for.
THEOREM MessagesComeBack ==
    ASSUME NEW fields, Fields(fields), NEW mti \in [1..4 -> 0..9]
    PROVE  parse_message(build_message(mti, fields)) = Parsed(mti, fields)
<1> DEFINE S == DOMAIN fields
           des == Sorted(S)
           n == Len(des)
           head == Head8583(mti, fields)
           piece == Piece(fields)
           raw == build_message(mti, fields)
           value(i) == Normal(des[i], fields[des[i]])
<1>1. /\ n \in Nat /\ piece \in [1..n -> Seq(Nat)]
      /\ \A i \in 1..n : des[i] \in S
      /\ \A de \in S : Place(S, de) \in 1..n /\ des[Place(S, de)] = de
  BY OrderOfFields
<1>2. PICK out : Builds(out, n, head, piece) /\ raw = out[n]
  BY MessageIsBuilt
<1>3. \A i \in 1..n : piece[i] = Encode(FIELD_SPECS[des[i]], fields[des[i]])
  BY DEF Piece
<1>4. \A i \in 1..n : des[i] \in DataElement /\ Legal(des[i], fields[des[i]])
  BY <1>1 DEF Fields
<1> HIDE DEF n, head, piece, raw
<1>5. /\ out[0] = head /\ \A i \in 0..n : out[i] \in Seq(Nat)
      /\ raw \in Seq(Nat)
  BY <1>1, <1>2 DEF Builds
<1>6. /\ LiesAt(out[0], raw, 0)
      /\ \A i \in 1..n : /\ LiesAt(piece[i], raw, Len(out[i - 1]))
                         /\ Len(out[i]) = Len(out[i - 1]) + Len(piece[i])
  <2>1. InPlace(out, n, piece)
    BY <1>1, <1>2, PieceInPlace, Zenon
  <2> QED
    BY <1>2, <2>1 DEF InPlace
<1>7. /\ bcd_decode(Slice(raw, 0, 2), 4) = mti /\ read_bitmap(raw, 2) = S
      /\ 2 + bitmap_length(raw, 2) = Len(out[0])
  BY <1>5, <1>6, HeadComesBack DEF head
<1> DEFINE g == [i \in 0..n |-> [next |-> Len(out[i]),
                                 values |-> [j \in 1..i |-> value(j)]]]
           order == Sorted(S)
           so_far == CHOOSE f : f = [i \in 0..n |->
               IF i = 0 THEN [next |-> 2 + bitmap_length(raw, 2), values |-> <<>>]
               ELSE ReadElement(f[i - 1], order[i], FIELD_SPECS[order[i]], raw)]
<1>8. ReadElements(raw, S) = so_far[n] /\ Reads(so_far, n, raw, des)
  BY DEF ReadElements, Reads, n
<1> HIDE DEF so_far, des, value
<1>9. g[0] = [next |-> 2 + bitmap_length(raw, 2), values |-> <<>>]
  <2>1. 0 \in 0..n /\ [j \in 1..0 |-> value(j)] = <<>>
    BY <1>1
  <2> QED
    BY <1>7, <2>1
<1>10. ASSUME NEW i \in 1..n
       PROVE  g[i] = ReadElement(g[i - 1], des[i], FIELD_SPECS[des[i]], raw)
  <2>1. i \in 0..n /\ i - 1 \in 0..n /\ i - 1 \in Nat
    BY <1>1
  <2>2. /\ g[i - 1] = [next |-> Len(out[i - 1]), values |-> [j \in 1..(i - 1) |-> value(j)]]
        /\ g[i] = [next |-> Len(out[i]), values |-> [j \in 1..i |-> value(j)]]
    BY <2>1
  <2>3. g[i - 1].next = Len(out[i - 1]) /\ Len(out[i - 1]) \in Nat
        /\ g[i - 1].values = [j \in 1..(i - 1) |-> value(j)]
    BY <1>5, <2>1, <2>2
  <2>4. Append([j \in 1..(i - 1) |-> value(j)], value(i)) = [j \in 1..i |-> value(j)]
    BY <2>1
  <2> HIDE DEF g
  <2>5. /\ des[i] \in DataElement /\ Legal(des[i], fields[des[i]])
        /\ g[i - 1].next \in Nat
        /\ LiesAt(Encode(FIELD_SPECS[des[i]], fields[des[i]]), raw, g[i - 1].next)
    BY <1>3, <1>4, <1>6, <2>3
  <2>6. ReadElement(g[i - 1], des[i], FIELD_SPECS[des[i]], raw) =
            [next |-> g[i - 1].next + Len(Encode(FIELD_SPECS[des[i]], fields[des[i]])),
             values |-> Append(g[i - 1].values, Normal(des[i], fields[des[i]]))]
    BY <1>5, <2>5, ElementComesBack, Zenon
  <2>7. Len(out[i]) = g[i - 1].next + Len(Encode(FIELD_SPECS[des[i]], fields[des[i]]))
    BY <1>3, <1>6, <2>3
  <2> QED
    BY <2>2, <2>3, <2>4, <2>6, <2>7 DEF value
<1>11. g = [i \in 0..n |-> g[i]]
  OBVIOUS
<1>12. n \in 0..n /\ g[n] = [next |-> Len(out[n]), values |-> [j \in 1..n |-> value(j)]]
  BY <1>1
<1> HIDE DEF g
<1>13. so_far[n] = g[n]
  <2>1. ReadsOn(g, n, raw, des)
    BY <1>9, <1>10, <1>11, Zenon DEF ReadsOn
  <2> QED
    <3>1. n \in Nat
      BY <1>1
    <3>2. Reads(so_far, n, raw, des)
      BY <1>8
    <3> QED
      BY <3>1, <3>2, <2>1, MessageIsRead
<1>14. ReadElements(raw, S) = [next |-> Len(raw), values |-> [j \in 1..n |-> value(j)]]
  BY <1>2, <1>8, <1>12, <1>13
<1>15. parse_message(raw) = AsRead(raw, S, ReadElements(raw, S))
  BY <1>7 DEF parse_message
<1>16. ASSUME NEW de \in S
       PROVE  ReadElements(raw, S).values[Cardinality({m \in S : m <= de})]
                  = Normal(de, fields[de])
  <2>1. Place(S, de) = Cardinality({m \in S : m <= de})
    BY DEF Place
  <2>2. Place(S, de) \in 1..n /\ des[Place(S, de)] = de
    BY <1>1
  <2>3. ReadElements(raw, S).values[Place(S, de)] = value(Place(S, de))
    <3>1. [j \in 1..n |-> value(j)][Place(S, de)] = value(Place(S, de))
      BY <2>2, Zenon
    <3>2. ReadElements(raw, S).values = [j \in 1..n |-> value(j)]
      <4> DEFINE all == [j \in 1..n |-> value(j)]
      <4>1. ReadElements(raw, S) = [next |-> Len(raw), values |-> all]
        BY <1>14
      <4> HIDE DEF all
      <4>2. ReadElements(raw, S).values = all
        BY <4>1
      <4> QED
        BY <4>2 DEF all
    <3> QED
      BY <3>1, <3>2
  <2> QED
    BY <2>1, <2>2, <2>3 DEF value
<1>17. parse_message(raw) = [mti |-> mti, fields |-> [de \in S |-> Normal(de, fields[de])],
                             consumed |-> Len(raw)]
  <2> DEFINE read == ReadElements(raw, S)
  <2>1. read.next = Len(raw)
    BY <1>14
  <2>2. bcd_decode(Slice(raw, 0, 2), 4) = mti
    BY <1>7
  <2> HIDE DEF read
  <2>3. \A de \in S : read.values[Cardinality({m \in S : m <= de})] = Normal(de, fields[de])
    BY <1>16 DEF read
  <2>4. [de \in S |-> read.values[Cardinality({m \in S : m <= de})]]
            = [de \in S |-> Normal(de, fields[de])]
    BY <2>3
  <2>5. AsRead(raw, S, read) =
            [mti |-> bcd_decode(Slice(raw, 0, 2), 4),
             fields |-> [de \in S |-> read.values[Cardinality({m \in S : m <= de})]],
             consumed |-> read.next]
    BY Zenon DEF AsRead
  <2> QED
    BY <1>15, <2>1, <2>2, <2>4, <2>5 DEF read
<1> QED
  BY <1>17 DEF Parsed, raw

-----------------------------------------------------------------------------
(* Any element of the catalogue, and the one that follows it.              *)

LEMMA DigitsAreSeq ==
    ASSUME NEW n \in Nat, NEW size \in Nat
    PROVE  Digits(n, size) \in Seq(0..9) /\ Len(Digits(n, size)) = size
<1> DEFINE digits == Digits(n, size)
<1>1. digits \in [1..size -> 0..9]
  BY DEF Digits
<1> HIDE DEF digits
<1> QED
  BY <1>1, FromFunction, Zenon DEF digits

LEMMA LengthsFit ==
    ASSUME NEW de \in DataElement, NEW n \in Lengths(de)
    PROVE  LET spec == FIELD_SPECS[de] IN
           /\ n \in Nat
           /\ spec.numeric \/ spec.prefix # 0 => n <= spec.length
           /\ de \in Binary /\ spec.prefix = 0 => n = spec.length
<1> DEFINE spec == FIELD_SPECS[de]
<1>1. spec.length \in Nat \ {0}
  BY SpecOfElement
<1>2. de \in Binary /\ spec.prefix = 0 => n = spec.length
  BY Zenon DEF Lengths
<1>3. n \in {spec.length, 0, 1, spec.length - 1}
          \/ (n = spec.length + 2 /\ spec.prefix = 0 /\ ~spec.numeric)
  BY Zenon DEF Lengths
<1> HIDE DEF spec
<1>4. n \in Nat
  BY <1>1, <1>3
<1>5. spec.numeric \/ spec.prefix # 0 => n <= spec.length
  BY <1>1, <1>3
<1> QED
  BY <1>2, <1>4, <1>5 DEF spec

LEMMA ValuesAreLegal ==
    ASSUME NEW de \in DataElement, NEW value \in Values(de)
    PROVE  Legal(de, value)
<1> DEFINE spec == FIELD_SPECS[de]
<1>1. CASE \E n \in {k \in Lengths(de) : spec.numeric} : value = Digits(5, n)
  <2>1. PICK n \in Lengths(de) : spec.numeric /\ value = Digits(5, n)
    BY <1>1
  <2>2. n \in Nat /\ n <= spec.length /\ (de \in Binary /\ spec.prefix = 0 => n = spec.length)
    BY <2>1, LengthsFit
  <2>3. value \in Seq(0..9) /\ Len(value) = n
    BY <2>1, <2>2, DigitsAreSeq
  <2> HIDE DEF spec
  <2>4. /\ IF spec.numeric THEN value \in Seq(0..9) ELSE value \in Seq(Nat)
        /\ spec.numeric \/ spec.prefix # 0 => Len(value) <= spec.length
        /\ de \in Binary /\ spec.prefix = 0 => Len(value) = spec.length
    BY <2>1, <2>2, <2>3, Zenon
  <2> QED
    BY <2>4, Zenon DEF Legal, spec
<1>2. CASE \E n \in {k \in Lengths(de) : ~spec.numeric}, last \in {48, Space, 160} :
              value = [i \in 1..n |-> IF i = n THEN last ELSE 64 + (i % 190)]
  <2>1. PICK n \in Lengths(de), last \in {48, Space, 160} :
            ~spec.numeric /\ value = [i \in 1..n |-> IF i = n THEN last ELSE 64 + (i % 190)]
    BY <1>2
  <2>2. n \in Nat /\ (spec.prefix # 0 => n <= spec.length)
        /\ (de \in Binary /\ spec.prefix = 0 => n = spec.length)
    BY LengthsFit
  <2>3. value \in [1..n -> Nat]
    BY <2>1, <2>2 DEF Space
  <2>5. value \in Seq(Nat) /\ Len(value) = n
    BY <2>2, <2>3, FromFunction
  <2> HIDE DEF spec
  <2>6. /\ IF spec.numeric THEN value \in Seq(0..9) ELSE value \in Seq(Nat)
        /\ spec.numeric \/ spec.prefix # 0 => Len(value) <= spec.length
        /\ de \in Binary /\ spec.prefix = 0 => Len(value) = spec.length
    BY <2>1, <2>2, <2>5, SMTT(40)
  <2> QED
    BY <2>6, Zenon DEF Legal, spec
<1>3. \/ value \in {Digits(5, n) : n \in {k \in Lengths(de) : spec.numeric}}
      \/ value \in {[i \in 1..n |-> IF i = n THEN last ELSE 64 + (i % 190)] :
                        n \in {k \in Lengths(de) : ~spec.numeric},
                        last \in {48, Space, 160}}
  BY DEF Values
<1> QED
  BY <1>1, <1>2, <1>3

LEMMA PlainIsLegal ==
    ASSUME NEW de \in DataElement
    PROVE  Legal(de, Plain(de))
<1> DEFINE spec == FIELD_SPECS[de]
           n == spec.length
<1>1. n \in Nat
  BY SpecOfElement
<1>2. spec.numeric => Plain(de) \in Seq(0..9) /\ Len(Plain(de)) = n
  <2>1. Digits(0, n) \in Seq(0..9) /\ Len(Digits(0, n)) = n
    BY <1>1, DigitsAreSeq
  <2> QED
    BY <2>1, Zenon DEF Plain
<1>3. ~spec.numeric => Plain(de) \in Seq(Nat) /\ Len(Plain(de)) = n
  <2> DEFINE text == Replicate(65, n)
  <2>1. text \in [1..n -> Nat]
    BY DEF Replicate
  <2> HIDE DEF text
  <2>2. text \in Seq(Nat) /\ Len(text) = n
    BY <1>1, <2>1, FromFunction, Zenon
  <2> QED
    BY <2>2, Zenon DEF Plain, text
<1> HIDE DEF n
<1>4. n <= n
  BY <1>1
<1> QED
  BY <1>2, <1>3, <1>4, Zenon DEF Legal, n

-----------------------------------------------------------------------------
(* What the catalogue says of a data element.                              *)

Entry(de, prefix, length, numeric) ==
    [de |-> de, prefix |-> prefix, length |-> length, numeric |-> numeric]
Catalogue ==
    Kind(0, TRUE, FixedDigits) \cup Kind(0, FALSE, FixedText)
      \cup Kind(2, TRUE, VarDigits) \cup Kind(2, FALSE, VarText)
      \cup Kind(4, FALSE, LongVarText)

\* A DE of these classes has one of the lengths; all of them, if exactly.
Holds(classes, de, length) == \E c \in classes : de \in c[2] /\ c[1] = length
Lacks(classes, de) == \A c \in classes : de \notin c[2]
Only(classes, de, length) == \A c \in classes : de \in c[2] => c[1] = length

LEMMA KindHolds ==
    ASSUME NEW prefix, NEW numeric, NEW classes, NEW de, NEW length,
           Holds(classes, de, length)
    PROVE  Entry(de, prefix, length, numeric) \in Kind(prefix, numeric, classes)
<1>1. PICK c \in classes : de \in c[2] /\ c[1] = length
  BY DEF Holds
<1> DEFINE some == {[de |-> d, prefix |-> prefix, length |-> c[1], numeric |-> numeric]
                      : d \in c[2]}
<1>2. Entry(de, prefix, length, numeric) \in some
  BY <1>1 DEF Entry
<1>3. some \subseteq Kind(prefix, numeric, classes)
  BY DEF Kind
<1> QED
  BY <1>2, <1>3

LEMMA KindLacks ==
    ASSUME NEW prefix, NEW numeric, NEW classes, NEW de, Lacks(classes, de)
    PROVE  \A s \in Kind(prefix, numeric, classes) : s.de # de
<1> SUFFICES ASSUME NEW s \in Kind(prefix, numeric, classes)
             PROVE  s.de # de
  OBVIOUS
<1>1. PICK c \in classes :
          s \in {[de |-> d, prefix |-> prefix, length |-> c[1], numeric |-> numeric]
                    : d \in c[2]}
  BY DEF Kind
<1>2. s.de \in c[2]
  BY <1>1
<1> QED
  BY <1>2 DEF Lacks

LEMMA KindOnly ==
    ASSUME NEW prefix, NEW numeric, NEW classes, NEW de, NEW length,
           Only(classes, de, length)
    PROVE  \A s \in Kind(prefix, numeric, classes) :
               s.de = de => s = Entry(de, prefix, length, numeric)
<1> SUFFICES ASSUME NEW s \in Kind(prefix, numeric, classes), s.de = de
             PROVE  s = Entry(de, prefix, length, numeric)
  OBVIOUS
<1>1. PICK c \in classes :
          s \in {[de |-> d, prefix |-> prefix, length |-> c[1], numeric |-> numeric]
                    : d \in c[2]}
  BY DEF Kind
<1>2. PICK d \in c[2] :
          s = [de |-> d, prefix |-> prefix, length |-> c[1], numeric |-> numeric]
  BY <1>1
<1>3. d = de /\ c[1] = length
  BY <1>2 DEF Only
<1> QED
  BY <1>2, <1>3 DEF Entry

LEMMA InCatalogue ==
    ASSUME NEW s \in Catalogue
    PROVE  s.de \in DataElement
           /\ FIELD_SPECS[s.de] = CHOOSE t \in Catalogue : t.de = s.de
<1> DEFINE all == Catalogue
<1>1. FIELD_SPECS = [d \in {t.de : t \in all} |-> CHOOSE t \in all : t.de = d]
  BY SMT DEF FIELD_SPECS, Catalogue
<1>2. s.de \in {t.de : t \in all}
  OBVIOUS
<1> HIDE DEF all
<1> QED
  BY <1>1, <1>2 DEF DataElement, all

LEMMA OnlyEntry ==
    ASSUME NEW de, NEW s \in Catalogue, s.de = de,
           \A t \in Catalogue : t.de = de => t = s
    PROVE  de \in DataElement /\ FIELD_SPECS[de] = s
<1>1. de \in DataElement /\ FIELD_SPECS[de] = CHOOSE t \in Catalogue : t.de = de
  BY InCatalogue
<1>2. (CHOOSE t \in Catalogue : t.de = de) = s
  BY Zenon
<1> QED
  BY <1>1, <1>2

\* Where the elements that the gateway and the switch use stand in it.
LEMMA ClassesOfFixedDigits ==
    LET classes == FixedDigits IN
    /\ \A de \in {2, 37, 38, 39, 52, 103, 128} : Lacks(classes, de)
    /\ \A de \in {22, 49, 70} : Holds(classes, de, 3) /\ Only(classes, de, 3)
    /\ \A de \in {3, 11} : Holds(classes, de, 6) /\ Only(classes, de, 6)
    /\ Holds(classes, 66, 1)
    /\ Holds(classes, 4, 12) /\ Only(classes, 4, 12)
    /\ Holds(classes, 53, 16) /\ Only(classes, 53, 16)
    /\ Holds(classes, 90, 42) /\ Only(classes, 90, 42)
BY DEF FixedDigits, Lacks, Holds, Only

LEMMA ClassesOfFixedText ==
    LET classes == FixedText IN
    /\ \A de \in {2, 3, 4, 11, 22, 49, 53, 70, 90, 103} : Lacks(classes, de)
    /\ Holds(classes, 37, 12) /\ Only(classes, 37, 12)
    /\ Holds(classes, 38, 6) /\ Only(classes, 38, 6)
    /\ Holds(classes, 39, 2) /\ Only(classes, 39, 2)
    /\ Holds(classes, 52, 8) /\ Only(classes, 52, 8)
    /\ Holds(classes, 128, 8)
BY DEF FixedText, Lacks, Holds, Only

LEMMA ClassesOfTheRest ==
    /\ \A de \in {3, 4, 11, 22, 37, 38, 39, 49, 52, 53, 70, 90, 103} : Lacks(VarDigits, de)
    /\ \A de \in {2, 3, 4, 11, 22, 37, 38, 39, 49, 52, 53, 70, 90} : Lacks(VarText, de)
    /\ \A de \in {2, 3, 4, 11, 22, 37, 38, 39, 49, 52, 53, 70, 90, 103} : Lacks(LongVarText, de)
    /\ Holds(VarDigits, 2, 19) /\ Only(VarDigits, 2, 19)
    /\ Holds(VarText, 103, 28) /\ Only(VarText, 103, 28)
BY DEF VarDigits, VarText, LongVarText, Lacks, Holds, Only

Specified(de, prefix, length, numeric) ==
    de \in DataElement /\ FIELD_SPECS[de] = Entry(de, prefix, length, numeric)

LEMMA OneEntry ==
    ASSUME NEW prefix, NEW numeric, NEW classes, NEW de, NEW length,
           Kind(prefix, numeric, classes) \subseteq Catalogue,
           \A t \in Catalogue : t.de = de => t \in Kind(prefix, numeric, classes),
           Holds(classes, de, length), Only(classes, de, length)
    PROVE  Specified(de, prefix, length, numeric)
<1> DEFINE s == Entry(de, prefix, length, numeric)
           kind == Kind(prefix, numeric, classes)
<1>1. s \in kind /\ \A t \in kind : t.de = de => t = s
  BY KindHolds, KindOnly, Zenon
<1>2. s.de = de
  BY DEF Entry
<1> HIDE DEF s, kind
<1>3. s \in Catalogue /\ \A t \in Catalogue : t.de = de => t = s
  BY <1>1, Zenon DEF kind
<1>4. de \in DataElement /\ FIELD_SPECS[de] = s
  BY <1>2, <1>3, OnlyEntry, Zenon
<1> QED
  BY <1>4 DEF s, Specified

LEMMA FixedDigitsEntry ==
    ASSUME NEW de, NEW length, Holds(FixedDigits, de, length), Only(FixedDigits, de, length),
           Lacks(FixedText, de), Lacks(VarDigits, de),
           Lacks(VarText, de), Lacks(LongVarText, de)
    PROVE  Specified(de, 0, length, TRUE)
<1> DEFINE kind == Kind(0, TRUE, FixedDigits)
<1>1. /\ \A t \in Kind(0, FALSE, FixedText) : t.de # de
      /\ \A t \in Kind(2, TRUE, VarDigits) : t.de # de
      /\ \A t \in Kind(2, FALSE, VarText) : t.de # de
      /\ \A t \in Kind(4, FALSE, LongVarText) : t.de # de
  BY KindLacks, Zenon
<1> HIDE DEF kind
<1>2. kind \subseteq Catalogue /\ \A t \in Catalogue : t.de = de => t \in kind
  BY <1>1, Zenon DEF Catalogue, kind
<1> QED
  BY <1>2, OneEntry, Zenon DEF kind

LEMMA FixedTextEntry ==
    ASSUME NEW de, NEW length, Holds(FixedText, de, length), Only(FixedText, de, length),
           Lacks(FixedDigits, de), Lacks(VarDigits, de),
           Lacks(VarText, de), Lacks(LongVarText, de)
    PROVE  Specified(de, 0, length, FALSE)
<1> DEFINE kind == Kind(0, FALSE, FixedText)
<1>1. /\ \A t \in Kind(0, TRUE, FixedDigits) : t.de # de
      /\ \A t \in Kind(2, TRUE, VarDigits) : t.de # de
      /\ \A t \in Kind(2, FALSE, VarText) : t.de # de
      /\ \A t \in Kind(4, FALSE, LongVarText) : t.de # de
  BY KindLacks, Zenon
<1> HIDE DEF kind
<1>2. kind \subseteq Catalogue /\ \A t \in Catalogue : t.de = de => t \in kind
  BY <1>1, Zenon DEF Catalogue, kind
<1> QED
  BY <1>2, OneEntry, Zenon DEF kind

LEMMA VarDigitsEntry ==
    ASSUME NEW de, NEW length, Holds(VarDigits, de, length), Only(VarDigits, de, length),
           Lacks(FixedDigits, de), Lacks(FixedText, de),
           Lacks(VarText, de), Lacks(LongVarText, de)
    PROVE  Specified(de, 2, length, TRUE)
<1> DEFINE kind == Kind(2, TRUE, VarDigits)
<1>1. /\ \A t \in Kind(0, TRUE, FixedDigits) : t.de # de
      /\ \A t \in Kind(0, FALSE, FixedText) : t.de # de
      /\ \A t \in Kind(2, FALSE, VarText) : t.de # de
      /\ \A t \in Kind(4, FALSE, LongVarText) : t.de # de
  BY KindLacks, Zenon
<1> HIDE DEF kind
<1>2. kind \subseteq Catalogue /\ \A t \in Catalogue : t.de = de => t \in kind
  BY <1>1, Zenon DEF Catalogue, kind
<1> QED
  BY <1>2, OneEntry, Zenon DEF kind

LEMMA VarTextEntry ==
    ASSUME NEW de, NEW length, Holds(VarText, de, length), Only(VarText, de, length),
           Lacks(FixedDigits, de), Lacks(FixedText, de),
           Lacks(VarDigits, de), Lacks(LongVarText, de)
    PROVE  Specified(de, 2, length, FALSE)
<1> DEFINE kind == Kind(2, FALSE, VarText)
<1>1. /\ \A t \in Kind(0, TRUE, FixedDigits) : t.de # de
      /\ \A t \in Kind(0, FALSE, FixedText) : t.de # de
      /\ \A t \in Kind(2, TRUE, VarDigits) : t.de # de
      /\ \A t \in Kind(4, FALSE, LongVarText) : t.de # de
  BY KindLacks, Zenon
<1> HIDE DEF kind
<1>2. kind \subseteq Catalogue /\ \A t \in Catalogue : t.de = de => t \in kind
  BY <1>1, Zenon DEF Catalogue, kind
<1> QED
  BY <1>2, OneEntry, Zenon DEF kind

\* The elements of the gateway's and of the switch's messages.
LEMMA EntriesUsed ==
    /\ \A de \in {22, 49, 70} : Specified(de, 0, 3, TRUE)
    /\ \A de \in {3, 11} : Specified(de, 0, 6, TRUE)
    /\ Specified(4, 0, 12, TRUE)
    /\ Specified(53, 0, 16, TRUE)
    /\ Specified(90, 0, 42, TRUE)
    /\ Specified(37, 0, 12, FALSE)
    /\ Specified(38, 0, 6, FALSE)
    /\ Specified(39, 0, 2, FALSE)
    /\ Specified(52, 0, 8, FALSE)
    /\ Specified(2, 2, 19, TRUE)
    /\ Specified(103, 2, 28, FALSE)
<1>1. \A de \in {22, 49, 70} : Specified(de, 0, 3, TRUE)
  <2> SUFFICES ASSUME NEW de \in {22, 49, 70}
               PROVE  Specified(de, 0, 3, TRUE)
    OBVIOUS
  <2>1. Holds(FixedDigits, de, 3) /\ Only(FixedDigits, de, 3)
    BY ClassesOfFixedDigits
  <2>2. Lacks(FixedText, de)
    BY ClassesOfFixedText
  <2>3. Lacks(VarDigits, de) /\ Lacks(VarText, de) /\ Lacks(LongVarText, de)
    BY ClassesOfTheRest
  <2> QED
    BY <2>1, <2>2, <2>3, FixedDigitsEntry
<1>2. \A de \in {3, 11} : Specified(de, 0, 6, TRUE)
  <2> SUFFICES ASSUME NEW de \in {3, 11}
               PROVE  Specified(de, 0, 6, TRUE)
    OBVIOUS
  <2>1. Holds(FixedDigits, de, 6) /\ Only(FixedDigits, de, 6)
    BY ClassesOfFixedDigits
  <2>2. Lacks(FixedText, de)
    BY ClassesOfFixedText
  <2>3. Lacks(VarDigits, de) /\ Lacks(VarText, de) /\ Lacks(LongVarText, de)
    BY ClassesOfTheRest
  <2> QED
    BY <2>1, <2>2, <2>3, FixedDigitsEntry
<1>3. \A de \in {4, 53, 90} : /\ Lacks(FixedText, de) /\ Lacks(VarDigits, de)
                              /\ Lacks(VarText, de) /\ Lacks(LongVarText, de)
  BY ClassesOfFixedText, ClassesOfTheRest
<1>4. Specified(4, 0, 12, TRUE)
  <2>1. Holds(FixedDigits, 4, 12) /\ Only(FixedDigits, 4, 12)
    BY ClassesOfFixedDigits, Zenon
  <2> QED
    BY <1>3, <2>1, FixedDigitsEntry
<1>5. Specified(53, 0, 16, TRUE)
  <2>1. Holds(FixedDigits, 53, 16) /\ Only(FixedDigits, 53, 16)
    BY ClassesOfFixedDigits, Zenon
  <2> QED
    BY <1>3, <2>1, FixedDigitsEntry
<1>6. Specified(90, 0, 42, TRUE)
  <2>1. Holds(FixedDigits, 90, 42) /\ Only(FixedDigits, 90, 42)
    BY ClassesOfFixedDigits, Zenon
  <2> QED
    BY <1>3, <2>1, FixedDigitsEntry
<1>7. \A de \in {37, 38, 39, 52} : /\ Lacks(FixedDigits, de) /\ Lacks(VarDigits, de)
                                   /\ Lacks(VarText, de) /\ Lacks(LongVarText, de)
  BY ClassesOfFixedDigits, ClassesOfTheRest
<1>8. /\ Specified(37, 0, 12, FALSE)
      /\ Specified(38, 0, 6, FALSE)
      /\ Specified(39, 0, 2, FALSE)
      /\ Specified(52, 0, 8, FALSE)
  <2>1. /\ Holds(FixedText, 37, 12) /\ Only(FixedText, 37, 12)
        /\ Holds(FixedText, 38, 6) /\ Only(FixedText, 38, 6)
        /\ Holds(FixedText, 39, 2) /\ Only(FixedText, 39, 2)
        /\ Holds(FixedText, 52, 8) /\ Only(FixedText, 52, 8)
    BY ClassesOfFixedText, Zenon
  <2> QED
    BY <1>7, <2>1, FixedTextEntry
<1>9. Specified(2, 2, 19, TRUE)
  <2>1. /\ Holds(VarDigits, 2, 19) /\ Only(VarDigits, 2, 19)
        /\ Lacks(FixedDigits, 2) /\ Lacks(FixedText, 2) /\ Lacks(VarText, 2)
        /\ Lacks(LongVarText, 2)
    BY ClassesOfFixedDigits, ClassesOfFixedText, ClassesOfTheRest
  <2> QED
    BY <2>1, VarDigitsEntry
<1>10. Specified(103, 2, 28, FALSE)
  <2>1. /\ Holds(VarText, 103, 28) /\ Only(VarText, 103, 28)
        /\ Lacks(FixedDigits, 103) /\ Lacks(FixedText, 103) /\ Lacks(VarDigits, 103)
        /\ Lacks(LongVarText, 103)
    BY ClassesOfFixedDigits, ClassesOfFixedText, ClassesOfTheRest
  <2> QED
    BY <2>1, VarTextEntry
<1> QED
  BY <1>1, <1>2, <1>4, <1>5, <1>6, <1>8, <1>9, <1>10

\* Of two elements, the second may be the first.
LEMMA TwoFields ==
    ASSUME NEW a \in DataElement, NEW x, Legal(a, x),
           NEW b \in DataElement, NEW y, Legal(b, y)
    PROVE  Fields(Field(a, x) ++ Field(b, y))
<1> DEFINE f == Field(a, x) ++ Field(b, y)
<1>1. /\ DOMAIN f = {a, b}
      /\ \A de \in {a, b} : f[de] = IF de = a THEN x ELSE y
  BY DEF Field, ++
<1> HIDE DEF f
<1>2. \A de \in {a, b} : Legal(de, f[de])
  BY <1>1
<1> QED
  BY <1>1, <1>2 DEF Fields, f

\* ElementsReadBack: any data element of the catalogue, at the lengths where
\* padding, fillers, prefixes and stripping differ, is read back as build_message
\* wrote it, and so is the element that follows it (parser.py).
THEOREM ElementsAreReadBack == Spec => []ElementsReadBack
<1>1. EveryElementReadsBack
  <2> DEFINE mti == <<0, 2, 0, 0>>
  <2>1. mti \in [1..4 -> 0..9]
    OBVIOUS
  <2>2. 4 \in DataElement /\ 39 \in DataElement
    BY EntriesUsed DEF Specified
  <2>3. 66 \in DataElement /\ 128 \in DataElement
    <3> DEFINE s == Entry(66, 0, 1, TRUE)
               t == Entry(128, 0, 8, FALSE)
    <3>1. s \in Kind(0, TRUE, FixedDigits)
      BY ClassesOfFixedDigits, KindHolds, Zenon
    <3>2. t \in Kind(0, FALSE, FixedText)
      BY ClassesOfFixedText, KindHolds, Zenon
    <3>3. s.de = 66 /\ t.de = 128
      BY DEF Entry
    <3> HIDE DEF s, t
    <3>4. s \in Catalogue /\ t \in Catalogue
      BY <3>1, <3>2, Zenon DEF Catalogue
    <3>5. s.de \in DataElement /\ t.de \in DataElement
      BY <3>4, InCatalogue, Zenon
    <3> QED
      BY <3>3, <3>5
  <2> HIDE DEF mti
  <2>4. ASSUME NEW de \in DataElement, NEW follower \in {4, 39, 66, 128},
               NEW value \in Values(de)
        PROVE  LET fields == Field(de, value) ++ Field(follower, Plain(follower))
               IN  parse_message(build_message(mti, fields)) = Parsed(mti, fields)
    <3> DEFINE fields == Field(de, value) ++ Field(follower, Plain(follower))
    <3>1. follower \in DataElement
      BY <2>2, <2>3
    <3>2. Legal(de, value) /\ Legal(follower, Plain(follower))
      BY <3>1, ValuesAreLegal, PlainIsLegal, Zenon
    <3>3. Fields(fields)
      BY <3>1, <3>2, TwoFields, Zenon
    <3> HIDE DEF fields
    <3>4. parse_message(build_message(mti, fields)) = Parsed(mti, fields)
      BY <2>1, <3>3, MessagesComeBack, Zenon
    <3> QED
      BY <3>4 DEF fields
  <2> QED
    BY <2>4, Zenon DEF EveryElementReadsBack, mti
<1>2. ElementsReadBack
  BY <1>1 DEF ElementsReadBack
<1> QED
  BY <1>2, PTL

-----------------------------------------------------------------------------
(* The PIN block.                                                          *)

Nibble == 0..15

LEMMA XorOfBytes ==
    ASSUME NEW x \in Byte, NEW y \in Byte
    PROVE  /\ Xor(x, y) \in Byte
           /\ \A k \in 1..8 : Bit(Xor(x, y), k) = (Bit(x, k) + Bit(y, k)) % 2
           /\ Xor(Xor(x, y), y) = x
<1> DEFINE bits == [k \in 1..8 |-> (Bit(x, k) + Bit(y, k)) % 2]
<1>1. \A k \in 1..8 : Bit(x, k) \in {0, 1} /\ Bit(y, k) \in {0, 1}
  BY ByteOfBits, Zenon
<1>2. bits \in [1..8 -> {0, 1}]
  <2>1. \A k \in 1..8 : (Bit(x, k) + Bit(y, k)) % 2 \in {0, 1}
    BY <1>1
  <2> QED
    BY <2>1
<1>3. Xor(x, y) = FromBits(bits)
  BY DEF Xor
<1>4. \A k \in 1..8 : bits[k] = (Bit(x, k) + Bit(y, k)) % 2
  OBVIOUS
<1> HIDE DEF bits
<1>5. FromBits(bits) \in Byte /\ \A k \in 1..8 : Bit(FromBits(bits), k) = bits[k]
  BY <1>2, BitsComeBack, Zenon
<1>6. \A k \in 1..8 : Bit(Xor(x, y), k) = (Bit(x, k) + Bit(y, k)) % 2
  BY <1>3, <1>4, <1>5, Zenon
<1>7. \A k \in 1..8 : (Bit(Xor(x, y), k) + Bit(y, k)) % 2 = Bit(x, k)
  BY <1>1, <1>6
<1>8. Xor(Xor(x, y), y) = FromBits([k \in 1..8 |-> Bit(x, k)])
  <2>1. [k \in 1..8 |-> (Bit(Xor(x, y), k) + Bit(y, k)) % 2] = [k \in 1..8 |-> Bit(x, k)]
    BY <1>7
  <2> QED
    BY <2>1, Zenon DEF Xor
<1> QED
  BY <1>3, <1>5, <1>6, <1>8, ByteOfBits

LEMMA NibblesAreBytes == Nibble \subseteq Byte
BY DEF Nibble, Byte

LEMMA XorOfNibbles ==
    ASSUME NEW x \in Nibble, NEW y \in Nibble
    PROVE  Xor(x, y) \in Nibble
<1> DEFINE bit == [k \in 1..8 |-> Bit(Xor(x, y), k)]
           xor == Xor(x, y)
<1>1. x \in Byte /\ y \in Byte
  BY NibblesAreBytes
<1>2. xor \in Byte /\ \A k \in 1..8 : Bit(xor, k) = (Bit(x, k) + Bit(y, k)) % 2
  BY <1>1, XorOfBytes
<1>3. FromBits(bit) = xor /\ \A k \in 1..8 : Bit(xor, k) \in {0, 1}
  BY <1>2, ByteOfBits
<1>4. \A z \in Nibble : Bit(z, 1) = 0 /\ Bit(z, 2) = 0 /\ Bit(z, 3) = 0 /\ Bit(z, 4) = 0
  <2>1. Weight[1] = 128 /\ Weight[2] = 64 /\ Weight[3] = 32 /\ Weight[4] = 16
    BY DEF Weight
  <2> QED
    BY <2>1 DEF Bit, Nibble
<1>5. /\ bit[1] = Bit(xor, 1) /\ bit[2] = Bit(xor, 2) /\ bit[3] = Bit(xor, 3)
      /\ bit[4] = Bit(xor, 4) /\ bit[5] = Bit(xor, 5) /\ bit[6] = Bit(xor, 6)
      /\ bit[7] = Bit(xor, 7) /\ bit[8] = Bit(xor, 8)
  OBVIOUS
<1> HIDE DEF bit, xor
<1>6. bit[1] = 0 /\ bit[2] = 0 /\ bit[3] = 0 /\ bit[4] = 0
  BY <1>2, <1>4, <1>5
<1>7. bit[5] \in {0, 1} /\ bit[6] \in {0, 1} /\ bit[7] \in {0, 1} /\ bit[8] \in {0, 1}
  BY <1>3, <1>5
<1>8. FromBits(bit) \in Nibble
  BY <1>6, <1>7 DEF FromBits, Nibble
<1> QED
  BY <1>3, <1>8 DEF xor

\* XorEach by the same key, twice.
LEMMA XorEachTwice ==
    ASSUME NEW S \in {Byte, Nibble}, NEW a \in Seq(S), NEW b \in Seq(S), Len(a) = Len(b)
    PROVE  /\ XorEach(a, b) \in Seq(S) /\ Len(XorEach(a, b)) = Len(a)
           /\ XorEach(XorEach(a, b), b) = a
<1> DEFINE n == Len(a)
           once == XorEach(a, b)
           twice == XorEach(once, b)
<1>1. n \in Nat /\ DOMAIN a = 1..n /\ \A i \in 1..n : a[i] \in S /\ b[i] \in S
  OBVIOUS
<1>2. \A x, y \in S : Xor(x, y) \in S /\ Xor(Xor(x, y), y) = x
  BY NibblesAreBytes, XorOfBytes, XorOfNibbles
<1>3. once = [i \in 1..n |-> Xor(a[i], b[i])]
  BY <1>1 DEF XorEach
<1> HIDE DEF n, once
<1>4. once \in [1..n -> S]
  BY <1>1, <1>2, <1>3
<1>5. once \in Seq(S) /\ Len(once) = n
  BY <1>1, <1>4, FromFunction, Zenon
<1>6. twice = [i \in 1..n |-> Xor(once[i], b[i])]
  BY <1>4 DEF XorEach
<1>7. \A i \in 1..n : Xor(once[i], b[i]) = a[i]
  BY <1>1, <1>2, <1>3
<1>8. twice = [i \in 1..n |-> a[i]]
  BY <1>6, <1>7
<1>9. a = [i \in 1..n |-> a[i]]
  BY DEF n
<1> QED
  BY <1>5, <1>8, <1>9 DEF n, once

\* What a piece of a sequence, and two sequences in a row, look like.
IsCut(S, r, s, i, j) ==
    /\ r \in Seq(S) /\ Len(r) = j - i + 1
    /\ \A k \in 1..(j - i + 1) : r[k] = s[i + k - 1]
IsJoined(S, r, s, t) ==
    /\ r \in Seq(S) /\ Len(r) = Len(s) + Len(t)
    /\ \A i \in 1..Len(s) : r[i] = s[i]
    /\ \A i \in 1..Len(t) : r[Len(s) + i] = t[i]

LEMMA Cut ==
    ASSUME NEW S, NEW s \in Seq(S), NEW i \in Nat \ {0}, NEW j \in Nat,
           i <= j + 1, j <= Len(s)
    PROVE  IsCut(S, SubSeq(s, i, j), s, i, j)
BY SMT DEF IsCut

LEMMA Joined ==
    ASSUME NEW S, NEW s \in Seq(S), NEW t \in Seq(S)
    PROVE  IsJoined(S, s \o t, s, t)
BY SMT DEF IsJoined

LEMMA Replicated ==
    ASSUME NEW S, NEW x \in S, NEW n \in Nat
    PROVE  Replicate(x, n) \in Seq(S) /\ Len(Replicate(x, n)) = n
<1> DEFINE all == Replicate(x, n)
<1>1. all \in [1..n -> S]
  BY DEF Replicate
<1> HIDE DEF all
<1> QED
  BY <1>1, FromFunction, Zenon DEF all

LEMMA DigitsAreNibble ==
    ASSUME NEW s \in Seq(0..9)
    PROVE  s \in Seq(Nibble)
BY DigitsAreNibbles DEF Nibble

\* A PIN and a card that the HSM takes.
Pin(pin) == pin \in Seq(0..9) /\ 4 <= Len(pin) /\ Len(pin) <= 12
Card(pan) == pan \in Seq(0..9) /\ 12 <= Len(pan) /\ Len(pan) <= 19

LEMMA PinField ==
    ASSUME NEW pin, Pin(pin)
    PROVE  /\ build_pin_field(pin) \in Seq(Nibble) /\ Len(build_pin_field(pin)) = 16
           /\ build_pin_field(pin)[2] = Len(pin)
           /\ SubSeq(build_pin_field(pin), 3, 2 + Len(pin)) = pin
<1> DEFINE n == Len(pin)
           head == <<0, n>>
           start == head \o pin
           rest == Replicate(F, 14 - n)
           field == build_pin_field(pin)
           read == SubSeq(field, 3, 2 + n)
<1>0. pin \in Seq(Nibble)
  BY DigitsAreNibble DEF Pin
<1>1. n \in Nat /\ 4 <= n /\ n <= 12
  BY <1>0, Elements, Zenon DEF Pin
<1>a. build_pin_field(pin) = (<<0, n>> \o pin) \o rest
  BY Zenon DEF build_pin_field
<1> HIDE DEF n
<1>2. head \in Seq(Nibble) /\ Len(head) = 2 /\ head[2] = n
  BY <1>1 DEF Nibble
<1>3. rest \in Seq(Nibble) /\ Len(rest) = 14 - n
  <2>1. 14 - n \in Nat /\ F \in Nibble
    BY <1>1 DEF F, Nibble
  <2> QED
    BY <2>1, Replicated, Zenon
<1>4. field = start \o rest
  BY <1>a
<1> HIDE DEF head, rest, field
<1>5. /\ start \in Seq(Nibble) /\ Len(start) = 2 + n /\ start[2] = n
      /\ \A i \in 1..n : start[2 + i] = pin[i]
  <2>1. IsJoined(Nibble, start, head, pin)
    BY <1>0, <1>2, Joined, Zenon
  <2> HIDE DEF start
  <2> QED
    BY <1>2, <2>1 DEF n, IsJoined
<1> HIDE DEF start
<1>6. /\ field \in Seq(Nibble) /\ Len(field) = 16
      /\ \A i \in 1..(2 + n) : field[i] = start[i]
  <2>1. IsJoined(Nibble, start \o rest, start, rest)
    BY <1>3, <1>5, Joined, Zenon
  <2> QED
    BY <1>1, <1>3, <1>4, <1>5, <2>1 DEF IsJoined
<1>7. read \in Seq(Nibble) /\ Len(read) = n /\ \A i \in 1..n : read[i] = field[2 + i]
  <2> DEFINE i == 3
             j == 2 + n
             cut == SubSeq(field, i, j)
  <2>1. i \in Nat \ {0} /\ j \in Nat /\ i <= j + 1 /\ j <= Len(field)
        /\ j - i + 1 = n /\ \A k \in 1..n : i + k - 1 = 2 + k
    BY <1>1, <1>6
  <2>2. read = cut
    OBVIOUS
  <2> HIDE DEF i, j
  <2>3. IsCut(Nibble, cut, field, i, j)
    BY <1>6, <2>1, Cut, Zenon
  <2> HIDE DEF read, cut
  <2> QED
    BY <2>1, <2>2, <2>3 DEF IsCut
<1> HIDE DEF read
<1>8. \A i \in 1..n : read[i] = pin[i]
  <2> SUFFICES ASSUME NEW i \in 1..n
               PROVE  read[i] = pin[i]
    OBVIOUS
  <2>1. 2 + i \in 1..(2 + n)
    BY <1>1
  <2> QED
    BY <1>5, <1>6, <1>7, <2>1
<1>9. read = pin
  BY <1>0, <1>7, <1>8, SeqEqual DEF n
<1>10. field[2] = n
  BY <1>1, <1>5, <1>6
<1> QED
  BY <1>6, <1>9, <1>10 DEF field, n, read

LEMMA PanField ==
    ASSUME NEW pan, Card(pan)
    PROVE  build_pan_field(pan) \in Seq(Nibble) /\ Len(build_pan_field(pan)) = 16
<1> DEFINE n == Len(pan)
           k == LeastOf(12, n - 1)
           s == SubSeq(pan, 1, n - 1)
           digits == SubSeq(s, Len(s) - k + 1, Len(s))
           zeros == Replicate(0, 16 - Len(digits))
<1>0. pan \in Seq(Nibble)
  BY DigitsAreNibble DEF Card
<1>1. n \in Nat /\ 12 <= n /\ n <= 19
  BY <1>0, Elements, Zenon DEF Card
<1>4. build_pan_field(pan) = zeros \o digits
  BY Zenon DEF build_pan_field, Ending
<1> HIDE DEF n
<1>2. k \in 1..12 /\ k <= n - 1
  BY <1>1 DEF LeastOf
<1>3. s \in Seq(Nibble) /\ Len(s) = n - 1
  <2>1. 1 \in Nat \ {0} /\ n - 1 \in Nat /\ 1 <= (n - 1) + 1 /\ n - 1 <= Len(pan)
    BY <1>1 DEF n
  <2>2. IsCut(Nibble, s, pan, 1, n - 1)
    BY <1>0, <2>1, Cut, Zenon
  <2> HIDE DEF s
  <2> QED
    BY <1>1, <2>2 DEF IsCut
<1> HIDE DEF k, s
<1>5. digits \in Seq(Nibble) /\ Len(digits) = k
  <2> DEFINE i == Len(s) - k + 1
             j == Len(s)
             cut == SubSeq(s, i, j)
  <2>1. i \in Nat \ {0} /\ j \in Nat /\ i <= j + 1 /\ j - i + 1 = k /\ j <= Len(s)
    BY <1>1, <1>2, <1>3
  <2>2. digits = cut
    OBVIOUS
  <2> HIDE DEF i
  <2>3. IsCut(Nibble, cut, s, i, j)
    BY <1>3, <2>1, Cut, Zenon
  <2> HIDE DEF cut
  <2> QED
    BY <2>1, <2>2, <2>3 DEF IsCut
<1> HIDE DEF digits
<1>6. zeros \in Seq(Nibble) /\ Len(zeros) = 16 - k
  <2>1. 16 - k \in Nat /\ 0 \in Nibble
    BY <1>2 DEF Nibble
  <2> QED
    BY <1>5, <2>1, Replicated
<1> HIDE DEF zeros
<1>7. zeros \o digits \in Seq(Nibble) /\ Len(zeros \o digits) = Len(zeros) + Len(digits)
  <2>1. IsJoined(Nibble, zeros \o digits, zeros, digits)
    BY <1>5, <1>6, Joined, Zenon
  <2> QED
    BY <2>1, Zenon DEF IsJoined
<1>8. Len(zeros) + Len(digits) = 16
  BY <1>2, <1>5, <1>6
<1> QED
  BY <1>4, <1>7, <1>8

LEMMA HashIsNat ==
    ASSUME NEW seed \in Nat, NEW ksn \in Seq(Nat)
    PROVE  Hash(seed, ksn) \in Nat
<1> DEFINE n == Len(ksn)
           Body(f, i) == IF i = 0 THEN seed ELSE ((7 * f[i - 1]) + ksn[i]) % 256
           base == [i \in {0} |-> seed]
           prev == [i \in 0..n |-> i - 1]
           step == [i \in 0..n |-> [x \in Nat |-> ((7 * x) + ksn[i]) % 256]]
           loop == CHOOSE f : f = [i \in 0..n |-> Body(f, i)]
<1>0. n \in Nat
  OBVIOUS
<1>1. \A i \in 1..n : ksn[i] \in Nat
  OBVIOUS
<1>2. Grounded(n, Nat, {0}, base, prev, step)
  <2>1. ASSUME NEW i \in (0..n) \ {0}
        PROVE  prev[i] \in Nat /\ prev[i] < i /\ step[i] \in [Nat -> Nat]
    <3>1. i \in 1..n /\ ksn[i] \in Nat
      BY <1>1
    <3>2. \A x \in Nat : ((7 * x) + ksn[i]) % 256 \in Nat
      BY <3>1
    <3> QED
      BY <3>1, <3>2
  <2> HIDE DEF prev, step
  <2> QED
    BY <2>1 DEF Grounded
<1>3. PICK g : g \in [0..n -> Nat] /\ Recurs(g, n, {0}, base, prev, step)
  <2> HIDE DEF n, base, prev, step
  <2> QED
    BY <1>0, <1>2, RecursionExists
<1>4. g = [i \in 0..n |-> Body(g, i)]
  <2>1. ASSUME NEW i \in 0..n
        PROVE  g[i] = Body(g, i)
    <3>1. CASE i = 0
      BY <1>3, <3>1 DEF Recurs
    <3>2. CASE i # 0
      <4>1. i - 1 \in 0..n /\ g[i - 1] \in Nat
        <5>1. i - 1 \in 0..n
          BY <1>0, <3>2
        <5> HIDE DEF n
        <5> QED
          BY <1>3, <5>1
      <4>2. g[i] = step[i][g[i - 1]]
        BY <1>3, <3>2 DEF Recurs
      <4> QED
        BY <3>2, <4>1, <4>2
    <3> QED
      BY <3>1, <3>2
  <2> QED
    BY <1>3, <2>1
<1>5. loop = [i \in 0..n |-> Body(loop, i)]
  BY <1>4
<1>6. Hash(seed, ksn) = loop[n]
  BY DEF Hash
<1> HIDE DEF loop
<1>7. \A i \in 0..n : loop[i] = Body(loop, i)
  BY <1>5
<1>8. ASSUME NEW i \in 0..n
      PROVE  loop[i] \in Nat
  <2> DEFINE Bad == {k \in 0..n : loop[k] \notin Nat}
  <2> SUFFICES ASSUME Bad # {} PROVE FALSE
    OBVIOUS
  <2>0. Bad \in SUBSET Nat
    OBVIOUS
  <2>1. PICK k \in Bad : \A j \in Bad : k <= j
    BY <2>0, LeastExists, Zenon
  <2>2. k \in 0..n /\ loop[k] \notin Nat /\ k # 0
    BY <1>7, <2>1
  <2>3. k - 1 \in 0..n /\ ~ (k <= k - 1) /\ k \in 1..n
    BY <1>0, <2>2
  <2>4. loop[k - 1] \in Nat
    BY <2>1, <2>3, Zenon
  <2>5. loop[k] = ((7 * loop[k - 1]) + ksn[k]) % 256
    BY <1>7, <2>2
  <2> QED
    BY <1>1, <2>2, <2>3, <2>4, <2>5, SMTT(40)
<1> QED
  BY <1>0, <1>6, <1>8

LEMMA KeyOfBytes ==
    ASSUME NEW ksn \in Seq(Nat)
    PROVE  TransactionKey(ksn) \in Seq(Byte) /\ Len(TransactionKey(ksn)) = 8
<1> DEFINE key == TransactionKey(ksn)
           n == Len(ksn)
<1>1. n \in Nat
  OBVIOUS
<1>2. \A i \in 1..8 : Hash(i, ksn) \in Nat
  BY HashIsNat
<1> HIDE DEF n
<1>3. \A i \in 1..8 : ((31 * n) + (29 * i) + Hash(i, ksn)) % 256 \in Byte
  <2> SUFFICES ASSUME NEW i \in 1..8
               PROVE  ((31 * n) + (29 * i) + Hash(i, ksn)) % 256 \in Byte
    OBVIOUS
  <2> DEFINE sum == (31 * n) + (29 * i) + Hash(i, ksn)
  <2>1. sum \in Nat
    <3>1. i \in Nat /\ Hash(i, ksn) \in Nat
      BY <1>2, SMTT(40)
    <3> QED
      BY <1>1, <3>1
  <2> HIDE DEF sum
  <2>2. sum % 256 \in Byte
    BY <2>1 DEF Byte
  <2> QED
    BY <2>2 DEF sum
<1>4. key = [i \in 1..8 |-> ((31 * n) + (29 * i) + Hash(i, ksn)) % 256]
  BY DEF TransactionKey, n
<1> HIDE DEF key
<1>5. key \in [1..8 -> Byte] /\ 8 \in Nat
  BY <1>3, <1>4
<1> QED
  BY <1>5, FromFunction, Zenon DEF key

\* The bytes of an even number of nibbles.
LEMMA NibblesOfBytes ==
    ASSUME NEW s \in Seq(Nibble), NEW k \in Nat, Len(s) = 2 * k
    PROVE  Bytes(s) \in Seq(Byte) /\ Len(Bytes(s)) = k /\ Nibbles(Bytes(s)) = s
<1>0. s \in Seq(0..15)
  BY Zenon DEF Nibble
<1>1. Len(bcd_encode(s)) = bcd_byte_len(Len(s)) /\ bcd_encode(s) \in Seq(Byte)
  BY <1>0, Encoded
<1>2. bcd_byte_len(2 * k) = k
  BY DEF bcd_byte_len
<1>3. bcd_decode(bcd_encode(s), Len(s)) = s
  BY <1>0, DigitsComeBack
<1> QED
  BY <1>1, <1>2, <1>3, Zenon DEF Bytes, Nibbles

\* The PIN of a block, whoever has the key: decrypted, and read under the card
\* it was made for.
LEMMA PinComesBack ==
    ASSUME NEW pin, Pin(pin), NEW pan, Card(pan), NEW ksn \in Seq(Nat)
    PROVE  LET block == encrypt_pin_block(ksn, pin, pan) IN
           /\ block \in Seq(Byte) /\ Len(block) = 8
           /\ recover_pin(decrypt_pin_block(ksn, block), pan) = pin
<1> DEFINE a == build_pin_field(pin)
           b == build_pan_field(pan)
           ab == XorEach(a, b)
           plain == build_iso0_pin_block(pin, pan)
           key == TransactionKey(ksn)
           block == encrypt_pin_block(ksn, pin, pan)
<1>1. /\ a \in Seq(Nibble) /\ Len(a) = 16 /\ a[2] = Len(pin)
      /\ SubSeq(a, 3, 2 + Len(pin)) = pin
  BY PinField, Zenon
<1>2. b \in Seq(Nibble) /\ Len(b) = 16
  BY PanField, Zenon
<1>3. key \in Seq(Byte) /\ Len(key) = 8
  BY KeyOfBytes, Zenon
<1>4. plain = Bytes(ab)
  BY DEF build_iso0_pin_block
<1>5. block = XorEach(plain, key)
  BY DEF encrypt_pin_block
<1> HIDE DEF a, b, key, plain, block
<1>6. ab \in Seq(Nibble) /\ Len(ab) = 16 /\ XorEach(ab, b) = a
  <2>1. Len(a) = Len(b) /\ Nibble \in {Byte, Nibble}
    BY <1>1, <1>2
  <2>2. ab \in Seq(Nibble) /\ Len(ab) = Len(a) /\ XorEach(ab, b) = a
    BY <1>1, <1>2, <2>1, XorEachTwice, Zenon
  <2> QED
    BY <1>1, <2>2, Zenon
<1> HIDE DEF ab
<1>7. plain \in Seq(Byte) /\ Len(plain) = 8 /\ Nibbles(plain) = ab
  <2>1. Len(ab) = 2 * 8 /\ 8 \in Nat
    BY <1>6
  <2> QED
    BY <1>4, <1>6, <2>1, NibblesOfBytes
<1>8. block \in Seq(Byte) /\ Len(block) = 8 /\ XorEach(block, key) = plain
  <2>1. Len(plain) = Len(key) /\ Byte \in {Byte, Nibble}
    BY <1>3, <1>7
  <2>2. XorEach(plain, key) \in Seq(Byte) /\ Len(XorEach(plain, key)) = Len(plain)
        /\ XorEach(XorEach(plain, key), key) = plain
    BY <1>3, <1>7, <2>1, XorEachTwice, Zenon
  <2> QED
    BY <1>5, <1>7, <2>2, Zenon
<1>9. decrypt_pin_block(ksn, block) = plain
  BY <1>8, Zenon DEF decrypt_pin_block, key
<1>10. XorEach(Nibbles(plain), b) = a
  BY <1>6, <1>7
<1>11. recover_pin(plain, pan) = SubSeq(a, 3, 2 + a[2])
  BY <1>10, Zenon DEF recover_pin, b
<1>12. recover_pin(decrypt_pin_block(ksn, block), pan) = pin
  BY <1>1, <1>9, <1>11
<1> QED
  BY <1>8, <1>12 DEF block

LEMMA BytesOfNibbles ==
    ASSUME NEW s \in Seq(Byte)
    PROVE  /\ Nibbles(s) \in [1..(2 * Len(s)) -> Nibble]
           /\ Bytes(Nibbles(s)) = s
<1> DEFINE n == Len(s)
           all == [i \in 1..(2 * n) |-> IF i % 2 = 1 THEN s[(i + 1) \div 2] \div 16
                                                     ELSE s[i \div 2] % 16]
<1>1. n \in Nat /\ \A i \in 1..n : s[i] \in Byte
  BY Elements
<1>2. Nibbles(s) = Slice(all, 0, 2 * n)
  BY DEF Nibbles, bcd_decode
<1>3. s = [i \in 1..n |-> s[i]]
  OBVIOUS
<1> HIDE DEF n
<1>a. \A x \in Byte : x \div 16 \in Nibble /\ x % 16 \in Nibble
  BY DEF Byte, Nibble
<1>4. ASSUME NEW i \in 1..(2 * n)
      PROVE  all[i] \in Nibble
  <2>1. CASE i % 2 = 1
    <3>1. (i + 1) \div 2 \in 1..n
      BY <1>1, <2>1
    <3>2. s[(i + 1) \div 2] \in Byte /\ all[i] = s[(i + 1) \div 2] \div 16
      BY <1>1, <2>1, <3>1
    <3> QED
      BY <1>a, <3>2
  <2>2. CASE i % 2 # 1
    <3>1. i \div 2 \in 1..n
      BY <1>1, <2>2
    <3>2. s[i \div 2] \in Byte /\ all[i] = s[i \div 2] % 16
      BY <1>1, <2>2, <3>1
    <3> QED
      BY <1>a, <3>2
  <2> QED
    BY <2>1, <2>2
<1>5. all \in [1..(2 * n) -> Nibble]
  BY <1>4
<1>6. \A i \in 1..n : all[2 * i - 1] = s[i] \div 16 /\ all[2 * i] = s[i] % 16
  <2> SUFFICES ASSUME NEW i \in 1..n
               PROVE  all[2 * i - 1] = s[i] \div 16 /\ all[2 * i] = s[i] % 16
    OBVIOUS
  <2>1. /\ 2 * i - 1 \in 1..(2 * n) /\ (2 * i - 1) % 2 = 1 /\ ((2 * i - 1) + 1) \div 2 = i
        /\ 2 * i \in 1..(2 * n) /\ (2 * i) % 2 = 0 /\ (2 * i) \div 2 = i
    BY <1>1
  <2> QED
    BY <2>1
<1> HIDE DEF all
<1>7. all \in Seq(Nibble) /\ Len(all) = 2 * n
  <2>1. 2 * n \in Nat
    BY <1>1
  <2> QED
    BY <1>5, <2>1, FromFunction, Zenon
<1>8. Nibbles(s) = all
  <2>1. all \in Seq(Nat)
    BY <1>7, NibblesAreBytes, BytesAreNat
  <2> DEFINE cut == Slice(all, 0, 2 * n)
  <2>2. 0 \in Nat /\ 2 * n \in Nat /\ 0 + 2 * n <= Len(all) /\ \A i \in 1..(2 * n) : 0 + i = i
    BY <1>1, <1>7
  <2>3. /\ cut \in Seq(Nat) /\ Len(cut) = 2 * n
        /\ \A i \in 1..(2 * n) : cut[i] = all[0 + i]
    BY <2>1, <2>2, SliceLength
  <2> HIDE DEF cut
  <2>4. \A i \in 1..(2 * n) : cut[i] = all[i]
    BY <2>2, <2>3
  <2>5. cut = all
    BY <1>7, <2>1, <2>3, <2>4, SeqEqual
  <2> QED
    BY <1>2, <2>5 DEF cut
<1>9. bcd_encode(all) = [i \in 1..n |-> (16 * all[2 * i - 1]) + all[2 * i]]
  <2>1. Len(all) % 2 # 1 /\ Len(all) \div 2 = n
    BY <1>1, <1>7
  <2> QED
    BY <2>1 DEF bcd_encode
<1>10. \A i \in 1..n : (16 * all[2 * i - 1]) + all[2 * i] = s[i]
  <2>1. \A x \in Byte : (16 * (x \div 16)) + (x % 16) = x
    BY DEF Byte
  <2> QED
    BY <1>1, <1>6, <2>1
<1>11. Bytes(all) = s
  BY <1>3, <1>9, <1>10 DEF Bytes
<1> QED
  BY <1>5, <1>8, <1>11 DEF n

\* Hex digits are read as what they were written from.
LEMMA OneHexDigit ==
    \A x \in Nibble : \A c :
        c = (IF x < 10 THEN 48 + x ELSE 87 + x) =>
            c \in HexDigits /\ (IF c < 58 THEN c - 48 ELSE c - 87) = x
BY DEF Nibble, HexDigits

LEMMA HexComesBack ==
    ASSUME NEW s \in Seq(Byte)
    PROVE  /\ Hex(s) \in Seq(HexDigits) /\ Len(Hex(s)) = 2 * Len(s)
           /\ fromhex(Hex(s)) = s
<1> DEFINE n == 2 * Len(s)
           hex == Hex(s)
           d == Nibbles(s)
           back == [i \in DOMAIN hex |-> IF hex[i] < 58 THEN hex[i] - 48 ELSE hex[i] - 87]
<1>1. n \in Nat
  OBVIOUS
<1>2. d \in [1..n -> Nibble] /\ Bytes(d) = s
  BY BytesOfNibbles
<1>3. hex = [i \in 1..n |-> IF d[i] < 10 THEN 48 + d[i] ELSE 87 + d[i]]
  BY DEF Hex
<1>4. fromhex(hex) = Bytes(back)
  BY DEF fromhex
<1> HIDE DEF n, hex, d
<1>5. ASSUME NEW i \in 1..n
      PROVE  /\ hex[i] \in HexDigits
             /\ (IF hex[i] < 58 THEN hex[i] - 48 ELSE hex[i] - 87) = d[i]
  <2>1. d[i] \in Nibble /\ hex[i] = IF d[i] < 10 THEN 48 + d[i] ELSE 87 + d[i]
    BY <1>2, <1>3
  <2> QED
    BY <2>1, OneHexDigit
<1>6. hex \in [1..n -> HexDigits]
  BY <1>3, <1>5
<1>7. hex \in Seq(HexDigits) /\ Len(hex) = n
  BY <1>1, <1>6, FromFunction, Zenon
<1>8. back = [i \in 1..n |-> d[i]]
  BY <1>5, <1>6
<1>9. d = [i \in 1..n |-> d[i]]
  BY <1>2
<1> QED
  BY <1>2, <1>4, <1>7, <1>8, <1>9 DEF hex, n

-----------------------------------------------------------------------------
(* Fields, put together.                                                   *)

LEMMA FieldsOfOne ==
    ASSUME NEW d \in DataElement, NEW x, Legal(d, x)
    PROVE  Fields(Field(d, x))
<1>1. DOMAIN Field(d, x) = {d} /\ Field(d, x)[d] = x
  BY DEF Field
<1> QED
  BY <1>1 DEF Fields

LEMMA FieldsOfPerhaps ==
    ASSUME NEW test \in BOOLEAN, NEW d, NEW x, test => d \in DataElement /\ Legal(d, x)
    PROVE  Fields(With(test, d, x))
<1>1. CASE test
  BY <1>1, FieldsOfOne, Zenon DEF With
<1>2. CASE ~test
  <2>1. DOMAIN <<>> = {}
    OBVIOUS
  <2> QED
    BY <1>2, <2>1 DEF With, Fields
<1> QED
  BY <1>1, <1>2

LEMMA FieldsOfTwo ==
    ASSUME NEW f, NEW g, Fields(f), Fields(g)
    PROVE  Fields(f ++ g)
<1> DEFINE h == f ++ g
<1>1. /\ DOMAIN h = DOMAIN f \cup DOMAIN g
      /\ \A de \in DOMAIN f \cup DOMAIN g : h[de] = IF de \in DOMAIN f THEN f[de] ELSE g[de]
  BY DEF ++
<1> HIDE DEF h
<1>2. \A de \in DOMAIN h : Legal(de, h[de])
  BY <1>1 DEF Fields
<1> QED
  BY <1>1, <1>2 DEF Fields, h

\* The value of an element: of the first fields that have it.
Has(f, d, x) == d \in DOMAIN f /\ f[d] = x

LEMMA HasOne ==
    ASSUME NEW d, NEW x
    PROVE  Has(Field(d, x), d, x) /\ DOMAIN Field(d, x) = {d}
BY DEF Has, Field

LEMMA HasPerhaps ==
    ASSUME NEW test \in BOOLEAN, NEW d, NEW x
    PROVE  /\ test => Has(With(test, d, x), d, x)
           /\ DOMAIN With(test, d, x) = IF test THEN {d} ELSE {}
BY DEF Has, Field, With

LEMMA HasFirst ==
    ASSUME NEW f, NEW g, NEW d, NEW x, Has(f, d, x)
    PROVE  Has(f ++ g, d, x)
BY DEF Has, ++

LEMMA HasSecond ==
    ASSUME NEW f, NEW g, NEW d, NEW x, Has(g, d, x), d \notin DOMAIN f
    PROVE  Has(f ++ g, d, x)
BY DEF Has, ++

LEMMA BothDomains ==
    ASSUME NEW f, NEW g
    PROVE  DOMAIN (f ++ g) = DOMAIN f \cup DOMAIN g
BY DEF ++

-----------------------------------------------------------------------------
(* What a reader sees of values that fit.                                  *)

LEMMA Stripped ==
    ASSUME NEW s \in Seq(Nat), \A i \in 1..Len(s) : s[i] \notin Whitespace
    PROVE  rstrip(s) = s
<1> DEFINE n == Len(s)
           kept == {i \in 1..Len(s) : s[i] \notin Whitespace}
<1>1. n \in Nat /\ kept = 1..n
  BY Elements
<1>2. rstrip(s) = IF kept = {} THEN <<>> ELSE SubSeq(s, 1, Max(kept))
  BY DEF rstrip
<1> HIDE DEF kept
<1>3. CASE n = 0
  BY <1>1, <1>2, <1>3
<1>4. CASE n # 0
  <2>0. SubSeq(s, 1, n) = s
    OBVIOUS
  <2> HIDE DEF n
  <2>1. n \in kept /\ kept # {}
    BY <1>1, <1>4
  <2>2. Max(kept) = n
    <3>1. \A x \in kept : n >= x
      BY <1>1
    <3>2. \A m \in kept : (\A x \in kept : m >= x) => m = n
      BY <1>1, <2>1
    <3> QED
      BY <2>1, <3>1, <3>2 DEF Max
  <2> QED
    BY <1>2, <2>0, <2>1, <2>2
<1> QED
  BY <1>3, <1>4

LEMMA NormalNumber ==
    ASSUME NEW de, NEW length, Specified(de, 0, length, TRUE),
           NEW value \in Seq(0..9), Len(value) = length
    PROVE  Legal(de, value) /\ Normal(de, value) = value
<1>1. FIELD_SPECS[de].prefix = 0 /\ FIELD_SPECS[de].length = length
      /\ FIELD_SPECS[de].numeric = TRUE
  BY DEF Specified, Entry
<1>2. length \in Nat
  OBVIOUS
<1>3. Legal(de, value)
  BY <1>1, <1>2 DEF Legal
<1>4. Replicate(0, length - Len(value)) = <<>>
  BY <1>2 DEF Replicate
<1>5. Replicate(0, length - Len(value)) \o value = value
  BY <1>4
<1> QED
  BY <1>1, <1>3, <1>5 DEF Normal

LEMMA NormalText ==
    ASSUME NEW de, NEW length \in Nat, Specified(de, 0, length, FALSE), de \notin Binary,
           NEW value \in Seq(Nat), Len(value) <= length,
           \A i \in 1..Len(value) : value[i] \notin Whitespace
    PROVE  Legal(de, value) /\ Normal(de, value) = value
<1>1. FIELD_SPECS[de].prefix = 0 /\ FIELD_SPECS[de].length = length
      /\ FIELD_SPECS[de].numeric = FALSE
  BY DEF Specified, Entry
<1>2. Legal(de, value)
  BY <1>1 DEF Legal
<1>3. Slice(value, 0, length) = value
  <2>1. LeastOf(0 + length, Len(value)) = Len(value)
    BY DEF LeastOf
  <2>2. SubSeq(value, 0 + 1, Len(value)) = value
    OBVIOUS
  <2> QED
    BY <2>1, <2>2 DEF Slice
<1>4. Normal(de, value) = rstrip(value)
  BY <1>1, <1>3 DEF Normal
<1> QED
  BY <1>2, <1>4, Stripped

LEMMA NormalBlock ==
    ASSUME NEW de, NEW length, Specified(de, 0, length, FALSE), de \in Binary,
           NEW value \in Seq(Nat), Len(value) = length
    PROVE  Legal(de, value) /\ Normal(de, value) = value
<1>1. FIELD_SPECS[de].prefix = 0 /\ FIELD_SPECS[de].length = length
      /\ FIELD_SPECS[de].numeric = FALSE
  BY DEF Specified, Entry
<1> QED
  BY <1>1 DEF Legal, Normal

LEMMA NormalVariable ==
    ASSUME NEW de, NEW length \in Nat, NEW numeric \in BOOLEAN,
           Specified(de, 2, length, numeric), NEW value, Len(value) <= length,
           IF numeric THEN value \in Seq(0..9) ELSE value \in Seq(Nat)
    PROVE  Legal(de, value) /\ Normal(de, value) = value
<1>1. FIELD_SPECS[de].prefix = 2 /\ FIELD_SPECS[de].length = length
      /\ FIELD_SPECS[de].numeric = numeric
  BY DEF Specified, Entry
<1> QED
  BY <1>1 DEF Legal, Normal

-----------------------------------------------------------------------------
(* What the switch reads of a message.                                     *)

\* The STAN that the gateway gives to the message after n others.
LEMMA NextStan ==
    ASSUME NEW n \in Counter
    PROVE  next_stan(n) \in Seq(0..9) /\ Len(next_stan(n)) = 6
<1>1. n \in Nat
  BY CounterAssumption, SMT
<1>2. (n + 1) % 1000000 \in Nat /\ (n + 1) % 1000000 < 1000000
  BY <1>1, SMT
<1>3. TenTo[6] = 1000000 /\ 6 \in 1..12
  BY SMT DEF TenTo
<1> QED
  BY <1>2, <1>3, NumbersComeBack, SMT DEF next_stan

HeardAs(heard, mti, f, n) ==
    /\ heard.mti = mti /\ DOMAIN heard.fields = DOMAIN f \cup {11}
    /\ \A d \in DOMAIN f : heard.fields[d] = Normal(d, f[d])
    /\ heard.fields[11] = next_stan(n)

LEMMA HeardFields ==
    ASSUME NEW mti \in [1..4 -> 0..9], NEW f, Fields(f), 11 \notin DOMAIN f, NEW n \in Counter
    PROVE  HeardAs(Heard(IsoMessage(mti, f), next_stan(n)), mti, f, n)
<1> DEFINE number == next_stan(n)
           g == f ++ Field(11, number)
           heard == Heard(IsoMessage(mti, f), number)
<1>1. number \in Seq(0..9) /\ Len(number) = 6
  BY NextStan
<1>2. Specified(11, 0, 6, TRUE) /\ 11 \in DataElement
  BY EntriesUsed DEF Specified
<1> HIDE DEF number
<1>3. Legal(11, number) /\ Normal(11, number) = number
  BY <1>1, <1>2, NormalNumber
<1>4. Fields(g)
  BY <1>2, <1>3, FieldsOfOne, FieldsOfTwo, Zenon
<1>5. /\ DOMAIN g = DOMAIN f \cup {11}
      /\ \A d \in DOMAIN f : g[d] = f[d]
      /\ g[11] = number
  BY DEF ++, Field
<1>6. heard = parse_message(build_message(mti, g))
  BY DEF Heard, IsoMessage
<1> HIDE DEF g
<1>7. heard = Parsed(mti, g)
  BY <1>4, <1>6, MessagesComeBack, Zenon
<1>8. heard.mti = mti /\ heard.fields = [d \in DOMAIN g |-> Normal(d, g[d])]
  BY <1>7 DEF Parsed
<1> HIDE DEF heard
<1>9. /\ DOMAIN heard.fields = DOMAIN f \cup {11}
      /\ \A d \in DOMAIN f : heard.fields[d] = Normal(d, f[d])
      /\ heard.fields[11] = number
  BY <1>3, <1>5, <1>8
<1> QED
  BY <1>8, <1>9 DEF heard, number, HeardAs

-----------------------------------------------------------------------------
(* What the adapter asks.                                                  *)

\* Printable characters, none of them a blank.
Printable == 33..126
Printed(s, longest) == /\ s \in Seq(Nat) /\ 0 < Len(s) /\ Len(s) <= longest
                       /\ \A i \in 1..Len(s) : s[i] \in Printable

\* A request of which every element fits its data element; the requests that
\* the runs try are some of these.
Request(b) ==
    /\ Card(b.card) /\ (b.pin # Absent => Pin(b.pin))
    /\ b.cents \in Nat /\ b.cents < TenTo[12]
    /\ b.processing \in Seq(0..9) /\ Len(b.processing) = 6
    /\ Printed(b.rrn, 12) /\ (b.credit # Absent => Printed(b.credit, 28))

LEMMA NotAbsent ==
    ASSUME NEW S, S \subseteq Nat, NEW s \in Seq(S)
    PROVE  s # Absent
<1>1. Absent[1] = -1 /\ Len(Absent) = 1
  BY DEF Absent
<1>2. \A i \in 1..Len(s) : s[i] \in Nat
  BY Elements
<1>3. 1 \in 1..1 /\ -1 \notin Nat
  OBVIOUS
<1> QED
  BY <1>1, <1>2, <1>3, Zenon

LEMMA PrintedFits ==
    ASSUME NEW s, NEW longest, Printed(s, longest)
    PROVE  /\ s # Absent /\ s # <<>> /\ s \in Seq(Nat)
           /\ \A i \in 1..Len(s) : s[i] \notin Whitespace /\ s[i] \notin Unfit
<1>1. \A c \in Printable : c \notin Whitespace /\ c \notin Unfit
  BY DEF Printable, Whitespace, Unfit
<1>2. s # <<>> /\ s \in Seq(Nat)
  BY DEF Printed
<1>3. s # Absent
  BY <1>2, NotAbsent
<1> QED
  BY <1>1, <1>2, <1>3 DEF Printed

LEMMA DigitsGiven ==
    ASSUME NEW s \in Seq(0..9), 0 < Len(s)
    PROVE  s # Absent /\ s # <<>>
<1>1. 0..9 \subseteq Nat
  OBVIOUS
<1> QED
  BY <1>1, NotAbsent

LEMMA CardGiven ==
    ASSUME NEW pan, Card(pan)
    PROVE  pan # Absent /\ pan # <<>> /\ pan \in Seq(0..9) /\ Len(pan) <= 19
<1>1. pan \in Seq(0..9) /\ 12 <= Len(pan) /\ Len(pan) <= 19
  BY DEF Card
<1>2. Len(pan) \in Nat
  BY <1>1, Elements
<1>3. 0 < Len(pan)
  BY <1>1, <1>2
<1> QED
  BY <1>1, <1>3, DigitsGiven

LEMMA EnvelopeHas ==
    ASSUME NEW r, NEW e, e \in DOMAIN r, r[e] # Absent
    PROVE  Has(Envelope(r), e, r[e])
BY DEF Envelope, Has

LEMMA EnvelopeLacks ==
    ASSUME NEW r, NEW e, e \in DOMAIN r => r[e] = Absent
    PROVE  e \notin DOMAIN Envelope(r)
BY DEF Envelope

LEMMA GivenHas ==
    ASSUME NEW f, NEW e, NEW x, Has(f, e, x), x # <<>>
    PROVE  Given(f, e) /\ \A y : GetOr(f, e, y) = x
BY DEF Given, GetOr, Get, Has

LEMMA GivenLacks ==
    ASSUME NEW f, NEW e, e \notin DOMAIN f
    PROVE  ~Given(f, e)
BY DEF Given, Get

LEMMA Amount ==
    ASSUME NEW cents \in Nat, cents < TenTo[12]
    PROVE  /\ Decimal(cents, 12) \in Seq(0..9) /\ Len(Decimal(cents, 12)) = 12
           /\ Number(Decimal(cents, 12)) = cents
<1>1. 12 \in 1..12
  OBVIOUS
<1> QED
  BY <1>1, NumbersComeBack

LEMMA NextKsn ==
    ASSUME NEW n \in Counter
    PROVE  next_ksn(n) \in Seq(0..9) /\ Len(next_ksn(n)) = 10
<1>1. n + 1 \in Nat /\ n + 1 < 10000000000
  BY CounterAssumption, SMT
<1>2. TenTo[10] = 10000000000 /\ 10 \in 1..12
  BY SMT DEF TenTo
<1> QED
  BY <1>1, <1>2, NumbersComeBack, SMT DEF next_ksn

\* The elements of an authorisation, and those that it does without.
Wants(f, b, n) ==
    /\ Has(f, "pan", b.card) /\ Has(f, "processingCode", b.processing)
    /\ Has(f, "amountMinor", Decimal(b.cents, 12)) /\ Has(f, "entryMode", <<0, 5>>)
    /\ Has(f, "rrn", b.rrn) /\ Has(f, "currencyCode", Currency)
    /\ IF b.pin = Absent THEN "pinBlockHex" \notin DOMAIN f /\ "ksn" \notin DOMAIN f
       ELSE /\ Has(f, "pinBlockHex",
                   Hex(encrypt_pin_block(next_ksn(n), b.pin, b.card)))
            /\ Has(f, "ksn", next_ksn(n))
    /\ IF b.credit = Absent THEN "accountId2" \notin DOMAIN f
       ELSE Has(f, "accountId2", b.credit)
    /\ {"additionalData", "responseCode", "authId"} \cap DOMAIN f = {}

LEMMA BlockIsBytes ==
    ASSUME NEW b, Request(b), b.pin # Absent, NEW n \in Counter
    PROVE  LET block == encrypt_pin_block(next_ksn(n), b.pin, b.card) IN
           /\ block \in Seq(Byte) /\ Len(block) = 8
           /\ recover_pin(decrypt_pin_block(next_ksn(n), block), b.card) = b.pin
<1>1. next_ksn(n) \in Seq(Nat)
  BY NextKsn, DigitsAreNat DEF Digit
<1>2. Pin(b.pin) /\ Card(b.card)
  BY DEF Request
<1> QED
  BY <1>1, <1>2, PinComesBack, Zenon

LEMMA AskedWants ==
    ASSUME NEW b, Request(b), NEW n \in Counter
    PROVE  Wants(Asked(b, n), b, n)
<1> DEFINE r == AuthorizeElements(b, n)
           block == encrypt_pin_block(next_ksn(n), b.pin, b.card)
           f == Asked(b, n)
<1>1. DOMAIN r = {"pan", "processingCode", "amountMinor", "entryMode", "rrn",
                  "currencyCode", "pinBlockHex", "ksn", "stan", "accountId2"}
  BY DEF AuthorizeElements
<1>2. /\ r["pan"] = b.card /\ r["processingCode"] = b.processing
      /\ r["amountMinor"] = Decimal(b.cents, 12) /\ r["entryMode"] = <<0, 5>>
      /\ r["rrn"] = b.rrn /\ r["currencyCode"] = Currency
      /\ r["pinBlockHex"] = (IF b.pin = Absent THEN Absent ELSE pin_block_hex(block))
      /\ r["ksn"] = (IF b.pin = Absent THEN Absent ELSE next_ksn(n))
      /\ r["accountId2"] = b.credit
  BY DEF AuthorizeElements
<1>3. f = Envelope(r)
  BY DEF Asked
<1> HIDE DEF r, f
<1>4. /\ Has(f, "pan", b.card) /\ Has(f, "processingCode", b.processing)
      /\ Has(f, "amountMinor", Decimal(b.cents, 12)) /\ Has(f, "entryMode", <<0, 5>>)
      /\ Has(f, "rrn", b.rrn) /\ Has(f, "currencyCode", Currency)
  <2>1. b.card # Absent /\ b.processing # Absent
    <3>1. b.processing \in Seq(0..9) /\ Len(b.processing) = 6 /\ 0 < 6
      BY DEF Request
    <3>2. b.processing # Absent
      BY <3>1, DigitsGiven, Zenon
    <3> QED
      BY <3>2, CardGiven, Zenon DEF Request
  <2>2. Decimal(b.cents, 12) # Absent
    <3>1. b.cents \in Nat /\ b.cents < TenTo[12]
      BY DEF Request
    <3>2. Decimal(b.cents, 12) \in Seq(0..9) /\ Len(Decimal(b.cents, 12)) = 12
      BY <3>1, Amount, Zenon
    <3>3. 0 < 12
      OBVIOUS
    <3> QED
      BY <3>2, <3>3, DigitsGiven, Zenon
  <2>3. <<0, 5>> # Absent /\ Currency # Absent
    BY DEF Absent, Currency
  <2>4. b.rrn # Absent
    BY PrintedFits DEF Request
  <2> QED
    BY <1>1, <1>2, <1>3, <2>1, <2>2, <2>3, <2>4, EnvelopeHas
<1>5. IF b.pin = Absent THEN "pinBlockHex" \notin DOMAIN f /\ "ksn" \notin DOMAIN f
      ELSE Has(f, "pinBlockHex", Hex(block)) /\ Has(f, "ksn", next_ksn(n))
  <2>1. CASE b.pin = Absent
    <3>1. r["pinBlockHex"] = Absent /\ r["ksn"] = Absent
      BY <1>2, <2>1
    <3> QED
      BY <1>3, <2>1, <3>1, EnvelopeLacks
  <2>2. CASE b.pin # Absent
    <3>1. r["pinBlockHex"] = Hex(block) /\ r["ksn"] = next_ksn(n)
      BY <1>2, <2>2 DEF pin_block_hex
    <3>2. next_ksn(n) # Absent
      BY NextKsn, DigitsGiven
    <3>3. Hex(block) # Absent
      <4>1. block \in Seq(Byte) /\ Len(block) = 8
        BY <2>2, BlockIsBytes, Zenon
      <4> HIDE DEF block
      <4>2. Len(Hex(block)) = 16
        <5>1. Len(Hex(block)) = 2 * 8
          BY <4>1, HexComesBack, Zenon
        <5> QED
          BY <5>1
      <4> QED
        BY <4>2 DEF Absent
    <3> HIDE DEF block
    <3> QED
      BY <1>1, <1>3, <2>2, <3>1, <3>2, <3>3, EnvelopeHas
  <2> QED
    BY <2>1, <2>2
<1>6. IF b.credit = Absent THEN "accountId2" \notin DOMAIN f
      ELSE Has(f, "accountId2", b.credit)
  <2>1. CASE b.credit = Absent
    BY <1>2, <1>3, <2>1, EnvelopeLacks
  <2>2. CASE b.credit # Absent
    BY <1>1, <1>2, <1>3, <2>2, EnvelopeHas
  <2> QED
    BY <2>1, <2>2
<1>7. {"additionalData", "responseCode", "authId"} \cap DOMAIN f = {}
  BY <1>1, <1>3 DEF Envelope
<1> QED
  BY <1>4, <1>5, <1>6, <1>7, Zenon DEF Wants, f

-----------------------------------------------------------------------------
(* What the gateway makes of it.                                           *)

\* g is f with more fields; with that of d, if a test holds.
Keeps(g, f) == \A d, x : Has(f, d, x) => Has(g, d, x)
Extended(g, f, test, d, x) ==
    /\ Keeps(g, f) /\ DOMAIN g = DOMAIN f \cup (IF test THEN {d} ELSE {})
    /\ test => Has(g, d, x)

LEMMA KeepsMore ==
    ASSUME NEW f, NEW g, NEW h, Keeps(g, f), Keeps(h, g)
    PROVE  Keeps(h, f)
BY Zenon DEF Keeps

LEMMA ExtendedByOne ==
    ASSUME NEW f, NEW d, d \notin DOMAIN f, NEW x
    PROVE  Extended(f ++ Field(d, x), f, TRUE, d, x)
<1>1. Keeps(f ++ Field(d, x), f)
  BY HasFirst, Zenon DEF Keeps
<1>2. Has(f ++ Field(d, x), d, x)
  BY HasOne, HasSecond, Zenon
<1>3. DOMAIN (f ++ Field(d, x)) = DOMAIN f \cup {d}
  <2>1. DOMAIN (f ++ Field(d, x)) = DOMAIN f \cup DOMAIN Field(d, x)
    BY BothDomains, Zenon
  <2>2. DOMAIN Field(d, x) = {d}
    BY HasOne, Zenon
  <2> QED
    BY <2>1, <2>2, Zenon
<1> QED
  BY <1>1, <1>2, <1>3 DEF Extended

LEMMA ExtendedPerhaps ==
    ASSUME NEW f, NEW d, d \notin DOMAIN f, NEW x, NEW test \in BOOLEAN
    PROVE  Extended(f ++ With(test, d, x), f, test, d, x)
<1>1. Keeps(f ++ With(test, d, x), f)
  BY HasFirst, Zenon DEF Keeps
<1>2. test => Has(f ++ With(test, d, x), d, x)
  BY HasPerhaps, HasSecond, Zenon
<1>3. DOMAIN (f ++ With(test, d, x)) = DOMAIN f \cup (IF test THEN {d} ELSE {})
  <2>1. DOMAIN (f ++ With(test, d, x)) = DOMAIN f \cup DOMAIN With(test, d, x)
    BY BothDomains, Zenon
  <2>2. DOMAIN With(test, d, x) = IF test THEN {d} ELSE {}
    BY HasPerhaps, Zenon
  <2> QED
    BY <2>1, <2>2, Zenon
<1> QED
  BY <1>1, <1>2, <1>3 DEF Extended

\* What every authorisation has, and the PIN block and the payee of some.
Six(g, u, v, w, x, y, z) ==
    /\ DOMAIN g = {2, 3, 4, 22, 37, 49}
    /\ Has(g, 2, u) /\ Has(g, 3, v) /\ Has(g, 4, w) /\ Has(g, 22, x)
    /\ Has(g, 37, y) /\ Has(g, 49, z)
Ten(more, g, pin, credit, x, y, z) ==
    /\ DOMAIN more = {2, 3, 4, 22, 37, 49} \cup (IF pin THEN {52, 53} ELSE {})
                       \cup (IF credit THEN {103} ELSE {})
    /\ Keeps(more, g)
    /\ pin => Has(more, 52, x) /\ Has(more, 53, y)
    /\ credit => Has(more, 103, z)

LEMMA SixFields ==
    ASSUME NEW u, NEW v, NEW w, NEW x, NEW y, NEW z
    PROVE  Six(Field(2, u) ++ Field(3, v) ++ Field(4, w) ++ Field(22, x)
                 ++ Field(37, y) ++ Field(49, z), u, v, w, x, y, z)
<1> DEFINE a == Field(2, u)
           b == a ++ Field(3, v)
           c == b ++ Field(4, w)
           d == c ++ Field(22, x)
           e == d ++ Field(37, y)
           g == e ++ Field(49, z)
<1>1. DOMAIN a = {2} /\ Has(a, 2, u)
  BY HasOne
<1> HIDE DEF a
<1>2. Extended(b, a, TRUE, 3, v)
  <2>1. 3 \notin DOMAIN a
    BY <1>1
  <2> QED
    BY <2>1, ExtendedByOne, Zenon
<1> HIDE DEF b
<1>3. DOMAIN b = {2, 3} /\ Has(b, 2, u) /\ Has(b, 3, v)
  BY <1>1, <1>2 DEF Extended, Keeps
<1>4. Extended(c, b, TRUE, 4, w)
  <2>1. 4 \notin DOMAIN b
    BY <1>3
  <2> QED
    BY <2>1, ExtendedByOne, Zenon
<1> HIDE DEF c
<1>5. DOMAIN c = {2, 3, 4} /\ Has(c, 2, u) /\ Has(c, 3, v) /\ Has(c, 4, w)
  BY <1>3, <1>4 DEF Extended, Keeps
<1>6. Extended(d, c, TRUE, 22, x)
  <2>1. 22 \notin DOMAIN c
    BY <1>5
  <2> QED
    BY <2>1, ExtendedByOne, Zenon
<1> HIDE DEF d
<1>7. /\ DOMAIN d = {2, 3, 4, 22}
      /\ Has(d, 2, u) /\ Has(d, 3, v) /\ Has(d, 4, w) /\ Has(d, 22, x)
  BY <1>5, <1>6 DEF Extended, Keeps
<1>8. Extended(e, d, TRUE, 37, y)
  <2>1. 37 \notin DOMAIN d
    BY <1>7
  <2> QED
    BY <2>1, ExtendedByOne, Zenon
<1> HIDE DEF e
<1>9. /\ DOMAIN e = {2, 3, 4, 22, 37}
      /\ Has(e, 2, u) /\ Has(e, 3, v) /\ Has(e, 4, w) /\ Has(e, 22, x) /\ Has(e, 37, y)
  BY <1>7, <1>8 DEF Extended, Keeps
<1>10. Extended(g, e, TRUE, 49, z)
  <2>1. 49 \notin DOMAIN e
    BY <1>9
  <2> QED
    BY <2>1, ExtendedByOne, Zenon
<1> HIDE DEF g
<1>11. /\ DOMAIN g = {2, 3, 4, 22, 37, 49}
       /\ Has(g, 2, u) /\ Has(g, 3, v) /\ Has(g, 4, w) /\ Has(g, 22, x)
       /\ Has(g, 37, y) /\ Has(g, 49, z)
  BY <1>9, <1>10 DEF Extended, Keeps
<1> QED
  BY <1>11, Zenon DEF a, b, c, d, e, g, Six

LEMMA FourMore ==
    ASSUME NEW g, DOMAIN g = {2, 3, 4, 22, 37, 49},
           NEW pin \in BOOLEAN, NEW credit \in BOOLEAN, NEW x, NEW y, NEW z, NEW other
    PROVE  Ten(g ++ With(pin, 52, x) ++ With(pin, 53, y)
                 ++ With(credit, 103, z) ++ With(FALSE, 48, other), g, pin, credit, x, y, z)
<1> DEFINE a == g ++ With(pin, 52, x)
           b == a ++ With(pin, 53, y)
           c == b ++ With(credit, 103, z)
           more == c ++ With(FALSE, 48, other)
<1>1. Extended(a, g, pin, 52, x)
  <2>1. 52 \notin DOMAIN g
    OBVIOUS
  <2> QED
    BY <2>1, ExtendedPerhaps, ZenonT(40)
<1> HIDE DEF a
<1>2. Extended(b, a, pin, 53, y)
  <2>1. 53 \notin DOMAIN a
    BY <1>1 DEF Extended
  <2> QED
    BY <2>1, ExtendedPerhaps
<1> HIDE DEF b
<1>3. Extended(c, b, credit, 103, z)
  <2>1. 103 \notin DOMAIN b
    BY <1>1, <1>2 DEF Extended
  <2> QED
    BY <2>1, ExtendedPerhaps
<1> HIDE DEF c
<1>4. Extended(more, c, FALSE, 48, other)
  <2>1. 48 \notin DOMAIN c
    BY <1>1, <1>2, <1>3 DEF Extended
  <2> QED
    BY <2>1, ExtendedPerhaps, Zenon
<1> HIDE DEF more
<1>5. Keeps(more, g) /\ Keeps(more, a) /\ Keeps(more, b) /\ Keeps(more, c)
  <2>1. Keeps(a, g) /\ Keeps(b, a) /\ Keeps(c, b) /\ Keeps(more, c)
    BY <1>1, <1>2, <1>3, <1>4 DEF Extended
  <2> QED
    BY <2>1, KeepsMore, Zenon
<1>6. DOMAIN more = {2, 3, 4, 22, 37, 49} \cup (IF pin THEN {52, 53} ELSE {})
                      \cup (IF credit THEN {103} ELSE {})
  BY <1>1, <1>2, <1>3, <1>4 DEF Extended
<1>7. pin => Has(more, 52, x) /\ Has(more, 53, y)
  BY <1>1, <1>2, <1>5, Zenon DEF Extended, Keeps
<1>8. credit => Has(more, 103, z)
  BY <1>3, <1>5, Zenon DEF Extended, Keeps
<1> QED
  BY <1>5, <1>6, <1>7, <1>8, Zenon DEF a, b, c, more, Ten

\* The fields of the 0200 of a request, and the data elements it has.
Sends(g, b, n) ==
    LET ksn == next_ksn(n) IN
    /\ Has(g, 2, b.card) /\ Has(g, 3, b.processing) /\ Has(g, 4, Decimal(b.cents, 12))
    /\ Has(g, 22, <<0, 5>>) /\ Has(g, 37, b.rrn) /\ Has(g, 49, Currency)
    /\ DOMAIN g = {2, 3, 4, 22, 37, 49} \cup (IF b.pin # Absent THEN {52, 53} ELSE {})
                     \cup (IF b.credit # Absent THEN {103} ELSE {})
    /\ b.pin # Absent => /\ Has(g, 52, encrypt_pin_block(ksn, b.pin, b.card))
                         /\ Has(g, 53, rjust(ksn))
    /\ b.credit # Absent => Has(g, 103, b.credit)

LEMMA RequestIsSent ==
    ASSUME NEW b, Request(b), NEW n \in Counter
    PROVE  \E g : /\ soap_to_iso_authorize(Asked(b, n)) = IsoMessage(<<0, 2, 0, 0>>, g)
                  /\ Sends(g, b, n)
<1> DEFINE f == Asked(b, n)
           ksn == next_ksn(n)
           block == encrypt_pin_block(ksn, b.pin, b.card)
           six == Field(2, f.pan) ++ Field(3, f.processingCode) ++ Field(4, f.amountMinor)
                    ++ Field(22, GetOr(f, "entryMode", <<0, 5>>)) ++ Field(37, f.rrn)
                    ++ Field(49, GetOr(f, "currencyCode", Currency))
           g == six ++ With(Given(f, "pinBlockHex"), 52, fromhex(f.pinBlockHex))
                  ++ With(Given(f, "ksn"), 53, rjust(f.ksn))
                  ++ With(Given(f, "accountId2"), 103, f.accountId2)
                  ++ With(Given(f, "additionalData"), 48, f.additionalData)
<1>1. Wants(f, b, n)
  BY AskedWants
<1>2. soap_to_iso_authorize(f) = IsoMessage(<<0, 2, 0, 0>>, g)
  BY DEF soap_to_iso_authorize
<1> HIDE DEF f
<1>3. /\ f.pan = b.card /\ f.processingCode = b.processing
      /\ f.amountMinor = Decimal(b.cents, 12) /\ f.rrn = b.rrn
  BY <1>1 DEF Wants, Has
<1>4. GetOr(f, "entryMode", <<0, 5>>) = <<0, 5>> /\ GetOr(f, "currencyCode", Currency) = Currency
  <2>1. <<0, 5>> # <<>> /\ Currency # <<>>
    BY DEF Currency
  <2>2. Has(f, "entryMode", <<0, 5>>) /\ Has(f, "currencyCode", Currency)
    BY <1>1 DEF Wants
  <2> QED
    BY <2>1, <2>2, GivenHas, Zenon
<1>5. /\ Given(f, "pinBlockHex") = (b.pin # Absent) /\ Given(f, "ksn") = (b.pin # Absent)
      /\ b.pin # Absent => fromhex(f.pinBlockHex) = block /\ f.ksn = ksn
  <2>1. CASE b.pin = Absent
    <3>1. "pinBlockHex" \notin DOMAIN f /\ "ksn" \notin DOMAIN f
      BY <1>1, <2>1, Zenon DEF Wants
    <3>2. ~Given(f, "pinBlockHex") /\ ~Given(f, "ksn")
      BY <3>1, GivenLacks, Zenon
    <3>3. Given(f, "pinBlockHex") \in BOOLEAN /\ Given(f, "ksn") \in BOOLEAN
      BY DEF Given
    <3> QED
      BY <2>1, <3>2, <3>3
  <2>2. CASE b.pin # Absent
    <3>1. block \in Seq(Byte) /\ Len(block) = 8
      BY <2>2, BlockIsBytes, Zenon
    <3>2. Has(f, "pinBlockHex", Hex(block)) /\ Has(f, "ksn", ksn)
      BY <1>1, <2>2 DEF Wants
    <3> HIDE DEF block
    <3>3. fromhex(Hex(block)) = block /\ Hex(block) # <<>>
      <4>1. fromhex(Hex(block)) = block /\ Len(Hex(block)) = 2 * Len(block)
        BY <3>1, HexComesBack, Zenon
      <4>2. Len(Hex(block)) # Len(<<>>)
        <5>1. 2 * 8 # 0 /\ Len(<<>>) = 0
          OBVIOUS
        <5> QED
          BY <3>1, <4>1, <5>1, Zenon
      <4> QED
        BY <4>1, <4>2, Zenon
    <3>4. ksn # <<>>
      BY NextKsn, DigitsGiven, SMTT(40)
    <3>5. Given(f, "pinBlockHex") /\ Given(f, "ksn")
      BY <3>2, <3>3, <3>4, GivenHas, Zenon
    <3>6. f.pinBlockHex = Hex(block) /\ f.ksn = ksn
      BY <3>2 DEF Has
    <3> QED
      BY <2>2, <3>3, <3>5, <3>6
  <2> QED
    BY <2>1, <2>2
<1>6. /\ Given(f, "accountId2") = (b.credit # Absent)
      /\ b.credit # Absent => f.accountId2 = b.credit
  <2>1. CASE b.credit = Absent
    <3>1. "accountId2" \notin DOMAIN f
      BY <1>1, <2>1, Zenon DEF Wants
    <3>2. ~Given(f, "accountId2")
      BY <3>1, GivenLacks, Zenon
    <3>3. Given(f, "accountId2") \in BOOLEAN
      BY DEF Given
    <3> QED
      BY <2>1, <3>2, <3>3
  <2>2. CASE b.credit # Absent
    <3>1. Has(f, "accountId2", b.credit) /\ b.credit # <<>>
      BY <1>1, <2>2, PrintedFits DEF Wants, Request
    <3>2. Given(f, "accountId2")
      BY <3>1, GivenHas, Zenon
    <3>3. f.accountId2 = b.credit
      BY <3>1 DEF Has
    <3> QED
      BY <2>2, <3>2, <3>3
  <2> QED
    BY <2>1, <2>2
<1>7. Given(f, "additionalData") = FALSE
  BY <1>1, GivenLacks DEF Wants
<1> HIDE DEF block, ksn
<1>8. /\ DOMAIN six = {2, 3, 4, 22, 37, 49}
      /\ Has(six, 2, b.card) /\ Has(six, 3, b.processing) /\ Has(six, 4, Decimal(b.cents, 12))
      /\ Has(six, 22, <<0, 5>>) /\ Has(six, 37, b.rrn) /\ Has(six, 49, Currency)
  <2> DEFINE like == Field(2, b.card) ++ Field(3, b.processing) ++ Field(4, Decimal(b.cents, 12))
                       ++ Field(22, <<0, 5>>) ++ Field(37, b.rrn) ++ Field(49, Currency)
  <2>1. six = like
    BY <1>3, <1>4
  <2> HIDE DEF six
  <2>2. Six(like, b.card, b.processing, Decimal(b.cents, 12), <<0, 5>>, b.rrn, Currency)
    BY SixFields, Zenon
  <2> HIDE DEF like
  <2> QED
    BY <2>1, <2>2 DEF Six
<1> HIDE DEF six
<1> DEFINE pin == b.pin # Absent
           credit == b.credit # Absent
           x == fromhex(f.pinBlockHex)
           y == rjust(f.ksn)
           z == f.accountId2
           other == f.additionalData
<1>9. g = six ++ With(pin, 52, x) ++ With(pin, 53, y) ++ With(credit, 103, z)
            ++ With(FALSE, 48, other)
  BY <1>5, <1>6, <1>7
<1>10. pin => x = block /\ y = rjust(ksn)
  BY <1>5
<1>11. credit => z = b.credit
  BY <1>6
<1>12. pin \in BOOLEAN /\ credit \in BOOLEAN
  OBVIOUS
<1> HIDE DEF pin, credit, x, y, z, other, g
<1>13. Ten(g, six, pin, credit, x, y, z)
  BY <1>8, <1>9, <1>12, FourMore, ZenonT(40)
<1>a. /\ Keeps(g, six)
      /\ pin => Has(g, 52, x) /\ Has(g, 53, y)
      /\ credit => Has(g, 103, z)
  BY <1>13 DEF Ten
<1>14. /\ Has(g, 2, b.card) /\ Has(g, 3, b.processing) /\ Has(g, 4, Decimal(b.cents, 12))
       /\ Has(g, 22, <<0, 5>>) /\ Has(g, 37, b.rrn) /\ Has(g, 49, Currency)
  BY <1>8, <1>a, Zenon DEF Keeps
<1>15. pin => Has(g, 52, block) /\ Has(g, 53, rjust(ksn))
  BY <1>10, <1>a
<1>16. credit => Has(g, 103, b.credit)
  BY <1>11, <1>a
<1>17. Sends(g, b, n)
  BY <1>13, <1>14, <1>15, <1>16 DEF Sends, Ten, pin, credit, block, ksn
<1> QED
  BY <1>2, <1>17 DEF f

\* A value that the reader of a data element gets as it was written.
Reads8583(d, x) == d \in DataElement /\ Legal(d, x) /\ Normal(d, x) = x

LEMMA NumberReads ==
    ASSUME NEW d, NEW length, Specified(d, 0, length, TRUE),
           NEW x \in Seq(0..9), Len(x) = length
    PROVE  Reads8583(d, x)
<1>1. d \in DataElement
  BY DEF Specified
<1> QED
  BY <1>1, NormalNumber, Zenon DEF Reads8583

LEMMA SerialNumber ==
    ASSUME NEW ksn \in Seq(0..9), Len(ksn) = 10
    PROVE  /\ rjust(ksn) \in Seq(0..9) /\ Len(rjust(ksn)) = 16
           /\ Ending(rjust(ksn), 10) = ksn
<1> DEFINE zeros == Replicate(0, 6)
           r == zeros \o ksn
           i == Len(r) - 10 + 1
           j == Len(r)
           cut == SubSeq(r, i, j)
<1>0. Digit = 0..9 /\ ksn \in Seq(Digit)
  BY DEF Digit
<1>1. zeros \in Seq(Digit) /\ Len(zeros) = 6
  BY Zeros
<1>2. rjust(ksn) = r
  <2>1. 16 - Len(ksn) = 6
    OBVIOUS
  <2> QED
    BY <2>1 DEF rjust
<1> HIDE DEF zeros
<1>3. IsJoined(Digit, r, zeros, ksn)
  BY <1>0, <1>1, Joined, Zenon
<1> HIDE DEF r
<1>4. r \in Seq(Digit) /\ Len(r) = 16 /\ \A k \in 1..10 : r[6 + k] = ksn[k]
  BY <1>1, <1>3 DEF IsJoined
<1>5. i = 7 /\ j = 16 /\ j - i + 1 = 10 /\ \A k \in 1..10 : i + k - 1 = 6 + k
  BY <1>4
<1>6. Ending(r, 10) = cut
  BY DEF Ending
<1> HIDE DEF i, j
<1>7. IsCut(Digit, cut, r, i, j)
  <2>1. i \in Nat \ {0} /\ j \in Nat /\ i <= j + 1 /\ j <= Len(r)
    BY <1>4, <1>5
  <2> QED
    BY <1>4, <2>1, Cut, Zenon
<1> HIDE DEF cut
<1>8. cut \in Seq(Digit) /\ Len(cut) = 10 /\ \A k \in 1..10 : cut[k] = ksn[k]
  BY <1>4, <1>5, <1>7 DEF IsCut
<1>9. cut = ksn
  BY <1>0, <1>8, SeqEqual
<1> QED
  BY <1>0, <1>2, <1>4, <1>6, <1>9

LEMMA PrintedReads ==
    ASSUME NEW x, Printed(x, 12)
    PROVE  Reads8583(37, x)
<1>1. Specified(37, 0, 12, FALSE) /\ 37 \in DataElement /\ 37 \notin Binary
  BY EntriesUsed DEF Specified, Binary
<1>2. x \in Seq(Nat) /\ Len(x) <= 12 /\ \A i \in 1..Len(x) : x[i] \notin Whitespace
  BY PrintedFits DEF Printed
<1>3. 12 \in Nat
  OBVIOUS
<1> QED
  BY <1>1, <1>2, <1>3, NormalText DEF Reads8583

\* Every value of the 0200 is read as it was written but the entry mode, of
\* which nothing is asked.
LEMMA SentIsRead ==
    ASSUME NEW b, Request(b), NEW n \in Counter
    PROVE  /\ Reads8583(2, b.card) /\ Reads8583(3, b.processing)
           /\ Reads8583(4, Decimal(b.cents, 12)) /\ Reads8583(37, b.rrn)
           /\ Reads8583(49, Currency) /\ 22 \in DataElement /\ Legal(22, <<0, 5>>)
           /\ b.pin # Absent => /\ Reads8583(52, encrypt_pin_block(next_ksn(n), b.pin, b.card))
                                /\ Reads8583(53, rjust(next_ksn(n)))
           /\ b.credit # Absent => Reads8583(103, b.credit)
<1>1. Reads8583(2, b.card)
  <2>1. Specified(2, 2, 19, TRUE) /\ 2 \in DataElement
    BY EntriesUsed DEF Specified
  <2>2. b.card \in Seq(0..9) /\ Len(b.card) <= 19
    BY CardGiven DEF Request
  <2>3. 19 \in Nat /\ TRUE \in BOOLEAN
    OBVIOUS
  <2> QED
    BY <2>1, <2>2, <2>3, NormalVariable DEF Reads8583
<1>2. Reads8583(3, b.processing)
  <2>1. b.processing \in Seq(0..9) /\ Len(b.processing) = 6
    BY DEF Request
  <2>2. Specified(3, 0, 6, TRUE)
    BY EntriesUsed
  <2> QED
    BY <2>1, <2>2, NumberReads
<1>3. Reads8583(4, Decimal(b.cents, 12))
  <2>1. b.cents \in Nat /\ b.cents < TenTo[12]
    BY DEF Request
  <2>2. Decimal(b.cents, 12) \in Seq(0..9) /\ Len(Decimal(b.cents, 12)) = 12
    BY <2>1, Amount, Zenon
  <2>3. Specified(4, 0, 12, TRUE)
    BY EntriesUsed, Zenon
  <2> QED
    BY <2>2, <2>3, NumberReads
<1>4. Reads8583(37, b.rrn)
  BY PrintedReads, Zenon DEF Request
<1>5. Reads8583(49, Currency)
  <2>1. Currency \in Seq(0..9) /\ Len(Currency) = 3
    BY DEF Currency
  <2>2. Specified(49, 0, 3, TRUE)
    BY EntriesUsed
  <2> QED
    BY <2>1, <2>2, NumberReads
<1>6. 22 \in DataElement /\ Legal(22, <<0, 5>>)
  <2>1. Specified(22, 0, 3, TRUE)
    BY EntriesUsed
  <2>2. 22 \in DataElement /\ FIELD_SPECS[22] = Entry(22, 0, 3, TRUE) /\ 22 \notin Binary
    BY <2>1 DEF Specified, Binary
  <2>3. <<0, 5>> \in Seq(0..9) /\ Len(<<0, 5>>) <= 3
    OBVIOUS
  <2> QED
    BY <2>2, <2>3 DEF Legal, Entry
<1>7. ASSUME b.pin # Absent
      PROVE  /\ Reads8583(52, encrypt_pin_block(next_ksn(n), b.pin, b.card))
             /\ Reads8583(53, rjust(next_ksn(n)))
  <2> DEFINE block == encrypt_pin_block(next_ksn(n), b.pin, b.card)
  <2>1. block \in Seq(Byte) /\ Len(block) = 8
    BY <1>7, BlockIsBytes, Zenon
  <2> HIDE DEF block
  <2>2. block \in Seq(Nat)
    BY <2>1, BytesAreNat, Zenon
  <2>3. Specified(52, 0, 8, FALSE) /\ 52 \in DataElement /\ 52 \in Binary
    BY EntriesUsed DEF Specified, Binary
  <2>4. Reads8583(52, block)
    BY <2>1, <2>2, <2>3, NormalBlock, Zenon DEF Reads8583
  <2>5. next_ksn(n) \in Seq(0..9) /\ Len(next_ksn(n)) = 10
    BY NextKsn, Zenon
  <2>6. rjust(next_ksn(n)) \in Seq(0..9) /\ Len(rjust(next_ksn(n))) = 16
    BY <2>5, SerialNumber, Zenon
  <2>7. Specified(53, 0, 16, TRUE)
    BY EntriesUsed, Zenon
  <2>8. Reads8583(53, rjust(next_ksn(n)))
    BY <2>6, <2>7, NumberReads
  <2> QED
    BY <2>4, <2>8 DEF block
<1>8. ASSUME b.credit # Absent
      PROVE  Reads8583(103, b.credit)
  <2>1. Specified(103, 2, 28, FALSE) /\ 103 \in DataElement
    BY EntriesUsed DEF Specified
  <2>2. b.credit \in Seq(Nat) /\ Len(b.credit) <= 28
    BY <1>8 DEF Request, Printed
  <2>3. 28 \in Nat /\ FALSE \in BOOLEAN
    OBVIOUS
  <2> QED
    BY <2>1, <2>2, <2>3, NormalVariable DEF Reads8583
<1> QED
  BY <1>1, <1>2, <1>3, <1>4, <1>5, <1>6, <1>7, <1>8, Zenon

\* What the switch reads of an authorisation.
Hears(heard, b, n) ==
    LET ksn == next_ksn(n)
        fields == heard.fields
    IN  /\ heard.mti = <<0, 2, 0, 0>> /\ fields[11] = next_stan(n)
        /\ fields[2] = b.card /\ fields[4] = Decimal(b.cents, 12) /\ fields[37] = b.rrn
        /\ DOMAIN fields = {2, 3, 4, 11, 22, 37, 49}
                             \cup (IF b.pin # Absent THEN {52, 53} ELSE {})
                             \cup (IF b.credit # Absent THEN {103} ELSE {})
        /\ b.pin # Absent => /\ fields[52] = encrypt_pin_block(ksn, b.pin, b.card)
                             /\ fields[53] = rjust(ksn)
        /\ b.credit # Absent => fields[103] = b.credit

LEMMA NonEmpty ==
    ASSUME NEW S, NEW s \in Seq(S), 0 < Len(s)
    PROVE  s # <<>> /\ DOMAIN s = 1..Len(s)
OBVIOUS

LEMMA SentFields ==
    ASSUME NEW b, Request(b), NEW n \in Counter, NEW g, Sends(g, b, n)
    PROVE  Fields(g) /\ 11 \notin DOMAIN g
<1>1. 11 \notin DOMAIN g
  BY DEF Sends
<1>2. ASSUME NEW d \in DOMAIN g
      PROVE  d \in DataElement /\ Legal(d, g[d])
  <2>1. \/ d = 2 \/ d = 3 \/ d = 4 \/ d = 22 \/ d = 37 \/ d = 49
        \/ (b.pin # Absent /\ (d = 52 \/ d = 53)) \/ (b.credit # Absent /\ d = 103)
    BY DEF Sends
  <2>2. CASE d = 2 \/ d = 3 \/ d = 4 \/ d = 22 \/ d = 37 \/ d = 49
    BY <2>2, SentIsRead DEF Sends, Has, Reads8583
  <2>3. CASE b.pin # Absent /\ (d = 52 \/ d = 53)
    BY <2>3, SentIsRead DEF Sends, Has, Reads8583
  <2>4. CASE b.credit # Absent /\ d = 103
    BY <2>4, SentIsRead DEF Sends, Has, Reads8583
  <2> QED
    BY <2>1, <2>2, <2>3, <2>4
<1> QED
  BY <1>1, <1>2 DEF Fields

LEMMA AuthorisationIsHeard ==
    ASSUME NEW b, Request(b), NEW n \in Counter
    PROVE  Hears(Heard(soap_to_iso_authorize(Asked(b, n)), next_stan(n)), b, n)
<1>1. PICK g : /\ soap_to_iso_authorize(Asked(b, n)) = IsoMessage(<<0, 2, 0, 0>>, g)
               /\ Sends(g, b, n)
  BY RequestIsSent
<1> DEFINE mti == <<0, 2, 0, 0>>
           heard == Heard(IsoMessage(mti, g), next_stan(n))
<1>2. Fields(g) /\ 11 \notin DOMAIN g
  BY <1>1, SentFields, Zenon
<1>3. mti \in [1..4 -> 0..9]
  OBVIOUS
<1> HIDE DEF mti
<1>a. HeardAs(heard, mti, g, n)
  BY <1>2, <1>3, HeardFields, Zenon
<1> HIDE DEF heard
<1>4. /\ heard.mti = mti /\ DOMAIN heard.fields = DOMAIN g \cup {11}
      /\ \A d \in DOMAIN g : heard.fields[d] = Normal(d, g[d])
      /\ heard.fields[11] = next_stan(n)
  BY <1>a, Zenon DEF HeardAs
<1>5. \A d, x : Has(g, d, x) /\ Reads8583(d, x) => heard.fields[d] = x
  BY <1>4, Zenon DEF Has, Reads8583
<1>6. /\ heard.fields[2] = b.card /\ heard.fields[4] = Decimal(b.cents, 12)
      /\ heard.fields[37] = b.rrn
  BY <1>1, <1>5, SentIsRead DEF Sends
<1>7. b.pin # Absent =>
          /\ heard.fields[52] = encrypt_pin_block(next_ksn(n), b.pin, b.card)
          /\ heard.fields[53] = rjust(next_ksn(n))
  BY <1>1, <1>5, SentIsRead DEF Sends
<1>8. b.credit # Absent => heard.fields[103] = b.credit
  BY <1>1, <1>5, SentIsRead DEF Sends
<1>9. DOMAIN heard.fields = {2, 3, 4, 11, 22, 37, 49}
                              \cup (IF b.pin # Absent THEN {52, 53} ELSE {})
                              \cup (IF b.credit # Absent THEN {103} ELSE {})
  BY <1>1, <1>4 DEF Sends
<1>10. Hears(heard, b, n)
  BY <1>4, <1>6, <1>7, <1>8, <1>9 DEF Hears, mti
<1> QED
  BY <1>1, <1>10 DEF heard, mti

LEMMA HeardIsAsked ==
    ASSUME NEW b, Request(b), NEW n \in Counter, NEW heard, Hears(heard, b, n)
    PROVE  SameRequest(heard, b) /\ PinArrives(heard, b)
<1>1. Number(heard.fields[4]) = b.cents
  <2>1. b.cents \in Nat /\ b.cents < TenTo[12]
    BY DEF Request
  <2>2. Number(Decimal(b.cents, 12)) = b.cents
    BY <2>1, Amount, Zenon
  <2> QED
    BY <2>2 DEF Hears
<1>2. Get(heard.fields, 103, Absent) = b.credit
  <2>1. 103 \in DOMAIN heard.fields <=> b.credit # Absent
    BY DEF Hears
  <2>2. b.credit # Absent => heard.fields[103] = b.credit
    BY DEF Hears
  <2> QED
    BY <2>1, <2>2 DEF Get
<1>3. {52, 53} \cap DOMAIN heard.fields = (IF b.pin = Absent THEN {} ELSE {52, 53})
  BY DEF Hears
<1>4. SameRequest(heard, b)
  BY <1>1, <1>2, <1>3 DEF SameRequest, Hears
<1>5. PinArrives(heard, b)
  <2> SUFFICES ASSUME b.pin # Absent
               PROVE  recover_pin(decrypt_pin_block(Ending(heard.fields[53], 10),
                                                    heard.fields[52]), b.card) = b.pin
    BY Zenon DEF PinArrives
  <2>1. heard.fields[52] = encrypt_pin_block(next_ksn(n), b.pin, b.card)
        /\ heard.fields[53] = rjust(next_ksn(n))
    BY Zenon DEF Hears
  <2>2. Ending(rjust(next_ksn(n)), 10) = next_ksn(n)
    BY NextKsn, SerialNumber, Zenon
  <2> QED
    BY <2>1, <2>2, BlockIsBytes
<1> QED
  BY <1>4, <1>5

\* Nothing in the elements is beyond XML, or beyond the gateway's mapping.
LEMMA AskedIsSendable ==
    ASSUME NEW b, Request(b), NEW n \in Counter
    PROVE  Sendable(Asked(b, n), <<0, 2, 0, 0>>)
<1> DEFINE f == Asked(b, n)
           block == encrypt_pin_block(next_ksn(n), b.pin, b.card)
<1>1. Wants(f, b, n)
  BY AskedWants
<1> HIDE DEF f
<1>2. ASSUME b.pin # Absent
      PROVE  /\ Len(Hex(block)) = 16 /\ Hex(block) # <<>>
             /\ \A i \in DOMAIN Hex(block) : /\ Hex(block)[i] \in HexDigits
                                              /\ Hex(block)[i] \notin Unfit
  <2>1. block \in Seq(Byte) /\ Len(block) = 8
    BY <1>2, BlockIsBytes, Zenon
  <2> DEFINE hex == Hex(block)
  <2> HIDE DEF block
  <2>2. hex \in Seq(HexDigits) /\ Len(hex) = 2 * 8
    BY <2>1, HexComesBack, Zenon
  <2> HIDE DEF hex
  <2>3. \A c \in HexDigits : c \notin Unfit
    BY DEF HexDigits, Unfit
  <2>a. 2 * 8 = 16 /\ 0 < 16
    OBVIOUS
  <2>5. Len(hex) = 16 /\ hex # <<>> /\ DOMAIN hex = 1..Len(hex)
    BY <2>2, <2>a, NonEmpty, Zenon
  <2>4. \A i \in DOMAIN hex : hex[i] \in HexDigits
    BY <2>2, <2>5, Elements, Zenon
  <2> QED
    BY <2>3, <2>4, <2>5 DEF hex
<1>3. ASSUME NEW x, NEW longest, Printed(x, longest)
      PROVE  \A i \in DOMAIN x : x[i] \notin Unfit
  <2>1. x \in Seq(Nat) /\ \A i \in 1..Len(x) : x[i] \notin Unfit
    BY <1>3, PrintedFits, Zenon
  <2>2. DOMAIN x = 1..Len(x)
    BY <2>1
  <2> QED
    BY <2>1, <2>2
<1>4. Fits(f)
  <2> SUFFICES ASSUME NEW e \in DOMAIN f \cap TextElements
               PROVE  \A i \in DOMAIN f[e] : f[e][i] \notin Unfit
    BY Zenon DEF Fits
  <2>1. \/ e = "rrn" \/ (e = "pinBlockHex" /\ b.pin # Absent)
        \/ (e = "accountId2" /\ b.credit # Absent)
    BY <1>1 DEF TextElements, Wants
  <2>2. CASE e = "rrn"
    <3>1. f[e] = b.rrn /\ Printed(b.rrn, 12)
      BY <1>1, <2>2 DEF Wants, Has, Request
    <3> QED
      BY <1>3, <3>1, Zenon
  <2>3. CASE e = "pinBlockHex" /\ b.pin # Absent
    <3>1. f[e] = Hex(block)
      BY <1>1, <2>3 DEF Wants, Has
    <3>2. \A i \in DOMAIN Hex(block) : Hex(block)[i] \notin Unfit
      BY <1>2, <2>3, Zenon
    <3> QED
      BY <3>1, <3>2, Zenon
  <2>4. CASE e = "accountId2" /\ b.credit # Absent
    <3>1. f[e] = b.credit /\ Printed(b.credit, 28)
      BY <1>1, <2>4 DEF Wants, Has, Request
    <3> QED
      BY <1>3, <3>1, Zenon
  <2> QED
    BY <2>1, <2>2, <2>3, <2>4
<1>5. Required(<<0, 2, 0, 0>>) = {"pan", "amountMinor", "rrn", "processingCode"}
  BY DEF Required
<1>6. Given(f, "pan") /\ Given(f, "amountMinor") /\ Given(f, "rrn") /\ Given(f, "processingCode")
  <2>1. b.card # <<>> /\ b.rrn # <<>>
    BY CardGiven, PrintedFits DEF Request
  <2>2. b.processing # <<>>
    <3>1. b.processing \in Seq(0..9) /\ Len(b.processing) = 6 /\ 0 < 6
      BY DEF Request
    <3> QED
      BY <3>1, NonEmpty, Zenon
  <2>3. Decimal(b.cents, 12) # <<>>
    <3>1. b.cents \in Nat /\ b.cents < TenTo[12]
      BY DEF Request
    <3>2. Decimal(b.cents, 12) \in Seq(0..9) /\ Len(Decimal(b.cents, 12)) = 12
      BY <3>1, Amount, Zenon
    <3>3. 0 < 12
      OBVIOUS
    <3> QED
      BY <3>2, <3>3, NonEmpty, Zenon
  <2> QED
    BY <1>1, <2>1, <2>2, <2>3, GivenHas DEF Wants
<1>7. Given(f, "pinBlockHex") =>
         /\ Len(f.pinBlockHex) = 16
         /\ \A i \in DOMAIN f.pinBlockHex : f.pinBlockHex[i] \in HexDigits
  <2>1. Given(f, "pinBlockHex") => "pinBlockHex" \in DOMAIN f
    BY GivenLacks, Zenon
  <2>2. "pinBlockHex" \in DOMAIN f => b.pin # Absent /\ f.pinBlockHex = Hex(block)
    BY <1>1 DEF Wants, Has
  <2> QED
    BY <1>2, <2>1, <2>2, Zenon
<1>8. \A e \in Required(<<0, 2, 0, 0>>) : Given(f, e)
  BY <1>5, <1>6
<1>9. <<0, 2, 0, 0>>[2] # 8
  OBVIOUS
<1> QED
  BY <1>4, <1>7, <1>8, <1>9, Zenon DEF Sendable, Mappable, f

-----------------------------------------------------------------------------
(* What the switch answers.                                                *)

Code8583 == {Approval, <<53, 49>>}
AuthId == <<65, 49, 56, 48, 48, 56>>

\* What the gateway reads of fields that all read as they were written.
Clean(r) == \A d \in DOMAIN r : Reads8583(d, r[d])

LEMMA CleanIsRead ==
    ASSUME NEW mti \in [1..4 -> 0..9], NEW r, Clean(r)
    PROVE  /\ parse_message(build_message(mti, r)).mti = mti
           /\ DOMAIN parse_message(build_message(mti, r)).fields = DOMAIN r
           /\ \A d \in DOMAIN r : parse_message(build_message(mti, r)).fields[d] = r[d]
<1> DEFINE read == parse_message(build_message(mti, r))
<1>1. Fields(r)
  BY DEF Clean, Fields, Reads8583
<1>2. read = Parsed(mti, r)
  BY <1>1, MessagesComeBack, Zenon
<1> HIDE DEF read
<1>3. read.mti = mti /\ read.fields = [d \in DOMAIN r |-> Normal(d, r[d])]
  BY <1>2 DEF Parsed
<1>4. \A d \in DOMAIN r : Normal(d, r[d]) = r[d]
  BY DEF Clean, Reads8583
<1> QED
  BY <1>3, <1>4 DEF read

LEMMA CleanOne ==
    ASSUME NEW d, NEW x, Reads8583(d, x)
    PROVE  Clean(Field(d, x))
BY DEF Clean, Field

LEMMA CleanPerhaps ==
    ASSUME NEW test \in BOOLEAN, NEW d, NEW x, test => Reads8583(d, x)
    PROVE  Clean(With(test, d, x))
BY DEF Clean, Field, With

LEMMA CleanTwo ==
    ASSUME NEW f, NEW g, Clean(f), Clean(g)
    PROVE  Clean(f ++ g)
BY DEF Clean, ++

LEMMA StanReads ==
    ASSUME NEW n \in Counter
    PROVE  Reads8583(11, next_stan(n))
<1>1. next_stan(n) \in Seq(0..9) /\ Len(next_stan(n)) = 6
  BY NextStan, Zenon
<1>2. Specified(11, 0, 6, TRUE)
  BY EntriesUsed
<1> QED
  BY <1>1, <1>2, NumberReads

LEMMA CodeReads ==
    ASSUME NEW code \in Code8583
    PROVE  Reads8583(39, code) /\ code # Absent
<1>1. Specified(39, 0, 2, FALSE) /\ 39 \in DataElement /\ 39 \notin Binary
  BY EntriesUsed DEF Specified, Binary
<1>2. /\ code \in Seq(Nat) /\ Len(code) = 2
      /\ \A i \in 1..Len(code) : code[i] \notin Whitespace
  <2>1. code = <<48, 48>> \/ code = <<53, 49>>
    BY DEF Code8583, Approval
  <2>2. code \in Seq(Nat) /\ Len(code) = 2
    <3>1. <<48, 48>> \in Seq(Nat) /\ <<53, 49>> \in Seq(Nat)
      OBVIOUS
    <3>2. Len(<<48, 48>>) = 2 /\ Len(<<53, 49>>) = 2
      OBVIOUS
    <3> QED
      BY <2>1, <3>1, <3>2, Zenon
  <2>3. \A i \in 1..2 : code[i] \in {48, 49, 53}
    <3>1. code[1] \in {48, 49, 53} /\ code[2] \in {48, 49, 53}
      BY <2>1
    <3>2. \A i \in 1..2 : i = 1 \/ i = 2
      OBVIOUS
    <3> QED
      BY <3>1, <3>2, Zenon
  <2>4. \A c \in {48, 49, 53} : c \notin Whitespace
    BY DEF Whitespace
  <2> QED
    BY <2>2, <2>3, <2>4, Zenon
<1>3. Len(code) <= 2 /\ 2 \in Nat
  BY <1>2
<1>4. Legal(39, code) /\ Normal(39, code) = code
  BY <1>1, <1>2, <1>3, NormalText
<1>5. Len(Absent) = 1
  BY DEF Absent
<1> QED
  BY <1>1, <1>2, <1>4, <1>5 DEF Reads8583

LEMMA AuthIdReads == Reads8583(38, AuthId) /\ AuthId # Absent
<1>1. Specified(38, 0, 6, FALSE) /\ 38 \in DataElement /\ 38 \notin Binary
  BY EntriesUsed DEF Specified, Binary
<1>2. AuthId \in Seq(Nat) /\ Len(AuthId) = 6
  BY DEF AuthId
<1>3. \A i \in 1..6 : AuthId[i] \notin Whitespace
  <2>1. \A i \in 1..6 : AuthId[i] \in {65, 49, 56, 48}
    BY DEF AuthId
  <2>2. \A c \in {65, 49, 56, 48} : c \notin Whitespace
    BY DEF Whitespace
  <2> QED
    BY <2>1, <2>2
<1> HIDE DEF AuthId
<1>4. Legal(38, AuthId) /\ Normal(38, AuthId) = AuthId
  <2>1. Len(AuthId) <= 6 /\ 6 \in Nat
    BY <1>2
  <2> QED
    BY <1>1, <1>2, <1>3, <2>1, NormalText
<1>5. Len(Absent) = 1
  BY DEF Absent
<1>6. 6 # 1
  OBVIOUS
<1> QED
  BY <1>1, <1>2, <1>4, <1>5, <1>6, Zenon DEF Reads8583

\* The answer to an authorisation, as the gateway reads it.
Answers(back, b, n, code) ==
    /\ back.fields[11] = next_stan(n) /\ back.fields[37] = b.rrn
    /\ back.fields[39] = code
    /\ DOMAIN back.fields = {11, 37, 39} \cup (IF code = Approval THEN {38} ELSE {})
    /\ code = Approval => back.fields[38] = AuthId

LEMMA AnswerIsRead ==
    ASSUME NEW b, Request(b), NEW n \in Counter, NEW heard, Hears(heard, b, n),
           NEW code \in Code8583
    PROVE  Answers(Back(heard, code), b, n, code)
<1> DEFINE fa == Field(11, next_stan(n))
           fb == fa ++ Field(37, b.rrn)
           fc == fb ++ Field(39, code)
           approved == code = Approval
           r == fc ++ With(approved, 38, AuthId)
           mti == <<0, 2, 1, 0>>
<1>1. Response(heard, code) = IsoMessage(mti, r)
  <2>1. /\ heard.mti = <<0, 2, 0, 0>> /\ heard.fields[11] = next_stan(n)
        /\ heard.fields[37] = b.rrn
    BY DEF Hears
  <2>2. heard.mti[2] # 8 /\ heard.mti[2] # 4
    BY <2>1
  <2> QED
    BY <2>1, <2>2, Zenon DEF Response, AuthId
<1>2. Reads8583(11, next_stan(n)) /\ Reads8583(37, b.rrn) /\ Reads8583(39, code)
      /\ Reads8583(38, AuthId)
  BY StanReads, SentIsRead, CodeReads, AuthIdReads, Zenon
<1>3. mti \in [1..4 -> 0..9] /\ approved \in BOOLEAN
  OBVIOUS
<1>4. Back(heard, code) = parse_message(build_message(mti, r))
  <2> HIDE DEF r, mti
  <2>1. Response(heard, code).mti = mti /\ Response(heard, code).fields = r
    BY <1>1 DEF IsoMessage
  <2> QED
    BY <2>1, Zenon DEF Back
<1> HIDE DEF mti, approved
<1>5. Clean(r)
  BY <1>2, <1>3, CleanOne, CleanPerhaps, CleanTwo, Zenon
<1>6. DOMAIN fa = {11} /\ Has(fa, 11, next_stan(n))
  BY HasOne, Zenon
<1> HIDE DEF fa
<1>7. Extended(fb, fa, TRUE, 37, b.rrn)
  <2>1. 37 \notin DOMAIN fa
    BY <1>6
  <2> QED
    BY <2>1, ExtendedByOne, Zenon
<1> HIDE DEF fb
<1>8. Extended(fc, fb, TRUE, 39, code)
  <2>1. 39 \notin DOMAIN fb
    BY <1>6, <1>7 DEF Extended
  <2> QED
    BY <2>1, ExtendedByOne, Zenon
<1> HIDE DEF fc
<1>9. Extended(r, fc, approved, 38, AuthId)
  <2>1. 38 \notin DOMAIN fc
    BY <1>6, <1>7, <1>8 DEF Extended
  <2> QED
    BY <1>3, <2>1, ExtendedPerhaps
<1> HIDE DEF r
<1>10. DOMAIN r = {11, 37, 39} \cup (IF approved THEN {38} ELSE {})
  BY <1>6, <1>7, <1>8, <1>9 DEF Extended
<1>11. /\ Has(r, 11, next_stan(n)) /\ Has(r, 37, b.rrn) /\ Has(r, 39, code)
       /\ approved => Has(r, 38, AuthId)
  BY <1>6, <1>7, <1>8, <1>9, Zenon DEF Extended, Keeps
<1> DEFINE back == Back(heard, code)
<1>12. DOMAIN back.fields = DOMAIN r /\ \A d \in DOMAIN r : back.fields[d] = r[d]
  BY <1>3, <1>4, <1>5, CleanIsRead
<1> HIDE DEF back
<1>13. Answers(back, b, n, code)
  BY <1>10, <1>11, <1>12 DEF Answers, Has, approved
<1> QED
  BY <1>13 DEF back

LEMMA AnswerArrivesBack ==
    ASSUME NEW b, Request(b), NEW n \in Counter, NEW code \in Code8583,
           NEW back, Answers(back, b, n, code)
    PROVE  AnswerArrives(iso_to_soap_authorize(back, b.rrn), code, b, n)
<1> DEFINE reply == iso_to_soap_authorize(back, b.rrn)
           result == Envelope(reply)
           answer == AuthorizeResponse(result, b)
<1>1. DOMAIN reply = {"responseCode", "authId", "stan", "rrn", "mti"}
  BY DEF iso_to_soap_authorize
<1>2. /\ reply["responseCode"] = code /\ reply["stan"] = next_stan(n)
      /\ reply["rrn"] = b.rrn
      /\ reply["authId"] = IF code = Approval THEN AuthId ELSE Absent
  <2>1. /\ Get(back.fields, 39, <<>>) = code /\ Get(back.fields, 11, Unknown) = next_stan(n)
        /\ Get(back.fields, 37, b.rrn) = b.rrn
        /\ Get(back.fields, 38, Absent) = IF code = Approval THEN AuthId ELSE Absent
    BY DEF Answers, Get
  <2> QED
    BY <2>1 DEF iso_to_soap_authorize
<1> HIDE DEF reply
<1>3. code # Absent /\ AuthId # Absent
  BY CodeReads, AuthIdReads, Zenon
<1>4. next_stan(n) # Absent
  <2>1. next_stan(n) \in Seq(0..9) /\ Len(next_stan(n)) = 6 /\ 0 < 6
    BY NextStan
  <2> QED
    BY <2>1, DigitsGiven, Zenon
<1>5. b.rrn # Absent /\ b.rrn # <<>>
  BY PrintedFits, Zenon DEF Request
<1>6. /\ Has(result, "responseCode", code) /\ Has(result, "stan", next_stan(n))
      /\ Has(result, "rrn", b.rrn)
  BY <1>1, <1>2, <1>3, <1>4, <1>5, EnvelopeHas
<1>7. IF code = Approval THEN Has(result, "authId", AuthId) ELSE "authId" \notin DOMAIN result
  <2>1. CASE code = Approval
    BY <1>1, <1>2, <1>3, <2>1, EnvelopeHas
  <2>2. CASE code # Approval
    BY <1>2, <2>2, EnvelopeLacks
  <2> QED
    BY <2>1, <2>2
<1> HIDE DEF result
<1>8. GetOr(result, "rrn", b.rrn) = b.rrn
  BY <1>5, <1>6, GivenHas, Zenon
<1>9. /\ Get(result, "responseCode", <<>>) = code /\ Get(result, "stan", Absent) = next_stan(n)
      /\ Get(result, "authId", Absent) = IF code = Approval THEN AuthId ELSE Absent
  BY <1>6, <1>7 DEF Get, Has
<1>10. /\ answer.outcome = (IF code = Approval THEN "approved" ELSE "declined")
       /\ answer.authorization_id = (IF code = Approval THEN AuthId ELSE Absent)
       /\ answer.stan = next_stan(n) /\ answer.rrn = b.rrn
  BY <1>8, <1>9 DEF AuthorizeResponse
<1> HIDE DEF answer
<1>11. "approved" # "declined"
  OBVIOUS
<1>12. /\ answer.outcome = "approved" <=> code = Approval
       /\ answer.authorization_id # Absent <=> code = Approval
       /\ answer.stan = next_stan(n) /\ answer.rrn = b.rrn
  BY <1>3, <1>10, <1>11, Zenon
<1> QED
  BY <1>12, Zenon DEF AnswerArrives, answer, result, reply

-----------------------------------------------------------------------------
(* The requests that are tried.                                            *)

LEMMA RrnIsPrinted ==
    ASSUME NEW width \in {6, 11, 12}
    PROVE  Printed(Rrn(width), 12)
<1> DEFINE s == Rrn(width)
<1>1. width \in Nat /\ 0 < width /\ width <= 12
  OBVIOUS
<1>2. s \in [1..width -> Nat] /\ \A i \in 1..width : s[i] = 48 + (i % 10)
  BY <1>1 DEF Rrn
<1>3. \A i \in 1..width : 48 + (i % 10) \in Printable
  BY <1>1 DEF Printable
<1> HIDE DEF s
<1>4. s \in Seq(Nat) /\ Len(s) = width
  BY <1>1, <1>2, FromFunction, Zenon
<1>5. \A i \in 1..width : s[i] \in Printable
  BY <1>2, <1>3, Zenon
<1>6. Printed(s, 12)
  BY <1>1, <1>4, <1>5, Zenon DEF Printed
<1> QED
  BY <1>6 DEF s

LEMMA PayeeIsPrinted == Printed([i \in 1..16 |-> 96 + i], 28)
<1> DEFINE s == [i \in 1..16 |-> 96 + i]
<1>1. s \in [1..16 -> Nat] /\ \A i \in 1..16 : s[i] = 96 + i
  OBVIOUS
<1>2. \A i \in 1..16 : 96 + i \in Printable
  BY DEF Printable
<1>3. 16 \in Nat /\ 0 < 16 /\ 16 <= 28
  OBVIOUS
<1> HIDE DEF s
<1>4. s \in Seq(Nat) /\ Len(s) = 16
  BY <1>1, <1>3, FromFunction, ZenonT(40)
<1>5. \A i \in 1..16 : s[i] \in Printable
  BY <1>1, <1>2, Zenon
<1>6. Printed(s, 28)
  BY <1>3, <1>4, <1>5, Zenon DEF Printed
<1> QED
  BY <1>6 DEF s

LEMMA TriedAmount == \A cents \in Amounts : cents \in Nat /\ cents < TenTo[12]
<1>1. TenTo[12] = 1000000000000
  BY SMT DEF TenTo
<1>2. \A cents \in Amounts : cents \in Nat /\ cents < 1000000000000
  BY SMT DEF Amounts
<1> QED
  BY <1>1, <1>2, SMT

LEMMA TriedOf ==
    ASSUME NEW b \in AuthorizeRequest
    PROVE  \E size \in {12, 15, 16, 19}, cents \in Nat, width \in {6, 11, 12},
              pin \in Pins, credit \in Payees :
              cents < TenTo[12] /\ b = Asking(size, cents, width, pin, credit)
<1>1. PICK size \in {12, 15, 16, 19}, cents \in Amounts, width \in {6, 11, 12},
           pin \in Pins, credit \in Payees :
        b = Asking(size, cents, width, pin, credit)
  BY SMT DEF AuthorizeRequest
<1>2. cents \in Nat /\ cents < TenTo[12]
  BY TriedAmount, Zenon
<1> QED
  BY <1>1, <1>2, Zenon

LEMMA TriedRequest ==
    ASSUME NEW b \in AuthorizeRequest
    PROVE  Request(b)
<1>1. PICK size \in {12, 15, 16, 19}, cents \in Nat, width \in {6, 11, 12},
           pin \in Pins, credit \in Payees :
        cents < TenTo[12] /\ b = Asking(size, cents, width, pin, credit)
  BY TriedOf, Zenon
<1>2. /\ b.card = Digits(3, size) /\ b.pin = pin /\ b.cents = cents
      /\ b.processing = (IF credit = Absent THEN Unknown ELSE <<4, 0, 0, 0, 0, 0>>)
      /\ b.rrn = Rrn(width) /\ b.credit = credit
  BY <1>1 DEF Asking
<1>3. Card(b.card)
  <2>1. 3 \in Nat /\ size \in Nat /\ 12 <= size /\ size <= 19
    OBVIOUS
  <2>2. Digits(3, size) \in Seq(0..9) /\ Len(Digits(3, size)) = size
    BY <2>1, DigitsAreSeq, Zenon
  <2> QED
    BY <1>2, <2>1, <2>2, Zenon DEF Card
<1>4. b.pin # Absent => Pin(b.pin)
  <2>1. Digits(4, 5) \in Seq(0..9) /\ Len(Digits(4, 5)) = 5
    BY DigitsAreSeq
  <2>2. Digits(9, 12) \in Seq(0..9) /\ Len(Digits(9, 12)) = 12
    BY DigitsAreSeq
  <2>3. <<0, 0, 0, 0>> \in Seq(0..9) /\ Len(<<0, 0, 0, 0>>) = 4
    OBVIOUS
  <2>4. 4 <= 4 /\ 4 <= 5 /\ 4 <= 12 /\ 5 <= 12 /\ 12 <= 12
    OBVIOUS
  <2>5. Pin(Digits(4, 5)) /\ Pin(Digits(9, 12)) /\ Pin(<<0, 0, 0, 0>>)
    BY <2>1, <2>2, <2>3, <2>4, Zenon DEF Pin
  <2> QED
    BY <1>2, <2>5, Zenon DEF Pins
<1>5. b.cents \in Nat /\ b.cents < TenTo[12]
  BY <1>1, <1>2, Zenon
<1>6. b.processing \in Seq(0..9) /\ Len(b.processing) = 6
  <2>1. Unknown \in Seq(0..9) /\ Len(Unknown) = 6
    <3>1. 0 \in 0..9 /\ 6 \in Nat
      OBVIOUS
    <3> QED
      BY <3>1, Replicated, Zenon DEF Unknown
  <2>2. <<4, 0, 0, 0, 0, 0>> \in Seq(0..9) /\ Len(<<4, 0, 0, 0, 0, 0>>) = 6
    OBVIOUS
  <2>3. b.processing = Unknown \/ b.processing = <<4, 0, 0, 0, 0, 0>>
    BY <1>2, Zenon
  <2> QED
    BY <2>1, <2>2, <2>3, Zenon
<1>7. Printed(b.rrn, 12)
  BY <1>2, RrnIsPrinted, Zenon
<1>8. b.credit # Absent => Printed(b.credit, 28)
  BY <1>2, PayeeIsPrinted, Zenon DEF Payees
<1> QED
  BY <1>3, <1>4, <1>5, <1>6, <1>7, <1>8, Zenon DEF Request

LEMMA AuthorisationsArrive == AuthorisationArrives
<1> SUFFICES ASSUME NEW a \in Authorisations, NEW code \in {Approval, <<53, 49>>}
             PROVE  /\ Sendable(Asked(a.asked, a.after), <<0, 2, 0, 0>>)
                    /\ SameRequest(a.heard, a.asked) /\ PinArrives(a.heard, a.asked)
                    /\ AnswerArrives(iso_to_soap_authorize(Back(a.heard, code), a.asked.rrn),
                                     code, a.asked, a.after)
  BY Zenon DEF AuthorisationArrives
<1>1. PICK b \in AuthorizeRequest, n \in Counter : a = Authorisation(b, n)
  BY SMT DEF Authorisations
<1>2. /\ a.asked = b /\ a.after = n
      /\ a.heard = Heard(soap_to_iso_authorize(Asked(b, n)), next_stan(n))
  BY <1>1 DEF Authorisation
<1>3. Request(b) /\ code \in Code8583
  BY TriedRequest, Zenon DEF Code8583
<1>4. Hears(a.heard, b, n)
  BY <1>2, <1>3, AuthorisationIsHeard, Zenon
<1>5. Answers(Back(a.heard, code), b, n, code)
  BY <1>3, <1>4, AnswerIsRead, Zenon
<1>6. AnswerArrives(iso_to_soap_authorize(Back(a.heard, code), b.rrn), code, b, n)
  BY <1>3, <1>5, AnswerArrivesBack, Zenon
<1>7. Sendable(Asked(b, n), <<0, 2, 0, 0>>)
  BY <1>3, AskedIsSendable, Zenon
<1>8. SameRequest(a.heard, b) /\ PinArrives(a.heard, b)
  BY <1>3, <1>4, HeardIsAsked, Zenon
<1> QED
  BY <1>2, <1>6, <1>7, <1>8, Zenon

-----------------------------------------------------------------------------
(* Reversals and echoes.                                                   *)

Pair(fields, d, x, e, y) ==
    DOMAIN fields = {d, e} /\ fields[d] = x /\ fields[e] = y

LEMMA PairIsRead ==
    ASSUME NEW mti \in [1..4 -> 0..9], NEW d, NEW e, d # e, NEW x, NEW y,
           Reads8583(d, x), Reads8583(e, y)
    PROVE  Pair(parse_message(build_message(mti, Field(d, x) ++ Field(e, y))).fields,
                d, x, e, y)
<1> DEFINE r == Field(d, x) ++ Field(e, y)
           fields == parse_message(build_message(mti, r)).fields
<1>1. Clean(r)
  BY CleanOne, CleanTwo, Zenon
<1>2. Pair(r, d, x, e, y)
  BY DEF Field, ++, Pair
<1> HIDE DEF r
<1>3. DOMAIN fields = DOMAIN r /\ \A de \in DOMAIN r : fields[de] = r[de]
  BY <1>1, CleanIsRead
<1> HIDE DEF fields
<1>4. Pair(fields, d, x, e, y)
  BY <1>2, <1>3 DEF Pair
<1> QED
  BY <1>4 DEF fields, r

\* Whatever is asked to be reversed, its reversal is acknowledged.
LEMMA IsAcknowledged ==
    ASSUME NEW n \in Counter, NEW heard, heard.mti = <<0, 4, 0, 0>>,
           heard.fields[11] = next_stan(n)
    PROVE  Acknowledged(heard, n)
<1> DEFINE mti == <<0, 4, 1, 0>>
           reply == Back(heard, Approval)
           number == next_stan(n)
<1>1. Response(heard, Approval) = IsoMessage(mti, Field(11, number) ++ Field(39, Approval))
  <2>1. heard.mti[2] # 8 /\ heard.mti[2] = 4
    OBVIOUS
  <2> QED
    BY <2>1, Zenon DEF Response
<1>2. Reads8583(11, number) /\ Reads8583(39, Approval)
  BY StanReads, CodeReads, Zenon DEF Code8583
<1>3. mti \in [1..4 -> 0..9] /\ 11 # 39
  OBVIOUS
<1> HIDE DEF mti, number
<1>4. reply = parse_message(build_message(mti, Field(11, number) ++ Field(39, Approval)))
  <2> DEFINE r == Field(11, number) ++ Field(39, Approval)
  <2> HIDE DEF r
  <2>1. Response(heard, Approval).mti = mti /\ Response(heard, Approval).fields = r
    BY <1>1 DEF IsoMessage, r
  <2> QED
    BY <2>1, Zenon DEF Back, r
<1> HIDE DEF reply
<1>5. Pair(reply.fields, 11, number, 39, Approval)
  BY <1>2, <1>3, <1>4, PairIsRead, Zenon
<1>6. Get(reply.fields, 39, <<>>) = Approval /\ Get(reply.fields, 11, Unknown) = number
  BY <1>5 DEF Pair, Get
<1>7. iso_to_soap_reverse(reply) = [responseCode |-> Approval, stan |-> number]
  BY <1>6, Zenon DEF iso_to_soap_reverse
<1> QED
  BY <1>7 DEF Acknowledged, reply, number

LEMMA IsEchoed ==
    ASSUME NEW n \in Counter, NEW heard, heard.mti = <<0, 8, 0, 0>>,
           heard.fields[11] = next_stan(n), heard.fields[70] = <<3, 0, 1>>
    PROVE  Echoed(heard, n)
<1> DEFINE mti == <<0, 8, 1, 0>>
           reply == Back(heard, Approval)
           number == next_stan(n)
           network == <<3, 0, 1>>
<1>1. Response(heard, Approval) = IsoMessage(mti, Field(11, number) ++ Field(70, network))
  <2>1. heard.mti[2] = 8
    OBVIOUS
  <2> QED
    BY <2>1, Zenon DEF Response
<1>2. Reads8583(11, number) /\ Reads8583(70, network)
  <2>1. network \in Seq(0..9) /\ Len(network) = 3
    OBVIOUS
  <2> HIDE DEF network
  <2>2. Specified(70, 0, 3, TRUE)
    BY EntriesUsed
  <2> QED
    BY <2>1, <2>2, StanReads, NumberReads, Zenon
<1>3. mti \in [1..4 -> 0..9] /\ 11 # 70
  OBVIOUS
<1> HIDE DEF mti, number, network
<1>4. reply = parse_message(build_message(mti, Field(11, number) ++ Field(70, network)))
  <2> DEFINE r == Field(11, number) ++ Field(70, network)
  <2> HIDE DEF r
  <2>1. Response(heard, Approval).mti = mti /\ Response(heard, Approval).fields = r
    BY <1>1 DEF IsoMessage, r
  <2> QED
    BY <2>1, Zenon DEF Back, r
<1> HIDE DEF reply
<1>5. Pair(reply.fields, 11, number, 70, network)
  BY <1>2, <1>3, <1>4, PairIsRead, SMTT(40)
<1>6. /\ Get(reply.fields, 70, <<>>) = network /\ Get(reply.fields, 11, Unknown) = number
  BY <1>5 DEF Pair, Get
<1>7. Get(reply.fields, 39, Approval) = Approval
  BY <1>5 DEF Pair, Get
<1>8. iso_to_soap_network(reply) =
          [responseCode |-> Approval, networkCode |-> network, stan |-> number]
  BY <1>6, <1>7, Zenon DEF iso_to_soap_network
<1> QED
  BY <1>8 DEF Echoed, reply, number, network

\* The elements of a reversal, and what the switch reads of it.
WantsUndone(f, b) ==
    /\ Has(f, "pan", b.card) /\ Has(f, "amountMinor", Decimal(b.cents, 12))
    /\ Has(f, "rrn", b.rrn) /\ DOMAIN f \cap TextElements = {"rrn"}

LEMMA ReverseUndoes ==
    ASSUME NEW b, Request(b)
    PROVE  WantsUndone(Envelope(ReverseElements(b)), b)
<1> DEFINE r == ReverseElements(b)
           f == Envelope(r)
<1>1. DOMAIN r = {"originalMti", "originalStan", "rrn", "amountMinor", "pan"}
  BY DEF ReverseElements
<1>2. /\ r["pan"] = b.card /\ r["amountMinor"] = Decimal(b.cents, 12) /\ r["rrn"] = b.rrn
  BY DEF ReverseElements
<1> HIDE DEF r
<1>3. b.card # Absent /\ b.rrn # Absent
  BY CardGiven, PrintedFits, Zenon DEF Request
<1>4. Decimal(b.cents, 12) # Absent
  <2>1. b.cents \in Nat /\ b.cents < TenTo[12]
    BY DEF Request
  <2>2. Decimal(b.cents, 12) \in Seq(0..9) /\ Len(Decimal(b.cents, 12)) = 12
    BY <2>1, Amount, Zenon
  <2>3. 0 < 12
    OBVIOUS
  <2> QED
    BY <2>2, <2>3, DigitsGiven, Zenon
<1>5. Has(f, "pan", b.card) /\ Has(f, "amountMinor", Decimal(b.cents, 12)) /\ Has(f, "rrn", b.rrn)
  BY <1>1, <1>2, <1>3, <1>4, EnvelopeHas
<1>6. DOMAIN f \subseteq DOMAIN r
  BY DEF Envelope
<1>7. "rrn" \in DOMAIN f
  BY <1>5 DEF Has
<1> HIDE DEF f
<1>8. DOMAIN f \cap TextElements = {"rrn"}
  BY <1>1, <1>6, <1>7 DEF TextElements
<1>9. WantsUndone(f, b)
  BY <1>5, <1>8, Zenon DEF WantsUndone
<1> QED
  BY <1>9 DEF f, r

LEMMA ReverseIsSendable ==
    ASSUME NEW b, Request(b)
    PROVE  Sendable(Envelope(ReverseElements(b)), <<0, 4, 0, 0>>)
<1> DEFINE f == Envelope(ReverseElements(b))
<1>1. WantsUndone(f, b)
  BY ReverseUndoes, Zenon
<1> HIDE DEF f
<1>2. Fits(f)
  <2>1. f["rrn"] = b.rrn
    BY <1>1 DEF WantsUndone, Has
  <2>2. b.rrn \in Seq(Nat) /\ \A i \in 1..Len(b.rrn) : b.rrn[i] \notin Unfit
    BY PrintedFits, Zenon DEF Request
  <2>3. \A i \in DOMAIN b.rrn : b.rrn[i] \notin Unfit
    BY <2>2
  <2> QED
    BY <1>1, <2>1, <2>3, Zenon DEF WantsUndone, Fits
<1>3. Required(<<0, 4, 0, 0>>) = {"pan", "amountMinor", "rrn"}
  BY DEF Required
<1>4. Given(f, "pan") /\ Given(f, "amountMinor") /\ Given(f, "rrn")
  <2>1. b.card # <<>> /\ b.rrn # <<>>
    BY CardGiven, PrintedFits, Zenon DEF Request
  <2>2. Decimal(b.cents, 12) # <<>>
    <3>1. b.cents \in Nat /\ b.cents < TenTo[12]
      BY DEF Request
    <3>2. Decimal(b.cents, 12) \in Seq(0..9) /\ Len(Decimal(b.cents, 12)) = 12
      BY <3>1, Amount, Zenon
    <3>3. 0 < 12
      OBVIOUS
    <3> QED
      BY <3>2, <3>3, NonEmpty, Zenon
  <2> QED
    BY <1>1, <2>1, <2>2, GivenHas, Zenon DEF WantsUndone
<1>5. "pinBlockHex" \notin DOMAIN f
  BY <1>1 DEF WantsUndone, TextElements
<1>6. ~ Given(f, "pinBlockHex")
  BY <1>5, GivenLacks, Zenon
<1>7. \A e \in Required(<<0, 4, 0, 0>>) : Given(f, e)
  BY <1>3, <1>4
<1>8. <<0, 4, 0, 0>>[2] # 8
  OBVIOUS
<1> QED
  BY <1>2, <1>6, <1>7, <1>8, Zenon DEF Sendable, Mappable, f

\* A message of one or more fields that are read as they were written.
HeardWhole(heard, mti, g, n) ==
    /\ heard.mti = mti /\ heard.fields[11] = next_stan(n)
    /\ \A d \in DOMAIN g : heard.fields[d] = g[d]

LEMMA CleanIsHeard ==
    ASSUME NEW mti \in [1..4 -> 0..9], NEW g, Clean(g), 11 \notin DOMAIN g, NEW n \in Counter
    PROVE  HeardWhole(Heard(IsoMessage(mti, g), next_stan(n)), mti, g, n)
<1> DEFINE heard == Heard(IsoMessage(mti, g), next_stan(n))
<1>1. Fields(g)
  BY DEF Clean, Fields, Reads8583
<1>2. HeardAs(heard, mti, g, n)
  BY <1>1, HeardFields, Zenon
<1> HIDE DEF heard
<1>3. \A d \in DOMAIN g : Normal(d, g[d]) = g[d]
  BY DEF Clean, Reads8583
<1>4. HeardWhole(heard, mti, g, n)
  BY <1>2, <1>3, Zenon DEF HeardWhole, HeardAs
<1> QED
  BY <1>4 DEF heard

HeardReversal(heard, b, n) ==
    /\ heard.mti = <<0, 4, 0, 0>> /\ heard.fields[11] = next_stan(n)
    /\ heard.fields[2] = b.card /\ heard.fields[4] = Decimal(b.cents, 12)
    /\ heard.fields[37] = b.rrn

LEMMA ReversalIsHeard ==
    ASSUME NEW b, Request(b), NEW n \in Counter
    PROVE  HeardReversal(Heard(soap_to_iso_reverse(Envelope(ReverseElements(b))),
                               next_stan(n)), b, n)
<1> DEFINE f == Envelope(ReverseElements(b))
           heard == Heard(soap_to_iso_reverse(f), next_stan(n))
           amount == Decimal(b.cents, 12)
           g == Field(2, b.card) ++ Field(4, amount) ++ Field(37, b.rrn)
           mti == <<0, 4, 0, 0>>
<1>1. WantsUndone(f, b)
  BY ReverseUndoes, Zenon
<1> HIDE DEF f
<1>2. f.pan = b.card /\ f.amountMinor = amount /\ f.rrn = b.rrn
  BY <1>1 DEF WantsUndone, Has
<1>3. soap_to_iso_reverse(f) = IsoMessage(mti, g)
  BY <1>2, Zenon DEF soap_to_iso_reverse
<1>4. mti \in [1..4 -> 0..9]
  OBVIOUS
<1>5. Clean(g)
  <2>1. Reads8583(2, b.card) /\ Reads8583(4, amount) /\ Reads8583(37, b.rrn)
    BY SentIsRead, Zenon
  <2> HIDE DEF amount
  <2> QED
    BY <2>1, CleanOne, CleanTwo, Zenon
<1> HIDE DEF amount
<1>6. /\ DOMAIN g = {2, 4, 37} /\ g[2] = b.card /\ g[4] = amount /\ g[37] = b.rrn
  BY DEF Field, ++
<1>7. 11 \notin DOMAIN g
  BY <1>6
<1> HIDE DEF g, mti
<1>8. HeardWhole(Heard(IsoMessage(mti, g), next_stan(n)), mti, g, n)
  BY <1>4, <1>5, <1>7, CleanIsHeard, Zenon
<1>9. heard = Heard(IsoMessage(mti, g), next_stan(n))
  BY <1>3, Zenon
<1>10. HeardWhole(heard, mti, g, n)
  BY <1>8, <1>9, Zenon
<1> HIDE DEF heard
<1>11. HeardReversal(heard, b, n)
  BY <1>6, <1>10 DEF HeardWhole, HeardReversal, mti, amount
<1> QED
  BY <1>11 DEF heard, f

LEMMA OriginalReads ==
    ASSUME NEW x \in Seq(0..9), Len(x) = 42
    PROVE  Reads8583(90, x)
<1> DEFINE length == 42
<1>1. Specified(90, 0, length, TRUE) /\ Len(x) = length
  BY EntriesUsed
<1> HIDE DEF length
<1> QED
  BY <1>1, NumberReads, ZenonT(40)

HeardAutomatic(heard, m, n) ==
    /\ heard.mti = <<0, 4, 0, 0>> /\ heard.fields[11] = next_stan(n)
    /\ heard.fields[90] = m.fields[90]
    /\ \E k \in Counter : SubSeq(heard.fields[90], 5, 10) = next_stan(k)

LEMMA AutomaticIsHeard ==
    ASSUME NEW m \in AutomaticReversals, NEW n \in Counter
    PROVE  HeardAutomatic(Heard(m, next_stan(n)), m, n)
<1> DEFINE mti == <<0, 4, 0, 0>>
           original == <<0, 2, 0, 0>>
           data(k) == build_original_data_elements(original, next_stan(k))
<1>1. PICK k \in Counter : m = IsoMessage(mti, Field(90, data(k)))
  BY DEF AutomaticReversals
<1> DEFINE number == next_stan(k)
           zeros == Replicate(0, 32)
           start == original \o number
           x == start \o zeros
<1>0. Digit = 0..9
  BY DEF Digit
<1>2. data(k) = x
  BY DEF build_original_data_elements
<1>3. number \in Seq(Digit) /\ Len(number) = 6
  BY <1>0, NextStan, Zenon
<1>4. zeros \in Seq(Digit) /\ Len(zeros) = 32
  <2>1. 0 \in Digit /\ 32 \in Nat
    BY DEF Digit
  <2> QED
    BY <2>1, Replicated, Zenon
<1>5. original \in Seq(Digit) /\ Len(original) = 4
  BY DEF Digit
<1> HIDE DEF number, zeros, original
<1>6. IsJoined(Digit, start, original, number)
  BY <1>3, <1>5, Joined, Zenon
<1> HIDE DEF start
<1>7. start \in Seq(Digit) /\ Len(start) = 10 /\ \A i \in 1..6 : start[4 + i] = number[i]
  BY <1>3, <1>5, <1>6 DEF IsJoined
<1>8. IsJoined(Digit, x, start, zeros)
  BY <1>4, <1>7, Joined, Zenon
<1> HIDE DEF x
<1>9. x \in Seq(Digit) /\ Len(x) = 42 /\ \A i \in 1..10 : x[i] = start[i]
  BY <1>4, <1>7, <1>8 DEF IsJoined
<1> DEFINE cut == SubSeq(x, 5, 10)
<1>10. IsCut(Digit, cut, x, 5, 10)
  <2>1. 5 \in Nat \ {0} /\ 10 \in Nat /\ 5 <= 10 + 1 /\ 10 <= 42
    OBVIOUS
  <2> QED
    BY <1>9, <2>1, Cut, Zenon
<1> HIDE DEF cut
<1>11. cut \in Seq(Digit) /\ Len(cut) = 6 /\ \A i \in 1..6 : cut[i] = x[4 + i]
  BY <1>10 DEF IsCut
<1>12. \A i \in 1..6 : x[4 + i] = number[i]
  <2>1. \A i \in 1..6 : 4 + i \in 1..10
    OBVIOUS
  <2> QED
    BY <1>7, <1>9, <2>1
<1>13. cut = number
  BY <1>3, <1>11, <1>12, SeqEqual
<1>14. Reads8583(90, x)
  <2>1. x \in Seq(0..9)
    BY <1>0, <1>9
  <2> QED
    BY <1>9, <2>1, OriginalReads, Zenon
<1> DEFINE g == Field(90, x)
           heard == Heard(m, next_stan(n))
<1>15. DOMAIN g = {90} /\ g[90] = x
  BY DEF Field
<1>16. Clean(g)
  BY <1>14, CleanOne, Zenon
<1>17. 11 \notin DOMAIN g
  BY <1>15
<1>18. mti \in [1..4 -> 0..9]
  OBVIOUS
<1>19. m = IsoMessage(mti, g)
  BY <1>1, <1>2, Zenon
<1> HIDE DEF mti, g, data
<1>20. HeardWhole(heard, mti, g, n)
  BY <1>16, <1>17, <1>18, <1>19, CleanIsHeard, Zenon
<1>21. m.fields = g
  BY <1>19 DEF IsoMessage
<1> HIDE DEF heard
<1>22. heard.mti = mti /\ heard.fields[11] = next_stan(n) /\ heard.fields[90] = x
  BY <1>15, <1>20 DEF HeardWhole
<1>23. SubSeq(heard.fields[90], 5, 10) = next_stan(k)
  BY <1>13, <1>22 DEF cut, number
<1>24. HeardAutomatic(heard, m, n)
  BY <1>15, <1>21, <1>22, <1>23, Zenon DEF HeardAutomatic, mti
<1> QED
  BY <1>24 DEF heard

LEMMA EchoIsSendable == Sendable(Envelope(EchoElements), <<0, 8, 0, 0>>)
<1> DEFINE f == Envelope(EchoElements)
           network == <<3, 0, 1>>
           mti == <<0, 8, 0, 0>>
<1>1. network # Absent /\ network # <<>>
  BY DEF Absent
<1>2. DOMAIN EchoElements = {"networkCode"} /\ EchoElements["networkCode"] = network
  BY DEF EchoElements
<1>3. Has(f, "networkCode", network)
  BY <1>1, <1>2, EnvelopeHas
<1>4. DOMAIN f \subseteq {"networkCode"}
  BY <1>2 DEF Envelope
<1> HIDE DEF f
<1>5. GetOr(f, "networkCode", network) = network
  BY <1>1, <1>3, GivenHas, Zenon
<1>6. network \in NetworkCodes
  BY DEF NetworkCodes
<1>7. Fits(f)
  BY <1>4 DEF Fits, TextElements
<1>8. Required(mti) = {} /\ mti[2] # 2
  BY DEF Required
<1> HIDE DEF network, mti
<1>9. \A e \in Required(mti) : Given(f, e)
  BY <1>8
<1>10. mti[2] = 8 => GetOr(f, "networkCode", network) \in NetworkCodes
  BY <1>5, <1>6, Zenon
<1>11. Sendable(f, mti)
  BY <1>7, <1>8, <1>9, <1>10, Zenon DEF Sendable, Mappable, network
<1> QED
  BY <1>11 DEF f, mti

LEMMA EchoIsHeard ==
    ASSUME NEW n \in Counter
    PROVE  LET heard == Heard(soap_to_iso_network(Envelope(EchoElements)), next_stan(n)) IN
           /\ heard.mti = <<0, 8, 0, 0>> /\ heard.fields[11] = next_stan(n)
           /\ heard.fields[70] = <<3, 0, 1>>
<1> DEFINE f == Envelope(EchoElements)
           network == <<3, 0, 1>>
           mti == <<0, 8, 0, 0>>
           g == Field(70, network)
           heard == Heard(soap_to_iso_network(f), next_stan(n))
<1>1. network # Absent /\ network # <<>>
  BY DEF Absent
<1>2. Has(f, "networkCode", network)
  <2>1. "networkCode" \in DOMAIN EchoElements /\ EchoElements["networkCode"] = network
    BY DEF EchoElements
  <2> QED
    BY <1>1, <2>1, EnvelopeHas
<1> HIDE DEF f
<1>3. GetOr(f, "networkCode", network) = network
  BY <1>1, <1>2, GivenHas, Zenon
<1>4. soap_to_iso_network(f) = IsoMessage(mti, g)
  BY <1>3, Zenon DEF soap_to_iso_network
<1>5. Reads8583(70, network)
  <2>1. network \in Seq(0..9) /\ Len(network) = 3
    OBVIOUS
  <2> HIDE DEF network
  <2>2. Specified(70, 0, 3, TRUE)
    BY EntriesUsed
  <2> QED
    BY <2>1, <2>2, NumberReads, Zenon
<1>6. mti \in [1..4 -> 0..9]
  OBVIOUS
<1> HIDE DEF network
<1>7. DOMAIN g = {70} /\ g[70] = network
  BY DEF Field
<1>8. Clean(g)
  BY <1>5, CleanOne, Zenon
<1>9. 11 \notin DOMAIN g
  BY <1>7
<1> HIDE DEF mti, g
<1>10. HeardWhole(heard, mti, g, n)
  BY <1>4, <1>6, <1>8, <1>9, CleanIsHeard, Zenon
<1> HIDE DEF heard
<1>11. heard.mti = mti /\ heard.fields[11] = next_stan(n) /\ heard.fields[70] = network
  BY <1>7, <1>10 DEF HeardWhole
<1> QED
  BY <1>11, Zenon DEF heard, mti, network, f

LEMMA ReversalsNameOriginal == ReversalNamesOriginal
<1>1. ASSUME NEW a \in Authorisations
      PROVE  /\ Sendable(Envelope(ReverseElements(a.asked)), <<0, 4, 0, 0>>)
             /\ \A de \in {2, 4, 37} : a.reversal.fields[de] = a.heard.fields[de]
             /\ Acknowledged(a.reversal, a.after)
  <2>1. PICK b \in AuthorizeRequest, n \in Counter : a = Authorisation(b, n)
    BY SMT DEF Authorisations
  <2>2. /\ a.asked = b /\ a.after = n
        /\ a.heard = Heard(soap_to_iso_authorize(Asked(b, n)), next_stan(n))
        /\ a.reversal = Heard(soap_to_iso_reverse(Envelope(ReverseElements(b))),
                              next_stan(n))
    BY <2>1 DEF Authorisation
  <2>3. Request(b)
    BY TriedRequest, Zenon
  <2>4. Hears(a.heard, b, n)
    BY <2>2, <2>3, AuthorisationIsHeard, Zenon
  <2>5. /\ a.heard.fields[2] = b.card /\ a.heard.fields[4] = Decimal(b.cents, 12)
        /\ a.heard.fields[37] = b.rrn
    BY <2>4, Zenon DEF Hears
  <2>6. /\ a.reversal.mti = <<0, 4, 0, 0>> /\ a.reversal.fields[11] = next_stan(n)
        /\ a.reversal.fields[2] = b.card /\ a.reversal.fields[4] = Decimal(b.cents, 12)
        /\ a.reversal.fields[37] = b.rrn
    <3>1. HeardReversal(a.reversal, b, n)
      BY <2>2, <2>3, ReversalIsHeard, Zenon
    <3> QED
      BY <3>1, Zenon DEF HeardReversal
  <2>7. \A de \in {2, 4, 37} : a.reversal.fields[de] = a.heard.fields[de]
    BY <2>5, <2>6, Zenon
  <2>8. Acknowledged(a.reversal, n)
    BY <2>6, IsAcknowledged, Zenon
  <2>9. Sendable(Envelope(ReverseElements(b)), <<0, 4, 0, 0>>)
    BY <2>3, ReverseIsSendable, Zenon
  <2> QED
    BY <2>2, <2>7, <2>8, <2>9, Zenon
<1>2. ASSUME NEW m \in AutomaticReversals, NEW n \in Counter,
             NEW heard \in {Heard(m, next_stan(n))}
      PROVE  /\ heard.fields[90] = m.fields[90]
             /\ \E k \in Counter : SubSeq(heard.fields[90], 5, 10) = next_stan(k)
             /\ Acknowledged(heard, n)
  <2>1. heard = Heard(m, next_stan(n))
    OBVIOUS
  <2>2. /\ heard.mti = <<0, 4, 0, 0>> /\ heard.fields[11] = next_stan(n)
        /\ heard.fields[90] = m.fields[90]
        /\ \E k \in Counter : SubSeq(heard.fields[90], 5, 10) = next_stan(k)
    <3>1. HeardAutomatic(heard, m, n)
      BY <2>1, AutomaticIsHeard, Zenon
    <3> QED
      BY <3>1, Zenon DEF HeardAutomatic
  <2>3. Acknowledged(heard, n)
    BY <2>2, IsAcknowledged, Zenon
  <2> QED
    BY <2>2, <2>3, Zenon
<1>3. ASSUME NEW n \in Counter,
             NEW heard \in {Heard(soap_to_iso_network(Envelope(EchoElements)), next_stan(n))}
      PROVE  Echoed(heard, n)
  <2>1. heard = Heard(soap_to_iso_network(Envelope(EchoElements)), next_stan(n))
    OBVIOUS
  <2>2. /\ heard.mti = <<0, 8, 0, 0>> /\ heard.fields[11] = next_stan(n)
        /\ heard.fields[70] = <<3, 0, 1>>
    BY <2>1, EchoIsHeard, Zenon
  <2> QED
    BY <2>2, IsEchoed, Zenon
<1> QED
  BY <1>1, <1>2, <1>3, EchoIsSendable, Zenon DEF ReversalNamesOriginal

-----------------------------------------------------------------------------
(* Faults.                                                                 *)

\* The elements of the answer to a message that was answered.
LEMMA BodyOfAnswer ==
    ASSUME NEW rrn, NEW code \in Code8583, NEW sent,
           sent = IsoMessage(<<0, 2, 0, 0>>, Field(11, Unknown) ++ Field(37, rrn))
    PROVE  LET body == iso_to_soap_authorize(Response(sent, code), rrn)
           IN  "responseCode" \in DOMAIN body /\ body["responseCode"] = code
<1> DEFINE f == Field(11, Unknown) ++ Field(37, rrn)
           approved == code = Approval
           fc == Field(11, Unknown) ++ Field(37, rrn) ++ Field(39, code)
           r == fc ++ With(approved, 38, AuthId)
           response == Response(sent, code)
<1>1. f[11] = Unknown /\ f[37] = rrn
  BY DEF Field, ++
<1>2. response = IsoMessage(<<0, 2, 1, 0>>, r)
  <2>1. sent.mti = <<0, 2, 0, 0>> /\ sent.fields[11] = Unknown /\ sent.fields[37] = rrn
    BY <1>1 DEF IsoMessage
  <2>2. sent.mti[2] # 8 /\ sent.mti[2] # 4
    BY <2>1
  <2> QED
    BY <2>1, <2>2, Zenon DEF Response, AuthId
<1>3. Has(fc, 39, code)
  BY DEF Field, ++, Has
<1> HIDE DEF fc
<1>4. Has(r, 39, code)
  BY <1>3, HasFirst, Zenon
<1> HIDE DEF r, response
<1>5. response.fields = r
  BY <1>2 DEF IsoMessage
<1>6. Get(response.fields, 39, <<>>) = code
  BY <1>4, <1>5 DEF Get, Has
<1> DEFINE body == iso_to_soap_authorize(response, rrn)
<1>7. "responseCode" \in DOMAIN body /\ body["responseCode"] = code
  BY <1>6 DEF iso_to_soap_authorize
<1> QED
  BY <1>7 DEF response

LEMMA OutcomeOfAnswer ==
    ASSUME NEW body, NEW b, NEW code \in Code8583,
           "responseCode" \in DOMAIN body, body["responseCode"] = code
    PROVE  AuthorizeResponse(Envelope(body), b).outcome =
               IF code = Approval THEN "approved" ELSE "declined"
<1> DEFINE result == Envelope(body)
<1>1. code # Absent
  BY CodeReads, Zenon
<1>2. Has(result, "responseCode", code)
  BY <1>1, EnvelopeHas
<1> HIDE DEF result
<1>3. Get(result, "responseCode", <<>>) = code
  BY <1>2 DEF Get, Has
<1>4. AuthorizeResponse(result, b).outcome = IF code = Approval THEN "approved" ELSE "declined"
  BY <1>3 DEF AuthorizeResponse
<1> QED
  BY <1>4 DEF result

LEMMA AnswerTold ==
    ASSUME NEW body, NEW b, NEW code \in Code8583,
           "responseCode" \in DOMAIN body, body["responseCode"] = code
    PROVE  ToldApart(Told(soap_endpoint("answered", body), b), "answered", code)
<1> DEFINE r == soap_endpoint("answered", body)
           outcome == AuthorizeResponse(Envelope(body), b).outcome
           answer == Told(r, b)
<1>1. r = Reply(200, TRUE, NoFault, Envelope(body))
  BY DEF soap_endpoint
<1> HIDE DEF r
<1>2. r.envelope = TRUE /\ r.fault = NoFault /\ r.elements = Envelope(body)
  BY <1>1 DEF Reply
<1>3. parse_response(r) = "response"
  BY <1>2, Zenon DEF parse_response
<1>4. outcome = IF code = Approval THEN "approved" ELSE "declined"
  BY OutcomeOfAnswer, Zenon
<1>5. answer = [status |-> 200, outcome |-> outcome]
  BY <1>2, <1>3 DEF Told
<1> HIDE DEF outcome, answer
<1>6. answer.status = 200 /\ answer.outcome = outcome
  BY <1>5
<1>7. ToldApart(answer, "answered", code)
  BY <1>4, <1>6 DEF ToldApart
<1> QED
  BY <1>7 DEF answer, r

\* The other fates: whatever the elements, the reply is a fault.
FaultFates == {"unread", "unmapped", "silent", "cut", "unlinked"}

LEMMA FaultTold ==
    ASSUME NEW body, NEW b, NEW code, NEW fate \in FaultFates
    PROVE  ToldApart(Told(soap_endpoint(fate, body), b), fate, code)
<1> DEFINE r == soap_endpoint(fate, body)
           answer == Told(r, b)
<1>1. /\ fate = "unread" => r = Fault(500, "Client", "none")
      /\ fate = "unmapped" => r = Fault(500, "Client", "VALIDATION")
      /\ fate = "silent" => r = Fault(504, "Server", "SWITCH_TIMEOUT")
      /\ fate \in {"cut", "unlinked"} => r = Fault(503, "Server", "SWITCH_DOWN")
  <2>1. ASSUME fate = "unread" PROVE r = Fault(500, "Client", "none")
    BY <2>1 DEF soap_endpoint
  <2>2. ASSUME fate = "unmapped" PROVE r = Fault(500, "Client", "VALIDATION")
    BY <2>2 DEF soap_endpoint
  <2>3. ASSUME fate = "silent" PROVE r = Fault(504, "Server", "SWITCH_TIMEOUT")
    BY <2>3 DEF soap_endpoint
  <2>4. ASSUME fate = "cut" PROVE r = Fault(503, "Server", "SWITCH_DOWN")
    BY <2>4 DEF soap_endpoint
  <2>5. ASSUME fate = "unlinked" PROVE r = Fault(503, "Server", "SWITCH_DOWN")
    BY <2>5 DEF soap_endpoint
  <2> QED
    BY <2>1, <2>2, <2>3, <2>4, <2>5
<1> HIDE DEF r
<1>2. PICK status, kind, detail : r = Fault(status, kind, detail) /\ kind # "none"
  BY <1>1 DEF FaultFates
<1>3. parse_response(r) = "SoapFault"
  BY <1>2 DEF parse_response, Fault, Reply, NoFault
<1>4. answer = IF r.fault.detail = "SWITCH_TIMEOUT"
               THEN [status |-> 200, outcome |-> "unknown"]
               ELSE [status |-> IF r.fault.detail = "SWITCH_DOWN" THEN 503
                                ELSE IF r.fault.code = "Client" THEN 422 ELSE 502,
                     outcome |-> "none"]
  BY <1>3 DEF Told
<1> HIDE DEF answer
<1>5. /\ fate \in {"unread", "unmapped"} => answer = [status |-> 422, outcome |-> "none"]
      /\ fate = "silent" => answer = [status |-> 200, outcome |-> "unknown"]
      /\ fate \in {"cut", "unlinked"} => answer = [status |-> 503, outcome |-> "none"]
  BY <1>1, <1>4 DEF Fault, Reply
<1>6. ToldApart(answer, fate, code)
  BY <1>5 DEF ToldApart, FaultFates
<1> QED
  BY <1>6 DEF answer, r

LEMMA PageTold ==
    ASSUME NEW page \in ErrorPages, NEW b
    PROVE  Told(page, b).status = 503
<1>1. PICK status \in {502, 503, 504} : page = Reply(status, FALSE, NoFault, <<>>)
  BY ZenonT(40) DEF ErrorPages
<1>2. page.envelope = FALSE /\ page.status >= 500
  BY <1>1 DEF Reply
<1>3. parse_response(page) = "SoapProtocolError"
  BY <1>2, Zenon DEF parse_response
<1>4. Told(page, b) = [status |-> 503, outcome |-> "none"]
  BY <1>2, <1>3 DEF Told
<1> QED
  BY <1>4

LEMMA FaultsToldApart == FaultsAreToldApart
<1> DEFINE b == [rrn |-> Rrn(12)]
           sent == IsoMessage(<<0, 2, 0, 0>>, Field(11, Unknown) ++ Field(37, b.rrn))
<1>1. ASSUME NEW fate \in Fates, NEW code \in {Approval, <<53, 49>>}
      PROVE  LET body == iso_to_soap_authorize(Response(sent, code), b.rrn)
             IN  ToldApart(Told(soap_endpoint(fate, body), b), fate, code)
  <2> DEFINE body == iso_to_soap_authorize(Response(sent, code), b.rrn)
  <2>1. code \in Code8583
    BY Zenon DEF Code8583
  <2>2. "responseCode" \in DOMAIN body /\ body["responseCode"] = code
    BY <2>1, BodyOfAnswer, SMTT(40)
  <2> HIDE DEF body, b
  <2>3. ASSUME fate = "answered"
        PROVE  ToldApart(Told(soap_endpoint(fate, body), b), fate, code)
    <3>1. ToldApart(Told(soap_endpoint("answered", body), b), "answered", code)
      BY <2>1, <2>2, AnswerTold, Zenon
    <3> QED
      BY <2>3, <3>1, Zenon
  <2>4. ASSUME fate \in FaultFates
        PROVE  ToldApart(Told(soap_endpoint(fate, body), b), fate, code)
    BY <2>4, FaultTold, Zenon
  <2>5. fate = "answered" \/ fate \in FaultFates
    BY DEF Fates, FaultFates
  <2>6. ToldApart(Told(soap_endpoint(fate, body), b), fate, code)
    BY <2>3, <2>4, <2>5
  <2> QED
    BY <2>6 DEF body, b
<1>2. \A page \in ErrorPages : Told(page, b).status = 503
  <2> HIDE DEF b
  <2> QED
    BY PageTold
<1> QED
  BY <1>1, <1>2, Zenon DEF FaultsAreToldApart

-----------------------------------------------------------------------------
\* What the adapter asks, PIN and reversal included, is what the switch reads,
\* and what the switch answers, or that it does not, is what the adapter tells,
\* for every value of the gateway's STAN counter and of the HSM's KSN counter.
THEOREM AnswersAreNamed == Spec => []AnswersNameRequests
<1>1. AuthorisationArrives /\ FaultsAreToldApart /\ ReversalNamesOriginal
  BY AuthorisationsArrive, FaultsToldApart, ReversalsNameOriginal, Zenon
<1>2. AnswersNameRequests
  BY <1>1 DEF AnswersNameRequests
<1> QED
  BY <1>2, PTL
=============================================================================
