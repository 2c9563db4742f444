---------------------------- MODULE ZeroRleProofs ----------------------------
(***************************************************************************)
(* What LPTCompress and LPTDecompress compute, for every length of sector  *)
(* and every width of byte: the functions of ZeroRle are the loops of the  *)
(* code (CodeTurn, CompressIs, RestoredTurn), and the one inverts the      *)
(* other (CodecLossless).                                                  *)
(*                                                                         *)
(* The argument needs to know what a code stands for.  A reading of a code *)
(* z is a function mark: mark[k] is the number of data bytes that the      *)
(* first k bytes of z stand for.  The compressor, which writes z from left *)
(* to right, always has a reading of what it wrote (LoopTurn, CodeLoops);  *)
(* the receiver follows that reading (ReadingGuides, RestoredIs).          *)
(*                                                                         *)
(* Induction over the bytes of a sector is by the least counterexample     *)
(* (LeastNumber).                                                          *)
(***************************************************************************)
EXTENDS ZeroRle, SequenceTheorems, WellFoundedInduction, TLAPS

-----------------------------------------------------------------------------
(* Induction, and flattened sequences.                                     *)

\* Every set of numbers has a least one: the induction that the provers can use.
LEMMA LeastNumber ==
    ASSUME NEW T, T \subseteq Nat, T # {}
    PROVE  \E m \in T : \A y \in T : m <= y
<1>1. PICK R : R = {ss \in Nat \X Nat : ss[1] < ss[2]}
  OBVIOUS
<1>2. IsWellFoundedOn(R, Nat)
  BY <1>1, NatLessThanWellFounded DEF OpToRel
<1>3. \E x \in T : \A y \in T : ~ (<<y, x>> \in R)
  BY <1>2, WFMin
<1>4. \A x, y \in T : ~ (<<y, x>> \in R) => x <= y
  BY <1>1
<1> QED
  BY <1>3, <1>4

\* h is f, flattened from the left.
Flattens(h, f, n) == /\ DOMAIN h = 1 .. n
                     /\ \A i \in 1 .. n : h[i] = IF i = 1 THEN f[i] ELSE h[i - 1] \o f[i]

\* The recursive function in FlattenSeq exists, and is the only one.
LEMMA FlattensExists ==
    ASSUME NEW S, NEW n \in Nat, NEW f \in [1 .. n -> Seq(S)]
    PROVE  \E h \in [1 .. n -> Seq(S)] : Flattens(h, f, n)
<1> DEFINE T == {m \in 0 .. n : ~ \E h \in [1 .. m -> Seq(S)] : Flattens(h, f, m)}
<1>1. T = {}
  <2> SUFFICES ASSUME T # {} PROVE FALSE
    OBVIOUS
  <2>1. T \subseteq Nat
    OBVIOUS
  <2>2. PICK m \in T : \A y \in T : m <= y
    <3> HIDE DEF T
    <3> QED
      BY <2>1, LeastNumber
  <2>3. CASE m = 0
    <3> DEFINE h == [i \in 1 .. 0 |-> <<>>]
    <3>1. h \in [1 .. 0 -> Seq(S)] /\ Flattens(h, f, 0)
      BY DEF Flattens
    <3> QED
      BY <2>2, <2>3, <3>1
  <2>4. CASE m # 0
    <3>0. m \in 0 .. n
      OBVIOUS
    <3>1. m - 1 \in 0 .. n /\ m - 1 \notin T /\ m \in 1 .. n
      <4> HIDE DEF T
      <4> QED
        BY <2>2, <2>4, <3>0
    <3>2. PICK g \in [1 .. m - 1 -> Seq(S)] : Flattens(g, f, m - 1)
      BY <3>1
    <3> DEFINE top == IF m = 1 THEN f[m] ELSE g[m - 1] \o f[m]
               h == [i \in 1 .. m |-> IF i = m THEN top ELSE g[i]]
    <3>3. f[m] \in Seq(S)
      BY <3>1
    <3>4. m # 1 => m - 1 \in 1 .. m - 1 /\ g[m - 1] \in Seq(S)
      BY <3>1
    <3>5. top \in Seq(S)
      BY <3>3, <3>4, ConcatProperties
    <3> HIDE DEF top
    <3>6. h \in [1 .. m -> Seq(S)]
      BY <3>1, <3>5
    <3>7. \A i \in 1 .. m : h[i] = IF i = 1 THEN f[i] ELSE h[i - 1] \o f[i]
      <4> SUFFICES ASSUME NEW i \in 1 .. m
                   PROVE  h[i] = IF i = 1 THEN f[i] ELSE h[i - 1] \o f[i]
        OBVIOUS
      <4>1. CASE i = m
        BY <3>1, <4>1 DEF top
      <4>2. CASE i # m
        <5>1. i \in 1 .. m - 1 /\ h[i] = g[i]
          BY <3>1, <4>2
        <5>2. i # 1 => i - 1 \in 1 .. m - 1 /\ h[i - 1] = g[i - 1]
          BY <3>1, <5>1
        <5> QED
          BY <3>2, <5>1, <5>2 DEF Flattens
      <4> QED
        BY <4>1, <4>2
    <3> HIDE DEF h
    <3>8. Flattens(h, f, m)
      BY <3>6, <3>7 DEF Flattens
    <3> QED
      BY <2>2, <3>6, <3>8
  <2> QED
    BY <2>3, <2>4
<1> QED
  BY <1>1

\* Two of them agree where both are defined.
LEMMA FlattensOnce ==
    ASSUME NEW n \in Nat, NEW m \in 0 .. n, NEW f, NEW g, NEW h,
           Flattens(g, f, m), Flattens(h, f, n)
    PROVE  \A i \in 1 .. m : g[i] = h[i]
<1> DEFINE T == {i \in 1 .. m : g[i] # h[i]}
<1>1. T = {}
  <2> SUFFICES ASSUME T # {} PROVE FALSE
    OBVIOUS
  <2>1. T \subseteq Nat
    OBVIOUS
  <2>2. PICK i \in T : \A y \in T : i <= y
    <3> HIDE DEF T
    <3> QED
      BY <2>1, LeastNumber
  <2>3. i \in 1 .. m /\ i \in 1 .. n
    OBVIOUS
  <2>4. i # 1
    BY <2>2, <2>3 DEF Flattens
  <2>5. i - 1 \in 1 .. m /\ i - 1 \notin T
    BY <2>2, <2>4
  <2>6. g[i - 1] = h[i - 1]
    BY <2>5
  <2>7. g[i] = g[i - 1] \o f[i] /\ h[i] = h[i - 1] \o f[i]
    BY <2>3, <2>4 DEF Flattens
  <2> QED
    BY <2>6, <2>7
<1> QED
  BY <1>1

\* FlattenSeq, from left to right
LEMMA FlattenStep ==
    ASSUME NEW S, NEW n \in Nat, NEW f \in [1 .. n -> Seq(S)]
    PROVE  /\ FlattenSeq(f) \in Seq(S)
           /\ n = 0 => FlattenSeq(f) = <<>>
           /\ n # 0 => FlattenSeq(f) = FlattenSeq([i \in 1 .. n - 1 |-> f[i]]) \o f[n]
<1>1. ASSUME NEW m \in Nat, NEW g \in [1 .. m -> Seq(S)]
      PROVE  \E h \in [1 .. m -> Seq(S)] :
                 /\ Flattens(h, g, m)
                 /\ FlattenSeq(g) = IF m = 0 THEN <<>> ELSE h[m]
  <2>1. g \in Seq(Seq(S)) /\ Len(g) = m
    OBVIOUS
  <2> DEFINE Is(h) == h = [i \in 1 .. m |-> IF i = 1 THEN g[i] ELSE h[i - 1] \o g[i]]
             h0 == CHOOSE h : Is(h)
  <2>2. PICK h \in [1 .. m -> Seq(S)] : Flattens(h, g, m)
    BY FlattensExists
  <2>3. Is(h)
    BY <2>2 DEF Flattens
  <2>4. Is(h0)
    <3> HIDE DEF Is
    <3> QED
      BY <2>3
  <2>5. FlattenSeq(g) = IF m = 0 THEN g ELSE h0[m]
    BY <2>1 DEF FlattenSeq
  <2> HIDE DEF h0
  <2>6. DOMAIN h0 = 1 .. m /\ \A i \in 1 .. m : h0[i] = IF i = 1 THEN g[i] ELSE h0[i - 1] \o g[i]
    <3>1. h0 = [i \in 1 .. m |-> IF i = 1 THEN g[i] ELSE h0[i - 1] \o g[i]]
      BY <2>4
    <3> DEFINE k == [i \in 1 .. m |-> IF i = 1 THEN g[i] ELSE h0[i - 1] \o g[i]]
    <3>2. DOMAIN k = 1 .. m /\ \A i \in 1 .. m : k[i] = IF i = 1 THEN g[i] ELSE h0[i - 1] \o g[i]
      OBVIOUS
    <3>3. k = h0
      BY <3>1
    <3> HIDE DEF k
    <3> QED
      BY <3>2, <3>3
  <2>7. Flattens(h0, g, m)
    BY <2>6 DEF Flattens
  <2>8. \A i \in 1 .. m : h0[i] = h[i]
    <3>1. m \in 0 .. m
      OBVIOUS
    <3> QED
      BY <2>2, <2>7, <3>1, FlattensOnce
  <2>9. m = 0 => g = <<>>
    OBVIOUS
  <2>10. m # 0 => m \in 1 .. m
    OBVIOUS
  <2> QED
    BY <2>2, <2>5, <2>8, <2>9, <2>10
<1>2. PICK h \in [1 .. n -> Seq(S)] :
          Flattens(h, f, n) /\ FlattenSeq(f) = IF n = 0 THEN <<>> ELSE h[n]
  BY <1>1
<1>3. CASE n = 0
  BY <1>2, <1>3
<1>4. CASE n # 0
  <2>1. FlattenSeq(f) = h[n] /\ h[n] \in Seq(S)
    BY <1>2, <1>4
  <2> DEFINE e == [i \in 1 .. n - 1 |-> f[i]]
  <2>2. n - 1 \in Nat /\ e \in [1 .. n - 1 -> Seq(S)]
    BY <1>4
  <2>3. PICK g \in [1 .. n - 1 -> Seq(S)] :
            Flattens(g, e, n - 1) /\ FlattenSeq(e) = IF n - 1 = 0 THEN <<>> ELSE g[n - 1]
    <3> HIDE DEF e
    <3> QED
      BY <1>1, <2>2
  <2>4. \A i \in 1 .. n - 1 : g[i] = h[i]
    <3>1. PICK k \in 0 .. n : k = n - 1
      BY <2>2
    <3>2. DOMAIN g = 1 .. k
      BY <3>1
    <3>3. \A i \in 1 .. k : g[i] = IF i = 1 THEN f[i] ELSE g[i - 1] \o f[i]
      BY <2>3, <3>1 DEF Flattens
    <3>4. Flattens(g, f, k)
      BY <3>2, <3>3 DEF Flattens
    <3>5. Flattens(h, f, n)
      BY <1>2
    <3>6. \A i \in 1 .. k : g[i] = h[i]
      <4>1. \A m \in 0 .. n : \A u : Flattens(u, f, m) => \A i \in 1 .. m : u[i] = h[i]
        BY <3>5, FlattensOnce
      <4> QED
        BY <3>4, <4>1
    <3> QED
      BY <3>1, <3>6
  <2> HIDE DEF e
  <2>5. CASE n = 1
    <3>1. h[n] = f[n] /\ FlattenSeq(e) = <<>> /\ f[n] \in Seq(S)
      BY <1>2, <2>3, <2>5 DEF Flattens
    <3>2. <<>> \o f[n] = f[n]
      BY <3>1, ConcatEmptySeq
    <3> QED
      BY <1>4, <2>1, <3>1, <3>2 DEF e
  <2>6. CASE n # 1
    <3>1. n \in 1 .. n /\ n - 1 \in 1 .. n - 1 /\ n - 1 # 0
      BY <1>4, <2>6
    <3>2. h[n] = h[n - 1] \o f[n]
      BY <1>2, <2>6, <3>1 DEF Flattens
    <3>3. FlattenSeq(e) = h[n - 1]
      BY <2>3, <2>4, <3>1
    <3> QED
      BY <1>4, <2>1, <3>2, <3>3 DEF e
  <2> QED
    BY <2>5, <2>6
<1> QED
  BY <1>3, <1>4
-----------------------------------------------------------------------------
(* LPTCompress, turn by turn.                                              *)

\* The code written for the first n bytes
Code(data, n) == FlattenSeq([k \in 1 .. n |-> Writes(data, k)])

\* Max is the maximum of a set of numbers with a bound.
LEMMA MaxIs ==
    ASSUME NEW n \in Nat, NEW T, T \subseteq 0 .. n, T # {}
    PROVE  Max(T) \in T /\ \A y \in T : Max(T) >= y
<1> DEFINE U == {x \in 0 .. n : n - x \in T}
<1>1. U \subseteq Nat
  OBVIOUS
<1>2. U # {}
  <2>1. PICK y \in T : TRUE
    OBVIOUS
  <2>2. n - y \in 0 .. n /\ n - (n - y) = y
    OBVIOUS
  <2> QED
    BY <2>1, <2>2
<1>3. PICK m \in U : \A y \in U : m <= y
  <2> HIDE DEF U
  <2> QED
    BY <1>1, <1>2, LeastNumber
<1>4. n - m \in T
  OBVIOUS
<1>5. \A y \in T : n - m >= y
  <2> SUFFICES ASSUME NEW y \in T PROVE n - m >= y
    OBVIOUS
  <2>1. n - y \in U
    <3>1. y \in 0 .. n /\ n - y \in 0 .. n /\ n - (n - y) = y
      OBVIOUS
    <3> QED
      BY <3>1
  <2>2. m <= n - y
    BY <1>3, <2>1
  <2>3. y \in 0 .. n /\ m \in 0 .. n
    OBVIOUS
  <2> QED
    BY <2>2, <2>3
<1>6. \E x \in T : \A y \in T : x >= y
  BY <1>4, <1>5
<1>7. Max(T) = CHOOSE x \in T : \A y \in T : x >= y
  BY DEF Max
<1> QED
  BY <1>6, <1>7

\* The zeros at the end are counted.
LEMMA ZerosTurn ==
    ASSUME NEW data, NEW n \in Nat
    PROVE  /\ ZerosBefore(data, n) \in 0 .. n
           /\ \A j \in n - ZerosBefore(data, n) + 1 .. n : data[j] = 0
           /\ ZerosBefore(data, n + 1) = IF data[n + 1] = 0 THEN ZerosBefore(data, n) + 1 ELSE 0
<1> DEFINE Z(k) == {m \in 0 .. k : \A j \in k - m + 1 .. k : data[j] = 0}
<1>1. ASSUME NEW k \in Nat
      PROVE  /\ ZerosBefore(data, k) \in Z(k)
             /\ \A y \in Z(k) : ZerosBefore(data, k) >= y
  <2>1. 0 \in Z(k) /\ Z(k) \subseteq 0 .. k
    OBVIOUS
  <2>2. ZerosBefore(data, k) = Max(Z(k))
    BY DEF ZerosBefore
  <2> HIDE DEF Z
  <2> QED
    BY <2>1, <2>2, MaxIs
<1> DEFINE x == ZerosBefore(data, n)
           y == ZerosBefore(data, n + 1)
<1>2. n + 1 \in Nat
  OBVIOUS
<1>3. x \in Z(n) /\ y \in Z(n + 1) /\ (\A m \in Z(n) : x >= m) /\ \A m \in Z(n + 1) : y >= m
  <2> HIDE DEF Z
  <2> QED
    BY <1>1, <1>2
<1> HIDE DEF x, y
<1>4. x \in 0 .. n /\ y \in 0 .. n + 1
  BY <1>3
<1>5. CASE data[n + 1] = 0
  <2>1. x + 1 \in Z(n + 1)
    <3>1. \A j \in (n + 1) - (x + 1) + 1 .. n + 1 : data[j] = 0
      <4> SUFFICES ASSUME NEW j \in (n + 1) - (x + 1) + 1 .. n + 1 PROVE data[j] = 0
        OBVIOUS
      <4>1. j = n + 1 \/ j \in n - x + 1 .. n
        BY <1>4
      <4> QED
        BY <1>3, <1>5, <4>1
    <3> QED
      BY <1>4, <3>1
  <2>2. y # 0 => y - 1 \in Z(n)
    <3> SUFFICES ASSUME y # 0 PROVE y - 1 \in Z(n)
      OBVIOUS
    <3>1. \A j \in n - (y - 1) + 1 .. n : data[j] = 0
      <4> SUFFICES ASSUME NEW j \in n - (y - 1) + 1 .. n PROVE data[j] = 0
        OBVIOUS
      <4>1. j \in (n + 1) - y + 1 .. n + 1
        BY <1>4
      <4> QED
        BY <1>3, <4>1
    <3> QED
      BY <1>4, <3>1
  <2>3. y >= x + 1
    BY <1>3, <2>1
  <2>4. y - 1 <= x
    BY <1>3, <1>4, <2>2, <2>3
  <2>5. y = x + 1
    BY <1>4, <2>3, <2>4
  <2> QED
    BY <1>3, <1>4, <1>5, <2>5 DEF x, y
<1>6. CASE data[n + 1] # 0
  <2>1. y = 0
    <3> SUFFICES ASSUME y # 0 PROVE FALSE
      OBVIOUS
    <3>1. n + 1 \in (n + 1) - y + 1 .. n + 1
      BY <1>4
    <3> QED
      BY <1>3, <1>6, <3>1
  <2> QED
    BY <1>3, <1>4, <1>6, <2>1 DEF x, y
<1> QED
  BY <1>5, <1>6

\* The remainder of the next number
LEMMA NextRemainder ==
    ASSUME NEW B \in Nat \ {0}, NEW z \in Nat
    PROVE  /\ z % B \in 0 .. B - 1
           /\ (z + 1) % B = IF z % B = B - 1 THEN 0 ELSE (z % B) + 1
<1>1. \A k \in Nat, r \in 0 .. B - 1 : (k * B + r) % B = r
  <2> SUFFICES ASSUME NEW k \in Nat, NEW r \in 0 .. B - 1 PROVE (k * B + r) % B = r
    OBVIOUS
  <2> QED
    OBVIOUS
<1>2. PICK k \in Nat, r \in 0 .. B - 1 : k = z \div B /\ r = z % B
  OBVIOUS
<1>3. z = k * B + r
  <2>1. z = B * (z \div B) + (z % B)
    OBVIOUS
  <2> QED
    BY <1>2, <2>1
<1>4. CASE r = B - 1
  <2>1. z + 1 = (k + 1) * B + 0
    BY <1>3, <1>4
  <2>2. k + 1 \in Nat /\ 0 \in 0 .. B - 1
    OBVIOUS
  <2>3. ((k + 1) * B + 0) % B = 0
    BY <1>1, <2>2
  <2> QED
    BY <1>2, <1>4, <2>1, <2>3
<1>5. CASE r # B - 1
  <2>1. z + 1 = k * B + (r + 1) /\ r + 1 \in 0 .. B - 1
    BY <1>3, <1>5
  <2>2. (k * B + (r + 1)) % B = r + 1
    BY <1>1, <2>1
  <2> QED
    BY <1>2, <1>5, <2>1, <2>2
<1> QED
  BY <1>4, <1>5

\* The open run is the counter of the loop.
LEMMA RunTurn ==
    ASSUME NEW data, NEW n \in Nat
    PROVE  /\ OpenRun(data, n) \in 0 .. ByteMax
           /\ OpenRun(data, 0) = 0
           /\ OpenRun(data, n + 1) = EncRun(OpenRun(data, n), data[n + 1])
<1> DEFINE B == ByteMax + 1
           z == ZerosBefore(data, n)
<1>1. B \in Nat \ {0} /\ ByteMax \in Nat /\ B - 1 = ByteMax
  BY RleAssumption
<1>2. z \in Nat /\ ZerosBefore(data, n + 1) = IF data[n + 1] = 0 THEN z + 1 ELSE 0
  BY ZerosTurn
<1>3. ZerosBefore(data, 0) = 0
  <2>1. ZerosBefore(data, 0) \in 0 .. 0
    BY ZerosTurn
  <2> QED
    BY <2>1
<1>4. OpenRun(data, n) = z % B /\ OpenRun(data, n + 1) = ZerosBefore(data, n + 1) % B
  BY DEF OpenRun
<1>5. OpenRun(data, 0) = 0 % B
  BY <1>3 DEF OpenRun
<1>6. 0 % B = 0
  BY <1>1
<1> HIDE DEF B, z
<1>7. z % B \in 0 .. B - 1 /\ (z + 1) % B = IF z % B = B - 1 THEN 0 ELSE (z % B) + 1
  BY <1>1, <1>2, NextRemainder
<1> QED
  BY <1>1, <1>2, <1>4, <1>5, <1>6, <1>7 DEF EncRun

\* What a turn writes
LEMMA WritesTurn ==
    ASSUME NEW data \in Sector, NEW n \in 0 .. SectorLen - 1, NEW o \in Seq(Octet)
    PROVE  /\ Writes(data, n + 1) \in Seq(Octet)
           /\ o \o Writes(data, n + 1) = EncOut(o, OpenRun(data, n), data[n + 1])
<1> DEFINE d == data[n + 1]
           r == OpenRun(data, n)
<1>1. /\ d \in Octet /\ r \in 0 .. ByteMax /\ n \in Nat
      /\ OpenRun(data, n + 1) = EncRun(r, d)
      /\ ByteMax \in Nat \ {0}
  <2>1. n \in Nat /\ n + 1 \in 1 .. SectorLen /\ ByteMax \in Nat \ {0}
    BY RleAssumption
  <2>2. d \in Octet
    BY <2>1 DEF Sector
  <2> QED
    BY <2>1, <2>2, RunTurn
<1>2. (n + 1) - 1 = n
  BY <1>1
<1>3. Writes(data, n + 1) =
          IF d = 0
          THEN CASE EncRun(r, d) = 1 -> <<0>>
                 [] EncRun(r, d) = 0 -> <<ByteMax>>
                 [] OTHER -> <<>>
          ELSE IF r = 0 THEN <<d>>
          ELSE <<r - 1, d>>
  <2>1. OpenRun(data, (n + 1) - 1) = r
    BY <1>2
  <2>2. data[n + 1] = d
    OBVIOUS
  <2> HIDE DEF d, r
  <2> QED
    BY <1>1, <2>1, <2>2 DEF Writes
<1> HIDE DEF d, r
<1>4. \A x \in Octet : <<x>> \in Seq(Octet) /\ o \o <<x>> = Append(o, x)
  OBVIOUS
<1>5. o \o <<>> = o /\ <<>> \in Seq(Octet)
  BY ConcatEmptySeq
<1>6. 0 \in Octet /\ ByteMax \in Octet
  BY <1>1 DEF Octet
<1>7. CASE d = 0 /\ r = 0
  <2>1. EncRun(r, d) = 1 /\ EncOut(o, r, d) = Append(o, 0)
    BY <1>1, <1>7 DEF EncRun, EncOut
  <2>2. Writes(data, n + 1) = <<0>>
    BY <1>3, <1>7, <2>1
  <2> QED
    BY <1>4, <1>6, <2>1, <2>2 DEF d, r
<1>8. CASE d = 0 /\ r = ByteMax
  <2>1. EncRun(r, d) = 0 /\ EncOut(o, r, d) = Append(o, ByteMax)
    BY <1>1, <1>8 DEF EncRun, EncOut
  <2>2. Writes(data, n + 1) = <<ByteMax>>
    BY <1>3, <1>8, <2>1
  <2> QED
    BY <1>4, <1>6, <2>1, <2>2 DEF d, r
<1>9. CASE d = 0 /\ r \notin {0, ByteMax}
  <2>1. EncRun(r, d) = r + 1 /\ EncOut(o, r, d) = o
    BY <1>1, <1>9 DEF EncRun, EncOut
  <2>2. Writes(data, n + 1) = <<>>
    BY <1>1, <1>3, <1>9, <2>1
  <2> QED
    BY <1>5, <2>1, <2>2 DEF d, r
<1>10. CASE d # 0 /\ r = 0
  <2>1. EncOut(o, r, d) = Append(o, d) /\ Writes(data, n + 1) = <<d>>
    BY <1>3, <1>10 DEF EncOut
  <2> QED
    BY <1>1, <1>4, <2>1 DEF d, r
<1>11. CASE d # 0 /\ r # 0
  <2>1. EncOut(o, r, d) = o \o <<r - 1, d>> /\ Writes(data, n + 1) = <<r - 1, d>>
    BY <1>3, <1>11 DEF EncOut
  <2>2. <<r - 1, d>> \in Seq(Octet)
    BY <1>1, <1>11 DEF Octet
  <2> QED
    BY <2>1, <2>2 DEF d, r
<1> QED
  BY <1>7, <1>8, <1>9, <1>10, <1>11

\* The code grows by what a turn writes.
LEMMA CodeTurn ==
    ASSUME NEW data \in Sector
    PROVE  /\ Code(data, 0) = <<>>
           /\ \A n \in 0 .. SectorLen : Code(data, n) \in Seq(Octet)
           /\ \A n \in 0 .. SectorLen - 1 :
                 Code(data, n + 1) = EncOut(Code(data, n), OpenRun(data, n), data[n + 1])
<1>0. SectorLen \in Nat \ {0}
  BY RleAssumption
<1>1. \A k \in 1 .. SectorLen : Writes(data, k) \in Seq(Octet)
  <2> SUFFICES ASSUME NEW k \in 1 .. SectorLen PROVE Writes(data, k) \in Seq(Octet)
    OBVIOUS
  <2>1. PICK n \in 0 .. SectorLen - 1 : k = n + 1
    <3>1. k - 1 \in 0 .. SectorLen - 1 /\ k = (k - 1) + 1
      BY <1>0
    <3> QED
      BY <3>1
  <2>2. <<>> \in Seq(Octet)
    OBVIOUS
  <2> QED
    BY <2>1, <2>2, WritesTurn
<1>2. ASSUME NEW n \in 0 .. SectorLen
      PROVE  /\ Code(data, n) \in Seq(Octet)
             /\ n = 0 => Code(data, n) = <<>>
             /\ n # 0 => Code(data, n) = Code(data, n - 1) \o Writes(data, n)
  <2> DEFINE f == [k \in 1 .. n |-> Writes(data, k)]
  <2>1. f \in [1 .. n -> Seq(Octet)]
    BY <1>0, <1>1
  <2>2. n # 0 => f[n] = Writes(data, n)
    OBVIOUS
  <2>3. [i \in 1 .. n - 1 |-> f[i]] = [k \in 1 .. n - 1 |-> Writes(data, k)]
    OBVIOUS
  <2>4. Code(data, n) = FlattenSeq(f)
    BY DEF Code
  <2>5. Code(data, n - 1) = FlattenSeq([i \in 1 .. n - 1 |-> f[i]])
    BY <2>3 DEF Code
  <2> HIDE DEF f
  <2>6. n \in Nat
    OBVIOUS
  <2> QED
    BY <2>1, <2>2, <2>4, <2>5, <2>6, FlattenStep
<1>3. Code(data, 0) = <<>>
  BY <1>0, <1>2
<1>4. ASSUME NEW n \in 0 .. SectorLen - 1
      PROVE  Code(data, n + 1) = EncOut(Code(data, n), OpenRun(data, n), data[n + 1])
  <2>1. n + 1 \in 0 .. SectorLen /\ n + 1 # 0 /\ (n + 1) - 1 = n /\ n \in 0 .. SectorLen
    BY <1>0
  <2>2. Code(data, n + 1) = Code(data, n) \o Writes(data, n + 1)
    BY <1>2, <2>1
  <2>3. Code(data, n) \in Seq(Octet)
    BY <1>2, <2>1
  <2> QED
    BY <2>2, <2>3, WritesTurn
<1> QED
  BY <1>2, <1>3, <1>4
-----------------------------------------------------------------------------
(* What a code stands for.                                                 *)

\* Byte k of z stands for the data bytes from + 1 .. to.
ByteReads(data, z, k, from, to) ==
    /\ to \in from .. SectorLen
    /\ \A j \in from + 1 .. to : data[j] = IF IsCount(z, k) THEN 0 ELSE z[k]
    /\ to = from + (IF IsCount(z, k) THEN z[k] + 1 ELSE IF z[k] # 0 THEN 1 ELSE 0)

Reading(data, z, mark) ==
    /\ mark \in [0 .. Len(z) -> 0 .. SectorLen]
    /\ mark[0] = 0
    /\ \A k \in 1 .. Len(z) : ByteReads(data, z, k, mark[k - 1], mark[k])

\* The next byte of the code would be a count, or could not be one.
AwaitsCount(z) == /\ Len(z) > 0 /\ z[Len(z)] = 0
                  /\ Len(z) > 1 => z[Len(z) - 1] # 0

AtBoundary(z) == Len(z) > 0 => z[Len(z)] # 0

\* What holds at the head of the loop of LPTCompress, with n bytes dealt with:
\* the open run are the last r of them, and o stands for all before the run.
Loop(data, o, r, n) ==
    /\ n > 0 => Len(o) > 0
    /\ r <= n
    /\ \A j \in n - r + 1 .. n : data[j] = 0
    /\ IF r = 0 THEN AtBoundary(o) ELSE AwaitsCount(o)
    /\ \E mark : Reading(data, o, mark) /\ mark[Len(o)] = n - r

\* A turn of the loop of LPTCompress keeps the counter in a byte, writes at
\* most two bytes, and writes a byte unless a run goes on.
LEMMA EncTurn ==
    ASSUME NEW o \in Seq(Octet), NEW r \in 0 .. ByteMax, NEW d \in Octet
    PROVE  /\ EncRun(r, d) \in 0 .. ByteMax
           /\ \/ /\ d = 0 /\ r = 0
                 /\ EncOut(o, r, d) = Append(o, 0) /\ EncRun(r, d) = 1
              \/ /\ d = 0 /\ r = ByteMax
                 /\ EncOut(o, r, d) = Append(o, r) /\ EncRun(r, d) = 0
              \/ /\ d = 0 /\ r \notin {0, ByteMax}
                 /\ EncOut(o, r, d) = o /\ EncRun(r, d) = r + 1
              \/ /\ d # 0 /\ r = 0
                 /\ EncOut(o, r, d) = Append(o, d) /\ EncRun(r, d) = 0
              \/ /\ d # 0 /\ r # 0
                 /\ EncOut(o, r, d) = Append(Append(o, r - 1), d)
                 /\ EncRun(r, d) = 0
<1> USE RleAssumption DEF Octet
<1>1. CASE d = 0 /\ r = 0
  BY <1>1 DEF EncOut, EncRun
<1>2. CASE d = 0 /\ r # 0 /\ r = ByteMax
  BY <1>2 DEF EncOut, EncRun
<1>3. CASE d = 0 /\ r \notin {0, ByteMax}
  BY <1>3 DEF EncOut, EncRun
<1>4. CASE d # 0 /\ r = 0
  BY <1>4 DEF EncOut, EncRun
<1>5. CASE d # 0 /\ r # 0
  <2>1. EncOut(o, r, d) = o \o <<r - 1, d>>
    BY <1>5 DEF EncOut
  <2>2. o \o <<r - 1, d>> = Append(Append(o, r - 1), d)
    BY <1>5
  <2> QED
    BY <1>5, <2>1, <2>2 DEF EncRun
<1> QED
  BY <1>1, <1>2, <1>3, <1>4, <1>5

\* A turn of the loop of LPTDecompress writes bytes.
LEMMA DecTurn ==
    ASSUME NEW z \in Seq(Octet), NEW k \in 1 .. Len(z)
    PROVE  DecAdds(z, k) \in Seq(Octet)
<1> USE RleAssumption DEF Octet
<1>1. z[k] \in Octet
  OBVIOUS
<1>2. Zeros(z[k] + 1) \in Seq(Octet)
  BY <1>1 DEF Zeros
<1>3. z[k] # 0 => <<z[k]>> \in Seq(Octet)
  BY <1>1
<1>4. CASE IsCount(z, k)
  BY <1>2, <1>4 DEF DecAdds
<1>5. CASE ~IsCount(z, k) /\ z[k] # 0
  BY <1>3, <1>5 DEF DecAdds
<1>6. CASE ~IsCount(z, k) /\ z[k] = 0
  BY <1>6 DEF DecAdds
<1> QED
  BY <1>4, <1>5, <1>6

\* A reading of a code extends to a reading of the code with one more byte.
LEMMA ReadingExtends ==
    ASSUME NEW data \in Sector,
           NEW z \in Seq(Octet), NEW mark, Reading(data, z, mark),
           NEW b \in Octet, NEW to \in 0 .. SectorLen,
           ByteReads(data, Append(z, b), Len(z) + 1, mark[Len(z)], to)
    PROVE  \E m : Reading(data, Append(z, b), m) /\ m[Len(z) + 1] = to
<1> DEFINE m == [k \in 0 .. Len(z) + 1 |-> IF k <= Len(z) THEN mark[k] ELSE to]
<1>1. Append(z, b) \in Seq(Octet) /\ Len(Append(z, b)) = Len(z) + 1
  OBVIOUS
<1>2. m \in [0 .. Len(z) + 1 -> 0 .. SectorLen] /\ m[0] = 0 /\ m[Len(z) + 1] = to
  BY DEF Reading
<1>3. ASSUME NEW k \in 1 .. Len(z) + 1
      PROVE  ByteReads(data, Append(z, b), k, m[k - 1], m[k])
  <2>1. CASE k = Len(z) + 1
    BY <2>1
  <2>2. CASE k # Len(z) + 1
    <3>1. k \in 1 .. Len(z) /\ m[k - 1] = mark[k - 1] /\ m[k] = mark[k]
      BY <2>2
    <3>2. Append(z, b)[k] = z[k] /\ (IsCount(Append(z, b), k) <=> IsCount(z, k))
      BY <3>1 DEF IsCount
    <3>3. ByteReads(data, z, k, mark[k - 1], mark[k])
      BY <3>1 DEF Reading
    <3> QED
      BY <3>1, <3>2, <3>3 DEF ByteReads
  <2> QED
    BY <2>1, <2>2
<1>4. Reading(data, Append(z, b), m)
  BY <1>1, <1>2, <1>3 DEF Reading
<1> QED
  BY <1>2, <1>4
-----------------------------------------------------------------------------
\* A turn of the loop of LPTCompress preserves what holds at its head.
LEMMA LoopTurn ==
    ASSUME NEW data \in Sector,
           NEW o \in Seq(Octet), NEW r \in 0 .. ByteMax,
           NEW n \in 0 .. SectorLen - 1, Loop(data, o, r, n)
    PROVE  /\ Loop(data, EncOut(o, r, data[n + 1]), EncRun(r, data[n + 1]), n + 1)
           /\ EncOut(o, r, data[n + 1]) \in Seq(Octet)
           /\ Len(EncOut(o, r, data[n + 1])) <= Len(o) + 2
<1> DEFINE d == data[n + 1]
           L == Len(o)
<1> USE RleAssumption
<1>0. d \in Octet /\ n + 1 \in 1 .. SectorLen /\ L \in Nat
  BY DEF Sector
<1>1. PICK mark : Reading(data, o, mark) /\ mark[L] = n - r
  BY DEF Loop
<1>2. r <= n /\ \A j \in n - r + 1 .. n : data[j] = 0
  BY DEF Loop
<1>3. r = 0 => AtBoundary(o)
  BY DEF Loop
<1>4. r # 0 => AwaitsCount(o)
  BY DEF Loop
<1>5. CASE d = 0 /\ r = 0
  <2>1. EncOut(o, r, d) = Append(o, 0) /\ EncRun(r, d) = 1
    BY <1>0, <1>5, EncTurn
  <2>2. ByteReads(data, Append(o, 0), L + 1, mark[L], n)
    BY <1>0, <1>1, <1>3, <1>5 DEF ByteReads, IsCount, AtBoundary
  <2>3. \E m : Reading(data, Append(o, 0), m) /\ m[L + 1] = n
    BY <1>0, <1>1, <2>2, ReadingExtends DEF Octet
  <2>4. AwaitsCount(Append(o, 0))
    BY <1>3, <1>5 DEF AwaitsCount, AtBoundary
  <2>5. Append(o, 0) \in Seq(Octet) /\ Len(Append(o, 0)) = L + 1
    BY DEF Octet
  <2>6. \A j \in n + 1 .. n + 1 : data[j] = 0
    BY <1>5
  <2> QED
    BY <1>0, <2>1, <2>3, <2>4, <2>5, <2>6 DEF Loop
<1>6. CASE d = 0 /\ r = ByteMax
  <2>1. EncOut(o, r, d) = Append(o, r) /\ EncRun(r, d) = 0 /\ r # 0
    BY <1>0, <1>6, EncTurn
  <2>2. \A j \in n - r + 1 .. n + 1 : data[j] = 0
    BY <1>2, <1>6
  <2>3. IsCount(Append(o, r), L + 1) /\ Append(o, r)[L + 1] = r
    BY <1>4, <2>1 DEF IsCount, AwaitsCount
  <2>4. ByteReads(data, Append(o, r), L + 1, mark[L], n + 1)
    BY <1>0, <1>1, <1>2, <2>2, <2>3 DEF ByteReads
  <2>5. \E m : Reading(data, Append(o, r), m) /\ m[L + 1] = n + 1
    BY <1>0, <1>1, <2>4, ReadingExtends DEF Octet
  <2>6. Append(o, r) \in Seq(Octet) /\ Len(Append(o, r)) = L + 1
    BY DEF Octet
  <2>7. AtBoundary(Append(o, r))
    BY <2>1, <2>3, <2>6 DEF AtBoundary
  <2> QED
    BY <1>0, <2>1, <2>5, <2>6, <2>7 DEF Loop
<1>7. CASE d = 0 /\ r \notin {0, ByteMax}
  <2>1. EncOut(o, r, d) = o /\ EncRun(r, d) = r + 1
    BY <1>0, <1>7, EncTurn
  <2>2. \A j \in n - r + 1 .. n + 1 : data[j] = 0
    BY <1>2, <1>7
  <2>3. AwaitsCount(o) /\ L > 0
    BY <1>4, <1>7 DEF AwaitsCount
  <2> QED
    BY <1>0, <1>1, <1>2, <2>1, <2>2, <2>3 DEF Loop
<1>8. CASE d # 0 /\ r = 0
  <2>1. EncOut(o, r, d) = Append(o, d) /\ EncRun(r, d) = 0
    BY <1>0, <1>8, EncTurn
  <2>2. ~IsCount(Append(o, d), L + 1) /\ Append(o, d)[L + 1] = d
    BY <1>3, <1>8 DEF IsCount, AtBoundary
  <2>3. ByteReads(data, Append(o, d), L + 1, mark[L], n + 1)
    BY <1>0, <1>1, <1>8, <2>2 DEF ByteReads
  <2>4. \E m : Reading(data, Append(o, d), m) /\ m[L + 1] = n + 1
    BY <1>0, <1>1, <2>3, ReadingExtends
  <2>5. Append(o, d) \in Seq(Octet) /\ Len(Append(o, d)) = L + 1
    BY <1>0
  <2>6. AtBoundary(Append(o, d))
    BY <1>8, <2>2, <2>5 DEF AtBoundary
  <2> QED
    BY <1>0, <2>1, <2>4, <2>5, <2>6 DEF Loop
<1>9. CASE d # 0 /\ r # 0
  <2> DEFINE o1 == Append(o, r - 1)
  <2>1. EncOut(o, r, d) = Append(o1, d) /\ EncRun(r, d) = 0
    <3> HIDE DEF d
    <3> QED
      BY <1>0, <1>9, EncTurn
  <2>2. /\ o1 \in Seq(Octet) /\ Len(o1) = L + 1 /\ o1[L + 1] = r - 1
        /\ L > 0 => o1[L] = o[L]
    BY <1>0, <1>9 DEF Octet
  <2>3. IsCount(o1, L + 1)
    BY <1>4, <1>9 DEF IsCount, AwaitsCount
  <2>4. ByteReads(data, o1, L + 1, mark[L], n)
    BY <1>0, <1>1, <1>2, <2>2, <2>3 DEF ByteReads
  <2>5. PICK m1 : Reading(data, o1, m1) /\ m1[L + 1] = n
    BY <1>0, <1>1, <1>9, <2>4, ReadingExtends DEF Octet
  <2> HIDE DEF o1, d
  <2>6. o[L] = 0 /\ L > 0
    BY <1>4, <1>9 DEF AwaitsCount
  <2>7. /\ Append(o1, d) \in Seq(Octet) /\ Len(Append(o1, d)) = L + 2
        /\ Append(o1, d)[L + 2] = d /\ Append(o1, d)[L] = 0
    BY <1>0, <2>2, <2>6
  <2>8. ~IsCount(Append(o1, d), L + 2)
    BY <1>0, <2>6, <2>7 DEF IsCount
  <2>9. ByteReads(data, Append(o1, d), Len(o1) + 1, m1[Len(o1)], n + 1)
    BY <1>0, <1>9, <2>2, <2>5, <2>7, <2>8 DEF ByteReads, d
  <2>10. \E m : Reading(data, Append(o1, d), m) /\ m[Len(o1) + 1] = n + 1
    BY <1>0, <2>2, <2>5, <2>9, ReadingExtends
  <2>11. AtBoundary(Append(o1, d))
    BY <1>9, <2>7 DEF AtBoundary
  <2> QED
    BY <1>0, <2>1, <2>2, <2>7, <2>10, <2>11 DEF Loop, d
<1> QED
  BY <1>5, <1>6, <1>7, <1>8, <1>9

\* Closing the open run leaves a code that stands for the whole sector.
LEMMA LoopClose ==
    ASSUME NEW data \in Sector,
           NEW o \in Seq(Octet), NEW r \in 0 .. ByteMax, Loop(data, o, r, SectorLen)
    PROVE  /\ EncClose(o, r) \in Seq(Octet)
           /\ Len(EncClose(o, r)) \in 1 .. Len(o) + 1
           /\ \E m : /\ Reading(data, EncClose(o, r), m)
                     /\ m[Len(EncClose(o, r))] = SectorLen
<1> DEFINE L == Len(o)
<1> USE RleAssumption
<1>1. PICK mark : Reading(data, o, mark) /\ mark[L] = SectorLen - r
  BY DEF Loop
<1>2. L \in Nat \ {0} /\ r <= SectorLen
  BY DEF Loop
<1>3. CASE r = 0
  BY <1>1, <1>2, <1>3 DEF EncClose
<1>4. CASE r # 0
  <2>1. EncClose(o, r) = Append(o, r - 1)
    BY <1>4 DEF EncClose
  <2>2. Append(o, r - 1) \in Seq(Octet) /\ Len(Append(o, r - 1)) = L + 1
    BY <1>4 DEF Octet
  <2>3. AwaitsCount(o)
    BY <1>4 DEF Loop
  <2>4. IsCount(Append(o, r - 1), L + 1) /\ Append(o, r - 1)[L + 1] = r - 1
    BY <2>3 DEF IsCount, AwaitsCount
  <2>5. \A j \in SectorLen - r + 1 .. SectorLen : data[j] = 0
    BY DEF Loop
  <2>6. ByteReads(data, Append(o, r - 1), L + 1, mark[L], SectorLen)
    BY <1>1, <1>2, <1>4, <2>4, <2>5 DEF ByteReads
  <2>7. \E m : Reading(data, Append(o, r - 1), m) /\ m[L + 1] = SectorLen
    BY <1>1, <1>4, <2>6, ReadingExtends DEF Octet
  <2> QED
    BY <1>2, <2>1, <2>2, <2>7
<1> QED
  BY <1>3, <1>4

\* The receiver, standing where a reading of the code says, adds the bytes
\* that the reading says, and stays in the sector.
LEMMA ReadingGuides ==
    ASSUME NEW data \in Sector,
           NEW z \in Seq(Octet), NEW mark, Reading(data, z, mark),
           NEW k \in 1 .. Len(z), NEW s \in Seq(Octet),
           Len(s) = mark[k - 1],
           \A j \in 1 .. Len(s) : s[j] = data[j]
    PROVE  /\ ~DecOverflows(z, k, Len(s))
           /\ s \o DecAdds(z, k) \in Seq(Octet)
           /\ Len(s \o DecAdds(z, k)) = mark[k]
           /\ \A j \in 1 .. mark[k] : (s \o DecAdds(z, k))[j] = data[j]
<1> DEFINE a == DecAdds(z, k)
<1>1. ByteReads(data, z, k, mark[k - 1], mark[k])
  BY DEF Reading
<1>2. mark[k - 1] \in 0 .. SectorLen /\ mark[k] \in 0 .. SectorLen /\ z[k] \in Octet
  BY DEF Reading
<1>0. mark[k - 1] \in Nat /\ mark[k] \in Nat /\ z[k] \in Nat
  BY <1>2, RleAssumption DEF Octet
<1>3. a \in Seq(Octet) /\ s \o a \in Seq(Octet)
  BY DecTurn
<1> HIDE DEF a
<1>4. /\ Len(a) = mark[k] - mark[k - 1]
      /\ \A j \in 1 .. Len(a) : a[j] = data[mark[k - 1] + j]
  <2>1. CASE IsCount(z, k)
    <3>1. a = Zeros(z[k] + 1) /\ Len(a) = z[k] + 1 /\ \A j \in 1 .. Len(a) : a[j] = 0
      BY <1>2, <2>1 DEF DecAdds, Zeros, Octet, a
    <3>2. /\ mark[k] = mark[k - 1] + z[k] + 1
          /\ \A j \in mark[k - 1] + 1 .. mark[k] : data[j] = 0
      BY <1>0, <1>1, <2>1 DEF ByteReads
    <3>3. Len(a) = mark[k] - mark[k - 1]
      BY <1>0, <3>1, <3>2
    <3>4. ASSUME NEW j \in 1 .. Len(a)
          PROVE  a[j] = data[mark[k - 1] + j]
      <4>1. mark[k - 1] + j \in mark[k - 1] + 1 .. mark[k]
        BY <1>0, <3>3
      <4> QED
        BY <3>1, <3>2, <4>1
    <3> QED
      BY <3>3, <3>4
  <2>2. CASE ~IsCount(z, k) /\ z[k] # 0
    <3>1. a = <<z[k]>>
      BY <2>2 DEF DecAdds, a
    <3>2. mark[k] = mark[k - 1] + 1 /\ data[mark[k - 1] + 1] = z[k]
      BY <1>1, <1>2, <2>2 DEF ByteReads
    <3> QED
      BY <1>0, <3>1, <3>2
  <2>3. CASE ~IsCount(z, k) /\ z[k] = 0
    <3>1. a = <<>> /\ mark[k] = mark[k - 1]
      BY <1>1, <1>2, <2>3 DEF DecAdds, ByteReads, a
    <3> QED
      BY <1>0, <3>1
  <2> QED
    BY <2>1, <2>2, <2>3
<1>5. ~DecOverflows(z, k, Len(s))
  BY <1>0, <1>1, <1>2, RleAssumption DEF DecOverflows, ByteReads
<1>6. Len(s \o a) = mark[k]
  <2>1. Len(s \o a) = Len(s) + Len(a)
    BY <1>3, ConcatProperties
  <2> QED
    BY <1>0, <1>4, <2>1
<1>7. ASSUME NEW j \in 1 .. mark[k]
      PROVE  (s \o a)[j] = data[j]
  <2>1. CASE j <= Len(s)
    BY <1>0, <1>3, <2>1
  <2>2. CASE j > Len(s)
    <3>1. j - Len(s) \in 1 .. Len(a) /\ (s \o a)[j] = a[j - Len(s)]
      BY <1>0, <1>3, <1>4, <2>2
    <3> QED
      BY <1>0, <1>4, <3>1
  <2>3. j \in Int /\ Len(s) \in Int
    OBVIOUS
  <2>4. j <= Len(s) \/ j > Len(s)
    BY <2>3
  <2> QED
    BY <2>1, <2>2, <2>4
<1> QED
  BY <1>3, <1>5, <1>6, <1>7 DEF a

\* What has been written always has a reading, up to the open run.
LEMMA CodeLoops ==
    ASSUME NEW data \in Sector, NEW n \in 0 .. SectorLen
    PROVE  Loop(data, Code(data, n), OpenRun(data, n), n)
<1> DEFINE T == {m \in 0 .. SectorLen : ~Loop(data, Code(data, m), OpenRun(data, m), m)}
<1>0. SectorLen \in Nat \ {0}
  BY RleAssumption
<1>1. T = {}
  <2> SUFFICES ASSUME T # {} PROVE FALSE
    OBVIOUS
  <2>1. T \subseteq Nat
    BY <1>0
  <2>2. PICK m \in T : \A y \in T : m <= y
    <3> HIDE DEF T
    <3> QED
      BY <2>1, LeastNumber
  <2>3. CASE m = 0
    <3> DEFINE start == [k \in 0 .. 0 |-> 0]
    <3>1. Reading(data, <<>>, start) /\ start[Len(<<>>)] = 0
      BY <1>0 DEF Reading
    <3>2. Loop(data, <<>>, 0, 0)
      BY <3>1 DEF Loop, AtBoundary
    <3>3. Code(data, 0) = <<>> /\ OpenRun(data, 0) = 0
      BY CodeTurn, RunTurn
    <3> QED
      BY <2>2, <2>3, <3>2, <3>3
  <2>4. CASE m # 0
    <3>0. m \in 0 .. SectorLen
      OBVIOUS
    <3>1. PICK k \in 0 .. SectorLen - 1 : m = k + 1 /\ k \notin T
      <4>1. m - 1 \in 0 .. SectorLen - 1 /\ m = (m - 1) + 1
        BY <1>0, <2>4, <3>0
      <4>2. m - 1 \notin T
        <5> HIDE DEF T
        <5> QED
          BY <2>2, <3>0
      <4> QED
        BY <4>1, <4>2
    <3>2. k \in 0 .. SectorLen /\ k \in Nat
      BY <1>0, <3>1
    <3>3. Loop(data, Code(data, k), OpenRun(data, k), k)
      BY <3>1, <3>2
    <3>4. Code(data, k) \in Seq(Octet) /\ OpenRun(data, k) \in 0 .. ByteMax
      BY <3>2, CodeTurn, RunTurn
    <3>5. Loop(data, EncOut(Code(data, k), OpenRun(data, k), data[k + 1]),
               EncRun(OpenRun(data, k), data[k + 1]), k + 1)
      BY <3>1, <3>3, <3>4, LoopTurn
    <3>6. /\ Code(data, k + 1) = EncOut(Code(data, k), OpenRun(data, k), data[k + 1])
          /\ OpenRun(data, k + 1) = EncRun(OpenRun(data, k), data[k + 1])
      BY <3>1, <3>2, CodeTurn, RunTurn
    <3> QED
      BY <2>2, <3>1, <3>5, <3>6
  <2> QED
    BY <2>3, <2>4
<1> QED
  BY <1>1

\* A turn takes nothing back.
LEMMA EncGrows ==
    ASSUME NEW o \in Seq(Octet), NEW r \in 0 .. ByteMax, NEW d \in Octet
    PROVE  Len(EncOut(o, r, d)) >= Len(o)
<1> USE RleAssumption DEF Octet
<1>1. CASE d = 0 /\ r = 0
  BY <1>1 DEF EncOut
<1>2. CASE d = 0 /\ r # 0 /\ r = ByteMax
  BY <1>2 DEF EncOut
<1>3. CASE d = 0 /\ r \notin {0, ByteMax}
  BY <1>3 DEF EncOut
<1>4. CASE d # 0 /\ r = 0
  BY <1>4 DEF EncOut
<1>5. CASE d # 0 /\ r # 0
  <2>1. EncOut(o, r, d) = o \o <<r - 1, d>>
    BY <1>5 DEF EncOut
  <2>2. Len(o \o <<r - 1, d>>) = Len(o) + 2
    BY <1>5
  <2> QED
    BY <2>1, <2>2
<1> QED
  BY <1>1, <1>2, <1>3, <1>4, <1>5

\* The code only grows.
LEMMA CodeGrows ==
    ASSUME NEW data \in Sector, NEW m \in 0 .. SectorLen
    PROVE  Len(Code(data, m)) <= Len(Code(data, SectorLen))
<1> DEFINE T == {n \in m .. SectorLen : ~(Len(Code(data, m)) <= Len(Code(data, n)))}
<1>0. SectorLen \in Nat \ {0} /\ Len(Code(data, m)) \in Nat
  BY RleAssumption, CodeTurn
<1>1. T = {}
  <2> SUFFICES ASSUME T # {} PROVE FALSE
    OBVIOUS
  <2>1. T \subseteq Nat
    BY <1>0
  <2>2. PICK n \in T : \A y \in T : n <= y
    <3> HIDE DEF T
    <3> QED
      BY <2>1, LeastNumber
  <2>3. n # m /\ n \in m .. SectorLen
    BY <1>0
  <2>4. PICK k \in 0 .. SectorLen - 1 : n = k + 1 /\ k \notin T /\ k >= m
    <3>1. n - 1 \in 0 .. SectorLen - 1 /\ n = (n - 1) + 1 /\ n - 1 >= m
      BY <1>0, <2>3
    <3>2. n - 1 \notin T
      <4> HIDE DEF T
      <4> QED
        BY <2>2, <2>3
    <3> QED
      BY <3>1, <3>2
  <2>5. k \in m .. SectorLen /\ k \in Nat /\ k \in 0 .. SectorLen
    BY <1>0, <2>4
  <2>6. Len(Code(data, m)) <= Len(Code(data, k))
    BY <2>4, <2>5
  <2>7. /\ Code(data, k) \in Seq(Octet) /\ OpenRun(data, k) \in 0 .. ByteMax
        /\ data[k + 1] \in Octet
    BY <1>0, <2>4, <2>5, CodeTurn, RunTurn DEF Sector
  <2>8. Code(data, n) = EncOut(Code(data, k), OpenRun(data, k), data[k + 1])
    BY <2>4, <2>5, CodeTurn
  <2>10. Len(Code(data, n)) >= Len(Code(data, k))
    BY <2>7, <2>8, EncGrows
  <2>11. Len(Code(data, k)) \in Nat /\ Len(Code(data, n)) \in Nat
    BY <2>3, <2>5, <1>0, CodeTurn
  <2>12. Len(Code(data, m)) <= Len(Code(data, n))
    BY <1>0, <2>6, <2>10, <2>11
  <2> QED
    BY <2>12
<1>2. SectorLen \in m .. SectorLen
  BY <1>0
<1> QED
  BY <1>1, <1>2

\* LPTCompress returns 0 or the code of the whole sector, its last run closed; and
\* 0 if the code fills a sector before its end.
LEMMA CompressIs ==
    ASSUME NEW data \in Sector
    PROVE  /\ LPTCompress(data) =
                  LET code == EncClose(Code(data, SectorLen), OpenRun(data, SectorLen))
                  IN  IF EncFull(code) THEN <<>> ELSE code
           /\ \A n \in 0 .. SectorLen : EncFull(Code(data, n)) => LPTCompress(data) = <<>>
<1> DEFINE o == Code(data, SectorLen)
           r == OpenRun(data, SectorLen)
<1>0. SectorLen \in Nat \ {0} /\ SectorLen \in 0 .. SectorLen
  BY RleAssumption
<1>1. o \in Seq(Octet) /\ r \in 0 .. ByteMax
  BY <1>0, CodeTurn, RunTurn
<1>2. LPTCompress(data) = IF EncFull(EncClose(o, r)) THEN <<>> ELSE EncClose(o, r)
  BY DEF LPTCompress, Code
<1>3. ASSUME NEW n \in 0 .. SectorLen, EncFull(Code(data, n))
      PROVE  LPTCompress(data) = <<>>
  <2>1. Len(Code(data, n)) <= Len(o)
    BY CodeGrows
  <2>2. Code(data, n) \in Seq(Octet)
    BY CodeTurn
  <2>3. Len(EncClose(o, r)) >= Len(o)
    <3> HIDE DEF o, r
    <3> QED
      BY <1>1 DEF EncClose
  <2>4. Len(EncClose(o, r)) \in Nat
    <3>1. Loop(data, o, r, SectorLen)
      BY <1>0, CodeLoops
    <3>2. EncClose(o, r) \in Seq(Octet)
      <4> HIDE DEF o, r
      <4> QED
        BY <1>1, <3>1, LoopClose
    <3> QED
      BY <3>2
  <2>5. Len(Code(data, n)) \in Nat /\ Len(o) \in Nat
    BY <1>1, <2>2
  <2>6. Len(Code(data, n)) >= SectorLen
    BY <1>3 DEF EncFull
  <2>7. Len(EncClose(o, r)) >= SectorLen
    <3> HIDE DEF o, r
    <3> QED
      BY <1>0, <2>1, <2>3, <2>4, <2>5, <2>6
  <2> QED
    BY <1>2, <2>7 DEF EncFull
<1> QED
  BY <1>2, <1>3

\* A code that is sent has a reading for the whole sector, and its length fits the
\* header: it is never 0, and less than that of the sector.
LEMMA CompressReads ==
    ASSUME NEW data \in Sector, LPTCompress(data) # <<>>
    PROVE  /\ LPTCompress(data) \in Seq(Octet)
           /\ Len(LPTCompress(data)) \in 1 .. SectorLen - 1
           /\ \E mark : /\ Reading(data, LPTCompress(data), mark)
                        /\ mark[Len(LPTCompress(data))] = SectorLen
<1> DEFINE o == Code(data, SectorLen)
           r == OpenRun(data, SectorLen)
<1>0. SectorLen \in Nat \ {0} /\ SectorLen \in 0 .. SectorLen
  BY RleAssumption
<1>1. o \in Seq(Octet) /\ r \in 0 .. ByteMax /\ Loop(data, o, r, SectorLen)
  BY <1>0, CodeTurn, RunTurn, CodeLoops
<1>2. LPTCompress(data) = EncClose(o, r) /\ ~EncFull(EncClose(o, r))
  BY CompressIs
<1> HIDE DEF o, r
<1>3. /\ EncClose(o, r) \in Seq(Octet)
      /\ Len(EncClose(o, r)) \in 1 .. Len(o) + 1
      /\ \E m : /\ Reading(data, EncClose(o, r), m)
                /\ m[Len(EncClose(o, r))] = SectorLen
  BY <1>1, LoopClose
<1>4. Len(EncClose(o, r)) \in 1 .. SectorLen - 1
  BY <1>0, <1>1, <1>2, <1>3 DEF EncFull
<1> QED
  BY <1>2, <1>3, <1>4
-----------------------------------------------------------------------------
(* LPTDecompress, byte by byte.                                            *)

\* What is restored grows by what a byte of the code adds.
LEMMA RestoredTurn ==
    ASSUME NEW z \in Seq(Octet)
    PROVE  /\ Restored(z, 0) = <<>>
           /\ \A n \in 0 .. Len(z) : Restored(z, n) \in Seq(Octet)
           /\ \A n \in 1 .. Len(z) : Restored(z, n) = Restored(z, n - 1) \o DecAdds(z, n)
<1>1. ASSUME NEW n \in 0 .. Len(z)
      PROVE  /\ Restored(z, n) \in Seq(Octet)
             /\ n = 0 => Restored(z, n) = <<>>
             /\ n # 0 => Restored(z, n) = Restored(z, n - 1) \o DecAdds(z, n)
  <2> DEFINE f == [i \in 1 .. n |-> DecAdds(z, i)]
  <2>1. f \in [1 .. n -> Seq(Octet)]
    <3> SUFFICES ASSUME NEW i \in 1 .. n PROVE DecAdds(z, i) \in Seq(Octet)
      OBVIOUS
    <3>1. i \in 1 .. Len(z)
      OBVIOUS
    <3> QED
      BY <3>1, DecTurn
  <2>2. n # 0 => f[n] = DecAdds(z, n)
    OBVIOUS
  <2>3. [i \in 1 .. n - 1 |-> f[i]] = [i \in 1 .. n - 1 |-> DecAdds(z, i)]
    OBVIOUS
  <2>4. Restored(z, n) = FlattenSeq(f)
    BY DEF Restored
  <2>5. Restored(z, n - 1) = FlattenSeq([i \in 1 .. n - 1 |-> f[i]])
    BY <2>3 DEF Restored
  <2> HIDE DEF f
  <2>6. n \in Nat
    OBVIOUS
  <2> QED
    BY <2>1, <2>2, <2>4, <2>5, <2>6, FlattenStep
<1>2. 0 \in 0 .. Len(z) /\ \A n \in 1 .. Len(z) : n \in 0 .. Len(z) /\ n # 0
  OBVIOUS
<1> QED
  BY <1>1, <1>2

\* Whatever bytes LPTDecompress is given, a sector stays a sector.
LEMMA DecompressTypes ==
    ASSUME NEW buffer \in Sector, NEW z \in Seq(Octet)
    PROVE  LPTDecompress(buffer, z) \in Sector
<1> DEFINE T == {n \in 0 .. Len(z) :
                    \A i \in 1 .. n : ~DecOverflows(z, i, Len(Restored(z, i - 1)))}
<1>1. Len(z) \in Nat /\ T \subseteq 0 .. Len(z) /\ 0 \in T
  OBVIOUS
<1>2. Stops(z) = Max(T)
  BY DEF Stops
<1>3. Stops(z) \in 0 .. Len(z)
  <2> HIDE DEF T
  <2>1. Max(T) \in T
    BY <1>1, MaxIs
  <2> QED
    BY <1>1, <1>2, <2>1
<1>4. PICK r \in Seq(Octet) : r = Restored(z, Stops(z))
  BY <1>3, RestoredTurn
<1>5. LPTDecompress(buffer, z) = [k \in 1 .. SectorLen |-> IF k <= Len(r) THEN r[k] ELSE buffer[k]]
  BY <1>4 DEF LPTDecompress
<1>6. \A k \in 1 .. SectorLen : (IF k <= Len(r) THEN r[k] ELSE buffer[k]) \in Octet
  BY RleAssumption DEF Sector
<1> QED
  BY <1>5, <1>6 DEF Sector

\* What the first bytes of a code restore is what a reading of it says.
LEMMA RestoredIs ==
    ASSUME NEW data \in Sector, NEW z \in Seq(Octet), NEW mark, Reading(data, z, mark)
    PROVE  /\ \A n \in 0 .. Len(z) :
                 /\ Len(Restored(z, n)) = mark[n]
                 /\ \A j \in 1 .. mark[n] : Restored(z, n)[j] = data[j]
           /\ \A k \in 1 .. Len(z) : ~DecOverflows(z, k, Len(Restored(z, k - 1)))
<1> DEFINE Is(n) == /\ Len(Restored(z, n)) = mark[n]
                    /\ \A j \in 1 .. mark[n] : Restored(z, n)[j] = data[j]
           T == {n \in 0 .. Len(z) : ~Is(n)}
<1>1. ASSUME NEW k \in 1 .. Len(z), Is(k - 1)
      PROVE  Is(k) /\ ~DecOverflows(z, k, Len(Restored(z, k - 1)))
  <2> DEFINE s == Restored(z, k - 1)
  <2>1. k - 1 \in 0 .. Len(z) /\ s \in Seq(Octet) /\ Restored(z, k) = s \o DecAdds(z, k)
    <3>1. k - 1 \in 0 .. Len(z)
      OBVIOUS
    <3> QED
      BY <3>1, RestoredTurn
  <2>2. Len(s) = mark[k - 1] /\ \A j \in 1 .. Len(s) : s[j] = data[j]
    BY <1>1
  <2> HIDE DEF s
  <2>3. /\ ~DecOverflows(z, k, Len(s))
        /\ Len(s \o DecAdds(z, k)) = mark[k]
        /\ \A j \in 1 .. mark[k] : (s \o DecAdds(z, k))[j] = data[j]
    BY <2>1, <2>2, ReadingGuides
  <2> QED
    BY <2>1, <2>3 DEF s
<1>2. Is(0)
  <2>1. Restored(z, 0) = <<>> /\ mark[0] = 0
    BY RestoredTurn DEF Reading
  <2> QED
    BY <2>1
<1>3. T = {}
  <2> HIDE DEF Is
  <2> SUFFICES ASSUME T # {} PROVE FALSE
    OBVIOUS
  <2>1. T \subseteq Nat
    OBVIOUS
  <2>2. PICK n \in T : \A y \in T : n <= y
    <3> HIDE DEF T
    <3> QED
      BY <2>1, LeastNumber
  <2>3. n # 0 /\ n \in 0 .. Len(z)
    BY <1>2
  <2>4. n \in 1 .. Len(z) /\ n - 1 \in 0 .. Len(z) /\ n - 1 \notin T
    <3>1. n \in 1 .. Len(z) /\ n - 1 \in 0 .. Len(z)
      BY <2>3
    <3>2. n - 1 \notin T
      <4> HIDE DEF T
      <4> QED
        BY <2>2, <2>3
    <3> QED
      BY <3>1, <3>2
  <2>5. Is(n - 1)
    BY <2>4
  <2> QED
    BY <1>1, <2>2, <2>4, <2>5
<1>4. \A n \in 0 .. Len(z) : Is(n)
  <2> HIDE DEF Is
  <2> QED
    BY <1>3
<1>5. ASSUME NEW k \in 1 .. Len(z)
      PROVE  ~DecOverflows(z, k, Len(Restored(z, k - 1)))
  <2>1. k - 1 \in 0 .. Len(z)
    OBVIOUS
  <2>2. Is(k - 1)
    <3> HIDE DEF Is
    <3> QED
      BY <1>4, <2>1
  <2> QED
    BY <1>1, <2>2
<1> QED
  BY <1>4, <1>5

\* LPTDecompress restores the sector from a code that has a reading for all of it,
\* whatever was in the buffer.
LEMMA Decompresses ==
    ASSUME NEW data \in Sector, NEW z \in Seq(Octet), NEW mark,
           Reading(data, z, mark), mark[Len(z)] = SectorLen, NEW buffer
    PROVE  LPTDecompress(buffer, z) = data
<1> DEFINE T == {n \in 0 .. Len(z) :
                    \A i \in 1 .. n : ~DecOverflows(z, i, Len(Restored(z, i - 1)))}
<1>1. Len(z) \in T
  BY RestoredIs
<1>2. Len(z) \in Nat /\ T \subseteq 0 .. Len(z) /\ T # {}
  BY <1>1
<1>3. Stops(z) = Max(T)
  BY DEF Stops
<1>4. Stops(z) = Len(z)
  <2> HIDE DEF T
  <2>1. Max(T) \in T /\ Max(T) >= Len(z)
    BY <1>1, <1>2, MaxIs
  <2>2. Stops(z) \in 0 .. Len(z)
    BY <1>2, <1>3, <2>1
  <2>3. Stops(z) >= Len(z)
    BY <1>3, <2>1
  <2> QED
    BY <1>2, <2>2, <2>3
<1> DEFINE r == Restored(z, Len(z))
<1>5. Len(r) = SectorLen /\ \A j \in 1 .. SectorLen : r[j] = data[j]
  <2>1. Len(z) \in 0 .. Len(z)
    OBVIOUS
  <2> QED
    BY <2>1, RestoredIs
<1>6. LPTDecompress(buffer, z) = [k \in 1 .. SectorLen |-> IF k <= Len(r) THEN r[k] ELSE buffer[k]]
  BY <1>4 DEF LPTDecompress
<1> HIDE DEF r
<1>7. \A k \in 1 .. SectorLen : k <= Len(r)
  BY <1>5, RleAssumption
<1>8. LPTDecompress(buffer, z) = [k \in 1 .. SectorLen |-> data[k]]
  BY <1>5, <1>6, <1>7
<1> QED
  BY <1>8 DEF Sector

\* The codec is lossless, for every length of sector, every width of byte and every
\* content: what LPTDecompress makes of what LPTCompress returned, unless it returned
\* 0, is the sector; and the length of the code is one that the header can tell from
\* that of a sector sent as it is.
THEOREM CodecLossless ==
    ASSUME NEW data \in Sector, NEW buffer, LPTCompress(data) # <<>>
    PROVE  /\ LPTDecompress(buffer, LPTCompress(data)) = data
           /\ LPTCompress(data) \in Seq(Octet)
           /\ Len(LPTCompress(data)) \in 1 .. SectorLen - 1
<1>1. /\ LPTCompress(data) \in Seq(Octet)
      /\ Len(LPTCompress(data)) \in 1 .. SectorLen - 1
      /\ \E mark : /\ Reading(data, LPTCompress(data), mark)
                   /\ mark[Len(LPTCompress(data))] = SectorLen
  BY CompressReads
<1>2. PICK z \in Seq(Octet) : z = LPTCompress(data)
  BY <1>1
<1>3. PICK mark : Reading(data, z, mark) /\ mark[Len(z)] = SectorLen
  BY <1>1, <1>2
<1>4. LPTDecompress(buffer, z) = data
  BY <1>3, Decompresses
<1> QED
  BY <1>1, <1>2, <1>4
=============================================================================
