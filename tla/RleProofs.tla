------------------------------ MODULE RleProofs ------------------------------
(***************************************************************************)
(* A sector carried over the port arrives, and the steps of the machine    *)
(* compute what ZeroRle says of a whole sector, for every length of sector *)
(* and every width of byte.                                                *)
(*                                                                         *)
(* What the sender has written has a reading (see ZeroRleProofs), and is   *)
(* the code of the bytes it has dealt with (Compressing); the receiver     *)
(* follows that reading (Expanding).                                       *)
(***************************************************************************)
EXTENDS RleMachine, ZeroRleProofs

\* What holds in the loop of LPTCompress.
Compressing ==
    /\ restored = <<>> /\ Len(out) < SectorLen
    /\ out = Code(data, i) /\ c = OpenRun(data, i)
    /\ Loop(data, out, c, i)

\* What holds in the loop of LPTDecompress.
Expanding ==
    /\ out = LPTCompress(data)
    /\ Len(out) \in 1 .. SectorLen - 1
    /\ i <= Len(out)
    /\ \A j \in 1 .. Len(restored) : restored[j] = data[j]
    /\ \E mark : /\ Reading(data, out, mark) /\ mark[Len(out)] = SectorLen
                 /\ Len(restored) = mark[i]

RleInv == /\ Len(out) <= SectorLen + 1
          /\ phase # "failed"
          /\ phase = "compress" => Compressing
          /\ phase = "raw" => LPTCompress(data) = <<>>
          /\ phase = "expand" => Expanding
          /\ phase = "done" => restored = data
-----------------------------------------------------------------------------
\* TypeOK and RleInv are inductive; one step per action of the machine.
LEMMA RleStep == TypeOK /\ RleInv /\ [Next]_vars => TypeOK' /\ RleInv'
<1> SUFFICES ASSUME TypeOK, RleInv, [Next]_vars
             PROVE  TypeOK' /\ RleInv'
  OBVIOUS
<1>0. /\ data \in Sector /\ phase \in Phase /\ i \in 0 .. SectorLen
      /\ c \in 0 .. ByteMax /\ out \in Seq(Octet) /\ restored \in Seq(Octet)
      /\ SectorLen \in Nat \ {0} /\ ByteMax \in Nat \ {0}
  BY RleAssumption DEF TypeOK
<1>1. CASE Compress
  <2>1. /\ phase = "compress" /\ i \in 0 .. SectorLen - 1
        /\ Len(out) < SectorLen /\ Loop(data, out, c, i) /\ restored = <<>>
    BY <1>0, <1>1 DEF Compress, RleInv, Compressing
  <2>2. data[i + 1] \in Octet
    BY <1>0, <2>1 DEF Sector
  <2>3. /\ Loop(data, out', c', i') /\ out' \in Seq(Octet) /\ Len(out') <= Len(out) + 2
        /\ c' \in 0 .. ByteMax
    BY <1>0, <1>1, <2>1, <2>2, LoopTurn, EncTurn DEF Compress
  <2>4. TypeOK'
    BY <1>0, <1>1, <2>1, <2>3 DEF Compress, TypeOK, Phase
  <2>5. Loop(data, out, c, i)'
    BY <1>1, <2>3 DEF Compress, Loop, Reading, ByteReads
  <2>6. out' = Code(data, i + 1) /\ c' = OpenRun(data, i + 1)
    <3>1. out = Code(data, i) /\ c = OpenRun(data, i)
      BY <1>1 DEF Compress, RleInv, Compressing
    <3>2. Code(data, i + 1) = EncOut(Code(data, i), OpenRun(data, i), data[i + 1])
      BY <1>0, <2>1, CodeTurn
    <3>3. OpenRun(data, i + 1) = EncRun(OpenRun(data, i), data[i + 1])
      BY <1>0, <2>1, RunTurn
    <3> QED
      BY <1>1, <3>1, <3>2, <3>3 DEF Compress
  <2>7. data' = data /\ i' = i + 1 /\ i + 1 \in 0 .. SectorLen
    BY <1>0, <1>1, <2>1 DEF Compress
  <2>8. (out = Code(data, i))' /\ (c = OpenRun(data, i))'
    BY <2>6, <2>7
  <2>9. EncFull(out') => (LPTCompress(data) = <<>>)'
    BY <1>0, <2>6, <2>7, CompressIs
  <2> QED
    BY <1>0, <1>1, <2>1, <2>3, <2>4, <2>5, <2>8, <2>9 DEF Compress, RleInv, Compressing, EncFull
<1>2. CASE Close
  <2>1. /\ phase = "compress" /\ Len(out) < SectorLen /\ Loop(data, out, c, SectorLen)
        /\ restored = <<>>
    BY <1>0, <1>2 DEF Close, RleInv, Compressing
  <2>2. /\ out' \in Seq(Octet) /\ Len(out') \in 1 .. Len(out) + 1
        /\ \E m : Reading(data, out', m) /\ m[Len(out')] = SectorLen
    BY <1>0, <1>2, <2>1, LoopClose DEF Close
  <2>3. TypeOK'
    BY <1>0, <1>2, <2>2 DEF Close, TypeOK, Phase
  <2>4. LPTCompress(data) = IF EncFull(out') THEN <<>> ELSE out'
    <3>1. out = Code(data, SectorLen) /\ c = OpenRun(data, SectorLen)
      BY <1>2 DEF Close, RleInv, Compressing
    <3> QED
      BY <1>0, <1>2, <3>1, CompressIs DEF Close
  <2>5. phase' = "raw" => (LPTCompress(data) = <<>>)'
    <3>1. data' = data /\ (phase' = "raw" => EncFull(out'))
      BY <1>2 DEF Close
    <3> QED
      BY <2>4, <3>1
  <2>6. phase' = "expand" => Expanding'
    <3> SUFFICES ASSUME phase' = "expand"
                 PROVE  Expanding'
      OBVIOUS
    <3>1. Len(out') \in 1 .. SectorLen - 1
      BY <1>0, <1>2, <2>2 DEF Close, EncFull
    <3>2. restored' = <<>> /\ i' = 0 /\ data' = data
      BY <1>2, <2>1 DEF Close
    <3>3. PICK m : Reading(data, out', m) /\ m[Len(out')] = SectorLen
      BY <2>2
    <3>4. Reading(data, out, m)'
      BY <3>2, <3>3 DEF Reading, ByteReads
    <3>5. Len(restored') = m[i']
      BY <3>2, <3>3 DEF Reading
    <3>6. (out = LPTCompress(data))'
      BY <1>2, <2>4, <3>2 DEF Close
    <3> QED
      BY <3>1, <3>2, <3>3, <3>4, <3>5, <3>6 DEF Expanding
  <2> QED
    BY <1>0, <1>2, <2>1, <2>2, <2>3, <2>5, <2>6 DEF Close, RleInv
<1>3. CASE SendRaw
  <2>1. data \in Seq(Octet)
    BY <1>0 DEF Sector
  <2> QED
    BY <1>0, <1>3, <2>1 DEF SendRaw, TypeOK, Phase, RleInv
<1>4. CASE Expand
  <2>1. phase = "expand" /\ Expanding /\ i + 1 \in 1 .. Len(out)
    BY <1>0, <1>4 DEF Expand, RleInv
  <2>2. PICK mark : /\ Reading(data, out, mark) /\ mark[Len(out)] = SectorLen
                    /\ Len(restored) = mark[i]
    BY <2>1 DEF Expanding
  <2>3. \A j \in 1 .. Len(restored) : restored[j] = data[j]
    BY <2>1 DEF Expanding
  <2>4. /\ restored' \in Seq(Octet) /\ Len(restored') = mark[i + 1]
        /\ i' = i + 1 /\ phase' = phase
        /\ \A j \in 1 .. mark[i + 1] : restored'[j] = data[j]
    <3>1. Len(restored) = mark[(i + 1) - 1]
      BY <1>0, <2>2
    <3>2. /\ ~DecOverflows(out, i + 1, Len(restored))
          /\ restored \o DecAdds(out, i + 1) \in Seq(Octet)
          /\ Len(restored \o DecAdds(out, i + 1)) = mark[i + 1]
          /\ \A j \in 1 .. mark[i + 1] : (restored \o DecAdds(out, i + 1))[j] = data[j]
      <4> DEFINE k == i + 1
      <4>1. k \in 1 .. Len(out) /\ Len(restored) = mark[k - 1]
        BY <2>1, <3>1
      <4> HIDE DEF k
      <4>2. /\ ~DecOverflows(out, k, Len(restored))
            /\ restored \o DecAdds(out, k) \in Seq(Octet)
            /\ Len(restored \o DecAdds(out, k)) = mark[k]
            /\ \A j \in 1 .. mark[k] : (restored \o DecAdds(out, k))[j] = data[j]
        <5>1. data \in Sector /\ out \in Seq(Octet) /\ Reading(data, out, mark)
          BY <1>0, <2>2
        <5>2. \A s \in Seq(Octet) :
                 Len(s) = mark[k - 1] /\ (\A j \in 1 .. Len(s) : s[j] = data[j]) =>
                    /\ ~DecOverflows(out, k, Len(s))
                    /\ s \o DecAdds(out, k) \in Seq(Octet)
                    /\ Len(s \o DecAdds(out, k)) = mark[k]
                    /\ \A j \in 1 .. mark[k] : (s \o DecAdds(out, k))[j] = data[j]
          BY <4>1, <5>1, ReadingGuides
        <5> QED
          BY <1>0, <2>3, <4>1, <5>2
      <4> QED
        BY <4>2 DEF k
    <3> QED
      BY <1>4, <3>2 DEF Expand
  <2>5. Len(out) \in 1 .. SectorLen - 1
    BY <2>1 DEF Expanding
  <2>6. TypeOK'
    BY <1>0, <1>4, <2>1, <2>4, <2>5 DEF Expand, TypeOK
  <2>7. Expanding'
    <3>1. data' = data /\ out' = out /\ i' = i + 1
      BY <1>4, <2>4 DEF Expand
    <3>2. Reading(data, out, mark)'
      BY <2>2, <3>1 DEF Reading, ByteReads
    <3> QED
      BY <2>1, <2>2, <2>4, <2>5, <3>1, <3>2 DEF Expanding
  <2> QED
    BY <1>0, <1>4, <2>1, <2>4, <2>5, <2>6, <2>7 DEF Expand, RleInv
<1>5. CASE ExpandEnds
  <2>1. Expanding /\ i = Len(out)
    BY <1>5 DEF ExpandEnds, RleInv
  <2>2. Len(restored) = SectorLen
    BY <2>1 DEF Expanding
  <2>3. restored = data
    BY <1>0, <2>1, <2>2 DEF Expanding, Sector
  <2> QED
    BY <1>0, <1>5, <2>3 DEF ExpandEnds, RleInv, TypeOK, Phase
<1>6. CASE UNCHANGED vars
  BY <1>6 DEF vars, TypeOK, RleInv, Compressing, Expanding, Loop, Reading,
             ByteReads, AtBoundary, AwaitsCount
<1> QED
  BY <1>1, <1>2, <1>3, <1>4, <1>5, <1>6 DEF Next

\* TypeOK and RleInv hold of the machine.
LEMMA RleInvariant == Spec => [](TypeOK /\ RleInv)
<1>1. Init => TypeOK /\ RleInv
  <2> SUFFICES ASSUME Init
               PROVE  TypeOK /\ RleInv
    OBVIOUS
  <2> DEFINE start == [k \in 0 .. 0 |-> 0]
  <2>1. Reading(data, <<>>, start) /\ start[Len(<<>>)] = 0
    BY RleAssumption DEF Reading
  <2>2. Loop(data, <<>>, 0, 0)
    BY <2>1 DEF Loop, AtBoundary
  <2>3. data \in Sector /\ Code(data, 0) = <<>> /\ OpenRun(data, 0) = 0
    BY CodeTurn, RunTurn DEF Init
  <2> QED
    BY <2>2, <2>3, RleAssumption DEF Init, TypeOK, RleInv, Compressing, Phase
<1> QED
  BY <1>1, RleStep, PTL DEF Spec

\* The variables keep their types: in particular the run counter stays in a byte.
THEOREM TypesKept == Spec => []TypeOK
  BY RleInvariant, PTL

\* Whatever the sector, the receiver ends up with the sector that was sent.
THEOREM Lossless == Spec => []RoundTrip
<1>1. RleInv => RoundTrip
  BY DEF RleInv, RoundTrip
<1> QED
  BY <1>1, RleInvariant, PTL

\* While it expands, the receiver holds a prefix of the data.
THEOREM HoldsPrefix == Spec => []NeverAhead
<1>1. TypeOK /\ RleInv => NeverAhead
  <2> SUFFICES ASSUME TypeOK, RleInv, phase \in {"expand", "done"}
               PROVE  IsPrefix(restored, data)
    BY DEF NeverAhead
  <2>1. data \in Seq(Octet) /\ Len(data) = SectorLen /\ restored \in Seq(Octet)
    BY RleAssumption DEF TypeOK, Sector
  <2>2. Len(restored) <= Len(data) /\ \A j \in 1 .. Len(restored) : restored[j] = data[j]
    <3>1. CASE phase = "done"
      BY <2>1, <3>1 DEF RleInv
    <3>2. CASE phase = "expand"
      <4>1. Expanding
        BY <3>2 DEF RleInv
      <4>2. PICK mark : Reading(data, out, mark) /\ Len(restored) = mark[i]
        BY <4>1 DEF Expanding
      <4>3. mark[i] \in 0 .. SectorLen
        <5>1. i \in 0 .. Len(out) /\ mark \in [0 .. Len(out) -> 0 .. SectorLen]
          BY <4>1, <4>2, RleAssumption DEF Expanding, Reading, TypeOK
        <5> QED
          BY <5>1
      <4> QED
        BY <2>1, <4>1, <4>2, <4>3, RleAssumption DEF Expanding
    <3> QED
      BY <3>1, <3>2
  <2>3. restored = SubSeq(data, 1, Len(restored))
    BY <2>1, <2>2
  <2> QED
    BY <2>1, <2>2, <2>3 DEF IsPrefix
<1> QED
  BY <1>1, RleInvariant, PTL

\* The receiver never meets a count that leaves its sector.
THEOREM ExpansionSucceeds == Spec => []NeverFails
<1>1. RleInv => NeverFails
  BY DEF RleInv, NeverFails
<1> QED
  BY <1>1, RleInvariant, PTL

\* The sender writes at most one byte behind a buffer of the length of a sector.
THEOREM Bounded == Spec => []OverrunByOne
<1>1. RleInv => OverrunByOne
  BY DEF RleInv, OverrunByOne
<1> QED
  BY <1>1, RleInvariant, PTL

\* The length that the sender announces is never 0, which would stand for a sector
\* sent as it is, and always less than a sector's.
THEOREM LengthFitsHeader == Spec => []LengthHeader
<1>1. RleInv => LengthHeader
  BY DEF RleInv, LengthHeader, Expanding
<1> QED
  BY <1>1, RleInvariant, PTL

\* The loops, with their early returns, compute the functions LPTCompress and
\* LPTDecompress of the whole sector.
THEOREM LoopsComputeCodec == Spec => []ComputesCode
<1>1. TypeOK /\ RleInv => ComputesCode
  <2> SUFFICES ASSUME TypeOK, RleInv
               PROVE  ComputesCode
    OBVIOUS
  <2>1. phase = "raw" => LPTCompress(data) = <<>>
    BY DEF RleInv
  <2>2. phase = "expand" /\ i = 0 => LPTCompress(data) = out
    BY DEF RleInv, Expanding
  <2>3. ASSUME phase = "expand", i = Len(out)
        PROVE  restored = LPTDecompress(Zeros(SectorLen), out)
    <3>1. /\ data \in Sector /\ restored \in Seq(Octet) /\ Len(restored) = SectorLen
          /\ out = LPTCompress(data) /\ out # <<>>
          /\ \A j \in 1 .. Len(restored) : restored[j] = data[j]
      BY <2>3 DEF RleInv, Expanding, TypeOK
    <3>2. LPTDecompress(Zeros(SectorLen), out) = data
      BY <3>1, CodecLossless
    <3>3. restored = data
      BY <3>1, RleAssumption DEF Sector
    <3> QED
      BY <3>2, <3>3
  <2> QED
    BY <2>1, <2>2, <2>3 DEF ComputesCode
<1> QED
  BY <1>1, RleInvariant, PTL
=============================================================================
