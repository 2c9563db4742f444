------------------------------- MODULE ZeroRle -------------------------------
(***************************************************************************)
(* The sector codec that the DOS driver and the adapter share: LPTCompress *)
(* and LPTDecompress, a run-length code for zeros.  A run of n zeros is    *)
(* <<0, n-1>>; every other byte stands for itself.  Here are the bodies of *)
(* the two loops, which RleMachine takes a step at a time, and what the    *)
(* functions return for a whole sector.                                    *)
(***************************************************************************)
EXTENDS Integers, Sequences, SequencesExt

CONSTANTS SectorLen,  \* bytes of a sector: 512
          ByteMax     \* the largest value of a byte: 255

ASSUME RleAssumption == SectorLen \in Nat \ {0} /\ ByteMax \in Nat \ {0}

Octet == 0 .. ByteMax

Sector == [1 .. SectorLen -> Octet]

Zeros(n) == [k \in 1 .. n |-> 0]

-----------------------------------------------------------------------------
(* LPTCompress: out is what has been written, c the zeros of the open run. *)

\* Variant of EncOut: a closed run leaves its length, not its length less one.
EncOutLength(out, c, d) ==
    CASE d = 0 /\ c = 0 -> Append(out, 0)
      [] d = 0 /\ c = ByteMax -> Append(out, ByteMax)
      [] d = 0 /\ c \notin {0, ByteMax} -> out
      [] d # 0 /\ c = 0 -> Append(out, d)
      [] d # 0 /\ c # 0 -> out \o <<c, d>>

\* One turn of the loop, for the data byte d.
EncOut(out, c, d) ==
    CASE d = 0 /\ c = 0 -> Append(out, 0)
      [] d = 0 /\ c = ByteMax -> Append(out, ByteMax)
      [] d = 0 /\ c \notin {0, ByteMax} -> out
      [] d # 0 /\ c = 0 -> Append(out, d)
      [] d # 0 /\ c # 0 -> out \o <<c - 1, d>>

\* Variant of EncRun: a run is not broken at the largest count.
EncRunUnbroken(c, d) == IF d # 0 THEN 0 ELSE c + 1

EncRun(c, d) == IF d # 0 \/ c = ByteMax THEN 0 ELSE c + 1

\* Variant of EncClose: the open run is forgotten.
EncCloseNever(out, c) == out

\* Behind the loop: the run that is still open.
EncClose(out, c) == IF c # 0 THEN Append(out, c - 1) ELSE out

\* Variant of EncFull: off by one.
EncFullLate(out) == Len(out) > SectorLen

\* The output reached the length of a sector: return 0, the caller sends raw.
EncFull(out) == Len(out) >= SectorLen

(* The whole function, as what it writes at each byte of the sector.        *)

\* The zeros at the end of the first n bytes, and those of the open run
ZerosBefore(data, n) == Max({m \in 0 .. n : \A j \in n - m + 1 .. n : data[j] = 0})
OpenRun(data, n) == ZerosBefore(data, n) % (ByteMax + 1)

Writes(data, n) ==
    IF data[n] = 0
    THEN CASE OpenRun(data, n) = 1 -> <<0>>
           [] OpenRun(data, n) = 0 -> <<ByteMax>>
           [] OTHER -> <<>>
    ELSE IF OpenRun(data, n - 1) = 0 THEN <<data[n]>>
    ELSE <<OpenRun(data, n - 1) - 1, data[n]>>

\* <<>> stands for the return value 0.
LPTCompress(data) ==
    LET code == EncClose(FlattenSeq([n \in 1 .. SectorLen |-> Writes(data, n)]),
                         OpenRun(data, SectorLen))
    IN  IF EncFull(code) THEN <<>> ELSE code
-----------------------------------------------------------------------------
(* LPTDecompress: byte i (from 1) of z, with the r bytes restored so far.  *)

IsCount(z, i) == /\ i > 1 /\ z[i - 1] = 0
                 /\ ~(i > 2 /\ z[i - 2] = 0)

\* Variant of DecOverflows: off by one.
DecOverflowsEarly(z, i, r) == IsCount(z, i) /\ r + z[i] + 1 >= SectorLen

\* A count that would leave the sector makes the function return 0.
DecOverflows(z, i, r) == IsCount(z, i) /\ r + z[i] + 1 > SectorLen

\* Variant of DecAdds: the count taken for the number of zeros.
DecAddsCount(z, i) == IF IsCount(z, i) THEN Zeros(z[i])
                      ELSE IF z[i] # 0 THEN <<z[i]>>
                      ELSE <<>>

\* What byte i adds to the sector.
DecAdds(z, i) == IF IsCount(z, i) THEN Zeros(z[i] + 1)
                 ELSE IF z[i] # 0 THEN <<z[i]>>
                 ELSE <<>>

\* What the first n bytes restore, and how far the loop gets
Restored(z, n) == FlattenSeq([i \in 1 .. n |-> DecAdds(z, i)])
Stops(z) == Max({n \in 0 .. Len(z) :
                    \A i \in 1 .. n : ~DecOverflows(z, i, Len(Restored(z, i - 1)))})

\* The contents of buffer after LPTDecompress(buffer, z, Len(z)); the callers
\* ignore the return value, and what is not restored stays as it was.  (Bytes
\* behind the end of the sector are left out: no code of LPTCompress has any.)
LPTDecompress(buffer, z) ==
    LET r == Restored(z, Stops(z))
    IN  [k \in 1 .. SectorLen |-> IF k <= Len(r) THEN r[k] ELSE buffer[k]]
=============================================================================
