----------------------------- MODULE RleMachine -----------------------------
(***************************************************************************)
(* One sector on its way over the port: compressed by the sender a data    *)
(* byte at a time, sent in full length when that does not pay, otherwise   *)
(* expanded by the receiver a code byte at a time.                         *)
(***************************************************************************)
EXTENDS ZeroRle

VARIABLES data,      \* the sector to be carried
          phase,     \* where the carrying stands
          i,         \* bytes of data (of out, when expanding) dealt with
          c,         \* LPTCompress: zeros of the open run
          out,       \* LPTCompress: the code written so far
          restored   \* LPTDecompress: what the receiver has

vars == <<data, phase, i, c, out, restored>>

Phase == {"compress", "raw", "expand", "failed", "done"}

Init == /\ data \in Sector
        /\ phase = "compress"
        /\ i = 0 /\ c = 0
        /\ out = <<>> /\ restored = <<>>

\* one turn of the loop of LPTCompress
Compress == /\ phase = "compress" /\ i < SectorLen
            /\ out' = EncOut(out, c, data[i + 1])
            /\ c' = EncRun(c, data[i + 1])
            /\ i' = i + 1
            /\ phase' = IF EncFull(out') THEN "raw" ELSE "compress"
            /\ UNCHANGED <<data, restored>>

\* the rest of LPTCompress
Close == /\ phase = "compress" /\ i = SectorLen
         /\ out' = EncClose(out, c)
         /\ phase' = IF EncFull(out') THEN "raw" ELSE "expand"
         /\ i' = 0
         /\ UNCHANGED <<data, c, restored>>

\* LPTCompress returned 0: all bytes of the sector are sent as they are
SendRaw == /\ phase = "raw"
           /\ restored' = data
           /\ phase' = "done"
           /\ UNCHANGED <<data, i, c, out>>

\* one turn of the loop of LPTDecompress, which may return 0
Expand == /\ phase = "expand" /\ i < Len(out)
          /\ IF DecOverflows(out, i + 1, Len(restored))
             THEN /\ phase' = "failed"
                  /\ UNCHANGED <<i, restored>>
             ELSE /\ restored' = restored \o DecAdds(out, i + 1)
                  /\ i' = i + 1
                  /\ UNCHANGED phase
          /\ UNCHANGED <<data, c, out>>

ExpandEnds == /\ phase = "expand" /\ i = Len(out)
              /\ phase' = "done"
              /\ UNCHANGED <<data, i, c, out, restored>>

Next == Compress \/ Close \/ SendRaw \/ Expand \/ ExpandEnds

Spec == Init /\ [][Next]_vars
-----------------------------------------------------------------------------
TypeOK == /\ data \in Sector
          /\ phase \in Phase
          /\ i \in 0 .. SectorLen
          /\ c \in 0 .. ByteMax
          /\ out \in Seq(Octet)
          /\ restored \in Seq(Octet)

\* testcompress.sh: what comes out of the receiver is what went in.
RoundTrip == phase = "done" => restored = data

\* The receiver never writes a byte that it has to take back or that lies
\* beyond the sector: at any time it holds a prefix of the data.
NeverAhead == phase \in {"expand", "done"} => IsPrefix(restored, data)

\* LPTDecompress never meets a count that is too large, whatever was sent.
NeverFails == phase # "failed"

\* The length goes out in two bytes in front of the code and 0 there means that
\* the sector follows uncompressed (lptprotocol.c:122): the length of a code is
\* never 0, and always less than that of the sector.
LengthHeader == phase = "expand" => Len(out) \in 1 .. SectorLen - 1

\* The loops compute what LPTCompress and LPTDecompress are said to return, in
\* particular with the early return of the one, whatever is in the buffer.
ComputesCode == /\ phase = "raw" => LPTCompress(data) = <<>>
                /\ phase = "expand" /\ i = 0 => LPTCompress(data) = out
                /\ phase = "expand" /\ i = Len(out) =>
                       restored = LPTDecompress(Zeros(SectorLen), out)

\* LPTCompress tests its output after a turn that may write two bytes, so it
\* may write one byte behind a buffer of SectorLen bytes, and no more than that.
OverrunByOne == Len(out) <= SectorLen + 1

\* compress_buff of lptprotocol.c:9 (and cdata of comp.c:71) has the length of
\* a sector: LPTCompress stays inside.
FitsBuffer == Len(out) <= SectorLen
=============================================================================
