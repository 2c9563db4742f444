-------------------------- MODULE LptProtocolProofs --------------------------
(***************************************************************************)
(* The block protocol implements a block device, for every set of calls,   *)
(* every length of sector, every width of byte and every number of times   *)
(* that the host is stopped.                                               *)
(*                                                                         *)
(* First what goes over the wire: a receiver that knows only the bytes it  *)
(* has wants exactly the bytes of a request (RequestRead) and of a reply   *)
(* (AnswerIs), and finds in them what was put in; this rests on the codec  *)
(* (CodecLossless).  Then two invariants.  Sound holds of each side alone, *)
(* also when the bytes it gets are anything: a command that is complete is *)
(* as long as its first byte says.  InStep relates the two sides and holds *)
(* unless the target has given up a command.  ProtoInv, the two together,  *)
(* is inductive (ProtoStep); a step from it is a step of the block device  *)
(* or changes nothing that the device has (DeviceStep).                    *)
(***************************************************************************)
EXTENDS LptProtocol, ZeroRleProofs

-----------------------------------------------------------------------------
(* What goes over the wire.                                                *)

\* A sector is a sequence of bytes, of a certain length.
LEMMA SectorIsSeq ==
    /\ Sector \subseteq Seq(Octet) /\ \A data \in Sector : Len(data) = SectorLen
    /\ \A s \in Seq(Octet) : Len(s) = SectorLen => s \in Sector
<1>1. Sector \subseteq Seq(Octet) /\ \A data \in Sector : Len(data) = SectorLen
  BY RleAssumption DEF Sector
<1>2. \A s \in Seq(Octet) : s \in [1 .. Len(s) -> Octet]
  BY LenProperties
<1> QED
  BY <1>1, <1>2 DEF Sector

\* A WORD arrives as it was sent.
LEMMA WordArrives ==
    ASSUME NEW n \in 0 .. Base * Base - 1
    PROVE  /\ Word(n) \in Seq(Octet) /\ Len(Word(n)) = 2
           /\ Word(n)[1] \in Octet /\ Word(n)[2] \in Octet
           /\ Word(n)[1] * Base + Word(n)[2] = n
           /\ n = 0 => Word(n)[1] = 0 /\ Word(n)[2] = 0
<1>1. ByteMax \in Nat \ {0} /\ Base \in Nat \ {0} /\ Octet = 0 .. Base - 1
  BY RleAssumption DEF Base, Octet
<1> DEFINE q == n \div Base
           r == n % Base
<1>2. PICK sq : sq = Base * Base
  OBVIOUS
<1>3. sq \in Nat
  BY <1>1, <1>2
<1>4. n \in Nat /\ n < sq
  BY <1>2, <1>3
<1>5. q \in Nat /\ r \in 0 .. Base - 1 /\ n = Base * q + r
  BY <1>1, <1>4
<1>6. q <= Base - 1
  <2> SUFFICES ASSUME q >= Base PROVE FALSE
    BY <1>1, <1>5
  <2> HIDE DEF q, r
  <2>1. PICK p : p = Base * q
    OBVIOUS
  <2>2. p \in Nat /\ p >= sq
    BY <1>1, <1>2, <1>5, <2>1
  <2>3. n = p + r
    BY <1>5, <2>1
  <2> QED
    BY <1>3, <1>4, <1>5, <2>2, <2>3
<1>7. n = 0 => q = 0 /\ r = 0
  <2> SUFFICES ASSUME n = 0 PROVE q = 0 /\ r = 0
    OBVIOUS
  <2>1. Base * q \in Nat
    BY <1>1, <1>5
  <2>2. r = 0 /\ Base * q = 0
    BY <1>5, <2>1
  <2> QED
    BY <1>1, <1>5, <2>2
<1>8. Word(n) = <<q, r>>
  BY DEF Word
<1> HIDE DEF q, r
<1>9. q * Base + r = n
  BY <1>1, <1>5
<1>10. q \in Octet /\ r \in Octet
  BY <1>1, <1>5, <1>6
<1>11. /\ <<q, r>> \in Seq(Octet) /\ Len(<<q, r>>) = 2
       /\ <<q, r>>[1] = q /\ <<q, r>>[2] = r
  BY <1>10
<1> QED
  BY <1>7, <1>8, <1>9, <1>10, <1>11

\* The next block of a call is the one with the next number.
LEMMA BlockNumber ==
    ASSUME NEW c \in Calls, NEW j \in 0 .. c.count - 1
    PROVE  /\ c.lbn + j \in 0 .. Base * Base - 1
           /\ Plus(c.lbn, j) = c.lbn + j
<1>1. PICK sq : sq = Base * Base
  OBVIOUS
<1>2. Base \in Nat /\ sq \in Nat
  BY <1>1, RleAssumption DEF Base
<1>3. c.lbn \in Nat /\ c.count \in Nat /\ c.lbn + c.count <= sq
  BY <1>1, CallAssumption
<1>4. c.lbn + j \in 0 .. sq - 1
  BY <1>2, <1>3
<1>5. (c.lbn + j) % sq = c.lbn + j
  BY <1>2, <1>4
<1> QED
  BY <1>1, <1>4, <1>5 DEF Plus

\* The body of a request to write: the code of the block, or the block
Body(c, j) == LET z == LPTCompress(c.data[j + 1])
              IN  IF z = <<>> THEN c.data[j + 1] ELSE z

\* The length in the header of a request tells the body's.
LEMMA BodyLength ==
    ASSUME NEW data \in Sector
    PROVE  /\ LPTCompress(data) \in Seq(Octet)
           /\ Len(LPTCompress(data)) \in 0 .. SectorLen - 1
           /\ Len(LPTCompress(data)) \in 0 .. Base * Base - 1
           /\ Len(LPTCompress(data)) = 0 <=> LPTCompress(data) = <<>>
<1>1. PICK sq : sq = Base * Base
  OBVIOUS
<1>2. sq \in Nat /\ SectorLen \in Nat /\ SectorLen >= 5 /\ SectorLen < sq
  BY <1>1, RleAssumption, ProtocolAssumption DEF Base
<1>3. CASE LPTCompress(data) = <<>>
  BY <1>1, <1>2, <1>3
<1>4. CASE LPTCompress(data) # <<>>
  <2>1. /\ LPTCompress(data) \in Seq(Octet)
        /\ Len(LPTCompress(data)) \in 1 .. SectorLen - 1
    BY <1>4, CodecLossless
  <2> QED
    BY <1>1, <1>2, <2>1
<1> QED
  BY <1>3, <1>4

\* Two sequences of bytes, one behind the other
LEMMA Joined ==
    ASSUME NEW a \in Seq(Octet), NEW b \in Seq(Octet)
    PROVE  /\ a \o b \in Seq(Octet) /\ Len(a \o b) = Len(a) + Len(b)
           /\ \A k \in 1 .. Len(a) : (a \o b)[k] = a[k]
           /\ \A k \in 1 .. Len(b) : (a \o b)[Len(a) + k] = b[k]
           /\ SubSeq(a \o b, Len(a) + 1, Len(a) + Len(b)) = b
<1> DEFINE m == Len(a)
           n == Len(b)
<1>0. m \in Nat /\ n \in Nat
  OBVIOUS
<1> DEFINE R == a \o b
           t == SubSeq(R, m + 1, m + n)
<1>1. /\ R \in Seq(Octet) /\ Len(R) = m + n
      /\ \A i \in 1 .. m + n : R[i] = IF i <= m THEN a[i] ELSE b[i - m]
  BY ConcatProperties
<1> HIDE DEF R, m, n
<1>2. \A k \in 1 .. m : R[k] = a[k]
  BY <1>0, <1>1
<1>3. \A k \in 1 .. n : R[m + k] = b[k]
  <2> SUFFICES ASSUME NEW k \in 1 .. n PROVE R[m + k] = b[k]
    OBVIOUS
  <2>1. m + k \in 1 .. m + n /\ ~(m + k <= m) /\ (m + k) - m = k
    BY <1>0
  <2> QED
    BY <1>0, <1>1, <2>1
<1>4. \A i \in m + 1 .. m + n : R[i] \in Octet
  BY <1>0, <1>1
<1>5. t = b
  <2>1. /\ t \in Seq(Octet)
        /\ Len(t) = IF m + 1 <= m + n THEN (m + n) - (m + 1) + 1 ELSE 0
        /\ \A i \in 1 .. (m + n) - (m + 1) + 1 : t[i] = R[(m + 1) + i - 1]
    <3>1. m + 1 \in Int /\ m + n \in Int
      BY <1>0
    <3> QED
      BY <1>4, <3>1, SubSeqProperties
  <2> HIDE DEF t
  <2>2. Len(t) = n
    BY <1>0, <2>1
  <2>3. \A i \in 1 .. n : t[i] = b[i]
    <3> SUFFICES ASSUME NEW i \in 1 .. n PROVE t[i] = b[i]
      OBVIOUS
    <3>1. i \in 1 .. (m + n) - (m + 1) + 1 /\ (m + 1) + i - 1 = m + i
      BY <1>0
    <3>2. t[i] = R[m + i]
      BY <2>1, <3>1
    <3> QED
      BY <1>3, <3>2
  <2> QED
    BY <2>1, <2>2, <2>3, SeqEqual DEF n
<1> QED
  BY <1>1, <1>2, <1>3, <1>5 DEF R, m, n

\* What a request is made of, by its bytes.
LEMMA RequestIs ==
    ASSUME NEW c \in Calls, NEW j \in 0 .. c.count - 1
    PROVE  LET R == Request(c, j)
           IN  /\ R \in Seq(Octet)
               /\ R[2] = c.unit /\ WordAt(R, 5) = c.lbn + j
               /\ c.kind = "read" =>
                     Len(R) = 6 /\ R[1] = LPTS_READ_BLOCK /\ WordAt(R, 3) = 0
               /\ c.kind = "write" =>
                     /\ c.data[j + 1] \in Sector
                     /\ R[1] = LPTS_WRITE_BLOCK
                     /\ WordAt(R, 3) = Len(LPTCompress(c.data[j + 1]))
                     /\ Body(c, j) \in Seq(Octet) /\ Len(Body(c, j)) > 0
                     /\ Len(R) = 6 + Len(Body(c, j))
                     /\ SubSeq(R, 7, Len(R)) = Body(c, j)
<1> DEFINE R == Request(c, j)
<1>1. /\ LPTS_READ_BLOCK \in Octet /\ LPTS_WRITE_BLOCK \in Octet /\ 0 \in Octet
      /\ c.unit \in Octet /\ Base \in Nat
  BY RleAssumption, ProtocolAssumption, CallAssumption
     DEF Octet, LPTS_READ_BLOCK, LPTS_WRITE_BLOCK, Base
<1>2. PICK w1, w2 \in Octet : Word(Plus(c.lbn, j)) = <<w1, w2>> /\ w1 * Base + w2 = c.lbn + j
  <2>1. c.lbn + j \in 0 .. Base * Base - 1 /\ Plus(c.lbn, j) = c.lbn + j
    BY BlockNumber
  <2>2. \A n \in 0 .. Base * Base - 1 :
           \E u, v \in Octet : Word(n) = <<u, v>> /\ u * Base + v = n
    BY WordArrives
  <2> QED
    BY <2>1, <2>2
<1>3. CASE c.kind = "read"
  <2>1. R = <<LPTS_READ_BLOCK, c.unit, 0, 0>> \o <<w1, w2>>
    BY <1>2, <1>3 DEF Request
  <2> HIDE DEF R
  <2>2. PICK h, w : h = <<LPTS_READ_BLOCK, c.unit, 0, 0>> /\ w = <<w1, w2>>
    OBVIOUS
  <2>5. /\ h \in Seq(Octet) /\ Len(h) = 4 /\ h[1] = LPTS_READ_BLOCK /\ h[2] = c.unit
        /\ h[3] = 0 /\ h[4] = 0
        /\ w \in Seq(Octet) /\ Len(w) = 2 /\ w[1] = w1 /\ w[2] = w2
    BY <1>1, <2>2
  <2>6. /\ R \in Seq(Octet) /\ Len(R) = 4 + 2
        /\ \A k \in 1 .. 4 : R[k] = h[k]
        /\ \A k \in 1 .. 2 : R[4 + k] = w[k]
    <3>1. /\ h \o w \in Seq(Octet) /\ Len(h \o w) = Len(h) + Len(w)
          /\ \A k \in 1 .. Len(h) : (h \o w)[k] = h[k]
          /\ \A k \in 1 .. Len(w) : (h \o w)[Len(h) + k] = w[k]
      BY <2>5, Joined
    <3> QED
      BY <2>1, <2>2, <2>5, <3>1
  <2>3. /\ R \in Seq(Octet) /\ Len(R) = 6 /\ R[1] = LPTS_READ_BLOCK /\ R[2] = c.unit
        /\ R[3] = 0 /\ R[4] = 0 /\ R[5] = w1 /\ R[6] = w2
    BY <2>5, <2>6
  <2>4. WordAt(R, 3) = 0 /\ WordAt(R, 5) = c.lbn + j
    BY <1>1, <1>2, <2>3 DEF WordAt
  <2> QED
    BY <1>3, <2>3, <2>4 DEF R
<1>4. CASE c.kind = "write"
  <2> DEFINE z == LPTCompress(c.data[j + 1])
             b == Body(c, j)
  <2>1. c.data[j + 1] \in Sector
    BY <1>4, CallAssumption
  <2>2. z \in Seq(Octet) /\ Len(z) \in 0 .. Base * Base - 1 /\ (Len(z) = 0 <=> z = <<>>)
    BY <2>1, BodyLength
  <2>3. b \in Seq(Octet) /\ Len(b) > 0
    BY <2>1, <2>2, SectorIsSeq, RleAssumption DEF Body
  <2>4. PICK v1, v2 \in Octet : Word(Len(z)) = <<v1, v2>> /\ v1 * Base + v2 = Len(z)
    <3>1. \A n \in 0 .. Base * Base - 1 :
             \E u, v \in Octet : Word(n) = <<u, v>> /\ u * Base + v = n
      BY WordArrives
    <3> QED
      BY <2>2, <3>1
  <2>5. R = <<LPTS_WRITE_BLOCK, c.unit>> \o <<v1, v2>> \o <<w1, w2>> \o b
    BY <1>2, <1>4, <2>4 DEF Request, Body
  <2> HIDE DEF b, z, R
  <2>6. PICK h, v, w : /\ h = <<LPTS_WRITE_BLOCK, c.unit>>
                       /\ v = <<v1, v2>> /\ w = <<w1, w2>>
    OBVIOUS
  <2>7. /\ h \in Seq(Octet) /\ Len(h) = 2 /\ h[1] = LPTS_WRITE_BLOCK /\ h[2] = c.unit
        /\ v \in Seq(Octet) /\ Len(v) = 2 /\ v[1] = v1 /\ v[2] = v2
        /\ w \in Seq(Octet) /\ Len(w) = 2 /\ w[1] = w1 /\ w[2] = w2
    BY <1>1, <2>6
  <2>8. PICK hv, g : hv = h \o v /\ g = hv \o w
    OBVIOUS
  <2>9. /\ hv \in Seq(Octet) /\ Len(hv) = 2 + 2
        /\ \A k \in 1 .. 2 : hv[k] = h[k]
        /\ \A k \in 1 .. 2 : hv[2 + k] = v[k]
    <3>1. /\ h \o v \in Seq(Octet) /\ Len(h \o v) = Len(h) + Len(v)
          /\ \A k \in 1 .. Len(h) : (h \o v)[k] = h[k]
          /\ \A k \in 1 .. Len(v) : (h \o v)[Len(h) + k] = v[k]
      BY <2>7, Joined
    <3> QED
      BY <2>7, <2>8, <3>1
  <2>13. /\ g \in Seq(Octet) /\ Len(g) = 4 + 2
         /\ \A k \in 1 .. 4 : g[k] = hv[k]
         /\ \A k \in 1 .. 2 : g[4 + k] = w[k]
    <3>1. /\ hv \o w \in Seq(Octet) /\ Len(hv \o w) = Len(hv) + Len(w)
          /\ \A k \in 1 .. Len(hv) : (hv \o w)[k] = hv[k]
          /\ \A k \in 1 .. Len(w) : (hv \o w)[Len(hv) + k] = w[k]
      BY <2>7, <2>9, Joined
    <3> QED
      BY <2>7, <2>8, <2>9, <3>1
  <2>14. /\ g \in Seq(Octet) /\ Len(g) = 6
         /\ g[1] = h[1] /\ g[2] = h[2] /\ g[3] = v1 /\ g[4] = v2
         /\ g[5] = w1 /\ g[6] = w2
    BY <2>7, <2>9, <2>13
  <2>10. /\ R \in Seq(Octet) /\ Len(R) = 6 + Len(b)
         /\ \A k \in 1 .. 6 : R[k] = g[k]
         /\ SubSeq(R, 7, Len(R)) = b
    <3>1. R = g \o b
      BY <2>5, <2>6, <2>8
    <3>2. /\ g \o b \in Seq(Octet) /\ Len(g \o b) = 6 + Len(b)
          /\ \A k \in 1 .. 6 : (g \o b)[k] = g[k]
          /\ SubSeq(g \o b, 6 + 1, 6 + Len(b)) = b
      <4>1. /\ g \o b \in Seq(Octet) /\ Len(g \o b) = Len(g) + Len(b)
            /\ \A k \in 1 .. Len(g) : (g \o b)[k] = g[k]
            /\ SubSeq(g \o b, Len(g) + 1, Len(g) + Len(b)) = b
        BY <2>3, <2>14, Joined
      <4> QED
        BY <2>3, <2>14, <4>1
    <3> QED
      BY <3>1, <3>2
  <2>11. /\ R[1] = LPTS_WRITE_BLOCK /\ R[2] = c.unit
         /\ R[3] = v1 /\ R[4] = v2 /\ R[5] = w1 /\ R[6] = w2
    BY <2>7, <2>14, <2>10
  <2>12. WordAt(R, 3) = Len(z) /\ WordAt(R, 5) = c.lbn + j
    BY <1>2, <2>4, <2>11 DEF WordAt
  <2> QED
    BY <1>4, <2>1, <2>3, <2>10, <2>11, <2>12 DEF z, b, R
<1> QED
  BY <1>3, <1>4, CallAssumption

\* There is something to send.
LEMMA RequestSent ==
    ASSUME NEW c \in Calls, NEW j \in 0 .. c.count - 1
    PROVE  Request(c, j) \in Seq(Octet) /\ Request(c, j) # <<>>
<1>1. PICK R : R = Request(c, j)
  OBVIOUS
<1>2. R \in Seq(Octet)
  BY <1>1, RequestIs
<1>3. CASE c.kind = "read"
  <2>1. Len(R) = 6
    BY <1>1, <1>3, RequestIs
  <2>2. R # <<>>
    BY <2>1, EmptySeq
  <2> QED
    BY <1>1, <1>2, <2>2
<1>4. CASE c.kind = "write"
  <2>1. PICK n : n = Len(Body(c, j))
    OBVIOUS
  <2>2. Len(R) = 6 + n /\ n > 0 /\ n \in Nat
    <3>1. /\ Len(Request(c, j)) = 6 + Len(Body(c, j)) /\ Len(Body(c, j)) > 0
          /\ Body(c, j) \in Seq(Octet)
      BY <1>4, RequestIs
    <3>2. Len(Body(c, j)) \in Nat
      BY <3>1
    <3> QED
      BY <1>1, <2>1, <3>1, <3>2
  <2>3. R # <<>>
    BY <1>2, <2>2
  <2> QED
    BY <1>1, <1>2, <2>3
<1> QED
  BY <1>3, <1>4, CallAssumption

\* The target reads exactly the bytes of a request: while it has only some of them
\* it wants more, and it knows the command when it has them all.
LEMMA RequestRead ==
    ASSUME NEW c \in Calls, NEW j \in 0 .. c.count - 1,
           NEW t \in Seq(Octet), t # <<>>, Len(t) <= Len(Request(c, j)),
           \A k \in 1 .. Len(t) : t[k] = Request(c, j)[k]
    PROVE  /\ Len(t) < RequestLen(t) <=> Len(t) < Len(Request(c, j))
           /\ Known(t)
<1> DEFINE R == Request(c, j)
<1>1. t[1] = R[1] /\ Len(t) \in Nat \ {0} /\ R \in Seq(Octet)
  BY RequestIs
<1>2. CASE c.kind = "read"
  <2>1. Len(R) = 6 /\ R[1] = LPTS_READ_BLOCK
    BY <1>2, RequestIs
  <2>2. RequestLen(t) = 6 /\ Known(t)
    BY <1>1, <2>1 DEF RequestLen, Known, LPTS_HELLO, LPTS_READ_BLOCK, LPTS_QUERY_DISK_CAPS,
                      LPTS_WRITE_BLOCK
  <2> QED
    BY <2>1, <2>2
<1>3. CASE c.kind = "write"
  <2> DEFINE z == LPTCompress(c.data[j + 1])
  <2>1. /\ R[1] = LPTS_WRITE_BLOCK /\ WordAt(R, 3) = Len(z)
        /\ c.data[j + 1] \in Sector
        /\ Len(R) = 6 + Len(Body(c, j)) /\ Len(Body(c, j)) > 0
        /\ Body(c, j) \in Seq(Octet)
    BY <1>3, RequestIs
  <2>2. Len(Body(c, j)) = IF Len(z) = 0 THEN SectorLen ELSE Len(z)
    BY <2>1, BodyLength, SectorIsSeq DEF Body
  <2>3. /\ Known(t)
        /\ RequestLen(t) = 6 + (IF Len(t) < 6 THEN 0
                                ELSE IF WordAt(t, 3) = 0 THEN SectorLen ELSE WordAt(t, 3))
    BY <1>1, <2>1 DEF RequestLen, Known, LPTS_HELLO, LPTS_READ_BLOCK, LPTS_QUERY_DISK_CAPS,
                      LPTS_WRITE_BLOCK
  <2>4. Len(t) >= 6 => WordAt(t, 3) = Len(z)
    <3> SUFFICES ASSUME Len(t) >= 6 PROVE WordAt(t, 3) = Len(z)
      OBVIOUS
    <3>1. t[3] = R[3] /\ t[4] = R[4]
      BY <1>1
    <3> QED
      BY <2>1, <3>1 DEF WordAt
  <2>5. Len(t) >= 6 => RequestLen(t) = Len(R)
    BY <1>1, <2>1, <2>2, <2>3, <2>4
  <2>6. Len(t) < 6 => RequestLen(t) = 6 /\ Len(R) > 6
    BY <1>1, <2>1, <2>3
  <2> HIDE DEF R
  <2>7. Len(R) \in Nat
    BY <1>1
  <2>8. Len(t) < RequestLen(t) <=> Len(t) < Len(R)
    <3>1. CASE Len(t) < 6
      BY <1>1, <2>6, <2>7, <3>1
    <3>2. CASE Len(t) >= 6
      BY <2>5, <3>2
    <3> QED
      BY <1>1, <3>1, <3>2
  <2> QED
    BY <2>3, <2>8 DEF R
<1> QED
  BY <1>2, <1>3, CallAssumption

\* What the target answers to a request to read is a status and the block, or its
\* code behind the length of it, and the host finds the block in it.
LEMMA BlockReplyIs ==
    ASSUME NEW data \in Sector
    PROVE  LET R == BlockReply(data)
           IN  /\ R \in Seq(Octet) /\ Len(R) > 1
               /\ R[1] \in {0, 2}
               /\ R[1] = 0 => Len(R) = 1 + SectorLen
               /\ R[1] = 2 => Len(R) > 3 /\ Len(R) = 3 + WordAt(R, 2)
               /\ BlockIn(R) = data
<1> DEFINE z == LPTCompress(data)
           R == BlockReply(data)
<1>1. data \in Seq(Octet) /\ Len(data) = SectorLen /\ SectorLen \in Nat \ {0}
  BY SectorIsSeq, RleAssumption
<1>2. 0 \in Octet /\ 2 \in Octet
  BY RleAssumption, ProtocolAssumption DEF Octet, LPTS_WRITE_BLOCK
<1>3. CASE z = <<>>
  <2>1. R = <<0>> \o data
    BY <1>3 DEF BlockReply
  <2> HIDE DEF R
  <2>2. R \in Seq(Octet) /\ Len(R) = 1 + SectorLen /\ R[1] = 0
    BY <1>1, <1>2, <2>1
  <2>3. Tail(R) = data
    BY <1>1, <2>1, <2>2
  <2> QED
    BY <1>1, <2>2, <2>3 DEF BlockIn, R
<1>4. CASE z # <<>>
  <2>1. /\ z \in Seq(Octet) /\ Len(z) \in 1 .. SectorLen - 1
        /\ LPTDecompress(Zeros(SectorLen), z) = data
    BY <1>4, CodecLossless
  <2>2. PICK v1, v2 \in Octet : Word(Len(z)) = <<v1, v2>> /\ v1 * Base + v2 = Len(z)
    <3>1. \A n \in 0 .. Base * Base - 1 :
             \E u, v \in Octet : Word(n) = <<u, v>> /\ u * Base + v = n
      BY WordArrives
    <3>2. Len(z) \in 0 .. Base * Base - 1
      BY BodyLength
    <3> QED
      BY <3>1, <3>2
  <2>3. R = <<2>> \o <<v1, v2>> \o z
    BY <1>4, <2>2 DEF BlockReply
  <2> HIDE DEF R, z
  <2>4. PICK h, v : h = <<2>> /\ v = <<v1, v2>>
    OBVIOUS
  <2>5. /\ h \in Seq(Octet) /\ Len(h) = 1 /\ h[1] = 2
        /\ v \in Seq(Octet) /\ Len(v) = 2 /\ v[1] = v1 /\ v[2] = v2
    BY <1>2, <2>4
  <2>6. PICK g : g = h \o v
    OBVIOUS
  <2>12. /\ g \in Seq(Octet) /\ Len(g) = 1 + 2
         /\ \A k \in 1 .. 1 : g[k] = h[k]
         /\ \A k \in 1 .. 2 : g[1 + k] = v[k]
    <3>1. /\ h \o v \in Seq(Octet) /\ Len(h \o v) = Len(h) + Len(v)
          /\ \A k \in 1 .. Len(h) : (h \o v)[k] = h[k]
          /\ \A k \in 1 .. Len(v) : (h \o v)[Len(h) + k] = v[k]
      BY <2>5, Joined
    <3> QED
      BY <2>5, <2>6, <3>1
  <2>13. g \in Seq(Octet) /\ Len(g) = 3 /\ g[1] = 2 /\ g[2] = v1 /\ g[3] = v2
    BY <2>5, <2>12
  <2>7. R = g \o z
    BY <2>3, <2>4, <2>6
  <2>8. /\ R \in Seq(Octet) /\ Len(R) = 3 + Len(z) /\ SubSeq(R, 4, Len(R)) = z
        /\ \A k \in 1 .. 3 : R[k] = g[k]
    <3>1. /\ g \o z \in Seq(Octet) /\ Len(g \o z) = 3 + Len(z)
          /\ \A k \in 1 .. 3 : (g \o z)[k] = g[k]
          /\ SubSeq(g \o z, 3 + 1, 3 + Len(z)) = z
      <4>1. /\ g \o z \in Seq(Octet) /\ Len(g \o z) = Len(g) + Len(z)
            /\ \A k \in 1 .. Len(g) : (g \o z)[k] = g[k]
            /\ SubSeq(g \o z, Len(g) + 1, Len(g) + Len(z)) = z
        BY <2>1, <2>13, Joined
      <4> QED
        BY <2>1, <2>13, <4>1
    <3> QED
      BY <2>7, <3>1
  <2>9. R[1] = 2 /\ R[2] = v1 /\ R[3] = v2
    BY <2>8, <2>13
  <2>10. WordAt(R, 2) = Len(z)
    BY <2>2, <2>9 DEF WordAt
  <2>11. BlockIn(R) = data
    <3>1. R[1] # 0
      BY <2>9
    <3>2. BlockIn(R) = LPTDecompress(Zeros(SectorLen), SubSeq(R, 4, Len(R)))
      BY <3>1, Zenon DEF BlockIn
    <3> QED
      BY <2>1, <2>8, <3>2
  <2> QED
    BY <2>1, <2>8, <2>9, <2>10, <2>11 DEF R
<1> QED
  BY <1>3, <1>4
-----------------------------------------------------------------------------
(* Any bytes at all, as a host or a target that is out of step may see them. *)

\* A part of a sequence of bytes
LEMMA Part ==
    ASSUME NEW s \in Seq(Octet), NEW m \in Nat \ {0}, NEW n \in Nat, n <= Len(s), m <= n + 1
    PROVE  /\ SubSeq(s, m, n) \in Seq(Octet)
           /\ Len(SubSeq(s, m, n)) = n - m + 1
<1>1. \A i \in m .. n : s[i] \in Octet
  OBVIOUS
<1>2. m \in Int /\ n \in Int
  OBVIOUS
<1>3. /\ SubSeq(s, m, n) \in Seq(Octet)
      /\ Len(SubSeq(s, m, n)) = IF m <= n THEN n - m + 1 ELSE 0
  BY <1>1, <1>2, SubSeqProperties
<1> QED
  BY <1>2, <1>3

\* The arguments and the body of a command
LEMMA CommandParts ==
    ASSUME NEW s \in Seq(Octet), 6 <= Len(s)
    PROVE  /\ SubSeq(s, 2, 6) \in Seq(Octet)
           /\ SubSeq(s, 7, Len(s)) \in Seq(Octet)
           /\ Len(SubSeq(s, 7, Len(s))) = Len(s) - 6
<1>1. \A i \in 2 .. 6 : s[i] \in Octet
  OBVIOUS
<1>2. SubSeq(s, 2, 6) \in Seq(Octet)
  BY <1>1, SubSeqProperties
<1> DEFINE m == 7
           n == Len(s)
<1>3. m \in Nat \ {0} /\ n \in Nat /\ m <= n + 1 /\ n <= Len(s) /\ n - m + 1 = Len(s) - 6
  OBVIOUS
<1> HIDE DEF m, n
<1>4. SubSeq(s, m, n) \in Seq(Octet) /\ Len(SubSeq(s, m, n)) = n - m + 1
  BY <1>3, Part
<1> QED
  BY <1>2, <1>3, <1>4 DEF m, n

\* The arguments of a command leave the buffer one of bytes.
LEMMA ArgsTypes ==
    ASSUME NEW b \in Sector, NEW args \in Seq(Octet)
    PROVE  WithArgs(b, args) \in Sector
<1>1. \A k \in 1 .. SectorLen : (IF k <= Len(args) THEN args[k] ELSE b[k]) \in Octet
  BY RleAssumption DEF Sector
<1> QED
  BY <1>1 DEF WithArgs, Sector

\* A reply that the host takes for one with a block has a block of full length in it.
LEMMA BlockInTypes ==
    ASSUME NEW r \in Seq(Octet), Len(r) > 0,
           r[1] = 0 => Len(r) = 1 + SectorLen,
           r[1] # 0 => Len(r) >= 3
    PROVE  BlockIn(r) \in Sector
<1>1. CASE r[1] = 0
  <2>1. Tail(r) \in Seq(Octet) /\ Len(Tail(r)) = SectorLen
    BY <1>1, RleAssumption
  <2>2. Tail(r) \in Sector
    BY <2>1, SectorIsSeq
  <2> QED
    BY <1>1, <2>2 DEF BlockIn
<1>2. CASE r[1] # 0
  <2>1. Zeros(SectorLen) \in Sector
    BY RleAssumption DEF Zeros, Sector, Octet
  <2>2. SubSeq(r, 4, Len(r)) \in Seq(Octet)
    BY <1>2, Part
  <2>3. LPTDecompress(Zeros(SectorLen), SubSeq(r, 4, Len(r))) \in Sector
    BY <2>1, <2>2, DecompressTypes
  <2> QED
    BY <1>2, <2>3 DEF BlockIn
<1> QED
  BY <1>1, <1>2

\* While the host has fewer bytes of a reply than it wants, one more is not too many.
LEMMA ReplyGrows ==
    ASSUME NEW c \in Calls, NEW h \in Seq(Octet), NEW b \in Octet,
           h # <<>> => Len(h) < ReplyLen(c, h)
    PROVE  LET r == Append(h, b)
           IN  /\ r \in Seq(Octet) /\ Len(r) = Len(h) + 1
               /\ ~(Len(r) < ReplyLen(c, r)) /\ c.kind = "read" /\ ReplyOk(c, r) =>
                     BlockIn(r) \in Sector
<1> DEFINE r == Append(h, b)
<1>1. r \in Seq(Octet) /\ Len(r) = Len(h) + 1 /\ Len(h) \in Nat
      /\ \A k \in 1 .. Len(h) : r[k] = h[k]
  OBVIOUS
<1>2. ASSUME ~(Len(r) < ReplyLen(c, r)), c.kind = "read", ReplyOk(c, r)
      PROVE  BlockIn(r) \in Sector
  <2> HIDE DEF r
  <2>1. r[1] \in {0, 2}
    BY <1>2 DEF ReplyOk
  <2>2. CASE r[1] = 0
    <3>1. ReplyLen(c, r) = 1 + SectorLen
      BY <1>1, <1>2, <2>2 DEF ReplyLen
    <3>2. Len(r) >= 1 + SectorLen /\ h # <<>>
      BY <1>1, <1>2, <3>1, RleAssumption
    <3>3. h[1] = 0 /\ Len(h) > 0
      BY <1>1, <2>2, <3>2
    <3>4. ReplyLen(c, h) = 1 + SectorLen
      BY <1>2, <3>3 DEF ReplyLen
    <3>5. Len(r) = 1 + SectorLen
      BY <1>1, <3>2, <3>4, RleAssumption
    <3> QED
      BY <1>1, <2>2, <3>5, RleAssumption, BlockInTypes
  <2>3. CASE r[1] = 2
    <3>1. ReplyLen(c, r) = 3 + (IF Len(r) < 3 THEN 0 ELSE WordAt(r, 2))
      BY <1>1, <1>2, <2>3 DEF ReplyLen
    <3>2. Len(r) >= 3
      BY <1>1, <1>2, <3>1
    <3> QED
      BY <1>1, <2>3, <3>2, BlockInTypes
  <2> QED
    BY <2>1, <2>2, <2>3
<1> QED
  BY <1>1, <1>2

\* While the target has fewer bytes of a command than it wants, one more is not too many.
LEMMA CommandGrows ==
    ASSUME NEW s \in Seq(Octet), NEW b \in Octet,
           s # <<>> => Len(s) < RequestLen(s)
    PROVE  LET t == Append(s, b)
           IN  /\ t \in Seq(Octet) /\ t # <<>>
               /\ Known(t) => Len(t) <= RequestLen(t)
<1> DEFINE t == Append(s, b)
<1>1. t \in Seq(Octet) /\ Len(t) = Len(s) + 1 /\ Len(s) \in Nat /\ t # <<>>
      /\ \A k \in 1 .. Len(s) : t[k] = s[k]
  OBVIOUS
<1> HIDE DEF t
<1>2. CASE s = <<>>
  <2>1. Len(t) = 1
    BY <1>1, <1>2
  <2>2. RequestLen(t) >= 1
    BY <2>1 DEF RequestLen
  <2> QED
    BY <1>1, <2>1, <2>2 DEF t
<1>3. CASE s # <<>>
  <2>1. t[1] = s[1] /\ Len(s) > 0 /\ Len(s) < RequestLen(s)
    BY <1>1, <1>3
  <2>2. CASE t[1] = LPTS_WRITE_BLOCK
    <3>1. RequestLen(t) = 6 + (IF Len(t) < 6 THEN 0
                               ELSE IF WordAt(t, 3) = 0 THEN SectorLen ELSE WordAt(t, 3))
      BY <2>2 DEF RequestLen, LPTS_QUERY_DISK_CAPS, LPTS_READ_BLOCK, LPTS_WRITE_BLOCK
    <3>2. RequestLen(s) = 6 + (IF Len(s) < 6 THEN 0
                               ELSE IF WordAt(s, 3) = 0 THEN SectorLen ELSE WordAt(s, 3))
      BY <2>1, <2>2 DEF RequestLen, LPTS_QUERY_DISK_CAPS, LPTS_READ_BLOCK, LPTS_WRITE_BLOCK
    <3>3. CASE Len(s) < 6
      <4>1. Len(t) = 6 => WordAt(t, 3) \in Nat
        <5> SUFFICES ASSUME Len(t) = 6 PROVE WordAt(t, 3) \in Nat
          OBVIOUS
        <5>1. \A i \in 1 .. Len(t) : t[i] \in Octet
          BY <1>1
        <5>2. t[3] \in Nat /\ t[4] \in Nat /\ Base \in Nat
          BY <5>1, RleAssumption DEF Octet, Base
        <5> QED
          BY <5>2 DEF WordAt
      <4> QED
        BY <1>1, <3>1, <3>3, <4>1, RleAssumption DEF t
    <3>4. CASE ~(Len(s) < 6)
      <4>1. WordAt(t, 3) = WordAt(s, 3)
        BY <1>1, <3>4 DEF WordAt
      <4>2. RequestLen(t) = RequestLen(s)
        BY <1>1, <3>1, <3>2, <3>4, <4>1
      <4>3. RequestLen(s) \in Int
        <5>1. s[3] \in Nat /\ s[4] \in Nat /\ Base \in Nat
          BY <3>4, RleAssumption DEF Octet, Base
        <5>2. WordAt(s, 3) \in Nat
          BY <5>1 DEF WordAt
        <5> QED
          BY <3>2, <3>4, <5>2, RleAssumption
      <4> QED
        BY <1>1, <2>1, <4>2, <4>3 DEF t
    <3> QED
      BY <3>3, <3>4
  <2>3. CASE t[1] # LPTS_WRITE_BLOCK
    <3>1. RequestLen(t) = RequestLen(s) /\ RequestLen(s) \in Int
      BY <2>1, <2>3 DEF RequestLen
    <3> QED
      BY <1>1, <2>1, <3>1 DEF t
  <2> QED
    BY <2>2, <2>3
<1> QED
  BY <1>2, <1>3
-----------------------------------------------------------------------------
(* The invariant.                                                          *)

DiskTypes == disk \in [Unit -> [Lbn -> Sector]]

HostTypes == /\ call \in Calls \cup {None}
             /\ hout \in Seq(Octet) /\ hin \in Seq(Octet)
             /\ done \in Nat /\ got \in Seq(Sector)
             /\ outcome \in {"none", "ok", "error"}

TargetTypes == /\ tpc \in {"get", "exec", "put"}
               /\ tin \in Seq(Octet) /\ tout \in Seq(Octet)
               /\ tr \in Octet /\ buff \in Sector

EnvTypes == /\ ack \in {0, 1} /\ hrun \in BOOLEAN /\ slipped \in BOOLEAN
            /\ halts \in 0 .. MaxHalts /\ garbles \in 0 .. MaxGarbles

\* A host that is at a block of its call, and wants more of the reply it has begun
HostInv == /\ call # None => done < call.count
           /\ hin # <<>> => Receiving /\ Len(hin) < ReplyLen(call, hin)

\* A target that wants more of a command, has one that is complete, or has a reply
TargetInv == /\ tpc = "put" <=> tout # <<>>
             /\ tpc = "get" /\ tin # <<>> => Len(tin) < RequestLen(tin)
             /\ tpc = "exec" => tin # <<>> /\ Len(tin) = RequestLen(tin) /\ Known(tin)

\* What the target answers to the request for a block
Answer == IF call.kind = "write" THEN <<tr>>
          ELSE IF tr = 0 THEN BlockReply(buff) ELSE <<1>>

\* The two sides are in step.
InStep == /\ ack = 0
          /\ call = None => tpc = "get" /\ tin = <<>>
          /\ Sending => tpc = "get" /\ tin \o hout = Request(call, done)
          /\ Receiving => tpc # "get" /\ tin = Request(call, done)
          /\ tpc = "exec" => hin = <<>>
          /\ tpc = "put" => hin \o tout = Answer

\* Each side is in a state of its own making, in step with the other or not.
Sound == /\ DiskTypes /\ HostTypes /\ TargetTypes /\ EnvTypes
         /\ HostInv /\ TargetInv

\* They are in step unless the target has given up a command.
ProtoInv == Sound /\ (~slipped => InStep)

\* The initial states
LEMMA ProtoStarts == Init => ProtoInv
<1> SUFFICES ASSUME Init PROVE ProtoInv
  OBVIOUS
<1>1. DiskTypes
  BY ProtocolAssumption DEF Init, DiskTypes
<1>2. HostTypes /\ HostInv
  BY DEF Init, HostTypes, HostInv
<1>3. Zeros(SectorLen) \in Sector /\ 0 \in Octet
  BY RleAssumption DEF Zeros, Sector, Octet
<1>4. TargetTypes /\ TargetInv
  BY <1>3 DEF Init, TargetTypes, TargetInv
<1>5. EnvTypes
  <2>1. ack = 0 /\ hrun = TRUE /\ slipped = FALSE /\ halts = 0 /\ garbles = 0
    BY DEF Init
  <2>2. MaxHalts \in Nat /\ MaxGarbles \in Nat
    BY ProtocolAssumption
  <2>3. ack \in {0, 1} /\ halts \in 0 .. MaxHalts /\ garbles \in 0 .. MaxGarbles
    BY <2>1, <2>2
  <2> QED
    BY <2>1, <2>3, Zenon DEF EnvTypes
<1>6. InStep
  BY DEF Init, InStep, Sending, Receiving
<1> QED
  BY <1>1, <1>2, <1>4, <1>5, <1>6 DEF ProtoInv, Sound

\* The types are those of TypeOK.
LEMMA ProtoTypes == ProtoInv => TypeOK
BY DEF ProtoInv, Sound, DiskTypes, HostTypes, TargetTypes, EnvTypes, TypeOK

\* A call names a block that it has not done yet.
LEMMA Current ==
    ASSUME HostTypes, HostInv, call # None
    PROVE  call \in Calls /\ done \in 0 .. call.count - 1
<1>1. call \in Calls /\ done \in Nat /\ done < call.count
  BY DEF HostTypes, HostInv
<1>2. call.count \in Nat
  BY <1>1, CallAssumption
<1> QED
  BY <1>1, <1>2

-----------------------------------------------------------------------------
(* The parts of a step.                                                    *)

\* A byte of a reply leaves the host at a block of its call.
LEMMA HostTakesTypes ==
    ASSUME HostTypes, HostInv, Receiving, NEW b \in Octet, HostTakes(b)
    PROVE  HostTypes' /\ HostInv'
<1> DEFINE r == Append(hin, b)
<1>1. call \in Calls /\ done \in 0 .. call.count - 1 /\ call # None /\ hout = <<>>
  BY Current DEF Receiving
<1>2. /\ r \in Seq(Octet) /\ Len(r) = Len(hin) + 1
      /\ ~(Len(r) < ReplyLen(call, r)) /\ call.kind = "read" /\ ReplyOk(call, r) =>
            BlockIn(r) \in Sector
  BY <1>1, ReplyGrows DEF HostTypes, HostInv
<1>3. Len(hin) \in Nat
  BY DEF HostTypes
<1> HIDE DEF r
<1>4. CASE Len(r) < ReplyLen(call, r)
  <2>1. hin' = r /\ UNCHANGED <<call, hout, done, got, outcome>>
    BY <1>4 DEF HostTakes, r
  <2>2. HostTypes'
    BY <1>2, <2>1 DEF HostTypes
  <2>3. HostInv'
    BY <1>1, <1>4, <2>1 DEF HostInv, Receiving
  <2> QED
    BY <2>2, <2>3
<1>5. CASE ~(Len(r) < ReplyLen(call, r))
  <2>1. EndBlock(r)
    BY <1>5 DEF HostTakes, r
  <2>2. CASE ReplyOk(call, r) /\ done + 1 < call.count
    <3>1. /\ hin' = <<>> /\ got' = IF call.kind = "read" THEN Append(got, BlockIn(r)) ELSE got
          /\ done' = done + 1 /\ hout' = Request(call, done + 1)
          /\ call' = call /\ outcome' = outcome
      BY <2>1, <2>2 DEF EndBlock
    <3>2. done + 1 \in 0 .. call.count - 1
      BY <1>1, <2>2, CallAssumption
    <3>3. Request(call, done + 1) \in Seq(Octet)
      BY <1>1, <3>2, RequestIs
    <3>4. got' \in Seq(Sector)
      BY <1>2, <1>5, <2>2, <3>1 DEF HostTypes
    <3> QED
      BY <1>1, <2>2, <3>1, <3>3, <3>4 DEF HostTypes, HostInv
  <2>3. CASE ReplyOk(call, r) /\ ~(done + 1 < call.count)
    <3>1. /\ hin' = <<>> /\ got' = IF call.kind = "read" THEN Append(got, BlockIn(r)) ELSE got
          /\ done' = 0 /\ hout' = hout /\ call' = None /\ outcome' = "ok"
      BY <2>1, <2>3 DEF EndBlock
    <3>2. got' \in Seq(Sector)
      BY <1>2, <1>5, <2>3, <3>1 DEF HostTypes
    <3> QED
      BY <1>1, <3>1, <3>2 DEF HostTypes, HostInv
  <2>4. CASE ~ReplyOk(call, r)
    <3>1. /\ hin' = <<>> /\ got' = got /\ done' = 0 /\ hout' = hout
          /\ call' = None /\ outcome' = "error"
      BY <2>1, <2>4 DEF EndBlock
    <3> QED
      BY <1>1, <3>1 DEF HostTypes, HostInv
  <2> QED
    BY <2>2, <2>3, <2>4
<1> QED
  BY <1>4, <1>5

\* A byte of a request leaves the target with an unfinished or with a complete command.
LEMMA TargetTakesTypes ==
    ASSUME TargetTypes, TargetInv, tpc = "get", NEW b \in Octet, TargetTakes(b),
           UNCHANGED <<tout, tr, buff>>
    PROVE  TargetTypes' /\ TargetInv'
<1> DEFINE t == Append(tin, b)
<1>1. /\ t \in Seq(Octet) /\ t # <<>>
      /\ Known(t) => Len(t) <= RequestLen(t)
  BY CommandGrows DEF TargetTypes, TargetInv
<1>2. Known(t) /\ ~(Len(t) < RequestLen(t)) => Len(t) = RequestLen(t)
  <2>1. Known(t) => RequestLen(t) \in Int
    <3> HIDE DEF t
    <3> SUFFICES ASSUME Known(t) PROVE RequestLen(t) \in Int
      OBVIOUS
    <3>1. \A i \in 1 .. Len(t) : t[i] \in Octet
      BY <1>1
    <3>2. Len(t) >= 6 => WordAt(t, 3) \in Nat
      <4> SUFFICES ASSUME Len(t) >= 6 PROVE WordAt(t, 3) \in Nat
        OBVIOUS
      <4>1. t[3] \in Nat /\ t[4] \in Nat /\ Base \in Nat
        BY <3>1, RleAssumption DEF Octet, Base
      <4> QED
        BY <4>1 DEF WordAt
    <3>3. Len(t) \in Nat
      BY <1>1
    <3> QED
      BY <3>2, <3>3, RleAssumption DEF RequestLen
  <2>2. Len(t) \in Nat
    BY <1>1
  <2> HIDE DEF t
  <2> QED
    BY <1>1, <2>1, <2>2
<1> HIDE DEF t
<1>3. CASE Len(t) < RequestLen(t)
  <2>1. tin' = t /\ tpc' = "get"
    BY <1>3 DEF TargetTakes, t
  <2> QED
    BY <1>1, <1>3, <2>1 DEF TargetTypes, TargetInv
<1>4. CASE ~(Len(t) < RequestLen(t)) /\ Known(t)
  <2>1. tin' = t /\ tpc' = "exec"
    BY <1>4 DEF TargetTakes, t
  <2> QED
    BY <1>1, <1>2, <1>4, <2>1 DEF TargetTypes, TargetInv
<1>5. CASE ~(Len(t) < RequestLen(t)) /\ ~Known(t)
  <2>1. tin' = <<>> /\ tpc' = "get"
    BY <1>5 DEF TargetTakes, t
  <2> QED
    BY <2>1 DEF TargetTypes, TargetInv
<1> QED
  BY <1>3, <1>4, <1>5

\* A byte of the reply goes out.
LEMMA TargetGaveTypes ==
    ASSUME TargetTypes, TargetInv, tpc = "put", TargetGave
    PROVE  TargetTypes' /\ TargetInv' /\ Head(tout) \in Octet
<1>1. tout \in Seq(Octet) /\ tout # <<>>
  BY DEF TargetTypes, TargetInv
<1>2. /\ Tail(tout) \in Seq(Octet) /\ Head(tout) \in Octet
      /\ Len(tout) = 1 <=> Tail(tout) = <<>>
  <2>1. /\ Tail(tout) \in Seq(Octet) /\ Head(tout) \in Octet
        /\ Len(Tail(tout)) = Len(tout) - 1
    BY <1>1, HeadTailProperties
  <2>2. Len(Tail(tout)) = 0 <=> Tail(tout) = <<>>
    BY <2>1, EmptySeq
  <2> QED
    BY <1>1, <2>1, <2>2
<1>3. TargetTypes'
  BY <1>2 DEF TargetTypes, TargetGave
<1>4. TargetInv'
  BY <1>2 DEF TargetInv, TargetGave
<1> QED
  BY <1>2, <1>3, <1>4
-----------------------------------------------------------------------------
(* The steps, of two sides that may be out of step.                        *)

\* The reply that the target starts to send
LEMMA ReplyTypes ==
    ASSUME TargetTypes, NEW bytes \in Seq(Octet), bytes # <<>>, Reply(bytes),
           tin' = tin, tr' \in Octet, buff' \in Sector
    PROVE  TargetTypes' /\ TargetInv'
BY DEF TargetTypes, TargetInv, Reply

\* A command that is complete is as long as its first byte says.
LEMMA CommandIs ==
    ASSUME TargetTypes, TargetInv, tpc = "exec"
    PROVE  /\ tin \in Seq(Octet) /\ Len(tin) > 0
           /\ tin[1] = LPTS_READ_BLOCK => Len(tin) = 6
           /\ tin[1] = LPTS_WRITE_BLOCK =>
                 /\ Len(tin) >= 6
                 /\ WordAt(tin, 3) = 0 => Len(tin) = 6 + SectorLen
<1>1. tin \in Seq(Octet) /\ Len(tin) > 0 /\ Len(tin) = RequestLen(tin)
  BY DEF TargetTypes, TargetInv
<1>2. tin[1] = LPTS_READ_BLOCK => RequestLen(tin) = 6
  BY DEF RequestLen, LPTS_QUERY_DISK_CAPS, LPTS_READ_BLOCK, LPTS_WRITE_BLOCK
<1>3. ASSUME tin[1] = LPTS_WRITE_BLOCK
      PROVE  /\ Len(tin) >= 6
             /\ WordAt(tin, 3) = 0 => Len(tin) = 6 + SectorLen
  <2>1. RequestLen(tin) = 6 + (IF Len(tin) < 6 THEN 0
                               ELSE IF WordAt(tin, 3) = 0 THEN SectorLen ELSE WordAt(tin, 3))
    BY <1>3 DEF RequestLen, LPTS_QUERY_DISK_CAPS, LPTS_READ_BLOCK, LPTS_WRITE_BLOCK
  <2> QED
    BY <1>1, <2>1, RleAssumption
<1> QED
  BY <1>1, <1>2, <1>3

\* Host and target keep what they owe themselves, whatever reaches them.
LEMMA SoundStep == Sound /\ [Next]_vars => Sound'
<1> SUFFICES ASSUME Sound, [Next]_vars PROVE Sound'
  OBVIOUS
<1>0. DiskTypes /\ HostTypes /\ TargetTypes /\ EnvTypes /\ HostInv /\ TargetInv
  BY DEF Sound
<1>a. ASSUME UNCHANGED env PROVE EnvTypes'
  BY <1>0, <1>a DEF EnvTypes, env
<1>b. ASSUME UNCHANGED host PROVE HostTypes' /\ HostInv'
  BY <1>0, <1>b DEF HostTypes, HostInv, Receiving, host
<1>c. ASSUME UNCHANGED target PROVE TargetTypes' /\ TargetInv'
  BY <1>0, <1>c DEF TargetTypes, TargetInv, target
<1>d. ASSUME UNCHANGED disk PROVE DiskTypes'
  BY <1>0, <1>d DEF DiskTypes
<1>e. LPTS_HELLO \in Octet /\ 0 \in Octet /\ 1 \in Octet /\ ByteMax \in Octet
  BY RleAssumption DEF LPTS_HELLO, Octet
<1>f. \* the host sends a byte, to whomever
      ASSUME Sending, hout' = Tail(hout), UNCHANGED <<call, hin, done, got, outcome>>
      PROVE  HostTypes' /\ HostInv'
  <2>1. hin = <<>> /\ hout # <<>> /\ hout \in Seq(Octet)
    BY <1>0, <1>f DEF HostInv, HostTypes, Sending, Receiving
  <2>2. hout' \in Seq(Octet) /\ hin' = <<>>
    BY <1>f, <2>1
  <2> QED
    BY <1>0, <1>f, <2>1, <2>2 DEF HostTypes, HostInv
<1>g. \* the target forgets a command or a reply
      ASSUME tpc' = "get", tin' = <<>>, tout' = <<>>, UNCHANGED <<tr, buff>>
      PROVE  TargetTypes' /\ TargetInv'
  BY <1>0, <1>g DEF TargetTypes, TargetInv
<1>1. CASE Start
  <2>1. PICK c \in Calls : call' = c /\ hout' = Request(c, 0)
    BY <1>1 DEF Start, NewCall
  <2>2. 0 \in 0 .. c.count - 1 /\ 0 < c.count
    BY CallAssumption
  <2>3. Request(c, 0) \in Seq(Octet)
    BY <2>2, RequestIs
  <2>4. HostTypes' /\ HostInv'
    BY <1>0, <1>1, <2>1, <2>2, <2>3 DEF Start, NewCall, HostTypes, HostInv
  <2>5. EnvTypes'
    <3>1. slipped' \in BOOLEAN
      BY <1>1, Zenon DEF Start
    <3>2. UNCHANGED <<ack, hrun, halts, garbles>>
      BY <1>1 DEF Start, NewCall
    <3>3. /\ ack \in {0, 1} /\ hrun \in BOOLEAN
          /\ halts \in 0 .. MaxHalts /\ garbles \in 0 .. MaxGarbles
      BY <1>0, Zenon DEF EnvTypes
    <3> QED
      BY <3>1, <3>2, <3>3, Zenon DEF EnvTypes
  <2>6. UNCHANGED disk /\ UNCHANGED target
    BY <1>1 DEF Start, NewCall
  <2> QED
    BY <1>c, <1>d, <2>4, <2>5, <2>6 DEF Sound
<1>2. CASE SendByte
  <2>1. /\ Sending /\ tpc = "get" /\ TargetTakes(Head(hout)) /\ hout' = Tail(hout)
        /\ UNCHANGED <<call, hin, done, got, outcome>>
        /\ UNCHANGED <<tout, tr, buff>> /\ UNCHANGED disk /\ UNCHANGED env
    BY <1>2 DEF SendByte
  <2>2. Head(hout) \in Octet
    BY <1>0, <2>1 DEF Sending, HostTypes
  <2>3. TargetTypes' /\ TargetInv'
    BY <1>0, <2>1, <2>2, TargetTakesTypes
  <2> QED
    BY <1>a, <1>d, <1>f, <2>1, <2>3 DEF Sound
<1>3. CASE RecvByte
  <2>1. /\ Receiving /\ tpc = "put" /\ HostTakes(Head(tout)) /\ TargetGave
        /\ UNCHANGED disk /\ UNCHANGED env
    BY <1>3 DEF RecvByte
  <2>2. TargetTypes' /\ TargetInv' /\ Head(tout) \in Octet
    BY <1>0, <2>1, TargetGaveTypes
  <2>3. HostTypes' /\ HostInv'
    BY <1>0, <2>1, <2>2, HostTakesTypes
  <2> QED
    BY <1>a, <1>d, <2>1, <2>2, <2>3 DEF Sound
<1>4. CASE ExecQuery
  <2>1. /\ UNCHANGED disk /\ UNCHANGED host /\ UNCHANGED env
        /\ tin' = tin /\ tr' = tr
    BY <1>4 DEF ExecQuery
  <2>2. PICK answer \in Seq(Octet) : /\ answer # <<>> /\ Reply(answer)
                                     /\ buff' = WithArgs(buff, answer)
    <3>1. <<0, 1>> \in Seq(Octet) /\ <<0, 0, 0, 1>> \in Seq(Octet)
          /\ <<0, 1>> # <<>> /\ <<0, 0, 0, 1>> # <<>>
      BY <1>e
    <3>2. CASE tin[1] = LPTS_HELLO
      BY <1>4, <3>1, <3>2 DEF ExecQuery
    <3>3. CASE tin[1] # LPTS_HELLO
      BY <1>4, <3>1, <3>3 DEF ExecQuery
    <3> QED
      BY <3>2, <3>3
  <2>3. buff' \in Sector /\ tr' \in Octet
    BY <1>0, <2>1, <2>2, ArgsTypes DEF TargetTypes
  <2>4. TargetTypes' /\ TargetInv'
    BY <1>0, <2>1, <2>2, <2>3, ReplyTypes
  <2> QED
    BY <1>a, <1>b, <1>d, <2>1, <2>4 DEF Sound
<1>5. CASE ExecRead
  <2>1. /\ UNCHANGED disk /\ UNCHANGED host /\ UNCHANGED env
        /\ tin' = tin /\ tpc = "exec" /\ tin[1] = LPTS_READ_BLOCK
    BY <1>5 DEF ExecRead
  <2>2. SubSeq(tin, 2, 6) \in Seq(Octet)
    <3>1. tin \in Seq(Octet) /\ Len(tin) = 6
      BY <1>0, <2>1, CommandIs
    <3>2. 6 <= Len(tin)
      BY <3>1
    <3> QED
      BY <3>1, <3>2, CommandParts
  <2>3. PICK bytes \in Seq(Octet) :
           bytes # <<>> /\ Reply(bytes) /\ tr' \in Octet /\ buff' \in Sector
    <3> DEFINE unit == tin[2]
               lba == WordAt(tin, 3) * Base * Base + WordAt(tin, 5)
    <3>1. \/ /\ unit \in Unit /\ lba \in Lbn
             /\ tr' = 0
             /\ buff' = disk[unit][lba]
             /\ Reply(BlockReply(buff'))
          \/ /\ tr' = 1
             /\ buff' = WithArgs(buff, SubSeq(tin, 2, 6))
             /\ Reply(<<1>>)
      BY <1>5 DEF ExecRead
    <3> HIDE DEF unit, lba
    <3>2. CASE /\ unit \in Unit /\ lba \in Lbn /\ tr' = 0
               /\ buff' = disk[unit][lba] /\ Reply(BlockReply(buff'))
      <4>1. PICK data \in Sector : data = disk[unit][lba]
        BY <1>0, <3>2 DEF DiskTypes
      <4>2. BlockReply(data) \in Seq(Octet) /\ Len(BlockReply(data)) > 1
        BY BlockReplyIs
      <4>3. BlockReply(data) # <<>>
        BY <4>2
      <4> QED
        BY <1>e, <3>2, <4>1, <4>2, <4>3
    <3>3. CASE /\ tr' = 1 /\ buff' = WithArgs(buff, SubSeq(tin, 2, 6)) /\ Reply(<<1>>)
      <4>1. buff' \in Sector
        BY <1>0, <2>2, <3>3, ArgsTypes DEF TargetTypes
      <4>2. <<1>> \in Seq(Octet) /\ <<1>> # <<>>
        BY <1>e
      <4> QED
        BY <1>e, <3>3, <4>1, <4>2
    <3> QED
      BY <3>1, <3>2, <3>3
  <2>4. TargetTypes' /\ TargetInv'
    BY <1>0, <2>1, <2>3, ReplyTypes
  <2> QED
    BY <1>a, <1>b, <1>d, <2>1, <2>4 DEF Sound
<1>6. CASE ExecWrite
  <2> DEFINE unit == tin[2]
             lba == WordAt(tin, 5)
             body == SubSeq(tin, 7, Len(tin))
  <2>1. /\ UNCHANGED host /\ UNCHANGED env
        /\ tin' = tin /\ tpc = "exec" /\ tin[1] = LPTS_WRITE_BLOCK
        /\ buff' = IF WordAt(tin, 3) = 0 THEN body
                   ELSE LPTDecompress(WithArgs(buff, SubSeq(tin, 2, 6)), body)
        /\ \/ /\ unit \in Unit /\ lba \in Lbn
              /\ disk' = [disk EXCEPT ![unit][lba] = buff']
              /\ tr' \in {0, 1}
           \/ /\ tr' \in {1, ByteMax}
              /\ UNCHANGED disk
        /\ Reply(<<tr'>>)
    BY <1>6 DEF ExecWrite
  <2>2. /\ tin \in Seq(Octet) /\ Len(tin) >= 6
        /\ WordAt(tin, 3) = 0 => Len(tin) = 6 + SectorLen
    BY <1>0, <2>1, CommandIs
  <2>3. /\ SubSeq(tin, 2, 6) \in Seq(Octet)
        /\ body \in Seq(Octet) /\ Len(body) = Len(tin) - 6
    BY <2>2, CommandParts
  <2> HIDE DEF unit, lba, body
  <2>4. buff' \in Sector
    <3>1. CASE WordAt(tin, 3) = 0
      BY <2>1, <2>2, <2>3, <3>1, SectorIsSeq, RleAssumption
    <3>2. CASE WordAt(tin, 3) # 0
      <4>1. WithArgs(buff, SubSeq(tin, 2, 6)) \in Sector
        BY <1>0, <2>3, ArgsTypes DEF TargetTypes
      <4> QED
        BY <2>1, <2>3, <3>2, <4>1, DecompressTypes
    <3> QED
      BY <3>1, <3>2
  <2>5. tr' \in Octet
    BY <1>e, <2>1
  <2>6. <<tr'>> \in Seq(Octet) /\ <<tr'>> # <<>>
    BY <2>5
  <2>7. TargetTypes' /\ TargetInv'
    BY <1>0, <2>1, <2>4, <2>5, <2>6, ReplyTypes
  <2>8. DiskTypes'
    <3>1. CASE disk' = [disk EXCEPT ![unit][lba] = buff']
      BY <1>0, <2>4, <3>1 DEF DiskTypes
    <3>2. CASE UNCHANGED disk
      BY <1>d, <3>2
    <3> QED
      BY <2>1, <3>1, <3>2
  <2> QED
    BY <1>a, <1>b, <2>1, <2>7, <2>8 DEF Sound
<1>7. CASE HostHalt
  <2>1. /\ UNCHANGED disk /\ UNCHANGED host /\ UNCHANGED target
        /\ hrun' = FALSE /\ UNCHANGED <<ack, slipped, garbles>>
        /\ halts' = halts + 1 /\ halts < MaxHalts
    BY <1>7 DEF HostHalt
  <2>2. halts' \in 0 .. MaxHalts
    BY <1>0, <2>1, ProtocolAssumption DEF EnvTypes
  <2>3. EnvTypes'
    BY <1>0, <2>1, <2>2, Zenon DEF EnvTypes
  <2> QED
    BY <1>b, <1>c, <1>d, <2>1, <2>3 DEF Sound
<1>8. CASE HostResume
  <2>1. /\ UNCHANGED disk /\ UNCHANGED host /\ UNCHANGED target
        /\ hrun' = TRUE /\ UNCHANGED <<ack, slipped, halts, garbles>>
    BY <1>8 DEF HostResume
  <2>2. EnvTypes'
    BY <1>0, <2>1, Zenon DEF EnvTypes
  <2> QED
    BY <1>b, <1>c, <1>d, <2>1, <2>2 DEF Sound
<1>9. CASE TargetGivesUp \/ FirstByteGivenUp
  <2>1. GivesUp
    BY <1>9 DEF TargetGivesUp, FirstByteGivenUp
  <2>2. /\ UNCHANGED disk /\ UNCHANGED host
        /\ tpc' = "get" /\ tin' = <<>> /\ tout' = <<>> /\ UNCHANGED <<tr, buff>>
        /\ ack' \in {0, 1} /\ slipped' = TRUE /\ UNCHANGED <<hrun, halts, garbles>>
    BY <2>1 DEF GivesUp
  <2>3. EnvTypes'
    BY <1>0, <2>2, Zenon DEF EnvTypes
  <2> QED
    BY <1>b, <1>d, <1>g, <2>2, <2>3 DEF Sound
<1>10. CASE Garbled
  <2>1. /\ UNCHANGED disk /\ ack' \in {0, 1} /\ UNCHANGED <<hrun, slipped, halts>>
        /\ garbles < MaxGarbles /\ garbles' = garbles + 1
    BY <1>10 DEF Garbled
  <2>2. Noise \subseteq Octet
    BY ProtocolAssumption
  <2>3. HostTypes' /\ HostInv'
    <3>1. \/ Sending /\ hout' = Tail(hout) /\ UNCHANGED <<call, hin, done, got, outcome>>
          \/ Receiving /\ \E b \in Noise : HostTakes(b)
          \/ UNCHANGED host
      BY <1>10 DEF Garbled
    <3>2. ASSUME Receiving, NEW b \in Noise, HostTakes(b)
          PROVE  HostTypes' /\ HostInv'
      BY <1>0, <2>2, <3>2, HostTakesTypes
    <3> QED
      BY <1>b, <1>f, <3>1, <3>2
  <2>4. TargetTypes' /\ TargetInv'
    <3>1. \/ /\ tpc = "get" /\ (\E b \in Noise : TargetTakes(b))
             /\ UNCHANGED <<tout, tr, buff>>
          \/ tpc = "put" /\ TargetGave
          \/ tpc' = "get" /\ tin' = <<>> /\ tout' = <<>> /\ UNCHANGED <<tr, buff>>
      BY <1>10 DEF Garbled
    <3>2. ASSUME tpc = "get", NEW b \in Noise, TargetTakes(b), UNCHANGED <<tout, tr, buff>>
          PROVE  TargetTypes' /\ TargetInv'
      BY <1>0, <2>2, <3>2, TargetTakesTypes
    <3>3. ASSUME tpc = "put", TargetGave
          PROVE  TargetTypes' /\ TargetInv'
      BY <1>0, <3>3, TargetGaveTypes
    <3> QED
      BY <1>g, <3>1, <3>2, <3>3
  <2>5. EnvTypes'
    <3>1. garbles' \in 0 .. MaxGarbles
      BY <1>0, <2>1, ProtocolAssumption DEF EnvTypes
    <3> QED
      BY <1>0, <2>1, <3>1, Zenon DEF EnvTypes
  <2> QED
    BY <1>d, <2>1, <2>3, <2>4, <2>5 DEF Sound
<1>11. CASE AckFalls
  <2>1. /\ UNCHANGED disk /\ UNCHANGED host /\ UNCHANGED target
        /\ ack' = 0 /\ UNCHANGED <<hrun, slipped, halts, garbles>>
    BY <1>11 DEF AckFalls
  <2>2. EnvTypes'
    BY <1>0, <2>1, Zenon DEF EnvTypes
  <2> QED
    BY <1>b, <1>c, <1>d, <2>1, <2>2 DEF Sound
<1>12. CASE UNCHANGED vars
  <2>1. UNCHANGED disk /\ UNCHANGED host /\ UNCHANGED target /\ UNCHANGED env
    BY <1>12 DEF vars
  <2> QED
    BY <1>a, <1>b, <1>c, <1>d, <2>1 DEF Sound
<1> QED
  BY <1>1, <1>2, <1>3, <1>4, <1>5, <1>6, <1>7, <1>8, <1>9, <1>10, <1>11, <1>12
     DEF Next, PromptNext
-----------------------------------------------------------------------------
(* The steps, of two sides that are in step.                               *)

\* A byte moves from the head of one sequence to the end of another.
LEMMA HeadMoves ==
    ASSUME NEW a \in Seq(Octet), NEW b \in Seq(Octet), b # <<>>
    PROVE  LET t == Append(a, Head(b))
               R == a \o b
           IN  /\ t \in Seq(Octet) /\ t # <<>> /\ Len(t) <= Len(R)
               /\ R \in Seq(Octet)
               /\ \A k \in 1 .. Len(t) : t[k] = R[k]
               /\ t \o Tail(b) = R
               /\ Len(t) = Len(R) <=> Tail(b) = <<>>
               /\ Tail(b) = <<>> => t = R
<1> DEFINE t == Append(a, Head(b))
           R == a \o b
<1>1. /\ Head(b) \in Octet /\ Tail(b) \in Seq(Octet) /\ Len(Tail(b)) = Len(b) - 1
      /\ Len(b) \in Nat \ {0} /\ Len(a) \in Nat
  BY HeadTailProperties, EmptySeq
<1>2. t \in Seq(Octet) /\ Len(t) = Len(a) + 1 /\ t # <<>>
      /\ (\A k \in 1 .. Len(a) : t[k] = a[k]) /\ t[Len(a) + 1] = Head(b)
  BY <1>1
<1>3. /\ R \in Seq(Octet) /\ Len(R) = Len(a) + Len(b)
      /\ \A k \in 1 .. Len(a) : R[k] = a[k]
      /\ \A k \in 1 .. Len(b) : R[Len(a) + k] = b[k]
  BY Joined
<1>4. \A k \in 1 .. Len(t) : t[k] = R[k]
  <2>1. R[Len(a) + 1] = Head(b)
    BY <1>1, <1>3
  <2> HIDE DEF t, R
  <2> QED
    BY <1>1, <1>2, <1>3, <2>1
<1>5. t \o Tail(b) = R
  <2>1. t = a \o <<Head(b)>> /\ <<Head(b)>> \in Seq(Octet)
    BY <1>1
  <2>2. (a \o <<Head(b)>>) \o Tail(b) = a \o (<<Head(b)>> \o Tail(b))
    BY <1>1, <2>1, ConcatAssociative
  <2>3. b = <<Head(b)>> \o Tail(b)
    BY <1>1
  <2> QED
    BY <2>1, <2>2, <2>3
<1>6. Len(t) = Len(R) <=> Tail(b) = <<>>
  <2>1. Len(Tail(b)) = 0 <=> Tail(b) = <<>>
    BY <1>1
  <2> HIDE DEF t, R
  <2> QED
    BY <1>1, <1>2, <1>3, <2>1
<1>7. Tail(b) = <<>> => t = R
  <2>1. t \o <<>> = t
    BY <1>2, ConcatEmptySeq
  <2> HIDE DEF t, R
  <2> QED
    BY <1>5, <2>1
<1>8. Len(t) <= Len(R)
  <2> HIDE DEF t, R
  <2> QED
    BY <1>1, <1>2, <1>3
<1> QED
  BY <1>2, <1>3, <1>4, <1>5, <1>6, <1>7, <1>8

\* The answer to the request for a block says whether the disk access failed, and has
\* the block in it; the host reads exactly the bytes of it.
LEMMA AnswerIs ==
    ASSUME Sound, call # None
    PROVE  /\ Answer \in Seq(Octet) /\ Answer # <<>>
           /\ ReplyOk(call, Answer) <=> tr = 0
           /\ call.kind = "read" /\ tr = 0 => BlockIn(Answer) = buff
           /\ \A r \in Seq(Octet) :
                 r # <<>> /\ Len(r) <= Len(Answer) /\ (\A k \in 1 .. Len(r) : r[k] = Answer[k]) =>
                    (Len(r) < ReplyLen(call, r) <=> Len(r) < Len(Answer))
<1>1. /\ call \in Calls /\ call.kind \in {"read", "write"}
      /\ tr \in Octet /\ buff \in Sector /\ 1 \in Octet
  BY Current, CallAssumption, RleAssumption DEF Sound, TargetTypes, Octet
<1>2. CASE call.kind = "write"
  <2>1. PICK A : A = <<tr>>
    OBVIOUS
  <2>2. A \in Seq(Octet) /\ A # <<>> /\ Len(A) = 1 /\ A[1] = tr
    BY <1>1, <2>1
  <2>3. Answer = A
    BY <1>2, <2>1 DEF Answer
  <2>4. ReplyOk(call, A) <=> tr = 0
    BY <1>2, <2>2 DEF ReplyOk
  <2>5. ASSUME NEW r \in Seq(Octet), r # <<>>, Len(r) <= Len(A)
        PROVE  Len(r) < ReplyLen(call, r) <=> Len(r) < Len(A)
    <3>1. Len(r) = 1
      BY <2>2, <2>5
    <3>2. ReplyLen(call, r) = 1
      BY <1>2, <3>1 DEF ReplyLen
    <3> QED
      BY <2>2, <3>1, <3>2
  <2> QED
    BY <1>2, <2>2, <2>3, <2>4, <2>5
<1>3. CASE call.kind = "read" /\ tr # 0
  <2>1. PICK A : A = <<1>>
    OBVIOUS
  <2>2. A \in Seq(Octet) /\ A # <<>> /\ Len(A) = 1 /\ A[1] = 1
    BY <1>1, <2>1
  <2>3. Answer = A
    BY <1>3, <2>1 DEF Answer
  <2>4. ~ReplyOk(call, A)
    BY <1>3, <2>2 DEF ReplyOk
  <2>5. ASSUME NEW r \in Seq(Octet), r # <<>>, Len(r) <= Len(A),
               \A k \in 1 .. Len(r) : r[k] = A[k]
        PROVE  Len(r) < ReplyLen(call, r) <=> Len(r) < Len(A)
    <3>1. Len(r) = 1 /\ r[1] = 1
      BY <2>2, <2>5
    <3>2. ReplyLen(call, r) = 1
      BY <3>1 DEF ReplyLen
    <3> QED
      BY <2>2, <3>1, <3>2
  <2> QED
    BY <1>3, <2>2, <2>3, <2>4, <2>5
<1>4. CASE call.kind = "read" /\ tr = 0
  <2>1. PICK A : A = BlockReply(buff)
    OBVIOUS
  <2>2. /\ A \in Seq(Octet) /\ Len(A) > 1 /\ A[1] \in {0, 2}
        /\ A[1] = 0 => Len(A) = 1 + SectorLen
        /\ A[1] = 2 => Len(A) > 3 /\ Len(A) = 3 + WordAt(A, 2)
        /\ BlockIn(A) = buff
    BY <1>1, <2>1, BlockReplyIs
  <2>3. Answer = A
    BY <1>4, <2>1 DEF Answer
  <2>4. ReplyOk(call, A)
    BY <1>4, <2>2 DEF ReplyOk
  <2>5. ASSUME NEW r \in Seq(Octet), r # <<>>, Len(r) <= Len(A),
               \A k \in 1 .. Len(r) : r[k] = A[k]
        PROVE  Len(r) < ReplyLen(call, r) <=> Len(r) < Len(A)
    <3>1. r[1] = A[1] /\ Len(r) \in Nat \ {0}
      BY <2>5, EmptySeq
    <3>2. CASE A[1] = 0
      <4>1. ReplyLen(call, r) = 1 + SectorLen
        BY <1>4, <3>1, <3>2 DEF ReplyLen
      <4> QED
        BY <2>2, <3>2, <4>1
    <3>3. CASE A[1] = 2
      <4>1. ReplyLen(call, r) = 3 + (IF Len(r) < 3 THEN 0 ELSE WordAt(r, 2))
        BY <1>4, <3>1, <3>3 DEF ReplyLen
      <4>2. ~(Len(r) < 3) => WordAt(r, 2) = WordAt(A, 2)
        BY <2>5, <3>1 DEF WordAt
      <4>3. Len(A) > 3 /\ Len(A) = 3 + WordAt(A, 2) /\ Len(A) \in Nat
        BY <2>2, <3>3
      <4>4. CASE Len(r) < 3
        BY <3>1, <4>1, <4>3, <4>4
      <4>5. CASE ~(Len(r) < 3)
        BY <4>1, <4>2, <4>3, <4>5
      <4> QED
        BY <4>4, <4>5
    <3> QED
      BY <2>2, <3>2, <3>3
  <2>6. A # <<>>
    BY <2>2
  <2> QED
    BY <1>4, <2>2, <2>3, <2>4, <2>5, <2>6
<1> QED
  BY <1>1, <1>2, <1>3, <1>4

\* A byte of a request either leaves the host with more of it to send, or the target
\* with all of it.
LEMMA InStepSends ==
    ASSUME Sound, InStep, SendByte
    PROVE  /\ UNCHANGED <<disk, call, hin, done, got, outcome, tout, tr, buff, env>>
           /\ hin = <<>> /\ tpc = "get" /\ call # None
           /\ \/ tpc' = "get" /\ hout' # <<>> /\ tin' \o hout' = Request(call, done)
              \/ tpc' = "exec" /\ hout' = <<>> /\ tin' = Request(call, done)
<1> DEFINE t == Append(tin, Head(hout))
           R == Request(call, done)
<1>1. /\ Sending /\ tpc = "get" /\ TargetTakes(Head(hout)) /\ hout' = Tail(hout)
      /\ UNCHANGED <<disk, call, hin, done, got, outcome, tout, tr, buff, env>>
  BY DEF SendByte
<1>2. /\ call # None /\ hout # <<>> /\ hout \in Seq(Octet) /\ tin \in Seq(Octet)
      /\ tin \o hout = R /\ hin = <<>>
  BY <1>1 DEF Sound, InStep, Sending, HostTypes, TargetTypes, HostInv, Receiving
<1>3. /\ t \in Seq(Octet) /\ t # <<>> /\ Len(t) <= Len(R)
      /\ \A k \in 1 .. Len(t) : t[k] = R[k]
      /\ t \o Tail(hout) = R
      /\ Len(t) = Len(R) <=> Tail(hout) = <<>>
      /\ Tail(hout) = <<>> => t = R
      /\ R \in Seq(Octet)
  <2> DEFINE Q == tin \o hout
  <2>1. /\ t \in Seq(Octet) /\ t # <<>> /\ Len(t) <= Len(Q)
        /\ \A k \in 1 .. Len(t) : t[k] = Q[k]
        /\ t \o Tail(hout) = Q
        /\ Len(t) = Len(Q) <=> Tail(hout) = <<>>
        /\ Tail(hout) = <<>> => t = Q
        /\ Q \in Seq(Octet)
    BY <1>2, HeadMoves
  <2>2. Q = R
    BY <1>2
  <2> HIDE DEF Q, t, R
  <2> QED
    BY <2>1, <2>2
<1>4. call \in Calls /\ done \in 0 .. call.count - 1
  BY <1>2, Current DEF Sound
<1>5. (Len(t) < RequestLen(t) <=> Len(t) < Len(R)) /\ Known(t)
  <2> HIDE DEF t
  <2> QED
    BY <1>3, <1>4, RequestRead
<1>6. Len(t) \in Nat /\ Len(R) \in Nat
  BY <1>3
<1>7. CASE Len(t) < Len(R)
  <2>1. tin' = t /\ tpc' = "get"
    BY <1>1, <1>5, <1>7 DEF TargetTakes
  <2>2. Tail(hout) # <<>>
    <3> HIDE DEF t, R
    <3> QED
      BY <1>3, <1>6, <1>7
  <2> QED
    BY <1>1, <1>2, <1>3, <2>1, <2>2
<1>8. CASE ~(Len(t) < Len(R))
  <2>1. tin' = t /\ tpc' = "exec"
    BY <1>1, <1>5, <1>8 DEF TargetTakes
  <2>2. Tail(hout) = <<>>
    <3> HIDE DEF t, R
    <3> QED
      BY <1>3, <1>6, <1>8
  <2> QED
    BY <1>1, <1>2, <1>3, <2>1, <2>2
<1> QED
  BY <1>7, <1>8

\* A byte of a reply either leaves the target with more of it to send, or the host
\* with all of it, and then both go on to the next block.
LEMMA InStepReceives ==
    ASSUME Sound, InStep, RecvByte
    PROVE  /\ UNCHANGED <<disk, tr, buff, env>>
           /\ call # None /\ tpc = "put"
           /\ \/ /\ tpc' = "put" /\ tin' = tin /\ hin' \o tout' = Answer
                 /\ UNCHANGED <<call, hout, done, got, outcome>>
              \/ /\ tpc' = "get" /\ tin' = <<>>
                 /\ EndBlock(Answer)
<1> DEFINE r == Append(hin, Head(tout))
<1>1. /\ Receiving /\ tpc = "put" /\ HostTakes(Head(tout)) /\ TargetGave
      /\ UNCHANGED <<disk, env>>
  BY DEF RecvByte
<1>2. /\ tr' = tr /\ buff' = buff /\ tout' = Tail(tout)
      /\ tpc' = IF Len(tout) = 1 THEN "get" ELSE "put"
      /\ tin' = IF Len(tout) = 1 THEN <<>> ELSE tin
  BY <1>1 DEF TargetGave
<1>3. /\ call # None /\ tout # <<>> /\ tout \in Seq(Octet) /\ hin \in Seq(Octet)
      /\ hin \o tout = Answer
  BY <1>1 DEF Sound, InStep, Receiving, HostTypes, TargetTypes, TargetInv
<1>4. /\ r \in Seq(Octet) /\ r # <<>> /\ Len(r) <= Len(Answer)
      /\ \A k \in 1 .. Len(r) : r[k] = Answer[k]
      /\ r \o Tail(tout) = Answer
      /\ Len(r) = Len(Answer) <=> Tail(tout) = <<>>
      /\ Tail(tout) = <<>> => r = Answer
      /\ Answer \in Seq(Octet)
  BY <1>3, HeadMoves
<1>5. Len(r) < ReplyLen(call, r) <=> Len(r) < Len(Answer)
  <2> HIDE DEF r
  <2> QED
    BY <1>3, <1>4, AnswerIs
<1>6. Len(r) \in Nat /\ Len(Answer) \in Nat
  BY <1>4
<1>7. Len(tout) = 1 <=> Tail(tout) = <<>>
  <2>1. /\ Tail(tout) \in Seq(Octet) /\ Len(Tail(tout)) = Len(tout) - 1 /\ Len(tout) \in Nat
    BY <1>3, HeadTailProperties
  <2>2. Len(Tail(tout)) = 0 <=> Tail(tout) = <<>>
    BY <2>1, EmptySeq
  <2> QED
    BY <2>1, <2>2
<1> HIDE DEF r
<1>8. CASE Len(r) < Len(Answer)
  <2>1. hin' = r /\ UNCHANGED <<call, hout, done, got, outcome>>
    BY <1>1, <1>5, <1>8 DEF HostTakes, r
  <2>2. Len(tout) # 1
    BY <1>4, <1>6, <1>7, <1>8
  <2> QED
    BY <1>1, <1>2, <1>3, <1>4, <2>1, <2>2
<1>9. CASE ~(Len(r) < Len(Answer))
  <2>1. EndBlock(r)
    BY <1>1, <1>5, <1>9 DEF HostTakes, r
  <2>2. Len(tout) = 1 /\ r = Answer
    BY <1>4, <1>6, <1>7, <1>9
  <2> QED
    BY <1>1, <1>2, <1>3, <2>1, <2>2
<1> QED
  BY <1>8, <1>9

\* What is left of the two answers of a target that is in step
LEMMA InStepExecutes ==
    ASSUME Sound, InStep, tpc = "exec"
    PROVE  /\ call # None /\ hout = <<>> /\ hin = <<>> /\ tin = Request(call, done)
           /\ tin[2] = call.unit /\ WordAt(tin, 5) = call.lbn + done
           /\ call.kind = "read" =>
                 /\ tin[1] = LPTS_READ_BLOCK
                 /\ WordAt(tin, 3) * Base * Base + WordAt(tin, 5) = call.lbn + done
           /\ call.kind = "write" => tin[1] = LPTS_WRITE_BLOCK
           /\ call.kind \in {"read", "write"}
<1>1. /\ call # None /\ hout = <<>> /\ hin = <<>> /\ tin = Request(call, done)
  BY DEF InStep, Sending, Receiving
<1>2. call \in Calls /\ done \in 0 .. call.count - 1 /\ call.kind \in {"read", "write"}
  BY <1>1, Current, CallAssumption DEF Sound
<1> DEFINE R == Request(call, done)
<1>3. /\ R[2] = call.unit /\ WordAt(R, 5) = call.lbn + done
      /\ call.kind = "read" => R[1] = LPTS_READ_BLOCK /\ WordAt(R, 3) = 0
      /\ call.kind = "write" => R[1] = LPTS_WRITE_BLOCK
  BY <1>2, RequestIs
<1>4. call.lbn + done \in Nat /\ Base \in Nat
  BY <1>2, CallAssumption, RleAssumption DEF Base
<1>5. 0 * Base * Base + (call.lbn + done) = call.lbn + done
  BY <1>4
<1> QED
  BY <1>1, <1>2, <1>3, <1>5

\* Two sides that are in step stay so, unless the target gives up a command; and two
\* that were not are again, once a call begins that finds the target idle and its
\* acknowledge low.
LEMMA InStepStep == ProtoInv /\ Sound' /\ [Next]_vars => (~slipped' => InStep')
<1> SUFFICES ASSUME ProtoInv, Sound', [Next]_vars, ~slipped'
             PROVE  InStep'
  OBVIOUS
<1>0. Sound /\ (~slipped => InStep)
  BY DEF ProtoInv
<1>a. UNCHANGED env => ~slipped /\ ack' = ack
  BY DEF env
<1>1. CASE Start
  <2>1. PICK c \in Calls : call' = c /\ hout' = Request(c, 0)
    BY <1>1 DEF Start, NewCall
  <2>2. 0 \in 0 .. c.count - 1
    BY CallAssumption
  <2>3. Request(c, 0) \in Seq(Octet) /\ Request(c, 0) # <<>>
    BY <2>2, RequestSent
  <2>4. Idle /\ ack = 0
    <3>1. CASE slipped
      BY <1>1, <3>1 DEF Start
    <3>2. CASE ~slipped
      BY <1>0, <1>1, <3>2 DEF Start, NewCall, InStep, Idle
    <3> QED
      BY <3>1, <3>2
  <2>5. /\ tpc' = "get" /\ tin' = <<>> /\ done' = 0 /\ call' # None /\ hout' # <<>>
        /\ ack' = 0
    BY <1>1, <2>1, <2>3, <2>4, ProtocolAssumption DEF Start, NewCall, Idle, target
  <2>6. tin' \o hout' = Request(call', done')
    <3>1. <<>> \o Request(c, 0) = Request(c, 0)
      BY <2>3, ConcatEmptySeq
    <3> QED
      BY <2>1, <2>5, <3>1
  <2> QED
    BY <2>5, <2>6 DEF InStep, Sending, Receiving
<1>2. CASE SendByte
  <2>1. InStep
    BY <1>0, <1>2, <1>a DEF SendByte
  <2>2. /\ UNCHANGED <<disk, call, hin, done, got, outcome, tout, tr, buff, env>>
        /\ hin = <<>> /\ tpc = "get" /\ call # None
        /\ \/ tpc' = "get" /\ hout' # <<>> /\ tin' \o hout' = Request(call, done)
           \/ tpc' = "exec" /\ hout' = <<>> /\ tin' = Request(call, done)
    BY <1>0, <1>2, <2>1, InStepSends
  <2>3. ack' = 0
    BY <2>1, <2>2, Zenon DEF InStep, env
  <2> QED
    BY <2>2, <2>3 DEF InStep, Sending, Receiving
<1>3. CASE RecvByte
  <2>1. InStep
    BY <1>0, <1>3, <1>a DEF RecvByte
  <2>2. /\ UNCHANGED <<disk, tr, buff, env>>
        /\ call # None /\ tpc = "put"
        /\ \/ /\ tpc' = "put" /\ tin' = tin /\ hin' \o tout' = Answer
              /\ UNCHANGED <<call, hout, done, got, outcome>>
           \/ /\ tpc' = "get" /\ tin' = <<>>
              /\ EndBlock(Answer)
    BY <1>0, <1>3, <2>1, InStepReceives
  <2>3. hout = <<>> /\ tin = Request(call, done)
    BY <2>1, <2>2 DEF InStep, Sending, Receiving
  <2>6. ack' = 0
    BY <2>1, <2>2, Zenon DEF InStep, env
  <2>4. CASE /\ tpc' = "put" /\ tin' = tin /\ hin' \o tout' = Answer
             /\ UNCHANGED <<call, hout, done, got, outcome>>
    BY <2>2, <2>3, <2>4, <2>6 DEF InStep, Sending, Receiving, Answer
  <2>5. CASE tpc' = "get" /\ tin' = <<>> /\ EndBlock(Answer)
    <3>1. CASE ReplyOk(call, Answer) /\ done + 1 < call.count
      <4>1. call' = call /\ done' = done + 1 /\ hout' = Request(call, done + 1) /\ hin' = <<>>
        BY <2>5, <3>1 DEF EndBlock
      <4>2. Request(call, done + 1) \in Seq(Octet) /\ Request(call, done + 1) # <<>>
        <5>1. call \in Calls /\ done + 1 \in 0 .. call.count - 1
          BY <1>0, <2>2, <3>1, Current, CallAssumption DEF Sound
        <5> QED
          BY <5>1, RequestSent
      <4>3. tin' \o hout' = Request(call, done + 1)
        BY <2>5, <4>1, <4>2, ConcatEmptySeq
      <4>4. Request(call', done') = Request(call, done + 1)
        BY <4>1
      <4> QED
        BY <2>2, <2>5, <2>6, <4>1, <4>2, <4>3, <4>4 DEF InStep, Sending, Receiving
    <3>2. CASE ~(ReplyOk(call, Answer) /\ done + 1 < call.count)
      <4>1. call' = None
        BY <2>5, <3>2 DEF EndBlock
      <4> QED
        BY <2>5, <2>6, <4>1 DEF InStep, Sending, Receiving
    <3> QED
      BY <3>1, <3>2
  <2> QED
    BY <2>2, <2>4, <2>5
<1>4. CASE ExecQuery
  <2>1. InStep /\ tpc = "exec"
    BY <1>0, <1>4, <1>a DEF ExecQuery
  <2>2. tin[1] \in {LPTS_READ_BLOCK, LPTS_WRITE_BLOCK}
    BY <1>0, <2>1, InStepExecutes
  <2> QED
    BY <1>4, <2>2 DEF ExecQuery, LPTS_HELLO, LPTS_QUERY_DISKS, LPTS_QUERY_DISK_CAPS,
                      LPTS_READ_BLOCK, LPTS_WRITE_BLOCK
<1>5. CASE ExecRead
  <2>1. /\ InStep /\ tpc = "exec" /\ tin[1] = LPTS_READ_BLOCK /\ tin' = tin
        /\ UNCHANGED <<call, hout, hin, done>> /\ ack' = 0
    BY <1>0, <1>5, <1>a DEF ExecRead, host, InStep
  <2>2. /\ call # None /\ hout = <<>> /\ hin = <<>> /\ tin = Request(call, done)
        /\ call.kind = "read"
    BY <1>0, <2>1, InStepExecutes DEF LPTS_READ_BLOCK, LPTS_WRITE_BLOCK
  <2>3. /\ tpc' = "put"
        /\ tout' = IF tr' = 0 THEN BlockReply(buff') ELSE <<1>>
    BY <1>5 DEF ExecRead, Reply
  <2>4. tout' = Answer'
    BY <2>1, <2>2, <2>3 DEF Answer
  <2>5. hin' \o tout' = tout'
    <3>1. tout' \in Seq(Octet)
      BY DEF Sound, TargetTypes
    <3> QED
      BY <2>1, <2>2, <3>1, ConcatEmptySeq
  <2> QED
    BY <2>1, <2>2, <2>3, <2>4, <2>5 DEF InStep, Sending, Receiving
<1>6. CASE ExecWrite
  <2>1. /\ InStep /\ tpc = "exec" /\ tin[1] = LPTS_WRITE_BLOCK /\ tin' = tin
        /\ UNCHANGED <<call, hout, hin, done>> /\ ack' = 0
    BY <1>0, <1>6, <1>a DEF ExecWrite, host, InStep
  <2>2. /\ call # None /\ hout = <<>> /\ hin = <<>> /\ tin = Request(call, done)
        /\ call.kind = "write"
    BY <1>0, <2>1, InStepExecutes DEF LPTS_READ_BLOCK, LPTS_WRITE_BLOCK
  <2>3. tpc' = "put" /\ tout' = <<tr'>>
    BY <1>6 DEF ExecWrite, Reply
  <2>4. tout' = Answer'
    BY <2>1, <2>2, <2>3 DEF Answer
  <2>5. hin' \o tout' = tout'
    <3>1. tout' \in Seq(Octet)
      BY DEF Sound, TargetTypes
    <3> QED
      BY <2>1, <2>2, <3>1, ConcatEmptySeq
  <2> QED
    BY <2>1, <2>2, <2>3, <2>4, <2>5 DEF InStep, Sending, Receiving
<1>7. CASE HostHalt \/ HostResume \/ AckFalls \/ UNCHANGED vars
  <2>1. /\ UNCHANGED host /\ UNCHANGED target /\ slipped' = slipped
        /\ ack' = ack \/ ack' = 0
    BY <1>7 DEF HostHalt, HostResume, AckFalls, vars, env
  <2>2. InStep
    BY <1>0, <2>1
  <2> QED
    BY <2>1, <2>2 DEF InStep, Sending, Receiving, Answer, host, target
<1>8. CASE Garbled
  BY <1>8 DEF Garbled
<1>9. CASE TargetGivesUp \/ FirstByteGivenUp
  BY <1>9 DEF TargetGivesUp, FirstByteGivenUp, GivesUp
<1> QED
  BY <1>1, <1>2, <1>3, <1>4, <1>5, <1>6, <1>7, <1>8, <1>9 DEF Next, PromptNext

\* The invariant is inductive.
LEMMA ProtoStep == ProtoInv /\ [Next]_vars => ProtoInv'
BY SoundStep, InStepStep DEF ProtoInv

\* A host that is not stopped is not given up by the target.
LEMMA PromptStep == ~slipped /\ [PromptNext]_vars => ~slipped' /\ [Next]_vars
<1> SUFFICES ASSUME ~slipped, [PromptNext]_vars PROVE ~slipped' /\ [Next]_vars
  OBVIOUS
<1>1. CASE Start
  BY <1>1 DEF Start, NewCall, Next, PromptNext
<1>2. CASE SendByte \/ RecvByte \/ ExecRead \/ ExecWrite
  BY <1>2 DEF SendByte, RecvByte, ExecRead, ExecWrite, env, Next, PromptNext
<1>3. CASE UNCHANGED vars
  BY <1>3 DEF vars, env
<1> QED
  BY <1>1, <1>2, <1>3 DEF PromptNext

\* The invariant holds of the system, and of the running system without exception.
LEMMA ProtoInvariant == Spec => []ProtoInv
BY ProtoStarts, ProtoStep, PTL DEF Spec

\* The running system is always in step.
LEMMA PromptInvariant == PromptSpec => [](ProtoInv /\ ~slipped)
<1>1. Init => ~slipped
  BY DEF Init
<1>2. ProtoInv /\ ~slipped /\ [PromptNext]_vars => (ProtoInv /\ ~slipped)'
  BY ProtoStep, PromptStep
<1> QED
  BY <1>1, <1>2, ProtoStarts, PTL DEF PromptSpec

-----------------------------------------------------------------------------
(* The theorems.                                                           *)

\* The variables keep their types, also while the host is stopped and a command is
\* made up of the bytes of another: in particular a block stays a block, and the bytes
\* of a reply that the host takes for one are those of a block.
THEOREM TypesKept == (Spec => []TypeOK) /\ (PromptSpec => []TypeOK)
BY ProtoTypes, ProtoInvariant, PromptInvariant, PTL

\* Host and target agree on the length of everything they exchange, whatever the
\* calls, the blocks and their codes.
THEOREM LengthsAgree == PromptSpec => []Agreement
<1>1. ProtoInv /\ ~slipped => Agreement
  <2> SUFFICES ASSUME ProtoInv, ~slipped PROVE Agreement
    OBVIOUS
  <2>1. Sound /\ InStep
    BY DEF ProtoInv
  <2>2. tout \in Seq(Octet) /\ (tpc = "put" <=> tout # <<>>) /\ tpc \in {"get", "exec", "put"}
    BY <2>1 DEF Sound, TargetTypes, TargetInv
  <2>3. tout # <<>> => Len(tout) > 0
    BY <2>2
  <2>4. hin # <<>> => Receiving
    BY <2>1 DEF Sound, HostInv
  <2> QED
    BY <2>1, <2>2, <2>3, <2>4 DEF InStep, Agreement, Receiving
<1> QED
  BY <1>1, PromptInvariant, PTL
-----------------------------------------------------------------------------
(* The block device.                                                       *)

\* The target has no share in the progress of the call.
LEMMA BarsWithout ==
    ASSUME ~Executed
    PROVE  doneBar = done /\ gotBar = got /\ failedBar = FALSE
BY Zenon DEF doneBar, gotBar, failedBar

\* The target has transferred the block.
LEMMA BarsAfterBlock ==
    ASSUME Executed, tr = 0
    PROVE  /\ doneBar = done + 1 /\ failedBar = FALSE
           /\ gotBar = IF call.kind = "read" THEN Append(got, buff) ELSE got
BY Zenon DEF doneBar, gotBar, failedBar

\* The storage has failed on it.
LEMMA BarsAfterFailure ==
    ASSUME Executed, tr # 0
    PROVE  doneBar = done /\ gotBar = got /\ failedBar = TRUE
BY Zenon DEF doneBar, gotBar, failedBar

\* A step of two sides that are in step, or come to be, is one of the block device:
\* a disk access is a block that is read or written, or the failure of one; the bytes
\* that cross change nothing, but for the last of a call, which makes it return.
LEMMA DeviceStep ==
    ProtoInv /\ [Next]_vars /\ ~slipped' => Device!Next \/ UNCHANGED Device!vars
<1> SUFFICES ASSUME ProtoInv, [Next]_vars, ~slipped'
             PROVE  Device!Next \/ UNCHANGED Device!vars
  OBVIOUS
<1>0. Sound /\ (~slipped => InStep)
  BY DEF ProtoInv
<1>a. UNCHANGED env => ~slipped
  BY DEF env
<1>1. CASE Start
  <2>1. /\ call = None /\ call' \in Calls /\ done' = 0 /\ got' = <<>>
        /\ disk' = disk /\ outcome' = outcome /\ tpc' = tpc
    BY <1>1 DEF Start, NewCall, target
  <2>2. tpc = "get"
    <3>1. CASE slipped
      BY <1>1, <3>1 DEF Start, Idle
    <3>2. CASE ~slipped
      BY <1>0, <2>1, <3>2 DEF InStep
    <3> QED
      BY <3>1, <3>2
  <2>3. ~Executed /\ ~Executed'
    BY <2>1, <2>2 DEF Executed
  <2>4. doneBar' = 0 /\ gotBar' = <<>> /\ failedBar' = FALSE
    BY <2>1, <2>3, Zenon DEF doneBar, gotBar, failedBar
  <2>5. Device!Start
    BY <2>1, <2>4 DEF Device!Start
  <2> QED
    BY <2>5 DEF Device!Next
<1>2. CASE SendByte
  <2>1. InStep
    BY <1>0, <1>2, <1>a DEF SendByte
  <2>2. /\ UNCHANGED <<disk, call, hin, done, got, outcome, tout, tr, buff, env>>
        /\ tpc = "get" /\ tpc' # "put"
    BY <1>0, <1>2, <2>1, InStepSends
  <2>3. ~Executed /\ ~Executed'
    BY <2>2 DEF Executed
  <2>4. UNCHANGED Device!vars
    BY <2>2, <2>3, Zenon DEF Device!vars, doneBar, gotBar, failedBar
  <2> QED
    BY <2>4
<1>3. CASE RecvByte
  <2>1. InStep
    BY <1>0, <1>3, <1>a DEF RecvByte
  <2>2. /\ UNCHANGED <<disk, tr, buff, env>>
        /\ call # None /\ tpc = "put"
        /\ \/ /\ tpc' = "put" /\ tin' = tin /\ hin' \o tout' = Answer
              /\ UNCHANGED <<call, hout, done, got, outcome>>
           \/ /\ tpc' = "get" /\ tin' = <<>>
              /\ EndBlock(Answer)
    BY <1>0, <1>3, <2>1, InStepReceives
  <2>3. Executed
    BY <2>2 DEF Executed
  <2>4. /\ ReplyOk(call, Answer) <=> tr = 0
        /\ call.kind = "read" /\ tr = 0 => BlockIn(Answer) = buff
    BY <1>0, <2>2, AnswerIs
  <2>5. done \in Nat /\ call.count \in Nat /\ done < call.count
    BY <1>0, <2>2, Current, CallAssumption DEF Sound
  <2>6. CASE tpc' = "put" /\ UNCHANGED <<call, hout, done, got, outcome>>
    <3>1. Executed'
      BY <2>2, <2>6 DEF Executed
    <3>2. UNCHANGED Device!vars
      BY <2>2, <2>3, <2>6, <3>1, Zenon DEF Device!vars, doneBar, gotBar, failedBar
    <3> QED
      BY <3>2
  <2>7. CASE tpc' = "get" /\ EndBlock(Answer)
    <3>1. ~Executed'
      BY <2>7 DEF Executed
    <3>2. doneBar' = done' /\ gotBar' = got' /\ failedBar' = FALSE
      BY <3>1, Zenon DEF doneBar, gotBar, failedBar
    <3>3. CASE tr = 0
      <4>1. /\ doneBar = done + 1 /\ failedBar = FALSE
            /\ gotBar = IF call.kind = "read" THEN Append(got, buff) ELSE got
        BY <2>3, <3>3, BarsAfterBlock
      <4>2. got' = gotBar
        BY <2>4, <2>7, <3>3, <4>1 DEF EndBlock
      <4>3. CASE done + 1 < call.count
        <5>1. done' = done + 1 /\ call' = call /\ outcome' = outcome
          BY <2>4, <2>7, <3>3, <4>3 DEF EndBlock
        <5>2. UNCHANGED Device!vars
          BY <2>2, <3>2, <4>1, <4>2, <5>1 DEF Device!vars
        <5> QED
          BY <5>2
      <4>4. CASE ~(done + 1 < call.count)
        <5>1. done' = 0 /\ call' = None /\ outcome' = "ok"
          BY <2>4, <2>7, <3>3, <4>4 DEF EndBlock
        <5>2. doneBar = call.count
          BY <2>5, <4>1, <4>4
        <5>3. Device!Return
          BY <2>2, <3>2, <4>1, <4>2, <5>1, <5>2 DEF Device!Return
        <5> QED
          BY <5>3 DEF Device!Next
      <4> QED
        BY <4>3, <4>4
    <3>4. CASE tr # 0
      <4>1. doneBar = done /\ gotBar = got /\ failedBar = TRUE
        BY <2>3, <3>4, BarsAfterFailure
      <4>2. call' = None /\ outcome' = "error" /\ done' = 0 /\ got' = got
        BY <2>4, <2>7, <3>4 DEF EndBlock
      <4>3. Device!Return
        BY <2>2, <3>2, <4>1, <4>2 DEF Device!Return
      <4> QED
        BY <4>3 DEF Device!Next
    <3> QED
      BY <3>3, <3>4
  <2> QED
    BY <2>2, <2>6, <2>7
<1>4. CASE TargetExec
  <2>1. /\ InStep /\ tpc = "exec" /\ UNCHANGED <<call, hout, hin, done, got, outcome>>
    BY <1>0, <1>4, <1>a DEF TargetExec, ExecQuery, ExecRead, ExecWrite, host
  <2>2. /\ call # None /\ tin = Request(call, done)
        /\ tin[2] = call.unit /\ WordAt(tin, 5) = call.lbn + done
        /\ call.kind = "read" =>
              /\ tin[1] = LPTS_READ_BLOCK
              /\ WordAt(tin, 3) * Base * Base + WordAt(tin, 5) = call.lbn + done
        /\ call.kind = "write" => tin[1] = LPTS_WRITE_BLOCK
        /\ call.kind \in {"read", "write"}
    BY <1>0, <2>1, InStepExecutes
  <2>3. ~Executed /\ doneBar = done /\ gotBar = got /\ failedBar = FALSE
    BY <2>1, BarsWithout DEF Executed
  <2>4. done \in Nat /\ call.count \in Nat /\ done < call.count /\ call \in Calls
        /\ done \in 0 .. call.count - 1
    BY <1>0, <2>2, Current, CallAssumption DEF Sound
  <2>5. Device!Busy
    BY <2>2, <2>3, <2>4 DEF Device!Busy
  <2>6. tpc' = "put" /\ Executed'
    BY <1>4, <2>1, <2>2 DEF TargetExec, ExecQuery, ExecRead, ExecWrite, Reply, Executed
  <2>7. /\ tr' = 0 => /\ doneBar' = done + 1 /\ failedBar' = FALSE
                      /\ gotBar' = IF call.kind = "read" THEN Append(got, buff') ELSE got
        /\ tr' # 0 => doneBar' = done /\ gotBar' = got /\ failedBar' = TRUE
    BY <2>1, <2>6, Zenon DEF doneBar, gotBar, failedBar
  <2>8. ASSUME tr' # 0, disk' = disk PROVE Device!Fail
    BY <2>1, <2>3, <2>5, <2>7, <2>8 DEF Device!Fail
  <2>9. CASE call.kind = "read"
    <3>1. ExecRead
      BY <1>4, <2>2, <2>9 DEF TargetExec, ExecQuery, ExecWrite, LPTS_HELLO, LPTS_QUERY_DISKS,
                LPTS_QUERY_DISK_CAPS, LPTS_READ_BLOCK, LPTS_WRITE_BLOCK
    <3>2. disk' = disk
      BY <3>1 DEF ExecRead
    <3>3. CASE tr' = 0
      <4>1. /\ call.unit \in Unit /\ call.lbn + done \in Lbn
            /\ buff' = disk[call.unit][call.lbn + done]
        BY <2>2, <2>9, <3>1, <3>3 DEF ExecRead
      <4>2. Device!ReadBlock
        BY <2>1, <2>3, <2>5, <2>7, <2>9, <3>2, <3>3, <4>1 DEF Device!ReadBlock
      <4> QED
        BY <4>2 DEF Device!Next
    <3>4. CASE tr' # 0
      BY <2>8, <3>2, <3>4 DEF Device!Next
    <3> QED
      BY <3>3, <3>4
  <2>10. CASE call.kind = "write"
    <3> DEFINE block == call.data[done + 1]
               lba == call.lbn + done
    <3>1. ExecWrite
      BY <1>4, <2>2, <2>10 DEF TargetExec, ExecQuery, ExecRead, LPTS_HELLO, LPTS_QUERY_DISKS,
                LPTS_QUERY_DISK_CAPS, LPTS_READ_BLOCK, LPTS_WRITE_BLOCK
    <3>2. buff' = block
      <4>1. /\ block \in Sector
            /\ WordAt(tin, 3) = Len(LPTCompress(block))
            /\ SubSeq(tin, 7, Len(tin)) = Body(call, done)
        BY <2>2, <2>4, <2>10, RequestIs
      <4>2. buff' = IF WordAt(tin, 3) = 0 THEN SubSeq(tin, 7, Len(tin))
                    ELSE LPTDecompress(WithArgs(buff, SubSeq(tin, 2, 6)), SubSeq(tin, 7, Len(tin)))
        BY <3>1 DEF ExecWrite
      <4>3. Body(call, done) = IF LPTCompress(block) = <<>> THEN block ELSE LPTCompress(block)
        BY DEF Body
      <4> HIDE DEF block
      <4>4. Len(LPTCompress(block)) = 0 <=> LPTCompress(block) = <<>>
        BY <4>1, BodyLength
      <4>5. CASE LPTCompress(block) = <<>>
        BY <4>1, <4>2, <4>3, <4>4, <4>5
      <4>6. CASE LPTCompress(block) # <<>>
        <5>1. PICK b : b = WithArgs(buff, SubSeq(tin, 2, 6))
          OBVIOUS
        <5>2. LPTDecompress(b, LPTCompress(block)) = block
          BY <4>1, <4>6, CodecLossless
        <5> QED
          BY <4>1, <4>2, <4>3, <4>4, <4>6, <5>1, <5>2
      <4> QED
        BY <4>5, <4>6
    <3>3. \/ /\ call.unit \in Unit /\ lba \in Lbn
             /\ disk' = [disk EXCEPT ![call.unit][lba] = block]
          \/ tr' # 0 /\ disk' = disk
      <4>1. \/ /\ tin[2] \in Unit /\ WordAt(tin, 5) \in Lbn
               /\ disk' = [disk EXCEPT ![tin[2]][WordAt(tin, 5)] = buff']
            \/ tr' \in {1, ByteMax} /\ disk' = disk
        BY <3>1 DEF ExecWrite
      <4>2. 1 # 0 /\ ByteMax # 0
        BY RleAssumption
      <4> QED
        BY <2>2, <3>2, <4>1, <4>2
    <3>4. ASSUME call.unit \in Unit, lba \in Lbn,
                 disk' = [disk EXCEPT ![call.unit][lba] = block]
          PROVE  Device!Next
      <4>1. Device!Store
        BY <2>3, <3>4 DEF Device!Store
      <4>2. CASE tr' = 0
        <5>1. Device!WriteBlock
          BY <2>1, <2>3, <2>5, <2>7, <2>10, <3>4, <4>1, <4>2 DEF Device!WriteBlock
        <5> QED
          BY <5>1 DEF Device!Next
      <4>3. CASE tr' # 0
        <5>1. Device!Fail
          BY <2>1, <2>3, <2>5, <2>7, <2>10, <3>4, <4>1, <4>3 DEF Device!Fail
        <5> QED
          BY <5>1 DEF Device!Next
      <4> QED
        BY <4>2, <4>3
    <3> QED
      BY <2>8, <3>3, <3>4 DEF Device!Next
  <2> QED
    BY <2>2, <2>9, <2>10
<1>5. CASE HostHalt \/ HostResume \/ AckFalls \/ UNCHANGED vars
  <2>1. UNCHANGED <<disk, call, done, got, outcome, tr, buff, tpc>>
    BY <1>5 DEF HostHalt, HostResume, AckFalls, vars, host, target
  <2>2. UNCHANGED Device!vars
    BY <2>1, Zenon DEF Device!vars, doneBar, gotBar, failedBar, Executed
  <2> QED
    BY <2>2
<1>6. CASE Garbled
  BY <1>6 DEF Garbled
<1>7. CASE TargetGivesUp \/ FirstByteGivenUp
  BY <1>7 DEF TargetGivesUp, FirstByteGivenUp, GivesUp
<1> QED
  BY <1>1, <1>2, <1>3, <1>4, <1>5, <1>6, <1>7 DEF Next, PromptNext, TargetExec

\* The block protocol is a block device: whatever DOS calls, whatever the blocks and
\* however often the storage fails, a call reads and writes the blocks it names, in
\* order, with their contents unchanged by headers, compression and the loops over the
\* blocks, and returns what the device said of the first block that failed.
THEOREM BlocksServed == PromptSpec => ServesBlocks
<1>1. Init => Device!Init
  <2> SUFFICES ASSUME Init PROVE Device!Init
    OBVIOUS
  <2>1. ~Executed
    BY DEF Init, Executed
  <2>2. doneBar = done /\ gotBar = got /\ failedBar = FALSE
    BY <2>1, BarsWithout
  <2> QED
    BY <2>2 DEF Init, Device!Init
<1>2. ProtoInv /\ ~slipped /\ [PromptNext]_vars => [Device!Next]_(Device!vars)
  BY PromptStep, DeviceStep
<1> QED
  BY <1>1, <1>2, PromptInvariant, PTL DEF PromptSpec, ServesBlocks, Device!Spec

\* A host that is stopped does no lasting harm, and none that is not noticed, as long
\* as the target has not given up a command: every step is one of the block device, and
\* so it is again from the first call that finds the target idle and its acknowledge
\* low, whatever was garbled, given up or left undone before.
THEOREM InStepServed == Spec => InStepServesBlocks
<1>1. ProtoInv /\ [Next]_vars => [slipped' \/ Device!Next \/ UNCHANGED Device!vars]_vars
  BY DeviceStep
<1> QED
  BY <1>1, ProtoInvariant, PTL DEF Spec, InStepServesBlocks
=============================================================================
