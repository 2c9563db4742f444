----------------------------- MODULE LptProtocol -----------------------------
(***************************************************************************)
(* The block protocol: LPTRead and LPTWrite of the DOS driver, which loop  *)
(* over the blocks of a call, against lptprotocol_task of the adapter.     *)
(* A byte crosses in one step, which is what LptLink shows of a host that  *)
(* keeps running; the storage behind disk_read_sector and                  *)
(* disk_write_sector is an array of blocks that may fail at any access.    *)
(*                                                                         *)
(* If the host is stopped for longer than PROTOCOL_TIMEOUT the target      *)
(* gives up the command.  The host does not notice: what it still sends is *)
(* then taken for new commands.  A host that was stopped in the middle of  *)
(* a byte also leaves the lines unsettled: the target may be idle with its *)
(* acknowledge high (lptcomms_readbyte gives up the second half of a byte  *)
(* without lowering it), and the bytes that follow are lost, made up of    *)
(* the nibbles of two, read where none was sent, or waited for for ever.   *)
(***************************************************************************)
EXTENDS ZeroRle

CONSTANTS Unit, Lbn,  \* units and block numbers that the storage has
          Fresh,      \* contents of blocks nobody wrote, a subset of Sector
          Calls,      \* the calls that DOS makes
          None,       \* no call
          Noise,      \* bytes that two garbled nibbles make
          MaxHalts,   \* bound: how often the host is stopped
          MaxGarbles  \* bound: how many bytes are garbled after that

LPTS_HELLO == 0
LPTS_QUERY_DISKS == 1
LPTS_QUERY_DISK_CAPS == 2
LPTS_READ_BLOCK == 3
LPTS_WRITE_BLOCK == 4

Base == ByteMax + 1

ASSUME ProtocolAssumption == /\ ByteMax >= LPTS_WRITE_BLOCK
                             /\ SectorLen >= 5 /\ SectorLen < Base * Base
                             /\ Unit \subseteq Octet
                             /\ Lbn \subseteq 0 .. Base * Base - 1
                             /\ Fresh \subseteq Sector
                             /\ None \notin Calls
                             /\ Noise \subseteq Octet
                             /\ MaxHalts \in Nat /\ MaxGarbles \in Nat

\* A call of DOS names at least one block, and none beyond those that a WORD counts:
\* LPTRead and LPTWrite would go on at block 0.
ASSUME CallAssumption ==
    \A c \in Calls :
        /\ c.kind \in {"read", "write"} /\ c.unit \in Octet
        /\ c.lbn \in Nat /\ c.count \in Nat \ {0}
        /\ c.lbn + c.count <= Base * Base
        /\ c.kind = "write" => \A j \in 1 .. c.count : c.data[j] \in Sector

VARIABLES disk,     \* the storage: [Unit -> [Lbn -> Sector]]
          call,     \* host: the call in progress
          hout,     \* host: bytes of the request still to be sent
          hin,      \* host: bytes of the reply received
          done,     \* host: blocks of the call completed (j)
          got,      \* host: contents read by the call (buffer)
          outcome,  \* host: what the last call returned
          tpc,      \* target: "get", "exec" or "put"
          tin,      \* target: bytes of the command received
          tout,     \* target: bytes of the reply still to be sent
          tr,       \* target: result of the disk access (r)
          buff,     \* target: the static buffer
          ack,      \* gpio 19 of an idle target: 1 if it is high, or about to be,
                    \* on account of a byte it has begun and not finished
          hrun,     \* is the host executing?
          slipped,  \* has the target given up, and no call begun in step since?
          halts,    \* how often the host was stopped
          garbles   \* how many bytes were garbled

host == <<call, hout, hin, done, got, outcome>>
target == <<tpc, tin, tout, tr, buff>>
env == <<ack, hrun, slipped, halts, garbles>>
vars == <<disk, host, target, env>>

Init == /\ disk \in [Unit -> [Lbn -> Fresh]]
        /\ call = None /\ hout = <<>> /\ hin = <<>>
        /\ done = 0 /\ got = <<>> /\ outcome = "none"
        /\ tpc = "get" /\ tin = <<>> /\ tout = <<>> /\ tr = 0
        /\ buff = Zeros(SectorLen)
        /\ ack = 0 /\ hrun = TRUE /\ slipped = FALSE /\ halts = 0 /\ garbles = 0
-----------------------------------------------------------------------------
(* What goes over the wire.                                                *)

\* Variants of Word and Plus: the low byte not masked; lbn not advanced.
WordUnmasked(n) == <<n \div Base, n>>
PlusNothing(lbn, n) == lbn

\* A WORD in two bytes; lbn++ of a WORD
Word(n) == <<n \div Base, n % Base>>
WordAt(bytes, i) == bytes[i] * Base + bytes[i + 1]
Plus(lbn, n) == (lbn + n) % (Base * Base)

\* The request for block j (from 0) of a call
Request(c, j) ==
    LET lbn == Plus(c.lbn, j)
        z == LPTCompress(c.data[j + 1])
    IN  IF c.kind = "read"
        THEN <<LPTS_READ_BLOCK, c.unit, 0, 0>> \o Word(lbn)
        ELSE <<LPTS_WRITE_BLOCK, c.unit>> \o Word(Len(z)) \o Word(lbn)
                 \o (IF z = <<>> THEN c.data[j + 1] ELSE z)

\* Variant of RequestLen: the uncompressed block not counted.
RequestLenNoRaw(t) ==
    CASE t[1] = LPTS_QUERY_DISK_CAPS -> 2
      [] t[1] = LPTS_READ_BLOCK -> 6
      [] t[1] = LPTS_WRITE_BLOCK -> 6 + (IF Len(t) < 6 THEN 0 ELSE WordAt(t, 3))
      [] OTHER -> 1

\* How many bytes the target reads, given those it has read; 0 if it wants none
RequestLen(t) ==
    CASE t[1] = LPTS_QUERY_DISK_CAPS -> 2
      [] t[1] = LPTS_READ_BLOCK -> 6
      [] t[1] = LPTS_WRITE_BLOCK ->
             6 + (IF Len(t) < 6 THEN 0
                  ELSE IF WordAt(t, 3) = 0 THEN SectorLen ELSE WordAt(t, 3))
      [] OTHER -> 1

\* LPTS_HELLO .. LPTS_WRITE_BLOCK; the switch has no default, and 0xff is ignored
Known(t) == t[1] \in LPTS_HELLO .. LPTS_WRITE_BLOCK

\* The first bytes of buff are also the arguments of the command.
WithArgs(b, args) == [k \in 1 .. SectorLen |-> IF k <= Len(args) THEN args[k] ELSE b[k]]

\* What the target sends of a block it has read
BlockReply(data) ==
    LET z == LPTCompress(data)
    IN  IF z = <<>> THEN <<0>> \o data ELSE <<2>> \o Word(Len(z)) \o z

\* Variant of ReplyLen: one more byte of an uncompressed block.
ReplyLenOneMore(c, r) ==
    CASE Len(r) = 0 -> 1
      [] Len(r) > 0 /\ (c.kind = "write" \/ r[1] \notin {0, 2}) -> 1
      [] Len(r) > 0 /\ c.kind = "read" /\ r[1] = 0 -> 2 + SectorLen
      [] Len(r) > 0 /\ c.kind = "read" /\ r[1] = 2 ->
             3 + (IF Len(r) < 3 THEN 0 ELSE WordAt(r, 2))

\* How many bytes of a reply the host reads, given those it has read
ReplyLen(c, r) ==
    CASE Len(r) = 0 -> 1
      [] Len(r) > 0 /\ (c.kind = "write" \/ r[1] \notin {0, 2}) -> 1
      [] Len(r) > 0 /\ c.kind = "read" /\ r[1] = 0 -> 1 + SectorLen
      [] Len(r) > 0 /\ c.kind = "read" /\ r[1] = 2 ->
             3 + (IF Len(r) < 3 THEN 0 ELSE WordAt(r, 2))

ReplyOk(c, r) == IF c.kind = "write" THEN r[1] = 0 ELSE r[1] \in {0, 2}

\* The block in a reply; what was in the caller's buffer does not matter
BlockIn(r) == IF r[1] = 0 THEN Tail(r)
              ELSE LPTDecompress(Zeros(SectorLen), SubSeq(r, 4, Len(r)))
-----------------------------------------------------------------------------
(* The host.                                                               *)

Idle == tpc = "get" /\ tin = <<>>

NewCall == /\ hrun /\ call = None
           /\ call' \in Calls
           /\ hout' = Request(call', 0)
           /\ hin' = <<>> /\ done' = 0 /\ got' = <<>>
           /\ UNCHANGED <<disk, outcome, target, ack, hrun, halts, garbles>>

\* Variant of Start: the acknowledge line taken to be low.
StartAtIdle == NewCall /\ slipped' = (slipped /\ ~Idle)

\* DOS calls LPTRead or LPTWrite.  The two sides are in step from here if the
\* target is idle and its acknowledge low.
Start == NewCall /\ slipped' = (slipped /\ ~(Idle /\ ack = 0))

Sending == call # None /\ hout # <<>>
Receiving == call # None /\ hout = <<>>

\* The reply r to the current block is complete: next block, or return.
EndBlock(r) ==
    /\ hin' = <<>>
    /\ IF ReplyOk(call, r)
       THEN /\ got' = IF call.kind = "read" THEN Append(got, BlockIn(r)) ELSE got
            /\ IF done + 1 < call.count
               THEN /\ done' = done + 1
                    /\ hout' = Request(call, done + 1)
                    /\ UNCHANGED <<call, outcome>>
               ELSE /\ call' = None /\ outcome' = "ok" /\ done' = 0
                    /\ UNCHANGED hout
       ELSE /\ call' = None /\ outcome' = "error" /\ done' = 0
            /\ UNCHANGED <<hout, got>>

\* A byte of the reply reaches the host.
HostTakes(b) == LET r == Append(hin, b)
                IN  IF Len(r) < ReplyLen(call, r)
                    THEN hin' = r /\ UNCHANGED <<call, hout, done, got, outcome>>
                    ELSE EndBlock(r)
-----------------------------------------------------------------------------
(* The target: lptprotocol_task.                                           *)

\* A byte of the request reaches the target.
TargetTakes(b) == LET t == Append(tin, b)
                  IN  IF Len(t) < RequestLen(t)
                      THEN tin' = t /\ tpc' = "get"
                      ELSE IF Known(t)
                      THEN tin' = t /\ tpc' = "exec"
                      ELSE tin' = <<>> /\ tpc' = "get"

SendByte == /\ hrun /\ Sending /\ tpc = "get" /\ ack = 0
            /\ TargetTakes(Head(hout))
            /\ hout' = Tail(hout)
            /\ UNCHANGED <<disk, call, hin, done, got, outcome, tout, tr, buff, env>>

\* The last byte of the reply is out: lptprotocol_task returns.
TargetGave == /\ tout' = Tail(tout)
              /\ tpc' = IF Len(tout) = 1 THEN "get" ELSE "put"
              /\ tin' = IF Len(tout) = 1 THEN <<>> ELSE tin
              /\ UNCHANGED <<tr, buff>>

RecvByte == /\ hrun /\ Receiving /\ tpc = "put"
            /\ HostTakes(Head(tout))
            /\ TargetGave
            /\ UNCHANGED <<disk, env>>

Reply(bytes) == tpc' = "put" /\ tout' = bytes

\* LPTS_HELLO, LPTS_QUERY_DISKS, LPTS_QUERY_DISK_CAPS
ExecQuery == /\ tpc = "exec"
             /\ tin[1] \in {LPTS_HELLO, LPTS_QUERY_DISKS, LPTS_QUERY_DISK_CAPS}
             /\ LET answer == IF tin[1] = LPTS_HELLO THEN <<0, 1>> ELSE <<0, 0, 0, 1>>
                IN  Reply(answer) /\ buff' = WithArgs(buff, answer)
             /\ UNCHANGED <<disk, host, tin, tr, env>>

\* LPTS_READ_BLOCK: the block is compressed, raw, or an error
ExecRead ==
    /\ tpc = "exec" /\ tin[1] = LPTS_READ_BLOCK
    /\ LET unit == tin[2]
           lba == WordAt(tin, 3) * Base * Base + WordAt(tin, 5)
       IN  \/ /\ unit \in Unit /\ lba \in Lbn
              /\ tr' = 0
              /\ buff' = disk[unit][lba]
              /\ Reply(BlockReply(buff'))
           \/ /\ tr' = 1
              /\ buff' = WithArgs(buff, SubSeq(tin, 2, 6))
              /\ Reply(<<1>>)
    /\ UNCHANGED <<disk, host, tin, env>>

\* LPTS_WRITE_BLOCK: what LPTDecompress does not restore stays as it was in buff
ExecWrite ==
    /\ tpc = "exec" /\ tin[1] = LPTS_WRITE_BLOCK
    /\ LET unit == tin[2]
           lba == WordAt(tin, 5)
           body == SubSeq(tin, 7, Len(tin))
       IN  /\ buff' = IF WordAt(tin, 3) = 0 THEN body
                      ELSE LPTDecompress(WithArgs(buff, SubSeq(tin, 2, 6)), body)
           /\ \/ /\ unit \in Unit /\ lba \in Lbn
                 /\ disk' = [disk EXCEPT ![unit][lba] = buff']
                 /\ tr' \in {0, 1}
              \/ /\ tr' \in {1, ByteMax}
                 /\ UNCHANGED disk
           /\ Reply(<<tr'>>)
    /\ UNCHANGED <<host, tin, env>>

TargetExec == ExecQuery \/ ExecRead \/ ExecWrite
-----------------------------------------------------------------------------
(* A host that is stopped.                                                 *)

HostHalt == /\ hrun /\ call # None /\ halts < MaxHalts
            /\ hrun' = FALSE /\ halts' = halts + 1
            /\ UNCHANGED <<disk, host, target, ack, slipped, garbles>>

HostResume == /\ ~hrun
              /\ hrun' = TRUE
              /\ UNCHANGED <<disk, host, target, ack, slipped, halts, garbles>>

\* A wait of the target ends: lptprotocol_task returns.  The acknowledge stays
\* high, or goes high again at once, if the host has left its strobe high.
GivesUp == /\ tpc' = "get" /\ tin' = <<>> /\ tout' = <<>>
           /\ ack' \in IF call = None THEN {0} ELSE {0, 1}
           /\ slipped' = TRUE
           /\ UNCHANGED <<disk, host, tr, buff, hrun, halts, garbles>>

\* Variant of TargetGivesUp: no timeout on a byte to be taken.
TargetGivesUpReading == tpc = "get" /\ tin # <<>> /\ (~hrun \/ ~Sending) /\ GivesUp

\* A byte does not come, or is not taken, for 200 ms.  With a running host this
\* is so when it waits as well, makes no call, or is sending where it should read.
TargetGivesUp == /\ \/ tpc = "get" /\ tin # <<>> /\ (~hrun \/ ~Sending)
                    \/ tpc = "put" /\ (~hrun \/ ~Receiving)
                 /\ GivesUp

\* The host was stopped in the middle of the first byte of a request, its strobe high.
FirstByteGivenUp == /\ Idle /\ ~hrun /\ Sending /\ ack = 0
                    /\ GivesUp /\ ack' = 1

\* Variant of Garbled: a strobe and an acknowledge cross in mid-call.
GarbledInStep ==
    /\ hrun /\ Sending /\ tpc = "get"
    /\ hout' = Tail(hout)
    /\ UNCHANGED <<disk, call, hin, done, got, outcome, target, env>>

\* The two sides are not in the same half of the same byte: each takes the edges
\* of the other for what it waits for.  The host has sent a byte or taken one, of
\* whatever nibbles were on the lines, or neither; so has the target, or its wait
\* has ended; the acknowledge is left at either level.  Nothing says that this
\* happens: a host that waits for an edge that is past waits for ever.
Garbled ==
    /\ hrun /\ slipped /\ call # None /\ tpc # "exec" /\ garbles < MaxGarbles
    /\ \/ Sending /\ hout' = Tail(hout) /\ UNCHANGED <<call, hin, done, got, outcome>>
       \/ Receiving /\ \E b \in Noise : HostTakes(b)
       \/ UNCHANGED host
    /\ \/ /\ tpc = "get" /\ (\E b \in Noise : TargetTakes(b))
          /\ UNCHANGED <<tout, tr, buff>>
       \/ tpc = "put" /\ TargetGave
       \/ tpc' = "get" /\ tin' = <<>> /\ tout' = <<>> /\ UNCHANGED <<tr, buff>>
    /\ ack' \in {0, 1} /\ (ack' = 1 => Idle')
    /\ garbles' = garbles + 1
    /\ UNCHANGED <<disk, hrun, slipped, halts>>

\* The target waits for a strobe it has seen before: that wait's end lowers the line.
AckFalls == /\ Idle /\ ack = 1 /\ call = None
            /\ ack' = 0
            /\ UNCHANGED <<disk, host, target, hrun, slipped, halts, garbles>>
-----------------------------------------------------------------------------
\* The running system; it also makes progress.  The driver queries nothing: it is
\* a byte out of place that the target takes for a query.
PromptNext == Start \/ SendByte \/ RecvByte \/ ExecRead \/ ExecWrite

Fairness == WF_vars(SendByte \/ RecvByte) /\ WF_vars(TargetExec)

PromptSpec == Init /\ [][PromptNext]_vars /\ Fairness

Next == PromptNext \/ ExecQuery \/ HostHalt \/ HostResume
              \/ TargetGivesUp \/ FirstByteGivenUp \/ Garbled \/ AckFalls

\* A timeout that is due expires.
Spec == Init /\ [][Next]_vars /\ Fairness /\ WF_vars(TargetGivesUp)
-----------------------------------------------------------------------------
TypeOK == /\ disk \in [Unit -> [Lbn -> Sector]]
          /\ call \in Calls \cup {None}
          /\ hout \in Seq(Octet) /\ hin \in Seq(Octet)
          /\ done \in Nat /\ got \in Seq(Sector)
          /\ outcome \in {"none", "ok", "error"}
          /\ tpc \in {"get", "exec", "put"}
          /\ tin \in Seq(Octet) /\ tout \in Seq(Octet)
          /\ tr \in Octet /\ buff \in Sector
          /\ ack \in {0, 1} /\ hrun \in BOOLEAN /\ slipped \in BOOLEAN
          /\ halts \in 0 .. MaxHalts /\ garbles \in 0 .. MaxGarbles

\* The two sides agree on the length of everything they exchange: the target
\* wants bytes as long as the host has bytes to send, has a reply exactly when
\* the host wants one, and neither is left with bytes of the last exchange.
Agreement ==
    /\ Sending => tpc = "get" /\ tout = <<>> /\ tin \o hout = Request(call, done)
    /\ Receiving => tpc \in {"exec", "put"} /\ tin = Request(call, done)
    /\ call = None => tpc = "get" /\ tin = <<>> /\ tout = <<>>
    /\ call # None => /\ tpc = "exec" => hin = <<>>
                      /\ hin # <<>> => tpc = "put" /\ Len(tout) > 0

\* The target's share in the progress of the call: it has executed the request
\* for the current block, and the host has not finished with the reply.
Executed == call # None /\ tpc = "put"

doneBar == IF Executed /\ tr = 0 THEN done + 1 ELSE done
gotBar == IF Executed /\ tr = 0 /\ call.kind = "read" THEN Append(got, buff) ELSE got
failedBar == Executed /\ tr # 0

Device == INSTANCE BlockDevice
              WITH Data <- Fresh, done <- doneBar, got <- gotBar, failed <- failedBar

\* A call reads and writes the blocks it names, in order, with their contents
\* unchanged by headers, compression and the loops over the blocks, and returns
\* what the device said of the first block that failed.
ServesBlocks == Device!Spec

\* LPTRead and LPTWrite return.
CallReturns == (call # None) ~> (call = None)

\* lptprotocol_task returns to the loop of core 1, whatever the host does.
TargetRecovers == []<>Idle

\* Being stopped does no lasting harm, and none that is not noticed, as long as the
\* target has not given up a command: every step is a step of the block device, also
\* while the host is stopped, and again from the first call that finds the target
\* idle and its acknowledge low.  (Idle is not enough: lptcomms_readbyte gives up the
\* second half of a byte with gpio 19 high.)  What happens in between is not bounded:
\* a byte may be lost or misread, and a block stored that no call names.
InStepServesBlocks == [][slipped' \/ Device!Next \/ UNCHANGED Device!vars]_vars

\* A call in step returns, if the host is not stopped for good: one that found the
\* target idle with its acknowledge low, whatever became of the calls before it.  (A
\* call that finds the acknowledge high may wait for ever, in write_byte's loop2.)
InStepReturns == <>[](hrun /\ ~slipped) => []<>(call = None)

\* "operation status as reported by" the drive (LPTSTORE.C:476): a write that
\* returns RES_OK has stored its blocks.
ReportedIsStored ==
    [][call # None /\ call'= None /\ outcome' = "ok" /\ call.kind = "write" =>
           \A j \in 0 .. call.count - 1 :
               disk[call.unit][Plus(call.lbn, j)] = call.data[j + 1]]_vars

\* LPTWrite writes "one 512 byte logical block", LPTRead reads one
\* (LPTSTORE.C:21-22): only a block that the call names is ever changed.
OnlyNamedBlocks ==
    [][\A u \in Unit, l \in Lbn :
           disk'[u][l] # disk[u][l] =>
               /\ call # None /\ call.kind = "write" /\ call.unit = u
               /\ \E j \in 0 .. call.count - 1 : Plus(call.lbn, j) = l]_vars
=============================================================================
