------------------------------- MODULE LptLink -------------------------------
(***************************************************************************)
(* The nibble handshake between the DOS driver (write_byte and read_byte   *)
(* in LPTSTORE.C) and the adapter's core 1 (lptcomms.c).  Each direction   *)
(* has four data lines and one control line: the host drives hdata and     *)
(* strobe (bit 4 of the data port), the target drives tdata and ack        *)
(* (gpio 19, the port's BUSY).  A byte crosses as two nibbles.             *)
(*                                                                         *)
(* One action is one port access: a poll that succeeds, a sample, or a     *)
(* write of the lines.  A host call sends ReqLen bytes, the command first, *)
(* and then reads RepLen bytes; the target mirrors that.  The target gives *)
(* up a wait after PROTOCOL_TIMEOUT (200 ms); the host waits for ever.     *)
(*                                                                         *)
(* Time enters in two places, both named:                                  *)
(*  - a timeout needs a host that is not about to act (HostIsLate): one    *)
(*    port access of a running host takes microseconds, not 200 ms;        *)
(*  - only TargetOutrunsPoll raises the first nibble of a reply while the  *)
(*    host still polls the acknowledge of its last request nibble.         *)
(***************************************************************************)
EXTENDS Integers, Sequences

CONSTANTS Nibble,     \* the values of four data lines
          Command,    \* the bytes the host sends as commands
          ReqLen,     \* bytes of the request that a first byte announces
          RepLen,     \* bytes of its reply; 0 for a byte the target ignores
          MaxHalts    \* bound: how often the host stops in mid-call

Byte == Nibble \X Nibble

ASSUME LinkAssumption == /\ 0 \in Nibble
                         /\ Command \subseteq Byte
                         /\ ReqLen \in [Byte -> Nat \ {0}]
                         /\ RepLen \in [Byte -> Nat]
                         /\ \A c \in Command : RepLen[c] > 0
                         /\ MaxHalts \in Nat

VARIABLES strobe, hdata,  \* lines the host drives
          ack, tdata,     \* lines the target drives
          hrun,           \* is the host executing?
          hpc,            \* its next port access
          hbyte,          \* AH: the byte being sent or assembled
          hcmd, hcnt,     \* command of the call, index of the byte
          hret,           \* last value returned by read_byte
          tpc,            \* the target's next port access
          tbyte,          \* the byte being assembled or sent
          tcmd, tcnt,     \* command being served, index of the byte
          tret,           \* last value returned by lptcomms_readbyte
          halts           \* number of halts so far

wires == <<strobe, hdata, ack, tdata>>
host == <<hrun, hpc, hbyte, hcmd, hcnt, hret>>
target == <<tpc, tbyte, tcmd, tcnt, tret>>
vars == <<wires, host, target, halts>>

HostPC == {"init", "idle",
           "send", "sendUp", "sendMid", "sendDown",
           "recvUp", "recvHi", "recvRaise", "recvDown", "recvLo", "recvLower"}

TargetPC == {"idle",
             "getUp", "getHi", "getRaise", "getDown", "getLo", "getLower",
             "put", "putRaise", "putUp", "putLo", "putLower", "putDown"}

\* LPTInit has written 0 to the port and waits; lptcomms_init has run.
Init == /\ strobe = 0 /\ hdata = 0 /\ ack = 0 /\ tdata = 0
        /\ hrun = TRUE /\ hpc = "init" /\ hbyte = <<0, 0>>
        /\ hcmd \in Command /\ hcnt = 0 /\ hret = <<0, 0>>
        /\ tpc = "idle" /\ tbyte = <<0, 0>>
        /\ tcmd = <<0, 0>> /\ tcnt = 0 /\ tret = <<0, 0>>
        /\ halts = 0
-----------------------------------------------------------------------------
(* The host: LPTRead and LPTWrite over write_byte and read_byte.           *)

HostGoto(from, to) == hrun /\ hpc = from /\ hpc' = to

\* The 36 ticks of LPTInit outlast every timeout the target can be in.
HostInitDone == /\ HostGoto("init", "idle")
                /\ tpc = "idle"
                /\ UNCHANGED <<wires, hrun, hbyte, hcmd, hcnt, hret, target, halts>>

HostStart == /\ HostGoto("idle", "send")
             /\ hcmd' \in Command
             /\ hcnt' = 0
             /\ UNCHANGED <<wires, hrun, hbyte, hret, target, halts>>

\* OUT DX, AL with the upper nibble and bit 4 high
HostSend == /\ HostGoto("send", "sendUp")
            /\ \E b \in Byte : /\ hcnt = 0 => b = hcmd
                               /\ hbyte' = b
                               /\ hdata' = b[1]
            /\ strobe' = 1
            /\ UNCHANGED <<ack, tdata, hrun, hcmd, hcnt, hret, target, halts>>

\* loop1 leaves: the target has gone high
HostSendUp == /\ HostGoto("sendUp", "sendMid")
              /\ ack = 1
              /\ UNCHANGED <<wires, hrun, hbyte, hcmd, hcnt, hret, target, halts>>

\* OUT DX, AL with the lower nibble and bit 4 low
HostSendMid == /\ HostGoto("sendMid", "sendDown")
               /\ hdata' = hbyte[2]
               /\ strobe' = 0
               /\ UNCHANGED <<ack, tdata, hrun, hbyte, hcmd, hcnt, hret, target, halts>>

\* loop2 leaves: the target has gone low; next byte of the request, or reply
HostSendDown == /\ hrun /\ hpc = "sendDown"
                /\ ack = 0
                /\ \/ /\ hcnt + 1 < ReqLen[hcmd]
                      /\ hpc' = "send"
                      /\ hcnt' = hcnt + 1
                   \/ /\ hcnt + 1 >= ReqLen[hcmd]
                      /\ hpc' = "recvUp"
                      /\ hcnt' = 0
                /\ UNCHANGED <<wires, hrun, hbyte, hcmd, hret, target, halts>>

\* read_byte, loop1 leaves
HostRecvUp == /\ HostGoto("recvUp", "recvHi")
              /\ ack = 1
              /\ UNCHANGED <<wires, hrun, hbyte, hcmd, hcnt, hret, target, halts>>

\* IN AL,DX: the upper nibble
HostRecvHi == /\ HostGoto("recvHi", "recvRaise")
              /\ hbyte' = <<tdata, hbyte[2]>>
              /\ UNCHANGED <<wires, hrun, hcmd, hcnt, hret, target, halts>>

\* Variant of HostRecvRaise: bit 4 of OUT 10h taken for one of the data lines.
HostRecvRaiseUnmasked ==
    /\ HostGoto("recvRaise", "recvDown")
    /\ strobe' = 1 /\ hdata' = 16
    /\ UNCHANGED <<ack, tdata, hrun, hbyte, hcmd, hcnt, hret, target, halts>>

\* OUT 10h: signal high
HostRecvRaise == /\ HostGoto("recvRaise", "recvDown")
                 /\ strobe' = 1 /\ hdata' = 0
                 /\ UNCHANGED <<ack, tdata, hrun, hbyte, hcmd, hcnt, hret, target, halts>>

\* loop2 leaves
HostRecvDown == /\ HostGoto("recvDown", "recvLo")
                /\ ack = 0
                /\ UNCHANGED <<wires, hrun, hbyte, hcmd, hcnt, hret, target, halts>>

\* IN AL,DX: the lower nibble
HostRecvLo == /\ HostGoto("recvLo", "recvLower")
              /\ hbyte' = <<hbyte[1], tdata>>
              /\ UNCHANGED <<wires, hrun, hcmd, hcnt, hret, target, halts>>

\* OUT 0: signal low, return AH; next byte of the reply, or the call returns
HostRecvLower == /\ hrun /\ hpc = "recvLower"
                 /\ strobe' = 0 /\ hdata' = 0
                 /\ hret' = hbyte
                 /\ \/ /\ hcnt + 1 < RepLen[hcmd]
                       /\ hpc' = "recvUp"
                       /\ hcnt' = hcnt + 1
                    \/ /\ hcnt + 1 >= RepLen[hcmd]
                       /\ hpc' = "idle"
                       /\ hcnt' = 0
                 /\ UNCHANGED <<ack, tdata, hrun, hbyte, hcmd, target, halts>>

\* every host step except the decision to make a call
HostStep == \/ HostInitDone
            \/ HostSend \/ HostSendUp \/ HostSendMid \/ HostSendDown
            \/ HostRecvUp \/ HostRecvHi \/ HostRecvRaise
            \/ HostRecvDown \/ HostRecvLo \/ HostRecvLower
-----------------------------------------------------------------------------
(* The target: lptprotocol_task over lptcomms_readbyte and _writebyte.     *)

TargetGoto(from, to) == tpc = from /\ tpc' = to

\* lptcomms_hasbyte
TargetHasByte == /\ TargetGoto("idle", "getUp")
                 /\ strobe = 1
                 /\ tcnt' = 0
                 /\ UNCHANGED <<wires, host, tbyte, tcmd, tret, halts>>

TargetGetUp == /\ TargetGoto("getUp", "getHi")
               /\ strobe = 1
               /\ UNCHANGED <<wires, host, tbyte, tcmd, tcnt, tret, halts>>

TargetGetHi == /\ TargetGoto("getHi", "getRaise")
               /\ tbyte' = <<hdata, tbyte[2]>>
               /\ UNCHANGED <<wires, host, tcmd, tcnt, tret, halts>>

\* Variant of TargetGetRaise: no acknowledge.
TargetGetRaiseSilent ==
    /\ TargetGoto("getRaise", "getDown")
    /\ UNCHANGED <<wires, host, tbyte, tcmd, tcnt, tret, halts>>

TargetGetRaise == /\ TargetGoto("getRaise", "getDown")
                  /\ ack' = 1
                  /\ UNCHANGED <<strobe, hdata, tdata, host, tbyte, tcmd, tcnt, tret, halts>>

\* Variant of TargetGetDown: the lower nibble is not waited for.
TargetGetDownAtOnce ==
    /\ TargetGoto("getDown", "getLo")
    /\ UNCHANGED <<wires, host, tbyte, tcmd, tcnt, tret, halts>>

TargetGetDown == /\ TargetGoto("getDown", "getLo")
                 /\ strobe = 0
                 /\ UNCHANGED <<wires, host, tbyte, tcmd, tcnt, tret, halts>>

TargetGetLo == /\ TargetGoto("getLo", "getLower")
               /\ tbyte' = <<tbyte[1], hdata>>
               /\ UNCHANGED <<wires, host, tcmd, tcnt, tret, halts>>

\* gpio_put(19, 0) and return the byte; the first one is the command
TargetGetLower ==
    /\ tpc = "getLower"
    /\ ack' = 0
    /\ tret' = tbyte
    /\ tcmd' = IF tcnt = 0 THEN tbyte ELSE tcmd
    /\ \/ /\ tcnt + 1 < ReqLen[tcmd']
          /\ tpc' = "getUp"
          /\ tcnt' = tcnt + 1
       \/ /\ tcnt + 1 >= ReqLen[tcmd']
          /\ tpc' = IF RepLen[tcmd'] > 0 THEN "put" ELSE "idle"
          /\ tcnt' = 0
    /\ UNCHANGED <<strobe, hdata, tdata, host, tbyte, halts>>

\* the upper nibble on the four data lines
TargetPut == /\ TargetGoto("put", "putRaise")
             /\ \E b \in Byte : tbyte' = b /\ tdata' = b[1]
             /\ UNCHANGED <<strobe, hdata, ack, host, tcmd, tcnt, tret, halts>>

\* Is a running host still polling the acknowledge of its last request nibble?
HostStillPolls == hrun /\ hpc = "sendDown" /\ tcnt = 0

RaiseReply == /\ TargetGoto("putRaise", "putUp")
              /\ ack' = 1
              /\ UNCHANGED <<strobe, hdata, tdata, host, tbyte, tcmd, tcnt, tret, halts>>

TargetPutRaise == RaiseReply /\ ~HostStillPolls

\* The low pulse of ack lasts as long as the target takes to find its reply.
\* With no disk access to wait for (no stick, QUERY_DISK_CAPS) that is less
\* than one turn of the host's polling loop.
TargetOutrunsPoll == RaiseReply /\ HostStillPolls

\* Variant of TargetPutUp: the host's signal is not waited for.
TargetPutUpAtOnce ==
    /\ TargetGoto("putUp", "putLo")
    /\ UNCHANGED <<wires, host, tbyte, tcmd, tcnt, tret, halts>>

TargetPutUp == /\ TargetGoto("putUp", "putLo")
               /\ strobe = 1
               /\ UNCHANGED <<wires, host, tbyte, tcmd, tcnt, tret, halts>>

\* the lower nibble on the four data lines
TargetPutLo == /\ TargetGoto("putLo", "putLower")
               /\ tdata' = tbyte[2]
               /\ UNCHANGED <<strobe, hdata, ack, host, tbyte, tcmd, tcnt, tret, halts>>

TargetPutLower == /\ TargetGoto("putLower", "putDown")
                  /\ ack' = 0
                  /\ UNCHANGED <<strobe, hdata, tdata, host, tbyte, tcmd, tcnt, tret, halts>>

TargetPutDown == /\ tpc = "putDown"
                 /\ strobe = 0
                 /\ \/ /\ tcnt + 1 < RepLen[tcmd]
                       /\ tpc' = "put"
                       /\ tcnt' = tcnt + 1
                    \/ /\ tcnt + 1 >= RepLen[tcmd]
                       /\ tpc' = "idle"
                       /\ tcnt' = tcnt
                 /\ UNCHANGED <<wires, host, tbyte, tcmd, tret, halts>>

\* Variant of HostIsLate: a timeout shorter than the host's way to its next access.
HostIsLateAlways == TRUE

\* The host makes no port access, now or in the next few microseconds.
HostIsLate == \/ ~hrun
              \/ hpc \in {"init", "idle"}
              \/ hpc \in {"sendUp", "recvUp"} /\ ack = 0
              \/ hpc \in {"sendDown", "recvDown"} /\ ack = 1

\* waittimeout returns -1: the byte fails and so does the whole command
TargetTimeout(wait, level, ackThen) ==
    /\ TargetGoto(wait, "idle")
    /\ strobe = level
    /\ HostIsLate
    /\ ack' = ackThen
    /\ UNCHANGED <<strobe, hdata, tdata, host, tbyte, tcmd, tcnt, tret, halts>>

TargetGetUpTimeout == TargetTimeout("getUp", 0, 0)
TargetGetDownTimeout == TargetTimeout("getDown", 1, ack)  \* ack is left as it is
TargetPutUpTimeout == TargetTimeout("putUp", 0, 0)
\* Variant of TargetPutDownTimeout: waits out the wrong level.
TargetPutDownTimeoutInverted == TargetTimeout("putDown", 0, 0)
TargetPutDownTimeout == TargetTimeout("putDown", 1, 0)

TargetNext == \/ TargetHasByte
              \/ TargetGetUp \/ TargetGetHi \/ TargetGetRaise
              \/ TargetGetDown \/ TargetGetLo \/ TargetGetLower
              \/ TargetPut \/ TargetPutRaise \/ TargetPutUp
              \/ TargetPutLo \/ TargetPutLower \/ TargetPutDown
              \/ TargetGetUpTimeout \/ TargetGetDownTimeout
              \/ TargetPutUpTimeout \/ TargetPutDownTimeout
-----------------------------------------------------------------------------
(* The host stops in mid-call (the Pause key holds the machine inside the  *)
(* keyboard interrupt; a crash) and later goes on, or is booted again.     *)

HostHalt == /\ hrun /\ halts < MaxHalts
            /\ hpc \notin {"init", "idle"}
            /\ hrun' = FALSE
            /\ halts' = halts + 1
            /\ UNCHANGED <<wires, hpc, hbyte, hcmd, hcnt, hret, target>>

HostResume == /\ ~hrun
              /\ hrun' = TRUE
              /\ UNCHANGED <<wires, hpc, hbyte, hcmd, hcnt, hret, target, halts>>

\* Variant of HostReboot: without OUT 0.
HostRebootAsIs == /\ ~hrun
                  /\ hrun' = TRUE
                  /\ hpc' = "init"
                  /\ hcnt' = 0
                  /\ UNCHANGED <<wires, hbyte, hcmd, hret, target, halts>>

\* LPTInit of the next boot: OUT 0, then the wait of 36 ticks
HostReboot == /\ ~hrun
              /\ hrun' = TRUE
              /\ hpc' = "init"
              /\ strobe' = 0 /\ hdata' = 0
              /\ hcnt' = 0
              /\ UNCHANGED <<ack, tdata, hbyte, hcmd, hret, target, halts>>
-----------------------------------------------------------------------------
\* The running system: the host is never stopped in the middle of a call.
PromptNext == HostStart \/ HostStep \/ TargetNext

PromptSpec == Init /\ [][PromptNext]_vars

\* A running processor executes its next instruction; nobody has to make a call.
Fairness == WF_vars(HostStep) /\ WF_vars(TargetNext)

LiveSpec == PromptSpec /\ Fairness

\* The same, with replies that are ready at once.
FastSpec == Init /\ [][PromptNext \/ TargetOutrunsPoll]_vars /\ Fairness

\* The same as LiveSpec, with a host that stops in mid-call.
HaltNext == PromptNext \/ HostHalt \/ HostResume \/ HostReboot

HaltSpec == Init /\ [][HaltNext]_vars /\ Fairness

Next == HaltNext \/ TargetOutrunsPoll

Spec == Init /\ [][Next]_vars /\ Fairness
-----------------------------------------------------------------------------
TypeOK == /\ strobe \in {0, 1} /\ ack \in {0, 1}
          /\ hdata \in Nibble /\ tdata \in Nibble
          /\ hrun \in BOOLEAN /\ hpc \in HostPC
          /\ hbyte \in Byte /\ hret \in Byte
          /\ hcmd \in Command /\ hcnt \in Nat
          /\ tpc \in TargetPC
          /\ tbyte \in Byte /\ tret \in Byte
          /\ tcmd \in Byte /\ tcnt \in Nat
          /\ halts \in 0 .. MaxHalts
-----------------------------------------------------------------------------
(* How the two sides stand to each other in the running system, by the     *)
(* host's next port access.  Together with TypeOK this is inductive.       *)

\* The target can start on a new request, or is about to be able to.
Quiet == /\ ack = 0
         /\ \/ tpc = "idle"
            \/ tpc = "putDown" /\ tcnt + 1 >= RepLen[tcmd]

\* The target is about to take byte hcnt of this request.
Expecting == /\ hcnt > 0 => tcmd = hcmd
             /\ \/ hcnt = 0 /\ Quiet
                \/ tpc = "getUp" /\ tcnt = hcnt /\ ack = 0 /\ (hcnt = 0 => strobe = 1)

\* The target is in the middle of byte hcnt of this request.
Taking(pcs) == /\ tpc \in pcs /\ tcnt = hcnt
               /\ hcnt > 0 => tcmd = hcmd
               /\ tpc # "getHi" => tbyte[1] = hbyte[1]

\* The target is in the middle of byte hcnt of the reply.
Giving(pcs) == tpc \in pcs /\ tcnt = hcnt /\ tcmd = hcmd

SyncIdle == hpc \in {"init", "idle"} => strobe = 0 /\ Quiet

SyncSend == hpc = "send" => /\ strobe = 0 /\ ack = 0
                            /\ Expecting
                            /\ hcnt < ReqLen[hcmd]

SyncSendUp == hpc = "sendUp" =>
    /\ strobe = 1 /\ hdata = hbyte[1]
    /\ hcnt = 0 => hbyte = hcmd
    /\ hcnt < ReqLen[hcmd]
    /\ \/ Expecting
       \/ Taking({"getHi", "getRaise"}) /\ ack = 0
       \/ Taking({"getDown"}) /\ ack = 1

SyncSendMid == hpc = "sendMid" =>
    /\ strobe = 1
    /\ hcnt = 0 => hbyte = hcmd
    /\ hcnt < ReqLen[hcmd]
    /\ Taking({"getDown"}) /\ ack = 1

SyncSendDown == hpc = "sendDown" =>
    /\ strobe = 0 /\ hdata = hbyte[2]
    /\ hcnt = 0 => hbyte = hcmd
    /\ hcnt < ReqLen[hcmd]
    /\ \/ ack = 1 /\ Taking({"getDown", "getLo"})
       \/ ack = 1 /\ Taking({"getLower"}) /\ tbyte = hbyte
       \/ /\ ack = 0 /\ tcmd = hcmd
          /\ \/ hcnt + 1 < ReqLen[hcmd] /\ tpc = "getUp" /\ tcnt = hcnt + 1
             \/ /\ hcnt + 1 >= ReqLen[hcmd]
                /\ tpc \in {"put", "putRaise"} /\ tcnt = 0
                /\ tpc = "putRaise" => tdata = tbyte[1]

SyncRecvUp == hpc = "recvUp" =>
    /\ strobe = 0 /\ tcmd = hcmd /\ hcnt < RepLen[hcmd]
    /\ \/ Giving({"put"}) /\ ack = 0
       \/ Giving({"putRaise"}) /\ ack = 0 /\ tdata = tbyte[1]
       \/ Giving({"putUp"}) /\ ack = 1 /\ tdata = tbyte[1]
       \/ tpc = "putDown" /\ hcnt > 0 /\ tcnt + 1 = hcnt /\ ack = 0

SyncRecvHi == hpc \in {"recvHi", "recvRaise"} =>
    /\ strobe = 0 /\ hcnt < RepLen[hcmd]
    /\ Giving({"putUp"}) /\ ack = 1
    /\ tdata = tbyte[1]
    /\ hpc = "recvRaise" => hbyte[1] = tbyte[1]

SyncRecvDown == hpc = "recvDown" =>
    /\ strobe = 1 /\ hcnt < RepLen[hcmd]
    /\ hbyte[1] = tbyte[1]
    /\ \/ Giving({"putUp", "putLo", "putLower"}) /\ ack = 1
       \/ Giving({"putDown"}) /\ ack = 0
    /\ tpc \in {"putLower", "putDown"} => tdata = tbyte[2]

SyncRecvLo == hpc \in {"recvLo", "recvLower"} =>
    /\ strobe = 1 /\ hcnt < RepLen[hcmd]
    /\ hbyte[1] = tbyte[1] /\ tdata = tbyte[2]
    /\ Giving({"putDown"}) /\ ack = 0
    /\ hpc = "recvLower" => hbyte = tbyte

\* At every moment of the running system the two sides are in the middle of
\* the same byte, of the same command, and the nibbles already taken are the
\* ones that were sent: neither side can run ahead of the other, whatever the
\* order of their port accesses, and a timeout hurts no command in progress.
InSync == /\ hrun
          /\ SyncIdle /\ SyncSend /\ SyncSendUp /\ SyncSendMid /\ SyncSendDown
          /\ SyncRecvUp /\ SyncRecvHi /\ SyncRecvDown /\ SyncRecvLo
-----------------------------------------------------------------------------
\* The byte in flight: on its way to the target from the host's first OUT
\* until the target drops ack, and to the host from the target's choice of
\* the byte until the host drops strobe.
lineBar ==
    IF hpc \in {"sendUp", "sendMid"} \/ (hpc = "sendDown" /\ ack = 1)
    THEN <<"target", hbyte>>
    ELSE IF \/ tpc \in {"putRaise", "putUp", "putLo", "putLower"}
            \/ tpc = "putDown" /\ hpc \in {"recvDown", "recvLo", "recvLower"}
    THEN <<"host", tbyte>>
    ELSE <<>>

Pipe == INSTANCE BytePipe WITH line <- lineBar

\* Every byte passed to write_byte (lptcomms_writebyte) is returned once, with
\* its value, by the lptcomms_readbyte (read_byte) on the other side.
CarriesBytes == Pipe!Spec

\* A command whose bytes are being exchanged is never given up by the target:
\* it returns to its idle loop only when the last byte of the reply is out, all
\* commands of the host being ones that have a reply.  (The 200 ms timeout of waittimeout fires in the
\* running system only while the last reply byte is being signed off.)
NoCommandDropped ==
    [][tpc' = "idle" /\ tpc # "idle" =>
           tpc = "putDown" /\ tcnt + 1 >= RepLen[tcmd]]_vars

\* LPTRead and LPTWrite return: a call that is started is completed.
RoundCompletes == (hpc = "send") ~> (hpc = "idle")

\* lptprotocol_task returns, whatever becomes of the host in mid-call: core 1
\* comes back to its loop (msc_task runs, a new command can be taken).
TargetReturns == []<>(tpc = "idle")

\* Whatever a stopped host has left behind, a call that begins with the target in
\* its loop and gpio 19 low is in lockstep from its first byte; and lockstep lasts
\* as long as the host is neither stopped nor outrun by a reply.  (Not so for a
\* target in its loop with gpio 19 high, where getDown's timeout leaves it.)
InStepAgain ==
    [][/\ InSync \/ (hrun /\ hpc = "idle" /\ hpc' = "send" /\ tpc = "idle" /\ ack = 0)
       /\ hrun'
       /\ ~(HostStillPolls /\ tpc = "putRaise" /\ tpc' = "putUp")
       => InSync']_vars

\* LPTInitialize "establish[es] two way communications with the drive": when
\* LPTInit's wait is over, the target is idle and its acknowledge line low.
InitEstablishes == hpc = "init" /\ hrun /\ tpc = "idle" /\ strobe = 0 => ack = 0

\* A host that is stopped for a while and then goes on has its call completed
\* or failed; in either case the call returns.
ResumedCallReturns == <>[]hrun => RoundCompletes
=============================================================================
