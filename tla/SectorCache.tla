----------------------------- MODULE SectorCache -----------------------------
(***************************************************************************)
(* read_sector and write_sector of the adapter (msc_app.c), which run on   *)
(* core 1, against the USB stack, which runs on core 0 and completes a     *)
(* transfer by calling msc_fat_complete_cb.  The two share five words      *)
(* without a lock.  After every read the next sector is fetched into       *)
(* prefetching_buff while core 1 goes on.                                  *)
(*                                                                         *)
(* One action is one access of core 1 to the shared words (a submission is *)
(* one), or one assignment of the callback.                                *)
(***************************************************************************)
EXTENDS Integers

CONSTANTS Size,      \* sectors 0 .. Size - 1 of a stick
          Value,     \* contents of a sector
          Junk,      \* contents that are no sector's
          Ops,       \* what core 1 calls, a subset of {"read", "write"}
          MayFail,   \* may a transfer fail?
          MaxEjects  \* bound: how often the stick is pulled out

ASSUME CacheAssumption == /\ Size \in Nat \ {0}
                          /\ Junk \notin Value
                          /\ Ops \subseteq {"read", "write"}
                          /\ MayFail \in BOOLEAN
                          /\ MaxEjects \in Nat

Sectors == 0 .. Size - 1

VARIABLES complete, result,     \* set by the callback
          pfLba, pfBuff,        \* prefetching_lba, prefetching_buff
          pfComplete,           \* prefetching_complete
          inserted,             \* usb_disk_inserted
          pc, kind, sector,     \* core 1: next access, and the call it is in
          data,                 \* what a write is to write
          buff,                 \* the caller's buffer, the same for every call
          ret,                  \* what the last call returned
          cmd,                  \* the USB command in progress, or NoCmd
          cb, status,           \* core 0: next assignment of the callback
          media,                \* the stick
          ejects,               \* number of times it was pulled out
          cut,                  \* is a flag clear that no callback is to set?
          aged,                 \* is prefetching_buff older than a write of its sector or
                                \* than an exchange of sticks, or not that sector at all?
          outdated,             \* has the call in progress its data from such a buffer, did
                                \* its read fail, or was the stick exchanged since it began?
          crossed               \* has core 1 cleared a flag that the callback of an earlier
                                \* command was still to set?  (Until a call begins at
                                \* rest, with prefetching_buff in order.)

core1 == <<pc, kind, sector, data, buff, ret>>
flags == <<complete, pfLba, pfComplete>>
usb == <<cmd, cb, status, media>>
plug == <<inserted, ejects>>
ghost == <<cut, aged, outdated, crossed>>  \* for the properties only
vars == <<flags, result, pfBuff, core1, usb, plug, ghost>>

NoCmd == [kind |-> "none", sector |-> 0]

Init == /\ complete = 1 /\ result = 0
        /\ pfLba = -1 /\ pfBuff = Junk /\ pfComplete = 1
        /\ inserted = FALSE
        /\ pc = "idle" /\ kind = "none" /\ sector = 0
        /\ data = Junk /\ buff = Junk /\ ret = -1
        /\ cmd = NoCmd /\ cb = "none" /\ status = 0
        /\ media = [s \in Sectors |-> Junk]
        /\ ejects = 0
        /\ cut = FALSE /\ aged = FALSE /\ outdated = FALSE /\ crossed = FALSE
-----------------------------------------------------------------------------
(* Core 1.                                                                 *)

Goto(from, to) == pc = from /\ pc' = to

Return(value) == /\ pc' = "idle"
                 /\ ret' = value

Transferring == cmd.kind \in {"read", "write", "prefetch"}

\* A callback is still to come, or to set the flags.
CallbackComes == Transferring \/ cb \in {"complete", "pfComplete"}

\* No transfer is under way, and no callback.
Quiet == ~Transferring /\ cb = "none"

BeginsCall == outdated' = FALSE /\ crossed' = (crossed /\ (aged \/ ~Quiet))

\* The command arguments are received into the caller's buffer, too.
CallRead == /\ pc = "idle" /\ "read" \in Ops
            /\ sector' \in Sectors
            /\ kind' = "read" /\ buff' = Junk
            /\ IF inserted THEN pc' = "wait" /\ UNCHANGED ret ELSE Return(1)
            /\ BeginsCall
            /\ UNCHANGED <<flags, result, pfBuff, data, usb, plug, cut, aged>>

CallWrite == /\ pc = "idle" /\ "write" \in Ops
             /\ sector' \in Sectors
             /\ kind' = "write" /\ data' \in Value /\ buff' = data'
             /\ IF inserted THEN pc' = "clear" /\ UNCHANGED ret ELSE Return(1)
             /\ BeginsCall
             /\ UNCHANGED <<flags, result, pfBuff, usb, plug, cut, aged>>

\* Variant of WaitPrefetch: no wait.
WaitPrefetchNever ==
    /\ Goto("wait", "lookup")
    /\ UNCHANGED <<flags, result, pfBuff, kind, sector, data, buff, ret, usb, plug, ghost>>

\* while (!prefetching_complete)
WaitPrefetch == /\ Goto("wait", "lookup")
                /\ pfComplete = 1
                /\ UNCHANGED <<flags, result, pfBuff, kind, sector, data, buff, ret, usb, plug, ghost>>

\* if (prefetching_lba == sector && !result)
Lookup == /\ pc = "lookup"
          /\ pc' = IF pfLba = sector /\ result = 0 THEN "copy" ELSE "clear"
          /\ UNCHANGED <<flags, result, pfBuff, kind, sector, data, buff, ret, usb, plug, ghost>>

\* memcpy
Copy == /\ Goto("copy", "setLba")
        /\ buff' = pfBuff
        /\ outdated' = (outdated \/ aged)
        /\ UNCHANGED <<flags, result, pfBuff, kind, sector, data, ret, usb, plug, cut, aged, crossed>>

\* Variant of Clear: complete stays as it is.
ClearNothing ==
    /\ Goto("clear", "submit")
    /\ UNCHANGED <<flags, result, pfBuff, kind, sector, data, buff, ret, usb, plug, ghost>>

\* complete = 0.  A write_sector does not wait for the read-ahead that may be under way.
Clear == /\ Goto("clear", "submit")
         /\ complete' = 0
         /\ crossed' = (crossed \/ Transferring \/ cb = "complete")
         /\ UNCHANGED <<pfLba, pfComplete, result, pfBuff, kind, sector, data, buff, ret, usb, plug>>
         /\ UNCHANGED <<cut, aged, outdated>>

\* TinyUSB refuses a command while another is in progress, or without a stick.
Accepts == inserted /\ cmd = NoCmd

\* tuh_msc_read10 into the caller's buffer, tuh_msc_write10
Submit == /\ pc = "submit"
          /\ IF Accepts
             THEN /\ cmd' = [kind |-> kind, sector |-> sector]
                  /\ pc' = "waitUsb"
                  /\ UNCHANGED ret
             ELSE Return(1) /\ UNCHANGED cmd
          /\ aged' = (aged \/ (kind = "write" /\ sector = pfLba /\ Accepts))
          /\ UNCHANGED <<flags, result, pfBuff, kind, sector, data, buff, cb, status, media, plug, cut, outdated, crossed>>

\* while (!complete)
WaitUsb == /\ pc = "waitUsb"
           /\ complete = 1
           /\ pc' = IF kind = "read" THEN "setLba" ELSE "return"
           /\ UNCHANGED <<flags, result, pfBuff, kind, sector, data, buff, ret, usb, plug, ghost>>

\* Variant of SetLba: one too far.
SetLbaFar ==
    /\ Goto("setLba", "setFlag")
    /\ pfLba' = sector + 2
    /\ UNCHANGED <<complete, pfComplete, result, pfBuff, kind, sector, data, buff, ret, usb, plug, ghost>>

\* prefetching_lba = sector + 1
SetLba == /\ Goto("setLba", "setFlag")
          /\ pfLba' = sector + 1
          /\ UNCHANGED <<complete, pfComplete, result, pfBuff, kind, sector, data, buff, ret, usb, plug, ghost>>

\* prefetching_complete = 0
SetFlag == /\ Goto("setFlag", "prefetch")
           /\ pfComplete' = 0
           /\ crossed' = (crossed \/ CallbackComes)
           /\ aged' = (aged \/ Transferring)
           /\ UNCHANGED <<complete, pfLba, result, pfBuff, kind, sector, data, buff, ret, usb, plug>>
           /\ UNCHANGED <<cut, outdated>>

\* What the properties need to know of it.
ReadsAhead == /\ cut' = (cut \/ (~Accepts /\ ~CallbackComes))
              /\ aged' = (aged /\ ~Accepts)
              /\ UNCHANGED <<outdated, crossed>>

\* Variant of Prefetch: fetches the sector of the call again.
PrefetchSame ==
    /\ pc = "prefetch"
    /\ IF Accepts
       THEN /\ cmd' = [kind |-> "prefetch", sector |-> sector]
            /\ pc' = "return"
            /\ UNCHANGED ret
       ELSE Return(1) /\ UNCHANGED cmd
    /\ ReadsAhead
    /\ UNCHANGED <<flags, result, pfBuff, kind, sector, data, buff, cb, status, media, plug>>

\* tuh_msc_read10 into prefetching_buff
Prefetch == /\ pc = "prefetch"
            /\ IF Accepts
               THEN /\ cmd' = [kind |-> "prefetch", sector |-> pfLba]
                    /\ pc' = "return"
                    /\ UNCHANGED ret
               ELSE Return(1) /\ UNCHANGED cmd
            /\ ReadsAhead
            /\ UNCHANGED <<flags, result, pfBuff, kind, sector, data, buff, cb, status, media, plug>>

\* return result
ReturnResult == /\ pc = "return"
                /\ Return(result)
                /\ UNCHANGED <<flags, result, pfBuff, kind, sector, data, buff, usb, plug, ghost>>

Core1 == \/ WaitPrefetch \/ Lookup \/ Copy \/ Clear \/ Submit \/ WaitUsb
         \/ SetLba \/ SetFlag \/ Prefetch \/ ReturnResult
-----------------------------------------------------------------------------
(* Core 0: tuh_task.                                                       *)

\* The status of a command is in; the stack takes new commands from here on,
\* and calls the callback.  A command that fails has transferred nothing.
Transfer ==
    /\ Transferring /\ cb = "none"
    /\ cmd' = NoCmd
    /\ cb' = "complete"
    /\ \/ /\ cmd.sector \in Sectors
          /\ status' = 0
          /\ buff' = IF cmd.kind = "read" THEN media[cmd.sector] ELSE buff
          /\ pfBuff' = IF cmd.kind = "prefetch" THEN media[cmd.sector] ELSE pfBuff
          /\ media' = IF cmd.kind = "write" THEN [media EXCEPT ![cmd.sector] = buff]
                      ELSE media
          /\ UNCHANGED <<aged, outdated>>
       \/ /\ MayFail \/ cmd.sector \notin Sectors
          /\ status' = 1
          /\ aged' = (aged \/ cmd.kind = "prefetch")
          /\ outdated' = (outdated \/ cmd.kind = "read")
          /\ UNCHANGED <<buff, pfBuff, media>>
    /\ UNCHANGED <<flags, result, pc, kind, sector, data, ret, plug, cut, crossed>>

\* Variants of CbComplete and CbPrefetching: only a command that passed completes.
CbCompletePassed ==
    /\ cb = "complete" /\ cb' = "pfComplete"
    /\ complete' = IF status = 0 THEN 1 ELSE complete
    /\ UNCHANGED <<pfLba, pfComplete, result, pfBuff, core1, cmd, status, media, plug, ghost>>

CbPrefetchingPassed ==
    /\ cb = "pfComplete" /\ cb' = "result"
    /\ pfComplete' = IF status = 0 THEN 1 ELSE pfComplete
    /\ cut' = FALSE
    /\ UNCHANGED <<complete, pfLba, result, pfBuff, core1, cmd, status, media, plug, aged, outdated, crossed>>

\* msc_fat_complete_cb, assignment by assignment
CbComplete == /\ cb = "complete" /\ cb' = "pfComplete"
              /\ complete' = 1
              /\ UNCHANGED <<pfLba, pfComplete, result, pfBuff, core1, cmd, status, media, plug, ghost>>

CbPrefetching == /\ cb = "pfComplete" /\ cb' = "result"
                 /\ pfComplete' = 1
                 /\ cut' = FALSE
                 /\ UNCHANGED <<complete, pfLba, result, pfBuff, core1, cmd, status, media, plug, aged, outdated, crossed>>

CbResult == /\ cb = "result" /\ cb' = "none"
            /\ result' = status
            /\ UNCHANGED <<flags, pfBuff, core1, cmd, status, media, plug, ghost>>

\* inquiry_complete_cb; what it sets concerns the catalog of disks only
InquiryDone == /\ cmd.kind = "inquiry"
               /\ cmd' = NoCmd
               /\ UNCHANGED <<flags, result, pfBuff, core1, cb, status, media, plug, ghost>>

Core0 == Transfer \/ CbComplete \/ CbPrefetching \/ CbResult \/ InquiryDone

\* tuh_msc_umount_cb: a command in progress is dropped without a callback
Eject == /\ inserted /\ cb = "none" /\ ejects < MaxEjects
         /\ inserted' = FALSE
         /\ ejects' = ejects + 1
         /\ cmd' = NoCmd
         /\ cut' = (cut \/ Transferring)
         /\ UNCHANGED <<flags, result, pfBuff, core1, cb, status, media, aged, outdated, crossed>>

\* tuh_msc_mount_cb, for any stick: it starts an inquiry
Insert == /\ ~inserted /\ cb = "none"
          /\ inserted' = TRUE
          /\ cmd' = [kind |-> "inquiry", sector |-> 0]
          /\ media' \in [Sectors -> Value]
          /\ aged' = TRUE /\ outdated' = TRUE
          /\ UNCHANGED <<flags, result, pfBuff, core1, cb, status, ejects, cut, crossed>>
-----------------------------------------------------------------------------
Next == CallRead \/ CallWrite \/ Core1 \/ Core0 \/ Eject \/ Insert

\* Both cores run; the device completes its commands.  Nobody has to make a call
\* or to plug in a stick.
Fairness == WF_vars(Core1) /\ WF_vars(Core0)

Spec == Init /\ [][Next]_vars /\ Fairness
-----------------------------------------------------------------------------
PC == {"idle", "wait", "lookup", "copy", "clear", "submit", "waitUsb",
       "setLba", "setFlag", "prefetch", "return"}

TypeOK == /\ complete \in {0, 1} /\ result \in {0, 1}
          /\ pfLba \in -1 .. Size /\ pfComplete \in {0, 1}
          /\ pfBuff \in Value \cup {Junk}
          /\ inserted \in BOOLEAN
          /\ pc \in PC /\ kind \in {"none", "read", "write"} /\ sector \in Sectors
          /\ data \in Value \cup {Junk} /\ buff \in Value \cup {Junk}
          /\ ret \in {-1, 0, 1}
          /\ cmd \in [kind : {"none", "read", "write", "prefetch", "inquiry"},
                     sector : 0 .. Size]
          /\ cb \in {"none", "complete", "pfComplete", "result"}
          /\ status \in {0, 1}
          /\ media \in [Sectors -> Value \cup {Junk}]
          /\ ejects \in 0 .. MaxEjects
          /\ cut \in BOOLEAN /\ aged \in BOOLEAN
          /\ outdated \in BOOLEAN /\ crossed \in BOOLEAN

\* No wake-up is lost: whenever core 1 spins on a flag, or will find it clear
\* when it comes to spin on it, a callback that sets the flag is still to come,
\* unless the removal of the stick has cut a transfer off or made the stack refuse
\* a read-ahead, and no callback has come since.  (Flags and callbacks carry no
\* name: that of a write may be the one that ends the wait for a prefetch.)
WakeUpComes ==
    ~cut => /\ complete = 0 /\ pc = "waitUsb" => Transferring \/ cb = "complete"
            /\ pfComplete = 0 /\ pc # "prefetch" => CallbackComes

\* Core 1 looks into prefetching_buff only when the controller is not filling it,
\* and does not go on, let alone return, while the controller fills the caller's
\* buffer: what a flag stands for is true when core 1 has seen the flag, unless it
\* had cleared the flag over a callback.  There are two ways to do that: a write that
\* begins during a read-ahead, and a core 1 that is at prefetching_complete = 0 before
\* the callback, which has set complete, is at prefetching_complete = 1.
BufferHandOver ==
    ~crossed => /\ pc \in {"lookup", "copy"} => cmd.kind # "prefetch"
                /\ cmd.kind = "read" => pc = "waitUsb"

\* A read_sector that reports success has delivered what is on the stick that is
\* plugged in, unless (crossed) a flag was cleared over a callback, or (outdated) the
\* stick was exchanged while it ran, its transfer failed and result is that of its
\* read-ahead, or it has the sector from a prefetching_buff whose read-ahead failed or
\* was followed by a write of the sector, an exchange of sticks, or a prefetching_lba
\* that moved on while it ran.  There are no other exceptions.
ReadReturnsMedia ==
    [][/\ pc # "idle" /\ pc' = "idle" /\ kind = "read" /\ ret' = 0
       /\ ~outdated /\ ~crossed
       => buff = media[sector]]_vars

\* The same for a stick that stays and never fails, without the exceptions for
\* prefetching_buff: what is read is what was written last.
ReadReturnsWritten ==
    [][/\ pc # "idle" /\ pc' = "idle" /\ kind = "read" /\ ret' = 0
       /\ ejects = 0 /\ ~crossed
       => buff = media[sector]]_vars

\* A write_sector that reports success has its data on the stick; and a stick is
\* changed by the write_sector in progress alone, with its data and where it says.
\* The first fails if the stick was exchanged while it ran (outdated), if it returns
\* result before the callback has stored it (cb), and both fail if a flag was cleared
\* over a callback (crossed), as by a write that begins during a read-ahead: it then
\* ends when the read-ahead does.  There are no other exceptions.
WritesMedia ==
    [][/\ /\ pc # "idle" /\ pc' = "idle" /\ kind = "write" /\ ret' = 0
          /\ ~outdated /\ ~crossed /\ cb = "none"
          => media[sector] = data
       /\ \A s \in Sectors : media'[s] # media[s] /\ inserted /\ ~crossed =>
              kind = "write" /\ sector = s /\ media'[s] = data]_vars

\* read_sector and write_sector return, whatever fails and whatever is pulled out,
\* unless no callback follows on a transfer that was cut off.
CallsReturn == (pc # "idle") ~> (pc = "idle" \/ cut)
=============================================================================
