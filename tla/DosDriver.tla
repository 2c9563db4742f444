------------------------------ MODULE DosDriver ------------------------------
(***************************************************************************)
(* The DOS block device driver (DRIVER.C) over LPTInitialize (find_volume  *)
(* in LPTSTORE.C): loading and unloading, the requests of DOS, and how a   *)
(* unit gets its BIOS parameter block.  A unit is one of the disks of the  *)
(* adapter; its first block is a boot sector or a partition table.         *)
(*                                                                         *)
(* DOS makes one request at a time.  An action is the part of a request    *)
(* that reaches up to a transfer of a block (LptProtocol has its insides), *)
(* so that the stick may be pulled out, plugged in or exchanged between    *)
(* any two transfers.  Debugging messages are left out.                    *)
(***************************************************************************)
EXTENDS Integers

CONSTANTS Unit,       \* 0 .. NR_DRIVES - 1
          Span,       \* block numbers of LPTRead and LPTWrite: 2^16
          Block,      \* contents of a block
          Image,      \* the disks there are: functions from 0 .. length - 1 to Block
          BlankBpb,   \* the BPB of every unit in HEADER.ASM
          Options,    \* what CONFIG.SYS may say, a subset of Option
          Written,    \* what DOS writes, a subset of Block
          MaxCount,   \* bound: the blocks of a request
          TextBase,   \* (_CS - _DS) << 4: where the code begins in the driver's memory
          ShutdownAt, \* the offset of Shutdown in the code
          MaxDrops,   \* bound: how often units stop to answer
          MaxChanges  \* bound: how often the contents of disks change

\* A block: sig, its 0xAA55; fat, the string "FAT"; parts, the first blocks of the
\* four partitions, 0 for none; size, whether sectors have 512 bytes; and what a BPB
\* is made of: au, reserved, fats, total16, total32, and chs, the product of
\* track_size and head_count.
Bpb == [au : Nat, reserved : Nat, fats : Nat, total : Nat, sectors : Nat, chs : Nat]

\* An option of CONFIG.SYS: D, B=value, or one that parse_options does not know
Option == [name : {"D", "B", "bad"}, value : Nat]

ASSUME DriverAssumption ==
    /\ 0 \in Unit /\ Unit \subseteq Nat
    /\ Span \in Nat \ {0}
    /\ \A b \in Block : /\ {b.sig, b.fat, b.size} \subseteq BOOLEAN
                        /\ \A p \in 0 .. 3 : b.parts[p] \in Nat
                        /\ {b.au, b.reserved, b.fats, b.total16, b.total32, b.chs}
                               \subseteq Nat
    /\ \A m \in Image : 0 \in DOMAIN m /\ \A l \in DOMAIN m : m[l] \in Block
    /\ BlankBpb \in Bpb
    /\ Options \subseteq Option
    /\ Written \subseteq Block
    /\ {MaxCount, MaxDrops, MaxChanges} \subseteq Nat

\* The data come first, then the code, in one segment's reach of the data.
ASSUME LayoutAssumption == /\ TextBase \in Nat \ {0} /\ ShutdownAt \in Nat
                           /\ TextBase + ShutdownAt < 2^16

\* Where INT 19h leads if nobody has changed its vector.  All other addresses are
\* counted from the beginning of the driver's memory.
Bios == -1

Shutdown == TextBase + ShutdownAt

VARIABLES state,            \* of the driver: "absent", "loaded" or "unloaded"
          vector,           \* of INT 19h: where it leads
          portbase,         \* index of the port in portbases
          initNeeded,       \* InitNeeded
          mounted,          \* disk_initialized
          bpb,
          partitionOffset,  \* partition_offset
          req,              \* the request being served
          pc,               \* what the driver does next
          moved,            \* LPTRead, LPTWrite: blocks transferred (j)
          br, part,         \* find_volume: br and i
          status,           \* in the last request's header, once it is done
          answer,           \* the BPB it asked for, or {}
          image,            \* the disks
          online,           \* the units that answer
          drops, changes    \* how often that changed

driver == <<state, vector, portbase, initNeeded, mounted, bpb, partitionOffset>>
search == <<br, part>>
world == <<image, online, drops, changes>>
vars == <<driver, req, pc, moved, search, status, answer, world>>

NoReq == [kind |-> "none", unit |-> 0, start |-> 0, count |-> 0]

NoPartitions == [p \in 0 .. 3 |-> 0]

\* DOS has read the driver's file and is about to call it for the first time.
Init == /\ state = "absent" /\ vector = Bios /\ portbase = 1
        /\ initNeeded = {} /\ mounted = {}
        /\ bpb = [u \in Unit |-> BlankBpb] /\ partitionOffset = 0
        /\ req = NoReq /\ pc = "dos" /\ moved = 0
        /\ br = NoPartitions /\ part = 0
        /\ status = "none" /\ answer = {}
        /\ image \in [Unit -> Image]
        /\ online \in SUBSET Unit
        /\ drops = 0 /\ changes = 0

\* The request is done; an answer is given by BuildBPB and GetParameters only.
Answer(s, a) == /\ pc' = "dos"
                /\ status' = s /\ answer' = a
                /\ req' = NoReq
                /\ moved' = 0

Done(s) == Answer(s, {})
-----------------------------------------------------------------------------
(* Requests that end at once.                                              *)

Idle == pc = "dos" /\ state = "loaded"

\* MEDIA_CHECK, GET_LOGICAL and SET_LOGICAL: done, whatever the unit.  (The media
\* status is always "don't know".)
Acknowledge == /\ Idle
               /\ Done("done")
               /\ UNCHANGED <<driver, search, world>>

BuildBPB(u) == /\ Idle
               /\ Answer("done", {bpb[u]})
               /\ UNCHANGED <<driver, search, world>>

Minor == {"get_parameters", "set_parameters", "get_access", "set_access",
          "get_media_id", "set_media_id", "format_track"}

\* The status for a minor code, the same in GenericIOCTL and in IOCTLQuery
IoctlStatus(minor) == IF minor = "get_media_id" THEN "unknown_command" ELSE "done"

\* GetParameters, whatever the unit: the BPB of unit 0, and a division by its
\* track_size * head_count.
Parameters == bpb[0]

\* GenericIOCTL.  A product of 0 is a divide error.
GenericIOCTL(minor) ==
    /\ Idle
    /\ IF minor = "get_parameters" /\ Parameters.chs = 0
       THEN pc' = "dead" /\ UNCHANGED <<status, answer, req, moved>>
       ELSE Answer(IoctlStatus(minor), IF minor = "get_parameters" THEN {Parameters} ELSE {})
    /\ UNCHANGED <<driver, search, world>>

IOCTLQuery(minor) == /\ Idle
                     /\ Done(IoctlStatus(minor))
                     /\ UNCHANGED <<driver, search, world>>

UnknownRequest == /\ Idle
                  /\ Done("unknown_command")
                  /\ UNCHANGED <<driver, search, world>>
-----------------------------------------------------------------------------
(* Loading, reading and writing.                                           *)

\* Variant of PortOf: the range of the index tested, not that of the option.
PortOfIndex(o) == IF o.name = "B" /\ o.value \in 0 .. 5 THEN o.value ELSE portbase

\* A number out of range is ignored.
PortOf(o) == IF o.name = "B" /\ o.value \in 1 .. 5 THEN o.value - 1 ELSE portbase

ForceInit == initNeeded' = Unit

\* Initialize, with one option: up to the first block that find_volume reads.  It
\* mounts unit 0, with partition_number 0 (any).
Initialize(o) ==
    /\ pc = "dos" /\ state = "absent"
    /\ ForceInit
    /\ IF o.name = "bad"
       THEN /\ Done("error")
            /\ state' = "unloaded"
            /\ UNCHANGED portbase
       ELSE /\ portbase' = PortOf(o)
            /\ req' = [NoReq EXCEPT !.kind = "init"]
            /\ pc' = "sector0"
            /\ UNCHANGED <<state, status, answer, moved>>
    /\ UNCHANGED <<vector, mounted, bpb, partitionOffset, search, world>>

\* Variant of NextStop: no drive_init.
NextStopTransfer(u) == "transfer"

\* drive_init: LPTInitialize only if it is needed, and find_volume returns at once
\* for a unit that it has mounted before.
NextStop(u) == IF u \notin initNeeded \/ u \in mounted THEN "transfer" ELSE "sector0"

\* ReadBlock and WriteBlock, up to the first block
StartIO(kind, u, start, count) ==
    /\ Idle
    /\ req' = [kind |-> kind, unit |-> u, start |-> start, count |-> count]
    /\ pc' = NextStop(u)
    /\ initNeeded' = IF u \in mounted THEN initNeeded \ {u} ELSE initNeeded
    /\ status' = "none" /\ answer' = {}
    /\ UNCHANGED <<state, vector, portbase, mounted, bpb, partitionOffset,
                   moved, search, world>>

\* LPTInitialize returns FALSE: the driver is unloaded, or the request fails.
InitFails == /\ Done(IF req.kind = "init" THEN "error" ELSE "general_failure")
             /\ state' = IF req.kind = "init" THEN "unloaded" ELSE state
             /\ UNCHANGED <<vector, initNeeded>>

\* The address that Initialize gives INT 19h: reboot[0] is the offset of Shutdown from
\* the beginning of the data, reboot[1] the segment of the code.
RebootEntry == LET offset == ShutdownAt + TextBase
               IN  TextBase + offset

\* LPTInitialize returns TRUE: Initialize takes INT 19h, or the transfer begins.
InitSucceeds ==
    IF req.kind = "init"
    THEN /\ Done("done")
         /\ state' = "loaded" /\ vector' = RebootEntry
         /\ UNCHANGED initNeeded
    ELSE /\ pc' = "transfer"
         /\ initNeeded' = initNeeded \ {req.unit}
         /\ UNCHANGED <<state, vector, req, status, answer, moved>>
-----------------------------------------------------------------------------
(* find_volume.  local_buffer holds the block read last; no step uses what *)
(* another has left in it but the table, which is copied to br.            *)

\* The block that LPTRead and LPTWrite reach, their lbn being a WORD
At(lbn) == lbn % Span

\* Does the unit answer with the block?
Reaches(u, lbn) == u \in online /\ At(lbn) \in DOMAIN image[u]

\* check_fs, of a block that was read
CheckFs(b) == IF ~b.sig THEN 2 ELSE IF b.fat THEN 0 ELSE 1

\* The BPB made of a boot sector
BpbOf(b) == [au |-> b.au, reserved |-> b.reserved,
             fats |-> IF b.fats = 0 THEN 2 ELSE b.fats,
             total |-> b.total16,
             sectors |-> IF b.total16 = 0 THEN b.total32 ELSE b.total16,
             chs |-> b.chs]

\* A FAT volume has been found in block l, with the boot sector b.  Without reserved
\* sectors the BPB is left half written.
Analyze(b, l) ==
    LET u == req.unit IN
    \/ /\ b.size /\ b.reserved # 0
       /\ bpb' = [bpb EXCEPT ![u] = BpbOf(b)]
       /\ partitionOffset' = l
       /\ mounted' = mounted \cup {u}
       /\ InitSucceeds
    \/ /\ b.size /\ b.reserved = 0
       /\ bpb' = [bpb EXCEPT ![u].au = b.au, ![u].reserved = 0]
       /\ UNCHANGED <<partitionOffset, mounted>>
       /\ InitFails
    \/ /\ ~b.size
       /\ UNCHANGED <<bpb, partitionOffset, mounted>>
       /\ InitFails

NoVolume == InitFails /\ UNCHANGED <<mounted, bpb, partitionOffset>>

\* check_fs(unit, 0)
CheckSector0 ==
    /\ pc = "sector0"
    /\ \/ /\ ~Reaches(req.unit, 0)
          /\ NoVolume
          /\ UNCHANGED search
       \/ /\ Reaches(req.unit, 0)
          /\ LET b == image[req.unit][0] IN
             \/ CheckFs(b) = 0 /\ Analyze(b, 0) /\ UNCHANGED search
             \/ CheckFs(b) = 2 /\ NoVolume /\ UNCHANGED search
             \/ /\ CheckFs(b) = 1
                /\ br' = b.parts /\ part' = 0
                /\ pc' = "partition"
                /\ UNCHANGED <<state, vector, initNeeded, mounted, bpb,
                               partitionOffset, req, moved, status, answer>>
    /\ UNCHANGED <<portbase, world>>

\* Variant of NextPartition: i is not advanced.
NextPartitionAgain ==
    IF part < 3
    THEN UNCHANGED <<part, state, vector, initNeeded, mounted, bpb, partitionOffset,
                     req, pc, moved, status, answer>>
    ELSE NoVolume /\ UNCHANGED part

\* Behind a partition without a volume, or one that cannot be read
NextPartition ==
    IF part < 3
    THEN /\ part' = part + 1
         /\ UNCHANGED <<state, vector, initNeeded, mounted, bpb, partitionOffset,
                        req, pc, moved, status, answer>>
    ELSE NoVolume /\ UNCHANGED part

\* Is there a volume at block l of the unit?
VolumeAt(l) == l # 0 /\ Reaches(req.unit, l) /\ CheckFs(image[req.unit][At(l)]) = 0

\* Variant of CheckPartition: a volume ends the loop only in the last partition.
CheckPartitionLast ==
    /\ pc = "partition"
    /\ IF VolumeAt(br[part]) /\ (part = 3 \/ br[part + 1] = 0)
       THEN Analyze(image[req.unit][At(br[part])], br[part]) /\ UNCHANGED part
       ELSE NextPartition
    /\ UNCHANGED <<br, portbase, world>>

\* One turn of the loop over the partitions
CheckPartition ==
    /\ pc = "partition"
    /\ IF VolumeAt(br[part])
       THEN Analyze(image[req.unit][At(br[part])], br[part]) /\ UNCHANGED part
       ELSE NextPartition
    /\ UNCHANGED <<br, portbase, world>>
-----------------------------------------------------------------------------
(* LPTRead and LPTWrite, a block at a time.  The block numbers of DOS are  *)
(* used as they are: partition_offset is not added.                        *)

Current == At(req.start + moved)

\* DOS writes what is there, or something else.
TransferBlock ==
    /\ pc = "transfer" /\ moved < req.count
    /\ Reaches(req.unit, Current)
    /\ moved' = moved + 1
    /\ \/ UNCHANGED <<image, changes>>
       \/ /\ req.kind = "write" /\ changes < MaxChanges
          /\ changes' = changes + 1
          /\ \E b \in Written : image' = [image EXCEPT ![req.unit][Current] = b]
    /\ UNCHANGED <<driver, req, pc, search, status, answer, online, drops>>

TransferEnds == /\ pc = "transfer" /\ moved = req.count
                /\ Done("done")
                /\ UNCHANGED <<driver, search, world>>

\* RES_ERROR, and dos_error: the adapter has said that it cannot get at the block.
TransferFails == /\ pc = "transfer" /\ moved < req.count
                 /\ ~Reaches(req.unit, Current)
                 /\ Done("bad_sector")
                 /\ ForceInit
                 /\ UNCHANGED <<state, vector, portbase, mounted, bpb,
                                partitionOffset, search, world>>

\* The block that the driver is asking the adapter for does not come.
Missing == \/ pc = "sector0" /\ ~Reaches(req.unit, 0)
           \/ pc = "partition" /\ br[part] # 0 /\ ~Reaches(req.unit, br[part])
           \/ pc = "transfer" /\ moved < req.count /\ ~Reaches(req.unit, Current)

\* Nor does a reply that the PC sees: there is no adapter, or it is held up in a
\* transfer that was cut off, or its error came and went between two looks at the port.
\* The loops of read_byte and write_byte have no timeout.
PollForEver == /\ Missing
               /\ pc' = "polling"
               /\ UNCHANGED <<driver, req, moved, search, status, answer, world>>

Step == \/ CheckSector0 \/ CheckPartition
        \/ TransferBlock \/ TransferEnds \/ TransferFails \/ PollForEver
-----------------------------------------------------------------------------
(* The surroundings.                                                       *)

\* The power switch: DOS is started again.  So does INT 19h, from DOS, if it leads to
\* the BIOS, directly or through Shutdown.
Reboot == /\ state # "absent" \/ pc # "dos"
          /\ state' = "absent" /\ vector' = Bios /\ portbase' = 1
          /\ initNeeded' = {} /\ mounted' = {}
          /\ bpb' = [u \in Unit |-> BlankBpb] /\ partitionOffset' = 0
          /\ req' = NoReq /\ pc' = "dos" /\ moved' = 0
          /\ br' = NoPartitions /\ part' = 0
          /\ status' = "none" /\ answer' = {}
          /\ UNCHANGED world

\* INT 19h leads nowhere.
RebootAstray == /\ pc = "dos" /\ vector \notin {Bios, Shutdown}
                /\ pc' = "dead"
                /\ UNCHANGED <<driver, req, moved, search, status, answer, world>>

Drop(u) == /\ u \in online /\ drops < MaxDrops
           /\ online' = online \ {u}
           /\ drops' = drops + 1
           /\ UNCHANGED <<driver, req, pc, moved, search, status, answer, image, changes>>

Appear(u) == /\ u \notin online
             /\ online' = online \cup {u}
             /\ UNCHANGED <<driver, req, pc, moved, search, status, answer,
                            image, drops, changes>>

\* Another stick, or another file of the same name
Exchange(u) == /\ changes < MaxChanges
               /\ image' \in {[image EXCEPT ![u] = m] : m \in Image}
               /\ changes' = changes + 1
               /\ UNCHANGED <<driver, req, pc, moved, search, status, answer,
                              online, drops>>

Request == \/ \E o \in Options : Initialize(o)
           \/ \E u \in Unit : BuildBPB(u)
           \/ \E m \in Minor : GenericIOCTL(m) \/ IOCTLQuery(m)
           \/ Acknowledge \/ UnknownRequest
           \/ \E kind \in {"read", "write"}, u \in Unit, start \in 0 .. Span - 1,
                 count \in 0 .. MaxCount : StartIO(kind, u, start, count)

World == Reboot \/ RebootAstray \/ \E u \in Unit : Drop(u) \/ Appear(u) \/ Exchange(u)

Next == Request \/ Step \/ World

\* The processor runs; nobody has to make a request.
Spec == Init /\ [][Next]_vars /\ WF_vars(Step)
-----------------------------------------------------------------------------
TypeOK == /\ state \in {"absent", "loaded", "unloaded"} /\ vector \in {Bios, RebootEntry}
          /\ portbase \in 0 .. 4
          /\ initNeeded \subseteq Unit /\ mounted \subseteq Unit
          /\ bpb \in [Unit -> Bpb] /\ partitionOffset \in Nat
          /\ req \in [kind : {"none", "init", "read", "write"}, unit : Unit,
                      start : 0 .. Span - 1, count : 0 .. MaxCount]
          /\ pc \in {"dos", "sector0", "partition", "transfer", "polling", "dead"}
          /\ moved \in 0 .. req.count
          /\ \A p \in 0 .. 3 : br[p] \in Nat
          /\ part \in 0 .. 3
          /\ status \in {"none", "done", "error", "general_failure", "bad_sector",
                         "unknown_command"}
          /\ answer \in {{}} \cup {{p} : p \in {BlankBpb} \cup {bpb[u] : u \in Unit}}
          /\ \A u \in Unit : \A l \in DOMAIN image[u] : image[u][l] \in Block
          /\ online \subseteq Unit
          /\ drops \in 0 .. MaxDrops /\ changes \in 0 .. MaxChanges

\* The first blocks of the volumes of a disk, in the order of find_volume
FirstVolume(m) ==
    LET fat(l) == At(l) \in DOMAIN m /\ CheckFs(m[At(l)]) = 0
        p == m[0].parts
    IN  IF fat(0) THEN 0
        ELSE p[CHOOSE k \in 0 .. 3 : /\ p[k] # 0 /\ fat(p[k])
                                     /\ \A j \in 0 .. k - 1 : p[j] = 0 \/ ~fat(p[j])]

\* No block is transferred for DOS before the volume of its unit has been found, and
\* a unit that is taken to need no initialization has had one: whatever failed
\* before, and whichever unit it was on.
MountedBeforeTransfer ==
    /\ pc = "transfer" => req.unit \in mounted
    /\ state = "loaded" => Unit \ initNeeded \subseteq mounted

\* The BPB of a mounted unit is, in all its fields, that of the first volume of the
\* disk, as long as the disk is the same and its unit did not stop to answer in
\* the middle of the search: no search that failed has left anything in it.
BpbIsFirstVolume ==
    drops = 0 /\ changes = 0 =>
        \A u \in mounted :
            bpb[u] = BpbOf(image[u][At(FirstVolume(image[u]))])

\* No request runs for ever in the driver's own loops: it is answered, with a status,
\* but for one that divides by 0, and one that is still polling the port for a unit
\* that has not given it the block (LPTSTORE.C:361-365, 408-412 and 421-426).
RequestReturns == (pc # "dos") ~> (pc \in {"dos", "polling", "dead"})

\* "register reboot vector" (DRIVER.C:408): INT 19h leads to the BIOS or to Shutdown.
VectorIsShutdown == vector \in {Bios, Shutdown}

\* "Communications errors are a special situation.  In these cases we also set
\* global flag to force a controller initialization before the next operation"
\* (DRIVER.C:154-156, and 176-177 of drive_init): the request after one does not go straight to the blocks.
Reinitialises ==
    [][pc = "dos" /\ status = "bad_sector" => pc' # "transfer"]_vars

\* "Supports only generic partitioning, FDISK and SFD" (LPTSTORE.C:157): block 0 of
\* a unit, as DOS reads it, is the boot sector of the volume that has been found.
VolumeIsServed ==
    drops = 0 /\ changes = 0 => \A u \in mounted : FirstVolume(image[u]) = 0

\* "return a table of BPBs to DOS" (DRIVER.C:367), and BuildBPB returns "the BIOS
\* parameter block for the specified drive": the BPB comes from the unit's disk.
BpbComesFromDisk ==
    answer # {} => \E u \in mounted : answer = {bpb[u]}
=============================================================================
