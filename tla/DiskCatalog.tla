----------------------------- MODULE DiskCatalog -----------------------------
(***************************************************************************)
(* Which sectors of the USB stick are which disk (fat32.c), and when core  *)
(* 1 finds out (msc_task in msc_app.c).  When a stick has been mounted and *)
(* has answered an inquiry, init_disk looks through its root directory for *)
(* DISKA.DAT .. DISKP.DAT and CONFIG.BIN, and drops the files that do not  *)
(* lie in consecutive sectors: a disk is then one addition away from the   *)
(* sectors of the stick.                                                   *)
(*                                                                         *)
(* One action is at most one read_sector (atomic here; SectorCache has its *)
(* insides), so that the stick may be pulled out between any two of them.  *)
(* init_disk looks at none of their results: what was in the buffer is     *)
(* used again.                                                             *)
(***************************************************************************)
EXTENDS Integers

CONSTANTS NrDisks,     \* NR_DISKS: 16
          FatEntries,  \* entries of a sector of the FAT: 128
          Eoc,         \* cluster numbers from here on end a chain: 0x0ffffff0
          Sticks,      \* the sticks there are
          NoStick,
          MaxPlugs     \* bound: how often a stick is plugged in

\* A stick: ok, the 0x55aa of its first sector; reserved, the lba of the FAT; data,
\* the lba of the first cluster, 2; spc, sectors per cluster; root, the first
\* cluster of the root directory; dir, the entries in its sectors, by lba (deleted
\* files, long names and other files left out); and the FAT: whatever is found where
\* the sector of a cluster's entry should be (nobody asks where the FAT ends).
Disks == 0 .. NrDisks - 1
CfgDisk == 255  \* CFG_DISK
Entry == [file : Disks \cup {CfgDisk}, cluster : Nat, blocks : Nat]

ASSUME CatalogAssumption ==
    /\ NrDisks \in 1 .. CfgDisk /\ FatEntries \in Nat \ {0} /\ Eoc \in Nat \ {0}
    /\ MaxPlugs \in Nat
    /\ NoStick \notin Sticks
    /\ \A s \in Sticks :
          /\ s.ok \in BOOLEAN
          /\ s.spc \in Nat \ {0}
          /\ s.data \in Nat /\ s.data > 2 * s.spc
          /\ s.root \in Nat
          /\ DOMAIN s.fat \subseteq Nat
          /\ \A k \in DOMAIN s.fat : s.fat[k] \in Nat
          /\ \A c \in 0 .. Eoc - 1, j \in 0 .. FatEntries - 1 :
                (c \div FatEntries) * FatEntries + j \in DOMAIN s.fat
          /\ \A l \in DOMAIN s.dir : s.dir[l] \subseteq Entry

VARIABLES stick,    \* what is plugged in, or NoStick
          inquiry,  \* what has become of the inquiry of tuh_msc_mount_cb
          event,    \* usb_disk_insert_event
          plugs,    \* how often a stick was plugged in
          bitmap,   \* disk_bitmap: the disks found good
          disk,     \* disk_cluster, disk_lba, disk_blocks
          cfg,      \* cfg_cluster, cfg_lba, cfg_blocks
          pc,       \* core 1: what it does next
          fs,       \* fat32 of init_disk: the parameters of the file system
          cache,    \* fat32.fat: a sector of the FAT
          cluster,  \* where read_file or file_has_gaps is in a chain
          at,       \* read_file: sector in that cluster (i)
          lastLba,  \* file_has_gaps: last_lba
          n         \* init_disk: the disk being checked (i)

usb == <<stick, inquiry, event, plugs>>
catalog == <<bitmap, disk, cfg>>
walk == <<fs, cache, cluster, at, lastLba, n>>
vars == <<usb, catalog, pc, walk>>

Nowhere == [cluster |-> 0, lba |-> 0, blocks |-> 0]
NoFs == [spc |-> 1, data |-> 3, root |-> 0]

\* fat32.fat is not initialised: at the first call it is taken to hold no offset
\* that a cluster lies in.
Unread == [offset |-> -1, rec |-> [k \in 0 .. FatEntries - 1 |-> 0]]

Init == /\ stick = NoStick /\ inquiry = "none" /\ event = 0 /\ plugs = 0
        /\ bitmap = {} /\ disk = [d \in Disks |-> Nowhere] /\ cfg = Nowhere
        /\ pc = "loop"
        /\ fs = NoFs /\ cache = Unread
        /\ cluster = 0 /\ at = 0 /\ lastLba = 0 /\ n = 0
-----------------------------------------------------------------------------
(* The stick.                                                              *)

\* read_sector reads; otherwise it returns 1 and leaves the buffer alone.
Readable == stick # NoStick /\ inquiry # "pending"

InChain(c) == c > 0 /\ c < Eoc

\* get_lba
Lba(f, c) == f.data + f.spc * (c - 2)

FatSector(k) == [j \in 0 .. FatEntries - 1 |-> stick.fat[k * FatEntries + j]]

\* Variant of Fetched: the sector fetched before is used for all clusters.
FetchedOnce(c) ==
    IF cache.offset # -1 THEN cache
    ELSE [offset |-> c - (c % FatEntries),
          rec |-> IF Readable THEN FatSector(c \div FatEntries) ELSE cache.rec]

\* get_next_cluster: the cache it leaves, and the cluster it returns
Fetched(c) ==
    IF c \in cache.offset .. cache.offset + FatEntries - 1 /\ cache.offset # -1 THEN cache
    ELSE [offset |-> c - (c % FatEntries),
          rec |-> IF Readable THEN FatSector(c \div FatEntries) ELSE cache.rec]

Follow(c) == /\ cache' = Fetched(c)
             /\ cluster' = cache'.rec[c % FatEntries]
-----------------------------------------------------------------------------
(* Core 0.                                                                 *)

\* tuh_msc_mount_cb
Mount == /\ stick = NoStick /\ plugs < MaxPlugs
         /\ stick' \in Sticks
         /\ inquiry' = "pending"
         /\ plugs' = plugs + 1
         /\ UNCHANGED <<event, catalog, pc, walk>>

\* inquiry_complete_cb
InquiryComplete == /\ inquiry = "pending"
                   /\ \/ inquiry' = "passed" /\ event' = 1
                      \/ inquiry' = "failed" /\ UNCHANGED event
                   /\ UNCHANGED <<stick, plugs, catalog, pc, walk>>

\* tuh_msc_umount_cb
Umount == /\ stick # NoStick
          /\ stick' = NoStick
          /\ inquiry' = "none"
          /\ UNCHANGED <<event, plugs, catalog, pc, walk>>
-----------------------------------------------------------------------------
(* Core 1: msc_task, init_disk.                                            *)

\* Variant of InitDisk: the bits of the last stick stay.
InitDiskKeepsBits ==
    /\ pc = "loop" /\ event = 1
    /\ pc' = "id"
    /\ cache' \in {cache, Unread}
    /\ UNCHANGED <<usb, catalog, fs, cluster, at, lastLba, n>>

\* The stack of the last call may be found unchanged, or overwritten.
InitDisk == /\ pc = "loop" /\ event = 1
            /\ pc' = "id"
            /\ bitmap' = {}
            /\ cache' \in {cache, Unread}
            /\ UNCHANGED <<usb, disk, cfg, fs, cluster, at, lastLba, n>>

\* read_fs_id; a buffer that was not read (a piece of the stack, where a sector of
\* the directory may have been) is taken not to end in 0x55aa
ReadFsId ==
    /\ pc = "id"
    /\ IF Readable /\ stick.ok
       THEN /\ fs' = [spc |-> stick.spc, data |-> stick.data, root |-> stick.root]
            /\ pc' = "root"
            /\ cluster' = stick.root
            /\ at' = 0
       ELSE pc' = "end" /\ UNCHANGED <<fs, cluster, at>>
    /\ UNCHANGED <<usb, catalog, cache, lastLba, n>>

Located(e) == [cluster |-> e.cluster, lba |-> Lba(fs, e.cluster), blocks |-> e.blocks]

\* what process_dir_sector makes of the entries for a file (names are unique)
Listed(entries, file, old) ==
    IF \E e \in entries : e.file = file
    THEN Located(CHOOSE e \in entries : e.file = file)
    ELSE old

\* A sector of the stick that is no sector of the root directory has no entries.
EntriesAt(l) == IF l \in DOMAIN stick.dir THEN stick.dir[l] ELSE {}

\* read_file with process_dir_sector: one sector.  If it cannot be read, the one
\* before is processed again, which changes nothing.
RootSector ==
    /\ pc = "root" /\ InChain(cluster) /\ at < fs.spc
    /\ at' = at + 1
    /\ IF Readable
       THEN LET entries == EntriesAt(Lba(fs, cluster) + at)
            IN  /\ disk' = [d \in Disks |-> Listed(entries, d, disk[d])]
                /\ cfg' = Listed(entries, CfgDisk, cfg)
       ELSE UNCHANGED <<disk, cfg>>
    /\ UNCHANGED <<usb, bitmap, pc, fs, cache, cluster, lastLba, n>>

RootNext == /\ pc = "root" /\ InChain(cluster) /\ at = fs.spc
            /\ Follow(cluster)
            /\ at' = 0
            /\ UNCHANGED <<usb, catalog, pc, fs, lastLba, n>>

RootEnd == /\ pc = "root" /\ ~InChain(cluster)
           /\ pc' = "next"
           /\ n' = 0
           /\ UNCHANGED <<usb, catalog, fs, cache, cluster, at, lastLba>>

\* the loop over the disks: the next one with an address, then the configuration
NextDisk ==
    /\ pc = "next"
    /\ lastLba' = 0
    /\ \/ /\ n < NrDisks /\ disk[n].lba # 0
          /\ pc' = "check"
          /\ cluster' = disk[n].cluster
          /\ UNCHANGED n
       \/ /\ n < NrDisks /\ disk[n].lba = 0
          /\ n' = n + 1
          /\ UNCHANGED <<pc, cluster>>
       \/ /\ n = NrDisks /\ cfg.cluster # 0
          /\ pc' = "check"
          /\ cluster' = cfg.cluster
          /\ UNCHANGED n
       \/ /\ n = NrDisks /\ cfg.cluster = 0
          /\ pc' = "end"
          /\ UNCHANGED <<n, cluster>>
    /\ UNCHANGED <<usb, catalog, fs, cache, at>>

\* Variant of IsGap: a cluster in front of the last one is no gap.
IsGapUp == lastLba # 0 /\ lastLba + 1 < Lba(fs, cluster)

\* file_has_gaps, for a cluster; inside it the sectors are consecutive
IsGap == lastLba # 0 /\ lastLba + 1 # Lba(fs, cluster)

CheckCluster == /\ pc = "check" /\ InChain(cluster) /\ ~IsGap
                /\ lastLba' = Lba(fs, cluster) + fs.spc - 1
                /\ Follow(cluster)
                /\ UNCHANGED <<usb, catalog, pc, fs, at, n>>

\* Variant of AfterCheck: i is advanced behind the configuration as well.
AfterCheckPast == /\ pc' = IF n < NrDisks THEN "next" ELSE "end"
                  /\ n' = n + 1

AfterCheck == IF n < NrDisks THEN pc' = "next" /\ n' = n + 1
                             ELSE pc' = "end" /\ UNCHANGED n

\* Variant of CheckFails: the disk keeps its address.
CheckFailsKeepsLba ==
    /\ pc = "check" /\ InChain(cluster) /\ IsGap
    /\ IF n < NrDisks
       THEN disk' = [disk EXCEPT ![n].cluster = 0] /\ UNCHANGED cfg
       ELSE cfg' = [cfg EXCEPT !.cluster = 0] /\ UNCHANGED disk
    /\ AfterCheck
    /\ UNCHANGED <<usb, bitmap, fs, cache, cluster, at, lastLba>>

\* A configuration with gaps keeps its address: cfg_lba is not cleared.
CheckFails ==
    /\ pc = "check" /\ InChain(cluster) /\ IsGap
    /\ IF n < NrDisks
       THEN disk' = [disk EXCEPT ![n].lba = 0, ![n].cluster = 0] /\ UNCHANGED cfg
       ELSE cfg' = [cfg EXCEPT !.cluster = 0] /\ UNCHANGED disk
    /\ AfterCheck
    /\ UNCHANGED <<usb, bitmap, fs, cache, cluster, at, lastLba>>

CheckPasses ==
    /\ pc = "check" /\ ~InChain(cluster)
    /\ bitmap' = bitmap \cup {IF n < NrDisks THEN n ELSE CfgDisk}
    /\ AfterCheck
    /\ UNCHANGED <<usb, disk, cfg, fs, cache, cluster, at, lastLba>>

\* usb_disk_insert_event = 0, whatever has been plugged in since
InitDiskEnds == /\ pc = "end"
                /\ pc' = "loop"
                /\ event' = 0
                /\ UNCHANGED <<stick, inquiry, plugs, catalog, walk>>

Core1 == \/ InitDisk \/ ReadFsId \/ RootSector \/ RootNext \/ RootEnd \/ NextDisk
         \/ CheckCluster \/ CheckFails \/ CheckPasses \/ InitDiskEnds

Next == Mount \/ InquiryComplete \/ Umount \/ Core1

\* Core 1 runs; the stick may keep an inquiry waiting.
Spec == Init /\ [][Next]_vars /\ WF_vars(Core1)
-----------------------------------------------------------------------------
(* What the protocol gets to see: the operations of disk.h.                *)

\* disk_get_drives
Drives == IF stick # NoStick THEN bitmap ELSE {}

\* disk_get_blocks
Blocks(d) == IF stick = NoStick THEN 0
             ELSE IF d = CfgDisk THEN cfg.blocks
             ELSE IF disk[d].lba # 0 THEN disk[d].blocks ELSE 0

\* read_disk_sector and write_disk_sector: the sector of the stick that is accessed,
\* or -1.  (A disk number NR_DISKS passes the test of the code as well, and takes
\* its address from behind the array; it is left out.)
Address(d, sector) ==
    LET where == IF d = CfgDisk THEN cfg ELSE disk[d]
    IN  IF where.lba > 0 /\ sector < where.blocks THEN where.lba + sector ELSE -1
-----------------------------------------------------------------------------
TypeOK == /\ stick \in Sticks \cup {NoStick}
          /\ inquiry \in {"none", "pending", "passed", "failed"}
          /\ event \in {0, 1} /\ plugs \in 0 .. MaxPlugs
          /\ bitmap \subseteq Disks \cup {CfgDisk}
          /\ disk \in [Disks -> [cluster : Nat, lba : Nat, blocks : Nat]]
          /\ cfg \in [cluster : Nat, lba : Nat, blocks : Nat]
          /\ pc \in {"loop", "id", "root", "next", "check", "end"}
          /\ fs \in [spc : Nat \ {0}, data : Nat, root : Nat]
          /\ cache.offset \in Nat \cup {-1}
          /\ cache.rec \in [0 .. FatEntries - 1 -> Nat]
          /\ cluster \in Nat /\ at \in Nat /\ lastLba \in Nat
          /\ n \in 0 .. NrDisks

\* The reference: what is on a stick.
Entries(s) == UNION {s.dir[l] : l \in DOMAIN s.dir}

\* The clusters of a chain, as far as it goes
Chain(s, first, length) ==
    LET c[j \in 0 .. length] == IF j = 0 THEN first ELSE s.fat[c[j - 1]] IN c

\* The lba of a sector of a file
FileSector(s, e, sector) ==
    LET k == sector \div s.spc
    IN  Lba(s, Chain(s, e.cluster, k)[k]) + (sector % s.spc)

HasCluster(s, first, k) == \A j \in 0 .. k : InChain(Chain(s, first, k)[j])

\* A consistent file system: names are unique, the sectors of the root directory are
\* those of its chain, and a file has the clusters that its size asks for.
ASSUME FileSystemAssumption ==
    \A s \in Sticks :
        /\ \A e, f \in Entries(s) : e.file = f.file => e = f
        /\ \A l \in DOMAIN s.dir :
              \E k \in 0 .. Eoc, i \in 0 .. s.spc - 1 :
                  HasCluster(s, s.root, k) /\ l = Lba(s, Chain(s, s.root, k)[k]) + i
        /\ \A e \in Entries(s) : \A sector \in 0 .. e.blocks - 1 :
              HasCluster(s, e.cluster, sector \div s.spc)

\* The chain is first, first + 1, ... up to its end.
Unbroken(s, first) ==
    \/ ~InChain(first)
    \/ \E last \in DOMAIN s.fat : /\ first <= last
                                  /\ \A c \in first .. last - 1 : s.fat[c] = c + 1
                                  /\ ~InChain(s.fat[last])

\* The first stick has been gone through, and is still there.
Settled == plugs = 1 /\ stick # NoStick /\ inquiry = "passed" /\ event = 0

\* The sector lies in front of the first gap of the file.
InFirstPiece(s, e, sector) ==
    LET k == sector \div s.spc
        chain == Chain(s, e.cluster, k)
    IN  \A c \in 1 .. k : chain[c] = chain[c - 1] + 1

\* A disk is its file, whenever core 1 has a request for it: whatever the order of
\* the clusters of the file, of the entries in the directory and of the files on the
\* stick, and however far the inquiry has come, sector s of disk d is sector s of
\* DISKd.DAT, or there is no such sector.  So it is with CONFIG.BIN up to its first
\* gap.  (Not so for a second stick: the addresses of the first one are not cleared.)
DiskIsFile ==
    pc = "loop" /\ stick # NoStick /\ plugs = 1 =>
        \A d \in Disks \cup {CfgDisk} : \A sector \in 0 .. Blocks(d) - 1 :
        \E e \in Entries(stick) :
            /\ e.file = d
            /\ d \in Disks \/ InFirstPiece(stick, e, sector) =>
                   Address(d, sector) = FileSector(stick, e, sector)

\* The drives that get_disks announces are the files in consecutive clusters, all
\* of them and no other.
DrivesAreUnbrokenFiles ==
    Settled => Drives = IF ~stick.ok THEN {}
                        ELSE {e.file : e \in {x \in Entries(stick) :
                                 /\ Unbroken(stick, x.cluster)
                                 /\ x.file = CfgDisk => x.cluster # 0}}

\* A drive that is announced is there to be read, whatever sticks have been plugged
\* in before and whenever they were pulled out; and no other disk is, unless the
\* stick has no file system at all: an address that a stick before has left behind
\* is checked and announced, or cleared.
DrivesAreServed ==
    pc = "loop" => LET served == {d \in Disks : disk[d].lba # 0}
                   IN  /\ bitmap \cap Disks \subseteq served
                       /\ bitmap # {} => served \subseteq bitmap

\* init_disk comes to an end, even if the FAT leads a chain in a circle (a circle
\* has a gap), as long as the stick stays in and is the first.  The root directory is
\* not looked at for gaps: its chain must end; and a second stick may come while that
\* of the first is followed, through the part of the FAT that is cached.
InitReturns == (pc # "loop") ~> (pc = "loop" \/ stick = NoStick \/ plugs > 1)

\* The reason: a walk through a chain never comes back, whatever FAT it follows.
WalkAdvances ==
    [][pc = "check" /\ pc' = "check" /\ UNCHANGED usb => lastLba' > lastLba]_vars
=============================================================================
