-------------------------- MODULE DiskCatalogProofs --------------------------
(***************************************************************************)
(* What init_disk makes of a stick, for every stick, every size of the FAT *)
(* and every number of disks, and whatever is plugged in, pulled out or    *)
(* answered between two of its reads.                                      *)
(*                                                                         *)
(* The types, the progress of a walk and the bits of the drives that can   *)
(* be read need nothing of the file system.  That the drives are the files *)
(* without gaps, and that a disk is its file, is said of the first stick,  *)
(* and rests on FileSystemAssumption and on an invariant, CatalogInv, that *)
(* follows init_disk through the root directory (what is ahead, what has   *)
(* been recorded) and through each chain (what has been walked).           *)
(***************************************************************************)
EXTENDS DiskCatalog, WellFoundedInduction, TLAPS

\* The types, and that the first sector of every cluster lies behind sector 0.
UsbTypes == /\ stick \in Sticks \cup {NoStick}
            /\ inquiry \in {"none", "pending", "passed", "failed"}
            /\ event \in {0, 1} /\ plugs \in 0 .. MaxPlugs

Place == [cluster : Nat, lba : Nat, blocks : Nat]

CatalogTypes == /\ bitmap \subseteq Disks \cup {CfgDisk}
                /\ disk \in [Disks -> Place] /\ cfg \in Place

CacheTypes == /\ cache.offset \in Nat \cup {-1}
              /\ cache.rec \in [0 .. FatEntries - 1 -> Nat]

FsTypes == fs \in [spc : Nat \ {0}, data : Nat, root : Nat] /\ fs.data > 2 * fs.spc

WalkTypes == /\ pc \in {"loop", "id", "root", "next", "check", "end"}
             /\ cluster \in Nat /\ at \in Nat /\ lastLba \in Nat
             /\ n \in 0 .. NrDisks

Types == UsbTypes /\ CatalogTypes /\ CacheTypes /\ FsTypes /\ WalkTypes

\* The constants that are numbers
LEMMA Numbers ==
    /\ NrDisks \in 1 .. CfgDisk /\ FatEntries \in Nat \ {0} /\ Eoc \in Nat \ {0}
    /\ MaxPlugs \in Nat
BY CatalogAssumption

\* Where a cluster lies
LEMMA LbaTypes ==
    ASSUME NEW f, f.spc \in Nat \ {0}, f.data \in Nat, f.data > 2 * f.spc,
           NEW c \in Nat
    PROVE  Lba(f, c) \in Nat \ {0}
<1>1. f.spc * c \in Nat
  OBVIOUS
<1>2. Lba(f, c) = (f.data - 2 * f.spc) + f.spc * c
  BY DEF Lba
<1> QED
  BY <1>1, <1>2

\* A stick, and the sector of its FAT that has the entry of a cluster
LEMMA StickTypes ==
    ASSUME NEW s \in Sticks
    PROVE  /\ s.ok \in BOOLEAN /\ s.spc \in Nat \ {0} /\ s.data \in Nat
           /\ s.data > 2 * s.spc /\ s.root \in Nat
           /\ \A l \in DOMAIN s.dir : s.dir[l] \subseteq Entry
           /\ DOMAIN s.fat \subseteq Nat
           /\ \A c \in 0 .. Eoc - 1, j \in 0 .. FatEntries - 1 :
                 /\ (c \div FatEntries) * FatEntries + j \in DOMAIN s.fat
                 /\ s.fat[(c \div FatEntries) * FatEntries + j] \in Nat
<1>1. /\ s.ok \in BOOLEAN /\ s.spc \in Nat \ {0} /\ s.data \in Nat /\ s.data > 2 * s.spc
      /\ s.root \in Nat
      /\ \A l \in DOMAIN s.dir : s.dir[l] \subseteq Entry
  BY CatalogAssumption
<1>2. /\ DOMAIN s.fat \subseteq Nat /\ \A k \in DOMAIN s.fat : s.fat[k] \in Nat
      /\ \A c \in 0 .. Eoc - 1, j \in 0 .. FatEntries - 1 :
            (c \div FatEntries) * FatEntries + j \in DOMAIN s.fat
  BY CatalogAssumption
<1> QED
  BY <1>1, <1>2

\* The entry of a cluster in its sector of the FAT
LEMMA EntryTypes ==
    ASSUME NEW c \in Nat
    PROVE  /\ c % FatEntries \in 0 .. FatEntries - 1
           /\ c \div FatEntries \in Nat
           /\ c = (c \div FatEntries) * FatEntries + (c % FatEntries)
           /\ c - (c % FatEntries) \in Nat
<1>1. c % FatEntries \in 0 .. FatEntries - 1
  BY Numbers
<1>2. c \div FatEntries \in Nat
  BY Numbers
<1>3. c = FatEntries * (c \div FatEntries) + (c % FatEntries)
  BY Numbers
<1>4. (c \div FatEntries) * FatEntries \in Nat
  BY <1>2, Numbers
<1> QED
  BY <1>1, <1>2, <1>3, <1>4, Numbers

\* Following a chain keeps the types.
LEMMA FollowTypes ==
    ASSUME Types, InChain(cluster), Follow(cluster)
    PROVE  /\ cluster' \in Nat /\ cache'.offset \in Nat \cup {-1}
           /\ cache'.rec \in [0 .. FatEntries - 1 -> Nat]
<1> DEFINE c == cluster
<1>1. c \in 0 .. Eoc - 1 /\ c \in Nat
  BY Numbers DEF Types, WalkTypes, InChain
<1>2. /\ Fetched(c).offset \in Nat \cup {-1}
      /\ Fetched(c).rec \in [0 .. FatEntries - 1 -> Nat]
  <2>1. CASE Fetched(c) = cache
    BY <2>1 DEF Types, CacheTypes
  <2>2. CASE Fetched(c) # cache /\ Readable
    <3>1. Fetched(c) = [offset |-> c - (c % FatEntries), rec |-> FatSector(c \div FatEntries)]
      BY <2>2 DEF Fetched
    <3>2. stick \in Sticks
      BY <2>2 DEF Types, UsbTypes, Readable
    <3>3. FatSector(c \div FatEntries) \in [0 .. FatEntries - 1 -> Nat]
      BY <1>1, <3>2, StickTypes DEF FatSector
    <3>4. c - (c % FatEntries) \in Nat
      BY <1>1, EntryTypes
    <3> QED
      BY <3>1, <3>3, <3>4
  <2>3. CASE Fetched(c) # cache /\ ~Readable
    <3>1. Fetched(c) = [offset |-> c - (c % FatEntries), rec |-> cache.rec]
      BY <2>3 DEF Fetched
    <3>2. c - (c % FatEntries) \in Nat
      BY <1>1, EntryTypes
    <3> QED
      BY <3>1, <3>2 DEF Types, CacheTypes
  <2> QED
    BY <2>1, <2>2, <2>3
<1>3. cache' = Fetched(c) /\ cluster' = cache'.rec[c % FatEntries]
  BY DEF Follow
<1> QED
  BY <1>1, <1>2, <1>3, EntryTypes

\* So do the entries of a directory.
LEMMA ListedTypes ==
    ASSUME Types, NEW l, Readable, NEW file, NEW old \in Place
    PROVE  Listed(EntriesAt(l), file, old) \in Place
<1>1. CASE \E e \in EntriesAt(l) : e.file = file
  <2> DEFINE e == CHOOSE e \in EntriesAt(l) : e.file = file
  <2>1. e \in EntriesAt(l)
    BY <1>1
  <2>2. e \in Entry
    BY <2>1, StickTypes DEF EntriesAt, Types, UsbTypes, Readable
  <2>3. Listed(EntriesAt(l), file, old) = Located(e)
    BY <1>1 DEF Listed
  <2> HIDE DEF e
  <2>4. e.cluster \in Nat /\ e.blocks \in Nat
    BY <2>2 DEF Entry
  <2>5. Lba(fs, e.cluster) \in Nat
    BY <2>4, LbaTypes DEF Types, FsTypes, WalkTypes
  <2> QED
    BY <2>3, <2>4, <2>5 DEF Located, Place
<1>2. CASE ~ \E e \in EntriesAt(l) : e.file = file
  BY <1>2 DEF Listed
<1> QED
  BY <1>1, <1>2

\* Every step keeps the types.
LEMMA TypesStep == Types /\ [Next]_vars => Types'
<1> SUFFICES ASSUME Types, [Next]_vars PROVE Types'
  OBVIOUS
<1> USE DEF Types
<1>1. UsbTypes'
  BY Numbers
     DEF Next, Core1, Mount, InquiryComplete, Umount, InitDisk, ReadFsId, RootSector, RootNext,
         RootEnd, NextDisk, CheckCluster, CheckFails, CheckPasses, InitDiskEnds, vars, usb, UsbTypes
<1>2. CatalogTypes'
  <2>1. CASE UNCHANGED <<disk, cfg>>
    BY <2>1, Numbers
       DEF Next, Core1, Mount, InquiryComplete, Umount, InitDisk, ReadFsId, RootSector, RootNext,
           RootEnd, NextDisk, CheckCluster, CheckFails, CheckPasses, InitDiskEnds, vars, catalog,
           CatalogTypes, Disks, WalkTypes
  <2>2. CASE CheckFails
    <3>1. CASE n < NrDisks
      <4>1. n \in Disks /\ disk[n] \in Place
        BY <3>1, Numbers DEF Disks, WalkTypes, CatalogTypes
      <4>2. disk' = [disk EXCEPT ![n] = [disk[n] EXCEPT !.lba = 0, !.cluster = 0]]
        BY <2>2, <3>1 DEF CheckFails
      <4>3. [disk[n] EXCEPT !.lba = 0, !.cluster = 0] \in Place
        BY <4>1 DEF Place
      <4>4. cfg' = cfg /\ bitmap' = bitmap
        BY <2>2, <3>1 DEF CheckFails
      <4> QED
        BY <4>1, <4>2, <4>3, <4>4 DEF CatalogTypes
    <3>2. CASE ~(n < NrDisks)
      BY <2>2, <3>2 DEF CheckFails, CatalogTypes, Place
    <3> QED
      BY <3>1, <3>2
  <2>3. CASE RootSector /\ Readable
    <3> DEFINE entries == EntriesAt(Lba(fs, cluster) + at)
    <3>1. /\ disk' = [d \in Disks |-> Listed(entries, d, disk[d])]
          /\ cfg' = Listed(entries, CfgDisk, cfg) /\ bitmap' = bitmap
      BY <2>3 DEF RootSector
    <3>2. disk' \in [Disks -> Place]
      BY <2>3, <3>1, ListedTypes DEF CatalogTypes
    <3>3. cfg' \in Place
      BY <2>3, <3>1, ListedTypes DEF CatalogTypes
    <3> QED
      BY <3>1, <3>2, <3>3 DEF CatalogTypes
  <2> QED
    BY <2>1, <2>2, <2>3
       DEF Next, Core1, Mount, InquiryComplete, Umount, InitDisk, ReadFsId, RootSector, RootNext,
           RootEnd, NextDisk, CheckCluster, CheckPasses, InitDiskEnds, vars, catalog
<1>3. CacheTypes'
  <2>1. CASE cache' = cache
    BY <2>1 DEF CacheTypes
  <2>2. CASE cache' = Unread
    BY <2>2, Numbers DEF CacheTypes, Unread
  <2>3. CASE InChain(cluster) /\ Follow(cluster)
    BY <2>3, FollowTypes DEF CacheTypes
  <2> QED
    BY <2>1, <2>2, <2>3
       DEF Next, Core1, Mount, InquiryComplete, Umount, InitDisk, ReadFsId, RootSector, RootNext,
           RootEnd, NextDisk, CheckCluster, CheckFails, CheckPasses, InitDiskEnds, vars, walk
<1>4. FsTypes'
  <2>1. CASE fs' = fs
    BY <2>1 DEF FsTypes
  <2>2. CASE ReadFsId /\ Readable
    BY <2>2, StickTypes DEF ReadFsId, Readable, FsTypes, UsbTypes
  <2> QED
    BY <2>1, <2>2
       DEF Next, Core1, Mount, InquiryComplete, Umount, InitDisk, ReadFsId, RootSector, RootNext,
           RootEnd, NextDisk, CheckCluster, CheckFails, CheckPasses, InitDiskEnds, vars, walk
<1>5. WalkTypes'
  <2> USE Numbers DEF WalkTypes, UsbTypes, CatalogTypes, Place, FsTypes, vars, walk
  <2>1. CASE Mount \/ InquiryComplete \/ Umount \/ InitDisk \/ UNCHANGED vars
    BY <2>1 DEF Mount, InquiryComplete, Umount, InitDisk
  <2>2. CASE ReadFsId
    BY <2>2, StickTypes DEF ReadFsId, Readable
  <2>3. CASE RootSector \/ RootEnd \/ InitDiskEnds
    BY <2>3 DEF RootSector, RootEnd, InitDiskEnds
  <2>4. CASE RootNext
    BY <2>4, FollowTypes DEF RootNext
  <2>5. CASE NextDisk
    <3>1. /\ pc' \in {"next", "check", "end"} /\ lastLba' = 0 /\ at' = at
          /\ n' = n \/ (n < NrDisks /\ n' = n + 1)
          /\ \/ cluster' = cluster \/ cluster' = cfg.cluster
             \/ n < NrDisks /\ cluster' = disk[n].cluster
      BY <2>5 DEF NextDisk
    <3>2. n < NrDisks => disk[n] \in Place
      BY DEF Disks
    <3>3. cluster' \in Nat
      BY <3>1, <3>2
    <3> QED
      BY <3>1, <3>3
  <2>6. CASE CheckCluster
    <3>1. Lba(fs, cluster) \in Nat \ {0}
      BY LbaTypes
    <3>2. lastLba' \in Nat
      BY <2>6, <3>1 DEF CheckCluster
    <3>3. cluster' \in Nat
      BY <2>6, FollowTypes DEF CheckCluster
    <3> QED
      BY <2>6, <3>2, <3>3 DEF CheckCluster
  <2>7. CASE CheckFails \/ CheckPasses
    BY <2>7 DEF CheckFails, CheckPasses, AfterCheck
  <2> QED
    BY <2>1, <2>2, <2>3, <2>4, <2>5, <2>6, <2>7 DEF Next, Core1
<1> QED
  BY <1>1, <1>2, <1>3, <1>4, <1>5

\* Types holds in every state.
LEMMA TypesHold == Spec => []Types
<1>1. Init => Types
  BY Numbers
     DEF Init, Types, UsbTypes, CatalogTypes, CacheTypes, FsTypes, WalkTypes, Place, Nowhere, NoFs,
         Unread
<1> QED
  BY <1>1, TypesStep, PTL DEF Spec

\* The catalog and the walks of init_disk keep their types, whatever is plugged in and
\* pulled out meanwhile: above all, no cluster is looked up beyond a sector of the FAT.
THEOREM TypesKept == Spec => []TypeOK
<1>1. Types => TypeOK
  BY DEF Types, UsbTypes, CatalogTypes, CacheTypes, FsTypes, WalkTypes, Place, TypeOK
<1> QED
  BY <1>1, TypesHold, PTL

\* A walk through a chain never comes back, whatever FAT it follows: so a chain that
\* leads in a circle is left at its gap.
THEOREM WalksAdvance == Spec => WalkAdvances
<1>1. Types /\ [Next]_vars =>
        [pc = "check" /\ pc' = "check" /\ UNCHANGED usb => lastLba' > lastLba]_vars
  <2> SUFFICES ASSUME Types, Next, pc = "check", pc' = "check", UNCHANGED usb
               PROVE  lastLba' > lastLba
    OBVIOUS
  <2>1. CheckCluster
    BY Numbers
       DEF Next, Core1, Mount, InquiryComplete, Umount, InitDisk, ReadFsId, RootSector, RootNext,
           RootEnd, NextDisk, CheckFails, CheckPasses, AfterCheck, InitDiskEnds, usb, Types,
           UsbTypes
  <2>2. Lba(fs, cluster) \in Nat \ {0}
    BY LbaTypes DEF Types, FsTypes, WalkTypes
  <2> QED
    BY <2>1, <2>2 DEF CheckCluster, IsGap, Types, FsTypes, WalkTypes
<1> QED
  BY <1>1, TypesHold, PTL DEF Spec, WalkAdvances
-----------------------------------------------------------------------------
(* What is announced is served.                                            *)

\* The bits of the disks that init_disk has checked are right; it has none before,
\* nor any if it finds no file system.
ServedInv ==
    /\ pc \in {"id", "root"} => bitmap = {}
    /\ pc \in {"next", "check"} =>
          /\ \A d \in bitmap : d \in 0 .. n - 1
          /\ \A d \in 0 .. n - 1 : d \in bitmap <=> disk[d].lba # 0
    /\ pc = "check" /\ n < NrDisks => disk[n].lba # 0
    /\ pc \in {"loop", "end"} =>
          /\ \A d \in Disks : d \in bitmap => disk[d].lba # 0
          /\ bitmap # {} => \A d \in Disks : disk[d].lba # 0 => d \in bitmap

\* Every step keeps ServedInv.
LEMMA ServedStep == Types /\ ServedInv /\ [Next]_vars => ServedInv'
<1> SUFFICES ASSUME Types, ServedInv, [Next]_vars PROVE ServedInv'
  OBVIOUS
<1>0. /\ n \in 0 .. NrDisks /\ NrDisks \in 1 .. 255 /\ CfgDisk \notin Disks
      /\ Disks = 0 .. NrDisks - 1 /\ bitmap \subseteq Disks \cup {CfgDisk}
      /\ disk \in [Disks -> Place]
  BY Numbers DEF Types, WalkTypes, CatalogTypes, Disks, CfgDisk
<1>1. CASE UNCHANGED <<pc, bitmap, disk, n>>
  BY <1>1 DEF ServedInv
<1>2. CASE InitDisk \/ ReadFsId
  BY <1>2 DEF InitDisk, ReadFsId, ServedInv, catalog
<1>3. CASE RootSector
  BY <1>3 DEF RootSector, ServedInv
<1>4. CASE RootEnd
  BY <1>0, <1>4 DEF RootEnd, ServedInv, catalog
<1>5. CASE NextDisk
  <2>1. pc = "next" /\ UNCHANGED <<bitmap, disk>>
    BY <1>5 DEF NextDisk, catalog
  <2>2. CASE n < NrDisks /\ disk[n].lba # 0 /\ pc' = "check" /\ n' = n
    BY <2>1, <2>2 DEF ServedInv
  <2>3. CASE n < NrDisks /\ disk[n].lba = 0 /\ n' = n + 1 /\ pc' = pc
    BY <1>0, <2>1, <2>3 DEF ServedInv
  <2>4. CASE n = NrDisks /\ pc' = "check" /\ n' = n
    BY <1>0, <2>1, <2>4 DEF ServedInv
  <2>5. CASE n = NrDisks /\ pc' = "end"
    BY <1>0, <2>1, <2>5 DEF ServedInv
  <2> QED
    BY <1>5, <2>2, <2>3, <2>4, <2>5 DEF NextDisk
<1>6. CASE CheckFails
  <2>1. CASE n < NrDisks
    <3>1. /\ pc = "check" /\ pc' = "next" /\ n' = n + 1 /\ bitmap' = bitmap
          /\ disk' = [disk EXCEPT ![n] = [disk[n] EXCEPT !.lba = 0, !.cluster = 0]]
      BY <1>6, <2>1 DEF CheckFails, AfterCheck
    <3>2. disk'[n].lba = 0 /\ \A d \in Disks \ {n} : disk'[d] = disk[d]
      <4>1. n \in Disks /\ disk[n] \in Place
        BY <1>0, <2>1
      <4>2. [disk[n] EXCEPT !.lba = 0, !.cluster = 0].lba = 0
        BY <4>1 DEF Place
      <4> QED
        BY <1>0, <3>1, <4>1, <4>2
    <3> QED
      BY <1>0, <2>1, <3>1, <3>2 DEF ServedInv
  <2>2. CASE ~(n < NrDisks)
    <3>1. pc = "check" /\ pc' = "end" /\ UNCHANGED <<bitmap, disk>>
      BY <1>6, <2>2 DEF CheckFails, AfterCheck
    <3>2. n = NrDisks
      BY <1>0, <2>2
    <3> QED
      BY <1>0, <3>1, <3>2 DEF ServedInv
  <2> QED
    BY <2>1, <2>2
<1>7. CASE CheckPasses
  <2>1. CASE n < NrDisks
    <3>1. /\ pc = "check" /\ pc' = "next" /\ n' = n + 1 /\ bitmap' = bitmap \cup {n}
          /\ disk' = disk
      BY <1>7, <2>1 DEF CheckPasses, AfterCheck
    <3> QED
      BY <1>0, <2>1, <3>1 DEF ServedInv
  <2>2. CASE ~(n < NrDisks)
    <3>1. /\ pc = "check" /\ pc' = "end" /\ bitmap' = bitmap \cup {CfgDisk} /\ disk' = disk
          /\ n = NrDisks
      BY <1>0, <1>7, <2>2 DEF CheckPasses, AfterCheck
    <3> QED
      BY <1>0, <3>1 DEF ServedInv
  <2> QED
    BY <2>1, <2>2
<1>8. CASE InitDiskEnds
  BY <1>8 DEF InitDiskEnds, ServedInv, catalog, walk
<1> QED
  BY <1>1, <1>2, <1>3, <1>4, <1>5, <1>6, <1>7, <1>8
     DEF Next, Core1, Mount, InquiryComplete, Umount, RootNext, CheckCluster, vars, usb, catalog,
         walk

\* A drive that is announced has an address, and no other disk has one unless there
\* is no file system, whatever sticks came and went before.
THEOREM ServedDrives == Spec => []DrivesAreServed
<1>1. Init => ServedInv
  BY DEF Init, ServedInv
<1>2. ServedInv => DrivesAreServed
  BY DEF ServedInv, DrivesAreServed
<1> QED
  BY <1>1, <1>2, TypesHold, ServedStep, PTL DEF Spec
-----------------------------------------------------------------------------
(* Induction, and chains.                                                  *)

\* Every set of numbers has a least one: the induction that the provers can use.
LEMMA LeastNumber ==
    ASSUME NEW T, T \subseteq Nat, T # {}
    PROVE  \E m \in T : \A y \in T : m <= y
<1>1. PICK R : R = {ss \in Nat \X Nat : ss[1] < ss[2]}
  OBVIOUS
<1>2. IsWellFoundedOn(R, Nat)
  BY <1>1, NatLessThanWellFounded DEF OpToRel
<1>3. \E x \in T : \A y \in T : ~ (<<y, x>> \in R)
  BY <1>2, WFMin
<1>4. \A x, y \in T : ~ (<<y, x>> \in R) => x <= y
  BY <1>1
<1> QED
  BY <1>3, <1>4

\* Chain(s, first, k) begins with first, and follows the FAT.
LEMMA ChainIs ==
    ASSUME NEW s, NEW first, NEW k \in Nat
    PROVE  /\ Chain(s, first, k)[0] = first
           /\ \A j \in 1 .. k : Chain(s, first, k)[j] = s.fat[Chain(s, first, k)[j - 1]]
<1> DEFINE Is(c, m) == c = [j \in 0 .. m |-> IF j = 0 THEN first ELSE s.fat[c[j - 1]]]
           T == {m \in Nat : ~ \E c : Is(c, m)}
<1>1. T = {}
  <2> SUFFICES ASSUME T # {} PROVE FALSE
    OBVIOUS
  <2>1. PICK m \in T : \A y \in T : m <= y
    <3> HIDE DEF T
    <3>1. T \subseteq Nat
      BY DEF T
    <3> QED
      BY <3>1, LeastNumber
  <2>2. CASE m = 0
    <3> DEFINE c == [j \in 0 .. 0 |-> first]
    <3>1. c = [j \in 0 .. 0 |-> IF j = 0 THEN first ELSE s.fat[c[j - 1]]]
      OBVIOUS
    <3> QED
      BY <2>1, <2>2, <3>1
  <2>3. CASE m # 0
    <3>1. m - 1 \in Nat /\ m - 1 \notin T
      BY <2>1, <2>3
    <3>2. PICK c : Is(c, m - 1)
      BY <3>1
    <3> DEFINE d == [j \in 0 .. m |-> IF j = m THEN s.fat[c[m - 1]] ELSE c[j]]
    <3>3. \A j \in 0 .. m : d[j] = IF j = 0 THEN first ELSE s.fat[d[j - 1]]
      <4> SUFFICES ASSUME NEW j \in 0 .. m
                   PROVE  d[j] = IF j = 0 THEN first ELSE s.fat[d[j - 1]]
        OBVIOUS
      <4>1. CASE j = m
        BY <2>3, <3>1, <4>1
      <4>2. CASE j # m /\ j = 0
        BY <3>1, <3>2, <4>2
      <4>3. CASE j # m /\ j # 0
        <5>1. j \in 0 .. m - 1 /\ j - 1 \in 0 .. m - 1
          BY <3>1, <4>3
        <5>2. c[j] = s.fat[c[j - 1]]
          BY <3>2, <4>3, <5>1
        <5> QED
          BY <3>1, <4>3, <5>1, <5>2
      <4> QED
        BY <4>1, <4>2, <4>3
    <3>4. d = [j \in 0 .. m |-> IF j = 0 THEN first ELSE s.fat[d[j - 1]]]
      BY <3>3
    <3> HIDE DEF d
    <3>5. Is(d, m)
      BY <3>4
    <3> QED
      BY <2>1, <3>5
  <2> QED
    BY <2>2, <2>3
<1>2. \E c : Is(c, k)
  BY <1>1
<1>3. Chain(s, first, k) = CHOOSE c : Is(c, k)
  BY DEF Chain
<1>4. Is(Chain(s, first, k), k)
  <2> HIDE DEF Is
  <2> QED
    BY <1>2, <1>3
<1> DEFINE q == Chain(s, first, k)
<1> HIDE DEF q
<1>5. q = [j \in 0 .. k |-> IF j = 0 THEN first ELSE s.fat[q[j - 1]]]
  BY <1>4 DEF q
<1>6. q[0] = first /\ \A j \in 1 .. k : q[j] = s.fat[q[j - 1]]
  BY <1>5
<1> QED
  BY <1>6 DEF q
-----------------------------------------------------------------------------
(* The first stick: what init_disk knows of it, step by step.              *)

\* The first stick, as long as it stays in
First == plugs = 1 /\ stick # NoStick

Empty == bitmap = {} /\ disk = [d \in Disks |-> Nowhere] /\ cfg = Nowhere /\ cache = Unread

\* init_disk has not read anything yet.
Fresh == \/ plugs = 0
         \/ First /\ inquiry # "passed"
         \/ First /\ event = 1 /\ pc \in {"loop", "id"}

\* Core 1 is told of a stick that has passed its inquiry, and finds everything empty.
PlugInv == /\ plugs = 0 => stick = NoStick /\ inquiry = "none" /\ event = 0 /\ pc = "loop"
           /\ First => inquiry # "none"
           /\ First /\ event = 1 => inquiry = "passed"
           /\ First /\ pc # "loop" => event = 1
           /\ Fresh => Empty

\* The parameters are those of the stick.
ParamInv == First /\ pc \in {"root", "next", "check"} =>
                stick.ok /\ fs = [spc |-> stick.spc, data |-> stick.data, root |-> stick.root]

\* The cache holds a sector of the FAT of the stick.
CacheInv == First => \/ cache.offset = -1
                     \/ \E k \in Nat : /\ cache.offset = k * FatEntries
                                       /\ \A j \in 0 .. FatEntries - 1 :
                                             cache.rec[j] = stick.fat[k * FatEntries + j]

\* What the catalog says of an entry
Found(e) == [cluster |-> e.cluster, lba |-> Lba(stick, e.cluster), blocks |-> e.blocks]

Recorded(e) == IF e.file = CfgDisk THEN cfg = Found(e) ELSE disk[e.file] = Found(e)

\* What the catalog knows, it knows from an entry.
KnownInv == First =>
    /\ \A d \in Disks : disk[d].lba # 0 =>
          \E e \in Entries(stick) : e.file = d /\ disk[d] = Found(e)
    /\ cfg # Nowhere =>
          \E e \in Entries(stick) :
              e.file = CfgDisk /\ cfg \in {Found(e), [Found(e) EXCEPT !.cluster = 0]}
    /\ CfgDisk \in bitmap => cfg # Nowhere
    /\ pc \in {"loop", "end"} => \A d \in Disks : disk[d].lba # 0 => d \in bitmap

\* A sector of the directory that read_file has still to come to
Ahead(l) ==
    \E k \in 0 .. Eoc : \E i \in 0 .. stick.spc - 1 : \E q :
        /\ q[0] = cluster
        /\ \A j \in 0 .. k : InChain(q[j])
        /\ \A j \in 0 .. k - 1 : q[j + 1] = stick.fat[q[j]]
        /\ l = Lba(stick, q[k]) + i
        /\ k = 0 => i >= at

RootInv == First /\ pc = "root" =>
               \A l \in DOMAIN stick.dir : Ahead(l) \/ \A e \in stick.dir[l] : Recorded(e)

\* The cluster where the file that is checked begins
FirstOf == IF n < NrDisks THEN disk[n].cluster ELSE cfg.cluster

\* Up to p, the last cluster looked at, the file has no gap.
Walked(p) == /\ p >= FirstOf /\ InChain(p) /\ InChain(FirstOf)
             /\ lastLba = Lba(stick, p) + stick.spc - 1
             /\ cluster = stick.fat[p]
             /\ \A c \in FirstOf .. p - 1 : stick.fat[c] = c + 1

WalkInv == First /\ pc = "check" =>
    /\ n = NrDisks => cfg.cluster # 0
    /\ \/ lastLba = 0 /\ cluster = FirstOf
       \/ \E p \in Nat : Walked(p)

\* The bit of an entry is right.
Checked(e) == e.file \in bitmap <=> /\ Unbroken(stick, e.cluster)
                                    /\ e.file = CfgDisk => e.cluster # 0

ResultInv == First => \A e \in Entries(stick) :
    /\ pc \in {"next", "check"} => IF e.file < n THEN Checked(e) ELSE Recorded(e)
    /\ pc = "end" \/ (pc = "loop" /\ Settled) => IF stick.ok THEN Checked(e) ELSE bitmap = {}

CatalogInv == /\ Types /\ ServedInv /\ PlugInv /\ ParamInv /\ CacheInv /\ KnownInv /\ RootInv
              /\ WalkInv /\ ResultInv

\* The first stick has just been plugged in.
Arrives == First' /\ inquiry' = "pending" /\ event' = 0 /\ pc' = "loop" /\ Empty'

\* The first stick was there before the step, or has just been plugged in.
LEMMA FirstStep ==
    ASSUME Types, PlugInv, [Next]_vars, First'
    PROVE  (First /\ stick' = stick) \/ Arrives
<1>1. CASE Mount
  <2>1. plugs = 0 /\ stick = NoStick
    BY <1>1 DEF Mount, First, Types, UsbTypes
  <2>2. Empty /\ event = 0 /\ pc = "loop"
    BY <2>1 DEF PlugInv, Fresh
  <2> QED
    BY <1>1, <2>2 DEF Mount, Arrives, Empty, catalog, walk
<1>2. CASE ~Mount
  BY <1>2
     DEF Next, Core1, InquiryComplete, Umount, InitDisk, ReadFsId, RootSector, RootNext, RootEnd,
         NextDisk, CheckCluster, CheckFails, CheckPasses, InitDiskEnds, vars, usb, First
<1> QED
  BY <1>1, <1>2

\* Every step keeps PlugInv: init_disk starts with everything empty.
LEMMA PlugStep == Types /\ ServedInv /\ PlugInv /\ [Next]_vars => PlugInv'
<1> SUFFICES ASSUME Types, ServedInv, PlugInv, [Next]_vars PROVE PlugInv'
  OBVIOUS
<1>0. plugs \in Nat /\ event \in {0, 1} /\ NoStick \notin Sticks
  BY CatalogAssumption DEF Types, UsbTypes
<1>1. CASE UNCHANGED <<stick, inquiry, event, plugs, pc>> /\ pc \notin {"loop", "id"}
  BY <1>1 DEF PlugInv, Fresh, First, Empty
<1>2. CASE UNCHANGED vars
  BY <1>2 DEF PlugInv, Fresh, First, Empty, vars, usb, catalog, walk
<1>3. CASE Mount \/ InquiryComplete \/ Umount
  BY <1>0, <1>3
     DEF Mount, InquiryComplete, Umount, PlugInv, Fresh, First, Empty, catalog, walk
<1>4. CASE InitDisk
  BY <1>4 DEF InitDisk, PlugInv, Fresh, First, Empty, usb
<1>5. CASE ReadFsId
  BY <1>0, <1>5 DEF ReadFsId, PlugInv, Fresh, First, Empty, usb, catalog
<1>6. CASE InitDiskEnds
  BY <1>0, <1>6 DEF InitDiskEnds, PlugInv, Fresh, First, Empty, catalog, walk
<1>7. CASE \/ RootSector \/ RootNext \/ RootEnd \/ NextDisk
            \/ CheckCluster \/ CheckFails \/ CheckPasses
  <2>1. UNCHANGED usb /\ pc \in {"root", "next", "check"} /\ pc' \notin {"loop", "id"}
    BY <1>7
       DEF RootSector, RootNext, RootEnd, NextDisk, CheckCluster, CheckFails, CheckPasses,
           AfterCheck
  <2> QED
    BY <1>0, <2>1 DEF PlugInv, Fresh, First, usb
<1> QED
  BY <1>2, <1>3, <1>4, <1>5, <1>6, <1>7 DEF Next, Core1

\* What is true whenever core 1 is busy with the first stick
LEMMA Busy ==
    ASSUME Types, PlugInv, First
    PROVE  stick \in Sticks /\ (pc # "loop" => Readable)
BY DEF Types, UsbTypes, PlugInv, First, Readable

\* Every step keeps ParamInv: read_fs_id takes the parameters from the stick.
LEMMA ParamStep == CatalogInv /\ [Next]_vars => ParamInv'
<1> SUFFICES ASSUME CatalogInv, [Next]_vars, First', pc' \in {"root", "next", "check"}
             PROVE  ParamInv'
  BY DEF ParamInv
<1>0. Types /\ PlugInv /\ ParamInv
  BY DEF CatalogInv
<1>1. First /\ stick' = stick
  BY <1>0, FirstStep DEF Arrives
<1>2. CASE ReadFsId
  BY <1>1, <1>2 DEF ReadFsId, ParamInv
<1>3. CASE ~ReadFsId
  <2>1. fs' = fs /\ pc \in {"root", "next", "check"}
    BY <1>3
       DEF Next, Core1, Mount, InquiryComplete, Umount, InitDisk, RootSector, RootNext,
           RootEnd, NextDisk, CheckCluster, CheckFails, CheckPasses, AfterCheck, InitDiskEnds,
           vars, usb, walk
  <2> QED
    BY <1>0, <1>1, <2>1 DEF ParamInv
<1> QED
  BY <1>2, <1>3

\* Numbers in the sectors of the FAT
LEMMA SectorNumbers ==
    ASSUME NEW F \in Nat \ {0}, NEW k \in Nat, NEW c \in k * F .. k * F + F - 1
    PROVE  c % F = c - k * F
<1>1. k * F \in Nat
  OBVIOUS
<1>2. \A r \in 0 .. F - 1 : (k * F + r) % F = r
  <2> SUFFICES ASSUME NEW r \in 0 .. F - 1 PROVE (k * F + r) % F = r
    OBVIOUS
  <2> QED
    OBVIOUS
<1>3. PICK r \in 0 .. F - 1 : r = c - k * F
  BY <1>1
<1>4. c = k * F + r
  BY <1>1, <1>3
<1> QED
  BY <1>2, <1>3, <1>4

\* get_next_cluster follows the FAT of the first stick, and leaves a sector of it.
LEMMA FollowsFat ==
    ASSUME Types, PlugInv, CacheInv, First, pc # "loop", InChain(cluster), Follow(cluster)
    PROVE  /\ cluster' = stick.fat[cluster]
           /\ \E k \in Nat : /\ cache'.offset = k * FatEntries
                             /\ \A j \in 0 .. FatEntries - 1 :
                                   cache'.rec[j] = stick.fat[k * FatEntries + j]
<1>0. cluster \in Nat /\ Readable /\ FatEntries \in Nat \ {0}
  BY Busy, Numbers DEF Types, WalkTypes
<1>1. cache' = Fetched(cluster) /\ cluster' = cache'.rec[cluster % FatEntries]
  BY DEF Follow
<1>2. CASE cluster \in cache.offset .. cache.offset + FatEntries - 1 /\ cache.offset # -1
  <2>1. cache' = cache
    BY <1>1, <1>2 DEF Fetched
  <2>2. PICK k \in Nat : /\ cache.offset = k * FatEntries
                         /\ \A j \in 0 .. FatEntries - 1 :
                               cache.rec[j] = stick.fat[k * FatEntries + j]
    BY <1>2 DEF CacheInv
  <2>3. cluster % FatEntries = cluster - k * FatEntries
    BY <1>0, <1>2, <2>2, SectorNumbers
  <2>4. k * FatEntries \in Nat
    BY <1>0
  <2>5. cluster % FatEntries \in 0 .. FatEntries - 1
    BY <1>0, EntryTypes
  <2>6. k * FatEntries + (cluster % FatEntries) = cluster
    BY <1>0, <2>3, <2>4
  <2>7. cluster' = stick.fat[cluster]
    BY <1>1, <2>1, <2>2, <2>5, <2>6
  <2> QED
    BY <2>1, <2>2, <2>7
<1>3. CASE ~(cluster \in cache.offset .. cache.offset + FatEntries - 1 /\ cache.offset # -1)
  <2> DEFINE k == cluster \div FatEntries
  <2>1. /\ k \in Nat /\ cluster % FatEntries \in 0 .. FatEntries - 1
        /\ cluster = k * FatEntries + (cluster % FatEntries)
    BY <1>0, EntryTypes
  <2>2. cache' = [offset |-> cluster - (cluster % FatEntries), rec |-> FatSector(k)]
    BY <1>0, <1>1, <1>3 DEF Fetched
  <2> HIDE DEF k
  <2>3. cache'.rec = [j \in 0 .. FatEntries - 1 |-> stick.fat[k * FatEntries + j]]
    BY <2>2 DEF FatSector
  <2>4. cache'.offset = cluster - (cluster % FatEntries)
    BY <2>2
  <2>5. k * FatEntries \in Nat
    BY <1>0, <2>1
  <2>6. cache'.offset = k * FatEntries
    BY <1>0, <2>1, <2>4, <2>5
  <2>7. cache'.rec[cluster % FatEntries] = stick.fat[k * FatEntries + (cluster % FatEntries)]
    BY <2>1, <2>3
  <2>8. cluster' = stick.fat[cluster]
    BY <1>1, <2>1, <2>7
  <2> QED
    BY <2>1, <2>3, <2>6, <2>8
<1> QED
  BY <1>2, <1>3

\* Every step keeps CacheInv: the cache is filled from the FAT alone.
LEMMA CacheStep == CatalogInv /\ [Next]_vars => CacheInv'
<1> SUFFICES ASSUME CatalogInv, [Next]_vars, First' PROVE CacheInv'
  BY DEF CacheInv
<1>0. Types /\ PlugInv /\ CacheInv
  BY DEF CatalogInv
<1>1. CASE Arrives
  BY <1>1 DEF Arrives, Empty, Unread, CacheInv
<1>2. CASE First /\ stick' = stick
  <2>1. CASE cache' = cache
    BY <1>0, <1>2, <2>1 DEF CacheInv
  <2>2. CASE cache' = Unread
    BY <2>2 DEF CacheInv, Unread
  <2>3. CASE RootNext \/ CheckCluster
    <3>1. InChain(cluster) /\ Follow(cluster) /\ pc # "loop"
      BY <2>3 DEF RootNext, CheckCluster
    <3> QED
      BY <1>0, <1>2, <3>1, FollowsFat DEF CacheInv
  <2> QED
    BY <2>1, <2>2, <2>3
       DEF Next, Core1, Mount, InquiryComplete, Umount, InitDisk, ReadFsId, RootSector,
           RootEnd, NextDisk, CheckFails, CheckPasses, InitDiskEnds, vars, walk
<1> QED
  BY <1>0, <1>1, <1>2, FirstStep

\* Every entry lies on the stick, behind sector 0.
LEMMA EntryIs ==
    ASSUME Types, NEW s \in Sticks, NEW e \in Entries(s)
    PROVE  /\ e \in Entry /\ Lba(s, e.cluster) \in Nat \ {0}
           /\ e.file \in Disks \cup {CfgDisk} /\ e.cluster \in Nat /\ e.blocks \in Nat
           /\ \A f \in Entries(s) : f.file = e.file => f = e
<1>1. e \in Entry
  BY StickTypes DEF Entries
<1>2. e.cluster \in Nat /\ e.blocks \in Nat /\ e.file \in Disks \cup {CfgDisk}
  BY <1>1 DEF Entry
<1>3. Lba(s, e.cluster) \in Nat \ {0}
  BY <1>2, StickTypes, LbaTypes
<1> QED
  BY <1>1, <1>2, <1>3, FileSystemAssumption

\* A sector of the directory is listed in the catalog as it is.
LEMMA ListedIs ==
    ASSUME CatalogInv, First, pc = "root", NEW l, NEW file, NEW old
    PROVE  \/ /\ \E e \in EntriesAt(l) : e.file = file
              /\ l \in DOMAIN stick.dir
              /\ \A e \in Entries(stick) :
                    e.file = file => Listed(EntriesAt(l), file, old) = Found(e)
           \/ /\ ~ \E e \in EntriesAt(l) : e.file = file
              /\ Listed(EntriesAt(l), file, old) = old
<1>1. CASE \E e \in EntriesAt(l) : e.file = file
  <2>0. Types /\ PlugInv /\ ParamInv
    BY DEF CatalogInv
  <2>1. l \in DOMAIN stick.dir /\ EntriesAt(l) = stick.dir[l]
    BY <1>1 DEF EntriesAt
  <2>2. EntriesAt(l) \subseteq Entries(stick)
    BY <2>1 DEF Entries
  <2> DEFINE f == CHOOSE e \in EntriesAt(l) : e.file = file
  <2>3. f \in EntriesAt(l) /\ f.file = file
    BY <1>1
  <2>4. Listed(EntriesAt(l), file, old) = Located(f)
    BY <1>1 DEF Listed
  <2> HIDE DEF f
  <2>5. \A e \in Entries(stick) : e.file = file => e = f
    BY <2>0, <2>2, <2>3, Busy, EntryIs
  <2>6. Located(f) = Found(f)
    BY <2>0 DEF ParamInv, Located, Found, Lba
  <2>7. \A e \in Entries(stick) : e.file = file => Listed(EntriesAt(l), file, old) = Found(e)
    BY <2>4, <2>5, <2>6
  <2> QED
    BY <1>1, <2>1, <2>7
<1>2. CASE ~ \E e \in EntriesAt(l) : e.file = file
  BY <1>2 DEF Listed
<1> QED
  BY <1>1, <1>2

\* Every step keeps KnownInv: no address but from an entry.
LEMMA KnownStep == CatalogInv /\ [Next]_vars => KnownInv'
<1> SUFFICES ASSUME CatalogInv, [Next]_vars, First' PROVE KnownInv'
  BY DEF KnownInv
<1>0. Types /\ ServedInv /\ PlugInv /\ KnownInv /\ WalkInv
  BY DEF CatalogInv
<1>1. CASE Arrives
  BY <1>1 DEF Arrives, Empty, KnownInv, Nowhere
<1>2. CASE First /\ stick' = stick
  <2> DEFINE IsOf(d, place) == \E e \in Entries(stick) : e.file = d /\ place = Found(e)
             IsCfg(place) == \E e \in Entries(stick) :
                 e.file = CfgDisk /\ place \in {Found(e), [Found(e) EXCEPT !.cluster = 0]}
  <2>0. /\ \A d \in Disks : disk[d].lba # 0 => IsOf(d, disk[d])
        /\ cfg # Nowhere => IsCfg(cfg)
    BY <1>0, <1>2 DEF KnownInv
  <2>t. /\ n \in 0 .. NrDisks /\ NrDisks \in 1 .. 255 /\ CfgDisk \notin Disks
        /\ Disks = 0 .. NrDisks - 1 /\ disk \in [Disks -> Place] /\ cfg \in Place
    <3>1. disk \in [Disks -> Place] /\ cfg \in Place /\ n \in 0 .. NrDisks
      BY <1>0 DEF Types, WalkTypes, CatalogTypes
    <3> QED
      BY <3>1, Numbers DEF Disks, CfgDisk
  <2>f. \A e : Found(e)' = Found(e)
    BY <1>2 DEF Found
  <2>1. CASE RootSector /\ Readable
    <3> DEFINE l == Lba(fs, cluster) + at
    <3>1. /\ disk' = [d \in Disks |-> Listed(EntriesAt(l), d, disk[d])]
          /\ cfg' = Listed(EntriesAt(l), CfgDisk, cfg)
          /\ pc = "root" /\ pc' = pc /\ bitmap' = bitmap
      BY <2>1 DEF RootSector
    <3> HIDE DEF l
    <3>2. ASSUME NEW file, NEW old, file \in Disks => old = disk[file],
                 Listed(EntriesAt(l), file, old) # old
          PROVE  IsOf(file, Listed(EntriesAt(l), file, old))
      <4>1. /\ \E e \in EntriesAt(l) : e.file = file
            /\ l \in DOMAIN stick.dir
            /\ \A e \in Entries(stick) : e.file = file => Listed(EntriesAt(l), file, old) = Found(e)
        BY <1>2, <3>1, <3>2, ListedIs
      <4>2. PICK e \in EntriesAt(l) : e.file = file
        BY <4>1
      <4>3. e \in Entries(stick)
        BY <4>1, <4>2 DEF EntriesAt, Entries
      <4> QED
        BY <4>1, <4>2, <4>3
    <3>3. \A d \in Disks : disk'[d].lba # 0 => IsOf(d, disk'[d])
      <4> SUFFICES ASSUME NEW d \in Disks, disk'[d].lba # 0 PROVE IsOf(d, disk'[d])
        OBVIOUS
      <4>1. disk'[d] = Listed(EntriesAt(l), d, disk[d])
        BY <3>1
      <4>2. CASE disk'[d] = disk[d]
        BY <2>0, <4>2
      <4>3. CASE disk'[d] # disk[d]
        BY <3>2, <4>1, <4>3
      <4> QED
        BY <4>2, <4>3
    <3>4. cfg' # Nowhere => IsCfg(cfg')
      <4>1. CASE cfg' = cfg
        BY <2>0, <4>1
      <4>2. CASE cfg' # cfg
        BY <2>t, <3>1, <3>2, <4>2
      <4> QED
        BY <4>1, <4>2
    <3>5. CfgDisk \notin bitmap'
      BY <1>0, <3>1 DEF ServedInv
    <3> QED
      BY <1>2, <2>f, <3>1, <3>3, <3>4, <3>5 DEF KnownInv
  <2>2. CASE CheckFails
    <3> DEFINE gone == IF n < NrDisks THEN [disk[n] EXCEPT !.lba = 0, !.cluster = 0] ELSE disk[n]
    <3>1. CASE n < NrDisks
      <4>1. /\ disk' = [disk EXCEPT ![n] = [disk[n] EXCEPT !.lba = 0, !.cluster = 0]]
            /\ cfg' = cfg /\ bitmap' = bitmap /\ pc' = "next"
        BY <2>2, <3>1 DEF CheckFails, AfterCheck
      <4>2. n \in Disks /\ disk[n] \in Place
        BY <2>t, <3>1
      <4>3. disk'[n].lba = 0
        <5>1. [disk[n] EXCEPT !.lba = 0, !.cluster = 0].lba = 0
          BY <4>2 DEF Place
        <5> QED
          BY <2>t, <4>1, <4>2, <5>1
      <4>4. \A d \in Disks : disk'[d].lba # 0 => IsOf(d, disk'[d])
        <5> HIDE DEF IsOf
        <5> QED
          BY <2>0, <2>t, <4>1, <4>3
      <4>5. CfgDisk \in bitmap => cfg # Nowhere
        BY <1>0, <1>2 DEF KnownInv
      <4> QED
        BY <1>2, <2>0, <4>1, <4>4, <4>5, <2>f DEF KnownInv
    <3>2. CASE ~(n < NrDisks)
      <4>1. /\ cfg' = [cfg EXCEPT !.cluster = 0] /\ disk' = disk /\ bitmap' = bitmap
            /\ pc = "check" /\ pc' = "end" /\ n = NrDisks
        <5>1. n = NrDisks
          BY <2>t, <3>2
        <5> QED
          BY <2>2, <3>2, <5>1 DEF CheckFails, AfterCheck
      <4>2. IsCfg(cfg')
        <5>1. cfg # Nowhere
          BY <1>0, <1>2, <4>1 DEF WalkInv, Nowhere
        <5>2. PICK e \in Entries(stick) :
                  e.file = CfgDisk /\ cfg \in {Found(e), [Found(e) EXCEPT !.cluster = 0]}
          BY <2>0, <5>1
        <5>3. cfg' = [Found(e) EXCEPT !.cluster = 0]
          BY <4>1, <5>2 DEF Found
        <5> QED
          BY <5>2, <5>3
      <4>3. CfgDisk \notin bitmap
        BY <1>0, <2>t, <4>1 DEF ServedInv, CfgDisk
      <4>4. \A d \in Disks : disk[d].lba # 0 => d \in bitmap
        BY <1>0, <2>t, <4>1 DEF ServedInv
      <4> QED
        BY <1>2, <2>0, <2>f, <4>1, <4>2, <4>3, <4>4 DEF KnownInv
    <3> QED
      BY <3>1, <3>2
  <2>3. CASE UNCHANGED <<disk, cfg>>
    <3>1. CfgDisk \in bitmap' => cfg # Nowhere
      <4>1. CfgDisk \in bitmap => cfg # Nowhere
        BY <1>0, <1>2 DEF KnownInv
      <4>2. CASE bitmap' \subseteq bitmap
        BY <4>1, <4>2
      <4>3. CASE CheckPasses
        <5>1. pc = "check" /\ bitmap' = bitmap \cup {IF n < NrDisks THEN n ELSE CfgDisk}
          BY <4>3 DEF CheckPasses
        <5>2. n = NrDisks => cfg # Nowhere
          BY <1>0, <1>2, <5>1 DEF WalkInv, Nowhere
        <5> QED
          BY <2>t, <4>1, <5>1, <5>2
      <4> QED
        BY <4>2, <4>3
           DEF Next, Core1, Mount, InquiryComplete, Umount, InitDisk, ReadFsId, RootSector,
               RootNext, RootEnd, NextDisk, CheckCluster, CheckFails, InitDiskEnds, vars, catalog
    <3>2. pc' \in {"loop", "end"} => \A d \in Disks : disk[d].lba # 0 => d \in bitmap'
      <4> SUFFICES ASSUME pc' \in {"loop", "end"}, NEW d \in Disks, disk[d].lba # 0
                   PROVE  d \in bitmap'
        OBVIOUS
      <4>1. CASE pc \in {"loop", "end"} /\ bitmap' = bitmap
        BY <1>0, <1>2, <4>1 DEF KnownInv
      <4>2. CASE ReadFsId
        <5>1. Empty
          BY <1>0, <1>2, <4>2 DEF ReadFsId, PlugInv, Fresh
        <5> QED
          BY <5>1 DEF Empty, Nowhere
      <4>3. CASE NextDisk \/ CheckPasses
        <5>1. pc \in {"next", "check"} /\ n = NrDisks /\ bitmap \subseteq bitmap'
          BY <2>t, <4>3 DEF NextDisk, CheckPasses, AfterCheck, catalog
        <5> QED
          BY <1>0, <2>t, <5>1 DEF ServedInv
      <4>4. CASE CheckFails
        <5>1. pc = "check" /\ ~(n < NrDisks) /\ bitmap' = bitmap
          BY <4>4 DEF CheckFails, AfterCheck
        <5> QED
          BY <1>0, <2>t, <5>1 DEF ServedInv
      <4> QED
        BY <4>1, <4>2, <4>3, <4>4
           DEF Next, Core1, Mount, InquiryComplete, Umount, InitDisk, RootSector,
               RootNext, RootEnd, CheckCluster, InitDiskEnds, vars, usb, catalog, walk
    <3> QED
      BY <1>2, <2>0, <2>3, <3>1, <3>2, <2>f DEF KnownInv
  <2> QED
    BY <2>1, <2>2, <2>3
       DEF Next, Core1, Mount, InquiryComplete, Umount, InitDisk, ReadFsId, RootSector,
           RootNext, RootEnd, NextDisk, CheckCluster, CheckPasses, InitDiskEnds, vars, catalog
<1> QED
  BY <1>0, <1>1, <1>2, FirstStep

\* Every step keeps RootInv: read_file passes over no sector of the directory.
LEMMA RootStep == CatalogInv /\ [Next]_vars => RootInv'
<1> SUFFICES ASSUME CatalogInv, [Next]_vars, First', pc' = "root", NEW l \in DOMAIN stick'.dir
             PROVE  Ahead(l)' \/ \A e \in stick'.dir[l] : Recorded(e)'
  BY DEF RootInv
<1>0. Types /\ PlugInv /\ ParamInv /\ CacheInv /\ RootInv
  BY DEF CatalogInv
<1>1. First /\ stick' = stick /\ stick \in Sticks /\ l \in DOMAIN stick.dir
  BY <1>0, FirstStep, Busy DEF Arrives
<1>2. CASE ReadFsId
  <2>1. PICK k \in 0 .. Eoc, i \in 0 .. stick.spc - 1 :
            HasCluster(stick, stick.root, k) /\ l = Lba(stick, Chain(stick, stick.root, k)[k]) + i
    BY <1>1, FileSystemAssumption
  <2>2. cluster' = stick.root /\ at' = 0
    BY <1>2 DEF ReadFsId
  <2> DEFINE q == Chain(stick, stick.root, k)
  <2>3. q[0] = stick.root /\ \A j \in 1 .. k : q[j] = stick.fat[q[j - 1]]
    BY ChainIs
  <2>4. \A j \in 0 .. k : InChain(q[j])
    BY <2>1 DEF HasCluster
  <2> HIDE DEF q
  <2>5. \A j \in 0 .. k - 1 : q[j + 1] = stick.fat[q[j]]
    <3> SUFFICES ASSUME NEW j \in 0 .. k - 1 PROVE q[j + 1] = stick.fat[q[j]]
      OBVIOUS
    <3>1. j + 1 \in 1 .. k /\ (j + 1) - 1 = j
      OBVIOUS
    <3> QED
      BY <2>3, <3>1
  <2>6. l = Lba(stick, q[k]) + i
    BY <2>1 DEF q
  <2>7. i >= 0
    BY <1>1, StickTypes
  <2> QED
    BY <1>1, <2>2, <2>3, <2>4, <2>5, <2>6, <2>7 DEF Ahead
<1>3. CASE UNCHANGED <<pc, catalog, walk>>
  BY <1>0, <1>1, <1>3 DEF RootInv, Ahead, Recorded, Found, catalog, walk
<1>4. CASE RootSector
  <2> DEFINE here == Lba(fs, cluster) + at
  <2>0. pc = "root" /\ Readable
    BY <1>0, <1>1, <1>4, Busy DEF RootSector
  <2>1. /\ disk' = [d \in Disks |-> Listed(EntriesAt(here), d, disk[d])]
        /\ cfg' = Listed(EntriesAt(here), CfgDisk, cfg)
        /\ cluster' = cluster /\ at' = at + 1
    BY <1>4, <2>0 DEF RootSector
  <2>2. here = Lba(stick, cluster) + at
    BY <1>0, <1>1, <2>0 DEF ParamInv, Lba
  <2> HIDE DEF here
  <2>3. \A e : Found(e)' = Found(e)
    BY <1>1 DEF Found
  <2>4. CASE \A e \in stick.dir[l] : Recorded(e)
    <3> SUFFICES ASSUME NEW e \in stick.dir[l] PROVE Recorded(e)'
      BY <1>1
    <3>1. e \in Entries(stick)
      BY <1>1 DEF Entries
    <3>2. e.file \in Disks \cup {CfgDisk}
      BY <1>0, <1>1, <3>1, EntryIs
    <3>3. \A old : old = Found(e) => Listed(EntriesAt(here), e.file, old) = Found(e)
      BY <1>1, <2>0, <3>1, ListedIs
    <3>4. IF e.file = CfgDisk THEN cfg = Found(e) ELSE disk[e.file] = Found(e)
      BY <2>4 DEF Recorded
    <3> QED
      BY <2>1, <2>3, <3>2, <3>3, <3>4 DEF Recorded
  <2>5. CASE l = here
    <3> SUFFICES ASSUME NEW e \in stick.dir[l] PROVE Recorded(e)'
      BY <1>1
    <3>1. e \in Entries(stick) /\ e \in EntriesAt(here)
      BY <1>1, <2>5 DEF Entries, EntriesAt
    <3>2. e.file \in Disks \cup {CfgDisk}
      BY <1>0, <1>1, <3>1, EntryIs
    <3>3. \A old : Listed(EntriesAt(here), e.file, old) = Found(e)
      BY <1>1, <2>0, <3>1, ListedIs
    <3> QED
      BY <2>1, <2>3, <3>2, <3>3 DEF Recorded
  <2>6. CASE l # here /\ Ahead(l)
    <3>1. PICK k \in 0 .. Eoc, i \in 0 .. stick.spc - 1 : \E q :
              /\ q[0] = cluster
              /\ \A j \in 0 .. k : InChain(q[j])
              /\ \A j \in 0 .. k - 1 : q[j + 1] = stick.fat[q[j]]
              /\ l = Lba(stick, q[k]) + i
              /\ k = 0 => i >= at
      BY <2>6 DEF Ahead
    <3>2. PICK q :
              /\ q[0] = cluster
              /\ \A j \in 0 .. k : InChain(q[j])
              /\ \A j \in 0 .. k - 1 : q[j + 1] = stick.fat[q[j]]
              /\ l = Lba(stick, q[k]) + i
              /\ k = 0 => i >= at
      BY <3>1
    <3>3. k = 0 => i # at
      BY <2>2, <2>6, <3>2
    <3>4. k = 0 => i >= at + 1
      BY <1>0, <1>1, <3>2, <3>3, StickTypes DEF Types, WalkTypes
    <3> QED
      BY <1>1, <2>1, <3>2, <3>4 DEF Ahead
  <2> QED
    BY <1>0, <1>1, <2>0, <2>4, <2>5, <2>6 DEF RootInv
<1>5. CASE RootNext
  <2>0. /\ pc = "root" /\ at' = 0 /\ UNCHANGED catalog
        /\ Follow(cluster) /\ InChain(cluster) /\ at = fs.spc
    BY <1>5 DEF RootNext
  <2>1. cluster' = stick.fat[cluster]
    BY <1>0, <1>1, <2>0, FollowsFat
  <2>2. at = stick.spc /\ stick.spc \in Nat
    BY <1>0, <1>1, <2>0, StickTypes DEF ParamInv
  <2>3. CASE \A e \in stick.dir[l] : Recorded(e)
    BY <1>1, <2>0, <2>3 DEF Recorded, Found, catalog
  <2>4. CASE Ahead(l)
    <3>1. PICK k \in 0 .. Eoc, i \in 0 .. stick.spc - 1 : \E q :
              /\ q[0] = cluster
              /\ \A j \in 0 .. k : InChain(q[j])
              /\ \A j \in 0 .. k - 1 : q[j + 1] = stick.fat[q[j]]
              /\ l = Lba(stick, q[k]) + i
              /\ k = 0 => i >= at
      BY <2>4 DEF Ahead
    <3>2. PICK q :
              /\ q[0] = cluster
              /\ \A j \in 0 .. k : InChain(q[j])
              /\ \A j \in 0 .. k - 1 : q[j + 1] = stick.fat[q[j]]
              /\ l = Lba(stick, q[k]) + i
              /\ k = 0 => i >= at
      BY <3>1
    <3>3. k # 0
      BY <2>2, <3>2
    <3>4. k - 1 \in 0 .. Eoc /\ k \in Nat
      BY <3>3, Numbers
    <3> DEFINE r == [j \in 0 .. k - 1 |-> q[j + 1]]
    <3>5. r[0] = cluster'
      BY <2>1, <3>2, <3>4
    <3>6. \A j \in 0 .. k - 1 : r[j] = q[j + 1] /\ j + 1 \in 0 .. k
      BY <3>4
    <3>7. r[k - 1] = q[k]
      BY <3>4
    <3> HIDE DEF r
    <3>8. \A j \in 0 .. k - 1 : InChain(r[j])
      BY <3>2, <3>6
    <3>9. \A j \in 0 .. (k - 1) - 1 : r[j + 1] = stick.fat[r[j]]
      <4> SUFFICES ASSUME NEW j \in 0 .. (k - 1) - 1 PROVE r[j + 1] = stick.fat[r[j]]
        OBVIOUS
      <4>1. j \in 0 .. k - 1 /\ j + 1 \in 0 .. k - 1
        BY <3>4
      <4> QED
        BY <3>2, <3>6, <4>1
    <3>10. l = Lba(stick, r[k - 1]) + i /\ i >= 0
      BY <2>2, <3>2, <3>7
    <3> QED
      BY <1>1, <2>0, <3>4, <3>5, <3>8, <3>9, <3>10 DEF Ahead
  <2> QED
    BY <1>0, <1>1, <2>0, <2>3, <2>4 DEF RootInv
<1> QED
  BY <1>2, <1>3, <1>4, <1>5
     DEF Next, Core1, Mount, InquiryComplete, Umount, InitDisk, RootEnd, NextDisk,
         CheckCluster, CheckFails, CheckPasses, AfterCheck, InitDiskEnds, vars, usb

\* The cluster behind p is the one that lies behind it.
LEMMA NextLba ==
    ASSUME NEW s \in Sticks, NEW p \in Nat, NEW c \in Nat
    PROVE  Lba(s, p) + s.spc = Lba(s, c) <=> c = p + 1
<1>1. s.spc \in Nat \ {0} /\ s.data \in Nat
  BY StickTypes
<1>2. \A a \in Nat \ {0}, x, y \in Int : a * x + a = a * y <=> y = x + 1
  <2> SUFFICES ASSUME NEW a \in Nat \ {0}, NEW x \in Int, NEW y \in Int
               PROVE  a * x + a = a * y <=> y = x + 1
    OBVIOUS
  <2>1. a * x + a = a * (x + 1)
    OBVIOUS
  <2>2. a * (x + 1) = a * y <=> y = x + 1
    OBVIOUS
  <2> QED
    BY <2>1, <2>2
<1>3. PICK a \in Nat \ {0}, x \in Int, y \in Int : a = s.spc /\ x = p - 2 /\ y = c - 2
  BY <1>1
<1>4. PICK b \in Nat : b = s.data
  BY <1>1
<1>5. Lba(s, p) = b + a * x /\ Lba(s, c) = b + a * y
  BY <1>3, <1>4 DEF Lba
<1>6. PICK v \in Int, w \in Int : v = a * x /\ w = a * y
  OBVIOUS
<1>7. (b + v) + a = b + w <=> v + a = w
  OBVIOUS
<1>8. Lba(s, p) + s.spc = Lba(s, c) <=> a * x + a = a * y
  BY <1>3, <1>5, <1>6, <1>7
<1>9. a * x + a = a * y <=> y = x + 1
  BY <1>2
<1>10. y = x + 1 <=> c = p + 1
  BY <1>3
<1> QED
  BY <1>8, <1>9, <1>10

\* Every step keeps WalkInv: file_has_gaps goes on only where there is no gap.
LEMMA WalkStep == CatalogInv /\ [Next]_vars => WalkInv'
<1> SUFFICES ASSUME CatalogInv, [Next]_vars, First', pc' = "check" PROVE WalkInv'
  BY DEF WalkInv
<1>0. Types /\ PlugInv /\ ParamInv /\ CacheInv /\ WalkInv
  BY DEF CatalogInv
<1>1. First /\ stick' = stick /\ stick \in Sticks
  BY <1>0, FirstStep, Busy DEF Arrives
<1>2. CASE UNCHANGED <<pc, catalog, walk>>
  BY <1>0, <1>1, <1>2 DEF WalkInv, Walked, FirstOf, catalog, walk
<1>3. CASE NextDisk
  <2>1. /\ lastLba' = 0 /\ UNCHANGED catalog /\ n' = n
        /\ \/ n < NrDisks /\ cluster' = disk[n].cluster
           \/ n = NrDisks /\ cfg.cluster # 0 /\ cluster' = cfg.cluster
    BY <1>3 DEF NextDisk
  <2>2. n = NrDisks => ~(n < NrDisks)
    BY Numbers
  <2> QED
    BY <1>1, <2>1, <2>2 DEF WalkInv, FirstOf, catalog
<1>4. CASE CheckCluster
  <2>0. /\ pc = "check" /\ UNCHANGED catalog /\ n' = n
        /\ InChain(cluster) /\ Follow(cluster) /\ ~IsGap
        /\ lastLba' = Lba(fs, cluster) + fs.spc - 1
    BY <1>4 DEF CheckCluster
  <2>1. cluster' = stick.fat[cluster]
    BY <1>0, <1>1, <2>0, FollowsFat
  <2>2. \A c : Lba(fs, c) = Lba(stick, c) /\ fs.spc = stick.spc
    BY <1>0, <1>1, <2>0 DEF ParamInv, Lba
  <2>3. FirstOf' = FirstOf /\ cluster \in Nat /\ lastLba \in Nat
    BY <1>0, <2>0 DEF FirstOf, catalog, Types, WalkTypes
  <2> PICK here \in Nat : here = cluster
    BY <2>3
  <2>4. Walked(here)'
    <3>1. CASE lastLba = 0 /\ cluster = FirstOf
      <4>1. \A c \in FirstOf .. cluster - 1 : stick.fat[c] = c + 1
        BY <2>3, <3>1
      <4> QED
        BY <1>1, <2>0, <2>1, <2>2, <2>3, <3>1, <4>1 DEF Walked, InChain
    <3>2. ASSUME NEW p \in Nat, Walked(p) PROVE Walked(here)'
      <4>1. Lba(stick, p) \in Nat \ {0} /\ stick.spc \in Nat \ {0}
        BY <1>1, StickTypes, LbaTypes
      <4>2. lastLba = Lba(stick, p) + stick.spc - 1 /\ lastLba # 0
        BY <3>2, <4>1 DEF Walked
      <4>3. lastLba + 1 = Lba(stick, cluster)
        BY <2>0, <2>2, <4>2 DEF IsGap
      <4>4. cluster = p + 1
        BY <1>1, <2>3, <4>1, <4>2, <4>3, NextLba
      <4>5. FirstOf \in Nat
        BY <3>2, <1>0, Numbers DEF FirstOf, Types, WalkTypes, CatalogTypes, Place, Disks
      <4>6. \A c \in FirstOf .. cluster - 1 : stick.fat[c] = c + 1
        <5> SUFFICES ASSUME NEW c \in FirstOf .. cluster - 1 PROVE stick.fat[c] = c + 1
          OBVIOUS
        <5>1. c = p \/ c \in FirstOf .. p - 1
          BY <4>4, <4>5
        <5> QED
          BY <3>2, <4>4, <5>1 DEF Walked
      <4>7. cluster >= FirstOf /\ InChain(FirstOf)
        BY <3>2, <4>4, <4>5 DEF Walked
      <4> QED
        BY <1>1, <2>0, <2>1, <2>2, <2>3, <4>6, <4>7 DEF Walked, InChain
    <3> QED
      BY <1>0, <1>1, <2>0, <3>1, <3>2 DEF WalkInv
  <2> QED
    BY <1>0, <1>1, <2>0, <2>3, <2>4 DEF WalkInv, catalog
<1> QED
  BY <1>2, <1>3, <1>4
     DEF Next, Core1, Mount, InquiryComplete, Umount, InitDisk, ReadFsId, RootSector, RootNext,
         RootEnd, CheckFails, CheckPasses, AfterCheck, InitDiskEnds, vars, usb

\* A walk that comes to the end of the chain has shown that it is unbroken, and one
\* that stops at a gap that it is not.
LEMMA WalkShows ==
    ASSUME CatalogInv, First, pc = "check"
    PROVE  /\ ~InChain(cluster) => Unbroken(stick, FirstOf)
           /\ InChain(cluster) /\ IsGap => ~Unbroken(stick, FirstOf)
<1>0. Types /\ PlugInv /\ ParamInv /\ WalkInv
  BY DEF CatalogInv
<1>1. stick \in Sticks
  BY <1>0, Busy
<1>2. FirstOf \in Nat /\ cluster \in Nat /\ Eoc \in Nat
  BY <1>0, Numbers DEF FirstOf, Types, WalkTypes, CatalogTypes, Place, Disks
<1>3. CASE lastLba = 0 /\ cluster = FirstOf
  BY <1>3 DEF IsGap, Unbroken
<1>4. ASSUME NEW p \in Nat, Walked(p)
      PROVE  /\ ~InChain(cluster) => Unbroken(stick, FirstOf)
             /\ InChain(cluster) /\ IsGap => ~Unbroken(stick, FirstOf)
  <2>0. /\ p >= FirstOf /\ InChain(p) /\ InChain(FirstOf) /\ cluster = stick.fat[p]
        /\ lastLba = Lba(stick, p) + stick.spc - 1
        /\ \A c \in FirstOf .. p - 1 : stick.fat[c] = c + 1
    BY <1>4 DEF Walked
  <2>1. p \in DOMAIN stick.fat
    <3>1. p \in 0 .. Eoc - 1
      BY <1>2, <2>0 DEF InChain
    <3>2. /\ p % FatEntries \in 0 .. FatEntries - 1
          /\ p = (p \div FatEntries) * FatEntries + (p % FatEntries)
      BY EntryTypes
    <3>3. (p \div FatEntries) * FatEntries + (p % FatEntries) \in DOMAIN stick.fat
      BY <1>1, <3>1, <3>2, StickTypes
    <3> QED
      BY <3>2, <3>3
  <2>2. ~InChain(cluster) => Unbroken(stick, FirstOf)
    BY <2>0, <2>1 DEF Unbroken
  <2>3. ASSUME InChain(cluster), IsGap, Unbroken(stick, FirstOf) PROVE FALSE
    <3>1. PICK last \in DOMAIN stick.fat :
              /\ FirstOf <= last
              /\ \A c \in FirstOf .. last - 1 : stick.fat[c] = c + 1
              /\ ~InChain(stick.fat[last])
      BY <2>0, <2>3 DEF Unbroken
    <3>2. last \in Nat
      BY <1>1, StickTypes
    <3>3. cluster # p + 1
      <4>1. Lba(fs, cluster) = Lba(stick, cluster)
        BY <1>0 DEF ParamInv, Lba
      <4>2. Lba(stick, p) \in Nat /\ stick.spc \in Nat
        BY <1>1, StickTypes, LbaTypes
      <4> QED
        BY <1>1, <1>2, <2>0, <2>3, <4>1, <4>2, NextLba DEF IsGap
    <3>4. CASE last > p
      BY <1>2, <2>0, <3>1, <3>2, <3>3, <3>4
    <3>5. CASE last = p
      BY <2>0, <2>3, <3>1, <3>5
    <3>6. CASE last < p
      BY <1>2, <2>0, <3>1, <3>2, <3>6 DEF InChain
    <3> QED
      BY <3>2, <3>4, <3>5, <3>6
  <2> QED
    BY <2>2, <2>3
<1> QED
  BY <1>0, <1>3, <1>4 DEF WalkInv

\* Every step keeps ResultInv: each disk gets the bit that its chain asks for.
LEMMA ResultStep == CatalogInv /\ [Next]_vars => ResultInv'
<1> SUFFICES ASSUME CatalogInv, [Next]_vars, First', NEW e \in Entries(stick')
             PROVE  /\ pc' \in {"next", "check"} =>
                          IF e.file < n' THEN Checked(e)' ELSE Recorded(e)'
                    /\ pc' = "end" \/ (pc' = "loop" /\ Settled') =>
                          IF stick'.ok THEN Checked(e)' ELSE bitmap' = {}
  BY DEF ResultInv
<1> DEFINE Goal == /\ pc' \in {"next", "check"} =>
                          IF e.file < n' THEN Checked(e)' ELSE Recorded(e)'
                   /\ pc' = "end" \/ (pc' = "loop" /\ Settled') =>
                          IF stick'.ok THEN Checked(e)' ELSE bitmap' = {}
<1>0. Types /\ ServedInv /\ PlugInv /\ ParamInv /\ RootInv /\ WalkInv /\ ResultInv
  BY DEF CatalogInv
<1>1. CASE Arrives
  BY <1>1 DEF Arrives, Settled
<1>2. CASE First /\ stick' = stick
  <2>1. stick \in Sticks /\ (pc # "loop" => Readable) /\ e \in Entries(stick)
    BY <1>0, <1>2, Busy
  <2>2. /\ NrDisks \in 1 .. 255 /\ Disks = 0 .. NrDisks - 1 /\ CfgDisk = 255
        /\ n \in 0 .. NrDisks
    BY <1>0, Numbers DEF Disks, CfgDisk, Types, WalkTypes
  <2>3. e.file \in Disks \cup {CfgDisk} /\ e.file \in Nat /\ e.cluster \in Nat
    BY <1>0, <2>1, <2>2, EntryIs
  <2>4. Lba(stick, e.cluster) \in Nat \ {0}
    BY <1>0, <2>1, EntryIs
  <2>5. /\ Found(e)' = Found(e) /\ Unbroken(stick, e.cluster)' = Unbroken(stick, e.cluster)
        /\ Found(e).cluster = e.cluster /\ Found(e).lba # 0
    BY <1>2, <2>4 DEF Found
  <2>6. /\ pc \in {"next", "check"} => IF e.file < n THEN Checked(e) ELSE Recorded(e)
        /\ pc = "end" \/ (pc = "loop" /\ Settled) => IF stick.ok THEN Checked(e) ELSE bitmap = {}
    BY <1>0, <1>2, <2>1 DEF ResultInv
  <2>7. /\ UNCHANGED bitmap => (Checked(e)' <=> Checked(e))
        /\ UNCHANGED <<disk, cfg>> => (Recorded(e)' <=> Recorded(e))
    BY <2>5 DEF Checked, Recorded
  <2>8. pc \in {"next", "check"} => stick.ok
    BY <1>0, <1>2 DEF ParamInv
  <2>10. CASE Mount \/ InquiryComplete \/ Umount \/ UNCHANGED vars
    <3>1. /\ UNCHANGED <<pc, bitmap, disk, cfg, n>>
          /\ Settled' => Settled
      BY <1>2, <2>10
         DEF Mount, InquiryComplete, Umount, vars, usb, catalog, walk, First, Settled
    <3> QED
      BY <1>2, <2>6, <2>7, <3>1
  <2>11. CASE InitDisk \/ RootSector \/ RootNext
    BY <2>11 DEF InitDisk, RootSector, RootNext
  <2>12. CASE ReadFsId
    BY <1>0, <1>2, <2>1, <2>12 DEF ReadFsId, ServedInv, catalog
  <2>13. CASE RootEnd
    <3>1. pc = "root" /\ ~InChain(cluster) /\ pc' = "next" /\ n' = 0 /\ UNCHANGED <<disk, cfg>>
      BY <2>13 DEF RootEnd, catalog
    <3>2. PICK l \in DOMAIN stick.dir : e \in stick.dir[l]
      BY <2>1 DEF Entries
    <3>3. ~Ahead(l)
      BY <2>2, <3>1, Numbers DEF Ahead
    <3>4. Recorded(e)
      BY <1>0, <1>2, <3>1, <3>2, <3>3 DEF RootInv
    <3>5. ~(e.file < n')
      BY <2>3, <3>1
    <3> QED
      BY <2>7, <3>1, <3>4, <3>5
  <2>14. CASE NextDisk
    <3>1. pc = "next" /\ UNCHANGED <<bitmap, disk, cfg>>
      BY <2>14 DEF NextDisk, catalog
    <3>2. CASE n' = n /\ pc' = "check"
      BY <2>6, <2>7, <3>1, <3>2
    <3>3. CASE n < NrDisks /\ disk[n].lba = 0 /\ n' = n + 1 /\ pc' = pc
      <4>1. e.file # n
        BY <2>2, <2>5, <2>6, <3>1, <3>3 DEF Recorded
      <4>2. e.file < n' <=> e.file < n
        BY <2>2, <2>3, <3>3, <4>1
      <4> QED
        BY <2>6, <2>7, <3>1, <3>3, <4>2
    <3>4. CASE n = NrDisks /\ cfg.cluster = 0 /\ pc' = "end"
      <4>1. CASE e.file < n
        BY <1>2, <2>6, <2>7, <2>8, <3>1, <3>4, <4>1
      <4>2. CASE ~(e.file < n)
        <5>1. e.file = CfgDisk
          BY <2>2, <2>3, <3>4, <4>2
        <5>2. e.cluster = 0
          BY <2>5, <2>6, <3>1, <3>4, <4>2, <5>1 DEF Recorded
        <5>3. CfgDisk \notin bitmap
          BY <1>0, <2>2, <3>1 DEF ServedInv
        <5>4. Checked(e)
          BY <5>1, <5>2, <5>3 DEF Checked
        <5> QED
          BY <1>2, <2>7, <2>8, <3>1, <3>4, <5>4
      <4> QED
        BY <4>1, <4>2
    <3> QED
      BY <2>14, <3>2, <3>3, <3>4 DEF NextDisk
  <2>15. CASE CheckCluster
    <3>1. pc = "check" /\ pc' = pc /\ n' = n /\ UNCHANGED <<bitmap, disk, cfg>>
      BY <2>15 DEF CheckCluster, catalog
    <3> QED
      BY <2>6, <2>7, <3>1
  <2>16. CASE CheckFails
    <3>0. pc = "check" /\ InChain(cluster) /\ IsGap /\ bitmap' = bitmap
      BY <2>16 DEF CheckFails
    <3>1. ~Unbroken(stick, FirstOf)
      BY <1>2, <3>0, WalkShows
    <3>2. CASE n < NrDisks
      <4>1. /\ pc' = "next" /\ n' = n + 1 /\ cfg' = cfg
            /\ disk' = [disk EXCEPT ![n] = [disk[n] EXCEPT !.lba = 0, !.cluster = 0]]
        BY <2>16, <3>2 DEF CheckFails, AfterCheck
      <4>2. CASE e.file < n
        <5>1. e.file < n'
          BY <2>2, <2>3, <4>1, <4>2
        <5> QED
          BY <2>6, <2>7, <3>0, <4>1, <4>2, <5>1
      <4>3. CASE e.file = n
        <5>1. Recorded(e)
          BY <2>2, <2>6, <3>0, <4>3
        <5>2. FirstOf = e.cluster
          BY <2>2, <2>5, <3>2, <4>3, <5>1 DEF Recorded, FirstOf
        <5>3. n \notin bitmap
          BY <1>0, <2>2, <3>0 DEF ServedInv
        <5>4. Checked(e)
          BY <3>1, <4>3, <5>2, <5>3 DEF Checked
        <5>5. e.file < n'
          BY <2>2, <4>1, <4>3
        <5> QED
          BY <2>7, <3>0, <4>1, <5>4, <5>5
      <4>4. CASE e.file > n
        <5>1. Recorded(e) /\ ~(e.file < n')
          BY <2>2, <2>3, <2>6, <3>0, <4>1, <4>4
        <5>2. e.file # CfgDisk => disk'[e.file] = disk[e.file]
          <6>1. disk \in [Disks -> Place]
            BY <1>0 DEF Types, CatalogTypes
          <6> QED
            BY <2>2, <2>3, <4>1, <4>4, <6>1
        <5>3. Recorded(e)'
          BY <2>5, <4>1, <5>1, <5>2 DEF Recorded
        <5> QED
          BY <4>1, <5>1, <5>3
      <4> QED
        BY <2>2, <2>3, <4>2, <4>3, <4>4
    <3>3. CASE ~(n < NrDisks)
      <4>0. n = NrDisks
        BY <2>2, <3>3
      <4>1. pc' = "end"
        BY <2>16, <3>3 DEF CheckFails, AfterCheck
      <4>2. CASE e.file < n
        BY <1>2, <2>6, <2>7, <2>8, <3>0, <4>1, <4>2
      <4>3. CASE ~(e.file < n)
        <5>1. e.file = CfgDisk /\ cfg = Found(e)
          BY <2>2, <2>3, <2>6, <3>0, <4>0, <4>3 DEF Recorded
        <5>2. FirstOf = e.cluster
          BY <2>5, <3>3, <5>1 DEF FirstOf
        <5>3. CfgDisk \notin bitmap
          BY <1>0, <2>2, <3>0 DEF ServedInv
        <5>4. Checked(e)
          BY <3>1, <5>1, <5>2, <5>3 DEF Checked
        <5> QED
          BY <1>2, <2>7, <2>8, <3>0, <4>1, <5>4
      <4> QED
        BY <4>2, <4>3
    <3> QED
      BY <3>2, <3>3
  <2>17. CASE CheckPasses
    <3>0. /\ pc = "check" /\ ~InChain(cluster) /\ UNCHANGED <<disk, cfg>>
          /\ bitmap' = bitmap \cup {IF n < NrDisks THEN n ELSE CfgDisk}
      BY <2>17 DEF CheckPasses
    <3>1. Unbroken(stick, FirstOf)
      BY <1>2, <3>0, WalkShows
    <3>2. CASE n < NrDisks
      <4>1. pc' = "next" /\ n' = n + 1 /\ bitmap' = bitmap \cup {n}
        BY <2>17, <3>0, <3>2 DEF CheckPasses, AfterCheck
      <4>2. CASE e.file < n
        <5>1. e.file < n' /\ e.file # n
          BY <2>2, <2>3, <4>1, <4>2
        <5>2. Checked(e)'
          BY <2>5, <2>6, <3>0, <4>1, <4>2, <5>1 DEF Checked
        <5> QED
          BY <4>1, <5>1, <5>2
      <4>3. CASE e.file = n
        <5>1. Recorded(e)
          BY <2>2, <2>6, <3>0, <4>3
        <5>2. FirstOf = e.cluster
          BY <2>2, <2>5, <3>2, <4>3, <5>1 DEF Recorded, FirstOf
        <5>3. e.file # CfgDisk
          BY <2>2, <3>2, <4>3
        <5>4. Checked(e)'
          BY <2>5, <3>1, <4>1, <4>3, <5>2, <5>3 DEF Checked
        <5>5. e.file < n'
          BY <2>2, <4>1, <4>3
        <5> QED
          BY <4>1, <5>4, <5>5
      <4>4. CASE e.file > n
        <5>1. Recorded(e) /\ ~(e.file < n')
          BY <2>2, <2>3, <2>6, <3>0, <4>1, <4>4
        <5> QED
          BY <2>7, <3>0, <4>1, <5>1
      <4> QED
        BY <2>2, <2>3, <4>2, <4>3, <4>4
    <3>3. CASE ~(n < NrDisks)
      <4>0. n = NrDisks
        BY <2>2, <3>3
      <4>1. pc' = "end" /\ bitmap' = bitmap \cup {CfgDisk}
        BY <2>17, <3>0, <3>3 DEF CheckPasses, AfterCheck
      <4>2. CASE e.file < n
        <5>1. e.file # CfgDisk
          BY <2>2, <4>2
        <5>2. Checked(e)'
          BY <2>5, <2>6, <3>0, <4>1, <4>2, <5>1 DEF Checked
        <5> QED
          BY <1>2, <2>8, <3>0, <4>1, <5>2
      <4>3. CASE ~(e.file < n)
        <5>1. e.file = CfgDisk /\ cfg = Found(e)
          BY <2>2, <2>3, <2>6, <3>0, <4>0, <4>3 DEF Recorded
        <5>2. FirstOf = e.cluster
          BY <2>5, <3>3, <5>1 DEF FirstOf
        <5>3. e.cluster # 0
          BY <1>0, <1>2, <2>5, <3>0, <4>0, <5>1 DEF WalkInv
        <5>4. Checked(e)'
          BY <2>5, <3>1, <4>1, <5>1, <5>2, <5>3 DEF Checked
        <5> QED
          BY <1>2, <2>8, <3>0, <4>1, <5>4
      <4> QED
        BY <4>2, <4>3
    <3> QED
      BY <3>2, <3>3
  <2>18. CASE InitDiskEnds
    <3>1. pc = "end" /\ pc' = "loop" /\ bitmap' = bitmap
      BY <2>18 DEF InitDiskEnds, catalog
    <3> QED
      BY <1>2, <2>6, <2>7, <3>1
  <2> QED
    BY <2>10, <2>11, <2>12, <2>13, <2>14, <2>15, <2>16, <2>17, <2>18 DEF Next, Core1
<1> QED
  BY <1>0, <1>1, <1>2, FirstStep

\* CatalogInv holds in every state.
LEMMA CatalogHolds == Spec => []CatalogInv
<1>1. Init => CatalogInv
  <2>1. Init => Types
    BY Numbers
       DEF Init, Types, UsbTypes, CatalogTypes, CacheTypes, FsTypes, WalkTypes, Place, Nowhere,
           NoFs, Unread
  <2>2. Init => ~First /\ ServedInv /\ PlugInv
    BY DEF Init, First, ServedInv, PlugInv, Fresh, Empty
  <2>3. ~First => ParamInv /\ CacheInv /\ KnownInv /\ RootInv /\ WalkInv /\ ResultInv
    BY DEF ParamInv, CacheInv, KnownInv, RootInv, WalkInv, ResultInv
  <2> QED
    BY <2>1, <2>2, <2>3 DEF CatalogInv
<1>2. CatalogInv /\ [Next]_vars => CatalogInv'
  <2>1. CatalogInv => Types /\ ServedInv /\ PlugInv
    BY DEF CatalogInv
  <2> QED
    BY <2>1, TypesStep, ServedStep, PlugStep, ParamStep, CacheStep, KnownStep, RootStep, WalkStep,
       ResultStep DEF CatalogInv
<1> QED
  BY <1>1, <1>2, PTL DEF Spec

\* The drives that are announced for the first stick are the files without gaps, all
\* of them and no other: whatever the FAT and the directory, and however the inquiry
\* and a removal fall between the sectors that init_disk reads.
THEOREM UnbrokenFilesAreDrives == Spec => []DrivesAreUnbrokenFiles
<1>1. CatalogInv => DrivesAreUnbrokenFiles
  <2> SUFFICES ASSUME CatalogInv, Settled
               PROVE  Drives = IF ~stick.ok THEN {}
                               ELSE {e.file : e \in {x \in Entries(stick) :
                                        /\ Unbroken(stick, x.cluster)
                                        /\ x.file = CfgDisk => x.cluster # 0}}
    BY DEF DrivesAreUnbrokenFiles
  <2>0. Types /\ ServedInv /\ PlugInv /\ KnownInv /\ ResultInv
    BY DEF CatalogInv
  <2>1. First /\ pc = "loop" /\ Drives = bitmap
    BY <2>0 DEF Settled, First, PlugInv, Drives
  <2>2. \A d \in bitmap : \E e \in Entries(stick) : e.file = d
    <3> SUFFICES ASSUME NEW d \in bitmap PROVE \E e \in Entries(stick) : e.file = d
      OBVIOUS
    <3>1. d \in Disks \/ d = CfgDisk
      BY <2>0 DEF Types, CatalogTypes
    <3>2. d \in Disks => disk[d].lba # 0
      BY <2>0, <2>1 DEF ServedInv
    <3> QED
      BY <2>0, <2>1, <3>1, <3>2 DEF KnownInv
  <2>3. \A e \in Entries(stick) : IF stick.ok THEN Checked(e) ELSE bitmap = {}
    BY <2>0, <2>1 DEF ResultInv
  <2> QED
    BY <2>1, <2>2, <2>3 DEF Checked
<1> QED
  BY <1>1, CatalogHolds, PTL

\* A chain without a gap, as far as it is followed
LEMMA StraightChain ==
    ASSUME NEW s, NEW first \in Nat, NEW k \in Nat,
           \A c \in 1 .. k : Chain(s, first, k)[c] = Chain(s, first, k)[c - 1] + 1
    PROVE  Chain(s, first, k)[k] = first + k
<1> DEFINE q == Chain(s, first, k)
           T == {m \in 0 .. k : q[m] # first + m}
<1>1. q[0] = first /\ \A c \in 1 .. k : q[c] = q[c - 1] + 1
  BY ChainIs
<1> HIDE DEF q
<1>2. T = {}
  <2> SUFFICES ASSUME T # {} PROVE FALSE
    OBVIOUS
  <2>1. T \subseteq Nat
    OBVIOUS
  <2>2. PICK m \in T : \A y \in T : m <= y
    <3> HIDE DEF T
    <3> QED
      BY <2>1, LeastNumber
  <2>3. m # 0
    BY <1>1, <2>2
  <2>4. m - 1 \in 0 .. k /\ m - 1 \notin T /\ m \in 1 .. k
    BY <2>2, <2>3
  <2>5. q[m - 1] = first + (m - 1)
    BY <2>4
  <2>6. q[m] = first + m
    BY <1>1, <2>4, <2>5
  <2> QED
    BY <2>2, <2>6
<1>3. q[k] = first + k
  BY <1>2
<1> QED
  BY <1>3 DEF q

\* A file without gaps is a straight chain.
LEMMA UnbrokenChain ==
    ASSUME NEW s \in Sticks, NEW first \in Nat, NEW k \in Nat, Unbroken(s, first),
           HasCluster(s, first, k)
    PROVE  Chain(s, first, k)[k] = first + k
<1> DEFINE q == Chain(s, first, k)
<1>1. q[0] = first /\ \A j \in 1 .. k : q[j] = s.fat[q[j - 1]]
  BY ChainIs
<1>2. \A j \in 0 .. k : InChain(q[j])
  BY DEF HasCluster
<1> HIDE DEF q
<1>3. PICK last \in DOMAIN s.fat : /\ first <= last
                                   /\ \A c \in first .. last - 1 : s.fat[c] = c + 1
                                   /\ ~InChain(s.fat[last])
  BY <1>1, <1>2 DEF Unbroken
<1>4. last \in Nat
  BY StickTypes
<1> DEFINE T == {m \in 0 .. k : ~(q[m] = first + m /\ first + m <= last)}
<1>5. T = {}
  <2> SUFFICES ASSUME T # {} PROVE FALSE
    OBVIOUS
  <2>1. T \subseteq Nat
    OBVIOUS
  <2>2. PICK m \in T : \A y \in T : m <= y
    <3> HIDE DEF T
    <3> QED
      BY <2>1, LeastNumber
  <2>3. m # 0
    BY <1>1, <1>3, <2>2
  <2>4. m - 1 \in 0 .. k /\ m - 1 \notin T /\ m \in 1 .. k
    BY <2>2, <2>3
  <2>5. q[m - 1] = first + (m - 1) /\ first + (m - 1) <= last
    BY <2>4
  <2>6. q[m] = s.fat[first + (m - 1)]
    BY <1>1, <2>4, <2>5
  <2>7. first + (m - 1) # last
    BY <1>2, <1>3, <2>4, <2>6
  <2>8. first + (m - 1) \in first .. last - 1
    BY <1>4, <2>4, <2>5, <2>7
  <2>9. q[m] = first + m /\ first + m <= last
    BY <1>3, <1>4, <2>4, <2>6, <2>8
  <2> QED
    BY <2>2, <2>9
<1>6. q[k] = first + k
  BY <1>5
<1> QED
  BY <1>6 DEF q

\* The sectors of a straight chain lie behind each other.
LEMMA StraightFile ==
    ASSUME NEW s \in Sticks, NEW e, e.cluster \in Nat, NEW sector \in Nat,
           Chain(s, e.cluster, sector \div s.spc)[sector \div s.spc]
               = e.cluster + (sector \div s.spc)
    PROVE  FileSector(s, e, sector) = Lba(s, e.cluster) + sector
<1>1. PICK a \in Nat \ {0}, b \in Nat, c \in Nat : a = s.spc /\ b = s.data /\ c = e.cluster
  BY StickTypes
<1>2. PICK k \in Nat, r \in Nat : k = sector \div a /\ r = sector % a
  BY <1>1
<1>3. sector = a * k + r
  BY <1>2
<1>4. FileSector(s, e, sector) = (b + a * ((c + k) - 2)) + r
  BY <1>1, <1>2 DEF FileSector, Lba
<1>5. Lba(s, e.cluster) = b + a * (c - 2)
  BY <1>1 DEF Lba
<1>6. a * ((c + k) - 2) = a * (c - 2) + a * k
  OBVIOUS
<1>7. PICK v \in Int, w \in Int : v = a * (c - 2) /\ w = a * k
  OBVIOUS
<1>8. (b + (v + w)) + r = (b + v) + (w + r)
  OBVIOUS
<1> QED
  BY <1>3, <1>4, <1>5, <1>6, <1>7, <1>8

\* A disk of the first stick is its file, and the configuration up to its first gap.
THEOREM DisksAreFiles == Spec => []DiskIsFile
<1>1. CatalogInv => DiskIsFile
  <2> SUFFICES ASSUME CatalogInv, pc = "loop", stick # NoStick, plugs = 1,
                      NEW d \in Disks \cup {CfgDisk}, NEW sector \in 0 .. Blocks(d) - 1
               PROVE  \E e \in Entries(stick) :
                          /\ e.file = d
                          /\ d \in Disks \/ InFirstPiece(stick, e, sector) =>
                                 Address(d, sector) = FileSector(stick, e, sector)
    BY DEF DiskIsFile
  <2>0. Types /\ PlugInv /\ KnownInv /\ ResultInv /\ First
    BY DEF CatalogInv, First
  <2>1. stick \in Sticks /\ CfgDisk \notin Disks
    BY <2>0, Busy, Numbers DEF Disks
  <2>2. CASE d \in Disks
    <3>1. Blocks(d) = IF disk[d].lba # 0 THEN disk[d].blocks ELSE 0
      BY <2>1, <2>2 DEF Blocks
    <3>2. disk[d] \in Place
      BY <2>0, <2>2 DEF Types, CatalogTypes
    <3>3. disk[d].lba # 0 /\ sector \in 0 .. disk[d].blocks - 1
      <4>1. CASE disk[d].lba # 0
        BY <3>1, <4>1
      <4>2. CASE disk[d].lba = 0
        BY <3>1, <4>2
      <4> QED
        BY <4>1, <4>2
    <3>4. PICK e \in Entries(stick) : e.file = d /\ disk[d] = Found(e)
      BY <2>0, <2>2, <3>3 DEF KnownInv
    <3>5. d \in bitmap
      BY <2>0, <2>2, <3>3 DEF KnownInv
    <3>6. Settled
      BY <2>0, <3>5 DEF PlugInv, Fresh, Empty, Settled, First, Types, UsbTypes
    <3>7. Unbroken(stick, e.cluster)
      BY <2>0, <3>4, <3>5, <3>6 DEF ResultInv, Checked
    <3>8. /\ disk[d].lba = Lba(stick, e.cluster) /\ disk[d].blocks = e.blocks
          /\ e.cluster \in Nat /\ e.blocks \in Nat /\ Lba(stick, e.cluster) \in Nat \ {0}
      BY <2>0, <2>1, <3>4, EntryIs DEF Found
    <3>9. sector \in 0 .. e.blocks - 1 /\ sector \in Nat /\ sector \div stick.spc \in Nat
      BY <2>1, <3>3, <3>8, StickTypes
    <3>10. HasCluster(stick, e.cluster, sector \div stick.spc)
      BY <2>1, <3>9, FileSystemAssumption
    <3>11. FileSector(stick, e, sector) = Lba(stick, e.cluster) + sector
      BY <2>1, <3>7, <3>8, <3>9, <3>10, UnbrokenChain, StraightFile
    <3>12. Address(d, sector) = Lba(stick, e.cluster) + sector
      BY <2>1, <2>2, <3>8, <3>9 DEF Address
    <3> QED
      BY <3>4, <3>11, <3>12
  <2>3. CASE d = CfgDisk
    <3>1. Blocks(d) = cfg.blocks /\ sector \in 0 .. cfg.blocks - 1
      BY <2>3 DEF Blocks
    <3>2. cfg # Nowhere
      BY <3>1 DEF Nowhere
    <3>3. PICK e \in Entries(stick) :
              e.file = CfgDisk /\ cfg \in {Found(e), [Found(e) EXCEPT !.cluster = 0]}
      BY <2>0, <3>2 DEF KnownInv
    <3>4. cfg.lba = Lba(stick, e.cluster) /\ cfg.blocks = e.blocks
      BY <3>3 DEF Found
    <3>5. e.cluster \in Nat /\ e.blocks \in Nat /\ Lba(stick, e.cluster) \in Nat \ {0}
      BY <2>0, <2>1, EntryIs
    <3>6. sector \in 0 .. e.blocks - 1 /\ sector \in Nat /\ sector \div stick.spc \in Nat
      BY <2>1, <3>1, <3>4, <3>5, StickTypes
    <3>7. Address(d, sector) = Lba(stick, e.cluster) + sector
      BY <2>3, <3>4, <3>5, <3>6 DEF Address
    <3>8. InFirstPiece(stick, e, sector) =>
              FileSector(stick, e, sector) = Lba(stick, e.cluster) + sector
      <4> SUFFICES ASSUME InFirstPiece(stick, e, sector)
                   PROVE  FileSector(stick, e, sector) = Lba(stick, e.cluster) + sector
        OBVIOUS
      <4> DEFINE k == sector \div stick.spc
      <4>1. \A c \in 1 .. k : Chain(stick, e.cluster, k)[c] = Chain(stick, e.cluster, k)[c - 1] + 1
        BY DEF InFirstPiece
      <4>2. Chain(stick, e.cluster, k)[k] = e.cluster + k
        BY <3>5, <3>6, <4>1, StraightChain
      <4> QED
        BY <2>1, <3>5, <3>6, <4>2, StraightFile
    <3> QED
      BY <2>1, <2>3, <3>3, <3>7, <3>8
  <2> QED
    BY <2>2, <2>3
<1> QED
  BY <1>1, CatalogHolds, PTL
=============================================================================
