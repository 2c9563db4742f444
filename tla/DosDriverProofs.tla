-------------------------- MODULE DosDriverProofs --------------------------
(***************************************************************************)
(* For every number of units, every set of disks and whatever happens to   *)
(* them: a volume has been found before a block is transferred, and the    *)
(* BPB of a unit is that of the first volume of its disk.                  *)
(*                                                                         *)
(* Both need to know for whom find_volume runs: for Initialize, which has   *)
(* set InitNeeded for all units and mounts unit 0, or for a transfer of a  *)
(* driver that is loaded already.                                          *)
(***************************************************************************)
EXTENDS DosDriver, TLAPS

\* find_volume runs for Initialize, or for ReadBlock or WriteBlock.
Searching ==
    \/ req.kind = "init" /\ req.unit = 0 /\ state = "absent" /\ initNeeded = Unit
    \/ req.kind # "init" /\ req.unit \in Unit /\ state = "loaded"

Transferring == req.kind # "init" /\ req.unit \in mounted /\ state = "loaded"

DriverInv ==
    /\ state = "loaded" => Unit \ initNeeded \subseteq mounted
    /\ pc \in {"sector0", "partition"} => Searching
    /\ pc = "transfer" => Transferring
-----------------------------------------------------------------------------
\* A search that fails leaves the driver unloaded, or the request is over.
LEMMA FailureKeeps ==
    ASSUME DriverInv, Searching, InitFails, UNCHANGED mounted
    PROVE  DriverInv'
<1>1. pc' = "dos"
  BY DEF InitFails, Done, Answer
<1>2. CASE req.kind = "init"
  <2>1. state' = "unloaded"
    BY <1>2 DEF InitFails
  <2> QED
    BY <1>1, <2>1 DEF DriverInv
<1>3. CASE req.kind # "init"
  <2>1. state = "loaded" /\ initNeeded' = initNeeded
    BY <1>3 DEF InitFails, Searching
  <2> QED
    BY <1>1, <1>3, <2>1 DEF DriverInv, Searching
<1> QED
  BY <1>2, <1>3

\* A search that succeeds loads the driver, with all units still to be initialized, or
\* mounts the unit that the transfer is about to use.
LEMMA SuccessKeeps ==
    ASSUME DriverInv, Searching, InitSucceeds, mounted' = mounted \cup {req.unit}
    PROVE  DriverInv'
<1>1. CASE req.kind = "init"
  <2>1. pc' = "dos" /\ initNeeded' = Unit
    BY <1>1 DEF InitSucceeds, Done, Answer, Searching
  <2> QED
    BY <2>1 DEF DriverInv
<1>2. CASE req.kind # "init"
  <2>1. /\ state = "loaded" /\ state' = "loaded"
        /\ pc' = "transfer" /\ req' = req /\ initNeeded' = initNeeded \ {req.unit}
    BY <1>2 DEF InitSucceeds, Searching
  <2>2. Unit \ initNeeded' \subseteq mounted'
    BY <2>1 DEF DriverInv
  <2>3. Transferring'
    BY <1>2, <2>1 DEF Transferring
  <2> QED
    BY <2>1, <2>2, <2>3 DEF DriverInv
<1> QED
  BY <1>1, <1>2

\* A block that looks like a boot sector ends the search one way or the other.
LEMMA AnalyzeKeeps ==
    ASSUME DriverInv, Searching, NEW b, NEW l, Analyze(b, l)
    PROVE  DriverInv'
<1>1. \/ mounted' = mounted \cup {req.unit} /\ InitSucceeds
      \/ UNCHANGED mounted /\ InitFails
  BY DEF Analyze
<1> QED
  BY <1>1, FailureKeeps, SuccessKeeps

\* The driver's part of the state, but for the request, decides.
LEMMA QuietKeeps ==
    ASSUME DriverInv, UNCHANGED driver,
           pc' \in {"dos", "polling", "dead"} \/ (pc' = pc /\ req' = req)
    PROVE  DriverInv'
BY DEF DriverInv, Searching, Transferring, driver
-----------------------------------------------------------------------------
\* Every request preserves the invariant.
LEMMA RequestKeeps == DriverInv /\ Request => DriverInv'
<1> SUFFICES ASSUME DriverInv, Request PROVE DriverInv'
  OBVIOUS
<1>1. ASSUME NEW o \in Options, Initialize(o) PROVE DriverInv'
  <2>1. /\ state = "absent" /\ mounted' = mounted
        /\ initNeeded' = Unit
    BY <1>1 DEF Initialize, ForceInit
  <2>2. CASE o.name = "bad"
    BY <1>1, <2>1, <2>2 DEF Initialize, Done, Answer, DriverInv
  <2>3. CASE o.name # "bad"
    <3>1. /\ state' = "absent" /\ pc' = "sector0"
          /\ req'.kind = "init" /\ req'.unit = 0
      BY <1>1, <2>1, <2>3 DEF Initialize, NoReq
    <3> QED
      BY <2>1, <3>1 DEF DriverInv, Searching
  <2> QED
    BY <2>2, <2>3
<1>2. ASSUME NEW u \in Unit, BuildBPB(u) PROVE DriverInv'
  BY <1>2, QuietKeeps DEF BuildBPB, Answer
<1>3. ASSUME NEW m \in Minor, GenericIOCTL(m) PROVE DriverInv'
  BY <1>3, QuietKeeps DEF GenericIOCTL, Answer
<1>4. ASSUME NEW m \in Minor, IOCTLQuery(m) PROVE DriverInv'
  BY <1>4, QuietKeeps DEF IOCTLQuery, Done, Answer
<1>5. CASE Acknowledge \/ UnknownRequest
  BY <1>5, QuietKeeps DEF Acknowledge, UnknownRequest, Done, Answer
<1>6. ASSUME NEW kind \in {"read", "write"}, NEW u \in Unit, NEW start, NEW count,
             StartIO(kind, u, start, count)
      PROVE  DriverInv'
  <2>1. /\ state = "loaded" /\ state' = state
        /\ mounted' = mounted
    BY <1>6 DEF StartIO, Idle
  <2>2. req'.kind # "init" /\ req'.unit = u
    BY <1>6 DEF StartIO
  <2>3. Unit \ initNeeded' \subseteq mounted
    BY <1>6, <2>1 DEF StartIO, DriverInv
  <2>4. pc' = "sector0" \/ (pc' = "transfer" /\ u \in mounted)
    BY <1>6, <2>1 DEF StartIO, NextStop, DriverInv
  <2> QED
    BY <2>1, <2>2, <2>3, <2>4 DEF DriverInv, Searching, Transferring
<1> QED
  BY <1>1, <1>2, <1>3, <1>4, <1>5, <1>6 DEF Request

\* Every step of the driver preserves the invariant.
LEMMA StepKeeps == DriverInv /\ Step => DriverInv'
<1> SUFFICES ASSUME DriverInv, Step PROVE DriverInv'
  OBVIOUS
<1>1. CASE CheckSector0
  <2>1. Searching
    BY <1>1 DEF CheckSector0, DriverInv
  <2> DEFINE b == image[req.unit][0]
  <2>2. \/ NoVolume \/ Analyze(b, 0)
        \/ /\ pc' = "partition"
           /\ UNCHANGED <<state, initNeeded, mounted, req>>
    BY <1>1 DEF CheckSector0
  <2>3. CASE NoVolume
    BY <2>1, <2>3, FailureKeeps DEF NoVolume
  <2>4. CASE Analyze(b, 0)
    <3> HIDE DEF b
    <3> QED
      BY <2>1, <2>4, AnalyzeKeeps
  <2>5. CASE pc' = "partition" /\ UNCHANGED <<state, initNeeded, mounted, req>>
    BY <2>1, <2>5 DEF DriverInv, Searching
  <2> QED
    BY <2>2, <2>3, <2>4, <2>5
<1>2. CASE CheckPartition
  <2>1. Searching
    BY <1>2 DEF CheckPartition, DriverInv
  <2> DEFINE b == image[req.unit][At(br[part])]
             l == br[part]
  <2>2. \/ NoVolume \/ Analyze(b, l)
        \/ UNCHANGED <<state, initNeeded, mounted, req, pc>>
    BY <1>2 DEF CheckPartition, NextPartition
  <2>3. CASE NoVolume
    BY <2>1, <2>3, FailureKeeps DEF NoVolume
  <2>4. CASE Analyze(b, l)
    <3> HIDE DEF b, l
    <3> QED
      BY <2>1, <2>4, AnalyzeKeeps
  <2>5. CASE UNCHANGED <<state, initNeeded, mounted, req, pc>>
    BY <2>5 DEF DriverInv, Searching, Transferring
  <2> QED
    BY <2>2, <2>3, <2>4, <2>5
<1>3. CASE TransferBlock
  BY <1>3, QuietKeeps DEF TransferBlock
<1>4. CASE TransferEnds
  BY <1>4, QuietKeeps DEF TransferEnds, Done, Answer
<1>5. CASE TransferFails
  <2>1. /\ pc' = "dos" /\ initNeeded' = Unit
        /\ UNCHANGED <<state, mounted>>
    BY <1>5 DEF TransferFails, Done, Answer, ForceInit
  <2> QED
    BY <2>1 DEF DriverInv
<1>6. CASE PollForEver
  BY <1>6, QuietKeeps DEF PollForEver
<1> QED
  BY <1>1, <1>2, <1>3, <1>4, <1>5, <1>6 DEF Step

\* So does what happens around it.
LEMMA WorldKeeps == DriverInv /\ World => DriverInv'
<1> SUFFICES ASSUME DriverInv, World PROVE DriverInv'
  OBVIOUS
<1>1. CASE Reboot
  BY <1>1 DEF Reboot, DriverInv
<1>2. ASSUME NEW u \in Unit, Drop(u) \/ Appear(u) \/ Exchange(u) PROVE DriverInv'
  BY <1>2, QuietKeeps DEF Drop, Appear, Exchange
<1>3. CASE RebootAstray
  BY <1>3, QuietKeeps DEF RebootAstray
<1> QED
  BY <1>1, <1>2, <1>3 DEF World

\* DriverInv holds of the driver.
LEMMA DriverInvariant == Spec => []DriverInv
<1>1. Init => DriverInv
  BY DEF Init, DriverInv
<1>2. DriverInv /\ [Next]_vars => DriverInv'
  <2> SUFFICES ASSUME DriverInv, [Next]_vars PROVE DriverInv'
    OBVIOUS
  <2>1. CASE UNCHANGED vars
    BY <2>1, QuietKeeps DEF vars
  <2> QED
    BY <2>1, RequestKeeps, StepKeeps, WorldKeeps DEF Next
<1> QED
  BY <1>1, <1>2, PTL DEF Spec

\* DRIVER.C transfers no block of a unit whose volume find_volume has not found, and
\* InitNeeded is clear only for units that have one.
THEOREM Mounted == Spec => []MountedBeforeTransfer
<1>1. DriverInv => MountedBeforeTransfer
  BY DEF DriverInv, Transferring, MountedBeforeTransfer
<1> QED
  BY <1>1, DriverInvariant, PTL
-----------------------------------------------------------------------------
(* The types.                                                              *)

\* The disks, and how often they change
WorldTypes == /\ DOMAIN image = Unit
              /\ \A u \in Unit : \A l \in DOMAIN image[u] : image[u][l] \in Block
              /\ online \subseteq Unit
              /\ drops \in 0 .. MaxDrops /\ changes \in 0 .. MaxChanges

\* The driver, and the request it serves.  An answer is not kept while a BPB may
\* change.
ServiceTypes ==
    /\ state \in {"absent", "loaded", "unloaded"} /\ vector \in {Bios, RebootEntry}
    /\ portbase \in 0 .. 4
    /\ initNeeded \subseteq Unit /\ mounted \subseteq Unit
    /\ bpb \in [Unit -> Bpb] /\ partitionOffset \in Nat
    /\ req \in [kind : {"none", "init", "read", "write"}, unit : Unit,
                start : 0 .. Span - 1, count : 0 .. MaxCount]
    /\ pc \in {"dos", "sector0", "partition", "transfer", "polling", "dead"}
    /\ moved \in 0 .. req.count
    /\ pc \notin {"transfer", "polling"} => moved = 0
    /\ status \in {"none", "done", "error", "general_failure", "bad_sector",
                   "unknown_command"}
    /\ answer \in {{}} \cup {{p} : p \in {BlankBpb} \cup {bpb[u] : u \in Unit}}
    /\ state = "absent" \/ pc \in {"sector0", "partition"} => answer = {}

SearchTypes == (\A p \in 0 .. 3 : br[p] \in Nat) /\ part \in 0 .. 3

Types == WorldTypes /\ ServiceTypes /\ SearchTypes

\* What a block is made of
LEMMA BlockTypes ==
    ASSUME NEW b \in Block
    PROVE  /\ b.sig \in BOOLEAN /\ b.fat \in BOOLEAN /\ b.size \in BOOLEAN
           /\ \A p \in 0 .. 3 : b.parts[p] \in Nat
           /\ b.au \in Nat /\ b.reserved \in Nat /\ b.fats \in Nat
           /\ b.total16 \in Nat /\ b.total32 \in Nat /\ b.chs \in Nat
           /\ BpbOf(b) \in Bpb
<1>1. /\ {b.sig, b.fat, b.size} \subseteq BOOLEAN
      /\ \A p \in 0 .. 3 : b.parts[p] \in Nat
      /\ {b.au, b.reserved, b.fats, b.total16, b.total32, b.chs} \subseteq Nat
  BY DriverAssumption, Zenon DEF DriverAssumption
<1>2. /\ b.au \in Nat /\ b.reserved \in Nat /\ b.fats \in Nat
      /\ b.total16 \in Nat /\ b.total32 \in Nat /\ b.chs \in Nat
  BY <1>1
<1>3. b.sig \in BOOLEAN /\ b.fat \in BOOLEAN /\ b.size \in BOOLEAN
  BY <1>1
<1>4. BpbOf(b) \in Bpb
  BY <1>2 DEF BpbOf, Bpb
<1> QED
  BY <1>1, <1>2, <1>3, <1>4

\* The block numbers wrap around.
LEMMA AtTypes ==
    /\ \A lbn \in Nat : At(lbn) \in 0 .. Span - 1
    /\ At(0) = 0
BY DriverAssumption DEF At

\* Every step keeps WorldTypes.
LEMMA WorldTypesStep == WorldTypes /\ [Next]_vars => WorldTypes'
<1> SUFFICES ASSUME WorldTypes, [Next]_vars PROVE WorldTypes'
  OBVIOUS
<1>1. CASE UNCHANGED world
  BY <1>1 DEF WorldTypes, world
<1>2. CASE TransferBlock
  <2>1. online' = online /\ drops' = drops
    BY <1>2 DEF TransferBlock
  <2>2. CASE UNCHANGED <<image, changes>>
    BY <2>1, <2>2 DEF WorldTypes
  <2>3. CASE /\ changes < MaxChanges /\ changes' = changes + 1
             /\ \E b \in Written : image' = [image EXCEPT ![req.unit][Current] = b]
    <3>1. PICK b \in Written : image' = [image EXCEPT ![req.unit][Current] = b]
      BY <2>3
    <3>2. b \in Block
      BY DriverAssumption, Zenon DEF DriverAssumption
    <3>3. /\ DOMAIN image' = Unit
          /\ \A u \in Unit : /\ DOMAIN image'[u] = DOMAIN image[u]
                            /\ \A l \in DOMAIN image[u] : image'[u][l] \in {b, image[u][l]}
      BY <3>1 DEF WorldTypes
    <3>4. changes' \in 0 .. MaxChanges
      BY <2>3, DriverAssumption DEF WorldTypes
    <3> QED
      BY <2>1, <3>2, <3>3, <3>4 DEF WorldTypes
  <2> QED
    BY <1>2, <2>2, <2>3 DEF TransferBlock
<1>3. ASSUME NEW u \in Unit, Drop(u) \/ Appear(u) PROVE WorldTypes'
  <2>1. online' \subseteq Unit /\ image' = image /\ changes' = changes
    BY <1>3 DEF Drop, Appear, WorldTypes
  <2>2. drops' \in 0 .. MaxDrops
    BY <1>3, DriverAssumption DEF Drop, Appear, WorldTypes
  <2> QED
    BY <2>1, <2>2 DEF WorldTypes
<1>4. ASSUME NEW u \in Unit, Exchange(u) PROVE WorldTypes'
  BY <1>4, DriverAssumption DEF Exchange, WorldTypes
<1> QED
  BY <1>1, <1>2, <1>3, <1>4 DEF Next, Request, Step, World, Initialize, BuildBPB, GenericIOCTL,
     IOCTLQuery, Acknowledge, UnknownRequest, StartIO, CheckSector0, CheckPartition,
     TransferEnds, TransferFails, PollForEver, Reboot, RebootAstray, vars, world

\* A request that ends leaves its types in order.
LEMMA DoneTypes ==
    ASSUME ServiceTypes, NEW s \in {"done", "error", "general_failure", "bad_sector",
                                    "unknown_command"},
           Done(s)
    PROVE  /\ req' \in [kind : {"none", "init", "read", "write"}, unit : Unit,
                        start : 0 .. Span - 1, count : 0 .. MaxCount]
           /\ pc' = "dos" /\ moved' = 0 /\ moved' \in 0 .. req'.count
           /\ answer' = {} /\ status' = s
BY DriverAssumption DEF Done, Answer, NoReq

\* So does a search that fails, or one that succeeds.
LEMMA SearchEndTypes ==
    ASSUME ServiceTypes, InitFails \/ InitSucceeds,
           portbase' = portbase, mounted' \subseteq Unit, bpb' \in [Unit -> Bpb],
           partitionOffset' \in Nat, pc \in {"sector0", "partition"}
    PROVE  ServiceTypes'
<1>1. CASE InitFails
  <2>1. /\ state' \in {"absent", "loaded", "unloaded"} /\ vector' = vector
        /\ initNeeded' = initNeeded
    BY <1>1 DEF InitFails, ServiceTypes
  <2>2. PICK s \in {"error", "general_failure"} : Done(s)
    BY <1>1 DEF InitFails
  <2> QED
    BY <2>1, <2>2, DoneTypes DEF ServiceTypes
<1>2. CASE InitSucceeds /\ req.kind = "init"
  <2>1. state' = "loaded" /\ vector' = RebootEntry /\ initNeeded' = initNeeded /\ Done("done")
    BY <1>2 DEF InitSucceeds
  <2> QED
    BY <2>1, DoneTypes DEF ServiceTypes
<1>3. CASE InitSucceeds /\ req.kind # "init"
  <2>1. /\ pc' = "transfer" /\ initNeeded' \subseteq Unit
        /\ UNCHANGED <<state, vector, req, status, answer, moved>>
    BY <1>3 DEF InitSucceeds, ServiceTypes
  <2>2. answer' = {}
    BY <2>1 DEF ServiceTypes
  <2> QED
    BY <2>1, <2>2 DEF ServiceTypes
<1> QED
  BY <1>1, <1>2, <1>3

\* A boot sector, of whatever contents, gives a BPB.
LEMMA AnalyzeTypes ==
    ASSUME ServiceTypes, pc \in {"sector0", "partition"}, portbase' = portbase,
           NEW b \in Block, NEW l \in Nat, Analyze(b, l)
    PROVE  ServiceTypes'
<1>1. req.unit \in Unit
  BY DEF ServiceTypes
<1>2. InitFails \/ InitSucceeds
  BY DEF Analyze
<1>3. mounted' \subseteq Unit /\ partitionOffset' \in Nat
  BY <1>1 DEF Analyze, ServiceTypes
<1>4. bpb' \in [Unit -> Bpb]
  <2>1. CASE bpb' = [bpb EXCEPT ![req.unit] = BpbOf(b)]
    BY <2>1, BlockTypes DEF ServiceTypes
  <2>2. CASE bpb' = [bpb EXCEPT ![req.unit].au = b.au, ![req.unit].reserved = 0]
    <3>1. b.au \in Nat
      BY BlockTypes
    <3> QED
      BY <2>2, <3>1, <1>1 DEF ServiceTypes, Bpb
  <2>3. CASE bpb' = bpb
    BY <2>3 DEF ServiceTypes
  <2> QED
    BY <2>1, <2>2, <2>3 DEF Analyze
<1> QED
  BY <1>2, <1>3, <1>4, SearchEndTypes

\* Every request keeps the types.
LEMMA RequestTypes == Types /\ Request => ServiceTypes' /\ SearchTypes'
<1> SUFFICES ASSUME Types, Request PROVE ServiceTypes' /\ SearchTypes'
  OBVIOUS
<1> USE DEF Types
<1>0. SearchTypes'
  BY DEF SearchTypes, Request, Initialize, BuildBPB, GenericIOCTL, IOCTLQuery, Acknowledge,
         UnknownRequest, StartIO, search
<1>1. ASSUME NEW o \in Options, Initialize(o) PROVE ServiceTypes'
  <2>1. /\ state = "absent" /\ answer = {} /\ initNeeded' = Unit
        /\ UNCHANGED <<vector, mounted, bpb, partitionOffset>>
    BY <1>1 DEF Initialize, ForceInit, ServiceTypes
  <2>2. CASE o.name = "bad"
    <3>1. Done("error") /\ state' = "unloaded" /\ portbase' = portbase
      BY <1>1, <2>2 DEF Initialize
    <3> QED
      BY <2>1, <3>1, DoneTypes DEF ServiceTypes
  <2>3. CASE o.name # "bad"
    <3>1. /\ portbase' = PortOf(o) /\ req' = [NoReq EXCEPT !.kind = "init"]
          /\ pc' = "sector0" /\ UNCHANGED <<state, status, answer, moved>>
      BY <1>1, <2>3 DEF Initialize
    <3>2. pc = "dos"
      BY <1>1 DEF Initialize
    <3>3. o.value \in Nat
      BY DriverAssumption DEF Option
    <3>4. portbase' \in 0 .. 4
      BY <3>1, <3>3 DEF PortOf, ServiceTypes
    <3> QED
      BY <2>1, <3>1, <3>2, <3>4, DriverAssumption DEF ServiceTypes, NoReq
  <2> QED
    BY <2>2, <2>3
<1>2. ASSUME NEW s \in {"done", "unknown_command"}, UNCHANGED driver,
             state = "loaded", pc = "dos",
             \/ Done(s)
             \/ \E u \in Unit : Answer(s, {bpb[u]})
             \/ pc' = "dead" /\ UNCHANGED <<status, answer, req, moved>>
      PROVE  ServiceTypes'
  <2>1. CASE Done(s)
    BY <1>2, <2>1, DoneTypes DEF ServiceTypes, driver
  <2>2. ASSUME NEW u \in Unit, Answer(s, {bpb[u]}) PROVE ServiceTypes'
    <3>1. UNCHANGED <<state, vector, portbase, initNeeded, mounted, bpb, partitionOffset>>
      BY <1>2 DEF driver
    <3>2. /\ req' = NoReq /\ pc' = "dos" /\ moved' = 0
          /\ status' = s /\ answer' = {bpb[u]}
      BY <2>2 DEF Answer
    <3>3. answer' \in {{p} : p \in {BlankBpb} \cup {bpb'[v] : v \in Unit}}
      BY <3>1, <3>2
    <3>4. /\ req' \in [kind : {"none", "init", "read", "write"}, unit : Unit,
                        start : 0 .. Span - 1, count : 0 .. MaxCount]
          /\ moved' \in 0 .. req'.count
      BY <3>2, DriverAssumption DEF NoReq
    <3> QED
      BY <1>2, <3>1, <3>2, <3>3, <3>4 DEF ServiceTypes
  <2>3. CASE pc' = "dead" /\ UNCHANGED <<status, answer, req, moved>>
    BY <1>2, <2>3 DEF ServiceTypes, driver
  <2> QED
    BY <1>2, <2>1, <2>2, <2>3
<1>3. ASSUME NEW u \in Unit, BuildBPB(u) PROVE ServiceTypes'
  BY <1>2, <1>3 DEF BuildBPB, Idle
<1>4. ASSUME NEW m \in Minor, GenericIOCTL(m) PROVE ServiceTypes'
  <2>1. 0 \in Unit
    BY DriverAssumption
  <2>2. IoctlStatus(m) \in {"done", "unknown_command"}
    BY DEF IoctlStatus
  <2>3. CASE m = "get_parameters"
    BY <1>2, <1>4, <2>1, <2>2, <2>3 DEF GenericIOCTL, Idle, Parameters
  <2>4. CASE m # "get_parameters"
    BY <1>2, <1>4, <2>2, <2>4 DEF GenericIOCTL, Idle, Done
  <2> QED
    BY <2>3, <2>4
<1>5. ASSUME NEW m \in Minor, IOCTLQuery(m) PROVE ServiceTypes'
  BY <1>2, <1>5 DEF IOCTLQuery, Idle, IoctlStatus
<1>6. CASE Acknowledge \/ UnknownRequest
  BY <1>0, <1>2, <1>6 DEF Acknowledge, UnknownRequest, Idle
<1>7. ASSUME NEW kind \in {"read", "write"}, NEW u \in Unit, NEW start \in 0 .. Span - 1,
             NEW count \in 0 .. MaxCount, StartIO(kind, u, start, count)
      PROVE  ServiceTypes'
  <2>1. /\ moved = 0 /\ pc' \in {"sector0", "transfer"}
        /\ initNeeded' \subseteq Unit
        /\ state' = "loaded"
    BY <1>7 DEF StartIO, Idle, NextStop, ServiceTypes
  <2> QED
    BY <1>7, <2>1, DriverAssumption DEF StartIO, ServiceTypes
<1> QED
  BY <1>0, <1>1, <1>3, <1>4, <1>5, <1>6, <1>7 DEF Request

\* Every step of the driver keeps the types.
LEMMA StepTypes == Types /\ Step => ServiceTypes' /\ SearchTypes'
<1> SUFFICES ASSUME Types, Step PROVE ServiceTypes' /\ SearchTypes'
  OBVIOUS
<1> USE DEF Types
<1>1. CASE CheckSector0
  <2>1. req.unit \in Unit /\ pc = "sector0" /\ portbase' = portbase
    BY <1>1 DEF ServiceTypes, CheckSector0
  <2>2. CASE NoVolume /\ UNCHANGED search
    BY <2>1, <2>2, SearchEndTypes DEF NoVolume, ServiceTypes, SearchTypes, search
  <2>3. CASE Reaches(req.unit, 0) /\ ~(NoVolume /\ UNCHANGED search)
    <3> DEFINE b == image[req.unit][0]
    <3>1. b \in Block
      BY <2>1, <2>3, AtTypes DEF Reaches, WorldTypes
    <3>2. \/ Analyze(b, 0) /\ UNCHANGED search
          \/ /\ br' = b.parts /\ part' = 0 /\ pc' = "partition"
             /\ UNCHANGED <<state, vector, initNeeded, mounted, bpb,
                            partitionOffset, req, moved, status, answer>>
      BY <1>1, <2>3 DEF CheckSector0
    <3> HIDE DEF b
    <3>3. CASE Analyze(b, 0) /\ UNCHANGED search
      BY <2>1, <3>1, <3>3, AnalyzeTypes DEF SearchTypes, search
    <3>4. CASE /\ br' = b.parts /\ part' = 0 /\ pc' = "partition"
               /\ UNCHANGED <<state, vector, initNeeded, mounted, bpb,
                              partitionOffset, req, moved, status, answer>>
      <4>1. \A p \in 0 .. 3 : b.parts[p] \in Nat
        BY <3>1, BlockTypes
      <4>2. ServiceTypes'
        BY <2>1, <3>4 DEF ServiceTypes
      <4> QED
        BY <3>4, <4>1, <4>2 DEF SearchTypes
    <3> QED
      BY <3>2, <3>3, <3>4
  <2> QED
    BY <1>1, <2>2, <2>3 DEF CheckSector0
<1>2. CASE CheckPartition
  <2> DEFINE b == image[req.unit][At(br[part])]
             l == br[part]
  <2>1. req.unit \in Unit /\ pc = "partition" /\ portbase' = portbase /\ br' = br
    BY <1>2 DEF ServiceTypes, CheckPartition
  <2>2. l \in Nat
    BY DEF SearchTypes
  <2>3. CASE VolumeAt(l)
    <3>1. b \in Block
      BY <2>1, <2>3 DEF VolumeAt, Reaches, WorldTypes
    <3>2. Analyze(b, l) /\ part' = part
      BY <1>2, <2>3 DEF CheckPartition
    <3> HIDE DEF b, l
    <3> QED
      BY <2>1, <2>2, <3>1, <3>2, AnalyzeTypes DEF SearchTypes
  <2>4. CASE ~VolumeAt(l)
    <3>1. NextPartition
      BY <1>2, <2>4 DEF CheckPartition
    <3>2. CASE part < 3
      BY <2>1, <3>1, <3>2 DEF NextPartition, ServiceTypes, SearchTypes
    <3>3. CASE ~(part < 3)
      BY <2>1, <3>1, <3>3, SearchEndTypes DEF NextPartition, NoVolume, ServiceTypes, SearchTypes
    <3> QED
      BY <3>2, <3>3
  <2> QED
    BY <2>3, <2>4
<1>3. CASE TransferBlock
  <2>1. moved' \in 0 .. req.count
    BY <1>3, DriverAssumption DEF TransferBlock, ServiceTypes
  <2> QED
    BY <1>3, <2>1 DEF TransferBlock, ServiceTypes, SearchTypes, driver, search
<1>4. CASE TransferEnds
  BY <1>4, DoneTypes DEF TransferEnds, ServiceTypes, SearchTypes, driver, search
<1>5. CASE TransferFails
  BY <1>5, DoneTypes DEF TransferFails, ForceInit, ServiceTypes, SearchTypes, search
<1>6. CASE PollForEver
  <2>1. /\ pc' = "polling" /\ UNCHANGED <<driver, req, moved, search, status, answer>>
        /\ pc \in {"sector0", "partition", "transfer"}
    BY <1>6 DEF PollForEver, Missing
  <2>2. state' = "absent" => answer' = {}
    BY <2>1 DEF ServiceTypes, driver
  <2> QED
    BY <2>1, <2>2 DEF ServiceTypes, SearchTypes, driver, search
<1> QED
  BY <1>1, <1>2, <1>3, <1>4, <1>5, <1>6 DEF Step

\* DOS is started with the driver's file as it is on the disk.
LEMMA FreshTypes ==
    ASSUME BlankBpb \in Bpb, 0 \in Unit
    PROVE  [u \in Unit |-> BlankBpb] \in [Unit -> Bpb]
OBVIOUS

\* What happens around the driver keeps the types.
LEMMA AroundTypes == Types /\ World => ServiceTypes' /\ SearchTypes'
<1> SUFFICES ASSUME Types, World PROVE ServiceTypes' /\ SearchTypes'
  OBVIOUS
<1>1. CASE Reboot
  BY <1>1, DriverAssumption
       DEF Reboot, ServiceTypes, SearchTypes, NoReq, NoPartitions
<1>2. CASE UNCHANGED <<driver, req, pc, moved, search, status, answer>>
  BY <1>2 DEF Types, ServiceTypes, SearchTypes, driver, search
<1>3. CASE RebootAstray
  BY <1>3 DEF RebootAstray, Types, ServiceTypes, SearchTypes, driver, search
<1> QED
  BY <1>1, <1>2, <1>3 DEF World, Drop, Appear, Exchange

\* Types holds in every state.
LEMMA TypesHold == Spec => []Types
<1>1. Init => Types
  <2> SUFFICES ASSUME Init PROVE Types
    OBVIOUS
  <2>2. ServiceTypes /\ SearchTypes
    BY DriverAssumption DEF Init, ServiceTypes, SearchTypes, NoReq, NoPartitions
  <2>3. \A m \in Image : \A l \in DOMAIN m : m[l] \in Block
    BY DriverAssumption
  <2>4. WorldTypes
    <3>1. DOMAIN image = Unit /\ \A u \in Unit : image[u] \in Image
      BY DEF Init
    <3>2. drops \in 0 .. MaxDrops /\ changes \in 0 .. MaxChanges /\ online \subseteq Unit
      BY DriverAssumption DEF Init
    <3> QED
      BY <2>3, <3>1, <3>2 DEF WorldTypes
  <2> QED
    BY <2>2, <2>4 DEF Types
<1>2. Types /\ [Next]_vars => Types'
  <2>1. Types /\ UNCHANGED vars => ServiceTypes' /\ SearchTypes'
    BY DEF Types, ServiceTypes, SearchTypes, vars, driver, search
  <2> QED
    BY <2>1, RequestTypes, StepTypes, AroundTypes, WorldTypesStep DEF Types, Next
<1> QED
  BY <1>1, <1>2, PTL DEF Spec

\* The driver's tables, its request and its answers keep their types: no port beyond
\* the table, no unit beyond the last, and no answer but a BPB of the driver's.
THEOREM TypesKept == Spec => []TypeOK
<1>1. Types => TypeOK
  BY DEF Types, ServiceTypes, SearchTypes, WorldTypes, TypeOK
<1> QED
  BY <1>1, TypesHold, PTL
-----------------------------------------------------------------------------
(* The BPB.                                                                *)

Untouched == drops = 0 /\ changes = 0

\* Block l of the disk m is a boot sector, for find_volume.
HasVolume(m, l) == At(l) \in DOMAIN m /\ CheckFs(m[At(l)]) = 0

FirstBpb(u) == BpbOf(image[u][At(FirstVolume(image[u]))])

\* A unit is searched only as long as it is not mounted; and the search has passed
\* by what comes before the partition it is at.
SearchInv ==
    /\ state = "absent" => mounted = {}
    /\ pc \in {"sector0", "partition"} => req.unit \notin mounted
    /\ Untouched /\ pc = "partition" =>
          LET m == image[req.unit]
          IN  /\ req.unit \in online
              /\ ~HasVolume(m, 0)
              /\ br = m[0].parts
              /\ \A j \in 0 .. part - 1 : br[j] = 0 \/ ~HasVolume(m, br[j])
    /\ Untouched => \A u \in mounted : bpb[u] = FirstBpb(u)

\* FirstVolume is block 0, if that is a boot sector.
LEMMA FirstIsBlock0 ==
    ASSUME NEW m, HasVolume(m, 0)
    PROVE  FirstVolume(m) = 0
BY DEF FirstVolume, HasVolume

\* Otherwise it is the first of the partitions that begins with one.
LEMMA FirstIsPartition ==
    ASSUME NEW m, ~HasVolume(m, 0), NEW k \in 0 .. 3,
           m[0].parts[k] # 0, HasVolume(m, m[0].parts[k]),
           \A j \in 0 .. k - 1 : m[0].parts[j] = 0 \/ ~HasVolume(m, m[0].parts[j])
    PROVE  FirstVolume(m) = m[0].parts[k]
<1> DEFINE p == m[0].parts
           First(i) == /\ p[i] # 0 /\ HasVolume(m, p[i])
                       /\ \A j \in 0 .. i - 1 : p[j] = 0 \/ ~HasVolume(m, p[j])
<1>1. First(k)
  OBVIOUS
<1>2. ASSUME NEW i \in 0 .. 3, First(i) PROVE i = k
  <2>1. ~(i < k) /\ ~(k < i)
    BY <1>1, <1>2
  <2> QED
    BY <2>1
<1>3. (CHOOSE i \in 0 .. 3 : First(i)) = k
  <2> HIDE DEF First
  <2> QED
    BY <1>1, <1>2
<1>4. FirstVolume(m) = p[CHOOSE i \in 0 .. 3 : First(i)]
  BY DEF FirstVolume, HasVolume
<1> QED
  BY <1>3, <1>4

\* Whatever becomes of the boot sector of the first volume, no other BPB is touched, and
\* that of the unit only if it gets mounted, or is not mounted anyway.
LEMMA AnalyzeSearch ==
    ASSUME Types, DriverInv, SearchInv, pc \in {"sector0", "partition"},
           NEW l, Untouched => l = FirstVolume(image[req.unit]),
           Analyze(image[req.unit][At(l)], l), UNCHANGED world
    PROVE  SearchInv'
<1> DEFINE u == req.unit
           b == image[u][At(l)]
<1>1. /\ u \in Unit /\ u \notin mounted /\ Searching
      /\ bpb \in [Unit -> Bpb] /\ mounted \subseteq Unit
  BY DEF Types, ServiceTypes, SearchInv, DriverInv
<1>2. /\ Untouched' <=> Untouched
      /\ \A v \in Unit : FirstBpb(v)' = FirstBpb(v)
  BY DEF Untouched, FirstBpb, world
<1>3. \A v \in mounted : bpb'[v] = bpb[v]
  BY <1>1 DEF Analyze
<1>4. CASE InitFails /\ mounted' = mounted
  <2>1. pc' = "dos" /\ state' \in {"unloaded", state}
    BY <1>4 DEF InitFails, Done, Answer
  <2> QED
    BY <1>1, <1>2, <1>3, <1>4, <2>1 DEF SearchInv
<1>5. CASE /\ InitSucceeds /\ mounted' = mounted \cup {u}
           /\ bpb' = [bpb EXCEPT ![u] = BpbOf(b)]
  <2>1. state' = "loaded" /\ pc' \in {"dos", "transfer"}
    BY <1>1, <1>5 DEF InitSucceeds, Done, Answer, Searching
  <2>2. Untouched => bpb'[u] = FirstBpb(u)
    BY <1>1, <1>5 DEF FirstBpb
  <2> QED
    BY <1>1, <1>2, <1>3, <1>5, <2>1, <2>2 DEF SearchInv
<1> QED
  BY <1>4, <1>5 DEF Analyze

\* A step that keeps to these variables, and does not begin a search, keeps SearchInv.
LEMMA QuietSearch ==
    ASSUME Types, SearchInv, UNCHANGED <<mounted, bpb, world>>,
           state' = "absent" => state = "absent",
           pc' \in {"dos", "transfer", "polling", "dead"} \/ UNCHANGED <<pc, req, search>>
    PROVE  SearchInv'
<1>1. /\ Untouched' <=> Untouched
      /\ \A v \in Unit : FirstBpb(v)' = FirstBpb(v)
      /\ mounted \subseteq Unit
  BY DEF Untouched, FirstBpb, world, Types, ServiceTypes
<1>2. CASE pc' \in {"dos", "transfer", "polling", "dead"}
  BY <1>1, <1>2 DEF SearchInv
<1>3. CASE UNCHANGED <<pc, req, search>>
  BY <1>1, <1>3 DEF SearchInv, Untouched, world, search
<1> QED
  BY <1>2, <1>3

\* Every request keeps SearchInv.
LEMMA RequestSearch == Types /\ DriverInv /\ SearchInv /\ Request => SearchInv'
<1> SUFFICES ASSUME Types, DriverInv, SearchInv, Request PROVE SearchInv'
  OBVIOUS
<1>1. /\ Untouched' <=> Untouched
      /\ \A v \in Unit : FirstBpb(v)' = FirstBpb(v)
      /\ mounted \subseteq Unit /\ UNCHANGED <<mounted, bpb, world>>
  BY DEF Untouched, FirstBpb, world, Types, ServiceTypes, Request, Initialize, BuildBPB,
         GenericIOCTL, IOCTLQuery, Acknowledge, UnknownRequest, StartIO, driver
<1>2. CASE \E o \in Options : Initialize(o)
  <2>1. state = "absent" /\ mounted = {} /\ pc' \in {"dos", "sector0"}
    BY <1>2 DEF Initialize, SearchInv, Done, Answer
  <2> QED
    BY <1>1, <2>1 DEF SearchInv
<1>3. CASE \E kind \in {"read", "write"}, u \in Unit, start \in 0 .. Span - 1,
              count \in 0 .. MaxCount : StartIO(kind, u, start, count)
  <2>1. PICK kind \in {"read", "write"}, u \in Unit, start \in 0 .. Span - 1,
             count \in 0 .. MaxCount : StartIO(kind, u, start, count)
    BY <1>3
  <2>2. /\ state' = "loaded" /\ pc' = NextStop(u) /\ req'.unit = u
    BY <2>1 DEF StartIO, Idle
  <2>3. pc' = "transfer" \/ (pc' = "sector0" /\ req'.unit \notin mounted)
    BY <2>2 DEF NextStop
  <2> QED
    BY <1>1, <2>2, <2>3 DEF SearchInv
<1>4. CASE \/ \E u \in Unit : BuildBPB(u)
           \/ \E m \in Minor : GenericIOCTL(m) \/ IOCTLQuery(m)
           \/ Acknowledge \/ UnknownRequest
  <2>1. state' = state /\ pc' \in {"dos", "dead"}
    BY <1>4 DEF BuildBPB, GenericIOCTL, IOCTLQuery, Acknowledge, UnknownRequest, driver,
                Done, Answer
  <2> QED
    BY <1>1, <2>1, QuietSearch
<1> QED
  BY <1>2, <1>3, <1>4 DEF Request

\* Every step of the driver keeps SearchInv.
LEMMA StepSearch == Types /\ DriverInv /\ SearchInv /\ Step => SearchInv'
<1> SUFFICES ASSUME Types, DriverInv, SearchInv, Step PROVE SearchInv'
  OBVIOUS
<1> DEFINE u == req.unit
           m == image[u]
<1>0. u \in Unit /\ mounted \subseteq Unit
  BY DEF Types, ServiceTypes
<1>1. CASE CheckSector0
  <2>1. pc = "sector0" /\ UNCHANGED world
    BY <1>1 DEF CheckSector0
  <2>2. CASE NoVolume
    BY <2>1, <2>2, QuietSearch DEF NoVolume, InitFails, Done, Answer
  <2>3. CASE Reaches(u, 0) /\ CheckFs(m[0]) = 0 /\ Analyze(m[0], 0)
    <3>1. HasVolume(m, 0) /\ Analyze(m[At(0)], 0)
      BY <2>3, AtTypes DEF HasVolume, Reaches
    <3>2. FirstVolume(m) = 0
      BY <3>1, FirstIsBlock0
    <3> QED
      BY <2>1, <3>1, <3>2, AnalyzeSearch
  <2>4. CASE /\ Reaches(u, 0) /\ CheckFs(m[0]) = 1
             /\ br' = m[0].parts /\ part' = 0 /\ pc' = "partition"
             /\ UNCHANGED <<state, mounted, bpb, req>>
    <3>1. ~HasVolume(m, 0) /\ u \in online
      BY <2>4, AtTypes DEF HasVolume, Reaches
    <3>2. /\ Untouched' <=> Untouched
          /\ \A v \in Unit : FirstBpb(v)' = FirstBpb(v)
      BY <2>1 DEF Untouched, FirstBpb, world
    <3>3. \A j \in 0 .. part' - 1 : FALSE
      BY <2>4
    <3> QED
      BY <1>0, <2>1, <2>4, <3>1, <3>2, <3>3 DEF SearchInv, world
  <2> QED
    BY <1>1, <2>2, <2>3, <2>4 DEF CheckSector0
<1>2. CASE CheckPartition
  <2>1. pc = "partition" /\ UNCHANGED <<br, world>>
    BY <1>2 DEF CheckPartition
  <2>2. part \in 0 .. 3
    BY DEF Types, SearchTypes
  <2>3. CASE VolumeAt(br[part])
    <3>1. Untouched => FirstVolume(m) = br[part]
      BY <2>1, <2>2, <2>3, FirstIsPartition DEF SearchInv, VolumeAt, Reaches, HasVolume
    <3>2. Analyze(m[At(br[part])], br[part])
      BY <1>2, <2>3 DEF CheckPartition
    <3> QED
      BY <2>1, <3>1, <3>2, AnalyzeSearch
  <2>4. CASE ~VolumeAt(br[part]) /\ part < 3
    <3>1. /\ part' = part + 1
          /\ UNCHANGED <<state, mounted, bpb, req, pc>>
      BY <1>2, <2>4 DEF CheckPartition, NextPartition
    <3>2. Untouched => br[part] = 0 \/ ~HasVolume(m, br[part])
      BY <2>1, <2>4 DEF VolumeAt, Reaches, HasVolume, SearchInv
    <3>3. Untouched => \A j \in 0 .. part' - 1 : br[j] = 0 \/ ~HasVolume(m, br[j])
      BY <2>1, <2>2, <3>1, <3>2 DEF SearchInv
    <3>4. /\ Untouched' <=> Untouched
          /\ \A v \in Unit : FirstBpb(v)' = FirstBpb(v)
      BY <2>1 DEF Untouched, FirstBpb, world
    <3> QED
      BY <1>0, <2>1, <3>1, <3>3, <3>4 DEF SearchInv, world
  <2>5. CASE ~VolumeAt(br[part]) /\ ~(part < 3)
    BY <1>2, <2>1, <2>5, QuietSearch
       DEF CheckPartition, NextPartition, NoVolume, InitFails, Done, Answer
  <2> QED
    BY <2>3, <2>4, <2>5
<1>3. CASE TransferBlock
  <2>1. pc' = "transfer" /\ UNCHANGED <<driver, drops, online>>
    BY <1>3 DEF TransferBlock
  <2>2. CASE UNCHANGED <<image, changes>>
    BY <2>1, <2>2, QuietSearch DEF driver, world
  <2>3. CASE changes' = changes + 1
    <3>1. ~Untouched'
      BY <2>3 DEF Untouched, Types, WorldTypes
    <3> QED
      BY <2>1, <3>1 DEF SearchInv, driver
  <2> QED
    BY <1>3, <2>2, <2>3 DEF TransferBlock
<1>4. CASE TransferEnds
  BY <1>4, QuietSearch DEF TransferEnds, driver, Done, Answer
<1>5. CASE TransferFails
  BY <1>5, QuietSearch DEF TransferFails, Done, Answer
<1>6. CASE PollForEver
  BY <1>6, QuietSearch DEF PollForEver, driver
<1> QED
  BY <1>1, <1>2, <1>3, <1>4, <1>5, <1>6 DEF Step

\* A unit that begins to answer does not disturb it, and any other change ends the
\* time it speaks of.
LEMMA WorldSearch == Types /\ SearchInv /\ World => SearchInv'
<1> SUFFICES ASSUME Types, SearchInv, World PROVE SearchInv'
  OBVIOUS
<1>1. CASE Reboot
  BY <1>1 DEF Reboot, SearchInv
<1>2. ASSUME NEW v \in Unit, Drop(v) \/ Exchange(v) PROVE SearchInv'
  <2>1. ~Untouched' /\ UNCHANGED <<driver, req, pc>>
    BY <1>2 DEF Drop, Exchange, Untouched, Types, WorldTypes
  <2> QED
    BY <2>1 DEF SearchInv, driver
<1>3. ASSUME NEW v \in Unit, Appear(v) PROVE SearchInv'
  <2>1. /\ online \subseteq online'
        /\ UNCHANGED <<driver, req, pc, search, image, drops, changes>>
    BY <1>3 DEF Appear
  <2>2. /\ Untouched' <=> Untouched
        /\ \A w \in Unit : FirstBpb(w)' = FirstBpb(w)
        /\ mounted \subseteq Unit
    BY <2>1 DEF Untouched, FirstBpb, Types, ServiceTypes
  <2> QED
    BY <2>1, <2>2 DEF SearchInv, driver, search
<1>4. CASE RebootAstray
  BY <1>4, QuietSearch DEF RebootAstray, driver
<1> QED
  BY <1>1, <1>2, <1>3, <1>4 DEF World

\* The BPB of a mounted unit is that of the first volume of the disk, whatever was
\* searched and failed before, for every disk and every number of units.
THEOREM BpbFound == Spec => []BpbIsFirstVolume
<1>1. Init => SearchInv
  BY DEF Init, SearchInv
<1>2. Types /\ DriverInv /\ SearchInv /\ [Next]_vars => SearchInv'
  <2> SUFFICES ASSUME Types, DriverInv, SearchInv, [Next]_vars PROVE SearchInv'
    OBVIOUS
  <2>1. CASE UNCHANGED vars
    BY <2>1, QuietSearch DEF vars, driver
  <2> QED
    BY <2>1, RequestSearch, StepSearch, WorldSearch DEF Next
<1>3. SearchInv => BpbIsFirstVolume
  BY DEF SearchInv, Untouched, BpbIsFirstVolume, FirstBpb
<1> QED
  BY <1>1, <1>2, <1>3, TypesHold, DriverInvariant, PTL DEF Spec
=============================================================================
