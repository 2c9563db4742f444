# LPTStore: specifications, checks and proofs

LPTStore gives an old PC a hard disk over its parallel port: a DOS device driver
talks to a Raspberry Pi Pico, which has a USB stick with sixteen disk images
(DISKA.DAT to DISKP.DAT) behind it. This directory holds TLA+ modules of that
system, the TLC configurations that check them on small instances, and theorems
about them that TLAPS checks for every value of the constants. `PROJECT.json`
maps every definition to the lines of the source it stands for.

    tlc -config link_sync.cfg MCLptLink     # a run: the table "Runs" names module and cfg
    tlapm LptLinkProofs.tla                 # the proofs of a module

## 1. The system

```
  DOS --requests--> DRIVER.C --calls--> LPTSTORE.C ==parallel port== lptcomms.c <-- lptprotocol.c
                     DosDriver          (PC)          LptLink        (Pico, core 1)    LptProtocol
                                        compression on both sides: ZeroRle                  |
                                                                      disk.h: fat32.c lookups (DiskCatalog)
                                                                                            |
                              USB stick <==TinyUSB (core 0)== msc_app.c read_sector/write_sector
                                                                       SectorCache
```

| Component | State | Operations | Correct when |
|---|---|---|---|
| Port handshake (`lptcomms.c`, `read_byte`/`write_byte` of `LPTSTORE.C`) | five lines each way: a strobe and a nibble from the PC, an acknowledge and a nibble from the Pico; the program counters | the port accesses of a byte; timeouts of 200 ms on the Pico, none on the PC | every byte arrives once with its value; the two sides stay in step; no timeout hits a PC that is working; calls end |
| Block protocol (`lptprotocol.c`, `LPTRead`, `LPTWrite`) | the call, the block within it; the command being received, the static `buff` | five commands, replies raw, compressed or an error | both agree on all lengths; a call reads and writes the blocks it names; success means stored |
| Compression (three copies of `LPTCompress`/`LPTDecompress`) | run length, output | compress, expand | lossless; inside its buffer; a length that the header can carry |
| Sector access (`msc_app.c`) | `complete`, `prefetching_complete`, `result`, `prefetching_lba`, `prefetching_buff`, shared by two cores without a lock | `read_sector` with read-ahead, `write_sector`; completion callback | no wake-up lost; buffers not touched during a transfer; reads return the medium |
| Disk catalog (`fat32.c`) | `disk_lba`, `disk_blocks`, `disk_cluster`, `disk_bitmap`, `cfg_*`, one cached FAT sector | `init_disk` after an insertion; lookups of `disk.h` | a disk is its file, sector by sector; exactly the unbroken files are announced; the walk ends |
| Tick counter (`get_ticks`, `LPTInit`) | `timebase`, `lastticks`; the clock of the BIOS | the pause before the port is used | it is as long as it should be, and not longer, at any time of the day |
| DOS driver (`DRIVER.C`, `find_volume`) | `InitNeeded`, `disk_initialized`, sixteen BPBs, INT 19h | eleven kinds of requests, one at a time | no transfer before the volume is known; BPBs are those of the disks; requests end; INT 19h leads somewhere |

How they interact: `LPTRead` and `LPTWrite` are synchronous calls that poll the
port; core 1 of the Pico runs `lptprotocol_task` and `msc_task` in a loop
(`lptstore.c:84-86`), and its calls of `read_sector` block until core 0, which
runs `tuh_task` (`lptstore.c:125-128`), has called the completion callback.
Insertion reaches core 1 as an event flag, removal as a flag read at every call.

What is hard here: two unclocked processors on the port, with a timeout on one
side only; two cores with five shared words and no lock; a stick that may be
pulled out at any moment; a PC that is stopped, or booted again, in mid-byte;
protocol lengths that each side derives on its own; errors half way through a
request. `PROJECT.json` lists these under `hazards`, each at its line, with the
properties that cover it or the reason why none does.

## 2. Modules

| Module | Stands for | Variables ↔ code, actions |
|---|---|---|
| `LptLink` | the handshake, one port access per action | `strobe`,`hdata` the PC's output port; `ack`,`tdata` the Pico's pins 19 and 16-20; `hpc` and `tpc` the next access of `write_byte`/`read_byte` and of `lptcomms_readbyte`/`_writebyte`. Contents and lengths of messages are left open (`ReqLen`, `RepLen` by command) |
| `BytePipe` | abstract: a half-duplex channel of one byte | implemented by `LptLink` (`CarriesBytes`) |
| `LptLinkProofs` | theorems on `LptLink` | |
| `ZeroRle` | the code as pure operators | `EncOut`, `EncRun`, `EncFull` a turn of the loop of `LPTCompress`; `LPTCompress` a closed form, independent of the loop; `DecAdds`, `DecOverflows`, `LPTDecompress` likewise |
| `RleMachine` | the two loops as steps | a sector compressed, sent raw or expanded |
| `ZeroRleProofs`, `RleProofs` | theorems on the operators of `ZeroRle`, and on `RleMachine` | |
| `LptProtocol` | `LPTRead`, `LPTWrite` and `lptprotocol_task`, one byte per action | `call`, `done` the call and its `j`; `hout`, `hin` bytes to send and received; `tin`, `tout`, `buff` the target's; `ack` the level of gpio 19 that an idle target was left with. Compression is that of `ZeroRle`. `Garbled` is a byte between two sides that are not in the same half of it |
| `BlockDevice` | abstract: calls that read and write consecutive blocks and stop at the first failure | implemented by `LptProtocol` (`ServesBlocks`; with a PC that is stopped, as far as `InStepServesBlocks` says) |
| `LptProtocolProofs` | theorems on `LptProtocol`, over those of `ZeroRleProofs` | |
| `SectorCache` | `read_sector`, `write_sector`, callback, one access to a shared word per action | variables are named after the code's (`pfLba` is `prefetching_lba`); `cmd` is the command inside TinyUSB; `cut`, `aged`, `outdated`, `crossed` record for the properties what became of a transfer, how old a buffer is, and whether a flag was cleared over a callback |
| `SectorCacheProofs` | theorems on `SectorCache` | |
| `DiskCatalog` | `init_disk` with all its helpers, one sector or cluster per action; lookups of `disk.h` | `disk[d]`, `cfg` the tables, `bitmap` the drives, `cache` the FAT sector; `Drives`, `Blocks`, `Address` the lookups |
| `DiskCatalogProofs` | theorems on `DiskCatalog` | |
| `TickClock` | `get_ticks` and the pause of `LPTInit` | `hi`, `lo` the words of INT 1Ah; `Read` a call of `get_ticks`; `elapsed` the ticks that have really passed |
| `TickClockProofs` | theorems on `TickClock` | |
| `DosDriver` | all requests of `LPTDriver`, with `find_volume`, one block transfer per action | `initNeeded`, `mounted` (`disk_initialized`), `bpb`, `partitionOffset`, `vector` (the address that INT 19h leads to) |
| `DosDriverProofs` | theorems on `DosDriver` | |
| `MCLptLink`, `MCLptProtocol`, `MCDiskCatalog`, `MCDosDriver` | instances for TLC | constants only |

`TickClock` supplies what `LptLink` assumes at start-up (`HostInitDone`: the pause
outlasts every timeout), `LptLink` what `LptProtocol` assumes (a byte goes over at once, and again after a halt
from the first call that begins with the target idle and its acknowledge low:
`InStepAgain`), and `LptProtocol` what `DosDriver` assumes (a block goes over at once,
or fails, or the PC polls for ever);
`DiskCatalog` assumes `read_sector` to be atomic, which `SectorCache` takes
apart. The refinements to `BytePipe` and `BlockDevice` are the interfaces at
which they meet.

Names that end in `Variant of ...` comments (`TargetGetDownAtOnce`,
`EncFullLate`, ...) are plausible mistakes in the definition behind them. They
are part of no specification: putting one in place of its original must break
the property listed with it in `PROJECT.json`, which shows that the property
depends on that piece of the code.

## 3. Runs

| Run | Module | Shows |
|---|---|---|
| `link_sync` | MCLptLink | PC never stopped in mid-call. `InSync`: the two program counters, the lines, the byte indices and the values in flight agree, place by place. `CarriesBytes`: refines `BytePipe`. `NoCommandDropped`: no timeout ends a command. `RoundCompletes`: every call ends |
| `link_halt` | MCLptLink | PC stopped up to twice anywhere, going on or booted again, replies raised before it looks: the Pico always comes back to waiting for a command (`TargetReturns`); a call that begins with it there and the acknowledge low is in lockstep, and stays so until the next halt or a reply that outruns the PC (`InStepAgain`) |
| `rle_roundtrip` | RleMachine | all 6561 sectors of eight bytes of three values: `RoundTrip`, `NeverAhead` (at any time the receiver holds a prefix of the data), `NeverFails`, `LengthHeader`, `OverrunByOne`, `ComputesCode` (loops = closed forms) |
| `proto_sync` | MCLptProtocol | calls of one and two blocks, raw and compressed, over the end of a unit, unknown unit: `Agreement` on lengths, `ServesBlocks` (refines `BlockDevice`), `CallReturns` |
| `proto_halt` | MCLptProtocol | PC stopped once anywhere, going on or not; data that look like commands. `TargetRecovers`: the target always comes back to waiting for a command (`TargetReturns` of the handshake, one level up). `InStepServesBlocks`: what happens before the target gives up a command, and from the first call that finds it idle with its acknowledge low, is steps of the block device. `InStepReturns`: a call in step returns |
| `cache_reads` | SectorCache | reads, read-ahead and writes that may fail, removals and exchanges, all interleavings of the two cores: `BufferHandOver` (core 1 and the controller never share a buffer), `ReadReturnsMedia`, `WritesMedia` (success means read, or stored, and nothing else changed), each with the exceptions it names; see below |
| `cache_live` | SectorCache | reads and writes that may fail, a removal, all interleavings: `WakeUpComes`, `CallsReturn` |
| `catalog` | MCDiskCatalog | thirteen sticks, plugged in twice: `DiskIsFile`, `DrivesAreUnbrokenFiles`, `DrivesAreServed`, `InitReturns`, `WalkAdvances` |
| `driver` | MCDosDriver | all requests, two units, four kinds of disks, units that drop out and come back, one change of a disk: `MountedBeforeTransfer`, `BpbIsFirstVolume`, `RequestReturns` (no request loops in the driver itself; it may poll the port for ever) |
| `ticks` | TickClock | the pause begun at every time of the day: `PauseIsLong` (but for a lower word that begins anew), `PauseIsBounded` |
| `cache_stale` | SectorCache | **violated**: `ReadReturnsWritten`; finding 1 |
| `proto_lost_write` | MCLptProtocol | **violated**: `ReportedIsStored`; finding 2 |

Each passing run also checks its module's type invariant where the table of
`PROJECT.json` says so.

### In step again: `LptLink` and `LptProtocol`

When the PC stops in mid-byte, `getDown` gives up with gpio 19 high
(`lptcomms.c:72-75`). The Pico is then at rest and a new call is nevertheless not in
step: its first wait passes on the old acknowledge, and a byte is lost, or put together from
the nibbles of two, or waited for for ever. So "the target is idle" does not say that the two
sides are in step. `LptLink` shows what does: idle *and* acknowledge low, with a call
that begins (`InStepAgain`, checked in `link_halt` and proved as `StaysInStep`).
`LptProtocol`, where a byte is one step, carries that over: `ack` is the line of an idle
target, `slipped` is set when the target gives up and is cleared by `Start` only
with the target idle and `ack = 0`. `GivesUp` leaves the line at either level. While
`slipped`, `Garbled` lets each side take or lose a byte, of any value in `Noise`, whatever
the other does: more than the two can do, so what is shown for calls in step does not
depend on how the lines fell. Nothing makes a garbled byte happen, since a PC that has missed
an edge waits for ever.

### The exceptions of the properties of `SectorCache`

`Spec` has every interleaving of core 1 with the three assignments of the callback,
writes that begin at any time, and transfers that fail. What the
code promises without a lock is less than one would like, and the properties say how much:

- `crossed`: core 1 has cleared a flag that the callback of an earlier command was
  still to set. There are two ways to it: `write_sector`, which unlike `read_sector` does
  not wait for the read-ahead, clears `complete` while one is under way
  (`msc_app.c:83-92`) and may then end with it; and a core 1 so fast that it clears
  `prefetching_complete` between two assignments of the callback (`msc_app.c:44-51`).
  A sector of zeros is a request of about ten bytes, so a write that meets a read-ahead is nothing
  unusual. It excuses all three properties, and lasts until a call begins with no transfer
  under way and `prefetching_buff` in order.
- `cb = "none"` in `WritesMedia`: `result` is set last, behind the flag that ends the
  wait, so that `return result` may return that of the command before.
- `outdated`: the stick was exchanged during the call; or a read took its sector from a
  `prefetching_buff` that is `aged` (its read-ahead failed, its sector has been written
  since, the stick exchanged, or `prefetching_lba` has moved on); or the transfer of
  a read failed, and `result` is that of its read-ahead.

Each exception is needed: section 5 has the properties without them.

### Findings

1. **A write does not invalidate the read-ahead.** Read block n, write block
   n + 1, read block n + 1: the last returns what was there before
   (`msc_app.c:62-63, 83-92`).
2. **A write can be reported as done that was not.** A PC stopped for more than
   200 ms in the data of a write goes on to send data that the Pico takes for
   commands; a 0 or 1 among the last bytes is answered with a 0, which the PC
   takes for the status of the write.

More disagreements are listed under "Known deviations" with the way to
reproduce them, among them: `LPTCompress` may write one byte behind its buffer
(`FitsBuffer`), the re-initialisation that DRIVER.C:154-156 announces does
nothing (`Reinitialises`), and the reboot vector that DRIVER.C:408 registers does not
lead to `Shutdown` (`VectorIsShutdown`).

### Bounds, and why they are enough

- `LptLink`: nibbles 0 and 1, so that a nibble can be told from its predecessor
  and from the other half of its byte; three commands with 1 to 3 bytes of
  request and of reply, so that first, middle and last bytes occur both ways
  and all turnarounds; two halts, so that a second one finds what the first
  left behind.
- `ZeroRle`: a byte has three values (0, 1, 2): runs of 1, 2 and 3 zeros are
  one below, at and above the longest (255 in the code). Eight bytes hold two
  such runs and the bytes around them, and every way to reach the limit.
- `LptProtocol`: bytes 0 to 4 are the five commands; blocks of seven bytes make
  lengths of two digits, raw and compressed.
  `proto_halt` has calls whose data end in a byte that is a command, spell a
  whole write command, compress, or run over the end of the unit, and one halt:
  anywhere in them, and long enough for what the target makes of the rest. Two garbled
  bytes, of value 0 (`Noise`): a first one can open a command or lose a byte, a second
  meets what that left. In `proto_sync` and `proto_lost_write` no byte is garbled: the
  first has no halts, and the second shows its violation without any.
- `SectorCache`: a read-ahead needs two sectors, of which the last has none behind
  it; two values distinguish two contents. Two removals let a second stick
  meet what the first left behind, and a third what the second did. For
  `cache_live` one value and one removal will do: it is about flags. `cache_stale` has
  three sectors, no failures and no removal, so that finding 1 stands alone.
- `TickClock`: words of 8, a day of two and a half of them, a pause of 5 and polls
  at most 2 ticks apart: a pause meets at most one of carry and midnight, as 36
  ticks do, and begins at every place relative to them.
- `DiskCatalog`: two disks and the configuration, five clusters over two FAT
  sectors of four entries (128 in the code), so that chains cross from one to
  the other; clusters of one and of two sectors. Two insertions, so that what
  the first stick left behind is met.
- `DosDriver`: two units, so that an error on one meets the other; `Span` 3
  for 2^16, so that block numbers wrap; disks without a partition table, with
  one, with a partition that cannot be reached and without a volume; one drop
  and one change, anywhere; requests of up to two blocks. The code begins at 16 and
  `Shutdown` is 3 bytes into it: any distance that is not 0 tells the vector from
  the address it should be.

### Fairness

Weak fairness of the PC's next port access and of the Pico's next step
(`LptLink`, `LptProtocol`), of either core (`SectorCache`), of core 1
(`DiskCatalog`), of the driver inside a request (`DosDriver`): a running
processor executes its next instruction. Nobody has to make a call, plug in or
pull out anything, halt or resume. In `SectorCache` core 0's fairness includes
the controller: a command that was accepted is completed or, with a removal,
dropped. In `LptProtocol`'s `Spec` a due timeout expires. In `SectorCache` no more is assumed of
the two cores, nor of how long anything takes. In `DosDriver` the fairness of `Step` includes
the choice between an error and polling for ever: it says that the driver's own loops
go on, not that the adapter answers.

Some specifications state timing that the code relies on and does not enforce:

- `LptLink!LiveSpec` has a PC that polls the low acknowledge before the reply
  raises it (`HostStillPolls`). Writes and reads of a stick take milliseconds;
  for replies that need no stick see "Known deviations". `FastSpec` and `Spec`
  are without this.
- `HostIsLate`: 200 ms pass only if the PC makes no port access next. A PC
  executes its next `IN` or `OUT` within microseconds.
- `HostInitDone`: the 36 ticks (2 s) that `LPTInit` waits outlast every timeout.
  That it does wait so long is `PauseIsLong`.
- `TickClock!Lag`: the loop of `LPTInit` polls the clock at least every few ticks
  (55 ms each), fewer than the lower word has at the end of a day.

## 4. Proofs

TLAPS checks these for every value of the constants that satisfies the named
assumptions. Every safety property of a passing run, invariant, action property
or refinement, is the statement of a theorem; liveness is not.

| Theorem | Statement | Argument |
|---|---|---|
| `LptLinkProofs!TypeCorrect` | `PromptSpec => []TypeOK` | one step per action |
| `LptLinkProofs!Synchronised` | `PromptSpec => []InSync` | `InSync` is inductive together with `TypeOK`: for each place of the PC it lists the places of the Pico, the levels of both lines, and how the byte counters compare; with it most pairs (PC step, Pico step) are excluded outright |
| `LptLinkProofs!CommandsKept` | `PromptSpec => NoCommandDropped` | under `InSync` no wait of the Pico is one that `HostIsLate` allows to expire |
| `LptLinkProofs!StaysInStep` | `Spec => InStepAgain` | the steps of `InSync`, from any state that `TypeOK` allows in which a call begins with the Pico idle and the line low; `Lowered` adds that the PC's strobe is then low too |
| `LptLinkProofs!Implements` | `PromptSpec => CarriesBytes` | refinement mapping `lineBar`: the channel holds a byte from the first strobe of its sender to the last of its receiver; each step is a `Put`, a `Get` or a stutter |
| `ZeroRleProofs!CodecLossless` | for every sector that `LPTCompress` makes shorter, `LPTDecompress` returns it | readings of a code; see below |
| `RleProofs!Lossless`, `HoldsPrefix`, `ExpansionSucceeds`, `Bounded`, `LengthFitsHeader`, `TypesKept` | `Spec => []` of `RoundTrip`, `NeverAhead`, `NeverFails`, `OverrunByOne`, `LengthHeader`, `TypeOK` | one invariant, `RleInv` |
| `RleProofs!LoopsComputeCodec` | `Spec => []ComputesCode` | the same: the loops are the functions of `ZeroRle`, turn by turn |
| `LptProtocolProofs!TypesKept` | `Spec => []TypeOK`, `PromptSpec => []TypeOK` | `ProtoInv`; see below |
| `LptProtocolProofs!LengthsAgree` | `PromptSpec => []Agreement` | `ProtoInv` |
| `LptProtocolProofs!BlocksServed` | `PromptSpec => ServesBlocks` | refinement mapping `doneBar`, `gotBar`, `failedBar`: the block counts as moved from `exec` on; each step is one of `BlockDevice` or a stutter |
| `LptProtocolProofs!InStepServed` | `Spec => InStepServesBlocks` | the same steps, where the part `InStep` of `ProtoInv` is at hand |
| `SectorCacheProofs!TypesKept`, `NoWakeUpIsLost` | `Spec => []TypeOK`, `Spec => []WakeUpComes` | `Types`, `Wake`: all interleavings of the two cores |
| `SectorCacheProofs!BuffersAreHandedOver`, `WritesReachTheStick` | `Spec => []BufferHandOver`, `Spec => WritesMedia` | `HandOver`, `Writes` on top of `Types` |
| `SectorCacheProofs!ReadsReturnTheStick` | `Spec => ReadReturnsMedia` | `Ahead`, `Reads` on top of `HandOver` |
| `DiskCatalogProofs!TypesKept`, `WalksAdvance`, `ServedDrives` | `Spec => []TypeOK`, `Spec => WalkAdvances`, `Spec => []DrivesAreServed` | `Types`, `ServedInv`; for any FAT, consistent or not |
| `DiskCatalogProofs!UnbrokenFilesAreDrives`, `DisksAreFiles` | `Spec => []DrivesAreUnbrokenFiles`, `Spec => []DiskIsFile` | `CatalogInv`; see below |
| `TickClockProofs!LongEnough`, `NotTooLong`, `TypesKept` | `Spec => []PauseIsLong`, `Spec => []PauseIsBounded`, `Spec => []TypeOK` | see below |
| `DosDriverProofs!Mounted` | `Spec => []MountedBeforeTransfer` | `pc` and `req` determine which unit a search is for; a unit leaves `initNeeded` only when mounted |
| `DosDriverProofs!TypesKept`, `BpbFound` | `Spec => []TypeOK`, `Spec => []BpbIsFirstVolume` | the tables' types; `SearchInv` |

### What is assumed

Each assumption is evaluated by TLC on the instances of the runs.

- `LinkAssumption`: a nibble set with 0, commands with requests and replies of
  positive length. `RleAssumption`: a byte and a sector are not empty.
- `ProtocolAssumption`: a byte holds the five commands; two hold the length of a
  sector; garbled bytes are bytes, any of them. `CallAssumption`: DOS asks for at least one block and for none beyond the
  last that a `WORD` counts. Beyond that, `lbn++` in `LPTRead` and `LPTWrite` goes on at
  block 0, and the call is not one on consecutive blocks.
- `CacheAssumption`: a stick of at least one sector; any contents, any number of
  removals.
- `CatalogAssumption`: what the arithmetic of `fat32.c` needs on any stick, consistent or
  not: clusters of at least one sector, data behind them, numbers in the FAT. A
  FAT sector that is read is one of the stick. `FileSystemAssumption`: a
  consistent file system: names are unique, the directory's sectors are those of its
  chain, a file has the clusters that its size asks for. Only
  `DrivesAreUnbrokenFiles` and `DiskIsFile` rest on the second.
- `DriverAssumption`: types of blocks and options. `LayoutAssumption`: the code lies
  behind the data, within the reach of an offset. `ClockAssumption`: a day is longer
  than a turn of the lower word and a pause; polls are close enough.

### Arguments

`ZeroRleProofs`, `RleProofs`: a code byte is understood from at most the two bytes
in front of it, so the proofs carry a *reading* of a code: a function from
code positions to data positions that is extended when the encoder writes, such
that every written byte is a literal equal to its datum, or a zero that opens a
run, or a count that closes one. While the encoder runs, the open run are the
last `c` data; while the decoder runs, it has restored exactly the data up to the
position it has reached. `RoundTrip` alone is not inductive: it says nothing
before the end. The same reading proves the closed forms of `ZeroRle`
inverse to each other (`CodecLossless`), and `RleInv` ties the loops to them: what
has been written is `Code(data, i)`, the open run `OpenRun(data, i)`. The early
`return 0` of `LPTDecompress` is a branch of `Expand` that this
excludes; only a code that was never compressed, such as data taken for a
command, can reach it, and the protocol's theorems allow for what it then leaves
in `buff`. The library's induction theorems have an operator as a
parameter, which the provers cannot instantiate; induction over the bytes
of a sector, or over a chain of clusters, is by the least counterexample instead
(`LeastNumber`, from the library's well-foundedness of `<`).

`LptProtocolProofs`: `Agreement` says that the lengths agree, not what has been
sent, and does not survive a step. Two invariants together do. `Sound` is of each
side alone and holds even when the bytes that arrive are anything: a request is
complete when it is as long as its first byte, and for compressed data its length
bytes, say, so a command that is executed has all its parts. `InStep` relates the
two: what the target has and what the PC still has to send are the request, what
the PC has and what the target still has to send are the answer. It holds unless
the target has given up a command, and again from a `Start` with the target idle and the line
low; a garbled byte is a step outside of it, for which `Sound` is all there is. `RequestRead` and `AnswerIs` show that the
receiver, from the bytes it has, wants exactly the rest; `CodecLossless` and
`WordArrives` that it finds in them what was put in. The hard step is the last
byte of a message, after which the two must still agree on whose turn it is.

`SectorCacheProofs`: `WakeUpComes` speaks of a core that spins on a flag. `Wake` adds the
places before: a flag is cleared before its command is submitted, and without a stick
there is no command; so whoever comes to wait has a command that runs, a callback
under way, or one that was cut off. `HandOver` adds, unless `crossed`, which transfer and
which assignment of the callback go with which place of core 1, so that a flag that is seen
set was set by the command waited for. `Writes` says when, place by place, the data
are on the stick, and what `result` will be if the callback has not stored it yet;
`Ahead` what `prefetching_buff` holds unless it is `aged`, and which commands under
way make it so; `Reads` that the caller's buffer holds the sector from the transfer, or
the copy, on. Failures, removals and overtaken callbacks are in all of them.

`DiskCatalogProofs`: `WalkAdvances` needs no more than types: a gap ends the walk, and
so does a circle. The two statements on files follow `init_disk` through its
loops: which sectors of the root directory are still ahead (`Ahead`), so that no
entry is missed; that the sector in the cache is the one its offset names, so that
`next_cluster` follows the FAT (`FollowsFat`); which clusters have been walked
(`Walked`), all consecutive; and, of the disks behind, that the bit is right
(`Checked`). At the end `UnbrokenChain` turns "walked without a gap" into "the k-th
cluster is the first one plus k", which is what `Address` computes.

`TickClockProofs`: the end of the pause says nothing of its middle. While it
lasts, `Polling` relates the clock to what the last call of `get_ticks` saw: it
is `lag` ticks further, or has begun anew exactly once and then stands below
`lastticks`, so that the next call notices, adds a day, which is longer than the
pause (`DayIsLong`), and ends it. The width of a word and the length of a day are
left open, so the numbers of the PC are an instance.

`DosDriverProofs`: `MountedBeforeTransfer` speaks of transfers only, but whether
one may begin is decided in the middle of a search that serves two callers. The
invariant adds for whom the search runs: for `Initialize` the driver is not
loaded and `InitNeeded` is set for every unit, so that mounting unit 0 completes
it; for a transfer the driver is loaded and the unit searched is the request's.
A PC that polls for ever is one more place, in which neither matters.
`SearchInv` adds, for `BpbIsFirstVolume`, what the search has passed by: block 0 and
the partitions before the one it is at have no volume, and the table it
holds is that of block 0.

### Only model-checked

All liveness (`RoundCompletes`, `TargetReturns`, `CallReturns`, `TargetRecovers`,
`InStepReturns`, `CallsReturn`, `InitReturns`, `RequestReturns`), which is out of
this prover's reach, as `ENABLED` is; and the two runs that show a violation. No module uses
`RECURSIVE`.

## 5. Known deviations

Stated as properties but violated by the code for the reason given, and kept
out of the runs so that each run asks one question. To reproduce one, take the
cfg named, with the changes.

| Property | cfg, changes | Why |
|---|---|---|
| `RoundCompletes` | `link_sync`, `FastSpec`, this property only | a reply that is ready at once (QUERY_DISK_CAPS, no stick) raises the acknowledge before the PC has polled it low; both then wait, the Pico for 200 ms, the PC for ever |
| `InitEstablishes` | `link_halt`, `HaltSpec`, as an INVARIANT | a timeout between two nibbles leaves the acknowledge high (`lptcomms.c:72-75`), and a reboot finds it so |
| `ResumedCallReturns` | `link_halt`, `HaltSpec`, MaxHalts 1 | the PC polls without a timeout: after a halt that the Pico did not wait for, its call may never return |
| `OnlyNamedBlocks` | `proto_lost_write`, Calls <- MCAsWriteCalls | data of an abandoned write that spell a write command are executed |
| `BufferHandOver`, `WritesMedia`, `ReadReturnsMedia` without `~crossed` | `cache_reads`, this property only | the callback of a read-ahead acknowledges the write behind it, or its late `prefetching_complete = 1` overwrites the 0 of the next read-ahead; the caller's buffer is used again while the controller still has it |
| `WritesMedia` without `cb = "none"` | `cache_reads` | `complete` is set before `result` (`msc_app.c:47-49`): the result returned may be that of the command before |
| `ReadReturnsMedia` without `~outdated` | `cache_reads` | finding 1; the read-ahead survives an exchange of the stick; `result` belongs to no command in particular: after a direct read that failed it may be that of the read-ahead |
| `CallsReturn` without `cut` | `cache_live` | a command dropped by a removal has no callback, and a refused read-ahead leaves `prefetching_complete` 0: core 1 waits for ever |
| `FitsBuffer` | `rle_roundtrip`, SectorLen 6, as the only INVARIANT | `LPTCompress` writes one byte behind its buffer when it has written 511 bytes, a run of zeros is open and a byte that is not 0 follows: the length is tested behind a turn that may write two (`lptprotocol.c:25-34`, `comp.c:71`). The driver's copy has a larger buffer. `OverrunByOne` (checked and proved) says that it is never more than one |
| `Reinitialises` | `driver`, as the only PROPERTY | "we also set global flag to force a controller initialization before the next operation" (DRIVER.C:155): the flag is set, but the initialisation it leads to does nothing for a unit that was mounted before (`LPTSTORE.C:150-152`) |
| `PauseIsLong` without `turned` | `ticks` | `_CX << 16` is 0: the lower word begins anew every hour and a day is added (`LPTSTORE.C:557-560`), so the pause ends at once |
| `VectorIsShutdown` | `driver`, as the only INVARIANT | DRIVER.C:409-410 corrects the offset for `_DS`, 412 pairs it with the segment `_CS`: INT 19h leads `(_CS - _DS) * 16` bytes past `Shutdown`, and a reboot by it leads nowhere |
| `RequestReturns` without `"polling"` | `driver`, as the only PROPERTY | the loops at LPTSTORE.C:361-365, 408-412 and 421-426 have no timeout: without an adapter, after a transfer cut off by a removal, or when an error is answered at once, the reply never comes or is not seen |
| `VolumeIsServed` | `driver`, as the only INVARIANT | `partition_offset` is never added: on a disk image with a partition table DOS reads the table for the boot sector |
| `BpbComesFromDisk` | `driver`, as the only INVARIANT | `BuildBPB` hands out the template of `HEADER.ASM` for units not accessed yet |
| `DiskIsFile` without `plugs = 1` | `catalog` | addresses of the last stick's disks are not cleared (`fat32.c:215`); a stick without a file system leaves them all |
| `InitReturns` without its exceptions | `catalog` | a stick pulled out between two clusters of the root directory: the cached FAT sector sends the walk in a circle |
| `DiskIsFile` without `InFirstPiece`, `DrivesAreServed` for the configuration | `catalog` | a CONFIG.BIN with gaps is not announced but still served, beyond its first piece (`fat32.c:246-248`) |

Read in the source, not checked: `IOCTLQuery`, media checks and `OUTPUT_VERIFY`
answer without regard to the unit or a verification; `case 'd', 'D'`
(`DRIVER.C:475`) accepts the capital only; README.TXT's options /k and /p are
not parsed; an I/O error on one partition lets the search go on with the next
(`LPTSTORE.C:173-175`); a failed inquiry leaves a stick unread; the message of
`fat32.c:265` names CONFIG.DAT where the code looks for CONFIG.BIN.

The driver sends no queries: `ExecQuery`, what the target does with a byte that it
takes for one, is a step of `Spec` only.

## 6. Not modelled

- Message formatting (`CPRINT.C`), debug output, `dump_sector`: pure I/O.
- Stack switching and segment arithmetic of `HEADER.ASM` (that of the reboot vector,
  in `DRIVER.C`, is modelled), GPIO set-up, start-up
  of board and second core: hardware glue.
- TinyUSB and the DOS kernel are external and modelled by how they are used:
  one command at a time, callback at completion, drop at removal; one request
  at a time.
- `diskfake.c` and the `FAKE_LPT` parts of `LPTSTORE.C` (a pool of blocks in memory
  for tests, in neither build; a sequential search without the behaviour of the
  stick it stands in for), `usbhost/` (the
  TinyUSB example), `trials/` (Pascal experiments), Docker and CMake files.
- Undefined memory: what lies behind `compress_buff`, `disk_lba` and the like
  when an index runs over.

## 7. Plan

Done, in this order: handshake, compression and their proofs; protocol; sector
access; catalog; driver; then a PC that is stopped, removal and exchange of
sticks under reads and writes, and the tick counter with its proofs; then the
proofs of sector access, catalog, driver, the codec as functions, and the protocol
as a block device.

Next, modelling: (a) composition of `SectorCache` under `DiskCatalog`'s lookups:
`Address` followed by `read_sector`, with a removal between. (b) `LptProtocol`
with a receive buffer of fixed length, for the unchecked `compressed` of
`lptprotocol.c:125`. (c) `DosDriver` over `BlockDevice` instead of a block per
action.

Next, proofs: the safety half of the liveness properties, which is where their
arguments lie. For `CallsReturn` it is proved (`NoWakeUpIsLost`) and for
`InitReturns` in part (`WalksAdvance`); for `RoundCompletes` it would be a measure that each
port access lowers, under `InSync`; for `CallReturns` the same over the bytes
left in `hout`, `hin` and `tout`, under `ProtoInv`; for `TargetReturns` and
`TargetRecovers` an invariant of the Pico alone, whatever the lines do, that every wait
it is in has a timeout or a level that ends it.
