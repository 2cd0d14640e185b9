# Jemu64: specifications and proofs

TLA+ models of the parts of Jemu64 (a C64 with 1541 drives on an IEC serial bus) whose
correctness is a matter of protocol, order and bookkeeping. The bus between the two clock
domains; the drive as an endpoint of that bus, bit by bit, with its board, its processor, its
block map, catalogue and command channel, its images and its read channel; the 6510 with its
micro-operations and interrupts in the main loop; the VIC's hold on the bus, its pipeline and
raster interrupt; the CIAs; the banks of the C64; and the console that lays the cables.
`PROJECT.json` maps every definition to the lines it stands for, lists the runs, the mutants (a
plausible bug for each property), the hazards of the code and the theorems.

Run a model with `tlc -config X.cfg M` and check a proof module with `tlapm M.tla`.

## 1. Inventory

| Part | State | Operations | What is hard about it |
|---|---|---|---|
| IEC bus domain, `src/iec_bridge.hpp` (`IecBusDomain`) | two clocks, a priority queue of timed events, three line models, the pulls that reached the wires | `tickHalfCycle`, attach a device, enable or disable a domain | event order at one timestamp, a rise event outdated by a new pull, latencies longer than a pulse, jitter |
| 1541 as an endpoint, `src/drive_1541.hpp`, `drive1541_physical/drive_power_controller.hpp` | power state and timer, what it knows of the C64's power, lines, receive queue, listening, talking, channel, name and command buffers, pulls | `setDrivePower`, `setC64PowerState`, `setIecLines`, `tickIecHalfCycle`, `enqueueIec...Byte`, `reset` | power changes in the middle of a transfer; bytes queued before the change, processed after it |
| 1541 serial engine (`stepIecSerial`) | phase, bit counter and shift register, acknowledge and timeout counters, talk buffer | one step per half cycle, ATN edges | EOI, acknowledge and timeout races, ATN preempting a talker |
| 1541 board (`tickIecHalfCycle`, `drive_iec_port`, `drive_via_domain`, `drive_signal_model`) | two VIAs, the latches of the port, countdowns of pulls, counters of the LEDs | one half cycle, register writes, power, status, reset | a pull released late across power changes; flags of three sources in one register |
| 1541 processor | registers, two copies of the memory, two engines | one tick | operands taken for opcodes, the stack in one of the copies |
| 1541 command channel | status line, response queue, block buffer, pointers, listings | `M-R M-W M-E B-R B-W B-A B-F B-P B-E U1 U2 I0 UI UJ N0:`, OPEN, TALK | an answer left over from another command; blocks that overlap in memory |
| 1541 block map and catalogue | allocation map, owners, counter, 32 entries, a link per channel | B-A, B-F, B-W, B-R, OPEN, CLOSE, reset | four representations of one fact; slots that are reused; addresses that fold |
| Image backends | the file, parsed tables, passes, relock states | mount, read, write, list, change of profile | objects of two layers on one file, caches, tracks that are missing |
| 1541 mechanics and read channel (`drive1541_physical/`) | spindle, head, phase-locked loop, flux cursor | read a byte, reset | noise that adds up, counters of different widths |
| Console and cable topology, `src/c64_11.cpp` | cables, reachability, delayed lines, power commands | connect, disconnect, power, tick of every bus | a delayed line drops pulses shorter than its delay; a cable pulled during a transfer |
| CIA 6526, `src/cia6526.hpp` | timers, ICR, TOD, CNT and serial port | register reads and writes, tick | reading ICR in the half cycle in which an interrupt is deferred; a clock read while it runs |
| 6510 and main loop, `src/c64_11.cpp`, `cpu_micro_ops.hpp` | registers, IRQ and NMI latches, micro-operation queue and its phase, dummy read flag | `clock`, `setIRQ`, `setNMI`, `enqueueDummyRead`, `reset`, the loop | interrupts at every half cycle, stolen cycles in the middle of an instruction, instructions out of step with the phases |
| VIC-II, `src/vicii.hpp` | beam, IRQ flags, hold on the bus, sprite DMA, pipeline of columns | `tickHalf`, register access | registers written in the middle of a line, a frame or a hold |
| Bus and banking, `src/bus.hpp` | processor port, memory, open bus | read, write, peek | the same decision written three times; memory under chips |
| SID, legacy clock domain, analog line solver, test and validation tooling | - | - | audio, an older bridge, signal processing, harnesses: see section 7 |

How they interact: two things carry the lines between the C64 and its drives. The console has
buses of its own (`syncConsoleIecBus`, `tickConsoleHalfCycle`, `c64_11.cpp` 21402-21454): in each half
cycle it hands every drive the lines through its cables and ticks it. `IecBusDomain` is the
bus with two clocks; the KERNAL harness of `c64_11.cpp` (6693 and below) and the tests drive it, calling
`tickHalfCycle` once per C64 half cycle. `tickHalfCycle` runs the drives' `tickHalfCycle` (which is
`tickIecHalfCycle`) and the CIA's in the order of their clocks, compares what an endpoint
pulls before and after its tick, and sends a change to the wires with a latency. A change of
the wires is sent to both sides with other latencies, and each side gets the lines as they are
when the sample arrives (`setLines`, `applyInputs`). A drive turns line edges into bytes, and
bytes into bus commands (LISTEN, OPEN, ...), which at UNLISTEN run the command channel; that
reads and writes blocks of the image, and a block of an encoded image sets the read channel
going. Everything runs in one thread; concurrency is that of the two clocks, of the event
queue, and of calls the user makes between two ticks (power, attach, enable, queue a
byte).

The C64's own loop (`runMainExecutionLoop`) is one iteration per half cycle: the VIC's
`tickHalf` sets AEC, the processor is clocked with or without the bus (and queues a dummy
read when it loses it), both CIAs tick twice, and the chips' flags become the levels of
IRQ and NMI. The parts share those lines and the registers the program accesses.

What makes each part correct:

* bus domain: no event or tick is missed; a call returns; the wires are the wired AND
  of the pulls except for a rise that is pending, and a rise is never forgotten; every
  change of a line reaches the other side, and every pull a tick changed the wires; a pulse is seen;
* drive endpoint: idle while the C64 is away, and silent but for what its VIA pulls; no byte taken before a fresh
  command; a commanded power state is reached;
* serial engine: a byte is delivered once or timed out; every wait ends; a talker
  yields to ATN;
* board: a line is pulled as long as it is wanted and no longer than the release delay; timers
  run out when they should; a flag stays until a program takes it; an error shows;
* drive processor: it goes where a 6502 goes, sums are sums, the stack gives back what it got;
* block map and catalogue: counter, map, owners, files and channels agree; B-A always
  finds a file entry; a free only frees what was allocated;
* command channel: the host hears the answer to what it asked; patterns mean what they say; a
  block that was written comes back;
* images: the file is its blocks; a track shows its own bytes; the layer is the profile's;
* read channel: the loop stays locked, the spindle keeps the time, no edge is missed;
* processor: a program cannot tell that instructions are micro-operations, that cycles are
  stolen and that interrupts come at any time; a latched interrupt is taken;
* VIC: the bus comes back in every line; sprite DMA keeps to its lines; a column is shown in
  its place; the raster interrupt comes once in the line it was asked for;
* CIA: no event is lost, the clock is read and set as one time, a byte is sent whole;
* bus and banks: one memory, whoever looks at it, and an idle bus that decays on time;
* topology: a drive sees its own bus only, and a line settles to what is driven.

## 2. Modules

| Module | Models | Source |
|---|---|---|
| `DriveBlocks` | block map and catalogue | `drive_1541.hpp` 4054-4358, 3825-4024, 4490-4521, 4691-4836 |
| `DriveBlocksProofs` | theorems about it | |
| `MCDriveBlocks`, `MCBlockGrants` | a small disk; the same with a history of grants | |
| `IecBusDomain` | the bus | `iec_bridge.hpp` 1346-1877 |
| `WiredBus` | what the bus promises: wires that follow the pulls (abstract) | |
| `IecBusDomainProofs` | theorems about both | |
| `MCIecBusDomain` | small buses | |
| `DriveUnit` | power, power matrix, receive queue, bus commands, DATA pull | `drive_1541.hpp` 106-240, 2520-2875, 3132-3204, 3233-3454, 3658-3684, 4686-4886 |
| `DriveUnitProofs` | theorems about it | |
| `MCDriveUnit` | a small drive | |
| `DriveSerial` | the serial engine, bit by bit | `drive_1541.hpp` 210-222, 2742-2766, 3132-3141, 3206-3638, 4692-4887 |
| `ByteTransfer` | what a talker promises (abstract) | |
| `DriveSerialProofs`, `MCDriveSerial` | theorems about it; a small engine | |
| `MicroCode` | the micro-operations of every opcode | `c64_11.cpp` 563-930, 938-5717 |
| `Cpu6510` | queue, clock, interrupts, dummy reads, reset | `c64_11.cpp` 139-323, 435-458, 5731-5844 |
| `Instructions` | the 6510 instruction by instruction (abstract) | |
| `C64Loop` | main loop, interrupt lines, interrupt registers of the CIAs | `c64_11.cpp` 9004-9026, 20826-20889; `cia6526.hpp` 144-178, 268-360, 391-395, 485-490 |
| `C64LoopProofs`, `MCC64Loop` | theorems about it; a program of every opcode | |
| `VicII` | beam, bus, sprite DMA, raster interrupt, column pipeline | `vicii.hpp` 310-358, 602-760, 836-848, 1044-1187, 1230-1274 |
| `VicIIProofs`, `MCVicII` | theorems about it; two revisions with a small frame | |
| `Cia6526` | timers, clock and alarm, serial register, FLAG, the interrupt register | `cia6526.hpp` 67-515 |
| `Console` | cables, presets, power commands, delayed lines | `c64_11.cpp` 20967-21034, 21109-21454, 21546-21960; `drive_1541.hpp` 166-222 |
| `DriveBoard` | the half cycle of the drive's board | `drive_1541.hpp` 128-239, 2494-2551, 2742-2864, 3132-3141; `drive_iec_port.hpp`, `drive_via_domain.cpp`, `drive_signal_model.hpp` |
| `ByteBits` | a byte as the set of its bits: and, or, exclusive or | `drive_1541.hpp` 705-721, 1207-1212, 1270-1275, 1341-1346 |
| `DriveOpcodes`, `DriveCpu` | the drive's instruction set; its two engines | `drive_1541.hpp` 624-2419; 585-934, 2116-2551, 2702-2711, 2877-3038; `drive_dos_memory_map.hpp` |
| `DriveDos` | memory commands, block buffer, status, names, listings; on top of `DriveBlocks` | `drive_1541.hpp` 2494-2689, 3648-3699, 3797-4389, 4490-4887 |
| `DriveDevicesProofs` | theorems about `DriveBoard`, `DriveDos` and `DiskImage` | |
| `Bus` | reads, writes and peeks under the processor port, the open bus | `bus.hpp` 44-100, 254-490 |
| `DiskImage` | d64, g64, nib and raw images and the choice of their layer | `advanced_image_backends.hpp`, `d64_image_backend.hpp`, `write_surface_model.cpp`, `c64_11.cpp` 21898-21922 |
| `ReadChannel` | spindle, cells, phase-locked loop, flux, codec | `drive_1541.hpp` 4391-4488; `mechanics_model.cpp`, `bitcell_timing_model.cpp`, `read_channel_pll.cpp`, `flux_track_model.cpp`, `gcr_codec.cpp` |
| `DevicesProofs` | theorems about `Cia6526`, `Console`, `Bus`, `ReadChannel` and `DriveCpu` | |
| `MCDevices` | the eight devices, each with its programs | |

### DriveBlocks

A B- command runs to completion inside `processCommandChannelBuffer`, called at
UNLISTEN, so it is one action: `BlockAllocate`, `BlockFree`, `BlockRead`, `BlockWrite`,
with the error paths as disjuncts, and `OtherCommand` for those that only change the
status (00, 30, or the 31 of an `M-E` to an address that is no routine). `StatusAside` is what sets
the status outside of a command: a byte for a channel that expects none (64, 70), TALK on a channel
other than 0 and 15 (70), a wait of the serial engine that ran out (74). `Listen`, `OpenSecondary`, `Close` and `CommitOpenName` are the steps that
give a channel its open name, which a new file takes. `allocated`, `owner`,
`allocatedCount`, `catalog` and `channelEntry` are `iecBlockAllocated`,
`iecAllocOwnerEntry`, `iecAllocatedBlockCount`, `iecCatalog` and
`iecChannelCatalogEntry`. `BlockAllocIndex` keeps the fold of the code: the map has 664
slots, the geometry has 21 sectors on each track, so the addresses of the last tracks
share slots with those of the first.

Abstracted: text and parsing of commands, the contents of blocks, file type and mode.
`flushVirtualBlock` is reduced to its four results; which one comes out is free.

### IecBusDomain

Times are relative to `nowUnits`, so that there are finitely many states: `events[i].when`,
`nextC64` and `nextDrive` count down, `line[l].lowFor` counts up to one unit more than the
rise time, so that a line that is late differs from one that may rise now. The queue is a sequence in the order it pops, (when, seq). `pc` is the place inside
`tickHalfCycle`; each turn of `executeTimedEventsAtNow` is an action of its own
(`RunC64Pulls`, `RunDrivePulls`, `RunRise`, `RunToDrives`, `RunToC64`), as the callbacks
are what schedules further events. `SettleBus` is `settleBusAndPropagateSamples` with
`applyTemporalBusContract`: line model, commit, two samples. The generation of a rise
event is kept as `live`: false once a newer one exists or the line was pulled again. The
endpoints are free: a tick may leave a side with any pulls, and between two calls pulls may change
(`ChangePullsOutside`), as those of CIA2 do by a write to `$DD00` (`cia6526.hpp:426`). A tick
compares what it changed itself (`iec_bridge.hpp` 1837-1843), so pulls that changed between two
calls are not sent until the side's pulls change in a tick, too, or the next device is attached; the
history `unsent` has the sides with such pulls. CIA2's own tick changes no pull; that a host's tick may change
some is what `IIecHostEndpoint` allows and the endpoints of the tests do. `DrivePeriods` is a set,
the values that drift and dither can give for a drive half period.

`WiredBus` is the bus without its machinery: a line falls when a side pulls it and rises when it
has been low for its rise time, not earlier and with no time passing that it had to rise in; an
observer sees levels that all lines had in one instant. `IecBusDomain` implements it
(`ImplementsWiredBus`), with its queue, generations, latencies and scheduler.

Abstracted: the analog line solver (`analogVddMilli`), causes of edges, trace, counters,
profiles. The bus with an analog profile is not modelled.

### DriveUnit

`tickIecHalfCycle` is a sequence of actions (`Tick`, `ProcessQueued` for each queued
byte, `StepIecSerial`) during which `pc = "rx"` and no other call runs. The serial
engine is kept to its phases: in a phase that receives, the last bit of a byte may come
in any step, and in a phase that acknowledges or sends, DATA may be pulled in any step.
The bytes of a name or of a command are kept by their age (before or after the C64 was
last lost or found again), which is what the properties tell apart.

`DrivePowerController` is there as its state, its timer and `tick(1)`. `Next` has the
operations the emulator calls; `FullNext` adds `powerOn` and `powerOff`, public
but called by no running emulator, which start their time whatever the state is.

DATA is pulled for two reasons, kept apart in `pulledBy`: what the serial engine wants, and what the
port of VIA1 says (`viaPulls`), which a program of the drive writes at any time between ticks
(`WriteViaPort`) and an `M-W` or `M-E` at UNLISTEN (`ViaAfter`). The power matrix does not touch the
port, so a drive whose C64 is away may pull DATA for it; `IdleUntilWoken` allows just that.
CLK is not there: only the VIA pulls it. Talking behind TALK is a free DATA pull.

### DriveSerial

`SenseLines` is a tick's first part (the lines, in any levels, and the ATN edge),
`StepIecSerial` the whole of `stepIecSerial`: `AnswerAtn`, `Receive` and `TalkSide` are its
three parts in their order, each with its early returns as guards. A command takes effect
where the code calls `processIecCommandByte`: in the step that received its last bit, or when
a queued byte is dispatched. `ForceIecIdle` and `Reset` come at any time between ticks. A byte
received is a sequence of the phases its bits came in, as the values on the line are free; a
byte sent is a sequence of bits, since the last of them stays on the wire. `NoTx` and `NoEoi`
give variables that are written before they are read a value of their own. `heard` notes that
the host pulled DATA low in the wait for an acknowledge.

`ByteTransfer` is the abstract talker: bytes of a payload leave in order, one at a time, and
none while an end is waited for. `DriveSerial` implements it (`TransferSpec`): `wire` is the byte
whose bits are sent, `last` the EOI flag, `waiting` the wait for the acknowledge.

### MicroCode, Cpu6510, Instructions, C64Loop

`MicroCode` has `decode`: for each opcode the schedules it may queue, a micro-operation being
its phase and what it does to PC, SP, the stack and the mask, and whether it reads or
writes the chip that is addressed. Consecutive micro-operations of one phase, which some
opcodes have, are kept. `Cpu6510` runs a queue: `Clock` is `clock` with its return paths as
`Deny`, `RunQueue`, `BeginNmi`, `BeginIrq` and `FetchInstruction`. A program is a set of
instructions for every address. `start` is a history variable, the machine when the queue was
last empty: with it `Program` maps the processor to `Instructions`, where an instruction is
one step on PC, mask and the bytes of the stack, by the instruction set and not by the code.
`Instructions!Irq` and `Nmi` may come between any two of them.

`C64Loop` is the loop: `CpuTurn` is the VIC's and the processor's part of an iteration,
`LinesTurn` the two half ticks of the CIAs and the sampling of the lines. When the VIC takes
the bus or raises its interrupt, and which events the CIAs have, is free.

Abstracted: A, X, Y, the arithmetic flags, page zero and the addresses computed from them
(an operand is the address and the chip it leads to); the stack is modelled from `Bottom`
up, and its bytes under the pointer, which are dead, are forgotten at the next fetch.

### VicII

`Tick` is `tickHalf`, with the rule of the step (`plaOpForCycle`, `getStepRule`), the lock and
sprite DMA, the staging and the shift register, and the beam with the raster comparison;
the four `Write` actions are the registers with an effect of their own. `chip` is the revision
with the sprite registers: `VICII::write` has no case for these, so a program cannot change them.
A column stands for its character. `matched` is a history variable.

### Cia6526

A half cycle is `tickHalfCycle`, with its parts in the order of the code: the events a later chip raises
at once and an earlier one defers to the next half cycle, the two timers, the clock that counts
tenths of a second, the serial register. A program's accesses are actions of their own: the
register of the low or high byte of a latch, the two control registers, the time from hours to
tenths with its latches, the data of the serial register, the mask and the read of the interrupt
register. `Chips` are the profiles of the revisions. `unread` are the events no read has
returned; `snap`, `wrote`, `sent` and `got` note what a program has begun to read, to write, to
send or to receive.

### Console

`typed` commands change the cables, the presets and the power; a sync computes the distances from
the C64, puts the lines of each end into its delayed view and ticks the drives. `Distances` is
the search of the code: a turn takes the nearest node it has not taken (`NearestOpen`) and
follows its edges (`SearchStep`), and `Search` is the state after each turn, a function that
takes as many turns as there are nodes. These operators take the cables as their
argument. `still` and `due` count the syncs in which nothing has changed, and those the
view then needs.

### DriveBoard

`tickIecHalfCycle` is one action: the power lets the drive onto the bus or not, the port's queue
is filled and emptied, the VIAs tick, and the pulls follow `Targets` (what the VIA and the
serial engine want) with the countdown of `applyDriveOpenCollectorReleaseModel`, which starts at
the delay in every tick in which the line is wanted. The other actions are the calls that come
between two ticks: `setIecLines`, the power of the C64 and of the drive, register writes of a
program or an `M-W`, block accesses that light the LED, and a reset. `wanted`, `life`, `owed` and
`calm` are histories: the ticks since a line was wanted, what a timer was loaded with and
how long ago, the flags no program has taken back, the ticks since an error.

### DriveOpcodes, DriveCpu

`DriveOpcodes` is `executeDriveCpuMicroOpBaseOpcode`: what an operation does to the registers
and a byte, and which opcode has it with which mode. `DriveCpu` has both engines: one that runs
an instruction in five ticks, an action for each phase, and the one with fifteen opcodes that
counts cycles. The memory is there as the code has it: the map's own RAM (`ram`), which `read` and the first
engine use, `memory[]` (`cpuMemory`), which pushes, pulls, `read16` and the memory commands use, and the
windows of the two VIAs (`is_io_`), where `read` gives what the chips show (`io`, which may change between any
two ticks) and a store changes `memory[]` alone. The program chooses what stands in ROM where the processor comes by. A byte's bits are
a set of numbers (`ByteBits`), and flags are a set of names. `was`, `nextDue`, `onStack` and `back` note the instruction that has run, where a 6502 would go next,
what the stack should give back and what it gave.

### DriveDos

Extends the actions of `DriveBlocks` (`INSTANCE`, so map and catalogue are the same) with the bytes in the drive's
memory, the block buffer and the image, the queue a drive talks from, and the listing of the
catalogue or of the image's directory with its filters. Each command is an action with its error
paths as disjuncts. Overlapping blocks are those `blockLinearBase` makes: neighbouring sectors are
one byte apart in memory, and the mask `0xBFFF` puts tracks 64 to 127 on tracks 0 to 63, for the base and for
each byte (`Masked`, `Cell`; `MaskedBit` is the bit it clears). A mounted d64 keeps a block as it was
written; an image of tracks encodes it, and what it gives back is any block of the dialogue
(`decoded`), as `DiskImage` is the model of that. `promised` and `asked` are what the host should
hear, `kept` what is known of the blocks a B-W has confirmed: nothing of those in an image of tracks, and
nothing any more once a cell of theirs is written. `Scan` is the loop of `wildcardMatch`, one `ScanTurn` after the other; what a
pattern means (`Matches`) is said without it, and `Promise` is the listing by that meaning.

### Bus

`ReadFrom`, `WritesTo` and `PeekFrom` are the three decisions the code makes on the same address
and port, whose bits are taken one by one (`IsSet`, `Pin`); `readBus`, `writeBus` and dummy accesses change the memory, the port and the open bus, and a
monitor's peek changes nothing.

### DiskImage

One drive's image: the backend is chosen by the file, the layer by the profile and the
environment; each layer has its own parsed table and relock state. A block is read and written by
its address (`ReadImage`, `WriteImage`); a pass adds wear as `write_surface_model` has it; a directory
is followed from its first sector, a sector a turn (`Visit`, `Visits`). `Remount`, `ProfileChanges` and
`FileMoves` are what the host does between two calls. Rotations and the exclusive or are written with
the weights of the bits (`ByteBits`), which the provers can compute with.

### ReadChannel

A read of one byte behind a read of a block: the spindle turns by the ticks that have gone by,
the head moves to its track, the cell's length comes from zone, the drive's address and revision
and the draw of the random number, the loop corrects its phase, and the cells cross edges of the
track's pattern (`ReadBlock`; `PassCycles` and `ResetChannel` come between two reads). Numbers are
the code's integers, and the ticks since the last edge wrap at `AccWrap` as the 32 bits of `acc_` do. `Decoding` is the decoder after each symbol. `stuck` is the loop that never ends for a track above 42.

### MCDevices

The eight devices are checked in one run, because they share no state: `part` names the device
whose behaviour it is and all others stand still, so the run's states are the sum of theirs and
not the product. A property is its module's own, and holds of a device that stands still, too.
Programs, sessions, plans, dialogues, images and readers are records of what may happen, chosen by name in `Init`: each name
is aimed at one part of its device. All are extended, so that the run checks the very formula a theorem
states. Programs that do nothing (`stands`) are there for the runs of the other devices.

## 3. Runs

| Run | Checks | Instance | Distinct states |
|---|---|---|---|
| `DriveBlocks` | `TypeOK`, `FreeCountExact`, `OwnerAccounting`, `ChannelEntryInverse`, `CatalogNeverFull` | 4 addresses on 3 slots, 2 entries, channels 0 and 15 | 62 946 |
| `BlockGrants` | violation of `FreeNeedsAllocation` | the same | - |
| `IecBus` | `NothingOverdue`, `PullsOnTheirWay`, `SamplesOnTheirWay`, `PulseIsSeen` | 2 drives, one attached at any time, pulls changed in ticks and between calls, drive period 2 or 3 against 3, four different latencies | 4 631 347 |
| `IecBusFull` | `LinesFollowPulls`, `CallsReturn`, `ReleasedLineRises`, `ImplementsWiredBus` | jitter, zero latencies, domains switched, pulls changed between calls, rise time 4 | 110 214 |
| `IecBusDouble` | violation of `NoDoubleCommit` | equal clocks and latencies | - |
| `IecBusRelease` | violation of `ReleaseIsDelayed` | rise time 2 | - |
| `DriveUnit` | `NothingTakenUnarmed`, `IdleUntilWoken`, `PowerSettles` | every bus command, queue of 2, burst of 1, spin-up 2, a VIA port written at any time | 1 073 240 |
| `DriveCommand` | violation of `CommandIsWhole` | the same bytes | - |
| `DriveSerial` | `CommandBytesWhole`, `EoiAnswered`, `WaitsEnd`, `TransferSpec` | 2 bits to a byte, payloads of 1 and 2 bytes, all times 1, two profiles | 477 504 |
| `C64Loop` | `LoopConsistent`, `InStep`, `ProgramRuns`, `NmiTaken`, `IrqTaken` | every opcode once, one CIA with one event, VIC free | 139 151 |
| `VicII` | `LockWithinLine`, `SpriteInItsLines`, `RingShort`, `ProcessorGetsBus`, `ColumnsInPlace`, `MissedOnlyInARow`, `RasterComes` | 5 lines of 8 cycles of 4 pixels, one sprite, 8565 and 6569 | 219 456 |
| `Devices` | `CiaKeeps`, `CablesCarry`, `CpuComputes`, `BoardKeeps`, `DosAnswers`, `BusHolds`, `ImagesHold`, `ChannelReads` | eight devices, each with its programs | 448 079 |

The types of `IecBusDomain`, `DriveUnit`, `DriveSerial` and `VicII` are theorems and need no run. A promise of
`Devices` is the conjunction of the parts its module names, one line each.

Bounds, and why they are enough:

* `DriveBlocks`: two channels with two entries is the tight case of
  `Cardinality(Channels) =< CatalogSize` (the code has 16 and 32); four addresses on
  three slots give a pair that folds; a file of several blocks, a file that loses its
  last block and a slot that is taken over all occur. The theorems hold for every size.
* `IecBus`: the latencies exceed both periods, so several events of a kind are in the queue; two
  drive periods make the clocks drift past each other and coincide. A pull that is
  shorter than a latency occurs. `DeviceLines` is one line, as no line looks at another;
  the host pulls one that is shared and one that is its own. Jitter is 0 here: with
  jitter pulls overtake each other (the hazard is listed).
* `IecBusFull` has jitter, latency 0 (which `linkDelayWithJitter` makes 1) and one shared
  line that is pulled and released from both sides while a rise is pending.
* `DriveUnit`: `SpinUp` 2 lets a drive be asked for power again within it. The queue is longer
  than a burst, so a tick ends with bytes left and the serial step runs in between.
  `MaxQueue` bounds bytes waiting; it is the one bound of the model that the code does not have.
  `QueuedBytes` are those that come through the queue as well as from the wire: LISTEN and TALK, which
  wake the drive, the OPEN of the command channel and a byte of data. The theorems hold of every set of them.
* `DriveSerial`: two bits make a byte with a first, a last and a place between them to be cut
  off at, and the two bytes end in a 0 and in a 1. Every time is 1, so each of them expires
  and is beaten to it. The theorems hold for every size and time, and for every profile.
* `C64Loop`: `OpcodeTour` goes through all opcodes; each ordinary one stands at one address, from
  which every way of stealing cycles and interrupting it is explored. `Floor` stops new events
  when the stack is that deep: two interrupts nest, and an NMI in an IRQ handler is reached.
  `Bottom` is what these need of the stack. The run stops at a jam, as the program does
  (`CHECK_DEADLOCK FALSE`).
* `VicII`: a line has each of the six stretches of the real one (refresh, sprites with the latch,
  text, release, refresh, sprites), four pixels, as many as a sprite's cycle fetches, and
  a character fills half of the half ticks of a cycle, as 8 of 16 do. The compare value has
  the lines 0, 3 and 4, which follow one another, and one that never comes.
* `Devices`: programs end (a dialogue has a length, a session its commands, a reader its reads), so
  the run may stop (`CHECK_DEADLOCK FALSE`). The wheels of the CIA's clock have two places
  and a byte two bits, so each of them carries and every place of a byte is reached. The console has
  two drives and three cables: a drive is reached by one, by two and by none, and a way can
  become longer or shorter while a level is on it; `MaxStill` exceeds the longest way. The drive's
  processor runs every opcode with the real bytes, at the boundaries of bytes for the sums. On the
  board everything that counts counts to 2 or 3 (the theorem is about any number). Patterns and
  names go to a length of four over two letters, which has every way for a `*` to be at the
  beginning, inside or at the end. The bus has the real addresses and bits, one address of each
  kind. The images have three tracks in three zones and 16 bytes to a block. The reader reads
  24 cells of the noisiest addresses, after which phase errors repeat; the counters of the
  spindle and of the flux wrap at 128 instead of 2^32, which these reads pass: `SpindleInTime` and
  `EdgesKept` say what they say up to there, and behind it edges are missed. Blocks have two bytes and the
  masked bit is the third, so that track 3 folds onto track 1; one dialogue has an image of tracks that
  decodes what was not written. A program of two instructions stores to a window of a VIA that shows
  something else.

No state is symmetric under a permutation of model values that would be worth using:
the channels and devices play different parts.

### Fairness

`IecBusDomain`: `CallsRun` (a call runs to its end, it is a C++ loop) and `CallsContinue`, which is an
assumption on the caller: it calls `tickHalfCycle` again and again. The KERNAL harness and the tests do
as long as they run; the console and `runMainExecutionLoop` do not use the domain. `CallsReturn` needs the first
and is about the loop: with it the clocks, whether enabled or not, get to the next C64
tick. `ReleasedLineRises` needs both, so it says that a released line rises if calls go on. `DriveUnit`: `Tick` and the steps of a tick are
weakly fair, for the same reason; no operation of the user is fair. `PowerSettles`
assumes nothing about how often power is asked for, which is its point.

`DriveSerial`: the ticks, as above; the host's lines are free, and `WaitsEnd` says what happens
when they stand still. `VicII`: `Tick` alone, as the loop ticks the VIC in every half cycle.
`C64Loop`: the loop runs (`WF` of `Next`), and whenever the processor could move on with the bus
again and again it once gets it. The second is strong fairness of two steps without a stolen
cycle: every line begins with eight cycles of sixteen half cycles in which the VIC does not
take the bus (`ProcessorGetsBus`, proved for `VicII`), longer than any instruction. No event of
a CIA and no write of a program is fair. `Devices` has no fairness: what its modules promise
is safety, and what must come in time is said with a count (`still`, `life`, `times`).

### What the runs found

* `FreeNeedsAllocation`: what was freed is among what was granted. `blockAllocIndex`
  (`drive_1541.hpp:4054`) computes `(track * 21 + sector) % 664`. Track 33 sector 0 and track 1 sector 8 have one slot:
  after B-A of the first, B-F of the second succeeds and frees the first. The smoke test
  of the map (`drive_iec_map_smoke.hpp:181`) expects NO BLOCK for a block that was not
  allocated.
* `NoDoubleCommit`: a second commit at one timestamp is counted (`iec_bridge.hpp:1748`)
  and carried out; the roadmap (`LEVEL5_ROADMAP.md:113`) says it is rejected.
* `ReleaseIsDelayed`: the release delay runs from the fall of the line (`iec_bridge.hpp:1632`), so a
  line that was low long enough rises at once when it is released; the roadmap (`:134`)
  and a test (`tests/iec_temporal_contract_tests.hpp:174`) speak of the latency of a release.
* `CommandIsWhole`: `forceIecIdleForC64PowerOff` (`drive_1541.hpp:210`) keeps the
  command buffer and a LISTEN does not clear it, so bytes of before a power cycle of the
  C64 become the head of the next command; `README.md:1508` says the parser is forced idle.

### Observations without a run

Met while modelling and kept in the models; no document speaks against most of them.

Bus domain:

* Pulls that change between two calls are compared by no tick (`iec_bridge.hpp` 1837-1843). As CIA2's tick
  changes none (`cia6526.hpp` 268-360, 426), with CIA2 for a host endpoint its writes to `$DD00` do not reach
  the wires until the next device is attached. `PullsOnTheirWay` says that this is the only loss.

Serial engine:

* A talker's last bit 0 is still pulled when the wait for the EOI acknowledge begins, so the
  drive acknowledges itself; `EoiAnswered` says exactly when. DATA also stays low between bytes.
* Under Level5Coupling a talker starts with bit 1 (3585-3590), and the block 3274-3288 does what
  3503-3514 does again. `iecDeviceBetweenBytesTicks` and `iecTalkStartPending` decide nothing.
* Bits of a command byte cut off by the release of ATN are carried into the first data byte.
* On a revision that acknowledges any byte, the byte UNLISTEN itself arms an acknowledge after its
  handler has cleared it (`drive_1541.hpp:3436`), which pulls DATA in the next transfer;
  `LEVEL5_ROADMAP.md:123` says that UNLISTEN clears such carry-over.

Processor, loop and VIC:

* `clock` begins an interrupt from an empty queue without counting the half cycle, and one that
  follows the last micro-operation sets the phase. The self-check
  `cpu.getTotalHalfCycles() == (i + 1)` (`c64_11.cpp:20866`) fails at the first of the former.
  `InStep` says where the processor and the VIC drift, and that they drift nowhere else.
* RTI, RTS, JSR, JMP, STA abs,X and LSR abs queue micro-operations of one phase in a row, each
  of which costs an extra half cycle.
* `syncInterruptLines` gives bit 7 of both CIAs to NMI and the events of both to IRQ;
  `WEEK13_14_SIGNOFF.md:100` names IRQ for the first and NMI for the second. A flag pending in
  one keeps an edge of the other from the processor.
* `irqSampledLow` is not cleared by a high level, so a request that the handler has acknowledged
  is taken once more. An NMI edge during reset is forgotten. `branchTaken` stays set until the
  next branch and makes dummy reads longer.
* INC abs and its like do not write the old value first, so they do not acknowledge `$D019` by that.
* In `vicii.hpp` the text of lines 41 to 47 is fetched like row 0, as the division that gives the row
  truncates (732); a character is shifted out in four pixels, since the register shifts in
  both halves of a pixel (1101-1119); the last column of a line appears at the start of the next.
* `rasterIRQPending` is cleared at a line that is not compared (1180), so a handler that moves the
  compare value to the next line loses that interrupt (`MissedOnlyInARow` says that this
  is the only way to lose one). Where it is declared (122) it is for the same line only.

Bus:

* A peek at `$DE00` shows the memory, a read the open bus, and a write goes to the memory. The
  port's input pins read as 1 but count as 0 for the banks.

Console:

* A cable named by `SEG` and a count can get a name that is already in use. A drive that is
  spinning down is saved as on. A powered-off C64's CIA keeps pulling.
* Any change of a delayed line starts the whole delay again.

Drive processor and board:

* An instruction that leads to itself is left by one byte; a program counter below `$C000` is put
  to the reset vector in every tick. Pushes go to one of the two copies of the memory. ADC and SBC do
  not look at D. Opcodes an engine does not handle are one byte long; loads of the cycle-counted
  engine set no flags; the other takes five ticks for any instruction. Neither takes an
  interrupt. `stepCpuScaffold` is called by a test only.
* The edges `setIecLines` queues are not counted, so the LED for bus load shows the drive's own
  edges. `busDriveOutput` has no reader, and the scheduler's queue and ratio no effect.

Command channel:

* A new command keeps an unread answer to M-R, which then stands before its status; what is left
  in the queue is served to the next TALK of any channel. After an answer once prepared, TALK 0
  lists the catalogue even when an image is there, and OPEN "$" after a B-R or B-F serves the
  block buffer. M-W writes the bytes before a bad one; above `$C000` it says OK and does nothing.
* A listing cuts a line at 16 characters together with type and mode. A `*` in the name of a file
  breaks the match of a pattern with it. `$PAT` can become the name of a file.
* A block written to a low track lies over the drive's memory, tracks 24 and 28 over its VIAs, and tracks
  64 to 127 over tracks 0 to 63.

Images and read channel:

* A block of an encoded image is never classed clean, and may be read with status 0 though it is
  soft; a block written through the encoded layers does not come back. The logical and the
  flux object of a file have caches of their own, one of which keeps a failed parse until the
  image is mounted again. A track a g64 lacks is read from the next lower entry of the table.
  `README.md:938` speaks of a check of track and sector that the g64 and nib images do not make for the sector.
  A write behind the end of a d64 makes it longer. The directory is read from a d64 only.
* The profile of the environment and that of the drive may differ.
* The pipeline is not set up again after a change of profile. Its tick has 32 bits and the
  drive's 64. Cells are taken off the spindle's time. Every read crosses an edge, so the windows
  that look for a new lock do not open before the counter of the flux has wrapped (`flux_track_model.cpp:70`),
  and sync marks never reach the codec.
* A block read of a track above 42 that a g64's table has does not return at level 3 and above
  (`drive_1541.hpp:4458`).
* A drive of the first revision at address 11 can lose its lock (up to 555 ppm against 520);
  address 10 stays at 519. The repository's README gives a jitter of one (commit 9), the
  code of two (`bitcell_timing_model.cpp:93`).

## 4. Properties worth a remark

* `CatalogNeverFull`: `allocateVirtualBlock` has a failure path for a full catalogue that
  is reported as 63, FILE EXISTS. It is dead, because a channel has at most one file in
  use and there are more entries than channels.
* `ChannelEntryInverse` is what keeps a channel from writing into a file of another: an
  entry is dropped with its last block and reused by whoever allocates next.
* `LinesFollowPulls` says, beyond the wired AND, that a line which stays low after its
  release has a rise event of its current generation queued for exactly the time it may
  rise. It rules out acting on an event of an earlier pulse.
* `PulseIsSeen` holds for a rise time longer than the way to the drives. It is not a
  property of every configuration: without the line model, or with less, a pulse
  disappears before its sample is read, because samples read the lines when they arrive.
* `IdleUntilWoken` has its `rearm` for a reason: bytes queued before the C64 went away are
  still processed, and a queued LISTEN makes the drive listen without a C64. What the VIA's port
  pulls is left to it, as the code leaves it.
* `CopiesAgree`, a part of `CpuComputes`, says where the drive's two memories may differ: in the page of the
  stack, which is written in one of them, and behind the windows of the VIAs.
* `WrittenComesBack`, a part of `DosAnswers`, is about the memory and images of sectors. It says when a block may change
  that nobody wrote: when another is written whose bytes fold onto its own.
* `ProgramRuns` compares the micro-code with the instruction set: it fails if one opcode skips a
  byte too many, if a dummy read runs into an instruction, or if an interrupt pushes anything
  but the boundary it came at.
* `DummyConsistent`, a part of `LoopConsistent`, is about a flag and a queue that are changed in different places: a second
  dummy read is refused by the flag, the flag is cleared by the queue's last member.
* `LockWithinLine`: the latch asks whether the line is bad and the release must not, as DEN may have
  been written since.
* `SpriteInItsLines` holds because a sprite's register has eight bits and a frame has more lines
  than that and 22 (`ChipAssumption`).
* `ColumnsInPlace` relates what was fetched, staged and shifted over three stretches of a line: a
  column that comes out is the one of its place, also when DEN or the scroll is written between.
* `PullsExact`, a part of `BoardKeeps`, says both that a wanted line is pulled and that a pull ends
  with the release delay. A countdown that is not cleared where the pulls are would break it,
  but for the code's way of reading it for a pulled line only.
* `LinesArrive`, a part of `CablesCarry`, counts the syncs in which nothing changed, because the
  code starts the whole delay again with every change: it promises no pulse.
* `HostHears`, a part of `DosAnswers`, is about one queue that status, listings, blocks and memory
  reads share; it says what a host gets in the order it asked for it, leftovers included.
* `PowerSettles` fails if `setDrivePower(true)` restarted the spin-up.

## 5. Proofs

Assumptions are those the modules name: `GeometryAssumption` (tracks, sectors and the
factor of the fold are naturals, at least one slot and one entry), `ChannelAssumption`
(finitely many channels, not more than entries, 0 and 15 among them), `NameAssumption`,
`SerialAssumption` (byte size and times, and `NoByte` no byte), `CpuAssumption` and `LoopAssumption` (any
micro-code, program and set of chips), `VicAssumption` and `ChipAssumption` (the order of a line's
stretches, a shift register of at most two cycles of pixels, and room below a sprite),
`ImageConstants` (every block has room in its file, and the tracks of a g64 table do not overlap, which the
code does not check; see below),
`BoardAssumption` (sizes and times are naturals, and the plans do what programs and users can),
`CiaConstants` (wheels and bytes have a first value, programs write bytes and times),
`ConsoleConstants` (drives have numbers, cables run between them, a profile has a delay),
`CpuConstants` (the reset leads into the ROM, programs and memories are bytes),
`BusConstants` (a program writes bytes, an idle bus holds one for a read at least),
`ChannelConstants` (four zones, no two transitions farther apart than the shortest cell, the
draws of the generators, the lock of the code, counters of some width),
`PowerAssumption`, `DriveAssumption` and `AddressAssumption` (times and bounds are
naturals, what the host sends are bytes), `LineAssumption` and `TimingAssumption` (device
lines are CLK and DATA, the primary device is one of the devices, periods are positive,
latencies, jitter and rise times are naturals). Nothing else is assumed; in particular the
fold of addresses may collide in any way.

`DriveBlocksProofs`. The invariant `IInv` is the types, `OwnerAccounting`,
`ChannelEntryInverse`, and `allocatedCount = Cardinality(allocated)`; the last is the strengthening
that `FreeCountExact` needs, because the counter and the map are updated separately.
`AllocateKeepsMap` and `FreeKeepsMap` carry the induction: an allocation adds its slot to
exactly one owner's set, a free removes it from one, and the counts of all other files
stay. `NeverFull` is a pigeonhole argument: if all entries were used, the map from
entries to their channels would be injective into the channels without the asking one,
which are fewer than the entries. `Consistent`, `TypeCorrect`, `FreeCountCorrect`,
`OwnersCorrect`, `EntriesCorrect` and `RoomForEveryChannel` are the theorems.

`DriveUnitProofs`. The invariant is `TypeOK`, `IdleUntilWoken`, `NothingTakenUnarmed` and
`LinesHighWithoutC64`: while the C64 is away no line is seen low. Without it an idle
drive could enter the command phase and acknowledge. There is a lemma per group of operations
and one for what a byte may do (`ByteType`, `ByteRearm`). The theorems (`Consistent`,
`TypeCorrect`, `IdleWithoutC64`, `CommandComesFirst`) are about `FullSpec`, so
they hold of every operation in any order and of every queue bound.

`IecBusDomainProofs` is about `FullSpec` too: any number of devices, attached at any time,
domains switched and pulls changed between calls. `InitialPart` and `ScheduleElements` say
that the queue stays ordered and gains just the event (`InsertAt` after the events that
are not later), `TailElements` and `OutdateElements` what popping and outdating do to its
elements; everything else argues about the set of its elements. `LinesFollowPulls` is
not inductive: it says that a released line has a live rise event, but an older
live one could raise the line early or survive a new pull. `WiresOK` in `IInv` adds what is
missing: a pulled line has no live rise event, a pending one has live rise events for
`RiseTime - lowFor` only. `QueueAfterOK` shows it for the settling of one line,
`QueueAfterLinesOK` for the three in their order, `SettleStep` for every step that settles
the bus, and `AdvanceKeepsIInv` that the event and `lowFor` age alike. `NextTimeIsFirst` is the
reason that nothing is missed. The theorems are `Consistent`, `TypeCorrect`,
`NothingMissed`, `WiresCorrect` and `SamplesArrive`, and `ShortPulsesAreSeen` with a
second invariant, `PulseOnItsWay`: for a line that is low and that a drive has not seen low, a
sample is queued whose remaining way plus `lowFor` is at most the longest way. Its
hypothesis `RisesLate` (line model on, every rise time above latency plus jitter) holds of the
defaults with the line model on (`iec_bridge.hpp` 932-936, 1091-1110: latency 1, no jitter, rise
time 1 + 1). Without the line model a pulse can be too short.

Its last part proves `PullsArrive`, which needs positions in the queue and not only its
elements. `PullsFlow` says of both kinds of pulls that the last event carries what the endpoints
pull now, or the wires have it if there is none, and that no event of the kind is further away
than the delay of its link. The second part is the strengthening: a new event is then inserted behind all
others of its kind (`SchedulePlace`, `ScheduleOwn`), and settling the bus inserts events of
other kinds only (`SettleFlows`). Pulls that changed between two calls put their side into `unsent`, and
the first part is said of the other side only, until an event is scheduled with the pulls of now. Jitter breaks it,
which is why the theorem supposes `Jitter = 0`.

`WiredBusImplemented` is the refinement, about `FullSpec` again: the wires of the domain are those of
`WiredBus`, where there is no queue and no event. `StepWired` maps a step: what settles the bus to a
move of the lines, an advance of the clock to time that passes (never past a rise, which is where
`WiresOK` and `NothingOverdue` are needed), a sample to an observer who looks (`ObserversLook`).

`DriveSerialProofs`. The invariant adds to the types what ties the parts of the engine: what is
pulled is the bit that is on the wire, an end is waited for only behind a byte that was the last,
and in the command phase only bits of the command phase are kept. The refinement is a step
simulation: a step of the serial engine maps to `Start`, `Finish`, `Load`, `Abort` or a stutter.

`C64LoopProofs`. A queue is *quiet* if none of its members ends a dummy read. The invariant is
`TypeOK`, `DummyConsistent` and `Bit7Agrees`; schedules and interrupt sequences are quiet
(`BeatsQuiet`, `InterruptSequences`), a dummy read is quiet but for its end (`DummyReadShape`), and the
lemmas on `Ends...` follow that end through appending and popping. Nothing is said of `Decode`: the
theorems hold of every micro-code. `Drifting` needs the phases only. The 16-bit arithmetic is in
`IsAddress`, `Wraps`, `Halves` and `FromHalves`.

`LoopKeeps` puts the three facts of `LoopConsistent` together.

`VicIIProofs`. The invariant `IInv` is `LockWithinLine`, `SpriteInItsLines`, the types of the beam, that a
pending note is of a line that was compared (`PendingMatched`, without which `MissedOnlyInARow` does
not follow), the types of the registers (`RegistersTyped`) and the pipeline (`PipeInPlace`). The
last has four parts, by the place a column may be in: `FetchInPlace` (what is fetched is the column of
this cycle), `StageInPlace` (what is staged is of this cycle, or of the one before at its first
half tick), `RingInPlace` (the ring has the last column of a line and nothing else, from the release to
the start of the next line) and `BitsInPlace` (the register is empty before the pixels of the next
column come). `ColumnsInPlace` and `RingShort` are what
it means for the screen; neither is inductive, as the place of a column in one stage comes from its place in
the stage before. `VicTypes`, `RingKeeps` and `ColumnsShown` are the theorems. `LeftToRight` orders the columns of a stage
by a choice of the least, which the prover can reason about, and not by a sort.

`DriveDevicesProofs` has the drive's board, its command channel and its images.

The board. The invariant has three parts that do not touch each other, and one for the
constants of a plan. `LinesOK`: `PullsExact` follows from `CountdownRuns` (the countdown of a
pulled line and the ticks since it was wanted add up to the delay), `SeesTheBus` from `LatchShown` (the
port shows its latch, so that lines put one after the other are all taken over, `AllApplied`) and
`SilentC64` (a C64 that is not on has nothing on the bus). `ViasOK`: the count of a running timer and
its age add up to what it was loaded with, and so do the bits left of a shift and those gone, running
or stopped; from this the flag that is raised is the flag that is due (`Counting`,
`ViaTick`). `LampsOK`: the hold of the LED is known from `calm`. There is a lemma for each part
and each step that touches it (`LinesOn`, `LinesAway`, `LinesSet`, `LinesReset`; `ViasOn`,
`RegisterWritten`; `LampsOn`, `LampsAway`, `LampsFlux`, `LampsStatus`, `LampsReset`) and one that
an untouched part stays. `BoardInvariant` and `BoardCorrect` are the theorems: `BoardKeeps` holds of
every plan, release delay, hold, window and size of a byte.

The command channel (`DosInvariant`, `DosCorrect`). What the theorems suppose is `DosConstants`; TLC
finds it true of the dialogues of the run (`HostDialoguesAssumption`). It says that blocks fit the
memory, that tracks and sectors are bytes and that names are texts. One part is a limit of the
code: `wildcardMatch` takes a star in the *text* for the same character of the pattern before it
takes the pattern's star for any piece, so `*A` does not match the name `*BA`. A name with a
star must therefore be one that the dialogue's patterns match as they mean; of names without one
nothing is supposed.

The invariant `DosInv` has a part for each thing that must agree. `HeardOK`: what was read and what is queued are what was
promised (`SentIsHeard`, `NextIsHeard`). `AnswerOK`: the answer that waits is the one asked for last, and
none waits that was not asked for. `CatalogOK`: every used file has a name the host gave or the name of a
block, without which a listing could hold names whose match says nothing
(`AllocationKeepsCatalog`, `FreeingKeepsCatalog`). `KeptOK`: a block that is known is there, and
nothing is known of one the image lacks, as that would be read from memory. `FlushKeeps` and
`MemoryWriteKeeps` rest on the cells of two blocks: those outside of what is written stay
(`CellsStay`), and a block that was written is in its own (`CellsHold`), because the mask folds no two bytes
of one block onto each other: a block is no longer than the masked bit (`FoldsApart`, `CellsApart`).
An image of tracks is free in what it decodes, so of its blocks the history keeps nothing.

That a pattern selects what it means (`WildcardMeans`) is proved of every pattern, for texts without
a star. `Fits` is what the rest of the pattern means for the rest of the text. Each turn (`TurnKeeps`) keeps that the
rests fit only if the whole does (`ScanSound`); that if the whole does, the rests fit or what is behind the
latest star fits further on (`ScanComplete`); and that what fits behind the star fits
here too, as many characters later (`ScanShifts`), which is why the code need not go back to an earlier star. The loop ends because
the place of the latest try and then the place in the pattern grow (`TurnReaches`, `ScanEnds`).
That this holds after every turn, and that `Scan` defines a function, is argued by the least turn
after which it does not (`LeastNumber`, `ScanTurns`, `TurnsFunction`).

The images (`ImageInvariant`, `ImagesCorrect`). What the theorems suppose is `ImageConstants`, which TLC
finds true of the images of the run (`DiskImagesAssumption`). Two parts of it are about the file and the
code does not check them: a sector image has the bytes of all its blocks (its size may still
say less, and then the code refuses the block), and of the tracks of a g64 table that lie within the file no two
overlap. Without the second a track could show another's bytes, so `OwnTrack` is proved of such images only.

The invariant `ImageInv` has a part for each promise and for what carries it. `ExpectedOK`: the sectors of the tracks
before a block, added up as the code does, are the blocks before it (`TracksCounted`, `RankIs`,
`OffsetIs`), and two blocks do not share a byte (`BlocksApart`), so a write changes its own
(`StoredIs`). `FileOK` says that bytes stay bytes, whatever a pass wears (`XorIsByte`,
`OnDiskIsBytes`). `EnginesOK`: the class that a relock state keeps was decoded as long ago, at most, as
its confidence has gone down from its greatest (`Recent`, `RelockKeeps`); a class that costs no
confidence would be kept for ever. It also shows that no block decodes without an error, a thing we
met in the run: sync marks are no symbols, and a block without them has lost its sync
(`SyncIsNoSymbol`, `SomeInvalid`, `ClassIs`). `OwnTrack` needs no invariant but the file's size (`SliceIs`, `PlaceIn`,
`OwnTrackHolds`).

`ReplyOK` has the directory (`ListingIs`). The entries of a sector are listed once each, in their
order (`Ranked`, `EntriesCounted`). `Trail` says of each turn of the walk that it has listed the
sectors visited, each once, and is on the way to one not visited. Were the next one
visited before, the visited sectors would be closed under the links and without an end, and so
would everything that can be reached (`ReachedStays`), which contradicts that the chain has an
end (`TrailGrows`, `TrailsExist`). A directory whose chain is a loop, or longer than the guard, is cut;
of it only the length is said.

`DevicesProofs` has five devices. What they suppose of their constants is a hypothesis of the
theorems, because `MCDevices` has the constants of all of them; it assumes the same of its programs
under the names `CiaProgramsAssumption`, `ConsoleSessionsAssumption`, `DriveProgramsAssumption`,
`BankToursAssumption` and `ReaderToursAssumption`, which TLC evaluates.

The CIA. The invariant `IInv` has a part for each thing the chip keeps in two places. `InterruptOK` is `EventsKept`
and `Bit7Exact`, which are inductive. `ClockOK` adds `ReadsTogether` (while a reader is between hours
and tenths, its time is in the latch and the latch is what is read) and `SetsTogether` (while a time
is being written, the clock of a 6526 stands and holds it). `SerialOK` says `SendsTheByte` and
`ReceivesTheBits` place by place: `Sending` that the bits gone and the bits left are the bits of the byte, also when the
last one has gone, and `Receiving` that what came in is the end of the shift register (`BitGoesOut`,
`BitComesIn`, from `BitShifts`); `WholeBytes` puts the places together. Both directions share one
register: a shift one way ends what is known of the other. `CiaInvariant` and `CiaCorrect` are the theorems.

The console (`ConsoleInvariant`, `CablesCorrect`). `LinesArrive` is about what has not changed for
some syncs; the invariant `ConsoleInv` says it for each sync on the way: while lines and wiring
stand still, an end in reach has the lines, or waits for just these with no more syncs to go
than its delay leaves (`DelayedView`, `SyncKeeps`); any command that changes a way starts
`still` anew. The delay is that of the shortest way, and that the search finds it is proved, too:
`SearchOK` says that every distance is a number that no taken node would improve
(`DistancesOf`, `UsedRelaxed`), that nodes are taken in the order of their distances (`UsedFirst`)
and that a node other than the C64 was reached over an edge that is tight (`ReachedOver`).
`RelaxedOK` is one turn. That it holds after every turn is an induction, and the theorems of the
library for it take an operator; `EveryTurn` argues by the least turn after which it does not
hold (`LeastNumber`), and `SearchTurns`, by the same way, that the recursive definition defines a
function. After as many turns as there are nodes none is open (`SearchEnds`).

The bus (`BusCorrect`). The invariant is the types, and that memory is its history: a write goes to a
chip exactly where a read comes from one, under either way of asking the port (`ChipsBothWays`). `LinesHold` needs that the reads since the byte was
driven are the counter of the open bus as long as that is below its threshold.

The read channel (`ChannelCorrect`). `ChannelInv` has three parts. `ModelsOK`: the error of a
loop that is not the noisiest first revision stays within the lock; `LoopStaysLocked` shows for each
of the three revisions that the gain takes back at the edge what the largest drift adds. `OnTime`:
the channel's tick is the time the models were made, what the spindle has turned and the cells
read, as long as that fits its width. `NoneMissed`: as long as the ticks of the cells fit the width of the flux's
counter, it is not ahead of them, and streak and window are 0, because no cell is
shorter than eleven ticks (`CellsAreLong`) and no two transitions are farther apart (`EdgeNotMissed`); behind
that only the ranges are known (`FluxMoves`, `FluxKeeps`). The codec is
about all strings: `EveryCoded` says for each symbol of an encoded content what the decoder has
then (`CodedOK`), again by the least counterexample; `PlainDecodes` is its end, and `Realigns` starts it
behind a mark, where whatever came before has left whole bytes (`DecodedBy`) or a decoder that has
given up and stays so (`GivenUp`).

The drive's processor (`CpuInvariant`, `CpuCorrect`). What they suppose is `CpuConstants`: the reset leads
into the ROM, and what the ROM, the memory and the registers may start with are bytes. The ROM is
otherwise free, so the theorems are about every sequence of instructions that either engine can be given. The invariant
`CpuInv` adds to the promise what carries it. `StackKept`: an entry that no write has touched stands in its cells, as
a value, as a status byte or as an address; without it nothing could be said of a later pull.
`VectorsHold`: the vectors stay what they were, so a BRK and a reset lead where they should. `MachineTyped` has
the ranges, on which the arithmetic of 8 and 16 bits rests.

An opcode belongs to one class by the tables of `DriveOpcodes`, row by row (`CasesListed`, `CaseIs`): plain ones
with a mode, whose length is that of their column of the instruction set (`PlainKinds`,
`PlainDoes`), registers (`SingleDoes`), branches (`BranchDoes`), the stack (`StackDoes`) and jumps
(`JmpDoes`, `JsrDoes`, `BrkDoes`, `RtsDoes`, `RtiDoes`). Each lemma says that the class goes where the 6502
goes, leaves on the stack what its pull will want (`PushLeaves`) and brings back what was due; a
status byte gives back the flags it was made of (`FlagsComeBack`). `ExecuteDoes` puts them together and `EffectDoes`
adds the second engine. Sums are arithmetic: `OverflowIs` shows from the signs of the three bytes that the
signed sum is no signed byte, `SbcSubtracts` that adding the complement subtracts, and
`AdcAdds` and `CompareCompares` carry over to the operations that change memory first. `PerformsKeeps`
is the step. That an operand fetched by `read` is the one fetched by `read16` is true because the
program counter is in the ROM and operands are behind it, or at addresses 0 and 1: both copies of the memory
are the same there, which they are not in the page of the stack (`OperandPlaces`, `MemoryIsRead`).

Out of the prover's reach, and therefore with TLC: liveness (`CallsReturn`,
`ReleasedLineRises`, `PowerSettles`, `WaitsEnd`, `NmiTaken`, `IrqTaken`, `RasterComes`), and `ProgramRuns`, which is
about one program of every opcode; as an invariant of all micro-code it is false. Every promise
of `Devices` is proved.

## 6. Plan

Done: the modules of section 2 and the proofs of section 5. What would come next:

1. Composition: `DriveSerial` with `IecBusDomain`, and `VicII` as the bus that `C64Loop` takes as given.

## 7. Not modelled, and why

* The analog line solver: signal processing with no finite abstraction that would say something
  about the code. The noise of level 4 and the write surface are modelled as far as numbers and bits go
  (`ReadChannel`, `DiskImage!Worn`), with their random numbers as choices.
* The arithmetic of the 6510 (all its control is modelled), VIC pixels and colours, SID audio: data and
  combinational semantics.
* The ports of the CIA and of the VIAs beyond what the serial bus uses: storage.
* File headers and their parsing, printing, help texts and the loading of ROMs.
* `SharedIecClockDomain`: the bridge of older tests, replaced by `IecBusDomain`.
* `DriveScheduler`: a counter that nothing depends on. `IecEdgeQueue` is within `DriveBoard`: edges are
  queued and applied in one call.
* Regression, smoke and validation harnesses and the data of level 5 and 6. They are the larger
  part of the repository (in `c64_11.cpp` alone some 14 000 of 24 700 lines are self-tests), which
  bounds the share of lines that a model can stand for.
