------------------------------ MODULE MCDevices ------------------------------
(***************************************************************************)
(* The devices of the emulator that share no state of the models with one  *)
(* another, each with its programs, checked in one run: a behaviour is the *)
(* behaviour of one of them, and the others stand still.  The modules are  *)
(* extended, so that what is checked is what is proved.                    *)
(***************************************************************************)
EXTENDS DriveBoard, DriveDos, Cia6526, Console, DriveCpu, Bus, DiskImage, ReadChannel, Integers,
        Sequences, TLC

VARIABLE part                       \* the device that runs

-----------------------------------------------------------------------------
(* The two revisions of the 6526 and what a program does with it.          *)

Chip(later) == [todReload |-> 2, clearsLatch |-> ~later, writeStops |-> ~later,
                flagAtOnce |-> later, fallingEdge |-> later, shiftReload |-> 1]
BothChips == {Chip(FALSE), Chip(TRUE)}

Levels(S) == {[cnt |-> "cnt" \notin s, sp |-> "sp" \notin s, flag |-> "flag" \notin s] : s \in SUBSET S}
Cra(S) == {[start |-> "start" \in s, load |-> "load" \in s, oneShot |-> "oneShot" \in s,
            out |-> "out" \in s] : s \in SUBSET S}
Crb(S) == {[start |-> "start" \in s, load |-> "load" \in s, oneShot |-> "oneShot" \in s,
            alarm |-> "alarm" \in s] : s \in SUBSET S}
Untouched ==
    [chips |-> BothChips, stood |-> FALSE, reads |-> {}, levels |-> {}, low |-> <<{}, {}>>,
     high |-> <<{}, {}>>, cra |-> {}, crb |-> {}, time |-> <<>>, sdr |-> {}, mask |-> {}]
Stood == [Untouched EXCEPT !.chips = {Chip(FALSE)}, !.stood = TRUE]
CiaNamed ==
    [timers |-> [Stood EXCEPT !.reads = {"ICR"}, !.low = <<{1}, {}>>, !.high = <<{0}, {0}>>,
                              !.cra = Cra({"start", "load", "oneShot"}), !.crb = Crb({"start"})],
     flag |-> [Untouched EXCEPT !.chips = {Chip(TRUE)}, !.reads = {"ICR"}, !.levels = Levels({"flag"}),
                                !.mask = [set : BOOLEAN, events : {{"FLG"}}]],
     clock |-> [Untouched EXCEPT !.chips = {Chip(FALSE)}, !.reads = {"TH", "TT"},
                                 !.time = [hours |-> {[hours |-> 1, pm |-> FALSE]},
                                           minutes |-> {1}, tenths |-> {0}]],
     later |-> [Untouched EXCEPT !.chips = {Chip(TRUE)}, !.reads = {"TH", "TT"},
                                 !.time = [minutes |-> {1}]],
     alarm |-> [Untouched EXCEPT !.reads = {"ICR"}, !.crb = Crb({"alarm"}),
                                 !.time = [hours |-> {[hours |-> 1, pm |-> FALSE]}],
                                 !.mask = [set : BOOLEAN, events : {{"ALRM"}}]],
     input |-> [Untouched EXCEPT !.chips = {Chip(TRUE)}, !.levels = Levels({"cnt", "sp"})],
     serial |-> [Stood EXCEPT !.levels = Levels({"cnt"}), !.sdr = {<<1, 0>>},
                              !.cra = Cra({"start", "out"})]]
CiaTours == [n \in DOMAIN CiaNamed |-> CiaNamed[n]]

\* The theorems about the CIA suppose of its constants what TLC finds true of these.
ASSUME CiaProgramsAssumption == CiaConstants

-----------------------------------------------------------------------------
(* A user at the console: one who lays cables, and one who plays.          *)

Idler == [commands |-> 3, names |-> {"TRUNK0"}, wires |-> {}, modes |-> {}, switched |-> {},
          c64 |-> FALSE, slots |-> {}, hostPulls |-> {{}}, drivePulls |-> {{}}]
SessionsNamed ==
    [wiring |-> [Idler EXCEPT !.names = {"TRUNK0", "SEG1"}, !.wires = {{0, 1}, {1, 2}}, !.slots = {3}],
     pulses |-> [Idler EXCEPT !.commands = 1, !.slots = {1, 3}, !.c64 = TRUE,
                              !.modes = {"Auto", "ForceSimple"}, !.switched = {1},
                              !.hostPulls = {{}, {"CLK"}}, !.drivePulls = {{}, {"DATA"}}]]
ConsoleSessions == [n \in DOMAIN SessionsNamed |-> SessionsNamed[n]]
CableNames == <<"SEG0", "SEG1", "SEG2">>
CableProfiles == [PROFILE_SHORT |-> 1, PROFILE_LONG |-> 2]

\* The theorems about the console suppose of its constants what TLC finds true of these.
ASSUME ConsoleSessionsAssumption == ConsoleConstants

-----------------------------------------------------------------------------
(* Programs of the drive's processor: every opcode once, sums at the       *)
(* boundaries, calls and pulls, the VIAs' windows and the cells beside     *)
(* them, and the cycle-counted engine.                                     *)

Regs(a, x, y, sp, p) == [a |-> a, x |-> x, y |-> y, sp |-> sp, p |-> p]
Boundaries == {0, 1, 127, 128, 255}
Micro == [micro |-> TRUE, scale |-> 1, length |-> 1, reset |-> FALSE, code |-> {},
          ram |-> {<<>>}, io |-> {<<>>}, start |-> {Regs(1, 0, 0, 0, {"U", "D"})}]
Operands == (\h10 :> \h80) @@ (\h11 :> \h02) @@ (\h15 :> \hFF) @@ (\h280 :> 127)
CodesNamed ==
    [stands |-> [Micro EXCEPT !.length = 0, !.code = {<<\hEA>>}],
     each |-> [Micro EXCEPT
                !.code = {<<b, \h10, \h02>> : b \in 0..255},
                !.ram = {Operands},
                !.start = {Regs(\h7F, 5, \h80, \hFF, {"U"}),
                           Regs(\h80, \hF0, 3, \h01, {"U", "C", "Z", "N", "V"})}],
     sums |-> [Micro EXCEPT
                !.code = {<<b, v>> : b \in {\h69, \hE9, \hC9, \hE0, \hC0, \hCB}, v \in Boundaries}
                         \cup {<<b, \h10>> : b \in {\h67, \hE7, \hC7}},
                !.ram = {\h10 :> v : v \in Boundaries},
                !.start = {Regs(a, 129, 3, 255, p) : a \in Boundaries, p \in {{"U"}, {"U", "C"}}}],
     calls |-> [Micro EXCEPT
                !.length = 4, !.reset = TRUE,
                !.code = {<<\h20, \h03, \hE0>>, <<\h60>>, <<\h48>>, <<\h68>>, <<\h40>>, <<\h00>>,
                          <<\h08>>, <<\h28>>}],
     ports |-> [Micro EXCEPT
                !.length = 2, !.reset = TRUE, !.io = {<<>>, (\h1800 :> \h7F) @@ (\h1C0F :> 2)},
                !.code = {<<\h8D, \h00, \h18>>, <<\h6D, \h00, \h18>>, <<\hEE, \h0F, \h1C>>,
                          <<\h8D, \hFF, \h17>>, <<\hEE, \h10, \h18>>, <<\h6C, \h0F, \h1C>>}],
     counted |-> [Micro EXCEPT
                !.micro = FALSE, !.scale = 2, !.length = 4,
                !.code = {<<\h20, \h03, \hE0>>, <<\h60>>, <<\h4C, \h00, \hE0>>, <<\hA9, 0>>,
                          <<\hD0, \hFC>>, <<\hF0, \h02>>, <<\h12>>, <<\h18>>, <<\hA2, 1>>, <<\hA0, 1>>},
                !.start = {Regs(0, 0, 0, 255, {"I", "U"})}]]
CpuPrograms == [n \in DOMAIN CodesNamed |-> CodesNamed[n]]

\* The theorems about the processor suppose of its constants what TLC finds true of these.
ASSUME DriveProgramsAssumption == CpuConstants

-----------------------------------------------------------------------------
(* The drive's board: its timers, its shift register, the lines through a  *)
(* drive that is switched, and its lamps.                                  *)

Still == [host |-> {{}}, bytes |-> {}, acr |-> {}, shift |-> FALSE, flags |-> {}, portB |-> {},
          serial |-> {FALSE}, delays |-> {0}, vias |-> {}, busy |-> {FALSE}, flux |-> FALSE,
          powers |-> {}, c64 |-> {}, status |-> {}, reset |-> FALSE]
PlansNamed ==
    [timers |-> [Still EXCEPT !.bytes = {0, 1}, !.vias = {1}, !.flags = {{"T1"}},
                              !.acr = [bit6clear : BOOLEAN, shifts : {FALSE}]],
     shift |-> [Still EXCEPT !.vias = {2}, !.shift = TRUE, !.flags = {{"SR"}}, !.reset = TRUE,
                             !.acr = [bit6clear : {TRUE}, shifts : BOOLEAN]],
     lines |-> [Still EXCEPT !.host = {{}, {"ATN"}}, !.portB = {{}, {"CLK"}}, !.serial = BOOLEAN,
                             !.delays = {0, 1}, !.powers = {"SpinningUp", "SpinningDown", "Resetting"},
                             !.c64 = {"Off", "Resetting", "On"}, !.reset = TRUE],
     lamps |-> [Still EXCEPT !.serial = BOOLEAN, !.busy = BOOLEAN, !.flux = TRUE, !.status = BOOLEAN,
                             !.powers = {"SpinningUp", "SpinningDown"}, !.reset = TRUE]]
BoardPlans == [n \in DOMAIN PlansNamed |-> PlansNamed[n]]

-----------------------------------------------------------------------------
(* The host of a drive: names and patterns of two letters, files, memory   *)
(* reads, blocks that overlap and fold in memory, an image that lacks a    *)
(* block, and one that encodes.                                            *)

A == 65
B == 66
DollarSign == <<36>>
Empty == <<>>
UpTo(S, n) == UNION {[1..k -> S] : k \in 0..n}
Patterns == {DollarSign \o p : p \in UpTo({A, B, 42, 63}, 4)}
HostNames == Patterns \cup {<<A>>, <<B, A>>}
Opens(name, words) == [name |-> name, words |-> words]
Silent == [image |-> "none", directory |-> <<>>, free |-> 0, length |-> 5, lastCell |-> 7,
           opens |-> {}, specs |-> {Opens(Empty, <<>>)}, memoryReads |-> {}, memoryWrites |-> {},
           codes |-> {}, blockChannels |-> {}, pointers |-> {}, blocks |-> {}, results |-> <<>>,
           texts |-> {}, reset |-> FALSE, decoded |-> {}]
DialoguesNamed ==
    [stands |-> [Silent EXCEPT !.length = 0, !.specs = {}],
     wildcards |-> [Silent EXCEPT !.length = 1, !.specs = {Opens(p, <<>>) : p \in Patterns},
                                  !.texts = UpTo({A, B}, 4)],
     files |-> [Silent EXCEPT
                 !.length = 4, !.opens = {2, 15}, !.blockChannels = {0, 2}, !.blocks = {<<1, 0>>, <<1, 1>>},
                 !.specs = {Opens(<<A>>, <<"S", "W">>), Opens(<<B, A>>, <<"R", "X">>),
                            Opens(<<36, 42, A>>, <<"S">>), Opens(DollarSign, <<"", "!W">>)}],
     answers |-> [Silent EXCEPT
                   !.opens = {15}, !.memoryReads = {<<0, 2>>}, !.codes = {"31"}, !.reset = TRUE,
                   !.memoryWrites = {[at |-> 1, bytes |-> <<7, -1>>]}],
     blocks |-> [Silent EXCEPT
                  !.opens = {15}, !.specs = {Opens(DollarSign, <<>>)}, !.blockChannels = {0}, !.pointers = {1},
                  !.memoryWrites = {[at |-> 2, bytes |-> <<7>>]},
                  !.blocks = {<<1, 0>>, <<1, 1>>, <<3, 0>>}],
     encoded |-> [Silent EXCEPT
                   !.length = 3, !.image = "raw", !.opens = {15}, !.blockChannels = {0}, !.blocks = {<<1, 0>>, <<1, 1>>},
                   !.results = [a \in Tracks \X Sectors |->
                                  IF a = <<1, 0>> THEN "written" ELSE "invalid address"],
                   !.decoded = {<<0, 5>>, <<5, 5>>}],
     image |-> [Silent EXCEPT
                 !.length = 4, !.image = "d64", !.free = 9, !.opens = {15},
                 !.directory = <<[name |-> <<A>>, blocks |-> 3, type |-> "PRG", mode |-> ""],
                                 [name |-> <<B>>, blocks |-> 1, type |-> "SEQ", mode |-> ""]>>,
                 !.specs = {Opens(<<36, B>>, <<>>)}, !.blockChannels = {0},
                 !.blocks = {<<1, 0>>, <<1, 1>>},
                 !.results = [a \in Tracks \X Sectors |->
                                IF a = <<1, 0>> THEN "written" ELSE "invalid address"]]]
HostDialogues == [n \in DOMAIN DialoguesNamed |-> DialoguesNamed[n]]

\* The theorems about the command channel suppose of its constants what TLC finds true of these.
ASSUME HostDialoguesAssumption == DosConstants

-----------------------------------------------------------------------------
(* Programs on the bus: the banks, the chips, and the idle bus.            *)

IdleLines == [NMOS |-> [threshold |-> 3, value |-> 255], HMOS |-> [threshold |-> 2, value |-> 0]]
On(addresses, values(_)) ==
    [addresses |-> addresses, chips |-> {"vic", "sid", "cia1", "cia2"},
     roms |-> {"basic", "kernal", "char"}, reads |-> 4, bytes |-> [a \in addresses |-> values(a)],
     dummies |-> {}, revisions |-> {}, flat |-> FALSE]
BusNamed ==
    [stands |-> On({}, LAMBDA a : {}),
     banks |-> On({0, 1, \hA000, \hD000, \hE000},
                  LAMBDA a : IF a = 0 THEN {\h2F, \h28} ELSE IF a = 1 THEN \h30..\h37 ELSE {1}),
     chips |-> [On({1, \hD400, \hD7FF, \hDC00, \hDD0F, \hDE00},
                   LAMBDA a : IF a = 1 THEN {\h30, \h33, \h37} ELSE {1})
                EXCEPT !.chips = {"vic", "cia1", "cia2"}],
     idle |-> [On({1, \hDE00, \h1000}, LAMBDA a : IF a = 1 THEN {\h33, \h37} ELSE {1, 2})
               EXCEPT !.roms = {}, !.dummies = {7}, !.revisions = DOMAIN IdleLines, !.flat = TRUE]]
BankTours == [n \in DOMAIN BusNamed |-> BusNamed[n]]

\* The theorems about the bus suppose of its constants what TLC finds true of these.
ASSUME BankToursAssumption == BusConstants

-----------------------------------------------------------------------------
(* Images of three tracks in three zones: sector images with and without   *)
(* a directory, a raw one under each profile, and images of tracks whose   *)
(* table is complete, has holes, or is not there.                          *)

Ultimate == ImageBlock - 1
Repeat(b) == [i \in 0..Ultimate |-> b]
\* A sector of the directory: its link, and its entries' types and names.
Sector(link, types) ==
    [i \in 0..Ultimate |-> CASE i = 0 -> link[1] [] i = 1 -> link[2]
                         [] i \in {4, 11} -> types[(i + 3) \div 7]
                         [] i \in {5, 12} -> 97 + link[2] [] i = 6 -> 160 [] i = 13 -> 66
                         [] i \in {7, 14} -> 3 [] OTHER -> 0]
Plain == [format |-> "d64", env |-> "", size |-> 144, bytes |-> [o \in 0..143 |-> 0], table |-> <<>>, sound |-> TRUE,
          addresses |-> {}, blocks |-> {}, profiles |-> {"Level1Functional"}, lists |-> FALSE,
          unplugs |-> FALSE, remounts |-> FALSE, marks |-> {}, steps |-> 4]
Raw == [Plain EXCEPT !.format = "raw", !.addresses = {<<1, 0>>, <<2, 1>>}]
ImageSlice(at, length) == [at |-> at, length |-> length]
Missing == ImageSlice(0, 0)
ImagesNamed ==
    [stands |-> [Plain EXCEPT !.format = "g64", !.sound = FALSE, !.bytes = <<>>, !.steps = 0],
     sectors |-> [Plain EXCEPT
                    !.size = 120, !.bytes = [o \in 0..143 |-> IF o < 120 THEN o ELSE 0], !.unplugs = TRUE, !.remounts = TRUE,
                    !.addresses = {<<1, 2>>, <<1, 3>>, <<2, 0>>, <<3, 0>>, <<3, 1>>, <<4, 0>>},
                    !.blocks = {Repeat(255)}],
     chain |-> [Plain EXCEPT
                    !.lists = TRUE, !.addresses = {<<2, 1>>, <<2, 2>>, <<3, 0>>},
                    !.blocks = {Sector(<<0, 1>>, <<130, 0>>), Sector(<<2, 2>>, <<1, 129>>),
                                Sector(<<3, 0>>, <<0, 5>>), Sector(<<2, 1>>, <<2, 0>>),
                                Sector(<<3, 7>>, <<1, 3>>)}],
     layers |-> [Raw EXCEPT !.profiles = {"Level2Cycle", "Level3Physical", "Level5Coupling"},
                            !.remounts = TRUE, !.unplugs = TRUE, !.blocks = {Repeat(0)}],
     followed |-> [Raw EXCEPT !.profiles = {"Level2Cycle", "Level3Physical"}, !.remounts = TRUE],
     relock |-> [Raw EXCEPT !.addresses = {<<1, 0>>}, !.blocks = {Repeat(0), Repeat(2)}, !.steps = 9],
     physical |-> [Raw EXCEPT !.env = "level3-physical", !.blocks = {Repeat(0), Repeat(2)}],
     worn |-> [Raw EXCEPT !.env = "level4-accuracy", !.marks = {<<0, 3>>, <<5, 5>>},
                          !.blocks = {Repeat(0)}, !.steps = 5],
     whole |-> [Plain EXCEPT
                    !.format = "g64", !.size = 100, !.bytes = [o \in 0..99 |-> IF o < 60 THEN 255 ELSE 85],
                    !.table = <<ImageSlice(12, 24), Missing, ImageSlice(38, 16), Missing, ImageSlice(60, 38)>>,
                    !.addresses = {<<1, 2>>, <<2, 5>>, <<4, 0>>},
                    !.blocks = {Repeat(0)}, !.unplugs = TRUE, !.remounts = TRUE],
     holes |-> [Plain EXCEPT
                    !.format = "g64", !.size = 100,
                    !.table = <<ImageSlice(12, 24), ImageSlice(38, 16), ImageSlice(60, 39), ImageSlice(0, 16)>>,
                    !.addresses = {<<1, 0>>, <<2, 0>>, <<3, 1>>}],
     broken |-> [Plain EXCEPT !.format = "g64", !.sound = FALSE, !.addresses = {<<1, 0>>}],
     tracks |-> [Plain EXCEPT !.format = "nib", !.size = 60, !.addresses = {<<1, 0>>, <<2, 3>>, <<3, 0>>}],
     odd |-> [Plain EXCEPT !.format = "nib", !.size = 61, !.addresses = {<<1, 0>>, <<2, 3>>, <<3, 0>>}]]
DiskImages == [n \in DOMAIN ImagesNamed |-> ImagesNamed[n]]
ImageTracks == <<3, 4, 2>>
ImageSpeeds == <<1, 2>>
DirLayout == [bytes |-> 7, count |-> 2, type |-> 2, name |-> 3, length |-> 2, blocks |-> 5]
BamLayout == [first |-> 4, bytes |-> 4]

\* The theorems about the images suppose of their constants what TLC finds true of these.
ASSUME DiskImagesAssumption == ImageConstants

-----------------------------------------------------------------------------
(* Reads of one drive after another: the noisiest addresses at the last    *)
(* track, a spindle whose clock outgrows its ticks, weak regions, and      *)
(* streams of symbols with marks and damage.                               *)

Draw(j, slips, long) == [jitter |-> j, slips |-> slips, long |-> long]
Reader == [address |-> 8, revision |-> 0, levels |-> {4}, from |-> 0, until |-> 0, pauses |-> {},
           reads |-> 24, tracks |-> {35}, contents |-> {<<165>>}, buckets |-> {0, 63},
           draws |-> {Draw(-1, FALSE, FALSE)}, noises |-> {0}, resets |-> FALSE, damages |-> {}]
ReadersNamed ==
    [stands |-> [Reader EXCEPT !.contents = {}],
     tenth |-> [Reader EXCEPT !.address = 10],
     eleventh |-> [Reader EXCEPT !.address = 11, !.buckets = {63}],
     second |-> [Reader EXCEPT !.address = 11, !.revision = 1],
     spindle |-> [Reader EXCEPT
                    !.levels = {2, 4}, !.until = 150, !.pauses = {30}, !.reads = 4, !.tracks = {1, 18, 43},
                    !.buckets = {31}, !.noises = {1}, !.resets = TRUE],
     weak |-> [Reader EXCEPT
                !.levels = {3}, !.from = 95, !.until = 95, !.reads = 4, !.tracks = {1, 35},
                !.buckets = {31}, !.noises = 0..4,
                !.draws = {Draw(-2, TRUE, FALSE), Draw(2, FALSE, FALSE), Draw(0, FALSE, TRUE)}],
     codec |-> [Reader EXCEPT
                 !.reads = 0, !.contents = UpTo({0, 165}, 2), !.damages = UpTo({0, 10, 21, 255}, 4)]]
ReaderTours == [n \in DOMAIN ReadersNamed |-> ReadersNamed[n]]

Zones == <<17, 24, 30>>
EdgeDistances == <<7, 9, 8>>
WeakTicks == {<<96, 110>>, <<120, 127>>}

\* The theorems about the read channel suppose of its constants what TLC finds true of these.
ASSUME ReaderToursAssumption == ChannelConstants

-----------------------------------------------------------------------------

allVars == <<part, ciaVars, consoleVars, cpuVars, vars, dosVars, busVars, imageVars, channelVars>>

\* A device that does not run; the board and the CIA stand as after power-up, the console
\* as without cables, and the command channel, the bus, the images and the read channel have
\* programs that do nothing.
boardIdle == plan = "lamps" /\ Init
ciaIdle == ciaProgram = "timers" /\ CiaInit
conIdle ==
    /\ session = "wiring" /\ typed = 0
    /\ cables = <<>> /\ default = {} /\ mode = "Auto" /\ presets = DefaultPresets
    /\ c64On = TRUE /\ drivePower = [d \in Drives |-> "Off"]
    /\ hostPull = {} /\ drivePull = NoPull /\ view = [e \in Ends |-> Idle]
    /\ driven = {} /\ still = 0 /\ due = [e \in Ends |-> 0]
cpuIdle == code = "stands" /\ CpuInit
dosIdle == dialogue = "stands" /\ DosInit
busIdle == busProgram = "stands" /\ BusInit
imgIdle == image = "stands" /\ ImageInit
chanIdle == unit = "stands" /\ ChannelInit

DevicesInit ==
    \/ /\ part = "cia" /\ CiaInit
       /\ conIdle /\ cpuIdle /\ boardIdle /\ dosIdle /\ busIdle /\ imgIdle /\ chanIdle
    \/ /\ part = "con" /\ ConsoleInit
       /\ ciaIdle /\ cpuIdle /\ boardIdle /\ dosIdle /\ busIdle /\ imgIdle /\ chanIdle
    \/ /\ part = "cpu" /\ CpuInit
       /\ ciaIdle /\ conIdle /\ boardIdle /\ dosIdle /\ busIdle /\ imgIdle /\ chanIdle
    \/ /\ part = "board" /\ Init
       /\ ciaIdle /\ conIdle /\ cpuIdle /\ dosIdle /\ busIdle /\ imgIdle /\ chanIdle
    \/ /\ part = "dos" /\ DosInit
       /\ ciaIdle /\ conIdle /\ cpuIdle /\ boardIdle /\ busIdle /\ imgIdle /\ chanIdle
    \/ /\ part = "bus" /\ BusInit
       /\ ciaIdle /\ conIdle /\ cpuIdle /\ boardIdle /\ dosIdle /\ imgIdle /\ chanIdle
    \/ /\ part = "img" /\ ImageInit
       /\ ciaIdle /\ conIdle /\ cpuIdle /\ boardIdle /\ dosIdle /\ busIdle /\ chanIdle
    \/ /\ part = "chan" /\ ChannelInit
       /\ ciaIdle /\ conIdle /\ cpuIdle /\ boardIdle /\ dosIdle /\ busIdle /\ imgIdle

CiaRuns ==
    /\ part = "cia" /\ CiaNext
    /\ UNCHANGED <<part, consoleVars, cpuVars, vars, dosVars, busVars, imageVars, channelVars>>
ConsoleRuns ==
    /\ part = "con" /\ ConsoleNext
    /\ UNCHANGED <<part, ciaVars, cpuVars, vars, dosVars, busVars, imageVars, channelVars>>
CpuRuns ==
    /\ part = "cpu" /\ CpuNext
    /\ UNCHANGED <<part, ciaVars, consoleVars, vars, dosVars, busVars, imageVars, channelVars>>
BoardRuns ==
    /\ part = "board" /\ Next
    /\ UNCHANGED <<part, ciaVars, consoleVars, cpuVars, dosVars, busVars, imageVars, channelVars>>
DosRuns ==
    /\ part = "dos" /\ DosNext
    /\ UNCHANGED <<part, ciaVars, consoleVars, cpuVars, vars, busVars, imageVars, channelVars>>
BusRuns ==
    /\ part = "bus" /\ BusNext
    /\ UNCHANGED <<part, ciaVars, consoleVars, cpuVars, vars, dosVars, imageVars, channelVars>>

ImageRuns ==
    /\ part = "img" /\ ImageNext
    /\ UNCHANGED <<part, ciaVars, consoleVars, cpuVars, vars, dosVars, busVars, channelVars>>

ChannelRuns ==
    /\ part = "chan" /\ ChannelNext
    /\ UNCHANGED <<part, ciaVars, consoleVars, cpuVars, vars, dosVars, busVars, imageVars>>

DevicesNext ==
    \/ CiaRuns \/ ConsoleRuns \/ CpuRuns \/ BoardRuns
    \/ DosRuns \/ BusRuns \/ ImageRuns \/ ChannelRuns

DevicesSpec == DevicesInit /\ [][DevicesNext]_allVars

-----------------------------------------------------------------------------
(* Properties: each is its module's own (CiaKeeps, CablesCarry,            *)
(* CpuComputes, BoardKeeps, DosAnswers, BusHolds, ImagesHold and           *)
(* ChannelReads), and holds of a device that stands still, too.            *)

================================================================================
