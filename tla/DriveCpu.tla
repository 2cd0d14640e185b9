------------------------------ MODULE DriveCpu ------------------------------
(***************************************************************************)
(* The processor of the 1541: the micro-operation engine, five ticks to an *)
(* instruction, and the cycle-counted one with fifteen opcodes that the    *)
(* other profiles run.  Bytes and addresses are the real ones; the ROM     *)
(* holds any instructions of a program's set, chosen where the processor   *)
(* comes by.  What the VIAs show in their windows may change with every    *)
(* tick; what becomes of a byte written there is DriveBoard's.  The        *)
(* counters the engines keep are left out, and so are interrupts: neither  *)
(* engine looks at the line.                                               *)
(***************************************************************************)
EXTENDS DriveOpcodes, Integers

CONSTANTS
    Codes,                          \* what the ROM may hold and the machine start with, by name
    ResetVector, IrqVector

VARIABLES
    code,                           \* the name
    rom,                            \* memory[0xC000..]: the bytes that have been reached
    cpuMemory, ram,                    \* the two copies of 0..0xBFFF, where they are not 0
    reg, pc,                        \* cpuA, cpuX, cpuY, cpuSP, cpuP; pc
    op,                             \* driveCpuMicroOpState: phase, ir
    ready, wait,                    \* cpuReadyEdge, cpuCyclesToNext
    io                              \* what read_io has to give, where that is not 0

VARIABLES
    cpuLeft,                           \* instructions a program may still begin
    was,                            \* history: the latest instruction and what it worked on
    nextDue,                            \* history: where the next instruction is, if that is known
    onStack,                           \* history: what was pushed and is whole, by its place
    back                            \* history: what the latest pull had to bring back

machine == <<code, rom, cpuMemory, ram, reg, pc, op, ready, wait, io>>
cpuHistory == <<was, nextDue, onStack, back>>
cpuVars == <<machine, cpuLeft, cpuHistory>>

Program == Codes[code]
Phases == {"Fetch", "Decode", "Execute", "Writeback", "Complete"}

-----------------------------------------------------------------------------
(* Memory.                                                                 *)

RomBase == \hC000
Low(a) == a % 256
High(a) == a \div 256
Word(lo, hi) == lo + (256 * hi)
Plus(a, n) == (a + n) % 65536

MapOK(m, places) == DOMAIN m \subseteq places /\ \A a \in DOMAIN m : m[a] \in Bytes256
At(mem, a) == IF a \in DOMAIN mem THEN mem[a] ELSE 0
Over(f, g) == [a \in DOMAIN f \cup DOMAIN g |-> IF a \in DOMAIN f THEN f[a] ELSE g[a]]

\* read goes to the VIAs or to the map's own RAM; read16, push and pull go to memory[].
is_io_(a) == a \div 16 \in {\h180, \h1C0}
read(a) == IF a >= RomBase THEN At(rom, a) ELSE IF is_io_(a) THEN At(io, a) ELSE At(ram, a)
MemoryAt(a) == IF a >= RomBase THEN At(rom, a) ELSE At(cpuMemory, a)
read16(a) == Word(MemoryAt(a), MemoryAt(Plus(a, 1)))
read16ZeroPageWrap(z) == Word(read(z), read(OfByte(z + 1)))

StackAt(sp) == 256 + OfByte(256 + sp)
Pulled(n) == At(cpuMemory, StackAt(reg.sp + n))

-----------------------------------------------------------------------------
(* What an instruction does: new registers, the next address, what it      *)
(* writes to both copies and what it pushes, to memory[] alone.  A byte    *)
(* for the VIAs' windows goes to them and to memory[].                     *)

Nowhere == <<>>
Effect(r, n) == [reg |-> r, pc |-> n, wrote |-> Nowhere, pushed |-> Nowhere]

Operand == read(Plus(pc, 1))
OperandWord == read16(Plus(pc, 1))
Address(mode) ==
    CASE mode = "imm" -> Plus(pc, 1)
      [] mode = "zp" -> Operand
      [] mode = "zpx" -> OfByte(Operand + reg.x)
      [] mode = "zpy" -> OfByte(Operand + reg.y)
      [] mode = "abs" -> OperandWord
      [] mode = "absx" -> Plus(OperandWord, reg.x)
      [] mode = "absy" -> Plus(OperandWord, reg.y)
      [] mode = "indx" -> read16ZeroPageWrap(OfByte(Operand + reg.x))
      [] mode = "indy" -> Plus(read16ZeroPageWrap(Operand), reg.y)

Pushing(values, r, n) ==
    [Effect([r EXCEPT !.sp = OfByte(256 + @ - Len(values))], n) EXCEPT !.pushed =
        [a \in {StackAt(reg.sp + 1 - i) : i \in DOMAIN values} |->
            values[CHOOSE i \in DOMAIN values : StackAt(reg.sp + 1 - i) = a]]]
Pulling(count, r, n) == Effect([r EXCEPT !.sp = OfByte(@ + count)], n)

FlagsPushed == FlagByte(reg.p \cup {"B", "U"})
FlagsPulled(v) == (FlagsIn(v) \ {"B"}) \cup {"U"}

Stacked(o, n) ==
    CASE o = "PHA" -> Pushing(<<reg.a>>, reg, n)
      [] o = "PHP" -> Pushing(<<FlagsPushed>>, reg, n)
      [] o = "PLA" -> Pulling(1, InA(reg, Pulled(1)), n)
      [] o = "PLP" -> Pulling(1, [reg EXCEPT !.p = FlagsPulled(Pulled(1))], n)

\* The pointer of JMP () does not leave its page for the high byte.
Indirect(a) == Word(read(a), read((256 * High(a)) + OfByte(Low(a) + 1)))

Jumping(o, mode) ==
    CASE o = "JMP" -> Effect(reg, IF mode = "abs" THEN OperandWord ELSE Indirect(OperandWord))
      [] o = "JSR" -> Pushing(<<High(Plus(pc, 2)), Low(Plus(pc, 2))>>, reg, OperandWord)
      [] o = "BRK" ->
            Pushing(<<High(Plus(pc, 2)), Low(Plus(pc, 2)), FlagsPushed>>,
                    [reg EXCEPT !.p = @ \cup {"I"}], read16(\hFFFE))
      [] o = "RTS" -> Pulling(2, reg, Plus(Word(Pulled(1), Pulled(2)), 1))
      [] o = "RTI" ->
            Pulling(3, [reg EXCEPT !.p = FlagsPulled(Pulled(1))], Word(Pulled(2), Pulled(3)))

\* The flag a branch looks at, and the bit it is to be.
BranchOn == [BNE |-> <<"Z", 0>>, BEQ |-> <<"Z", 1>>, BCC |-> <<"C", 0>>, BCS |-> <<"C", 1>>,
             BPL |-> <<"N", 0>>, BMI |-> <<"N", 1>>, BVC |-> <<"V", 0>>, BVS |-> <<"V", 1>>]
Relative(v) == IF v < 128 THEN v ELSE v - 256
Taken(o) == (BranchOn[o][1] \in reg.p) = (BranchOn[o][2] = 1)
Branching(o) == Effect(reg, IF Taken(o) THEN Plus(pc, 2 + Relative(Operand)) ELSE Plus(pc, 2))

executeDriveCpuMicroOpBaseOpcode(b) ==
    LET o == CaseOf[b][1]
        mode == CaseOf[b][2]
        n == Plus(pc, Length(mode))
        write(r, v) == [Effect(r, n) EXCEPT !.wrote = [a \in {Address(mode)} |-> v]]
    IN  CASE mode = "rel" -> Branching(o)
          [] o \in Jumps -> Jumping(o, mode)
          [] o \in Stacks -> Stacked(o, n)
          [] mode = "one" /\ o \notin Stacks \cup Jumps -> Effect(Registers(o, reg), n)
          [] o \in Stores -> write(reg, Storing(o, reg))
          [] o \in Modifies /\ mode # "one" ->
                LET v == read(Address(mode)) IN write(Modifying(o, reg, v), Modified(o, reg, v))
          [] o \in ReadOps /\ mode # "one" -> Effect(Loading(o, reg, read(Address(mode))), n)

\* The fifteen opcodes of the other engine, and the cycles they take; its loads set no flags.
CountedOps == {\hEA, \h78, \h58, \hD8, \hF8, \h18, \h38, \hA9, \hA2, \hA0, \h4C, \h20, \h60, \hD0, \hF0}
Cycles(b) ==
    CASE b = \h4C \/ (b = \hD0 /\ Taken("BNE")) \/ (b = \hF0 /\ Taken("BEQ")) -> 3
      [] b \in {\h20, \h60} -> 6
      [] OTHER -> 2
stepCpuScaffoldCycleAccurate(b) ==
    LET n == Plus(pc, 2)
    IN  CASE b = \hA9 -> Effect([reg EXCEPT !.a = Operand], n)
          [] b = \hA2 -> Effect([reg EXCEPT !.x = Operand], n)
          [] b = \hA0 -> Effect([reg EXCEPT !.y = Operand], n)
          [] OTHER -> executeDriveCpuMicroOpBaseOpcode(b)

Knows == IF Program.micro THEN Handled ELSE CountedOps
\* An opcode that is not handled is stepped over as one byte.
EffectOf(b) ==
    IF b \notin Knows THEN Effect(reg, Plus(pc, 1))
    ELSE IF Program.micro THEN executeDriveCpuMicroOpBaseOpcode(b)
    ELSE stepCpuScaffoldCycleAccurate(b)

\* An instruction that leads to itself is left by one byte, and outside of the ROM the
\* processor starts again.
ResetTarget == read16(\hFFFC)
Led(n) ==
    LET m == IF n = pc THEN Plus(pc, 1) ELSE n
    IN  IF m < RomBase THEN ResetTarget ELSE m

-----------------------------------------------------------------------------
(* The instruction set of the 6502, for the history and the properties:    *)
(* an opcode's columns tell its length, its branches their flag, and a     *)
(* stack gives back what it was given.                                     *)

Column(b) == (b \div 4) % 8
OddBlock(b) == b % 2 = 1
LengthOf(b) ==
    CASE Column(b) \in {1, 4, 5} -> 2
      [] Column(b) \in {3, 7} -> 3
      [] Column(b) = 2 -> IF OddBlock(b) THEN 2 ELSE 1
      [] Column(b) = 6 -> IF OddBlock(b) THEN 3 ELSE 1
      [] Column(b) = 0 -> IF b = \h20 THEN 3 ELSE IF b \in {\h40, \h60} THEN 1 ELSE 2

IsBranch(b) == Column(b) = 4 /\ b % 4 = 0
BranchTaken(b) == (<<"N", "V", "C", "Z">>[(b \div 64) + 1] \in reg.p) = ((b \div 32) % 2 = 1)
OperandAt(n) == read(Plus(pc, n))

\* What a push puts on the stack, where it leaves the pointer, and the registers it was made
\* with.  It is whole until a cell of it is written.
Sizes == [PHA |-> 1, PHP |-> 1, JSR |-> 2, BRK |-> 3]
Pushed(o, r) ==
    [kind |-> o, at |-> r.sp, a |-> reg.a, p |-> reg.p, back |-> Plus(pc, IF o = "JSR" THEN 3 ELSE 2)]
Cells(s) == {StackAt(s.at + n) : n \in 1..Sizes[s.kind]}
Whole(S, touched) == {s \in S : Cells(s) \cap touched = {}}

\* What a pull takes, if it is what a push of its kind left at this place.
Takes == [PLA |-> "PHA", PLP |-> "PHP", RTS |-> "JSR", RTI |-> "BRK"]
Matching(o) == {s \in onStack : o \in DOMAIN Takes /\ s.kind = Takes[o] /\ s.at = reg.sp}
OwedAfter(o, e) ==
    Whole(onStack \ Matching(o), DOMAIN e.wrote \cup DOMAIN e.pushed)
        \cup {Pushed(k, e.reg) : k \in {o} \cap DOMAIN Sizes}

\* Where the 6502 goes next; nowhere is known for a return the program made up itself.
GoesTo(b) ==
    CASE IsBranch(b) /\ BranchTaken(b) ->
            {Plus(pc, IF OperandAt(1) < 128 THEN OperandAt(1) + 2 ELSE OperandAt(1) + 65282)}
      [] b \in {\h4C, \h20} -> {Word(OperandAt(1), OperandAt(2))}
      [] b = \h6C ->
            LET a == Word(OperandAt(1), OperandAt(2))
            IN  {Word(read(a), read(IF a % 256 = 255 THEN a - 255 ELSE a + 1))}
      [] b = \h00 -> {IrqVector}
      [] b = \h60 -> {s.back : s \in Matching("RTS")}
      [] b = \h40 -> {s.back : s \in Matching("RTI")}
      [] OTHER -> {Plus(pc, LengthOf(b))}

Remember(b, e) ==
    LET o == IF b \in Knows THEN CaseOf[b][1] ELSE "none"
        mode == IF b \in Knows THEN CaseOf[b][2] ELSE "one"
    IN  /\ was' = [op |-> o, reg |-> reg,
                   v |-> IF mode \in {"one", "rel", "ind"} THEN 0 ELSE read(Address(mode))]
        /\ nextDue' = {Led(t) : t \in IF b \in Knows THEN GoesTo(b) ELSE {Plus(pc, 1)}}
        /\ onStack' = OwedAfter(o, e)
        /\ back' = Matching(o)

-----------------------------------------------------------------------------
(* The ticks of the engines, between which the VIAs' ports and counters    *)
(* may have changed.                                                       *)

ViasShow == io' \in Program.io

\* The ROM where the processor comes to: an instruction of the set, but bytes that have been
\* seen stay; a byte that is no opcode of the program is followed by zeroes.
Placed(a, bytes) == [b \in {Plus(a, n - 1) : n \in DOMAIN bytes} |->
                        bytes[CHOOSE n \in DOMAIN bytes : Plus(a, n - 1) = b]]
Reaches(a) ==
    IF cpuLeft = 0 THEN UNCHANGED rom
    ELSE IF a \in DOMAIN rom THEN rom' = Over(rom, Placed(a, [n \in 1..LengthOf(rom[a]) |-> 0]))
    ELSE \E bytes \in Program.code : rom' = Over(rom, Placed(a, bytes))

Performs(b) ==
    \E e \in {EffectOf(b)} : \E wrote \in {[a \in DOMAIN e.wrote \cap 0..(RomBase - 1) |-> e.wrote[a]]} :
        /\ reg' = e.reg
        /\ pc' = Led(e.pc)
        /\ Reaches(Led(e.pc))
        /\ ram' = Over([a \in {x \in DOMAIN wrote : ~is_io_(x)} |-> wrote[a]], ram)
        /\ cpuMemory' = Over(e.pushed, Over(wrote, cpuMemory))
        /\ Remember(b, e)

\* stepDriveCpuMicroOpScaffold: fetch, decode, execute, write back, complete.
Fetch ==
    /\ Program.micro /\ op.phase = "Fetch" /\ cpuLeft > 0
    /\ op' = [phase |-> "Decode", ir |-> read(pc)]
    /\ cpuLeft' = cpuLeft - 1
    /\ ViasShow
    /\ UNCHANGED <<code, rom, cpuMemory, ram, reg, pc, ready, wait, cpuHistory>>

Execute ==
    /\ op.phase = "Execute"
    /\ op' = [op EXCEPT !.phase = "Writeback"]
    /\ Performs(op.ir)
    /\ ViasShow
    /\ UNCHANGED <<code, ready, wait, cpuLeft>>

CyclesToNext(n) == ((n + Program.scale - 1) \div Program.scale) - 1

AfterPhase == [Decode |-> "Execute", Writeback |-> "Complete", Complete |-> "Fetch"]
Proceed ==
    /\ op.phase \in DOMAIN AfterPhase
    /\ op' = [op EXCEPT !.phase = AfterPhase[@]]
    /\ ViasShow
    /\ UNCHANGED <<code, rom, cpuMemory, ram, reg, pc, ready, wait, cpuLeft, cpuHistory>>

\* The other engine: every second tick is a cycle, and an instruction is done in its first.
HalfTick ==
    /\ ~Program.micro /\ cpuLeft > 0
    /\ ready
    /\ ready' = FALSE
    /\ ViasShow
    /\ UNCHANGED <<code, rom, cpuMemory, ram, reg, pc, op, wait, cpuLeft, cpuHistory>>

WaitCycle ==
    /\ ~Program.micro /\ cpuLeft > 0
    /\ ~ready /\ wait > 0
    /\ ready' = TRUE
    /\ wait' = wait - 1
    /\ ViasShow
    /\ UNCHANGED <<code, rom, cpuMemory, ram, reg, pc, op, cpuLeft, cpuHistory>>

Step ==
    /\ ~Program.micro /\ cpuLeft > 0
    /\ ~ready /\ wait = 0
    /\ ready' = TRUE
    /\ wait' = CyclesToNext(Cycles(read(pc)))
    /\ cpuLeft' = cpuLeft - 1
    /\ Performs(read(pc))
    /\ ViasShow
    /\ UNCHANGED <<code, op>>

\* The program is over: cpuEnabled is false.
Disabled ==
    /\ cpuLeft = 0 /\ op.phase = "Fetch"
    /\ UNCHANGED cpuVars

\* reset: the registers, the engines, and the map's RAM, which is copied from memory[].
Registers0 == [a |-> 0, x |-> 0, y |-> 0, sp |-> 255, p |-> {"I", "U"}]
Stopped == [phase |-> "Fetch", ir |-> 0]
Nothing == [op |-> "none", reg |-> Registers0, v |-> 0]
RESET ==
    /\ Program.reset /\ cpuLeft > 0
    /\ reg' = Registers0
    /\ pc' = ResetTarget
    /\ ram' = cpuMemory
    /\ op' = Stopped
    /\ ready' = FALSE /\ wait' = 0
    /\ was' = Nothing
    /\ nextDue' = {ResetTarget}
    /\ onStack' = {} /\ back' = {}
    /\ ViasShow
    /\ UNCHANGED <<code, rom, cpuMemory, cpuLeft>>

Vectors == Placed(\hFFFC, <<Low(ResetVector), High(ResetVector), Low(IrqVector), High(IrqVector)>>)

\* What the theorems suppose of the constants: the reset leads into the ROM, and programs are
\* bytes.
CpuConstants ==
    /\ ResetVector \in RomBase..65535
    /\ IrqVector \in Nat /\ IrqVector < 65536
    /\ \A n \in DOMAIN Codes :
        /\ Codes[n].scale \in Nat \ {0}
        /\ \A bytes \in Codes[n].code : bytes \in Seq(Bytes256)
        /\ \A m \in Codes[n].ram \cup Codes[n].io : MapOK(m, 0..(RomBase - 1))
        /\ \A r \in Codes[n].start : r \in RegisterFiles

\* A program begins where the reset led to, with what it has put into registers and memory.
CpuInit ==
    /\ code \in DOMAIN Codes
    /\ \E bytes \in Program.code : rom = Over(Vectors, Placed(ResetVector, bytes))
    /\ cpuMemory \in Program.ram
    /\ ram = cpuMemory
    /\ reg \in Program.start
    /\ pc = ResetVector
    /\ op = Stopped
    /\ ready = FALSE /\ wait = 0
    /\ io \in Program.io
    /\ cpuLeft = Program.length
    /\ was = Nothing /\ nextDue = {pc} /\ onStack = {} /\ back = {}

CpuNext == Fetch \/ Execute \/ Proceed \/ HalfTick \/ WaitCycle \/ Step \/ Disabled \/ RESET

CpuSpec == CpuInit /\ [][CpuNext]_cpuVars

-----------------------------------------------------------------------------
(* Properties.                                                             *)

\* Every variable has the values the program's types allow.
CpuTypeOK ==
    /\ reg \in RegisterFiles /\ pc \in RomBase..65535
    /\ op.phase \in Phases /\ op.ir \in Bytes256
    /\ ready \in BOOLEAN /\ wait \in 0..5
    /\ \A m \in {cpuMemory, ram, io} : MapOK(m, 0..(RomBase - 1))

\* Every instruction is followed by the one the 6502 goes to: operands are never taken for
\* opcodes, branches reach their targets, and the innermost call, not yet returned from, gets
\* its return.  An opcode that is not handled, an instruction that leads to itself and one
\* that leaves the ROM go where the engine puts them.
InStep == \A t \in nextDue : pc = t

\* What a program pushed comes back, with the break flag down.
ComesBack(s, r) ==
    /\ s.kind = "PHA" => r.a = s.a
    /\ s.kind \in {"PHP", "BRK"} => r.p = (s.p \ {"B"}) \cup {"U"}
PushedComesBack == \A s \in back : ComesBack(s, reg)

\* Sums, differences and comparisons, n being the registers afterwards, are those of the
\* numbers, signed for the overflow and unsigned for the carry, when they follow a change of
\* memory, too.
NumbersOf(n, a, v, c, sum) ==
    /\ n.a = (512 + sum) % 256
    /\ "V" \in n.p <=> Relative(a) + v + c \notin -128..127
    /\ "Z" \in n.p <=> n.a = 0
    /\ "N" \in n.p <=> n.a > 127
SumOf(n, a, v, c) == NumbersOf(n, a, Relative(v), c, a + v + c) /\ ("C" \in n.p <=> a + v + c > 255)
DifferenceOf(n, a, v, c) ==
    NumbersOf(n, a, -Relative(v), c - 1, a - v + c - 1) /\ ("C" \in n.p <=> a >= v + 1 - c)
ComparedBy(n, l, v) ==
    ("C" \in n.p <=> l >= v) /\ ("Z" \in n.p <=> l = v) /\ ("N" \in n.p <=> (256 + l - v) % 256 > 127)

ComputedOf(o, r, v, n) ==
    LET c == IF "C" \in r.p THEN 1 ELSE 0
    IN  /\ o = "ADC" => SumOf(n, r.a, v, c)
        /\ o = "RRA" => SumOf(n, r.a, (v + (256 * c)) \div 2, v % 2)
        /\ o = "SBC" => DifferenceOf(n, r.a, v, c)
        /\ o = "ISC" => DifferenceOf(n, r.a, (v + 1) % 256, c)
        /\ o = "CMP" => ComparedBy(n, r.a, v)
        /\ o = "DCP" => ComparedBy(n, r.a, (v + 255) % 256)
        /\ o = "CPX" => ComparedBy(n, r.x, v)
        /\ o = "CPY" => ComparedBy(n, r.y, v)
        /\ o = "SBX" => ComparedBy(n, And(r.a, r.x), v) /\ n.x = (256 + And(r.a, r.x) - v) % 256
Computes == Program.micro => ComputedOf(was.op, was.reg, was.v, reg)

\* The two copies of the RAM differ at most in the stack's page and behind the VIAs' windows,
\* from which the program does not read.
CopiesAgree ==
    \A a \in DOMAIN cpuMemory \cup DOMAIN ram :
        At(cpuMemory, a) = At(ram, a) \/ a \in 256..511 \/ is_io_(a)

\* Drive processor: both engines go where the 6502 goes, a stack gives back what it was
\* given, sums are sums, and the two copies of the memory agree but for the stack and the
\* VIAs' windows.
CpuComputes ==
    /\ CpuTypeOK
    /\ InStep /\ PushedComesBack /\ Computes
    /\ CopiesAgree

=============================================================================
