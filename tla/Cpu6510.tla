------------------------------- MODULE Cpu6510 -------------------------------
(***************************************************************************)
(* CPU6510: the queue of micro-operations, the clock that runs it one half *)
(* cycle at a time, the interrupt sequences and the dummy read that stolen *)
(* cycles queue.  A program is a set of instructions for each address.     *)
(***************************************************************************)
EXTENDS Naturals, Sequences, MicroCode

CONSTANTS Schedules,    \* the schedules of an opcode: Decode of MicroCode
          Code,         \* the instructions that may be at an address
          Bottom,       \* bound: the stack is modelled from this byte of page 1 up
          IrqVector, NmiVector, ResetVector

Byte == 0..255
AddressSpace == 65536
Address == 0..(AddressSpace - 1)
Opcodes == 0..255
StackTop == 253         \* the stack pointer after a reset
Cells == Bottom..StackTop

ASSUME CpuAssumption ==
    /\ Bottom \in Nat
    /\ {IrqVector, NmiVector, ResetVector} \subseteq Address
    /\ Schedules \in [Opcodes -> SUBSET Seq(MicroOps)]
    /\ \A o \in Opcodes : \A s \in Schedules[o] : \A k \in DOMAIN s : "endDummy" \notin s[k].does

BranchOpcodes == {\h10, \h30, \h50, \h70, \h90, \hB0, \hD0, \hF0}

VARIABLES
    queue,          \* microOps
    phase,          \* currentPhase
    pc, sp,         \* R.PC and R.SP
    masked,         \* the interrupt disable flag of R.P
    stack,          \* page 1
    operand,        \* what the current instruction addresses
    inDummy,        \* inDummySequence
    branchTaken,
    irqSampled,     \* irqSampledLow
    nmiLine, pendingNmi, blockNmi,
    halted,
    start           \* history: the machine when the queue was last empty

cpu == <<queue, phase, pc, sp, masked, stack, operand, inDummy, branchTaken, irqSampled,
         nmiLine, pendingNmi, blockNmi, halted, start>>

Op(p, effects) == [phase |-> p, does |-> effects]
Other(p) == IF p = "PHI1" THEN "PHI2" ELSE "PHI1"

\* The machine as a program sees it: the bytes under the stack pointer are gone.
Now == [pc |-> pc, masked |-> masked,
        stack |-> [k \in 1..(StackTop - sp) |-> stack[sp + k]]]

-----------------------------------------------------------------------------
(* One micro-operation.                                                    *)

Vectors == [irqVector |-> IrqVector, nmiVector |-> NmiVector, resetVector |-> ResetVector]
Distances == [skip1 |-> 1, skip2 |-> 2, skip3 |-> 3]

SpAfter(does) ==
    CASE "sp-" \in does -> (sp + 255) % 256
      [] "sp+" \in does -> (sp + 1) % 256
      [] "sp=" \in does -> operand.byte
      [] OTHER -> sp

\* The byte a pull reads: it moves the stack pointer first.
Pulled(does) == IF SpAfter(does) \in Cells THEN stack[SpAfter(does)] ELSE 0

\* RTS reads the two bytes one by one; nothing writes to the stack meanwhile.
ReturnAddress ==
    IF {sp, sp - 1} \subseteq Cells THEN (256 * stack[sp] + stack[sp - 1] + 1) % AddressSpace ELSE 1

\* The member of a set that has one.
Only(S) == CHOOSE e \in S : TRUE

PcAfter(does) ==
    CASE does \cap DOMAIN Distances # {} ->
            (pc + Distances[Only(does \cap DOMAIN Distances)]) % AddressSpace
      [] does \cap DOMAIN Vectors # {} ->
            Vectors[Only(does \cap DOMAIN Vectors)]
      [] "jump" \in does -> operand.target
      [] "return" \in does -> ReturnAddress
      [] "pullPcl" \in does -> 256 * (pc \div 256) + Pulled(does)
      [] "pullPch" \in does -> 256 * Pulled(does) + (pc % 256)
      [] OTHER -> pc

\* A push writes where the stack pointer is; a write under the modelled cells is lost.
Pushed(does) ==
    CASE "pushPch" \in does -> pc \div 256
      [] "pushPcl" \in does -> pc % 256
      [] "pushStatus" \in does -> IF masked THEN 4 ELSE 0
      [] "pushA" \in does -> operand.byte
Pushes == {"pushPch", "pushPcl", "pushStatus", "pushA"}
StackAfter(does) ==
    IF does \cap Pushes = {}
    THEN stack
    ELSE [c \in Cells |-> IF c = sp THEN Pushed(does) ELSE stack[c]]

\* Going through the IRQ vector leaves the mask alone.
MaskedAfterOpen(does) ==
    CASE "pullStatus" \in does -> (Pulled(does) \div 4) % 2 = 1
      [] "mask" \in does -> TRUE
      [] "unmask" \in does -> FALSE
      [] OTHER -> masked
MaskedAfter(does) ==
    CASE "pullStatus" \in does -> (Pulled(does) \div 4) % 2 = 1
      [] does \cap {"mask", "irqVector"} # {} -> TRUE
      [] "unmask" \in does -> FALSE
      [] OTHER -> masked

Perform(does) ==
    /\ pc' = PcAfter(does)
    /\ sp' = SpAfter(does)
    /\ stack' = StackAfter(does)
    /\ masked' = MaskedAfter(does)
    /\ branchTaken' = (branchTaken \/ "taken" \in does)
    /\ halted' = (halted \/ "halt" \in does)
    /\ blockNmi' = (blockNmi /\ "unblock" \notin does)

-----------------------------------------------------------------------------
(* Interrupts and dummy reads.                                             *)

\* PCH and PCL are captured when the sequence is queued; PC does not change before
\* they are pushed.
IrqSequence ==
    Beats(Pause \o <<{"pushPch"}, {"sp-"}, {"pushPcl"}, {"sp-"}, {"pushStatus"}, {"sp-"}>>
                \o Pause \o <<{"irqVector"}, {}>>)

NmiSequence ==
    Beats(Pause \o <<{"pushPch", "sp-"}, {}, {"pushPcl", "sp-"}, {}, {"pushStatus", "sp-"}, {}>>
                \o Pause \o <<{"nmiVector"}, {}, {"mask"}, {}>>)

ResetSequence == Beats(Pause \o Pause \o Pause \o Pause \o <<{"resetVector", "unblock"}, {}>>)

DummyRead ==
    <<Op("PHI1", {}), Op("PHI2", {})>>
        \o (IF branchTaken THEN <<Op("PHI1", {})>> ELSE <<>>)
        \o (IF pc % 256 = 255 THEN <<Op("PHI1", {}), Op("PHI2", {})>> ELSE <<>>)
        \o <<Op("PHI1", {"endDummy"})>>

\* A second dummy read is queued while one is in progress.
QueueAfterDummyTwice(asked) == IF asked THEN queue \o DummyRead ELSE queue

\* enqueueDummyRead(R.PC): behind whatever is queued, and one at a time.
QueueAfterDummy(asked) == IF asked /\ ~inDummy THEN queue \o DummyRead ELSE queue

SetIrq(level) == irqSampled' = (irqSampled \/ ~level)
\* The edge is not remembered.
SetNmiLatest(level) ==
    /\ pendingNmi' = (~blockNmi /\ nmiLine /\ ~level)
    /\ nmiLine' = level
SetNmi(level) ==
    /\ pendingNmi' = (pendingNmi \/ (~blockNmi /\ nmiLine /\ ~level))
    /\ nmiLine' = level

-----------------------------------------------------------------------------
(* clock: one half cycle.  granted: the bus is the processor's; asked: the *)
(* VIC has just taken it, and a dummy read is queued first.                *)

NoOperand == [target |-> 0, chip |-> "none", events |-> {}, on |-> FALSE, byte |-> 0]

\* A taken branch hides the interrupt request.
IrqDueUnbranched(mask) == irqSampled /\ ~mask /\ ~branchTaken

\* Whether an IRQ follows an empty queue.
IrqDue(mask) == irqSampled /\ ~mask

\* The effects of the micro-operation that runs, if one does.
Doing(granted, asked) ==
    LET q == QueueAfterDummy(asked)
    IN  IF (granted \/ phase = "PHI1") /\ q # <<>> /\ Head(q).phase = phase
        THEN Head(q).does
        ELSE {}

\* A stolen half cycle does not count.
DenyStays(asked) ==
    /\ phase = "PHI2"
    /\ queue' = QueueAfterDummy(asked)
    /\ inDummy' = (inDummy \/ asked)
    /\ start' = IF queue = <<>> THEN Now ELSE start
    /\ UNCHANGED <<phase, pc, sp, masked, stack, operand, branchTaken, irqSampled, nmiLine,
                   pendingNmi, blockNmi, halted>>

\* A stolen PHI2 passes without a micro-operation.
Deny(asked) ==
    /\ phase = "PHI2"
    /\ queue' = QueueAfterDummy(asked)
    /\ phase' = "PHI1"
    /\ inDummy' = (inDummy \/ asked)
    /\ start' = IF queue = <<>> THEN Now ELSE start
    /\ UNCHANGED <<pc, sp, masked, stack, operand, branchTaken, irqSampled, nmiLine,
                   pendingNmi, blockNmi, halted>>

\* The first micro-operation runs if it is its phase.  When it was the last one and an
\* interrupt has been sampled, the interrupt sequence follows at once, from PHI2.
RunQueue(asked) ==
    LET q == QueueAfterDummy(asked)
        does == Doing(TRUE, asked)
        left == IF Head(q).phase = phase THEN Tail(q) ELSE q
        interrupted == left = <<>> /\ IrqDue(masked')
    IN  /\ q # <<>>
        /\ Perform(does)
        /\ inDummy' = ((inDummy \/ asked) /\ "endDummy" \notin does)
        /\ queue' = IF interrupted THEN IrqSequence ELSE left
        /\ operand' = IF interrupted THEN NoOperand ELSE operand
        /\ irqSampled' = (irqSampled /\ ~interrupted)
        /\ phase' = IF interrupted THEN "PHI2" ELSE Other(phase)
        /\ start' = IF interrupted THEN Now' ELSE IF queue = <<>> THEN Now ELSE start
        /\ UNCHANGED <<nmiLine, pendingNmi>>

\* With an empty queue an interrupt begins without the half cycle being counted: the
\* phase stays.
Begin(sequence) ==
    /\ queue' = sequence
    /\ operand' = NoOperand
    /\ start' = Now
    /\ UNCHANGED <<phase, pc, sp, masked, stack, inDummy, branchTaken, nmiLine, blockNmi, halted>>

BeginNmi ==
    /\ pendingNmi
    /\ pendingNmi' = FALSE
    /\ Begin(NmiSequence)
    /\ UNCHANGED irqSampled

BeginIrq ==
    /\ ~pendingNmi
    /\ IrqDue(masked)
    /\ irqSampled' = FALSE
    /\ Begin(IrqSequence)
    /\ UNCHANGED pendingNmi

\* Fetch an instruction; a branch forgets what the last one did.  The bytes under the
\* stack pointer are dead and forgotten here.
FetchInstruction(i, schedule) ==
    /\ ~pendingNmi
    /\ ~IrqDue(masked)
    /\ queue' = schedule
    /\ operand' = [target |-> i.target, chip |-> i.chip, events |-> i.events, on |-> i.on,
                   byte |-> i.byte]
    /\ branchTaken' = (branchTaken /\ i.opcode \notin BranchOpcodes)
    /\ phase' = Other(phase)
    /\ stack' = [c \in Cells |-> IF c > sp THEN stack[c] ELSE 0]
    /\ start' = Now
    /\ UNCHANGED <<pc, sp, masked, inDummy, irqSampled, nmiLine, pendingNmi, blockNmi, halted>>

Idle(asked) ==
    /\ QueueAfterDummy(asked) = <<>>
    /\ \/ BeginNmi
       \/ BeginIrq
       \/ \E i \in Code[pc] : \E s \in Schedules[i.opcode] : FetchInstruction(i, s)

Clock(granted, asked) ==
    \/ ~granted /\ Deny(asked)
    \/ (granted \/ phase = "PHI1") /\ (RunQueue(asked) \/ Idle(asked))

\* After the constructor's reset.
CpuInit ==
    /\ queue = ResetSequence
    /\ phase = "PHI1"
    /\ pc = 0 /\ sp = StackTop /\ masked = TRUE
    /\ stack = [c \in Cells |-> 0]
    /\ operand = NoOperand
    /\ inDummy = FALSE /\ branchTaken = FALSE
    /\ irqSampled = FALSE /\ nmiLine = TRUE /\ pendingNmi = FALSE /\ blockNmi = TRUE
    /\ halted = FALSE
    /\ start = [pc |-> ResetVector, masked |-> TRUE, stack |-> <<>>]

-----------------------------------------------------------------------------
(* What a program sees of the processor.                                   *)

Program == INSTANCE Instructions WITH machine <- IF queue = <<>> THEN Now ELSE start

=============================================================================
