------------------------------- MODULE C64Loop -------------------------------
(***************************************************************************)
(* The main loop: in each half cycle the VIC may take the bus or raise its *)
(* raster interrupt, the processor is clocked, the two CIAs tick, and the  *)
(* interrupt lines of the chips are given to the processor.                *)
(***************************************************************************)
EXTENDS Cpu6510

CONSTANTS Cias,         \* the two CIA chips
          Early, Late,  \* events of a CIA that its first and its second half tick may defer
          Floor         \* bound: no new event while the stack pointer is lower

Events == UNION {Early[c] \cup Late[c] : c \in Cias}
Chips == Cias \cup {"vic", "none"}

\* An instruction and what it addresses, if that matters.
ASSUME LoopAssumption ==
    Code \in [Address -> SUBSET [opcode : Opcodes, target : Address, chip : Chips,
                                 events : SUBSET Events, on : BOOLEAN, byte : Byte]]

VARIABLES
    turn,           \* whose part of the iteration is next: "cpu" or "lines"
    beat,           \* halfPhase of the VIC
    vicHadBus,      \* lastVicHadBus
    vicIrq,         \* bit 0 of the VIC's irqFlags
    icr, ier,       \* of a CIA: events flagged, events enabled
    bit7,           \* of a CIA: bit 7 of its icr
    deferred        \* of a CIA: icrDeferredEvents

chips == <<icr, ier, bit7, deferred>>
vars == <<cpu, turn, beat, vicHadBus, vicIrq, chips>>

\* A read of the interrupt register clears it; a write enables or disables events, and
\* both set bit 7 anew.  A write of the VIC's flag register acknowledges its interrupt.
Access(does, raised) ==
    LET c == operand.chip
        reads == "read" \in does /\ c \in Cias
        writes == "write" \in does /\ c \in Cias
    IN  /\ icr' = IF reads THEN [icr EXCEPT ![c] = {}] ELSE icr
        /\ ier' = IF writes
                  THEN [ier EXCEPT ![c] = IF operand.on THEN @ \cup operand.events
                                                        ELSE @ \ operand.events]
                  ELSE ier
        /\ bit7' = IF reads \/ writes
                   THEN [bit7 EXCEPT ![c] = icr'[c] \cap ier'[c] # {}]
                   ELSE bit7
        /\ vicIrq' = ((vicIrq \/ raised) /\ ~("write" \in does /\ c = "vic" /\ operand.on))

\* tickVideo and tickCpuWithVicContention.
CpuTurn(contended, raised) ==
    LET asked == contended /\ ~vicHadBus
    IN  /\ turn = "cpu"
        /\ ~halted
        /\ raised => sp >= Floor
        /\ Clock(~contended, asked)
        /\ Access(Doing(~contended, asked), raised)
        /\ turn' = "lines"
        /\ beat' = Other(beat)
        /\ vicHadBus' = contended
        /\ UNCHANGED deferred

\* Whether the CIA c drives the IRQ and the NMI line.
PullsIrq(c) == icr[c] \cap ier[c] # {}
PullsNmi(c) == bit7[c]

\* tickPeripherals and syncInterruptLines: two half ticks of each CIA, each of which
\* flags the events deferred before it.
LinesTurn(early, late) ==
    LET flagged(c) == deferred[c] \cup early[c]
    IN  /\ turn = "lines"
        /\ \A c \in Cias : early[c] \cup late[c] # {} => sp >= Floor
        /\ icr' = [c \in Cias |-> icr[c] \cup flagged(c)]
        /\ bit7' = [c \in Cias |-> bit7[c] \/ flagged(c) \cap ier[c] # {}]
        /\ UNCHANGED <<queue, phase, pc, sp, masked, stack, operand, inDummy, branchTaken,
                       blockNmi, halted, start, beat, vicHadBus, vicIrq, ier>>
        /\ deferred' = late
        /\ SetIrq(~(vicIrq \/ \E c \in Cias : PullsIrq(c)'))
        /\ SetNmi(\A c \in Cias : ~PullsNmi(c)')
        /\ turn' = "cpu"

ChosenFrom(f) == {e \in [Cias -> SUBSET Events] : \A c \in Cias : e[c] \subseteq f[c]}

Init ==
    /\ CpuInit
    /\ turn = "cpu" /\ beat = "PHI1" /\ vicHadBus = FALSE /\ vicIrq = FALSE
    /\ icr = [c \in Cias |-> {}] /\ ier = [c \in Cias |-> {}]
    /\ bit7 = [c \in Cias |-> FALSE] /\ deferred = [c \in Cias |-> {}]

Next ==
    \/ \E contended, raised \in BOOLEAN : CpuTurn(contended, raised)
    \/ \E early \in ChosenFrom(Early), late \in ChosenFrom(Late) : LinesTurn(early, late)

Spec == Init /\ [][Next]_vars

\* What the VIC leaves to the processor: every line has a hundred half cycles in a row in
\* which it neither takes the bus nor raises its interrupt, and no instruction takes that
\* long.
Fairness ==
    /\ WF_vars(Next)
    /\ SF_vars(phase = "PHI2" /\ CpuTurn(FALSE, FALSE))
    /\ SF_vars(queue = <<>> /\ CpuTurn(FALSE, FALSE))
FairSpec == Spec /\ Fairness

-----------------------------------------------------------------------------
TypeOK ==
    /\ queue \in Seq(MicroOps)
    /\ phase \in Phases /\ beat \in Phases
    /\ pc \in Address /\ sp \in Byte /\ masked \in BOOLEAN
    /\ stack \in [Cells -> Byte]
    /\ operand \in [target : Address, chip : Chips, events : SUBSET Events, on : BOOLEAN, byte : Byte]
    /\ {inDummy, branchTaken, irqSampled, nmiLine, pendingNmi, blockNmi, halted, vicHadBus, vicIrq}
          \subseteq BOOLEAN
    /\ turn \in {"cpu", "lines"}
    /\ icr \in [Cias -> SUBSET Events] /\ ier \in [Cias -> SUBSET Events]
    /\ bit7 \in [Cias -> BOOLEAN] /\ deferred \in [Cias -> SUBSET Events]

\* A dummy read is in progress exactly when its last micro-operation is in the queue, once
\* and at the end: nothing that clears or replaces the queue leaves the flag behind.
DummyConsistent ==
    /\ \A k \in DOMAIN queue : "endDummy" \in queue[k].does => k = Len(queue)
    /\ inDummy <=> \E k \in DOMAIN queue : "endDummy" \in queue[k].does

\* Bit 7 of an interrupt register says that an enabled event is flagged.
Bit7Agrees == \A c \in Cias : bit7[c] <=> PullsIrq(c)

\* Between two half-cycles types, dummy reads and interrupt registers are in order.
LoopConsistent == TypeOK /\ DummyConsistent /\ Bit7Agrees

\* The processor and the VIC drift by a half cycle only where an interrupt begins.
InStep ==
    [][(phase = beat) # (phase' = beat') =>
          \/ queue = <<>> /\ queue' \in {IrqSequence, NmiSequence}
          \/ queue' = IrqSequence]_vars

\* A program sees whole instructions and interrupts between them.
ProgramRuns == Program!Spec

\* An NMI that was latched is taken, and so is an IRQ that is not masked, whatever the VIC
\* steals, unless the processor jams.
NmiTaken == pendingNmi ~> (queue = NmiSequence \/ halted)
IrqTaken == (irqSampled /\ ~masked) ~> (queue = IrqSequence \/ masked \/ halted)

=============================================================================
