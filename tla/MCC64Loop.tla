------------------------------- MODULE MCC64Loop -------------------------------
(***************************************************************************)
(* A program for TLC that goes through every opcode, with its interrupt    *)
(* handlers.                                                               *)
(***************************************************************************)
EXTENDS C64Loop

CONSTANTS cia1, cia2, event

At(opcode, target) ==
    [opcode |-> opcode, target |-> target, chip |-> "none", events |-> {}, on |-> FALSE, byte |-> 0]
Plain(opcodes) == {At(o, 0) : o \in opcodes}
On(opcode, chip, events) ==
    [opcode |-> opcode, target |-> 0, chip |-> chip, events |-> events, on |-> TRUE, byte |-> 0]
With(opcode, byte) ==
    [opcode |-> opcode, target |-> 0, chip |-> "none", events |-> {}, on |-> FALSE, byte |-> byte]

\* The opcodes whose length is all that the program sees of them.
Ordinary ==
    Opcodes \ ({\h00, \h20, \h40, \h60, \h4C, \h6C, \h78, \h58, \h48, \h68, \h08, \h28, \h9A}
                \cup BranchOpcodes \cup ((DOMAIN Jams) \ {\h02}))
AnyOrdinary == {With(o, StackTop) : o \in Ordinary}

\* A program that goes once through all the opcodes and stays at 256, or by a short cut; the instructions
\* at 6 are up to three bytes long, their operands the NOPs at 7 and 8.  500 and 600 are
\* the interrupt handlers.
OpcodeTour ==
    [a \in Address |->
        CASE a = 2 -> {On(\h8D, cia1, {event})}
          [] a \in {5, 17} -> {At(\h58, 0)}
          [] a = 6 -> AnyOrdinary \cup {At(\h4C, 18)}
          [] a \in {7, 8, 255} -> {At(\hEA, 0)}
          [] a = 9 -> {With(\h48, 4), At(\h08, 0)}
          [] a = 10 -> {At(\h68, 0), At(\h28, 0), With(\h9A, StackTop)}
          [] a = 11 -> {At(\h20, 80)}
          [] a = 80 -> {At(\h60, 0)}
          [] a = 14 -> {At(\h00, 0)}
          [] a = 16 -> {At(\h78, 0)}
          [] a = 18 -> {At(o, 255) : o \in BranchOpcodes}
          [] a = 20 -> {At(\h4C, 255), At(\h6C, 255)}
          [] a = 256 -> {At(\h4C, 256)}
          [] a = 500 -> {On(\h8D, "vic", {})}
          [] a \in {503, 600} -> {On(\hAD, cia1, {})}
          [] a \in {506, 603} -> {At(\h40, 0)}
          [] OTHER -> {}]

OneEvent == [c \in Cias |-> IF c = cia1 THEN {event} ELSE {}]
NoEvent == [c \in Cias |-> {}]
=============================================================================
