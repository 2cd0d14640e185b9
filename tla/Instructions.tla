----------------------------- MODULE Instructions -----------------------------
(***************************************************************************)
(* The 6510 one instruction at a time: what a program may expect of the    *)
(* processor, whatever its micro-operations and the bus do meanwhile.      *)
(* The state is the program counter, the interrupt mask and the bytes on   *)
(* the stack, the top first.                                               *)
(***************************************************************************)
EXTENDS Naturals, Sequences

CONSTANTS Code,         \* the instructions that may be at an address
          IrqVector,    \* where BRK and interrupts go
          NmiVector,
          ResetVector

VARIABLE machine        \* [pc, masked, stack]

\* The length of an instruction, by the columns of the opcode table.
Length(opcode) ==
    LET row == opcode \div 16
        column == opcode % 16
    IN  CASE column \in {8, 10} -> 1
          [] column \in {1, 3, 4, 5, 6, 7} -> 2
          [] column \in {12, 13, 14, 15} -> 3
          [] column \in {9, 11} -> 2 + (row % 2)
          [] column = 2 -> 2
          [] column = 0 -> IF row = 2 THEN 3 ELSE IF row \in {0, 4, 6} THEN 1 ELSE 2

Branches == {\h10, \h30, \h50, \h70, \h90, \hB0, \hD0, \hF0}
Jams == {\h02, \h12, \h22, \h32, \h42, \h52, \h62, \h72, \h92, \hB2, \hD2, \hF2}

\* The status byte has the interrupt mask in bit 2; its other bits are left out.
StatusByte(masked) == IF masked THEN 4 ELSE 0
Masks(byte) == (byte \div 4) % 2 = 1

Drop(n, s) == SubSeq(s, n + 1, Len(s))

\* The machine m after its instruction i.
After(m, i) ==
    LET o == i.opcode
        s == m.stack
        onward == (m.pc + Length(o)) % 65536
        last == (m.pc + 2) % 65536      \* of JSR; the return address of BRK
    IN  CASE o = \h00 ->
                {[pc |-> IrqVector, masked |-> TRUE,
                  stack |-> <<StatusByte(m.masked), last % 256, last \div 256>> \o s]}
          [] o = \h40 -> {[pc |-> 256 * s[3] + s[2], masked |-> Masks(s[1]), stack |-> Drop(3, s)]}
          [] o = \h20 ->
                {[m EXCEPT !.pc = i.target, !.stack = <<last % 256, last \div 256>> \o @]}
          [] o = \h60 ->
                {[m EXCEPT !.pc = (256 * s[2] + s[1] + 1) % 65536, !.stack = Drop(2, @)]}
          [] o = \h48 -> {[m EXCEPT !.pc = onward, !.stack = <<i.byte>> \o @]}
          [] o = \h08 -> {[m EXCEPT !.pc = onward, !.stack = <<StatusByte(m.masked)>> \o @]}
          [] o = \h68 -> {[m EXCEPT !.pc = onward, !.stack = Drop(1, @)]}
          [] o = \h28 -> {[pc |-> onward, masked |-> Masks(s[1]), stack |-> Drop(1, s)]}
          [] o \in {\h9A, \h9B, \hBB} ->
                {[m EXCEPT !.pc = onward, !.stack = Drop(Len(s) + i.byte - 253, @)]}
          [] o = \h78 -> {[m EXCEPT !.pc = onward, !.masked = TRUE]}
          [] o = \h58 -> {[m EXCEPT !.pc = onward, !.masked = FALSE]}
          [] o \in {\h4C, \h6C} -> {[m EXCEPT !.pc = i.target]}
          [] o \in Branches -> {[m EXCEPT !.pc = onward], [m EXCEPT !.pc = i.target]}
          [] o \in Jams -> {m}
          [] OTHER -> {[m EXCEPT !.pc = onward]}

Init == machine = [pc |-> ResetVector, masked |-> TRUE, stack |-> <<>>]

Execute == \E i \in Code[machine.pc] : machine' \in After(machine, i)

Interrupted(vector) ==
    [pc |-> vector, masked |-> TRUE,
     stack |-> <<StatusByte(machine.masked), machine.pc % 256, machine.pc \div 256>> \o machine.stack]

Irq == ~machine.masked /\ machine' = Interrupted(IrqVector)
Nmi == machine' = Interrupted(NmiVector)

Next == Execute \/ Irq \/ Nmi
Spec == Init /\ [][Next]_machine
=============================================================================
