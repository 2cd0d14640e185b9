---------------------------- MODULE DriveOpcodes ----------------------------
(***************************************************************************)
(* The 1541's instruction set as executeDriveCpuMicroOpBaseOpcode has it:  *)
(* what each operation does to the registers and to a byte, and the cases  *)
(* of its switch, opcode by addressing mode.  Registers are a record of    *)
(* a, x, y, sp and p, the set of the flags that are up.                    *)
(***************************************************************************)
EXTENDS ByteBits, Naturals, Sequences

OfByte(v) == v % 256

-----------------------------------------------------------------------------
(* Flags and registers.                                                    *)

\* The flags of a status byte, from its lowest bit.
FlagNames == <<"C", "Z", "I", "D", "B", "U", "V", "N">>
StatusFlags == {FlagNames[n] : n \in 1..8}
FlagsIn(v) == {FlagNames[n] : n \in BitsOf(v)}
FlagByte(p) == FromBits({n \in 1..8 : FlagNames[n] \in p})

RegisterFiles == [a : Bytes256, x : Bytes256, y : Bytes256, sp : Bytes256, p : SUBSET StatusFlags]

SetFlag(p, f, on) == IF on THEN p \cup {f} ELSE p \ {f}
Bit(v, f) == f \in FlagsIn(v)
ZN(p, v) == SetFlag(SetFlag(p, "Z", v = 0), "N", Bit(v, "N"))
Carry(p) == IF "C" \in p THEN 1 ELSE 0

CompareFlags(p, l, r) == ZN(SetFlag(p, "C", l >= r), OfByte(256 + l - r))
\* Mutant: the sign alone tells.
SignChanges(l, r, sum) == Bit(l, "N") # Bit(sum, "N")
\* Equal signs in, another sign out.
AddOverflows(l, r, sum) == Bit(l, "N") = Bit(r, "N") /\ Bit(l, "N") # Bit(sum, "N")

-----------------------------------------------------------------------------
(* What an operation does with a value that is read.  r are the registers. *)

InA(r, v) == [r EXCEPT !.a = v, !.p = ZN(@, v)]
InX(r, v) == [r EXCEPT !.x = v, !.p = ZN(@, v)]
InY(r, v) == [r EXCEPT !.y = v, !.p = ZN(@, v)]
\* opAdc, whatever the decimal flag says.
opAdc(r, v) ==
    LET sum == r.a + v + Carry(r.p)
        flags == SetFlag(SetFlag(r.p, "C", sum > 255), "V", AddOverflows(r.a, v, OfByte(sum)))
    IN  InA([r EXCEPT !.p = flags], OfByte(sum))
opSbc(r, v) == opAdc(r, 255 - v)
opCompare(r, l, v) == [r EXCEPT !.p = CompareFlags(@, l, v)]
opBit(r, v) ==
    [r EXCEPT !.p = SetFlag(SetFlag(SetFlag(@, "Z", And(r.a, v) = 0), "N", Bit(v, "N")), "V", Bit(v, "V"))]

\* The shifts: the carry that leaves and the result.
Shifted(kind, p, v) ==
    CASE kind = "ASL" -> <<Bit(v, "N"), OfByte(2 * v)>>
      [] kind = "LSR" -> <<v % 2 = 1, v \div 2>>
      [] kind = "ROL" -> <<Bit(v, "N"), OfByte(2 * v) + Carry(p)>>
      [] kind = "ROR" -> <<v % 2 = 1, (v \div 2) + (128 * Carry(p))>>
ShiftFlags(kind, p, v) ==
    LET s == Shifted(kind, p, v) IN ZN(SetFlag(p, "C", s[1]), s[2])
ShiftA(kind, r) ==
    [r EXCEPT !.a = Shifted(kind, r.p, @)[2], !.p = ShiftFlags(kind, @, r.a)]

\* ARR rotates without leaving the carry, and takes carry and overflow from bits 6 and 5.
opArr(r, v) ==
    LET n == Shifted("ROR", r.p, And(r.a, v))[2]
        p == ZN(r.p, n)
    IN  [r EXCEPT !.a = n, !.p = SetFlag(SetFlag(p, "C", Bit(n, "V")), "V", Bit(n, "V") # Bit(n, "U"))]
opSbx(r, v) ==
    LET ax == And(r.a, r.x)
    IN  InX([r EXCEPT !.p = CompareFlags(@, ax, v)], OfByte(256 + ax - v))

Loading(o, r, v) ==
    CASE o = "NOP" -> r
      [] o = "LDA" -> InA(r, v)
      [] o = "LDX" -> InX(r, v)
      [] o = "LDY" -> InY(r, v)
      [] o = "LAX" -> InA([r EXCEPT !.x = v], v)
      [] o = "ORA" -> InA(r, Or(r.a, v))
      [] o = "AND" -> InA(r, And(r.a, v))
      [] o = "ANC" -> LET n == InA(r, And(r.a, v)) IN [n EXCEPT !.p = SetFlag(@, "C", Bit(n.a, "N"))]
      [] o = "EOR" -> InA(r, Xor(r.a, v))
      [] o = "CMP" -> opCompare(r, r.a, v)
      [] o = "CPX" -> opCompare(r, r.x, v)
      [] o = "CPY" -> opCompare(r, r.y, v)
      [] o = "ADC" -> opAdc(r, v)
      [] o = "SBC" -> opSbc(r, v)
      [] o = "BIT" -> opBit(r, v)
      [] o = "ALR" -> ShiftA("LSR", [r EXCEPT !.a = And(@, v)])
      [] o = "ARR" -> opArr(r, v)
      [] o = "SBX" -> opSbx(r, v)

\* What is stored, and what a read-modify-write leaves in memory and in the registers.
Storing(o, r) ==
    CASE o = "STA" -> r.a
      [] o = "STX" -> r.x
      [] o = "STY" -> r.y
      [] o = "SAX" -> And(r.a, r.x)

ShiftOf == [ASL |-> "ASL", SLO |-> "ASL", LSR |-> "LSR", SRE |-> "LSR",
            ROL |-> "ROL", RLA |-> "ROL", ROR |-> "ROR", RRA |-> "ROR"]
Modified(o, r, v) ==
    IF o \in DOMAIN ShiftOf THEN Shifted(ShiftOf[o], r.p, v)[2]
    ELSE IF o \in {"INC", "ISC"} THEN OfByte(v + 1) ELSE OfByte(v + 255)
Modifying(o, r, v) ==
    LET n == Modified(o, r, v)
        s == IF o \in DOMAIN ShiftOf THEN [r EXCEPT !.p = ShiftFlags(ShiftOf[o], @, v)] ELSE r
    IN  CASE o \in {"INC", "DEC"} -> [r EXCEPT !.p = ZN(@, n)]
          [] o = "SLO" -> Loading("ORA", s, n)
          [] o = "RLA" -> Loading("AND", s, n)
          [] o = "SRE" -> Loading("EOR", s, n)
          [] o = "RRA" -> opAdc(s, n)
          [] o = "ISC" -> opSbc(s, n)
          [] o = "DCP" -> opCompare(s, r.a, n)
          [] OTHER -> s

\* Instructions of one byte that touch registers and flags alone.
Registers(o, r) ==
    CASE o = "NOP" -> r
      [] o = "SEI" -> [r EXCEPT !.p = @ \cup {"I"}]
      [] o = "CLI" -> [r EXCEPT !.p = @ \ {"I"}]
      [] o = "SED" -> [r EXCEPT !.p = @ \cup {"D"}]
      [] o = "CLD" -> [r EXCEPT !.p = @ \ {"D"}]
      [] o = "SEC" -> [r EXCEPT !.p = @ \cup {"C"}]
      [] o = "CLC" -> [r EXCEPT !.p = @ \ {"C"}]
      [] o = "CLV" -> [r EXCEPT !.p = @ \ {"V"}]
      [] o = "TAX" -> InX(r, r.a)
      [] o = "TAY" -> InY(r, r.a)
      [] o = "TXA" -> InA(r, r.x)
      [] o = "TYA" -> InA(r, r.y)
      [] o = "TSX" -> InX(r, r.sp)
      [] o = "TXS" -> [r EXCEPT !.sp = r.x]
      [] o = "INX" -> InX(r, OfByte(r.x + 1))
      [] o = "INY" -> InY(r, OfByte(r.y + 1))
      [] o = "DEX" -> InX(r, OfByte(r.x + 255))
      [] o = "DEY" -> InY(r, OfByte(r.y + 255))
      [] OTHER -> ShiftA(o, r)

-----------------------------------------------------------------------------
(* The cases of the switch: opcode by addressing mode.                     *)

NOP == {<<\h04, "zp">>, <<\h44, "zp">>, <<\h64, "zp">>, <<\h14, "zpx">>, <<\h34, "zpx">>,
        <<\h54, "zpx">>, <<\h74, "zpx">>, <<\hD4, "zpx">>, <<\hF4, "zpx">>, <<\h80, "imm">>,
        <<\h82, "imm">>, <<\h89, "imm">>, <<\hC2, "imm">>, <<\hE2, "imm">>, <<\h0C, "abs">>,
        <<\h1C, "absx">>, <<\h3C, "absx">>, <<\h5C, "absx">>, <<\h7C, "absx">>, <<\hDC, "absx">>,
        <<\hFC, "absx">>}
NopOne == {\hEA, \h1A, \h3A, \h5A, \h7A, \hDA, \hFA}
FlagOps == {<<\h78, "SEI">>, <<\h58, "CLI">>, <<\hD8, "CLD">>, <<\hF8, "SED">>, <<\h18, "CLC">>,
            <<\h38, "SEC">>}
LDA == {<<\hA9, "imm">>, <<\hA5, "zp">>, <<\hB5, "zpx">>, <<\hA1, "indx">>, <<\hAD, "abs">>,
        <<\hB1, "indy">>, <<\hBD, "absx">>, <<\hB9, "absy">>}
LDX == {<<\hA2, "imm">>, <<\hA6, "zp">>, <<\hB6, "zpy">>, <<\hAE, "abs">>, <<\hBE, "absy">>}
LAX == {<<\hA7, "zp">>, <<\hB7, "zpy">>, <<\hA3, "indx">>, <<\hAF, "abs">>, <<\hBF, "absy">>,
        <<\hB3, "indy">>}
LDY == {<<\hA0, "imm">>, <<\hA4, "zp">>, <<\hB4, "zpx">>, <<\hAC, "abs">>, <<\hBC, "absx">>}
STA == {<<\h85, "zp">>, <<\h95, "zpx">>, <<\h81, "indx">>, <<\h8D, "abs">>, <<\h91, "indy">>,
        <<\h9D, "absx">>, <<\h99, "absy">>}
SAX == {<<\h87, "zp">>, <<\h97, "zpy">>, <<\h83, "indx">>, <<\h8F, "abs">>}
STX == {<<\h86, "zp">>, <<\h96, "zpy">>, <<\h8E, "abs">>}
STY == {<<\h84, "zp">>, <<\h94, "zpx">>, <<\h8C, "abs">>}
Transfers == {<<\hAA, "TAX">>, <<\hA8, "TAY">>, <<\h8A, "TXA">>, <<\h98, "TYA">>, <<\hBA, "TSX">>,
              <<\h9A, "TXS">>, <<\hE8, "INX">>, <<\hC8, "INY">>, <<\hCA, "DEX">>, <<\h88, "DEY">>}
ORA == {<<\h09, "imm">>, <<\h05, "zp">>, <<\h15, "zpx">>, <<\h0D, "abs">>, <<\h1D, "absx">>,
        <<\h19, "absy">>, <<\h01, "indx">>, <<\h11, "indy">>}
AND == {<<\h29, "imm">>, <<\h25, "zp">>, <<\h35, "zpx">>, <<\h2D, "abs">>, <<\h3D, "absx">>,
        <<\h39, "absy">>, <<\h21, "indx">>, <<\h31, "indy">>}
ANC == {<<\h0B, "imm">>, <<\h2B, "imm">>}
EOR == {<<\h49, "imm">>, <<\h45, "zp">>, <<\h55, "zpx">>, <<\h4D, "abs">>, <<\h5D, "absx">>,
        <<\h59, "absy">>, <<\h41, "indx">>, <<\h51, "indy">>}
CMP == {<<\hC9, "imm">>, <<\hC5, "zp">>, <<\hD5, "zpx">>, <<\hCD, "abs">>, <<\hDD, "absx">>,
        <<\hD9, "absy">>, <<\hC1, "indx">>, <<\hD1, "indy">>}
CPX == {<<\hE0, "imm">>, <<\hE4, "zp">>, <<\hEC, "abs">>}
SBX == {<<\hCB, "imm">>}
CPY == {<<\hC0, "imm">>, <<\hC4, "zp">>, <<\hCC, "abs">>}
CLV == {<<\hB8, "CLV">>}
ASL == {<<\h06, "zp">>, <<\h0E, "abs">>, <<\h16, "zpx">>, <<\h1E, "absx">>}
SLO == {<<\h07, "zp">>, <<\h17, "zpx">>, <<\h0F, "abs">>, <<\h1F, "absx">>, <<\h1B, "absy">>,
        <<\h03, "indx">>, <<\h13, "indy">>}
LSR == {<<\h46, "zp">>, <<\h4E, "abs">>, <<\h56, "zpx">>, <<\h5E, "absx">>}
ALR == {<<\h4B, "imm">>}
SRE == {<<\h47, "zp">>, <<\h57, "zpx">>, <<\h4F, "abs">>, <<\h5F, "absx">>, <<\h5B, "absy">>,
        <<\h43, "indx">>, <<\h53, "indy">>}
ROL == {<<\h26, "zp">>, <<\h2E, "abs">>, <<\h36, "zpx">>, <<\h3E, "absx">>}
RLA == {<<\h27, "zp">>, <<\h37, "zpx">>, <<\h2F, "abs">>, <<\h3F, "absx">>, <<\h3B, "absy">>,
        <<\h23, "indx">>, <<\h33, "indy">>}
ROR == {<<\h66, "zp">>, <<\h6E, "abs">>, <<\h76, "zpx">>, <<\h7E, "absx">>}
ARR == {<<\h6B, "imm">>}
RRA == {<<\h67, "zp">>, <<\h77, "zpx">>, <<\h6F, "abs">>, <<\h7F, "absx">>, <<\h7B, "absy">>,
        <<\h63, "indx">>, <<\h73, "indy">>}
ShiftOnes == {<<\h0A, "ASL">>, <<\h4A, "LSR">>, <<\h2A, "ROL">>, <<\h6A, "ROR">>}
INC == {<<\hE6, "zp">>, <<\hF6, "zpx">>, <<\hEE, "abs">>, <<\hFE, "absx">>}
ISC == {<<\hE7, "zp">>, <<\hF7, "zpx">>, <<\hEF, "abs">>, <<\hFF, "absx">>, <<\hFB, "absy">>,
        <<\hE3, "indx">>, <<\hF3, "indy">>}
DEC == {<<\hC6, "zp">>, <<\hD6, "zpx">>, <<\hCE, "abs">>, <<\hDE, "absx">>}
DCP == {<<\hC7, "zp">>, <<\hD7, "zpx">>, <<\hCF, "abs">>, <<\hDF, "absx">>, <<\hDB, "absy">>,
        <<\hC3, "indx">>, <<\hD3, "indy">>}
StackOps == {<<\h48, "PHA">>, <<\h68, "PLA">>, <<\h08, "PHP">>, <<\h28, "PLP">>}
ADC == {<<\h69, "imm">>, <<\h75, "zpx">>, <<\h7D, "absx">>, <<\h79, "absy">>, <<\h61, "indx">>,
        <<\h71, "indy">>, <<\h65, "zp">>, <<\h6D, "abs">>}
SBC == {<<\hE9, "imm">>, <<\hF5, "zpx">>, <<\hFD, "absx">>, <<\hF9, "absy">>, <<\hE1, "indx">>,
        <<\hF1, "indy">>, <<\hE5, "zp">>, <<\hED, "abs">>}
BIT == {<<\h24, "zp">>, <<\h2C, "abs">>}
JMP == {<<\h4C, "abs">>, <<\h6C, "ind">>}
JSR == {<<\h20, "abs">>}
Returns == {<<\h00, "BRK">>, <<\h60, "RTS">>, <<\h40, "RTI">>}
Branches == {<<\hD0, "BNE">>, <<\hF0, "BEQ">>, <<\h90, "BCC">>, <<\hB0, "BCS">>, <<\h10, "BPL">>,
             <<\h30, "BMI">>, <<\h50, "BVC">>, <<\h70, "BVS">>}

Kinds == [NOP |-> NOP, LDA |-> LDA, LDX |-> LDX, LAX |-> LAX, LDY |-> LDY, STA |-> STA, SAX |-> SAX,
          STX |-> STX, STY |-> STY, ORA |-> ORA, AND |-> AND, ANC |-> ANC, EOR |-> EOR, CMP |-> CMP,
          CPX |-> CPX, SBX |-> SBX, CPY |-> CPY, ASL |-> ASL, SLO |-> SLO, LSR |-> LSR, ALR |-> ALR,
          SRE |-> SRE, ROL |-> ROL, RLA |-> RLA, ROR |-> ROR, ARR |-> ARR, RRA |-> RRA, INC |-> INC,
          ISC |-> ISC, DEC |-> DEC, DCP |-> DCP, ADC |-> ADC, SBC |-> SBC, BIT |-> BIT, JMP |-> JMP,
          JSR |-> JSR]
OneByte == FlagOps \cup Transfers \cup CLV \cup ShiftOnes \cup StackOps \cup Returns

\* <<opcode, operation, mode>> of the opcodes that are handled.
Cases ==
    (UNION {{<<c[1], o, c[2]>> : c \in Kinds[o]} : o \in DOMAIN Kinds})
    \cup {<<c[1], c[2], "one">> : c \in OneByte}
    \cup {<<c, "NOP", "one">> : c \in NopOne}
    \cup {<<c[1], c[2], "rel">> : c \in Branches}
Handled == {c[1] : c \in Cases}
CaseOf == [b \in Handled |-> LET c == CHOOSE d \in Cases : d[1] = b IN <<c[2], c[3]>>]

Length(mode) ==
    CASE mode = "one" -> 1
      [] mode \in {"abs", "absx", "absy", "ind"} -> 3
      [] OTHER -> 2

Stores == {"STA", "STX", "STY", "SAX"}
Modifies == DOMAIN ShiftOf \cup {"INC", "ISC", "DEC", "DCP"}
Stacks == {"PHA", "PLA", "PHP", "PLP"}
Jumps == {"JMP", "JSR", "BRK", "RTS", "RTI"}
ReadOps == DOMAIN Kinds \ (Stores \cup Modifies \cup Jumps)
=============================================================================
