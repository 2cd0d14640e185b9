------------------------------ MODULE MicroCode ------------------------------
(***************************************************************************)
(* The micro-operations CPU6510::decode queues for each of the 256         *)
(* opcodes.  A micro-operation waits for its phase and has a set of        *)
(* effects; what it does to A, X, Y and the arithmetic flags, its dummy    *)
(* reads and its accesses to page zero are left out, so {} is a            *)
(* micro-operation that only takes its phase.  An opcode whose length      *)
(* depends on its operands has a schedule for each case.                   *)
(***************************************************************************)
EXTENDS Naturals, Sequences, TLC

\* The effects of a micro-operation.
PcEffects == {"skip1", "skip2", "skip3", "jump", "return", "pullPcl", "pullPch",
              "irqVector", "nmiVector", "resetVector"}
StackEffects == {"pushPch", "pushPcl", "pushStatus", "pushA", "sp-", "sp+", "sp="}
FlagEffects == {"pullStatus", "mask", "unmask"}
OtherEffects == {"read", "write", "taken", "halt", "unblock", "endDummy"}
Effects == PcEffects \cup StackEffects \cup FlagEffects \cup OtherEffects

Phases == {"PHI1", "PHI2"}
MicroOps == [phase : Phases, does : SUBSET Effects]

\* Operations for alternating phases, PHI2 first.
Beats(s) == [i \in DOMAIN s |-> [phase |-> IF i % 2 = 1 THEN "PHI2" ELSE "PHI1", does |-> s[i]]]

Each(opcodes, schedules) == [o \in opcodes |-> schedules]
Always(opcodes, s) == Each(opcodes, {Beats(s)})

-----------------------------------------------------------------------------
(* Sequences the opcodes share.                                            *)

Fetch == <<{}, {"skip1"}>>
Pause == <<{}, {}>>
Immediate == <<{}, {"skip2"}>>
Implied == Fetch \o Pause

Modes == {"ZP", "ZPX", "ZPY", "ABS", "ABSX", "ABSY", "INDX", "INDY"}

ResolveAddress ==
    [m \in Modes |-> CASE m \in {"ZP", "ZPX", "ZPY"} -> Fetch
                       [] m \in {"ABS", "ABSX", "ABSY"} -> Fetch \o Fetch
                       [] m \in {"INDX", "INDY"} -> Fetch \o Pause \o Pause]

To(m) == Fetch \o ResolveAddress[m]

ReadModifyWriteWithA(m) ==
    To(m) \o <<{"read"}, {}, {}, {}, {"write"}>> \o (IF m \in {"ZP", "ABS"} THEN <<>> ELSE <<{}>>)
LAX(m) == To(m) \o <<{"read"}, {}>>
SAX(m) == To(m) \o <<{"write"}, {}>>

BranchRelative ==
    LET decided == <<{}, {"skip2", "taken"}>>
    IN  {Beats(Immediate), Beats(decided \o <<{}, {"jump"}>>),
         Beats(decided \o Pause \o <<{}, {"jump"}>>)}

ReadAbs == To("ABS") \o <<{"read"}>>
ReadAbsIndexed == {Beats(ReadAbs), Beats(To("ABS") \o Pause \o <<{"read"}>>)}
ReadIndY == {Beats(To("INDY") \o <<{"read"}>>), Beats(To("INDY") \o Pause \o <<{"read"}>>)}
ReadIndX == Fetch \o Fetch \o Pause \o Pause \o Pause \o <<{"read"}>>
ReadZpIndexed == To("ZP") \o <<{}, {}, {}>>

\* Forms the cases spell out one by one.
FromZpQuickly == Immediate \o Pause
FromZp == To("ZP") \o <<{}>>
ThroughPointerX == To("INDX") \o <<{"read"}, {}>>
InZp == To("ZP") \o Pause
StoreAbs == To("ABS") \o <<{"write"}>>
ModifyAbs == To("ABS") \o <<{"read", "write"}, {}>>
-----------------------------------------------------------------------------
(* The cases of decode, in the order of the source.                         *)

\* LDA.
CasesA9toAD ==
    Always({\hA9}, Immediate)
    @@ Each({\hB9, \hBD}, ReadAbsIndexed)
    @@ Always({\hB5}, ReadZpIndexed)
    @@ Always({\hAD}, ReadAbs)

\* ADC, SBC, SEC, CLC, CMP, BEQ.
Cases69toF0 ==
    Always({\h69, \hE9, \hC9}, Immediate)
    @@ Always({\h38, \h18}, Implied)
    @@ Always({\hC5}, FromZpQuickly)
    @@ Each({\hF0}, BranchRelative)

\* NOP, INC, INY.
CasesEAtoC8 ==
    Always({\hEA}, Fetch)
    @@ Always({\hEE}, To("ABS") \o Pause \o <<{"read"}, {}>> \o Pause \o <<{"write"}, {}>> \o Pause)
    @@ Always({\hC8}, Implied)

\* INX, DEC, SEI, CLI.
CasesE8to58 ==
    Always({\hE8}, Implied)
    @@ Always({\hCE}, To("ABS") \o <<{"read"}, {}, {"write"}, {}>>)
    @@ Always({\h78}, Fetch \o <<{"mask"}, {}>>)
    @@ Always({\h58}, Fetch \o <<{"unmask"}, {}>>)

\* BRK.
Break ==
    Always({\h00},
          Fetch \o Fetch \o <<{}, {"pushPch", "sp-"}, {}, {"pushPcl", "sp-"}, {}, {"pushStatus", "sp-"}>>
                 \o Pause \o Pause \o <<{"irqVector"}, {}>>)

\* RTI: five micro-operations for PHI2 in a row.
ReturnFromInterrupt ==
    [o \in {\h40} |->
        {Beats(Fetch \o <<{}>>) \o Beats(<<{}>>) \o Beats(<<{"sp+", "pullStatus"}>>)
            \o Beats(<<{"sp+", "pullPcl"}>>) \o Beats(<<{"sp+", "pullPch"}, {}>>)}]

\* JAM, and its aliases.
Jams ==
    Always({\h02, \h12, \h22, \h32, \h42, \h52, \h62, \h72, \h92, \hB2, \hD2, \hF2},
          Pause \o <<{"halt"}, {}>>)

\* TXS.
CasesTXS ==
    Always({\h9A}, Implied \o <<{"sp="}, {}>>)

\* TSX, LDX, LDY.
CasesBAtoA0 ==
    Always({\hBA}, Implied \o Pause)
    @@ Always({\hA2, \hA0}, Immediate)

\* LDY, CLD.
CasesA4toD8 ==
    Always({\hA4}, InZp \o Pause)
    @@ Always({\hD8}, Implied \o Pause)

\* JSR.
JumpToSubroutine ==
    [o \in {\h20} |->
        {Beats(Fetch \o Fetch \o <<{}, {"pushPch", "sp-"}, {"pushPcl", "sp-"}, {}, {}>>)
            \o Beats(<<{"jump"}>>)}]

\* RTS.
ReturnFromSubroutine ==
    [o \in {\h60} |->
        {Beats(Fetch \o <<{}, {"sp+"}, {}, {"sp+"}, {}, {}, {}>>) \o Beats(<<{"return"}>>)}]

\* CMP, branches, DEX, DEY.
CasesDDto88 ==
    Each({\hDD}, ReadAbsIndexed)
    @@ Each({\hD0, \h30, \h90}, BranchRelative)
    @@ Always({\hCA, \h88}, Implied)

\* JMP indirect, JMP.
Jumps ==
    [o \in {\h6C} |-> {Beats(To("ABS") \o <<{}>>) \o Beats(<<{"jump"}>>)}]
    @@ [o \in {\h4C} |-> {Beats(Fetch \o Fetch \o <<{}>>) \o Beats(<<{}, {"jump"}>>)}]

\* STX, STY.
Cases8Eto84 ==
    Always({\h8E, \h8C}, StoreAbs)
    @@ Always({\h86, \h84}, FromZp)

\* STA.
Cases8Dto91 ==
    Always({\h8D}, StoreAbs)
    @@ Always({\h85}, FromZp)
    @@ Always({\h99}, To("ABSY") \o Pause \o <<{"write"}, {}>>)
    @@ Always({\h91}, To("INDY") \o Pause \o <<{"write"}, {}>>)

\* STA, STY.
Cases9Dto95 ==
    [o \in {\h9D} |-> {Beats(To("ABSX") \o <<{}>>) \o Beats(<<{"write"}>>)}]
    @@ Always({\h94}, ReadZpIndexed)
    @@ Always({\h95}, InZp \o Pause)

\* LDA, LDX, LDY.
CasesA5toB4 ==
    Always({\hA5, \hA6}, FromZp)
    @@ Always({\hB4}, ReadZpIndexed)

\* AND, ORA, TAY.
Cases29toA8 ==
    Always({\h29, \h09}, Immediate)
    @@ Always({\h25}, FromZpQuickly)
    @@ Always({\h0D}, ReadAbs)
    @@ Each({\h1D}, ReadAbsIndexed)
    @@ Always({\hA8}, Implied)

\* TAX, TYA, INC.
CasesAAtoE6 ==
    Always({\hAA, \h98}, Implied)
    @@ Always({\hE6}, InZp \o Pause \o <<{}>>)

\* LSR.
Cases46to56 ==
    Always({\h46}, InZp \o Pause \o <<{}>>)
    @@ Always({\h56}, InZp \o Pause \o Pause \o <<{}>>)

\* LDA, CMP, ROL, TXA, PHA.
CasesB1to48 ==
    Each({\hB1, \hD1}, ReadIndY)
    @@ Always({\h2A, \h8A}, Implied)
    @@ Always({\h48}, Fetch \o <<{"pushA"}, {"sp-"}>>)

\* BCS, BPL, CPX, PHP.
CasesB0to08 ==
    Each({\hB0, \h10}, BranchRelative)
    @@ Always({\hE0}, Immediate)
    @@ Always({\hE4}, FromZpQuickly)
    @@ Always({\h08}, Implied \o <<{"pushStatus"}, {"sp-"}>>)

\* PLP, PLA, BIT.
Cases28to24 ==
    Always({\h28}, Fetch \o <<{}, {"sp+"}, {}, {"pullStatus"}>>)
    @@ Always({\h68}, Fetch \o <<{}, {"sp+"}, {}, {}>>)
    @@ Always({\h24}, FromZpQuickly)

\* BIT, EOR, LSR, ROR, LDA, LDY.
Cases2CtoAC ==
    Always({\h2C}, ReadAbs)
    @@ Always({\h49}, Immediate)
    @@ Always({\h4A, \h6A}, Fetch)
    @@ Always({\hA1}, ThroughPointerX)
    @@ Always({\hAC}, ReadAbs \o <<{}>>)

\* LDX, CMP, CPY, ORA.
CasesAEto05 ==
    Always({\hAE, \hCD}, ReadAbs)
    @@ Always({\hB6}, InZp)
    @@ Always({\hC0}, Immediate)
    @@ Always({\h01}, ThroughPointerX)
    @@ Always({\h05}, FromZpQuickly)

\* ORA, AND, EOR.
Cases11to51 ==
    Each({\h11, \h31, \h51}, ReadIndY)
    @@ Always({\h15, \h35}, InZp)
    @@ Always({\h21}, ReadIndX)
    @@ Always({\h2D}, ReadAbs)
    @@ Always({\h41}, ThroughPointerX)
    @@ Always({\h45}, FromZpQuickly)

\* EOR, CMP, CPY, CPX.
Cases55toEC ==
    Always({\h55, \hD5}, InZp)
    @@ Always({\hC1}, ThroughPointerX)
    @@ Always({\hC4}, FromZpQuickly)
    @@ Always({\hCC, \hEC}, ReadAbs)
    @@ Each({\hD9}, ReadAbsIndexed)

\* ORA, AND, EOR, ASL, ROL.
Cases19to2E ==
    Each({\h19, \h3D, \h39, \h59, \h5D}, ReadAbsIndexed)
    @@ Always({\h4D}, ReadAbs)
    @@ Always({\h0A}, Implied)
    @@ Always({\h06, \h26}, InZp)
    @@ Always({\h0E, \h2E}, ModifyAbs)

\* ROR, LSR, ASL, ROL.
Cases66to3E ==
    Always({\h66, \h16, \h36}, InZp)
    @@ Always({\h6E, \h1E, \h3E}, ModifyAbs)
    @@ [o \in {\h4E} |-> {Beats(ReadAbs) \o Beats(<<{"write"}, {}>>)}]

\* ROR, ADC, SBC, BVC, BVS.
Cases76to70 ==
    Always({\h76, \h75, \hF5}, InZp)
    @@ Always({\h7E}, ModifyAbs)
    @@ Always({\h61, \hE1}, ThroughPointerX)
    @@ Always({\h65, \hE5}, FromZpQuickly)
    @@ Always({\h6D, \hED}, ReadAbs)
    @@ Each({\h71, \hF1}, ReadIndY)
    @@ Each({\h79, \h7D, \hF9, \hFD}, ReadAbsIndexed)
    @@ Each({\h50, \h70}, BranchRelative)

\* SLO, RLA, SRE, RRA, DCP, ISC, SAX, LAX.
CasesUnofficial ==
    Always({\h03, \h23, \h43, \h63, \hC3, \hE3}, ReadModifyWriteWithA("INDX"))
    @@ Always({\h07, \h27, \h47, \h67, \hC7, \hE7}, ReadModifyWriteWithA("ZP"))
    @@ Always({\h0F, \h2F, \h4F, \h6F, \hCF, \hEF}, ReadModifyWriteWithA("ABS"))
    @@ Always({\h13, \h33, \h53, \h73, \hD3, \hF3}, ReadModifyWriteWithA("INDY"))
    @@ Always({\h17, \h37, \h57, \h77, \hD7, \hF7}, ReadModifyWriteWithA("ZPX"))
    @@ Always({\h1B, \h3B, \h5B, \h7B, \hDB, \hFB}, ReadModifyWriteWithA("ABSY"))
    @@ Always({\h1F, \h3F, \h5F, \h7F, \hDF, \hFF}, ReadModifyWriteWithA("ABSX"))
    @@ Always({\h83}, SAX("INDX"))
    @@ Always({\h87}, SAX("ZP"))
    @@ Always({\h8F}, SAX("ABS"))
    @@ Always({\h97}, SAX("ZPY"))
    @@ Always({\hA3}, LAX("INDX"))
    @@ Always({\hA7}, LAX("ZP"))
    @@ Always({\hAF}, LAX("ABS"))
    @@ Always({\hB3}, LAX("INDY"))
    @@ Always({\hB7}, LAX("ZPY"))
    @@ Always({\hBF}, LAX("ABSY"))

\* ANC, ALR, ARR, AXS, unofficial NOPs, CLV, SED.
Cases0BtoF8 ==
    Always({\h0B, \h2B, \h4B, \h6B, \hCB, \h80, \h82, \h89, \hC2, \hE2, \h04, \h44, \h64, \h14,
            \h34, \h54, \h74, \hD4, \hF4}, <<{"skip2"}, {}>>)
    @@ Always({\h1A, \h3A, \h5A, \h7A, \hDA, \hFA, \hB8, \hF8}, <<{"skip1"}, {}>>)
    @@ Always({\h0C, \h1C, \h3C, \h5C, \h7C, \hDC, \hFC}, <<{"read", "skip3"}, {}>>)

\* STA, STX, LDY, LDX, DEC.
Cases81toDE ==
    Always({\h81}, To("INDX") \o <<{"write"}, {}>>)
    @@ Always({\h96}, InZp)
    @@ Always({\hBC, \hBE}, To("ABSX") \o Pause \o <<{"read"}>>)
    @@ Always({\hC6}, InZp \o Pause)
    @@ Always({\hD6}, InZp \o Pause \o Pause)
    @@ Always({\hDE}, To("ABSX") \o <<{"read"}, {}, {"read"}, {}, {"write"}, {}>>)

\* INC, LSR, SBC, XAA, LAX.
CasesF6toAB ==
    Always({\hF6}, InZp \o Pause \o Pause)
    @@ Always({\hFE, \h5E}, ReadModifyWriteWithA("ABSX"))
    @@ Always({\hEB}, <<{"skip2"}, {}>>)
    @@ Always({\h8B, \hAB}, InZp)

\* SHA, TAS, SHY, SHX, LAS.
Cases93toBB ==
    Always({\h93}, To("INDY") \o <<{"write"}, {}>>)
    @@ Always({\h9F, \h9E}, To("ABSY") \o <<{"write"}, {}>>)
    @@ Always({\h9B}, To("ABSY") \o <<{"write", "sp="}, {}>>)
    @@ Always({\h9C}, To("ABSX") \o <<{"write"}, {}>>)
    @@ Always({\hBB}, To("ABSY") \o <<{"read", "sp="}, {}>>)

\* The schedules of every opcode.
Decode ==
    CasesA9toAD @@ Cases69toF0 @@ CasesEAtoC8 @@ CasesE8to58 @@ Break
    @@ ReturnFromInterrupt @@ Jams @@ CasesTXS @@ CasesBAtoA0 @@ CasesA4toD8
    @@ JumpToSubroutine @@ ReturnFromSubroutine @@ CasesDDto88 @@ Jumps @@ Cases8Eto84
    @@ Cases8Dto91 @@ Cases9Dto95 @@ CasesA5toB4 @@ Cases29toA8 @@ CasesAAtoE6
    @@ Cases46to56 @@ CasesB1to48 @@ CasesB0to08 @@ Cases28to24 @@ Cases2CtoAC
    @@ CasesAEto05 @@ Cases11to51 @@ Cases55toEC @@ Cases19to2E @@ Cases66to3E
    @@ Cases76to70 @@ CasesUnofficial @@ Cases0BtoF8 @@ Cases81toDE @@ CasesF6toAB
    @@ Cases93toBB

=============================================================================
