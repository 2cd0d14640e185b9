---------------------------- MODULE C64LoopProofs ----------------------------
(***************************************************************************)
(* What the main loop keeps, for every program, every choice of the VIC    *)
(* and any number of CIAs.                                                 *)
(***************************************************************************)
EXTENDS C64Loop, SequenceTheorems, TLAPS

-----------------------------------------------------------------------------
(* The sequences of micro-operations.                                      *)

\* Micro-operations that do not end a dummy read.
Quiet == Effects \ {"endDummy"}
QuietOps == [phase : Phases, does : SUBSET Quiet]

LEMMA QuietIsTyped ==
    ASSUME NEW q \in Seq(QuietOps)
    PROVE  /\ q \in Seq(MicroOps)
           /\ \A k \in 1..Len(q) : "endDummy" \notin q[k].does
<1>1. QuietOps \subseteq MicroOps
  BY SMT DEF QuietOps, MicroOps, Quiet
<1>2. q \in [1..Len(q) -> MicroOps] /\ Len(q) \in Nat
  BY <1>1
<1>3. q \in Seq(MicroOps)
  BY <1>2, SeqDef
<1>4. ASSUME NEW k \in 1..Len(q) PROVE "endDummy" \notin q[k].does
  <2>1. q[k] \in QuietOps
    OBVIOUS
  <2> QED
    BY <2>1 DEF QuietOps, Quiet
<1> QED
  BY <1>3, <1>4

\* Alternating phases over a sequence of sets of effects.
LEMMA BeatsQuiet ==
    ASSUME NEW s \in Seq(SUBSET Quiet)
    PROVE  Beats(s) \in Seq(QuietOps) /\ Len(Beats(s)) = Len(s)
<1>1. DOMAIN s = 1..Len(s) /\ Len(s) \in Nat
  OBVIOUS
<1>2. \A i \in 1..Len(s) : s[i] \in SUBSET Quiet
  OBVIOUS
<1>3. \A i \in 1..Len(s) :
        [phase |-> IF i % 2 = 1 THEN "PHI2" ELSE "PHI1", does |-> s[i]] \in QuietOps
  BY <1>2 DEF QuietOps, Phases
<1>4. Beats(s) \in [1..Len(s) -> QuietOps]
  BY <1>1, <1>3 DEF Beats
<1>5. Beats(s) \in Seq(QuietOps)
  BY <1>1, <1>4, SeqDef
<1>6. Len(Beats(s)) = Len(s)
  BY <1>1, <1>4, <1>5, LenProperties
<1> QED
  BY <1>5, <1>6

\* The interrupt and reset sequences are micro-operations, at least one, and end no dummy
\* read.
LEMMA InterruptSequences ==
    /\ IrqSequence \in Seq(QuietOps) /\ IrqSequence # <<>>
    /\ NmiSequence \in Seq(QuietOps) /\ NmiSequence # <<>>
    /\ ResetSequence \in Seq(QuietOps) /\ ResetSequence # <<>>
<1> DEFINE S == Seq(SUBSET Quiet)
<1>1. Pause \in S /\ Pause # <<>>
  <2>1. {} \in SUBSET Quiet
    OBVIOUS
  <2> QED
    BY <2>1 DEF Pause
<1>2. ASSUME NEW a \in S, NEW b \in S PROVE a \o b \in S /\ Len(a \o b) = Len(a) + Len(b)
  OBVIOUS
<1>3. <<{"pushPch"}, {"sp-"}, {"pushPcl"}, {"sp-"}, {"pushStatus"}, {"sp-"}>> \in S
  BY DEF Quiet, Effects, StackEffects
<1>4. <<{"irqVector"}, {}>> \in S /\ <<{"resetVector", "unblock"}, {}>> \in S
  BY DEF Quiet, Effects, PcEffects, OtherEffects
<1>5. <<{"pushPch", "sp-"}, {}, {"pushPcl", "sp-"}, {}, {"pushStatus", "sp-"}, {}>> \in S
  BY DEF Quiet, Effects, StackEffects
<1>6. <<{"nmiVector"}, {}, {"mask"}, {}>> \in S
  BY DEF Quiet, Effects, PcEffects, FlagEffects
<1>7. ASSUME NEW a \in S, Len(a) > 0 PROVE Beats(a) \in Seq(QuietOps) /\ Beats(a) # <<>>
  <2>1. Beats(a) \in Seq(QuietOps) /\ Len(Beats(a)) > 0
    BY <1>7, BeatsQuiet
  <2> QED
    BY <2>1
<1>8. Len(Pause) = 2
  BY DEF Pause
<1> HIDE DEF S
<1>9. IrqSequence \in Seq(QuietOps) /\ IrqSequence # <<>>
  <2> DEFINE p == <<{"pushPch"}, {"sp-"}, {"pushPcl"}, {"sp-"}, {"pushStatus"}, {"sp-"}>>
             v == <<{"irqVector"}, {}>>
  <2>1. p \in S /\ v \in S /\ Len(p) = 6 /\ Len(v) \in Nat
    BY <1>3, <1>4
  <2> HIDE DEF p, v
  <2>2. Pause \o p \in S /\ Len(Pause \o p) = 2 + Len(p)
    BY <1>1, <1>2, <1>8, <2>1
  <2>3. (Pause \o p) \o Pause \in S /\ Len((Pause \o p) \o Pause) = 4 + Len(p)
    <3>1. Len((Pause \o p) \o Pause) = Len(Pause \o p) + Len(Pause)
      BY <1>1, <1>2, <2>2
    <3> QED
      BY <1>1, <1>2, <1>8, <2>1, <2>2, <3>1
  <2>4. ((Pause \o p) \o Pause) \o v \in S /\ Len(((Pause \o p) \o Pause) \o v) = 4 + Len(p) + Len(v)
    BY <1>2, <2>1, <2>3
  <2>5. Len(((Pause \o p) \o Pause) \o v) > 0
    BY <2>1, <2>4
  <2>6. Beats(((Pause \o p) \o Pause) \o v) \in Seq(QuietOps) /\ Beats(((Pause \o p) \o Pause) \o v) # <<>>
    BY <1>7, <2>4, <2>5
  <2> QED
    BY <2>6 DEF IrqSequence, p, v
<1>10. NmiSequence \in Seq(QuietOps) /\ NmiSequence # <<>>
  <2> DEFINE p == <<{"pushPch", "sp-"}, {}, {"pushPcl", "sp-"}, {}, {"pushStatus", "sp-"}, {}>>
             v == <<{"nmiVector"}, {}, {"mask"}, {}>>
  <2>1. p \in S /\ v \in S /\ Len(p) = 6 /\ Len(v) \in Nat
    BY <1>5, <1>6
  <2> HIDE DEF p, v
  <2>2. Pause \o p \in S /\ Len(Pause \o p) = 2 + Len(p)
    BY <1>1, <1>2, <1>8, <2>1
  <2>3. (Pause \o p) \o Pause \in S /\ Len((Pause \o p) \o Pause) = 4 + Len(p)
    <3>1. Len((Pause \o p) \o Pause) = Len(Pause \o p) + Len(Pause)
      BY <1>1, <1>2, <2>2
    <3> QED
      BY <1>1, <1>2, <1>8, <2>1, <2>2, <3>1
  <2>4. ((Pause \o p) \o Pause) \o v \in S /\ Len(((Pause \o p) \o Pause) \o v) = 4 + Len(p) + Len(v)
    BY <1>2, <2>1, <2>3
  <2>5. Len(((Pause \o p) \o Pause) \o v) > 0
    BY <2>1, <2>4
  <2>6. Beats(((Pause \o p) \o Pause) \o v) \in Seq(QuietOps) /\ Beats(((Pause \o p) \o Pause) \o v) # <<>>
    BY <1>7, <2>4, <2>5
  <2> QED
    BY <2>6 DEF NmiSequence, p, v
<1>11. ResetSequence \in Seq(QuietOps) /\ ResetSequence # <<>>
  <2> DEFINE v == <<{"resetVector", "unblock"}, {}>>
  <2>1. v \in S /\ Len(v) \in Nat
    BY <1>4
  <2> HIDE DEF v
  <2>2. Pause \o Pause \in S /\ Len(Pause \o Pause) = 4
    <3>1. Len(Pause \o Pause) = Len(Pause) + Len(Pause)
      BY <1>1, <1>2
    <3> QED
      BY <1>1, <1>2, <1>8, <3>1
  <2>3. (Pause \o Pause) \o Pause \in S /\ Len((Pause \o Pause) \o Pause) = 6
    BY <1>1, <1>2, <1>8, <2>2
  <2>4. ((Pause \o Pause) \o Pause) \o Pause \in S /\ Len(((Pause \o Pause) \o Pause) \o Pause) = 8
    BY <1>1, <1>2, <1>8, <2>3
  <2>5. (((Pause \o Pause) \o Pause) \o Pause) \o v \in S /\ Len((((Pause \o Pause) \o Pause) \o Pause) \o v) = 8 + Len(v)
    BY <1>2, <2>1, <2>4
  <2>6. Len((((Pause \o Pause) \o Pause) \o Pause) \o v) > 0
    BY <2>1, <2>5
  <2>7. /\ Beats((((Pause \o Pause) \o Pause) \o Pause) \o v) \in Seq(QuietOps)
        /\ Beats((((Pause \o Pause) \o Pause) \o Pause) \o v) # <<>>
    BY <1>7, <2>5, <2>6
  <2> QED
    BY <2>7 DEF ResetSequence, v
<1> QED
  BY <1>9, <1>10, <1>11

\* What a dummy read appends to the queue: one micro-operation, the last, ends it.
LEMMA DummyReadShape ==
    ASSUME pc \in Nat, branchTaken \in BOOLEAN
    PROVE  \E d \in Seq(QuietOps) : DummyRead = d \o <<Op("PHI1", {"endDummy"})>>
<1> DEFINE a == <<Op("PHI1", {}), Op("PHI2", {})>>
           b == IF branchTaken THEN <<Op("PHI1", {})>> ELSE <<>>
           c == IF pc % 256 = 255 THEN <<Op("PHI1", {}), Op("PHI2", {})>> ELSE <<>>
<1>1. Op("PHI1", {}) \in QuietOps /\ Op("PHI2", {}) \in QuietOps
  BY DEF Op, QuietOps, Phases
<1>2. a \in Seq(QuietOps) /\ b \in Seq(QuietOps) /\ c \in Seq(QuietOps)
  <2> HIDE DEF Op
  <2>1. <<>> \in Seq(QuietOps)
    OBVIOUS
  <2>2. <<Op("PHI1", {})>> \in Seq(QuietOps)
    BY <1>1
  <2>3. <<Op("PHI1", {}), Op("PHI2", {})>> \in Seq(QuietOps)
    BY <1>1
  <2> QED
    BY <2>1, <2>2, <2>3
<1> HIDE DEF a, b, c
<1>3. (a \o b) \o c \in Seq(QuietOps)
  BY <1>2
<1>4. DummyRead = ((a \o b) \o c) \o <<Op("PHI1", {"endDummy"})>>
  BY DEF DummyRead, a, b, c
<1> QED
  BY <1>3, <1>4

-----------------------------------------------------------------------------
(* The dummy read.                                                         *)

\* The flag f is up exactly when the queue q ends in the end of a dummy read.
Ends(q, f) ==
    /\ q \in Seq(MicroOps)
    /\ \A k \in 1..Len(q) : "endDummy" \in q[k].does <=> (f /\ k = Len(q))
    /\ f => q # <<>>

LEMMA EndsQuiet ==
    ASSUME NEW q \in Seq(QuietOps)
    PROVE  Ends(q, FALSE)
BY QuietIsTyped DEF Ends

\* Queueing a dummy read.
LEMMA EndsAfterDummy ==
    ASSUME Ends(queue, inDummy), inDummy \in BOOLEAN, pc \in Nat, branchTaken \in BOOLEAN,
           NEW asked \in BOOLEAN
    PROVE  Ends(QueueAfterDummy(asked), inDummy \/ asked)
<1>1. CASE asked /\ ~inDummy
  <2>1. PICK d \in Seq(QuietOps) : DummyRead = d \o <<Op("PHI1", {"endDummy"})>>
    BY DummyReadShape
  <2> DEFINE e == Op("PHI1", {"endDummy"})
             q == queue \o DummyRead
  <2>2. e \in MicroOps /\ "endDummy" \in e.does
    BY DEF Op, MicroOps, Phases, Effects, OtherEffects
  <2> HIDE DEF e
  <2>3. d \in Seq(MicroOps) /\ \A k \in 1..Len(d) : "endDummy" \notin d[k].does
    BY QuietIsTyped
  <2>4. queue \in Seq(MicroOps) /\ \A k \in 1..Len(queue) : "endDummy" \notin queue[k].does
    BY <1>1 DEF Ends
  <2>5. q = queue \o (d \o <<e>>)
    BY <2>1 DEF e
  <2> DEFINE t == d \o <<e>>
  <2>6. /\ t \in Seq(MicroOps) /\ Len(t) = Len(d) + 1
        /\ \A k \in 1..Len(t) : "endDummy" \in t[k].does <=> k = Len(t)
    <3>1. t \in Seq(MicroOps) /\ Len(t) = Len(d) + 1 /\ t[Len(d) + 1] = e
      BY <2>2, <2>3
    <3>2. \A k \in 1..Len(d) : t[k] = d[k]
      BY <2>2, <2>3
    <3>3. ASSUME NEW k \in 1..Len(t) PROVE "endDummy" \in t[k].does <=> k = Len(t)
      <4>1. CASE k \in 1..Len(d)
        BY <2>3, <3>1, <3>2, <4>1
      <4>2. CASE k = Len(d) + 1
        BY <2>2, <3>1, <4>2
      <4> QED
        BY <2>3, <3>1, <4>1, <4>2
    <3> QED
      BY <3>1, <3>3
  <2> HIDE DEF t
  <2>7. q = queue \o t
    BY <2>5 DEF t
  <2> HIDE DEF q
  <2>8. /\ q \in Seq(MicroOps) /\ Len(q) = Len(queue) + Len(t)
        /\ \A k \in 1..Len(queue) : q[k] = queue[k]
        /\ \A k \in 1..Len(t) : q[Len(queue) + k] = t[k]
    <3>1. q \in Seq(MicroOps) /\ Len(q) = Len(queue) + Len(t)
      BY <2>4, <2>6, <2>7
    <3>2. \A k \in 1..(Len(queue) + Len(t)) :
            q[k] = IF k <= Len(queue) THEN queue[k] ELSE t[k - Len(queue)]
      BY <2>4, <2>6, <2>7, ConcatProperties
    <3>3. Len(queue) \in Nat /\ Len(t) \in Nat
      BY <2>4, <2>6
    <3>4. ASSUME NEW k \in 1..Len(t) PROVE q[Len(queue) + k] = t[k]
      <4>1. Len(queue) + k \in 1..(Len(queue) + Len(t)) /\ ~(Len(queue) + k <= Len(queue))
        BY <3>3
      <4>2. (Len(queue) + k) - Len(queue) = k
        BY <3>3
      <4> QED
        BY <3>2, <4>1, <4>2
    <3>5. ASSUME NEW k \in 1..Len(queue) PROVE q[k] = queue[k]
      BY <3>2, <3>3
    <3> QED
      BY <3>1, <3>4, <3>5
  <2>9. ASSUME NEW k \in 1..Len(q) PROVE "endDummy" \in q[k].does <=> k = Len(q)
    <3>1. CASE k \in 1..Len(queue)
      <4>1. Len(d) \in Nat /\ Len(queue) \in Nat
        BY <2>3, <2>4
      <4>2. k # Len(q)
        BY <2>6, <2>8, <3>1, <4>1
      <4> QED
        BY <2>4, <2>8, <3>1, <4>2
    <3>2. CASE k \notin 1..Len(queue)
      <4>1. k - Len(queue) \in 1..Len(t)
        BY <2>4, <2>6, <2>8, <3>2
      <4>2. q[k] = t[k - Len(queue)]
        BY <2>4, <2>8, <4>1
      <4>3. k - Len(queue) = Len(t) <=> k = Len(q)
        BY <2>4, <2>6, <2>8
      <4> QED
        BY <2>6, <4>1, <4>2, <4>3
    <3> QED
      BY <3>1, <3>2
  <2>10. q # <<>>
    BY <2>3, <2>4, <2>6, <2>8
  <2>11. QueueAfterDummy(asked) = q
    BY <1>1 DEF QueueAfterDummy, q
  <2> QED
    BY <1>1, <2>8, <2>9, <2>10, <2>11 DEF Ends
<1>2. CASE ~(asked /\ ~inDummy)
  <2>1. QueueAfterDummy(asked) = queue /\ (inDummy \/ asked) = inDummy
    BY <1>2 DEF QueueAfterDummy
  <2> QED
    BY <2>1
<1> QED
  BY <1>1, <1>2

\* Removing the first micro-operation.
LEMMA EndsTail ==
    ASSUME NEW q, NEW f \in BOOLEAN, Ends(q, f), q # <<>>
    PROVE  /\ Ends(Tail(q), f /\ "endDummy" \notin Head(q).does)
           /\ Tail(q) = <<>> => ~(f /\ "endDummy" \notin Head(q).does)
<1>1. q \in Seq(MicroOps) /\ Len(q) \in Nat /\ Len(q) > 0
  BY DEF Ends
<1>2. Tail(q) \in Seq(MicroOps) /\ Len(Tail(q)) = Len(q) - 1 /\ Head(q) = q[1]
  BY <1>1
<1>3. \A k \in 1..(Len(q) - 1) : Tail(q)[k] = q[k + 1]
  BY <1>1
<1>4. Tail(q) = <<>> <=> Len(q) = 1
  <2>1. \A s \in Seq(MicroOps) : s = <<>> <=> Len(s) = 0
    OBVIOUS
  <2>2. Tail(q) = <<>> <=> Len(Tail(q)) = 0
    BY <1>2, <2>1
  <2>3. Len(q) - 1 = 0 <=> Len(q) = 1
    BY <1>1
  <2> QED
    BY <1>2, <2>2, <2>3
<1>5. CASE f
  <2>1. \A k \in 1..Len(q) : "endDummy" \in q[k].does <=> k = Len(q)
    BY <1>5 DEF Ends
  <2>2. "endDummy" \in Head(q).does <=> Len(q) = 1
    <3>1. 1 \in 1..Len(q) /\ (1 = Len(q) <=> Len(q) = 1)
      BY <1>1
    <3>2. "endDummy" \in q[1].does <=> 1 = Len(q)
      BY <2>1, <3>1
    <3> QED
      BY <1>2, <3>1, <3>2
  <2>3. CASE Len(q) = 1
    <3>1. 1..Len(Tail(q)) = {}
      <4>1. Len(Tail(q)) = 0
        BY <1>2, <2>3
      <4>2. \A n : n = 0 => 1..n = {}
        OBVIOUS
      <4> QED
        BY <4>1, <4>2
    <3>2. Ends(Tail(q), FALSE)
      BY <1>2, <3>1 DEF Ends
    <3> QED
      BY <2>2, <2>3, <3>2
  <2>4. CASE Len(q) # 1
    <3>1. ASSUME NEW k \in 1..Len(Tail(q))
          PROVE  "endDummy" \in Tail(q)[k].does <=> k = Len(Tail(q))
      <4>1. k + 1 \in 1..Len(q) /\ Tail(q)[k] = q[k + 1] /\ (k + 1 = Len(q) <=> k = Len(Tail(q)))
        BY <1>1, <1>2, <1>3
      <4> QED
        BY <2>1, <4>1
    <3>2. Ends(Tail(q), TRUE)
      BY <1>2, <1>4, <2>4, <3>1 DEF Ends
    <3> QED
      BY <1>4, <1>5, <2>2, <2>4, <3>2
  <2> QED
    BY <2>3, <2>4
<1>6. CASE ~f
  <2>1. ASSUME NEW k \in 1..Len(Tail(q)) PROVE "endDummy" \notin Tail(q)[k].does
    <3>1. k + 1 \in 1..Len(q) /\ Tail(q)[k] = q[k + 1]
      BY <1>1, <1>2, <1>3
    <3> QED
      BY <1>6, <3>1 DEF Ends
  <2>2. Ends(Tail(q), FALSE)
    BY <1>2, <2>1 DEF Ends
  <2> QED
    BY <1>6, <2>2
<1> QED
  BY <1>5, <1>6

-----------------------------------------------------------------------------
(* What a micro-operation leaves has its type.                             *)

\* The part of TypeOK that is the processor's.
Cpu ==
    /\ phase \in Phases
    /\ pc \in Address /\ sp \in Byte /\ masked \in BOOLEAN
    /\ stack \in [Cells -> Byte]
    /\ operand \in [target : Address, chip : Chips, events : SUBSET Events, on : BOOLEAN, byte : Byte]
    /\ inDummy \in BOOLEAN /\ branchTaken \in BOOLEAN /\ irqSampled \in BOOLEAN
    /\ nmiLine \in BOOLEAN /\ pendingNmi \in BOOLEAN /\ blockNmi \in BOOLEAN
    /\ halted \in BOOLEAN

\* Arithmetic of bytes and addresses.
LEMMA IsByte == \A x : x \in Byte <=> x \in Nat /\ x < 256
BY DEF Byte

LEMMA IsAddress ==
    /\ AddressSpace \in Nat
    /\ \A x : x \in Address <=> x \in Nat /\ x < AddressSpace
<1>1. AddressSpace \in Nat
  BY DEF AddressSpace
<1> QED
  BY <1>1 DEF Address

LEMMA Wraps == \A x \in Nat : x % AddressSpace \in Address
<1>1. \A x \in Nat : x % AddressSpace \in Nat /\ x % AddressSpace < AddressSpace
  BY DEF AddressSpace
<1> QED
  BY <1>1, IsAddress

\* The two bytes of an address.
LEMMA Halves ==
    ASSUME NEW a \in Address
    PROVE  a \div 256 \in Byte /\ a % 256 \in Byte
<1>1. a \in Nat /\ a < AddressSpace
  BY IsAddress
<1>2. a < 65536
  BY <1>1 DEF AddressSpace
<1>3. a \div 256 \in Nat /\ a \div 256 < 256 /\ a % 256 \in Nat /\ a % 256 < 256
  BY <1>1, <1>2
<1> QED
  BY <1>3, IsByte

LEMMA FromHalves ==
    ASSUME NEW h \in Byte, NEW l \in Byte
    PROVE  256 * h + l \in Address
<1>1. h \in Nat /\ h < 256 /\ l \in Nat /\ l < 256
  BY IsByte
<1>2. 256 * h + l \in Nat /\ 256 * h + l < 65536
  BY <1>1
<1>3. 256 * h + l < AddressSpace
  BY <1>2 DEF AddressSpace
<1> QED
  BY <1>2, <1>3, IsAddress

LEMMA SpTyped ==
    ASSUME Cpu, NEW does
    PROVE  SpAfter(does) \in Byte
<1>1. sp \in 0..255 /\ operand.byte \in 0..255
  BY DEF Cpu, Byte
<1>2. (sp + 255) % 256 \in 0..255 /\ (sp + 1) % 256 \in 0..255
  BY <1>1
<1> QED
  BY <1>1, <1>2 DEF SpAfter, Byte

LEMMA PulledTyped ==
    ASSUME Cpu, NEW does
    PROVE  Pulled(does) \in Byte
<1>1. CASE SpAfter(does) \in Cells
  BY <1>1 DEF Pulled, Cpu
<1>2. CASE SpAfter(does) \notin Cells
  BY <1>2 DEF Pulled, Byte
<1> QED
  BY <1>1, <1>2

LEMMA ReturnAddressTyped ==
    ASSUME Cpu
    PROVE  ReturnAddress \in Address
<1>1. CASE {sp, sp - 1} \subseteq Cells
  <2>1. stack[sp] \in Nat /\ stack[sp - 1] \in Nat
    BY <1>1, IsByte DEF Cpu
  <2>2. 256 * stack[sp] + stack[sp - 1] + 1 \in Nat
    BY <2>1
  <2> QED
    BY <1>1, <2>2, Wraps DEF ReturnAddress
<1>2. CASE ~({sp, sp - 1} \subseteq Cells)
  <2>1. 1 \in Address
    BY IsAddress DEF AddressSpace
  <2> QED
    BY <1>2, <2>1 DEF ReturnAddress
<1> QED
  BY <1>1, <1>2

LEMMA PcTyped ==
    ASSUME CpuAssumption, Cpu, NEW does
    PROVE  PcAfter(does) \in Address
<1>1. ASSUME does \cap DOMAIN Distances # {}
      PROVE  (pc + Distances[Only(does \cap DOMAIN Distances)]) % AddressSpace \in Address
  <2> DEFINE e == Only(does \cap DOMAIN Distances)
  <2>1. e \in DOMAIN Distances
    BY <1>1 DEF Only
  <2> HIDE DEF e
  <2>2. Distances[e] \in Nat
    BY <2>1 DEF Distances
  <2>3. pc + Distances[e] \in Nat
    BY <2>2, IsAddress DEF Cpu
  <2>4. (pc + Distances[e]) % AddressSpace \in Address
    BY <2>3, Wraps
  <2> QED
    BY <2>4 DEF e
<1>2. ASSUME does \cap DOMAIN Vectors # {}
      PROVE  Vectors[Only(does \cap DOMAIN Vectors)] \in Address
  <2> DEFINE e == Only(does \cap DOMAIN Vectors)
  <2>1. e \in DOMAIN Vectors
    BY <1>2 DEF Only
  <2> HIDE DEF e
  <2>2. Vectors[e] \in {IrqVector, NmiVector, ResetVector}
    BY <2>1 DEF Vectors
  <2> QED
    BY <2>2 DEF CpuAssumption, e
<1>3. operand.target \in Address /\ pc \in Address /\ ReturnAddress \in Address
  BY ReturnAddressTyped DEF Cpu
<1>4. pc \div 256 \in Byte /\ pc % 256 \in Byte /\ Pulled(does) \in Byte
  BY <1>3, Halves, PulledTyped
<1>5. 256 * (pc \div 256) + Pulled(does) \in Address /\ 256 * Pulled(does) + (pc % 256) \in Address
  BY <1>4, FromHalves
<1> QED
  BY <1>1, <1>2, <1>3, <1>5 DEF PcAfter

LEMMA StackTyped ==
    ASSUME Cpu, NEW does
    PROVE  StackAfter(does) \in [Cells -> Byte]
<1>1. CASE does \cap Pushes = {}
  BY <1>1 DEF StackAfter, Cpu
<1>2. CASE does \cap Pushes # {}
  <2>1. operand.byte \in Byte /\ 0 \in Byte /\ 4 \in Byte
    BY IsByte DEF Cpu
  <2>2. pc \div 256 \in Byte /\ pc % 256 \in Byte
    BY Halves DEF Cpu
  <2>3. "pushPch" \in does \/ "pushPcl" \in does \/ "pushStatus" \in does \/ "pushA" \in does
    BY <1>2 DEF Pushes
  <2>4. Pushed(does) \in Byte
    BY <2>1, <2>2, <2>3 DEF Pushed
  <2>5. \A c \in Cells : (IF c = sp THEN Pushed(does) ELSE stack[c]) \in Byte
    BY <2>4 DEF Cpu
  <2> QED
    BY <1>2, <2>5 DEF StackAfter
<1> QED
  BY <1>1, <1>2

LEMMA MaskedTyped ==
    ASSUME Cpu, NEW does
    PROVE  MaskedAfter(does) \in BOOLEAN
BY DEF Cpu, MaskedAfter

LEMMA PerformTyped ==
    ASSUME CpuAssumption, Cpu, NEW does, Perform(does)
    PROVE  /\ pc' \in Address /\ sp' \in Byte /\ masked' \in BOOLEAN
           /\ stack' \in [Cells -> Byte]
           /\ branchTaken' \in BOOLEAN /\ halted' \in BOOLEAN /\ blockNmi' \in BOOLEAN
<1>1. pc' \in Address /\ sp' \in Byte
  BY PcTyped, SpTyped DEF Perform
<1>2. stack' \in [Cells -> Byte] /\ masked' \in BOOLEAN
  BY StackTyped, MaskedTyped DEF Perform
<1>3. branchTaken' \in BOOLEAN /\ halted' \in BOOLEAN /\ blockNmi' \in BOOLEAN
  BY DEF Perform, Cpu
<1> QED
  BY <1>1, <1>2, <1>3

-----------------------------------------------------------------------------
(* The invariant.                                                          *)

IInv == TypeOK /\ Ends(queue, inDummy) /\ Bit7Agrees

LEMMA CpuOfTypeOK ==
    ASSUME TypeOK
    PROVE  Cpu
BY DEF TypeOK, Cpu

LEMMA NoOperandTyped ==
    NoOperand \in [target : Address, chip : Chips, events : SUBSET Events, on : BOOLEAN, byte : Byte]
<1>1. 0 \in Address /\ 0 \in Byte
  BY IsAddress, IsByte DEF AddressSpace
<1> QED
  BY <1>1 DEF NoOperand, Chips

\* Deny: the queue may grow, the processor does nothing.
LEMMA DenyKeeps ==
    ASSUME TypeOK, Ends(queue, inDummy), NEW asked \in BOOLEAN, Deny(asked)
    PROVE  Cpu' /\ Ends(queue, inDummy)'
<1>1. Cpu
  BY CpuOfTypeOK
<1>2. Cpu'
  BY <1>1 DEF Cpu, Deny, Phases
<1>3. Ends(QueueAfterDummy(asked), inDummy \/ asked)
  BY <1>1, EndsAfterDummy, IsAddress DEF Cpu
<1>4. queue' = QueueAfterDummy(asked) /\ inDummy' = (inDummy \/ asked)
  BY DEF Deny
<1> QED
  BY <1>2, <1>3, <1>4 DEF Ends

\* RunQueue: a micro-operation is done, or waits, or an interrupt begins at the end.
LEMMA RunQueueKeeps ==
    ASSUME CpuAssumption, TypeOK, Ends(queue, inDummy), NEW asked \in BOOLEAN, RunQueue(asked)
    PROVE  Cpu' /\ Ends(queue, inDummy)'
<1> DEFINE q == QueueAfterDummy(asked)
           does == Doing(TRUE, asked)
           f == inDummy \/ asked
           left == IF Head(q).phase = phase THEN Tail(q) ELSE q
           g == f /\ "endDummy" \notin does
           interrupted == left = <<>> /\ IrqDue(masked')
<1>1. Cpu
  BY CpuOfTypeOK
<1>2. Ends(q, f) /\ f \in BOOLEAN
  BY <1>1, EndsAfterDummy, IsAddress DEF Cpu
<1>3. /\ q # <<>>
      /\ Perform(does)
      /\ inDummy' = g
      /\ queue' = IF interrupted THEN IrqSequence ELSE left
      /\ operand' = IF interrupted THEN NoOperand ELSE operand
      /\ irqSampled' = (irqSampled /\ ~interrupted)
      /\ phase' = IF interrupted THEN "PHI2" ELSE Other(phase)
      /\ UNCHANGED <<nmiLine, pendingNmi>>
  BY DEF RunQueue
<1>4. does = IF Head(q).phase = phase THEN Head(q).does ELSE {}
  BY <1>3 DEF Doing
<1> HIDE DEF q, does, f
<1>5. Ends(left, g) /\ (left = <<>> => ~g)
  <2>1. CASE Head(q).phase = phase
    BY <1>2, <1>3, <1>4, <2>1, EndsTail
  <2>2. CASE Head(q).phase # phase
    <3>1. left = q /\ (g <=> f)
      BY <1>4, <2>2
    <3>2. g = f
      BY <1>2, <3>1
    <3> QED
      BY <1>2, <1>3, <3>1, <3>2 DEF Ends
  <2> QED
    BY <2>1, <2>2
<1>6. /\ pc' \in Address /\ sp' \in Byte /\ masked' \in BOOLEAN /\ stack' \in [Cells -> Byte]
      /\ branchTaken' \in BOOLEAN /\ halted' \in BOOLEAN /\ blockNmi' \in BOOLEAN
  BY <1>1, <1>3, PerformTyped
<1>7. Cpu'
  <2>1. operand' \in [target : Address, chip : Chips, events : SUBSET Events, on : BOOLEAN, byte : Byte]
    BY <1>1, <1>3, NoOperandTyped DEF Cpu
  <2>2. phase' \in Phases
    BY <1>3 DEF Phases, Other
  <2>3. inDummy' \in BOOLEAN /\ irqSampled' \in BOOLEAN /\ nmiLine' \in BOOLEAN /\ pendingNmi' \in BOOLEAN
    BY <1>1, <1>3 DEF Cpu
  <2> QED
    BY <1>6, <2>1, <2>2, <2>3 DEF Cpu
<1>8. Ends(queue', inDummy')
  <2>1. CASE interrupted
    <3>1. inDummy' = FALSE
      BY <1>3, <1>5, <2>1
    <3>2. queue' = IrqSequence
      BY <1>3, <2>1
    <3> QED
      BY <3>1, <3>2, EndsQuiet, InterruptSequences
  <2>2. CASE ~interrupted
    BY <1>3, <1>5, <2>2
  <2> QED
    BY <2>1, <2>2
<1> QED
  BY <1>7, <1>8 DEF Ends

\* With an empty queue no dummy read is asked for or in progress.
LEMMA IdleIsQuiet ==
    ASSUME TypeOK, Ends(queue, inDummy), NEW asked \in BOOLEAN, QueueAfterDummy(asked) = <<>>
    PROVE  queue = <<>> /\ inDummy = FALSE
<1>1. Ends(<<>>, inDummy \/ asked)
  <2>1. Cpu
    BY CpuOfTypeOK
  <2> QED
    BY <2>1, EndsAfterDummy, IsAddress DEF Cpu
<1>2. ~(inDummy \/ asked)
  BY <1>1 DEF Ends
<1>3. inDummy \in BOOLEAN
  BY DEF TypeOK
<1> QED
  BY <1>2, <1>3 DEF QueueAfterDummy

\* Begin: an interrupt sequence fills the empty queue.
LEMMA BeginKeeps ==
    ASSUME TypeOK, inDummy = FALSE, NEW q \in Seq(QuietOps), Begin(q),
           pendingNmi' \in BOOLEAN, irqSampled' \in BOOLEAN
    PROVE  Cpu' /\ Ends(queue, inDummy)'
<1>1. Cpu
  BY CpuOfTypeOK
<1>2. /\ queue' = q /\ operand' = NoOperand
      /\ UNCHANGED <<phase, pc, sp, masked, stack, inDummy, branchTaken, nmiLine, blockNmi, halted>>
  BY DEF Begin
<1>3. Cpu'
  BY <1>1, <1>2, NoOperandTyped DEF Cpu
<1>4. Ends(q, FALSE)
  BY EndsQuiet
<1> QED
  BY <1>2, <1>3, <1>4 DEF Ends

\* FetchInstruction: no schedule of decode ends a dummy read.
LEMMA FetchKeeps ==
    ASSUME CpuAssumption, LoopAssumption, TypeOK, inDummy = FALSE,
           NEW i \in Code[pc], NEW s \in Schedules[i.opcode], FetchInstruction(i, s)
    PROVE  Cpu' /\ Ends(queue, inDummy)'
<1>1. Cpu
  BY CpuOfTypeOK
<1>2. /\ i.opcode \in Opcodes /\ i.target \in Address /\ i.chip \in Chips
      /\ i.events \in SUBSET Events /\ i.on \in BOOLEAN /\ i.byte \in Byte
  BY <1>1 DEF LoopAssumption, Cpu
<1>3. s \in Seq(MicroOps) /\ \A k \in 1..Len(s) : "endDummy" \notin s[k].does
  <2>1. s \in Seq(MicroOps)
    BY <1>2 DEF CpuAssumption
  <2>2. \A k \in DOMAIN s : "endDummy" \notin s[k].does
    BY <1>2 DEF CpuAssumption
  <2> QED
    BY <2>1, <2>2
<1>4. operand' \in [target : Address, chip : Chips, events : SUBSET Events, on : BOOLEAN, byte : Byte]
  <2>1. operand' = [target |-> i.target, chip |-> i.chip, events |-> i.events, on |-> i.on,
                    byte |-> i.byte]
    BY DEF FetchInstruction
  <2> QED
    BY <1>2, <2>1
<1>5. stack' \in [Cells -> Byte]
  <2>1. \A c \in Cells : (IF c > sp THEN stack[c] ELSE 0) \in Byte
    BY <1>1, IsByte DEF Cpu
  <2> QED
    BY <2>1 DEF FetchInstruction
<1>6. phase' \in Phases /\ branchTaken' \in BOOLEAN
  BY <1>1 DEF Cpu, FetchInstruction, Other, Phases
<1>7. Cpu'
  <2>1. UNCHANGED <<pc, sp, masked, inDummy, irqSampled, nmiLine, pendingNmi, blockNmi, halted>>
    BY DEF FetchInstruction
  <2> QED
    BY <1>1, <1>4, <1>5, <1>6, <2>1 DEF Cpu
<1>8. queue' = s /\ inDummy' = FALSE
  BY DEF FetchInstruction
<1>9. Ends(s, FALSE)
  BY <1>3 DEF Ends
<1> QED
  BY <1>7, <1>8, <1>9 DEF Ends

\* Clock: every half cycle of the processor.
LEMMA ClockKeeps ==
    ASSUME CpuAssumption, LoopAssumption, TypeOK, Ends(queue, inDummy),
           NEW granted \in BOOLEAN, NEW asked \in BOOLEAN, Clock(granted, asked)
    PROVE  Cpu' /\ Ends(queue, inDummy)'
<1>1. CASE Deny(asked)
  BY <1>1, DenyKeeps
<1>2. CASE RunQueue(asked)
  BY <1>2, RunQueueKeeps
<1>3. CASE Idle(asked)
  <2>1. inDummy = FALSE
    BY <1>3, IdleIsQuiet DEF Idle
  <2>2. irqSampled \in BOOLEAN /\ pendingNmi \in BOOLEAN
    BY DEF TypeOK
  <2>3. CASE BeginNmi
    <3>1. Begin(NmiSequence) /\ pendingNmi' \in BOOLEAN /\ irqSampled' \in BOOLEAN
      BY <2>2, <2>3 DEF BeginNmi
    <3> QED
      BY <2>1, <3>1, BeginKeeps, InterruptSequences
  <2>4. CASE BeginIrq
    <3>1. Begin(IrqSequence) /\ pendingNmi' \in BOOLEAN /\ irqSampled' \in BOOLEAN
      BY <2>2, <2>4 DEF BeginIrq
    <3> QED
      BY <2>1, <3>1, BeginKeeps, InterruptSequences
  <2>5. ASSUME NEW i \in Code[pc], NEW s \in Schedules[i.opcode], FetchInstruction(i, s)
        PROVE  Cpu' /\ Ends(queue, inDummy)'
    BY <2>1, <2>5, FetchKeeps
  <2> QED
    BY <1>3, <2>3, <2>4, <2>5 DEF Idle
<1> QED
  BY <1>1, <1>2, <1>3 DEF Clock

\* Access: the registers of the CIAs.
LEMMA AccessKeeps ==
    ASSUME TypeOK, Bit7Agrees, NEW does, NEW raised \in BOOLEAN, Access(does, raised)
    PROVE  /\ icr' \in [Cias -> SUBSET Events] /\ ier' \in [Cias -> SUBSET Events]
           /\ bit7' \in [Cias -> BOOLEAN] /\ vicIrq' \in BOOLEAN
           /\ \A c \in Cias : bit7'[c] <=> icr'[c] \cap ier'[c] # {}
<1> DEFINE d == operand.chip
           reads == "read" \in does /\ d \in Cias
           writes == "write" \in does /\ d \in Cias
<1>1. /\ icr' = IF reads THEN [icr EXCEPT ![d] = {}] ELSE icr
      /\ ier' = IF writes
                THEN [ier EXCEPT ![d] = IF operand.on THEN @ \cup operand.events
                                                      ELSE @ \ operand.events]
                ELSE ier
      /\ bit7' = IF reads \/ writes
                 THEN [bit7 EXCEPT ![d] = icr'[d] \cap ier'[d] # {}]
                 ELSE bit7
      /\ vicIrq' \in BOOLEAN
  BY DEF Access
<1>2. /\ icr \in [Cias -> SUBSET Events] /\ ier \in [Cias -> SUBSET Events]
      /\ bit7 \in [Cias -> BOOLEAN] /\ operand.events \in SUBSET Events
  BY DEF TypeOK
<1>3. \A c \in Cias : bit7[c] <=> icr[c] \cap ier[c] # {}
  BY DEF Bit7Agrees, PullsIrq
<1> HIDE DEF d, reads, writes
<1>4. icr' \in [Cias -> SUBSET Events] /\ ier' \in [Cias -> SUBSET Events]
  BY <1>1, <1>2
<1>5. bit7' \in [Cias -> BOOLEAN]
  BY <1>1, <1>2
<1>6. ASSUME NEW c \in Cias PROVE bit7'[c] <=> icr'[c] \cap ier'[c] # {}
  <2>1. CASE reads \/ writes
    <3>1. CASE c = d
      BY <1>1, <1>2, <2>1, <3>1
    <3>2. CASE c # d
      <4>1. bit7'[c] = bit7[c] /\ icr'[c] = icr[c] /\ ier'[c] = ier[c]
        BY <1>1, <1>2, <3>2
      <4> QED
        BY <1>3, <4>1
    <3> QED
      BY <3>1, <3>2
  <2>2. CASE ~(reads \/ writes)
    <3>1. bit7' = bit7 /\ icr' = icr /\ ier' = ier
      BY <1>1, <2>2
    <3> QED
      BY <1>3, <3>1
  <2> QED
    BY <2>1, <2>2
<1> QED
  BY <1>1, <1>4, <1>5, <1>6

LEMMA CpuTurnKeeps ==
    ASSUME CpuAssumption, LoopAssumption, IInv, NEW contended \in BOOLEAN, NEW raised \in BOOLEAN,
           CpuTurn(contended, raised)
    PROVE  IInv'
<1> DEFINE asked == contended /\ ~vicHadBus
<1>1. /\ Clock(~contended, asked)
      /\ Access(Doing(~contended, asked), raised)
      /\ turn' = "lines" /\ beat' = Other(beat) /\ vicHadBus' = contended
      /\ UNCHANGED deferred
  BY DEF CpuTurn
<1>2. TypeOK /\ Ends(queue, inDummy) /\ Bit7Agrees
  BY DEF IInv
<1>3. asked \in BOOLEAN /\ (~contended) \in BOOLEAN
  OBVIOUS
<1> HIDE DEF asked
<1>4. Cpu' /\ Ends(queue, inDummy)'
  BY <1>1, <1>2, <1>3, ClockKeeps
<1>5. /\ icr' \in [Cias -> SUBSET Events] /\ ier' \in [Cias -> SUBSET Events]
      /\ bit7' \in [Cias -> BOOLEAN] /\ vicIrq' \in BOOLEAN
      /\ \A c \in Cias : bit7'[c] <=> icr'[c] \cap ier'[c] # {}
  BY <1>1, <1>2, AccessKeeps
<1>6. turn' \in {"cpu", "lines"} /\ beat' \in Phases /\ vicHadBus' \in BOOLEAN
      /\ deferred' \in [Cias -> SUBSET Events]
  BY <1>1, <1>2 DEF TypeOK, Other, Phases
<1>7. queue' \in Seq(MicroOps)
  BY <1>4 DEF Ends
<1>8. TypeOK'
  BY <1>4, <1>5, <1>6, <1>7 DEF TypeOK, Cpu
<1>9. Bit7Agrees'
  BY <1>5 DEF Bit7Agrees, PullsIrq
<1> QED
  BY <1>4, <1>8, <1>9 DEF IInv

LEMMA LinesTurnKeeps ==
    ASSUME IInv, NEW early \in ChosenFrom(Early), NEW late \in ChosenFrom(Late),
           LinesTurn(early, late)
    PROVE  IInv'
<1> DEFINE flagged(c) == deferred[c] \cup early[c]
<1>1. TypeOK /\ Ends(queue, inDummy) /\ Bit7Agrees
  BY DEF IInv
<1>2. early \in [Cias -> SUBSET Events] /\ late \in [Cias -> SUBSET Events]
  BY DEF ChosenFrom
<1>3. /\ icr' = [c \in Cias |-> icr[c] \cup flagged(c)]
      /\ bit7' = [c \in Cias |-> bit7[c] \/ flagged(c) \cap ier[c] # {}]
      /\ ier' = ier /\ deferred' = late
  BY DEF LinesTurn
<1>4. UNCHANGED <<queue, phase, pc, sp, masked, stack, operand, inDummy, branchTaken, blockNmi,
                  halted, beat, vicHadBus, vicIrq>>
  BY DEF LinesTurn
<1>5. turn' = "cpu"
  BY DEF LinesTurn
<1>6. irqSampled' \in BOOLEAN /\ pendingNmi' \in BOOLEAN /\ nmiLine' \in BOOLEAN
  BY <1>1 DEF LinesTurn, SetIrq, SetNmi, TypeOK
<1>7. icr \in [Cias -> SUBSET Events] /\ ier \in [Cias -> SUBSET Events]
      /\ bit7 \in [Cias -> BOOLEAN] /\ deferred \in [Cias -> SUBSET Events]
  BY <1>1 DEF TypeOK
<1>8. icr' \in [Cias -> SUBSET Events] /\ bit7' \in [Cias -> BOOLEAN]
      /\ ier' \in [Cias -> SUBSET Events] /\ deferred' \in [Cias -> SUBSET Events]
  BY <1>2, <1>3, <1>7
<1>9. TypeOK'
  BY <1>1, <1>4, <1>5, <1>6, <1>8 DEF TypeOK
<1>10. Ends(queue, inDummy)'
  BY <1>1, <1>4 DEF Ends
<1>11. ASSUME NEW c \in Cias PROVE bit7'[c] <=> icr'[c] \cap ier'[c] # {}
  <2>1. bit7[c] <=> icr[c] \cap ier[c] # {}
    BY <1>1 DEF Bit7Agrees, PullsIrq
  <2>2. bit7'[c] <=> (bit7[c] \/ flagged(c) \cap ier[c] # {})
    BY <1>3
  <2>3. icr'[c] \cap ier'[c] = (icr[c] \cap ier[c]) \cup (flagged(c) \cap ier[c])
    BY <1>3
  <2> QED
    BY <2>1, <2>2, <2>3
<1>12. Bit7Agrees'
  BY <1>11 DEF Bit7Agrees, PullsIrq
<1> QED
  BY <1>9, <1>10, <1>12 DEF IInv

LEMMA InitHasIInv ==
    ASSUME CpuAssumption, Init
    PROVE  IInv
<1>1. queue = ResetSequence /\ inDummy = FALSE
  BY DEF Init, CpuInit
<1>2. Ends(queue, inDummy)
  BY <1>1, EndsQuiet, InterruptSequences
<1>3. queue \in Seq(MicroOps)
  BY <1>2 DEF Ends
<1>4. 0 \in Address /\ StackTop \in Byte /\ 0 \in Byte
  BY IsAddress, IsByte DEF AddressSpace, StackTop
<1>5. /\ phase = "PHI1" /\ pc = 0 /\ sp = StackTop /\ masked = TRUE
      /\ stack = [c \in Cells |-> 0] /\ operand = NoOperand
      /\ branchTaken = FALSE /\ irqSampled = FALSE /\ nmiLine = TRUE /\ pendingNmi = FALSE
      /\ blockNmi = TRUE /\ halted = FALSE
  BY DEF Init, CpuInit
<1>6. /\ turn = "cpu" /\ beat = "PHI1" /\ vicHadBus = FALSE /\ vicIrq = FALSE
      /\ icr = [c \in Cias |-> {}] /\ ier = [c \in Cias |-> {}]
      /\ bit7 = [c \in Cias |-> FALSE] /\ deferred = [c \in Cias |-> {}]
  BY DEF Init
<1>7. TypeOK
  BY <1>1, <1>3, <1>4, <1>5, <1>6, NoOperandTyped DEF TypeOK, Phases
<1>8. Bit7Agrees
  BY <1>6 DEF Bit7Agrees, PullsIrq
<1> QED
  BY <1>2, <1>7, <1>8 DEF IInv

LEMMA StepKeepsIInv ==
    ASSUME CpuAssumption, LoopAssumption, IInv, [Next]_vars
    PROVE  IInv'
<1>1. ASSUME NEW contended \in BOOLEAN, NEW raised \in BOOLEAN, CpuTurn(contended, raised)
      PROVE  IInv'
  BY <1>1, CpuTurnKeeps
<1>2. ASSUME NEW early \in ChosenFrom(Early), NEW late \in ChosenFrom(Late), LinesTurn(early, late)
      PROVE  IInv'
  BY <1>2, LinesTurnKeeps
<1>3. CASE UNCHANGED vars
  BY <1>3 DEF IInv, TypeOK, Ends, Bit7Agrees, PullsIrq, vars, cpu, chips
<1> QED
  BY <1>1, <1>2, <1>3 DEF Next

\* Every state of the loop has the invariant.
THEOREM LoopInvariant == Spec => []IInv
<1>1. Init => IInv
  BY InitHasIInv, CpuAssumption
<1>2. IInv /\ [Next]_vars => IInv'
  BY StepKeepsIInv, CpuAssumption, LoopAssumption
<1> QED
  BY <1>1, <1>2, PTL DEF Spec

\* The processor and the chips keep to their types.
THEOREM LoopTypes == Spec => []TypeOK
BY LoopInvariant, PTL DEF IInv

\* A dummy read is in progress exactly while its last micro-operation is queued.
THEOREM DummyReads == Spec => []DummyConsistent
<1>1. IInv => DummyConsistent
  <2>1. SUFFICES ASSUME IInv PROVE DummyConsistent
    OBVIOUS
  <2>2. queue \in Seq(MicroOps) /\ DOMAIN queue = 1..Len(queue) /\ Len(queue) \in Nat
    BY <2>1 DEF IInv, TypeOK
  <2>3. \A k \in 1..Len(queue) : "endDummy" \in queue[k].does <=> (inDummy /\ k = Len(queue))
    BY <2>1 DEF IInv, Ends
  <2>4. inDummy => Len(queue) \in 1..Len(queue)
    <3>1. queue # <<>> => Len(queue) > 0
      BY <2>2, EmptySeq
    <3>2. inDummy => queue # <<>>
      BY <2>1 DEF IInv, Ends
    <3> QED
      BY <2>2, <3>1, <3>2
  <2> QED
    BY <2>2, <2>3, <2>4 DEF DummyConsistent
<1> QED
  BY <1>1, LoopInvariant, PTL

\* Bit 7 of a CIA's interrupt register says that an enabled event is flagged.
THEOREM InterruptRegisters == Spec => []Bit7Agrees
BY LoopInvariant, PTL DEF IInv

\* Types, dummy reads and interrupt registers together, as the run checks them.
THEOREM LoopKeeps == Spec => []LoopConsistent
<1>1. TypeOK /\ DummyConsistent /\ Bit7Agrees => LoopConsistent
  BY DEF LoopConsistent
<1> QED
  BY <1>1, LoopTypes, DummyReads, InterruptRegisters, PTL

-----------------------------------------------------------------------------
(* The phases of the processor and the VIC.                                *)

\* Where the two drift apart.
Drifts ==
    \/ queue = <<>> /\ queue' \in {IrqSequence, NmiSequence}
    \/ queue' = IrqSequence

LEMMA OtherPhase ==
    ASSUME NEW p \in Phases, NEW b \in Phases
    PROVE  (Other(p) = Other(b)) <=> (p = b)
BY DEF Other, Phases

\* A dummy read that was asked for would not leave the queue empty.
LEMMA EmptyQueue ==
    ASSUME TypeOK, NEW asked \in BOOLEAN, QueueAfterDummy(asked) = <<>>
    PROVE  queue = <<>>
<1>1. CASE asked /\ ~inDummy
  <2>1. queue \in Seq(MicroOps) /\ pc \in Nat /\ branchTaken \in BOOLEAN
    BY IsAddress DEF TypeOK
  <2>2. PICK d \in Seq(QuietOps) : DummyRead = d \o <<Op("PHI1", {"endDummy"})>>
    BY <2>1, DummyReadShape
  <2>3. d \in Seq(MicroOps)
    BY QuietIsTyped
  <2>4. Op("PHI1", {"endDummy"}) \in MicroOps
    BY DEF Op, MicroOps, Phases, Effects, OtherEffects
  <2>5. DummyRead \in Seq(MicroOps) /\ Len(DummyRead) > 0
    BY <2>2, <2>3, <2>4
  <2>6. Len(queue \o DummyRead) = Len(queue) + Len(DummyRead)
    BY <2>1, <2>5
  <2>7. Len(queue \o DummyRead) # 0
    BY <2>1, <2>5, <2>6
  <2> QED
    BY <1>1, <2>7 DEF QueueAfterDummy
<1>2. CASE ~(asked /\ ~inDummy)
  BY <1>2 DEF QueueAfterDummy
<1> QED
  BY <1>1, <1>2

LEMMA StepsInStep ==
    ASSUME TypeOK, [Next]_vars, (phase = beat) # (phase' = beat')
    PROVE  Drifts
<1>1. phase \in Phases /\ beat \in Phases
  BY DEF TypeOK
<1>2. ASSUME NEW contended \in BOOLEAN, NEW raised \in BOOLEAN, CpuTurn(contended, raised)
      PROVE  Drifts
  <2> DEFINE asked == contended /\ ~vicHadBus
  <2>1. Clock(~contended, asked) /\ beat' = Other(beat) /\ asked \in BOOLEAN
    BY <1>2 DEF CpuTurn
  <2> HIDE DEF asked
  <2>2. ASSUME phase' = Other(phase) PROVE FALSE
    BY <1>1, <2>1, <2>2, OtherPhase
  <2>3. CASE Deny(asked)
    <3>1. phase' = Other(phase)
      BY <2>3 DEF Deny, Other
    <3> QED
      BY <2>2, <3>1
  <2>4. CASE RunQueue(asked)
    <3>1. phase' = Other(phase) \/ queue' = IrqSequence
      BY <2>4 DEF RunQueue
    <3> QED
      BY <2>2, <3>1 DEF Drifts
  <2>5. CASE Idle(asked)
    <3>1. queue = <<>>
      BY <2>1, <2>5, EmptyQueue DEF Idle
    <3>2. CASE BeginNmi \/ BeginIrq
      BY <3>1, <3>2 DEF BeginNmi, BeginIrq, Begin, Drifts
    <3>3. ASSUME NEW i \in Code[pc], NEW s \in Schedules[i.opcode], FetchInstruction(i, s)
          PROVE  FALSE
      <4>1. phase' = Other(phase)
        BY <3>3 DEF FetchInstruction
      <4> QED
        BY <2>2, <4>1
    <3> QED
      BY <2>5, <3>2, <3>3 DEF Idle
  <2> QED
    BY <2>1, <2>3, <2>4, <2>5 DEF Clock
<1>3. ASSUME NEW early \in ChosenFrom(Early), NEW late \in ChosenFrom(Late), LinesTurn(early, late)
      PROVE  FALSE
  <2>1. phase' = phase /\ beat' = beat
    BY <1>3 DEF LinesTurn
  <2> QED
    BY <2>1
<1>4. CASE UNCHANGED vars
  <2>1. phase' = phase /\ beat' = beat
    BY <1>4 DEF vars, cpu
  <2> QED
    BY <2>1
<1> QED
  BY <1>2, <1>3, <1>4 DEF Next

\* The processor and the VIC drift by a half cycle only where an interrupt begins.
THEOREM Drifting == Spec => InStep
<1>1. TypeOK /\ [Next]_vars =>
        [(phase = beat) # (phase' = beat') =>
          \/ queue = <<>> /\ queue' \in {IrqSequence, NmiSequence}
          \/ queue' = IrqSequence]_vars
  BY StepsInStep DEF Drifts
<1> QED
  BY <1>1, LoopTypes, PTL DEF Spec, InStep
=============================================================================
