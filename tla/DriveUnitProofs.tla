--------------------------- MODULE DriveUnitProofs ---------------------------
(***************************************************************************)
(* Proofs about the drive as an endpoint of the bus (DriveUnit): its types, *)
(* that it is idle while the C64 is away and pulls DATA for its VIA's port  *)
(* alone, and that it takes no data byte before a command has come.  They hold of every operation, so   *)
(* they are proved of FullSpec, which Spec and FairSpec imply.              *)
(***************************************************************************)
EXTENDS DriveUnit, TLAPS

\* While the C64 is away no line is seen low: without it an idle drive could enter
\* the command phase and acknowledge.
LinesHighWithoutC64 == c64 # "On" => ~ atnLow

IInv ==
    /\ TypeOK
    /\ LinesHighWithoutC64
    /\ IdleUntilWoken
    /\ NothingTakenUnarmed

-----------------------------------------------------------------------------

\* A byte leaves the state of the bus commands well typed.
LEMMA ByteType ==
    ASSUME TypeOK, NEW byte \in HostBytes, ConsumeReceivedByte(byte)
    PROVE  /\ rearm' \in BOOLEAN
           /\ listening' \in BOOLEAN /\ talking' \in BOOLEAN
           /\ channel' \in Channels \cup {NoChannel} /\ expecting' \in BOOLEAN
           /\ name' \subseteq Ages /\ command' \subseteq Ages
<1>1. byte \in Byte /\ (byte.op \in {"OPEN", "CLOSE"} => byte.ch \in Channels)
      BY AddressAssumption
<1>2. CASE byte.op = "data"
      BY <1>2 DEF TypeOK, ConsumeReceivedByte, DataByte, busVars, bufferVars, Ages
<1>3. CASE byte.op # "data"
  <2>1. CommandByte(byte) /\ rearm' = FALSE
        BY <1>3 DEF ConsumeReceivedByte
  <2>2. CASE UNCHANGED <<busVars, bufferVars>>
        BY <2>1, <2>2 DEF TypeOK, busVars, bufferVars
  <2>3. CASE Listen
        BY <2>1, <2>3, AddressAssumption DEF TypeOK, Listen
  <2>4. CASE ListenOther
        BY <2>1, <2>4 DEF TypeOK, ListenOther, bufferVars
  <2>5. CASE Talk(TRUE) \/ Talk(FALSE)
        BY <2>1, <2>5 DEF TypeOK, Talk, bufferVars
  <2>6. CASE Unlisten
        BY <2>1, <2>6 DEF TypeOK, Unlisten
  <2>7. CASE byte.op = "OPEN" /\ Open(byte.ch)
        BY <1>1, <2>1, <2>7 DEF TypeOK, Open, busVars, bufferVars
  <2>8. CASE Close(byte.ch)
        BY <2>1, <2>8 DEF TypeOK, Close, busVars, bufferVars
  <2> QED
      BY <1>1, <2>1, <2>2, <2>3, <2>4, <2>5, <2>6, <2>7, <2>8
      DEF CommandByte, Byte, Ops
<1> QED
    BY <1>2, <1>3

\* A byte either leaves the drive waiting for a command, and is dropped, or the
\* drive does not wait any more.
LEMMA ByteRearm ==
    ASSUME NEW byte, ConsumeReceivedByte(byte), rearm \in BOOLEAN, rearm'
    PROVE  rearm /\ UNCHANGED <<busVars, bufferVars>>
BY DEF ConsumeReceivedByte

\* A line is pulled by who asks for it now, or still by who asked for it last.
LEMMA ReleaseType ==
    ASSUME TypeOK, NEW asking \in SUBSET Sources, Release(asking)
    PROVE  /\ pulledBy' \subseteq Sources
           /\ releaseIn' \in 0 .. ReleaseDelay
           /\ pulledBy' \subseteq asking \cup pulledBy
BY DriveAssumption DEF TypeOK, Release

\* Who asks for DATA: not the serial engine unless it has something to pull for.
LEMMA AskingType ==
    ASSUME NEW serial
    PROVE  Asking(serial) \in SUBSET Sources /\ (~ serial => Asking(serial) \subseteq {"via"})
BY DEF Asking, Sources

LEMMA ViaType ==
    ASSUME TypeOK, NEW byte, viaPulls' \in ViaAfter(byte)
    PROVE  viaPulls' \in BOOLEAN
BY Zenon DEF TypeOK, ViaAfter

LEMMA TargetsType == Targets \subseteq BOOLEAN
BY DEF Targets

-----------------------------------------------------------------------------

\* The constructed drive satisfies the invariant.
LEMMA InitIInv == Init => IInv
<1> SUFFICES ASSUME Init PROVE IInv
    OBVIOUS
<1>1. budget \in 0 .. Burst /\ releaseIn \in 0 .. ReleaseDelay /\ rxQueue \in Seq(HostBytes)
      BY DriveAssumption DEF Init
<1>2. TypeOK
      BY <1>1 DEF Init, TypeOK, PowerStates, C64States, Phases
<1>3. LinesHighWithoutC64 /\ IdleUntilWoken /\ NothingTakenUnarmed
      BY DEF Init, LinesHighWithoutC64, IdleUntilWoken, NothingTakenUnarmed
<1> QED
    BY <1>2, <1>3 DEF IInv

\* Power commands change the power only.
LEMMA PowerKeepsIInv ==
    ASSUME IInv, PowerOn \/ PowerOff \/ PowerReset
    PROVE  IInv'
BY PowerAssumption
   DEF IInv, TypeOK, LinesHighWithoutC64, IdleUntilWoken, NothingTakenUnarmed,
       PowerOn, PowerOff, PowerReset, Powered, PowerStates,
       tickVars, linkVars, busVars, bufferVars, pullVars

\* What the C64 does when it goes away or comes back.
LEMMA C64KeepsIInv ==
    ASSUME IInv, NEW state \in C64States, SetC64PowerState(state)
    PROVE  IInv'
<1> USE DEF IInv, SetC64PowerState, tickVars, powerVars, bufferVars
<1>1. TypeOK'
      BY DEF TypeOK, Aged, Ages, Phases
<1>2. LinesHighWithoutC64'
      BY DEF LinesHighWithoutC64
<1>3. IdleUntilWoken'
      BY DEF IdleUntilWoken, Idles
<1>4. NothingTakenUnarmed'
  <2>1. CASE Arms(state)
        BY <2>1 DEF NothingTakenUnarmed, Aged
  <2>2. CASE ~ Arms(state)
        BY <2>2 DEF NothingTakenUnarmed
  <2> QED  BY <2>1, <2>2
<1> QED
    BY <1>1, <1>2, <1>3, <1>4

\* The lines, the queue and a reset.
LEMMA CallKeepsIInv ==
    ASSUME IInv,
           \/ \E low \in BOOLEAN : SetIecLines(low)
           \/ \E byte \in QueuedBytes : Enqueue(byte)
           \/ WriteViaPort \/ Reset
    PROVE  IInv'
<1> USE DEF IInv, LinesHighWithoutC64, IdleUntilWoken, NothingTakenUnarmed,
            tickVars, powerVars, linkVars, busVars, bufferVars, pullVars
<1>1. ASSUME NEW low \in BOOLEAN, SetIecLines(low) PROVE IInv'
  <2>1. atnLow' \in BOOLEAN /\ (atnLow' => c64 = "On")
        BY <1>1, Zenon DEF SetIecLines, ResolvedLow
  <2> QED
      BY <1>1, <2>1 DEF SetIecLines, TypeOK
<1>2. ASSUME NEW byte \in QueuedBytes, Enqueue(byte) PROVE IInv'
      BY <1>2, AddressAssumption DEF Enqueue, TypeOK
<1>3. CASE Reset
  <2>1. releaseIn' \in 0 .. ReleaseDelay /\ rxQueue' \in Seq(HostBytes)
        BY <1>3, DriveAssumption DEF Reset
  <2>2. TypeOK'
        BY <1>3, <2>1 DEF Reset, TypeOK, Phases
  <2> QED
      BY <1>3, <2>2 DEF Reset
<1>4. CASE WriteViaPort
  <2>1. viaPulls' \in BOOLEAN
        BY <1>4, Zenon DEF WriteViaPort
  <2> QED
      BY <1>4, <2>1 DEF WriteViaPort, TypeOK
<1> QED
    BY <1>1, <1>2, <1>3, <1>4

\* A tick up to the queue.
LEMMA TickKeepsIInv ==
    ASSUME IInv, Tick
    PROVE  IInv'
<1> USE DEF IInv, Tick, tickVars, busVars, bufferVars
<1>1. timer' \in Nat /\ power' \in PowerStates
      BY DEF TypeOK, PowerTick, Advanced, PowerStates
<1>2. TypeOK'
  <2>1. atnLow' \in BOOLEAN
        BY Zenon DEF ResolvedLow
  <2>2. budget' \in 0 .. Burst
        BY DriveAssumption DEF TypeOK
  <2> QED
      BY <1>1, <2>1, <2>2 DEF TypeOK
<1>3. LinesHighWithoutC64'
      BY DEF ResolvedLow, LinesHighWithoutC64
<1>4. IdleUntilWoken' /\ NothingTakenUnarmed'
      BY DEF IdleUntilWoken, NothingTakenUnarmed
<1> QED
    BY <1>2, <1>3, <1>4

\* A byte of the queue.
LEMMA QueuedKeepsIInv ==
    ASSUME IInv, ProcessQueued
    PROVE  IInv'
<1> USE DEF IInv, ProcessQueued, powerVars, linkVars, pullVars
<1>1. Head(rxQueue) \in HostBytes /\ rxQueue' \in Seq(HostBytes)
      BY DEF TypeOK, BurstGoesOn
<1>2. TypeOK'
  <2>1. viaPulls' \in BOOLEAN
        BY ViaType
  <2> QED
      BY <1>1, <2>1, ByteType, DriveAssumption DEF TypeOK, BurstGoesOn
<1>3. rearm' => rearm /\ UNCHANGED <<busVars, bufferVars>>
      BY ByteRearm DEF TypeOK
<1>4. LinesHighWithoutC64' /\ IdleUntilWoken' /\ NothingTakenUnarmed'
      BY <1>3 DEF LinesHighWithoutC64, IdleUntilWoken, NothingTakenUnarmed,
                  busVars, bufferVars
<1> QED
    BY <1>2, <1>4

\* The rest of the tick.
LEMMA SerialKeepsIInv ==
    ASSUME IInv, StepIecSerial
    PROVE  IInv'
<1>1. PICK serial \in Targets : Release(Asking(serial))
      BY DEF StepIecSerial
<1>2. /\ pulledBy' \subseteq Sources /\ releaseIn' \in 0 .. ReleaseDelay
      /\ pulledBy' \subseteq Asking(serial) \cup pulledBy
      /\ viaPulls' \in BOOLEAN
  <2>1. viaPulls' = viaPulls \/ \E byte \in HostBytes : viaPulls' \in ViaAfter(byte)
        BY DEF StepIecSerial
  <2>2. viaPulls' \in BOOLEAN
        BY <2>1, ViaType DEF IInv, TypeOK
  <2> QED
      BY <1>1, <2>2, AskingType, ReleaseType DEF IInv
<1>3. \/ UNCHANGED <<rearm, busVars, bufferVars>>
      \/ \E byte \in HostBytes : ConsumeReceivedByte(byte)
      BY DEF StepIecSerial
<1>4. TypeOK'
  <2>1. /\ rearm' \in BOOLEAN
        /\ listening' \in BOOLEAN /\ talking' \in BOOLEAN
        /\ channel' \in Channels \cup {NoChannel} /\ expecting' \in BOOLEAN
        /\ name' \subseteq Ages /\ command' \subseteq Ages
        BY <1>3, ByteType DEF IInv, TypeOK, busVars, bufferVars
  <2>2. phase' \in Phases
        BY DEF StepIecSerial, NextPhase, Phases
  <2> QED
      BY <1>2, <2>1, <2>2, DriveAssumption
      DEF IInv, TypeOK, StepIecSerial, powerVars, linkVars
<1>5. rearm' => rearm /\ UNCHANGED <<busVars, bufferVars>>
      BY <1>3, ByteRearm DEF IInv, TypeOK
<1>6. LinesHighWithoutC64'
      BY DEF IInv, LinesHighWithoutC64, StepIecSerial, linkVars
<1>7. IdleUntilWoken'
  <2>1. SUFFICES ASSUME c64 # "On", rearm'
                 PROVE  ~ listening' /\ ~ talking' /\ pulledBy' \subseteq {"via"}
        BY DEF IdleUntilWoken, StepIecSerial, linkVars
  <2>2. /\ rearm /\ ~ atnLow /\ ~ listening /\ ~ talking /\ pulledBy \subseteq {"via"}
        /\ ~ listening' /\ ~ talking'
        BY <1>5, <2>1 DEF IInv, IdleUntilWoken, LinesHighWithoutC64, busVars
  <2>3. serial = FALSE
        BY <1>1, <2>2 DEF Targets, NextPhase
  <2>4. Asking(serial) \subseteq {"via"}
        BY <2>3, AskingType
  <2> QED
      BY <1>2, <2>2, <2>4
<1>8. NothingTakenUnarmed'
      BY <1>5 DEF IInv, NothingTakenUnarmed, bufferVars
<1> QED
    BY <1>4, <1>6, <1>7, <1>8 DEF IInv

\* No step of the drive breaks the invariant.
LEMMA StepKeepsIInv == IInv /\ [FullNext]_vars => IInv'
<1> SUFFICES ASSUME IInv, [FullNext]_vars PROVE IInv'
    OBVIOUS
<1>1. CASE PowerOn \/ PowerOff \/ PowerReset \/ SwitchOn \/ SwitchOff
      BY <1>1, PowerKeepsIInv DEF SwitchOn, SwitchOff
<1>2. CASE \E state \in C64States : SetC64PowerState(state)
      BY <1>2, C64KeepsIInv
<1>3. CASE \/ \E low \in BOOLEAN : SetIecLines(low)
           \/ \E byte \in QueuedBytes : Enqueue(byte)
           \/ WriteViaPort \/ Reset
      BY <1>3, CallKeepsIInv
<1>4. CASE Tick
      BY <1>4, TickKeepsIInv
<1>5. CASE ProcessQueued
      BY <1>5, QueuedKeepsIInv
<1>6. CASE StepIecSerial
      BY <1>6, SerialKeepsIInv
<1>7. CASE UNCHANGED vars
      BY <1>7 DEF vars, tickVars, powerVars, linkVars, busVars, bufferVars, pullVars,
                  IInv, TypeOK, LinesHighWithoutC64, IdleUntilWoken, NothingTakenUnarmed
<1> QED
    BY <1>1, <1>2, <1>3, <1>4, <1>5, <1>6, <1>7 DEF FullNext, Next, TickStep

-----------------------------------------------------------------------------

\* The inductive invariant of the drive.
THEOREM Consistent == FullSpec => []IInv
BY InitIInv, StepKeepsIInv, PTL DEF FullSpec

\* Whatever is called, every variable keeps its type and the queue its budget.
THEOREM TypeCorrect == FullSpec => []TypeOK
<1>1. IInv => TypeOK
      BY DEF IInv
<1> QED
    BY <1>1, Consistent, PTL

\* A drive without a C64 is idle, and pulls DATA for its VIA's port alone, until a
\* queued command wakes it.
THEOREM IdleWithoutC64 == FullSpec => []IdleUntilWoken
<1>1. IInv => IdleUntilWoken
      BY DEF IInv
<1> QED
    BY <1>1, Consistent, PTL

\* No data byte is taken between the loss or return of the C64 and a command.
THEOREM CommandComesFirst == FullSpec => []NothingTakenUnarmed
<1>1. IInv => NothingTakenUnarmed
      BY DEF IInv
<1> QED
    BY <1>1, Consistent, PTL

=============================================================================
