------------------------------- MODULE DriveUnit -------------------------------
(***************************************************************************)
(* A 1541 as an endpoint of the serial bus (struct Drive1541,              *)
(* src/drive_1541.hpp, and DrivePowerController): its power states, the    *)
(* power state of the C64 it is told of, the queue of received bytes, the  *)
(* bus commands that address it, and the DATA pull it puts on the wire.    *)
(*                                                                         *)
(* A tick is a sequence of steps, during which no other operation runs.    *)
(* The bits of a byte are abstracted: a phase that receives may complete a *)
(* byte in any tick, and a phase that pulls DATA may pull it in any tick.  *)
(* So are the talk side behind TALK, CLK (only the VIA pulls it), what the *)
(* commands of the command channel do but for the VIA's port, which they   *)
(* and the drive's processor may write, and what an OPEN name stands for;  *)
(* the bytes of a name or a command are kept by whether they came before   *)
(* or after the C64 was last lost or found again.                          *)
(***************************************************************************)
EXTENDS Integers, Sequences

CONSTANTS
    SpinUp, SpinDown, ResetTime,   \* spinupCycles_, spindownCycles_, resetCycles_
    Burst,                         \* bytes of the queue processed in a tick
    ReleaseDelay,                  \* iecDriveDataReleaseDelayTicks, 0 without the model
    AcksEnabled,                   \* iecEnableAtnAck, iecEnableListenerByteAck
    CommandNeedsAtnLow,            \* of the revision profile
    Channels, CommandChannel, LoadChannel, NoChannel,
    HostBytes,                     \* bytes the host sends
    QueuedBytes,                   \* those it also sends through the queue
    MaxQueue                       \* bound of the model: bytes waiting

Ops == {"LISTEN", "LISTEN OTHER", "TALK", "TALK OTHER", "UNLISTEN", "UNTALK",
        "OPEN", "CLOSE", "data"}

Byte == [op : Ops, ch : Channels \cup {NoChannel}]

ASSUME PowerAssumption == {SpinUp, SpinDown, ResetTime} \subseteq Nat

ASSUME DriveAssumption ==
    /\ Burst \in Nat /\ ReleaseDelay \in Nat /\ MaxQueue \in Nat
    /\ AcksEnabled \in BOOLEAN /\ CommandNeedsAtnLow \in BOOLEAN

ASSUME AddressAssumption ==
    /\ {CommandChannel, LoadChannel} \subseteq Channels
    /\ NoChannel \notin Channels
    /\ HostBytes \subseteq Byte /\ QueuedBytes \subseteq HostBytes
    /\ \A b \in HostBytes : b.op \in {"OPEN", "CLOSE"} => b.ch \in Channels

VARIABLES
    pc,              \* "outside" between two operations, "rx" inside a tick
    budget,          \* bytes of the queue processed in this tick
    power, timer,    \* state_ and timer_ of the power controller
    c64,             \* c64PowerState
    rearm,           \* iecRequireFreshCommandAfterC64Resume
    atnLow,          \* ~ iecATN
    rxQueue,         \* iecRxQueue
    listening, talking,   \* iecListening, iecTalking
    channel,         \* iecActiveListenChannel, NoChannel for 0xFF
    expecting,       \* iecExpectingNameBytes
    name, command,   \* ages of the bytes in iecNameBuffer, iecCommandChannelBuffer
    phase,           \* iecSerialState, "Talk" for TalkData and TalkEoiAck
    pulledBy,        \* iecDrivePullDATA, by who asked for it last: {} when released
    releaseIn,       \* iecDriveDataReleaseCountdown
    viaPulls         \* PB5 of VIA1 is an output and low

tickVars   == <<pc, budget>>
powerVars  == <<power, timer>>
linkVars   == <<c64, atnLow>>
busVars    == <<listening, talking, channel, expecting>>
bufferVars == <<name, command>>
pullVars   == <<phase, pulledBy, releaseIn>>
vars == <<tickVars, powerVars, linkVars, rearm, rxQueue, busVars, bufferVars, pullVars,
          viaPulls>>

PowerStates == {"Off", "SpinningUp", "On", "Resetting", "SpinningDown"}
C64States   == {"On", "Off", "Resetting"}
Phases      == {"Idle", "Command", "ListenData", "Talk"}
Ages        == {"before", "after"}
Sources     == {"serial", "via"}

-----------------------------------------------------------------------------
(* Power *)

\* DrivePowerController::powerOn, powerOff, reset
Powered(state, time) ==
    /\ power' = state /\ timer' = time
    /\ UNCHANGED <<tickVars, linkVars, rearm, rxQueue, busVars, bufferVars, pullVars,
                   viaPulls>>

PowerOn    == pc = "outside" /\ Powered("SpinningUp", SpinUp)
PowerOff   == pc = "outside" /\ Powered("SpinningDown", SpinDown)
PowerReset == pc = "outside" /\ Powered("Resetting", ResetTime)

\* Mutant: asking for power starts the spin-up again.
SwitchOnAlways == PowerOn

\* setDrivePower(true) ...
SwitchOn == power \notin {"On", "SpinningUp"} /\ PowerOn

\* ... and setDrivePower(false)
SwitchOff == power \notin {"Off", "SpinningDown"} /\ PowerOff

\* DrivePowerController::advanceState
Advanced(state) ==
    IF state \in {"SpinningUp", "Resetting"} THEN "On"
    ELSE IF state = "SpinningDown" THEN "Off" ELSE state

\* DrivePowerController::tick(1)
PowerTick ==
    IF timer > 1 THEN timer' = timer - 1 /\ UNCHANGED power
    ELSE timer' = 0 /\ power' = Advanced(power)

\* Mutant: only the loss of the C64 idles the drive, not its reset.
IdlesWhenOff(state) == state = "Off"

\* forceIecIdleForC64PowerOff is called.
Idles(state) == state # "On"

\* armCommandReacquire is called.
Arms(state) == state # "On" \/ c64 # "On"

\* What was received so far was received before.
Aged(bytes) == IF bytes = {} THEN {} ELSE {"before"}

\* setC64PowerState, and setC64Power for On and Off.  The queue and the bytes of
\* an unfinished name or command stay.
SetC64PowerState(state) ==
    /\ pc = "outside"
    /\ c64' = state
    /\ IF Idles(state)
       THEN /\ listening' = FALSE /\ talking' = FALSE
            /\ phase' = "Idle" /\ pulledBy' = {}
       ELSE UNCHANGED <<listening, talking, phase, pulledBy>>
    /\ IF Arms(state)
       THEN /\ rearm' = TRUE
            /\ name' = Aged(name) /\ command' = Aged(command)
       ELSE UNCHANGED <<rearm, bufferVars>>
    /\ atnLow' = (atnLow /\ state = "On")
    /\ UNCHANGED <<tickVars, powerVars, rxQueue, channel, expecting, releaseIn, viaPulls>>

\* resolveHostLinesForPowerMatrix
ResolvedLow(low) == low /\ c64 = "On"

\* setIecLines, called by the bus when the lines have changed.
SetIecLines(low) ==
    /\ pc = "outside"
    /\ atnLow' = ResolvedLow(low)
    /\ UNCHANGED <<tickVars, powerVars, c64, rearm, rxQueue, busVars, bufferVars, pullVars,
                   viaPulls>>

\* The drive's processor writes the port of VIA1 (regs[0], regs[2]).
WriteViaPort ==
    /\ pc = "outside"
    /\ viaPulls' = ~ viaPulls
    /\ UNCHANGED <<tickVars, powerVars, linkVars, rearm, rxQueue, busVars, bufferVars,
                   pullVars>>

-----------------------------------------------------------------------------
(* Received bytes *)

\* enqueueIecCommandByte, enqueueIecDataByte
Enqueue(byte) ==
    /\ pc = "outside" /\ Len(rxQueue) < MaxQueue
    /\ rxQueue' = Append(rxQueue, byte)
    /\ UNCHANGED <<tickVars, powerVars, linkVars, rearm, busVars, bufferVars, pullVars,
                   viaPulls>>

\* processIecDataByte
DataByte ==
    /\ command' = IF listening /\ channel = CommandChannel
                  THEN command \cup {"after"} ELSE command
    /\ name' = IF listening /\ channel # CommandChannel /\ expecting
               THEN name \cup {"after"} ELSE name
    /\ UNCHANGED busVars

\* The revision ignores LISTEN and TALK when ATN has just been released.
TooLate == CommandNeedsAtnLow /\ phase = "Command" /\ ~ atnLow

Listen ==
    /\ listening' = TRUE
    /\ channel' = LoadChannel
    /\ expecting' = TRUE
    /\ name' = {}
    /\ UNCHANGED <<talking, command>>

ListenOther ==
    /\ listening' = FALSE
    /\ channel' = NoChannel
    /\ expecting' = FALSE
    /\ UNCHANGED <<talking, bufferVars>>

\* A secondary address opens a channel of a listening drive.
Open(ch) ==
    IF listening
    THEN /\ channel' = ch
         /\ expecting' = TRUE
         /\ name' = {}
         /\ UNCHANGED <<listening, talking, command>>
    ELSE UNCHANGED <<busVars, bufferVars>>

Close(ch) ==
    IF channel = ch
    THEN /\ channel' = NoChannel
         /\ expecting' = FALSE
         /\ command' = IF ch = CommandChannel THEN {} ELSE command
         /\ UNCHANGED <<listening, talking, name>>
    ELSE UNCHANGED <<busVars, bufferVars>>

\* The name is committed and the command is run.
Unlisten ==
    /\ listening' = FALSE
    /\ expecting' = FALSE
    /\ command' = IF channel = CommandChannel THEN {} ELSE command
    /\ UNCHANGED <<talking, channel, name>>

Talk(own) ==
    /\ talking' = own
    /\ UNCHANGED <<listening, channel, expecting, bufferVars>>

\* processIecCommandByte
CommandByte(byte) ==
    IF byte.op \in {"LISTEN", "LISTEN OTHER", "TALK", "TALK OTHER"} /\ TooLate
    THEN UNCHANGED <<busVars, bufferVars>>
    ELSE CASE byte.op = "LISTEN"       -> Listen
           [] byte.op = "LISTEN OTHER" -> ListenOther
           [] byte.op = "TALK"         -> Talk(TRUE)
           [] byte.op = "TALK OTHER"   -> Talk(FALSE)
           [] byte.op = "UNTALK"       -> Talk(FALSE)
           [] byte.op = "UNLISTEN"     -> Unlisten
           [] byte.op = "OPEN"         -> Open(byte.ch)
           [] byte.op = "CLOSE"        -> Close(byte.ch)
           [] OTHER                    -> UNCHANGED <<busVars, bufferVars>>

\* Mutant: a drive that waits for a command takes data bytes.
ConsumeUnchecked(byte) ==
    IF byte.op = "data" THEN DataByte /\ UNCHANGED rearm
    ELSE CommandByte(byte) /\ rearm' = FALSE

\* consumeReceivedByte
ConsumeReceivedByte(byte) ==
    \/ /\ byte.op = "data" /\ rearm
       /\ UNCHANGED <<rearm, busVars, bufferVars>>
    \/ /\ byte.op = "data" /\ ~ rearm
       /\ DataByte
       /\ UNCHANGED rearm
    \/ /\ byte.op # "data"
       /\ CommandByte(byte)
       /\ rearm' = FALSE

\* A command that UNLISTEN runs may write the port (M-W, M-E).
ViaAfter(byte) ==
    IF byte.op = "UNLISTEN" /\ channel = CommandChannel THEN BOOLEAN ELSE {viaPulls}

-----------------------------------------------------------------------------
(* tickIecHalfCycle *)

\* Up to the queue: a drive that is not on does nothing but release the line.
Tick ==
    /\ pc = "outside"
    /\ PowerTick
    /\ atnLow' = ResolvedLow(atnLow)
    /\ IF power' = "On"
       THEN pc' = "rx" /\ budget' = 0 /\ UNCHANGED pulledBy
       ELSE pulledBy' = {} /\ UNCHANGED tickVars
    /\ UNCHANGED <<c64, rearm, rxQueue, busVars, bufferVars, phase, releaseIn, viaPulls>>

BurstGoesOn == rxQueue # <<>> /\ budget < Burst

\* One turn of processQueuedIecRxBurst.
ProcessQueued ==
    /\ pc = "rx" /\ BurstGoesOn
    /\ rxQueue' = Tail(rxQueue)
    /\ ConsumeReceivedByte(Head(rxQueue))
    /\ viaPulls' \in ViaAfter(Head(rxQueue))
    /\ budget' = budget + 1
    /\ UNCHANGED <<pc, powerVars, linkVars, pullVars>>

NextPhase ==
    IF atnLow THEN "Command"
    ELSE IF talking THEN "Talk"
    ELSE IF listening THEN "ListenData"
    ELSE "Idle"

\* What stepIecSerial wants to pull: an acknowledge or a bit of a byte.
Targets ==
    CASE NextPhase = "Idle" -> {FALSE}
      [] NextPhase = "Talk" -> BOOLEAN
      [] OTHER              -> IF AcksEnabled THEN BOOLEAN ELSE {FALSE}

\* driveTargetPullDATA: the serial engine's pulls, and the port's when no command is
\* being received.
Asking(serial) ==
    {source \in Sources : \/ source = "serial" /\ serial
                          \/ source = "via" /\ viaPulls' /\ NextPhase # "Command"}

\* applyDriveOpenCollectorReleaseModel
Release(asking) ==
    IF ReleaseDelay = 0 THEN pulledBy' = asking /\ releaseIn' = 0
    ELSE IF asking # {} THEN pulledBy' = asking /\ releaseIn' = ReleaseDelay
    ELSE IF pulledBy = {} THEN pulledBy' = {} /\ releaseIn' = 0
    ELSE IF releaseIn > 0 THEN releaseIn' = releaseIn - 1 /\ UNCHANGED pulledBy
    ELSE pulledBy' = {} /\ UNCHANGED releaseIn

\* stepIecSerial, with or without the last bit of a byte, and the rest of the tick.
StepIecSerial ==
    /\ pc = "rx" /\ ~ BurstGoesOn
    /\ pc' = "outside" /\ budget' = 0
    /\ \/ UNCHANGED <<rearm, busVars, bufferVars, viaPulls>>
       \/ /\ NextPhase = "Command"
          /\ \E byte \in HostBytes :
               /\ byte.op # "data" /\ ConsumeReceivedByte(byte)
               /\ viaPulls' \in ViaAfter(byte)
       \/ /\ NextPhase = "ListenData"
          /\ \E byte \in HostBytes : byte.op = "data" /\ ConsumeReceivedByte(byte)
          /\ UNCHANGED viaPulls
    /\ phase' = NextPhase
    /\ \E serial \in Targets : Release(Asking(serial))
    /\ UNCHANGED <<powerVars, linkVars, rxQueue>>

\* reset(): what it does to this state; the power of the drive and of the C64, the
\* lines and the pull are left as they are.
Reset ==
    /\ pc = "outside"
    /\ rearm' = FALSE
    /\ rxQueue' = <<>>
    /\ listening' = FALSE /\ talking' = FALSE
    /\ channel' = NoChannel /\ expecting' = FALSE
    /\ name' = {} /\ command' = {}
    /\ phase' = "Idle" /\ releaseIn' = 0
    /\ viaPulls' = FALSE
    /\ UNCHANGED <<tickVars, powerVars, linkVars, pulledBy>>

-----------------------------------------------------------------------------

\* A constructed drive is on, like the C64 it is told of.
Init ==
    /\ pc = "outside" /\ budget = 0
    /\ power = "On" /\ timer = 0
    /\ c64 = "On" /\ rearm = FALSE /\ atnLow = FALSE
    /\ rxQueue = <<>>
    /\ listening = FALSE /\ talking = FALSE
    /\ channel = NoChannel /\ expecting = FALSE
    /\ name = {} /\ command = {}
    /\ phase = "Idle" /\ pulledBy = {} /\ releaseIn = 0
    /\ viaPulls = FALSE

TickStep == ProcessQueued \/ StepIecSerial

\* Every operation but powerOn and powerOff, which no running emulator calls.
Next ==
    \/ SwitchOn \/ SwitchOff \/ PowerReset
    \/ \E state \in C64States : SetC64PowerState(state)
    \/ \E low \in BOOLEAN : SetIecLines(low)
    \/ \E byte \in QueuedBytes : Enqueue(byte)
    \/ WriteViaPort \/ Reset
    \/ Tick \/ TickStep

\* Every operation: powerOn and powerOff start their time whatever the state is.
FullNext == Next \/ PowerOn \/ PowerOff

Spec == Init /\ [][Next]_vars
FullSpec == Init /\ [][FullNext]_vars

\* The bus ticks its drives for ever, and a tick runs to its end.
FairSpec == Spec /\ WF_vars(Tick) /\ WF_vars(TickStep)

-----------------------------------------------------------------------------
(* Properties *)

\* Every variable has its type, and the queue is processed within its budget.
TypeOK ==
    /\ pc \in {"outside", "rx"} /\ budget \in 0 .. Burst
    /\ power \in PowerStates /\ timer \in Nat
    /\ c64 \in C64States
    /\ rearm \in BOOLEAN /\ atnLow \in BOOLEAN
    /\ rxQueue \in Seq(HostBytes)
    /\ listening \in BOOLEAN /\ talking \in BOOLEAN
    /\ channel \in Channels \cup {NoChannel} /\ expecting \in BOOLEAN
    /\ name \subseteq Ages /\ command \subseteq Ages
    /\ phase \in Phases /\ pulledBy \subseteq Sources
    /\ releaseIn \in 0 .. ReleaseDelay /\ viaPulls \in BOOLEAN

\* While the C64 is off or in reset the drive is idle and its serial engine pulls
\* nothing, whatever it was doing when the C64 went away, until a command that was
\* queued wakes it: if DATA is low, the VIA's port alone asked for it.
IdleUntilWoken ==
    c64 # "On" /\ rearm => ~ listening /\ ~ talking /\ pulledBy \subseteq {"via"}

\* A drive that waits for a command has taken no byte of a name or of a command
\* since the C64 was lost or came back, from the queue or from the wire.
NothingTakenUnarmed ==
    rearm => "after" \notin name \cup command

\* Once the console only asks for power, as often as it likes, the drive settles.
PowerSettles ==
    <>[][~ PowerOff /\ ~ PowerReset]_vars => <>[](power \in {"On", "Off"})

\* README.md:1508, "C64 off/resetting forces drive IEC parser idle and arms command
\* reacquire": a command is not put together from bytes of before and after.
CommandIsWhole == command # {"before", "after"}

===============================================================================
