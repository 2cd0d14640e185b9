------------------------------ MODULE DriveBoard ------------------------------
(***************************************************************************)
(* A half-cycle of the 1541's board, tickIecHalfCycle: the power that lets  *)
(* it onto the bus, its port to the bus, the two VIAs, the pulls that are  *)
(* released late, and the LEDs.  What the serial engine (DriveSerial) and  *)
(* the processor (DriveCpu) want is left to them; the power controller's   *)
(* timer is DriveUnit's.  Lines are the set of those that are low.  An     *)
(* edge is queued in the port with the time of the call that takes it off  *)
(* again, so a queue holds the changes of one call and nothing waits.      *)
(***************************************************************************)
EXTENDS Naturals, FiniteSets

CONSTANTS
    Plans,                              \* what the C64, the programs and the user do, by name
    Byte,                               \* 256
    ShiftBits,                          \* 8
    ActivityTicks, WriteTicks,          \* kActivityPulseTicks = 24, and 8 more
    ErrorHold,                          \* kErrorHoldTicks = 96
    Window, EdgeLimit                   \* kIecWindowTicks = 32, edgeThreshold = 8

VARIABLES
    plan,
    delay,                              \* iecDrive...ReleaseDelayTicks, 1 at level 5, 0 otherwise
    power, c64,                         \* PowerState, C64PowerState
    seen,                               \* iecATN, iecCLK, iecDATA
    port,                               \* in_, out_, hostLatched_, driveLatched_
    pulls, countdown,                   \* iecDrivePull..., iecDrive...ReleaseCountdown
    via,                                \* via1, via2
    irqLine,                            \* the processor's IRQ
    signal,                             \* the counters of DriveSignalModel
    leds,                               \* driveLed...
    status                              \* is iecStatusLine an error

VARIABLES
    host,                               \* history: what the C64 last put on the bus
    wanted,                             \* history: ticks since a line was to be pulled
    life,                               \* history: what a timer was loaded with, and the ticks since
    owed,                               \* history: flags raised and not taken back by a program
    calm                                \* history: ticks since an error was noted, capped

fixed == <<plan, delay>>
lines == <<seen, port, pulls, countdown>>
lamps == <<signal, leds, status>>
vars == <<fixed, power, c64, lines, via, irqLine, lamps, host, wanted, life, owed, calm>>

May == Plans[plan]
Lines == {"ATN", "CLK", "DATA"}
OutLines == {"CLK", "DATA"}
Powers == {"Off", "SpinningUp", "On", "Resetting", "SpinningDown"}
C64Powers == {"Off", "Resetting", "On"}
Flags == {"T1", "T2", "SR"}

\* What the theorems ask of the constants: bytes have values, a window has a tick, a write
\* shows at least as long as an access, and a plan does what programs and users can do.
PlanOK(p) ==
    /\ p.host \subseteq SUBSET Lines /\ p.portB \subseteq SUBSET OutLines
    /\ p.bytes \subseteq 0..(Byte - 1) /\ p.flags \subseteq SUBSET Flags
    /\ p.acr \subseteq [bit6clear : BOOLEAN, shifts : BOOLEAN]
    /\ p.delays \subseteq Nat /\ p.vias \subseteq 1..2
    /\ p.serial \subseteq BOOLEAN /\ p.busy \subseteq BOOLEAN /\ p.status \subseteq BOOLEAN
    /\ p.powers \subseteq Powers /\ p.c64 \subseteq C64Powers
BoardConstants ==
    /\ Byte \in Nat \ {0} /\ ShiftBits \in Nat \ {0} /\ Window \in Nat \ {0} /\ ErrorHold \in Nat
    /\ ActivityTicks \in Nat /\ WriteTicks \in Nat /\ ActivityTicks <= WriteTicks
    /\ EdgeLimit \in Nat
    /\ \A n \in DOMAIN Plans : PlanOK(Plans[n])

ASSUME BoardAssumption == BoardConstants

-----------------------------------------------------------------------------
(* DriveIecPort.                                                           *)

\* queueHostLines and applyReady: the lines that differ from the latched ones.
Edges(latched, new) == (latched \ new) \cup (new \ latched)
Applied(on, latched, new) == (on \ Edges(latched, new)) \cup (new \cap Edges(latched, new))

FromHost(low) == [port EXCEPT !.in = Applied(@, port.hostLatched, low), !.hostLatched = low]
FromDrive(p, low) == [p EXCEPT !.out = Applied(@, p.driveLatched, low), !.driveLatched = low]

HostLines(low) == IF c64 = "On" THEN low ELSE {}

\* setIecLines: the bus calls it; its edges are not counted for the LED.
setIecLines ==
    /\ \E low \in May.host :
        /\ port' = FromHost(HostLines(low))
        /\ seen' = port'.in
        /\ host' = HostLines(low)
    /\ UNCHANGED <<fixed, power, c64, pulls, countdown, via, irqLine, lamps, wanted, life, owed, calm>>

-----------------------------------------------------------------------------
(* DriveViaDomain.                                                         *)

\* A timer that came to 0 raises its flag a tick later and starts again or stops.
Timer1After(v) ==
    CASE v.t1.running /\ v.t1.count = 0 ->
            IF v.continuous THEN [v.t1 EXCEPT !.count = v.t1.latch] ELSE [v.t1 EXCEPT !.running = FALSE]
      [] v.t1.running /\ v.t1.count > 0 -> [v.t1 EXCEPT !.count = @ - 1]
      [] OTHER -> v.t1
Timer2After(v) ==
    CASE v.t2.running /\ v.t2.count = 0 -> [v.t2 EXCEPT !.running = FALSE]
      [] v.t2.running /\ v.t2.count > 0 -> [v.t2 EXCEPT !.count = @ - 1]
      [] OTHER -> v.t2
Shifts(v) == v.shifting /\ v.bitsLeft > 0
Expired(v) ==
    {f \in Flags : \/ f = "T1" /\ v.t1.running /\ v.t1.count = 0
                   \/ f = "T2" /\ v.t2.running /\ v.t2.count = 0
                   \/ f = "SR" /\ Shifts(v) /\ v.bitsLeft = 1}
\* Mutant: a flag that a program has not seen is lost to the next one.
ViaOverwritten(v) ==
    [v EXCEPT !.t1 = Timer1After(v), !.t2 = Timer2After(v),
              !.bitsLeft = IF Shifts(v) THEN @ - 1 ELSE @,
              !.ifr = IF Expired(v) = {} THEN @ ELSE Expired(v)]
ViaTicked(v) ==
    [v EXCEPT !.t1 = Timer1After(v), !.t2 = Timer2After(v),
              !.bitsLeft = IF Shifts(v) THEN @ - 1 ELSE @,
              !.ifr = @ \cup Expired(v)]

IrqAsserted(vs) == \E i \in 1..2 : vs[i].ifr \cap vs[i].ier # {}

\* What has gone by, without the counters.
Ran(l, on) == IF on THEN [l EXCEPT !.age = @ + 1] ELSE l
LifeAfter(i) ==
    [t1 |-> IF via[i].t1.running /\ life[i].t1.age = life[i].t1.from
            THEN [from |-> via[i].t1.latch, age |-> 0] ELSE Ran(life[i].t1, via[i].t1.running),
     t2 |-> Ran(life[i].t2, via[i].t2.running),
     sr |-> Ran(life[i].sr, via[i].shifting /\ life[i].sr.age < life[i].sr.from)]
Due(i) ==
    {f \in Flags : \/ f = "T1" /\ via[i].t1.running /\ life[i].t1.age = life[i].t1.from
                   \/ f = "T2" /\ via[i].t2.running /\ life[i].t2.age = life[i].t2.from
                   \/ f = "SR" /\ via[i].shifting /\ life[i].sr.age + 1 = life[i].sr.from}

\* A register of a VIA is written, by the processor or by a memory command.
ViaWrites(i, v, cleared, l) ==
    /\ via' = [via EXCEPT ![i] = [v EXCEPT !.ifr = @ \ cleared]]
    /\ owed' = [owed EXCEPT ![i] = @ \ cleared]
    /\ life' = [life EXCEPT ![i] = l]
    /\ UNCHANGED <<fixed, power, c64, lines, irqLine, lamps, host, wanted, calm>>

Loaded(t, latch) == [t EXCEPT !.latch = latch, !.count = latch, !.running = TRUE]
LowByte(t, b) == (Byte * (t.latch \div Byte)) + b
HighByte(t, b) == (Byte * b) + (t.latch % Byte)
FromNow(n) == [from |-> n, age |-> 0]

writeTimerLow(i) ==
    \E b \in May.bytes :
        \/ ViaWrites(i, [via[i] EXCEPT !.t1.latch = LowByte(via[i].t1, b)], {}, life[i])
        \/ ViaWrites(i, [via[i] EXCEPT !.t2.latch = LowByte(via[i].t2, b)], {}, life[i])
writeTimer1High(i) ==
    \E b \in May.bytes : LET n == HighByte(via[i].t1, b)
        IN ViaWrites(i, [via[i] EXCEPT !.t1 = Loaded(@, n)], {"T1"}, [life[i] EXCEPT !.t1 = FromNow(n)])
writeTimer2High(i) ==
    \E b \in May.bytes : LET n == HighByte(via[i].t2, b)
        IN ViaWrites(i, [via[i] EXCEPT !.t2 = Loaded(@, n)], {"T2"}, [life[i] EXCEPT !.t2 = FromNow(n)])

\* Register 11: bit 6 clear is free-running here; bits 2 to 4 let the register shift.
writeAcr(i) ==
    \E acr \in May.acr :
        ViaWrites(i, [via[i] EXCEPT !.continuous = acr.bit6clear, !.shifting = acr.shifts], {}, life[i])
writeShift(i) ==
    /\ May.shift
    /\ ViaWrites(i, [via[i] EXCEPT !.bitsLeft = ShiftBits], {"SR"}, [life[i] EXCEPT !.sr = FromNow(ShiftBits)])
writeIfr(i) == \E f \in May.flags : ViaWrites(i, via[i], f, life[i])
writeIer(i) ==
    \E f \in May.flags :
        \/ ViaWrites(i, [via[i] EXCEPT !.ier = @ \cup f], {}, life[i])
        \/ ViaWrites(i, [via[i] EXCEPT !.ier = @ \ f], {}, life[i])
\* PRB and DDRB of VIA 1: an output bit of 0 pulls.
writePortB ==
    \E low \in May.portB : ViaWrites(1, [via[1] EXCEPT !.outLow = low], {}, life[1])

-----------------------------------------------------------------------------
(* DriveSignalModel.                                                       *)

HasPower(p) == p \in {"On", "SpinningUp", "Resetting"}
Less(n) == IF n > 0 THEN n - 1 ELSE 0
AtLeast(n, m) == IF n < m THEN m ELSE n

BeginTick(p) ==
    LET full == signal.window + 1 >= Window
    IN  [activity |-> Less(signal.activity), hold |-> Less(signal.hold),
         window |-> IF full \/ ~HasPower(p) THEN 0 ELSE signal.window + 1,
         edges |-> IF full \/ ~HasPower(p) THEN 0 ELSE signal.edges]
LedsAtBegin(p) ==
    [motor |-> HasPower(p),
     activity |-> HasPower(p) /\ signal.activity > 1,
     error |-> HasPower(p) /\ signal.hold > 0,
     load |-> IF signal.window + 1 >= Window THEN HasPower(p) /\ signal.edges >= EdgeLimit
              ELSE HasPower(p) /\ leds.load]

\* Reading and writing blocks show for a while.
noteFlux ==
    /\ May.flux
    /\ \E n \in {ActivityTicks, WriteTicks} : signal' = [signal EXCEPT !.activity = AtLeast(@, n)]
    /\ UNCHANGED <<fixed, power, c64, lines, via, irqLine, leds, status, host, wanted, life, owed, calm>>

-----------------------------------------------------------------------------
(* One half-cycle.                                                         *)

PowerLater(p) ==
    CASE p \in {"SpinningUp", "Resetting"} -> {p, "On"}
      [] p = "SpinningDown" -> {p, "Off"}
      [] OTHER -> {p}

\* applyDriveOpenCollectorReleaseModel.
Released(line, target) ==
    IF target THEN <<TRUE, delay>>
    ELSE IF line \in pulls /\ countdown[line] > 0 THEN <<TRUE, countdown[line] - 1>> ELSE <<FALSE, 0>>

\* The serial engine decides whether the drive is under command, and what it pulls of DATA.
Targets(command, serialPull) ==
    (IF command THEN {} ELSE via[1].outLow) \cup (IF serialPull THEN {"DATA"} ELSE {})

Cap(n) == IF n > delay + 1 THEN delay + 1 ELSE n
Forgotten == [l \in OutLines |-> delay + 1]

TickAway(p) ==
    /\ pulls' = {}
    /\ port' = FromHost(HostLines(seen))
    /\ seen' = port'.in
    /\ leds' = LedsAtBegin(p)
    /\ signal' = [BeginTick(p) EXCEPT !.edges = @ + Cardinality(Edges(port.hostLatched, HostLines(seen)))]
    /\ wanted' = Forgotten
    /\ calm' = IF calm > ErrorHold THEN calm ELSE calm + 1
    /\ UNCHANGED <<countdown, via, irqLine, life, owed>>

TickOn ==
    \E command \in May.serial, serialPull \in May.serial, busy \in May.busy :
    \E target \in {Targets(command, serialPull)} :
        /\ via' = [i \in 1..2 |-> ViaTicked(via[i])]
        /\ life' = [i \in 1..2 |-> LifeAfter(i)]
        /\ owed' = [i \in 1..2 |-> owed[i] \cup Due(i)]
        /\ irqLine' = IrqAsserted(via')
        /\ pulls' = {l \in OutLines : Released(l, l \in target)[1]}
        /\ countdown' = [l \in OutLines |-> Released(l, l \in target)[2]]
        /\ wanted' = [l \in OutLines |-> IF l \in target THEN 0 ELSE Cap(wanted[l] + 1)]
        /\ port' = FromDrive(FromHost(HostLines(seen)), pulls')
        /\ seen' = port'.in
        /\ leds' = [LedsAtBegin("On") EXCEPT !.error = @ \/ status]
        /\ signal' = [BeginTick("On") EXCEPT
                        !.activity = IF busy THEN AtLeast(@, ActivityTicks \div 2) ELSE @,
                        !.hold = IF status THEN ErrorHold ELSE @,
                        !.edges = @ + Cardinality(Edges(port.hostLatched, HostLines(seen)))
                                    + Cardinality(Edges(port.driveLatched, pulls'))]
        /\ calm' = IF status THEN 0 ELSE IF calm > ErrorHold THEN calm ELSE calm + 1

tickIecHalfCycle ==
    /\ \E p \in PowerLater(power) :
        /\ power' = p
        /\ IF p = "On" THEN TickOn ELSE TickAway(p)
    /\ UNCHANGED <<fixed, c64, status, host>>

-----------------------------------------------------------------------------
(* The power of both, and the reset.                                       *)

\* powerOn, powerOff and reset of the controller; what the drive pulls stays for this tick.
setPower ==
    /\ power' \in May.powers
    /\ UNCHANGED <<fixed, c64, lines, via, irqLine, lamps, host, wanted, life, owed, calm>>

\* A C64 that goes away, or resets, leaves the drive idle and the lines high.
setC64PowerState ==
    /\ c64' \in May.c64
    /\ IF c64' = "On" THEN UNCHANGED <<lines, host, wanted>>
       ELSE /\ pulls' = {} /\ wanted' = Forgotten
            /\ port' = FromHost({}) /\ seen' = port'.in /\ host' = {}
            /\ UNCHANGED countdown
    /\ UNCHANGED <<fixed, power, via, irqLine, lamps, life, owed, calm>>

setStatus ==
    /\ status' \in May.status
    /\ UNCHANGED <<fixed, power, c64, lines, via, irqLine, signal, leds, host, wanted, life, owed, calm>>

FreshTimer == [count |-> Byte * Byte - 1, latch |-> Byte * Byte - 1, running |-> FALSE]
FreshVia == [t1 |-> FreshTimer, continuous |-> TRUE, t2 |-> FreshTimer, shifting |-> FALSE,
             bitsLeft |-> 0, ifr |-> {}, ier |-> {}, outLow |-> {}]
FreshPort == [in |-> {}, out |-> {}, hostLatched |-> {}, driveLatched |-> {}]
FreshSignal == [activity |-> 0, hold |-> 0, window |-> 0, edges |-> 0]
Dark == [motor |-> FALSE, activity |-> FALSE, error |-> FALSE, load |-> FALSE]
FreshLife == [t1 |-> FromNow(Byte * Byte - 1), t2 |-> FromNow(Byte * Byte - 1), sr |-> FromNow(0)]

\* What the drive pulls and what it has seen of the bus outlive a reset until the next tick,
\* and so does the processor's interrupt line.
reset ==
    /\ May.reset
    /\ port' = FreshPort
    /\ countdown' = [l \in OutLines |-> 0]
    /\ via' = [i \in 1..2 |-> FreshVia]
    /\ signal' = FreshSignal /\ leds' = Dark /\ status' = FALSE
    /\ life' = [i \in 1..2 |-> FreshLife]
    /\ owed' = [i \in 1..2 |-> {}]
    /\ calm' = ErrorHold + 1
    /\ wanted' = [l \in OutLines |-> IF l \in pulls THEN delay ELSE delay + 1]
    /\ UNCHANGED <<fixed, power, c64, seen, pulls, irqLine, host>>

Init ==
    /\ plan \in DOMAIN Plans
    /\ delay \in May.delays
    /\ power = "On" /\ c64 = "On"
    /\ seen = {} /\ port = FreshPort
    /\ pulls = {} /\ countdown = [l \in OutLines |-> 0]
    /\ via = [i \in 1..2 |-> FreshVia] /\ irqLine = FALSE
    /\ signal = FreshSignal /\ leds = Dark /\ status = FALSE
    /\ host = {} /\ wanted = Forgotten
    /\ life = [i \in 1..2 |-> FreshLife] /\ owed = [i \in 1..2 |-> {}]
    /\ calm = ErrorHold + 1

Next ==
    \/ tickIecHalfCycle
    \/ setIecLines
    \/ \E i \in May.vias :
        \/ writeTimerLow(i) \/ writeTimer1High(i) \/ writeTimer2High(i)
        \/ writeAcr(i) \/ writeShift(i) \/ writeIfr(i) \/ writeIer(i)
    \/ writePortB
    \/ noteFlux
    \/ setPower \/ setC64PowerState \/ setStatus \/ reset

Spec == Init /\ [][Next]_vars

-----------------------------------------------------------------------------
(* Properties.                                                             *)

\* Every variable has the values the program's types allow.
TypeOK ==
    /\ power \in Powers /\ seen \subseteq Lines /\ pulls \subseteq OutLines
    /\ \A i \in 1..2 : via[i].t1.count < Byte * Byte /\ via[i].t2.latch < Byte * Byte
                       /\ via[i].ifr \subseteq Flags /\ via[i].bitsLeft <= ShiftBits
    /\ signal.activity <= WriteTicks /\ signal.hold <= ErrorHold /\ signal.window < Window

\* A drive pulls a line exactly as long as it was wanted within the release delay: a pull
\* never outlives it, whatever power, commands and resets come between.
PullsExact == pulls = {l \in OutLines : wanted[l] <= delay}

\* The drive acts on the lines as the C64 has put them, resets and power cycles in between.
SeesTheBus == seen = host

\* A running timer has its number of ticks left, from the time it was loaded or began again,
\* whatever was written to its latch.
TimersOnTime ==
    \A i \in 1..2 :
        /\ via[i].t1.running => via[i].t1.count + life[i].t1.age = life[i].t1.from
        /\ via[i].t2.running => via[i].t2.count + life[i].t2.age = life[i].t2.from

\* The flags are those that fell due and that no program has taken back since.
FlagsKept == \A i \in 1..2 : via[i].ifr = owed[i]

\* The error LED is lit while the drive has power, from the tick an error was noted in until
\* the hold is over.
ErrorShows == leds.error <=> leds.motor /\ calm <= ErrorHold

\* Drive board: the drive pulls what its programs ask for and sees what is on the bus, timers
\* run out on time, no flag is lost, and an error shows long enough.
BoardKeeps ==
    /\ TypeOK
    /\ PullsExact /\ SeesTheBus /\ TimersOnTime
    /\ FlagsKept /\ ErrorShows

================================================================================
