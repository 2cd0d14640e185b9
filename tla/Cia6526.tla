------------------------------- MODULE Cia6526 -------------------------------
(***************************************************************************)
(* CIA6526 and its CIA6526CycleCore, half-cycle by half-cycle: two timers, *)
(* the time-of-day clock with its alarm, the serial register, the FLAG pin *)
(* and the interrupt register they share.  The ports, registers 0 to 3,    *)
(* are storage and are left out; a byte of a timer has TimerByte values, a *)
(* serial byte has Bits bits, the most significant first.                  *)
(***************************************************************************)
EXTENDS Naturals, Sequences

CONSTANTS
    Chips,                          \* makeRevisionProfile
    CiaPrograms,                    \* what the processor and the pins may do, by name
    TimerByte,                      \* 256
    Bits,                           \* 8
    Tenths, Sixty, Twelve,          \* 10, 60, 12: the wheels of the clock
    Wrap                            \* 2^16, where the divider wraps

VARIABLES
    chip, ciaProgram,
    half,                           \* halfPhase
    timer,                          \* [1..2 -> latch, count, started, oneShot]
    tod, alarm, latch,              \* times: hours, pm, minutes, seconds, tenths
    latched,                        \* todReadLatched
    running, divider,               \* todRunning, todTickDivider
    serial,                         \* the serial registers and counters
    control,                        \* bit 6 of controlA, bit 7 of t2_ctrl
    pin, seenPin,                   \* CNT, SP, FLAG, and their last sampled levels
    icr, irq, ier, deferred         \* bits 0-4 and bit 7 of icr, ier, icrDeferredEvents

VARIABLES
    unread,                         \* history: events raised that no read has returned
    snap,                           \* history: the clock when a reader took the hours
    wrote,                          \* history: the time a program is writing
    sent, got                       \* history: bits of the byte that goes out, or comes in

clock == <<tod, alarm, latch, latched, running, divider>>
pins == <<pin, seenPin>>
interrupt == <<icr, irq, ier, deferred>>
settings == <<chip, ciaProgram>>
timeHistory == <<snap, wrote>>
bytes == <<sent, got>>
ciaVars == <<settings, half, timer, clock, serial, control, pins, interrupt, unread, timeHistory, bytes>>

Events == {"TA", "TB", "ALRM", "SP", "FLG"}

Allowed == CiaPrograms[ciaProgram]

\* What the theorems ask of the constants: wheels and bytes have a first value, and programs
\* write bytes and times.
ProgramOK(p) ==
    /\ p.stood \in BOOLEAN
    /\ p.chips \subseteq [todReload : Nat, clearsLatch : BOOLEAN, writeStops : BOOLEAN,
                         flagAtOnce : BOOLEAN, fallingEdge : BOOLEAN, shiftReload : Nat]
    /\ p.levels \subseteq [cnt : BOOLEAN, sp : BOOLEAN, flag : BOOLEAN]
    /\ \A i \in 1..2 : p.low[i] \subseteq 0..(TimerByte - 1) /\ p.high[i] \subseteq 0..(TimerByte - 1)
    /\ p.cra \subseteq [start : BOOLEAN, load : BOOLEAN, oneShot : BOOLEAN, out : BOOLEAN]
    /\ p.crb \subseteq [start : BOOLEAN, load : BOOLEAN, oneShot : BOOLEAN, alarm : BOOLEAN]
    /\ \A part \in DOMAIN p.time :
            \/ part = "hours" /\ p.time[part] \subseteq [hours : 1..Twelve, pm : BOOLEAN]
            \/ part \in {"minutes", "seconds"} /\ p.time[part] \subseteq 0..(Sixty - 1)
            \/ part = "tenths" /\ p.time[part] \subseteq 0..(Tenths - 1)
    /\ p.sdr \subseteq [1..Bits -> {0, 1}]
    /\ p.mask \subseteq [set : BOOLEAN, events : SUBSET Events]
CiaConstants ==
    /\ \A n \in {TimerByte, Bits, Tenths, Sixty, Twelve, Wrap} : n \in Nat \ {0}
    /\ \A n \in DOMAIN CiaPrograms : ProgramOK(CiaPrograms[n])

-----------------------------------------------------------------------------
(* The interrupt register.                                                 *)

\* Bit 7 is set by an enabled event and cleared when no enabled event is left.
IrqAfterEvents(new, was) == was \/ new \cap ier # {}
IrqOf(events, enabled) == events \cap enabled # {}

-----------------------------------------------------------------------------
(* The clock.                                                              *)

\* next > 12 becomes 1; coming to 12 turns am to pm.
NextHour(t) ==
    LET next == IF t.hours = Twelve THEN 1 ELSE t.hours + 1
    IN  [t EXCEPT !.hours = next, !.pm = IF next = Twelve THEN ~t.pm ELSE t.pm]

\* Each wheel carries into the next.
NextTime(t) ==
    IF t.tenths + 1 < Tenths THEN [t EXCEPT !.tenths = @ + 1]
    ELSE IF t.seconds + 1 < Sixty THEN [t EXCEPT !.tenths = 0, !.seconds = @ + 1]
    ELSE IF t.minutes + 1 < Sixty THEN [t EXCEPT !.tenths = 0, !.seconds = 0, !.minutes = @ + 1]
    ELSE NextHour([t EXCEPT !.tenths = 0, !.seconds = 0, !.minutes = 0])

\* The divider counts while the clock stands, too.
DividerUp == (divider + 1) % Wrap
ClockTicks == ~half /\ running /\ DividerUp >= chip.todReload

TodAfter == IF ClockTicks THEN NextTime(tod) ELSE tod
DividerAfter == IF half THEN divider ELSE IF ClockTicks THEN 0 ELSE DividerUp
AlarmEvents == IF ClockTicks /\ NextTime(tod) = alarm THEN {"ALRM"} ELSE {}

-----------------------------------------------------------------------------
(* The timers, in the half-cycle that begins a cycle.                      *)

TimerEvent == <<"TA", "TB">>
Underflows(i) == ~half /\ timer[i].started /\ timer[i].count = 0
TimerAfter ==
    [i \in 1..2 |->
        IF Underflows(i)
        THEN [timer[i] EXCEPT !.count = timer[i].latch, !.started = ~timer[i].oneShot]
        ELSE IF ~half /\ timer[i].started THEN [timer[i] EXCEPT !.count = @ - 1] ELSE timer[i]]
TimerEvents == {TimerEvent[i] : i \in {j \in 1..2 : Underflows(j)}}

-----------------------------------------------------------------------------
(* The serial register: one shift register and two bit counters.           *)

InputEdge ==
    IF chip.fallingEdge THEN seenPin.cnt /\ ~pin.cnt ELSE ~seenPin.cnt /\ pin.cnt
ShiftsIn == ~control.out /\ InputEdge
BitIn == IF pin.sp THEN 1 ELSE 0
ByteIn == ShiftsIn /\ serial.inCount + 1 = Bits

\* Timer 1 only lets the output run; its own divider clocks it, in the half-cycles that
\* begin a cycle.
OutputRuns == serial.busy /\ control.out /\ TimerAfter[1].started /\ ~half
ShiftsOut == OutputRuns /\ serial.divider = 0
ByteOut == ShiftsOut /\ serial.outCount + 1 = Bits

SerialAfter ==
    CASE ByteIn ->
            [serial EXCEPT !.sdr = Append(Tail(serial.shift), BitIn),
                           !.shift = [i \in 1..Bits |-> 0], !.inCount = 0]
      [] ShiftsIn /\ ~ByteIn ->
            [serial EXCEPT !.shift = Append(Tail(@), BitIn), !.inCount = @ + 1]
      [] ShiftsOut ->
            [serial EXCEPT !.shift = Append(Tail(@), 0), !.divider = chip.shiftReload,
                           !.busy = ~ByteOut, !.outCount = IF ByteOut THEN 0 ELSE @ + 1]
      [] OutputRuns /\ ~ShiftsOut -> [serial EXCEPT !.divider = @ - 1]
      [] OTHER -> serial
SerialEvents == IF ByteIn \/ ByteOut THEN {"SP"} ELSE {}

\* The bit that goes out stands on SP, where the other direction would read it.
PinAfter == IF ShiftsOut THEN [pin EXCEPT !.sp = Head(serial.shift) = 1] ELSE pin

SentAfter ==
    CASE ShiftsIn -> {}
      [] ShiftsOut -> {Append(s, Head(serial.shift)) : s \in sent}
      [] OTHER -> sent
GotAfter ==
    CASE ByteIn -> {<<>>}
      [] ShiftsIn /\ ~ByteIn -> {Append(g, BitIn) : g \in got}
      [] ShiftsOut -> got \cap {<<>>}
      [] OTHER -> got

-----------------------------------------------------------------------------
(* One half-cycle.                                                         *)

FlagFalls == seenPin.flag /\ ~pin.flag
FlagEvents == IF FlagFalls THEN {"FLG"} ELSE {}
Raised == FlagEvents \cup TimerEvents \cup AlarmEvents \cup SerialEvents

\* Deferred events show one half-cycle after they were raised; the flag of the later
\* revisions shows at once.
Shown == deferred \cup (IF chip.flagAtOnce THEN FlagEvents ELSE {})
DeferredAfter == IF chip.flagAtOnce THEN Raised \ FlagEvents ELSE Raised

tickHalfCycle ==
    /\ half' = ~half
    /\ icr' = icr \cup Shown
    /\ irq' = IrqAfterEvents(Shown, irq)
    /\ deferred' = DeferredAfter
    /\ timer' = TimerAfter
    /\ tod' = TodAfter
    /\ divider' = DividerAfter
    /\ serial' = SerialAfter
    /\ pin' = PinAfter
    /\ seenPin' = [cnt |-> pin.cnt, flag |-> pin.flag]
    /\ unread' = unread \cup Raised
    /\ sent' = SentAfter
    /\ got' = GotAfter
    /\ UNCHANGED <<settings, alarm, latch, latched, running, control, ier, timeHistory>>

-----------------------------------------------------------------------------
(* The pins and the registers.                                             *)

setPins ==
    /\ \E p \in Allowed.levels : pin' = p
    /\ UNCHANGED <<settings, half, timer, clock, serial, control, seenPin, interrupt, unread, timeHistory, bytes>>

\* What the clock's registers return.
TimeRead == IF latched THEN latch ELSE tod

readTodHours ==
    /\ "TH" \in Allowed.reads
    /\ latch' = tod
    /\ latched' = TRUE
    /\ snap' = {tod}
    /\ UNCHANGED <<settings, half, timer, tod, alarm, running, divider, serial, control, pins,
                   interrupt, unread, wrote, bytes>>

readTod10ths ==
    /\ "TT" \in Allowed.reads
    /\ latched' = (latched /\ ~chip.clearsLatch)
    /\ snap' = {}
    /\ UNCHANGED <<settings, half, timer, tod, alarm, latch, running, divider, serial, control, pins,
                   interrupt, unread, wrote, bytes>>

\* Mutant: what is deferred is cleared with what shows.
readIcrAndDeferred ==
    /\ "ICR" \in Allowed.reads
    /\ icr' = {} /\ deferred' = {}
    /\ irq' = FALSE
    /\ unread' = unread \ icr
    /\ UNCHANGED <<settings, half, timer, clock, serial, control, pins, ier, timeHistory, bytes>>
\* Everything that shows is returned and cleared; what is deferred stays.
readIcr ==
    /\ "ICR" \in Allowed.reads
    /\ icr' = {}
    /\ irq' = FALSE
    /\ unread' = unread \ icr
    /\ UNCHANGED <<settings, half, timer, clock, serial, control, pins, ier, deferred, timeHistory, bytes>>

\* Registers 4 to 7: the low byte goes to the latch, the high byte loads the count as well.
writeLatch(i) ==
    /\ \/ \E lo \in Allowed.low[i] :
            timer' = [timer EXCEPT ![i].latch = TimerByte * (@ \div TimerByte) + lo]
       \/ \E hi \in Allowed.high[i] :
            LET new == (TimerByte * hi) + (timer[i].latch % TimerByte)
            IN  timer' = [timer EXCEPT ![i].latch = new, ![i].count = new]
    /\ UNCHANGED <<settings, half, clock, serial, control, pins, interrupt, unread, timeHistory, bytes>>

TimerControlled(t, c) ==
    [t EXCEPT !.oneShot = c.oneShot, !.count = IF c.load THEN t.latch ELSE @, !.started = c.start]

writeControlA ==
    /\ \E c \in Allowed.cra :
        /\ timer' = [timer EXCEPT ![1] = TimerControlled(@, c)]
        /\ control' = [control EXCEPT !.out = c.out]
    /\ UNCHANGED <<settings, half, clock, serial, pins, interrupt, unread, timeHistory, bytes>>

writeControlB ==
    /\ \E c \in Allowed.crb :
        /\ timer' = [timer EXCEPT ![2] = TimerControlled(@, c)]
        /\ control' = [control EXCEPT !.alarm = c.alarm]
    /\ UNCHANGED <<settings, half, clock, serial, pins, interrupt, unread, timeHistory, bytes>>

\* Hours stop the clock of the 6526 and tenths start it.
WriteClock(t, stops, starts, w) ==
    /\ tod' = t
    /\ running' = ((running /\ ~(stops /\ chip.writeStops)) \/ (starts /\ chip.writeStops))
    /\ wrote' = w
    /\ UNCHANGED alarm
WriteAlarm(t) ==
    /\ alarm' = t
    /\ UNCHANGED <<tod, running, wrote>>

SetPart(t, part, v) ==
    IF part = "hours" THEN [t EXCEPT !.hours = v.hours, !.pm = v.pm] ELSE [t EXCEPT ![part] = v]

writeTime ==
    /\ \E part \in DOMAIN Allowed.time : \E v \in Allowed.time[part] :
        IF control.alarm THEN WriteAlarm(SetPart(alarm, part, v))
        ELSE WriteClock(SetPart(tod, part, v), part = "hours", part = "tenths",
                        CASE part = "hours" -> {SetPart(tod, part, v)}
                          [] part = "tenths" -> {}
                          [] OTHER -> {SetPart(w, part, v) : w \in wrote})
    /\ UNCHANGED <<settings, half, timer, latch, latched, divider, serial, control, pins, interrupt,
                   unread, snap, bytes>>

\* A byte that is written goes into the register the other direction shifts into.
writeSerial ==
    /\ \E b \in Allowed.sdr :
        /\ serial' = [serial EXCEPT !.sdr = b, !.shift = b, !.busy = TRUE, !.outCount = 0,
                                    !.divider = chip.shiftReload]
        /\ sent' = {<<>>}
    /\ got' = got \cap {<<>>}
    /\ UNCHANGED <<settings, half, timer, clock, control, pins, interrupt, unread, timeHistory>>

writeMask ==
    /\ \E w \in Allowed.mask :
        LET new == IF w.set THEN ier \cup w.events ELSE ier \ w.events
        IN  /\ ier' = new
            /\ irq' = IrqOf(icr, new)
    /\ UNCHANGED <<settings, half, timer, clock, serial, control, pins, icr, deferred, unread, timeHistory, bytes>>

\* The machine is set up when a program begins; that may have stopped the clock, by writing
\* the hours, of a chip on which they do.
CiaInit ==
    /\ ciaProgram \in DOMAIN CiaPrograms
    /\ chip \in CiaPrograms[ciaProgram].chips
    /\ half = FALSE
    /\ timer = [i \in 1..2 |-> [latch |-> TimerByte * TimerByte - 1, count |-> TimerByte * TimerByte - 1,
                               started |-> FALSE, oneShot |-> FALSE]]
    /\ tod = [hours |-> 1, pm |-> FALSE, minutes |-> 0, seconds |-> 0, tenths |-> 0]
    /\ alarm = [tod EXCEPT !.hours = 0]
    /\ latch = [tod EXCEPT !.hours = 0]
    /\ latched = FALSE
    /\ running = ~Allowed.stood
    /\ divider = 0
    /\ serial = [sdr |-> [i \in 1..Bits |-> 0], shift |-> [i \in 1..Bits |-> 0], inCount |-> 0,
                 busy |-> FALSE, outCount |-> 0, divider |-> 0]
    /\ control = [out |-> FALSE, alarm |-> FALSE]
    /\ pin = [cnt |-> TRUE, sp |-> TRUE, flag |-> TRUE]
    /\ seenPin = [cnt |-> TRUE, flag |-> TRUE]
    /\ icr = {} /\ irq = FALSE /\ ier = {} /\ deferred = {}
    /\ unread = {} /\ snap = {} /\ wrote = {} /\ sent = {} /\ got = {<<>>}

CiaNext ==
    \/ tickHalfCycle
    \/ setPins
    \/ readTodHours \/ readTod10ths \/ readIcr
    \/ \E i \in 1..2 : writeLatch(i)
    \/ writeControlA \/ writeControlB \/ writeTime \/ writeSerial \/ writeMask

CiaSpec == CiaInit /\ [][CiaNext]_ciaVars

-----------------------------------------------------------------------------
(* Properties.                                                             *)

ClockTimes == [hours : 0..Twelve, pm : BOOLEAN, minutes : 0..(Sixty - 1), seconds : 0..(Sixty - 1),
               tenths : 0..(Tenths - 1)]
SerialBytes == [1..Bits -> {0, 1}]

\* Every variable has the values the program's types and masks allow.
CiaTypeOK ==
    /\ \A i \in 1..2 : timer[i].latch \in 0..(TimerByte * TimerByte - 1) /\ timer[i].count <= TimerByte * TimerByte - 1
    /\ {tod, alarm, latch} \subseteq ClockTimes /\ tod.hours > 0
    /\ divider \in 0..(Wrap - 1)
    /\ {serial.sdr, serial.shift} \subseteq SerialBytes
    /\ serial.inCount \in 0..(Bits - 1) /\ serial.outCount \in 0..(Bits - 1)
    /\ serial.divider \in 0..chip.shiftReload
    /\ {icr, ier, deferred, unread} \subseteq SUBSET Events

\* Every event is returned by a read of the interrupt register after it was raised: a read
\* in the half-cycle in which it is deferred does not clear it.
EventsKept == unread \subseteq icr \cup deferred

\* Bit 7 tells what the enabled events say, whatever was written, read or raised.
Bit7Exact == irq = IrqOf(icr, ier)

\* From the read of the hours to the read of the tenths a program reads one time, whatever
\* the clock has done in between.
ReadsOneTime == \A t \in snap : TimeRead = t

\* From the hours to the tenths a 6526 holds the time that is being written.
SetsOneTime == chip.writeStops => \A t \in wrote : tod = t

\* The bits that went out and those still in the shift register are the byte written, unless
\* bits came in meanwhile.
SendsTheByte ==
    \A s \in sent :
        /\ serial.busy => serial.outCount = Len(s) /\ s \o SubSeq(serial.shift, 1, Bits - Len(s)) = serial.sdr
        /\ ~serial.busy => s = serial.sdr

\* The bits that came in stand at the end of the shift register, unless the program has
\* written a byte or sent bits meanwhile.
ReceivesTheBits ==
    \A g \in got : serial.inCount = Len(g) /\ SubSeq(serial.shift, Bits - Len(g) + 1, Bits) = g

\* CIA: no event is lost before a program has read it, bit 7 and the line say that an enabled
\* one is there, the clock is read and set as one time, and bytes pass the serial pins whole.
CiaKeeps ==
    /\ CiaTypeOK
    /\ EventsKept /\ Bit7Exact /\ ReadsOneTime
    /\ SetsOneTime /\ SendsTheByte /\ ReceivesTheBits

=============================================================================
