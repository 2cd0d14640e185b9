----------------------------- MODULE IecBusDomain -----------------------------
(***************************************************************************)
(* The event-driven serial bus between the C64 and its drives              *)
(* (struct IecBusDomain, src/iec_bridge.hpp): two clock domains, a queue   *)
(* of timed events that carries the pulls of both sides to the wires and   *)
(* the wires back to both sides with latencies, and a line model that      *)
(* delays the rise of a released line.                                     *)
(*                                                                         *)
(* Times are relative to nowUnits: when, nextC64 and nextDrive count down  *)
(* to 0 as nowUnits advances and lowFor counts up from the fall of a line, *)
(* so that executions of any length have finitely many states.  The lines  *)
(* are active low: a set of lines is the set of those that are low.        *)
(*                                                                         *)
(* The endpoints are free to pull what they like, in their own tick or     *)
(* between two calls: the interfaces allow both.  The pulls of the C64's   *)
(* own endpoint (CIA2's port, which its CPU writes) change between calls   *)
(* only, and those of an endpoint of the tests in its tick too.  The       *)
(* analog line solver, the cause and delay of an edge, the trace and the   *)
(* counters of the runtime statistics are abstracted.                      *)
(***************************************************************************)
EXTENDS Integers, FiniteSets, Sequences, SequencesExt

CONSTANTS
    HostLines, DeviceLines,   \* lines the C64 and a device can pull
    Devices,                  \* endpoints that can be attached
    PrimaryDevice,            \* the one the constructor attaches
    C64Period,                \* C64_HALF_PERIOD_UNITS
    DrivePeriods,             \* results of nextDrivePeriodUnits: drift and dither
    C64ToBus, DriveToBus, BusToC64, BusToDrive,   \* linkLatency... plus node skew
    Jitter,                   \* linkJitterUnits
    LineModelEnabled,
    MinLow, ReleaseDelay      \* per line: min low pulse, release delay

Lines == {"atn", "clk", "data"}

ASSUME LineAssumption ==
    /\ HostLines \subseteq Lines /\ DeviceLines \subseteq {"clk", "data"}
    /\ PrimaryDevice \in Devices

ASSUME TimingAssumption ==
    /\ C64Period \in Nat \ {0}
    /\ DrivePeriods \subseteq Nat \ {0} /\ DrivePeriods # {}
    /\ {C64ToBus, DriveToBus, BusToC64, BusToDrive, Jitter} \subseteq Nat
    /\ LineModelEnabled \in BOOLEAN
    /\ MinLow \in [Lines -> Nat] /\ ReleaseDelay \in [Lines -> Nat]

VARIABLES
    pc,              \* where tickHalfCycle is, or "outside" between two calls
    nextC64,         \* nextC64Units - nowUnits
    nextDrive,       \* nextDriveUnits - nowUnits
    events,          \* the priority queue, in the order it pops
    line,            \* atnModel, clkModel, dataModel and the linkLine...High flags
    linkC64,         \* linkC64Pull...
    linkDrive,       \* linkDrivePull...
    c64Enabled, driveEnabled,
    pendingOwner,    \* pendingEdgeOwner
    commit,          \* owner of the last edge committed at nowUnits, or NoCommit
    hostPull,        \* lines the host endpoint pulls (deriveSignals)
    hostSeen,        \* lines the host endpoint last saw low (applyInputs)
    attached,        \* attachedDevices
    devPull,         \* getPullCLK, getPullDATA of each device
    devSeen,         \* lines each device last saw low (setLines)
    unsent           \* history: the sides whose pulls changed where no tick compares
                     \* them, since they were last sent

clockVars  == <<nextC64, nextDrive>>
wireVars   == <<line, linkC64, linkDrive, pendingOwner, commit>>
domainVars == <<c64Enabled, driveEnabled>>
hostVars   == <<hostPull, hostSeen>>
devVars    == <<attached, devPull, devSeen>>
vars == <<pc, clockVars, events, wireVars, domainVars, hostVars, devVars, unsent>>

Places   == {"outside", "advance", "drive", "host", "return"}
Kinds    == {"c64Pulls", "drivePulls", "rise", "toDrives", "toC64"}
Owners   == {"None", "C64", "Drive", "LineModel"}
Sides    == {"c64", "drives"}
NoCommit == "NoCommit"

\* low is the pulls an event carries, or the line that a rise event is for; a
\* rise event is not live when its generation is not the line's any more.
EventType == [when : Nat, kind : Kinds, low : SUBSET Lines, live : BOOLEAN]

\* lowFor counts up to one unit more than the rise time (LongestLow), which tells a
\* line that may rise from one that is late; it means something while the line is low.
LineType == [high : BOOLEAN, lowFor : Nat, pending : BOOLEAN]

HighLine == [high |-> TRUE, lowFor |-> 0, pending |-> FALSE]
FallenLine == [high |-> FALSE, lowFor |-> 0, pending |-> FALSE]

-----------------------------------------------------------------------------
(* The event queue *)

Event(kind, low, delay) == [when |-> delay, kind |-> kind, low |-> low, live |-> TRUE]

\* events.push: the queue is ordered by time, then by the order of scheduling.
Schedule(q, ev) ==
    InsertAt(q, 1 + Cardinality({i \in DOMAIN q : q[i].when =< ev.when}), ev)

\* linkDelayWithJitter
LinkDelays(base) == {IF base + j = 0 THEN 1 ELSE base + j : j \in 0 .. Jitter}

Due == events # <<>> /\ Head(events).when = 0

\* A generation passes: the rise events of l that are queued are dead.
Outdate(q, l) ==
    [i \in DOMAIN q |->
       IF q[i].kind = "rise" /\ q[i].low = {l} THEN [q[i] EXCEPT !.live = FALSE] ELSE q[i]]

-----------------------------------------------------------------------------
(* The lines *)

LowLines(ln) == {l \in Lines : ~ ln[l].high}

AnyDrivePull(at, pull) == UNION {pull[d] : d \in at}

RiseTime(l) == MinLow[l] + ReleaseDelay[l]

LongestLow(l) == RiseTime(l) + 1

\* Mutant: a released line rises at once.
LineAfterInstant(ln, l, low) == IF l \in low THEN FallenLine ELSE HighLine

\* applyLineTimingModel, the line: a low line that nobody pulls rises when it has
\* been low for its rise time, and until then has a rise event pending.
LineAfter(ln, l, low) ==
    IF ~ LineModelEnabled
    THEN IF l \in low THEN FallenLine ELSE HighLine
    ELSE IF l \in low
    THEN IF ln[l].high THEN FallenLine ELSE [ln[l] EXCEPT !.pending = FALSE]
    ELSE IF ln[l].high \/ ln[l].lowFor >= RiseTime(l) THEN HighLine
    ELSE [ln[l] EXCEPT !.pending = TRUE]

\* Mutant: pulling a line again leaves its rise event pending.
LinesAfterPending(ln, low) ==
    [l \in Lines |-> IF l \in low /\ ~ ln[l].high THEN ln[l] ELSE LineAfter(ln, l, low)]

LinesAfter(ln, low) == [l \in Lines |-> LineAfter(ln, l, low)]

\* Mutant: a release is left to the next settling of the bus.
QueueAfterWithoutRise(q, ln, l, low) == IF l \in low THEN Outdate(q, l) ELSE q

\* Mutant: the rise time starts when the line is released.
QueueAfterFromRelease(q, ln, l, low) ==
    IF ~ LineModelEnabled THEN q
    ELSE IF l \in low THEN Outdate(q, l)
    ELSE IF LineAfter(ln, l, low).pending /\ ~ ln[l].pending
    THEN Schedule(Outdate(q, l), Event("rise", {l}, RiseTime(l)))
    ELSE q

\* applyLineTimingModel, the queue: pulling a line outdates its rise event,
\* releasing it schedules one, unless one is pending already (scheduleRiseReeval).
QueueAfter(q, ln, l, low) ==
    IF ~ LineModelEnabled THEN q
    ELSE IF l \in low THEN Outdate(q, l)
    ELSE IF LineAfter(ln, l, low).pending /\ ~ ln[l].pending
    THEN Schedule(Outdate(q, l), Event("rise", {l}, RiseTime(l) - ln[l].lowFor))
    ELSE q

QueueAfterLines(q, ln, low) ==
    QueueAfter(QueueAfter(QueueAfter(q, ln, "atn", low), ln, "clk", low), ln, "data", low)

\* settleBusAndPropagateSamples and applyTemporalBusContract: the wires are the
\* wired AND of the pulls, and a change is committed and sent to both sides.
SettleBus(q, ln, c64, drive, owner) ==
    LET low == c64 \cup drive
        after == LinesAfter(ln, low)
        settled == QueueAfterLines(q, ln, low)
    IN  /\ line' = after
        /\ \/ /\ LowLines(after) = LowLines(ln)
              /\ events' = settled
              /\ pendingOwner' = owner
              /\ UNCHANGED commit
           \/ /\ LowLines(after) # LowLines(ln)
              /\ \E toDrives \in LinkDelays(BusToDrive), toC64 \in LinkDelays(BusToC64) :
                   events' = Schedule(Schedule(settled, Event("toDrives", {}, toDrives)),
                                      Event("toC64", {}, toC64))
              /\ commit' = owner
              /\ pendingOwner' = "None"

-----------------------------------------------------------------------------
(* tickHalfCycle *)

\* The call.
TickHalfCycle ==
    /\ pc = "outside"
    /\ pc' = "advance"
    /\ UNCHANGED <<clockVars, events, wireVars, domainVars, hostVars, devVars, unsent>>

\* Mutant: the loop goes from tick to tick.
NextTimeOfTicks == IF nextDrive < nextC64 THEN nextDrive ELSE nextC64

NextTime ==
    LET tick == IF nextDrive < nextC64 THEN nextDrive ELSE nextC64
    IN  IF events # <<>> /\ Head(events).when < tick THEN Head(events).when ELSE tick

\* A line has been low for t more units.
Aged(l, t) ==
    [line[l] EXCEPT !.lowFor = IF line[l].high THEN 0
                               ELSE IF line[l].lowFor + t > LongestLow(l) THEN LongestLow(l)
                               ELSE line[l].lowFor + t]

\* nowUnits = nextTime
Advance ==
    /\ pc = "advance"
    /\ pc' = "drive"
    /\ nextC64' = nextC64 - NextTime
    /\ nextDrive' = nextDrive - NextTime
    /\ events' = [i \in DOMAIN events |-> [events[i] EXCEPT !.when = @ - NextTime]]
    /\ line' = [l \in Lines |-> Aged(l, NextTime)]
    /\ commit' = IF NextTime = 0 THEN commit ELSE NoCommit
    /\ UNCHANGED <<linkC64, linkDrive, pendingOwner, domainVars, hostVars, devVars, unsent>>

Running == pc \in {"drive", "host", "return"}

\* One turn of executeTimedEventsAtNow, for the event at the head of the queue.
RunC64Pulls ==
    /\ Running /\ Due /\ Head(events).kind = "c64Pulls"
    /\ linkC64' = Head(events).low
    /\ SettleBus(Tail(events), line, linkC64', linkDrive, "C64")
    /\ UNCHANGED <<pc, clockVars, linkDrive, domainVars, hostVars, devVars, unsent>>

RunDrivePulls ==
    /\ Running /\ Due /\ Head(events).kind = "drivePulls"
    /\ linkDrive' = Head(events).low
    /\ SettleBus(Tail(events), line, linkC64, linkDrive', "Drive")
    /\ UNCHANGED <<pc, clockVars, linkC64, domainVars, hostVars, devVars, unsent>>

\* A rise event of an earlier generation does nothing.
RunRise ==
    /\ Running /\ Due /\ Head(events).kind = "rise"
    /\ \E l \in Head(events).low :
         \/ /\ Head(events).live /\ line[l].pending
            /\ SettleBus(Tail(events), [line EXCEPT ![l].pending = FALSE],
                         linkC64, linkDrive, "LineModel")
         \/ /\ ~ (Head(events).live /\ line[l].pending)
            /\ events' = Tail(events)
            /\ UNCHANGED <<line, pendingOwner, commit>>
    /\ UNCHANGED <<pc, clockVars, linkC64, linkDrive, domainVars, hostVars, devVars, unsent>>

\* Mutant: only the primary device is told.
RunToPrimary ==
    /\ Running /\ Due /\ Head(events).kind = "toDrives"
    /\ events' = Tail(events)
    /\ devSeen' = [devSeen EXCEPT ![PrimaryDevice] = LowLines(line)]
    /\ UNCHANGED <<pc, clockVars, wireVars, domainVars, hostVars, attached, devPull, unsent>>

\* The lines are read when a sample arrives, not when it was sent.
RunToDrives ==
    /\ Running /\ Due /\ Head(events).kind = "toDrives"
    /\ events' = Tail(events)
    /\ devSeen' = [d \in Devices |-> IF d \in attached THEN LowLines(line) ELSE devSeen[d]]
    /\ UNCHANGED <<pc, clockVars, wireVars, domainVars, hostVars, attached, devPull, unsent>>

RunToC64 ==
    /\ Running /\ Due /\ Head(events).kind = "toC64"
    /\ events' = Tail(events)
    /\ hostSeen' = LowLines(line)
    /\ UNCHANGED <<pc, clockVars, wireVars, domainVars, hostPull, devVars, unsent>>

\* Mutant: the early return of a disabled domain comes before its next tick is set.
DriveTicksWhenEnabled == IF driveEnabled THEN DrivePeriods ELSE {0}

\* nextDriveUnits += nextDrivePeriodUnits(), whether the domain is enabled or not.
DriveTicks == DrivePeriods

\* tickDriveDomainOnce: every device ticks, and a change of what they pull
\* together is sent to the wires.
TickDriveDomain ==
    /\ pc = "drive" /\ ~ Due /\ nextDrive = 0
    /\ pc' = "host"
    /\ nextDrive' \in DriveTicks
    /\ \/ /\ ~ driveEnabled
          /\ UNCHANGED <<events, devPull, unsent>>
       \/ /\ driveEnabled
          /\ \E pull \in [attached -> SUBSET DeviceLines] :
               devPull' = [d \in Devices |-> IF d \in attached THEN pull[d] ELSE devPull[d]]
          /\ IF AnyDrivePull(attached, devPull') = AnyDrivePull(attached, devPull)
             THEN UNCHANGED <<events, unsent>>
             ELSE /\ \E delay \in LinkDelays(DriveToBus) :
                       events' = Schedule(events,
                         Event("drivePulls", AnyDrivePull(attached, devPull'), delay))
                  /\ unsent' = unsent \ {"drives"}
    /\ UNCHANGED <<nextC64, wireVars, domainVars, hostVars, attached, devSeen>>

SkipDriveDomain ==
    /\ pc = "drive" /\ ~ Due /\ nextDrive # 0
    /\ pc' = "host"
    /\ UNCHANGED <<clockVars, events, wireVars, domainVars, hostVars, devVars, unsent>>

\* tickC64DomainOnce.  The tick of CIA2's endpoint changes no pull (hostPull' =
\* hostPull is one of the choices); an endpoint that does is heard.
TickC64Domain ==
    /\ pc = "host" /\ ~ Due /\ nextC64 = 0
    /\ pc' = "return"
    /\ nextC64' = C64Period
    /\ \/ /\ ~ c64Enabled
          /\ UNCHANGED <<events, hostPull, unsent>>
       \/ /\ c64Enabled
          /\ hostPull' \in SUBSET HostLines
          /\ IF hostPull' = hostPull THEN UNCHANGED <<events, unsent>>
             ELSE /\ \E delay \in LinkDelays(C64ToBus) :
                       events' = Schedule(events, Event("c64Pulls", hostPull', delay))
                  /\ unsent' = unsent \ {"c64"}
    /\ UNCHANGED <<nextDrive, wireVars, domainVars, hostSeen, devVars>>

\* The loop goes on until the C64 has ticked.
SkipC64Domain ==
    /\ pc = "host" /\ ~ Due /\ nextC64 # 0
    /\ pc' = "advance"
    /\ UNCHANGED <<clockVars, events, wireVars, domainVars, hostVars, devVars, unsent>>

Return ==
    /\ pc = "return" /\ ~ Due
    /\ pc' = "outside"
    /\ UNCHANGED <<clockVars, events, wireVars, domainVars, hostVars, devVars, unsent>>

-----------------------------------------------------------------------------
(* What happens between two calls of tickHalfCycle *)

\* Mutant: what the device pulls already is not put on the wires.
AttachDeviceSilently(d) ==
    /\ pc = "outside"
    /\ d \notin attached
    /\ attached' = attached \cup {d}
    /\ devSeen' = [devSeen EXCEPT ![d] = LowLines(line)]
    /\ UNCHANGED <<pc, clockVars, events, wireVars, domainVars, hostVars, devPull, unsent>>

\* attachDeviceEndpoint
AttachDevice(d) ==
    /\ pc = "outside"
    /\ d \notin attached
    /\ attached' = attached \cup {d}
    /\ devSeen' = [devSeen EXCEPT ![d] = LowLines(line)]
    /\ \E delay \in LinkDelays(DriveToBus) :
         events' = Schedule(events, Event("drivePulls", AnyDrivePull(attached', devPull), delay))
    /\ unsent' = unsent \ {"drives"}
    /\ UNCHANGED <<pc, clockVars, wireVars, domainVars, hostVars, devPull>>

\* setC64DomainEnabled.  Turning the C64 off releases its pulls at once; pulls
\* that are on their way still arrive, and turning it on derives nothing.
DisableC64Domain ==
    /\ pc = "outside"
    /\ c64Enabled' = FALSE
    /\ linkC64' = {}
    /\ SettleBus(events, line, {}, linkDrive, pendingOwner)
    /\ unsent' = unsent \cup {"c64"}
    /\ UNCHANGED <<pc, clockVars, linkDrive, driveEnabled, hostVars, devVars>>

EnableC64Domain ==
    /\ pc = "outside"
    /\ c64Enabled' = TRUE
    /\ UNCHANGED <<pc, clockVars, events, wireVars, driveEnabled, hostVars, devVars, unsent>>

SetDriveDomainEnabled(enabled) ==
    /\ pc = "outside"
    /\ driveEnabled' = enabled
    /\ UNCHANGED <<pc, clockVars, events, wireVars, c64Enabled, hostVars, devVars, unsent>>

\* The CPU writes a CIA port, or a drive changes its pulls, outside a tick: the
\* domain compares pulls across a tick only, and schedules nothing.
ChangePullsOutside ==
    /\ pc = "outside"
    /\ \/ /\ hostPull' \in SUBSET HostLines \ {hostPull}
          /\ unsent' = unsent \cup {"c64"}
          /\ UNCHANGED devPull
       \/ /\ \E d \in Devices, pull \in SUBSET DeviceLines :
               devPull' = [devPull EXCEPT ![d] = pull]
          /\ unsent' = IF AnyDrivePull(attached, devPull') = AnyDrivePull(attached, devPull)
                       THEN unsent ELSE unsent \cup {"drives"}
          /\ UNCHANGED hostPull
    /\ UNCHANGED <<pc, clockVars, events, wireVars, domainVars, hostSeen, attached, devSeen>>

-----------------------------------------------------------------------------

\* The constructor and bootstrapIecLink: the wires start as the pulls are.
Init ==
    /\ pc = "outside"
    /\ nextC64 = 0 /\ nextDrive = 0
    /\ events = <<>>
    /\ c64Enabled = TRUE /\ driveEnabled = TRUE
    /\ pendingOwner = "None" /\ commit = NoCommit
    /\ attached = {PrimaryDevice}
    /\ hostPull \in SUBSET HostLines
    /\ devPull \in [Devices -> SUBSET DeviceLines]
    /\ linkC64 = hostPull
    /\ linkDrive = devPull[PrimaryDevice]
    /\ line = [l \in Lines |-> IF l \in linkC64 \cup linkDrive THEN FallenLine ELSE HighLine]
    /\ hostSeen = linkC64 \cup linkDrive
    /\ devSeen = [d \in Devices |-> IF d = PrimaryDevice THEN hostSeen ELSE {}]
    /\ unsent = {}

RunEvent == RunC64Pulls \/ RunDrivePulls \/ RunRise \/ RunToDrives \/ RunToC64

TickStep ==
    \/ Advance \/ RunEvent
    \/ TickDriveDomain \/ SkipDriveDomain
    \/ TickC64Domain \/ SkipC64Domain
    \/ Return

\* A user's loop: calls, and between them devices attached and pulls changed.
Next ==
    \/ TickHalfCycle \/ TickStep
    \/ \E d \in Devices : AttachDevice(d)
    \/ ChangePullsOutside

\* Everything a user of the domain can do between two calls.
FullNext ==
    \/ Next
    \/ DisableC64Domain \/ EnableC64Domain
    \/ \E enabled \in BOOLEAN : SetDriveDomainEnabled(enabled)

Spec == Init /\ [][Next]_vars
FullSpec == Init /\ [][FullNext]_vars

\* A call of tickHalfCycle runs to its end.
CallsRun == WF_vars(TickStep)

\* The user never stops calling: an assumption on the caller, not a fact of the
\* program.  The KERNAL serial harness and the tests call for as long as they run;
\* the console's own loop moves its lines without the domain.
CallsContinue == WF_vars(TickHalfCycle)

FairSpec == FullSpec /\ CallsRun /\ CallsContinue

-----------------------------------------------------------------------------
(* Properties *)

\* Every variable has its type, and the queue is in order.
TypeOK ==
    /\ pc \in Places
    /\ nextC64 \in Nat /\ nextDrive \in Nat
    /\ events \in Seq(EventType)
    /\ \A i, j \in DOMAIN events : i < j => events[i].when =< events[j].when
    /\ line \in [Lines -> LineType]
    /\ linkC64 \subseteq HostLines /\ linkDrive \subseteq DeviceLines
    /\ c64Enabled \in BOOLEAN /\ driveEnabled \in BOOLEAN
    /\ pendingOwner \in Owners /\ commit \in Owners \cup {NoCommit}
    /\ hostPull \subseteq HostLines /\ hostSeen \subseteq Lines
    /\ attached \subseteq Devices
    /\ devPull \in [Devices -> SUBSET DeviceLines]
    /\ devSeen \in [Devices -> SUBSET Lines]
    /\ unsent \subseteq Sides

Queued == {events[i] : i \in DOMAIN events}

\* Time never passes an event or a tick: when the loop turns no event is left
\* for this instant or an earlier one, and no domain misses its tick.
NothingOverdue ==
    /\ pc \in {"advance", "outside"} => \A ev \in Queued : ev.when > 0
    /\ pc \in {"host", "return"} => nextDrive > 0
    /\ pc = "return" => nextC64 > 0

\* The wires follow the pulls: a line is low while somebody holds it, whatever
\* rise events of earlier pulses are still queued, and a released line is never
\* left low: a rise event of its current generation is queued for the time it may
\* rise.
LinesFollowPulls ==
    \A l \in Lines : ~ line[l].high <=>
      \/ l \in linkC64 \cup linkDrive
      \/ /\ line[l].pending
         /\ \E ev \in Queued :
              /\ ev.kind = "rise" /\ ev.low = {l} /\ ev.live
              /\ ev.when = RiseTime(l) - line[l].lowFor

\* Whoever sees other levels than the wires have is about to be told, also when
\* it was attached while samples were on their way.
SamplesOnTheirWay ==
    /\ hostSeen # LowLines(line) => \E ev \in Queued : ev.kind = "toC64"
    /\ (\E d \in attached : devSeen[d] # LowLines(line)) =>
         \E ev \in Queued : ev.kind = "toDrives"

\* The pulls that the wires are left with when the queue has run empty of pull
\* events of this kind.
LastPulls(kind, link) ==
    LET last == SelectLastInSubSeq(events, 1, Len(events), LAMBDA ev : ev.kind = kind)
    IN  IF last = 0 THEN link ELSE events[last].low

\* The wires end up with the pulls a side has, however close to each other the
\* pulls changed and whoever was attached in between, except for one loss: pulls
\* that changed between two calls, as those of CIA2 do, wait for the side to change
\* its pulls in a tick, or for the next device to be attached.
PullsOnTheirWay ==
    /\ "c64" \notin unsent => LastPulls("c64Pulls", linkC64) = hostPull
    /\ "drives" \notin unsent =>
         LastPulls("drivePulls", linkDrive) = AnyDrivePull(attached, devPull)

\* With a rise time longer than the way to the drives, every attached drive sees
\* a low pulse before the line is high again, however short the pull was.
PulseIsSeen ==
    [][\A l \in Lines : ~ line[l].high /\ line'[l].high =>
         \A d \in attached : l \in devSeen[d]]_vars

\* A call of tickHalfCycle returns.
CallsReturn == pc # "outside" ~> pc = "outside"

\* A released line rises, unless it is pulled again first.
ReleasedLineRises ==
    \A l \in Lines : l \notin linkC64 \cup linkDrive ~>
                     line[l].high \/ l \in linkC64 \cup linkDrive

\* The domain implements the open-collector bus: its wires are the wires there, and
\* the time a line is low matters while it is low and rises are delayed.
Wires == INSTANCE WiredBus WITH
    LowTime <- [l \in Lines |-> IF LineModelEnabled THEN RiseTime(l) ELSE 0],
    LongestStep <- C64Period,
    hostPulls <- linkC64,
    devicePulls <- linkDrive,
    low <- LowLines(line),
    lowFor <- [l \in Lines |->
                 IF line[l].high \/ ~ LineModelEnabled \/ RiseTime(l) = 0 THEN 0
                 ELSE line[l].lowFor],
    hostSees <- hostSeen,
    deviceSees <- devSeen

\* With all its events, generations and latencies the domain is a wired bus: no
\* released line rises early, and no time passes that a line had to rise in.
ImplementsWiredBus == Wires!Spec

\* LEVEL5_ROADMAP.md:113, "Guard metric tracks and rejects double-commit on the same
\* timestamp": no second edge is committed at the time of the last one.
NoDoubleCommit ==
    [][LowLines(line') # LowLines(line) => commit = NoCommit]_vars

\* LEVEL5_ROADMAP.md:134, "open-collector release latency and minimum low-pulse
\* behavior": a line whose last pull goes away does not rise in the same instant.
ReleaseIsDelayed ==
    [][\A l \in linkC64 \cup linkDrive :
         l \notin linkC64' \cup linkDrive' /\ ReleaseDelay[l] > 0 => ~ line'[l].high]_vars

=============================================================================
