------------------------------- MODULE Console -------------------------------
(***************************************************************************)
(* The emulator console: the cables between the C64 and the drives, the    *)
(* commands that change them and the power, the presets, and the lines     *)
(* each end sees, delayed by the length of the path through the cables.    *)
(* The serial engine of a drive is DriveSerial and its power controller is *)
(* DriveUnit: a drive here pulls what it likes while it is on, and its     *)
(* spindle gets there in some tick.  What commands print is left out.      *)
(***************************************************************************)
EXTENDS Naturals, FiniteSets, Sequences

CONSTANTS
    Drives,                     \* 1..4, units 8 to 11
    Wires,                      \* ATN, CLK, DATA
    SegName,                    \* <<"SEG0", "SEG1", ...>>: what WIRE calls its n-th cable
    Profiles,                   \* [profile -> releaseDelayTicks = minLowPulseTicks]: 1, 2, 3
    Sessions,                   \* what the user types and how much, by name
    MaxStill                    \* bound on the history counter still

VARIABLES
    session, typed,             \* the session and how many commands it has had
    cables,                     \* [name, host, drives, profile], in the order of creation
    default,                    \* defaultCableName: {} or {name}
    mode,                       \* topologyModeOverride
    c64On,
    drivePower,                      \* of each drive
    presets,
    hostPull, drivePull,        \* what the C64's port and each drive pull low
    view                        \* hostLineDelay (0) and driveLineDelay

VARIABLES
    driven,                     \* history: the low lines of the latest sync
    still,                      \* history: syncs since these, or the topology, changed
    due                         \* history: the delay in force when each wait began

user == <<session, typed>>
wiring == <<cables, default, mode>>
consoleVars == <<user, wiring, c64On, drivePower, presets, hostPull, drivePull, view, driven, still, due>>

Host == 0
Ends == {Host} \cup Drives
Plan == Sessions[session]
PowerStates == {"Off", "SpinningUp", "On", "SpinningDown", "Resetting"}
Modes == {"Auto", "ForceSimple", "ForceDetailed"}

\* What the program's own limits say of the constants: the drives are numbered, two of them are
\* in the presets, a profile costs a number of ticks, and a user picks what the commands take.
SessionOK(s) ==
    /\ s.modes \subseteq Modes /\ s.slots \subseteq 1..3
    /\ s.hostPulls \subseteq SUBSET Wires /\ s.drivePulls \subseteq SUBSET Wires
ConsoleConstants ==
    /\ IsFiniteSet(Drives) /\ Drives = 1..Cardinality(Drives) /\ 2 \in Drives
    /\ \A p \in DOMAIN Profiles : Profiles[p] \in Nat
    /\ "PROFILE_SHORT" \in DOMAIN Profiles
    /\ SegName \in Seq(STRING) /\ MaxStill \in Nat
    /\ \A s \in DOMAIN Sessions : SessionOK(Sessions[s])

-----------------------------------------------------------------------------
(* The graph of the cables cs: the C64 is node 0, a drive its number, and  *)
(* the c-th cable the node after the drives.                               *)

CableNode(c) == Cardinality(Drives) + c
CableNodes(cs) == {CableNode(c) : c \in DOMAIN cs}
CableAt(cs, n) == cs[n - Cardinality(Drives)]
EndsOf(cable) == cable.drives \cup IF cable.host THEN {Host} ELSE {}

Neighbours(cs, n) ==
    IF n \in Ends THEN {c \in CableNodes(cs) : n \in EndsOf(CableAt(cs, c))} ELSE EndsOf(CableAt(cs, n))

\* An edge costs release plus pulse of its cable; the edges of a cable are alike.
CableWeight(cable) == 2 * Profiles[cable.profile]
EdgeWeight(cs, m, n) == CableWeight(IF m \in Ends THEN CableAt(cs, n) ELSE CableAt(cs, m))

\* Mutant: the first open node in number, however far.
FirstOpen(dist, open) == CHOOSE v \in open : \A u \in open : v <= u
\* The open node of least distance, the first of them in number.
NearestOpen(dist, open) ==
    CHOOSE v \in open : \A u \in open : dist[v] < dist[u] \/ (dist[v] = dist[u] /\ v <= u)

\* A node is used once; what it improves may be used already.
Better(cs, dist, v) ==
    {n \in Neighbours(cs, v) : n \notin DOMAIN dist \/ dist[v] + EdgeWeight(cs, v, n) < dist[n]}
Relaxed(cs, s, v) ==
    LET better == Better(cs, s.dist, v)
    IN  [dist |-> [n \in DOMAIN s.dist \cup better |->
                        IF n \in better THEN s.dist[v] + EdgeWeight(cs, v, n) ELSE s.dist[n]],
         used |-> s.used \cup {v}]

SearchStep(cs, s) ==
    LET open == DOMAIN s.dist \ s.used
    IN  IF open = {} THEN s ELSE Relaxed(cs, s, NearestOpen(s.dist, open))

\* The search after each turn of the loop; it starts at the C64.
SearchStart == [dist |-> [n \in {Host} |-> 0], used |-> {}]
Search(cs) ==
    LET after[k \in Nat] == IF k = 0 THEN SearchStart ELSE SearchStep(cs, after[k - 1]) IN after

\* The distances of the nodes that are reached; the loop has a turn for every node.
Distances(cs) == Search(cs)[Cardinality(Ends) + Len(cs)].dist

Detailed ==
    CASE mode = "ForceSimple" -> FALSE
      [] mode = "ForceDetailed" -> TRUE
      [] OTHER -> Cardinality(UNION {cables[c].drives : c \in DOMAIN cables}) > 1 \/ Len(cables) >= 2

HostLinked == \E c \in DOMAIN cables : cables[c].host

\* Drives beyond the C64's reach take part in nothing.
Linked(dist) == Drives \cap DOMAIN dist

DelayTo(end, dist) ==
    IF ~Detailed \/ Linked(dist) = {} THEN 0
    ELSE IF end = Host
         THEN dist[CHOOSE d \in Linked(dist) : \A e \in Linked(dist) : dist[d] <= dist[e]]
         ELSE dist[end]

-----------------------------------------------------------------------------
(* syncConsoleIecBus.                                                      *)

Idle == [current |-> {}, target |-> {}, remaining |-> 0, pending |-> FALSE]

\* The lines that are low: all the C64 pulls, and what a drive in reach pulls.
LowLines(host, drv, dist) ==
    (IF HostLinked THEN host ELSE {}) \cup UNION {drv[d] : d \in Linked(dist)}

\* Mutant: the wait begins again in every sync.
WaitingAlways(v, low, delay) == [v EXCEPT !.target = low, !.remaining = delay, !.pending = TRUE]
\* A new state of any line begins the whole delay again.
Waiting(v, low, delay) ==
    IF v.pending /\ v.target = low THEN v
    ELSE [v EXCEPT !.target = low, !.remaining = delay, !.pending = TRUE]

\* applyDelayedLineState: the call that begins the wait counts as its first.
Delayed(v, low, delay) ==
    IF v.current = low THEN [v EXCEPT !.pending = FALSE, !.remaining = 0]
    ELSE IF delay = 0 THEN [v EXCEPT !.current = low, !.pending = FALSE, !.remaining = 0]
    ELSE LET w == Waiting(v, low, delay)
         IN  IF w.remaining > 1 THEN [w EXCEPT !.remaining = @ - 1]
             ELSE [w EXCEPT !.current = w.target, !.remaining = 0, !.pending = FALSE]

SeenAt(end, v, low, dist) ==
    IF end \in Linked(dist) \cup {Host} THEN Delayed(v, low, DelayTo(end, dist))
    ELSE [v EXCEPT !.current = {}, !.pending = FALSE, !.remaining = 0]

Begins(end, v, low, dist) ==
    /\ end \in Linked(dist) \cup {Host}
    /\ v.current # low
    /\ ~(v.pending /\ v.target = low)

\* One sync of the records that change with it.
Synced(s, host, drv, dist) ==
    LET low == LowLines(host, drv, dist)
    IN  [view |-> [e \in Ends |-> SeenAt(e, s.view[e], low, dist)],
         driven |-> low,
         still |-> IF low # s.driven THEN 1 ELSE IF s.still < MaxStill THEN s.still + 1 ELSE MaxStill,
         due |-> [e \in Ends |->
                    IF Begins(e, s.view[e], low, dist) THEN DelayTo(e, dist) ELSE s.due[e]]]

AsRecord == [view |-> view, driven |-> driven, still |-> still, due |-> due]

\* A powered drive goes its way; only one that is on pulls anything.
PowerMoves(p) ==
    CASE p = "SpinningUp" -> {p, "On"}
      [] p = "SpinningDown" -> {p, "Off"}
      [] p = "Resetting" -> {p, "On"}
      [] OTHER -> {p}

\* tickConsoleHalfCycle: the bus is brought up to date before and after the drives' tick,
\* and the C64 writes its port at the end, if it is on.
STEP ==
    /\ \E dist \in {Distances(cables)} : \E before \in {Synced(AsRecord, hostPull, drivePull, dist)} :
        /\ drivePower' \in [Drives -> PowerStates]
        /\ \A d \in Drives : drivePower'[d] \in PowerMoves(drivePower[d])
        /\ drivePull' \in [Drives -> Plan.drivePulls]
        /\ \A d \in Drives : drivePower'[d] = "On" \/ drivePull'[d] = {}
        /\ LET after == Synced(before, hostPull, drivePull', dist)
           IN  view' = after.view /\ driven' = after.driven /\ still' = after.still /\ due' = after.due
        /\ hostPull' \in Plan.hostPulls
        /\ c64On \/ hostPull' = hostPull
    /\ UNCHANGED <<user, wiring, c64On, presets>>

-----------------------------------------------------------------------------
(* The commands of runEmulatorConsole.                                     *)

Command ==
    /\ typed < Plan.commands
    /\ typed' = typed + 1
    /\ still' = 0
    /\ UNCHANGED <<session, hostPull, view, driven, due>>

Wired(cs, def) ==
    /\ cables' = cs
    /\ default' = def
    /\ UNCHANGED <<mode, c64On, drivePower, presets, drivePull>>

DefaultWith(name) == IF default = {} THEN {name} ELSE default

Cable(name, ends, profile) ==
    [name |-> name, host |-> Host \in ends, drives |-> ends \ {Host}, profile |-> profile]

\* findConsoleCable: the first of that name.
Named(name) == {c \in DOMAIN cables : cables[c].name = name}
Found(name) == CHOOSE c \in Named(name) : \A e \in Named(name) : c <= e

CABLE_CREATE ==
    /\ Command
    /\ \E name \in Plan.names :
        /\ Named(name) = {}
        /\ Wired(Append(cables, Cable(name, {}, "PROFILE_SHORT")), DefaultWith(name))

\* WIRE takes the number of cables for the name, which may be a cable's already.
WIRE ==
    /\ Command
    /\ Len(cables) < Len(SegName)
    /\ \E a, b \in Ends : \E p \in DOMAIN Profiles :
        /\ {a, b} \in Plan.wires
        /\ LET name == SegName[Len(cables) + 1]
           IN  Wired(Append(cables, Cable(name, {a, b}, p)), DefaultWith(name))

\* CONNECT and DISCONNECT of one end of the cable found under the name.
Joined(cable, end, connect) ==
    IF end = Host THEN [cable EXCEPT !.host = connect]
    ELSE [cable EXCEPT !.drives = IF connect THEN @ \cup {end} ELSE @ \ {end}]

CABLE_CONNECT ==
    /\ Command
    /\ \E name \in Plan.names : \E end \in Ends : \E connect \in BOOLEAN :
        /\ Named(name) # {}
        /\ Wired([cables EXCEPT ![Found(name)] = Joined(@, end, connect)], default)

CABLE_PROFILE ==
    /\ Command
    /\ \E name \in Plan.names : \E p \in DOMAIN Profiles :
        /\ Named(name) # {}
        /\ Wired([cables EXCEPT ![Found(name)].profile = p], default)

\* DRIVE n CABLE works on the default cable.
DRIVE_CABLE ==
    /\ Command
    /\ \E name \in default : \E d \in Drives : \E connect \in BOOLEAN :
        /\ Named(name) # {}
        /\ Wired([cables EXCEPT ![Found(name)] = Joined(@, d, connect)], default)

TOPOLOGY_MODE ==
    /\ Command
    /\ mode' \in Plan.modes
    /\ UNCHANGED <<cables, default, c64On, drivePower, presets, drivePull>>

\* setDrivePower: asked for what it has or is getting, a drive does nothing.
Powered(p, on) ==
    IF on THEN (IF p \in {"On", "SpinningUp"} THEN p ELSE "SpinningUp")
    ELSE (IF p \in {"Off", "SpinningDown"} THEN p ELSE "SpinningDown")

DRIVE_POWER ==
    /\ Command
    /\ \E d \in Plan.switched :
        \/ \E on \in BOOLEAN : drivePower' = [drivePower EXCEPT ![d] = Powered(@, on)]
        \/ drivePower' = [drivePower EXCEPT ![d] = "Resetting"]
    /\ UNCHANGED <<wiring, c64On, presets, drivePull>>

\* setC64Power(false) and the reset make every drive let go of the bus; the C64's own port
\* keeps what it pulls.
NoPull == [d \in Drives |-> {}]
C64_ON == c64On' = TRUE /\ UNCHANGED drivePull
C64_OFF == c64On' = FALSE /\ drivePull' = NoPull
C64_RESET == c64On /\ drivePull' = NoPull /\ UNCHANGED c64On

C64_POWER ==
    /\ Command
    /\ Plan.c64
    /\ C64_ON \/ C64_OFF \/ C64_RESET
    /\ UNCHANGED <<wiring, drivePower, presets>>

-----------------------------------------------------------------------------
(* Presets.                                                                *)

Trunk == Cable("TRUNK0", {Host, 1}, "PROFILE_SHORT")
Preset(cs, def, on) == [cables |-> cs, default |-> def, c64On |-> TRUE, on |-> on]
DefaultPresets ==
    <<Preset(<<>>, {}, {}),
      Preset(<<Trunk>>, {"TRUNK0"}, {1}),
      Preset(<<Trunk, Cable("SEG1", {1, 2}, "PROFILE_SHORT")>>, {"TRUNK0"}, {1, 2})>>

PRESET_RESET ==
    /\ Command
    /\ presets' = DefaultPresets
    /\ UNCHANGED <<wiring, c64On, drivePower, drivePull>>

\* A drive counts as on while it spins down.
PRESET_SAVE ==
    /\ Command
    /\ \E slot \in Plan.slots :
        presets' = [presets EXCEPT ![slot] =
            [cables |-> cables, default |-> default, c64On |-> c64On,
             on |-> {d \in Drives : drivePower[d] # "Off"}]]
    /\ UNCHANGED <<wiring, c64On, drivePower, drivePull>>

\* The mode and what the lines are waiting for outlive the cables.
PRESET_LOAD ==
    /\ Command
    /\ \E slot \in Plan.slots :
        /\ cables' = presets[slot].cables
        /\ default' = presets[slot].default
        /\ drivePower' = [d \in Drives |-> Powered(drivePower[d], d \in presets[slot].on)]
        /\ IF presets[slot].c64On THEN C64_ON ELSE C64_OFF
    /\ UNCHANGED <<mode, presets>>

\* The console starts with P2.
ConsoleInit ==
    /\ session \in DOMAIN Sessions
    /\ typed = 0
    /\ cables = DefaultPresets[2].cables
    /\ default = DefaultPresets[2].default
    /\ mode = "Auto"
    /\ c64On = TRUE
    /\ drivePower = [d \in Drives |-> IF d = 1 THEN "SpinningUp" ELSE "Off"]
    /\ presets = DefaultPresets
    /\ hostPull = {} /\ drivePull = NoPull
    /\ view = [e \in Ends |-> Idle]
    /\ driven = {} /\ still = 0 /\ due = [e \in Ends |-> 0]

ConsoleNext ==
    \/ STEP
    \/ CABLE_CREATE \/ WIRE \/ CABLE_CONNECT \/ CABLE_PROFILE \/ DRIVE_CABLE
    \/ TOPOLOGY_MODE \/ DRIVE_POWER \/ C64_POWER
    \/ PRESET_RESET \/ PRESET_SAVE \/ PRESET_LOAD

ConsoleSpec == ConsoleInit /\ [][ConsoleNext]_consoleVars

-----------------------------------------------------------------------------
(* Properties.                                                             *)

\* Every variable has the values the program's types allow.
ConsoleTypeOK ==
    /\ \A c \in DOMAIN cables :
        cables[c].drives \subseteq Drives /\ cables[c].profile \in DOMAIN Profiles
    /\ Cardinality(default) <= 1 /\ mode \in Modes /\ c64On \in BOOLEAN
    /\ drivePower \in [Drives -> PowerStates]
    /\ \A e \in Ends : view[e].current \subseteq Wires /\ view[e].pending \in BOOLEAN

\* The distances the search finds are those of a shortest path: no edge is shorter than the
\* difference of its ends, and every node but the C64 is reached over an edge that is tight.
ShortestPaths ==
    LET dist == Distances(cables)
    IN  /\ dist[Host] = 0
        /\ \A m \in DOMAIN dist : \A n \in Neighbours(cables, m) :
            n \in DOMAIN dist /\ dist[n] <= dist[m] + EdgeWeight(cables, m, n)
        /\ \A n \in DOMAIN dist \ {Host} : \E m \in Neighbours(cables, n) :
            m \in DOMAIN dist /\ dist[n] = dist[m] + EdgeWeight(cables, m, n)

\* Once lines and wiring have stood still for as many syncs as the wait that was begun, the
\* C64 and every drive in reach see them, however they changed before; a drive out of
\* reach sees them high.
LinesArrive ==
    still > 0 =>
        LET linked == Linked(Distances(cables))
        IN  /\ \A e \in linked \cup {Host} : still >= due[e] => view[e].current = driven
            /\ \A d \in Drives \ linked : view[d].current = {}

\* Console: a drive sees the lines after the delay of its shortest way to the C64, and a
\* level that has lasted that long is seen on both sides.
CablesCarry ==
    /\ ConsoleTypeOK
    /\ ShortestPaths /\ LinesArrive

=============================================================================
