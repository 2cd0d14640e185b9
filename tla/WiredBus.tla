------------------------------- MODULE WiredBus -------------------------------
(***************************************************************************)
(* What the serial bus promises (struct IecBusDomain, src/iec_bridge.hpp): *)
(* an open-collector bus with two sides.  A line falls in the instant a    *)
(* side pulls it.  A line that nobody pulls rises when it has been low for *)
(* its rise time: never before, and no time passes with it low for longer. *)
(* An observer sees the levels that all lines had in one instant.          *)
(*                                                                         *)
(* There is no queue here, no event that can be late, of an old generation *)
(* or forgotten, and no scheduler: IecBusDomain implements this bus with   *)
(* them.                                                                   *)
(***************************************************************************)
EXTENDS Naturals

CONSTANTS
    Lines,
    HostLines, DeviceLines,   \* lines the two sides can pull
    Devices,
    LowTime,                  \* per line: its rise time, how long it is low at least
    LongestStep               \* what time passes at once at most

VARIABLES
    hostPulls, devicePulls,   \* the lines the sides pull
    low,                      \* the lines that are low
    lowFor,                   \* for how long, up to LongestLow
    hostSees, deviceSees      \* the low lines an observer saw last

vars == <<hostPulls, devicePulls, low, lowFor, hostSees, deviceSees>>

Pulled == hostPulls \cup devicePulls

\* The age of a line is counted until it is more than its rise time; a line that
\* rises in the instant it is released has none.
LongestLow(l) == IF LowTime[l] = 0 THEN 0 ELSE LowTime[l] + 1

Init ==
    /\ hostPulls \in SUBSET HostLines
    /\ devicePulls \in SUBSET DeviceLines
    /\ low = Pulled
    /\ lowFor = [l \in Lines |-> 0]
    /\ hostSees = low
    /\ deviceSees \in [Devices -> {low, {}}]

\* The wires with these pulls: what is pulled is low, and what is released stays
\* low until its rise time is over.
Settle(pulls) ==
    /\ low' = pulls \cup {l \in low : lowFor[l] < LowTime[l]}
    /\ lowFor' = [l \in Lines |-> IF l \in low \cap low' THEN lowFor[l] ELSE 0]
    /\ UNCHANGED <<hostSees, deviceSees>>

HostPulls(pulls) ==
    /\ hostPulls' = pulls
    /\ Settle(pulls \cup devicePulls)
    /\ UNCHANGED devicePulls

DevicesPull(pulls) ==
    /\ devicePulls' = pulls
    /\ Settle(hostPulls \cup pulls)
    /\ UNCHANGED hostPulls

\* Lines whose rise time is over rise.
Rise ==
    /\ Settle(Pulled)
    /\ UNCHANGED <<hostPulls, devicePulls>>

\* Time passes, but never with a line low that had to rise.
Pass(t) ==
    /\ \A l \in low \ Pulled : lowFor[l] + t =< LowTime[l]
    /\ lowFor' = [l \in Lines |-> IF l \notin low THEN 0
                                  ELSE IF lowFor[l] + t > LongestLow(l) THEN LongestLow(l)
                                  ELSE lowFor[l] + t]
    /\ UNCHANGED <<hostPulls, devicePulls, low, hostSees, deviceSees>>

HostLooks ==
    /\ hostSees' = low
    /\ UNCHANGED <<hostPulls, devicePulls, low, lowFor, deviceSees>>

\* Some devices look, all in the same instant.
DevicesLook(D) ==
    /\ deviceSees' = [d \in Devices |-> IF d \in D THEN low ELSE deviceSees[d]]
    /\ UNCHANGED <<hostPulls, devicePulls, low, lowFor, hostSees>>

Next ==
    \/ \E pulls \in SUBSET HostLines : HostPulls(pulls)
    \/ \E pulls \in SUBSET DeviceLines : DevicesPull(pulls)
    \/ Rise
    \/ \E t \in 0 .. LongestStep : Pass(t)
    \/ HostLooks
    \/ \E D \in SUBSET Devices : DevicesLook(D)

Spec == Init /\ [][Next]_vars

=============================================================================
