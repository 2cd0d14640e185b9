---------------------------- MODULE MCIecBusDomain ----------------------------
(***************************************************************************)
(* Small buses for TLC.                                                    *)
(***************************************************************************)
EXTENDS IecBusDomain

CONSTANTS d1, d2

\* Minimum low pulse and release delay of every line.
OneUnit == [l \in Lines |-> 1]
TwoUnits == [l \in Lines |-> 2]
NoDelay == [l \in Lines |-> 0]

=============================================================================
