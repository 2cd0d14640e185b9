---------------------------- MODULE MCDriveSerial ----------------------------
(***************************************************************************)
(* A small engine for TLC.                                                 *)
(***************************************************************************)
EXTENDS DriveSerial

CONSTANT none

TwoBytes == { <<TRUE, FALSE>>, <<FALSE, TRUE>> }

\* REV_1541 as it is built, and under Level5Coupling.
Plain   == [level5 |-> FALSE, needsClockLow |-> TRUE, ackAny |-> FALSE, needsAtnLow |-> TRUE]
Coupled == [level5 |-> TRUE, needsClockLow |-> TRUE, ackAny |-> FALSE, needsAtnLow |-> TRUE]

Drives == {Plain, Coupled}

\* A byte that ends in a 0 and one that ends in a 1.
DirectoryBytes == << <<TRUE, FALSE>>, <<FALSE, TRUE>> >>
StatusBytes    == << <<TRUE, FALSE>> >>

=============================================================================
