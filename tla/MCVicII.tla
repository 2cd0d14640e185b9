------------------------------- MODULE MCVicII -------------------------------
(***************************************************************************)
(* Two revisions of the chip with one sprite, for TLC.                     *)
(***************************************************************************)
EXTENDS VicII

CONSTANT sprite

Chip(edge, extra) ==
    [needsEdge |-> edge, needsDisplay |-> edge, extra |-> extra, enabled |-> {sprite},
     top |-> [s \in {sprite} |-> 1]]

\* 8565 and 6569.
TwoChips == {Chip(TRUE, 0), Chip(FALSE, 1)}
=============================================================================
