---------------------------- MODULE MCDriveBlocks ----------------------------
(***************************************************************************)
(* A small block map for TLC.  Four addresses of two tracks fold into      *)
(* three slots, as the last tracks of a disk fold onto its first ones in    *)
(* the code: there track 33 sector 0 has the slot of track 1 sector 8.     *)
(***************************************************************************)
EXTENDS DriveBlocks

CONSTANTS load, command, none, dollar, file, noName

MCTracks   == 1 .. 2
MCSectors  == 0 .. 1
MCChannels == {load, command}
MCNames    == {dollar, file}

=============================================================================
