----------------------------- MODULE MCDriveUnit -----------------------------
(***************************************************************************)
(* A small drive for TLC.                                                  *)
(***************************************************************************)
EXTENDS DriveUnit

CONSTANTS load, cmd, none

\* Every bus command and the data byte.  UNTALK stands for TALK OTHER too, which does
\* the same, and is closed only the channel that keeps a command.
MostBytes ==
    [op : Ops \ {"OPEN", "CLOSE", "TALK OTHER"}, ch : {none}]
    \cup [op : {"OPEN"}, ch : {load, cmd}] \cup [op : {"CLOSE"}, ch : {cmd}]

\* Bytes that wake the drive or wait for a command, one of each kind.
WakingBytes ==
    [op : {"LISTEN", "TALK", "data"}, ch : {none}] \cup [op : {"OPEN"}, ch : {cmd}]

=============================================================================
