---------------------------- MODULE MCBlockGrants ----------------------------
(***************************************************************************)
(* The block map with two history variables: the addresses the host was    *)
(* granted, and the address its last command freed.                        *)
(***************************************************************************)
EXTENDS MCDriveBlocks

VARIABLES
    granted,   \* addresses allocated by a B-A or B-W and not freed since
    freed      \* the address of the last step, if that was a B-F that answered 00

GrantInit == Init /\ granted = {} /\ freed = {}

\* A B-A or B-W that leaves the map slot of its address to the host.
Grants(a, yes) ==
    /\ granted' = IF yes THEN granted \cup {a} ELSE granted
    /\ freed' = {}

GrantNext ==
    \/ \E ch \in Channels, a \in Addresses :
         BlockAllocate(ch, a) /\ Grants(a, status' = "00")
    \/ \E ch \in Channels, a \in Addresses, result \in FlushResults :
         BlockWrite(ch, a, result) /\ Grants(a, status' # "63")
    \/ \E a \in Addresses :
         /\ BlockFree(a)
         /\ freed' = IF status' = "00" THEN {a} ELSE {}
         /\ granted' = granted \ freed'
    \/ Reset /\ granted' = {} /\ freed' = {}
    \/ /\ \/ Listen
          \/ \E ch \in Channels : OpenSecondary(ch) \/ Close(ch)
          \/ \E name \in Names \cup {NoName} : CommitOpenName(name)
          \/ \E a \in Addresses : BlockRead(a)
          \/ \E code \in CommandCodes : OtherCommand(code)
          \/ \E code \in AsideCodes : StatusAside(code)
       /\ freed' = {}
       /\ UNCHANGED granted

grantVars == <<vars, granted, freed>>
GrantSpec == GrantInit /\ [][GrantNext]_grantVars

\* The smoke test of the map says that "freeing non-allocated block should report
\* NO BLOCK": a B-F that answers 00 frees an address the host was granted before.
FreeNeedsAllocation == [][freed' \subseteq granted]_grantVars

=============================================================================
