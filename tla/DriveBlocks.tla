----------------------------- MODULE DriveBlocks -----------------------------
(***************************************************************************)
(* The virtual block allocation map and file catalogue of the 1541 model   *)
(* (src/drive_1541.hpp): what the B-A, B-F, B-W and B-R commands of the    *)
(* command channel do to the map, to the catalogue and to the link between *)
(* a channel and its catalogue entry.                                      *)
(*                                                                         *)
(* A command runs to completion inside UNLISTEN, so it is one action.  The *)
(* text of a command, the file type and mode, the 256 data bytes and the   *)
(* first-block address kept (and never read) in an entry are abstracted;   *)
(* the entry's name is kept, because a directory listing shows it.         *)
(***************************************************************************)
EXTENDS Integers, FiniteSets

CONSTANTS
    Tracks, Sectors,     \* addresses the host may name
    SectorsPerTrack,     \* the 21 of blockAllocIndex
    TotalBlocks,         \* IEC_TOTAL_VIRTUAL_BLOCKS
    CatalogSize,         \* IEC_MAX_VIRTUAL_CATALOG_ENTRIES
    Channels,            \* secondary addresses
    LoadChannel,         \* channel 0, which every LISTEN starts with
    CommandChannel,      \* channel 15
    Names, Dollar,       \* open names; Dollar is the directory name "$"
    NoName, NoChannel

ASSUME GeometryAssumption ==
    /\ Tracks \subseteq Nat /\ Sectors \subseteq Nat
    /\ SectorsPerTrack \in Nat
    /\ TotalBlocks \in Nat \ {0}
    /\ CatalogSize \in Nat \ {0}

ASSUME ChannelAssumption ==
    /\ IsFiniteSet(Channels)
    /\ Cardinality(Channels) =< CatalogSize
    /\ LoadChannel \in Channels /\ CommandChannel \in Channels
    /\ LoadChannel # CommandChannel
    /\ NoChannel \notin Channels

ASSUME NameAssumption == Dollar \in Names /\ NoName \notin Names

VARIABLES
    allocated,       \* indices whose iecBlockAllocated is set
    owner,           \* iecAllocOwnerEntry, NoEntry for 0xFF
    allocatedCount,  \* iecAllocatedBlockCount
    catalog,         \* iecCatalog
    channelEntry,    \* iecChannelCatalogEntry, NoEntry for -1
    openName,        \* iecChannelOpenName, NoName when not valid or empty
    naming,          \* channel whose OPEN name is being received, or NoChannel
    bufferValid,     \* iecBlockBufferValid
    status           \* the code at the head of iecStatusLine

mapVars  == <<allocated, owner, allocatedCount>>
fileVars == <<catalog, channelEntry>>
nameVars == <<openName, naming>>
vars == <<mapVars, fileVars, nameVars, bufferValid, status>>

NoEntry   == -1
Blocks    == 0 .. TotalBlocks - 1
Entries   == 0 .. CatalogSize - 1
Addresses == Tracks \X Sectors
Statuses  == {"00", "26", "30", "31", "63", "64", "65", "66", "70", "74"}

\* The results of writing the block buffer to the mounted image, or to memory.
FlushResults == {"written", "invalid address", "write protected", "not ready"}

\* The names a file can have: an open name, or BLK-ttss of its first block.
FileNames == Names \cup Addresses

EmptyEntry == [used |-> FALSE, channel |-> NoChannel, blocks |-> 0, name |-> NoName]

EntryType == [used : BOOLEAN, channel : Channels \cup {NoChannel},
              blocks : Nat, name : FileNames \cup {NoName}]

-----------------------------------------------------------------------------

\* Mutant: the fold is missing.
BlockAllocIndexUnfolded(a) == a[1] * SectorsPerTrack + a[2]

\* The slot of an address in the map: the map has no slot per address, it folds
\* them, so two addresses can share a slot.
BlockAllocIndex(a) == (a[1] * SectorsPerTrack + a[2]) % TotalBlocks

\* Only a name other than "$" names a file.
NamesFile(ch) == openName[ch] # NoName /\ openName[ch] # Dollar

PickCatalogName(ch, a) == IF NamesFile(ch) THEN openName[ch] ELSE a

UnusedEntries == {e \in Entries : ~ catalog[e].used}

FindFreeCatalogSlot ==
    IF UnusedEntries = {} THEN NoEntry
    ELSE CHOOSE e \in UnusedEntries : \A f \in UnusedEntries : e =< f

\* Mutant: every allocation starts a new entry.
MappedEntryForgotten(ch) == NoEntry

\* The entry the channel writes to already, if any.
MappedEntry(ch) ==
    IF channelEntry[ch] # NoEntry /\ catalog[channelEntry[ch]].used
    THEN channelEntry[ch]
    ELSE NoEntry

\* The entry ensureCatalogEntryForChannel returns ...
EntryForChannel(ch) ==
    IF MappedEntry(ch) # NoEntry THEN MappedEntry(ch) ELSE FindFreeCatalogSlot

\* ... and what it leaves in that entry: a mapped entry takes the channel's
\* current open name, a new one is filled in with no block yet.
EnsuredEntry(ch, a) ==
    IF MappedEntry(ch) # NoEntry
    THEN [catalog[MappedEntry(ch)] EXCEPT
            !.name = IF NamesFile(ch) THEN openName[ch] ELSE @]
    ELSE [used |-> TRUE, channel |-> ch, blocks |-> 0, name |-> PickCatalogName(ch, a)]

CanAllocate(ch, a) ==
    /\ BlockAllocIndex(a) \notin allocated
    /\ EntryForChannel(ch) # NoEntry

\* Mutant: the counter is not incremented.
AllocateUncounted(ch, a) ==
    LET b == BlockAllocIndex(a)
        e == EntryForChannel(ch)
        r == EnsuredEntry(ch, a)
    IN  /\ allocated' = allocated \cup {b}
        /\ owner' = [owner EXCEPT ![b] = e]
        /\ catalog' = [catalog EXCEPT ![e] = [r EXCEPT !.blocks = r.blocks + 1]]
        /\ channelEntry' = [channelEntry EXCEPT ![ch] = e]
        /\ UNCHANGED allocatedCount

\* allocateVirtualBlock, when it succeeds.
AllocateVirtualBlock(ch, a) ==
    LET b == BlockAllocIndex(a)
        e == EntryForChannel(ch)
        r == EnsuredEntry(ch, a)
    IN  /\ allocated' = allocated \cup {b}
        /\ owner' = [owner EXCEPT ![b] = e]
        /\ allocatedCount' = allocatedCount + 1
        /\ catalog' = [catalog EXCEPT ![e] = [r EXCEPT !.blocks = r.blocks + 1]]
        /\ channelEntry' = [channelEntry EXCEPT ![ch] = e]

BlocksLeft(e) == IF catalog[e].blocks > 0 THEN catalog[e].blocks - 1 ELSE 0

\* Mutant: an entry outlives its last block.
EntryKept(e) == [catalog[e] EXCEPT !.blocks = BlocksLeft(e)]

\* Mutant: the channel keeps the slot of a removed entry.
ChannelsKept(e) == channelEntry

\* An entry that loses a block goes with its last one ...
EntryWithoutBlock(e) ==
    IF BlocksLeft(e) = 0 THEN EmptyEntry ELSE [catalog[e] EXCEPT !.blocks = BlocksLeft(e)]

\* ... and then its channel forgets it (removeCatalogEntryByIndex).
ChannelsWithoutEntry(e) ==
    [ch \in Channels |->
       IF BlocksLeft(e) = 0 /\ ch = catalog[e].channel /\ channelEntry[ch] = e
       THEN NoEntry ELSE channelEntry[ch]]

\* freeVirtualBlock, when it succeeds.
FreeVirtualBlock(a) ==
    LET b == BlockAllocIndex(a)
        e == owner[b]
    IN  /\ allocated' = allocated \ {b}
        /\ owner' = [owner EXCEPT ![b] = NoEntry]
        /\ allocatedCount' = IF allocatedCount > 0 THEN allocatedCount - 1 ELSE 0
        /\ IF e # NoEntry /\ catalog[e].used
           THEN /\ catalog' = [catalog EXCEPT ![e] = EntryWithoutBlock(e)]
                /\ channelEntry' = ChannelsWithoutEntry(e)
           ELSE UNCHANGED fileVars

\* Directory listings end with this number of blocks.
VirtualBlocksFree ==
    IF allocatedCount >= TotalBlocks THEN 0 ELSE TotalBlocks - allocatedCount

-----------------------------------------------------------------------------

\* LISTEN for this device selects channel 0 and starts a name for it, keeping the
\* name its last OPEN left; LISTEN for another device drops a name half received.
Listen ==
    /\ naming' \in {LoadChannel, NoChannel}
    /\ UNCHANGED <<mapVars, fileVars, openName, bufferValid, status>>

\* LISTEN and OPEN ch: the name of the channel's previous OPEN is forgotten.
OpenSecondary(ch) ==
    /\ openName' = [openName EXCEPT ![ch] = NoName]
    /\ naming' = ch
    /\ UNCHANGED <<mapVars, fileVars, bufferValid, status>>

\* UNLISTEN commits the name bytes received; bytes sent to the command channel
\* are a command and never a name.
CommitOpenName(name) ==
    /\ naming # NoChannel
    /\ naming = CommandChannel => name = NoName
    /\ openName' = [openName EXCEPT ![naming] = name]
    /\ naming' = NoChannel
    /\ UNCHANGED <<mapVars, fileVars, bufferValid, status>>

\* CLOSE ch drops a name that is being received for ch.
Close(ch) ==
    /\ naming = ch
    /\ naming' = NoChannel
    /\ UNCHANGED <<mapVars, fileVars, openName, bufferValid, status>>

\* UNLISTEN runs the bytes sent to the command channel, after it has committed
\* the empty name that goes with them.
RunsCommand ==
    /\ naming = CommandChannel
    /\ naming' = NoChannel
    /\ openName' = [openName EXCEPT ![CommandChannel] = NoName]

\* B-A:ch,a
BlockAllocate(ch, a) ==
    /\ RunsCommand
    /\ UNCHANGED bufferValid
    /\ \/ /\ CanAllocate(ch, a)
          /\ AllocateVirtualBlock(ch, a)
          /\ status' = "00"
       \/ /\ ~ CanAllocate(ch, a)
          /\ status' = "63"
          /\ UNCHANGED <<mapVars, fileVars>>

\* B-F:ch,a.  Freeing clears the block buffer and leaves it valid; the channel
\* parameter is ignored.
BlockFree(a) ==
    /\ RunsCommand
    /\ \/ /\ BlockAllocIndex(a) \in allocated
          /\ FreeVirtualBlock(a)
          /\ bufferValid' = TRUE
          /\ status' = "00"
       \/ /\ BlockAllocIndex(a) \notin allocated
          /\ status' = "65"
          /\ UNCHANGED <<mapVars, fileVars, bufferValid>>

\* B-R:ch,a.  An image that cannot be read is replaced by memory, so loading
\* never fails.
BlockRead(a) ==
    /\ RunsCommand
    /\ UNCHANGED <<mapVars, fileVars>>
    /\ \/ /\ BlockAllocIndex(a) \in allocated
          /\ bufferValid' = TRUE
          /\ status' = "00"
       \/ /\ BlockAllocIndex(a) \notin allocated
          /\ status' = "65"
          /\ UNCHANGED bufferValid

\* flushVirtualBlock: the status line the write leaves.
FlushStatus(result) ==
    IF ~ bufferValid THEN "66"
    ELSE CASE result = "written"         -> "00"
           [] result = "invalid address" -> "66"
           [] result = "write protected" -> "26"
           [] result = "not ready"       -> "74"

\* B-W:ch,a.  The block is allocated first, and stays so when the flush fails.
BlockWrite(ch, a, result) ==
    /\ RunsCommand
    /\ UNCHANGED bufferValid
    /\ \/ /\ BlockAllocIndex(a) \in allocated
          /\ status' = FlushStatus(result)
          /\ UNCHANGED <<mapVars, fileVars>>
       \/ /\ CanAllocate(ch, a)
          /\ AllocateVirtualBlock(ch, a)
          /\ status' = FlushStatus(result)
       \/ /\ BlockAllocIndex(a) \notin allocated /\ ~ CanAllocate(ch, a)
          /\ status' = "63"
          /\ UNCHANGED <<mapVars, fileVars>>

\* B-P and the commands outside this module (00 or 30; 31 for an M-E to an address
\* that is no routine), and malformed block commands (30): none of them, NEW
\* included, touches the map.
CommandCodes == {"00", "30", "31"}
OtherCommand(code) ==
    /\ RunsCommand
    /\ status' = code
    /\ UNCHANGED <<mapVars, fileVars, bufferValid>>

\* The status line changes outside commands too.  74: a wait of the serial engine
\* ran out.  70: TALK on a channel other than 0 and 15, or a data byte after the
\* CLOSE of the channel it is for.  64: a data byte for channel 0 when no name is
\* expected.
AsideCodes == {"64", "70", "74"}
StatusAside(code) ==
    /\ code = "64" => naming = NoChannel
    /\ status' = code
    /\ UNCHANGED <<mapVars, fileVars, nameVars, bufferValid>>

InitialState ==
    [allocated |-> {}, owner |-> [b \in Blocks |-> NoEntry], count |-> 0,
     catalog |-> [e \in Entries |-> EmptyEntry],
     channelEntry |-> [ch \in Channels |-> NoEntry],
     openName |-> [ch \in Channels |-> NoName]]

\* Drive1541::reset()
Reset ==
    /\ allocated' = InitialState.allocated
    /\ owner' = InitialState.owner
    /\ allocatedCount' = InitialState.count
    /\ catalog' = InitialState.catalog
    /\ channelEntry' = InitialState.channelEntry
    /\ openName' = InitialState.openName
    /\ naming' = NoChannel
    /\ bufferValid' = FALSE
    /\ status' = "00"

Init ==
    /\ allocated = InitialState.allocated
    /\ owner = InitialState.owner
    /\ allocatedCount = InitialState.count
    /\ catalog = InitialState.catalog
    /\ channelEntry = InitialState.channelEntry
    /\ openName = InitialState.openName
    /\ naming = NoChannel
    /\ bufferValid = FALSE
    /\ status = "00"

Next ==
    \/ Listen
    \/ \E ch \in Channels : OpenSecondary(ch) \/ Close(ch)
    \/ \E name \in Names \cup {NoName} : CommitOpenName(name)
    \/ \E ch \in Channels, a \in Addresses : BlockAllocate(ch, a)
    \/ \E a \in Addresses : BlockFree(a) \/ BlockRead(a)
    \/ \E ch \in Channels, a \in Addresses, result \in FlushResults :
         BlockWrite(ch, a, result)
    \/ \E code \in CommandCodes : OtherCommand(code)
    \/ \E code \in AsideCodes : StatusAside(code)
    \/ Reset

Spec == Init /\ [][Next]_vars

-----------------------------------------------------------------------------

\* Every variable has its type.
TypeOK ==
    /\ allocated \subseteq Blocks
    /\ owner \in [Blocks -> Entries \cup {NoEntry}]
    /\ allocatedCount \in Nat
    /\ catalog \in [Entries -> EntryType]
    /\ channelEntry \in [Channels -> Entries \cup {NoEntry}]
    /\ openName \in [Channels -> Names \cup {NoName}]
    /\ naming \in Channels \cup {NoChannel}
    /\ bufferValid \in BOOLEAN
    /\ status \in Statuses

\* The BLOCKS FREE of a directory listing, kept in a counter of its own, is the
\* number of map slots that are free, after any sequence of B-A, B-W, B-F.
FreeCountExact == VirtualBlocksFree = Cardinality(Blocks \ allocated)

OwnedBlocks(e) == {b \in Blocks : owner[b] = e}

\* Three representations agree: a slot has an owner exactly when it is allocated,
\* the owner is a file in use, and the block count a directory shows for a file
\* is the number of slots it owns, which is never 0 for a file in use.
OwnerAccounting ==
    /\ \A b \in Blocks : (owner[b] # NoEntry) <=> (b \in allocated)
    /\ \A e \in Entries :
         /\ catalog[e].blocks = Cardinality(OwnedBlocks(e))
         /\ catalog[e].used <=> catalog[e].blocks > 0

\* A channel and its file point at each other: no channel is left with the slot
\* of a removed file, which another channel's file may take, and no file in use
\* is out of its channel's reach.
ChannelEntryInverse ==
    /\ \A e \in Entries : catalog[e].used =>
         /\ catalog[e].channel \in Channels
         /\ channelEntry[catalog[e].channel] = e
    /\ \A ch \in Channels : channelEntry[ch] # NoEntry =>
         /\ catalog[channelEntry[ch]].used
         /\ catalog[channelEntry[ch]].channel = ch

\* The failure path of allocateVirtualBlock for a full catalogue is never taken:
\* a 63 of B-A or B-W always means that the map slot is taken.
CatalogNeverFull == \A ch \in Channels : EntryForChannel(ch) # NoEntry

=============================================================================
