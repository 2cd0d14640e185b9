-------------------------- MODULE DriveBlocksProofs --------------------------
(***************************************************************************)
(* Proofs about the block map and the file catalogue of DriveBlocks, for   *)
(* every geometry, number of channels and catalogue that can hold one file *)
(* for each channel.                                                       *)
(***************************************************************************)
EXTENDS DriveBlocks, FiniteSetTheorems, WellFoundedInduction, TLAPS

\* The part of the type invariant about the map and the files ...
MapTypeOK ==
    /\ allocated \subseteq Blocks
    /\ owner \in [Blocks -> Entries \cup {NoEntry}]
    /\ allocatedCount \in Nat
    /\ catalog \in [Entries -> EntryType]
    /\ channelEntry \in [Channels -> Entries \cup {NoEntry}]

\* ... and the part about the conversation with the host.
SessionTypeOK ==
    /\ openName \in [Channels -> Names \cup {NoName}]
    /\ naming \in Channels \cup {NoChannel}
    /\ bufferValid \in BOOLEAN
    /\ status \in Statuses

\* What allocating and freeing keep: the counter and both sides of the links
\* between slots, files and channels.
MapInv ==
    /\ MapTypeOK
    /\ allocatedCount = Cardinality(allocated)
    /\ OwnerAccounting
    /\ ChannelEntryInverse

IInv == MapInv /\ SessionTypeOK

-----------------------------------------------------------------------------

\* Every address has a slot in the map.
LEMMA BlockIndexType ==
    ASSUME NEW a \in Addresses
    PROVE  BlockAllocIndex(a) \in Blocks
<1>1. a[1] \in Nat /\ a[2] \in Nat
  BY GeometryAssumption DEF Addresses
<1>2. a[1] * SectorsPerTrack \in Nat
  BY <1>1, GeometryAssumption
<1> QED
  BY <1>1, <1>2, GeometryAssumption DEF BlockAllocIndex, Blocks

\* The map has TotalBlocks slots.
LEMMA BlocksFinite ==
    /\ IsFiniteSet(Blocks)
    /\ Cardinality(Blocks) = TotalBlocks
  BY FS_Interval, GeometryAssumption DEF Blocks

LEMMA EntriesFinite ==
    /\ IsFiniteSet(Entries)
    /\ Cardinality(Entries) = CatalogSize
  BY FS_Interval, GeometryAssumption DEF Entries

\* The search for a free slot returns one if there is one.
LEMMA FreeSlotIsUnused ==
    ASSUME UnusedEntries # {}
    PROVE  FindFreeCatalogSlot \in UnusedEntries
<1>1. UnusedEntries \subseteq Nat
  BY DEF UnusedEntries, Entries
<1> DEFINE less == {p \in Nat \X Nat : p[1] < p[2]}
<1>a. OpToRel(<, Nat) = less
  BY Zenon DEF OpToRel
<1>b. IsWellFoundedOn(less, Nat)
  BY <1>a, NatLessThanWellFounded
<1>c. \A m, n \in Nat : <<m, n>> \in less <=> m < n
  OBVIOUS
<1> HIDE DEF less
<1>2. PICK e \in UnusedEntries : \A f \in UnusedEntries : ~ (<<f, e>> \in less)
  BY <1>1, <1>b, WFMin
<1>3. \A f \in UnusedEntries : e =< f
  <2> SUFFICES ASSUME NEW f \in UnusedEntries PROVE e =< f
    OBVIOUS
  <2>1. e \in Nat /\ f \in Nat
    BY <1>1
  <2>2. ~ (<<f, e>> \in less)
    BY <1>2
  <2>3. ~ (f < e)
    BY <2>1, <2>2, <1>c
  <2> QED
    BY <2>1, <2>3
<1> QED
  BY <1>3 DEF FindFreeCatalogSlot

\* A channel always finds an entry: if every entry were in use, each by a channel
\* of its own, then every channel would have one.
LEMMA NeverFull ==
    ASSUME MapTypeOK, ChannelEntryInverse, NEW ch \in Channels
    PROVE  EntryForChannel(ch) \in Entries
<1>1. CASE MappedEntry(ch) # NoEntry
  BY <1>1 DEF MappedEntry, EntryForChannel, MapTypeOK
<1>2. CASE MappedEntry(ch) = NoEntry
  <2>1. channelEntry[ch] = NoEntry
    BY <1>2 DEF MappedEntry, ChannelEntryInverse, MapTypeOK
  <2>2. UnusedEntries # {}
    <3> SUFFICES ASSUME UnusedEntries = {} PROVE FALSE
      OBVIOUS
    <3> DEFINE others == Channels \ {ch}
               user == [e \in Entries |-> catalog[e].channel]
    <3>1. \A e \in Entries : catalog[e].used
      BY DEF UnusedEntries
    <3>2. user \in [Entries -> others]
      BY <2>1, <3>1 DEF ChannelEntryInverse, NoEntry, Entries
    <3>3. IsFiniteSet(others) /\ Cardinality(others) = Cardinality(Channels) - 1
      BY FS_RemoveElement, ChannelAssumption
    <3>4. Cardinality(others) < Cardinality(Entries)
      BY <3>3, EntriesFinite, FS_CardinalityType, ChannelAssumption, GeometryAssumption
    <3>5. \E e, f \in Entries : e # f /\ user[e] = user[f]
      <4> HIDE DEF others, user
      <4> QED BY <3>2, <3>3, <3>4, EntriesFinite, FS_PigeonHole
    <3> QED
      BY <3>1, <3>5 DEF ChannelEntryInverse
  <2>3. FindFreeCatalogSlot \in Entries
    BY <2>2, FreeSlotIsUnused DEF UnusedEntries
  <2> QED
    BY <1>2, <2>3 DEF EntryForChannel
<1> QED
  BY <1>1, <1>2

\* An entry that is not the channel's own is free when it is handed out.
LEMMA NewEntryIsUnused ==
    ASSUME MapTypeOK, ChannelEntryInverse, NEW ch \in Channels, MappedEntry(ch) = NoEntry
    PROVE  EntryForChannel(ch) \in Entries /\ ~ catalog[EntryForChannel(ch)].used
<1>1. EntryForChannel(ch) = FindFreeCatalogSlot /\ FindFreeCatalogSlot \in Entries
  BY NeverFull DEF EntryForChannel
<1>2. UnusedEntries # {}
  BY <1>1 DEF FindFreeCatalogSlot, NoEntry, Entries
<1> QED
  BY <1>1, <1>2, FreeSlotIsUnused DEF UnusedEntries

-----------------------------------------------------------------------------

\* The slots of a file are finitely many.
LEMMA OwnedBlocksFinite ==
    ASSUME NEW e
    PROVE  IsFiniteSet(OwnedBlocks(e)) /\ Cardinality(OwnedBlocks(e)) \in Nat
<1>1. OwnedBlocks(e) \in SUBSET Blocks
  BY DEF OwnedBlocks
<1> QED
  BY <1>1, BlocksFinite, FS_Subset, FS_CardinalityType

\* An allocation that succeeds keeps the map and the catalogue in step.
LEMMA AllocateKeepsMap ==
    ASSUME MapInv, SessionTypeOK, NEW ch \in Channels, NEW a \in Addresses,
           CanAllocate(ch, a), AllocateVirtualBlock(ch, a)
    PROVE  MapInv'
<1> DEFINE b == BlockAllocIndex(a)
           e == EntryForChannel(ch)
           r == EnsuredEntry(ch, a)
<1>1. b \in Blocks /\ b \notin allocated
  BY BlockIndexType DEF CanAllocate
<1>2. e \in Entries
  BY NeverFull DEF MapInv
<1>3. owner[b] = NoEntry
  BY <1>1 DEF MapInv, OwnerAccounting
<1>4. catalog \in [Entries -> EntryType] /\ catalog[e] \in EntryType
  BY <1>2 DEF MapInv, MapTypeOK
<1>5. r.used /\ r.channel = ch /\ r.blocks = catalog[e].blocks /\ r \in EntryType
  <2>1. CASE MappedEntry(ch) # NoEntry
    <3>1. e = channelEntry[ch] /\ catalog[e].used /\ MappedEntry(ch) = e
      BY <2>1 DEF MappedEntry, EntryForChannel
    <3>2. catalog[e].channel = ch
      BY <1>2, <3>1 DEF MapInv, ChannelEntryInverse, NoEntry, Entries
    <3>3. openName[ch] \in Names \cup {NoName}
      BY DEF SessionTypeOK
    <3> QED
      BY <1>4, <2>1, <3>1, <3>2, <3>3 DEF EnsuredEntry, EntryType, NamesFile, FileNames
  <2>2. CASE MappedEntry(ch) = NoEntry
    <3>1. ~ catalog[e].used
      BY <2>2, NewEntryIsUnused DEF MapInv
    <3>2. catalog[e].blocks = 0
      BY <1>2, <1>4, <3>1 DEF MapInv, OwnerAccounting, EntryType
    <3>3. PickCatalogName(ch, a) \in FileNames
      BY DEF PickCatalogName, NamesFile, SessionTypeOK, FileNames
    <3> QED
      BY <2>2, <3>2, <3>3 DEF EnsuredEntry, EntryType
  <2> QED
    BY <2>1, <2>2
<1>6. /\ allocated' = allocated \cup {b}
      /\ owner' = [owner EXCEPT ![b] = e]
      /\ allocatedCount' = allocatedCount + 1
      /\ catalog' = [catalog EXCEPT ![e] = [r EXCEPT !.blocks = r.blocks + 1]]
      /\ channelEntry' = [channelEntry EXCEPT ![ch] = e]
  BY DEF AllocateVirtualBlock
<1> HIDE DEF b, e, r
<1>7. /\ catalog'[e] \in EntryType /\ catalog'[e].used /\ catalog'[e].channel = ch
      /\ catalog'[e].blocks = catalog[e].blocks + 1
  BY <1>2, <1>4, <1>5, <1>6 DEF EntryType
<1>8. \A f \in Entries \ {e} : catalog'[f] = catalog[f]
  BY <1>4, <1>6
<1>9. MapTypeOK'
  BY <1>1, <1>2, <1>4, <1>6, <1>7 DEF MapInv, MapTypeOK
<1>10. (allocatedCount = Cardinality(allocated))'
  BY <1>1, <1>6, BlocksFinite, FS_Subset, FS_AddElement DEF MapInv, MapTypeOK
<1>11. OwnerAccounting'
  <2>1. \A x \in Blocks : (owner'[x] # NoEntry) <=> (x \in allocated')
    BY <1>1, <1>2, <1>6 DEF MapInv, MapTypeOK, OwnerAccounting, NoEntry, Entries
  <2>2. ASSUME NEW f \in Entries
        PROVE  /\ catalog'[f].blocks = Cardinality(OwnedBlocks(f)')
               /\ catalog'[f].used <=> catalog'[f].blocks > 0
    <3>1. CASE f = e
      <4>1. OwnedBlocks(f)' = OwnedBlocks(f) \cup {b} /\ b \notin OwnedBlocks(f)
        BY <1>1, <1>2, <1>3, <1>6, <3>1 DEF MapInv, MapTypeOK, OwnedBlocks, NoEntry, Entries
      <4>2. Cardinality(OwnedBlocks(f)') = Cardinality(OwnedBlocks(f)) + 1
        BY <4>1, OwnedBlocksFinite, FS_AddElement
      <4>3. catalog[e].blocks = Cardinality(OwnedBlocks(f)) /\ catalog[e].blocks \in Nat
        BY <1>2, <1>4, <3>1 DEF MapInv, OwnerAccounting, EntryType
      <4> QED
        BY <1>7, <3>1, <4>2, <4>3
    <3>2. CASE f # e
      <4>1. OwnedBlocks(f)' = OwnedBlocks(f)
        BY <1>1, <1>3, <1>6, <3>2 DEF MapInv, MapTypeOK, OwnedBlocks, NoEntry, Entries
      <4> QED
        BY <1>8, <3>2, <4>1 DEF MapInv, OwnerAccounting
    <3> QED
      BY <3>1, <3>2
  <2> QED
    BY <2>1, <2>2 DEF OwnerAccounting
<1>12. ChannelEntryInverse'
  <2>1. \A f \in Entries \ {e} : catalog[f].used => catalog[f].channel # ch
    BY <1>2 DEF MapInv, ChannelEntryInverse, MappedEntry, EntryForChannel, NoEntry, Entries, e
  <2>2. ASSUME NEW f \in Entries, catalog'[f].used
        PROVE  catalog'[f].channel \in Channels /\ channelEntry'[catalog'[f].channel] = f
    BY <1>6, <1>7, <1>8, <2>1, <2>2 DEF MapInv, MapTypeOK, ChannelEntryInverse
  <2>3. ASSUME NEW c \in Channels, channelEntry'[c] # NoEntry
        PROVE  catalog'[channelEntry'[c]].used /\ catalog'[channelEntry'[c]].channel = c
    <3>1. CASE c = ch
      BY <1>6, <1>7, <3>1 DEF MapInv, MapTypeOK
    <3>2. CASE c # ch
      <4>1. channelEntry'[c] = channelEntry[c] /\ channelEntry[c] \in Entries
        BY <1>6, <2>3, <3>2 DEF MapInv, MapTypeOK
      <4>2. catalog[channelEntry[c]].used /\ catalog[channelEntry[c]].channel = c
        BY <2>3, <4>1 DEF MapInv, ChannelEntryInverse
      <4>3. channelEntry[c] # e
        <5>1. CASE MappedEntry(ch) = NoEntry
          BY <4>2, <5>1, NewEntryIsUnused DEF MapInv, e
        <5>2. CASE MappedEntry(ch) # NoEntry
          <6>1. e = channelEntry[ch] /\ channelEntry[ch] # NoEntry
            BY <5>2 DEF MappedEntry, EntryForChannel, e
          <6>2. catalog[e].channel = ch
            BY <6>1 DEF MapInv, ChannelEntryInverse
          <6> QED
            BY <3>2, <4>2, <6>2
        <5> QED
          BY <5>1, <5>2
      <4> QED
        BY <1>8, <4>1, <4>2, <4>3
    <3> QED
      BY <3>1, <3>2
  <2> QED
    BY <2>2, <2>3 DEF ChannelEntryInverse
<1> QED
  BY <1>9, <1>10, <1>11, <1>12 DEF MapInv

\* So does freeing a slot: its file shrinks by one slot, and goes with the last.
LEMMA FreeKeepsMap ==
    ASSUME MapInv, NEW a \in Addresses, BlockAllocIndex(a) \in allocated,
           FreeVirtualBlock(a)
    PROVE  MapInv'
<1> DEFINE b == BlockAllocIndex(a)
           e == owner[b]
<1>1. b \in Blocks /\ b \in allocated
  BY BlockIndexType
<1>2. e \in Entries /\ e # NoEntry
  BY <1>1 DEF MapInv, MapTypeOK, OwnerAccounting
<1>3. catalog[e] \in EntryType
  BY <1>2 DEF MapInv, MapTypeOK
<1>4. catalog[e].used /\ catalog[e].blocks \in Nat \ {0}
  <2>1. b \in OwnedBlocks(e)
    BY <1>1 DEF OwnedBlocks
  <2>2. Cardinality(OwnedBlocks(e)) # 0
    BY <2>1, OwnedBlocksFinite, FS_EmptySet
  <2> QED
    BY <1>2, <1>3, <2>2 DEF MapInv, OwnerAccounting, EntryType
<1>5. BlocksLeft(e) = catalog[e].blocks - 1 /\ BlocksLeft(e) \in Nat
  BY <1>4 DEF BlocksLeft
<1>6. /\ allocated' = allocated \ {b}
      /\ owner' = [owner EXCEPT ![b] = NoEntry]
      /\ allocatedCount' = IF allocatedCount > 0 THEN allocatedCount - 1 ELSE 0
      /\ catalog' = [catalog EXCEPT ![e] = EntryWithoutBlock(e)]
      /\ channelEntry' = ChannelsWithoutEntry(e)
  BY <1>2, <1>4 DEF FreeVirtualBlock
<1> HIDE DEF b, e
<1>7. /\ EntryWithoutBlock(e) \in EntryType
      /\ EntryWithoutBlock(e).blocks = BlocksLeft(e)
      /\ EntryWithoutBlock(e).used <=> BlocksLeft(e) > 0
      /\ EntryWithoutBlock(e).used => EntryWithoutBlock(e).channel = catalog[e].channel
  BY <1>3, <1>4, <1>5 DEF EntryWithoutBlock, EmptyEntry, EntryType
<1>8. /\ catalog'[e] = EntryWithoutBlock(e)
      /\ \A f \in Entries \ {e} : catalog'[f] = catalog[f]
  BY <1>2, <1>6 DEF MapInv, MapTypeOK
<1>9. catalog[e].channel \in Channels /\ channelEntry[catalog[e].channel] = e
  BY <1>2, <1>4 DEF MapInv, ChannelEntryInverse
<1>10. \A c \in Channels :
         channelEntry'[c] = IF BlocksLeft(e) = 0 /\ c = catalog[e].channel
                            THEN NoEntry ELSE channelEntry[c]
  BY <1>6, <1>9 DEF ChannelsWithoutEntry
<1>11. MapTypeOK'
  <2>1. allocated' \subseteq Blocks /\ allocatedCount' \in Nat
    BY <1>6 DEF MapInv, MapTypeOK
  <2>2. owner' \in [Blocks -> Entries \cup {NoEntry}]
    BY <1>6 DEF MapInv, MapTypeOK
  <2>3. catalog' \in [Entries -> EntryType]
    BY <1>6, <1>7 DEF MapInv, MapTypeOK
  <2>4. channelEntry' \in [Channels -> Entries \cup {NoEntry}]
    BY <1>6 DEF MapInv, MapTypeOK, ChannelsWithoutEntry
  <2> QED
    BY <2>1, <2>2, <2>3, <2>4 DEF MapTypeOK
<1>12. (allocatedCount = Cardinality(allocated))'
  <2>1. IsFiniteSet(allocated)
    BY BlocksFinite, FS_Subset DEF MapInv, MapTypeOK
  <2>2. Cardinality(allocated') = Cardinality(allocated) - 1
    BY <1>1, <1>6, <2>1, FS_RemoveElement
  <2>3. Cardinality(allocated) # 0 /\ Cardinality(allocated) \in Nat
    BY <1>1, <2>1, FS_EmptySet, FS_CardinalityType
  <2> QED
    BY <1>6, <2>2, <2>3 DEF MapInv
<1>13. OwnerAccounting'
  <2>1. \A x \in Blocks : (owner'[x] # NoEntry) <=> (x \in allocated')
    BY <1>1, <1>6 DEF MapInv, MapTypeOK, OwnerAccounting
  <2>2. ASSUME NEW f \in Entries
        PROVE  /\ catalog'[f].blocks = Cardinality(OwnedBlocks(f)')
               /\ catalog'[f].used <=> catalog'[f].blocks > 0
    <3>1. CASE f = e
      <4>1. OwnedBlocks(f)' = OwnedBlocks(f) \ {b} /\ b \in OwnedBlocks(f)
        BY <1>1, <1>2, <1>6, <3>1 DEF MapInv, MapTypeOK, OwnedBlocks, e
      <4>2. Cardinality(OwnedBlocks(f)') = Cardinality(OwnedBlocks(f)) - 1
        BY <4>1, OwnedBlocksFinite, FS_RemoveElement
      <4>3. catalog[f].blocks = Cardinality(OwnedBlocks(f))
        BY DEF MapInv, OwnerAccounting
      <4> QED
        BY <1>5, <1>7, <1>8, <3>1, <4>2, <4>3
    <3>2. CASE f # e
      <4>1. OwnedBlocks(f)' = OwnedBlocks(f)
        BY <1>1, <1>2, <1>6, <3>2 DEF MapInv, MapTypeOK, OwnedBlocks, NoEntry, Entries, e
      <4> QED
        BY <1>8, <3>2, <4>1 DEF MapInv, OwnerAccounting
    <3> QED
      BY <3>1, <3>2
  <2> QED
    BY <2>1, <2>2 DEF OwnerAccounting
<1>14. ChannelEntryInverse'
  <2>1. ASSUME NEW f \in Entries, catalog'[f].used
        PROVE  catalog'[f].channel \in Channels /\ channelEntry'[catalog'[f].channel] = f
    <3>1. catalog[f].used /\ catalog'[f].channel = catalog[f].channel
      BY <1>4, <1>7, <1>8, <2>1
    <3>2. catalog[f].channel \in Channels /\ channelEntry[catalog[f].channel] = f
      BY <3>1 DEF MapInv, ChannelEntryInverse
    <3>3. ~ (BlocksLeft(e) = 0 /\ f = e)
      BY <1>5, <1>7, <1>8, <2>1
    <3> QED
      BY <1>9, <1>10, <3>1, <3>2, <3>3
  <2>2. ASSUME NEW c \in Channels, channelEntry'[c] # NoEntry
        PROVE  catalog'[channelEntry'[c]].used /\ catalog'[channelEntry'[c]].channel = c
    <3>1. channelEntry'[c] = channelEntry[c] /\ channelEntry[c] \in Entries
      BY <1>10, <2>2 DEF MapInv, MapTypeOK
    <3>2. catalog[channelEntry[c]].used /\ catalog[channelEntry[c]].channel = c
      BY <2>2, <3>1 DEF MapInv, ChannelEntryInverse
    <3>3. CASE channelEntry[c] = e
      <4>1. BlocksLeft(e) # 0
        BY <1>10, <2>2, <3>2, <3>3
      <4>2. EntryWithoutBlock(e).used /\ EntryWithoutBlock(e).channel = catalog[e].channel
        <5>1. BlocksLeft(e) > 0
          BY <1>4, <4>1 DEF BlocksLeft
        <5> QED
          BY Zenon, <1>7, <5>1
      <4>3. catalog[e].channel = c
        BY <3>2, <3>3
      <4>4. catalog'[channelEntry'[c]] = EntryWithoutBlock(e)
        BY <1>8, <3>1, <3>3
      <4> QED
        BY <4>2, <4>3, <4>4
    <3>4. CASE channelEntry[c] # e
      BY <1>8, <3>1, <3>2, <3>4
    <3> QED
      BY <3>3, <3>4
  <2> QED
    BY <2>1, <2>2 DEF ChannelEntryInverse
<1> QED
  BY <1>11, <1>12, <1>13, <1>14 DEF MapInv

\* Nothing else touches the map.
LEMMA UnchangedKeepsMap ==
    ASSUME MapInv, UNCHANGED <<mapVars, fileVars>>
    PROVE  MapInv'
  BY DEF MapInv, MapTypeOK, OwnerAccounting, OwnedBlocks, ChannelEntryInverse, mapVars, fileVars

-----------------------------------------------------------------------------

\* An empty map is a consistent one.
LEMMA EmptyMapIsConsistent ==
    ASSUME /\ allocated = InitialState.allocated
           /\ owner = InitialState.owner
           /\ allocatedCount = InitialState.count
           /\ catalog = InitialState.catalog
           /\ channelEntry = InitialState.channelEntry
    PROVE  MapInv
<1>1. MapTypeOK
  BY DEF MapTypeOK, InitialState, EntryType, EmptyEntry
<1>2. allocatedCount = Cardinality(allocated)
  BY FS_EmptySet DEF InitialState
<1>3. OwnerAccounting
  <2>1. \A e \in Entries : OwnedBlocks(e) = {}
    BY DEF OwnedBlocks, InitialState, NoEntry, Entries
  <2> QED
    BY <2>1, FS_EmptySet DEF OwnerAccounting, InitialState, EmptyEntry
<1>4. ChannelEntryInverse
  BY DEF ChannelEntryInverse, InitialState, EmptyEntry
<1> QED
  BY <1>1, <1>2, <1>3, <1>4 DEF MapInv

\* No command breaks the inductive invariant.
LEMMA StepKeepsIInv ==
    ASSUME IInv, [Next]_vars
    PROVE  IInv'
<1> USE DEF IInv
<1>1. ASSUME Listen PROVE IInv'
  BY <1>1, UnchangedKeepsMap, ChannelAssumption DEF Listen, SessionTypeOK, mapVars, fileVars
<1>2. ASSUME NEW ch \in Channels, OpenSecondary(ch) PROVE IInv'
  BY <1>2, UnchangedKeepsMap DEF OpenSecondary, SessionTypeOK, mapVars, fileVars
<1>3. ASSUME NEW ch \in Channels, Close(ch) PROVE IInv'
  BY <1>3, UnchangedKeepsMap DEF Close, SessionTypeOK, mapVars, fileVars
<1>4. ASSUME NEW name \in Names \cup {NoName}, CommitOpenName(name) PROVE IInv'
  BY <1>4, UnchangedKeepsMap DEF CommitOpenName, SessionTypeOK, mapVars, fileVars
<1>5. ASSUME RunsCommand, bufferValid' \in BOOLEAN, status' \in Statuses
      PROVE  SessionTypeOK'
  BY <1>5 DEF RunsCommand, SessionTypeOK
<1>6. ASSUME NEW ch \in Channels, NEW a \in Addresses, BlockAllocate(ch, a) PROVE IInv'
  <2>1. SessionTypeOK'
    BY <1>5, <1>6 DEF BlockAllocate, SessionTypeOK, Statuses
  <2>2. MapInv'
    BY <1>6, AllocateKeepsMap, UnchangedKeepsMap DEF BlockAllocate
  <2> QED
    BY <2>1, <2>2
<1>7. ASSUME NEW a \in Addresses, BlockFree(a) PROVE IInv'
  <2>1. SessionTypeOK'
    BY <1>5, <1>7 DEF BlockFree, SessionTypeOK, Statuses
  <2>2. MapInv'
    BY <1>7, FreeKeepsMap, UnchangedKeepsMap DEF BlockFree, mapVars, fileVars
  <2> QED
    BY <2>1, <2>2
<1>8. ASSUME NEW a \in Addresses, BlockRead(a) PROVE IInv'
  <2>1. SessionTypeOK'
    BY <1>5, <1>8 DEF BlockRead, SessionTypeOK, Statuses
  <2> QED
    BY <1>8, <2>1, UnchangedKeepsMap DEF BlockRead
<1>9. ASSUME NEW ch \in Channels, NEW a \in Addresses, NEW result \in FlushResults,
             BlockWrite(ch, a, result)
      PROVE  IInv'
  <2>1. FlushStatus(result) \in Statuses
    BY DEF FlushStatus, FlushResults, Statuses
  <2>2. SessionTypeOK'
    BY <1>5, <1>9, <2>1 DEF BlockWrite, SessionTypeOK, Statuses
  <2>3. MapInv'
    BY <1>9, AllocateKeepsMap, UnchangedKeepsMap DEF BlockWrite
  <2> QED
    BY <2>2, <2>3
<1>10. ASSUME NEW code \in CommandCodes, OtherCommand(code) PROVE IInv'
  <2>1. SessionTypeOK'
    BY <1>5, <1>10 DEF OtherCommand, CommandCodes, SessionTypeOK, Statuses
  <2> QED
    BY <1>10, <2>1, UnchangedKeepsMap DEF OtherCommand, mapVars, fileVars
<1>13. ASSUME NEW code \in AsideCodes, StatusAside(code) PROVE IInv'
  <2>1. SessionTypeOK'
    BY <1>13 DEF StatusAside, AsideCodes, nameVars, SessionTypeOK, Statuses
  <2> QED
    BY <1>13, <2>1, UnchangedKeepsMap DEF StatusAside, mapVars, fileVars
<1>11. ASSUME Reset PROVE IInv'
  <2>1. MapInv'
    <3>1. MapTypeOK'
      BY <1>11 DEF Reset, MapTypeOK, InitialState, EntryType, EmptyEntry
    <3>2. (allocatedCount = Cardinality(allocated))'
      BY <1>11, FS_EmptySet DEF Reset, InitialState
    <3>3. OwnerAccounting'
      <4>1. \A e \in Entries : OwnedBlocks(e)' = {}
        BY <1>11 DEF Reset, OwnedBlocks, InitialState, NoEntry, Entries
      <4>2. \A b \in Blocks : owner'[b] = NoEntry /\ b \notin allocated'
        BY <1>11 DEF Reset, InitialState
      <4>3. \A e \in Entries : catalog'[e] = EmptyEntry
        BY <1>11 DEF Reset, InitialState
      <4>4. ~ EmptyEntry.used /\ EmptyEntry.blocks = 0
        BY DEF EmptyEntry
      <4> QED
        BY <4>1, <4>2, <4>3, <4>4, FS_EmptySet DEF OwnerAccounting
    <3>4. ChannelEntryInverse'
      BY <1>11 DEF Reset, ChannelEntryInverse, InitialState, EmptyEntry
    <3> QED
      BY <3>1, <3>2, <3>3, <3>4 DEF MapInv
  <2>2. SessionTypeOK'
    BY <1>11 DEF Reset, SessionTypeOK, InitialState, Statuses
  <2> QED
    BY <2>1, <2>2
<1>12. ASSUME UNCHANGED vars PROVE IInv'
  BY <1>12, UnchangedKeepsMap DEF vars, nameVars, SessionTypeOK
<1> QED
  BY <1>1, <1>2, <1>3, <1>4, <1>6, <1>7, <1>8, <1>9, <1>10, <1>11, <1>12, <1>13 DEF Next

\* After any sequence of commands the map, the counter and the catalogue agree.
THEOREM Consistent == Spec => []IInv
<1>1. Init => IInv
  BY EmptyMapIsConsistent DEF Init, IInv, SessionTypeOK, InitialState, Statuses
<1>2. IInv /\ [Next]_vars => IInv'
  BY StepKeepsIInv
<1> QED
  BY <1>1, <1>2, PTL DEF Spec

\* Every variable keeps its type.
THEOREM TypeCorrect == Spec => []TypeOK
<1>1. IInv => TypeOK
  BY DEF IInv, MapInv, MapTypeOK, SessionTypeOK, TypeOK
<1> QED
  BY <1>1, Consistent, PTL

\* BLOCKS FREE in a directory listing is the number of free slots, whatever was
\* allocated, shared, freed and allocated again.
THEOREM FreeCountCorrect == Spec => []FreeCountExact
<1>1. ASSUME IInv PROVE FreeCountExact
  <2>1. allocated \in SUBSET Blocks /\ allocatedCount = Cardinality(allocated)
    BY <1>1 DEF IInv, MapInv, MapTypeOK
  <2>2. IsFiniteSet(allocated) /\ Cardinality(allocated) =< TotalBlocks
    BY <2>1, BlocksFinite, FS_Subset
  <2>3. Cardinality(Blocks \ allocated) = TotalBlocks - Cardinality(Blocks \cap allocated)
    BY BlocksFinite, <2>2, FS_Difference
  <2>4. Blocks \cap allocated = allocated
    BY <2>1
  <2>5. Cardinality(allocated) \in Nat
    BY <2>2, FS_CardinalityType
  <2>6. VirtualBlocksFree = TotalBlocks - Cardinality(allocated)
    BY <2>1, <2>2, <2>5, GeometryAssumption DEF VirtualBlocksFree
  <2> QED
    BY <2>3, <2>4, <2>6 DEF FreeCountExact
<1> QED
  BY <1>1, Consistent, PTL

\* A slot has an owner exactly when it is allocated, and a file's block count is the
\* number of slots it owns.
THEOREM OwnersCorrect == Spec => []OwnerAccounting
<1>1. IInv => OwnerAccounting
  BY DEF IInv, MapInv
<1> QED
  BY <1>1, Consistent, PTL

\* A channel and its catalogue entry name each other.
THEOREM EntriesCorrect == Spec => []ChannelEntryInverse
<1>1. IInv => ChannelEntryInverse
  BY DEF IInv, MapInv
<1> QED
  BY <1>1, Consistent, PTL

\* A catalogue with room for one file per channel is never found full.
THEOREM RoomForEveryChannel == Spec => []CatalogNeverFull
<1>1. ASSUME IInv PROVE CatalogNeverFull
  BY <1>1, NeverFull DEF IInv, MapInv, CatalogNeverFull, NoEntry, Entries
<1> QED
  BY <1>1, Consistent, PTL

=============================================================================
