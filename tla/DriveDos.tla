------------------------------- MODULE DriveDos -------------------------------
(***************************************************************************)
(* What the 1541's command channel and directory answer: on top of the     *)
(* block map and catalogue of DriveBlocks, whose actions these are, the    *)
(* bytes in memory, in the block buffer and on the image, the queue the    *)
(* drive talks from, and the listings with their filters.  Texts are       *)
(* sequences of character codes; a line of a listing, a status line and a  *)
(* byte are one item each of what the host hears.  The bus protocol is     *)
(* DriveSerial's: here the host talks and listens as the KERNAL does.      *)
(***************************************************************************)
EXTENDS Integers, FiniteSets, Sequences

CONSTANTS
    Tracks, Sectors, SectorsPerTrack, TotalBlocks, CatalogSize,
    Channels, LoadChannel, CommandChannel, Names, Dollar, NoName, NoChannel,
    BlockSize,                      \* 256, of a block and between two tracks in memory
    MaskedBit,                      \* 0x4000, which & 0xBFFF takes out of an address
    Dialogues                       \* what is mounted and what the host may say, by name

VARIABLES
    allocated, owner, allocatedCount, catalog, channelEntry, openName, naming, bufferValid, dosStatus

VARIABLES
    dialogue, left,                 \* the dialogue, and the commands it still has
    memory,                         \* memory[]
    disk,                           \* the blocks of the mounted image, if it is one of sectors
    buffer, pos,                    \* iecBlockBuffer, iecChannelBufferPos
    openKind, entryKind,            \* type and mode of the channels' names and of the files
    response,                       \* iecCommandResponseQueue
    tx, talk,                       \* iecTxQueue, iecActiveTalkChannel
    listing                         \* iecDirectory...: prepared, fromBuffer and the filters

VARIABLES
    heard, promised,                \* history: what the host has read, and what it was to read
    asked,                          \* history: the answer to a memory read not yet sent
    kept                            \* history: what is known to be in a block

Map == INSTANCE DriveBlocks WITH status <- dosStatus

store == <<memory, disk, buffer, pos>>
kinds == <<openKind, entryKind>>
talking == <<response, tx, talk, listing>>
history == <<heard, promised, asked, kept>>
mapVars == <<allocated, owner, allocatedCount, catalog, channelEntry, openName, naming, bufferValid, dosStatus>>
dosVars == <<mapVars, dialogue, left, store, kinds, talking, history>>

Dialogue == Dialogues[dialogue]
Addresses == Tracks \X Sectors
Mounted == Dialogue.image # "none"
SectorImage == Dialogue.image = "d64"
Says == left > 0 /\ left' = left - 1

-----------------------------------------------------------------------------
(* Names, filters and the wildcard match.                                  *)

Star == 42
Question == 63
Digits == <<48, 49, 50, 51, 52, 53, 54, 55, 56, 57, 65, 66, 67, 68, 69, 70>>
Hex(b) == <<Digits[(b \div 16) + 1], Digits[(b % 16) + 1]>>
makeCatalogName(a) == <<66, 76, 75, 45>> \o Hex(a[1]) \o Hex(a[2])
Text(name) == IF name \in Addresses THEN makeCatalogName(name) ELSE name

PlainKind == [type |-> "PRG", mode |-> ""]
TypeOf == [P |-> "PRG", S |-> "SEQ", U |-> "USR", L |-> "REL"]

FileModes == {"R", "W", "A"}

\* parseOpenSpec: of the words behind the name each sets the type or the mode, and the last
\* that does so counts.
Among(words, S) == {i \in DOMAIN words : words[i] \in S}
Latest(places) == CHOOSE i \in places : \A j \in places : j <= i
KindOf(words) ==
    LET types == Among(words, DOMAIN TypeOf)
        modes == Among(words, FileModes)
    IN  [type |-> IF types = {} THEN PlainKind.type ELSE TypeOf[words[Latest(types)]],
         mode |-> IF modes = {} THEN PlainKind.mode ELSE words[Latest(modes)]]

NoFilters == [pattern |-> <<>>, type |-> "", mode |-> "", negated |-> FALSE]
Negation == [w \in {"!R", "!W", "!A"} |-> CASE w = "!R" -> "R" [] w = "!W" -> "W" [] w = "!A" -> "A"]
\* extractDirectoryFilters: the second word is a type and the third a mode, or they are nothing.
FiltersOf(name, words) ==
    LET w == words \o <<"", "">>
    IN  [pattern |-> Tail(name),
         type |-> IF w[1] \in DOMAIN TypeOf THEN TypeOf[w[1]] ELSE "",
         mode |-> IF w[2] \in FileModes THEN w[2]
                  ELSE IF w[2] \in DOMAIN Negation THEN Negation[w[2]] ELSE "",
         negated |-> w[2] \in DOMAIN Negation]

\* wildcardMatch: the places in the pattern and in the text, the latest star (0: none) and the
\* place in the text it was met at or last tried to.
ScanStart == [p |-> 1, t |-> 1, star |-> 0, match |-> 1, failed |-> FALSE]

\* On a mismatch the latest star takes one character more.
Retry(s) == [s EXCEPT !.p = s.star + 1, !.t = s.match + 1, !.match = @ + 1]

\* One turn of the loop, which stands still when it is over.
ScanTurn(pattern, text, s) ==
    LET here == s.p <= Len(pattern)
    IN  IF s.failed \/ s.t > Len(text) THEN s
        ELSE IF here /\ pattern[s.p] \in {Question, text[s.t]}
             THEN [s EXCEPT !.p = @ + 1, !.t = @ + 1]
        ELSE IF here /\ pattern[s.p] = Star
             THEN [s EXCEPT !.p = @ + 1, !.star = s.p, !.match = s.t]
        ELSE IF s.star > 0 THEN Retry(s) ELSE [s EXCEPT !.failed = TRUE]

Scan(pattern, text) ==
    LET after[k \in Nat] == IF k = 0 THEN ScanStart ELSE ScanTurn(pattern, text, after[k - 1])
    IN  after

\* The loop is over after this many turns.
MostTurns(pattern, text) == (Len(text) + 1) * (Len(pattern) + 2)

wildcardMatch(pattern, text) ==
    pattern = <<>> \/
    LET s == Scan(pattern, text)[MostTurns(pattern, text)]
    IN  ~s.failed /\ \A i \in s.p..Len(pattern) : pattern[i] = Star

Passes(f, file) ==
    /\ wildcardMatch(f.pattern, file.name)
    /\ f.type = "" \/ file.type = f.type
    /\ f.mode = "" \/ (file.mode = f.mode) # f.negated

-----------------------------------------------------------------------------
(* What the host hears.                                                    *)

Row(file) == <<"row", file.name, file.blocks, file.type, file.mode>>
File(e) == [name |-> Text(catalog[e].name), blocks |-> catalog[e].blocks,
            type |-> entryKind[e].type, mode |-> entryKind[e].mode]
Files == [i \in 1..CatalogSize |-> File(i - 1)]
InUse == {i \in 1..CatalogSize : catalog[i - 1].used}

\* The rows of the chosen files, in the order of the files.
Chosen(places, k) == CHOOSE i \in places : Cardinality({j \in places : j < i}) = k - 1
Rows(files, places) ==
    IF places = {} THEN <<<<"nothing">>>>
    ELSE [k \in 1..Cardinality(places) |-> Row(files[Chosen(places, k)])]
Listing(files, places, free) == <<<<"title">>>> \o Rows(files, places) \o <<<<"free", free>>>>

\* buildDirectoryStubPayload and buildDirectoryPayloadFromMountedD64.
StubPayload(f) == Listing(Files, {i \in InUse : Passes(f, Files[i])}, Map!VirtualBlocksFree)
MountedPayload(f) ==
    LET files == Dialogue.directory
    IN  Listing(files, {i \in DOMAIN files : Passes(f, files[i])}, Dialogue.free)
\* The block buffer from a channel's position on, as a program.
BufferPayload(ch) ==
    <<<<"title">>>> \o [i \in 1..(BlockSize - pos[ch]) |-> <<"byte", buffer[pos[ch] + i]>>]
Bytes(values) == [i \in DOMAIN values |-> <<"byte", values[i]>>]
StatusPayload(s) == <<<<"status", s>>>>
ResponsePayload == Bytes(response)

\* What a pattern means: its characters stand for the pieces of the text, one after the other,
\* a star for any piece and every other character for a piece of one character.
Matches(pattern, text) ==
    \E end \in [DOMAIN pattern -> 0..Len(text)] :
        LET End(i) == IF i = 0 THEN 0 ELSE end[i]
        IN  /\ End(Len(pattern)) = Len(text)
            /\ \A i \in DOMAIN pattern :
                  /\ End(i - 1) <= End(i)
                  /\ pattern[i] # Star => /\ End(i) = End(i - 1) + 1
                                         /\ pattern[i] \in {Question, text[End(i)]}

\* A text is matched as the pattern means.
MeansIt(pattern, text) ==
    wildcardMatch(pattern, text) <=> pattern = <<>> \/ Matches(pattern, text)

\* The same listings by the meaning of the filters.
Selected(f, file) ==
    /\ f.pattern # <<>> => Matches(f.pattern, file.name)
    /\ f.type # "" => file.type = f.type
    /\ f.mode # "" => ((file.mode = f.mode) <=> ~f.negated)
Promise(files, places, free, f) == Listing(files, {i \in places : Selected(f, files[i])}, free)
StubPromise(f) == Promise(Files, InUse, Map!VirtualBlocksFree, f)

Sends(payload, promise) ==
    /\ tx' = payload
    /\ heard' = <<>>
    /\ promised' = promise

-----------------------------------------------------------------------------
(* Names.                                                                  *)

Listen ==
    /\ Map!Listen
    /\ Says
    /\ UNCHANGED <<dialogue, store, kinds, talking, history>>
OpenSecondary(ch) ==
    /\ Map!OpenSecondary(ch)
    /\ Says
    /\ UNCHANGED <<dialogue, store, kinds, talking, history>>
Close(ch) ==
    /\ Map!Close(ch)
    /\ UNCHANGED <<dialogue, left, store, kinds, talking, history>>

IsDirectory(name) == name # NoName /\ name[1] = Dollar[1]

\* UNLISTEN after OPEN: the name is kept, and on channel 0 a "$" builds the listing, which
\* the block buffer replaces if it holds anything.
SetListing(f, fromBuffer) ==
    listing' = [prepared |-> TRUE, fromBuffer |-> fromBuffer, filters |-> f]
BuildDirectory(f) ==
    CASE Dialogue.image = "d64" ->
            Sends(MountedPayload(f), Promise(Dialogue.directory, DOMAIN Dialogue.directory, Dialogue.free, f))
            /\ SetListing(f, FALSE)
      [] Dialogue.image # "d64" /\ bufferValid ->
            Sends(BufferPayload(LoadChannel), BufferPayload(LoadChannel)) /\ SetListing(f, TRUE)
      [] OTHER ->
            Sends(StubPayload(f), StubPromise(f)) /\ SetListing(f, FALSE)

Unlisten(name, words) ==
    /\ naming # CommandChannel
    /\ Map!CommitOpenName(name)
    /\ openKind' = [openKind EXCEPT ![naming] = KindOf(words)]
    /\ IF naming = LoadChannel /\ IsDirectory(name) THEN BuildDirectory(FiltersOf(name, words))
       ELSE UNCHANGED <<tx, listing, heard, promised>>
    /\ UNCHANGED <<dialogue, left, store, entryKind, response, talk, asked, kept>>

-----------------------------------------------------------------------------
(* Commands.  UNLISTEN has committed the command channel's empty name.     *)

Commands == openKind' = [openKind EXCEPT ![CommandChannel] = PlainKind]
SaysNothing == UNCHANGED <<dialogue, left, talk, tx, listing, heard, promised>>

\* blockLinearBase: a track's blocks begin one byte apart, and tracks beyond the masked bit
\* fold onto others, byte by byte.
Masked(c) == IF (c \div MaskedBit) % 2 = 1 THEN c - MaskedBit ELSE c
blockLinearBase(a) == Masked((BlockSize * a[1]) + a[2])
Cell(a, i) == Masked(blockLinearBase(a) + i - 1)
CellsOf(a) == {Cell(a, i) : i \in 1..BlockSize}
InMemory(a) == [i \in 1..BlockSize |-> memory[Cell(a, i)]]

\* M-R: the bytes wait until the host talks on the command channel.
MemoryRead ==
    /\ \E r \in Dialogue.memoryReads :
        /\ response' = [i \in 1..r[2] |-> memory[r[1] + i - 1]]
        /\ asked' = {response'}
    /\ Map!OtherCommand("00")
    /\ Commands /\ SaysNothing
    /\ UNCHANGED <<store, entryKind, kept>>

\* M-W: the bytes before one that is not hexadecimal are written all the same.
MemoryWrite ==
    /\ \E w \in Dialogue.memoryWrites :
        LET count == Cardinality({i \in DOMAIN w.bytes : \A j \in 1..i : w.bytes[j] >= 0})
            cells == w.at..(w.at + count - 1)
        IN  /\ memory' = [c \in DOMAIN memory |-> IF c \in cells THEN w.bytes[c - w.at + 1] ELSE memory[c]]
            /\ kept' = [a \in Addresses |-> IF ~Mounted /\ CellsOf(a) \cap cells # {} THEN {} ELSE kept[a]]
            /\ Map!OtherCommand(IF count = Len(w.bytes) THEN "00" ELSE "30")
    /\ Commands /\ SaysNothing
    /\ UNCHANGED <<disk, buffer, pos, entryKind, response, asked>>

\* M-E, U1, UI, NEW and what is no command.
StatusOnly ==
    /\ \E code \in Dialogue.codes : Map!OtherCommand(code)
    /\ Commands /\ SaysNothing
    /\ UNCHANGED <<store, entryKind, response, asked, kept>>

BufferPointer ==
    /\ \E ch \in Dialogue.blockChannels, p \in Dialogue.pointers : pos' = [pos EXCEPT ![ch] = p]
    /\ Map!OtherCommand("00")
    /\ Commands /\ SaysNothing
    /\ UNCHANGED <<memory, disk, buffer, entryKind, response, asked, kept>>

\* The type and the mode go where the name goes.
KindsAfter(ch, a) ==
    IF ~Map!CanAllocate(ch, a) \/ (Map!MappedEntry(ch) # Map!NoEntry /\ ~Map!NamesFile(ch)) THEN entryKind
    ELSE [entryKind EXCEPT ![Map!EntryForChannel(ch)] = openKind[ch]]

BlockAllocate(ch, a) ==
    /\ Map!BlockAllocate(ch, a)
    /\ entryKind' = KindsAfter(ch, a)
    /\ Commands /\ SaysNothing
    /\ UNCHANGED <<store, response, asked, kept>>

BlockFree(a) ==
    /\ Map!BlockFree(a)
    /\ buffer' = IF dosStatus' = "00" THEN [i \in 1..BlockSize |-> 0] ELSE buffer
    /\ entryKind' = [e \in DOMAIN entryKind |-> IF catalog'[e].used THEN entryKind[e] ELSE PlainKind]
    /\ Commands /\ SaysNothing
    /\ UNCHANGED <<memory, disk, pos, response, asked, kept>>

\* A block the image cannot read comes from memory.  An image of tracks encodes what it writes
\* and decodes what it reads, and gives any block of the dialogue's: DiskImage has which.
Reads(a) == Mounted /\ Dialogue.results[a] # "invalid address"
Contents(a) ==
    IF ~Reads(a) THEN {InMemory(a)} ELSE IF SectorImage THEN {disk[a]} ELSE Dialogue.decoded
BlockRead(a) ==
    /\ Map!BlockRead(a)
    /\ IF dosStatus' = "00" THEN buffer' \in Contents(a) ELSE UNCHANGED buffer
    /\ Commands /\ SaysNothing
    /\ UNCHANGED <<memory, disk, pos, entryKind, response, asked, kept>>

\* Mutant: the block goes to memory, mounted image or not.
FlushToMemory(a) ==
    /\ memory' = [c \in DOMAIN memory |->
                    IF c \in CellsOf(a) THEN buffer[CHOOSE i \in 1..BlockSize : Cell(a, i) = c] ELSE memory[c]]
    /\ UNCHANGED disk
\* flushVirtualBlock, when it writes.
Flush(a) ==
    /\ disk' = IF SectorImage THEN [disk EXCEPT ![a] = buffer] ELSE disk
    /\ memory' = IF Mounted THEN memory
                 ELSE [c \in DOMAIN memory |->
                        IF c \in CellsOf(a) THEN buffer[CHOOSE i \in 1..BlockSize : Cell(a, i) = c]
                        ELSE memory[c]]

Overlap(a, b) == ~Mounted /\ CellsOf(a) \cap CellsOf(b) # {}
\* What is known of the blocks once one is written: nothing of one that is encoded.
KnownAfter(a) ==
    [b \in Addresses |-> IF b = a THEN (IF Mounted /\ ~SectorImage THEN {} ELSE {buffer})
                        ELSE IF Overlap(a, b) THEN {} ELSE kept[b]]
BlockWrite(ch, a) ==
    /\ Map!BlockWrite(ch, a, IF Mounted THEN Dialogue.results[a] ELSE "written")
    /\ entryKind' = KindsAfter(ch, a)
    /\ IF bufferValid /\ dosStatus' = "00"
       THEN Flush(a) /\ kept' = KnownAfter(a)
       ELSE UNCHANGED <<memory, disk, kept>>
    /\ Commands /\ SaysNothing
    /\ UNCHANGED <<buffer, pos, response, asked>>

-----------------------------------------------------------------------------
(* Talking.                                                                *)

Talks(ch) ==
    /\ Says
    /\ talk' = ch
    /\ UNCHANGED <<mapVars, dialogue, store, kinds, kept>>

\* TALK on channel 0: a listing that has been read is built again, and then from the
\* catalogue, whatever is mounted.
TalkLoad ==
    /\ Talks(LoadChannel)
    /\ IF tx = <<>> /\ listing.prepared
       THEN IF listing.fromBuffer /\ bufferValid
            THEN Sends(BufferPayload(LoadChannel), BufferPayload(LoadChannel)) /\ UNCHANGED listing
            ELSE /\ Sends(StubPayload(listing.filters), StubPromise(listing.filters))
                 /\ listing' = [listing EXCEPT !.fromBuffer = FALSE]
       ELSE UNCHANGED <<tx, heard, promised, listing>>
    /\ UNCHANGED <<response, asked>>

\* An answer is given once.
AnswerGiven == <<>>

\* TALK on channel 15: the answer of a memory read goes before the status, once.
TalkCommand ==
    /\ Talks(CommandChannel)
    /\ Sends(IF response # <<>> THEN ResponsePayload ELSE StatusPayload(dosStatus),
             IF asked # {} THEN Bytes(CHOOSE r \in asked : TRUE) ELSE StatusPayload(dosStatus))
    /\ response' = AnswerGiven
    /\ asked' = {}
    /\ UNCHANGED listing

\* TALK on another channel: no channel, and the queue stays.
TalkElsewhere(ch) ==
    /\ ch \notin {LoadChannel, CommandChannel}
    /\ Map!StatusAside("70")
    /\ Says
    /\ talk' = ch
    /\ UNCHANGED <<dialogue, store, kinds, response, tx, listing, history>>

\* hostReadTalkByte, and the serial engine's.
HostReads ==
    /\ talk # NoChannel /\ tx # <<>>
    /\ tx' = Tail(tx)
    /\ heard' = Append(heard, Head(tx))
    /\ UNCHANGED <<mapVars, dialogue, left, store, kinds, response, talk, listing, promised, asked, kept>>

Untalk ==
    /\ talk # NoChannel
    /\ talk' = NoChannel
    /\ UNCHANGED <<mapVars, dialogue, left, store, kinds, response, tx, listing, history>>

FreshListing == [prepared |-> FALSE, fromBuffer |-> FALSE, filters |-> NoFilters]
FreshBuffer == [i \in 1..BlockSize |-> 0]
Fresh ==
    [pos |-> [ch \in Channels |-> 0], openKind |-> [ch \in Channels |-> PlainKind],
     entryKind |-> [e \in 0..(CatalogSize - 1) |-> PlainKind]]

\* The memory and the image outlive a reset, and so does what the drive knows of them.
Reset ==
    /\ Dialogue.reset
    /\ Map!Reset
    /\ Says
    /\ buffer' = FreshBuffer /\ pos' = Fresh.pos
    /\ openKind' = Fresh.openKind /\ entryKind' = Fresh.entryKind
    /\ response' = <<>> /\ talk' = NoChannel /\ listing' = FreshListing
    /\ Sends(<<>>, <<>>)
    /\ asked' = {}
    /\ UNCHANGED <<dialogue, memory, disk, kept>>

DosInit ==
    /\ Map!Init
    /\ dialogue \in DOMAIN Dialogues
    /\ left = Dialogue.length
    /\ memory = [c \in 0..Dialogue.lastCell |-> c % 3]
    /\ disk = [a \in Addresses |-> [i \in 1..BlockSize |-> a[2] + i]]
    /\ buffer = FreshBuffer /\ pos = Fresh.pos
    /\ openKind = Fresh.openKind /\ entryKind = Fresh.entryKind
    /\ response = <<>> /\ tx = <<>> /\ talk = NoChannel /\ listing = FreshListing
    /\ heard = <<>> /\ promised = <<>> /\ asked = {} /\ kept = [a \in Addresses |-> {}]

DosNext ==
    \/ Listen
    \/ \E ch \in Dialogue.opens : OpenSecondary(ch) \/ Close(ch)
    \/ \E spec \in Dialogue.specs : Unlisten(spec.name, spec.words)
    \/ MemoryRead \/ MemoryWrite \/ StatusOnly \/ BufferPointer
    \/ \E ch \in Dialogue.blockChannels : \E a \in Dialogue.blocks : BlockAllocate(ch, a) \/ BlockWrite(ch, a)
    \/ \E a \in Dialogue.blocks : BlockFree(a) \/ BlockRead(a)
    \/ TalkLoad \/ TalkCommand \/ HostReads \/ Untalk
    \/ \E ch \in Dialogue.opens : TalkElsewhere(ch)
    \/ Reset

DosSpec == DosInit /\ [][DosNext]_dosVars

-----------------------------------------------------------------------------
(* What the theorems suppose of the constants.                             *)

\* The patterns a dialogue lists with, and the texts they are held against: the names files can
\* have, on the image or from a channel that allocates, and those of the dialogue's own.
PatternsOf(d) == {<<>>} \cup {Tail(spec.name) : spec \in {x \in d.specs : IsDirectory(x.name)}}
TextsOf(d) ==
    d.texts \cup {d.directory[i].name : i \in DOMAIN d.directory}
            \cup {spec.name : spec \in {x \in d.specs : d.blockChannels # {}}}

\* A star in a name is taken for a character before it is taken for a star, and then a pattern
\* may not mean what it says.
Literal(text) == \A i \in DOMAIN text : text[i] # Star

DialogueOK(d) ==
    /\ d.opens \subseteq Channels /\ d.blockChannels \subseteq Channels
    /\ d.blocks \subseteq Addresses /\ d.pointers \subseteq 0..(BlockSize - 1)
    /\ d.lastCell \in Nat /\ \A a \in Addresses : CellsOf(a) \subseteq 0..d.lastCell
    /\ d.decoded \subseteq [1..BlockSize -> Int]
    /\ d.image # "none" => d.results \in [Addresses -> Map!FlushResults]
    /\ \A r \in d.memoryReads : r[2] \in Nat \ {0}
    /\ \A w \in d.memoryWrites : w.at \in Nat /\ w.bytes \in Seq(Int)
    /\ \A spec \in d.specs : spec.name \in Seq(Nat) \ Addresses /\ spec.words \in Seq(STRING)
    /\ DOMAIN d.directory = 1..Len(d.directory) /\ Len(d.directory) \in Nat
    /\ TextsOf(d) \subseteq Seq(Nat)
    /\ \A text \in TextsOf(d) : Literal(text) \/ \A pattern \in PatternsOf(d) : MeansIt(pattern, text)

DosConstants ==
    /\ BlockSize \in Nat \ {0} /\ MaskedBit \in Nat /\ BlockSize <= MaskedBit /\ CatalogSize \in Nat
    /\ Tracks \subseteq 0..255 /\ Sectors \subseteq 0..255
    /\ LoadChannel \in Channels /\ CommandChannel \in Channels /\ NoName = <<>>
    /\ \A d \in DOMAIN Dialogues : DialogueOK(Dialogues[d])

-----------------------------------------------------------------------------
(* Properties.                                                             *)

\* Every variable has the values the program's types allow.
DosTypeOK ==
    /\ Len(buffer) = BlockSize
    /\ \A ch \in Channels : pos[ch] \in 0..(BlockSize - 1) /\ openKind[ch].type \in {"PRG", "SEQ", "USR", "REL"}
    /\ talk \in Channels \cup {NoChannel}
    /\ \A a \in Addresses : Len(disk[a]) = BlockSize

\* The host reads what it asked for: the status or, once, the answer to its memory read; a
\* listing of just the files its filters select, and the blocks that are free.  Bytes of one
\* never follow bytes of another.
HostHears == heard \o tx = promised

\* A pattern selects what it means, for every name.
WildcardsExact ==
    LET pattern == listing.filters.pattern
    IN  \A text \in Dialogue.texts : MeansIt(pattern, text)

\* A block that a B-W has confirmed, in the memory or on an image of sectors, is read back as
\* it was written, until a block whose bytes fold onto its own, or a byte of it, is written.
WrittenComesBack == \A a \in Addresses : \A b \in kept[a] : Contents(a) = {b}

\* Command channel: the host hears what it asked for, patterns mean what they say, and a
\* block that was written to the memory or to an image of sectors comes back.
DosAnswers ==
    /\ DosTypeOK
    /\ HostHears /\ WildcardsExact /\ WrittenComesBack

================================================================================
