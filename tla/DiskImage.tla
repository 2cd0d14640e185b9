------------------------------- MODULE DiskImage -------------------------------
(***************************************************************************)
(* The disk images a drive reads and writes: the sector image (d64), the   *)
(* images behind the encoded-track pipeline (g64, nib, raw), each with one *)
(* object for the logical and one for the flux layer, and the choice       *)
(* between the two.  Blocks are made of bytes, files of offsets; the noise *)
(* a read adds last (sync marks, weak bits) is left out.                   *)
(***************************************************************************)
EXTENDS ByteBits, Integers, Sequences, FiniteSets

CONSTANTS
    SectorsOf,      \* sectorsPerTrack: the sectors of each track
    ImageZones,     \* the last tracks of the zones but the last
    ImageBlock,     \* 256
    Stride,         \* of a nib image that is not a whole number of tracks: 0x2000
    MaxConfidence,  \* relockConfidence: 7
    PassWrap,       \* writePassCounter has eight bits: 256
    DirTrack,       \* 18
    DirGuard,       \* directory sectors at most: 64
    DirEntry,       \* layout of the directory: bytes, count, type, name, length, blocks
    BamAt,          \* layout of the map: first byte, bytes of a track
    Images          \* what is mounted and what is done with it, by name

VARIABLES
    image,          \* a name of Images
    steps,
    profile,        \* physicalProfile
    mounted,        \* mountedImageConfigured and mountedImageExists
    routed,         \* mountedImageBackend: "none", "logical" or "flux"
    file,           \* the file: whether it is there, how long it is, its bytes
                        \* (with room for the blocks behind its end)
    engine,         \* the two objects: what was parsed, the relock state, the passes
    answer          \* the last call and what it returned

VARIABLES
    expected,       \* history: what each block of the file holds
    decoded         \* history: per object and address, the last classes decoded

imageVars == <<image, steps, profile, mounted, routed, file, engine, answer, expected, decoded>>

Mount == Images[image]
Layers == {"logical", "flux"}
Within == 0..(ImageBlock - 1)

-----------------------------------------------------------------------------
(* Where a block is.                                                       *)

ValidChs(a) == a[1] \in DOMAIN SectorsOf /\ a[2] < SectorsOf[a[1]]
TrackCount == Len(SectorsOf)
SectorsUpTo ==
    LET upTo[t \in 0..TrackCount] == IF t = 0 THEN 0 ELSE upTo[t - 1] + SectorsOf[t]
    IN  upTo
Offset(a) == (SectorsUpTo[a[1] - 1] + a[2]) * ImageBlock
ZoneOf(t) == Cardinality({k \in DOMAIN ImageZones : t > ImageZones[k]})

BlockAt(o) == [i \in Within |-> file.bytes[o + i]]

Linear == Mount.format \in {"d64", "raw"}
LinearError(a) ==
    CASE ~ValidChs(a) -> "InvalidAddress"
      [] ValidChs(a) /\ ~file.there -> "NotReady"
      [] ValidChs(a) /\ file.there /\ Offset(a) + ImageBlock > file.size -> "IoFailure"
      [] OTHER -> "None"

\* g64: the slices of the file the table names, whole tracks at every second place; nib: tracks
\* of one length, one after the other.
StrideOf == IF file.size % TrackCount = 0 THEN file.size \div TrackCount ELSE Stride
Parses ==
    /\ file.there /\ Mount.sound
    /\ Mount.format = "nib" => file.size >= TrackCount * ImageBlock /\ StrideOf >= ImageBlock
UsableOf(slice, size) ==
    /\ slice.at # 0 /\ slice.length >= ImageBlock
    /\ slice.at + 2 + slice.length <= size
Usable(k) == UsableOf(Mount.table[k], file.size)
SlicesOf(t) ==
    IF Mount.format = "nib"
    THEN {[at |-> (t - 1) * StrideOf, length |-> StrideOf] :
            k \in {u \in {t} : u \in 1..TrackCount /\ u * StrideOf <= file.size}}
    ELSE LET usable == {k \in {2 * t - 1, t} \cap DOMAIN Mount.table : Usable(k)}
         IN {[at |-> Mount.table[k].at + 2, length |-> Mount.table[k].length] :
                k \in {u \in usable : u = 2 * t - 1 \/ 2 * t - 1 \notin usable}}
Places(slice, s) == [i \in Within |-> slice.at + ((s * ImageBlock + i) % slice.length)]

\* An object parses the file once and keeps what came of it.
Parsed(e) == IF engine[e].parsed THEN engine[e].ok ELSE Parses
TrackError(e, a) ==
    CASE ~Parsed(e) -> "IoFailure"
      [] Parsed(e) /\ SlicesOf(a[1]) = {} -> "InvalidAddress"
      [] OTHER -> "None"
AfterParse(e) ==
    IF Linear THEN engine[e] ELSE [engine[e] EXCEPT !.parsed = TRUE, !.ok = Parsed(e)]

RawError(e, a) == IF Linear THEN LinearError(a) ELSE TrackError(e, a)
RawPlaces(a) ==
    IF Linear THEN LET o == Offset(a) IN [i \in Within |-> o + i]
    ELSE Places(CHOOSE slice \in SlicesOf(a[1]) : TRUE, a[2])

-----------------------------------------------------------------------------
(* The encoded-track pipeline.                                             *)

GcrCode == <<10, 11, 18, 19, 14, 15, 22, 23, 9, 25, 26, 27, 13, 29, 30, 21>>
NibbleOf ==
    [sym \in {GcrCode[n] : n \in 1..16} |-> (CHOOSE n \in 1..16 : GcrCode[n] = sym) - 1]

RotateRight(v, n) == (v \div BitWeights[n + 1]) + (v % BitWeights[n + 1]) * BitWeights[9 - n]
Zoned(t, block) == [i \in Within |-> RotateRight(block[i], ZoneOf(t) + 1)]

Level3 == Mount.env = "level3-physical"
Level4 == Mount.env \in {"level4-accuracy", "level5-coupling"}

HasRun(block, S, n) == \E i \in 0..(ImageBlock - n) : \A j \in i..(i + n - 1) : block[j] \in S
Symbol(block, i) == block[i % ImageBlock] % 32
Lacks(block, i) == Symbol(block, i) \notin DOMAIN NibbleOf
NibbleAt(block, i) == IF Lacks(block, i) THEN 0 ELSE NibbleOf[Symbol(block, i)]

Invalid(block) ==
    IF Level3 THEN Cardinality({i \in Within : Lacks(block, 2 * i) \/ Lacks(block, 2 * i + 1)})
    ELSE Cardinality({i \in 0..(2 * ImageBlock - 1) : Lacks(block, i)})
SyncLost(block) == ~HasRun(block, {255}, 3)
Gap(block) ==
    CASE HasRun(block, {85, 0}, 8) -> "Stable"
      [] HasRun(block, {85, 0}, 4) /\ ~HasRun(block, {85, 0}, 8) -> "Marginal"
      [] OTHER -> "Poor"
Pair(block, i) ==
    IF Level3 /\ (Lacks(block, 2 * i) \/ Lacks(block, 2 * i + 1)) THEN 0
    ELSE NibbleAt(block, 2 * i) * 16 + NibbleAt(block, 2 * i + 1)

\* mapMetricsToDosErrorCode; of a loss of sync at most one event is counted.
DosErrorCode(block) ==
    LET invalid == Invalid(block)
        gap == Gap(block)
    IN CASE invalid >= 8 -> 27
         [] invalid < 8 /\ gap = "Poor" -> 22
         [] invalid \in 1..7 /\ gap # "Poor" -> 23
         [] invalid = 0 /\ gap = "Marginal" -> 20
         [] OTHER -> 0

\* The byte that shows the class of errors; a block without errors would show its own byte.
HardErrors == 238
SoftErrors == 204
Class(block) ==
    LET invalid == Invalid(block)
    IN CASE invalid >= 5 -> HardErrors
         [] invalid \in 1..4 \/ (invalid = 0 /\ SyncLost(block)) -> SoftErrors
         [] OTHER -> Pair(block, 3)

\* modelIndex: where the state of an address is, the same for sectors a track does not have.
MostSectors ==
    CHOOSE n \in {SectorsOf[t] : t \in DOMAIN SectorsOf} : \A t \in DOMAIN SectorsOf : SectorsOf[t] <= n
ModelIndex(a) == <<IF a[1] < TrackCount THEN a[1] ELSE TrackCount, a[2] % MostSectors>>

\* applyRelockHysteresis: a class is shown until as many others came as it has confidence.
Unseen == [last |-> 0, confidence |-> 0]
RelockHeld(r, c) ==                  \* mutant: another class does not cost confidence
    CASE r.last = 0 -> [last |-> c, confidence |-> 2]
      [] r.last # 0 /\ c = r.last -> [r EXCEPT !.confidence = IF @ < MaxConfidence THEN @ + 1 ELSE @]
      [] OTHER -> r
Relocked(r, c) ==
    CASE r.last = 0 -> [last |-> c, confidence |-> 2]
      [] r.last # 0 /\ c = r.last -> [r EXCEPT !.confidence = IF @ < MaxConfidence THEN @ + 1 ELSE @]
      [] r.last # 0 /\ c # r.last /\ r.confidence > 0 -> [r EXCEPT !.confidence = @ - 1]
      [] OTHER -> [last |-> c, confidence |-> 1]

Decode(a, block, class) ==
    LET gap == CASE Gap(block) = "Poor" -> 60 [] Gap(block) = "Marginal" -> 28 [] OTHER -> 0
        broken == Invalid(block) >= 3 /\ SyncLost(block)
    IN [i \in Within |->
            CASE i = 0 /\ broken -> Xor(Pair(block, 0), 90)
              [] i = 1 -> Xor(Pair(block, 1), gap)
              [] i = 2 /\ SyncLost(block) -> Xor(Pair(block, 2), 165)
              [] i = 3 -> class
              [] i = 4 -> Xor((4 * a[1]) % 256, a[2])
              [] i = 5 -> DosErrorCode(block)
              [] i = 6 /\ broken -> Xor(Pair(block, 6), 165)
              [] OTHER -> Pair(block, i)]

Encode(a, block) ==
    [i \in Within |-> Xor(Xor((GcrCode[(block[i] \div 16) + 1] * 8) % 256, GcrCode[(block[i] % 16) + 1]),
                         (a[1] + a[2]) % 32)]

\* apply_write_pass: every pass but the first spoils what it writes.
WriteMarks(a, pass) == IF Level4 /\ pass > 0 THEN Mount.marks ELSE {<<0, 0>>}
Worn(a, block, pass, mark) ==
    LET bias == (((a[1] + a[2] + pass) % 3) + 1) * 3
        Spliced(i) == IF i % 32 = mark[1] THEN Xor(block[i], 17 + bias) ELSE block[i]
        Erased(i) == IF i % 17 = mark[2]
                     THEN LET b == Spliced(i) IN b - (b % 16) + ((b + pass + (bias % 4)) % 16)
                     ELSE Spliced(i)
        Shifted(i) == IF i % 41 = (a[2] + pass) % 32
                      THEN ((Erased(i) * 2) % 256) + (Erased(i) \div 128) ELSE Erased(i)
    IN IF Level4 /\ pass > 0 THEN [i \in Within |-> Shifted(i)] ELSE block

-----------------------------------------------------------------------------
(* The directory of a d64 image.                                           *)

DecodeName(bytes) ==
    LET ends == {i \in DOMAIN bytes : bytes[i] \in {0, 160}} \cup {Len(bytes) + 1}
        name == SubSeq(bytes, 1, (CHOOSE i \in ends : \A j \in ends : i <= j) - 1)
        Upper(c) == IF c \in 97..122 THEN c - 32 ELSE c
    IN SelectSeq([i \in DOMAIN name |-> Upper(name[i] % 128)], LAMBDA c : c \in 32..126)
FileType(t) == CASE t = 1 -> "SEQ" [] t = 3 -> "USR" [] t = 4 -> "REL" [] OTHER -> "PRG"

EntryOf(block, e) ==
    LET o == 2 + e * DirEntry.bytes
    IN [name |-> DecodeName([i \in 1..DirEntry.length |-> block[o + DirEntry.name + i - 1]]),
        type |-> FileType(block[o + DirEntry.type] % 8),
        blocks |-> block[o + DirEntry.blocks] + 256 * block[o + DirEntry.blocks + 1]]
Live(block) == {e \in 0..(DirEntry.count - 1) : block[2 + e * DirEntry.bytes + DirEntry.type] % 8 # 0}
EntriesOf(block) ==
    [k \in 1..Cardinality(Live(block)) |->
        EntryOf(block, CHOOSE e \in Live(block) :
                            Cardinality({d \in Live(block) : d < e}) = k - 1)]

FreeBlocks(block) ==
    LET Place(t) == BamAt.first + (t - 1) * BamAt.bytes
        free[t \in Nat] ==
            IF t = 0 THEN 0 ELSE free[t - 1] + IF Place(t) \in Within THEN block[Place(t)] ELSE 0
    IN  free[TrackCount]

\* One turn of the loop, which stands still when it is over, and the turns up to the guard.
Link(a) == <<file.bytes[Offset(a)], file.bytes[Offset(a) + 1]>>
Visit(walk) ==
    CASE walk.error # "None" \/ walk.at[1] = 0 -> walk
      [] walk.error = "None" /\ walk.at[1] # 0 /\ LinearError(walk.at) # "None" ->
            [walk EXCEPT !.error = LinearError(walk.at)]
      [] OTHER -> [walk EXCEPT !.at = Link(walk.at),
                               !.listed = @ \o EntriesOf(BlockAt(Offset(walk.at)))]
WalkStart == [at |-> <<DirTrack, 1>>, listed |-> <<>>, error |-> LinearError(<<DirTrack, 0>>)]
Visits ==
    LET after[k \in Nat] == IF k = 0 THEN WalkStart ELSE Visit(after[k - 1])
    IN  after
Walk == Visits[DirGuard]

-----------------------------------------------------------------------------

FluxFormats == {"g64", "nib", "raw"}
FluxProfiles == {"Level3Physical", "Level4Accuracy", "Level5Coupling"}
Unparsed == [parsed |-> FALSE, ok |-> FALSE, relock |-> <<>>, passes |-> <<>>]
NoClasses == [e \in Layers |-> <<>>]

\* shouldUseFluxLayer, and the layer that is used.
UsesFlux(p) == p \in FluxProfiles /\ Mount.format \in FluxFormats
Routing(p, there, isMounted) ==
    CASE ~isMounted -> "none"
      [] isMounted /\ UsesFlux(p) /\ there -> "flux"
      [] OTHER -> "logical"

\* The addresses in the order of the file, for the history.
ImageAddresses == UNION {{t} \X (0..(SectorsOf[t] - 1)) : t \in DOMAIN SectorsOf}
Before(a, b) == a[1] < b[1] \/ (a[1] = b[1] /\ a[2] < b[2])
Rank(a) == Cardinality({b \in ImageAddresses : Before(b, a)})
InFile(size) == {a \in ImageAddresses : (Rank(a) + 1) * ImageBlock <= size}

ImageInit ==
    /\ image \in DOMAIN Images
    /\ steps = 0
    /\ profile \in Mount.profiles
    /\ file = [there |-> TRUE, size |-> Mount.size, bytes |-> Mount.bytes]
    /\ mounted = TRUE
    /\ routed = Routing(profile, TRUE, TRUE)
    /\ engine = [e \in Layers |-> Unparsed]
    /\ answer = [call |-> "none"]
    /\ expected = [a \in (IF Linear THEN InFile(Mount.size) ELSE {}) |-> BlockAt(Rank(a) * ImageBlock)]
    /\ decoded = NoClasses

FoundAt(f, a, default) == IF a \in DOMAIN f THEN f[a] ELSE default
Noted(f, a, v) == [b \in DOMAIN f \cup {a} |-> IF b = a THEN v ELSE f[b]]
Lately(classes) ==
    SubSeq(classes, IF Len(classes) > MaxConfidence THEN Len(classes) - MaxConfidence ELSE 1, Len(classes))

Counted == steps < Mount.steps /\ steps' = steps + 1

\* readBlock of the layer in use.
ReadImage(a) ==
    /\ Counted /\ routed # "none"
    /\ LET e == routed
           error == RawError(e, a)
           places == RawPlaces(a)
           index == ModelIndex(a)
       IN \/ /\ error # "None"
             /\ engine' = [engine EXCEPT ![e] = AfterParse(e)]
             /\ answer' = [call |-> "read", at |-> a, error |-> error]
             /\ UNCHANGED decoded
          \/ /\ error = "None" /\ Mount.format = "d64"
             /\ answer' = [call |-> "read", at |-> a, error |-> error,
                           block |-> [i \in Within |-> file.bytes[places[i]]]]
             /\ UNCHANGED <<engine, decoded>>
          \/ /\ error = "None" /\ Mount.format # "d64"
             /\ \E block \in {[i \in Within |-> file.bytes[places[i]]]} :
                \E class \in {Class(block)} :
                \E relock \in {Relocked(FoundAt(engine[e].relock, index, Unseen), class)} :
                    /\ engine' = [engine EXCEPT ![e] =
                                    [AfterParse(e) EXCEPT !.relock = Noted(@, index, relock)]]
                    /\ answer' = [call |-> "read", at |-> a, error |-> error, class |-> relock.last,
                                  block |-> Zoned(a[1], Decode(a, block, relock.last))]
                    /\ decoded' = [decoded EXCEPT ![e] =
                                    Noted(@, index, Lately(Append(FoundAt(@, index, <<>>), class)))]
    /\ UNCHANGED <<image, profile, mounted, routed, file, expected>>

\* writeBlock of the layer in use; a block behind the end makes the file longer.
WriteError(a) ==
    CASE Mount.format \in {"g64", "nib"} -> "WriteProtected"
      [] Linear /\ ~ValidChs(a) -> "InvalidAddress"
      [] Linear /\ ValidChs(a) /\ ~file.there -> "NotReady"
      [] OTHER -> "None"
OnDisk(a, block, pass, mark) ==
    IF Mount.format = "d64" THEN block
    ELSE Worn(a, Zoned(a[1], Encode(a, block)), pass, mark)
Stored(a, block) ==
    LET at == Offset(a)
    IN [file EXCEPT !.size = IF @ > at + ImageBlock THEN @ ELSE at + ImageBlock,
                    !.bytes = [o \in DOMAIN @ |-> IF o - at \in Within THEN block[o - at] ELSE @[o]]]
\* The blocks the file now reaches and did not before hold the bytes that are there.
ExpectedAfter(a, block, size) ==
    [b \in DOMAIN expected \cup InFile(size) |->
        IF b = a THEN block ELSE FoundAt(expected, b, BlockAt(Rank(b) * ImageBlock))]
WriteImage(a, block) ==
    /\ Counted /\ routed # "none"
    /\ LET e == routed
           index == ModelIndex(a)
           pass == FoundAt(engine[e].passes, index, 0)
       IN /\ engine' =
                IF Mount.format = "raw" /\ Level4
                THEN [engine EXCEPT ![e].passes = Noted(@, index, (pass + 1) % PassWrap)] ELSE engine
          /\ \/ WriteError(a) # "None" /\ UNCHANGED <<file, expected>>
             \/ /\ WriteError(a) = "None"
                /\ \E mark \in WriteMarks(a, pass) :
                    \E stored \in {OnDisk(a, block, pass, mark)} :
                        file' = Stored(a, stored) /\ expected' = ExpectedAfter(a, stored, file'.size)
          /\ answer' = [call |-> "write", at |-> a, error |-> WriteError(a)]
    /\ UNCHANGED <<image, profile, mounted, routed, decoded>>

\* readDirectoryListing: only the d64 image has one.
ReadDirectory ==
    /\ Counted /\ routed # "none" /\ Mount.lists
    /\ answer' = IF Mount.format = "d64" /\ Walk.error = "None"
                 THEN [call |-> "list", error |-> "None", listed |-> Walk.listed,
                       free |-> FreeBlocks(BlockAt(Offset(<<DirTrack, 0>>)))]
                 ELSE [call |-> "list",
                       error |-> IF Mount.format = "d64" THEN Walk.error ELSE "IoFailure"]
    /\ UNCHANGED <<image, profile, mounted, routed, file, engine, expected, decoded>>

ProfileChanges(p) ==
    /\ Counted /\ p # profile
    /\ profile' = p
    /\ routed' = Routing(p, file.there, mounted)
    /\ answer' = [call |-> "none"]
    /\ UNCHANGED <<image, mounted, file, engine, expected, decoded>>

\* configureMountedImage, at DETACH and at ATTACH of the same file.
Remount(attach) ==
    /\ Counted /\ Mount.remounts /\ (attach => file.there)
    /\ mounted' = attach
    /\ routed' = Routing(profile, file.there, attach)
    /\ engine' = [e \in Layers |-> Unparsed]
    /\ decoded' = NoClasses
    /\ answer' = [call |-> "none"]
    /\ UNCHANGED <<image, profile, file, expected>>

\* Somebody moves the file away, or back.
FileMoves ==
    /\ Counted /\ Mount.unplugs
    /\ file' = [file EXCEPT !.there = ~@]
    /\ answer' = [call |-> "none"]
    /\ UNCHANGED <<image, profile, mounted, routed, engine, expected, decoded>>

ImageNext ==
    \/ \E a \in Mount.addresses : ReadImage(a) \/ \E block \in Mount.blocks : WriteImage(a, block)
    \/ ReadDirectory
    \/ \E p \in Mount.profiles : ProfileChanges(p)
    \/ \E attach \in BOOLEAN : Remount(attach)
    \/ FileMoves

ImageSpec == ImageInit /\ [][ImageNext]_imageVars

-----------------------------------------------------------------------------
(* What the theorems suppose of the constants.                             *)

Formats == {"d64", "g64", "nib", "raw"}

\* The file has room for every block, and the tracks of a table that names every track do not
\* overlap.
ImageOK(m) ==
    /\ m.format \in Formats /\ m.sound \in BOOLEAN /\ m.size \in Nat /\ m.steps \in Nat
    /\ DOMAIN m.bytes \subseteq Nat /\ \A o \in DOMAIN m.bytes : m.bytes[o] \in Bytes256
    /\ m.bytes = [o \in DOMAIN m.bytes |-> m.bytes[o]]
    /\ m.format \in {"d64", "raw"} =>
            \A a \in ImageAddresses : \A i \in Within : Offset(a) + i \in DOMAIN m.bytes
    /\ m.addresses \subseteq Nat \X Nat
    /\ \A block \in m.blocks : block \in [Within -> Bytes256]
    /\ m.table \in Seq([at : Nat, length : Nat])
    /\ \A j, k \in DOMAIN m.table :
            (/\ j < k /\ j % 2 = 1 /\ k % 2 = 1
             /\ \A l \in {j, k} : UsableOf(m.table[l], m.size)) =>
                m.table[j].at + m.table[j].length <= m.table[k].at
                    \/ m.table[k].at + m.table[k].length <= m.table[j].at

ImageConstants ==
    /\ SectorsOf \in Seq(Nat) /\ Len(SectorsOf) > 0
    /\ ImageZones \in Seq(Nat) /\ Len(ImageZones) < 7
    /\ ImageBlock \in Nat \ {0, 1} /\ Stride \in Nat /\ DirTrack \in Nat
    /\ MaxConfidence \in Nat \ {0, 1} /\ PassWrap \in Nat \ {0}
    /\ DirGuard \in Nat /\ DirEntry.count \in Nat
    /\ \A n \in DOMAIN Images : ImageOK(Images[n])

-----------------------------------------------------------------------------
(* Properties.                                                             *)

Errors == {"None", "InvalidAddress", "NotReady", "IoFailure", "WriteProtected"}

\* The class a relock state keeps is "soft" or "hard": a block never decodes without an error,
\* since sync marks are no symbols and a block without them has lost its sync.
ImageTypeOK ==
    /\ image \in DOMAIN Images /\ steps \in 0..Mount.steps /\ mounted \in BOOLEAN
    /\ profile \in Mount.profiles /\ routed \in Layers \cup {"none"}
    /\ file.there \in BOOLEAN /\ file.size \in Nat /\ file.bytes \in [DOMAIN Mount.bytes -> 0..255]
    /\ \A e \in Layers :
            /\ engine[e].parsed \in BOOLEAN /\ engine[e].ok \in BOOLEAN
            /\ \A a \in DOMAIN engine[e].passes : engine[e].passes[a] \in 0..(PassWrap - 1)
            /\ \A a \in DOMAIN engine[e].relock :
                    /\ engine[e].relock[a].last \in {HardErrors, SoftErrors}
                    /\ engine[e].relock[a].confidence \in 0..MaxConfidence
    /\ answer.call # "none" => answer.error \in Errors

\* The file is its blocks, one after the other in the order of their addresses: a write changes
\* its own block only, a refused one nothing, and a sector image gives back what was written.
FileIsBlocks ==
    Linear =>
        /\ \A a \in DOMAIN expected : BlockAt(Rank(a) * ImageBlock) = expected[a]
        /\ (answer.call = "read" /\ answer.error = "None") => answer.at \in DOMAIN expected
        /\ (answer.call = "read" /\ answer.error = "None" /\ Mount.format = "d64") =>
                answer.block = expected[answer.at]

\* A class that is shown was decoded by one of the last reads of its state, as many as its
\* confidence can grow to and one.
ClassRecent ==
    (answer.call = "read" /\ "class" \in DOMAIN answer) =>
        LET classes == decoded[routed][ModelIndex(answer.at)]
        IN  \E k \in DOMAIN classes : classes[k] = answer.class

\* The bytes of an image of tracks come from the file, and a block of one track of a nib
\* image, or of a g64 image that has its whole tracks, has none of another track's bytes.
OwnTrack ==
    (~Linear /\ mounted /\ Parses) =>
        \A t \in DOMAIN SectorsOf : \A slice \in SlicesOf(t) :
            /\ \A s \in 0..SectorsOf[t] : \A i \in Within : Places(slice, s)[i] \in 0..(file.size - 1)
            /\ \A u \in DOMAIN SectorsOf \ {t} : \A other \in SlicesOf(u) :
                    (Mount.format = "g64" => {2 * t - 1, 2 * u - 1} \subseteq
                                                {k \in DOMAIN Mount.table : Usable(k)}) =>
                        \A i, j \in Within : Places(slice, 0)[i] # Places(other, 0)[j]

\* A directory that is listed has every entry of the sectors its chain leads through, once
\* each, when the chain has an end before the guard; a chain without end is cut.
Grown(S) == S \cup {Link(a) : a \in S \cap ImageAddresses}
Reached ==
    LET after[k \in Nat] == IF k = 0 THEN {<<DirTrack, 1>>} ELSE Grown(after[k - 1])
    IN  after
Chained == {a \in Reached[DirGuard] : a[1] # 0}
EndsInTime ==
    /\ Chained \subseteq ImageAddresses /\ Cardinality(Chained) <= DirGuard
    /\ \E a \in Chained : Link(a)[1] = 0
Occurs(x, list) == Cardinality({k \in DOMAIN list : list[k] = x})
EntryAt(a, e) == EntryOf(BlockAt(Rank(a) * ImageBlock), e)
LiveAt(a) == Live(BlockAt(Rank(a) * ImageBlock))
InChain(x) == {p \in Chained \X (0..(DirEntry.count - 1)) : p[2] \in LiveAt(p[1]) /\ EntryAt(p[1], p[2]) = x}
ListsTheChain ==
    (answer.call = "list" /\ answer.error = "None") =>
        /\ Len(answer.listed) <= DirGuard * DirEntry.count
        /\ EndsInTime =>
            \A x \in {answer.listed[k] : k \in DOMAIN answer.listed}
                        \cup UNION {{EntryAt(a, e) : e \in LiveAt(a)} : a \in Chained} :
                Occurs(x, answer.listed) = Cardinality(InChain(x))

\* The flux layer is used when the profile of the drive asks for it, and only then, also when
\* the profile changes under a mounted image.
RoutedByProfile ==
    /\ routed = "none" <=> ~mounted
    /\ routed = "flux" => UsesFlux(profile)
    /\ (mounted /\ ~Mount.unplugs /\ UsesFlux(profile)) => routed = "flux"

\* Images: the file is its blocks, a track shows its own bytes, the class of a block is one it
\* had lately, a directory is the whole chain, and the layer is the one the profile asks for.
ImagesHold ==
    /\ ImageTypeOK
    /\ FileIsBlocks /\ OwnTrack /\ ClassRecent
    /\ ListsTheChain /\ RoutedByProfile

================================================================================
