-------------------------------- MODULE VicII --------------------------------
(***************************************************************************)
(* VICII::tickHalf and the registers a program writes: the beam, the bad   *)
(* line's hold on the bus, sprite DMA, the raster interrupt, and the       *)
(* pipeline that carries the columns of a text line to the screen.         *)
(* Addresses, colours and sprite data are left out, and so are the FLD and *)
(* VSP notes, which nothing reads.  BA and AEC always agree.               *)
(***************************************************************************)
EXTENDS Naturals, Sequences, FiniteSetsExt

CONSTANTS
    Lines, Cycles, Pixels,              \* 312, 63, 8
    FirstSprite, Latch, FirstVideo,     \* cycles 8, 12, 15
    Release, LateSprite,                \* cycles 55, 57
    ShiftBits,                          \* bits of a character: 8
    FirstLine, RowLines, Rows,          \* the text window: 48, 8, 25
    SpriteLines,                        \* 21
    Sprites,
    Chips,                              \* revisions, and sprite registers: no write reaches these
    LowSpan, HighParts, LowParts        \* a compare value is high * LowSpan + low

ASSUME VicAssumption ==
    /\ {Lines, Cycles, Pixels, FirstSprite, Latch, FirstVideo, Release, LateSprite, ShiftBits,
        FirstLine, RowLines, Rows, SpriteLines, LowSpan} \subseteq Nat
    /\ 0 < FirstSprite /\ FirstSprite <= Latch /\ Latch < FirstVideo /\ FirstVideo < Release
    /\ Release < LateSprite /\ LateSprite < Cycles /\ 3 < Pixels /\ 0 < Lines
    /\ 0 < RowLines /\ 0 < Rows /\ 0 < SpriteLines
    /\ 0 < ShiftBits /\ ShiftBits <= 2 * Pixels  \* a character is shifted out within its cycle
    /\ HighParts \subseteq Nat /\ LowParts \subseteq Nat

\* The sprite registers leave room for the last line of a sprite before the frame ends.
ASSUME ChipAssumption ==
    \A c \in Chips :
        /\ {c.needsEdge, c.needsDisplay} \subseteq BOOLEAN
        /\ c.extra \in {0, 1}
        /\ c.enabled \subseteq Sprites
        /\ c.top \in [Sprites -> Nat]
        /\ \A s \in Sprites : c.top[s] + SpriteLines + c.extra < Lines

VARIABLES
    chip,                   \* revisionProfile, sprEnable and sprY
    line, cycle, pixel, half,
    den, yscroll,           \* bits of ctrl1
    high, low,              \* bit 7 of ctrl1, and raster
    flag, mask,             \* bit 0 of irqFlags and of irqMask
    pending, armed,         \* rasterIRQPending, rasterIrqMaskEdgeArmed
    locked,                 \* busLocked and badlineActive
    aec,
    dma,                    \* spriteDmaMask
    fetching,               \* the column whose pattern is read in PHI2, if any
    staged,                 \* stagedValid
    ring,                   \* prefetch, the oldest first
    bits, shown,            \* shiftBitsRemaining, and the column in the shift register
    matched                 \* history: this line was the compare value when it began

beam == <<line, cycle, pixel, half>>
control == <<den, yscroll, high, low>>
raster == <<flag, mask, pending, armed, matched>>
bus == <<locked, aec, dma>>
pipe == <<fetching, staged, ring, bits, shown>>
vars == <<chip, beam, control, raster, bus, pipe>>

Columns == 0..(Release - FirstVideo - 1)
LastColumn == Release - FirstVideo - 1

At(c, p, h) == cycle = c /\ pixel = p /\ half = h

-----------------------------------------------------------------------------
(* The bus.                                                                *)

OnVideo == FirstVideo <= cycle /\ cycle < Release
OnSprite == (FirstSprite <= cycle /\ cycle < FirstVideo) \/ LateSprite <= cycle

\* The bus is the VIC's in the pixels in which it samples, in PHI2; a sprite's cycle
\* counts if any sprite is being read.
BusWindow ==
    /\ half = "PHI2"
    /\ \/ OnVideo /\ pixel < 3
       \/ OnSprite /\ pixel < 4 /\ dma # {}

\* The hold counts as long as it is there.
HoldsUnbounded == locked
\* The hold counts until the bad line's release.
Holds == locked /\ Latch <= cycle /\ cycle < Release

LastLine == FirstLine + Rows * RowLines - 1
Badline == den /\ FirstLine <= line /\ line <= LastLine /\ line % RowLines = yscroll

\* Only a line that is still bad is released.
LockedAfterBad ==
    CASE At(Latch, 0, "PHI1") /\ Badline -> TRUE
      [] At(Release, 0, "PHI2") /\ Badline -> FALSE
      [] OTHER -> locked

\* The latch asks for a bad line, the release only for the lock.
LockedAfter ==
    CASE At(Latch, 0, "PHI1") /\ Badline -> TRUE
      [] At(Release, 0, "PHI2") -> FALSE
      [] OTHER -> locked

Stop(s) == chip.top[s] + SpriteLines + chip.extra

\* A sprite is read in its stop line as well.
GoesOnLate(s) == s \in dma /\ line <= Stop(s) /\ s \in chip.enabled
\* Where the sprite registers are compared, a sprite that is read goes on until its stop
\* line, and one that is not read starts in its first line.
GoesOn(s) == s \in dma /\ line < Stop(s) /\ s \in chip.enabled
Starts(s) == s \notin dma /\ s \in chip.enabled /\ line = chip.top[s] /\ (chip.needsDisplay => den)
DmaAfter ==
    IF At(Release, 0, "PHI1") THEN {s \in Sprites : GoesOn(s) \/ Starts(s)} ELSE dma

-----------------------------------------------------------------------------
(* The pipeline.                                                           *)

\* (rasterLine - 48) / 8 is in 0..24: the division truncates, so the lines of the row above
\* the text window count too.
HasRow ==
    IF line < FirstLine THEN FirstLine - line < RowLines ELSE (line - FirstLine) \div RowLines < Rows

FetchedColumn == IF OnVideo /\ pixel = 2 /\ HasRow THEN {cycle - FirstVideo} ELSE {}

\* The columns of a cycle enter the ring of three at the start of the next one, from left
\* to right; the oldest give way.
Enters == At(cycle, 0, "PHI1")
Newest(s) == SubSeq(s, Max({1, Len(s) - 2}), Len(s))
LeftToRight(S) ==
    CHOOSE q \in [1..Cardinality(S) -> S] : \A i, j \in 1..Cardinality(S) : i < j => q[i] < q[j]
RingWithStaged == IF Enters THEN Newest(ring \o LeftToRight(staged)) ELSE ring

\* Staged columns stay where they are.
StagedAfterKept ==
    CASE half = "PHI2" -> staged \cup fetching
      [] OTHER -> staged
StagedAfter ==
    CASE Enters -> {}
      [] half = "PHI2" -> staged \cup fetching
      [] OTHER -> staged

\* Nothing is shifted to the left of the text.
ShiftsInText == OnVideo

\* The shift register is loaded and shifted in every half tick but the last cycles' of a line.
Shifts == cycle < Release
Loads == Shifts /\ bits = 0 /\ RingWithStaged # <<>>
RingAfter == IF Loads THEN Tail(RingWithStaged) ELSE RingWithStaged
BitsAfter ==
    CASE Loads -> ShiftBits - 1
      [] Shifts /\ bits > 0 -> bits - 1
      [] OTHER -> bits

-----------------------------------------------------------------------------
(* The beam and the raster interrupt.                                      *)

LastPixel == half = "PHI2" /\ pixel = Pixels - 1
EndsLine == LastPixel /\ cycle = Cycles - 1
NextLine == IF line = Lines - 1 THEN 0 ELSE line + 1

Compare == high * LowSpan + low
\* The high bit of the compare value is forgotten.
MatchesLow == NextLine = low
Matches == NextLine = Compare
Requested == mask /\ (chip.needsEdge => armed)
\* An interrupt that is not acknowledged is not raised again.
RaisesAcknowledged == EndsLine /\ Matches /\ Requested /\ ~pending /\ ~flag
Raises == EndsLine /\ Matches /\ Requested /\ ~pending

PendingAfter == IF EndsLine THEN Matches /\ (pending \/ Raises) ELSE pending

Advance ==
    /\ half' = IF half = "PHI1" THEN "PHI2" ELSE "PHI1"
    /\ pixel' = IF half = "PHI1" THEN pixel ELSE IF LastPixel THEN 0 ELSE pixel + 1
    /\ cycle' = IF EndsLine THEN 0 ELSE IF LastPixel THEN cycle + 1 ELSE cycle
    /\ line' = IF EndsLine THEN NextLine ELSE line

\* tickHalf.
Tick ==
    /\ aec' = ~(BusWindow \/ Holds)
    /\ locked' = LockedAfter
    /\ dma' = DmaAfter
    /\ fetching' = IF half = "PHI1" THEN FetchedColumn ELSE {}
    /\ staged' = StagedAfter
    /\ ring' = RingAfter
    /\ bits' = BitsAfter
    /\ shown' = IF Loads THEN Head(RingWithStaged) ELSE shown
    /\ Advance
    /\ flag' = (flag \/ Raises)
    /\ pending' = PendingAfter
    /\ armed' = (armed /\ ~Raises)
    /\ matched' = IF EndsLine THEN Matches ELSE matched
    /\ UNCHANGED <<chip, control, mask>>

\* write: $D011, $D012, $D019 and $D01A.
WriteControl(d, y, h) ==
    /\ den' = d /\ yscroll' = y /\ high' = h
    /\ UNCHANGED <<chip, beam, low, raster, bus, pipe>>

WriteRaster(v) ==
    /\ low' = v
    /\ UNCHANGED <<chip, beam, den, yscroll, high, raster, bus, pipe>>

Acknowledge ==
    /\ flag' = FALSE
    /\ UNCHANGED <<chip, beam, control, mask, pending, armed, matched, bus, pipe>>

WriteMask(on) ==
    /\ mask' = on
    /\ armed' = (armed \/ on)
    /\ UNCHANGED <<chip, beam, control, flag, pending, matched, bus, pipe>>

Init ==
    /\ chip \in Chips
    /\ line = 0 /\ cycle = 0 /\ pixel = 0 /\ half = "PHI1"
    /\ den = FALSE /\ yscroll = 0 /\ high = 0 /\ low = 0
    /\ flag = FALSE /\ mask = FALSE /\ pending = FALSE /\ armed = FALSE /\ matched = FALSE
    /\ locked = FALSE /\ aec = TRUE /\ dma = {}
    /\ fetching = {} /\ staged = {} /\ ring = <<>> /\ bits = 0 /\ shown = 0

Next ==
    \/ Tick
    \/ \E d \in BOOLEAN, y \in 0..(RowLines - 1), h \in HighParts : WriteControl(d, y, h)
    \/ \E v \in LowParts : WriteRaster(v)
    \/ Acknowledge
    \/ \E on \in BOOLEAN : WriteMask(on)

Spec == Init /\ [][Next]_vars

\* The main loop ticks the VIC in every half cycle, whatever the program writes.
FairSpec == Spec /\ WF_vars(Tick)

-----------------------------------------------------------------------------
TypeOK ==
    /\ chip \in Chips
    /\ line \in 0..(Lines - 1) /\ cycle \in 0..(Cycles - 1) /\ pixel \in 0..(Pixels - 1)
    /\ half \in {"PHI1", "PHI2"}
    /\ {den, flag, mask, pending, armed, matched, locked, aec} \subseteq BOOLEAN
    /\ yscroll \in 0..(RowLines - 1)
    /\ high \in HighParts \cup {0} /\ low \in LowParts \cup {0}
    /\ dma \subseteq Sprites
    /\ fetching \subseteq Columns /\ staged \subseteq Columns
    /\ ring \in Seq(Columns) /\ bits \in 0..(ShiftBits - 1) /\ shown \in Columns

\* A bad line's hold on the bus is taken and given up within one line, whatever is written
\* to DEN and YSCROLL meanwhile: it never outlives the release, nor the frame.
LockWithinLine ==
    locked => \/ cycle = Latch /\ ~At(Latch, 0, "PHI1")
              \/ Latch < cycle /\ cycle < Release
              \/ cycle = Release /\ pixel = 0

\* The processor has the bus in the cycles of a line in which the VIC only refreshes: those
\* before the first sprite, and those after the text.
ProcessorGetsBus ==
    [][beam' # beam /\ (cycle < FirstSprite \/ (Release <= cycle /\ cycle < LateSprite)) => aec']_vars

\* A sprite is read in its own lines only, from where the registers are compared in its
\* first line to where they are compared in its stop line.
SpriteInItsLines ==
    \A s \in dma :
        LET compared == cycle > Release \/ (cycle = Release /\ ~At(Release, 0, "PHI1"))
        IN  /\ s \in chip.enabled
            /\ chip.top[s] < line \/ (chip.top[s] = line /\ compared)
            /\ line < Stop(s) \/ (line = Stop(s) /\ ~compared)

\* No column is ever pushed out of the ring by another.
RingShort == Len(ring) <= 1

\* A column reaches the shift register in the cycle after its own, and the last one of a
\* line, which has no such cycle, at the start of a line: never in between, and never over
\* another column.
ColumnsInPlace ==
    [][beam' # beam /\ Loads => \/ cycle = FirstVideo + 1 + shown'
                                \/ cycle = 0 /\ shown' = LastColumn]_vars

\* Where a compared line with a requested interrupt raises none, the line before was
\* compared too.
MissedOnlyInARow ==
    [][line' # line /\ Matches /\ Requested /\ ~(flag' /\ pending' /\ ~pending) => matched]_vars

\* As long as a program asks for the interrupt of one line, it comes in that line, again and
\* again, however the program acknowledges and enables interrupts.
AskedFor(l) == Compare = l /\ Requested
RasterComes == \A l \in 0..(Lines - 1) : []<>((flag /\ line = l) \/ ~AskedFor(l))

=============================================================================
