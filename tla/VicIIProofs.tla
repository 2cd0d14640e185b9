----------------------------- MODULE VicIIProofs -----------------------------
(***************************************************************************)
(* The beam, the bus, sprite DMA, the raster interrupt and the columns'    *)
(* pipeline of the VIC, for every frame, revision and set of sprites.      *)
(***************************************************************************)
EXTENDS VicII, FiniteSetTheorems, TLAPS

\* What the proofs need of the types.
BeamTyped ==
    /\ chip \in Chips
    /\ line \in Nat /\ line < Lines
    /\ cycle \in Nat /\ cycle < Cycles
    /\ pixel \in Nat /\ pixel < Pixels
    /\ half \in {"PHI1", "PHI2"}
    /\ dma \subseteq Sprites

\* The note of an interrupt does not outlive a line that is not compared.
PendingMatched == pending => matched

\* The half ticks of a cycle that have passed.
Passed == 2 * pixel + (IF half = "PHI1" THEN 0 ELSE 1)
Here == cycle - FirstVideo

\* Where a column is on its way: fetched in PHI2 of pixel 2 of its cycle, staged until the
\* next cycle begins, and in the ring only if that cycle no longer shifts.
FetchInPlace == fetching # {} => OnVideo /\ pixel = 2 /\ half = "PHI2" /\ fetching = {Here}
StageInPlace ==
    staged # {} => \/ OnVideo /\ 2 < pixel /\ staged = {Here}
                   \/ /\ FirstVideo < cycle /\ cycle <= Release /\ pixel = 0 /\ half = "PHI1"
                      /\ staged = {Here - 1}
RingInPlace ==
    ring # <<>> => /\ ring = <<LastColumn>>
                   /\ (Release <= cycle /\ ~At(Release, 0, "PHI1")) \/ At(0, 0, "PHI1")
BitsInPlace == bits # 0 => cycle < Release /\ 0 < Passed /\ bits + Passed <= ShiftBits
PipeInPlace == FetchInPlace /\ StageInPlace /\ RingInPlace /\ BitsInPlace

\* The types of what a program writes and reads, and of the shift register.
RegistersTyped ==
    /\ den \in BOOLEAN /\ flag \in BOOLEAN /\ mask \in BOOLEAN /\ pending \in BOOLEAN
    /\ armed \in BOOLEAN /\ matched \in BOOLEAN /\ locked \in BOOLEAN /\ aec \in BOOLEAN
    /\ yscroll \in 0..(RowLines - 1)
    /\ high \in HighParts \cup {0} /\ low \in LowParts \cup {0}
    /\ bits \in Nat /\ bits < ShiftBits
    /\ shown \in Columns

IInv ==
    /\ BeamTyped /\ LockWithinLine /\ SpriteInItsLines /\ PendingMatched
    /\ PipeInPlace /\ RegistersTyped

LEMMA Numbers ==
    /\ Lines \in Nat /\ Cycles \in Nat /\ Pixels \in Nat /\ FirstSprite \in Nat /\ Latch \in Nat
    /\ FirstVideo \in Nat /\ Release \in Nat /\ LateSprite \in Nat /\ SpriteLines \in Nat
    /\ 0 < FirstSprite /\ FirstSprite <= Latch /\ Latch < FirstVideo /\ FirstVideo < Release
    /\ Release < LateSprite /\ LateSprite < Cycles /\ 3 < Pixels /\ 0 < Lines /\ 0 < SpriteLines
    /\ RowLines \in Nat /\ 0 < RowLines
    /\ ShiftBits \in Nat /\ 0 < ShiftBits /\ ShiftBits <= 2 * Pixels
  BY VicAssumption DEF VicAssumption

LEMMA StopLine ==
    ASSUME chip \in Chips, NEW s \in Sprites
    PROVE  chip.top[s] \in Nat /\ Stop(s) \in Nat /\ chip.top[s] < Stop(s) /\ Stop(s) < Lines
<1>1. chip.extra \in {0, 1} /\ chip.top[s] \in Nat /\ chip.top[s] + SpriteLines + chip.extra < Lines
  BY ChipAssumption DEF ChipAssumption
<1> QED
  BY <1>1, Numbers DEF Stop

LEMMA InitIInv == Init => IInv
<1> SUFFICES ASSUME Init PROVE IInv
  OBVIOUS
<1>1. BeamTyped /\ LockWithinLine /\ SpriteInItsLines /\ PendingMatched
  BY Numbers DEF Init, BeamTyped, LockWithinLine, SpriteInItsLines, PendingMatched
<1>2. PipeInPlace
  BY DEF Init, PipeInPlace, FetchInPlace, StageInPlace, RingInPlace, BitsInPlace
<1>3. RegistersTyped
  <2>1. yscroll \in 0..(RowLines - 1) /\ bits \in Nat /\ bits < ShiftBits /\ shown \in Columns
    BY Numbers DEF Init, Columns
  <2> QED
    BY <2>1, Zenon DEF Init, RegistersTyped
<1> QED
  BY <1>1, <1>2, <1>3 DEF IInv

\* Where a half tick leads.
LEMMA Beam ==
    ASSUME BeamTyped, Advance
    PROVE  /\ line' \in Nat /\ line' < Lines /\ cycle' \in Nat /\ cycle' < Cycles
           /\ pixel' \in Nat /\ pixel' < Pixels /\ half' \in {"PHI1", "PHI2"}
  BY Numbers DEF BeamTyped, Advance, EndsLine, LastPixel, NextLine

LEMMA TickTyped ==
    ASSUME BeamTyped, Tick
    PROVE  BeamTyped'
<1>1. chip' = chip /\ Advance
  BY DEF Tick
<1>2. dma' \subseteq Sprites
  BY DEF Tick, DmaAfter, BeamTyped
<1> QED
  BY <1>1, <1>2, Beam DEF BeamTyped

LEMMA TickLock ==
    ASSUME BeamTyped, LockWithinLine, Tick
    PROVE  LockWithinLine'
<1>1. locked' = LockedAfter /\ Advance
  BY DEF Tick
<1>2. CASE At(Latch, 0, "PHI1")
  BY <1>1, <1>2, Numbers DEF BeamTyped, LockWithinLine, Advance, LastPixel, EndsLine, At
<1>3. CASE At(Release, 0, "PHI2")
  <2>1. locked' = FALSE
    BY <1>1, <1>3, Numbers DEF LockedAfter, At
  <2> QED
    BY <2>1 DEF LockWithinLine
<1>4. CASE ~At(Latch, 0, "PHI1") /\ ~At(Release, 0, "PHI2")
  <2>1. locked' = locked
    BY <1>1, <1>4 DEF LockedAfter
  <2> QED
    BY <1>1, <1>4, <2>1, Numbers
    DEF BeamTyped, LockWithinLine, Advance, LastPixel, EndsLine, At
<1> QED
  BY <1>2, <1>3, <1>4

LEMMA TickSprites ==
    ASSUME BeamTyped, SpriteInItsLines, Tick
    PROVE  SpriteInItsLines'
<1> DEFINE compared == cycle > Release \/ (cycle = Release /\ ~At(Release, 0, "PHI1"))
<1>1. chip' = chip /\ Advance /\ dma' = DmaAfter
  BY DEF Tick
<1> SUFFICES ASSUME NEW s \in dma'
             PROVE  /\ s \in chip.enabled
                    /\ chip.top[s] < line' \/ (chip.top[s] = line' /\ compared')
                    /\ line' < Stop(s) \/ (line' = Stop(s) /\ ~compared')
  BY <1>1 DEF SpriteInItsLines, Stop
<1>2. s \in Sprites
  BY <1>1 DEF DmaAfter, BeamTyped
<1>3. chip.top[s] \in Nat /\ Stop(s) \in Nat /\ chip.top[s] < Stop(s) /\ Stop(s) < Lines
  BY <1>2, StopLine DEF BeamTyped
<1>4. CASE At(Release, 0, "PHI1")
  <2>1. line' = line /\ compared'
    BY <1>1, <1>4, Numbers DEF BeamTyped, Advance, LastPixel, EndsLine, At
  <2>2. GoesOn(s) \/ Starts(s)
    BY <1>1, <1>4 DEF DmaAfter
  <2>3. CASE GoesOn(s)
    <3>1. chip.top[s] <= line
      BY <2>3, <1>3, Numbers DEF GoesOn, SpriteInItsLines, BeamTyped
    <3> QED
      BY <3>1, <2>1, <2>3, <1>3, Numbers DEF GoesOn, BeamTyped
  <2>4. CASE Starts(s)
    BY <2>1, <2>4, <1>3 DEF Starts
  <2> QED
    BY <2>2, <2>3, <2>4
<1>5. CASE ~At(Release, 0, "PHI1")
  <2>1. s \in dma
    BY <1>1, <1>5 DEF DmaAfter
  <2>2. /\ s \in chip.enabled
        /\ chip.top[s] < line \/ (chip.top[s] = line /\ compared)
        /\ line < Stop(s) \/ (line = Stop(s) /\ ~compared)
    BY <2>1 DEF SpriteInItsLines
  <2>3. CASE EndsLine
    <3>1. compared /\ cycle' = 0 /\ line' = NextLine
      BY <1>1, <2>3, Numbers DEF Advance, EndsLine, LastPixel, At
    <3>2. line < Stop(s)
      BY <3>1, <2>2
    <3>3. line' = line + 1
      BY <3>1, <3>2, <1>3, Numbers DEF NextLine, BeamTyped
    <3>4. ~compared'
      BY <3>1, Numbers DEF At
    <3>5. chip.top[s] < line' /\ line' <= Stop(s)
      BY <3>2, <3>3, <2>2, <1>3 DEF BeamTyped
    <3> HIDE DEF compared
    <3> QED
      BY <3>4, <3>5, <2>2, <1>3, <3>3 DEF BeamTyped
  <2>4. CASE ~EndsLine
    <3>1. line' = line
      BY <1>1, <2>4 DEF Advance
    <3>2. compared' <=> compared
      BY <1>1, <1>5, <2>4, Numbers DEF BeamTyped, Advance, LastPixel, At
    <3> HIDE DEF compared
    <3> QED
      BY <3>1, <3>2, <2>2
  <2> QED
    BY <2>3, <2>4
<1> QED
  BY <1>4, <1>5

LEMMA TickPending ==
    ASSUME PendingMatched, Tick
    PROVE  PendingMatched'
<1>1. pending' = PendingAfter /\ matched' = IF EndsLine THEN Matches ELSE matched
  BY DEF Tick
<1> QED
  BY <1>1 DEF PendingMatched, PendingAfter

\* Sets of one column and of none, as they enter the ring.
LEMMA OneColumn ==
    ASSUME NEW c \in Nat
    PROVE  LeftToRight({c}) = <<c>>
<1>1. Cardinality({c}) = 1
  BY FS_Singleton
<1> DEFINE Sorted(q) == q \in [1..1 -> {c}] /\ \A i, j \in 1..1 : i < j => q[i] < q[j]
<1>2. LeftToRight({c}) = CHOOSE q \in [1..1 -> {c}] : \A i, j \in 1..1 : i < j => q[i] < q[j]
  BY <1>1 DEF LeftToRight
<1>3. <<c>> \in [1..1 -> {c}] /\ \A i, j \in 1..1 : ~(i < j)
  OBVIOUS
<1>4. LeftToRight({c}) \in [1..1 -> {c}]
  BY <1>2, <1>3
<1> QED
  BY <1>4

LEMMA NoColumn == LeftToRight({}) = <<>>
<1>1. Cardinality({}) = 0
  BY FS_EmptySet
<1>2. LeftToRight({}) = CHOOSE q \in [1..0 -> {}] : \A i, j \in 1..0 : i < j => q[i] < q[j]
  BY <1>1 DEF LeftToRight
<1>3. <<>> \in [1..0 -> {}] /\ \A i, j \in 1..0 : i < j => FALSE
  OBVIOUS
<1>4. LeftToRight({}) \in [1..0 -> {}]
  BY <1>2, <1>3
<1> QED
  BY <1>4

\* The ring of three loses nothing of a ring that is that short.
LEMMA NewestOfOne ==
    ASSUME NEW c \in Nat
    PROVE  Newest(<<c>>) = <<c>> /\ Newest(<<>>) = <<>>
<1>1. Max({1, 1 - 2}) = 1 /\ Max({1, 0 - 2}) = 1
  BY DEF Max
<1>2. Newest(<<c>>) = SubSeq(<<c>>, 1, 1)
  <2>1. Len(<<c>>) = 1
    OBVIOUS
  <2> QED
    BY <1>1, <2>1, Zenon DEF Newest
<1>3. Newest(<<>>) = SubSeq(<<>>, 1, 0)
  <2>1. Len(<<>>) = 0
    OBVIOUS
  <2> QED
    BY <1>1, <2>1, Zenon DEF Newest
<1> QED
  BY <1>2, <1>3

\* What the shift register can be loaded with.
LEMMA RingThen ==
    ASSUME BeamTyped, PipeInPlace
    PROVE  RingWithStaged = IF Enters /\ staged # {} THEN <<Here - 1>> ELSE ring
<1>1. CASE ~Enters
  BY <1>1 DEF RingWithStaged
<1>2. CASE Enters /\ staged = {}
  <2>1. RingWithStaged = Newest(ring \o <<>>)
    BY <1>2, NoColumn DEF RingWithStaged
  <2>2. LastColumn \in Nat
    BY Numbers DEF LastColumn
  <2>3. ring = <<>> \/ ring = <<LastColumn>>
    BY DEF PipeInPlace, RingInPlace
  <2>4. ring \o <<>> = ring
    BY <2>2, <2>3
  <2> QED
    BY <1>2, <2>1, <2>2, <2>3, <2>4, NewestOfOne
<1>3. CASE Enters /\ staged # {}
  <2>1. /\ FirstVideo < cycle /\ cycle <= Release /\ pixel = 0 /\ half = "PHI1"
        /\ staged = {Here - 1}
    BY <1>3 DEF Enters, At, PipeInPlace, StageInPlace
  <2>2. ring = <<>>
    BY <2>1, Numbers DEF PipeInPlace, RingInPlace, At, BeamTyped
  <2>3. Here - 1 \in Nat
    BY <2>1, Numbers DEF Here, BeamTyped
  <2>4. RingWithStaged = Newest(<<Here - 1>>)
    <3>1. LeftToRight(staged) = <<Here - 1>>
      BY <2>1, <2>3, OneColumn
    <3>2. ring \o <<Here - 1>> = <<Here - 1>>
      BY <2>2, <2>3
    <3> QED
      BY <1>3, <3>1, <3>2, Zenon DEF RingWithStaged
  <2> QED
    BY <1>3, <2>3, <2>4, NewestOfOne
<1> QED
  BY <1>1, <1>2, <1>3

LEMMA TickFetch ==
    ASSUME BeamTyped, Tick
    PROVE  FetchInPlace'
<1>1. Advance /\ fetching' = IF half = "PHI1" THEN FetchedColumn ELSE {}
  BY DEF Tick
<1>2. CASE half = "PHI1" /\ OnVideo /\ pixel = 2 /\ HasRow
  <2>1. cycle' = cycle /\ pixel' = pixel /\ half' = "PHI2"
    BY <1>1, <1>2 DEF Advance, EndsLine, LastPixel
  <2> QED
    BY <1>1, <1>2, <2>1 DEF FetchInPlace, FetchedColumn, OnVideo, Here
<1>3. CASE ~(half = "PHI1" /\ OnVideo /\ pixel = 2 /\ HasRow)
  BY <1>1, <1>3 DEF FetchInPlace, FetchedColumn
<1> QED
  BY <1>2, <1>3

LEMMA TickStage ==
    ASSUME BeamTyped, PipeInPlace, Tick
    PROVE  StageInPlace'
<1>1. Advance /\ staged' = StagedAfter
  BY DEF Tick
<1>2. CASE Enters
  BY <1>1, <1>2 DEF StagedAfter, StageInPlace, Enters, At
<1>3. CASE ~Enters /\ half = "PHI1"
  <2>1. staged' = staged /\ cycle' = cycle /\ pixel' = pixel /\ half' = "PHI2"
    BY <1>1, <1>3 DEF StagedAfter, Advance, EndsLine, LastPixel
  <2> QED
    BY <1>3, <2>1 DEF PipeInPlace, StageInPlace, Enters, At, OnVideo, Here
<1>4. CASE half = "PHI2"
  <2>1. staged' = staged \cup fetching
    BY <1>1, <1>4 DEF StagedAfter, Enters, At
  <2>2. staged # {} => OnVideo /\ 2 < pixel /\ staged = {Here}
    BY <1>4 DEF PipeInPlace, StageInPlace
  <2>3. fetching # {} => OnVideo /\ pixel = 2 /\ fetching = {Here}
    BY DEF PipeInPlace, FetchInPlace
  <2>4. staged' # {} => OnVideo /\ 1 < pixel /\ staged' = {Here}
    BY <2>1, <2>2, <2>3 DEF BeamTyped
  <2>5. CASE pixel = Pixels - 1
    <3>1. OnVideo => pixel' = 0 /\ half' = "PHI1" /\ cycle' = cycle + 1
      BY <1>1, <1>4, <2>5, Numbers DEF Advance, EndsLine, LastPixel, OnVideo, BeamTyped
    <3>2. OnVideo => FirstVideo < cycle' /\ cycle' <= Release /\ Here' - 1 = Here
      BY <3>1, Numbers DEF OnVideo, BeamTyped, Here
    <3> QED
      BY <2>4, <3>1, <3>2 DEF StageInPlace
  <2>6. CASE pixel # Pixels - 1
    <3>1. cycle' = cycle /\ pixel' = pixel + 1
      BY <1>1, <1>4, <2>6 DEF Advance, EndsLine, LastPixel
    <3>2. 1 < pixel => 2 < pixel'
      BY <3>1 DEF BeamTyped
    <3> QED
      BY <2>4, <3>1, <3>2 DEF StageInPlace, OnVideo, Here
  <2> QED
    BY <2>5, <2>6
<1> QED
  BY <1>2, <1>3, <1>4 DEF BeamTyped

\* The half ticks are counted from 0 in every cycle.
LEMMA Passing ==
    ASSUME BeamTyped, Advance
    PROVE  /\ Passed \in Nat /\ Passed < 2 * Pixels
           /\ \/ Passed' = Passed + 1 /\ cycle' = cycle
              \/ /\ Passed = 2 * Pixels - 1 /\ Passed' = 0
                 /\ cycle' = cycle + 1 \/ (cycle = Cycles - 1 /\ cycle' = 0)
  BY Numbers DEF Passed, BeamTyped, Advance, EndsLine, LastPixel

LEMMA TickRing ==
    ASSUME BeamTyped, PipeInPlace, Tick
    PROVE  RingInPlace'
<1>1. Advance /\ ring' = RingAfter
  BY DEF Tick
<1>2. RingWithStaged = IF Enters /\ staged # {} THEN <<Here - 1>> ELSE ring
  BY RingThen
<1>3. CASE Enters /\ staged # {}
  <2>1. FirstVideo < cycle /\ cycle <= Release /\ pixel = 0 /\ half = "PHI1"
    BY <1>3 DEF Enters, At, PipeInPlace, StageInPlace
  <2>2. bits = 0
    BY <2>1 DEF PipeInPlace, BitsInPlace, Passed
  <2>3. CASE cycle < Release
    <3>1. ring' = <<>>
      BY <1>1, <1>2, <1>3, <2>2, <2>3 DEF RingAfter, Loads, Shifts
    <3> QED
      BY <3>1 DEF RingInPlace
  <2>4. CASE cycle = Release
    <3>1. ring' = <<LastColumn>>
      BY <1>1, <1>2, <1>3, <2>4, Numbers DEF RingAfter, Loads, Shifts, Here, LastColumn
    <3>2. cycle' = Release /\ half' = "PHI2"
      BY <1>1, <2>1, <2>4 DEF Advance, EndsLine, LastPixel
    <3> QED
      BY <3>1, <3>2, Numbers DEF RingInPlace, At, LastColumn
  <2> QED
    BY <2>1, <2>3, <2>4, Numbers DEF BeamTyped
<1>4. CASE ~(Enters /\ staged # {}) /\ ring # <<>>
  <2>1. ring = <<LastColumn>> /\ RingWithStaged = ring
    BY <1>2, <1>4 DEF PipeInPlace, RingInPlace
  <2>2. CASE Release <= cycle /\ ~At(Release, 0, "PHI1")
    <3>1. ring' = ring
      BY <1>1, <2>1, <2>2, Numbers DEF RingAfter, Loads, Shifts, BeamTyped
    <3>2. (Release <= cycle' /\ ~At(Release, 0, "PHI1")') \/ At(0, 0, "PHI1")'
      BY <1>1, <2>2, Numbers DEF Advance, EndsLine, LastPixel, At, BeamTyped
    <3> QED
      BY <2>1, <3>1, <3>2 DEF RingInPlace, LastColumn
  <2>3. CASE At(0, 0, "PHI1")
    <3>1. bits = 0
      BY <2>3 DEF At, PipeInPlace, BitsInPlace, Passed
    <3>2. ring' = <<>>
      BY <1>1, <2>1, <2>3, <3>1, Numbers DEF RingAfter, Loads, Shifts, At
    <3> QED
      BY <3>2 DEF RingInPlace
  <2> QED
    BY <1>4, <2>2, <2>3 DEF PipeInPlace, RingInPlace
<1>5. CASE ~(Enters /\ staged # {}) /\ ring = <<>>
  <2>1. ring' = <<>>
    BY <1>1, <1>2, <1>5 DEF RingAfter, Loads
  <2> QED
    BY <2>1 DEF RingInPlace
<1> QED
  BY <1>3, <1>4, <1>5

\* The shift register is loaded in the first half tick of a cycle only.
LEMMA LoadsFirst ==
    ASSUME BeamTyped, PipeInPlace, Loads
    PROVE  /\ cycle < Release /\ pixel = 0 /\ half = "PHI1"
           /\ \/ FirstVideo < cycle /\ Head(RingWithStaged) = Here - 1
              \/ cycle = 0 /\ Head(RingWithStaged) = LastColumn
<1>1. cycle < Release /\ RingWithStaged # <<>>
  BY DEF Loads, Shifts
<1>2. CASE Enters /\ staged # {}
  <2>1. RingWithStaged = <<Here - 1>>
    BY <1>2, RingThen
  <2>2. FirstVideo < cycle /\ pixel = 0 /\ half = "PHI1"
    BY <1>2 DEF Enters, At, PipeInPlace, StageInPlace
  <2> QED
    BY <1>1, <2>1, <2>2
<1>3. CASE ~(Enters /\ staged # {})
  <2>1. RingWithStaged = ring
    BY <1>3, RingThen
  <2>2. ring = <<LastColumn>> /\ At(0, 0, "PHI1")
    BY <1>1, <2>1, Numbers DEF PipeInPlace, RingInPlace, BeamTyped
  <2> QED
    BY <1>1, <2>1, <2>2 DEF At
<1> QED
  BY <1>2, <1>3

LEMMA TickBits ==
    ASSUME BeamTyped, PipeInPlace, RegistersTyped, Tick
    PROVE  BitsInPlace' /\ bits' \in Nat /\ bits' < ShiftBits
<1>1. Advance /\ bits' = BitsAfter
  BY DEF Tick
<1>2. bits \in Nat /\ bits < ShiftBits
  BY DEF RegistersTyped
<1>3. CASE Loads
  <2>1. cycle < Release /\ pixel = 0 /\ half = "PHI1"
    BY <1>3, LoadsFirst
  <2>2. cycle' = cycle /\ pixel' = 0 /\ half' = "PHI2"
    BY <1>1, <2>1 DEF Advance, EndsLine, LastPixel
  <2>3. bits' = ShiftBits - 1 /\ Passed' = 1
    BY <1>1, <1>3, <2>2 DEF BitsAfter, Loads, Passed
  <2> QED
    BY <2>1, <2>2, <2>3, Numbers DEF BitsInPlace
<1>4. CASE ~Loads /\ bits > 0
  <2>1. cycle < Release /\ 0 < Passed /\ bits + Passed <= ShiftBits
    BY <1>4 DEF PipeInPlace, BitsInPlace
  <2>2. bits' = bits - 1
    BY <1>1, <1>4, <2>1 DEF BitsAfter, Shifts
  <2> HIDE DEF Passed
  <2>3. (Passed' = Passed + 1 /\ cycle' = cycle) \/ Passed = 2 * Pixels - 1
    BY <1>1, Passing
  <2>4. Passed \in Nat
    BY <1>1, Passing
  <2>5. CASE Passed' = Passed + 1 /\ cycle' = cycle
    BY <1>2, <1>4, <2>1, <2>2, <2>4, <2>5, Numbers DEF BitsInPlace
  <2>6. CASE Passed = 2 * Pixels - 1
    BY <1>2, <1>4, <2>1, <2>2, <2>6, Numbers DEF BitsInPlace
  <2> QED
    BY <1>2, <2>2, <2>3, <2>5, <2>6
<1>5. CASE ~Loads /\ ~(bits > 0)
  <2>1. bits' = 0
    BY <1>1, <1>2, <1>5 DEF BitsAfter
  <2> QED
    BY <2>1, Numbers DEF BitsInPlace
<1> QED
  BY <1>3, <1>4, <1>5

LEMMA TickRegisters ==
    ASSUME BeamTyped, PipeInPlace, RegistersTyped, Tick
    PROVE  RegistersTyped'
<1>1. /\ den' = den /\ yscroll' = yscroll /\ high' = high /\ low' = low /\ mask' = mask
  BY DEF Tick, control
<1>2. flag' \in BOOLEAN /\ aec' \in BOOLEAN
  BY DEF Tick
<1>3. locked' \in BOOLEAN
  BY DEF Tick, LockedAfter, RegistersTyped
<1>4. pending' \in BOOLEAN /\ armed' \in BOOLEAN
  BY DEF Tick, PendingAfter, RegistersTyped
<1>5. matched' \in BOOLEAN
  BY DEF Tick, Matches, RegistersTyped
<1>6. bits' \in Nat /\ bits' < ShiftBits
  BY TickBits
<1>7. shown' \in Columns
  <2>1. shown' = IF Loads THEN Head(RingWithStaged) ELSE shown
    BY DEF Tick
  <2>2. CASE Loads
    BY <2>1, <2>2, LoadsFirst, Numbers DEF Columns, Here, LastColumn, BeamTyped
  <2> QED
    BY <2>1, <2>2 DEF RegistersTyped
<1> QED
  BY <1>1, <1>2, <1>3, <1>4, <1>5, <1>6, <1>7 DEF RegistersTyped

\* A write leaves the beam, the bus, the pipeline and the note of the interrupt alone.
LEMMA Writes ==
    ASSUME Next, ~Tick
    PROVE  UNCHANGED <<chip, beam, bus, pipe, pending, matched>>
  BY DEF Next, WriteControl, WriteRaster, Acknowledge, WriteMask, raster, control

LEMMA WritesTyped ==
    ASSUME RegistersTyped, Next, ~Tick
    PROVE  RegistersTyped'
<1>1. UNCHANGED <<locked, aec, pending, matched, bits, shown>>
  BY Writes DEF bus, pipe
<1>2. /\ den' \in BOOLEAN /\ yscroll' \in 0..(RowLines - 1)
      /\ high' \in HighParts \cup {0} /\ low' \in LowParts \cup {0}
  BY DEF RegistersTyped, Next, WriteControl, WriteRaster, Acknowledge, WriteMask, control
<1>3. flag' \in BOOLEAN /\ mask' \in BOOLEAN /\ armed' \in BOOLEAN
  BY DEF RegistersTyped, Next, WriteControl, WriteRaster, Acknowledge, WriteMask, raster
<1> QED
  BY <1>1, <1>2, <1>3 DEF RegistersTyped

LEMMA Untouched ==
    ASSUME IInv, UNCHANGED <<chip, beam, bus, pipe, pending, matched>>, RegistersTyped'
    PROVE  IInv'
<1>1. /\ chip' = chip /\ line' = line /\ cycle' = cycle /\ pixel' = pixel /\ half' = half
      /\ locked' = locked /\ dma' = dma /\ pending' = pending /\ matched' = matched
      /\ fetching' = fetching /\ staged' = staged /\ ring' = ring /\ bits' = bits
  BY DEF beam, bus, pipe
<1>2. BeamTyped' /\ LockWithinLine' /\ SpriteInItsLines' /\ PendingMatched'
  BY <1>1 DEF IInv, BeamTyped, LockWithinLine, SpriteInItsLines, PendingMatched, At, Stop
<1>3. PipeInPlace'
  BY <1>1 DEF IInv, PipeInPlace, FetchInPlace, StageInPlace, RingInPlace, BitsInPlace,
              OnVideo, Here, Passed, LastColumn, At
<1> QED
  BY <1>2, <1>3 DEF IInv

\* The inductive invariant of the beam, the bus, the raster interrupt and the pipeline.
THEOREM VicInvariant == Spec => []IInv
<1>1. ASSUME IInv, [Next]_vars
      PROVE  IInv'
  <2>1. CASE Tick
    <3>1. BeamTyped' /\ LockWithinLine' /\ SpriteInItsLines' /\ PendingMatched'
      BY <1>1, <2>1, TickTyped, TickLock, TickSprites, TickPending DEF IInv
    <3>2. PipeInPlace'
      BY <1>1, <2>1, TickFetch, TickStage, TickRing, TickBits DEF IInv, PipeInPlace
    <3>3. RegistersTyped'
      BY <1>1, <2>1, TickRegisters DEF IInv
    <3> QED
      BY <3>1, <3>2, <3>3 DEF IInv
  <2>2. CASE Next /\ ~Tick
    BY <1>1, <2>2, Writes, WritesTyped, Untouched DEF IInv
  <2>3. CASE UNCHANGED vars
    <3>1. UNCHANGED <<chip, beam, bus, pipe, pending, matched>>
      BY <2>3 DEF vars, raster
    <3>2. RegistersTyped'
      BY <1>1, <2>3 DEF IInv, RegistersTyped, vars, control, raster, bus, pipe
    <3> QED
      BY <1>1, <3>1, <3>2, Untouched
  <2> QED
    BY <1>1, <2>1, <2>2, <2>3
<1> QED
  BY <1>1, InitIInv, PTL DEF Spec

\* The bus is held within one line, whatever is written to DEN and YSCROLL.
THEOREM HoldEnds == Spec => []LockWithinLine
<1>1. IInv => LockWithinLine
  BY DEF IInv
<1> QED
  BY <1>1, VicInvariant, PTL

\* A sprite is read in its own lines only.
THEOREM SpriteLinesCorrect == Spec => []SpriteInItsLines
<1>1. IInv => SpriteInItsLines
  BY DEF IInv
<1> QED
  BY <1>1, VicInvariant, PTL

\* The processor has the bus in the refresh cycles of every line.
THEOREM BusIsFree == Spec => ProcessorGetsBus
<1>1. ASSUME IInv, [Next]_vars, beam' # beam,
             cycle < FirstSprite \/ (Release <= cycle /\ cycle < LateSprite)
      PROVE  aec'
  <2>1. Tick
    BY <1>1, Writes DEF vars
  <2>2. ~OnVideo /\ ~OnSprite /\ ~(Latch <= cycle /\ cycle < Release)
    BY <1>1, Numbers DEF IInv, BeamTyped, OnVideo, OnSprite
  <2>3. aec' = ~(BusWindow \/ Holds)
    BY <2>1 DEF Tick
  <2> QED
    BY <2>2, <2>3 DEF BusWindow, Holds
<1>2. IInv /\ [Next]_vars =>
        [beam' # beam /\ (cycle < FirstSprite \/ (Release <= cycle /\ cycle < LateSprite)) => aec']_vars
  BY <1>1
<1> QED
  BY <1>2, VicInvariant, PTL DEF Spec, ProcessorGetsBus

\* A requested raster interrupt is missed only in a line after a compared one.
THEOREM MissesInARow == Spec => MissedOnlyInARow
<1>1. ASSUME IInv, [Next]_vars, line' # line, Matches, Requested, ~matched
      PROVE  flag' /\ pending' /\ ~pending
  <2>1. Tick
    BY <1>1, Writes DEF vars, beam
  <2>2. EndsLine
    BY <1>1, <2>1 DEF Tick, Advance
  <2>3. ~pending
    BY <1>1 DEF IInv, PendingMatched
  <2>4. Raises
    BY <1>1, <2>2, <2>3 DEF Raises
  <2>5. flag' = (flag \/ Raises) /\ pending' = PendingAfter
    BY <2>1 DEF Tick
  <2> QED
    BY <1>1, <2>2, <2>3, <2>4, <2>5 DEF PendingAfter
<1>2. IInv /\ [Next]_vars =>
        [line' # line /\ Matches /\ Requested /\ ~(flag' /\ pending' /\ ~pending) => matched]_vars
  BY <1>1
<1> QED
  BY <1>2, VicInvariant, PTL DEF Spec, MissedOnlyInARow

\* Every variable keeps its type.
THEOREM VicTypes == Spec => []TypeOK
<1>1. ASSUME IInv PROVE TypeOK
  <2>1. /\ line \in 0..(Lines - 1) /\ cycle \in 0..(Cycles - 1) /\ pixel \in 0..(Pixels - 1)
        /\ bits \in 0..(ShiftBits - 1)
    BY <1>1, Numbers DEF IInv, BeamTyped, RegistersTyped
  <2>2. fetching \subseteq Columns
    BY <1>1, Numbers DEF IInv, BeamTyped, PipeInPlace, FetchInPlace, OnVideo, Here, Columns
  <2>3. staged \subseteq Columns
    BY <1>1, Numbers DEF IInv, BeamTyped, PipeInPlace, StageInPlace, OnVideo, Here, Columns
  <2>4. ring \in Seq(Columns)
    <3>1. LastColumn \in Columns
      BY Numbers DEF LastColumn, Columns
    <3>2. ring = <<>> \/ ring = <<LastColumn>>
      BY <1>1 DEF IInv, PipeInPlace, RingInPlace
    <3>3. <<LastColumn>> \in Seq(Columns) /\ <<>> \in Seq(Columns)
      BY <3>1
    <3> QED
      BY <3>2, <3>3, Zenon
  <2> QED
    BY <1>1, <2>1, <2>2, <2>3, <2>4 DEF IInv, BeamTyped, RegistersTyped, TypeOK
<1> QED
  BY <1>1, VicInvariant, PTL

\* The ring never holds more than one column, so none is pushed out of it.
THEOREM RingKeeps == Spec => []RingShort
<1>1. IInv => RingShort
  BY DEF IInv, PipeInPlace, RingInPlace, RingShort
<1> QED
  BY <1>1, VicInvariant, PTL

\* A column is shown in the cycle after its own, the last one of a line at a line's start.
THEOREM ColumnsShown == Spec => ColumnsInPlace
<1>1. ASSUME IInv, [Next]_vars, beam' # beam, Loads
      PROVE  cycle = FirstVideo + 1 + shown' \/ (cycle = 0 /\ shown' = LastColumn)
  <2>1. Tick
    BY <1>1, Writes DEF vars
  <2>2. shown' = Head(RingWithStaged)
    BY <1>1, <2>1 DEF Tick
  <2>3. \/ Head(RingWithStaged) = Here - 1
        \/ cycle = 0 /\ Head(RingWithStaged) = LastColumn
    BY <1>1, LoadsFirst DEF IInv
  <2> QED
    BY <1>1, <2>2, <2>3, Numbers DEF IInv, BeamTyped, Here
<1>2. IInv /\ [Next]_vars =>
        [beam' # beam /\ Loads => \/ cycle = FirstVideo + 1 + shown'
                                  \/ cycle = 0 /\ shown' = LastColumn]_vars
  BY <1>1
<1> QED
  BY <1>2, VicInvariant, PTL DEF Spec, ColumnsInPlace

=============================================================================
