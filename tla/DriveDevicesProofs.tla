-------------------------- MODULE DriveDevicesProofs --------------------------
(***************************************************************************)
(* The drive's board, its command channel and its images.  First the       *)
(* half-cycle of the board, for every plan, release delay, size of a byte  *)
(* and hold of the error LED.  Then what the command channel and the       *)
(* directory answer, for every set of dialogues, names, patterns and       *)
(* blocks; the wildcard match is proved to mean what its pattern says on   *)
(* the way.  Then the images, for every set of images and of tracks: where *)
(* their blocks are, how the class of a block follows its readings, and    *)
(* that the walk through a directory lists its chain.                      *)
(***************************************************************************)
EXTENDS DriveBoard, DriveDos, DiskImage, FiniteSetTheorems, WellFoundedInduction, SequenceTheorems,
        TLAPS

-----------------------------------------------------------------------------
(* The invariant, in the parts that a step changes together.               *)

\* The lines.  What is pulled without being wanted has the rest of its delay in its
\* countdown, and the port's latch is what it shows; a C64 that is not on pulls nothing.
Port == [in : SUBSET Lines, out : SUBSET Lines, hostLatched : SUBSET Lines, driveLatched : SUBSET Lines]
LinesTyped ==
    /\ delay \in Nat
    /\ seen \subseteq Lines /\ host \subseteq Lines /\ pulls \subseteq OutLines
    /\ port \in Port
    /\ countdown \in [OutLines -> Nat] /\ wanted \in [OutLines -> Nat]
CountdownRuns == \A l \in pulls : countdown[l] + wanted[l] = delay
LatchShown == port.in = port.hostLatched
SilentC64 == c64 # "On" => host = {}
LinesOK ==
    /\ LinesTyped /\ PullsExact /\ CountdownRuns
    /\ LatchShown /\ SeesTheBus /\ SilentC64

\* The VIAs.  The bits a shift register has left and those it has shifted are what it began
\* with, whether it is shifting or has been stopped.
Timer == [count : 0..(Byte * Byte - 1), latch : 0..(Byte * Byte - 1), running : BOOLEAN]
Via == [t1 : Timer, continuous : BOOLEAN, t2 : Timer, shifting : BOOLEAN, bitsLeft : 0..ShiftBits,
        ifr : SUBSET Flags, ier : SUBSET Flags, outLow : SUBSET OutLines]
Age == [from : Nat, age : Nat]
Life == [t1 : Age, t2 : Age, sr : Age]
OnTime(v, l) ==
    /\ v.t1.running => v.t1.count + l.t1.age = l.t1.from
    /\ v.t2.running => v.t2.count + l.t2.age = l.t2.from
    /\ v.bitsLeft + l.sr.age = l.sr.from
ViasTyped == via \in [1..2 -> Via] /\ life \in [1..2 -> Life] /\ owed \in [1..2 -> SUBSET Flags]
ViasOK ==
    /\ ViasTyped
    /\ \A i \in 1..2 : OnTime(via[i], life[i]) /\ via[i].ifr = owed[i]

\* The lamps.  What is left of the hold of an error is known from the ticks since it.
Signal == [activity : 0..WriteTicks, hold : 0..ErrorHold, window : 0..(Window - 1), edges : Nat]
Leds == [motor : BOOLEAN, activity : BOOLEAN, error : BOOLEAN, load : BOOLEAN]
LampsOK ==
    /\ signal \in Signal /\ leds \in Leds /\ status \in BOOLEAN
    /\ calm \in 0..(ErrorHold + 1)
    /\ signal.hold = (IF calm <= ErrorHold THEN ErrorHold - calm ELSE 0)
    /\ ErrorShows

Rest == plan \in DOMAIN Plans /\ power \in Powers /\ c64 \in C64Powers

IInv == Rest /\ LinesOK /\ ViasOK /\ LampsOK

-----------------------------------------------------------------------------
(* The constants, and helpers.                                             *)

LEMMA MayDo ==
    ASSUME BoardConstants, Rest
    PROVE  PlanOK(May)
BY DEF BoardConstants, Rest, May

LEMMA Numbers ==
    ASSUME BoardConstants
    PROVE  /\ Byte \in Nat /\ 0 < Byte /\ ShiftBits \in Nat /\ 0 < ShiftBits
           /\ Window \in Nat /\ 0 < Window /\ ErrorHold \in Nat
           /\ ActivityTicks \in Nat /\ WriteTicks \in Nat /\ ActivityTicks <= WriteTicks
BY DEF BoardConstants

\* Lines that change one after another are all taken over.
LEMMA AllApplied ==
    ASSUME NEW on, NEW new
    PROVE  Applied(on, on, new) = new
BY DEF Applied, Edges

LEMMA EdgesCounted ==
    ASSUME NEW a \in SUBSET Lines, NEW b \in SUBSET Lines
    PROVE  Cardinality(Edges(a, b)) \in Nat
<1>1. IsFiniteSet(Lines)
  <2>1. IsFiniteSet({})
    BY FS_EmptySet
  <2>2. IsFiniteSet({} \cup {"ATN"})
    BY <2>1, FS_AddElement
  <2>3. IsFiniteSet(({} \cup {"ATN"}) \cup {"CLK"})
    BY <2>2, FS_AddElement
  <2>4. IsFiniteSet((({} \cup {"ATN"}) \cup {"CLK"}) \cup {"DATA"})
    BY <2>3, FS_AddElement
  <2>5. Lines = (({} \cup {"ATN"}) \cup {"CLK"}) \cup {"DATA"}
    BY DEF Lines
  <2> QED
    BY <2>4, <2>5
<1>2. Edges(a, b) \subseteq Lines
  BY DEF Edges
<1> QED
  BY <1>1, <1>2, FS_Subset, FS_CardinalityType

\* A byte put into the high or the low half of a latch gives a value of two bytes.
LEMMA TwoBytes ==
    ASSUME BoardConstants, NEW b \in 0..(Byte - 1), NEW t \in Timer
    PROVE  /\ HighByte(t, b) \in 0..(Byte * Byte - 1)
           /\ LowByte(t, b) \in 0..(Byte * Byte - 1)
<1>1. Byte \in Nat /\ 0 < Byte /\ b \in Nat /\ b <= Byte - 1
  BY Numbers
<1>2. t.latch \in Nat /\ t.latch < Byte * Byte
  BY <1>1 DEF Timer
<1>3. Byte * (b + 1) <= Byte * Byte
  BY <1>1
<1>4. Byte * (b + 1) = Byte * b + Byte
  BY <1>1
<1>5. t.latch % Byte \in 0..(Byte - 1)
  BY <1>1, <1>2
<1>6. HighByte(t, b) \in 0..(Byte * Byte - 1)
  BY <1>1, <1>3, <1>4, <1>5 DEF HighByte
<1>7. t.latch \div Byte \in 0..(Byte - 1)
  BY <1>1, <1>2
<1>8. Byte * ((t.latch \div Byte) + 1) <= Byte * Byte
  BY <1>1, <1>7
<1>9. Byte * ((t.latch \div Byte) + 1) = Byte * (t.latch \div Byte) + Byte
  BY <1>1, <1>7
<1>10. LowByte(t, b) \in 0..(Byte * Byte - 1)
  BY <1>1, <1>7, <1>8, <1>9 DEF LowByte
<1> QED
  BY <1>6, <1>10

-----------------------------------------------------------------------------
(* The lines.                                                              *)

\* What comes from the C64 is shown at once.
LEMMA HostShown ==
    ASSUME port \in Port, LatchShown, NEW low \in SUBSET Lines
    PROVE  FromHost(low) \in Port /\ FromHost(low).in = low /\ FromHost(low).hostLatched = low
<1>1. Applied(port.in, port.hostLatched, low) = low
  BY AllApplied DEF LatchShown
<1> QED
  BY <1>1 DEF FromHost, Port

LEMMA DriveShown ==
    ASSUME NEW p \in Port, NEW low \in SUBSET OutLines
    PROVE  /\ FromDrive(p, low) \in Port
           /\ FromDrive(p, low).in = p.in /\ FromDrive(p, low).hostLatched = p.hostLatched
<1>1. low \in SUBSET Lines
  BY DEF OutLines, Lines
<1>2. Applied(p.out, p.driveLatched, low) \in SUBSET Lines
  BY <1>1 DEF Applied, Port
<1> QED
  BY <1>1, <1>2 DEF FromDrive, Port

\* While the C64 is not on, the lines it left are high.
LEMMA SeenStays ==
    ASSUME LinesOK
    PROVE  HostLines(seen) = seen /\ seen \in SUBSET Lines
BY DEF LinesOK, LinesTyped, SeesTheBus, SilentC64, HostLines

\* A tick of a drive that is not on pulls nothing.
LEMMA LinesAway ==
    ASSUME LinesOK, NEW p, TickAway(p), UNCHANGED <<delay, c64, host>>
    PROVE  LinesOK'
<1>1. port' = FromHost(HostLines(seen)) /\ seen' = port'.in /\ pulls' = {} /\ wanted' = Forgotten
      /\ countdown' = countdown
  BY DEF TickAway
<1>2. HostLines(seen) = seen /\ seen \in SUBSET Lines
  BY SeenStays
<1>3. port' \in Port /\ port'.in = seen /\ port'.hostLatched = seen
  BY <1>1, <1>2, HostShown DEF LinesOK, LinesTyped
<1>4. delay' \in Nat /\ wanted' \in [OutLines -> Nat] /\ \A l \in OutLines : wanted'[l] > delay'
  BY <1>1 DEF LinesOK, LinesTyped, Forgotten
<1>5. LinesTyped'
  BY <1>1, <1>2, <1>3, <1>4 DEF LinesOK, LinesTyped
<1>6. PullsExact'
  BY <1>1, <1>4 DEF PullsExact
<1>7. CountdownRuns'
  BY <1>1 DEF CountdownRuns
<1>8. LatchShown' /\ SeesTheBus' /\ SilentC64'
  BY <1>1, <1>3 DEF LinesOK, LatchShown, SeesTheBus, SilentC64
<1> QED
  BY <1>5, <1>6, <1>7, <1>8 DEF LinesOK

\* A line is pulled on for as long as its countdown has ticks, which is as long as it was
\* wanted within the delay.
LEMMA ReleasedOnTime ==
    ASSUME LinesOK, NEW l \in OutLines, NEW target \in SUBSET OutLines,
           NEW age, age = IF l \in target THEN 0 ELSE Cap(wanted[l] + 1)
    PROVE  /\ age \in Nat /\ Released(l, l \in target)[2] \in Nat
           /\ Released(l, l \in target)[1] <=> age <= delay
           /\ Released(l, l \in target)[1] => Released(l, l \in target)[2] + age = delay
<1>1. delay \in Nat /\ wanted[l] \in Nat /\ countdown[l] \in Nat
  BY DEF LinesOK, LinesTyped
<1>2. l \in pulls <=> wanted[l] <= delay
  BY DEF LinesOK, PullsExact
<1>3. l \in pulls => countdown[l] + wanted[l] = delay
  BY DEF LinesOK, CountdownRuns
<1>4. CASE l \in target
  BY <1>1, <1>4 DEF Released
<1>5. CASE l \notin target /\ l \in pulls /\ countdown[l] > 0
  <2>1. Released(l, l \in target)[1] = TRUE /\ Released(l, l \in target)[2] = countdown[l] - 1
    BY <1>5 DEF Released
  <2>2. age = wanted[l] + 1 /\ wanted[l] + 1 <= delay
    BY <1>1, <1>3, <1>5 DEF Cap
  <2> QED
    BY <1>1, <1>3, <1>5, <2>1, <2>2
<1>6. CASE l \notin target /\ ~(l \in pulls /\ countdown[l] > 0)
  <2>1. Released(l, l \in target)[1] = FALSE /\ Released(l, l \in target)[2] = 0
    BY <1>6 DEF Released
  <2>2. age = delay + 1
    BY <1>1, <1>2, <1>3, <1>6 DEF Cap
  <2> QED
    BY <1>1, <2>1, <2>2
<1> QED
  BY <1>4, <1>5, <1>6

LEMMA LinesOn ==
    ASSUME LinesOK, NEW target \in SUBSET OutLines,
           pulls' = {l \in OutLines : Released(l, l \in target)[1]},
           countdown' = [l \in OutLines |-> Released(l, l \in target)[2]],
           wanted' = [l \in OutLines |-> IF l \in target THEN 0 ELSE Cap(wanted[l] + 1)],
           port' = FromDrive(FromHost(HostLines(seen)), pulls'),
           seen' = port'.in,
           UNCHANGED <<delay, c64, host>>
    PROVE  LinesOK'
<1>1. HostLines(seen) = seen /\ seen \in SUBSET Lines
  BY SeenStays
<1>2. FromHost(seen) \in Port /\ FromHost(seen).in = seen /\ FromHost(seen).hostLatched = seen
  BY <1>1, HostShown DEF LinesOK, LinesTyped
<1>3. pulls' \in SUBSET OutLines
  OBVIOUS
<1>4. port' \in Port /\ port'.in = seen /\ port'.hostLatched = seen
  BY <1>1, <1>2, <1>3, DriveShown
<1>5. \A l \in OutLines : /\ wanted'[l] \in Nat /\ countdown'[l] \in Nat
                          /\ l \in pulls' <=> wanted'[l] <= delay
                          /\ l \in pulls' => countdown'[l] + wanted'[l] = delay
  <2> TAKE l \in OutLines
  <2>1. /\ wanted'[l] = IF l \in target THEN 0 ELSE Cap(wanted[l] + 1)
        /\ countdown'[l] = Released(l, l \in target)[2]
        /\ l \in pulls' <=> Released(l, l \in target)[1]
    OBVIOUS
  <2> QED
    BY <2>1, ReleasedOnTime
<1>6. wanted' \in [OutLines -> Nat] /\ countdown' \in [OutLines -> Nat]
  BY <1>5
<1>7. LinesTyped'
  BY <1>1, <1>3, <1>4, <1>6 DEF LinesOK, LinesTyped
<1>8. PullsExact'
  BY <1>3, <1>5 DEF PullsExact
<1>9. CountdownRuns'
  BY <1>3, <1>5 DEF CountdownRuns
<1>10. LatchShown' /\ SeesTheBus' /\ SilentC64'
  BY <1>4 DEF LinesOK, LatchShown, SeesTheBus, SilentC64
<1> QED
  BY <1>7, <1>8, <1>9, <1>10 DEF LinesOK

\* What the C64 puts on the bus, and what is left of it when it goes.
LEMMA LinesSet ==
    ASSUME LinesOK, NEW low \in SUBSET Lines,
           port' = FromHost(low), seen' = port'.in, host' = low, c64' = "On" \/ low = {},
           \/ UNCHANGED <<pulls, wanted>>
           \/ pulls' = {} /\ wanted' = Forgotten,
           UNCHANGED <<delay, countdown>>
    PROVE  LinesOK'
<1>1. port' \in Port /\ port'.in = low /\ port'.hostLatched = low
  BY HostShown DEF LinesOK, LinesTyped
<1>2. delay \in Nat /\ \A l \in OutLines : Forgotten[l] \in Nat /\ Forgotten[l] > delay
  BY DEF LinesOK, LinesTyped, Forgotten
<1>3. Forgotten \in [OutLines -> Nat]
  BY <1>2 DEF Forgotten
<1>4. LinesTyped'
  BY <1>1, <1>3 DEF LinesOK, LinesTyped
<1>5. PullsExact' /\ CountdownRuns'
  <2>1. CASE UNCHANGED <<pulls, wanted>>
    BY <2>1 DEF LinesOK, PullsExact, CountdownRuns
  <2>2. CASE pulls' = {} /\ wanted' = Forgotten
    BY <1>2, <2>2 DEF PullsExact, CountdownRuns
  <2> QED
    BY <2>1, <2>2
<1>6. LatchShown' /\ SeesTheBus' /\ SilentC64'
  BY <1>1 DEF LatchShown, SeesTheBus, SilentC64
<1> QED
  BY <1>4, <1>5, <1>6 DEF LinesOK

\* A reset forgets the countdowns: what is pulled is pulled for this tick only.
LEMMA LinesReset ==
    ASSUME LinesOK, reset
    PROVE  LinesOK'
<1>1. /\ port' = FreshPort /\ countdown' = [l \in OutLines |-> 0]
      /\ wanted' = [l \in OutLines |-> IF l \in pulls THEN delay ELSE delay + 1]
      /\ UNCHANGED <<delay, c64, seen, pulls, host>>
  BY DEF reset, fixed
<1>2. delay \in Nat /\ pulls \subseteq OutLines
  BY DEF LinesOK, LinesTyped
<1>3. wanted' \in [OutLines -> Nat] /\ countdown' \in [OutLines -> Nat]
  BY <1>1, <1>2
<1>4. port' \in Port
  BY <1>1 DEF FreshPort, Port
<1>5. LinesTyped'
  BY <1>1, <1>3, <1>4 DEF LinesOK, LinesTyped
<1>6. PullsExact' /\ CountdownRuns'
  BY <1>1, <1>2 DEF PullsExact, CountdownRuns
<1>7. LatchShown' /\ SeesTheBus' /\ SilentC64'
  BY <1>1 DEF LinesOK, LatchShown, FreshPort, SeesTheBus, SilentC64
<1> QED
  BY <1>5, <1>6, <1>7 DEF LinesOK

-----------------------------------------------------------------------------
(* The VIAs.                                                               *)

\* A counter that has run for as long as it was loaded for is at its end.
LEMMA Counting ==
    ASSUME NEW count \in Nat, NEW age \in Nat, NEW from \in Nat, count + age = from
    PROVE  /\ count = 0 <=> age = from
           /\ count > 0 <=> age < from
           /\ count = 1 <=> age + 1 = from
OBVIOUS

\* A timer begins again, stops, or counts with its age.
LEMMA TimerMoves ==
    ASSUME BoardConstants, NEW t \in Timer, NEW a \in Age
    PROVE  /\ [t EXCEPT !.count = t.latch] \in Timer /\ [t EXCEPT !.count = t.latch].count = t.latch
           /\ [from |-> t.latch, age |-> 0] \in Age
           /\ [t EXCEPT !.running = FALSE] \in Timer /\ [t EXCEPT !.running = FALSE].running = FALSE
           /\ Ran(a, TRUE) \in Age /\ Ran(a, TRUE).age = a.age + 1 /\ Ran(a, TRUE).from = a.from
           /\ Ran(a, FALSE) = a
           /\ t.count > 0 => /\ [t EXCEPT !.count = @ - 1] \in Timer
                             /\ [t EXCEPT !.count = @ - 1].count = t.count - 1
<1>1. Byte * Byte \in Nat
  BY Numbers
<1> DEFINE Most == Byte * Byte - 1
<1>2. Timer = [count : 0..Most, latch : 0..Most, running : BOOLEAN] /\ Most \in Int
  BY <1>1 DEF Timer
<1> HIDE DEF Most
<1>3. /\ [t EXCEPT !.count = t.latch] \in Timer /\ [t EXCEPT !.count = t.latch].count = t.latch
      /\ [t EXCEPT !.running = FALSE] \in Timer /\ [t EXCEPT !.running = FALSE].running = FALSE
  BY <1>2
<1>4. [from |-> t.latch, age |-> 0] \in Age
  BY <1>2 DEF Age
<1>5. ASSUME t.count > 0
      PROVE  [t EXCEPT !.count = @ - 1] \in Timer /\ [t EXCEPT !.count = @ - 1].count = t.count - 1
  <2>1. t.count \in 0..Most
    BY <1>2
  <2>2. t.count - 1 \in 0..Most
    BY <1>2, <1>5, <2>1
  <2> QED
    BY <1>2, <2>2
<1>6. /\ Ran(a, TRUE) \in Age /\ Ran(a, TRUE).age = a.age + 1 /\ Ran(a, TRUE).from = a.from
      /\ Ran(a, FALSE) = a
  BY DEF Ran, Age
<1> QED
  BY <1>3, <1>4, <1>5, <1>6

\* A tick of a VIA: what falls due is what expires, and the counters stay on time.
LEMMA ViaTick ==
    ASSUME BoardConstants, ViasOK, NEW i \in 1..2
    PROVE  /\ ViaTicked(via[i]) \in Via /\ LifeAfter(i) \in Life
           /\ OnTime(ViaTicked(via[i]), LifeAfter(i))
           /\ Due(i) = Expired(via[i])
           /\ ViaTicked(via[i]).ifr = via[i].ifr \cup Expired(via[i])
<1> DEFINE v == via[i]
           l == life[i]
<1>1. v \in Via /\ l \in Life /\ OnTime(v, l)
  BY DEF ViasOK, ViasTyped
<1>2. v.t1 \in Timer /\ v.t2 \in Timer /\ v.bitsLeft \in 0..ShiftBits /\ l.t1 \in Age /\ l.t2 \in Age
      /\ l.sr \in Age
  BY <1>1 DEF Via, Life
<1>3. /\ v.t1.count \in Nat /\ v.t1.latch \in Nat /\ v.t2.count \in Nat /\ v.bitsLeft \in Nat
      /\ l.t1.from \in Nat /\ l.t1.age \in Nat /\ l.t2.from \in Nat /\ l.t2.age \in Nat
      /\ l.sr.from \in Nat /\ l.sr.age \in Nat
  BY <1>2, Numbers DEF Timer, Age
<1>4. /\ v.t1.running => (v.t1.count = 0 <=> l.t1.age = l.t1.from)
      /\ v.t2.running => (v.t2.count = 0 <=> l.t2.age = l.t2.from)
      /\ v.bitsLeft > 0 <=> l.sr.age < l.sr.from
      /\ v.bitsLeft = 1 <=> l.sr.age + 1 = l.sr.from
  <2>1. (v.t1.running => v.t1.count + l.t1.age = l.t1.from)
        /\ (v.t2.running => v.t2.count + l.t2.age = l.t2.from) /\ v.bitsLeft + l.sr.age = l.sr.from
    BY <1>1 DEF OnTime
  <2> QED
    BY <1>3, <2>1, Counting
<1>5. Due(i) = Expired(v)
  BY <1>3, <1>4 DEF Due, Expired, Shifts
<1>6. Timer1After(v) \in Timer /\ LifeAfter(i).t1 \in Age
      /\ (Timer1After(v).running => Timer1After(v).count + LifeAfter(i).t1.age = LifeAfter(i).t1.from)
  <2>1. LifeAfter(i).t1 = IF v.t1.running /\ l.t1.age = l.t1.from
                          THEN [from |-> v.t1.latch, age |-> 0] ELSE Ran(l.t1, v.t1.running)
    BY DEF LifeAfter
  <2>2. CASE v.t1.running /\ v.t1.count = 0 /\ v.continuous
    <3>1. Timer1After(v) = [v.t1 EXCEPT !.count = v.t1.latch]
      BY <2>2 DEF Timer1After
    <3>2. LifeAfter(i).t1 = [from |-> v.t1.latch, age |-> 0]
      BY <1>4, <2>1, <2>2
    <3>3. Timer1After(v).count = v.t1.latch /\ LifeAfter(i).t1.age = 0
          /\ LifeAfter(i).t1.from = v.t1.latch
      BY <1>2, <3>1, <3>2, TimerMoves
    <3>4. Timer1After(v) \in Timer /\ LifeAfter(i).t1 \in Age
      BY <1>2, <3>1, <3>2, TimerMoves
    <3> QED
      BY <1>3, <3>3, <3>4
  <2>3. CASE v.t1.running /\ v.t1.count = 0 /\ ~v.continuous
    <3>1. Timer1After(v) = [v.t1 EXCEPT !.running = FALSE]
      BY <2>3 DEF Timer1After
    <3>2. LifeAfter(i).t1 = [from |-> v.t1.latch, age |-> 0]
      BY <1>4, <2>1, <2>3
    <3> QED
      BY <1>2, <3>1, <3>2, TimerMoves
  <2>4. CASE v.t1.running /\ v.t1.count > 0
    <3>1. Timer1After(v) = [v.t1 EXCEPT !.count = @ - 1]
      BY <1>3, <2>4 DEF Timer1After
    <3>2. v.t1.count # 0
      BY <1>3, <2>4
    <3>3. LifeAfter(i).t1 = Ran(l.t1, TRUE)
      BY <1>4, <2>1, <2>4, <3>2
    <3>4. v.t1.count + l.t1.age = l.t1.from
      BY <1>1, <2>4 DEF OnTime
    <3>5. /\ Timer1After(v) \in Timer /\ Timer1After(v).count = v.t1.count - 1
          /\ LifeAfter(i).t1 \in Age
          /\ LifeAfter(i).t1.age = l.t1.age + 1 /\ LifeAfter(i).t1.from = l.t1.from
      BY <1>2, <2>4, <3>1, <3>3, TimerMoves
    <3> QED
      BY <1>3, <3>4, <3>5
  <2>5. CASE ~v.t1.running
    <3>1. Timer1After(v) = v.t1
      BY <2>5 DEF Timer1After
    <3>2. LifeAfter(i).t1 = l.t1
      BY <2>1, <2>5 DEF Ran
    <3> QED
      BY <1>2, <2>5, <3>1, <3>2
  <2> QED
    BY <1>3, <2>2, <2>3, <2>4, <2>5
<1>7. Timer2After(v) \in Timer /\ LifeAfter(i).t2 \in Age
      /\ (Timer2After(v).running => Timer2After(v).count + LifeAfter(i).t2.age = LifeAfter(i).t2.from)
  <2>1. LifeAfter(i).t2 = Ran(l.t2, v.t2.running)
    BY DEF LifeAfter
  <2>2. CASE v.t2.running /\ v.t2.count = 0
    <3>1. Timer2After(v) = [v.t2 EXCEPT !.running = FALSE]
      BY <2>2 DEF Timer2After
    <3>2. LifeAfter(i).t2 = Ran(l.t2, TRUE)
      BY <2>1, <2>2
    <3> QED
      BY <1>2, <3>1, <3>2, TimerMoves
  <2>3. CASE v.t2.running /\ v.t2.count > 0
    <3>1. Timer2After(v) = [v.t2 EXCEPT !.count = @ - 1]
      BY <1>3, <2>3 DEF Timer2After
    <3>2. LifeAfter(i).t2 = Ran(l.t2, TRUE)
      BY <2>1, <2>3
    <3>3. v.t2.count + l.t2.age = l.t2.from
      BY <1>1, <2>3 DEF OnTime
    <3>4. /\ Timer2After(v) \in Timer /\ Timer2After(v).count = v.t2.count - 1
          /\ LifeAfter(i).t2 \in Age
          /\ LifeAfter(i).t2.age = l.t2.age + 1 /\ LifeAfter(i).t2.from = l.t2.from
      BY <1>2, <2>3, <3>1, <3>2, TimerMoves
    <3> QED
      BY <1>3, <3>3, <3>4
  <2>4. CASE ~v.t2.running
    <3>1. Timer2After(v) = v.t2 /\ LifeAfter(i).t2 = l.t2
      BY <2>1, <2>4 DEF Timer2After, Ran
    <3> QED
      BY <1>2, <2>4, <3>1
  <2> QED
    BY <1>3, <2>2, <2>3, <2>4
<1>8. LifeAfter(i).sr \in Age /\ ViaTicked(v).bitsLeft \in 0..ShiftBits
      /\ ViaTicked(v).bitsLeft + LifeAfter(i).sr.age = LifeAfter(i).sr.from
  <2>1. LifeAfter(i).sr = Ran(l.sr, v.shifting /\ l.sr.age < l.sr.from)
    BY DEF LifeAfter
  <2>2. ViaTicked(v).bitsLeft = IF Shifts(v) THEN v.bitsLeft - 1 ELSE v.bitsLeft
    BY <1>1 DEF ViaTicked, Via
  <2>3. Shifts(v) <=> v.shifting /\ l.sr.age < l.sr.from
    BY <1>4 DEF Shifts
  <2>4. v.bitsLeft + l.sr.age = l.sr.from
    BY <1>1 DEF OnTime
  <2>5. CASE Shifts(v)
    <3>1. LifeAfter(i).sr = Ran(l.sr, TRUE) /\ v.bitsLeft > 0
      BY <2>1, <2>3, <2>5 DEF Ran, Shifts
    <3>2. LifeAfter(i).sr \in Age /\ LifeAfter(i).sr.age = l.sr.age + 1 /\ LifeAfter(i).sr.from = l.sr.from
      BY <1>2, <3>1, TimerMoves
    <3>3. ViaTicked(v).bitsLeft = v.bitsLeft - 1 /\ v.bitsLeft - 1 \in 0..ShiftBits
      BY <1>2, <1>3, <2>2, <2>5, <3>1, Numbers
    <3> QED
      BY <1>3, <2>4, <3>2, <3>3
  <2>6. CASE ~Shifts(v)
    <3>1. LifeAfter(i).sr = l.sr
      BY <2>1, <2>3, <2>6 DEF Ran
    <3> QED
      BY <1>2, <2>2, <2>4, <2>6, <3>1
  <2> QED
    BY <2>5, <2>6
<1>9. LifeAfter(i) \in Life
  BY <1>6, <1>7, <1>8 DEF LifeAfter, Life
<1>10. Expired(v) \in SUBSET Flags
  BY DEF Expired
<1>11. ViaTicked(v) \in Via /\ ViaTicked(v).t1 = Timer1After(v) /\ ViaTicked(v).t2 = Timer2After(v)
       /\ ViaTicked(v).ifr = v.ifr \cup Expired(v)
  BY <1>1, <1>6, <1>7, <1>8, <1>10 DEF ViaTicked, Via
<1>12. OnTime(ViaTicked(v), LifeAfter(i))
  BY <1>6, <1>7, <1>8, <1>11 DEF OnTime
<1> QED
  BY <1>5, <1>9, <1>11, <1>12

LEMMA ViasOn ==
    ASSUME BoardConstants, ViasOK,
           via' = [i \in 1..2 |-> ViaTicked(via[i])],
           life' = [i \in 1..2 |-> LifeAfter(i)],
           owed' = [i \in 1..2 |-> owed[i] \cup Due(i)]
    PROVE  ViasOK'
<1>1. \A i \in 1..2 : /\ via'[i] \in Via /\ life'[i] \in Life /\ owed'[i] \in SUBSET Flags
                      /\ OnTime(via'[i], life'[i]) /\ via'[i].ifr = owed'[i]
  <2> TAKE i \in 1..2
  <2>1. via'[i] = ViaTicked(via[i]) /\ life'[i] = LifeAfter(i) /\ owed'[i] = owed[i] \cup Due(i)
    OBVIOUS
  <2>2. via[i].ifr = owed[i] /\ owed[i] \in SUBSET Flags
    BY DEF ViasOK, ViasTyped
  <2>3. Due(i) \in SUBSET Flags
    BY DEF Due
  <2> QED
    BY <2>1, <2>2, <2>3, ViaTick
<1>2. ViasTyped'
  BY <1>1 DEF ViasTyped
<1> QED
  BY <1>1, <1>2 DEF ViasOK

\* A write to a register takes back the same flags from the chip as from what is owed.
LEMMA ViaWritten ==
    ASSUME ViasOK, NEW i \in 1..2, NEW v \in Via, NEW cleared \in SUBSET Flags, NEW l \in Life,
           v.ifr = via[i].ifr, OnTime(v, l), ViaWrites(i, v, cleared, l)
    PROVE  ViasOK'
<1>1. /\ via' = [via EXCEPT ![i] = [v EXCEPT !.ifr = @ \ cleared]]
      /\ owed' = [owed EXCEPT ![i] = @ \ cleared]
      /\ life' = [life EXCEPT ![i] = l]
  BY DEF ViaWrites
<1> DEFINE w == [v EXCEPT !.ifr = @ \ cleared]
<1>2. w \in Via /\ w.ifr = v.ifr \ cleared /\ w.t1 = v.t1 /\ w.t2 = v.t2 /\ w.bitsLeft = v.bitsLeft
  BY DEF Via
<1>3. OnTime(w, l)
  BY <1>2 DEF OnTime
<1> HIDE DEF w
<1>4. \A k \in 1..2 : /\ via'[k] = IF k = i THEN w ELSE via[k]
                      /\ life'[k] = IF k = i THEN l ELSE life[k]
                      /\ owed'[k] = IF k = i THEN owed[k] \ cleared ELSE owed[k]
  BY <1>1 DEF ViasOK, ViasTyped, w
<1>5. ViasTyped'
  BY <1>1, <1>2 DEF ViasOK, ViasTyped, w
<1> QED
  BY <1>2, <1>3, <1>4, <1>5 DEF ViasOK

\* Every write to a register of a VIA.
Written(i) ==
    \/ writeTimerLow(i) \/ writeTimer1High(i) \/ writeTimer2High(i)
    \/ writeAcr(i) \/ writeShift(i) \/ writeIfr(i) \/ writeIer(i)

LEMMA RegisterWritten ==
    ASSUME BoardConstants, Rest, ViasOK, NEW i \in 1..2, Written(i) \/ (i = 1 /\ writePortB)
    PROVE  ViasOK'
<1> DEFINE v == via[i]
           l == life[i]
<1>1. v \in Via /\ l \in Life /\ OnTime(v, l)
  BY DEF ViasOK, ViasTyped
<1>2. /\ May.portB \subseteq SUBSET OutLines /\ May.bytes \subseteq 0..(Byte - 1)
      /\ May.flags \subseteq SUBSET Flags /\ May.acr \subseteq [bit6clear : BOOLEAN, shifts : BOOLEAN]
  BY MayDo DEF PlanOK
<1>3. /\ v.t1 \in Timer /\ v.t2 \in Timer /\ v.bitsLeft \in 0..ShiftBits /\ v.ifr \in SUBSET Flags
      /\ v.ier \in SUBSET Flags
      /\ l.t1 \in Age /\ l.t2 \in Age /\ l.sr \in Age
  BY <1>1 DEF Via, Life
<1>4. CASE writeTimerLow(i)
  <2>1. PICK b \in May.bytes :
            \/ ViaWrites(i, [v EXCEPT !.t1.latch = LowByte(v.t1, b)], {}, l)
            \/ ViaWrites(i, [v EXCEPT !.t2.latch = LowByte(v.t2, b)], {}, l)
    BY <1>4 DEF writeTimerLow
  <2>2. LowByte(v.t1, b) \in 0..(Byte * Byte - 1) /\ LowByte(v.t2, b) \in 0..(Byte * Byte - 1)
    BY <1>2, <1>3, TwoBytes
  <2>3. CASE ViaWrites(i, [v EXCEPT !.t1.latch = LowByte(v.t1, b)], {}, l)
    <3> DEFINE w == [v EXCEPT !.t1.latch = LowByte(v.t1, b)]
    <3>1. w.t1 = [v.t1 EXCEPT !.latch = LowByte(v.t1, b)] /\ w.t2 = v.t2 /\ w.bitsLeft = v.bitsLeft
          /\ w.ifr = v.ifr
      BY <1>1 DEF Via
    <3>2. w.t1 \in Timer /\ w.t1.count = v.t1.count /\ w.t1.running = v.t1.running
      BY <1>3, <2>2, <3>1 DEF Timer
    <3>3. w \in Via
      BY <1>1, <3>1, <3>2 DEF Via
    <3>4. OnTime(w, l)
      BY <1>1, <3>1, <3>2 DEF OnTime
    <3> QED
      BY <1>1, <2>3, <3>1, <3>3, <3>4, ViaWritten
  <2>4. CASE ViaWrites(i, [v EXCEPT !.t2.latch = LowByte(v.t2, b)], {}, l)
    <3> DEFINE w == [v EXCEPT !.t2.latch = LowByte(v.t2, b)]
    <3>1. w.t2 = [v.t2 EXCEPT !.latch = LowByte(v.t2, b)] /\ w.t1 = v.t1 /\ w.bitsLeft = v.bitsLeft
          /\ w.ifr = v.ifr
      BY <1>1 DEF Via
    <3>2. w.t2 \in Timer /\ w.t2.count = v.t2.count /\ w.t2.running = v.t2.running
      BY <1>3, <2>2, <3>1 DEF Timer
    <3>3. w \in Via
      BY <1>1, <3>1, <3>2 DEF Via
    <3>4. OnTime(w, l)
      BY <1>1, <3>1, <3>2 DEF OnTime
    <3> QED
      BY <1>1, <2>4, <3>1, <3>3, <3>4, ViaWritten
  <2> QED
    BY <2>1, <2>3, <2>4
<1>5. CASE writeTimer1High(i)
  <2>1. PICK b \in May.bytes :
            ViaWrites(i, [v EXCEPT !.t1 = Loaded(@, HighByte(v.t1, b))], {"T1"},
                      [l EXCEPT !.t1 = FromNow(HighByte(v.t1, b))])
    BY <1>5 DEF writeTimer1High
  <2> DEFINE n == HighByte(v.t1, b)
             w == [v EXCEPT !.t1 = Loaded(@, n)]
             k == [l EXCEPT !.t1 = FromNow(n)]
  <2>2. n \in 0..(Byte * Byte - 1) /\ n \in Nat
    BY <1>2, <1>3, TwoBytes
  <2>3. Loaded(v.t1, n) \in Timer /\ Loaded(v.t1, n).count = n
    BY <1>3, <2>2 DEF Loaded, Timer
  <2>4. FromNow(n) \in Age /\ FromNow(n).from = n /\ FromNow(n).age = 0
    BY <2>2 DEF FromNow, Age
  <2>5. w \in Via /\ w.t1 = Loaded(v.t1, n) /\ w.t2 = v.t2 /\ w.bitsLeft = v.bitsLeft /\ w.ifr = v.ifr
    BY <1>1, <2>3 DEF Via
  <2>6. k \in Life /\ k.t1 = FromNow(n) /\ k.t2 = l.t2 /\ k.sr = l.sr
    BY <1>1, <2>4 DEF Life
  <2>7. OnTime(w, k)
    BY <1>1, <2>2, <2>3, <2>4, <2>5, <2>6 DEF OnTime
  <2>8. {"T1"} \in SUBSET Flags
    BY DEF Flags
  <2> QED
    BY <2>1, <2>5, <2>6, <2>7, <2>8, ViaWritten
<1>6. CASE writeTimer2High(i)
  <2>1. PICK b \in May.bytes :
            ViaWrites(i, [v EXCEPT !.t2 = Loaded(@, HighByte(v.t2, b))], {"T2"},
                      [l EXCEPT !.t2 = FromNow(HighByte(v.t2, b))])
    BY <1>6 DEF writeTimer2High
  <2> DEFINE n == HighByte(v.t2, b)
             w == [v EXCEPT !.t2 = Loaded(@, n)]
             k == [l EXCEPT !.t2 = FromNow(n)]
  <2>2. n \in 0..(Byte * Byte - 1) /\ n \in Nat
    BY <1>2, <1>3, TwoBytes
  <2>3. Loaded(v.t2, n) \in Timer /\ Loaded(v.t2, n).count = n
    BY <1>3, <2>2 DEF Loaded, Timer
  <2>4. FromNow(n) \in Age /\ FromNow(n).from = n /\ FromNow(n).age = 0
    BY <2>2 DEF FromNow, Age
  <2>5. w \in Via /\ w.t2 = Loaded(v.t2, n) /\ w.t1 = v.t1 /\ w.bitsLeft = v.bitsLeft /\ w.ifr = v.ifr
    BY <1>1, <2>3 DEF Via
  <2>6. k \in Life /\ k.t2 = FromNow(n) /\ k.t1 = l.t1 /\ k.sr = l.sr
    BY <1>1, <2>4 DEF Life
  <2>7. OnTime(w, k)
    BY <1>1, <2>2, <2>3, <2>4, <2>5, <2>6 DEF OnTime
  <2>8. {"T2"} \in SUBSET Flags
    BY DEF Flags
  <2> QED
    BY <2>1, <2>5, <2>6, <2>7, <2>8, ViaWritten
<1>7. CASE writeAcr(i)
  <2>1. PICK acr \in May.acr :
            ViaWrites(i, [v EXCEPT !.continuous = acr.bit6clear, !.shifting = acr.shifts], {}, l)
    BY <1>7 DEF writeAcr
  <2> DEFINE w == [v EXCEPT !.continuous = acr.bit6clear, !.shifting = acr.shifts]
  <2>2. acr.bit6clear \in BOOLEAN /\ acr.shifts \in BOOLEAN
    BY <1>2
  <2>3. w \in Via /\ w.t1 = v.t1 /\ w.t2 = v.t2 /\ w.bitsLeft = v.bitsLeft /\ w.ifr = v.ifr
    BY <1>1, <2>2 DEF Via
  <2>4. OnTime(w, l)
    BY <1>1, <2>3 DEF OnTime
  <2> QED
    BY <1>1, <2>1, <2>3, <2>4, ViaWritten
<1>8. CASE writeShift(i)
  <2> DEFINE w == [v EXCEPT !.bitsLeft = ShiftBits]
             k == [l EXCEPT !.sr = FromNow(ShiftBits)]
  <2>1. ViaWrites(i, w, {"SR"}, k)
    BY <1>8 DEF writeShift
  <2>2. FromNow(ShiftBits) \in Age /\ FromNow(ShiftBits).from = ShiftBits /\ FromNow(ShiftBits).age = 0
    BY Numbers DEF FromNow, Age
  <2>3. w \in Via /\ w.t1 = v.t1 /\ w.t2 = v.t2 /\ w.bitsLeft = ShiftBits /\ w.ifr = v.ifr
    BY <1>1, Numbers DEF Via
  <2>4. k \in Life /\ k.t1 = l.t1 /\ k.t2 = l.t2 /\ k.sr = FromNow(ShiftBits)
    BY <1>1, <2>2 DEF Life
  <2>5. OnTime(w, k)
    BY <1>1, <2>2, <2>3, <2>4, Numbers DEF OnTime
  <2>6. {"SR"} \in SUBSET Flags
    BY DEF Flags
  <2> QED
    BY <2>1, <2>3, <2>4, <2>5, <2>6, ViaWritten
<1>9. CASE writeIfr(i)
  <2>1. PICK f \in May.flags : ViaWrites(i, v, f, l)
    BY <1>9 DEF writeIfr
  <2> QED
    BY <1>1, <1>2, <2>1, ViaWritten
<1>10. CASE writeIer(i)
  <2>1. PICK f \in May.flags : \/ ViaWrites(i, [v EXCEPT !.ier = @ \cup f], {}, l)
                               \/ ViaWrites(i, [v EXCEPT !.ier = @ \ f], {}, l)
    BY <1>10 DEF writeIer
  <2>2. PICK ier \in SUBSET Flags : ViaWrites(i, [v EXCEPT !.ier = ier], {}, l)
    BY <1>2, <1>3, <2>1
  <2> DEFINE w == [v EXCEPT !.ier = ier]
  <2>3. w \in Via /\ w.t1 = v.t1 /\ w.t2 = v.t2 /\ w.bitsLeft = v.bitsLeft /\ w.ifr = v.ifr
    BY <1>1 DEF Via
  <2>4. OnTime(w, l)
    BY <1>1, <2>3 DEF OnTime
  <2> QED
    BY <1>1, <2>2, <2>3, <2>4, ViaWritten
<1>11. CASE i = 1 /\ writePortB
  <2>1. PICK low \in May.portB : ViaWrites(i, [v EXCEPT !.outLow = low], {}, l)
    BY <1>11 DEF writePortB
  <2> DEFINE w == [v EXCEPT !.outLow = low]
  <2>2. w \in Via /\ w.t1 = v.t1 /\ w.t2 = v.t2 /\ w.bitsLeft = v.bitsLeft /\ w.ifr = v.ifr
    BY <1>1, <1>2 DEF Via
  <2>3. OnTime(w, l)
    BY <1>1, <2>2 DEF OnTime
  <2> QED
    BY <1>1, <2>1, <2>2, <2>3, ViaWritten
<1> QED
  BY <1>4, <1>5, <1>6, <1>7, <1>8, <1>9, <1>10, <1>11 DEF Written

-----------------------------------------------------------------------------
(* The lamps.                                                              *)

\* A tick begins with counters in their bounds.
LEMMA TickBegun ==
    ASSUME BoardConstants, LampsOK, NEW p \in Powers
    PROVE  /\ BeginTick(p) \in Signal /\ BeginTick(p).hold = Less(signal.hold)
           /\ LedsAtBegin(p) \in Leds /\ LedsAtBegin(p).motor = HasPower(p)
           /\ LedsAtBegin(p).error = (HasPower(p) /\ calm < ErrorHold)
<1>1. signal \in Signal /\ calm \in 0..(ErrorHold + 1) /\ leds \in Leds
      /\ signal.hold = (IF calm <= ErrorHold THEN ErrorHold - calm ELSE 0)
  BY DEF LampsOK
<1>2. /\ signal.activity \in 0..WriteTicks /\ signal.hold \in 0..ErrorHold
      /\ signal.window \in 0..(Window - 1) /\ signal.edges \in Nat
  BY <1>1 DEF Signal
<1>3. Less(signal.activity) \in 0..WriteTicks /\ Less(signal.hold) \in 0..ErrorHold
  BY <1>2, Numbers DEF Less
<1>4. ~(signal.window + 1 >= Window) => signal.window + 1 \in 0..(Window - 1)
  BY <1>2, Numbers
<1>5. BeginTick(p) \in Signal /\ BeginTick(p).hold = Less(signal.hold)
  BY <1>2, <1>3, <1>4, Numbers DEF BeginTick, Signal
<1>6. signal.hold > 0 <=> calm < ErrorHold
  BY <1>1, Numbers
<1>7. HasPower(p) \in BOOLEAN /\ leds.load \in BOOLEAN
  BY <1>1 DEF HasPower, Leds
<1>8. LedsAtBegin(p) \in Leds /\ LedsAtBegin(p).motor = HasPower(p)
      /\ LedsAtBegin(p).error = (HasPower(p) /\ signal.hold > 0)
  BY <1>7 DEF LedsAtBegin, Leds
<1> QED
  BY <1>5, <1>6, <1>8

LEMMA LampsAway ==
    ASSUME BoardConstants, LampsOK, LinesOK, NEW p \in Powers, TickAway(p), status' = status
    PROVE  LampsOK'
<1>1. /\ leds' = LedsAtBegin(p)
      /\ signal' = [BeginTick(p) EXCEPT !.edges = @ + Cardinality(Edges(port.hostLatched, HostLines(seen)))]
      /\ calm' = IF calm > ErrorHold THEN calm ELSE calm + 1
  BY DEF TickAway
<1>2. port.hostLatched \in SUBSET Lines /\ HostLines(seen) \in SUBSET Lines
  BY SeenStays DEF LinesOK, LinesTyped, Port
<1>3. Cardinality(Edges(port.hostLatched, HostLines(seen))) \in Nat
  BY <1>2, EdgesCounted
<1>4. signal' \in Signal /\ signal'.hold = Less(signal.hold)
  BY <1>1, <1>3, TickBegun DEF Signal
<1>5. calm \in 0..(ErrorHold + 1) /\ signal.hold = (IF calm <= ErrorHold THEN ErrorHold - calm ELSE 0)
      /\ status \in BOOLEAN
  BY DEF LampsOK
<1>6. calm' \in 0..(ErrorHold + 1)
      /\ signal'.hold = (IF calm' <= ErrorHold THEN ErrorHold - calm' ELSE 0)
  BY <1>1, <1>4, <1>5, Numbers DEF Less
<1>7. calm' <= ErrorHold <=> calm < ErrorHold
  BY <1>1, <1>5, Numbers
<1>8. leds' \in Leds /\ ErrorShows'
  BY <1>1, <1>7, TickBegun DEF ErrorShows
<1> QED
  BY <1>4, <1>5, <1>6, <1>8 DEF LampsOK

LEMMA LampsOn ==
    ASSUME BoardConstants, LampsOK, LinesOK, pulls' \in SUBSET Lines,
           NEW busy,
           leds' = [LedsAtBegin("On") EXCEPT !.error = @ \/ status],
           signal' = [BeginTick("On") EXCEPT
                        !.activity = IF busy THEN AtLeast(@, ActivityTicks \div 2) ELSE @,
                        !.hold = IF status THEN ErrorHold ELSE @,
                        !.edges = @ + Cardinality(Edges(port.hostLatched, HostLines(seen)))
                                    + Cardinality(Edges(port.driveLatched, pulls'))],
           calm' = IF status THEN 0 ELSE IF calm > ErrorHold THEN calm ELSE calm + 1,
           status' = status
    PROVE  LampsOK'
<1>1. "On" \in Powers /\ HasPower("On")
  BY DEF Powers, HasPower
<1>2. port.hostLatched \in SUBSET Lines /\ HostLines(seen) \in SUBSET Lines /\ port.driveLatched \in SUBSET Lines
  BY SeenStays DEF LinesOK, LinesTyped, Port
<1>3. /\ Cardinality(Edges(port.hostLatched, HostLines(seen))) \in Nat
      /\ Cardinality(Edges(port.driveLatched, pulls')) \in Nat
  BY <1>2, EdgesCounted
<1> DEFINE begun == BeginTick("On")
<1>4. begun \in Signal /\ begun.hold = Less(signal.hold)
  BY <1>1, TickBegun
<1>5. begun.activity \in 0..WriteTicks /\ begun.hold \in 0..ErrorHold /\ begun.edges \in Nat
  BY <1>4 DEF Signal
<1>6. AtLeast(begun.activity, ActivityTicks \div 2) \in 0..WriteTicks
  <2>1. ActivityTicks \div 2 \in 0..ActivityTicks
    BY Numbers
  <2> QED
    BY <1>5, <2>1, Numbers DEF AtLeast
<1>7. calm \in 0..(ErrorHold + 1) /\ signal.hold = (IF calm <= ErrorHold THEN ErrorHold - calm ELSE 0)
      /\ status \in BOOLEAN
  BY DEF LampsOK
<1>8. signal' \in Signal /\ signal'.hold = IF status THEN ErrorHold ELSE Less(signal.hold)
  <2> DEFINE activity == IF busy THEN AtLeast(begun.activity, ActivityTicks \div 2) ELSE begun.activity
             hold == IF status THEN ErrorHold ELSE begun.hold
             m == Cardinality(Edges(port.hostLatched, HostLines(seen)))
             n == Cardinality(Edges(port.driveLatched, pulls'))
             edges == begun.edges + m + n
  <2>1. signal' = [begun EXCEPT !.activity = activity, !.hold = hold, !.edges = edges]
    OBVIOUS
  <2>2. activity \in 0..WriteTicks
    BY <1>5, <1>6
  <2>3. hold \in 0..ErrorHold
    BY <1>5, Numbers
  <2>4. m \in Nat /\ n \in Nat
    BY <1>3
  <2>5. edges \in Nat
    <3> HIDE DEF m, n
    <3> QED
      BY <1>5, <2>4
  <2>6. hold = IF status THEN ErrorHold ELSE Less(signal.hold)
    BY <1>4
  <2> HIDE DEF activity, hold, edges, m, n, begun
  <2>7. begun \in Signal
    BY <1>4
  <2>8. signal' \in Signal /\ signal'.hold = hold
    BY <2>1, <2>2, <2>3, <2>5, <2>7 DEF Signal
  <2> QED
    BY <2>6, <2>8
<1>9. calm' \in 0..(ErrorHold + 1)
      /\ signal'.hold = (IF calm' <= ErrorHold THEN ErrorHold - calm' ELSE 0)
  BY <1>7, <1>8, Numbers DEF Less
<1>10. calm' <= ErrorHold <=> status \/ calm < ErrorHold
  BY <1>7, Numbers
<1>11. leds' \in Leds /\ leds'.motor = TRUE /\ leds'.error = (calm < ErrorHold \/ status)
  BY <1>1, <1>7, TickBegun DEF Leds
<1>12. ErrorShows'
  BY <1>10, <1>11 DEF ErrorShows
<1> QED
  BY <1>7, <1>8, <1>9, <1>11, <1>12 DEF LampsOK

\* Reading or writing a block shows for a while.
LEMMA LampsFlux ==
    ASSUME BoardConstants, LampsOK, noteFlux
    PROVE  LampsOK'
<1>1. PICK n \in {ActivityTicks, WriteTicks} : signal' = [signal EXCEPT !.activity = AtLeast(@, n)]
  BY DEF noteFlux
<1>2. UNCHANGED <<leds, status, calm>>
  BY DEF noteFlux
<1>3. signal \in Signal /\ signal.activity \in 0..WriteTicks
  BY DEF LampsOK, Signal
<1>4. AtLeast(signal.activity, n) \in 0..WriteTicks
  BY <1>3, Numbers DEF AtLeast
<1>5. signal' \in Signal /\ signal'.hold = signal.hold
  BY <1>1, <1>3, <1>4 DEF Signal
<1> QED
  BY <1>2, <1>5 DEF LampsOK, ErrorShows

\* A status is noted by the next tick only.
LEMMA LampsStatus ==
    ASSUME BoardConstants, Rest, LampsOK, setStatus
    PROVE  LampsOK'
<1>1. status' \in BOOLEAN
  BY MayDo DEF setStatus, PlanOK
<1>2. UNCHANGED <<signal, leds, calm>>
  BY DEF setStatus
<1> QED
  BY <1>1, <1>2 DEF LampsOK, ErrorShows

\* What a power-up and a reset leave.
LEMMA FreshLamps ==
    ASSUME BoardConstants
    PROVE  /\ FreshSignal \in Signal /\ FreshSignal.hold = 0 /\ Dark \in Leds
           /\ ErrorHold + 1 \in 0..(ErrorHold + 1) /\ ~(ErrorHold + 1 <= ErrorHold)
           /\ ~Dark.error /\ ~Dark.motor
BY Numbers DEF FreshSignal, Signal, Dark, Leds

LEMMA FreshVias ==
    ASSUME BoardConstants
    PROVE  FreshVia \in Via /\ FreshLife \in Life /\ OnTime(FreshVia, FreshLife) /\ FreshVia.ifr = {}
<1>1. Byte \in Nat /\ 0 < Byte /\ ShiftBits \in Nat
  BY Numbers
<1>2. Byte * Byte \in Nat /\ 0 < Byte * Byte
  <2>1. Byte * 1 <= Byte * Byte
    BY <1>1
  <2> QED
    BY <1>1, <2>1
<1>3. FreshTimer \in Timer /\ ~FreshTimer.running
  <2> DEFINE top == Byte * Byte - 1
  <2>1. top \in 0..top
    BY <1>2
  <2>2. FreshTimer = [count |-> top, latch |-> top, running |-> FALSE]
    BY DEF FreshTimer
  <2>3. Timer = [count : 0..top, latch : 0..top, running : BOOLEAN]
    BY DEF Timer
  <2> HIDE DEF top
  <2> QED
    BY <2>1, <2>2, <2>3
<1>4. FreshVia \in Via /\ FreshVia.t1 = FreshTimer /\ FreshVia.t2 = FreshTimer
      /\ FreshVia.bitsLeft = 0 /\ FreshVia.ifr = {}
  BY <1>1, <1>3 DEF FreshVia, Via
<1>5. FromNow(Byte * Byte - 1) \in Age /\ FromNow(0) \in Age /\ FromNow(0).from = 0 /\ FromNow(0).age = 0
  <2>1. Byte * Byte - 1 \in Nat
    BY <1>2
  <2> QED
    BY <2>1 DEF FromNow, Age
<1>6. FreshLife \in Life /\ FreshLife.sr = FromNow(0)
  BY <1>5 DEF FreshLife, Life
<1>7. OnTime(FreshVia, FreshLife)
  BY <1>3, <1>4, <1>5, <1>6 DEF OnTime
<1> QED
  BY <1>4, <1>6, <1>7

LEMMA LampsReset ==
    ASSUME BoardConstants, reset
    PROVE  LampsOK' /\ ViasOK'
<1>1. signal' = FreshSignal /\ leds' = Dark /\ status' = FALSE /\ calm' = ErrorHold + 1
  BY DEF reset
<1>2. LampsOK'
  BY <1>1, FreshLamps DEF LampsOK, ErrorShows
<1>3. /\ via' = [i \in 1..2 |-> FreshVia] /\ life' = [i \in 1..2 |-> FreshLife]
      /\ owed' = [i \in 1..2 |-> {}]
  BY DEF reset
<1>4. ViasOK'
  BY <1>3, FreshVias DEF ViasOK, ViasTyped
<1> QED
  BY <1>2, <1>4

-----------------------------------------------------------------------------
(* The invariant.                                                          *)

LEMMA InitIInv ==
    ASSUME BoardConstants, Init
    PROVE  IInv
<1>1. plan \in DOMAIN Plans /\ power \in Powers /\ c64 \in C64Powers
  BY DEF Init, Powers, C64Powers
<1>2. Rest
  BY <1>1 DEF Rest
<1>3. delay \in Nat
  BY <1>2, MayDo DEF Init, PlanOK
<1>4. FreshPort \in Port /\ FreshPort.in = {} /\ FreshPort.hostLatched = {}
  BY DEF FreshPort, Port
<1>5. LinesOK
  <2>1. /\ seen = {} /\ port = FreshPort /\ pulls = {} /\ countdown = [l \in OutLines |-> 0]
        /\ host = {} /\ wanted = [l \in OutLines |-> delay + 1]
    BY DEF Init, Forgotten
  <2>2. LinesTyped
    BY <1>3, <1>4, <2>1 DEF LinesTyped
  <2>3. PullsExact /\ CountdownRuns
    BY <1>3, <2>1 DEF PullsExact, CountdownRuns
  <2>4. LatchShown /\ SeesTheBus /\ SilentC64
    BY <1>4, <2>1 DEF LatchShown, SeesTheBus, SilentC64
  <2> QED
    BY <2>2, <2>3, <2>4 DEF LinesOK
<1>6. ViasOK
  <2>1. /\ via = [i \in 1..2 |-> FreshVia] /\ life = [i \in 1..2 |-> FreshLife]
        /\ owed = [i \in 1..2 |-> {}]
    BY DEF Init
  <2> QED
    BY <2>1, FreshVias DEF ViasOK, ViasTyped
<1>7. LampsOK
  <2>1. signal = FreshSignal /\ leds = Dark /\ status = FALSE /\ calm = ErrorHold + 1
    BY DEF Init
  <2> QED
    BY <2>1, FreshLamps DEF LampsOK, ErrorShows
<1> QED
  BY <1>2, <1>5, <1>6, <1>7 DEF IInv

LEMMA TickKeepsIInv ==
    ASSUME BoardConstants, IInv, tickIecHalfCycle
    PROVE  IInv'
<1>1. PICK p \in PowerLater(power) : power' = p /\ (IF p = "On" THEN TickOn ELSE TickAway(p))
  BY DEF tickIecHalfCycle
<1>2. UNCHANGED <<plan, delay, c64, status, host>>
  BY DEF tickIecHalfCycle, fixed
<1>3. Rest /\ LinesOK /\ ViasOK /\ LampsOK
  BY DEF IInv
<1>4. p \in Powers
  BY <1>1, <1>3 DEF PowerLater, Powers, Rest
<1>5. Rest'
  BY <1>1, <1>2, <1>3, <1>4 DEF Rest
<1>6. CASE p = "On"
  <2>1. TickOn
    BY <1>1, <1>6
  <2> DEFINE Ticks(target, busy) ==
        /\ via' = [i \in 1..2 |-> ViaTicked(via[i])]
        /\ life' = [i \in 1..2 |-> LifeAfter(i)]
        /\ owed' = [i \in 1..2 |-> owed[i] \cup Due(i)]
        /\ irqLine' = IrqAsserted(via')
        /\ pulls' = {l \in OutLines : Released(l, l \in target)[1]}
        /\ countdown' = [l \in OutLines |-> Released(l, l \in target)[2]]
        /\ wanted' = [l \in OutLines |-> IF l \in target THEN 0 ELSE Cap(wanted[l] + 1)]
        /\ port' = FromDrive(FromHost(HostLines(seen)), pulls')
        /\ seen' = port'.in
        /\ leds' = [LedsAtBegin("On") EXCEPT !.error = @ \/ status]
        /\ signal' = [BeginTick("On") EXCEPT
                        !.activity = IF busy THEN AtLeast(@, ActivityTicks \div 2) ELSE @,
                        !.hold = IF status THEN ErrorHold ELSE @,
                        !.edges = @ + Cardinality(Edges(port.hostLatched, HostLines(seen)))
                                    + Cardinality(Edges(port.driveLatched, pulls'))]
        /\ calm' = IF status THEN 0 ELSE IF calm > ErrorHold THEN calm ELSE calm + 1
  <2>2. \E command \in May.serial, serialPull \in May.serial, busy \in May.busy :
        \E target \in {Targets(command, serialPull)} : Ticks(target, busy)
    BY <2>1 DEF TickOn
  <2>3. \A command \in May.serial, serialPull \in May.serial : Targets(command, serialPull) \in SUBSET OutLines
    <3>1. via[1].outLow \in SUBSET OutLines
      BY <1>3 DEF ViasOK, ViasTyped, Via
    <3> QED
      BY <3>1 DEF Targets, OutLines
  <2>4. PICK target \in SUBSET OutLines, busy \in May.busy : Ticks(target, busy)
    <3> HIDE DEF Ticks
    <3> QED
      BY <2>2, <2>3
  <2>5. pulls' \in SUBSET Lines
    BY <2>4 DEF OutLines, Lines
  <2>6. LinesOK'
    BY <1>2, <1>3, <2>4, LinesOn
  <2>7. ViasOK'
    BY <1>3, <2>4, ViasOn
  <2>8. LampsOK'
    BY <1>2, <1>3, <2>4, <2>5, LampsOn
  <2> QED
    BY <1>5, <2>6, <2>7, <2>8 DEF IInv
<1>7. CASE p # "On"
  <2>1. TickAway(p)
    BY <1>1, <1>7
  <2>2. UNCHANGED <<via, life, owed>>
    BY <2>1 DEF TickAway
  <2>3. LinesOK'
    BY <1>2, <1>3, <2>1, LinesAway
  <2>4. ViasOK'
    BY <1>3, <2>2 DEF ViasOK, ViasTyped
  <2>5. LampsOK'
    BY <1>2, <1>3, <1>4, <2>1, LampsAway
  <2> QED
    BY <1>5, <2>3, <2>4, <2>5 DEF IInv
<1> QED
  BY <1>6, <1>7

\* What a part needs not to change.
LEMMA LinesKept ==
    ASSUME LinesOK, UNCHANGED <<delay, c64, seen, port, pulls, countdown, host, wanted>>
    PROVE  LinesOK'
BY DEF LinesOK, LinesTyped, PullsExact, CountdownRuns, LatchShown, SeesTheBus, SilentC64
LEMMA ViasKept ==
    ASSUME ViasOK, UNCHANGED <<via, life, owed>>
    PROVE  ViasOK'
BY DEF ViasOK, ViasTyped
LEMMA LampsKept ==
    ASSUME LampsOK, UNCHANGED <<signal, leds, status, calm>>
    PROVE  LampsOK'
BY DEF LampsOK, ErrorShows

LEMMA SetIecLinesKeepsIInv ==
    ASSUME BoardConstants, IInv, setIecLines
    PROVE  IInv'
<1>1. Rest /\ LinesOK /\ ViasOK /\ LampsOK
  BY DEF IInv
<1>2. PICK low \in May.host : port' = FromHost(HostLines(low)) /\ seen' = port'.in /\ host' = HostLines(low)
  BY DEF setIecLines
<1>3. UNCHANGED <<plan, delay, power, c64, pulls, countdown, via, signal, leds, status, wanted, life, owed, calm>>
  BY DEF setIecLines, fixed, lamps
<1>4. HostLines(low) \in SUBSET Lines /\ (c64' = "On" \/ HostLines(low) = {})
  BY <1>1, <1>3, MayDo DEF PlanOK, HostLines
<1>5. LinesOK'
  BY <1>1, <1>2, <1>3, <1>4, LinesSet
<1> QED
  BY <1>1, <1>3, <1>5, ViasKept, LampsKept DEF IInv, Rest

LEMMA SetC64PowerStateKeepsIInv ==
    ASSUME BoardConstants, IInv, setC64PowerState
    PROVE  IInv'
<1>1. Rest /\ LinesOK /\ ViasOK /\ LampsOK
  BY DEF IInv
<1>2. c64' \in C64Powers
  BY <1>1, MayDo DEF setC64PowerState, PlanOK
<1>3. UNCHANGED <<plan, delay, power, via, signal, leds, status, life, owed, calm>>
  BY DEF setC64PowerState, fixed, lamps
<1>4. LinesOK'
  <2>1. CASE c64' = "On"
    <3>1. UNCHANGED <<seen, port, pulls, countdown, host, wanted>>
      BY <2>1 DEF setC64PowerState, lines
    <3> QED
      BY <1>1, <1>3, <2>1, <3>1
         DEF LinesOK, LinesTyped, PullsExact, CountdownRuns, LatchShown, SeesTheBus, SilentC64
  <2>2. CASE c64' # "On"
    <3>1. /\ pulls' = {} /\ wanted' = Forgotten /\ port' = FromHost({}) /\ seen' = port'.in
          /\ host' = {} /\ UNCHANGED countdown
      BY <2>2 DEF setC64PowerState
    <3>2. {} \in SUBSET Lines
      OBVIOUS
    <3> QED
      BY <1>1, <1>3, <3>1, <3>2, LinesSet
  <2> QED
    BY <2>1, <2>2
<1> QED
  BY <1>1, <1>2, <1>3, <1>4, ViasKept, LampsKept DEF IInv, Rest

\* A register written leaves the lines and the lamps alone.
LEMMA WrittenLeaves ==
    ASSUME NEW i, Written(i) \/ (i = 1 /\ writePortB)
    PROVE  /\ UNCHANGED <<plan, delay, power, c64, seen, port, pulls, countdown, host, wanted>>
           /\ UNCHANGED <<signal, leds, status, calm>>
BY DEF Written, writeTimerLow, writeTimer1High, writeTimer2High, writeAcr, writeShift, writeIfr,
       writeIer, writePortB, ViaWrites, fixed, lines, lamps

LEMMA WrittenKeepsIInv ==
    ASSUME BoardConstants, IInv, NEW i \in 1..2, Written(i) \/ (i = 1 /\ writePortB)
    PROVE  IInv'
<1>1. Rest /\ LinesOK /\ ViasOK /\ LampsOK
  BY DEF IInv
<1>2. ViasOK'
  BY <1>1, RegisterWritten
<1>3. /\ UNCHANGED <<plan, delay, power, c64, seen, port, pulls, countdown, host, wanted>>
      /\ UNCHANGED <<signal, leds, status, calm>>
  BY WrittenLeaves
<1> QED
  BY <1>1, <1>2, <1>3, LinesKept, LampsKept DEF IInv, Rest

LEMMA StepKeepsIInv ==
    ASSUME BoardConstants, IInv, [Next]_vars
    PROVE  IInv'
<1>1. Rest /\ LinesOK /\ ViasOK /\ LampsOK
  BY DEF IInv
<1>2. CASE tickIecHalfCycle
  BY <1>2, TickKeepsIInv
<1>3. CASE setIecLines
  BY <1>3, SetIecLinesKeepsIInv
<1>5. CASE noteFlux
  <2>1. UNCHANGED <<plan, delay, power, c64, seen, port, pulls, countdown, via, host, wanted, life, owed>>
    BY <1>5 DEF noteFlux, fixed, lines
  <2> QED
    BY <1>1, <1>5, <2>1, LampsFlux, LinesKept, ViasKept DEF IInv, Rest
<1>6. CASE setPower
  <2>1. UNCHANGED <<plan, delay, c64, seen, port, pulls, countdown, via, signal, leds, status, host,
                    wanted, life, owed, calm>>
    BY <1>6 DEF setPower, fixed, lines, lamps
  <2>2. power' \in Powers
    BY <1>1, <1>6, MayDo DEF setPower, PlanOK
  <2> QED
    BY <1>1, <2>1, <2>2, LinesKept, ViasKept, LampsKept DEF IInv, Rest
<1>7. CASE setC64PowerState
  BY <1>7, SetC64PowerStateKeepsIInv
<1>8. CASE setStatus
  <2>1. UNCHANGED <<plan, delay, power, c64, seen, port, pulls, countdown, via, host, wanted, life, owed>>
    BY <1>8 DEF setStatus, fixed, lines
  <2> QED
    BY <1>1, <1>8, <2>1, LampsStatus, LinesKept, ViasKept DEF IInv, Rest
<1>9. CASE reset
  <2>1. UNCHANGED <<plan, power, c64>>
    BY <1>9 DEF reset, fixed
  <2> QED
    BY <1>1, <1>9, <2>1, LinesReset, LampsReset DEF IInv, Rest
<1>10. CASE UNCHANGED vars
  <2>1. /\ UNCHANGED <<plan, delay, power, c64, seen, port, pulls, countdown, host, wanted>>
        /\ UNCHANGED <<via, life, owed>> /\ UNCHANGED <<signal, leds, status, calm>>
    BY <1>10 DEF vars, fixed, lines, lamps
  <2> QED
    BY <1>1, <2>1, LinesKept, ViasKept, LampsKept DEF IInv, Rest
<1>11. CASE \E i \in May.vias : Written(i)
  <2>1. May.vias \subseteq 1..2
    BY <1>1, MayDo DEF PlanOK
  <2>2. ASSUME NEW i \in 1..2, Written(i)
        PROVE  IInv'
    BY <2>2, WrittenKeepsIInv
  <2> QED
    BY <1>11, <2>1, <2>2
<1>12. CASE writePortB
  BY <1>12, WrittenKeepsIInv
<1>13. Next => \/ tickIecHalfCycle \/ setIecLines \/ (\E i \in May.vias : Written(i)) \/ writePortB
               \/ noteFlux \/ setPower \/ setC64PowerState \/ setStatus \/ reset
  BY DEF Next, Written
<1> QED
  BY <1>2, <1>3, <1>5, <1>6, <1>7, <1>8, <1>9, <1>10, <1>11, <1>12, <1>13

\* The invariant says what the run checks.
LEMMA IInvIsEnough ==
    ASSUME BoardConstants, IInv
    PROVE  BoardKeeps
<1>1. LinesOK /\ ViasOK /\ LampsOK /\ Rest
  BY DEF IInv
<1>2. PullsExact /\ SeesTheBus /\ ErrorShows
  BY <1>1 DEF LinesOK, LampsOK
<1>3. TimersOnTime /\ FlagsKept
  BY <1>1 DEF ViasOK, OnTime, TimersOnTime, FlagsKept
<1>4. \A i \in 1..2 : via[i].t1.count < Byte * Byte /\ via[i].t2.latch < Byte * Byte
                      /\ via[i].ifr \subseteq Flags /\ via[i].bitsLeft <= ShiftBits
  <2>1. SUFFICES ASSUME NEW i \in 1..2
                 PROVE  /\ via[i].t1.count < Byte * Byte /\ via[i].t2.latch < Byte * Byte
                        /\ via[i].ifr \subseteq Flags /\ via[i].bitsLeft <= ShiftBits
    OBVIOUS
  <2>2. via[i] \in Via
    BY <1>1 DEF ViasOK, ViasTyped
  <2>3. via[i].t1 \in Timer /\ via[i].t2 \in Timer /\ via[i].bitsLeft \in 0..ShiftBits
        /\ via[i].ifr \subseteq Flags
    BY <2>2 DEF Via
  <2>4. \A t \in Timer : t.count < Byte * Byte /\ t.latch < Byte * Byte
    <3> DEFINE top == Byte * Byte
    <3>1. top \in Nat
      BY Numbers
    <3>2. Timer = [count : 0..(top - 1), latch : 0..(top - 1), running : BOOLEAN]
      BY DEF Timer
    <3> HIDE DEF top
    <3>3. \A t \in Timer : t.count < top /\ t.latch < top
      BY <3>1, <3>2
    <3> QED
      BY <3>3 DEF top
  <2> QED
    BY <2>3, <2>4, Numbers
<1>5. signal.activity <= WriteTicks /\ signal.hold <= ErrorHold /\ signal.window < Window
  BY <1>1, Numbers DEF LampsOK, Signal
<1>6. power \in Powers /\ seen \subseteq Lines /\ pulls \subseteq OutLines
  BY <1>1 DEF Rest, LinesOK, LinesTyped
<1> QED
  BY <1>2, <1>3, <1>4, <1>5, <1>6 DEF BoardKeeps, TypeOK

\* DriveBoard's state is always one the invariant describes, however the half-cycles of
\* tickIecHalfCycle fall between register writes, commands, power switches and resets.
THEOREM BoardInvariant == Spec => []IInv
<1>1. Init => IInv
  BY BoardAssumption, InitIInv
<1>2. IInv /\ [Next]_vars => IInv'
  BY BoardAssumption, StepKeepsIInv
<1> QED
  BY <1>1, <1>2, PTL DEF Spec

\* The drive pulls a line exactly as long as it is wanted within the release delay and sees
\* what is on the bus, timers run out on time, flags and errors stay as long as they should.
THEOREM BoardCorrect == Spec => []BoardKeeps
<1>1. IInv => BoardKeeps
  BY BoardAssumption, IInvIsEnough
<1> QED
  BY <1>1, BoardInvariant, PTL

-----------------------------------------------------------------------------
(* The command channel.  A set of numbers has a least one.                 *)

LEMMA LeastNumber ==
    ASSUME NEW T, T \subseteq Nat, T # {}
    PROVE  \E m \in T : \A k \in T : m <= k
<1> DEFINE less == OpToRel(<, Nat)
<1>1. IsWellFoundedOn(less, Nat)
  BY NatLessThanWellFounded
<1>2. \A x, y \in Nat : <<x, y>> \in less <=> x < y
  BY DEF OpToRel
<1> HIDE DEF less
<1>3. PICK m \in T : \A k \in T : ~ (<<k, m>> \in less)
  BY <1>1, WFMin
<1>4. \A k \in T : m <= k
  <2> TAKE k \in T
  <2>1. k \in Nat /\ m \in Nat /\ ~ (k < m)
    BY <1>2, <1>3
  <2> QED
    BY <2>1
<1> QED
  BY <1>4

-----------------------------------------------------------------------------
(* Turns, one after the other.                                             *)

\* What is repeated from a start has a state after every number of turns.
TurnsOf(g, start, step, k) == g[0] = start /\ \A i \in 1..k : g[i] = step[g[i - 1]]

LEMMA TurnsExist ==
    ASSUME NEW S, NEW start \in S, NEW step \in [S -> S], NEW k \in Nat
    PROVE  \E g : TurnsOf(g, start, step, k)
<1> DEFINE Bad == {i \in Nat : ~ \E g : TurnsOf(g, start, step, i)}
<1>1. SUFFICES ASSUME Bad # {} PROVE FALSE
  OBVIOUS
<1>2. PICK m \in Bad : \A i \in Bad : m <= i
  BY <1>1, LeastNumber
<1>3. TurnsOf([i \in {0} |-> start], start, step, 0)
  BY DEF TurnsOf
<1>4. m \in Nat /\ m # 0
  BY <1>2, <1>3
<1>5. m - 1 \in Nat /\ ~ (m <= m - 1)
  BY <1>4
<1>6. PICK g : TurnsOf(g, start, step, m - 1)
  BY <1>2, <1>5
<1> DEFINE h == [i \in 0..m |-> IF i = m THEN step[g[m - 1]] ELSE g[i]]
<1>7. TurnsOf(h, start, step, m)
  <2>1. h[0] = start
    BY <1>4, <1>6 DEF TurnsOf
  <2>2. ASSUME NEW i \in 1..m PROVE h[i] = step[h[i - 1]]
    <3>1. CASE i = m
      BY <1>4, <3>1
    <3>2. CASE i # m
      <4>1. i \in 1..(m - 1) /\ i - 1 \in 0..m /\ i - 1 # m
        BY <1>4, <3>2
      <4> QED
        BY <1>6, <3>2, <4>1 DEF TurnsOf
    <3> QED
      BY <3>1, <3>2
  <2> QED
    BY <2>1, <2>2 DEF TurnsOf
<1> QED
  BY <1>2, <1>7

LEMMA TurnsAgree ==
    ASSUME NEW start, NEW step, NEW k \in Nat, NEW l \in Nat, k <= l,
           NEW g, TurnsOf(g, start, step, k), NEW h, TurnsOf(h, start, step, l)
    PROVE  g[k] = h[k]
<1> DEFINE Bad == {i \in 0..k : g[i] # h[i]}
<1>1. SUFFICES ASSUME Bad # {} PROVE FALSE
  BY DEF Bad
<1>2. PICK m \in Bad : \A i \in Bad : m <= i
  <2>1. Bad \subseteq Nat
    OBVIOUS
  <2> QED
    BY <1>1, <2>1, LeastNumber
<1>3. m \in 1..k /\ m \in 1..l
  BY <1>2 DEF TurnsOf
<1>4. m - 1 \in 0..k /\ ~ (m <= m - 1)
  BY <1>3
<1>5. g[m - 1] = h[m - 1]
  BY <1>2, <1>4
<1> QED
  BY <1>2, <1>3, <1>5 DEF TurnsOf

\* They are a function of the number of turns.
CanRepeat(S, start, step) == start \in S /\ step \in [S -> S]
Repeats(f, start, step) == f[0] = start /\ \A k \in Nat \ {0} : f[k] = step[f[k - 1]]

LEMMA TurnsFunction ==
    ASSUME NEW S, NEW start, NEW step, CanRepeat(S, start, step)
    PROVE  \E f : Repeats(f, start, step)
<1>0. start \in S /\ step \in [S -> S]
  BY DEF CanRepeat
<1> DEFINE run(k) == CHOOSE g : TurnsOf(g, start, step, k)
           f == [k \in Nat |-> run(k)[k]]
<1>1. \A k \in Nat : TurnsOf(run(k), start, step, k)
  BY <1>0, TurnsExist
<1> HIDE DEF run
<1>2. f[0] = start
  BY <1>1 DEF TurnsOf
<1>3. ASSUME NEW k \in Nat, k # 0
      PROVE  f[k] = step[f[k - 1]]
  <2> DEFINE l == k - 1
  <2>1. l \in Nat /\ l <= k /\ k \in 1..k
    BY <1>3
  <2> HIDE DEF l
  <2>2. run(l)[l] = run(k)[l]
    BY <1>0, <1>1, <2>1, TurnsAgree
  <2>3. run(k)[k] = step[run(k)[k - 1]]
    BY <1>1, <2>1 DEF TurnsOf
  <2> QED
    BY <2>1, <2>2, <2>3 DEF l
<1> HIDE DEF f
<1> QED
  BY <1>2, <1>3 DEF Repeats

-----------------------------------------------------------------------------
(* The wildcard match: what the rest of a pattern means for the rest of a  *)
(* text, when i characters of the one and j of the other are gone.         *)

StandsFor(pattern, text, k, j, l) ==
    /\ j <= l
    /\ pattern[k] # Star => l = j + 1 /\ pattern[k] \in {Question, text[l]}

PieceEnd(i, j, end, k) == IF k = i THEN j ELSE end[k]
Pieces(pattern, text, i, j, end) ==
    /\ PieceEnd(i, j, end, Len(pattern)) = Len(text)
    /\ \A k \in (i + 1)..Len(pattern) :
          StandsFor(pattern, text, k, PieceEnd(i, j, end, k - 1), PieceEnd(i, j, end, k))
Fits(pattern, text, i, j) ==
    \E end \in [(i + 1)..Len(pattern) -> 0..Len(text)] : Pieces(pattern, text, i, j, end)

LEMMA WholeFits ==
    ASSUME NEW pattern \in Seq(Nat), NEW text \in Seq(Nat)
    PROVE  Matches(pattern, text) <=> Fits(pattern, text, 0, 0)
<1>1. DOMAIN pattern = (0 + 1)..Len(pattern) /\ Len(pattern) \in Nat
  OBVIOUS
<1>2. ASSUME NEW end
      PROVE  (/\ (IF Len(pattern) = 0 THEN 0 ELSE end[Len(pattern)]) = Len(text)
              /\ \A i \in DOMAIN pattern :
                    /\ (IF i - 1 = 0 THEN 0 ELSE end[i - 1]) <= (IF i = 0 THEN 0 ELSE end[i])
                    /\ pattern[i] # Star =>
                         /\ (IF i = 0 THEN 0 ELSE end[i]) = (IF i - 1 = 0 THEN 0 ELSE end[i - 1]) + 1
                         /\ pattern[i] \in {Question, text[IF i = 0 THEN 0 ELSE end[i]]})
             <=> Pieces(pattern, text, 0, 0, end)
  BY <1>1 DEF Pieces, PieceEnd, StandsFor
<1> QED
  BY <1>1, <1>2 DEF Matches, Fits

\* Nothing of the pattern is left.
LEMMA FitsNothing ==
    ASSUME NEW pattern \in Seq(Nat), NEW text \in Seq(Nat), NEW j \in 0..Len(text)
    PROVE  Fits(pattern, text, Len(pattern), j) <=> j = Len(text)
<1> DEFINE m == Len(pattern)
           none == [k \in (m + 1)..m |-> j]
<1>1. m \in Nat
  OBVIOUS
<1>2. none \in [(m + 1)..m -> 0..Len(text)]
  OBVIOUS
<1>3. \A end : Pieces(pattern, text, m, j, end) <=> j = Len(text)
  BY <1>1 DEF Pieces, PieceEnd
<1> QED
  BY <1>2, <1>3 DEF Fits

\* The next character stands for the next piece, and the rest fits behind it.
LEMMA FitsNext ==
    ASSUME NEW pattern \in Seq(Nat), NEW text \in Seq(Nat),
           NEW i \in 0..(Len(pattern) - 1), NEW j \in 0..Len(text)
    PROVE  Fits(pattern, text, i, j) <=>
             \E l \in 0..Len(text) : /\ StandsFor(pattern, text, i + 1, j, l)
                                     /\ Fits(pattern, text, i + 1, l)
<1> DEFINE m == Len(pattern)
           n == Len(text)
<1>1. m \in Nat /\ n \in Nat /\ i \in Nat /\ i + 1 \in (i + 1)..m /\ i + 1 # i /\ m # i
  OBVIOUS
<1>2. ASSUME NEW end \in [(i + 1)..m -> 0..n], Pieces(pattern, text, i, j, end)
      PROVE  \E l \in 0..n : StandsFor(pattern, text, i + 1, j, l) /\ Fits(pattern, text, i + 1, l)
  <2> DEFINE l == end[i + 1]
             rest == [k \in (i + 2)..m |-> end[k]]
  <2>1. l \in 0..n /\ rest \in [(i + 2)..m -> 0..n]
    <3>1. \A k \in (i + 2)..m : k \in (i + 1)..m
      BY <1>1
    <3>2. \A k \in (i + 2)..m : end[k] \in 0..n
      BY <1>2, <3>1
    <3> QED
      BY <1>1, <1>2, <3>2
  <2>2. StandsFor(pattern, text, i + 1, j, l)
    BY <1>1, <1>2 DEF Pieces, PieceEnd
  <2>3. \A k \in (i + 1)..m : PieceEnd(i + 1, l, rest, k) = PieceEnd(i, j, end, k)
    BY <1>1 DEF PieceEnd
  <2>4. \A k \in (i + 2)..m : k \in (i + 1)..m /\ k - 1 \in (i + 1)..m
    BY <1>1
  <2>5. m \in (i + 1)..m /\ i + 1 + 1 = i + 2
    BY <1>1
  <2> HIDE DEF l, rest
  <2>6. Pieces(pattern, text, i + 1, l, rest)
    BY <1>2, <2>3, <2>4, <2>5 DEF Pieces
  <2> QED
    BY <2>1, <2>2, <2>5, <2>6 DEF Fits
<1>3. ASSUME NEW l \in 0..n, StandsFor(pattern, text, i + 1, j, l),
             NEW rest \in [(i + 2)..m -> 0..n], Pieces(pattern, text, i + 1, l, rest)
      PROVE  Fits(pattern, text, i, j)
  <2> DEFINE end == [k \in (i + 1)..m |-> IF k = i + 1 THEN l ELSE rest[k]]
  <2>1. end \in [(i + 1)..m -> 0..n]
    BY <1>1, <1>3
  <2>2. \A k \in (i + 1)..m : PieceEnd(i, j, end, k) = PieceEnd(i + 1, l, rest, k)
    BY <1>1 DEF PieceEnd
  <2>3. PieceEnd(i, j, end, i) = j /\ PieceEnd(i, j, end, i + 1) = l
    BY <1>1 DEF PieceEnd
  <2>4. m \in (i + 1)..m /\ i + 1 + 1 = i + 2 /\ (i + 1) - 1 = i
    BY <1>1
  <2> HIDE DEF end
  <2>5. ASSUME NEW k \in (i + 1)..m
        PROVE  StandsFor(pattern, text, k, PieceEnd(i, j, end, k - 1), PieceEnd(i, j, end, k))
    <3>1. CASE k = i + 1
      BY <1>3, <2>3, <2>4, <3>1
    <3>2. CASE k # i + 1
      <4>1. k \in (i + 2)..m /\ k - 1 \in (i + 1)..m
        BY <1>1, <3>2
      <4> QED
        BY <1>3, <2>2, <2>4, <4>1 DEF Pieces
    <3> QED
      BY <3>1, <3>2
  <2>6. Pieces(pattern, text, i, j, end)
    BY <1>3, <2>2, <2>4, <2>5 DEF Pieces
  <2> QED
    BY <2>1, <2>6 DEF Fits
<1>4. i + 1 + 1 = i + 2
  BY <1>1
<1> QED
  BY <1>2, <1>3, <1>4 DEF Fits

LEMMA FitsStar ==
    ASSUME NEW pattern \in Seq(Nat), NEW text \in Seq(Nat),
           NEW i \in 0..(Len(pattern) - 1), NEW j \in 0..Len(text), pattern[i + 1] = Star
    PROVE  Fits(pattern, text, i, j) <=>
             \E l \in 0..Len(text) : j <= l /\ Fits(pattern, text, i + 1, l)
  BY FitsNext DEF StandsFor

LEMMA FitsCharacter ==
    ASSUME NEW pattern \in Seq(Nat), NEW text \in Seq(Nat),
           NEW i \in 0..(Len(pattern) - 1), NEW j \in 0..Len(text), pattern[i + 1] # Star
    PROVE  Fits(pattern, text, i, j) <=>
             /\ j < Len(text)
             /\ pattern[i + 1] \in {Question, text[j + 1]}
             /\ Fits(pattern, text, i + 1, j + 1)
<1>1. j < Len(text) => j + 1 \in 0..Len(text) /\ j <= j + 1
  OBVIOUS
<1>2. \A l \in 0..Len(text) : l = j + 1 => j < Len(text)
  OBVIOUS
<1> QED
  BY <1>1, <1>2, FitsNext DEF StandsFor

\* Nothing of the text is left.
LEMMA FitsAtEnd ==
    ASSUME NEW pattern \in Seq(Nat), NEW text \in Seq(Nat), NEW i \in 0..Len(pattern)
    PROVE  Fits(pattern, text, i, Len(text)) <=>
             \A k \in (i + 1)..Len(pattern) : pattern[k] = Star
<1> DEFINE m == Len(pattern)
           n == Len(text)
<1>1. m \in Nat /\ n \in Nat /\ i \in Nat /\ m \in i..m
  OBVIOUS
<1>2. ASSUME NEW end \in [(i + 1)..m -> 0..n], Pieces(pattern, text, i, n, end)
      PROVE  \A k \in (i + 1)..m : pattern[k] = Star
  <2> DEFINE at(k) == PieceEnd(i, n, end, k)
  <2>1. \A k \in i..m : at(k) = n
    <3> DEFINE Bad == {k \in i..m : at(k) # n}
    <3>1. SUFFICES ASSUME Bad # {} PROVE FALSE
      OBVIOUS
    <3>2. Bad \subseteq Nat
      BY <1>1
    <3>3. PICK k \in Bad : \A o \in Bad : k <= o
      BY <3>1, <3>2, LeastNumber
    <3>4. k \in (i + 1)..m
      BY <1>1, <3>3 DEF PieceEnd
    <3>5. k - 1 \in i..m /\ ~ (k <= k - 1)
      BY <1>1, <3>4
    <3>6. at(k - 1) = n
      BY <3>3, <3>5
    <3>7. at(k) \in 0..n /\ at(k) # n
      BY <1>1, <1>2, <3>3, <3>4 DEF PieceEnd
    <3>8. StandsFor(pattern, text, k, at(k - 1), at(k))
      BY <1>2, <3>4 DEF Pieces
    <3> QED
      BY <1>1, <3>6, <3>7, <3>8 DEF StandsFor
  <2>2. ASSUME NEW k \in (i + 1)..m PROVE pattern[k] = Star
    <3>1. at(k - 1) = n /\ at(k) = n
      BY <1>1, <2>1
    <3>2. StandsFor(pattern, text, k, at(k - 1), at(k))
      BY <1>2 DEF Pieces
    <3> HIDE DEF at
    <3> QED
      BY <1>1, <3>1, <3>2 DEF StandsFor
  <2> QED
    BY <2>2
<1>3. ASSUME \A k \in (i + 1)..m : pattern[k] = Star
      PROVE  Fits(pattern, text, i, n)
  <2> DEFINE end == [k \in (i + 1)..m |-> n]
  <2>1. end \in [(i + 1)..m -> 0..n]
    BY <1>1
  <2>2. \A k \in i..m : PieceEnd(i, n, end, k) = n
    BY <1>1 DEF PieceEnd
  <2>3. \A k \in (i + 1)..m : k \in i..m /\ k - 1 \in i..m
    BY <1>1
  <2> HIDE DEF end
  <2>4. ASSUME NEW k \in (i + 1)..m
        PROVE  StandsFor(pattern, text, k, PieceEnd(i, n, end, k - 1), PieceEnd(i, n, end, k))
    <3>1. PieceEnd(i, n, end, k - 1) = n /\ PieceEnd(i, n, end, k) = n /\ n <= n
      BY <1>1, <2>2, <2>3
    <3>2. pattern[k] = Star
      BY <1>3
    <3> QED
      BY <3>1, <3>2 DEF StandsFor
  <2>5. PieceEnd(i, n, end, m) = n
    BY <1>1, <2>2
  <2>6. Pieces(pattern, text, i, n, end)
    BY <2>4, <2>5 DEF Pieces
  <2> QED
    BY <2>1, <2>6 DEF Fits
<1> QED
  BY <1>2, <1>3 DEF Fits

-----------------------------------------------------------------------------
(* The scan.  The rest of the pattern fits the rest of the text only if    *)
(* the whole does, and if the whole does, then the rest or what is behind  *)
(* the latest star still fits.  Between the latest star and here the       *)
(* pattern has no star, so that what fits behind the star fits here, as    *)
(* many characters later.                                                  *)

ScanStates == [p : Nat, t : Nat, star : Nat, match : Nat, failed : BOOLEAN]

ScanBounds(pattern, text, s) ==
    /\ s \in ScanStates
    /\ s.p \in 1..(Len(pattern) + 1) /\ s.t \in 1..(Len(text) + 1)
    /\ s.match \in 1..s.t /\ s.star \in 0..(s.p - 1)
    /\ s.star > 0 => s.p - s.star = (s.t - s.match) + 1

RestFits(pattern, text, s) == Fits(pattern, text, s.p - 1, s.t - 1)
StarFits(pattern, text, s, from) ==
    s.star > 0 /\ \E j \in from..Len(text) : Fits(pattern, text, s.star, j)

ScanSound(pattern, text, s) ==
    /\ ~s.failed /\ RestFits(pattern, text, s) => Fits(pattern, text, 0, 0)
    /\ StarFits(pattern, text, s, s.match - 1) => Fits(pattern, text, 0, 0)
ScanComplete(pattern, text, s) ==
    Fits(pattern, text, 0, 0) =>
        ~s.failed /\ (RestFits(pattern, text, s) \/ StarFits(pattern, text, s, s.match))
ScanShifts(pattern, text, s) ==
    s.star > 0 =>
        \A j \in 0..Len(text) : Fits(pattern, text, s.star, j) =>
            /\ j + (s.t - s.match) \in 0..Len(text)
            /\ Fits(pattern, text, s.p - 1, j + (s.t - s.match))

ScanOK(pattern, text, s) ==
    /\ ScanBounds(pattern, text, s)
    /\ ScanSound(pattern, text, s) /\ ScanComplete(pattern, text, s)
    /\ ScanShifts(pattern, text, s)

\* What a turn does, by its cases.
TurnCasesOf(pattern, text, s, r) ==
    \/ (s.failed \/ s.t > Len(text)) /\ r = s
    \/ /\ ~s.failed /\ s.t <= Len(text) /\ r \in ScanStates
       /\ \/ /\ s.p <= Len(pattern) /\ pattern[s.p] \in {Question, text[s.t]}
             /\ r.p = s.p + 1 /\ r.t = s.t + 1
             /\ r.star = s.star /\ r.match = s.match /\ r.failed = FALSE
          \/ /\ s.p <= Len(pattern) /\ pattern[s.p] = Star
             /\ r.p = s.p + 1 /\ r.t = s.t
             /\ r.star = s.p /\ r.match = s.t /\ r.failed = FALSE
          \/ /\ s.p <= Len(pattern) =>
                  pattern[s.p] \notin {Question, text[s.t]} /\ pattern[s.p] # Star
             /\ s.star > 0
             /\ r.p = s.star + 1 /\ r.t = s.match + 1
             /\ r.star = s.star /\ r.match = s.match + 1 /\ r.failed = FALSE
          \/ /\ s.p <= Len(pattern) =>
                  pattern[s.p] \notin {Question, text[s.t]} /\ pattern[s.p] # Star
             /\ s.star = 0
             /\ r.p = s.p /\ r.t = s.t
             /\ r.star = s.star /\ r.match = s.match /\ r.failed = TRUE

LEMMA TurnCases ==
    ASSUME NEW pattern \in Seq(Nat), NEW text \in Seq(Nat), NEW s, ScanBounds(pattern, text, s),
           NEW r, r = ScanTurn(pattern, text, s)
    PROVE  TurnCasesOf(pattern, text, s, r)
<1> DEFINE here == s.p <= Len(pattern)
           fit == here /\ pattern[s.p] \in {Question, text[s.t]}
           star == here /\ pattern[s.p] = Star
           over == s.failed \/ s.t > Len(text)
<1>1. /\ s \in ScanStates /\ s.p \in Nat /\ s.t \in Nat /\ s.star \in Nat /\ s.match \in Nat
      /\ s.failed \in BOOLEAN /\ Len(text) \in Nat
  BY DEF ScanBounds, ScanStates
<1>2. CASE over
  BY <1>2 DEF ScanTurn, TurnCasesOf
<1>3. CASE ~over /\ fit
  <2>0. r = [s EXCEPT !.p = s.p + 1, !.t = s.t + 1]
    BY <1>3 DEF ScanTurn
  <2>1. r = [p |-> s.p + 1, t |-> s.t + 1, star |-> s.star, match |-> s.match, failed |-> s.failed]
    BY <1>1, <2>0 DEF ScanStates
  <2>2. /\ r \in ScanStates /\ r.p = s.p + 1 /\ r.t = s.t + 1
        /\ r.star = s.star /\ r.match = s.match /\ r.failed = s.failed
    BY <1>1, <2>1 DEF ScanStates
  <2> QED
    BY <1>1, <1>3, <2>2 DEF TurnCasesOf
<1>4. CASE ~over /\ ~fit /\ star
  <2>0. r = [s EXCEPT !.p = s.p + 1, !.star = s.p, !.match = s.t]
    BY <1>4 DEF ScanTurn
  <2>1. r = [p |-> s.p + 1, t |-> s.t, star |-> s.p, match |-> s.t, failed |-> s.failed]
    BY <1>1, <2>0 DEF ScanStates
  <2>2. /\ r \in ScanStates /\ r.p = s.p + 1 /\ r.t = s.t
        /\ r.star = s.p /\ r.match = s.t /\ r.failed = s.failed
    BY <1>1, <2>1 DEF ScanStates
  <2> QED
    BY <1>1, <1>4, <2>2 DEF TurnCasesOf
<1>5. CASE ~over /\ ~fit /\ ~star /\ s.star > 0
  <2>0. r = [s EXCEPT !.p = s.star + 1, !.t = s.match + 1, !.match = s.match + 1]
    BY <1>5 DEF ScanTurn, Retry
  <2>1. r = [p |-> s.star + 1, t |-> s.match + 1, star |-> s.star, match |-> s.match + 1,
             failed |-> s.failed]
    BY <1>1, <2>0 DEF ScanStates
  <2>2. /\ r \in ScanStates /\ r.p = s.star + 1 /\ r.t = s.match + 1
        /\ r.star = s.star /\ r.match = s.match + 1 /\ r.failed = s.failed
    BY <1>1, <2>1 DEF ScanStates
  <2> QED
    BY <1>1, <1>5, <2>2 DEF TurnCasesOf
<1>6. CASE ~over /\ ~fit /\ ~star /\ ~(s.star > 0)
  <2>1. r = [s EXCEPT !.failed = TRUE]
    BY <1>6 DEF ScanTurn
  <2>2. /\ r \in ScanStates /\ r.p = s.p /\ r.t = s.t
        /\ r.star = s.star /\ r.match = s.match /\ r.failed = TRUE
    BY <1>1, <2>1 DEF ScanStates
  <2> QED
    BY <1>1, <1>6, <2>2 DEF TurnCasesOf
<1> QED
  BY <1>2, <1>3, <1>4, <1>5, <1>6

LEMMA TurnKeeps ==
    ASSUME NEW pattern \in Seq(Nat), NEW text \in Seq(Nat), NEW s
    PROVE  Literal(text) /\ ScanOK(pattern, text, s) => ScanOK(pattern, text, ScanTurn(pattern, text, s))
<1>s. SUFFICES ASSUME Literal(text), ScanOK(pattern, text, s)
               PROVE  ScanOK(pattern, text, ScanTurn(pattern, text, s))
  OBVIOUS
<1>r. PICK r : r = ScanTurn(pattern, text, s)
  OBVIOUS
<1> DEFINE fits(i, j) == Fits(pattern, text, i, j)
<1>0. PICK m \in Nat, n \in Nat : m = Len(pattern) /\ n = Len(text)
  OBVIOUS
<1>1. /\ ScanBounds(pattern, text, s) /\ ScanSound(pattern, text, s)
      /\ ScanComplete(pattern, text, s) /\ ScanShifts(pattern, text, s)
  BY <1>s DEF ScanOK
<1>2. PICK p \in 1..(m + 1), t \in 1..(n + 1), match \in Nat, star \in Nat :
         /\ match \in 1..t /\ star \in 0..(p - 1)
         /\ s.p = p /\ s.t = t /\ s.match = match /\ s.star = star
         /\ star > 0 => p - star = (t - match) + 1
  BY <1>0, <1>1 DEF ScanBounds
<1>3. \A j \in 1..n : text[j] # Star
  <2>1. DOMAIN text = 1..n
    BY <1>0
  <2> QED
    BY <1>s, <2>1 DEF Literal
<1>4. r = s => ScanOK(pattern, text, r)
  BY <1>s
<1>5. ASSUME ~s.failed, t <= n, r \in ScanStates,
             p <= m, pattern[p] \in {Question, text[t]},
             r.p = p + 1, r.t = t + 1, r.star = star, r.match = match, r.failed = FALSE
      PROVE  ScanOK(pattern, text, r)
  <2> DEFINE i == p - 1
             j == t - 1
  <2>0. p <= m /\ t <= n /\ r.p = p + 1 /\ r.t = t + 1 /\ r.star = star /\ r.match = match
    BY <1>5
  <2>1. /\ i \in 0..(m - 1) /\ i + 1 = p /\ j \in 0..n /\ j + 1 = t /\ j < n
        /\ r.p - 1 = i + 1 /\ r.t - 1 = j + 1
    BY <1>2, <2>0
  <2>2. pattern[i + 1] # Star
    <3>1. t \in 1..n
      BY <1>2, <2>0
    <3>2. text[t] # Star
      BY <1>3, <3>1
    <3>3. pattern[p] # Star
      BY <1>5, <3>2 DEF Star, Question
    <3> QED
      BY <2>1, <3>3
  <2>3. fits(i, j) <=> fits(i + 1, j + 1)
    BY <1>0, <1>5, <2>1, <2>2, FitsCharacter
  <2>4. ScanBounds(pattern, text, r)
    <3>1. /\ r.p \in 1..(m + 1) /\ r.t \in 1..(n + 1)
          /\ r.match \in 1..r.t /\ r.star \in 0..(r.p - 1)
          /\ r.star > 0 => r.p - r.star = (r.t - r.match) + 1
      BY <1>2, <2>0
    <3> QED
      BY <1>0, <1>5, <3>1 DEF ScanBounds
  <2>5. RestFits(pattern, text, r) <=> RestFits(pattern, text, s)
    BY <1>2, <2>1, <2>3 DEF RestFits
  <2>6. ScanSound(pattern, text, r) /\ ScanComplete(pattern, text, r)
    BY <1>2, <1>0, <1>1, <1>5, <2>5 DEF ScanSound, ScanComplete, StarFits
  <2>7. ASSUME star > 0, NEW k \in 0..n, fits(star, k)
        PROVE  k + (r.t - r.match) \in 0..n /\ fits(r.p - 1, k + (r.t - r.match))
    <3> DEFINE x == k + (t - match)
    <3>1. x \in 0..n /\ fits(i, x)
      BY <1>2, <1>0, <1>1, <2>7 DEF ScanShifts
    <3> HIDE DEF x
    <3>2. x < n /\ fits(i + 1, x + 1)
      BY <1>0, <2>1, <2>2, <3>1, FitsCharacter
    <3>3. k + (r.t - r.match) = x + 1 /\ x + 1 \in 0..n
      BY <1>2, <2>0, <3>1, <3>2 DEF x
    <3> QED
      BY <2>1, <3>2, <3>3
  <2>8. ScanShifts(pattern, text, r)
    BY <1>0, <1>5, <2>7 DEF ScanShifts
  <2> QED
    BY <2>4, <2>6, <2>8 DEF ScanOK
<1>6. ASSUME ~s.failed, t <= n, r \in ScanStates,
             p <= m, pattern[p] = Star,
             r.p = p + 1, r.t = t, r.star = p, r.match = t, r.failed = FALSE
      PROVE  ScanOK(pattern, text, r)
  <2> DEFINE i == p - 1
             j == t - 1
  <2>0. p <= m /\ t <= n /\ r.p = p + 1 /\ r.t = t /\ r.star = p /\ r.match = t
    BY <1>6
  <2>1. /\ i \in 0..(m - 1) /\ i + 1 = p /\ j \in 0..n /\ j + 1 = t /\ j < n
        /\ r.p - 1 = i + 1 /\ r.t - 1 = j /\ r.star = i + 1 /\ r.match = j + 1
        /\ r.match - 1 = j /\ r.star > 0
    BY <1>2, <2>0
  <2>2. \A k \in 0..n : fits(i, k) <=> \E l \in 0..n : k <= l /\ fits(i + 1, l)
    BY <1>0, <1>6, <2>1, FitsStar
  <2>3. ScanBounds(pattern, text, r)
    <3>1. /\ r.p \in 1..(m + 1) /\ r.t \in 1..(n + 1)
          /\ r.match \in 1..r.t /\ r.star \in 0..(r.p - 1)
          /\ r.star > 0 => r.p - r.star = (r.t - r.match) + 1
      BY <1>2, <2>0
    <3> QED
      BY <1>0, <1>6, <3>1 DEF ScanBounds
  <2>4. ScanSound(pattern, text, r)
    <3>1. ASSUME NEW l \in j..n, fits(i + 1, l)
          PROVE  fits(0, 0)
      <4>1. l \in 0..n /\ j <= l
        BY <2>1
      <4>2. fits(i, j)
        BY <2>1, <2>2, <3>1, <4>1
      <4> QED
        BY <1>2, <1>0, <1>1, <1>6, <4>2 DEF ScanSound, RestFits
    <3>2. j \in j..n
      BY <2>1
    <3> QED
      BY <1>0, <2>1, <3>1, <3>2 DEF ScanSound, RestFits, StarFits
  <2>5. ScanComplete(pattern, text, r)
    <3> SUFFICES ASSUME fits(0, 0)
                 PROVE  fits(i + 1, j) \/ \E l \in (j + 1)..n : fits(i + 1, l)
      BY <1>0, <1>6, <2>1 DEF ScanComplete, RestFits, StarFits
    <3>1. \E k \in j..n : fits(i, k)
      <4>1. CASE RestFits(pattern, text, s)
        <5>1. j \in j..n
          BY <2>1
        <5> QED
          BY <1>2, <4>1, <5>1 DEF RestFits
      <4>2. CASE StarFits(pattern, text, s, match)
        <5>1. PICK k \in match..n : star > 0 /\ fits(star, k)
          BY <1>2, <1>0, <4>2 DEF StarFits
        <5>2. k \in 0..n
          BY <1>2
        <5> DEFINE x == k + (t - match)
        <5>3. x \in 0..n /\ fits(i, x)
          BY <1>2, <1>0, <1>1, <5>1, <5>2 DEF ScanShifts
        <5>4. x \in j..n
          <6>1. k \in Int /\ match <= k /\ match \in Int /\ t \in Int /\ n \in Int
            BY <1>2
          <6>2. k + (t - match) >= t - 1
            BY <6>1
          <6> QED
            BY <5>3, <6>1, <6>2
        <5> QED
          BY <5>3, <5>4
      <4> QED
        BY <1>2, <1>0, <1>1, <4>1, <4>2 DEF ScanComplete
    <3>2. PICK k \in j..n : fits(i, k)
      BY <3>1
    <3>3. k \in 0..n /\ j <= k
      BY <2>1
    <3>4. PICK l \in 0..n : k <= l /\ fits(i + 1, l)
      BY <2>2, <3>2, <3>3
    <3>5. l = j \/ l \in (j + 1)..n
      BY <2>1, <3>3, <3>4
    <3> QED
      BY <3>4, <3>5
  <2>6. ScanShifts(pattern, text, r)
    <3>1. \A k \in 0..n : k + (r.t - r.match) = k /\ r.p - 1 = r.star
      BY <1>2, <2>0
    <3> QED
      BY <1>0, <3>1 DEF ScanShifts
  <2> QED
    BY <2>3, <2>4, <2>5, <2>6 DEF ScanOK
<1>7. ASSUME t <= n,
             p <= m => pattern[p] \notin {Question, text[t]} /\ pattern[p] # Star
      PROVE  ~ RestFits(pattern, text, s)
  <2> DEFINE i == p - 1
             j == t - 1
  <2>1. i \in 0..m /\ i + 1 = p /\ j \in 0..n /\ j + 1 = t /\ j < n
    <3>1. t <= n
      BY <1>7
    <3> QED
      BY <1>2, <3>1
  <2>2. CASE p <= m
    <3>1. i \in 0..(m - 1)
      BY <1>2, <2>2
    <3>2. pattern[i + 1] # Star /\ pattern[i + 1] \notin {Question, text[j + 1]}
      <4>1. pattern[p] # Star /\ pattern[p] \notin {Question, text[t]}
        BY <1>7, <2>2
      <4> QED
        BY <2>1, <4>1
    <3>3. ~ fits(i, j)
      BY <1>0, <2>1, <3>1, <3>2, FitsCharacter
    <3> QED
      BY <1>2, <3>3 DEF RestFits
  <2>3. CASE ~(p <= m)
    <3>1. i = m /\ j # n
      BY <1>2, <2>1, <2>3
    <3> QED
      BY <1>2, <1>0, <2>1, <3>1, FitsNothing DEF RestFits
  <2> QED
    BY <2>2, <2>3
<1>8. ASSUME ~s.failed, t <= n, r \in ScanStates, ~ RestFits(pattern, text, s), star > 0,
             r.p = star + 1, r.t = match + 1, r.star = star, r.match = match + 1,
             r.failed = FALSE
      PROVE  ScanOK(pattern, text, r)
  <2>0. /\ t <= n /\ star > 0 /\ r.p = star + 1 /\ r.t = match + 1 /\ r.star = star
        /\ r.match = match + 1
    BY <1>8
  <2>1. /\ match \in 0..n /\ r.p - 1 = star /\ r.t - 1 = match /\ r.match - 1 = match
        /\ r.t - r.match = 0
    BY <1>2, <2>0
  <2>2. ScanBounds(pattern, text, r)
    <3>1. /\ r.p \in 1..(m + 1) /\ r.t \in 1..(n + 1)
          /\ r.match \in 1..r.t /\ r.star \in 0..(r.p - 1)
          /\ r.star > 0 => r.p - r.star = (r.t - r.match) + 1
      BY <1>2, <2>0
    <3> QED
      BY <1>0, <1>8, <3>1 DEF ScanBounds
  <2>3. ASSUME NEW k \in match..n, fits(star, k)
        PROVE  fits(0, 0)
    <3>1. k \in (match - 1)..n
      BY <1>2
    <3> QED
      BY <1>2, <1>0, <1>1, <1>8, <2>3, <3>1 DEF ScanSound, StarFits
  <2>4. match \in match..n
    BY <2>1
  <2>5. ScanSound(pattern, text, r)
    BY <1>0, <1>8, <2>1, <2>3, <2>4 DEF ScanSound, RestFits, StarFits
  <2>6. ScanComplete(pattern, text, r)
    <3> SUFFICES ASSUME fits(0, 0)
                 PROVE  fits(star, match) \/ \E l \in (match + 1)..n : fits(star, l)
      BY <1>0, <1>8, <2>1 DEF ScanComplete, RestFits, StarFits
    <3>1. PICK l \in match..n : fits(star, l)
      BY <1>2, <1>0, <1>1, <1>8 DEF ScanComplete, StarFits
    <3>2. l = match \/ l \in (match + 1)..n
      BY <2>1
    <3> QED
      BY <3>1, <3>2
  <2>7. ScanShifts(pattern, text, r)
    <3>1. \A k \in 0..n : k + (r.t - r.match) = k
      BY <2>1
    <3> QED
      BY <1>0, <1>8, <2>1, <3>1 DEF ScanShifts
  <2> QED
    BY <2>2, <2>5, <2>6, <2>7 DEF ScanOK
<1>9. ASSUME ~s.failed, t <= n, r \in ScanStates, ~ RestFits(pattern, text, s), star = 0,
             r.p = p, r.t = t, r.star = star, r.match = match, r.failed = TRUE
      PROVE  ScanOK(pattern, text, r)
  <2>1. ScanBounds(pattern, text, r)
    BY <1>0, <1>2, <1>9 DEF ScanBounds
  <2>2. ~ fits(0, 0)
    BY <1>2, <1>0, <1>1, <1>9 DEF ScanComplete, StarFits
  <2>3. ScanSound(pattern, text, r) /\ ScanComplete(pattern, text, r) /\ ScanShifts(pattern, text, r)
    BY <1>0, <1>9, <2>2 DEF ScanSound, ScanComplete, ScanShifts, StarFits
  <2> QED
    BY <2>1, <2>3 DEF ScanOK
<1>10. \/ r = s
       \/ /\ ~s.failed /\ t <= n /\ r \in ScanStates
          /\ \/ /\ p <= m /\ pattern[p] \in {Question, text[t]}
                /\ r.p = p + 1 /\ r.t = t + 1 /\ r.star = star /\ r.match = match /\ r.failed = FALSE
             \/ /\ p <= m /\ pattern[p] = Star
                /\ r.p = p + 1 /\ r.t = t /\ r.star = p /\ r.match = t /\ r.failed = FALSE
             \/ /\ p <= m => pattern[p] \notin {Question, text[t]} /\ pattern[p] # Star
                /\ star > 0
                /\ r.p = star + 1 /\ r.t = match + 1
                /\ r.star = star /\ r.match = match + 1 /\ r.failed = FALSE
             \/ /\ p <= m => pattern[p] \notin {Question, text[t]} /\ pattern[p] # Star
                /\ star = 0
                /\ r.p = p /\ r.t = t /\ r.star = star /\ r.match = match /\ r.failed = TRUE
  <2>1. ScanBounds(pattern, text, s)
    BY <1>1
  <2>2. TurnCasesOf(pattern, text, s, r)
    BY <1>r, <2>1, TurnCases
  <2> QED
    BY <1>0, <1>2, <2>2 DEF TurnCasesOf
<1> QED
  BY <1>4, <1>5, <1>6, <1>7, <1>8, <1>9, <1>10, <1>r

-----------------------------------------------------------------------------
(* The scan is over in time, and what it says then is what is meant.       *)

ScanOver(text, s) == s.failed \/ s.t > Len(text)
Reaches(pattern, text, s, k) == ScanOver(text, s) \/ k <= s.match * (Len(pattern) + 2) + s.p

LEMMA TimesGrows ==
    ASSUME NEW a \in Nat, NEW b \in Nat, NEW w \in Nat, a <= b
    PROVE  a * w <= b * w
  OBVIOUS

ScanNumbersIn(m, n, s) ==
    \E p \in 1..(m + 1), t \in 1..(n + 1), match \in Nat, star \in Nat :
       /\ match \in 1..t /\ star \in 0..(p - 1)
       /\ s.p = p /\ s.t = t /\ s.match = match /\ s.star = star
       /\ star > 0 => p - star = (t - match) + 1

LEMMA ScanNumbers ==
    ASSUME NEW pattern \in Seq(Nat), NEW text \in Seq(Nat), NEW s, ScanBounds(pattern, text, s),
           NEW m \in Nat, NEW n \in Nat, m = Len(pattern), n = Len(text)
    PROVE  ScanNumbersIn(m, n, s)
<1>1. /\ s.p \in 1..(m + 1) /\ s.t \in 1..(n + 1)
      /\ s.match \in 1..s.t /\ s.star \in 0..(s.p - 1)
      /\ s.star > 0 => s.p - s.star = (s.t - s.match) + 1
  BY DEF ScanBounds
<1>2. s.match \in Nat /\ s.star \in Nat
  BY DEF ScanBounds, ScanStates
<1>3. \E p, t, match, star : s.p = p /\ s.t = t /\ s.match = match /\ s.star = star
  OBVIOUS
<1>4. PICK p, t, match, star : s.p = p /\ s.t = t /\ s.match = match /\ s.star = star
  BY <1>3
<1>5. /\ p \in 1..(m + 1) /\ t \in 1..(n + 1) /\ match \in Nat /\ star \in Nat
      /\ match \in 1..t /\ star \in 0..(p - 1)
      /\ star > 0 => p - star = (t - match) + 1
  BY <1>1, <1>2, <1>4
<1> QED
  BY <1>4, <1>5 DEF ScanNumbersIn

LEMMA TurnReaches ==
    ASSUME NEW pattern \in Seq(Nat), NEW text \in Seq(Nat), NEW k \in Nat,
           NEW s, ScanBounds(pattern, text, s), Reaches(pattern, text, s, k)
    PROVE  Reaches(pattern, text, ScanTurn(pattern, text, s), k + 1)
<1>1. PICK r : r = ScanTurn(pattern, text, s)
  OBVIOUS
<1>2. TurnCasesOf(pattern, text, s, r)
  BY <1>1, TurnCases
<1>3. PICK m \in Nat, n \in Nat, w \in Nat : m = Len(pattern) /\ n = Len(text) /\ w = m + 2
  <2>1. Len(pattern) \in Nat /\ Len(text) \in Nat /\ Len(pattern) + 2 \in Nat
    OBVIOUS
  <2> QED
    BY <2>1
<1>4. PICK p \in 1..(m + 1), t \in 1..(n + 1), match \in Nat, star \in Nat :
         /\ match \in 1..t /\ star \in 0..(p - 1)
         /\ s.p = p /\ s.t = t /\ s.match = match /\ s.star = star
         /\ star > 0 => p - star = (t - match) + 1
  <2>1. ScanNumbersIn(m, n, s)
    BY <1>3, ScanNumbers
  <2> QED
    BY <2>1 DEF ScanNumbersIn
<1>5. CASE ScanOver(text, s)
  <2>1. r = s
    BY <1>2, <1>3, <1>4, <1>5 DEF TurnCasesOf, ScanOver
  <2> QED
    BY <1>1, <1>5, <2>1 DEF Reaches
<1>6. CASE ~ ScanOver(text, s)
  <2>1. k <= match * w + p
    BY <1>3, <1>4, <1>6 DEF Reaches
  <2>2. match * w <= t * w /\ (match + 1) * w = match * w + w
    <3>1. match <= t /\ t \in Nat
      BY <1>4
    <3> QED
      BY <3>1, TimesGrows
  <2>3. \/ r.failed
        \/ r.p = p + 1 /\ r.match = match
        \/ r.p = p + 1 /\ r.match = t
        \/ r.p = star + 1 /\ r.match = match + 1
    BY <1>2, <1>4, <1>6 DEF TurnCasesOf, ScanOver
  <2>4. PICK small \in Nat, large \in Nat : small = match * w /\ large = t * w
    <3>1. match * w \in Nat /\ t * w \in Nat
      BY <1>4
    <3> QED
      BY <3>1
  <2>5. CASE r.failed
    BY <1>1, <2>5 DEF Reaches, ScanOver
  <2>6. CASE r.p = p + 1 /\ r.match = match
    <3>1. k + 1 <= small + (p + 1)
      BY <2>1, <2>4
    <3> QED
      BY <1>1, <1>3, <2>4, <2>6, <3>1 DEF Reaches
  <2>7. CASE r.p = p + 1 /\ r.match = t
    <3>1. k + 1 <= large + (p + 1)
      BY <2>1, <2>2, <2>4
    <3> QED
      BY <1>1, <1>3, <2>4, <2>7, <3>1 DEF Reaches
  <2>8. CASE r.p = star + 1 /\ r.match = match + 1
    <3>1. k + 1 <= (small + w) + (star + 1)
      BY <1>3, <1>4, <2>1, <2>4
    <3> QED
      BY <1>1, <1>3, <2>2, <2>4, <2>8, <3>1 DEF Reaches
  <2> QED
    BY <2>3, <2>5, <2>6, <2>7, <2>8
<1> QED
  BY <1>5, <1>6

LEMMA StartOK ==
    ASSUME NEW pattern \in Seq(Nat), NEW text \in Seq(Nat)
    PROVE  /\ ScanOK(pattern, text, ScanStart)
           /\ Reaches(pattern, text, ScanStart, 0)
<1>1. PICK m \in Nat, n \in Nat : m = Len(pattern) /\ n = Len(text)
  OBVIOUS
<1>2. /\ ScanStart.p = 1 /\ ScanStart.t = 1 /\ ScanStart.star = 0 /\ ScanStart.match = 1
      /\ ScanStart.failed = FALSE /\ ScanStart \in ScanStates
  BY DEF ScanStart, ScanStates
<1>3. 1 \in 1..(m + 1) /\ 1 \in 1..(n + 1) /\ 1 \in 1..1 /\ 0 \in 0..(1 - 1) /\ 1 - 1 = 0 /\ ~ (0 > 0)
  OBVIOUS
<1>4. ScanBounds(pattern, text, ScanStart)
  BY <1>1, <1>2, <1>3 DEF ScanBounds
<1>5. /\ ScanSound(pattern, text, ScanStart) /\ ScanComplete(pattern, text, ScanStart)
      /\ ScanShifts(pattern, text, ScanStart)
  BY <1>2, <1>3 DEF ScanSound, ScanComplete, ScanShifts, RestFits, StarFits
<1>6. 0 <= 1 * (m + 2) + 1
  OBVIOUS
<1> QED
  BY <1>1, <1>2, <1>4, <1>5, <1>6 DEF ScanOK, Reaches

LEMMA ScanTurns ==
    ASSUME NEW pattern \in Seq(Nat), NEW text \in Seq(Nat), Literal(text)
    PROVE  \A k \in Nat : /\ ScanOK(pattern, text, Scan(pattern, text)[k])
                          /\ Reaches(pattern, text, Scan(pattern, text)[k], k)
<1> DEFINE S == {s \in ScanStates : ScanOK(pattern, text, s)}
           step == [s \in S |-> ScanTurn(pattern, text, s)]
           turn(g, k) == IF k = 0 THEN ScanStart ELSE ScanTurn(pattern, text, g[k - 1])
<1>1. \A s : ScanOK(pattern, text, s) => s \in S
  BY DEF ScanOK, ScanBounds
<1>2. ScanStart \in S /\ step \in [S -> S]
  <2>1. ASSUME NEW s \in S PROVE ScanTurn(pattern, text, s) \in S
    <3>1. ScanOK(pattern, text, ScanTurn(pattern, text, s))
      BY TurnKeeps
    <3> HIDE DEF S
    <3> QED
      BY <1>1, <3>1
  <2>2. ScanStart \in S
    <3> HIDE DEF S
    <3> QED
      BY <1>1, StartOK
  <2> QED
    BY <2>1, <2>2
<1>3. \A s \in S : step[s] = ScanTurn(pattern, text, s) /\ step[s] \in S
  BY <1>2
<1>4. \A s \in S : ScanOK(pattern, text, s)
  OBVIOUS
<1> HIDE DEF S, step
<1>5. PICK f : f[0] = ScanStart /\ \A k \in Nat \ {0} : f[k] = step[f[k - 1]]
  <2>1. CanRepeat(S, ScanStart, step)
    BY <1>2 DEF CanRepeat
  <2>2. PICK f : Repeats(f, ScanStart, step)
    BY <2>1, TurnsFunction
  <2> QED
    BY <2>2 DEF Repeats
<1>6. \A k \in Nat : f[k] \in S
  <2> DEFINE Bad == {k \in Nat : f[k] \notin S}
  <2>1. SUFFICES ASSUME Bad # {} PROVE FALSE
    OBVIOUS
  <2>2. PICK k \in Bad : \A o \in Bad : k <= o
    BY <2>1, LeastNumber
  <2>3. k \in Nat /\ k # 0
    BY <1>2, <1>5, <2>2
  <2>4. k - 1 \in Nat /\ ~ (k <= k - 1)
    BY <2>3
  <2>5. f[k - 1] \in S
    BY <2>2, <2>4
  <2> QED
    BY <1>3, <1>5, <2>2, <2>3, <2>5
<1>7. \A k \in Nat : f[k] = turn(f, k)
  <2>1. \A k \in Nat : k # 0 => k - 1 \in Nat
    OBVIOUS
  <2> QED
    BY <1>3, <1>5, <1>6, <2>1
<1>8. \E g : g = [k \in Nat |-> turn(g, k)]
  <2> DEFINE g == [k \in Nat |-> f[k]]
  <2>1. \A k \in Nat : k # 0 => k - 1 \in Nat
    OBVIOUS
  <2>2. \A k \in Nat : f[k] = turn(g, k)
    BY <1>7, <2>1
  <2> HIDE DEF turn
  <2>3. g = [k \in Nat |-> turn(g, k)]
    BY <2>2
  <2> QED
    BY <2>3
<1> DEFINE scan == Scan(pattern, text)
<1>9. scan = [k \in Nat |-> turn(scan, k)]
  BY <1>8 DEF Scan
<1> HIDE DEF scan
<1>10. scan[0] = ScanStart
  BY <1>9
<1>11. ASSUME NEW k \in Nat, k # 0
       PROVE  scan[k] = ScanTurn(pattern, text, scan[k - 1])
  BY <1>9, <1>11
<1>12. \A k \in Nat : ScanOK(pattern, text, scan[k]) /\ Reaches(pattern, text, scan[k], k)
  <2> DEFINE Bad == {k \in Nat : ~ (ScanOK(pattern, text, scan[k]) /\ Reaches(pattern, text, scan[k], k))}
  <2>1. SUFFICES ASSUME Bad # {} PROVE FALSE
    OBVIOUS
  <2>2. PICK k \in Bad : \A o \in Bad : k <= o
    BY <2>1, LeastNumber
  <2>3. k \in Nat /\ k # 0
    BY <1>10, <2>2, StartOK
  <2>4. k - 1 \in Nat /\ ~ (k <= k - 1) /\ (k - 1) + 1 = k
    BY <2>3
  <2>5. ScanOK(pattern, text, scan[k - 1]) /\ Reaches(pattern, text, scan[k - 1], k - 1)
    BY <2>2, <2>4
  <2>6. ScanBounds(pattern, text, scan[k - 1])
    BY <2>5 DEF ScanOK
  <2>7. ScanOK(pattern, text, scan[k])
    BY <1>11, <2>3, <2>5, TurnKeeps
  <2>8. Reaches(pattern, text, scan[k], k)
    BY <1>11, <2>3, <2>4, <2>5, <2>6, TurnReaches
  <2> QED
    BY <2>2, <2>7, <2>8
<1> QED
  BY <1>12 DEF scan

LEMMA ScanEnds ==
    ASSUME NEW pattern \in Seq(Nat), NEW text \in Seq(Nat), NEW s, ScanBounds(pattern, text, s),
           Reaches(pattern, text, s, MostTurns(pattern, text))
    PROVE  ScanOver(text, s)
<1>1. SUFFICES ASSUME ~ ScanOver(text, s) PROVE FALSE
  OBVIOUS
<1>2. PICK m \in Nat, n \in Nat, w \in Nat : m = Len(pattern) /\ n = Len(text) /\ w = m + 2
  <2>1. Len(pattern) \in Nat /\ Len(text) \in Nat /\ Len(pattern) + 2 \in Nat
    OBVIOUS
  <2> QED
    BY <2>1
<1>3. PICK p \in 1..(m + 1), match \in Nat : s.p = p /\ s.match = match /\ match <= n
  <2>1. PICK p \in 1..(m + 1), t \in 1..(n + 1), match \in Nat :
           match \in 1..t /\ s.p = p /\ s.t = t /\ s.match = match
    BY <1>2 DEF ScanBounds
  <2>2. t <= n
    BY <1>1, <1>2, <2>1 DEF ScanOver
  <2> QED
    BY <2>1, <2>2
<1>4. (n + 1) * w <= match * w + p
  BY <1>1, <1>2, <1>3 DEF Reaches, MostTurns
<1>5. match * w <= n * w /\ (n + 1) * w = n * w + w
  BY <1>3, TimesGrows
<1>6. PICK small \in Nat, large \in Nat : small = match * w /\ large = n * w
  <2>1. match * w \in Nat /\ n * w \in Nat
    OBVIOUS
  <2> QED
    BY <2>1
<1>7. large + w <= small + p /\ small <= large /\ p <= m + 1 /\ w = m + 2
  BY <1>2, <1>4, <1>5, <1>6
<1> QED
  BY <1>7

\* The match means what the pattern says, for every pattern and every text without a star.
LEMMA WildcardMeans ==
    ASSUME NEW pattern \in Seq(Nat), NEW text \in Seq(Nat), Literal(text)
    PROVE  MeansIt(pattern, text)
<1>1. PICK m \in Nat, n \in Nat : m = Len(pattern) /\ n = Len(text)
  OBVIOUS
<1>2. MostTurns(pattern, text) \in Nat
  <2>1. (n + 1) * (m + 2) \in Nat
    OBVIOUS
  <2> QED
    BY <1>1, <2>1 DEF MostTurns
<1>3. PICK s : s = Scan(pattern, text)[MostTurns(pattern, text)]
  OBVIOUS
<1>4. ScanOK(pattern, text, s) /\ Reaches(pattern, text, s, MostTurns(pattern, text))
  BY <1>2, <1>3, ScanTurns
<1>5. /\ ScanBounds(pattern, text, s) /\ ScanSound(pattern, text, s)
      /\ ScanComplete(pattern, text, s) /\ ScanShifts(pattern, text, s)
  BY <1>4 DEF ScanOK
<1>6. ScanOver(text, s)
  BY <1>4, <1>5, ScanEnds
<1> DEFINE result == ~s.failed /\ \A i \in s.p..Len(pattern) : pattern[i] = Star
<1>7. Matches(pattern, text) <=> result
  <2>1. CASE s.failed
    BY <1>5, <2>1, WholeFits DEF ScanComplete
  <2>2. CASE ~s.failed
    <3>1. PICK p \in 1..(m + 1), t \in 1..(n + 1), match \in Nat, star \in Nat :
             /\ match \in 1..t /\ star \in 0..(p - 1)
             /\ s.p = p /\ s.t = t /\ s.match = match /\ s.star = star
             /\ star > 0 => p - star = (t - match) + 1
      <4>1. ScanNumbersIn(m, n, s)
        BY <1>1, <1>5, ScanNumbers
      <4> QED
        BY <4>1 DEF ScanNumbersIn
    <3>2. t = n + 1
      BY <1>1, <1>6, <2>2, <3>1 DEF ScanOver
    <3>3. t - 1 = n /\ p - 1 \in 0..m /\ (p - 1) + 1 = p
      BY <3>1, <3>2
    <3>4. RestFits(pattern, text, s) <=> \A i \in s.p..Len(pattern) : pattern[i] = Star
      BY <1>1, <3>1, <3>3, FitsAtEnd DEF RestFits
    <3>5. ~ StarFits(pattern, text, s, s.match)
      <4>1. SUFFICES ASSUME s.star > 0, NEW j \in match..n, Fits(pattern, text, s.star, j)
                     PROVE  FALSE
        BY <1>1, <3>1 DEF StarFits
      <4>2. j \in 0..n
        BY <3>1
      <4>3. j + (t - match) \in 0..n
        BY <1>1, <1>5, <3>1, <4>1, <4>2 DEF ScanShifts
      <4>4. j >= match /\ j \in Int
        BY <3>1
      <4> QED
        BY <3>2, <4>3, <4>4
    <3> QED
      BY <1>5, <2>2, <3>4, <3>5, WholeFits DEF ScanSound, ScanComplete
  <2> QED
    BY <2>1, <2>2
<1>8. wildcardMatch(pattern, text) <=> (pattern = <<>> \/ result)
  BY <1>3 DEF wildcardMatch
<1> QED
  BY <1>7, <1>8 DEF MeansIt

-----------------------------------------------------------------------------
(* Texts, blocks and sequences.                                            *)

LEMMA DialogueHolds ==
    ASSUME DosConstants, dialogue \in DOMAIN Dialogues
    PROVE  DialogueOK(Dialogue)
  BY DEF DosConstants, Dialogue

\* A function with the places of a block.
IsBlock(x) == x = [i \in 1..BlockSize |-> x[i]]

LEMMA BlockLength ==
    ASSUME BlockSize \in Nat, NEW x, IsBlock(x)
    PROVE  Len(x) = BlockSize
<1> DEFINE V == {x[i] : i \in 1..BlockSize}
<1>1. x \in [1..BlockSize -> V]
  BY DEF IsBlock
<1>2. x \in Seq(V) /\ DOMAIN x = 1..BlockSize
  BY <1>1
<1> HIDE DEF V
<1> QED
  BY <1>2

\* A sequence of whatever.
IsSeq(s) == \E S : s \in Seq(S)

LEMMA ConcatIsSeq ==
    ASSUME NEW s, IsSeq(s), NEW r, IsSeq(r)
    PROVE  IsSeq(s \o r)
<1>1. PICK S : s \in Seq(S)
  BY DEF IsSeq
<1>2. PICK R : r \in Seq(R)
  BY DEF IsSeq
<1>3. s \in Seq(S \cup R) /\ r \in Seq(S \cup R)
  BY <1>1, <1>2
<1>4. s \o r \in Seq(S \cup R)
  BY <1>3
<1> QED
  BY <1>4 DEF IsSeq

LEMMA FunctionIsSeq ==
    ASSUME NEW n \in Nat, NEW s, s = [i \in 1..n |-> s[i]]
    PROVE  IsSeq(s) /\ (n > 0 => s # <<>>)
<1> DEFINE V == {s[i] : i \in 1..n}
<1>1. s \in [1..n -> V]
  OBVIOUS
<1>2. s \in Seq(V) /\ DOMAIN s = 1..n
  BY <1>1
<1> HIDE DEF V
<1> QED
  BY <1>2 DEF IsSeq

LEMMA OneIsSeq ==
    ASSUME NEW x
    PROVE  IsSeq(<<x>>)
<1>1. <<x>> \in Seq({x})
  OBVIOUS
<1> QED
  BY <1>1 DEF IsSeq

LEMMA EmptyIsSeq == IsSeq(<<>>)
<1>1. <<>> \in Seq({})
  OBVIOUS
<1> QED
  BY <1>1 DEF IsSeq

\* What the host takes from the queue it has heard, and nothing else changes.
LEMMA NextIsHeard ==
    ASSUME NEW s, IsSeq(s), NEW r, IsSeq(r), r # <<>>
    PROVE  /\ IsSeq(Append(s, Head(r))) /\ IsSeq(Tail(r))
           /\ Append(s, Head(r)) \o Tail(r) = s \o r
<1>1. PICK S : s \in Seq(S)
  BY DEF IsSeq
<1>2. PICK R : r \in Seq(R)
  BY DEF IsSeq
<1> DEFINE V == S \cup R
<1>3. s \in Seq(V) /\ r \in Seq(V)
  BY <1>1, <1>2
<1> HIDE DEF V
<1>4. Head(r) \in V /\ Tail(r) \in Seq(V) /\ <<Head(r)>> \in Seq(V)
  BY <1>3
<1>5. Append(s, Head(r)) \in Seq(V) /\ Append(s, Head(r)) = s \o <<Head(r)>>
  BY <1>3, <1>4
<1>6. r = <<Head(r)>> \o Tail(r)
  BY <1>3
<1>7. (s \o <<Head(r)>>) \o Tail(r) = s \o (<<Head(r)>> \o Tail(r))
  BY <1>3, <1>4, ConcatAssociative
<1> QED
  BY <1>4, <1>5, <1>6, <1>7 DEF IsSeq

-----------------------------------------------------------------------------
(* The names of files, and the files a filter selects.                     *)

\* The name of a block that is no file's has no star.
LEMMA BlockNameLiteral ==
    ASSUME DosConstants, NEW a \in Addresses
    PROVE  makeCatalogName(a) \in Seq(Nat) /\ Literal(makeCatalogName(a))
<1> DEFINE V == Nat \ {Star}
<1>1. \A i \in 1..16 : Digits[i] \in V
  BY DEF Digits, Star
<1>2. ASSUME NEW b \in 0..255 PROVE Hex(b) \in Seq(V)
  <2>1. (b \div 16) + 1 \in 1..16 /\ (b % 16) + 1 \in 1..16
    OBVIOUS
  <2>2. Digits[(b \div 16) + 1] \in V /\ Digits[(b % 16) + 1] \in V
    BY <1>1, <2>1
  <2> HIDE DEF V
  <2> QED
    BY <2>2 DEF Hex
<1>3. a[1] \in 0..255 /\ a[2] \in 0..255
  BY DEF DosConstants, Addresses
<1>4. <<66, 76, 75, 45>> \in Seq(V)
  BY DEF Star
<1>5. makeCatalogName(a) \in Seq(V)
  <2> HIDE DEF V
  <2>1. Hex(a[1]) \in Seq(V) /\ Hex(a[2]) \in Seq(V)
    BY <1>2, <1>3
  <2> QED
    BY <1>4, <2>1 DEF makeCatalogName
<1> QED
  BY <1>5 DEF Literal

LEMMA PatternTyped ==
    ASSUME NEW d, DialogueOK(d), NoName = <<>>, NEW pattern \in PatternsOf(d)
    PROVE  pattern \in Seq(Nat)
<1>1. CASE pattern = <<>>
  BY <1>1
<1>2. ASSUME NEW spec \in d.specs, IsDirectory(spec.name), pattern = Tail(spec.name)
      PROVE  pattern \in Seq(Nat)
  <2>1. spec.name \in Seq(Nat) /\ spec.name # <<>>
    BY <1>2 DEF DialogueOK, IsDirectory
  <2> QED
    BY <1>2, <2>1
<1> QED
  BY <1>1, <1>2 DEF PatternsOf

LEMMA TextMeans ==
    ASSUME NEW d, DialogueOK(d), NoName = <<>>, NEW pattern \in PatternsOf(d), NEW text \in TextsOf(d)
    PROVE  MeansIt(pattern, text)
<1>1. pattern \in Seq(Nat) /\ text \in Seq(Nat)
  BY PatternTyped DEF DialogueOK
<1>2. CASE Literal(text)
  BY <1>1, <1>2, WildcardMeans
<1>3. CASE ~ Literal(text)
  BY <1>3 DEF DialogueOK
<1> QED
  BY <1>2, <1>3

\* The names of a dialogue's files.
SpecNames(d) == {spec.name : spec \in d.specs}
FileName(n) == n \in Addresses \/ (n \in SpecNames(Dialogue) /\ Dialogue.blockChannels # {})

LEMMA FileMeans ==
    ASSUME DosConstants, dialogue \in DOMAIN Dialogues, NEW pattern \in PatternsOf(Dialogue),
           NEW n, FileName(n)
    PROVE  MeansIt(pattern, Text(n))
<1>0. DialogueOK(Dialogue) /\ NoName = <<>>
  BY DialogueHolds DEF DosConstants
<1>1. CASE n \in Addresses
  <2>1. pattern \in Seq(Nat)
    BY <1>0, PatternTyped
  <2> QED
    BY <1>1, <2>1, BlockNameLiteral, WildcardMeans DEF Text
<1>2. CASE n \notin Addresses
  <2>1. n \in TextsOf(Dialogue)
    BY <1>2 DEF FileName, SpecNames, TextsOf
  <2> QED
    BY <1>0, <1>2, <2>1, TextMeans DEF Text
<1> QED
  BY <1>1, <1>2

LEMMA Selects ==
    ASSUME NEW f, f.negated \in BOOLEAN, NEW x, MeansIt(f.pattern, x.name)
    PROVE  Passes(f, x) <=> Selected(f, x)
<1>1. wildcardMatch(f.pattern, x.name) <=> (f.pattern # <<>> => Matches(f.pattern, x.name))
  BY DEF MeansIt
<1>2. (f.mode = "" \/ (x.mode = f.mode) # f.negated)
        <=> (f.mode # "" => ((x.mode = f.mode) <=> ~f.negated))
  OBVIOUS
<1> QED
  BY <1>1, <1>2 DEF Passes, Selected

\* A listing of files that are numbered is a sequence.
LEMMA ListingIsSeq ==
    ASSUME NEW n \in Nat, NEW places, places \subseteq 1..n, NEW files, NEW free
    PROVE  IsSeq(Listing(files, places, free))
<1>1. Cardinality(places) \in Nat
  <2>1. IsFiniteSet(1..n)
    BY FS_Interval
  <2>2. IsFiniteSet(places)
    BY <2>1, FS_Subset
  <2> QED
    BY <2>2, FS_CardinalityType
<1>2. IsSeq(Rows(files, places))
  <2>1. CASE places = {}
    BY <2>1, OneIsSeq DEF Rows
  <2>2. CASE places # {}
    <3> DEFINE rows == [k \in 1..Cardinality(places) |-> Row(files[Chosen(places, k)])]
    <3>1. rows = [k \in 1..Cardinality(places) |-> rows[k]]
      OBVIOUS
    <3>2. Rows(files, places) = rows
      BY <2>2 DEF Rows
    <3> HIDE DEF rows
    <3> QED
      BY <1>1, <3>1, <3>2, FunctionIsSeq
  <2> QED
    BY <2>1, <2>2
<1> QED
  BY <1>2, OneIsSeq, ConcatIsSeq DEF Listing

-----------------------------------------------------------------------------
(* The invariant of the command channel, in the parts that a step changes  *)
(* together.                                                               *)

SettingOK == dialogue \in DOMAIN Dialogues
NamesOK == openName \in [Channels -> {NoName} \cup SpecNames(Dialogue)]
FileRecords == [used : BOOLEAN, channel : Channels \cup {NoChannel}, blocks : Nat,
                name : {NoName} \cup SpecNames(Dialogue) \cup Addresses]
CatalogOK ==
    /\ catalog \in [Map!Entries -> FileRecords]
    /\ \A e \in Map!Entries : catalog[e].used => FileName(catalog[e].name)
BlocksOK ==
    /\ pos \in [Channels -> 0..(BlockSize - 1)]
    /\ IsBlock(buffer)
    /\ DOMAIN memory = 0..Dialogue.lastCell
    /\ DOMAIN disk = Addresses /\ \A a \in Addresses : IsBlock(disk[a])
KindTypes == {"PRG", "SEQ", "USR", "REL"}
KindsOK == DOMAIN openKind = Channels /\ \A ch \in Channels : openKind[ch].type \in KindTypes
TalkOK == talk \in Channels \cup {NoChannel}
FiltersOK(f) == f.pattern \in PatternsOf(Dialogue) /\ f.negated \in BOOLEAN
ListingOK ==
    /\ listing = [prepared |-> listing.prepared, fromBuffer |-> listing.fromBuffer,
                  filters |-> listing.filters]
    /\ FiltersOK(listing.filters)
HeardOK == IsSeq(heard) /\ IsSeq(tx) /\ HostHears
\* The answer that waits is the one that was asked for.
AnswerOK ==
    /\ IsSeq(response)
    /\ (response = <<>> /\ asked = {}) \/ (response # <<>> /\ asked = {response})
\* Nothing is known of a block that the image lacks, which is read from the memory where it
\* never was written, and of one that the image encodes.
KeptOK ==
    /\ WrittenComesBack
    /\ Mounted => \A a \in Addresses : ~ (SectorImage /\ Reads(a)) => kept[a] = {}

DosInv ==
    /\ SettingOK /\ NamesOK /\ CatalogOK /\ BlocksOK /\ KindsOK
    /\ TalkOK /\ ListingOK /\ HeardOK /\ AnswerOK /\ KeptOK

\* What stays when the variables of a part stay.
LEMMA SettingStays == ASSUME SettingOK, UNCHANGED dialogue PROVE SettingOK'
  BY DEF SettingOK
LEMMA NamesStay == ASSUME NamesOK, UNCHANGED <<dialogue, openName>> PROVE NamesOK'
  BY DEF NamesOK, Dialogue
LEMMA CatalogStays == ASSUME CatalogOK, UNCHANGED <<dialogue, catalog>> PROVE CatalogOK'
  BY DEF CatalogOK, FileRecords, FileName, Dialogue
LEMMA BlocksStay == ASSUME BlocksOK, UNCHANGED <<dialogue, memory, disk, buffer, pos>> PROVE BlocksOK'
  BY DEF BlocksOK, IsBlock, Dialogue
LEMMA KindsStay == ASSUME KindsOK, UNCHANGED openKind PROVE KindsOK'
  BY DEF KindsOK
LEMMA TalkStays == ASSUME TalkOK, UNCHANGED talk PROVE TalkOK'
  BY DEF TalkOK
LEMMA ListingStays == ASSUME ListingOK, UNCHANGED <<dialogue, listing>> PROVE ListingOK'
  BY DEF ListingOK, FiltersOK, Dialogue
LEMMA HeardStays == ASSUME HeardOK, UNCHANGED <<heard, tx, promised>> PROVE HeardOK'
  BY DEF HeardOK, HostHears
LEMMA AnswerStays == ASSUME AnswerOK, UNCHANGED <<response, asked>> PROVE AnswerOK'
  BY DEF AnswerOK
LEMMA KeptStays == ASSUME KeptOK, UNCHANGED <<dialogue, memory, disk, kept>> PROVE KeptOK'
<1>1. /\ Dialogue' = Dialogue /\ (Mounted' <=> Mounted) /\ (SectorImage' <=> SectorImage)
      /\ \A a \in Addresses : Reads(a)' <=> Reads(a)
  BY DEF Reads, Mounted, SectorImage, Dialogue
<1>2. \A a \in Addresses : Contents(a)' = Contents(a)
  BY <1>1 DEF Contents, InMemory
<1> QED
  BY <1>1, <1>2 DEF KeptOK, WrittenComesBack, Addresses

-----------------------------------------------------------------------------
(* The queue and the listings.                                             *)

\* What is sent is what was promised.
LEMMA SentIsHeard ==
    ASSUME NEW payload, IsSeq(payload), NEW promise, payload = promise, Sends(payload, promise)
    PROVE  HeardOK'
<1>1. PICK S : payload \in Seq(S)
  BY DEF IsSeq
<1>2. <<>> \o payload = payload
  BY <1>1
<1> QED
  BY <1>2, EmptyIsSeq DEF Sends, HeardOK, HostHears

LEMMA StubPromised ==
    ASSUME DosConstants, SettingOK, CatalogOK, NEW f, FiltersOK(f)
    PROVE  StubPayload(f) = StubPromise(f) /\ IsSeq(StubPayload(f))
<1>1. ASSUME NEW i \in InUse
      PROVE  Passes(f, Files[i]) <=> Selected(f, Files[i])
  <2>1. i \in 1..CatalogSize /\ i - 1 \in Map!Entries /\ catalog[i - 1].used
    BY DEF InUse, Map!Entries, DosConstants
  <2>2. Files[i].name = Text(catalog[i - 1].name)
    BY <2>1 DEF Files, File
  <2>3. MeansIt(f.pattern, Files[i].name)
    BY <2>1, <2>2, FileMeans DEF CatalogOK, FiltersOK, SettingOK
  <2> QED
    BY <2>3, Selects DEF FiltersOK
<1>2. {i \in InUse : Passes(f, Files[i])} = {i \in InUse : Selected(f, Files[i])}
  BY <1>1
<1>3. IsSeq(Listing(Files, {i \in InUse : Passes(f, Files[i])}, Map!VirtualBlocksFree))
  BY ListingIsSeq DEF InUse, DosConstants
<1> QED
  BY <1>2, <1>3 DEF StubPayload, StubPromise, Promise

LEMMA MountedPromised ==
    ASSUME DosConstants, SettingOK, NEW f, FiltersOK(f)
    PROVE  /\ MountedPayload(f)
                = Promise(Dialogue.directory, DOMAIN Dialogue.directory, Dialogue.free, f)
           /\ IsSeq(MountedPayload(f))
<1> DEFINE files == Dialogue.directory
<1>0. DialogueOK(Dialogue) /\ NoName = <<>>
  BY DialogueHolds DEF SettingOK, DosConstants
<1>1. ASSUME NEW i \in DOMAIN files
      PROVE  Passes(f, files[i]) <=> Selected(f, files[i])
  <2>1. files[i].name \in TextsOf(Dialogue)
    BY DEF TextsOf
  <2>2. MeansIt(f.pattern, files[i].name)
    BY <1>0, <2>1, TextMeans DEF FiltersOK
  <2> QED
    BY <2>2, Selects DEF FiltersOK
<1>2. {i \in DOMAIN files : Passes(f, files[i])} = {i \in DOMAIN files : Selected(f, files[i])}
  BY <1>1
<1>3. Len(files) \in Nat /\ DOMAIN files = 1..Len(files)
  BY <1>0 DEF DialogueOK
<1>4. IsSeq(Listing(files, {i \in DOMAIN files : Passes(f, files[i])}, Dialogue.free))
  <2> DEFINE places == {i \in DOMAIN files : Passes(f, files[i])}
  <2>1. places \subseteq 1..Len(files)
    BY <1>3
  <2> HIDE DEF places, files
  <2> QED
    BY <1>3, <2>1, ListingIsSeq DEF places
<1> QED
  BY <1>2, <1>4 DEF MountedPayload, Promise

LEMMA BufferIsSeq ==
    ASSUME DosConstants, BlocksOK, NEW ch \in Channels
    PROVE  IsSeq(BufferPayload(ch))
<1> DEFINE n == BlockSize - pos[ch]
           bytes == [i \in 1..n |-> <<"byte", buffer[pos[ch] + i]>>]
<1>1. pos[ch] \in 0..(BlockSize - 1) /\ BlockSize \in Nat
  BY DEF BlocksOK, DosConstants
<1>2. n \in Nat
  BY <1>1
<1>3. bytes = [i \in 1..n |-> bytes[i]]
  OBVIOUS
<1>4. BufferPayload(ch) = <<<<"title">>>> \o bytes
  BY DEF BufferPayload
<1> HIDE DEF n, bytes
<1>5. IsSeq(bytes)
  BY <1>2, <1>3, FunctionIsSeq
<1> QED
  BY <1>4, <1>5, OneIsSeq, ConcatIsSeq

LEMMA BytesIsSeq ==
    ASSUME NEW values, IsSeq(values)
    PROVE  IsSeq(Bytes(values))
<1>1. PICK S : values \in Seq(S)
  BY DEF IsSeq
<1>2. DOMAIN values = 1..Len(values) /\ Len(values) \in Nat
  BY <1>1
<1> DEFINE bytes == [i \in 1..Len(values) |-> <<"byte", values[i]>>]
<1>3. bytes = [i \in 1..Len(values) |-> bytes[i]]
  OBVIOUS
<1>4. Bytes(values) = bytes
  BY <1>2 DEF Bytes
<1> HIDE DEF bytes
<1> QED
  BY <1>2, <1>3, <1>4, FunctionIsSeq

-----------------------------------------------------------------------------
(* The steps.  Names first.                                                *)

LEMMA InitDos ==
    ASSUME DosConstants, DosInit
    PROVE  DosInv
<1>0. BlockSize \in Nat /\ 0 \in 0..(BlockSize - 1) /\ NoName = <<>> /\ SettingOK /\ DialogueOK(Dialogue)
  BY DialogueHolds DEF DosConstants, DosInit, SettingOK
<1>1. NamesOK
  BY DEF DosInit, Map!Init, Map!InitialState, NamesOK
<1>2. CatalogOK
  <2>1. catalog = [e \in Map!Entries |-> Map!EmptyEntry]
    BY DEF DosInit, Map!Init, Map!InitialState
  <2>2. Map!EmptyEntry \in FileRecords /\ Map!EmptyEntry.used = FALSE
    BY DEF Map!EmptyEntry, FileRecords
  <2> QED
    BY <2>1, <2>2 DEF CatalogOK
<1>3. BlocksOK
  BY <1>0 DEF DosInit, BlocksOK, IsBlock, Fresh, FreshBuffer
<1>4. KindsOK
  BY DEF DosInit, Fresh, PlainKind, KindsOK, KindTypes
<1>5. TalkOK
  BY DEF DosInit, TalkOK
<1>6. ListingOK
  BY DEF DosInit, FreshListing, NoFilters, ListingOK, FiltersOK, PatternsOf
<1>7. HeardOK /\ AnswerOK
  BY EmptyIsSeq DEF DosInit, HeardOK, AnswerOK, HostHears
<1>8. KeptOK
  BY DEF DosInit, KeptOK, WrittenComesBack
<1> QED
  BY <1>0, <1>1, <1>2, <1>3, <1>4, <1>5, <1>6, <1>7, <1>8 DEF DosInv

LEMMA ListenKeeps ==
    ASSUME DosInv, Listen
    PROVE  DosInv'
<1>1. UNCHANGED <<dialogue, store, kinds, talking, history, openName, catalog>>
  BY DEF Listen, Map!Listen, Map!fileVars
<1> QED
  BY <1>1, SettingStays, NamesStay, CatalogStays, BlocksStay, KindsStay, TalkStays, ListingStays,
     HeardStays, AnswerStays, KeptStays DEF DosInv, store, kinds, talking, history

LEMMA OpenSecondaryKeeps ==
    ASSUME DosInv, NEW ch, OpenSecondary(ch)
    PROVE  DosInv'
<1>1. UNCHANGED <<dialogue, store, kinds, talking, history, catalog>>
  BY DEF OpenSecondary, Map!OpenSecondary, Map!fileVars
<1>2. openName' = [openName EXCEPT ![ch] = NoName]
  BY DEF OpenSecondary, Map!OpenSecondary
<1>3. NamesOK'
  BY <1>1, <1>2 DEF DosInv, NamesOK, Dialogue
<1> QED
  BY <1>1, <1>3, SettingStays, CatalogStays, BlocksStay, KindsStay, TalkStays, ListingStays,
     HeardStays, AnswerStays, KeptStays DEF DosInv, store, kinds, talking, history

LEMMA CloseKeeps ==
    ASSUME DosInv, NEW ch, Close(ch)
    PROVE  DosInv'
<1>1. UNCHANGED <<dialogue, store, kinds, talking, history, openName, catalog>>
  BY DEF Close, Map!Close, Map!fileVars
<1> QED
  BY <1>1, SettingStays, NamesStay, CatalogStays, BlocksStay, KindsStay, TalkStays, ListingStays,
     HeardStays, AnswerStays, KeptStays DEF DosInv, store, kinds, talking, history

\* The latest of the words that count is one of them.
LEMMA LatestIsOne ==
    ASSUME NEW n \in Nat, NEW places, places \subseteq 1..n, places # {}
    PROVE  Latest(places) \in places
<1> DEFINE back == {n - i : i \in places}
<1>1. back \subseteq Nat /\ back # {}
  <2>1. \A i \in 1..n : n - i \in Nat
    OBVIOUS
  <2> QED
    BY <2>1
<1>2. PICK b \in back : \A o \in back : b <= o
  BY <1>1, LeastNumber
<1>3. PICK i \in places : b = n - i
  BY <1>2
<1>4. ASSUME NEW j \in places PROVE j <= i
  <2>1. n - j \in back
    OBVIOUS
  <2>2. n - i <= n - j
    BY <1>2, <1>3, <2>1
  <2>3. i \in 1..n /\ j \in 1..n
    OBVIOUS
  <2> HIDE DEF back
  <2> QED
    BY <2>2, <2>3
<1> HIDE DEF back
<1>5. \E o \in places : \A j \in places : j <= o
  BY <1>4
<1> QED
  BY <1>5 DEF Latest

LEMMA KindTyped ==
    ASSUME NEW words \in Seq(STRING)
    PROVE  KindOf(words).type \in KindTypes
<1> DEFINE types == Among(words, DOMAIN TypeOf)
<1>1. types \subseteq 1..Len(words) /\ Len(words) \in Nat
  BY DEF Among
<1>2. types # {} => Latest(types) \in types
  <2> HIDE DEF types
  <2> QED
    BY <1>1, LatestIsOne
<1>3. \A i \in types : words[i] \in DOMAIN TypeOf
  BY DEF Among
<1>4. \A x \in DOMAIN TypeOf : TypeOf[x] \in KindTypes
  BY DEF TypeOf, KindTypes
<1>5. KindOf(words).type = IF types = {} THEN "PRG" ELSE TypeOf[words[Latest(types)]]
  BY DEF KindOf, PlainKind
<1> HIDE DEF types
<1>6. "PRG" \in KindTypes
  BY DEF KindTypes
<1> QED
  BY <1>2, <1>3, <1>4, <1>5, <1>6

LEMMA UnlistenKeeps ==
    ASSUME DosConstants, DosInv, NEW spec \in Dialogue.specs, Unlisten(spec.name, spec.words)
    PROVE  DosInv'
<1> DEFINE name == spec.name
           words == spec.words
           f == FiltersOf(name, words)
<1>0. DialogueOK(Dialogue) /\ NoName = <<>> /\ LoadChannel \in Channels
  BY DialogueHolds DEF DosInv, SettingOK, DosConstants
<1>1. UNCHANGED <<dialogue, store, response, talk, asked, kept, catalog>>
  BY DEF Unlisten, Map!CommitOpenName, Map!fileVars
<1>2. openName' = [openName EXCEPT ![naming] = name] /\ openKind' = [openKind EXCEPT ![naming] = KindOf(words)]
  BY DEF Unlisten, Map!CommitOpenName
<1>3. NamesOK'
  <2>1. name \in SpecNames(Dialogue)
    BY DEF SpecNames
  <2> QED
    BY <1>1, <1>2, <2>1 DEF DosInv, NamesOK, Dialogue
<1>4. KindsOK'
  <2>1. words \in Seq(STRING)
    BY <1>0 DEF DialogueOK
  <2>2. KindOf(words).type \in KindTypes
    BY <2>1, KindTyped
  <2> QED
    BY <1>2, <2>2 DEF DosInv, KindsOK
<1>5. ListingOK' /\ HeardOK'
  <2>1. CASE UNCHANGED <<tx, listing, heard, promised>>
    BY <1>1, <2>1, ListingStays, HeardStays DEF DosInv
  <2>2. CASE IsDirectory(name) /\ BuildDirectory(f)
    <3>1. FiltersOK(f)
      <4>1. f.pattern = Tail(name)
        BY DEF FiltersOf
      <4>2. Tail(name) \in PatternsOf(Dialogue)
        BY <2>2 DEF PatternsOf
      <4>3. f.negated \in BOOLEAN
        BY DEF FiltersOf
      <4> QED
        BY <4>1, <4>2, <4>3 DEF FiltersOK
    <3> HIDE DEF f
    <3>2. ASSUME NEW fromBuffer, SetListing(f, fromBuffer) PROVE ListingOK'
      <4>1. listing' = [prepared |-> TRUE, fromBuffer |-> fromBuffer, filters |-> f]
        BY <3>2 DEF SetListing
      <4> QED
        BY <1>1, <3>1, <4>1 DEF ListingOK, FiltersOK, Dialogue
    <3>3. CASE Dialogue.image = "d64"
      <4>1. /\ Sends(MountedPayload(f),
                     Promise(Dialogue.directory, DOMAIN Dialogue.directory, Dialogue.free, f))
            /\ SetListing(f, FALSE)
        BY <2>2, <3>3 DEF BuildDirectory
      <4> QED
        BY <3>1, <3>2, <4>1, MountedPromised, SentIsHeard DEF DosInv
    <3>4. CASE Dialogue.image # "d64" /\ bufferValid
      <4>1. Sends(BufferPayload(LoadChannel), BufferPayload(LoadChannel)) /\ SetListing(f, TRUE)
        BY <2>2, <3>4 DEF BuildDirectory
      <4> QED
        BY <1>0, <3>2, <4>1, BufferIsSeq, SentIsHeard DEF DosInv
    <3>5. CASE Dialogue.image # "d64" /\ ~ bufferValid
      <4>1. Sends(StubPayload(f), StubPromise(f)) /\ SetListing(f, FALSE)
        BY <2>2, <3>5 DEF BuildDirectory
      <4> QED
        BY <3>1, <3>2, <4>1, StubPromised, SentIsHeard DEF DosInv
    <3> QED
      BY <3>3, <3>4, <3>5
  <2> QED
    BY <2>1, <2>2 DEF Unlisten
<1> QED
  BY <1>1, <1>3, <1>4, <1>5, SettingStays, CatalogStays, BlocksStay, TalkStays,
     AnswerStays, KeptStays DEF DosInv, store

-----------------------------------------------------------------------------
(* Commands.                                                               *)

\* What every command leaves.
CommandRest ==
    /\ SettingOK' /\ NamesOK' /\ KindsOK' /\ TalkOK' /\ ListingOK' /\ HeardOK'
    /\ UNCHANGED dialogue

LEMMA CommandLeaves ==
    ASSUME DosInv, Map!RunsCommand, Commands, SaysNothing
    PROVE  CommandRest
<1>1. UNCHANGED <<dialogue, talk, tx, listing, heard, promised>>
  BY DEF SaysNothing
<1>2. NamesOK'
  BY <1>1 DEF Map!RunsCommand, DosInv, NamesOK, Dialogue
<1>3. KindsOK'
  BY DEF Commands, DosInv, KindsOK, PlainKind, KindTypes
<1> QED
  BY <1>1, <1>2, <1>3, SettingStays, TalkStays, ListingStays, HeardStays DEF DosInv, CommandRest

LEMMA MemoryReadKeeps ==
    ASSUME DosConstants, DosInv, MemoryRead
    PROVE  DosInv'
<1>1. CommandRest /\ UNCHANGED <<catalog, memory, disk, buffer, pos, kept>>
  <2>1. Map!RunsCommand /\ Commands /\ SaysNothing
    BY DEF MemoryRead, Map!OtherCommand
  <2> QED
    BY <2>1, CommandLeaves DEF MemoryRead, Map!OtherCommand, Map!fileVars, store
<1>2. AnswerOK'
  <2>1. PICK r \in Dialogue.memoryReads :
           response' = [i \in 1..r[2] |-> memory[r[1] + i - 1]] /\ asked' = {response'}
    BY DEF MemoryRead
  <2>2. r[2] \in Nat /\ r[2] > 0
    BY DialogueHolds DEF DosInv, SettingOK, DialogueOK
  <2>3. PICK n \in Nat : n = r[2] /\ n > 0
    BY <2>2
  <2>4. response' = [i \in 1..n |-> response'[i]]
    BY <2>1, <2>3
  <2>5. IsSeq(response') /\ response' # <<>>
    BY <2>3, <2>4, FunctionIsSeq
  <2> QED
    BY <2>1, <2>5 DEF AnswerOK
<1> QED
  BY <1>1, <1>2, CatalogStays, BlocksStay, KeptStays DEF DosInv, CommandRest

\* The cells of a block, which are apart whatever the masked bit folds, and what is read from
\* them.
LEMMA QuotientIs ==
    ASSUME NEW M \in Nat \ {0}, NEW k \in Int, NEW x \in Int, M * k <= x, x < (M * k) + M
    PROVE  x \div M = k
<1>1. PICK q \in Int : q = x \div M
  OBVIOUS
<1>2. M * q <= x /\ x < (M * q) + M
  BY <1>1
<1>3. PICK d \in Int : d = k - q
  OBVIOUS
<1>4. M * k = (M * q) + (M * d)
  BY <1>3
<1>5. d >= 1 => M * d >= M
  OBVIOUS
<1>6. d <= -1 => M * d <= -M
  OBVIOUS
<1> QED
  BY <1>1, <1>2, <1>3, <1>4, <1>5, <1>6

LEMMA MaskedIs ==
    ASSUME DosConstants, NEW n \in Nat
    PROVE  \E q \in Nat : /\ (MaskedBit * q) <= n /\ n < (MaskedBit * q) + MaskedBit
                          /\ Masked(n) = (IF q % 2 = 1 THEN n - MaskedBit ELSE n)
<1>1. MaskedBit \in Nat \ {0}
  BY DEF DosConstants
<1>2. PICK q \in Int : q = n \div MaskedBit
  BY <1>1
<1>3. (MaskedBit * q) <= n /\ n < (MaskedBit * q) + MaskedBit
  BY <1>1, <1>2
<1>4. q \in Nat
  <2>1. q <= -1 => MaskedBit * q <= -MaskedBit
    BY <1>1
  <2> QED
    BY <1>1, <1>3, <2>1
<1> QED
  BY <1>2, <1>3, <1>4 DEF Masked

LEMMA BaseIs ==
    ASSUME DosConstants, NEW a \in Addresses
    PROVE  \E q \in Nat : /\ blockLinearBase(a) \in Nat /\ q % 2 = 0
                          /\ (MaskedBit * q) <= blockLinearBase(a)
                          /\ blockLinearBase(a) < (MaskedBit * q) + MaskedBit
<1>1. PICK n \in Nat : n = (BlockSize * a[1]) + a[2]
  <2>0. a[1] \in 0..255 /\ a[2] \in 0..255
    BY DEF DosConstants, Addresses
  <2>1. BlockSize \in Nat
    BY DEF DosConstants
  <2>2. PICK track \in Nat, sector \in Nat : track = a[1] /\ sector = a[2]
    <3>1. a[1] \in Nat /\ a[2] \in Nat
      BY <2>0
    <3> QED
      BY <3>1
  <2>3. BlockSize * track \in Nat
    BY <2>1
  <2>4. (BlockSize * track) + sector \in Nat
    BY <2>3
  <2> QED
    BY <2>2, <2>4
<1>2. PICK q \in Nat : /\ (MaskedBit * q) <= n /\ n < (MaskedBit * q) + MaskedBit
                       /\ Masked(n) = (IF q % 2 = 1 THEN n - MaskedBit ELSE n)
  BY MaskedIs
<1>3. MaskedBit \in Nat \ {0} /\ blockLinearBase(a) = Masked(n)
  BY <1>1 DEF DosConstants, blockLinearBase
<1>4. CASE q % 2 = 1
  <2>1. q - 1 \in Nat /\ (q - 1) % 2 = 0
    BY <1>4
  <2>2. MaskedBit * (q - 1) = (MaskedBit * q) - MaskedBit
    BY <1>3
  <2>3. MaskedBit * (q - 1) \in Nat
    BY <1>3, <2>1
  <2>4. PICK lower \in Nat : lower = MaskedBit * (q - 1)
    BY <2>3
  <2>5. PICK masked \in Nat : masked = n - MaskedBit /\ lower <= masked /\ masked < lower + MaskedBit
    <3>1. MaskedBit * q = lower + MaskedBit
      BY <1>3, <2>2, <2>4
    <3>2. lower + MaskedBit <= n /\ n < lower + MaskedBit + MaskedBit
      BY <1>2, <3>1
    <3>3. n - MaskedBit \in Nat
      BY <1>3, <2>4, <3>2
    <3> QED
      BY <1>3, <2>4, <3>2, <3>3
  <2>6. blockLinearBase(a) = masked
    BY <1>2, <1>3, <1>4, <2>5
  <2> QED
    BY <2>1, <2>4, <2>5, <2>6
<1>5. CASE q % 2 # 1
  BY <1>2, <1>3, <1>5
<1> QED
  BY <1>4, <1>5

LEMMA CellIs ==
    ASSUME DosConstants, NEW q \in Nat, q % 2 = 0, NEW base \in Nat, base = MaskedBit * q,
           NEW b \in Nat, base <= b, b < base + MaskedBit, NEW i \in 1..BlockSize, NEW x, x = b + i - 1
    PROVE  Masked(x) = IF x < base + MaskedBit THEN x ELSE x - MaskedBit
<1>1. MaskedBit \in Nat \ {0} /\ BlockSize \in Nat /\ BlockSize <= MaskedBit
  BY DEF DosConstants
<1>2. x \in Int /\ base <= x /\ x < base + MaskedBit + MaskedBit
  BY <1>1
<1>3. CASE x < base + MaskedBit
  <2>1. x \div MaskedBit = q
    BY <1>1, <1>2, <1>3, QuotientIs
  <2> QED
    BY <1>3, <2>1 DEF Masked
<1>4. CASE ~ (x < base + MaskedBit)
  <2>1. MaskedBit * (q + 1) = base + MaskedBit
    BY <1>1
  <2>2. x \div MaskedBit = q + 1
    BY <1>1, <1>2, <1>4, <2>1, QuotientIs
  <2>3. (q + 1) % 2 = 1
    OBVIOUS
  <2>4. Masked(x) = x - MaskedBit
    BY <2>2, <2>3 DEF Masked
  <2> QED
    BY <1>4, <2>4
<1> QED
  BY <1>3, <1>4

LEMMA FoldsApart ==
    ASSUME NEW M \in Nat, NEW base \in Nat, NEW x \in Int, NEW y \in Int,
           x - y < M, y - x < M, base <= x, base <= y,
           (IF x < base + M THEN x ELSE x - M) = (IF y < base + M THEN y ELSE y - M)
    PROVE  x = y
OBVIOUS

LEMMA CellsApart ==
    ASSUME DosConstants, NEW a \in Addresses, NEW i \in 1..BlockSize, NEW k \in 1..BlockSize,
           Cell(a, i) = Cell(a, k)
    PROVE  i = k
<1>1. PICK b \in Nat : b = blockLinearBase(a)
  BY BaseIs
<1>2. PICK q \in Nat : /\ q % 2 = 0
                       /\ (MaskedBit * q) <= b /\ b < (MaskedBit * q) + MaskedBit
  BY <1>1, BaseIs
<1>3. MaskedBit \in Nat \ {0} /\ BlockSize \in Nat /\ BlockSize <= MaskedBit
  BY DEF DosConstants
<1>4. PICK base \in Nat : base = MaskedBit * q
  BY <1>3
<1>5. base <= b /\ b < base + MaskedBit
  BY <1>2, <1>4
<1>6. PICK x, y : x = b + i - 1 /\ y = b + k - 1
  OBVIOUS
<1>7. Masked(x) = IF x < base + MaskedBit THEN x ELSE x - MaskedBit
  BY <1>1, <1>2, <1>4, <1>5, <1>6, CellIs
<1>8. Masked(y) = IF y < base + MaskedBit THEN y ELSE y - MaskedBit
  BY <1>1, <1>2, <1>4, <1>5, <1>6, CellIs
<1>9. Masked(x) = Masked(y)
  BY Zenon, <1>1, <1>6 DEF Cell
<1>10. i \in Int /\ k \in Int /\ 1 <= i /\ i <= MaskedBit /\ 1 <= k /\ k <= MaskedBit
  BY <1>3
<1>11. x \in Int /\ y \in Int /\ base <= x /\ base <= y /\ x - y = i - k
  BY <1>1, <1>3, <1>4, <1>5, <1>6, <1>10
<1>12. x = y
  BY <1>3, <1>4, <1>7, <1>8, <1>9, <1>10, <1>11, FoldsApart
<1> QED
  BY <1>10, <1>11, <1>12

LEMMA CellPlaces ==
    ASSUME DosConstants, SettingOK, NEW a \in Addresses
    PROVE  CellsOf(a) \subseteq 0..Dialogue.lastCell /\ \A i \in 1..BlockSize : Cell(a, i) \in CellsOf(a)
<1>1. DialogueOK(Dialogue)
  BY DialogueHolds DEF SettingOK
<1> QED
  BY <1>1 DEF DialogueOK, CellsOf

LEMMA CellsStay ==
    ASSUME DosConstants, SettingOK, NEW a \in Addresses, \A c \in CellsOf(a) : memory'[c] = memory[c]
    PROVE  InMemory(a)' = InMemory(a)
  BY CellPlaces DEF InMemory

LEMMA CellsHold ==
    ASSUME DosConstants, SettingOK, BlocksOK, NEW a \in Addresses,
           \A c \in CellsOf(a) : memory'[c] = buffer[CHOOSE i \in 1..BlockSize : Cell(a, i) = c]
    PROVE  InMemory(a)' = buffer
<1>1. ASSUME NEW i \in 1..BlockSize PROVE memory'[Cell(a, i)] = buffer[i]
  <2>1. PICK k : k = CHOOSE n \in 1..BlockSize : Cell(a, n) = Cell(a, i)
    OBVIOUS
  <2>2. k \in 1..BlockSize /\ Cell(a, k) = Cell(a, i)
    BY <2>1
  <2>3. k = i
    BY <2>2, CellsApart
  <2> QED
    BY <2>1, <2>3, CellPlaces
<1>2. InMemory(a)' = [i \in 1..BlockSize |-> memory'[Cell(a, i)]]
  BY DEF InMemory
<1> QED
  BY <1>1, <1>2 DEF BlocksOK, IsBlock

LEMMA MemoryWriteKeeps ==
    ASSUME DosConstants, DosInv, MemoryWrite
    PROVE  DosInv'
<1>1. CommandRest /\ UNCHANGED <<catalog, disk, buffer, pos, response, asked>>
  <2>1. Map!RunsCommand /\ Commands /\ SaysNothing
    BY DEF MemoryWrite, Map!OtherCommand
  <2> QED
    BY <2>1, CommandLeaves DEF MemoryWrite, Map!OtherCommand, Map!fileVars
<1>2. PICK cells : /\ DOMAIN memory' = DOMAIN memory
                   /\ \A c \in DOMAIN memory : c \notin cells => memory'[c] = memory[c]
                   /\ kept' = [a \in Addresses |->
                                 IF ~Mounted /\ CellsOf(a) \cap cells # {} THEN {} ELSE kept[a]]
  BY DEF MemoryWrite
<1>3. BlocksOK'
  BY <1>1, <1>2 DEF DosInv, BlocksOK, IsBlock, CommandRest, Dialogue
<1>4. KeptOK'
  <2>1. /\ Dialogue' = Dialogue /\ (Mounted' <=> Mounted) /\ (SectorImage' <=> SectorImage)
        /\ \A a \in Addresses : (Reads(a)' <=> Reads(a)) /\ disk'[a] = disk[a]
    BY <1>1 DEF CommandRest, Dialogue, Mounted, SectorImage, Reads
  <2>2. ASSUME NEW a \in Addresses, NEW b \in kept'[a] PROVE Contents(a)' = {b}
    <3>1. b \in kept[a] /\ ~(~Mounted /\ CellsOf(a) \cap cells # {})
      BY <1>2, <2>2
    <3>2. Contents(a) = {b}
      BY <3>1 DEF DosInv, KeptOK, WrittenComesBack
    <3>3. CASE Reads(a)
      <4>1. SectorImage
        BY <3>1, <3>3 DEF DosInv, KeptOK, Reads
      <4> QED
        BY <2>1, <3>2, <3>3, <4>1 DEF Contents
    <3>4. CASE ~ Reads(a)
      <4>1. ~ Mounted
        BY <3>1, <3>4 DEF DosInv, KeptOK
      <4>2. CellsOf(a) \cap cells = {}
        BY <3>1, <4>1
      <4>3. \A c \in CellsOf(a) : memory'[c] = memory[c]
        BY <1>2, <4>2, CellPlaces DEF DosInv, BlocksOK
      <4>4. InMemory(a)' = InMemory(a)
        BY <4>3, CellsStay DEF DosInv
      <4> QED
        BY <2>1, <3>2, <3>4, <4>4 DEF Contents
    <3> QED
      BY <3>3, <3>4
  <2>3. Mounted => \A a \in Addresses : ~ (SectorImage /\ Reads(a)) => kept'[a] = {}
    BY <1>2 DEF DosInv, KeptOK
  <2> QED
    BY <2>1, <2>2, <2>3 DEF KeptOK, WrittenComesBack, Addresses
<1> QED
  BY <1>1, <1>3, <1>4, CatalogStays, AnswerStays DEF DosInv, CommandRest

LEMMA StatusOnlyKeeps ==
    ASSUME DosInv, StatusOnly
    PROVE  DosInv'
<1>1. CommandRest /\ UNCHANGED <<catalog, memory, disk, buffer, pos, response, asked, kept>>
  <2>1. Map!RunsCommand /\ Commands /\ SaysNothing
    BY DEF StatusOnly, Map!OtherCommand
  <2> QED
    BY <2>1, CommandLeaves DEF StatusOnly, Map!OtherCommand, Map!fileVars, store
<1> QED
  BY <1>1, CatalogStays, BlocksStay, AnswerStays, KeptStays DEF DosInv, CommandRest

LEMMA BufferPointerKeeps ==
    ASSUME DosConstants, DosInv, BufferPointer
    PROVE  DosInv'
<1>1. CommandRest /\ UNCHANGED <<catalog, memory, disk, buffer, response, asked, kept>>
  <2>1. Map!RunsCommand /\ Commands /\ SaysNothing
    BY DEF BufferPointer, Map!OtherCommand
  <2> QED
    BY <2>1, CommandLeaves DEF BufferPointer, Map!OtherCommand, Map!fileVars
<1>2. PICK ch \in Dialogue.blockChannels, p \in Dialogue.pointers : pos' = [pos EXCEPT ![ch] = p]
  BY DEF BufferPointer
<1>3. p \in 0..(BlockSize - 1)
  BY DialogueHolds DEF DosInv, SettingOK, DialogueOK
<1>4. BlocksOK'
  BY <1>1, <1>2, <1>3 DEF DosInv, BlocksOK, IsBlock, CommandRest, Dialogue
<1> QED
  BY <1>1, <1>4, CatalogStays, AnswerStays, KeptStays DEF DosInv, CommandRest

-----------------------------------------------------------------------------
(* The block commands.                                                     *)

\* A file's entry after an allocation has the name of a file.
LEMMA AllocationKeepsCatalog ==
    ASSUME DosConstants, DosInv, UNCHANGED dialogue,
           NEW ch \in Dialogue.blockChannels, NEW a \in Addresses, Map!AllocateVirtualBlock(ch, a)
    PROVE  CatalogOK'
<1> DEFINE e == Map!EntryForChannel(ch)
           r == Map!EnsuredEntry(ch, a)
           w == [r EXCEPT !.blocks = r.blocks + 1]
<1>1. catalog' = [catalog EXCEPT ![e] = w]
  BY DEF Map!AllocateVirtualBlock
<1>2. ch \in Channels /\ Dialogue.blockChannels # {}
  BY DialogueHolds DEF DosInv, SettingOK, DialogueOK
<1>3. catalog \in [Map!Entries -> FileRecords] /\ \A x \in Map!Entries : catalog[x].used => FileName(catalog[x].name)
  BY DEF DosInv, CatalogOK
<1>4. Map!NamesFile(ch) => openName[ch] \in SpecNames(Dialogue) /\ FileName(openName[ch])
  BY <1>2 DEF Map!NamesFile, DosInv, NamesOK, FileName
<1> HIDE DEF e
<1>5. ASSUME e \in Map!Entries
      PROVE  r \in FileRecords /\ r.used /\ FileName(r.name)
  <2>1. CASE Map!MappedEntry(ch) # Map!NoEntry
    <3>1. e = Map!MappedEntry(ch) /\ catalog[e].used
      BY <2>1 DEF e, Map!EntryForChannel, Map!MappedEntry
    <3>2. catalog[e] \in FileRecords /\ FileName(catalog[e].name)
      BY <1>3, <1>5, <3>1
    <3>3. r = [catalog[e] EXCEPT !.name = IF Map!NamesFile(ch) THEN openName[ch] ELSE catalog[e].name]
      BY <2>1, <3>1 DEF Map!EnsuredEntry
    <3>4. PICK n : n = IF Map!NamesFile(ch) THEN openName[ch] ELSE catalog[e].name
      OBVIOUS
    <3>5. FileName(n) /\ n \in {NoName} \cup SpecNames(Dialogue) \cup Addresses
      BY <1>4, <3>2, <3>4 DEF FileRecords
    <3>6. r = [catalog[e] EXCEPT !.name = n]
      BY <3>3, <3>4
    <3> HIDE DEF r
    <3>7. r \in FileRecords
      BY <3>2, <3>5, <3>6 DEF FileRecords
    <3>8. r.used = catalog[e].used /\ r.name = n
      BY <3>2, <3>6 DEF FileRecords
    <3> QED
      BY <3>1, <3>5, <3>7, <3>8
  <2>2. CASE ~ (Map!MappedEntry(ch) # Map!NoEntry)
    <3>1. r = [used |-> TRUE, channel |-> ch, blocks |-> 0, name |-> Map!PickCatalogName(ch, a)]
      BY <2>2 DEF Map!EnsuredEntry
    <3>2. PICK n : n = Map!PickCatalogName(ch, a)
      OBVIOUS
    <3>3. FileName(n) /\ n \in {NoName} \cup SpecNames(Dialogue) \cup Addresses
      BY <1>4, <3>2 DEF Map!PickCatalogName, FileName
    <3>4. r = [used |-> TRUE, channel |-> ch, blocks |-> 0, name |-> n]
      BY <3>1, <3>2
    <3> HIDE DEF r
    <3> QED
      BY <1>2, <3>3, <3>4 DEF FileRecords
  <2> QED
    BY <2>1, <2>2
<1> HIDE DEF r
<1>6. ASSUME e \in Map!Entries
      PROVE  w \in FileRecords /\ FileName(w.name)
  <2>1. r \in FileRecords /\ FileName(r.name)
    BY <1>5, <1>6
  <2>2. w = [used |-> r.used, channel |-> r.channel, blocks |-> r.blocks + 1, name |-> r.name]
    BY <2>1 DEF FileRecords
  <2>3. r.used \in BOOLEAN /\ r.channel \in Channels \cup {NoChannel} /\ r.blocks + 1 \in Nat
        /\ r.name \in {NoName} \cup SpecNames(Dialogue) \cup Addresses
    BY <2>1 DEF FileRecords
  <2> HIDE DEF w
  <2>4. w.name = r.name
    BY <2>2
  <2>5. w \in FileRecords
    BY <2>2, <2>3 DEF FileRecords
  <2> QED
    BY <2>1, <2>4, <2>5
<1> HIDE DEF w
<1>7. catalog' \in [Map!Entries -> FileRecords]
  BY <1>1, <1>3, <1>6
<1>8. \A x \in Map!Entries : catalog'[x].used => FileName(catalog'[x].name)
  BY <1>1, <1>3, <1>6
<1> QED
  BY <1>7, <1>8 DEF CatalogOK, FileRecords, FileName, Dialogue

LEMMA FreeingKeepsCatalog ==
    ASSUME DosInv, UNCHANGED dialogue, NEW a, Map!FreeVirtualBlock(a)
    PROVE  CatalogOK'
<1> DEFINE e == owner[Map!BlockAllocIndex(a)]
           w == Map!EntryWithoutBlock(e)
<1>1. catalog \in [Map!Entries -> FileRecords] /\ \A x \in Map!Entries : catalog[x].used => FileName(catalog[x].name)
  BY DEF DosInv, CatalogOK
<1>2. catalog' = catalog \/ catalog' = [catalog EXCEPT ![e] = w]
  BY DEF Map!FreeVirtualBlock, Map!fileVars
<1> HIDE DEF e
<1>3. ASSUME e \in Map!Entries
      PROVE  w \in FileRecords /\ (w.used => FileName(w.name))
  <2>1. catalog[e] \in FileRecords
    BY <1>1, <1>3
  <2>2. CASE Map!BlocksLeft(e) = 0
    <3>1. w = Map!EmptyEntry
      BY <2>2 DEF Map!EntryWithoutBlock
    <3> QED
      BY <3>1 DEF Map!EmptyEntry, FileRecords
  <2>3. CASE Map!BlocksLeft(e) # 0
    <3>1. w = [catalog[e] EXCEPT !.blocks = Map!BlocksLeft(e)]
      BY <2>3 DEF Map!EntryWithoutBlock
    <3>2. Map!BlocksLeft(e) \in Nat
      BY <2>1 DEF Map!BlocksLeft, FileRecords
    <3> HIDE DEF w
    <3>3. w \in FileRecords
      BY <2>1, <3>1, <3>2 DEF FileRecords
    <3>4. w.used = catalog[e].used /\ w.name = catalog[e].name
      BY <2>1, <3>1 DEF FileRecords
    <3> QED
      BY <1>1, <1>3, <3>3, <3>4
  <2> QED
    BY <2>2, <2>3
<1> HIDE DEF w
<1>4. catalog' \in [Map!Entries -> FileRecords]
  BY <1>1, <1>2, <1>3
<1>5. \A x \in Map!Entries : catalog'[x].used => FileName(catalog'[x].name)
  BY <1>1, <1>2, <1>3
<1> QED
  BY <1>4, <1>5 DEF CatalogOK, FileRecords, FileName, Dialogue

LEMMA BlockAllocateKeeps ==
    ASSUME DosConstants, DosInv, NEW ch \in Dialogue.blockChannels, NEW a \in Addresses, BlockAllocate(ch, a)
    PROVE  DosInv'
<1>1. CommandRest /\ UNCHANGED <<memory, disk, buffer, pos, response, asked, kept>>
  <2>1. Map!RunsCommand /\ Commands /\ SaysNothing
    BY DEF BlockAllocate, Map!BlockAllocate
  <2> QED
    BY <2>1, CommandLeaves DEF BlockAllocate, store
<1>2. Map!AllocateVirtualBlock(ch, a) \/ UNCHANGED catalog
  BY DEF BlockAllocate, Map!BlockAllocate, Map!fileVars
<1>3. CatalogOK'
  BY <1>1, <1>2, AllocationKeepsCatalog, CatalogStays DEF DosInv, CommandRest
<1> QED
  BY <1>1, <1>3, BlocksStay, AnswerStays, KeptStays DEF DosInv, CommandRest

\* The buffer may change to anything that is a block.
LEMMA BufferTakes ==
    ASSUME BlocksOK, UNCHANGED <<dialogue, memory, disk, pos>>, IsBlock(buffer')
    PROVE  BlocksOK'
  BY DEF BlocksOK, IsBlock, Dialogue

LEMMA BlockFreeKeeps ==
    ASSUME DosInv, NEW a, BlockFree(a)
    PROVE  DosInv'
<1>1. CommandRest /\ UNCHANGED <<memory, disk, pos, response, asked, kept>>
  <2>1. Map!RunsCommand /\ Commands /\ SaysNothing
    BY DEF BlockFree, Map!BlockFree
  <2> QED
    BY <2>1, CommandLeaves DEF BlockFree
<1>2. Map!FreeVirtualBlock(a) \/ UNCHANGED catalog
  BY DEF BlockFree, Map!BlockFree, Map!fileVars
<1>3. CatalogOK'
  BY <1>1, <1>2, FreeingKeepsCatalog, CatalogStays DEF DosInv, CommandRest
<1>4. IsBlock(buffer')
  <2>1. IsBlock([i \in 1..BlockSize |-> 0])
    BY DEF IsBlock
  <2>2. buffer' = [i \in 1..BlockSize |-> 0] \/ buffer' = buffer
    BY DEF BlockFree
  <2> QED
    BY <2>1, <2>2 DEF DosInv, BlocksOK
<1>5. BlocksOK'
  BY <1>1, <1>4, BufferTakes DEF DosInv, CommandRest
<1> QED
  BY <1>1, <1>3, <1>5, AnswerStays, KeptStays DEF DosInv, CommandRest

LEMMA BlockReadKeeps ==
    ASSUME DosConstants, DosInv, NEW a \in Addresses, BlockRead(a)
    PROVE  DosInv'
<1>1. CommandRest /\ UNCHANGED <<catalog, memory, disk, pos, response, asked, kept>>
  <2>1. Map!RunsCommand /\ Commands /\ SaysNothing
    BY DEF BlockRead, Map!BlockRead
  <2> QED
    BY <2>1, CommandLeaves DEF BlockRead, Map!BlockRead, Map!fileVars
<1>2. IsBlock(buffer')
  <2>1. IsBlock(InMemory(a))
    BY DEF IsBlock, InMemory
  <2>2. IsBlock(disk[a]) /\ IsBlock(buffer)
    BY DEF DosInv, BlocksOK
  <2>3. \A x \in Dialogue.decoded : IsBlock(x)
    <3>1. Dialogue.decoded \subseteq [1..BlockSize -> Int]
      BY DialogueHolds DEF DosInv, SettingOK, DialogueOK
    <3> QED
      BY <3>1 DEF IsBlock
  <2>4. buffer' = disk[a] \/ buffer' = InMemory(a) \/ buffer' = buffer \/ buffer' \in Dialogue.decoded
    BY DEF BlockRead, Contents
  <2> QED
    BY <2>1, <2>2, <2>3, <2>4
<1>3. BlocksOK'
  BY <1>1, <1>2, BufferTakes DEF DosInv, CommandRest
<1> QED
  BY <1>1, <1>3, CatalogStays, AnswerStays, KeptStays DEF DosInv, CommandRest

\* A block that is written is read back from where it went.
LEMMA FlushKeeps ==
    ASSUME DosConstants, DosInv, UNCHANGED <<dialogue, buffer, pos>>, NEW a \in Addresses, Flush(a),
           kept' = KnownAfter(a),
           Mounted => Reads(a)
    PROVE  BlocksOK' /\ KeptOK'
<1>1. /\ SettingOK /\ BlocksOK /\ KeptOK
      /\ disk' = (IF SectorImage THEN [disk EXCEPT ![a] = buffer] ELSE disk)
      /\ Mounted => memory' = memory
      /\ DOMAIN memory' = DOMAIN memory
  BY DEF DosInv, Flush
<1>2. ~Mounted => /\ \A c \in CellsOf(a) : memory'[c] = buffer[CHOOSE i \in 1..BlockSize : Cell(a, i) = c]
                  /\ \A b \in Addresses : CellsOf(a) \cap CellsOf(b) = {} =>
                        \A c \in CellsOf(b) : memory'[c] = memory[c]
  <2>1. \A b \in Addresses : CellsOf(b) \subseteq DOMAIN memory
    BY <1>1, CellPlaces DEF BlocksOK
  <2> QED
    BY <2>1 DEF Flush
<1>3. BlocksOK'
  <2>1. DOMAIN disk' = Addresses /\ \A b \in Addresses : IsBlock(disk'[b])
    BY <1>1 DEF BlocksOK
  <2> QED
    BY <1>1, <2>1 DEF BlocksOK, IsBlock, Dialogue
<1>4. /\ (Mounted' <=> Mounted) /\ (SectorImage' <=> SectorImage) /\ (SectorImage => Mounted)
      /\ \A b \in Addresses : Reads(b)' <=> Reads(b)
  BY DEF Mounted, SectorImage, Reads, Dialogue
<1>5. ASSUME NEW b \in Addresses, NEW x \in kept'[b]
      PROVE  Contents(b)' = {x}
  <2>1. CASE b = a
    <3>1. x = buffer /\ (Mounted => SectorImage)
      BY <1>5, <2>1 DEF KnownAfter
    <3>2. CASE Mounted
      <4>1. Contents(b)' = {disk'[b]}
        BY <1>4, <2>1, <3>1, <3>2 DEF Contents
      <4>2. disk'[b] = buffer
        BY <1>1, <2>1, <3>1, <3>2 DEF BlocksOK
      <4> QED
        BY <3>1, <4>1, <4>2
    <3>3. CASE ~ Mounted
      <4>1. InMemory(b)' = buffer
        BY <1>1, <1>2, <2>1, <3>3, CellsHold
      <4>2. ~ Reads(b)
        BY <3>3 DEF Reads
      <4> QED
        BY <1>4, <3>1, <4>1, <4>2 DEF Contents
    <3> QED
      BY <3>2, <3>3
  <2>2. CASE b # a
    <3>1. x \in kept[b] /\ ~ Overlap(a, b)
      BY <1>5, <2>2 DEF KnownAfter
    <3>2. Contents(b) = {x}
      BY <1>1, <3>1 DEF KeptOK, WrittenComesBack
    <3>3. disk'[b] = disk[b]
      BY <1>1, <2>2 DEF BlocksOK
    <3>5. Reads(b) => SectorImage
      BY <1>1, <3>1 DEF KeptOK, Reads
    <3>4. InMemory(b)' = InMemory(b)
      <4>1. CASE Mounted
        <5>1. \A c \in CellsOf(b) : memory'[c] = memory[c]
          BY <1>1, <4>1
        <5> QED
          BY <1>1, <5>1, CellsStay
      <4>2. CASE ~ Mounted
        <5>1. \A c \in CellsOf(b) : memory'[c] = memory[c]
          BY <1>2, <3>1, <4>2 DEF Overlap
        <5> QED
          BY <1>1, <5>1, CellsStay
      <4> QED
        BY <4>1, <4>2
    <3> QED
      BY <1>4, <3>2, <3>3, <3>4, <3>5 DEF Contents
  <2> QED
    BY <2>1, <2>2
<1>6. Mounted => \A b \in Addresses : ~ (SectorImage /\ Reads(b)) => kept'[b] = {}
  <2>1. ASSUME Mounted, NEW b \in Addresses, ~ (SectorImage /\ Reads(b)) PROVE kept'[b] = {}
    <3>1. CASE b = a
      BY <2>1, <3>1 DEF KnownAfter
    <3>2. CASE b # a
      <4>1. kept[b] = {}
        BY <1>1, <2>1 DEF KeptOK
      <4> QED
        BY <3>2, <4>1 DEF KnownAfter
    <3> QED
      BY <3>1, <3>2
  <2> QED
    BY <2>1
<1>7. KeptOK'
  BY <1>4, <1>5, <1>6 DEF KeptOK, WrittenComesBack, Addresses
<1> QED
  BY <1>3, <1>7

LEMMA BlockWriteKeeps ==
    ASSUME DosConstants, DosInv, NEW ch \in Dialogue.blockChannels, NEW a \in Addresses, BlockWrite(ch, a)
    PROVE  DosInv'
<1> DEFINE result == IF Mounted THEN Dialogue.results[a] ELSE "written"
<1>1. CommandRest /\ UNCHANGED <<buffer, pos, response, asked>> /\ Map!BlockWrite(ch, a, result)
  <2>1. Map!RunsCommand /\ Commands /\ SaysNothing
    BY DEF BlockWrite, Map!BlockWrite
  <2> QED
    BY <2>1, CommandLeaves DEF BlockWrite
<1>2. Map!AllocateVirtualBlock(ch, a) \/ UNCHANGED catalog
  BY <1>1 DEF Map!BlockWrite, Map!fileVars
<1>3. CatalogOK'
  BY <1>1, <1>2, AllocationKeepsCatalog, CatalogStays DEF DosInv, CommandRest
<1>4. BlocksOK' /\ KeptOK'
  <2>1. CASE bufferValid /\ dosStatus' = "00"
    <3>1. result \in Map!FlushResults
      <4>1. DialogueOK(Dialogue)
        BY DialogueHolds DEF DosInv, SettingOK
      <4> QED
        BY <4>1 DEF DialogueOK, Mounted, Map!FlushResults
    <3>2. result = "written"
      <4>1. dosStatus' = Map!FlushStatus(result) \/ dosStatus' = "63"
        BY <1>1 DEF Map!BlockWrite
      <4> HIDE DEF result
      <4> QED
        BY <2>1, <3>1, <4>1 DEF Map!FlushStatus, Map!FlushResults
    <3>3. Mounted => Reads(a)
      BY <3>2 DEF Reads
    <3>4. Flush(a) /\ kept' = KnownAfter(a)
      BY <2>1 DEF BlockWrite
    <3> QED
      BY <1>1, <3>3, <3>4, FlushKeeps DEF CommandRest
  <2>2. CASE ~ (bufferValid /\ dosStatus' = "00")
    <3>1. UNCHANGED <<memory, disk, kept>>
      BY <2>2 DEF BlockWrite
    <3> QED
      BY <1>1, <3>1, BlocksStay, KeptStays DEF DosInv, CommandRest
  <2> QED
    BY <2>1, <2>2
<1> QED
  BY <1>1, <1>3, <1>4, AnswerStays DEF DosInv, CommandRest

-----------------------------------------------------------------------------
(* Talking, and a reset.                                                   *)

LEMMA TalkLoadKeeps ==
    ASSUME DosConstants, DosInv, TalkLoad
    PROVE  DosInv'
<1>0. LoadChannel \in Channels /\ FiltersOK(listing.filters)
  BY DEF DosConstants, DosInv, ListingOK
<1>1. UNCHANGED <<dialogue, openName, catalog, memory, disk, buffer, pos, openKind, kept, response, asked>>
  BY DEF TalkLoad, Talks, mapVars, store, kinds
<1>2. TalkOK'
  BY <1>0 DEF TalkLoad, Talks, TalkOK
<1>3. ListingOK' /\ HeardOK'
  <2>1. CASE UNCHANGED <<tx, heard, promised, listing>>
    BY <1>1, <2>1, ListingStays, HeardStays DEF DosInv
  <2>2. CASE Sends(BufferPayload(LoadChannel), BufferPayload(LoadChannel)) /\ UNCHANGED listing
    BY <1>0, <1>1, <2>2, BufferIsSeq, SentIsHeard, ListingStays DEF DosInv
  <2>3. CASE /\ Sends(StubPayload(listing.filters), StubPromise(listing.filters))
             /\ listing' = [listing EXCEPT !.fromBuffer = FALSE]
    <3>1. listing = [prepared |-> listing.prepared, fromBuffer |-> listing.fromBuffer,
                     filters |-> listing.filters]
      BY DEF DosInv, ListingOK
    <3>2. listing' = [prepared |-> listing.prepared, fromBuffer |-> FALSE, filters |-> listing.filters]
      BY <2>3, <3>1
    <3>3. ListingOK'
      BY <1>0, <1>1, <3>2 DEF ListingOK, FiltersOK, Dialogue
    <3> QED
      BY <1>0, <2>3, <3>3, StubPromised, SentIsHeard DEF DosInv
  <2> QED
    BY <2>1, <2>2, <2>3 DEF TalkLoad
<1> QED
  BY <1>1, <1>2, <1>3, SettingStays, NamesStay, CatalogStays, BlocksStay, KindsStay,
     AnswerStays, KeptStays DEF DosInv

LEMMA TalkCommandKeeps ==
    ASSUME DosConstants, DosInv, TalkCommand
    PROVE  DosInv'
<1>1. UNCHANGED <<dialogue, openName, catalog, memory, disk, buffer, pos, openKind, kept, listing>>
  BY DEF TalkCommand, Talks, mapVars, store, kinds
<1>2. TalkOK'
  BY DEF TalkCommand, Talks, TalkOK, DosConstants
<1>3. AnswerOK'
  BY EmptyIsSeq DEF TalkCommand, AnswerGiven, AnswerOK
<1>4. HeardOK'
  <2>1. CASE response = <<>> /\ asked = {}
    <3>1. Sends(StatusPayload(dosStatus), StatusPayload(dosStatus))
      BY <2>1 DEF TalkCommand
    <3>2. IsSeq(StatusPayload(dosStatus))
      BY OneIsSeq DEF StatusPayload
    <3> QED
      BY <3>1, <3>2, SentIsHeard
  <2>2. CASE response # <<>> /\ asked = {response}
    <3>1. asked # {} /\ (CHOOSE r \in asked : TRUE) = response
      BY <2>2
    <3>2. Sends(Bytes(response), Bytes(response))
      BY <2>2, <3>1 DEF TalkCommand, ResponsePayload
    <3>3. IsSeq(Bytes(response))
      BY BytesIsSeq DEF DosInv, AnswerOK
    <3> QED
      BY <3>2, <3>3, SentIsHeard
  <2> QED
    BY <2>1, <2>2 DEF DosInv, AnswerOK
<1> QED
  BY <1>1, <1>2, <1>3, <1>4, SettingStays, NamesStay, CatalogStays, BlocksStay, KindsStay,
     ListingStays, KeptStays DEF DosInv

LEMMA TalkElsewhereKeeps ==
    ASSUME DosInv, NEW ch \in Channels, TalkElsewhere(ch)
    PROVE  DosInv'
<1>1. UNCHANGED <<dialogue, openName, catalog, memory, disk, buffer, pos, openKind, listing,
                  response, tx, heard, promised, asked, kept>>
  BY DEF TalkElsewhere, Map!StatusAside, Map!mapVars, Map!fileVars, Map!nameVars, store, kinds, history
<1>2. TalkOK'
  BY DEF TalkElsewhere, TalkOK
<1> QED
  BY <1>1, <1>2, SettingStays, NamesStay, CatalogStays, BlocksStay, KindsStay, ListingStays,
     HeardStays, AnswerStays, KeptStays DEF DosInv

LEMMA HostReadsKeeps ==
    ASSUME DosInv, HostReads
    PROVE  DosInv'
<1>1. UNCHANGED <<dialogue, openName, catalog, memory, disk, buffer, pos, openKind, talk, kept, listing,
                  response, asked>>
  BY DEF HostReads, mapVars, store, kinds
<1>2. HeardOK'
  BY NextIsHeard DEF HostReads, DosInv, HeardOK, HostHears
<1> QED
  BY <1>1, <1>2, SettingStays, NamesStay, CatalogStays, BlocksStay, KindsStay, TalkStays,
     ListingStays, AnswerStays, KeptStays DEF DosInv

LEMMA UntalkKeeps ==
    ASSUME DosInv, Untalk
    PROVE  DosInv'
<1>1. UNCHANGED <<dialogue, openName, catalog, memory, disk, buffer, pos, openKind, listing,
                  response, tx, heard, promised, asked, kept>>
  BY DEF Untalk, mapVars, store, kinds, history
<1>2. TalkOK'
  BY DEF Untalk, TalkOK
<1> QED
  BY <1>1, <1>2, SettingStays, NamesStay, CatalogStays, BlocksStay, KindsStay, ListingStays,
     HeardStays, AnswerStays, KeptStays DEF DosInv

LEMMA DriveResetKeeps ==
    ASSUME DosConstants, DosInv, Reset
    PROVE  DosInv'
<1>0. BlockSize \in Nat /\ 0 \in 0..(BlockSize - 1)
  BY DEF DosConstants
<1>1. UNCHANGED <<dialogue, memory, disk, kept>>
  BY DEF Reset
<1>2. NamesOK'
  BY <1>1 DEF Reset, Map!Reset, Map!InitialState, NamesOK, Dialogue
<1>3. CatalogOK'
  <2>1. catalog' = [e \in Map!Entries |-> Map!EmptyEntry]
    BY DEF Reset, Map!Reset, Map!InitialState
  <2>2. Map!EmptyEntry \in FileRecords /\ Map!EmptyEntry.used = FALSE
    BY DEF Map!EmptyEntry, FileRecords
  <2>3. catalog' \in [Map!Entries -> FileRecords] /\ \A e \in Map!Entries : ~ catalog'[e].used
    BY <2>1, <2>2
  <2> QED
    BY <1>1, <2>3 DEF CatalogOK, FileRecords, Dialogue
<1>4. BlocksOK'
  <2>1. buffer' = FreshBuffer /\ pos' = [ch \in Channels |-> 0]
    BY DEF Reset, Fresh
  <2> QED
    BY <1>0, <1>1, <2>1 DEF DosInv, BlocksOK, IsBlock, FreshBuffer, Dialogue
<1>5. KindsOK'
  <2>1. openKind' = [ch \in Channels |-> PlainKind] /\ PlainKind.type \in KindTypes
    BY DEF Reset, Fresh, PlainKind, KindTypes
  <2> QED
    BY <2>1 DEF KindsOK
<1>6. TalkOK'
  BY DEF Reset, TalkOK
<1>7. ListingOK'
  BY <1>1 DEF Reset, FreshListing, NoFilters, ListingOK, FiltersOK, PatternsOf
<1>8. HeardOK'
  BY EmptyIsSeq, SentIsHeard DEF Reset
<1>9. AnswerOK'
  BY EmptyIsSeq DEF Reset, AnswerOK
<1> QED
  BY <1>1, <1>2, <1>3, <1>4, <1>5, <1>6, <1>7, <1>8, <1>9, SettingStays, KeptStays DEF DosInv

-----------------------------------------------------------------------------
(* The theorems.                                                           *)

LEMMA DosInvIsEnough ==
    ASSUME DosConstants, DosInv
    PROVE  DosAnswers
<1>0. BlockSize \in Nat /\ DialogueOK(Dialogue) /\ NoName = <<>>
  BY DialogueHolds DEF DosConstants, DosInv, SettingOK
<1>1. DosTypeOK
  <2>1. Len(buffer) = BlockSize /\ \A a \in Addresses : Len(disk[a]) = BlockSize
    BY <1>0, BlockLength DEF DosInv, BlocksOK
  <2>2. \A ch \in Channels : pos[ch] \in 0..(BlockSize - 1) /\ openKind[ch].type \in KindTypes
    BY DEF DosInv, BlocksOK, KindsOK
  <2> QED
    BY <2>1, <2>2 DEF DosTypeOK, DosInv, TalkOK, KindTypes
<1>2. WildcardsExact
  <2>1. \A text \in Dialogue.texts : text \in TextsOf(Dialogue)
    BY DEF TextsOf
  <2>2. listing.filters.pattern \in PatternsOf(Dialogue)
    BY DEF DosInv, ListingOK, FiltersOK
  <2> QED
    BY <1>0, <2>1, <2>2, TextMeans DEF WildcardsExact
<1> QED
  BY <1>1, <1>2 DEF DosAnswers, DosInv, HeardOK, KeptOK

LEMMA DosStepKeeps ==
    ASSUME DosConstants, DosInv, [DosNext]_dosVars
    PROVE  DosInv'
<1>0. DialogueOK(Dialogue)
  BY DialogueHolds DEF DosInv, SettingOK
<1>1. CASE UNCHANGED dosVars
  <2>1. UNCHANGED <<dialogue, openName, catalog, memory, disk, buffer, pos, openKind, talk, listing,
                    response, tx, heard, promised, asked, kept>>
    BY <1>1 DEF dosVars, mapVars, store, kinds, talking, history
  <2> QED
    BY <2>1, SettingStays, NamesStay, CatalogStays, BlocksStay, KindsStay, TalkStays, ListingStays,
       HeardStays, AnswerStays, KeptStays DEF DosInv
<1>2. CASE Listen
  BY <1>2, ListenKeeps
<1>3. ASSUME NEW ch \in Dialogue.opens, OpenSecondary(ch) \/ Close(ch) PROVE DosInv'
  BY <1>3, OpenSecondaryKeeps, CloseKeeps
<1>4. ASSUME NEW spec \in Dialogue.specs, Unlisten(spec.name, spec.words) PROVE DosInv'
  BY <1>4, UnlistenKeeps
<1>5. CASE MemoryRead \/ MemoryWrite
  BY <1>5, MemoryReadKeeps, MemoryWriteKeeps
<1>6. CASE StatusOnly \/ BufferPointer
  BY <1>6, StatusOnlyKeeps, BufferPointerKeeps
<1>7. ASSUME NEW ch \in Dialogue.blockChannels, NEW a \in Dialogue.blocks,
             BlockAllocate(ch, a) \/ BlockWrite(ch, a)
      PROVE  DosInv'
  <2>1. a \in Addresses
    BY <1>0 DEF DialogueOK
  <2> QED
    BY <1>7, <2>1, BlockAllocateKeeps, BlockWriteKeeps
<1>8. ASSUME NEW a \in Dialogue.blocks, BlockFree(a) \/ BlockRead(a) PROVE DosInv'
  <2>1. a \in Addresses
    BY <1>0 DEF DialogueOK
  <2> QED
    BY <1>8, <2>1, BlockFreeKeeps, BlockReadKeeps
<1>9. CASE TalkLoad \/ TalkCommand
  BY <1>9, TalkLoadKeeps, TalkCommandKeeps
<1>10. CASE HostReads \/ Untalk
  BY <1>10, HostReadsKeeps, UntalkKeeps
<1>11. CASE Reset
  BY <1>11, DriveResetKeeps
<1>12. ASSUME NEW ch \in Dialogue.opens, TalkElsewhere(ch) PROVE DosInv'
  <2>1. ch \in Channels
    BY <1>0 DEF DialogueOK
  <2> QED
    BY <1>12, <2>1, TalkElsewhereKeeps
<1> QED
  BY <1>1, <1>2, <1>3, <1>4, <1>5, <1>6, <1>7, <1>8, <1>9, <1>10, <1>11, <1>12 DEF DosNext

\* The invariant of the command channel holds.
THEOREM DosInvariant == ASSUME DosConstants PROVE DosSpec => []DosInv
<1>1. DosInit => DosInv
  BY InitDos
<1>2. DosInv /\ [DosNext]_dosVars => DosInv'
  BY DosStepKeeps
<1> QED
  BY <1>1, <1>2, PTL DEF DosSpec

\* Command channel: for every set of dialogues, names, patterns and blocks, the host hears what
\* it asked for, a pattern selects the names it means, and a block that was written comes back.
THEOREM DosCorrect == ASSUME DosConstants PROVE DosSpec => []DosAnswers
<1>1. DosInv => DosAnswers
  BY DosInvIsEnough
<1> QED
  BY <1>1, DosInvariant, PTL

-----------------------------------------------------------------------------
(* Images.  The blocks of a file lie one after the other in the order of   *)
(* their addresses: the sectors of the tracks before, added up, are the    *)
(* number of the blocks before.                                            *)

LEMMA SumsExist ==
    ASSUME ImageConstants
    PROVE  /\ SectorsUpTo[0] = 0
           /\ \A t \in 1..TrackCount : SectorsUpTo[t] = SectorsUpTo[t - 1] + SectorsOf[t]
<1> DEFINE S == Nat \X Nat
           step == [p \in S |-> <<p[1] + 1,
                                  p[2] + IF p[1] + 1 \in DOMAIN SectorsOf THEN SectorsOf[p[1] + 1] ELSE 0>>]
           IsSum(f) == f = [t \in 0..TrackCount |-> IF t = 0 THEN 0 ELSE f[t - 1] + SectorsOf[t]]
<1>1. TrackCount \in Nat /\ DOMAIN SectorsOf = 1..TrackCount /\ \A t \in 1..TrackCount : SectorsOf[t] \in Nat
  BY DEF ImageConstants, TrackCount
<1>2. CanRepeat(S, <<0, 0>>, step)
  <2>1. ASSUME NEW p \in S PROVE step[p] \in S
    <3>1. p[1] \in Nat /\ p[2] \in Nat /\ p[1] + 1 \in Nat
      OBVIOUS
    <3>2. (IF p[1] + 1 \in DOMAIN SectorsOf THEN SectorsOf[p[1] + 1] ELSE 0) \in Nat
      BY <1>1
    <3> QED
      BY <3>1, <3>2
  <2>2. <<0, 0>> \in S
    OBVIOUS
  <2>3. step \in [S -> S]
    BY <2>1
  <2> HIDE DEF S, step
  <2> QED
    BY <2>2, <2>3 DEF CanRepeat
<1>3. PICK g : Repeats(g, <<0, 0>>, step)
  BY <1>2, TurnsFunction
<1>4. \A k \in Nat : g[k] \in S /\ g[k][1] = k
  <2> DEFINE Bad == {k \in Nat : ~ (g[k] \in S /\ g[k][1] = k)}
  <2>1. SUFFICES ASSUME Bad # {} PROVE FALSE
    OBVIOUS
  <2>2. PICK k \in Bad : \A i \in Bad : k <= i
    BY <2>1, LeastNumber
  <2>3. k \in Nat /\ k # 0
    <3>1. g[0] = <<0, 0>>
      BY <1>3 DEF Repeats
    <3>2. <<0, 0>> \in S /\ <<0, 0>>[1] = 0
      OBVIOUS
    <3> HIDE DEF S
    <3> QED
      BY <2>2, <3>1, <3>2
  <2>4. k - 1 \in Nat /\ ~ (k <= k - 1)
    BY <2>3
  <2>5. g[k - 1] \in S /\ g[k - 1][1] = k - 1
    BY <2>2, <2>4
  <2>6. g[k] = step[g[k - 1]]
    BY <1>3, <2>3 DEF Repeats
  <2>7. g[k] \in S
    BY <1>2, <2>5, <2>6 DEF CanRepeat
  <2>8. g[k][1] = k
    BY <2>3, <2>5, <2>6
  <2> QED
    BY <2>2, <2>7, <2>8
<1> DEFINE f == [t \in 0..TrackCount |-> g[t][2]]
<1>5. IsSum(f)
  <2>1. f[0] = 0
    BY <1>1, <1>3 DEF Repeats
  <2>2. ASSUME NEW t \in 1..TrackCount PROVE f[t] = f[t - 1] + SectorsOf[t]
    <3>1. t \in Nat \ {0} /\ t - 1 \in Nat /\ (t - 1) + 1 = t /\ t \in 0..TrackCount /\ t - 1 \in 0..TrackCount
      BY <1>1
    <3>2. g[t] = step[g[t - 1]] /\ g[t - 1] \in S /\ g[t - 1][1] = t - 1
      BY <1>3, <1>4, <3>1 DEF Repeats
    <3>3. step[g[t - 1]][2] = g[t - 1][2] + SectorsOf[t]
      BY <1>1, <3>1, <3>2
    <3> QED
      BY <3>1, <3>2, <3>3
  <2>3. f = [t \in 0..TrackCount |-> f[t]]
    OBVIOUS
  <2>4. \A t \in 0..TrackCount : t = 0 \/ t \in 1..TrackCount
    BY <1>1
  <2> HIDE DEF f
  <2>5. \A t \in 0..TrackCount : f[t] = IF t = 0 THEN 0 ELSE f[t - 1] + SectorsOf[t]
    BY <2>1, <2>2, <2>4
  <2> QED
    BY <2>3, <2>5
<1> HIDE DEF f
<1>6. IsSum(SectorsUpTo)
  BY <1>5 DEF SectorsUpTo
<1> DEFINE u == SectorsUpTo
<1>7. u = [t \in 0..TrackCount |-> IF t = 0 THEN 0 ELSE u[t - 1] + SectorsOf[t]]
  BY <1>6
<1> HIDE DEF u
<1>8. u[0] = 0
  BY <1>1, <1>7
<1>9. \A t \in 1..TrackCount : u[t] = u[t - 1] + SectorsOf[t]
  BY <1>1, <1>7
<1> QED
  BY <1>8, <1>9 DEF u
LEMMA SumsTyped ==
    ASSUME ImageConstants
    PROVE  \A t \in 0..TrackCount : SectorsUpTo[t] \in Nat
<1>1. TrackCount \in Nat /\ \A t \in 1..TrackCount : SectorsOf[t] \in Nat
  BY DEF ImageConstants, TrackCount
<1> DEFINE Bad == {t \in 0..TrackCount : SectorsUpTo[t] \notin Nat}
<1>2. SUFFICES ASSUME Bad # {} PROVE FALSE
  OBVIOUS
<1>3. PICK t \in Bad : \A i \in Bad : t <= i
  <2>1. Bad \subseteq Nat
    OBVIOUS
  <2> QED
    BY <1>2, <2>1, LeastNumber
<1>4. t \in 1..TrackCount
  BY <1>1, <1>3, SumsExist
<1>5. t - 1 \in 0..TrackCount /\ ~ (t <= t - 1)
  BY <1>1, <1>4
<1>6. SectorsUpTo[t - 1] \in Nat
  BY <1>3, <1>5
<1> QED
  BY <1>1, <1>3, <1>4, <1>6, SumsExist

LEMMA AddressIs ==
    ASSUME ImageConstants
    PROVE  /\ \A a \in ImageAddresses :
                /\ a = <<a[1], a[2]>> /\ a[1] \in 1..TrackCount /\ a[2] \in 0..(SectorsOf[a[1]] - 1)
                /\ a \in Nat \X Nat /\ ValidChs(a)
           /\ \A t \in 1..TrackCount : \A s \in 0..(SectorsOf[t] - 1) : <<t, s>> \in ImageAddresses
           /\ \A a \in Nat \X Nat : ValidChs(a) => a \in ImageAddresses
<1>1. TrackCount \in Nat /\ DOMAIN SectorsOf = 1..TrackCount /\ \A t \in 1..TrackCount : SectorsOf[t] \in Nat
  BY DEF ImageConstants, TrackCount
<1>2. ASSUME NEW a \in ImageAddresses
      PROVE  /\ a = <<a[1], a[2]>> /\ a[1] \in 1..TrackCount /\ a[2] \in 0..(SectorsOf[a[1]] - 1)
             /\ a \in Nat \X Nat /\ ValidChs(a)
  <2>1. PICK t \in 1..TrackCount : a \in {t} \X (0..(SectorsOf[t] - 1))
    BY <1>1 DEF ImageAddresses
  <2>2. a = <<a[1], a[2]>> /\ a[1] = t /\ a[2] \in 0..(SectorsOf[t] - 1) /\ SectorsOf[t] \in Nat
    BY <1>1, <2>1
  <2> QED
    BY <1>1, <2>2 DEF ValidChs
<1>3. ASSUME NEW t \in 1..TrackCount, NEW s \in 0..(SectorsOf[t] - 1)
      PROVE  <<t, s>> \in ImageAddresses
  BY <1>1 DEF ImageAddresses
<1>4. ASSUME NEW a \in Nat \X Nat, ValidChs(a)
      PROVE  a \in ImageAddresses
  <2>1. a = <<a[1], a[2]>> /\ a[1] \in 1..TrackCount /\ a[2] \in Nat /\ a[2] < SectorsOf[a[1]] /\ SectorsOf[a[1]] \in Nat
    BY <1>1, <1>4 DEF ValidChs
  <2>2. a[2] \in 0..(SectorsOf[a[1]] - 1)
    BY <2>1
  <2> QED
    BY <1>3, <2>1, <2>2
<1> QED
  BY <1>2, <1>3, <1>4

\* The blocks of the tracks up to one, and those of a track up to a sector.
OfTracks(t) == {b \in ImageAddresses : b[1] <= t}

LEMMA SectorsCounted ==
    ASSUME NEW t, NEW m \in Nat
    PROVE  IsFiniteSet({t} \X (0..(m - 1))) /\ Cardinality({t} \X (0..(m - 1))) = m
<1>1. IsFiniteSet({t}) /\ Cardinality({t}) = 1
  BY FS_Singleton
<1>2. IsFiniteSet(0..(m - 1)) /\ Cardinality(0..(m - 1)) = m
  BY FS_Interval
<1>3. IsFiniteSet({t} \X (0..(m - 1))) /\ Cardinality({t} \X (0..(m - 1))) = 1 * m
  BY <1>1, <1>2, FS_Product
<1> QED
  BY <1>3

LEMMA TracksCounted ==
    ASSUME ImageConstants
    PROVE  \A t \in 0..TrackCount : IsFiniteSet(OfTracks(t)) /\ Cardinality(OfTracks(t)) = SectorsUpTo[t]
<1>1. TrackCount \in Nat /\ \A t \in 1..TrackCount : SectorsOf[t] \in Nat
  BY DEF ImageConstants, TrackCount
<1> DEFINE Bad == {t \in 0..TrackCount : ~ (IsFiniteSet(OfTracks(t)) /\ Cardinality(OfTracks(t)) = SectorsUpTo[t])}
<1>2. SUFFICES ASSUME Bad # {} PROVE FALSE
  OBVIOUS
<1>3. PICK t \in Bad : \A i \in Bad : t <= i
  <2>1. Bad \subseteq Nat
    OBVIOUS
  <2> QED
    BY <1>2, <2>1, LeastNumber
<1>4. OfTracks(0) = {}
  BY <1>1, AddressIs DEF OfTracks
<1>5. t \in 1..TrackCount
  <2>1. IsFiniteSet(OfTracks(0)) /\ Cardinality(OfTracks(0)) = SectorsUpTo[0]
    BY <1>4, SumsExist, FS_EmptySet
  <2>2. t # 0
    BY <1>3, <2>1
  <2> QED
    BY <1>1, <1>3, <2>2
<1>6. t - 1 \in 0..TrackCount /\ ~ (t <= t - 1)
  BY <1>1, <1>5
<1> DEFINE own == {t} \X (0..(SectorsOf[t] - 1))
<1>7. IsFiniteSet(OfTracks(t - 1)) /\ Cardinality(OfTracks(t - 1)) = SectorsUpTo[t - 1]
  BY <1>3, <1>6
<1>8. IsFiniteSet(own) /\ Cardinality(own) = SectorsOf[t]
  BY <1>1, <1>5, SectorsCounted
<1>9. OfTracks(t) = OfTracks(t - 1) \cup own
  <2>1. ASSUME NEW a \in OfTracks(t) PROVE a \in OfTracks(t - 1) \cup own
    <3>1. a \in ImageAddresses /\ a[1] <= t /\ a[1] \in Nat /\ a = <<a[1], a[2]>> /\ a[2] \in 0..(SectorsOf[a[1]] - 1)
      BY AddressIs DEF OfTracks
    <3>2. a[1] <= t - 1 \/ a[1] = t
      BY <1>5, <3>1
    <3> QED
      BY <3>1, <3>2 DEF OfTracks
  <2>2. ASSUME NEW a \in OfTracks(t - 1) PROVE a \in OfTracks(t)
    <3>1. a \in ImageAddresses /\ a[1] <= t - 1 /\ a[1] \in Nat
      BY AddressIs DEF OfTracks
    <3> QED
      BY <1>5, <3>1 DEF OfTracks
  <2>3. ASSUME NEW a \in own PROVE a \in OfTracks(t)
    <3>1. a = <<t, a[2]>> /\ a[1] = t /\ a[2] \in 0..(SectorsOf[t] - 1)
      OBVIOUS
    <3>2. a \in ImageAddresses
      BY <1>5, <3>1, AddressIs
    <3> QED
      BY <1>5, <3>1, <3>2 DEF OfTracks
  <2> QED
    BY <2>1, <2>2, <2>3
<1>10. OfTracks(t - 1) \cap own = {}
  <2>1. ASSUME NEW a \in OfTracks(t - 1), a \in own PROVE FALSE
    <3>1. a[1] <= t - 1 /\ a[1] = t
      BY <2>1 DEF OfTracks
    <3> QED
      BY <1>5, <3>1
  <2> QED
    BY <2>1
<1> HIDE DEF own
<1>11. IsFiniteSet(OfTracks(t)) /\ Cardinality(OfTracks(t)) = SectorsUpTo[t - 1] + SectorsOf[t] - 0
  BY <1>7, <1>8, <1>9, <1>10, FS_Union, FS_EmptySet
<1>12. SectorsUpTo[t] = SectorsUpTo[t - 1] + SectorsOf[t] /\ SectorsUpTo[t - 1] \in Nat /\ SectorsOf[t] \in Nat
  BY <1>1, <1>5, <1>6, SumsExist, SumsTyped
<1> QED
  BY <1>3, <1>11, <1>12

LEMMA RankIs ==
    ASSUME ImageConstants, NEW a \in ImageAddresses
    PROVE  /\ IsFiniteSet({b \in ImageAddresses : Before(b, a)})
           /\ Rank(a) = SectorsUpTo[a[1] - 1] + a[2]
           /\ Rank(a) \in Nat
<1> DEFINE t == a[1]
           own == {t} \X (0..(a[2] - 1))
           before == {b \in ImageAddresses : Before(b, a)}
<1>1. a = <<t, a[2]>> /\ t \in 1..TrackCount /\ a[2] \in 0..(SectorsOf[t] - 1) /\ a[2] \in Nat /\ TrackCount \in Nat
      /\ SectorsOf[t] \in Nat
  <2>1. TrackCount \in Nat /\ \A u \in 1..TrackCount : SectorsOf[u] \in Nat
    BY DEF ImageConstants, TrackCount
  <2> QED
    BY <2>1, AddressIs
<1>2. t - 1 \in 0..TrackCount
  BY <1>1
<1>3. before = OfTracks(t - 1) \cup own
  <2>1. ASSUME NEW b \in before PROVE b \in OfTracks(t - 1) \cup own
    <3>1. b \in ImageAddresses /\ b = <<b[1], b[2]>> /\ b[1] \in Nat /\ b[2] \in Nat /\ Before(b, a)
      BY AddressIs
    <3>2. b[1] < t \/ (b[1] = t /\ b[2] < a[2])
      BY <3>1 DEF Before
    <3>3. CASE b[1] < t
      <4>1. b[1] <= t - 1
        BY <1>1, <3>1, <3>3
      <4> QED
        BY <3>1, <4>1 DEF OfTracks
    <3>4. CASE b[1] = t /\ b[2] < a[2]
      <4>1. b[2] \in 0..(a[2] - 1)
        BY <1>1, <3>1, <3>4
      <4> QED
        BY <3>1, <3>4, <4>1
    <3> QED
      BY <3>2, <3>3, <3>4
  <2>2. ASSUME NEW b \in OfTracks(t - 1) PROVE b \in before
    <3>1. b \in ImageAddresses /\ b[1] <= t - 1 /\ b[1] \in Nat
      BY AddressIs DEF OfTracks
    <3>2. b[1] < t
      BY <1>1, <3>1
    <3> QED
      BY <3>1, <3>2 DEF Before
  <2>3. ASSUME NEW b \in own PROVE b \in before
    <3>1. b = <<t, b[2]>> /\ b[1] = t /\ b[2] \in 0..(a[2] - 1)
      OBVIOUS
    <3>2. b[2] < a[2] /\ b[2] \in 0..(SectorsOf[t] - 1)
      BY <1>1, <3>1
    <3>3. b \in ImageAddresses
      BY <1>1, <3>1, <3>2, AddressIs
    <3> QED
      BY <3>1, <3>2, <3>3 DEF Before
  <2> QED
    BY <2>1, <2>2, <2>3
<1>4. OfTracks(t - 1) \cap own = {}
  <2>1. ASSUME NEW b \in OfTracks(t - 1), b \in own PROVE FALSE
    <3>1. b[1] <= t - 1 /\ b[1] = t
      BY <2>1 DEF OfTracks
    <3> QED
      BY <1>1, <3>1
  <2> QED
    BY <2>1
<1>5. IsFiniteSet(OfTracks(t - 1)) /\ Cardinality(OfTracks(t - 1)) = SectorsUpTo[t - 1]
  BY <1>2, TracksCounted
<1>6. IsFiniteSet(own) /\ Cardinality(own) = a[2]
  BY <1>1, SectorsCounted
<1>7. Rank(a) = Cardinality(before)
  BY DEF Rank
<1>8. SectorsUpTo[t - 1] \in Nat
  BY <1>2, SumsTyped
<1> HIDE DEF own, before
<1>9. IsFiniteSet(before) /\ Cardinality(before) = SectorsUpTo[t - 1] + a[2] - 0
  BY <1>3, <1>4, <1>5, <1>6, FS_Union, FS_EmptySet
<1>10. IsFiniteSet(before) /\ Cardinality(before) = SectorsUpTo[t - 1] + a[2]
  BY <1>1, <1>8, <1>9
<1> QED
  BY <1>1, <1>7, <1>8, <1>10 DEF before, t

LEMMA BlockLong ==
    ASSUME ImageConstants
    PROVE  ImageBlock \in Nat /\ ImageBlock > 0 /\ 0 \in Within /\ 1 \in Within
<1>1. ImageBlock \in Nat \ {0, 1}
  BY DEF ImageConstants
<1> QED
  BY <1>1 DEF Within

LEMMA OffsetIs ==
    ASSUME ImageConstants, NEW a \in ImageAddresses
    PROVE  Offset(a) = Rank(a) * ImageBlock /\ Offset(a) \in Nat
<1>1. Offset(a) = Rank(a) * ImageBlock
  BY RankIs DEF Offset
<1>2. Rank(a) \in Nat /\ ImageBlock \in Nat
  BY RankIs, BlockLong
<1>3. Rank(a) * ImageBlock \in Nat
  BY <1>2
<1> QED
  BY <1>1, <1>3

\* Different blocks have no byte in common.
LEMMA RankGrows ==
    ASSUME ImageConstants, NEW a \in ImageAddresses, NEW b \in ImageAddresses, Before(b, a)
    PROVE  Rank(b) + 1 <= Rank(a)
<1> DEFINE A == {c \in ImageAddresses : Before(c, a)}
           B == {c \in ImageAddresses : Before(c, b)}
<1>1. IsFiniteSet(A) /\ IsFiniteSet(B) /\ Rank(a) = Cardinality(A) /\ Rank(b) = Cardinality(B) /\ Rank(b) \in Nat
  BY RankIs DEF Rank
<1>2. a[1] \in Nat /\ a[2] \in Nat /\ b[1] \in Nat /\ b[2] \in Nat
  BY AddressIs
<1>3. b \notin B
  BY <1>2 DEF Before
<1>4. B \cup {b} \subseteq A
  <2>1. ASSUME NEW c \in B PROVE c \in A
    <3>1. c \in ImageAddresses /\ Before(c, b) /\ c[1] \in Nat /\ c[2] \in Nat
      BY AddressIs
    <3>2. Before(c, a)
      BY <1>2, <3>1 DEF Before
    <3> QED
      BY <3>1, <3>2
  <2> QED
    BY <2>1
<1> HIDE DEF A, B
<1>5. Cardinality(B \cup {b}) = Cardinality(B) + 1
  BY <1>1, <1>3, FS_AddElement
<1>6. Cardinality(B \cup {b}) <= Cardinality(A)
  BY <1>1, <1>4, FS_Subset
<1> QED
  BY <1>1, <1>5, <1>6

LEMMA RankDiffers ==
    ASSUME ImageConstants, NEW a \in ImageAddresses, NEW b \in ImageAddresses, a # b
    PROVE  Rank(b) + 1 <= Rank(a) \/ Rank(a) + 1 <= Rank(b)
<1>1. a = <<a[1], a[2]>> /\ b = <<b[1], b[2]>> /\ a[1] \in Nat /\ a[2] \in Nat /\ b[1] \in Nat /\ b[2] \in Nat
  BY AddressIs
<1>2. Before(a, b) \/ Before(b, a)
  BY <1>1 DEF Before
<1> QED
  BY <1>2, RankGrows

LEMMA TimesKeepsOrder ==
    ASSUME NEW r \in Nat, NEW q \in Nat, NEW n \in Nat, r + 1 <= q
    PROVE  r * n + n <= q * n /\ r * n \in Nat /\ q * n \in Nat
<1>1. PICK d \in Nat : q = r + 1 + d
  <2>1. q - (r + 1) \in Nat /\ q = r + 1 + (q - (r + 1))
    OBVIOUS
  <2> QED
    BY <2>1
<1>2. q * n = r * n + n + d * n
  BY <1>1
<1>3. d * n \in Nat /\ r * n \in Nat /\ q * n \in Nat
  OBVIOUS
<1> QED
  BY <1>2, <1>3

LEMMA BlocksApart ==
    ASSUME ImageConstants, NEW a \in ImageAddresses, NEW b \in ImageAddresses, a # b,
           NEW i \in Within, NEW j \in Within
    PROVE  Rank(a) * ImageBlock + i # Rank(b) * ImageBlock + j
<1>1. Rank(a) \in Nat /\ Rank(b) \in Nat /\ ImageBlock \in Nat /\ i \in Int /\ j \in Int
      /\ 0 <= i /\ i < ImageBlock /\ 0 <= j /\ j < ImageBlock
  <2>1. ImageBlock \in Nat /\ i \in 0..(ImageBlock - 1) /\ j \in 0..(ImageBlock - 1)
    BY BlockLong DEF Within
  <2>2. Rank(a) \in Nat /\ Rank(b) \in Nat
    BY RankIs
  <2> QED
    BY <2>1, <2>2
<1> DEFINE r == Rank(a)
           q == Rank(b)
           n == ImageBlock
<1>2. r + 1 <= q \/ q + 1 <= r
  BY <1>1, RankDiffers
<1>3. CASE r + 1 <= q
  <2>1. r * n + n <= q * n /\ r * n \in Nat /\ q * n \in Nat
    BY <1>1, <1>3, TimesKeepsOrder
  <2> HIDE DEF r, q, n
  <2> QED
    BY <1>1, <2>1 DEF r, q, n
<1>4. CASE q + 1 <= r
  <2>1. q * n + n <= r * n /\ r * n \in Nat /\ q * n \in Nat
    BY <1>1, <1>4, TimesKeepsOrder
  <2> QED
    BY <1>1, <2>1
<1> QED
  BY <1>2, <1>3, <1>4
-----------------------------------------------------------------------------
(* Bytes stay bytes.                                                       *)

IsBytes(block) == block \in [Within -> Bytes256]

LEMMA XorIsByte ==
    ASSUME NEW v \in Nat, NEW w \in Nat
    PROVE  Xor(v, w) \in Bytes256
BY DEF Xor, FromBits, Worth, BitWeights, Bytes256

LEMMA RotatedIsByte ==
    ASSUME NEW v \in Bytes256, NEW n \in 1..7
    PROVE  RotateRight(v, n) \in Bytes256
<1>1. /\ BitWeights[1] = 1 /\ BitWeights[2] = 2 /\ BitWeights[3] = 4 /\ BitWeights[4] = 8
      /\ BitWeights[5] = 16 /\ BitWeights[6] = 32 /\ BitWeights[7] = 64 /\ BitWeights[8] = 128
  BY DEF BitWeights
<1>2. v \in 0..255
  BY DEF Bytes256
<1>3. CASE n = 1
  <2>1. v \div 2 \in 0..127 /\ v % 2 \in 0..1
    BY <1>2
  <2>2. RotateRight(v, n) = (v \div 2) + (v % 2) * 128
    BY <1>1, <1>3 DEF RotateRight
  <2> QED
    BY <2>1, <2>2 DEF Bytes256
<1>4. CASE n = 2
  <2>1. v \div 4 \in 0..63 /\ v % 4 \in 0..3
    BY <1>2
  <2>2. RotateRight(v, n) = (v \div 4) + (v % 4) * 64
    BY <1>1, <1>4 DEF RotateRight
  <2> QED
    BY <2>1, <2>2 DEF Bytes256
<1>5. CASE n = 3
  <2>1. v \div 8 \in 0..31 /\ v % 8 \in 0..7
    BY <1>2
  <2>2. RotateRight(v, n) = (v \div 8) + (v % 8) * 32
    BY <1>1, <1>5 DEF RotateRight
  <2> QED
    BY <2>1, <2>2 DEF Bytes256
<1>6. CASE n = 4
  <2>1. v \div 16 \in 0..15 /\ v % 16 \in 0..15
    BY <1>2
  <2>2. RotateRight(v, n) = (v \div 16) + (v % 16) * 16
    BY <1>1, <1>6 DEF RotateRight
  <2> QED
    BY <2>1, <2>2 DEF Bytes256
<1>7. CASE n = 5
  <2>1. v \div 32 \in 0..7 /\ v % 32 \in 0..31
    BY <1>2
  <2>2. RotateRight(v, n) = (v \div 32) + (v % 32) * 8
    BY <1>1, <1>7 DEF RotateRight
  <2> QED
    BY <2>1, <2>2 DEF Bytes256
<1>8. CASE n = 6
  <2>1. v \div 64 \in 0..3 /\ v % 64 \in 0..63
    BY <1>2
  <2>2. RotateRight(v, n) = (v \div 64) + (v % 64) * 4
    BY <1>1, <1>8 DEF RotateRight
  <2> QED
    BY <2>1, <2>2 DEF Bytes256
<1>9. CASE n = 7
  <2>1. v \div 128 \in 0..1 /\ v % 128 \in 0..127
    BY <1>2
  <2>2. RotateRight(v, n) = (v \div 128) + (v % 128) * 2
    BY <1>1, <1>9 DEF RotateRight
  <2> QED
    BY <2>1, <2>2 DEF Bytes256
<1> QED
  BY <1>3, <1>4, <1>5, <1>6, <1>7, <1>8, <1>9

LEMMA ZonesFew ==
    ASSUME ImageConstants, NEW t
    PROVE  ZoneOf(t) + 1 \in 1..7
<1> DEFINE passed == {k \in DOMAIN ImageZones : t > ImageZones[k]}
           n == Len(ImageZones)
<1>1. n \in Nat /\ n < 7 /\ DOMAIN ImageZones = 1..n
  BY DEF ImageConstants
<1>2. IsFiniteSet(1..n) /\ Cardinality(1..n) = n
  <2>1. Len(ImageZones) \in Int /\ 1 \in Int
    BY <1>1
  <2>2. IsFiniteSet(1..n) /\ Cardinality(1..n) = IF 1 > n THEN 0 ELSE n - 1 + 1
    BY <2>1, FS_Interval
  <2> QED
    BY <1>1, <2>2
<1>3. passed \subseteq 1..n
  BY <1>1
<1> HIDE DEF passed, n
<1>4. IsFiniteSet(passed) /\ Cardinality(passed) <= n
  BY <1>2, <1>3, FS_Subset
<1>5. Cardinality(passed) \in Nat
  BY <1>4, FS_CardinalityType
<1>6. ZoneOf(t) = Cardinality(passed)
  BY DEF ZoneOf, passed
<1> QED
  BY <1>1, <1>4, <1>5, <1>6

LEMMA ZonedIsBytes ==
    ASSUME ImageConstants, NEW t, NEW block, IsBytes(block)
    PROVE  IsBytes(Zoned(t, block))
<1>1. \A i \in Within : block[i] \in Bytes256
  BY DEF IsBytes
<1>2. \A i \in Within : RotateRight(block[i], ZoneOf(t) + 1) \in Bytes256
  BY <1>1, ZonesFew, RotatedIsByte
<1> QED
  BY <1>2 DEF Zoned, IsBytes

LEMMA CodesAre ==
    \A n \in 1..16 : GcrCode[n] \in 0..30
BY DEF GcrCode

LEMMA EncodedIsBytes ==
    ASSUME NEW a \in Nat \X Nat, NEW block, IsBytes(block)
    PROVE  IsBytes(Encode(a, block))
<1>1. ASSUME NEW i \in Within
      PROVE  Xor(Xor((GcrCode[(block[i] \div 16) + 1] * 8) % 256, GcrCode[(block[i] % 16) + 1]),
                 (a[1] + a[2]) % 32) \in Bytes256
  <2> DEFINE h == GcrCode[(block[i] \div 16) + 1]
             l == GcrCode[(block[i] % 16) + 1]
             s == a[1] + a[2]
  <2>1. block[i] \in 0..255
    BY DEF IsBytes, Bytes256
  <2>2. (block[i] \div 16) + 1 \in 1..16 /\ (block[i] % 16) + 1 \in 1..16
    BY <2>1
  <2>3. h \in 0..30 /\ l \in 0..30 /\ s \in Nat
    BY <2>2, CodesAre
  <2> HIDE DEF h, l, s
  <2>4. (h * 8) % 256 \in Nat /\ l \in Nat /\ s % 32 \in Nat
    BY <2>3
  <2>5. Xor((h * 8) % 256, l) \in Nat
    <3>1. Xor((h * 8) % 256, l) \in Bytes256
      BY <2>4, XorIsByte
    <3> QED
      BY <3>1 DEF Bytes256
  <2>6. Xor(Xor((h * 8) % 256, l), s % 32) \in Bytes256
    BY <2>4, <2>5, XorIsByte
  <2> QED
    BY <2>6 DEF h, l, s
<1> QED
  BY <1>1 DEF Encode, IsBytes

LEMMA WornIsBytes ==
    ASSUME NEW a \in Nat \X Nat, NEW block, IsBytes(block), NEW pass \in Nat, NEW mark
    PROVE  IsBytes(Worn(a, block, pass, mark))
<1> DEFINE bias == (((a[1] + a[2] + pass) % 3) + 1) * 3
           Spliced(i) == IF i % 32 = mark[1] THEN Xor(block[i], 17 + bias) ELSE block[i]
           Erased(i) == IF i % 17 = mark[2]
                        THEN LET b == Spliced(i) IN b - (b % 16) + ((b + pass + (bias % 4)) % 16)
                        ELSE Spliced(i)
           Shifted(i) == IF i % 41 = (a[2] + pass) % 32
                         THEN ((Erased(i) * 2) % 256) + (Erased(i) \div 128) ELSE Erased(i)
<1>1. bias \in Nat
  <2>1. a[1] + a[2] + pass \in Nat
    OBVIOUS
  <2> QED
    BY <2>1
<1>2. \A i \in Within : block[i] \in Bytes256
  BY DEF IsBytes
<1> HIDE DEF bias
<1>3. \A i \in Within : Spliced(i) \in Bytes256
  <2>1. \A i \in Within : block[i] \in Nat
    BY <1>2 DEF Bytes256
  <2>2. 17 + bias \in Nat
    BY <1>1
  <2>3. \A i \in Within : Xor(block[i], 17 + bias) \in Bytes256
    BY <2>1, <2>2, XorIsByte
  <2> QED
    BY <1>2, <2>3
<1> HIDE DEF Spliced
<1>4. \A i \in Within : Erased(i) \in Bytes256
  <2>1. ASSUME NEW b \in Bytes256 PROVE b - (b % 16) + ((b + pass + (bias % 4)) % 16) \in Bytes256
    <3>1. b \in 0..255 /\ b + pass + (bias % 4) \in Nat
      BY <1>1 DEF Bytes256
    <3>2. (b + pass + (bias % 4)) % 16 \in 0..15
      BY <3>1
    <3>3. b - (b % 16) \in 0..240
      BY <3>1
    <3> QED
      BY <3>2, <3>3 DEF Bytes256
  <2> QED
    BY <1>3, <2>1
<1> HIDE DEF Erased
<1>5. \A i \in Within : Shifted(i) \in Bytes256
  <2>1. ASSUME NEW b \in Bytes256 PROVE ((b * 2) % 256) + (b \div 128) \in Bytes256
    BY DEF Bytes256
  <2> QED
    BY <1>4, <2>1
<1>6. Worn(a, block, pass, mark) = IF Level4 /\ pass > 0 THEN [i \in Within |-> Shifted(i)] ELSE block
  BY DEF Worn, Shifted, Erased, Spliced, bias
<1> HIDE DEF Shifted
<1> QED
  BY <1>5, <1>6 DEF IsBytes

LEMMA OnDiskIsBytes ==
    ASSUME ImageConstants, NEW a \in Nat \X Nat, NEW block, IsBytes(block), NEW pass \in Nat, NEW mark
    PROVE  IsBytes(OnDisk(a, block, pass, mark))
<1>1. IsBytes(Zoned(a[1], Encode(a, block)))
  BY EncodedIsBytes, ZonedIsBytes
<1>2. IsBytes(Worn(a, Zoned(a[1], Encode(a, block)), pass, mark))
  BY <1>1, WornIsBytes
<1> QED
  BY <1>2 DEF OnDisk
-----------------------------------------------------------------------------
(* The class of a block.  A block in sync has sync marks, which are no     *)
(* symbols, and a block without them has lost its sync: no block is shown  *)
(* without an error.                                                       *)

LEMMA SyncIsNoSymbol ==
    ASSUME ImageConstants, NEW block, NEW i \in Within, block[i] = 255
    PROVE  Lacks(block, i)
<1>1. ImageBlock \in Nat /\ ImageBlock > 0 /\ i \in 0..(ImageBlock - 1)
  BY BlockLong DEF Within
<1>2. i % ImageBlock = i
  BY <1>1
<1>3. Symbol(block, i) = 31
  <2>1. Symbol(block, i) = 255 % 32
    BY <1>2 DEF Symbol
  <2> QED
    BY <2>1
<1>4. \A n \in 1..16 : GcrCode[n] # 31
  BY CodesAre
<1>5. DOMAIN NibbleOf = {GcrCode[n] : n \in 1..16}
  BY DEF NibbleOf
<1> QED
  BY <1>3, <1>4, <1>5 DEF Lacks

LEMMA SomeInvalid ==
    ASSUME ImageConstants, NEW block
    PROVE  Invalid(block) \in Nat /\ (~ SyncLost(block) => Invalid(block) # 0)
<1> DEFINE pairs == {i \in Within : Lacks(block, 2 * i) \/ Lacks(block, 2 * i + 1)}
           singles == {i \in 0..(2 * ImageBlock - 1) : Lacks(block, i)}
<1>1. ImageBlock \in Nat /\ ImageBlock > 0
  BY BlockLong
<1>2. IsFiniteSet(0..(ImageBlock - 1)) /\ IsFiniteSet(0..(2 * ImageBlock - 1))
  <2>1. ImageBlock - 1 \in Int /\ 2 * ImageBlock - 1 \in Int /\ 0 \in Int
    BY <1>1
  <2> QED
    BY <2>1, FS_Interval
<1>3. IsFiniteSet(pairs) /\ IsFiniteSet(singles)
  <2>1. pairs \subseteq 0..(ImageBlock - 1) /\ singles \subseteq 0..(2 * ImageBlock - 1)
    BY DEF Within
  <2> HIDE DEF pairs, singles
  <2> QED
    BY <1>2, <2>1, FS_Subset
<1>4. ASSUME ~ SyncLost(block) PROVE pairs # {} /\ singles # {}
  <2>1. PICK i \in 0..(ImageBlock - 3) : \A j \in i..(i + 3 - 1) : block[j] \in {255}
    BY <1>4 DEF SyncLost, HasRun
  <2>2. i \in Within /\ i \in i..(i + 3 - 1) /\ i \in Nat
    BY <1>1, <2>1 DEF Within
  <2>3. Lacks(block, i)
    BY <2>1, <2>2, SyncIsNoSymbol
  <2>4. i \in 0..(2 * ImageBlock - 1)
    BY <1>1, <2>1
  <2>5. i \div 2 \in Within /\ (2 * (i \div 2) = i \/ 2 * (i \div 2) + 1 = i)
    BY <1>1, <2>1, <2>2 DEF Within
  <2>6. i \div 2 \in pairs
    BY <2>3, <2>5
  <2> QED
    BY <2>3, <2>4, <2>6
<1> HIDE DEF pairs, singles
<1>5. /\ Cardinality(pairs) \in Nat /\ Cardinality(singles) \in Nat
      /\ (~ SyncLost(block) => Cardinality(pairs) # 0 /\ Cardinality(singles) # 0)
  BY <1>3, <1>4, FS_CardinalityType, FS_EmptySet
<1>6. Invalid(block) = IF Level3 THEN Cardinality(pairs) ELSE Cardinality(singles)
  BY DEF Invalid, pairs, singles
<1> QED
  BY <1>5, <1>6

Classes == {HardErrors, SoftErrors}

LEMMA ClassIs ==
    ASSUME ImageConstants, NEW block
    PROVE  Class(block) \in Classes
<1> DEFINE n == Invalid(block)
<1>1. n \in Nat /\ (~ SyncLost(block) => n # 0)
  BY SomeInvalid
<1>2. n >= 5 \/ n \in 1..4 \/ (n = 0 /\ SyncLost(block))
  BY <1>1
<1>3. CASE n >= 5
  <2>1. ~ (n \in 1..4) /\ n # 0
    BY <1>1, <1>3
  <2> QED
    BY <1>3, <2>1 DEF Class, Classes
<1>4. CASE n \in 1..4
  <2>1. ~ (n >= 5)
    BY <1>4
  <2> QED
    BY <1>4, <2>1 DEF Class, Classes
<1>5. CASE n = 0 /\ SyncLost(block)
  <2>1. ~ (n >= 5)
    BY <1>5
  <2> QED
    BY <1>5, <2>1 DEF Class, Classes
<1> QED
  BY <1>2, <1>3, <1>4, <1>5

\* The class that is kept came as long ago as its confidence has gone down.
Recent(r, classes) ==
    \E k \in DOMAIN classes :
        /\ classes[k] = r.last
        /\ (Len(classes) - k) + r.confidence <= MaxConfidence
RelockOK(r, classes) ==
    /\ r = [last |-> r.last, confidence |-> r.confidence]
    /\ r.last \in Classes /\ r.confidence \in 0..MaxConfidence
    /\ classes \in Seq(Classes)
    /\ Recent(r, classes)

LEMMA LatelyKeeps ==
    ASSUME ImageConstants, NEW classes \in Seq(Classes), NEW r, r.confidence \in Nat, Recent(r, classes)
    PROVE  Lately(classes) \in Seq(Classes) /\ Recent(r, Lately(classes))
<1> DEFINE n == Len(classes)
           m == MaxConfidence
<1>1. n \in Nat /\ m \in Nat /\ DOMAIN classes = 1..n
  BY DEF ImageConstants
<1>2. PICK k \in 1..n : classes[k] = r.last /\ (n - k) + r.confidence <= m
  BY <1>1 DEF Recent
<1>3. CASE n > m
  <2> DEFINE s == SubSeq(classes, n - m, n)
  <2>1. n - m \in 1..n /\ n - m \in Int
    BY <1>1, <1>3
  <2>2. s \in Seq(Classes) /\ Len(s) = m + 1 /\ \A i \in 1..(m + 1) : s[i] = classes[(n - m) + i - 1]
    <3>1. /\ s \in Seq(Classes)
          /\ Len(s) = IF n - m <= n THEN n - (n - m) + 1 ELSE 0
          /\ \A i \in 1..(n - (n - m) + 1) : s[i] = classes[(n - m) + i - 1]
      <4>1. \A i \in (n - m)..n : classes[i] \in Classes
        BY <1>1, <2>1
      <4> QED
        BY <1>1, <2>1, <4>1, SubSeqProperties
    <3>2. n - (n - m) + 1 = m + 1 /\ n - m <= n
      BY <1>1
    <3> QED
      BY <3>1, <3>2
  <2> DEFINE j == k - (n - m) + 1
  <2>3. j \in 1..(m + 1) /\ (n - m) + j - 1 = k /\ ((m + 1) - j) = n - k
    BY <1>1, <1>2, <1>3
  <2>4. DOMAIN s = 1..(m + 1)
    BY <2>2
  <2>5. Lately(classes) = s
    BY <1>3 DEF Lately
  <2> HIDE DEF s, j
  <2>6. s[j] = r.last /\ (Len(s) - j) + r.confidence <= m
    BY <1>2, <2>2, <2>3
  <2> QED
    BY <2>2, <2>3, <2>4, <2>5, <2>6 DEF Recent
<1>4. CASE ~ (n > m)
  <2>1. Lately(classes) = SubSeq(classes, 1, n)
    BY <1>4 DEF Lately
  <2>2. SubSeq(classes, 1, n) = classes
    BY <1>1
  <2> QED
    BY <2>1, <2>2
<1> QED
  BY <1>3, <1>4

LEMMA RelockKeeps ==
    ASSUME ImageConstants, NEW r, NEW classes, NEW c \in Classes,
           RelockOK(r, classes) \/ (r = Unseen /\ classes = <<>>)
    PROVE  RelockOK(Relocked(r, c), Lately(Append(classes, c)))
<1> DEFINE longer == Append(classes, c)
           n == Len(classes)
           m == MaxConfidence
           q == Relocked(r, c)
<1>1. m \in Nat /\ m > 1
  BY DEF ImageConstants
<1>2. classes \in Seq(Classes)
  BY EmptySeq DEF RelockOK
<1>3. n \in Nat /\ longer \in Seq(Classes) /\ Len(longer) = n + 1 /\ longer[n + 1] = c
      /\ DOMAIN longer = 1..(n + 1) /\ \A k \in 1..n : longer[k] = classes[k]
  BY <1>2
<1>4. \A x \in Classes : x # 0
  BY DEF Classes, HardErrors, SoftErrors
<1> HIDE DEF longer
<1>5. /\ q = [last |-> q.last, confidence |-> q.confidence]
      /\ q.last \in Classes /\ q.confidence \in 0..m /\ Recent(q, longer)
  <2>1. CASE r = Unseen /\ classes = <<>>
    <3>1. q = [last |-> c, confidence |-> 2]
      BY <2>1 DEF Relocked, Unseen
    <3>2. Recent(q, longer)
      BY <1>1, <1>3, <3>1 DEF Recent
    <3> QED
      BY <1>1, <3>1, <3>2
  <2>2. CASE RelockOK(r, classes)
    <3>1. /\ r = [last |-> r.last, confidence |-> r.confidence]
          /\ r.last \in Classes /\ r.confidence \in 0..m /\ r.last # 0
      BY <1>4, <2>2 DEF RelockOK
    <3>2. PICK k \in 1..n : classes[k] = r.last /\ (n - k) + r.confidence <= m
      <4>1. DOMAIN classes = 1..n
        BY <1>2
      <4>2. \E k \in DOMAIN classes : classes[k] = r.last /\ (n - k) + r.confidence <= m
        BY <2>2 DEF RelockOK, Recent
      <4> QED
        BY <4>1, <4>2
    <3>3. CASE c = r.last
      <4>1. q = [last |-> c, confidence |-> IF r.confidence < m THEN r.confidence + 1 ELSE r.confidence]
        BY <3>1, <3>3 DEF Relocked
      <4>2. q.confidence \in 0..m /\ q.last = c
        BY <1>1, <3>1, <4>1
      <4>3. Recent(q, longer)
        BY <1>1, <1>3, <4>2 DEF Recent
      <4> QED
        BY <4>1, <4>2, <4>3
    <3>4. CASE c # r.last /\ r.confidence > 0
      <4>1. q = [last |-> r.last, confidence |-> r.confidence - 1]
        BY <3>1, <3>4 DEF Relocked
      <4>2. q.confidence \in 0..m /\ q.last = r.last /\ q.confidence = r.confidence - 1
        BY <1>1, <3>1, <3>4, <4>1
      <4>3. k \in 1..(n + 1) /\ longer[k] = q.last /\ ((n + 1) - k) + q.confidence <= m
        BY <1>1, <1>3, <3>1, <3>2, <4>2
      <4>4. Recent(q, longer)
        BY <1>3, <4>3 DEF Recent
      <4> QED
        BY <3>1, <4>1, <4>2, <4>4
    <3>5. CASE c # r.last /\ ~ (r.confidence > 0)
      <4>1. q = [last |-> c, confidence |-> 1]
        BY <3>1, <3>5 DEF Relocked
      <4>2. Recent(q, longer)
        BY <1>1, <1>3, <4>1 DEF Recent
      <4> QED
        BY <1>1, <4>1, <4>2
    <3> QED
      BY <3>3, <3>4, <3>5
  <2> QED
    BY <2>1, <2>2
<1> HIDE DEF q
<1>6. q.confidence \in Nat
  BY <1>1, <1>5
<1>7. Lately(longer) \in Seq(Classes) /\ Recent(q, Lately(longer))
  BY <1>3, <1>5, <1>6, LatelyKeeps
<1> QED
  BY <1>5, <1>7 DEF RelockOK, q, longer
-----------------------------------------------------------------------------
(* The directory.  The entries of a sector that are in use, in their       *)
(* order, are listed once each.                                            *)

LowerIn(S, e) == {d \in S : d < e}

LEMMA Ranked ==
    ASSUME NEW S, S \subseteq Nat, IsFiniteSet(S)
    PROVE  /\ Cardinality(S) \in Nat
           /\ \A e \in S : Cardinality(LowerIn(S, e)) + 1 \in 1..Cardinality(S)
           /\ \A d, e \in S : Cardinality(LowerIn(S, d)) = Cardinality(LowerIn(S, e)) => d = e
           /\ \A k \in 1..Cardinality(S) : \E e \in S : Cardinality(LowerIn(S, e)) = k - 1
<1> DEFINE m == Cardinality(S)
           rank == [e \in S |-> Cardinality(LowerIn(S, e)) + 1]
<1>1. m \in Nat
  BY FS_CardinalityType
<1>2. \A e \in S : IsFiniteSet(LowerIn(S, e)) /\ Cardinality(LowerIn(S, e)) \in Nat
  <2>1. \A e \in S : LowerIn(S, e) \subseteq S
    BY DEF LowerIn
  <2> QED
    BY <2>1, FS_Subset, FS_CardinalityType
<1>3. ASSUME NEW e \in S, NEW T, T \subseteq S, LowerIn(S, e) \cup {e} \subseteq T
      PROVE  Cardinality(LowerIn(S, e)) + 1 <= Cardinality(T)
  <2>1. e \notin LowerIn(S, e)
    BY DEF LowerIn
  <2>2. IsFiniteSet(T)
    BY <1>3, FS_Subset
  <2>3. Cardinality(LowerIn(S, e) \cup {e}) = Cardinality(LowerIn(S, e)) + 1
    BY <1>2, <2>1, FS_AddElement
  <2> QED
    BY <1>3, <2>2, <2>3, FS_Subset
<1>4. \A e \in S : Cardinality(LowerIn(S, e)) + 1 \in 1..m
  <2>1. ASSUME NEW e \in S PROVE Cardinality(LowerIn(S, e)) + 1 \in 1..m
    <3>1. LowerIn(S, e) \cup {e} \subseteq S
      BY DEF LowerIn
    <3>2. Cardinality(LowerIn(S, e)) + 1 <= m
      BY <1>3, <3>1
    <3> QED
      BY <1>1, <1>2, <3>2
  <2> QED
    BY <2>1
<1>5. ASSUME NEW d \in S, NEW e \in S, d < e
      PROVE  Cardinality(LowerIn(S, d)) # Cardinality(LowerIn(S, e))
  <2>1. LowerIn(S, d) \cup {d} \subseteq LowerIn(S, e) /\ LowerIn(S, e) \subseteq S
    <3>1. ASSUME NEW c \in S, c < d PROVE c < e
      <4>1. c \in Nat /\ d \in Nat /\ e \in Nat
        OBVIOUS
      <4> QED
        BY <1>5, <3>1, <4>1
    <3> QED
      BY <1>5, <3>1 DEF LowerIn
  <2>2. Cardinality(LowerIn(S, d)) + 1 <= Cardinality(LowerIn(S, e))
    BY <1>3, <2>1
  <2> QED
    BY <1>2, <2>2
<1>6. \A d, e \in S : Cardinality(LowerIn(S, d)) = Cardinality(LowerIn(S, e)) => d = e
  <2>1. \A d, e \in S : d < e \/ e < d \/ d = e
    OBVIOUS
  <2> QED
    BY <1>5, <2>1
<1>7. rank \in Injection(S, 1..m)
  <2>1. rank \in [S -> 1..m]
    BY <1>4
  <2>2. \A d, e \in S : rank[d] = rank[e] => d = e
    BY <1>2, <1>6
  <2> HIDE DEF rank, m
  <2> QED
    BY <2>1, <2>2 DEF Injection, IsInjective
<1>8. IsFiniteSet(1..m) /\ Cardinality(1..m) = m
  <2>1. 1 \in Int /\ m \in Int
    BY <1>1
  <2>2. IsFiniteSet(1..m) /\ Cardinality(1..m) = IF 1 > m THEN 0 ELSE m - 1 + 1
    BY <2>1, FS_Interval
  <2> QED
    BY <1>1, <2>2
<1>9. rank \in Surjection(S, 1..m)
  <2> HIDE DEF rank
  <2>1. Cardinality(S) = Cardinality(1..m)
    BY <1>8
  <2> QED
    BY <1>7, <1>8, <2>1, FS_Injection
<1>10. \A k \in 1..m : \E e \in S : Cardinality(LowerIn(S, e)) = k - 1
  <2>1. ASSUME NEW k \in 1..m PROVE \E e \in S : Cardinality(LowerIn(S, e)) = k - 1
    <3>1. PICK e \in S : rank[e] = k
      BY <1>9 DEF Surjection
    <3>2. Cardinality(LowerIn(S, e)) + 1 = k
      BY <3>1
    <3> QED
      BY <1>2, <3>2
  <2> QED
    BY <2>1
<1> QED
  BY <1>1, <1>4, <1>6, <1>10

LEMMA LiveIs ==
    ASSUME ImageConstants, NEW block
    PROVE  /\ Live(block) \subseteq Nat /\ IsFiniteSet(Live(block))
           /\ Live(block) \subseteq 0..(DirEntry.count - 1)
           /\ Cardinality(Live(block)) <= DirEntry.count /\ DirEntry.count \in Nat
<1>1. DirEntry.count \in Nat
  BY DEF ImageConstants
<1>2. IsFiniteSet(0..(DirEntry.count - 1)) /\ Cardinality(0..(DirEntry.count - 1)) = DirEntry.count
  <2>1. 0 \in Int /\ DirEntry.count - 1 \in Int
    BY <1>1
  <2>2. /\ IsFiniteSet(0..(DirEntry.count - 1))
        /\ Cardinality(0..(DirEntry.count - 1)) =
                IF 0 > DirEntry.count - 1 THEN 0 ELSE (DirEntry.count - 1) - 0 + 1
    BY <2>1, FS_Interval
  <2> QED
    BY <1>1, <2>2
<1>3. Live(block) \subseteq 0..(DirEntry.count - 1)
  BY DEF Live
<1>4. 0..(DirEntry.count - 1) \subseteq Nat
  BY <1>1
<1> QED
  BY <1>1, <1>2, <1>3, <1>4, FS_Subset

LEMMA EntriesCounted ==
    ASSUME ImageConstants, NEW block
    PROVE  /\ Len(EntriesOf(block)) \in Nat /\ Len(EntriesOf(block)) <= DirEntry.count
           /\ DOMAIN EntriesOf(block) = 1..Len(EntriesOf(block))
           /\ \A k \in DOMAIN EntriesOf(block) :
                    \E e \in 0..(DirEntry.count - 1) : EntriesOf(block)[k] = EntryOf(block, e)
           /\ \A x : LET entries == {e \in Live(block) : EntryOf(block, e) = x}
                     IN  IsFiniteSet(entries) /\ Occurs(x, EntriesOf(block)) = Cardinality(entries)
<1> DEFINE S == Live(block)
           m == Cardinality(S)
           list == EntriesOf(block)
           at(k) == CHOOSE e \in S : Cardinality(LowerIn(S, e)) = k - 1
<1>1. /\ S \subseteq Nat /\ IsFiniteSet(S) /\ S \subseteq 0..(DirEntry.count - 1)
      /\ m <= DirEntry.count /\ m \in Nat
  BY LiveIs, FS_CardinalityType
<1>2. \A k \in 1..m : at(k) \in S /\ Cardinality(LowerIn(S, at(k))) = k - 1
  <2>1. \A k \in 1..m : \E e \in S : Cardinality(LowerIn(S, e)) = k - 1
    BY <1>1, Ranked
  <2> HIDE DEF S, m
  <2> QED
    BY <2>1
<1>3. list = [k \in 1..m |-> EntryOf(block, at(k))]
  BY DEF EntriesOf, LowerIn
<1>4. \A e \in S : at(Cardinality(LowerIn(S, e)) + 1) = e /\ Cardinality(LowerIn(S, e)) + 1 \in 1..m
  <2>1. ASSUME NEW e \in S PROVE at(Cardinality(LowerIn(S, e)) + 1) = e /\ Cardinality(LowerIn(S, e)) + 1 \in 1..m
    <3> DEFINE k == Cardinality(LowerIn(S, e)) + 1
    <3>1. k \in 1..m
      BY <1>1, Ranked
    <3>2. Cardinality(LowerIn(S, e)) \in Nat
      <4>1. LowerIn(S, e) \in SUBSET S
        BY DEF LowerIn
      <4> QED
        BY <1>1, <4>1, FS_Subset, FS_CardinalityType
    <3>3. k - 1 = Cardinality(LowerIn(S, e))
      BY <3>2
    <3>4. at(k) \in S /\ Cardinality(LowerIn(S, at(k))) = Cardinality(LowerIn(S, e))
      BY <1>2, <3>1, <3>3
    <3> HIDE DEF S, at, k
    <3>5. at(k) = e
      BY <1>1, <3>4, Ranked
    <3> QED
      BY <3>1, <3>5 DEF k
  <2> QED
    BY <2>1
<1> HIDE DEF S, m, at, list
<1>5. Len(list) = m /\ DOMAIN list = 1..m
  BY <1>1, <1>3
<1>6. \A k \in DOMAIN list : \E e \in 0..(DirEntry.count - 1) : list[k] = EntryOf(block, e)
  BY <1>1, <1>2, <1>3, <1>5
<1>7. ASSUME NEW x
      PROVE  IsFiniteSet({e \in S : EntryOf(block, e) = x})
             /\ Occurs(x, list) = Cardinality({e \in S : EntryOf(block, e) = x})
  <2> DEFINE entries == {e \in S : EntryOf(block, e) = x}
             places == {k \in DOMAIN list : list[k] = x}
             f == [k \in places |-> at(k)]
  <2>1. IsFiniteSet(entries)
    <3>1. entries \in SUBSET S
      OBVIOUS
    <3> HIDE DEF entries
    <3> QED
      BY <1>1, <3>1, FS_Subset
  <2>2. IsFiniteSet(places)
    <3>1. IsFiniteSet(1..m)
      BY <1>1, FS_Interval
    <3>2. places \in SUBSET (1..m)
      BY <1>5
    <3> HIDE DEF places
    <3> QED
      BY <3>1, <3>2, FS_Subset
  <2>3. f \in [places -> entries]
    BY <1>2, <1>3, <1>5
  <2>4. \A j, k \in places : f[j] = f[k] => j = k
    <3>1. ASSUME NEW j \in places, NEW k \in places, f[j] = f[k] PROVE j = k
      <4>1. j \in 1..m /\ k \in 1..m /\ at(j) = at(k)
        BY <1>5, <3>1
      <4>2. j - 1 = k - 1
        BY <1>2, <4>1
      <4> QED
        BY <4>1, <4>2
    <3> HIDE DEF f
    <3> QED
      BY <3>1
  <2>5. \A e \in entries : \E k \in places : f[k] = e
    <3>1. ASSUME NEW e \in entries PROVE \E k \in places : f[k] = e
      <4> DEFINE k == Cardinality(LowerIn(S, e)) + 1
      <4>1. k \in 1..m /\ at(k) = e
        BY <1>4
      <4>2. list[k] = x
        BY <1>3, <4>1
      <4>3. k \in places
        BY <1>5, <4>1, <4>2
      <4> QED
        BY <4>1, <4>3
    <3> QED
      BY <3>1
  <2> HIDE DEF f, entries, places
  <2>6. f \in Bijection(places, entries)
    BY <2>3, <2>4, <2>5 DEF Bijection, Injection, Surjection, IsInjective
  <2>7. ExistsBijection(places, entries)
    BY <2>6 DEF ExistsBijection
  <2>8. Cardinality(entries) = Cardinality(places)
    BY <2>2, <2>7, FS_Bijection
  <2> QED
    BY <2>1, <2>8 DEF Occurs, entries, places
<1> QED
  BY <1>1, <1>5, <1>6, <1>7 DEF S, list

\* What two lists have of an entry.
LEMMA ConcatOccurs ==
    ASSUME NEW E, NEW s \in Seq(E), NEW t \in Seq(E), NEW x
    PROVE  /\ s \o t \in Seq(E) /\ Len(s \o t) = Len(s) + Len(t)
           /\ Occurs(x, s \o t) = Occurs(x, s) + Occurs(x, t)
           /\ Occurs(x, s) \in Nat /\ Occurs(x, t) \in Nat
<1> DEFINE m == Len(s)
           n == Len(t)
           c == s \o t
           A == {k \in DOMAIN s : s[k] = x}
           B == {k \in DOMAIN t : t[k] = x}
           C == {k \in DOMAIN c : c[k] = x}
           D == {k \in (m + 1)..(m + n) : c[k] = x}
           f == [k \in B |-> m + k]
<1>1. m \in Nat /\ n \in Nat /\ DOMAIN s = 1..m /\ DOMAIN t = 1..n
  BY LenProperties
<1>2. /\ c \in Seq(E) /\ Len(c) = m + n
      /\ \A k \in 1..(m + n) : c[k] = IF k <= m THEN s[k] ELSE t[k - m]
  BY ConcatProperties
<1>3. DOMAIN c = 1..(m + n)
  BY <1>2, LenProperties
<1> HIDE DEF m, n, c
<1>4. IsFiniteSet(A) /\ IsFiniteSet(B) /\ IsFiniteSet(D)
  <2>1. IsFiniteSet(1..m) /\ IsFiniteSet(1..n) /\ IsFiniteSet((m + 1)..(m + n))
    BY <1>1, FS_Interval
  <2>2. A \in SUBSET (1..m) /\ B \in SUBSET (1..n) /\ D \in SUBSET ((m + 1)..(m + n))
    BY <1>1
  <2> HIDE DEF A, B, D
  <2> QED
    BY <2>1, <2>2, FS_Subset
<1>5. C = A \cup D /\ A \cap D = {}
  <2>1. \A k \in 1..m : c[k] = s[k]
    <3>1. \A k \in 1..m : k \in 1..(m + n) /\ k <= m
      BY <1>1
    <3> QED
      BY <1>2, <3>1
  <2>2. 1..(m + n) = (1..m) \cup ((m + 1)..(m + n)) /\ (1..m) \cap ((m + 1)..(m + n)) = {}
    BY <1>1
  <2> QED
    BY <1>1, <1>3, <2>1, <2>2
<1>6. f \in Bijection(B, D)
  <2>0. \A k \in 1..n : m + k \in (m + 1)..(m + n) /\ m + k \in 1..(m + n) /\ ~ (m + k <= m) /\ (m + k) - m = k
    BY <1>1
  <2>1. \A k \in 1..n : c[m + k] = t[k]
    BY <1>2, <2>0
  <2>2. f \in [B -> D]
    BY <1>1, <2>0, <2>1
  <2>3. \A j, k \in B : f[j] = f[k] => j = k
    BY <1>1
  <2>4. \A d \in D : \E k \in B : f[k] = d
    <3>1. ASSUME NEW d \in D PROVE \E k \in B : f[k] = d
      <4>1. d - m \in 1..n /\ m + (d - m) = d /\ c[d] = x
        BY <1>1
      <4>2. d - m \in B
        BY <1>1, <2>1, <4>1
      <4> QED
        BY <4>1, <4>2
    <3> QED
      BY <3>1
  <2> HIDE DEF f, B, D
  <2> QED
    BY <2>2, <2>3, <2>4 DEF Bijection, Injection, Surjection, IsInjective
<1> HIDE DEF f, A, B, C, D
<1>7. Cardinality(D) = Cardinality(B)
  <2>1. ExistsBijection(B, D)
    BY <1>6 DEF ExistsBijection
  <2> QED
    BY <1>4, <2>1, FS_Bijection
<1>8. Cardinality(C) = Cardinality(A) + Cardinality(D) - 0
  BY <1>4, <1>5, FS_Union, FS_EmptySet
<1>9. Cardinality(A) \in Nat /\ Cardinality(B) \in Nat
  BY <1>4, FS_CardinalityType
<1>10. Cardinality(C) = Cardinality(A) + Cardinality(B)
  BY <1>7, <1>8, <1>9
<1> QED
  BY <1>2, <1>9, <1>10 DEF Occurs, A, B, C, c, m, n
-----------------------------------------------------------------------------
(* The chain of a directory: the turns of the loop, and what is reached.   *)

FileOK ==
    /\ file = [there |-> file.there, size |-> file.size, bytes |-> file.bytes]
    /\ file.there \in BOOLEAN /\ file.size \in Nat
    /\ file.bytes \in [DOMAIN Mount.bytes -> Bytes256]
    /\ ~ Linear => file.size = Mount.size
    /\ ~ Mount.unplugs => file.there

LEMMA BlockIsThere ==
    ASSUME ImageConstants, image \in DOMAIN Images, Linear, NEW a \in ImageAddresses, NEW i \in Within
    PROVE  Offset(a) + i \in DOMAIN Mount.bytes
<1>1. ImageOK(Mount)
  BY DEF ImageConstants, Mount
<1> QED
  BY <1>1 DEF ImageOK, Linear

LEMMA BytesAreThere ==
    ASSUME ImageConstants, image \in DOMAIN Images, FileOK, Linear, NEW a \in ImageAddresses
    PROVE  /\ \A i \in Within : file.bytes[Offset(a) + i] \in Bytes256
           /\ Link(a) \in Nat \X Nat
<1>1. \A i \in Within : file.bytes[Offset(a) + i] \in Bytes256
  BY BlockIsThere DEF FileOK
<1>2. Offset(a) \in Nat /\ Offset(a) + 0 = Offset(a) /\ 0 \in Within /\ 1 \in Within
  BY OffsetIs, BlockLong
<1>3. file.bytes[Offset(a)] \in Bytes256 /\ file.bytes[Offset(a) + 1] \in Bytes256
  BY <1>1, <1>2
<1>4. Bytes256 \subseteq Nat
  BY DEF Bytes256
<1> QED
  BY <1>1, <1>3, <1>4 DEF Link

Listable == {EntryAt(p[1], p[2]) : p \in ImageAddresses \X (0..(DirEntry.count - 1))}
WalkStates == [at : Nat \X Nat, listed : Seq(Listable), error : Errors]

LEMMA LinearErrorIs ==
    ASSUME ImageConstants, NEW a \in Nat \X Nat
    PROVE  /\ LinearError(a) \in Errors
           /\ (LinearError(a) = "None" /\ file.size \in Nat) =>
                a \in ImageAddresses /\ file.there /\ Offset(a) + ImageBlock <= file.size
<1>1. LinearError(a) \in Errors
  BY DEF LinearError, Errors
<1>2. ASSUME LinearError(a) = "None", file.size \in Nat
      PROVE  a \in ImageAddresses /\ file.there /\ Offset(a) + ImageBlock <= file.size
  <2>1. ValidChs(a) /\ file.there /\ ~ (Offset(a) + ImageBlock > file.size)
    BY <1>2 DEF LinearError
  <2>2. a \in ImageAddresses
    BY <2>1, AddressIs
  <2>3. Offset(a) + ImageBlock \in Nat
    BY <2>2, OffsetIs, BlockLong
  <2> QED
    BY <1>2, <2>1, <2>2, <2>3
<1> QED
  BY <1>1, <1>2

LEMMA EntriesListable ==
    ASSUME ImageConstants, NEW a \in ImageAddresses
    PROVE  /\ BlockAt(Offset(a)) = BlockAt(Rank(a) * ImageBlock)
           /\ EntriesOf(BlockAt(Offset(a))) \in Seq(Listable)
<1> DEFINE block == BlockAt(Rank(a) * ImageBlock)
           list == EntriesOf(block)
<1>1. BlockAt(Offset(a)) = block
  BY OffsetIs
<1>2. /\ Len(list) \in Nat /\ DOMAIN list = 1..Len(list)
      /\ \A k \in DOMAIN list : \E e \in 0..(DirEntry.count - 1) : list[k] = EntryOf(block, e)
  BY EntriesCounted
<1>3. \A k \in 1..Len(list) : list[k] \in Listable
  <2>1. ASSUME NEW k \in 1..Len(list) PROVE list[k] \in Listable
    <3>1. PICK e \in 0..(DirEntry.count - 1) : list[k] = EntryOf(block, e)
      BY <1>2
    <3> DEFINE p == <<a, e>>
    <3>2. p \in ImageAddresses \X (0..(DirEntry.count - 1)) /\ p[1] = a /\ p[2] = e
      OBVIOUS
    <3>3. list[k] = EntryAt(p[1], p[2])
      BY <3>1, <3>2 DEF EntryAt
    <3> HIDE DEF p, list
    <3> QED
      BY <3>2, <3>3 DEF Listable
  <2> QED
    BY <2>1
<1>4. list = [k \in 1..Len(list) |-> list[k]]
  <2>1. list = [k \in DOMAIN list |-> list[k]]
    BY DEF EntriesOf
  <2> QED
    BY <1>2, <2>1
<1> HIDE DEF list, block
<1>5. list \in Seq(Listable)
  <2>1. list \in [1..Len(list) -> Listable]
    BY <1>3, <1>4
  <2> QED
    BY <1>2, <2>1, SeqDef
<1> QED
  BY <1>1, <1>5 DEF list, block

LEMMA VisitTyped ==
    ASSUME ImageConstants, image \in DOMAIN Images, FileOK, Linear, NEW w \in WalkStates
    PROVE  /\ Visit(w) \in WalkStates
           /\ (w.error = "None" /\ w.at[1] # 0 /\ LinearError(w.at) = "None") =>
                /\ w.at \in ImageAddresses
                /\ Visit(w).at = Link(w.at) /\ Visit(w).error = "None"
                /\ Visit(w).listed = w.listed \o EntriesOf(BlockAt(Rank(w.at) * ImageBlock))
           /\ (w.error = "None" /\ w.at[1] # 0 /\ LinearError(w.at) # "None") => Visit(w).error # "None"
           /\ (w.error # "None" \/ w.at[1] = 0) => Visit(w) = w
<1>1. w = [at |-> w.at, listed |-> w.listed, error |-> w.error] /\ w.at \in Nat \X Nat
      /\ w.listed \in Seq(Listable) /\ w.error \in Errors
  BY DEF WalkStates
<1>2. file.size \in Nat
  BY DEF FileOK
<1>3. CASE w.error # "None" \/ w.at[1] = 0
  <2>1. Visit(w) = w
    BY <1>3 DEF Visit
  <2> QED
    BY <1>3, <2>1
<1>4. CASE w.error = "None" /\ w.at[1] # 0 /\ LinearError(w.at) # "None"
  <2>1. Visit(w) = [w EXCEPT !.error = LinearError(w.at)]
    BY <1>4 DEF Visit
  <2>2. LinearError(w.at) \in Errors
    BY <1>1, LinearErrorIs
  <2>3. Visit(w) = [at |-> w.at, listed |-> w.listed, error |-> LinearError(w.at)]
    BY <1>1, <2>1
  <2> QED
    BY <1>1, <1>4, <2>2, <2>3 DEF WalkStates
<1>5. CASE w.error = "None" /\ w.at[1] # 0 /\ LinearError(w.at) = "None"
  <2> DEFINE longer == w.listed \o EntriesOf(BlockAt(Offset(w.at)))
  <2>1. w.at \in ImageAddresses
    BY <1>1, <1>2, <1>5, LinearErrorIs
  <2>2. Visit(w) = [w EXCEPT !.at = Link(w.at), !.listed = w.listed \o EntriesOf(BlockAt(Offset(w.at)))]
    BY <1>5 DEF Visit
  <2>3. Visit(w) = [at |-> Link(w.at), listed |-> longer, error |-> "None"]
    BY <1>1, <1>5, <2>2
  <2>4. longer \in Seq(Listable) /\ BlockAt(Offset(w.at)) = BlockAt(Rank(w.at) * ImageBlock)
    BY <1>1, <2>1, EntriesListable, ConcatProperties
  <2>5. Link(w.at) \in Nat \X Nat
    BY <2>1, BytesAreThere
  <2>6. "None" \in Errors
    BY DEF Errors
  <2> QED
    BY <1>5, <2>1, <2>3, <2>4, <2>5, <2>6 DEF WalkStates
<1> QED
  BY <1>3, <1>4, <1>5

LEMMA VisitsAre ==
    ASSUME ImageConstants, image \in DOMAIN Images, FileOK, Linear
    PROVE  /\ Visits[0] = WalkStart
           /\ \A k \in Nat \ {0} : Visits[k] = Visit(Visits[k - 1])
           /\ \A k \in Nat : Visits[k] \in WalkStates
<1> DEFINE step == [w \in WalkStates |-> Visit(w)]
           IsVisits(f) == f = [k \in Nat |-> IF k = 0 THEN WalkStart ELSE Visit(f[k - 1])]
<1>1. WalkStart \in WalkStates
  <2>1. DirTrack \in Nat
    BY DEF ImageConstants
  <2>2. <<DirTrack, 1>> \in Nat \X Nat /\ <<DirTrack, 0>> \in Nat \X Nat
    BY <2>1
  <2>3. LinearError(<<DirTrack, 0>>) \in Errors /\ <<>> \in Seq(Listable)
    BY <2>2, LinearErrorIs, EmptySeq
  <2> QED
    BY <2>2, <2>3 DEF WalkStart, WalkStates
<1>2. step \in [WalkStates -> WalkStates]
  BY VisitTyped
<1>3. CanRepeat(WalkStates, WalkStart, step)
  BY <1>1, <1>2 DEF CanRepeat
<1>4. PICK g : Repeats(g, WalkStart, step)
  BY <1>3, TurnsFunction
<1>5. \A k \in Nat : g[k] \in WalkStates
  <2> DEFINE Bad == {k \in Nat : g[k] \notin WalkStates}
  <2>1. SUFFICES ASSUME Bad # {} PROVE FALSE
    OBVIOUS
  <2>2. PICK k \in Bad : \A i \in Bad : k <= i
    BY <2>1, LeastNumber
  <2>3. k \in Nat /\ k # 0
    BY <1>1, <1>4, <2>2 DEF Repeats
  <2>4. k - 1 \in Nat /\ ~ (k <= k - 1)
    BY <2>3
  <2>5. g[k - 1] \in WalkStates
    BY <2>2, <2>4
  <2>6. g[k] = step[g[k - 1]]
    BY <1>4, <2>3 DEF Repeats
  <2> HIDE DEF step
  <2> QED
    BY <1>2, <2>2, <2>5, <2>6
<1> DEFINE f == [k \in Nat |-> g[k]]
<1>6. \A k \in Nat : f[k] = IF k = 0 THEN WalkStart ELSE Visit(f[k - 1])
  <2>1. f[0] = WalkStart
    BY <1>4 DEF Repeats
  <2>2. ASSUME NEW k \in Nat \ {0} PROVE f[k] = Visit(f[k - 1])
    <3>1. k - 1 \in Nat
      BY <2>2
    <3>2. g[k] = step[g[k - 1]] /\ g[k - 1] \in WalkStates
      BY <1>4, <1>5, <3>1 DEF Repeats
    <3>3. g[k] = Visit(g[k - 1])
      BY <3>2
    <3> QED
      BY <3>1, <3>3
  <2> HIDE DEF f
  <2> QED
    BY <2>1, <2>2
<1>7. f = [k \in Nat |-> f[k]]
  OBVIOUS
<1> HIDE DEF f
<1>8. IsVisits(f)
  BY <1>6, <1>7
<1>9. IsVisits(Visits)
  BY <1>8 DEF Visits
<1> DEFINE v == Visits
<1>10. v = [k \in Nat |-> IF k = 0 THEN WalkStart ELSE Visit(v[k - 1])]
  BY <1>9
<1> HIDE DEF v
<1>11. v[0] = WalkStart
  BY <1>10
<1>12. \A k \in Nat \ {0} : v[k] = Visit(v[k - 1])
  BY <1>10
<1>13. \A k \in Nat : v[k] \in WalkStates
  <2> DEFINE Bad == {k \in Nat : v[k] \notin WalkStates}
  <2>1. SUFFICES ASSUME Bad # {} PROVE FALSE
    OBVIOUS
  <2>2. PICK k \in Bad : \A i \in Bad : k <= i
    BY <2>1, LeastNumber
  <2>3. k \in Nat /\ k # 0
    BY <1>1, <1>11, <2>2
  <2>4. k - 1 \in Nat /\ ~ (k <= k - 1)
    BY <2>3
  <2>5. v[k - 1] \in WalkStates
    BY <2>2, <2>4
  <2>6. v[k] = Visit(v[k - 1])
    BY <1>12, <2>3
  <2> QED
    BY <2>2, <2>5, <2>6, VisitTyped
<1> QED
  BY <1>11, <1>12, <1>13 DEF v

LEMMA ReachedIs ==
    ASSUME ImageConstants, image \in DOMAIN Images, FileOK, Linear
    PROVE  /\ Reached[0] = {<<DirTrack, 1>>}
           /\ \A k \in Nat \ {0} : Reached[k] = Grown(Reached[k - 1])
<1> DEFINE S == SUBSET (Nat \X Nat)
           start == {<<DirTrack, 1>>}
           step == [X \in S |-> Grown(X)]
           IsReached(f) == f = [k \in Nat |-> IF k = 0 THEN start ELSE Grown(f[k - 1])]
<1>1. start \in S
  BY DEF ImageConstants
<1>2. step \in [S -> S]
  <2>1. ASSUME NEW X \in S PROVE Grown(X) \in S
    BY BytesAreThere DEF Grown
  <2> HIDE DEF S
  <2> QED
    BY <2>1
<1> HIDE DEF S, start
<1>3. CanRepeat(S, start, step)
  BY <1>1, <1>2 DEF CanRepeat
<1>4. PICK g : Repeats(g, start, step)
  BY <1>3, TurnsFunction
<1>5. \A k \in Nat : g[k] \in S
  <2> DEFINE Bad == {k \in Nat : g[k] \notin S}
  <2>1. SUFFICES ASSUME Bad # {} PROVE FALSE
    OBVIOUS
  <2>2. PICK k \in Bad : \A i \in Bad : k <= i
    BY <2>1, LeastNumber
  <2>3. k \in Nat /\ k # 0
    BY <1>1, <1>4, <2>2 DEF Repeats
  <2>4. k - 1 \in Nat /\ ~ (k <= k - 1)
    BY <2>3
  <2>5. g[k - 1] \in S
    BY <2>2, <2>4
  <2>6. g[k] = step[g[k - 1]]
    BY <1>4, <2>3 DEF Repeats
  <2> HIDE DEF step
  <2> QED
    BY <1>2, <2>2, <2>5, <2>6
<1> DEFINE f == [k \in Nat |-> g[k]]
<1>6. \A k \in Nat : f[k] = IF k = 0 THEN start ELSE Grown(f[k - 1])
  <2>1. f[0] = start
    BY <1>4 DEF Repeats
  <2>2. ASSUME NEW k \in Nat \ {0} PROVE f[k] = Grown(f[k - 1])
    <3>1. k - 1 \in Nat
      BY <2>2
    <3>2. g[k] = step[g[k - 1]] /\ g[k - 1] \in S
      BY <1>4, <1>5, <3>1 DEF Repeats
    <3>3. g[k] = Grown(g[k - 1])
      BY <3>2
    <3> QED
      BY <3>1, <3>3
  <2> HIDE DEF f
  <2> QED
    BY <2>1, <2>2
<1>7. f = [k \in Nat |-> f[k]]
  OBVIOUS
<1> HIDE DEF f
<1>8. IsReached(f)
  BY <1>6, <1>7
<1>9. IsReached(Reached)
  BY <1>8 DEF Reached, start
<1> DEFINE v == Reached
<1>10. v = [k \in Nat |-> IF k = 0 THEN start ELSE Grown(v[k - 1])]
  BY <1>9
<1> HIDE DEF v
<1>11. v[0] = start
  BY <1>10
<1>12. \A k \in Nat \ {0} : v[k] = Grown(v[k - 1])
  BY <1>10
<1> QED
  BY <1>11, <1>12 DEF v, start
PairsOf(V, x) ==
    {p \in V \X (0..(DirEntry.count - 1)) : p[2] \in LiveAt(p[1]) /\ EntryAt(p[1], p[2]) = x}

LEMMA PairsGrow ==
    ASSUME ImageConstants, NEW V, NEW a, a \notin V, NEW x, IsFiniteSet(PairsOf(V, x))
    PROVE  /\ IsFiniteSet(PairsOf(V \cup {a}, x))
           /\ Cardinality(PairsOf(V \cup {a}, x)) =
                Cardinality(PairsOf(V, x)) + Occurs(x, EntriesOf(BlockAt(Rank(a) * ImageBlock)))
<1> DEFINE block == BlockAt(Rank(a) * ImageBlock)
           entries == {e \in Live(block) : EntryOf(block, e) = x}
           own == PairsOf({a}, x)
           f == [e \in entries |-> <<a, e>>]
<1>1. IsFiniteSet(entries) /\ Occurs(x, EntriesOf(block)) = Cardinality(entries)
  BY EntriesCounted
<1>2. Live(block) \subseteq 0..(DirEntry.count - 1)
  BY LiveIs
<1>3. LiveAt(a) = Live(block) /\ \A e : EntryAt(a, e) = EntryOf(block, e)
  BY DEF LiveAt, EntryAt
<1> HIDE DEF block
<1>4. f \in Bijection(entries, own)
  <2>1. f \in [entries -> own]
    <3>1. ASSUME NEW e \in entries PROVE <<a, e>> \in own
      <4> DEFINE p == <<a, e>>
      <4>1. p \in {a} \X (0..(DirEntry.count - 1)) /\ p[1] = a /\ p[2] = e
        BY <1>2
      <4>2. p[2] \in LiveAt(p[1]) /\ EntryAt(p[1], p[2]) = x
        BY <1>3, <4>1
      <4> HIDE DEF p
      <4>3. p \in own
        BY <4>1, <4>2 DEF PairsOf
      <4> QED
        BY <4>3 DEF p
    <3> HIDE DEF own, entries
    <3> QED
      BY <3>1
  <2>2. \A d, e \in entries : f[d] = f[e] => d = e
    OBVIOUS
  <2>3. \A p \in own : \E e \in entries : f[e] = p
    <3>1. ASSUME NEW p \in own PROVE \E e \in entries : f[e] = p
      <4>1. p = <<p[1], p[2]>> /\ p[1] = a /\ p[2] \in LiveAt(p[1]) /\ EntryAt(p[1], p[2]) = x
        BY DEF PairsOf
      <4>2. p[2] \in entries
        BY <1>3, <4>1
      <4> QED
        BY <4>1, <4>2
    <3> QED
      BY <3>1
  <2> HIDE DEF f, entries, own
  <2> QED
    BY <2>1, <2>2, <2>3 DEF Bijection, Injection, Surjection, IsInjective
<1> HIDE DEF f, entries
<1>5. IsFiniteSet(own) /\ Cardinality(own) = Cardinality(entries)
  <2>1. ExistsBijection(entries, own)
    BY <1>4 DEF ExistsBijection
  <2> HIDE DEF own
  <2> QED
    BY <1>1, <2>1, FS_Bijection
<1>6. PairsOf(V \cup {a}, x) = PairsOf(V, x) \cup own /\ PairsOf(V, x) \cap own = {}
  BY DEF PairsOf
<1> HIDE DEF own
<1>7. /\ IsFiniteSet(PairsOf(V \cup {a}, x))
      /\ Cardinality(PairsOf(V \cup {a}, x)) = Cardinality(PairsOf(V, x)) + Cardinality(own) - 0
  <2> DEFINE P == PairsOf(V, x)
  <2>1. IsFiniteSet(P) /\ IsFiniteSet(own) /\ P \cap own = {} /\ PairsOf(V \cup {a}, x) = P \cup own
    BY <1>5, <1>6
  <2> HIDE DEF P
  <2>2. IsFiniteSet(P \cup own) /\ Cardinality(P \cup own) = Cardinality(P) + Cardinality(own) - Cardinality(P \cap own)
    BY <2>1, FS_Union
  <2> QED
    BY <2>1, <2>2, FS_EmptySet DEF P
<1>8. Cardinality(PairsOf(V, x)) \in Nat /\ Cardinality(own) \in Nat
  BY <1>5, FS_CardinalityType
<1> QED
  BY <1>1, <1>5, <1>7, <1>8 DEF block

LEMMA ReachedStays ==
    ASSUME ImageConstants, image \in DOMAIN Images, FileOK, Linear,
           NEW C, \A a \in C \cap ImageAddresses : Link(a) \in C,
           NEW k \in Nat, Reached[k] \subseteq C, NEW l \in Nat, k <= l
    PROVE  Reached[l] \subseteq C
<1> DEFINE Bad == {i \in Nat : k <= i /\ ~ (Reached[i] \subseteq C)}
<1>1. SUFFICES ASSUME Bad # {} PROVE FALSE
  OBVIOUS
<1>2. PICK i \in Bad : \A j \in Bad : i <= j
  BY <1>1, LeastNumber
<1>3. i \in Nat /\ k <= i /\ i # k /\ i # 0
  BY <1>2
<1>4. i - 1 \in Nat /\ k <= i - 1 /\ ~ (i <= i - 1)
  BY <1>3
<1>5. Reached[i - 1] \subseteq C
  BY <1>2, <1>4
<1>6. Reached[i] = Grown(Reached[i - 1])
  BY <1>3, ReachedIs
<1> QED
  BY <1>2, <1>5, <1>6 DEF Grown

\* The sectors the walk has been through, which is on its way to one it has not.
Trail(k, V) ==
    LET w == Visits[k]
    IN  /\ V \subseteq ImageAddresses /\ IsFiniteSet(V)
        /\ w.error = "None"
        /\ Reached[k] = V \cup {w.at} /\ w.at \notin V
        /\ \A a \in V : Link(a) \in V \cup {w.at}
        /\ \A x : IsFiniteSet(PairsOf(V, x)) /\ Occurs(x, w.listed) = Cardinality(PairsOf(V, x))
        /\ w.at[1] # 0 => Cardinality(V) = k

LEMMA EmptyOccurs ==
    ASSUME NEW x
    PROVE  IsFiniteSet(PairsOf({}, x)) /\ Occurs(x, <<>>) = Cardinality(PairsOf({}, x))
<1>1. PairsOf({}, x) = {}
  BY DEF PairsOf
<1>2. {k \in DOMAIN <<>> : <<>>[k] = x} = {}
  OBVIOUS
<1> QED
  BY <1>1, <1>2, FS_EmptySet DEF Occurs

LEMMA TrailStarts ==
    ASSUME ImageConstants, image \in DOMAIN Images, FileOK, Linear, Visits[0].error = "None"
    PROVE  Trail(0, {})
<1>1. Visits[0].at = <<DirTrack, 1>> /\ Visits[0].listed = <<>> /\ Reached[0] = {<<DirTrack, 1>>}
  BY VisitsAre, ReachedIs DEF WalkStart
<1> QED
  BY <1>1, EmptyOccurs, FS_EmptySet DEF Trail

LEMMA TrailGrows ==
    ASSUME ImageConstants, image \in DOMAIN Images, FileOK, Linear, EndsInTime,
           NEW k \in 1..DirGuard, NEW V, Trail(k - 1, V), Visits[k].error = "None"
    PROVE  \E W : Trail(k, W)
<1> DEFINE w == Visits[k - 1]
           v == Visits[k]
<1>0. DirGuard \in Nat /\ k \in Nat \ {0} /\ k - 1 \in Nat /\ k \in Nat /\ k <= DirGuard /\ (k - 1) + 1 = k
  BY DEF ImageConstants
<1>1. v = Visit(w) /\ w \in WalkStates /\ v \in WalkStates /\ Reached[k] = Grown(Reached[k - 1])
  BY <1>0, VisitsAre, ReachedIs
<1>2. /\ V \subseteq ImageAddresses /\ IsFiniteSet(V)
      /\ w.error = "None"
      /\ Reached[k - 1] = V \cup {w.at} /\ w.at \notin V
      /\ \A a \in V : Link(a) \in V \cup {w.at}
      /\ \A x : IsFiniteSet(PairsOf(V, x)) /\ Occurs(x, w.listed) = Cardinality(PairsOf(V, x))
      /\ w.at[1] # 0 => Cardinality(V) = k - 1
  BY DEF Trail
<1>3. v.error = "None"
  OBVIOUS
<1>4. \A a \in ImageAddresses : a[1] # 0
  BY AddressIs
<1> HIDE DEF w, v
<1>5. CASE w.at[1] = 0
  <2>1. v = w
    BY <1>1, <1>5, VisitTyped
  <2>2. w.at \notin ImageAddresses
    BY <1>4, <1>5
  <2>3. Reached[k] = V \cup {w.at}
    BY <1>1, <1>2, <2>2 DEF Grown
  <2>4. Trail(k, V)
    BY <1>2, <1>5, <2>1, <2>3 DEF Trail, v
  <2> QED
    BY <2>4
<1>6. CASE w.at[1] # 0
  <2> DEFINE W == V \cup {w.at}
             more == EntriesOf(BlockAt(Rank(w.at) * ImageBlock))
  <2>1. LinearError(w.at) = "None"
    BY <1>1, <1>2, <1>3, <1>6, VisitTyped
  <2>2. w.at \in ImageAddresses /\ v.at = Link(w.at) /\ v.listed = w.listed \o more
    BY <1>1, <1>2, <1>6, <2>1, VisitTyped
  <2>3. W \subseteq ImageAddresses /\ IsFiniteSet(W) /\ Cardinality(W) = k
    <3>1. IsFiniteSet(W) /\ Cardinality(W) = Cardinality(V) + 1
      BY <1>2, FS_AddElement
    <3> QED
      BY <1>0, <1>2, <1>6, <2>2, <3>1
  <2>4. Reached[k] = W \cup {v.at}
    BY <1>1, <1>2, <2>2 DEF Grown
  <2>5. \A a \in W : Link(a) \in W \cup {v.at}
    BY <1>2, <2>2
  <2>6. v.at \notin W
    <3>1. SUFFICES ASSUME v.at \in W PROVE FALSE
      OBVIOUS
    <3>2. Reached[k] \subseteq W /\ \A a \in W \cap ImageAddresses : Link(a) \in W
      BY <2>4, <2>5, <3>1
    <3> HIDE DEF W
    <3>3. Reached[DirGuard] \subseteq W
      BY <1>0, <3>2, ReachedStays
    <3>4. PICK a \in Chained : Link(a)[1] = 0
      BY DEF EndsInTime
    <3>5. a \in W
      BY <3>3, <3>4 DEF Chained
    <3>6. Link(a) \in W
      BY <2>3, <3>2, <3>5
    <3> QED
      BY <1>4, <2>3, <3>4, <3>6
  <2>7. ASSUME NEW x
        PROVE  IsFiniteSet(PairsOf(W, x)) /\ Occurs(x, v.listed) = Cardinality(PairsOf(W, x))
    <3>1. w.listed \in Seq(Listable)
      BY <1>1 DEF WalkStates
    <3>2. more \in Seq(Listable)
      BY <2>2, EntriesListable
    <3>3. Occurs(x, v.listed) = Occurs(x, w.listed) + Occurs(x, more)
      BY <2>2, <3>1, <3>2, ConcatOccurs
    <3>4. IsFiniteSet(PairsOf(W, x)) /\ Cardinality(PairsOf(W, x)) = Cardinality(PairsOf(V, x)) + Occurs(x, more)
      BY <1>2, PairsGrow
    <3> QED
      BY <1>2, <3>3, <3>4
  <2> HIDE DEF W
  <2>8. Trail(k, W)
    BY <1>3, <2>3, <2>4, <2>5, <2>6, <2>7 DEF Trail, v
  <2> QED
    BY <2>8
<1> QED
  BY <1>5, <1>6

\* An error of a walk stays its error, and a list has no more entries than the sectors walked.
LEMMA WalkBounded ==
    ASSUME ImageConstants, image \in DOMAIN Images, FileOK, Linear, NEW k \in Nat
    PROVE  Len(Visits[k].listed) <= k * DirEntry.count
<1>0. DirEntry.count \in Nat
  BY DEF ImageConstants
<1> DEFINE n == DirEntry.count
           Bad == {i \in Nat : ~ (Len(Visits[i].listed) <= i * n)}
<1>1. SUFFICES ASSUME Bad # {} PROVE FALSE
  OBVIOUS
<1>2. PICK i \in Bad : \A j \in Bad : i <= j
  BY <1>1, LeastNumber
<1>3. i \in Nat /\ i # 0
  <2>1. Visits[0].listed = <<>>
    BY VisitsAre DEF WalkStart
  <2>2. Len(<<>>) = 0 /\ 0 * n = 0
    BY <1>0
  <2> HIDE DEF n
  <2> QED
    BY <1>2, <2>1, <2>2
<1>4. i - 1 \in Nat /\ ~ (i <= i - 1)
  BY <1>3
<1> DEFINE w == Visits[i - 1]
           v == Visits[i]
<1>5. v = Visit(w) /\ w \in WalkStates /\ Len(w.listed) <= (i - 1) * n
  BY <1>2, <1>3, <1>4, VisitsAre
<1>6. (i - 1) * n + n = i * n /\ (i - 1) * n \in Nat
  BY <1>0, <1>3
<1> HIDE DEF v, w, n
<1>7. w.listed \in Seq(Listable) /\ Len(w.listed) \in Nat
  BY <1>5 DEF WalkStates
<1>8. CASE w.error = "None" /\ w.at[1] # 0 /\ LinearError(w.at) = "None"
  <2> DEFINE more == EntriesOf(BlockAt(Rank(w.at) * ImageBlock))
  <2>1. w.at \in ImageAddresses /\ v.listed = w.listed \o more
    BY <1>5, <1>8, VisitTyped
  <2>2. more \in Seq(Listable)
    BY <2>1, EntriesListable
  <2>3. Len(more) \in Nat /\ Len(more) <= n
    BY EntriesCounted DEF n
  <2>4. Len(v.listed) = Len(w.listed) + Len(more)
    BY <1>7, <2>1, <2>2, ConcatProperties
  <2> HIDE DEF more
  <2>5. Len(v.listed) <= i * n
    BY <1>0, <1>5, <1>6, <1>7, <2>3, <2>4 DEF n
  <2> QED
    BY <1>2, <2>5 DEF v, n
<1>9. CASE ~ (w.error = "None" /\ w.at[1] # 0 /\ LinearError(w.at) = "None")
  <2>1. v.listed = w.listed
    <3>1. CASE w.error = "None" /\ w.at[1] # 0 /\ LinearError(w.at) # "None"
      <4>1. v = [w EXCEPT !.error = LinearError(w.at)]
        BY <1>5, <3>1 DEF Visit
      <4>2. w = [at |-> w.at, listed |-> w.listed, error |-> w.error]
        BY <1>5 DEF WalkStates
      <4> QED
        BY <4>1, <4>2
    <3>2. CASE w.error # "None" \/ w.at[1] = 0
      BY <1>5, <3>2, VisitTyped
    <3> QED
      BY <1>9, <3>1, <3>2
  <2>2. Len(v.listed) <= i * n
    BY <1>0, <1>5, <1>6, <1>7, <2>1 DEF n
  <2> QED
    BY <1>2, <2>2 DEF v, n
<1> QED
  BY <1>8, <1>9

LEMMA TrailsExist ==
    ASSUME ImageConstants, image \in DOMAIN Images, FileOK, Linear, EndsInTime
    PROVE  \A k \in 0..DirGuard : Visits[k].error # "None" \/ \E V : Trail(k, V)
<1>0. DirGuard \in Nat
  BY DEF ImageConstants
<1> DEFINE Bad == {k \in 0..DirGuard : ~ (Visits[k].error # "None" \/ \E V : Trail(k, V))}
<1>1. SUFFICES ASSUME Bad # {} PROVE FALSE
  OBVIOUS
<1>2. PICK k \in Bad : \A i \in Bad : k <= i
  <2>1. Bad \subseteq Nat
    OBVIOUS
  <2> HIDE DEF Bad
  <2> QED
    BY <1>1, <2>1, LeastNumber
<1>3. k # 0
  BY <1>2, TrailStarts
<1>4. k \in 1..DirGuard /\ k \in Nat \ {0} /\ k - 1 \in 0..DirGuard /\ k - 1 \in Nat /\ ~ (k <= k - 1)
  BY <1>0, <1>2, <1>3
<1>5. Visits[k - 1].error # "None" \/ \E V : Trail(k - 1, V)
  BY <1>2, <1>4
<1>6. CASE Visits[k - 1].error # "None"
  <2>1. Visits[k] = Visit(Visits[k - 1]) /\ Visits[k - 1] \in WalkStates
    BY <1>4, VisitsAre
  <2>2. Visits[k] = Visits[k - 1]
    BY <1>6, <2>1, VisitTyped
  <2> QED
    BY <1>2, <1>6, <2>2
<1>7. CASE \E V : Trail(k - 1, V)
  BY <1>2, <1>4, <1>7, TrailGrows
<1> QED
  BY <1>5, <1>6, <1>7

LEMMA ListingIs ==
    ASSUME ImageConstants, image \in DOMAIN Images, FileOK, Linear, Walk.error = "None"
    PROVE  /\ Len(Walk.listed) <= DirGuard * DirEntry.count
           /\ EndsInTime => \A x : Occurs(x, Walk.listed) = Cardinality(InChain(x))
<1>0. DirGuard \in Nat
  BY DEF ImageConstants
<1>1. Len(Walk.listed) <= DirGuard * DirEntry.count
  BY <1>0, WalkBounded DEF Walk
<1>2. ASSUME EndsInTime PROVE \A x : Occurs(x, Walk.listed) = Cardinality(InChain(x))
  <2>1. DirGuard \in 0..DirGuard
    BY <1>0
  <2>2. PICK V : Trail(DirGuard, V)
    BY <1>2, <2>1, TrailsExist DEF Walk
  <2>3. /\ V \subseteq ImageAddresses /\ IsFiniteSet(V)
        /\ Reached[DirGuard] = V \cup {Walk.at} /\ Walk.at \notin V
        /\ \A x : Occurs(x, Walk.listed) = Cardinality(PairsOf(V, x))
        /\ Walk.at[1] # 0 => Cardinality(V) = DirGuard
    BY <2>2 DEF Trail, Walk
  <2>4. \A a \in ImageAddresses : a[1] # 0
    BY AddressIs
  <2>5. Walk.at[1] = 0
    <3>1. SUFFICES ASSUME Walk.at[1] # 0 PROVE FALSE
      OBVIOUS
    <3>2. Chained = V \cup {Walk.at}
      BY <2>3, <2>4, <3>1 DEF Chained
    <3>3. Cardinality(Chained) = DirGuard + 1
      BY <2>3, <3>1, <3>2, FS_AddElement
    <3> QED
      BY <1>0, <1>2, <3>3 DEF EndsInTime
  <2>6. Chained = V
    BY <2>3, <2>4, <2>5 DEF Chained
  <2>7. \A x : InChain(x) = PairsOf(V, x)
    BY <2>6 DEF InChain, PairsOf
  <2> QED
    BY <2>3, <2>7
<1> QED
  BY <1>1, <1>2
-----------------------------------------------------------------------------
(* The tracks of an image have bytes of their own.                         *)

LEMMA RowIs ==
    ASSUME NEW table \in Seq([at : Nat, length : Nat]), NEW k \in DOMAIN table
    PROVE  table[k] \in [at : Nat, length : Nat]
<1> DEFINE R == [at : Nat, length : Nat]
<1> HIDE DEF R
<1>1. table \in Seq(R)
  BY DEF R
<1>2. table[k] \in R
  BY <1>1
<1> QED
  BY <1>2 DEF R

LEMMA SliceIs ==
    ASSUME ImageConstants, image \in DOMAIN Images, FileOK, ~ Linear, Parses,
           NEW t \in 1..TrackCount, NEW slice \in SlicesOf(t)
    PROVE  /\ slice.at \in Nat /\ slice.length \in Nat /\ slice.length >= ImageBlock
           /\ slice.at + slice.length <= file.size
           /\ Mount.format = "nib" =>
                /\ StrideOf \in Nat /\ slice.at = (t - 1) * StrideOf /\ slice.length = StrideOf
           /\ (Mount.format = "g64" /\ 2 * t - 1 \in {k \in DOMAIN Mount.table : Usable(k)}) =>
                slice.at = Mount.table[2 * t - 1].at + 2 /\ slice.length = Mount.table[2 * t - 1].length
<1>0. TrackCount \in Nat /\ TrackCount > 0 /\ Stride \in Nat /\ ImageBlock \in Nat /\ file.size \in Nat
  BY DEF ImageConstants, TrackCount, FileOK
<1>1. Mount.table \in Seq([at : Nat, length : Nat]) /\ Mount.format \in {"g64", "nib"}
  <2>1. ImageOK(Mount)
    BY DEF ImageConstants, Mount
  <2> QED
    BY <2>1 DEF ImageOK, Linear, Formats
<1>2. CASE Mount.format = "nib"
  <2> DEFINE n == StrideOf
  <2>1. n \in Nat
    BY <1>0 DEF StrideOf
  <2>2. PICK k \in {u \in {t} : u \in 1..TrackCount /\ u * n <= file.size} :
            slice = [at |-> (t - 1) * n, length |-> n]
    BY <1>2 DEF SlicesOf
  <2>3. n >= ImageBlock
    BY <1>2 DEF Parses
  <2>4. slice.at = (t - 1) * n /\ slice.length = n /\ t * n <= file.size
    BY <2>2
  <2> HIDE DEF n
  <2>5. (t - 1) * n \in Nat /\ (t - 1) * n + n = t * n
    BY <2>1
  <2> QED
    BY <1>2, <2>1, <2>3, <2>4, <2>5 DEF n
<1>3. CASE Mount.format = "g64"
  <2> DEFINE usable == {k \in {2 * t - 1, t} \cap DOMAIN Mount.table : Usable(k)}
  <2>1. PICK k \in {u \in usable : u = 2 * t - 1 \/ 2 * t - 1 \notin usable} :
            slice = [at |-> Mount.table[k].at + 2, length |-> Mount.table[k].length]
    BY <1>3 DEF SlicesOf
  <2>2. k \in DOMAIN Mount.table /\ Usable(k)
    OBVIOUS
  <2>3. Mount.table[k] \in [at : Nat, length : Nat]
    BY <1>1, <2>2, RowIs
  <2>4. Mount.table[k].length >= ImageBlock /\ Mount.table[k].at + 2 + Mount.table[k].length <= file.size
    BY <2>2 DEF Usable, UsableOf
  <2>5. ASSUME 2 * t - 1 \in {u \in DOMAIN Mount.table : Usable(u)} PROVE k = 2 * t - 1
    BY <2>5
  <2> QED
    BY <1>3, <2>1, <2>3, <2>4, <2>5
<1> QED
  BY <1>1, <1>2, <1>3

LEMMA PlaceIn ==
    ASSUME ImageConstants, NEW slice, slice.at \in Nat, slice.length \in Nat, slice.length >= ImageBlock,
           NEW s \in Nat, NEW i \in Within
    PROVE  Places(slice, s)[i] \in slice.at..(slice.at + slice.length - 1)
<1> DEFINE x == s * ImageBlock + i
           n == slice.length
<1>1. ImageBlock \in Nat /\ ImageBlock > 0 /\ i \in Nat
  BY BlockLong DEF Within
<1>2. x \in Nat /\ n \in Nat /\ n > 0
  BY <1>1
<1>3. Places(slice, s)[i] = slice.at + (x % n)
  BY DEF Places
<1> HIDE DEF x, n
<1>4. x % n \in 0..(n - 1)
  BY <1>2
<1> QED
  BY <1>2, <1>3, <1>4 DEF n

LEMMA OwnTrackHolds ==
    ASSUME ImageConstants, image \in DOMAIN Images, FileOK
    PROVE  OwnTrack
<1> SUFFICES ASSUME ~ Linear, Parses,
                    NEW t \in DOMAIN SectorsOf, NEW slice \in SlicesOf(t)
             PROVE  /\ \A s \in 0..SectorsOf[t] : \A i \in Within : Places(slice, s)[i] \in 0..(file.size - 1)
                    /\ \A u \in DOMAIN SectorsOf \ {t} : \A other \in SlicesOf(u) :
                            (Mount.format = "g64" => {2 * t - 1, 2 * u - 1} \subseteq
                                                        {k \in DOMAIN Mount.table : Usable(k)}) =>
                                \A i, j \in Within : Places(slice, 0)[i] # Places(other, 0)[j]
  BY DEF OwnTrack
<1>0. DOMAIN SectorsOf = 1..TrackCount /\ TrackCount \in Nat /\ file.size \in Nat /\ SectorsOf[t] \in Nat
      /\ t \in 1..TrackCount
  BY DEF ImageConstants, TrackCount, FileOK
<1>1. slice.at \in Nat /\ slice.length \in Nat /\ slice.length >= ImageBlock /\ slice.at + slice.length <= file.size
  BY <1>0, SliceIs
<1>2. ASSUME NEW s \in 0..SectorsOf[t], NEW i \in Within
      PROVE  Places(slice, s)[i] \in 0..(file.size - 1)
  <2>1. Places(slice, s)[i] \in slice.at..(slice.at + slice.length - 1)
    BY <1>0, <1>1, PlaceIn
  <2> QED
    BY <1>0, <1>1, <2>1
<1>3. ASSUME NEW u \in DOMAIN SectorsOf \ {t}, NEW other \in SlicesOf(u),
             Mount.format = "g64" => {2 * t - 1, 2 * u - 1} \subseteq {k \in DOMAIN Mount.table : Usable(k)},
             NEW i \in Within, NEW j \in Within
      PROVE  Places(slice, 0)[i] # Places(other, 0)[j]
  <2>1. other.at \in Nat /\ other.length \in Nat /\ other.length >= ImageBlock /\ u \in 1..TrackCount /\ u # t
    BY <1>0, SliceIs
  <2>2. /\ Places(slice, 0)[i] \in slice.at..(slice.at + slice.length - 1)
        /\ Places(other, 0)[j] \in other.at..(other.at + other.length - 1)
    BY <1>1, <2>1, PlaceIn
  <2>3. ImageOK(Mount) /\ Mount.format \in {"g64", "nib"} /\ file.size = Mount.size
    <3>1. ImageOK(Mount)
      BY DEF ImageConstants, Mount
    <3> QED
      BY <3>1 DEF ImageOK, Linear, Formats, FileOK
  <2>4. slice.at + slice.length <= other.at \/ other.at + other.length <= slice.at
    <3>1. CASE Mount.format = "nib"
      <4> DEFINE n == StrideOf
                 r == t - 1
                 q == u - 1
      <4>1. /\ n \in Nat /\ slice.at = r * n /\ slice.length = n
            /\ other.at = q * n /\ other.length = n
        BY <1>0, <2>1, <3>1, SliceIs
      <4>2. r \in Nat /\ q \in Nat /\ (r + 1 <= q \/ q + 1 <= r)
        BY <1>0, <2>1
      <4> HIDE DEF n, r, q
      <4>3. r * n + n <= q * n \/ q * n + n <= r * n
        BY <4>1, <4>2, TimesKeepsOrder
      <4> QED
        BY <4>1, <4>3
    <3>2. CASE Mount.format = "g64"
      <4> DEFINE c == 2 * t - 1
                 d == 2 * u - 1
                 m == Mount
      <4>1. /\ c \in DOMAIN m.table /\ d \in DOMAIN m.table /\ Usable(c) /\ Usable(d)
            /\ slice.at = m.table[c].at + 2 /\ slice.length = m.table[c].length
            /\ other.at = m.table[d].at + 2 /\ other.length = m.table[d].length
        BY <1>0, <1>3, <2>1, <3>2, SliceIs
      <4>2. UsableOf(m.table[c], m.size) /\ UsableOf(m.table[d], m.size)
        BY <2>3, <4>1 DEF Usable
      <4>3. c \in Nat /\ d \in Nat /\ c % 2 = 1 /\ d % 2 = 1 /\ (c < d \/ d < c)
        BY <1>0, <2>1
      <4>4. m.table[c] \in [at : Nat, length : Nat] /\ m.table[d] \in [at : Nat, length : Nat]
        <5>1. m.table \in Seq([at : Nat, length : Nat])
          BY <2>3 DEF ImageOK
        <5> HIDE DEF m
        <5> QED
          BY <4>1, <5>1, RowIs
      <4>5. \A k, l \in DOMAIN m.table :
                (/\ k < l /\ k % 2 = 1 /\ l % 2 = 1
                 /\ \A x \in {k, l} : UsableOf(m.table[x], m.size)) =>
                    m.table[k].at + m.table[k].length <= m.table[l].at
                        \/ m.table[l].at + m.table[l].length <= m.table[k].at
        BY <2>3 DEF ImageOK
      <4> HIDE DEF c, d, m
      <4>6. \A x \in {c, d} : UsableOf(m.table[x], m.size)
        BY <4>2
      <4>7. m.table[c].at + m.table[c].length <= m.table[d].at
                \/ m.table[d].at + m.table[d].length <= m.table[c].at
        <5>1. CASE c < d
          BY <4>1, <4>3, <4>5, <4>6, <5>1
        <5>2. CASE d < c
          BY <4>1, <4>3, <4>5, <4>6, <5>2
        <5> QED
          BY <4>3, <5>1, <5>2
      <4> QED
        BY <4>1, <4>4, <4>7
    <3> QED
      BY <2>3, <3>1, <3>2
  <2> QED
    BY <1>1, <2>1, <2>2, <2>4
<1> QED
  BY <1>2, <1>3
-----------------------------------------------------------------------------
(* The invariant of the images.                                            *)

MountOK ==
    /\ image \in DOMAIN Images /\ steps \in 0..Mount.steps /\ mounted \in BOOLEAN
    /\ profile \in Mount.profiles /\ routed \in Layers \cup {"none"}
ExpectedOK ==
    /\ DOMAIN expected \subseteq ImageAddresses
    /\ Linear => InFile(file.size) \subseteq DOMAIN expected
    /\ Linear => \A a \in DOMAIN expected : BlockAt(Rank(a) * ImageBlock) = expected[a]
EngineOK(x, d) ==
    /\ x = [parsed |-> x.parsed, ok |-> x.ok, relock |-> x.relock, passes |-> x.passes]
    /\ x.parsed \in BOOLEAN /\ x.ok \in BOOLEAN
    /\ DOMAIN x.relock = DOMAIN d
    /\ \A p \in DOMAIN d : RelockOK(x.relock[p], d[p])
    /\ \A p \in DOMAIN x.passes : x.passes[p] \in 0..(PassWrap - 1)
EnginesOK ==
    /\ engine = [e \in Layers |-> engine[e]] /\ decoded = [e \in Layers |-> decoded[e]]
    /\ \A e \in Layers : EngineOK(engine[e], decoded[e])
ChainListed(list) ==
    /\ Len(list) <= DirGuard * DirEntry.count
    /\ EndsInTime => \A x : Occurs(x, list) = Cardinality(InChain(x))
ReplyOK ==
    /\ answer.call # "none" => answer.error \in Errors
    /\ (answer.call = "read" /\ answer.error = "None" /\ Linear) =>
            /\ answer.at \in DOMAIN expected
            /\ Mount.format = "d64" => answer.block = expected[answer.at]
    /\ ClassRecent
    /\ (answer.call = "list" /\ answer.error = "None") => ChainListed(answer.listed)
ImageInv == MountOK /\ FileOK /\ ExpectedOK /\ EnginesOK /\ ReplyOK /\ RoutedByProfile

LEMMA InvImpliesHold ==
    ASSUME ImageConstants, ImageInv
    PROVE  ImagesHold
<1>1. MountOK /\ FileOK /\ ExpectedOK /\ EnginesOK /\ ReplyOK /\ RoutedByProfile
  BY DEF ImageInv
<1>2. ImageTypeOK
  <2>1. ASSUME NEW e \in Layers
        PROVE  /\ engine[e].parsed \in BOOLEAN /\ engine[e].ok \in BOOLEAN
               /\ \A a \in DOMAIN engine[e].passes : engine[e].passes[a] \in 0..(PassWrap - 1)
               /\ \A a \in DOMAIN engine[e].relock :
                       /\ engine[e].relock[a].last \in {HardErrors, SoftErrors}
                       /\ engine[e].relock[a].confidence \in 0..MaxConfidence
    BY <1>1 DEF EnginesOK, EngineOK, RelockOK, Classes
  <2>2. file.there \in BOOLEAN /\ file.size \in Nat /\ file.bytes \in [DOMAIN Mount.bytes -> 0..255]
    BY <1>1 DEF FileOK, Bytes256
  <2>3. answer.call # "none" => answer.error \in Errors
    BY <1>1 DEF ReplyOK
  <2> QED
    BY <1>1, <2>1, <2>2, <2>3 DEF ImageTypeOK, MountOK
<1>3. FileIsBlocks
  BY <1>1 DEF FileIsBlocks, ExpectedOK, ReplyOK
<1>4. OwnTrack
  BY <1>1, OwnTrackHolds DEF MountOK
<1>5. ListsTheChain /\ ClassRecent
  <2>1. ListsTheChain
    BY <1>1 DEF ReplyOK, ChainListed, ListsTheChain
  <2> QED
    BY <1>1, <2>1 DEF ReplyOK
<1> QED
  BY <1>1, <1>2, <1>3, <1>4, <1>5 DEF ImagesHold

LEMMA UnparsedOK == ASSUME ImageConstants PROVE EngineOK(Unparsed, <<>>)
<1>1. DOMAIN <<>> = {}
  OBVIOUS
<1> QED
  BY <1>1 DEF Unparsed, EngineOK

LEMMA ImageInitInv ==
    ASSUME ImageConstants, ImageInit
    PROVE  ImageInv
<1>1. ImageOK(Mount) /\ image \in DOMAIN Images
  BY DEF ImageConstants, Mount, ImageInit
<1> DEFINE m == Mount
<1>2. file = [there |-> TRUE, size |-> m.size, bytes |-> m.bytes]
  BY DEF ImageInit
<1>3. m.size \in Nat /\ m.steps \in Nat /\ m.bytes \in [DOMAIN m.bytes -> Bytes256]
  BY <1>1 DEF ImageOK
<1>4. MountOK
  BY <1>1, <1>3 DEF ImageInit, MountOK, Routing, Layers
<1>5. FileOK
  BY <1>2, <1>3 DEF FileOK
<1>6. ExpectedOK
  BY <1>2 DEF ImageInit, ExpectedOK, InFile
<1>7. EnginesOK
  <2>1. engine = [e \in Layers |-> Unparsed] /\ decoded = [e \in Layers |-> <<>>]
    BY DEF ImageInit, NoClasses
  <2>2. \A e \in Layers : EngineOK(engine[e], decoded[e])
    BY <2>1, UnparsedOK
  <2> QED
    BY <2>1, <2>2 DEF EnginesOK
<1>8. ReplyOK
  <2>1. answer.call = "none"
    BY DEF ImageInit
  <2> QED
    BY <2>1 DEF ReplyOK, ClassRecent
<1>9. RoutedByProfile
  BY <1>2 DEF ImageInit, RoutedByProfile, Routing
<1> QED
  BY <1>4, <1>5, <1>6, <1>7, <1>8, <1>9 DEF ImageInv

\* What an answer that is no reading and no list needs.
LEMMA PlainAnswer ==
    ASSUME answer'.call # "read", answer'.call # "list",
           answer'.call # "none" => answer'.error \in Errors
    PROVE  ReplyOK'
BY DEF ReplyOK, ClassRecent

LEMMA SameFile ==
    ASSUME UNCHANGED <<image, file>>
    PROVE  /\ FileOK => FileOK'
           /\ Linear' = Linear
           /\ UNCHANGED expected => (ExpectedOK => ExpectedOK')
<1>1. Mount' = Mount
  BY DEF Mount
<1> QED
  BY <1>1 DEF FileOK, Linear, ExpectedOK, BlockAt

LEMMA SameChain ==
    ASSUME UNCHANGED file
    PROVE  EndsInTime' = EndsInTime /\ \A x : InChain(x)' = InChain(x)
<1>1. Chained' = Chained
  BY DEF Chained, Reached, Grown, Link
<1>2. EndsInTime' = EndsInTime
  BY <1>1 DEF EndsInTime, Link
<1>3. \A x : InChain(x)' = InChain(x)
  BY <1>1 DEF InChain, LiveAt, EntryAt, BlockAt
<1> QED
  BY <1>2, <1>3

LEMMA StutterKeeps ==
    ASSUME ImageInv, UNCHANGED imageVars
    PROVE  ImageInv'
<1>1. Mount' = Mount
  BY DEF imageVars, Mount
<1>2. MountOK' /\ EnginesOK' /\ RoutedByProfile'
  BY <1>1 DEF ImageInv, imageVars, MountOK, EnginesOK, RoutedByProfile, UsesFlux
<1>3. FileOK' /\ ExpectedOK' /\ Linear' = Linear
  BY SameFile DEF ImageInv, imageVars
<1>4. ClassRecent'
  BY DEF ImageInv, ReplyOK, ClassRecent, imageVars
<1>5. EndsInTime' = EndsInTime /\ (\A x : InChain(x)' = InChain(x))
  BY SameChain DEF imageVars
<1>6. (answer'.call = "list" /\ answer'.error = "None") => ChainListed(answer.listed)'
  BY <1>5 DEF ImageInv, ReplyOK, ChainListed, imageVars
<1>7. ReplyOK'
  BY <1>1, <1>3, <1>4, <1>6 DEF ImageInv, ReplyOK, imageVars
<1> QED
  BY <1>2, <1>3, <1>7 DEF ImageInv

LEMMA CountedOK ==
    ASSUME ImageConstants, image \in DOMAIN Images, steps \in 0..Mount.steps, Counted, image' = image
    PROVE  Mount' = Mount /\ steps' \in 0..(Mount'.steps)
<1>1. ImageOK(Mount) /\ Mount' = Mount
  BY DEF ImageConstants, Mount
<1> QED
  BY <1>1 DEF ImageOK, Counted

LEMMA ProfileKeeps ==
    ASSUME ImageConstants, ImageInv, NEW p \in Mount.profiles, ProfileChanges(p)
    PROVE  ImageInv'
<1>1. Mount' = Mount /\ steps' \in 0..(Mount'.steps)
  BY CountedOK DEF ImageInv, MountOK, ProfileChanges
<1>2. MountOK'
  BY <1>1 DEF ImageInv, MountOK, ProfileChanges, Routing, Layers
<1>3. FileOK' /\ ExpectedOK'
  BY SameFile DEF ImageInv, ProfileChanges
<1>4. EnginesOK'
  BY DEF ImageInv, EnginesOK, ProfileChanges
<1>5. ReplyOK'
  BY PlainAnswer DEF ProfileChanges
<1>6. RoutedByProfile'
  BY <1>1 DEF ImageInv, MountOK, FileOK, ProfileChanges, RoutedByProfile, UsesFlux, Routing
<1> QED
  BY <1>2, <1>3, <1>4, <1>5, <1>6 DEF ImageInv

LEMMA RemountKeeps ==
    ASSUME ImageConstants, ImageInv, NEW attach \in BOOLEAN, Remount(attach)
    PROVE  ImageInv'
<1>1. Mount' = Mount /\ steps' \in 0..(Mount'.steps)
  BY CountedOK DEF ImageInv, MountOK, Remount
<1>2. MountOK'
  BY <1>1 DEF ImageInv, MountOK, Remount, Routing, Layers
<1>3. FileOK' /\ ExpectedOK'
  BY SameFile DEF ImageInv, Remount
<1>4. EnginesOK'
  <2>1. engine' = [e \in Layers |-> Unparsed] /\ decoded' = [e \in Layers |-> <<>>]
    BY DEF Remount, NoClasses
  <2>2. \A e \in Layers : EngineOK(engine'[e], decoded'[e])
    BY <2>1, UnparsedOK
  <2> QED
    BY <2>1, <2>2 DEF EnginesOK
<1>5. ReplyOK'
  BY PlainAnswer DEF Remount
<1>6. RoutedByProfile'
  BY <1>1 DEF ImageInv, MountOK, FileOK, Remount, RoutedByProfile, UsesFlux, Routing
<1> QED
  BY <1>2, <1>3, <1>4, <1>5, <1>6 DEF ImageInv

LEMMA FileMovesKeeps ==
    ASSUME ImageConstants, ImageInv, FileMoves
    PROVE  ImageInv'
<1>1. Mount' = Mount /\ steps' \in 0..(Mount'.steps)
  BY CountedOK DEF ImageInv, MountOK, FileMoves
<1>2. MountOK'
  BY <1>1 DEF ImageInv, MountOK, FileMoves
<1>3. file' = [there |-> ~ file.there, size |-> file.size, bytes |-> file.bytes]
  BY DEF ImageInv, FileOK, FileMoves
<1>4. Mount.unplugs
  BY DEF FileMoves
<1>5. FileOK'
  BY <1>1, <1>3, <1>4 DEF ImageInv, FileOK, Linear
<1>6. ExpectedOK'
  BY <1>1, <1>3 DEF ImageInv, ExpectedOK, Linear, BlockAt, FileMoves
<1>7. EnginesOK'
  BY DEF ImageInv, EnginesOK, FileMoves
<1>8. ReplyOK'
  BY PlainAnswer DEF FileMoves
<1>9. RoutedByProfile'
  BY <1>1 DEF ImageInv, FileMoves, RoutedByProfile, UsesFlux
<1> QED
  BY <1>2, <1>5, <1>6, <1>7, <1>8, <1>9 DEF ImageInv

LEMMA DirectoryKeeps ==
    ASSUME ImageConstants, ImageInv, ReadDirectory
    PROVE  ImageInv'
<1>1. Mount' = Mount /\ steps' \in 0..(Mount'.steps)
  BY CountedOK DEF ImageInv, MountOK, ReadDirectory
<1>2. MountOK'
  BY <1>1 DEF ImageInv, MountOK, ReadDirectory
<1>3. FileOK' /\ ExpectedOK'
  BY SameFile DEF ImageInv, ReadDirectory
<1>4. EnginesOK'
  BY DEF ImageInv, EnginesOK, ReadDirectory
<1>5. RoutedByProfile'
  BY <1>1 DEF ImageInv, ReadDirectory, RoutedByProfile, UsesFlux
<1>6. CASE Mount.format = "d64" /\ Walk.error = "None"
  <2>1. answer'.call = "list" /\ answer'.error = "None" /\ answer'.listed = Walk.listed
    BY <1>6 DEF ReadDirectory
  <2>2. Linear
    BY <1>6 DEF Linear
  <2>3. ChainListed(Walk.listed)
    BY <1>6, <2>2, ListingIs DEF ImageInv, MountOK, ChainListed
  <2>4. EndsInTime' = EndsInTime /\ (\A x : InChain(x)' = InChain(x))
    BY SameChain DEF ReadDirectory
  <2>5. ChainListed(answer.listed)'
    BY <2>1, <2>3, <2>4 DEF ChainListed
  <2> QED
    BY <1>2, <1>3, <1>4, <1>5, <2>1, <2>5 DEF ImageInv, ReplyOK, ClassRecent, Errors
<1>7. CASE ~ (Mount.format = "d64" /\ Walk.error = "None")
  <2> DEFINE error == IF Mount.format = "d64" THEN Walk.error ELSE "IoFailure"
  <2>1. answer' = [call |-> "list", error |-> error]
    BY <1>7 DEF ReadDirectory
  <2>2. error \in Errors /\ error # "None"
    <3>1. CASE Mount.format = "d64"
      <4>1. Linear /\ DirGuard \in Nat
        BY <3>1 DEF Linear, ImageConstants
      <4>2. Walk \in WalkStates
        BY <4>1, VisitsAre DEF Walk, ImageInv, MountOK
      <4> QED
        BY <1>7, <3>1, <4>2 DEF WalkStates
    <3>2. CASE Mount.format # "d64"
      BY <3>2 DEF Errors
    <3> QED
      BY <3>1, <3>2
  <2> HIDE DEF error
  <2>3. ReplyOK'
    BY <2>1, <2>2 DEF ReplyOK, ClassRecent
  <2> QED
    BY <1>2, <1>3, <1>4, <1>5, <2>3 DEF ImageInv
<1> QED
  BY <1>6, <1>7
\* A block that is written is the only one that changes.
LEMMA StoredIs ==
    ASSUME ImageConstants, image \in DOMAIN Images, FileOK, Linear,
           NEW a \in ImageAddresses, NEW block, IsBytes(block), NEW f, f = Stored(a, block)
    PROVE  /\ f = [there |-> file.there, size |-> f.size, bytes |-> f.bytes]
           /\ f.size \in Nat /\ (Rank(a) + 1) * ImageBlock <= f.size
           /\ f.bytes \in [DOMAIN Mount.bytes -> Bytes256]
           /\ \A b \in ImageAddresses :
                [i \in Within |-> f.bytes[Rank(b) * ImageBlock + i]] =
                    IF b = a THEN block ELSE BlockAt(Rank(b) * ImageBlock)
<1> DEFINE at == Offset(a)
           bytes == [o \in DOMAIN file.bytes |-> IF o - at \in Within THEN block[o - at] ELSE file.bytes[o]]
           size == IF file.size > at + ImageBlock THEN file.size ELSE at + ImageBlock
<1>1. at \in Nat /\ at = Rank(a) * ImageBlock /\ Rank(a) \in Nat /\ ImageBlock \in Nat /\ file.size \in Nat
  BY OffsetIs, RankIs, BlockLong DEF FileOK
<1>2. file = [there |-> file.there, size |-> file.size, bytes |-> file.bytes]
      /\ file.bytes \in [DOMAIN Mount.bytes -> Bytes256]
  BY DEF FileOK
<1>3. f = [there |-> file.there, size |-> size, bytes |-> bytes]
  BY <1>2 DEF Stored
<1> DEFINE D == DOMAIN Mount.bytes
<1>4. DOMAIN file.bytes = D /\ D \subseteq Nat /\ \A b \in ImageAddresses : \A i \in Within : Rank(b) * ImageBlock + i \in D
  <2>1. \A b \in ImageAddresses : \A i \in Within : Rank(b) * ImageBlock + i \in D
    BY BlockIsThere, OffsetIs
  <2>2. D \subseteq Nat
    BY DEF ImageConstants, ImageOK, Mount
  <2> QED
    BY <1>2, <2>1, <2>2
<1>5. \A o \in D : bytes[o] = IF o - at \in Within THEN block[o - at] ELSE file.bytes[o]
  BY <1>4
<1>6. block \in [Within -> Bytes256] /\ \A i \in Within : i \in Nat
  BY BlockLong DEF IsBytes, Within
<1>7. bytes \in [D -> Bytes256]
  BY <1>2, <1>4, <1>6
<1>8. size \in Nat /\ (Rank(a) + 1) * ImageBlock <= size
  <2>1. (Rank(a) + 1) * ImageBlock = Rank(a) * ImageBlock + ImageBlock
    BY <1>1
  <2> HIDE DEF at
  <2> QED
    BY <1>1, <2>1
<1> HIDE DEF bytes, size, D
<1>9. ASSUME NEW b \in ImageAddresses
      PROVE  [i \in Within |-> bytes[Rank(b) * ImageBlock + i]] =
                    IF b = a THEN block ELSE BlockAt(Rank(b) * ImageBlock)
  <2> DEFINE from == Rank(b) * ImageBlock
  <2>1. from = Offset(b) /\ from \in Nat
    BY OffsetIs
  <2>2. CASE b = a
    <3>1. \A i \in Within : (from + i) - at = i
      BY <1>1, <1>6, <2>2
    <3>2. \A i \in Within : bytes[from + i] = block[i]
      BY <1>4, <1>5, <3>1
    <3>3. [i \in Within |-> bytes[from + i]] = [i \in Within |-> block[i]]
      BY <3>2
    <3>4. block = [i \in Within |-> block[i]]
      BY <1>6
    <3> QED
      BY <2>2, <3>3, <3>4
  <2>3. CASE b # a
    <3>1. ASSUME NEW i \in Within PROVE bytes[from + i] = file.bytes[from + i]
      <4>1. (from + i) - at \notin Within
        <5>1. SUFFICES ASSUME (from + i) - at \in Within PROVE FALSE
          OBVIOUS
        <5> DEFINE j == (from + i) - at
        <5>2. Rank(a) * ImageBlock + j # Rank(b) * ImageBlock + i
          BY <2>3, <5>1, BlocksApart
        <5>3. at + j = from + i
          BY <1>1, <1>6, <2>1
        <5> QED
          BY <1>1, <5>2, <5>3
      <4> QED
        BY <1>4, <1>5, <4>1
    <3>2. [i \in Within |-> bytes[from + i]] = [i \in Within |-> file.bytes[from + i]]
      BY <3>1
    <3> QED
      BY <2>3, <3>2 DEF BlockAt
  <2> QED
    BY <2>2, <2>3
<1>10. f.there = file.there /\ f.size = size /\ f.bytes = bytes
  BY <1>3
<1> QED
  BY <1>3, <1>7, <1>8, <1>9, <1>10 DEF D

LEMMA FormatIs ==
    ASSUME ImageConstants, image \in DOMAIN Images
    PROVE  /\ Mount.format \in Formats /\ ImageOK(Mount)
           /\ \A a \in Mount.addresses : a \in Nat \X Nat
           /\ \A block \in Mount.blocks : IsBytes(block)
<1>1. ImageOK(Mount)
  BY DEF ImageConstants, Mount
<1> QED
  BY <1>1 DEF ImageOK, IsBytes

\* An object whose state of one address changes.
LEMMA EngineChanges ==
    ASSUME ImageConstants, EnginesOK, NEW e \in Layers, NEW x, NEW d, EngineOK(x, d),
           engine' = [engine EXCEPT ![e] = x], decoded' = [decoded EXCEPT ![e] = d]
    PROVE  EnginesOK' /\ decoded'[e] = d
<1>1. /\ engine' = [l \in Layers |-> IF l = e THEN x ELSE engine[l]]
      /\ decoded' = [l \in Layers |-> IF l = e THEN d ELSE decoded[l]]
  BY DEF EnginesOK
<1>2. \A l \in Layers : EngineOK(engine'[l], decoded'[l])
  BY <1>1 DEF EnginesOK
<1> QED
  BY <1>1, <1>2 DEF EnginesOK

LEMMA ParseKeeps ==
    ASSUME ImageConstants, EnginesOK, NEW e \in Layers
    PROVE  /\ EngineOK(AfterParse(e), decoded[e])
           /\ AfterParse(e).relock = engine[e].relock
<1> DEFINE x == engine[e]
<1>1. EngineOK(x, decoded[e])
  BY DEF EnginesOK
<1>2. x = [parsed |-> x.parsed, ok |-> x.ok, relock |-> x.relock, passes |-> x.passes]
  BY <1>1 DEF EngineOK
<1>3. CASE Linear
  BY <1>1, <1>3 DEF AfterParse
<1>4. CASE ~ Linear
  <2>1. Parsed(e) \in BOOLEAN
    <3>1. x.ok \in BOOLEAN /\ Parses \in BOOLEAN
      BY <1>1 DEF EngineOK, Parses
    <3> QED
      BY <3>1 DEF Parsed
  <2>2. AfterParse(e) = [x EXCEPT !.parsed = TRUE, !.ok = Parsed(e)]
    BY <1>4 DEF AfterParse
  <2>3. AfterParse(e) = [parsed |-> TRUE, ok |-> Parsed(e), relock |-> x.relock, passes |-> x.passes]
    BY <1>2, <2>2
  <2> QED
    BY <1>1, <2>1, <2>3 DEF EngineOK
<1> QED
  BY <1>3, <1>4

LEMMA ClassesKeep ==
    ASSUME ImageConstants, NEW x, NEW d, EngineOK(x, d), NEW index, NEW c \in Classes,
           NEW r, r = Relocked(FoundAt(x.relock, index, Unseen), c),
           NEW l, l = Lately(Append(FoundAt(d, index, <<>>), c))
    PROVE  /\ EngineOK([x EXCEPT !.relock = Noted(x.relock, index, r)], Noted(d, index, l))
           /\ \E k \in DOMAIN l : l[k] = r.last
           /\ Noted(d, index, l)[index] = l
<1> DEFINE was == FoundAt(x.relock, index, Unseen)
           old == FoundAt(d, index, <<>>)
           y == [x EXCEPT !.relock = Noted(x.relock, index, r)]
           n == Noted(d, index, l)
<1>1. x = [parsed |-> x.parsed, ok |-> x.ok, relock |-> x.relock, passes |-> x.passes] /\ DOMAIN x.relock = DOMAIN d
      /\ \A p \in DOMAIN d : RelockOK(x.relock[p], d[p])
  BY DEF EngineOK
<1>2. RelockOK(was, old) \/ (was = Unseen /\ old = <<>>)
  BY <1>1 DEF FoundAt
<1>3. RelockOK(r, l)
  BY <1>2, RelockKeeps
<1> HIDE DEF was, old
<1>4. y = [parsed |-> x.parsed, ok |-> x.ok, relock |-> Noted(x.relock, index, r), passes |-> x.passes]
  BY <1>1
<1>5. /\ DOMAIN Noted(x.relock, index, r) = DOMAIN d \cup {index} /\ DOMAIN n = DOMAIN d \cup {index}
      /\ \A p \in DOMAIN n : RelockOK(Noted(x.relock, index, r)[p], n[p])
      /\ n[index] = l
  BY <1>1, <1>3 DEF Noted
<1> HIDE DEF n
<1>6. EngineOK(y, n)
  BY <1>4, <1>5 DEF EngineOK
<1>7. \E k \in DOMAIN l : l[k] = r.last
  BY <1>3 DEF RelockOK, Recent
<1> QED
  BY <1>5, <1>6, <1>7 DEF n

LEMMA ReadKeeps ==
    ASSUME ImageConstants, ImageInv, NEW a \in Mount.addresses, ReadImage(a)
    PROVE  ImageInv'
<1> DEFINE e == routed
           error == RawError(e, a)
           index == ModelIndex(a)
<1>0. MountOK /\ FileOK /\ ExpectedOK /\ EnginesOK
  BY DEF ImageInv
<1>1. Mount' = Mount /\ steps' \in 0..(Mount'.steps) /\ e \in Layers
  BY CountedOK DEF ImageInv, MountOK, ReadImage
<1>2. MountOK'
  BY <1>1 DEF ImageInv, MountOK, ReadImage
<1>3. FileOK' /\ ExpectedOK' /\ Linear' = Linear
  BY SameFile DEF ImageInv, ReadImage
<1>4. RoutedByProfile'
  BY <1>1 DEF ImageInv, ReadImage, RoutedByProfile, UsesFlux
<1>5. a \in Nat \X Nat /\ Mount.format \in Formats /\ file.size \in Nat
  BY FormatIs DEF ImageInv, MountOK, FileOK
<1>6. error \in Errors
  <2>1. LinearError(a) \in Errors
    BY <1>5, LinearErrorIs
  <2>2. TrackError(e, a) \in Errors
    BY DEF TrackError, Errors
  <2> QED
    BY <2>1, <2>2 DEF RawError
<1>7. (error = "None" /\ Linear) => a \in DOMAIN expected
  <2>1. SUFFICES ASSUME error = "None", Linear PROVE a \in DOMAIN expected
    OBVIOUS
  <2>2. a \in ImageAddresses /\ Offset(a) + ImageBlock <= file.size
    BY <1>5, <2>1, LinearErrorIs DEF RawError
  <2>3. Offset(a) = Rank(a) * ImageBlock /\ Rank(a) \in Nat /\ ImageBlock \in Nat
    BY <2>2, OffsetIs, RankIs, BlockLong
  <2>4. (Rank(a) + 1) * ImageBlock = Rank(a) * ImageBlock + ImageBlock
    BY <2>3
  <2>5. a \in InFile(file.size)
    BY <2>2, <2>3, <2>4 DEF InFile
  <2> QED
    BY <2>1, <2>5 DEF ImageInv, ExpectedOK
<1>8. engine = [l \in Layers |-> engine[l]] /\ decoded = [l \in Layers |-> decoded[l]]
  BY <1>0 DEF EnginesOK
<1>9. /\ EngineOK(AfterParse(e), decoded[e]) /\ AfterParse(e).relock = engine[e].relock
      /\ EngineOK(engine[e], decoded[e])
  BY <1>0, <1>1, ParseKeeps DEF EnginesOK
<1>10. expected' = expected /\ routed' = e
  BY DEF ReadImage
<1>11. CASE /\ error # "None"
            /\ engine' = [engine EXCEPT ![e] = AfterParse(e)]
            /\ answer' = [call |-> "read", at |-> a, error |-> error]
            /\ UNCHANGED decoded
  <2>1. EnginesOK'
    <3>1. decoded' = [decoded EXCEPT ![e] = decoded[e]]
      BY <1>8, <1>11
    <3> HIDE DEF e
    <3> QED
      BY <1>0, <1>1, <1>9, <1>11, <3>1, EngineChanges
  <2>2. ReplyOK'
    BY <1>6, <1>11 DEF ReplyOK, ClassRecent
  <2> QED
    BY <1>2, <1>3, <1>4, <2>1, <2>2 DEF ImageInv
<1>12. CASE /\ error = "None" /\ Mount.format = "d64"
            /\ answer' = [call |-> "read", at |-> a, error |-> error,
                          block |-> [i \in Within |-> file.bytes[RawPlaces(a)[i]]]]
            /\ UNCHANGED <<engine, decoded>>
  <2>1. EnginesOK'
    BY <1>0, <1>12 DEF EnginesOK
  <2>2. Linear
    BY <1>12 DEF Linear
  <2>3. a \in DOMAIN expected /\ a \in ImageAddresses
    BY <1>7, <1>12, <2>2 DEF ImageInv, ExpectedOK
  <2>4. expected[a] = BlockAt(Offset(a))
    BY <2>2, <2>3, OffsetIs DEF ImageInv, ExpectedOK
  <2>5. [i \in Within |-> file.bytes[RawPlaces(a)[i]]] = BlockAt(Offset(a))
    <3>1. \A i \in Within : RawPlaces(a)[i] = Offset(a) + i
      BY <2>2 DEF RawPlaces
    <3> QED
      BY <3>1 DEF BlockAt
  <2>6. ReplyOK'
    <3>1. ClassRecent'
      BY <1>12 DEF ClassRecent
    <3> QED
      BY <1>6, <1>10, <1>12, <2>3, <2>4, <2>5, <3>1 DEF ReplyOK
  <2> QED
    BY <1>2, <1>3, <1>4, <2>1, <2>6 DEF ImageInv
<1>13. CASE /\ error = "None" /\ Mount.format # "d64"
            /\ \E block \in {[i \in Within |-> file.bytes[RawPlaces(a)[i]]]} :
               \E class \in {Class(block)} :
               \E relock \in {Relocked(FoundAt(engine[e].relock, index, Unseen), class)} :
                    /\ engine' = [engine EXCEPT ![e] =
                                    [AfterParse(e) EXCEPT !.relock = Noted(@, index, relock)]]
                    /\ answer' = [call |-> "read", at |-> a, error |-> error, class |-> relock.last,
                                  block |-> Zoned(a[1], Decode(a, block, relock.last))]
                    /\ decoded' = [decoded EXCEPT ![e] =
                                    Noted(@, index, Lately(Append(FoundAt(@, index, <<>>), class)))]
  <2>1. PICK block, relock, class :
            /\ class \in Classes
            /\ relock = Relocked(FoundAt(engine[e].relock, index, Unseen), class)
            /\ engine' = [engine EXCEPT ![e] =
                                    [AfterParse(e) EXCEPT !.relock = Noted(@, index, relock)]]
            /\ answer' = [call |-> "read", at |-> a, error |-> error, class |-> relock.last, block |-> block]
            /\ decoded' = [decoded EXCEPT ![e] =
                                    Noted(@, index, Lately(Append(FoundAt(@, index, <<>>), class)))]
    <3>1. PICK found : \E class \in {Class(found)} :
               \E relock \in {Relocked(FoundAt(engine[e].relock, index, Unseen), class)} :
                    /\ engine' = [engine EXCEPT ![e] =
                                    [AfterParse(e) EXCEPT !.relock = Noted(@, index, relock)]]
                    /\ answer' = [call |-> "read", at |-> a, error |-> error, class |-> relock.last,
                                  block |-> Zoned(a[1], Decode(a, found, relock.last))]
                    /\ decoded' = [decoded EXCEPT ![e] =
                                    Noted(@, index, Lately(Append(FoundAt(@, index, <<>>), class)))]
      BY <1>13
    <3> DEFINE c == Class(found)
               r == Relocked(FoundAt(engine[e].relock, index, Unseen), c)
               b == Zoned(a[1], Decode(a, found, r.last))
    <3>2. c \in Classes
      BY ClassIs
    <3>3. /\ engine' = [engine EXCEPT ![e] = [AfterParse(e) EXCEPT !.relock = Noted(@, index, r)]]
          /\ answer' = [call |-> "read", at |-> a, error |-> error, class |-> r.last, block |-> b]
          /\ decoded' = [decoded EXCEPT ![e] = Noted(@, index, Lately(Append(FoundAt(@, index, <<>>), c)))]
      <4> HIDE DEF e, error, index
      <4> QED
        BY <3>1
    <3>4. r = Relocked(FoundAt(engine[e].relock, index, Unseen), c)
      OBVIOUS
    <3> HIDE DEF e, error, index, c, r, b
    <3> QED
      BY <3>2, <3>3, <3>4
  <2> DEFINE x == AfterParse(e)
             l == Lately(Append(FoundAt(decoded[e], index, <<>>), class))
             y == [x EXCEPT !.relock = Noted(x.relock, index, relock)]
             d == Noted(decoded[e], index, l)
  <2>2. relock = Relocked(FoundAt(x.relock, index, Unseen), class)
    BY <1>9, <2>1
  <2>3. EngineOK(y, d) /\ (\E k \in DOMAIN l : l[k] = relock.last) /\ d[index] = l
    <3>1. EngineOK(x, decoded[e]) /\ class \in Classes /\ l = Lately(Append(FoundAt(decoded[e], index, <<>>), class))
      BY <1>9, <2>1
    <3> HIDE DEF x, l, index, e
    <3> QED
      BY <2>2, <3>1, ClassesKeep
  <2>4. engine' = [engine EXCEPT ![e] = y] /\ decoded' = [decoded EXCEPT ![e] = d]
    BY <1>8, <2>1
  <2> HIDE DEF x, y, d, l, index, error, e
  <2>5. EnginesOK' /\ decoded'[e] = d
    BY <1>0, <1>1, <2>3, <2>4, EngineChanges
  <2>6. ClassRecent'
    <3>1. ModelIndex(answer'.at) = index /\ answer'.class = relock.last
      BY <2>1 DEF index
    <3> QED
      BY <1>10, <2>3, <2>5, <3>1 DEF ClassRecent
  <2>7. ReplyOK'
    BY <1>1, <1>3, <1>6, <1>7, <1>10, <1>13, <2>1, <2>6 DEF ReplyOK
  <2> QED
    BY <1>2, <1>3, <1>4, <2>5, <2>7 DEF ImageInv
<1> QED
  BY <1>11, <1>12, <1>13 DEF ReadImage

LEMMA WriteKeeps ==
    ASSUME ImageConstants, ImageInv, NEW a \in Mount.addresses, NEW block \in Mount.blocks, WriteImage(a, block)
    PROVE  ImageInv'
<1> DEFINE e == routed
           index == ModelIndex(a)
           pass == FoundAt(engine[e].passes, index, 0)
<1>0. MountOK /\ FileOK /\ ExpectedOK /\ EnginesOK
  BY DEF ImageInv
<1>1. Mount' = Mount /\ steps' \in 0..(Mount'.steps) /\ e \in Layers /\ Linear' = Linear
  BY CountedOK DEF ImageInv, MountOK, WriteImage, Linear
<1>2. MountOK'
  BY <1>1 DEF ImageInv, MountOK, WriteImage
<1>3. RoutedByProfile'
  BY <1>1 DEF ImageInv, WriteImage, RoutedByProfile, UsesFlux
<1>4. a \in Nat \X Nat /\ Mount.format \in Formats /\ IsBytes(block) /\ file.size \in Nat
  BY FormatIs DEF ImageInv, MountOK, FileOK
<1>5. EngineOK(engine[e], decoded[e]) /\ PassWrap \in Nat /\ PassWrap > 0
  BY <1>0, <1>1 DEF EnginesOK, ImageConstants
<1>6. pass \in Nat
  BY <1>5 DEF FoundAt, EngineOK
<1>7. EnginesOK'
  <2> DEFINE x == engine[e]
             y == [x EXCEPT !.passes = Noted(x.passes, index, (pass + 1) % PassWrap)]
             d == decoded[e]
  <2>1. engine = [l \in Layers |-> engine[l]] /\ decoded = [l \in Layers |-> decoded[l]] /\ decoded' = decoded
    BY <1>0 DEF EnginesOK, WriteImage
  <2>2. CASE Mount.format = "raw" /\ Level4
    <3>1. engine' = [engine EXCEPT ![e].passes = Noted(@, index, (pass + 1) % PassWrap)]
      BY <2>2 DEF WriteImage
    <3>2. engine' = [engine EXCEPT ![e] = y] /\ decoded' = [decoded EXCEPT ![e] = d]
      BY <1>1, <2>1, <3>1
    <3>3. x = [parsed |-> x.parsed, ok |-> x.ok, relock |-> x.relock, passes |-> x.passes]
      BY <1>5 DEF EngineOK
    <3>4. (pass + 1) % PassWrap \in 0..(PassWrap - 1)
      BY <1>5, <1>6
    <3> HIDE DEF pass, index
    <3>5. y = [parsed |-> x.parsed, ok |-> x.ok, relock |-> x.relock,
               passes |-> Noted(x.passes, index, (pass + 1) % PassWrap)]
      BY <3>3
    <3>6. \A p \in DOMAIN Noted(x.passes, index, (pass + 1) % PassWrap) :
                Noted(x.passes, index, (pass + 1) % PassWrap)[p] \in 0..(PassWrap - 1)
      BY <1>5, <3>4 DEF EngineOK, Noted
    <3>7. EngineOK(y, d)
      BY <1>5, <3>5, <3>6 DEF EngineOK
    <3> HIDE DEF y, x, d, e
    <3> QED
      BY <1>0, <1>1, <3>2, <3>7, EngineChanges
  <2>3. CASE ~ (Mount.format = "raw" /\ Level4)
    <3>1. engine' = engine
      BY <2>3 DEF WriteImage
    <3> QED
      BY <1>0, <2>1, <3>1 DEF EnginesOK
  <2> QED
    BY <2>2, <2>3
<1> HIDE DEF pass, index, e
<1>8. WriteError(a) \in Errors /\ answer' = [call |-> "write", at |-> a, error |-> WriteError(a)]
  BY DEF WriteError, Errors, WriteImage
<1>9. ReplyOK'
  <2>1. answer'.call = "write" /\ answer'.error \in Errors
    BY <1>8
  <2> QED
    BY <2>1, PlainAnswer
<1>10. image' = image
  BY DEF WriteImage
<1>11. CASE WriteError(a) # "None"
  <2>1. UNCHANGED <<file, expected>>
    BY <1>11 DEF WriteImage
  <2>2. FileOK' /\ ExpectedOK'
    BY <1>0, <1>10, <2>1, SameFile
  <2> QED
    BY <1>2, <1>3, <1>7, <1>9, <2>2 DEF ImageInv
<1>12. CASE WriteError(a) = "None"
  <2>1. PICK mark : /\ file' = Stored(a, OnDisk(a, block, pass, mark))
                    /\ expected' = ExpectedAfter(a, OnDisk(a, block, pass, mark), file'.size)
    BY <1>12 DEF WriteImage, pass, index, e
  <2> DEFINE stored == OnDisk(a, block, pass, mark)
  <2>2. IsBytes(stored)
    BY <1>4, <1>6, OnDiskIsBytes
  <2>3. Linear /\ a \in ImageAddresses
    <3>1. Mount.format \notin {"g64", "nib"}
      BY <1>12 DEF WriteError
    <3>2. Linear
      BY <1>4, <3>1 DEF Linear, Formats
    <3>3. ValidChs(a)
      BY <1>12, <3>2 DEF WriteError
    <3> QED
      BY <1>4, <3>2, <3>3, AddressIs
  <2> HIDE DEF stored
  <2>4. /\ file' = [there |-> file.there, size |-> file'.size, bytes |-> file'.bytes]
        /\ file'.size \in Nat /\ (Rank(a) + 1) * ImageBlock <= file'.size
        /\ file'.bytes \in [DOMAIN Mount.bytes -> Bytes256]
        /\ \A b \in ImageAddresses :
             [i \in Within |-> file'.bytes[Rank(b) * ImageBlock + i]] =
                 IF b = a THEN stored ELSE BlockAt(Rank(b) * ImageBlock)
    <3>1. file' = Stored(a, stored)
      BY <2>1 DEF stored
    <3> QED
      BY <1>0, <2>2, <2>3, <3>1, StoredIs DEF MountOK
  <2>5. FileOK'
    <3>1. file'.there = file.there
      BY <2>4
    <3> QED
      BY <1>0, <1>1, <2>3, <2>4, <3>1 DEF FileOK
  <2>6. a \in InFile(file'.size) /\ InFile(file'.size) \subseteq ImageAddresses
    BY <2>3, <2>4 DEF InFile
  <2>7. /\ DOMAIN expected' = DOMAIN expected \cup InFile(file'.size)
        /\ \A b \in DOMAIN expected' :
                expected'[b] = IF b = a THEN stored ELSE FoundAt(expected, b, BlockAt(Rank(b) * ImageBlock))
    BY <2>1 DEF ExpectedAfter, stored
  <2>8. \A b \in DOMAIN expected' : b \in ImageAddresses
    BY <1>0, <2>6, <2>7 DEF ExpectedOK
  <2>9. \A b \in DOMAIN expected' : [i \in Within |-> file'.bytes[Rank(b) * ImageBlock + i]] = expected'[b]
    <3>1. \A b : FoundAt(expected, b, BlockAt(Rank(b) * ImageBlock)) = BlockAt(Rank(b) * ImageBlock)
      BY <1>0, <2>3 DEF ExpectedOK, FoundAt
    <3> QED
      BY <2>4, <2>7, <2>8, <3>1
  <2>10. ExpectedOK'
    BY <2>7, <2>8, <2>9 DEF ExpectedOK, BlockAt, InFile
  <2> QED
    BY <1>2, <1>3, <1>7, <1>9, <2>5, <2>10 DEF ImageInv
<1> QED
  BY <1>11, <1>12

LEMMA ImageNextInv ==
    ASSUME ImageConstants, ImageInv, ImageNext
    PROVE  ImageInv'
<1>1. CASE \E a \in Mount.addresses : ReadImage(a)
  BY <1>1, ReadKeeps
<1>2. CASE \E a \in Mount.addresses : \E block \in Mount.blocks : WriteImage(a, block)
  BY <1>2, WriteKeeps
<1>3. CASE ReadDirectory
  BY <1>3, DirectoryKeeps
<1>4. CASE \E p \in Mount.profiles : ProfileChanges(p)
  BY <1>4, ProfileKeeps
<1>5. CASE \E attach \in BOOLEAN : Remount(attach)
  BY <1>5, RemountKeeps
<1>6. CASE FileMoves
  BY <1>6, FileMovesKeeps
<1> QED
  BY <1>1, <1>2, <1>3, <1>4, <1>5, <1>6 DEF ImageNext

\* The images: types, blocks that lie in the file where their addresses say, tracks of their
\* own, relock states that lag behind their classes by no more than their confidence, lists
\* that are the chain, and the layer the profile asks for.
THEOREM ImageInvariant ==
    ASSUME ImageConstants
    PROVE  ImageSpec => []ImageInv
<1>1. ImageInit => ImageInv
  BY ImageInitInv
<1>2. ImageInv /\ [ImageNext]_imageVars => ImageInv'
  BY ImageNextInv, StutterKeeps
<1> QED
  BY <1>1, <1>2, PTL DEF ImageSpec

\* Whatever the images whose g64 tracks do not overlap (ImageConstants assumes it; the code does
\* not check it), and the programs that read and write them: the file is its blocks, a
\* track shows its own bytes, the class of a block is one it had lately, a directory that ends
\* is listed whole, and the layer is the one the profile asks for.
THEOREM ImagesCorrect ==
    ASSUME ImageConstants
    PROVE  ImageSpec => []ImagesHold
<1>1. ImageInv => ImagesHold
  BY InvImpliesHold
<1> QED
  BY <1>1, ImageInvariant, PTL

===============================================================================
