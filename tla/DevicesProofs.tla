---------------------------- MODULE DevicesProofs ----------------------------
(***************************************************************************)
(* The CIA, for every chip and program, every size of a byte and every     *)
(* wheel of the clock: its events, its clock, its bytes.  The console, for *)
(* every number of drives and every session: the search through the cables *)
(* finds the shortest ways, and the lines arrive after them.  The bus, for *)
(* every program: a read answers what was written, from the chip the       *)
(* banks choose.  The read channel, for every drive and every track: the   *)
(* loop stays locked, and the codec finds back after a mark.  The drive's  *)
(* processor, for every ROM: it goes where the 6502 goes, what was pushed  *)
(* comes back, and sums are sums.                                          *)
(***************************************************************************)
EXTENDS Cia6526, Console, ReadChannel, Bus, DriveCpu,
        FiniteSetTheorems, WellFoundedInduction, SequenceTheorems, TLAPS

-----------------------------------------------------------------------------
(* The CIA: its invariant, in the parts that a step changes together.      *)

Top == TimerByte * TimerByte - 1
TimerType == [latch : 0..Top, count : 0..Top, started : BOOLEAN, oneShot : BOOLEAN]
PinType == [cnt : BOOLEAN, sp : BOOLEAN, flag : BOOLEAN]
SeenType == [cnt : BOOLEAN, flag : BOOLEAN]
SerialType == [sdr : SerialBytes, shift : SerialBytes, inCount : 0..(Bits - 1), busy : BOOLEAN,
               outCount : 0..(Bits - 1), divider : 0..chip.shiftReload]

Rest ==
    /\ ciaProgram \in DOMAIN CiaPrograms /\ chip \in Allowed.chips /\ half \in BOOLEAN
    /\ timer \in [1..2 -> TimerType] /\ control \in [out : BOOLEAN, alarm : BOOLEAN]
    /\ pin \in PinType /\ seenPin \in SeenType

InterruptOK ==
    /\ {icr, ier, deferred, unread} \subseteq SUBSET Events /\ irq \in BOOLEAN
    /\ EventsKept /\ Bit7Exact

\* A reader holds the clock in the latch, and a writer of a 6526 holds it by stopping it.
ReadsTogether == snap # {} => latched /\ snap = {latch}
SetsTogether == chip.writeStops /\ wrote # {} => ~running /\ wrote = {tod}
ClockOK ==
    /\ {tod, alarm, latch} \subseteq ClockTimes /\ tod.hours > 0
    /\ latched \in BOOLEAN /\ running \in BOOLEAN /\ divider \in 0..(Wrap - 1)
    /\ ReadsTogether /\ SetsTogether

\* Place by place, the bits that went out and those still to go are the byte's, and the bits
\* that came in are the last ones of the shift register.
OneBit == {0, 1}
Sending(s, r) ==
    /\ s \in Seq(OneBit) /\ Len(s) = IF r.busy THEN r.outCount ELSE Bits
    /\ \A i \in 1..Len(s) : s[i] = r.sdr[i]
    /\ \A i \in 1..(Bits - Len(s)) : r.shift[i] = r.sdr[Len(s) + i]
Receiving(g, r) ==
    /\ g \in Seq(OneBit) /\ Len(g) = r.inCount
    /\ \A i \in 1..Len(g) : g[i] = r.shift[Bits - Len(g) + i]
SerialOK ==
    /\ serial \in SerialType
    /\ \A s \in sent : Sending(s, serial)
    /\ \A g \in got : Receiving(g, serial)

IInv == Rest /\ InterruptOK /\ ClockOK /\ SerialOK

-----------------------------------------------------------------------------
(* The constants, and helpers.                                             *)

LEMMA Numbers ==
    ASSUME CiaConstants
    PROVE  /\ TimerByte \in Nat /\ 0 < TimerByte /\ Bits \in Nat /\ 0 < Bits /\ Wrap \in Nat /\ 0 < Wrap
           /\ Tenths \in Nat /\ 0 < Tenths /\ Sixty \in Nat /\ 0 < Sixty
           /\ Twelve \in Nat /\ 0 < Twelve
BY DEF CiaConstants

LEMMA MayDo ==
    ASSUME CiaConstants, Rest
    PROVE  ProgramOK(Allowed)
BY DEF CiaConstants, Rest, Allowed

LEMMA ChipFields ==
    ASSUME CiaConstants, Rest
    PROVE  /\ chip.clearsLatch \in BOOLEAN /\ chip.writeStops \in BOOLEAN
           /\ chip.flagAtOnce \in BOOLEAN /\ chip.shiftReload \in Nat
BY MayDo DEF Rest, ProgramOK

LEMMA Squares ==
    ASSUME CiaConstants
    PROVE  Top \in Nat
<1>1. TimerByte \in Nat /\ 0 < TimerByte
  BY Numbers
<1>2. TimerByte * 1 <= TimerByte * TimerByte
  BY <1>1
<1> QED
  BY <1>1, <1>2 DEF Top

\* A byte put into the high or the low half of a latch gives a value of two bytes.
LEMMA TwoBytes ==
    ASSUME CiaConstants, NEW b \in 0..(TimerByte - 1), NEW latched0 \in 0..Top
    PROVE  /\ (TimerByte * b) + (latched0 % TimerByte) \in 0..Top
           /\ TimerByte * (latched0 \div TimerByte) + b \in 0..Top
<1>1. TimerByte \in Nat /\ 0 < TimerByte /\ b \in Nat /\ b <= TimerByte - 1
  BY Numbers
<1>2. latched0 \in Nat /\ latched0 < TimerByte * TimerByte
  BY <1>1 DEF Top
<1>3. TimerByte * (b + 1) <= TimerByte * TimerByte
  BY <1>1
<1>4. TimerByte * (b + 1) = TimerByte * b + TimerByte
  BY <1>1
<1>5. latched0 % TimerByte \in 0..(TimerByte - 1)
  BY <1>1, <1>2
<1>6. (TimerByte * b) + (latched0 % TimerByte) \in 0..Top
  BY <1>1, <1>3, <1>4, <1>5 DEF Top
<1>7. latched0 \div TimerByte \in 0..(TimerByte - 1)
  BY <1>1, <1>2
<1>8. TimerByte * ((latched0 \div TimerByte) + 1) <= TimerByte * TimerByte
  BY <1>1, <1>7
<1>9. TimerByte * ((latched0 \div TimerByte) + 1) = TimerByte * (latched0 \div TimerByte) + TimerByte
  BY <1>1, <1>7
<1>10. TimerByte * (latched0 \div TimerByte) + b \in 0..Top
  BY <1>1, <1>7, <1>8, <1>9 DEF Top
<1> QED
  BY <1>6, <1>10

\* A bit shifted into a register moves every other one place up.
LEMMA BitShifts ==
    ASSUME CiaConstants, NEW r \in SerialBytes, NEW b \in OneBit
    PROVE  /\ Append(Tail(r), b) \in SerialBytes
           /\ \A j \in 1..(Bits - 1) : Append(Tail(r), b)[j] = r[j + 1]
           /\ Append(Tail(r), b)[Bits] = b
           /\ Head(r) = r[1] /\ r[1] \in OneBit
<1>1. Bits \in Nat /\ 0 < Bits
  BY Numbers
<1>2. r \in Seq(OneBit) /\ Len(r) = Bits
  BY <1>1 DEF SerialBytes, OneBit
<1>3. r # <<>>
  BY <1>1, <1>2
<1>4. /\ Tail(r) \in Seq(OneBit) /\ Len(Tail(r)) = Bits - 1
      /\ \A i \in 1..(Bits - 1) : Tail(r)[i] = r[i + 1]
  BY <1>2, <1>3, HeadTailProperties
<1> DEFINE t == Tail(r)
<1> HIDE DEF t
<1>5. t \in Seq(OneBit) /\ Len(t) = Bits - 1
  BY <1>4 DEF t
<1>6. /\ Append(t, b) \in Seq(OneBit) /\ Len(Append(t, b)) = Bits
      /\ \A i \in 1..(Bits - 1) : Append(t, b)[i] = t[i]
      /\ Append(t, b)[Bits] = b
  BY <1>1, <1>5
<1>7. Append(t, b) \in [1..Bits -> OneBit]
  BY <1>6, LenProperties
<1>8. Append(t, b) \in SerialBytes
  BY <1>7 DEF SerialBytes, OneBit
<1>9. r[1] \in OneBit
  BY <1>1, <1>2
<1> QED
  BY <1>2, <1>3, <1>4, <1>6, <1>8, <1>9 DEF t

-----------------------------------------------------------------------------
(* What a half-cycle does to the timers and the clock.                     *)

LEMMA TimersTick ==
    ASSUME CiaConstants, Rest
    PROVE  TimerAfter \in [1..2 -> TimerType]
<1>1. SUFFICES ASSUME NEW i \in 1..2
               PROVE  TimerAfter[i] \in TimerType
  BY DEF TimerAfter
<1>2. timer[i] \in TimerType /\ Top \in Nat
  BY Squares DEF Rest
<1> DEFINE t == timer[i]
           loaded == [t EXCEPT !.count = t.latch]
<1>3. CASE Underflows(i)
  <2>1. TimerAfter[i] = [t EXCEPT !.count = t.latch, !.started = ~t.oneShot]
    BY <1>3 DEF TimerAfter
  <2> HIDE DEF t
  <2>2. t \in TimerType
    BY <1>2 DEF t
  <2>3. loaded \in TimerType
    BY <2>2 DEF TimerType
  <2>4. [t EXCEPT !.count = t.latch, !.started = ~t.oneShot] = [loaded EXCEPT !.started = ~t.oneShot]
    BY Zenon
  <2> HIDE DEF loaded
  <2>5. [loaded EXCEPT !.started = ~t.oneShot] \in TimerType
    BY <2>2, <2>3 DEF TimerType
  <2> QED
    BY <2>1, <2>4, <2>5
<1>4. CASE ~Underflows(i) /\ ~half /\ timer[i].started
  <2>1. t.count # 0
    BY <1>4 DEF Underflows
  <2>2. TimerAfter[i] = [t EXCEPT !.count = t.count - 1]
    BY <1>4 DEF TimerAfter
  <2> HIDE DEF t
  <2>3. t \in TimerType
    BY <1>2 DEF t
  <2>4. [t EXCEPT !.count = t.count - 1] \in TimerType
    BY <1>2, <2>1, <2>3 DEF TimerType
  <2> QED
    BY <2>2, <2>4
<1>5. CASE ~Underflows(i) /\ ~(~half /\ timer[i].started)
  <2>1. TimerAfter[i] = timer[i]
    BY <1>5 DEF TimerAfter
  <2> QED
    BY <1>2, <2>1
<1> QED
  BY <1>3, <1>4, <1>5

\* A wheel of a time may be set by itself.
LEMMA WheelsTurn ==
    ASSUME CiaConstants, NEW t \in ClockTimes
    PROVE  /\ \A h \in 0..Twelve : [t EXCEPT !.hours = h] \in ClockTimes /\ [t EXCEPT !.hours = h].hours = h
           /\ \A b \in BOOLEAN : [t EXCEPT !.pm = b] \in ClockTimes /\ [t EXCEPT !.pm = b].hours = t.hours
           /\ \A n \in 0..(Sixty - 1) :
                [t EXCEPT !.minutes = n] \in ClockTimes /\ [t EXCEPT !.minutes = n].hours = t.hours
           /\ \A n \in 0..(Sixty - 1) :
                [t EXCEPT !.seconds = n] \in ClockTimes /\ [t EXCEPT !.seconds = n].hours = t.hours
           /\ \A n \in 0..(Tenths - 1) :
                [t EXCEPT !.tenths = n] \in ClockTimes /\ [t EXCEPT !.tenths = n].hours = t.hours
<1>1. \A h \in 0..Twelve : [t EXCEPT !.hours = h] \in ClockTimes /\ [t EXCEPT !.hours = h].hours = h
  BY DEF ClockTimes
<1>2. \A b \in BOOLEAN : [t EXCEPT !.pm = b] \in ClockTimes /\ [t EXCEPT !.pm = b].hours = t.hours
  BY DEF ClockTimes
<1>3. \A n \in 0..(Sixty - 1) :
        [t EXCEPT !.minutes = n] \in ClockTimes /\ [t EXCEPT !.minutes = n].hours = t.hours
  BY DEF ClockTimes
<1>4. \A n \in 0..(Sixty - 1) :
        [t EXCEPT !.seconds = n] \in ClockTimes /\ [t EXCEPT !.seconds = n].hours = t.hours
  BY DEF ClockTimes
<1>5. \A n \in 0..(Tenths - 1) :
        [t EXCEPT !.tenths = n] \in ClockTimes /\ [t EXCEPT !.tenths = n].hours = t.hours
  BY DEF ClockTimes
<1> QED
  BY <1>1, <1>2, <1>3, <1>4, <1>5

LEMMA ClockMoves ==
    ASSUME CiaConstants, NEW t \in ClockTimes, t.hours > 0
    PROVE  NextTime(t) \in ClockTimes /\ NextTime(t).hours > 0
<1>1. /\ Tenths \in Nat /\ 0 < Tenths /\ Sixty \in Nat /\ 0 < Sixty /\ Twelve \in Nat /\ 0 < Twelve
  BY Numbers
<1>2. /\ t.hours \in 0..Twelve /\ t.pm \in BOOLEAN /\ t.minutes \in 0..(Sixty - 1)
      /\ t.seconds \in 0..(Sixty - 1) /\ t.tenths \in 0..(Tenths - 1)
  BY DEF ClockTimes
<1> DEFINE a == [t EXCEPT !.tenths = 0]
           b == [a EXCEPT !.seconds = 0]
           c == [b EXCEPT !.minutes = 0]
<1>3. CASE t.tenths + 1 < Tenths
  <2>1. NextTime(t) = [t EXCEPT !.tenths = t.tenths + 1]
    BY <1>3 DEF NextTime
  <2>2. t.tenths + 1 \in 0..(Tenths - 1)
    BY <1>1, <1>2, <1>3
  <2> QED
    BY <2>1, <2>2, WheelsTurn
<1>4. a \in ClockTimes /\ a.hours = t.hours
  <2>1. 0 \in 0..(Tenths - 1)
    BY <1>1
  <2> QED
    BY <2>1, WheelsTurn
<1>5. CASE ~(t.tenths + 1 < Tenths) /\ t.seconds + 1 < Sixty
  <2>1. NextTime(t) = [a EXCEPT !.seconds = t.seconds + 1]
    BY <1>5, Zenon DEF NextTime
  <2>2. t.seconds + 1 \in 0..(Sixty - 1)
    BY <1>1, <1>2, <1>5
  <2> HIDE DEF a
  <2> QED
    BY <1>4, <2>1, <2>2, WheelsTurn
<1>6. b \in ClockTimes /\ b.hours = t.hours
  <2>1. 0 \in 0..(Sixty - 1)
    BY <1>1
  <2> HIDE DEF a
  <2> QED
    BY <1>4, <2>1, WheelsTurn
<1>7. CASE ~(t.tenths + 1 < Tenths) /\ ~(t.seconds + 1 < Sixty) /\ t.minutes + 1 < Sixty
  <2>1. NextTime(t) = [b EXCEPT !.minutes = t.minutes + 1]
    BY <1>7, Zenon DEF NextTime
  <2>2. t.minutes + 1 \in 0..(Sixty - 1)
    BY <1>1, <1>2, <1>7
  <2> HIDE DEF b
  <2> QED
    BY <1>6, <2>1, <2>2, WheelsTurn
<1>8. c \in ClockTimes /\ c.hours = t.hours
  <2>1. 0 \in 0..(Sixty - 1)
    BY <1>1
  <2> HIDE DEF b
  <2> QED
    BY <1>6, <2>1, WheelsTurn
<1>9. CASE ~(t.tenths + 1 < Tenths) /\ ~(t.seconds + 1 < Sixty) /\ ~(t.minutes + 1 < Sixty)
  <2>1. NextTime(t) = NextHour(c)
    BY <1>9, Zenon DEF NextTime
  <2> HIDE DEF c
  <2> DEFINE n == IF c.hours = Twelve THEN 1 ELSE c.hours + 1
             m == IF n = Twelve THEN ~c.pm ELSE c.pm
             d == [c EXCEPT !.hours = n]
  <2>2. NextHour(c) = [d EXCEPT !.pm = m]
    BY Zenon DEF NextHour
  <2>3. n \in 0..Twelve /\ n > 0
    BY <1>1, <1>2, <1>8
  <2> HIDE DEF n
  <2>4. m \in BOOLEAN
    BY <1>8 DEF ClockTimes
  <2> HIDE DEF m
  <2>5. d \in ClockTimes /\ d.hours = n
    BY <1>8, <2>3, WheelsTurn
  <2> HIDE DEF d
  <2> QED
    BY <2>1, <2>2, <2>3, <2>4, <2>5, WheelsTurn
<1> QED
  BY <1>3, <1>5, <1>7, <1>9

-----------------------------------------------------------------------------
(* The serial register.                                                    *)

\* A bit that comes in is the next one of what came in.
LEMMA BitComesIn ==
    ASSUME CiaConstants, NEW r \in SerialType, NEW q \in SerialType, NEW b \in OneBit, NEW g,
           Receiving(g, r), q.shift = Append(Tail(r.shift), b), q.inCount = r.inCount + 1
    PROVE  Receiving(Append(g, b), q)
<1>1. Bits \in Nat /\ 0 < Bits
  BY Numbers
<1>2. /\ r.shift \in SerialBytes /\ q.shift \in SerialBytes
      /\ r.inCount \in 0..(Bits - 1) /\ q.inCount \in 0..(Bits - 1)
  BY DEF SerialType
<1>3. /\ g \in Seq(OneBit) /\ Len(g) = r.inCount
      /\ \A i \in 1..Len(g) : g[i] = r.shift[Bits - Len(g) + i]
  BY DEF Receiving
<1> DEFINE h == Append(g, b)
<1>4. /\ h \in Seq(OneBit) /\ Len(h) = Len(g) + 1 /\ h[Len(g) + 1] = b
      /\ \A i \in 1..Len(g) : h[i] = g[i]
  BY <1>3
<1> HIDE DEF h
<1>5. /\ \A j \in 1..(Bits - 1) : q.shift[j] = r.shift[j + 1]
      /\ q.shift[Bits] = b
  <2> DEFINE a == r.shift
  <2>1. a \in SerialBytes
    BY <1>2
  <2> HIDE DEF a
  <2>2. /\ \A j \in 1..(Bits - 1) : Append(Tail(a), b)[j] = a[j + 1]
        /\ Append(Tail(a), b)[Bits] = b
    BY <2>1, BitShifts
  <2>3. q.shift = Append(Tail(a), b)
    BY DEF a
  <2> QED
    BY <2>2, <2>3 DEF a
<1>6. ASSUME NEW i \in 1..Len(h)
      PROVE  h[i] = q.shift[Bits - Len(h) + i]
  <2>1. CASE i = Len(g) + 1
    <3>1. Bits - Len(h) + i = Bits
      BY <1>1, <1>2, <1>3, <1>4, <2>1
    <3> QED
      BY <1>4, <1>5, <2>1, <3>1
  <2>2. CASE i \in 1..Len(g)
    <3> DEFINE l == Len(g)
    <3>1. l \in 0..(Bits - 2) /\ Len(h) = l + 1 /\ i \in 1..l
      <4>1. r.inCount + 1 <= Bits - 1
        BY <1>1, <1>2
      <4> QED
        BY <1>1, <1>2, <1>3, <1>4, <2>2, <4>1
    <3> HIDE DEF l
    <3>2. Bits - Len(h) + i \in 1..(Bits - 1) /\ (Bits - Len(h) + i) + 1 = Bits - l + i
      BY <1>1, <3>1
    <3> QED
      BY <1>3, <1>4, <1>5, <2>2, <3>2 DEF l
  <2> QED
    <3>1. Len(g) \in Nat
      BY <1>2, <1>3
    <3>2. i = Len(g) + 1 \/ i \in 1..Len(g)
      BY <1>4, <3>1
    <3> QED
      BY <2>1, <2>2, <3>2
<1> QED
  BY <1>3, <1>4, <1>6 DEF Receiving, h

\* The bit that goes out is the next one of the byte.
LEMMA BitGoesOut ==
    ASSUME CiaConstants, NEW r \in SerialType, NEW q \in SerialType, NEW s, r.busy,
           Sending(s, r), q.shift = Append(Tail(r.shift), 0), q.sdr = r.sdr,
           q.busy = (r.outCount + 1 # Bits), q.busy => q.outCount = r.outCount + 1
    PROVE  Sending(Append(s, Head(r.shift)), q)
<1>1. Bits \in Nat /\ 0 < Bits
  BY Numbers
<1>2. r.shift \in SerialBytes /\ q.shift \in SerialBytes /\ r.outCount \in 0..(Bits - 1)
  BY DEF SerialType
<1>3. /\ s \in Seq(OneBit) /\ Len(s) = r.outCount
      /\ \A i \in 1..Len(s) : s[i] = r.sdr[i]
      /\ \A i \in 1..(Bits - Len(s)) : r.shift[i] = r.sdr[Len(s) + i]
  BY DEF Sending
<1>4. 0 \in OneBit
  BY DEF OneBit
<1> DEFINE b == Head(r.shift)
           h == Append(s, b)
<1>5. /\ \A j \in 1..(Bits - 1) : q.shift[j] = r.shift[j + 1]
      /\ b = r.shift[1] /\ b \in OneBit
  <2> DEFINE a == r.shift
  <2>1. a \in SerialBytes
    BY <1>2
  <2> HIDE DEF a
  <2>2. /\ \A j \in 1..(Bits - 1) : Append(Tail(a), 0)[j] = a[j + 1]
        /\ Head(a) = a[1] /\ a[1] \in OneBit
    BY <1>4, <2>1, BitShifts
  <2>3. q.shift = Append(Tail(a), 0) /\ b = Head(a)
    BY DEF a
  <2> HIDE DEF b
  <2> QED
    BY <2>2, <2>3 DEF a
<1> HIDE DEF b
<1>6. /\ h \in Seq(OneBit) /\ Len(h) = Len(s) + 1 /\ h[Len(s) + 1] = b
      /\ \A i \in 1..Len(s) : h[i] = s[i]
  <2>1. s \in Seq(OneBit) /\ b \in OneBit
    BY <1>3, <1>5
  <2> QED
    BY <2>1
<1> HIDE DEF h
<1>7. Len(h) = IF q.busy THEN q.outCount ELSE Bits
  BY <1>1, <1>2, <1>3, <1>6
<1>8. ASSUME NEW i \in 1..Len(h)
      PROVE  h[i] = q.sdr[i]
  <2>1. CASE i = Len(s) + 1
    BY <1>1, <1>2, <1>3, <1>5, <1>6, <2>1
  <2>2. CASE i \in 1..Len(s)
    BY <1>3, <1>6, <2>2
  <2> QED
    BY <1>3, <1>6, <2>1, <2>2
<1>9. ASSUME NEW i \in 1..(Bits - Len(h))
      PROVE  q.shift[i] = q.sdr[Len(h) + i]
  <2> DEFINE l == Len(s)
  <2>1. l \in 0..(Bits - 1) /\ Len(h) = l + 1
    BY <1>1, <1>2, <1>3, <1>6
  <2> HIDE DEF l
  <2>2. i \in 1..(Bits - 1) /\ i + 1 \in 1..(Bits - l) /\ l + (i + 1) = Len(h) + i
    BY <1>1, <2>1
  <2> QED
    BY <1>3, <1>5, <2>2 DEF l
<1> QED
  BY <1>6, <1>7, <1>8, <1>9 DEF Sending, h, b

\* Bits are sent and received by the register's fields alone.
LEMMA SameSerial ==
    ASSUME NEW r, NEW q, NEW s, q.sdr = r.sdr, q.shift = r.shift, q.inCount = r.inCount,
           q.busy = r.busy, q.outCount = r.outCount
    PROVE  /\ Sending(s, r) => Sending(s, q)
           /\ Receiving(s, r) => Receiving(s, q)
BY DEF Sending, Receiving

\* What came in stays known as long as nothing has.
LEMMA NothingCameIn ==
    ASSUME NEW r, NEW q, q.inCount = r.inCount, Receiving(<<>>, r)
    PROVE  Receiving(<<>>, q)
BY DEF Receiving

-----------------------------------------------------------------------------
(* One half-cycle.                                                         *)

LEMMA SerialTicks ==
    ASSUME CiaConstants, Rest, SerialOK, tickHalfCycle
    PROVE  SerialOK' /\ pin' \in PinType
<1>1. Bits \in Nat /\ 0 < Bits /\ chip.shiftReload \in Nat
  BY Numbers, ChipFields
<1>2. /\ serial' = SerialAfter /\ pin' = PinAfter /\ sent' = SentAfter /\ got' = GotAfter
      /\ chip' = chip
  BY DEF tickHalfCycle, settings
<1>3. /\ serial \in SerialType /\ \A s \in sent : Sending(s, serial)
      /\ \A g \in got : Receiving(g, serial)
  BY DEF SerialOK
<1>4. /\ serial.shift \in SerialBytes /\ serial.inCount \in 0..(Bits - 1) /\ serial.busy \in BOOLEAN
      /\ serial.outCount \in 0..(Bits - 1) /\ serial.divider \in 0..chip.shiftReload
  BY <1>3 DEF SerialType
<1>5. SerialType' = SerialType
  BY <1>2 DEF SerialType, SerialBytes
<1>6. SUFFICES /\ serial' \in SerialType
               /\ \A s \in sent' : Sending(s, serial')
               /\ \A g \in got' : Receiving(g, serial')
               /\ pin' \in PinType
  BY <1>5 DEF SerialOK
<1>7. pin \in PinType
  BY DEF Rest
<1>8. BitIn \in OneBit /\ 0 \in OneBit
  BY DEF BitIn, OneBit
<1>9. Append(Tail(serial.shift), BitIn) \in SerialBytes /\ Append(Tail(serial.shift), 0) \in SerialBytes
  BY <1>4, <1>8, BitShifts
<1>10. CASE ByteIn
  <2>1. ShiftsIn /\ ~ShiftsOut /\ ~OutputRuns
    BY <1>10 DEF ByteIn, ShiftsIn, ShiftsOut, OutputRuns
  <2> DEFINE a == Append(Tail(serial.shift), BitIn)
             z == [i \in 1..Bits |-> 0]
  <2>2. z \in SerialBytes
    BY DEF SerialBytes
  <2>3. serial' = [serial EXCEPT !.sdr = a, !.shift = z, !.inCount = 0]
    BY <1>2, <1>10, <2>1 DEF SerialAfter
  <2>4. sent' = {} /\ got' = {<<>>} /\ pin' = pin
    BY <1>2, <1>10, <2>1 DEF SentAfter, GotAfter, PinAfter
  <2>5. a \in SerialBytes /\ 0 \in 0..(Bits - 1)
    BY <1>1, <1>9
  <2> HIDE DEF a, z
  <2>6. serial' \in SerialType /\ serial'.inCount = 0
    BY <1>3, <2>2, <2>3, <2>5 DEF SerialType
  <2>7. Receiving(<<>>, serial')
    BY <2>6 DEF Receiving
  <2> QED
    BY <1>7, <2>4, <2>6, <2>7
<1>11. CASE ShiftsIn /\ ~ByteIn
  <2>1. ~ShiftsOut /\ ~OutputRuns
    BY <1>11 DEF ShiftsIn, ShiftsOut, OutputRuns
  <2> DEFINE a == Append(Tail(serial.shift), BitIn)
             n == serial.inCount + 1
  <2>2. n \in 0..(Bits - 1)
    BY <1>1, <1>4, <1>11 DEF ByteIn
  <2>3. serial' = [serial EXCEPT !.shift = a, !.inCount = n]
    BY <1>2, <1>11, <2>1 DEF SerialAfter
  <2>4. sent' = {} /\ got' = {Append(g, BitIn) : g \in got} /\ pin' = pin
    BY <1>2, <1>11, <2>1 DEF SentAfter, GotAfter, PinAfter
  <2>5. a \in SerialBytes
    BY <1>9
  <2> HIDE DEF a, n
  <2>6. serial' \in SerialType /\ serial'.shift = a /\ serial'.inCount = n
    BY <1>3, <2>2, <2>3, <2>5 DEF SerialType
  <2>7. ASSUME NEW g \in got
        PROVE  Receiving(Append(g, BitIn), serial')
    BY <1>3, <1>8, <2>6, BitComesIn DEF a, n
  <2> QED
    BY <1>7, <2>4, <2>6, <2>7
<1>12. CASE ShiftsOut
  <2>1. ~ShiftsIn /\ ~ByteIn /\ serial.busy
    BY <1>12 DEF ByteIn, ShiftsIn, ShiftsOut, OutputRuns
  <2> DEFINE a == Append(Tail(serial.shift), 0)
             d == chip.shiftReload
             u == ~ByteOut
             m == IF ByteOut THEN 0 ELSE serial.outCount + 1
  <2>2. serial' = [serial EXCEPT !.shift = a, !.divider = d, !.busy = u, !.outCount = m]
    BY <1>2, <1>12, <2>1 DEF SerialAfter
  <2>3. /\ sent' = {Append(s, Head(serial.shift)) : s \in sent} /\ got' = got \cap {<<>>}
        /\ pin' = [pin EXCEPT !.sp = Head(serial.shift) = 1]
    BY <1>2, <1>12, <2>1 DEF SentAfter, GotAfter, PinAfter
  <2>4. a \in SerialBytes /\ d \in 0..chip.shiftReload
    BY <1>1, <1>9
  <2>5. u = (serial.outCount + 1 # Bits)
    BY <1>12 DEF ByteOut
  <2>6. m \in 0..(Bits - 1) /\ (u => m = serial.outCount + 1) /\ u \in BOOLEAN
    BY <1>1, <1>4, <2>5
  <2> HIDE DEF a, d, u, m
  <2>7. /\ serial' \in SerialType /\ serial'.sdr = serial.sdr /\ serial'.shift = a
        /\ serial'.inCount = serial.inCount /\ serial'.busy = u /\ serial'.outCount = m
    BY <1>3, <2>2, <2>4, <2>6 DEF SerialType
  <2>8. ASSUME NEW s \in sent
        PROVE  Sending(Append(s, Head(serial.shift)), serial')
    BY <1>3, <2>1, <2>5, <2>6, <2>7, BitGoesOut DEF a
  <2>9. ASSUME NEW g \in got, g = <<>>
        PROVE  Receiving(g, serial')
    BY <1>3, <2>7, <2>9, NothingCameIn
  <2>10. pin' \in PinType
    BY <1>7, <2>3 DEF PinType
  <2> QED
    BY <2>3, <2>7, <2>8, <2>9, <2>10
<1>13. CASE OutputRuns /\ ~ShiftsOut
  <2>1. ~ShiftsIn /\ ~ByteIn /\ serial.divider # 0
    BY <1>13 DEF ByteIn, ShiftsIn, ShiftsOut, OutputRuns
  <2> DEFINE d == serial.divider - 1
  <2>2. serial' = [serial EXCEPT !.divider = d]
    BY <1>2, <1>13, <2>1 DEF SerialAfter
  <2>3. sent' = sent /\ got' = got /\ pin' = pin
    BY <1>2, <1>13, <2>1 DEF SentAfter, GotAfter, PinAfter
  <2>4. d \in 0..chip.shiftReload
    BY <1>1, <1>4, <2>1
  <2> HIDE DEF d
  <2>5. /\ serial' \in SerialType /\ serial'.sdr = serial.sdr /\ serial'.shift = serial.shift
        /\ serial'.inCount = serial.inCount /\ serial'.busy = serial.busy
        /\ serial'.outCount = serial.outCount
    BY <1>3, <1>4, <2>2, <2>4 DEF SerialType
  <2> QED
    BY <1>3, <1>7, <2>3, <2>5, SameSerial
<1>14. CASE ~ShiftsIn /\ ~OutputRuns
  <2>1. ~ByteIn /\ ~ShiftsOut
    BY <1>14 DEF ByteIn, ShiftsOut
  <2>2. serial' = serial /\ sent' = sent /\ got' = got /\ pin' = pin
    BY <1>2, <1>14, <2>1 DEF SerialAfter, SentAfter, GotAfter, PinAfter
  <2> QED
    BY <1>3, <1>7, <2>2
<1> QED
  BY <1>10, <1>11, <1>12, <1>13, <1>14 DEF ByteIn, ShiftsOut

\* What is raised is deferred, or shows at once, and bit 7 follows what shows.
LEMMA InterruptTicks ==
    ASSUME CiaConstants, InterruptOK, tickHalfCycle
    PROVE  InterruptOK'
<1>1. /\ icr' = icr \cup Shown /\ irq' = IrqAfterEvents(Shown, irq) /\ deferred' = DeferredAfter
      /\ unread' = unread \cup Raised /\ ier' = ier
  BY DEF tickHalfCycle
<1>2. /\ icr \subseteq Events /\ ier \subseteq Events /\ deferred \subseteq Events /\ unread \subseteq Events
      /\ irq \in BOOLEAN /\ unread \subseteq icr \cup deferred /\ irq = (icr \cap ier # {})
  BY DEF InterruptOK, EventsKept, Bit7Exact, IrqOf
<1>3. FlagEvents \subseteq Raised /\ FlagEvents \subseteq Events
  BY DEF Raised, FlagEvents, Events
<1>4. TimerEvents \subseteq Events
  BY DEF TimerEvents, TimerEvent, Events
<1>5. Raised \subseteq Events
  BY <1>3, <1>4 DEF Raised, AlarmEvents, SerialEvents, Events
<1>6. Shown \subseteq Events /\ DeferredAfter \subseteq Events /\ deferred \subseteq Shown
  BY <1>2, <1>3, <1>5 DEF Shown, DeferredAfter
<1>7. Raised \subseteq Shown \cup DeferredAfter
  BY DEF Shown, DeferredAfter
<1>8. /\ icr' \subseteq Events /\ ier' \subseteq Events /\ deferred' \subseteq Events
      /\ unread' \subseteq Events
  BY <1>1, <1>2, <1>5, <1>6
<1>9. EventsKept'
  BY <1>1, <1>2, <1>6, <1>7 DEF EventsKept
<1>10. irq' = (icr' \cap ier' # {})
  BY <1>1, <1>2 DEF IrqAfterEvents
<1> QED
  BY <1>8, <1>9, <1>10 DEF InterruptOK, Bit7Exact, IrqOf

\* The clock that stands keeps the time that is being written.
LEMMA ClockTicksOn ==
    ASSUME CiaConstants, Rest, ClockOK, tickHalfCycle
    PROVE  ClockOK'
<1>1. /\ tod' = TodAfter /\ divider' = DividerAfter
      /\ alarm' = alarm /\ latch' = latch /\ latched' = latched /\ running' = running
      /\ snap' = snap /\ wrote' = wrote /\ chip' = chip
  BY DEF tickHalfCycle, settings, timeHistory
<1>2. /\ tod \in ClockTimes /\ alarm \in ClockTimes /\ latch \in ClockTimes /\ tod.hours > 0
      /\ latched \in BOOLEAN /\ running \in BOOLEAN /\ divider \in 0..(Wrap - 1)
      /\ ReadsTogether /\ SetsTogether
  BY DEF ClockOK
<1>3. tod' \in ClockTimes /\ tod'.hours > 0
  BY <1>1, <1>2, ClockMoves DEF TodAfter
<1>4. divider' \in 0..(Wrap - 1)
  <2>1. Wrap \in Nat /\ 0 < Wrap
    BY Numbers
  <2>2. DividerUp \in 0..(Wrap - 1)
    BY <1>2, <2>1 DEF DividerUp
  <2> QED
    BY <1>1, <1>2, <2>1, <2>2 DEF DividerAfter
<1>5. ReadsTogether'
  BY <1>1, <1>2 DEF ReadsTogether
<1>6. SetsTogether'
  BY <1>1, <1>2 DEF SetsTogether, TodAfter, ClockTicks
<1>7. ClockTimes' = ClockTimes
  BY DEF ClockTimes
<1> QED
  BY <1>1, <1>2, <1>3, <1>4, <1>5, <1>6, <1>7 DEF ClockOK

LEMMA Ticks ==
    ASSUME CiaConstants, IInv, tickHalfCycle
    PROVE  IInv'
<1>1. Rest /\ InterruptOK /\ ClockOK /\ SerialOK
  BY DEF IInv
<1>2. InterruptOK' /\ ClockOK' /\ SerialOK' /\ pin' \in PinType
  BY <1>1, InterruptTicks, ClockTicksOn, SerialTicks
<1>3. timer' \in [1..2 -> TimerType]
  BY <1>1, TimersTick DEF tickHalfCycle
<1>4. seenPin' \in SeenType
  <2>1. pin \in PinType
    BY <1>1 DEF Rest
  <2>2. seenPin' = [cnt |-> pin.cnt, flag |-> pin.flag]
    BY DEF tickHalfCycle
  <2> QED
    BY <2>1, <2>2 DEF PinType, SeenType
<1>5. /\ ciaProgram' = ciaProgram /\ chip' = chip /\ half' = ~half /\ control' = control
  BY DEF tickHalfCycle, settings
<1>6. Rest'
  BY <1>1, <1>2, <1>3, <1>4, <1>5 DEF Rest, Allowed, TimerType, PinType, SeenType, Top
<1> QED
  BY <1>2, <1>6 DEF IInv

-----------------------------------------------------------------------------
(* The pins and the registers.                                             *)

\* The parts a step leaves alone.
LEMMA RestStays ==
    ASSUME Rest, chip' = chip, ciaProgram' = ciaProgram, half' = half, timer' \in [1..2 -> TimerType],
           control' \in [out : BOOLEAN, alarm : BOOLEAN], pin' \in PinType, seenPin' = seenPin
    PROVE  Rest'
BY DEF Rest, Allowed, TimerType, PinType, SeenType, Top

LEMMA PortsStay ==
    ASSUME Rest, UNCHANGED <<settings, half, timer, control, pins>>
    PROVE  Rest'
<1>1. /\ chip' = chip /\ ciaProgram' = ciaProgram /\ half' = half /\ timer' = timer /\ control' = control
      /\ pin' = pin /\ seenPin' = seenPin
  BY DEF settings, pins
<1> QED
  BY <1>1, RestStays DEF Rest

LEMMA InterruptStays ==
    ASSUME InterruptOK, UNCHANGED <<interrupt, unread>>
    PROVE  InterruptOK'
BY DEF InterruptOK, interrupt, EventsKept, Bit7Exact, IrqOf, Events

LEMMA ClockStays ==
    ASSUME ClockOK, chip' = chip, UNCHANGED <<clock, timeHistory>>
    PROVE  ClockOK'
BY DEF ClockOK, clock, timeHistory, ClockTimes, ReadsTogether, SetsTogether

LEMMA SerialStays ==
    ASSUME SerialOK, chip' = chip, UNCHANGED <<serial, bytes>>
    PROVE  SerialOK'
<1>1. serial' = serial /\ sent' = sent /\ got' = got /\ SerialType' = SerialType
  BY DEF bytes, SerialType, SerialBytes
<1> QED
  BY <1>1 DEF SerialOK

LEMMA PinsAreSet ==
    ASSUME CiaConstants, IInv, setPins
    PROVE  IInv'
<1>1. Rest /\ InterruptOK /\ ClockOK /\ SerialOK
  BY DEF IInv
<1>2. pin' \in PinType
  BY <1>1, MayDo DEF setPins, ProgramOK, PinType
<1>3. Rest'
  BY <1>1, <1>2, RestStays DEF setPins, settings, Rest
<1>4. InterruptOK' /\ ClockOK' /\ SerialOK'
  BY <1>1, InterruptStays, ClockStays, SerialStays DEF setPins, settings
<1> QED
  BY <1>3, <1>4 DEF IInv

LEMMA HoursAreRead ==
    ASSUME CiaConstants, IInv, readTodHours
    PROVE  IInv'
<1>1. Rest /\ InterruptOK /\ ClockOK /\ SerialOK
  BY DEF IInv
<1>2. Rest' /\ InterruptOK' /\ SerialOK'
  BY <1>1, PortsStay, InterruptStays, SerialStays DEF readTodHours, settings
<1>3. /\ latch' = tod /\ latched' = TRUE /\ snap' = {tod} /\ tod' = tod /\ alarm' = alarm
      /\ running' = running /\ divider' = divider /\ wrote' = wrote /\ chip' = chip
  BY DEF readTodHours, settings
<1>4. ClockOK'
  BY <1>1, <1>3 DEF ClockOK, ClockTimes, ReadsTogether, SetsTogether
<1> QED
  BY <1>2, <1>4 DEF IInv

LEMMA TenthsAreRead ==
    ASSUME CiaConstants, IInv, readTod10ths
    PROVE  IInv'
<1>1. Rest /\ InterruptOK /\ ClockOK /\ SerialOK
  BY DEF IInv
<1>2. Rest' /\ InterruptOK' /\ SerialOK'
  BY <1>1, PortsStay, InterruptStays, SerialStays DEF readTod10ths, settings
<1>3. /\ latch' = latch /\ latched' \in BOOLEAN /\ snap' = {} /\ tod' = tod /\ alarm' = alarm
      /\ running' = running /\ divider' = divider /\ wrote' = wrote /\ chip' = chip
  BY DEF readTod10ths, settings
<1>4. ClockOK'
  BY <1>1, <1>3 DEF ClockOK, ClockTimes, ReadsTogether, SetsTogether
<1> QED
  BY <1>2, <1>4 DEF IInv

\* A read returns what shows; what is still owed is deferred.
LEMMA EventsAreRead ==
    ASSUME CiaConstants, IInv, readIcr
    PROVE  IInv'
<1>1. Rest /\ InterruptOK /\ ClockOK /\ SerialOK
  BY DEF IInv
<1>2. Rest' /\ ClockOK' /\ SerialOK'
  BY <1>1, PortsStay, ClockStays, SerialStays DEF readIcr, settings
<1>3. icr' = {} /\ irq' = FALSE /\ unread' = unread \ icr /\ ier' = ier /\ deferred' = deferred
  BY DEF readIcr
<1>4. InterruptOK'
  BY <1>1, <1>3 DEF InterruptOK, EventsKept, Bit7Exact, IrqOf, Events
<1> QED
  BY <1>2, <1>4 DEF IInv

\* OneBit 7 is made anew from the events and the mask.
LEMMA MaskIsWritten ==
    ASSUME CiaConstants, IInv, writeMask
    PROVE  IInv'
<1>1. Rest /\ InterruptOK /\ ClockOK /\ SerialOK
  BY DEF IInv
<1>2. Rest' /\ ClockOK' /\ SerialOK'
  BY <1>1, PortsStay, ClockStays, SerialStays DEF writeMask, settings
<1>3. PICK w \in Allowed.mask :
        /\ ier' = IF w.set THEN ier \cup w.events ELSE ier \ w.events
        /\ irq' = IrqOf(icr, ier')
  BY DEF writeMask
<1>4. w.events \subseteq Events
  BY <1>1, MayDo DEF ProgramOK
<1>5. icr' = icr /\ deferred' = deferred /\ unread' = unread
  BY DEF writeMask
<1>6. ier' \subseteq Events
  BY <1>1, <1>3, <1>4 DEF InterruptOK
<1>7. InterruptOK'
  BY <1>1, <1>3, <1>5, <1>6 DEF InterruptOK, EventsKept, Bit7Exact, IrqOf, Events
<1> QED
  BY <1>2, <1>7 DEF IInv

LEMMA LatchIsWritten ==
    ASSUME CiaConstants, IInv, NEW i \in 1..2, writeLatch(i)
    PROVE  IInv'
<1>1. Rest /\ InterruptOK /\ ClockOK /\ SerialOK
  BY DEF IInv
<1>2. InterruptOK' /\ ClockOK' /\ SerialOK'
  BY <1>1, InterruptStays, ClockStays, SerialStays DEF writeLatch, settings
<1>3. timer \in [1..2 -> TimerType] /\ timer[i] \in TimerType /\ timer[i].latch \in 0..Top
  BY <1>1 DEF Rest, TimerType
<1>4. Allowed.low[i] \subseteq 0..(TimerByte - 1) /\ Allowed.high[i] \subseteq 0..(TimerByte - 1)
  BY <1>1, MayDo DEF ProgramOK
<1>5. timer' \in [1..2 -> TimerType]
  <2>1. ASSUME NEW lo \in Allowed.low[i],
               timer' = [timer EXCEPT ![i].latch = TimerByte * (@ \div TimerByte) + lo]
        PROVE  timer' \in [1..2 -> TimerType]
    <3> DEFINE n == TimerByte * (timer[i].latch \div TimerByte) + lo
    <3>1. n \in 0..Top
      BY <1>3, <1>4, TwoBytes
    <3>2. timer' = [timer EXCEPT ![i].latch = n]
      BY <2>1
    <3> HIDE DEF n
    <3> QED
      BY <1>3, <3>1, <3>2 DEF TimerType
  <2>2. ASSUME NEW hi \in Allowed.high[i],
               LET new == (TimerByte * hi) + (timer[i].latch % TimerByte)
               IN  timer' = [timer EXCEPT ![i].latch = new, ![i].count = new]
        PROVE  timer' \in [1..2 -> TimerType]
    <3> DEFINE n == (TimerByte * hi) + (timer[i].latch % TimerByte)
    <3>1. n \in 0..Top
      BY <1>3, <1>4, TwoBytes
    <3>2. timer' = [timer EXCEPT ![i].latch = n, ![i].count = n]
      BY <2>2
    <3> HIDE DEF n
    <3> QED
      BY <1>3, <3>1, <3>2 DEF TimerType
  <2> QED
    BY <2>1, <2>2 DEF writeLatch
<1>6. Rest'
  BY <1>1, <1>5, RestStays DEF writeLatch, settings, pins, Rest
<1> QED
  BY <1>2, <1>6 DEF IInv

LEMMA TimerObeys ==
    ASSUME NEW t \in TimerType, NEW c, c.start \in BOOLEAN, c.oneShot \in BOOLEAN
    PROVE  TimerControlled(t, c) \in TimerType
<1> DEFINE n == IF c.load THEN t.latch ELSE t.count
           a == c.oneShot
           b == c.start
<1>1. n \in 0..Top
  BY DEF TimerType
<1>2. a \in BOOLEAN /\ b \in BOOLEAN
  OBVIOUS
<1>3. TimerControlled(t, c) = [t EXCEPT !.oneShot = a, !.count = n, !.started = b]
  BY DEF TimerControlled, TimerType
<1> HIDE DEF n, a, b
<1> QED
  BY <1>1, <1>2, <1>3 DEF TimerType

LEMMA ControlsAreWritten ==
    ASSUME CiaConstants, IInv, writeControlA \/ writeControlB
    PROVE  IInv'
<1>1. Rest /\ InterruptOK /\ ClockOK /\ SerialOK
  BY DEF IInv
<1>2. InterruptOK' /\ ClockOK' /\ SerialOK'
  BY <1>1, InterruptStays, ClockStays, SerialStays DEF writeControlA, writeControlB, settings
<1>3. timer \in [1..2 -> TimerType] /\ control \in [out : BOOLEAN, alarm : BOOLEAN]
  BY <1>1 DEF Rest
<1>4. timer' \in [1..2 -> TimerType] /\ control' \in [out : BOOLEAN, alarm : BOOLEAN]
  <2>1. CASE writeControlA
    <3>1. PICK c \in Allowed.cra : /\ timer' = [timer EXCEPT ![1] = TimerControlled(@, c)]
                               /\ control' = [control EXCEPT !.out = c.out]
      BY <2>1 DEF writeControlA
    <3>2. c.start \in BOOLEAN /\ c.oneShot \in BOOLEAN /\ c.out \in BOOLEAN
      BY <1>1, MayDo DEF ProgramOK
    <3>3. TimerControlled(timer[1], c) \in TimerType
      BY <1>3, <3>2, TimerObeys
    <3> QED
      BY <1>3, <3>1, <3>2, <3>3
  <2>2. CASE writeControlB
    <3>1. PICK c \in Allowed.crb : /\ timer' = [timer EXCEPT ![2] = TimerControlled(@, c)]
                               /\ control' = [control EXCEPT !.alarm = c.alarm]
      BY <2>2 DEF writeControlB
    <3>2. c.start \in BOOLEAN /\ c.oneShot \in BOOLEAN /\ c.alarm \in BOOLEAN
      BY <1>1, MayDo DEF ProgramOK
    <3>3. TimerControlled(timer[2], c) \in TimerType
      BY <1>3, <3>2, TimerObeys
    <3> QED
      BY <1>3, <3>1, <3>2, <3>3
  <2> QED
    BY <2>1, <2>2
<1>5. Rest'
  BY <1>1, <1>4, RestStays DEF writeControlA, writeControlB, settings, pins, Rest
<1> QED
  BY <1>2, <1>5 DEF IInv

\* A part of a time is set to a value of its wheel.
LEMMA PartIsSet ==
    ASSUME CiaConstants, Rest, NEW t \in ClockTimes, NEW part \in DOMAIN Allowed.time, NEW v \in Allowed.time[part]
    PROVE  /\ SetPart(t, part, v) \in ClockTimes
           /\ t.hours > 0 => SetPart(t, part, v).hours > 0
<1>1. \/ part = "hours" /\ v \in [hours : 1..Twelve, pm : BOOLEAN]
      \/ part \in {"minutes", "seconds"} /\ v \in 0..(Sixty - 1)
      \/ part = "tenths" /\ v \in 0..(Tenths - 1)
  BY MayDo DEF ProgramOK
<1>2. CASE part = "hours"
  <2> DEFINE h == v.hours
             b == v.pm
             a == [t EXCEPT !.hours = h]
  <2>1. h \in 0..Twelve /\ h > 0 /\ b \in BOOLEAN
    BY <1>1, <1>2, Numbers
  <2>2. SetPart(t, part, v) = [a EXCEPT !.pm = b]
    BY <1>2, Zenon DEF SetPart
  <2> HIDE DEF h, b
  <2>3. a \in ClockTimes /\ a.hours = h
    BY <2>1, WheelsTurn
  <2> HIDE DEF a
  <2> QED
    BY <2>1, <2>2, <2>3, WheelsTurn
<1>3. CASE part = "minutes"
  <2>1. SetPart(t, part, v) = [t EXCEPT !.minutes = v]
    BY <1>3 DEF SetPart
  <2>2. v \in 0..(Sixty - 1)
    BY <1>1, <1>3
  <2>3. [t EXCEPT !.minutes = v] \in ClockTimes /\ [t EXCEPT !.minutes = v].hours = t.hours
    BY <2>2, WheelsTurn
  <2> QED
    BY <2>1, <2>3
<1>4. CASE part = "seconds"
  <2>1. SetPart(t, part, v) = [t EXCEPT !.seconds = v]
    BY <1>4 DEF SetPart
  <2>2. v \in 0..(Sixty - 1)
    BY <1>1, <1>4
  <2>3. [t EXCEPT !.seconds = v] \in ClockTimes /\ [t EXCEPT !.seconds = v].hours = t.hours
    BY <2>2, WheelsTurn
  <2> QED
    BY <2>1, <2>3
<1>5. CASE part = "tenths"
  <2>1. SetPart(t, part, v) = [t EXCEPT !.tenths = v]
    BY <1>5 DEF SetPart
  <2>2. v \in 0..(Tenths - 1)
    BY <1>1, <1>5
  <2>3. [t EXCEPT !.tenths = v] \in ClockTimes /\ [t EXCEPT !.tenths = v].hours = t.hours
    BY <2>2, WheelsTurn
  <2> QED
    BY <2>1, <2>3
<1> QED
  BY <1>1, <1>2, <1>3, <1>4, <1>5

\* Whoever writes the hours of a 6526 stops the clock, and the parts that follow go into what
\* it holds.
LEMMA TimeIsWritten ==
    ASSUME CiaConstants, IInv, writeTime
    PROVE  IInv'
<1>1. Rest /\ InterruptOK /\ ClockOK /\ SerialOK
  BY DEF IInv
<1>2. Rest' /\ InterruptOK' /\ SerialOK'
  BY <1>1, PortsStay, InterruptStays, SerialStays DEF writeTime, settings, pins
<1>3. /\ tod \in ClockTimes /\ alarm \in ClockTimes /\ latch \in ClockTimes /\ tod.hours > 0
      /\ latched \in BOOLEAN /\ running \in BOOLEAN /\ divider \in 0..(Wrap - 1)
      /\ ReadsTogether /\ SetsTogether
  BY <1>1 DEF ClockOK
<1>4. latch' = latch /\ latched' = latched /\ divider' = divider /\ snap' = snap /\ chip' = chip
  BY DEF writeTime, settings
<1>5. PICK part \in DOMAIN Allowed.time : \E v \in Allowed.time[part] :
        IF control.alarm THEN WriteAlarm(SetPart(alarm, part, v))
        ELSE WriteClock(SetPart(tod, part, v), part = "hours", part = "tenths",
                        CASE part = "hours" -> {SetPart(tod, part, v)}
                          [] part = "tenths" -> {}
                          [] OTHER -> {SetPart(w, part, v) : w \in wrote})
  BY DEF writeTime
<1>6. PICK v \in Allowed.time[part] :
        IF control.alarm THEN WriteAlarm(SetPart(alarm, part, v))
        ELSE WriteClock(SetPart(tod, part, v), part = "hours", part = "tenths",
                        CASE part = "hours" -> {SetPart(tod, part, v)}
                          [] part = "tenths" -> {}
                          [] OTHER -> {SetPart(w, part, v) : w \in wrote})
  BY <1>5
<1>7. ClockTimes' = ClockTimes /\ ReadsTogether'
  BY <1>3, <1>4 DEF ClockTimes, ReadsTogether
<1>8. CASE control.alarm
  <2>1. /\ alarm' = SetPart(alarm, part, v) /\ tod' = tod /\ running' = running /\ wrote' = wrote
    BY <1>6, <1>8 DEF WriteAlarm
  <2>2. alarm' \in ClockTimes
    BY <1>1, <1>3, <2>1, PartIsSet
  <2>3. SetsTogether'
    BY <1>3, <1>4, <2>1 DEF SetsTogether
  <2> QED
    BY <1>2, <1>3, <1>4, <1>7, <2>1, <2>2, <2>3 DEF IInv, ClockOK
<1>9. CASE ~control.alarm
  <2> DEFINE t == SetPart(tod, part, v)
  <2>1. /\ tod' = t /\ alarm' = alarm
        /\ running' = ((running /\ ~((part = "hours") /\ chip.writeStops))
                        \/ ((part = "tenths") /\ chip.writeStops))
        /\ wrote' = CASE part = "hours" -> {t}
                      [] part = "tenths" -> {}
                      [] OTHER -> {SetPart(w, part, v) : w \in wrote}
    BY <1>6, <1>9 DEF WriteClock
  <2>2. t \in ClockTimes /\ t.hours > 0
    BY <1>1, <1>3, PartIsSet
  <2> HIDE DEF t
  <2>3. SetsTogether'
    <3>1. SUFFICES ASSUME chip.writeStops, wrote' # {}
                   PROVE  ~running' /\ wrote' = {tod'}
      BY <1>4 DEF SetsTogether
    <3>2. CASE part = "hours"
      BY <2>1, <3>1, <3>2
    <3>3. CASE part = "tenths"
      BY <2>1, <3>1, <3>3
    <3>4. CASE part \notin {"hours", "tenths"}
      <4>1. wrote' = {SetPart(w, part, v) : w \in wrote}
        BY <2>1, <3>4
      <4>2. wrote # {}
        BY <3>1, <4>1
      <4>3. ~running /\ wrote = {tod}
        BY <1>3, <3>1, <4>2 DEF SetsTogether
      <4> QED
        BY <2>1, <3>4, <4>1, <4>3 DEF t
    <3> QED
      BY <3>2, <3>3, <3>4
  <2>4. running' \in BOOLEAN
    BY <2>1
  <2> QED
    BY <1>2, <1>3, <1>4, <1>7, <2>1, <2>2, <2>3, <2>4 DEF IInv, ClockOK
<1> QED
  BY <1>8, <1>9

LEMMA ByteIsWritten ==
    ASSUME CiaConstants, IInv, writeSerial
    PROVE  IInv'
<1>1. Rest /\ InterruptOK /\ ClockOK /\ SerialOK
  BY DEF IInv
<1>2. Rest' /\ InterruptOK' /\ ClockOK'
  BY <1>1, PortsStay, InterruptStays, ClockStays DEF writeSerial, settings
<1>3. PICK b \in Allowed.sdr :
        serial' = [serial EXCEPT !.sdr = b, !.shift = b, !.busy = TRUE, !.outCount = 0,
                                 !.divider = chip.shiftReload]
  BY DEF writeSerial
<1>4. sent' = {<<>>} /\ got' = got \cap {<<>>} /\ chip' = chip
  BY DEF writeSerial, settings
<1>5. /\ serial \in SerialType
      /\ \A g \in got : Receiving(g, serial)
  BY <1>1 DEF SerialOK
<1>6. /\ Bits \in Nat /\ 0 < Bits /\ chip.shiftReload \in Nat
  BY <1>1, Numbers, ChipFields
<1>7. b \in SerialBytes
  BY <1>1, MayDo DEF ProgramOK, SerialBytes
<1> DEFINE d == chip.shiftReload
<1>8. d \in 0..chip.shiftReload /\ 0 \in 0..(Bits - 1)
  BY <1>6
<1>9. serial' = [serial EXCEPT !.sdr = b, !.shift = b, !.busy = TRUE, !.outCount = 0, !.divider = d]
  BY <1>3
<1> HIDE DEF d
<1>10. /\ serial' \in SerialType /\ serial'.sdr = b /\ serial'.shift = b /\ serial'.busy
       /\ serial'.outCount = 0 /\ serial'.inCount = serial.inCount
  BY <1>5, <1>7, <1>8, <1>9 DEF SerialType
<1>11. Sending(<<>>, serial')
  BY <1>6, <1>10 DEF Sending
<1>12. ASSUME NEW g \in got, g = <<>>
       PROVE  Receiving(g, serial')
  BY <1>5, <1>10, <1>12, NothingCameIn
<1>13. SerialType' = SerialType
  BY <1>4 DEF SerialType, SerialBytes
<1>14. SerialOK'
  BY <1>4, <1>10, <1>11, <1>12, <1>13 DEF SerialOK
<1> QED
  BY <1>2, <1>14 DEF IInv

-----------------------------------------------------------------------------
(* The theorems.                                                           *)

LEMMA InitIInv ==
    ASSUME CiaConstants, CiaInit
    PROVE  IInv
<1>1. /\ TimerByte \in Nat /\ 0 < TimerByte /\ Bits \in Nat /\ 0 < Bits /\ Wrap \in Nat /\ 0 < Wrap
      /\ Tenths \in Nat /\ 0 < Tenths /\ Sixty \in Nat /\ 0 < Sixty
      /\ Twelve \in Nat /\ 0 < Twelve
  BY Numbers
<1>2. Top \in Nat
  BY Squares
<1>3. ciaProgram \in DOMAIN CiaPrograms /\ chip \in Allowed.chips /\ ProgramOK(Allowed)
  BY DEF CiaConstants, CiaInit, Allowed
<1>4. Rest
  <2>1. timer \in [1..2 -> TimerType]
    BY <1>2 DEF CiaInit, TimerType, Top
  <2> QED
    BY <1>3, <2>1 DEF CiaInit, Rest, PinType, SeenType
<1>5. InterruptOK
  BY DEF CiaInit, InterruptOK, EventsKept, Bit7Exact, IrqOf
<1>6. tod \in ClockTimes /\ tod.hours > 0
  BY <1>1 DEF CiaInit, ClockTimes
<1>7. [tod EXCEPT !.hours = 0] \in ClockTimes
  BY <1>1, <1>6, WheelsTurn
<1>8. running \in BOOLEAN
  BY DEF CiaInit
<1>9. ClockOK
  <2>1. alarm \in ClockTimes /\ latch \in ClockTimes /\ latched = FALSE
    BY <1>7 DEF CiaInit
  <2>2. divider \in 0..(Wrap - 1) /\ snap = {} /\ wrote = {}
    BY <1>1 DEF CiaInit
  <2> QED
    BY <1>6, <1>8, <2>1, <2>2 DEF ClockOK, ReadsTogether, SetsTogether
<1>10. serial \in SerialType
  <2>1. chip.shiftReload \in Nat
    BY <1>4, ChipFields
  <2>2. [i \in 1..Bits |-> 0] \in SerialBytes
    BY DEF SerialBytes
  <2> QED
    BY <1>1, <2>1, <2>2 DEF CiaInit, SerialType
<1>11. sent = {} /\ got = {<<>>} /\ serial.inCount = 0
  BY DEF CiaInit
<1>12. SerialOK
  BY <1>10, <1>11 DEF SerialOK, Receiving
<1> QED
  BY <1>4, <1>5, <1>9, <1>12 DEF IInv

LEMMA StepKeepsIInv ==
    ASSUME CiaConstants, IInv, [CiaNext]_ciaVars
    PROVE  IInv'
<1>1. CASE tickHalfCycle
  BY <1>1, Ticks
<1>2. CASE setPins
  BY <1>2, PinsAreSet
<1>3. CASE readTodHours \/ readTod10ths \/ readIcr
  BY <1>3, HoursAreRead, TenthsAreRead, EventsAreRead
<1>4. CASE \E i \in 1..2 : writeLatch(i)
  BY <1>4, LatchIsWritten
<1>5. CASE writeControlA \/ writeControlB
  BY <1>5, ControlsAreWritten
<1>6. CASE writeTime
  BY <1>6, TimeIsWritten
<1>7. CASE writeSerial
  BY <1>7, ByteIsWritten
<1>8. CASE writeMask
  BY <1>8, MaskIsWritten
<1>9. CASE UNCHANGED ciaVars
  <2>1. Rest /\ InterruptOK /\ ClockOK /\ SerialOK
    BY DEF IInv
  <2>2. UNCHANGED <<settings, half, timer, control, pins, interrupt, unread, clock, timeHistory, serial, bytes>>
    BY <1>9 DEF ciaVars
  <2>3. chip' = chip
    BY <2>2 DEF settings
  <2> QED
    BY <2>1, <2>2, <2>3, PortsStay, InterruptStays, ClockStays, SerialStays DEF IInv
<1> QED
  BY <1>1, <1>2, <1>3, <1>4, <1>5, <1>6, <1>7, <1>8, <1>9 DEF CiaNext

\* Place by place is as a whole.
LEMMA WholeBytes ==
    ASSUME CiaConstants, SerialOK
    PROVE  SendsTheByte /\ ReceivesTheBits
<1>1. Bits \in Nat /\ 0 < Bits
  BY Numbers
<1>2. /\ serial.shift \in SerialBytes /\ serial.sdr \in SerialBytes
      /\ serial.inCount \in 0..(Bits - 1) /\ serial.outCount \in 0..(Bits - 1)
  BY DEF SerialOK, SerialType
<1> DEFINE shift == serial.shift
           sdr == serial.sdr
<1>3. shift \in Seq(OneBit) /\ Len(shift) = Bits /\ sdr \in Seq(OneBit) /\ Len(sdr) = Bits
  BY <1>1, <1>2 DEF SerialBytes, OneBit
<1>4. SendsTheByte
  <2>1. SUFFICES ASSUME NEW s \in sent
                 PROVE  /\ serial.busy => serial.outCount = Len(s) /\ s \o SubSeq(shift, 1, Bits - Len(s)) = sdr
                        /\ ~serial.busy => s = sdr
    BY DEF SendsTheByte
  <2>2. /\ s \in Seq(OneBit) /\ Len(s) = IF serial.busy THEN serial.outCount ELSE Bits
        /\ \A i \in 1..Len(s) : s[i] = sdr[i]
        /\ \A i \in 1..(Bits - Len(s)) : shift[i] = sdr[Len(s) + i]
    BY DEF SerialOK, Sending
  <2> HIDE DEF shift, sdr
  <2>3. CASE serial.busy
    <3> DEFINE l == Len(s)
               u == SubSeq(shift, 1, Bits - l)
    <3>1. l = serial.outCount /\ l \in 0..(Bits - 1)
      BY <1>2, <2>2, <2>3
    <3>2. u \in Seq(OneBit) /\ Len(u) = Bits - l /\ \A i \in 1..(Bits - l) : u[i] = shift[i]
      <4>1. 1 \in 1..(Len(shift) + 1) /\ Bits - l \in 0..Len(shift)
        BY <1>1, <1>3, <3>1
      <4>2. u \in Seq(OneBit)
        BY <1>1, <1>3, <3>1, <4>1, SubSeqProperties
      <4>3. Len(u) = Bits - l /\ \A i \in 1..(Bits - l) : u[i] = shift[i]
        BY <1>1, <1>3, <3>1, <4>1, SubSeqProperties
      <4> QED
        BY <4>2, <4>3
    <3> HIDE DEF u
    <3>3. /\ s \o u \in Seq(OneBit) /\ Len(s \o u) = l + (Bits - l)
          /\ \A i \in 1..(l + (Bits - l)) :
                (s \o u)[i] = IF i <= l THEN s[i] ELSE u[i - l]
      <4>1. s \in Seq(OneBit) /\ u \in Seq(OneBit) /\ Len(s) = l /\ Len(u) = Bits - l
        BY <2>2, <3>2
      <4> HIDE DEF l
      <4>2. /\ s \o u \in Seq(OneBit)
            /\ Len(s \o u) = Len(s) + Len(u)
        BY <4>1, ConcatProperties
      <4>3. \A i \in 1..(Len(s) + Len(u)) :
                (s \o u)[i] = IF i <= Len(s) THEN s[i] ELSE u[i - Len(s)]
        BY <4>1, ConcatProperties
      <4> QED
        BY <4>1, <4>2, <4>3, Zenon
    <3>4. Len(s \o u) = Bits
      BY <1>1, <3>1, <3>3
    <3>5. ASSUME NEW i \in 1..Bits
          PROVE  (s \o u)[i] = sdr[i]
      <4>1. (s \o u)[i] = IF i <= l THEN s[i] ELSE u[i - l]
        BY <1>1, <3>1, <3>3
      <4>2. CASE i <= l
        BY <2>2, <4>1, <4>2
      <4>3. CASE ~(i <= l)
        <5>1. i - l \in 1..(Bits - l) /\ l + (i - l) = i
          BY <1>1, <3>1, <4>3
        <5> QED
          BY <2>2, <3>2, <4>1, <4>3, <5>1
      <4> QED
        BY <4>2, <4>3
    <3>6. s \o u = sdr
      BY <1>3, <3>3, <3>4, <3>5, SeqEqual
    <3> QED
      BY <2>3, <3>1, <3>6 DEF u
  <2>4. CASE ~serial.busy
    <3>1. Len(s) = Bits
      BY <2>2, <2>4
    <3>2. s = sdr
      BY <1>3, <2>2, <3>1, SeqEqual
    <3> QED
      BY <2>4, <3>2
  <2> QED
    BY <2>3, <2>4
<1>5. ReceivesTheBits
  <2>1. SUFFICES ASSUME NEW g \in got
                 PROVE  serial.inCount = Len(g) /\ SubSeq(shift, Bits - Len(g) + 1, Bits) = g
    BY DEF ReceivesTheBits
  <2>2. /\ g \in Seq(OneBit) /\ Len(g) = serial.inCount
        /\ \A i \in 1..Len(g) : g[i] = shift[Bits - Len(g) + i]
    BY DEF SerialOK, Receiving
  <2> HIDE DEF shift, sdr
  <2> DEFINE l == Len(g)
             m == Bits - l + 1
             u == SubSeq(shift, m, Bits)
  <2>3. l \in 0..(Bits - 1)
    BY <1>2, <2>2
  <2>4. m \in 1..(Len(shift) + 1) /\ Bits \in (m - 1)..Len(shift) /\ Bits - m + 1 = l
    BY <1>1, <1>3, <2>3
  <2>5. u \in Seq(OneBit) /\ Len(u) = l /\ \A i \in 1..l : u[i] = shift[m + i - 1]
    BY <1>1, <1>3, <2>3, <2>4, SubSeqProperties
  <2>6. ASSUME NEW i \in 1..l
        PROVE  u[i] = g[i]
    <3>1. m + i - 1 = Bits - l + i
      BY <1>1, <2>3
    <3> QED
      BY <2>2, <2>5, <3>1
  <2> HIDE DEF u
  <2>7. u = g
    BY <2>2, <2>5, <2>6, SeqEqual
  <2> QED
    BY <2>2, <2>7 DEF u
<1> QED
  BY <1>4, <1>5

LEMMA IInvKeeps ==
    ASSUME CiaConstants, IInv
    PROVE  CiaKeeps
<1>1. Rest /\ InterruptOK /\ ClockOK /\ SerialOK
  BY DEF IInv
<1>2. Top \in Nat
  BY Squares
<1>3. \A i \in 1..2 : timer[i].latch \in 0..(TimerByte * TimerByte - 1) /\ timer[i].count <= TimerByte * TimerByte - 1
  BY <1>1, <1>2 DEF Rest, TimerType, Top
<1>4. CiaTypeOK
  BY <1>1, <1>3 DEF InterruptOK, ClockOK, SerialOK, SerialType, CiaTypeOK
<1>5. ReadsOneTime /\ SetsOneTime
  BY <1>1 DEF ClockOK, ReadsTogether, SetsTogether, ReadsOneTime, TimeRead, SetsOneTime
<1>6. EventsKept /\ Bit7Exact
  BY <1>1 DEF InterruptOK
<1> QED
  BY <1>1, <1>4, <1>5, <1>6, WholeBytes DEF CiaKeeps

\* What holds of a CIA in every state a program can bring it to.
THEOREM CiaInvariant == CiaConstants => (CiaSpec => []IInv)
<1> SUFFICES ASSUME CiaConstants
             PROVE  CiaSpec => []IInv
  OBVIOUS
<1>1. CiaInit => IInv
  BY InitIInv
<1>2. IInv /\ [CiaNext]_ciaVars => IInv'
  BY StepKeepsIInv
<1> QED
  BY <1>1, <1>2, PTL DEF CiaSpec

\* Whatever the chip, the program and the order of reads, writes and half-cycles: no event is
\* lost before a program has read it, bit 7 says that an enabled one is there, the clock is
\* read and set as one time, and a byte passes the serial pins whole.
THEOREM CiaCorrect == CiaConstants => (CiaSpec => []CiaKeeps)
<1> SUFFICES ASSUME CiaConstants
             PROVE  CiaSpec => []CiaKeeps
  OBVIOUS
<1>1. IInv => CiaKeeps
  BY IInvKeeps
<1>2. CiaSpec => []IInv
  BY CiaInvariant
<1> QED
  BY <1>1, <1>2, PTL


-----------------------------------------------------------------------------
(* The console: the graph of the cables.                                   *)

\* What a cable may be called: what the presets, the user and WIRE call it.
CableName ==
    {"TRUNK0", "SEG1"} \cup {SegName[i] : i \in 1..Len(SegName)}
    \cup UNION {Sessions[s].names : s \in DOMAIN Sessions}
CableType == [name : CableName, host : BOOLEAN, drives : SUBSET Drives, profile : DOMAIN Profiles]
Nodes(cs) == 0..(Cardinality(Drives) + Len(cs))

LEMMA DriveNumbers ==
    ASSUME ConsoleConstants
    PROVE  /\ Cardinality(Drives) \in Nat /\ Drives = 1..Cardinality(Drives)
           /\ IsFiniteSet(Ends) /\ Cardinality(Ends) = Cardinality(Drives) + 1
           /\ Ends = 0..Cardinality(Drives)
<1>1. IsFiniteSet(Drives) /\ Drives = 1..Cardinality(Drives)
  BY DEF ConsoleConstants
<1>2. Cardinality(Drives) \in Nat
  BY <1>1, FS_CardinalityType
<1>3. 0 \notin Drives
  BY <1>1, <1>2
<1>4. Ends = Drives \cup {0}
  BY DEF Ends, Host
<1>5. IsFiniteSet(Ends) /\ Cardinality(Ends) = Cardinality(Drives) + 1
  BY <1>1, <1>3, <1>4, FS_AddElement
<1>6. Ends = 0..Cardinality(Drives)
  BY <1>1, <1>2, <1>4
<1> QED
  BY <1>1, <1>2, <1>5, <1>6

\* The cable of a node is a cable.
LEMMA CableOfNode ==
    ASSUME ConsoleConstants, NEW cs \in Seq(CableType), NEW n \in CableNodes(cs)
    PROVE  CableAt(cs, n) \in CableType /\ n \in Nodes(cs) /\ n \notin Ends
<1>1. PICK c \in DOMAIN cs : n = Cardinality(Drives) + c
  BY DEF CableNodes, CableNode
<1>2. Cardinality(Drives) \in Nat /\ c \in 1..Len(cs) /\ Len(cs) \in Nat /\ cs[c] \in CableType
  BY DriveNumbers
<1>3. n - Cardinality(Drives) = c
  BY <1>1, <1>2
<1> QED
  BY <1>1, <1>2, <1>3, DriveNumbers DEF CableAt, Nodes

LEMMA NodeKinds ==
    ASSUME ConsoleConstants, NEW cs \in Seq(CableType)
    PROVE  /\ Nodes(cs) = Ends \cup CableNodes(cs)
           /\ Host \in Ends
<1>1. Cardinality(Drives) \in Nat /\ Ends = 0..Cardinality(Drives) /\ Len(cs) \in Nat /\ DOMAIN cs = 1..Len(cs)
  BY DriveNumbers
<1>2. ASSUME NEW n \in Nodes(cs), n \notin Ends
      PROVE  n \in CableNodes(cs)
  <2>1. n - Cardinality(Drives) \in DOMAIN cs /\ n = Cardinality(Drives) + (n - Cardinality(Drives))
    BY <1>1, <1>2 DEF Nodes
  <2> QED
    BY <2>1 DEF CableNodes, CableNode
<1>3. CableNodes(cs) \subseteq Nodes(cs)
  BY CableOfNode
<1>4. Ends \subseteq Nodes(cs)
  BY <1>1 DEF Nodes
<1> QED
  BY <1>2, <1>3, <1>4 DEF Ends

\* The neighbours of a node are nodes, the graph has no direction, and an edge costs a number.
LEMMA Edges ==
    ASSUME ConsoleConstants, NEW cs \in Seq(CableType), NEW m \in Nodes(cs), NEW n \in Neighbours(cs, m)
    PROVE  /\ n \in Nodes(cs) /\ m \in Neighbours(cs, n)
           /\ EdgeWeight(cs, m, n) \in Nat
<1>0. \A t \in CableType : EndsOf(t) \subseteq Ends /\ CableWeight(t) \in Nat
  BY DEF CableType, EndsOf, Ends, CableWeight, ConsoleConstants
<1>1. CASE m \in Ends
  <2>1. n \in CableNodes(cs) /\ m \in EndsOf(CableAt(cs, n))
    BY <1>1 DEF Neighbours
  <2>2. CableAt(cs, n) \in CableType /\ n \in Nodes(cs) /\ n \notin Ends
    BY <2>1, CableOfNode
  <2> QED
    BY <1>0, <1>1, <2>1, <2>2 DEF Neighbours, EdgeWeight
<1>2. CASE m \notin Ends
  <2>1. m \in CableNodes(cs)
    BY <1>2, NodeKinds
  <2>2. CableAt(cs, m) \in CableType
    BY <2>1, CableOfNode
  <2>3. n \in EndsOf(CableAt(cs, m)) /\ n \in Ends
    BY <1>0, <1>2, <2>2 DEF Neighbours
  <2> QED
    BY <1>0, <1>2, <2>1, <2>2, <2>3, NodeKinds DEF Neighbours, EdgeWeight
<1> QED
  BY <1>1, <1>2

LEMMA NodesNumbered ==
    ASSUME ConsoleConstants, NEW cs \in Seq(CableType)
    PROVE  /\ IsFiniteSet(Nodes(cs)) /\ Nodes(cs) \subseteq Nat /\ Host \in Nodes(cs)
           /\ Cardinality(Nodes(cs)) = Cardinality(Ends) + Len(cs)
           /\ Cardinality(Ends) + Len(cs) \in Nat
<1> DEFINE last == Cardinality(Drives) + Len(cs)
<1>1. Cardinality(Drives) \in Nat /\ Cardinality(Ends) = Cardinality(Drives) + 1 /\ Len(cs) \in Nat
  BY DriveNumbers
<1>2. last \in Nat /\ Nodes(cs) = 0..last
  BY <1>1 DEF Nodes
<1>3. last - 0 + 1 = Cardinality(Ends) + Len(cs) /\ 0 <= last /\ 0 \in Int /\ last \in Int
  BY <1>1, <1>2
<1>4. IsFiniteSet(0..last) /\ Cardinality(0..last) = last - 0 + 1
  <2> HIDE DEF last
  <2> QED
    BY <1>3, FS_Interval
<1> QED
  BY <1>1, <1>2, <1>3, <1>4 DEF Host

-----------------------------------------------------------------------------
(* The search has its turns: the recursion on the numbers defines a        *)
(* function.                                                               *)

LEMMA LeastNumber ==
    ASSUME NEW T, T \subseteq Nat, T # {}
    PROVE  \E m \in T : \A k \in T : m <= k
<1> DEFINE less == OpToRel(<, Nat)
<1>1. IsWellFoundedOn(less, Nat)
  BY NatLessThanWellFounded
<1>2. \A x, y \in Nat : <<x, y>> \in less <=> x < y
  BY DEF OpToRel
<1> HIDE DEF less
<1>3. PICK m \in T : \A k \in T : ~ (<<k, m>> \in less)
  BY <1>1, WFMin
<1>4. \A k \in T : m <= k
  <2> TAKE k \in T
  <2>1. k \in Nat /\ m \in Nat /\ ~ (k < m)
    BY <1>2, <1>3
  <2> QED
    BY <2>1
<1> QED
  BY <1>4

\* g holds the search after turns 0 to k.
TurnsOf(cs, g, k) ==
    g[0] = SearchStart /\ \A i \in 1..k : g[i] = SearchStep(cs, g[i - 1])

LEMMA TurnsExist ==
    ASSUME NEW cs, NEW k \in Nat
    PROVE  \E g : TurnsOf(cs, g, k)
<1> DEFINE T == {i \in Nat : ~ \E g : TurnsOf(cs, g, i)}
<1> SUFFICES ASSUME T # {} PROVE FALSE
  OBVIOUS
<1>1. PICK m \in T : \A i \in T : m <= i
  <2> HIDE DEF T
  <2>1. T \subseteq Nat
    BY DEF T
  <2> QED
    BY <2>1, LeastNumber
<1>2. m # 0
  <2>1. TurnsOf(cs, [i \in {0} |-> SearchStart], 0)
    BY DEF TurnsOf
  <2> QED
    BY <1>1, <2>1
<1>3. m - 1 \in Nat /\ m - 1 \notin T
  BY <1>1, <1>2
<1>4. PICK g : TurnsOf(cs, g, m - 1)
  BY <1>3
<1> DEFINE h == [i \in 0..m |-> IF i = m THEN SearchStep(cs, g[m - 1]) ELSE g[i]]
<1>5. TurnsOf(cs, h, m)
  <2>1. h[0] = SearchStart
    BY <1>1, <1>2, <1>4 DEF TurnsOf
  <2>2. ASSUME NEW i \in 1..m
        PROVE  h[i] = SearchStep(cs, h[i - 1])
    <3>1. i - 1 \in 0..m /\ i - 1 # m /\ i \in 0..m /\ m \in Nat
      BY <1>1
    <3>2. h[i - 1] = g[i - 1]
      BY <3>1
    <3>3. CASE i = m
      BY <3>1, <3>2, <3>3
    <3>4. CASE i # m
      <4>1. i \in 1..(m - 1) /\ h[i] = g[i]
        BY <3>1, <3>4
      <4> QED
        BY <1>4, <3>2, <4>1 DEF TurnsOf
    <3> QED
      BY <3>3, <3>4
  <2> QED
    BY <2>1, <2>2 DEF TurnsOf
<1> QED
  BY <1>1, <1>5

LEMMA TurnsAgree ==
    ASSUME NEW cs, NEW g, NEW h, NEW k \in Nat, NEW l \in Nat, TurnsOf(cs, g, k), TurnsOf(cs, h, l),
           NEW i \in Nat, i <= k, i <= l
    PROVE  g[i] = h[i]
<1> DEFINE T == {j \in Nat : j <= k /\ j <= l /\ g[j] # h[j]}
<1> SUFFICES ASSUME T # {} PROVE FALSE
  OBVIOUS
<1>1. PICK m \in T : \A j \in T : m <= j
  <2> HIDE DEF T
  <2>1. T \subseteq Nat
    BY DEF T
  <2> QED
    BY <2>1, LeastNumber
<1>2. m # 0
  BY <1>1 DEF TurnsOf
<1>3. m - 1 \in Nat /\ m - 1 \notin T /\ m \in 1..k /\ m \in 1..l
  BY <1>1, <1>2
<1>4. g[m - 1] = h[m - 1]
  BY <1>3
<1>5. g[m] = SearchStep(cs, g[m - 1]) /\ h[m] = SearchStep(cs, h[m - 1])
  BY <1>3 DEF TurnsOf
<1> QED
  BY <1>1, <1>4, <1>5

LEMMA SearchTurns ==
    ASSUME NEW cs
    PROVE  /\ Search(cs)[0] = SearchStart
           /\ \A k \in Nat : k # 0 => Search(cs)[k] = SearchStep(cs, Search(cs)[k - 1])
<1> DEFINE run(k) == CHOOSE g : TurnsOf(cs, g, k)
           f == [k \in Nat |-> run(k)[k]]
           body(t) == [k \in Nat |-> IF k = 0 THEN SearchStart ELSE SearchStep(cs, t[k - 1])]
<1>1. \A k \in Nat : TurnsOf(cs, run(k), k)
  BY TurnsExist
<1> HIDE DEF run
<1>2. f[0] = SearchStart
  BY <1>1 DEF TurnsOf
<1>3. ASSUME NEW k \in Nat, k # 0
      PROVE  f[k] = SearchStep(cs, f[k - 1])
  <2>1. k - 1 \in Nat /\ k - 1 <= k /\ k \in 1..k
    BY <1>3
  <2>2. run(k)[k - 1] = run(k - 1)[k - 1]
    <3> DEFINE l == k - 1
    <3>1. l \in Nat /\ l <= k /\ l <= l /\ TurnsOf(cs, run(k), k) /\ TurnsOf(cs, run(l), l)
      BY <1>1, <2>1
    <3> HIDE DEF l
    <3>2. run(k)[l] = run(l)[l]
      BY <3>1, TurnsAgree
    <3> QED
      BY <3>2 DEF l
  <2>3. run(k)[k] = SearchStep(cs, run(k)[k - 1])
    BY <1>1, <2>1 DEF TurnsOf
  <2> QED
    BY <2>1, <2>2, <2>3
<1>4. f = body(f)
  <2>1. \A k \in Nat : f[k] = IF k = 0 THEN SearchStart ELSE SearchStep(cs, f[k - 1])
    BY <1>2, <1>3
  <2> DEFINE each(k) == IF k = 0 THEN SearchStart ELSE SearchStep(cs, f[k - 1])
  <2>2. f = [k \in Nat |-> f[k]]
    OBVIOUS
  <2>3. \A k \in Nat : f[k] = each(k)
    BY <2>1
  <2> HIDE DEF f, each
  <2>4. f = [k \in Nat |-> each(k)]
    BY <2>2, <2>3
  <2> QED
    BY <2>4 DEF each
<1> HIDE DEF f
<1>5. Search(cs) = CHOOSE t : t = body(t)
  BY DEF Search
<1>6. Search(cs) = body(Search(cs))
  <2> HIDE DEF body
  <2> QED
    BY <1>4, <1>5
<1> DEFINE s == Search(cs)
<1>7. s = body(s)
  BY <1>6
<1> HIDE DEF s
<1>8. s[0] = SearchStart /\ \A k \in Nat : k # 0 => s[k] = SearchStep(cs, s[k - 1])
  BY <1>7
<1> QED
  BY <1>8 DEF s

-----------------------------------------------------------------------------
(* What each turn keeps, and what is left when no node is open.            *)

\* The distances are numbers, the C64's is zero.
DistancesOf(cs, s) ==
    /\ s.dist \in [DOMAIN s.dist -> Nat] /\ DOMAIN s.dist \subseteq Nodes(cs)
    /\ s.used \subseteq DOMAIN s.dist
    /\ Host \in DOMAIN s.dist /\ s.dist[Host] = 0
\* What was used is not farther than what is open.
UsedFirst(s) == \A u \in s.used : \A n \in DOMAIN s.dist \ s.used : s.dist[u] <= s.dist[n]
\* The edges of what was used are no shorter than the difference of their ends.
UsedRelaxed(cs, s) ==
    \A u \in s.used : \A n \in Neighbours(cs, u) :
        n \in DOMAIN s.dist /\ s.dist[n] <= s.dist[u] + EdgeWeight(cs, u, n)
\* Every node was reached over an edge of what was used.
ReachedOver(cs, s) ==
    \A n \in DOMAIN s.dist \ {Host} : \E m \in Neighbours(cs, n) :
        m \in s.used /\ s.dist[n] = s.dist[m] + EdgeWeight(cs, m, n)
SearchOK(cs, s) == DistancesOf(cs, s) /\ UsedFirst(s) /\ UsedRelaxed(cs, s) /\ ReachedOver(cs, s)

LEMMA NearestIsOpen ==
    ASSUME NEW open, NEW dist, open \subseteq Nat, open # {}, dist \in [DOMAIN dist -> Nat],
           open \subseteq DOMAIN dist
    PROVE  /\ NearestOpen(dist, open) \in open
           /\ \A u \in open : dist[NearestOpen(dist, open)] <= dist[u]
<1> DEFINE D == {dist[v] : v \in open}
<1>1. D \subseteq Nat /\ D # {}
  OBVIOUS
<1>2. PICK d \in D : \A k \in D : d <= k
  <2> HIDE DEF D
  <2> QED
    BY <1>1, LeastNumber
<1> DEFINE N == {v \in open : dist[v] = d}
<1>3. N \subseteq Nat /\ N # {}
  BY <1>2
<1>4. PICK v \in N : \A k \in N : v <= k
  <2> HIDE DEF N
  <2> QED
    BY <1>3, LeastNumber
<1>5. ASSUME NEW u \in open
      PROVE  dist[v] < dist[u] \/ (dist[v] = dist[u] /\ v <= u)
  <2>1. dist[v] = d /\ d <= dist[u] /\ dist[u] \in Nat /\ d \in Nat
    BY <1>1, <1>2, <1>4
  <2>2. CASE dist[u] = d
    BY <1>4, <2>1, <2>2
  <2>3. CASE dist[u] # d
    BY <2>1, <2>3
  <2> QED
    BY <2>2, <2>3
<1>6. v \in open /\ \A u \in open : dist[v] < dist[u] \/ (dist[v] = dist[u] /\ v <= u)
  BY <1>4, <1>5
<1> DEFINE w == NearestOpen(dist, open)
<1>7. w \in open /\ \A u \in open : dist[w] < dist[u] \/ (dist[w] = dist[u] /\ w <= u)
  BY <1>6 DEF NearestOpen
<1>8. \A u \in open : dist[w] <= dist[u]
  <2> HIDE DEF w
  <2>1. \A u \in open : dist[u] \in Nat
    OBVIOUS
  <2> QED
    BY <1>7, <2>1
<1> QED
  BY <1>7, <1>8

\* A turn uses the nearest open node; nothing that was used gets nearer.
LEMMA RelaxedOK ==
    ASSUME ConsoleConstants, NEW cs \in Seq(CableType), NEW s, SearchOK(cs, s),
           NEW v \in DOMAIN s.dist \ s.used,
           \A u \in DOMAIN s.dist \ s.used : s.dist[v] <= s.dist[u]
    PROVE  SearchOK(cs, Relaxed(cs, s, v))
<1> DEFINE dist == s.dist
           better == Better(cs, dist, v)
           cost(n) == dist[v] + EdgeWeight(cs, v, n)
           dom == DOMAIN dist \cup better
           dist2 == [n \in dom |-> IF n \in better THEN cost(n) ELSE dist[n]]
           used2 == s.used \cup {v}
           r == Relaxed(cs, s, v)
<1>1. r.dist = dist2 /\ r.used = used2 /\ DOMAIN dist2 = dom
  BY DEF Relaxed
<1>2. /\ dist \in [DOMAIN dist -> Nat] /\ DOMAIN dist \subseteq Nodes(cs) /\ s.used \subseteq DOMAIN dist
      /\ Host \in DOMAIN dist /\ dist[Host] = 0 /\ v \in DOMAIN dist /\ v \in Nodes(cs) /\ v \notin s.used
  BY DEF SearchOK, DistancesOf
<1>3. \A n \in Neighbours(cs, v) : n \in Nodes(cs) /\ v \in Neighbours(cs, n) /\ EdgeWeight(cs, v, n) \in Nat
  BY <1>2, Edges
<1>4. better \subseteq Neighbours(cs, v)
  BY DEF Better
<1>5. dist[v] \in Nat /\ \A n \in better : cost(n) \in Nat /\ dist[v] <= cost(n)
  BY <1>2, <1>3, <1>4
<1>6. \A n \in better : n \in DOMAIN dist => cost(n) < dist[n]
  BY DEF Better
<1>7. \A u \in used2 : dist[u] \in Nat /\ dist[u] <= dist[v] /\ u \in DOMAIN dist
  BY <1>2, <1>5 DEF SearchOK, UsedFirst
<1>8. \A u \in used2 : u \notin better
  BY <1>5, <1>6, <1>7
<1>9. Host \notin better
  BY <1>2, <1>5, <1>6
<1> HIDE DEF better
<1>10. \A n \in dom : dist2[n] = IF n \in better THEN cost(n) ELSE dist[n]
  OBVIOUS
<1>11. \A u \in used2 : dist2[u] = dist[u] /\ u \in dom
  BY <1>7, <1>8, <1>10
<1>12. \A n \in dom : dist2[n] \in Nat
  BY <1>2, <1>5, <1>10
<1>13. \A n \in DOMAIN dist : dist2[n] <= dist[n] /\ n \in dom
  BY <1>2, <1>5, <1>6, <1>10
<1>14. \A n \in dom \ used2 : dist[v] <= dist2[n]
  <2>1. \A n \in DOMAIN dist \ used2 : dist[v] <= dist[n]
    OBVIOUS
  <2> QED
    BY <1>5, <1>10, <2>1
<1>15. DistancesOf(cs, r)
  <2>1. dom \subseteq Nodes(cs)
    BY <1>2, <1>3, <1>4
  <2>2. dist2 \in [dom -> Nat]
    BY <1>12
  <2>3. Host \in dom /\ dist2[Host] = 0 /\ used2 \subseteq dom
    BY <1>2, <1>9, <1>10, <1>11
  <2> HIDE DEF dist2, dom, used2, r
  <2> QED
    BY <1>1, <2>1, <2>2, <2>3 DEF DistancesOf
<1>16. UsedFirst(r)
  <2>1. ASSUME NEW u \in used2, NEW n \in dom \ used2
        PROVE  dist2[u] <= dist2[n]
    <3>1. dist2[u] = dist[u] /\ dist[u] \in Nat /\ dist[u] <= dist[v] /\ dist[v] <= dist2[n] /\ dist2[n] \in Nat
      BY <1>7, <1>11, <1>12, <1>14
    <3> QED
      BY <1>5, <3>1
  <2> HIDE DEF dist2, dom, used2, r
  <2> QED
    BY <1>1, <2>1 DEF UsedFirst
<1>17. UsedRelaxed(cs, r)
  <2>1. ASSUME NEW u \in used2, NEW n \in Neighbours(cs, u)
        PROVE  n \in dom /\ dist2[n] <= dist2[u] + EdgeWeight(cs, u, n)
    <3>1. EdgeWeight(cs, u, n) \in Nat
      BY <1>2, <1>7, Edges
    <3>2. CASE u = v
      <4>1. n \notin better => n \in DOMAIN dist /\ ~ (cost(n) < dist[n])
        BY <3>2 DEF Better, better
      <4>0. cost(n) = dist[v] + EdgeWeight(cs, u, n)
        BY <3>2
      <4>2. cost(n) \in Nat /\ dist2[u] = dist[v] /\ cost(n) = dist[v] + EdgeWeight(cs, u, n)
        <5>1. dist2[u] = dist[v]
          BY <1>11, <3>2
        <5> HIDE DEF dist2, cost
        <5> QED
          BY <1>5, <3>1, <4>0, <5>1
      <4>3. CASE n \in better
        BY <1>10, <4>2, <4>3
      <4>4. CASE n \notin better
        <5>1. n \in DOMAIN dist /\ dist[n] \in Nat /\ dist2[n] = dist[n] /\ dist[n] <= cost(n)
          BY <1>2, <1>10, <4>1, <4>2, <4>4
        <5> QED
          BY <4>2, <5>1
      <4> QED
        BY <4>3, <4>4
    <3>3. CASE u \in s.used
      <4>1. n \in DOMAIN dist /\ dist[n] <= dist[u] + EdgeWeight(cs, u, n)
        BY <3>3 DEF SearchOK, UsedRelaxed
      <4>2. dist2[n] <= dist[n] /\ n \in dom /\ dist2[n] \in Nat /\ dist[n] \in Nat /\ dist2[u] = dist[u]
        BY <1>2, <1>11, <1>12, <1>13, <4>1
      <4>3. dist[u] \in Nat
        BY <1>7
      <4> QED
        BY <3>1, <4>1, <4>2, <4>3
    <3> QED
      BY <3>2, <3>3
  <2> HIDE DEF dist2, dom, used2, r
  <2> QED
    BY <1>1, <2>1 DEF UsedRelaxed
<1>18. ReachedOver(cs, r)
  <2>1. ASSUME NEW n \in dom \ {Host}
        PROVE  \E m \in Neighbours(cs, n) : m \in used2 /\ dist2[n] = dist2[m] + EdgeWeight(cs, m, n)
    <3>1. CASE n \in better
      <4>1. v \in Neighbours(cs, n) /\ v \in used2 /\ dist2[v] = dist[v] /\ dist2[n] = cost(n)
        BY <1>3, <1>4, <1>10, <1>11, <3>1
      <4> QED
        BY <4>1
    <3>2. CASE n \notin better
      <4>1. n \in DOMAIN dist \ {Host} /\ dist2[n] = dist[n]
        BY <1>10, <3>2
      <4>2. PICK m \in Neighbours(cs, n) : m \in s.used /\ dist[n] = dist[m] + EdgeWeight(cs, m, n)
        BY <4>1 DEF SearchOK, ReachedOver
      <4> QED
        BY <1>11, <4>1, <4>2
    <3> QED
      BY <3>1, <3>2
  <2> HIDE DEF dist2, dom, used2, r
  <2> QED
    BY <1>1, <2>1 DEF ReachedOver
<1> QED
  BY <1>15, <1>16, <1>17, <1>18 DEF SearchOK

\* After each turn: as many nodes are used as there were turns, or none is open.
TurnOK(cs, k) ==
    LET s == Search(cs)[k]
    IN  /\ SearchOK(cs, s)
        /\ Cardinality(s.used) = k \/ DOMAIN s.dist \subseteq s.used

LEMMA FirstTurn ==
    ASSUME ConsoleConstants, NEW cs \in Seq(CableType)
    PROVE  TurnOK(cs, 0)
<1> DEFINE s == SearchStart
<1>1. s.used = {} /\ DOMAIN s.dist = {Host} /\ s.dist[Host] = 0 /\ s.dist \in [{Host} -> Nat]
  BY DEF SearchStart
<1>2. Host \in Nodes(cs)
  BY NodesNumbered
<1>3. Cardinality({}) = 0
  BY FS_EmptySet
<1> HIDE DEF s
<1>4. SearchOK(cs, s)
  BY <1>1, <1>2 DEF SearchOK, DistancesOf, UsedFirst, UsedRelaxed, ReachedOver
<1>5. Search(cs)[0] = s
  BY SearchTurns DEF s
<1> QED
  BY <1>1, <1>3, <1>4, <1>5 DEF TurnOK

LEMMA NextTurn ==
    ASSUME ConsoleConstants, NEW cs \in Seq(CableType), NEW k \in Nat, TurnOK(cs, k)
    PROVE  TurnOK(cs, k + 1)
<1> DEFINE s == Search(cs)[k]
           t == Search(cs)[k + 1]
           open == DOMAIN s.dist \ s.used
           v == NearestOpen(s.dist, open)
<1>1. t = SearchStep(cs, s)
  <2>1. k + 1 \in Nat /\ k + 1 # 0 /\ (k + 1) - 1 = k
    OBVIOUS
  <2> QED
    BY <2>1, SearchTurns
<1>2. SearchOK(cs, s) /\ (Cardinality(s.used) = k \/ open = {})
  BY DEF TurnOK
<1> HIDE DEF s, t
<1>3. CASE open = {}
  <2>1. t = s
    BY <1>1, <1>3 DEF SearchStep
  <2> QED
    BY <1>2, <1>3, <2>1 DEF TurnOK, s, t
<1>4. CASE open # {}
  <2>1. /\ IsFiniteSet(Nodes(cs)) /\ Nodes(cs) \subseteq Nat /\ DOMAIN s.dist \subseteq Nodes(cs)
        /\ s.used \subseteq DOMAIN s.dist /\ s.dist \in [DOMAIN s.dist -> Nat]
    BY <1>2, NodesNumbered DEF SearchOK, DistancesOf
  <2>2. v \in open /\ \A u \in open : s.dist[v] <= s.dist[u]
    <3> DEFINE dist == s.dist
    <3>1. open \subseteq Nat /\ open \subseteq DOMAIN dist /\ dist \in [DOMAIN dist -> Nat]
      BY <2>1
    <3> HIDE DEF dist, open
    <3>2. NearestOpen(dist, open) \in open /\ \A u \in open : dist[NearestOpen(dist, open)] <= dist[u]
      BY <1>4, <3>1, NearestIsOpen
    <3> QED
      BY <3>2 DEF dist
  <2>3. t = Relaxed(cs, s, v)
    BY <1>1, <1>4 DEF SearchStep
  <2> HIDE DEF v
  <2>4. SearchOK(cs, t)
    BY <1>2, <2>2, <2>3, RelaxedOK
  <2>5. t.used = s.used \cup {v} /\ v \notin s.used
    BY <2>2, <2>3 DEF Relaxed
  <2>6. IsFiniteSet(s.used)
    BY <2>1, FS_Subset
  <2>7. Cardinality(t.used) = k + 1
    <3> DEFINE used == s.used
    <3>1. IsFiniteSet(used) /\ v \notin used /\ t.used = used \cup {v} /\ Cardinality(used) = k
      BY <1>2, <1>4, <2>5, <2>6
    <3> HIDE DEF used
    <3> QED
      BY <3>1, FS_AddElement
  <2> QED
    BY <2>4, <2>7 DEF TurnOK, t
<1> QED
  BY <1>3, <1>4

LEMMA EveryTurn ==
    ASSUME ConsoleConstants, NEW cs \in Seq(CableType)
    PROVE  \A k \in Nat : TurnOK(cs, k)
<1> DEFINE T == {k \in Nat : ~ TurnOK(cs, k)}
<1> SUFFICES ASSUME T # {} PROVE FALSE
  OBVIOUS
<1>1. PICK m \in T : \A k \in T : m <= k
  <2> HIDE DEF T
  <2>1. T \subseteq Nat
    BY DEF T
  <2> QED
    BY <2>1, LeastNumber
<1>2. m # 0
  BY <1>1, FirstTurn
<1> DEFINE l == m - 1
<1>3. l \in Nat /\ l + 1 = m /\ TurnOK(cs, l)
  BY <1>1, <1>2
<1> HIDE DEF l
<1>4. TurnOK(cs, l + 1)
  BY <1>3, NextTurn
<1> QED
  BY <1>1, <1>3, <1>4

\* The distances are those of a shortest way.
ShortestOf(cs, dist) ==
    /\ dist \in [DOMAIN dist -> Nat] /\ Host \in DOMAIN dist /\ dist[Host] = 0
    /\ \A m \in DOMAIN dist : \A n \in Neighbours(cs, m) :
        n \in DOMAIN dist /\ dist[n] <= dist[m] + EdgeWeight(cs, m, n)
    /\ \A n \in DOMAIN dist \ {Host} : \E m \in Neighbours(cs, n) :
        m \in DOMAIN dist /\ dist[n] = dist[m] + EdgeWeight(cs, m, n)

\* Every search through cables ends with nothing open, and its distances are the shortest.
LEMMA SearchEnds ==
    ASSUME ConsoleConstants, NEW cs \in Seq(CableType)
    PROVE  ShortestOf(cs, Distances(cs))
<1> DEFINE k == Cardinality(Ends) + Len(cs)
           s == Search(cs)[k]
<1>1. k \in Nat /\ IsFiniteSet(Nodes(cs)) /\ Cardinality(Nodes(cs)) = k
  BY NodesNumbered
<1>2. SearchOK(cs, s) /\ (Cardinality(s.used) = k \/ DOMAIN s.dist \subseteq s.used)
  <2> HIDE DEF k
  <2> QED
    BY <1>1, EveryTurn DEF TurnOK
<1>3. Distances(cs) = s.dist
  BY DEF Distances
<1> HIDE DEF s, k
<1>4. DOMAIN s.dist \subseteq Nodes(cs) /\ s.used \subseteq DOMAIN s.dist
  BY <1>2 DEF SearchOK, DistancesOf
<1>5. DOMAIN s.dist = s.used
  <2>1. CASE Cardinality(s.used) = k
    <3> DEFINE nodes == Nodes(cs)
               used == s.used
    <3>1. IsFiniteSet(nodes) /\ used \in SUBSET nodes /\ Cardinality(used) = Cardinality(nodes)
      BY <1>1, <1>4, <2>1
    <3> HIDE DEF nodes, used
    <3>2. used = nodes
      BY <3>1, FS_Subset
    <3> QED
      BY <1>4, <3>2 DEF nodes, used
  <2> QED
    BY <1>2, <1>4, <2>1
<1> QED
  BY <1>2, <1>3, <1>5 DEF SearchOK, DistancesOf, UsedRelaxed, ReachedOver, ShortestOf

-----------------------------------------------------------------------------
(* The invariant of the console.                                           *)

CableDefaults == {{}} \cup {{n} : n \in CableName}
PresetType == [cables : Seq(CableType), default : CableDefaults, c64On : BOOLEAN, on : SUBSET Drives]
ViewType == [current : SUBSET Wires, target : SUBSET Wires, remaining : Nat, pending : BOOLEAN]

WiringOK == cables \in Seq(CableType) /\ default \in CableDefaults /\ mode \in Modes
PowersOK == c64On \in BOOLEAN /\ drivePower \in [Drives -> PowerStates] /\ presets \in [1..3 -> PresetType]
PullsOK == hostPull \in SUBSET Wires /\ drivePull \in [Drives -> SUBSET Wires]

LinesType(s) ==
    /\ s.view \in [Ends -> ViewType] /\ s.driven \in SUBSET Wires
    /\ s.still \in Nat /\ s.due \in [Ends -> Nat]
\* A wait is under way: it has a call to go and had its first.
WaitsOK(s) ==
    \A e \in Ends : s.view[e].pending => 0 < s.view[e].remaining /\ s.view[e].remaining < s.due[e]
\* While lines and wiring stand still, an end in reach has the lines or waits for these, and has
\* no more calls to wait than the delay leaves.
ArrivingAt(s, e) ==
    \/ s.view[e].current = s.driven
    \/ /\ s.view[e].pending /\ s.view[e].target = s.driven
       /\ s.view[e].remaining + s.still <= s.due[e]
ArrivingOK(s, dist) ==
    s.still > 0 =>
        /\ \A e \in Linked(dist) \cup {Host} : ArrivingAt(s, e)
        /\ \A d \in Drives \ Linked(dist) : s.view[d].current = {}
LinesOK(s, dist) == LinesType(s) /\ WaitsOK(s) /\ ArrivingOK(s, dist)

ConsoleInv ==
    /\ session \in DOMAIN Sessions
    /\ WiringOK /\ PowersOK /\ PullsOK
    /\ LinesOK(AsRecord, Distances(cables))

-----------------------------------------------------------------------------
(* One sync.                                                               *)

LEMMA DelayIsNumber ==
    ASSUME NEW dist, dist \in [DOMAIN dist -> Nat], NEW e \in Linked(dist) \cup {Host}
    PROVE  DelayTo(e, dist) \in Nat
<1> DEFINE linked == Linked(dist)
           D == {dist[d] : d \in linked}
           nearest == CHOOSE d \in linked : \A f \in linked : dist[d] <= dist[f]
<1>1. linked \subseteq DOMAIN dist /\ D \subseteq Nat
  BY DEF Linked
<1>2. CASE linked = {}
  BY <1>2 DEF DelayTo
<1>3. CASE linked # {}
  <2>1. D # {}
    BY <1>3
  <2>2. PICK m \in D : \A k \in D : m <= k
    <3> HIDE DEF D
    <3> QED
      BY <1>1, <2>1, LeastNumber
  <2>3. \E d \in linked : \A f \in linked : dist[d] <= dist[f]
    BY <2>2
  <2>4. nearest \in linked
    <3> HIDE DEF linked
    <3> QED
      BY <2>3
  <2>5. dist[nearest] \in Nat
    <3> HIDE DEF nearest, linked
    <3> QED
      BY <1>1, <2>4
  <2>6. e # Host => e \in linked /\ dist[e] \in Nat
    BY <1>1
  <2> QED
    BY <2>5, <2>6 DEF DelayTo
<1> QED
  BY <1>2, <1>3

\* A view that waits no more.
Settled(v, low) == [current |-> low, target |-> v.target, remaining |-> 0, pending |-> FALSE]

LEMMA ViewFields ==
    ASSUME NEW v \in ViewType
    PROVE  /\ v = [current |-> v.current, target |-> v.target, remaining |-> v.remaining, pending |-> v.pending]
           /\ \A low \in SUBSET Wires : Settled(v, low) \in ViewType
<1>1. v = [current |-> v.current, target |-> v.target, remaining |-> v.remaining, pending |-> v.pending]
      /\ v.target \in SUBSET Wires
  BY DEF ViewType
<1> QED
  BY <1>1 DEF ViewType, Settled

\* What an end sees next: the lines, or it waits for them with one call less to go.
LEMMA DelayedView ==
    ASSUME NEW v \in ViewType, NEW low \in SUBSET Wires, NEW delay \in Nat, NEW owed \in Nat,
           v.pending => 0 < v.remaining /\ v.remaining < owed,
           NEW begins \in BOOLEAN, begins <=> v.current # low /\ ~(v.pending /\ v.target = low),
           NEW n, n = Delayed(v, low, delay)
    PROVE  /\ n \in ViewType
           /\ n.pending => 0 < n.remaining /\ n.remaining < IF begins THEN delay ELSE owed
           /\ \/ n.current = low
              \/ /\ n.pending /\ n.target = low
                 /\ begins => n.remaining + 1 <= delay
                 /\ ~begins => v.pending /\ v.target = low /\ v.remaining = n.remaining + 1
<1> DEFINE w == Waiting(v, low, delay)
<1>0. v.current \in SUBSET Wires /\ v.target \in SUBSET Wires /\ v.remaining \in Nat /\ v.pending \in BOOLEAN
  BY DEF ViewType
<1>1. CASE v.current = low
  <2>1. n = [v EXCEPT !.pending = FALSE, !.remaining = 0]
    BY <1>1 DEF Delayed
  <2>2. n = Settled(v, low)
    BY <1>1, <2>1, ViewFields DEF Settled
  <2>3. n \in ViewType
    BY <2>2, ViewFields
  <2>4. n.current = low /\ n.pending = FALSE
    BY <2>2 DEF Settled
  <2> QED
    BY <2>3, <2>4
<1>2. CASE v.current # low /\ delay = 0
  <2>1. n = [v EXCEPT !.current = low, !.pending = FALSE, !.remaining = 0]
    BY <1>2 DEF Delayed
  <2>2. n = Settled(v, low)
    BY <2>1, ViewFields DEF Settled
  <2>3. n \in ViewType
    BY <2>2, ViewFields
  <2>4. n.current = low /\ n.pending = FALSE
    BY <2>2 DEF Settled
  <2> QED
    BY <2>3, <2>4
<1>3. CASE v.current # low /\ delay # 0
  <2>1. w \in ViewType /\ w.target = low /\ w.pending = TRUE
        /\ w.remaining = IF begins THEN delay ELSE v.remaining
    <3>1. CASE begins
      <4>1. w = [v EXCEPT !.target = low, !.remaining = delay, !.pending = TRUE]
        BY <3>1 DEF Waiting
      <4> QED
        BY <3>1, <4>1 DEF ViewType
    <3>2. CASE ~ begins
      <4>1. w = v /\ v.pending = TRUE /\ v.target = low
        BY <1>0, <1>3, <3>2 DEF Waiting
      <4> QED
        BY <3>2, <4>1
    <3> QED
      BY <3>1, <3>2
  <2>2. n = IF w.remaining > 1 THEN [w EXCEPT !.remaining = @ - 1]
            ELSE [w EXCEPT !.current = w.target, !.remaining = 0, !.pending = FALSE]
    BY <1>3 DEF Delayed
  <2> HIDE DEF w
  <2>3. w.remaining \in Nat
    BY <2>1 DEF ViewType
  <2>4. CASE w.remaining > 1
    <3>1. n = [w EXCEPT !.remaining = w.remaining - 1] /\ w.remaining - 1 \in Nat
      BY <2>2, <2>3, <2>4
    <3>2. n \in ViewType /\ n.pending = TRUE /\ n.target = low /\ n.remaining = w.remaining - 1
      BY <2>1, <3>1 DEF ViewType
    <3>3. CASE begins
      <4>1. n.remaining = delay - 1 /\ n.remaining > 0
        BY <2>1, <2>3, <2>4, <3>2, <3>3
      <4> QED
        BY <3>2, <3>3, <4>1
    <3>4. CASE ~ begins
      <4>1. v.pending /\ v.target = low /\ v.remaining > 1 /\ n.remaining = v.remaining - 1 /\ v.remaining < owed
        BY <1>3, <2>1, <2>4, <3>2, <3>4
      <4> QED
        BY <1>0, <3>2, <3>4, <4>1
    <3> QED
      BY <3>3, <3>4
  <2>5. CASE ~ (w.remaining > 1)
    <3>1. n = [w EXCEPT !.current = w.target, !.remaining = 0, !.pending = FALSE]
      BY <2>2, <2>5
    <3>fields. w = [current |-> w.current, target |-> w.target, remaining |-> w.remaining, pending |-> w.pending]
      BY <2>1, ViewFields
    <3>2. n = Settled(w, low)
      BY <2>1, <3>1, <3>fields DEF Settled
    <3>3. n \in ViewType
      BY <2>1, <3>2, ViewFields
    <3>4. n.current = low /\ n.pending = FALSE
      BY <3>2 DEF Settled
    <3> QED
      BY <3>3, <3>4
  <2> QED
    BY <2>4, <2>5
<1> QED
  BY <1>1, <1>2, <1>3

\* A sync keeps all of it, under one wiring.
LEMMA SyncKeeps ==
    ASSUME ConsoleConstants, NEW s, NEW dist, dist \in [DOMAIN dist -> Nat], LinesOK(s, dist),
           NEW host \in SUBSET Wires, NEW drv \in [Drives -> SUBSET Wires]
    PROVE  LinesOK(Synced(s, host, drv, dist), dist)
<1> DEFINE low == LowLines(host, drv, dist)
           r == Synced(s, host, drv, dist)
           begins(e) == Begins(e, s.view[e], low, dist)
           seen(e) == SeenAt(e, s.view[e], low, dist)
           reach == Linked(dist) \cup {Host}
<1>1. low \in SUBSET Wires
  BY DEF LowLines, Linked
<1> HIDE DEF low
<1>2. /\ r.view = [e \in Ends |-> seen(e)] /\ r.driven = low
      /\ r.still = IF low # s.driven THEN 1 ELSE IF s.still < MaxStill THEN s.still + 1 ELSE MaxStill
      /\ r.due = [e \in Ends |-> IF begins(e) THEN DelayTo(e, dist) ELSE s.due[e]]
  BY DEF Synced, low
<1> HIDE DEF r
<1>3. /\ s.view \in [Ends -> ViewType] /\ s.still \in Nat /\ s.due \in [Ends -> Nat] /\ MaxStill \in Nat
      /\ WaitsOK(s) /\ ArrivingOK(s, dist)
  BY DEF LinesOK, LinesType, ConsoleConstants
<1>4. \A e \in reach : DelayTo(e, dist) \in Nat
  BY DelayIsNumber
<1>5. reach \subseteq Ends /\ Host \in Ends
  BY DEF Linked, Ends
<1>6. r.still \in Nat /\ (r.still > 1 => low = s.driven /\ 0 < s.still /\ r.still <= s.still + 1)
  <2>1. CASE low # s.driven
    BY <1>2, <2>1
  <2>2. CASE low = s.driven /\ s.still < MaxStill
    BY <1>2, <1>3, <2>2
  <2>3. CASE low = s.driven /\ ~ (s.still < MaxStill)
    BY <1>2, <1>3, <2>3
  <2> QED
    BY <2>1, <2>2, <2>3
\* An end out of reach.
<1>7. ASSUME NEW e \in Ends \ reach
      PROVE  seen(e) \in ViewType /\ ~ seen(e).pending /\ seen(e).current = {} /\ ~ begins(e)
  <2>1. seen(e) = [s.view[e] EXCEPT !.current = {}, !.pending = FALSE, !.remaining = 0]
    BY DEF SeenAt
  <2>2. s.view[e] \in ViewType
    BY <1>3
  <2>3. ~ begins(e)
    BY DEF Begins
  <2> DEFINE v == s.view[e]
             n == seen(e)
  <2>4. v \in ViewType /\ n = [v EXCEPT !.current = {}, !.pending = FALSE, !.remaining = 0]
    BY <2>1, <2>2
  <2> HIDE DEF v, n
  <2>fields. v = [current |-> v.current, target |-> v.target, remaining |-> v.remaining, pending |-> v.pending]
    BY <2>4, ViewFields
  <2>5. n = Settled(v, {})
    BY <2>4, <2>fields DEF Settled
  <2>6. n \in ViewType
    BY <2>4, <2>5, ViewFields
  <2>7. n.current = {} /\ n.pending = FALSE
    BY <2>5 DEF Settled
  <2> QED
    BY <2>3, <2>6, <2>7 DEF n
\* An end in reach.
<1>8. ASSUME NEW e \in reach
      PROVE  /\ seen(e) \in ViewType
             /\ seen(e).pending => 0 < seen(e).remaining /\ seen(e).remaining < r.due[e]
             /\ r.due[e] \in Nat
             /\ \/ seen(e).current = low
                \/ seen(e).pending /\ seen(e).target = low /\ seen(e).remaining + r.still <= r.due[e]
  <2> DEFINE v == s.view[e]
             n == seen(e)
             delay == DelayTo(e, dist)
             owed == s.due[e]
             first == begins(e)
  <2>1. /\ v \in ViewType /\ delay \in Nat /\ owed \in Nat /\ e \in Ends
        /\ v.pending => 0 < v.remaining /\ v.remaining < owed
    BY <1>3, <1>4, <1>5 DEF WaitsOK
  <2>2. n = Delayed(v, low, delay)
    BY DEF SeenAt
  <2>3. first \in BOOLEAN /\ (first <=> v.current # low /\ ~(v.pending /\ v.target = low))
    BY DEF Begins
  <2>4. r.due[e] = IF first THEN delay ELSE owed
    BY <1>2, <2>1
  <2>5. 0 < s.still /\ low = s.driven => v.current = low \/ (v.pending /\ v.target = low /\ v.remaining + s.still <= owed)
    BY <1>3 DEF ArrivingOK, ArrivingAt
  <2> HIDE DEF v, n, delay, owed, first
  <2>6. /\ n \in ViewType
        /\ n.pending => 0 < n.remaining /\ n.remaining < IF first THEN delay ELSE owed
        /\ \/ n.current = low
           \/ /\ n.pending /\ n.target = low
              /\ first => n.remaining + 1 <= delay
              /\ ~first => v.pending /\ v.target = low /\ v.remaining = n.remaining + 1
    BY <1>1, <2>1, <2>2, <2>3, DelayedView
  <2>7. n.remaining \in Nat /\ v.remaining \in Nat
    BY <2>1, <2>6 DEF ViewType
  <2>8. \/ n.current = low
        \/ n.pending /\ n.target = low /\ n.remaining + r.still <= IF first THEN delay ELSE owed
    <3>1. CASE n.current = low
      BY <3>1
    <3>2. CASE n.current # low /\ first
      <4>1. n.pending /\ n.target = low /\ n.remaining + 1 <= delay
        BY <2>6, <3>2
      <4>2. r.still <= 1
        BY <1>6, <2>3, <2>5, <3>2
      <4> QED
        BY <1>6, <2>1, <2>7, <3>2, <4>1, <4>2
    <3>3. CASE n.current # low /\ ~ first
      <4>1. n.pending /\ n.target = low /\ v.pending /\ v.target = low /\ v.remaining = n.remaining + 1
        BY <2>6, <3>3
      <4>2. v.remaining < owed
        BY <2>1, <4>1
      <4>3. CASE r.still <= 1
        BY <1>6, <2>1, <2>7, <3>3, <4>1, <4>2, <4>3
      <4>4. CASE r.still > 1
        <5>1. low = s.driven /\ 0 < s.still /\ r.still <= s.still + 1
          BY <1>6, <4>4
        <5>2. v.current # low
          <6>1. v.current = low => n.current = low
            <7>1. ASSUME v.current = low PROVE n.current = low
              <8>1. n = [v EXCEPT !.pending = FALSE, !.remaining = 0]
                BY <2>2, <7>1 DEF Delayed
              <8> QED
                BY <2>1, <7>1, <8>1 DEF ViewType
            <7> QED
              BY <7>1
          <6> QED
            BY <3>3, <6>1
        <5>3. v.remaining + s.still <= owed
          BY <2>5, <5>1, <5>2
        <5> QED
          BY <1>3, <1>6, <2>1, <2>7, <3>3, <4>1, <5>1, <5>3
      <4> QED
        BY <1>6, <4>3, <4>4
    <3> QED
      BY <3>1, <3>2, <3>3
  <2>9. n \in ViewType /\ (n.pending => 0 < n.remaining /\ n.remaining < r.due[e]) /\ r.due[e] \in Nat
    BY <2>1, <2>4, <2>6
  <2> QED
    BY <2>4, <2>8, <2>9 DEF n
<1> HIDE DEF seen, begins
<1>9. LinesType(r)
  <2>1. \A e \in Ends : seen(e) \in ViewType
    BY <1>7, <1>8
  <2>2. \A e \in Ends : r.due[e] \in Nat
    BY <1>2, <1>3, <1>7, <1>8
  <2>3. r.due \in [Ends -> Nat]
    BY <1>2, <2>2
  <2> QED
    BY <1>1, <1>2, <1>6, <2>1, <2>3 DEF LinesType
<1>10. WaitsOK(r)
  <2>1. ASSUME NEW e \in Ends, seen(e).pending
        PROVE  0 < seen(e).remaining /\ seen(e).remaining < r.due[e]
    BY <1>7, <1>8, <2>1
  <2>2. \A e \in Ends : r.view[e] = seen(e)
    BY <1>2
  <2> QED
    BY <2>1, <2>2 DEF WaitsOK
<1>11. ArrivingOK(r, dist)
  <2>1. \A e \in reach : ArrivingAt(r, e)
    BY <1>2, <1>5, <1>8 DEF ArrivingAt
  <2>2. \A d \in Drives \ Linked(dist) : d \in Ends \ reach
    <3>1. Host \notin Drives
      BY DEF ConsoleConstants, Host
    <3> QED
      BY <3>1 DEF Ends
  <2>3. \A d \in Drives \ Linked(dist) : r.view[d].current = {}
    BY <1>2, <1>7, <2>2
  <2> QED
    BY <2>1, <2>3 DEF ArrivingOK
<1> QED
  BY <1>9, <1>10, <1>11 DEF LinesOK, r

-----------------------------------------------------------------------------
(* The cables the commands make.                                           *)

LEMMA NewCable ==
    ASSUME ConsoleConstants, NEW name \in CableName, NEW ends \in SUBSET Ends, NEW p \in DOMAIN Profiles
    PROVE  Cable(name, ends, p) \in CableType
<1>1. ends \ {Host} \subseteq Drives
  BY DEF Ends
<1> QED
  BY <1>1 DEF Cable, CableType

LEMMA JoinedCable ==
    ASSUME NEW c \in CableType, NEW e \in Ends, NEW connect \in BOOLEAN
    PROVE  Joined(c, e, connect) \in CableType
<1>1. CASE e = Host
  BY <1>1 DEF Joined, CableType
<1>2. CASE e # Host
  <2>1. e \in Drives
    BY <1>2 DEF Ends
  <2>2. c.drives \cup {e} \in SUBSET Drives /\ c.drives \ {e} \in SUBSET Drives
    BY <2>1 DEF CableType
  <2> DEFINE drives == IF connect THEN c.drives \cup {e} ELSE c.drives \ {e}
  <2>3. Joined(c, e, connect) = [c EXCEPT !.drives = drives]
    BY <1>2 DEF Joined
  <2>4. drives \in SUBSET Drives
    BY <2>2
  <2> HIDE DEF drives
  <2> QED
    BY <2>3, <2>4 DEF CableType
<1> QED
  BY <1>1, <1>2

\* A cable in the place of another.
LEMMA CableReplaced ==
    ASSUME NEW cs \in Seq(CableType), NEW i, NEW c,
           cs[i] \in CableType => c \in CableType
    PROVE  [cs EXCEPT ![i] = c] \in Seq(CableType)
<1> DEFINE n == Len(cs)
           r == [cs EXCEPT ![i] = c]
<1>1. n \in Nat /\ DOMAIN cs = 1..n /\ \A j \in 1..n : cs[j] \in CableType
  OBVIOUS
<1>2. DOMAIN r = 1..n /\ r = [j \in 1..n |-> r[j]]
  BY <1>1
<1>3. \A j \in 1..n : r[j] \in CableType
  <2> TAKE j \in 1..n
  <2>1. r[j] = IF j = i THEN c ELSE cs[j]
    BY <1>1
  <2>2. cs[j] \in CableType
    BY <1>1
  <2> HIDE DEF r
  <2> QED
    BY <2>1, <2>2
<1> HIDE DEF r, n
<1>4. r \in [1..n -> CableType]
  BY <1>2, <1>3
<1> QED
  BY <1>1, <1>4 DEF r

LEMMA FirstPresets ==
    ASSUME ConsoleConstants
    PROVE  DefaultPresets \in [1..3 -> PresetType]
<1>1. 1 \in Drives /\ 2 \in Drives
  <2>1. Cardinality(Drives) \in Nat /\ Drives = 1..Cardinality(Drives) /\ 2 \in Drives
    BY DriveNumbers DEF ConsoleConstants
  <2> QED
    BY <2>1
<1>2. "PROFILE_SHORT" \in DOMAIN Profiles
  BY DEF ConsoleConstants
<1> DEFINE seg == Cable("SEG1", {1, 2}, "PROFILE_SHORT")
<1>3. Trunk \in CableType /\ seg \in CableType
  <2>1. "TRUNK0" \in CableName /\ "SEG1" \in CableName
    BY DEF CableName
  <2>2. {Host, 1} \in SUBSET Ends /\ {1, 2} \in SUBSET Ends
    BY <1>1 DEF Ends
  <2>3. Trunk \in CableType
    BY <1>2, <2>1, <2>2, NewCable DEF Trunk
  <2>4. seg \in CableType
    BY <1>2, <2>1, <2>2, NewCable
  <2> QED
    BY <2>3, <2>4
<1> HIDE DEF seg
<1>4. <<>> \in Seq(CableType) /\ <<Trunk>> \in Seq(CableType) /\ <<Trunk, seg>> \in Seq(CableType)
  BY <1>3
<1>5. {} \in CableDefaults /\ {"TRUNK0"} \in CableDefaults
  <2>1. "TRUNK0" \in CableName
    BY DEF CableName
  <2> QED
    BY <2>1, Zenon DEF CableDefaults
<1> DEFINE p == Preset(<<>>, {}, {})
           q == Preset(<<Trunk>>, {"TRUNK0"}, {1})
           r == Preset(<<Trunk, seg>>, {"TRUNK0"}, {1, 2})
<1>6. p \in PresetType /\ q \in PresetType /\ r \in PresetType
  BY <1>1, <1>4, <1>5 DEF Preset, PresetType
<1>7. DefaultPresets = <<p, q, r>>
  BY DEF DefaultPresets, seg
<1> HIDE DEF p, q, r
<1> QED
  BY <1>6, <1>7

-----------------------------------------------------------------------------
(* The actions.                                                            *)

LEMMA ConsoleStarts ==
    ASSUME ConsoleConstants, ConsoleInit
    PROVE  ConsoleInv
<1>1. DefaultPresets \in [1..3 -> PresetType] /\ DefaultPresets[2] \in PresetType
  BY FirstPresets
<1>2. WiringOK
  <2>1. cables = DefaultPresets[2].cables /\ default = DefaultPresets[2].default /\ mode = "Auto"
    BY DEF ConsoleInit
  <2> QED
    BY <1>1, <2>1 DEF WiringOK, PresetType, Modes
<1>3. PowersOK
  BY <1>1 DEF ConsoleInit, PowersOK, PowerStates
<1>4. PullsOK
  BY DEF ConsoleInit, PullsOK, NoPull
<1>5. LinesOK(AsRecord, Distances(cables))
  <2>1. view = [e \in Ends |-> Idle] /\ driven = {} /\ still = 0 /\ due = [e \in Ends |-> 0]
    BY DEF ConsoleInit
  <2>2. Idle \in ViewType /\ Idle.pending = FALSE
    BY DEF Idle, ViewType
  <2>3. LinesType(AsRecord)
    BY <2>1, <2>2 DEF LinesType, AsRecord
  <2>4. WaitsOK(AsRecord)
    BY <2>1, <2>2 DEF WaitsOK, AsRecord
  <2>5. ArrivingOK(AsRecord, Distances(cables))
    BY <2>1 DEF ArrivingOK, AsRecord
  <2> QED
    BY <2>3, <2>4, <2>5 DEF LinesOK
<1> QED
  BY <1>2, <1>3, <1>4, <1>5 DEF ConsoleInv, ConsoleInit

LEMMA SessionFits ==
    ASSUME ConsoleConstants, ConsoleInv
    PROVE  SessionOK(Plan)
BY DEF ConsoleConstants, ConsoleInv, Plan

\* A tick syncs twice under the same wiring.
LEMMA StepKeeps ==
    ASSUME ConsoleConstants, ConsoleInv, STEP
    PROVE  ConsoleInv'
<1> DEFINE dist == Distances(cables)
           before == Synced(AsRecord, hostPull, drivePull, dist)
           after == Synced(before, hostPull, drivePull', dist)
<1>1. /\ drivePower' \in [Drives -> PowerStates]
      /\ drivePull' \in [Drives -> Plan.drivePulls]
      /\ view' = after.view /\ driven' = after.driven /\ still' = after.still /\ due' = after.due
      /\ hostPull' \in Plan.hostPulls
      /\ UNCHANGED <<user, wiring, c64On, presets>>
  BY DEF STEP
<1>2. SessionOK(Plan)
  BY SessionFits
<1>3. hostPull \in SUBSET Wires /\ drivePull \in [Drives -> SUBSET Wires]
  BY DEF ConsoleInv, PullsOK
<1>4. hostPull' \in SUBSET Wires /\ drivePull' \in [Drives -> SUBSET Wires]
  BY <1>1, <1>2 DEF SessionOK
<1>5. dist \in [DOMAIN dist -> Nat]
  BY SearchEnds DEF ShortestOf, ConsoleInv, WiringOK
<1>6. LinesOK(AsRecord, dist)
  BY DEF ConsoleInv
<1>7. LinesOK(before, dist)
  <2>1. PICK host \in SUBSET Wires : host = hostPull
    BY <1>3
  <2>2. PICK drv \in [Drives -> SUBSET Wires] : drv = drivePull
    BY <1>3
  <2> DEFINE r == AsRecord
  <2> HIDE DEF r, dist
  <2>3. LinesOK(Synced(r, host, drv, dist), dist)
    BY <1>5, <1>6, SyncKeeps DEF r
  <2> QED
    BY <2>1, <2>2, <2>3 DEF r
<1>8. LinesOK(after, dist)
  <2>1. PICK host \in SUBSET Wires : host = hostPull
    BY <1>3
  <2>2. PICK drv \in [Drives -> SUBSET Wires] : drv = drivePull'
    BY <1>4
  <2> HIDE DEF before, dist
  <2>3. LinesOK(Synced(before, host, drv, dist), dist)
    BY <1>5, <1>7, SyncKeeps
  <2> QED
    BY <2>1, <2>2, <2>3
<1> HIDE DEF dist, after
<1>9. LinesOK(AsRecord, Distances(cables))'
  <2>1. Distances(cables)' = dist
    BY <1>1 DEF dist, wiring
  <2> DEFINE s == [view |-> view', driven |-> driven', still |-> still', due |-> due']
  <2>2. LinesOK(s, dist)
    <3>1. s.view = after.view /\ s.driven = after.driven /\ s.still = after.still /\ s.due = after.due
      BY <1>1
    <3> HIDE DEF s
    <3> QED
      BY <1>8, <3>1 DEF LinesOK, LinesType, WaitsOK, ArrivingOK, ArrivingAt
  <2>3. AsRecord' = s
    BY DEF AsRecord
  <2> HIDE DEF s
  <2> QED
    BY <2>1, <2>2, <2>3
<1> QED
  BY <1>1, <1>4, <1>9 DEF ConsoleInv, WiringOK, PowersOK, PullsOK, user, wiring

\* A command touches nothing of the lines; it ends the time for which they stood still.
LEMMA CommandKeeps ==
    ASSUME ConsoleInv, Command
    PROVE  /\ session' \in DOMAIN Sessions /\ hostPull' \in SUBSET Wires
           /\ LinesOK(AsRecord, Distances(cables))'
<1>1. /\ still' = 0 /\ session' = session /\ hostPull' = hostPull
      /\ view' = view /\ driven' = driven /\ due' = due
  BY DEF Command
<1>2. LinesType(AsRecord) /\ WaitsOK(AsRecord)
  BY DEF ConsoleInv, LinesOK
<1>3. LinesType(AsRecord)'
  BY <1>1, <1>2 DEF LinesType, AsRecord
<1>4. WaitsOK(AsRecord)'
  BY <1>1, <1>2 DEF WaitsOK, AsRecord
<1>5. ArrivingOK(AsRecord, Distances(cables))'
  BY <1>1 DEF ArrivingOK, AsRecord
<1> QED
  BY <1>1, <1>3, <1>4, <1>5 DEF ConsoleInv, PullsOK, LinesOK

\* What the commands on cables leave alone.
LEMMA WiredKeeps ==
    ASSUME ConsoleInv, Command, NEW cs \in Seq(CableType), NEW def \in CableDefaults, Wired(cs, def)
    PROVE  ConsoleInv'
<1>1. WiringOK'
  BY DEF ConsoleInv, WiringOK, Wired
<1>2. PowersOK'
  BY DEF ConsoleInv, PowersOK, Wired
<1>3. PullsOK'
  BY CommandKeeps DEF ConsoleInv, PullsOK, Wired
<1> QED
  BY <1>1, <1>2, <1>3, CommandKeeps DEF ConsoleInv

LEMMA CablesKeep ==
    ASSUME ConsoleConstants, ConsoleInv,
           CABLE_CREATE \/ WIRE \/ CABLE_CONNECT \/ CABLE_PROFILE \/ DRIVE_CABLE
    PROVE  ConsoleInv'
<1>1. cables \in Seq(CableType) /\ default \in CableDefaults
  BY DEF ConsoleInv, WiringOK
<1>2. \A name \in CableName : DefaultWith(name) \in CableDefaults
  BY <1>1 DEF DefaultWith, CableDefaults
<1>3. Plan.names \subseteq CableName
  <2>1. session \in DOMAIN Sessions
    BY DEF ConsoleInv
  <2> QED
    BY <2>1 DEF Plan, CableName
<1>5. CASE CABLE_CREATE
  <2>1. PICK name \in Plan.names :
            Command /\ Wired(Append(cables, Cable(name, {}, "PROFILE_SHORT")), DefaultWith(name))
    BY <1>5 DEF CABLE_CREATE
  <2> DEFINE c == Cable(name, {}, "PROFILE_SHORT")
  <2>2. name \in CableName /\ c \in CableType
    BY <1>3, NewCable DEF ConsoleConstants
  <2> HIDE DEF c
  <2>3. Append(cables, c) \in Seq(CableType)
    BY <1>1, <2>2
  <2>4. Wired(Append(cables, c), DefaultWith(name))
    BY <2>1 DEF c
  <2> QED
    BY <1>2, <2>1, <2>2, <2>3, <2>4, WiredKeeps
<1>6. CASE WIRE
  <2> DEFINE name == SegName[Len(cables) + 1]
  <2>1. PICK a, b \in Ends : \E p \in DOMAIN Profiles :
            Command /\ Len(cables) < Len(SegName) /\ Wired(Append(cables, Cable(name, {a, b}, p)), DefaultWith(name))
    BY <1>6 DEF WIRE
  <2>2. PICK p \in DOMAIN Profiles :
            Command /\ Len(cables) < Len(SegName) /\ Wired(Append(cables, Cable(name, {a, b}, p)), DefaultWith(name))
    BY <2>1
  <2> DEFINE c == Cable(name, {a, b}, p)
  <2>3. name \in CableName
    <3>1. Len(cables) + 1 \in 1..Len(SegName)
      BY <1>1, <2>2 DEF ConsoleConstants
    <3> QED
      BY <3>1 DEF CableName
  <2> HIDE DEF name
  <2>4. c \in CableType
    BY <2>3, NewCable
  <2> HIDE DEF c
  <2>5. Append(cables, c) \in Seq(CableType)
    BY <1>1, <2>4
  <2>7. DefaultWith(name) \in CableDefaults
    BY <1>2, <2>3, Zenon
  <2>6. Wired(Append(cables, c), DefaultWith(name))
    BY <2>2 DEF c
  <2> QED
    BY <2>2, <2>5, <2>6, <2>7, WiredKeeps
<1>7. CASE CABLE_CONNECT
  <2>1. PICK name \in Plan.names : \E e \in Ends : \E connect \in BOOLEAN :
            Command /\ Wired([cables EXCEPT ![Found(name)] = Joined(@, e, connect)], default)
    BY <1>7 DEF CABLE_CONNECT
  <2>2. PICK e \in Ends : \E connect \in BOOLEAN :
            Command /\ Wired([cables EXCEPT ![Found(name)] = Joined(@, e, connect)], default)
    BY <2>1
  <2>3. PICK connect \in BOOLEAN :
            Command /\ Wired([cables EXCEPT ![Found(name)] = Joined(@, e, connect)], default)
    BY <2>2
  <2> DEFINE i == Found(name)
             c == Joined(cables[i], e, connect)
  <2>4. cables[i] \in CableType => c \in CableType
    BY JoinedCable
  <2>5. Wired([cables EXCEPT ![i] = c], default)
    BY <2>3
  <2> HIDE DEF c, i
  <2> QED
    BY <1>1, <2>3, <2>4, <2>5, CableReplaced, WiredKeeps
<1>8. CASE CABLE_PROFILE
  <2>1. PICK name \in Plan.names : \E p \in DOMAIN Profiles :
            Command /\ Wired([cables EXCEPT ![Found(name)].profile = p], default)
    BY <1>8 DEF CABLE_PROFILE
  <2>2. PICK p \in DOMAIN Profiles :
            Command /\ Wired([cables EXCEPT ![Found(name)].profile = p], default)
    BY <2>1
  <2> DEFINE i == Found(name)
             c == [cables[i] EXCEPT !.profile = p]
  <2>3. cables[i] \in CableType => c \in CableType
    BY DEF CableType
  <2>4. Wired([cables EXCEPT ![i] = c], default)
    BY <2>2
  <2> HIDE DEF c, i
  <2> QED
    BY <1>1, <2>2, <2>3, <2>4, CableReplaced, WiredKeeps
<1>9. CASE DRIVE_CABLE
  <2>1. PICK name \in default : \E d \in Drives : \E connect \in BOOLEAN :
            Command /\ Wired([cables EXCEPT ![Found(name)] = Joined(@, d, connect)], default)
    BY <1>9 DEF DRIVE_CABLE
  <2>2. PICK d \in Drives : \E connect \in BOOLEAN :
            Command /\ Wired([cables EXCEPT ![Found(name)] = Joined(@, d, connect)], default)
    BY <2>1
  <2>3. PICK connect \in BOOLEAN :
            Command /\ Wired([cables EXCEPT ![Found(name)] = Joined(@, d, connect)], default)
    BY <2>2
  <2> DEFINE i == Found(name)
             c == Joined(cables[i], d, connect)
  <2>4. cables[i] \in CableType => c \in CableType
    BY JoinedCable DEF Ends
  <2>5. Wired([cables EXCEPT ![i] = c], default)
    BY <2>3
  <2> HIDE DEF c, i
  <2> QED
    BY <1>1, <2>3, <2>4, <2>5, CableReplaced, WiredKeeps
<1> QED
  BY <1>5, <1>6, <1>7, <1>8, <1>9

LEMMA SwitchesKeep ==
    ASSUME ConsoleConstants, ConsoleInv, TOPOLOGY_MODE \/ DRIVE_POWER \/ C64_POWER
    PROVE  ConsoleInv'
<1>1. Command
  BY DEF TOPOLOGY_MODE, DRIVE_POWER, C64_POWER
<1>2. SessionOK(Plan)
  BY SessionFits
<1>3. CASE TOPOLOGY_MODE
  <2>1. mode' \in Modes /\ UNCHANGED <<cables, default, c64On, drivePower, presets, drivePull>>
    BY <1>2, <1>3 DEF TOPOLOGY_MODE, SessionOK
  <2> QED
    BY <1>1, <2>1, CommandKeeps DEF ConsoleInv, WiringOK, PowersOK, PullsOK
<1>4. CASE DRIVE_POWER
  <2>1. UNCHANGED <<wiring, c64On, presets, drivePull>>
    BY <1>4 DEF DRIVE_POWER
  <2>2. drivePower' \in [Drives -> PowerStates]
    <3>1. drivePower \in [Drives -> PowerStates]
      BY DEF ConsoleInv, PowersOK
    <3>2. \A p \in PowerStates : \A on \in BOOLEAN : Powered(p, on) \in PowerStates
      BY DEF Powered, PowerStates
    <3>3. PICK d \in Plan.switched :
            \/ \E on \in BOOLEAN : drivePower' = [drivePower EXCEPT ![d] = Powered(@, on)]
            \/ drivePower' = [drivePower EXCEPT ![d] = "Resetting"]
      BY <1>4 DEF DRIVE_POWER
    <3>4. ASSUME NEW on \in BOOLEAN, drivePower' = [drivePower EXCEPT ![d] = Powered(@, on)]
          PROVE  drivePower' \in [Drives -> PowerStates]
      BY <3>1, <3>2, <3>4
    <3>5. CASE drivePower' = [drivePower EXCEPT ![d] = "Resetting"]
      BY <3>1, <3>5 DEF PowerStates
    <3> QED
      BY <3>3, <3>4, <3>5
  <2> QED
    BY <1>1, <2>1, <2>2, CommandKeeps DEF ConsoleInv, WiringOK, PowersOK, PullsOK, wiring
<1>5. CASE C64_POWER
  <2>1. UNCHANGED <<wiring, drivePower, presets>> /\ (C64_ON \/ C64_OFF \/ C64_RESET)
    BY <1>5 DEF C64_POWER
  <2>2. NoPull \in [Drives -> SUBSET Wires]
    BY DEF NoPull
  <2>3. c64On' \in BOOLEAN /\ drivePull' \in [Drives -> SUBSET Wires]
    BY <2>1, <2>2 DEF C64_ON, C64_OFF, C64_RESET, ConsoleInv, PowersOK, PullsOK
  <2> QED
    BY <1>1, <2>1, <2>3, CommandKeeps DEF ConsoleInv, WiringOK, PowersOK, PullsOK, wiring
<1> QED
  BY <1>3, <1>4, <1>5, <1>1 DEF TOPOLOGY_MODE

LEMMA PresetsKeep ==
    ASSUME ConsoleConstants, ConsoleInv, PRESET_RESET \/ PRESET_SAVE \/ PRESET_LOAD
    PROVE  ConsoleInv'
<1>1. Command
  BY DEF PRESET_RESET, PRESET_SAVE, PRESET_LOAD
<1>2. Plan.slots \subseteq 1..3
  BY SessionFits DEF SessionOK
<1>3. presets \in [1..3 -> PresetType] /\ drivePower \in [Drives -> PowerStates]
  BY DEF ConsoleInv, PowersOK
<1>4. CASE PRESET_RESET
  <2>1. presets' = DefaultPresets /\ UNCHANGED <<wiring, c64On, drivePower, drivePull>>
    BY <1>4 DEF PRESET_RESET
  <2> QED
    BY <1>1, <2>1, CommandKeeps, FirstPresets DEF ConsoleInv, WiringOK, PowersOK, PullsOK, wiring
<1>5. CASE PRESET_SAVE
  <2> DEFINE saved == [cables |-> cables, default |-> default, c64On |-> c64On,
                       on |-> {d \in Drives : drivePower[d] # "Off"}]
  <2>1. PICK slot \in Plan.slots : presets' = [presets EXCEPT ![slot] = saved]
    BY <1>5 DEF PRESET_SAVE
  <2>2. UNCHANGED <<wiring, c64On, drivePower, drivePull>>
    BY <1>5 DEF PRESET_SAVE
  <2>3. saved \in PresetType
    BY DEF ConsoleInv, WiringOK, PowersOK, PresetType
  <2> HIDE DEF saved
  <2>4. presets' \in [1..3 -> PresetType]
    BY <1>3, <2>1, <2>3
  <2> QED
    BY <1>1, <2>2, <2>4, CommandKeeps DEF ConsoleInv, WiringOK, PowersOK, PullsOK, wiring
<1>6. CASE PRESET_LOAD
  <2>1. PICK slot \in Plan.slots :
            /\ cables' = presets[slot].cables
            /\ default' = presets[slot].default
            /\ drivePower' = [d \in Drives |-> Powered(drivePower[d], d \in presets[slot].on)]
            /\ C64_ON \/ C64_OFF
    BY <1>6 DEF PRESET_LOAD
  <2>2. UNCHANGED <<mode, presets>>
    BY <1>6 DEF PRESET_LOAD
  <2>3. presets[slot] \in PresetType
    BY <1>2, <1>3
  <2>4. WiringOK'
    BY <2>1, <2>2, <2>3 DEF ConsoleInv, WiringOK, PresetType
  <2>5. drivePower' \in [Drives -> PowerStates]
    <3>2. ASSUME NEW d \in Drives
          PROVE  Powered(drivePower[d], d \in presets[slot].on) \in PowerStates
      BY <1>3 DEF Powered, PowerStates
    <3> QED
      BY <2>1, <3>2
  <2>6. NoPull \in [Drives -> SUBSET Wires]
    BY DEF NoPull
  <2>7. c64On' \in BOOLEAN /\ drivePull' \in [Drives -> SUBSET Wires]
    BY <2>1, <2>6 DEF C64_ON, C64_OFF, ConsoleInv, PullsOK
  <2> QED
    BY <1>1, <2>2, <2>4, <2>5, <2>7, CommandKeeps DEF ConsoleInv, PowersOK, PullsOK
<1> QED
  BY <1>4, <1>5, <1>6

LEMMA ConsoleSteps ==
    ASSUME ConsoleConstants, ConsoleInv, [ConsoleNext]_consoleVars
    PROVE  ConsoleInv'
<1>1. CASE ConsoleNext
  BY <1>1, StepKeeps, CablesKeep, SwitchesKeep, PresetsKeep DEF ConsoleNext
<1>2. CASE UNCHANGED consoleVars
  BY <1>2 DEF consoleVars, user, wiring, ConsoleInv, WiringOK, PowersOK, PullsOK, AsRecord
<1> QED
  BY <1>1, <1>2

-----------------------------------------------------------------------------
(* The theorems.                                                           *)

\* Whatever the user types and the drives and the C64 pull, cables, presets and powers keep
\* their types, and an end in reach has the lines or waits for these with no more calls to go
\* than its delay leaves.
THEOREM ConsoleInvariant ==
    ASSUME ConsoleConstants
    PROVE  ConsoleSpec => []ConsoleInv
<1>1. ConsoleInit => ConsoleInv
  BY ConsoleStarts
<1>2. ConsoleInv /\ [ConsoleNext]_consoleVars => ConsoleInv'
  BY ConsoleSteps
<1> QED
  BY <1>1, <1>2, PTL DEF ConsoleSpec

LEMMA InvariantCarries ==
    ASSUME ConsoleConstants, ConsoleInv
    PROVE  CablesCarry
<1>1. ConsoleTypeOK
  <2>1. Cardinality({}) = 0 /\ \A n \in CableName : Cardinality({n}) = 1
    BY FS_EmptySet, FS_Singleton
  <2>2. Cardinality(default) <= 1
    <3>1. default = {} \/ \E n \in CableName : default = {n}
      BY DEF ConsoleInv, WiringOK, CableDefaults
    <3>2. CASE default = {}
      BY <2>1, <3>2
    <3>3. ASSUME NEW n \in CableName, default = {n} PROVE Cardinality(default) <= 1
      <4>1. Cardinality(default) = 1
        BY <2>1, <3>3, Zenon
      <4> QED
        BY <4>1
    <3> QED
      BY <3>1, <3>2, <3>3
  <2>3. \A c \in DOMAIN cables : cables[c] \in CableType
    BY DEF ConsoleInv, WiringOK
  <2>4. \A e \in Ends : view[e] \in ViewType
    BY DEF ConsoleInv, LinesOK, LinesType, AsRecord
  <2>5. mode \in Modes /\ c64On \in BOOLEAN /\ drivePower \in [Drives -> PowerStates]
    BY DEF ConsoleInv, WiringOK, PowersOK
  <2> QED
    BY <2>2, <2>3, <2>4, <2>5 DEF ConsoleTypeOK, CableType, ViewType
<1>2. ShortestPaths
  BY SearchEnds DEF ConsoleInv, WiringOK, ShortestOf, ShortestPaths
<1>3. LinesArrive
  <2> DEFINE dist == Distances(cables)
  <2>1. LinesOK(AsRecord, dist)
    BY DEF ConsoleInv
  <2>2. /\ AsRecord.view = view /\ AsRecord.driven = driven /\ AsRecord.still = still
        /\ AsRecord.due = due
    BY DEF AsRecord
  <2> HIDE DEF dist
  <2>3. ASSUME still > 0, NEW e \in Linked(dist) \cup {Host}, still >= due[e]
        PROVE  view[e].current = driven
    <3>1. e \in Ends
      BY DEF Linked, Ends
    <3>2. view[e] \in ViewType /\ still \in Nat /\ due[e] \in Nat
      BY <2>1, <2>2, <3>1 DEF LinesOK, LinesType
    <3>3. view[e].remaining \in Nat
      BY <3>2 DEF ViewType
    <3>4. view[e].pending => 0 < view[e].remaining
      BY <2>1, <2>2, <3>1 DEF LinesOK, WaitsOK
    <3>5. view[e].current = driven \/ (view[e].pending /\ view[e].remaining + still <= due[e])
      BY <2>1, <2>2, <2>3 DEF LinesOK, ArrivingOK, ArrivingAt
    <3>6. ~ (0 < view[e].remaining /\ view[e].remaining + still <= due[e])
      BY <2>3, <3>2, <3>3
    <3> QED
      BY <3>4, <3>5, <3>6
  <2>4. still > 0 => \A d \in Drives \ Linked(dist) : view[d].current = {}
    BY <2>1, <2>2 DEF LinesOK, ArrivingOK
  <2> QED
    BY <2>3, <2>4 DEF LinesArrive, dist
<1> QED
  BY <1>1, <1>2, <1>3 DEF CablesCarry

\* For any drives, cables, profiles and sessions: the distances are those of the shortest ways,
\* and lines that stood still for the delay are seen at both ends.
THEOREM CablesCorrect ==
    ASSUME ConsoleConstants
    PROVE  ConsoleSpec => []CablesCarry
<1>1. ConsoleInv => CablesCarry
  BY InvariantCarries
<1> QED
  BY <1>1, ConsoleInvariant, PTL

-----------------------------------------------------------------------------
(* The bus: what is under the banks, and what an idle line holds.          *)

BusByte == 0..255
PortType == [dir : BusByte, data : BusByte]
OpenBusType == [value : BusByte, idle : Nat, decays : BOOLEAN, revision : DOMAIN OpenBusProfiles]
QuietType == [byte : BusByte, reads : Nat]

\* What is in memory is what was written where no chip was.
MemoryOK ==
    /\ busMemory \in [OnBus.addresses -> BusByte]
    /\ busKept = busMemory
\* The lines count the reads until they decay; only lines that decay count.
LinesCount(o, q) ==
    LET p == OpenBusProfiles[o.revision]
    IN  /\ o.decays \/ q.reads = 0
        /\ o.idle = IF q.reads < p.threshold THEN q.reads ELSE p.threshold
        /\ o.value = IF q.reads < p.threshold THEN q.byte ELSE p.value
IdleOK ==
    /\ openBus \in OpenBusType /\ quiet \in QuietType
    /\ LinesCount(openBus, quiet)
BusInv ==
    /\ busProgram \in DOMAIN BusPrograms /\ busPort \in PortType /\ flat \in BOOLEAN
    /\ MemoryOK /\ IdleOK

LEMMA ProgramFits ==
    ASSUME BusConstants, BusInv
    PROVE  BusProgramOK(OnBus)
BY DEF BusConstants, BusInv, OnBus

LEMMA LinesProfile ==
    ASSUME BusConstants, NEW r \in DOMAIN OpenBusProfiles
    PROVE  /\ OpenBusProfiles[r].threshold \in Nat /\ OpenBusProfiles[r].threshold > 0
           /\ OpenBusProfiles[r].value \in BusByte
BY DEF BusConstants, BusByte

\* A pin that is set counts its bit, and all of them make a byte.
LEMMA PortByte == PortRead \in BusByte
<1>1. 2^0 = 1 /\ 2^1 = 2 /\ 2^2 = 4 /\ 2^3 = 8 /\ 2^4 = 16 /\ 2^5 = 32 /\ 2^6 = 64 /\ 2^7 = 128
  OBVIOUS
<1>2. \A i : Pin(i) = 0 \/ Pin(i) = 2^i
  BY DEF Pin
<1>3. /\ Pin(0) \in {0, 1} /\ Pin(1) \in {0, 2} /\ Pin(2) \in {0, 4} /\ Pin(3) \in {0, 8}
  <2>1. Pin(0) \in {0, 1}
    <3>1. Pin(0) = 0 \/ Pin(0) = 2^0
      BY <1>2, Zenon
    <3> QED
      BY <1>1, <3>1
  <2>2. Pin(1) \in {0, 2}
    <3>1. Pin(1) = 0 \/ Pin(1) = 2^1
      BY <1>2, Zenon
    <3> QED
      BY <1>1, <3>1
  <2>3. Pin(2) \in {0, 4}
    <3>1. Pin(2) = 0 \/ Pin(2) = 2^2
      BY <1>2, Zenon
    <3> QED
      BY <1>1, <3>1
  <2>4. Pin(3) \in {0, 8}
    <3>1. Pin(3) = 0 \/ Pin(3) = 2^3
      BY <1>2, Zenon
    <3> QED
      BY <1>1, <3>1
  <2> QED
    BY <2>1, <2>2, <2>3, <2>4
<1>4. Pin(4) \in {0, 16} /\ Pin(5) \in {0, 32} /\ Pin(6) \in {0, 64} /\ Pin(7) \in {0, 128}
  <2>1. Pin(4) \in {0, 16}
    <3>1. Pin(4) = 0 \/ Pin(4) = 2^4
      BY <1>2, Zenon
    <3> QED
      BY <1>1, <3>1
  <2>2. Pin(5) \in {0, 32}
    <3>1. Pin(5) = 0 \/ Pin(5) = 2^5
      BY <1>2, Zenon
    <3> QED
      BY <1>1, <3>1
  <2>3. Pin(6) \in {0, 64}
    <3>1. Pin(6) = 0 \/ Pin(6) = 2^6
      BY <1>2, Zenon
    <3> QED
      BY <1>1, <3>1
  <2>4. Pin(7) \in {0, 128}
    <3>1. Pin(7) = 0 \/ Pin(7) = 2^7
      BY <1>2, Zenon
    <3> QED
      BY <1>1, <3>1
  <2> QED
    BY <2>1, <2>2, <2>3, <2>4
<1> QED
  BY <1>3, <1>4 DEF PortRead, BusByte

\* Chips are read where they are written.
LEMMA ChipsBothWays ==
    ASSUME NEW a \in Nat
    PROVE  /\ ReadFrom(a) = "chip" <=> WritesTo(a) # "memory"
           /\ a <= 1 => WritesTo(a) = "memory"
<1>1. InD(a) => 53248 <= a /\ a < 57344
  BY DEF InD
<1>2. CASE InD(a)
  <2>1. ~ (a <= \hBFFF) /\ ~ (a >= \hE000)
    <3>1. 53248 <= a /\ a < 57344
      BY <1>1, <1>2
    <3> QED
      BY <3>1
  <2>2. charVisible => ~ ioVisible
    BY DEF charVisible, ioVisible
  <2> QED
    BY <1>1, <1>2, <2>1, <2>2 DEF ReadFrom, WritesTo
<1>3. CASE ~ InD(a)
  BY <1>3 DEF ReadFrom, WritesTo
<1> QED
  BY <1>2, <1>3

\* A line that is driven counts from the start.
LEMMA DriveCounts ==
    ASSUME BusConstants, IdleOK, NEW v \in BusByte, Drive(v)
    PROVE  IdleOK'
<1> DEFINE o == Driven(v)
           q == [byte |-> v, reads |-> 0]
<1>1. openBus' = o /\ quiet' = q
  BY DEF Drive
<1>2. o \in OpenBusType /\ o.value = v /\ o.idle = 0 /\ o.revision = openBus.revision
  BY DEF Driven, IdleOK, OpenBusType
<1>3. q \in QuietType
  BY DEF QuietType
<1>4. LinesCount(o, q)
  <2>1. OpenBusProfiles[o.revision].threshold \in Nat /\ OpenBusProfiles[o.revision].threshold > 0
    BY <1>2, LinesProfile DEF IdleOK, OpenBusType
  <2> HIDE DEF o
  <2> QED
    BY <1>2, <2>1 DEF LinesCount
<1> HIDE DEF o, q
<1> QED
  BY <1>1, <1>2, <1>3, <1>4 DEF IdleOK

\* A read that nothing answers.
LEMMA DecayCounts ==
    ASSUME BusConstants, IdleOK, openBus' = Decayed,
           quiet' = [quiet EXCEPT !.reads = IF openBus.decays THEN @ + 1 ELSE @]
    PROVE  IdleOK'
<1> DEFINE p == OpenBusProfiles[openBus.revision]
           n == openBus.idle + 1
<1>1. openBus \in OpenBusType /\ quiet \in QuietType /\ LinesCount(openBus, quiet)
  BY DEF IdleOK
<1>2. p.threshold \in Nat /\ p.threshold > 0 /\ p.value \in BusByte
  BY <1>1, LinesProfile DEF OpenBusType
<1>3. CASE ~ openBus.decays
  <2>1. openBus' = openBus /\ quiet' = quiet
    BY <1>1, <1>3 DEF Decayed, QuietType
  <2> QED
    BY <1>1, <2>1 DEF IdleOK
<1>4. CASE openBus.decays
  <2> DEFINE idle == IF n > p.threshold THEN p.threshold ELSE n
             value == IF n >= p.threshold THEN p.value ELSE openBus.value
             o == [openBus EXCEPT !.idle = idle, !.value = value]
             q == [quiet EXCEPT !.reads = quiet.reads + 1]
  <2>1. openBus' = o /\ quiet' = q
    BY <1>4 DEF Decayed
  <2>2. openBus.idle \in Nat /\ openBus.value \in BusByte /\ quiet.reads \in Nat /\ quiet.byte \in BusByte
    BY <1>1 DEF OpenBusType, QuietType
  <2>3. idle \in Nat /\ value \in BusByte
    BY <1>2, <2>2
  <2>4. q \in QuietType /\ q.reads = quiet.reads + 1 /\ q.byte = quiet.byte
    BY <1>1, <2>2 DEF QuietType
  <2>5. /\ idle = IF quiet.reads + 1 < p.threshold THEN quiet.reads + 1 ELSE p.threshold
        /\ value = IF quiet.reads + 1 < p.threshold THEN quiet.byte ELSE p.value
    BY <1>1, <1>2, <2>2 DEF LinesCount
  <2> HIDE DEF idle, value
  <2>6. o \in OpenBusType /\ o.idle = idle /\ o.value = value /\ o.revision = openBus.revision /\ o.decays = openBus.decays
    BY <1>1, <2>3 DEF OpenBusType
  <2> HIDE DEF o, q
  <2>7. LinesCount(o, q)
    BY <1>4, <2>4, <2>5, <2>6 DEF LinesCount
  <2> QED
    BY <2>1, <2>4, <2>6, <2>7 DEF IdleOK
<1> QED
  BY <1>3, <1>4

LEMMA BusStarts ==
    ASSUME BusConstants, BusInit
    PROVE  BusInv
<1>1. MemoryOK
  BY DEF BusInit, MemoryOK, Cleared, AtReset, BusByte
<1>2. IdleOK
  <2> DEFINE o == [value |-> 255, idle |-> 0, decays |-> FALSE, revision |-> "NMOS"]
             q == [byte |-> 255, reads |-> 0]
  <2>1. openBus = o /\ quiet = q
    BY DEF BusInit
  <2>2. "NMOS" \in DOMAIN OpenBusProfiles
    BY DEF BusConstants
  <2>3. o \in OpenBusType /\ q \in QuietType
    BY <2>2 DEF OpenBusType, QuietType, BusByte
  <2>4. OpenBusProfiles["NMOS"].threshold \in Nat /\ OpenBusProfiles["NMOS"].threshold > 0
    BY <2>2, LinesProfile
  <2>5. LinesCount(o, q)
    BY <2>4 DEF LinesCount
  <2> QED
    BY <2>1, <2>3, <2>5 DEF IdleOK
<1>3. AtReset \in PortType
  BY DEF PortType, AtReset, BusByte
<1> QED
  BY <1>1, <1>2, <1>3 DEF BusInit, BusInv

LEMMA ReadKeeps ==
    ASSUME BusConstants, BusInv, NEW a \in OnBus.addresses, readBus(a)
    PROVE  BusInv'
<1>1. UNCHANGED <<busProgram, busPort, busMemory, flat, busKept>>
  BY DEF readBus
<1>2. busMemory[a] \in BusByte /\ busPort.dir \in BusByte /\ openBus.value \in BusByte
  BY DEF BusInv, MemoryOK, PortType, IdleOK, OpenBusType
<1>3. a \in Nat /\ IdleOK
  <2>1. a \in Nat
    BY ProgramFits DEF BusProgramOK
  <2> QED
    BY <2>1 DEF BusInv
<1>4. ByteAt(ReadFrom(a), a) \in BusByte
  <2>1. ReadFrom(a) \in {"basic", "kernal", "char", "chip", "nothing", "memory"}
    BY DEF ReadFrom
  <2>2. DOMAIN RomByte = {"basic", "kernal", "char"}
    BY DEF RomByte
  <2>3. RomByte["basic"] \in BusByte /\ RomByte["kernal"] \in BusByte /\ RomByte["char"] \in BusByte
    BY DEF RomByte, BusByte
  <2>4. ChipByte \in BusByte
    BY DEF ChipByte, BusByte
  <2> QED
    BY <1>2, <2>1, <2>2, <2>3, <2>4 DEF ByteAt
<1>5. IdleOK'
  <2>1. CASE flat
    BY <1>2, <1>3, <2>1, DriveCounts DEF readBus
  <2>2. CASE ~ flat /\ a = 0
    BY <1>2, <1>3, <2>2, DriveCounts DEF readBus
  <2>3. CASE ~ flat /\ a = 1
    BY <1>3, <2>3, DriveCounts, PortByte DEF readBus
  <2>4. CASE ~ flat /\ a > 1 /\ ReadFrom(a) # "nothing"
    <3>1. Drive(ByteAt(ReadFrom(a), a))
      BY <1>3, <2>4 DEF readBus
    <3> QED
      BY <1>3, <1>4, <3>1, DriveCounts
  <2>5. CASE ~ flat /\ a > 1 /\ ReadFrom(a) = "nothing"
    <3>1. /\ openBus' = Decayed
          /\ quiet' = [quiet EXCEPT !.reads = IF openBus.decays THEN @ + 1 ELSE @]
      BY <1>3, <2>5 DEF readBus
    <3> QED
      BY <1>3, <3>1, DecayCounts
  <2> QED
    BY <1>3, <2>1, <2>2, <2>3, <2>4, <2>5
<1> QED
  BY <1>1, <1>5 DEF BusInv, MemoryOK, OnBus

LEMMA WriteKeeps ==
    ASSUME BusConstants, BusInv, NEW a \in OnBus.addresses, NEW v \in OnBus.bytes[a], writeBus(a, v)
    PROVE  BusInv'
<1>1. a \in Nat /\ v \in BusByte
  <2>1. OnBus.addresses \subseteq Nat /\ OnBus.bytes[a] \subseteq BusByte
    BY ProgramFits DEF BusProgramOK, BusByte
  <2> QED
    BY <2>1
<1>2. UNCHANGED <<busProgram, flat>> /\ Drive(v)
  BY DEF writeBus
<1>3. busPort' \in PortType
  <2>1. busPort \in PortType
    BY DEF BusInv
  <2>2. [busPort EXCEPT !.dir = v] \in PortType /\ [busPort EXCEPT !.data = v] \in PortType
    BY <1>1, <2>1 DEF PortType
  <2> QED
    BY <2>1, <2>2 DEF writeBus
<1>4. MemoryOK'
  <2>1. busMemory \in [OnBus.addresses -> BusByte] /\ busKept = busMemory
    BY DEF BusInv, MemoryOK
  <2>2. ReadFrom(a) = "chip" <=> WritesTo(a) # "memory"
    BY <1>1, ChipsBothWays
  <2>3. a <= 1 => WritesTo(a) = "memory"
    BY <1>1, ChipsBothWays
  <2>4. /\ busMemory' = IF flat \/ a <= 1 \/ WritesTo(a) = "memory" THEN [busMemory EXCEPT ![a] = v] ELSE busMemory
        /\ busKept' = IF ~flat /\ ReadFrom(a) = "chip" THEN busKept ELSE [busKept EXCEPT ![a] = v]
    BY DEF writeBus
  <2>5. busKept' = busMemory'
    BY <2>1, <2>2, <2>3, <2>4
  <2>6. busMemory' \in [OnBus.addresses -> BusByte]
    BY <1>1, <2>1, <2>4
  <2>7. OnBus' = OnBus
    BY <1>2 DEF OnBus
  <2> QED
    BY <2>5, <2>6, <2>7 DEF MemoryOK
<1>5. IdleOK'
  BY <1>1, <1>2, DriveCounts DEF BusInv
<1> QED
  BY <1>2, <1>3, <1>4, <1>5 DEF BusInv

LEMMA OthersKeep ==
    ASSUME BusConstants, BusInv,
           \/ \E v \in OnBus.dummies : laWrite(v)
           \/ \E r \in OnBus.revisions : setOpenBusRevision(r)
           \/ setFlat \/ resetBus
    PROVE  BusInv'
<1>1. ASSUME NEW v \in OnBus.dummies, laWrite(v) PROVE BusInv'
  <2>1. v \in BusByte /\ IdleOK
    BY ProgramFits DEF BusProgramOK, BusByte, BusInv
  <2>2. IdleOK'
    BY <1>1, <2>1, DriveCounts DEF laWrite
  <2> QED
    BY <1>1, <2>2 DEF laWrite, BusInv, MemoryOK, OnBus
<1>2. ASSUME NEW r \in OnBus.revisions, setOpenBusRevision(r) PROVE BusInv'
  <2> DEFINE o == [openBus EXCEPT !.revision = r, !.idle = 0, !.decays = TRUE]
             q == [byte |-> openBus.value, reads |-> 0]
  <2>1. r \in DOMAIN OpenBusProfiles
    <3>1. OnBus.revisions \subseteq DOMAIN OpenBusProfiles
      BY ProgramFits DEF BusProgramOK
    <3> QED
      BY <3>1
  <2>2. openBus \in OpenBusType /\ openBus.value \in BusByte
    BY DEF BusInv, IdleOK, OpenBusType
  <2>3. openBus' = o /\ quiet' = q
    BY <1>2 DEF setOpenBusRevision
  <2>4. /\ o \in OpenBusType /\ o.value = openBus.value /\ o.idle = 0 /\ o.decays = TRUE /\ o.revision = r
        /\ q \in QuietType
    BY <2>1, <2>2 DEF OpenBusType, QuietType
  <2>5. OpenBusProfiles[r].threshold \in Nat /\ OpenBusProfiles[r].threshold > 0
    BY <2>1, LinesProfile
  <2>6. LinesCount(o, q)
    <3> HIDE DEF o
    <3> QED
      BY <2>4, <2>5 DEF LinesCount
  <2> HIDE DEF o, q
  <2>7. IdleOK'
    BY <2>3, <2>4, <2>6 DEF IdleOK
  <2> QED
    BY <1>2, <2>7 DEF setOpenBusRevision, BusInv, MemoryOK, OnBus
<1>3. CASE setFlat
  BY <1>3 DEF setFlat, BusInv, MemoryOK, IdleOK, OnBus, busHistory
<1>4. CASE resetBus
  <2>1. IdleOK'
    <3>1. 255 \in BusByte /\ IdleOK /\ Drive(255)
      BY <1>4 DEF BusByte, BusInv, resetBus
    <3> QED
      BY <3>1, DriveCounts
  <2>2. MemoryOK'
    BY <1>4 DEF resetBus, MemoryOK, Cleared, AtReset, BusByte, OnBus
  <2>3. AtReset \in PortType
    BY DEF PortType, AtReset, BusByte
  <2> QED
    BY <1>4, <2>1, <2>2, <2>3 DEF resetBus, BusInv
<1> QED
  BY <1>1, <1>2, <1>3, <1>4

LEMMA BusSteps ==
    ASSUME BusConstants, BusInv, [BusNext]_busVars
    PROVE  BusInv'
<1>1. CASE BusNext
  BY <1>1, ReadKeeps, WriteKeeps, OthersKeep DEF BusNext
<1>2. CASE UNCHANGED busVars
  BY <1>2 DEF busVars, BusInv, MemoryOK, IdleOK, OnBus
<1> QED
  BY <1>1, <1>2

LEMMA InvariantHolds ==
    ASSUME BusConstants, BusInv
    PROVE  BusHolds
<1>1. BusTypeOK
  BY DEF BusTypeOK, BusInv, MemoryOK, IdleOK, PortType, OpenBusType, BusByte
<1>2. PeekShows
  BY DEF PeekShows, ReadFrom, PeekFrom
<1>3. RamKept
  BY DEF RamKept, BusInv, MemoryOK
<1>4. LinesHold
  BY DEF LinesHold, BusInv, IdleOK, LinesCount
<1> QED
  BY <1>1, <1>2, <1>3, <1>4 DEF BusHolds

\* For any program on the bus, any chips and ROMs, and any generation of the chips: a peek shows
\* what a read brings, memory keeps what is written under banks, and an idle line holds and
\* decays when its generation says.
THEOREM BusCorrect ==
    ASSUME BusConstants
    PROVE  BusSpec => []BusHolds
<1>1. BusInit => BusInv
  BY BusStarts
<1>2. BusInv /\ [BusNext]_busVars => BusInv'
  BY BusSteps
<1>3. BusInv => BusHolds
  BY InvariantHolds
<1> QED
  BY <1>1, <1>2, <1>3, PTL DEF BusSpec

-----------------------------------------------------------------------------
(* The read channel: the numbers of the loop and of a cell.                *)

LEMMA ReaderFits ==
    ASSUME ChannelConstants, unit \in DOMAIN Readers
    PROVE  ReaderOK(Reading)
BY DEF ChannelConstants, Reading

LEMMA ZoneNumber ==
    ASSUME ChannelConstants, NEW track
    PROVE  Zone(track) \in 0..3
<1> DEFINE S == {n \in DOMAIN ZoneEnd : track > ZoneEnd[n]}
<1>1. DOMAIN ZoneEnd = 1..3
  BY DEF ChannelConstants
<1>2. IsFiniteSet(1..3) /\ Cardinality(1..3) = 3
  <2>1. \A a, b \in Int : IsFiniteSet(a..b) /\ Cardinality(a..b) = IF a > b THEN 0 ELSE b - a + 1
    BY FS_Interval
  <2>2. IsFiniteSet(1..3) /\ Cardinality(1..3) = IF 1 > 3 THEN 0 ELSE 3 - 1 + 1
    <3>1. 1 \in Int /\ 3 \in Int
      OBVIOUS
    <3> QED
      BY <2>1, <3>1, Zenon
  <2> QED
    BY <2>2
<1>3. S \subseteq 1..3
  BY <1>1
<1> HIDE DEF S
<1>4. IsFiniteSet(S) /\ Cardinality(S) <= 3
  BY <1>2, <1>3, FS_Subset
<1>5. Cardinality(S) \in Nat
  BY <1>4, FS_CardinalityType
<1> QED
  BY <1>4, <1>5 DEF Zone, S

\* The numbers of a drive at level 4, for its address and its revision.
Quiet(r) == ~ (r.revision = 0 /\ r.address % 4 = 3)
LEMMA Calibrated ==
    ASSUME ChannelConstants, unit \in DOMAIN Readers
    PROVE  /\ Floor \in {22, 25, 28, 31}
           /\ \/ /\ JitterScale = 30 /\ LockGain = 250 /\ Slew = 12
                 /\ Quiet(Reading) => Floor \in {22, 25, 28}
              \/ JitterScale = 34 /\ LockGain = 275 /\ Slew = 9
              \/ JitterScale = 38 /\ LockGain = 300 /\ Slew = 7
<1>1. Reading.address \in Nat /\ Reading.revision \in 0..2
  BY ReaderFits DEF ReaderOK
<1> DEFINE a == Reading.address % 4
           r == Reading.revision
<1>2. a \in 0..3 /\ r \in 0..2
  BY <1>1
<1>3. /\ Floor = 22 + a * 3 /\ JitterScale = 30 + r * 4 /\ LockGain = 250 + r * 25
      /\ Slew = CASE r = 1 -> 9 [] r = 2 -> 7 [] OTHER -> 12
      /\ Quiet(Reading) <=> ~ (r = 0 /\ a = 3)
  BY DEF Floor, JitterScale, LockGain, Slew, Quiet
<1> HIDE DEF a, r
<1>4. CASE r = 0
  BY <1>2, <1>3, <1>4
<1>5. CASE r = 1
  BY <1>2, <1>3, <1>5
<1>6. CASE r = 2
  BY <1>2, <1>3, <1>6
<1> QED
  BY <1>2, <1>4, <1>5, <1>6

LEMMA NoiseBounds ==
    ASSUME ChannelConstants, unit \in DOMAIN Readers, NEW bucket \in 0..63
    PROVE  /\ Noise(bucket) \in -120..124
           /\ Floor \in {22, 25, 28} => Noise(bucket) \in -108..112
<1>1. bucket - 31 \in -31..32
  OBVIOUS
<1> DEFINE b == bucket - 31
<1>2. Noise(bucket) = Quot(b * Floor, 8)
  BY DEF Noise
<1> HIDE DEF b
<1>3. b \in -31..32
  BY <1>1 DEF b
<1>4. CASE Floor = 22
  BY <1>2, <1>3, <1>4 DEF Quot
<1>5. CASE Floor = 25
  BY <1>2, <1>3, <1>5 DEF Quot
<1>6. CASE Floor = 28
  BY <1>2, <1>3, <1>6 DEF Quot
<1>7. CASE Floor = 31
  BY <1>2, <1>3, <1>7 DEF Quot
<1> QED
  BY <1>4, <1>5, <1>6, <1>7, Calibrated

LEMMA Locks ==
    ASSUME ChannelConstants, NEW e \in Int
    PROVE  LockedAt(e) <=> e \in -520..520
<1>1. LockPpm = 520
  BY DEF ChannelConstants
<1> QED
  BY <1>1 DEF LockedAt, AbsOf

LEMMA Thousandths ==
    ASSUME NEW a \in Int
    PROVE  /\ a \div 1000 \in Int
           /\ 1000 * (a \div 1000) <= a /\ a < 1000 * (a \div 1000) + 1000
OBVIOUS

\* What the loop is off by after one more cell, for each of its gains.
LEMMA LoopStaysLocked ==
    ASSUME ChannelConstants, unit \in DOMAIN Readers, NEW c, c.phaseErr \in Int, NEW ticks \in Nat,
           NEW zone \in 0..3, NEW bucket \in 0..63
    PROVE  /\ PhaseErrAfter(c, ticks, zone, bucket) \in Int
           /\ Quiet(Reading) /\ LockedAt(c.phaseErr) => LockedAt(PhaseErrAfter(c, ticks, zone, bucket))
<1> DEFINE n == Noise(bucket)
           z == ZoneNoise[zone + 1]
           j == ((ticks % 8) * JitterScale) \div 8
           e == c.phaseErr + (n + z + Slew + j)
<1>1. n \in -120..124 /\ (Floor \in {22, 25, 28} => n \in -108..112)
  BY NoiseBounds
<1>2. z \in {6, 11, 17, 23}
  BY DEF ZoneNoise
<1>3. ticks % 8 \in 0..7
  OBVIOUS
<1>4. PhaseErrAfter(c, ticks, zone, bucket) = e - Quot(e * LockGain, 1000)
  BY DEF PhaseErrAfter
<1>5. \/ JitterScale = 30 /\ LockGain = 250 /\ Slew = 12 /\ (Quiet(Reading) => Floor \in {22, 25, 28})
      \/ JitterScale = 34 /\ LockGain = 275 /\ Slew = 9
      \/ JitterScale = 38 /\ LockGain = 300 /\ Slew = 7
  BY Calibrated
<1> DEFINE p == c.phaseErr
<1>6. p \in Int /\ (LockedAt(p) <=> p \in -520..520)
  BY Locks
<1> HIDE DEF n, z
<1>7. CASE JitterScale = 30 /\ LockGain = 250 /\ Slew = 12 /\ (Quiet(Reading) => Floor \in {22, 25, 28})
  <2>1. j \in 0..26
    BY <1>3, <1>7
  <2> HIDE DEF j, p
  <2>2. e = p + (n + z + 12 + j) /\ e \in Int
    BY <1>1, <1>2, <1>6, <1>7, <2>1 DEF p
  <2> HIDE DEF e
  <2>3. PICK x \in Int : x = e
    BY <2>2
  <2>4. PICK q : q = Quot(x * 250, 1000)
    OBVIOUS
  <2>5. q \in Int /\ (x \in -640..693 => x - q \in -520..520)
    <3>1. CASE x >= 0
      <4>1. q = (x * 250) \div 1000
        BY <2>4, <3>1 DEF Quot
      <4>2. q \in Int /\ 1000 * q <= x * 250 /\ x * 250 < 1000 * q + 1000
        BY <4>1, Thousandths
      <4> QED
        BY <3>1, <4>2
    <3>2. CASE x < 0
      <4> DEFINE a == -(x * 250)
      <4>1. a \in Int /\ q = -(a \div 1000)
        BY <2>4, <3>2 DEF Quot
      <4> HIDE DEF a
      <4>2. a \div 1000 \in Int /\ 1000 * (a \div 1000) <= a /\ a < 1000 * (a \div 1000) + 1000
        BY <4>1, Thousandths
      <4>3. q \in Int /\ 1000 * (-q) <= a /\ a < 1000 * (-q) + 1000
        BY <4>1, <4>2
      <4> QED
        BY <3>2, <4>3 DEF a
    <3> QED
      BY <3>1, <3>2
  <2>6. Quiet(Reading) /\ LockedAt(p) => x - q \in -520..520
    BY <1>1, <1>2, <1>6, <1>7, <2>1, <2>2, <2>3, <2>5
  <2>7. x - q \in Int
    BY <2>3, <2>5
  <2>8. Quiet(Reading) /\ LockedAt(p) => LockedAt(x - q)
    BY <2>6, <2>7, Locks
  <2> QED
    BY <1>4, <1>7, <2>2, <2>3, <2>4, <2>7, <2>8 DEF p
<1>8. CASE JitterScale = 34 /\ LockGain = 275 /\ Slew = 9
  <2>1. j \in 0..29
    BY <1>3, <1>8
  <2> HIDE DEF j, p
  <2>2. e = p + (n + z + 9 + j) /\ e \in Int
    BY <1>1, <1>2, <1>6, <1>8, <2>1 DEF p
  <2> HIDE DEF e
  <2>3. PICK x \in Int : x = e
    BY <2>2
  <2>4. PICK q : q = Quot(x * 275, 1000)
    OBVIOUS
  <2>5. q \in Int /\ (x \in -640..705 => x - q \in -520..520)
    <3>1. CASE x >= 0
      <4>1. q = (x * 275) \div 1000
        BY <2>4, <3>1 DEF Quot
      <4>2. q \in Int /\ 1000 * q <= x * 275 /\ x * 275 < 1000 * q + 1000
        BY <4>1, Thousandths
      <4> QED
        BY <3>1, <4>2
    <3>2. CASE x < 0
      <4> DEFINE a == -(x * 275)
      <4>1. a \in Int /\ q = -(a \div 1000)
        BY <2>4, <3>2 DEF Quot
      <4> HIDE DEF a
      <4>2. a \div 1000 \in Int /\ 1000 * (a \div 1000) <= a /\ a < 1000 * (a \div 1000) + 1000
        BY <4>1, Thousandths
      <4>3. q \in Int /\ 1000 * (-q) <= a /\ a < 1000 * (-q) + 1000
        BY <4>1, <4>2
      <4> QED
        BY <3>2, <4>3 DEF a
    <3> QED
      BY <3>1, <3>2
  <2>6. LockedAt(p) => x - q \in -520..520
    BY <1>1, <1>2, <1>6, <1>8, <2>1, <2>2, <2>3, <2>5
  <2>7. x - q \in Int
    BY <2>3, <2>5
  <2>8. LockedAt(p) => LockedAt(x - q)
    BY <2>6, <2>7, Locks
  <2> QED
    BY <1>4, <1>8, <2>2, <2>3, <2>4, <2>7, <2>8 DEF p
<1>9. CASE JitterScale = 38 /\ LockGain = 300 /\ Slew = 7
  <2>1. j \in 0..33
    BY <1>3, <1>9
  <2> HIDE DEF j, p
  <2>2. e = p + (n + z + 7 + j) /\ e \in Int
    BY <1>1, <1>2, <1>6, <1>9, <2>1 DEF p
  <2> HIDE DEF e
  <2>3. PICK x \in Int : x = e
    BY <2>2
  <2>4. PICK q : q = Quot(x * 300, 1000)
    OBVIOUS
  <2>5. q \in Int /\ (x \in -640..707 => x - q \in -520..520)
    <3>1. CASE x >= 0
      <4>1. q = (x * 300) \div 1000
        BY <2>4, <3>1 DEF Quot
      <4>2. q \in Int /\ 1000 * q <= x * 300 /\ x * 300 < 1000 * q + 1000
        BY <4>1, Thousandths
      <4> QED
        BY <3>1, <4>2
    <3>2. CASE x < 0
      <4> DEFINE a == -(x * 300)
      <4>1. a \in Int /\ q = -(a \div 1000)
        BY <2>4, <3>2 DEF Quot
      <4> HIDE DEF a
      <4>2. a \div 1000 \in Int /\ 1000 * (a \div 1000) <= a /\ a < 1000 * (a \div 1000) + 1000
        BY <4>1, Thousandths
      <4>3. q \in Int /\ 1000 * (-q) <= a /\ a < 1000 * (-q) + 1000
        BY <4>1, <4>2
      <4> QED
        BY <3>2, <4>3 DEF a
    <3> QED
      BY <3>1, <3>2
  <2>6. LockedAt(p) => x - q \in -520..520
    BY <1>1, <1>2, <1>6, <1>9, <2>1, <2>2, <2>3, <2>5
  <2>7. x - q \in Int
    BY <2>3, <2>5
  <2>8. LockedAt(p) => LockedAt(x - q)
    BY <2>6, <2>7, Locks
  <2> QED
    BY <1>4, <1>9, <2>2, <2>3, <2>4, <2>7, <2>8 DEF p
<1> QED
  BY <1>5, <1>7, <1>8, <1>9

\* No cell is shorter than eleven ticks.
LEMMA CellsAreLong ==
    ASSUME ChannelConstants, unit \in DOMAIN Readers, NEW c, c.relock \in 0..MaxRelock,
           c.level4 \in BOOLEAN, NEW zone \in 0..3, NEW draw \in Reading.draws, NEW bucket \in 0..63
    PROVE  /\ PlainTicks(c, zone, draw) \in Nat /\ PlainTicks(c, zone, draw) >= 11
           /\ CellTicks(c, zone, draw, bucket) \in Nat /\ CellTicks(c, zone, draw, bucket) >= 11
           /\ RelockAfter(c, draw) \in 0..MaxRelock
<1>1. draw.jitter \in -2..2
  BY ReaderFits DEF ReaderOK, DrawOK
<1>2. MaxRelock \in Nat
  BY DEF ChannelConstants
<1>3. PlainTicks(c, zone, draw) \in Nat /\ PlainTicks(c, zone, draw) >= 11
  <2> DEFINE relocks == IF RelockAfter(c, draw) >= 3 THEN 1 ELSE 0
             long == IF draw.long THEN 1 ELSE 0
  <2>1. relocks \in 0..1 /\ long \in 0..1
    OBVIOUS
  <2>2. PlainTicks(c, zone, draw) = 13 + zone + draw.jitter + relocks + long
    BY DEF PlainTicks
  <2> HIDE DEF relocks, long
  <2> QED
    BY <1>1, <2>1, <2>2
<1>4. RelockAfter(c, draw) \in 0..MaxRelock
  BY <1>2 DEF RelockAfter, AtMost, AtLeast0
<1>5. CellTicks(c, zone, draw, bucket) \in Nat /\ CellTicks(c, zone, draw, bucket) >= 11
  <2> DEFINE ticks == PlainTicks(c, zone, draw)
             window == JitterScale + AbsOf(Noise(bucket)) \div 4
             slack == IF LockedAt(PhaseErrAfter(c, ticks, zone, bucket)) THEN 0 ELSE 1
  <2>1. slack \in 0..1
    OBVIOUS
  <2>2. AbsOf(Noise(bucket)) \in Nat
    <3>1. Noise(bucket) \in -120..124
      BY NoiseBounds
    <3> QED
      BY <3>1 DEF AbsOf
  <2>3. JitterScale \in Nat
    BY Calibrated
  <2>4. window \in Nat
    BY <2>2, <2>3
  <2>5. CellTicks(c, zone, draw, bucket) = IF c.level4 THEN ticks + slack + window \div 40 ELSE ticks
    BY DEF CellTicks
  <2>6. ticks \in Nat /\ ticks >= 11
    BY <1>3
  <2> HIDE DEF ticks, window, slack
  <2> QED
    BY <2>1, <2>4, <2>5, <2>6
<1> QED
  BY <1>3, <1>4, <1>5
-----------------------------------------------------------------------------
(* The decoder has its turns, one for each symbol.                         *)

\* g holds the decoder after symbols 0 to k.
SymbolsOf(symbols, g, k) ==
    g[0] = Start /\ \A i \in 1..k : g[i] = DecodeStep(g[i - 1], symbols[i])

LEMMA SymbolsExist ==
    ASSUME NEW symbols, NEW k \in Nat
    PROVE  \E g : SymbolsOf(symbols, g, k)
<1> DEFINE T == {i \in Nat : ~ \E g : SymbolsOf(symbols, g, i)}
<1> SUFFICES ASSUME T # {} PROVE FALSE
  OBVIOUS
<1>1. PICK m \in T : \A i \in T : m <= i
  <2> HIDE DEF T
  <2>1. T \subseteq Nat
    BY DEF T
  <2> QED
    BY <2>1, LeastNumber
<1>2. m # 0
  <2>1. SymbolsOf(symbols, [i \in {0} |-> Start], 0)
    BY DEF SymbolsOf
  <2> QED
    BY <1>1, <2>1
<1>3. m - 1 \in Nat /\ m - 1 \notin T
  BY <1>1, <1>2
<1>4. PICK g : SymbolsOf(symbols, g, m - 1)
  BY <1>3
<1> DEFINE h == [i \in 0..m |-> IF i = m THEN DecodeStep(g[m - 1], symbols[m]) ELSE g[i]]
<1>5. SymbolsOf(symbols, h, m)
  <2>1. h[0] = Start
    BY <1>1, <1>2, <1>4 DEF SymbolsOf
  <2>2. ASSUME NEW i \in 1..m
        PROVE  h[i] = DecodeStep(h[i - 1], symbols[i])
    <3>1. i - 1 \in 0..m /\ i - 1 # m /\ i \in 0..m /\ m \in Nat
      BY <1>1
    <3>2. h[i - 1] = g[i - 1]
      BY <3>1
    <3>3. CASE i = m
      BY <3>1, <3>2, <3>3
    <3>4. CASE i # m
      <4>1. i \in 1..(m - 1) /\ h[i] = g[i]
        BY <3>1, <3>4
      <4> QED
        BY <1>4, <3>2, <4>1 DEF SymbolsOf
    <3> QED
      BY <3>3, <3>4
  <2> QED
    BY <2>1, <2>2 DEF SymbolsOf
<1> QED
  BY <1>1, <1>5

LEMMA SymbolsAgree ==
    ASSUME NEW symbols, NEW g, NEW h, NEW k \in Nat, NEW l \in Nat, SymbolsOf(symbols, g, k), SymbolsOf(symbols, h, l),
           NEW i \in Nat, i <= k, i <= l
    PROVE  g[i] = h[i]
<1> DEFINE T == {j \in Nat : j <= k /\ j <= l /\ g[j] # h[j]}
<1> SUFFICES ASSUME T # {} PROVE FALSE
  OBVIOUS
<1>1. PICK m \in T : \A j \in T : m <= j
  <2> HIDE DEF T
  <2>1. T \subseteq Nat
    BY DEF T
  <2> QED
    BY <2>1, LeastNumber
<1>2. m # 0
  BY <1>1 DEF SymbolsOf
<1>3. m - 1 \in Nat /\ m - 1 \notin T /\ m \in 1..k /\ m \in 1..l
  BY <1>1, <1>2
<1>4. g[m - 1] = h[m - 1]
  BY <1>3
<1>5. g[m] = DecodeStep(g[m - 1], symbols[m]) /\ h[m] = DecodeStep(h[m - 1], symbols[m])
  BY <1>3 DEF SymbolsOf
<1> QED
  BY <1>1, <1>4, <1>5

LEMMA DecodingTurns ==
    ASSUME NEW symbols
    PROVE  /\ Decoding(symbols)[0] = Start
           /\ \A k \in Nat : k # 0 => Decoding(symbols)[k] = DecodeStep(Decoding(symbols)[k - 1], symbols[k])
<1> DEFINE run(k) == CHOOSE g : SymbolsOf(symbols, g, k)
           f == [k \in Nat |-> run(k)[k]]
           body(t) == [k \in Nat |-> IF k = 0 THEN Start ELSE DecodeStep(t[k - 1], symbols[k])]
<1>1. \A k \in Nat : SymbolsOf(symbols, run(k), k)
  BY SymbolsExist
<1> HIDE DEF run
<1>2. f[0] = Start
  BY <1>1 DEF SymbolsOf
<1>3. ASSUME NEW k \in Nat, k # 0
      PROVE  f[k] = DecodeStep(f[k - 1], symbols[k])
  <2>1. k - 1 \in Nat /\ k - 1 <= k /\ k \in 1..k
    BY <1>3
  <2>2. run(k)[k - 1] = run(k - 1)[k - 1]
    <3> DEFINE l == k - 1
    <3>1. l \in Nat /\ l <= k /\ l <= l /\ SymbolsOf(symbols, run(k), k) /\ SymbolsOf(symbols, run(l), l)
      BY <1>1, <2>1
    <3> HIDE DEF l
    <3>2. run(k)[l] = run(l)[l]
      BY <3>1, SymbolsAgree
    <3> QED
      BY <3>2 DEF l
  <2>3. run(k)[k] = DecodeStep(run(k)[k - 1], symbols[k])
    BY <1>1, <2>1 DEF SymbolsOf
  <2> QED
    BY <2>1, <2>2, <2>3
<1>4. f = body(f)
  <2>1. \A k \in Nat : f[k] = IF k = 0 THEN Start ELSE DecodeStep(f[k - 1], symbols[k])
    BY <1>2, <1>3
  <2> DEFINE each(k) == IF k = 0 THEN Start ELSE DecodeStep(f[k - 1], symbols[k])
  <2>2. f = [k \in Nat |-> f[k]]
    OBVIOUS
  <2>3. \A k \in Nat : f[k] = each(k)
    BY <2>1
  <2> HIDE DEF f, each
  <2>4. f = [k \in Nat |-> each(k)]
    BY <2>2, <2>3
  <2> QED
    BY <2>4 DEF each
<1> HIDE DEF f
<1>5. Decoding(symbols) = CHOOSE t : t = body(t)
  BY DEF Decoding
<1>6. Decoding(symbols) = body(Decoding(symbols))
  <2> HIDE DEF body
  <2> QED
    BY <1>4, <1>5
<1> DEFINE s == Decoding(symbols)
<1>7. s = body(s)
  BY <1>6
<1> HIDE DEF s
<1>8. s[0] = Start /\ \A k \in Nat : k # 0 => s[k] = DecodeStep(s[k - 1], symbols[k])
  BY <1>7
<1> QED
  BY <1>8 DEF s

-----------------------------------------------------------------------------
(* What a symbol does to the decoder.                                      *)

DecoderType == [ok : BOOLEAN, data : Seq(0..255), pending : -1..255, window : 0..2]
Half(d) == IF d.pending = NoSymbol THEN 0 ELSE 1
\* A byte took two symbols, and a decoder that gave up has none.
DecodedBy(d, k) ==
    d \in DecoderType /\ 2 * Len(d.data) + Half(d) <= k /\ (~ d.ok => d.data = <<>>)

LEMMA CodeOfNibble ==
    ASSUME NEW n \in 0..15
    PROVE  /\ Gcr[n + 1] \in 0..31 /\ Gcr[n + 1] # Mark /\ Gcr[n + 1] # NoSymbol
           /\ Valid(Gcr[n + 1]) /\ Nibble(Gcr[n + 1]) = n
<1>1. DOMAIN Gcr = 1..16
  BY DEF Gcr
<1> DEFINE s == Gcr[n + 1]
<1>2. s \in 0..31 /\ s % 32 = s /\ \A m \in 1..16 : Gcr[m] = s => m = n + 1
  <2>1. n \in {0, 1, 2, 3, 4, 5, 6, 7, 8, 9, 10, 11, 12, 13, 14, 15}
    OBVIOUS
  <2>2. CASE n = 0
    BY <2>2 DEF Gcr
  <2>3. CASE n = 1
    BY <2>3 DEF Gcr
  <2>4. CASE n = 2
    BY <2>4 DEF Gcr
  <2>5. CASE n = 3
    BY <2>5 DEF Gcr
  <2>6. CASE n = 4
    BY <2>6 DEF Gcr
  <2>7. CASE n = 5
    BY <2>7 DEF Gcr
  <2>8. CASE n = 6
    BY <2>8 DEF Gcr
  <2>9. CASE n = 7
    BY <2>9 DEF Gcr
  <2>10. CASE n = 8
    BY <2>10 DEF Gcr
  <2>11. CASE n = 9
    BY <2>11 DEF Gcr
  <2>12. CASE n = 10
    BY <2>12 DEF Gcr
  <2>13. CASE n = 11
    BY <2>13 DEF Gcr
  <2>14. CASE n = 12
    BY <2>14 DEF Gcr
  <2>15. CASE n = 13
    BY <2>15 DEF Gcr
  <2>16. CASE n = 14
    BY <2>16 DEF Gcr
  <2>17. CASE n = 15
    BY <2>17 DEF Gcr
  <2> QED
    BY <2>1, <2>2, <2>3, <2>4, <2>5, <2>6, <2>7, <2>8, <2>9, <2>10, <2>11, <2>12, <2>13, <2>14, <2>15, <2>16, <2>17
<1>3. n + 1 \in 1..16
  OBVIOUS
<1> HIDE DEF s
<1>4. Valid(s)
  BY <1>1, <1>2, <1>3 DEF Valid, s
<1>5. Nibble(s) = n
  <2> DEFINE m == CHOOSE m \in DOMAIN Gcr : Gcr[m] = s % 32
  <2>1. m \in DOMAIN Gcr /\ Gcr[m] = s % 32
    BY <1>4 DEF Valid
  <2>2. Nibble(s) = m - 1
    BY <1>4 DEF Nibble
  <2> HIDE DEF m
  <2>3. m = n + 1
    BY <1>1, <1>2, <2>1
  <2> QED
    BY <2>2, <2>3
<1> QED
  BY <1>2, <1>4, <1>5 DEF s, Mark, NoSymbol

LEMMA NibbleNumber ==
    ASSUME NEW sym
    PROVE  Nibble(sym) \in 0..15
<1>1. DOMAIN Gcr = 1..16
  BY DEF Gcr
<1>2. CASE Valid(sym)
  <2> DEFINE m == CHOOSE m \in DOMAIN Gcr : Gcr[m] = sym % 32
  <2>1. m \in DOMAIN Gcr
    BY <1>2 DEF Valid
  <2>2. Nibble(sym) = m - 1
    BY <1>2 DEF Nibble
  <2> HIDE DEF m
  <2> QED
    BY <1>1, <2>1, <2>2
<1>3. CASE ~ Valid(sym)
  BY <1>3 DEF Nibble
<1> QED
  BY <1>2, <1>3

LEMMA ByteNumber ==
    ASSUME NEW hi, NEW lo
    PROVE  ByteOf(hi, lo) \in 0..255
<1>1. Nibble(hi) \in 0..15 /\ Nibble(lo) \in 0..15
  BY NibbleNumber
<1> QED
  BY <1>1 DEF ByteOf

LEMMA StepDecodes ==
    ASSUME NEW d, NEW k \in Nat, NEW sym \in 0..255, DecodedBy(d, k), NEW e, e = DecodeStep(d, sym)
    PROVE  DecodedBy(e, k + 1)
<1>1. /\ d.ok \in BOOLEAN /\ d.data \in Seq(0..255) /\ d.pending \in -1..255 /\ d.window \in 0..2
      /\ Len(d.data) \in Nat /\ 2 * Len(d.data) + Half(d) <= k /\ (~ d.ok => d.data = <<>>)
  BY DEF DecodedBy, DecoderType
<1>2. d = [ok |-> d.ok, data |-> d.data, pending |-> d.pending, window |-> d.window]
  BY DEF DecodedBy, DecoderType
<1>3. CASE ~ d.ok
  <2>1. e = d
    BY <1>3 DEF DecodeStep
  <2>2. d \in DecoderType
    BY DEF DecodedBy
  <2>3. Half(d) \in 0..1
    BY DEF Half
  <2>4. 2 * Len(d.data) + Half(d) <= k + 1
    BY <1>1, <2>3
  <2>5. DecodedBy(d, k + 1)
    BY <1>1, <2>2, <2>4 DEF DecodedBy
  <2> QED
    BY <2>1, <2>5
<1>4. CASE d.ok /\ sym = Mark
  <2>1. e = [ok |-> TRUE, data |-> d.data, pending |-> NoSymbol, window |-> 2]
    BY <1>2, <1>4 DEF DecodeStep
  <2> QED
    BY <1>1, <2>1 DEF DecodedBy, DecoderType, Half, NoSymbol
<1>5. CASE d.ok /\ sym # Mark /\ d.pending = NoSymbol
  <2>1. e = [ok |-> TRUE, data |-> d.data, pending |-> sym, window |-> d.window]
    BY <1>2, <1>5 DEF DecodeStep
  <2> QED
    BY <1>1, <1>5, <2>1 DEF DecodedBy, DecoderType, Half, NoSymbol
<1>6. CASE d.ok /\ sym # Mark /\ d.pending # NoSymbol
  <2> DEFINE b == ByteOf(d.pending, sym)
             w == IF d.window > 0 THEN d.window - 1 ELSE 0
  <2>1. \/ e = [ok |-> TRUE, data |-> Append(d.data, b), pending |-> NoSymbol, window |-> w]
        \/ e = [ok |-> FALSE, data |-> <<>>, pending |-> d.pending, window |-> d.window]
    BY <1>2, <1>6 DEF DecodeStep, Refused
  <2>2. b \in 0..255
    BY ByteNumber
  <2>3. w \in 0..2
    BY <1>1
  <2> HIDE DEF b, w
  <2>4. CASE e = [ok |-> TRUE, data |-> Append(d.data, b), pending |-> NoSymbol, window |-> w]
    <3>1. Append(d.data, b) \in Seq(0..255) /\ Len(Append(d.data, b)) = Len(d.data) + 1
      BY <1>1, <2>2
    <3> QED
      BY <1>1, <1>6, <2>3, <2>4, <3>1 DEF DecodedBy, DecoderType, Half, NoSymbol
  <2>5. CASE e = [ok |-> FALSE, data |-> <<>>, pending |-> d.pending, window |-> d.window]
    <3>1. <<>> \in Seq(0..255) /\ Len(<<>>) = 0
      OBVIOUS
    <3> QED
      BY <1>1, <1>6, <2>5, <3>1 DEF DecodedBy, DecoderType, Half, NoSymbol
  <2> QED
    BY <2>1, <2>4, <2>5
<1> QED
  BY <1>1, <1>3, <1>4, <1>5, <1>6

LEMMA EverySymbol ==
    ASSUME NEW symbols, NEW n \in Nat, \A i \in 1..n : symbols[i] \in 0..255
    PROVE  \A k \in 0..n : DecodedBy(Decoding(symbols)[k], k)
<1> DEFINE T == {k \in Nat : k <= n /\ ~ DecodedBy(Decoding(symbols)[k], k)}
<1> SUFFICES ASSUME T # {} PROVE FALSE
  OBVIOUS
<1>1. PICK m \in T : \A k \in T : m <= k
  <2> HIDE DEF T
  <2>1. T \subseteq Nat
    BY DEF T
  <2> QED
    BY <2>1, LeastNumber
<1>2. m # 0
  <2>1. Decoding(symbols)[0] = Start
    BY DecodingTurns
  <2>2. DecodedBy(Start, 0)
    BY DEF DecodedBy, DecoderType, Start, Half, NoSymbol
  <2> QED
    BY <1>1, <2>1, <2>2
<1> DEFINE l == m - 1
<1>3. l \in Nat /\ l + 1 = m /\ l <= n /\ l \notin T /\ m \in 1..n /\ m \in Nat
  BY <1>1, <1>2
<1>4. DecodedBy(Decoding(symbols)[l], l)
  BY <1>3
<1>5. Decoding(symbols)[m] = DecodeStep(Decoding(symbols)[l], symbols[m])
  BY <1>2, <1>3, DecodingTurns
<1> DEFINE d == Decoding(symbols)[l]
<1>6. DecodedBy(d, l) /\ symbols[m] \in 0..255
  BY <1>3, <1>4
<1> HIDE DEF d, l
<1>7. DecodedBy(DecodeStep(d, symbols[m]), l + 1)
  BY <1>3, <1>6, StepDecodes
<1> QED
  BY <1>1, <1>3, <1>5, <1>7 DEF d

LEMMA CodedLength ==
    ASSUME NEW content \in Seq(0..255)
    PROVE  /\ Len(Encoded(content)) = 2 * Len(content) /\ Encoded(content) \in Seq(0..255)
           /\ \A j \in 1..Len(content) :
                /\ Encoded(content)[2 * j - 1] = Gcr[HighNibble(content[j]) + 1]
                /\ Encoded(content)[2 * j] = Gcr[LowNibble(content[j]) + 1]
<1> DEFINE n == Len(content)
           s(i) == IF i % 2 = 1 THEN Gcr[HighNibble(content[(i + 1) \div 2]) + 1]
                   ELSE Gcr[LowNibble(content[i \div 2]) + 1]
<1>1. n \in Nat /\ Encoded(content) = [i \in 1..(2 * n) |-> s(i)]
  BY DEF Encoded
<1>2. \A i \in 1..(2 * n) : s(i) \in 0..255
  <2> TAKE i \in 1..(2 * n)
  <2>1. CASE i % 2 = 1
    <3>1. (i + 1) \div 2 \in 1..n
      BY <1>1, <2>1
    <3>2. PICK m \in 1..n : m = (i + 1) \div 2
      BY <3>1
    <3>3. content[m] \in 0..255
      BY <1>1, <3>2, ElementOfSeq
    <3>4. HighNibble(content[m]) \in 0..15
      <4>1. PICK b \in 0..255 : b = content[m]
        BY <3>3
      <4>2. HighNibble(b) \in 0..15
        BY DEF HighNibble
      <4> QED
        BY <4>1, <4>2
    <3>5. Gcr[HighNibble(content[m]) + 1] \in 0..31
      BY <3>4, CodeOfNibble
    <3>6. s(i) = Gcr[HighNibble(content[m]) + 1]
      BY <2>1, <3>2
    <3> HIDE DEF s
    <3> QED
      BY <3>5, <3>6
  <2>2. CASE i % 2 # 1
    <3>1. i \div 2 \in 1..n
      BY <1>1, <2>2
    <3>2. PICK m \in 1..n : m = i \div 2
      BY <3>1
    <3>3. content[m] \in 0..255
      BY <1>1, <3>2, ElementOfSeq
    <3>4. LowNibble(content[m]) \in 0..15
      <4>1. PICK b \in 0..255 : b = content[m]
        BY <3>3
      <4>2. LowNibble(b) \in 0..15
        BY DEF LowNibble
      <4> QED
        BY <4>1, <4>2
    <3>5. Gcr[LowNibble(content[m]) + 1] \in 0..31
      BY <3>4, CodeOfNibble
    <3>6. s(i) = Gcr[LowNibble(content[m]) + 1]
      BY <2>2, <3>2
    <3> HIDE DEF s
    <3> QED
      BY <3>5, <3>6
  <2> QED
    BY <2>1, <2>2
<1>3. \A j \in 1..n : /\ s(2 * j - 1) = Gcr[HighNibble(content[j]) + 1]
                      /\ s(2 * j) = Gcr[LowNibble(content[j]) + 1]
  <2> TAKE j \in 1..n
  <2>1. /\ (2 * j - 1) % 2 = 1 /\ ((2 * j - 1) + 1) \div 2 = j
        /\ (2 * j) % 2 # 1 /\ (2 * j) \div 2 = j
    BY <1>1
  <2> QED
    BY <2>1
<1> HIDE DEF s
<1>4. \A j \in 1..n : 2 * j - 1 \in 1..(2 * n) /\ 2 * j \in 1..(2 * n)
  BY <1>1
<1>5. Encoded(content) \in Seq(0..255) /\ Len(Encoded(content)) = 2 * n
  <2>1. 2 * n \in Nat
    BY <1>1
  <2> QED
    BY <1>1, <1>2, <2>1
<1> QED
  BY <1>1, <1>3, <1>4, <1>5

\* Two symbols of a byte give it back.
LEMMA PairDecodes ==
    ASSUME NEW d \in DecoderType, d.ok, d.pending = NoSymbol, NEW b \in 0..255, NEW e,
           e = DecodeStep(DecodeStep(d, Gcr[HighNibble(b) + 1]), Gcr[LowNibble(b) + 1])
    PROVE  e \in DecoderType /\ e.ok /\ e.pending = NoSymbol /\ e.data = Append(d.data, b)
<1> DEFINE hi == Gcr[HighNibble(b) + 1]
           lo == Gcr[LowNibble(b) + 1]
           w == IF d.window > 0 THEN d.window - 1 ELSE 0
<1>1. HighNibble(b) \in 0..15 /\ LowNibble(b) \in 0..15 /\ 16 * HighNibble(b) + LowNibble(b) = b
  BY DEF HighNibble, LowNibble
<1>2. hi \in 0..31 /\ hi # Mark /\ hi # NoSymbol /\ Valid(hi) /\ Nibble(hi) = HighNibble(b)
  BY <1>1, CodeOfNibble
<1>3. lo \in 0..31 /\ lo # Mark /\ lo # NoSymbol /\ Valid(lo) /\ Nibble(lo) = LowNibble(b)
  BY <1>1, CodeOfNibble
<1> HIDE DEF hi, lo
<1>4. d = [ok |-> TRUE, data |-> d.data, pending |-> NoSymbol, window |-> d.window]
      /\ d.window \in 0..2 /\ d.data \in Seq(0..255)
  BY DEF DecoderType
<1>5. DecodeStep(d, hi) = [ok |-> TRUE, data |-> d.data, pending |-> hi, window |-> d.window]
  BY <1>2, <1>4 DEF DecodeStep
<1> DEFINE h == DecodeStep(d, hi)
<1>6. e = DecodeStep(h, lo)
  BY DEF hi, lo
<1>7. ByteOf(hi, lo) = b
  BY <1>1, <1>2, <1>3 DEF ByteOf
<1> HIDE DEF h
<1>8. h = [ok |-> TRUE, data |-> d.data, pending |-> hi, window |-> d.window]
  BY <1>5 DEF h
<1>9. e = [ok |-> TRUE, data |-> Append(d.data, b), pending |-> NoSymbol, window |-> w]
  BY <1>2, <1>3, <1>6, <1>7, <1>8 DEF DecodeStep
<1>10. w \in 0..2
  BY <1>4
<1> HIDE DEF w
<1>11. Append(d.data, b) \in Seq(0..255)
  BY <1>4
<1> QED
  BY <1>9, <1>10, <1>11 DEF DecoderType, NoSymbol

\* The decoder after the first j bytes that were encoded from symbol n + 1 on.
CodedOK(symbols, n, content, j) ==
    LET d == Decoding(symbols)[n + 2 * j]
        before == Len(Decoding(symbols)[n].data)
    IN /\ d \in DecoderType /\ d.ok /\ d.pending = NoSymbol
       /\ Len(d.data) = before + j
       /\ \A i \in 1..j : d.data[before + i] = content[i]

LEMMA NextCoded ==
    ASSUME NEW symbols, NEW n \in Nat, NEW content \in Seq(0..255), NEW j \in Nat, j < Len(content),
           symbols[n + 2 * j + 1] = Gcr[HighNibble(content[j + 1]) + 1],
           symbols[n + 2 * j + 2] = Gcr[LowNibble(content[j + 1]) + 1],
           Decoding(symbols)[n] \in DecoderType, CodedOK(symbols, n, content, j)
    PROVE  CodedOK(symbols, n, content, j + 1)
<1> DEFINE d == Decoding(symbols)[n + 2 * j]
           e == Decoding(symbols)[n + 2 * (j + 1)]
           b == content[j + 1]
           before == Len(Decoding(symbols)[n].data)
<1>1. b \in 0..255
  <2>1. Len(content) \in Nat /\ j + 1 \in 1..Len(content)
    OBVIOUS
  <2> QED
    BY <2>1, ElementOfSeq
<1>2. e = DecodeStep(DecodeStep(d, Gcr[HighNibble(b) + 1]), Gcr[LowNibble(b) + 1])
  <2> DEFINE p == n + 2 * j + 1
             q == n + 2 * j + 2
  <2>1. /\ p \in Nat /\ q \in Nat /\ p # 0 /\ q # 0 /\ p - 1 = n + 2 * j /\ q - 1 = p
        /\ n + 2 * (j + 1) = q
    OBVIOUS
  <2>2. symbols[p] = Gcr[HighNibble(b) + 1] /\ symbols[q] = Gcr[LowNibble(b) + 1]
    OBVIOUS
  <2> HIDE DEF p, q, b
  <2>3. Decoding(symbols)[p] = DecodeStep(d, symbols[p])
    BY <2>1, DecodingTurns
  <2>4. Decoding(symbols)[q] = DecodeStep(Decoding(symbols)[p], symbols[q])
    BY <2>1, DecodingTurns
  <2> QED
    BY <2>1, <2>2, <2>3, <2>4
<1>3. d \in DecoderType /\ d.ok /\ d.pending = NoSymbol /\ Len(d.data) = before + j
      /\ \A i \in 1..j : d.data[before + i] = content[i]
  BY DEF CodedOK
<1>4. before \in Nat
  BY DEF DecoderType
<1> HIDE DEF d, e, before
<1>5. e \in DecoderType /\ e.ok /\ e.pending = NoSymbol /\ e.data = Append(d.data, b)
  <2> HIDE DEF b
  <2> QED
    BY <1>1, <1>2, <1>3, PairDecodes
<1>6. d.data \in Seq(0..255)
  BY <1>3 DEF DecoderType
<1>7. Len(e.data) = before + (j + 1)
  <2>1. Len(Append(d.data, b)) = Len(d.data) + 1
    BY <1>6
  <2> QED
    BY <1>3, <1>4, <1>5, <2>1
<1>8. \A i \in 1..(j + 1) : e.data[before + i] = content[i]
  <2> TAKE i \in 1..(j + 1)
  <2>1. CASE i = j + 1
    <3>1. before + i = Len(d.data) + 1
      BY <1>3, <1>4, <2>1
    <3>2. e.data[Len(d.data) + 1] = b
      BY <1>5, <1>6
    <3> QED
      BY <2>1, <3>1, <3>2
  <2>2. CASE i # j + 1
    <3>1. i \in 1..j /\ before + i \in 1..Len(d.data)
      BY <1>3, <1>4, <2>2
    <3>2. e.data[before + i] = d.data[before + i]
      BY <1>5, <1>6, <3>1
    <3> QED
      BY <1>3, <3>1, <3>2
  <2> QED
    BY <2>1, <2>2
<1> QED
  BY <1>5, <1>7, <1>8 DEF CodedOK, e, before

LEMMA EveryCoded ==
    ASSUME NEW symbols, NEW n \in Nat, NEW content \in Seq(0..255),
           \A i \in 1..(2 * Len(content)) : symbols[n + i] = Encoded(content)[i],
           NEW d, d = Decoding(symbols)[n], d \in DecoderType, d.ok, d.pending = NoSymbol
    PROVE  \A j \in 0..Len(content) : CodedOK(symbols, n, content, j)
<1> DEFINE T == {j \in Nat : j <= Len(content) /\ ~ CodedOK(symbols, n, content, j)}
<1> SUFFICES ASSUME T # {} PROVE FALSE
  OBVIOUS
<1>1. PICK m \in T : \A k \in T : m <= k
  <2> HIDE DEF T
  <2>1. T \subseteq Nat
    BY DEF T
  <2> QED
    BY <2>1, LeastNumber
<1>2. m # 0
  <2>1. CodedOK(symbols, n, content, 0)
    <3>1. n + 2 * 0 = n /\ Len(d.data) \in Nat
      BY DEF DecoderType
    <3> QED
      BY <3>1 DEF CodedOK
  <2> QED
    BY <1>1, <2>1
<1> DEFINE l == m - 1
<1>3. l \in Nat /\ l + 1 = m /\ l < Len(content) /\ l \notin T /\ m \in 1..Len(content)
  BY <1>1, <1>2
<1>4. CodedOK(symbols, n, content, l)
  BY <1>3
<1>5. /\ symbols[n + 2 * l + 1] = Gcr[HighNibble(content[l + 1]) + 1]
      /\ symbols[n + 2 * l + 2] = Gcr[LowNibble(content[l + 1]) + 1]
  <2>1. /\ 2 * m - 1 \in 1..(2 * Len(content)) /\ 2 * m \in 1..(2 * Len(content))
        /\ n + (2 * m - 1) = n + 2 * l + 1 /\ n + 2 * m = n + 2 * l + 2
    <3>1. PICK k \in Nat : k = l /\ m = k + 1 /\ m \in 1..Len(content)
      BY <1>3
    <3>2. 2 * m - 1 \in 1..(2 * Len(content)) /\ 2 * m \in 1..(2 * Len(content))
      BY <3>1
    <3>3. n + (2 * m - 1) = n + 2 * k + 1 /\ n + 2 * m = n + 2 * k + 2
      BY <3>1
    <3> QED
      BY <3>1, <3>2, <3>3
  <2>2. /\ Encoded(content)[2 * m - 1] = Gcr[HighNibble(content[m]) + 1]
        /\ Encoded(content)[2 * m] = Gcr[LowNibble(content[m]) + 1]
    BY <1>3, CodedLength
  <2>3. symbols[n + (2 * m - 1)] = Encoded(content)[2 * m - 1] /\ symbols[n + 2 * m] = Encoded(content)[2 * m]
    BY <2>1
  <2> QED
    BY <1>3, <2>1, <2>2, <2>3
<1> HIDE DEF l
<1>6. CodedOK(symbols, n, content, l + 1)
  BY <1>3, <1>4, <1>5, NextCoded
<1> QED
  BY <1>1, <1>3, <1>6

LEMMA SameBytes ==
    ASSUME NEW s \in Seq(0..255), NEW t \in Seq(0..255), Len(s) = Len(t),
           \A i \in 1..Len(t) : s[i] = t[i]
    PROVE  s = t
BY SeqEqual

LEMMA BytesOf ==
    ASSUME NEW s \in Seq(0..255)
    PROVE  Len(s) \in Nat /\ \A i \in 1..Len(s) : s[i] \in 0..255
<1> DEFINE S == 0..255
<1>1. s \in Seq(S)
  OBVIOUS
<1> HIDE DEF S
<1>2. Len(s) \in Nat /\ \A i \in 1..Len(s) : s[i] \in S
  BY <1>1
<1> QED
  BY <1>2 DEF S

LEMMA JoinedBytes ==
    ASSUME NEW s \in Seq(0..255), NEW t \in Seq(0..255)
    PROVE  s \o t \in Seq(0..255) /\ Len(s \o t) = Len(s) + Len(t)
<1> DEFINE S == 0..255
<1>1. s \in Seq(S) /\ t \in Seq(S)
  OBVIOUS
<1> HIDE DEF S
<1>2. s \o t \in Seq(S) /\ Len(s \o t) = Len(s) + Len(t)
  BY <1>1
<1> QED
  BY <1>2 DEF S

LEMMA PlainDecodes ==
    ASSUME NEW content \in Seq(0..255), NEW plain, plain = Decoded(Encoded(content))
    PROVE  plain.ok = (content # <<>>) /\ plain.data = content
<1> DEFINE symbols == Encoded(content)
           n == Len(content)
           d == Decoding(symbols)[Len(symbols)]
<1>1. n \in Nat /\ Len(symbols) = 2 * n /\ symbols \in Seq(0..255)
  BY CodedLength
<1>2. CASE content = <<>>
  <2>1. Len(symbols) = 0
    BY <1>1, <1>2
  <2>2. symbols = <<>>
    BY <1>1, <2>1
  <2>3. plain = Refused(d)
    BY <2>2 DEF Decoded
  <2>4. d = Start
    BY <2>1, DecodingTurns
  <2> HIDE DEF d
  <2>5. plain.ok = FALSE /\ plain.data = <<>>
    BY <2>3, <2>4 DEF Refused, Start
  <2> QED
    BY <1>2, <2>5
<1>3. CASE content # <<>>
  <2>1. symbols # <<>>
    <3>1. n # 0
      BY <1>1, <1>3, EmptySeq
    <3>2. Len(symbols) # 0
      BY <1>1, <3>1
    <3> QED
      BY <3>2
  <2>2. CodedOK(symbols, 0, content, n)
    <3>1. Decoding(symbols)[0] = Start
      BY DecodingTurns
    <3>2. Start \in DecoderType /\ Start.ok /\ Start.pending = NoSymbol
      BY DEF Start, DecoderType, NoSymbol
    <3>3. \A i \in 1..(2 * Len(content)) : symbols[0 + i] = Encoded(content)[i]
      OBVIOUS
    <3> HIDE DEF symbols
    <3>4. \A j \in 0..Len(content) : CodedOK(symbols, 0, content, j)
      BY <3>1, <3>2, <3>3, EveryCoded
    <3> QED
      BY <1>1, <3>4
  <2>3. /\ d \in DecoderType /\ d.ok /\ d.pending = NoSymbol /\ Len(d.data) = n
        /\ \A i \in 1..n : d.data[i] = content[i]
    <3>1. Decoding(symbols)[0] = Start
      BY DecodingTurns
    <3>2. Len(Start.data) = 0
      BY DEF Start
    <3>3. 0 + 2 * n = Len(symbols) /\ \A i \in 1..n : 0 + i = i
      BY <1>1
    <3> HIDE DEF symbols
    <3> QED
      BY <1>1, <2>2, <3>1, <3>2, <3>3 DEF CodedOK
  <2>4. plain = d
    BY <2>1, <2>3 DEF Decoded
  <2> HIDE DEF d
  <2>5. d.data \in Seq(0..255)
    BY <2>3 DEF DecoderType
  <2>6. d.data = content
    BY <2>3, <2>5, SameBytes
  <2>7. d.ok = TRUE
    BY <2>3 DEF DecoderType
  <2> QED
    BY <1>3, <2>4, <2>6, <2>7
<1> QED
  BY <1>2, <1>3

\* A decoder that gave up stays so.
LEMMA GivenUp ==
    ASSUME NEW symbols, NEW n \in Nat, NEW d, d = Decoding(symbols)[n], ~ d.ok, NEW k \in Nat, k >= n
    PROVE  Decoding(symbols)[k] = d
<1> DEFINE T == {i \in Nat : i >= n /\ Decoding(symbols)[i] # d}
<1> SUFFICES ASSUME T # {} PROVE FALSE
  OBVIOUS
<1>1. PICK m \in T : \A i \in T : m <= i
  <2> HIDE DEF T
  <2>1. T \subseteq Nat
    BY DEF T
  <2> QED
    BY <2>1, LeastNumber
<1>2. m # n
  BY <1>1
<1> DEFINE l == m - 1
<1>3. m \in Nat /\ m # 0 /\ l \in Nat /\ l >= n /\ l \notin T
  BY <1>1, <1>2
<1>4. Decoding(symbols)[l] = d
  BY <1>3
<1>5. Decoding(symbols)[m] = DecodeStep(Decoding(symbols)[l], symbols[m])
  BY <1>3, DecodingTurns
<1>6. Decoding(symbols)[m] = d
  BY <1>4, <1>5 DEF DecodeStep
<1> QED
  BY <1>1, <1>6

LEMMA Realigns ==
    ASSUME NEW content \in Seq(0..255), NEW damage \in Seq(0..255),
           NEW marked, marked = Decoded(damage \o <<Mark>> \o Encoded(content))
    PROVE  /\ ~ marked.ok => marked.data = <<>>
           /\ marked.ok =>
                \E k \in 0..Len(damage) \div 2 :
                    /\ Len(marked.data) = k + Len(content)
                    /\ SubSeq(marked.data, k + 1, k + Len(content)) = content
<1> DEFINE symbols == damage \o <<Mark>> \o Encoded(content)
           m == Len(damage)
           n == m + 1
           before == Decoding(symbols)[m]
           at == Decoding(symbols)[n]
           d == Decoding(symbols)[Len(symbols)]
<1>1. Encoded(content) \in Seq(0..255) /\ Len(Encoded(content)) = 2 * Len(content)
  BY CodedLength
<1>2. m \in Nat /\ n \in Nat /\ n # 0 /\ n - 1 = m /\ Len(content) \in Nat
  OBVIOUS
<1>3. damage \o <<Mark>> \in Seq(0..255) /\ Len(damage \o <<Mark>>) = n /\ (damage \o <<Mark>>)[n] = Mark
  BY DEF Mark
<1>4. symbols \in Seq(0..255) /\ Len(symbols) = n + 2 * Len(content)
  <2>1. PICK s \in Seq(0..255), t \in Seq(0..255) : s = damage \o <<Mark>> /\ t = Encoded(content)
    BY <1>1, <1>3
  <2>2. Len(s) = n /\ Len(t) = 2 * Len(content) /\ symbols = s \o t
    BY <1>1, <1>3, <2>1
  <2>3. s \o t \in Seq(0..255) /\ Len(s \o t) = Len(s) + Len(t)
    BY JoinedBytes
  <2> HIDE DEF symbols, n
  <2> QED
    BY <2>2, <2>3
<1>5. symbols[n] = Mark
  BY <1>1, <1>2, <1>3
<1>6. \A i \in 1..(2 * Len(content)) : symbols[n + i] = Encoded(content)[i]
  BY <1>1, <1>2, <1>3
<1>7. marked = Decoded(symbols)
  OBVIOUS
<1> HIDE DEF symbols
<1>8. \A k \in 0..Len(symbols) : DecodedBy(Decoding(symbols)[k], k)
  <2>1. Len(symbols) \in Nat /\ \A i \in 1..Len(symbols) : symbols[i] \in 0..255
    BY <1>4, BytesOf
  <2> QED
    BY <2>1, EverySymbol
<1>9. DecodedBy(before, m) /\ DecodedBy(d, Len(symbols)) /\ DecodedBy(at, n)
  <2>1. m \in 0..Len(symbols) /\ n \in 0..Len(symbols) /\ Len(symbols) \in 0..Len(symbols)
    BY <1>2, <1>4
  <2> QED
    BY <1>8, <2>1
<1>10. at = DecodeStep(before, Mark)
  BY <1>2, <1>5, DecodingTurns
<1>11. symbols # <<>>
  <2>1. Len(symbols) # 0
    BY <1>2, <1>4
  <2> QED
    BY <2>1
<1>12. CASE ~ before.ok
  <2>1. d = before
    <3> DEFINE dm == before
    <3>1. dm = Decoding(symbols)[m] /\ ~ dm.ok /\ Len(symbols) \in Nat /\ Len(symbols) >= m
      BY <1>2, <1>4, <1>12
    <3> HIDE DEF dm
    <3>2. Decoding(symbols)[Len(symbols)] = dm
      BY <1>2, <3>1, GivenUp
    <3> QED
      BY <3>2 DEF dm
  <2>2. ~ d.ok /\ d.data = <<>> /\ d \in DecoderType
    BY <1>9, <1>12, <2>1 DEF DecodedBy
  <2>3. marked = d \/ marked = Refused(d)
    BY <1>7, <1>11, <2>2 DEF Decoded
  <2> HIDE DEF d
  <2>4. ~ marked.ok /\ marked.data = <<>>
    BY <2>2, <2>3 DEF Refused, DecoderType
  <2> QED
    BY <2>4
<1>13. CASE before.ok
  <2> DEFINE k == Len(before.data)
  <2>1. k \in Nat /\ before \in DecoderType /\ 2 * k + Half(before) <= m
    BY <1>9 DEF DecodedBy, DecoderType
  <2>2. k \in 0..(m \div 2)
    <3>1. Half(before) \in 0..1
      BY DEF Half
    <3> HIDE DEF k
    <3> QED
      BY <1>2, <2>1, <3>1
  <2>3. at \in DecoderType /\ at.ok /\ at.pending = NoSymbol /\ at.data = before.data
    <3> DEFINE b == before
    <3>1. b \in DecoderType /\ b.ok /\ at = DecodeStep(b, Mark)
      BY <1>10, <1>13, <2>1
    <3> HIDE DEF b, at
    <3>2. at = [b EXCEPT !.pending = NoSymbol, !.window = 2]
      BY <3>1 DEF DecodeStep
    <3>3. /\ b = [ok |-> b.ok, data |-> b.data, pending |-> b.pending, window |-> b.window]
          /\ b.ok \in BOOLEAN /\ b.data \in Seq(0..255)
      BY <3>1 DEF DecoderType
    <3>4. at = [ok |-> TRUE, data |-> b.data, pending |-> NoSymbol, window |-> 2]
      BY <3>1, <3>2, <3>3
    <3>5. at \in DecoderType /\ at.ok /\ at.pending = NoSymbol /\ at.data = b.data
      BY <3>3, <3>4 DEF DecoderType, NoSymbol
    <3> QED
      BY <3>5 DEF b
  <2>4. CodedOK(symbols, n, content, Len(content))
    <3> DEFINE a == at
    <3>1. a = Decoding(symbols)[n] /\ a \in DecoderType /\ a.ok /\ a.pending = NoSymbol
      BY <2>3
    <3> HIDE DEF a, n
    <3>2. \A j \in 0..Len(content) : CodedOK(symbols, n, content, j)
      BY <1>2, <1>6, <3>1, EveryCoded
    <3> QED
      BY <1>2, <3>2
  <2>5. /\ d \in DecoderType /\ d.ok /\ d.pending = NoSymbol /\ Len(d.data) = k + Len(content)
        /\ \A i \in 1..Len(content) : d.data[k + i] = content[i]
    <3>1. n + 2 * Len(content) = Len(symbols)
      BY <1>4
    <3> QED
      BY <2>3, <2>4, <3>1 DEF CodedOK
  <2>6. marked = d
    BY <1>7, <1>11, <2>5 DEF Decoded
  <2> HIDE DEF d, k
  <2>7. d.data \in Seq(0..255)
    BY <2>5 DEF DecoderType
  <2>8. SubSeq(d.data, k + 1, k + Len(content)) = content
    <3> DEFINE s == SubSeq(d.data, k + 1, k + Len(content))
               dd == d.data
    <3>1. /\ dd \in Seq(0..255) /\ k \in Nat /\ Len(content) \in Nat /\ Len(dd) = k + Len(content)
          /\ \A i \in 1..Len(content) : dd[k + i] = content[i]
      BY <1>2, <2>1, <2>5, <2>7
    <3> HIDE DEF dd
    <3>2. /\ SubSeq(dd, k + 1, k + Len(content)) \in Seq(0..255)
          /\ Len(SubSeq(dd, k + 1, k + Len(content))) = Len(content)
          /\ \A i \in 1..Len(content) : SubSeq(dd, k + 1, k + Len(content))[i] = dd[k + i]
      <4> DEFINE u == SubSeq(dd, k + 1, k + Len(content))
      <4>1. k + 1 \in Int /\ k + Len(content) \in Int /\ 1 <= k + 1 /\ k + Len(content) <= Len(dd)
        BY <3>1
      <4>2. u \in Seq(0..255)
        <5>1. \A i \in (k + 1)..(k + Len(content)) : dd[i] \in 0..255
          <6>1. \A i \in (k + 1)..(k + Len(content)) : i \in 1..Len(dd)
            BY <3>1
          <6> QED
            BY <3>1, <6>1, ElementOfSeq
        <5> QED
          BY <4>1, <5>1
      <4>3. Len(u) = Len(content)
        BY <3>1, <4>1
      <4>4. \A i \in 1..Len(content) : u[i] = dd[k + i]
        BY <3>1, <4>1
      <4> QED
        BY <4>2, <4>3, <4>4
    <3>3. SubSeq(dd, k + 1, k + Len(content)) = content
      BY <3>1, <3>2, SameBytes
    <3> QED
      BY <3>3 DEF dd
  <2> QED
    BY <2>2, <2>5, <2>6, <2>8
<1> QED
  BY <1>12, <1>13

LEMMA ByteComesBack ==
    ASSUME NEW content \in Seq(0..255), content # <<>>
    PROVE  Byte1(content) = content[1] /\ Byte1(content) \in 0..255
<1> DEFINE k == AtMost(Len(content), 8)
           block == SubSeq(content, 1, k)
           plain == Decoded(Encoded(block))
<1>1. Len(content) \in Nat /\ Len(content) # 0
  BY EmptySeq
<1>2. k \in 1..Len(content)
  BY <1>1 DEF AtMost
<1>3. block \in Seq(0..255) /\ Len(block) = k /\ block[1] = content[1]
  <2> HIDE DEF k
  <2>1. k \in Nat /\ 1 <= k /\ k <= Len(content)
    BY <1>1, <1>2
  <2>2. \A i \in 1..k : i \in 1..Len(content) /\ content[i] \in 0..255
    BY <1>1, <2>1, BytesOf
  <2>3. block = [i \in 1..k |-> content[i]]
    BY <2>1
  <2> HIDE DEF block
  <2> QED
    BY <2>1, <2>2, <2>3
<1>4. block # <<>>
  BY <1>2, <1>3
<1> HIDE DEF block
<1>5. plain.ok = TRUE /\ plain.data = block
  BY <1>3, <1>4, PlainDecodes
<1>6. Byte1(content) = IF plain.ok /\ plain.data # <<>> THEN plain.data[1] ELSE content[1]
  BY DEF Byte1, block
<1> HIDE DEF plain
<1>7. Byte1(content) = content[1]
  BY <1>3, <1>4, <1>5, <1>6
<1>8. content[1] \in 0..255
  <2>1. 1 \in 1..Len(content)
    BY <1>1
  <2> QED
    BY <2>1, ElementOfSeq
<1> QED
  BY <1>7, <1>8

\* Every content and every damage of a drive.
LEMMA EveryContent ==
    ASSUME ChannelConstants, unit \in DOMAIN Readers
    PROVE  CodecRealigns
<1>1. Reading.contents \subseteq Seq(0..255) /\ Reading.damages \subseteq Seq(0..255)
  BY ReaderFits DEF ReaderOK
<1>2. ASSUME NEW content \in Reading.contents, NEW damage \in Reading.damages
      PROVE  LET plain == Decoded(Encoded(content))
                 marked == Decoded(damage \o <<Mark>> \o Encoded(content))
             IN /\ plain.ok = (content # <<>>) /\ plain.data = content
                /\ ~marked.ok => marked.data = <<>>
                /\ marked.ok =>
                    \E k \in 0..Len(damage) \div 2 :
                        /\ Len(marked.data) = k + Len(content)
                        /\ SubSeq(marked.data, k + 1, k + Len(content)) = content
  <2>1. PICK b \in Seq(0..255), c \in Seq(0..255) : b = content /\ c = damage
    BY <1>1
  <2>2. PICK plain, marked : /\ plain = Decoded(Encoded(b))
                             /\ marked = Decoded(c \o <<Mark>> \o Encoded(b))
    OBVIOUS
  <2>3. plain.ok = (b # <<>>) /\ plain.data = b
    BY <2>2, PlainDecodes
  <2>4. /\ ~ marked.ok => marked.data = <<>>
        /\ marked.ok => \E k \in 0..Len(c) \div 2 :
                            /\ Len(marked.data) = k + Len(b)
                            /\ SubSeq(marked.data, k + 1, k + Len(b)) = b
    BY <2>2, Realigns
  <2> QED
    BY <2>1, <2>2, <2>3, <2>4, Zenon
<1> QED
  BY <1>2, Zenon DEF CodecRealigns

-----------------------------------------------------------------------------
(* The inductive invariant: the loop is locked, the flux's counter is not  *)
(* ahead of the cells and no edge was missed as long as it fits, and the   *)
(* ticks are the time the spindle and the cells have taken.                *)

FluxType ==
    [cursor : 0..(Len(Deltas) - 1), acc : 0..(AccWrap - 1), streak : 0..MaxStreak, window : 0..7]
NoneMissed(f, t) == t.cells < AccWrap => f.acc <= t.cells /\ f.streak = 0 /\ f.window = 0
ModelsType ==
    [level4 : BOOLEAN, head : 2..84, angle : 0..(Turn - 1), relock : 0..MaxRelock,
     phaseErr : Int, flux : FluxType, absTick : 0..(TickWrap - 1)]
ModelsOK(r, c) == c \in ModelsType /\ (c.level4 /\ Quiet(r) => LockedAt(c.phaseErr))
SampleOK(s) == s.byte \in 0..255 /\ s.bit \in 0..1 /\ s.edge \in BOOLEAN
TimesType == [made : Nat, read : Nat, turned : Nat, cells : Nat]
TimesOK(t, n) == t \in TimesType /\ t.read <= n
OnTime(c, t) ==
    t.made + t.turned + t.cells < TickWrap =>
        /\ c.absTick = t.made + t.turned + t.cells
        /\ t.turned <= t.read - t.made
        /\ t.read - t.made - t.turned <= t.cells
        /\ c.angle = t.turned % Turn

ChannelInv ==
    /\ unit \in DOMAIN Readers /\ level \in Reading.levels /\ now \in 0..Reading.until
    /\ made \in BOOLEAN /\ stuck \in BOOLEAN
    /\ ModelsOK(Reading, channel) /\ SampleOK(sample) /\ times \in TimesType
    /\ (made /\ ~ stuck) =>
        /\ NoneMissed(channel.flux, times)
        /\ times.cells < AccWrap => InWeak(channel.absTick) \/ sample.edge
        /\ TimesOK(times, now) /\ OnTime(channel, times)

LEMMA ChannelNumbers ==
    ASSUME ChannelConstants
    PROVE  /\ TickWrap \in Nat /\ TickWrap # 0 /\ Turn \in Nat /\ Turn # 0
           /\ AccWrap \in Nat /\ AccWrap # 0 /\ MaxRelock \in Nat /\ MaxStreak \in Nat
           /\ Len(Deltas) \in Nat /\ Len(Deltas) # 0
           /\ \A i \in 1..Len(Deltas) : Deltas[i] \in 0..11
<1>1. Deltas \in Seq(0..11) /\ Deltas # <<>>
  BY DEF ChannelConstants
<1> DEFINE S == 0..11
<1>2. Len(Deltas) \in Nat /\ Len(Deltas) # 0 /\ \A i \in 1..Len(Deltas) : Deltas[i] \in S
  <2> HIDE DEF S
  <2>1. Deltas \in Seq(S) /\ Deltas # <<>>
    BY <1>1 DEF S
  <2> QED
    BY <2>1, EmptySeq
<1>3. /\ TickWrap \in Nat \ {0} /\ Turn \in Nat \ {0}
      /\ AccWrap \in Nat \ {0} /\ MaxRelock \in Nat /\ MaxStreak \in Nat
  BY DEF ChannelConstants
<1> QED
  BY <1>2, <1>3

LEMMA Remainder ==
    ASSUME NEW a \in Nat, NEW m \in Nat, m # 0
    PROVE  a % m \in 0..(m - 1) /\ (a < m => a % m = a)
OBVIOUS

LEMMA Quotient ==
    ASSUME NEW a \in Nat, NEW m \in Nat, m # 0
    PROVE  a \div m \in Nat /\ a % m \in 0..(m - 1) /\ a = m * (a \div m) + (a % m)
<1> DEFINE q == a \div m
           r == a % m
<1>1. q \in Nat /\ r \in 0..(m - 1) /\ a = m * q + r
  OBVIOUS
<1> QED
  BY <1>1

\* The spindle's turns add up.
LEMMA TurnsAdd ==
    ASSUME NEW a \in Nat, NEW b \in Nat, NEW m \in Nat, m # 0
    PROVE  ((a % m) + b) % m = (a + b) % m
<1> DEFINE q == a \div m
           r == a % m
           x == (r + b) \div m
           y == (r + b) % m
<1>1. q \in Nat /\ r \in Nat /\ a = m * q + r
  OBVIOUS
<1>2. x \in Nat /\ y \in 0..(m - 1) /\ r + b = m * x + y
  <2> HIDE DEF r, q
  <2> QED
    BY <1>1
<1> HIDE DEF q, r, x, y
<1>3. a + b = m * (q + x) + y
  <2>1. m * (q + x) = m * q + m * x
    BY <1>1, <1>2
  <2>2. m * q \in Nat /\ m * x \in Nat
    BY <1>1, <1>2
  <2> QED
    BY <1>1, <1>2, <2>1, <2>2
<1>4. (a + b) % m = y
  <2> DEFINE z == q + x
  <2>1. z \in Nat /\ a + b = m * z + y
    BY <1>1, <1>2, <1>3
  <2> HIDE DEF z
  <2>2. PICK u \in Nat, v \in Int, w \in Nat : u = a + b /\ w = u % m /\ u = m * v + w /\ w < m
    <3>1. PICK u \in Nat : u = a + b
      OBVIOUS
    <3>2. PICK v, w : v = u \div m /\ w = u % m
      OBVIOUS
    <3>3. v \in Nat /\ w \in 0..(m - 1) /\ u = m * v + w
      BY <3>2, Quotient
    <3>4. v \in Int /\ w \in Nat /\ w < m
      BY <3>3
    <3> QED
      BY <3>1, <3>2, <3>3, <3>4, Zenon
  <2>3. u = m * v + w /\ w < m
    BY <2>2
  <2>4. ASSUME NEW g \in Int, NEW h \in Int, g < h
        PROVE  m * g + m <= m * h
    <3>1. h - g - 1 \in Nat
      BY <2>4
    <3>2. m * (h - g - 1) \in Nat
      BY <3>1
    <3>3. m * (h - g - 1) = m * h - m * g - m
      OBVIOUS
    <3>4. m * h \in Int /\ m * g \in Int
      OBVIOUS
    <3> QED
      BY <3>2, <3>3, <3>4
  <2>5. m * v \in Int /\ m * z \in Int /\ z \in Int
    BY <2>1, <2>2
  <2>6. ~ (v < z)
    <3> SUFFICES ASSUME v < z PROVE FALSE
      OBVIOUS
    <3>1. m * v + m <= m * z
      BY <2>4, <2>5
    <3> QED
      BY <1>2, <2>1, <2>2, <2>3, <2>5, <3>1
  <2>7. ~ (z < v)
    <3> SUFFICES ASSUME z < v PROVE FALSE
      OBVIOUS
    <3>1. m * z + m <= m * v
      BY <2>4, <2>5
    <3> QED
      BY <1>2, <2>1, <2>2, <2>3, <2>5, <3>1
  <2>8. v = z
    BY <2>5, <2>6, <2>7
  <2>9. w = y
    BY <1>2, <2>1, <2>2, <2>3, <2>5, <2>8
  <2> QED
    BY <2>2, <2>9
<1> QED
  BY <1>4 DEF y, r

\* The ticks that are counted fit their width, and so do the reads without an edge.
LEMMA FluxMoves ==
    ASSUME ChannelConstants, NEW f \in FluxType, NEW ticks \in Nat
    PROVE  /\ AccAfter(f, ticks) \in 0..(AccWrap - 1) /\ Deltas[f.cursor + 1] \in 0..11
           /\ Moved(f, ticks) \in FluxType /\ Moved(f, ticks).window = f.window
           /\ EdgeDue(f, ticks) => Moved(f, ticks).streak = 0
<1>1. /\ f.cursor \in 0..(Len(Deltas) - 1) /\ f.acc \in Nat /\ f.streak \in 0..MaxStreak
      /\ f.window \in 0..7
      /\ f = [cursor |-> f.cursor, acc |-> f.acc, streak |-> f.streak, window |-> f.window]
  BY ChannelNumbers DEF FluxType
<1>2. PICK d \in 0..11 : d = Deltas[f.cursor + 1]
  <2>1. f.cursor + 1 \in 1..Len(Deltas)
    BY <1>1, ChannelNumbers
  <2> QED
    BY <2>1, ChannelNumbers
<1>3. PICK acc \in 0..(AccWrap - 1) : acc = AccAfter(f, ticks)
  <2>1. PICK x \in Nat, m \in Nat : x = f.acc + ticks /\ m = AccWrap /\ m # 0
    <3>1. f.acc + ticks \in Nat
      BY <1>1
    <3> QED
      BY <3>1, ChannelNumbers
  <2>2. x % m \in 0..(m - 1)
    BY <2>1, Remainder
  <2> QED
    BY <2>1, <2>2 DEF AccAfter
<1>4. acc \in Nat /\ d \in Nat
  BY <1>3, ChannelNumbers
<1>5. CASE EdgeDue(f, ticks)
  <2>1. acc >= d
    BY <1>2, <1>3, <1>5 DEF EdgeDue
  <2>2. PICK rest \in 0..(AccWrap - 1) : rest = acc - d
    BY <1>3, <1>4, <2>1, ChannelNumbers
  <2>3. PICK cursor \in 0..(Len(Deltas) - 1) : cursor = (f.cursor + 1) % Len(Deltas)
    <3>1. PICK x \in Nat, m \in Nat : x = f.cursor + 1 /\ m = Len(Deltas) /\ m # 0
      <4>1. Len(Deltas) \in Nat /\ Len(Deltas) # 0
        BY ChannelNumbers
      <4>2. f.cursor + 1 \in Nat
        BY <1>1, <4>1
      <4> QED
        BY <4>1, <4>2
    <3>2. x % m \in 0..(m - 1)
      BY <3>1, Remainder
    <3> QED
      BY <3>1, <3>2
  <2>4. Moved(f, ticks) = [f EXCEPT !.acc = rest, !.cursor = cursor, !.streak = 0]
    BY <1>2, <1>3, <1>5, <2>2, <2>3 DEF Moved
  <2>5. Moved(f, ticks) = [cursor |-> cursor, acc |-> rest, streak |-> 0, window |-> f.window]
    BY <1>1, <2>4
  <2>6. 0 \in 0..MaxStreak
    BY ChannelNumbers
  <2> QED
    BY <1>1, <1>2, <1>3, <2>5, <2>6 DEF FluxType
<1>6. CASE ~ EdgeDue(f, ticks)
  <2>1. PICK streak \in 0..MaxStreak : streak = AtMost(f.streak + 1, MaxStreak)
    <3>1. PICK x \in Nat, m \in Nat : x = f.streak + 1 /\ m = MaxStreak
      BY <1>1, ChannelNumbers
    <3>2. AtMost(x, m) \in 0..m
      BY DEF AtMost
    <3> QED
      BY <3>1, <3>2
  <2>2. Moved(f, ticks) = [f EXCEPT !.acc = acc, !.streak = streak]
    BY <1>3, <1>6, <2>1 DEF Moved
  <2>3. Moved(f, ticks) = [cursor |-> f.cursor, acc |-> acc, streak |-> streak, window |-> f.window]
    BY <1>1, <2>2
  <2> QED
    BY <1>1, <1>2, <1>3, <1>6, <2>3 DEF FluxType
<1> QED
  BY <1>5, <1>6

LEMMA FluxKeeps ==
    ASSUME ChannelConstants, NEW f \in FluxType, NEW ticks \in Nat, NEW tick, NEW noise \in 0..31
    PROVE  /\ FluxAfter(f, ticks, tick, noise) \in FluxType
           /\ EdgeSeen(f, ticks, tick, noise) \in BOOLEAN
<1>1. PICK moved \in FluxType : moved = Moved(f, ticks)
  BY FluxMoves
<1>2. PICK w \in 0..7 : w = WindowAt(f, ticks, tick, noise)
  <2>1. moved.window \in 0..7
    BY <1>1 DEF FluxType
  <2>2. 4 + (noise % 4) \in 0..7
    OBVIOUS
  <2> QED
    BY <1>1, <2>1, <2>2 DEF WindowAt
<1>3. PICK v \in 0..7 : v = AtLeast0(w - 1)
  BY DEF AtLeast0
<1>4. FluxAfter(f, ticks, tick, noise) = [moved EXCEPT !.window = v]
  BY <1>1, <1>2, <1>3 DEF FluxAfter
<1>5. FluxAfter(f, ticks, tick, noise) \in FluxType
  BY <1>1, <1>3, <1>4 DEF FluxType
<1>6. EdgeDue(f, ticks) \in BOOLEAN
  BY DEF EdgeDue
<1>7. EdgeSeen(f, ticks, tick, noise) \in BOOLEAN
  <2>1. CASE ~ InWeak(tick)
    BY <1>6, <2>1 DEF EdgeSeen
  <2>2. CASE InWeak(tick) /\ w > 0
    BY <1>2, <1>6, <2>2 DEF EdgeSeen
  <2>3. CASE InWeak(tick) /\ ~ (w > 0)
    BY <1>2, <1>6, <2>3 DEF EdgeSeen
  <2> QED
    BY <2>1, <2>2, <2>3
<1> QED
  BY <1>5, <1>7

\* As long as the ticks fit their width, an edge is due at every read.
LEMMA EdgeNotMissed ==
    ASSUME ChannelConstants, NEW f \in FluxType, NEW ticks \in Nat, ticks >= 11, NEW tick,
           NEW noise \in 0..31, f.window = 0, f.acc + ticks < AccWrap
    PROVE  /\ FluxAfter(f, ticks, tick, noise).acc <= f.acc + ticks
           /\ FluxAfter(f, ticks, tick, noise).streak = 0
           /\ FluxAfter(f, ticks, tick, noise).window = 0
           /\ InWeak(tick) \/ EdgeSeen(f, ticks, tick, noise)
<1>1. PICK acc \in Nat : acc = f.acc /\ acc + ticks < AccWrap
  BY ChannelNumbers DEF FluxType
<1>2. AccAfter(f, ticks) = acc + ticks
  <2>1. PICK x \in Nat, m \in Nat : x = acc + ticks /\ m = AccWrap /\ m # 0
    BY <1>1, ChannelNumbers
  <2>2. x % m = x
    BY <1>1, <2>1, Remainder
  <2> QED
    BY <1>1, <2>1, <2>2 DEF AccAfter
<1>3. PICK d \in 0..11 : d = Deltas[f.cursor + 1]
  BY FluxMoves
<1>4. EdgeDue(f, ticks)
  <2>1. acc + ticks >= d
    BY <1>1
  <2> QED
    BY <1>2, <1>3, <2>1 DEF EdgeDue
<1>5. PICK moved \in FluxType : moved = Moved(f, ticks) /\ moved.streak = 0 /\ moved.window = 0
  BY <1>4, FluxMoves
<1>6. moved.acc = acc + ticks - d
  <2>1. PICK rest \in Int : rest = acc + ticks - d
    BY <1>1
  <2>2. PICK cursor : cursor = (f.cursor + 1) % Len(Deltas)
    OBVIOUS
  <2>3. moved = [f EXCEPT !.acc = rest, !.cursor = cursor, !.streak = 0]
    <3>1. rest = AccAfter(f, ticks) - Deltas[f.cursor + 1]
      BY <1>2, <1>3, <2>1
    <3> QED
      BY <1>4, <1>5, <2>2, <3>1 DEF Moved
  <2> QED
    BY <2>1, <2>3 DEF FluxType
<1>7. WindowAt(f, ticks, tick, noise) = 0
  <2>1. ~ (moved.streak >= 3)
    BY <1>5
  <2> QED
    BY <1>5, <2>1 DEF WindowAt
<1>8. FluxAfter(f, ticks, tick, noise) = [moved EXCEPT !.window = 0]
  <2>1. AtLeast0(0 - 1) = 0
    BY DEF AtLeast0
  <2> QED
    BY <1>5, <1>7, <2>1 DEF FluxAfter
<1>9. PICK after : /\ after = FluxAfter(f, ticks, tick, noise) /\ after.acc = acc + ticks - d
                   /\ after.streak = 0 /\ after.window = 0
  BY <1>5, <1>6, <1>8 DEF FluxType
<1>10. InWeak(tick) \/ EdgeSeen(f, ticks, tick, noise)
  BY <1>4 DEF EdgeSeen
<1> QED
  BY <1>1, <1>9, <1>10

LEMMA ChannelStarts ==
    ASSUME ChannelConstants, ChannelInit
    PROVE  ChannelInv
<1>1. unit \in DOMAIN Readers /\ level \in Reading.levels
  BY DEF ChannelInit
<1>2. now \in 0..Reading.until
  <2>1. Reading.from \in 0..Reading.until /\ now = Reading.from
    BY <1>1, ReaderFits DEF ReaderOK, ChannelInit
  <2> QED
    BY <2>1
<1>3. AtRest \in ModelsType
  <2>1. FluxAtRest \in FluxType
    BY ChannelNumbers DEF FluxAtRest, FluxType
  <2> QED
    BY <2>1, ChannelNumbers DEF AtRest, ModelsType
<1>4. ModelsOK(Reading, channel)
  <2>1. channel = AtRest /\ AtRest.level4 = FALSE
    BY DEF ChannelInit, AtRest
  <2> QED
    BY <1>3, <2>1 DEF ModelsOK
<1>5. SampleOK(sample)
  BY DEF ChannelInit, NoSample, SampleOK
<1>6. times \in TimesType /\ made \in BOOLEAN /\ stuck \in BOOLEAN /\ ~ made
  BY DEF ChannelInit, TimesType
<1> QED
  BY <1>1, <1>2, <1>4, <1>5, <1>6 DEF ChannelInv

\* What a read finds: the models that are there, or those it makes.
LEMMA ModelsFound ==
    ASSUME ChannelConstants, ChannelInv, ~ stuck
    PROVE  /\ ModelsOK(Reading, Channel) /\ TimesOK(Times, now) /\ OnTime(Channel, Times)
           /\ NoneMissed(Channel.flux, Times)
<1>1. /\ unit \in DOMAIN Readers /\ level \in Reading.levels /\ now \in 0..Reading.until
      /\ ModelsOK(Reading, channel)
  BY DEF ChannelInv
<1>2. now \in Nat
  BY <1>1, ReaderFits DEF ReaderOK
<1>3. CASE made
  <2>1. Channel = channel /\ Times = times
    BY <1>3 DEF Channel, Times
  <2>2. TimesOK(times, now) /\ OnTime(channel, times) /\ NoneMissed(channel.flux, times)
    BY <1>3 DEF ChannelInv
  <2> QED
    BY <1>1, <2>1, <2>2
<1>4. CASE ~ made
  <2> DEFINE l4 == level >= 4
             tick == now % TickWrap
  <2>1. l4 \in BOOLEAN
    OBVIOUS
  <2>2. tick \in 0..(TickWrap - 1) /\ (now < TickWrap => tick = now)
    <3>1. PICK n \in Nat, w \in Nat : n = now /\ w = TickWrap /\ w # 0
      BY <1>2, ChannelNumbers
    <3>2. n % w \in 0..(w - 1) /\ (n < w => n % w = n)
      BY <3>1, Remainder
    <3> QED
      BY <3>1, <3>2
  <2> HIDE DEF l4, tick
  <2>3. Channel = [level4 |-> l4, head |-> 36, angle |-> 0, relock |-> 0, phaseErr |-> 0,
                   flux |-> FluxAtRest, absTick |-> tick]
    BY <1>4 DEF Channel, AtRest, l4, tick
  <2>4. Times = [made |-> now, read |-> now, turned |-> 0, cells |-> 0]
    BY <1>4 DEF Times
  <2>5. FluxAtRest \in FluxType
    BY ChannelNumbers DEF FluxAtRest, FluxType
  <2>6. Channel \in ModelsType
    <3>1. 0 \in 0..(Turn - 1) /\ 0 \in 0..MaxRelock /\ 36 \in 2..84 /\ 0 \in Int
      BY ChannelNumbers
    <3> QED
      BY <2>1, <2>2, <2>3, <2>5, <3>1 DEF ModelsType
  <2>7. LockedAt(0)
    BY Locks
  <2>8. ModelsOK(Reading, Channel)
    BY <2>3, <2>6, <2>7 DEF ModelsOK
  <2>9. TimesOK(Times, now)
    BY <1>2, <2>4 DEF TimesOK, TimesType
  <2>10. OnTime(Channel, Times)
    <3>1. 0 % Turn = 0
      <4>1. PICK z \in Nat, u \in Nat : z = 0 /\ u = Turn /\ u # 0
        BY ChannelNumbers
      <4>2. z < u => z % u = z
        BY <4>1, Remainder
      <4> QED
        BY <4>1, <4>2
    <3> QED
      BY <1>2, <2>2, <2>3, <2>4, <3>1, ChannelNumbers DEF OnTime
  <2>11. NoneMissed(Channel.flux, Times)
    <3>1. Times.cells = 0 /\ Channel.flux = FluxAtRest
      BY <2>3, <2>4
    <3>2. FluxAtRest.acc = 0 /\ FluxAtRest.streak = 0 /\ FluxAtRest.window = 0
      BY DEF FluxAtRest
    <3> QED
      BY <3>1, <3>2 DEF NoneMissed
  <2> QED
    BY <2>8, <2>9, <2>10, <2>11
<1> QED
  BY <1>3, <1>4

\* The clock the ticks catch up with, and the cell they take.
LEMMA CaughtUp ==
    ASSUME ChannelConstants, ChannelInv, ~ stuck
    PROVE  /\ Elapsed \in Nat /\ Caught \in 0..(TickWrap - 1)
           /\ (Channel.angle + Elapsed) % Turn \in 0..(Turn - 1)
<1>1. Channel \in ModelsType
  BY ModelsFound DEF ModelsOK
<1>2. Channel.absTick \in 0..(TickWrap - 1) /\ Channel.angle \in 0..(Turn - 1)
  BY <1>1 DEF ModelsType
<1>3. now \in Nat
  <2>1. unit \in DOMAIN Readers /\ now \in 0..Reading.until
    BY DEF ChannelInv
  <2> QED
    BY <2>1, ReaderFits DEF ReaderOK
<1>4. PICK n \in Nat, w \in Nat, t \in Nat, a \in Nat, u \in Nat :
        /\ n = now /\ w = TickWrap /\ w # 0 /\ t = Channel.absTick /\ t < w
        /\ a = Channel.angle /\ u = Turn /\ u # 0
  <2>1. TickWrap \in Nat /\ TickWrap # 0 /\ Turn \in Nat /\ Turn # 0
    BY ChannelNumbers
  <2>2. Channel.absTick \in Nat /\ Channel.absTick < TickWrap /\ Channel.angle \in Nat
    BY <1>2, <2>1
  <2> QED
    BY <1>3, <2>1, <2>2
<1>5. Elapsed = AtLeast0(n - t) /\ AtLeast0(n - t) \in Nat
  BY <1>4 DEF Elapsed, AtLeast0
<1>6. Caught \in 0..(w - 1)
  <2>1. Caught = IF n > t THEN n % w ELSE t
    BY <1>4 DEF Caught
  <2>2. n % w \in 0..(w - 1)
    BY <1>4, Remainder
  <2> QED
    BY <1>4, <2>1, <2>2
<1>7. (a + AtLeast0(n - t)) % u \in 0..(u - 1)
  <2>1. PICK x \in Nat : x = a + AtLeast0(n - t)
    BY <1>5
  <2> QED
    BY <1>4, <2>1, Remainder
<1> QED
  BY <1>4, <1>5, <1>6, <1>7

\* Once more on time.
LEMMA StaysOnTime ==
    ASSUME ChannelConstants, NEW c \in ModelsType, NEW t \in TimesType, NEW n \in Nat, t.read <= n,
           OnTime(c, t), NEW ticks \in Nat, NEW gone, gone = AtLeast0(n - c.absTick),
           NEW caught, caught = (IF n > c.absTick THEN n % TickWrap ELSE c.absTick),
           NEW after, NEW next, next = [t EXCEPT !.read = n, !.turned = @ + gone, !.cells = @ + ticks],
           after.absTick = (caught + ticks) % TickWrap, after.angle = (c.angle + gone) % Turn
    PROVE  TimesOK(next, n) /\ OnTime(after, next)
<1>1. PICK m \in Nat, r \in Nat, v \in Nat, k \in Nat :
        t = [made |-> m, read |-> r, turned |-> v, cells |-> k]
  BY DEF TimesType
<1>2. PICK a \in Nat, g \in Nat, w \in Nat, u \in Nat :
        /\ a = c.absTick /\ g = gone /\ w = TickWrap /\ w # 0 /\ a < w /\ u = Turn /\ u # 0
        /\ g = IF n > a THEN n - a ELSE 0
  <2>1. c.absTick \in Nat /\ c.absTick < TickWrap
    BY ChannelNumbers DEF ModelsType
  <2>2. gone = (IF n > c.absTick THEN n - c.absTick ELSE 0) /\ gone \in Nat
    BY <2>1 DEF AtLeast0
  <2> QED
    BY <2>1, <2>2, ChannelNumbers
<1>3. next = [made |-> m, read |-> n, turned |-> v + g, cells |-> k + ticks]
  BY <1>1, <1>2
<1>4. TimesOK(next, n)
  BY <1>3 DEF TimesOK, TimesType
<1>5. ASSUME m + (v + g) + (k + ticks) < w
      PROVE  /\ after.absTick = m + (v + g) + (k + ticks)
             /\ v + g <= n - m /\ n - m - (v + g) <= k + ticks
             /\ after.angle = (v + g) % u
  <2>1. m + v + k < w
    BY <1>5
  <2>2. a = m + v + k /\ v <= r - m /\ r - m - v <= k /\ c.angle = v % u
    BY <1>1, <1>2, <2>1 DEF OnTime
  <2>3. r <= n
    BY <1>1
  <2>4. caught = m + v + k + g
    <3>1. caught = IF n > a THEN n % w ELSE a
      BY <1>2
    <3>2. n > a => n < w
      BY <1>2, <1>5, <2>2
    <3>3. n < w => n % w = n
      BY <1>2, Remainder
    <3> QED
      BY <1>2, <2>2, <3>1, <3>2, <3>3
  <2>5. after.absTick = m + (v + g) + (k + ticks)
    <3>1. PICK x \in Nat : x = m + (v + g) + (k + ticks) /\ x = caught + ticks /\ x < w
      BY <1>5, <2>4
    <3>2. x % w = x
      BY <1>2, <3>1, Remainder
    <3> QED
      BY <1>2, <3>1, <3>2
  <2>6. after.angle = (v + g) % u
    <3>1. ((v % u) + g) % u = (v + g) % u
      BY <1>2, TurnsAdd
    <3> QED
      BY <1>2, <2>2, <3>1
  <2>7. v + g <= n - m /\ n - m - (v + g) <= k + ticks
    BY <1>2, <2>2, <2>3
  <2> QED
    BY <2>5, <2>6, <2>7
<1>6. OnTime(after, next)
  <2>1. next.made = m /\ next.read = n /\ next.turned = v + g /\ next.cells = k + ticks
    <3>1. PICK x, y, z : x = next /\ y = v + g /\ z = k + ticks
      OBVIOUS
    <3>2. x = [made |-> m, read |-> n, turned |-> y, cells |-> z]
      BY <1>3, <3>1
    <3>3. x.made = m /\ x.read = n /\ x.turned = y /\ x.cells = z
      BY <3>2, Zenon
    <3> QED
      BY <3>1, <3>3
  <2>2. OnTime(after, next) <=>
            (m + (v + g) + (k + ticks) < w =>
                /\ after.absTick = m + (v + g) + (k + ticks)
                /\ v + g <= n - m
                /\ n - m - (v + g) <= k + ticks
                /\ after.angle = (v + g) % u)
    BY <1>2, <2>1 DEF OnTime
  <2> QED
    BY <1>5, <2>2
<1> QED
  BY <1>4, <1>6

LEMMA BitNumber ==
    ASSUME NEW byte \in Nat, NEW tick \in Nat
    PROVE  (byte \div 2^(tick % 8)) % 2 \in 0..1
<1>1. PICK k : k = tick % 8 /\ k \in 0..7
  OBVIOUS
<1>2. 2^k \in {1, 2, 4, 8, 16, 32, 64, 128}
  <2>1. CASE k = 0
    BY <2>1
  <2>2. CASE k = 1
    BY <2>2
  <2>3. CASE k = 2
    BY <2>3
  <2>4. CASE k = 3
    BY <2>4
  <2>5. CASE k = 4
    BY <2>5
  <2>6. CASE k = 5
    BY <2>6
  <2>7. CASE k = 6
    BY <2>7
  <2>8. CASE k = 7
    BY <2>8
  <2> QED
    BY <1>1, <2>1, <2>2, <2>3, <2>4, <2>5, <2>6, <2>7, <2>8
<1>3. \A m \in {1, 2, 4, 8, 16, 32, 64, 128} : (byte \div m) % 2 \in 0..1
  <2> TAKE m \in {1, 2, 4, 8, 16, 32, 64, 128}
  <2>1. byte \div m \in Nat
    <3>1. m \in Nat /\ m # 0
      OBVIOUS
    <3> QED
      BY <3>1, Quotient
  <2> DEFINE q == byte \div m
  <2> HIDE DEF q
  <2>2. q \in Nat => q % 2 \in 0..1
    OBVIOUS
  <2> QED
    BY <2>1, <2>2 DEF q
<1> QED
  BY <1>1, <1>2, <1>3

LEMMA SampledKeeps ==
    ASSUME ChannelConstants, ChannelInv, ~ stuck, NEW track, Reachable(track),
           NEW content \in Reading.contents, content # <<>>, NEW draw \in Reading.draws,
           NEW bucket \in Reading.buckets, NEW noise \in Reading.noises,
           Sampled(track, content, draw, bucket, noise)
    PROVE  /\ ModelsOK(Reading, channel') /\ SampleOK(sample') /\ TimesOK(times', now)
           /\ OnTime(channel', times') /\ NoneMissed(channel'.flux, times')
           /\ times'.cells < AccWrap => InWeak(channel'.absTick) \/ sample'.edge
<1>1. unit \in DOMAIN Readers
  BY DEF ChannelInv
<1>2. bucket \in 0..63 /\ noise \in 0..31 /\ content \in Seq(0..255)
  BY <1>1, ReaderFits DEF ReaderOK
<1>3. PICK c \in ModelsType : c = Channel
  BY ModelsFound DEF ModelsOK
<1>4. /\ c.level4 \in BOOLEAN /\ c.relock \in 0..MaxRelock /\ c.phaseErr \in Int /\ c.flux \in FluxType
      /\ (c.level4 /\ Quiet(Reading) => LockedAt(c.phaseErr))
  BY <1>3, ModelsFound DEF ModelsType, ModelsOK
<1>5. PICK zone \in 0..3 : zone = Zone(track)
  BY ZoneNumber
<1>6. PICK ticks \in Nat, plain \in Nat, relock \in 0..MaxRelock :
        /\ ticks = CellTicks(c, zone, draw, bucket) /\ ticks >= 11
        /\ plain = PlainTicks(c, zone, draw) /\ relock = RelockAfter(c, draw)
  BY <1>1, <1>2, <1>4, CellsAreLong
<1>7. PICK tick : tick = (Caught + ticks) % TickWrap /\ tick \in 0..(TickWrap - 1)
  <2>1. PICK x \in Nat, w \in Nat : x = Caught + ticks /\ w = TickWrap /\ w # 0
    BY CaughtUp, ChannelNumbers
  <2>2. x % w \in 0..(w - 1)
    BY <2>1, Remainder
  <2> QED
    BY <2>1, <2>2
<1>8. PICK err : err = IF c.level4 THEN PhaseErrAfter(c, plain, zone, bucket) ELSE c.phaseErr
  OBVIOUS
<1>9. err \in Int /\ (c.level4 /\ Quiet(Reading) => LockedAt(err))
  <2>1. /\ PhaseErrAfter(c, plain, zone, bucket) \in Int
        /\ Quiet(Reading) /\ LockedAt(c.phaseErr) => LockedAt(PhaseErrAfter(c, plain, zone, bucket))
    BY <1>1, <1>2, <1>4, LoopStaysLocked
  <2> QED
    BY <1>4, <1>8, <2>1
<1>10. PICK flux : /\ flux = FluxAfter(c.flux, ticks, tick, noise) /\ flux \in FluxType
                   /\ EdgeSeen(c.flux, ticks, tick, noise) \in BOOLEAN
  <2>1. PICK f \in FluxType : f = c.flux
    BY <1>4
  <2> QED
    BY <1>2, <1>6, <2>1, FluxKeeps
<1>11. PICK angle : angle = (c.angle + Elapsed) % Turn /\ angle \in 0..(Turn - 1)
  BY <1>3, CaughtUp
<1>12. /\ channel' = [level4 |-> c.level4, head |-> TargetHalf(track), angle |-> angle,
                      relock |-> relock, phaseErr |-> err, absTick |-> tick, flux |-> flux]
       /\ sample'.byte = Byte1(content) /\ sample'.bit = (Byte1(content) \div 2^(tick % 8)) % 2
       /\ sample'.edge = EdgeSeen(c.flux, ticks, tick, noise)
       /\ times' = [Times EXCEPT !.read = now, !.turned = @ + Elapsed, !.cells = @ + ticks]
  BY <1>3, <1>5, <1>6, <1>7, <1>8, <1>10, <1>11 DEF Sampled
<1>13. ModelsOK(Reading, channel')
  <2>1. TargetHalf(track) \in 2..84
    BY DEF Reachable
  <2>2. PICK n : n = channel'
    OBVIOUS
  <2>3. n \in ModelsType /\ n.level4 = c.level4 /\ n.phaseErr = err
    BY <1>4, <1>6, <1>7, <1>9, <1>10, <1>11, <1>12, <2>1, <2>2 DEF ModelsType
  <2>4. ModelsOK(Reading, n)
    BY <1>9, <2>3 DEF ModelsOK
  <2> QED
    BY <2>2, <2>4
<1>14. SampleOK(sample')
  <2>1. PICK byte \in 0..255 : byte = Byte1(content)
    BY <1>2, ByteComesBack
  <2>2. tick \in Nat
    BY <1>7, ChannelNumbers
  <2>3. (byte \div 2^(tick % 8)) % 2 \in 0..1
    <3>1. byte \in Nat
      OBVIOUS
    <3> QED
      BY <2>2, <3>1, BitNumber, Zenon
  <2> QED
    BY <1>10, <1>12, <2>1, <2>3 DEF SampleOK
<1>15. /\ NoneMissed(channel'.flux, times')
       /\ times'.cells < AccWrap => InWeak(channel'.absTick) \/ sample'.edge
  <2>1. PICK f \in FluxType, t \in TimesType : f = c.flux /\ t = Times /\ NoneMissed(f, t)
    BY <1>3, <1>4, ModelsFound DEF TimesOK
  <2>2. PICK cells \in Nat, acc \in Nat, wrap \in Nat : cells = t.cells /\ acc = f.acc /\ wrap = AccWrap
    BY ChannelNumbers DEF FluxType, TimesType
  <2>3. times'.cells = cells + ticks
    <3>1. times' = [t EXCEPT !.read = now, !.turned = @ + Elapsed, !.cells = @ + ticks]
      BY <1>12, <2>1
    <3>2. PICK x, y : x = now /\ y = t.turned + Elapsed
      OBVIOUS
    <3>3. times' = [made |-> t.made, read |-> x, turned |-> y, cells |-> cells + ticks]
      BY <2>2, <3>1, <3>2 DEF TimesType
    <3>4. PICK n : n = cells + ticks
      OBVIOUS
    <3> QED
      BY <3>3, <3>4
  <2>4. channel'.flux = FluxAfter(f, ticks, tick, noise) /\ channel'.absTick = tick
        /\ sample'.edge = EdgeSeen(f, ticks, tick, noise)
    BY <1>10, <1>12, <2>1
  <2>5. ASSUME cells + ticks < wrap
        PROVE  /\ FluxAfter(f, ticks, tick, noise).acc <= cells + ticks
               /\ FluxAfter(f, ticks, tick, noise).streak = 0
               /\ FluxAfter(f, ticks, tick, noise).window = 0
               /\ InWeak(tick) \/ EdgeSeen(f, ticks, tick, noise)
    <3>1. cells < wrap
      BY <2>5
    <3>2. acc <= cells /\ f.streak = 0 /\ f.window = 0
      BY <2>1, <2>2, <3>1 DEF NoneMissed
    <3>3. acc + ticks < wrap
      BY <2>5, <3>2
    <3>4. f.acc + ticks < AccWrap
      BY <2>2, <3>3
    <3>5. /\ FluxAfter(f, ticks, tick, noise).acc <= acc + ticks
          /\ FluxAfter(f, ticks, tick, noise).streak = 0
          /\ FluxAfter(f, ticks, tick, noise).window = 0
          /\ InWeak(tick) \/ EdgeSeen(f, ticks, tick, noise)
      BY <1>2, <1>6, <2>2, <3>2, <3>4, EdgeNotMissed
    <3>6. PICK flow \in FluxType : flow = FluxAfter(f, ticks, tick, noise)
      BY <1>10, <2>1
    <3>7. flow.acc \in Nat
      BY ChannelNumbers DEF FluxType
    <3>8. flow.acc <= cells + ticks
      BY <3>2, <3>5, <3>6, <3>7
    <3> QED
      BY <3>5, <3>6, <3>8
  <2> QED
    BY <2>2, <2>3, <2>4, <2>5 DEF NoneMissed
<1>16. TimesOK(times', now) /\ OnTime(channel', times')
  <2>1. TimesOK(Times, now) /\ OnTime(c, Times)
    BY <1>3, ModelsFound
  <2>2. PICK t \in TimesType : t = Times /\ OnTime(c, t)
    BY <2>1 DEF TimesOK
  <2>3. PICK n \in Nat : n = now /\ t.read <= n
    <3>1. now \in Nat
      BY <1>1, ReaderFits DEF ReaderOK, ChannelInv
    <3> QED
      BY <2>1, <2>2, <3>1 DEF TimesOK
  <2>4. PICK gone, caught : gone = Elapsed /\ caught = Caught
    OBVIOUS
  <2>5. gone = AtLeast0(n - c.absTick) /\ caught = (IF n > c.absTick THEN n % TickWrap ELSE c.absTick)
    BY <1>3, <2>3, <2>4 DEF Elapsed, Caught
  <2>6. PICK after, next : after = channel' /\ next = times'
    OBVIOUS
  <2>7. /\ next = [t EXCEPT !.read = n, !.turned = @ + gone, !.cells = @ + ticks]
        /\ after.absTick = (caught + ticks) % TickWrap /\ after.angle = (c.angle + gone) % Turn
    BY <1>7, <1>11, <1>12, <2>2, <2>3, <2>4, <2>6
  <2>8. TimesOK(next, n) /\ OnTime(after, next)
    BY <2>2, <2>3, <2>5, <2>7, StaysOnTime
  <2> QED
    BY <2>3, <2>6, <2>8
<1> QED
  BY <1>13, <1>14, <1>15, <1>16

LEMMA ReadKeepsModels ==
    ASSUME ChannelConstants, ChannelInv, NEW track, NEW content \in Reading.contents,
           ReadBlock(track, content)
    PROVE  ChannelInv'
<1>1. ~ stuck /\ content # <<>> /\ made' = TRUE /\ unit' = unit /\ level' = level /\ now' = now
  BY DEF ReadBlock
<1>2. /\ unit' \in DOMAIN Readers /\ level' \in Reading'.levels /\ now' \in 0..Reading'.until
      /\ made' \in BOOLEAN /\ Reading' = Reading
  BY <1>1 DEF ChannelInv, Reading
<1>3. CASE ~ Reachable(track) /\ stuck' = TRUE
  <2>1. /\ channel' = [Channel EXCEPT !.angle = (@ + Elapsed) % Turn, !.absTick = Caught]
        /\ sample' = sample /\ times' = times
    BY <1>3 DEF ReadBlock
  <2>2. PICK c \in ModelsType : c = Channel /\ ModelsOK(Reading, c)
    BY <1>1, ModelsFound DEF ModelsOK
  <2>3. PICK angle \in 0..(Turn - 1), tick \in 0..(TickWrap - 1) :
            angle = (c.angle + Elapsed) % Turn /\ tick = Caught
    BY <1>1, <2>2, CaughtUp
  <2>4. PICK n : n = channel'
    OBVIOUS
  <2>5. n = [c EXCEPT !.angle = angle, !.absTick = tick]
    BY <2>1, <2>2, <2>3, <2>4
  <2>6. n \in ModelsType /\ n.level4 = c.level4 /\ n.phaseErr = c.phaseErr
    BY <2>5 DEF ModelsType
  <2>7. ModelsOK(Reading, n)
    BY <2>2, <2>6 DEF ModelsOK
  <2>8. ModelsOK(Reading', channel')
    BY <1>2, <2>4, <2>7
  <2>9. SampleOK(sample') /\ times' \in TimesType /\ stuck' = TRUE
    BY <1>3, <2>1 DEF ChannelInv
  <2> QED
    BY <1>2, <2>8, <2>9 DEF ChannelInv
<1>4. CASE Reachable(track) /\ stuck' = stuck
  <2>1. PICK draw \in Reading.draws, bucket \in Reading.buckets, noise \in Reading.noises :
            Sampled(track, content, draw, bucket, noise)
    BY <1>4 DEF ReadBlock
  <2>2. /\ ModelsOK(Reading, channel') /\ SampleOK(sample') /\ TimesOK(times', now)
        /\ OnTime(channel', times') /\ NoneMissed(channel'.flux, times')
        /\ times'.cells < AccWrap => InWeak(channel'.absTick) \/ sample'.edge
    BY <1>1, <1>4, <2>1, SampledKeeps
  <2>3. times' \in TimesType
    BY <2>2 DEF TimesOK
  <2> QED
    BY <1>1, <1>2, <1>4, <2>2, <2>3 DEF ChannelInv
<1> QED
  BY <1>3, <1>4 DEF ReadBlock

LEMMA OthersKeepModels ==
    ASSUME ChannelConstants, ChannelInv,
           \/ \E n \in Reading.pauses : PassCycles(n)
           \/ \E l \in Reading.levels : SetPhysicalProfile(l)
           \/ ResetChannel
    PROVE  ChannelInv'
<1>1. unit \in DOMAIN Readers /\ ReaderOK(Reading) /\ now \in Nat
  <2>1. unit \in DOMAIN Readers /\ now \in 0..Reading.until
    BY DEF ChannelInv
  <2>2. ReaderOK(Reading)
    BY <2>1, ReaderFits
  <2>3. PICK n \in Nat : n = Reading.until
    BY <2>2 DEF ReaderOK
  <2>4. now \in Nat
    BY <2>1, <2>3
  <2> QED
    BY <2>1, <2>2, <2>4
<1>2. CASE \E n \in Reading.pauses : PassCycles(n)
  <2>1. PICK n \in Nat : PassCycles(n)
    BY <1>1, <1>2 DEF ReaderOK
  <2>2. /\ now' = now + n /\ now + n <= Reading.until
        /\ UNCHANGED <<unit, level, made, channel, sample, stuck, times>>
    BY <2>1 DEF PassCycles
  <2>3. Reading' = Reading /\ now' \in 0..Reading.until
    <3>1. Reading.until \in Nat
      BY <1>1 DEF ReaderOK
    <3> QED
      BY <1>1, <2>2, <3>1 DEF Reading
  <2>4. TimesOK(times, now) => TimesOK(times, now')
    <3>1. PICK m \in Nat : m = now
      BY <1>1
    <3>2. PICK t : t = times
      OBVIOUS
    <3>3. TimesOK(t, m) => TimesOK(t, m + n)
      BY DEF TimesOK, TimesType
    <3> QED
      BY <2>2, <3>1, <3>2, <3>3
  <2> QED
    BY <2>2, <2>3, <2>4 DEF ChannelInv
<1>3. CASE \E l \in Reading.levels : SetPhysicalProfile(l)
  <2>1. level' \in Reading.levels /\ UNCHANGED <<unit, now, made, channel, sample, stuck, times>>
    BY <1>3 DEF SetPhysicalProfile
  <2>2. Reading' = Reading
    BY <2>1 DEF Reading
  <2> QED
    BY <2>1, <2>2 DEF ChannelInv
<1>4. CASE ResetChannel
  <2>1. /\ made' = FALSE /\ now' = 0 /\ channel' = [channel EXCEPT !.absTick = 0]
        /\ sample' = [NoSample EXCEPT !.locked = sample.locked]
        /\ UNCHANGED <<unit, level, stuck, times>>
    BY <1>4 DEF ResetChannel
  <2>2. Reading' = Reading /\ now' \in 0..Reading.until
    BY <1>1, <2>1 DEF Reading, ReaderOK
  <2>3. PICK c \in ModelsType : c = channel /\ ModelsOK(Reading, c)
    BY DEF ChannelInv, ModelsOK
  <2>4. PICK n : n = channel'
    OBVIOUS
  <2>5. n \in ModelsType /\ n.level4 = c.level4 /\ n.phaseErr = c.phaseErr
    <3>1. n = [c EXCEPT !.absTick = 0] /\ 0 \in 0..(TickWrap - 1)
      BY <2>1, <2>3, <2>4, ChannelNumbers
    <3> QED
      BY <3>1 DEF ModelsType
  <2>6. ModelsOK(Reading, n)
    BY <2>3, <2>5 DEF ModelsOK
  <2>7. SampleOK(sample')
    BY <2>1 DEF NoSample, SampleOK
  <2> QED
    BY <2>1, <2>2, <2>3, <2>4, <2>6, <2>7 DEF ChannelInv
<1> QED
  BY <1>2, <1>3, <1>4

LEMMA ChannelSteps ==
    ASSUME ChannelConstants, ChannelInv, [ChannelNext]_channelVars
    PROVE  ChannelInv'
<1>1. CASE UNCHANGED channelVars
  BY <1>1 DEF channelVars, ChannelInv, Reading
<1>2. CASE \E track \in Reading.tracks, content \in Reading.contents : ReadBlock(track, content)
  BY <1>2, ReadKeepsModels
<1> QED
  BY <1>1, <1>2, OthersKeepModels DEF ChannelNext

LEMMA InvariantReads ==
    ASSUME ChannelConstants, ChannelInv
    PROVE  ChannelReads
<1>1. unit \in DOMAIN Readers /\ channel \in ModelsType /\ channel.flux \in FluxType
  BY DEF ChannelInv, ModelsOK, ModelsType
<1>2. ChannelTypeOK
  <2>1. /\ unit \in DOMAIN Readers /\ level \in Reading.levels /\ now \in 0..Reading.until
        /\ made \in BOOLEAN /\ stuck \in BOOLEAN
        /\ sample.byte \in 0..255 /\ sample.bit \in 0..1 /\ sample.edge \in BOOLEAN
    BY DEF ChannelInv, SampleOK
  <2>2. /\ channel.level4 \in BOOLEAN /\ channel.head \in 2..84 /\ channel.angle \in 0..(Turn - 1)
        /\ channel.relock \in 0..MaxRelock /\ channel.absTick \in 0..(TickWrap - 1)
    BY <1>1 DEF ModelsType
  <2>3. PICK f \in FluxType : f = channel.flux
    BY <1>1
  <2>4. /\ f.cursor \in 0..(Len(Deltas) - 1) /\ f.acc \in 0..(AccWrap - 1)
        /\ f.streak \in 0..MaxStreak /\ f.window \in 0..7
    BY ChannelNumbers DEF FluxType
  <2> QED
    BY <2>1, <2>2, <2>3, <2>4 DEF ChannelTypeOK
<1>3. StaysLocked
  BY DEF ChannelInv, ModelsOK, Quiet, StaysLocked
<1>4. EdgesKept
  BY DEF ChannelInv, NoneMissed, EdgesKept
<1>5. SpindleInTime
  BY DEF ChannelInv, OnTime, SpindleInTime
<1>6. CodecRealigns
  BY <1>1, EveryContent
<1> QED
  BY <1>2, <1>3, <1>4, <1>5, <1>6 DEF ChannelReads

\* Read channel: in every drive, for every track and whatever chance does, the loop stays
\* locked and what follows a mark is decoded whole; until the ticks do not fit their width, the
\* spindle keeps the drive's time and no edge is missed.
THEOREM ChannelCorrect ==
    ASSUME ChannelConstants
    PROVE  ChannelSpec => []ChannelReads
<1>1. ChannelInit => ChannelInv
  BY ChannelStarts
<1>2. ChannelInv /\ [ChannelNext]_channelVars => ChannelInv'
  BY ChannelSteps
<1>3. ChannelInv => ChannelReads
  BY InvariantReads
<1> QED
  BY <1>1, <1>2, <1>3, PTL DEF ChannelSpec

-----------------------------------------------------------------------------
(* The drive's processor: what the switch of the engine makes of an        *)
(* opcode, by the table's rows, and the columns of the instruction set.    *)

AddressModes == {"imm", "zp", "zpx", "zpy", "abs", "absx", "absy", "indx", "indy"}
NotSpecial(b) == ~IsBranch(b) /\ b \notin {76, 32, 108, 0, 96, 64}
Plain(b, m) == b \in Bytes256 /\ m \in AddressModes /\ LengthOf(b) = Length(m) /\ NotSpecial(b)

LEMMA PlainNOP == ASSUME NEW c \in NOP PROVE Plain(c[1], c[2])
BY DEF NOP, Plain, NotSpecial, IsBranch, AddressModes, LengthOf, Length, Column, OddBlock, Bytes256

LEMMA PlainLDA == ASSUME NEW c \in LDA PROVE Plain(c[1], c[2])
BY DEF LDA, Plain, NotSpecial, IsBranch, AddressModes, LengthOf, Length, Column, OddBlock, Bytes256

LEMMA PlainLDX == ASSUME NEW c \in LDX PROVE Plain(c[1], c[2])
BY DEF LDX, Plain, NotSpecial, IsBranch, AddressModes, LengthOf, Length, Column, OddBlock, Bytes256

LEMMA PlainLAX == ASSUME NEW c \in LAX PROVE Plain(c[1], c[2])
BY DEF LAX, Plain, NotSpecial, IsBranch, AddressModes, LengthOf, Length, Column, OddBlock, Bytes256

LEMMA PlainLDY == ASSUME NEW c \in LDY PROVE Plain(c[1], c[2])
BY DEF LDY, Plain, NotSpecial, IsBranch, AddressModes, LengthOf, Length, Column, OddBlock, Bytes256

LEMMA PlainSTA == ASSUME NEW c \in STA PROVE Plain(c[1], c[2])
BY DEF STA, Plain, NotSpecial, IsBranch, AddressModes, LengthOf, Length, Column, OddBlock, Bytes256

LEMMA PlainSAX == ASSUME NEW c \in SAX PROVE Plain(c[1], c[2])
BY DEF SAX, Plain, NotSpecial, IsBranch, AddressModes, LengthOf, Length, Column, OddBlock, Bytes256

LEMMA PlainSTX == ASSUME NEW c \in STX PROVE Plain(c[1], c[2])
BY DEF STX, Plain, NotSpecial, IsBranch, AddressModes, LengthOf, Length, Column, OddBlock, Bytes256

LEMMA PlainSTY == ASSUME NEW c \in STY PROVE Plain(c[1], c[2])
BY DEF STY, Plain, NotSpecial, IsBranch, AddressModes, LengthOf, Length, Column, OddBlock, Bytes256

LEMMA PlainORA == ASSUME NEW c \in ORA PROVE Plain(c[1], c[2])
BY DEF ORA, Plain, NotSpecial, IsBranch, AddressModes, LengthOf, Length, Column, OddBlock, Bytes256

LEMMA PlainAND == ASSUME NEW c \in AND PROVE Plain(c[1], c[2])
BY DEF AND, Plain, NotSpecial, IsBranch, AddressModes, LengthOf, Length, Column, OddBlock, Bytes256

LEMMA PlainANC == ASSUME NEW c \in ANC PROVE Plain(c[1], c[2])
BY DEF ANC, Plain, NotSpecial, IsBranch, AddressModes, LengthOf, Length, Column, OddBlock, Bytes256

LEMMA PlainEOR == ASSUME NEW c \in EOR PROVE Plain(c[1], c[2])
BY DEF EOR, Plain, NotSpecial, IsBranch, AddressModes, LengthOf, Length, Column, OddBlock, Bytes256

LEMMA PlainCMP == ASSUME NEW c \in CMP PROVE Plain(c[1], c[2])
BY DEF CMP, Plain, NotSpecial, IsBranch, AddressModes, LengthOf, Length, Column, OddBlock, Bytes256

LEMMA PlainCPX == ASSUME NEW c \in CPX PROVE Plain(c[1], c[2])
BY DEF CPX, Plain, NotSpecial, IsBranch, AddressModes, LengthOf, Length, Column, OddBlock, Bytes256

LEMMA PlainSBX == ASSUME NEW c \in SBX PROVE Plain(c[1], c[2])
BY DEF SBX, Plain, NotSpecial, IsBranch, AddressModes, LengthOf, Length, Column, OddBlock, Bytes256

LEMMA PlainCPY == ASSUME NEW c \in CPY PROVE Plain(c[1], c[2])
BY DEF CPY, Plain, NotSpecial, IsBranch, AddressModes, LengthOf, Length, Column, OddBlock, Bytes256

LEMMA PlainASL == ASSUME NEW c \in ASL PROVE Plain(c[1], c[2])
BY DEF ASL, Plain, NotSpecial, IsBranch, AddressModes, LengthOf, Length, Column, OddBlock, Bytes256

LEMMA PlainSLO == ASSUME NEW c \in SLO PROVE Plain(c[1], c[2])
BY DEF SLO, Plain, NotSpecial, IsBranch, AddressModes, LengthOf, Length, Column, OddBlock, Bytes256

LEMMA PlainLSR == ASSUME NEW c \in LSR PROVE Plain(c[1], c[2])
BY DEF LSR, Plain, NotSpecial, IsBranch, AddressModes, LengthOf, Length, Column, OddBlock, Bytes256

LEMMA PlainALR == ASSUME NEW c \in ALR PROVE Plain(c[1], c[2])
BY DEF ALR, Plain, NotSpecial, IsBranch, AddressModes, LengthOf, Length, Column, OddBlock, Bytes256

LEMMA PlainSRE == ASSUME NEW c \in SRE PROVE Plain(c[1], c[2])
BY DEF SRE, Plain, NotSpecial, IsBranch, AddressModes, LengthOf, Length, Column, OddBlock, Bytes256

LEMMA PlainROL == ASSUME NEW c \in ROL PROVE Plain(c[1], c[2])
BY DEF ROL, Plain, NotSpecial, IsBranch, AddressModes, LengthOf, Length, Column, OddBlock, Bytes256

LEMMA PlainRLA == ASSUME NEW c \in RLA PROVE Plain(c[1], c[2])
BY DEF RLA, Plain, NotSpecial, IsBranch, AddressModes, LengthOf, Length, Column, OddBlock, Bytes256

LEMMA PlainROR == ASSUME NEW c \in ROR PROVE Plain(c[1], c[2])
BY DEF ROR, Plain, NotSpecial, IsBranch, AddressModes, LengthOf, Length, Column, OddBlock, Bytes256

LEMMA PlainARR == ASSUME NEW c \in ARR PROVE Plain(c[1], c[2])
BY DEF ARR, Plain, NotSpecial, IsBranch, AddressModes, LengthOf, Length, Column, OddBlock, Bytes256

LEMMA PlainRRA == ASSUME NEW c \in RRA PROVE Plain(c[1], c[2])
BY DEF RRA, Plain, NotSpecial, IsBranch, AddressModes, LengthOf, Length, Column, OddBlock, Bytes256

LEMMA PlainINC == ASSUME NEW c \in INC PROVE Plain(c[1], c[2])
BY DEF INC, Plain, NotSpecial, IsBranch, AddressModes, LengthOf, Length, Column, OddBlock, Bytes256

LEMMA PlainISC == ASSUME NEW c \in ISC PROVE Plain(c[1], c[2])
BY DEF ISC, Plain, NotSpecial, IsBranch, AddressModes, LengthOf, Length, Column, OddBlock, Bytes256

LEMMA PlainDEC == ASSUME NEW c \in DEC PROVE Plain(c[1], c[2])
BY DEF DEC, Plain, NotSpecial, IsBranch, AddressModes, LengthOf, Length, Column, OddBlock, Bytes256

LEMMA PlainDCP == ASSUME NEW c \in DCP PROVE Plain(c[1], c[2])
BY DEF DCP, Plain, NotSpecial, IsBranch, AddressModes, LengthOf, Length, Column, OddBlock, Bytes256

LEMMA PlainADC == ASSUME NEW c \in ADC PROVE Plain(c[1], c[2])
BY DEF ADC, Plain, NotSpecial, IsBranch, AddressModes, LengthOf, Length, Column, OddBlock, Bytes256

LEMMA PlainSBC == ASSUME NEW c \in SBC PROVE Plain(c[1], c[2])
BY DEF SBC, Plain, NotSpecial, IsBranch, AddressModes, LengthOf, Length, Column, OddBlock, Bytes256

LEMMA PlainBIT == ASSUME NEW c \in BIT PROVE Plain(c[1], c[2])
BY DEF BIT, Plain, NotSpecial, IsBranch, AddressModes, LengthOf, Length, Column, OddBlock, Bytes256

LEMMA PlainKinds ==
    ASSUME NEW o \in DOMAIN Kinds \ Jumps, NEW c \in Kinds[o]
    PROVE  Plain(c[1], c[2])
<1>1. ASSUME o = "NOP" PROVE Plain(c[1], c[2])
  <2>1. Kinds[o] = NOP
    BY <1>1 DEF Kinds
  <2> QED
    BY <2>1, PlainNOP
<1>2. ASSUME o = "LDA" PROVE Plain(c[1], c[2])
  <2>1. Kinds[o] = LDA
    BY <1>2 DEF Kinds
  <2> QED
    BY <2>1, PlainLDA
<1>3. ASSUME o = "LDX" PROVE Plain(c[1], c[2])
  <2>1. Kinds[o] = LDX
    BY <1>3 DEF Kinds
  <2> QED
    BY <2>1, PlainLDX
<1>4. ASSUME o = "LAX" PROVE Plain(c[1], c[2])
  <2>1. Kinds[o] = LAX
    BY <1>4 DEF Kinds
  <2> QED
    BY <2>1, PlainLAX
<1>5. ASSUME o = "LDY" PROVE Plain(c[1], c[2])
  <2>1. Kinds[o] = LDY
    BY <1>5 DEF Kinds
  <2> QED
    BY <2>1, PlainLDY
<1>6. ASSUME o = "STA" PROVE Plain(c[1], c[2])
  <2>1. Kinds[o] = STA
    BY <1>6 DEF Kinds
  <2> QED
    BY <2>1, PlainSTA
<1>7. ASSUME o = "SAX" PROVE Plain(c[1], c[2])
  <2>1. Kinds[o] = SAX
    BY <1>7 DEF Kinds
  <2> QED
    BY <2>1, PlainSAX
<1>8. ASSUME o = "STX" PROVE Plain(c[1], c[2])
  <2>1. Kinds[o] = STX
    BY <1>8 DEF Kinds
  <2> QED
    BY <2>1, PlainSTX
<1>9. ASSUME o = "STY" PROVE Plain(c[1], c[2])
  <2>1. Kinds[o] = STY
    BY <1>9 DEF Kinds
  <2> QED
    BY <2>1, PlainSTY
<1>10. ASSUME o = "ORA" PROVE Plain(c[1], c[2])
  <2>1. Kinds[o] = ORA
    BY <1>10 DEF Kinds
  <2> QED
    BY <2>1, PlainORA
<1>11. ASSUME o = "AND" PROVE Plain(c[1], c[2])
  <2>1. Kinds[o] = AND
    BY <1>11 DEF Kinds
  <2> QED
    BY <2>1, PlainAND
<1>12. ASSUME o = "ANC" PROVE Plain(c[1], c[2])
  <2>1. Kinds[o] = ANC
    BY <1>12 DEF Kinds
  <2> QED
    BY <2>1, PlainANC
<1>13. ASSUME o = "EOR" PROVE Plain(c[1], c[2])
  <2>1. Kinds[o] = EOR
    BY <1>13 DEF Kinds
  <2> QED
    BY <2>1, PlainEOR
<1>14. ASSUME o = "CMP" PROVE Plain(c[1], c[2])
  <2>1. Kinds[o] = CMP
    BY <1>14 DEF Kinds
  <2> QED
    BY <2>1, PlainCMP
<1>15. ASSUME o = "CPX" PROVE Plain(c[1], c[2])
  <2>1. Kinds[o] = CPX
    BY <1>15 DEF Kinds
  <2> QED
    BY <2>1, PlainCPX
<1>16. ASSUME o = "SBX" PROVE Plain(c[1], c[2])
  <2>1. Kinds[o] = SBX
    BY <1>16 DEF Kinds
  <2> QED
    BY <2>1, PlainSBX
<1>17. ASSUME o = "CPY" PROVE Plain(c[1], c[2])
  <2>1. Kinds[o] = CPY
    BY <1>17 DEF Kinds
  <2> QED
    BY <2>1, PlainCPY
<1>18. ASSUME o = "ASL" PROVE Plain(c[1], c[2])
  <2>1. Kinds[o] = ASL
    BY <1>18 DEF Kinds
  <2> QED
    BY <2>1, PlainASL
<1>19. ASSUME o = "SLO" PROVE Plain(c[1], c[2])
  <2>1. Kinds[o] = SLO
    BY <1>19 DEF Kinds
  <2> QED
    BY <2>1, PlainSLO
<1>20. ASSUME o = "LSR" PROVE Plain(c[1], c[2])
  <2>1. Kinds[o] = LSR
    BY <1>20 DEF Kinds
  <2> QED
    BY <2>1, PlainLSR
<1>21. ASSUME o = "ALR" PROVE Plain(c[1], c[2])
  <2>1. Kinds[o] = ALR
    BY <1>21 DEF Kinds
  <2> QED
    BY <2>1, PlainALR
<1>22. ASSUME o = "SRE" PROVE Plain(c[1], c[2])
  <2>1. Kinds[o] = SRE
    BY <1>22 DEF Kinds
  <2> QED
    BY <2>1, PlainSRE
<1>23. ASSUME o = "ROL" PROVE Plain(c[1], c[2])
  <2>1. Kinds[o] = ROL
    BY <1>23 DEF Kinds
  <2> QED
    BY <2>1, PlainROL
<1>24. ASSUME o = "RLA" PROVE Plain(c[1], c[2])
  <2>1. Kinds[o] = RLA
    BY <1>24 DEF Kinds
  <2> QED
    BY <2>1, PlainRLA
<1>25. ASSUME o = "ROR" PROVE Plain(c[1], c[2])
  <2>1. Kinds[o] = ROR
    BY <1>25 DEF Kinds
  <2> QED
    BY <2>1, PlainROR
<1>26. ASSUME o = "ARR" PROVE Plain(c[1], c[2])
  <2>1. Kinds[o] = ARR
    BY <1>26 DEF Kinds
  <2> QED
    BY <2>1, PlainARR
<1>27. ASSUME o = "RRA" PROVE Plain(c[1], c[2])
  <2>1. Kinds[o] = RRA
    BY <1>27 DEF Kinds
  <2> QED
    BY <2>1, PlainRRA
<1>28. ASSUME o = "INC" PROVE Plain(c[1], c[2])
  <2>1. Kinds[o] = INC
    BY <1>28 DEF Kinds
  <2> QED
    BY <2>1, PlainINC
<1>29. ASSUME o = "ISC" PROVE Plain(c[1], c[2])
  <2>1. Kinds[o] = ISC
    BY <1>29 DEF Kinds
  <2> QED
    BY <2>1, PlainISC
<1>30. ASSUME o = "DEC" PROVE Plain(c[1], c[2])
  <2>1. Kinds[o] = DEC
    BY <1>30 DEF Kinds
  <2> QED
    BY <2>1, PlainDEC
<1>31. ASSUME o = "DCP" PROVE Plain(c[1], c[2])
  <2>1. Kinds[o] = DCP
    BY <1>31 DEF Kinds
  <2> QED
    BY <2>1, PlainDCP
<1>32. ASSUME o = "ADC" PROVE Plain(c[1], c[2])
  <2>1. Kinds[o] = ADC
    BY <1>32 DEF Kinds
  <2> QED
    BY <2>1, PlainADC
<1>33. ASSUME o = "SBC" PROVE Plain(c[1], c[2])
  <2>1. Kinds[o] = SBC
    BY <1>33 DEF Kinds
  <2> QED
    BY <2>1, PlainSBC
<1>34. ASSUME o = "BIT" PROVE Plain(c[1], c[2])
  <2>1. Kinds[o] = BIT
    BY <1>34 DEF Kinds
  <2> QED
    BY <2>1, PlainBIT
<1> QED
  BY <1>1, <1>2, <1>3, <1>4, <1>5, <1>6, <1>7, <1>8, <1>9, <1>10, <1>11, <1>12, <1>13, <1>14, <1>15, <1>16, <1>17, <1>18, <1>19, <1>20, <1>21, <1>22, <1>23, <1>24, <1>25, <1>26, <1>27, <1>28, <1>29, <1>30, <1>31, <1>32, <1>33, <1>34 DEF Kinds, Jumps

Jump(b, o, m) ==
    \/ b = 76 /\ o = "JMP" /\ m = "abs"
    \/ b = 108 /\ o = "JMP" /\ m = "ind"
    \/ b = 32 /\ o = "JSR" /\ m = "abs"
    \/ b = 0 /\ o = "BRK" /\ m = "one"
    \/ b = 96 /\ o = "RTS" /\ m = "one"
    \/ b = 64 /\ o = "RTI" /\ m = "one"
OneOps == {"SEI", "CLI", "CLD", "SED", "CLC", "SEC", "TAX", "TAY", "TXA", "TYA", "TSX", "TXS",
           "INX", "INY", "DEX", "DEY", "CLV", "ASL", "LSR", "ROL", "ROR", "NOP"}
Single(b, o, m) ==
    /\ b \in Bytes256 /\ m = "one" /\ LengthOf(b) = 1 /\ NotSpecial(b)
    /\ o \in OneOps \cup Stacks
Branch(b, o, m) == m = "rel" /\ <<b, o>> \in Branches

LEMMA JumpKinds ==
    ASSUME NEW o \in {"JMP", "JSR"}, NEW c \in Kinds[o]
    PROVE  Jump(c[1], o, c[2])
<1>1. Kinds["JMP"] = JMP /\ Kinds["JSR"] = JSR
  BY DEF Kinds
<1> QED
  BY <1>1 DEF JMP, JSR, Jump

LEMMA OneKinds ==
    ASSUME NEW c \in OneByte
    PROVE  Single(c[1], c[2], "one") \/ Jump(c[1], c[2], "one")
<1>1. CASE c \in Returns
  BY <1>1 DEF Returns, Jump
<1>2. CASE c \in Transfers
  BY <1>2 DEF Transfers, Single, OneOps, NotSpecial, IsBranch, LengthOf, Column, OddBlock, Bytes256
<1>3. CASE c \in FlagOps \cup CLV
  BY <1>3 DEF FlagOps, CLV, Single, OneOps, NotSpecial, IsBranch, LengthOf, Column, OddBlock, Bytes256
<1>4. CASE c \in ShiftOnes \cup StackOps
  BY <1>4 DEF ShiftOnes, StackOps, Stacks, Single, OneOps, NotSpecial, IsBranch, LengthOf, Column,
              OddBlock, Bytes256
<1> QED
  BY <1>1, <1>2, <1>3, <1>4 DEF OneByte

LEMMA NopKinds ==
    ASSUME NEW c \in NopOne
    PROVE  Single(c, "NOP", "one")
BY DEF NopOne, Single, OneOps, NotSpecial, IsBranch, LengthOf, Column, OddBlock, Bytes256

LEMMA BranchesAgree ==
    ASSUME NEW b, NEW o, <<b, o>> \in Branches
    PROVE  /\ b \in Bytes256 /\ IsBranch(b) /\ LengthOf(b) = 2
           /\ Taken(o) <=> BranchTaken(b)
<1>1. /\ b \in Bytes256 /\ IsBranch(b) /\ LengthOf(b) = 2
  BY DEF Branches, IsBranch, LengthOf, Column, OddBlock, Bytes256
<1>2. CASE b = 208 /\ o = "BNE" BY <1>1, <1>2 DEF Taken, BranchTaken, BranchOn
<1>3. CASE b = 240 /\ o = "BEQ" BY <1>1, <1>3 DEF Taken, BranchTaken, BranchOn
<1>4. CASE b = 144 /\ o = "BCC" BY <1>1, <1>4 DEF Taken, BranchTaken, BranchOn
<1>5. CASE b = 176 /\ o = "BCS" BY <1>1, <1>5 DEF Taken, BranchTaken, BranchOn
<1>6. CASE b = 16 /\ o = "BPL" BY <1>1, <1>6 DEF Taken, BranchTaken, BranchOn
<1>7. CASE b = 48 /\ o = "BMI" BY <1>1, <1>7 DEF Taken, BranchTaken, BranchOn
<1>8. CASE b = 80 /\ o = "BVC" BY <1>1, <1>8 DEF Taken, BranchTaken, BranchOn
<1>9. CASE b = 112 /\ o = "BVS" BY <1>1, <1>9 DEF Taken, BranchTaken, BranchOn
<1> QED
  BY <1>1, <1>2, <1>3, <1>4, <1>5, <1>6, <1>7, <1>8, <1>9 DEF Branches

PlainOp(b, o, m) == o \in DOMAIN Kinds \ Jumps /\ Plain(b, m)
InTable(b, o, m) == PlainOp(b, o, m) \/ Jump(b, o, m) \/ Single(b, o, m) \/ Branch(b, o, m)

LEMMA CasesListed ==
    ASSUME NEW d \in Cases
    PROVE  InTable(d[1], d[2], d[3])
<1>1. ASSUME NEW o \in DOMAIN Kinds, NEW c \in Kinds[o], d = <<c[1], o, c[2]>>
      PROVE  InTable(d[1], d[2], d[3])
  <2>1. CASE o \in {"JMP", "JSR"}
    BY <1>1, <2>1, JumpKinds DEF InTable
  <2>2. CASE o \notin {"JMP", "JSR"}
    <3>1. o \notin Jumps
      BY <2>2 DEF Kinds, Jumps
    <3> QED
      BY <1>1, <3>1, PlainKinds DEF InTable, PlainOp
  <2> QED
    BY <2>1, <2>2
<1>2. ASSUME NEW c \in OneByte, d = <<c[1], c[2], "one">>
      PROVE  InTable(d[1], d[2], d[3])
  BY <1>2, OneKinds DEF InTable
<1>3. ASSUME NEW c \in NopOne, d = <<c, "NOP", "one">>
      PROVE  InTable(d[1], d[2], d[3])
  BY <1>3, NopKinds DEF InTable
<1>4. ASSUME NEW c \in Branches, d = <<c[1], c[2], "rel">>
      PROVE  InTable(d[1], d[2], d[3])
  BY <1>4 DEF InTable, Branch, Branches
<1> QED
  BY <1>1, <1>2, <1>3, <1>4 DEF Cases

\* What the engine makes of an opcode is one of the cases of its switch.
LEMMA CaseIs ==
    ASSUME NEW b \in Handled
    PROVE  InTable(b, CaseOf[b][1], CaseOf[b][2])
<1>1. PICK d \in Cases : d[1] = b
  BY DEF Handled
<1> DEFINE c == CHOOSE d1 \in Cases : d1[1] = b
<1>2. c \in Cases /\ c[1] = b
  BY <1>1
<1>3. CaseOf[b] = <<c[2], c[3]>>
  BY DEF CaseOf
<1> QED
  BY <1>2, <1>3, CasesListed

-----------------------------------------------------------------------------
(* Bytes and flags.                                                        *)

LEMMA FromBitsIsByte ==
    ASSUME NEW S
    PROVE  FromBits(S) \in Bytes256
BY DEF FromBits, Worth, BitWeights, Bytes256

LEMMA BitwiseIsByte ==
    ASSUME NEW v, NEW w
    PROVE  And(v, w) \in Bytes256 /\ Or(v, w) \in Bytes256 /\ Xor(v, w) \in Bytes256
BY FromBitsIsByte DEF And, Or, Xor

LEMMA NamesOfFlags ==
    /\ \A n \in 1..8 : FlagNames[n] \in StatusFlags
    /\ \A n, k \in 1..8 : FlagNames[n] = FlagNames[k] => n = k
    /\ FlagNames[8] = "N" /\ FlagNames[7] = "V"
<1>1. \A n, k \in 1..8 : FlagNames[n] = FlagNames[k] => n = k
  BY DEF FlagNames
<1>2. FlagNames[8] = "N" /\ FlagNames[7] = "V"
  BY DEF FlagNames
<1> QED
  BY <1>1, <1>2 DEF StatusFlags

LEMMA FlagsInAreFlags ==
    ASSUME NEW v
    PROVE  FlagsIn(v) \in SUBSET StatusFlags
BY DEF FlagsIn, StatusFlags, BitsOf

\* The sign of a byte is its highest bit.
LEMMA SignIs ==
    ASSUME NEW v \in Bytes256
    PROVE  Bit(v, "N") <=> v >= 128
<1>1. Bit(v, "N") <=> 8 \in BitsOf(v)
  BY NamesOfFlags DEF Bit, FlagsIn, BitsOf
<1>2. BitWeights[8] = 128
  BY DEF BitWeights
<1> QED
  BY <1>1, <1>2 DEF BitsOf, Bytes256

LEMMA BitsFromBits ==
    ASSUME NEW S \in SUBSET (1..8)
    PROVE  BitsOf(FromBits(S)) = S
<1> DEFINE w(n) == IF n \in S THEN 1 ELSE 0
<1> DEFINE v == w(1) + 2 * w(2) + 4 * w(3) + 8 * w(4) + 16 * w(5) + 32 * w(6) + 64 * w(7) + 128 * w(8)
<1>1. FromBits(S) = v
  BY DEF FromBits, Worth, BitWeights
<1>2. \A n \in 1..8 : (v \div BitWeights[n]) % 2 = w(n)
  <2>1. (v \div 1) % 2 = w(1) /\ (v \div 2) % 2 = w(2)
    OBVIOUS
  <2>2. (v \div 4) % 2 = w(3) /\ (v \div 8) % 2 = w(4)
    OBVIOUS
  <2>3. (v \div 16) % 2 = w(5) /\ (v \div 32) % 2 = w(6)
    OBVIOUS
  <2>4. (v \div 64) % 2 = w(7) /\ (v \div 128) % 2 = w(8)
    OBVIOUS
  <2> HIDE DEF v, w
  <2> QED
    BY <2>1, <2>2, <2>3, <2>4 DEF BitWeights
<1>3. \A n \in 1..8 : w(n) = 1 <=> n \in S
  OBVIOUS
<1>4. BitsOf(v) = S
  <2> HIDE DEF v, w
  <2>1. \A n \in 1..8 : (v \div BitWeights[n]) % 2 = 1 <=> n \in S
    BY <1>2, <1>3
  <2> QED
    BY <2>1 DEF BitsOf
<1> QED
  BY <1>1, <1>4

\* A status byte gives back the flags it was made of.
LEMMA FlagsComeBack ==
    ASSUME NEW p \in SUBSET StatusFlags
    PROVE  FlagsIn(FlagByte(p)) = p /\ FlagByte(p) \in Bytes256
<1> DEFINE S == {n \in 1..8 : FlagNames[n] \in p}
<1>1. BitsOf(FlagByte(p)) = S
  BY BitsFromBits DEF FlagByte
<1>2. FlagsIn(FlagByte(p)) = {FlagNames[n] : n \in S}
  BY <1>1 DEF FlagsIn
<1>3. {FlagNames[n] : n \in S} = p
  BY DEF StatusFlags
<1> QED
  BY <1>2, <1>3, FromBitsIsByte DEF FlagByte

-----------------------------------------------------------------------------
(* What operations do to registers.                                        *)

LoadOps == {"NOP", "LDA", "LDX", "LDY", "LAX", "ORA", "AND", "ANC", "EOR", "CMP", "CPX", "CPY", "ADC",
            "SBC", "BIT", "ALR", "ARR", "SBX"}
ModifyOps == {"ASL", "SLO", "LSR", "SRE", "ROL", "RLA", "ROR", "RRA", "INC", "ISC", "DEC", "DCP"}

LEMMA OpsListed == ReadOps = LoadOps /\ Modifies = ModifyOps
BY DEF ReadOps, LoadOps, Modifies, ModifyOps, Kinds, Stores, Jumps, ShiftOf

LEMMA SetFlagIsFlags ==
    ASSUME NEW p \in SUBSET StatusFlags, NEW f \in StatusFlags, NEW on
    PROVE  SetFlag(p, f, on) \in SUBSET StatusFlags
BY DEF SetFlag

LEMMA FlagsAreFlags == {"C", "Z", "I", "D", "B", "U", "V", "N"} \subseteq StatusFlags
<1>1. \A n \in 1..8 : FlagNames[n] \in StatusFlags
  BY DEF StatusFlags
<1>2. /\ FlagNames[1] = "C" /\ FlagNames[2] = "Z" /\ FlagNames[3] = "I" /\ FlagNames[4] = "D"
      /\ FlagNames[5] = "B" /\ FlagNames[6] = "U" /\ FlagNames[7] = "V" /\ FlagNames[8] = "N"
  BY DEF FlagNames
<1> QED
  BY <1>1, <1>2

LEMMA ZNIsFlags ==
    ASSUME NEW p \in SUBSET StatusFlags, NEW v
    PROVE  ZN(p, v) \in SUBSET StatusFlags
BY SetFlagIsFlags, FlagsAreFlags DEF ZN

LEMMA CompareIsFlags ==
    ASSUME NEW p \in SUBSET StatusFlags, NEW l, NEW v
    PROVE  CompareFlags(p, l, v) \in SUBSET StatusFlags
BY SetFlagIsFlags, ZNIsFlags, FlagsAreFlags DEF CompareFlags

LEMMA OfByteIsByte ==
    ASSUME NEW n \in Nat
    PROVE  OfByte(n) \in Bytes256
BY DEF OfByte, Bytes256

LEMMA InRegister ==
    ASSUME NEW r \in RegisterFiles, NEW v \in Bytes256
    PROVE  InA(r, v) \in RegisterFiles /\ InX(r, v) \in RegisterFiles /\ InY(r, v) \in RegisterFiles
BY ZNIsFlags DEF InA, InX, InY, RegisterFiles

LEMMA NewFlags ==
    ASSUME NEW r \in RegisterFiles, NEW p \in SUBSET StatusFlags
    PROVE  [r EXCEPT !.p = p] \in RegisterFiles
BY DEF RegisterFiles

LEMMA ShiftedIsByte ==
    ASSUME NEW kind \in {"ASL", "LSR", "ROL", "ROR"}, NEW p, NEW v \in Bytes256
    PROVE  Shifted(kind, p, v)[2] \in Bytes256
BY DEF Shifted, OfByte, Carry, Bytes256

LEMMA AdcTyped ==
    ASSUME NEW r \in RegisterFiles, NEW v \in Bytes256
    PROVE  opAdc(r, v) \in RegisterFiles
<1> DEFINE sum == r.a + v + Carry(r.p)
           flags == SetFlag(SetFlag(r.p, "C", sum > 255), "V", AddOverflows(r.a, v, OfByte(sum)))
<1>1. flags \in SUBSET StatusFlags
  BY SetFlagIsFlags, FlagsAreFlags DEF RegisterFiles
<1>2. OfByte(sum) \in Bytes256
  <2>1. r.a \in Nat /\ v \in Nat /\ Carry(r.p) \in Nat
    BY DEF RegisterFiles, Bytes256, Carry
  <2> QED
    BY <2>1, OfByteIsByte
<1>3. [r EXCEPT !.p = flags] \in RegisterFiles
  BY <1>1, NewFlags
<1> QED
  BY <1>2, <1>3, InRegister DEF opAdc

LEMMA SbcTyped ==
    ASSUME NEW r \in RegisterFiles, NEW v \in Bytes256
    PROVE  opSbc(r, v) \in RegisterFiles
<1>1. 255 - v \in Bytes256
  BY DEF Bytes256
<1> QED
  BY <1>1, AdcTyped DEF opSbc

LEMMA CompareTyped ==
    ASSUME NEW r \in RegisterFiles, NEW l, NEW v
    PROVE  opCompare(r, l, v) \in RegisterFiles
<1>1. r.p \in SUBSET StatusFlags
  BY DEF RegisterFiles
<1>2. CompareFlags(r.p, l, v) \in SUBSET StatusFlags
  BY <1>1, CompareIsFlags
<1> QED
  BY <1>2 DEF opCompare, RegisterFiles

LEMMA ShiftTyped ==
    ASSUME NEW kind \in {"ASL", "LSR", "ROL", "ROR"}, NEW r \in RegisterFiles
    PROVE  /\ \A v : ShiftFlags(kind, r.p, v) \in SUBSET StatusFlags
           /\ ShiftA(kind, r) \in RegisterFiles
<1>1. \A v : ShiftFlags(kind, r.p, v) \in SUBSET StatusFlags
  BY SetFlagIsFlags, ZNIsFlags, FlagsAreFlags DEF ShiftFlags, RegisterFiles
<1>2. Shifted(kind, r.p, r.a)[2] \in Bytes256
  BY ShiftedIsByte DEF RegisterFiles
<1> QED
  BY <1>1, <1>2 DEF ShiftA, RegisterFiles

LEMMA ArrTyped ==
    ASSUME NEW r \in RegisterFiles, NEW v
    PROVE  opArr(r, v) \in RegisterFiles
<1> DEFINE n == Shifted("ROR", r.p, And(r.a, v))[2]
           p == ZN(r.p, n)
           q == SetFlag(SetFlag(p, "C", Bit(n, "V")), "V", Bit(n, "V") # Bit(n, "U"))
<1>1. n \in Bytes256
  BY ShiftedIsByte, BitwiseIsByte
<1>2. p \in SUBSET StatusFlags
  BY ZNIsFlags DEF RegisterFiles
<1>3. q \in SUBSET StatusFlags
  BY <1>2, SetFlagIsFlags, FlagsAreFlags
<1>4. opArr(r, v) = [r EXCEPT !.a = n, !.p = q]
  BY DEF opArr
<1> HIDE DEF n, p, q
<1> QED
  BY <1>1, <1>3, <1>4 DEF RegisterFiles

LEMMA SbxTyped ==
    ASSUME NEW r \in RegisterFiles, NEW v \in Bytes256
    PROVE  opSbx(r, v) \in RegisterFiles
<1> DEFINE ax == And(r.a, r.x)
<1>1. ax \in Bytes256
  BY BitwiseIsByte
<1>2. CompareFlags(r.p, ax, v) \in SUBSET StatusFlags
  BY CompareIsFlags DEF RegisterFiles
<1>3. [r EXCEPT !.p = CompareFlags(@, ax, v)] \in RegisterFiles
  BY <1>2 DEF RegisterFiles
<1>4. OfByte(256 + ax - v) \in Bytes256
  <2> HIDE DEF ax
  <2>1. 256 + ax - v \in Nat
    BY <1>1 DEF Bytes256
  <2> QED
    BY <2>1, OfByteIsByte
<1> QED
  BY <1>3, <1>4, InRegister DEF opSbx

LEMMA BitTyped ==
    ASSUME NEW r \in RegisterFiles, NEW v
    PROVE  opBit(r, v) \in RegisterFiles
<1> DEFINE q == SetFlag(SetFlag(SetFlag(r.p, "Z", And(r.a, v) = 0), "N", Bit(v, "N")), "V", Bit(v, "V"))
<1>1. q \in SUBSET StatusFlags
  BY SetFlagIsFlags, FlagsAreFlags DEF RegisterFiles
<1>2. opBit(r, v) = [r EXCEPT !.p = q]
  BY DEF opBit, RegisterFiles
<1> QED
  BY <1>1, <1>2, NewFlags

LEMMA AncTyped ==
    ASSUME NEW n \in RegisterFiles, NEW on
    PROVE  [n EXCEPT !.p = SetFlag(@, "C", on)] \in RegisterFiles
BY SetFlagIsFlags, FlagsAreFlags DEF RegisterFiles

LEMMA LoadingTyped ==
    ASSUME NEW o \in LoadOps, NEW r \in RegisterFiles, NEW v \in Bytes256
    PROVE  Loading(o, r, v) \in RegisterFiles
<1> USE BitwiseIsByte, InRegister
<1>1. CASE o \in {"NOP", "LDA", "LDX", "LDY"}
  BY <1>1 DEF Loading
<1>2. CASE o = "LAX"
  <2>1. [r EXCEPT !.x = v] \in RegisterFiles
    BY DEF RegisterFiles
  <2> QED
    BY <1>2, <2>1 DEF Loading
<1>3. CASE o \in {"ORA", "AND", "EOR"}
  BY <1>3 DEF Loading
<1>4. CASE o = "ANC"
  BY <1>4, AncTyped DEF Loading
<1>5. CASE o \in {"CMP", "CPX", "CPY"}
  BY <1>5, CompareTyped DEF Loading
<1>6. CASE o \in {"ADC", "SBC"}
  BY <1>6, AdcTyped, SbcTyped DEF Loading
<1>7. CASE o \in {"BIT", "ARR", "SBX"}
  BY <1>7, BitTyped, ArrTyped, SbxTyped DEF Loading
<1>8. CASE o = "ALR"
  <2>1. [r EXCEPT !.a = And(@, v)] \in RegisterFiles
    BY DEF RegisterFiles
  <2> QED
    BY <1>8, <2>1, ShiftTyped DEF Loading
<1> QED
  BY <1>1, <1>2, <1>3, <1>4, <1>5, <1>6, <1>7, <1>8 DEF LoadOps

LEMMA StoringTyped ==
    ASSUME NEW o \in Stores, NEW r \in RegisterFiles
    PROVE  Storing(o, r) \in Bytes256
BY BitwiseIsByte DEF Stores, Storing, RegisterFiles

LEMMA ModifyingTyped ==
    ASSUME NEW o \in ModifyOps, NEW r \in RegisterFiles, NEW v \in Bytes256
    PROVE  Modified(o, r, v) \in Bytes256 /\ Modifying(o, r, v) \in RegisterFiles
<1> DEFINE n == Modified(o, r, v)
           s == IF o \in DOMAIN ShiftOf THEN [r EXCEPT !.p = ShiftFlags(ShiftOf[o], @, v)] ELSE r
<1>1. o \in DOMAIN ShiftOf => ShiftOf[o] \in {"ASL", "LSR", "ROL", "ROR"}
  BY DEF ShiftOf
<1>2. n \in Bytes256
  <2>1. CASE o \in DOMAIN ShiftOf
    BY <1>1, <2>1, ShiftedIsByte DEF Modified
  <2>2. CASE o \notin DOMAIN ShiftOf
    BY <2>2, OfByteIsByte DEF Modified, Bytes256
  <2> QED
    BY <2>1, <2>2
<1>3. s \in RegisterFiles
  <2>1. CASE o \in DOMAIN ShiftOf
    <3>1. ShiftFlags(ShiftOf[o], r.p, v) \in SUBSET StatusFlags
      BY <1>1, <2>1, ShiftTyped
    <3> QED
      BY <2>1, <3>1 DEF RegisterFiles
  <2> QED
    BY <2>1
<1>4. Modifying(o, r, v) = CASE o \in {"INC", "DEC"} -> [r EXCEPT !.p = ZN(@, n)]
          [] o = "SLO" -> Loading("ORA", s, n)
          [] o = "RLA" -> Loading("AND", s, n)
          [] o = "SRE" -> Loading("EOR", s, n)
          [] o = "RRA" -> opAdc(s, n)
          [] o = "ISC" -> opSbc(s, n)
          [] o = "DCP" -> opCompare(s, r.a, n)
          [] OTHER -> s
  BY DEF Modifying
<1> HIDE DEF n, s
<1>5. CASE o \in {"INC", "DEC"}
  <2>1. ZN(r.p, n) \in SUBSET StatusFlags
    BY ZNIsFlags DEF RegisterFiles
  <2> QED
    BY <1>2, <1>4, <1>5, <2>1 DEF RegisterFiles, n
<1>6. CASE o \in {"SLO", "RLA", "SRE"}
  BY <1>2, <1>3, <1>4, <1>6, LoadingTyped DEF LoadOps, n
<1>7. CASE o \in {"RRA", "ISC", "DCP"}
  BY <1>2, <1>3, <1>4, <1>7, AdcTyped, SbcTyped, CompareTyped DEF n
<1>8. CASE o \in {"ASL", "LSR", "ROL", "ROR"}
  BY <1>2, <1>3, <1>4, <1>8 DEF n
<1> QED
  BY <1>5, <1>6, <1>7, <1>8 DEF ModifyOps

LEMMA RegisterOpsTyped ==
    ASSUME NEW o \in OneOps, NEW r \in RegisterFiles
    PROVE  Registers(o, r) \in RegisterFiles
<1>1. CASE o \in {"NOP", "SEI", "CLI", "SED", "CLD", "SEC", "CLC", "CLV"}
  BY <1>1, FlagsAreFlags DEF Registers, RegisterFiles
<1>2. CASE o \in {"TAX", "TAY", "TXA", "TYA", "TSX"}
  <2>1. r.a \in Bytes256 /\ r.x \in Bytes256 /\ r.y \in Bytes256 /\ r.sp \in Bytes256
    BY DEF RegisterFiles
  <2> QED
    BY <1>2, <2>1, InRegister DEF Registers
<1>3. CASE o \in {"INX", "INY", "DEX", "DEY"}
  <2>1. \A v \in Bytes256 : OfByte(v + 1) \in Bytes256 /\ OfByte(v + 255) \in Bytes256
    BY DEF OfByte, Bytes256
  <2>2. r.x \in Bytes256 /\ r.y \in Bytes256
    BY DEF RegisterFiles
  <2> QED
    BY <1>3, <2>1, <2>2, InRegister DEF Registers
<1>4. CASE o = "TXS"
  BY <1>4 DEF Registers, RegisterFiles
<1>5. CASE o \in {"ASL", "LSR", "ROL", "ROR"}
  BY <1>5, ShiftTyped DEF Registers
<1> QED
  BY <1>1, <1>2, <1>3, <1>4, <1>5 DEF OneOps

-----------------------------------------------------------------------------
(* Sums, differences and comparisons.  n are the registers afterwards.     *)

LEMMA Wraps512 ==
    ASSUME NEW s \in -256..511
    PROVE  (512 + s) % 256 = IF s < 0 THEN s + 256 ELSE IF s < 256 THEN s ELSE s - 256
OBVIOUS

LEMMA WrapsDifference ==
    ASSUME NEW l \in Bytes256, NEW v \in Bytes256
    PROVE  /\ (256 + l - v) % 256 = IF l >= v THEN l - v ELSE 256 + l - v
           /\ (256 + l - v) % 256 \in Bytes256
           /\ (256 + l - v) % 256 = 0 <=> l = v
<1>1. (256 + l - v) % 256 = IF l >= v THEN l - v ELSE 256 + l - v
  BY DEF Bytes256
<1> QED
  BY <1>1 DEF Bytes256

LEMMA SumWraps ==
    ASSUME NEW a \in Bytes256, NEW v \in Bytes256, NEW c \in {0, 1}
    PROVE  OfByte(a + v + c) \in Bytes256 /\ OfByte(a + v + c) = (512 + (a + v + c)) % 256
<1> DEFINE sum == a + v + c
<1>1. sum \in 0..511
  BY DEF Bytes256
<1>2. OfByte(sum) = IF sum < 256 THEN sum ELSE sum - 256
  BY <1>1 DEF OfByte
<1> HIDE DEF sum
<1>3. (512 + sum) % 256 = IF sum < 256 THEN sum ELSE sum - 256
  BY <1>1, Wraps512
<1>4. OfByte(sum) \in Bytes256 /\ OfByte(sum) = (512 + sum) % 256
  BY <1>1, <1>2, <1>3 DEF Bytes256
<1> QED
  BY <1>4 DEF sum

LEMMA DifferenceWraps ==
    ASSUME NEW a \in Bytes256, NEW v \in Bytes256, NEW c \in {0, 1}
    PROVE  (512 + (a + (255 - v) + c)) % 256 = (512 + (a - v + c - 1)) % 256
<1> DEFINE s == a + (255 - v) + c
           t == a - v + c - 1
<1>1. s \in -256..511 /\ t \in -256..511 /\ s = t + 256 /\ t < 256 /\ s >= 0
  BY DEF Bytes256
<1> HIDE DEF s, t
<1>2. (512 + s) % 256 = (512 + t) % 256
  BY <1>1, Wraps512
<1> QED
  BY <1>2 DEF s, t

LEMMA DifferenceBorrows ==
    ASSUME NEW a \in Bytes256, NEW v \in Bytes256, NEW c \in {0, 1}
    PROVE  a + (255 - v) + c > 255 <=> a >= v + 1 - c
BY DEF Bytes256

LEMMA FlagsAfterCompare ==
    ASSUME NEW p, NEW l \in Bytes256, NEW v \in Bytes256,
           NEW q, q = CompareFlags(p, l, v)
    PROVE  ("C" \in q <=> l >= v) /\ ("Z" \in q <=> l = v) /\ ("N" \in q <=> (256 + l - v) % 256 > 127)
<1> DEFINE x == (256 + l - v) % 256
<1>1. x \in Bytes256 /\ (x = 0 <=> l = v)
  BY WrapsDifference
<1>2. Bit(x, "N") <=> x > 127
  BY <1>1, SignIs DEF Bytes256
<1>3. q = ZN(SetFlag(p, "C", l >= v), x)
  BY DEF CompareFlags, OfByte
<1> HIDE DEF x
<1>4. ("C" \in q <=> l >= v) /\ ("Z" \in q <=> x = 0) /\ ("N" \in q <=> x > 127)
  BY <1>2, <1>3 DEF ZN, SetFlag
<1> QED
  BY <1>1, <1>4 DEF x

\* The overflow flag tells that the sum of the signed numbers is no signed byte.
LEMMA OverflowIs ==
    ASSUME NEW a \in Bytes256, NEW v \in Bytes256, NEW c \in {0, 1}
    PROVE  AddOverflows(a, v, OfByte(a + v + c)) <=> Relative(a) + Relative(v) + c \notin -128..127
<1> DEFINE x == OfByte(a + v + c)
<1>1. x \in Bytes256
  BY OfByteIsByte DEF Bytes256
<1>2. /\ Bit(a, "N") <=> a >= 128
      /\ Bit(v, "N") <=> v >= 128
      /\ Bit(x, "N") <=> x >= 128
  BY <1>1, SignIs
<1>3. AddOverflows(a, v, x) <=> ((a >= 128 <=> v >= 128) /\ ~(a >= 128 <=> x >= 128))
  BY <1>2 DEF AddOverflows, Bit
<1>4. x = IF a + v + c > 255 THEN a + v + c - 256 ELSE a + v + c
  BY DEF OfByte, Bytes256
<1>5. ((a >= 128 <=> v >= 128) /\ ~(a >= 128 <=> x >= 128)) <=> Relative(a) + Relative(v) + c \notin -128..127
  <2> HIDE DEF x
  <2>1. CASE a >= 128 /\ v >= 128
    BY <1>4, <2>1 DEF Relative, Bytes256
  <2>2. CASE a < 128 /\ v < 128
    BY <1>4, <2>2 DEF Relative, Bytes256
  <2>3. CASE (a >= 128 /\ v < 128) \/ (a < 128 /\ v >= 128)
    BY <1>4, <2>3 DEF Relative, Bytes256
  <2> QED
    BY <2>1, <2>2, <2>3 DEF Bytes256
<1> QED
  BY <1>3, <1>5

LEMMA AdcAdds ==
    ASSUME NEW r \in RegisterFiles, NEW v \in Bytes256
    PROVE  SumOf(opAdc(r, v), r.a, v, Carry(r.p))
<1> DEFINE c == Carry(r.p)
           sum == r.a + v + c
           over == AddOverflows(r.a, v, OfByte(sum))
           q == ZN(SetFlag(SetFlag(r.p, "C", sum > 255), "V", over), OfByte(sum))
           n == opAdc(r, v)
<1>1. r.a \in Bytes256 /\ c \in {0, 1}
  BY DEF RegisterFiles, Carry
<1>2. n.a = OfByte(sum) /\ n.p = q
  BY DEF opAdc, InA, RegisterFiles
<1>3. OfByte(sum) \in Bytes256 /\ OfByte(sum) = (512 + sum) % 256
  <2> HIDE DEF c
  <2> QED
    BY <1>1, SumWraps
<1>4. over <=> Relative(r.a) + Relative(v) + c \notin -128..127
  <2> HIDE DEF c
  <2> QED
    BY <1>1, OverflowIs
<1>5. /\ "C" \in q <=> sum > 255
      /\ "V" \in q <=> over
      /\ "Z" \in q <=> OfByte(sum) = 0
      /\ "N" \in q <=> OfByte(sum) > 127
  <2>1. Bit(OfByte(sum), "N") <=> OfByte(sum) > 127
    BY <1>3, SignIs DEF Bytes256
  <2> HIDE DEF sum, c
  <2> QED
    BY <2>1 DEF ZN, SetFlag
<1> HIDE DEF n, q, over, c
<1> QED
  BY <1>2, <1>3, <1>4, <1>5 DEF SumOf, NumbersOf, n, c

LEMMA SbcSubtracts ==
    ASSUME NEW r \in RegisterFiles, NEW v \in Bytes256
    PROVE  DifferenceOf(opSbc(r, v), r.a, v, Carry(r.p))
<1> DEFINE c == Carry(r.p)
           w == 255 - v
           n == opSbc(r, v)
<1>1. r.a \in Bytes256 /\ c \in {0, 1} /\ w \in Bytes256
  BY DEF RegisterFiles, Carry, Bytes256
<1>2. SumOf(n, r.a, w, c)
  BY <1>1, AdcAdds DEF opSbc
<1>3. Relative(w) + c = -Relative(v) + (c - 1) /\ Relative(w) \in Int /\ Relative(v) \in Int
  BY <1>1 DEF Relative, Bytes256
<1>4. Relative(r.a) \in Int
  BY <1>1 DEF Relative, Bytes256
<1> HIDE DEF n, c
<1>5. n.a = (512 + (r.a - v + c - 1)) % 256
  <2>1. n.a = (512 + (r.a + w + c)) % 256
    BY <1>2 DEF SumOf, NumbersOf
  <2> QED
    BY <1>1, <2>1, DifferenceWraps
<1>6. Relative(r.a) + Relative(w) + c = Relative(r.a) + -Relative(v) + (c - 1)
  BY <1>1, <1>3, <1>4 DEF Bytes256
<1>7. "C" \in n.p <=> r.a >= v + 1 - c
  <2>1. r.a + (255 - v) + c > 255 <=> r.a >= v + 1 - c
    <3>1. \A a \in Bytes256, k \in {0, 1} : a + (255 - v) + k > 255 <=> a >= v + 1 - k
      BY DifferenceBorrows
    <3>2. PICK a \in Bytes256 : a = r.a
      BY <1>1
    <3>3. PICK k \in {0, 1} : k = c
      BY <1>1
    <3>4. a + (255 - v) + k > 255 <=> a >= v + 1 - k
      BY <3>1
    <3> QED
      BY <3>2, <3>3, <3>4
  <2>2. "C" \in n.p <=> r.a + (255 - v) + c > 255
    BY <1>2 DEF SumOf
  <2> QED
    BY <2>1, <2>2
<1> QED
  BY <1>2, <1>5, <1>6, <1>7 DEF DifferenceOf, SumOf, NumbersOf, n, c

LEMMA CompareCompares ==
    ASSUME NEW r \in RegisterFiles, NEW l \in Bytes256, NEW v \in Bytes256
    PROVE  ComparedBy(opCompare(r, l, v), l, v)
<1>1. opCompare(r, l, v).p = CompareFlags(r.p, l, v)
  BY DEF opCompare, RegisterFiles
<1> QED
  BY <1>1, FlagsAfterCompare DEF ComparedBy

LEMMA SbxSubtracts ==
    ASSUME NEW r \in RegisterFiles, NEW v \in Bytes256
    PROVE  /\ ComparedBy(opSbx(r, v), And(r.a, r.x), v)
           /\ opSbx(r, v).x = (256 + And(r.a, r.x) - v) % 256
<1> DEFINE ax == And(r.a, r.x)
           x == OfByte(256 + ax - v)
           f == CompareFlags(r.p, ax, v)
           n == opSbx(r, v)
<1>1. ax \in Bytes256
  BY BitwiseIsByte
<1>2. n.x = x /\ n.p = ZN(f, x)
  BY DEF opSbx, InX, RegisterFiles
<1>3. ("C" \in f <=> ax >= v) /\ ("Z" \in f <=> ax = v) /\ ("N" \in f <=> (256 + ax - v) % 256 > 127)
  <2> HIDE DEF ax
  <2> QED
    BY <1>1, FlagsAfterCompare DEF f
<1>4. x \in Bytes256 /\ (x = 0 <=> ax = v) /\ x = (256 + ax - v) % 256
  <2> HIDE DEF ax
  <2> QED
    BY <1>1, WrapsDifference DEF OfByte
<1>5. Bit(x, "N") <=> x > 127
  <2> HIDE DEF x
  <2> QED
    BY <1>4, SignIs DEF Bytes256
<1> HIDE DEF ax, x, f, n
<1>6. "C" \in n.p <=> "C" \in f
  BY <1>2 DEF ZN, SetFlag
<1>7. ("Z" \in n.p <=> x = 0) /\ ("N" \in n.p <=> x > 127)
  BY <1>2, <1>5 DEF ZN, SetFlag
<1> QED
  BY <1>2, <1>3, <1>4, <1>6, <1>7 DEF ComparedBy, ax, n

LEMMA RraAdds ==
    ASSUME NEW r \in RegisterFiles, NEW v \in Bytes256
    PROVE  SumOf(Modifying("RRA", r, v), r.a, (v + (256 * Carry(r.p))) \div 2, v % 2)
<1> DEFINE m == (v \div 2) + (128 * Carry(r.p))
           s == [r EXCEPT !.p = ShiftFlags("ROR", @, v)]
<1>1. Carry(r.p) \in {0, 1}
  BY DEF Carry
<1>2. m \in Bytes256 /\ m = (v + (256 * Carry(r.p))) \div 2
  BY <1>1 DEF Bytes256
<1>3. ShiftOf["RRA"] = "ROR" /\ "RRA" \in DOMAIN ShiftOf
  BY DEF ShiftOf
<1>4. Shifted("ROR", r.p, v) = <<v % 2 = 1, m>>
  BY DEF Shifted
<1>5. Modified("RRA", r, v) = m
  BY <1>3, <1>4 DEF Modified
<1>6. Modifying("RRA", r, v) = opAdc(s, m)
  BY <1>3, <1>5 DEF Modifying
<1>7. ShiftFlags("ROR", r.p, v) = ZN(SetFlag(r.p, "C", v % 2 = 1), m)
  BY <1>4 DEF ShiftFlags
<1>8. s \in RegisterFiles /\ s.a = r.a /\ s.p = ZN(SetFlag(r.p, "C", v % 2 = 1), m)
  <2>1. ShiftFlags("ROR", r.p, v) \in SUBSET StatusFlags
    BY ShiftTyped
  <2> HIDE DEF m
  <2> QED
    BY <1>7, <2>1 DEF RegisterFiles
<1>9. Carry(s.p) = v % 2
  <2> HIDE DEF s, m
  <2>1. "C" \in s.p <=> v % 2 = 1
    BY <1>8 DEF ZN, SetFlag
  <2>2. v % 2 \in {0, 1}
    BY DEF Bytes256
  <2> QED
    BY <2>1, <2>2 DEF Carry
<1> HIDE DEF s, m
<1>10. SumOf(opAdc(s, m), s.a, m, Carry(s.p))
  BY <1>2, <1>8, AdcAdds
<1> QED
  BY <1>2, <1>6, <1>8, <1>9, <1>10

LEMMA IscSubtracts ==
    ASSUME NEW r \in RegisterFiles, NEW v \in Bytes256
    PROVE  DifferenceOf(Modifying("ISC", r, v), r.a, (v + 1) % 256, Carry(r.p))
<1>1. "ISC" \notin DOMAIN ShiftOf
  BY DEF ShiftOf
<1>2. Modified("ISC", r, v) = (v + 1) % 256
  BY <1>1 DEF Modified, OfByte
<1>3. Modifying("ISC", r, v) = opSbc(r, (v + 1) % 256)
  BY <1>1, <1>2 DEF Modifying
<1>4. (v + 1) % 256 \in Bytes256
  BY DEF Bytes256
<1> QED
  BY <1>3, <1>4, SbcSubtracts

LEMMA DcpCompares ==
    ASSUME NEW r \in RegisterFiles, NEW v \in Bytes256
    PROVE  ComparedBy(Modifying("DCP", r, v), r.a, (v + 255) % 256)
<1>1. "DCP" \notin DOMAIN ShiftOf
  BY DEF ShiftOf
<1>2. Modified("DCP", r, v) = (v + 255) % 256
  BY <1>1 DEF Modified, OfByte
<1>3. Modifying("DCP", r, v) = opCompare(r, r.a, (v + 255) % 256)
  BY <1>1, <1>2 DEF Modifying
<1>4. (v + 255) % 256 \in Bytes256 /\ r.a \in Bytes256
  BY DEF Bytes256, RegisterFiles
<1> QED
  BY <1>3, <1>4, CompareCompares

-----------------------------------------------------------------------------
(* Memory and addresses.                                                   *)

Words == {a \in Nat : a < 65536}
MachineTyped ==
    /\ MapOK(cpuMemory, 0..(RomBase - 1)) /\ MapOK(ram, 0..(RomBase - 1)) /\ MapOK(rom, Words)
    /\ MapOK(io, 0..(RomBase - 1))
    /\ reg \in RegisterFiles
    /\ pc \in RomBase..65535

LEMMA AtIsByte ==
    ASSUME NEW m, NEW places, MapOK(m, places), NEW a
    PROVE  At(m, a) \in Bytes256
BY DEF MapOK, At, Bytes256

LEMMA LayerOn ==
    ASSUME NEW f, NEW g, NEW a
    PROVE  At(Over(f, g), a) = IF a \in DOMAIN f THEN f[a] ELSE At(g, a)
BY DEF Over, At

LEMMA LayerOK ==
    ASSUME NEW f, NEW g, NEW places, MapOK(g, places),
           DOMAIN f \subseteq places, \A a \in DOMAIN f : f[a] \in Bytes256
    PROVE  MapOK(Over(f, g), places)
BY DEF MapOK, Over

LEMMA ReadsTyped ==
    ASSUME MachineTyped, NEW a
    PROVE  read(a) \in Bytes256 /\ MemoryAt(a) \in Bytes256 /\ At(cpuMemory, a) \in Bytes256
BY AtIsByte DEF MachineTyped, read, MemoryAt

LEMMA WordIs ==
    ASSUME NEW lo \in Bytes256, NEW hi \in Bytes256
    PROVE  /\ Word(lo, hi) \in Words /\ Word(lo, hi) % 256 = lo /\ Word(lo, hi) \div 256 = hi
<1>1. Word(lo, hi) = 256 * hi + lo /\ lo \in 0..255 /\ hi \in 0..255
  BY DEF Word, Bytes256
<1>2. Word(lo, hi) % 256 = lo
  BY <1>1
<1>3. Word(lo, hi) \div 256 = hi
  BY <1>1
<1>4. Word(lo, hi) \in Words
  BY <1>1 DEF Words
<1> QED
  BY <1>2, <1>3, <1>4

LEMMA HalvesOfWord ==
    ASSUME NEW a \in Words
    PROVE  Low(a) \in Bytes256 /\ High(a) \in Bytes256 /\ Word(Low(a), High(a)) = a
BY DEF Low, High, Word, Words, Bytes256

LEMMA PlusIsWord ==
    ASSUME NEW a \in Words, NEW n \in Nat
    PROVE  Plus(a, n) \in Words
<1>1. a + n \in Nat
  BY DEF Words
<1> QED
  BY <1>1 DEF Plus, Words

LEMMA WordsRead ==
    ASSUME MachineTyped, NEW a
    PROVE  read16(a) \in Words /\ read16ZeroPageWrap(a) \in Words
BY ReadsTyped, WordIs DEF read16, read16ZeroPageWrap

LEMMA OperandsTyped ==
    ASSUME MachineTyped
    PROVE  Operand \in Bytes256 /\ OperandWord \in Words
BY ReadsTyped, WordsRead DEF Operand, OperandWord

LEMMA PcIsWord == ASSUME MachineTyped PROVE pc \in Words
<1>1. RomBase \in Nat
  BY DEF RomBase
<1>2. pc \in RomBase..65535
  BY DEF MachineTyped
<1> QED
  BY <1>1, <1>2 DEF Words

-----------------------------------------------------------------------------
(* The stack's page.                                                       *)

LEMMA StackPlaces ==
    ASSUME NEW sp \in Bytes256, NEW L \in 1..3
    PROVE  /\ OfByte(256 + sp - L) \in Bytes256
           /\ \A i \in 1..L : StackAt(OfByte(256 + sp - L) + (L + 1 - i)) = StackAt(sp + 1 - i)
           /\ \A i, k \in 1..3 : StackAt(sp + 1 - i) = StackAt(sp + 1 - k) => i = k
           /\ \A i \in 1..3 : StackAt(sp + 1 - i) \in 256..511
<1>1. OfByte(256 + sp - L) = IF sp >= L THEN sp - L ELSE 256 + sp - L
  BY DEF OfByte, Bytes256
<1>2. \A i \in 1..3 : StackAt(sp + 1 - i) = 256 + (IF sp + 1 >= i THEN (sp + 1 - i) % 256 ELSE 257 + sp - i)
  BY DEF StackAt, OfByte, Bytes256
<1>3. \A i \in 1..3 : StackAt(sp + 1 - i) = 256 + (IF sp + 1 >= i THEN IF sp + 1 - i = 256 THEN 0 ELSE sp + 1 - i
                                                  ELSE 257 + sp - i)
  BY <1>2 DEF Bytes256
<1>4. \A i \in 1..L : StackAt(OfByte(256 + sp - L) + (L + 1 - i)) = StackAt(sp + 1 - i)
  <2> TAKE i \in 1..L
  <2>1. CASE sp >= L
    BY <1>1, <2>1 DEF Bytes256
  <2>2. CASE sp < L
    <3>1. StackAt(256 + sp - L + (L + 1 - i)) = StackAt(sp + 1 - i)
      BY DEF StackAt, OfByte, Bytes256
    <3> QED
      BY <1>1, <2>2, <3>1 DEF Bytes256
  <2> QED
    BY <2>1, <2>2 DEF Bytes256
<1>5. OfByte(256 + sp - L) \in Bytes256
  BY <1>1 DEF Bytes256
<1>6. \A i, k \in 1..3 : StackAt(sp + 1 - i) = StackAt(sp + 1 - k) => i = k
  BY <1>3 DEF Bytes256
<1>7. \A i \in 1..3 : StackAt(sp + 1 - i) \in 256..511
  BY <1>3 DEF Bytes256
<1> QED
  BY <1>4, <1>5, <1>6, <1>7

CellsOf(sp, L, values) ==
    [a \in {StackAt(sp + 1 - i) : i \in 1..L} |-> values[CHOOSE i \in 1..L : StackAt(sp + 1 - i) = a]]

CellsHold(sp, L, values, pushed, top) ==
    /\ top \in Bytes256
    /\ \A a \in DOMAIN pushed : a \in 256..511 /\ pushed[a] \in Bytes256
    /\ \A k \in 1..L : StackAt(top + k) \in DOMAIN pushed /\ pushed[StackAt(top + k)] = values[L + 1 - k]

LEMMA CellsPushed ==
    ASSUME NEW sp \in Bytes256, NEW L \in 1..3, NEW values, \A i \in 1..L : values[i] \in Bytes256
    PROVE  CellsHold(sp, L, values, CellsOf(sp, L, values), OfByte(256 + sp - L))
<1> SUFFICES ASSUME NEW pushed, NEW top, top = OfByte(256 + sp - L), pushed = CellsOf(sp, L, values)
             PROVE  CellsHold(sp, L, values, pushed, top)
  OBVIOUS
<1> USE DEF CellsHold
<1>1. /\ top \in Bytes256
      /\ \A i \in 1..L : StackAt(top + (L + 1 - i)) = StackAt(sp + 1 - i)
      /\ \A i, k \in 1..3 : StackAt(sp + 1 - i) = StackAt(sp + 1 - k) => i = k
      /\ \A i \in 1..3 : StackAt(sp + 1 - i) \in 256..511
  <2>1. /\ OfByte(256 + sp - L) \in Bytes256
        /\ \A i \in 1..L : StackAt(OfByte(256 + sp - L) + (L + 1 - i)) = StackAt(sp + 1 - i)
        /\ \A i, k \in 1..3 : StackAt(sp + 1 - i) = StackAt(sp + 1 - k) => i = k
        /\ \A i \in 1..3 : StackAt(sp + 1 - i) \in 256..511
    BY Zenon, StackPlaces
  <2>2. \A i \in 1..L : StackAt(top + (L + 1 - i)) = StackAt(sp + 1 - i)
    BY Zenon, <2>1
  <2> QED
    BY Zenon, <2>1, <2>2
<1>2. /\ \A i \in 1..L : i \in 1..3
      /\ pushed = [a \in {StackAt(sp + 1 - i) : i \in 1..L} |->
                      values[CHOOSE i \in 1..L : StackAt(sp + 1 - i) = a]]
  BY DEF CellsOf
<1>3. ASSUME NEW i \in 1..L
      PROVE  /\ StackAt(sp + 1 - i) \in DOMAIN pushed
             /\ pushed[StackAt(sp + 1 - i)] = values[i]
  <2>1. (CHOOSE k \in 1..L : StackAt(sp + 1 - k) = StackAt(sp + 1 - i)) = i
    <3> DEFINE k == CHOOSE k \in 1..L : StackAt(sp + 1 - k) = StackAt(sp + 1 - i)
    <3>1. k \in 1..L /\ StackAt(sp + 1 - k) = StackAt(sp + 1 - i)
      OBVIOUS
    <3> HIDE DEF k
    <3>2. k \in 1..3 /\ i \in 1..3
      BY <1>2, <3>1
    <3>3. k = i
      BY <1>1, <3>1, <3>2
    <3> QED
      BY <3>3 DEF k
  <2>2. StackAt(sp + 1 - i) \in DOMAIN pushed
    BY <1>2
  <2> QED
    BY <1>2, <2>1, <2>2
<1>4. ASSUME NEW a \in DOMAIN pushed
      PROVE  a \in 256..511 /\ pushed[a] \in Bytes256
  <2>1. PICK i \in 1..L : a = StackAt(sp + 1 - i)
    BY <1>2
  <2>2. a \in 256..511
    BY Zenon, <1>1, <1>2, <2>1
  <2>3. pushed[a] = values[i]
    BY Zenon, <1>3, <2>1
  <2> QED
    BY <2>2, <2>3
<1>5. ASSUME NEW k \in 1..L
      PROVE  /\ StackAt(top + k) \in DOMAIN pushed
             /\ pushed[StackAt(top + k)] = values[L + 1 - k]
  <2>1. PICK i \in 1..L : i = L + 1 - k /\ L + 1 - i = k
    OBVIOUS
  <2>2. StackAt(top + k) = StackAt(sp + 1 - i)
    BY <1>1, <2>1
  <2>3. StackAt(sp + 1 - i) \in DOMAIN pushed /\ pushed[StackAt(sp + 1 - i)] = values[i]
    BY Zenon, <1>3
  <2> QED
    BY Zenon, <2>1, <2>2, <2>3
<1> QED
  BY <1>1, <1>4, <1>5

\* What a push leaves: its values from the new pointer up, the last one first.
PushLeft(values, r, n, e) ==
    /\ e.reg \in RegisterFiles /\ e.reg = [r EXCEPT !.sp = e.reg.sp]
    /\ e.pc = n /\ e.wrote = <<>>
    /\ \A a \in DOMAIN e.pushed : a \in 256..511 /\ e.pushed[a] \in Bytes256
    /\ \A k \in 1..Len(values) :
         /\ StackAt(e.reg.sp + k) \in DOMAIN e.pushed
         /\ e.pushed[StackAt(e.reg.sp + k)] = values[Len(values) + 1 - k]

LEMMA PushLeaves ==
    ASSUME MachineTyped, NEW values \in Seq(Bytes256), Len(values) \in 1..3,
           NEW r \in RegisterFiles, r.sp = reg.sp, NEW n
    PROVE  PushLeft(values, r, n, Pushing(values, r, n))
<1> SUFFICES ASSUME NEW e, e = Pushing(values, r, n) PROVE PushLeft(values, r, n, e)
  OBVIOUS
<1>1. PICK sp \in Bytes256 : sp = reg.sp /\ sp = r.sp
  BY DEF MachineTyped, RegisterFiles
<1>2. PICK L \in 1..3 : L = Len(values)
  OBVIOUS
<1>3. DOMAIN values = 1..L /\ \A i \in 1..L : values[i] \in Bytes256
  BY <1>2
<1>4. /\ e.reg = [r EXCEPT !.sp = OfByte(256 + sp - L)]
      /\ e.pc = n /\ e.wrote = <<>>
      /\ e.pushed = [a \in {StackAt(sp + 1 - i) : i \in 1..L} |->
                        values[CHOOSE i \in 1..L : StackAt(sp + 1 - i) = a]]
  BY <1>1, <1>2, <1>3 DEF Pushing, Effect, Nowhere, RegisterFiles
<1>5. PICK top : top = OfByte(256 + sp - L)
  OBVIOUS
<1>6. /\ top \in Bytes256
      /\ \A a \in DOMAIN e.pushed : a \in 256..511 /\ e.pushed[a] \in Bytes256
      /\ \A k \in 1..L : /\ StackAt(top + k) \in DOMAIN e.pushed
                         /\ e.pushed[StackAt(top + k)] = values[L + 1 - k]
  <2>1. e.pushed = CellsOf(sp, L, values)
    BY <1>4 DEF CellsOf
  <2>2. CellsHold(sp, L, values, CellsOf(sp, L, values), OfByte(256 + sp - L))
    BY <1>3, CellsPushed
  <2> QED
    BY <1>5, <2>1, <2>2 DEF CellsHold
<1>7. e.reg = [r EXCEPT !.sp = top] /\ e.reg.sp = top /\ e.reg \in RegisterFiles
  BY <1>4, <1>5, <1>6 DEF RegisterFiles
<1>8. \A k \in 1..Len(values) :
         /\ StackAt(e.reg.sp + k) \in DOMAIN e.pushed
         /\ e.pushed[StackAt(e.reg.sp + k)] = values[Len(values) + 1 - k]
  BY <1>2, <1>6, <1>7
<1>9. e.reg = [r EXCEPT !.sp = e.reg.sp]
  BY <1>7
<1> QED
  BY Zenon, <1>4, <1>6, <1>7, <1>8, <1>9 DEF PushLeft

-----------------------------------------------------------------------------
(* What an opcode leads to, by its kind.                                   *)

Sound(e) ==
    /\ e.reg \in RegisterFiles /\ e.pc \in Words
    /\ \A a \in DOMAIN e.wrote : e.wrote[a] \in Bytes256
    /\ \A a \in DOMAIN e.pushed : a \in 256..511 /\ e.pushed[a] \in Bytes256
Leads(b, e) == \A t \in GoesTo(b) : t = e.pc

LEMMA EffectIs ==
    ASSUME MachineTyped, NEW r \in RegisterFiles, NEW n \in Words
    PROVE  Sound(Effect(r, n)) /\ Effect(r, n).reg = r /\ Effect(r, n).pc = n
BY DEF Sound, Effect, Nowhere

Writing(r, n, a, v) == [Effect(r, n) EXCEPT !.wrote = [x \in {a} |-> v]]

LEMMA WritingIs ==
    ASSUME NEW r \in RegisterFiles, NEW n \in Words, NEW a, NEW v \in Bytes256
    PROVE  /\ Sound(Writing(r, n, a, v))
           /\ Writing(r, n, a, v).reg = r /\ Writing(r, n, a, v).pc = n
BY DEF Sound, Effect, Nowhere, Writing

LEMMA NextIsWord ==
    ASSUME MachineTyped
    PROVE  \A n \in Nat : Plus(pc, n) \in Words
BY PcIsWord, PlusIsWord

LEMMA GoesOn ==
    ASSUME NEW b, NotSpecial(b)
    PROVE  GoesTo(b) = {Plus(pc, LengthOf(b))}
BY DEF NotSpecial, GoesTo

LEMMA LengthIsNat == \A m : Length(m) \in Nat
BY DEF Length

LEMMA PlainOpIs ==
    ASSUME NEW b, NEW o, NEW m, PlainOp(b, o, m)
    PROVE  /\ o \in Stores \/ o \in ModifyOps \/ o \in LoadOps
           /\ o \notin Jumps \cup Stacks
           /\ m \notin {"one", "rel", "ind"}
           /\ LengthOf(b) = Length(m) /\ NotSpecial(b) /\ b \in Bytes256
<1>1. o \in DOMAIN Kinds /\ o \notin Jumps
  BY DEF PlainOp
<1>2. o \in Stores \/ o \in ModifyOps \/ o \in LoadOps
  BY <1>1, OpsListed DEF ReadOps
<1>3. o \notin Stacks
  BY <1>2 DEF Stores, ModifyOps, LoadOps, Stacks
<1> QED
  BY <1>1, <1>2, <1>3 DEF PlainOp, Plain, AddressModes

LEMMA ClassesApart ==
    /\ Stores \cap ModifyOps = {} /\ Stores \cap LoadOps = {} /\ ModifyOps \cap LoadOps = {}
BY DEF Stores, ModifyOps, LoadOps

LEMMA PlainDoes ==
    ASSUME MachineTyped, NEW b, NEW o, NEW m, o = CaseOf[b][1], m = CaseOf[b][2], PlainOp(b, o, m),
           NEW e, e = executeDriveCpuMicroOpBaseOpcode(b)
    PROVE  /\ Sound(e) /\ Leads(b, e)
           /\ e.pushed = <<>>
           /\ o \in LoadOps => e.reg = Loading(o, reg, read(Address(m)))
           /\ o \in ModifyOps => e.reg = Modifying(o, reg, read(Address(m)))
<1>1. PICK n \in Words : n = Plus(pc, Length(m))
  BY NextIsWord, LengthIsNat
<1>2. Leads(b, [pc |-> n])
  BY <1>1, PlainOpIs, GoesOn DEF Leads
<1>3. reg \in RegisterFiles
  BY DEF MachineTyped
<1>4. PICK v \in Bytes256 : v = read(Address(m))
  BY ReadsTyped
<1>5. CASE o \in Stores
  <2>1. e = [Effect(reg, n) EXCEPT !.wrote = [x \in {Address(m)} |-> Storing(o, reg)]]
    BY <1>1, <1>5, PlainOpIs, ClassesApart, OpsListed DEF executeDriveCpuMicroOpBaseOpcode
  <2>2. PICK w \in Bytes256 : w = Storing(o, reg)
    BY <1>3, <1>5, StoringTyped
  <2>3. Sound(e) /\ e.reg = reg /\ e.pc = n
    <3>1. PICK a : a = Address(m)
      OBVIOUS
    <3>2. e = Writing(reg, n, a, w)
      BY <2>1, <2>2, <3>1 DEF Writing
    <3> QED
      BY <1>3, <3>2, WritingIs
  <2>4. e.pushed = <<>>
    BY <2>1 DEF Effect, Nowhere
  <2> QED
    BY <1>2, <1>5, <2>3, <2>4, ClassesApart DEF Leads
<1>6. CASE o \in ModifyOps
  <2>1. e = [Effect(Modifying(o, reg, v), n) EXCEPT !.wrote = [x \in {Address(m)} |-> Modified(o, reg, v)]]
    BY <1>1, <1>4, <1>6, PlainOpIs, ClassesApart, OpsListed DEF executeDriveCpuMicroOpBaseOpcode
  <2>2. PICK w \in Bytes256 : w = Modified(o, reg, v)
    BY <1>3, <1>6, ModifyingTyped
  <2>3. PICK r \in RegisterFiles : r = Modifying(o, reg, v)
    BY <1>3, <1>6, ModifyingTyped
  <2>4. Sound(e) /\ e.reg = r /\ e.pc = n
    <3>1. PICK a : a = Address(m)
      OBVIOUS
    <3>2. e = Writing(r, n, a, w)
      BY <2>1, <2>2, <2>3, <3>1 DEF Writing
    <3> QED
      BY <3>2, WritingIs
  <2>5. e.pushed = <<>>
    BY <2>1 DEF Effect, Nowhere
  <2> QED
    BY <1>2, <1>4, <1>6, <2>3, <2>4, <2>5, ClassesApart DEF Leads
<1>7. CASE o \in LoadOps
  <2>1. e = Effect(Loading(o, reg, v), n)
    BY <1>1, <1>4, <1>7, PlainOpIs, ClassesApart, OpsListed DEF executeDriveCpuMicroOpBaseOpcode
  <2>2. PICK r \in RegisterFiles : r = Loading(o, reg, v)
    BY <1>3, <1>7, LoadingTyped
  <2>3. Sound(e) /\ e.reg = r /\ e.pc = n
    BY <2>1, <2>2, EffectIs
  <2>4. e.pushed = <<>>
    BY <2>1 DEF Effect, Nowhere
  <2> QED
    BY <1>2, <1>4, <1>7, <2>2, <2>3, <2>4, ClassesApart DEF Leads
<1> QED
  BY <1>5, <1>6, <1>7, PlainOpIs

LEMMA OneOpsApart == OneOps \cap (Stacks \cup Jumps \cup Stores) = {} /\ Stacks \cap (Jumps \cup Stores) = {}
BY DEF OneOps, Stacks, Jumps, Stores

\* Instructions of one byte on registers and flags.
LEMMA SingleDoes ==
    ASSUME MachineTyped, NEW b, NEW o \in OneOps, NEW m, o = CaseOf[b][1], m = CaseOf[b][2], Single(b, o, m),
           NEW e, e = executeDriveCpuMicroOpBaseOpcode(b)
    PROVE  /\ Sound(e) /\ Leads(b, e)
           /\ e.pushed = <<>>
<1>1. PICK n \in Words : n = Plus(pc, 1)
  BY NextIsWord
<1>2. m = "one" /\ LengthOf(b) = 1 /\ NotSpecial(b) /\ Length(m) = 1
  BY DEF Single, Length
<1>3. PICK r \in RegisterFiles : r = Registers(o, reg)
  BY RegisterOpsTyped DEF MachineTyped
<1>4. e = Effect(r, n)
  <2>1. o \notin Jumps /\ o \notin Stacks /\ o \notin Stores
    BY OneOpsApart
  <2> QED
    BY <1>1, <1>2, <1>3, <2>1 DEF executeDriveCpuMicroOpBaseOpcode
<1>5. Sound(e) /\ e.pc = n
  BY <1>4, EffectIs
<1>6. e.pushed = <<>>
  BY <1>4 DEF Effect, Nowhere
<1> QED
  BY <1>1, <1>2, <1>5, <1>6, GoesOn DEF Leads

\* Branches.
LEMMA BranchDoes ==
    ASSUME MachineTyped, NEW b, NEW o, NEW m, o = CaseOf[b][1], m = CaseOf[b][2], Branch(b, o, m),
           NEW e, e = executeDriveCpuMicroOpBaseOpcode(b)
    PROVE  /\ Sound(e) /\ Leads(b, e)
           /\ e.pushed = <<>>
<1>1. m = "rel" /\ <<b, o>> \in Branches
  BY DEF Branch
<1>2. e = Branching(o)
  <2>1. o \notin Jumps /\ o \notin Stacks /\ o \notin Stores /\ o \notin ModifyOps /\ o \notin LoadOps
    BY <1>1 DEF Branches, Jumps, Stacks, Stores, ModifyOps, LoadOps
  <2> QED
    BY <1>1, <2>1, OpsListed DEF executeDriveCpuMicroOpBaseOpcode
<1>3. IsBranch(b) /\ LengthOf(b) = 2 /\ (Taken(o) <=> BranchTaken(b))
  BY <1>1, BranchesAgree
<1>4. PICK v \in Bytes256 : v = Operand /\ v = OperandAt(1)
  BY OperandsTyped DEF Operand, OperandAt
<1>5. Plus(pc, 2 + Relative(v)) = Plus(pc, IF v < 128 THEN v + 2 ELSE v + 65282)
  <2>1. pc \in Nat /\ pc < 65536 /\ v \in 0..255
    BY PcIsWord DEF Words, Bytes256
  <2>2. CASE v < 128
    BY <2>1, <2>2 DEF Relative, Plus
  <2>3. CASE v >= 128
    <3>1. PICK k \in 0..127 : v = k + 128
      BY <2>1, <2>3
    <3>2. PICK a \in Nat : a = pc + (k + 128) + 2 - 256 + 65536 /\ a >= 65536 - 256
      BY <2>1
    <3> QED
      BY <2>1, <2>3 DEF Relative, Plus
  <2> QED
    BY <2>1, <2>2, <2>3
<1>6. Plus(pc, IF v < 128 THEN v + 2 ELSE v + 65282) \in Words /\ Plus(pc, 2) \in Words
  <2>1. (IF v < 128 THEN v + 2 ELSE v + 65282) \in Nat
    BY DEF Bytes256
  <2> QED
    BY <2>1, NextIsWord
<1>7. PICK n \in Words : n = IF Taken(o) THEN Plus(pc, 2 + Relative(v)) ELSE Plus(pc, 2)
  BY <1>5, <1>6
<1>8. e = Effect(reg, n)
  BY <1>2, <1>4, <1>7 DEF Branching
<1>9. Sound(e) /\ e.pc = n
  BY <1>8, EffectIs DEF MachineTyped
<1>10. e.pushed = <<>>
  BY <1>8 DEF Effect, Nowhere
<1>11. GoesTo(b) = {n}
  <2>1. b \notin {76, 32, 108, 0, 96, 64}
    BY <1>1 DEF Branches
  <2>2. CASE Taken(o)
    BY <1>3, <1>4, <1>5, <1>7, <2>1, <2>2 DEF GoesTo
  <2>3. CASE ~Taken(o)
    BY <1>3, <1>7, <2>1, <2>3 DEF GoesTo
  <2> QED
    BY <2>2, <2>3
<1> QED
  BY <1>9, <1>10, <1>11 DEF Leads

-----------------------------------------------------------------------------
(* What the stack holds for the pulls to come.                             *)

ValueAt(m, s, n) == At(m, StackAt(s.at + n))
EntryTyped(s) ==
    /\ s.kind \in {"PHA", "PHP", "JSR", "BRK"}
    /\ s.at \in Bytes256 /\ s.a \in Bytes256 /\ s.p \in SUBSET StatusFlags /\ s.back \in Words
Holds(s, m) ==
    /\ s.kind = "PHA" => ValueAt(m, s, 1) = s.a
    /\ s.kind \in {"PHP", "BRK"} => ValueAt(m, s, 1) = FlagByte(s.p \cup {"B", "U"})
    /\ s.kind = "JSR" => Plus(Word(ValueAt(m, s, 1), ValueAt(m, s, 2)), 1) = s.back
    /\ s.kind = "BRK" => Word(ValueAt(m, s, 2), ValueAt(m, s, 3)) = s.back
StackKept == \A s \in onStack : EntryTyped(s) /\ Holds(s, cpuMemory)
VectorsHold ==
    /\ {65532, 65533, 65534, 65535} \subseteq DOMAIN rom
    /\ rom[65532] = Low(ResetVector) /\ rom[65533] = High(ResetVector)
    /\ rom[65534] = Low(IrqVector) /\ rom[65535] = High(IrqVector)
Ready == MachineTyped /\ CopiesAgree /\ StackKept /\ VectorsHold

VectorsAssumption == ResetVector \in Words /\ ResetVector >= RomBase /\ IrqVector \in Words

Leaves(o, e) ==
    o \in DOMAIN Sizes => /\ EntryTyped(Pushed(o, e.reg))
                          /\ \A m : Holds(Pushed(o, e.reg), Over(e.pushed, m))
Brings(o, e) == \A s \in Matching(o) : ComesBack(s, e.reg)

LEMMA PcInRom == ASSUME MachineTyped PROVE pc >= 49152
<1>1. RomBase = 49152
  BY DEF RomBase
<1>2. pc >= RomBase
  <2>1. RomBase \in Nat
    BY <1>1
  <2> HIDE <1>1
  <2> QED
    BY <2>1 DEF MachineTyped
<1> QED
  BY <1>1, <1>2

LEMMA PlusPlus ==
    ASSUME NEW a \in Words, NEW n \in 0..3, NEW k \in 0..3
    PROVE  Plus(Plus(a, n), k) = Plus(a, n + k)
BY DEF Plus, Words

LEMMA MemoryIsRead ==
    ASSUME CopiesAgree, NEW a, a \notin 256..511, ~is_io_(a)
    PROVE  MemoryAt(a) = read(a)
BY DEF CopiesAgree, MemoryAt, read, At

LEMMA OperandPlaces ==
    ASSUME MachineTyped, NEW n \in 1..2
    PROVE  Plus(pc, n) \in Words /\ Plus(pc, n) \notin 256..511 /\ ~is_io_(Plus(pc, n))
<1>1. pc \in Nat /\ pc < 65536 /\ pc >= 49152
  BY PcIsWord, PcInRom DEF Words
<1>2. Plus(pc, n) \in Nat /\ Plus(pc, n) < 65536 /\ (Plus(pc, n) >= 49152 \/ Plus(pc, n) < 2)
  BY <1>1 DEF Plus
<1>3. ~is_io_(Plus(pc, n))
  BY <1>2 DEF is_io_
<1> QED
  BY <1>2, <1>3 DEF Words

LEMMA OperandWordIs ==
    ASSUME MachineTyped, CopiesAgree
    PROVE  OperandWord = Word(OperandAt(1), OperandAt(2))
<1>1. Plus(Plus(pc, 1), 1) = Plus(pc, 2)
  BY PcIsWord, PlusPlus
<1>2. MemoryAt(Plus(pc, 1)) = read(Plus(pc, 1)) /\ MemoryAt(Plus(pc, 2)) = read(Plus(pc, 2))
  BY OperandPlaces, MemoryIsRead
<1> QED
  BY <1>1, <1>2 DEF OperandWord, read16, OperandAt

LEMMA VectorRead ==
    ASSUME MachineTyped, VectorsHold, VectorsAssumption
    PROVE  read16(65532) = ResetVector /\ read16(65534) = IrqVector
<1>1. Plus(65532, 1) = 65533 /\ Plus(65534, 1) = 65535
  BY DEF Plus
<1>2. /\ MemoryAt(65532) = Low(ResetVector) /\ MemoryAt(65533) = High(ResetVector)
      /\ MemoryAt(65534) = Low(IrqVector) /\ MemoryAt(65535) = High(IrqVector)
  BY DEF MemoryAt, At, VectorsHold, RomBase
<1> QED
  BY <1>1, <1>2, HalvesOfWord DEF read16, VectorsAssumption

LEMMA FlagsBack ==
    ASSUME NEW p \in SUBSET StatusFlags
    PROVE  /\ FlagsPulled(FlagByte(p \cup {"B", "U"})) = (p \ {"B"}) \cup {"U"}
           /\ FlagByte(p \cup {"B", "U"}) \in Bytes256
<1>1. p \cup {"B", "U"} \in SUBSET StatusFlags
  BY FlagsAreFlags
<1> QED
  BY <1>1, FlagsComeBack DEF FlagsPulled

LEMMA PulledTyped ==
    ASSUME MachineTyped
    PROVE  /\ \A n : Pulled(n) \in Bytes256
           /\ \A v : FlagsPulled(v) \in SUBSET StatusFlags
BY ReadsTyped, FlagsInAreFlags, FlagsAreFlags DEF Pulled, FlagsPulled

LEMMA PullingIs ==
    ASSUME NEW r \in RegisterFiles, NEW n \in Words, NEW k \in 1..3,
           NEW e, e = Pulling(k, r, n)
    PROVE  Sound(e) /\ e.pc = n /\ e.reg.a = r.a /\ e.reg.p = r.p /\ e.pushed = <<>>
<1>1. OfByte(r.sp + k) \in Bytes256
  <2>1. r.sp + k \in Nat
    BY DEF RegisterFiles, Bytes256
  <2> QED
    BY <2>1, OfByteIsByte
<1>2. [r EXCEPT !.sp = OfByte(@ + k)] \in RegisterFiles
  BY <1>1 DEF RegisterFiles
<1> QED
  BY <1>2 DEF Pulling, Sound, Effect, Nowhere, RegisterFiles

LEMMA MatchingIs ==
    ASSUME StackKept, NEW o, NEW s \in Matching(o)
    PROVE  /\ EntryTyped(s) /\ Holds(s, cpuMemory)
           /\ s.kind = Takes[o] /\ o \in DOMAIN Takes
           /\ \A n : ValueAt(cpuMemory, s, n) = Pulled(n)
BY DEF Matching, StackKept, ValueAt, Pulled

LEMMA NothingTaken ==
    ASSUME NEW o, o \notin {"PLA", "PLP", "RTS", "RTI"}
    PROVE  Matching(o) = {}
BY DEF Matching, Takes

\* The stack instructions.
LEMMA StackDoes ==
    ASSUME Ready, NEW b, NEW o \in Stacks, NEW m, o = CaseOf[b][1], m = CaseOf[b][2], Single(b, o, m),
           NEW e, e = executeDriveCpuMicroOpBaseOpcode(b)
    PROVE  Sound(e) /\ Leads(b, e) /\ Leaves(o, e) /\ Brings(o, e)
<1>0. MachineTyped /\ StackKept /\ reg \in RegisterFiles
  BY DEF Ready, MachineTyped
<1>1. PICK n \in Words : n = Plus(pc, 1)
  BY <1>0, NextIsWord
<1>2. m = "one" /\ LengthOf(b) = 1 /\ NotSpecial(b) /\ Length(m) = 1
  BY DEF Single, Length
<1>3. e = Stacked(o, n)
  <2>1. o \notin Jumps /\ o \notin Stores
    BY OneOpsApart
  <2> QED
    BY <1>1, <1>2, <2>1 DEF executeDriveCpuMicroOpBaseOpcode
<1>4. e.pc = n => Leads(b, e)
  BY <1>1, <1>2, GoesOn DEF Leads
<1>5. reg.a \in Bytes256 /\ FlagsPushed \in Bytes256 /\ reg.p \in SUBSET StatusFlags
  BY <1>0, FlagsBack DEF RegisterFiles, FlagsPushed
<1>6. Plus(pc, 2) \in Words
  BY <1>0, NextIsWord
<1>7. CASE o = "PHA"
  <2>1. e = Pushing(<<reg.a>>, reg, n)
    BY <1>3, <1>7 DEF Stacked
  <2>2. /\ e.reg \in RegisterFiles /\ e.pc = n /\ e.wrote = <<>>
        /\ \A a \in DOMAIN e.pushed : a \in 256..511 /\ e.pushed[a] \in Bytes256
        /\ StackAt(e.reg.sp + 1) \in DOMAIN e.pushed /\ e.pushed[StackAt(e.reg.sp + 1)] = reg.a
    <3>1. PICK v \in Bytes256 : v = reg.a
      BY <1>5
    <3>2. PICK q : q = <<v>>
      OBVIOUS
    <3>3. q \in Seq(Bytes256) /\ Len(q) = 1 /\ Len(q) \in 1..3 /\ q[1] = v
      BY <3>2
    <3>4. PushLeft(q, reg, n, e)
      BY <1>0, <2>1, <3>1, <3>2, <3>3, PushLeaves
    <3> QED
      BY <3>1, <3>3, <3>4 DEF PushLeft
  <2>3. Sound(e)
    BY <2>2 DEF Sound
  <2>4. /\ Pushed(o, e.reg).kind = "PHA" /\ Pushed(o, e.reg).at = e.reg.sp
        /\ Pushed(o, e.reg).a = reg.a /\ Pushed(o, e.reg).p = reg.p /\ Pushed(o, e.reg).back = Plus(pc, 2)
    BY <1>7 DEF Pushed
  <2>5. e.reg.sp \in Bytes256
    BY <2>2 DEF RegisterFiles
  <2>6. Leaves(o, e)
    BY <1>5, <1>6, <2>2, <2>4, <2>5 DEF Leaves, EntryTyped, Holds, ValueAt, At, Over
  <2>7. Brings(o, e)
    BY <1>7, NothingTaken DEF Brings
  <2> QED
    BY <1>4, <2>2, <2>3, <2>6, <2>7
<1>8. CASE o = "PHP"
  <2>1. e = Pushing(<<FlagsPushed>>, reg, n)
    BY <1>3, <1>8 DEF Stacked
  <2>2. /\ e.reg \in RegisterFiles /\ e.pc = n /\ e.wrote = <<>>
        /\ \A a \in DOMAIN e.pushed : a \in 256..511 /\ e.pushed[a] \in Bytes256
        /\ StackAt(e.reg.sp + 1) \in DOMAIN e.pushed /\ e.pushed[StackAt(e.reg.sp + 1)] = FlagsPushed
    <3>1. PICK v \in Bytes256 : v = FlagsPushed
      BY <1>5
    <3>2. PICK q : q = <<v>>
      OBVIOUS
    <3>3. q \in Seq(Bytes256) /\ Len(q) = 1 /\ Len(q) \in 1..3 /\ q[1] = v
      BY <3>2
    <3>4. PushLeft(q, reg, n, e)
      BY <1>0, <2>1, <3>1, <3>2, <3>3, PushLeaves
    <3> QED
      BY <3>1, <3>3, <3>4 DEF PushLeft
  <2>3. Sound(e)
    BY <2>2 DEF Sound
  <2>4. /\ Pushed(o, e.reg).kind = "PHP" /\ Pushed(o, e.reg).at = e.reg.sp
        /\ Pushed(o, e.reg).a = reg.a /\ Pushed(o, e.reg).p = reg.p /\ Pushed(o, e.reg).back = Plus(pc, 2)
    BY <1>8 DEF Pushed
  <2>5. e.reg.sp \in Bytes256
    BY <2>2 DEF RegisterFiles
  <2>6. Leaves(o, e)
    BY <1>5, <1>6, <2>2, <2>4, <2>5 DEF Leaves, EntryTyped, Holds, ValueAt, At, Over, FlagsPushed
  <2>7. Brings(o, e)
    BY <1>8, NothingTaken DEF Brings
  <2> QED
    BY <1>4, <2>2, <2>3, <2>6, <2>7
<1>9. CASE o = "PLA"
  <2>1. PICK v \in Bytes256 : v = Pulled(1)
    BY <1>0, PulledTyped
  <2>2. PICK r \in RegisterFiles : r = InA(reg, v) /\ r.a = v
    <3>1. InA(reg, v) \in RegisterFiles
      BY <1>0, InRegister
    <3>2. InA(reg, v).a = v
      BY <1>0 DEF InA, RegisterFiles
    <3> QED
      BY <3>1, <3>2
  <2>3. e = Pulling(1, r, n)
    BY <1>3, <1>9, <2>1, <2>2 DEF Stacked
  <2>4. Sound(e) /\ e.pc = n /\ e.reg.a = v
    BY <2>2, <2>3, PullingIs
  <2>5. Leaves(o, e)
    BY <1>9 DEF Leaves, Sizes
  <2>6. Brings(o, e)
    <3> SUFFICES ASSUME NEW s \in Matching(o) PROVE ComesBack(s, e.reg)
      BY DEF Brings
    <3>1. s.kind = "PHA" /\ ValueAt(cpuMemory, s, 1) = v /\ Holds(s, cpuMemory)
      BY <1>0, <1>9, <2>1, MatchingIs DEF Takes
    <3> QED
      BY <2>4, <3>1 DEF ComesBack, Holds
  <2> QED
    BY <1>4, <2>4, <2>5, <2>6
<1>10. CASE o = "PLP"
  <2>1. PICK v \in Bytes256 : v = Pulled(1)
    BY <1>0, PulledTyped
  <2>2. PICK r \in RegisterFiles : r = [reg EXCEPT !.p = FlagsPulled(v)] /\ r.p = FlagsPulled(v)
    <3>1. PICK p \in SUBSET StatusFlags : p = FlagsPulled(v)
      BY <1>0, PulledTyped
    <3>2. [reg EXCEPT !.p = p] \in RegisterFiles
      BY <1>0, NewFlags
    <3>3. [reg EXCEPT !.p = p].p = p
      BY <1>0 DEF RegisterFiles
    <3> QED
      BY <3>1, <3>2, <3>3
  <2>3. e = Pulling(1, r, n)
    BY <1>3, <1>10, <2>1, <2>2 DEF Stacked
  <2>4. Sound(e) /\ e.pc = n /\ e.reg.p = FlagsPulled(v)
    <3>1. Sound(e) /\ e.pc = n /\ e.reg.p = r.p
      BY <2>3, PullingIs
    <3> QED
      BY <2>2, <3>1
  <2>5. Leaves(o, e)
    BY <1>10 DEF Leaves, Sizes
  <2>6. Brings(o, e)
    <3> SUFFICES ASSUME NEW s \in Matching(o) PROVE ComesBack(s, e.reg)
      BY DEF Brings
    <3>1. s.kind = "PHP" /\ ValueAt(cpuMemory, s, 1) = v /\ Holds(s, cpuMemory) /\ EntryTyped(s)
      BY <1>0, <1>10, <2>1, MatchingIs DEF Takes
    <3>2. v = FlagByte(s.p \cup {"B", "U"}) /\ s.p \in SUBSET StatusFlags
      BY <3>1 DEF Holds, EntryTyped
    <3> QED
      BY <2>4, <3>1, <3>2, FlagsBack DEF ComesBack
  <2> QED
    BY <1>4, <2>4, <2>5, <2>6
<1> QED
  BY <1>7, <1>8, <1>9, <1>10 DEF Stacks

-----------------------------------------------------------------------------
(* Jumps, calls and returns.                                               *)

JumpSound(b, o, e) == Sound(e) /\ Leads(b, e) /\ Leaves(o, e) /\ Brings(o, e)

LEMMA IndirectIs ==
    ASSUME NEW a \in Words
    PROVE  (256 * High(a)) + OfByte(Low(a) + 1) = IF a % 256 = 255 THEN a - 255 ELSE a + 1
<1>1. PICK l \in 0..255 : l = a % 256
  BY DEF Words
<1>2. PICK h \in Nat : h = a \div 256
  BY DEF Words
<1>3. a = (256 * h) + l /\ a \in Nat
  BY <1>1, <1>2 DEF Words
<1>4. (l + 1) % 256 = IF l = 255 THEN 0 ELSE l + 1
  OBVIOUS
<1>5. High(a) = h /\ Low(a) = l /\ OfByte(l + 1) = IF l = 255 THEN 0 ELSE l + 1
  BY <1>1, <1>2, <1>4 DEF High, Low, OfByte
<1>6. (256 * h) + (IF l = 255 THEN 0 ELSE l + 1) = IF l = 255 THEN a - 255 ELSE a + 1
  BY <1>3
<1> QED
  BY <1>1, <1>5, <1>6

LEMMA JmpDoes ==
    ASSUME Ready, NEW b, NEW m, \/ b = 76 /\ m = "abs"
                                \/ b = 108 /\ m = "ind",
           NEW e, e = Jumping("JMP", m)
    PROVE  JumpSound(b, "JMP", e)
<1>0. MachineTyped /\ CopiesAgree /\ reg \in RegisterFiles
  BY DEF Ready, MachineTyped
<1>1. PICK w \in Words : w = OperandWord /\ w = Word(OperandAt(1), OperandAt(2))
  BY <1>0, OperandsTyped, OperandWordIs
<1>2. PICK n \in Words : n = (IF m = "abs" THEN w ELSE Indirect(w))
  BY <1>0, ReadsTyped, WordIs DEF Indirect
<1>3. e = Effect(reg, n)
  BY <1>1, <1>2 DEF Jumping
<1>4. Sound(e) /\ e.pc = n
  BY <1>0, <1>3, EffectIs
<1>5. Leads(b, e)
  <2>1. CASE b = 76 /\ m = "abs"
    <3>1. GoesTo(b) = {w}
      BY <1>1, <2>1 DEF GoesTo, IsBranch, Column
    <3> QED
      BY <1>2, <1>4, <2>1, <3>1 DEF Leads
  <2>2. CASE b = 108 /\ m = "ind"
    <3>1. GoesTo(b) = {Word(read(w), read(IF w % 256 = 255 THEN w - 255 ELSE w + 1))}
      BY <1>1, <2>2 DEF GoesTo, IsBranch, Column
    <3>2. n = Word(read(w), read(IF w % 256 = 255 THEN w - 255 ELSE w + 1))
      BY <1>2, <2>2, IndirectIs DEF Indirect
    <3> QED
      BY <1>4, <3>1, <3>2 DEF Leads
  <2> QED
    BY <2>1, <2>2
<1>6. Leaves("JMP", e)
  BY DEF Leaves, Sizes
<1>7. Brings("JMP", e)
  BY NothingTaken DEF Brings
<1> QED
  BY <1>4, <1>5, <1>6, <1>7 DEF JumpSound

LEMMA ReturnAddress ==
    ASSUME MachineTyped
    PROVE  /\ High(Plus(pc, 2)) \in Bytes256 /\ Low(Plus(pc, 2)) \in Bytes256
           /\ Word(Low(Plus(pc, 2)), High(Plus(pc, 2))) = Plus(pc, 2)
           /\ Plus(Plus(pc, 2), 1) = Plus(pc, 3)
           /\ Plus(pc, 2) \in Words /\ Plus(pc, 3) \in Words
<1>1. Plus(pc, 2) \in Words /\ Plus(pc, 3) \in Words
  BY NextIsWord
<1>2. Plus(Plus(pc, 2), 1) = Plus(pc, 3)
  BY PcIsWord, PlusPlus
<1> QED
  BY <1>1, <1>2, HalvesOfWord

LEMMA JsrDoes ==
    ASSUME Ready, NEW e, e = Jumping("JSR", "abs")
    PROVE  JumpSound(32, "JSR", e)
<1>0. MachineTyped /\ CopiesAgree /\ reg \in RegisterFiles
  BY DEF Ready, MachineTyped
<1>1. PICK w \in Words : w = OperandWord /\ w = Word(OperandAt(1), OperandAt(2))
  BY <1>0, OperandsTyped, OperandWordIs
<1>2. PICK hi \in Bytes256 : hi = High(Plus(pc, 2))
  BY <1>0, ReturnAddress
<1>3. PICK lo \in Bytes256 : lo = Low(Plus(pc, 2))
  BY <1>0, ReturnAddress
<1>4. PICK q : q = <<hi, lo>>
  OBVIOUS
<1>5. q \in Seq(Bytes256) /\ Len(q) = 2 /\ Len(q) \in 1..3 /\ q[1] = hi /\ q[2] = lo
  BY <1>4
<1>6. e = Pushing(q, reg, w)
  BY <1>1, <1>2, <1>3, <1>4 DEF Jumping
<1>7. PushLeft(q, reg, w, e)
  BY <1>0, <1>5, <1>6, PushLeaves
<1>8. /\ e.reg \in RegisterFiles /\ e.pc = w /\ e.wrote = <<>>
      /\ \A a \in DOMAIN e.pushed : a \in 256..511 /\ e.pushed[a] \in Bytes256
      /\ StackAt(e.reg.sp + 1) \in DOMAIN e.pushed /\ e.pushed[StackAt(e.reg.sp + 1)] = lo
      /\ StackAt(e.reg.sp + 2) \in DOMAIN e.pushed /\ e.pushed[StackAt(e.reg.sp + 2)] = hi
  BY <1>5, <1>7 DEF PushLeft
<1>9. Sound(e)
  BY <1>8 DEF Sound
<1>10. Leads(32, e)
  <2>1. GoesTo(32) = {w}
    BY <1>1 DEF GoesTo, IsBranch, Column
  <2> QED
    BY <1>8, <2>1 DEF Leads
<1>11. Leaves("JSR", e)
  <2>1. PICK s : s = Pushed("JSR", e.reg)
    OBVIOUS
  <2>2. s.kind = "JSR" /\ s.at = e.reg.sp /\ s.a = reg.a /\ s.p = reg.p /\ s.back = Plus(pc, 3)
    BY <2>1 DEF Pushed
  <2>3. EntryTyped(s)
    BY <1>0, <1>8, <2>2, ReturnAddress DEF EntryTyped, RegisterFiles
  <2>4. ASSUME NEW mem PROVE Holds(s, Over(e.pushed, mem))
    <3>1. /\ ValueAt(Over(e.pushed, mem), s, 1) = lo
          /\ ValueAt(Over(e.pushed, mem), s, 2) = hi
      BY <1>8, <2>2, LayerOn DEF ValueAt
    <3>2. Plus(Word(lo, hi), 1) = Plus(pc, 3)
      BY <1>0, <1>2, <1>3, ReturnAddress
    <3> QED
      BY <2>2, <3>1, <3>2 DEF Holds
  <2> QED
    BY <2>1, <2>3, <2>4 DEF Leaves
<1>12. Brings("JSR", e)
  BY NothingTaken DEF Brings
<1> QED
  BY <1>9, <1>10, <1>11, <1>12 DEF JumpSound

LEMMA BrkDoes ==
    ASSUME Ready, VectorsAssumption, NEW e, e = Jumping("BRK", "one")
    PROVE  JumpSound(0, "BRK", e)
<1>0. MachineTyped /\ VectorsHold /\ reg \in RegisterFiles /\ reg.p \in SUBSET StatusFlags
  BY DEF Ready, MachineTyped, RegisterFiles
<1>1. read16(65534) = IrqVector /\ IrqVector \in Words
  BY <1>0, VectorRead DEF VectorsAssumption
<1>2. PICK hi \in Bytes256 : hi = High(Plus(pc, 2))
  BY <1>0, ReturnAddress
<1>3. PICK lo \in Bytes256 : lo = Low(Plus(pc, 2))
  BY <1>0, ReturnAddress
<1>4. PICK f \in Bytes256 : f = FlagsPushed /\ f = FlagByte(reg.p \cup {"B", "U"})
  BY <1>0, FlagsBack DEF FlagsPushed
<1>5. PICK q : q = <<hi, lo, f>>
  OBVIOUS
<1>6. q \in Seq(Bytes256) /\ Len(q) = 3 /\ Len(q) \in 1..3 /\ q[1] = hi /\ q[2] = lo /\ q[3] = f
  BY <1>5
<1>7. PICK r \in RegisterFiles : r = [reg EXCEPT !.p = @ \cup {"I"}] /\ r.sp = reg.sp
  <2>1. PICK p \in SUBSET StatusFlags : p = reg.p \cup {"I"}
    BY <1>0, FlagsAreFlags
  <2>2. [reg EXCEPT !.p = p] \in RegisterFiles /\ [reg EXCEPT !.p = p].sp = reg.sp
    BY <1>0, NewFlags DEF RegisterFiles
  <2> QED
    BY <2>1, <2>2
<1>8. e = Pushing(q, r, IrqVector)
  BY <1>1, <1>2, <1>3, <1>4, <1>5, <1>7 DEF Jumping
<1>9. PushLeft(q, r, IrqVector, e)
  BY <1>0, <1>6, <1>7, <1>8, PushLeaves
<1>10. /\ e.reg \in RegisterFiles /\ e.pc = IrqVector /\ e.wrote = <<>>
       /\ \A a \in DOMAIN e.pushed : a \in 256..511 /\ e.pushed[a] \in Bytes256
       /\ StackAt(e.reg.sp + 1) \in DOMAIN e.pushed /\ e.pushed[StackAt(e.reg.sp + 1)] = f
       /\ StackAt(e.reg.sp + 2) \in DOMAIN e.pushed /\ e.pushed[StackAt(e.reg.sp + 2)] = lo
       /\ StackAt(e.reg.sp + 3) \in DOMAIN e.pushed /\ e.pushed[StackAt(e.reg.sp + 3)] = hi
  BY <1>6, <1>9 DEF PushLeft
<1>11. Sound(e)
  BY <1>1, <1>10 DEF Sound
<1>12. Leads(0, e)
  <2>1. GoesTo(0) = {IrqVector}
    BY DEF GoesTo, IsBranch, Column
  <2> QED
    BY <1>10, <2>1 DEF Leads
<1>13. Leaves("BRK", e)
  <2>1. PICK s : s = Pushed("BRK", e.reg)
    OBVIOUS
  <2>2. s.kind = "BRK" /\ s.at = e.reg.sp /\ s.a = reg.a /\ s.p = reg.p /\ s.back = Plus(pc, 2)
    BY <2>1 DEF Pushed
  <2>3. EntryTyped(s)
    BY <1>0, <1>10, <2>2, ReturnAddress DEF EntryTyped, RegisterFiles
  <2>4. ASSUME NEW mem PROVE Holds(s, Over(e.pushed, mem))
    <3>1. /\ ValueAt(Over(e.pushed, mem), s, 1) = f
          /\ ValueAt(Over(e.pushed, mem), s, 2) = lo
          /\ ValueAt(Over(e.pushed, mem), s, 3) = hi
      BY <1>10, <2>2, LayerOn DEF ValueAt
    <3>2. Word(lo, hi) = Plus(pc, 2)
      BY <1>0, <1>2, <1>3, ReturnAddress
    <3> QED
      BY <1>4, <2>2, <3>1, <3>2 DEF Holds
  <2> QED
    BY <2>1, <2>3, <2>4 DEF Leaves
<1>14. Brings("BRK", e)
  BY NothingTaken DEF Brings
<1> QED
  BY <1>11, <1>12, <1>13, <1>14 DEF JumpSound

LEMMA RtsDoes ==
    ASSUME Ready, NEW e, e = Jumping("RTS", "one")
    PROVE  JumpSound(96, "RTS", e)
<1>0. MachineTyped /\ StackKept /\ reg \in RegisterFiles
  BY DEF Ready, MachineTyped
<1>1. PICK w \in Words : w = Word(Pulled(1), Pulled(2))
  BY <1>0, PulledTyped, WordIs
<1>2. PICK n \in Words : n = Plus(w, 1)
  BY PlusIsWord
<1>3. e = Pulling(2, reg, n)
  BY <1>1, <1>2 DEF Jumping
<1>4. Sound(e) /\ e.pc = n
  BY <1>0, <1>3, PullingIs
<1>5. Leads(96, e)
  <2>1. GoesTo(96) = {s.back : s \in Matching("RTS")}
    BY DEF GoesTo, IsBranch, Column
  <2>2. ASSUME NEW s \in Matching("RTS") PROVE s.back = n
    <3>1. s.kind = "JSR" /\ Holds(s, cpuMemory)
          /\ ValueAt(cpuMemory, s, 1) = Pulled(1) /\ ValueAt(cpuMemory, s, 2) = Pulled(2)
      BY <1>0, MatchingIs DEF Takes
    <3> QED
      BY <1>1, <1>2, <3>1 DEF Holds
  <2> QED
    BY <1>4, <2>1, <2>2 DEF Leads
<1>6. Leaves("RTS", e)
  BY DEF Leaves, Sizes
<1>7. Brings("RTS", e)
  <2>1. ASSUME NEW s \in Matching("RTS") PROVE s.kind = "JSR"
    BY <1>0, MatchingIs DEF Takes
  <2> QED
    BY <2>1 DEF Brings, ComesBack
<1> QED
  BY <1>4, <1>5, <1>6, <1>7 DEF JumpSound

LEMMA RtiDoes ==
    ASSUME Ready, NEW e, e = Jumping("RTI", "one")
    PROVE  JumpSound(64, "RTI", e)
<1>0. MachineTyped /\ StackKept /\ reg \in RegisterFiles
  BY DEF Ready, MachineTyped
<1>1. PICK n \in Words : n = Word(Pulled(2), Pulled(3))
  BY <1>0, PulledTyped, WordIs
<1>2. PICK p \in SUBSET StatusFlags : p = FlagsPulled(Pulled(1))
  BY <1>0, PulledTyped
<1>3. PICK r \in RegisterFiles : r = [reg EXCEPT !.p = p] /\ r.p = p
  <2>1. [reg EXCEPT !.p = p] \in RegisterFiles
    BY <1>0, NewFlags
  <2>2. [reg EXCEPT !.p = p].p = p
    BY <1>0 DEF RegisterFiles
  <2> QED
    BY <2>1, <2>2
<1>4. e = Pulling(3, r, n)
  BY <1>1, <1>2, <1>3 DEF Jumping
<1>5. Sound(e) /\ e.pc = n /\ e.reg.p = p
  <2>1. Sound(e) /\ e.pc = n /\ e.reg.p = r.p
    BY <1>4, PullingIs
  <2> QED
    BY <1>3, <2>1
<1>6. ASSUME NEW s \in Matching("RTI")
      PROVE  s.back = n /\ ComesBack(s, e.reg)
  <2>1. s.kind = "BRK" /\ Holds(s, cpuMemory) /\ EntryTyped(s)
        /\ ValueAt(cpuMemory, s, 1) = Pulled(1) /\ ValueAt(cpuMemory, s, 2) = Pulled(2)
        /\ ValueAt(cpuMemory, s, 3) = Pulled(3)
    BY <1>0, MatchingIs DEF Takes
  <2>2. s.back = n /\ Pulled(1) = FlagByte(s.p \cup {"B", "U"}) /\ s.p \in SUBSET StatusFlags
    BY <1>1, <2>1 DEF Holds, EntryTyped
  <2>3. p = (s.p \ {"B"}) \cup {"U"}
    BY <1>2, <2>2, FlagsBack
  <2> QED
    BY <1>5, <2>1, <2>2, <2>3 DEF ComesBack
<1>7. Leads(64, e)
  <2>1. GoesTo(64) = {s.back : s \in Matching("RTI")}
    BY DEF GoesTo, IsBranch, Column
  <2> QED
    BY <1>5, <1>6, <2>1 DEF Leads
<1>8. Leaves("RTI", e)
  BY DEF Leaves, Sizes
<1>9. Brings("RTI", e)
  BY <1>6 DEF Brings
<1> QED
  BY <1>5, <1>7, <1>8, <1>9 DEF JumpSound

LEMMA JumpDoes ==
    ASSUME Ready, VectorsAssumption, NEW b, NEW o, NEW m, o = CaseOf[b][1], m = CaseOf[b][2], Jump(b, o, m),
           NEW e, e = executeDriveCpuMicroOpBaseOpcode(b)
    PROVE  JumpSound(b, o, e)
<1>1. e = Jumping(o, m)
  <2>1. o \in Jumps /\ m # "rel" /\ o \notin Stacks \cup Stores \cup ModifyOps \cup LoadOps
    BY DEF Jump, Jumps, Stacks, Stores, ModifyOps, LoadOps
  <2> QED
    BY <2>1, OpsListed DEF executeDriveCpuMicroOpBaseOpcode
<1>2. CASE o = "JMP"
  BY <1>1, <1>2, JmpDoes DEF Jump
<1>3. CASE o = "JSR"
  BY <1>1, <1>3, JsrDoes DEF Jump
<1>4. CASE o = "BRK"
  BY <1>1, <1>4, BrkDoes DEF Jump
<1>5. CASE o = "RTS"
  BY <1>1, <1>5, RtsDoes DEF Jump
<1>6. CASE o = "RTI"
  BY <1>1, <1>6, RtiDoes DEF Jump
<1> QED
  BY <1>2, <1>3, <1>4, <1>5, <1>6 DEF Jump

-----------------------------------------------------------------------------
(* What an instruction does, whichever it is and whichever engine does it. *)

LEMMA NotOnStack ==
    ASSUME NEW o, o \notin Stacks, o \notin Jumps, NEW e
    PROVE  Leaves(o, e) /\ Brings(o, e)
BY NothingTaken DEF Leaves, Brings, Sizes, Stacks, Jumps

LEMMA ExecuteDoes ==
    ASSUME Ready, VectorsAssumption, NEW b \in Handled,
           NEW e, e = executeDriveCpuMicroOpBaseOpcode(b)
    PROVE  JumpSound(b, CaseOf[b][1], e)
<1>1. PICK o : o = CaseOf[b][1]
  OBVIOUS
<1>2. PICK m : m = CaseOf[b][2]
  OBVIOUS
<1>3. InTable(b, o, m)
  BY <1>1, <1>2, CaseIs
<1>4. MachineTyped
  BY DEF Ready
<1>5. CASE PlainOp(b, o, m)
  <2>1. Sound(e) /\ Leads(b, e)
    BY <1>1, <1>2, <1>4, <1>5, PlainDoes
  <2>2. o \notin Stacks /\ o \notin Jumps
    BY <1>5, PlainOpIs
  <2> QED
    BY <1>1, <2>1, <2>2, NotOnStack DEF JumpSound
<1>6. CASE Jump(b, o, m)
  BY <1>1, <1>2, <1>6, JumpDoes
<1>7. CASE Single(b, o, m) /\ o \in OneOps
  <2>1. Sound(e) /\ Leads(b, e)
    BY <1>1, <1>2, <1>4, <1>7, SingleDoes
  <2>2. o \notin Stacks /\ o \notin Jumps
    BY <1>7, OneOpsApart
  <2> QED
    BY <1>1, <2>1, <2>2, NotOnStack DEF JumpSound
<1>8. CASE Single(b, o, m) /\ o \in Stacks
  BY <1>1, <1>2, <1>8, StackDoes DEF JumpSound
<1>9. CASE Branch(b, o, m)
  <2>1. Sound(e) /\ Leads(b, e)
    BY <1>1, <1>2, <1>4, <1>9, BranchDoes
  <2>2. o \notin Stacks /\ o \notin Jumps
    BY <1>9 DEF Branch, Branches, Stacks, Jumps
  <2> QED
    BY <1>1, <2>1, <2>2, NotOnStack DEF JumpSound
<1> QED
  BY <1>3, <1>5, <1>6, <1>7, <1>8, <1>9 DEF InTable, Single

ComputingOps == {"ADC", "RRA", "SBC", "ISC", "CMP", "DCP", "CPX", "CPY", "SBX"}

LEMMA LoadingComputes ==
    ASSUME NEW r \in RegisterFiles, NEW v \in Bytes256
    PROVE  \A o \in LoadOps : ComputedOf(o, r, v, Loading(o, r, v))
<1> TAKE o \in LoadOps
<1>1. r.a \in Bytes256 /\ r.x \in Bytes256 /\ r.y \in Bytes256
  BY DEF RegisterFiles
<1>2. CASE o = "ADC"
  BY <1>2, AdcAdds DEF Carry, ComputedOf, Loading
<1>3. CASE o = "SBC"
  BY <1>3, SbcSubtracts DEF Carry, ComputedOf, Loading
<1>4. CASE o = "CMP"
  BY <1>1, <1>4, CompareCompares DEF Carry, ComputedOf, Loading
<1>5. CASE o = "CPX"
  BY <1>1, <1>5, CompareCompares DEF Carry, ComputedOf, Loading
<1>6. CASE o = "CPY"
  BY <1>1, <1>6, CompareCompares DEF Carry, ComputedOf, Loading
<1>7. CASE o = "SBX"
  BY <1>7, SbxSubtracts DEF Carry, ComputedOf, Loading
<1>8. CASE o \notin {"ADC", "SBC", "CMP", "CPX", "CPY", "SBX"}
  BY <1>8 DEF Carry, ComputedOf, LoadOps
<1> QED
  BY <1>2, <1>3, <1>4, <1>5, <1>6, <1>7, <1>8

LEMMA ModifyingComputes ==
    ASSUME NEW r \in RegisterFiles, NEW v \in Bytes256
    PROVE  \A o \in ModifyOps : ComputedOf(o, r, v, Modifying(o, r, v))
<1> TAKE o \in ModifyOps
<1>1. CASE o = "RRA"
  BY <1>1, RraAdds DEF Carry, ComputedOf
<1>2. CASE o = "ISC"
  BY <1>2, IscSubtracts DEF Carry, ComputedOf
<1>3. CASE o = "DCP"
  BY <1>3, DcpCompares DEF Carry, ComputedOf
<1>4. CASE o \notin {"RRA", "ISC", "DCP"}
  BY <1>4 DEF Carry, ComputedOf, ModifyOps
<1> QED
  BY <1>1, <1>2, <1>3, <1>4

\* Sums and comparisons as the history has them.
LEMMA ExecuteComputes ==
    ASSUME MachineTyped, NEW b \in Handled,
           NEW e, e = executeDriveCpuMicroOpBaseOpcode(b),
           NEW v, v = IF CaseOf[b][2] \in {"one", "rel", "ind"} THEN 0 ELSE read(Address(CaseOf[b][2]))
    PROVE  ComputedOf(CaseOf[b][1], reg, v, e.reg)
<1>1. PICK o : o = CaseOf[b][1]
  OBVIOUS
<1>2. PICK m : m = CaseOf[b][2]
  OBVIOUS
<1>3. InTable(b, o, m)
  BY <1>1, <1>2, CaseIs
<1>4. CASE PlainOp(b, o, m)
  <2>1. v = read(Address(m)) /\ v \in Bytes256
    BY <1>2, <1>4, PlainOpIs, ReadsTyped
  <2>2. /\ o \in LoadOps => e.reg = Loading(o, reg, v)
        /\ o \in ModifyOps => e.reg = Modifying(o, reg, v)
    BY <1>1, <1>2, <1>4, <2>1, PlainDoes
  <2>3. CASE o \in LoadOps
    BY <1>1, <2>1, <2>2, <2>3, LoadingComputes DEF MachineTyped
  <2>4. CASE o \in ModifyOps
    BY <1>1, <2>1, <2>2, <2>4, ModifyingComputes DEF MachineTyped
  <2>5. CASE o \in Stores
    <3>1. o \notin ComputingOps
      BY <2>5 DEF Stores, ComputingOps
    <3> QED
      BY <1>1, <3>1 DEF Carry, ComputedOf, ComputingOps
  <2> QED
    BY <1>4, <2>3, <2>4, <2>5, PlainOpIs
<1>5. CASE ~PlainOp(b, o, m)
  <2>1. o \notin ComputingOps
    BY <1>3, <1>5 DEF InTable, Jump, Single, Branch, Branches, OneOps, Stacks, ComputingOps
  <2> QED
    BY <1>1, <2>1 DEF Carry, ComputedOf, ComputingOps
<1> QED
  BY <1>4, <1>5

\* The other engine's opcodes are opcodes of the first one, too.
LEMMA CountedAreHandled == CountedOps \subseteq Handled
<1>0. \A d \in Cases : d[1] \in Handled
  BY DEF Handled
<1>1. ASSUME NEW o \in DOMAIN Kinds, NEW c \in Kinds[o]
      PROVE  c[1] \in Handled
  <2>1. <<c[1], o, c[2]>> \in Cases
    BY DEF Cases
  <2>2. <<c[1], o, c[2]>>[1] \in Handled
    BY Zenon, <1>0, <2>1
  <2> QED
    BY <2>2
<1>2. ASSUME NEW c \in OneByte \cup Branches
      PROVE  c[1] \in Handled
  <2>1. <<c[1], c[2], "one">> \in Cases \/ <<c[1], c[2], "rel">> \in Cases
    BY DEF Cases
  <2>2. <<c[1], c[2], "one">>[1] \in Handled \/ <<c[1], c[2], "rel">>[1] \in Handled
    BY Zenon, <1>0, <2>1
  <2> QED
    BY <2>2
<1>3. ASSUME NEW c \in NopOne
      PROVE  c \in Handled
  <2>1. <<c, "NOP", "one">> \in Cases
    BY DEF Cases
  <2>2. <<c, "NOP", "one">>[1] \in Handled
    BY Zenon, <1>0, <2>1
  <2> QED
    BY <2>2
<1>4. /\ <<169, "imm">> \in Kinds["LDA"] /\ <<162, "imm">> \in Kinds["LDX"] /\ <<160, "imm">> \in Kinds["LDY"]
      /\ <<76, "abs">> \in Kinds["JMP"] /\ <<32, "abs">> \in Kinds["JSR"]
      /\ {"LDA", "LDX", "LDY", "JMP", "JSR"} \subseteq DOMAIN Kinds
  <2>1. Kinds["LDA"] = LDA /\ Kinds["LDX"] = LDX /\ Kinds["LDY"] = LDY /\ Kinds["JMP"] = JMP /\ Kinds["JSR"] = JSR
    BY DEF Kinds
  <2>2. {"LDA", "LDX", "LDY", "JMP", "JSR"} \subseteq DOMAIN Kinds
    BY DEF Kinds
  <2>3. <<169, "imm">> \in LDA /\ <<162, "imm">> \in LDX /\ <<160, "imm">> \in LDY
    BY DEF LDA, LDX, LDY
  <2>4. <<76, "abs">> \in JMP /\ <<32, "abs">> \in JSR
    BY DEF JMP, JSR
  <2> QED
    BY <2>1, <2>2, <2>3, <2>4
<1>5. {169, 162, 160, 76, 32} \subseteq Handled
  <2>1. <<169, "imm">>[1] \in Handled /\ <<162, "imm">>[1] \in Handled /\ <<160, "imm">>[1] \in Handled
        /\ <<76, "abs">>[1] \in Handled /\ <<32, "abs">>[1] \in Handled
    <3>1. "LDA" \in DOMAIN Kinds /\ "LDX" \in DOMAIN Kinds /\ "LDY" \in DOMAIN Kinds
          /\ "JMP" \in DOMAIN Kinds /\ "JSR" \in DOMAIN Kinds
      BY <1>4
    <3>2. <<169, "imm">>[1] \in Handled
      <4>1. PICK o \in DOMAIN Kinds : o = "LDA"
        BY <3>1
      <4>2. PICK c \in Kinds[o] : c = <<169, "imm">>
        BY <1>4, <4>1
      <4> QED
        BY <1>1, <4>2
    <3>3. <<162, "imm">>[1] \in Handled
      BY Zenon, <1>1, <1>4, <3>1
    <3>4. <<160, "imm">>[1] \in Handled
      BY Zenon, <1>1, <1>4, <3>1
    <3>5. <<76, "abs">>[1] \in Handled
      BY Zenon, <1>1, <1>4, <3>1
    <3>6. <<32, "abs">>[1] \in Handled
      BY Zenon, <1>1, <1>4, <3>1
    <3> QED
      BY Zenon, <3>2, <3>3, <3>4, <3>5, <3>6
  <2> QED
    BY <2>1
<1>6. {120, 88, 216, 248, 24, 56, 96} \subseteq Handled
  <2>1. /\ <<120, "SEI">> \in OneByte /\ <<88, "CLI">> \in OneByte /\ <<216, "CLD">> \in OneByte
        /\ <<248, "SED">> \in OneByte /\ <<24, "CLC">> \in OneByte /\ <<56, "SEC">> \in OneByte
        /\ <<96, "RTS">> \in OneByte
    BY DEF OneByte, FlagOps, Returns
  <2>2. /\ <<120, "SEI">>[1] \in Handled /\ <<88, "CLI">>[1] \in Handled /\ <<216, "CLD">>[1] \in Handled
        /\ <<248, "SED">>[1] \in Handled /\ <<24, "CLC">>[1] \in Handled /\ <<56, "SEC">>[1] \in Handled
        /\ <<96, "RTS">>[1] \in Handled
    BY Zenon, <1>2, <2>1
  <2> QED
    BY <2>2
<1>7. {208, 240} \subseteq Handled
  <2>1. <<208, "BNE">> \in Branches /\ <<240, "BEQ">> \in Branches
    BY DEF Branches
  <2>2. <<208, "BNE">>[1] \in Handled /\ <<240, "BEQ">>[1] \in Handled
    BY Zenon, <1>2, <2>1
  <2> QED
    BY <2>2
<1>8. 234 \in Handled
  BY <1>3 DEF NopOne
<1> QED
  BY <1>5, <1>6, <1>7, <1>8 DEF CountedOps

LEMMA CountedLoads ==
    ASSUME Ready, NEW b \in {169, 162, 160}, NEW e, e = stepCpuScaffoldCycleAccurate(b)
    PROVE  JumpSound(b, CaseOf[b][1], e)
<1>0. MachineTyped /\ reg \in RegisterFiles
  BY DEF Ready, MachineTyped
<1>1. PICK n \in Words : n = Plus(pc, 2)
  BY <1>0, NextIsWord
<1>2. PICK v \in Bytes256 : v = Operand
  BY <1>0, OperandsTyped
<1>3. PICK r \in RegisterFiles : e = Effect(r, n)
  <2>1. [reg EXCEPT !.a = v] \in RegisterFiles /\ [reg EXCEPT !.x = v] \in RegisterFiles
        /\ [reg EXCEPT !.y = v] \in RegisterFiles
    BY <1>0 DEF RegisterFiles
  <2>2. \/ e = Effect([reg EXCEPT !.a = v], n)
        \/ e = Effect([reg EXCEPT !.x = v], n)
        \/ e = Effect([reg EXCEPT !.y = v], n)
    BY <1>1, <1>2 DEF stepCpuScaffoldCycleAccurate
  <2> QED
    BY <2>1, <2>2
<1>4. Sound(e) /\ e.pc = n
  BY <1>0, <1>3, EffectIs
<1>5. NotSpecial(b) /\ LengthOf(b) = 2
  BY DEF NotSpecial, IsBranch, LengthOf, Column, OddBlock
<1>6. Leads(b, e)
  BY <1>1, <1>4, <1>5, GoesOn DEF Leads
<1>7. CaseOf[b][1] \notin Stacks /\ CaseOf[b][1] \notin Jumps
  <2>1. b \in Handled
    BY CountedAreHandled DEF CountedOps
  <2>2. InTable(b, CaseOf[b][1], CaseOf[b][2])
    BY <2>1, CaseIs
  <2>3. ~Jump(b, CaseOf[b][1], CaseOf[b][2]) /\ ~Single(b, CaseOf[b][1], CaseOf[b][2])
    BY <1>5 DEF Jump, Single
  <2>4. ~Branch(b, CaseOf[b][1], CaseOf[b][2])
    BY DEF Branch, Branches
  <2>5. PlainOp(b, CaseOf[b][1], CaseOf[b][2])
    BY <2>2, <2>3, <2>4 DEF InTable
  <2> QED
    BY <2>5, PlainOpIs
<1> QED
  BY <1>4, <1>6, <1>7, NotOnStack DEF JumpSound

\* Whatever is executed goes where the 6502 goes, leaves on the stack what a pull is to bring
\* back and brings back what is due.
LEMMA EffectDoes ==
    ASSUME Ready, VectorsAssumption, NEW b, NEW e, e = EffectOf(b)
    PROVE  /\ Sound(e)
           /\ b \in Knows => Leads(b, e) /\ Leaves(CaseOf[b][1], e) /\ Brings(CaseOf[b][1], e)
           /\ b \notin Knows => e.pc = Plus(pc, 1)
<1>0. MachineTyped /\ reg \in RegisterFiles
  BY DEF Ready, MachineTyped
<1>1. CASE b \notin Knows
  <2>1. PICK n \in Words : n = Plus(pc, 1)
    BY <1>0, NextIsWord
  <2>2. e = Effect(reg, n)
    BY <1>1, <2>1 DEF EffectOf
  <2> QED
    BY <1>0, <1>1, <2>1, <2>2, EffectIs
<1>2. CASE b \in Knows /\ Program.micro
  <2>1. b \in Handled /\ e = executeDriveCpuMicroOpBaseOpcode(b)
    BY <1>2 DEF EffectOf, Knows
  <2> QED
    BY <1>2, <2>1, ExecuteDoes DEF JumpSound
<1>3. CASE b \in Knows /\ ~Program.micro
  <2>1. b \in CountedOps /\ b \in Handled /\ e = stepCpuScaffoldCycleAccurate(b)
    BY <1>3, CountedAreHandled DEF EffectOf, Knows
  <2>2. CASE b \in {169, 162, 160}
    BY <1>3, <2>1, <2>2, CountedLoads DEF JumpSound
  <2>3. CASE b \notin {169, 162, 160}
    <3>1. e = executeDriveCpuMicroOpBaseOpcode(b)
      BY <2>1, <2>3 DEF stepCpuScaffoldCycleAccurate
    <3> QED
      BY <1>3, <2>1, <3>1, ExecuteDoes DEF JumpSound
  <2> QED
    BY <2>2, <2>3
<1> QED
  BY <1>1, <1>2, <1>3

-----------------------------------------------------------------------------
(* The inductive invariant of the processor.                               *)

CpuInv ==
    /\ code \in DOMAIN Codes
    /\ Ready
    /\ op \in [phase : Phases, ir : Bytes256]
    /\ ready \in BOOLEAN /\ wait \in 0..5
    /\ InStep /\ PushedComesBack /\ Computes

LEMMA InvComputes == CpuInv => CpuComputes
BY DEF CpuInv, Ready, MachineTyped, CpuComputes, CpuTypeOK

LEMMA VectorsAssumed == CpuConstants => VectorsAssumption
<1>1. RomBase \in Nat
  BY DEF RomBase
<1> QED
  BY <1>1 DEF CpuConstants, VectorsAssumption, Words

LEMMA PlacedIsMap ==
    ASSUME NEW a \in Words, NEW placed, DOMAIN placed \subseteq Nat \ {0},
           \A n \in DOMAIN placed : placed[n] \in Bytes256
    PROVE  MapOK(Placed(a, placed), Words)
<1>1. ASSUME NEW b \in DOMAIN Placed(a, placed)
      PROVE  b \in Words /\ Placed(a, placed)[b] \in Bytes256
  <2>1. PICK n \in DOMAIN placed : b = Plus(a, n - 1)
    BY DEF Placed
  <2>2. b \in Words
    <3>1. n - 1 \in Nat
      OBVIOUS
    <3> QED
      BY <2>1, <3>1, PlusIsWord
  <2>3. Placed(a, placed)[b] = placed[CHOOSE k \in DOMAIN placed : Plus(a, k - 1) = b]
    BY DEF Placed
  <2>4. (CHOOSE k \in DOMAIN placed : Plus(a, k - 1) = b) \in DOMAIN placed
    BY <2>1
  <2> QED
    BY <2>2, <2>3, <2>4
<1> QED
  BY <1>1 DEF MapOK

LEMMA OverKeepsVectors ==
    ASSUME VectorsHold, MapOK(rom, Words), NEW g, MapOK(g, Words)
    PROVE  /\ MapOK(Over(rom, g), Words)
           /\ {65532, 65533, 65534, 65535} \subseteq DOMAIN Over(rom, g)
           /\ \A a \in {65532, 65533, 65534, 65535} : Over(rom, g)[a] = rom[a]
BY DEF VectorsHold, MapOK, Over

LEMMA ReachesKeeps ==
    ASSUME CpuConstants, code \in DOMAIN Codes, VectorsHold, MapOK(rom, Words),
           NEW a \in Words, Reaches(a)
    PROVE  MapOK(rom', Words) /\ VectorsHold'
<1>1. CASE rom' = rom
  BY <1>1 DEF VectorsHold
<1>2. ASSUME NEW g, MapOK(g, Words), rom' = Over(rom, g)
      PROVE  MapOK(rom', Words) /\ VectorsHold'
  BY <1>2, OverKeepsVectors DEF VectorsHold
<1>3. ASSUME NEW placed \in Seq(Bytes256) PROVE MapOK(Placed(a, placed), Words)
  <2>1. DOMAIN placed \subseteq Nat \ {0} /\ \A n \in DOMAIN placed : placed[n] \in Bytes256
    OBVIOUS
  <2> QED
    BY <2>1, PlacedIsMap
<1>4. \A k : MapOK(Placed(a, [n \in 1..k |-> 0]), Words)
  <2> SUFFICES ASSUME NEW k PROVE MapOK(Placed(a, [n \in 1..k |-> 0]), Words)
    OBVIOUS
  <2>1. PICK placed : placed = [n \in 1..k |-> 0]
    OBVIOUS
  <2>2. DOMAIN placed \subseteq Nat \ {0} /\ \A n \in DOMAIN placed : placed[n] \in Bytes256
    BY <2>1 DEF Bytes256
  <2>3. MapOK(Placed(a, placed), Words)
    BY <2>2, PlacedIsMap
  <2> QED
    BY <2>1, <2>3
<1>5. \A placed \in Program.code : placed \in Seq(Bytes256)
  BY DEF CpuConstants, Program
<1>6. \/ rom' = rom
      \/ \E k : rom' = Over(rom, Placed(a, [n \in 1..k |-> 0]))
      \/ \E placed \in Program.code : rom' = Over(rom, Placed(a, placed))
  BY DEF Reaches
<1> QED
  BY <1>1, <1>2, <1>3, <1>4, <1>5, <1>6

LEMMA LedIsRom ==
    ASSUME MachineTyped, VectorsHold, VectorsAssumption, NEW n \in Words
    PROVE  Led(n) \in RomBase..65535 /\ Led(n) \in Words
<1>1. ResetTarget = ResetVector
  BY VectorRead DEF ResetTarget
<1>2. Plus(pc, 1) \in Words
  BY NextIsWord
<1>3. PICK m \in Words : m = IF n = pc THEN Plus(pc, 1) ELSE n
  BY <1>2
<1>4. Led(n) = IF m < RomBase THEN ResetVector ELSE m
  BY <1>1, <1>3 DEF Led
<1>5. RomBase \in Nat
  BY DEF RomBase
<1>6. Led(n) \in Words /\ Led(n) >= RomBase
  BY <1>4, <1>5 DEF VectorsAssumption, Words
<1> QED
  BY <1>5, <1>6 DEF Words

LEMMA SizesAre ==
    /\ Sizes["PHA"] = 1 /\ Sizes["PHP"] = 1 /\ Sizes["JSR"] = 2 /\ Sizes["BRK"] = 3
    /\ DOMAIN Sizes = {"PHA", "PHP", "JSR", "BRK"}
BY DEF Sizes

LEMMA HoldsKept ==
    ASSUME NEW s, EntryTyped(s), NEW m, NEW k, Holds(s, m),
           \A a \in Cells(s) : At(k, a) = At(m, a)
    PROVE  Holds(s, k)
<1>1. \A n \in 1..Sizes[s.kind] : ValueAt(k, s, n) = ValueAt(m, s, n)
  BY DEF Cells, ValueAt
<1>2. s.kind \in {"PHA", "PHP", "JSR", "BRK"} /\ 1 \in 1..Sizes[s.kind]
      /\ (s.kind = "JSR" => 2 \in 1..Sizes[s.kind])
      /\ (s.kind = "BRK" => 2 \in 1..Sizes[s.kind] /\ 3 \in 1..Sizes[s.kind])
  BY SizesAre DEF EntryTyped
<1> QED
  BY <1>1, <1>2 DEF Holds

LEMMA ViasTyped ==
    ASSUME CpuConstants, code \in DOMAIN Codes, ViasShow
    PROVE  MapOK(io', 0..(RomBase - 1))
BY DEF CpuConstants, ViasShow, Program

\* An instruction, done by either engine.
LEMMA PerformsKeeps ==
    ASSUME CpuConstants, code \in DOMAIN Codes, Ready, NEW b, Performs(b), ViasShow, code' = code
    PROVE  Ready' /\ InStep' /\ PushedComesBack' /\ Computes'
<1>0. MachineTyped /\ CopiesAgree /\ StackKept /\ VectorsHold /\ VectorsAssumption
  BY VectorsAssumed DEF Ready
<1>1. PICK e : e = EffectOf(b)
  OBVIOUS
<1>2. PICK below : below = [a \in DOMAIN e.wrote \cap 0..(RomBase - 1) |-> e.wrote[a]]
  OBVIOUS
<1>3. /\ reg' = e.reg
      /\ pc' = Led(e.pc)
      /\ Reaches(Led(e.pc))
      /\ ram' = Over([a \in {x \in DOMAIN below : ~is_io_(x)} |-> below[a]], ram)
      /\ cpuMemory' = Over(e.pushed, Over(below, cpuMemory))
      /\ Remember(b, e)
  BY <1>1, <1>2 DEF Performs
<1>kept. PICK kept : kept = [a \in {x \in DOMAIN below : ~is_io_(x)} |-> below[a]]
  OBVIOUS
<1>layer. /\ ram' = Over(kept, ram) /\ DOMAIN kept \subseteq DOMAIN below
          /\ \A a \in DOMAIN kept : kept[a] = below[a]
          /\ \A a \in DOMAIN below : a \in DOMAIN kept \/ is_io_(a)
  BY <1>3, <1>kept
<1>4. /\ Sound(e)
      /\ b \in Knows => Leads(b, e) /\ Leaves(CaseOf[b][1], e) /\ Brings(CaseOf[b][1], e)
      /\ b \notin Knows => e.pc = Plus(pc, 1)
  BY <1>0, <1>1, EffectDoes
<1>5. PICK o : o = IF b \in Knows THEN CaseOf[b][1] ELSE "none"
  OBVIOUS
<1>6. PICK m : m = IF b \in Knows THEN CaseOf[b][2] ELSE "one"
  OBVIOUS
<1>7. PICK v : v = IF m \in {"one", "rel", "ind"} THEN 0 ELSE read(Address(m))
  OBVIOUS
<1>8. /\ was' = [op |-> o, reg |-> reg, v |-> v]
      /\ nextDue' = {Led(t) : t \in IF b \in Knows THEN GoesTo(b) ELSE {Plus(pc, 1)}}
      /\ onStack' = OwedAfter(o, e)
      /\ back' = Matching(o)
  BY <1>3, <1>5, <1>6, <1>7 DEF Remember
<1>9. Leaves(o, e) /\ Brings(o, e)
  <2>1. CASE b \in Knows
    BY <1>4, <1>5, <2>1
  <2>2. CASE b \notin Knows
    BY <1>5, <2>2, NotOnStack DEF Stacks, Jumps
  <2> QED
    BY <2>1, <2>2
<1>10. MachineTyped'
  <2>1. reg' \in RegisterFiles
    BY <1>3, <1>4 DEF Sound
  <2>2. pc' \in RomBase..65535 /\ pc' \in Words
    BY <1>0, <1>3, <1>4, LedIsRom DEF Sound
  <2>3. MapOK(rom', Words)
    BY <1>0, <1>3, <2>2, ReachesKeeps DEF MachineTyped
  <2>4. DOMAIN below \subseteq 0..(RomBase - 1) /\ \A a \in DOMAIN below : below[a] \in Bytes256
    BY <1>2, <1>4 DEF Sound
  <2>5. MapOK(ram', 0..(RomBase - 1)) /\ MapOK(Over(below, cpuMemory), 0..(RomBase - 1))
    <3>1. MapOK(ram, 0..(RomBase - 1)) /\ MapOK(cpuMemory, 0..(RomBase - 1))
      BY <1>0 DEF MachineTyped
    <3>2. PICK places : places = 0..(RomBase - 1)
      OBVIOUS
    <3>3. DOMAIN kept \subseteq places /\ \A a \in DOMAIN kept : kept[a] \in Bytes256
      BY Zenon, <1>layer, <2>4, <3>2
    <3>4. MapOK(Over(kept, ram), places) /\ MapOK(Over(below, cpuMemory), places)
      BY Zenon, <2>4, <3>1, <3>2, <3>3, LayerOK
    <3> QED
      BY <1>layer, <3>2, <3>4
  <2>6. \A a \in 256..511 : a \in 0..(RomBase - 1)
    BY DEF RomBase
  <2>7. DOMAIN e.pushed \subseteq 0..(RomBase - 1) /\ \A a \in DOMAIN e.pushed : e.pushed[a] \in Bytes256
    BY <1>4, <2>6 DEF Sound
  <2>8. MapOK(cpuMemory', 0..(RomBase - 1))
    BY <1>3, <2>5, <2>7, LayerOK
  <2>9. MapOK(io', 0..(RomBase - 1))
    BY ViasTyped
  <2> QED
    BY <2>1, <2>2, <2>3, <2>5, <2>8, <2>9 DEF MachineTyped
<1>11. VectorsHold'
  <2>1. pc' \in Words /\ MapOK(rom, Words)
    BY <1>0, <1>3, <1>4, LedIsRom DEF Sound, MachineTyped
  <2> QED
    BY <1>0, <1>3, <2>1, ReachesKeeps
<1>12. CopiesAgree'
  <2>1. ASSUME NEW a PROVE At(cpuMemory', a) = At(ram', a) \/ a \in 256..511 \/ is_io_(a)
    <3>1. CASE a \in DOMAIN e.pushed
      BY <1>4, <3>1 DEF Sound
    <3>2. CASE a \notin DOMAIN e.pushed
      <4>1. At(cpuMemory', a) = IF a \in DOMAIN below THEN below[a] ELSE At(cpuMemory, a)
        BY <1>3, <3>2, LayerOn
      <4>2. At(ram', a) = IF a \in DOMAIN kept THEN kept[a] ELSE At(ram, a)
        BY <1>layer, LayerOn
      <4>3. At(cpuMemory, a) = At(ram, a) \/ a \in 256..511 \/ is_io_(a)
        BY <1>0 DEF CopiesAgree, At
      <4>4. a \in DOMAIN kept => a \in DOMAIN below /\ kept[a] = below[a]
        BY <1>layer
      <4>5. a \in DOMAIN below => a \in DOMAIN kept \/ is_io_(a)
        BY <1>layer
      <4> QED
        BY <4>1, <4>2, <4>3, <4>4, <4>5
    <3> QED
      BY <3>1, <3>2
  <2> QED
    BY <2>1 DEF CopiesAgree
<1>13. StackKept'
  <2> SUFFICES ASSUME NEW s \in OwedAfter(o, e)
               PROVE  EntryTyped(s) /\ Holds(s, cpuMemory')
    BY <1>8 DEF StackKept
  <2>1. \/ s \in Whole(onStack \ Matching(o), DOMAIN e.wrote \cup DOMAIN e.pushed)
        \/ s = Pushed(o, e.reg) /\ o \in DOMAIN Sizes
    BY DEF OwedAfter
  <2>2. CASE s \in Whole(onStack \ Matching(o), DOMAIN e.wrote \cup DOMAIN e.pushed)
    <3>1. s \in onStack /\ \A a \in Cells(s) : a \notin DOMAIN e.wrote /\ a \notin DOMAIN e.pushed
      BY <2>2 DEF Whole
    <3>2. EntryTyped(s) /\ Holds(s, cpuMemory)
      BY <1>0, <3>1 DEF StackKept
    <3>3. ASSUME NEW a \in Cells(s) PROVE At(cpuMemory', a) = At(cpuMemory, a)
      <4>1. a \notin DOMAIN below /\ a \notin DOMAIN e.pushed
        BY <1>2, <3>1
      <4> QED
        BY <1>3, <4>1, LayerOn
    <3> QED
      BY <3>2, <3>3, HoldsKept
  <2>3. CASE s = Pushed(o, e.reg) /\ o \in DOMAIN Sizes
    BY <1>3, <1>9, <2>3 DEF Leaves
  <2> QED
    BY <2>1, <2>2, <2>3
<1>14. InStep'
  <2>1. \A t \in IF b \in Knows THEN GoesTo(b) ELSE {Plus(pc, 1)} : t = e.pc
    BY <1>4 DEF Leads
  <2> QED
    BY <1>3, <1>8, <2>1 DEF InStep
<1>15. PushedComesBack'
  BY <1>3, <1>8, <1>9 DEF PushedComesBack, Brings
<1>16. Computes'
  <2> SUFFICES ASSUME Program.micro PROVE ComputedOf(o, reg, v, e.reg)
    BY <1>3, <1>8 DEF Computes, Program
  <2>1. CASE b \in Knows
    <3>1. b \in Handled /\ e = executeDriveCpuMicroOpBaseOpcode(b)
      BY <1>1, <2>1 DEF Knows, EffectOf
    <3> QED
      BY <1>0, <1>5, <1>6, <1>7, <2>1, <3>1, ExecuteComputes
  <2>2. CASE b \notin Knows
    BY <1>5, <2>2 DEF ComputedOf
  <2> QED
    BY <2>1, <2>2
<1> QED
  BY <1>10, <1>11, <1>12, <1>13, <1>14, <1>15, <1>16 DEF Ready

-----------------------------------------------------------------------------
(* The steps.                                                              *)

ApartFrom(a, placed) == \A i, k \in DOMAIN placed : Plus(a, i - 1) = Plus(a, k - 1) => i = k
StandsAt(a, placed, n) ==
    Plus(a, n - 1) \in DOMAIN Placed(a, placed) /\ Placed(a, placed)[Plus(a, n - 1)] = placed[n]

LEMMA PlacedHolds ==
    ASSUME NEW a, NEW placed, ApartFrom(a, placed), NEW n \in DOMAIN placed
    PROVE  StandsAt(a, placed, n)
<1>1. Plus(a, n - 1) \in DOMAIN Placed(a, placed)
  BY DEF Placed
<1>2. Placed(a, placed)[Plus(a, n - 1)]
        = placed[CHOOSE k \in DOMAIN placed : Plus(a, k - 1) = Plus(a, n - 1)]
  BY <1>1 DEF Placed
<1> DEFINE c == CHOOSE k \in DOMAIN placed : Plus(a, k - 1) = Plus(a, n - 1)
<1>3. c \in DOMAIN placed /\ Plus(a, c - 1) = Plus(a, n - 1)
  BY Zenon
<1> HIDE DEF c
<1>4. c = n
  BY <1>3 DEF ApartFrom
<1> QED
  BY <1>1, <1>2, <1>4 DEF c, StandsAt

LEMMA VectorsPlaced ==
    ASSUME VectorsAssumption
    PROVE  /\ MapOK(Vectors, Words)
           /\ {65532, 65533, 65534, 65535} \subseteq DOMAIN Vectors
           /\ Vectors[65532] = Low(ResetVector) /\ Vectors[65533] = High(ResetVector)
           /\ Vectors[65534] = Low(IrqVector) /\ Vectors[65535] = High(IrqVector)
<1>1. PICK v : v = <<Low(ResetVector), High(ResetVector), Low(IrqVector), High(IrqVector)>>
  OBVIOUS
<1>2. /\ Low(ResetVector) \in Bytes256 /\ High(ResetVector) \in Bytes256
      /\ Low(IrqVector) \in Bytes256 /\ High(IrqVector) \in Bytes256
  BY HalvesOfWord DEF VectorsAssumption
<1>3. /\ DOMAIN v = 1..4
      /\ v[1] = Low(ResetVector) /\ v[2] = High(ResetVector)
      /\ v[3] = Low(IrqVector) /\ v[4] = High(IrqVector)
  BY <1>1
<1>4. \A n \in 1..4 : v[n] \in Bytes256
  BY <1>2, <1>3
<1>5. 65532 \in Words
  BY DEF Words
<1>6. Vectors = Placed(65532, v)
  BY <1>1 DEF Vectors
<1>7. MapOK(Vectors, Words)
  BY <1>3, <1>4, <1>5, <1>6, PlacedIsMap
<1>8. \A n \in 1..4 : Plus(65532, n - 1) = 65531 + n
  BY DEF Plus
<1>9. \A n \in 1..4 : 65531 + n \in DOMAIN Vectors /\ Vectors[65531 + n] = v[n]
  <2>1. \A i, k \in 1..4 : Plus(65532, i - 1) = Plus(65532, k - 1) => i = k
    BY <1>8
  <2>2. PICK a : a = 65532
    OBVIOUS
  <2>3. \A i, k \in 1..4 : Plus(a, i - 1) = Plus(a, k - 1) => i = k
    BY <2>1, <2>2
  <2>4. \A n \in 1..4 : Plus(a, n - 1) \in DOMAIN Placed(a, v) /\ Placed(a, v)[Plus(a, n - 1)] = v[n]
    <3>1. ApartFrom(a, v)
      BY <1>3, <2>3 DEF ApartFrom
    <3>2. \A n \in DOMAIN v : StandsAt(a, v, n)
      BY <3>1, PlacedHolds
    <3> QED
      BY <1>3, <3>2 DEF StandsAt
  <2> QED
    BY <1>6, <1>8, <2>2, <2>4
<1>10. /\ 65532 \in DOMAIN Vectors /\ Vectors[65532] = v[1]
       /\ 65533 \in DOMAIN Vectors /\ Vectors[65533] = v[2]
       /\ 65534 \in DOMAIN Vectors /\ Vectors[65534] = v[3]
       /\ 65535 \in DOMAIN Vectors /\ Vectors[65535] = v[4]
  <2>1. 65531 + 1 \in DOMAIN Vectors /\ Vectors[65531 + 1] = v[1]
    BY <1>9
  <2>2. 65531 + 2 \in DOMAIN Vectors /\ Vectors[65531 + 2] = v[2]
    BY <1>9
  <2>3. 65531 + 3 \in DOMAIN Vectors /\ Vectors[65531 + 3] = v[3]
    BY <1>9
  <2>4. 65531 + 4 \in DOMAIN Vectors /\ Vectors[65531 + 4] = v[4]
    BY <1>9
  <2> QED
    BY <2>1, <2>2, <2>3, <2>4
<1> QED
  BY <1>3, <1>7, <1>10

LEMMA NothingComputed ==
    ASSUME NEW o, o = "none", NEW r, NEW v, NEW n
    PROVE  ComputedOf(o, r, v, n)
BY DEF ComputedOf

LEMMA Registers0Typed == Registers0 \in RegisterFiles
BY FlagsAreFlags DEF Registers0, RegisterFiles, Bytes256

LEMMA StoppedTyped == Stopped \in [phase : Phases, ir : Bytes256]
BY DEF Stopped, Phases, Bytes256

LEMMA CpuStarts ==
    ASSUME CpuConstants, CpuInit
    PROVE  CpuInv
<1>0. VectorsAssumption
  BY VectorsAssumed
<1>1. code \in DOMAIN Codes /\ Program = Codes[code]
  BY DEF CpuInit, Program
<1>2. PICK placed \in Program.code : rom = Over(Vectors, Placed(ResetVector, placed))
  BY DEF CpuInit
<1>3. MapOK(Placed(ResetVector, placed), Words)
  <2>1. placed \in Seq(Bytes256)
    BY <1>1, <1>2 DEF CpuConstants
  <2>2. DOMAIN placed \subseteq Nat \ {0} /\ \A n \in DOMAIN placed : placed[n] \in Bytes256
    BY <2>1
  <2>3. ResetVector \in Words
    BY <1>0 DEF VectorsAssumption
  <2> QED
    BY <2>2, <2>3, PlacedIsMap
<1>4. MapOK(rom, Words)
  BY <1>0, <1>2, <1>3, VectorsPlaced, LayerOK DEF MapOK
<1>5. VectorsHold
  BY <1>0, <1>2, VectorsPlaced DEF VectorsHold, Over
<1>6. MapOK(cpuMemory, 0..(RomBase - 1)) /\ ram = cpuMemory
  BY <1>1 DEF CpuInit, CpuConstants
<1>7. reg \in RegisterFiles
  BY <1>1 DEF CpuInit, CpuConstants
<1>8. pc \in RomBase..65535
  BY DEF CpuInit, CpuConstants
<1>9. MachineTyped
  <2>1. MapOK(io, 0..(RomBase - 1))
    BY <1>1 DEF CpuInit, CpuConstants
  <2> QED
    BY <1>4, <1>6, <1>7, <1>8, <2>1 DEF MachineTyped
<1>10. CopiesAgree
  BY <1>6 DEF CopiesAgree
<1>11. StackKept /\ InStep /\ PushedComesBack
  BY DEF CpuInit, StackKept, InStep, PushedComesBack
<1>12. Computes
  BY NothingComputed DEF CpuInit, Nothing, Computes
<1>13. op \in [phase : Phases, ir : Bytes256] /\ ready \in BOOLEAN /\ wait \in 0..5
  <2>1. op = Stopped /\ ready = FALSE /\ wait = 0
    BY DEF CpuInit
  <2>2. op \in [phase : Phases, ir : Bytes256]
    BY Zenon, <2>1, StoppedTyped
  <2>3. ready \in BOOLEAN
    BY Zenon, <2>1
  <2>4. wait \in 0..5
    BY <2>1
  <2> QED
    BY <2>2, <2>3, <2>4
<1> QED
  BY <1>1, <1>5, <1>9, <1>10, <1>11, <1>12, <1>13 DEF CpuInv, Ready

\* The cycles that are left of an instruction that is done at once.
LEMMA CyclesWaited ==
    ASSUME NEW n \in {2, 3, 6}, NEW s \in Nat \ {0}
    PROVE  ((n + s - 1) \div s) - 1 \in 0..5
<1>1. PICK q \in Int : q = (n + s - 1) \div s
  OBVIOUS
<1>2. s * q <= n + s - 1 /\ n + s - 1 < s * q + s
  BY <1>1
<1>3. q >= 1
  <2>1. q <= 0 => s * q <= 0
    OBVIOUS
  <2> QED
    BY <1>2, <2>1
<1>4. q <= 6
  <2>1. q >= 7 => s * q >= s * 7
    OBVIOUS
  <2> QED
    BY <1>2, <2>1
<1> QED
  BY <1>1, <1>3, <1>4

LEMMA SameKeeps ==
    ASSUME Ready, InStep, PushedComesBack, Computes, MapOK(io', 0..(RomBase - 1)),
           UNCHANGED <<code, rom, cpuMemory, ram, reg, pc, cpuHistory>>
    PROVE  Ready' /\ InStep' /\ PushedComesBack' /\ Computes'
<1>1. /\ code' = code /\ rom' = rom /\ cpuMemory' = cpuMemory /\ ram' = ram /\ reg' = reg /\ pc' = pc
      /\ was' = was /\ nextDue' = nextDue /\ onStack' = onStack /\ back' = back
  BY DEF cpuHistory
<1>2. MachineTyped' /\ VectorsHold' /\ CopiesAgree' /\ StackKept'
  BY <1>1 DEF Ready, MachineTyped, VectorsHold, CopiesAgree, StackKept
<1>3. InStep' /\ PushedComesBack' /\ Computes'
  BY <1>1 DEF InStep, PushedComesBack, Computes, Program
<1> QED
  BY <1>2, <1>3 DEF Ready

LEMMA ResetKeeps ==
    ASSUME CpuConstants, CpuInv, RESET
    PROVE  CpuInv'
<1>0. MachineTyped /\ VectorsHold /\ VectorsAssumption /\ MapOK(io', 0..(RomBase - 1))
  BY VectorsAssumed, ViasTyped DEF CpuInv, Ready, RESET
<1>1. /\ reg' = Registers0 /\ pc' = ResetTarget /\ ram' = cpuMemory /\ op' = Stopped
      /\ ready' = FALSE /\ wait' = 0 /\ was' = Nothing
      /\ nextDue' = {ResetTarget} /\ onStack' = {} /\ back' = {}
      /\ code' = code /\ rom' = rom /\ cpuMemory' = cpuMemory
  BY DEF RESET
<1>2. pc' = ResetVector /\ ResetVector \in RomBase..65535
  BY <1>0, <1>1, VectorRead DEF ResetTarget, CpuConstants
<1>3. MachineTyped'
  BY <1>0, <1>1, <1>2, Registers0Typed DEF MachineTyped
<1>4. VectorsHold' /\ CopiesAgree' /\ StackKept'
  BY <1>0, <1>1 DEF VectorsHold, CopiesAgree, StackKept
<1>5. InStep' /\ PushedComesBack'
  BY <1>1 DEF InStep, PushedComesBack
<1>6. Computes'
  BY <1>1, NothingComputed DEF Computes, Nothing
<1>7. code' \in DOMAIN Codes /\ op' \in [phase : Phases, ir : Bytes256] /\ ready' \in BOOLEAN /\ wait' \in 0..5
  <2>1. code \in DOMAIN Codes
    BY DEF CpuInv
  <2>2. op' \in [phase : Phases, ir : Bytes256]
    BY Zenon, <1>1, StoppedTyped
  <2>3. ready' \in BOOLEAN
    BY Zenon, <1>1
  <2>4. wait' \in 0..5
    BY <1>1
  <2> QED
    BY <1>1, <2>1, <2>2, <2>3, <2>4
<1> QED
  BY <1>3, <1>4, <1>5, <1>6, <1>7 DEF CpuInv, Ready

LEMMA CpuSteps ==
    ASSUME CpuConstants, CpuInv, [CpuNext]_cpuVars
    PROVE  CpuInv'
<1>0. /\ code \in DOMAIN Codes /\ Ready /\ MachineTyped
      /\ op \in [phase : Phases, ir : Bytes256] /\ ready \in BOOLEAN /\ wait \in 0..5
      /\ InStep /\ PushedComesBack /\ Computes
  BY DEF CpuInv, Ready
<1>1. CASE Fetch
  <2>1. op' \in [phase : Phases, ir : Bytes256]
    BY <1>0, <1>1, ReadsTyped DEF Fetch, Phases
  <2>2. UNCHANGED <<code, rom, cpuMemory, ram, reg, pc, cpuHistory>> /\ ready' = ready /\ wait' = wait
    BY <1>1 DEF Fetch
  <2>3. MapOK(io', 0..(RomBase - 1))
    BY <1>0, <1>1, ViasTyped DEF Fetch
  <2> QED
    BY <1>0, <2>1, <2>2, <2>3, SameKeeps DEF CpuInv
<1>2. CASE Execute
  <2>1. op' \in [phase : Phases, ir : Bytes256]
    BY <1>0, <1>2 DEF Execute, Phases
  <2>2. Performs(op.ir) /\ ViasShow /\ code' = code /\ ready' = ready /\ wait' = wait
    BY <1>2 DEF Execute
  <2> QED
    BY <1>0, <2>1, <2>2, PerformsKeeps DEF CpuInv
<1>3. CASE Proceed
  <2>1. op' \in [phase : Phases, ir : Bytes256]
    BY <1>0, <1>3 DEF Proceed, Phases, AfterPhase
  <2>2. UNCHANGED <<code, rom, cpuMemory, ram, reg, pc, cpuHistory>> /\ ready' = ready /\ wait' = wait
    BY <1>3 DEF Proceed
  <2>3. MapOK(io', 0..(RomBase - 1))
    BY <1>0, <1>3, ViasTyped DEF Proceed
  <2> QED
    BY <1>0, <2>1, <2>2, <2>3, SameKeeps DEF CpuInv
<1>4. CASE HalfTick
  <2>1. UNCHANGED <<code, rom, cpuMemory, ram, reg, pc, cpuHistory>>
        /\ op' = op /\ ready' = FALSE /\ wait' = wait
    BY <1>4 DEF HalfTick
  <2>3. MapOK(io', 0..(RomBase - 1))
    BY <1>0, <1>4, ViasTyped DEF HalfTick
  <2> QED
    BY <1>0, <2>1, <2>3, SameKeeps DEF CpuInv
<1>5. CASE WaitCycle
  <2>1. UNCHANGED <<code, rom, cpuMemory, ram, reg, pc, cpuHistory>>
        /\ op' = op /\ ready' = TRUE /\ wait' \in 0..5
    BY <1>0, <1>5 DEF WaitCycle
  <2>3. MapOK(io', 0..(RomBase - 1))
    BY <1>0, <1>5, ViasTyped DEF WaitCycle
  <2> QED
    BY <1>0, <2>1, <2>3, SameKeeps DEF CpuInv
<1>6. CASE Step
  <2>1. Performs(read(pc)) /\ ViasShow /\ code' = code /\ op' = op /\ ready' = TRUE
    BY <1>6 DEF Step
  <2>2. wait' \in 0..5
    <3>1. wait' = CyclesToNext(Cycles(read(pc)))
      BY <1>6 DEF Step
    <3>2. Program.scale \in Nat \ {0}
      BY <1>0 DEF CpuConstants, Program
    <3>3. Cycles(read(pc)) \in {2, 3, 6}
      BY DEF Cycles
    <3> QED
      BY <3>1, <3>2, <3>3, CyclesWaited DEF CyclesToNext
  <2> QED
    BY <1>0, <2>1, <2>2, PerformsKeeps DEF CpuInv
<1>7. CASE RESET
  BY <1>7, ResetKeeps
<1>8. CASE UNCHANGED cpuVars
  <2>1. UNCHANGED <<code, rom, cpuMemory, ram, reg, pc, cpuHistory>>
        /\ op' = op /\ ready' = ready /\ wait' = wait /\ io' = io
    BY <1>8 DEF cpuVars, machine
  <2> QED
    BY <1>0, <2>1, SameKeeps DEF CpuInv, MachineTyped
<1>9. CASE Disabled
  BY <1>8, <1>9 DEF Disabled
<1> QED
  BY <1>1, <1>2, <1>3, <1>4, <1>5, <1>6, <1>7, <1>8, <1>9 DEF CpuNext

\* For every ROM and every program, whichever of the two engines runs it, the registers, the
\* memories and the stack's entries stay as CpuInv has them: every entry that is whole stands
\* in its cells, and the copies of the memory differ in the stack's page and behind the VIAs'
\* windows alone.
THEOREM CpuInvariant ==
    ASSUME CpuConstants
    PROVE  CpuSpec => []CpuInv
<1>1. CpuInit => CpuInv
  BY CpuStarts
<1>2. CpuInv /\ [CpuNext]_cpuVars => CpuInv'
  BY CpuSteps
<1> QED
  BY <1>1, <1>2, PTL DEF CpuSpec

\* The processor goes where the 6502 goes, a stack gives back what it was given, sums and
\* comparisons are those of the numbers, and the copies of the memory differ in the stack's
\* page and behind the VIAs' windows alone.
THEOREM CpuCorrect ==
    ASSUME CpuConstants
    PROVE  CpuSpec => []CpuComputes
<1>1. CpuInv => CpuComputes
  BY InvComputes
<1> QED
  BY <1>1, CpuInvariant, PTL

================================================================================
