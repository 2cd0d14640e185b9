-------------------------- MODULE IecBusDomainProofs --------------------------
(***************************************************************************)
(* Proofs about the bus (IecBusDomain): its types and the order of its     *)
(* queue, that time passes no event and no tick, that the wires follow the *)
(* pulls, and that a change of the wires is on its way to both sides.  They *)
(* hold for all latencies, jitters, periods, rise times and devices, and   *)
(* of everything a user can do between two calls (FullSpec).               *)
(***************************************************************************)
EXTENDS IecBusDomain, FiniteSetTheorems, SequenceTheorems, WellFoundedInduction, TLAPS

Elements(q) == {q[i] : i \in DOMAIN q}

Ordered(q) == \A i, j \in DOMAIN q : i < j => q[i].when =< q[j].when

\* What an event carries: pulls of its side, or the line it is for.
Carries(ev) ==
    /\ ev.kind = "c64Pulls" => ev.low \subseteq HostLines
    /\ ev.kind = "drivePulls" => ev.low \subseteq DeviceLines
    /\ ev.kind = "rise" => LineModelEnabled /\ \E l \in Lines : ev.low = {l}

QueueOK(q) ==
    /\ q \in Seq(EventType)
    /\ Ordered(q)
    /\ \A ev \in Elements(q) : Carries(ev)

IsLiveRise(ev, l) == ev.kind = "rise" /\ ev.low = {l} /\ ev.live

\* The times of the live rise events of a line.
RiseTimes(q, l) == {ev.when : ev \in {e \in Elements(q) : IsLiveRise(e, l)}}

\* A low line is pulled, and then no rise event of it is live, or it is pending,
\* and then it has one rise event, for the time it may rise.
LineOK(q, ln, low, l) ==
    /\ ln.high => l \notin low /\ ~ ln.pending
    /\ ~ ln.high =>
         /\ ln.pending <=> l \notin low
         /\ l \in low => RiseTimes(q, l) = {}
         /\ ln.pending => RiseTimes(q, l) = {RiseTime(l) - ln.lowFor}

WiresOK(q, ln, low) == \A l \in Lines : LineOK(q, ln[l], low, l)

LinesType(ln) ==
    /\ ln \in [Lines -> LineType]
    /\ \A l \in Lines : ln[l].lowFor =< LongestLow(l)

IInv ==
    /\ TypeOK
    /\ QueueOK(events)
    /\ LinesType(line)
    /\ NothingOverdue
    /\ WiresOK(events, line, linkC64 \cup linkDrive)
    /\ SamplesOnTheirWay

-----------------------------------------------------------------------------
(* The queue *)

\* An initial part of an interval is the interval of its size.
LEMMA InitialPart ==
    ASSUME NEW n \in Nat, NEW S \in SUBSET (1 .. n),
           \A i \in S : \A j \in 1 .. i : j \in S
    PROVE  /\ Cardinality(S) \in 0 .. n
           /\ S = 1 .. Cardinality(S)
<1> DEFINE T == {k \in Nat : k + 1 \notin S}
           less == {p \in Nat \X Nat : p[1] < p[2]}
<1>1. OpToRel(<, Nat) = less
  BY Zenon DEF OpToRel
<1>2. IsWellFoundedOn(less, Nat)
  BY <1>1, NatLessThanWellFounded
<1>3. \A m, k \in Nat : <<m, k>> \in less <=> m < k
  OBVIOUS
<1>4. n \in T /\ T \subseteq Nat
  OBVIOUS
<1> HIDE DEF less
<1>5. PICK m \in T : \A k \in T : ~ (<<k, m>> \in less)
  <2> HIDE DEF T
  <2> QED  BY <1>2, <1>4, WFMin
<1>6. m \in Nat /\ m + 1 \notin S /\ m =< n
  <2>1. m \in Nat /\ m + 1 \notin S
    BY <1>5
  <2>2. ~ (<<n, m>> \in less)
    BY <1>4, <1>5
  <2> QED
    BY <1>3, <2>1, <2>2
<1>7. \A i \in S : i =< m
  BY <1>6
<1>8. \A i \in 1 .. m : i \in S
  <2> SUFFICES ASSUME NEW i \in 1 .. m, i \notin S PROVE FALSE
    OBVIOUS
  <2>1. i - 1 \in Nat /\ i - 1 + 1 = i /\ i - 1 < m
    BY <1>6
  <2>2. i - 1 \in T
    BY <2>1
  <2> QED
    BY <1>3, <1>5, <1>6, <2>1, <2>2
<1>9. S = 1 .. m
  <2>1. \A i \in S : i \in 1 .. m
    BY <1>6, <1>7
  <2> QED
    BY <1>8, <2>1
<1>10. Cardinality(1 .. m) = m
  BY <1>6, FS_Interval
<1> QED
  BY <1>6, <1>9, <1>10

\* s is q with ev behind the k events that are not later.
InsertedAt(s, q, ev, k) ==
    /\ k \in 0 .. Len(q)
    /\ \A i \in 1 .. Len(q) : q[i].when =< ev.when <=> i =< k
    /\ s \in Seq(EventType) /\ Len(s) = Len(q) + 1
    /\ \A i \in 1 .. Len(q) + 1 :
         s[i] = IF i =< k THEN q[i] ELSE IF i = k + 1 THEN ev ELSE q[i - 1]

\* Where scheduling puts an event.
LEMMA SchedulePlace ==
    ASSUME NEW q \in Seq(EventType), Ordered(q), NEW ev \in EventType
    PROVE  \E k \in Nat : InsertedAt(Schedule(q, ev), q, ev, k)
<1> DEFINE n == Len(q)
           S == {i \in DOMAIN q : q[i].when =< ev.when}
           k == Cardinality(S)
           s == Schedule(q, ev)
<1>1. n \in Nat /\ DOMAIN q = 1 .. n /\ \A i \in 1 .. n : q[i] \in EventType
  OBVIOUS
<1>2. \A i \in 1 .. n : q[i].when \in Nat
  BY <1>1 DEF EventType
<1>3. ev.when \in Nat
  BY DEF EventType
<1>4. \A i \in S : \A j \in 1 .. i : j \in S
  <2> SUFFICES ASSUME NEW i \in S, NEW j \in 1 .. i PROVE j \in S
    OBVIOUS
  <2>1. i \in 1 .. n /\ j \in 1 .. n /\ q[i].when =< ev.when
    BY <1>1
  <2> HIDE DEF n, S
  <2>2. q[j].when =< q[i].when
    <3>1. CASE j = i
      BY <1>2, <2>1, <3>1
    <3>2. CASE j # i
      <4>1. j < i
        BY <1>1, <2>1, <3>2
      <4> QED
        BY <1>1, <2>1, <4>1 DEF Ordered
    <3> QED
      BY <3>1, <3>2
  <2> QED
    BY <1>1, <1>2, <1>3, <2>1, <2>2 DEF S
<1>5. k \in 0 .. n /\ S = 1 .. k
  <2>1. S \in SUBSET (DOMAIN q) /\ DOMAIN q = 1 .. n
    BY <1>1, Zenon
  <2> HIDE DEF S, n
  <2> QED
    BY <1>1, <1>4, <2>1, InitialPart
<1>6. s = SubSeq(q, 1, k) \o <<ev>> \o SubSeq(q, k + 1, n)
  <2>1. s = SubSeq(q, 1, (1 + k) - 1) \o <<ev>> \o SubSeq(q, 1 + k, n)
    BY DEF Schedule, InsertAt
  <2>2. (1 + k) - 1 = k /\ 1 + k = k + 1
    BY <1>5
  <2> QED
    BY <2>1, <2>2, Zenon
<1> HIDE DEF n, S, k, s
<1>7. /\ SubSeq(q, 1, k) \in Seq(EventType) /\ Len(SubSeq(q, 1, k)) = k
      /\ \A i \in 1 .. k : SubSeq(q, 1, k)[i] = q[i]
  BY <1>1, <1>5
<1>8. /\ SubSeq(q, k + 1, n) \in Seq(EventType) /\ Len(SubSeq(q, k + 1, n)) = n - k
      /\ \A i \in 1 .. n - k : SubSeq(q, k + 1, n)[i] = q[k + i]
  <2>1. k + 1 \in Int /\ n \in Int /\ \A i \in k + 1 .. n : q[i] \in EventType
    BY <1>1, <1>5
  <2>2. /\ SubSeq(q, k + 1, n) \in Seq(EventType)
        /\ Len(SubSeq(q, k + 1, n)) = IF k + 1 =< n THEN n - (k + 1) + 1 ELSE 0
        /\ \A i \in 1 .. n - (k + 1) + 1 : SubSeq(q, k + 1, n)[i] = q[k + 1 + i - 1]
    BY <2>1, SubSeqProperties
  <2>3. n - (k + 1) + 1 = n - k /\ \A i \in 1 .. n - k : k + 1 + i - 1 = k + i
    BY <1>1, <1>5
  <2>4. (IF k + 1 =< n THEN n - (k + 1) + 1 ELSE 0) = n - k
    BY <1>1, <1>5
  <2> QED
    BY <2>2, <2>3, <2>4
<1>9. /\ s \in Seq(EventType) /\ Len(s) = n + 1
      /\ \A i \in 1 .. n + 1 : s[i] = IF i =< k THEN q[i]
                                      ELSE IF i = k + 1 THEN ev ELSE q[i - 1]
  <2> DEFINE a == SubSeq(q, 1, k)
             b == SubSeq(q, k + 1, n)
  <2>1. a \o <<ev>> \in Seq(EventType) /\ Len(a \o <<ev>>) = k + 1
        /\ \A i \in 1 .. k + 1 : (a \o <<ev>>)[i] = IF i =< k THEN q[i] ELSE ev
    BY <1>5, <1>7
  <2> DEFINE c == a \o <<ev>>
  <2> HIDE DEF a, b, c
  <2>2. c \in Seq(EventType) /\ Len(c) = k + 1
        /\ \A i \in 1 .. k + 1 : c[i] = IF i =< k THEN q[i] ELSE ev
    BY <2>1 DEF c
  <2>3. b \in Seq(EventType) /\ Len(b) = n - k /\ \A i \in 1 .. n - k : b[i] = q[k + i]
    BY <1>8 DEF b
  <2>4. s = c \o b
    BY <1>6 DEF a, b, c
  <2>5. /\ s \in Seq(EventType)
        /\ Len(s) = Len(c) + Len(b)
        /\ \A i \in 1 .. Len(c) + Len(b) :
             s[i] = IF i =< Len(c) THEN c[i] ELSE b[i - Len(c)]
    <3>1. c \in Seq(EventType) /\ b \in Seq(EventType)
      BY <2>2, <2>3
    <3> QED
      BY <2>4, <3>1, ConcatProperties
  <2>6. Len(c) + Len(b) = n + 1 /\ Len(c) = k + 1
    BY <1>1, <1>5, <2>2, <2>3
  <2>7. \A i \in 1 .. n + 1 : i > k + 1 => b[i - (k + 1)] = q[i - 1]
    <3> SUFFICES ASSUME NEW i \in 1 .. n + 1, i > k + 1 PROVE b[i - (k + 1)] = q[i - 1]
      OBVIOUS
    <3>1. i - (k + 1) \in 1 .. n - k /\ k + (i - (k + 1)) = i - 1
      BY <1>1, <1>5
    <3> QED
      BY <2>3, <3>1
  <2>8. \A i \in 1 .. n + 1 : s[i] = IF i =< k + 1 THEN c[i] ELSE b[i - (k + 1)]
    BY <2>5, <2>6
  <2>9. ASSUME NEW i \in 1 .. n + 1
        PROVE  s[i] = IF i =< k THEN q[i] ELSE IF i = k + 1 THEN ev ELSE q[i - 1]
    <3>1. CASE i =< k + 1
      BY <1>5, <2>2, <2>8, <3>1
    <3>2. CASE i > k + 1
      BY <1>5, <2>7, <2>8, <3>2
    <3> QED
      BY <1>5, <3>1, <3>2
  <2> QED
    BY <2>5, <2>6, <2>9
<1>10. \A i \in 1 .. n : q[i].when =< ev.when <=> i =< k
  <2>1. \A i \in 1 .. n : i \in S <=> i =< k
    BY <1>1, <1>5
  <2> QED
    BY <1>1, <2>1 DEF S
<1>11. k \in Nat
  BY <1>1, <1>5
<1>12. InsertedAt(s, q, ev, k)
  BY <1>5, <1>9, <1>10 DEF InsertedAt, n
<1> QED
  BY <1>11, <1>12 DEF s

\* Scheduling adds the event and keeps the order.
LEMMA ScheduleElements ==
    ASSUME NEW q \in Seq(EventType), Ordered(q), NEW ev \in EventType
    PROVE  /\ Schedule(q, ev) \in Seq(EventType)
           /\ Ordered(Schedule(q, ev))
           /\ Elements(Schedule(q, ev)) = Elements(q) \cup {ev}
<1> DEFINE n == Len(q)
           s == Schedule(q, ev)
<1>1. n \in Nat /\ DOMAIN q = 1 .. n /\ \A i \in 1 .. n : q[i] \in EventType
  OBVIOUS
<1>2. \A i \in 1 .. n : q[i].when \in Nat
  BY <1>1 DEF EventType
<1>3. ev.when \in Nat
  BY DEF EventType
<1>4. PICK k \in Nat : InsertedAt(s, q, ev, k)
  BY SchedulePlace
<1> HIDE DEF n, s
<1>5. k \in 0 .. n /\ \A i \in 1 .. n : q[i].when =< ev.when <=> i =< k
  BY <1>4 DEF InsertedAt, n
<1>6. /\ s \in Seq(EventType) /\ Len(s) = n + 1
      /\ \A i \in 1 .. n + 1 : s[i] = IF i =< k THEN q[i]
                                      ELSE IF i = k + 1 THEN ev ELSE q[i - 1]
  BY <1>4 DEF InsertedAt, n
<1>7. Ordered(s)
  <2> SUFFICES ASSUME NEW i \in 1 .. n + 1, NEW j \in 1 .. n + 1, i < j
               PROVE  s[i].when =< s[j].when
    BY <1>1, <1>6 DEF Ordered
  <2>1. \A x, y \in 1 .. n : x =< y => q[x].when =< q[y].when
    BY <1>1, <1>2 DEF Ordered
  <2>2. \A x \in 1 .. n : x =< k => q[x].when =< ev.when
    BY <1>5
  <2>3. \A x \in 1 .. n : x > k => ev.when =< q[x].when
    BY <1>2, <1>3, <1>5
  <2>4. CASE j =< k
    <3>1. s[i] = q[i] /\ s[j] = q[j] /\ i \in 1 .. n /\ j \in 1 .. n
      BY <1>1, <1>5, <1>6, <2>4
    <3> QED BY <2>1, <3>1
  <2>5. CASE j = k + 1
    <3>1. s[i] = q[i] /\ s[j] = ev /\ i \in 1 .. n /\ i =< k
      BY <1>1, <1>5, <1>6, <2>5
    <3> QED BY <2>2, <3>1
  <2>6. CASE j > k + 1 /\ i = k + 1
    <3>1. s[i] = ev /\ s[j] = q[j - 1] /\ j - 1 \in 1 .. n /\ j - 1 > k
      BY <1>1, <1>5, <1>6, <2>6
    <3> QED BY <2>3, <3>1
  <2>7. CASE j > k + 1 /\ i =< k
    <3>1. s[i] = q[i] /\ s[j] = q[j - 1] /\ j - 1 \in 1 .. n /\ i \in 1 .. n /\ i =< j - 1
      BY <1>1, <1>5, <1>6, <2>7
    <3> QED BY <2>1, <3>1
  <2>8. CASE j > k + 1 /\ i > k + 1
    <3>1. /\ s[i] = q[i - 1] /\ s[j] = q[j - 1]
          /\ j - 1 \in 1 .. n /\ i - 1 \in 1 .. n /\ i - 1 =< j - 1
      BY <1>1, <1>5, <1>6, <2>8
    <3> QED BY <2>1, <3>1
  <2> QED
    BY <1>1, <1>5, <2>4, <2>5, <2>6, <2>7, <2>8
<1>8. Elements(s) = Elements(q) \cup {ev}
  <2>1. DOMAIN s = 1 .. n + 1
    BY <1>1, <1>6
  <2>2. ASSUME NEW x \in Elements(s) PROVE x \in Elements(q) \cup {ev}
    <3>1. PICK i \in 1 .. n + 1 : x = s[i]
      BY <2>1, <2>2 DEF Elements
    <3>2. \/ i \in 1 .. n /\ x = q[i]
          \/ x = ev
          \/ i - 1 \in 1 .. n /\ x = q[i - 1]
      BY <1>1, <1>5, <1>6, <3>1
    <3> QED
      BY <1>1, <3>2 DEF Elements
  <2>3. ev \in Elements(s)
    <3>1. k + 1 \in 1 .. n + 1 /\ s[k + 1] = ev
      BY <1>1, <1>5, <1>6
    <3> QED BY <2>1, <3>1 DEF Elements
  <2>4. ASSUME NEW x \in Elements(q) PROVE x \in Elements(s)
    <3>1. PICK i \in 1 .. n : x = q[i]
      BY <1>1, <2>4 DEF Elements
    <3>2. CASE i =< k
      <4>1. i \in 1 .. n + 1 /\ s[i] = x
        BY <1>1, <1>5, <1>6, <3>1, <3>2
      <4> QED BY <2>1, <4>1 DEF Elements
    <3>3. CASE i > k
      <4>1. i + 1 \in 1 .. n + 1 /\ s[i + 1] = x
        BY <1>1, <1>5, <1>6, <3>1, <3>3
      <4> QED BY <2>1, <4>1 DEF Elements
    <3> QED
      BY <1>5, <3>2, <3>3
  <2> QED
    BY <2>2, <2>3, <2>4
<1> QED
  BY <1>6, <1>7, <1>8 DEF s

\* The elements of a queue are its head and the elements of its tail.
LEMMA TailElements ==
    ASSUME NEW q \in Seq(EventType), Ordered(q), q # <<>>
    PROVE  /\ Head(q) \in EventType
           /\ Tail(q) \in Seq(EventType)
           /\ Ordered(Tail(q))
           /\ Elements(q) = {Head(q)} \cup Elements(Tail(q))
           /\ \A ev \in Elements(q) : Head(q).when =< ev.when
<1> DEFINE n == Len(q)
           t == Tail(q)
<1>1. n \in Nat \ {0} /\ DOMAIN q = 1 .. n /\ \A i \in 1 .. n : q[i] \in EventType
  OBVIOUS
<1>2. /\ t \in Seq(EventType) /\ DOMAIN t = 1 .. n - 1
      /\ \A i \in 1 .. n - 1 : t[i] = q[i + 1]
  BY <1>1
<1>3. Head(q) = q[1] /\ Head(q) \in EventType
  BY <1>1
<1> HIDE DEF n, t
<1>4. Ordered(t)
  <2> SUFFICES ASSUME NEW i \in 1 .. n - 1, NEW j \in 1 .. n - 1, i < j
               PROVE  t[i].when =< t[j].when
    BY <1>2 DEF Ordered
  <2>1. i + 1 \in 1 .. n /\ j + 1 \in 1 .. n /\ i + 1 < j + 1
    BY <1>1
  <2> QED
    BY <1>1, <1>2, <2>1 DEF Ordered
<1>5. Elements(q) = {Head(q)} \cup Elements(t)
  <2>1. ASSUME NEW x \in Elements(q) PROVE x \in {Head(q)} \cup Elements(t)
    <3>1. PICK i \in 1 .. n : x = q[i]
      BY <1>1, <2>1 DEF Elements
    <3>2. CASE i = 1
      BY <1>3, <3>1, <3>2
    <3>3. CASE i # 1
      <4>1. i - 1 \in 1 .. n - 1 /\ t[i - 1] = x
        BY <1>1, <1>2, <3>1, <3>3
      <4> QED BY <1>2, <4>1 DEF Elements
    <3> QED BY <3>2, <3>3
  <2>2. Head(q) \in Elements(q)
    BY <1>1, <1>3 DEF Elements
  <2>3. ASSUME NEW x \in Elements(t) PROVE x \in Elements(q)
    <3>1. PICK i \in 1 .. n - 1 : x = t[i]
      BY <1>2, <2>3 DEF Elements
    <3>2. i + 1 \in 1 .. n /\ x = q[i + 1]
      BY <1>1, <1>2, <3>1
    <3> QED BY <1>1, <3>2 DEF Elements
  <2> QED BY <2>1, <2>2, <2>3
<1>6. \A ev \in Elements(q) : Head(q).when =< ev.when
  <2> SUFFICES ASSUME NEW i \in 1 .. n PROVE q[1].when =< q[i].when
    BY <1>1, <1>3 DEF Elements
  <2>1. CASE i = 1
    <3>1. q[1].when \in Nat
      BY <1>1 DEF EventType
    <3> QED BY <2>1, <3>1
  <2>2. CASE i # 1
    BY <1>1, <2>2 DEF Ordered
  <2> QED BY <2>1, <2>2
<1> QED
  BY <1>2, <1>3, <1>4, <1>5, <1>6 DEF t

\* What settling keeps of a queue: future stays future, and for every event there is
\* one of its kind and time.
Keeps(q, r) ==
    /\ (\A ev \in Elements(q) : ev.when > 0) => (\A ev \in Elements(r) : ev.when > 0)
    /\ \A ev \in Elements(q) : \E f \in Elements(r) : f.kind = ev.kind /\ f.when = ev.when

Outdated(ev, l) ==
    IF ev.kind = "rise" /\ ev.low = {l} THEN [ev EXCEPT !.live = FALSE] ELSE ev

\* Outdating a line touches its rise events only, and leaves none of them live.
LEMMA OutdateElements ==
    ASSUME NEW q, QueueOK(q), NEW l \in Lines
    PROVE  /\ QueueOK(Outdate(q, l))
           /\ Elements(Outdate(q, l)) = {Outdated(ev, l) : ev \in Elements(q)}
           /\ Keeps(q, Outdate(q, l))
           /\ RiseTimes(Outdate(q, l), l) = {}
           /\ \A m \in Lines \ {l} : RiseTimes(Outdate(q, l), m) = RiseTimes(q, m)
<1> DEFINE n == Len(q)
           r == Outdate(q, l)
<1>1. n \in Nat /\ DOMAIN q = 1 .. n /\ \A i \in 1 .. n : q[i] \in EventType
  BY DEF QueueOK
<1> HIDE DEF n
<1>2. \A ev \in EventType :
        /\ Outdated(ev, l) \in EventType
        /\ Outdated(ev, l).when = ev.when /\ Outdated(ev, l).kind = ev.kind
        /\ Outdated(ev, l).low = ev.low
        /\ Outdated(ev, l).live => ev.live
        /\ ev.kind # "rise" \/ ev.low # {l} => Outdated(ev, l) = ev
        /\ ev.kind = "rise" /\ ev.low = {l} => ~ Outdated(ev, l).live
  BY DEF Outdated, EventType
<1>3. r = [i \in 1 .. n |-> Outdated(q[i], l)]
  BY <1>1 DEF Outdate, Outdated
<1>4. r \in Seq(EventType) /\ DOMAIN r = 1 .. n /\ \A i \in 1 .. n : r[i] = Outdated(q[i], l)
  BY <1>1, <1>2, <1>3
<1> HIDE DEF r
<1>5. Elements(r) = {Outdated(ev, l) : ev \in Elements(q)}
  BY <1>1, <1>4 DEF Elements
<1>6. Elements(q) \subseteq EventType
  BY <1>1 DEF Elements
<1>7. QueueOK(r)
  <2>1. Ordered(r)
    BY <1>1, <1>2, <1>4 DEF QueueOK, Ordered
  <2>2. \A ev \in Elements(r) : Carries(ev)
    BY <1>2, <1>5, <1>6 DEF QueueOK, Carries
  <2> QED
    BY <1>4, <2>1, <2>2 DEF QueueOK
<1>8. RiseTimes(r, l) = {}
  BY <1>2, <1>5, <1>6 DEF RiseTimes, IsLiveRise
<1>9. ASSUME NEW m \in Lines \ {l} PROVE RiseTimes(r, m) = RiseTimes(q, m)
  <2>1. \A ev \in EventType : IsLiveRise(ev, m) => Outdated(ev, l) = ev
    BY <1>2 DEF IsLiveRise
  <2>2. \A ev \in EventType : IsLiveRise(Outdated(ev, l), m) => Outdated(ev, l) = ev
    BY <1>2 DEF IsLiveRise
  <2>3. {ev \in Elements(r) : IsLiveRise(ev, m)} = {ev \in Elements(q) : IsLiveRise(ev, m)}
    BY <1>5, <1>6, <2>1, <2>2
  <2> QED
    BY <2>3 DEF RiseTimes
<1>10. Keeps(q, r)
  BY <1>2, <1>5, <1>6 DEF Keeps
<1> QED
  BY <1>5, <1>7, <1>8, <1>9, <1>10 DEF r

\* An event that carries what it should can be scheduled; only a rise event
\* changes the rise times.
LEMMA ScheduleOK ==
    ASSUME NEW q, QueueOK(q), NEW ev \in EventType, Carries(ev)
    PROVE  /\ QueueOK(Schedule(q, ev))
           /\ Elements(Schedule(q, ev)) = Elements(q) \cup {ev}
           /\ \A l \in Lines : ~ IsLiveRise(ev, l) =>
                RiseTimes(Schedule(q, ev), l) = RiseTimes(q, l)
           /\ \A l \in Lines : IsLiveRise(ev, l) =>
                RiseTimes(Schedule(q, ev), l) = RiseTimes(q, l) \cup {ev.when}
<1> DEFINE r == Schedule(q, ev)
<1>1. /\ r \in Seq(EventType) /\ Ordered(r)
      /\ Elements(r) = Elements(q) \cup {ev}
  BY ScheduleElements DEF QueueOK
<1> HIDE DEF r
<1>2. QueueOK(r)
  BY <1>1 DEF QueueOK
<1>3. ASSUME NEW l \in Lines, ~ IsLiveRise(ev, l)
      PROVE  RiseTimes(r, l) = RiseTimes(q, l)
  BY <1>1, <1>3 DEF RiseTimes
<1>4. ASSUME NEW l \in Lines, IsLiveRise(ev, l)
      PROVE  RiseTimes(r, l) = RiseTimes(q, l) \cup {ev.when}
  BY <1>1, <1>4 DEF RiseTimes
<1> QED
  BY <1>1, <1>2, <1>3, <1>4 DEF r

\* No event arrives in the instant it is sent.
LEMMA LinkDelaysPositive ==
    ASSUME NEW base \in Nat
    PROVE  LinkDelays(base) \subseteq Nat \ {0}
BY TimingAssumption DEF LinkDelays

\* A rise time is a duration.
LEMMA RiseTimeType == \A l \in Lines : RiseTime(l) \in Nat
BY TimingAssumption DEF RiseTime

-----------------------------------------------------------------------------
(* Settling the bus *)

\* The queue a line may be settled with: a pending rise has its event.
Settleable(q, ln, l) ==
    ~ ln.high /\ ln.pending => RiseTimes(q, l) = {RiseTime(l) - ln.lowFor}

\* Settling one line.
LEMMA QueueAfterOK ==
    ASSUME NEW q, QueueOK(q), NEW ln, LinesType(ln), NEW l \in Lines, NEW low
    PROVE  /\ QueueOK(QueueAfter(q, ln, l, low))
           /\ \A m \in Lines \ {l} : RiseTimes(QueueAfter(q, ln, l, low), m) = RiseTimes(q, m)
           /\ Settleable(q, ln[l], l) =>
                LineOK(QueueAfter(q, ln, l, low), LineAfter(ln, l, low), low, l)
           /\ Keeps(q, QueueAfter(q, ln, l, low))
<1> DEFINE r == QueueAfter(q, ln, l, low)
           after == LineAfter(ln, l, low)
<1>1. /\ ln[l] \in LineType /\ ln[l].lowFor \in Nat /\ RiseTime(l) \in Nat
  BY RiseTimeType DEF LinesType, LineType
<1>2. Elements(q) \subseteq EventType
  BY DEF QueueOK, Elements
<1>3. CASE ~ LineModelEnabled
  <2>1. r = q /\ after = IF l \in low THEN FallenLine ELSE HighLine
    BY <1>3 DEF QueueAfter, LineAfter
  <2>2. RiseTimes(q, l) = {}
    BY <1>3 DEF RiseTimes, IsLiveRise, QueueOK, Carries
  <2>3. LineOK(q, after, low, l)
    BY <2>1, <2>2 DEF LineOK, FallenLine, HighLine
  <2> QED
    BY <2>1, <2>3 DEF Keeps
<1>4. CASE LineModelEnabled /\ l \in low
  <2>1. r = Outdate(q, l)
    BY <1>4 DEF QueueAfter
  <2>2. ~ after.high /\ ~ after.pending
    BY <1>1, <1>4 DEF LineAfter, FallenLine, LineType
  <2>3. /\ QueueOK(r) /\ RiseTimes(r, l) = {} /\ Keeps(q, r)
        /\ \A m \in Lines \ {l} : RiseTimes(r, m) = RiseTimes(q, m)
    BY <2>1, OutdateElements
  <2>5. LineOK(r, after, low, l)
    <3> HIDE DEF after
    <3> QED BY <1>4, <2>2, <2>3 DEF LineOK
  <2> QED
    BY <2>3, <2>5
<1>5. CASE LineModelEnabled /\ l \notin low /\ (ln[l].high \/ ln[l].lowFor >= RiseTime(l))
  <2>1. after = HighLine /\ r = q
    BY <1>5 DEF LineAfter, QueueAfter, HighLine
  <2>2. LineOK(q, HighLine, low, l)
    BY <1>5 DEF LineOK, HighLine
  <2> QED
    BY <2>1, <2>2 DEF Keeps
<1>6. CASE LineModelEnabled /\ l \notin low /\ ~ (ln[l].high \/ ln[l].lowFor >= RiseTime(l))
  <2>1. /\ after = [ln[l] EXCEPT !.pending = TRUE]
        /\ after.pending /\ ~ after.high /\ after.lowFor = ln[l].lowFor
    BY <1>1, <1>6 DEF LineAfter, LineType
  <2>2. CASE ln[l].pending
    <3>1. r = q
      BY <1>6, <2>1, <2>2 DEF QueueAfter
    <3>2. Settleable(q, ln[l], l) => LineOK(q, after, low, l)
      <4> HIDE DEF after
      <4> QED BY <1>6, <2>1, <2>2 DEF LineOK, Settleable
    <3> QED
      BY <3>1, <3>2 DEF Keeps
  <2>3. CASE ~ ln[l].pending
    <3> DEFINE ev == Event("rise", {l}, RiseTime(l) - ln[l].lowFor)
               o == Outdate(q, l)
    <3>1. r = Schedule(o, ev)
      BY <1>6, <2>1, <2>3 DEF QueueAfter
    <3>2. /\ ev \in EventType /\ Carries(ev) /\ IsLiveRise(ev, l)
          /\ ev.when = RiseTime(l) - ln[l].lowFor /\ ev.when > 0
      BY <1>1, <1>6 DEF Event, EventType, Carries, IsLiveRise, Kinds
    <3>3. \A m \in Lines \ {l} : ~ IsLiveRise(ev, m)
      BY DEF IsLiveRise, Event
    <3>4. /\ QueueOK(o) /\ RiseTimes(o, l) = {} /\ Keeps(q, o)
          /\ \A m \in Lines \ {l} : RiseTimes(o, m) = RiseTimes(q, m)
      BY OutdateElements
    <3> HIDE DEF ev, o, after, r
    <3>5. /\ QueueOK(r)
          /\ Elements(r) = Elements(o) \cup {ev}
          /\ RiseTimes(r, l) = {ev.when}
          /\ \A m \in Lines \ {l} : RiseTimes(r, m) = RiseTimes(q, m)
      BY <3>1, <3>2, <3>3, <3>4, ScheduleOK
    <3>6. LineOK(r, after, low, l)
      BY <1>6, <2>1, <3>2, <3>5 DEF LineOK
    <3>7. Keeps(q, r)
      BY <3>2, <3>4, <3>5 DEF Keeps
    <3> QED
      BY <3>5, <3>6, <3>7 DEF r, after
  <2> QED
    BY <2>2, <2>3
<1> QED
  BY <1>3, <1>4, <1>5, <1>6

\* Settling keeps the types of the lines.
LEMMA LinesAfterType ==
    ASSUME NEW ln, LinesType(ln), NEW low
    PROVE  LinesType(LinesAfter(ln, low))
<1>1. ASSUME NEW l \in Lines
      PROVE  /\ LineAfter(ln, l, low) \in LineType
             /\ LineAfter(ln, l, low).lowFor =< LongestLow(l)
  <2>1. /\ ln[l] \in LineType /\ LongestLow(l) \in Nat
        /\ ln[l].lowFor =< LongestLow(l)
    BY RiseTimeType DEF LinesType, LongestLow
  <2> DEFINE held == [ln[l] EXCEPT !.pending = FALSE]
             rising == [ln[l] EXCEPT !.pending = TRUE]
  <2>2. LineAfter(ln, l, low) \in {FallenLine, HighLine, held, rising}
    BY DEF LineAfter
  <2>3. /\ held \in LineType /\ held.lowFor = ln[l].lowFor
        /\ rising \in LineType /\ rising.lowFor = ln[l].lowFor
    BY <2>1 DEF LineType
  <2>4. /\ FallenLine \in LineType /\ FallenLine.lowFor = 0
        /\ HighLine \in LineType /\ HighLine.lowFor = 0
    BY DEF FallenLine, HighLine, LineType
  <2> HIDE DEF held, rising
  <2> QED
    BY <2>1, <2>2, <2>3, <2>4
<1> QED
  BY <1>1 DEF LinesAfter, LinesType

\* Settling all lines, one after the other.
LEMMA QueueAfterLinesOK ==
    ASSUME NEW q, QueueOK(q), NEW ln, LinesType(ln), NEW low,
           \A l \in Lines : Settleable(q, ln[l], l)
    PROVE  /\ QueueOK(QueueAfterLines(q, ln, low))
           /\ WiresOK(QueueAfterLines(q, ln, low), LinesAfter(ln, low), low)
           /\ Keeps(q, QueueAfterLines(q, ln, low))
<1> DEFINE a == QueueAfter(q, ln, "atn", low)
           b == QueueAfter(a, ln, "clk", low)
           c == QueueAfter(b, ln, "data", low)
           after(l) == LineAfter(ln, l, low)
<1>1. "atn" \in Lines /\ "clk" \in Lines /\ "data" \in Lines
  BY DEF Lines
<1>2. /\ QueueOK(a) /\ Keeps(q, a)
      /\ \A m \in Lines \ {"atn"} : RiseTimes(a, m) = RiseTimes(q, m)
      /\ LineOK(a, after("atn"), low, "atn")
  BY <1>1, QueueAfterOK
<1> HIDE DEF a
<1>3. /\ QueueOK(b) /\ Keeps(a, b)
      /\ \A m \in Lines \ {"clk"} : RiseTimes(b, m) = RiseTimes(a, m)
      /\ LineOK(b, after("clk"), low, "clk")
  <2>1. Settleable(a, ln["clk"], "clk")
    BY <1>1, <1>2 DEF Settleable
  <2> QED
    BY <1>1, <1>2, <2>1, QueueAfterOK
<1> HIDE DEF b
<1>4. /\ QueueOK(c) /\ Keeps(b, c)
      /\ \A m \in Lines \ {"data"} : RiseTimes(c, m) = RiseTimes(b, m)
      /\ LineOK(c, after("data"), low, "data")
  <2>1. Settleable(b, ln["data"], "data")
    BY <1>1, <1>2, <1>3 DEF Settleable
  <2> QED
    BY <1>1, <1>3, <2>1, QueueAfterOK
<1> HIDE DEF c
<1>5. /\ RiseTimes(c, "atn") = RiseTimes(a, "atn")
      /\ RiseTimes(c, "clk") = RiseTimes(b, "clk")
  BY <1>1, <1>3, <1>4
<1> HIDE DEF after
<1>6. LineOK(c, after("atn"), low, "atn") /\ LineOK(c, after("clk"), low, "clk")
  BY <1>2, <1>3, <1>5 DEF LineOK
<1>7. WiresOK(c, LinesAfter(ln, low), low)
  BY <1>1, <1>4, <1>6 DEF WiresOK, LinesAfter, Lines, after
<1>8. Keeps(q, c)
  BY <1>2, <1>3, <1>4 DEF Keeps
<1>9. c = QueueAfterLines(q, ln, low)
  BY DEF QueueAfterLines, a, b, c
<1> QED
  BY <1>4, <1>7, <1>8, <1>9

\* Settling the bus: the lines follow the pulls, and both sides will be told of a
\* change.
LEMMA SettleOK ==
    ASSUME NEW q, QueueOK(q), NEW ln, LinesType(ln),
           \A l \in Lines : Settleable(q, ln[l], l),
           NEW c64, NEW drive, NEW owner \in Owners,
           commit \in Owners \cup {NoCommit},
           SettleBus(q, ln, c64, drive, owner)
    PROVE  /\ QueueOK(events') /\ LinesType(line')
           /\ line' = LinesAfter(ln, c64 \cup drive)
           /\ WiresOK(events', line', c64 \cup drive)
           /\ pendingOwner' \in Owners /\ commit' \in Owners \cup {NoCommit}
           /\ Keeps(q, events')
           /\ LowLines(line') # LowLines(ln) =>
                \E ev, f \in Elements(events') :
                   /\ ev.kind = "toDrives" /\ f.kind = "toC64"
                   /\ ev.when \in LinkDelays(BusToDrive)
<1> DEFINE low == c64 \cup drive
           r == QueueAfterLines(q, ln, low)
<1>1. line' = LinesAfter(ln, low)
  BY DEF SettleBus
<1>2. QueueOK(r) /\ WiresOK(r, line', low) /\ Keeps(q, r)
  BY <1>1, QueueAfterLinesOK
<1>3. LinesType(line')
  BY <1>1, LinesAfterType
<1> HIDE DEF r
<1>4. CASE LowLines(line') = LowLines(ln)
  <2>1. events' = r /\ pendingOwner' = owner /\ commit' = commit
    BY <1>1, <1>4 DEF SettleBus, r
  <2> QED
    BY <1>1, <1>2, <1>3, <1>4, <2>1
<1>5. CASE LowLines(line') # LowLines(ln)
  <2>1. PICK toDrives \in LinkDelays(BusToDrive), toC64 \in LinkDelays(BusToC64) :
          /\ events' = Schedule(Schedule(r, Event("toDrives", {}, toDrives)),
                                Event("toC64", {}, toC64))
          /\ commit' = owner /\ pendingOwner' = "None"
    BY <1>1, <1>5 DEF SettleBus, r
  <2> DEFINE e == Event("toDrives", {}, toDrives)
             f == Event("toC64", {}, toC64)
             s == Schedule(r, e)
             t == Schedule(s, f)
  <2>2. toDrives \in Nat \ {0} /\ toC64 \in Nat \ {0}
    BY LinkDelaysPositive, TimingAssumption
  <2>3. /\ e \in EventType /\ f \in EventType /\ Carries(e) /\ Carries(f)
        /\ \A l \in Lines : ~ IsLiveRise(e, l) /\ ~ IsLiveRise(f, l)
        /\ e.kind = "toDrives" /\ f.kind = "toC64"
        /\ e.when = toDrives /\ f.when = toC64
    BY <2>2 DEF Event, EventType, Kinds, Carries, IsLiveRise
  <2> HIDE DEF e, f
  <2>4. /\ QueueOK(s) /\ Elements(s) = Elements(r) \cup {e}
        /\ \A l \in Lines : RiseTimes(s, l) = RiseTimes(r, l)
    BY <1>2, <2>3, ScheduleOK
  <2> HIDE DEF s
  <2>5. /\ QueueOK(t) /\ Elements(t) = Elements(s) \cup {f}
        /\ \A l \in Lines : RiseTimes(t, l) = RiseTimes(s, l)
    BY <2>3, <2>4, ScheduleOK
  <2>6. events' = t
    BY <2>1 DEF e, f, s
  <2> HIDE DEF t
  <2>7. WiresOK(t, line', low)
    BY <1>2, <2>4, <2>5 DEF WiresOK, LineOK
  <2>8. Keeps(q, t)
    BY <1>2, <2>2, <2>3, <2>4, <2>5 DEF Keeps
  <2>9. "None" \in Owners
    BY DEF Owners
  <2> QED
    BY <1>1, <1>3, <2>1, <2>3, <2>4, <2>5, <2>6, <2>7, <2>8, <2>9
<1> QED
  BY <1>4, <1>5

-----------------------------------------------------------------------------
(* The steps *)

\* The two names for the events of the queue.
LEMMA QueuedElements == Queued = Elements(events)
BY DEF Queued, Elements

\* Samples stay on their way, and a change of the lines sends new ones.
LEMMA SamplesKept ==
    ASSUME SamplesOnTheirWay, UNCHANGED <<hostSeen, attached, devSeen>>,
           LowLines(line') # LowLines(line) =>
             \E ev, f \in Elements(events') : ev.kind = "toDrives" /\ f.kind = "toC64",
           \A ev \in Elements(events) : ev.kind \in {"toDrives", "toC64"} =>
             \E f \in Elements(events') : f.kind = ev.kind
    PROVE  SamplesOnTheirWay'
<1>1. CASE LowLines(line') # LowLines(line)
  BY <1>1 DEF SamplesOnTheirWay, Queued, Elements
<1>2. CASE LowLines(line') = LowLines(line)
  BY <1>2 DEF SamplesOnTheirWay, Queued, Elements
<1> QED
  BY <1>1, <1>2

\* A step that settles the bus with a part of the queue that has all the samples.
LEMMA SettleStep ==
    ASSUME IInv, NEW q, QueueOK(q),
           Elements(q) \subseteq Elements(events),
           \A ev \in Elements(events) : ev.kind \in {"toDrives", "toC64"} => ev \in Elements(q),
           NEW ln, LinesType(ln), LowLines(ln) = LowLines(line),
           \A l \in Lines : Settleable(q, ln[l], l),
           NEW c64 \in SUBSET HostLines, NEW drive \in SUBSET DeviceLines,
           NEW owner \in Owners,
           linkC64' = c64, linkDrive' = drive,
           SettleBus(q, ln, c64, drive, owner),
           c64Enabled' \in BOOLEAN, unsent' \subseteq Sides,
           UNCHANGED <<pc, clockVars, driveEnabled, hostVars, devVars>>
    PROVE  IInv'
<1>1. /\ QueueOK(events') /\ LinesType(line')
      /\ WiresOK(events', line', c64 \cup drive)
      /\ pendingOwner' \in Owners /\ commit' \in Owners \cup {NoCommit}
      /\ Keeps(q, events')
      /\ LowLines(line') # LowLines(ln) =>
           \E ev, f \in Elements(events') : ev.kind = "toDrives" /\ f.kind = "toC64"
  BY SettleOK DEF IInv, TypeOK
<1>2. TypeOK'
  BY <1>1 DEF IInv, TypeOK, QueueOK, Ordered, LinesType, clockVars, hostVars, devVars
<1>3. NothingOverdue'
  BY <1>1 DEF IInv, NothingOverdue, Queued, Elements, Keeps, clockVars
<1>4. SamplesOnTheirWay'
  BY <1>1, SamplesKept DEF IInv, Keeps, hostVars, devVars
<1>5. WiresOK(events, line, linkC64 \cup linkDrive)'
  BY <1>1
<1>6. QueueOK(events)' /\ LinesType(line)'
  BY <1>1
<1> QED
  BY <1>2, <1>3, <1>4, <1>5, <1>6 DEF IInv

\* The queue without its head.
LEMMA PopOK ==
    ASSUME IInv, events # <<>>
    PROVE  /\ Head(events) \in EventType /\ Carries(Head(events))
           /\ QueueOK(Tail(events))
           /\ Elements(events) = {Head(events)} \cup Elements(Tail(events))
           /\ \A ev \in Elements(events) : Head(events).when =< ev.when
           /\ \A l \in Lines : ~ IsLiveRise(Head(events), l) =>
                RiseTimes(Tail(events), l) = RiseTimes(events, l)
<1>1. /\ Head(events) \in EventType /\ Tail(events) \in Seq(EventType)
      /\ Ordered(Tail(events))
      /\ Elements(events) = {Head(events)} \cup Elements(Tail(events))
      /\ \A ev \in Elements(events) : Head(events).when =< ev.when
  BY TailElements DEF IInv, QueueOK
<1>2. Carries(Head(events)) /\ QueueOK(Tail(events))
  BY <1>1 DEF IInv, QueueOK
<1>3. ASSUME NEW l \in Lines, ~ IsLiveRise(Head(events), l)
      PROVE  RiseTimes(Tail(events), l) = RiseTimes(events, l)
  BY <1>1, <1>3 DEF RiseTimes
<1> QED
  BY <1>1, <1>2, <1>3

\* When the loop leaves an instant nothing is left for it.
LEMMA NothingDue ==
    ASSUME IInv, ~ Due
    PROVE  \A ev \in Elements(events) : ev.when > 0
<1>1. CASE events = <<>>
  BY <1>1 DEF Elements
<1>2. CASE events # <<>>
  <2>1. /\ Head(events) \in EventType
        /\ \A ev \in Elements(events) : Head(events).when =< ev.when
    BY <1>2, PopOK
  <2>2. Head(events).when \in Nat /\ Head(events).when # 0
    BY <1>2, <2>1 DEF Due, EventType
  <2>3. Elements(events) \subseteq EventType
    BY DEF IInv, QueueOK, Elements
  <2> QED
    BY <2>1, <2>2, <2>3 DEF EventType
<1> QED
  BY <1>1, <1>2

\* Pulls arrive at the wires.
LEMMA PullsKeepIInv ==
    ASSUME IInv, RunC64Pulls \/ RunDrivePulls
    PROVE  IInv'
<1> DEFINE q == Tail(events)
<1>1. events # <<>> /\ Head(events).kind \in {"c64Pulls", "drivePulls"}
  BY DEF RunC64Pulls, RunDrivePulls, Due
<1>2. /\ Carries(Head(events)) /\ QueueOK(q)
      /\ Elements(events) = {Head(events)} \cup Elements(q)
      /\ \A l \in Lines : RiseTimes(q, l) = RiseTimes(events, l)
  BY <1>1, PopOK DEF IsLiveRise
<1>3. \A l \in Lines : Settleable(q, line[l], l)
  BY <1>2 DEF IInv, WiresOK, LineOK, Settleable
<1>4. /\ Elements(q) \subseteq Elements(events)
      /\ \A ev \in Elements(events) : ev.kind \in {"toDrives", "toC64"} => ev \in Elements(q)
  BY <1>1, <1>2
<1>5. "C64" \in Owners /\ "Drive" \in Owners /\ c64Enabled \in BOOLEAN
      /\ linkC64 \subseteq HostLines /\ linkDrive \subseteq DeviceLines
      /\ unsent \subseteq Sides
  BY DEF Owners, IInv, TypeOK
<1> HIDE DEF q
<1>6. CASE RunC64Pulls
  <2>1. /\ linkC64' = Head(events).low /\ linkC64' \subseteq HostLines
        /\ linkDrive' = linkDrive
        /\ SettleBus(q, line, linkC64', linkDrive, "C64")
        /\ UNCHANGED <<pc, clockVars, c64Enabled, driveEnabled, hostVars, devVars, unsent>>
    BY <1>2, <1>6 DEF RunC64Pulls, Carries, domainVars, q
  <2> QED
    BY <1>2, <1>3, <1>4, <1>5, <2>1, SettleStep DEF IInv
<1>7. CASE RunDrivePulls
  <2>1. /\ linkDrive' = Head(events).low /\ linkDrive' \subseteq DeviceLines
        /\ linkC64' = linkC64
        /\ SettleBus(q, line, linkC64, linkDrive', "Drive")
        /\ UNCHANGED <<pc, clockVars, c64Enabled, driveEnabled, hostVars, devVars, unsent>>
    BY <1>2, <1>7 DEF RunDrivePulls, Carries, domainVars, q
  <2> QED
    BY <1>2, <1>3, <1>4, <1>5, <2>1, SettleStep DEF IInv
<1> QED
  BY <1>6, <1>7

\* A rise event: the line rises if the event is of its current generation, and
\* otherwise it is not what the line waits for.
LEMMA RiseKeepsIInv ==
    ASSUME IInv, RunRise
    PROVE  IInv'
<1> DEFINE q == Tail(events)
           ev == Head(events)
<1>1. events # <<>> /\ ev.kind = "rise" /\ ev.when = 0
  BY DEF RunRise, Due
<1>2. /\ Carries(ev) /\ QueueOK(q)
      /\ Elements(events) = {ev} \cup Elements(q)
      /\ \A l \in Lines : ~ IsLiveRise(ev, l) => RiseTimes(q, l) = RiseTimes(events, l)
  BY <1>1, PopOK
<1>3. PICK l \in Lines : ev.low = {l}
  BY <1>1, <1>2 DEF Carries
<1>4. /\ Elements(q) \subseteq Elements(events)
      /\ \A e \in Elements(events) : e.kind \in {"toDrives", "toC64"} => e \in Elements(q)
  BY <1>1, <1>2
<1>5. \A m \in Lines \ {l} : RiseTimes(q, m) = RiseTimes(events, m)
  BY <1>2, <1>3 DEF IsLiveRise
<1>6. /\ UNCHANGED <<pc, clockVars, linkC64, linkDrive, c64Enabled, driveEnabled>>
      /\ UNCHANGED <<hostVars, devVars, unsent>>
  BY DEF RunRise, domainVars
<1> HIDE DEF q, ev
<1>7. CASE /\ ev.live /\ line[l].pending
           /\ SettleBus(q, [line EXCEPT ![l].pending = FALSE], linkC64, linkDrive, "LineModel")
  <2> DEFINE ln == [line EXCEPT ![l].pending = FALSE]
  <2>1. line \in [Lines -> LineType]
    BY DEF IInv, LinesType
  <2>2. /\ ln \in [Lines -> LineType]
        /\ \A m \in Lines : ln[m].high = line[m].high /\ ln[m].lowFor = line[m].lowFor
        /\ \A m \in Lines \ {l} : ln[m] = line[m]
        /\ ~ ln[l].pending
    BY <2>1 DEF LineType
  <2> HIDE DEF ln
  <2>3. LinesType(ln) /\ LowLines(ln) = LowLines(line)
    BY <2>2 DEF IInv, LinesType, LowLines
  <2>4. \A m \in Lines : Settleable(q, ln[m], m)
    BY <1>5, <2>2 DEF IInv, WiresOK, LineOK, Settleable
  <2>5. "LineModel" \in Owners /\ linkC64 \subseteq HostLines /\ linkDrive \subseteq DeviceLines
        /\ c64Enabled \in BOOLEAN /\ unsent \subseteq Sides
    BY DEF Owners, IInv, TypeOK
  <2>6. SettleBus(q, ln, linkC64, linkDrive, "LineModel")
    BY <1>7 DEF ln
  <2> QED
    BY <1>2, <1>4, <1>6, <2>3, <2>4, <2>5, <2>6, SettleStep
<1>8. CASE ~ (ev.live /\ line[l].pending) /\ events' = q /\ UNCHANGED <<line, pendingOwner, commit>>
  <2>1. WiresOK(q, line, linkC64 \cup linkDrive)
    <3> SUFFICES ASSUME NEW m \in Lines
                 PROVE  LineOK(q, line[m], linkC64 \cup linkDrive, m)
      BY DEF WiresOK
    <3>1. LineOK(events, line[m], linkC64 \cup linkDrive, m)
      BY DEF IInv, WiresOK
    <3>2. CASE RiseTimes(q, m) = RiseTimes(events, m)
      BY <3>1, <3>2 DEF LineOK
    <3>3. CASE RiseTimes(q, m) # RiseTimes(events, m)
      <4>1. m = l /\ IsLiveRise(ev, l)
        BY <1>2, <1>5, <3>3
      <4>2. ~ line[l].pending /\ RiseTimes(events, l) # {}
        BY <1>2, <1>8, <4>1 DEF IsLiveRise, RiseTimes
      <4>3. line[l].high
        BY <3>1, <4>1, <4>2 DEF LineOK
      <4> QED
        BY <3>1, <4>1, <4>3 DEF LineOK
    <3> QED
      BY <3>2, <3>3
  <2>2. TypeOK'
    BY <1>2, <1>6, <1>8
    DEF IInv, TypeOK, QueueOK, Ordered, clockVars, hostVars, devVars
  <2>3. NothingOverdue'
    BY <1>4, <1>6, <1>8 DEF IInv, NothingOverdue, Queued, Elements, clockVars
  <2>4. SamplesOnTheirWay'
    BY <1>4, <1>6, <1>8, SamplesKept DEF IInv, hostVars, devVars
  <2>5. WiresOK(events, line, linkC64 \cup linkDrive)'
    BY <1>6, <1>8, <2>1
  <2>6. QueueOK(events)' /\ LinesType(line)'
    BY <1>2, <1>8 DEF IInv
  <2> QED
    BY <2>2, <2>3, <2>4, <2>5, <2>6 DEF IInv
<1> QED
  BY <1>3, <1>7, <1>8 DEF RunRise, q, ev

\* Samples arrive.
LEMMA SampleKeepsIInv ==
    ASSUME IInv, RunToDrives \/ RunToC64
    PROVE  IInv'
<1> DEFINE q == Tail(events)
           ev == Head(events)
<1>1. events # <<>> /\ ev.kind \in {"toDrives", "toC64"}
  BY DEF RunToDrives, RunToC64, Due
<1>2. /\ QueueOK(q)
      /\ Elements(events) = {ev} \cup Elements(q)
      /\ \A l \in Lines : RiseTimes(q, l) = RiseTimes(events, l)
  BY <1>1, PopOK DEF IsLiveRise
<1>3. /\ events' = q
      /\ UNCHANGED <<pc, clockVars, wireVars, domainVars, hostPull, attached, devPull, unsent>>
      /\ devSeen' \in [Devices -> SUBSET Lines] /\ hostSeen' \subseteq Lines
  <2>1. LowLines(line) \subseteq Lines
    BY DEF LowLines
  <2>2. CASE RunToDrives
    <3>1. devSeen' \in [Devices -> SUBSET Lines]
      BY <2>1, <2>2 DEF RunToDrives, IInv, TypeOK
    <3> QED
      BY <2>2, <3>1 DEF RunToDrives, IInv, TypeOK, hostVars
  <2>3. CASE RunToC64
    BY <2>1, <2>3 DEF RunToC64, IInv, TypeOK, devVars
  <2> QED
    BY <2>2, <2>3
<1>4. \/ ev.kind = "toDrives" /\ RunToDrives
      \/ ev.kind = "toC64" /\ RunToC64
  BY DEF RunToDrives, RunToC64
<1> HIDE DEF q, ev
<1>5. TypeOK'
  BY <1>2, <1>3 DEF IInv, TypeOK, QueueOK, Ordered, clockVars, wireVars, domainVars
<1>6. NothingOverdue'
  BY <1>2, <1>3 DEF IInv, NothingOverdue, Queued, Elements, clockVars
<1>7. WiresOK(events, line, linkC64 \cup linkDrive)'
  BY <1>2, <1>3 DEF IInv, WiresOK, LineOK, wireVars
<1>8. QueueOK(events)' /\ LinesType(line)'
  BY <1>2, <1>3 DEF IInv, wireVars
<1>9. SamplesOnTheirWay'
  <2>1. /\ hostSeen # LowLines(line) => \E f \in Elements(events) : f.kind = "toC64"
        /\ (\E d \in attached : devSeen[d] # LowLines(line)) =>
             \E f \in Elements(events) : f.kind = "toDrives"
    BY QueuedElements DEF IInv, SamplesOnTheirWay
  <2>2. CASE ev.kind = "toDrives" /\ RunToDrives
    <3>1. /\ hostSeen' = hostSeen
          /\ \A d \in attached : devSeen'[d] = LowLines(line)
      BY <2>2 DEF RunToDrives, IInv, TypeOK, hostVars
    <3>2. hostSeen # LowLines(line) => \E f \in Elements(q) : f.kind = "toC64"
      BY <1>2, <2>1, <2>2
    <3> QED
      BY <1>3, <3>1, <3>2 DEF SamplesOnTheirWay, Queued, Elements, wireVars
  <2>3. CASE ev.kind = "toC64" /\ RunToC64
    <3>1. hostSeen' = LowLines(line) /\ devSeen' = devSeen
      BY <2>3 DEF RunToC64, devVars
    <3>2. (\E d \in attached : devSeen[d] # LowLines(line)) =>
            \E f \in Elements(q) : f.kind = "toDrives"
      BY <1>2, <2>1, <2>3
    <3> QED
      BY <1>3, <3>1, <3>2 DEF SamplesOnTheirWay, Queued, Elements, wireVars
  <2> QED
    BY <1>4, <2>2, <2>3
<1> QED
  BY <1>5, <1>6, <1>7, <1>8, <1>9 DEF IInv

\* Turning the C64 off releases what it pulled.
LEMMA DisableKeepsIInv ==
    ASSUME IInv, DisableC64Domain
    PROVE  IInv'
<1>1. \A l \in Lines : Settleable(events, line[l], l)
  BY DEF IInv, WiresOK, LineOK, Settleable
<1>2. /\ QueueOK(events) /\ LinesType(line) /\ pendingOwner \in Owners
      /\ linkDrive \subseteq DeviceLines
  BY DEF IInv, TypeOK
<1>3. unsent' \subseteq Sides
  BY DEF DisableC64Domain, IInv, TypeOK, Sides
<1> QED
  BY <1>1, <1>2, <1>3, SettleStep DEF DisableC64Domain

\* What a step does that leaves the wires, their queued events and what was seen.
LEMMA QuietStep ==
    ASSUME IInv, UNCHANGED <<events, wireVars, hostSeen, attached, devSeen>>,
           pc' \in Places, nextC64' \in Nat, nextDrive' \in Nat,
           c64Enabled' \in BOOLEAN, driveEnabled' \in BOOLEAN,
           hostPull' \subseteq HostLines, devPull' \in [Devices -> SUBSET DeviceLines],
           unsent' \subseteq Sides, NothingOverdue'
    PROVE  IInv'
<1>1. TypeOK'
  BY DEF IInv, TypeOK, wireVars
<1>2. WiresOK(events, line, linkC64 \cup linkDrive)' /\ QueueOK(events)' /\ LinesType(line)'
  BY DEF IInv, wireVars
<1>3. SamplesOnTheirWay'
  BY DEF IInv, SamplesOnTheirWay, Queued, wireVars
<1> QED
  BY <1>1, <1>2, <1>3 DEF IInv

\* The steps of the loop that find nothing to do, and the calls that change
\* neither the wires nor the queue.
LEMMA QuietKeepsIInv ==
    ASSUME IInv,
           \/ TickHalfCycle \/ SkipDriveDomain \/ SkipC64Domain \/ Return
           \/ EnableC64Domain \/ ChangePullsOutside
           \/ \E enabled \in BOOLEAN : SetDriveDomainEnabled(enabled)
           \/ UNCHANGED vars
    PROVE  IInv'
<1> USE DEF clockVars, domainVars, hostVars, devVars
<1>1. CASE TickHalfCycle \/ EnableC64Domain
           \/ \E enabled \in BOOLEAN : SetDriveDomainEnabled(enabled)
  <2>1. NothingOverdue'
    BY <1>1 DEF TickHalfCycle, EnableC64Domain, SetDriveDomainEnabled,
                IInv, NothingOverdue, Queued
  <2> QED
    BY <1>1, <2>1, QuietStep DEF TickHalfCycle, EnableC64Domain, SetDriveDomainEnabled,
                                 IInv, TypeOK, Places
<1>2. CASE SkipDriveDomain \/ SkipC64Domain \/ Return
  <2>1. \A ev \in Elements(events) : ev.when > 0
    BY <1>2, NothingDue DEF SkipDriveDomain, SkipC64Domain, Return
  <2>2. NothingOverdue'
    BY <1>2, <2>1 DEF SkipDriveDomain, SkipC64Domain, Return,
                      IInv, TypeOK, NothingOverdue, Queued, Elements
  <2> QED
    BY <1>2, <2>2, QuietStep DEF SkipDriveDomain, SkipC64Domain, Return, IInv, TypeOK, Places
<1>3. CASE ChangePullsOutside
  <2>1. hostPull' \subseteq HostLines /\ devPull' \in [Devices -> SUBSET DeviceLines]
    BY <1>3 DEF ChangePullsOutside, IInv, TypeOK
  <2>2. unsent' \subseteq Sides
    BY <1>3 DEF ChangePullsOutside, IInv, TypeOK, Sides
  <2>3. NothingOverdue'
    BY <1>3 DEF ChangePullsOutside, IInv, NothingOverdue, Queued
  <2> QED
    BY <1>3, <2>1, <2>2, <2>3, QuietStep DEF ChangePullsOutside, IInv, TypeOK
<1>4. CASE UNCHANGED vars
  <2>1. NothingOverdue'
    BY <1>4 DEF vars, IInv, NothingOverdue, Queued
  <2> QED
    BY <1>4, <2>1, QuietStep DEF vars, IInv, TypeOK
<1> QED
  BY <1>1, <1>2, <1>3, <1>4

\* A step that schedules an event that is not a rise, or none.
LEMMA ScheduleStep ==
    ASSUME IInv, NEW ev \in EventType, Carries(ev), ev.kind # "rise", ev.when > 0,
           events' = events \/ events' = Schedule(events, ev),
           UNCHANGED <<wireVars, domainVars, hostSeen>>,
           pc' \in Places, nextC64' \in Nat, nextDrive' \in Nat,
           hostPull' \subseteq HostLines, devPull' \in [Devices -> SUBSET DeviceLines],
           unsent' \subseteq Sides,
           pc' \in {"advance", "outside"} => pc = "outside",
           pc' \in {"host", "return"} => nextDrive' > 0,
           pc' = "return" => nextC64' > 0,
           attached' \subseteq Devices, devSeen' \in [Devices -> SUBSET Lines],
           \A d \in attached' : \/ devSeen'[d] = LowLines(line)
                                \/ d \in attached /\ devSeen'[d] = devSeen[d]
    PROVE  IInv' /\ Elements(events) \subseteq Elements(events')
<1>1. QueueOK(events) /\ LinesType(line)
  BY DEF IInv
<1>2. /\ QueueOK(events')
      /\ Elements(events) \subseteq Elements(events')
      /\ Elements(events') \subseteq Elements(events) \cup {ev}
      /\ \A l \in Lines : RiseTimes(events', l) = RiseTimes(events, l)
  <2>1. \A l \in Lines : ~ IsLiveRise(ev, l)
    BY DEF IsLiveRise
  <2>2. /\ QueueOK(Schedule(events, ev))
        /\ Elements(Schedule(events, ev)) = Elements(events) \cup {ev}
        /\ \A l \in Lines : RiseTimes(Schedule(events, ev), l) = RiseTimes(events, l)
    BY <1>1, <2>1, ScheduleOK
  <2> QED
    BY <1>1, <2>2
<1>3. TypeOK'
  BY <1>2 DEF IInv, TypeOK, QueueOK, Ordered, wireVars, domainVars
<1>4. NothingOverdue'
  BY <1>2 DEF IInv, NothingOverdue, Queued, Elements
<1>5. WiresOK(events, line, linkC64 \cup linkDrive)'
  BY <1>2 DEF IInv, WiresOK, LineOK, wireVars
<1>6. SamplesOnTheirWay'
  <2>1. LowLines(line') = LowLines(line) /\ hostSeen' = hostSeen
    BY DEF wireVars
  <2>2. hostSeen # LowLines(line) => \E f \in Elements(events') : f.kind = "toC64"
    BY <1>2, QueuedElements DEF IInv, SamplesOnTheirWay
  <2>3. (\E d \in attached' : devSeen'[d] # LowLines(line)) =>
          \E f \in Elements(events') : f.kind = "toDrives"
    BY <1>2, QueuedElements DEF IInv, SamplesOnTheirWay
  <2> QED
    BY <2>1, <2>2, <2>3 DEF SamplesOnTheirWay, Queued, Elements
<1>7. QueueOK(events)' /\ LinesType(line)'
  BY <1>2 DEF IInv, wireVars
<1> QED
  BY <1>2, <1>3, <1>4, <1>5, <1>6, <1>7 DEF IInv

\* A change of what a side pulls can be scheduled.
LEMMA PullEvent ==
    ASSUME NEW kind \in {"c64Pulls", "drivePulls"}, NEW low, NEW base \in Nat,
           low \subseteq IF kind = "c64Pulls" THEN HostLines ELSE DeviceLines,
           NEW delay \in LinkDelays(base)
    PROVE  /\ Event(kind, low, delay) \in EventType
           /\ Carries(Event(kind, low, delay))
           /\ Event(kind, low, delay).kind # "rise"
           /\ Event(kind, low, delay).when > 0
<1>1. delay \in Nat /\ delay > 0
  BY LinkDelaysPositive
<1>2. low \subseteq Lines
  BY LineAssumption DEF Lines
<1>3. kind \in Kinds
  BY DEF Kinds
<1> QED
  BY <1>1, <1>2, <1>3 DEF Event, EventType, Carries

\* The devices pull lines that a device can pull.
LEMMA DrivePullType ==
    ASSUME NEW at \in SUBSET Devices, NEW pull \in [Devices -> SUBSET DeviceLines]
    PROVE  AnyDrivePull(at, pull) \subseteq DeviceLines
BY DEF AnyDrivePull

\* A device is attached: it is told the wires at once, and pulls on its way.
LEMMA AttachKeepsIInv ==
    ASSUME IInv, NEW d \in Devices, AttachDevice(d)
    PROVE  IInv' /\ Elements(events) \subseteq Elements(events')
<1>1. PICK delay \in LinkDelays(DriveToBus) :
        events' = Schedule(events, Event("drivePulls", AnyDrivePull(attached', devPull), delay))
  BY DEF AttachDevice
<1> DEFINE ev == Event("drivePulls", AnyDrivePull(attached', devPull), delay)
<1>2. /\ attached' = attached \cup {d} /\ attached' \in SUBSET Devices
      /\ devPull \in [Devices -> SUBSET DeviceLines]
      /\ devSeen \in [Devices -> SUBSET Lines]
  BY DEF AttachDevice, IInv, TypeOK
<1>3. ev \in EventType /\ Carries(ev) /\ ev.kind # "rise" /\ ev.when > 0
  BY <1>2, DrivePullType, PullEvent, TimingAssumption
<1>4. events' = Schedule(events, ev)
  BY <1>1
<1> HIDE DEF ev
<1>5. /\ devSeen' \in [Devices -> SUBSET Lines]
      /\ \A e \in attached' : \/ devSeen'[e] = LowLines(line)
                              \/ e \in attached /\ devSeen'[e] = devSeen[e]
  <2>1. devSeen' = [devSeen EXCEPT ![d] = LowLines(line)] /\ LowLines(line) \subseteq Lines
    BY DEF AttachDevice, LowLines
  <2> QED
    BY <1>2, <2>1
<1>6. /\ pc = "outside" /\ pc' = pc /\ UNCHANGED <<wireVars, domainVars, hostSeen>>
      /\ nextC64' \in Nat /\ nextDrive' \in Nat /\ hostPull' \subseteq HostLines
      /\ pc' \in Places /\ devPull' = devPull
  BY DEF AttachDevice, clockVars, hostVars, IInv, TypeOK
<1>7. /\ pc' \in {"advance", "outside"} => pc = "outside"
      /\ pc' \in {"host", "return"} => nextDrive' > 0
      /\ pc' = "return" => nextC64' > 0
  BY <1>6
<1>8. /\ attached' \subseteq Devices /\ devPull' \in [Devices -> SUBSET DeviceLines]
      /\ unsent' \subseteq Sides
  BY <1>2, <1>6 DEF AttachDevice, IInv, TypeOK
<1> QED
  BY <1>3, <1>4, <1>5, <1>6, <1>7, <1>8, ScheduleStep

\* The drive domain ticks, and its next tick is ahead.
LEMMA TickDriveKeepsIInv ==
    ASSUME IInv, TickDriveDomain
    PROVE  IInv' /\ Elements(events) \subseteq Elements(events')
<1>1. /\ devPull' \in [Devices -> SUBSET DeviceLines]
      /\ attached \in SUBSET Devices
  <2>1. /\ attached \in SUBSET Devices
        /\ devPull \in [Devices -> SUBSET DeviceLines]
    BY DEF IInv, TypeOK
  <2>2. CASE driveEnabled
    <3>1. PICK pull \in [attached -> SUBSET DeviceLines] :
            devPull' = [d \in Devices |-> IF d \in attached THEN pull[d] ELSE devPull[d]]
      BY <2>2 DEF TickDriveDomain
    <3> QED
      BY <2>1, <3>1
  <2>3. CASE ~ driveEnabled
    BY <2>1, <2>3 DEF TickDriveDomain
  <2> QED
    BY <2>1, <2>2, <2>3
<1>2. PICK ev \in EventType :
        /\ Carries(ev) /\ ev.kind # "rise" /\ ev.when > 0
        /\ events' = events \/ events' = Schedule(events, ev)
  <2>1. CASE events' = events
    <3> DEFINE ev == Event("toC64", {}, 1)
    <3>1. ev \in EventType /\ Carries(ev) /\ ev.kind # "rise" /\ ev.when > 0
      BY DEF Event, EventType, Kinds, Carries
    <3> QED
      BY <2>1, <3>1
  <2>2. CASE events' # events
    <3>1. PICK delay \in LinkDelays(DriveToBus) :
            events' = Schedule(events,
                        Event("drivePulls", AnyDrivePull(attached, devPull'), delay))
      BY <2>2 DEF TickDriveDomain
    <3> DEFINE ev == Event("drivePulls", AnyDrivePull(attached, devPull'), delay)
    <3>2. AnyDrivePull(attached, devPull') \subseteq DeviceLines
      BY <1>1, DrivePullType
    <3>3. ev \in EventType /\ Carries(ev) /\ ev.kind # "rise" /\ ev.when > 0
      BY <3>2, PullEvent, TimingAssumption
    <3> HIDE DEF ev
    <3>4. events' = Schedule(events, ev)
      BY <3>1 DEF ev
    <3> QED
      BY <3>3, <3>4
  <2> QED
    BY <2>1, <2>2
<1>3. nextDrive' \in Nat /\ nextDrive' > 0
  BY TimingAssumption DEF TickDriveDomain, DriveTicks
<1>4. /\ pc' = "host" /\ nextC64' \in Nat /\ hostPull' \subseteq HostLines
      /\ UNCHANGED <<wireVars, domainVars, hostSeen, attached, devSeen>>
      /\ attached' \subseteq Devices /\ devSeen' \in [Devices -> SUBSET Lines]
      /\ unsent' \subseteq Sides
  BY DEF TickDriveDomain, hostVars, IInv, TypeOK
<1>5. pc' \in Places
  BY <1>4 DEF Places
<1>6. /\ pc' \in {"advance", "outside"} => pc = "outside"
      /\ pc' \in {"host", "return"} => nextDrive' > 0
      /\ pc' = "return" => nextC64' > 0
  BY <1>3, <1>4
<1>7. \A d \in attached' : \/ devSeen'[d] = LowLines(line)
                           \/ d \in attached /\ devSeen'[d] = devSeen[d]
  BY <1>4
<1> QED
  BY <1>1, <1>2, <1>3, <1>4, <1>5, <1>6, <1>7, ScheduleStep

\* The C64 ticks, and its next tick is ahead.
LEMMA TickC64KeepsIInv ==
    ASSUME IInv, TickC64Domain
    PROVE  IInv' /\ Elements(events) \subseteq Elements(events')
<1>1. hostPull' \subseteq HostLines
  BY DEF TickC64Domain, IInv, TypeOK
<1>2. PICK ev \in EventType :
        /\ Carries(ev) /\ ev.kind # "rise" /\ ev.when > 0
        /\ events' = events \/ events' = Schedule(events, ev)
  <2>1. CASE events' = events
    <3> DEFINE ev == Event("toC64", {}, 1)
    <3>1. ev \in EventType /\ Carries(ev) /\ ev.kind # "rise" /\ ev.when > 0
      BY DEF Event, EventType, Kinds, Carries
    <3> QED
      BY <2>1, <3>1
  <2>2. CASE events' # events
    <3>1. PICK delay \in LinkDelays(C64ToBus) :
            events' = Schedule(events, Event("c64Pulls", hostPull', delay))
      BY <2>2 DEF TickC64Domain
    <3> DEFINE ev == Event("c64Pulls", hostPull', delay)
    <3>2. ev \in EventType /\ Carries(ev) /\ ev.kind # "rise" /\ ev.when > 0
      BY <1>1, PullEvent, TimingAssumption
    <3> HIDE DEF ev
    <3>3. events' = Schedule(events, ev)
      BY <3>1 DEF ev
    <3> QED
      BY <3>2, <3>3
  <2> QED
    BY <2>1, <2>2
<1>3. /\ pc' = "return" /\ nextC64' \in Nat /\ nextC64' > 0
      /\ nextDrive' \in Nat /\ nextDrive' > 0
  BY TimingAssumption DEF TickC64Domain, IInv, TypeOK, NothingOverdue
<1>4. /\ UNCHANGED <<wireVars, domainVars, hostSeen, attached, devSeen>>
      /\ attached' \subseteq Devices /\ devSeen' \in [Devices -> SUBSET Lines]
      /\ devPull' \in [Devices -> SUBSET DeviceLines] /\ unsent' \subseteq Sides
  BY DEF TickC64Domain, devVars, IInv, TypeOK
<1>5. pc' \in Places
  BY <1>3 DEF Places
<1>6. /\ pc' \in {"advance", "outside"} => pc = "outside"
      /\ pc' \in {"host", "return"} => nextDrive' > 0
      /\ pc' = "return" => nextC64' > 0
  BY <1>3
<1>7. \A d \in attached' : \/ devSeen'[d] = LowLines(line)
                           \/ d \in attached /\ devSeen'[d] = devSeen[d]
  BY <1>4
<1> QED
  BY <1>1, <1>2, <1>3, <1>4, <1>5, <1>6, <1>7, ScheduleStep

\* The loop goes on to the next tick or event, whichever is first.
LEMMA NextTimeIsFirst ==
    ASSUME IInv
    PROVE  /\ NextTime \in Nat /\ NextTime =< nextC64 /\ NextTime =< nextDrive
           /\ \A ev \in Elements(events) : NextTime =< ev.when
<1>1. nextC64 \in Nat /\ nextDrive \in Nat
  BY DEF IInv, TypeOK
<1>2. CASE events = <<>>
  BY <1>1, <1>2 DEF NextTime, Elements
<1>3. CASE events # <<>>
  <2>1. /\ Head(events) \in EventType
        /\ \A ev \in Elements(events) : Head(events).when =< ev.when
    BY <1>3, PopOK
  <2>2. Head(events).when \in Nat
    BY <2>1 DEF EventType
  <2>5. Elements(events) \subseteq EventType
    BY DEF IInv, QueueOK, Elements
  <2>3. /\ NextTime \in Nat /\ NextTime =< nextC64 /\ NextTime =< nextDrive
        /\ NextTime =< Head(events).when
    BY <1>1, <1>3, <2>2 DEF NextTime
  <2>4. \A ev \in EventType : ev.when \in Nat
    BY DEF EventType
  <2> QED
    BY <2>1, <2>2, <2>3, <2>4, <2>5
<1> QED
  BY <1>2, <1>3

\* An event after t units have passed.
Sooner(ev, t) == [ev EXCEPT !.when = @ - t]

\* Time passes: the events come closer and the low lines age alike, so a pending
\* rise stays due when its line may rise.
LEMMA AdvanceKeepsIInv ==
    ASSUME IInv, Advance
    PROVE  IInv'
<1> DEFINE t == NextTime
<1>1. /\ t \in Nat /\ t =< nextC64 /\ t =< nextDrive
      /\ \A ev \in Elements(events) : t =< ev.when
  BY NextTimeIsFirst
<1>2. /\ pc' = "drive" /\ nextC64' = nextC64 - t /\ nextDrive' = nextDrive - t
      /\ events' = [i \in DOMAIN events |-> Sooner(events[i], t)]
      /\ line' = [l \in Lines |-> Aged(l, t)]
      /\ commit' \in {commit, NoCommit}
      /\ UNCHANGED <<linkC64, linkDrive, pendingOwner, domainVars, hostVars, devVars, unsent>>
  BY DEF Advance, Sooner
<1> HIDE DEF t
<1>3. \A ev \in EventType : t =< ev.when =>
        /\ Sooner(ev, t) \in EventType
        /\ Sooner(ev, t).when = ev.when - t /\ Sooner(ev, t).kind = ev.kind
        /\ Sooner(ev, t).low = ev.low /\ Sooner(ev, t).live = ev.live
  BY <1>1 DEF Sooner, EventType
<1>4. /\ events \in Seq(EventType) /\ Elements(events) \subseteq EventType
      /\ \A i \in DOMAIN events : events[i] \in EventType /\ t =< events[i].when
  BY <1>1 DEF IInv, QueueOK, Elements
<1>5. /\ events' \in Seq(EventType) /\ DOMAIN events' = DOMAIN events
      /\ \A i \in DOMAIN events : events'[i] = Sooner(events[i], t)
  <2>1. Len(events) \in Nat /\ DOMAIN events = 1 .. Len(events)
    BY <1>4
  <2>2. \A i \in 1 .. Len(events) : Sooner(events[i], t) \in EventType
    BY <1>3, <1>4, <2>1
  <2> QED
    BY <1>2, <2>1, <2>2
<1>6. Elements(events') = {Sooner(ev, t) : ev \in Elements(events)}
  BY <1>5 DEF Elements
<1>7. QueueOK(events)'
  <2>1. Ordered(events')
    <3> SUFFICES ASSUME NEW i \in DOMAIN events, NEW j \in DOMAIN events, i < j
                 PROVE  events'[i].when =< events'[j].when
      BY <1>5 DEF Ordered
    <3>1. events[i].when =< events[j].when
      BY DEF IInv, QueueOK, Ordered
    <3>2. /\ events'[i].when = events[i].when - t /\ events'[j].when = events[j].when - t
      BY <1>3, <1>4, <1>5
    <3>3. events[i].when \in Nat /\ events[j].when \in Nat
      BY <1>4 DEF EventType
    <3> QED
      BY <1>1, <3>1, <3>2, <3>3
  <2>2. \A ev \in Elements(events') : Carries(ev)
    BY <1>1, <1>3, <1>4, <1>6 DEF IInv, QueueOK, Carries
  <2> QED
    BY <1>5, <2>1, <2>2 DEF QueueOK
<1>8. \A l \in Lines : RiseTimes(events', l) = {w - t : w \in RiseTimes(events, l)}
  <2> SUFFICES ASSUME NEW l \in Lines
               PROVE  RiseTimes(events', l) = {w - t : w \in RiseTimes(events, l)}
    OBVIOUS
  <2>1. \A ev \in Elements(events) :
          /\ IsLiveRise(Sooner(ev, t), l) <=> IsLiveRise(ev, l)
          /\ Sooner(ev, t).when = ev.when - t
    BY <1>1, <1>3, <1>4 DEF IsLiveRise
  <2> QED
    BY <1>6, <2>1 DEF RiseTimes
<1>9. ASSUME NEW l \in Lines
      PROVE  /\ line[l] \in LineType /\ line[l].lowFor \in Nat
             /\ RiseTime(l) \in Nat /\ LongestLow(l) = RiseTime(l) + 1
             /\ line[l].high \in BOOLEAN
             /\ line'[l] = Aged(l, t)
             /\ LineOK(events, line[l], linkC64 \cup linkDrive, l)
  BY <1>2, RiseTimeType DEF IInv, LinesType, LineType, WiresOK, LongestLow
<1>10. ASSUME NEW l \in Lines
       PROVE  /\ line'[l] \in LineType /\ line'[l].lowFor =< LongestLow(l)
              /\ line'[l].high = line[l].high /\ line'[l].pending = line[l].pending
              /\ ~ line[l].high /\ line[l].lowFor + t =< RiseTime(l) =>
                   line'[l].lowFor = line[l].lowFor + t
  <2> DEFINE age == IF line[l].high THEN 0
                    ELSE IF line[l].lowFor + t > LongestLow(l) THEN LongestLow(l)
                    ELSE line[l].lowFor + t
  <2>1. /\ age \in Nat /\ age =< LongestLow(l)
        /\ ~ line[l].high /\ line[l].lowFor + t =< RiseTime(l) => age = line[l].lowFor + t
    BY <1>1, <1>9
  <2>2. line'[l] = [line[l] EXCEPT !.lowFor = age]
    BY <1>9 DEF Aged
  <2> HIDE DEF age
  <2>3. /\ line'[l] \in LineType /\ line'[l].lowFor = age
        /\ line'[l].high = line[l].high /\ line'[l].pending = line[l].pending
    BY <1>9, <2>1, <2>2 DEF LineType
  <2> QED
    BY <2>1, <2>3
<1>11. LinesType(line)' /\ LowLines(line') = LowLines(line)
  BY <1>2, <1>10 DEF LinesType, LowLines
<1>12. WiresOK(events, line, linkC64 \cup linkDrive)'
  <2> SUFFICES ASSUME NEW l \in Lines
               PROVE  LineOK(events', line'[l], linkC64 \cup linkDrive, l)
    BY <1>2 DEF WiresOK
  <2>1. CASE line[l].high
    BY <1>9, <1>10, <2>1 DEF LineOK
  <2>2. CASE ~ line[l].high /\ ~ line[l].pending
    BY <1>8, <1>9, <1>10, <2>2 DEF LineOK
  <2>3. CASE ~ line[l].high /\ line[l].pending
    <3>1. /\ RiseTimes(events, l) = {RiseTime(l) - line[l].lowFor}
          /\ l \notin linkC64 \cup linkDrive
      BY <1>9, <2>3 DEF LineOK
    <3>2. \A w \in RiseTimes(events, l) : t =< w
      BY <1>1 DEF RiseTimes
    <3>3. t =< RiseTime(l) - line[l].lowFor
      BY <3>1, <3>2
    <3>4. line'[l].lowFor = line[l].lowFor + t
      BY <1>1, <1>9, <1>10, <2>3, <3>3
    <3>5. RiseTimes(events', l) = {(RiseTime(l) - line[l].lowFor) - t}
      BY <1>8, <3>1
    <3>6. (RiseTime(l) - line[l].lowFor) - t = RiseTime(l) - line'[l].lowFor
      BY <1>1, <1>9, <3>4
    <3> QED
      BY <1>10, <2>3, <3>1, <3>5, <3>6 DEF LineOK
  <2> QED
    BY <2>1, <2>2, <2>3
<1>13. TypeOK'
  <2>1. nextC64 \in Nat /\ nextDrive \in Nat /\ commit \in Owners \cup {NoCommit}
    BY DEF IInv, TypeOK
  <2>2. nextC64' \in Nat /\ nextDrive' \in Nat
    BY <1>1, <1>2, <2>1
  <2> QED
    BY <1>2, <1>7, <1>11, <2>1, <2>2
    DEF IInv, TypeOK, Places, QueueOK, Ordered, LinesType, domainVars, hostVars, devVars
<1>14. NothingOverdue'
  BY <1>2 DEF NothingOverdue
<1>15. SamplesOnTheirWay'
  <2>1. \A ev \in Elements(events) : \E f \in Elements(events') : f.kind = ev.kind
    BY <1>1, <1>3, <1>4, <1>6
  <2> QED
    BY <1>2, <1>11, <2>1, SamplesKept DEF IInv, hostVars, devVars
<1> QED
  BY <1>7, <1>11, <1>12, <1>13, <1>14, <1>15 DEF IInv

\* The wires start as the pulls are, with nothing queued.
LEMMA InitIInv ==
    ASSUME Init
    PROVE  IInv
<1> DEFINE low == linkC64 \cup linkDrive
<1>1. /\ linkC64 \subseteq HostLines /\ linkDrive \subseteq DeviceLines
      /\ hostPull \subseteq HostLines /\ devPull \in [Devices -> SUBSET DeviceLines]
      /\ attached = {PrimaryDevice} /\ attached \subseteq Devices
  BY LineAssumption DEF Init
<1>2. low \subseteq Lines
  BY <1>1, LineAssumption DEF Lines
<1>3. /\ line = [l \in Lines |-> IF l \in low THEN FallenLine ELSE HighLine]
      /\ hostSeen = low
      /\ devSeen = [d \in Devices |-> IF d = PrimaryDevice THEN low ELSE {}]
  BY DEF Init
<1> HIDE DEF low
<1>4. /\ FallenLine \in LineType /\ FallenLine.lowFor = 0
      /\ ~ FallenLine.high /\ ~ FallenLine.pending
      /\ HighLine \in LineType /\ HighLine.lowFor = 0
      /\ HighLine.high /\ ~ HighLine.pending
  BY DEF FallenLine, HighLine, LineType
<1>5. events = <<>> /\ Elements(events) = {} /\ events \in Seq(EventType)
  <2>1. events = <<>>
    BY DEF Init
  <2>2. <<>> \in Seq(EventType)
    OBVIOUS
  <2> QED
    BY <2>1, <2>2 DEF Elements
<1>6. QueueOK(events) /\ \A l \in Lines : RiseTimes(events, l) = {}
  BY <1>5 DEF QueueOK, Ordered, RiseTimes
<1>7. LinesType(line)
  <2>1. \A l \in Lines : line[l] \in LineType /\ line[l].lowFor = 0
    BY <1>3, <1>4
  <2>2. line \in [Lines -> LineType]
    BY <1>3, <1>4
  <2> QED
    BY <2>1, <2>2, RiseTimeType DEF LinesType, LongestLow
<1>8. LowLines(line) = low
  BY <1>2, <1>3, <1>4 DEF LowLines
<1>9. WiresOK(events, line, low)
  BY <1>3, <1>4, <1>6 DEF WiresOK, LineOK
<1>10. /\ pc = "outside" /\ nextC64 = 0 /\ nextDrive = 0
       /\ c64Enabled = TRUE /\ driveEnabled = TRUE
       /\ pendingOwner = "None" /\ commit = NoCommit /\ unsent = {}
  BY DEF Init
<1>11. TypeOK
  <2>1. pc \in Places /\ pendingOwner \in Owners /\ commit \in Owners \cup {NoCommit}
    BY <1>10 DEF Places, Owners
  <2>2. devSeen \in [Devices -> SUBSET Lines] /\ hostSeen \subseteq Lines
    BY <1>2, <1>3
  <2>3. \A i, j \in DOMAIN events : i < j => events[i].when =< events[j].when
    BY <1>6 DEF QueueOK, Ordered
  <2> QED
    BY <1>1, <1>5, <1>7, <1>10, <2>1, <2>2, <2>3 DEF TypeOK, LinesType
<1>12. NothingOverdue
  BY <1>5, <1>10, QueuedElements DEF NothingOverdue
<1>13. SamplesOnTheirWay
  BY <1>1, <1>3, <1>8 DEF SamplesOnTheirWay
<1> QED
  BY <1>6, <1>7, <1>9, <1>11, <1>12, <1>13 DEF IInv, low

\* Every step keeps the invariant.
LEMMA StepKeepsIInv == IInv /\ [FullNext]_vars => IInv'
<1> SUFFICES ASSUME IInv, [FullNext]_vars PROVE IInv'
  OBVIOUS
<1>1. CASE Advance
  BY <1>1, AdvanceKeepsIInv
<1>2. CASE RunEvent
  BY <1>2, PullsKeepIInv, RiseKeepsIInv, SampleKeepsIInv DEF RunEvent
<1>3. CASE TickDriveDomain
  BY <1>3, TickDriveKeepsIInv
<1>4. CASE TickC64Domain
  BY <1>4, TickC64KeepsIInv
<1>5. CASE \E d \in Devices : AttachDevice(d)
  BY <1>5, AttachKeepsIInv
<1>6. CASE DisableC64Domain
  BY <1>6, DisableKeepsIInv
<1>7. CASE \/ TickHalfCycle \/ SkipDriveDomain \/ SkipC64Domain \/ Return
           \/ EnableC64Domain \/ ChangePullsOutside
           \/ \E enabled \in BOOLEAN : SetDriveDomainEnabled(enabled)
           \/ UNCHANGED vars
  BY <1>7, QuietKeepsIInv
<1> QED
  BY <1>1, <1>2, <1>3, <1>4, <1>5, <1>6, <1>7 DEF FullNext, Next, TickStep

-----------------------------------------------------------------------------
(* Short pulses *)

\* The longest way of a sample to the drives.
MaxToDrives == IF BusToDrive + Jitter = 0 THEN 1 ELSE BusToDrive + Jitter

\* A line stays low for longer than a sample takes.
RisesLate == LineModelEnabled /\ \A l \in Lines : RiseTime(l) > MaxToDrives

\* A drive that did not see a line low is about to be sampled, before the line has
\* been low for the longest way.
PulseOnItsWay ==
    \A l \in Lines, d \in attached : ~ line[l].high /\ l \notin devSeen[d] =>
      \E ev \in Elements(events) :
        ev.kind = "toDrives" /\ ev.when + line[l].lowFor =< MaxToDrives

\* The lines that rise in a step were seen low.
RisenSeen ==
    \A l \in Lines : ~ line[l].high /\ line'[l].high => \A d \in attached : l \in devSeen[d]

\* A step that leaves the lines and the samples, and tells a drive nothing old.
LEMMA PulseKept ==
    ASSUME PulseOnItsWay, line' = line,
           \A ev \in Elements(events) : ev.kind = "toDrives" => ev \in Elements(events'),
           \A d \in attached' : \/ devSeen'[d] = LowLines(line)
                                \/ d \in attached /\ devSeen'[d] = devSeen[d]
    PROVE  PulseOnItsWay' /\ RisenSeen
<1>1. RisenSeen
  BY DEF RisenSeen
<1>2. ASSUME NEW l \in Lines, NEW d \in attached', ~ line'[l].high, l \notin devSeen'[d]
      PROVE  \E ev \in Elements(events') :
               ev.kind = "toDrives" /\ ev.when + line'[l].lowFor =< MaxToDrives
  <2>1. d \in attached /\ devSeen'[d] = devSeen[d]
    BY <1>2 DEF LowLines
  <2> QED
    BY <1>2, <2>1 DEF PulseOnItsWay
<1> QED
  BY <1>1, <1>2 DEF PulseOnItsWay

\* Settling: a line that falls is sent to the drives, and a line rises only when it
\* has been low for longer than any sample takes.
LEMMA PulseSettled ==
    ASSUME RisesLate, IInv, PulseOnItsWay,
           NEW q, QueueOK(q),
           \A ev \in Elements(events) : ev.kind = "toDrives" => ev \in Elements(q),
           NEW ln, LinesType(ln),
           \A m \in Lines : ln[m].high = line[m].high /\ ln[m].lowFor = line[m].lowFor,
           \A l \in Lines : Settleable(q, ln[l], l),
           NEW c64, NEW drive, NEW owner \in Owners,
           SettleBus(q, ln, c64, drive, owner),
           attached' = attached, devSeen' = devSeen
    PROVE  PulseOnItsWay' /\ RisenSeen
<1> DEFINE low == c64 \cup drive
<1>1. /\ line' = LinesAfter(ln, low)
      /\ Keeps(q, events')
      /\ LowLines(line') # LowLines(ln) =>
           \E ev \in Elements(events') :
              ev.kind = "toDrives" /\ ev.when \in LinkDelays(BusToDrive)
  BY SettleOK DEF IInv, TypeOK
<1>2. ASSUME NEW l \in Lines
      PROVE  /\ ln[l] \in LineType /\ ln[l].lowFor \in Nat /\ RiseTime(l) \in Nat
             /\ RiseTime(l) > MaxToDrives /\ LineModelEnabled
             /\ line'[l] = LineAfter(ln, l, low)
  <2>1. ln[l] \in LineType /\ RiseTime(l) \in Nat
    BY RiseTimeType DEF LinesType
  <2>2. line'[l] = LineAfter(ln, l, low)
    BY <1>1 DEF LinesAfter
  <2>3. LineModelEnabled /\ RiseTime(l) > MaxToDrives
    BY DEF RisesLate
  <2>4. ln[l].lowFor \in Nat
    BY <2>1 DEF LineType
  <2> QED
    BY <2>1, <2>2, <2>3, <2>4
<1>3. MaxToDrives \in Nat /\ \A w \in LinkDelays(BusToDrive) : w \in Nat /\ w =< MaxToDrives
  <2>1. BusToDrive \in Nat /\ Jitter \in Nat
    BY TimingAssumption
  <2> QED
    BY <2>1 DEF MaxToDrives, LinkDelays
<1>4. \A ev \in Elements(events) : ev.when \in Nat
  <2>1. Elements(events) \subseteq EventType
    BY DEF IInv, QueueOK, Elements
  <2> QED
    BY <2>1 DEF EventType
<1> HIDE DEF low
<1>7. ASSUME NEW l \in Lines
      PROVE  /\ ~ ln[l].high /\ line'[l].high => ln[l].lowFor >= RiseTime(l)
             /\ ~ ln[l].high /\ ~ line'[l].high => line'[l].lowFor = ln[l].lowFor
             /\ ln[l].high /\ ~ line'[l].high => line'[l].lowFor = 0
  <2> DEFINE held == [ln[l] EXCEPT !.pending = FALSE]
             rising == [ln[l] EXCEPT !.pending = TRUE]
  <2>1. /\ held.high = ln[l].high /\ held.lowFor = ln[l].lowFor
        /\ rising.high = ln[l].high /\ rising.lowFor = ln[l].lowFor
    BY <1>2 DEF LineType
  <2>2. \/ ln[l].high /\ line'[l] = FallenLine
        \/ ~ ln[l].high /\ line'[l] = held
        \/ (ln[l].high \/ ln[l].lowFor >= RiseTime(l)) /\ line'[l] = HighLine
        \/ ~ ln[l].high /\ line'[l] = rising
    BY <1>2 DEF LineAfter
  <2>3. ~ FallenLine.high /\ FallenLine.lowFor = 0 /\ HighLine.high
    BY DEF FallenLine, HighLine
  <2> HIDE DEF held, rising
  <2> QED
    BY <2>1, <2>2, <2>3
<1>5. RisenSeen
  <2> SUFFICES ASSUME NEW l \in Lines, ~ line[l].high, line'[l].high,
                      NEW d \in attached, l \notin devSeen[d]
               PROVE  FALSE
    BY DEF RisenSeen
  <2>1. ln[l].lowFor >= RiseTime(l)
    BY <1>7
  <2>2. PICK ev \in Elements(events) : ev.when + line[l].lowFor =< MaxToDrives
    BY DEF PulseOnItsWay
  <2> QED
    BY <1>2, <1>3, <1>4, <2>1, <2>2
<1>6. ASSUME NEW l \in Lines, NEW d \in attached, ~ line'[l].high, l \notin devSeen[d]
      PROVE  \E ev \in Elements(events') :
               ev.kind = "toDrives" /\ ev.when + line'[l].lowFor =< MaxToDrives
  <2>1. CASE ~ line[l].high
    <3>1. PICK ev \in Elements(events) :
            ev.kind = "toDrives" /\ ev.when + line[l].lowFor =< MaxToDrives
      BY <1>6, <2>1 DEF PulseOnItsWay
    <3>2. PICK f \in Elements(events') : f.kind = ev.kind /\ f.when = ev.when
      BY <1>1, <3>1 DEF Keeps
    <3>3. line'[l].lowFor = ln[l].lowFor
      BY <1>6, <1>7, <2>1
    <3> QED
      BY <3>1, <3>2, <3>3
  <2>2. CASE line[l].high
    <3>1. line'[l].lowFor = 0
      BY <1>6, <1>7, <2>2
    <3>2. l \in LowLines(line') /\ l \notin LowLines(ln)
      BY <1>6, <2>2 DEF LowLines
    <3> QED
      BY <1>1, <1>3, <3>1, <3>2
  <2> QED
    BY <2>1, <2>2
<1> QED
  BY <1>5, <1>6 DEF PulseOnItsWay

\* The events of an instant.
LEMMA PulseEvents ==
    ASSUME RisesLate, IInv, PulseOnItsWay, RunEvent
    PROVE  PulseOnItsWay' /\ RisenSeen
<1> DEFINE q == Tail(events)
           ev == Head(events)
<1>1. events # <<>>
  BY DEF RunEvent, RunC64Pulls, RunDrivePulls, RunRise, RunToDrives, RunToC64, Due
<1>2. /\ Carries(ev) /\ QueueOK(q)
      /\ Elements(events) = {ev} \cup Elements(q)
      /\ \A l \in Lines : ~ IsLiveRise(ev, l) => RiseTimes(q, l) = RiseTimes(events, l)
  BY <1>1, PopOK
<1>3. ev.kind # "toDrives" =>
        \A e \in Elements(events) : e.kind = "toDrives" => e \in Elements(q)
  BY <1>2
<1>4. /\ "C64" \in Owners /\ "Drive" \in Owners /\ "LineModel" \in Owners
      /\ LinesType(line)
  BY DEF Owners, IInv
<1> HIDE DEF q, ev
<1>5. CASE RunC64Pulls \/ RunDrivePulls
  <2>1. /\ ev.kind \in {"c64Pulls", "drivePulls"} /\ attached' = attached /\ devSeen' = devSeen
        /\ \E c64, drive : \E owner \in Owners : SettleBus(q, line, c64, drive, owner)
    BY <1>4, <1>5 DEF RunC64Pulls, RunDrivePulls, devVars, q, ev
  <2>2. \A l \in Lines : Settleable(q, line[l], l)
    BY <1>2, <2>1 DEF IsLiveRise, IInv, WiresOK, LineOK, Settleable
  <2> QED
    BY <1>2, <1>3, <1>4, <2>1, <2>2, PulseSettled
<1>6. CASE RunRise
  <2>1. ev.kind = "rise" /\ attached' = attached /\ devSeen' = devSeen
    BY <1>6 DEF RunRise, devVars, ev
  <2>2. PICK l \in Lines : ev.low = {l}
    BY <1>2, <2>1 DEF Carries
  <2>3. CASE /\ ev.live /\ line[l].pending
             /\ SettleBus(q, [line EXCEPT ![l].pending = FALSE], linkC64, linkDrive, "LineModel")
    <3> DEFINE ln == [line EXCEPT ![l].pending = FALSE]
    <3>1. line \in [Lines -> LineType]
      BY <1>4 DEF LinesType
    <3>2. /\ ln \in [Lines -> LineType]
          /\ \A m \in Lines : ln[m].high = line[m].high /\ ln[m].lowFor = line[m].lowFor
          /\ \A m \in Lines \ {l} : ln[m] = line[m]
          /\ ~ ln[l].pending
      BY <3>1 DEF LineType
    <3>3. SettleBus(q, ln, linkC64, linkDrive, "LineModel")
      BY <2>3
    <3> HIDE DEF ln
    <3>4. LinesType(ln)
      BY <1>4, <3>2 DEF LinesType
    <3>5. \A m \in Lines : Settleable(q, ln[m], m)
      BY <1>2, <2>2, <3>2 DEF IsLiveRise, IInv, WiresOK, LineOK, Settleable
    <3> QED
      BY <1>2, <1>3, <1>4, <2>1, <3>2, <3>3, <3>4, <3>5, PulseSettled
  <2>4. CASE events' = q /\ line' = line
    BY <1>3, <2>1, <2>4, PulseKept
  <2> QED
    BY <1>6, <2>2, <2>3, <2>4 DEF RunRise, q, ev
<1>7. CASE RunToDrives
  <2>1. /\ attached' = attached /\ line' = line /\ attached \subseteq Devices
        /\ \A d \in attached : devSeen'[d] = LowLines(line)
    BY <1>7 DEF RunToDrives, wireVars, IInv, TypeOK
  <2> QED
    BY <2>1 DEF PulseOnItsWay, RisenSeen, LowLines
<1>8. CASE RunToC64
  <2>1. /\ ev.kind = "toC64" /\ events' = q /\ line' = line
        /\ attached' = attached /\ devSeen' = devSeen
    BY <1>8 DEF RunToC64, wireVars, devVars, q, ev
  <2> QED
    BY <1>3, <2>1, PulseKept
<1> QED
  BY <1>5, <1>6, <1>7, <1>8 DEF RunEvent

\* Time passes for the sample and for the line alike.
LEMMA PulseAdvance ==
    ASSUME IInv, PulseOnItsWay, Advance
    PROVE  PulseOnItsWay' /\ RisenSeen
<1> DEFINE t == NextTime
<1>1. t \in Nat /\ \A ev \in Elements(events) : t =< ev.when
  BY NextTimeIsFirst
<1>2. /\ events' = [i \in DOMAIN events |-> Sooner(events[i], t)]
      /\ line' = [l \in Lines |-> Aged(l, t)]
      /\ attached' = attached /\ devSeen' = devSeen
  BY DEF Advance, Sooner, devVars
<1> HIDE DEF t
<1>3. \A ev \in Elements(events) :
        /\ Sooner(ev, t) \in Elements(events')
        /\ ev.when \in Nat
        /\ Sooner(ev, t).when = ev.when - t /\ Sooner(ev, t).kind = ev.kind
  <2>1. Elements(events) \subseteq EventType
    BY DEF IInv, QueueOK, Elements
  <2>2. \A ev \in Elements(events) : Sooner(ev, t) \in Elements(events')
    BY <1>2 DEF Elements
  <2> QED
    BY <2>1, <2>2 DEF Sooner, EventType
<1>4. ASSUME NEW l \in Lines
      PROVE  /\ line'[l].high = line[l].high
             /\ ~ line[l].high => /\ line[l].lowFor \in Nat /\ line'[l].lowFor \in Nat
                                  /\ line'[l].lowFor =< line[l].lowFor + t
  <2>1. line[l] \in LineType /\ line'[l] = Aged(l, t) /\ LongestLow(l) \in Nat
    BY <1>2, RiseTimeType DEF IInv, LinesType, LongestLow
  <2> DEFINE age == IF line[l].high THEN 0
                    ELSE IF line[l].lowFor + t > LongestLow(l) THEN LongestLow(l)
                    ELSE line[l].lowFor + t
  <2>2. /\ line[l].lowFor \in Nat
        /\ ~ line[l].high => age \in Nat /\ age =< line[l].lowFor + t
    BY <1>1, <2>1 DEF LineType
  <2>3. line'[l] = [line[l] EXCEPT !.lowFor = age]
    BY <2>1 DEF Aged
  <2> HIDE DEF age
  <2>4. line'[l].lowFor = age /\ line'[l].high = line[l].high
    BY <2>1, <2>3 DEF LineType
  <2> QED
    BY <2>2, <2>4
<1>5. RisenSeen
  BY <1>4 DEF RisenSeen
<1>6. ASSUME NEW l \in Lines, NEW d \in attached, ~ line'[l].high, l \notin devSeen[d]
      PROVE  \E ev \in Elements(events') :
               ev.kind = "toDrives" /\ ev.when + line'[l].lowFor =< MaxToDrives
  <2>1. PICK ev \in Elements(events) :
          ev.kind = "toDrives" /\ ev.when + line[l].lowFor =< MaxToDrives
    BY <1>4, <1>6 DEF PulseOnItsWay
  <2>2. MaxToDrives \in Nat
    BY TimingAssumption DEF MaxToDrives
  <2>3. Sooner(ev, t).when + line'[l].lowFor =< MaxToDrives
    BY <1>1, <1>3, <1>4, <1>6, <2>1, <2>2
  <2> QED
    BY <1>3, <2>1, <2>3
<1> QED
  BY <1>2, <1>5, <1>6 DEF PulseOnItsWay

\* Every step.
LEMMA PulseStep ==
    ASSUME RisesLate, IInv, PulseOnItsWay, [FullNext]_vars
    PROVE  PulseOnItsWay' /\ RisenSeen
<1>1. CASE Advance
  BY <1>1, PulseAdvance
<1>2. CASE RunEvent
  BY <1>2, PulseEvents
<1>3. CASE TickDriveDomain \/ TickC64Domain
  <2>1. Elements(events) \subseteq Elements(events')
    BY <1>3, TickDriveKeepsIInv, TickC64KeepsIInv
  <2>2. line' = line /\ attached' = attached /\ devSeen' = devSeen
    BY <1>3 DEF TickDriveDomain, TickC64Domain, wireVars, devVars
  <2> QED
    BY <2>1, <2>2, PulseKept
<1>4. CASE \E d \in Devices : AttachDevice(d)
  <2>1. PICK d \in Devices : AttachDevice(d)
    BY <1>4
  <2>2. Elements(events) \subseteq Elements(events')
    BY <2>1, AttachKeepsIInv
  <2>3. /\ line' = line
        /\ attached' = attached \cup {d} /\ attached' \subseteq Devices
        /\ devSeen' = [devSeen EXCEPT ![d] = LowLines(line)]
        /\ devSeen \in [Devices -> SUBSET Lines]
    BY <2>1 DEF AttachDevice, wireVars, IInv, TypeOK
  <2>4. \A e \in attached' : \/ devSeen'[e] = LowLines(line)
                             \/ e \in attached /\ devSeen'[e] = devSeen[e]
    BY <2>3
  <2> QED
    BY <2>2, <2>3, <2>4, PulseKept
<1>5. CASE DisableC64Domain
  <2>1. \A l \in Lines : Settleable(events, line[l], l)
    BY DEF IInv, WiresOK, LineOK, Settleable
  <2>2. QueueOK(events) /\ LinesType(line) /\ pendingOwner \in Owners
    BY DEF IInv, TypeOK
  <2>3. /\ SettleBus(events, line, {}, linkDrive, pendingOwner)
        /\ attached' = attached /\ devSeen' = devSeen
    BY <1>5 DEF DisableC64Domain, devVars
  <2> QED
    BY <2>1, <2>2, <2>3, PulseSettled
<1>6. CASE \/ TickHalfCycle \/ SkipDriveDomain \/ SkipC64Domain \/ Return
           \/ EnableC64Domain \/ ChangePullsOutside
           \/ \E enabled \in BOOLEAN : SetDriveDomainEnabled(enabled)
           \/ UNCHANGED vars
  <2>1. events' = events /\ line' = line /\ attached' = attached /\ devSeen' = devSeen
    BY <1>6 DEF TickHalfCycle, SkipDriveDomain, SkipC64Domain, Return, EnableC64Domain,
                ChangePullsOutside, SetDriveDomainEnabled, vars, wireVars, devVars
  <2> QED
    BY <2>1, PulseKept
<1> QED
  BY <1>1, <1>2, <1>3, <1>4, <1>5, <1>6 DEF FullNext, Next, TickStep

-----------------------------------------------------------------------------
(* The theorems *)

\* The inductive invariant holds in every state.
THEOREM Consistent == FullSpec => []IInv
BY InitIInv, StepKeepsIInv, PTL DEF FullSpec

\* Every variable has its type and the queue is ordered by time.
THEOREM TypeCorrect == FullSpec => []TypeOK
<1>1. IInv => TypeOK
  BY DEF IInv
<1> QED
  BY <1>1, Consistent, PTL

\* Time passes no event and no tick of a domain, whatever the latencies, the jitter
\* and the periods: a domain that is turned off has its tick set too.
THEOREM NothingMissed == FullSpec => []NothingOverdue
<1>1. IInv => NothingOverdue
  BY DEF IInv
<1> QED
  BY <1>1, Consistent, PTL

\* A line is low while somebody pulls it, and otherwise only until a rise event
\* that is queued for the time it may rise: no rise event of an earlier pulse
\* raises a line that was pulled again, and no released line is left low.
THEOREM WiresCorrect == FullSpec => []LinesFollowPulls
<1>1. ASSUME IInv PROVE LinesFollowPulls
  <2> SUFFICES ASSUME NEW l \in Lines
               PROVE  ~ line[l].high <=>
                        \/ l \in linkC64 \cup linkDrive
                        \/ /\ line[l].pending
                           /\ \E ev \in Elements(events) :
                                /\ ev.kind = "rise" /\ ev.low = {l} /\ ev.live
                                /\ ev.when = RiseTime(l) - line[l].lowFor
    BY QueuedElements DEF LinesFollowPulls
  <2>1. LineOK(events, line[l], linkC64 \cup linkDrive, l)
    BY <1>1 DEF IInv, WiresOK
  <2>2. CASE line[l].high
    BY <2>1, <2>2 DEF LineOK
  <2>3. CASE ~ line[l].high /\ l \in linkC64 \cup linkDrive
    BY <2>3
  <2>4. CASE ~ line[l].high /\ l \notin linkC64 \cup linkDrive
    <3>1. line[l].pending /\ RiseTime(l) - line[l].lowFor \in RiseTimes(events, l)
      BY <2>1, <2>4 DEF LineOK
    <3> QED
      BY <2>4, <3>1 DEF RiseTimes, IsLiveRise
  <2> QED
    BY <2>2, <2>3, <2>4
<1> QED
  BY <1>1, Consistent, PTL

\* Whoever saw other levels than the wires have has a sample on its way, however
\* often the wires changed since and whoever was attached meanwhile.
THEOREM SamplesArrive == FullSpec => []SamplesOnTheirWay
<1>1. IInv => SamplesOnTheirWay
  BY DEF IInv
<1> QED
  BY <1>1, Consistent, PTL

\* When the lines rise later than the longest way of a sample to the drives, no
\* pulse is too short: a line that rises was seen low by every attached drive, also
\* by one that was attached during the pulse.
THEOREM ShortPulsesAreSeen == RisesLate => (FullSpec => PulseIsSeen)
<1> SUFFICES ASSUME RisesLate PROVE FullSpec => PulseIsSeen
  OBVIOUS
<1>1. Init => PulseOnItsWay
  <2> SUFFICES ASSUME Init PROVE PulseOnItsWay
    OBVIOUS
  <2>1. /\ line = [l \in Lines |-> IF l \in linkC64 \cup linkDrive THEN FallenLine ELSE HighLine]
        /\ attached = {PrimaryDevice}
        /\ devSeen[PrimaryDevice] = linkC64 \cup linkDrive
    BY LineAssumption DEF Init
  <2> QED
    BY <2>1 DEF PulseOnItsWay, FallenLine, HighLine
<1>2. IInv /\ PulseOnItsWay /\ [FullNext]_vars => PulseOnItsWay' /\ RisenSeen
  BY PulseStep
<1>3. RisenSeen =>
        \A l \in Lines : ~ line[l].high /\ line'[l].high => \A d \in attached : l \in devSeen[d]
  BY DEF RisenSeen
<1> QED
  BY <1>1, <1>2, <1>3, Consistent, PTL DEF FullSpec, PulseIsSeen

-----------------------------------------------------------------------------
(* Without jitter the wires end up with the pulls the endpoints have,      *)
(* unless these changed between two calls: pulls of one side arrive in the *)
(* order of their changes, because all of them are on their way for the    *)
(* same time.                                                              *)

PullKinds == {"c64Pulls", "drivePulls"}

LastAt(q, kind, i) ==
    /\ i \in DOMAIN q /\ q[i].kind = kind
    /\ \A j \in DOMAIN q : q[j].kind = kind => j =< i

\* What is left of a kind of pulls on the wires when the queue has run.
EndsWith(q, kind, link, pulls) ==
    /\ \A i \in DOMAIN q : LastAt(q, kind, i) => q[i].low = pulls
    /\ (\A i \in DOMAIN q : q[i].kind # kind) => link = pulls

\* No event of the kind is further away than a new one would be.
Within(q, kind, delay) == \A i \in DOMAIN q : q[i].kind = kind => q[i].when =< delay

Flows(q, kind, link, pulls, delay) ==
    EndsWith(q, kind, link, pulls) /\ Within(q, kind, delay)

\* The delay of a link without jitter.
PullDelay(base) == IF base = 0 THEN 1 ELSE base

\* With queue q and these pulls on the wires, the wires will have host's and drives'.
FlowTo(q, c64, drive, host, drives) ==
    /\ Flows(q, "c64Pulls", c64, host, PullDelay(C64ToBus))
    /\ Flows(q, "drivePulls", drive, drives, PullDelay(DriveToBus))

\* What the wires will have is what a side pulls, unless that changed unsent.
PullsFlow ==
    \E host, drives :
      /\ FlowTo(events, linkC64, linkDrive, host, drives)
      /\ "c64" \notin unsent => host = hostPull
      /\ "drives" \notin unsent => drives = AnyDrivePull(attached, devPull)

-----------------------------------------------------------------------------
(* The queue *)

\* An event of another kind does not touch the order of this one.
LEMMA ScheduleOther ==
    ASSUME NEW q, QueueOK(q), NEW ev \in EventType, NEW kind, ev.kind # kind,
           NEW link, NEW pulls, NEW delay, Flows(q, kind, link, pulls, delay)
    PROVE  Flows(Schedule(q, ev), kind, link, pulls, delay)
<1> DEFINE s == Schedule(q, ev)
           n == Len(q)
<1>1. PICK k \in Nat : InsertedAt(s, q, ev, k)
  BY SchedulePlace DEF QueueOK
<1>2. n \in Nat /\ DOMAIN q = 1 .. n
  BY DEF QueueOK
<1> HIDE DEF s, n
<1>3. /\ k \in 0 .. n /\ DOMAIN s = 1 .. n + 1
      /\ \A i \in 1 .. n + 1 :
           s[i] = IF i =< k THEN q[i] ELSE IF i = k + 1 THEN ev ELSE q[i - 1]
  BY <1>1, <1>2 DEF InsertedAt, n
<1> DEFINE old(i) == IF i =< k THEN i ELSE i - 1
           new(j) == IF j =< k THEN j ELSE j + 1
<1>4. ASSUME NEW i \in 1 .. n + 1, s[i].kind = kind
      PROVE  old(i) \in 1 .. n /\ s[i] = q[old(i)]
  <2>1. i # k + 1
    BY <1>3, <1>4
  <2> QED
    BY <1>2, <1>3, <2>1
<1>5. ASSUME NEW j \in 1 .. n
      PROVE  new(j) \in 1 .. n + 1 /\ s[new(j)] = q[j]
  <2>1. CASE j =< k
    BY <1>2, <1>3, <2>1
  <2>2. CASE ~ (j =< k)
    <3>1. /\ j + 1 \in 1 .. n + 1 /\ ~ (j + 1 =< k) /\ j + 1 # k + 1
          /\ (j + 1) - 1 = j
      BY <1>2, <1>3, <2>2
    <3> QED
      BY <1>3, <2>2, <3>1
  <2> QED
    BY <2>1, <2>2
<1>6. Within(s, kind, delay)
  BY <1>2, <1>3, <1>4 DEF Flows, Within
<1>7. ASSUME NEW i \in 1 .. n + 1, LastAt(s, kind, i) PROVE s[i].low = pulls
  <2>1. s[i].kind = kind /\ old(i) \in 1 .. n /\ s[i] = q[old(i)]
    BY <1>4, <1>7 DEF LastAt
  <2>2. ASSUME NEW j \in 1 .. n, q[j].kind = kind PROVE j =< old(i)
    <3>1. new(j) \in 1 .. n + 1 /\ s[new(j)].kind = kind
      BY <1>5, <2>2
    <3>2. new(j) =< i
      BY <1>3, <1>7, <3>1 DEF LastAt
    <3>3. i # k + 1
      BY <1>3, <2>1
    <3> QED
      BY <1>2, <1>3, <3>2, <3>3
  <2>3. LastAt(q, kind, old(i))
    BY <1>2, <2>1, <2>2 DEF LastAt
  <2> QED
    BY <1>2, <2>1, <2>3 DEF Flows, EndsWith
<1>8. ASSUME \A i \in 1 .. n + 1 : s[i].kind # kind PROVE link = pulls
  <2>1. \A j \in 1 .. n : q[j].kind # kind
    BY <1>5, <1>8
  <2> QED
    BY <1>2, <2>1 DEF Flows, EndsWith
<1> QED
  BY <1>3, <1>6, <1>7, <1>8 DEF Flows, EndsWith, s

\* An event that is not earlier than those of its kind becomes the last of them.
LEMMA ScheduleOwn ==
    ASSUME NEW q, QueueOK(q), NEW ev \in EventType, NEW link,
           Within(q, ev.kind, ev.when)
    PROVE  Flows(Schedule(q, ev), ev.kind, link, ev.low, ev.when)
<1> DEFINE s == Schedule(q, ev)
           n == Len(q)
<1>1. PICK k \in Nat : InsertedAt(s, q, ev, k)
  BY SchedulePlace DEF QueueOK
<1>2. n \in Nat /\ DOMAIN q = 1 .. n /\ ev.when \in Nat
  BY DEF QueueOK, EventType
<1> HIDE DEF s, n
<1>3. /\ k \in 0 .. n /\ DOMAIN s = 1 .. n + 1
      /\ \A i \in 1 .. n : q[i].when =< ev.when <=> i =< k
      /\ \A i \in 1 .. n + 1 :
           s[i] = IF i =< k THEN q[i] ELSE IF i = k + 1 THEN ev ELSE q[i - 1]
  BY <1>1, <1>2 DEF InsertedAt, n
<1>4. k + 1 \in 1 .. n + 1 /\ s[k + 1] = ev
  BY <1>2, <1>3
<1>5. ASSUME NEW i \in 1 .. n + 1, s[i].kind = ev.kind
      PROVE  i =< k + 1 /\ s[i].when =< ev.when
  <2>1. CASE i =< k
    <3>1. i \in 1 .. n /\ s[i] = q[i]
      BY <1>2, <1>3, <2>1
    <3> QED
      BY <1>3, <2>1, <3>1
  <2>2. CASE i = k + 1
    BY <1>2, <1>4, <2>2
  <2>3. CASE i > k + 1
    <3>1. i - 1 \in 1 .. n /\ s[i] = q[i - 1] /\ ~ (i - 1 =< k)
      BY <1>2, <1>3, <2>3
    <3>2. q[i - 1].when =< ev.when
      BY <1>2, <1>5, <3>1 DEF Within
    <3> QED
      BY <1>3, <3>1, <3>2
  <2> QED
    BY <1>3, <2>1, <2>2, <2>3
<1>6. Within(s, ev.kind, ev.when)
  BY <1>3, <1>5 DEF Within
<1>7. ASSUME NEW i \in 1 .. n + 1, LastAt(s, ev.kind, i) PROVE s[i].low = ev.low
  <2>1. i =< k + 1 /\ k + 1 =< i
    BY <1>3, <1>4, <1>5, <1>7 DEF LastAt
  <2> QED
    BY <1>3, <1>4, <2>1
<1> QED
  BY <1>3, <1>4, <1>6, <1>7 DEF Flows, EndsWith, s

\* The head has run: the wires have its pulls if it is of the kind.
LEMMA RunOne ==
    ASSUME NEW q, QueueOK(q), q # <<>>, NEW kind,
           NEW link, NEW pulls, NEW delay, Flows(q, kind, link, pulls, delay)
    PROVE  Flows(Tail(q), kind, IF Head(q).kind = kind THEN Head(q).low ELSE link, pulls, delay)
<1> DEFINE n == Len(q)
           t == Tail(q)
           now == IF Head(q).kind = kind THEN Head(q).low ELSE link
<1>1. n \in Nat \ {0} /\ DOMAIN q = 1 .. n /\ Head(q) = q[1]
  BY DEF QueueOK
<1>2. /\ DOMAIN t = 1 .. n - 1
      /\ \A i \in 1 .. n - 1 : i + 1 \in 1 .. n /\ t[i] = q[i + 1]
  BY <1>1 DEF QueueOK
<1> HIDE DEF n, t
<1>3. \A j \in 1 .. n : j = 1 \/ (j - 1 \in 1 .. n - 1 /\ q[j] = t[j - 1])
  <2> SUFFICES ASSUME NEW j \in 1 .. n, j # 1
               PROVE  j - 1 \in 1 .. n - 1 /\ q[j] = t[j - 1]
    OBVIOUS
  <2>1. j - 1 \in 1 .. n - 1 /\ (j - 1) + 1 = j
    BY <1>1
  <2> QED
    BY <1>2, <2>1
<1>4. Within(t, kind, delay)
  BY <1>1, <1>2 DEF Flows, Within
<1>5. ASSUME NEW i \in 1 .. n - 1, LastAt(t, kind, i) PROVE t[i].low = pulls
  <2>1. ASSUME NEW j \in 1 .. n, q[j].kind = kind PROVE j =< i + 1
    <3>1. CASE j = 1
      BY <3>1
    <3>2. CASE j # 1
      <4>1. j - 1 \in 1 .. n - 1 /\ t[j - 1].kind = kind
        BY <1>3, <2>1, <3>2
      <4>2. j - 1 =< i
        BY <1>2, <1>5, <4>1 DEF LastAt
      <4> QED
        BY <4>2
    <3> QED
      BY <3>1, <3>2
  <2>2. LastAt(q, kind, i + 1)
    BY <1>1, <1>2, <1>5, <2>1 DEF LastAt
  <2> QED
    BY <1>1, <1>2, <2>2 DEF Flows, EndsWith
<1>6. ASSUME \A i \in 1 .. n - 1 : t[i].kind # kind PROVE now = pulls
  <2>1. \A j \in 1 .. n : q[j].kind = kind => j = 1
    BY <1>3, <1>6
  <2>2. CASE Head(q).kind = kind
    <3>1. LastAt(q, kind, 1)
      BY <1>1, <2>1, <2>2 DEF LastAt
    <3> QED
      BY <1>1, <2>2, <3>1 DEF Flows, EndsWith
  <2>3. CASE Head(q).kind # kind
    <3>1. \A j \in 1 .. n : q[j].kind # kind
      BY <1>1, <2>1, <2>3
    <3> QED
      BY <1>1, <2>3, <3>1 DEF Flows, EndsWith
  <2> QED
    BY <2>2, <2>3
<1> QED
  BY <1>2, <1>4, <1>5, <1>6 DEF Flows, EndsWith, t

\* Only kinds, pulls and an upper bound of the times matter.
LEMMA SameEvents ==
    ASSUME NEW q, QueueOK(q), NEW r, QueueOK(r), DOMAIN r = DOMAIN q,
           \A i \in DOMAIN q : /\ r[i].kind = q[i].kind /\ r[i].low = q[i].low
                               /\ r[i].when =< q[i].when,
           NEW kind, NEW link, NEW pulls, NEW delay \in Nat,
           Flows(q, kind, link, pulls, delay)
    PROVE  Flows(r, kind, link, pulls, delay)
<1>1. \A i \in DOMAIN q : q[i].when \in Nat /\ r[i].when \in Nat
  <2>1. \A i \in DOMAIN q : q[i] \in EventType /\ r[i] \in EventType
    BY DEF QueueOK
  <2> QED
    BY <2>1 DEF EventType
<1>2. Within(r, kind, delay)
  BY <1>1 DEF Flows, Within
<1>3. \A i \in DOMAIN q : LastAt(r, kind, i) => LastAt(q, kind, i)
  BY DEF LastAt
<1> QED
  BY <1>2, <1>3 DEF Flows, EndsWith

\* Settling a line leaves the pulls on their way.
LEMMA QueueAfterFlows ==
    ASSUME NEW q, QueueOK(q), NEW ln, LinesType(ln), NEW l \in Lines, NEW low,
           NEW kind \in PullKinds, NEW link, NEW pulls, NEW delay \in Nat,
           Flows(q, kind, link, pulls, delay)
    PROVE  /\ QueueOK(QueueAfter(q, ln, l, low))
           /\ Flows(QueueAfter(q, ln, l, low), kind, link, pulls, delay)
<1> DEFINE r == Outdate(q, l)
           ev == Event("rise", {l}, RiseTime(l) - ln[l].lowFor)
<1>1. QueueOK(r)
  BY OutdateElements
<1>2. Flows(r, kind, link, pulls, delay)
  <2>1. DOMAIN r = DOMAIN q
    BY DEF Outdate
  <2>2. ASSUME NEW i \in DOMAIN q
        PROVE  r[i].kind = q[i].kind /\ r[i].low = q[i].low /\ r[i].when =< q[i].when
    <3>1. q[i] \in EventType
      BY DEF QueueOK
    <3>2. q[i].when \in Nat
      BY <3>1 DEF EventType
    <3>3. r[i] = IF q[i].kind = "rise" /\ q[i].low = {l} THEN [q[i] EXCEPT !.live = FALSE] ELSE q[i]
      BY DEF Outdate
    <3>4. r[i].kind = q[i].kind /\ r[i].low = q[i].low /\ r[i].when = q[i].when
      BY <3>1, <3>3 DEF EventType
    <3> QED
      BY <3>2, <3>4
  <2> HIDE DEF r
  <2> QED
    BY <1>1, <2>1, <2>2, SameEvents
<1>3. ASSUME ln[l].lowFor < RiseTime(l)
      PROVE  ev \in EventType /\ ev.kind # kind
  <2>1. ln[l].lowFor \in Nat /\ RiseTime(l) \in Nat
    BY RiseTimeType DEF LinesType, LineType
  <2>2. RiseTime(l) - ln[l].lowFor \in Nat
    BY <1>3, <2>1
  <2> QED
    BY <2>2 DEF Event, EventType, Kinds, PullKinds
<1> HIDE DEF r, ev
<1>4. ln[l].lowFor < RiseTime(l) => Flows(Schedule(r, ev), kind, link, pulls, delay)
  BY <1>1, <1>2, <1>3, ScheduleOther
<1>5. \/ QueueAfter(q, ln, l, low) \in {q, r}
      \/ ln[l].lowFor < RiseTime(l) /\ QueueAfter(q, ln, l, low) = Schedule(r, ev)
  <2>1. QueueAfter(q, ln, l, low) \in {q, r, Schedule(r, ev)}
    BY DEF QueueAfter, r, ev
  <2>2. CASE ~ (ln[l].lowFor < RiseTime(l))
    <3>1. ln[l] \in LineType /\ ln[l].lowFor \in Nat /\ RiseTime(l) \in Nat
      BY RiseTimeType DEF LinesType, LineType
    <3>2. ln[l].lowFor >= RiseTime(l)
      BY <2>2, <3>1
    <3>3. LineModelEnabled /\ l \notin low => LineAfter(ln, l, low) = HighLine
      BY <3>2 DEF LineAfter
    <3> QED
      BY <3>3 DEF QueueAfter, HighLine, r
  <2> QED
    BY <2>1, <2>2
<1> QED
  BY <1>2, <1>4, <1>5, QueueAfterOK

\* So does settling the bus, which sends samples only.
LEMMA SettleFlows ==
    ASSUME NEW q, QueueOK(q), NEW ln, LinesType(ln), NEW c64, NEW drive, NEW owner,
           SettleBus(q, ln, c64, drive, owner),
           NEW kind \in PullKinds, NEW link, NEW pulls, NEW delay \in Nat,
           Flows(q, kind, link, pulls, delay)
    PROVE  Flows(events', kind, link, pulls, delay)
<1> DEFINE low == c64 \cup drive
           a == QueueAfter(q, ln, "atn", low)
           b == QueueAfter(a, ln, "clk", low)
           c == QueueAfter(b, ln, "data", low)
<1>1. "atn" \in Lines /\ "clk" \in Lines /\ "data" \in Lines
  BY DEF Lines
<1> HIDE DEF low
<1>2. QueueOK(a) /\ Flows(a, kind, link, pulls, delay)
  BY <1>1, QueueAfterFlows
<1> HIDE DEF a
<1>3. QueueOK(b) /\ Flows(b, kind, link, pulls, delay)
  BY <1>1, <1>2, QueueAfterFlows
<1> HIDE DEF b
<1>4. QueueOK(c) /\ Flows(c, kind, link, pulls, delay)
  BY <1>1, <1>3, QueueAfterFlows
<1>5. QueueAfterLines(q, ln, low) = c
  BY DEF QueueAfterLines, a, b, c
<1> HIDE DEF c
<1>6. CASE events' = c
  BY <1>4, <1>6
<1>7. CASE events' # c
  <2>1. PICK toDrives \in LinkDelays(BusToDrive), toC64 \in LinkDelays(BusToC64) :
          events' = Schedule(Schedule(c, Event("toDrives", {}, toDrives)),
                             Event("toC64", {}, toC64))
    BY <1>5, <1>7 DEF SettleBus, low
  <2> DEFINE d == Event("toDrives", {}, toDrives)
             h == Event("toC64", {}, toC64)
  <2>2. toDrives \in Nat /\ toC64 \in Nat
    BY LinkDelaysPositive, TimingAssumption
  <2>3. d \in EventType /\ h \in EventType /\ d.kind # kind /\ h.kind # kind
        /\ Carries(d) /\ Carries(h)
    BY <2>2 DEF Event, EventType, Kinds, PullKinds, Carries
  <2> HIDE DEF d, h
  <2>4. QueueOK(Schedule(c, d)) /\ Flows(Schedule(c, d), kind, link, pulls, delay)
    BY <1>4, <2>3, ScheduleOK, ScheduleOther
  <2>5. Flows(Schedule(Schedule(c, d), h), kind, link, pulls, delay)
    BY <2>3, <2>4, ScheduleOther
  <2> QED
    BY <2>1, <2>5 DEF d, h
<1> QED
  BY <1>6, <1>7

-----------------------------------------------------------------------------
(* The steps *)

\* Without jitter a link has one delay.
LEMMA OneDelay ==
    ASSUME Jitter = 0, NEW base \in Nat
    PROVE  LinkDelays(base) = {PullDelay(base)} /\ PullDelay(base) \in Nat
<1>1. 0 .. Jitter = {0}
  OBVIOUS
<1> QED
  BY <1>1 DEF LinkDelays, PullDelay

\* The two links that carry pulls.
LEMMA DelayTypes ==
    ASSUME Jitter = 0
    PROVE  /\ LinkDelays(C64ToBus) = {PullDelay(C64ToBus)} /\ PullDelay(C64ToBus) \in Nat
           /\ LinkDelays(DriveToBus) = {PullDelay(DriveToBus)} /\ PullDelay(DriveToBus) \in Nat
BY OneDelay, TimingAssumption

\* An event runs.
LEMMA RunFlows ==
    ASSUME Jitter = 0, IInv, NEW host, NEW drives,
           FlowTo(events, linkC64, linkDrive, host, drives), RunEvent
    PROVE  FlowTo(events', linkC64', linkDrive', host, drives)
<1> DEFINE q == Tail(events)
           ev == Head(events)
           c64 == IF ev.kind = "c64Pulls" THEN ev.low ELSE linkC64
           drive == IF ev.kind = "drivePulls" THEN ev.low ELSE linkDrive
<1>1. events # <<>> /\ QueueOK(events) /\ QueueOK(q) /\ LinesType(line)
  BY PopOK DEF RunEvent, RunC64Pulls, RunDrivePulls, RunRise, RunToDrives, RunToC64, Due, IInv
<1>2. /\ Flows(q, "c64Pulls", c64, host, PullDelay(C64ToBus))
      /\ Flows(q, "drivePulls", drive, drives, PullDelay(DriveToBus))
  BY <1>1, RunOne DEF FlowTo
<1>3. linkC64' = c64 /\ linkDrive' = drive
  BY DEF RunEvent, RunC64Pulls, RunDrivePulls, RunRise, RunToDrives, RunToC64, wireVars
<1>4. \/ events' = q
      \/ \E ln, x, y, owner : LinesType(ln) /\ SettleBus(q, ln, x, y, owner)
  <2>1. CASE RunC64Pulls \/ RunDrivePulls
    BY <1>1, <2>1 DEF RunC64Pulls, RunDrivePulls
  <2>2. CASE RunRise
    <3>1. PICK l \in ev.low :
            \/ SettleBus(q, [line EXCEPT ![l].pending = FALSE], linkC64, linkDrive, "LineModel")
            \/ events' = q
      BY <2>2 DEF RunRise
    <3>2. LinesType([line EXCEPT ![l].pending = FALSE])
      BY <1>1 DEF LinesType, LineType
    <3> QED
      BY <3>1, <3>2
  <2>3. CASE RunToDrives \/ RunToC64
    BY <2>3 DEF RunToDrives, RunToC64
  <2> QED
    BY <2>1, <2>2, <2>3 DEF RunEvent
<1> HIDE DEF q, c64, drive
<1>5. /\ Flows(events', "c64Pulls", c64, host, PullDelay(C64ToBus))
      /\ Flows(events', "drivePulls", drive, drives, PullDelay(DriveToBus))
  <2>1. CASE events' = q
    BY <1>2, <2>1
  <2>2. CASE \E ln, x, y, owner : LinesType(ln) /\ SettleBus(q, ln, x, y, owner)
    <3>1. PICK ln, x, y, owner : LinesType(ln) /\ SettleBus(q, ln, x, y, owner)
      BY <2>2
    <3>2. "c64Pulls" \in PullKinds /\ "drivePulls" \in PullKinds
      BY DEF PullKinds
    <3>3. Flows(events', "c64Pulls", c64, host, PullDelay(C64ToBus))
      BY <1>1, <1>2, <3>1, <3>2, DelayTypes, SettleFlows
    <3>4. Flows(events', "drivePulls", drive, drives, PullDelay(DriveToBus))
      BY <1>1, <1>2, <3>1, <3>2, DelayTypes, SettleFlows
    <3> QED
      BY <3>3, <3>4
  <2> QED
    BY <1>4, <2>1, <2>2
<1> QED
  BY <1>3, <1>5 DEF FlowTo

\* Time passes for all events alike.
LEMMA AdvanceFlows ==
    ASSUME Jitter = 0, IInv, NEW host, NEW drives,
           FlowTo(events, linkC64, linkDrive, host, drives), Advance
    PROVE  FlowTo(events', linkC64', linkDrive', host, drives)
<1>1. NextTime \in Nat /\ QueueOK(events) /\ QueueOK(events')
  BY NextTimeIsFirst, AdvanceKeepsIInv DEF IInv
<1>2. events' = [i \in DOMAIN events |-> [events[i] EXCEPT !.when = @ - NextTime]]
  BY DEF Advance
<1>3. \A i \in DOMAIN events : events[i] \in EventType
  BY <1>1 DEF QueueOK
<1>4. ASSUME NEW i \in DOMAIN events
      PROVE  /\ events'[i].kind = events[i].kind /\ events'[i].low = events[i].low
             /\ events'[i].when =< events[i].when
  <2>1. events[i].when \in Nat
    BY <1>3 DEF EventType
  <2>2. /\ events'[i].kind = events[i].kind /\ events'[i].low = events[i].low
        /\ events'[i].when = events[i].when - NextTime
    BY <1>2, <1>3 DEF EventType
  <2> QED
    BY <1>1, <2>1, <2>2
<1>5. DOMAIN events' = DOMAIN events
  BY <1>2
<1>6. \A kind, link, pulls : \A delay \in Nat :
        Flows(events, kind, link, pulls, delay) => Flows(events', kind, link, pulls, delay)
  BY <1>1, <1>4, <1>5, SameEvents
<1>7. UNCHANGED <<linkC64, linkDrive>>
  BY DEF Advance
<1> QED
  BY <1>6, <1>7, DelayTypes DEF FlowTo

\* The pulls of one side are sent to the wires and become the last of their kind.
LEMMA SendFlows ==
    ASSUME IInv, NEW kind \in PullKinds, NEW low \in SUBSET Lines, NEW base \in Nat,
           PullDelay(base) \in Nat,
           low \subseteq IF kind = "c64Pulls" THEN HostLines ELSE DeviceLines,
           NEW link, NEW old, Flows(events, kind, link, old, PullDelay(base)),
           events' = Schedule(events, Event(kind, low, PullDelay(base)))
    PROVE  /\ Flows(events', kind, link, low, PullDelay(base))
           /\ \A other \in PullKinds \ {kind} : \A l, pulls, delay :
                Flows(events, other, l, pulls, delay) => Flows(events', other, l, pulls, delay)
<1> DEFINE ev == Event(kind, low, PullDelay(base))
<1>1. /\ ev \in EventType /\ ev.kind = kind /\ ev.low = low /\ ev.when = PullDelay(base)
  BY DEF Event, EventType, Kinds, PullKinds
<1>2. QueueOK(events)
  BY DEF IInv
<1> HIDE DEF ev
<1>3. Flows(Schedule(events, ev), ev.kind, link, ev.low, ev.when)
  BY <1>1, <1>2, ScheduleOwn DEF Flows
<1>4. \A other \in PullKinds \ {kind} : \A l, pulls, delay :
        Flows(events, other, l, pulls, delay) =>
          Flows(Schedule(events, ev), other, l, pulls, delay)
  BY <1>1, <1>2, ScheduleOther
<1> QED
  BY <1>1, <1>3, <1>4 DEF ev

\* The drives' pulls are sent.
LEMMA DrivesSent ==
    ASSUME Jitter = 0, IInv, NEW host, NEW drives,
           FlowTo(events, linkC64, linkDrive, host, drives),
           NEW low, low \subseteq DeviceLines, NEW delay \in LinkDelays(DriveToBus),
           events' = Schedule(events, Event("drivePulls", low, delay)),
           UNCHANGED <<linkC64, linkDrive>>
    PROVE  FlowTo(events', linkC64', linkDrive', host, low)
<1>1. delay = PullDelay(DriveToBus) /\ PullDelay(DriveToBus) \in Nat /\ DriveToBus \in Nat
  BY DelayTypes, TimingAssumption
<1>2. /\ Flows(events, "drivePulls", linkDrive, drives, PullDelay(DriveToBus))
      /\ Flows(events, "c64Pulls", linkC64, host, PullDelay(C64ToBus))
  BY DEF FlowTo
<1>3. "drivePulls" \in PullKinds /\ "c64Pulls" \in PullKinds \ {"drivePulls"}
  BY DEF PullKinds
<1>4. low \in SUBSET Lines
  BY LineAssumption DEF Lines
<1>5. /\ Flows(events', "drivePulls", linkDrive, low, PullDelay(DriveToBus))
      /\ Flows(events', "c64Pulls", linkC64, host, PullDelay(C64ToBus))
  BY <1>1, <1>2, <1>3, <1>4, SendFlows
<1> QED
  BY <1>5 DEF FlowTo

\* The C64's pulls are sent.
LEMMA HostSent ==
    ASSUME Jitter = 0, IInv, NEW host, NEW drives,
           FlowTo(events, linkC64, linkDrive, host, drives),
           NEW low, low \subseteq HostLines, NEW delay \in LinkDelays(C64ToBus),
           events' = Schedule(events, Event("c64Pulls", low, delay)),
           UNCHANGED <<linkC64, linkDrive>>
    PROVE  FlowTo(events', linkC64', linkDrive', low, drives)
<1>1. delay = PullDelay(C64ToBus) /\ PullDelay(C64ToBus) \in Nat /\ C64ToBus \in Nat
  BY DelayTypes, TimingAssumption
<1>2. /\ Flows(events, "drivePulls", linkDrive, drives, PullDelay(DriveToBus))
      /\ Flows(events, "c64Pulls", linkC64, host, PullDelay(C64ToBus))
  BY DEF FlowTo
<1>3. "c64Pulls" \in PullKinds /\ "drivePulls" \in PullKinds \ {"c64Pulls"}
  BY DEF PullKinds
<1>4. low \in SUBSET Lines
  BY LineAssumption DEF Lines
<1>5. /\ Flows(events', "c64Pulls", linkC64, low, PullDelay(C64ToBus))
      /\ Flows(events', "drivePulls", linkDrive, drives, PullDelay(DriveToBus))
  BY <1>1, <1>2, <1>3, <1>4, SendFlows
<1> QED
  BY <1>5 DEF FlowTo

\* The drives tick: a change of their pulls is sent, and one that was not sent waits
\* while they change none.
LEMMA DriveTickFlows ==
    ASSUME Jitter = 0, IInv, IInv', PullsFlow, TickDriveDomain
    PROVE  PullsFlow'
<1>1. PICK host, drives : /\ FlowTo(events, linkC64, linkDrive, host, drives)
                          /\ "c64" \notin unsent => host = hostPull
                          /\ "drives" \notin unsent => drives = AnyDrivePull(attached, devPull)
  BY DEF PullsFlow
<1>2. UNCHANGED <<linkC64, linkDrive, hostPull, attached>>
  BY DEF TickDriveDomain, wireVars, hostVars
<1>3. CASE UNCHANGED <<events, unsent>>
           /\ AnyDrivePull(attached, devPull') = AnyDrivePull(attached, devPull)
  <2>1. FlowTo(events', linkC64', linkDrive', host, drives)
    BY <1>1, <1>2, <1>3 DEF FlowTo
  <2> QED
    BY <1>1, <1>2, <1>3, <2>1 DEF PullsFlow
<1>4. CASE /\ \E delay \in LinkDelays(DriveToBus) :
                events' = Schedule(events,
                                   Event("drivePulls", AnyDrivePull(attached, devPull'), delay))
           /\ unsent' = unsent \ {"drives"}
  <2>1. AnyDrivePull(attached, devPull') \subseteq DeviceLines
    BY <1>2, DrivePullType DEF IInv, TypeOK
  <2>2. FlowTo(events', linkC64', linkDrive', host, AnyDrivePull(attached, devPull'))
    BY <1>1, <1>2, <1>4, <2>1, DrivesSent
  <2> QED
    BY <1>1, <1>2, <1>4, <2>2 DEF PullsFlow
<1> QED
  BY <1>3, <1>4 DEF TickDriveDomain

\* The C64 ticks, likewise.
LEMMA HostTickFlows ==
    ASSUME Jitter = 0, IInv, IInv', PullsFlow, TickC64Domain
    PROVE  PullsFlow'
<1>1. PICK host, drives : /\ FlowTo(events, linkC64, linkDrive, host, drives)
                          /\ "c64" \notin unsent => host = hostPull
                          /\ "drives" \notin unsent => drives = AnyDrivePull(attached, devPull)
  BY DEF PullsFlow
<1>2. UNCHANGED <<linkC64, linkDrive, attached, devPull>>
  BY DEF TickC64Domain, wireVars, devVars
<1>3. CASE UNCHANGED <<events, unsent, hostPull>>
  <2>1. FlowTo(events', linkC64', linkDrive', host, drives)
    BY <1>1, <1>2, <1>3 DEF FlowTo
  <2> QED
    BY <1>1, <1>2, <1>3, <2>1 DEF PullsFlow
<1>4. CASE /\ \E delay \in LinkDelays(C64ToBus) :
                events' = Schedule(events, Event("c64Pulls", hostPull', delay))
           /\ unsent' = unsent \ {"c64"}
  <2>1. hostPull' \subseteq HostLines
    BY DEF IInv, TypeOK
  <2>2. FlowTo(events', linkC64', linkDrive', hostPull', drives)
    BY <1>1, <1>2, <1>4, <2>1, HostSent
  <2> QED
    BY <1>1, <1>2, <1>4, <2>2 DEF PullsFlow
<1> QED
  BY <1>3, <1>4 DEF TickC64Domain

\* A device is attached: what the drives pull together is sent.
LEMMA AttachFlows ==
    ASSUME Jitter = 0, IInv, IInv', PullsFlow, NEW d \in Devices, AttachDevice(d)
    PROVE  PullsFlow'
<1>1. PICK host, drives : /\ FlowTo(events, linkC64, linkDrive, host, drives)
                          /\ "c64" \notin unsent => host = hostPull
  BY DEF PullsFlow
<1>2. UNCHANGED <<linkC64, linkDrive, hostPull, devPull>> /\ unsent' = unsent \ {"drives"}
  BY DEF AttachDevice, wireVars, hostVars
<1>3. AnyDrivePull(attached', devPull) \subseteq DeviceLines
  BY <1>2, DrivePullType DEF IInv, TypeOK
<1>4. FlowTo(events', linkC64', linkDrive', host, AnyDrivePull(attached', devPull))
  BY <1>1, <1>2, <1>3, DrivesSent DEF AttachDevice
<1> QED
  BY <1>1, <1>2, <1>4 DEF PullsFlow

\* The C64 is turned off: its pulls leave the wires at once, and those that are on
\* their way still arrive.
LEMMA DisableFlows ==
    ASSUME Jitter = 0, IInv, PullsFlow, DisableC64Domain
    PROVE  PullsFlow'
<1>1. PICK host, drives : /\ FlowTo(events, linkC64, linkDrive, host, drives)
                          /\ "drives" \notin unsent => drives = AnyDrivePull(attached, devPull)
  BY DEF PullsFlow
<1> DEFINE left == IF \A i \in DOMAIN events : events[i].kind # "c64Pulls" THEN {} ELSE host
<1>2. /\ Flows(events, "c64Pulls", {}, left, PullDelay(C64ToBus))
      /\ Flows(events, "drivePulls", linkDrive, drives, PullDelay(DriveToBus))
  <2>1. \A i : LastAt(events, "c64Pulls", i) => left = host
    BY DEF LastAt
  <2> QED
    BY <1>1, <2>1 DEF FlowTo, Flows, EndsWith
<1> HIDE DEF left
<1>3. /\ UNCHANGED <<linkDrive, attached, devPull>> /\ linkC64' = {}
      /\ unsent' = unsent \cup {"c64"}
      /\ SettleBus(events, line, {}, linkDrive, pendingOwner)
  BY DEF DisableC64Domain, devVars
<1>4. QueueOK(events) /\ LinesType(line)
  BY DEF IInv
<1>5. "c64Pulls" \in PullKinds /\ "drivePulls" \in PullKinds
  BY DEF PullKinds
<1>6. Flows(events', "c64Pulls", {}, left, PullDelay(C64ToBus))
  BY <1>2, <1>3, <1>4, <1>5, DelayTypes, SettleFlows
<1>7. Flows(events', "drivePulls", linkDrive, drives, PullDelay(DriveToBus))
  BY <1>2, <1>3, <1>4, <1>5, DelayTypes, SettleFlows
<1>8. FlowTo(events', linkC64', linkDrive', left, drives)
  BY <1>3, <1>6, <1>7 DEF FlowTo
<1> QED
  BY <1>1, <1>3, <1>8 DEF PullsFlow

\* Pulls that change between two calls are remembered as unsent.
LEMMA OutsideFlows ==
    ASSUME PullsFlow, ChangePullsOutside
    PROVE  PullsFlow'
<1>1. PICK host, drives : /\ FlowTo(events, linkC64, linkDrive, host, drives)
                          /\ "c64" \notin unsent => host = hostPull
                          /\ "drives" \notin unsent => drives = AnyDrivePull(attached, devPull)
  BY DEF PullsFlow
<1>2. UNCHANGED <<events, linkC64, linkDrive, attached>>
  BY DEF ChangePullsOutside, wireVars
<1>3. FlowTo(events', linkC64', linkDrive', host, drives)
  BY <1>1, <1>2 DEF FlowTo
<1>4. /\ "c64" \notin unsent' => "c64" \notin unsent /\ hostPull' = hostPull
      /\ "drives" \notin unsent' =>
           /\ "drives" \notin unsent
           /\ AnyDrivePull(attached, devPull') = AnyDrivePull(attached, devPull)
  BY DEF ChangePullsOutside
<1> QED
  BY <1>1, <1>2, <1>3, <1>4 DEF PullsFlow

-----------------------------------------------------------------------------
(* The theorem *)

LEMMA InitFlows == Init => PullsFlow
<1> SUFFICES ASSUME Init PROVE PullsFlow
  OBVIOUS
<1>1. DOMAIN events = {} /\ linkC64 = hostPull
  BY DEF Init
<1>2. linkDrive = AnyDrivePull(attached, devPull)
  BY DEF Init, AnyDrivePull
<1>3. FlowTo(events, linkC64, linkDrive, hostPull, AnyDrivePull(attached, devPull))
  BY <1>1, <1>2 DEF FlowTo, Flows, EndsWith, Within
<1> QED
  BY <1>3 DEF PullsFlow

LEMMA StepFlows ==
    ASSUME Jitter = 0, IInv, IInv', PullsFlow, [FullNext]_vars
    PROVE  PullsFlow'
<1>1. CASE Advance \/ RunEvent
  <2>1. PICK host, drives : /\ FlowTo(events, linkC64, linkDrive, host, drives)
                            /\ "c64" \notin unsent => host = hostPull
                            /\ "drives" \notin unsent =>
                                 drives = AnyDrivePull(attached, devPull)
    BY DEF PullsFlow
  <2>2. UNCHANGED <<hostPull, attached, devPull, unsent>>
    BY <1>1 DEF Advance, RunEvent, RunC64Pulls, RunDrivePulls, RunRise, RunToDrives, RunToC64,
                hostVars, devVars
  <2>3. FlowTo(events', linkC64', linkDrive', host, drives)
    BY <1>1, <2>1, AdvanceFlows, RunFlows
  <2> QED
    BY <2>1, <2>2, <2>3 DEF PullsFlow
<1>2. CASE TickDriveDomain
  BY <1>2, DriveTickFlows
<1>3. CASE TickC64Domain
  BY <1>3, HostTickFlows
<1>4. CASE \E d \in Devices : AttachDevice(d)
  BY <1>4, AttachFlows
<1>5. CASE DisableC64Domain
  BY <1>5, DisableFlows
<1>6. CASE ChangePullsOutside
  BY <1>6, OutsideFlows
<1>7. CASE \/ TickHalfCycle \/ SkipDriveDomain \/ SkipC64Domain \/ Return
           \/ EnableC64Domain \/ \E enabled \in BOOLEAN : SetDriveDomainEnabled(enabled)
           \/ UNCHANGED vars
  <2>1. UNCHANGED <<events, linkC64, linkDrive, hostPull, attached, devPull, unsent>>
    BY <1>7 DEF TickHalfCycle, SkipDriveDomain, SkipC64Domain, Return, EnableC64Domain,
                SetDriveDomainEnabled, vars, wireVars, hostVars, devVars
  <2> QED
    BY <2>1 DEF PullsFlow, FlowTo
<1> QED
  BY <1>1, <1>2, <1>3, <1>4, <1>5, <1>6, <1>7 DEF FullNext, Next, TickStep

\* A set of indices that is not empty has a last one.
LEMMA LastIndex ==
    ASSUME NEW n \in Nat, NEW I \in SUBSET (1 .. n), I # {}
    PROVE  \E i \in I : \A j \in I : j =< i
<1> DEFINE T == {n - i : i \in I}
           less == {p \in Nat \X Nat : p[1] < p[2]}
<1>1. OpToRel(<, Nat) = less
  BY Zenon DEF OpToRel
<1>2. IsWellFoundedOn(less, Nat)
  BY <1>1, NatLessThanWellFounded
<1>3. \A m, k \in Nat : <<m, k>> \in less <=> m < k
  OBVIOUS
<1> HIDE DEF less
<1>4. T \subseteq Nat /\ T # {}
  <2>1. \A i \in I : n - i \in Nat
    OBVIOUS
  <2> QED
    BY <2>1
<1>5. PICK m \in T : \A k \in T : ~ (<<k, m>> \in less)
  <2> HIDE DEF T
  <2> QED
    BY <1>2, <1>4, WFMin
<1>6. PICK i \in I : m = n - i
  BY <1>5
<1>7. ASSUME NEW j \in I PROVE j =< i
  <2>1. n - j \in T /\ n - j \in Nat /\ n - i \in Nat /\ ~ (n - j < n - i)
    BY <1>3, <1>4, <1>5, <1>6
  <2> QED
    BY <2>1
<1> QED
  BY <1>7

\* What the queue ends with is what the last event of the kind carries.
LEMMA EndsWithLast ==
    ASSUME NEW kind, NEW link, NEW pulls,
           events \in Seq(EventType), EndsWith(events, kind, link, pulls)
    PROVE  LastPulls(kind, link) = pulls
<1> DEFINE n == Len(events)
           I == {i \in 1 .. n : events[i].kind = kind}
           last == IF I # {} THEN Max(I) ELSE 0
<1>1. n \in Nat /\ DOMAIN events = 1 .. n
  OBVIOUS
<1>2. LastPulls(kind, link) = IF last = 0 THEN link ELSE events[last].low
  BY DEF LastPulls, SelectLastInSubSeq
<1> HIDE DEF n
<1>3. CASE I = {}
  BY <1>1, <1>2, <1>3 DEF EndsWith
<1>4. CASE I # {}
  <2>1. PICK i \in I : \A j \in I : j =< i
    BY <1>1, <1>4, LastIndex
  <2>2. Max(I) \in I /\ \A j \in I : Max(I) >= j
    BY <2>1 DEF Max
  <2>3. last = Max(I) /\ last \in 1 .. n /\ LastAt(events, kind, last)
    BY <1>1, <1>4, <2>2 DEF LastAt
  <2> QED
    BY <1>1, <1>2, <2>3 DEF EndsWith
<1> QED
  BY <1>3, <1>4

\* Without jitter the wires end up with the pulls of both sides, for any latencies,
\* periods and rise times, whatever devices are attached and domains turned off and on
\* in between, unless a side's pulls changed between two calls and were not sent since:
\* pulls of one side overtake each other by jitter only.
THEOREM PullsArrive == Jitter = 0 => (FullSpec => []PullsOnTheirWay)
<1> SUFFICES ASSUME Jitter = 0 PROVE FullSpec => []PullsOnTheirWay
  OBVIOUS
<1>1. Init => IInv /\ PullsFlow
  BY InitIInv, InitFlows
<1>2. (IInv /\ PullsFlow) /\ [FullNext]_vars => (IInv /\ PullsFlow)'
  BY StepKeepsIInv, StepFlows
<1>3. IInv /\ PullsFlow => PullsOnTheirWay
  <2> SUFFICES ASSUME IInv, PullsFlow PROVE PullsOnTheirWay
    OBVIOUS
  <2>1. PICK host, drives : /\ FlowTo(events, linkC64, linkDrive, host, drives)
                            /\ "c64" \notin unsent => host = hostPull
                            /\ "drives" \notin unsent =>
                                 drives = AnyDrivePull(attached, devPull)
    BY DEF PullsFlow
  <2>2. LastPulls("c64Pulls", linkC64) = host /\ LastPulls("drivePulls", linkDrive) = drives
    BY <2>1, EndsWithLast DEF IInv, TypeOK, FlowTo, Flows
  <2> QED
    BY <2>1, <2>2 DEF PullsOnTheirWay
<1> QED
  BY <1>1, <1>2, <1>3, PTL DEF FullSpec

-----------------------------------------------------------------------------
(* The domain implements the wired bus *)

\* Time passes in steps of a half period at most.
HalfPeriodAhead == nextC64 =< C64Period

LEMMA InitHalfPeriod == Init => HalfPeriodAhead
BY TimingAssumption DEF Init, HalfPeriodAhead

LEMMA StepHalfPeriod ==
    ASSUME IInv, HalfPeriodAhead, [FullNext]_vars
    PROVE  HalfPeriodAhead'
<1> USE DEF HalfPeriodAhead
<1>1. CASE Advance
  <2>1. nextC64' = nextC64 - NextTime
    BY <1>1 DEF Advance
  <2>2. NextTime \in Nat /\ nextC64 \in Nat /\ C64Period \in Nat
    BY NextTimeIsFirst, TimingAssumption DEF IInv, TypeOK
  <2> QED
    BY <2>1, <2>2
<1>2. CASE TickC64Domain
  BY <1>2, TimingAssumption DEF TickC64Domain
<1>3. CASE UNCHANGED nextC64
  BY <1>3
<1> QED
  BY <1>1, <1>2, <1>3
  DEF FullNext, Next, TickStep, RunEvent, vars, clockVars, TickHalfCycle,
      RunC64Pulls, RunDrivePulls, RunRise, RunToDrives, RunToC64,
      TickDriveDomain, SkipDriveDomain, SkipC64Domain, Return, AttachDevice,
      DisableC64Domain, EnableC64Domain, SetDriveDomainEnabled, ChangePullsOutside

\* The rise time of the wired bus and the ages of its lines.
WiredLowTime == [l \in Lines |-> IF LineModelEnabled THEN RiseTime(l) ELSE 0]

WiredLowFor(ln) ==
    [l \in Lines |-> IF ln[l].high \/ ~ LineModelEnabled \/ RiseTime(l) = 0 THEN 0
                     ELSE ln[l].lowFor]

WiredLongest(l) == IF WiredLowTime[l] = 0 THEN 0 ELSE WiredLowTime[l] + 1

\* Settling the lines settles the wires.
LEMMA LinesSettle ==
    ASSUME IInv, NEW ln, LinesType(ln),
           \A l \in Lines : ln[l].high = line[l].high /\ ln[l].lowFor = line[l].lowFor,
           NEW pulls \in SUBSET Lines,
           line' = LinesAfter(ln, pulls),
           UNCHANGED <<hostSeen, devSeen>>
    PROVE  Wires!Settle(pulls)
<1> DEFINE stays(l) == ~ line[l].high /\ WiredLowFor(line)[l] < WiredLowTime[l]
<1>1. ASSUME NEW l \in Lines
      PROVE  /\ ~ line'[l].high <=> l \in pulls \/ stays(l)
             /\ WiredLowFor(line')[l] = IF ~ line[l].high /\ ~ line'[l].high
                                        THEN WiredLowFor(line)[l] ELSE 0
  <2>1. /\ line'[l] = LineAfter(ln, l, pulls)
        /\ ln[l] \in LineType /\ ln[l].lowFor \in Nat /\ RiseTime(l) \in Nat
        /\ ln[l].high = line[l].high /\ ln[l].lowFor = line[l].lowFor
    BY RiseTimeType DEF LinesAfter, LinesType, LineType
  <2>2. /\ WiredLowFor(line)[l] =
             IF line[l].high \/ ~ LineModelEnabled \/ RiseTime(l) = 0 THEN 0
                    ELSE line[l].lowFor
        /\ WiredLowFor(line')[l] =
             IF line'[l].high \/ ~ LineModelEnabled \/ RiseTime(l) = 0 THEN 0
                    ELSE line'[l].lowFor
        /\ WiredLowTime[l] = IF LineModelEnabled THEN RiseTime(l) ELSE 0
    BY DEF WiredLowFor, WiredLowTime
  <2>3. CASE ~ LineModelEnabled
    BY <2>1, <2>2, <2>3 DEF LineAfter, FallenLine, HighLine
  <2>4. CASE LineModelEnabled /\ l \in pulls
    <3>1. ~ line'[l].high /\ line'[l].lowFor = IF ln[l].high THEN 0 ELSE ln[l].lowFor
      BY <2>1, <2>4 DEF LineAfter, FallenLine, LineType
    <3> QED
      BY <2>1, <2>2, <2>4, <3>1
  <2>5. CASE LineModelEnabled /\ l \notin pulls
    <3>1. CASE ln[l].high \/ ln[l].lowFor >= RiseTime(l)
      <4>1. line'[l].high
        BY <2>1, <2>5, <3>1 DEF LineAfter, HighLine
      <4>2. ~ stays(l)
        BY <2>1, <2>2, <2>5, <3>1
      <4> QED
        BY <2>2, <2>5, <4>1, <4>2
    <3>2. CASE ~ (ln[l].high \/ ln[l].lowFor >= RiseTime(l))
      <4>1. ~ line'[l].high /\ line'[l].lowFor = ln[l].lowFor
        BY <2>1, <2>5, <3>2 DEF LineAfter, LineType
      <4> QED
        BY <2>1, <2>2, <2>5, <3>2, <4>1
    <3> QED
      BY <3>1, <3>2
  <2> QED
    BY <2>3, <2>4, <2>5
<1>2. LowLines(line') = pulls \cup {l \in LowLines(line) : WiredLowFor(line)[l] < WiredLowTime[l]}
  BY <1>1 DEF LowLines
<1>3. WiredLowFor(line') = [l \in Lines |-> IF l \in LowLines(line) \cap LowLines(line')
                                            THEN WiredLowFor(line)[l] ELSE 0]
  <2> DEFINE age(l) == IF l \in LowLines(line) \cap LowLines(line')
                       THEN WiredLowFor(line)[l] ELSE 0
             g == WiredLowFor(line')
  <2>1. \A l \in Lines : g[l] = age(l)
    BY <1>1 DEF LowLines
  <2>2. g = [l \in Lines |-> g[l]]
    BY DEF WiredLowFor
  <2> HIDE DEF g, age
  <2>3. g = [l \in Lines |-> age(l)]
    BY <2>1, <2>2
  <2> QED
    BY <2>3 DEF g, age
<1> QED
  BY <1>2, <1>3 DEF Wires!Settle, WiredLowFor, WiredLowTime

\* A step of the bus that settles it pulls a line, releases one or lets lines rise.
LEMMA BusSettles ==
    ASSUME IInv, RunC64Pulls \/ RunDrivePulls \/ RunRise \/ DisableC64Domain
    PROVE  [Wires!Next]_Wires!vars
<1>1. /\ linkC64 \in SUBSET HostLines /\ linkDrive \in SUBSET DeviceLines
      /\ HostLines \subseteq Lines /\ DeviceLines \subseteq Lines /\ LinesType(line)
  BY LineAssumption DEF IInv, TypeOK, Lines
<1>2. UNCHANGED <<hostSeen, devSeen>>
  BY DEF RunC64Pulls, RunDrivePulls, RunRise, DisableC64Domain, hostVars, devVars
<1>3. CASE RunC64Pulls
  <2>1. /\ linkC64' = Head(events).low /\ linkDrive' = linkDrive
        /\ line' = LinesAfter(line, linkC64' \cup linkDrive)
    BY <1>3 DEF RunC64Pulls, SettleBus
  <2>2. linkC64' \in SUBSET HostLines
    <3>1. Carries(Head(events)) /\ Head(events).kind = "c64Pulls"
      BY <1>3, PopOK DEF RunC64Pulls, Due
    <3> QED
      BY <2>1, <3>1 DEF Carries
  <2>3. PICK pulls \in SUBSET HostLines : linkC64' = pulls
    BY <2>2
  <2>4. PICK low \in SUBSET Lines : low = pulls \cup linkDrive
    BY <1>1, <2>3
  <2>5. line' = LinesAfter(line, low)
    BY <2>1, <2>3, <2>4
  <2>6. Wires!Settle(low)
    BY <1>1, <1>2, <2>5, LinesSettle
  <2>7. Wires!HostPulls(pulls)
    BY <2>1, <2>3, <2>4, <2>6 DEF Wires!HostPulls, Wires!Settle
  <2> QED
    BY <2>7 DEF Wires!Next
<1>4. CASE DisableC64Domain
  <2>1. /\ linkC64' = {} /\ linkDrive' = linkDrive
        /\ line' = LinesAfter(line, {} \cup linkDrive)
    BY <1>4 DEF DisableC64Domain, SettleBus
  <2>2. PICK low \in SUBSET Lines : low = {} \cup linkDrive
    BY <1>1
  <2>3. Wires!Settle(low)
    BY <1>1, <1>2, <2>1, <2>2, LinesSettle
  <2>4. Wires!HostPulls({})
    BY <2>1, <2>2, <2>3 DEF Wires!HostPulls, Wires!Settle
  <2> QED
    BY <2>4 DEF Wires!Next
<1>5. CASE RunDrivePulls
  <2>1. /\ linkDrive' = Head(events).low /\ linkC64' = linkC64
        /\ line' = LinesAfter(line, linkC64 \cup linkDrive')
    BY <1>5 DEF RunDrivePulls, SettleBus
  <2>2. linkDrive' \in SUBSET DeviceLines
    <3>1. Carries(Head(events)) /\ Head(events).kind = "drivePulls"
      BY <1>5, PopOK DEF RunDrivePulls, Due
    <3> QED
      BY <2>1, <3>1 DEF Carries
  <2>3. PICK pulls \in SUBSET DeviceLines : linkDrive' = pulls
    BY <2>2
  <2>4. PICK low \in SUBSET Lines : low = linkC64 \cup pulls
    BY <1>1, <2>3
  <2>5. line' = LinesAfter(line, low)
    BY <2>1, <2>3, <2>4
  <2>6. Wires!Settle(low)
    BY <1>1, <1>2, <2>5, LinesSettle
  <2>7. Wires!DevicesPull(pulls)
    BY <2>1, <2>3, <2>4, <2>6 DEF Wires!DevicesPull, Wires!Settle
  <2> QED
    BY <2>7 DEF Wires!Next
<1>6. CASE RunRise
  <2>1. UNCHANGED <<linkC64, linkDrive>>
    BY <1>6 DEF RunRise
  <2>2. PICK l : /\ l \in Lines
                 /\ \/ line' = LinesAfter([line EXCEPT ![l].pending = FALSE], linkC64 \cup linkDrive)
                    \/ line' = line
    <3>1. Carries(Head(events)) /\ Head(events).kind = "rise"
      BY <1>6, PopOK DEF RunRise, Due
    <3>2. Head(events).low \subseteq Lines
      BY <3>1 DEF Carries
    <3> QED
      BY <1>6, <3>2 DEF RunRise, SettleBus
  <2>3. CASE line' = line
    BY <1>2, <2>1, <2>3 DEF Wires!vars
  <2>4. CASE line' = LinesAfter([line EXCEPT ![l].pending = FALSE], linkC64 \cup linkDrive)
    <3> DEFINE ln == [line EXCEPT ![l].pending = FALSE]
    <3>1. /\ ln \in [Lines -> LineType]
          /\ \A m \in Lines : ln[m].high = line[m].high /\ ln[m].lowFor = line[m].lowFor
      BY <1>1, <2>2 DEF LinesType, LineType
    <3> HIDE DEF ln
    <3>2. LinesType(ln)
      BY <1>1, <3>1 DEF LinesType
    <3>3. line' = LinesAfter(ln, linkC64 \cup linkDrive)
      BY <2>4 DEF ln
    <3>4. PICK low \in SUBSET Lines : low = linkC64 \cup linkDrive
      BY <1>1
    <3>5. Wires!Settle(low)
      BY <1>1, <1>2, <3>1, <3>2, <3>3, <3>4, LinesSettle
    <3>6. Wires!Rise
      BY <2>1, <3>4, <3>5 DEF Wires!Rise, Wires!Pulled, Wires!Settle
    <3> QED
      BY <3>6 DEF Wires!Next
  <2> QED
    BY <2>2, <2>3, <2>4
<1> QED
  BY <1>3, <1>4, <1>5, <1>6

\* The loop moves on: a released line that is low has its rise event ahead, so the
\* bus lets that time pass.
LEMMA TimePasses ==
    ASSUME IInv, HalfPeriodAhead, Advance
    PROVE  [Wires!Next]_Wires!vars
<1> DEFINE pulled == linkC64 \cup linkDrive
<1>0. PICK t \in Nat : NextTime = t
  BY NextTimeIsFirst
<1>1. /\ t =< nextC64 /\ \A ev \in Elements(events) : t =< ev.when
      /\ nextC64 \in Nat /\ C64Period \in Nat
  BY <1>0, NextTimeIsFirst, TimingAssumption DEF IInv, TypeOK
<1>2. t \in 0 .. C64Period
  BY <1>1 DEF HalfPeriodAhead
<1>3. /\ line' = [l \in Lines |-> Aged(l, t)]
      /\ UNCHANGED <<linkC64, linkDrive, hostSeen, devSeen>>
  BY <1>0 DEF Advance, hostVars, devVars
<1>4. ASSUME NEW l \in Lines
      PROVE  /\ line[l] \in LineType /\ line[l].lowFor \in Nat /\ RiseTime(l) \in Nat
             /\ line'[l].high = line[l].high /\ LongestLow(l) = RiseTime(l) + 1
             /\ line'[l].lowFor = IF line[l].high THEN 0
                                  ELSE IF line[l].lowFor + t > LongestLow(l) THEN LongestLow(l)
                                  ELSE line[l].lowFor + t
             /\ WiredLowFor(line)[l] =
                  IF line[l].high \/ ~ LineModelEnabled \/ RiseTime(l) = 0 THEN 0
                    ELSE line[l].lowFor
             /\ WiredLowFor(line')[l] =
                  IF line'[l].high \/ ~ LineModelEnabled \/ RiseTime(l) = 0 THEN 0
                    ELSE line'[l].lowFor
             /\ WiredLowTime[l] = IF LineModelEnabled THEN RiseTime(l) ELSE 0
  <2>1. line[l] \in LineType /\ line[l].lowFor \in Nat /\ RiseTime(l) \in Nat
    BY RiseTimeType DEF IInv, LinesType, LineType
  <2>2. line'[l] = Aged(l, t)
    BY <1>3
  <2>3. /\ Aged(l, t).high = line[l].high
        /\ Aged(l, t).lowFor = IF line[l].high THEN 0
                               ELSE IF line[l].lowFor + t > LongestLow(l) THEN LongestLow(l)
                               ELSE line[l].lowFor + t
    BY <2>1 DEF Aged, LineType
  <2> QED
    BY <2>1, <2>2, <2>3 DEF WiredLowFor, WiredLowTime, LongestLow
<1>5. LowLines(line') = LowLines(line)
  BY <1>4 DEF LowLines
<1>6. ASSUME NEW l \in LowLines(line) \ pulled
      PROVE  WiredLowFor(line)[l] + t =< WiredLowTime[l]
  <2>1. l \in Lines /\ ~ line[l].high /\ LineOK(events, line[l], pulled, l)
    BY DEF LowLines, IInv, WiresOK
  <2>2. RiseTimes(events, l) = {RiseTime(l) - line[l].lowFor}
    BY <2>1 DEF LineOK
  <2>3. PICK ev \in Elements(events) : IsLiveRise(ev, l) /\ ev.when = RiseTime(l) - line[l].lowFor
    BY <2>2 DEF RiseTimes
  <2>4. LineModelEnabled
    BY <2>3 DEF IInv, QueueOK, Carries, IsLiveRise
  <2>5. t =< RiseTime(l) - line[l].lowFor
    BY <1>1, <2>3
  <2>6. /\ WiredLowFor(line)[l] \in {0, line[l].lowFor}
        /\ WiredLowTime[l] = RiseTime(l)
    BY <1>4, <2>1, <2>4
  <2> QED
    BY <1>1, <1>4, <2>1, <2>5, <2>6
<1>7. WiredLowFor(line') =
        [l \in Lines |-> IF l \notin LowLines(line) THEN 0
                         ELSE IF WiredLowFor(line)[l] + t > WiredLongest(l) THEN WiredLongest(l)
                         ELSE WiredLowFor(line)[l] + t]
  <2> DEFINE g == WiredLowFor(line')
             age(l) == IF l \notin LowLines(line) THEN 0
                       ELSE IF WiredLowFor(line)[l] + t > WiredLongest(l) THEN WiredLongest(l)
                       ELSE WiredLowFor(line)[l] + t
  <2>1. ASSUME NEW l \in Lines PROVE g[l] = age(l)
    <3>1. l \in LowLines(line) <=> ~ line[l].high
      BY DEF LowLines
    <3>2. CASE LineModelEnabled
      BY <1>1, <1>4, <3>1, <3>2 DEF WiredLongest
    <3>3. CASE ~ LineModelEnabled
      BY <1>1, <1>4, <3>1, <3>3 DEF WiredLongest
    <3> QED
      BY <3>2, <3>3
  <2>2. g = [l \in Lines |-> g[l]]
    BY DEF WiredLowFor
  <2> HIDE DEF g, age
  <2>3. g = [l \in Lines |-> age(l)]
    BY <2>1, <2>2
  <2> QED
    BY <2>3 DEF g, age
<1>8. Wires!Pass(t)
  BY <1>3, <1>5, <1>6, <1>7 DEF Wires!Pass, Wires!Pulled, Wires!LongestLow, WiredLowFor, WiredLowTime, WiredLongest
<1> QED
  BY <1>2, <1>8 DEF Wires!Next

\* Samples arrive, and a device is told the levels when it is attached.
LEMMA ObserversLook ==
    ASSUME IInv, RunToDrives \/ RunToC64 \/ \E d \in Devices : AttachDevice(d)
    PROVE  [Wires!Next]_Wires!vars
<1>1. UNCHANGED <<line, linkC64, linkDrive>>
  BY DEF RunToDrives, RunToC64, AttachDevice, wireVars
<1>2. devSeen \in [Devices -> SUBSET Lines] /\ attached \in SUBSET Devices
  BY DEF IInv, TypeOK
<1>3. CASE RunToC64
  <2>1. hostSeen' = LowLines(line) /\ UNCHANGED devSeen
    BY <1>3 DEF RunToC64, devVars
  <2> QED
    BY <1>1, <2>1 DEF Wires!Next, Wires!HostLooks
<1>4. ASSUME NEW D \in SUBSET Devices, UNCHANGED hostSeen,
             devSeen' = [d \in Devices |-> IF d \in D THEN LowLines(line) ELSE devSeen[d]]
      PROVE  Wires!Next
  <2>1. Wires!DevicesLook(D)
    BY <1>1, <1>4 DEF Wires!DevicesLook
  <2> QED
    BY <2>1 DEF Wires!Next
<1>5. CASE RunToDrives
  <2>1. UNCHANGED hostSeen
    BY <1>5 DEF RunToDrives, hostVars
  <2>2. devSeen' = [d \in Devices |-> IF d \in attached THEN LowLines(line) ELSE devSeen[d]]
    BY <1>5 DEF RunToDrives
  <2> QED
    BY <1>2, <1>4, <2>1, <2>2
<1>6. ASSUME NEW d \in Devices, AttachDevice(d) PROVE Wires!Next
  <2>1. UNCHANGED hostSeen /\ devSeen' = [devSeen EXCEPT ![d] = LowLines(line)]
    BY <1>6 DEF AttachDevice, hostVars
  <2>2. devSeen' = [e \in Devices |-> IF e \in {d} THEN LowLines(line) ELSE devSeen[e]]
    BY <1>2, <2>1
  <2> QED
    BY <1>4, <2>1, <2>2
<1> QED
  BY <1>3, <1>5, <1>6

LEMMA InitWired == Init => Wires!Init
<1> SUFFICES ASSUME Init PROVE Wires!Init
  OBVIOUS
<1> DEFINE pulled == linkC64 \cup linkDrive
<1>1. /\ linkC64 \in SUBSET HostLines /\ linkDrive \in SUBSET DeviceLines /\ pulled \subseteq Lines
  BY LineAssumption DEF Init, Lines
<1>2. /\ line = [l \in Lines |-> IF l \in pulled THEN FallenLine ELSE HighLine]
      /\ hostSeen = pulled
      /\ devSeen = [d \in Devices |-> IF d = PrimaryDevice THEN pulled ELSE {}]
  BY DEF Init
<1> HIDE DEF pulled
<1>3. LowLines(line) = pulled /\ \A l \in Lines : line[l].lowFor = 0
  BY <1>1, <1>2 DEF LowLines, FallenLine, HighLine
<1>4. devSeen \in [Devices -> {pulled, {}}]
  BY <1>2
<1> QED
  BY <1>1, <1>2, <1>3, <1>4 DEF Wires!Init, Wires!Pulled, pulled

\* Every step of the domain is a step of the wired bus, or none.
LEMMA StepWired ==
    ASSUME IInv, HalfPeriodAhead, [FullNext]_vars
    PROVE  [Wires!Next]_Wires!vars
<1>1. CASE RunC64Pulls \/ RunDrivePulls \/ RunRise \/ DisableC64Domain
  BY <1>1, BusSettles
<1>2. CASE Advance
  BY <1>2, TimePasses
<1>3. CASE RunToDrives \/ RunToC64 \/ \E d \in Devices : AttachDevice(d)
  BY <1>3, ObserversLook
<1>4. CASE UNCHANGED <<line, linkC64, linkDrive, hostSeen, devSeen>>
  BY <1>4 DEF Wires!vars
<1> QED
  BY <1>1, <1>2, <1>3, <1>4
  DEF FullNext, Next, TickStep, RunEvent, vars, wireVars, hostVars, devVars, TickHalfCycle,
      TickDriveDomain, SkipDriveDomain, TickC64Domain, SkipC64Domain, Return,
      EnableC64Domain, SetDriveDomainEnabled, ChangePullsOutside

\* The domain implements the wired bus, for all latencies, jitters, periods, rise
\* times and devices: no line rises early, and none is low for longer than its pulls
\* and its rise time (settleBusAndPropagateSamples, applyLineTimingModel and
\* scheduleRiseReeval).
THEOREM WiredBusImplemented == FullSpec => ImplementsWiredBus
<1>1. Init => Wires!Init /\ HalfPeriodAhead
  BY InitWired, InitHalfPeriod
<1>2. IInv /\ HalfPeriodAhead /\ [FullNext]_vars => HalfPeriodAhead' /\ [Wires!Next]_Wires!vars
  BY StepHalfPeriod, StepWired
<1> QED
  BY <1>1, <1>2, Consistent, PTL DEF FullSpec, ImplementsWiredBus, Wires!Spec

=============================================================================
