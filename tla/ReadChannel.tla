----------------------------- MODULE ReadChannel ------------------------------
(***************************************************************************)
(* The physical read channel a drive runs when it has read a block of an   *)
(* encoded image: spindle and head, the time of a bitcell with its jitter  *)
(* and phase-locked loop, the flux of the track, and the codec the sampled *)
(* byte goes through.  The random numbers are choices.                     *)
(***************************************************************************)
EXTENDS Integers, Sequences, FiniteSets

CONSTANTS
    TickWrap,       \* physicalPipelineAbsTick has 32 bits
    Turn,           \* kCyclesPerRevolution: 200000
    AccWrap,        \* acc_ of the flux has 32 bits
    MaxRelock,      \* relockState_: 6
    MaxStreak,      \* noEdgeStreak_: 255
    LockPpm,        \* 520
    ZoneEnd,        \* the last tracks of the zones but the last
    Deltas,         \* the transitions of a track, in ticks
    Weak,           \* its weak regions
    Readers         \* a drive, its reads, and what chance may do, by name

VARIABLES
    unit,           \* a name of Drives
    level,          \* physicalProfile: its level
    now,            \* physicalScheduler.now()
    made,           \* physicalPipelineInitialized
    channel,        \* the models: level4Enabled_, half_track_, angle_ in cycles, relockState_,
                        \* phaseErrPpm_, the flux, and physicalPipelineAbsTick
    sample,         \* what the last read latched
    stuck           \* the head is sent where it cannot go, and the read does not return

VARIABLES
    times           \* history: when the models were made and last read, how far the spindle has
                        \* turned since they were made, and the ticks of the cells read

channelVars == <<unit, level, now, made, channel, sample, stuck, times>>

Reading == Readers[unit]

AtMost(a, most) == IF a <= most THEN a ELSE most
AtLeast0(a) == IF a < 0 THEN 0 ELSE a

\* What the program's own limits say of the constants: the zones are four, the transitions no
\* farther apart than the shortest cell, a drive's reads are bytes, and chance has the bounds
\* of the generators' buckets.
DrawOK(d) == d.jitter \in -2..2 /\ d.slips \in BOOLEAN /\ d.long \in BOOLEAN
ReaderOK(r) ==
    /\ r.address \in Nat /\ r.revision \in 0..2 /\ r.from \in 0..r.until /\ r.until \in Nat
    /\ r.pauses \subseteq Nat /\ r.tracks \subseteq Nat \ {0}
    /\ r.contents \subseteq Seq(0..255) /\ r.damages \subseteq Seq(0..255)
    /\ r.levels \subseteq Nat /\ r.buckets \subseteq 0..63 /\ r.noises \subseteq 0..31
    /\ \A d \in r.draws : DrawOK(d)
ChannelConstants ==
    /\ {TickWrap, AccWrap, Turn} \subseteq Nat \ {0}
    /\ {MaxRelock, MaxStreak} \subseteq Nat /\ LockPpm = 520
    /\ ZoneEnd \in Seq(Nat) /\ Len(ZoneEnd) = 3
    /\ Deltas \in Seq(0..11) /\ Deltas # <<>>
    /\ \A r \in DOMAIN Readers : ReaderOK(Readers[r])

-----------------------------------------------------------------------------
(* GcrCodec.                                                               *)

Mark == 255
Gcr == <<10, 11, 18, 19, 14, 15, 22, 23, 9, 25, 26, 27, 13, 29, 30, 21>>
Valid(sym) == \E n \in DOMAIN Gcr : Gcr[n] = sym % 32
Nibble(sym) == IF Valid(sym) THEN (CHOOSE n \in DOMAIN Gcr : Gcr[n] = sym % 32) - 1 ELSE 0

\* Two symbols for each byte, the high nibble's first.
HighNibble(byte) == byte \div 16
LowNibble(byte) == byte % 16
Encoded(bytes) ==
    [i \in 1..(2 * Len(bytes)) |->
        IF i % 2 = 1 THEN Gcr[HighNibble(bytes[(i + 1) \div 2]) + 1]
        ELSE Gcr[LowNibble(bytes[i \div 2]) + 1]]

\* decode_5to4: the symbols in pairs; a mark starts anew, and the next two bytes may be broken.
NoSymbol == -1
Start == [ok |-> TRUE, data |-> <<>>, pending |-> NoSymbol, window |-> 0]
Refused(d) == [d EXCEPT !.ok = FALSE, !.data = <<>>]
ByteOf(hi, lo) == IF ~Valid(hi) /\ ~Valid(lo) THEN 85 ELSE 16 * Nibble(hi) + Nibble(lo)
DecodeStep(d, sym) ==
    CASE ~d.ok -> d
      [] d.ok /\ sym = Mark -> [d EXCEPT !.pending = NoSymbol, !.window = 2]
      [] d.ok /\ sym # Mark /\ d.pending = NoSymbol -> [d EXCEPT !.pending = sym]
      [] d.ok /\ sym # Mark /\ d.pending # NoSymbol ->
            IF (Valid(d.pending) /\ Valid(sym)) \/ d.window > 0
            THEN [d EXCEPT !.data = Append(@, ByteOf(d.pending, sym)), !.pending = NoSymbol,
                           !.window = IF @ > 0 THEN @ - 1 ELSE 0]
            ELSE Refused(d)
\* The decoder after each symbol.
Decoding(symbols) ==
    LET after[k \in Nat] == IF k = 0 THEN Start ELSE DecodeStep(after[k - 1], symbols[k]) IN after
Decoded(symbols) ==
    LET d == Decoding(symbols)[Len(symbols)] IN
    CASE symbols = <<>> -> Refused(d)
      [] symbols # <<>> /\ d.pending = NoSymbol -> d
      [] symbols # <<>> /\ d.ok /\ d.pending # NoSymbol /\ d.window > 0 ->
            [d EXCEPT !.data = Append(@, (d.pending % 16) * 16)]
      [] OTHER -> Refused(d)

-----------------------------------------------------------------------------
(* MechanicsModel.                                                         *)

TargetHalf(track) == 2 + (track - 1) * 2
Reachable(track) == TargetHalf(track) \in 2..84
Zone(track) == Cardinality({n \in DOMAIN ZoneEnd : track > ZoneEnd[n]})

-----------------------------------------------------------------------------
(* BitcellTimingModel and ReadChannelPllModel.                             *)

Quot(a, b) == IF a < 0 THEN -((-a) \div b) ELSE a \div b
AbsOf(a) == IF a < 0 THEN -a ELSE a

\* set_level4_calibration, for the address and the revision of the drive.
Floor == 22 + (Reading.address % 4) * 3
JitterScale == 30 + Reading.revision * 4
LockGain == 250 + Reading.revision * 25
Slew == CASE Reading.revision = 1 -> 9 [] Reading.revision = 2 -> 7 [] OTHER -> 12
ZoneNoise == <<6, 11, 17, 23>>

Noise(bucket) == Quot((bucket - 31) * Floor, 8)
PhaseErrUncorrected(c, ticks, zone, bucket) ==      \* mutant: the error before the noise is corrected
    LET drift == Noise(bucket) + ZoneNoise[zone + 1] + Slew + ((ticks % 8) * JitterScale) \div 8
    IN c.phaseErr + drift - Quot(c.phaseErr * LockGain, 1000)
PhaseErrAfter(c, ticks, zone, bucket) ==
    LET drift == Noise(bucket) + ZoneNoise[zone + 1] + Slew + ((ticks % 8) * JitterScale) \div 8
        err == c.phaseErr + drift
    IN err - Quot(err * LockGain, 1000)
LockedAt(e) == AbsOf(e) <= LockPpm

\* A draw: the jitter, whether the cell slips, and whether it is a long one.
RelockAfter(c, draw) ==
    IF draw.slips THEN AtMost(c.relock + 1, MaxRelock) ELSE AtLeast0(c.relock - 1)
PlainTicks(c, zone, draw) ==
    LET relocks == IF RelockAfter(c, draw) >= 3 THEN 1 ELSE 0
        long == IF draw.long THEN 1 ELSE 0
    IN 13 + zone + draw.jitter + relocks + long
CellTicks(c, zone, draw, bucket) ==
    LET ticks == PlainTicks(c, zone, draw)
        window == JitterScale + AbsOf(Noise(bucket)) \div 4
        slack == IF LockedAt(PhaseErrAfter(c, ticks, zone, bucket)) THEN 0 ELSE 1
    IN IF c.level4 THEN ticks + slack + window \div 40 ELSE ticks

-----------------------------------------------------------------------------
(* FluxTrackModel: at most one edge each time, and noise in weak regions.  *)

FluxAtRest == [cursor |-> 0, acc |-> 0, streak |-> 0, window |-> 0]
InWeak(tick) == \E w \in Weak : tick \in w[1]..w[2]
AccAfter(f, ticks) == (f.acc + ticks) % AccWrap
EdgeDue(f, ticks) == AccAfter(f, ticks) >= Deltas[f.cursor + 1]
Moved(f, ticks) ==
    IF EdgeDue(f, ticks)
    THEN [f EXCEPT !.acc = AccAfter(f, ticks) - Deltas[f.cursor + 1],
                   !.cursor = (@ + 1) % Len(Deltas), !.streak = 0]
    ELSE [f EXCEPT !.acc = AccAfter(f, ticks), !.streak = AtMost(@ + 1, MaxStreak)]
WindowAt(f, ticks, tick, noise) ==
    LET moved == Moved(f, ticks)
    IN IF InWeak(tick) /\ moved.streak >= 3 THEN 4 + (noise % 4) ELSE moved.window
FluxAfter(f, ticks, tick, noise) ==
    [Moved(f, ticks) EXCEPT !.window = AtLeast0(WindowAt(f, ticks, tick, noise) - 1)]
EdgeSeen(f, ticks, tick, noise) ==
    LET edge == EdgeDue(f, ticks)
    IN CASE ~InWeak(tick) -> edge
         [] InWeak(tick) /\ WindowAt(f, ticks, tick, noise) > 0 ->
                noise = 3 \/ noise % 4 = 1 \/ edge
         [] OTHER -> IF noise % 8 = 0 THEN ~edge ELSE noise = 3 \/ edge

-----------------------------------------------------------------------------

NoSample == [runs |-> 0, byte |-> 0, bit |-> 0, edge |-> FALSE, ticks |-> 0, half |-> 36,
             angle |-> 0, locked |-> FALSE]
AtRest == [level4 |-> FALSE, head |-> 36, angle |-> 0, relock |-> 0, phaseErr |-> 0,
           flux |-> FluxAtRest, absTick |-> 0]

ChannelInit ==
    /\ unit \in DOMAIN Readers
    /\ level \in Reading.levels
    /\ now = Reading.from /\ made = FALSE
    /\ channel = AtRest /\ sample = NoSample /\ stuck = FALSE
    /\ times = [made |-> 0, read |-> 0, turned |-> 0, cells |-> 0]

\* initializePhysicalLevel3Pipeline: what the first read finds.
Channel ==
    IF made THEN channel
    ELSE [AtRest EXCEPT !.level4 = (level >= 4), !.absTick = now % TickWrap]
Times == IF made THEN times ELSE [made |-> now, read |-> now, turned |-> 0, cells |-> 0]

Elapsed == AtLeast0(now - Channel.absTick)
Caught == IF now > Channel.absTick THEN now % TickWrap ELSE Channel.absTick
Byte1(bytes) ==
    LET decoded == Decoded(Encoded(SubSeq(bytes, 1, AtMost(Len(bytes), 8))))
    IN IF decoded.ok /\ decoded.data # <<>> THEN decoded.data[1] ELSE bytes[1]
Sampled(track, bytes, draw, bucket, noise) ==
    LET c == Channel
        zone == Zone(track)
        ticks == CellTicks(c, zone, draw, bucket)
        tick == (Caught + ticks) % TickWrap
        err == IF c.level4 THEN PhaseErrAfter(c, PlainTicks(c, zone, draw), zone, bucket)
               ELSE c.phaseErr
    IN /\ channel' = [level4 |-> c.level4, head |-> TargetHalf(track),
                      angle |-> (c.angle + Elapsed) % Turn, relock |-> RelockAfter(c, draw),
                      phaseErr |-> err, absTick |-> tick,
                      flux |-> FluxAfter(c.flux, ticks, tick, noise)]
       /\ sample' = [runs |-> sample.runs + 1, byte |-> Byte1(bytes),
                     bit |-> (Byte1(bytes) \div 2^(tick % 8)) % 2,
                     edge |-> EdgeSeen(c.flux, ticks, tick, noise), ticks |-> ticks,
                     half |-> channel'.head, angle |-> channel'.angle,
                     locked |-> c.level4 /\ LockedAt(err)]
       /\ times' = [Times EXCEPT !.read = now, !.turned = @ + Elapsed, !.cells = @ + ticks]
ReadBlock(track, bytes) ==
    /\ ~stuck /\ level >= 3 /\ bytes # <<>> /\ sample.runs < Reading.reads
    /\ made' = TRUE
    /\ \/ /\ ~Reachable(track) /\ stuck' = TRUE
          /\ channel' = [Channel EXCEPT !.angle = (@ + Elapsed) % Turn, !.absTick = Caught]
          /\ UNCHANGED <<sample, times>>
       \/ /\ Reachable(track) /\ UNCHANGED stuck
          /\ \E draw \in Reading.draws, bucket \in Reading.buckets, noise \in Reading.noises :
                Sampled(track, bytes, draw, bucket, noise)
    /\ UNCHANGED <<unit, level, now>>

\* The drive's cycles go by.
PassCycles(n) ==
    /\ ~stuck /\ now + n <= Reading.until
    /\ now' = now + n
    /\ UNCHANGED <<unit, level, made, channel, sample, stuck, times>>

\* setPhysicalProfile: the models that are made stay as they are.
SetPhysicalProfile(l) ==
    /\ ~stuck /\ l # level
    /\ level' = l
    /\ UNCHANGED <<unit, now, made, channel, sample, stuck, times>>

\* reset: the clock starts again, and the models are made anew before the next read.
ResetChannel ==
    /\ Reading.resets /\ ~stuck /\ made
    /\ made' = FALSE /\ now' = 0
    /\ channel' = [channel EXCEPT !.absTick = 0]
    /\ sample' = [NoSample EXCEPT !.locked = sample.locked]
    /\ UNCHANGED <<unit, level, stuck, times>>

ChannelNext ==
    \/ \E track \in Reading.tracks, bytes \in Reading.contents : ReadBlock(track, bytes)
    \/ \E n \in Reading.pauses : PassCycles(n)
    \/ \E l \in Reading.levels : SetPhysicalProfile(l)
    \/ ResetChannel

ChannelSpec == ChannelInit /\ [][ChannelNext]_channelVars

-----------------------------------------------------------------------------
(* Properties.                                                             *)

\* The ranges of the models.
ChannelTypeOK ==
    /\ unit \in DOMAIN Readers /\ level \in Reading.levels /\ now \in 0..Reading.until
    /\ made \in BOOLEAN /\ stuck \in BOOLEAN
    /\ channel.level4 \in BOOLEAN /\ channel.head \in 2..84 /\ channel.angle \in 0..(Turn - 1)
    /\ channel.relock \in 0..MaxRelock /\ channel.absTick \in 0..(TickWrap - 1)
    /\ channel.flux.cursor \in 0..(Len(Deltas) - 1) /\ channel.flux.acc \in 0..(AccWrap - 1)
    /\ channel.flux.streak \in 0..MaxStreak /\ channel.flux.window \in 0..7
    /\ sample.byte \in 0..255 /\ sample.bit \in 0..1 /\ sample.edge \in BOOLEAN

\* A drive misses no edge, since no cell is as short as the time between two of them: the flux
\* does not look for a new lock, and a strong region shows an edge at every read, until the
\* ticks of the cells do not fit the width of the flux's counter.
EdgesKept ==
    (made /\ ~stuck /\ times.cells < AccWrap) =>
        /\ channel.flux.streak = 0 /\ channel.flux.window = 0
        /\ InWeak(channel.absTick) \/ sample.edge

\* The spindle never runs ahead of the clock of the drive, and is never behind it by more than
\* the cells that were read, until the ticks do not fit their width.
SpindleInTime ==
    (made /\ ~stuck /\ times.made + times.turned + times.cells < TickWrap) =>
        /\ times.turned <= times.read - times.made
        /\ times.read - times.made - times.turned <= times.cells
        /\ channel.angle = times.turned % Turn

\* However the noise falls, the loop corrects enough to stay locked, except in a first
\* revision at the noisiest of the addresses.
StaysLocked ==
    (made /\ channel.level4 /\ ~stuck /\ ~(Reading.revision = 0 /\ Reading.address % 4 = 3)) =>
        LockedAt(channel.phaseErr)

\* What is encoded is decoded, and what follows a mark comes out whole, whatever came before
\* it, unless nothing comes out.
CodecRealigns ==
    (~made /\ now = Reading.from) =>
        \A bytes \in Reading.contents, damage \in Reading.damages :
            LET plain == Decoded(Encoded(bytes))
                marked == Decoded(damage \o <<Mark>> \o Encoded(bytes))
            IN /\ plain.ok = (bytes # <<>>) /\ plain.data = bytes
               /\ ~marked.ok => marked.data = <<>>
               /\ marked.ok =>
                    \E k \in 0..Len(damage) \div 2 :
                        /\ Len(marked.data) = k + Len(bytes)
                        /\ SubSeq(marked.data, k + 1, k + Len(bytes)) = bytes

\* Read channel: the loop stays locked, and what follows a mark is decoded whole; the spindle
\* keeps the drive's time and no edge is missed until the ticks do not fit their width.
ChannelReads ==
    /\ ChannelTypeOK
    /\ StaysLocked /\ SpindleInTime /\ EdgesKept
    /\ CodecRealigns

================================================================================
