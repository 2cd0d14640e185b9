-------------------------- MODULE DriveSerialProofs --------------------------
(***************************************************************************)
(* Theorems about DriveSerial, for every set of profiles, every size of a   *)
(* byte, all payloads and all timeouts.                                    *)
(***************************************************************************)
EXTENDS DriveSerial, SequenceTheorems, TLAPS

\* What the command phase has of a byte, it has from under ATN.
PhaseBits ==
    state = "Command" => \A i \in 1 .. Len(rx.bits) : rx.bits[i] = "Command"

\* The bit being sent is on the line, and a bit that is 1 has no pull left to release.
LineShows ==
    tx.active => /\ tx.pull = ~ tx.byte[tx.bit + 1]
                 /\ tx.pull \/ releaseIn = 0

\* In the wait for the end only a last bit that was 0 is still pulled.
EndShows ==
    eoi.pending => /\ ~ tx.active /\ tx.byte \in Bytes
                   /\ pull => ~ tx.byte[Bits]
                   /\ pc = "queue" /\ ~ lines.data => heard \/ ~ tx.byte[Bits]

IInv == TypeOK /\ PhaseBits /\ CommandBytesWhole /\ LineShows /\ EndShows /\ EoiAnswered

LEMMA Constants ==
  /\ Bits \in Nat /\ Bits > 1
  /\ AtnTimeout \in Nat /\ AtnAckTicks \in Nat /\ RxAckTicks \in Nat
  /\ RxTimeout \in Nat /\ TxTimeout \in Nat /\ EoiTimeout \in Nat
  /\ Directory \in Seq(Bytes) /\ Status \in Seq(Bytes)
  /\ \A b \in Bytes : b \in [1 .. Bits -> BOOLEAN]
  /\ NoByte \notin Bytes
BY SerialAssumption

LEMMA AppendOfSame ==
  ASSUME NEW S, NEW s \in Seq(S), NEW x \in S, \A i \in 1 .. Len(s) : s[i] = x
  PROVE  \A i \in 1 .. Len(Append(s, x)) : Append(s, x)[i] = x
<1>1. Len(s) \in Nat /\ Len(Append(s, x)) = Len(s) + 1
  OBVIOUS
<1>2. ASSUME NEW i \in 1 .. Len(s) + 1 PROVE Append(s, x)[i] = x
  <2>1. i = Len(s) + 1 \/ i \in 1 .. Len(s)
    BY <1>1
  <2> QED
    BY <2>1, AppendProperties
<1> QED
  BY <1>1, <1>2

LEMMA Limits ==
  /\ 0 \in 0 .. RxTimeout /\ 0 \in 0 .. RxAckTicks /\ RxAckTicks \in 0 .. RxAckTicks
  /\ 0 \in 0 .. TxTimeout /\ 0 \in 0 .. EoiTimeout /\ 0 \in 0 .. Bits - 1
BY Constants

LEMMA ProfileType ==
  ASSUME TypeOK
  PROVE /\ profile.level5 \in BOOLEAN /\ profile.needsClockLow \in BOOLEAN
        /\ profile.ackAny \in BOOLEAN /\ profile.needsAtnLow \in BOOLEAN
<1>1. profile \in Profile
  BY SerialAssumption DEF TypeOK
<1> QED
  BY <1>1 DEF Profile

LEMMA InitOK == Init => IInv
<1> SUFFICES ASSUME Init PROVE IInv
  OBVIOUS
<1>1. <<>> \in Seq(Bytes) /\ <<>> \in Seq(Phases) /\ Len(<<>>) = 0
  OBVIOUS
<1>2. NoAck \in AckType /\ NoTx \in TxType /\ NoEoi \in EoiType
  BY Constants DEF NoAck, NoTx, NoEoi, AckType, TxType, EoiType
<1>3. NoRx \in RxType /\ NoRx.bits = <<>>
  BY <1>1, Constants DEF NoRx, RxType
<1>4. NothingReceived \in [op : Commands \cup {"data", "none"}, bits : Seq(Phases)]
  BY <1>1 DEF NothingReceived
<1>5. TypeOK
  <2>1. lines \in Lines /\ prev \in Edges /\ state \in States /\ ~ tx.active
    BY DEF Init, Lines, Edges, States, NoTx
  <2>2. Len(rx.bits) < Bits /\ atnWait \in 0 .. AtnTimeout + 1
    BY <1>1, <1>3, Constants DEF Init
  <2> QED
    BY <1>1, <1>2, <1>3, <1>4, <2>1, <2>2 DEF Init, TypeOK
<1>6. PhaseBits /\ CommandBytesWhole
  BY DEF Init, PhaseBits, CommandBytesWhole, NothingReceived, Commands
<1>7. LineShows /\ EndShows /\ EoiAnswered
  BY DEF Init, LineShows, EndShows, EoiAnswered, NoTx, NoEoi
<1> QED
  BY <1>5, <1>6, <1>7 DEF IInv

-----------------------------------------------------------------------------
(* The calls between two steps of the engine *)

LEMMA SenseOK == ASSUME IInv, SenseLines PROVE IInv'
<1> PICK host \in Lines : SetIecLines(host)
  BY DEF SenseLines
<1> USE DEF SetIecLines
<1>1. lines' \in Lines /\ lines'.data = (host.data /\ ~ pull)
  BY DEF Lines
<1>2. heard' \in BOOLEAN /\ pull \in BOOLEAN
  BY DEF IInv, TypeOK, EoiType
<1>3. received' \in [op : Commands \cup {"data", "none"}, bits : Seq(Phases)]
  <2> <<>> \in Seq(Phases)
    OBVIOUS
  <2> QED
    BY DEF NothingReceived
<1>4. UNCHANGED <<profile, prev, state, listening, talking, confirmed, ack, atnWait, rx,
                  queue, tx, eoi, pull, releaseIn>>
  BY DEF busVars, ackVars, talkVars, pullVars
<1>5. TypeOK'
  BY <1>1, <1>2, <1>3, <1>4 DEF IInv, TypeOK
<1>6. PhaseBits' /\ CommandBytesWhole'
  BY <1>4 DEF IInv, PhaseBits, CommandBytesWhole, NothingReceived, Commands
<1>7. LineShows'
  BY <1>4 DEF IInv, LineShows
<1>8. EndShows' /\ EoiAnswered'
  BY <1>1, <1>2, <1>4 DEF IInv, EndShows, EoiAnswered
<1> QED
  BY <1>5, <1>6, <1>7, <1>8 DEF IInv

\* A command leaves booleans, a payload, and nothing else of its own.
LEMMA CommandType ==
  ASSUME TypeOK, NEW op \in Commands, CommandByte(op)
  PROVE /\ listening' \in BOOLEAN /\ talking' \in BOOLEAN /\ confirmed' \in BOOLEAN
        /\ queue' \in Seq(Bytes)
<1> USE SerialAssumption DEF TypeOK
<1>1. CASE op = "LISTEN"
  BY <1>1 DEF CommandByte, Listen
<1>2. CASE op = "LISTEN OTHER"
  BY <1>2 DEF CommandByte, Listen
<1>3. CASE op = "TALK"
  BY <1>3 DEF CommandByte, Talk
<1>4. CASE op = "TALK OTHER"
  BY <1>4 DEF CommandByte, Talk
<1>5. CASE op = "UNLISTEN"
  BY <1>5 DEF CommandByte, Unlisten
<1>6. CASE op = "UNTALK"
  BY <1>6 DEF CommandByte, Untalk
<1>7. CASE op = "SECOND"
  BY <1>7 DEF CommandByte, Second
<1>8. CASE op = "CLOSE"
  BY <1>8 DEF CommandByte, CloseChannel
<1> QED
  BY <1>1, <1>2, <1>3, <1>4, <1>5, <1>6, <1>7, <1>8 DEF Commands

LEMMA RxAfterType ==
  ASSUME NEW r \in RxType, NEW op
  PROVE /\ RxAfter(op, r) \in RxType
        /\ RxAfter(op, r).bits = r.bits \/ RxAfter(op, r).bits = <<>>
<1>1. <<>> \in Seq(Phases)
  OBVIOUS
<1>2. [r EXCEPT !.bits = <<>>, !.idle = 0, !.ackTicks = 0, !.ackPull = FALSE] \in RxType
  BY <1>1, Limits DEF RxType
<1>3. [r EXCEPT !.bits = <<>>, !.idle = 0, !.ackTicks = 0, !.ackPull = FALSE].bits = <<>>
  BY DEF RxType
<1> QED
  BY <1>2, <1>3 DEF RxAfter

LEMMA NoTalkType == NoTx \in TxType /\ NoEoi \in EoiType /\ NoAck \in AckType
BY Constants DEF NoTx, NoEoi, NoAck, TxType, EoiType, AckType

LEMMA DispatchOK == ASSUME IInv, NEW op \in Commands, Dispatch(op) PROVE IInv'
<1> USE DEF Dispatch
<1>1. UNCHANGED <<profile, pc, lines, prev, state, ack, atnWait, pull, releaseIn, received>>
  BY DEF lineVars, ackVars, pullVars
<1>2. rx' \in RxType /\ (rx'.bits = rx.bits \/ rx'.bits = <<>>)
  BY RxAfterType DEF IInv, TypeOK
<1>3. Len(rx'.bits) < Bits
  <2>1. Len(<<>>) < Bits /\ Len(rx.bits) < Bits
    BY Constants DEF IInv, TypeOK
  <2> HIDE DEF Dispatch
  <2> QED
    BY <1>2, <2>1
<1>4. tx' \in TxType /\ eoi' \in EoiType /\ (tx'.active => tx'.byte \in Bytes)
  BY NoTalkType DEF IInv, TypeOK, NoTx
<1>5. heard' \in BOOLEAN
  OBVIOUS
<1>6. TypeOK'
  BY <1>1, <1>2, <1>3, <1>4, <1>5, CommandType DEF IInv, TypeOK
<1>7. PhaseBits' /\ CommandBytesWhole'
  BY <1>1, <1>2 DEF IInv, PhaseBits, CommandBytesWhole
<1>8. LineShows'
  BY <1>1 DEF IInv, LineShows, NoTx
<1>9. EndShows' /\ EoiAnswered'
  <2>1. CASE op = "UNTALK"
    BY <2>1 DEF EndShows, EoiAnswered, NoEoi
  <2>2. CASE op # "UNTALK"
    <3>1. tx' = tx /\ eoi' = eoi /\ heard' = heard
      BY <2>2 DEF IInv, TypeOK
    <3> QED
      BY <1>1, <3>1 DEF IInv, EndShows, EoiAnswered
  <2> QED
    BY <2>1, <2>2
<1> QED
  BY <1>6, <1>7, <1>8, <1>9 DEF IInv

LEMMA ForceIdleOK == ASSUME IInv, ForceIecIdle PROVE IInv'
<1> USE DEF ForceIecIdle
<1>1. UNCHANGED <<profile, pc, lines, prev, confirmed, atnWait, queue, releaseIn, received>>
  BY DEF lineVars
<1>2. ack' \in AckType /\ eoi' \in EoiType /\ ~ eoi'.pending
  BY DEF IInv, TypeOK, AckType, EoiType
<1>3. tx' \in TxType /\ ~ tx'.active
  BY DEF IInv, TypeOK, TxType
<1>4. rx' \in RxType /\ rx'.bits = rx.bits
  BY DEF IInv, TypeOK, RxType
<1>5. TypeOK'
  BY <1>1, <1>2, <1>3, <1>4 DEF IInv, TypeOK, States
<1>6. PhaseBits' /\ CommandBytesWhole'
  BY <1>1, <1>4 DEF IInv, PhaseBits, CommandBytesWhole
<1> QED
  BY <1>2, <1>3, <1>5, <1>6 DEF IInv, LineShows, EndShows, EoiAnswered

LEMMA ResetOK == ASSUME IInv, Reset PROVE IInv'
<1> USE DEF Reset
<1>1. <<>> \in Seq(Bytes) /\ <<>> \in Seq(Phases) /\ Len(<<>>) = 0
  OBVIOUS
<1>2. rx' \in RxType /\ rx'.bits = <<>>
  BY <1>1, Constants DEF NoRx, RxType
<1>3. ~ tx'.active /\ ~ eoi'.pending
  BY DEF NoTx, NoEoi
<1>4. TypeOK'
  <2>1. prev' \in Edges /\ state' \in States
    BY DEF Edges, States
  <2>2. Len(rx'.bits) < Bits /\ atnWait' \in 0 .. AtnTimeout + 1
    BY <1>1, <1>2, Constants
  <2> QED
    BY <1>1, <1>2, <1>3, <2>1, <2>2, NoTalkType DEF IInv, TypeOK
<1>5. PhaseBits' /\ CommandBytesWhole'
  BY DEF IInv, PhaseBits, CommandBytesWhole
<1> QED
  BY <1>3, <1>4, <1>5 DEF IInv, LineShows, EndShows, EoiAnswered

-----------------------------------------------------------------------------
(* The parts of a step *)

LEMMA EdgesType ==
  ASSUME TypeOK
  PROVE /\ NextState \in States
        /\ Falling("clk") \in BOOLEAN /\ Falling("atn") \in BOOLEAN
        /\ Rising("clk") \in BOOLEAN
        /\ Falling("clk") \/ Rising("clk") <=> ClockEdge
BY DEF TypeOK, NextState, States, Falling, Rising, ClockEdge, Lines, Edges, EoiType

LEMMA AckHeldType ==
  ASSUME TypeOK, NEW a \in AckType
  PROVE AckHeld(a) \in AckType
<1> DEFINE ticks == IF a.ticks > 0 THEN a.ticks - 1 ELSE 0
<1>1. ticks \in 0 .. AtnAckTicks /\ (a.ticks > 0) \in BOOLEAN
  BY Constants DEF AckType
<1>2. [a EXCEPT !.pull = FALSE] \in AckType /\ [a EXCEPT !.pull = TRUE] \in AckType
  BY DEF AckType
<1>3. [a EXCEPT !.pull = (a.ticks > 0), !.active = (a.ticks > 0), !.ticks = ticks] \in AckType
  BY <1>1 DEF AckType
<1>4. [a EXCEPT !.sawLow = TRUE, !.pull = TRUE, !.ticks = ticks] \in AckType
  BY <1>1 DEF AckType
<1>5. a.active \in BOOLEAN /\ a.sawLow \in BOOLEAN /\ lines.clk \in BOOLEAN
      /\ profile.needsClockLow \in BOOLEAN
  BY ProfileType DEF AckType, TypeOK, Lines
<1> HIDE DEF ticks
<1>6. AckHeld(a) \in {[a EXCEPT !.pull = FALSE], [a EXCEPT !.pull = TRUE],
                      [a EXCEPT !.pull = (a.ticks > 0), !.active = (a.ticks > 0), !.ticks = ticks],
                      [a EXCEPT !.sawLow = TRUE, !.pull = TRUE, !.ticks = ticks], NoAck}
  BY <1>5 DEF AckHeld, ticks
<1> QED
  BY <1>2, <1>3, <1>4, <1>6, NoTalkType

LEMMA AnswerType ==
  ASSUME TypeOK, AnswerAtn
  PROVE /\ ack' \in AckType /\ atnWait' \in 0 .. AtnTimeout + 1
        /\ NextState # "Command" => ~ ack'.pull
<1>1. AckBegun \in AckType
  <2>1. [NoAck EXCEPT !.ticks = AtnAckTicks, !.active = TRUE, !.pull = ack.pull] \in AckType
    <3>1. ack.pull \in BOOLEAN /\ AtnAckTicks \in 0 .. AtnAckTicks
      BY Constants DEF TypeOK, AckType
    <3> QED
      BY <3>1 DEF AckType, NoAck
  <2> QED
    BY <2>1, NoTalkType DEF AckBegun, TypeOK
<1>2. ack' \in AckType
  BY <1>1, AckHeldType, NoTalkType DEF AnswerAtn
<1>3. atnWait' \in 0 .. AtnTimeout + 1
  BY Constants DEF AnswerAtn, TypeOK
<1>4. NextState # "Command" => ack' = NoAck
  BY DEF AnswerAtn
<1> QED
  BY <1>2, <1>3, <1>4 DEF NoAck

LEMMA FramedType ==
  ASSUME TypeOK
  PROVE /\ Framed \in RxType /\ Started(Framed) \in RxType
        /\ Framed.bits = Started(Framed).bits
        /\ Framed.bits = <<>> \/ (Framed.bits = rx.bits /\ ~ Entering("Command"))
<1>1. <<>> \in Seq(Phases)
  OBVIOUS
<1>2. Framed \in RxType /\ (Framed.bits = <<>> \/ (Framed.bits = rx.bits /\ ~ Entering("Command")))
  <2>1. [rx EXCEPT !.bits = <<>>, !.idle = 0, !.sync = TRUE, !.sawStart = FALSE] \in RxType
    BY <1>1, Limits DEF TypeOK, RxType
  <2>2. [rx EXCEPT !.sync = FALSE, !.sawStart = FALSE] \in RxType
    BY DEF TypeOK, RxType
  <2> QED
    BY <2>1, <2>2 DEF Framed, TypeOK, Entering, RxType
<1>4. Started(Framed) \in RxType /\ Framed.bits = Started(Framed).bits
  BY <1>2 DEF Started, RxType
<1> QED
  BY <1>2, <1>4

LEMMA AcknowledgedType ==
  ASSUME TypeOK, NEW r \in RxType
  PROVE /\ Acknowledged(r) \in RxType /\ Acknowledged(r).bits = r.bits
        /\ NextState # "ListenData" => ~ Acknowledged(r).ackPull
        /\ Armed(r) \in RxType /\ Armed(r).bits = r.bits
<1>1. r.ackTicks \in 0 .. RxAckTicks /\ r.bits \in Seq(Phases)
  BY DEF RxType
<1>2. r.ackTicks > 0 => r.ackTicks - 1 \in 0 .. RxAckTicks
  BY <1>1, Constants
<1> DEFINE held == [r EXCEPT !.ackPull = TRUE, !.ackTicks = r.ackTicks - 1]
           over == [r EXCEPT !.ackPull = FALSE, !.ackTicks = 0]
           none == [r EXCEPT !.ackPull = FALSE]
           set  == [r EXCEPT !.ackTicks = RxAckTicks, !.ackPull = TRUE]
<1>3. r.ackTicks > 0 => held \in RxType
  BY <1>2 DEF RxType
<1>4. over \in RxType /\ none \in RxType /\ set \in RxType
  BY Limits DEF RxType
<1>5. /\ held.bits = r.bits /\ over.bits = r.bits /\ none.bits = r.bits /\ set.bits = r.bits
      /\ ~ none.ackPull
  BY DEF RxType
<1> HIDE DEF held, over, none, set
<1>6. /\ Acknowledged(r) \in {over, none} \/ (Acknowledged(r) = held /\ r.ackTicks > 0)
      /\ NextState # "ListenData" => Acknowledged(r) = none
  BY DEF Acknowledged, held, over, none
<1>7. Armed(r) \in {set, r}
  BY DEF Armed, set
<1> QED
  BY <1>3, <1>4, <1>5, <1>6, <1>7

LEMMA TimedType ==
  ASSUME TypeOK, NEW r \in RxType
  PROVE /\ Timed(r) \in RxType /\ Timed(r).ackPull = r.ackPull
        /\ Timed(r).bits = r.bits \/ Timed(r).bits = <<>>
<1>1. <<>> \in Seq(Phases)
  OBVIOUS
<1>2. r.idle \in 0 .. RxTimeout
  BY DEF RxType
<1>3. r.idle < RxTimeout => r.idle + 1 \in 0 .. RxTimeout
  BY <1>2, Constants
<1> DEFINE kept == [r EXCEPT !.idle = 0]
           drop == [r EXCEPT !.bits = <<>>, !.idle = 0]
           aged == [r EXCEPT !.idle = r.idle + 1]
<1>4. kept \in RxType /\ drop \in RxType /\ (r.idle < RxTimeout => aged \in RxType)
  BY <1>1, <1>3, Limits DEF RxType
<1>5. /\ kept.ackPull = r.ackPull /\ drop.ackPull = r.ackPull /\ aged.ackPull = r.ackPull
      /\ kept.bits = r.bits /\ drop.bits = <<>> /\ aged.bits = r.bits
  BY DEF RxType
<1> HIDE DEF kept, drop, aged
<1>6. Timed(r) \in {kept, drop, r} \/ (Timed(r) = aged /\ r.idle < RxTimeout)
  BY <1>2, Constants DEF Timed, kept, drop, aged
<1> QED
  BY <1>4, <1>5, <1>6

\* What a step makes of the byte that comes in, whichever way it goes.
LEMMA ReceiveType ==
  ASSUME IInv, pc = "queue", Receive,
         NextState = "TalkData" => queue' \in Seq(Bytes)
  PROVE /\ rx' \in RxType /\ Len(rx'.bits) < Bits
        /\ NextState # "ListenData" => ~ rx'.ackPull
        /\ received' \in [op : Commands \cup {"data", "none"}, bits : Seq(Phases)]
        /\ listening' \in BOOLEAN /\ talking' \in BOOLEAN /\ confirmed' \in BOOLEAN
        /\ queue' \in Seq(Bytes)
        /\ NextState = "Command" => \A i \in 1 .. Len(rx'.bits) : rx'.bits[i] = "Command"
        /\ CommandBytesWhole'
        /\ NextState = "TalkEoiAck" => queue' = queue
<1> DEFINE r == Started(Framed)
           bits == Append(r.bits, NextState)
           Whole(b) == NextState = "Command" => \A i \in 1 .. Len(b) : b[i] = "Command"
<1> USE SerialAssumption
<1>1. TypeOK
  BY DEF IInv
<1>2. r \in RxType /\ r.bits \in Seq(Phases) /\ r.bits = Framed.bits
  BY <1>1, FramedType DEF RxType
<1>3. Len(r.bits) < Bits /\ Whole(r.bits)
  <2>1. CASE r.bits = <<>>
    BY <2>1
  <2>2. CASE Framed.bits = rx.bits /\ ~ Entering("Command")
    BY <1>2, <2>2 DEF IInv, TypeOK, PhaseBits, Entering
  <2> QED
    BY <1>1, <1>2, <2>1, <2>2, FramedType
<1>4. Samples(Framed) => NextState \in Phases
  BY DEF Samples, Phases
<1>5. NextState \in Phases =>
         bits \in Seq(Phases) /\ Len(bits) = Len(r.bits) + 1 /\ Whole(bits)
  <2> SUFFICES ASSUME NextState \in Phases
               PROVE  bits \in Seq(Phases) /\ Len(bits) = Len(r.bits) + 1 /\ Whole(bits)
    OBVIOUS
  <2>1. bits \in Seq(Phases) /\ Len(bits) = Len(r.bits) + 1
    BY <1>2
  <2>2. NextState = "Command" => \A i \in 1 .. Len(bits) : bits[i] = "Command"
    <3> SUFFICES ASSUME NextState = "Command"
                 PROVE  \A i \in 1 .. Len(bits) : bits[i] = NextState
      OBVIOUS
    <3>1. \A i \in 1 .. Len(r.bits) : r.bits[i] = NextState
      BY <1>3
    <3> HIDE DEF r
    <3> QED
      BY <1>2, <3>1, AppendOfSame
  <2> QED
    BY <2>1, <2>2
<1> <<>> \in Seq(Phases) /\ Len(<<>>) = 0
  OBVIOUS
<1> HIDE DEF r, bits
<1>6. ASSUME NEW q \in RxType, rx' = Timed(Acknowledged(q)), Len(q.bits) < Bits, Whole(q.bits)
      PROVE /\ rx' \in RxType /\ Len(rx'.bits) < Bits /\ Whole(rx'.bits)
            /\ NextState # "ListenData" => ~ rx'.ackPull
  <2>1. Acknowledged(q) \in RxType /\ Acknowledged(q).bits = q.bits
    BY <1>1, AcknowledgedType
  <2>2. rx' \in RxType /\ (rx'.bits = q.bits \/ rx'.bits = <<>>)
    BY <1>1, <1>6, <2>1, TimedType
  <2>3. NextState # "ListenData" => ~ rx'.ackPull
    BY <1>1, <1>6, <2>1, TimedType, AcknowledgedType
  <2>4. Len(rx'.bits) < Bits /\ Whole(rx'.bits)
    <3>1. CASE rx'.bits = q.bits
      BY <1>6, <3>1
    <3>2. CASE rx'.bits = <<>>
      BY <3>2
    <3> QED
      BY <2>2, <3>1, <3>2
  <2> QED
    BY <2>2, <2>3, <2>4
<1>7. CASE /\ Samples(Framed) => profile.level5
           /\ rx' = Timed(Acknowledged(r))
           /\ NextState = "TalkData" \/ UNCHANGED queue
           /\ UNCHANGED <<busVars, received>>
  <2>1. UNCHANGED <<listening, talking, confirmed, received>>
    BY <1>7 DEF busVars
  <2>2. queue' \in Seq(Bytes) /\ (NextState = "TalkEoiAck" => queue' = queue)
    BY <1>1, <1>7 DEF TypeOK
  <2> QED
    BY <1>1, <1>2, <1>3, <1>6, <1>7, <2>1, <2>2 DEF IInv, TypeOK, CommandBytesWhole
<1>8. CASE /\ Samples(Framed) /\ Len(bits) < Bits
           /\ rx' = Timed(Acknowledged([r EXCEPT !.bits = bits]))
           /\ UNCHANGED <<busVars, queue, received>>
  <2>1. [r EXCEPT !.bits = bits] \in RxType /\ [r EXCEPT !.bits = bits].bits = bits
    BY <1>2, <1>4, <1>5, <1>8 DEF RxType
  <2>2. UNCHANGED <<listening, talking, confirmed, received>>
    BY <1>8 DEF busVars
  <2> QED
    BY <1>1, <1>4, <1>5, <1>6, <1>8, <2>1, <2>2 DEF IInv, TypeOK, CommandBytesWhole
<1>9. CASE /\ Samples(Framed) /\ Len(bits) >= Bits /\ NextState = "ListenData"
           /\ rx' = Timed(Acknowledged(Armed([r EXCEPT !.bits = <<>>])))
           /\ received' = [op |-> "data", bits |-> bits]
           /\ UNCHANGED <<busVars, queue>>
  <2>1. [r EXCEPT !.bits = <<>>] \in RxType /\ [r EXCEPT !.bits = <<>>].bits = <<>>
    BY <1>2 DEF RxType
  <2>2. Armed([r EXCEPT !.bits = <<>>]) \in RxType /\ Armed([r EXCEPT !.bits = <<>>]).bits = <<>>
    BY <1>1, <2>1, AcknowledgedType
  <2>3. UNCHANGED <<listening, talking, confirmed>>
    BY <1>9 DEF busVars
  <2>4. received' \in [op : Commands \cup {"data", "none"}, bits : Seq(Phases)] /\ CommandBytesWhole'
    BY <1>4, <1>5, <1>9 DEF CommandBytesWhole, Commands
  <2> QED
    <3>1. Len(<<>>) < Bits /\ Whole(<<>>)
      BY Constants
    <3>2. /\ rx' \in RxType /\ Len(rx'.bits) < Bits /\ Whole(rx'.bits)
          /\ NextState # "ListenData" => ~ rx'.ackPull
      BY <1>6, <1>9, <2>2, <3>1
    <3>3. NextState # "Command" /\ NextState # "TalkEoiAck" /\ queue' = queue
      BY <1>9
    <3> QED
      BY <1>1, <2>3, <2>4, <3>2, <3>3 DEF TypeOK
<1>10. CASE /\ Samples(Framed) /\ Len(bits) >= Bits /\ NextState = "Command"
            /\ \E op \in Commands :
                  /\ CommandByte(op)
                  /\ rx' = Timed(Acknowledged(Armed([RxAfter(op, r) EXCEPT !.bits = <<>>])))
                  /\ received' = [op |-> op, bits |-> bits]
  <2> PICK op \in Commands :
                  /\ CommandByte(op)
                  /\ rx' = Timed(Acknowledged(Armed([RxAfter(op, r) EXCEPT !.bits = <<>>])))
                  /\ received' = [op |-> op, bits |-> bits]
    BY <1>10
  <2> DEFINE q == [RxAfter(op, r) EXCEPT !.bits = <<>>]
  <2>1. RxAfter(op, r) \in RxType
    BY <1>2, RxAfterType
  <2>2. q \in RxType /\ q.bits = <<>>
    BY <2>1 DEF RxType
  <2> HIDE DEF q
  <2>3. Armed(q) \in RxType /\ Armed(q).bits = <<>>
    BY <1>1, <2>2, AcknowledgedType
  <2>4. rx' = Timed(Acknowledged(Armed(q)))
    BY DEF q
  <2>5. received' \in [op : Commands \cup {"data", "none"}, bits : Seq(Phases)] /\ CommandBytesWhole'
    BY <1>4, <1>5, <1>10 DEF CommandBytesWhole
  <2> QED
    <3>1. Len(<<>>) < Bits /\ Whole(<<>>)
      BY Constants
    <3>2. /\ rx' \in RxType /\ Len(rx'.bits) < Bits /\ Whole(rx'.bits)
          /\ NextState # "ListenData" => ~ rx'.ackPull
      BY <1>6, <2>3, <2>4, <3>1
    <3>3. NextState # "TalkEoiAck"
      BY <1>10
    <3> QED
      BY <1>1, <2>5, <3>2, <3>3, CommandType
<1> QED
  BY <1>7, <1>8, <1>9, <1>10 DEF Receive, r, bits

-----------------------------------------------------------------------------
(* The talk side *)

\* A byte that is taken up is the one that is being sent, or a new one at its first bit.
LEMMA TakenUpType ==
  ASSUME TypeOK, NextState = "TalkData"
  PROVE /\ TakenUp \in TxType
        /\ TakenUp.active => TakenUp.byte \in Bytes
        /\ \/ /\ TakenUp.active = tx.active /\ TakenUp.byte = tx.byte
              /\ TakenUp.bit = tx.bit /\ TakenUp.isEoi = tx.isEoi
              /\ TakenUp.idle = tx.idle
              /\ tx.active => TakenUp.pull = tx.pull
           \/ /\ ~ tx.active /\ TakenUp.active /\ Falling("clk") /\ queue # <<>>
              /\ TakenUp.byte = Head(queue) /\ TakenUp.bit = 0
              /\ TakenUp.isEoi = (Len(queue) = 1)
<1> DEFINE idle  == queue # <<>> /\ ~ tx.active
           fresh == IF Entering("TalkData")
                    THEN [tx EXCEPT !.armed = TRUE, !.sawStart = FALSE,
                                    !.pull = IF idle THEN FALSE ELSE tx.pull]
                    ELSE tx
           t     == IF fresh.armed /\ Falling("clk") THEN [fresh EXCEPT !.sawStart = TRUE] ELSE fresh
           new   == [t EXCEPT !.active = TRUE, !.byte = Head(queue), !.bit = 0,
                              !.isEoi = (Len(queue) = 1)]
           Same(u) == /\ u.active = tx.active /\ u.byte = tx.byte /\ u.bit = tx.bit
                      /\ u.isEoi = tx.isEoi /\ u.idle = tx.idle
                      /\ tx.active => u.pull = tx.pull
<1>1. tx \in TxType /\ tx.pull \in BOOLEAN /\ queue \in Seq(Bytes)
  BY DEF TypeOK, TxType
<1>2. [tx EXCEPT !.armed = TRUE, !.sawStart = FALSE,
                 !.pull = IF idle THEN FALSE ELSE tx.pull] \in TxType
  BY <1>1 DEF TxType
<1>3. Same([tx EXCEPT !.armed = TRUE, !.sawStart = FALSE,
                      !.pull = IF idle THEN FALSE ELSE tx.pull])
  BY <1>1 DEF TxType
<1>4. fresh \in TxType /\ Same(fresh)
  BY <1>1, <1>2, <1>3
<1> HIDE DEF fresh
<1>5. [fresh EXCEPT !.sawStart = TRUE] \in TxType /\ Same([fresh EXCEPT !.sawStart = TRUE])
  BY <1>4 DEF TxType
<1>6. t \in TxType /\ Same(t)
  BY <1>4, <1>5
<1> HIDE DEF t
<1>7. TakenUp = IF Starts(t) THEN new ELSE t
  BY DEF TakenUp, t, fresh
<1>8. CASE ~ Starts(t)
  BY <1>6, <1>7, <1>8 DEF TypeOK
<1>9. CASE Starts(t)
  <2>1. queue # <<>> /\ Head(queue) \in Bytes /\ (Len(queue) = 1) \in BOOLEAN
    BY <1>1, <1>9 DEF Starts
  <2>2. new \in TxType
    BY <1>6, <2>1, Limits DEF TxType
  <2>3. /\ new.active /\ new.byte = Head(queue) /\ new.bit = 0
        /\ new.isEoi = (Len(queue) = 1)
    BY <1>6 DEF TxType
  <2>4. ~ tx.active /\ Falling("clk")
    BY <1>6, <1>9 DEF Starts
  <2> HIDE DEF new
  <2> QED
    BY <1>7, <1>9, <2>1, <2>2, <2>3, <2>4
<1> QED
  BY <1>8, <1>9

LEMMA AdvancedType ==
  ASSUME TypeOK, NEW t \in TxType, t.active => t.byte \in Bytes
  PROVE /\ Advanced(t) \in TxType
        /\ Advanced(t).byte = t.byte /\ Advanced(t).pull = t.pull
        /\ Ends(t) => ~ Advanced(t).active /\ ~ Advanced(t).isEoi
        /\ ~ Ends(t) => Advanced(t).active = t.active /\ Advanced(t).isEoi = t.isEoi
        /\ Ends(t) => t.active /\ ClockEdge /\ t.bit + 1 = Bits
<1>1. t.bit \in 0 .. Bits - 1
  BY DEF TxType
<1>2. Ends(t) => t.active /\ t.bit + 1 = Bits
  BY <1>1, Constants DEF Ends, Advances
<1>3. Advances(t) /\ ~ Ends(t) => t.bit + 1 \in 0 .. Bits - 1
  BY <1>1, Constants DEF Ends
<1>4. Ends(t) => ClockEdge
  BY EdgesType DEF Ends, Advances
<1> DEFINE over == [t EXCEPT !.active = FALSE, !.bit = 0, !.isEoi = FALSE, !.idle = 0]
           next == [t EXCEPT !.bit = t.bit + 1]
<1>5. over \in TxType
  BY Limits DEF TxType
<1>6. t.bit + 1 \in 0 .. Bits - 1 => next \in TxType
  BY DEF TxType
<1>7. /\ ~ over.active /\ ~ over.isEoi /\ over.byte = t.byte /\ over.pull = t.pull
      /\ next.active = t.active /\ next.isEoi = t.isEoi
      /\ next.byte = t.byte /\ next.pull = t.pull
  BY DEF TxType
<1>8. Advanced(t) = IF Ends(t) THEN over ELSE IF Advances(t) THEN next ELSE t
  BY DEF Advanced
<1> HIDE DEF over, next
<1> QED
  BY <1>2, <1>3, <1>4, <1>5, <1>6, <1>7, <1>8

LEMMA ShownType ==
  ASSUME TypeOK, NEW t \in TxType, t.active => t.byte \in Bytes
  PROVE /\ Shown(t) \in TxType /\ Shown(t).byte = t.byte /\ Shown(t).isEoi = t.isEoi
        /\ Shown(t).active => t.active /\ Shown(t).pull = ~ t.byte[Shown(t).bit + 1]
        /\ ~ t.active => ~ Shown(t).active /\ Shown(t).pull = t.pull
        /\ t.active /\ ClockEdge => Shown(t).active
<1>1. t.bit \in 0 .. Bits - 1 /\ t.idle \in 0 .. TxTimeout /\ t.active \in BOOLEAN
  BY DEF TxType
<1> DEFINE level == ~ t.byte[t.bit + 1]
           quiet == [t EXCEPT !.idle = 0]
           edge  == [t EXCEPT !.pull = level, !.idle = 0]
           wait  == [t EXCEPT !.pull = level, !.idle = t.idle + 1]
           stop  == [t EXCEPT !.active = FALSE, !.bit = 0, !.pull = FALSE, !.idle = 0]
<1>2. level \in BOOLEAN
  OBVIOUS
<1>3. t.idle < TxTimeout => t.idle + 1 \in 0 .. TxTimeout
  BY <1>1, Constants
<1> HIDE DEF level
<1>4. quiet \in TxType /\ edge \in TxType /\ stop \in TxType
      /\ (t.idle < TxTimeout => wait \in TxType)
  BY <1>2, <1>3, Limits DEF TxType
<1>5. /\ quiet.byte = t.byte /\ quiet.isEoi = t.isEoi /\ quiet.active = t.active
      /\ quiet.pull = t.pull
      /\ edge.byte = t.byte /\ edge.isEoi = t.isEoi /\ edge.active = t.active
      /\ edge.pull = level /\ edge.bit = t.bit
      /\ wait.byte = t.byte /\ wait.isEoi = t.isEoi /\ wait.active = t.active
      /\ wait.pull = level /\ wait.bit = t.bit
      /\ stop.byte = t.byte /\ stop.isEoi = t.isEoi /\ ~ stop.active
  BY DEF TxType
<1>6. /\ ~ t.active => Shown(t) = quiet
      /\ t.active /\ ClockEdge => Shown(t) = edge
      /\ t.active /\ ~ ClockEdge /\ t.idle < TxTimeout => Shown(t) = wait
      /\ t.active /\ ~ ClockEdge /\ ~ (t.idle < TxTimeout) => Shown(t) = stop
  BY <1>1 DEF Shown, level
<1> HIDE DEF quiet, edge, wait, stop
<1>7. CASE ~ t.active
  BY <1>4, <1>5, <1>6, <1>7
<1>8. CASE t.active /\ ClockEdge
  BY <1>4, <1>5, <1>6, <1>8 DEF level
<1>9. CASE t.active /\ ~ ClockEdge /\ t.idle < TxTimeout
  BY <1>4, <1>5, <1>6, <1>9 DEF level
<1>10. CASE t.active /\ ~ ClockEdge /\ ~ (t.idle < TxTimeout)
  BY <1>4, <1>5, <1>6, <1>10
<1> QED
  BY <1>7, <1>8, <1>9, <1>10

\* The four things a talker does in a step.
SendStays ==
    /\ UNCHANGED queue /\ eoi' = eoi
    /\ tx'.active = tx.active
    /\ tx.active => tx'.byte = tx.byte /\ tx'.isEoi = tx.isEoi

SendStarts ==
    /\ ~ tx.active /\ tx'.active /\ queue # <<>>
    /\ tx'.byte = Head(queue) /\ queue' = Tail(queue) /\ tx'.isEoi = (Len(queue) = 1)
    /\ eoi' = eoi

SendEnds ==
    /\ tx.active /\ ~ tx'.active /\ tx.bit + 1 = Bits
    /\ tx'.byte = tx.byte /\ tx'.pull = tx.pull
    /\ UNCHANGED queue
    /\ eoi' = IF tx.isEoi THEN [NoEoi EXCEPT !.pending = TRUE] ELSE eoi

SendStops ==
    /\ tx.active /\ ~ tx'.active
    /\ UNCHANGED queue /\ eoi' = eoi

LEMMA SendResult ==
  ASSUME TypeOK, NextState = "TalkData", Send
  PROVE /\ tx' \in TxType /\ (tx'.active => tx'.byte \in Bytes)
        /\ tx'.active => tx'.pull = ~ tx'.byte[tx'.bit + 1]
        /\ queue' \in Seq(Bytes) /\ eoi' \in EoiType
        /\ SendStays \/ SendStarts \/ SendEnds \/ SendStops
<1> DEFINE t == TakenUp
           u == Advanced(t)
<1>1. t \in TxType /\ (t.active => t.byte \in Bytes)
  BY TakenUpType
<1>2. \/ /\ t.active = tx.active /\ t.byte = tx.byte
         /\ t.bit = tx.bit /\ t.isEoi = tx.isEoi
         /\ tx.active => t.pull = tx.pull
      \/ /\ ~ tx.active /\ t.active /\ Falling("clk") /\ queue # <<>>
         /\ t.byte = Head(queue) /\ t.bit = 0
         /\ t.isEoi = (Len(queue) = 1)
  BY TakenUpType
<1>3. /\ tx' = Shown(u)
      /\ queue' = IF t.active /\ ~ tx.active THEN Tail(queue) ELSE queue
      /\ eoi' = IF Ends(t) /\ t.isEoi THEN [NoEoi EXCEPT !.pending = TRUE] ELSE eoi
  BY DEF Send
<1> HIDE DEF t
<1>4. /\ u \in TxType /\ u.byte = t.byte /\ u.pull = t.pull
      /\ Ends(t) => ~ u.active /\ ~ u.isEoi
      /\ ~ Ends(t) => u.active = t.active /\ u.isEoi = t.isEoi
      /\ Ends(t) => t.active /\ ClockEdge /\ t.bit + 1 = Bits
  BY <1>1, AdvancedType
<1> HIDE DEF u
<1>5. u.active => u.byte \in Bytes
  BY <1>1, <1>4
<1>6. /\ tx' \in TxType /\ tx'.byte = u.byte /\ tx'.isEoi = u.isEoi
      /\ tx'.active => u.active /\ tx'.pull = ~ u.byte[tx'.bit + 1]
      /\ ~ u.active => ~ tx'.active /\ tx'.pull = u.pull
      /\ u.active /\ ClockEdge => tx'.active
  BY <1>3, <1>4, <1>5, ShownType
<1>7. /\ tx' \in TxType /\ (tx'.active => tx'.byte \in Bytes)
      /\ tx'.active => tx'.pull = ~ tx'.byte[tx'.bit + 1]
  BY <1>5, <1>6
<1>8. queue' \in Seq(Bytes) /\ eoi' \in EoiType
  <2>1. queue \in Seq(Bytes) /\ eoi \in EoiType
    BY DEF TypeOK
  <2>2. [NoEoi EXCEPT !.pending = TRUE] \in EoiType
    BY Limits DEF NoEoi, EoiType
  <2>3. t.active /\ ~ tx.active => queue # <<>>
    BY <1>2
  <2>4. queue # <<>> => Tail(queue) \in Seq(Bytes)
    BY <2>1
  <2> QED
    BY <1>3, <2>1, <2>2, <2>3, <2>4
<1>9. tx'.active \in BOOLEAN /\ tx.active \in BOOLEAN /\ t.active \in BOOLEAN
  BY <1>1, <1>6 DEF TypeOK, TxType
<1>10. CASE ~ tx.active /\ t.active
  <2>1. Falling("clk") /\ queue # <<>> /\ t.byte = Head(queue) /\ t.bit = 0
        /\ t.isEoi = (Len(queue) = 1)
    BY <1>2, <1>10
  <2>2. ~ Ends(t)
    BY <1>4, <2>1, Constants
  <2>3. tx'.active
    BY <1>4, <1>6, <1>10, <2>1, <2>2, EdgesType
  <2> SendStarts
    BY <1>3, <1>4, <1>6, <1>10, <2>1, <2>2, <2>3 DEF SendStarts
  <2> QED
    BY <1>7, <1>8
<1>11. CASE tx.active \/ ~ t.active
  <2>1. /\ t.active = tx.active /\ t.byte = tx.byte
        /\ t.bit = tx.bit /\ t.isEoi = tx.isEoi
        /\ tx.active => t.pull = tx.pull
    BY <1>2, <1>11
  <2>2. UNCHANGED queue
    BY <1>3, <1>11
  <2>3. CASE Ends(t)
    <3> SendEnds
      BY <1>3, <1>4, <1>6, <2>1, <2>2, <2>3 DEF SendEnds
    <3> QED
      BY <1>7, <1>8
  <2>4. CASE ~ Ends(t)
    <3>1. eoi' = eoi
      BY <1>3, <2>4
    <3>2. tx'.active => tx.active
      BY <1>4, <1>6, <2>1, <2>4
    <3> SendStays \/ SendStops
      BY <1>4, <1>6, <1>9, <2>1, <2>2, <2>4, <3>1, <3>2 DEF SendStays, SendStops
    <3> QED
      BY <1>7, <1>8
  <2> QED
    BY <2>3, <2>4
<1> QED
  BY <1>9, <1>10, <1>11

LEMMA HeardType ==
  ASSUME TypeOK, Heard.pending \in BOOLEAN
  PROVE /\ Heard \in EoiType
        /\ Heard.pending /\ Heard.lowSeen => eoi.lowSeen \/ ~ lines.data
        /\ Heard.pending => eoi.pending
        /\ ~ Heard.pending => Heard = NoEoi \/ ~ eoi.pending
<1>1. eoi \in EoiType /\ eoi.wait \in 0 .. EoiTimeout /\ lines.data \in BOOLEAN
      /\ eoi.lowSeen \in BOOLEAN
  BY DEF TypeOK, EoiType, Lines
<1>2. eoi.wait < EoiTimeout => eoi.wait + 1 \in 0 .. EoiTimeout
  BY <1>1, Constants
<1> DEFINE seen == [eoi EXCEPT !.lowSeen = TRUE]
           wait == [eoi EXCEPT !.wait = eoi.wait + 1]
           low  == eoi.lowSeen \/ ~ lines.data
<1>3. seen \in EoiType /\ (eoi.wait < EoiTimeout => wait \in EoiType)
  BY <1>1, <1>2 DEF EoiType
<1>4. /\ seen.pending = eoi.pending
      /\ wait.pending = eoi.pending /\ wait.lowSeen = eoi.lowSeen
      /\ ~ NoEoi.pending
  BY <1>1 DEF EoiType, NoEoi
<1>5. /\ low /\ lines.data => Heard = NoEoi
      /\ low /\ ~ lines.data => Heard = seen
      /\ ~ low /\ eoi.wait >= EoiTimeout => Heard = NoEoi
      /\ ~ low /\ ~ (eoi.wait >= EoiTimeout) => Heard = wait
  BY DEF Heard
<1>6. ~ (eoi.wait >= EoiTimeout) => eoi.wait < EoiTimeout
  BY <1>1, Constants
<1> HIDE DEF seen, wait, low
<1> QED
  BY <1>3, <1>4, <1>5, <1>6, NoTalkType DEF low

-----------------------------------------------------------------------------
(* The step of the engine *)

LEMMA StepOK == ASSUME IInv, StepIecSerial PROVE IInv'
<1> DEFINE target == tx'.pull \/ ack'.pull \/ rx'.ackPull
<1>1. TypeOK /\ pc = "queue" /\ pc' = "outside" /\ state' = NextState
      /\ UNCHANGED <<profile, lines>>
  BY DEF IInv, StepIecSerial
<1>2. AnswerAtn /\ Receive /\ TalkSide /\ heard' = (heard /\ eoi'.pending)
  BY DEF StepIecSerial
<1>3. Release(target)
  BY DEF StepIecSerial
<1>4. prev' \in Edges
  BY DEF StepIecSerial, Edges, IInv, TypeOK, Lines
<1>5. /\ tx' \in TxType /\ (tx'.active => tx'.byte \in Bytes) /\ eoi' \in EoiType
      /\ NextState = "TalkData" => queue' \in Seq(Bytes)
  <2>1. CASE NextState = "TalkData"
    BY <1>1, <1>2, <2>1, SendResult DEF TalkSide
  <2>2. CASE NextState = "TalkEoiAck"
    <3>1. tx' = [tx EXCEPT !.pull = FALSE] /\ eoi' = Heard
      BY <1>2, <2>2 DEF TalkSide
    <3>2. tx' \in TxType /\ (tx'.active => tx'.byte \in Bytes)
      BY <1>1, <3>1 DEF TypeOK, TxType
    <3>3. eoi' \in EoiType
      BY <1>1, <3>1, HeardType DEF Heard, TypeOK, EoiType, NoEoi
    <3> QED
      BY <2>2, <3>2, <3>3
  <2>3. CASE NextState \notin {"TalkData", "TalkEoiAck"}
    <3>1. tx' = NoTx /\ eoi' = NoEoi
      BY <1>2, <2>3 DEF TalkSide
    <3> QED
      BY <2>3, <3>1, NoTalkType DEF NoTx
  <2> QED
    BY <2>1, <2>2, <2>3
<1>6. /\ rx' \in RxType /\ Len(rx'.bits) < Bits
      /\ NextState # "ListenData" => ~ rx'.ackPull
      /\ received' \in [op : Commands \cup {"data", "none"}, bits : Seq(Phases)]
      /\ listening' \in BOOLEAN /\ talking' \in BOOLEAN /\ confirmed' \in BOOLEAN
      /\ queue' \in Seq(Bytes)
      /\ NextState = "Command" => \A i \in 1 .. Len(rx'.bits) : rx'.bits[i] = "Command"
      /\ CommandBytesWhole'
  BY <1>1, <1>2, <1>5, ReceiveType
<1>7. /\ ack' \in AckType /\ atnWait' \in 0 .. AtnTimeout + 1
      /\ NextState # "Command" => ~ ack'.pull
  BY <1>1, <1>2, AnswerType
<1>8. target \in BOOLEAN
  OBVIOUS
<1> HIDE DEF target
<1>9. /\ pull' \in BOOLEAN /\ releaseIn' \in {0, 1}
      /\ ~ target => releaseIn' = 0 /\ (pull' => pull /\ releaseIn > 0)
      /\ target => pull'
  BY <1>1, <1>3, <1>8 DEF Release, TypeOK
<1>10. heard' \in BOOLEAN /\ (heard' <=> heard /\ eoi'.pending)
  BY <1>2
<1>11. TypeOK'
  BY <1>1, <1>4, <1>5, <1>6, <1>7, <1>9, <1>10, EdgesType DEF TypeOK
<1>12. PhaseBits'
  BY <1>1, <1>6 DEF PhaseBits
<1>13. NextState \in {"TalkData", "TalkEoiAck"} => (target <=> tx'.pull)
  BY <1>5, <1>6, <1>7 DEF target, TxType
<1>14. LineShows' /\ EndShows' /\ EoiAnswered'
  <2>1. CASE NextState = "TalkData"
    <3>1. Send /\ ~ eoi.pending
      BY <1>1, <1>2, <2>1 DEF TalkSide, NextState
    <3>2. /\ tx'.active => tx'.pull = ~ tx'.byte[tx'.bit + 1]
          /\ SendStays \/ SendStarts \/ SendEnds \/ SendStops
      BY <1>1, <2>1, <3>1, SendResult
    <3>3. tx'.active => tx'.pull \/ releaseIn' = 0
      BY <1>5, <1>9, <1>13, <2>1
    <3>4. LineShows'
      BY <3>2, <3>3 DEF LineShows
    <3>5. CASE eoi' = eoi
      BY <3>1, <3>4, <3>5 DEF EndShows, EoiAnswered
    <3>6. CASE eoi' # eoi
      <4>1. SendEnds /\ eoi' = [NoEoi EXCEPT !.pending = TRUE]
        BY <3>2, <3>6 DEF SendStays, SendStarts, SendEnds, SendStops
      <4>2. ~ eoi'.lowSeen /\ ~ tx'.active /\ tx'.byte = tx.byte /\ tx'.pull = tx.pull
            /\ tx.active /\ tx.bit + 1 = Bits
        BY <4>1 DEF SendEnds, NoEoi
      <4>3. tx.byte \in Bytes /\ tx.pull = ~ tx.byte[Bits] /\ (tx.pull \/ releaseIn = 0)
        BY <1>1, <4>2 DEF IInv, LineShows, TypeOK
      <4>4. pull' => tx'.pull
        BY <1>9, <1>13, <2>1, <4>2, <4>3
      <4> QED
        BY <1>1, <3>4, <4>2, <4>3, <4>4 DEF EndShows, EoiAnswered
    <3> QED
      BY <3>5, <3>6
  <2>2. CASE NextState = "TalkEoiAck"
    <3>1. tx' = [tx EXCEPT !.pull = FALSE] /\ eoi' = Heard /\ eoi.pending
      BY <1>1, <1>2, <2>2 DEF TalkSide, NextState, TypeOK, EoiType
    <3>2. tx'.byte = tx.byte /\ tx'.active = tx.active /\ ~ tx'.pull
      BY <1>1, <3>1 DEF TypeOK, TxType
    <3>3. ~ tx.active /\ tx.byte \in Bytes /\ (pull => ~ tx.byte[Bits])
          /\ (~ lines.data => heard \/ ~ tx.byte[Bits])
      BY <1>1, <3>1 DEF IInv, EndShows
    <3>4. pull' => pull
      BY <1>9, <1>13, <2>2, <3>2
    <3>5. eoi'.pending /\ eoi'.lowSeen => heard' \/ ~ tx'.byte[Bits]
      <4>1. Heard.pending \in BOOLEAN
        BY <1>5, <3>1 DEF EoiType
      <4>2. eoi'.pending /\ eoi'.lowSeen => eoi.lowSeen \/ ~ lines.data
        BY <1>1, <3>1, <4>1, HeardType
      <4>3. eoi.lowSeen => heard \/ ~ tx.byte[Bits]
        BY <3>1 DEF IInv, EoiAnswered
      <4> QED
        BY <1>10, <3>2, <3>3, <4>2, <4>3
    <3> QED
      BY <1>1, <3>2, <3>3, <3>4, <3>5 DEF LineShows, EndShows, EoiAnswered
  <2>3. CASE NextState \notin {"TalkData", "TalkEoiAck"}
    <3>1. tx' = NoTx /\ eoi' = NoEoi
      BY <1>2, <2>3 DEF TalkSide
    <3> QED
      BY <3>1 DEF LineShows, EndShows, EoiAnswered, NoTx, NoEoi
  <2> QED
    BY <2>1, <2>2, <2>3
<1> QED
  BY <1>6, <1>11, <1>12, <1>14 DEF IInv

LEMMA StutterOK == ASSUME IInv, UNCHANGED vars PROVE IInv'
BY DEF vars, lineVars, busVars, ackVars, talkVars, pullVars, notes, IInv, TypeOK, PhaseBits,
       CommandBytesWhole, LineShows, EndShows, EoiAnswered

\* The inductive invariant of the engine.
THEOREM SerialConsistent == Spec => []IInv
<1>1. ASSUME IInv, [Next]_vars PROVE IInv'
  <2>1. CASE SenseLines
    BY <1>1, <2>1, SenseOK
  <2>2. CASE \E op \in Commands : Dispatch(op)
    BY <1>1, <2>2, DispatchOK
  <2>3. CASE StepIecSerial
    BY <1>1, <2>3, StepOK
  <2>4. CASE ForceIecIdle
    BY <1>1, <2>4, ForceIdleOK
  <2>5. CASE Reset
    BY <1>1, <2>5, ResetOK
  <2>6. CASE UNCHANGED vars
    BY <1>1, <2>6, StutterOK
  <2> QED
    BY <1>1, <2>1, <2>2, <2>3, <2>4, <2>5, <2>6 DEF Next
<1> QED
  BY <1>1, InitOK, PTL DEF Spec

\* Types and counters of the engine are right whatever the lines and the commands do.
THEOREM SerialTypeCorrect == Spec => []TypeOK
<1>1. IInv => TypeOK
  BY DEF IInv
<1> QED
  BY <1>1, SerialConsistent, PTL

\* No bit from outside ATN is ever part of a command byte.
THEOREM CommandBytesAreWhole == Spec => []CommandBytesWhole
<1>1. IInv => CommandBytesWhole
  BY DEF IInv
<1> QED
  BY <1>1, SerialConsistent, PTL

\* The end of a payload is acknowledged by the host or by the drive's own last 0.
THEOREM EndIsAnswered == Spec => []EoiAnswered
<1>1. IInv => EoiAnswered
  BY DEF IInv
<1> QED
  BY <1>1, SerialConsistent, PTL

-----------------------------------------------------------------------------
(* The engine carries out the transfer of ByteTransfer *)

LEMMA InitRefines == Init => Transfer!Init
BY DEF Init, Transfer!Init, NoTx, NoEoi

LEMMA StepRefines == ASSUME IInv, IInv', StepIecSerial PROVE [Transfer!Next]_Transfer!vars
<1> USE DEF Transfer!vars
<1>1. TypeOK /\ Receive /\ TalkSide
  BY DEF IInv, StepIecSerial
<1>2. tx \in TxType /\ tx' \in TxType /\ queue \in Seq(Bytes) /\ queue' \in Seq(Bytes)
      /\ eoi \in EoiType /\ eoi' \in EoiType
  BY DEF IInv, TypeOK
<1>3. tx.active \in BOOLEAN /\ tx'.active \in BOOLEAN /\ tx.isEoi \in BOOLEAN
      /\ tx'.isEoi \in BOOLEAN /\ eoi.pending \in BOOLEAN /\ eoi'.pending \in BOOLEAN
  BY <1>2 DEF TxType, EoiType
<1>4. CASE NextState = "TalkData"
  <2>1. Send /\ ~ eoi.pending
    BY <1>1, <1>4 DEF TalkSide, NextState
  <2>2. SendStays \/ SendStarts \/ SendEnds \/ SendStops
    BY <1>1, <1>4, <2>1, SendResult
  <2>3. tx.active => tx.byte # NoByte
    BY <1>1, Constants DEF TypeOK
  <2>4. CASE SendStays
    BY <1>3, <2>4 DEF SendStays
  <2>5. CASE SendStarts
    <3>1. Tail(queue) = <<>> <=> Len(queue) = 1
      <4>1. Len(queue) > 0 /\ Tail(queue) \in Seq(Bytes) /\ Len(Tail(queue)) = Len(queue) - 1
        BY <1>2, <2>5, EmptySeq DEF SendStarts
      <4>2. Tail(queue) = <<>> <=> Len(Tail(queue)) = 0
        BY <4>1, EmptySeq
      <4> QED
        BY <1>2, <4>1, <4>2
    <3> Transfer!Start
      BY <1>3, <2>1, <2>5, <3>1 DEF SendStarts, Transfer!Start
    <3> QED
      BY DEF Transfer!Next
  <2>6. CASE SendEnds
    <3>1. eoi'.pending = tx.isEoi
      BY <1>3, <2>1, <2>6 DEF SendEnds, NoEoi
    <3> Transfer!Finish
      BY <1>3, <2>3, <2>6, <3>1 DEF SendEnds, Transfer!Finish
    <3> QED
      BY DEF Transfer!Next
  <2>7. CASE SendStops
    <3> Transfer!Abort
      BY <1>2, <1>3, <2>1, <2>7 DEF SendStops, Transfer!Abort
    <3> QED
      BY DEF Transfer!Next
  <2> QED
    BY <2>2, <2>4, <2>5, <2>6, <2>7
<1>5. CASE NextState = "TalkEoiAck"
  <2>1. tx' = [tx EXCEPT !.pull = FALSE] /\ eoi' = Heard /\ eoi.pending
    BY <1>1, <1>2, <1>5 DEF TalkSide, NextState, EoiType
  <2>2. tx'.active = tx.active /\ ~ tx.active
    BY <1>2, <2>1 DEF TxType, IInv, EndShows
  <2>3. queue' = queue
    BY <1>1, <1>5 DEF Receive, Samples
  <2>4. CASE eoi'.pending
    BY <2>1, <2>2, <2>3, <2>4, <1>3
  <2>5. CASE ~ eoi'.pending
    <3> Transfer!Abort
      BY <1>2, <1>3, <2>2, <2>5 DEF Transfer!Abort
    <3> QED
      BY DEF Transfer!Next
  <2> QED
    BY <2>4, <2>5
<1>6. CASE NextState \notin {"TalkData", "TalkEoiAck"}
  <2>1. tx' = NoTx /\ eoi' = NoEoi
    BY <1>1, <1>6 DEF TalkSide
  <2> Transfer!Abort
    BY <1>2, <2>1 DEF Transfer!Abort, NoTx, NoEoi
  <2> QED
    BY DEF Transfer!Next
<1> QED
  BY <1>4, <1>5, <1>6

LEMMA CallsRefine ==
  ASSUME IInv, IInv', SenseLines \/ (\E op \in Commands : Dispatch(op)) \/ ForceIecIdle \/ Reset
  PROVE [Transfer!Next]_Transfer!vars
<1> USE DEF Transfer!vars
<1>1. queue' \in Seq(Bytes) /\ tx.active \in BOOLEAN /\ tx.isEoi \in BOOLEAN
  BY DEF IInv, TypeOK, TxType
<1>2. CASE SenseLines
  BY <1>2 DEF SenseLines, SetIecLines, talkVars
<1>3. ASSUME NEW op \in Commands, Dispatch(op) PROVE [Transfer!Next]_Transfer!vars
  <2>1. CASE op = "UNTALK"
    <3> Transfer!Abort
      BY <1>1, <1>3, <2>1 DEF Dispatch, Transfer!Abort, NoTx, NoEoi
    <3> QED
      BY DEF Transfer!Next
  <2>2. CASE op # "UNTALK"
    <3> Transfer!Load
      BY <1>1, <1>3, <2>2 DEF Dispatch, Transfer!Load
    <3> QED
      BY DEF Transfer!Next
  <2> QED
    BY <2>1, <2>2
<1>4. CASE ForceIecIdle
  <2>1. ~ tx'.active /\ ~ eoi'.pending
    BY <1>4 DEF ForceIecIdle, IInv, TypeOK, TxType, EoiType
  <2> Transfer!Abort
    BY <1>1, <2>1, <1>4 DEF Transfer!Abort, ForceIecIdle, IInv, TypeOK, EoiType
  <2> QED
    BY DEF Transfer!Next
<1>5. CASE Reset
  <2> Transfer!Abort
    BY <1>1, <1>5 DEF Transfer!Abort, Reset, NoTx, NoEoi
  <2> QED
    BY DEF Transfer!Next
<1> QED
  BY <1>2, <1>3, <1>4, <1>5

\* Whatever the host and the clock do, what leaves the drive is a transfer: each byte of
\* the payload once, in its order, and none while the end of one is waited for.
THEOREM SerialTransfers == Spec => TransferSpec
<1>1. ASSUME IInv, IInv', [Next]_vars PROVE [Transfer!Next]_Transfer!vars
  <2>1. CASE UNCHANGED vars
    BY <2>1 DEF vars, talkVars, Transfer!vars
  <2>2. CASE StepIecSerial
    BY <1>1, <2>2, StepRefines
  <2>3. CASE Next /\ ~ StepIecSerial
    BY <1>1, <2>3, CallsRefine DEF Next
  <2> QED
    BY <1>1, <2>1, <2>2, <2>3
<1> QED
  BY <1>1, InitRefines, SerialConsistent, PTL DEF Spec, TransferSpec, Transfer!Spec

=============================================================================
