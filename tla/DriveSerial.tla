----------------------------- MODULE DriveSerial ------------------------------
(***************************************************************************)
(* The serial engine of a 1541, bit by bit (stepIecSerial of struct        *)
(* Drive1541, src/drive_1541.hpp): the answer to ATN, the bits it receives  *)
(* on the edges of the clock and acknowledges, the bytes it sends, and the  *)
(* end it signals after the last one.  DriveUnit has the power and the      *)
(* command parser around it.                                                *)
(*                                                                         *)
(* A tick is three kinds of steps: the lines are set, with the pull of the  *)
(* drive itself in them, queued commands are taken, the engine steps.       *)
(*                                                                         *)
(* Left out: the status line and the counters of the timeouts, the          *)
(* compatibility switches no profile sets, CLK and the pulls of the VIA,    *)
(* the values of the bytes received (any may be), and iecTalkStartPending   *)
(* with its wait between two bytes, which decides nothing: a falling edge   *)
(* starts the next byte whether it is set or not.                           *)
(***************************************************************************)
EXTENDS Integers, Sequences

CONSTANTS
    Profiles,                  \* revisions and physical profiles of drives
    Bits,                      \* bits of a byte
    Bytes, NoByte,             \* bytes of the payloads, each a sequence of levels
    Directory, Status,         \* payloads of channels 0 and 15
    AtnTimeout, AtnAckTicks,   \* iecAtnResponseTimeoutTicks, iecAtnAckTicksOverride
    RxAckTicks, RxTimeout,     \* IEC_RX_BYTE_ACK_TICKS, receiver timeout with hysteresis
    TxTimeout, EoiTimeout      \* sender timeout with and without hysteresis

Profile ==
    [level5 : BOOLEAN,         \* Level5Coupling: acknowledges, both edges, timing window
     needsClockLow : BOOLEAN,  \* iecHandshakeNeedsClockLowAck
     ackAny : BOOLEAN,         \* iecRxAckOnAnyDataByte
     needsAtnLow : BOOLEAN]    \* iecCommandNeedsAtnLow

ASSUME SerialAssumption ==
    /\ Profiles \subseteq Profile
    /\ Bits \in Nat /\ Bits > 1
    /\ Bytes \subseteq [1 .. Bits -> BOOLEAN] /\ NoByte \notin Bytes
    /\ Directory \in Seq(Bytes) /\ Status \in Seq(Bytes)
    /\ {AtnTimeout, AtnAckTicks, RxAckTicks, RxTimeout, TxTimeout, EoiTimeout} \subseteq Nat

VARIABLES
    profile,
    pc,              \* "outside" a tick, "queue" once the lines are set
    lines, prev,     \* iecATN, iecCLK, iecDATA now; iecPrevATN, iecPrevCLK; TRUE for high
    state,           \* iecSerialState
    listening, talking,            \* iecListening, iecTalking
    confirmed,       \* talkChannelConfirmed: a secondary address chose what to say
    ack, atnWait,    \* the answer to ATN: iecAtn..., iecAtnResponseWaitTicks
    rx,              \* the byte that comes in: iecRx..., iecCommand...
    queue, tx, eoi,  \* iecTxQueue, the byte that goes out, the wait after the last
    pull, releaseIn, \* iecDrivePullDATA, iecDriveDataReleaseCountdown
    received,        \* of a byte received in this step: what it was, how its bits came
    heard            \* the host pulled DATA in this wait

lineVars  == <<lines, prev>>
busVars   == <<listening, talking, confirmed>>
ackVars   == <<ack, atnWait>>
talkVars  == <<queue, tx, eoi>>
pullVars  == <<pull, releaseIn>>
notes     == <<received, heard>>
vars == <<profile, pc, lineVars, state, busVars, ackVars, rx, talkVars, pullVars, notes>>

Lines    == [atn : BOOLEAN, clk : BOOLEAN, data : BOOLEAN]
Edges    == [atn : BOOLEAN, clk : BOOLEAN]
States   == {"Idle", "Command", "ListenData", "TalkData", "TalkEoiAck"}
Commands == {"LISTEN", "LISTEN OTHER", "TALK", "TALK OTHER", "UNLISTEN", "UNTALK",
             "SECOND", "CLOSE"}

NoAck  == [ticks |-> 0, active |-> FALSE, sawLow |-> FALSE, pull |-> FALSE]
NoRx   == [bits |-> <<>>, idle |-> 0, sync |-> FALSE, sawStart |-> FALSE,
           ackTicks |-> 0, ackPull |-> FALSE]
NoTx   == [active |-> FALSE, byte |-> NoByte, bit |-> 0, isEoi |-> FALSE, armed |-> FALSE,
           sawStart |-> FALSE, idle |-> 0, pull |-> FALSE]
NothingReceived == [op |-> "none", bits |-> <<>>]
NoEoi  == [pending |-> FALSE, lowSeen |-> FALSE, wait |-> 0]

-----------------------------------------------------------------------------
(* Commands that address the drive (processIecCommandByte) *)

\* The revision ignores LISTEN and TALK when ATN has just been released.
TooLate == profile.needsAtnLow /\ state = "Command" /\ lines.atn

Listen(own) ==
    /\ listening' = IF TooLate THEN listening ELSE own
    /\ UNCHANGED <<talking, confirmed, queue>>

\* The name or the command that ends here may have been answered with a payload.
Unlisten ==
    /\ listening' = FALSE
    /\ queue' \in {queue, Directory}
    /\ UNCHANGED <<talking, confirmed>>

Talk(own) ==
    /\ talking' = IF TooLate THEN talking ELSE own
    /\ confirmed' = (confirmed /\ (TooLate \/ own))
    /\ UNCHANGED <<listening, queue>>

Untalk ==
    /\ talking' = FALSE /\ confirmed' = FALSE
    /\ UNCHANGED <<listening, queue>>

\* A secondary address of a talking drive chooses what it says: the directory if
\* nothing is left to say, the status, or nothing new.
Second ==
    /\ confirmed' = (confirmed \/ talking)
    /\ queue' \in IF ~ talking THEN {queue}
                  ELSE {queue, Status} \cup (IF queue = <<>> THEN {Directory} ELSE {})
    /\ UNCHANGED <<listening, talking>>

CloseChannel ==
    /\ confirmed' \in {confirmed, FALSE}
    /\ UNCHANGED <<listening, talking, queue>>

\* processIecCommandByte: who is addressed and what there is to say.
CommandByte(op) ==
    CASE op = "LISTEN"       -> Listen(TRUE)
      [] op = "LISTEN OTHER" -> Listen(FALSE)
      [] op = "TALK"         -> Talk(TRUE)
      [] op = "TALK OTHER"   -> Talk(FALSE)
      [] op = "UNLISTEN"     -> Unlisten
      [] op = "UNTALK"       -> Untalk
      [] op = "SECOND"       -> Second
      [] op = "CLOSE"        -> CloseChannel

\* What UNLISTEN does to the byte that comes in.
RxAfter(op, r) ==
    IF op = "UNLISTEN"
    THEN [r EXCEPT !.bits = <<>>, !.idle = 0, !.ackTicks = 0, !.ackPull = FALSE] ELSE r

-----------------------------------------------------------------------------
(* stepIecSerial *)

Falling(line) == prev[line] /\ ~ lines[line]
Rising(line)  == ~ prev[line] /\ lines[line]
ClockEdge     == prev.clk # lines.clk

NextState ==
    IF ~ lines.atn THEN "Command"
    ELSE IF talking THEN (IF eoi.pending THEN "TalkEoiAck" ELSE "TalkData")
    ELSE IF listening THEN "ListenData"
    ELSE "Idle"

Entering(s) == state # s /\ NextState = s

\* A listener that is not answered lets go: iecAtnResponseWaitTicks.
AtnWaits   == NextState = "Command" /\ listening
AtnExpired == AtnWaits /\ atnWait >= AtnTimeout /\ ack.active

\* The answer to ATN, begun with the phase: DATA is low until CLK was, or for a time.
AckBegun ==
    IF Falling("atn") \/ Entering("Command")
    THEN [NoAck EXCEPT !.ticks = AtnAckTicks, !.active = TRUE, !.pull = ack.pull]
    ELSE IF AtnExpired THEN NoAck ELSE ack

AckHeld(a) ==
    LET ticks == IF a.ticks > 0 THEN a.ticks - 1 ELSE 0
    IN  CASE ~ a.active              -> [a EXCEPT !.pull = FALSE]
          [] a.active /\ ~ profile.needsClockLow ->
                 [a EXCEPT !.pull = (a.ticks > 0), !.active = (a.ticks > 0), !.ticks = ticks]
          [] a.active /\ profile.needsClockLow /\ ~ lines.clk ->
                 [a EXCEPT !.sawLow = TRUE, !.pull = TRUE, !.ticks = ticks]
          [] a.active /\ profile.needsClockLow /\ lines.clk /\ ~ a.sawLow ->
                 [a EXCEPT !.pull = TRUE]
          [] OTHER -> NoAck

AnswerAtn ==
    /\ ack' = IF ~ profile.level5 \/ NextState # "Command" THEN NoAck ELSE AckHeld(AckBegun)
    /\ atnWait' = IF \/ ~ profile.level5 \/ ~ AtnWaits
                     \/ Falling("atn") \/ Entering("Command")
                  THEN 0
                  ELSE IF atnWait > AtnTimeout THEN atnWait ELSE atnWait + 1

\* Mutant: the command phase begins with the bits that are there.
FramedKept ==
    CASE Entering("Command")     -> [rx EXCEPT !.sync = TRUE, !.sawStart = FALSE, !.idle = 0]
      [] NextState # "Command"   -> [rx EXCEPT !.sync = FALSE, !.sawStart = FALSE]
      [] OTHER                   -> rx

\* The command phase begins with a fresh byte, and with a first falling edge.
Framed ==
    CASE Entering("Command")     ->
             [rx EXCEPT !.bits = <<>>, !.idle = 0, !.sync = TRUE, !.sawStart = FALSE]
      [] NextState # "Command"   -> [rx EXCEPT !.sync = FALSE, !.sawStart = FALSE]
      [] OTHER                   -> rx

\* A bit is sampled in this step, unless the timing window rejects it.
Samples(r) ==
    /\ Rising("clk") \/ (profile.level5 /\ Falling("clk"))
    /\ \/ NextState = "ListenData"
       \/ NextState = "Command" /\ (~ r.sync \/ r.sawStart)

Started(r) ==
    IF NextState = "Command" /\ r.sync /\ Falling("clk") THEN [r EXCEPT !.sawStart = TRUE] ELSE r

\* The acknowledge of a byte is armed, for any byte or for data alone.
Armed(r) ==
    IF profile.level5 /\ (NextState = "ListenData" \/ profile.ackAny)
    THEN [r EXCEPT !.ackTicks = RxAckTicks, !.ackPull = TRUE] ELSE r

\* It is pulled until CLK falls or its time is over, but only by a listener.
Acknowledged(r) ==
    IF profile.level5 /\ NextState = "ListenData" /\ r.ackTicks > 0
    THEN IF lines.clk THEN [r EXCEPT !.ackPull = TRUE, !.ackTicks = r.ackTicks - 1]
                      ELSE [r EXCEPT !.ackPull = FALSE, !.ackTicks = 0]
    ELSE [r EXCEPT !.ackPull = FALSE]

\* A data byte that stops half way is dropped.
Timed(r) ==
    IF r.bits = <<>> \/ ClockEdge THEN [r EXCEPT !.idle = 0]
    ELSE IF NextState = "Command" THEN r
    ELSE IF r.idle >= RxTimeout THEN [r EXCEPT !.bits = <<>>, !.idle = 0]
    ELSE [r EXCEPT !.idle = r.idle + 1]

\* No bit, a bit, or the last bit of a byte.
Receive ==
    LET r    == Started(Framed)
        bits == Append(r.bits, NextState)
    IN  \/ /\ Samples(Framed) => profile.level5
           /\ rx' = Timed(Acknowledged(r))
           /\ NextState = "TalkData" \/ UNCHANGED queue
           /\ UNCHANGED <<busVars, received>>
        \/ /\ Samples(Framed) /\ Len(bits) < Bits
           /\ rx' = Timed(Acknowledged([r EXCEPT !.bits = bits]))
           /\ UNCHANGED <<busVars, queue, received>>
        \/ /\ Samples(Framed) /\ Len(bits) >= Bits /\ NextState = "ListenData"
           /\ rx' = Timed(Acknowledged(Armed([r EXCEPT !.bits = <<>>])))
           /\ received' = [op |-> "data", bits |-> bits]
           /\ UNCHANGED <<busVars, queue>>
        \/ /\ Samples(Framed) /\ Len(bits) >= Bits /\ NextState = "Command"
           /\ \E op \in Commands :
                 /\ CommandByte(op)
                 /\ rx' = Timed(Acknowledged(Armed([RxAfter(op, r) EXCEPT !.bits = <<>>])))
                 /\ received' = [op |-> op, bits |-> bits]

\* Mutant: a byte may be started while another is sent.
StartsOver(t) ==
    /\ Falling("clk") /\ t.sawStart
    /\ queue # <<>> /\ confirmed

\* A falling edge starts a byte once the frame has begun with one.
Starts(t) ==
    /\ Falling("clk") /\ t.sawStart /\ ~ t.active
    /\ queue # <<>> /\ confirmed

TakenUp ==
    LET idle  == queue # <<>> /\ ~ tx.active
        fresh == IF Entering("TalkData")
                 THEN [tx EXCEPT !.armed = TRUE, !.sawStart = FALSE,
                                 !.pull = IF idle THEN FALSE ELSE tx.pull]
                 ELSE tx
        t     == IF fresh.armed /\ Falling("clk") THEN [fresh EXCEPT !.sawStart = TRUE] ELSE fresh
    IN  IF Starts(t)
        THEN [t EXCEPT !.active = TRUE, !.byte = Head(queue), !.bit = 0,
                       !.isEoi = (Len(queue) = 1)]
        ELSE t

\* The next bit goes out on a rising edge, under Level5Coupling on either.
Advances(t) == t.active /\ (Rising("clk") \/ (profile.level5 /\ Falling("clk")))

Ends(t) == Advances(t) /\ t.bit + 1 >= Bits

Advanced(t) ==
    IF Ends(t) THEN [t EXCEPT !.active = FALSE, !.bit = 0, !.isEoi = FALSE, !.idle = 0]
    ELSE IF Advances(t) THEN [t EXCEPT !.bit = t.bit + 1]
    ELSE t

\* Mutant: every tick restarts the time.
ShownForever(t) ==
    IF t.active THEN [t EXCEPT !.pull = ~ t.byte[t.bit + 1], !.idle = 0] ELSE t

\* The bit is put on the line, and a byte that stops half way is given up.
Shown(t) ==
    CASE ~ t.active -> [t EXCEPT !.idle = 0]
      [] t.active /\ ClockEdge -> [t EXCEPT !.pull = ~ t.byte[t.bit + 1], !.idle = 0]
      [] t.active /\ ~ ClockEdge /\ t.idle < TxTimeout ->
             [t EXCEPT !.pull = ~ t.byte[t.bit + 1], !.idle = t.idle + 1]
      [] OTHER -> [t EXCEPT !.active = FALSE, !.bit = 0, !.pull = FALSE, !.idle = 0]

\* Mutant: the wait for the end begins with what was seen in an earlier one.
SendUncleared ==
    /\ tx' = Shown(Advanced(TakenUp))
    /\ queue' = IF TakenUp.active /\ ~ tx.active THEN Tail(queue) ELSE queue
    /\ eoi' = IF Ends(TakenUp) /\ TakenUp.isEoi THEN [eoi EXCEPT !.pending = TRUE] ELSE eoi

Send ==
    /\ tx' = Shown(Advanced(TakenUp))
    /\ queue' = IF TakenUp.active /\ ~ tx.active THEN Tail(queue) ELSE queue
    /\ eoi' = IF Ends(TakenUp) /\ TakenUp.isEoi THEN [NoEoi EXCEPT !.pending = TRUE] ELSE eoi

\* The listener answers the end by DATA low and high again, or the wait is given up.
Heard ==
    LET low == eoi.lowSeen \/ ~ lines.data
    IN  IF low /\ lines.data THEN NoEoi
        ELSE IF low THEN [eoi EXCEPT !.lowSeen = TRUE]
        ELSE IF eoi.wait >= EoiTimeout THEN NoEoi
        ELSE [eoi EXCEPT !.wait = eoi.wait + 1]

\* The talk side after the byte that comes in; out of TALK nothing of it is left.
TalkSide ==
    CASE NextState = "TalkData"   -> Send
      [] NextState = "TalkEoiAck" ->
             eoi' = Heard /\ tx' = [tx EXCEPT !.pull = FALSE]
      [] OTHER                    -> tx' = NoTx /\ eoi' = NoEoi

\* applyDriveOpenCollectorReleaseModel, for the delay of one tick of Level5Coupling
Release(target) ==
    IF ~ profile.level5 THEN pull' = target /\ releaseIn' = 0
    ELSE IF target THEN pull' = TRUE /\ releaseIn' = 1
    ELSE pull' = (pull /\ releaseIn > 0) /\ releaseIn' = 0

StepIecSerial ==
    /\ pc = "queue" /\ pc' = "outside"
    /\ AnswerAtn
    /\ Receive
    /\ TalkSide
    /\ Release(tx'.pull \/ ack'.pull \/ rx'.ackPull)
    /\ state' = NextState
    /\ prev' = [atn |-> lines.atn, clk |-> lines.clk]
    /\ heard' = (heard /\ eoi'.pending)
    /\ UNCHANGED <<profile, lines>>

-----------------------------------------------------------------------------
(* The drive around the engine *)

\* setIecLines at the beginning of a tick, with the pull of the drive in the wire.
SetIecLines(host) ==
    /\ pc = "outside" /\ pc' = "queue"
    /\ lines' = [host EXCEPT !.data = IF pull THEN FALSE ELSE host.data]
    /\ heard' = (eoi.pending /\ (heard \/ ~ host.data))
    /\ received' = NothingReceived
    /\ UNCHANGED <<profile, prev, state, busVars, ackVars, rx, talkVars, pullVars>>

\* A queued command of processQueuedIecRxBurst.
Dispatch(op) ==
    /\ pc = "queue"
    /\ CommandByte(op)
    /\ rx' = RxAfter(op, rx)
    /\ tx' = (IF op = "UNTALK" THEN NoTx ELSE tx)
    /\ eoi' = (IF op = "UNTALK" THEN NoEoi ELSE eoi)
    /\ heard' = (heard /\ op # "UNTALK")
    /\ UNCHANGED <<profile, pc, lineVars, state, ackVars, pullVars, received>>

\* forceIecIdleForC64PowerOff: what was received of a byte stays, and an acknowledge
\* that was armed.
ForceIecIdle ==
    /\ pc = "outside"
    /\ listening' = FALSE /\ talking' = FALSE
    /\ state' = "Idle"
    /\ ack' = [ack EXCEPT !.pull = FALSE]
    /\ rx' = [rx EXCEPT !.ackPull = FALSE]
    /\ tx' = [tx EXCEPT !.active = FALSE, !.pull = FALSE]
    /\ eoi' = [eoi EXCEPT !.pending = FALSE]
    /\ pull' = FALSE
    /\ heard' = FALSE
    /\ UNCHANGED <<profile, pc, lineVars, confirmed, atnWait, queue, releaseIn, received>>

\* reset(): the lines and the pull stay.
Reset ==
    /\ pc = "outside"
    /\ listening' = FALSE /\ talking' = FALSE /\ confirmed' = FALSE
    /\ state' = "Idle" /\ prev' = [atn |-> TRUE, clk |-> TRUE]
    /\ ack' = NoAck /\ atnWait' = 0 /\ rx' = NoRx
    /\ queue' = <<>> /\ tx' = NoTx /\ eoi' = NoEoi
    /\ releaseIn' = 0 /\ heard' = FALSE
    /\ UNCHANGED <<profile, pc, lines, pull, received>>

Init ==
    /\ profile \in Profiles
    /\ pc = "outside"
    /\ lines = [atn |-> TRUE, clk |-> TRUE, data |-> TRUE]
    /\ prev = [atn |-> TRUE, clk |-> TRUE]
    /\ state = "Idle"
    /\ listening = FALSE /\ talking = FALSE /\ confirmed = FALSE
    /\ ack = NoAck /\ atnWait = 0 /\ rx = NoRx
    /\ queue = <<>> /\ tx = NoTx /\ eoi = NoEoi
    /\ pull = FALSE /\ releaseIn = 0
    /\ received = NothingReceived /\ heard = FALSE

SenseLines == \E host \in Lines : SetIecLines(host)

Next ==
    \/ SenseLines
    \/ \E op \in Commands : Dispatch(op)
    \/ StepIecSerial
    \/ ForceIecIdle
    \/ Reset

Spec == Init /\ [][Next]_vars

\* The bus ticks its drives for ever, and a tick runs to its end.
FairSpec == Spec /\ WF_vars(SenseLines) /\ WF_vars(StepIecSerial)

-----------------------------------------------------------------------------
(* Properties *)

Phases  == {"Command", "ListenData"}
AckType == [ticks : 0 .. AtnAckTicks, active : BOOLEAN, sawLow : BOOLEAN, pull : BOOLEAN]
RxType  == [bits : Seq(Phases), idle : 0 .. RxTimeout, sync : BOOLEAN, sawStart : BOOLEAN,
            ackTicks : 0 .. RxAckTicks, ackPull : BOOLEAN]
TxType  == [active : BOOLEAN, byte : Bytes \cup {NoByte}, bit : 0 .. Bits - 1,
            isEoi : BOOLEAN, armed : BOOLEAN, sawStart : BOOLEAN,
            idle : 0 .. TxTimeout, pull : BOOLEAN]
EoiType == [pending : BOOLEAN, lowSeen : BOOLEAN, wait : 0 .. EoiTimeout]

\* Every variable has its type; no counter passes its timeout and no byte its bits.
TypeOK ==
    /\ profile \in Profiles /\ pc \in {"outside", "queue"}
    /\ lines \in Lines /\ prev \in Edges /\ state \in States
    /\ listening \in BOOLEAN /\ talking \in BOOLEAN /\ confirmed \in BOOLEAN
    /\ ack \in AckType /\ atnWait \in 0 .. AtnTimeout + 1
    /\ rx \in RxType /\ Len(rx.bits) < Bits
    /\ queue \in Seq(Bytes)
    /\ tx \in TxType /\ (tx.active => tx.byte \in Bytes)
    /\ eoi \in EoiType
    /\ pull \in BOOLEAN /\ releaseIn \in {0, 1}
    /\ received \in [op : Commands \cup {"data", "none"}, bits : Seq(Phases)]
    /\ heard \in BOOLEAN

\* A byte that is taken for a command has all its bits from under ATN, however the
\* byte before it was cut off.  (Of a data byte this is not true.)
CommandBytesWhole ==
    received.op \in Commands => \A i \in 1 .. Len(received.bits) : received.bits[i] = "Command"

\* The end of a payload is only acknowledged by the host, or by the drive's own pull:
\* a last bit that is 0 is still on the wire when the wait begins.
EoiAnswered == eoi.pending /\ eoi.lowSeen => heard \/ (tx.byte \in Bytes /\ ~ tx.byte[Bits])

\* When ATN is released and the clock stands still, every wait of the engine ends: a
\* byte half sent or half received is given up, an end nobody answers too, and DATA is
\* let go, but for a 0 that was the last bit of a byte.
WaitsEnd ==
    (<>[](prev.atn /\ prev.clk) \/ <>[](prev.atn /\ ~ prev.clk))
        => <>[] /\ ~ tx.active /\ rx.bits = <<>>
                /\ eoi.pending => eoi.lowSeen
                /\ pull => tx.byte \in Bytes /\ ~ tx.byte[Bits]

\* The bits carry out a transfer of bytes.
Transfer == INSTANCE ByteTransfer WITH
                wire    <- IF tx.active THEN tx.byte ELSE NoByte,
                last    <- tx.active /\ tx.isEoi,
                waiting <- eoi.pending

TransferSpec == Transfer!Spec

===============================================================================
