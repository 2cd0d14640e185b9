----------------------------- MODULE ByteTransfer -----------------------------
(***************************************************************************)
(* What a talker of the serial bus promises: the bytes of its payload leave *)
(* in their order, one at a time, and after the last one nothing is sent    *)
(* before its end was acknowledged or given up.                             *)
(***************************************************************************)
EXTENDS Sequences, Naturals

CONSTANTS
    Bytes,    \* bytes a payload is made of
    NoByte    \* nothing is being sent; none of Bytes

VARIABLES
    queue,    \* bytes that wait to be sent
    wire,     \* byte being sent
    last,     \* it was the only byte of the queue
    waiting   \* for the listener to acknowledge the end

vars == <<queue, wire, last, waiting>>

Init ==
    /\ queue = <<>>
    /\ wire = NoByte
    /\ last = FALSE
    /\ waiting = FALSE

\* A command of the controller gives the talker something else to say.
Load ==
    /\ queue' \in Seq(Bytes)
    /\ UNCHANGED <<wire, last, waiting>>

Start ==
    /\ wire = NoByte /\ ~ waiting
    /\ queue # <<>>
    /\ wire' = Head(queue)
    /\ queue' = Tail(queue)
    /\ last' = (Tail(queue) = <<>>)
    /\ UNCHANGED waiting

\* The byte was sent.
Finish ==
    /\ wire # NoByte
    /\ wire' = NoByte
    /\ last' = FALSE
    /\ waiting' = last
    /\ UNCHANGED queue

\* What is being sent or waited for is given up, for something else to say or not.
Abort ==
    /\ wire' = NoByte
    /\ last' = FALSE
    /\ waiting' = FALSE
    /\ queue' \in Seq(Bytes)

Next == Load \/ Start \/ Finish \/ Abort

Spec == Init /\ [][Next]_vars

===============================================================================
