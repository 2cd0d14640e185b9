------------------------------- MODULE ByteBits -------------------------------
(***************************************************************************)
(* A byte as the set of its bits, numbered from 1 for the lowest: &, | and *)
(* ^ on the bytes of a uint8_t.                                            *)
(***************************************************************************)
EXTENDS Naturals, Sequences

Bytes256 == 0..255
BitWeights == <<1, 2, 4, 8, 16, 32, 64, 128>>

BitsOf(v) == {n \in 1..8 : (v \div BitWeights[n]) % 2 = 1}
Worth(S, n) == IF n \in S THEN BitWeights[n] ELSE 0
FromBits(S) ==
    Worth(S, 1) + Worth(S, 2) + Worth(S, 3) + Worth(S, 4)
        + Worth(S, 5) + Worth(S, 6) + Worth(S, 7) + Worth(S, 8)

And(v, w) == FromBits(BitsOf(v) \cap BitsOf(w))
Or(v, w) == FromBits(BitsOf(v) \cup BitsOf(w))
Xor(v, w) == FromBits((BitsOf(v) \cup BitsOf(w)) \ (BitsOf(v) \cap BitsOf(w)))
===============================================================================
