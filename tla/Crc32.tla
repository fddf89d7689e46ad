-------------------------------- MODULE Crc32 --------------------------------
(***************************************************************************)
(* The checksum of a file as each side computes it, byte by byte.  A word  *)
(* is the set of its bits, bit 0 the lowest.                               *)
(***************************************************************************)
EXTENDS Integers, FiniteSetsExt

\* 0xEDB88320
Poly == {31, 30, 29, 27, 26, 24, 23, 21, 20, 19, 15, 9, 8, 5}

Xor(a, b)     == SymDiff(a, b)
Right(a, n)   == {i - n : i \in {j \in a : j >= n}}
Reduced(a)    == IF 0 \in a THEN Xor(Poly, Right(a, 1)) ELSE Right(a, 1)
Reduced2(a)   == Reduced(Reduced(a))
Eight(a)      == Reduced2(Reduced2(Reduced2(Reduced2(a))))

\* Mistake: the upper bits are not kept apart from the table value.
proto_crc32_step_unmasked(crc, byte) == Xor(Right(crc, 8), Eight(Xor(crc, byte)))

\* The client: the low byte is reduced alone and joined with the other three.
proto_crc32_step(crc, byte) ==
    Xor(Right(crc, 8), Eight(Xor(crc, byte) \intersect 0..7))

\* The server: the whole word is reduced.
crc32_update(crc, byte) == Eight(Xor(crc, byte))

\* 0xFFFFFFFF, and the complement at the end.
Start   == 0..31
Not(a)  == 0..31 \ a
=============================================================================
