-------------------------- MODULE MCDriverAddress --------------------------
EXTENDS DriverAddress, SequencesExt

(* Keys of one to three bytes over a few byte values, the tag byte among *)
(* them, so that dropping the first byte, empty remainders and equal     *)
(* bytes in different places all occur.                                  *)
MCBytes == {0, 4, 171, 255}
MCKeys == UNION {[1..n -> MCBytes] : n \in 1..3}

(* A stand-in for Keccak-256: 32 bytes that depend on every input byte   *)
(* and its position, and differ from one digest position to the next.    *)
MCKeccak(bytes) ==
  LET h == FoldLeft(LAMBDA acc, x : ((acc * 31) + x) % 256, 7, bytes)
  IN [i \in 1..32 |-> ((h * i) + (13 * i * i) + 5) % 256]

=============================================================================
