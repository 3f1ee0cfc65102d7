------------------------------ MODULE MCCells ------------------------------
(* Small instances of Cells: numbers are scaled down, with exponents from 8, *)
(* exact floats up to 16 and words up to 64, in the order 10^6 < 2^53 < 2^63. *)
EXTENDS Cells

SomeInts == {0, 7, 8, -8, 16, 17, -33, 63, -64, 64}
MinusWord == - Word
=============================================================================
