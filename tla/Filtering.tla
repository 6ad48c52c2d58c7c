------------------------------ MODULE Filtering ------------------------------
(***************************************************************************)
(* What Array.prototype.filter keeps of an array, and what a loop has      *)
(* pushed that skips some of one: the elements at some positions, in their *)
(* order.  SelectSeq gives the same, but has no definition the prover can  *)
(* expand.                                                                 *)
(***************************************************************************)
EXTENDS Integers, FiniteSets

\* A finite set of numbers, in ascending order: the n-th is the one with n numbers
\* up to it.
InOrder(numbers) ==
    [n \in 1 .. Cardinality(numbers) |->
       CHOOSE i \in numbers : Cardinality({j \in numbers : j <= i}) = n]

Filtered(s, positions) ==
    LET kept == InOrder(positions) IN [n \in DOMAIN kept |-> s[kept[n]]]
=============================================================================
