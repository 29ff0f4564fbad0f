-------------------------------- MODULE Orders --------------------------------
(***************************************************************************)
(* Sorting by a strict total order, and repeating a step.  Unlike the      *)
(* library's SortSeq and SelectSeq these are definitions a proof can       *)
(* unfold.                                                                 *)
(***************************************************************************)
EXTENDS Integers, Sequences, FiniteSets

(* The elements of S in the strict total order "before". *)
InOrder(S, before(_, _)) ==
  [i \in 1..Cardinality(S) |->
    CHOOSE x \in S : Cardinality({y \in S : before(y, x)}) = i - 1]

Ascending(S) == InOrder(S, LAMBDA i, j : i < j)    \* of numbers

(* The elements of a sequence at the places in S, in their order. *)
AtPlaces(seq, S) == LET places == Ascending(S) IN [n \in DOMAIN places |-> seq[places[n]]]

(* step(... step(step(base, 1), 2) ..., n) *)
Iterated(step(_, _), base, n) ==
  LET after[i \in 0..n] == IF i = 0 THEN base ELSE step(after[i - 1], i)
  IN  after[n]
=============================================================================
