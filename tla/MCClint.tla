------------------------------- MODULE MCClint -------------------------------
(***************************************************************************)
(* Halves of two bits: carries, comparator values on both sides of a carry *)
(* in either half, and readings that are interrupted.                      *)
(***************************************************************************)
EXTENDS Clint

MCGoals == { [hi |-> 0, lo |-> 3], [hi |-> 1, lo |-> 0], [hi |-> 2, lo |-> 1] }
=============================================================================
