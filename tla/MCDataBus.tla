----------------------------- MODULE MCDataBus -----------------------------
(***************************************************************************)
(* Model-checking instance of DataBus: bytes of two bits, so that 2 and 3  *)
(* are the negative ones, two words of program and of data memory, and     *)
(* stores of a word whose four bytes differ.  The first word of data       *)
(* memory is asked for at every byte, the second at its last one, and the  *)
(* first word of program memory is only prefetched.                        *)
(***************************************************************************)
EXTENDS DataBus

MCRom == [w \in 0 .. 1 |-> [k \in 0 .. 3 |-> IF w = 0 THEN k ELSE 3 - k]]
MCData == {[k \in 0 .. 3 |-> CASE k = 0 -> 1 [] k = 1 -> 0 [] OTHER -> k]}
MCRequested == {4, 6} \cup 8 .. 11 \cup {15, 16, 20}
=============================================================================
