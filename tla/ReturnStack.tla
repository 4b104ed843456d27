----------------------------- MODULE ReturnStack -----------------------------
(***************************************************************************)
(* What a return address stack of bounded depth promises: a return finds   *)
(* the address of the latest call that has not returned yet; when calls    *)
(* nest deeper than the stack, the oldest address is forgotten.            *)
(***************************************************************************)
EXTENDS Integers

CONSTANTS
  Depth,    (* entries                                                      *)
  Link      (* the addresses calls return to                                *)


VARIABLES
  size,    (* calls remembered                                              *)
  frames   (* their return addresses, the latest first                      *)

stackVars == << size, frames >>

Push(v) ==
  /\ size' = IF size = Depth THEN Depth ELSE size + 1
  /\ frames' = [i \in 1 .. size' |-> IF i = 1 THEN v ELSE frames[i - 1]]

Pop ==
  /\ size > 0
  /\ size' = size - 1
  /\ frames' = [i \in 1 .. size' |-> frames[i + 1]]

StackInit == size = 0 /\ frames = [i \in 1 .. 0 |-> 0]
StackNext == Pop \/ \E v \in Link : Push(v)
StackSpec == StackInit /\ [][StackNext]_stackVars
=============================================================================
