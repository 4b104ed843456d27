------------------------------- MODULE MCRtos -------------------------------
(***************************************************************************)
(* Model-checking instance of Rtos: ticks of 19 cycles, steps of one or    *)
(* two, a critical section in every third iteration, and a monitor that    *)
(* sleeps three times.  It meets the hypotheses of the theorems about      *)
(* TrapCount and NoFailure with C = 2.                                     *)
(***************************************************************************)
EXTENDS Rtos

MCCosts == {1, 2}
=============================================================================
