------------------------------ MODULE MCFetch ------------------------------
(***************************************************************************)
(* Model-checking instance of Fetch: a ROM of N words with a sequential    *)
(* word, a taken-only jump, a branch and an indirect jump in any order.    *)
(***************************************************************************)
EXTENDS Fetch

N == 3

Plain(op, t) == [op |-> op, rd |-> 0, rs1 |-> 0, rs2 |-> 0, target |-> t]

MCWords == N
MCRegs  == {0}
MCPrograms ==
  [0 .. N - 1 -> { Plain("alu", 0), Plain("jal", 2), Plain("branch", 1),
                   Plain("jalr", 0) }]
=============================================================================
