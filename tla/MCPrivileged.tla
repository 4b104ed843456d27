---------------------------- MODULE MCPrivileged ----------------------------
(***************************************************************************)
(* Model-checking instance of Privileged: seven bits of a word, eight      *)
(* words of IMEM, counters of two bits, and one program for each group of  *)
(* instructions: interrupts and wfi, exceptions, and the counters.         *)
(***************************************************************************)
EXTENDS Privileged

MCBits == {0, 1, 2, 3, 7, 11, 31}
MCHighBits == {11, 31}
MCCounterBits == {0}

(* A jump to word 4, out of IMEM, and to a misaligned address.             *)
MCTargets == { {7}, {3, 31}, {1, 7} }
MCFaults == { << {0, 2}, {11} >> }
MCTimes == { {0} }

Op(o) == [op |-> o, csr |-> "absent", operands |-> {}, plain |-> TRUE, word |-> {0, 11}]
CsrOp(o, n, vs) == [op |-> o, csr |-> n, operands |-> vs, plain |-> FALSE, word |-> {1, 11}]
Reads(n) == [CsrOp("csrrs", n, {{}}) EXCEPT !.plain = TRUE]

Code(w) == [a \in {b \in Address : InImem(b)} |->
              w[(IF 2 \in a THEN 1 ELSE 0) + (IF 3 \in a THEN 2 ELSE 0)
                + (IF 7 \in a THEN 4 ELSE 0) + 1]]

(* The handler at word 4 goes back to word 3 or 6; a software interrupt    *)
(* arrives at word 7, a timer interrupt outside IMEM.                      *)
InterruptProgram == Code(<<
  CsrOp("csrrw", "mcountinhibit", {{0, 1}}), CsrOp("csrrw", "mtvec", {{7, 0}, {7, 1}}),
  CsrOp("csrrs", "mie", {{3, 7}, {0, 7, 11}}), CsrOp("csrrs", "mstatus", {{3, 11}}),
  CsrOp("csrrw", "mepc", {{3, 7}, {0, 2, 3}}), Op("mret"),
  Op("wfi"), Reads("mip") >>)

(* The handler at word 0 goes on anywhere.                                 *)
ExceptionProgram == Code(<<
  CsrOp("csrrw", "mcountinhibit", {{0}}),
  CsrOp("csrrw", "mepc", {{0, 2, 3}, {7}, {2, 3, 7}, {11}}),
  Op("mret"), Op("ecall"), Op("access"), Op("jump"),
  CsrOp("csrrc", "instret", {{0}}), Op("illegal") >>)

CounterProgram == Code(<<
  CsrOp("csrrw", "mcountinhibit", {{}, {0}, {0, 1, 2}}), CsrOp("csrrw", "minstret", {{0}}),
  CsrOp("csrrs", "minstreth", {{0, 2}}), CsrOp("csrrw", "mcycle", {{0}}),
  Op("alu"), Op("fence"), Reads("timeh"), Op("ebreak") >>)

MCPrograms == {InterruptProgram, ExceptionProgram, CounterProgram}
MCIrqs == [p \in MCPrograms |-> IF p = InterruptProgram
                                THEN { {}, {MSI, MTI}, {MEI} } ELSE {{}}]
=============================================================================
