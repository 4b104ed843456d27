--------------------------------- MODULE Rv ---------------------------------
(***************************************************************************)
(* The instruction set of the SXQ RV32IM core, reduced to what the         *)
(* pipeline's control can tell apart, and the architectural values its     *)
(* datapath moves.                                                         *)
(*                                                                         *)
(* Addresses are counted in instruction words.  IMEM holds Words words;    *)
(* the 32-bit address space is represented by twice that, so an address    *)
(* has an IMEM index (its low bits, all that the predictors and redirects  *)
(* carry) and one bit that stands for the upper address bits, whose being  *)
(* set makes a fetch fault.                                                *)
(***************************************************************************)
EXTENDS Integers

CONSTANTS
  Words,     (* words of IMEM: `IMEM_DEPTH_WORDS                            *)
  Regs,      (* architectural register numbers; register 0 reads as zero    *)
  Programs   (* the IMEM images considered                                  *)

Space == 2 * Words

Index   == 0 .. Words - 1
Address == 0 .. Space - 1

(* Instruction classes.  "illegal" is any word the decoder of              *)
(* privileged.v refuses, the all-zero word included.                       *)
CsrOps == { "csrstatus", "csrie", "csrtvec", "csrepc" }
Ops == { "alu", "addi", "mul", "div", "load", "store", "branch", "jal", "jalr",
         "ecall", "illegal", "mret", "wfi" } \cup CsrOps

Instruction ==
  [op : Ops, rd : Regs, rs1 : Regs, rs2 : Regs, target : Address]

ASSUME WordsAssumption == Words \in Nat \ {0}
ASSUME RegsAssumption  == Regs \subseteq Nat /\ 0 \in Regs
ASSUME ProgramsAssumption == Programs \subseteq [Index -> Instruction]

ZeroWord == [op |-> "illegal", rd |-> 0, rs1 |-> 0, rs2 |-> 0, target |-> 0]

(***************************************************************************)
(* Address arithmetic: pc + 4 and pc + 8 wrap with the address width; the  *)
(* low part of an address is what IMEM is indexed with.                    *)
(***************************************************************************)
(* Mutant: the address is a bit too wide. *)
Plus4NoWrap(a) == a + 1

Plus4(a) == IF a = Space - 1 THEN 0 ELSE a + 1
Plus8(a) == Plus4(Plus4(a))
Low(a)   == IF a < Words THEN a ELSE a - Words
InImem(a) == a < Words

(***************************************************************************)
(* What an instruction reads and writes (id.v).  A csr instruction is      *)
(* csrrw rd, csr, rs1.  The immediate of addi, load, store and jalr is the *)
(* field target.                                                           *)
(***************************************************************************)
UsesRs1(i) ==
  i.op \in {"alu", "addi", "mul", "div", "load", "store", "branch", "jalr"}
UsesRs2(i) == i.op \in {"alu", "mul", "div", "store", "branch"}
WritesRd(op) == op \in {"alu", "addi", "mul", "div", "load", "jal", "jalr"}
AccessesMemory(op) == op \in {"load", "store"}
IsJump(op) == op \in {"jal", "jalr"}

(* The instructions privileged.v takes out of the pipeline at ID.           *)
IsSerial(i, a) ==
  \/ i.op \in {"ecall", "illegal", "mret", "wfi"} \cup CsrOps
  \/ ~InImem(a)

(***************************************************************************)
(* Datapath results at the reduced width.  Division by zero yields the     *)
(* all-ones value (div_unit.v).  A branch compares for equality, which     *)
(* stands for the six comparisons of ex.v and mem_ctrl_resolve.v.          *)
(***************************************************************************)
Sum(a, b)      == (a + b) % Space
Product(a, b)  == (a * b) % Space
Quotient(a, b) == IF b = 0 THEN Space - 1 ELSE a \div b
BranchTaken(a, b) == a = b

(***************************************************************************)
(* The machine-mode registers of privileged.v that control flow depends on *)
(* (mstatus.MIE and .MPIE, mie, mtvec, mepc, mcause), and what a trap, an  *)
(* mret and a csrrw do to them.                                            *)
(***************************************************************************)
Causes == { "none", "interrupt", "fetch", "illegal", "ecall", "access" }
ResetCsr == [mie |-> FALSE, mpie |-> FALSE, ie |-> FALSE, tvec |-> 0,
             epc |-> 0, cause |-> "none"]
Csr == [mie : BOOLEAN, mpie : BOOLEAN, ie : BOOLEAN, tvec : Address,
        epc : Address, cause : Causes]

AfterTrap(c, a, why) ==
  [c EXCEPT !.mpie = c.mie, !.mie = FALSE, !.epc = a, !.cause = why]
AfterMret(c) == [c EXCEPT !.mie = c.mpie, !.mpie = TRUE]

Bit(b) == IF b THEN 1 ELSE 0
CsrRead(c, op) ==
  CASE op = "csrstatus" -> (Bit(c.mie) + 2 * Bit(c.mpie)) % Space
    [] op = "csrie"     -> Bit(c.ie)
    [] op = "csrtvec"   -> c.tvec
    [] op = "csrepc"    -> c.epc
CsrWrite(c, op, v) ==
  CASE op = "csrstatus" -> [c EXCEPT !.mie = v % 2 = 1,
                                     !.mpie = (v \div 2) % 2 = 1]
    [] op = "csrie"     -> [c EXCEPT !.ie = v % 2 = 1]
    [] op = "csrtvec"   -> [c EXCEPT !.tvec = v]
    [] op = "csrepc"    -> [c EXCEPT !.epc = v]

(* Why ID's instruction traps, or "none" (privileged.v, state IDLE).        *)
TrapCause(i, a) ==
  IF ~InImem(a) THEN "fetch"
  ELSE IF i.op \in {"illegal", "ecall"} THEN i.op
  ELSE "none"
=============================================================================
