------------------------------- MODULE MCCore -------------------------------
(***************************************************************************)
(* Model-checking instances of Core: short programs that bring the hazards *)
(* of the pipeline together, over a ROM of W words.                        *)
(***************************************************************************)
EXTENDS Core, Sequences

W == 6

Word(op, rd, a, b, t) == [op |-> op, rd |-> rd, rs1 |-> a, rs2 |-> b, target |-> t]
Addi(rd, a, t)  == Word("addi", rd, a, 0, t)
Alu(rd, a, b)   == Word("alu", rd, a, b, 0)
Mul(rd, a, b)   == Word("mul", rd, a, b, 0)
Div(rd, a, b)   == Word("div", rd, a, b, 0)
Lw(rd, a, t)    == Word("load", rd, a, 0, t)
Sw(b, a, t)     == Word("store", 0, a, b, t)
Beq(a, b, t)    == Word("branch", 0, a, b, t)
J(rd, t)        == Word("jal", rd, 0, 0, t)
Jr(rd, a, t)    == Word("jalr", rd, a, 0, t)
Sys(op)         == Word(op, 0, 0, 0, 0)
Csr_(op, rd, a) == Word(op, rd, a, 0, 0)

Image(code) ==
  [x \in 0 .. W - 1 |-> IF x < Len(code) THEN code[x + 1] ELSE ZeroWord]

(* The memory map: two data words, a device register, and unmapped space.  *)
D0 == W
D1 == W + 1
Device == W + 2
MCWords == W
MCRegs == 0 .. 2
MCRegion == [a \in 0 .. 2 * W - 1 |->
               IF a < W THEN "imem" ELSE IF a \in {D0, D1} THEN "dmem"
               ELSE IF a = Device THEN "mmio" ELSE "none"]
MCLoadValues == {1, 4}

(* Values through memory: load-use, load-to-store, forwarding, a device    *)
(* access in the middle, an access fault.                                  *)
UseOfLoad == { Alu(1, 2, 1), Alu(2, 1, 2), Sw(2, 0, D1), Lw(1, 2, D0 - 1),
               Beq(2, 1, 5), Div(1, 1, 2), Sw(1, 0, Device) }
DataPrograms ==
  { Image(<< Addi(1, 1, 1), Sw(1, 0, D0), Lw(2, 0, a), x, y, z >>) :
      a \in {D0, Device}, x \in UseOfLoad, y \in UseOfLoad,
      z \in {J(0, 0), Sw(1, 0, D1)} }

(* Control flow: branches and indirect jumps on values that are ready,     *)
(* forwarded or still being loaded, with every prediction, in every pair   *)
(* of slots; targets inside IMEM and, from word 3 on, outside.             *)
Steer == { Beq(1, 2, 5), Beq(2, 2, 1), Beq(1, 1, W + 1), Beq(2, 0, 0), Jr(2, 1, 3),
           Jr(1, 2, 2), J(2, 5), J(1, W + 2), Lw(2, 0, D0), Lw(1, 0, D1),
           Addi(1, 0, 4) }
ControlPrograms ==
  { Image(<< Sw(1, 0, D0), x, y, z, Addi(2, 1, 3), J(0, 0) >>) :
      x \in Steer, y \in Steer, z \in Steer }

Sensitive == { Sw(1, 0, D0), Sw(1, 0, Device), Lw(2, 0, Device), Sw(1, 0, 0),
               Lw(2, 0, D1 + 2), Beq(1, 2, 0), Sys("wfi"), Sys("ecall"),
               Div(2, 1, 1), Jr(2, 2, W), Csr_("csrepc", 2, 1),
               Csr_("csrtvec", 1, 2) }

(* Traps: a handler at word 0 or 4, mret, csr accesses, wfi, interrupts.   *)
TrapPrograms ==
  { Image(<< Addi(1, 0, 1), Csr_("csrie", 0, 1), Csr_("csrstatus", 2, a),
             x, y, Sys("mret") >>) :
      a \in {0, 1}, x \in Sensitive, y \in Sensitive }

(* Multiplications and divisions that follow each other, that wait behind  *)
(* a device access, and that are flushed half way by a branch resolved in  *)
(* EX or MEM.                                                              *)
Long == { Mul(1, 1, 1), Mul(2, 1, 2), Div(1, 1, 2), Div(2, 2, 1), Sw(2, 0, Device) }
LongPrograms ==
  { Image(<< Addi(1, 1, 3), Lw(2, 0, D0), c, x, y, J(0, 0) >>) :
      c \in {Beq(2, 1, 4), Beq(1, 1, 4), Jr(0, 0, 4)} \cup Long,
      x \in Long, y \in Long \ {Mul(2, 1, 2), Mul(1, 1, 1)} }

(* Constants in ROM read through the second fetch port, in straight-line   *)
(* code that a trap restarts.                                              *)
ImemPrograms ==
  { Image(<< Addi(1, 1, 1), Lw(2, 0, 3), x, y, Sw(2, 0, D0) >>) :
      x \in UseOfLoad \cup {Lw(1, 0, 4)}, y \in UseOfLoad \cup {Lw(1, 0, 4)} }

CorePrograms ==
  DataPrograms \cup LongPrograms \cup ControlPrograms \cup ImemPrograms
    \cup TrapPrograms

(* The multiplication at the target of a late-resolved branch starts while *)
(* the one behind the branch is still running.                             *)
MulAtLateTarget ==
  { Image(<< Addi(1, 0, 2), Lw(2, 0, D0), Beq(2, 0, 5), Mul(2, 1, 1), J(0, 3),
             Mul(1, 1, 0) >>) }

(* A ROM read in EX while the pair at a jump target stalls on a load.      *)
RomReadAtTarget ==
  { Image(<< Lw(1, 0, 0), J(0, 3), Sys("ecall"), Lw(2, 0, 1), Alu(1, 2, 2),
             Addi(1, 0, 2) >>) }

(* A ROM read in EX while a jump target is fetched that is a jump itself.  *)
RomReadAtJump ==
  { Image(<< Lw(2, 0, 0), J(1, 3), Sys("ecall"), Jr(1, 1, 1), Addi(2, 0, 1),
             Addi(2, 0, 2) >>) }

(* A branch in the last word of IMEM that is not taken.                    *)
BranchInLastWord ==
  { Image(<< Addi(1, 0, 1), J(0, 5), Sys("ecall"), Sys("ecall"), Sys("ecall"),
             Beq(1, 0, 0) >>) }
=============================================================================
