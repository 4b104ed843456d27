------------------------------- MODULE Machine -------------------------------
(***************************************************************************)
(* The promise of the core to software: one instruction after the other,   *)
(* each executed completely at its own address, with precise traps and     *)
(* interrupts taken between two instructions.                              *)
(***************************************************************************)
EXTENDS MemoryMap

VARIABLES
  rom,    (* the program                                                    *)
  apc,    (* address of the next instruction                                *)
  aregs,  (* integer registers                                              *)
  amem,   (* data memory                                                    *)
  asent,  (* device writes performed, modulo SentLimit                      *)
  acsr    (* machine-mode registers                                         *)

machineVars == << rom, apc, aregs, amem, asent, acsr >>

Insn == rom[Low(apc)]
Runs(ops) == InImem(apc) /\ Insn.op \in ops
A == aregs[Insn.rs1]
B == aregs[Insn.rs2]
EA == Sum(A, Insn.target)

Set(rd, v) == [aregs EXCEPT ![rd] = IF rd = 0 THEN 0 ELSE v]

Compute ==
  /\ Runs({"alu", "addi", "mul", "div"})
  /\ aregs' = Set(Insn.rd, CASE Insn.op = "alu"  -> Sum(A, B)
                           [] Insn.op = "addi" -> EA
                           [] Insn.op = "mul"  -> Product(A, B)
                           [] Insn.op = "div"  -> Quotient(A, B))
  /\ apc' = Plus4(apc)
  /\ UNCHANGED << rom, amem, asent, acsr >>

Jump ==
  /\ Runs({"jal", "jalr"})
  /\ aregs' = Set(Insn.rd, Plus4(apc))
  /\ apc' = IF Insn.op = "jal" THEN Insn.target ELSE EA
  /\ UNCHANGED << rom, amem, asent, acsr >>

Branch ==
  /\ Runs({"branch"})
  /\ apc' = IF BranchTaken(A, B) THEN Insn.target ELSE Plus4(apc)
  /\ UNCHANGED << rom, aregs, amem, asent, acsr >>

Load ==
  /\ Runs({"load"})
  /\ ~BadRequest("load", EA)
  /\ \E v \in IF EA \in DataAddress THEN {amem[EA]} ELSE LoadValues :
       aregs' = Set(Insn.rd, v)
  /\ apc' = Plus4(apc)
  /\ UNCHANGED << rom, amem, asent, acsr >>

Store ==
  /\ Runs({"store"})
  /\ ~BadRequest("store", EA)
  /\ IF EA \in DataAddress
     THEN amem' = [amem EXCEPT ![EA] = B] /\ UNCHANGED asent
     ELSE asent' = (asent + 1) % SentLimit /\ UNCHANGED amem
  /\ apc' = Plus4(apc)
  /\ UNCHANGED << rom, aregs, acsr >>

Trap(why) ==
  /\ acsr' = AfterTrap(acsr, apc, why)
  /\ apc' = acsr.tvec
  /\ UNCHANGED << rom, aregs, amem, asent >>

AccessFault == Runs({"load", "store"}) /\ BadRequest(Insn.op, EA) /\ Trap("access")
Exception   == TrapCause(Insn, apc) # "none" /\ Trap(TrapCause(Insn, apc))
Interrupt   == acsr.mie /\ acsr.ie /\ Trap("interrupt")

ReadWriteCsr ==
  /\ Runs(CsrOps)
  /\ aregs' = Set(Insn.rd, CsrRead(acsr, Insn.op))
  /\ acsr' = CsrWrite(acsr, Insn.op, A)
  /\ apc' = Plus4(apc)
  /\ UNCHANGED << rom, amem, asent >>

Mret ==
  /\ Runs({"mret"})
  /\ acsr' = AfterMret(acsr)
  /\ apc' = acsr.epc
  /\ UNCHANGED << rom, aregs, amem, asent >>

Wfi ==
  /\ Runs({"wfi"})
  /\ apc' = Plus4(apc)
  /\ UNCHANGED << rom, aregs, amem, asent, acsr >>

(* Whatever the program. *)
MachineInit ==
  /\ apc = 0
  /\ aregs = [r \in Regs |-> 0]
  /\ amem = [a \in DataAddress |-> 0]
  /\ asent = 0
  /\ acsr = ResetCsr

MachineNext ==
  \/ Compute \/ Jump \/ Branch \/ Load \/ Store \/ ReadWriteCsr \/ Mret \/ Wfi
  \/ AccessFault \/ Exception \/ Interrupt

MachineSpec == MachineInit /\ [][MachineNext]_machineVars
=============================================================================
