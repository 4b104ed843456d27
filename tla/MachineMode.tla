---------------------------- MODULE MachineMode ----------------------------
(***************************************************************************)
(* The promise of the machine-mode registers to software: one instruction  *)
(* after the other, each counted once when it retires, with exceptions and *)
(* interrupts taken between two of them.  What ordinary instructions do    *)
(* besides moving the address on is left open; so are the cycle counter    *)
(* and the time.  A misaligned address is never executed from.             *)
(***************************************************************************)
EXTENDS CsrFile

CONSTANT Programs

VARIABLES
  prog,
  apc,     (* address of the next instruction                               *)
  acsr,    (* registers                                                     *)
  aresult, (* the word the last csr instruction delivered                   *)
  airq     (* interrupt sources that are pending                            *)

modeVars == << prog, apc, acsr, aresult >>

Runs(ops) == InImem(apc) /\ prog[apc].op \in ops
Open == {"mcycle", "mcycleh", "cycle", "cycleh", "time", "timeh"}

(* An instruction of the pipeline retires; it may have been a jump.        *)
Ordinary ==
  /\ Runs(PipelineOps)
  /\ acsr' = Retired(acsr) /\ apc' \in Address
  /\ UNCHANGED << prog, aresult >>

Trap(cause, tval) ==
  /\ acsr' = AfterTrap(acsr, apc, cause, tval)
  /\ apc' = Vector(acsr["mtvec"], cause)
  /\ UNCHANGED << prog, aresult >>

(* A data access, or a jump to a misaligned target, whatever it reports.   *)
Fault ==
  LET cause == acsr'["mcause"]
      tval  == acsr'["mtval"]
  IN /\ \/ Runs({"access"}) /\ cause \in AccessCauses /\ tval \in Word
        \/ Runs({"jump"}) /\ cause = Misaligned /\ tval \in Word \ Address
     /\ Trap(cause, tval)

FetchFails == ~InImem(apc) /\ Trap(FetchFault, apc)
Exception ==
  /\ Runs(SerialOps) /\ Raises(prog[apc].op)
  /\ Trap(Cause(prog[apc].op), Value(prog[apc], apc))

(* Of the pending and enabled sources the one of highest priority.         *)
Interrupt ==
  /\ InterruptPending(acsr, airq)
  /\ Trap(InterruptCause(Enabled(acsr, airq)), {})

Refuse ==
  /\ Runs(CsrOps) /\ Refused(prog[apc])
  /\ Trap(Illegal, prog[apc].word)

Access ==
  /\ Runs(CsrOps) /\ ~Refused(prog[apc])
  /\ LET in  == prog[apc]
         old == Read(acsr, airq, {}, in.csr)
     IN /\ IF in.csr \in Open THEN aresult' \in Word ELSE aresult' = old
        /\ IF Writes(in) /\ in.csr \in Control
           THEN \E v \in in.operands :
                  acsr' = Written(acsr, Retired(acsr), in.csr,
                                  NewValue(in, v, old))
           ELSE acsr' = Retired(acsr)
  /\ apc' = Plus4(apc)
  /\ UNCHANGED prog

Mret ==
  /\ Runs({"mret"})
  /\ acsr' = Retired(AfterMret(acsr)) /\ apc' = acsr["mepc"]
  /\ UNCHANGED << prog, aresult >>

Other ==
  /\ Runs({"wfi", "fence"})
  /\ acsr' = Retired(acsr) /\ apc' = Plus4(apc)
  /\ UNCHANGED << prog, aresult >>

ModeInit ==
  /\ prog \in Programs /\ apc = {}
  /\ acsr = [n \in Control |-> {}] /\ aresult = {}

ModeNext ==
  \/ Ordinary \/ Fault \/ FetchFails \/ Exception \/ Interrupt
  \/ Refuse \/ Access \/ Mret \/ Other

ModeSpec == ModeInit /\ [][ModeNext]_modeVars
=============================================================================
