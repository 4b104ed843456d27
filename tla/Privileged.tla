----------------------------- MODULE Privileged -----------------------------
(***************************************************************************)
(* privileged.v in full: the machine-mode registers, the counters, traps,  *)
(* interrupts and wfi, with the pipeline of cpu.v around it reduced to     *)
(* what concerns it: which instructions are in EX, MEM and WB, which of    *)
(* them is on the wrong path, and what MEM reports.  Core has the          *)
(* data of the pipeline and two registers of this module; this module has  *)
(* the registers and the order of events.                                  *)
(*                                                                         *)
(* One action is one rising clock edge, and the interrupt lines may have   *)
(* any level in every cycle.                                               *)
(***************************************************************************)
EXTENDS CsrFile

CONSTANTS
  Programs,   (* contents of IMEM                                           *)
  Targets,    (* where jumps may go to                                      *)
  Faults,     (* cause and address of a data access that fails              *)
  Irqs,       (* for each program the levels of the interrupt lines, as the *)
              (* sources that are up                                        *)
  Times       (* what time may read as                                      *)

ASSUME PrivilegedAssumption ==
  /\ \A p \in Programs :
       DOMAIN p = {a \in Address : InImem(a)} /\ \A a \in DOMAIN p : p[a] \in Instruction
  /\ Targets \subseteq SUBSET (Bits \ {0})
  /\ Faults \subseteq AccessCauses \X Word
  /\ Irqs \in [Programs -> SUBSET SUBSET Sources] /\ Times \subseteq Word

VARIABLES
  prog,
  idValid, idPc,       (* ID, or the address it gets next                   *)
  ex, mem, wb,         (* the instructions behind ID                        *)
  state, pc_q, src_q, cause_q, tval_q, redirect_pc,
  csr,                 (* the registers                                     *)
  rd,                  (* history: the last word given to regs.v            *)
  irq,                 (* the interrupt lines in this cycle                 *)
  seen                 (* history: irq when an interrupt was latched       *)

pipeline == << idValid, idPc, ex, mem, wb >>
latched  == << pc_q, src_q, cause_q, tval_q >>
privVars == << prog, pipeline, state, latched, redirect_pc, csr, rd, irq, seen >>

(* late: resolved in MEM; wrong: the front end did not follow it.          *)
None == [valid |-> FALSE, pc |-> {}, op |-> "alu", taken |-> FALSE,
         target |-> {}, late |-> FALSE, wrong |-> FALSE]

Low(a) == a \ HighBits
Next(s) == Low(IF s.taken THEN s.target ELSE Plus4(s.pc))

(***************************************************************************)
(* ID: the decoder's verdict and the stop of cpu.v.                        *)
(***************************************************************************)
(* IMEM ignores the other bits of the address.                             *)
IdWord == prog[Low(Align(idPc))]
fetch_fault == ~InImem(idPc)
fetch_misaligned == idPc \cap {0, 1} # {}
serial ==
  fetch_fault \/ fetch_misaligned \/ IdWord.op \in SerialOps
interrupt_pending == InterruptPending(csr, irq)

id_stop == state # "IDLE" \/ (idValid /\ (serial \/ interrupt_pending))

(***************************************************************************)
(* MEM: faults and jumps that leave IMEM.                                  *)
(***************************************************************************)
(* Mutant: misaligned targets are not detected. *)
TargetNeverBad == FALSE

mem_target_bad == mem.valid /\ mem.taken /\ 1 \in mem.target
mem_far_redirect ==
  mem.valid /\ mem.taken /\ ~mem_target_bad /\ ~InImem(mem.target)
mem_ctrl_mispredict == mem.valid /\ mem.late /\ mem.wrong
ex_mispredict == ex.valid /\ ~ex.late /\ ex.wrong

older_empty == ~ex.valid /\ ~mem.valid /\ ~wb.valid

(***************************************************************************)
(* What every edge does: the counters count, the lines change.             *)
(***************************************************************************)
(* Mutant: an instruction that traps in EXEC counts. *)
SystemRetireAlways == state = "EXEC"

system_retire ==
  state = "EXEC" /\ ~(prog[pc_q].op \in CsrOps /\ Refused(prog[pc_q]))

Counted ==
  IF wb.valid \/ system_retire THEN Retired(Ticked(csr)) ELSE Ticked(csr)

Lines == irq' \in Irqs[prog]
Flush(a) == idValid' = FALSE /\ idPc' = a
Squash == ex' = None /\ mem' = None

(***************************************************************************)
(* Edges with the slow path idle: the pipeline moves.                      *)
(***************************************************************************)
Idle == state = "IDLE" /\ ~mem_target_bad /\ ~mem_far_redirect
Pipeline ==
  /\ csr' = Counted /\ Lines
  /\ UNCHANGED << prog, state, latched, redirect_pc, rd, seen >>

(* What a word of IMEM does when it is executed, and what the front end    *)
(* assumed: after a jump it may have gone on to any predicted target.      *)
Decoded(op, p) ==
  IF op # "jump"
  THEN {[valid |-> TRUE, pc |-> idPc, op |-> op, taken |-> FALSE, target |-> {},
         late |-> FALSE, wrong |-> FALSE]}
  ELSE {[valid |-> TRUE, pc |-> idPc, op |-> op, taken |-> taken, target |-> target,
         late |-> late,
         wrong |-> p # IF taken THEN Low(target) ELSE Plus4(idPc)]
        : taken \in BOOLEAN, target \in Targets, late \in BOOLEAN}
Predicted(op) ==
  {Plus4(idPc)} \cup (IF op = "jump" THEN {Low(t) : t \in Targets} ELSE {})

(* Every instruction moves on; ID gets the next word or a bubble.          *)
Advance(next) ==
  /\ Idle /\ ~mem_ctrl_mispredict /\ ~ex_mispredict
  /\ ~(idValid /\ id_stop /\ older_empty)
  /\ wb' = mem /\ mem' = ex
  /\ IF idValid /\ ~id_stop
     THEN LET op == IdWord.op
          IN \E p \in Predicted(op) :
               /\ idPc' = p /\ ex' \in Decoded(op, p)
               /\ idValid' = next
     ELSE /\ ex' = None /\ idPc' = idPc
          /\ idValid' = IF idValid THEN TRUE ELSE next
  /\ Pipeline

(* The bus has no answer yet.                                              *)
Wait ==
  /\ state = "IDLE" /\ mem.valid /\ mem.op = "access"
  /\ wb' = None
  /\ UNCHANGED << idValid, idPc, ex, mem >> /\ Pipeline

(* The multiplier or the divider holds EX.                                 *)
ExecuteHold ==
  /\ Idle /\ ~mem_ctrl_mispredict /\ ex.valid /\ ex.op = "alu"
  /\ wb' = mem /\ mem' = None
  /\ UNCHANGED << idValid, idPc, ex >> /\ Pipeline

Resolve ==
  /\ Idle /\ ~mem_ctrl_mispredict /\ ex_mispredict
  /\ wb' = mem /\ mem' = ex /\ ex' = None
  /\ Flush(Next(ex)) /\ Pipeline

ResolveLate ==
  /\ Idle /\ mem_ctrl_mispredict
  /\ wb' = mem /\ Squash
  /\ Flush(Next(mem)) /\ Pipeline

(* MEM reports a fault: the instruction and all younger ones vanish.       *)
Exception(cause, tval) ==
  /\ pc_q' = mem.pc /\ cause_q' = cause /\ tval_q' = tval /\ state' = "TRAP"
  /\ wb' = None /\ Squash /\ Flush(idPc)
  /\ csr' = Counted /\ Lines
  /\ UNCHANGED << prog, src_q, redirect_pc, rd, seen >>

DataFault ==
  /\ state = "IDLE" /\ mem.valid /\ mem.op = "access"
  /\ \E f \in Faults : Exception(f[1], f[2])

BadTarget == state = "IDLE" /\ mem_target_bad /\ Exception(Misaligned, mem.target)

FarRedirect ==
  /\ state = "IDLE" /\ mem_far_redirect
  /\ redirect_pc' = mem.target /\ state' = "REDIRECT"
  /\ wb' = mem /\ Squash /\ Flush(idPc)
  /\ csr' = Counted /\ Lines
  /\ UNCHANGED << prog, latched, rd, seen >>

(***************************************************************************)
(* Edges of the slow path.                                                 *)
(***************************************************************************)
Slow == csr' = Counted /\ Lines /\ UNCHANGED << prog, idValid, idPc, ex, mem >>
Latch(pc, cause, tval) == pc_q' = pc /\ cause_q' = cause /\ tval_q' = tval
TakeInterrupt(pc) ==
  /\ Latch(pc, InterruptCause(Enabled(csr, irq)), {})
  /\ seen' = irq /\ state' = "TRAP"

(* A serial instruction or an interrupt enters behind an empty pipeline.   *)
(* rs1 is read now; for what is not a csr instruction it does not matter.  *)
Enter ==
  /\ Idle /\ idValid /\ id_stop /\ older_empty
  /\ wb' = None
  /\ src_q' \in IF IdWord.op \in CsrOps THEN IdWord.operands ELSE {{}}
  /\ \/ interrupt_pending /\ TakeInterrupt(idPc)
     \/ /\ ~interrupt_pending
        /\ IF fetch_misaligned THEN Latch(idPc, Misaligned, idPc) /\ state' = "TRAP"
           ELSE IF fetch_fault THEN Latch(idPc, FetchFault, idPc) /\ state' = "TRAP"
           ELSE IF Raises(IdWord.op)
           THEN Latch(idPc, Cause(IdWord.op), Value(IdWord, idPc)) /\ state' = "TRAP"
           ELSE pc_q' = idPc /\ state' = "EXEC" /\ UNCHANGED << cause_q, tval_q >>
        /\ UNCHANGED seen
  /\ Slow /\ UNCHANGED << redirect_pc, rd >>

Executes(ops) == state = "EXEC" /\ prog[pc_q].op \in ops
Behind == redirect_pc' = Plus4(pc_q)
Done == state' = "REDIRECT" /\ wb' = None

ExecCsr ==
  /\ Executes(CsrOps) /\ ~Refused(prog[pc_q])
  /\ \E time \in Times :
       LET in  == prog[pc_q]
           old == Read(csr, irq, time, in.csr)
       IN /\ rd' = old
          /\ csr' = IF Writes(in) /\ in.csr \in Stored
                    THEN Written(csr, Counted, in.csr, NewValue(in, src_q, old))
                    ELSE Counted
  /\ Behind /\ Done /\ Lines
  /\ UNCHANGED << prog, idValid, idPc, ex, mem, latched, seen >>

ExecRefused ==
  /\ Executes(CsrOps) /\ Refused(prog[pc_q])
  /\ cause_q' = Illegal /\ tval_q' = prog[pc_q].word
  /\ state' = "TRAP" /\ wb' = None
  /\ Behind /\ Slow /\ UNCHANGED << pc_q, src_q, rd, seen >>

ExecMret ==
  /\ Executes({"mret"})
  /\ csr' = AfterMret(Counted)
  /\ redirect_pc' = csr["mepc"] /\ Done /\ Lines
  /\ UNCHANGED << prog, idValid, idPc, ex, mem, latched, rd, seen >>

ExecWfi ==
  /\ Executes({"wfi"})
  /\ state' = "SLEEP" /\ wb' = None
  /\ Behind /\ Slow /\ UNCHANGED << latched, rd, seen >>

ExecFence ==
  /\ Executes({"fence"})
  /\ Behind /\ Done /\ Slow /\ UNCHANGED << latched, rd, seen >>

EnterTrap ==
  /\ state = "TRAP"
  /\ csr' = AfterTrap(Counted, pc_q, cause_q, tval_q)
  /\ redirect_pc' = Vector(csr["mtvec"], cause_q)
  /\ seen' = {} /\ Done /\ Lines
  /\ UNCHANGED << prog, idValid, idPc, ex, mem, latched, rd >>

Redirect ==
  /\ state = "REDIRECT"
  /\ state' = "IDLE" /\ wb' = None /\ Squash
  /\ Flush(redirect_pc)
  /\ csr' = Counted /\ Lines
  /\ UNCHANGED << prog, latched, redirect_pc, rd, seen >>

(* Mutant: wfi waits for an interrupt that can be taken. *)
WakePendingMIE == interrupt_pending

wake_pending == Enabled(csr, irq) # {}

Sleep ==
  /\ state = "SLEEP" /\ ~wake_pending
  /\ wb' = None
  /\ Slow /\ UNCHANGED << state, latched, redirect_pc, rd, seen >>

WakeUp ==
  /\ state = "SLEEP" /\ wake_pending
  /\ IF interrupt_pending
     THEN TakeInterrupt(Plus4(pc_q)) /\ UNCHANGED << src_q, redirect_pc >>
     ELSE Behind /\ state' = "REDIRECT" /\ UNCHANGED << latched, seen >>
  /\ wb' = None
  /\ Slow /\ UNCHANGED rd

(***************************************************************************)
(* The specification.                                                      *)
(***************************************************************************)
PrivInit ==
  /\ prog \in Programs
  /\ idValid = FALSE /\ idPc = {}
  /\ ex = None /\ mem = None /\ wb = None
  /\ state = "IDLE" /\ pc_q = {} /\ src_q = {} /\ cause_q = {} /\ tval_q = {}
  /\ redirect_pc = {}
  /\ csr = [n \in Stored |-> {}]
  /\ rd = {} /\ irq \in Irqs[prog] /\ seen = {}

Reports == Resolve \/ ResolveLate \/ BadTarget \/ FarRedirect
SlowPath ==
  \/ Enter \/ ExecCsr \/ ExecRefused \/ ExecMret \/ ExecWfi \/ ExecFence
  \/ EnterTrap \/ Redirect \/ WakeUp

PrivNext ==
  \/ Advance(TRUE) \/ Advance(FALSE) \/ Wait \/ ExecuteHold
  \/ DataFault \/ Reports \/ SlowPath \/ Sleep

PrivSpec == PrivInit /\ [][PrivNext]_privVars

(* The bus answers, the multiplier and the divider finish, the front end   *)
(* delivers the next word.                                                 *)
FairPrivSpec ==
  /\ PrivSpec
  /\ WF_privVars(Advance(TRUE) \/ Reports) /\ WF_privVars(SlowPath)

(***************************************************************************)
(* Properties.                                                             *)
(***************************************************************************)
Slot == [valid : BOOLEAN, pc : Address, op : PipelineOps, taken : BOOLEAN,
         target : Word, late : BOOLEAN, wrong : BOOLEAN]

(* Types; every register holds a legal value whatever software wrote.      *)
PrivTypeOK ==
  /\ prog \in Programs /\ idValid \in BOOLEAN /\ idPc \in Word
  /\ ex \in Slot /\ mem \in Slot /\ wb \in Slot
  /\ state \in {"IDLE", "EXEC", "TRAP", "REDIRECT", "SLEEP"}
  /\ pc_q \in Word /\ src_q \in Word /\ cause_q \in Word /\ tval_q \in Word
  /\ redirect_pc \in Address
  /\ csr \in [Stored -> Word]
  /\ csr["mstatus"] \subseteq {3, 7} /\ csr["mie"] \subseteq Sources
  /\ 1 \notin csr["mtvec"] /\ csr["mcountinhibit"] \subseteq {0, 2}
  /\ csr["mepc"] \in Address /\ \A n \in Halves : csr[n] \subseteq CounterBits
  /\ rd \in Word /\ irq \in Irqs[prog] /\ seen \in Irqs[prog] \cup {{}}

(* ID may see a misaligned address, of a jump whose target is bad and was  *)
(* predicted, but the slow path never starts there: the jump faults first, *)
(* so mepc loses nothing when its low bits are cleared.                    *)
AlignedSlowPath == pc_q \in Address

(* The registers behave as if every instruction were executed on its own,  *)
(* and every trap came between two of them: mepc is exactly the first      *)
(* instruction that did not retire, minstret counts each retired one once. *)
M == INSTANCE MachineMode WITH
       apc <- IF wb.valid THEN wb.pc
              ELSE IF state \in {"EXEC", "TRAP"} THEN pc_q
              ELSE IF state = "REDIRECT" THEN redirect_pc
              ELSE IF state = "SLEEP" THEN Plus4(pc_q)
              ELSE IF mem.valid THEN mem.pc
              ELSE IF ex.valid THEN ex.pc ELSE idPc,
       acsr <- [n \in Control |-> csr[n]],
       aresult <- rd,
       airq <- IF state = "TRAP" THEN seen ELSE irq

ImplementsMachineMode == M!ModeSpec

(* An enabled interrupt is taken unless it goes away or is disabled first, *)
(* and wfi ends on an enabled source even when interrupts are off.         *)
Pending == Enabled(csr, irq)
InterruptsServed ==
  /\ (MIE(csr) /\ Pending # {}) ~> (state = "TRAP" \/ ~MIE(csr) \/ Pending = {})
  /\ (state = "SLEEP" /\ Pending # {}) ~> (state # "SLEEP" \/ Pending = {})
=============================================================================
