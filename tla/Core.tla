-------------------------------- MODULE Core --------------------------------
(***************************************************************************)
(* The whole in-order pipeline of cpu.v: the front end of Fetch, operand   *)
(* forwarding into ID, the ID/EX, EX/MEM and MEM/WB registers, the         *)
(* multiplier and divider handshakes, the late resolution of branches that *)
(* depend on a load, the one-outstanding-request bus and the slow path of  *)
(* privileged.v.                                                           *)
(*                                                                         *)
(* One action is one rising clock edge; the actions differ in what the     *)
(* global control of cpu.v lets the front end do on it.  Combinational     *)
(* wires are operators.  irq is the level of "some enabled interrupt       *)
(* source is pending" sampled in the cycle, v the value a ROM or device    *)
(* read returns in it, p0 and p1 the predictions of the two IF slots.      *)
(***************************************************************************)
EXTENDS Fetch, MemoryMap

CONSTANTS
  DivSteps,    (* iterations of the divider: 32 in div_unit.v               *)
  Interrupts   (* the values the interrupt lines may take                   *)

ASSUME DivStepsAssumption == DivSteps \in Nat \ {0}
ASSUME InterruptsAssumption == Interrupts \subseteq BOOLEAN /\ FALSE \in Interrupts

VARIABLES
  ex,        (* ID/EX register                                              *)
  mem,       (* EX/MEM register                                             *)
  wb,        (* MEM/WB register                                             *)
  regs,      (* regs.v                                                      *)
  mul,       (* mul_unit.v: busy, latency counter, ready, last product      *)
  div,       (* div_unit.v: cycles left, ready, last quotient               *)
  bus,       (* bus_interconnect.v and the slaves' acknowledge registers    *)
  dmem,      (* data memory                                                 *)
  sent,      (* device writes performed, modulo SentLimit                   *)
  sys,       (* privileged.v: state and latched instruction                 *)
  csr        (* privileged.v: machine-mode registers                        *)

backVars == << ex, mem, wb, regs, mul, div, bus, dmem, sent >>
coreVars == << fetchVars, backVars, sys, csr >>

(* Empty pipeline registers, as reset and flush leave them.                *)
NoEx == [valid |-> FALSE, pc |-> 0, op |-> "alu", rd |-> 0, a |-> 0, b |-> 0,
         data |-> 0, target |-> 0, taken |-> FALSE, ptarget |-> 0,
         dep1 |-> FALSE, dep2 |-> FALSE]
NoMem == [valid |-> FALSE, pc |-> 0, op |-> "alu", rd |-> 0, result |-> 0,
          addr |-> 0, target |-> 0, jumped |-> FALSE, taken |-> FALSE,
          ptarget |-> 0, dep1 |-> FALSE, dep2 |-> FALSE, other |-> 0,
          old |-> 0]
NoWb == [valid |-> FALSE, pc |-> 0, op |-> "alu", rd |-> 0, value |-> 0,
         addr |-> 0, old |-> 0]
IdleBus == [pending |-> FALSE, kind |-> "none", write |-> FALSE, age |-> 0,
            data |-> 0]

(***************************************************************************)
(* Operands: forwarding.v, youngest producer first.                        *)
(***************************************************************************)
Jumps(s)   == s.valid /\ IsJump(s.op)
Defers(s)  == s.dep1 \/ s.dep2
ExAddr     == Sum(ex.a, ex.b)
ExResult ==
  CASE IsJump(ex.op)   -> Plus4(ex.pc)
    [] ex.op = "mul"   -> mul.product
    [] ex.op = "div"   -> div.quotient
    [] OTHER           -> ExAddr
MemData(v) == IF mem.op = "load" THEN v ELSE mem.result

ExecuteHold ==
  (ex.op = "mul" /\ ~mul.ready) \/ (ex.op = "div" /\ ~div.ready)
MemAccess == mem.valid /\ AccessesMemory(mem.op)
BusAck    == bus.pending /\ (bus.kind = "mmio" => bus.age = 1)
(* Mutant: no request in the cycle of an answer. *)
BusReadyIdle == ~bus.pending

BusReady  == ~bus.pending \/ BusAck
MemWait   == MemAccess /\ ~BusAck
MemFault  == MemAccess /\ BusAck /\ bus.kind = "error"
MemoryHold == MemWait \/ MemFault
Hold      == ExecuteHold \/ MemoryHold \/ sysBusy
MemRetire == mem.valid /\ ~MemoryHold /\ ~sysBusy

Produces(s, r) == s.valid /\ WritesRd(s.op) /\ s.rd = r /\ r # 0
(* Mutant: the older producer wins. *)
ForwardOlder(r, v) ==
  IF MemRetire /\ Produces(mem, r) THEN MemData(v)
  ELSE IF Produces(ex, r) THEN ExResult
  ELSE IF Produces(wb, r) THEN wb.value
  ELSE regs[r]

Forward(r, v) ==
  IF Produces(ex, r) THEN ExResult
  ELSE IF MemRetire /\ Produces(mem, r) THEN MemData(v)
  ELSE IF Produces(wb, r) THEN wb.value
  ELSE regs[r]

(* What the read data bus may carry in this cycle: ROM words and device    *)
(* registers are not modelled, data memory is.                             *)
ReadData ==
  IF BusAck /\ ~bus.write /\ bus.kind \in {"imem", "mmio"} THEN LoadValues
  ELSE {bus.data}

(***************************************************************************)
(* Hazards: ctrl_late_detect.v.  A branch or jalr goes on to EX without    *)
(* the value of a load right before it; everybody else waits a cycle.      *)
(***************************************************************************)
LoadInEx(r) == ex.valid /\ ex.op = "load" /\ ex.rd = r /\ r # 0
LateRs1 == IdWord.op \in {"branch", "jalr"} /\ LoadInEx(IdWord.rs1)
LateRs2 == IdWord.op = "branch" /\ LoadInEx(IdWord.rs2)
HazardStall ==
  /\ \/ UsesRs1(IdWord) /\ LoadInEx(IdWord.rs1)
     \/ UsesRs2(IdWord) /\ LoadInEx(IdWord.rs2)
  /\ ~LateRs1 /\ ~LateRs2

InterruptPending(irq) == csr.mie /\ csr.ie /\ irq
SysStop(irq) ==
  sysBusy \/ (IdValid /\ (IsSerial(IdWord, IdPc) \/ InterruptPending(irq)))
Stalled(irq) == HazardStall \/ SysStop(irq)

(***************************************************************************)
(* Control resolution: in EX, or in MEM when a deferred operand was        *)
(* loaded (mem_ctrl_resolve.v), and jumps that leave IMEM.                 *)
(***************************************************************************)
ExTarget == IF IsJump(ex.op) THEN ExAddr ELSE ex.target
ExJumps ==
  /\ ex.valid /\ ~Defers(ex)
  /\ IsJump(ex.op) \/ (ex.op = "branch" /\ BranchTaken(ex.a, ex.b))
ExMispredict ==
  /\ ex.valid /\ ~Defers(ex)
  /\ \/ ex.op = "branch" /\ (ex.taken # ExJumps)
     \/ ex.op = "branch" /\ ExJumps /\ ex.taken /\ ex.ptarget # Low(ex.target)
     \/ IsJump(ex.op) /\ (ex.taken => ex.ptarget # Low(ExAddr))
ExRedirect == IF ExJumps THEN Low(ExTarget) ELSE Low(Plus4(ex.pc))

LateTarget ==
  IF mem.op = "jalr" THEN Sum(wb.value, mem.other) ELSE mem.target
LateJumps ==
  \/ mem.op = "jalr"
  \/ mem.dep1 /\ mem.dep2
  \/ BranchTaken(wb.value, mem.other)
LateResolves == mem.valid /\ Defers(mem)
LateMispredict ==
  /\ LateResolves
  /\ \/ mem.taken # LateJumps
     \/ mem.taken /\ LateJumps /\ mem.ptarget # Low(LateTarget)
LateRedirect == IF LateJumps THEN Low(LateTarget) ELSE Low(Plus4(mem.pc))

MemJumps  == IF Defers(mem) THEN LateJumps ELSE mem.jumped
MemTarget == IF Defers(mem) THEN LateTarget ELSE mem.target
FarRedirect == mem.valid /\ MemJumps /\ ~InImem(MemTarget)

(* Mutant: EX repeats its request while it is held. *)
ExFireHeld == ex.valid /\ ~sysBusy /\ ~LateMispredict /\ ~FarRedirect

ExFire == ex.valid /\ ~Hold /\ ~LateMispredict /\ ~FarRedirect
Resolve ==
  /\ ~MemFault /\ ~FarRedirect /\ ~sysBusy
  /\ LateMispredict \/ (ExFire /\ ExMispredict)
ResolveTarget == IF LateMispredict THEN LateRedirect ELSE ExRedirect

SysFlush == sys.state = "REDIRECT" \/ MemFault \/ FarRedirect
Flush    == Resolve \/ SysFlush
Block(irq) == Stalled(irq) \/ Hold

BusStrobe  == ExFire /\ AccessesMemory(ex.op)
BusAccept  == BusStrobe /\ BusReady
ImemBusRead == /\ BusAccept /\ ex.op = "load" /\ Region[ExAddr] = "imem"

(***************************************************************************)
(* The registers behind ID.                                                *)
(***************************************************************************)
Decode(slot, v) ==
  LET w == slot.word
      x == Forward(w.rs1, v)
      y == Forward(w.rs2, v)
  IN [valid |-> slot.valid, pc |-> slot.pc, op |-> w.op, rd |-> w.rd,
      a |-> IF w.op = "jal" THEN 0 ELSE x,
      b |-> IF w.op \in {"alu", "mul", "div", "branch"} THEN y ELSE w.target,
      data |-> IF w.op = "store" THEN y ELSE 0,
      target |-> w.target,
      taken |-> slot.taken, ptarget |-> slot.target,
      dep1 |-> LateRs1, dep2 |-> LateRs2]

NextEx(irq, v, slot) ==
  IF Flush THEN NoEx
  ELSE IF Hold THEN ex
  ELSE IF Stalled(irq)
       THEN [ex EXCEPT !.valid = FALSE, !.taken = FALSE,
                       !.dep1 = FALSE, !.dep2 = FALSE]
  ELSE Decode(slot, v)

NextMem ==
  IF LateMispredict \/ SysFlush THEN NoMem
  ELSE IF MemoryHold \/ sysBusy THEN mem
  ELSE IF ExecuteHold \/ ~ex.valid THEN NoMem
  ELSE [valid |-> TRUE, pc |-> ex.pc, op |-> ex.op, rd |-> ex.rd,
        result |-> ExResult, addr |-> ExAddr, target |-> ExTarget,
        jumped |-> ExJumps, taken |-> ex.taken, ptarget |-> ex.ptarget,
        dep1 |-> ex.dep1, dep2 |-> ex.dep2,
        other |-> IF ex.dep1 THEN ex.b ELSE ex.a,
        old |-> IF ExAddr \in DataAddress THEN dmem[ExAddr] ELSE 0]

NextWb(v) ==
  IF MemRetire
  THEN [valid |-> TRUE, pc |-> mem.pc, op |-> mem.op, rd |-> mem.rd,
        value |-> MemData(v), addr |-> mem.addr, old |-> mem.old]
  ELSE NoWb

(* Mutant: x0 can be written. *)
NextRegsZero ==
  IF sys.state = "EXEC" /\ sys.op \in CsrOps
  THEN [regs EXCEPT ![sys.rd] = CsrRead(csr, sys.op)]
  ELSE IF wb.valid /\ WritesRd(wb.op) THEN [regs EXCEPT ![wb.rd] = wb.value]
  ELSE regs

NextRegs ==
  IF sys.state = "EXEC" /\ sys.op \in CsrOps /\ sys.rd # 0
  THEN [regs EXCEPT ![sys.rd] = CsrRead(csr, sys.op)]
  ELSE IF wb.valid /\ WritesRd(wb.op)
  THEN [regs EXCEPT ![wb.rd] = IF wb.rd = 0 THEN 0 ELSE wb.value]
  ELSE regs

(* The multiplier and the divider start while their instruction is in ID.  *)
(* A busy multiplier ignores the start; the divider starts over.           *)
Preload(op, irq) ==
  /\ IdWord.op = op /\ InImem(IdPc)
  /\ ~HazardStall /\ ~InterruptPending(irq) /\ ~Flush /\ ~Hold

(* Mutant: ready stays set while the next multiplication starts. *)
NextMulReady(irq, v) ==
  IF Preload("mul", irq) /\ ~mul.busy
  THEN [mul EXCEPT !.busy = TRUE, !.count = 2,
          !.product = Product(Forward(IdWord.rs1, v), Forward(IdWord.rs2, v))]
  ELSE IF mul.busy /\ mul.count = 0
  THEN [mul EXCEPT !.busy = FALSE, !.ready = TRUE]
  ELSE IF mul.busy THEN [mul EXCEPT !.count = @ - 1]
  ELSE mul

NextMul(irq, v) ==
  IF Preload("mul", irq) /\ ~mul.busy
  THEN [busy |-> TRUE, count |-> 2, ready |-> FALSE,
        product |-> Product(Forward(IdWord.rs1, v), Forward(IdWord.rs2, v))]
  ELSE IF mul.busy /\ mul.count = 0
  THEN [mul EXCEPT !.busy = FALSE, !.ready = TRUE]
  ELSE IF mul.busy THEN [mul EXCEPT !.count = @ - 1]
  ELSE mul

NextDiv(irq, v) ==
  IF Preload("div", irq)
  THEN LET y == Forward(IdWord.rs2, v)
       IN [left |-> IF y = 0 THEN 2 ELSE DivSteps + 3, ready |-> FALSE,
           quotient |-> Quotient(Forward(IdWord.rs1, v), y)]
  ELSE IF div.left > 0
  THEN [div EXCEPT !.left = @ - 1, !.ready = (div.left = 1)]
  ELSE div

NextBus ==
  IF BusAccept
  THEN [pending |-> TRUE, age |-> 0, write |-> ex.op = "store",
        kind |-> IF BadRequest(ex.op, ExAddr) THEN "error" ELSE Region[ExAddr],
        data |-> IF ex.op = "load" /\ ExAddr \in DataAddress
                 THEN dmem[ExAddr] ELSE 0]
  ELSE IF BusAck THEN IdleBus
  ELSE IF bus.pending THEN [bus EXCEPT !.age = 1]
  ELSE bus

NextDmem ==
  IF BusAccept /\ ex.op = "store" /\ ExAddr \in DataAddress
  THEN [dmem EXCEPT ![ExAddr] = ex.data] ELSE dmem

DeviceWrites == bus.pending /\ bus.kind = "mmio" /\ bus.write /\ bus.age = 0

Back(irq, v, slot) ==
  /\ ex' = NextEx(irq, v, slot)
  /\ mem' = NextMem
  /\ wb' = NextWb(v)
  /\ regs' = NextRegs
  /\ mul' = NextMul(irq, v)
  /\ div' = NextDiv(irq, v)
  /\ bus' = NextBus
  /\ dmem' = NextDmem
  /\ sent' = IF DeviceWrites THEN (sent + 1) % SentLimit ELSE sent

(***************************************************************************)
(* Clock edges.                                                            *)
(***************************************************************************)
(* Mutant: a serial instruction does not wait for MEM and WB. *)
OlderEmptyEx == ~ex.valid

OlderEmpty == ~ex.valid /\ ~mem.valid /\ ~wb.valid
TakesSystem(irq) ==
  /\ sys.state = "IDLE" /\ ~MemFault /\ ~FarRedirect /\ ~Resolve
  /\ IdValid /\ SysStop(irq) /\ OlderEmpty

(* ID issues (or sends a bubble down) and every stage moves.               *)
IssueEdge(irq, v) ==
  /\ ~Flush /\ ~Block(irq)
  /\ \E p0 \in Predictions(IfWord), p1 \in Predictions(PreWord) :
       Advance(ImemBusRead, p0, p1) /\ Back(irq, v, IdSlot(p0))
  /\ UNCHANGED << sys, csr >>

(* A load-use hazard, the multiplier, the divider or the bus holds ID.     *)
StallEdge(irq, v) ==
  /\ ~Flush /\ Block(irq) /\ ~TakesSystem(irq)
  /\ Stall(ImemBusRead) /\ Back(irq, v, Bubble)
  /\ UNCHANGED << sys, csr >>

(* EX or MEM finds that the front end followed the wrong path.             *)
MispredictEdge(irq, v) ==
  /\ Resolve
  /\ Mispredict(ResolveTarget, Block(irq)) /\ Back(irq, v, Bubble)
  /\ UNCHANGED << sys, csr >>

(* A load or store was answered with an error.                             *)
FaultEdge(irq, v) ==
  /\ MemFault
  /\ \E p0 \in Predictions(IfWord), p1 \in Predictions(PreWord) :
       Squash(Block(irq), p0, p1)
  /\ Back(irq, v, Bubble)
  /\ sys' = [sys EXCEPT !.state = "TRAP", !.pc = mem.pc, !.cause = "access"]
  /\ UNCHANGED csr

(* A taken jump leaves IMEM: its full target goes through the slow path.   *)
FarEdge(irq, v) ==
  /\ FarRedirect
  /\ \E p0 \in Predictions(IfWord), p1 \in Predictions(PreWord) :
       Squash(Block(irq), p0, p1)
  /\ Back(irq, v, Bubble)
  /\ sys' = [sys EXCEPT !.state = "REDIRECT", !.redirect = MemTarget]
  /\ UNCHANGED csr

(* The pipeline has drained in front of a serial instruction or a pending  *)
(* interrupt: privileged.v takes over.                                     *)
EnterEdge(irq, v) ==
  /\ TakesSystem(irq)
  /\ EnterSystem /\ Back(irq, v, Bubble)
  /\ LET why == IF InterruptPending(irq) THEN "interrupt"
                ELSE TrapCause(IdWord, IdPc)
     IN sys' = [sys EXCEPT !.state = IF why = "none" THEN "EXEC" ELSE "TRAP",
                           !.pc = IdPc, !.op = IdWord.op, !.rd = IdWord.rd,
                           !.src = Forward(IdWord.rs1, v),
                           !.cause = why]
  /\ UNCHANGED csr

(* A csr access, mret or wfi executes.                                     *)
ExecEdge(irq, v) ==
  /\ sys.state = "EXEC"
  /\ Drain /\ Back(irq, v, Bubble)
  /\ sys' = [sys EXCEPT
               !.state = IF sys.op = "wfi" THEN "SLEEP" ELSE "REDIRECT",
               !.redirect = IF sys.op = "mret" THEN csr.epc ELSE Plus4(sys.pc)]
  /\ csr' = CASE sys.op = "mret"     -> AfterMret(csr)
              [] sys.op \in CsrOps   -> CsrWrite(csr, sys.op, sys.src)
              [] OTHER               -> csr

(* Trap entry saves the state and vectors.                                 *)
TrapEdge(irq, v) ==
  /\ sys.state = "TRAP"
  /\ Drain /\ Back(irq, v, Bubble)
  /\ sys' = [sys EXCEPT !.state = "REDIRECT", !.redirect = csr.tvec]
  /\ csr' = AfterTrap(csr, sys.pc, sys.cause)

(* The front end restarts.                                                 *)
RedirectEdge(irq, v) ==
  /\ sys.state = "REDIRECT"
  /\ SystemRedirect(sys.redirect) /\ Back(irq, v, Bubble)
  /\ sys' = [sys EXCEPT !.state = "IDLE"]
  /\ UNCHANGED csr

(* wfi waits for an enabled source; MIE decides whether it traps.          *)
SleepEdge(irq, v) ==
  /\ sys.state = "SLEEP"
  /\ Drain /\ Back(irq, v, Bubble)
  /\ sys' = IF ~(csr.ie /\ irq) THEN sys
            ELSE IF csr.mie
            THEN [sys EXCEPT !.state = "TRAP", !.pc = Plus4(sys.pc),
                             !.cause = "interrupt"]
            ELSE [sys EXCEPT !.state = "REDIRECT", !.redirect = Plus4(sys.pc)]
  /\ UNCHANGED csr

CoreInit ==
  /\ FetchInit
  /\ ex = NoEx /\ mem = NoMem /\ wb = NoWb
  /\ regs = [r \in Regs |-> 0]
  /\ mul = [busy |-> FALSE, count |-> 0, ready |-> FALSE, product |-> 0]
  /\ div = [left |-> 0, ready |-> FALSE, quotient |-> 0]
  /\ bus = IdleBus
  /\ dmem = [a \in DataAddress |-> 0]
  /\ sent = 0
  /\ sys = [state |-> "IDLE", pc |-> 0, op |-> "alu", rd |-> 0, src |-> 0,
            cause |-> "none", redirect |-> 0]
  /\ csr = ResetCsr

Edge(irq, v) ==
  \/ IssueEdge(irq, v) \/ StallEdge(irq, v) \/ MispredictEdge(irq, v)
  \/ FaultEdge(irq, v) \/ FarEdge(irq, v) \/ EnterEdge(irq, v)
  \/ ExecEdge(irq, v) \/ TrapEdge(irq, v) \/ RedirectEdge(irq, v)
  \/ SleepEdge(irq, v)

CoreNext == \E irq \in Interrupts, v \in ReadData : Edge(irq, v)

CoreSpec == CoreInit /\ [][CoreNext]_coreVars

(* The clock never stops.                                                  *)
FairCoreSpec == CoreSpec /\ WF_coreVars(CoreNext)

(***************************************************************************)
(* Refinement of Machine.  The oldest instruction in flight is the next    *)
(* one of the machine; a store or device write that is not yet past WB has *)
(* not happened for it.                                                    *)
(***************************************************************************)
Undo(d, s) ==
  IF s.valid /\ s.op = "store" /\ s.addr \in DataAddress
  THEN [d EXCEPT ![s.addr] = s.old] ELSE d

SentEarly(s) == Bit(s.valid /\ s.op = "store" /\ Region[s.addr] = "mmio")

ArchPc ==
  IF wb.valid THEN wb.pc
  ELSE IF mem.valid THEN mem.pc
  ELSE IF ex.valid THEN ex.pc
  ELSE CASE sys.state \in {"EXEC", "TRAP"} -> sys.pc
         [] sys.state = "REDIRECT" -> sys.redirect
         [] sys.state = "SLEEP" -> Plus4(sys.pc)
         [] OTHER -> expect
ArchMem == Undo(Undo(dmem, mem), wb)
ArchSent ==
  (sent + SentLimit - SentEarly(wb) - IF bus.age = 1 THEN SentEarly(mem) ELSE 0)
    % SentLimit

M == INSTANCE Machine WITH rom <- imem, apc <- ArchPc, aregs <- regs,
       amem <- ArchMem, asent <- ArchSent, acsr <- csr

(***************************************************************************)
(* Properties.                                                             *)
(***************************************************************************)

ExReg == [valid : BOOLEAN, pc : Address, op : Ops, rd : Regs, a : Address,
          b : Address, data : Address, target : Address, taken : BOOLEAN,
          ptarget : Index, dep1 : BOOLEAN, dep2 : BOOLEAN]
MemReg == [valid : BOOLEAN, pc : Address, op : Ops, rd : Regs,
           result : Address, addr : Address, target : Address,
           jumped : BOOLEAN, taken : BOOLEAN, ptarget : Index,
           dep1 : BOOLEAN, dep2 : BOOLEAN, other : Address, old : Address]
WbReg == [valid : BOOLEAN, pc : Address, op : Ops, rd : Regs,
          value : Address, addr : Address, old : Address]
MulReg == [busy : BOOLEAN, count : 0 .. 2, ready : BOOLEAN, product : Address]
DivReg == [left : 0 .. DivSteps + 3, ready : BOOLEAN, quotient : Address]
BusReg == [pending : BOOLEAN, kind : {"imem", "dmem", "mmio", "none", "error"},
           write : BOOLEAN, age : 0 .. 1, data : Address]
SysReg == [state : {"IDLE", "EXEC", "TRAP", "REDIRECT", "SLEEP"}, pc : Address,
           op : Ops, rd : Regs, src : Address, cause : Causes,
           redirect : Address]

(* Types of the registers of the pipeline, the units, the bus and the slow *)
(* path; x0 reads as zero.                                                 *)
CoreTypeOK ==
  /\ FetchTypeOK
  /\ ex \in ExReg
  /\ mem \in MemReg
  /\ wb \in WbReg
  /\ regs \in [Regs -> Address] /\ regs[0] = 0
  /\ mul \in MulReg
  /\ div \in DivReg
  /\ bus \in BusReg
  /\ dmem \in [DataAddress -> Address]
  /\ sent \in 0 .. SentLimit - 1
  /\ sys \in SysReg
  /\ csr \in Csr

(* Software sees a sequential machine: whatever is predicted, stalled,     *)
(* flushed, forwarded, interrupted or answered late, each instruction      *)
(* takes effect exactly once, in program order, with the operands of its   *)
(* predecessors, and a trap or interrupt separates two instructions.       *)
ImplementsMachine == M!MachineSpec

(* The bus carries one request at a time and it is the one MEM waits for:  *)
(* a strobe always meets a ready bus, an answer never finds MEM without    *)
(* the instruction that asked, and no flush leaves a request behind.       *)
BusMatchesMem ==
  /\ bus.pending = MemAccess
  /\ BusStrobe => BusReady
  /\ bus.pending => bus.write = (mem.op = "store")

(* A result that EX takes from the multiplier or the divider is that of    *)
(* its own operands: a start lost to a busy unit, or a unit still working  *)
(* for a flushed instruction, must never answer for another one.           *)
MulDivFresh ==
  ex.valid =>
    /\ ex.op = "mul" /\ mul.ready => mul.product = Product(ex.a, ex.b)
    /\ ex.op = "div" /\ div.ready => div.quotient = Quotient(ex.a, ex.b)

(* The slow path and the fast path never have work at the same time.       *)
SlowPathAlone ==
  sysBusy => /\ ~ex.valid /\ ~mem.valid /\ ~bus.pending
             /\ wb.valid => sys.state = "REDIRECT"

(* The inductive strengthening of the two: the front end waits exactly     *)
(* while the slow path is not idle, only branches and indirect jumps carry *)
(* a deferred operand, and only control transfers jump out of MEM.         *)
HandoverInv ==
  /\ sysBusy = (sys.state # "IDLE")
  /\ BusMatchesMem
  /\ SlowPathAlone
  /\ Defers(ex) => ex.op \in {"branch", "jalr"}
  /\ Defers(mem) => mem.op \in {"branch", "jalr"}
  /\ mem.jumped => mem.op \in {"branch", "jal", "jalr"}

(* The pipeline never stops for good: again and again an instruction       *)
(* retires, a trap is entered, or the core sleeps.                         *)
Progress ==
  []<>(wb.valid \/ sys.state \in {"EXEC", "TRAP", "SLEEP"})
=============================================================================
