----------------------------- MODULE CoreProofs -----------------------------
(***************************************************************************)
(* What the pipeline guarantees for every ROM, memory map, divider latency *)
(* and interrupt pattern: its registers keep their types, the bus carries  *)
(* exactly the request MEM waits for, the slow path and the pipeline never *)
(* work at the same time, the front end inside it is that of Fetch, and    *)
(* software sees the sequential machine of Machine.                        *)
(***************************************************************************)
EXTENDS Core, FetchProofs

(***************************************************************************)
(* The datapath.                                                           *)
(***************************************************************************)

(* Sums stay inside the address space.                                     *)
LEMMA SumType ==
  ASSUME NEW a \in Address, NEW b \in Address
  PROVE  Sum(a, b) \in Address
BY WordsAssumption DEF Sum, Address, Space

(* So do products.                                                         *)
LEMMA ProductType ==
  ASSUME NEW a \in Address, NEW b \in Address
  PROVE  Product(a, b) \in Address
<1> DEFINE p == a * b
<1>1. p \in Int /\ Space \in Nat \ {0}
  BY WordsAssumption DEF Address, Space
<1> HIDE DEF p
<1>2. p % Space \in 0 .. Space - 1
  BY <1>1
<1> QED
  BY <1>2 DEF Product, p, Address

(* So do quotients; division by zero yields the largest value.             *)
LEMMA QuotientType ==
  ASSUME NEW a \in Address, NEW b \in Address
  PROVE  Quotient(a, b) \in Address
<1>1. a \in Nat /\ b \in Nat /\ Space \in Nat \ {0} /\ a < Space
  BY WordsAssumption DEF Address, Space
<1>2. CASE b = 0
  BY <1>1, <1>2 DEF Quotient, Address
<1>3. CASE b # 0
  <2>1. a \div b \in 0 .. a
    BY <1>1, <1>3
  <2> QED
    BY <1>1, <1>3, <2>1 DEF Quotient, Address
<1> QED
  BY <1>2, <1>3

(* Reading a control register yields a register value.                     *)
LEMMA CsrReadType ==
  ASSUME NEW c \in Csr, NEW op \in CsrOps
  PROVE  CsrRead(c, op) \in Address
<1>1. c.tvec \in Address /\ c.epc \in Address
  BY DEF Csr
<1>2. Bit(c.ie) \in Address
  BY WordsAssumption DEF Bit, Address, Space
<1>3. (Bit(c.mie) + 2 * Bit(c.mpie)) % Space \in Address
  BY WordsAssumption DEF Bit, Address, Space
<1> QED
  BY <1>1, <1>2, <1>3 DEF CsrRead, CsrOps

(* Traps, returns and csr accesses keep the types of the control registers. *)
LEMMA CsrUpdateType ==
  ASSUME NEW c \in Csr, NEW a \in Address, NEW why \in Causes, NEW op \in CsrOps
  PROVE  /\ AfterTrap(c, a, why) \in Csr
         /\ AfterMret(c) \in Csr
         /\ CsrWrite(c, op, a) \in Csr
<1>1. AfterTrap(c, a, why) \in Csr /\ AfterMret(c) \in Csr
  BY DEF AfterTrap, AfterMret, Csr
<1>2. (a % 2 = 1) \in BOOLEAN /\ ((a \div 2) % 2 = 1) \in BOOLEAN
  OBVIOUS
<1>3. CsrWrite(c, op, a) \in Csr
  BY <1>2 DEF CsrWrite, Csr, CsrOps
<1> QED
  BY <1>1, <1>3

(* The instruction classes that control depends on are classes.            *)
LEMMA OpsFacts ==
  /\ CsrOps \subseteq Ops
  /\ "alu" \in Ops /\ "none" \in Causes /\ "interrupt" \in Causes
  /\ "access" \in Causes
  /\ 0 \in Regs
BY RegsAssumption DEF Ops, Causes

(***************************************************************************)
(* Types of the wires and of the registers behind ID.                      *)
(***************************************************************************)

(* What the bus returns is a register value.                               *)
LEMMA ReadDataType ==
  ASSUME CoreTypeOK
  PROVE  ReadData \subseteq Address
BY LoadValuesAssumption DEF CoreTypeOK, BusReg, ReadData

(* The values EX computes.                                                 *)
LEMMA ExValueTypes ==
  ASSUME CoreTypeOK
  PROVE  /\ ExAddr \in Address
         /\ ExResult \in Address
         /\ ExTarget \in Address
<1>1. /\ ex.a \in Address /\ ex.b \in Address /\ ex.pc \in Address
      /\ ex.target \in Address
      /\ mul.product \in Address /\ div.quotient \in Address
  BY DEF CoreTypeOK, ExReg, MulReg, DivReg
<1>2. ExAddr \in Address
  BY <1>1, SumType DEF ExAddr
<1>3. ExResult \in Address
  <2>1. Plus4(ex.pc) \in Address
    BY <1>1, AddressArithmetic
  <2> QED
    BY <1>1, <1>2, <2>1 DEF ExResult
<1> QED
  BY <1>1, <1>2, <1>3 DEF ExTarget

(* Whatever forwarding selects is a register value.                        *)
LEMMA ForwardType ==
  ASSUME CoreTypeOK, NEW r \in Regs, NEW v \in Address
  PROVE  Forward(r, v) \in Address
<1>1. regs[r] \in Address /\ wb.value \in Address /\ mem.result \in Address
  BY DEF CoreTypeOK, WbReg, MemReg
<1>2. MemData(v) \in Address
  BY <1>1 DEF MemData
<1> QED
  BY <1>1, <1>2, ExValueTypes DEF Forward

(* ID hands EX a well-formed instruction.                                  *)
LEMMA DecodeType ==
  ASSUME CoreTypeOK, NEW slot \in Slot, NEW v \in Address
  PROVE  Decode(slot, v) \in ExReg
<1> DEFINE w == slot.word
<1>1. /\ slot.valid \in BOOLEAN /\ slot.pc \in Address
      /\ w \in Instruction /\ slot.taken \in BOOLEAN /\ slot.target \in Index
  BY DEF Slot
<1>2. /\ w.op \in Ops /\ w.rd \in Regs /\ w.rs1 \in Regs /\ w.rs2 \in Regs
      /\ w.target \in Address
  BY <1>1 DEF Instruction
<1> HIDE DEF w
<1>3. Forward(w.rs1, v) \in Address /\ Forward(w.rs2, v) \in Address
  BY <1>2, ForwardType
<1>4. LateRs1 \in BOOLEAN /\ LateRs2 \in BOOLEAN
  BY DEF LateRs1, LateRs2, LoadInEx
<1> QED
  BY <1>1, <1>2, <1>3, <1>4, IndexInAddress DEF Decode, ExReg, w

(* The next contents of ID/EX.                                             *)
LEMMA NextExType ==
  ASSUME CoreTypeOK, NEW irq, NEW slot \in Slot, NEW v \in Address
  PROVE  NextEx(irq, v, slot) \in ExReg
<1>1. NoEx \in ExReg
  BY OpsFacts, IndexInAddress DEF NoEx, ExReg
<1>2. [ex EXCEPT !.valid = FALSE, !.taken = FALSE,
                 !.dep1 = FALSE, !.dep2 = FALSE] \in ExReg
  BY DEF CoreTypeOK, ExReg
<1> QED
  BY <1>1, <1>2, DecodeType DEF NextEx, CoreTypeOK

(* The next contents of EX/MEM.                                            *)
LEMMA NextMemType ==
  ASSUME CoreTypeOK
  PROVE  NextMem \in MemReg
<1>1. NoMem \in MemReg
  BY OpsFacts, IndexInAddress DEF NoMem, MemReg
<1>2. ExJumps \in BOOLEAN
  BY DEF ExJumps
<1>3. (IF ExAddr \in DataAddress THEN dmem[ExAddr] ELSE 0) \in Address
  BY IndexInAddress DEF CoreTypeOK
<1>4. ex \in ExReg /\ mem \in MemReg
  BY DEF CoreTypeOK
<1>5. /\ ex.pc \in Address /\ ex.op \in Ops /\ ex.rd \in Regs
      /\ ex.taken \in BOOLEAN /\ ex.ptarget \in Index /\ ex.dep1 \in BOOLEAN
      /\ ex.dep2 \in BOOLEAN /\ ex.a \in Address /\ ex.b \in Address
  BY <1>4 DEF ExReg
<1>6. (IF ex.dep1 THEN ex.b ELSE ex.a) \in Address
  BY <1>5
<1> QED
  BY <1>1, <1>2, <1>3, <1>4, <1>5, <1>6, ExValueTypes DEF NextMem, MemReg

(* The next contents of MEM/WB and of the register file.                   *)
LEMMA NextWbType ==
  ASSUME CoreTypeOK, NEW v \in Address
  PROVE  /\ NextWb(v) \in WbReg
         /\ NextRegs \in [Regs -> Address]
         /\ NextRegs[0] = 0
<1>1. NoWb \in WbReg
  BY OpsFacts, IndexInAddress DEF NoWb, WbReg
<1>2. /\ mem.pc \in Address /\ mem.op \in Ops /\ mem.rd \in Regs
      /\ mem.result \in Address /\ mem.addr \in Address /\ mem.old \in Address
  BY DEF CoreTypeOK, MemReg
<1>3. NextWb(v) \in WbReg
  BY <1>1, <1>2 DEF NextWb, MemData, WbReg
<1>4. /\ wb.rd \in Regs /\ wb.value \in Address /\ sys.rd \in Regs
      /\ regs \in [Regs -> Address] /\ regs[0] = 0
  BY DEF CoreTypeOK, WbReg, SysReg
<1>5. ASSUME sys.op \in CsrOps
      PROVE  CsrRead(csr, sys.op) \in Address
  BY <1>5, CsrReadType DEF CoreTypeOK
<1>6. (IF wb.rd = 0 THEN 0 ELSE wb.value) \in Address
  BY <1>4, IndexInAddress
<1>7. NextRegs \in [Regs -> Address] /\ NextRegs[0] = 0
  BY <1>4, <1>5, <1>6, OpsFacts DEF NextRegs
<1> QED
  BY <1>3, <1>7

(* What ID decodes is an instruction at an address.                        *)
LEMMA IdTypes ==
  ASSUME FetchTypeOK
  PROVE  /\ IdPc \in Address /\ IdWord \in Instruction
         /\ IdWord.op \in Ops /\ IdWord.rd \in Regs
         /\ IdWord.rs1 \in Regs /\ IdWord.rs2 \in Regs
<1>1. NotTaken \in Prediction
  BY IndexInAddress DEF NotTaken, Prediction
<1>2. IdSlot(NotTaken) \in Slot
  BY <1>1, SlotTypes
<1>3. IdPc \in Address /\ IdWord \in Instruction
  BY <1>2 DEF IdPc, IdWord, Slot
<1> QED
  BY <1>3 DEF Instruction

(* The next contents of the multiplier and of the divider.                 *)
LEMMA NextMulDivType ==
  ASSUME CoreTypeOK, NEW irq, NEW v \in Address
  PROVE  NextMul(irq, v) \in MulReg /\ NextDiv(irq, v) \in DivReg
<1> DEFINE x == Forward(IdWord.rs1, v)
           y == Forward(IdWord.rs2, v)
<1>1. x \in Address /\ y \in Address
  BY IdTypes, ForwardType DEF CoreTypeOK
<1>2. Product(x, y) \in Address /\ Quotient(x, y) \in Address
  BY <1>1, ProductType, QuotientType
<1> HIDE DEF x, y
<1>3. NextMul(irq, v) =
        IF Preload("mul", irq) /\ ~mul.busy
        THEN [busy |-> TRUE, count |-> 2, ready |-> FALSE,
              product |-> Product(x, y)]
        ELSE IF mul.busy /\ mul.count = 0
        THEN [mul EXCEPT !.busy = FALSE, !.ready = TRUE]
        ELSE IF mul.busy THEN [mul EXCEPT !.count = mul.count - 1]
        ELSE mul
  BY DEF NextMul, x, y
<1>4. NextMul(irq, v) \in MulReg
  <2>1. mul \in MulReg
    BY DEF CoreTypeOK
  <2>2. [busy |-> TRUE, count |-> 2, ready |-> FALSE, product |-> Product(x, y)]
          \in MulReg
    BY <1>2 DEF MulReg
  <2>3. [mul EXCEPT !.busy = FALSE, !.ready = TRUE] \in MulReg
    BY <2>1 DEF MulReg
  <2>4. ASSUME mul.count # 0
        PROVE  [mul EXCEPT !.count = mul.count - 1] \in MulReg
    <3>1. mul.count - 1 \in 0 .. 2
      BY <2>1, <2>4 DEF MulReg
    <3> QED
      BY <2>1, <3>1 DEF MulReg
  <2> QED
    BY <1>3, <2>1, <2>2, <2>3, <2>4
<1>5. NextDiv(irq, v) =
        IF Preload("div", irq)
        THEN [left |-> IF y = 0 THEN 2 ELSE DivSteps + 3, ready |-> FALSE,
              quotient |-> Quotient(x, y)]
        ELSE IF div.left > 0
        THEN [div EXCEPT !.left = div.left - 1, !.ready = (div.left = 1)]
        ELSE div
  BY DEF NextDiv, x, y
<1>6. (IF y = 0 THEN 2 ELSE DivSteps + 3) \in 0 .. DivSteps + 3
  BY DivStepsAssumption
<1>7. NextDiv(irq, v) \in DivReg
  <2>1. div \in DivReg
    BY DEF CoreTypeOK
  <2>2. [left |-> IF y = 0 THEN 2 ELSE DivSteps + 3, ready |-> FALSE,
         quotient |-> Quotient(x, y)] \in DivReg
    BY <1>2, <1>6 DEF DivReg
  <2>3. ASSUME div.left > 0
        PROVE  [div EXCEPT !.left = div.left - 1, !.ready = (div.left = 1)]
                 \in DivReg
    <3>1. div.left - 1 \in 0 .. DivSteps + 3 /\ (div.left = 1) \in BOOLEAN
      BY <2>1, <2>3, DivStepsAssumption DEF DivReg
    <3> QED
      BY <2>1, <3>1 DEF DivReg
  <2> QED
    BY <1>5, <2>1, <2>2, <2>3
<1> QED
  BY <1>4, <1>7

(* The next state of the bus, of data memory and of the device counter.    *)
LEMMA NextBusType ==
  ASSUME CoreTypeOK
  PROVE  /\ NextBus \in BusReg
         /\ NextDmem \in [DataAddress -> Address]
         /\ (IF DeviceWrites THEN (sent + 1) % SentLimit ELSE sent)
              \in 0 .. SentLimit - 1
<1>1. /\ bus \in BusReg /\ dmem \in [DataAddress -> Address]
      /\ sent \in 0 .. SentLimit - 1 /\ ex.data \in Address
  BY DEF CoreTypeOK, ExReg
<1>2. (IF BadRequest(ex.op, ExAddr) THEN "error" ELSE Region[ExAddr])
        \in {"imem", "dmem", "mmio", "none", "error"}
  BY ExValueTypes, RegionAssumption
<1>3. (IF ex.op = "load" /\ ExAddr \in DataAddress THEN dmem[ExAddr] ELSE 0)
        \in Address
  BY <1>1, IndexInAddress
<1>4. NextBus \in BusReg
  BY <1>1, <1>2, <1>3, IndexInAddress DEF NextBus, IdleBus, BusReg
<1>5. NextDmem \in [DataAddress -> Address]
  BY <1>1 DEF NextDmem
<1>6. (sent + 1) % SentLimit \in 0 .. SentLimit - 1
  BY <1>1, SentLimitAssumption
<1> QED
  BY <1>1, <1>4, <1>5, <1>6

(* Every register behind ID keeps its type on every clock edge.            *)
LEMMA BackType ==
  ASSUME CoreTypeOK, NEW irq, NEW v \in Address, NEW slot \in Slot,
         Back(irq, v, slot), FetchTypeOK', sys' \in SysReg, csr' \in Csr
  PROVE  CoreTypeOK'
BY NextExType, NextMemType, NextWbType, NextMulDivType, NextBusType
   DEF Back, CoreTypeOK

(***************************************************************************)
(* Type correctness.                                                       *)
(***************************************************************************)

(* Reset.                                                                  *)
LEMMA CoreInitType == CoreInit => CoreTypeOK
<1> SUFFICES ASSUME CoreInit PROVE CoreTypeOK
  OBVIOUS
<1>1. FetchTypeOK
  BY FetchInitInv DEF CoreInit, FetchInv
<1>2. ex \in ExReg /\ mem \in MemReg /\ wb \in WbReg
  BY OpsFacts, IndexInAddress
     DEF CoreInit, NoEx, NoMem, NoWb, ExReg, MemReg, WbReg
<1>3. mul \in MulReg /\ div \in DivReg
  BY IndexInAddress, DivStepsAssumption DEF CoreInit, MulReg, DivReg
<1>4. bus \in BusReg /\ sent \in 0 .. SentLimit - 1
  BY IndexInAddress, SentLimitAssumption DEF CoreInit, IdleBus, BusReg
<1>5. regs \in [Regs -> Address] /\ regs[0] = 0
      /\ dmem \in [DataAddress -> Address]
  BY OpsFacts, IndexInAddress DEF CoreInit
<1>6. sys \in SysReg /\ csr \in Csr
  BY OpsFacts, IndexInAddress DEF CoreInit, SysReg, Csr, ResetCsr, Causes
<1> QED
  BY <1>1, <1>2, <1>3, <1>4, <1>5, <1>6 DEF CoreTypeOK

(* Every clock edge keeps the types.                                       *)
LEMMA CoreStepType ==
  ASSUME CoreTypeOK, [CoreNext]_coreVars
  PROVE  CoreTypeOK'
<1>1. CASE UNCHANGED coreVars
  BY <1>1 DEF coreVars, fetchVars, backVars, CoreTypeOK, FetchTypeOK
<1>2. ASSUME NEW irq \in Interrupts, NEW v \in ReadData, Edge(irq, v)
      PROVE  CoreTypeOK'
  <2>1. v \in Address
    BY ReadDataType
  <2>2. FetchTypeOK /\ sys \in SysReg /\ csr \in Csr
    BY DEF CoreTypeOK
  <2>3. Bubble \in Slot
    BY ZeroWordType, IndexInAddress DEF Bubble, Slot
  <2>4. /\ Block(irq) \in BOOLEAN /\ ImemBusRead \in BOOLEAN
        /\ FALSE \in BOOLEAN /\ TRUE \in BOOLEAN
    BY DEF Block, Stalled, HazardStall, ImemBusRead
  <2>5. sys.pc \in Address /\ Plus4(sys.pc) \in Address /\ csr.epc \in Address
        /\ csr.tvec \in Address /\ MemTarget \in Address /\ mem.pc \in Address
    <3>1. /\ sys.pc \in Address /\ csr.epc \in Address /\ csr.tvec \in Address
          /\ mem.pc \in Address /\ mem.target \in Address
          /\ mem.other \in Address /\ wb.value \in Address
      BY DEF CoreTypeOK, SysReg, Csr, MemReg, WbReg
    <3> QED
      BY <3>1, AddressArithmetic, SumType DEF MemTarget, LateTarget
  <2>6. CASE IssueEdge(irq, v)
    <3>1. PICK p0 \in Predictions(IfWord), p1 \in Predictions(PreWord) :
            Advance(ImemBusRead, p0, p1) /\ Back(irq, v, IdSlot(p0))
      BY <2>6 DEF IssueEdge
    <3>2. IdSlot(p0) \in Slot
      BY <2>2, WordTypes, PredictionsType, SlotTypes
    <3> QED
      BY <2>1, <2>2, <2>4, <2>6, <3>1, <3>2, AdvanceType, BackType DEF IssueEdge
  <2>7. CASE StallEdge(irq, v)
    BY <2>1, <2>2, <2>3, <2>4, <2>7, BlockedType, BackType
       DEF StallEdge, Stall, FetchTypeOK
  <2>8. CASE MispredictEdge(irq, v)
    BY <2>1, <2>2, <2>3, <2>4, <2>8, MispredictType, BackType
       DEF MispredictEdge
  <2>9. CASE FaultEdge(irq, v)
    <3>1. FetchTypeOK'
      BY <2>2, <2>4, <2>9, SquashType DEF FaultEdge
    <3>2. sys' \in SysReg
      BY <2>2, <2>5, <2>9, OpsFacts DEF FaultEdge, SysReg
    <3> QED
      BY <2>1, <2>2, <2>3, <2>9, <3>1, <3>2, BackType DEF FaultEdge
  <2>10. CASE FarEdge(irq, v)
    <3>1. FetchTypeOK'
      BY <2>2, <2>4, <2>10, SquashType DEF FarEdge
    <3>2. sys' \in SysReg
      BY <2>2, <2>5, <2>10 DEF FarEdge, SysReg
    <3> QED
      BY <2>1, <2>2, <2>3, <2>10, <3>1, <3>2, BackType DEF FarEdge
  <2>11. CASE EnterEdge(irq, v)
    <3>1. FetchTypeOK'
      BY <2>2, <2>4, <2>11, BlockedType DEF EnterEdge, EnterSystem
    <3> DEFINE why == IF InterruptPending(irq) THEN "interrupt"
                      ELSE TrapCause(IdWord, IdPc)
    <3>2. why \in Causes
      BY DEF TrapCause, Causes
    <3>3. Forward(IdWord.rs1, v) \in Address
      BY <2>1, <2>2, IdTypes, ForwardType
    <3>4. sys' = [sys EXCEPT !.state = IF why = "none" THEN "EXEC" ELSE "TRAP",
                             !.pc = IdPc, !.op = IdWord.op, !.rd = IdWord.rd,
                             !.src = Forward(IdWord.rs1, v), !.cause = why]
      BY <2>11 DEF EnterEdge
    <3> HIDE DEF why
    <3>5. sys' \in SysReg
      BY <2>2, <3>2, <3>3, <3>4, IdTypes DEF SysReg
    <3> QED
      BY <2>1, <2>2, <2>3, <2>11, <3>1, <3>5, BackType DEF EnterEdge
  <2>12. ASSUME Drain
         PROVE  FetchTypeOK'
    BY <2>2, <2>4, <2>12, BlockedType DEF Drain, FetchTypeOK
  <2>13. CASE ExecEdge(irq, v)
    <3>1. sys' \in SysReg
      BY <2>2, <2>5, <2>13 DEF ExecEdge, SysReg
    <3>2. AfterMret(csr) \in Csr
      BY <2>2, <2>5, OpsFacts, CsrUpdateType DEF CsrOps
    <3>3. ASSUME sys.op \in CsrOps
          PROVE  CsrWrite(csr, sys.op, sys.src) \in Csr
      BY <2>2, <3>3, OpsFacts, CsrUpdateType DEF SysReg
    <3>4. csr' \in Csr
      BY <2>2, <2>13, <3>2, <3>3 DEF ExecEdge
    <3> QED
      BY <2>1, <2>3, <2>12, <2>13, <3>1, <3>4, BackType DEF ExecEdge
  <2>14. CASE TrapEdge(irq, v)
    <3>1. sys' \in SysReg
      BY <2>2, <2>5, <2>14 DEF TrapEdge, SysReg
    <3>2. csr' \in Csr
      BY <2>2, <2>5, <2>14, CsrUpdateType DEF TrapEdge, SysReg, CsrOps
    <3> QED
      BY <2>1, <2>3, <2>12, <2>14, <3>1, <3>2, BackType DEF TrapEdge
  <2>15. CASE RedirectEdge(irq, v)
    <3>1. FetchTypeOK'
      BY <2>2, <2>15, SystemRedirectType DEF RedirectEdge
    <3>2. sys' \in SysReg
      BY <2>2, <2>15 DEF RedirectEdge, SysReg
    <3> QED
      BY <2>1, <2>2, <2>3, <2>15, <3>1, <3>2, BackType DEF RedirectEdge
  <2>16. CASE SleepEdge(irq, v)
    <3>1. sys' \in SysReg
      BY <2>2, <2>5, <2>16, OpsFacts DEF SleepEdge, SysReg
    <3> QED
      BY <2>1, <2>2, <2>3, <2>12, <2>16, <3>1, BackType DEF SleepEdge
  <2> QED
    BY <1>2, <2>6, <2>7, <2>8, <2>9, <2>10, <2>11, <2>13, <2>14, <2>15, <2>16
       DEF Edge
<1> QED
  BY <1>1, <1>2 DEF CoreNext

(* For every ROM, memory map, latency and interrupt pattern, every         *)
(* register of the core keeps its type and x0 stays zero.                  *)
THEOREM CoreTypeCorrect == CoreSpec => []CoreTypeOK
<1>1. CoreInit => CoreTypeOK
  BY CoreInitType
<1>2. CoreTypeOK /\ [CoreNext]_coreVars => CoreTypeOK'
  BY CoreStepType
<1> QED
  BY <1>1, <1>2, PTL DEF CoreSpec

(***************************************************************************)
(* The bus, MEM and the slow path.                                         *)
(***************************************************************************)

(* As long as the bus works for MEM, a strobe meets a ready bus: EX only   *)
(* fires when MEM has its answer.                                          *)
LEMMA StrobeMeetsReady ==
  ASSUME CoreTypeOK, bus.pending = MemAccess
  PROVE  BusStrobe => BusReady
BY DEF BusStrobe, ExFire, Hold, MemoryHold, MemWait, BusReady, CoreTypeOK, BusReg

(* MEM never resolves a branch or leaves IMEM while it waits for the bus.  *)
LEMMA ControlIsNoAccess ==
  ASSUME HandoverInv, LateMispredict \/ FarRedirect
  PROVE  ~MemAccess /\ ~bus.pending
BY DEF HandoverInv, BusMatchesMem, LateMispredict, LateResolves, FarRedirect,
       MemJumps, MemAccess, AccessesMemory

(* MEM receives a load or store on exactly the edges on which the bus      *)
(* accepts one, and loses it on the edge of its answer or never had it.    *)
LEMMA BusFollowsMem ==
  ASSUME CoreTypeOK, HandoverInv, NEW irq, NEW v, NEW slot, Back(irq, v, slot)
  PROVE  BusMatchesMem'
<1> USE DEF HandoverInv
<1>1. /\ mem' = NextMem /\ bus' = NextBus
      /\ bus.pending = MemAccess /\ bus.pending \in BOOLEAN
      /\ bus \in BusReg /\ mem.valid \in BOOLEAN /\ ex.valid \in BOOLEAN
  BY DEF Back, BusMatchesMem, CoreTypeOK, BusReg, MemReg, ExReg
<1>2. ASSUME bus'.pending = FALSE, mem'.valid = FALSE
      PROVE  BusMatchesMem'
  <2>1. BusStrobe' => BusReady'
    BY <1>2 DEF BusReady
  <2> QED
    BY <1>2, <2>1 DEF BusMatchesMem, MemAccess
<1>3. ASSUME ~BusAccept, BusAck \/ ~bus.pending
      PROVE  bus'.pending = FALSE
  BY <1>1, <1>3 DEF NextBus, IdleBus
<1>4. CASE LateMispredict \/ SysFlush
  <2>1. mem'.valid = FALSE
    BY <1>1, <1>4 DEF NextMem, NoMem
  <2>2. ~BusAccept /\ (BusAck \/ ~bus.pending)
    BY <1>4, ControlIsNoAccess
       DEF BusAccept, BusStrobe, ExFire, Hold, MemoryHold, SysFlush, MemFault,
           SlowPathAlone
  <2> QED
    BY <1>2, <1>3, <2>1, <2>2
<1>5. CASE ~LateMispredict /\ ~SysFlush /\ (MemoryHold \/ sysBusy)
  <2>1. mem' = mem
    BY <1>1, <1>5 DEF NextMem
  <2>2. ~BusAccept
    BY <1>5 DEF BusAccept, BusStrobe, ExFire, Hold
  <2>3. CASE sysBusy
    <3>1. bus' = bus /\ ~mem.valid /\ ~bus.pending
      BY <1>1, <2>2, <2>3 DEF NextBus, BusAck, SlowPathAlone
    <3> QED
      BY <1>1, <1>2, <2>1, <3>1
  <2>4. CASE ~sysBusy
    <3>1. MemAccess /\ ~BusAck /\ bus.pending
      BY <1>1, <1>5, <2>4 DEF MemoryHold, MemWait, SysFlush
    <3>2. bus' = [bus EXCEPT !.age = 1]
      BY <1>1, <2>2, <3>1 DEF NextBus
    <3>3. bus'.pending = bus.pending /\ bus'.write = bus.write
      BY <1>1, <3>2 DEF BusReg
    <3>4. bus'.pending = MemAccess'
      BY <1>1, <2>1, <3>3 DEF MemAccess, AccessesMemory
    <3>5. bus'.pending => bus'.write = (mem'.op = "store")
      BY <1>1, <2>1, <3>3 DEF BusMatchesMem
    <3>6. BusStrobe' => BusReady'
      <4>1. bus'.pending \in BOOLEAN
        BY <1>1, <3>3
      <4> QED
        BY <3>4, <4>1 DEF BusStrobe, ExFire, Hold, MemoryHold, MemWait, BusReady
    <3> QED
      BY <3>4, <3>5, <3>6 DEF BusMatchesMem
  <2> QED
    BY <2>3, <2>4
<1>6. CASE /\ ~LateMispredict /\ ~SysFlush /\ ~MemoryHold /\ ~sysBusy
           /\ ExecuteHold \/ ~ex.valid
  <2>1. mem'.valid = FALSE
    BY <1>1, <1>6 DEF NextMem, NoMem
  <2>2. ~BusAccept /\ (BusAck \/ ~bus.pending)
    BY <1>1, <1>6 DEF BusAccept, BusStrobe, ExFire, Hold, MemoryHold, MemWait
  <2> QED
    BY <1>2, <1>3, <2>1, <2>2
<1>7. CASE /\ ~LateMispredict /\ ~SysFlush /\ ~MemoryHold /\ ~sysBusy
           /\ ~ExecuteHold /\ ex.valid
  <2>1. mem'.valid = TRUE /\ mem'.op = ex.op
    BY <1>1, <1>7 DEF NextMem
  <2>2. ExFire
    BY <1>7 DEF ExFire, Hold, SysFlush
  <2>3. BusAccept <=> AccessesMemory(ex.op)
    BY <1>1, <2>2, StrobeMeetsReady DEF BusAccept, BusStrobe
  <2>4. bus'.pending = MemAccess'
    <3>1. MemAccess' = AccessesMemory(ex.op)
      BY <2>1 DEF MemAccess, AccessesMemory
    <3>2. CASE BusAccept
      BY <1>1, <2>3, <3>1, <3>2 DEF NextBus, AccessesMemory
    <3>3. CASE ~BusAccept
      <4>1. BusAck \/ ~bus.pending
        BY <1>1, <1>7 DEF MemoryHold, MemWait
      <4>2. bus'.pending = FALSE
        BY <1>3, <3>3, <4>1
      <4>3. ~AccessesMemory(ex.op)
        BY <2>3, <3>3
      <4>4. MemAccess' = FALSE
        BY <2>1, <4>3 DEF MemAccess, AccessesMemory
      <4> QED
        BY <4>2, <4>4
    <3> QED
      BY <3>2, <3>3
  <2>5. bus'.pending => bus'.write = (mem'.op = "store")
    <3>1. CASE BusAccept
      BY <1>1, <2>1, <3>1 DEF NextBus
    <3>2. CASE ~BusAccept
      <4>1. BusAck \/ ~bus.pending
        BY <1>1, <1>7 DEF MemoryHold, MemWait
      <4> QED
        BY <1>3, <3>2, <4>1
    <3> QED
      BY <3>1, <3>2
  <2>6. BusStrobe' => BusReady'
    <3>1. bus'.pending \in BOOLEAN
      BY <2>4 DEF MemAccess, AccessesMemory
    <3> QED
      BY <2>4, <3>1 DEF BusStrobe, ExFire, Hold, MemoryHold, MemWait, BusReady
  <2> QED
    BY <2>4, <2>5, <2>6 DEF BusMatchesMem
<1> QED
  BY <1>4, <1>5, <1>6, <1>7

(* Only a branch or an indirect jump carries a deferred operand on, and    *)
(* only control transfers arrive in MEM as jumps.                          *)
LEMMA DeferredIsControl ==
  ASSUME CoreTypeOK, HandoverInv, NEW irq, NEW v, NEW slot, Back(irq, v, slot),
         Flush \/ Block(irq) \/ slot.word = IdWord
  PROVE  /\ (Defers(ex) => ex.op \in {"branch", "jalr"})'
         /\ (Defers(mem) => mem.op \in {"branch", "jalr"})'
         /\ (mem.jumped => mem.op \in {"branch", "jal", "jalr"})'
<1>1. /\ ex' = NextEx(irq, v, slot) /\ mem' = NextMem
      /\ Defers(ex) => ex.op \in {"branch", "jalr"}
      /\ Defers(mem) => mem.op \in {"branch", "jalr"}
      /\ mem.jumped => mem.op \in {"branch", "jal", "jalr"}
      /\ ex \in ExReg
  BY DEF Back, HandoverInv, CoreTypeOK
<1>2. (Defers(ex) => ex.op \in {"branch", "jalr"})'
  <2>1. CASE Flush
    BY <1>1, <2>1 DEF NextEx, NoEx, Defers
  <2>2. CASE ~Flush /\ Hold
    BY <1>1, <2>2 DEF NextEx, Defers
  <2>3. CASE ~Flush /\ ~Hold /\ Stalled(irq)
    BY <1>1, <2>3 DEF NextEx, Defers, ExReg
  <2>4. CASE ~Flush /\ ~Hold /\ ~Stalled(irq)
    <3>1. slot.word = IdWord
      BY <2>4 DEF Block
    <3>2. ex'.op = IdWord.op /\ ex'.dep1 = LateRs1 /\ ex'.dep2 = LateRs2
      BY <1>1, <2>4, <3>1 DEF NextEx, Decode
    <3> QED
      BY <3>2 DEF Defers, LateRs1, LateRs2
  <2> QED
    BY <2>1, <2>2, <2>3, <2>4
<1>3. /\ (Defers(mem) => mem.op \in {"branch", "jalr"})'
      /\ (mem.jumped => mem.op \in {"branch", "jal", "jalr"})'
  BY <1>1 DEF NextMem, NoMem, Defers, ExJumps, IsJump
<1> QED
  BY <1>2, <1>3

(* With the slow path idle or not, an edge that starts it or keeps it at   *)
(* work leaves EX, MEM and the bus empty.                                  *)
LEMMA SlowPathTakesOver ==
  ASSUME CoreTypeOK, HandoverInv, NEW irq, NEW v, NEW slot, Back(irq, v, slot),
         BusMatchesMem', MemFault \/ FarRedirect \/ TakesSystem(irq) \/ sysBusy
  PROVE  /\ ~ex'.valid /\ ~mem'.valid /\ ~bus'.pending
         /\ wb'.valid => FarRedirect
<1>1. /\ ex' = NextEx(irq, v, slot) /\ mem' = NextMem /\ wb' = NextWb(v)
      /\ ex \in ExReg
  BY DEF Back, CoreTypeOK
<1>2. CASE MemFault \/ FarRedirect
  <2>1. ~ex'.valid /\ ~mem'.valid
    BY <1>1, <1>2 DEF NextEx, NextMem, Flush, SysFlush, NoEx, NoMem
  <2>2. MemFault => ~wb'.valid
    BY <1>1 DEF NextWb, MemRetire, MemoryHold, NoWb
  <2> QED
    BY <1>2, <2>1, <2>2 DEF BusMatchesMem, MemAccess
<1>3. CASE TakesSystem(irq) \/ sysBusy
  <2>1. ~ex.valid /\ ~mem.valid
    BY <1>3 DEF TakesSystem, OlderEmpty, HandoverInv, SlowPathAlone
  <2>2. ~wb'.valid
    BY <1>1, <2>1 DEF NextWb, MemRetire, NoWb
  <2>3. ~mem'.valid
    BY <1>1, <2>1 DEF NextMem, NoMem
  <2>4. Hold \/ Stalled(irq)
    BY <1>3 DEF TakesSystem, Stalled, Hold
  <2>5. ~ex'.valid
    BY <1>1, <2>1, <2>4 DEF NextEx, NoEx, ExReg
  <2> QED
    BY <2>2, <2>3, <2>5 DEF BusMatchesMem, MemAccess
<1> QED
  BY <1>2, <1>3

(* Every clock edge keeps the invariant.                                   *)
LEMMA HandoverStep ==
  ASSUME CoreTypeOK, HandoverInv, [CoreNext]_coreVars
  PROVE  HandoverInv'
<1>1. CASE UNCHANGED coreVars
  BY <1>1 DEF coreVars, fetchVars, backVars, HandoverInv, BusMatchesMem,
       SlowPathAlone, MemAccess, AccessesMemory, BusStrobe, BusReady, BusAck,
       ExFire, Hold, ExecuteHold, MemoryHold, MemWait, MemFault, LateMispredict,
       LateResolves, LateJumps, LateTarget, FarRedirect, MemJumps, MemTarget,
       Defers
<1>2. ASSUME NEW irq \in Interrupts, NEW v \in ReadData, Edge(irq, v)
      PROVE  HandoverInv'
  <2>1. sysBusy = (sys.state # "IDLE") /\ sysBusy \in BOOLEAN /\ sys \in SysReg
    BY DEF HandoverInv, CoreTypeOK, FetchTypeOK
  (* What is left to show for each edge.                                   *)
  <2>2. ASSUME NEW slot, Back(irq, v, slot),
               Flush \/ Block(irq) \/ slot.word = IdWord,
               sysBusy' = (sys'.state # "IDLE"),
               sysBusy' => /\ MemFault \/ FarRedirect \/ TakesSystem(irq) \/ sysBusy
                           /\ FarRedirect => sys'.state = "REDIRECT"
        PROVE  HandoverInv'
    <3>1. BusMatchesMem'
      BY <2>2, BusFollowsMem
    <3>2. SlowPathAlone'
      BY <2>2, <3>1, SlowPathTakesOver DEF SlowPathAlone
    <3> QED
      BY <2>2, <3>1, <3>2, DeferredIsControl DEF HandoverInv
  <2>3. CASE IssueEdge(irq, v)
    <3>1. PICK p0 \in Predictions(IfWord), p1 \in Predictions(PreWord) :
            Advance(ImemBusRead, p0, p1) /\ Back(irq, v, IdSlot(p0))
      BY <2>3 DEF IssueEdge
    <3>2. IdSlot(p0).word = IdWord
      BY DEF IdWord, IdSlot, IfSlot
    <3> QED
      BY <2>1, <2>2, <2>3, <3>1, <3>2 DEF IssueEdge, Advance
  <2>4. CASE StallEdge(irq, v)
    BY <2>1, <2>2, <2>4 DEF StallEdge, Stall
  <2>5. CASE MispredictEdge(irq, v)
    BY <2>1, <2>2, <2>5 DEF MispredictEdge, Mispredict, Flush
  <2>6. CASE FaultEdge(irq, v)
    <3>1. Back(irq, v, Bubble) /\ MemFault /\ sysBusy' = TRUE
          /\ sys' = [sys EXCEPT !.state = "TRAP", !.pc = mem.pc,
                                !.cause = "access"]
      BY <2>6 DEF FaultEdge, Squash
    <3>2. sys'.state = "TRAP"
      BY <2>1, <3>1 DEF SysReg
    <3>3. ~FarRedirect
      BY <3>1, ControlIsNoAccess DEF MemFault
    <3> QED
      BY <2>2, <3>1, <3>2, <3>3 DEF Flush, SysFlush
  <2>7. CASE FarEdge(irq, v)
    <3>1. Back(irq, v, Bubble) /\ FarRedirect /\ sysBusy' = TRUE
          /\ sys' = [sys EXCEPT !.state = "REDIRECT", !.redirect = MemTarget]
      BY <2>7 DEF FarEdge, Squash
    <3>2. sys'.state = "REDIRECT"
      BY <2>1, <3>1 DEF SysReg
    <3> QED
      BY <2>2, <3>1, <3>2 DEF Flush, SysFlush
  <2>8. CASE EnterEdge(irq, v)
    <3>1. Back(irq, v, Bubble) /\ TakesSystem(irq) /\ sysBusy' = TRUE
      BY <2>8 DEF EnterEdge, EnterSystem
    <3>2. sys'.state \in {"EXEC", "TRAP"}
      BY <2>1, <2>8 DEF EnterEdge, SysReg
    <3>3. ~FarRedirect /\ Block(irq)
      BY <3>1 DEF TakesSystem, Block, Stalled
    <3> QED
      BY <2>2, <3>1, <3>2, <3>3
  <2>9. ASSUME Drain, Back(irq, v, Bubble), sys'.state # "IDLE"
        PROVE  HandoverInv'
    <3>1. sysBusy /\ sysBusy' = TRUE /\ Block(irq)
      BY <2>9 DEF Drain, Block, Stalled, SysStop
    <3>2. ~FarRedirect
      BY <3>1 DEF HandoverInv, SlowPathAlone, FarRedirect
    <3> QED
      BY <2>2, <2>9, <3>1, <3>2
  <2>10. CASE ExecEdge(irq, v)
    <3>1. sys'.state # "IDLE"
      BY <2>1, <2>10 DEF ExecEdge, SysReg
    <3> QED
      BY <2>9, <2>10, <3>1 DEF ExecEdge
  <2>11. CASE TrapEdge(irq, v)
    <3>1. sys'.state # "IDLE"
      BY <2>1, <2>11 DEF TrapEdge, SysReg
    <3> QED
      BY <2>9, <2>11, <3>1 DEF TrapEdge
  <2>12. CASE RedirectEdge(irq, v)
    <3>1. sys'.state = "IDLE"
      BY <2>1, <2>12 DEF RedirectEdge, SysReg
    <3>2. sysBusy' = FALSE /\ Back(irq, v, Bubble) /\ Flush
      BY <2>12 DEF RedirectEdge, SystemRedirect, Flush, SysFlush
    <3> QED
      BY <2>2, <3>1, <3>2
  <2>13. CASE SleepEdge(irq, v)
    <3>1. sys'.state # "IDLE"
      BY <2>1, <2>13 DEF SleepEdge, SysReg
    <3> QED
      BY <2>9, <2>13, <3>1 DEF SleepEdge
  <2> QED
    BY <1>2, <2>3, <2>4, <2>5, <2>6, <2>7, <2>8, <2>10, <2>11, <2>12, <2>13
       DEF Edge
<1> QED
  BY <1>1, <1>2 DEF CoreNext

(* The inductive invariant holds of every behaviour of the core.           *)
THEOREM Handover == CoreSpec => []HandoverInv
<1>1. CoreInit => HandoverInv
  <2> SUFFICES ASSUME CoreInit PROVE HandoverInv
    OBVIOUS
  <2>1. sysBusy = FALSE /\ sys.state = "IDLE"
    BY DEF CoreInit, FetchInit
  <2>2. /\ ~ex.valid /\ ~Defers(ex) /\ ~mem.valid /\ ~Defers(mem) /\ ~mem.jumped
        /\ bus.pending = FALSE
    BY DEF CoreInit, NoEx, NoMem, IdleBus, Defers
  <2>3. BusMatchesMem
    BY <2>2 DEF BusMatchesMem, MemAccess, BusReady
  <2> QED
    BY <2>1, <2>2, <2>3 DEF HandoverInv, SlowPathAlone
<1>2. CoreTypeOK /\ HandoverInv /\ [CoreNext]_coreVars => HandoverInv'
  BY HandoverStep
<1> QED
  BY <1>1, <1>2, CoreTypeCorrect, PTL DEF CoreSpec

(* For every ROM, memory map, latency and interrupt pattern: the bus is    *)
(* busy exactly while MEM waits, for the very access MEM holds, and a      *)
(* strobe never meets a busy bus.                                          *)
THEOREM BusMatches == CoreSpec => []BusMatchesMem
<1>1. HandoverInv => BusMatchesMem
  BY DEF HandoverInv
<1> QED
  BY <1>1, Handover, PTL

(* The slow path of privileged.v only works behind an empty pipeline.      *)
THEOREM SlowPathIsAlone == CoreSpec => []SlowPathAlone
<1>1. HandoverInv => SlowPathAlone
  BY DEF HandoverInv
<1> QED
  BY <1>1, Handover, PTL

(***************************************************************************)
(* The front end inside the core is the one of Fetch.                      *)
(***************************************************************************)

(* A clock edge of the core is a clock edge of the front end, as long as a *)
(* data read takes the second port only where Fetch allows it.             *)
LEMMA CoreStepIsFetchStep ==
  ASSUME ImemBusRead => ImemDataReads = TRUE, [CoreNext]_coreVars
  PROVE  [FetchNext]_fetchVars
<1>1. CASE UNCHANGED coreVars
  BY <1>1 DEF coreVars
<1>2. ASSUME NEW irq \in Interrupts, NEW v \in ReadData, Edge(irq, v)
      PROVE  FetchNext
  <2>1. ImemBusRead \in PortB
    BY DEF PortB, ImemBusRead
  <2>2. Block(irq) \in BOOLEAN
    BY DEF Block, Stalled, HazardStall
  <2>3. CASE IssueEdge(irq, v)
    BY <2>1, <2>3 DEF IssueEdge, FetchNext, Issue
  <2>4. CASE StallEdge(irq, v)
    BY <2>1, <2>4 DEF StallEdge, FetchNext
  <2>5. CASE MispredictEdge(irq, v)
    BY <2>2, <2>5 DEF MispredictEdge, FetchNext, Mispredict
  <2>6. CASE FaultEdge(irq, v) \/ FarEdge(irq, v)
    BY <2>2, <2>6 DEF FaultEdge, FarEdge, FetchNext
  <2>7. CASE EnterEdge(irq, v)
    BY <2>7 DEF EnterEdge, FetchNext
  <2>8. CASE ExecEdge(irq, v) \/ TrapEdge(irq, v) \/ SleepEdge(irq, v)
    BY <2>8 DEF ExecEdge, TrapEdge, SleepEdge, FetchNext
  <2>9. CASE RedirectEdge(irq, v)
    BY <2>9 DEF RedirectEdge, FetchNext, SystemRedirect
  <2> QED
    BY <1>2, <2>3, <2>4, <2>5, <2>6, <2>7, <2>8, <2>9 DEF Edge
<1> QED
  BY <1>1, <1>2 DEF CoreNext

(* The core implements the front end driven by an arbitrary back end:      *)
(* every stall, hold, flush and redirect the pipeline really produces is   *)
(* one that Fetch considers.                                               *)
THEOREM CoreImplementsFetch ==
  ASSUME ImemDataReads = TRUE
  PROVE  CoreSpec => FetchSpec
<1>1. CoreInit => FetchInit
  BY DEF CoreInit
<1>2. [CoreNext]_coreVars => [FetchNext]_fetchVars
  BY CoreStepIsFetchStep
<1> QED
  BY <1>1, <1>2, PTL DEF CoreSpec, FetchSpec

(* In the whole core, with its real stalls, flushes and redirects, ID      *)
(* decodes exactly the instructions of the predicted path, as long as no   *)
(* load reads ROM.                                                         *)
THEOREM CoreOnPath ==
  ASSUME ImemDataReads = FALSE
  PROVE  CoreSpec /\ [][~ImemBusRead]_coreVars => []IdOnPath
<1>1. CoreInit => FetchInit
  BY DEF CoreInit
<1>2. [CoreNext]_coreVars /\ [~ImemBusRead]_coreVars => [FetchNext]_fetchVars
  <2>1. CASE UNCHANGED coreVars
    BY <2>1 DEF coreVars
  <2>2. CASE ~ImemBusRead
    BY <2>2, CoreStepIsFetchStep
  <2> QED
    BY <2>1, <2>2
<1>3. CoreSpec /\ [][~ImemBusRead]_coreVars => FetchSpec
  BY <1>1, <1>2, PTL DEF CoreSpec, FetchSpec
<1> QED
  BY <1>3, FetchOnPath, PTL

(***************************************************************************)
(* The pipeline is a sequential machine.                                   *)
(*                                                                         *)
(* What the registers of the pipeline mean for the machine of Machine: the *)
(* instruction of each stage is the one ROM holds at its address, it has   *)
(* computed with the registers its predecessors leave, and its successor   *)
(* is the instruction behind it.                                           *)
(***************************************************************************)
At(a) == imem[Low(a)]

Pipelined ==
  { "alu", "addi", "mul", "div", "load", "store", "branch", "jal", "jalr" }

(* The instruction of a stage is one that ROM holds.                       *)
FromRom(s) == InImem(s.pc) /\ s.op = At(s.pc).op /\ s.rd = At(s.pc).rd
                /\ s.op \in Pipelined

(* What instruction i at address a writes to rd, and where it continues,   *)
(* with the operands x and y.                                              *)
Outcome(i, a, x, y) ==
  CASE IsJump(i.op)  -> Plus4(a)
    [] i.op = "mul"  -> Product(x, y)
    [] i.op = "div"  -> Quotient(x, y)
    [] i.op = "alu"  -> Sum(x, y)
    [] OTHER         -> Sum(x, i.target)
Successor(i, a, x, y) ==
  IF i.op = "jal" THEN i.target
  ELSE IF i.op = "jalr" THEN Sum(x, i.target)
  ELSE IF i.op = "branch" /\ BranchTaken(x, y) THEN i.target
  ELSE Plus4(a)

(* The registers as the instructions of WB, and of MEM and WB, leave them. *)
PastWb(r)  == IF Produces(wb, r) THEN wb.value ELSE regs[r]
PastMem(r) == IF Produces(mem, r) THEN mem.result ELSE PastWb(r)
Loading(r) == Produces(mem, r) /\ mem.op = "load"

(* The instruction behind the one in MEM, and behind the one in WB.        *)
BehindMem == IF ex.valid THEN ex.pc ELSE expect
BehindWb  == IF mem.valid THEN mem.pc ELSE IF ex.valid THEN ex.pc
             ELSE IF sys.state = "REDIRECT" THEN sys.redirect ELSE expect

MemMem == Undo(dmem, mem)

WbMeaning ==
  wb.valid =>
    LET i == At(wb.pc)
        x == regs[i.rs1]
        y == regs[i.rs2]
    IN
    /\ FromRom(wb)
    /\ WritesRd(wb.op) /\ wb.op # "load" => wb.value = Outcome(i, wb.pc, x, y)
    /\ AccessesMemory(wb.op) =>
         wb.addr = Sum(x, i.target) /\ ~BadRequest(wb.op, wb.addr)
    /\ wb.op = "load" =>
         wb.value \in IF wb.addr \in DataAddress THEN {ArchMem[wb.addr]}
                      ELSE LoadValues
    /\ wb.op = "store" /\ wb.addr \in DataAddress => MemMem[wb.addr] = y
    /\ BehindWb = Successor(i, wb.pc, x, y)

MemMeaning ==
  mem.valid =>
    LET i == At(mem.pc)
        x == PastWb(i.rs1)
        y == PastWb(i.rs2)
    IN
    /\ FromRom(mem)
    /\ WritesRd(mem.op) /\ mem.op # "load" => mem.result = Outcome(i, mem.pc, x, y)
    /\ AccessesMemory(mem.op) => mem.addr = Sum(x, i.target)
    /\ mem.op = "store" /\ mem.addr \in DataAddress => dmem[mem.addr] = y
    /\ ~Defers(mem) =>
         /\ (IF mem.jumped THEN mem.target ELSE Plus4(mem.pc))
              = Successor(i, mem.pc, x, y)
         /\ BehindMem = IF mem.jumped THEN Low(mem.target) ELSE Plus4(mem.pc)
    /\ Defers(mem) =>
         /\ wb.valid /\ wb.op = "load" /\ wb.rd # 0
         /\ mem.dep1 => wb.rd = i.rs1
         /\ mem.dep2 => wb.rd = i.rs2 /\ mem.op = "branch"
         /\ mem.op = "jalr" => mem.other = i.target
         /\ mem.op = "branch" => mem.target = i.target
         /\ mem.op = "branch" /\ ~mem.dep2 => mem.other = y
         /\ ~mem.dep1 => mem.other = x
         /\ BehindMem = IF mem.taken THEN mem.ptarget ELSE Plus4(mem.pc)

ExMeaning ==
  ex.valid =>
    LET i == At(ex.pc) IN
    /\ FromRom(ex)
    /\ ex.target = i.target
    /\ ex.taken => ex.op \in {"jal", "branch", "jalr"}
    /\ ex.op = "jal" => ex.a = 0
    /\ ex.op # "jal" /\ ~ex.dep1 => ex.a = PastMem(i.rs1) /\ ~Loading(i.rs1)
    /\ IF ex.op \in {"alu", "mul", "div", "branch"}
       THEN ~ex.dep2 => ex.b = PastMem(i.rs2) /\ ~Loading(i.rs2)
       ELSE ex.b = i.target
    /\ ex.op = "store" => ex.data = PastMem(i.rs2) /\ ~Loading(i.rs2)
    /\ ex.dep1 => Loading(i.rs1)
    /\ ex.dep2 => Loading(i.rs2) /\ ex.op = "branch"
    /\ expect = IF ex.taken THEN ex.ptarget ELSE Plus4(ex.pc)

BusMeaning ==
  /\ MemAccess =>
       bus.kind = IF BadRequest(mem.op, mem.addr) THEN "error"
                  ELSE Region[mem.addr]
  /\ MemAccess /\ mem.op = "load" /\ mem.addr \in DataAddress =>
       bus.data = dmem[mem.addr]
  /\ bus.age = 1 => MemAccess /\ bus.kind = "mmio" /\ ~wb.valid

SysMeaning ==
  LET i == At(sys.pc) IN
  /\ sys.state = "EXEC" =>
       /\ InImem(sys.pc) /\ sys.op = i.op /\ sys.rd = i.rd
       /\ sys.op \in CsrOps \cup {"mret", "wfi"}
       /\ sys.src = regs[i.rs1]
  /\ sys.state = "TRAP" =>
       \/ sys.cause = "interrupt" /\ csr.mie /\ csr.ie
       \/ /\ sys.cause = "access"
          /\ InImem(sys.pc) /\ i.op \in {"load", "store"}
          /\ BadRequest(i.op, Sum(regs[i.rs1], i.target))
       \/ sys.cause = TrapCause(i, sys.pc) /\ sys.cause # "none"

SequentialInv ==
  /\ imem[Words - 1].op # "branch"
  /\ idReg.taken => idReg.word.op \in {"jal", "branch", "jalr"}
  /\ WbMeaning /\ MemMeaning /\ ExMeaning /\ BusMeaning /\ SysMeaning

(* What one clock edge does to the registers behind EX: EX hands its       *)
(* instruction to an empty MEM, MEM waits for the bus, or MEM empties.     *)
LEMMA MemMoves ==
  ASSUME CoreTypeOK, HandoverInv, NEW irq, NEW v, NEW slot, Back(irq, v, slot)
  PROVE  /\ ExFire =>
              /\ ex.valid /\ ~Hold /\ ~SysFlush /\ ~LateMispredict
              /\ (mem.valid => MemRetire)
              /\ mem'.valid /\ mem'.pc = ex.pc /\ mem'.op = ex.op
              /\ mem'.rd = ex.rd /\ mem'.result = ExResult
              /\ mem'.addr = ExAddr /\ mem'.target = ExTarget
              /\ mem'.jumped = ExJumps /\ mem'.taken = ex.taken
              /\ mem'.ptarget = ex.ptarget /\ mem'.dep1 = ex.dep1
              /\ mem'.dep2 = ex.dep2
              /\ mem'.other = IF ex.dep1 THEN ex.b ELSE ex.a
              /\ mem'.old = IF ExAddr \in DataAddress THEN dmem[ExAddr] ELSE 0
         /\ ~ExFire /\ mem'.valid =>
              mem' = mem /\ mem.valid /\ MemWait /\ ~Flush /\ Hold /\ ex' = ex
         /\ mem'.valid => ~sysBusy
<1>1. /\ mem' = NextMem /\ ex' = NextEx(irq, v, slot)
      /\ mem.valid \in BOOLEAN /\ ex.valid \in BOOLEAN
      /\ sysBusy => ~mem.valid /\ ~ex.valid
      /\ sys.state = "REDIRECT" => sysBusy
  BY DEF Back, CoreTypeOK, MemReg, ExReg, HandoverInv, SlowPathAlone
<1>2. ASSUME ExFire
      PROVE  /\ ex.valid /\ ~Hold /\ ~SysFlush /\ ~LateMispredict /\ ~sysBusy
             /\ ~MemoryHold /\ ~ExecuteHold
  BY <1>1, <1>2 DEF ExFire, SysFlush, Hold, MemoryHold
<1>3. ASSUME ExFire
      PROVE  /\ (mem.valid => MemRetire)
             /\ mem'.valid /\ mem'.pc = ex.pc /\ mem'.op = ex.op
             /\ mem'.rd = ex.rd /\ mem'.result = ExResult
             /\ mem'.addr = ExAddr /\ mem'.target = ExTarget
             /\ mem'.jumped = ExJumps /\ mem'.taken = ex.taken
             /\ mem'.ptarget = ex.ptarget /\ mem'.dep1 = ex.dep1
             /\ mem'.dep2 = ex.dep2
             /\ mem'.other = IF ex.dep1 THEN ex.b ELSE ex.a
             /\ mem'.old = IF ExAddr \in DataAddress THEN dmem[ExAddr] ELSE 0
  <2>1. mem' = [valid |-> TRUE, pc |-> ex.pc, op |-> ex.op, rd |-> ex.rd,
        result |-> ExResult, addr |-> ExAddr, target |-> ExTarget,
        jumped |-> ExJumps, taken |-> ex.taken, ptarget |-> ex.ptarget,
        dep1 |-> ex.dep1, dep2 |-> ex.dep2,
        other |-> IF ex.dep1 THEN ex.b ELSE ex.a,
        old |-> IF ExAddr \in DataAddress THEN dmem[ExAddr] ELSE 0]
    BY <1>1, <1>2, <1>3 DEF NextMem
  <2>2. (mem.valid => MemRetire)
    BY <1>1, <1>2, <1>3 DEF MemRetire
  <2>3. /\ mem'.valid /\ mem'.pc = ex.pc /\ mem'.op = ex.op
        /\ mem'.rd = ex.rd /\ mem'.result = ExResult
        /\ mem'.addr = ExAddr /\ mem'.target = ExTarget
        /\ mem'.ptarget = ex.ptarget
        /\ mem'.other = IF ex.dep1 THEN ex.b ELSE ex.a
        /\ mem'.old = IF ExAddr \in DataAddress THEN dmem[ExAddr] ELSE 0
    BY <2>1
  <2>4. mem'.jumped = ExJumps
    BY <2>1, Zenon
  <2>5. mem'.taken = ex.taken /\ mem'.dep1 = ex.dep1 /\ mem'.dep2 = ex.dep2
    BY <2>1, Zenon
  <2> QED
    BY <2>2, <2>3, <2>4, <2>5, Zenon
<1>4. ASSUME ~ExFire, mem'.valid
      PROVE  mem' = mem /\ mem.valid /\ MemWait /\ ~Flush /\ Hold /\ ex' = ex
  <2>1. ~LateMispredict /\ ~SysFlush
    BY <1>1, <1>4 DEF NextMem, NoMem
  <2>2. CASE MemoryHold \/ sysBusy
    <3>1. mem' = mem /\ mem.valid /\ ~sysBusy /\ MemoryHold
      BY <1>1, <1>4, <2>1, <2>2 DEF NextMem
    <3>2. MemWait /\ ~Flush /\ Hold
      BY <2>1, <3>1, <1>4
         DEF Flush, Resolve, MemoryHold, SysFlush, Hold
    <3> QED
      BY <1>1, <3>1, <3>2 DEF NextEx
  <2>3. CASE ~MemoryHold /\ ~sysBusy
    <3>1. ExecuteHold \/ ~ex.valid
      BY <1>4, <2>1, <2>3 DEF ExFire, Hold, SysFlush
    <3>2. mem' = NoMem
      BY <1>1, <2>1, <2>3, <3>1 DEF NextMem
    <3> QED
      BY <1>4, <3>2 DEF NoMem
  <2> QED
    BY <2>2, <2>3
<1>5. mem'.valid => ~sysBusy
  BY <1>1, <1>2, <1>4
<1> QED
  BY <1>2, <1>3, <1>4, <1>5, Zenon

(* WB receives what MEM retires, and nothing else.                         *)
LEMMA WbMoves ==
  ASSUME CoreTypeOK, NEW irq, NEW v, NEW slot, Back(irq, v, slot)
  PROVE  /\ wb'.valid = MemRetire
         /\ MemRetire =>
              /\ mem.valid /\ ~sysBusy /\ ~MemWait /\ ~MemFault
              /\ wb'.pc = mem.pc /\ wb'.op = mem.op /\ wb'.rd = mem.rd
              /\ wb'.value = MemData(v) /\ wb'.addr = mem.addr
              /\ wb'.old = mem.old
BY DEF Back, NextWb, NoWb, MemRetire, MemoryHold, CoreTypeOK, MemReg, FetchTypeOK

(* EX keeps its instruction while it is held and takes that of ID when     *)
(* nothing stalls; otherwise it is empty.                                  *)
LEMMA ExMoves ==
  ASSUME CoreTypeOK, NEW irq, NEW v, NEW slot, Back(irq, v, slot), ex'.valid
  PROVE  /\ ~Flush
         /\ \/ Hold /\ ex' = ex
            \/ ~Block(irq) /\ ex' = Decode(slot, v)
<1>1. ex' = NextEx(irq, v, slot) /\ ex \in ExReg
  BY DEF Back, CoreTypeOK
<1>2. ~Flush
  BY <1>1 DEF NextEx, NoEx
<1>3. CASE Hold
  BY <1>1, <1>2, <1>3 DEF NextEx
<1>4. CASE ~Hold /\ Stalled(irq)
  BY <1>1, <1>2, <1>4 DEF NextEx, ExReg
<1>5. CASE ~Hold /\ ~Stalled(irq)
  BY <1>1, <1>2, <1>5 DEF NextEx, Block
<1> QED
  BY <1>2, <1>3, <1>4, <1>5

(* The registers after an edge are those WB leaves, unless a csr access    *)
(* executes.                                                               *)
LEMMA RegsMove ==
  ASSUME CoreTypeOK, HandoverInv, NEW irq, NEW v, NEW slot, Back(irq, v, slot),
         sys.state # "EXEC"
  PROVE  \A r \in Regs : regs'[r] = PastWb(r)
BY DEF Back, NextRegs, PastWb, Produces, CoreTypeOK, WbReg

(* What the instruction of WB leaves after an edge is what the one of MEM  *)
(* would leave before.                                                     *)
LEMMA PastWbMoves ==
  ASSUME CoreTypeOK, HandoverInv, NEW irq, NEW v, NEW slot, Back(irq, v, slot),
         sys.state # "EXEC"
  PROVE  \A r \in Regs :
           /\ MemRetire /\ Produces(mem, r) => PastWb(r)' = MemData(v)
           /\ ~(MemRetire /\ Produces(mem, r)) => PastWb(r)' = PastWb(r)
           /\ MemRetire /\ ~Loading(r) => PastWb(r)' = PastMem(r)
<1> TAKE r \in Regs
<1>1. regs'[r] = PastWb(r)
  BY RegsMove
<1>2. PastWb(r)' = IF Produces(wb, r)' THEN wb'.value ELSE regs'[r]
  BY DEF PastWb
<1>3. Produces(wb, r)' <=> MemRetire /\ Produces(mem, r)
  BY WbMoves DEF Produces
<1>4. MemRetire => wb'.value = MemData(v)
  BY WbMoves
<1>5. ~Loading(r) /\ Produces(mem, r) => MemData(v) = mem.result
  BY DEF Loading, MemData
<1> QED
  BY <1>1, <1>2, <1>3, <1>4, <1>5 DEF PastMem, MemRetire

(* What a clock edge does to the path: where the next instruction is       *)
(* expected, what ID hands over, and when the slow path takes the lead.    *)
PathMoves(irq, slot) ==
  /\ imem' = imem
  /\ Resolve => expect' = ResolveTarget
  /\ ~Flush /\ ~Block(irq) =>
       IF IdValid
       THEN /\ slot.valid /\ slot.pc = expect /\ slot.word = At(expect)
            /\ IdWord = At(expect)
            /\ slot.taken => slot.word.op \in {"jal", "branch", "jalr"}
            /\ InImem(expect) /\ At(expect).op \in Pipelined
            /\ expect' = IF slot.taken THEN slot.target ELSE Plus4(expect)
       ELSE ~slot.valid /\ expect' = expect
  /\ ~Resolve /\ (Flush \/ Block(irq)) /\ sys.state # "REDIRECT" =>
       expect' = expect
  /\ FarRedirect => sys'.state = "REDIRECT" /\ sys'.redirect = MemTarget
  /\ ~sysBusy /\ ~FarRedirect => sys'.state # "REDIRECT"
  /\ idReg'.taken => idReg'.word.op \in {"jal", "branch", "jalr"}

(* Every clock edge follows the path.                                      *)
LEMMA EdgeFollowsPath ==
  ASSUME CoreTypeOK, HandoverInv, IdOnPath,
         idReg.taken => idReg.word.op \in {"jal", "branch", "jalr"},
         NEW irq \in Interrupts, NEW v \in ReadData, Edge(irq, v)
  PROVE  \E slot : Back(irq, v, slot) /\ PathMoves(irq, slot)
<1>1. /\ sysBusy = (sys.state # "IDLE") /\ sysBusy \in BOOLEAN /\ sys \in SysReg
      /\ sysBusy => ~ex.valid /\ ~mem.valid
  BY DEF HandoverInv, CoreTypeOK, FetchTypeOK, SlowPathAlone
<1>2. /\ sysBusy => Block(irq) /\ ~Resolve /\ ~MemFault /\ ~FarRedirect
      /\ MemFault => ~FarRedirect
  BY <1>1, ControlIsNoAccess
     DEF Block, Stalled, SysStop, Resolve, MemFault, MemAccess, FarRedirect
(* An edge that clears the IF/ID register or keeps it.                     *)
<1>3. ASSUME idReg' = Bubble \/ idReg' = idReg
      PROVE  idReg'.taken => idReg'.word.op \in {"jal", "branch", "jalr"}
  BY <1>3 DEF Bubble
<1>4. CASE IssueEdge(irq, v)
  <2>1. PICK p0 \in Predictions(IfWord), p1 \in Predictions(PreWord) :
          Advance(ImemBusRead, p0, p1) /\ Back(irq, v, IdSlot(p0))
    BY <1>4 DEF IssueEdge
  <2> DEFINE slot == IdSlot(p0)
  <2>2. /\ slot.valid = IdValid /\ slot.pc = IdPc /\ slot.word = IdWord
    BY DEF IdValid, IdPc, IdWord, IdSlot, IfSlot
  <2>3. ~sysBusy /\ sys' = sys /\ imem' = imem /\ ~Flush /\ ~Block(irq)
        /\ expect' = IF IdValid THEN Follow(slot) ELSE expect
    BY <1>4, <2>1 DEF IssueEdge, Advance
  <2>4. ASSUME NEW w, NEW p \in Predictions(w), p.taken
        PROVE  w.op \in {"jal", "branch", "jalr"}
    BY <2>4 DEF Predictions
  <2>5. Effective(p0).taken => IfWord.op \in {"jal", "branch", "jalr"}
    BY <2>4 DEF Effective, NotTaken
  <2>6. slot.taken => slot.word.op \in {"jal", "branch", "jalr"}
    BY <2>5 DEF IdSlot, IfSlot
  <2>7. idReg'.taken => idReg'.word.op \in {"jal", "branch", "jalr"}
    BY <2>1, <2>4, <2>5 DEF Advance, NextIdReg, Bubble, PreSlot, IfSlot
  <2>8. ASSUME IdValid
        PROVE  /\ IdPc = expect /\ IdWord = At(expect)
               /\ InImem(expect) /\ At(expect).op \in Pipelined
    <3>1. IdPc = expect /\ IdWord = At(expect)
      BY <2>3, <2>8 DEF IdOnPath, At
    <3>2. ~IsSerial(IdWord, IdPc)
      BY <2>3, <2>8 DEF Block, Stalled, SysStop
    <3>3. IdWord.op \in Ops
      BY IdTypes DEF CoreTypeOK
    <3> QED
      BY <3>1, <3>2, <3>3 DEF IsSerial, Ops, Pipelined
  <2>9. ~FarRedirect /\ ~Resolve
    BY <2>3 DEF Flush, SysFlush
  <2>10. ASSUME IdValid
         PROVE  expect' = IF slot.taken THEN slot.target ELSE Plus4(expect)
    BY <2>2, <2>3, <2>8, <2>10 DEF Follow
  <2> HIDE DEF slot
  <2>11. PathMoves(irq, slot)
    BY <1>1, <2>2, <2>3, <2>6, <2>7, <2>8, <2>9, <2>10 DEF PathMoves
  <2> QED
    BY <2>1, <2>11 DEF slot
<1>5. CASE StallEdge(irq, v)
  <2>1. /\ ~Flush /\ Block(irq) /\ Back(irq, v, Bubble) /\ sys' = sys
        /\ imem' = imem /\ expect' = expect /\ idReg' = idReg /\ ~sysBusy
        /\ ~FarRedirect /\ ~Resolve
    BY <1>5 DEF StallEdge, Stall, Blocked, Flush, SysFlush
  <2> QED
    BY <1>1, <1>3, <2>1 DEF PathMoves
<1>6. CASE MispredictEdge(irq, v)
  <2>1. /\ Resolve /\ Flush /\ Back(irq, v, Bubble) /\ sys' = sys
        /\ imem' = imem /\ expect' = ResolveTarget /\ idReg' = Bubble /\ ~sysBusy
        /\ ~FarRedirect
    BY <1>6 DEF MispredictEdge, Mispredict, Flushed, Flush, Resolve
  <2> QED
    BY <1>1, <1>3, <2>1 DEF PathMoves
<1>7. CASE FaultEdge(irq, v)
  <2>1. /\ MemFault /\ ~Resolve /\ Flush /\ Back(irq, v, Bubble)
        /\ sys'.state = "TRAP"
        /\ imem' = imem /\ expect' = expect /\ idReg' = Bubble /\ ~sysBusy
        /\ ~FarRedirect
    BY <1>1, <1>2, <1>7
       DEF FaultEdge, Squash, Flushed, Flush, Resolve, SysFlush, SysReg
  <2> QED
    BY <1>1, <1>3, <2>1 DEF PathMoves
<1>8. CASE FarEdge(irq, v)
  <2>1. /\ ~Resolve /\ Flush /\ Back(irq, v, Bubble)
        /\ sys'.state = "REDIRECT" /\ sys'.redirect = MemTarget
        /\ imem' = imem /\ expect' = expect /\ idReg' = Bubble /\ ~sysBusy
        /\ FarRedirect
    BY <1>1, <1>8
       DEF FarEdge, Squash, Flushed, Flush, Resolve, SysFlush, SysReg
  <2> QED
    BY <1>1, <1>3, <2>1 DEF PathMoves
<1>9. CASE EnterEdge(irq, v)
  <2>1. /\ ~Resolve /\ Block(irq) /\ Back(irq, v, Bubble) /\ ~FarRedirect
        /\ imem' = imem /\ expect' = expect /\ idReg' = idReg /\ ~sysBusy
    BY <1>9 DEF EnterEdge, EnterSystem, Blocked, TakesSystem, Block, Stalled
  <2>2. sys'.state \in {"EXEC", "TRAP"}
    BY <1>1, <1>9 DEF EnterEdge, SysReg
  <2> QED
    BY <1>1, <1>3, <2>1, <2>2 DEF PathMoves
<1>10. CASE ExecEdge(irq, v) \/ TrapEdge(irq, v) \/ SleepEdge(irq, v)
  <2>1. /\ sysBusy /\ Back(irq, v, Bubble) /\ imem' = imem
        /\ expect' = expect /\ idReg' = idReg
    BY <1>10 DEF ExecEdge, TrapEdge, SleepEdge, Drain, Blocked
  <2> QED
    BY <1>1, <1>2, <1>3, <2>1 DEF PathMoves
<1>11. CASE RedirectEdge(irq, v)
  <2>1. /\ sysBusy /\ Back(irq, v, Bubble) /\ imem' = imem /\ idReg' = Bubble
        /\ sys.state = "REDIRECT"
    BY <1>11 DEF RedirectEdge, SystemRedirect, Flushed
  <2> QED
    BY <1>1, <1>2, <1>3, <2>1 DEF PathMoves
<1> QED
  BY <1>4, <1>5, <1>6, <1>7, <1>8, <1>9, <1>10, <1>11 DEF Edge

(* A MEM that waits for the bus is not disturbed.                          *)
LEMMA MemWaits ==
  ASSUME CoreTypeOK, HandoverInv, NEW irq, NEW v, NEW slot, Back(irq, v, slot),
         MemWait
  PROVE  /\ mem' = mem /\ ex' = ex /\ ~Flush /\ ~MemRetire /\ ~ExFire /\ Hold
         /\ bus.pending /\ ~BusAck
<1>1. /\ mem' = NextMem /\ ex' = NextEx(irq, v, slot)
      /\ MemAccess /\ ~BusAck /\ bus.pending
      /\ ~sysBusy /\ sys.state # "REDIRECT" /\ Hold /\ MemoryHold
  BY DEF Back, MemWait, HandoverInv, SlowPathAlone, BusMatchesMem, Hold, MemoryHold
<1>2. ~LateMispredict /\ ~FarRedirect /\ ~MemFault /\ ~ExFire /\ ~MemRetire
  BY <1>1, ControlIsNoAccess DEF MemFault, ExFire, MemRetire
<1>3. ~Flush
  BY <1>1, <1>2 DEF Flush, Resolve, SysFlush
<1> QED
  BY <1>1, <1>2, <1>3 DEF NextMem, NextEx, SysFlush

(* When MEM moves on, the registers behind it after the edge are those     *)
(* behind MEM before it, except for what is being loaded.                  *)
LEMMA OperandsMove ==
  ASSUME CoreTypeOK, HandoverInv, NEW irq, NEW v, NEW slot, Back(irq, v, slot),
         ~Flush \/ ExFire, ~MemWait, ex.valid, NEW r \in Regs, ~Loading(r)
  PROVE  PastWb(r)' = PastMem(r)
<1>1. ~sysBusy /\ sys.state # "EXEC"
  BY DEF HandoverInv, SlowPathAlone
<1>2. mem.valid => MemRetire
  <2>1. ~MemFault
    BY DEF Flush, SysFlush, ExFire, Hold, MemoryHold
  <2> QED
    BY <1>1, <2>1 DEF MemRetire, MemoryHold
<1>3. CASE MemRetire
  BY <1>1, <1>3, PastWbMoves
<1>4. CASE ~MemRetire
  <2>1. PastWb(r)' = PastWb(r)
    BY <1>1, <1>4, PastWbMoves
  <2> QED
    BY <1>2, <1>4, <2>1 DEF PastMem, Produces
<1> QED
  BY <1>3, <1>4

(* Where the path continues behind EX/MEM after an edge.                   *)
LEMMA BehindMoves ==
  ASSUME CoreTypeOK, HandoverInv, NEW irq, NEW v, NEW slot, Back(irq, v, slot),
         PathMoves(irq, slot), ~sysBusy
  PROVE  /\ Resolve => BehindMem' = ResolveTarget
         /\ ~Flush /\ ~Hold => BehindMem' = expect
         /\ ~Flush /\ Hold => BehindMem' = BehindMem
<1>1. ex' = NextEx(irq, v, slot) /\ ex \in ExReg /\ sys.state # "REDIRECT"
  BY DEF Back, CoreTypeOK, HandoverInv
<1>2. BehindMem' = IF ex'.valid THEN ex'.pc ELSE expect'
  BY DEF BehindMem
<1>3. ASSUME Resolve
      PROVE  BehindMem' = ResolveTarget
  BY <1>1, <1>2, <1>3 DEF PathMoves, NextEx, NoEx, Flush
<1>4. ASSUME ~Flush, ~Hold
      PROVE  BehindMem' = expect
  <2>1. CASE Block(irq)
    <3>1. ~ex'.valid
      BY <1>4, <2>1, ExMoves
    <3>2. expect' = expect
      BY <1>1, <1>4, <2>1 DEF PathMoves, Flush
    <3> QED
      BY <1>2, <3>1, <3>2
  <2>2. CASE ~Block(irq)
    <3>1. ex' = Decode(slot, v)
      BY <1>1, <1>4, <2>2 DEF NextEx, Block
    <3>2. ex'.valid = slot.valid /\ ex'.pc = slot.pc
      BY <3>1 DEF Decode
    <3> QED
      BY <1>2, <1>4, <2>2, <3>2 DEF PathMoves
  <2> QED
    BY <2>1, <2>2
<1>5. ASSUME ~Flush, Hold
      PROVE  BehindMem' = BehindMem
  BY <1>1, <1>2, <1>5 DEF PathMoves, NextEx, Block, Flush, BehindMem
<1> QED
  BY <1>3, <1>4, <1>5

(* Inside IMEM, and with the word behind inside IMEM, addresses and        *)
(* indices agree.                                                          *)
LEMMA LowFacts ==
  ASSUME NEW a \in Address
  PROVE  /\ InImem(a) => Low(a) = a
         /\ InImem(a) /\ a # Words - 1 => Low(Plus4(a)) = Plus4(a)
         /\ Sum(0, a) = a
BY WordsAssumption DEF InImem, Low, Plus4, Address, Space, Sum

(* The words of ROM are instructions.                                      *)
LEMMA AtType ==
  ASSUME CoreTypeOK, NEW a \in Address
  PROVE  /\ At(a) \in Instruction /\ At(a).op \in Ops /\ At(a).rd \in Regs
         /\ At(a).rs1 \in Regs /\ At(a).rs2 \in Regs /\ At(a).target \in Address
<1>1. At(a) \in Instruction
  BY AddressArithmetic DEF At, CoreTypeOK, FetchTypeOK
<1> QED
  BY <1>1 DEF Instruction

(* A branch is never in the last word of IMEM.                             *)
LEMMA BranchNotLast ==
  ASSUME CoreTypeOK, imem[Words - 1].op # "branch", NEW a \in Address,
         InImem(a), At(a).op = "branch"
  PROVE  Low(Plus4(a)) = Plus4(a)
<1>1. a # Words - 1
  BY WordsAssumption DEF At, Low, Address, Space
<1> QED
  BY <1>1, LowFacts

(* What EX computes: the result, address and target of its instruction     *)
(* for the operands that older instructions leave.                         *)
LEMMA ExComputes ==
  ASSUME CoreTypeOK, HandoverInv, MulDivFresh, ExMeaning, ExFire
  PROVE  LET i == At(ex.pc)
             x == PastMem(i.rs1)
             y == PastMem(i.rs2)
         IN  /\ WritesRd(ex.op) /\ ex.op # "load" =>
                  ExResult = Outcome(i, ex.pc, x, y)
             /\ AccessesMemory(ex.op) => ExAddr = Sum(x, i.target)
             /\ ~Defers(ex) =>
                  (IF ExJumps THEN ExTarget ELSE Plus4(ex.pc))
                    = Successor(i, ex.pc, x, y)
<1> DEFINE i == At(ex.pc)
           x == PastMem(i.rs1)
           y == PastMem(i.rs2)
<1>1. /\ ex.valid /\ ex.op = i.op /\ ex.op \in Pipelined
      /\ ex.target = i.target
      /\ ex.op = "jal" => ex.a = 0
      /\ ex.op # "jal" /\ ~ex.dep1 => ex.a = x
      /\ ex.op \in {"alu", "mul", "div", "branch"} /\ ~ex.dep2 => ex.b = y
      /\ ex.op \notin {"alu", "mul", "div", "branch"} => ex.b = i.target
      /\ ex.dep2 => ex.op = "branch"
  BY DEF ExFire, ExMeaning, FromRom
<1>2. Defers(ex) => ex.op \in {"branch", "jalr"}
  BY DEF HandoverInv
<1>3. Sum(0, i.target) = i.target
  BY AtType, LowFacts DEF CoreTypeOK, ExReg
<1>4. ~ExecuteHold
  BY DEF ExFire, Hold
<1>5. ex.dep1 \in BOOLEAN /\ ex.dep2 \in BOOLEAN
  BY DEF CoreTypeOK, ExReg
<1> HIDE DEF i, x, y
<1>6. ASSUME WritesRd(ex.op), ex.op # "load"
      PROVE  ExResult = Outcome(i, ex.pc, x, y)
  <2>1. CASE IsJump(ex.op)
    BY <1>1, <2>1 DEF ExResult, Outcome, IsJump
  <2>2. CASE ex.op = "mul"
    <3>1. mul.product = Product(x, y)
      BY <1>1, <1>2, <1>4, <2>2 DEF MulDivFresh, ExecuteHold, Defers
    <3> QED
      BY <1>1, <2>2, <3>1 DEF ExResult, Outcome, IsJump
  <2>3. CASE ex.op = "div"
    <3>1. div.quotient = Quotient(x, y)
      BY <1>1, <1>2, <1>4, <2>3 DEF MulDivFresh, ExecuteHold, Defers
    <3> QED
      BY <1>1, <2>3, <3>1 DEF ExResult, Outcome, IsJump
  <2>4. CASE ex.op \in {"alu", "addi"}
    BY <1>1, <1>2, <2>4 DEF ExResult, ExAddr, Outcome, IsJump, Defers
  <2>5. ex.op \in {"jal", "jalr", "mul", "div", "alu", "addi"}
    BY <1>6 DEF WritesRd
  <2>6. IsJump(ex.op) <=> ex.op \in {"jal", "jalr"}
    BY DEF IsJump
  <2> QED
    BY <2>1, <2>2, <2>3, <2>4, <2>5, <2>6
<1>7. ASSUME AccessesMemory(ex.op)
      PROVE  ExAddr = Sum(x, i.target)
  BY <1>1, <1>2, <1>7 DEF AccessesMemory, ExAddr, Defers
<1>8. ASSUME ~Defers(ex)
      PROVE  (IF ExJumps THEN ExTarget ELSE Plus4(ex.pc))
               = Successor(i, ex.pc, x, y)
  <2>1. CASE ex.op = "jal"
    BY <1>1, <1>3, <1>8, <2>1
       DEF ExJumps, ExTarget, ExAddr, Successor, IsJump
  <2>2. CASE ex.op = "jalr"
    BY <1>1, <1>8, <2>2
       DEF ExJumps, ExTarget, ExAddr, Successor, IsJump, Defers
  <2>3. CASE ex.op = "branch"
    BY <1>1, <1>8, <2>3
       DEF ExJumps, ExTarget, Successor, IsJump, Defers
  <2>4. CASE ex.op \notin {"jal", "jalr", "branch"}
    BY <1>1, <2>4 DEF ExJumps, Successor, IsJump
  <2> QED
    BY <2>1, <2>2, <2>3, <2>4
<1> QED
  BY <1>6, <1>7, <1>8 DEF i, x, y

(* Where EX sends the front end, or where it leaves it, is behind its      *)
(* instruction.                                                            *)
LEMMA ExResolves ==
  ASSUME CoreTypeOK, ExMeaning, imem[Words - 1].op # "branch", ex.valid,
         ~Defers(ex)
  PROVE  (IF ExMispredict THEN ExRedirect ELSE expect)
           = IF ExJumps THEN Low(ExTarget) ELSE Plus4(ex.pc)
<1>1. /\ InImem(ex.pc) /\ ex.op = At(ex.pc).op
      /\ ex.taken => ex.op \in {"jal", "branch", "jalr"}
      /\ expect = IF ex.taken THEN ex.ptarget ELSE Plus4(ex.pc)
      /\ ex.pc \in Address /\ ex.taken \in BOOLEAN
  BY DEF ExMeaning, FromRom, CoreTypeOK, ExReg
<1>2. ex.op = "branch" => Low(Plus4(ex.pc)) = Plus4(ex.pc)
  BY <1>1, BranchNotLast
<1>3. CASE IsJump(ex.op)
  BY <1>1, <1>3 DEF ExMispredict, ExRedirect, ExJumps, ExTarget, IsJump
<1>4. CASE ex.op = "branch"
  BY <1>1, <1>2, <1>4 DEF ExMispredict, ExRedirect, ExJumps, ExTarget, IsJump
<1>5. CASE ~IsJump(ex.op) /\ ex.op # "branch"
  BY <1>1, <1>5 DEF ExMispredict, ExJumps, IsJump
<1> QED
  BY <1>3, <1>4, <1>5

(* Where MEM finds that its instruction continues is its successor.        *)
LEMMA MemResolves ==
  ASSUME CoreTypeOK, HandoverInv, MemMeaning, mem.valid
  PROVE  LET i == At(mem.pc) IN
         (IF MemJumps THEN MemTarget ELSE Plus4(mem.pc))
           = Successor(i, mem.pc, PastWb(i.rs1), PastWb(i.rs2))
<1> DEFINE i == At(mem.pc)
           x == PastWb(i.rs1)
           y == PastWb(i.rs2)
<1>1. CASE ~Defers(mem)
  BY <1>1 DEF MemMeaning, MemJumps, MemTarget
<1>2. CASE Defers(mem)
  <2>1. /\ mem.op = i.op /\ mem.op \in {"branch", "jalr"}
        /\ mem.dep1 \in BOOLEAN /\ mem.dep2 \in BOOLEAN
        /\ wb.valid /\ wb.op = "load" /\ wb.rd # 0
        /\ mem.dep1 => wb.rd = i.rs1
        /\ mem.dep2 => wb.rd = i.rs2 /\ mem.op = "branch"
        /\ mem.op = "jalr" => mem.other = i.target
        /\ mem.op = "branch" => mem.target = i.target
        /\ mem.op = "branch" /\ ~mem.dep2 => mem.other = y
        /\ ~mem.dep1 => mem.other = x
    BY <1>2 DEF MemMeaning, FromRom, HandoverInv, CoreTypeOK, MemReg
  <2>2. /\ mem.dep1 => x = wb.value
        /\ mem.dep2 => y = wb.value
    BY <2>1 DEF PastWb, Produces, WritesRd
  <2>3. MemJumps = LateJumps /\ MemTarget = LateTarget
    BY <1>2 DEF MemJumps, MemTarget
  <2> HIDE DEF i, x, y
  <2>4. ASSUME mem.op = "jalr"
        PROVE  (IF MemJumps THEN MemTarget ELSE Plus4(mem.pc))
                 = Successor(i, mem.pc, x, y)
    <3>1. mem.dep1
      BY <1>2, <2>1, <2>4 DEF Defers
    <3> QED
      BY <2>1, <2>2, <2>3, <2>4, <3>1 DEF LateJumps, LateTarget, Successor
  <2>5. ASSUME mem.op = "branch"
        PROVE  (IF MemJumps THEN MemTarget ELSE Plus4(mem.pc))
                 = Successor(i, mem.pc, x, y)
    <3>1. LateJumps <=> BranchTaken(x, y)
      <4>1. CASE mem.dep1 /\ mem.dep2
        BY <2>2, <4>1 DEF LateJumps, BranchTaken
      <4>2. CASE mem.dep1 /\ ~mem.dep2
        BY <2>1, <2>2, <2>5, <4>2 DEF LateJumps, BranchTaken
      <4>3. CASE ~mem.dep1 /\ mem.dep2
        BY <2>1, <2>2, <2>5, <4>3 DEF LateJumps, BranchTaken
      <4> QED
        BY <1>2, <4>1, <4>2, <4>3 DEF Defers
    <3> QED
      BY <2>1, <2>3, <2>5, <3>1 DEF LateTarget, Successor
  <2>6. (IF MemJumps THEN MemTarget ELSE Plus4(mem.pc))
          = Successor(i, mem.pc, x, y)
    BY <2>1, <2>4, <2>5
  <2> QED
    BY <2>6 DEF i, x, y
<1> QED
  BY <1>1, <1>2

(* What data memory and its past behind MEM become: a store is written     *)
(* when it reaches MEM, and MEM still knows what it has overwritten.       *)
LEMMA MemoryMoves ==
  ASSUME CoreTypeOK, HandoverInv, NEW irq, NEW v, NEW slot, Back(irq, v, slot)
  PROVE  /\ ~MemWait => MemMem' = dmem
         /\ ~(ExFire /\ ex.op = "store") => dmem' = dmem
         /\ ExFire /\ ex.op = "store" /\ ExAddr \in DataAddress =>
              dmem'[ExAddr] = ex.data
<1>1. /\ dmem' = NextDmem /\ dmem \in [DataAddress -> Address]
      /\ MemMem' = Undo(dmem', mem')
  BY DEF Back, CoreTypeOK, MemMem, Undo
<1>2. ~(ExFire /\ ex.op = "store") => dmem' = dmem
  BY <1>1 DEF NextDmem, BusAccept, BusStrobe
<1>3. ASSUME ExFire, ex.op = "store", ExAddr \in DataAddress
      PROVE  dmem' = [dmem EXCEPT ![ExAddr] = ex.data]
  <2>1. BusAccept
    BY <1>3, StrobeMeetsReady
       DEF HandoverInv, BusMatchesMem, BusAccept, BusStrobe, AccessesMemory
  <2> QED
    BY <1>1, <1>3, <2>1 DEF NextDmem
<1>4. ASSUME ~MemWait
      PROVE  MemMem' = dmem
  <2>1. CASE ~ExFire
    BY <1>1, <1>2, <1>4, <2>1, MemMoves DEF Undo
  <2>2. CASE ExFire /\ ~(ex.op = "store" /\ ExAddr \in DataAddress)
    <3>1. dmem' = dmem
      BY <1>1, <2>2 DEF NextDmem
    <3>2. mem'.op = ex.op /\ mem'.addr = ExAddr
      BY <2>2, MemMoves
    <3> QED
      BY <1>1, <2>2, <3>1, <3>2 DEF Undo
  <2>3. CASE ExFire /\ ex.op = "store" /\ ExAddr \in DataAddress
    <3>1. mem'.valid /\ mem'.op = "store" /\ mem'.addr = ExAddr
          /\ mem'.old = dmem[ExAddr]
      BY <2>3, MemMoves
    <3>2. Undo(dmem', mem') = [dmem' EXCEPT ![ExAddr] = dmem[ExAddr]]
      BY <2>3, <3>1 DEF Undo
    <3> QED
      BY <1>1, <1>3, <2>3, <3>2
  <2> QED
    BY <2>1, <2>2, <2>3
<1>5. ASSUME ExFire, ex.op = "store", ExAddr \in DataAddress
      PROVE  dmem'[ExAddr] = ex.data
  BY <1>1, <1>3, <1>5
<1> QED
  BY <1>2, <1>4, <1>5

(* MEM keeps its meaning: what EX hands over is computed, and what waits   *)
(* stays as it is.                                                         *)
LEMMA MemStep ==
  ASSUME CoreTypeOK, HandoverInv, MulDivFresh, SequentialInv,
         NEW irq, NEW v, NEW slot, Back(irq, v, slot), PathMoves(irq, slot)
  PROVE  MemMeaning'
<1> SUFFICES ASSUME mem'.valid PROVE MemMeaning'
  BY DEF MemMeaning
<1>1. /\ ~sysBusy /\ sys.state # "EXEC" /\ imem' = imem
      /\ imem[Words - 1].op # "branch"
      /\ MemMeaning /\ ExMeaning
  BY MemMoves DEF HandoverInv, PathMoves, SequentialInv
<1>2. CASE ~ExFire
  <2>1. MemWait /\ mem' = mem /\ mem.valid
    BY <1>2, MemMoves
  <2>2. ~Flush /\ Hold /\ ~MemRetire /\ MemAccess
    BY <2>1, MemWaits DEF MemWait
  <2>3. \A r \in Regs : PastWb(r)' = PastWb(r)
    BY <1>1, <2>2, PastWbMoves
  <2>4. BehindMem' = BehindMem
    BY <1>1, <2>2, BehindMoves
  <2>5. ~Defers(mem) /\ dmem' = dmem
    BY <1>2, <2>2, MemoryMoves DEF HandoverInv, MemAccess, AccessesMemory
  <2>6. At(mem.pc).rs1 \in Regs /\ At(mem.pc).rs2 \in Regs
    BY AtType DEF CoreTypeOK, MemReg
  <2>7. At(mem.pc)' = At(mem.pc) /\ FromRom(mem)' = FromRom(mem)
        /\ Defers(mem)' = Defers(mem)
    BY <1>1, <2>1 DEF At, FromRom, Defers
  <2> QED
    BY <1>1, <2>1, <2>3, <2>4, <2>5, <2>6, <2>7 DEF MemMeaning
<1>3. CASE ExFire
  <2> DEFINE i == At(ex.pc)
             x == PastMem(i.rs1)
             y == PastMem(i.rs2)
  <2>1. /\ ex.valid /\ ~Hold /\ ~SysFlush /\ ~LateMispredict
        /\ (mem.valid => MemRetire)
        /\ mem'.valid /\ mem'.pc = ex.pc /\ mem'.op = ex.op
        /\ mem'.rd = ex.rd /\ mem'.result = ExResult
        /\ mem'.addr = ExAddr /\ mem'.target = ExTarget
        /\ mem'.jumped = ExJumps /\ mem'.taken = ex.taken
        /\ mem'.ptarget = ex.ptarget /\ mem'.dep1 = ex.dep1
        /\ mem'.dep2 = ex.dep2
        /\ mem'.other = IF ex.dep1 THEN ex.b ELSE ex.a
    BY <1>3, MemMoves, Zenon
  <2>2. i \in Instruction /\ i.rs1 \in Regs /\ i.rs2 \in Regs
    BY AtType DEF CoreTypeOK, ExReg
  <2>3. At(mem.pc)' = i /\ FromRom(mem)' /\ Defers(mem)' = Defers(ex)
    BY <1>1, <2>1 DEF ExMeaning, At, FromRom, Defers
  <2>4. ~MemWait
    BY <2>1 DEF Hold, MemoryHold
  <2>5. ASSUME NEW r \in Regs, ~Loading(r)
        PROVE  PastWb(r)' = PastMem(r)
    BY <1>3, <2>1, <2>4, <2>5, OperandsMove
  <2>6. /\ ex.op \in Pipelined /\ ex.op = i.op /\ ex.target = i.target
        /\ ex.op # "jal" /\ ~ex.dep1 => ex.a = x /\ ~Loading(i.rs1)
        /\ ex.op \in {"alu", "mul", "div", "branch"} /\ ~ex.dep2 =>
             ex.b = y /\ ~Loading(i.rs2)
        /\ ex.op \notin {"alu", "mul", "div", "branch"} => ex.b = i.target
        /\ ex.op = "store" => ex.data = y /\ ~Loading(i.rs2)
        /\ ex.dep1 => Loading(i.rs1)
        /\ ex.dep2 => Loading(i.rs2) /\ ex.op = "branch"
        /\ expect = IF ex.taken THEN ex.ptarget ELSE Plus4(ex.pc)
    BY <1>1, <2>1 DEF ExMeaning, FromRom
  <2>7. Defers(ex) => ex.op \in {"branch", "jalr"}
    BY DEF HandoverInv
  <2>8. /\ WritesRd(ex.op) /\ ex.op # "load" =>
                  ExResult = Outcome(i, ex.pc, x, y)
        /\ AccessesMemory(ex.op) => ExAddr = Sum(x, i.target)
        /\ ~Defers(ex) =>
             (IF ExJumps THEN ExTarget ELSE Plus4(ex.pc))
                = Successor(i, ex.pc, x, y)
    BY <1>1, <1>3, ExComputes
  <2>9. ASSUME Loading(i.rs1) \/ Loading(i.rs2)
        PROVE  /\ wb'.valid /\ wb'.op = "load" /\ wb'.rd # 0
               /\ Loading(i.rs1) => wb'.rd = i.rs1
               /\ Loading(i.rs2) => wb'.rd = i.rs2
    BY <2>1, <2>9, WbMoves DEF Loading, Produces
  <2>10. ASSUME ~Defers(ex)
         PROVE  BehindMem' = IF ExJumps THEN Low(ExTarget) ELSE Plus4(ex.pc)
    <3>1. (IF ExMispredict THEN ExRedirect ELSE expect)
            = IF ExJumps THEN Low(ExTarget) ELSE Plus4(ex.pc)
      BY <1>1, <2>1, <2>10, ExResolves
    <3>2. CASE ExMispredict
      <4>1. Resolve /\ ResolveTarget = ExRedirect
        BY <1>1, <1>3, <2>1, <3>2 DEF Resolve, ResolveTarget, SysFlush
      <4> QED
        BY <1>1, <3>1, <3>2, <4>1, BehindMoves
    <3>3. CASE ~ExMispredict
      <4>1. ~Flush
        BY <2>1, <3>3 DEF Resolve, Flush
      <4> QED
        BY <1>1, <2>1, <3>1, <3>3, <4>1, BehindMoves
    <3> QED
      BY <3>2, <3>3
  <2>11. ASSUME Defers(ex)
         PROVE  BehindMem' = IF ex.taken THEN ex.ptarget ELSE Plus4(ex.pc)
    <3>1. ~Flush
      BY <2>1, <2>11 DEF Resolve, Flush, ExMispredict
    <3> QED
      BY <1>1, <2>1, <2>6, <3>1, BehindMoves
  <2>12. ex.op = "store" /\ ExAddr \in DataAddress => dmem'[ExAddr] = y
    BY <1>3, <2>6, MemoryMoves
  <2> PICK r1 \in Regs, r2 \in Regs : r1 = i.rs1 /\ r2 = i.rs2
    BY <2>2
  <2> DEFINE xx == PastWb(r1)'
             yy == PastWb(r2)'
  <2>13. (~Loading(i.rs1) => xx = x) /\ (~Loading(i.rs2) => yy = y)
    BY <2>2, <2>5
  <2>14. xx = PastWb(At(mem.pc).rs1)' /\ yy = PastWb(At(mem.pc).rs2)'
    BY <2>3 DEF PastWb, Produces
  <2> HIDE DEF i, x, y, xx, yy
  <2>15. WritesRd(mem'.op) /\ mem'.op # "load" =>
           mem'.result = Outcome(i, mem'.pc, xx, yy)
    <3>1. CASE ex.op \in {"jal", "jalr"}
      BY <2>1, <2>6, <2>8, <3>1 DEF Outcome, IsJump
    <3>2. CASE ex.op \in {"alu", "mul", "div"}
      BY <2>1, <2>6, <2>7, <2>8, <2>13, <3>2 DEF Defers
    <3>3. CASE ex.op = "addi"
      BY <2>1, <2>6, <2>7, <2>8, <2>13, <3>3 DEF Outcome, IsJump, Defers
    <3> QED
      BY <2>1, <3>1, <3>2, <3>3 DEF WritesRd
  <2>16. AccessesMemory(mem'.op) => mem'.addr = Sum(xx, i.target)
    BY <2>1, <2>6, <2>7, <2>8, <2>13 DEF AccessesMemory, Defers
  <2>17. mem'.op = "store" /\ mem'.addr \in DataAddress => dmem'[mem'.addr] = yy
    BY <2>1, <2>6, <2>12, <2>13
  <2>18. ASSUME ~Defers(ex)
         PROVE  (IF mem'.jumped THEN mem'.target ELSE Plus4(mem'.pc))
                  = Successor(i, mem'.pc, xx, yy)
    <3>1. CASE ex.op \in {"jal", "jalr"}
      BY <2>1, <2>6, <2>8, <2>13, <2>18, <3>1 DEF Successor, Defers
    <3>2. CASE ex.op = "branch"
      BY <2>1, <2>6, <2>8, <2>13, <2>18, <3>2 DEF Defers
    <3>3. CASE ex.op \notin {"jal", "jalr", "branch"}
      BY <2>1, <2>6, <2>8, <2>18, <3>3 DEF Successor
    <3> QED
      BY <3>1, <3>2, <3>3
  <2>19. ASSUME Defers(ex)
         PROVE  /\ wb'.valid /\ wb'.op = "load" /\ wb'.rd # 0
                /\ mem'.dep1 => wb'.rd = i.rs1
                /\ mem'.dep2 => wb'.rd = i.rs2 /\ mem'.op = "branch"
                /\ mem'.op = "jalr" => mem'.other = i.target
                /\ mem'.op = "branch" => mem'.target = i.target
                /\ mem'.op = "branch" /\ ~mem'.dep2 => mem'.other = yy
                /\ ~mem'.dep1 => mem'.other = xx
    <3>1. ex.dep1 \in BOOLEAN /\ ex.dep2 \in BOOLEAN
      BY DEF CoreTypeOK, ExReg
    <3>2. ex.op = "branch" => ExTarget = ex.target
      BY DEF ExTarget, IsJump
    <3>3. Loading(i.rs1) \/ Loading(i.rs2)
      BY <2>6, <2>19 DEF Defers
    <3>4. /\ wb'.valid /\ wb'.op = "load" /\ wb'.rd # 0
          /\ ex.dep1 => wb'.rd = i.rs1
          /\ ex.dep2 => wb'.rd = i.rs2 /\ ex.op = "branch"
      BY <2>6, <2>9, <3>3
    <3>5. ex.op = "jalr" => ex.dep1
      BY <2>6, <2>19 DEF Defers
    <3>6. ex.dep1 => mem'.other = ex.b
      BY <2>1
    <3>7. ~ex.dep1 => mem'.other = ex.a
      BY <2>1
    <3>8. mem'.dep1 = ex.dep1 /\ mem'.dep2 = ex.dep2 /\ mem'.op = ex.op
      BY <2>1, Zenon
    <3>9. ex.op = "branch" => mem'.target = i.target
      BY <2>1, <2>6, <3>2
    <3>10. ex.op = "jalr" => mem'.other = i.target
      BY <2>6, <3>5, <3>6
    <3>11. ex.op = "branch" /\ ~ex.dep2 => mem'.other = yy
      BY <2>6, <2>13, <2>19, <3>6 DEF Defers
    <3>12. ~ex.dep1 => mem'.other = xx
      BY <2>6, <2>7, <2>13, <2>19, <3>7
    <3> QED
      BY <3>4, <3>8, <3>9, <3>10, <3>11, <3>12, Zenon
  <2>20. /\ mem'.jumped = ExJumps /\ mem'.target = ExTarget /\ mem'.pc = ex.pc
         /\ mem'.taken = ex.taken /\ mem'.ptarget = ex.ptarget
    BY <2>1, Zenon
  <2>21. ~Defers(ex) =>
           BehindMem' = IF mem'.jumped THEN Low(mem'.target) ELSE Plus4(mem'.pc)
    BY <2>10, <2>20
  <2>22. Defers(ex) =>
           BehindMem' = IF mem'.taken THEN mem'.ptarget ELSE Plus4(mem'.pc)
    BY <2>11, <2>20
  <2> QED
    BY <2>3, <2>14, <2>15, <2>16, <2>17, <2>18, <2>19, <2>21, <2>22
       DEF MemMeaning
<1> QED
  BY <1>2, <1>3

(* What MEM has read when it retires a load or store: data memory as its   *)
(* predecessors leave it, or whatever a ROM or device read may return.     *)
LEMMA RetiredAccess ==
  ASSUME CoreTypeOK, HandoverInv, BusMeaning, MemRetire,
         AccessesMemory(mem.op), NEW v \in ReadData
  PROVE  /\ ~BadRequest(mem.op, mem.addr)
         /\ mem.op = "load" =>
              v \in IF mem.addr \in DataAddress THEN {dmem[mem.addr]}
                    ELSE LoadValues
<1>1. /\ MemAccess /\ BusAck /\ ~MemFault /\ bus.kind # "error" /\ bus.pending
      /\ bus.write = (mem.op = "store") /\ mem.addr \in Address
  BY DEF MemRetire, MemAccess, MemoryHold, MemWait, MemFault, BusAck,
         HandoverInv, BusMatchesMem, CoreTypeOK, MemReg
<1>2. ~BadRequest(mem.op, mem.addr) /\ bus.kind = Region[mem.addr]
  BY <1>1 DEF BusMeaning
<1>3. CASE mem.addr \in DataAddress
  BY <1>1, <1>2, <1>3 DEF BusMeaning, ReadData, DataAddress
<1>4. CASE mem.addr \notin DataAddress
  <2>1. Region[mem.addr] \in {"imem", "mmio"}
    BY <1>1, <1>2, <1>4, RegionAssumption DEF DataAddress, BadRequest
  <2> QED
    BY <1>1, <1>2, <1>4, <2>1 DEF ReadData
<1> QED
  BY <1>2, <1>3, <1>4

(* Behind the instruction that MEM retires stands its successor: in EX, in *)
(* ID, at the target of the redirect it causes, or on the slow path.       *)
LEMMA RetiredContinues ==
  ASSUME CoreTypeOK, HandoverInv, SequentialInv, MemRetire,
         NEW irq, NEW v, NEW slot, Back(irq, v, slot), PathMoves(irq, slot)
  PROVE  LET i == At(mem.pc) IN
         BehindWb' = Successor(i, mem.pc, PastWb(i.rs1), PastWb(i.rs2))
<1> DEFINE i == At(mem.pc)
           next == Successor(i, mem.pc, PastWb(i.rs1), PastWb(i.rs2))
<1>1. /\ mem.valid /\ ~MemWait /\ ~MemFault /\ ~sysBusy
      /\ sys.state # "REDIRECT" /\ mem.pc \in Address /\ MemTarget \in Address
  BY SumType DEF MemRetire, MemoryHold, HandoverInv, CoreTypeOK, MemReg, WbReg,
         MemTarget, LateTarget
<1>2. /\ FromRom(mem)
      /\ imem[Words - 1].op # "branch"
      /\ ~Defers(mem) =>
           BehindMem = IF mem.jumped THEN Low(mem.target) ELSE Plus4(mem.pc)
      /\ Defers(mem) =>
           BehindMem = IF mem.taken THEN mem.ptarget ELSE Plus4(mem.pc)
      /\ Defers(mem) => mem.op \in {"branch", "jalr"}
  BY <1>1 DEF SequentialInv, MemMeaning, HandoverInv
<1>3. (IF MemJumps THEN MemTarget ELSE Plus4(mem.pc)) = next
  BY <1>1, MemResolves DEF SequentialInv
<1> HIDE DEF i, next
<1>4. BehindWb' = IF mem'.valid THEN mem'.pc
                  ELSE IF ex'.valid THEN ex'.pc
                  ELSE IF sys'.state = "REDIRECT" THEN sys'.redirect
                  ELSE expect'
  BY DEF BehindWb
<1>5. ~ExFire => ~mem'.valid
  BY <1>1, MemMoves
<1>6. ASSUME FarRedirect
      PROVE  BehindWb' = next
  <2>1. ~ExFire /\ MemJumps /\ Flush
    BY <1>6 DEF ExFire, FarRedirect, Flush, SysFlush
  <2>2. ~ex'.valid
    BY <2>1, ExMoves
  <2>3. sys'.state = "REDIRECT" /\ sys'.redirect = MemTarget
    BY <1>6 DEF PathMoves
  <2> QED
    BY <1>3, <1>4, <1>5, <2>1, <2>2, <2>3
<1>7. ASSUME ~FarRedirect, ~mem'.valid
      PROVE  BehindWb' = BehindMem'
  <2>1. sys'.state # "REDIRECT"
    BY <1>1, <1>7 DEF PathMoves
  <2> QED
    BY <1>4, <1>7, <2>1 DEF BehindMem
<1>8. ~FarRedirect /\ MemJumps => Low(MemTarget) = MemTarget
  BY <1>1, LowFacts DEF FarRedirect
<1>9. ASSUME ~FarRedirect, LateMispredict
      PROVE  BehindWb' = next
  <2>1. ~ExFire /\ Resolve /\ ResolveTarget = LateRedirect /\ Defers(mem)
    BY <1>1, <1>9
       DEF ExFire, Resolve, ResolveTarget, LateMispredict, LateResolves
  <2>2. BehindWb' = LateRedirect
    BY <1>1, <1>5, <1>7, <1>9, <2>1, BehindMoves
  <2>3. MemJumps = LateJumps /\ MemTarget = LateTarget
    BY <2>1 DEF MemJumps, MemTarget
  <2>4. CASE LateJumps
    BY <1>3, <1>8, <1>9, <2>2, <2>3, <2>4 DEF LateRedirect
  <2>5. CASE ~LateJumps
    <3>1. At(mem.pc).op = "branch" /\ InImem(mem.pc)
      BY <1>2, <2>1, <2>5 DEF LateJumps, FromRom
    <3>2. Low(Plus4(mem.pc)) = Plus4(mem.pc)
      BY <1>1, <1>2, <3>1, BranchNotLast
    <3> QED
      BY <1>3, <2>2, <2>3, <2>5, <3>2 DEF LateRedirect
  <2> QED
    BY <2>4, <2>5
<1>10. ASSUME ~FarRedirect, ~LateMispredict
       PROVE  BehindWb' = next
  <2>1. BehindMem = next
    <3>1. CASE Defers(mem)
      <4>1. MemJumps = LateJumps /\ MemTarget = LateTarget
        BY <3>1 DEF MemJumps, MemTarget
      <4>2. mem.taken = LateJumps
            /\ (mem.taken /\ LateJumps => mem.ptarget = Low(LateTarget))
        BY <1>1, <1>10, <3>1, Zenon DEF LateMispredict, LateResolves
      <4> QED
        BY <1>2, <1>3, <1>8, <1>10, <3>1, <4>1, <4>2
    <3>2. CASE ~Defers(mem)
      BY <1>2, <1>3, <1>8, <1>10, <3>2 DEF MemJumps, MemTarget
    <3> QED
      BY <3>1, <3>2
  <2>2. CASE ExFire
    BY <1>4, <2>1, <2>2, MemMoves DEF BehindMem
  <2>3. CASE ~ExFire
    <3>1. ~Flush
      BY <1>1, <1>10, <2>3 DEF Flush, Resolve, SysFlush
    <3>2. BehindWb' = BehindMem'
      BY <1>5, <1>7, <1>10, <2>3
    <3>3. CASE Hold
      BY <1>1, <2>1, <3>1, <3>2, <3>3, BehindMoves
    <3>4. CASE ~Hold
      <4>1. ~ex.valid
        BY <1>10, <2>3, <3>4 DEF ExFire
      <4> QED
        BY <1>1, <2>1, <3>1, <3>2, <3>4, <4>1, BehindMoves DEF BehindMem
    <3> QED
      BY <3>3, <3>4
  <2> QED
    BY <2>2, <2>3
<1>11. BehindWb' = next
  BY <1>6, <1>9, <1>10
<1> QED
  BY <1>11 DEF i, next

(* WB keeps its meaning.                                                   *)
LEMMA WbStep ==
  ASSUME CoreTypeOK, HandoverInv, SequentialInv,
         NEW irq, NEW v \in ReadData, NEW slot,
         Back(irq, v, slot), PathMoves(irq, slot)
  PROVE  WbMeaning'
<1> SUFFICES ASSUME wb'.valid PROVE WbMeaning'
  BY DEF WbMeaning
<1>1. /\ MemRetire /\ mem.valid /\ ~sysBusy /\ ~MemWait /\ ~MemFault
      /\ wb'.pc = mem.pc /\ wb'.op = mem.op /\ wb'.rd = mem.rd
      /\ wb'.value = MemData(v) /\ wb'.addr = mem.addr
  BY WbMoves
<1>2. sys.state # "EXEC" /\ imem' = imem /\ MemMeaning /\ BusMeaning
  BY <1>1 DEF HandoverInv, PathMoves, SequentialInv
<1> DEFINE i == At(mem.pc)
<1>3. i.rs1 \in Regs /\ i.rs2 \in Regs
  BY AtType DEF CoreTypeOK, MemReg
<1> PICK r1 \in Regs, r2 \in Regs : r1 = i.rs1 /\ r2 = i.rs2
  BY <1>3
<1> DEFINE x == PastWb(r1)
           y == PastWb(r2)
<1>4. regs'[r1] = x /\ regs'[r2] = y
  BY <1>2, RegsMove
<1>5. /\ FromRom(mem)
      /\ WritesRd(mem.op) /\ mem.op # "load" =>
           mem.result = Outcome(i, mem.pc, x, y)
      /\ AccessesMemory(mem.op) => mem.addr = Sum(x, i.target)
      /\ mem.op = "store" /\ mem.addr \in DataAddress => dmem[mem.addr] = y
  BY <1>1, <1>2 DEF MemMeaning
<1>6. At(wb.pc)' = i /\ FromRom(wb)'
  BY <1>1, <1>2, <1>5 DEF At, FromRom
<1>7. BehindWb' = Successor(i, mem.pc, x, y)
  BY <1>1, RetiredContinues
<1>8. MemMem' = dmem
  BY <1>1, MemoryMoves
<1>9. wb'.op = "load" => ArchMem' = dmem
  BY <1>8 DEF ArchMem, MemMem, Undo
<1>10. AccessesMemory(mem.op) =>
         /\ ~BadRequest(mem.op, mem.addr)
         /\ mem.op = "load" =>
              v \in IF mem.addr \in DataAddress THEN {dmem[mem.addr]}
                    ELSE LoadValues
  BY <1>1, <1>2, RetiredAccess
<1> HIDE DEF i, x, y
<1>11. WritesRd(wb'.op) /\ wb'.op # "load" => wb'.value = Outcome(i, wb'.pc, x, y)
  BY <1>1, <1>5 DEF MemData
<1>12. AccessesMemory(wb'.op) =>
         wb'.addr = Sum(x, i.target) /\ ~BadRequest(wb'.op, wb'.addr)
  BY <1>1, <1>5, <1>10
<1>13. wb'.op = "load" =>
         wb'.value \in IF wb'.addr \in DataAddress THEN {(ArchMem')[wb'.addr]}
                      ELSE LoadValues
  BY <1>1, <1>9, <1>10 DEF MemData, AccessesMemory
<1>14. wb'.op = "store" /\ wb'.addr \in DataAddress => (MemMem')[wb'.addr] = y
  BY <1>1, <1>5, <1>8
<1>15. regs'[At(wb.pc)'.rs1] = x /\ regs'[At(wb.pc)'.rs2] = y
  BY <1>4, <1>6
<1> QED
  BY <1>1, <1>6, <1>7, <1>11, <1>12, <1>13, <1>14, <1>15 DEF WbMeaning

(* What ID is given for a register that is not being loaded in EX is what  *)
(* everybody in front of it leaves there.                                  *)
LEMMA ForwardedOperand ==
  ASSUME CoreTypeOK, HandoverInv, NEW irq, NEW v, NEW slot, Back(irq, v, slot),
         ~Flush, ~Hold, NEW r \in Regs
  PROVE  /\ Loading(r)' <=> LoadInEx(r)
         /\ ~LoadInEx(r) => PastMem(r)' = Forward(r, v)
<1>1. ~sysBusy /\ ~MemWait /\ ~MemFault /\ sys.state # "EXEC"
  BY DEF Hold, MemoryHold, HandoverInv
<1>2. mem.valid => MemRetire
  BY <1>1 DEF MemRetire, MemoryHold
<1>3. ex.valid => ExFire
  <2>1. ~FarRedirect /\ ~MemFault
    BY DEF Flush, SysFlush
  <2>2. ~LateMispredict
    BY <1>1, <2>1 DEF Flush, Resolve
  <2> QED
    BY <2>1, <2>2 DEF ExFire
<1>4. Produces(mem, r)' <=> Produces(ex, r)
  <2>1. CASE ex.valid
    BY <1>3, <2>1, MemMoves DEF Produces
  <2>2. CASE ~ex.valid
    <3>1. ~mem'.valid
      BY <1>1, <2>2, MemMoves DEF ExFire
    <3> QED
      BY <2>2, <3>1 DEF Produces
  <2> QED
    BY <2>1, <2>2
<1>5. Produces(ex, r) => mem'.op = ex.op /\ mem'.result = ExResult
  BY <1>3, MemMoves DEF Produces
<1>6. Loading(r)' <=> LoadInEx(r)
  BY <1>4, <1>5 DEF Loading, LoadInEx, Produces, WritesRd
<1>7. PastMem(r)' = IF Produces(mem, r)' THEN mem'.result ELSE PastWb(r)'
  BY DEF PastMem
<1>8. ~Produces(ex, r) => PastWb(r)' = Forward(r, v)
  <2>1. MemRetire /\ Produces(mem, r) => PastWb(r)' = MemData(v)
    BY <1>1, PastWbMoves
  <2>2. ~(MemRetire /\ Produces(mem, r)) => PastWb(r)' = PastWb(r)
    BY <1>1, PastWbMoves
  <2> QED
    BY <2>1, <2>2 DEF Forward, PastWb
<1>9. Produces(ex, r) => PastMem(r)' = Forward(r, v)
  BY <1>4, <1>5, <1>7 DEF Forward
<1> QED
  BY <1>4, <1>6, <1>7, <1>8, <1>9

(* EX keeps its meaning: what is held keeps its operands while MEM moves   *)
(* on, and what is issued gets them forwarded or is marked as deferred.    *)
LEMMA ExStep ==
  ASSUME CoreTypeOK, HandoverInv, SequentialInv, NEW irq, NEW v, NEW slot,
         Back(irq, v, slot), PathMoves(irq, slot)
  PROVE  ExMeaning'
<1> SUFFICES ASSUME ex'.valid PROVE ExMeaning'
  BY DEF ExMeaning
<1>1. imem' = imem /\ ~Flush /\ ExMeaning
  BY ExMoves DEF PathMoves, SequentialInv
<1>2. CASE Hold /\ ex' = ex
  <2>1. ex.valid /\ ~sysBusy /\ sys.state \notin {"EXEC", "REDIRECT"} /\ Block(irq)
    BY <1>2 DEF HandoverInv, SlowPathAlone, Block
  <2>2. expect' = expect
    BY <1>1, <2>1 DEF PathMoves, Flush
  <2> DEFINE i == At(ex.pc)
  <2>3. i.rs1 \in Regs /\ i.rs2 \in Regs
    BY AtType DEF CoreTypeOK, ExReg
  <2> PICK r1 \in Regs, r2 \in Regs : r1 = i.rs1 /\ r2 = i.rs2
    BY <2>3
  <2>4. At(ex.pc)' = i /\ FromRom(ex)' = FromRom(ex)
    BY <1>1, <1>2 DEF At, FromRom
  <2>5. ASSUME NEW r \in Regs, ~Loading(r)
        PROVE  PastMem(r)' = PastMem(r) /\ ~Loading(r)'
    <3>1. CASE MemWait
      <4>1. mem' = mem /\ ~MemRetire
        BY <3>1, MemWaits
      <4>2. PastWb(r)' = PastWb(r)
        BY <2>1, <4>1, PastWbMoves
      <4> QED
        BY <2>5, <4>1, <4>2 DEF PastMem, Loading, Produces
    <3>2. CASE ~MemWait
      <4>1. ~mem'.valid
        BY <1>2, <3>2, MemMoves DEF ExFire
      <4>2. PastWb(r)' = PastMem(r)
        BY <1>1, <2>1, <2>5, <3>2, OperandsMove
      <4> QED
        BY <4>1, <4>2 DEF PastMem, Loading, Produces
    <3> QED
      BY <3>1, <3>2
  <2>6. ASSUME NEW r \in Regs, Loading(r), Defers(ex)
        PROVE  Loading(r)'
    <3>1. ~ExecuteHold /\ ~MemFault
      BY <1>1, <2>6 DEF ExecuteHold, HandoverInv, Flush, SysFlush
    <3>2. MemWait
      BY <1>2, <2>1, <3>1 DEF Hold, MemoryHold
    <3>3. mem' = mem
      BY <3>2, MemWaits
    <3> QED
      BY <2>6, <3>3 DEF Loading, Produces
  <2>7. /\ FromRom(ex) /\ ex.target = i.target
        /\ ex.taken => ex.op \in {"jal", "branch", "jalr"}
        /\ ex.op = "jal" => ex.a = 0
        /\ ex.op # "jal" /\ ~ex.dep1 => ex.a = PastMem(r1) /\ ~Loading(r1)
        /\ ex.op \in {"alu", "mul", "div", "branch"} /\ ~ex.dep2 =>
             ex.b = PastMem(r2) /\ ~Loading(r2)
        /\ ex.op \notin {"alu", "mul", "div", "branch"} => ex.b = i.target
        /\ ex.op = "store" => ex.data = PastMem(r2) /\ ~Loading(r2)
        /\ ex.dep1 => Loading(r1)
        /\ ex.dep2 => Loading(r2) /\ ex.op = "branch"
        /\ expect = IF ex.taken THEN ex.ptarget ELSE Plus4(ex.pc)
    BY <1>1, <2>1 DEF ExMeaning
  <2>8. /\ ex.op # "jal" /\ ~ex.dep1 => ex.a = PastMem(r1)' /\ ~Loading(r1)'
        /\ ex.op \in {"alu", "mul", "div", "branch"} /\ ~ex.dep2 =>
             ex.b = PastMem(r2)' /\ ~Loading(r2)'
        /\ ex.op = "store" => ex.data = PastMem(r2)' /\ ~Loading(r2)'
        /\ ex.dep1 => Loading(r1)'
        /\ ex.dep2 => Loading(r2)' /\ ex.op = "branch"
    BY <2>5, <2>6, <2>7 DEF Defers
  <2>9. /\ PastMem(r1)' = PastMem(At(ex.pc).rs1)'
        /\ PastMem(r2)' = PastMem(At(ex.pc).rs2)'
        /\ Loading(r1)' = Loading(At(ex.pc).rs1)'
        /\ Loading(r2)' = Loading(At(ex.pc).rs2)'
    BY <2>4 DEF PastMem, PastWb, Produces, Loading
  <2> HIDE DEF i
  <2> QED
    BY <1>2, <2>2, <2>4, <2>7, <2>8, <2>9 DEF ExMeaning
<1>3. CASE ~Block(irq) /\ ex' = Decode(slot, v)
  <2> DEFINE i == At(expect)
             x == Forward(i.rs1, v)
             y == Forward(i.rs2, v)
  <2>1. ex'.valid = slot.valid
    BY <1>3 DEF Decode
  <2>2. IdValid
    BY <1>1, <1>3, <2>1 DEF PathMoves
  <2>3. /\ slot.pc = expect /\ slot.word = i /\ IdWord = i
        /\ slot.taken => i.op \in {"jal", "branch", "jalr"}
        /\ InImem(expect) /\ i.op \in Pipelined
        /\ expect' = IF slot.taken THEN slot.target ELSE Plus4(expect)
    BY <1>1, <1>3, <2>2 DEF PathMoves
  <2>4. /\ ex'.pc = expect /\ ex'.op = i.op /\ ex'.rd = i.rd
        /\ ex'.a = IF i.op = "jal" THEN 0 ELSE x
        /\ ex'.b = IF i.op \in {"alu", "mul", "div", "branch"} THEN y
                   ELSE i.target
        /\ ex'.data = IF i.op = "store" THEN y ELSE 0
        /\ ex'.target = i.target /\ ex'.ptarget = slot.target
    BY <1>3, <2>3 DEF Decode
  <2>5. ex'.taken = slot.taken /\ ex'.dep1 = LateRs1 /\ ex'.dep2 = LateRs2
    BY <1>3, Zenon DEF Decode
  <2>6. i.rs1 \in Regs /\ i.rs2 \in Regs
    BY AtType DEF CoreTypeOK, FetchTypeOK
  <2> PICK r1 \in Regs, r2 \in Regs : r1 = i.rs1 /\ r2 = i.rs2
    BY <2>6
  <2>7. At(ex.pc)' = i /\ FromRom(ex)'
    BY <1>1, <2>3, <2>4 DEF At, FromRom
  <2>8. ~Hold /\ ~HazardStall
    BY <1>3 DEF Block, Stalled
  <2>9. ASSUME NEW r \in Regs
        PROVE  /\ Loading(r)' <=> LoadInEx(r)
               /\ ~LoadInEx(r) => PastMem(r)' = Forward(r, v)
    BY <1>1, <2>8, ForwardedOperand
  <2>10. /\ LateRs1 <=> i.op \in {"branch", "jalr"} /\ LoadInEx(r1)
         /\ LateRs2 <=> i.op = "branch" /\ LoadInEx(r2)
    BY <2>3 DEF LateRs1, LateRs2
  <2>11. /\ i.op # "jal" /\ ~LateRs1 => ~LoadInEx(r1)
         /\ i.op \in {"alu", "mul", "div", "branch", "store"} /\ ~LateRs2 =>
              ~LoadInEx(r2)
    <3>1. UsesRs1(i) <=> i.op \in Pipelined \ {"jal"}
      BY <2>3 DEF UsesRs1, Pipelined
    <3>2. UsesRs2(i) <=> i.op \in {"alu", "mul", "div", "store", "branch"}
      BY DEF UsesRs2
    <3>3. ~LateRs1 /\ ~LateRs2 =>
            /\ UsesRs1(i) => ~LoadInEx(r1)
            /\ UsesRs2(i) => ~LoadInEx(r2)
      BY <2>3, <2>8 DEF HazardStall
    <3> HIDE DEF i
    <3> QED
      BY <2>3, <2>10, <3>1, <3>2, <3>3
  <2>12. x = Forward(r1, v) /\ y = Forward(r2, v)
    OBVIOUS
  <2> HIDE DEF i, x, y
  <2>13. /\ i.op # "jal" /\ ~LateRs1 => x = PastMem(r1)' /\ ~Loading(r1)'
         /\ i.op \in {"alu", "mul", "div", "branch", "store"} /\ ~LateRs2 =>
              y = PastMem(r2)' /\ ~Loading(r2)'
         /\ LateRs1 => Loading(r1)'
         /\ LateRs2 => Loading(r2)' /\ i.op = "branch"
    BY <2>9, <2>10, <2>11, <2>12
  <2>14. i.op = "store" => ~LateRs2
    BY <2>10
  <2>15. /\ PastMem(r1)' = PastMem(At(ex.pc).rs1)'
         /\ PastMem(r2)' = PastMem(At(ex.pc).rs2)'
         /\ Loading(r1)' = Loading(At(ex.pc).rs1)'
         /\ Loading(r2)' = Loading(At(ex.pc).rs2)'
    BY <2>7 DEF PastMem, PastWb, Produces, Loading
  <2>16. /\ ex'.taken => ex'.op \in {"jal", "branch", "jalr"}
         /\ expect' = IF ex'.taken THEN ex'.ptarget ELSE Plus4(ex'.pc)
         /\ ex'.op = "jal" => ex'.a = 0
    BY <2>3, <2>4, <2>5
  <2>17. /\ ex'.op # "jal" /\ ~ex'.dep1 => ex'.a = PastMem(r1)' /\ ~Loading(r1)'
         /\ ex'.op \in {"alu", "mul", "div", "branch"} /\ ~ex'.dep2 =>
              ex'.b = PastMem(r2)' /\ ~Loading(r2)'
         /\ ex'.op \notin {"alu", "mul", "div", "branch"} => ex'.b = i.target
         /\ ex'.op = "store" => ex'.data = PastMem(r2)' /\ ~Loading(r2)'
         /\ ex'.dep1 => Loading(r1)'
         /\ ex'.dep2 => Loading(r2)' /\ ex'.op = "branch"
    BY <2>4, <2>5, <2>13, <2>14
  <2> QED
    BY <2>4, <2>7, <2>15, <2>16, <2>17 DEF ExMeaning
<1> QED
  BY <1>2, <1>3, ExMoves

(* The bus keeps its meaning.                                              *)
LEMMA BusStep ==
  ASSUME CoreTypeOK, HandoverInv, BusMeaning, NEW irq, NEW v, NEW slot,
         Back(irq, v, slot)
  PROVE  BusMeaning'
<1>1. /\ bus' = NextBus /\ bus \in BusReg
      /\ bus.pending = MemAccess /\ bus.pending \in BOOLEAN
      /\ (BusStrobe => BusReady)
  BY DEF Back, CoreTypeOK, HandoverInv, BusMatchesMem, BusReg
<1>2. CASE BusAccept
  <2>1. /\ ExFire /\ mem'.valid /\ mem'.op = ex.op /\ mem'.addr = ExAddr
    BY <1>2, MemMoves DEF BusAccept, BusStrobe
  <2>2. /\ bus'.kind = IF BadRequest(ex.op, ExAddr) THEN "error"
                       ELSE Region[ExAddr]
        /\ bus'.data = IF ex.op = "load" /\ ExAddr \in DataAddress
                       THEN dmem[ExAddr] ELSE 0
        /\ bus'.age = 0
    BY <1>1, <1>2 DEF NextBus
  <2>3. ex.op = "load" => dmem' = dmem
    BY MemoryMoves
  <2> QED
    BY <2>1, <2>2, <2>3 DEF BusMeaning
<1>3. CASE ~BusAccept /\ MemWait
  <2>1. /\ mem' = mem /\ ~MemRetire /\ bus.pending /\ ~BusAck /\ MemAccess
        /\ ~ExFire
    BY <1>3, MemWaits DEF MemWait
  <2>2. bus' = [bus EXCEPT !.age = 1]
    BY <1>1, <1>3, <2>1 DEF NextBus
  <2>3. bus'.kind = bus.kind /\ bus'.data = bus.data
    BY <1>1, <2>2 DEF BusReg
  <2>4. dmem' = dmem
    BY <2>1, MemoryMoves
  <2>5. bus.kind = "mmio"
    BY <2>1 DEF BusAck
  <2>6. ~wb'.valid
    BY <2>1, WbMoves
  <2>7. MemAccess'
    BY <2>1 DEF MemAccess, AccessesMemory
  <2> QED
    BY <2>1, <2>3, <2>4, <2>5, <2>6, <2>7 DEF BusMeaning
<1>4. CASE ~BusAccept /\ ~MemWait
  <2>1. ~MemAccess'
    <3>1. CASE ExFire
      <4>1. ~AccessesMemory(ex.op) /\ mem'.op = ex.op
        BY <1>1, <1>4, <3>1, MemMoves DEF BusAccept, BusStrobe
      <4> QED
        BY <4>1 DEF MemAccess, AccessesMemory
    <3>2. CASE ~ExFire
      BY <1>4, <3>2, MemMoves DEF MemAccess
    <3> QED
      BY <3>1, <3>2
  <2>2. bus'.age # 1
    <3>1. BusAck \/ ~bus.pending
      BY <1>1, <1>4 DEF MemWait
    <3>2. CASE BusAck
      BY <1>1, <1>4, <3>2 DEF NextBus, IdleBus
    <3>3. CASE ~bus.pending /\ ~BusAck
      BY <1>1, <1>4, <3>3 DEF NextBus, BusMeaning
    <3> QED
      BY <3>1, <3>2, <3>3
  <2> QED
    BY <2>1, <2>2 DEF BusMeaning
<1> QED
  BY <1>2, <1>3, <1>4

(* The slow path keeps its meaning: what it executes stands in ROM at the  *)
(* address it has taken, and a trap has its reason.                        *)
LEMMA SysStep ==
  ASSUME CoreTypeOK, HandoverInv, IdOnPath, SequentialInv,
         NEW irq \in Interrupts, NEW v \in ReadData, Edge(irq, v)
  PROVE  SysMeaning'
<1>1. /\ sysBusy = (sys.state # "IDLE") /\ sysBusy \in BOOLEAN /\ sys \in SysReg
      /\ SysMeaning /\ BusMeaning /\ MemMeaning
  BY DEF HandoverInv, CoreTypeOK, FetchTypeOK, SequentialInv
<1>2. ASSUME sys'.state \notin {"EXEC", "TRAP"}
      PROVE  SysMeaning'
  BY <1>2 DEF SysMeaning
<1>3. CASE IssueEdge(irq, v) \/ StallEdge(irq, v) \/ MispredictEdge(irq, v)
  BY <1>1, <1>2, <1>3
     DEF IssueEdge, Advance, StallEdge, Stall, MispredictEdge, Mispredict
<1>4. CASE FarEdge(irq, v) \/ ExecEdge(irq, v) \/ TrapEdge(irq, v)
             \/ RedirectEdge(irq, v)
  BY <1>1, <1>2, <1>4 DEF FarEdge, ExecEdge, TrapEdge, RedirectEdge, SysReg
<1>5. CASE FaultEdge(irq, v)
  <2>1. /\ MemFault /\ ~sysBusy /\ Back(irq, v, Bubble) /\ imem' = imem
        /\ sys'.state = "TRAP" /\ sys'.pc = mem.pc /\ sys'.cause = "access"
    BY <1>1, <1>5 DEF FaultEdge, Squash, Flushed, SysReg
  <2>2. MemAccess /\ bus.kind = "error" /\ mem.addr \in Address
    BY <2>1 DEF MemFault, CoreTypeOK, MemReg
  <2>3. BadRequest(mem.op, mem.addr)
    BY <1>1, <2>2, RegionAssumption DEF BusMeaning
  <2> DEFINE i == At(mem.pc)
  <2>4. i.rs1 \in Regs
    BY AtType DEF CoreTypeOK, MemReg
  <2>5. /\ InImem(mem.pc) /\ i.op = mem.op /\ mem.op \in {"load", "store"}
        /\ mem.addr = Sum(PastWb(i.rs1), i.target)
    BY <1>1, <2>2 DEF MemMeaning, FromRom, MemAccess, AccessesMemory
  <2>6. regs'[i.rs1] = PastWb(i.rs1)
    BY <1>1, <2>1, <2>4, RegsMove
  <2>7. At(sys.pc)' = i
    BY <2>1 DEF At
  <2> HIDE DEF i
  <2>8. BadRequest(i.op, Sum(regs'[i.rs1], i.target))
    BY <2>3, <2>5, <2>6
  <2> QED
    BY <2>1, <2>5, <2>7, <2>8 DEF SysMeaning
<1>6. CASE EnterEdge(irq, v)
  <2> DEFINE i == At(expect)
             why == IF InterruptPending(irq) THEN "interrupt"
                    ELSE TrapCause(IdWord, IdPc)
  <2>1. /\ TakesSystem(irq) /\ Back(irq, v, Bubble) /\ imem' = imem
        /\ csr' = csr /\ ~sysBusy
        /\ sys' = [sys EXCEPT !.state = IF why = "none" THEN "EXEC" ELSE "TRAP",
                             !.pc = IdPc, !.op = IdWord.op, !.rd = IdWord.rd,
                             !.src = Forward(IdWord.rs1, v), !.cause = why]
    BY <1>6 DEF EnterEdge, EnterSystem, Blocked
  <2>2. IdPc = expect /\ IdWord = i /\ IdValid /\ SysStop(irq) /\ OlderEmpty
    BY <2>1 DEF TakesSystem, IdOnPath, At
  <2>3. i.rs1 \in Regs /\ i.op \in Ops
    BY AtType DEF CoreTypeOK, FetchTypeOK
  <2>4. regs'[i.rs1] = regs[i.rs1] /\ Forward(i.rs1, v) = regs[i.rs1]
    BY <1>1, <2>1, <2>2, <2>3, RegsMove
       DEF OlderEmpty, PastWb, Produces, Forward
  <2>5. why = IF InterruptPending(irq) THEN "interrupt" ELSE TrapCause(i, expect)
    BY <2>2
  <2>6. At(sys.pc)' = i
    BY <1>1, <2>1, <2>2 DEF At, SysReg
  <2> HIDE DEF why, i
  <2>7. /\ sys'.pc = expect /\ sys'.op = i.op /\ sys'.rd = i.rd
        /\ sys'.src = regs[i.rs1] /\ sys'.cause = why
        /\ sys'.state = IF why = "none" THEN "EXEC" ELSE "TRAP"
    BY <1>1, <2>1, <2>2, <2>4 DEF SysReg
  <2>8. CASE why = "none"
    <3>1. ~InterruptPending(irq) /\ TrapCause(i, expect) = "none"
      BY <2>5, <2>8
    <3>2. InImem(expect) /\ i.op \notin {"illegal", "ecall"}
      BY <3>1 DEF TrapCause
    <3>3. IsSerial(i, expect)
      BY <2>1, <2>2, <3>1 DEF SysStop
    <3>4. i.op \in CsrOps \cup {"mret", "wfi"}
      BY <3>2, <3>3 DEF IsSerial
    <3> QED
      BY <2>4, <2>6, <2>7, <2>8, <3>2, <3>4 DEF SysMeaning
  <2>9. CASE why # "none"
    <3>1. CASE InterruptPending(irq)
      BY <2>1, <2>5, <2>6, <2>7, <2>9, <3>1 DEF SysMeaning, InterruptPending
    <3>2. CASE ~InterruptPending(irq)
      BY <2>5, <2>6, <2>7, <2>9, <3>2 DEF SysMeaning
    <3> QED
      BY <3>1, <3>2
  <2> QED
    BY <2>8, <2>9
<1>7. CASE SleepEdge(irq, v)
  <2>1. sys.state = "SLEEP" /\ csr' = csr /\ imem' = imem
    BY <1>7 DEF SleepEdge, Drain, Blocked
  <2>2. CASE ~(csr.ie /\ irq) \/ ~csr.mie
    BY <1>1, <1>2, <1>7, <2>1, <2>2 DEF SleepEdge, SysReg
  <2>3. CASE csr.ie /\ irq /\ csr.mie
    <3>1. sys'.state = "TRAP" /\ sys'.cause = "interrupt"
      BY <1>1, <1>7, <2>3 DEF SleepEdge, SysReg
    <3> QED
      BY <2>1, <2>3, <3>1 DEF SysMeaning
  <2> QED
    BY <2>2, <2>3
<1> QED
  BY <1>3, <1>4, <1>5, <1>6, <1>7 DEF Edge

(***************************************************************************)
(* The steps of the machine.                                               *)
(***************************************************************************)

(* The machine goes on behind the instruction of WB.                       *)
LEMMA ArchPcMoves ==
  ASSUME CoreTypeOK, HandoverInv, IdOnPath, SequentialInv,
         sys.state \in {"IDLE", "REDIRECT"},
         NEW irq \in Interrupts, NEW v \in ReadData, Edge(irq, v)
  PROVE  ArchPc' = BehindWb
<1>1. PICK slot : Back(irq, v, slot) /\ PathMoves(irq, slot)
  BY EdgeFollowsPath DEF SequentialInv
<1>2. ArchPc' =
        IF wb'.valid THEN wb'.pc
        ELSE IF mem'.valid THEN mem'.pc
        ELSE IF ex'.valid THEN ex'.pc
        ELSE CASE sys'.state \in {"EXEC", "TRAP"} -> sys'.pc
               [] sys'.state = "REDIRECT" -> sys'.redirect
               [] sys'.state = "SLEEP" -> Plus4(sys'.pc)
               [] OTHER -> expect'
  BY DEF ArchPc
<1>3. /\ sysBusy = (sys.state # "IDLE") /\ sysBusy \in BOOLEAN /\ sys \in SysReg
      /\ mem.valid \/ ex.valid => ~sysBusy
      /\ mem.valid \in BOOLEAN /\ ex.valid \in BOOLEAN
  BY DEF HandoverInv, CoreTypeOK, FetchTypeOK, SlowPathAlone, MemReg, ExReg
<1>4. CASE mem.valid
  <2>1. CASE MemRetire
    BY <1>1, <1>2, <1>4, <2>1, WbMoves DEF BehindWb
  <2>2. CASE MemWait
    <3>1. mem' = mem /\ ~MemRetire
      BY <1>1, <2>2, MemWaits
    <3>2. ~wb'.valid
      BY <1>1, <3>1, WbMoves
    <3> QED
      BY <1>2, <1>4, <3>1, <3>2 DEF BehindWb
  <2>3. CASE MemFault
    <3>1. ~MemRetire /\ ~ExFire /\ ~MemWait /\ Flush
      BY <2>3 DEF MemRetire, MemoryHold, ExFire, Hold, MemWait, MemFault, Flush,
                  SysFlush
    <3>2. ~wb'.valid /\ ~mem'.valid /\ ~ex'.valid
      BY <1>1, <3>1, WbMoves, MemMoves, ExMoves
    <3>3. FaultEdge(irq, v)
      <4>1. ~Resolve /\ ~FarRedirect /\ ~sysBusy
        BY <1>3, <1>4, <2>3, ControlIsNoAccess DEF Resolve, MemFault
      <4> QED
        BY <1>3, <2>3, <3>1, <4>1
           DEF Edge, IssueEdge, StallEdge, MispredictEdge, FarEdge, EnterEdge,
               TakesSystem, ExecEdge, TrapEdge, RedirectEdge, SleepEdge
    <3>4. sys'.state = "TRAP" /\ sys'.pc = mem.pc
      BY <1>3, <3>3 DEF FaultEdge, SysReg
    <3> QED
      BY <1>2, <1>4, <3>2, <3>4 DEF BehindWb
  <2> QED
    BY <1>3, <1>4, <2>1, <2>2, <2>3 DEF MemRetire, MemoryHold
<1>5. CASE ~mem.valid
  <2>1. ~MemRetire /\ ~MemFault /\ ~LateMispredict /\ ~FarRedirect /\ ~MemWait
    BY <1>5 DEF MemRetire, MemFault, MemAccess, LateMispredict, LateResolves,
                FarRedirect, MemWait
  <2>2. ~wb'.valid /\ (~ExFire => ~mem'.valid)
    BY <1>1, <1>5, <2>1, WbMoves, MemMoves
  <2>3. CASE ExFire
    BY <1>1, <1>2, <1>5, <2>2, <2>3, MemMoves DEF BehindWb
  <2>4. CASE ex.valid /\ ~ExFire
    <3>1. Hold /\ ~Flush
      BY <1>3, <2>1, <2>4 DEF ExFire, Flush, Resolve, SysFlush
    <3>2. ex' = ex
      BY <1>1, <3>1 DEF Back, NextEx
    <3> QED
      BY <1>2, <1>5, <2>2, <2>4, <3>2 DEF BehindWb
  <2>5. CASE ~ex.valid
    <3>1. ~ExFire /\ ~mem'.valid /\ ~Resolve
      BY <2>1, <2>2, <2>5 DEF ExFire, Resolve
    <3>2. CASE sys.state = "REDIRECT"
      <4>1. RedirectEdge(irq, v)
        BY <1>3, <3>2
           DEF Edge, IssueEdge, Advance, StallEdge, Stall, MispredictEdge,
               Resolve, FaultEdge, Squash, FarEdge, EnterEdge,
               TakesSystem, ExecEdge, TrapEdge, SleepEdge
      <4>2. /\ expect' = sys.redirect /\ sys'.state = "IDLE" /\ Flush
        BY <1>3, <4>1 DEF RedirectEdge, SystemRedirect, SysReg, Flush, SysFlush
      <4>3. ~ex'.valid
        BY <1>1, <4>2, ExMoves
      <4> QED
        BY <1>2, <1>5, <2>2, <2>5, <3>1, <3>2, <4>2, <4>3 DEF BehindWb
    <3>3. CASE sys.state = "IDLE"
      <4>1. ~Flush /\ ~sysBusy
        BY <1>3, <2>1, <3>1, <3>3 DEF Flush, SysFlush
      <4>2. BehindWb = expect
        BY <1>5, <2>5, <3>3 DEF BehindWb
      <4>3. CASE ~Block(irq)
        <5>1. ~Hold
          BY <4>3 DEF Block
        <5>2. BehindMem' = expect
          BY <1>1, <4>1, <5>1, BehindMoves
        <5>3. IssueEdge(irq, v)
          BY <2>1, <3>1, <3>3, <4>1, <4>3
             DEF Edge, StallEdge, MispredictEdge, FaultEdge, FarEdge, EnterEdge,
                 EnterSystem, TakesSystem, Block, Stalled, ExecEdge, TrapEdge,
                 RedirectEdge, SleepEdge
        <5>4. sys' = sys
          BY <5>3 DEF IssueEdge
        <5> QED
          BY <1>2, <2>2, <3>1, <3>3, <4>2, <5>2, <5>4 DEF BehindMem
      <4>4. CASE Block(irq)
        <5>1. ~ex'.valid
          <6>1. ~(Hold /\ ex' = ex /\ ex'.valid)
            BY <2>5
          <6> QED
            BY <1>1, <4>4, <6>1, ExMoves
        <5>2. expect' = expect
          BY <1>1, <3>1, <3>3, <4>4 DEF PathMoves
        <5>3. StallEdge(irq, v) \/ EnterEdge(irq, v)
          BY <2>1, <3>1, <3>3, <4>1, <4>4
             DEF Edge, IssueEdge, MispredictEdge, FaultEdge, FarEdge,
                 ExecEdge, TrapEdge, RedirectEdge, SleepEdge
        <5>4. CASE StallEdge(irq, v)
          <6>1. sys' = sys
            BY <5>4 DEF StallEdge
          <6> QED
            BY <1>2, <2>2, <3>1, <3>3, <4>2, <5>1, <5>2, <6>1
        <5>5. CASE EnterEdge(irq, v)
          <6>1. sys'.state \in {"EXEC", "TRAP"} /\ sys'.pc = IdPc
            BY <1>3, <5>5 DEF EnterEdge, SysReg
          <6>2. IdPc = expect
            BY <4>1, <5>5 DEF EnterEdge, TakesSystem, IdOnPath
          <6> QED
            BY <1>2, <2>2, <3>1, <4>2, <5>1, <6>1, <6>2
        <5> QED
          BY <5>3, <5>4, <5>5
      <4> QED
        BY <4>3, <4>4
    <3> QED
      BY <3>2, <3>3
  <2> QED
    BY <2>3, <2>4, <2>5
<1> QED
  BY <1>3, <1>4, <1>5

(* For the machine, memory becomes what it is behind MEM.                  *)
LEMMA ArchMemMoves ==
  ASSUME CoreTypeOK, HandoverInv, BusMeaning, NEW irq, NEW v, NEW slot,
         Back(irq, v, slot)
  PROVE  ArchMem' = MemMem
<1>1. ArchMem' = Undo(MemMem', wb') /\ MemMem = Undo(dmem, mem)
  BY DEF ArchMem, MemMem, Undo
<1>2. CASE MemWait
  <2>1. mem' = mem /\ ~MemRetire /\ ~ExFire
    BY <1>2, MemWaits
  <2>2. dmem' = dmem /\ ~wb'.valid
    BY <2>1, WbMoves, MemoryMoves
  <2> QED
    BY <1>1, <2>1, <2>2 DEF MemMem, Undo
<1>3. CASE ~MemWait
  <2>1. MemMem' = dmem
    BY <1>3, MemoryMoves
  <2>2. CASE MemRetire
    <3>1. /\ mem.valid /\ wb'.valid /\ wb'.op = mem.op /\ wb'.addr = mem.addr
          /\ wb'.old = mem.old
      BY <2>2, WbMoves
    <3> QED
      BY <1>1, <2>1, <3>1 DEF Undo
  <2>3. CASE ~MemRetire
    <3>1. ~wb'.valid
      BY <2>3, WbMoves
    <3>2. ~(mem.valid /\ mem.op = "store" /\ mem.addr \in DataAddress)
      <4>1. CASE mem.valid
        <5>1. MemFault
          BY <1>3, <2>3, <4>1
             DEF MemRetire, MemoryHold, HandoverInv, SlowPathAlone
        <5>2. BadRequest(mem.op, mem.addr)
          BY <5>1, RegionAssumption
             DEF BusMeaning, MemFault, CoreTypeOK, MemReg
        <5> QED
          BY <5>2 DEF BadRequest, DataAddress
      <4> QED
        BY <4>1
    <3> QED
      BY <1>1, <2>1, <3>1, <3>2 DEF Undo
  <2> QED
    BY <2>2, <2>3
<1> QED
  BY <1>2, <1>3

(* Counting modulo the bound.                                              *)
LEMMA SentArithmetic ==
  ASSUME NEW s \in 0 .. SentLimit - 1
  PROVE  /\ (s + SentLimit - 0 - 0) % SentLimit = s
         /\ (((s + SentLimit - 1 - 0) % SentLimit) + 1) % SentLimit = s
         /\ (((s + 1) % SentLimit) + SentLimit - 0 - 1) % SentLimit = s
         /\ (s + SentLimit - 0 - 1) % SentLimit
              = (s + SentLimit - 1 - 0) % SentLimit
BY SentLimitAssumption

(* For the machine, a device write happens when its store leaves WB.       *)
LEMMA ArchSentMoves ==
  ASSUME CoreTypeOK, HandoverInv, BusMeaning, NEW irq, NEW v, NEW slot,
         Back(irq, v, slot)
  PROVE  ArchSent' = IF SentEarly(wb) = 1 THEN (ArchSent + 1) % SentLimit
                     ELSE ArchSent
<1>1. /\ sent \in 0 .. SentLimit - 1 /\ bus \in BusReg /\ bus.age \in 0 .. 1
      /\ bus.pending = MemAccess /\ bus.pending \in BOOLEAN
      /\ (bus.pending => bus.write = (mem.op = "store"))
      /\ bus' = NextBus
      /\ sent' = IF DeviceWrites THEN (sent + 1) % SentLimit ELSE sent
  BY DEF CoreTypeOK, BusReg, HandoverInv, BusMatchesMem, Back
<1>2. /\ ArchSent = (sent + SentLimit - SentEarly(wb)
                       - (IF bus.age = 1 THEN SentEarly(mem) ELSE 0)) % SentLimit
      /\ ArchSent' = (sent' + SentLimit - SentEarly(wb)'
                       - (IF bus'.age = 1 THEN SentEarly(mem)' ELSE 0)) % SentLimit
  BY DEF ArchSent, SentEarly
<1>3. SentEarly(wb) \in {0, 1} /\ SentEarly(mem) \in {0, 1}
  BY DEF SentEarly, Bit
<1>4. CASE bus.age = 1
  <2>1. MemAccess /\ bus.kind = "mmio" /\ ~wb.valid
    BY <1>4 DEF BusMeaning
  <2>2. BusAck /\ ~MemWait /\ ~MemFault /\ ~sysBusy /\ mem.valid
    BY <1>1, <1>4, <2>1 DEF BusAck, MemWait, MemFault, HandoverInv,
         SlowPathAlone, MemAccess
  <2>3. MemRetire
    BY <2>2 DEF MemRetire, MemoryHold
  <2>4. SentEarly(wb) = 0 /\ SentEarly(wb)' = SentEarly(mem)
    BY <2>1, <2>3, WbMoves DEF SentEarly, Bit
  <2>5. bus'.age = 0
    BY <1>1, <2>2 DEF NextBus, IdleBus
  <2>6. sent' = sent
    BY <1>1, <1>4 DEF DeviceWrites
  <2> QED
    BY <1>1, <1>2, <1>3, <1>4, <2>4, <2>5, <2>6, SentArithmetic
<1>5. CASE bus.age = 0 /\ DeviceWrites
  <2>1. MemAccess /\ bus.kind = "mmio" /\ mem.op = "store" /\ bus.pending
        /\ mem.valid
    BY <1>1, <1>5 DEF DeviceWrites, MemAccess
  <2>2. MemWait /\ ~BusAck
    BY <1>5, <2>1 DEF MemWait, BusAck
  <2>3. mem' = mem /\ ~MemRetire /\ ~ExFire
    BY <2>2, MemWaits
  <2>4. ~wb'.valid
    BY <2>3, WbMoves
  <2>5. bus' = [bus EXCEPT !.age = 1]
    BY <1>1, <2>1, <2>2, <2>3 DEF NextBus, BusAccept, BusStrobe
  <2>6. bus'.age = 1
    BY <1>1, <2>5 DEF BusReg
  <2>7. Region[mem.addr] = "mmio"
    BY <2>1 DEF BusMeaning
  <2>8. SentEarly(wb)' = 0 /\ SentEarly(mem)' = 1
    BY <2>1, <2>3, <2>4, <2>7 DEF SentEarly, Bit
  <2>9. ArchSent' = sent
    BY <1>1, <1>2, <1>5, <2>6, <2>8, SentArithmetic
  <2> QED
    BY <1>1, <1>2, <1>3, <1>5, <2>9, SentArithmetic
<1>6. CASE bus.age = 0 /\ ~DeviceWrites
  <2>1. sent' = sent
    BY <1>1, <1>6
  <2>2. SentEarly(wb)' = 0
    <3>1. CASE MemRetire /\ mem.op = "store" /\ Region[mem.addr] = "mmio"
      <4>1. MemAccess /\ BusAck /\ bus.kind # "error"
        BY <1>1, <3>1 DEF MemRetire, MemAccess, AccessesMemory, MemoryHold,
             MemWait, MemFault
      <4>2. bus.kind = "mmio"
        BY <3>1, <4>1 DEF BusMeaning
      <4> QED
        BY <1>6, <4>1, <4>2 DEF BusAck
    <3>2. CASE ~(MemRetire /\ mem.op = "store" /\ Region[mem.addr] = "mmio")
      BY <3>2, WbMoves DEF SentEarly, Bit
    <3> QED
      BY <3>1, <3>2
  <2>3. (IF bus'.age = 1 THEN SentEarly(mem)' ELSE 0) = 0
    <3>1. CASE bus'.age # 1
      BY <3>1
    <3>2. CASE bus'.age = 1
      <4>1. ~BusAccept /\ ~BusAck /\ bus.pending
        BY <1>1, <1>6, <3>2 DEF NextBus, IdleBus
      <4>2. MemWait
        BY <1>1, <4>1 DEF MemWait
      <4>3. bus.kind = "mmio" /\ ~bus.write
        BY <1>6, <4>1 DEF BusAck, DeviceWrites
      <4>4. mem.op # "store" /\ mem' = mem
        BY <1>1, <4>1, <4>2, <4>3, MemWaits
      <4> QED
        BY <4>4 DEF SentEarly, Bit
    <3> QED
      BY <3>1, <3>2
  <2>4. ArchSent' = sent
    BY <1>1, <1>2, <2>1, <2>2, <2>3, SentArithmetic
  <2> QED
    BY <1>1, <1>2, <1>3, <1>6, <2>4, SentArithmetic
<1> QED
  BY <1>1, <1>4, <1>5, <1>6

(* The machine computes with the operators of the core.                    *)
LEMMA SameOperators ==
  /\ \A a : M!Plus4(a) = Plus4(a) /\ M!Low(a) = Low(a)
  /\ \A a : M!InImem(a) <=> InImem(a)
  /\ \A a, b : M!Sum(a, b) = Sum(a, b) /\ M!Product(a, b) = Product(a, b)
                 /\ M!Quotient(a, b) = Quotient(a, b)
  /\ \A a, b : M!BranchTaken(a, b) <=> BranchTaken(a, b)
  /\ \A o, a : M!BadRequest(o, a) <=> BadRequest(o, a)
  /\ M!DataAddress = DataAddress /\ M!CsrOps = CsrOps
  /\ M!ResetCsr = ResetCsr
  /\ \A i, a : M!TrapCause(i, a) = TrapCause(i, a)
  /\ \A c, a, w : M!AfterTrap(c, a, w) = AfterTrap(c, a, w)
  /\ \A c : M!AfterMret(c) = AfterMret(c)
  /\ \A c, o : o \in CsrOps => M!CsrRead(c, o) = CsrRead(c, o)
  /\ \A c, o, v : o \in CsrOps => M!CsrWrite(c, o, v) = CsrWrite(c, o, v)
<1>1. M!Space = Space
  BY DEF M!Space, Space
<1>2. M!Address = Address
  BY <1>1 DEF M!Address, Address
<1>3. M!DataAddress = DataAddress
  BY <1>2 DEF M!DataAddress, DataAddress
<1>4. \A a : M!Plus4(a) = Plus4(a) /\ M!Low(a) = Low(a)
  BY <1>1 DEF M!Plus4, Plus4, M!Low, Low
<1>5. \A a : M!InImem(a) <=> InImem(a)
  BY DEF M!InImem, InImem
<1>6. \A a, b : M!Sum(a, b) = Sum(a, b) /\ M!Product(a, b) = Product(a, b)
                 /\ M!Quotient(a, b) = Quotient(a, b)
  BY <1>1 DEF M!Sum, Sum, M!Product, Product, M!Quotient, Quotient
<1>7. \A a, b : M!BranchTaken(a, b) <=> BranchTaken(a, b)
  BY DEF M!BranchTaken, BranchTaken
<1>8. \A o, a : M!BadRequest(o, a) <=> BadRequest(o, a)
  BY DEF M!BadRequest, BadRequest
<1>9. M!CsrOps = CsrOps
  BY DEF M!CsrOps, CsrOps
<1>10. M!ResetCsr = ResetCsr
  BY DEF M!ResetCsr, ResetCsr
<1>11. \A i, a : M!TrapCause(i, a) = TrapCause(i, a)
  BY <1>5 DEF M!TrapCause, TrapCause
<1>12. \A c, a, w : M!AfterTrap(c, a, w) = AfterTrap(c, a, w)
  BY DEF M!AfterTrap, AfterTrap
<1>13. \A c : M!AfterMret(c) = AfterMret(c)
  BY DEF M!AfterMret, AfterMret
<1>14. \A b : M!Bit(b) = Bit(b)
  BY DEF M!Bit, Bit
<1>15. \A c, o : o \in CsrOps => M!CsrRead(c, o) = CsrRead(c, o)
  BY <1>1, <1>14 DEF M!CsrRead, CsrRead, CsrOps
<1>16. \A c, o, v : o \in CsrOps => M!CsrWrite(c, o, v) = CsrWrite(c, o, v)
  BY DEF M!CsrWrite, CsrWrite, CsrOps
<1> QED
  BY <1>3, <1>4, <1>5, <1>6, <1>7, <1>8, <1>9, <1>10, <1>11, <1>12, <1>13,
     <1>15, <1>16

(* Without an instruction in WB and a csr access or trap at work, the      *)
(* machine does not move.                                                  *)
LEMMA QuietStep ==
  ASSUME CoreTypeOK, HandoverInv, IdOnPath, SequentialInv, ~wb.valid,
         sys.state \notin {"EXEC", "TRAP"},
         NEW irq \in Interrupts, NEW v \in ReadData, Edge(irq, v)
  PROVE  UNCHANGED << imem, ArchPc, regs, ArchMem, ArchSent, csr >>
<1>1. PICK slot : Back(irq, v, slot) /\ PathMoves(irq, slot)
  BY EdgeFollowsPath DEF SequentialInv
<1>2. /\ sysBusy = (sys.state # "IDLE") /\ sysBusy \in BOOLEAN /\ sys \in SysReg
      /\ sysBusy => ~ex.valid /\ ~mem.valid
  BY DEF HandoverInv, CoreTypeOK, FetchTypeOK, SlowPathAlone
<1>3. imem' = imem
  BY <1>1 DEF PathMoves
<1>4. regs' = regs
  BY <1>1 DEF Back, NextRegs
<1>5. csr' = csr
  BY DEF Edge, IssueEdge, StallEdge, MispredictEdge, FaultEdge, FarEdge,
         EnterEdge, ExecEdge, TrapEdge, RedirectEdge, SleepEdge
<1>6. ArchMem' = ArchMem
  <2>1. ArchMem = MemMem
    BY DEF ArchMem, MemMem, Undo
  <2> QED
    BY <1>1, <2>1, ArchMemMoves DEF SequentialInv
<1>7. ArchSent' = ArchSent
  <2>1. SentEarly(wb) = 0
    BY DEF SentEarly, Bit
  <2> QED
    BY <1>1, <2>1, ArchSentMoves DEF SequentialInv
<1>8. ArchPc' = ArchPc
  <2>1. CASE sys.state \in {"IDLE", "REDIRECT"}
    <3>1. ArchPc' = BehindWb
      BY <2>1, ArchPcMoves
    <3>2. ArchPc = BehindWb
      BY <2>1 DEF ArchPc, BehindWb
    <3> QED
      BY <3>1, <3>2
  <2>2. CASE sys.state = "SLEEP"
    <3>1. SleepEdge(irq, v)
      BY <1>2, <2>2
         DEF Edge, IssueEdge, Advance, StallEdge, Stall, MispredictEdge,
             Resolve, FaultEdge, Squash, FarEdge, EnterEdge,
             TakesSystem, ExecEdge, TrapEdge, RedirectEdge
    <3>2. ~MemRetire /\ ~MemWait /\ ~ExFire /\ ~ex'.valid
      <4>1. ~ex.valid /\ ~mem.valid /\ sysBusy
        BY <1>2, <2>2
      <4>2. Block(irq)
        BY <4>1 DEF Block, Hold
      <4>3. ~MemRetire /\ ~MemWait /\ ~ExFire
        BY <4>1 DEF MemRetire, MemWait, MemAccess, ExFire
      <4>4. ~(Hold /\ ex' = ex /\ ex'.valid)
        BY <4>1
      <4> QED
        BY <1>1, <4>2, <4>3, <4>4, ExMoves
    <3>3. ~wb'.valid /\ ~mem'.valid
      BY <1>1, <3>2, WbMoves, MemMoves
    <3>4. ArchPc = Plus4(sys.pc)
      BY <1>2, <2>2 DEF ArchPc
    <3>5. ArchPc' = CASE sys'.state \in {"EXEC", "TRAP"} -> sys'.pc
                      [] sys'.state = "REDIRECT" -> sys'.redirect
                      [] sys'.state = "SLEEP" -> Plus4(sys'.pc)
                      [] OTHER -> expect'
      BY <3>2, <3>3 DEF ArchPc
    <3> QED
      BY <1>2, <2>2, <3>1, <3>4, <3>5 DEF SleepEdge, SysReg
  <2> QED
    BY <1>2, <2>1, <2>2 DEF SysReg
<1> QED
  BY <1>3, <1>4, <1>5, <1>6, <1>7, <1>8

(* An edge on which WB holds an instruction executes that instruction.     *)
LEMMA RetireStep ==
  ASSUME CoreTypeOK, HandoverInv, IdOnPath, SequentialInv, wb.valid,
         NEW irq \in Interrupts, NEW v \in ReadData, Edge(irq, v)
  PROVE  M!Compute \/ M!Jump \/ M!Branch \/ M!Load \/ M!Store
<1>1. PICK slot : Back(irq, v, slot) /\ PathMoves(irq, slot)
  BY EdgeFollowsPath DEF SequentialInv
<1>2. sys.state \in {"IDLE", "REDIRECT"}
  BY DEF HandoverInv, SlowPathAlone
<1> DEFINE i == At(wb.pc)
           x == regs[i.rs1]
           y == regs[i.rs2]
<1>3. /\ InImem(wb.pc) /\ wb.op = i.op /\ wb.rd = i.rd /\ i.op \in Pipelined
      /\ WritesRd(wb.op) /\ wb.op # "load" => wb.value = Outcome(i, wb.pc, x, y)
      /\ AccessesMemory(wb.op) =>
           wb.addr = Sum(x, i.target) /\ ~BadRequest(wb.op, wb.addr)
      /\ wb.op = "load" =>
           wb.value \in IF wb.addr \in DataAddress THEN {ArchMem[wb.addr]}
                        ELSE LoadValues
      /\ wb.op = "store" /\ wb.addr \in DataAddress => MemMem[wb.addr] = y
      /\ BehindWb = Successor(i, wb.pc, x, y)
  BY DEF SequentialInv, WbMeaning, FromRom
<1>4. ArchPc = wb.pc
  BY DEF ArchPc
<1>5. /\ ArchPc' = Successor(i, wb.pc, x, y) /\ imem' = imem
      /\ csr' = csr
  <2>1. csr' = csr
    BY <1>2 DEF Edge, IssueEdge, StallEdge, MispredictEdge, FaultEdge, FarEdge,
         EnterEdge, ExecEdge, TrapEdge, RedirectEdge, SleepEdge
  <2> QED
    BY <1>1, <1>2, <1>3, <2>1, ArchPcMoves DEF PathMoves
<1>6. regs' = IF WritesRd(wb.op)
              THEN [regs EXCEPT ![wb.rd] = IF wb.rd = 0 THEN 0 ELSE wb.value]
              ELSE regs
  BY <1>1, <1>2 DEF Back, NextRegs
<1>7. ArchMem' = MemMem
  BY <1>1, ArchMemMoves DEF SequentialInv
<1>8. ArchSent' = IF SentEarly(wb) = 1 THEN (ArchSent + 1) % SentLimit
                  ELSE ArchSent
  BY <1>1, ArchSentMoves DEF SequentialInv
<1>9. /\ wb.addr \in Address /\ dmem \in [DataAddress -> Address]
      /\ mem.old \in Address
  BY DEF CoreTypeOK, WbReg, MemReg
<1>10. wb.op # "store" => ArchMem = MemMem /\ SentEarly(wb) = 0
  BY DEF ArchMem, MemMem, Undo, SentEarly, Bit
<1>11. /\ M!Insn = i /\ (\A ops : M!Runs(ops) <=> i.op \in ops)
       /\ M!A = x /\ M!B = y /\ M!EA = Sum(x, i.target)
  <2>1. M!Insn = i
    BY <1>4, SameOperators DEF M!Insn, At
  <2> QED
    BY <1>3, <1>4, <2>1, SameOperators DEF M!Runs, M!A, M!B, M!EA
<1>12. \A rd, w : M!Set(rd, w) = [regs EXCEPT ![rd] = IF rd = 0 THEN 0 ELSE w]
  BY DEF M!Set
<1> HIDE DEF i, x, y
<1>13. CASE i.op \in {"alu", "addi", "mul", "div"}
  <2>1. wb.value = CASE i.op = "alu"  -> Sum(x, y)
                     [] i.op = "addi" -> Sum(x, i.target)
                     [] i.op = "mul"  -> Product(x, y)
                     [] i.op = "div"  -> Quotient(x, y)
    BY <1>3, <1>13 DEF WritesRd, Outcome, IsJump
  <2>2. regs' = M!Set(i.rd, wb.value)
    BY <1>3, <1>6, <1>12, <1>13 DEF WritesRd
  <2>3. ArchPc' = Plus4(ArchPc)
    BY <1>4, <1>5, <1>13 DEF Successor
  <2>4. M!Compute
    BY <1>3, <1>5, <1>7, <1>8, <1>10, <1>11, <1>13, <2>1, <2>2, <2>3,
       SameOperators DEF M!Compute
  <2> QED
    BY <2>4
<1>14. CASE i.op \in {"jal", "jalr"}
  <2>1. wb.value = Plus4(wb.pc)
    BY <1>3, <1>14 DEF WritesRd, Outcome, IsJump
  <2>2. regs' = M!Set(i.rd, wb.value)
    BY <1>3, <1>6, <1>12, <1>14 DEF WritesRd
  <2>3. ArchPc' = IF i.op = "jal" THEN i.target ELSE Sum(x, i.target)
    BY <1>5, <1>14 DEF Successor
  <2>4. M!Jump
    BY <1>3, <1>4, <1>5, <1>7, <1>8, <1>10, <1>11, <1>14, <2>1, <2>2, <2>3,
       SameOperators DEF M!Jump
  <2> QED
    BY <2>4
<1>15. CASE i.op = "branch"
  <2>1. regs' = regs
    BY <1>3, <1>6, <1>15 DEF WritesRd
  <2>2. ArchPc' = IF BranchTaken(x, y) THEN i.target ELSE Plus4(ArchPc)
    BY <1>4, <1>5, <1>15 DEF Successor
  <2>3. M!Branch
    BY <1>3, <1>5, <1>7, <1>8, <1>10, <1>11, <1>15, <2>1, <2>2,
       SameOperators DEF M!Branch
  <2> QED
    BY <2>3
<1>16. CASE i.op = "load"
  <2>1. /\ wb.addr = Sum(x, i.target) /\ ~BadRequest("load", wb.addr)
        /\ wb.value \in IF wb.addr \in DataAddress THEN {ArchMem[wb.addr]}
                        ELSE LoadValues
    BY <1>3, <1>16 DEF AccessesMemory
  <2>2. regs' = M!Set(i.rd, wb.value)
    BY <1>3, <1>6, <1>12, <1>16 DEF WritesRd
  <2>3. ArchPc' = Plus4(ArchPc)
    BY <1>4, <1>5, <1>16 DEF Successor
  <2>4. M!Load
    BY <1>3, <1>5, <1>7, <1>8, <1>10, <1>11, <1>16, <2>1, <2>2, <2>3,
       SameOperators DEF M!Load
  <2> QED
    BY <2>4
<1>17. CASE i.op = "store"
  <2>1. /\ wb.addr = Sum(x, i.target) /\ ~BadRequest("store", wb.addr)
    BY <1>3, <1>17 DEF AccessesMemory
  <2>2. regs' = regs
    BY <1>3, <1>6, <1>17 DEF WritesRd
  <2>3. ArchPc' = Plus4(ArchPc)
    BY <1>4, <1>5, <1>17 DEF Successor
  <2>4. ASSUME wb.addr \in DataAddress
        PROVE  /\ ArchMem' = [ArchMem EXCEPT ![wb.addr] = y]
               /\ ArchSent' = ArchSent
    <3>1. MemMem \in [DataAddress -> Address]
      BY <1>9 DEF MemMem, Undo
    <3>2. ArchMem = [MemMem EXCEPT ![wb.addr] = wb.old]
      BY <1>3, <1>17, <2>4 DEF ArchMem, MemMem, Undo
    <3>3. MemMem[wb.addr] = y
      BY <1>3, <1>17, <2>4
    <3>4. [ArchMem EXCEPT ![wb.addr] = y] = MemMem
      BY <2>4, <3>1, <3>2, <3>3
    <3>5. SentEarly(wb) = 0
      BY <2>4 DEF SentEarly, Bit, DataAddress
    <3> QED
      BY <1>7, <1>8, <3>4, <3>5
  <2>5. ASSUME wb.addr \notin DataAddress
        PROVE  /\ ArchMem' = ArchMem
               /\ ArchSent' = (ArchSent + 1) % SentLimit
    <3>1. ArchMem = MemMem
      BY <2>5 DEF ArchMem, MemMem, Undo
    <3>2. Region[wb.addr] = "mmio"
      BY <1>9, <2>1, <2>5, RegionAssumption DEF BadRequest, DataAddress
    <3>3. SentEarly(wb) = 1
      BY <1>3, <1>17, <3>2 DEF SentEarly, Bit
    <3> QED
      BY <1>7, <1>8, <3>1, <3>3
  <2>6. M!Store
    BY <1>3, <1>5, <1>11, <1>17, <2>1, <2>2, <2>3, <2>4, <2>5,
       SameOperators DEF M!Store
  <2> QED
    BY <2>6
<1> QED
  BY <1>3, <1>13, <1>14, <1>15, <1>16, <1>17 DEF Pipelined

(* While a csr access executes or a trap is entered the pipeline is empty, *)
(* so the machine stands at the instruction the slow path took over.       *)
LEMMA SlowEdge ==
  ASSUME CoreTypeOK, HandoverInv, IdOnPath, SequentialInv,
         sys.state \in {"EXEC", "TRAP"},
         NEW irq \in Interrupts, NEW v \in ReadData, Edge(irq, v)
  PROVE  /\ IF sys.state = "EXEC" THEN ExecEdge(irq, v) ELSE TrapEdge(irq, v)
         /\ Back(irq, v, Bubble)
         /\ ArchPc = sys.pc
         /\ ArchPc' = CASE sys'.state = "REDIRECT" -> sys'.redirect
                        [] sys'.state = "SLEEP" -> Plus4(sys'.pc)
                        [] OTHER -> ArchPc'
         /\ imem' = imem /\ ArchMem' = ArchMem /\ ArchSent' = ArchSent
         /\ ~wb.valid
<1>1. /\ sysBusy = (sys.state # "IDLE") /\ sysBusy \in BOOLEAN /\ sys \in SysReg
      /\ ~ex.valid /\ ~mem.valid /\ ~wb.valid /\ sysBusy
  BY DEF HandoverInv, CoreTypeOK, FetchTypeOK, SlowPathAlone
<1>2. IF sys.state = "EXEC" THEN ExecEdge(irq, v) ELSE TrapEdge(irq, v)
  <2>1. ASSUME sys.state = "EXEC"
        PROVE  ExecEdge(irq, v)
    BY <1>1, <2>1
       DEF Edge, IssueEdge, Advance, StallEdge, Stall, MispredictEdge,
           Resolve, FaultEdge, Squash, FarEdge, EnterEdge,
           TakesSystem, TrapEdge, RedirectEdge, SleepEdge
  <2>2. ASSUME sys.state = "TRAP"
        PROVE  TrapEdge(irq, v)
    BY <1>1, <2>2
       DEF Edge, IssueEdge, Advance, StallEdge, Stall, MispredictEdge,
           Resolve, FaultEdge, Squash, FarEdge, EnterEdge,
           TakesSystem, ExecEdge, RedirectEdge, SleepEdge
  <2> QED
    BY <2>1, <2>2
<1>3. Back(irq, v, Bubble) /\ Drain
  BY <1>2 DEF ExecEdge, TrapEdge
<1>4. imem' = imem
  BY <1>3 DEF Drain, Blocked
<1>5. ArchPc = sys.pc
  BY <1>1 DEF ArchPc
<1>6. ArchMem' = ArchMem
  <2>1. ArchMem = MemMem
    BY <1>1 DEF ArchMem, MemMem, Undo
  <2> QED
    BY <1>3, <2>1, ArchMemMoves DEF SequentialInv
<1>7. ArchSent' = ArchSent
  <2>1. SentEarly(wb) = 0
    BY <1>1 DEF SentEarly, Bit
  <2> QED
    BY <1>3, <2>1, ArchSentMoves DEF SequentialInv
<1>8. ~ex'.valid /\ ~mem'.valid /\ ~wb'.valid
  <2>1. /\ ~MemRetire /\ ~MemWait /\ ~ExFire /\ Block(irq)
        /\ ~(Hold /\ ex' = ex /\ ex'.valid)
    BY <1>1 DEF MemRetire, MemWait, MemAccess, ExFire, Block, Hold
  <2>2. ~ex'.valid
    BY <1>3, <2>1, ExMoves
  <2> QED
    BY <1>3, <2>1, <2>2, WbMoves, MemMoves
<1>9. ArchPc' = CASE sys'.state \in {"EXEC", "TRAP"} -> sys'.pc
                  [] sys'.state = "REDIRECT" -> sys'.redirect
                  [] sys'.state = "SLEEP" -> Plus4(sys'.pc)
                  [] OTHER -> expect'
  BY <1>8 DEF ArchPc
<1>10. ArchPc' = CASE sys'.state = "REDIRECT" -> sys'.redirect
                   [] sys'.state = "SLEEP" -> Plus4(sys'.pc)
                   [] OTHER -> ArchPc'
  BY <1>9
<1> QED
  BY <1>1, <1>2, <1>3, <1>4, <1>5, <1>6, <1>7, <1>10

(* A csr access, mret or wfi is one step of the machine.                   *)
LEMMA ExecStep ==
  ASSUME CoreTypeOK, HandoverInv, IdOnPath, SequentialInv, sys.state = "EXEC",
         NEW irq \in Interrupts, NEW v \in ReadData, Edge(irq, v)
  PROVE  M!ReadWriteCsr \/ M!Mret \/ M!Wfi
<1> DEFINE i == At(sys.pc)
<1>1. /\ ExecEdge(irq, v) /\ Back(irq, v, Bubble) /\ ArchPc = sys.pc /\ ~wb.valid
      /\ imem' = imem /\ ArchMem' = ArchMem /\ ArchSent' = ArchSent
      /\ ArchPc' = CASE sys'.state = "REDIRECT" -> sys'.redirect
                     [] sys'.state = "SLEEP" -> Plus4(sys'.pc)
                     [] OTHER -> ArchPc'
  BY SlowEdge
<1>2. /\ InImem(sys.pc) /\ sys.op = i.op /\ sys.rd = i.rd
      /\ sys.op \in CsrOps \cup {"mret", "wfi"}
      /\ sys.src = regs[i.rs1]
  BY DEF SequentialInv, SysMeaning
<1>3. sys \in SysReg /\ regs \in [Regs -> Address] /\ regs[0] = 0
  BY DEF CoreTypeOK
<1>4. /\ M!Insn = i /\ (\A ops : M!Runs(ops) <=> i.op \in ops)
      /\ M!A = regs[i.rs1]
  <2>1. M!Insn = i
    BY <1>1, SameOperators DEF M!Insn, At
  <2> QED
    BY <1>1, <1>2, <2>1, SameOperators DEF M!Runs, M!A
<1>5. /\ sys'.state = IF sys.op = "wfi" THEN "SLEEP" ELSE "REDIRECT"
      /\ sys'.redirect = IF sys.op = "mret" THEN csr.epc ELSE Plus4(sys.pc)
      /\ sys'.pc = sys.pc
      /\ csr' = CASE sys.op = "mret"     -> AfterMret(csr)
                  [] sys.op \in CsrOps   -> CsrWrite(csr, sys.op, sys.src)
                  [] OTHER               -> csr
  BY <1>1, <1>3 DEF ExecEdge, SysReg
<1>6. regs' = IF sys.op \in CsrOps /\ sys.rd # 0
              THEN [regs EXCEPT ![sys.rd] = CsrRead(csr, sys.op)] ELSE regs
  BY <1>1 DEF Back, NextRegs
<1> HIDE DEF i
<1>7. CASE i.op \in CsrOps
  <2>1. sys.op # "mret" /\ sys.op # "wfi"
    BY <1>2, <1>7 DEF CsrOps
  <2>2. /\ csr' = CsrWrite(csr, i.op, regs[i.rs1])
        /\ ArchPc' = Plus4(ArchPc)
    BY <1>1, <1>2, <1>5, <1>7, <2>1
  <2>3. regs' = M!Set(i.rd, CsrRead(csr, i.op))
    <3>1. CASE sys.rd = 0
      <4>1. [regs EXCEPT ![0] = 0] = regs
        BY <1>3
      <4>2. regs' = regs
        BY <1>6, <3>1
      <4> QED
        BY <1>2, <3>1, <4>1, <4>2 DEF M!Set
    <3>2. CASE sys.rd # 0
      BY <1>2, <1>6, <1>7, <3>2 DEF M!Set
    <3> QED
      BY <3>1, <3>2
  <2>4. M!ReadWriteCsr
    BY <1>1, <1>4, <1>7, <2>2, <2>3, SameOperators DEF M!ReadWriteCsr
  <2> QED
    BY <2>4
<1>8. CASE i.op = "mret"
  <2>1. regs' = regs
    BY <1>2, <1>6, <1>8 DEF CsrOps
  <2>2. csr' = AfterMret(csr) /\ ArchPc' = csr.epc
    BY <1>1, <1>2, <1>5, <1>8 DEF CsrOps
  <2>3. M!Mret
    BY <1>1, <1>4, <1>8, <2>1, <2>2, SameOperators DEF M!Mret
  <2> QED
    BY <2>3
<1>9. CASE i.op = "wfi"
  <2>1. regs' = regs
    BY <1>2, <1>6, <1>9 DEF CsrOps
  <2>2. csr' = csr
    BY <1>2, <1>5, <1>9 DEF CsrOps
  <2>3. ArchPc' = Plus4(ArchPc)
    BY <1>1, <1>2, <1>5, <1>9
  <2>4. M!Wfi
    BY <1>1, <1>4, <1>9, <2>1, <2>2, <2>3, SameOperators DEF M!Wfi
  <2> QED
    BY <2>4
<1> QED
  BY <1>2, <1>7, <1>8, <1>9

(* A trap entry is one step of the machine, for the reason it saves.       *)
LEMMA TrapStep ==
  ASSUME CoreTypeOK, HandoverInv, IdOnPath, SequentialInv, sys.state = "TRAP",
         NEW irq \in Interrupts, NEW v \in ReadData, Edge(irq, v)
  PROVE  M!AccessFault \/ M!Exception \/ M!Interrupt
<1> DEFINE i == At(sys.pc)
<1>1. /\ TrapEdge(irq, v) /\ Back(irq, v, Bubble) /\ ArchPc = sys.pc /\ ~wb.valid
      /\ imem' = imem /\ ArchMem' = ArchMem /\ ArchSent' = ArchSent
      /\ ArchPc' = CASE sys'.state = "REDIRECT" -> sys'.redirect
                     [] sys'.state = "SLEEP" -> Plus4(sys'.pc)
                     [] OTHER -> ArchPc'
  BY SlowEdge
<1>2. \/ sys.cause = "interrupt" /\ csr.mie /\ csr.ie
      \/ /\ sys.cause = "access"
         /\ InImem(sys.pc) /\ i.op \in {"load", "store"}
         /\ BadRequest(i.op, Sum(regs[i.rs1], i.target))
      \/ sys.cause = TrapCause(i, sys.pc) /\ sys.cause # "none"
  BY DEF SequentialInv, SysMeaning
<1>3. sys \in SysReg
  BY DEF CoreTypeOK
<1>4. M!Insn = i
  BY <1>1, SameOperators DEF M!Insn, At
<1>5. /\ M!A = regs[i.rs1] /\ M!EA = Sum(regs[i.rs1], i.target)
      /\ \A ops : M!Runs(ops) <=> InImem(sys.pc) /\ i.op \in ops
  BY <1>1, <1>4, SameOperators DEF M!Runs, M!A, M!EA
<1>6. /\ csr' = AfterTrap(csr, sys.pc, sys.cause) /\ ArchPc' = csr.tvec
      /\ regs' = regs
  <2>1. sys'.state = "REDIRECT" /\ sys'.redirect = csr.tvec
    BY <1>1, <1>3 DEF TrapEdge, SysReg
  <2>2. csr' = AfterTrap(csr, sys.pc, sys.cause)
    BY <1>1 DEF TrapEdge
  <2>3. regs' = regs
    BY <1>1 DEF Back, NextRegs
  <2> QED
    BY <1>1, <2>1, <2>2, <2>3
<1>7. M!Trap(sys.cause)
  BY <1>1, <1>6, SameOperators DEF M!Trap
<1> HIDE DEF i
<1>8. CASE sys.cause = "interrupt" /\ csr.mie /\ csr.ie
  BY <1>7, <1>8 DEF M!Interrupt
<1>9. CASE /\ sys.cause = "access"
           /\ InImem(sys.pc) /\ i.op \in {"load", "store"}
           /\ BadRequest(i.op, Sum(regs[i.rs1], i.target))
  BY <1>4, <1>5, <1>7, <1>9, SameOperators DEF M!AccessFault
<1>10. CASE sys.cause = TrapCause(i, sys.pc) /\ sys.cause # "none"
  <2>1. M!TrapCause(M!Insn, ArchPc) = sys.cause
    BY <1>1, <1>4, <1>10, SameOperators
  <2> QED
    BY <1>7, <1>10, <2>1 DEF M!Exception
<1> QED
  BY <1>2, <1>8, <1>9, <1>10

(***************************************************************************)
(* The multiplier and the divider answer for their own instruction.        *)
(*                                                                         *)
(* A misprediction that a late-resolved branch finds flushes EX while the  *)
(* multiplier goes on for the instruction that was there.  It is still     *)
(* busy when the branch's target arrives in ID, so a multiplication there  *)
(* is not started.  This is the only way in which a start is lost.         *)
(***************************************************************************)
NoMulAtLateTarget ==
  LateMispredict /\ mul.busy => At(LateRedirect).op # "mul"

(* The multiplier works for nobody: its instruction was flushed by the     *)
(* slow path, or by a late-resolved branch, whose target follows.          *)
Abandoned ==
  \/ sysBusy /\ sys.state \in {"TRAP", "REDIRECT"} /\ mul.count <= 1
  \/ /\ ~sysBusy /\ killQ /\ ~idReg.valid /\ ~ex.valid /\ ~mem.valid
     /\ mul.count = 0 \/ (mul.count <= 1 /\ At(expect).op # "mul")
  \/ ~sysBusy /\ mul.count = 0 /\ At(expect).op # "mul"

(* The inductive strengthening of MulDivFresh.                             *)
MulDivInv ==
  /\ mul.busy => ~mul.ready
  /\ ex.valid /\ ex.op = "mul" => mul.product = Product(ex.a, ex.b)
  /\ ex.valid /\ ex.op = "div" => div.quotient = Quotient(ex.a, ex.b)
  /\ mul.busy => (ex.valid /\ ex.op = "mul") \/ Abandoned
  /\ killQ => ~preValid
  /\ ~idReg.valid => idReg.word.op = "illegal"
  /\ idReg.taken => idReg.word.op \in {"jal", "branch", "jalr"}

(* What a clock edge does to the slots of the front end and to the slow    *)
(* path: a flush empties the slots, a fault or far jump starts the slow    *)
(* path, and the slow path ends with a redirect.                           *)
LEMMA SlotsMove ==
  ASSUME CoreTypeOK, HandoverInv, killQ => ~preValid,
         ~idReg.valid => idReg.word.op = "illegal",
         NEW irq \in Interrupts, NEW v \in ReadData, Edge(irq, v)
  PROVE  /\ killQ' => ~preValid'
         /\ ~idReg'.valid => idReg'.word.op = "illegal"
         /\ Flush => killQ' /\ ~idReg'.valid
         /\ MemFault \/ FarRedirect =>
              sysBusy' /\ sys'.state \in {"TRAP", "REDIRECT"}
         /\ Resolve => ~sysBusy'
         /\ sys.state = "TRAP" => sysBusy' /\ sys'.state = "REDIRECT"
         /\ sys.state = "REDIRECT" => Flush /\ ~sysBusy'
         /\ ~sysBusy /\ ~Flush /\ ~IdValid => ~sysBusy'
<1>1. /\ sysBusy = (sys.state # "IDLE") /\ sysBusy \in BOOLEAN /\ sys \in SysReg
      /\ sysBusy => ~ex.valid /\ ~mem.valid
      /\ idReg.word.op = "illegal" \/ idReg.valid
  BY DEF HandoverInv, CoreTypeOK, FetchTypeOK, SlowPathAlone
<1>2. MemFault => ~FarRedirect
  BY ControlIsNoAccess DEF MemFault
<1>3. sysBusy => ~MemFault /\ ~FarRedirect /\ ~Resolve
  BY <1>1 DEF MemFault, MemAccess, FarRedirect, Resolve
(* A flush of the front end.                                               *)
<1>4. ASSUME NEW blocked, Flushed(blocked)
      PROVE  killQ' /\ ~preValid' /\ ~idReg'.valid /\ idReg'.word.op = "illegal"
  BY <1>4 DEF Flushed, Bubble, ZeroWord
(* The front end stands still.                                             *)
<1>5. ASSUME NEW b, Blocked(b)
      PROVE  /\ killQ' => ~preValid'
             /\ ~idReg'.valid => idReg'.word.op = "illegal"
  BY <1>1, <1>5 DEF Blocked
<1>6. CASE IssueEdge(irq, v)
  <2>1. PICK p0 \in Predictions(IfWord), p1 \in Predictions(PreWord) :
          Advance(ImemBusRead, p0, p1)
    BY <1>6 DEF IssueEdge
  <2>2. killQ' => ~preValid'
    BY <2>1 DEF Advance
  <2>3. ~idReg'.valid => idReg'.word.op = "illegal"
    <3>1. idReg' = NextIdReg(p0, p1)
      BY <2>1 DEF Advance
    <3>2. NextIdReg(p0, p1) \in {Bubble, PreSlot(p1), IfSlot(p0)}
      BY DEF NextIdReg
    <3>3. CASE idReg' = IfSlot(p0)
      BY <3>3 DEF IfSlot, IfWord, ZeroWord
    <3>4. CASE idReg' \in {Bubble, PreSlot(p1)}
      BY <3>4 DEF Bubble, ZeroWord, PreSlot
    <3> QED
      BY <3>1, <3>2, <3>3, <3>4
  <2>4. ~sysBusy /\ ~sysBusy' /\ ~Flush
    BY <1>6, <2>1 DEF IssueEdge, Advance
  <2> QED
    BY <1>1, <2>2, <2>3, <2>4 DEF Flush, SysFlush
<1>7. CASE StallEdge(irq, v)
  BY <1>1, <1>5, <1>7 DEF StallEdge, Stall, Flush, SysFlush
<1>8. CASE MispredictEdge(irq, v)
  <2>1. Flushed(Block(irq)) /\ ~sysBusy /\ ~sysBusy' /\ Resolve
    BY <1>8 DEF MispredictEdge, Mispredict
  <2> QED
    BY <1>1, <1>4, <2>1 DEF Resolve
<1>9. CASE FaultEdge(irq, v) \/ FarEdge(irq, v)
  <2>1. /\ Flushed(Block(irq)) /\ ~sysBusy /\ sysBusy' /\ ~Resolve
        /\ sys'.state \in {"TRAP", "REDIRECT"}
    BY <1>1, <1>9 DEF FaultEdge, FarEdge, Squash, SysReg, Resolve
  <2>2. MemFault \/ FarRedirect
    BY <1>9 DEF FaultEdge, FarEdge
  <2> QED
    BY <1>1, <1>4, <2>1, <2>2 DEF Flush, SysFlush
<1>10. CASE EnterEdge(irq, v)
  <2>1. /\ ~sysBusy /\ Blocked(FALSE) /\ IdValid /\ ~MemFault /\ ~FarRedirect
        /\ ~Resolve /\ sys.state = "IDLE"
    BY <1>10 DEF EnterEdge, EnterSystem, TakesSystem
  <2> QED
    BY <1>1, <1>5, <2>1 DEF Flush, SysFlush
<1>11. CASE ExecEdge(irq, v) \/ TrapEdge(irq, v) \/ SleepEdge(irq, v)
  <2>1. sysBusy /\ Blocked(FALSE) /\ sysBusy' = sysBusy
    BY <1>11 DEF ExecEdge, TrapEdge, SleepEdge, Drain
  <2>2. sys.state \in {"EXEC", "TRAP", "SLEEP"}
    BY <1>11 DEF ExecEdge, TrapEdge, SleepEdge
  <2>3. sys.state = "TRAP" => sys'.state = "REDIRECT"
    BY <1>1, <1>11 DEF ExecEdge, TrapEdge, SleepEdge, SysReg
  <2>4. ~Flush
    BY <1>3, <2>1, <2>2 DEF Flush, SysFlush
  <2> QED
    BY <1>3, <1>5, <2>1, <2>2, <2>3, <2>4
<1>12. CASE RedirectEdge(irq, v)
  <2>1. sysBusy /\ Flushed(TRUE) /\ ~sysBusy' /\ sys.state = "REDIRECT"
    BY <1>12 DEF RedirectEdge, SystemRedirect
  <2> QED
    BY <1>3, <1>4, <2>1 DEF Flush, SysFlush
<1> QED
  BY <1>6, <1>7, <1>8, <1>9, <1>10, <1>11, <1>12 DEF Edge

(* A start of the multiplier or the divider belongs to the instruction     *)
(* that ID hands over on the same edge, and each one gets its start.       *)
LEMMA StartsWithIssue ==
  ASSUME CoreTypeOK, HandoverInv, ~idReg.valid => idReg.word.op = "illegal",
         NEW irq, NEW v, NEW slot, Back(irq, v, slot), PathMoves(irq, slot),
         NEW op \in {"mul", "div"}
  PROVE  /\ Preload(op, irq) =>
              /\ IdValid /\ ~Flush /\ ~Block(irq) /\ ~Hold
              /\ slot.word = IdWord
              /\ ex' = Decode(slot, v) /\ ex'.op = op
              /\ ex'.a = Forward(IdWord.rs1, v) /\ ex'.b = Forward(IdWord.rs2, v)
         /\ ex'.valid /\ ex'.op = op =>
              Preload(op, irq) \/ (Hold /\ ~Flush /\ ex' = ex)
<1>1. /\ ex' = NextEx(irq, v, slot)
      /\ idReg.valid \/ idReg.word.op = "illegal"
      /\ idReg.valid \in BOOLEAN
  BY DEF Back, CoreTypeOK, FetchTypeOK, Slot
<1>2. IdWord.op = op => IdValid
  BY <1>1 DEF IdWord, IdValid, IdSlot, IfSlot, IfWord, ZeroWord
<1>3. ASSUME Preload(op, irq)
      PROVE  /\ IdValid /\ ~Flush /\ ~Block(irq) /\ ~Hold
             /\ slot.word = IdWord
             /\ ex' = Decode(slot, v) /\ ex'.op = op
             /\ ex'.a = Forward(IdWord.rs1, v) /\ ex'.b = Forward(IdWord.rs2, v)
  <2>1. /\ IdWord.op = op /\ InImem(IdPc) /\ ~HazardStall
        /\ ~InterruptPending(irq) /\ ~Flush /\ ~Hold
    BY <1>3 DEF Preload
  <2>2. ~IsSerial(IdWord, IdPc) /\ ~sysBusy
    BY <2>1 DEF IsSerial, CsrOps, Hold
  <2>3. ~Block(irq) /\ ~Stalled(irq)
    BY <2>1, <2>2 DEF Block, Stalled, SysStop
  <2>4. IdValid /\ slot.word = IdWord
    BY <1>2, <2>1, <2>3 DEF PathMoves
  <2>5. ex' = Decode(slot, v)
    BY <1>1, <2>1, <2>3 DEF NextEx
  <2>6. /\ ex'.op = op
        /\ ex'.a = Forward(IdWord.rs1, v) /\ ex'.b = Forward(IdWord.rs2, v)
    BY <2>1, <2>4, <2>5 DEF Decode
  <2> QED
    BY <2>1, <2>3, <2>4, <2>5, <2>6
<1>4. ASSUME ex'.valid, ex'.op = op
      PROVE  Preload(op, irq) \/ (Hold /\ ~Flush /\ ex' = ex)
  <2>1. ~Flush
    BY <1>4, ExMoves
  <2>2. CASE Hold /\ ex' = ex
    BY <2>1, <2>2
  <2>3. CASE ~Block(irq) /\ ex' = Decode(slot, v)
    <3>1. slot.valid /\ slot.word.op = op
      BY <1>4, <2>3 DEF Decode
    <3>2. IdValid /\ IdWord.op = op
      BY <2>1, <2>3, <3>1 DEF PathMoves
    <3>3. /\ ~HazardStall /\ ~Hold
          /\ ~IsSerial(IdWord, IdPc) /\ ~InterruptPending(irq)
      BY <2>3, <3>2 DEF Block, Stalled, SysStop
    <3>4. Preload(op, irq)
      BY <2>1, <3>2, <3>3 DEF Preload, IsSerial
    <3> QED
      BY <3>4
  <2> QED
    BY <1>4, <2>2, <2>3, ExMoves
<1> QED
  BY <1>3, <1>4

(* A multiplication starts only when the multiplier is free.               *)
LEMMA StartFindsFree ==
  ASSUME CoreTypeOK, HandoverInv, IdOnPath, MulDivInv,
         NEW irq, NEW v, NEW slot, Back(irq, v, slot), PathMoves(irq, slot),
         Preload("mul", irq)
  PROVE  ~mul.busy
<1>1. IdValid /\ ~Hold /\ IdWord.op = "mul"
  BY StartsWithIssue DEF MulDivInv, Preload
<1>2. ~sysBusy /\ ~ExecuteHold
  BY <1>1 DEF Hold
<1>3. IdWord = At(expect)
  BY <1>1, <1>2 DEF IdOnPath, At
<1> SUFFICES ASSUME mul.busy PROVE FALSE
  OBVIOUS
<1>4. ~(ex.valid /\ ex.op = "mul")
  BY <1>2 DEF MulDivInv, ExecuteHold
<1>5. ~(killQ /\ ~idReg.valid)
  BY <1>1 DEF MulDivInv, IdValid, IdSlot, TakeLive, TakeRecovery
<1> QED
  BY <1>1, <1>2, <1>3, <1>4, <1>5 DEF MulDivInv, Abandoned

(* Every clock edge keeps the invariant of the units.                      *)
LEMMA MulDivEdge ==
  ASSUME CoreTypeOK, HandoverInv, IdOnPath, MulDivInv, NoMulAtLateTarget,
         NEW irq \in Interrupts, NEW v \in ReadData, Edge(irq, v),
         NEW slot, Back(irq, v, slot), PathMoves(irq, slot)
  PROVE  MulDivInv'
<1>1. /\ ex' = NextEx(irq, v, slot) /\ mem' = NextMem
      /\ mul' = NextMul(irq, v) /\ div' = NextDiv(irq, v)
      /\ mul \in MulReg /\ div \in DivReg /\ ex \in ExReg
      /\ imem' = imem
      /\ idReg'.taken => idReg'.word.op \in {"jal", "branch", "jalr"}
  BY DEF Back, CoreTypeOK, PathMoves
<1>2. /\ killQ' => ~preValid'
      /\ ~idReg'.valid => idReg'.word.op = "illegal"
      /\ Flush => killQ' /\ ~idReg'.valid
      /\ MemFault \/ FarRedirect =>
           sysBusy' /\ sys'.state \in {"TRAP", "REDIRECT"}
      /\ Resolve => ~sysBusy'
      /\ sys.state = "TRAP" => sysBusy' /\ sys'.state = "REDIRECT"
      /\ sys.state = "REDIRECT" => Flush /\ ~sysBusy'
      /\ ~sysBusy /\ ~Flush /\ ~IdValid => ~sysBusy'
  BY SlotsMove DEF MulDivInv
<1>3. /\ mul.busy => ~mul.ready
      /\ ex.valid /\ ex.op = "mul" => mul.product = Product(ex.a, ex.b)
      /\ ex.valid /\ ex.op = "div" => div.quotient = Quotient(ex.a, ex.b)
      /\ mul.busy => (ex.valid /\ ex.op = "mul") \/ Abandoned
      /\ killQ => ~preValid
      /\ ~idReg.valid => idReg.word.op = "illegal"
  BY DEF MulDivInv
<1>4. (ex.valid /\ ex.op = "div" => div.quotient = Quotient(ex.a, ex.b))'
  <2> SUFFICES ASSUME ex'.valid, ex'.op = "div"
               PROVE  div'.quotient = Quotient(ex'.a, ex'.b)
    BY DEF Quotient
  <2>1. CASE Preload("div", irq)
    <3>1. /\ ex'.a = Forward(IdWord.rs1, v) /\ ex'.b = Forward(IdWord.rs2, v)
      BY <1>3, <2>1, StartsWithIssue
    <3> QED
      BY <1>1, <2>1, <3>1 DEF NextDiv
  <2>2. CASE ~Preload("div", irq)
    <3>1. ex' = ex
      BY <1>3, <2>2, StartsWithIssue
    <3>2. div'.quotient = div.quotient
      BY <1>1, <2>2 DEF NextDiv, DivReg
    <3> QED
      BY <1>3, <3>1, <3>2
  <2> QED
    BY <2>1, <2>2
<1>5. CASE Preload("mul", irq)
  <2>1. ~mul.busy
    BY <1>5, StartFindsFree
  <2>2. /\ mul'.busy /\ ~mul'.ready
        /\ mul'.product = Product(Forward(IdWord.rs1, v), Forward(IdWord.rs2, v))
    BY <1>1, <1>5, <2>1 DEF NextMul
  <2>3. /\ ex' = Decode(slot, v) /\ ex'.op = "mul" /\ IdValid
        /\ ~Flush /\ ~Block(irq)
        /\ ex'.a = Forward(IdWord.rs1, v) /\ ex'.b = Forward(IdWord.rs2, v)
    BY <1>3, <1>5, StartsWithIssue
  <2>4. ex'.valid
    BY <2>3 DEF Decode, PathMoves
  <2>5. mul'.product = Product(ex'.a, ex'.b)
    BY <2>2, <2>3
  <2> QED
    BY <1>1, <1>2, <1>4, <2>2, <2>3, <2>4, <2>5 DEF MulDivInv
<1>6. CASE ~Preload("mul", irq)
  <2>1. mul'.product = mul.product
    BY <1>1, <1>6 DEF NextMul, MulReg
  <2>2. mul'.busy =>
          /\ mul.busy /\ mul.count \in 1 .. 2 /\ mul'.count = mul.count - 1
          /\ ~mul'.ready
    <3>1. CASE mul.busy /\ mul.count # 0
      <4>1. mul' = [mul EXCEPT !.count = @ - 1]
        BY <1>1, <1>6, <3>1 DEF NextMul
      <4>2. /\ mul'.count = mul.count - 1 /\ mul'.ready = mul.ready
            /\ mul.count \in 1 .. 2
        BY <1>1, <3>1, <4>1 DEF MulReg
      <4> QED
        BY <1>3, <3>1, <4>2
    <3>2. CASE ~(mul.busy /\ mul.count # 0)
      BY <1>1, <1>6, <3>2 DEF NextMul, MulReg
    <3> QED
      BY <3>1, <3>2
  <2>3. (ex.valid /\ ex.op = "mul" => mul.product = Product(ex.a, ex.b))'
    <3> SUFFICES ASSUME ex'.valid, ex'.op = "mul"
                 PROVE  mul'.product = Product(ex'.a, ex'.b)
      BY DEF Product
    <3>1. ex' = ex
      BY <1>3, <1>6, StartsWithIssue
    <3> QED
      BY <1>3, <2>1, <3>1
  <2>4. mul'.busy => (ex'.valid /\ ex'.op = "mul") \/ Abandoned'
    <3> SUFFICES ASSUME mul'.busy
                 PROVE  (ex'.valid /\ ex'.op = "mul") \/ Abandoned'
      OBVIOUS
    <3>1. /\ mul.busy /\ mul.count \in 1 .. 2 /\ mul'.count = mul.count - 1
          /\ mul'.count \in 0 .. 1 /\ ~mul.ready
      BY <1>3, <2>2
    <3>2. SysFlush => ~ex'.valid /\ ~mem'.valid
      BY <1>1 DEF NextEx, NextMem, Flush, NoEx, NoMem
    <3>3. CASE ex.valid /\ ex.op = "mul"
      <4>1. Hold /\ ~ExFire /\ ~sysBusy /\ sys.state # "REDIRECT"
        BY <3>1, <3>3
           DEF Hold, ExecuteHold, ExFire, HandoverInv, SlowPathAlone
      <4>2. CASE ~Flush
        BY <1>1, <3>3, <4>1, <4>2 DEF NextEx
      <4>3. CASE MemFault \/ FarRedirect
        BY <1>2, <3>1, <4>3 DEF Abandoned
      <4>4. CASE Flush /\ ~MemFault /\ ~FarRedirect
        <5>1. Resolve /\ LateMispredict
          BY <4>1, <4>4 DEF Flush, SysFlush, Resolve
        <5>2. expect' = LateRedirect
          BY <5>1 DEF PathMoves, ResolveTarget
        <5>3. At(expect)'.op # "mul"
          BY <1>1, <3>1, <5>1, <5>2 DEF NoMulAtLateTarget, At
        <5>4. ~ex'.valid /\ ~mem'.valid
          BY <1>1, <4>4, <5>1 DEF NextEx, NextMem, NoEx, NoMem
        <5> QED
          BY <1>2, <3>1, <4>4, <5>1, <5>3, <5>4 DEF Abandoned
      <4> QED
        BY <4>2, <4>3, <4>4
    <3>4. CASE sysBusy /\ sys.state = "TRAP"
      BY <1>2, <3>1, <3>4 DEF Abandoned
    <3>5. CASE sysBusy /\ sys.state = "REDIRECT" /\ mul.count <= 1
      <4>1. mul'.count = 0
        BY <3>1, <3>5
      <4>2. ~ex'.valid /\ ~mem'.valid
        BY <3>2, <3>5 DEF SysFlush
      <4> QED
        BY <1>2, <3>5, <4>1, <4>2 DEF Abandoned
    <3>6. CASE /\ ~sysBusy /\ killQ /\ ~idReg.valid /\ ~ex.valid /\ ~mem.valid
               /\ mul.count <= 1 /\ At(expect).op # "mul"
      <4>1. mul'.count = 0
        BY <3>1, <3>6
      <4>2. ~IdValid
        BY <1>3, <3>6 DEF IdValid, IdSlot, TakeLive, TakeRecovery
      <4>3. ~Flush /\ ~Resolve /\ sys.state # "REDIRECT"
        BY <3>6
           DEF Flush, Resolve, SysFlush, ExFire, LateMispredict, LateResolves,
               MemFault, MemAccess, FarRedirect, HandoverInv
      <4>4. expect' = expect
        BY <4>2, <4>3 DEF PathMoves
      <4>5. ~sysBusy'
        BY <1>2, <3>6, <4>2, <4>3
      <4> QED
        BY <1>1, <3>6, <4>1, <4>4, <4>5 DEF Abandoned, At
    <3> QED
      BY <1>3, <3>1, <3>3, <3>4, <3>5, <3>6 DEF Abandoned
  <2>5. (mul.busy => ~mul.ready)'
    BY <2>2
  <2> QED
    BY <1>1, <1>2, <1>4, <2>3, <2>4, <2>5 DEF MulDivInv
<1> QED
  BY <1>5, <1>6

LEMMA MulDivStep ==
  ASSUME CoreTypeOK, HandoverInv, IdOnPath, MulDivInv, NoMulAtLateTarget,
         [CoreNext]_coreVars
  PROVE  MulDivInv'
<1>1. CASE UNCHANGED coreVars
  BY <1>1 DEF coreVars, fetchVars, backVars, MulDivInv, Abandoned, At
<1>2. ASSUME NEW irq \in Interrupts, NEW v \in ReadData, Edge(irq, v)
      PROVE  MulDivInv'
  <2>1. PICK slot : Back(irq, v, slot) /\ PathMoves(irq, slot)
    BY <1>2, EdgeFollowsPath DEF MulDivInv
  <2> QED
    BY <1>2, <2>1, MulDivEdge
<1> QED
  BY <1>1, <1>2 DEF CoreNext

(* A misprediction resolved late while a multiplication is running, with a *)
(* multiplication at the target, is the only way to a stale product: in    *)
(* every other behaviour that stays on its path, each result that EX takes *)
(* from the multiplier or the divider is that of its own operands.         *)
THEOREM MulDivAnswersOwn ==
  CoreSpec /\ []IdOnPath /\ []NoMulAtLateTarget => []MulDivFresh
<1>1. CoreInit => MulDivInv
  BY DEF CoreInit, FetchInit, MulDivInv, NoEx, Bubble, ZeroWord
<1>2. /\ CoreTypeOK /\ HandoverInv /\ IdOnPath /\ MulDivInv /\ NoMulAtLateTarget
      /\ [CoreNext]_coreVars
      => MulDivInv'
  BY MulDivStep
<1>3. MulDivInv => MulDivFresh
  BY DEF MulDivInv, MulDivFresh
<1> QED
  BY <1>1, <1>2, <1>3, CoreTypeCorrect, Handover, PTL DEF CoreSpec

(* Every clock edge keeps the meaning of the pipeline registers.           *)
LEMMA SequentialStep ==
  ASSUME CoreTypeOK, HandoverInv, IdOnPath, MulDivFresh, SequentialInv,
         [CoreNext]_coreVars
  PROVE  SequentialInv'
<1>1. CASE UNCHANGED coreVars
  <2>1. /\ imem' = imem /\ expect' = expect /\ idReg' = idReg /\ ex' = ex
        /\ mem' = mem /\ wb' = wb /\ regs' = regs /\ bus' = bus
        /\ dmem' = dmem /\ sys' = sys /\ csr' = csr
    BY <1>1 DEF coreVars, fetchVars, backVars
  <2>2. WbMeaning'
    BY <2>1 DEF SequentialInv, WbMeaning, FromRom, At, Outcome, Successor,
         BehindWb, ArchMem, MemMem, Undo
  <2>3. MemMeaning'
    BY <2>1 DEF SequentialInv, MemMeaning, FromRom, At, Outcome, Successor,
         PastWb, Produces, BehindMem, Defers
  <2>4. ExMeaning'
    BY <2>1 DEF SequentialInv, ExMeaning, FromRom, At, PastMem, PastWb,
         Produces, Loading
  <2>5. BusMeaning' /\ SysMeaning'
    BY <2>1 DEF SequentialInv, BusMeaning, SysMeaning, MemAccess,
         AccessesMemory, At
  <2> QED
    BY <2>1, <2>2, <2>3, <2>4, <2>5 DEF SequentialInv
<1>2. ASSUME NEW irq \in Interrupts, NEW v \in ReadData, Edge(irq, v)
      PROVE  SequentialInv'
  <2>1. PICK slot : Back(irq, v, slot) /\ PathMoves(irq, slot)
    BY <1>2, EdgeFollowsPath DEF SequentialInv
  <2>2. WbMeaning'
    BY <2>1, WbStep
  <2>3. MemMeaning'
    BY <2>1, MemStep
  <2>4. ExMeaning'
    BY <2>1, ExStep
  <2>5. BusMeaning'
    BY <2>1, BusStep DEF SequentialInv
  <2>6. SysMeaning'
    BY <1>2, SysStep
  <2> QED
    BY <2>1, <2>2, <2>3, <2>4, <2>5, <2>6 DEF SequentialInv, PathMoves
<1> QED
  BY <1>1, <1>2 DEF CoreNext

(* Every clock edge is a step of the machine or none.                      *)
LEMMA EdgeIsMachineStep ==
  ASSUME CoreTypeOK, HandoverInv, IdOnPath, SequentialInv, [CoreNext]_coreVars
  PROVE  [M!MachineNext]_(M!machineVars)
<1>1. CASE UNCHANGED coreVars
  BY <1>1 DEF coreVars, fetchVars, backVars, M!machineVars, ArchPc, ArchMem,
       ArchSent, Undo, SentEarly
<1>2. ASSUME NEW irq \in Interrupts, NEW v \in ReadData, Edge(irq, v)
      PROVE  [M!MachineNext]_(M!machineVars)
  <2>1. CASE wb.valid
    BY <1>2, <2>1, RetireStep DEF M!MachineNext
  <2>2. CASE ~wb.valid /\ sys.state = "EXEC"
    BY <1>2, <2>2, ExecStep DEF M!MachineNext
  <2>3. CASE ~wb.valid /\ sys.state = "TRAP"
    BY <1>2, <2>3, TrapStep DEF M!MachineNext
  <2>4. CASE ~wb.valid /\ sys.state \notin {"EXEC", "TRAP"}
    BY <1>2, <2>4, QuietStep DEF M!machineVars
  <2> QED
    BY <2>1, <2>2, <2>3, <2>4
<1> QED
  BY <1>1, <1>2 DEF CoreNext

(* Reset is the reset of the machine, and the registers mean nothing yet.  *)
LEMMA ResetIsMachineReset ==
  ASSUME CoreInit, \A image \in Programs : image[Words - 1].op # "branch"
  PROVE  SequentialInv /\ M!MachineInit
<1>1. /\ ~ex.valid /\ ~mem.valid /\ ~wb.valid /\ bus.age = 0 /\ ~bus.pending
      /\ sys.state = "IDLE" /\ ~idReg.taken /\ imem \in Programs
      /\ expect = 0 /\ sent = 0 /\ csr = ResetCsr
      /\ regs = [r \in Regs |-> 0] /\ dmem = [a \in DataAddress |-> 0]
  BY DEF CoreInit, FetchInit, NoEx, NoMem, NoWb, IdleBus, Bubble
<1>2. SequentialInv
  BY <1>1 DEF SequentialInv, WbMeaning, MemMeaning, ExMeaning, BusMeaning,
       SysMeaning, MemAccess
<1>3. ArchPc = 0
  BY <1>1 DEF ArchPc
<1>4. ArchMem = dmem
  BY <1>1 DEF ArchMem, Undo
<1>5. ArchSent = 0
  <2>1. SentEarly(wb) = 0
    BY <1>1 DEF SentEarly, Bit
  <2>2. 0 \in 0 .. SentLimit - 1
    BY SentLimitAssumption
  <2> QED
    BY <1>1, <2>1, <2>2, SentArithmetic DEF ArchSent
<1>6. M!MachineInit
  BY <1>1, <1>3, <1>4, <1>5, SameOperators DEF M!MachineInit
<1> QED
  BY <1>2, <1>6

(* The registers of the pipeline mean what they should, for every ROM      *)
(* without a branch in its last word: each stage holds the instruction of  *)
(* its address, computed from what its predecessors leave.                 *)
THEOREM CoreIsSequential ==
  ASSUME \A image \in Programs : image[Words - 1].op # "branch"
  PROVE  CoreSpec /\ []IdOnPath /\ []MulDivFresh => []SequentialInv
<1>1. CoreInit => SequentialInv
  BY ResetIsMachineReset
<1>2. /\ CoreTypeOK /\ HandoverInv /\ IdOnPath /\ MulDivFresh /\ SequentialInv
      /\ [CoreNext]_coreVars
      => SequentialInv'
  BY SequentialStep
<1> QED
  BY <1>1, <1>2, CoreTypeCorrect, Handover, PTL DEF CoreSpec

(* The pipeline implements the sequential machine: every instruction takes *)
(* effect once, in order, with precise traps, whatever is predicted,       *)
(* stalled, flushed, forwarded, interrupted or answered late.  The         *)
(* hypotheses exclude the three defects that the violating runs exhibit    *)
(* and nothing else: a data read of ROM that disturbs the front end, a     *)
(* multiplication at the target of a late misprediction, and a branch in   *)
(* the last word of IMEM.                                                  *)
THEOREM CoreImplementsMachine ==
  ASSUME \A image \in Programs : image[Words - 1].op # "branch"
  PROVE  CoreSpec /\ []IdOnPath /\ []NoMulAtLateTarget => ImplementsMachine
<1>1. CoreInit => M!MachineInit
  BY ResetIsMachineReset
<1>2. /\ CoreTypeOK /\ HandoverInv /\ IdOnPath /\ SequentialInv
      /\ [CoreNext]_coreVars
      => [M!MachineNext]_(M!machineVars)
  BY EdgeIsMachineStep
<1>3. CoreSpec /\ []IdOnPath /\ []MulDivFresh => []SequentialInv
  BY CoreIsSequential
<1>4. CoreSpec /\ []IdOnPath /\ []NoMulAtLateTarget =>
        M!MachineInit /\ [][M!MachineNext]_(M!machineVars)
  BY <1>1, <1>2, <1>3, MulDivAnswersOwn, CoreTypeCorrect, Handover, PTL
     DEF CoreSpec
<1> QED
  BY <1>4 DEF ImplementsMachine, M!MachineSpec

(* In particular for programs that never load from ROM.                    *)
THEOREM CoreWithoutRomReads ==
  ASSUME ImemDataReads = FALSE,
         \A image \in Programs : image[Words - 1].op # "branch"
  PROVE  CoreSpec /\ [][~ImemBusRead]_coreVars /\ []NoMulAtLateTarget
           => ImplementsMachine
BY CoreOnPath, CoreImplementsMachine, PTL
=============================================================================
