-------------------------- MODULE PrivilegedProofs --------------------------
(***************************************************************************)
(* Proofs about Privileged, for every program, jump, prediction, fault and *)
(* interrupt pattern: types and legal registers, no misaligned address in  *)
(* the slow path, and the registers are those of one instruction after the *)
(* other.  PrivInv is the inductive invariant.                             *)
(***************************************************************************)
EXTENDS Privileged, TLAPS

(***************************************************************************)
(* Words.                                                                  *)
(***************************************************************************)
LEMMA BitFacts ==
  /\ Bits \subseteq 0 .. 31 /\ 0 \in Bits /\ 1 \in Bits /\ 2 \in Bits /\ 3 \in Bits
  /\ 7 \in Bits /\ 11 \in Bits /\ 31 \in Bits
  /\ HighBits \subseteq Bits \ {0, 1} /\ CounterBits \subseteq Bits
BY BitsAssumption

LEMMA IncType ==
  ASSUME NEW S, NEW w \in SUBSET S, NEW d \in SUBSET S
  PROVE  Inc(w, d) \in SUBSET S
BY DEF Inc

LEMMA AddressIsWord == Address \subseteq Word
BY DEF Address, Word

LEMMA Plus4Type == \A a \in Address : Plus4(a) \in Address
BY IncType DEF Plus4, Address

LEMMA AlignType == \A w \in Word : Align(w) \in Address
BY DEF Align, Address, Word

LEMMA Aligned == \A a \in Address : Align(a) = a
BY DEF Align, Address

LEMMA LowInImem ==
  ASSUME NEW a \in Address
  PROVE  Low(a) \in Address /\ InImem(Low(a)) /\ (InImem(a) => Low(a) = a)
BY DEF Low, InImem, Address

(* Adding to a word of address bits carries into address bits only.        *)
LEMMA AddType ==
  ASSUME NEW v \in Address, NEW w \in Address
  PROVE  Add(v, w) \in Address
<1>1. \A b \in {0, 1} : b \notin v /\ b \notin w
  BY DEF Address
<1>2. \A b \in {0, 1} : b \notin Carry(v, w)
  <2> SUFFICES ASSUME NEW b \in {0, 1}, b \in Carry(v, w) PROVE FALSE
    OBVIOUS
  <2>1. PICK g \in v \cap w : g < b
    BY DEF Carry
  <2>2. g \in Bits /\ g # 0 /\ g # 1
    BY DEF Address
  <2> QED
    BY <2>1, <2>2, BitFacts
<1> QED
  BY <1>1, <1>2 DEF Add, Address

LEMMA VectorType ==
  ASSUME NEW t \in Word, NEW cause \in Word
  PROVE  Vector(t, cause) \in Address
<1>1. Times4(cause) \in Address
  BY DEF Times4, Digits, Address
<1> QED
  BY <1>1, AlignType, AddType DEF Vector

LEMMA CauseTypes ==
  /\ Misaligned \in Word /\ FetchFault \in Word /\ Illegal \in Word
  /\ Breakpoint \in Word /\ EnvCall \in Word /\ AccessCauses \subseteq Word
  /\ \A p : InterruptCause(p) \in Word
BY BitFacts DEF Misaligned, FetchFault, Illegal, Breakpoint, EnvCall, AccessCauses,
   InterruptCause, Word

(***************************************************************************)
(* Registers.                                                              *)
(***************************************************************************)
CsrOK(c) ==
  /\ c \in [Stored -> Word]
  /\ c["mstatus"] \subseteq {3, 7} /\ c["mie"] \subseteq Sources
  /\ 1 \notin c["mtvec"] /\ c["mcountinhibit"] \subseteq {0, 2}
  /\ c["mepc"] \in Address /\ \A n \in Halves : c[n] \subseteq CounterBits

LEMMA TwoUpdates ==
  ASSUME NEW c, NEW a, NEW x, NEW b, NEW y, a # b
  PROVE  [c EXCEPT ![a] = x, ![b] = y] =
           [n \in DOMAIN c |-> IF n = a THEN x ELSE IF n = b THEN y ELSE c[n]]
OBVIOUS

LEMMA Bumped ==
  ASSUME NEW c, NEW lo, NEW hi, lo # hi
  PROVE  Bump(c, lo, hi) =
           [n \in DOMAIN c |->
              IF n = lo THEN Inc(c[lo], CounterBits)
              ELSE IF n = hi
              THEN IF c[lo] = CounterBits THEN Inc(c[hi], CounterBits) ELSE c[hi]
              ELSE c[n]]
BY TwoUpdates DEF Bump

LEMMA BumpOK ==
  ASSUME NEW c, CsrOK(c), NEW lo \in Halves, NEW hi \in Halves, lo # hi
  PROVE  /\ CsrOK(Bump(c, lo, hi))
         /\ \A n \in Stored \ {lo, hi} : Bump(c, lo, hi)[n] = c[n]
<1>1. DOMAIN c = Stored /\ Halves \subseteq Stored
  BY DEF CsrOK, Halves, Stored, Control
<1>2. \A n \in Halves : Inc(c[n], CounterBits) \subseteq CounterBits
                        /\ Inc(c[n], CounterBits) \in Word
  <2> SUFFICES ASSUME NEW n \in Halves
               PROVE  Inc(c[n], CounterBits) \in SUBSET CounterBits
    BY BitFacts DEF Word
  <2> QED
    BY IncType DEF CsrOK
<1> DEFINE d == [n \in Stored |->
                   IF n = lo THEN Inc(c[lo], CounterBits)
                   ELSE IF n = hi
                   THEN IF c[lo] = CounterBits THEN Inc(c[hi], CounterBits) ELSE c[hi]
                   ELSE c[n]]
<1>3. Bump(c, lo, hi) = d
  BY <1>1, Bumped
<1>4. d \in [Stored -> Word]
  BY <1>2 DEF CsrOK
<1>5. \A n \in Stored \ Halves : d[n] = c[n]
  OBVIOUS
<1>6. \A n \in Halves : d[n] \subseteq CounterBits
  BY <1>1, <1>2 DEF CsrOK
<1>7. {"mstatus", "mie", "mtvec", "mcountinhibit", "mepc"} \subseteq Stored \ Halves
  BY DEF Stored, Control, Halves
<1>8. \A n \in Stored \ {lo, hi} : d[n] = c[n]
  OBVIOUS
<1> HIDE DEF d
<1>9. CsrOK(d)
  BY <1>4, <1>5, <1>6, <1>7 DEF CsrOK
<1> QED
  BY <1>3, <1>8, <1>9

Agree(c, d, S) == \A n \in S : c[n] = d[n]

LEMMA CountOK ==
  ASSUME NEW c, CsrOK(c)
  PROVE  /\ CsrOK(Ticked(c)) /\ Agree(Ticked(c), c, Control)
         /\ CsrOK(Retired(c)) /\ Agree(Retired(c), c, Stored \ {"minstret", "minstreth"})
<1>1. /\ {"mcycle", "mcycleh", "minstret", "minstreth"} \subseteq Halves
      /\ Control \subseteq Stored \ {"mcycle", "mcycleh"}
  BY DEF Halves, Stored, Control
<1>2. CsrOK(Ticked(c)) /\ Agree(Ticked(c), c, Control)
  BY <1>1, BumpOK DEF Ticked, Agree
<1>3. CsrOK(Retired(c)) /\ Agree(Retired(c), c, Stored \ {"minstret", "minstreth"})
  BY <1>1, BumpOK DEF Retired, Agree
<1> QED
  BY <1>2, <1>3

Interrupting == {"mstatus", "mie", "mtvec", "mepc", "mcountinhibit"}

LEMMA CountedOK ==
  ASSUME CsrOK(csr)
  PROVE  CsrOK(Counted) /\ Agree(Counted, csr, Interrupting)
<1>1. Interrupting \subseteq Control /\ Interrupting \subseteq Stored \ {"minstret", "minstreth"}
  BY DEF Interrupting, Control, Stored
<1>2. CsrOK(Ticked(csr)) /\ Agree(Ticked(csr), csr, Interrupting)
  BY <1>1, CountOK DEF Agree
<1>3. CsrOK(Retired(Ticked(csr))) /\ Agree(Retired(Ticked(csr)), Ticked(csr), Interrupting)
  BY <1>1, <1>2, CountOK DEF Agree
<1> QED
  BY <1>2, <1>3 DEF Counted, Agree

LEMMA AfterTrapOK ==
  ASSUME NEW c, CsrOK(c), NEW pc \in Word, NEW cause \in Word, NEW tval \in Word
  PROVE  CsrOK(AfterTrap(c, pc, cause, tval))
<1> DEFINE d == [n \in Stored |->
                   IF n = "mstatus" THEN IF MIE(c) THEN {7} ELSE {}
                   ELSE IF n = "mepc" THEN Align(pc)
                   ELSE IF n = "mcause" THEN cause
                   ELSE IF n = "mtval" THEN tval ELSE c[n]]
<1>1. DOMAIN c = Stored
  BY DEF CsrOK
<1>2. AfterTrap(c, pc, cause, tval) = d
  BY <1>1 DEF AfterTrap
<1>3. Align(pc) \in Word /\ Align(pc) \in Address
  BY AlignType, AddressIsWord
<1>4. {7} \in Word /\ {} \in Word
  BY BitFacts DEF Word
<1>5. d \in [Stored -> Word]
  BY <1>3, <1>4 DEF CsrOK
<1>6. /\ d["mstatus"] \subseteq {3, 7} /\ d["mepc"] = Align(pc)
      /\ d["mie"] = c["mie"] /\ d["mtvec"] = c["mtvec"]
      /\ d["mcountinhibit"] = c["mcountinhibit"] /\ \A n \in Halves : d[n] = c[n]
  BY DEF Stored, Control, Halves
<1> HIDE DEF d
<1> QED
  BY <1>2, <1>3, <1>5, <1>6 DEF CsrOK

LEMMA AfterMretOK == ASSUME NEW c, CsrOK(c) PROVE CsrOK(AfterMret(c))
<1> DEFINE m == IF 7 \in c["mstatus"] THEN {3, 7} ELSE {7}
           d == [c EXCEPT !["mstatus"] = m]
<1>1. m \in Word /\ m \subseteq {3, 7}
  BY BitFacts DEF Word
<1>2. "mstatus" \in Stored /\ \A n \in Stored \ {"mstatus"} : d[n] = c[n]
  BY DEF CsrOK, Stored, Control
<1>3. d["mstatus"] = m /\ d \in [Stored -> Word]
  BY <1>1, <1>2 DEF CsrOK
<1>4. /\ d["mie"] = c["mie"] /\ d["mtvec"] = c["mtvec"] /\ d["mepc"] = c["mepc"]
      /\ d["mcountinhibit"] = c["mcountinhibit"] /\ \A n \in Halves : d[n] = c[n]
  BY <1>2 DEF Stored, Control, Halves
<1> HIDE DEF m, d
<1>5. CsrOK(d)
  BY <1>1, <1>3, <1>4 DEF CsrOK
<1> QED
  BY <1>5 DEF AfterMret, m, d

LEMMA KeptOK ==
  ASSUME NEW v \in Word, NEW n \in Stored
  PROVE  /\ Kept(n, v) \in Word
         /\ n = "mstatus" => Kept(n, v) \subseteq {3, 7}
         /\ n = "mie" => Kept(n, v) \subseteq Sources
         /\ n = "mtvec" => 1 \notin Kept(n, v)
         /\ n = "mcountinhibit" => Kept(n, v) \subseteq {0, 2}
         /\ n = "mepc" => Kept(n, v) \in Address
         /\ n \in Halves => Kept(n, v) \subseteq CounterBits
<1>1. CASE n = "mstatus"
  BY <1>1 DEF Kept, Word, Halves, MSI, MTI
<1>2. CASE n = "mie"
  BY <1>2 DEF Kept, Word, Halves
<1>3. CASE n = "mtvec"
  BY <1>3, BitFacts DEF Kept, Word, Halves, Align
<1>4. CASE n = "mcountinhibit"
  BY <1>4 DEF Kept, Word, Halves
<1>5. CASE n = "mepc"
  BY <1>5, AlignType, AddressIsWord DEF Kept, Halves
<1>6. CASE n \in Halves
  BY <1>6 DEF Kept, Word, Halves
<1>7. CASE n \notin {"mstatus", "mie", "mtvec", "mcountinhibit", "mepc"} \cup Halves
  BY <1>7 DEF Kept
<1> QED
  BY <1>1, <1>2, <1>3, <1>4, <1>5, <1>6, <1>7

LEMMA WrittenOK ==
  ASSUME NEW old, CsrOK(old), NEW c, CsrOK(c), NEW n \in Stored, NEW v \in Word
  PROVE  CsrOK(Written(old, c, n, v))
<1>1. DOMAIN c = Stored /\ Halves \subseteq Stored
  BY DEF CsrOK, Halves, Stored, Control
<1> DEFINE k == Kept(n, v)
<1>2. /\ k \in Word
      /\ n = "mstatus" => k \subseteq {3, 7}
      /\ n = "mie" => k \subseteq Sources
      /\ n = "mtvec" => 1 \notin k
      /\ n = "mcountinhibit" => k \subseteq {0, 2}
      /\ n = "mepc" => k \in Address
      /\ n \in Halves => k \subseteq CounterBits
  BY KeptOK
<1> HIDE DEF k
<1>3. CASE n \in Halves
  <2>1. Sibling[n] \in Halves /\ Sibling[n] # n
    BY <1>3 DEF Sibling, Halves
  <2> DEFINE s == Sibling[n]
             d == [m \in Stored |-> IF m = n THEN k ELSE IF m = s THEN old[s] ELSE c[m]]
  <2>2. Written(old, c, n, v) = d
    BY <1>1, <1>3, <2>1, TwoUpdates DEF Written, k
  <2> HIDE DEF s
  <2>3. s \in Halves /\ old[s] \in Word /\ old[s] \subseteq CounterBits
    BY <1>1, <2>1 DEF CsrOK, s
  <2>4. d \in [Stored -> Word]
    BY <1>2, <2>3 DEF CsrOK
  <2>5. \A m \in Halves : d[m] \subseteq CounterBits
    BY <1>1, <1>2, <1>3, <2>3 DEF CsrOK
  <2>6. /\ d["mstatus"] = c["mstatus"] /\ d["mie"] = c["mie"] /\ d["mtvec"] = c["mtvec"]
        /\ d["mcountinhibit"] = c["mcountinhibit"] /\ d["mepc"] = c["mepc"]
    BY <1>3, <2>3 DEF Stored, Control, Halves
  <2> HIDE DEF d
  <2> QED
    BY <2>2, <2>4, <2>5, <2>6 DEF CsrOK
<1>4. CASE n \notin Halves
  <2> DEFINE d == [m \in Stored |-> IF m = n THEN k ELSE c[m]]
  <2>1. Written(old, c, n, v) = d
    BY <1>1, <1>4 DEF Written, k
  <2>2. d \in [Stored -> Word] /\ \A m \in Stored \ {n} : d[m] = c[m]
    BY <1>2 DEF CsrOK
  <2>3. d[n] = k
    OBVIOUS
  <2>4. \A m \in Halves : d[m] \subseteq CounterBits
    BY <1>1, <1>4, <2>2 DEF CsrOK
  <2>5. {"mstatus", "mie", "mtvec", "mcountinhibit", "mepc"} \subseteq Stored
    BY DEF Stored, Control
  <2> HIDE DEF d
  <2> QED
    BY <1>2, <2>1, <2>2, <2>3, <2>4, <2>5 DEF CsrOK
<1> QED
  BY <1>3, <1>4

(***************************************************************************)
(* The inductive invariant.                                                *)
(***************************************************************************)
Types ==
  /\ prog \in Programs /\ idValid \in BOOLEAN /\ idPc \in Word
  /\ ex \in Slot /\ mem \in Slot /\ wb \in Slot
  /\ state \in {"IDLE", "EXEC", "TRAP", "REDIRECT", "SLEEP"}
  /\ pc_q \in Address /\ src_q \in Word /\ cause_q \in Word /\ tval_q \in Word
  /\ redirect_pc \in Address
  /\ CsrOK(csr)
  /\ rd \in Word /\ irq \in Irqs[prog] /\ seen \in Irqs[prog] \cup {{}}

(* What is in the pipeline is an instruction of IMEM; only jumps go        *)
(* elsewhere or are mispredicted.                                          *)
FromImem(s) ==
  s.valid => /\ InImem(s.pc) /\ prog[s.pc].op = s.op
             /\ s.target \subseteq Bits \ {0}
             /\ s.op # "jump" => ~s.taken /\ ~s.wrong

(* A misaligned address is in ID only in the shadow of a jump that will    *)
(* not get there.                                                          *)
Bad(s) == s.taken /\ 1 \in s.target
Shadowed ==
  \/ mem.valid /\ (Bad(mem) \/ (mem.late /\ mem.wrong))
  \/ ex.valid /\ (Bad(ex) \/ ex.wrong)

Pipe ==
  /\ FromImem(ex) /\ FromImem(mem) /\ FromImem(wb)
  /\ state = "IDLE" /\ idPc \notin Address => Shadowed
  /\ state # "IDLE" => ~ex.valid /\ ~mem.valid
  /\ wb.valid => state \in {"IDLE", "REDIRECT"}

(* Each trap has its reason in the registers or in the word it reports.    *)
ReasonOfWord(in) ==
  \/ in.op = "access" /\ cause_q \in AccessCauses
  \/ in.op = "jump" /\ cause_q = Misaligned /\ tval_q \notin Address
  \/ in.op \in SerialOps /\ Raises(in.op) /\ cause_q = Cause(in.op)
       /\ tval_q = Value(in, pc_q)
  \/ in.op \in CsrOps /\ Refused(in) /\ cause_q = Illegal /\ tval_q = in.word

Reason ==
  \/ InterruptPending(csr, seen) /\ cause_q = InterruptCause(Enabled(csr, seen))
       /\ tval_q = {}
  \/ InImem(pc_q) /\ ReasonOfWord(prog[pc_q])
  \/ ~InImem(pc_q) /\ cause_q = FetchFault /\ tval_q = pc_q

Serial ==
  /\ state = "EXEC" =>
       /\ InImem(pc_q) /\ prog[pc_q].op \in SerialOps /\ ~Raises(prog[pc_q].op)
       /\ prog[pc_q].op \in CsrOps => src_q \in prog[pc_q].operands
  /\ state = "TRAP" => Reason

PrivInv == Types /\ Pipe /\ Serial

LEMMA Fetched ==
  ASSUME Types, NEW a \in Address, InImem(a)
  PROVE  prog[a] \in Instruction
BY PrivilegedAssumption DEF Types

LEMMA NoneType == None \in Slot /\ ~None.valid /\ FromImem(None)
BY DEF None, Slot, Address, Word, PipelineOps, FromImem

(* Every edge counts, and nothing that counts concerns interrupts.         *)
LEMMA CountingEdge ==
  ASSUME Types, csr' = Counted, Lines, prog' = prog
  PROVE  /\ CsrOK(csr') /\ irq' \in Irqs[prog']
         /\ \A p : InterruptPending(csr', p) = InterruptPending(csr, p)
                   /\ Enabled(csr', p) = Enabled(csr, p)
<1>1. CsrOK(csr') /\ csr'["mstatus"] = csr["mstatus"] /\ csr'["mie"] = csr["mie"]
  BY CountedOK DEF Types, Agree, Interrupting
<1> QED
  BY <1>1 DEF Lines, InterruptPending, Enabled, MIE

(* What ID sees at an aligned address in IMEM.                             *)
LEMMA IdSees ==
  ASSUME Types
  PROVE  /\ idPc \in Address <=> ~fetch_misaligned
         /\ idPc \in Address /\ ~fetch_fault => IdWord = prog[idPc] /\ IdWord \in Instruction
<1>1. idPc \in Address <=> ~fetch_misaligned
  BY DEF Types, fetch_misaligned, Address, Word
<1>2. ASSUME idPc \in Address, ~fetch_fault
      PROVE  IdWord = prog[idPc] /\ IdWord \in Instruction
  <2>1. Low(Align(idPc)) = idPc
    BY <1>2, Aligned, LowInImem DEF fetch_fault
  <2> QED
    BY <1>2, <2>1, Fetched DEF IdWord, fetch_fault
<1> QED
  BY <1>1, <1>2

(***************************************************************************)
(* Edges with the slow path idle.                                          *)
(***************************************************************************)
LEMMA PipelineTypes ==
  ASSUME PrivInv, Pipeline, state = "IDLE",
         idValid' \in BOOLEAN, idPc' \in Word, ex' \in Slot, mem' \in Slot, wb' \in Slot
  PROVE  Types' /\ Serial' /\ state' = "IDLE" /\ prog' = prog
<1>1. csr' = Counted /\ Lines /\ prog' = prog /\ state' = state /\ pc_q' = pc_q
      /\ src_q' = src_q /\ cause_q' = cause_q /\ tval_q' = tval_q
      /\ redirect_pc' = redirect_pc /\ rd' = rd /\ seen' = seen
  BY DEF Pipeline, latched
<1>2. CsrOK(csr') /\ irq' \in Irqs[prog']
  BY <1>1, CountingEdge DEF PrivInv
<1>3. Types'
  BY <1>1, <1>2 DEF Types, PrivInv
<1>4. Serial'
  BY <1>1 DEF Serial
<1> QED
  BY <1>1, <1>3, <1>4

(* The instruction that leaves ID.                                         *)
LEMMA Issued ==
  ASSUME PrivInv, idValid, ~id_stop, NEW p \in Predicted(IdWord.op),
         NEW s \in Decoded(IdWord.op, p)
  PROVE  /\ p \in Word /\ s \in Slot /\ FromImem(s) /\ s.valid /\ s.pc = idPc
         /\ p \notin Address => Bad(s) \/ s.wrong
<1> DEFINE op == IdWord.op
<1>1. ~fetch_fault /\ ~fetch_misaligned /\ op \notin SerialOps
  BY DEF id_stop, serial
<1>2. idPc \in Address /\ InImem(idPc) /\ prog[idPc] = IdWord /\ IdWord \in Instruction
  BY <1>1, IdSees DEF PrivInv, fetch_fault
<1>3. op \in PipelineOps /\ prog[idPc].op = op
  BY <1>1, <1>2 DEF Instruction
<1>4. Plus4(idPc) \in Address
  BY <1>2, Plus4Type
<1>5. \A t \in Targets : t \in Word /\ t \subseteq Bits \ {0} /\ Low(t) \in Word
                         /\ (1 \notin t => Low(t) \in Address)
  <2>1. Targets \subseteq SUBSET (Bits \ {0})
    BY PrivilegedAssumption
  <2> QED
    BY <2>1 DEF Word, Low, Address
<1>6. CASE op # "jump"
  <2>1. s = [valid |-> TRUE, pc |-> idPc, op |-> op, taken |-> FALSE, target |-> {},
             late |-> FALSE, wrong |-> FALSE]
    BY <1>6 DEF Decoded
  <2>2. p = Plus4(idPc)
    BY <1>6 DEF Predicted
  <2>3. s \in Slot
    BY <1>2, <1>3, <2>1 DEF Slot, Word
  <2> QED
    BY <1>2, <1>3, <1>4, <2>1, <2>2, <2>3, AddressIsWord DEF FromImem
<1>7. CASE op = "jump"
  <2>1. PICK taken \in BOOLEAN, target \in Targets, late \in BOOLEAN :
          s = [valid |-> TRUE, pc |-> idPc, op |-> op, taken |-> taken, target |-> target,
               late |-> late,
               wrong |-> p # IF taken THEN Low(target) ELSE Plus4(idPc)]
    BY <1>7 DEF Decoded
  <2>2. p \in Word
    BY <1>4, <1>5, <1>7, AddressIsWord DEF Predicted
  <2>3. s \in Slot
    BY <1>2, <1>3, <1>5, <2>1 DEF Slot
  <2>4. FromImem(s)
    BY <1>2, <1>3, <1>5, <1>7, <2>1 DEF FromImem
  <2>5. ASSUME p \notin Address PROVE Bad(s) \/ s.wrong
    BY <1>4, <1>5, <2>1, <2>5 DEF Bad
  <2> QED
    BY <2>1, <2>2, <2>3, <2>4, <2>5
<1> QED
  BY <1>6, <1>7

LEMMA AdvanceStep ==
  ASSUME PrivInv, NEW next \in BOOLEAN, Advance(next)
  PROVE  PrivInv'
<1>1. /\ state = "IDLE" /\ ~mem_target_bad /\ ~mem_ctrl_mispredict /\ ~ex_mispredict
      /\ wb' = mem /\ mem' = ex /\ Pipeline
  BY DEF Advance, Idle
<1>2. mem.valid => ~Bad(mem) /\ ~(mem.late /\ mem.wrong)
  BY <1>1 DEF mem_target_bad, mem_ctrl_mispredict, Bad
<1>3. ex.valid => ~ex.wrong \/ ex.late
  BY <1>1 DEF ex_mispredict, PrivInv, Types, Slot
<1>4. CASE idValid /\ ~id_stop
  <2>1. PICK p \in Predicted(IdWord.op) :
          idPc' = p /\ ex' \in Decoded(IdWord.op, p) /\ idValid' = next
    BY <1>4 DEF Advance
  <2>2. /\ p \in Word /\ ex' \in Slot /\ FromImem(ex') /\ ex'.valid
        /\ p \notin Address => Bad(ex') \/ ex'.wrong
    BY <1>4, <2>1, Issued
  <2>3. Types' /\ Serial' /\ state' = "IDLE" /\ prog' = prog
    BY <1>1, <2>1, <2>2, PipelineTypes DEF PrivInv, Types
  <2>4. FromImem(ex)' /\ FromImem(mem)' /\ FromImem(wb)'
    BY <1>1, <2>2, <2>3 DEF FromImem, PrivInv, Pipe
  <2>5. idPc' \notin Address => Shadowed'
    BY <2>1, <2>2 DEF Shadowed, Bad
  <2> QED
    BY <2>3, <2>4, <2>5 DEF PrivInv, Pipe
<1>5. CASE ~(idValid /\ ~id_stop)
  <2>1. ex' = None /\ idPc' = idPc /\ idValid' \in BOOLEAN
    BY <1>5 DEF Advance
  <2>2. Types' /\ Serial' /\ state' = "IDLE" /\ prog' = prog
    BY <1>1, <2>1, NoneType, PipelineTypes DEF PrivInv, Types
  <2>3. FromImem(ex)' /\ FromImem(mem)' /\ FromImem(wb)'
    BY <1>1, <2>1, <2>2, NoneType DEF FromImem, PrivInv, Pipe
  <2>4. ASSUME idPc' \notin Address PROVE Shadowed'
    <3>1. ex.valid /\ (Bad(ex) \/ (ex.late /\ ex.wrong))
      BY <1>1, <1>2, <1>3, <2>1, <2>4 DEF PrivInv, Pipe, Shadowed
    <3> QED
      BY <1>1, <3>1 DEF Shadowed, Bad
  <2> QED
    BY <2>2, <2>3, <2>4 DEF PrivInv, Pipe
<1> QED
  BY <1>4, <1>5

LEMMA WaitStep == ASSUME PrivInv, Wait PROVE PrivInv'
<1>1. /\ state = "IDLE" /\ wb' = None /\ Pipeline /\ idValid' = idValid
      /\ idPc' = idPc /\ ex' = ex /\ mem' = mem
  BY DEF Wait
<1>2. Types' /\ Serial' /\ state' = "IDLE" /\ prog' = prog
  BY <1>1, NoneType, PipelineTypes DEF PrivInv, Types
<1>3. FromImem(ex)' /\ FromImem(mem)' /\ FromImem(wb)'
  BY <1>1, <1>2, NoneType DEF FromImem, PrivInv, Pipe
<1>4. idPc' \notin Address => Shadowed'
  BY <1>1 DEF PrivInv, Pipe, Shadowed, Bad
<1> QED
  BY <1>2, <1>3, <1>4 DEF PrivInv, Pipe

LEMMA ExecuteHoldStep == ASSUME PrivInv, ExecuteHold PROVE PrivInv'
<1>1. /\ state = "IDLE" /\ wb' = mem /\ mem' = None /\ Pipeline /\ idValid' = idValid
      /\ idPc' = idPc /\ ex' = ex /\ ~mem_target_bad /\ ~mem_ctrl_mispredict
      /\ ex.valid /\ ex.op = "alu"
  BY DEF ExecuteHold, Idle
<1>2. Types' /\ Serial' /\ state' = "IDLE" /\ prog' = prog
  BY <1>1, NoneType, PipelineTypes DEF PrivInv, Types
<1>3. FromImem(ex)' /\ FromImem(mem)' /\ FromImem(wb)'
  BY <1>1, <1>2, NoneType DEF FromImem, PrivInv, Pipe
<1>4. idPc' \notin Address => Shadowed'
  <2>1. ~Shadowed
    BY <1>1 DEF Shadowed, Bad, mem_target_bad, mem_ctrl_mispredict, PrivInv, Pipe, FromImem
  <2> QED
    BY <1>1, <2>1 DEF PrivInv, Pipe
<1> QED
  BY <1>2, <1>3, <1>4 DEF PrivInv, Pipe

(* Where the front end goes on behind a mispredicted jump.                 *)
LEMMA NextType ==
  ASSUME NEW s \in Slot, s.valid, FromImem(s)
  PROVE  Next(s) \in Word /\ (Next(s) \notin Address => Bad(s))
<1>1. Plus4(s.pc) \in Address /\ Low(Plus4(s.pc)) \in Address
  BY Plus4Type, LowInImem DEF Slot
<1>2. s.target \subseteq Bits \ {0} => Low(s.target) \in Word
                                       /\ (1 \notin s.target => Low(s.target) \in Address)
  BY DEF Low, Word, Address
<1> QED
  BY <1>1, <1>2, AddressIsWord DEF Next, Bad, FromImem

LEMMA ResolveStep == ASSUME PrivInv, Resolve PROVE PrivInv'
<1>1. /\ state = "IDLE" /\ wb' = mem /\ mem' = ex /\ ex' = None /\ Pipeline
      /\ idValid' = FALSE /\ idPc' = Next(ex) /\ ex.valid
  BY DEF Resolve, Idle, Flush, ex_mispredict
<1>2. Next(ex) \in Word /\ (Next(ex) \notin Address => Bad(ex))
  BY <1>1, NextType DEF PrivInv, Types, Pipe
<1>3. Types' /\ Serial' /\ state' = "IDLE" /\ prog' = prog
  BY <1>1, <1>2, NoneType, PipelineTypes DEF PrivInv, Types
<1>4. FromImem(ex)' /\ FromImem(mem)' /\ FromImem(wb)'
  BY <1>1, <1>3, NoneType DEF FromImem, PrivInv, Pipe
<1>5. idPc' \notin Address => Shadowed'
  BY <1>1, <1>2 DEF Shadowed, Bad
<1> QED
  BY <1>3, <1>4, <1>5 DEF PrivInv, Pipe

LEMMA ResolveLateStep == ASSUME PrivInv, ResolveLate PROVE PrivInv'
<1>1. /\ state = "IDLE" /\ wb' = mem /\ mem' = None /\ ex' = None /\ Pipeline
      /\ idValid' = FALSE /\ idPc' = Next(mem) /\ mem.valid /\ ~Bad(mem)
  BY DEF ResolveLate, Idle, Flush, Squash, mem_ctrl_mispredict, mem_target_bad, Bad
<1>2. Next(mem) \in Word /\ Next(mem) \in Address
  BY <1>1, NextType DEF PrivInv, Types, Pipe
<1>3. Types' /\ Serial' /\ state' = "IDLE" /\ prog' = prog
  BY <1>1, <1>2, NoneType, PipelineTypes DEF PrivInv, Types
<1>4. FromImem(ex)' /\ FromImem(mem)' /\ FromImem(wb)'
  BY <1>1, <1>3, NoneType DEF FromImem, PrivInv, Pipe
<1> QED
  BY <1>1, <1>2, <1>3, <1>4 DEF PrivInv, Pipe

(* What MEM reports, with the reason for the trap.                         *)
LEMMA ExceptionStep ==
  ASSUME PrivInv, state = "IDLE", mem.valid, NEW cause \in Word, NEW tval \in Word,
         Exception(cause, tval),
         \/ mem.op = "access" /\ cause \in AccessCauses
         \/ mem.op = "jump" /\ cause = Misaligned /\ tval \notin Address
  PROVE  PrivInv'
<1>1. /\ pc_q' = mem.pc /\ cause_q' = cause /\ tval_q' = tval /\ state' = "TRAP"
      /\ wb' = None /\ ex' = None /\ mem' = None /\ idValid' = FALSE /\ idPc' = idPc
      /\ csr' = Counted /\ Lines /\ prog' = prog /\ src_q' = src_q
      /\ redirect_pc' = redirect_pc /\ rd' = rd /\ seen' = seen
  BY DEF Exception, Squash, Flush
<1>2. CsrOK(csr') /\ irq' \in Irqs[prog']
  BY <1>1, CountingEdge DEF PrivInv
<1>3. mem.pc \in Address /\ InImem(mem.pc) /\ prog[mem.pc].op = mem.op
  BY DEF PrivInv, Types, Pipe, FromImem, Slot
<1>4. Types'
  BY <1>1, <1>2, <1>3, NoneType DEF Types, PrivInv
<1>5. Pipe'
  BY <1>1, NoneType DEF Pipe, FromImem
<1>6. ReasonOfWord(prog[pc_q])'
  BY <1>1, <1>3 DEF ReasonOfWord
<1>7. Serial'
  BY <1>1, <1>3, <1>6 DEF Serial, Reason
<1> QED
  BY <1>4, <1>5, <1>7 DEF PrivInv

LEMMA DataFaultStep == ASSUME PrivInv, DataFault PROVE PrivInv'
<1>1. PICK f \in Faults : Exception(f[1], f[2])
  BY DEF DataFault
<1>2. f[1] \in AccessCauses /\ f[2] \in Word
  BY PrivilegedAssumption
<1>3. f[1] \in Word /\ state = "IDLE" /\ mem.valid /\ mem.op = "access"
  BY <1>2, CauseTypes DEF DataFault
<1> QED
  BY <1>1, <1>2, <1>3, ExceptionStep

LEMMA BadTargetStep == ASSUME PrivInv, BadTarget PROVE PrivInv'
<1>1. state = "IDLE" /\ mem_target_bad /\ Exception(Misaligned, mem.target)
  BY DEF BadTarget
<1>2. mem.valid /\ mem.taken /\ 1 \in mem.target /\ mem.target \in Word
  BY <1>1 DEF mem_target_bad, PrivInv, Types, Slot
<1>3. mem.op = "jump" /\ mem.target \notin Address
  BY <1>2 DEF PrivInv, Pipe, FromImem, Address
<1> QED
  BY <1>1, <1>2, <1>3, CauseTypes, ExceptionStep

LEMMA FarRedirectStep == ASSUME PrivInv, FarRedirect PROVE PrivInv'
<1>1. /\ redirect_pc' = mem.target /\ state' = "REDIRECT" /\ wb' = mem
      /\ ex' = None /\ mem' = None /\ idValid' = FALSE /\ idPc' = idPc
      /\ csr' = Counted /\ Lines /\ prog' = prog /\ pc_q' = pc_q /\ src_q' = src_q
      /\ cause_q' = cause_q /\ tval_q' = tval_q /\ rd' = rd /\ seen' = seen
      /\ state = "IDLE" /\ mem_far_redirect
  BY DEF FarRedirect, Squash, Flush, latched
<1>2. CsrOK(csr') /\ irq' \in Irqs[prog']
  BY <1>1, CountingEdge DEF PrivInv
<1>3. mem.target \in Address
  <2>1. mem.target \subseteq Bits \ {0} /\ 1 \notin mem.target
    BY <1>1 DEF mem_far_redirect, mem_target_bad, PrivInv, Pipe, FromImem
  <2> QED
    BY <2>1 DEF Address
<1>4. Types'
  BY <1>1, <1>2, <1>3, NoneType DEF Types, PrivInv
<1>5. Pipe'
  BY <1>1, NoneType DEF PrivInv, Pipe, FromImem
<1>6. Serial'
  BY <1>1 DEF Serial
<1> QED
  BY <1>4, <1>5, <1>6 DEF PrivInv

(***************************************************************************)
(* Edges of the slow path.                                                 *)
(***************************************************************************)
LEMMA SlowEdge ==
  ASSUME PrivInv, Slow
  PROVE  /\ CsrOK(csr') /\ irq' \in Irqs[prog'] /\ prog' = prog
         /\ idValid' = idValid /\ idPc' = idPc /\ ex' = ex /\ mem' = mem
         /\ \A p : InterruptPending(csr', p) = InterruptPending(csr, p)
                   /\ Enabled(csr', p) = Enabled(csr, p)
BY CountingEdge DEF Slow, PrivInv

LEMMA ValueType ==
  ASSUME NEW in \in Instruction, NEW a \in Address
  PROVE  Value(in, a) \in Word /\ Cause(in.op) \in Word
BY CauseTypes, AddressIsWord DEF Value, Cause, Instruction, Word

LEMMA EnterStep == ASSUME PrivInv, Enter PROVE PrivInv'
<1>1. /\ state = "IDLE" /\ idValid /\ id_stop /\ wb' = None
      /\ ~ex.valid /\ ~mem.valid /\ ~wb.valid
      /\ src_q' \in IF IdWord.op \in CsrOps THEN IdWord.operands ELSE {{}}
      /\ Slow /\ redirect_pc' = redirect_pc /\ rd' = rd
  BY DEF Enter, Idle, older_empty
<1>2. /\ CsrOK(csr') /\ irq' \in Irqs[prog'] /\ prog' = prog
      /\ idValid' = idValid /\ idPc' = idPc /\ ex' = ex /\ mem' = mem
      /\ \A p : InterruptPending(csr', p) = InterruptPending(csr, p)
                /\ Enabled(csr', p) = Enabled(csr, p)
  BY <1>1, SlowEdge
<1>3. idPc \in Address /\ ~fetch_misaligned
  <2>1. ~Shadowed
    BY <1>1 DEF Shadowed
  <2> QED
    BY <1>1, <2>1, IdSees DEF PrivInv, Pipe
<1>4. Low(Align(idPc)) \in Address /\ InImem(Low(Align(idPc)))
  BY <1>3, Aligned, LowInImem
<1>5. IdWord \in Instruction
  BY <1>4, Fetched DEF IdWord, PrivInv
<1>6. src_q' \in Word
  <2>1. {} \in Word /\ IdWord.operands \subseteq Word
    BY <1>5 DEF Word, Instruction
  <2> QED
    BY <1>1, <2>1
<1>7. ASSUME pc_q' \in Address, cause_q' \in Word, tval_q' \in Word,
             seen' \in Irqs[prog] \cup {{}}, state' \in {"EXEC", "TRAP"}
      PROVE  Types' /\ Pipe'
  <2>1. Types'
    BY <1>1, <1>2, <1>6, <1>7, NoneType DEF PrivInv, Types
  <2>2. Pipe'
    BY <1>1, <1>2, <1>7, NoneType DEF PrivInv, Pipe, FromImem
  <2> QED
    BY <2>1, <2>2
<1>8. CASE interrupt_pending
  <2>1. /\ pc_q' = idPc /\ cause_q' = InterruptCause(Enabled(csr, irq))
        /\ tval_q' = {} /\ seen' = irq /\ state' = "TRAP"
    BY <1>1, <1>8 DEF Enter, TakeInterrupt, Latch
  <2>2. Types' /\ Pipe'
    BY <1>3, <1>7, <2>1, CauseTypes DEF PrivInv, Types, Word
  <2>3. Reason'
    BY <1>2, <1>8, <2>1 DEF Reason, interrupt_pending
  <2> QED
    BY <2>1, <2>2, <2>3 DEF PrivInv, Serial
<1>9. CASE ~interrupt_pending
  <2>1. /\ seen' = seen /\ serial
        /\ IF fetch_misaligned THEN Latch(idPc, Misaligned, idPc) /\ state' = "TRAP"
           ELSE IF fetch_fault THEN Latch(idPc, FetchFault, idPc) /\ state' = "TRAP"
           ELSE IF Raises(IdWord.op)
           THEN Latch(idPc, Cause(IdWord.op), Value(IdWord, idPc)) /\ state' = "TRAP"
           ELSE pc_q' = idPc /\ state' = "EXEC" /\ UNCHANGED << cause_q, tval_q >>
    BY <1>1, <1>9 DEF Enter, id_stop
  <2>2. CASE fetch_fault
    <3>1. pc_q' = idPc /\ cause_q' = FetchFault /\ tval_q' = idPc /\ state' = "TRAP"
      BY <1>3, <2>1, <2>2 DEF Latch
    <3>2. Types' /\ Pipe'
      BY <1>3, <1>7, <2>1, <3>1, CauseTypes, AddressIsWord DEF PrivInv, Types
    <3>3. Reason'
      BY <2>2, <3>1 DEF Reason, fetch_fault
    <3> QED
      BY <3>1, <3>2, <3>3 DEF PrivInv, Serial
  <2>3. CASE ~fetch_fault /\ Raises(IdWord.op)
    <3>1. /\ pc_q' = idPc /\ cause_q' = Cause(IdWord.op) /\ tval_q' = Value(IdWord, idPc)
          /\ state' = "TRAP"
      BY <1>3, <2>1, <2>3 DEF Latch
    <3>2. IdWord = prog[idPc] /\ InImem(idPc)
      BY <1>3, <2>3, IdSees DEF PrivInv, fetch_fault
    <3>3. Types' /\ Pipe'
      BY <1>3, <1>5, <1>7, <2>1, <3>1, ValueType DEF PrivInv, Types
    <3>4. IdWord.op \in SerialOps
      BY <1>3, <2>1, <2>3 DEF serial
    <3>5. Reason'
      BY <1>2, <2>3, <3>1, <3>2, <3>4 DEF Reason, ReasonOfWord
    <3> QED
      BY <3>1, <3>3, <3>5 DEF PrivInv, Serial
  <2>4. CASE ~fetch_fault /\ ~Raises(IdWord.op)
    <3>1. pc_q' = idPc /\ state' = "EXEC" /\ cause_q' = cause_q /\ tval_q' = tval_q
      BY <1>3, <2>1, <2>4
    <3>2. IdWord = prog[idPc] /\ InImem(idPc)
      BY <1>3, <2>4, IdSees DEF PrivInv, fetch_fault
    <3>3. Types' /\ Pipe'
      BY <1>3, <1>7, <2>1, <3>1 DEF PrivInv, Types
    <3>4. IdWord.op \in SerialOps
      BY <1>3, <2>1, <2>4 DEF serial
    <3>5. Serial'
      BY <1>1, <1>2, <2>4, <3>1, <3>2, <3>4 DEF Serial
    <3> QED
      BY <3>3, <3>5 DEF PrivInv
  <2> QED
    BY <2>2, <2>3, <2>4
<1> QED
  BY <1>8, <1>9

(* From EXEC, TRAP and SLEEP to REDIRECT.                                  *)
LEMMA DoneStep ==
  ASSUME PrivInv, state # "IDLE", Done, CsrOK(csr'), Lines, rd' \in Word,
         redirect_pc' \in Address, seen' \in {seen, {}},
         UNCHANGED << prog, idValid, idPc, ex, mem, latched >>
  PROVE  PrivInv'
<1>1. /\ state' = "REDIRECT" /\ wb' = None /\ prog' = prog /\ idValid' = idValid
      /\ idPc' = idPc /\ ex' = ex /\ mem' = mem /\ pc_q' = pc_q /\ src_q' = src_q
      /\ cause_q' = cause_q /\ tval_q' = tval_q /\ irq' \in Irqs[prog]
  BY DEF Done, latched, Lines
<1>2. Types'
  BY <1>1, NoneType DEF PrivInv, Types
<1>3. Pipe'
  BY <1>1, NoneType DEF PrivInv, Pipe, FromImem
<1>4. Serial'
  BY <1>1 DEF Serial
<1> QED
  BY <1>2, <1>3, <1>4 DEF PrivInv

LEMMA BehindType == ASSUME PrivInv, Behind PROVE redirect_pc' \in Address
BY Plus4Type DEF Behind, PrivInv, Types

LEMMA ReadType ==
  ASSUME PrivInv, NEW time \in Times, NEW n
  PROVE  Read(csr, irq, time, n) \in Word
<1>1. time \in Word /\ irq \in Word
  BY PrivilegedAssumption, BitFacts DEF PrivInv, Types, Sources, MSI, MTI, MEI, Word
<1>2. csr \in [Stored -> Word]
  BY DEF PrivInv, Types, CsrOK
<1>3. \A m \in DOMAIN Alias : Alias[m] \in Stored
  BY DEF Alias, Stored, Control
<1>4. {} \in Word /\ {11, 12} \cap Bits \in Word /\ {8, 12, 30} \cap Bits \in Word
  BY DEF Word
<1>5. CASE n = "mstatus"
  <2>1. csr["mstatus"] \in Word
    BY <1>2 DEF Stored, Control
  <2>2. Read(csr, irq, time, n) = csr[n] \cup ({11, 12} \cap Bits)
    BY <1>5 DEF Read, Stored, Control, Alias
  <2> QED
    BY <1>5, <2>1, <2>2 DEF Word
<1>6. CASE n \in Stored \ {"mstatus"}
  BY <1>2, <1>6 DEF Read, Stored, Control, Alias
<1>7. CASE n \in DOMAIN Alias
  BY <1>2, <1>3, <1>7 DEF Read, Stored, Control, Alias
<1>8. CASE n \notin Stored \cup DOMAIN Alias
  BY <1>1, <1>4, <1>8 DEF Read, Stored, Control
<1> QED
  BY <1>5, <1>6, <1>7, <1>8

LEMMA ExecCsrStep == ASSUME PrivInv, ExecCsr PROVE PrivInv'
<1>1. /\ state = "EXEC" /\ prog[pc_q].op \in CsrOps /\ Behind /\ Done /\ Lines
      /\ UNCHANGED << prog, idValid, idPc, ex, mem, latched >> /\ seen' = seen
  BY DEF ExecCsr, Executes
<1> DEFINE in == prog[pc_q]
<1>2. in \in Instruction /\ src_q \in Word
  BY <1>1, Fetched DEF PrivInv, Types, Serial
<1>3. PICK time \in Times :
        /\ rd' = Read(csr, irq, time, in.csr)
        /\ csr' = IF Writes(in) /\ in.csr \in Stored
                  THEN Written(csr, Counted, in.csr,
                               NewValue(in, src_q, Read(csr, irq, time, in.csr)))
                  ELSE Counted
  BY DEF ExecCsr
<1>4. rd' \in Word
  BY <1>3, ReadType
<1>5. NewValue(in, src_q, rd') \in Word
  BY <1>1, <1>2, <1>4 DEF NewValue, Word, CsrOps
<1>6. CsrOK(csr) /\ CsrOK(Counted)
  BY CountedOK DEF PrivInv, Types
<1>7. CsrOK(csr')
  BY <1>3, <1>5, <1>6, WrittenOK
<1> QED
  BY <1>1, <1>4, <1>7, BehindType, DoneStep

LEMMA ExecRefusedStep == ASSUME PrivInv, ExecRefused PROVE PrivInv'
<1>1. /\ state = "EXEC" /\ prog[pc_q].op \in CsrOps /\ Refused(prog[pc_q])
      /\ cause_q' = Illegal /\ tval_q' = prog[pc_q].word /\ state' = "TRAP"
      /\ wb' = None /\ Behind /\ Slow /\ pc_q' = pc_q /\ src_q' = src_q
      /\ rd' = rd /\ seen' = seen
  BY DEF ExecRefused, Executes
<1>2. /\ CsrOK(csr') /\ irq' \in Irqs[prog'] /\ prog' = prog
      /\ idValid' = idValid /\ idPc' = idPc /\ ex' = ex /\ mem' = mem
  BY <1>1, SlowEdge
<1>3. prog[pc_q] \in Instruction /\ InImem(pc_q)
  BY <1>1, Fetched DEF PrivInv, Types, Serial
<1>4. tval_q' \in Word /\ cause_q' \in Word
  BY <1>1, <1>3, CauseTypes DEF Instruction
<1>5. Types'
  BY <1>1, <1>2, <1>4, NoneType, BehindType DEF PrivInv, Types
<1>6. Pipe'
  BY <1>1, <1>2, NoneType DEF PrivInv, Pipe, FromImem
<1>7. Serial'
  BY <1>1, <1>2, <1>3 DEF Serial, Reason, ReasonOfWord
<1> QED
  BY <1>5, <1>6, <1>7 DEF PrivInv

LEMMA ExecMretStep == ASSUME PrivInv, ExecMret PROVE PrivInv'
<1>1. /\ state = "EXEC" /\ csr' = AfterMret(Counted) /\ redirect_pc' = csr["mepc"]
      /\ Done /\ Lines /\ rd' = rd /\ seen' = seen
      /\ UNCHANGED << prog, idValid, idPc, ex, mem, latched >>
  BY DEF ExecMret, Executes
<1>2. CsrOK(csr') /\ redirect_pc' \in Address /\ rd' \in Word
  BY <1>1, CountedOK, AfterMretOK DEF PrivInv, Types, CsrOK
<1> QED
  BY <1>1, <1>2, DoneStep

LEMMA ExecFenceStep == ASSUME PrivInv, ExecFence PROVE PrivInv'
<1>1. /\ state = "EXEC" /\ Behind /\ Done /\ Slow /\ rd' = rd /\ seen' = seen
      /\ UNCHANGED latched
  BY DEF ExecFence, Executes
<1>2. CsrOK(csr') /\ rd' \in Word
  BY <1>1, SlowEdge DEF PrivInv, Types
<1> QED
  BY <1>1, <1>2, BehindType, DoneStep DEF Slow

LEMMA ExecWfiStep == ASSUME PrivInv, ExecWfi PROVE PrivInv'
<1>1. /\ state = "EXEC" /\ state' = "SLEEP" /\ wb' = None /\ Behind /\ Slow
      /\ pc_q' = pc_q /\ src_q' = src_q /\ cause_q' = cause_q /\ tval_q' = tval_q
      /\ rd' = rd /\ seen' = seen
  BY DEF ExecWfi, Executes, latched
<1>2. /\ CsrOK(csr') /\ irq' \in Irqs[prog'] /\ prog' = prog
      /\ idValid' = idValid /\ idPc' = idPc /\ ex' = ex /\ mem' = mem
  BY <1>1, SlowEdge
<1>3. Types'
  BY <1>1, <1>2, NoneType, BehindType DEF PrivInv, Types
<1>4. Pipe' /\ Serial'
  BY <1>1, <1>2, NoneType DEF PrivInv, Pipe, FromImem, Serial
<1> QED
  BY <1>3, <1>4 DEF PrivInv

LEMMA EnterTrapStep == ASSUME PrivInv, EnterTrap PROVE PrivInv'
<1>1. /\ state = "TRAP" /\ csr' = AfterTrap(Counted, pc_q, cause_q, tval_q)
      /\ redirect_pc' = Vector(csr["mtvec"], cause_q)
      /\ seen' = {} /\ Done /\ Lines /\ rd' = rd
      /\ UNCHANGED << prog, idValid, idPc, ex, mem, latched >>
  BY DEF EnterTrap
<1>2. CsrOK(csr) /\ CsrOK(Counted) /\ pc_q \in Word /\ cause_q \in Word /\ tval_q \in Word
      /\ rd \in Word
  BY CountedOK, AddressIsWord DEF PrivInv, Types
<1>3. csr["mtvec"] \in Word
  BY <1>2 DEF CsrOK, Stored, Control
<1>4. CsrOK(csr') /\ redirect_pc' \in Address
  BY <1>1, <1>2, <1>3, AfterTrapOK, VectorType
<1> QED
  BY <1>1, <1>2, <1>4, DoneStep

LEMMA RedirectStep == ASSUME PrivInv, Redirect PROVE PrivInv'
<1>1. /\ state = "REDIRECT" /\ state' = "IDLE" /\ wb' = None /\ ex' = None
      /\ mem' = None /\ idValid' = FALSE /\ idPc' = redirect_pc /\ csr' = Counted
      /\ Lines /\ prog' = prog /\ pc_q' = pc_q /\ src_q' = src_q
      /\ cause_q' = cause_q /\ tval_q' = tval_q /\ redirect_pc' = redirect_pc
      /\ rd' = rd /\ seen' = seen
  BY DEF Redirect, Squash, Flush, latched
<1>2. CsrOK(csr') /\ irq' \in Irqs[prog']
  BY <1>1, CountingEdge DEF PrivInv
<1>3. redirect_pc \in Address /\ redirect_pc \in Word
  BY AddressIsWord DEF PrivInv, Types
<1>4. Types'
  BY <1>1, <1>2, <1>3, NoneType DEF PrivInv, Types
<1>5. Pipe' /\ Serial'
  BY <1>1, <1>3, NoneType DEF Pipe, FromImem, Serial
<1> QED
  BY <1>4, <1>5 DEF PrivInv

LEMMA SleepStep == ASSUME PrivInv, Sleep PROVE PrivInv'
<1>1. /\ state = "SLEEP" /\ state' = state /\ wb' = None /\ Slow
      /\ pc_q' = pc_q /\ src_q' = src_q /\ cause_q' = cause_q /\ tval_q' = tval_q
      /\ rd' = rd /\ seen' = seen /\ redirect_pc' = redirect_pc
  BY DEF Sleep, latched
<1>2. /\ CsrOK(csr') /\ irq' \in Irqs[prog'] /\ prog' = prog
      /\ idValid' = idValid /\ idPc' = idPc /\ ex' = ex /\ mem' = mem
  BY <1>1, SlowEdge
<1>3. Types'
  BY <1>1, <1>2, NoneType DEF PrivInv, Types
<1>4. Pipe' /\ Serial'
  BY <1>1, <1>2, NoneType DEF PrivInv, Pipe, FromImem, Serial
<1> QED
  BY <1>3, <1>4 DEF PrivInv

LEMMA WakeUpStep == ASSUME PrivInv, WakeUp PROVE PrivInv'
<1>1. /\ state = "SLEEP" /\ wb' = None /\ Slow /\ rd' = rd
      /\ IF interrupt_pending
         THEN TakeInterrupt(Plus4(pc_q)) /\ UNCHANGED << src_q, redirect_pc >>
         ELSE Behind /\ state' = "REDIRECT" /\ UNCHANGED << latched, seen >>
  BY DEF WakeUp
<1>2. /\ CsrOK(csr') /\ irq' \in Irqs[prog'] /\ prog' = prog
      /\ idValid' = idValid /\ idPc' = idPc /\ ex' = ex /\ mem' = mem
      /\ \A p : InterruptPending(csr', p) = InterruptPending(csr, p)
                /\ Enabled(csr', p) = Enabled(csr, p)
  BY <1>1, SlowEdge
<1>3. CASE interrupt_pending
  <2>1. /\ pc_q' = Plus4(pc_q) /\ cause_q' = InterruptCause(Enabled(csr, irq))
        /\ tval_q' = {} /\ seen' = irq /\ state' = "TRAP"
        /\ src_q' = src_q /\ redirect_pc' = redirect_pc
    BY <1>1, <1>3 DEF TakeInterrupt, Latch
  <2>2. pc_q' \in Address /\ cause_q' \in Word /\ tval_q' \in Word
    BY <2>1, Plus4Type, CauseTypes DEF PrivInv, Types, Word
  <2>3. Types'
    BY <1>1, <1>2, <2>1, <2>2, NoneType DEF PrivInv, Types
  <2>4. Pipe'
    BY <1>1, <1>2, <2>1, NoneType DEF PrivInv, Pipe, FromImem
  <2>5. Serial'
    BY <1>2, <1>3, <2>1 DEF Serial, Reason, interrupt_pending
  <2> QED
    BY <2>3, <2>4, <2>5 DEF PrivInv
<1>4. CASE ~interrupt_pending
  BY <1>1, <1>2, <1>4, BehindType, DoneStep DEF Slow, Done, PrivInv, Types
<1> QED
  BY <1>3, <1>4

(***************************************************************************)
(* The invariant is inductive.                                             *)
(***************************************************************************)
LEMMA PrivInitially == PrivInit => PrivInv
<1> SUFFICES ASSUME PrivInit PROVE PrivInv
  OBVIOUS
<1>1. /\ prog \in Programs /\ idValid = FALSE /\ idPc = {} /\ ex = None /\ mem = None
      /\ wb = None /\ state = "IDLE" /\ pc_q = {} /\ src_q = {} /\ cause_q = {}
      /\ tval_q = {} /\ redirect_pc = {} /\ csr = [n \in Stored |-> {}] /\ rd = {}
      /\ irq \in Irqs[prog] /\ seen = {}
  BY DEF PrivInit
<1>2. {} \in Address /\ {} \in Word
  BY DEF Address, Word
<1>3. CsrOK(csr)
  BY <1>1, <1>2 DEF CsrOK, Stored, Control, Halves
<1>4. Types
  BY <1>1, <1>2, <1>3, NoneType DEF Types
<1>5. Pipe /\ Serial
  BY <1>1, <1>2, NoneType DEF Pipe, FromImem, Serial
<1> QED
  BY <1>4, <1>5 DEF PrivInv

LEMMA PrivUnchanged == ASSUME PrivInv, UNCHANGED privVars PROVE PrivInv'
<1>1. /\ prog' = prog /\ idValid' = idValid /\ idPc' = idPc /\ ex' = ex /\ mem' = mem
      /\ wb' = wb /\ state' = state /\ pc_q' = pc_q /\ src_q' = src_q
      /\ cause_q' = cause_q /\ tval_q' = tval_q /\ redirect_pc' = redirect_pc
      /\ csr' = csr /\ rd' = rd /\ irq' = irq /\ seen' = seen
  BY DEF privVars, pipeline, latched
<1>2. Types'
  BY <1>1 DEF PrivInv, Types
<1>3. Pipe'
  BY <1>1 DEF PrivInv, Pipe, FromImem, Shadowed, Bad
<1>4. InterruptPending(csr, seen)' = InterruptPending(csr, seen)
      /\ Enabled(csr, seen)' = Enabled(csr, seen)
  BY <1>1
<1>5. Reason' <=> Reason
  BY <1>1, <1>4 DEF Reason, ReasonOfWord
<1>6. Serial'
  BY <1>1, <1>5 DEF PrivInv, Serial
<1> QED
  BY <1>2, <1>3, <1>6 DEF PrivInv

LEMMA PrivStep == PrivInv /\ [PrivNext]_privVars => PrivInv'
<1> SUFFICES ASSUME PrivInv, [PrivNext]_privVars PROVE PrivInv'
  OBVIOUS
<1>1. CASE Advance(TRUE) \/ Advance(FALSE)
  BY <1>1, AdvanceStep
<1>2. CASE Wait \/ ExecuteHold \/ DataFault
  BY <1>2, WaitStep, ExecuteHoldStep, DataFaultStep
<1>3. CASE Reports
  BY <1>3, ResolveStep, ResolveLateStep, BadTargetStep, FarRedirectStep DEF Reports
<1>4. CASE SlowPath
  <2>1. CASE Enter \/ EnterTrap \/ Redirect \/ WakeUp
    BY <2>1, EnterStep, EnterTrapStep, RedirectStep, WakeUpStep
  <2>2. CASE ExecCsr \/ ExecRefused \/ ExecMret \/ ExecWfi \/ ExecFence
    BY <2>2, ExecCsrStep, ExecRefusedStep, ExecMretStep, ExecWfiStep, ExecFenceStep
  <2> QED
    BY <1>4, <2>1, <2>2 DEF SlowPath
<1>5. CASE Sleep
  BY <1>5, SleepStep
<1>6. CASE UNCHANGED privVars
  BY <1>6, PrivUnchanged
<1> QED
  BY <1>1, <1>2, <1>3, <1>4, <1>5, <1>6 DEF PrivNext

(* Always, and for any instance: what is in the pipeline comes from IMEM, a *)
(* misaligned address is only seen in the shadow of the jump that faults   *)
(* there, and every trap has its reason in the word it reports, in the     *)
(* interrupt lines when it was latched, or in an address outside IMEM.     *)
THEOREM PrivInvariant == PrivSpec => []PrivInv
BY PrivInitially, PrivStep, PTL DEF PrivSpec

(* Every register of privileged.v holds a legal value in every cycle,      *)
(* whatever software writes to it and whatever traps.                      *)
THEOREM PrivTypeCorrect == PrivSpec => []PrivTypeOK
<1>1. PrivInv => PrivTypeOK
  BY AddressIsWord DEF PrivInv, Types, CsrOK, PrivTypeOK
<1> QED
  BY <1>1, PrivInvariant, PTL

(* The slow path never starts at a misaligned address: the jump that goes  *)
(* there faults first, however its target was predicted.                   *)
THEOREM PrivAlignedSlowPath == PrivSpec => []AlignedSlowPath
<1>1. PrivInv => AlignedSlowPath
  BY DEF PrivInv, Types, AlignedSlowPath
<1> QED
  BY <1>1, PrivInvariant, PTL

(***************************************************************************)
(* The registers behave as MachineMode says.  Its operators are those of   *)
(* CsrFile, on the registers it has.                                       *)
(***************************************************************************)
LEMMA SameConstants ==
  /\ M!Word = Word /\ M!Address = Address /\ M!Control = Control
  /\ M!PipelineOps = PipelineOps /\ M!SerialOps = SerialOps /\ M!CsrOps = CsrOps
  /\ M!AccessCauses = AccessCauses /\ M!Misaligned = Misaligned
  /\ M!FetchFault = FetchFault /\ M!Illegal = Illegal
<1>1. M!Word = Word
  BY DEF M!Word, Word
<1>2. M!Address = Address
  BY DEF M!Address, Address
<1>3. M!Control = Control
  BY DEF M!Control, Control
<1>4. M!PipelineOps = PipelineOps
  BY DEF M!PipelineOps, PipelineOps
<1>5. M!CsrOps = CsrOps
  BY DEF M!CsrOps, CsrOps
<1>6. M!SerialOps = SerialOps
  BY <1>5 DEF M!SerialOps, SerialOps
<1>7. M!AccessCauses = AccessCauses
  BY DEF M!AccessCauses, AccessCauses
<1>8. M!Misaligned = Misaligned /\ M!FetchFault = FetchFault /\ M!Illegal = Illegal
  BY DEF M!Misaligned, Misaligned, M!FetchFault, FetchFault, M!Illegal, Illegal
<1> QED
  BY <1>1, <1>2, <1>3, <1>4, <1>5, <1>6, <1>7, <1>8

LEMMA SameOperators ==
  /\ \A a : M!InImem(a) = InImem(a)
  /\ \A a : M!Plus4(a) = Plus4(a)
  /\ \A t, k : M!Vector(t, k) = Vector(t, k)
  /\ \A in : M!Writes(in) = Writes(in) /\ M!Refused(in) = Refused(in)
  /\ \A in, v, old : M!NewValue(in, v, old) = NewValue(in, v, old)
  /\ \A op : M!Raises(op) = Raises(op) /\ M!Cause(op) = Cause(op)
  /\ \A in, a : M!Value(in, a) = Value(in, a)
<1>1. \A a : M!InImem(a) = InImem(a)
  BY DEF M!InImem, InImem
<1>2. \A w, d : M!Inc(w, d) = Inc(w, d)
  BY DEF M!Inc, Inc
<1>3. \A a : M!Plus4(a) = Plus4(a)
  BY <1>2 DEF M!Plus4, Plus4
<1>4. \A v, w : M!Add(v, w) = Add(v, w)
  <2>1. \A v, w : M!Carry(v, w) = Carry(v, w)
    BY DEF M!Carry, Carry
  <2> QED
    BY <2>1 DEF M!Add, Add
<1>5. \A t, k : M!Vector(t, k) = Vector(t, k)
  <2>1. M!Digits = Digits
    BY DEF M!Digits, Digits
  <2>2. \A k : M!Times4(k) = Times4(k)
    <3>1. \A S : M!Cardinality(S) = Cardinality(S)
      BY Zenon DEF M!Cardinality, Cardinality
    <3> QED
      BY <2>1, <3>1, Zenon DEF M!Times4, Times4
  <2>3. \A w : M!Align(w) = Align(w)
    BY DEF M!Align, Align
  <2>4. \A k : M!IsInterrupt(k) = IsInterrupt(k)
    BY DEF M!IsInterrupt, IsInterrupt
  <2> QED
    BY <1>4, <2>2, <2>3, <2>4 DEF M!Vector, Vector
<1>6. \A in : M!Writes(in) = Writes(in)
  BY DEF M!Writes, Writes
<1>7. \A in : M!Refused(in) = Refused(in)
  BY <1>6 DEF M!Refused, Refused, M!ReadOnly, ReadOnly
<1>8. \A in, v, old : M!NewValue(in, v, old) = NewValue(in, v, old)
  BY DEF M!NewValue, NewValue
<1>9. \A op : M!Raises(op) = Raises(op)
  BY DEF M!Raises, Raises
<1>10. \A op : M!Cause(op) = Cause(op)
  BY DEF M!Cause, Cause, M!Illegal, Illegal, M!Breakpoint, Breakpoint, M!EnvCall, EnvCall
<1>11. \A in, a : M!Value(in, a) = Value(in, a)
  BY DEF M!Value, Value
<1> QED
  BY <1>1, <1>3, <1>5, <1>6, <1>7, <1>8, <1>9, <1>10, <1>11

LEMMA SameRegisters ==
  /\ \A c : M!Retired(c) = Retired(c)
  /\ \A c : M!AfterMret(c) = AfterMret(c)
  /\ \A c, pc, k, v : M!AfterTrap(c, pc, k, v) = AfterTrap(c, pc, k, v)
  /\ \A old, c, n, v : M!Written(old, c, n, v) = Written(old, c, n, v)
  /\ \A c, p, t, n : M!Read(c, p, t, n) = Read(c, p, t, n)
  /\ \A c, p : M!InterruptPending(c, p) = InterruptPending(c, p)
  /\ \A c, p : M!Enabled(c, p) = Enabled(c, p)
  /\ \A p : M!InterruptCause(p) = InterruptCause(p)
<1>1. \A c : M!Retired(c) = Retired(c)
  <2>1. \A w, d : M!Inc(w, d) = Inc(w, d)
    BY DEF M!Inc, Inc
  <2>2. \A c, lo, hi : M!Bump(c, lo, hi) = Bump(c, lo, hi)
    BY <2>1, Zenon DEF M!Bump, Bump
  <2> QED
    BY <2>2, Zenon DEF M!Retired, Retired
<1>2. \A c : M!AfterMret(c) = AfterMret(c)
  BY Zenon DEF M!AfterMret, AfterMret
<1>3. \A w : M!Align(w) = Align(w)
  BY DEF M!Align, Align
<1>4. \A c : M!MIE(c) = MIE(c)
  BY DEF M!MIE, MIE
<1>5. \A c, pc, k, v : M!AfterTrap(c, pc, k, v) = AfterTrap(c, pc, k, v)
  BY <1>3, <1>4, Zenon DEF M!AfterTrap, AfterTrap
<1>6. M!Halves = Halves /\ M!Sibling = Sibling
  BY DEF M!Halves, Halves, M!Sibling, Sibling
<1>7. \A n, v : M!Kept(n, v) = Kept(n, v)
  BY <1>3, <1>6 DEF M!Kept, Kept, M!MSI, MSI, M!MTI, MTI, M!Sources, Sources, M!MEI, MEI
<1>8. \A old, c, n, v : M!Written(old, c, n, v) = Written(old, c, n, v)
  BY <1>6, <1>7, Zenon DEF M!Written, Written
<1>9. M!Stored = Stored /\ M!Alias = Alias
  BY DEF M!Stored, Stored, M!Control, Control, M!Alias, Alias
<1>10. \A c, p, t, n : M!Read(c, p, t, n) = Read(c, p, t, n)
  BY <1>9 DEF M!Read, Read
<1>11. \A c, p : M!Enabled(c, p) = Enabled(c, p)
  BY DEF M!Enabled, Enabled
<1>12. \A c, p : M!InterruptPending(c, p) = InterruptPending(c, p)
  BY <1>4, <1>11 DEF M!InterruptPending, InterruptPending
<1>13. \A p : M!InterruptCause(p) = InterruptCause(p)
  BY DEF M!InterruptCause, InterruptCause, M!MEI, MEI, M!MSI, MSI
<1> QED
  BY <1>1, <1>2, <1>5, <1>8, <1>10, <1>11, <1>12, <1>13

(* MachineMode sees these registers of a file.                             *)
Shown(c) == [n \in Control |-> c[n]]

LEMMA ShownFields ==
  /\ Control \subseteq Stored
  /\ {"mstatus", "mie", "mtvec", "mcountinhibit", "mepc", "mcause", "mtval",
      "minstret", "minstreth"} \subseteq Control
BY DEF Control, Stored

LEMMA ShownAgree ==
  ASSUME NEW c, NEW d, Agree(c, d, Control)
  PROVE  Shown(c) = Shown(d)
BY DEF Agree, Shown

LEMMA ShownRetired ==
  ASSUME NEW c, CsrOK(c)
  PROVE  Shown(Retired(c)) = Retired(Shown(c))
<1>1. DOMAIN c = Stored /\ DOMAIN Shown(c) = Control
  BY DEF CsrOK, Shown
<1>2. \A n \in Control : Shown(c)[n] = c[n]
  BY DEF Shown
<1>3. Shown(c)["mcountinhibit"] = c["mcountinhibit"]
  BY <1>2, ShownFields
<1>4. CASE 2 \in c["mcountinhibit"]
  BY <1>3, <1>4 DEF Retired
<1>5. CASE 2 \notin c["mcountinhibit"]
  <2> DEFINE lo == "minstret"
             hi == "minstreth"
             D(f, S) == [n \in S |->
                IF n = lo THEN Inc(f[lo], CounterBits)
                ELSE IF n = hi
                THEN IF f[lo] = CounterBits THEN Inc(f[hi], CounterBits) ELSE f[hi]
                ELSE f[n]]
  <2>1. Retired(c) = D(c, Stored)
    BY <1>1, <1>5, Bumped DEF Retired
  <2>2. Retired(Shown(c)) = D(Shown(c), Control)
    BY <1>1, <1>3, <1>5, Bumped DEF Retired
  <2>3. Shown(c)[lo] = c[lo] /\ Shown(c)[hi] = c[hi]
    BY <1>2, ShownFields
  <2>4. D(Shown(c), Control) = [n \in Control |-> D(c, Stored)[n]]
    BY <1>2, <2>3, ShownFields
  <2> QED
    BY <2>1, <2>2, <2>4 DEF Shown
<1> QED
  BY <1>4, <1>5

LEMMA ShownCounted ==
  ASSUME CsrOK(csr)
  PROVE  /\ ~wb.valid /\ ~system_retire => Shown(Counted) = Shown(csr)
         /\ wb.valid \/ system_retire => Shown(Counted) = Retired(Shown(csr))
<1>1. Shown(Ticked(csr)) = Shown(csr) /\ CsrOK(Ticked(csr))
  BY CountOK, ShownAgree
<1>2. Shown(Retired(Ticked(csr))) = Retired(Shown(csr))
  BY <1>1, ShownRetired
<1> QED
  BY <1>1, <1>2 DEF Counted

LEMMA ShownAfterTrap ==
  ASSUME NEW c, CsrOK(c), NEW pc, NEW k, NEW v
  PROVE  Shown(AfterTrap(c, pc, k, v)) = AfterTrap(Shown(c), pc, k, v)
<1>1. DOMAIN c = Stored /\ MIE(Shown(c)) = MIE(c)
  BY ShownFields DEF CsrOK, Shown, MIE
<1> DEFINE D(f, S) == [n \in S |->
                   IF n = "mstatus" THEN IF MIE(f) THEN {7} ELSE {}
                   ELSE IF n = "mepc" THEN Align(pc)
                   ELSE IF n = "mcause" THEN k
                   ELSE IF n = "mtval" THEN v ELSE f[n]]
<1>2. AfterTrap(c, pc, k, v) = D(c, Stored)
  BY <1>1 DEF AfterTrap
<1>3. AfterTrap(Shown(c), pc, k, v) = D(Shown(c), Control)
  BY DEF AfterTrap, Shown
<1>4. D(Shown(c), Control) = [n \in Control |-> D(c, Stored)[n]]
  BY <1>1, ShownFields DEF Shown
<1> QED
  BY <1>2, <1>3, <1>4 DEF Shown

LEMMA ShownAfterMret ==
  ASSUME NEW c, CsrOK(c)
  PROVE  Shown(AfterMret(c)) = AfterMret(Shown(c))
<1> DEFINE D(f, S) == [n \in S |->
                   IF n = "mstatus" THEN IF 7 \in f["mstatus"] THEN {3, 7} ELSE {7}
                   ELSE f[n]]
<1>1. AfterMret(c) = D(c, Stored)
  BY DEF AfterMret, CsrOK
<1>2. AfterMret(Shown(c)) = D(Shown(c), Control)
  BY DEF AfterMret, Shown
<1>3. D(Shown(c), Control) = [n \in Control |-> D(c, Stored)[n]]
  BY ShownFields DEF Shown
<1> QED
  BY <1>1, <1>2, <1>3 DEF Shown

LEMMA ShownWritten ==
  ASSUME NEW old, NEW c, CsrOK(c), NEW n \in Stored, NEW v
  PROVE  /\ n \in Control =>
              Shown(Written(old, c, n, v)) = Written(Shown(old), Shown(c), n, v)
         /\ n \notin Control => Shown(Written(old, c, n, v)) = Shown(c)
<1>1. DOMAIN c = Stored /\ DOMAIN Shown(c) = Control
  BY DEF CsrOK, Shown
<1>2. CASE n \notin Halves
  <2>1. n \in Control
    BY <1>2 DEF Halves, Stored, Control
  <2>2. Shown([c EXCEPT ![n] = Kept(n, v)]) = [Shown(c) EXCEPT ![n] = Kept(n, v)]
    BY <1>1, <2>1, ShownFields DEF Shown
  <2> QED
    BY <1>2, <2>1, <2>2 DEF Written
<1>3. CASE n \in Halves
  <2> DEFINE s == Sibling[n]
             k == Kept(n, v)
             D(f, g, S) == [m \in S |-> IF m = n THEN k ELSE IF m = s THEN g[s] ELSE f[m]]
  <2>1. s \in Stored /\ s # n /\ (n \in Control <=> s \in Control)
    BY <1>3 DEF Sibling, Halves, Stored, Control
  <2>2. Written(old, c, n, v) = D(c, old, Stored)
    BY <1>1, <1>3, <2>1, TwoUpdates DEF Written
  <2>3. Written(Shown(old), Shown(c), n, v) = D(Shown(c), Shown(old), Control)
    BY <1>1, <1>3, <2>1, TwoUpdates DEF Written
  <2> HIDE DEF s, k
  <2>4. n \in Control => D(Shown(c), Shown(old), Control) = [m \in Control |-> D(c, old, Stored)[m]]
    BY <2>1, ShownFields DEF Shown
  <2>5. n \notin Control => [m \in Control |-> D(c, old, Stored)[m]] = [m \in Control |-> c[m]]
    BY <2>1, ShownFields
  <2> QED
    BY <2>2, <2>3, <2>4, <2>5 DEF Shown
<1> QED
  BY <1>2, <1>3

(***************************************************************************)
(* Every edge is one instruction, one trap or nothing for MachineMode.     *)
(***************************************************************************)
(* The oldest instruction that has not retired.                            *)
Oldest ==
  IF wb.valid THEN wb.pc
  ELSE IF state \in {"EXEC", "TRAP"} THEN pc_q
  ELSE IF state = "REDIRECT" THEN redirect_pc
  ELSE IF state = "SLEEP" THEN Plus4(pc_q)
  ELSE IF mem.valid THEN mem.pc
  ELSE IF ex.valid THEN ex.pc ELSE idPc

LEMMA ModeStutter ==
  ASSUME Oldest' = Oldest, Shown(csr') = Shown(csr), prog' = prog, rd' = rd
  PROVE  UNCHANGED M!modeVars
BY SameConstants DEF M!modeVars, Oldest, Shown

LEMMA ModeOrdinary ==
  ASSUME InImem(Oldest), prog[Oldest].op \in PipelineOps, Oldest' \in Address,
         Shown(csr') = Retired(Shown(csr)), prog' = prog, rd' = rd
  PROVE  M!ModeNext
<1>1. M!Ordinary
  BY SameConstants, SameOperators, SameRegisters DEF M!Ordinary, M!Runs, Oldest, Shown
<1> QED
  BY <1>1 DEF M!ModeNext

(* An edge at which the instruction in WB retires, or none does.           *)
LEMMA RetiringEdge ==
  ASSUME PrivInv, csr' = Counted, ~system_retire, prog' = prog, rd' = rd,
         Oldest' \in Address, ~wb.valid => Oldest' = Oldest
  PROVE  [M!ModeNext]_M!modeVars
<1>1. CsrOK(csr)
  BY DEF PrivInv, Types
<1>2. CASE ~wb.valid
  <2>1. Shown(csr') = Shown(csr)
    BY <1>1, <1>2, ShownCounted
  <2>2. UNCHANGED M!modeVars
    BY <1>2, <2>1, ModeStutter
  <2> QED
    BY <2>2
<1>3. CASE wb.valid
  <2>1. Oldest = wb.pc
    BY <1>3 DEF Oldest
  <2>2. InImem(wb.pc) /\ prog[wb.pc].op = wb.op /\ wb.op \in PipelineOps
    BY <1>3 DEF PrivInv, Pipe, FromImem, Types, Slot
  <2>3. Shown(csr') = Retired(Shown(csr))
    BY <1>1, <1>3, ShownCounted
  <2>4. M!ModeNext
    BY <2>1, <2>2, <2>3, ModeOrdinary
  <2> QED
    BY <2>4
<1> QED
  BY <1>2, <1>3

(* In IDLE the next instruction in line is at an address that is aligned.  *)
LEMMA InLine ==
  ASSUME PrivInv, state = "IDLE"
  PROVE  /\ wb.pc \in Address /\ mem.pc \in Address /\ ex.pc \in Address
         /\ ~mem.valid /\ ~ex.valid => idPc \in Address
BY DEF PrivInv, Types, Slot, Pipe, Shadowed

LEMMA AdvanceMode ==
  ASSUME PrivInv, NEW next \in BOOLEAN, Advance(next)
  PROVE  [M!ModeNext]_M!modeVars
<1>1. /\ state = "IDLE" /\ wb' = mem /\ mem' = ex /\ csr' = Counted /\ prog' = prog
      /\ rd' = rd /\ state' = state
  BY DEF Advance, Idle, Pipeline
<1>2. ~system_retire
  BY <1>1 DEF system_retire
<1>3. idValid /\ ~id_stop => ex'.valid /\ ex'.pc = idPc /\ idPc \in Address
  <2> SUFFICES ASSUME idValid, ~id_stop
               PROVE  ex'.valid /\ ex'.pc = idPc /\ idPc \in Address
    OBVIOUS
  <2>1. PICK p \in Predicted(IdWord.op) : ex' \in Decoded(IdWord.op, p)
    BY DEF Advance
  <2>2. idPc \in Address
    BY IdSees DEF PrivInv, id_stop, serial
  <2> QED
    BY <2>1, <2>2, Issued
<1>4. ~(idValid /\ ~id_stop) => ex' = None /\ idPc' = idPc
  BY DEF Advance
<1>5. /\ ~mem.valid /\ ~ex.valid => Oldest' = idPc
      /\ ~mem.valid /\ ex.valid => Oldest' = ex.pc
      /\ mem.valid => Oldest' = mem.pc
  BY <1>1, <1>3, <1>4, NoneType DEF Oldest
<1>6. Oldest' \in Address
  BY <1>1, <1>5, InLine
<1>7. ~wb.valid => Oldest' = Oldest
  BY <1>1, <1>5 DEF Oldest
<1> QED
  BY <1>1, <1>2, <1>6, <1>7, RetiringEdge

(* The other edges in IDLE: the front end is held or flushed.              *)
LEMMA IdleMode ==
  ASSUME PrivInv, state = "IDLE", csr' = Counted, prog' = prog, rd' = rd,
         \/ mem.valid /\ Oldest' = mem.pc
         \/ ~mem.valid /\ ex.valid /\ Oldest' = ex.pc
  PROVE  [M!ModeNext]_M!modeVars
<1>1. ~system_retire
  BY DEF system_retire
<1>2. Oldest' \in Address
  BY InLine
<1>3. ~wb.valid => Oldest' = Oldest
  BY DEF Oldest
<1> QED
  BY <1>1, <1>2, <1>3, RetiringEdge

LEMMA HeldMode ==
  ASSUME PrivInv, Wait \/ ExecuteHold \/ DataFault \/ Reports
  PROVE  [M!ModeNext]_M!modeVars
<1>1. CASE Wait
  <2>1. /\ state = "IDLE" /\ mem.valid /\ csr' = Counted /\ prog' = prog /\ rd' = rd
        /\ wb' = None /\ mem' = mem /\ state' = state
    BY <1>1 DEF Wait, Pipeline
  <2> QED
    BY <2>1, NoneType, IdleMode DEF Oldest
<1>2. CASE ExecuteHold
  <2>1. /\ state = "IDLE" /\ ex.valid /\ csr' = Counted /\ prog' = prog /\ rd' = rd
        /\ wb' = mem /\ mem' = None /\ ex' = ex /\ state' = state
    BY <1>2 DEF ExecuteHold, Pipeline, Idle
  <2> QED
    BY <2>1, NoneType, IdleMode DEF Oldest
<1>3. CASE DataFault \/ BadTarget
  <2>1. /\ state = "IDLE" /\ mem.valid /\ csr' = Counted /\ prog' = prog /\ rd' = rd
        /\ wb' = None /\ state' = "TRAP" /\ pc_q' = mem.pc
    BY <1>3 DEF DataFault, BadTarget, mem_target_bad, Exception
  <2> QED
    BY <2>1, NoneType, IdleMode DEF Oldest
<1>4. CASE Resolve
  <2>1. /\ state = "IDLE" /\ ex.valid /\ csr' = Counted /\ prog' = prog /\ rd' = rd
        /\ wb' = mem /\ mem' = ex /\ state' = state
    BY <1>4 DEF Resolve, ex_mispredict, Pipeline, Idle
  <2> QED
    BY <2>1, IdleMode DEF Oldest
<1>5. CASE ResolveLate \/ FarRedirect
  <2>1. /\ state = "IDLE" /\ mem.valid /\ csr' = Counted /\ prog' = prog /\ rd' = rd
        /\ wb' = mem
    BY <1>5 DEF ResolveLate, mem_ctrl_mispredict, FarRedirect, mem_far_redirect,
       Pipeline, Idle
  <2> QED
    BY <2>1, IdleMode DEF Oldest
<1> QED
  BY <1>1, <1>2, <1>3, <1>4, <1>5 DEF Reports

(* Edges of the slow path between two instructions.                        *)
LEMMA BetweenMode ==
  ASSUME PrivInv, Enter \/ ExecRefused \/ Sleep \/ WakeUp
  PROVE  [M!ModeNext]_M!modeVars
<1>1. state \in {"EXEC", "SLEEP"} => ~wb.valid
  BY DEF PrivInv, Pipe
<1>2. /\ csr' = Counted /\ prog' = prog /\ rd' = rd /\ wb' = None /\ ~wb.valid
      /\ ~system_retire
  BY <1>1 DEF Enter, ExecRefused, Sleep, WakeUp, Slow, Idle, Executes, older_empty,
     system_retire
<1>3. Oldest' = Oldest
  <2>1. CASE Enter
    <3>1. Oldest = idPc
      BY <1>2, <2>1 DEF Oldest, Enter, Idle, older_empty
    <3>2. pc_q' = idPc /\ state' \in {"EXEC", "TRAP"}
      BY <2>1 DEF Enter, TakeInterrupt, Latch
    <3> QED
      BY <1>2, <3>1, <3>2, NoneType DEF Oldest
  <2>2. CASE ExecRefused
    BY <1>2, <2>2, NoneType DEF Oldest, ExecRefused, Executes
  <2>3. CASE Sleep
    BY <1>2, <2>3, NoneType DEF Oldest, Sleep, latched
  <2>4. CASE WakeUp
    <3>1. Oldest = Plus4(pc_q)
      BY <1>2, <2>4 DEF Oldest, WakeUp
    <3>2. \/ pc_q' = Plus4(pc_q) /\ state' = "TRAP"
          \/ redirect_pc' = Plus4(pc_q) /\ state' = "REDIRECT"
      BY <2>4 DEF WakeUp, TakeInterrupt, Latch, Behind
    <3> QED
      BY <1>2, <3>1, <3>2, NoneType DEF Oldest
  <2> QED
    BY <2>1, <2>2, <2>3, <2>4
<1>4. Shown(csr') = Shown(csr)
  BY <1>2, ShownCounted DEF PrivInv, Types
<1>5. UNCHANGED M!modeVars
  BY <1>2, <1>3, <1>4, ModeStutter
<1> QED
  BY <1>5

LEMMA RedirectMode == ASSUME PrivInv, Redirect PROVE [M!ModeNext]_M!modeVars
<1>1. /\ state = "REDIRECT" /\ state' = "IDLE" /\ wb' = None /\ ex' = None
      /\ mem' = None /\ idPc' = redirect_pc /\ csr' = Counted /\ prog' = prog
      /\ rd' = rd
  BY DEF Redirect, Squash, Flush
<1>2. Oldest' = redirect_pc /\ (~wb.valid => Oldest = redirect_pc)
  BY <1>1, NoneType DEF Oldest
<1>3. ~system_retire /\ redirect_pc \in Address
  BY <1>1 DEF system_retire, PrivInv, Types
<1> QED
  BY <1>1, <1>2, <1>3, RetiringEdge

(* An instruction in EXEC that retires.                                    *)
LEMMA Executing ==
  ASSUME PrivInv, NEW ops, Executes(ops), ~(prog[pc_q].op \in CsrOps /\ Refused(prog[pc_q]))
  PROVE  /\ ~wb.valid /\ Oldest = pc_q /\ InImem(pc_q) /\ prog[pc_q].op \in ops
         /\ M!Runs(ops)
         /\ CsrOK(csr) /\ CsrOK(Counted) /\ Shown(Counted) = Retired(Shown(csr))
         /\ prog[pc_q] \in Instruction
<1>1. state = "EXEC" /\ prog[pc_q].op \in ops
  BY DEF Executes
<1>2. ~wb.valid /\ InImem(pc_q)
  BY <1>1 DEF PrivInv, Pipe, Serial
<1>3. Oldest = pc_q
  BY <1>1, <1>2 DEF Oldest
<1>4. M!Runs(ops)
  BY <1>1, <1>2, <1>3, SameOperators DEF M!Runs, Oldest
<1>5. system_retire
  BY <1>1 DEF system_retire
<1>6. CsrOK(csr) /\ CsrOK(Counted) /\ Shown(Counted) = Retired(Shown(csr))
  BY <1>5, CountedOK, ShownCounted DEF PrivInv, Types
<1>7. prog[pc_q] \in Instruction
  BY <1>2, Fetched DEF PrivInv, Types
<1> QED
  BY <1>1, <1>2, <1>3, <1>4, <1>6, <1>7

LEMMA OtherMode == ASSUME PrivInv, ExecWfi \/ ExecFence PROVE M!ModeNext
<1>1. /\ Executes({"wfi", "fence"}) /\ csr' = Counted /\ prog' = prog /\ rd' = rd
      /\ wb' = None
      /\ \/ state' = "SLEEP" /\ pc_q' = pc_q
         \/ state' = "REDIRECT" /\ redirect_pc' = Plus4(pc_q)
  BY DEF ExecWfi, ExecFence, Executes, Slow, Done, Behind, latched
<1>2. prog[pc_q].op \notin CsrOps
  BY <1>1 DEF Executes, CsrOps
<1>3. M!Runs({"wfi", "fence"}) /\ Oldest = pc_q /\ Shown(csr') = Retired(Shown(csr))
  BY <1>1, <1>2, Executing
<1>4. Oldest' = Plus4(Oldest)
  BY <1>1, <1>3, NoneType DEF Oldest
<1>5. M!Other
  BY <1>1, <1>3, <1>4, SameConstants, SameOperators, SameRegisters
     DEF M!Other, Oldest, Shown
<1> QED
  BY <1>5 DEF M!ModeNext

LEMMA MretCommutes ==
  ASSUME NEW f, DOMAIN f = Control
  PROVE  AfterMret(Retired(f)) = Retired(AfterMret(f))
<1> DEFINE m == IF 7 \in f["mstatus"] THEN {3, 7} ELSE {7}
           lo == Inc(f["minstret"], CounterBits)
           hi == IF f["minstret"] = CounterBits THEN Inc(f["minstreth"], CounterBits)
                 ELSE f["minstreth"]
           g == AfterMret(f)
           r == Retired(f)
<1>1. g = [f EXCEPT !["mstatus"] = m]
  BY Zenon DEF AfterMret
<1>2. CASE 2 \in f["mcountinhibit"]
  <2>1. g["mcountinhibit"] = f["mcountinhibit"]
    BY <1>1, ShownFields
  <2>2. Retired(g) = g /\ r = f
    BY <1>2, <2>1 DEF Retired
  <2> QED
    BY <2>2
<1>3. CASE 2 \notin f["mcountinhibit"]
  <2>1. r = [f EXCEPT !["minstret"] = lo, !["minstreth"] = hi]
    BY <1>3, Zenon DEF Retired, Bump
  <2> HIDE DEF m, lo, hi
  <2> HIDE DEF g, r
  <2>2. /\ g["minstret"] = f["minstret"] /\ g["minstreth"] = f["minstreth"]
        /\ g["mcountinhibit"] = f["mcountinhibit"]
    BY <1>1, ShownFields
  <2>3. Retired(g) = [g EXCEPT !["minstret"] = lo, !["minstreth"] = hi]
    BY <1>3, <2>2, Zenon DEF Retired, Bump, lo, hi
  <2>4. r["mstatus"] = f["mstatus"]
    BY <2>1, ShownFields
  <2>5. AfterMret(r) = [r EXCEPT !["mstatus"] = m]
    BY <2>4, Zenon DEF AfterMret, m
  <2>6. [r EXCEPT !["mstatus"] = m] = [g EXCEPT !["minstret"] = lo, !["minstreth"] = hi]
    BY <1>1, <2>1, ShownFields
  <2>7. AfterMret(r) = Retired(g)
    BY <2>3, <2>5, <2>6
  <2> QED
    BY <2>7 DEF g, r
<1> QED
  BY <1>2, <1>3

LEMMA MretMode == ASSUME PrivInv, ExecMret PROVE M!ModeNext
<1>1. /\ Executes({"mret"}) /\ csr' = AfterMret(Counted) /\ prog' = prog /\ rd' = rd
      /\ wb' = None /\ state' = "REDIRECT" /\ redirect_pc' = csr["mepc"]
  BY DEF ExecMret, Done
<1>2. prog[pc_q].op \notin CsrOps
  BY <1>1 DEF Executes, CsrOps
<1>3. /\ M!Runs({"mret"}) /\ CsrOK(csr) /\ CsrOK(Counted)
      /\ Shown(Counted) = Retired(Shown(csr))
  BY <1>1, <1>2, Executing
<1>4. Shown(csr') = AfterMret(Retired(Shown(csr)))
  BY <1>1, <1>3, ShownAfterMret
<1>5. AfterMret(Retired(Shown(csr))) = Retired(AfterMret(Shown(csr)))
  <2>1. DOMAIN Shown(csr) = Control
    BY DEF Shown
  <2> QED
    BY <2>1, MretCommutes
<1>6. Oldest' = Shown(csr)["mepc"]
  BY <1>1, NoneType, ShownFields DEF Oldest, Shown
<1>7. M!Mret
  BY <1>1, <1>3, <1>4, <1>5, <1>6, SameConstants, SameOperators, SameRegisters
     DEF M!Mret, Oldest, Shown
<1> QED
  BY <1>7 DEF M!ModeNext

(* Software reads the same value, but for the counter of cycles and time.  *)
LEMMA ShownRead ==
  ASSUME PrivInv, NEW time, NEW n \in CsrNames, n \notin M!Open
  PROVE  Read(csr, irq, time, n) = Read(Shown(csr), irq, {}, n)
<1> DEFINE s == Shown(csr)
<1>1. \A m \in Control : s[m] = csr[m]
  BY DEF Shown
<1> HIDE DEF s
<1>2. CASE n = "mstatus"
  <2>1. \A c, t : Read(c, irq, t, n) = c[n] \cup ({11, 12} \cap Bits)
    BY <1>2 DEF Read, Stored, Control, Alias
  <2>2. s[n] = csr[n]
    BY <1>1, <1>2, ShownFields
  <2> QED
    BY <2>1, <2>2 DEF s
<1>3. CASE n \in Control \ {"mstatus"}
  <2>1. \A c, t : Read(c, irq, t, n) = c[n]
    BY <1>3, ShownFields DEF Read, Stored, Control, Alias
  <2>2. s[n] = csr[n]
    BY <1>1, <1>3
  <2> QED
    BY <2>1, <2>2 DEF s
<1>4. CASE n \in {"instret", "instreth"}
  <2>1. \A c, t : Read(c, irq, t, n) = c[Alias[n]]
    BY <1>4 DEF Read, Stored, Control, Alias
  <2>2. Alias[n] \in Control
    BY <1>4 DEF Control, Alias
  <2>3. s[Alias[n]] = csr[Alias[n]]
    BY <1>1, <2>2
  <2> QED
    BY <2>1, <2>3 DEF s
<1>5. CASE n \in {"mip", "misa", "warl0", "absent", "ro0"}
  <2>1. n \notin Stored /\ n \notin DOMAIN Alias /\ n \notin {"time", "timeh", "mstatus"}
    BY <1>5 DEF Stored, Control, Alias
  <2> QED
    BY <1>5, <2>1 DEF Read
<1> QED
  BY <1>2, <1>3, <1>4, <1>5 DEF CsrNames, Stored, Control, ReadOnly, M!Open

LEMMA AccessMode == ASSUME PrivInv, ExecCsr PROVE M!ModeNext
<1>1. /\ Executes(CsrOps) /\ ~Refused(prog[pc_q]) /\ prog' = prog
      /\ wb' = None /\ state' = "REDIRECT" /\ redirect_pc' = Plus4(pc_q)
  BY DEF ExecCsr, Behind, Done
<1> DEFINE in == prog[pc_q]
           reg == in.csr
           old == Read(Shown(csr), irq, {}, reg)
<1>2. /\ M!Runs(CsrOps) /\ CsrOK(csr) /\ CsrOK(Counted) /\ Oldest = pc_q
      /\ Shown(Counted) = Retired(Shown(csr)) /\ in \in Instruction /\ in.op \in CsrOps
  BY <1>1, Executing
<1>3. PICK time \in Times :
        /\ rd' = Read(csr, irq, time, reg)
        /\ csr' = IF Writes(in) /\ reg \in Stored
                  THEN Written(csr, Counted, reg, NewValue(in, src_q, rd'))
                  ELSE Counted
  BY DEF ExecCsr
<1>4. src_q \in in.operands /\ reg \in CsrNames /\ state = "EXEC"
  BY <1>1, <1>2 DEF PrivInv, Serial, Executes, Instruction
<1>5. IF reg \in M!Open THEN rd' \in Word ELSE rd' = old
  BY <1>3, <1>4, ReadType, ShownRead
<1>6. reg \in Control => reg \notin M!Open /\ reg \in Stored
  BY ShownFields DEF M!Open, Control
<1>7. IF Writes(in) /\ reg \in Control
      THEN Shown(csr') = Written(Shown(csr), Retired(Shown(csr)), reg,
                                 NewValue(in, src_q, old))
      ELSE Shown(csr') = Retired(Shown(csr))
  <2>1. CASE Writes(in) /\ reg \in Control
    <3>1. csr' = Written(csr, Counted, reg, NewValue(in, src_q, old))
      BY <1>3, <1>5, <1>6, <2>1
    <3> QED
      BY <1>2, <1>6, <2>1, <3>1, ShownWritten
  <2>2. CASE Writes(in) /\ reg \in Stored \ Control
    <3>1. csr' = Written(csr, Counted, reg, NewValue(in, src_q, rd'))
      BY <1>3, <2>2
    <3> QED
      BY <1>2, <2>2, <3>1, ShownWritten
  <2>3. CASE ~(Writes(in) /\ reg \in Stored)
    BY <1>2, <1>3, <1>6, <2>3
  <2> QED
    BY <2>1, <2>2, <2>3
<1>8. Oldest' = Plus4(Oldest)
  BY <1>1, <1>2, NoneType DEF Oldest
<1>9. ~wb.valid /\ state # "TRAP"
  BY <1>1, <1>4, Executing
<1> DEFINE apc == IF wb.valid THEN wb.pc
              ELSE IF state \in {"EXEC", "TRAP"} THEN pc_q
              ELSE IF state = "REDIRECT" THEN redirect_pc
              ELSE IF state = "SLEEP" THEN Plus4(pc_q)
              ELSE IF mem.valid THEN mem.pc
              ELSE IF ex.valid THEN ex.pc ELSE idPc
           airq == IF state = "TRAP" THEN seen ELSE irq
<1>10. apc = pc_q /\ airq = irq
  BY <1>4, <1>9
<1>11. apc' = Plus4(apc)
  BY <1>8 DEF Oldest
<1> HIDE DEF apc, airq
<1>12. M!Access
  <2>1. M!Runs(M!CsrOps) /\ ~M!Refused(prog[apc])
    BY <1>1, <1>2, <1>10, SameConstants, SameOperators
  <2>2. IF prog[apc].csr \in M!Open THEN rd' \in M!Word
        ELSE rd' = M!Read(Shown(csr), airq, {}, prog[apc].csr)
    BY <1>5, <1>10, SameConstants, SameRegisters
  <2>3. IF M!Writes(prog[apc]) /\ prog[apc].csr \in M!Control
        THEN \E v \in prog[apc].operands :
               Shown(csr') = M!Written(Shown(csr), M!Retired(Shown(csr)), prog[apc].csr,
                               M!NewValue(prog[apc], v,
                                  M!Read(Shown(csr), airq, {}, prog[apc].csr)))
        ELSE Shown(csr') = M!Retired(Shown(csr))
    BY <1>4, <1>7, <1>10, SameConstants, SameOperators, SameRegisters
  <2>4. apc' = M!Plus4(apc) /\ prog' = prog
    BY <1>1, <1>11, SameOperators
  <2> QED
    BY <2>1, <2>2, <2>3, <2>4 DEF M!Access, Shown, apc, airq
<1> QED
  BY <1>12 DEF M!ModeNext

LEMMA TrapMode == ASSUME PrivInv, EnterTrap PROVE M!ModeNext
<1>1. /\ state = "TRAP" /\ csr' = AfterTrap(Counted, pc_q, cause_q, tval_q)
      /\ redirect_pc' = Vector(csr["mtvec"], cause_q) /\ wb' = None
      /\ state' = "REDIRECT" /\ prog' = prog /\ rd' = rd
  BY DEF EnterTrap, Done
<1>2. ~wb.valid /\ ~system_retire
  BY <1>1 DEF system_retire, PrivInv, Pipe
<1>3. Oldest = pc_q /\ Oldest' = Vector(csr["mtvec"], cause_q)
  BY <1>1, <1>2, NoneType DEF Oldest
<1>4. /\ CsrOK(csr) /\ CsrOK(Counted) /\ Shown(Counted) = Shown(csr)
      /\ pc_q \in Address /\ tval_q \in Word
  BY <1>2, CountedOK, ShownCounted DEF PrivInv, Types
<1>5. Shown(csr') = AfterTrap(Shown(csr), Oldest, cause_q, tval_q)
  BY <1>1, <1>3, <1>4, ShownAfterTrap
<1>6. /\ Shown(csr') = M!AfterTrap(Shown(csr), Oldest, cause_q, tval_q)
      /\ Oldest' = M!Vector(Shown(csr)["mtvec"], cause_q)
  <2>1. Shown(csr)["mtvec"] = csr["mtvec"]
    BY ShownFields DEF Shown
  <2> QED
    BY <1>3, <1>5, <2>1, SameOperators, SameRegisters
<1>7. Reason
  BY <1>1 DEF PrivInv, Serial
<1>8. CASE InterruptPending(csr, seen) /\ cause_q = InterruptCause(Enabled(csr, seen))
           /\ tval_q = {}
  <2>1. Shown(csr)["mie"] = csr["mie"] /\ Shown(csr)["mstatus"] = csr["mstatus"]
    BY ShownFields DEF Shown
  <2>2. InterruptPending(Shown(csr), seen) /\ Enabled(Shown(csr), seen) = Enabled(csr, seen)
    BY <1>8, <2>1 DEF InterruptPending, Enabled, MIE
  <2>3. M!Interrupt
    BY <1>1, <1>6, <1>8, <2>2, SameRegisters DEF M!Interrupt, M!Trap, Oldest, Shown
  <2> QED
    BY <2>3 DEF M!ModeNext
<1>9. CASE ~InImem(pc_q) /\ cause_q = FetchFault /\ tval_q = pc_q
  <2>1. M!FetchFails
    BY <1>1, <1>3, <1>6, <1>9, SameConstants, SameOperators
       DEF M!FetchFails, M!Trap, Oldest, Shown
  <2> QED
    BY <2>1 DEF M!ModeNext
<1>10. CASE InImem(pc_q) /\ ReasonOfWord(prog[pc_q])
  <2> DEFINE in == prog[pc_q]
  <2>1. \A ops : in.op \in ops => M!Runs(ops)
    BY <1>3, <1>10, SameOperators DEF M!Runs, Oldest
  <2>2. CASE \/ in.op = "access" /\ cause_q \in AccessCauses
             \/ in.op = "jump" /\ cause_q = Misaligned /\ tval_q \notin Address
    <3>1. Shown(csr')["mcause"] = cause_q /\ Shown(csr')["mtval"] = tval_q
      BY <1>5, ShownFields DEF AfterTrap, Shown
    <3>2. \/ M!Runs({"access"}) /\ cause_q \in M!AccessCauses /\ tval_q \in M!Word
          \/ M!Runs({"jump"}) /\ cause_q = M!Misaligned /\ tval_q \in M!Word \ M!Address
      BY <1>4, <2>1, <2>2, SameConstants
    <3>3. M!Fault
      BY <1>1, <1>6, <3>1, <3>2, SameConstants DEF M!Fault, M!Trap, Oldest, Shown
    <3> QED
      BY <3>3 DEF M!ModeNext
  <2>3. CASE in.op \in SerialOps /\ Raises(in.op) /\ cause_q = Cause(in.op)
             /\ tval_q = Value(in, pc_q)
    <3>1. M!Exception
      BY <1>1, <1>3, <1>6, <2>1, <2>3, SameConstants, SameOperators
         DEF M!Exception, M!Trap, Oldest, Shown
    <3> QED
      BY <3>1 DEF M!ModeNext
  <2>4. CASE in.op \in CsrOps /\ Refused(in) /\ cause_q = Illegal /\ tval_q = in.word
    <3>1. M!Refuse
      BY <1>1, <1>3, <1>6, <2>1, <2>4, SameConstants, SameOperators
         DEF M!Refuse, M!Trap, Oldest, Shown
    <3> QED
      BY <3>1 DEF M!ModeNext
  <2> QED
    BY <1>10, <2>2, <2>3, <2>4 DEF ReasonOfWord
<1> QED
  BY <1>7, <1>8, <1>9, <1>10 DEF Reason

LEMMA ModeInitially == ASSUME PrivInit PROVE M!ModeInit
<1>1. /\ prog \in Programs /\ wb = None /\ mem = None /\ ex = None /\ state = "IDLE"
      /\ idPc = {} /\ csr = [n \in Stored |-> {}] /\ rd = {}
  BY DEF PrivInit
<1>2. Oldest = {}
  BY <1>1, NoneType DEF Oldest
<1>3. Shown(csr) = [n \in Control |-> {}]
  BY <1>1, ShownFields DEF Shown
<1> QED
  BY <1>1, <1>2, <1>3, SameConstants DEF M!ModeInit, Oldest, Shown

(* To software the core executes one instruction after the other: each     *)
(* retires once and is counted once, every trap comes between two of them  *)
(* with mepc at the first that did not retire, and its cause and value are *)
(* those of that instruction or of the pending interrupt of highest        *)
(* priority.  Neither a prediction nor a squashed instruction, a far jump  *)
(* or an interrupt that comes and goes shows in the registers.             *)
THEOREM PrivImplementsMachineMode == PrivSpec => ImplementsMachineMode
<1>1. PrivInit => M!ModeInit
  BY ModeInitially
<1>2. PrivInv /\ [PrivNext]_privVars => [M!ModeNext]_M!modeVars
  <2> SUFFICES ASSUME PrivInv, [PrivNext]_privVars PROVE [M!ModeNext]_M!modeVars
    OBVIOUS
  <2>1. CASE Advance(TRUE) \/ Advance(FALSE)
    BY <2>1, AdvanceMode
  <2>2. CASE Wait \/ ExecuteHold \/ DataFault \/ Reports
    BY <2>2, HeldMode
  <2>3. CASE SlowPath
    <3>1. CASE Enter \/ ExecRefused \/ WakeUp
      BY <3>1, BetweenMode
    <3>2. CASE ExecCsr \/ ExecMret \/ ExecWfi \/ ExecFence
      BY <3>2, AccessMode, MretMode, OtherMode
    <3>3. CASE EnterTrap
      BY <3>3, TrapMode
    <3>4. CASE Redirect
      BY <3>4, RedirectMode
    <3> QED
      BY <2>3, <3>1, <3>2, <3>3, <3>4 DEF SlowPath
  <2>4. CASE Sleep
    BY <2>4, BetweenMode
  <2>5. CASE UNCHANGED privVars
    <3>1. Oldest' = Oldest /\ Shown(csr') = Shown(csr) /\ prog' = prog /\ rd' = rd
      BY <2>5 DEF privVars, pipeline, latched, Oldest
    <3>2. UNCHANGED M!modeVars
      BY <3>1, ModeStutter
    <3> QED
      BY <3>2
  <2> QED
    BY <2>1, <2>2, <2>3, <2>4, <2>5 DEF PrivNext
<1> QED
  BY <1>1, <1>2, PrivInvariant, PTL DEF PrivSpec, ImplementsMachineMode, M!ModeSpec
=============================================================================
