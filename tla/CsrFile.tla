------------------------------ MODULE CsrFile ------------------------------
(***************************************************************************)
(* The machine-mode registers of privileged.v as values: what each reads   *)
(* as, which part of a write it keeps, and what a trap, an mret and a      *)
(* retired instruction do to them.                                         *)
(*                                                                         *)
(* A 32-bit word is the set of its one bits, so that csrrs is a union and  *)
(* csrrc a difference; Bits are the bit positions kept.  Addresses count   *)
(* in the bits from 2 on, counter halves in CounterBits.                   *)
(***************************************************************************)
EXTENDS Integers, FiniteSets

CONSTANTS
  Bits,         (* bit positions of a word                                  *)
  HighBits,     (* those that take an address out of IMEM                   *)
  CounterBits   (* those a counter half consists of                         *)

ASSUME BitsAssumption ==
  /\ Bits \subseteq 0 .. 31 /\ {0, 1, 2, 3, 7, 11, 31} \subseteq Bits
  /\ HighBits \subseteq Bits \ {0, 1}
  /\ CounterBits \subseteq Bits

Word == SUBSET Bits

(* Add one to the digits d of w: a digit flips when all lower ones are     *)
(* one; the other bits stay.                                               *)
Inc(w, d) ==
  (w \ d) \cup {b \in d : (b \in w) # (\A e \in d : e < b => e \in w)}

(* v + w: the carry into a bit started where both have a one.              *)
Carry(v, w) ==
  {b \in Bits : \E g \in v \cap w :
     g < b /\ \A p \in Bits : g < p /\ p < b => p \in v \cup w}
Add(v, w) == {b \in Bits : ((b \in v) # (b \in w)) # (b \in Carry(v, w))}

Address  == SUBSET (Bits \ {0, 1})
InImem(a) == a \cap HighBits = {}
Align(w) == w \ {0, 1}
Plus4(a) == Inc(a, Bits \ {0, 1})

(* Interrupt sources are the bits of mip and mie; external comes before    *)
(* software and software before timer.  Causes are mcause words.           *)
MSI == 3
MTI == 7
MEI == 11
Sources == {MSI, MTI, MEI}
IsInterrupt(cause) == 31 \in cause
InterruptCause(pending) ==
  IF MEI \in pending THEN {31, 0, 1, 3}
  ELSE IF MSI \in pending THEN {31, 0, 1} ELSE {31, 0, 1, 2}

Misaligned == {}
FetchFault == {0}
Illegal    == {1}
Breakpoint == {0, 1}
EnvCall    == {0, 1, 3}
AccessCauses == { {2}, {0, 2}, {1, 2}, {0, 1, 2} }

(* 4 * cause: the n-th bit goes to the n-th digit of an address.           *)
Digits == Bits \ {0, 1}
Times4(cause) == {d \in Digits : Cardinality({e \in Digits : e < d}) \in cause \ {31}}

Vector(tvec, cause) ==
  IF IsInterrupt(cause) /\ 0 \in tvec THEN Add(Align(tvec), Times4(cause))
  ELSE Align(tvec)

(***************************************************************************)
(* The registers.  "warl0" stands for mcounteren, mstatush and the         *)
(* writable performance counters, which read as zero, "ro0" for the        *)
(* identification registers and the performance counters of user mode,     *)
(* "absent" for every other address.                                       *)
(***************************************************************************)
Control  == { "mstatus", "mie", "mtvec", "mcountinhibit", "mscratch", "mepc",
              "mcause", "mtval", "minstret", "minstreth" }
Stored   == Control \cup {"mcycle", "mcycleh"}
ReadOnly == {"cycle", "cycleh", "instret", "instreth", "time", "timeh", "ro0"}
CsrNames == Stored \cup ReadOnly \cup {"mip", "misa", "warl0", "absent"}

Alias == [cycle |-> "mcycle", cycleh |-> "mcycleh", instret |-> "minstret",
          instreth |-> "minstreth"]

Halves == {"mcycle", "mcycleh", "minstret", "minstreth"}

(* Mutant: mtvec keeps its reserved mode bit. *)
KeptMode(n, v) ==
  CASE n = "mstatus"       -> v \cap {MSI, MTI}
    [] n = "mie"           -> v \cap Sources
    [] n = "mcountinhibit" -> v \cap {0, 2}
    [] n = "mepc"          -> Align(v)
    [] n \in Halves        -> v \cap CounterBits
    [] OTHER               -> v

(* What a register keeps of a written word.                                *)
Kept(n, v) ==
  CASE n = "mstatus"       -> v \cap {MSI, MTI}
    [] n = "mie"           -> v \cap Sources
    [] n = "mtvec"         -> Align(v) \cup (IF v \cap {0, 1} = {0} THEN {0} ELSE {})
    [] n = "mcountinhibit" -> v \cap {0, 2}
    [] n = "mepc"          -> Align(v)
    [] n \in Halves        -> v \cap CounterBits
    [] OTHER               -> v

(* What it reads as; time is the counter of mmio.v.                        *)
Read(c, pending, time, n) ==
  CASE n = "mstatus"         -> c[n] \cup ({11, 12} \cap Bits)
    [] n \in Stored \ {"mstatus"} -> c[n]
    [] n \in DOMAIN Alias    -> c[Alias[n]]
    [] n = "mip"             -> pending
    [] n = "misa"            -> {8, 12, 30} \cap Bits
    [] n \in {"time", "timeh"} -> time
    [] OTHER                 -> {}

(* mstatus.MIE and .MPIE are bits 3 and 7.                                 *)
MIE(c) == 3 \in c["mstatus"]
Enabled(c, pending) == c["mie"] \cap pending
InterruptPending(c, pending) == MIE(c) /\ Enabled(c, pending) # {}

AfterTrap(c, pc, cause, tval) ==
  [c EXCEPT !["mstatus"] = IF MIE(c) THEN {7} ELSE {},
            !["mepc"] = Align(pc), !["mcause"] = cause, !["mtval"] = tval]
AfterMret(c) ==
  [c EXCEPT !["mstatus"] = IF 7 \in c["mstatus"] THEN {3, 7} ELSE {7}]

(* A pair of counter halves counts on; a carry goes to the high half.      *)
Bump(c, lo, hi) ==
  [c EXCEPT ![lo] = Inc(c[lo], CounterBits),
            ![hi] = IF c[lo] = CounterBits THEN Inc(c[hi], CounterBits) ELSE c[hi]]
Ticked(c) ==
  IF 0 \in c["mcountinhibit"] THEN c ELSE Bump(c, "mcycle", "mcycleh")
Retired(c) ==
  IF 2 \in c["mcountinhibit"] THEN c ELSE Bump(c, "minstret", "minstreth")

(* Writing one half of a counter stops both halves for that cycle.         *)
Sibling == [mcycle |-> "mcycleh", mcycleh |-> "mcycle",
            minstret |-> "minstreth", minstreth |-> "minstret"]
Written(old, counted, n, v) ==
  IF n \in Halves
  THEN [counted EXCEPT ![n] = Kept(n, v), ![Sibling[n]] = old[Sibling[n]]]
  ELSE [counted EXCEPT ![n] = Kept(n, v)]

(***************************************************************************)
(* Instructions: ordinary ones go down the pipeline, the others take the   *)
(* slow path.  plain: rs1 or the immediate is encoded as zero.             *)
(***************************************************************************)
CsrOps == {"csrrw", "csrrs", "csrrc"}
SerialOps == CsrOps \cup {"mret", "wfi", "fence", "ecall", "ebreak", "illegal"}
PipelineOps == {"alu", "access", "jump"}

(* operands: the values that the immediate or rs1 may have.                *)
Instruction ==
  [op : PipelineOps \cup SerialOps, csr : CsrNames, operands : SUBSET Word,
   plain : BOOLEAN, word : Word]

Writes(in) == in.op = "csrrw" \/ ~in.plain
Refused(in) == in.csr = "absent" \/ (Writes(in) /\ in.csr \in ReadOnly)
NewValue(in, operand, old) ==
  CASE in.op = "csrrw" -> operand
    [] in.op = "csrrs" -> old \cup operand
    [] in.op = "csrrc" -> old \ operand

(* Exceptions of ID: an instruction that cannot be fetched, or that is     *)
(* illegal, an ecall or an ebreak.                                         *)
Raises(op) == op \in {"illegal", "ecall", "ebreak"}
Cause(op) ==
  IF op = "illegal" THEN Illegal
  ELSE IF op = "ebreak" THEN Breakpoint ELSE EnvCall
Value(in, a) ==
  IF in.op = "illegal" THEN in.word
  ELSE IF in.op = "ebreak" THEN a ELSE {}
=============================================================================
