--------------------------------- MODULE Ras ---------------------------------
(***************************************************************************)
(* The return address stack of the branch predictor (ras.v): a ring of     *)
(* Depth entries with its two newest ones cached in registers, updated by  *)
(* the calls and returns that EX resolves, and read by both fetch slots.   *)
(***************************************************************************)
EXTENDS Integers

CONSTANTS
  Depth,    (* RAS_DEPTH, a power of two; 8 as configured                   *)
  Link      (* return addresses: low address of a call plus four            *)

(* With fewer entries ras.v:59's 3'd3 is wider than the pointer, and the   *)
(* index does not come around with it.                                     *)
ASSUME DepthAssumption == Depth \in Nat /\ Depth >= 8
ASSUME LinkAssumption == 0 \in Link

VARIABLES
  stack,    (* ras_stack: not reset                                         *)
  sp,       (* ras_sp: the entry the next call writes                       *)
  count,    (* ras_count                                                    *)
  top,      (* ras_top_target_q                                             *)
  next      (* ras_next_target_q                                            *)

rasVars == << stack, sp, count, top, next >>

(* The ring index of the i-th newest entry, ras_sp - i.                    *)
Entry(i) == IF i <= sp THEN sp - i ELSE sp + Depth - i

Valid == count # 0

(* Mutant: the ring is read one entry too near. *)
ReturnNear ==
  /\ Valid
  /\ sp' = Entry(1)
  /\ count' = count - 1
  /\ top' = IF count > 1 THEN next ELSE 0
  /\ next' = IF count > 2 THEN stack[Entry(2)] ELSE 0
  /\ UNCHANGED stack

(* A resolved return: the second cached entry moves up and the third       *)
(* newest is read from the ring to replace it.                             *)
Return ==
  /\ Valid
  /\ sp' = Entry(1)
  /\ count' = count - 1
  /\ top' = IF count > 1 THEN next ELSE 0
  /\ next' = IF count > 2 THEN stack[Entry(3)] ELSE 0
  /\ UNCHANGED stack

(* Mutant: a full ring keeps counting from empty. *)
CallWraps(v) ==
  /\ stack' = [stack EXCEPT ![sp] = v]
  /\ sp' = IF sp = Depth - 1 THEN 0 ELSE sp + 1
  /\ count' = (count + 1) % (Depth + 1)
  /\ next' = IF Valid THEN top ELSE 0
  /\ top' = v

(* A resolved call; a full ring overwrites its oldest entry.               *)
Call(v) ==
  /\ stack' = [stack EXCEPT ![sp] = v]
  /\ sp' = IF sp = Depth - 1 THEN 0 ELSE sp + 1
  /\ count' = IF count # Depth THEN count + 1 ELSE count
  /\ next' = IF Valid THEN top ELSE 0
  /\ top' = v

(* What slot 0 holds: a linking jal, a linking jalr, a return or something *)
(* that does not concern the stack; hit is the answer of the jump target   *)
(* buffer.                                                                 *)
Slots0 == [kind : {"other", "jal", "jalr", "return"}, hit : BOOLEAN]
Calls == {"jal", "jalr"}

(* slot0_jump_pred_base: a jal is always predicted, a jalr if the buffer   *)
(* knows its target, a return if the stack is not empty.                   *)
JumpPredicted(s0) ==
  \/ s0.kind = "jal"
  \/ s0.kind = "jalr" /\ s0.hit
  \/ s0.kind = "return" /\ Valid

(* Mutant: slot 1 is told that an emptied stack still has an entry. *)
ShadowValidStale(s0) == (JumpPredicted(s0) /\ s0.kind \in Calls) \/ Valid

(* What slot 1 is told of the stack: its entries with a predicted call to  *)
(* be returned to at v, or without the one a predicted return takes, and   *)
(* the stack as it is in all other cases.                                  *)
ShadowValid(s0) ==
  IF JumpPredicted(s0) /\ s0.kind = "return" THEN count > 1
  ELSE (JumpPredicted(s0) /\ s0.kind \in Calls) \/ Valid
ShadowTop(s0, v) ==
  IF ~JumpPredicted(s0) THEN top
  ELSE IF s0.kind \in Calls THEN v
  ELSE IF s0.kind = "return" THEN next ELSE top

RasInit ==
  /\ stack \in [0 .. Depth - 1 -> Link]
  /\ sp = 0 /\ count = 0 /\ top = 0 /\ next = 0

RasNext == Return \/ \E v \in Link : Call(v)
RasSpec == RasInit /\ [][RasNext]_rasVars

(***************************************************************************)
(* Properties.                                                             *)
(***************************************************************************)

(* Types of the registers of ras.v; the counter stops at Depth.            *)
RasTypeOK ==
  /\ stack \in [0 .. Depth - 1 -> Link]
  /\ sp \in 0 .. Depth - 1
  /\ count \in 0 .. Depth
  /\ top \in Link
  /\ next \in Link

(* The two cached entries are those of the ring, also after the ring has   *)
(* wrapped, overwritten its oldest entry, or been emptied and refilled.    *)
CachesMatchRing ==
  /\ count > 0 => top = stack[Entry(1)]
  /\ count > 1 => next = stack[Entry(2)]

(* The inductive invariant; the refinement needs nothing else.             *)
RasInv == RasTypeOK /\ CachesMatchRing

(* The ring behaves as a stack that forgets its oldest frame.              *)
S == INSTANCE ReturnStack WITH
       size <- count, frames <- [i \in 1 .. count |-> stack[Entry(i)]]
ImplementsStack == S!StackSpec

(* What slot 1 is told in a cycle is what the stack says after it.         *)
ToldAhead(s0, v) ==
  /\ ShadowValid(s0) = Valid'
  /\ Valid' => ShadowTop(s0, v) = top'

(* What slot 1 is told while slot 0 holds a call or a return that is       *)
(* predicted is what the stack itself says once it has been resolved.      *)
(* A linking jalr that the jump target buffer does not know is not         *)
(* predicted: slot 1 is then told the stack without that call.             *)
ShadowAhead ==
  [][\A s0 \in Slots0 : JumpPredicted(s0) =>
       /\ s0.kind = "return" /\ Return => ToldAhead(s0, 0)
       /\ \A v \in Link : s0.kind \in Calls /\ Call(v) => ToldAhead(s0, v)
    ]_rasVars
=============================================================================
