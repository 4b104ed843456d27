-------------------------------- MODULE Fetch --------------------------------
(***************************************************************************)
(* The front end: PC generation (pc.v), the two fetch ports of IMEM        *)
(* (imem.v), the IF/ID register (if_id.v), the prediction redirects        *)
(* (frontend_ctrl.v) and the glue of cpu.v that lets ID take either the    *)
(* IF/ID register (six-stage form) or the IF word itself (five-stage form, *)
(* one bubble shorter after a redirect).                                   *)
(*                                                                         *)
(* Each action is one rising clock edge.  What the back end drives in that *)
(* cycle (stall, hold, flush, a data read that takes IMEM's second port)   *)
(* selects the action and its arguments; what the predictor tables answer  *)
(* is unconstrained, within what frontend_ctrl can make of each word.      *)
(***************************************************************************)
EXTENDS Rv

CONSTANT ImemDataReads   (* may data reads use IMEM's second port?          *)

ASSUME ImemDataReadsAssumption == ImemDataReads \in BOOLEAN

VARIABLES
  imem,        (* the ROM image, fixed from power-up                        *)
  pc,          (* pc.v pc_o: address given to the fetch ports               *)
  preifValid,  (* pc.v preif_valid_o: the second port is to fetch as well   *)
  ifValid,     (* imem.v if_valid_o                                         *)
  ifPc,        (* imem.v if_instr_addr_o                                    *)
  preValid,    (* cpu.v if_pre_valid_q: slot 1 holds an instruction         *)
  preRe,       (* imem.v if_pre_re_r: port-B data belongs to slot 1         *)
  prePc,       (* imem.v if_pre_instr_addr_o                                *)
  killQ,       (* cpu.v frontend_redirect_kill_q                            *)
  killFetch,   (* if_id.v kill_fetch_r                                      *)
  idReg,       (* if_id.v: the IF/ID register                               *)
  sysBusy,     (* privileged.v busy: the slow path owns the pipeline        *)
  expect       (* history: address the next issued instruction must have    *)

fetchVars == << imem, pc, preifValid, ifValid, ifPc, preValid, preRe, prePc,
                killQ, killFetch, idReg, sysBusy, expect >>

Prediction == [taken : BOOLEAN, target : Index]
NotTaken   == [taken |-> FALSE, target |-> 0]

Slot == [valid : BOOLEAN, pc : Address, word : Instruction,
         taken : BOOLEAN, target : Index]
Bubble == [valid |-> FALSE, pc |-> 0, word |-> ZeroWord,
           taken |-> FALSE, target |-> 0]

(***************************************************************************)
(* Wires.                                                                  *)
(***************************************************************************)
IfWord  == IF ifValid THEN imem[Low(ifPc)] ELSE ZeroWord
PreWord == IF preRe THEN imem[Low(prePc)] ELSE ZeroWord

(* frontend_ctrl: jal is always predicted taken, a branch by BHT or sign,  *)
(* a jalr when the RAS or JTB offers a target.                             *)
Predictions(w) ==
  { p \in Prediction :
      IF p.taken
      THEN /\ w.op \in {"jal", "branch", "jalr"}
           /\ w.op # "jalr" => p.target = Low(w.target)
      ELSE p = NotTaken /\ w.op # "jal" }

TakeRecovery == preifValid /\ ~killQ
(* Mutant: always the six-stage form. *)
TakeLiveNever == FALSE

TakeLive     == preValid \/ TakeRecovery

(* An instruction is predicted in IF only in a cycle that moves the front  *)
(* end and is not killed (frontend_issue_ok).                              *)
Effective(p) == IF ~killQ /\ p.taken THEN p ELSE NotTaken

IfSlot(p) ==
  [valid |-> ifValid, pc |-> ifPc, word |-> IfWord,
   taken |-> Effective(p).taken, target |-> Effective(p).target]
PreSlot(p) ==
  [valid |-> TRUE, pc |-> prePc, word |-> PreWord,
   taken |-> p.taken, target |-> p.target]

(* What ID decodes in this cycle.                                          *)
IdSlot(p) == IF TakeLive THEN IfSlot(p) ELSE idReg
IdValid   == IdSlot(NotTaken).valid
IdPc      == IdSlot(NotTaken).pc
IdWord    == IdSlot(NotTaken).word

(* Where the instruction stream goes after an issued instruction.          *)
Follow(s) == IF s.taken THEN s.target ELSE Plus4(s.pc)

Slot0Redirect(p0) == Effective(p0).taken
Slot1Redirect(p1) == preValid /\ Effective(p1).taken
Redirects(p0, p1) == Slot0Redirect(p0) \/ Slot1Redirect(p1)

(* The IF/ID register of an advancing cycle.  Slot 1 is dropped when slot 0 *)
(* jumps.  In the recovery form slot 1 is empty and the register simply    *)
(* copies IF.                                                              *)
(* Mutant: slot 1 goes to ID although slot 0 jumps. *)
DropBufferNever(p0) == FALSE

DropBuffer(p0) == preValid /\ Slot0Redirect(p0)
NextIdReg(p0, p1) ==
  IF DropBuffer(p0) \/ killQ \/ killFetch THEN Bubble
  ELSE IF preValid THEN PreSlot(p1)
  ELSE IfSlot(p0)

(* Mutant: the address fetched by the second port is not skipped. *)
NextPcNoSkip(p0, p1, fire) ==
  IF Slot0Redirect(p0) THEN Effective(p0).target
  ELSE IF Slot1Redirect(p1) THEN Effective(p1).target
  ELSE Plus4(pc)

(* pc.v: the address register and the second-port request.                 *)
NextPc(p0, p1, fire) ==
  IF Slot0Redirect(p0) THEN Effective(p0).target
  ELSE IF Slot1Redirect(p1) THEN Effective(p1).target
  ELSE IF fire THEN Plus8(pc) ELSE Plus4(pc)

(***************************************************************************)
(* Clock edges.                                                            *)
(***************************************************************************)

(* No stall, hold or flush: ID issues and every stage moves.               *)
Advance(busRe, p0, p1) ==
  LET fire == preifValid /\ ~busRe
      go   == Redirects(p0, p1)
  IN
  /\ ~sysBusy
  /\ p0 \in Predictions(IfWord)
  /\ p1 \in Predictions(PreWord)
  /\ pc' = NextPc(p0, p1, fire)
  /\ preifValid' = (go \/ (preifValid /\ ~fire))
  /\ ifValid' = TRUE
  /\ ifPc' = pc
  /\ preRe' = fire
  /\ prePc' = IF fire THEN Plus4(pc) ELSE prePc
  /\ preValid' = (fire /\ ~go)
  /\ killQ' = go
  /\ killFetch' = FALSE
  /\ idReg' = NextIdReg(p0, p1)
  /\ expect' = IF IdValid THEN Follow(IdSlot(p0)) ELSE expect
  /\ UNCHANGED << imem, sysBusy >>

(* pipeline_block without a flush.  Everything keeps its value, except     *)
(* that a data read takes port B and with it slot 1's word.                *)
Blocked(busRe) ==
  /\ preRe' = (preRe /\ ~busRe)
  /\ UNCHANGED << imem, pc, preifValid, ifValid, ifPc, preValid, prePc, killQ,
                  killFetch, idReg, expect >>

Stall(busRe) == ~sysBusy /\ Blocked(busRe) /\ UNCHANGED sysBusy

(* The instruction in ID is serial or an interrupt is taken: privileged.v  *)
(* leaves IDLE and holds the pipeline until it redirects.                  *)
EnterSystem == ~sysBusy /\ Blocked(FALSE) /\ sysBusy' = TRUE
Drain       == sysBusy /\ Blocked(FALSE) /\ UNCHANGED sysBusy

(* What every flush does, whether or not the pipeline was blocked.         *)
Flushed(blocked) ==
  /\ ifValid' = (ifValid \/ ~blocked)
  /\ ifPc' = IF blocked THEN ifPc ELSE pc
  /\ preRe' = (preRe /\ blocked)
  /\ preValid' = FALSE
  /\ killQ' = TRUE
  /\ killFetch' = TRUE
  /\ idReg' = Bubble
  /\ UNCHANGED << imem, prePc >>

(* A resolved misprediction forces the PC even when the pipeline is held.  *)
Mispredict(t, blocked) ==
  /\ ~sysBusy
  /\ t \in Index
  /\ Flushed(blocked)
  /\ pc' = t
  /\ preifValid' = TRUE
  /\ expect' = t
  /\ UNCHANGED sysBusy

(* A memory fault or a jump out of IMEM flushes at once; the redirect      *)
(* follows from the privileged state machine.  Only the unheld case moves  *)
(* the PC, along a path that is already dead.                              *)
Squash(blocked, p0, p1) ==
  /\ ~sysBusy
  /\ p0 \in Predictions(IfWord)
  /\ p1 \in Predictions(PreWord)
  /\ Flushed(blocked)
  /\ pc' = IF blocked THEN pc ELSE NextPc(p0, p1, preifValid)
  /\ preifValid' = IF blocked THEN preifValid ELSE Redirects(p0, p1)
  /\ sysBusy' = TRUE
  /\ UNCHANGED expect

(* privileged.v state REDIRECT.                                            *)
SystemRedirect(t) ==
  /\ sysBusy
  /\ t \in Address
  /\ Flushed(TRUE)
  /\ pc' = t
  /\ preifValid' = TRUE
  /\ sysBusy' = FALSE
  /\ expect' = t

(***************************************************************************)
(* The front end under any back end.                                       *)
(***************************************************************************)
FetchInit ==
  /\ imem \in Programs
  /\ pc = 0
  /\ preifValid = TRUE
  /\ ifValid = FALSE
  /\ ifPc = 0
  /\ preValid = FALSE
  /\ preRe = FALSE
  /\ prePc = 0
  /\ killQ = FALSE
  /\ killFetch = FALSE
  /\ idReg = Bubble
  /\ sysBusy = FALSE
  /\ expect = 0

PortB == {FALSE, ImemDataReads}

Issue ==
  \E busRe \in PortB, p0 \in Predictions(IfWord), p1 \in Predictions(PreWord) :
    Advance(busRe, p0, p1)

FetchNext ==
  \/ Issue
  \/ \E busRe \in PortB : Stall(busRe)
  \/ EnterSystem
  \/ Drain
  \/ \E t \in Index, blocked \in BOOLEAN : Mispredict(t, blocked)
  \/ \E blocked \in BOOLEAN, p0 \in Predictions(IfWord),
        p1 \in Predictions(PreWord) : Squash(blocked, p0, p1)
  \/ \E t \in Address : SystemRedirect(t)

FetchSpec == FetchInit /\ [][FetchNext]_fetchVars

(***************************************************************************)
(* Properties.                                                             *)
(***************************************************************************)

(* Types of the front-end registers of pc.v, imem.v, if_id.v and cpu.v.    *)
FetchTypeOK ==
  /\ imem \in [Index -> Instruction]
  /\ pc \in Address
  /\ preifValid \in BOOLEAN
  /\ ifValid \in BOOLEAN
  /\ ifPc \in Address
  /\ preValid \in BOOLEAN
  /\ preRe \in BOOLEAN
  /\ prePc \in Address
  /\ killQ \in BOOLEAN
  /\ killFetch \in BOOLEAN
  /\ idReg \in Slot
  /\ sysBusy \in BOOLEAN
  /\ expect \in Address

(* Whatever ID decodes as a valid instruction is the next one of the       *)
(* predicted path, with the word IMEM holds at its address: through every  *)
(* switch between the five-stage and the six-stage form no instruction is  *)
(* skipped, issued twice, fetched from a killed slot, or replaced.         *)
IdOnPath ==
  IdValid /\ ~sysBusy => IdPc = expect /\ IdWord = imem[Low(expect)]

(***************************************************************************)
(* The four states the front end can be in while the slow path is idle,    *)
(* when no data read disturbs port B.                                      *)
(***************************************************************************)
Holds(slot, a) == slot.valid /\ slot.pc = a /\ slot.word = imem[Low(a)]

(* After reset: nothing fetched yet.                                       *)
Booting ==
  /\ ~ifValid /\ ~preValid /\ ~killQ /\ preifValid /\ ~idReg.valid
  /\ pc = expect

(* After a redirect: IF is dead; the register is empty or holds the        *)
(* predicted-taken slot-1 instruction that caused the redirect.            *)
Redirected ==
  /\ killQ /\ ~preValid /\ preifValid
  /\ IF idReg.valid
     THEN Holds(idReg, expect) /\ idReg.taken /\ idReg.target = pc
     ELSE pc = expect

(* Five-stage form: IF is live in ID and slot 1 holds its successor.       *)
Paired ==
  /\ ~killQ /\ preValid /\ ~preifValid /\ ifValid /\ preRe
  /\ ifPc = expect /\ prePc = Plus4(ifPc) /\ pc = Plus8(ifPc)

(* Six-stage form: the register is in ID and IF holds its successor.       *)
Sequential ==
  /\ ~killQ /\ ~preValid /\ ~preifValid /\ ifValid
  /\ Holds(idReg, expect) /\ ~idReg.taken
  /\ ifPc = Plus4(expect) /\ pc = Plus4(ifPc)

(* The inductive strengthening of IdOnPath: the front end is always in one *)
(* of the four states, and a fetch is killed only after a redirect.        *)
FetchInv ==
  /\ FetchTypeOK
  /\ killFetch => killQ
  /\ ~sysBusy => Booting \/ Redirected \/ Paired \/ Sequential

(* A redirect costs one bubble: the five-stage form makes sure that the    *)
(* cycle after an advancing cycle without an instruction in ID has one.    *)
OneBubbleRecovery ==
  [][Issue /\ ~IdValid => IdValid']_fetchVars
=============================================================================
