----------------------------- MODULE FetchProofs -----------------------------
(***************************************************************************)
(* What the front end guarantees for every IMEM size, every program and    *)
(* every behaviour of the back end; beyond its types, as long as no data   *)
(* read takes the second fetch port.                                       *)
(***************************************************************************)
EXTENDS Fetch, TLAPS

(***************************************************************************)
(* Addresses.                                                              *)
(***************************************************************************)

(* Address arithmetic stays inside the address space, and the low part of  *)
(* an address indexes IMEM.                                                *)
LEMMA AddressArithmetic ==
  ASSUME NEW a \in Address
  PROVE  /\ Plus4(a) \in Address
         /\ Plus8(a) \in Address
         /\ Low(a) \in Index
BY WordsAssumption DEF Plus4, Plus8, Low, Address, Index, Space

(* Every redirect target, which carries low address bits only, is an       *)
(* address, and so is the reset PC.                                        *)
LEMMA IndexInAddress == Index \subseteq Address /\ 0 \in Index /\ 0 \in Address
BY WordsAssumption DEF Index, Address, Space

(* The word substituted for a fetch that was lost is an instruction.       *)
LEMMA ZeroWordType == ZeroWord \in Instruction
BY RegsAssumption, IndexInAddress DEF ZeroWord, Instruction, Ops

(* frontend_ctrl only ever predicts jumps to an IMEM index.                *)
LEMMA PredictionsType ==
  ASSUME NEW w \in Instruction
  PROVE  Predictions(w) \subseteq Prediction
BY DEF Predictions

(* The words in IF and in slot 1 are instructions.                         *)
LEMMA WordTypes ==
  ASSUME FetchTypeOK
  PROVE  IfWord \in Instruction /\ PreWord \in Instruction
BY AddressArithmetic, ZeroWordType DEF FetchTypeOK, IfWord, PreWord

(* A prediction that takes effect is one.                                  *)
LEMMA EffectiveType ==
  ASSUME NEW p \in Prediction
  PROVE  /\ Effective(p) \in Prediction
         /\ Effective(p).taken \in BOOLEAN
         /\ Effective(p).target \in Index
BY IndexInAddress DEF Effective, Prediction, NotTaken

(* The slots that can be handed to the IF/ID register are well formed.     *)
LEMMA SlotTypes ==
  ASSUME FetchTypeOK, NEW p \in Prediction
  PROVE  /\ IfSlot(p) \in Slot
         /\ PreSlot(p) \in Slot
         /\ IdSlot(p) \in Slot
         /\ Bubble \in Slot
<1>1. IfSlot(p) \in Slot
  BY WordTypes, EffectiveType DEF FetchTypeOK, IfSlot, Slot
<1>2. PreSlot(p) \in Slot
  BY WordTypes DEF FetchTypeOK, PreSlot, Slot, Prediction
<1>3. Bubble \in Slot
  BY ZeroWordType, IndexInAddress DEF Bubble, Slot
<1> QED
  BY <1>1, <1>2, <1>3 DEF IdSlot, FetchTypeOK

(* The PC chosen by an advancing front end is an address.                  *)
LEMMA NextPcType ==
  ASSUME FetchTypeOK, NEW p0 \in Prediction, NEW p1 \in Prediction,
         NEW fire \in BOOLEAN
  PROVE  NextPc(p0, p1, fire) \in Address
BY EffectiveType, IndexInAddress, AddressArithmetic DEF NextPc, FetchTypeOK

(* The path continues at an address.                                       *)
LEMMA FollowType ==
  ASSUME NEW s \in Slot
  PROVE  Follow(s) \in Address
BY IndexInAddress, AddressArithmetic DEF Follow, Slot
(***************************************************************************)
(* The inductive invariant.                                                *)
(***************************************************************************)

(* After reset the front end is in its booting state.                      *)
LEMMA FetchInitInv == FetchInit => FetchInv
<1> SUFFICES ASSUME FetchInit PROVE FetchInv
  OBVIOUS
<1>1. Bubble \in Slot
  BY ZeroWordType, IndexInAddress DEF Bubble, Slot
<1>2. FetchTypeOK
  BY <1>1, ProgramsAssumption, IndexInAddress DEF FetchInit, FetchTypeOK
<1>3. Booting
  BY DEF FetchInit, Booting, Bubble
<1> QED
  BY <1>2, <1>3 DEF FetchInit, FetchInv

(* An advancing front end keeps its types, with or without a data read.    *)
LEMMA AdvanceType ==
  ASSUME FetchTypeOK, NEW busRe \in BOOLEAN, NEW p0, NEW p1,
         Advance(busRe, p0, p1)
  PROVE  FetchTypeOK'
<1> DEFINE fire == preifValid /\ ~busRe
<1>1. p0 \in Prediction /\ p1 \in Prediction
  BY WordTypes, PredictionsType DEF Advance
<1>2. /\ IfSlot(p0) \in Slot /\ PreSlot(p1) \in Slot
      /\ IdSlot(p0) \in Slot /\ Bubble \in Slot
  BY <1>1, SlotTypes
<1>3. idReg' \in Slot
  BY <1>2 DEF Advance, NextIdReg
<1>4. fire \in BOOLEAN
  BY DEF FetchTypeOK
<1>5. pc' = NextPc(p0, p1, fire)
  BY DEF Advance
<1>6. pc' \in Address
  BY <1>1, <1>4, <1>5, NextPcType
<1>7. expect' \in Address
  BY <1>2, FollowType DEF Advance, FetchTypeOK
<1>8. prePc' \in Address
  BY AddressArithmetic DEF Advance, FetchTypeOK
<1>9. killQ' \in BOOLEAN /\ preValid' \in BOOLEAN /\ preifValid' \in BOOLEAN
  BY <1>1, EffectiveType
     DEF Advance, FetchTypeOK, Redirects, Slot0Redirect, Slot1Redirect
<1> QED
  BY <1>3, <1>6, <1>7, <1>8, <1>9 DEF Advance, FetchTypeOK

(* So does one that is held.                                               *)
LEMMA BlockedType ==
  ASSUME FetchTypeOK, NEW busRe \in BOOLEAN, Blocked(busRe),
         sysBusy' \in BOOLEAN
  PROVE  FetchTypeOK'
BY DEF FetchTypeOK, Blocked

(* A flush empties the front end and keeps the types.                      *)
LEMMA FlushedType ==
  ASSUME FetchTypeOK, NEW blocked \in BOOLEAN, Flushed(blocked),
         pc' \in Address, preifValid' \in BOOLEAN, sysBusy' \in BOOLEAN,
         expect' \in Address
  PROVE  FetchTypeOK'
<1>1. Bubble \in Slot
  BY ZeroWordType, IndexInAddress DEF Bubble, Slot
<1> QED
  BY <1>1 DEF Flushed, FetchTypeOK

(* A resolved misprediction keeps the types.                               *)
LEMMA MispredictType ==
  ASSUME FetchTypeOK, NEW t, NEW blocked \in BOOLEAN, Mispredict(t, blocked)
  PROVE  FetchTypeOK'
BY FlushedType, IndexInAddress DEF Mispredict, FetchTypeOK

(* So does the flush of a memory fault or of a jump out of IMEM.           *)
LEMMA SquashType ==
  ASSUME FetchTypeOK, NEW blocked \in BOOLEAN, NEW p0, NEW p1,
         Squash(blocked, p0, p1)
  PROVE  FetchTypeOK'
<1>1. p0 \in Prediction /\ p1 \in Prediction
  BY WordTypes, PredictionsType DEF Squash
<1>2. pc' \in Address
  BY <1>1, NextPcType DEF Squash, FetchTypeOK
<1>3. preifValid' \in BOOLEAN
  BY <1>1, EffectiveType
     DEF Squash, FetchTypeOK, Redirects, Slot0Redirect, Slot1Redirect
<1> QED
  BY <1>2, <1>3, FlushedType DEF Squash, FetchTypeOK

(* So does the restart after the slow path.                                *)
LEMMA SystemRedirectType ==
  ASSUME FetchTypeOK, NEW t, SystemRedirect(t)
  PROVE  FetchTypeOK'
BY FlushedType DEF SystemRedirect, FetchTypeOK

(* A flush that comes with its target leaves the redirected state behind.  *)
LEMMA FlushedRedirected ==
  ASSUME NEW blocked \in BOOLEAN, Flushed(blocked), preifValid' = TRUE,
         pc' = expect'
  PROVE  Redirected'
BY DEF Flushed, Redirected, Bubble

(* Advancing out of each of the four states ends in one of them.           *)
LEMMA AdvanceInv ==
  ASSUME FetchInv, NEW p0, NEW p1, Advance(FALSE, p0, p1)
  PROVE  FetchInv'
<1> DEFINE fire == preifValid /\ ~FALSE
           go == Redirects(p0, p1)
<1>1. FetchTypeOK /\ ~sysBusy
  BY DEF FetchInv, Advance
<1>2. p0 \in Prediction /\ p1 \in Prediction
  BY <1>1, WordTypes, PredictionsType DEF Advance
<1>3. /\ IfSlot(p0) \in Slot /\ PreSlot(p1) \in Slot
      /\ IdSlot(p0) \in Slot /\ Bubble \in Slot
  BY <1>1, <1>2, SlotTypes
<1>4. FetchTypeOK'
  BY <1>1, AdvanceType
<1>10. /\ killQ' = go
       /\ preValid' = (preifValid /\ ~go)
       /\ preifValid' = go
       /\ preRe' = preifValid
       /\ ifValid' = TRUE
       /\ ifPc' = pc
       /\ killFetch' = FALSE
       /\ imem' = imem
       /\ go \in BOOLEAN
  BY <1>1, <1>2, EffectiveType
     DEF Advance, FetchTypeOK, Redirects, Slot0Redirect, Slot1Redirect
<1>5. Booting \/ Redirected \/ Paired \/ Sequential
  BY <1>1 DEF FetchInv
<1>6. CASE Booting
  <2>1. p0 = NotTaken
    BY <1>6 DEF Advance, Booting, IfWord, ZeroWord, Predictions
  <2>2. ~go /\ Effective(p0) = NotTaken
    BY <2>1, <1>6 DEF Booting, Redirects, Slot0Redirect, Slot1Redirect,
                      Effective, NotTaken
  <2>3. Paired'
    <3>1. ~IdValid
      BY <1>6 DEF Booting, IdValid, IdSlot, IfSlot
    <3>2. pc' = Plus8(pc) /\ prePc' = Plus4(pc) /\ expect' = expect
      BY <1>6, <2>2, <3>1
         DEF Advance, Booting, NextPc, Redirects, Slot0Redirect, Slot1Redirect
    <3> QED
      BY <1>10, <1>6, <2>2, <3>2 DEF Paired, Booting
  <2> QED
    BY <1>4, <2>3 DEF FetchInv, Advance
<1>7. CASE Redirected
  <2>1. ~go /\ Effective(p0) = NotTaken
    BY <1>7 DEF Redirected, Redirects, Slot0Redirect, Slot1Redirect,
                Effective, NotTaken
  <2>2. IdSlot(p0) = idReg /\ IdSlot(NotTaken) = idReg
    BY <1>7 DEF Redirected, IdSlot, TakeLive, TakeRecovery
  <2>3. expect' = pc
    BY <1>7, <2>2 DEF Redirected, Advance, IdValid, Follow
  <2>4. Paired'
    <3>1. pc' = Plus8(pc) /\ prePc' = Plus4(pc)
      BY <1>7, <2>1
         DEF Advance, Redirected, NextPc, Redirects, Slot0Redirect, Slot1Redirect
    <3> QED
      BY <1>10, <1>7, <2>1, <2>3, <3>1 DEF Paired, Redirected
  <2> QED
    BY <1>4, <2>4 DEF FetchInv, Advance
<1>8. CASE Paired
  <2>1. IdSlot(p0) = IfSlot(p0) /\ IdValid
    BY <1>8 DEF Paired, IdSlot, TakeLive, IfSlot, IdValid
  <2>2. expect' = Follow(IfSlot(p0))
    BY <2>1 DEF Advance
  <2>3. CASE Effective(p0).taken
    <3>1. go /\ Slot0Redirect(p0)
      BY <2>3 DEF Redirects, Slot0Redirect
    <3>2. pc' = Effective(p0).target /\ expect' = Effective(p0).target
      BY <2>2, <2>3, <3>1 DEF Advance, NextPc, Follow, IfSlot
    <3>3. idReg' = Bubble
      BY <1>8, <3>1 DEF Advance, NextIdReg, DropBuffer, Paired
    <3>4. Redirected'
      BY <1>10, <1>8, <3>1, <3>2, <3>3 DEF Redirected, Bubble, Paired
    <3> QED
      BY <1>4, <3>4 DEF FetchInv, Advance
  <2>4. CASE ~Effective(p0).taken
    <3>1. expect' = Plus4(ifPc) /\ prePc = expect'
      BY <1>8, <2>2, <2>4 DEF Follow, IfSlot, Paired
    <3>2. idReg' = PreSlot(p1)
      BY <1>8, <2>4 DEF Advance, NextIdReg, DropBuffer, Slot0Redirect, Paired,
                        FetchInv
    <3>3. Holds(idReg, expect)'
      BY <1>8, <3>1, <3>2
         DEF Holds, PreSlot, PreWord, Paired, Advance
    <3>4. CASE p1.taken
      <4>1. go /\ pc' = p1.target
        BY <1>8, <2>4, <3>4 DEF Advance, Redirects, Slot0Redirect,
             Slot1Redirect, NextPc, Effective, Paired
      <4>2. Redirected'
        BY <1>10, <3>2, <3>3, <3>4, <4>1 DEF Redirected, PreSlot
      <4> QED
        BY <1>4, <4>2 DEF FetchInv, Advance
    <3>5. CASE ~p1.taken
      <4>1. ~go
        BY <2>4, <3>5 DEF Redirects, Slot0Redirect, Slot1Redirect, Effective,
                          NotTaken
      <4>2. pc' = Plus4(pc) /\ ifPc' = pc /\ pc = Plus4(Plus4(ifPc))
        BY <1>8, <2>4, <3>5, <4>1 DEF Advance, NextPc, Redirects,
             Paired, Plus8
      <4>3. Sequential'
        BY <1>10, <1>8, <3>1, <3>2, <3>3, <3>5, <4>1, <4>2
           DEF Sequential, PreSlot, Paired
      <4> QED
        BY <1>4, <4>3 DEF FetchInv, Advance
    <3> QED
      BY <3>4, <3>5, <1>2 DEF Prediction
  <2> QED
    BY <2>3, <2>4
<1>9. CASE Sequential
  <2>1. IdSlot(p0) = idReg /\ IdSlot(NotTaken) = idReg
    BY <1>9 DEF Sequential, IdSlot, TakeLive, TakeRecovery
  <2>2. expect' = Plus4(expect) /\ ifPc = expect'
    BY <1>9, <2>1 DEF Sequential, Advance, IdValid, Follow, Holds
  <2>3. idReg' = IfSlot(p0)
    BY <1>9 DEF Sequential, Advance, NextIdReg, DropBuffer, FetchInv
  <2>4. Holds(idReg, expect)'
    BY <1>9, <2>2, <2>3 DEF Holds, IfSlot, IfWord, Sequential, Advance
  <2>5. CASE Effective(p0).taken
    <3>1. go /\ pc' = Effective(p0).target
      BY <2>5 DEF Advance, Redirects, Slot0Redirect, NextPc
    <3>2. Redirected'
      <4>1. idReg'.taken /\ idReg'.target = pc'
        BY <2>3, <2>5, <3>1 DEF IfSlot
      <4>2. killQ' /\ ~preValid' /\ preifValid'
        <5>1. go = TRUE
          BY <1>10, <3>1
        <5> QED
          BY <1>10, <5>1
      <4> QED
        BY <2>4, <4>1, <4>2 DEF Redirected, Holds
    <3> QED
      BY <1>4, <3>2 DEF FetchInv, Advance
  <2>6. CASE ~Effective(p0).taken
    <3>1. ~go
      BY <1>9, <2>6 DEF Redirects, Slot0Redirect, Slot1Redirect, Sequential
    <3>2. pc' = Plus4(pc) /\ ifPc' = pc /\ pc = Plus4(expect')
      BY <1>9, <2>2, <3>1 DEF Advance, NextPc, Redirects, Sequential
    <3>3. Sequential'
      BY <1>10, <1>9, <2>2, <2>3, <2>4, <2>6, <3>1, <3>2
         DEF Sequential, IfSlot
    <3> QED
      BY <1>4, <3>3 DEF FetchInv, Advance
  <2> QED
    BY <2>5, <2>6
<1> QED
  BY <1>5, <1>6, <1>7, <1>8, <1>9

(* A blocked front end only loses slot 1's word, and only to a data read.  *)
LEMMA BlockedInv ==
  ASSUME FetchInv, Blocked(FALSE), sysBusy' \in BOOLEAN, sysBusy \/ ~sysBusy,
         ~sysBusy' => ~sysBusy
  PROVE  FetchInv'
<1>1. FetchTypeOK'
  BY DEF FetchInv, FetchTypeOK, Blocked
<1>2. preRe' = preRe
  BY DEF FetchInv, FetchTypeOK, Blocked
<1>3. (Booting \/ Redirected \/ Paired \/ Sequential)
        => (Booting \/ Redirected \/ Paired \/ Sequential)'
  BY <1>2 DEF Blocked, Booting, Redirected, Paired, Sequential, Holds
<1> QED
  BY <1>1, <1>3 DEF FetchInv, Blocked

(***************************************************************************)
(* The theorems.                                                           *)
(***************************************************************************)

(* Every clock edge of the front end keeps the invariant.                  *)
LEMMA FetchStepInv ==
  ASSUME ImemDataReads = FALSE, FetchInv, [FetchNext]_fetchVars
  PROVE  FetchInv'
<1>1. FetchTypeOK
  BY DEF FetchInv
<1>2. ASSUME NEW busRe \in PortB, NEW p0, NEW p1, Advance(busRe, p0, p1)
      PROVE  FetchInv'
  <2>1. busRe = FALSE
    BY <1>2 DEF PortB
  <2> QED
    BY <1>2, <2>1, AdvanceInv
<1>3. ASSUME NEW busRe \in PortB, Stall(busRe)
      PROVE  FetchInv'
  <2>1. busRe = FALSE
    BY <1>3 DEF PortB
  <2> QED
    BY <1>1, <1>3, <2>1, BlockedInv DEF Stall, FetchTypeOK
<1>4. CASE EnterSystem
  BY <1>1, <1>4, BlockedInv DEF EnterSystem, FetchTypeOK
<1>5. CASE Drain
  BY <1>1, <1>5, BlockedInv DEF Drain, FetchTypeOK
<1>6. ASSUME NEW t \in Index, NEW blocked \in BOOLEAN, Mispredict(t, blocked)
      PROVE  FetchInv'
  <2>1. FetchTypeOK'
    BY <1>1, <1>6, MispredictType
  <2>2. Redirected'
    BY <1>6, FlushedRedirected DEF Mispredict
  <2> QED
    BY <1>6, <2>1, <2>2 DEF FetchInv, Mispredict, Flushed
<1>7. ASSUME NEW blocked \in BOOLEAN, NEW p0 \in Predictions(IfWord),
             NEW p1 \in Predictions(PreWord), Squash(blocked, p0, p1)
      PROVE  FetchInv'
  <2>1. FetchTypeOK'
    BY <1>1, <1>7, SquashType
  <2> QED
    BY <1>7, <2>1 DEF FetchInv, Squash, Flushed
<1>8. ASSUME NEW t \in Address, SystemRedirect(t)
      PROVE  FetchInv'
  <2>1. FetchTypeOK'
    BY <1>1, <1>8, SystemRedirectType
  <2>2. Redirected'
    BY <1>8, FlushedRedirected DEF SystemRedirect
  <2> QED
    BY <1>8, <2>1, <2>2 DEF FetchInv, SystemRedirect, Flushed
<1>9. CASE UNCHANGED fetchVars
  BY <1>9 DEF fetchVars, FetchInv, FetchTypeOK, Booting, Redirected, Paired,
              Sequential, Holds
<1> QED
  BY <1>2, <1>3, <1>4, <1>5, <1>6, <1>7, <1>8, <1>9 DEF FetchNext, Issue

(* The invariant implies that ID sees the predicted path.                  *)
LEMMA InvImpliesOnPath == FetchInv => IdOnPath
<1> SUFFICES ASSUME FetchInv, IdValid, ~sysBusy
             PROVE  IdPc = expect /\ IdWord = imem[Low(expect)]
  BY DEF IdOnPath
<1>1. CASE Booting
  BY <1>1 DEF Booting, IdValid, IdSlot, IfSlot
<1>2. CASE Redirected
  BY <1>2 DEF Redirected, Holds, IdValid, IdPc, IdWord, IdSlot, TakeLive,
              TakeRecovery
<1>3. CASE Paired
  BY <1>3 DEF Paired, IdPc, IdWord, IdSlot, TakeLive, IfSlot, IfWord
<1>4. CASE Sequential
  BY <1>4 DEF Sequential, Holds, IdPc, IdWord, IdSlot, TakeLive, TakeRecovery
<1> QED
  BY <1>1, <1>2, <1>3, <1>4 DEF FetchInv

(* For every IMEM size, program, prediction and stall pattern, the front   *)
(* end stays in one of its four states.                                    *)
THEOREM FetchInvariant ==
  ASSUME ImemDataReads = FALSE
  PROVE  FetchSpec => []FetchInv
<1>1. FetchInit => FetchInv
  BY FetchInitInv
<1>2. FetchInv /\ [FetchNext]_fetchVars => FetchInv'
  BY FetchStepInv
<1> QED
  BY <1>1, <1>2, PTL DEF FetchSpec

(* For every IMEM size, program, prediction and stall pattern, ID is       *)
(* handed the instructions of the predicted path, each exactly once and    *)
(* with the word IMEM holds.                                               *)
THEOREM FetchOnPath ==
  ASSUME ImemDataReads = FALSE
  PROVE  FetchSpec => []IdOnPath
BY FetchInvariant, InvImpliesOnPath, PTL

(* The registers of the front end keep their types, whatever the back end  *)
(* does and whether or not data reads take the second port.                *)
THEOREM FetchTypeCorrect == FetchSpec => []FetchTypeOK
<1>1. FetchInit => FetchTypeOK
  BY FetchInitInv DEF FetchInv
<1>2. FetchTypeOK /\ [FetchNext]_fetchVars => FetchTypeOK'
  <2> SUFFICES ASSUME FetchTypeOK, [FetchNext]_fetchVars
               PROVE  FetchTypeOK'
    OBVIOUS
  <2>1. PortB \subseteq BOOLEAN
    BY ImemDataReadsAssumption DEF PortB
  <2>2. CASE Issue
    BY <2>1, <2>2, AdvanceType DEF Issue
  <2>3. ASSUME NEW busRe \in PortB, Stall(busRe)
        PROVE  FetchTypeOK'
    BY <2>1, <2>3, BlockedType DEF Stall, FetchTypeOK
  <2>4. CASE EnterSystem \/ Drain
    BY <2>4, BlockedType DEF EnterSystem, Drain, FetchTypeOK
  <2>5. ASSUME NEW t \in Index, NEW blocked \in BOOLEAN, Mispredict(t, blocked)
        PROVE  FetchTypeOK'
    BY <2>5, MispredictType
  <2>6. ASSUME NEW blocked \in BOOLEAN, NEW p0, NEW p1, Squash(blocked, p0, p1)
        PROVE  FetchTypeOK'
    BY <2>6, SquashType
  <2>7. ASSUME NEW t, SystemRedirect(t)
        PROVE  FetchTypeOK'
    BY <2>7, SystemRedirectType
  <2>8. CASE UNCHANGED fetchVars
    BY <2>8 DEF fetchVars, FetchTypeOK
  <2> QED
    BY <2>2, <2>3, <2>4, <2>5, <2>6, <2>7, <2>8 DEF FetchNext
<1> QED
  BY <1>1, <1>2, PTL DEF FetchSpec

(* After a redirect, ID has an instruction again one bubble later.         *)
THEOREM FetchOneBubble ==
  ASSUME ImemDataReads = FALSE
  PROVE  FetchSpec => OneBubbleRecovery
<1>1. FetchInv /\ FetchInv' /\ Issue /\ ~IdValid => IdValid'
  <2> SUFFICES ASSUME FetchInv, FetchInv', ~IdValid,
                      NEW busRe \in PortB, NEW p0, NEW p1,
                      Advance(busRe, p0, p1)
               PROVE  IdValid'
    BY DEF Issue
  <2>1. FetchTypeOK /\ ~sysBusy /\ busRe = FALSE
    BY DEF FetchInv, Advance, PortB
  <2>2. preifValid /\ ~preValid
    BY <2>1 DEF FetchInv, Booting, Redirected, Paired, Sequential, Holds,
                IdValid, IdSlot, TakeLive, TakeRecovery, IfSlot
  <2>3. ~Effective(p0).taken
    BY <2>1, <2>2 DEF Advance, FetchInv, Booting, Redirected, Paired,
         Sequential, IfWord, ZeroWord, Predictions, Effective, NotTaken
  <2>4. ~Redirects(p0, p1)
    BY <2>2, <2>3 DEF Redirects, Slot0Redirect, Slot1Redirect
  <2>5. preValid' /\ ifValid'
    BY <2>1, <2>2, <2>4 DEF Advance
  <2> QED
    BY <2>5 DEF IdValid, IdSlot, TakeLive, IfSlot
<1>2. FetchInv /\ FetchInv' /\ [FetchNext]_fetchVars
        => [Issue /\ ~IdValid => IdValid']_fetchVars
  BY <1>1
<1> QED
  BY <1>2, FetchInvariant, PTL DEF FetchSpec, OneBubbleRecovery
=============================================================================
