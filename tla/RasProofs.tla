----------------------------- MODULE RasProofs -----------------------------
(***************************************************************************)
(* For every depth, the ring of ras.v with its two cached entries is a     *)
(* stack that forgets its oldest frame.                                    *)
(***************************************************************************)
EXTENDS Ras, TLAPS

(* A call renames the entries: the one just written is the newest, and     *)
(* only the oldest of a full ring is overwritten.                          *)
LEMMA EntryAfterCall ==
  ASSUME RasTypeOK, NEW v \in Link, Call(v), NEW i \in 1 .. Depth
  PROVE  /\ Entry(1)' = sp
         /\ i > 1 => /\ Entry(i)' = Entry(i - 1)
                     /\ Entry(i - 1) # sp
                     /\ Entry(i - 1) \in 0 .. Depth - 1
BY DepthAssumption DEF RasTypeOK, Call, Entry

(* A return makes the second newest entry the newest.                      *)
LEMMA EntryAfterReturn ==
  ASSUME RasTypeOK, Return, NEW i \in 1 .. Depth - 1
  PROVE  Entry(i)' = Entry(i + 1)
BY DepthAssumption DEF RasTypeOK, Return, Entry

(* Entries lie in the ring.                                                *)
LEMMA EntryType ==
  ASSUME RasTypeOK, NEW i \in 1 .. Depth
  PROVE  Entry(i) \in 0 .. Depth - 1
BY DepthAssumption DEF RasTypeOK, Entry

(* Calls and returns keep the invariant.                                   *)
LEMMA RasStep ==
  ASSUME RasInv, [RasNext]_rasVars
  PROVE  RasInv'
<1>1. RasTypeOK /\ CachesMatchRing
  BY DEF RasInv
<1>2. CASE Return
  <2>1. count \in 1 .. Depth
    BY <1>1, <1>2 DEF RasTypeOK, Return, Valid
  <2>2. count > 2 => stack[Entry(3)] \in Link
    BY <1>1, <2>1, EntryType, DepthAssumption DEF RasTypeOK
  <2>3. RasTypeOK'
    BY <1>1, <1>2, <2>1, <2>2, EntryType, DepthAssumption, LinkAssumption
       DEF RasTypeOK, Return
  <2>4. Entry(1)' = Entry(2) /\ Entry(2)' = Entry(3)
    BY <1>1, <1>2, EntryAfterReturn, DepthAssumption
  <2>5. CachesMatchRing'
    BY <1>1, <1>2, <2>1, <2>4 DEF CachesMatchRing, Return
  <2> QED
    BY <2>3, <2>5 DEF RasInv
<1>3. ASSUME NEW v \in Link, Call(v)
      PROVE  RasInv'
  <2>1. RasTypeOK'
    BY <1>1, <1>3, DepthAssumption, LinkAssumption DEF RasTypeOK, Call
  <2>2. /\ Entry(1)' = sp /\ Entry(2)' = Entry(1)
        /\ Entry(1) # sp /\ Entry(1) \in 0 .. Depth - 1
    BY <1>1, <1>3, EntryAfterCall, DepthAssumption
  <2>3. stack'[sp] = v /\ stack'[Entry(1)] = stack[Entry(1)]
    BY <1>1, <1>3, <2>2 DEF Call, RasTypeOK
  <2>4. count' > 1 => count > 0
    BY <1>1, <1>3 DEF Call, RasTypeOK
  <2>5. CachesMatchRing'
    BY <1>1, <1>3, <2>2, <2>3, <2>4 DEF CachesMatchRing, Call, Valid
  <2> QED
    BY <2>1, <2>5 DEF RasInv
<1>4. CASE UNCHANGED rasVars
  BY <1>1, <1>4 DEF rasVars, RasInv, RasTypeOK, CachesMatchRing, Entry
<1> QED
  BY <1>2, <1>3, <1>4 DEF RasNext

(* For every depth, the cached entries are those of the ring.              *)
THEOREM RasInvariant == RasSpec => []RasInv
<1>1. RasInit => RasInv
  BY DepthAssumption, LinkAssumption
     DEF RasInit, RasInv, RasTypeOK, CachesMatchRing
<1>2. RasInv /\ [RasNext]_rasVars => RasInv'
  BY RasStep
<1> QED
  BY <1>1, <1>2, PTL DEF RasSpec

(* For every depth, the ring implements the bounded stack.                 *)
THEOREM RasImplementsStack == RasSpec => ImplementsStack
<1> DEFINE frames == [i \in 1 .. count |-> stack[Entry(i)]]
<1>1. RasInit => S!StackInit
  BY DEF RasInit, S!StackInit
<1>2. RasInv /\ [RasNext]_rasVars => [S!StackNext]_S!stackVars
  <2> SUFFICES ASSUME RasInv, [RasNext]_rasVars
               PROVE  [S!StackNext]_S!stackVars
    OBVIOUS
  <2>1. RasTypeOK /\ CachesMatchRing
    BY DEF RasInv
  <2>2. CASE Return
    <3>1. count > 0 /\ count' = count - 1 /\ count \in 1 .. Depth
      BY <2>1, <2>2 DEF Return, Valid, RasTypeOK
    <3>2. ASSUME NEW i \in 1 .. count'
          PROVE  stack'[Entry(i)'] = frames[i + 1]
      <4>1. i \in 1 .. Depth - 1 /\ i + 1 \in 1 .. count
        BY <3>1, DepthAssumption
      <4>2. Entry(i)' = Entry(i + 1)
        BY <2>1, <2>2, <4>1, EntryAfterReturn
      <4> QED
        BY <2>2, <4>1, <4>2 DEF Return
    <3>3. frames' = [i \in 1 .. count' |-> frames[i + 1]]
      BY <3>2
    <3> QED
      BY <3>1, <3>3 DEF S!StackNext, S!Pop
  <2>3. ASSUME NEW v \in Link, Call(v)
        PROVE  S!StackNext
    <3>1. /\ count' = IF count = Depth THEN Depth ELSE count + 1
          /\ count' \in 1 .. Depth
      BY <2>1, <2>3, DepthAssumption DEF Call, RasTypeOK
    <3>2. ASSUME NEW i \in 1 .. count'
          PROVE  stack'[Entry(i)'] = IF i = 1 THEN v ELSE frames[i - 1]
      <4>1. i \in 1 .. Depth /\ (i > 1 => i - 1 \in 1 .. count)
        BY <2>1, <3>1, DepthAssumption DEF RasTypeOK
      <4>2. CASE i = 1
        <5>1. Entry(1)' = sp
          BY <2>1, <2>3, <4>1, EntryAfterCall
        <5> QED
          BY <2>1, <2>3, <4>2, <5>1 DEF Call, RasTypeOK
      <4>3. CASE i > 1
        <5>1. /\ Entry(i)' = Entry(i - 1) /\ Entry(i - 1) # sp
              /\ Entry(i - 1) \in 0 .. Depth - 1
          BY <2>1, <2>3, <4>1, <4>3, EntryAfterCall
        <5>2. stack'[Entry(i - 1)] = stack[Entry(i - 1)]
          BY <2>1, <2>3, <5>1 DEF Call, RasTypeOK
        <5> QED
          BY <4>1, <4>3, <5>1, <5>2
      <4> QED
        BY <4>2, <4>3
    <3>3. frames' = [i \in 1 .. count' |-> IF i = 1 THEN v ELSE frames[i - 1]]
      BY <3>2
    <3> QED
      BY <2>3, <3>1, <3>3 DEF S!StackNext, S!Push
  <2>4. CASE UNCHANGED rasVars
    BY <2>4 DEF rasVars, S!stackVars, Entry
  <2> QED
    BY <2>2, <2>3, <2>4 DEF RasNext
<1> QED
  BY <1>1, <1>2, RasInvariant, PTL DEF RasSpec, ImplementsStack, S!StackSpec

(* For every depth, slot 1 is told in advance what the stack will say      *)
(* after the call or return that is predicted in slot 0.                   *)
THEOREM RasShadow == RasSpec => ShadowAhead
<1> DEFINE Ahead(s0) ==
      JumpPredicted(s0) =>
        /\ s0.kind = "return" /\ Return => ToldAhead(s0, 0)
        /\ \A v \in Link : s0.kind \in Calls /\ Call(v) => ToldAhead(s0, v)
<1>1. RasInv /\ [RasNext]_rasVars => [\A s0 \in Slots0 : Ahead(s0)]_rasVars
  <2> SUFFICES ASSUME RasInv, NEW s0 \in Slots0, JumpPredicted(s0)
               PROVE  /\ s0.kind = "return" /\ Return => ToldAhead(s0, 0)
                      /\ \A v \in Link : s0.kind \in Calls /\ Call(v)
                                         => ToldAhead(s0, v)
    OBVIOUS
  <2>1. count \in 0 .. Depth
    BY DEF RasInv, RasTypeOK
  <2>2. ASSUME s0.kind = "return", Return
        PROVE  ToldAhead(s0, 0)
    BY <2>1, <2>2 DEF Return, Valid, ShadowValid, ShadowTop, ToldAhead, Calls
  <2>3. ASSUME NEW v \in Link, s0.kind \in Calls, Call(v)
        PROVE  ToldAhead(s0, v)
    <3>1. s0.kind # "return"
      BY <2>3 DEF Calls
    <3>2. ShadowValid(s0) /\ ShadowTop(s0, v) = v
      BY <2>3, <3>1 DEF ShadowValid, ShadowTop
    <3>3. top' = v /\ (Valid' <=> TRUE)
      BY <2>1, <2>3, DepthAssumption DEF Call, Valid
    <3> QED
      BY <3>1, <3>2, <3>3 DEF ToldAhead, ShadowValid
  <2> QED
    BY <2>2, <2>3
<1> QED
  BY <1>1, RasInvariant, PTL DEF RasSpec, ShadowAhead
=============================================================================
