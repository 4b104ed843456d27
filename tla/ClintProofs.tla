----------------------------- MODULE ClintProofs -----------------------------
(***************************************************************************)
(* For halves of any width and any comparator values: the timer interrupt  *)
(* settles within a cycle and is never early.  ClintInv, which follows the *)
(* comparator through the three writes, is inductive as it stands.         *)
(***************************************************************************)
EXTENDS Clint, TLAPS

(* A half, taken from a register or a request, and the incremented time.   *)
LEMMA IncType == ASSUME NEW t \in Time PROVE Inc(t) \in Time
<1> USE HalfAssumption DEF Ones, Time
<1>1. t.hi \in 0 .. Half - 1 /\ t.lo \in 0 .. Half - 1
  OBVIOUS
<1>2. CASE t.lo < Half - 1
  BY <1>1, <1>2 DEF Inc
<1>3. CASE ~(t.lo < Half - 1)
  BY <1>1, <1>3 DEF Inc
<1> QED
  BY <1>2, <1>3

LEMMA WrittenType ==
  ASSUME ClintTypeOK, NEW t \in Time, NEW off
  PROVE  Written(t, off) \in Time
BY HalfAssumption DEF ClintTypeOK, Written, Time, Ones

(* What the registers become at every edge.                                *)
LEMMA RegistersType ==
  ASSUME ClintTypeOK, NEW strobe, Registers(strobe),
         strobe \in [valid : BOOLEAN, we : BOOLEAN, off : Offsets,
                     data : 0 .. Ones]
  PROVE  /\ req' \in [valid : BOOLEAN, we : BOOLEAN, off : Offsets,
                      data : 0 .. Ones]
         /\ ack' \in BOOLEAN /\ irq' \in BOOLEAN
         /\ rdata' \in 0 .. Ones /\ time' \in Time /\ cmp' \in Time
<1>1. req' \in [valid : BOOLEAN, we : BOOLEAN, off : Offsets, data : 0 .. Ones]
  BY DEF Registers, ClintTypeOK
<1>2. ack' \in BOOLEAN /\ irq' \in BOOLEAN
  BY DEF Registers, ClintTypeOK, GEq
<1>3. rdata' \in 0 .. Ones
  <2>1. \A t \in Time : t.hi \in 0 .. Ones /\ t.lo \in 0 .. Ones
    BY DEF Time
  <2>2. 0 \in 0 .. Ones
    BY HalfAssumption DEF Ones
  <2> QED
    BY <2>1, <2>2 DEF Registers, ReadMux, ClintTypeOK
<1>4. time' \in Time
  BY IncType, WrittenType DEF Registers, NextTime, ClintTypeOK
<1>5. cmp' \in Time
  BY WrittenType DEF Registers, NextCmp, ClintTypeOK
<1> QED
  BY <1>1, <1>2, <1>3, <1>4, <1>5

LEMMA RequestTypes ==
  ASSUME NEW g \in Time
  PROVE  /\ NoRequest \in [valid : BOOLEAN, we : BOOLEAN, off : Offsets,
                           data : 0 .. Ones]
         /\ \A s \in Steps \ (Settings \cup {"idle"}) :
              Access(s, g) \in [valid : BOOLEAN, we : BOOLEAN, off : Offsets,
                                data : 0 .. Ones]
         /\ \A half \in Settings, d \in 0 .. Ones :
              Request(TRUE, half, d) \in [valid : BOOLEAN, we : BOOLEAN,
                                          off : Offsets, data : 0 .. Ones]
<1> USE HalfAssumption DEF Ones, Offsets
<1>1. NoRequest \in [valid : BOOLEAN, we : BOOLEAN, off : Offsets, data : 0 .. Ones]
  BY DEF NoRequest
<1>2. \A s \in Steps \ (Settings \cup {"idle"}) :
        Access(s, g) \in [valid : BOOLEAN, we : BOOLEAN, off : Offsets,
                          data : 0 .. Ones]
  BY DEF Access, Request, Steps, Settings, Readings, Time
<1>3. \A half \in Settings, d \in 0 .. Ones :
        Request(TRUE, half, d) \in [valid : BOOLEAN, we : BOOLEAN,
                                    off : Offsets, data : 0 .. Ones]
  BY DEF Request, Settings
<1> QED
  BY <1>1, <1>2, <1>3

(* What software remembers keeps its type.                                 *)
LEMMA RememberType ==
  ASSUME ClintTypeOK, NEW s \in Steps, NEW o \in BOOLEAN, Remember(s, o)
  PROVE  /\ step' \in Steps /\ out' \in BOOLEAN
         /\ old' \in Time /\ prev' \in Time
         /\ read' \in [hi : 0 .. Ones, lo : 0 .. Ones, start : Time,
                       age : 0 .. MaxAge + 1]
<1> DEFINE R == [hi : 0 .. Ones, lo : 0 .. Ones, start : Time,
                 age : 0 .. MaxAge + 1]
<1>1. step' \in Steps /\ out' \in BOOLEAN /\ old' \in Time /\ prev' \in Time
  BY DEF Remember, ClintTypeOK
<1>2. NotReading \in R
  BY HalfAssumption, MaxAgeAssumption DEF NotReading, Origin, Time, Ones
<1>3. [hi |-> 0, lo |-> 0, start |-> time, age |-> 1] \in R
  BY HalfAssumption, MaxAgeAssumption DEF Ones, ClintTypeOK
<1>4. Captured \in R
  BY DEF Captured, ClintTypeOK
<1>5. [Captured EXCEPT !.age = IF @ > MaxAge THEN @ ELSE @ + 1] \in R
  BY <1>4, MaxAgeAssumption
<1>6. read' \in R
  BY <1>2, <1>3, <1>5 DEF Remember
<1> QED
  BY <1>1, <1>6

LEMMA AtStep == ASSUME ClintTypeOK PROVE At \in Steps
BY DEF At, After, ClintTypeOK, Steps, Readings, Settings

(* The comparison is never early for a comparator that is behind neither.  *)
LEMMA LaterComparator ==
  ASSUME NEW t \in Time, NEW a \in Time, NEW b \in Time,
         b.hi = a.hi, b.lo = Ones, GEq(t, b)
  PROVE  GEq(t, a)
BY HalfAssumption DEF GEq, Time, Ones

(* The comparator in force is one of old and goal, or a later one than one *)
(* of them; so is what the interrupt says after the edge.                  *)
LEMMA NotEarly ==
  ASSUME ClintInv, GEq(time, cmp)
  PROVE  GEq(time, goal) \/ (GEq(time, old) /\ ~(ack /\ step = "low"))
<1> USE DEF ClintInv
<1>0. time \in Time /\ cmp \in Time /\ old \in Time /\ goal \in Time
  BY DEF ClintTypeOK
<1>1. CASE step \notin {"ones", "high", "low"}
  BY <1>1 DEF CmpOnItsWay
<1>2. CASE step = "ones" /\ ~ack
  BY <1>2 DEF CmpOnItsWay
<1>3. CASE step = "ones" /\ ack
  <2>1. cmp.hi = old.hi /\ cmp.lo = Ones
    BY <1>0, <1>3 DEF CmpOnItsWay, Time
  <2> QED
    BY <1>0, <1>3, <2>1, LaterComparator
<1>4. CASE step = "high" /\ ~ack
  <2>1. cmp.hi = old.hi /\ cmp.lo = Ones
    BY <1>0, <1>4 DEF CmpOnItsWay
  <2> QED
    BY <1>0, <1>4, <2>1, LaterComparator
<1>5. CASE step = "high" /\ ack
  <2>1. cmp.hi = goal.hi /\ cmp.lo = Ones
    BY <1>0, <1>5 DEF CmpOnItsWay
  <2> QED
    BY <1>0, <2>1, LaterComparator
<1>6. CASE step = "low" /\ ~ack
  <2>1. cmp.hi = goal.hi /\ cmp.lo = Ones
    BY <1>0, <1>6 DEF CmpOnItsWay
  <2> QED
    BY <1>0, <2>1, LaterComparator
<1>7. CASE step = "low" /\ ack
  <2>1. cmp = goal
    BY <1>0, <1>7 DEF CmpOnItsWay, Time
  <2> QED
    BY <2>1
<1> QED
  BY <1>1, <1>2, <1>3, <1>4, <1>5, <1>6, <1>7 DEF ClintTypeOK

(* One edge of the registers, whatever is strobed and whatever software    *)
(* makes of the answer; the four ways in which an edge happens.            *)
Strobed(strobe, s, o, g) ==
  /\ Registers(strobe)
  /\ Remember(s, o)
  /\ goal' = g

LEMMA TypeStep ==
  ASSUME ClintInv, NEW strobe, NEW s \in Steps, NEW o \in BOOLEAN,
         NEW g \in Time, Strobed(strobe, s, o, g),
         strobe \in [valid : BOOLEAN, we : BOOLEAN, off : Offsets,
                     data : 0 .. Ones]
  PROVE  ClintTypeOK'
BY RegistersType, RememberType DEF Strobed, ClintInv, ClintTypeOK

(* The interrupt after the edge compares the comparator before it.         *)
LEMMA IrqStep ==
  ASSUME ClintInv, NEW strobe, NEW s \in Steps, NEW o \in BOOLEAN,
         NEW g \in Time, Strobed(strobe, s, o, g),
         At = "idle" \/ g = goal
  PROVE  NoEarlyTimer'
<1> SUFFICES ASSUME irq' PROVE (GEq(prev, old) \/ GEq(prev, goal))'
  BY DEF NoEarlyTimer
<1>1. GEq(time, cmp) /\ prev' = time /\ goal' = g
  BY DEF Strobed, Registers, Remember
<1>2. GEq(time, goal) \/ (GEq(time, old) /\ ~(ack /\ step = "low"))
  BY <1>1, NotEarly
<1>3. old' = IF ack /\ step = "low" THEN goal ELSE old
  BY DEF Strobed, Remember
<1>4. CASE ack /\ step = "low"
  BY <1>1, <1>2, <1>3, <1>4 DEF GEq
<1>5. CASE ~(ack /\ step = "low")
  <2>1. CASE GEq(time, old)
    BY <1>1, <1>3, <1>5, <2>1 DEF GEq
  <2>2. CASE GEq(time, goal) /\ g = goal
    BY <1>1, <2>2 DEF GEq
  <2>3. CASE GEq(time, goal) /\ At = "idle"
    <3>1. step \notin {"ones", "high", "low"}
      BY <1>5, <2>3 DEF At, After
    <3>2. old = goal
      BY <3>1 DEF ClintInv, CmpOnItsWay
    <3> QED
      BY <2>1, <2>3, <3>2
  <2> QED
    BY <1>2, <1>5, <2>1, <2>2, <2>3
<1> QED
  BY <1>4, <1>5

(* The comparator is written in the cycle before the answer, by the access *)
(* software is at.                                                         *)
LEMMA CmpStep ==
  ASSUME ClintInv
  PROVE  NextCmp = IF req.valid /\ step = "ones" THEN [old EXCEPT !.lo = Ones]
                   ELSE IF req.valid /\ step = "high" THEN [hi |-> goal.hi, lo |-> Ones]
                   ELSE IF req.valid /\ step = "low" THEN goal
                   ELSE cmp
<1> USE DEF ClintInv
<1>0. cmp \in Time /\ old \in Time /\ goal \in Time /\ step \in Steps
  BY DEF ClintTypeOK
<1>1. CASE ~req.valid
  BY <1>1 DEF NextCmp, Writes
<1>2. CASE req.valid /\ step = "ones"
  <2>1. req.off = "cmplo" /\ req.data = Ones /\ req.we /\ cmp = old
    BY <1>2 DEF OneAccess, Access, Request, CmpOnItsWay, Settings
  <2> QED
    BY <1>2, <2>1 DEF NextCmp, Writes, Written
<1>3. CASE req.valid /\ step = "high"
  <2>1. /\ req.off = "cmphi" /\ req.data = goal.hi /\ req.we
        /\ cmp = [hi |-> old.hi, lo |-> Ones]
    BY <1>3 DEF OneAccess, Access, Request, CmpOnItsWay, Settings
  <2> QED
    BY <1>3, <2>1 DEF NextCmp, Writes, Written
<1>4. CASE req.valid /\ step = "low"
  <2>1. /\ req.off = "cmplo" /\ req.data = goal.lo /\ req.we
        /\ cmp = [hi |-> goal.hi, lo |-> Ones]
    BY <1>4 DEF OneAccess, Access, Request, CmpOnItsWay, Settings
  <2>2. [cmp EXCEPT !.lo = goal.lo] = goal
    BY <1>0, <2>1 DEF Time
  <2> QED
    BY <1>4, <2>1, <2>2 DEF NextCmp, Writes, Written
<1>5. CASE req.valid /\ step \notin {"ones", "high", "low"}
  <2>1. step # "idle"
    BY <1>5 DEF OneAccess
  <2>2. CASE step \in Settings
    BY <1>5, <2>2 DEF OneAccess, NextCmp, Writes, Settings
  <2>3. CASE step \in Readings
    <3>1. ~req.we
      BY <1>5, <2>3 DEF OneAccess, Access, Request, Settings, Readings
    <3> QED
      BY <1>5, <3>1 DEF NextCmp, Writes
  <2> QED
    BY <1>0, <1>5, <2>1, <2>2, <2>3 DEF Steps
<1> QED
  BY <1>1, <1>2, <1>3, <1>4, <1>5

LEMMA QuietStep == ASSUME ClintInv, Quiet PROVE ClintInv'
<1> USE DEF ClintInv
<1> DEFINE o == out /\ ~ack
<1>1. At \in Steps /\ o \in BOOLEAN /\ goal \in Time
  BY AtStep DEF ClintTypeOK
<1>2. Strobed(NoRequest, At, o, goal)
  BY DEF Quiet, Strobed
<1>3. ClintTypeOK'
  BY <1>1, <1>2, RequestTypes, TypeStep
<1>4. NoEarlyTimer'
  BY <1>1, <1>2, IrqStep
<1>5. /\ req' = [req EXCEPT !.valid = FALSE] /\ ack' = req.valid
      /\ step' = At /\ out' = o /\ goal' = goal /\ prev' = time
      /\ old' = IF ack /\ step = "low" THEN goal ELSE old
      /\ irq' = GEq(time, cmp) /\ cmp' = NextCmp
  BY DEF Quiet, Registers, Remember, NoRequest
<1>6. ~req'.valid
  BY <1>5 DEF ClintTypeOK
<1>7. OneAccess'
  <2>1. CASE req.valid
    BY <1>5, <1>6, <2>1 DEF OneAccess, At
  <2>2. CASE ~req.valid
    <3>1. out' = FALSE /\ ack' = FALSE
      BY <1>5, <2>2 DEF OneAccess, ClintTypeOK
    <3>2. step' \notin Settings
      BY <1>5, <2>2 DEF OneAccess, At, After, Settings
    <3> QED
      BY <1>6, <3>1, <3>2 DEF OneAccess
  <2> QED
    BY <2>1, <2>2
<1>8. CmpOnItsWay'
  <2>1. CASE req.valid
    <3>1. ~ack /\ ack' /\ step' = step /\ old' = old
      BY <1>5, <2>1 DEF OneAccess, At
    <3> QED
      BY <1>5, <2>1, <3>1, CmpStep DEF CmpOnItsWay, ClintTypeOK, Time
  <2>2. CASE ~req.valid /\ ~ack
    BY <1>5, <2>2, CmpStep DEF CmpOnItsWay, At
  <2>3. CASE ~req.valid /\ ack
    <3>1. ~ack' /\ step' = After(step) /\ cmp' = cmp
      BY <1>5, <2>3, CmpStep DEF At
    <3> QED
      BY <1>5, <2>3, <3>1 DEF CmpOnItsWay, After, ClintTypeOK, Time
  <2> QED
    BY <2>1, <2>2, <2>3 DEF ClintTypeOK
<1>9. TimerSettles'
  <2>1. CASE req.valid
    BY <1>5, <2>1 DEF TimerSettles
  <2>2. CASE ~req.valid
    <3>1. cmp' = cmp
      BY <1>5, <2>2, CmpStep
    <3> QED
      BY <1>5, <3>1 DEF TimerSettles, GEq
  <2> QED
    BY <2>1, <2>2
<1> QED
  BY <1>3, <1>4, <1>7, <1>8, <1>9

(* An access is issued: software is at s, which continues what it was      *)
(* doing or begins something.                                              *)
LEMMA IssueStep ==
  ASSUME ClintInv, Ready, NEW strobe, NEW s \in Steps \ {"idle"}, NEW g \in Time,
         Strobed(strobe, s, TRUE, g),
         strobe \in [valid : {TRUE}, we : BOOLEAN, off : Offsets,
                     data : 0 .. Ones],
         IF s \in Settings THEN strobe.we /\ strobe.off = s
                           ELSE strobe = Access(s, g),
         \/ At = "idle" /\ s = "ones"
         \/ At = "idle" /\ s \in {"readhi"} \cup Settings /\ g = goal
         \/ At = s /\ g = goal
  PROVE  ClintInv'
<1> USE DEF ClintInv
<1>1. /\ req' = strobe /\ ack' = req.valid
      /\ step' = s /\ out' = TRUE /\ goal' = g /\ prev' = time
      /\ old' = IF ack /\ step = "low" THEN goal ELSE old
      /\ irq' = GEq(time, cmp) /\ cmp' = NextCmp
  BY DEF Strobed, Registers, Remember
<1>2. ~req.valid /\ ~ack'
  BY <1>1 DEF Ready, OneAccess, ClintTypeOK
<1>3. ClintTypeOK'
  BY TypeStep
<1>4. NoEarlyTimer'
  BY IrqStep
<1>5. OneAccess'
  BY <1>1, <1>2 DEF OneAccess, Access
<1>6. cmp' = cmp
  BY <1>1, <1>2, CmpStep
<1>7. CmpOnItsWay'
  <2>1. CASE At = "idle"
    <3>1. cmp = IF ack /\ step = "low" THEN goal ELSE old
      BY <2>1 DEF At, After, CmpOnItsWay, ClintTypeOK, Time
    <3>2. cmp = goal /\ old' = goal
      BY <1>1, <2>1, <3>1 DEF At, After, CmpOnItsWay
    <3>3. \/ s = "ones"
          \/ s \in {"readhi"} \cup Settings /\ g = goal
      BY <2>1
    <3> QED
      BY <1>1, <1>2, <1>6, <3>1, <3>2, <3>3 DEF CmpOnItsWay, Settings
  <2>2. CASE At = s /\ g = goal
    <3>1. CASE ack
      BY <1>1, <1>2, <1>6, <2>2, <3>1
         DEF At, After, CmpOnItsWay, ClintTypeOK, Time, Steps, Settings
    <3>2. CASE ~ack
      BY <1>1, <1>2, <1>6, <2>2, <3>2 DEF At, CmpOnItsWay
    <3> QED
      BY <3>1, <3>2
  <2> QED
    BY <2>1, <2>2
<1>8. TimerSettles'
  BY <1>1, <1>6 DEF TimerSettles, GEq
<1> QED
  BY <1>3, <1>4, <1>5, <1>7, <1>8

(* ClintInv holds initially and is kept by every edge.                     *)
LEMMA ClintInitially == ClintInit => ClintInv
<1> SUFFICES ASSUME ClintInit PROVE ClintInv
  OBVIOUS
<1> USE HalfAssumption DEF ClintInit, Ones
<1>1. time \in Time /\ cmp \in Time
  BY DEF Time, Origin
<1>2. read \in [hi : 0 .. Ones, lo : 0 .. Ones, start : Time,
                age : 0 .. MaxAge + 1]
  BY MaxAgeAssumption DEF NotReading, Time, Origin
<1>3. ClintTypeOK
  <2>1. req \in [valid : BOOLEAN, we : BOOLEAN, off : Offsets, data : 0 .. Ones]
    BY DEF NoRequest, Offsets
  <2>2. rdata \in 0 .. Ones
    OBVIOUS
  <2>3. irq \in BOOLEAN /\ ack \in BOOLEAN /\ out \in BOOLEAN /\ step \in Steps
    BY DEF Steps
  <2> QED
    BY <1>1, <1>2, <2>1, <2>2, <2>3 DEF ClintTypeOK
<1>4. OneAccess
  BY DEF OneAccess, NoRequest, Settings
<1>5. CmpOnItsWay
  BY DEF CmpOnItsWay
<1>6. GEq(prev, cmp) = FALSE
  BY DEF GEq, Origin
<1>7. TimerSettles /\ NoEarlyTimer
  BY <1>6, Zenon DEF ClintInit, TimerSettles, NoEarlyTimer
<1> QED
  BY <1>3, <1>4, <1>5, <1>7 DEF ClintInv

LEMMA ClintStep == ClintInv /\ [ClintNext]_clintVars => ClintInv'
<1> SUFFICES ASSUME ClintInv, [ClintNext]_clintVars PROVE ClintInv'
  OBVIOUS
<1> USE DEF ClintInv
<1>1. goal \in Time /\ At \in Steps
  BY AtStep DEF ClintTypeOK
<1>2. ASSUME NEW s \in Steps \ (Settings \cup {"idle"}), NEW g \in Time
      PROVE  Access(s, g) \in [valid : {TRUE}, we : BOOLEAN, off : Offsets,
                               data : 0 .. Ones]
  <2>1. /\ 0 \in 0 .. Ones /\ Ones \in 0 .. Ones
        /\ g.hi \in 0 .. Ones /\ g.lo \in 0 .. Ones
    BY <1>2, HalfAssumption DEF Time, Ones
  <2>2. s \in {"ones", "high", "low", "readhi", "readlo", "rereadhi"}
    BY <1>2 DEF Steps, Settings, Readings
  <2> QED
    BY <2>1, <2>2 DEF Access, Request, Offsets
<1>3. CASE Quiet
  BY <1>3, QuietStep
<1>4. CASE Continue
  <2>1. Ready /\ Strobed(Access(At, goal), At, TRUE, goal)
    BY <1>4 DEF Continue, Strobed
  <2>2. At \in Steps \ (Settings \cup {"idle"})
    BY <1>1, <1>4 DEF Continue, At, After, Ready, OneAccess, Settings
  <2>3. At \notin Settings /\ At \in Steps \ {"idle"}
    BY <2>2
  <2>4. Access(At, goal) \in [valid : {TRUE}, we : BOOLEAN, off : Offsets,
                              data : 0 .. Ones]
    BY <1>1, <1>2, <2>2
  <2> QED
    BY <1>1, <2>1, <2>3, <2>4, IssueStep
<1>5. ASSUME NEW g \in Goals, Program(g) PROVE ClintInv'
  <2>1. g \in Time /\ "ones" \in Steps \ (Settings \cup {"idle"})
    BY GoalsAssumption DEF Steps, Settings
  <2>2. Ready /\ At = "idle" /\ Strobed(Access("ones", g), "ones", TRUE, g)
    BY <1>5 DEF Program, Strobed
  <2>3. Access("ones", g) \in [valid : {TRUE}, we : BOOLEAN, off : Offsets,
                               data : 0 .. Ones]
    BY <1>2, <2>1
  <2>4. "ones" \notin Settings /\ "ones" \in Steps \ {"idle"}
    BY <2>1
  <2> QED
    BY <2>1, <2>2, <2>3, <2>4, IssueStep
<1>6. CASE ReadTime
  <2>1. "readhi" \in Steps \ (Settings \cup {"idle"})
    BY DEF Steps, Settings, Readings
  <2>2. /\ Ready /\ At = "idle"
        /\ Strobed(Access("readhi", goal), "readhi", TRUE, goal)
    BY <1>6 DEF ReadTime, Strobed
  <2>3. Access("readhi", goal) \in [valid : {TRUE}, we : BOOLEAN,
                                    off : Offsets, data : 0 .. Ones]
    BY <1>1, <1>2, <2>1
  <2>4. "readhi" \notin Settings /\ "readhi" \in Steps \ {"idle"}
    BY <2>1
  <2> QED
    BY <1>1, <2>2, <2>3, <2>4, IssueStep
<1>7. ASSUME NEW half \in Settings, NEW d \in 0 .. Ones, SetTime(half, d)
      PROVE  ClintInv'
  <2>1. half \in Steps \ {"idle"}
    BY DEF Steps, Settings
  <2>2. /\ Ready /\ At = "idle"
        /\ Strobed(Request(TRUE, half, d), half, TRUE, goal)
    BY <1>7 DEF SetTime, Strobed
  <2>3. Request(TRUE, half, d) \in [valid : {TRUE}, we : BOOLEAN,
                                    off : Offsets, data : 0 .. Ones]
    <3>1. half \in Offsets
      BY DEF Settings, Offsets
    <3> QED
      BY <3>1 DEF Request
  <2>4. Request(TRUE, half, d).we /\ Request(TRUE, half, d).off = half
    BY DEF Request
  <2> QED
    BY <1>1, <2>1, <2>2, <2>3, <2>4, IssueStep
<1>8. CASE UNCHANGED clintVars
  <2> USE <1>8 DEF clintVars, regVars, swVars
  <2>1. ClintTypeOK'
    BY DEF ClintTypeOK
  <2>2. OneAccess'
    BY DEF OneAccess, Access
  <2>3. CmpOnItsWay'
    BY DEF CmpOnItsWay
  <2>4. TimerSettles' /\ NoEarlyTimer'
    BY DEF TimerSettles, NoEarlyTimer, GEq
  <2> QED
    BY <2>1, <2>2, <2>3, <2>4
<1> QED
  BY <1>3, <1>4, <1>5, <1>6, <1>7, <1>8 DEF ClintNext

(* The access, the comparator on its way, the interrupt and their types in *)
(* every reachable state.                                                  *)
THEOREM ClintInvariant == ClintSpec => []ClintInv
BY ClintInitially, ClintStep, PTL DEF ClintSpec

(* mmio.v's irq_timer is the comparison with the comparator in force in    *)
(* every cycle that does not answer an access.                             *)
THEOREM ClintTimerSettles == ClintSpec => []TimerSettles
<1>1. ClintInv => TimerSettles
  BY DEF ClintInv
<1> QED
  BY <1>1, ClintInvariant, PTL

(* The low-high-low sequence of writes raises no interrupt that neither    *)
(* the old nor the new comparator value explains.                          *)
THEOREM ClintNoEarlyTimer == ClintSpec => []NoEarlyTimer
<1>1. ClintInv => NoEarlyTimer
  BY DEF ClintInv
<1> QED
  BY <1>1, ClintInvariant, PTL

(***************************************************************************)
(* The time, read high-low-high.                                           *)
(***************************************************************************)
(* A reading is under way from its first strobe to its last answer.        *)
Reading == step \in Readings /\ (step = "readhi" => out)

(* The words read so far, that of this cycle's answer included.            *)
SeenHi == IF step = "readhi" THEN rdata ELSE read.hi
SeenLo == IF step = "readlo" THEN rdata ELSE read.lo

(* A high half behind one carry too many.                                  *)
Wrap(n) == IF n < Half THEN n ELSE n - Half

(* Carries out of the low half since the reading began: c until now, c1    *)
(* and c2 when the first two words were read, c3 when the third was.       *)
Carries(c, c1, c2, c3) ==
  /\ c < Half
  /\ time.hi = Wrap(read.start.hi + c)
  /\ c * Half + time.lo = read.start.lo + read.age
  /\ (step = "readhi" /\ ack) \/ step \in {"readlo", "rereadhi"} =>
       c1 <= c /\ SeenHi = Wrap(read.start.hi + c1)
  /\ (step = "readlo" /\ ack) \/ step = "rereadhi" =>
       /\ c1 <= c2 /\ c2 <= c
       /\ read.start.lo <= c2 * Half + SeenLo
       /\ c2 * Half + SeenLo <= read.start.lo + read.age
  /\ step = "rereadhi" /\ ack =>
       c2 <= c3 /\ c3 <= c /\ rdata = Wrap(read.start.hi + c3)

ReadInv ==
  Reading /\ read.age <= MaxAge =>
    \E c, c1, c2, c3 \in Nat : Carries(c, c1, c2, c3)

(* So short a reading sees fewer than Half carries.                        *)
LEMMA FewCarries ==
  ASSUME NEW c \in Nat, NEW lo \in 0 .. Ones, NEW lo0 \in 0 .. Ones,
         NEW a \in Nat, a <= MaxAge, c * Half + lo = lo0 + a
  PROVE  c < Half
<1>1. MaxAge \in Nat /\ Half \in Nat /\ Half >= 2 /\ MaxAge < Half * Half - Half
  BY HalfAssumption, MaxAgeAssumption
<1>2. c * Half < Half * Half
  BY <1>1 DEF Ones
<1>3. ASSUME c >= Half PROVE c * Half >= Half * Half
  BY <1>1, <1>3
<1> QED
  BY <1>1, <1>2, <1>3

LEMMA IncCarries ==
  ASSUME NEW t \in Time, NEW hi \in 0 .. Ones, NEW c \in Nat, c < Half,
         t.hi = Wrap(hi + c)
  PROVE  \E d \in {c, c + 1} : /\ d < Half => Inc(t).hi = Wrap(hi + d)
                               /\ d * Half + Inc(t).lo = c * Half + t.lo + 1
<1>1. t.lo \in 0 .. Ones /\ t.hi \in 0 .. Ones /\ Half \in Nat /\ Half >= 2
  BY HalfAssumption DEF Time
<1>2. CASE t.lo < Ones
  <2>1. Inc(t).hi = t.hi /\ Inc(t).lo = t.lo + 1
    BY <1>2 DEF Inc, Time
  <2> QED
    BY <1>1, <2>1
<1>3. CASE t.lo = Ones
  <2>1. Inc(t).hi = (IF t.hi < Ones THEN t.hi + 1 ELSE 0) /\ Inc(t).lo = 0
    BY <1>1, <1>3 DEF Inc, Ones
  <2>2. (c + 1) * Half = c * Half + Half
    BY <1>1
  <2>3. (c + 1) * Half + Inc(t).lo = c * Half + t.lo + 1
    BY <1>1, <1>3, <2>1, <2>2 DEF Ones
  <2>4. c + 1 < Half => Inc(t).hi = Wrap(hi + (c + 1))
    BY <1>1, <2>1 DEF Wrap, Ones
  <2> QED
    BY <2>3, <2>4
<1> QED
  BY <1>1, <1>2, <1>3 DEF Ones

(* An edge ends a reading, begins one, or goes on with it.                 *)
Ends(s, o)   == s \notin Readings \/ (s = "readhi" /\ ~o)
Begins(s, o) == s = "readhi" /\ o /\ Ready
GoesOn(s, o) == s \in Readings /\ s = At /\ ~Begins(s, o) /\ (s = "readhi" => o /\ ~Ready)

LEMMA ReadingEdge ==
  ASSUME ClintInv, ClintNext
  PROVE  \E s \in Steps, o \in BOOLEAN :
           /\ Remember(s, o) /\ ack' = req.valid /\ rdata' = ReadMux /\ time' = NextTime
           /\ Ends(s, o) \/ Begins(s, o) \/ GoesOn(s, o)
<1> USE DEF ClintInv
<1>1. At \in Steps /\ out \in BOOLEAN /\ ack \in BOOLEAN
  BY AtStep DEF ClintTypeOK
<1>2. CASE Quiet
  <2>1. /\ Remember(At, out /\ ~ack) /\ ack' = req.valid /\ rdata' = ReadMux
        /\ time' = NextTime
    BY <1>2 DEF Quiet, Registers
  <2>2. Ends(At, out /\ ~ack) \/ GoesOn(At, out /\ ~ack)
    BY <1>1 DEF Ends, GoesOn, Begins, Ready
  <2> QED
    BY <1>1, <2>1, <2>2
<1>3. CASE Continue
  <2>1. /\ Remember(At, TRUE) /\ ack' = req.valid /\ rdata' = ReadMux
        /\ time' = NextTime /\ Ready
    BY <1>3 DEF Continue, Registers
  <2>2. Ends(At, TRUE) \/ Begins(At, TRUE) \/ GoesOn(At, TRUE)
    BY <2>1 DEF Ends, GoesOn, Begins
  <2> QED
    BY <1>1, <2>1, <2>2
<1>4. ASSUME NEW g \in Goals, Program(g)
      PROVE  /\ Remember("ones", TRUE) /\ ack' = req.valid /\ rdata' = ReadMux
             /\ time' = NextTime /\ Ends("ones", TRUE) /\ "ones" \in Steps
  BY <1>4 DEF Program, Registers, Ends, Readings, Steps
<1>5. CASE ReadTime
  <2>1. /\ Remember("readhi", TRUE) /\ ack' = req.valid /\ rdata' = ReadMux
        /\ time' = NextTime /\ Begins("readhi", TRUE) /\ "readhi" \in Steps
    BY <1>5 DEF ReadTime, Registers, Begins, Readings, Steps
  <2> QED
    BY <2>1
<1>6. ASSUME NEW half \in Settings, NEW d \in 0 .. Ones, SetTime(half, d)
      PROVE  /\ Remember(half, TRUE) /\ ack' = req.valid /\ rdata' = ReadMux
             /\ time' = NextTime /\ Ends(half, TRUE) /\ half \in Steps
  BY <1>6 DEF SetTime, Registers, Ends, Readings, Settings, Steps
<1> QED
  BY <1>2, <1>3, <1>4, <1>5, <1>6 DEF ClintNext

(* While software reads, nothing writes the time.                          *)
LEMMA ReadingCounts ==
  ASSUME ClintInv, step \in Readings \/ ~req.valid
  PROVE  NextTime = Inc(time)
<1>1. ~(req.valid /\ req.we)
  BY DEF ClintInv, OneAccess, Access, Request, Readings, Settings
<1> QED
  BY <1>1 DEF NextTime, Writes

LEMMA BeginReading ==
  ASSUME ClintInv, NEW s, NEW o, Remember(s, o), Begins(s, o),
         ack' = req.valid, time' = NextTime
  PROVE  ReadInv'
<1> USE DEF ClintInv
<1>1. ~req.valid
  BY DEF Begins, Ready, OneAccess, ClintTypeOK
<1>2. /\ step' = "readhi" /\ ack' = FALSE
      /\ read' = [hi |-> 0, lo |-> 0, start |-> time, age |-> 1]
  BY <1>1 DEF Remember, Begins, Readings, ClintTypeOK
<1>3. time' = Inc(time) /\ time \in Time /\ time.hi \in 0 .. Ones /\ time.lo \in 0 .. Ones
  BY <1>1, ReadingCounts DEF ClintTypeOK, Time
<1>4. time.hi = Wrap(time.hi + 0) /\ 0 < Half
  BY <1>3, HalfAssumption DEF Wrap, Ones
<1>5. PICK d \in {0, 0 + 1} :
        /\ d < Half => Inc(time).hi = Wrap(time.hi + d)
        /\ d * Half + Inc(time).lo = 0 * Half + time.lo + 1
  BY <1>3, <1>4, IncCarries
<1>6. d \in Nat /\ d < Half /\ 0 * Half = 0
  BY HalfAssumption
<1>7. Carries(d, 0, 0, 0)'
  BY <1>2, <1>3, <1>5, <1>6 DEF Carries
<1> QED
  BY <1>6, <1>7 DEF ReadInv

LEMMA GoOnReading ==
  ASSUME ClintInv, ReadInv, NEW s, NEW o, Remember(s, o), GoesOn(s, o),
         ack' = req.valid, rdata' = ReadMux, time' = NextTime
  PROVE  ReadInv'
<1> SUFFICES ASSUME read'.age <= MaxAge
             PROVE  \E c, c1, c2, c3 \in Nat : Carries(c, c1, c2, c3)'
  BY DEF ReadInv
<1> USE DEF ClintInv
<1>1. /\ step \in Readings /\ s \in Readings /\ step' = s /\ s = At
      /\ step = "readhi" => out
      /\ step = "readhi" /\ ack => s = "readlo"
      /\ step = "readlo" => s = IF ack THEN "rereadhi" ELSE "readlo"
      /\ step = "rereadhi" => s = "rereadhi" /\ ~ack
      /\ ~ack => s = step
  BY DEF GoesOn, Begins, At, After, Readings, Remember, Ready, ClintTypeOK, OneAccess,
         Steps, Settings
<1>2. ~(s = "readhi" /\ Ready) /\ (s = "readhi" => o)
  BY DEF GoesOn
<1>3. read' = [Captured EXCEPT !.age = IF @ > MaxAge THEN @ ELSE @ + 1]
  BY <1>1, <1>2 DEF Remember
<1>4. /\ read.age \in Nat /\ read.start \in Time /\ read.hi \in 0 .. Ones
      /\ read.lo \in 0 .. Ones /\ rdata \in 0 .. Ones /\ time \in Time
      /\ read \in [hi : 0 .. Ones, lo : 0 .. Ones, start : Time, age : 0 .. MaxAge + 1]
  BY MaxAgeAssumption DEF ClintTypeOK
<1>5. /\ Captured \in [hi : 0 .. Ones, lo : 0 .. Ones, start : Time, age : 0 .. MaxAge + 1]
      /\ Captured.start = read.start /\ Captured.age = read.age
      /\ Captured.hi = (IF ack /\ step = "readhi" THEN rdata ELSE read.hi)
      /\ Captured.lo = (IF ack /\ step = "readlo" THEN rdata ELSE read.lo)
  BY <1>4 DEF Captured
<1>6. /\ read'.start = read.start /\ read'.hi = Captured.hi /\ read'.lo = Captured.lo
      /\ read'.age = read.age + 1 /\ read.age <= MaxAge
  BY <1>3, <1>4, <1>5, MaxAgeAssumption
<1>7. PICK c \in Nat, c1 \in Nat, c2 \in Nat, c3 \in Nat : Carries(c, c1, c2, c3)
  BY <1>1, <1>6 DEF ReadInv, Reading
<1>8. /\ time' = Inc(time) /\ Inc(time) \in Time
      /\ time.hi \in 0 .. Ones /\ time.lo \in 0 .. Ones
      /\ Inc(time).lo \in 0 .. Ones /\ read.start.hi \in 0 .. Ones
      /\ read.start.lo \in 0 .. Ones
  BY <1>1, <1>4, ReadingCounts, IncType DEF Time
<1>9. PICK d \in {c, c + 1} :
        /\ d < Half => Inc(time).hi = Wrap(read.start.hi + d)
        /\ d * Half + Inc(time).lo = c * Half + time.lo + 1
  BY <1>4, <1>7, <1>8, IncCarries DEF Carries
<1>10. /\ d \in Nat /\ c <= d /\ d < Half
       /\ time'.hi = Wrap(read'.start.hi + d)
       /\ d * Half + time'.lo = read'.start.lo + read'.age
  <2>1. d \in Nat /\ c <= d
    OBVIOUS
  <2>2. c * Half + time.lo = read.start.lo + read.age
    BY <1>7 DEF Carries
  <2>3. d * Half \in Nat /\ c * Half \in Nat
    BY <2>1, HalfAssumption
  <2>4. d * Half + Inc(time).lo = read.start.lo + (read.age + 1)
    BY <1>4, <1>8, <1>9, <2>2, <2>3 DEF Ones
  <2>5. d < Half
    BY <1>4, <1>6, <1>8, <2>1, <2>4, FewCarries
  <2> QED
    BY <1>6, <1>8, <1>9, <2>1, <2>4, <2>5
<1>11. req.valid => /\ ~ack
                    /\ rdata' = IF step = "readlo" THEN time.lo ELSE time.hi
  BY <1>1 DEF OneAccess, ReadMux, Access, Request, Readings, Settings
<1>12. ack' => req.valid /\ ~ack /\ s = step
  BY <1>1, <1>11 DEF ClintTypeOK
<1>13. step = "readhi" => (s = "readhi" /\ ~ack) \/ (s = "readlo" /\ ack)
  BY <1>1
<1>14. CASE step = "readhi" /\ ~ack
  <2>1. s = "readhi" /\ step' = "readhi"
    BY <1>1, <1>14
  <2>2. ack' => SeenHi' = Wrap(read'.start.hi + c)
    BY <1>6, <1>7, <1>11, <1>12, <1>14, <2>1 DEF SeenHi, Carries
  <2>3. Carries(d, c, c, c)'
    BY <1>10, <2>1, <2>2 DEF Carries
  <2> QED
    BY <1>7, <1>10, <2>3
<1>15. CASE step = "readhi" /\ ack
  <2>1. step' = "readlo" /\ ~ack'
    BY <1>1, <1>12, <1>15
  <2>2. SeenHi' = rdata /\ rdata = Wrap(read'.start.hi + c1) /\ c1 <= c
    BY <1>5, <1>6, <1>7, <1>15, <2>1 DEF SeenHi, Carries
  <2>3. c1 <= d
    BY <1>7, <1>10, <2>2
  <2>4. Carries(d, c1, c, c)'
    BY <1>10, <2>1, <2>2, <2>3 DEF Carries
  <2> QED
    BY <1>7, <1>10, <2>4
<1>16. CASE step = "readlo" /\ ~ack
  <2>1. step' = "readlo" /\ SeenHi' = read.hi /\ SeenHi = read.hi
    BY <1>1, <1>5, <1>6, <1>16 DEF SeenHi
  <2>2. c1 <= c /\ c1 <= d /\ SeenHi' = Wrap(read'.start.hi + c1)
    BY <1>6, <1>7, <1>10, <1>16, <2>1 DEF Carries
  <2>3. ack' => /\ read'.start.lo <= c * Half + SeenLo'
                /\ c * Half + SeenLo' <= read'.start.lo + read'.age
    <3>1. SUFFICES ASSUME ack' PROVE /\ read'.start.lo <= c * Half + SeenLo'
                                     /\ c * Half + SeenLo' <= read'.start.lo + read'.age
      OBVIOUS
    <3>2. SeenLo' = time.lo
      BY <1>11, <1>12, <1>16, <2>1, <3>1 DEF SeenLo
    <3>3. c * Half + time.lo = read.start.lo + read.age
      BY <1>7 DEF Carries
    <3> QED
      BY <1>4, <1>6, <1>8, <3>2, <3>3 DEF Ones
  <2>4. Carries(d, c1, c, c)'
    BY <1>10, <2>1, <2>2, <2>3 DEF Carries
  <2> QED
    BY <1>7, <1>10, <2>4
<1>17. CASE (step = "readlo" /\ ack) \/ step = "rereadhi"
  <2>1. step' = "rereadhi" /\ SeenHi = read.hi /\ SeenHi' = SeenHi /\ SeenLo' = SeenLo
    BY <1>1, <1>5, <1>6, <1>17 DEF SeenHi, SeenLo
  <2>2. /\ c1 <= c /\ SeenHi = Wrap(read.start.hi + c1)
        /\ c1 <= c2 /\ c2 <= c
        /\ read.start.lo <= c2 * Half + SeenLo
        /\ c2 * Half + SeenLo <= read.start.lo + read.age
    BY <1>7, <1>17 DEF Carries
  <2>3. SeenLo \in 0 .. Ones /\ c2 * Half \in Nat
    BY <1>4, HalfAssumption DEF SeenLo
  <2>4. c2 * Half + SeenLo <= read.start.lo + (read.age + 1)
    BY <1>4, <1>8, <2>2, <2>3 DEF Ones
  <2>5. c1 <= d /\ c2 <= d
    BY <1>10, <2>2
  <2>6. ack' => c2 <= c /\ c <= d /\ rdata' = Wrap(read'.start.hi + c)
    <3>1. ack' => rdata' = time.hi
      BY <1>1, <1>11, <1>12, <2>1
    <3> QED
      BY <1>6, <1>7, <1>10, <2>2, <3>1 DEF Carries
  <2>7. Carries(d, c1, c2, c)'
    BY <1>6, <1>10, <2>1, <2>2, <2>4, <2>5, <2>6 DEF Carries
  <2> QED
    BY <1>7, <1>10, <2>7
<1> QED
  BY <1>1, <1>14, <1>15, <1>16, <1>17 DEF Readings

LEMMA ReadStep == ClintInv /\ ReadInv /\ [ClintNext]_clintVars => ReadInv'
<1> SUFFICES ASSUME ClintInv, ReadInv, [ClintNext]_clintVars PROVE ReadInv'
  OBVIOUS
<1>1. CASE UNCHANGED clintVars
  BY <1>1 DEF clintVars, regVars, swVars, ReadInv, Reading, Carries, SeenHi, SeenLo
<1>2. CASE ClintNext
  <2>1. PICK s \in Steps, o \in BOOLEAN :
          /\ Remember(s, o) /\ ack' = req.valid /\ rdata' = ReadMux /\ time' = NextTime
          /\ Ends(s, o) \/ Begins(s, o) \/ GoesOn(s, o)
    BY <1>2, ReadingEdge
  <2>2. CASE Ends(s, o)
    BY <2>1, <2>2 DEF Remember, Ends, ReadInv, Reading
  <2>3. CASE Begins(s, o)
    BY <2>1, <2>3, BeginReading
  <2>4. CASE GoesOn(s, o)
    BY <2>1, <2>4, GoOnReading
  <2> QED
    BY <2>1, <2>2, <2>3, <2>4
<1> QED
  BY <1>1, <1>2

(* A value and the same value less the modulus.                            *)
LEMMA Modulo ==
  ASSUME NEW n \in Nat, NEW a \in Nat, a < n
  PROVE  a % n = a /\ (a - n) % n = a
OBVIOUS

LEMMA ReadingIsWhole == ClintInv /\ ReadInv => NoTornTime
<1> SUFFICES ASSUME ClintInv, ReadInv, ack, step = "rereadhi", rdata = read.hi,
                    read.age <= MaxAge
             PROVE  (Value(read) - Value(read.start)) % (Half * Half) <= read.age
  BY DEF NoTornTime
<1> DEFINE hi0 == read.start.hi
           lo0 == read.start.lo
           lo  == read.lo
           a   == read.age
<1>1. /\ hi0 \in 0 .. Ones /\ lo0 \in 0 .. Ones /\ lo \in 0 .. Ones /\ a \in Nat
      /\ read.hi \in 0 .. Ones
  BY DEF ClintInv, ClintTypeOK, Time
<1>2. PICK c \in Nat, c1 \in Nat, c2 \in Nat, c3 \in Nat : Carries(c, c1, c2, c3)
  BY DEF ReadInv, Reading, Readings
<1>3. /\ c < Half /\ c1 <= c2 /\ c2 <= c3 /\ c3 <= c
      /\ read.hi = Wrap(hi0 + c1) /\ read.hi = Wrap(hi0 + c3)
      /\ lo0 <= c2 * Half + lo /\ c2 * Half + lo <= lo0 + a
  BY <1>2 DEF Carries, SeenHi, SeenLo
<1> HIDE DEF hi0, lo0, lo, a
<1>4. c1 = c3 /\ c2 = c1
  BY <1>1, <1>3, HalfAssumption DEF Wrap, Ones
<1> DEFINE e == c2 * Half + lo - lo0
<1>5. Half \in Nat /\ Half >= 2 /\ Half * Half \in Nat /\ c2 * Half \in Nat
      /\ hi0 * Half \in Nat
  BY <1>1, HalfAssumption DEF Ones
<1>6. e \in Nat /\ e <= a /\ e < Half * Half
  BY <1>1, <1>3, <1>5, MaxAgeAssumption DEF Ones, a
<1>7. Value(read.start) = hi0 * Half + lo0 /\ Value(read) = read.hi * Half + lo
  BY DEF Value, hi0, lo0, lo
<1>8. CASE hi0 + c2 < Half
  <2>1. read.hi = hi0 + c2
    BY <1>3, <1>4, <1>8 DEF Wrap
  <2>2. (hi0 + c2) * Half = hi0 * Half + c2 * Half
    BY <1>1, <1>5 DEF Ones
  <2>3. Value(read) - Value(read.start) = e
    BY <1>1, <1>5, <1>7, <2>1, <2>2 DEF Ones
  <2> HIDE DEF e
  <2> QED
    BY <1>5, <1>6, <2>3, Modulo DEF a
<1>9. CASE hi0 + c2 >= Half
  <2>1. read.hi = hi0 + c2 - Half
    <3>1. Wrap(hi0 + c2) = hi0 + c2 - Half
      BY <1>1, <1>5, <1>9 DEF Wrap, Ones
    <3>2. read.hi = Wrap(hi0 + c2)
      BY <1>3, <1>4
    <3> QED
      BY <3>1, <3>2
  <2>2. (hi0 + c2 - Half) * Half = hi0 * Half + c2 * Half - Half * Half
    BY <1>1, <1>5 DEF Ones
  <2>3. Value(read) - Value(read.start) = e - Half * Half
    BY <1>1, <1>5, <1>7, <2>1, <2>2 DEF Ones
  <2> HIDE DEF e
  <2> QED
    BY <1>5, <1>6, <2>3, Modulo DEF a
<1> QED
  BY <1>1, <1>5, <1>8, <1>9 DEF Ones

(* A high-low-high reading whose high halves agree is a time that the      *)
(* counter had while it was read, for halves of any width and wherever the *)
(* carries fall.                                                           *)
THEOREM ClintNoTornTime == ClintSpec => []NoTornTime
<1>1. ClintInit => ReadInv
  BY DEF ClintInit, ReadInv, Reading, Readings
<1>2. QED
  BY <1>1, ReadStep, ReadingIsWhole, ClintInvariant, PTL DEF ClintSpec
=============================================================================
