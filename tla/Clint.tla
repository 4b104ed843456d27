-------------------------------- MODULE Clint --------------------------------
(***************************************************************************)
(* The machine timer of mmio.v behind its registered bus port, and the     *)
(* software protocols its two-word registers need.                         *)
(*                                                                         *)
(* A 64-bit register is a pair of halves below Half (2^32 in the code).    *)
(* One action is one clock edge.  Software is external: it programs the    *)
(* comparator low word first with all ones, reads the time high-low-high   *)
(* and retries, as PRIVILEGED_RTOS.md asks, and may set either half of the *)
(* time; it issues one request at a time, also in the very cycle of the    *)
(* previous answer, and waits in between as long as it likes.              *)
(***************************************************************************)
EXTENDS Integers

CONSTANTS
  Half,     (* values of one half of a register                             *)
  Goals,    (* comparator values software asks for                          *)
  MaxAge    (* cycles a reading takes for which it is judged                *)

Ones == Half - 1
Time == [hi : 0 .. Ones, lo : 0 .. Ones]

ASSUME HalfAssumption == Half \in Nat /\ Half >= 2
ASSUME GoalsAssumption == Goals \subseteq Time
(* The high half does not come around within such a reading.               *)
ASSUME MaxAgeAssumption == MaxAge \in Nat /\ MaxAge < Half * (Half - 1)

VARIABLES
  req,      (* mmio.v req_valid, req_we, req_addr, req_data                 *)
  ack,      (* mmio.v bus_ack                                               *)
  rdata,    (* mmio.v r_data                                                *)
  time,     (* mmio.v cycle_cnt                                             *)
  cmp,      (* mmio.v mtimecmp                                              *)
  irq,      (* mmio.v irq_timer                                             *)
  step,     (* software: the access it is at, or "idle"                     *)
  out,      (* software: that access is on the bus (bus_interconnect.v)     *)
  goal,     (* software: the comparator value it wants                      *)
  old,      (* software: the one it is replacing                            *)
  read,     (* software: words read so far, when it began, how long ago     *)
  prev      (* history: the time one cycle ago                              *)

regVars == << req, ack, rdata, time, cmp, irq >>
swVars == << step, out, goal, old, read >>
clintVars == << regVars, swVars, prev >>

GEq(a, b) == a.hi > b.hi \/ (a.hi = b.hi /\ a.lo >= b.lo)
Inc(t) == IF t.lo < Ones THEN [t EXCEPT !.lo = t.lo + 1]
          ELSE [hi |-> IF t.hi < Ones THEN t.hi + 1 ELSE 0, lo |-> 0]

(***************************************************************************)
(* mmio.v.                                                                 *)
(***************************************************************************)
NoRequest == [valid |-> FALSE, we |-> FALSE, off |-> "other", data |-> 0]
Request(we, off, data) ==
  [valid |-> TRUE, we |-> we, off |-> off, data |-> data]

Writes(off) == req.valid /\ req.we /\ req.off = off

(* Mutant: a half write replaces the whole register. *)
WrittenWhole(t, off) ==
  IF off \in {"cmplo", "timelo"} THEN [hi |-> 0, lo |-> req.data]
  ELSE [hi |-> req.data, lo |-> 0]

Written(t, off) ==
  IF off \in {"cmplo", "timelo"} THEN [t EXCEPT !.lo = req.data]
  ELSE [t EXCEPT !.hi = req.data]

NextTime ==
  IF Writes("timelo") THEN Written(time, "timelo")
  ELSE IF Writes("timehi") THEN Written(time, "timehi")
  ELSE Inc(time)
NextCmp ==
  IF Writes("cmplo") THEN Written(cmp, "cmplo")
  ELSE IF Writes("cmphi") THEN Written(cmp, "cmphi")
  ELSE cmp

ReadMux ==
  CASE req.off = "timelo" -> time.lo
    [] req.off = "timehi" -> time.hi
    [] req.off = "cmplo"  -> cmp.lo
    [] req.off = "cmphi"  -> cmp.hi
    [] OTHER              -> 0

(* Mutant: an executed request stays valid. *)
RegistersKept(strobe) ==
  /\ req' = IF strobe.valid THEN strobe ELSE req
  /\ ack' = req.valid
  /\ rdata' = ReadMux
  /\ time' = NextTime
  /\ cmp' = NextCmp
  /\ irq' = GEq(time, cmp)

(* Mutant: the request is answered before it is executed. *)
RegistersEarly(strobe) ==
  /\ req' = IF strobe.valid THEN strobe ELSE [req EXCEPT !.valid = FALSE]
  /\ ack' = strobe.valid
  /\ rdata' = ReadMux
  /\ time' = NextTime
  /\ cmp' = NextCmp
  /\ irq' = GEq(time, cmp)

(* The registers take the strobe of this cycle and execute the request of  *)
(* the previous one; the comparison is registered as well.                 *)
Registers(strobe) ==
  /\ req' = IF strobe.valid THEN strobe ELSE [req EXCEPT !.valid = FALSE]
  /\ ack' = req.valid
  /\ rdata' = ReadMux
  /\ time' = NextTime
  /\ cmp' = NextCmp
  /\ irq' = GEq(time, cmp)

(***************************************************************************)
(* Software, which sees the answer of its access in the cycle of ack.      *)
(***************************************************************************)
Readings == {"readhi", "readlo", "rereadhi"}
Settings == {"timelo", "timehi"}
Steps == Readings \cup Settings \cup {"idle", "ones", "high", "low"}

Origin == [hi |-> 0, lo |-> 0]
NotReading == [hi |-> 0, lo |-> 0, start |-> Origin, age |-> 0]

(* The access of a step of the protocols, g the comparator value wanted.   *)
Access(s, g) ==
  CASE s = "ones"      -> Request(TRUE, "cmplo", Ones)
    [] s = "high"      -> Request(TRUE, "cmphi", g.hi)
    [] s = "low"       -> Request(TRUE, "cmplo", g.lo)
    [] s = "readlo"    -> Request(FALSE, "timelo", 0)
    [] s \in {"readhi", "rereadhi"} -> Request(FALSE, "timehi", 0)

(* The step software is at in this cycle, the answer taken into account.   *)
After(s) ==
  CASE s = "ones"   -> "high"
    [] s = "high"   -> "low"
    [] s = "readhi" -> "readlo"
    [] s = "readlo" -> "rereadhi"
    [] s = "rereadhi" /\ rdata # read.hi -> "readhi"
    [] OTHER        -> "idle"
At == IF ack THEN After(step) ELSE step
Ready == ~out \/ ack

Captured ==
  IF ack /\ step = "readhi" THEN [read EXCEPT !.hi = rdata]
  ELSE IF ack /\ step = "readlo" THEN [read EXCEPT !.lo = rdata]
  ELSE read

(* What software remembers after an edge at which it is at step s, on the  *)
(* bus (o) or not; a reading begins when its first access is issued.       *)
Remember(s, o) ==
  /\ step' = s
  /\ out' = o
  /\ old' = IF ack /\ step = "low" THEN goal ELSE old
  /\ prev' = time
  /\ read' =
       IF s \notin Readings \/ (s = "readhi" /\ ~o) THEN NotReading
       ELSE IF s = "readhi" /\ Ready 
            THEN [hi |-> 0, lo |-> 0, start |-> time, age |-> 1]
       ELSE [Captured EXCEPT !.age = IF @ > MaxAge THEN @ ELSE @ + 1]

(* No strobe: the access on the bus is waited for, or software does        *)
(* something else.                                                         *)
Quiet ==
  /\ Registers(NoRequest)
  /\ Remember(At, out /\ ~ack)
  /\ UNCHANGED goal

(* The next access of what software is doing.                              *)
Continue ==
  /\ Ready /\ At # "idle"
  /\ Registers(Access(At, goal))
  /\ Remember(At, TRUE)
  /\ UNCHANGED goal

(* Software begins to program the comparator, to read the time or to set   *)
(* half of it.                                                             *)
Program(g) ==
  /\ Ready /\ At = "idle"
  /\ Registers(Access("ones", g))
  /\ Remember("ones", TRUE)
  /\ goal' = g

ReadTime ==
  /\ Ready /\ At = "idle"
  /\ Registers(Access("readhi", goal))
  /\ Remember("readhi", TRUE)
  /\ UNCHANGED goal

SetTime(half, d) ==
  /\ Ready /\ At = "idle"
  /\ Registers(Request(TRUE, half, d))
  /\ Remember(half, TRUE)
  /\ UNCHANGED goal

ClintInit ==
  /\ req = NoRequest /\ ack = FALSE /\ rdata = 0
  /\ time = Origin /\ prev = Origin
  /\ cmp = [hi |-> Ones, lo |-> Ones]
  /\ irq = FALSE
  /\ step = "idle" /\ out = FALSE /\ read = NotReading
  /\ goal = cmp /\ old = cmp

ClintNext ==
  \/ Quiet
  \/ Continue
  \/ \E g \in Goals : Program(g)
  \/ ReadTime
  \/ \E half \in Settings, d \in 0 .. Ones : SetTime(half, d)

ClintSpec == ClintInit /\ [][ClintNext]_clintVars

(***************************************************************************)
(* Properties.                                                             *)
(***************************************************************************)

(* Types of mmio.v's registers and of what software remembers.             *)
Offsets == {"other", "cmplo", "cmphi", "timelo", "timehi"}
ClintTypeOK ==
  /\ req \in [valid : BOOLEAN, we : BOOLEAN, off : Offsets, data : 0 .. Ones]
  /\ ack \in BOOLEAN /\ irq \in BOOLEAN /\ out \in BOOLEAN
  /\ rdata \in 0 .. Ones
  /\ time \in Time /\ cmp \in Time /\ prev \in Time
  /\ goal \in Time /\ old \in Time
  /\ step \in Steps
  /\ read \in [hi : 0 .. Ones, lo : 0 .. Ones, start : Time,
               age : 0 .. MaxAge + 1]

(* One access at a time: it waits, is executed, and is answered.           *)
OneAccess ==
  /\ req.valid => out /\ ~ack
  /\ ack => out
  /\ out /\ ~ack => req.valid
  /\ IF out THEN step # "idle" ELSE step \notin Settings
  /\ req.valid =>
       IF step \in Settings THEN req.we /\ req.off = step
       ELSE req = Access(step, goal)

(* The comparator on its way from old to goal.                             *)
CmpOnItsWay ==
  /\ step \notin {"ones", "high", "low"} => cmp = goal /\ old = goal
  /\ step = "ones" => cmp = IF ack THEN [old EXCEPT !.lo = Ones] ELSE old
  /\ step = "high" =>
       cmp = [hi |-> IF ack THEN goal.hi ELSE old.hi, lo |-> Ones]
  /\ step = "low" =>
       cmp = [hi |-> goal.hi, lo |-> IF ack THEN goal.lo ELSE Ones]

(* The timer interrupt follows the comparator one cycle late; in every     *)
(* cycle but that of an answer, so for every instruction behind a store to *)
(* the comparator, it is the comparison with the comparator as it stands.  *)
TimerSettles == ~ack => irq = GEq(prev, cmp)

(* While the comparator is programmed word by word, the interrupt is only  *)
(* raised when the old or the new value had been reached: no combination   *)
(* of old and new words raises it early.                                   *)
NoEarlyTimer == irq => GEq(prev, old) \/ GEq(prev, goal)

(* The inductive invariant.                                                *)
ClintInv ==
  /\ ClintTypeOK /\ OneAccess /\ CmpOnItsWay /\ TimerSettles /\ NoEarlyTimer

(* A time read high-low-high lies between the start of the reading and     *)
(* now, whatever carry fell between the halves.                            *)
Value(t) == t.hi * Half + t.lo
NoTornTime ==
  ack /\ step = "rereadhi" /\ rdata = read.hi /\ read.age <= MaxAge =>
    (Value(read) - Value(read.start)) % (Half * Half) <= read.age
=============================================================================
