----------------------------- MODULE RtosProofs -----------------------------
(***************************************************************************)
(* Proofs about Rtos, for every tick rate, cost of a step and number of    *)
(* iterations: types, critical sections, contexts, fair time slices and a  *)
(* final verdict, from RtosInv; that preemption is needed, from            *)
(* PreemptionInv; the number of traps and the success of the               *)
(* demonstration, for ticks that are long enough for the steps, from       *)
(* ScheduleInv and ProgressInv.                                            *)
(***************************************************************************)
EXTENDS Rtos, SequenceTheorems, TLAPS

(* Where a worker can be switched out, and what the monitor executes.      *)
Switchable    == {"guard", "yield", "check", "count", "enter1"}
Critical      == {"enter2", "status", "exit2", "exit1"}
InWorker      == Switchable \cup Critical
Final         == {"led", "tohost", "wfi"}
InMonitor     == {"delay", "suspend", "fail"} \cup Final

(* The worker that ran last is at the end of its list.                     *)
Lists(q, l) ==
  /\ q \in [Priorities -> Seq(Tasks)]
  /\ q[0] = << "idle" >> /\ q[3] = << >>
  /\ q[1] = IF l = "workerA" THEN << "workerB", "workerA" >>
            ELSE << "workerA", "workerB" >>
  /\ q[2] \in {<< >>, << "monitor" >>}

(* Whoever is switched out is outside critical sections, and a worker      *)
(* that has loaded its guard keeps it.                                     *)
Contexts(saved) ==
  /\ \A t \in Tasks : saved[t].nesting = 0 /\ saved[t].mpie = TRUE
  /\ saved["monitor"].pc = "delay"
  /\ \A w \in Workers : /\ saved[w].pc \in Switchable
                        /\ saved[w].pc # "guard" => saved[w].s2 = Guard[w]

(* Before the scheduler starts, task by task.                              *)
BootInv ==
  /\ mstatus.mie = FALSE /\ trap = "none" /\ nesting = 1 /\ tohost = 0
  /\ wake = 0 /\ i = 0 /\ last = "none"
  /\ \/ pc = "create1" /\ current = "none" /\ ready[1] = << >> /\ ready[2] = << >>
     \/ pc = "create2" /\ current = "workerA"
        /\ ready[1] = << "workerA" >> /\ ready[2] = << >>
     \/ pc = "create3" /\ current = "workerB"
        /\ ready[1] = << "workerA", "workerB" >> /\ ready[2] = << >>
     \/ pc = "start" /\ current = "monitor"
        /\ ready[1] = << "workerA", "workerB" >> /\ ready[2] = << "monitor" >>
  /\ ready[0] = << >> /\ ready[3] = << >>

(* The task that runs is where its program can be, with its own registers. *)
RunningOK ==
  /\ current \in Workers \cup {"monitor"}
  /\ current \in Workers =>
       /\ pc \in InWorker /\ last = current
       /\ pc # "guard" => s2 = Guard[current]
  /\ current = "monitor" =>
       /\ pc \in InMonitor
       /\ pc # "suspend" /\ trap # "ecall" => ready[2] = << "monitor" >>
  /\ wake # 0 <=> ready[2] = << >>

(* Interrupts are off in critical sections, in a trap and behind the       *)
(* verdict, and nowhere else.                                              *)
InterruptsOK ==
  /\ nesting = Depth(pc)
  /\ trap = "none" /\ pc \notin Critical \cup Final => mstatus.mie = TRUE
  /\ trap # "none" \/ pc \in Critical \cup Final => mstatus.mie = FALSE
  /\ trap # "none" => mstatus.mpie = TRUE /\ pc \notin Critical \cup Final
  /\ trap = "ecall" => pc \in {"check", "delay"}
  /\ trap = "timer" => clock >= TickCycles

CodesOK ==
  /\ code["monitor"] \in {"0", "f004"}
  /\ \A t \in Workers \cup {"idle", "main"} : code[t] = "0"

RunInv ==
  /\ Lists(ready, last) /\ RunningOK /\ InterruptsOK
  /\ tohost = 1 => pc = "wfi"

RtosInv ==
  /\ RtosTypeOK /\ Contexts(context) /\ CodesOK
  /\ started => RunInv
  /\ ~started => BootInv

(***************************************************************************)
(* Lists and switches.                                                     *)
(***************************************************************************)
LEMMA AppendPair ==
  ASSUME NEW x \in Tasks, NEW y \in Tasks
  PROVE  Append(<< x >>, y) = << x, y >>
<1>1. /\ Append(<< x >>, y) \in Seq(Tasks) /\ Len(Append(<< x >>, y)) = 2
      /\ Append(<< x >>, y)[1] = x /\ Append(<< x >>, y)[2] = y
  OBVIOUS
<1>2. << x, y >> \in Seq(Tasks) /\ Len(<< x, y >>) = 2
  OBVIOUS
<1>3. \A k \in 1 .. Len(Append(<< x >>, y)) : Append(<< x >>, y)[k] = << x, y >>[k]
  BY <1>1
<1>4. QED
  BY <1>1, <1>2, <1>3, SeqEqual

LEMMA Pairs ==
  ASSUME NEW x \in Tasks, NEW y \in Tasks
  PROVE  /\ << x, y >> # << >> /\ Head(<< x, y >>) = x /\ Len(<< x, y >>) = 2
         /\ Append(Tail(<< x, y >>), Head(<< x, y >>)) = << y, x >>
<1>1. /\ << x, y >> # << >> /\ Head(<< x, y >>) = x /\ Len(<< x, y >>) = 2
      /\ Tail(<< x, y >>) = << y >>
  OBVIOUS
<1>2. QED
  BY <1>1, AppendPair

LEMMA Singles ==
  ASSUME NEW x \in Tasks
  PROVE  /\ << x >> # << >> /\ Head(<< x >>) = x /\ Len(<< x >>) = 1
         /\ Append(Tail(<< x >>), Head(<< x >>)) = << x >> /\ Append(<< >>, x) = << x >>
         /\ SubSeq(<< x >>, 1, Len(<< x >>) - 1) = << >>
<1>1. /\ << x >> # << >> /\ Head(<< x >>) = x /\ Len(<< x >>) = 1
      /\ Tail(<< x >>) = << >>
  OBVIOUS
<1>2. Append(<< >>, x) = << x >>
  OBVIOUS
<1>3. SubSeq(<< x >>, 1, 0) = << >>
  OBVIOUS
<1>4. QED
  BY <1>1, <1>2, <1>3

LEMMA HighestIsMonitor ==
  ASSUME NEW q, q[2] # << >>, q[3] = << >>
  PROVE  Highest(q) = 2
<1>1. \A p \in Priorities : (q[p] # << >> /\ \A r \in Priorities : r > p => q[r] = << >>)
                            <=> p = 2
  BY DEF Priorities, configMAX_PRIORITIES
<1>2. 2 \in Priorities
  BY DEF Priorities, configMAX_PRIORITIES
<1>3. QED
  BY <1>1, <1>2 DEF Highest

LEMMA HighestIsWorker ==
  ASSUME NEW q, q[1] # << >>, q[2] = << >>, q[3] = << >>
  PROVE  Highest(q) = 1
<1>1. \A p \in Priorities : (q[p] # << >> /\ \A r \in Priorities : r > p => q[r] = << >>)
                            <=> p = 1
  BY DEF Priorities, configMAX_PRIORITIES
<1>2. 1 \in Priorities
  BY DEF Priorities, configMAX_PRIORITIES
<1>3. QED
  BY <1>1, <1>2 DEF Highest

(* What a switch restores: the monitor if it is ready, otherwise the       *)
(* worker that did not run last, each with its own registers.              *)
LEMMA DispatchOK ==
  ASSUME NEW saved \in [Tasks -> Context], Contexts(saved),
         NEW q, Lists(q, last), last \in Workers \cup {"none"}, Dispatch(saved, q)
  PROVE  /\ context' = saved /\ Lists(ready', last') /\ ready'[2] = q[2]
         /\ nesting' = 0 /\ mstatus' = [mie |-> TRUE, mpie |-> TRUE]
         /\ \/ /\ q[2] = << "monitor" >> /\ current' = "monitor"
               /\ last' = last /\ pc' = "delay" /\ s2' \in Guards
            \/ /\ current' \in Workers /\ current' # last /\ last' = current'
               /\ pc' \in Switchable /\ s2' \in Guards
               /\ pc' # "guard" => s2' = Guard[current']
<1>1. /\ q \in [Priorities -> Seq(Tasks)] /\ q[0] = << "idle" >> /\ q[3] = << >>
      /\ q[2] \in {<< >>, << "monitor" >>}
      /\ Priorities = 0 .. 3 /\ 1 \in Priorities /\ 2 \in Priorities
  BY DEF Lists, Priorities, configMAX_PRIORITIES
<1>2. ASSUME NEW t \in Tasks, t = Head(q[Highest(q)])
      PROVE  /\ current' = t /\ ready' = Rotate(q, Highest(q))
             /\ context' = saved /\ pc' = saved[t].pc /\ s2' = saved[t].s2
             /\ nesting' = 0 /\ mstatus' = [mie |-> TRUE, mpie |-> TRUE]
             /\ last' = (IF t \in Workers THEN t ELSE last) /\ s2' \in Guards
  BY <1>2 DEF Dispatch, Contexts, Context
<1>3. CASE q[2] = << "monitor" >>
  <2>1. Highest(q) = 2 /\ Head(q[2]) = "monitor" /\ "monitor" \in Tasks
    BY <1>1, <1>3, HighestIsMonitor, Singles DEF Tasks
  <2>2. /\ current' = "monitor" /\ ready' = Rotate(q, 2) /\ context' = saved
        /\ pc' = "delay" /\ s2' \in Guards /\ last' = last
        /\ nesting' = 0 /\ mstatus' = [mie |-> TRUE, mpie |-> TRUE]
    BY <1>2, <2>1 DEF Contexts, Workers
  <2>3. Append(Tail(q[2]), Head(q[2])) = << "monitor" >>
    BY <1>3, <2>1, Singles
  <2>4. ready' = [q EXCEPT ![2] = << "monitor" >>]
    BY <2>2, <2>3 DEF Rotate
  <2>5. ready' = q
    BY <1>1, <1>3, <2>4
  <2>6. QED
    BY <1>3, <2>2, <2>5
<1>4. CASE q[2] = << >>
  <2> DEFINE first  == IF last = "workerA" THEN "workerB" ELSE "workerA"
             second == IF last = "workerA" THEN "workerA" ELSE "workerB"
  <2>1. q[1] = << first, second >>
    BY DEF Lists
  <2>2. first \in Workers /\ first \in Tasks /\ second \in Tasks /\ first # last
    BY DEF Workers, Tasks
  <2> HIDE DEF first, second
  <2>3. q[1] # << >> /\ Head(q[1]) = first
    BY <2>1, <2>2, Pairs
  <2>4. Highest(q) = 1
    BY <1>1, <1>4, <2>3, HighestIsWorker
  <2>5. /\ current' = first /\ ready' = Rotate(q, 1) /\ context' = saved
        /\ pc' = saved[first].pc /\ s2' = saved[first].s2 /\ s2' \in Guards
        /\ last' = first /\ nesting' = 0
        /\ mstatus' = [mie |-> TRUE, mpie |-> TRUE]
    BY <1>2, <2>2, <2>3, <2>4
  <2>6. Append(Tail(q[1]), Head(q[1])) = << second, first >>
    BY <2>1, <2>2, Pairs
  <2>7. ready' = [q EXCEPT ![1] = << second, first >>]
    BY <2>5, <2>6 DEF Rotate
  <2>8. << second, first >> \in Seq(Tasks)
    BY <2>2
  <2>9. /\ ready' \in [Priorities -> Seq(Tasks)] /\ ready'[0] = << "idle" >>
        /\ ready'[3] = << >> /\ ready'[2] = q[2] /\ ready'[1] = << second, first >>
    BY <1>1, <2>7, <2>8
  <2>10. << second, first >> = IF first = "workerA" THEN << "workerB", "workerA" >>
                               ELSE << "workerA", "workerB" >>
    BY DEF first, second
  <2>11. Lists(ready', last')
    BY <1>1, <2>5, <2>9, <2>10 DEF Lists
  <2>12. saved[first].pc \in Switchable
         /\ (saved[first].pc # "guard" => saved[first].s2 = Guard[first])
    BY <2>2 DEF Contexts
  <2>13. QED
    BY <2>2, <2>5, <2>9, <2>11, <2>12
<1>5. QED
  BY <1>1, <1>3, <1>4

(***************************************************************************)
(* Steps.                                                                  *)
(***************************************************************************)
LEMMA TickType == TickCycles \in Nat \ {0}
BY RtosAssumption DEF TickCycles

(* The invariant of the running system, part by part.                      *)
LEMMA InvAfter ==
  ASSUME RtosTypeOK', Contexts(context'), CodesOK', started',
         Lists(ready', last'), RunningOK', InterruptsOK', tohost' = 1 => pc' = "wfi"
  PROVE  RtosInv'
BY DEF RtosInv, RunInv, Lists, Contexts

LEMMA WorkerStep ==
  ASSUME RtosInv, NEW c \in Costs, Worker(c)
  PROVE  RtosInv'
<1>1. pc \in InWorker /\ trap = "none" /\ ~InterruptPending
  BY DEF Worker, LoadGuard, Yield, CheckGuard, Count, EnterCritical, ReadStatus,
         ExitCritical, At, InWorker, Switchable, Critical
<1>2. /\ started /\ RunInv /\ RtosTypeOK /\ Contexts(context) /\ CodesOK
  BY <1>1 DEF RtosInv, BootInv, InWorker, Switchable, Critical
<1>3. /\ current \in Workers /\ current # "monitor" /\ last = current /\ tohost # 1
      /\ pc # "guard" => s2 = Guard[current]
  BY <1>1, <1>2 DEF RunInv, RunningOK, InMonitor, InWorker, Switchable, Critical, Final,
                    Workers
<1>4. c \in Nat /\ clock \in Nat /\ clock + c \in Nat
  BY <1>2, RtosAssumption DEF RtosTypeOK
<1>5. Guard[current] \in Guards
  BY <1>3 DEF Guard, Guards, Workers
<1> USE DEF At, Goto, Elapse, kernel, report, history, Switchable, Critical,
           InWorker, Final
<1>6. CASE LoadGuard(c)
  <2>1. RtosTypeOK'
    BY <1>2, <1>4, <1>5, <1>6 DEF LoadGuard, RtosTypeOK, Labels
  <2>2. RunningOK' /\ InterruptsOK'
    BY <1>1, <1>2, <1>3, <1>6 DEF LoadGuard, RunInv, RunningOK, InterruptsOK, Depth
  <2>3. CodesOK'
    BY <1>2, <1>6 DEF LoadGuard, CodesOK
  <2>4. QED
    BY <1>2, <1>3, <1>6, <2>1, <2>2, <2>3, InvAfter DEF LoadGuard, RunInv
<1>7. CASE Yield
  <2>1. RtosTypeOK'
    BY <1>2, <1>7 DEF Yield, Ecall, TrapEntry, RtosTypeOK, Labels
  <2>2. RunningOK'
    BY <1>1, <1>2, <1>3, <1>7 DEF Yield, Ecall, TrapEntry, RunInv, RunningOK
  <2>3. InterruptsOK'
    BY <1>1, <1>2, <1>7 DEF Yield, Ecall, TrapEntry, RunInv, InterruptsOK, Depth
  <2>4. CodesOK'
    BY <1>2, <1>7 DEF Yield, Ecall, CodesOK
  <2>5. QED
    BY <1>2, <1>3, <1>7, <2>1, <2>2, <2>3, <2>4, InvAfter DEF Yield, Ecall, RunInv
<1>8. CASE CheckGuard(c)
  <2>1. s2 = Guard[current] /\ pc' = "count" /\ code' = code
    BY <1>3, <1>8 DEF CheckGuard
  <2>2. RtosTypeOK'
    BY <1>2, <1>4, <1>8, <2>1 DEF CheckGuard, RtosTypeOK, Labels
  <2>3. RunningOK' /\ InterruptsOK'
    BY <1>1, <1>2, <1>3, <1>8, <2>1
       DEF CheckGuard, RunInv, RunningOK, InterruptsOK, Depth
  <2>4. CodesOK'
    BY <1>2, <2>1 DEF CodesOK
  <2>5. QED
    BY <1>2, <1>3, <1>8, <2>2, <2>3, <2>4, InvAfter DEF CheckGuard, RunInv
<1>9. CASE Count(c)
  <2> DEFINE n == (progress[current] + 1) % CounterSize
  <2>1. pc' \in {"enter1", "check"} /\ progress' = [progress EXCEPT ![current] = n]
    BY <1>9 DEF Count, AfterCount
  <2>2. n \in 0 .. CounterSize - 1
    BY <1>2, <1>3, RtosAssumption DEF RtosTypeOK
  <2> HIDE DEF n
  <2>3. progress' \in [Workers -> 0 .. CounterSize - 1]
    BY <1>2, <1>3, <2>1, <2>2 DEF RtosTypeOK
  <2>4. RtosTypeOK'
    BY <1>2, <1>4, <1>9, <2>1, <2>3 DEF Count, RtosTypeOK, Labels
  <2>5. RunningOK' /\ InterruptsOK'
    BY <1>1, <1>2, <1>3, <1>9, <2>1 DEF Count, RunInv, RunningOK, InterruptsOK, Depth
  <2>6. CodesOK'
    BY <1>2, <1>9 DEF Count, CodesOK
  <2>7. QED
    BY <1>2, <1>3, <1>9, <2>4, <2>5, <2>6, InvAfter DEF Count, RunInv
<1>10. ASSUME NEW here, NEW next, EnterCritical(here, next, c),
              << here, next >> \in {<< "enter1", "enter2" >>, << "enter2", "status" >>}
       PROVE  RtosInv'
  <2>1. /\ pc = here /\ pc' = next /\ nesting' = nesting + 1
        /\ mstatus' = [mstatus EXCEPT !.mie = FALSE]
        /\ \/ here = "enter1" /\ next = "enter2"
           \/ here = "enter2" /\ next = "status"
    BY <1>10 DEF EnterCritical
  <2>2. RtosTypeOK'
    <3>1. mstatus' \in [mie : BOOLEAN, mpie : BOOLEAN]
      BY <1>2, <2>1 DEF RtosTypeOK
    <3>2. nesting' \in Nat /\ pc' \in Labels
      BY <1>2, <2>1 DEF RtosTypeOK, Labels
    <3>3. QED
      BY <1>2, <1>4, <1>10, <3>1, <3>2 DEF EnterCritical, RtosTypeOK
  <2>3. RunningOK'
    BY <1>1, <1>2, <1>3, <1>10, <2>1 DEF EnterCritical, RunInv, RunningOK
  <2>4. mstatus'.mie = FALSE
    BY <1>2, <2>1 DEF RtosTypeOK
  <2>5. InterruptsOK'
    BY <1>1, <1>2, <1>10, <2>1, <2>4 DEF EnterCritical, RunInv, InterruptsOK, Depth
  <2>6. CodesOK'
    BY <1>2, <1>10 DEF EnterCritical, CodesOK
  <2>7. QED
    BY <1>2, <1>3, <1>10, <2>2, <2>3, <2>5, <2>6, InvAfter DEF EnterCritical, RunInv
<1>11. CASE ReadStatus(c)
  <2>1. mstatus.mie = FALSE
    BY <1>2, <1>11 DEF ReadStatus, RunInv, InterruptsOK
  <2>2. pc' = "exit2" /\ code' = code
    BY <1>11, <2>1 DEF ReadStatus
  <2>3. RtosTypeOK'
    BY <1>2, <1>4, <1>11, <2>2 DEF ReadStatus, RtosTypeOK, Labels
  <2>4. RunningOK' /\ InterruptsOK'
    BY <1>1, <1>2, <1>3, <1>11, <2>2
       DEF ReadStatus, RunInv, RunningOK, InterruptsOK, Depth
  <2>5. CodesOK'
    BY <1>2, <2>2 DEF CodesOK
  <2>6. QED
    BY <1>2, <1>3, <1>11, <2>3, <2>4, <2>5, InvAfter DEF ReadStatus, RunInv
<1>12. ASSUME NEW here, NEW next, ExitCritical(here, next, c),
              << here, next >> \in {<< "exit2", "exit1" >>, << "exit1", "check" >>}
       PROVE  RtosInv'
  <2>1. /\ pc = here /\ pc' = next /\ nesting' = nesting - 1
        /\ mstatus' = [mstatus EXCEPT !.mie = (nesting = 1)]
        /\ \/ here = "exit2" /\ next = "exit1"
           \/ here = "exit1" /\ next = "check"
    BY <1>12 DEF ExitCritical, ExitsCritical
  <2>2. nesting = IF here = "exit2" THEN 2 ELSE 1
    BY <1>2, <2>1 DEF RunInv, InterruptsOK, Depth
  <2>3. RtosTypeOK'
    <3>1. mstatus' \in [mie : BOOLEAN, mpie : BOOLEAN]
      <4>1. (nesting = 1) \in BOOLEAN
        OBVIOUS
      <4>2. QED
        BY <1>2, <2>1, <4>1 DEF RtosTypeOK
    <3>2. nesting' \in Nat /\ pc' \in Labels
      BY <1>2, <2>1, <2>2 DEF RtosTypeOK, Labels
    <3>3. QED
      BY <1>2, <1>4, <1>12, <3>1, <3>2 DEF ExitCritical, RtosTypeOK
  <2>4. RunningOK'
    BY <1>1, <1>2, <1>3, <1>12, <2>1 DEF ExitCritical, RunInv, RunningOK
  <2>5. mstatus'.mie = IF here = "exit1" THEN TRUE ELSE FALSE
    <3>1. CASE here = "exit1"
      BY <1>2, <2>1, <2>2, <3>1 DEF RtosTypeOK
    <3>2. CASE here = "exit2"
      <4>1. ~(nesting = 1) /\ here # "exit1"
        BY <2>2, <3>2
      <4>2. (nesting = 1) = FALSE
        BY <4>1, Zenon
      <4>3. mstatus' = [mstatus EXCEPT !.mie = FALSE]
        BY <2>1, <4>2, Zenon
      <4>4. mstatus'.mie = FALSE
        BY <1>2, <4>3 DEF RtosTypeOK
      <4>5. QED
        BY <4>1, <4>4
    <3>3. QED
      BY <2>1, <3>1, <3>2
  <2>6. InterruptsOK'
    <3>1. trap' = "none"
      BY <1>1, <1>12 DEF ExitCritical
    <3>2. CASE here = "exit2"
      <4>1. nesting' = 1 /\ pc' = "exit1"
        BY <2>1, <2>2, <3>2
      <4>2. mstatus'.mie = FALSE
        BY <2>5, <3>2, Zenon
      <4>3. QED
        BY <3>1, <4>1, <4>2 DEF InterruptsOK, Depth
    <3>3. CASE here = "exit1"
      <4>1. nesting' = 0 /\ pc' = "check"
        BY <2>1, <2>2, <3>3
      <4>2. mstatus'.mie = TRUE
        BY <2>5, <3>3, Zenon
      <4>3. QED
        BY <3>1, <4>1, <4>2 DEF InterruptsOK, Depth
    <3>4. QED
      BY <2>1, <3>2, <3>3
  <2>7. CodesOK'
    BY <1>2, <1>12 DEF ExitCritical, CodesOK
  <2>8. QED
    BY <1>2, <1>3, <1>12, <2>3, <2>4, <2>6, <2>7, InvAfter DEF ExitCritical, RunInv
<1>13. QED
  BY <1>6, <1>7, <1>8, <1>9, <1>10, <1>11, <1>12 DEF Worker

LEMMA MonitorStep ==
  ASSUME RtosInv, NEW c \in Costs, Monitor(c)
  PROVE  RtosInv'
<1>1. pc \in {"delay", "suspend"} /\ trap = "none"
  BY DEF Monitor, Delay, Suspend, Verdict, At
<1>2. /\ started /\ RunInv /\ RtosTypeOK /\ Contexts(context) /\ CodesOK
  BY <1>1 DEF RtosInv, BootInv
<1>3. current = "monitor" /\ current \notin Workers /\ tohost # 1
  BY <1>1, <1>2 DEF RunInv, RunningOK, InWorker, Switchable, Critical, Workers
<1>4. c \in Nat /\ clock \in Nat /\ clock + c \in Nat
  BY <1>2, RtosAssumption DEF RtosTypeOK
<1> USE DEF At, Goto, Elapse, kernel, report, history, InMonitor, Final, Critical
<1>5. CASE Delay(c)
  <2>1. ready[2] = << "monitor" >> /\ pc = "delay" /\ wake = 0
    BY <1>1, <1>2, <1>3, <1>5, Singles DEF Delay, RunInv, RunningOK, Tasks
  <2>2. /\ pc' = "suspend" /\ i < Delays /\ i' = i + 1 /\ clock' = clock + c
        /\ wake' = xTickCount + DelayTicks
        /\ ready' = [ready EXCEPT ![Priority[current]] = SubSeq(@, 1, Len(@) - 1)]
    BY <1>2, <1>5 DEF Delay
  <2>3. Priority[current] = 2 /\ SubSeq(ready[2], 1, Len(ready[2]) - 1) = << >>
    BY <1>3, <2>1, Singles DEF Priority, Tasks
  <2>4. ready' = [ready EXCEPT ![2] = << >>]
    BY <2>2, <2>3
  <2>5. Priorities = 0 .. 3 /\ ready \in [Priorities -> Seq(Tasks)]
    BY <1>2 DEF Priorities, configMAX_PRIORITIES, RtosTypeOK
  <2>6. Lists(ready', last') /\ ready'[2] = << >> /\ ready' \in [Priorities -> Seq(Tasks)]
    <3>1. << >> \in Seq(Tasks)
      OBVIOUS
    <3>2. /\ ready' \in [Priorities -> Seq(Tasks)] /\ ready'[2] = << >>
          /\ ready'[0] = ready[0] /\ ready'[1] = ready[1] /\ ready'[3] = ready[3]
      BY <2>4, <2>5, <3>1
    <3>3. last' = last
      BY <1>5 DEF Delay
    <3>4. QED
      BY <1>2, <3>2, <3>3 DEF RunInv, Lists
  <2>7. wake' \in Nat /\ wake' # 0 /\ i' \in 0 .. Delays
    BY <1>2, <2>2, RtosAssumption DEF RtosTypeOK
  <2>8. RtosTypeOK'
    BY <1>2, <1>4, <1>5, <2>2, <2>6, <2>7 DEF Delay, RtosTypeOK, Labels
  <2>9. RunningOK'
    BY <1>1, <1>3, <1>5, <2>2, <2>6, <2>7 DEF Delay, RunningOK
  <2>10. InterruptsOK'
    BY <1>1, <1>2, <1>5, <2>2 DEF Delay, RunInv, InterruptsOK, Depth
  <2>11. CodesOK'
    BY <1>2, <1>5 DEF Delay, CodesOK
  <2>12. QED
    BY <1>2, <1>3, <1>5, <2>6, <2>8, <2>9, <2>10, <2>11, InvAfter DEF Delay
<1>6. CASE Suspend
  <2>1. /\ pc = "suspend" /\ pc' = "delay" /\ trap' = "ecall"
        /\ mstatus' = [mie |-> FALSE, mpie |-> mstatus.mie]
    BY <1>6 DEF Suspend, Ecall, TrapEntry
  <2>2. RtosTypeOK'
    BY <1>2, <1>6, <2>1 DEF Suspend, Ecall, TrapEntry, RtosTypeOK, Labels
  <2>3. RunningOK'
    BY <1>1, <1>2, <1>3, <1>6, <2>1 DEF Suspend, Ecall, RunInv, RunningOK
  <2>4. InterruptsOK'
    BY <1>1, <1>2, <1>6, <2>1 DEF Suspend, Ecall, RunInv, InterruptsOK, Depth
  <2>5. CodesOK'
    BY <1>2, <1>6 DEF Suspend, Ecall, CodesOK
  <2>6. QED
    BY <1>2, <1>3, <1>6, <2>2, <2>3, <2>4, <2>5, InvAfter DEF Suspend, Ecall, RunInv
<1>7. CASE Verdict(c)
  <2>1. /\ pc = "delay" /\ pc' = "fail" /\ clock' = clock + c
        /\ code' = [code EXCEPT !["monitor"] = IF Passed THEN "0" ELSE "f004"]
    BY <1>2, <1>3, <1>7 DEF Verdict, GiveUp, self
  <2>2. code' \in [Tasks \cup {"main"} -> Codes] /\ CodesOK'
    <3>1. (IF Passed THEN "0" ELSE "f004") \in {"0", "f004"}
      OBVIOUS
    <3>2. code \in [Tasks \cup {"main"} -> Codes] /\ {"0", "f004"} \subseteq Codes
      BY <1>2 DEF RtosTypeOK, Codes
    <3>3. QED
      BY <1>2, <2>1, <3>1, <3>2 DEF CodesOK, Tasks, Workers
  <2>3. RtosTypeOK'
    BY <1>2, <1>4, <1>7, <2>1, <2>2 DEF Verdict, RtosTypeOK, Labels
  <2>4. RunningOK'
    BY <1>1, <1>2, <1>3, <1>7, <2>1 DEF Verdict, RunInv, RunningOK
  <2>5. InterruptsOK'
    BY <1>1, <1>2, <1>7, <2>1 DEF Verdict, RunInv, InterruptsOK, Depth
  <2>6. QED
    BY <1>2, <1>3, <1>7, <2>2, <2>3, <2>4, <2>5, InvAfter DEF Verdict, RunInv
<1>8. QED
  BY <1>5, <1>6, <1>7 DEF Monitor

LEMMA FailStep ==
  ASSUME RtosInv, NEW c \in Costs, PlatformFail(c)
  PROVE  RtosInv'
<1> USE DEF At, Goto, Elapse, kernel, report, history, InMonitor, Final, Critical
<1>1. pc \in {"fail", "led", "tohost", "wfi"} /\ trap = "none"
  BY DEF PlatformFail, DisableInterrupts, WriteLed, WriteTohost, Sleep
<1>2. /\ started /\ RunInv /\ RtosTypeOK /\ Contexts(context) /\ CodesOK
  BY <1>1 DEF RtosInv, BootInv
<1>3. current = "monitor" /\ current \notin Workers
  BY <1>1, <1>2 DEF RunInv, RunningOK, InWorker, Switchable, Workers
<1>4. c \in Nat /\ clock \in Nat /\ clock + c \in Nat
  BY <1>2, RtosAssumption DEF RtosTypeOK
<1>5. CASE DisableInterrupts(c)
  <2>1. /\ pc = "fail" /\ pc' = "led" /\ clock' = clock + c
        /\ mstatus' = [mstatus EXCEPT !.mie = FALSE]
    BY <1>2, <1>5 DEF DisableInterrupts
  <2>2. mstatus' \in [mie : BOOLEAN, mpie : BOOLEAN] /\ mstatus'.mie = FALSE
    BY <1>2, <2>1 DEF RtosTypeOK
  <2>3. RtosTypeOK'
    BY <1>2, <1>4, <1>5, <2>1, <2>2 DEF DisableInterrupts, RtosTypeOK, Labels
  <2>4. RunningOK'
    BY <1>1, <1>2, <1>3, <1>5, <2>1 DEF DisableInterrupts, RunInv, RunningOK
  <2>5. InterruptsOK'
    BY <1>1, <1>2, <1>5, <2>1, <2>2 DEF DisableInterrupts, RunInv, InterruptsOK, Depth
  <2>6. CodesOK' /\ tohost # 1
    BY <1>2, <1>5, <2>1 DEF DisableInterrupts, CodesOK, RunInv
  <2>7. QED
    BY <1>2, <1>5, <2>3, <2>4, <2>5, <2>6, InvAfter DEF DisableInterrupts, RunInv
<1>6. CASE WriteLed(c)
  <2>1. pc = "led" /\ pc' = "tohost" /\ clock' = clock + c /\ led' = code["monitor"]
    BY <1>2, <1>3, <1>6 DEF WriteLed, self
  <2>2. led' \in Codes
    BY <1>2, <2>1 DEF CodesOK, Codes
  <2>3. RtosTypeOK'
    BY <1>2, <1>4, <1>6, <2>1, <2>2 DEF WriteLed, RtosTypeOK, Labels
  <2>4. RunningOK'
    BY <1>1, <1>2, <1>3, <1>6, <2>1 DEF WriteLed, RunInv, RunningOK
  <2>5. InterruptsOK'
    BY <1>1, <1>2, <1>6, <2>1 DEF WriteLed, RunInv, InterruptsOK, Depth
  <2>6. CodesOK' /\ tohost # 1
    BY <1>2, <1>6, <2>1 DEF WriteLed, CodesOK, RunInv
  <2>7. QED
    BY <1>2, <1>6, <2>3, <2>4, <2>5, <2>6, InvAfter DEF WriteLed, RunInv
<1>7. CASE WriteTohost(c)
  <2>1. pc = "tohost" /\ pc' = "wfi" /\ clock' = clock + c /\ tohost' = 1
    BY <1>2, <1>7 DEF WriteTohost
  <2>2. RtosTypeOK'
    BY <1>2, <1>4, <1>7, <2>1 DEF WriteTohost, RtosTypeOK, Labels
  <2>3. RunningOK'
    BY <1>1, <1>2, <1>3, <1>7, <2>1 DEF WriteTohost, RunInv, RunningOK
  <2>4. InterruptsOK'
    BY <1>1, <1>2, <1>7, <2>1 DEF WriteTohost, RunInv, InterruptsOK, Depth
  <2>5. CodesOK'
    BY <1>2, <1>7 DEF WriteTohost, CodesOK
  <2>6. QED
    BY <1>2, <1>7, <2>1, <2>2, <2>3, <2>4, <2>5, InvAfter DEF WriteTohost, RunInv
<1>8. CASE Sleep
  BY <1>8 DEF Sleep, rtosVars, hardware, program, RtosInv, RtosTypeOK, Contexts, CodesOK,
              BootInv, RunInv, Lists, RunningOK, InterruptsOK
<1>9. QED
  BY <1>5, <1>6, <1>7, <1>8 DEF PlatformFail

LEMMA TimerInterruptStep ==
  ASSUME RtosInv, TimerInterrupt
  PROVE  RtosInv'
<1> USE DEF kernel, program, report
<1>1. /\ trap = "none" /\ started /\ mstatus.mie /\ clock >= TickCycles
      /\ trap' = "timer" /\ mstatus' = [mie |-> FALSE, mpie |-> mstatus.mie]
  BY DEF TimerInterrupt, TrapEntry, InterruptPending
<1>2. /\ RunInv /\ RtosTypeOK /\ Contexts(context) /\ CodesOK
  BY <1>1 DEF RtosInv
<1>3. pc \notin Critical \cup Final /\ mstatus.mie = TRUE
  BY <1>1, <1>2 DEF RunInv, InterruptsOK, RtosTypeOK
<1>4. RtosTypeOK'
  BY <1>1, <1>2 DEF TimerInterrupt, TrapEntry, RtosTypeOK
<1>5. RunningOK'
  BY <1>1, <1>2 DEF TimerInterrupt, RunInv, RunningOK
<1>6. InterruptsOK'
  BY <1>1, <1>2, <1>3 DEF TimerInterrupt, RunInv, InterruptsOK
<1>7. CodesOK'
  BY <1>2 DEF TimerInterrupt, CodesOK
<1>8. QED
  BY <1>1, <1>2, <1>4, <1>5, <1>6, <1>7, InvAfter DEF TimerInterrupt, RunInv

(* Saving the task that is in a trap keeps all contexts good.              *)
LEMMA SavedOK ==
  ASSUME RtosInv, started, trap # "none",
         current = "monitor" => pc = "delay"
  PROVE  Saved \in [Tasks -> Context] /\ Contexts(Saved)
<1>1. /\ RunInv /\ RtosTypeOK /\ Contexts(context)
  BY DEF RtosInv
<1>2. /\ current \in Tasks /\ mstatus.mpie = TRUE /\ nesting = 0 /\ pc \in Labels /\ s2 \in Guards
      /\ pc \notin Critical \cup Final
  BY <1>1 DEF RunInv, RtosTypeOK, InterruptsOK, RunningOK, Tasks, Depth, Critical, Final
<1> DEFINE new == [pc |-> pc, s2 |-> s2, mpie |-> mstatus.mpie, nesting |-> nesting]
<1>3. new \in Context /\ new.pc = pc /\ new.s2 = s2 /\ new.mpie = TRUE /\ new.nesting = 0
  BY <1>2 DEF Context
<1>4. current \in Workers => pc \in Switchable /\ (pc # "guard" => s2 = Guard[current])
  BY <1>1, <1>2 DEF RunInv, RunningOK, InWorker
<1> HIDE DEF new
<1>5. Saved = [context EXCEPT ![current] = new]
  BY DEF Saved, new
<1>6. Saved \in [Tasks -> Context]
  BY <1>1, <1>2, <1>3, <1>5 DEF RtosTypeOK
<1>7. \A t \in Tasks : Saved[t] = IF t = current THEN new ELSE context[t]
  BY <1>1, <1>2, <1>5 DEF RtosTypeOK
<1>8. "monitor" \in Tasks /\ Workers \subseteq Tasks
  BY DEF Tasks
<1>9. QED
  BY <1>1, <1>3, <1>4, <1>6, <1>7, <1>8 DEF Contexts

(* After a switch the system runs with the interrupts of the new task.     *)
LEMMA AfterDispatch ==
  ASSUME RtosInv, started, trap # "none",
         NEW q, Lists(q, last), Dispatch(Saved, q),
         current = "monitor" => pc = "delay",
         UNCHANGED << started, code, i, progress, report, traps >>, trap' = "none",
         clock' \in Nat, xTickCount' \in Nat, wake' \in Nat, slices' \in Nat,
         wake' # 0 <=> q[2] = << >>
  PROVE  RtosInv' /\ (current' \in Workers => current' # last)
<1>1. /\ RunInv /\ RtosTypeOK /\ Contexts(context) /\ CodesOK
  BY DEF RtosInv
<1>2. Saved \in [Tasks -> Context] /\ Contexts(Saved) /\ last \in Workers \cup {"none"}
  BY <1>1, SavedOK DEF RtosTypeOK
<1>3. /\ context' = Saved /\ Lists(ready', last') /\ ready'[2] = q[2]
      /\ nesting' = 0 /\ mstatus' = [mie |-> TRUE, mpie |-> TRUE]
      /\ \/ /\ q[2] = << "monitor" >> /\ current' = "monitor"
            /\ last' = last /\ pc' = "delay" /\ s2' \in Guards
         \/ /\ current' \in Workers /\ current' # last /\ last' = current'
            /\ pc' \in Switchable /\ s2' \in Guards
            /\ pc' # "guard" => s2' = Guard[current']
  BY <1>2, DispatchOK
<1>4. "monitor" \notin Workers /\ Workers \subseteq Tasks /\ "monitor" \in Tasks
  BY DEF Workers, Tasks
<1>5. pc' \in Switchable \cup {"delay"}
  BY <1>3
<1>6. pc' \in Labels /\ pc' \notin Critical \cup Final /\ Depth(pc') = 0
  BY <1>5 DEF Labels, Switchable, Critical, Final, Depth
<1>7. RtosTypeOK'
  <2>1. mstatus' \in [mie : BOOLEAN, mpie : BOOLEAN]
    BY <1>3
  <2>2. current' \in Tasks \cup {"none"} /\ last' \in Workers \cup {"none"} /\ s2' \in Guards
    BY <1>2, <1>3, <1>4
  <2>3. ready' \in [Priorities -> Seq(Tasks)] /\ nesting' \in Nat
    BY <1>3 DEF Lists
  <2>4. context' \in [Tasks -> Context]
    BY <1>2, <1>3
  <2>5. QED
    BY <1>1, <1>6, <2>1, <2>2, <2>3, <2>4 DEF RtosTypeOK, report
<1>8. RunningOK'
  <2>1. wake' # 0 <=> ready'[2] = << >>
    BY <1>3
  <2>2. CASE current' = "monitor"
    BY <1>3, <1>4, <2>1, <2>2 DEF RunningOK, InMonitor
  <2>3. CASE current' \in Workers
    BY <1>3, <1>4, <2>1, <2>3 DEF RunningOK, InWorker
  <2>4. QED
    BY <1>3, <2>2, <2>3
<1>9. InterruptsOK'
  <2>1. mstatus'.mie = TRUE
    BY <1>3
  <2>2. QED
    BY <1>3, <1>6, <2>1 DEF InterruptsOK
<1>10. CodesOK' /\ Contexts(context') /\ tohost' # 1
  <2>1. tohost # 1
    BY <1>1 DEF RunInv, InterruptsOK, Final
  <2>2. QED
    BY <1>1, <1>2, <1>3, <2>1 DEF CodesOK, report
<1>11. RtosInv'
  BY <1>3, <1>7, <1>8, <1>9, <1>10, InvAfter
<1>12. QED
  BY <1>3, <1>4, <1>11

LEMMA YieldHandlerStep ==
  ASSUME RtosInv, NEW c \in Costs, YieldHandler(c)
  PROVE  RtosInv' /\ (current' \in Workers => current' # last)
<1>1. trap = "ecall" /\ started
  BY DEF YieldHandler, RtosInv, BootInv
<1>2. RunInv /\ RtosTypeOK
  BY <1>1 DEF RtosInv
<1>3. current = "monitor" => pc = "delay"
  BY <1>1, <1>2 DEF RunInv, RunningOK, InterruptsOK, InMonitor
<1>4. Lists(ready, last) /\ (wake # 0 <=> ready[2] = << >>)
  BY <1>2 DEF RunInv, RunningOK
<1>5. clock' \in Nat
  BY <1>2, RtosAssumption DEF YieldHandler, Elapse, RtosTypeOK
<1>6. /\ Dispatch(Saved, ready) /\ trap' = "none" /\ wake' = wake
      /\ xTickCount' = xTickCount /\ slices' = slices
      /\ UNCHANGED << started, code, i, progress, report, traps >>
  BY DEF YieldHandler
<1>7. xTickCount' \in Nat /\ wake' \in Nat /\ slices' \in Nat
  BY <1>2, <1>6 DEF RtosTypeOK
<1>8. QED
  BY <1>1, <1>3, <1>4, <1>5, <1>6, <1>7, AfterDispatch

(* The ready lists as a tick leaves them: the monitor is in its list again *)
(* when it is due.                                                         *)
LEMMA TickLists ==
  ASSUME RtosInv, started
  PROVE  /\ Lists(Woken(xTickCount + 1), last)
         /\ Woken(xTickCount + 1)[2] =
              IF wake = xTickCount + 1 THEN << "monitor" >> ELSE ready[2]
<1> DEFINE n == xTickCount + 1
           q == Woken(n)
<1>1. /\ RunInv /\ RtosTypeOK /\ Lists(ready, last) /\ n \in Nat /\ n # 0
      /\ wake # 0 <=> ready[2] = << >>
  BY DEF RtosInv, RtosTypeOK, RunInv, RunningOK
<1>2. CASE wake = n
  <2>1. ready[2] = << >>
    BY <1>1, <1>2
  <2>2. Append(ready[2], "monitor") = << "monitor" >>
    BY <2>1, Singles DEF Tasks
  <2>3. q = [ready EXCEPT ![2] = << "monitor" >>]
    BY <1>2, <2>2 DEF Woken, Priority, Tasks
  <2>4. ready \in [Priorities -> Seq(Tasks)] /\ Priorities = 0 .. 3
        /\ << "monitor" >> \in Seq(Tasks)
    BY <1>1 DEF RtosTypeOK, Priorities, configMAX_PRIORITIES, Tasks
  <2> HIDE DEF q
  <2>5. /\ q \in [Priorities -> Seq(Tasks)] /\ q[2] = << "monitor" >>
        /\ q[0] = ready[0] /\ q[1] = ready[1] /\ q[3] = ready[3]
    BY <2>3, <2>4
  <2>6. Lists(q, last)
    BY <1>1, <2>5 DEF Lists
  <2> QED
    BY <1>2, <2>5, <2>6 DEF q
<1>3. CASE wake # n
  BY <1>1, <1>3 DEF Woken
<1> QED
  BY <1>2, <1>3

LEMMA TickHandlerStep ==
  ASSUME RtosInv, NEW c \in Costs, TickHandler(c)
  PROVE  RtosInv' /\ (current' \in Workers => current' # last)
<1>1. trap = "timer" /\ started /\ trap' = "none"
  BY DEF TickHandler, RtosInv, BootInv
<1>2. RunInv /\ RtosTypeOK /\ Contexts(context) /\ CodesOK
  BY <1>1 DEF RtosInv
<1> DEFINE n == xTickCount + 1
           q == Woken(n)
<1>3. n \in Nat /\ n # 0 /\ xTickCount' = n /\ wake' = (IF wake = n THEN 0 ELSE wake)
  BY <1>2 DEF TickHandler, RtosTypeOK
<1>4. Lists(q, last) /\ (wake' # 0 <=> q[2] = << >>)
  <2>1. << "monitor" >> # << >>
    BY Singles DEF Tasks
  <2>2. wake # 0 <=> ready[2] = << >>
    BY <1>2 DEF RunInv, RunningOK
  <2>3. QED
    BY <1>1, <1>3, <2>1, <2>2, TickLists
<1>5. clock' \in Nat /\ wake' \in Nat /\ xTickCount' \in Nat
  <2>1. clock \in Nat /\ clock >= TickCycles /\ c \in Nat /\ clock' = clock - TickCycles + c
    BY <1>1, <1>2, RtosAssumption DEF TickHandler, RunInv, InterruptsOK, RtosTypeOK
  <2>2. QED
    BY <1>2, <1>3, <2>1, TickType DEF RtosTypeOK
<1>6. UNCHANGED << started, code, i, progress, report, traps >>
  BY DEF TickHandler
<1>7. CASE current \in Workers
  <2>1. current # "monitor" /\ Priority[current] = 1
    BY <1>7 DEF Workers, Priority, Tasks
  <2>2. \E x, y \in Tasks : q[1] = << x, y >>
    BY <1>4 DEF Lists, Tasks, Workers
  <2>3. Len(q[Priority[current]]) > 1
    BY <2>1, <2>2, Pairs
  <2>4. SwitchRequired(n, q)
    BY <2>3 DEF SwitchRequired, configUSE_PREEMPTION, configUSE_TIME_SLICING
  <2>5. Dispatch(Saved, q) /\ slices' = slices + 1
    BY <1>7, <2>4 DEF TickHandler
  <2>6. slices' \in Nat
    BY <1>2, <2>5 DEF RtosTypeOK
  <2> HIDE DEF n, q
  <2>7. QED
    BY <1>1, <1>4, <1>5, <1>6, <2>1, <2>5, <2>6, AfterDispatch
<1>8. CASE current = "monitor"
  <2>1. Priority[current] = 2 /\ Priority["monitor"] = 2 /\ "monitor" \notin Workers
    BY <1>8 DEF Priority, Tasks, Workers
  <2>2. q[2] = << >> \/ q[2] = << "monitor" >>
    BY <1>4 DEF Lists
  <2>3. ~(Len(q[2]) > 1)
    <3> HIDE DEF q
    <3>1. CASE q[2] = << >>
      BY <3>1
    <3>2. CASE q[2] = << "monitor" >>
      <4>1. Len(q[2]) = 1
        BY <3>2, Singles DEF Tasks
      <4>2. QED
        BY <4>1
    <3>3. QED
      BY <2>2, <3>1, <3>2
  <2>4. ~SwitchRequired(n, q)
    BY <1>8, <2>1, <2>3 DEF SwitchRequired
  <2>5. /\ ready' = q /\ mstatus' = [mie |-> mstatus.mpie, mpie |-> TRUE]
        /\ UNCHANGED << nesting, current, context, pc, s2, slices, last >>
    BY <2>4 DEF TickHandler
  <2>6. mstatus.mpie = TRUE /\ pc \notin Critical \cup Final
    BY <1>1, <1>2 DEF RunInv, InterruptsOK
  <2>7. mstatus' = [mie |-> TRUE, mpie |-> TRUE]
    BY <2>5, <2>6
  <2> HIDE DEF n, q
  <2>8. RtosTypeOK'
    <3>1. ready' \in [Priorities -> Seq(Tasks)]
      BY <1>4, <2>5 DEF Lists
    <3>2. mstatus' \in [mie : BOOLEAN, mpie : BOOLEAN]
      BY <2>7
    <3>3. QED
      BY <1>1, <1>2, <1>5, <1>6, <2>5, <3>1, <3>2 DEF RtosTypeOK, report
  <2>9. RunningOK'
    <3>1. pc # "suspend" => q[2] = << "monitor" >>
      <4>1. pc # "suspend" => wake = 0
        <5>1. pc # "suspend" => ready[2] = << "monitor" >>
          BY <1>1, <1>2, <1>8 DEF RunInv, RunningOK
        <5>2. << "monitor" >> # << >>
          BY Singles DEF Tasks
        <5>3. QED
          BY <1>2, <5>1, <5>2 DEF RunInv, RunningOK
      <4>2. wake = 0 => wake' = 0
        BY <1>3
      <4>3. QED
        BY <1>4, <2>2, <4>1, <4>2
    <3>2. pc \in InMonitor
      BY <1>2, <1>8 DEF RunInv, RunningOK
    <3>3. QED
      BY <1>4, <1>8, <2>1, <2>5, <3>1, <3>2 DEF RunningOK
  <2>10. InterruptsOK'
    <3>1. mstatus'.mie = TRUE /\ nesting' = Depth(pc')
      BY <1>2, <2>5, <2>7 DEF RunInv, InterruptsOK
    <3>2. QED
      BY <1>1, <2>5, <2>6, <3>1 DEF InterruptsOK
  <2>11. CodesOK' /\ Contexts(context') /\ tohost' # 1 /\ started'
    <3>1. tohost # 1
      BY <1>2, <2>6 DEF RunInv, Final
    <3>2. QED
      BY <1>1, <1>2, <1>6, <2>5, <3>1 DEF CodesOK, report
  <2>12. Lists(ready', last')
    BY <1>4, <2>5
  <2>13. RtosInv'
    BY <2>8, <2>9, <2>10, <2>11, <2>12, InvAfter
  <2>14. QED
    BY <1>8, <2>1, <2>5, <2>13
<1>9. QED
  BY <1>2, <1>7, <1>8 DEF RunInv, RunningOK

(***************************************************************************)
(* Before the scheduler starts.                                            *)
(***************************************************************************)
LEMMA BootHolds == RtosInit => RtosInv
<1> SUFFICES ASSUME RtosInit PROVE RtosInv
  OBVIOUS
<1>1. /\ Priorities = 0 .. 3 /\ \A p \in Priorities : ready[p] = << >>
      /\ ready \in [Priorities -> Seq(Tasks)]
  BY DEF RtosInit, Priorities, configMAX_PRIORITIES
<1>2. \A t \in Tasks : context[t] = [pc |-> Entry[t], s2 |-> 0, mpie |-> TRUE,
                                     nesting |-> 0]
  BY DEF RtosInit
<1>3. context \in [Tasks -> Context]
  <2>1. \A t \in Tasks : Entry[t] \in Labels
    BY DEF Entry, Labels
  <2>2. ASSUME NEW t \in Tasks PROVE context[t] \in Context
    <3>1. context[t] = [pc |-> Entry[t], s2 |-> 0, mpie |-> TRUE, nesting |-> 0]
      BY <1>2
    <3>2. Entry[t] \in Labels /\ 0 \in Guards /\ TRUE \in BOOLEAN /\ 0 \in Nat
      BY <2>1 DEF Guards
    <3>3. QED
      BY <3>1, <3>2 DEF Context
  <2>3. DOMAIN context = Tasks /\ context = [t \in Tasks |-> context[t]]
    BY DEF RtosInit
  <2>4. QED
    BY <2>2, <2>3
<1>4. Contexts(context)
  BY <1>2 DEF Contexts, Entry, Tasks, Workers, Switchable
<1>5. code \in [Tasks \cup {"main"} -> Codes]
  BY DEF RtosInit, Codes
<1>6. progress \in [Workers -> 0 .. CounterSize - 1]
  BY RtosAssumption DEF RtosInit
<1>7. RtosTypeOK
  <2>1. i \in 0 .. Delays
    BY RtosAssumption DEF RtosInit
  <2>2. /\ pc \in Labels /\ s2 \in Guards /\ nesting \in Nat /\ clock \in Nat
        /\ trap \in {"none", "timer", "ecall"} /\ started \in BOOLEAN
        /\ current \in Tasks \cup {"none"} /\ last \in Workers \cup {"none"}
        /\ led \in Codes /\ tohost \in 0 .. 1
        /\ wake \in Nat /\ xTickCount \in Nat /\ traps \in Nat /\ slices \in Nat
    <3>1. pc \in Labels /\ s2 \in Guards /\ nesting \in Nat /\ clock \in Nat
      BY DEF RtosInit, Labels, Guards, BootNesting
    <3>2. trap \in {"none", "timer", "ecall"} /\ started \in BOOLEAN
      BY DEF RtosInit
    <3>3. current \in Tasks \cup {"none"} /\ last \in Workers \cup {"none"}
      BY DEF RtosInit
    <3>4. led \in Codes /\ tohost \in 0 .. 1
      BY DEF RtosInit, Codes
    <3>5. wake \in Nat /\ xTickCount \in Nat /\ traps \in Nat /\ slices \in Nat
      BY DEF RtosInit
    <3>6. QED
      BY <3>1, <3>2, <3>3, <3>4, <3>5
  <2>3. mstatus \in [mie : BOOLEAN, mpie : BOOLEAN]
    BY DEF RtosInit
  <2>4. QED
    BY <1>1, <1>3, <1>5, <1>6, <2>1, <2>2, <2>3 DEF RtosTypeOK
<1>8. CodesOK
  BY DEF RtosInit, CodesOK, Tasks
<1>9. BootInv
  BY <1>1 DEF RtosInit, BootInv, BootNesting
<1>10. QED
  BY <1>4, <1>7, <1>8, <1>9 DEF RtosInv, RtosInit

(* Creating a task changes its ready list, and nothing can fail.           *)
LEMMA CreateEffect ==
  ASSUME RtosInv, NEW t \in Buffered, NEW here, NEW next \in Labels,
         Create(here, t, next), ~started
  PROVE  /\ pc = here /\ pc' = next
         /\ ready' = [ready EXCEPT ![Priority[t]] = Append(ready[Priority[t]], t)]
         /\ current' = (IF current = "none" THEN t
                        ELSE IF Priority[current] <= Priority[t] THEN t ELSE current)
         /\ mstatus'.mie = FALSE
         /\ RtosTypeOK' /\ Contexts(context') /\ CodesOK' /\ started' = started
         /\ UNCHANGED << trap, nesting, wake, i, last, tohost >>
<1>1. BootInv /\ RtosTypeOK /\ Contexts(context) /\ CodesOK
  BY DEF RtosInv
<1>2. t \in Tasks /\ Priority[t] \in Priorities /\ Priority[t] < configMAX_PRIORITIES
  BY DEF Buffered, Tasks, Workers, Priority, Priorities, configMAX_PRIORITIES
<1>3. /\ pc = here /\ pc' = next /\ code' = code
      /\ ready' = [ready EXCEPT ![Priority[t]] = Append(ready[Priority[t]], t)]
      /\ current' = (IF current = "none" THEN t
                     ELSE IF Priority[current] <= Priority[t] THEN t ELSE current)
  BY <1>2 DEF Create, At, Goto
<1>4. ExitsCritical(nesting + 1) = FALSE
  BY <1>1 DEF BootInv, ExitsCritical
<1>5. /\ mstatus' = [mstatus EXCEPT !.mie = FALSE]
      /\ UNCHANGED << trap, clock, nesting, started, wake, xTickCount, context, s2,
                      i, progress, led, tohost, traps, slices, last >>
  BY <1>4 DEF Create, report, history
<1>6. mstatus'.mie = FALSE /\ mstatus' \in [mie : BOOLEAN, mpie : BOOLEAN]
  BY <1>1, <1>5 DEF RtosTypeOK
<1>7. ready' \in [Priorities -> Seq(Tasks)]
  BY <1>1, <1>2, <1>3 DEF RtosTypeOK
<1>8. current' \in Tasks \cup {"none"}
  BY <1>1, <1>2, <1>3 DEF RtosTypeOK
<1>9. RtosTypeOK'
  BY <1>1, <1>3, <1>5, <1>6, <1>7, <1>8 DEF RtosTypeOK
<1>10. Contexts(context') /\ CodesOK'
  BY <1>1, <1>3, <1>5 DEF CodesOK
<1>11. QED
  BY <1>3, <1>5, <1>6, <1>9, <1>10

LEMMA CreateStep ==
  ASSUME RtosInv, ~started,
         NEW here, NEW t, NEW next, Create(here, t, next),
         << here, t, next >> \in {<< "create1", "workerA", "create2" >>,
                                  << "create2", "workerB", "create3" >>,
                                  << "create3", "monitor", "start" >>}
  PROVE  RtosInv'
<1>1. \/ here = "create1" /\ t = "workerA" /\ next = "create2"
      \/ here = "create2" /\ t = "workerB" /\ next = "create3"
      \/ here = "create3" /\ t = "monitor" /\ next = "start"
  OBVIOUS
<1>2. t \in Buffered /\ next \in Labels
  BY <1>1 DEF Buffered, Workers, Labels
<1>3. /\ pc = here /\ pc' = next
      /\ ready' = [ready EXCEPT ![Priority[t]] = Append(ready[Priority[t]], t)]
      /\ current' = (IF current = "none" THEN t
                     ELSE IF Priority[current] <= Priority[t] THEN t ELSE current)
      /\ mstatus'.mie = FALSE
      /\ RtosTypeOK' /\ Contexts(context') /\ CodesOK' /\ started' = started
      /\ UNCHANGED << trap, nesting, wake, i, last, tohost >>
  BY <1>2, CreateEffect
<1>4. BootInv /\ ready \in [Priorities -> Seq(Tasks)] /\ Priorities = 0 .. 3
  BY DEF RtosInv, RtosTypeOK, Priorities, configMAX_PRIORITIES
<1>5. /\ Priority["workerA"] = 1 /\ Priority["workerB"] = 1 /\ Priority["monitor"] = 2
      /\ "workerA" \in Tasks /\ "workerB" \in Tasks /\ "monitor" \in Tasks
  BY DEF Priority, Tasks, Workers
<1>6. CASE here = "create1"
  <2>1. t = "workerA" /\ next = "create2"
    BY <1>1, <1>6
  <2>2. current = "none" /\ ready[1] = << >> /\ ready[2] = << >>
        /\ ready[0] = << >> /\ ready[3] = << >>
    BY <1>3, <1>4, <1>6 DEF BootInv
  <2>3. Append(ready[1], "workerA") = << "workerA" >>
    BY <1>5, <2>2, Singles
  <2>4. ready' = [ready EXCEPT ![1] = << "workerA" >>]
    BY <1>3, <1>5, <2>1, <2>3
  <2>5. /\ ready'[1] = << "workerA" >> /\ ready'[2] = << >> /\ ready'[0] = << >>
        /\ ready'[3] = << >>
    BY <1>4, <2>2, <2>4
  <2>6. current' = "workerA" /\ pc' = "create2"
    BY <1>3, <2>1, <2>2
  <2>7. BootInv'
    BY <1>3, <1>4, <2>5, <2>6 DEF BootInv
  <2>8. QED
    BY <1>3, <2>7 DEF RtosInv
<1>7. CASE here = "create2"
  <2>1. t = "workerB" /\ next = "create3"
    BY <1>1, <1>7
  <2>2. current = "workerA" /\ ready[1] = << "workerA" >> /\ ready[2] = << >>
        /\ ready[0] = << >> /\ ready[3] = << >>
    BY <1>3, <1>4, <1>7 DEF BootInv
  <2>3. Append(ready[1], "workerB") = << "workerA", "workerB" >>
    BY <1>5, <2>2, AppendPair
  <2>4. ready' = [ready EXCEPT ![1] = << "workerA", "workerB" >>]
    BY <1>3, <1>5, <2>1, <2>3
  <2>5. /\ ready'[1] = << "workerA", "workerB" >> /\ ready'[2] = << >>
        /\ ready'[0] = << >> /\ ready'[3] = << >>
    BY <1>4, <2>2, <2>4
  <2>6. current' = "workerB" /\ pc' = "create3"
    BY <1>3, <1>5, <2>1, <2>2
  <2>7. BootInv'
    BY <1>3, <1>4, <2>5, <2>6 DEF BootInv
  <2>8. QED
    BY <1>3, <2>7 DEF RtosInv
<1>8. CASE here = "create3"
  <2>1. t = "monitor" /\ next = "start"
    BY <1>1, <1>8
  <2>2. current = "workerB" /\ ready[1] = << "workerA", "workerB" >> /\ ready[2] = << >>
        /\ ready[0] = << >> /\ ready[3] = << >>
    BY <1>3, <1>4, <1>8 DEF BootInv
  <2>3. Append(ready[2], "monitor") = << "monitor" >>
    BY <1>5, <2>2, Singles
  <2>4. ready' = [ready EXCEPT ![2] = << "monitor" >>]
    BY <1>3, <1>5, <2>1, <2>3
  <2>5. /\ ready'[1] = << "workerA", "workerB" >> /\ ready'[2] = << "monitor" >>
        /\ ready'[0] = << >> /\ ready'[3] = << >>
    BY <1>4, <2>2, <2>4
  <2>6. current' = "monitor" /\ pc' = "start"
    BY <1>3, <1>5, <2>1, <2>2
  <2>7. BootInv'
    BY <1>3, <1>4, <2>5, <2>6 DEF BootInv
  <2>8. QED
    BY <1>3, <2>7 DEF RtosInv
<1>9. QED
  BY <1>1, <1>6, <1>7, <1>8

LEMMA StartStep ==
  ASSUME RtosInv, StartScheduler, ~started
  PROVE  RtosInv'
<1>1. BootInv /\ RtosTypeOK /\ Contexts(context) /\ CodesOK
  BY DEF RtosInv
<1>2. /\ pc = "start" /\ current = "monitor" /\ trap = "none"
      /\ ready[1] = << "workerA", "workerB" >> /\ ready[2] = << "monitor" >>
      /\ ready[0] = << >> /\ ready[3] = << >> /\ wake = 0 /\ last = "none" /\ tohost = 0
  BY <1>1 DEF StartScheduler, At, BootInv
<1>3. context["monitor"].nesting = 0 /\ context["monitor"].pc = "delay"
      /\ context["monitor"] \in Context
  BY <1>1 DEF Contexts, RtosTypeOK, Tasks
<1>4. /\ started' = TRUE /\ ready' = [ready EXCEPT ![0] = Append(ready[0], "idle")]
      /\ pc' = "delay" /\ s2' = context["monitor"].s2 /\ nesting' = 0
      /\ mstatus' = [mie |-> TRUE, mpie |-> TRUE]
      /\ UNCHANGED << trap, clock, current, wake, xTickCount, context, code,
                      last, i, progress, led, tohost, traps, slices >>
  BY <1>2, <1>3 DEF StartScheduler, configKERNEL_PROVIDED_STATIC_MEMORY, report
<1>5. Append(ready[0], "idle") = << "idle" >> /\ << "idle" >> \in Seq(Tasks)
  BY <1>2, Singles DEF Tasks
<1>6. ready' = [ready EXCEPT ![0] = << "idle" >>]
  BY <1>4, <1>5
<1>7. /\ ready' \in [Priorities -> Seq(Tasks)] /\ ready'[0] = << "idle" >>
      /\ ready'[1] = ready[1] /\ ready'[2] = ready[2] /\ ready'[3] = ready[3]
  BY <1>1, <1>5, <1>6 DEF RtosTypeOK, Priorities, configMAX_PRIORITIES
<1>8. Lists(ready', last')
  BY <1>2, <1>4, <1>7 DEF Lists
<1>9. RtosTypeOK'
  <2>1. s2' \in Guards /\ pc' \in Labels
    BY <1>3, <1>4 DEF Context, Labels
  <2>2. QED
    BY <1>1, <1>4, <1>7, <2>1 DEF RtosTypeOK
<1>10. RunningOK'
  <2>1. << "monitor" >> # << >>
    BY Singles DEF Tasks
  <2>2. QED
    BY <1>2, <1>4, <1>7, <2>1 DEF RunningOK, InMonitor, Workers
<1>11. InterruptsOK'
  BY <1>2, <1>4 DEF InterruptsOK, Depth, Critical, Final
<1>12. CodesOK'
  BY <1>1, <1>4 DEF CodesOK
<1>13. QED
  BY <1>1, <1>2, <1>4, <1>8, <1>9, <1>10, <1>11, <1>12, InvAfter

LEMMA MainStep ==
  ASSUME RtosInv, Main
  PROVE  RtosInv' /\ trap = "none"
<1>1. pc \in {"create1", "create2", "create3", "start"} /\ trap = "none"
  BY DEF Main, Create, StartScheduler, At
<1>2. ~started
  <2>1. SUFFICES ASSUME started PROVE FALSE
    OBVIOUS
  <2>2. RunningOK
    BY <2>1 DEF RtosInv, RunInv
  <2>3. pc \in InWorker \cup InMonitor
    BY <2>2 DEF RunningOK
  <2>4. QED
    BY <1>1, <2>3 DEF InWorker, InMonitor, Switchable, Critical, Final
<1>3. CASE Create("create1", "workerA", "create2")
  BY <1>1, <1>2, <1>3, CreateStep
<1>4. CASE Create("create2", "workerB", "create3")
  BY <1>1, <1>2, <1>4, CreateStep
<1>5. CASE Create("create3", "monitor", "start")
  BY <1>1, <1>2, <1>5, CreateStep
<1>6. CASE StartScheduler
  BY <1>1, <1>2, <1>6, StartStep
<1>7. QED
  BY <1>3, <1>4, <1>5, <1>6 DEF Main

(***************************************************************************)
(* The invariant of the program.                                           *)
(***************************************************************************)
LEMMA RtosInvStep ==
  ASSUME RtosInv, [RtosNext]_rtosVars
  PROVE  RtosInv'
<1>1. CASE Main
  BY <1>1, MainStep
<1>2. CASE TimerInterrupt
  BY <1>2, TimerInterruptStep
<1>3. ASSUME NEW c \in Costs, Worker(c) PROVE RtosInv'
  BY <1>3, WorkerStep
<1>4. ASSUME NEW c \in Costs, Monitor(c) PROVE RtosInv'
  BY <1>4, MonitorStep
<1>5. ASSUME NEW c \in Costs, PlatformFail(c) PROVE RtosInv'
  BY <1>5, FailStep
<1>6. ASSUME NEW c \in Costs, TickHandler(c) PROVE RtosInv'
  BY <1>6, TickHandlerStep
<1>7. ASSUME NEW c \in Costs, YieldHandler(c) PROVE RtosInv'
  BY <1>7, YieldHandlerStep
<1>8. CASE UNCHANGED rtosVars
  BY <1>8 DEF rtosVars, hardware, kernel, program, report, history, RtosInv,
              RtosTypeOK, Contexts, CodesOK, RunInv, Lists, RunningOK, InterruptsOK,
              BootInv
<1>9. QED
  BY <1>1, <1>2, <1>3, <1>4, <1>5, <1>6, <1>7, <1>8 DEF RtosNext

LEMMA RtosInvAlways == RtosSpec => []RtosInv
<1>1. QED
  BY BootHolds, RtosInvStep, PTL DEF RtosSpec

(* Types: no list ever holds a task of another priority, no register of a  *)
(* saved context is out of range, whatever the timer interrupts.           *)
THEOREM RtosTypeCorrect == RtosSpec => []RtosTypeOK
BY RtosInvAlways, PTL DEF RtosInv

(* No critical section of a worker is ever interrupted and no task is      *)
(* switched out inside one, for every tick rate and every cost of a step.  *)
THEOREM RtosCriticalSections == RtosSpec => []CriticalSections
<1>1. RtosInv => CriticalSections
  <2> SUFFICES ASSUME RtosInv PROVE CriticalSections
    OBVIOUS
  <2>1. CASE started
    <3>1. InterruptsOK
      BY <2>1 DEF RtosInv, RunInv
    <3>2. Depth(pc) > 0 => pc \in Critical
      BY DEF Depth, Critical
    <3>3. \A t \in Tasks : context[t].nesting = 0 /\ context[t].mpie
      BY DEF RtosInv, Contexts
    <3>4. nesting = Depth(pc)
      BY <3>1 DEF InterruptsOK
    <3>5. pc \in Critical => mstatus.mie = FALSE /\ trap = "none"
      BY <3>1 DEF InterruptsOK
    <3>6. QED
      BY <2>1, <3>2, <3>3, <3>4, <3>5 DEF CriticalSections
  <2>2. CASE ~started
    BY <2>2 DEF RtosInv, BootInv, CriticalSections
  <2>3. QED
    BY <2>1, <2>2 DEF RtosInv, RtosTypeOK
<1>2. QED
  BY <1>1, RtosInvAlways, PTL

(* f002 and f003 are never reported: the worker finds its register after   *)
(* every switch, and interrupts off in its critical section.               *)
THEOREM RtosContextsIntact == RtosSpec => []ContextsIntact
<1>1. RtosInv => ContextsIntact
  <2>1. Tasks \cup {"main"} = Workers \cup {"idle", "main"} \cup {"monitor"}
    BY DEF Tasks
  <2>2. QED
    BY <2>1 DEF RtosInv, CodesOK, ContextsIntact
<1>2. QED
  BY <1>1, RtosInvAlways, PTL

(* No worker gets two time slices in a row: the one that ran last is at    *)
(* the end of its list when a trap ends, the monitor's turns included.     *)
THEOREM RtosRoundRobin == RtosSpec => RoundRobin
<1> DEFINE A == trap # "none" /\ trap' = "none" /\ current' \in Workers
                  => current' # last
<1>1. ASSUME RtosInv, [RtosNext]_rtosVars PROVE [A]_rtosVars
  <2>1. SUFFICES ASSUME trap # "none", trap' = "none", current' \in Workers,
                        ~ UNCHANGED rtosVars
                 PROVE  current' # last
    OBVIOUS
  <2>2. ~Main
    BY <1>1, <2>1, MainStep
  <2>3. ~TimerInterrupt
    BY <2>1 DEF TimerInterrupt
  <2>4. ASSUME NEW c \in Costs PROVE ~Worker(c) /\ ~Monitor(c) /\ ~PlatformFail(c)
    BY <2>1 DEF Worker, LoadGuard, Yield, CheckGuard, Count, EnterCritical, ReadStatus,
                ExitCritical, Monitor, Delay, Suspend, Verdict, PlatformFail,
                DisableInterrupts, WriteLed, WriteTohost, Sleep, At
  <2>5. PICK c \in Costs : TickHandler(c) \/ YieldHandler(c)
    BY <1>1, <2>1, <2>2, <2>3, <2>4 DEF RtosNext
  <2>6. QED
    BY <1>1, <2>1, <2>5, TickHandlerStep, YieldHandlerStep
<1>2. QED
  BY <1>1, RtosInvAlways, PTL DEF RtosSpec, RoundRobin

(* The verdict is final: platform_fail turns interrupts off before its     *)
(* first store, so that from there on no tick, trap or worker changes      *)
(* anything the verdict was based on.                                      *)
THEOREM RtosVerdictStands == RtosSpec => VerdictStands
<1> DEFINE A == /\ pc \in {"led", "tohost", "wfi"} \/ tohost = 1
                     => UNCHANGED << progress, current, traps >>
                /\ tohost = 1 => UNCHANGED report
<1>1. ASSUME RtosInv, [RtosNext]_rtosVars PROVE [A]_rtosVars
  <2>1. SUFFICES ASSUME pc \in Final \/ tohost = 1, ~ UNCHANGED rtosVars
                 PROVE  /\ UNCHANGED << progress, current, traps >>
                        /\ tohost = 1 => UNCHANGED report
    BY DEF Final
  <2>2. started /\ RunInv
    BY <1>1, <2>1 DEF RtosInv, BootInv, Final
  <2>3. /\ pc \in Final /\ trap = "none" /\ mstatus.mie = FALSE
        /\ tohost = 1 => pc = "wfi"
    BY <2>1, <2>2 DEF RunInv, InterruptsOK, Final
  <2>4. ~Main /\ ~TimerInterrupt
    BY <2>3 DEF Main, Create, StartScheduler, At, TimerInterrupt, InterruptPending,
                Final
  <2>5. ASSUME NEW c \in Costs PROVE ~Worker(c) /\ ~Monitor(c)
    BY <2>3 DEF Worker, LoadGuard, Yield, CheckGuard, Count, EnterCritical, ReadStatus,
                ExitCritical, Monitor, Delay, Suspend, Verdict, At, Final
  <2>6. ASSUME NEW c \in Costs
        PROVE  ~DisableInterrupts(c) /\ ~TickHandler(c) /\ ~YieldHandler(c)
    BY <2>3 DEF DisableInterrupts, At, TickHandler, YieldHandler, Final
  <2>7. PICK c \in Costs : WriteLed(c) \/ WriteTohost(c) \/ Sleep
    BY <1>1, <2>1, <2>4, <2>5, <2>6 DEF RtosNext, PlatformFail
  <2>8. ~Sleep
    BY <2>1 DEF Sleep
  <2>9. /\ pc # "wfi"
        /\ UNCHANGED << progress, current, traps >>
    BY <2>7, <2>8 DEF WriteLed, WriteTohost, At, kernel, history
  <2>10. QED
    BY <2>3, <2>9
<1>2. QED
  BY <1>1, RtosInvAlways, PTL DEF RtosSpec, VerdictStands

(***************************************************************************)
(* The start of the workers: they run one after the other, each up to its  *)
(* taskYIELD, and then the first one keeps the processor.                  *)
(***************************************************************************)
Past(l) == l \notin {"guard", "yield"}

Fresh(w) == context[w].pc = "guard"

(* The worker w is on its way to its taskYIELD, or the ecall is handled.   *)
Starting(w) ==
  /\ current = w /\ ready[2] = << >>
  /\ pc \in {"guard", "yield"} \/ (pc = "check" /\ trap = "ecall")

Opening ==
  \/ current = "monitor" /\ last = "none" /\ Fresh("workerA") /\ Fresh("workerB")
  \/ Starting("workerA") /\ Fresh("workerB")
  \/ Starting("workerB") /\ context["workerA"].pc = "check"

Alone ==
  /\ current = "workerA" /\ ready[2] = << >> /\ Past(pc) /\ trap # "ecall"
  /\ context["workerB"].pc = "check"

(* Before the scheduler starts nothing has happened yet.                   *)
NotBegun ==
  /\ Fresh("workerA") /\ Fresh("workerB") /\ progress["workerB"] = 0
  /\ traps = 0 /\ xTickCount = 0 /\ clock = 0

(* The inductive strengthening of PreemptionNeeded.                        *)
PreemptionInv ==
  /\ ~started => NotBegun
  /\ started /\ slices = 0 => progress["workerB"] = 0 /\ (Opening \/ Alone)

(* With the monitor asleep a switch takes the worker that did not run last *)
(* and resumes it where it was.                                            *)
LEMMA DispatchWorker ==
  ASSUME NEW saved \in [Tasks -> Context], NEW q, Lists(q, last), q[2] = << >>,
         Dispatch(saved, q)
  PROVE  /\ current' = IF last = "workerA" THEN "workerB" ELSE "workerA"
         /\ pc' = saved[current'].pc /\ context' = saved
<1> DEFINE first  == IF last = "workerA" THEN "workerB" ELSE "workerA"
           second == IF last = "workerA" THEN "workerA" ELSE "workerB"
<1>1. q[1] = << first, second >> /\ q[3] = << >>
  BY DEF Lists
<1>2. first \in Tasks /\ second \in Tasks
  BY DEF Workers, Tasks
<1> HIDE DEF first, second
<1>3. q[1] # << >> /\ Head(q[1]) = first
  BY <1>1, <1>2, Pairs
<1>4. Highest(q) = 1
  BY <1>1, <1>3, HighestIsWorker
<1>5. current' = first /\ pc' = saved[first].pc /\ context' = saved
  BY <1>3, <1>4 DEF Dispatch
<1> QED
  BY <1>5 DEF first

(* A ready monitor takes the processor.                                    *)
LEMMA MonitorDispatched ==
  ASSUME NEW saved, NEW q, Lists(q, last), q[2] = << "monitor" >>,
         Dispatch(saved, q)
  PROVE  current' = "monitor" /\ last' = last
<1>1. q[2] # << >> /\ q[3] = << >> /\ Head(q[2]) = "monitor"
  BY Singles DEF Lists, Tasks
<1>2. Highest(q) = 2
  BY <1>1, HighestIsMonitor
<1> QED
  BY <1>1, <1>2 DEF Dispatch, Workers

(* Saving the running task leaves the contexts of the others alone.        *)
LEMMA SavedContexts ==
  ASSUME RtosTypeOK
  PROVE  \A t \in Tasks : Saved[t].pc = IF t = current THEN pc ELSE context[t].pc
BY DEF Saved, RtosTypeOK, Context

(* The monitor is never preempted: a tick finds no other task of its       *)
(* priority.                                                               *)
LEMMA MonitorKeepsRunning ==
  ASSUME RtosInv, NEW c \in Costs, TickHandler(c), current = "monitor"
  PROVE  UNCHANGED << nesting, current, context, pc, slices, last >>
<1>1. trap = "timer" /\ started /\ RunInv /\ RtosTypeOK
  BY DEF TickHandler, RtosInv, BootInv
<1> DEFINE n == xTickCount + 1
           q == Woken(n)
<1>2. Priority["monitor"] = 2
  BY DEF Priority, Tasks
<1>3. q[2] \in {<< >>, << "monitor" >>}
  <2>1. ready \in [Priorities -> Seq(Tasks)] /\ Priorities = 0 .. 3
        /\ ready[2] \in {<< >>, << "monitor" >>}
    BY <1>1 DEF RtosTypeOK, RunInv, Lists, Priorities, configMAX_PRIORITIES
  <2>2. CASE wake = n
    <3>1. ready[2] = << >>
      BY <1>1, <2>2 DEF RunInv, RunningOK, RtosTypeOK
    <3>2. Append(ready[2], "monitor") = << "monitor" >>
      BY <3>1, Singles DEF Tasks
    <3> QED
      BY <1>2, <2>1, <2>2, <3>2 DEF Woken
  <2>3. CASE wake # n
    BY <2>1, <2>3 DEF Woken
  <2> QED
    BY <2>2, <2>3
<1> HIDE DEF q
<1>4. ~(Len(q[2]) > 1)
  <2>1. CASE q[2] = << >>
    <3>1. Len(q[2]) = 0
      BY <2>1
    <3> QED
      BY <3>1
  <2>2. CASE q[2] = << "monitor" >>
    <3>1. Len(q[2]) = 1
      BY <2>2, Singles DEF Tasks
    <3> QED
      BY <3>1
  <2> QED
    BY <1>3, <2>1, <2>2
<1>5. ~SwitchRequired(n, q)
  BY <1>2, <1>4 DEF SwitchRequired
<1> QED
  BY <1>5 DEF TickHandler, q

(* A tick that finds a worker running always ends its time slice.          *)
LEMMA WorkerIsPreempted ==
  ASSUME RtosInv, NEW c \in Costs, TickHandler(c), current \in Workers
  PROVE  slices' = slices + 1 /\ Dispatch(Saved, Woken(xTickCount + 1))
<1>1. trap = "timer" /\ started /\ RunInv /\ RtosTypeOK
  BY DEF TickHandler, RtosInv, BootInv
<1> DEFINE n == xTickCount + 1
           q == Woken(n)
<1>2. Priority[current] = 1 /\ Priority["monitor"] = 2
  BY DEF Workers, Priority, Tasks
<1>3. q[1] = ready[1]
  BY <1>1, <1>2 DEF Woken, RtosTypeOK, Priorities, configMAX_PRIORITIES
<1>4. \E x, y \in Tasks : ready[1] = << x, y >>
  BY <1>1 DEF RunInv, Lists, Tasks, Workers
<1> HIDE DEF q
<1>5. Len(q[Priority[current]]) > 1
  BY <1>2, <1>3, <1>4, Pairs
<1>6. SwitchRequired(n, q)
  BY <1>5 DEF SwitchRequired, configUSE_PREEMPTION, configUSE_TIME_SLICING
<1> QED
  BY <1>6 DEF TickHandler, q

(* What a step of a worker does: it reaches its taskYIELD, traps there, or *)
(* runs on behind it; a critical section takes four steps.                 *)
LEMMA WorkerEffect ==
  ASSUME RtosInv, NEW c \in Costs, Worker(c)
  PROVE  /\ started /\ current \in Workers /\ trap = "none" /\ ~InterruptPending
         /\ UNCHANGED << started, current, ready, wake, xTickCount, context, i,
                         slices, last >>
         /\ \A w \in Workers : w # current => progress'[w] = progress[w]
         /\ \/ /\ pc = "guard" /\ pc' = "yield" /\ trap' = "none"
               /\ traps' = traps /\ clock' = clock + c
            \/ /\ pc = "yield" /\ pc' = "check" /\ trap' = "ecall"
               /\ traps' = traps + 1 /\ clock' = clock
            \/ /\ Past(pc) /\ Past(pc') /\ trap' = "none"
               /\ traps' = traps /\ clock' = clock + c
         /\ pc = "enter2" => pc' = "status"
         /\ pc = "status" => pc' = "exit2"
         /\ pc = "exit2"  => pc' = "exit1"
         /\ pc = "exit1"  => pc' = "check"
<1>1. trap = "none" /\ ~InterruptPending /\ pc \in InWorker
  BY DEF Worker, LoadGuard, Yield, CheckGuard, Count, EnterCritical, ReadStatus,
         ExitCritical, At, InWorker, Switchable, Critical
<1>2. /\ started /\ current \in Workers /\ progress \in [Workers -> 0 .. CounterSize - 1]
      /\ pc # "guard" => s2 = Guard[current]
      /\ pc \in Critical => mstatus.mie = FALSE
  BY <1>1 DEF RtosInv, BootInv, RunInv, RunningOK, InterruptsOK, InWorker,
     Switchable, Critical, InMonitor, Final, RtosTypeOK
<1>3. CASE LoadGuard(c)
  BY <1>1, <1>2, <1>3 DEF LoadGuard, At, Goto, Elapse, kernel, history
<1>4. CASE Yield
  BY <1>1, <1>2, <1>4 DEF Yield, At, Ecall, TrapEntry, Goto, kernel
<1>5. CASE CheckGuard(c)
  BY <1>1, <1>2, <1>5 DEF CheckGuard, At, Goto, Elapse, kernel, history, Past
<1>6. CASE Count(c)
  BY <1>1, <1>2, <1>6 DEF Count, At, Goto, Elapse, AfterCount, kernel, history,
     Past
<1>7. CASE ReadStatus(c)
  BY <1>1, <1>2, <1>7 DEF ReadStatus, At, Goto, Elapse, kernel, history, Past,
     Critical
<1>8. CASE \/ EnterCritical("enter1", "enter2", c)
           \/ EnterCritical("enter2", "status", c)
           \/ ExitCritical("exit2", "exit1", c)
           \/ ExitCritical("exit1", "check", c)
  BY <1>1, <1>2, <1>8 DEF EnterCritical, ExitCritical, At, Goto, Elapse,
     history, Past
<1> QED
  BY <1>3, <1>4, <1>5, <1>6, <1>7, <1>8 DEF Worker

(* What a step of the monitor does: it goes to sleep, traps, or gives its  *)
(* verdict.                                                                *)
LEMMA MonitorEffect ==
  ASSUME RtosInv, NEW c \in Costs, Monitor(c)
  PROVE  /\ started /\ current = "monitor" /\ trap = "none" /\ ~InterruptPending
         /\ UNCHANGED << started, current, xTickCount, context, progress, slices,
                         last >>
         /\ \/ /\ pc = "delay" /\ pc' = "suspend" /\ trap' = "none"
               /\ i' = i + 1 /\ wake' = xTickCount + DelayTicks
               /\ traps' = traps /\ clock' = clock + c
            \/ /\ pc = "suspend" /\ pc' = "delay" /\ trap' = "ecall"
               /\ traps' = traps + 1 /\ UNCHANGED << i, wake, clock >>
            \/ /\ pc = "delay" /\ pc' = "fail" /\ trap' = "none" /\ i = Delays
               /\ clock' = clock + c /\ UNCHANGED << i, wake, traps >>
<1>1. trap = "none" /\ ~InterruptPending /\ pc \in {"delay", "suspend"}
  BY DEF Monitor, Delay, Suspend, Verdict, At
<1>2. started /\ current = "monitor"
  BY <1>1 DEF RtosInv, BootInv, RunInv, RunningOK, InWorker, Switchable, Critical
<1>3. CASE Delay(c)
  BY <1>1, <1>2, <1>3 DEF Delay, At, Goto, Elapse, history
<1>4. CASE Suspend
  BY <1>1, <1>2, <1>4 DEF Suspend, At, Ecall, TrapEntry, Goto, kernel
<1>5. CASE Verdict(c)
  BY <1>1, <1>2, <1>5 DEF Verdict, At, GiveUp, Elapse, kernel, history
<1> QED
  BY <1>3, <1>4, <1>5 DEF Monitor

(* platform_fail runs in the monitor only and disturbs nobody.             *)
LEMMA FailEffect ==
  ASSUME RtosInv, NEW c \in Costs, PlatformFail(c)
  PROVE  /\ started /\ current = "monitor" /\ trap = "none" /\ trap' = "none"
         /\ pc \in {"fail"} \cup Final /\ pc' \in Final
         /\ UNCHANGED << started, current, ready, wake, xTickCount, context, i,
                         progress, traps, slices, last >>
<1>1. trap = "none" /\ pc \in {"fail"} \cup Final
  BY DEF PlatformFail, DisableInterrupts, WriteLed, WriteTohost, Sleep, At, Final
<1>2. started /\ current = "monitor"
  BY <1>1 DEF RtosInv, BootInv, RunInv, RunningOK, InWorker, Switchable, Critical,
     Final
<1>3. CASE DisableInterrupts(c)
  BY <1>1, <1>2, <1>3 DEF DisableInterrupts, Goto, kernel, history, Final
<1>4. CASE WriteLed(c)
  BY <1>1, <1>2, <1>4 DEF WriteLed, Goto, kernel, history, Final
<1>5. CASE WriteTohost(c)
  BY <1>1, <1>2, <1>5 DEF WriteTohost, Goto, kernel, history, Final
<1>6. CASE Sleep
  BY <1>1, <1>2, <1>6 DEF Sleep, At, rtosVars, hardware, kernel, program, history,
     Final
<1> QED
  BY <1>3, <1>4, <1>5, <1>6 DEF PlatformFail

(* Before the scheduler runs only main does; it starts with the monitor.   *)
LEMMA BootEffect ==
  ASSUME RtosInv, ~started, RtosNext
  PROVE  \/ UNCHANGED << started, context, progress, traps, xTickCount, clock,
                         slices, last >>
         \/ /\ started' /\ current' = "monitor" /\ last' = "none"
            /\ pc' = "delay" /\ trap' = "none" /\ wake' = 0 /\ i' = 0
            /\ UNCHANGED << context, progress, traps, xTickCount, clock, slices >>
<1>1. BootInv /\ context["monitor"].pc = "delay"
  BY DEF RtosInv, Contexts
<1>2. Main
  BY <1>1
     DEF RtosNext, BootInv, TimerInterrupt, InterruptPending, Worker,
         LoadGuard, Yield, CheckGuard, Count, EnterCritical, ReadStatus,
         ExitCritical, Monitor, Delay, Suspend, Verdict, PlatformFail,
         DisableInterrupts, WriteLed, WriteTohost, Sleep, TickHandler,
         YieldHandler, At
<1>3. CASE StartScheduler
  BY <1>1, <1>3 DEF StartScheduler, At, configKERNEL_PROVIDED_STATIC_MEMORY,
     BootInv
<1>4. ASSUME NEW here, NEW t, NEW next, Create(here, t, next)
      PROVE  UNCHANGED << started, context, progress, traps, xTickCount, clock,
                          slices, last >>
  BY <1>4 DEF Create, history
<1> QED
  BY <1>2, <1>3, <1>4 DEF Main

(* Once it runs, main is over.                                             *)
LEMMA RunningSteps ==
  ASSUME RtosInv, started, RtosNext
  PROVE  \/ TimerInterrupt
         \/ \E c \in Costs : \/ Worker(c) \/ Monitor(c) \/ PlatformFail(c)
                            \/ TickHandler(c) \/ YieldHandler(c)
<1>1. pc \in InWorker \cup InMonitor
  BY DEF RtosInv, RunInv, RunningOK
<1>2. ~Main
  BY <1>1 DEF Main, Create, StartScheduler, At, InWorker, Switchable, Critical,
     InMonitor, Final
<1> QED
  BY <1>2 DEF RtosNext

(* A step keeps the workers in the order of their start as long as no time *)
(* slice has ended.                                                        *)
LEMMA PreemptionStep ==
  ASSUME RtosInv, PreemptionInv, [RtosNext]_rtosVars
  PROVE  PreemptionInv'
<1>1. RtosTypeOK /\ slices \in Nat
  BY DEF RtosInv, RtosTypeOK
<1>2. CASE UNCHANGED rtosVars
  BY <1>2 DEF rtosVars, hardware, kernel, program, report, history,
     PreemptionInv, NotBegun, Opening, Alone, Starting, Fresh, Past
<1>3. CASE RtosNext /\ ~started
  BY <1>3, BootEffect DEF PreemptionInv, NotBegun, Opening, Fresh
<1>4. CASE RtosNext /\ started
  <2>1. /\ RunInv /\ current \in Workers \cup {"monitor"}
        /\ current \in Workers => last = current
        /\ trap = "ecall" => pc \in {"check", "delay"}
        /\ current = "monitor" => pc \in InMonitor
        /\ Lists(ready, last)
    BY <1>4 DEF RtosInv, RunInv, RunningOK, InterruptsOK
  <2>2. ASSUME slices = 0
        PROVE  progress["workerB"] = 0 /\ (Opening \/ Alone)
    BY <1>4, <2>2 DEF PreemptionInv
  <2>3. CASE TimerInterrupt
    BY <1>4, <2>2, <2>3 DEF TimerInterrupt, TrapEntry, kernel, program,
       PreemptionInv, Opening, Alone, Starting, Fresh, Past
  <2>4. ASSUME NEW c \in Costs, Worker(c)
        PROVE  PreemptionInv'
    <3>1. /\ started /\ current \in Workers /\ trap = "none"
          /\ UNCHANGED << started, current, ready, context, slices, last >>
          /\ \A w \in Workers : w # current => progress'[w] = progress[w]
          /\ \/ pc = "guard" /\ pc' = "yield" /\ trap' = "none"
             \/ pc = "yield" /\ pc' = "check" /\ trap' = "ecall"
             \/ Past(pc) /\ Past(pc') /\ trap' = "none"
      BY <2>4, WorkerEffect
    <3>2. SUFFICES ASSUME slices = 0
                   PROVE  progress'["workerB"] = 0 /\ (Opening \/ Alone)'
      BY <3>1 DEF PreemptionInv
    <3>3. current # "monitor" /\ "workerB" \in Workers
      BY <3>1 DEF Workers
    <3>4. CASE Starting("workerA") /\ Fresh("workerB")
      BY <2>2, <3>1, <3>2, <3>3, <3>4 DEF Opening, Starting, Fresh, Past
    <3>5. CASE Starting("workerB") /\ context["workerA"].pc = "check"
      <4>1. progress'["workerB"] = progress["workerB"]
        BY <2>4, <3>1, <3>5 DEF Worker, LoadGuard, Yield, Ecall, CheckGuard, Count,
           EnterCritical, ReadStatus, ExitCritical, At, Starting
      <4> QED
        BY <2>2, <3>1, <3>2, <3>3, <3>5, <4>1 DEF Opening, Starting, Fresh, Past
    <3>6. CASE Alone
      BY <2>2, <3>1, <3>2, <3>3, <3>6 DEF Alone, Past
    <3> QED
      BY <2>2, <3>2, <3>3, <3>4, <3>5, <3>6 DEF Opening
  <2>5. ASSUME NEW c \in Costs, Monitor(c) \/ PlatformFail(c)
        PROVE  PreemptionInv'
    BY <2>2, <2>5, MonitorEffect, FailEffect
       DEF PreemptionInv, Opening, Alone, Starting, Fresh
  <2>6. ASSUME NEW c \in Costs, TickHandler(c)
        PROVE  PreemptionInv'
    <3>1. started' = started /\ progress' = progress
      BY <2>6 DEF TickHandler
    <3>2. CASE current \in Workers
      <4>1. slices' # 0
        BY <1>1, <2>6, <3>2, WorkerIsPreempted
      <4> QED
        BY <1>4, <3>1, <4>1 DEF PreemptionInv
    <3>3. CASE current = "monitor"
      BY <1>4, <2>2, <2>6, <3>1, <3>3, MonitorKeepsRunning
         DEF PreemptionInv, Opening, Alone, Starting, Fresh
    <3> QED
      BY <2>1, <3>2, <3>3
  <2>7. ASSUME NEW c \in Costs, YieldHandler(c)
        PROVE  PreemptionInv'
    <3>1. /\ Dispatch(Saved, ready) /\ trap = "ecall" /\ trap' = "none"
          /\ slices' = slices /\ progress' = progress /\ started' = started
      BY <2>7 DEF YieldHandler
    <3>2. SUFFICES ASSUME slices = 0
                   PROVE  (Opening \/ Alone)'
      BY <1>4, <2>2, <3>1 DEF PreemptionInv
    <3>3. /\ Saved \in [Tasks -> Context] /\ Contexts(Saved)
      BY <1>4, <2>1, <3>1, SavedOK DEF InMonitor, Final
    <3>4. /\ context' = Saved /\ ready'[2] = ready[2]
          /\ \/ /\ ready[2] = << "monitor" >> /\ current' = "monitor"
                /\ last' = last
             \/ current' \in Workers
      BY <1>1, <2>1, <3>1, <3>3, DispatchOK DEF RtosTypeOK
    <3>5. ready[2] = << >> =>
            /\ current' = IF last = "workerA" THEN "workerB" ELSE "workerA"
            /\ pc' = Saved[current'].pc
      BY <2>1, <3>1, <3>3, DispatchWorker
    <3>6. /\ Saved["workerA"].pc =
               IF current = "workerA" THEN pc ELSE context["workerA"].pc
          /\ Saved["workerB"].pc =
               IF current = "workerB" THEN pc ELSE context["workerB"].pc
      BY <1>1, SavedContexts DEF Tasks, Workers
    <3>7. ready[2] \in {<< >>, << "monitor" >>}
      BY <2>1 DEF Lists
    <3>8. CASE /\ current = "monitor" /\ last = "none" /\ Fresh("workerA")
               /\ Fresh("workerB")
      <4>1. CASE ready[2] = << "monitor" >>
        <5>1. << "monitor" >> # << >>
          BY Singles DEF Tasks
        <5>2. current' = "monitor" /\ last' = "none"
          BY <2>1, <3>1, <3>3, <3>4, <3>8, <4>1, <5>1, MonitorDispatched
        <5> QED
          BY <3>4, <3>6, <3>8, <5>2 DEF Opening, Fresh
      <4>2. CASE ready[2] = << >>
        BY <3>4, <3>5, <3>6, <3>8, <4>2 DEF Opening, Starting, Fresh
      <4> QED
        BY <3>7, <4>1, <4>2
    <3>9. CASE Starting("workerA") /\ Fresh("workerB")
      BY <2>1, <3>1, <3>4, <3>5, <3>6, <3>9 DEF Opening, Starting, Fresh, Workers
    <3>10. CASE Starting("workerB") /\ context["workerA"].pc = "check"
      BY <2>1, <3>1, <3>4, <3>5, <3>6, <3>10
         DEF Alone, Starting, Fresh, Past, Workers
    <3> QED
      BY <2>2, <3>1, <3>2, <3>8, <3>9, <3>10 DEF Opening, Alone
  <2> QED
    BY <1>4, <2>3, <2>4, <2>5, <2>6, <2>7, RunningSteps
<1> QED
  BY <1>2, <1>3, <1>4 DEF RtosInv, RtosTypeOK

(* main.c: both workers can make progress only if timer interrupts preempt *)
(* them: the first one never blocks, so until a time slice ends the second *)
(* one does not come back from its taskYIELD.                              *)
THEOREM RtosPreemptionNeeded == RtosSpec => []PreemptionNeeded
<1>1. RtosInit => PreemptionInv
  BY DEF RtosInit, PreemptionInv, NotBegun, Fresh, Entry, Tasks, Workers
<1>2. RtosInv /\ PreemptionInv => PreemptionNeeded
  <2> SUFFICES ASSUME RtosInv, PreemptionInv, slices = 0
               PROVE  progress["workerB"] = 0
    BY DEF PreemptionNeeded, Workers, RtosInv, RtosTypeOK
  <2> QED
    BY DEF PreemptionInv, NotBegun, RtosInv, RtosTypeOK
<1> QED
  BY <1>1, <1>2, PreemptionStep, RtosInvAlways, PTL DEF RtosSpec

(***************************************************************************)
(* The schedule, when eight steps fit into a tick.  C is the largest cost  *)
(* of a step.                                                              *)
(***************************************************************************)
One(b) == IF b THEN 1 ELSE 0
HasYielded(w) == Past(IF current = w THEN pc ELSE context[w].pc)
Dormant == current = "monitor" /\ (pc = "suspend" \/ trap = "ecall")

Due == i * DelayTicks

(* Every trap is a tick, a delay of the monitor or a yield of a worker.    *)
TrapsCounted ==
  traps = xTickCount + One(trap = "timer")
            + i - One(current = "monitor" /\ pc = "suspend")
            + One(HasYielded("workerA")) + One(HasYielded("workerB"))

(* The monitor is due DelayTicks after the tick at which it went to sleep, *)
(* and it is asleep again, or has given its verdict, before the next one.  *)
MonitorOnTime ==
  /\ current \in Workers => wake = Due /\ xTickCount < Due
  /\ Dormant => wake = Due /\ xTickCount = Due - DelayTicks
  /\ current = "monitor" /\ ~Dormant => wake = 0 /\ xTickCount = Due
  /\ current = "monitor" =>
       /\ trap # "timer"
       /\ pc \notin {"delay", "suspend"} => i = Delays

(* How far the clock is at most beyond the end of the tick: an interrupt   *)
(* waits for the end of a critical section.                                *)
Late(C) == IF pc = "status" THEN 2 * C
           ELSE IF pc = "exit2" THEN 3 * C
           ELSE IF pc = "exit1" THEN 4 * C
           ELSE IF pc = "check" THEN 5 * C ELSE C
ClockBounded(C) ==
  /\ current \in Workers => clock <= TickCycles + Late(C)
  /\ current = "monitor" =>
       /\ pc = "delay" /\ trap = "none" => clock <= 6 * C
       /\ Dormant \/ pc = "fail" => clock <= 7 * C

(* Both workers are behind their taskYIELD.                                *)
Opened ==
  /\ HasYielded("workerA") /\ HasYielded("workerB")
  /\ trap = "ecall" => current = "monitor"

(* The workers start before the first tick.                                *)
OpeningInTime(C) ==
  \/ /\ Opening /\ xTickCount = 0 /\ trap # "timer"
     /\ current = "monitor" =>
          \/ i = 0 /\ pc = "delay" /\ trap = "none" /\ clock = 0
          \/ i = 1 /\ Dormant /\ clock <= C
     /\ current = "workerA" => clock <= (IF pc = "guard" THEN 2 ELSE 3) * C
     /\ current = "workerB" => clock <= (IF pc = "guard" THEN 4 ELSE 5) * C
  \/ Opened

ScheduleInv(C) ==
  /\ ~started => NotBegun
  /\ started => /\ TrapsCounted /\ MonitorOnTime /\ ClockBounded(C)
                /\ OpeningInTime(C)

(* From one tick to the next the clock is bounded by a few steps.          *)
LEMMA StepFits ==
  ASSUME RtosInv, started, NEW C \in Nat, 8 * C < TickCycles
  PROVE  /\ clock \in Nat /\ TickCycles \in Nat /\ i \in Nat /\ traps \in Nat
         /\ xTickCount \in Nat /\ wake \in Nat /\ Due \in Nat
         /\ trap = "none" /\ ~InterruptPending /\ pc \notin Critical \cup Final
              => clock < TickCycles
         /\ C <= Late(C) /\ Late(C) <= 5 * C
<1>1. RunInv /\ RtosTypeOK
  BY DEF RtosInv
<1>2. trap = "none" /\ pc \notin Critical \cup Final => mstatus.mie = TRUE
  BY <1>1 DEF RunInv, InterruptsOK
<1>3. clock \in Nat /\ TickCycles \in Nat
  BY <1>1, TickType DEF RtosTypeOK
<1>4. Due \in Nat
  BY <1>1, RtosAssumption DEF RtosTypeOK, Due
<1>5. C <= Late(C) /\ Late(C) <= 5 * C
  BY DEF Late
<1> QED
  BY <1>1, <1>2, <1>3, <1>4, <1>5, RtosAssumption
     DEF InterruptPending, RtosTypeOK

(* The monitor is never in a trap of the timer: it is asleep again, or     *)
(* interrupts are off, before the next tick.                               *)
LEMMA MonitorInTime ==
  ASSUME RtosInv, started, NEW C \in Nat, 8 * C < TickCycles,
         MonitorOnTime, ClockBounded(C), current = "monitor"
  PROVE  ~TimerInterrupt
<1>1. RunInv /\ RtosTypeOK /\ pc \in InMonitor
  BY DEF RtosInv, RunInv, RunningOK
<1>2. clock \in Nat /\ TickCycles \in Nat
  BY <1>1, StepFits
<1> SUFFICES ASSUME TimerInterrupt PROVE FALSE
  OBVIOUS
<1>3. trap = "none" /\ mstatus.mie /\ clock >= TickCycles
  BY DEF TimerInterrupt, InterruptPending
<1>4. pc \notin Final
  BY <1>1, <1>3 DEF RunInv, InterruptsOK
<1>5. clock <= 7 * C
  BY <1>1, <1>2, <1>3, <1>4 DEF ClockBounded, Dormant, InMonitor
<1> QED
  BY <1>2, <1>3, <1>5

LEMMA TickTaken ==
  ASSUME RtosInv, started, NEW C \in Nat, 8 * C < TickCycles,
         ScheduleInv(C), TimerInterrupt
  PROVE  ScheduleInv(C)'
<1>1. /\ trap = "none" /\ trap' = "timer" /\ traps' = traps + 1
      /\ clock >= TickCycles
      /\ UNCHANGED << clock, started, current, ready, wake, xTickCount, context,
                      pc, i, last >>
  BY DEF TimerInterrupt, TrapEntry, InterruptPending, kernel, program
<1>2. TrapsCounted /\ MonitorOnTime /\ ClockBounded(C) /\ OpeningInTime(C)
  BY DEF ScheduleInv
<1>3. /\ clock \in Nat /\ TickCycles \in Nat /\ i \in Nat /\ traps \in Nat
      /\ xTickCount \in Nat
  BY StepFits
<1>4. current \in Workers
  BY <1>2, MonitorInTime DEF RtosInv, RunInv, RunningOK
<1>5. current # "monitor"
  BY <1>4 DEF Workers
<1>6. TrapsCounted'
  BY <1>1, <1>2, <1>3 DEF TrapsCounted, One, HasYielded, Past
<1>7. MonitorOnTime'
  BY <1>1, <1>2, <1>4, <1>5 DEF MonitorOnTime, Dormant, Due
<1>8. ClockBounded(C)'
  BY <1>1, <1>2, <1>4, <1>5 DEF ClockBounded, Late
<1>9. OpeningInTime(C)'
  <2>1. ASSUME ~(HasYielded("workerA") /\ HasYielded("workerB"))
        PROVE  clock <= 5 * C
    BY <1>2, <1>3, <1>4, <2>1 DEF OpeningInTime, Opened, Workers
  <2>2. HasYielded("workerA") /\ HasYielded("workerB")
    BY <1>1, <1>3, <2>1
  <2> QED
    BY <1>1, <1>2, <2>2 DEF OpeningInTime, Opened, HasYielded, Past
<1> QED
  BY <1>1, <1>6, <1>7, <1>8, <1>9 DEF ScheduleInv

LEMMA WorkerKeepsSchedule ==
  ASSUME RtosInv, NEW C \in Nat, 8 * C < TickCycles, ScheduleInv(C),
         NEW c \in Costs, c <= C, Worker(c)
  PROVE  ScheduleInv(C)'
<1>1. /\ started /\ current \in Workers /\ trap = "none" /\ ~InterruptPending
      /\ UNCHANGED << started, current, ready, wake, xTickCount, context, i,
                      slices, last >>
      /\ \/ /\ pc = "guard" /\ pc' = "yield" /\ trap' = "none"
            /\ traps' = traps /\ clock' = clock + c
         \/ /\ pc = "yield" /\ pc' = "check" /\ trap' = "ecall"
            /\ traps' = traps + 1 /\ clock' = clock
         \/ /\ Past(pc) /\ Past(pc') /\ trap' = "none"
            /\ traps' = traps /\ clock' = clock + c
      /\ pc = "enter2" => pc' = "status"
      /\ pc = "status" => pc' = "exit2"
      /\ pc = "exit2"  => pc' = "exit1"
      /\ pc = "exit1"  => pc' = "check"
  BY WorkerEffect
<1>2. TrapsCounted /\ MonitorOnTime /\ ClockBounded(C) /\ OpeningInTime(C)
  BY <1>1 DEF ScheduleInv
<1>3. /\ clock \in Nat /\ TickCycles \in Nat /\ i \in Nat /\ traps \in Nat
      /\ xTickCount \in Nat /\ c \in Nat
      /\ pc \notin Critical => clock < TickCycles
  <2>1. pc \in InWorker
    BY <1>1 DEF RtosInv, RunInv, RunningOK
  <2>2. pc \notin Final
    BY <2>1 DEF InWorker, Switchable, Critical, Final
  <2> QED
    BY <1>1, <2>2, StepFits, RtosAssumption
<1>4. current # "monitor" /\ current \in {"workerA", "workerB"}
  BY <1>1 DEF Workers
<1>5. TrapsCounted'
  <2>1. CASE pc = "guard"
    BY <1>1, <1>2, <1>3, <1>4, <2>1 DEF TrapsCounted, One, HasYielded, Past
  <2>2. CASE pc = "yield"
    BY <1>1, <1>2, <1>3, <1>4, <2>2 DEF TrapsCounted, One, HasYielded, Past
  <2>3. CASE Past(pc)
    BY <1>1, <1>2, <1>3, <1>4, <2>3 DEF TrapsCounted, One, HasYielded, Past
  <2> QED
    BY <1>1, <2>1, <2>2, <2>3
<1>6. MonitorOnTime'
  BY <1>1, <1>2, <1>4 DEF MonitorOnTime, Dormant, Due
<1>7. clock' <= TickCycles + Late(C)'
  <2>1. CASE pc \notin Critical
    <3>1. clock' <= TickCycles + C
      BY <1>1, <1>3, <2>1
    <3>2. C <= Late(C)'
      BY DEF Late
    <3>3. Late(C)' \in Nat /\ clock' \in Nat
      BY <1>1, <1>3 DEF Late
    <3> QED
      BY <1>3, <3>1, <3>2, <3>3
  <2>2. CASE pc \in Critical
    BY <1>1, <1>2, <1>3, <2>2 DEF Critical, Late, ClockBounded
  <2> QED
    BY <2>1, <2>2
<1>8. ClockBounded(C)'
  BY <1>1, <1>4, <1>7 DEF ClockBounded
<1>9. OpeningInTime(C)'
  <2>1. CASE HasYielded("workerA") /\ HasYielded("workerB")
    BY <1>1, <1>4, <2>1 DEF OpeningInTime, Opened, HasYielded, Past
  <2>2. CASE /\ Opening /\ xTickCount = 0
             /\ current = "workerA" => clock <= (IF pc = "guard" THEN 2 ELSE 3) * C
             /\ current = "workerB" => clock <= (IF pc = "guard" THEN 4 ELSE 5) * C
    <3>1. pc \in {"guard", "yield"}
      BY <1>1, <1>4, <2>2 DEF Opening, Starting
    <3>2. Opening'
      BY <1>1, <1>4, <2>2, <3>1 DEF Opening, Starting, Fresh, Past
    <3>3. trap' # "timer" /\ xTickCount' = 0 /\ current' # "monitor" /\ pc' # "guard"
      BY <1>1, <1>4, <2>2, <3>1 DEF Past
    <3>4. CASE current = "workerA"
      <4>1. clock' <= 3 * C
        BY <1>1, <1>3, <2>2, <3>1, <3>4 DEF Past
      <4> QED
        BY <1>1, <3>2, <3>3, <3>4, <4>1 DEF OpeningInTime, Opened
    <3>5. CASE current = "workerB"
      <4>1. clock' <= 5 * C
        BY <1>1, <1>3, <2>2, <3>1, <3>5 DEF Past
      <4> QED
        BY <1>1, <3>2, <3>3, <3>5, <4>1 DEF OpeningInTime, Opened
    <3> QED
      BY <1>4, <3>4, <3>5
  <2> QED
    BY <1>2, <2>1, <2>2 DEF OpeningInTime, Opened
<1> QED
  BY <1>1, <1>5, <1>6, <1>8, <1>9 DEF ScheduleInv

(* A product grows by its factor.                                          *)
LEMMA NextMultiple == \A a, b \in Int : (a + 1) * b = a * b + b
OBVIOUS

LEMMA MonitorKeepsSchedule ==
  ASSUME RtosInv, NEW C \in Nat, 8 * C < TickCycles, Delays # 0, ScheduleInv(C),
         NEW c \in Costs, c <= C, Monitor(c)
  PROVE  ScheduleInv(C)'
<1>1. /\ started /\ current = "monitor" /\ trap = "none" /\ ~InterruptPending
      /\ UNCHANGED << started, current, xTickCount, context, progress, slices,
                      last >>
      /\ \/ /\ pc = "delay" /\ pc' = "suspend" /\ trap' = "none"
            /\ i' = i + 1 /\ wake' = xTickCount + DelayTicks
            /\ traps' = traps /\ clock' = clock + c
         \/ /\ pc = "suspend" /\ pc' = "delay" /\ trap' = "ecall"
            /\ traps' = traps + 1 /\ UNCHANGED << i, wake, clock >>
         \/ /\ pc = "delay" /\ pc' = "fail" /\ trap' = "none" /\ i = Delays
            /\ clock' = clock + c /\ UNCHANGED << i, wake, traps >>
  BY MonitorEffect
<1>2. TrapsCounted /\ MonitorOnTime /\ ClockBounded(C) /\ OpeningInTime(C)
  BY <1>1 DEF ScheduleInv
<1>3. /\ clock \in Nat /\ TickCycles \in Nat /\ i \in Nat /\ traps \in Nat
      /\ xTickCount \in Nat /\ c \in Nat /\ Due \in Nat /\ DelayTicks \in Nat
  BY <1>1, StepFits, RtosAssumption
<1>4. current \notin Workers /\ current # "workerA" /\ current # "workerB"
  BY <1>1 DEF Workers
<1>5. /\ i' = i => Due' = Due
      /\ i' = i + 1 => Due' = Due + DelayTicks
  BY <1>3, NextMultiple DEF Due
<1>6. /\ HasYielded("workerA")' = HasYielded("workerA")
      /\ HasYielded("workerB")' = HasYielded("workerB")
  BY <1>1, <1>4 DEF HasYielded, Past
<1>7. TrapsCounted'
  BY <1>1, <1>2, <1>3, <1>6 DEF TrapsCounted, One
<1>8. MonitorOnTime'
  BY <1>1, <1>2, <1>3, <1>4, <1>5 DEF MonitorOnTime, Dormant
<1>9. ClockBounded(C)'
  BY <1>1, <1>2, <1>3, <1>4 DEF ClockBounded, Dormant
<1>10. OpeningInTime(C)'
  <2>1. CASE HasYielded("workerA") /\ HasYielded("workerB")
    BY <1>1, <1>6, <2>1 DEF OpeningInTime, Opened
  <2>2. CASE /\ Opening /\ xTickCount = 0
             /\ \/ i = 0 /\ pc = "delay" /\ trap = "none" /\ clock = 0
                \/ i = 1 /\ Dormant /\ clock <= C
    <3>1. Opening'
      BY <1>1, <1>4, <2>2 DEF Opening, Starting, Fresh
    <3>2. i' = 1 /\ Dormant' /\ clock' <= C
      BY <1>1, <1>3, <2>2 DEF Dormant
    <3> QED
      BY <1>1, <1>4, <2>2, <3>1, <3>2 DEF OpeningInTime, Opened
  <2> QED
    BY <1>1, <1>2, <2>1, <2>2 DEF OpeningInTime, Opened
<1> QED
  BY <1>1, <1>7, <1>8, <1>9, <1>10 DEF ScheduleInv

LEMMA FailKeepsSchedule ==
  ASSUME RtosInv, NEW C \in Nat, ScheduleInv(C),
         NEW c \in Costs, PlatformFail(c)
  PROVE  ScheduleInv(C)'
<1>1. /\ started /\ current = "monitor" /\ trap = "none" /\ trap' = "none"
      /\ pc \in {"fail", "led", "tohost", "wfi"} /\ pc' \in {"led", "tohost", "wfi"}
      /\ UNCHANGED << started, current, ready, wake, xTickCount, context, i,
                      progress, traps, slices, last >>
  BY FailEffect DEF Final
<1>2. TrapsCounted /\ MonitorOnTime /\ ClockBounded(C) /\ OpeningInTime(C)
  BY <1>1 DEF ScheduleInv
<1>3. current \notin Workers /\ current # "workerA" /\ current # "workerB"
  BY <1>1 DEF Workers
<1>4. TrapsCounted'
  BY <1>1, <1>2, <1>3 DEF TrapsCounted, One, HasYielded, Past
<1>5. MonitorOnTime'
  BY <1>1, <1>2, <1>3 DEF MonitorOnTime, Dormant, Due
<1>6. ClockBounded(C)'
  BY <1>1, <1>3 DEF ClockBounded, Dormant
<1>7. OpeningInTime(C)'
  BY <1>1, <1>2, <1>3 DEF OpeningInTime, Opened, Dormant, HasYielded, Past
<1> QED
  BY <1>1, <1>4, <1>5, <1>6, <1>7 DEF ScheduleInv

(* A switch changes nothing about which workers have passed their yield.   *)
LEMMA SwitchKeepsYields ==
  ASSUME RtosInv, started, trap # "none", NEW q, Lists(q, last),
         Dispatch(Saved, q), current = "monitor" => pc = "delay"
  PROVE  /\ HasYielded("workerA")' = HasYielded("workerA")
         /\ HasYielded("workerB")' = HasYielded("workerB")
<1>1. /\ RtosTypeOK /\ Saved \in [Tasks -> Context] /\ Contexts(Saved)
      /\ last \in Workers \cup {"none"}
  BY SavedOK DEF RtosInv, RtosTypeOK
<1>2. /\ context' = Saved
      /\ current' = "monitor" \/ current' \in Workers
  BY <1>1, DispatchOK
<1>3. pc' = Saved[current'].pc
  BY <1>1 DEF Dispatch
<1>4. /\ Saved["workerA"].pc =
           IF current = "workerA" THEN pc ELSE context["workerA"].pc
      /\ Saved["workerB"].pc =
           IF current = "workerB" THEN pc ELSE context["workerB"].pc
  BY <1>1, SavedContexts DEF Tasks, Workers
<1> QED
  BY <1>2, <1>3, <1>4 DEF HasYielded, Past

LEMMA TickKeepsSchedule ==
  ASSUME RtosInv, NEW C \in Nat, 8 * C < TickCycles, ScheduleInv(C),
         NEW c \in Costs, c <= C, TickHandler(c)
  PROVE  ScheduleInv(C)'
<1>1. /\ trap = "timer" /\ started /\ trap' = "none" /\ started' = started
      /\ UNCHANGED << i, traps >> /\ clock' = clock - TickCycles + c
      /\ xTickCount' = xTickCount + 1
      /\ wake' = IF wake = xTickCount + 1 THEN 0 ELSE wake
  BY DEF TickHandler, RtosInv, BootInv
<1>2. TrapsCounted /\ MonitorOnTime /\ ClockBounded(C) /\ OpeningInTime(C)
  BY <1>1 DEF ScheduleInv
<1>3. /\ RunInv /\ RtosTypeOK /\ last \in Workers \cup {"none"} /\ Lists(ready, last)
      /\ wake # 0 <=> ready[2] = << >>
  BY <1>1 DEF RtosInv, RunInv, RunningOK, RtosTypeOK
<1>4. current \in Workers /\ current # "monitor"
  BY <1>1, <1>2, <1>3 DEF MonitorOnTime, RunInv, RunningOK, Workers
<1>5. /\ clock \in Nat /\ TickCycles \in Nat /\ i \in Nat /\ traps \in Nat
      /\ xTickCount \in Nat /\ c \in Nat /\ Due \in Nat
      /\ C <= Late(C) /\ Late(C) <= 5 * C
  BY <1>1, StepFits, RtosAssumption
<1>6. wake = Due /\ xTickCount < Due /\ Due' = Due
  BY <1>1, <1>2, <1>4 DEF MonitorOnTime, Due
<1> DEFINE q == Woken(xTickCount + 1)
<1>7. Dispatch(Saved, q)
  BY <1>4, WorkerIsPreempted
<1>9. << "monitor" >> # << >>
  BY Singles DEF Tasks
<1>10. /\ Lists(q, last)
       /\ q[2] = IF wake = xTickCount + 1 THEN << "monitor" >> ELSE << >>
  BY <1>1, <1>3, <1>5, <1>6, TickLists
<1> HIDE DEF q
<1>11. Saved \in [Tasks -> Context] /\ Contexts(Saved)
  BY <1>1, <1>4, SavedOK
<1>12. \/ /\ wake = xTickCount + 1 /\ current' = "monitor" /\ pc' = "delay"
       \/ /\ wake # xTickCount + 1 /\ current' \in Workers
  <2>1. "monitor" \notin Workers
    BY DEF Workers
  <2>2. CASE wake = xTickCount + 1
    <3>1. q[2] = << "monitor" >>
      BY <1>10, <2>2
    <3>2. current' = "monitor"
      BY <1>7, <1>10, <3>1, MonitorDispatched
    <3> QED
      BY <1>3, <1>7, <1>10, <1>11, <2>1, <2>2, <3>2, DispatchOK
  <2>3. CASE wake # xTickCount + 1
    <3>1. q[2] # << "monitor" >>
      BY <1>9, <1>10, <2>3
    <3> QED
      BY <1>3, <1>7, <1>10, <1>11, <2>3, <3>1, DispatchOK
  <2> QED
    BY <2>2, <2>3
<1>13. /\ HasYielded("workerA")' = HasYielded("workerA")
       /\ HasYielded("workerB")' = HasYielded("workerB")
  BY <1>1, <1>4, <1>7, <1>10, SwitchKeepsYields
<1>14. "monitor" \notin Workers
  BY DEF Workers
<1>15. TrapsCounted'
  BY <1>1, <1>2, <1>4, <1>5, <1>12, <1>13, <1>14 DEF TrapsCounted, One
<1>16. MonitorOnTime'
  BY <1>1, <1>5, <1>6, <1>12, <1>14 DEF MonitorOnTime, Dormant
<1>17. ClockBounded(C)'
  <2>1. clock <= TickCycles + Late(C)
    BY <1>2, <1>4 DEF ClockBounded
  <2>2. clock' <= 6 * C /\ clock' \in Int
    <3>1. Late(C) \in Nat
      BY DEF Late
    <3> QED
      BY <1>1, <1>5, <2>1, <3>1
  <2>3. C <= Late(C)' /\ Late(C)' \in Nat
    BY DEF Late
  <2>4. clock' <= TickCycles + Late(C)' /\ clock' <= 7 * C
    BY <1>5, <2>2, <2>3
  <2> QED
    BY <1>1, <2>2, <2>4 DEF ClockBounded
<1>18. OpeningInTime(C)'
  BY <1>1, <1>2, <1>13 DEF OpeningInTime, Opened
<1> QED
  BY <1>1, <1>15, <1>16, <1>17, <1>18 DEF ScheduleInv

LEMMA YieldKeepsSchedule ==
  ASSUME RtosInv, NEW C \in Nat, 8 * C < TickCycles, ScheduleInv(C),
         NEW c \in Costs, c <= C, YieldHandler(c)
  PROVE  ScheduleInv(C)'
<1>1. /\ trap = "ecall" /\ started /\ trap' = "none" /\ started' = started
      /\ UNCHANGED << i, traps, xTickCount, wake >> /\ clock' = clock + c
      /\ Dispatch(Saved, ready)
  BY DEF YieldHandler, Elapse, RtosInv, BootInv
<1>2. TrapsCounted /\ MonitorOnTime /\ ClockBounded(C) /\ OpeningInTime(C)
  BY <1>1 DEF ScheduleInv
<1>3. /\ RunInv /\ RtosTypeOK /\ last \in Workers \cup {"none"} /\ Lists(ready, last)
      /\ wake # 0 <=> ready[2] = << >>
      /\ current \in Workers => last = current
      /\ pc \in {"check", "delay"}
      /\ current = "monitor" => pc = "delay"
      /\ current \in Workers => pc = "check"
      /\ current \in Workers \cup {"monitor"}
  BY <1>1 DEF RtosInv, RunInv, RunningOK, InterruptsOK, RtosTypeOK, InMonitor,
     Final, InWorker, Switchable, Critical
<1>4. /\ clock \in Nat /\ TickCycles \in Nat /\ i \in Nat /\ traps \in Nat
      /\ xTickCount \in Nat /\ c \in Nat /\ Due \in Nat /\ DelayTicks \in Nat \ {0}
      /\ Due' = Due
  BY <1>1, StepFits, RtosAssumption DEF Due
<1>5. Saved \in [Tasks -> Context] /\ Contexts(Saved)
  BY <1>1, <1>3, SavedOK
<1>6. /\ HasYielded("workerA")' = HasYielded("workerA")
      /\ HasYielded("workerB")' = HasYielded("workerB")
  BY <1>1, <1>3, SwitchKeepsYields
<1>7. wake = Due /\ xTickCount < Due
  <2>1. CASE current = "monitor"
    <3>1. Dormant
      BY <1>1, <2>1 DEF Dormant
    <3> QED
      BY <1>2, <1>4, <3>1 DEF MonitorOnTime
  <2>2. CASE current \in Workers
    BY <1>2, <2>2 DEF MonitorOnTime
  <2> QED
    BY <1>3, <2>1, <2>2
<1>8. ready[2] = << >>
  BY <1>3, <1>4, <1>7
<1>9. /\ current' = IF last = "workerA" THEN "workerB" ELSE "workerA"
      /\ pc' = Saved[current'].pc /\ context' = Saved
  BY <1>1, <1>3, <1>5, <1>8, DispatchWorker
<1>10. ready'[2] = << >>
  BY <1>1, <1>3, <1>5, <1>8, DispatchOK
<1>11. current' \in Workers /\ current' # "monitor"
  BY <1>9 DEF Workers
<1>12. TrapsCounted'
  BY <1>1, <1>2, <1>3, <1>4, <1>6, <1>11 DEF TrapsCounted, One
<1>13. MonitorOnTime'
  BY <1>1, <1>4, <1>7, <1>11 DEF MonitorOnTime, Dormant
<1>14. /\ Saved["workerA"].pc =
            IF current = "workerA" THEN pc ELSE context["workerA"].pc
       /\ Saved["workerB"].pc =
            IF current = "workerB" THEN pc ELSE context["workerB"].pc
  BY <1>3, SavedContexts DEF Tasks, Workers
<1>15. current \in Workers => clock <= 5 * C
  BY <1>1, <1>2, <1>3, <1>4 DEF OpeningInTime, Opened, Workers
<1>16. current = "monitor" => clock <= 7 * C
  BY <1>1, <1>2 DEF ClockBounded, Dormant
<1>17. ClockBounded(C)'
  <2>1. C <= Late(C)' /\ Late(C)' \in Nat
    BY DEF Late
  <2>2. clock' <= TickCycles + Late(C)'
    BY <1>1, <1>3, <1>4, <1>15, <1>16, <2>1
  <2> QED
    BY <1>11, <2>2 DEF ClockBounded
<1>18. OpeningInTime(C)'
  <2>1. CASE HasYielded("workerA") /\ HasYielded("workerB")
    BY <1>1, <1>6, <2>1 DEF OpeningInTime, Opened
  <2>2. CASE /\ Opening /\ xTickCount = 0
             /\ current = "monitor" => clock <= C
             /\ current = "workerA" => clock <= 3 * C
             /\ current = "workerB" => clock <= 5 * C
    <3>1. CASE current = "monitor"
      <4>1. last = "none" /\ Fresh("workerA") /\ Fresh("workerB")
        BY <2>2, <3>1 DEF Opening, Starting
      <4>2. current' = "workerA" /\ pc' = "guard" /\ context'["workerB"].pc = "guard"
        BY <1>9, <1>14, <3>1, <4>1 DEF Fresh
      <4>3. Opening'
        BY <1>10, <4>2 DEF Opening, Starting, Fresh
      <4>4. clock' <= 2 * C
        BY <1>1, <1>4, <2>2, <3>1
      <4> QED
        BY <1>1, <2>2, <4>2, <4>3, <4>4 DEF OpeningInTime, Opened
    <3>2. CASE current = "workerA"
      <4>1. Fresh("workerB") /\ last = "workerA" /\ pc = "check"
        BY <1>3, <2>2, <3>2 DEF Opening, Starting, Workers
      <4>2. current' = "workerB" /\ pc' = "guard" /\ context'["workerA"].pc = "check"
        BY <1>9, <1>14, <3>2, <4>1 DEF Fresh
      <4>3. Opening'
        BY <1>10, <4>2 DEF Opening, Starting, Fresh
      <4>4. clock' <= 4 * C
        BY <1>1, <1>4, <2>2, <3>2
      <4> QED
        BY <1>1, <2>2, <4>2, <4>3, <4>4 DEF OpeningInTime, Opened
    <3>3. CASE current = "workerB"
      <4>1. context["workerA"].pc = "check" /\ last = "workerB" /\ pc = "check"
        BY <1>3, <2>2, <3>3 DEF Opening, Starting, Workers
      <4>2. current' = "workerA" /\ pc' = "check" /\ context'["workerB"].pc = "check"
        BY <1>9, <1>14, <3>3, <4>1
      <4>3. HasYielded("workerA")' /\ HasYielded("workerB")'
        BY <4>2 DEF HasYielded, Past
      <4> QED
        BY <1>1, <4>3 DEF OpeningInTime, Opened
    <3> QED
      BY <1>3, <3>1, <3>2, <3>3 DEF Workers
  <2> QED
    BY <1>1, <1>2, <1>3, <2>1, <2>2 DEF OpeningInTime, Opened, Workers
<1> QED
  BY <1>1, <1>12, <1>13, <1>17, <1>18 DEF ScheduleInv

LEMMA BootKeepsSchedule ==
  ASSUME RtosInv, ~started, NEW C \in Nat, ScheduleInv(C), RtosNext
  PROVE  ScheduleInv(C)'
<1>1. NotBegun
  BY DEF ScheduleInv
<1>2. CASE UNCHANGED << started, context, progress, traps, xTickCount, clock,
                        slices, last >>
  BY <1>1, <1>2 DEF ScheduleInv, NotBegun, Fresh
<1>3. CASE /\ started' /\ current' = "monitor" /\ last' = "none"
           /\ pc' = "delay" /\ trap' = "none" /\ wake' = 0 /\ i' = 0
           /\ UNCHANGED << context, progress, traps, xTickCount, clock, slices >>
  <2>1. Due' = 0
    BY <1>3, RtosAssumption DEF Due
  <2>2. /\ Fresh("workerA")' /\ Fresh("workerB")' /\ ~Dormant'
        /\ ~HasYielded("workerA")' /\ ~HasYielded("workerB")'
    BY <1>1, <1>3 DEF NotBegun, Fresh, Dormant, HasYielded, Past
  <2>3. "monitor" \notin Workers /\ traps' = 0 /\ xTickCount' = 0 /\ clock' = 0
    BY <1>1, <1>3 DEF NotBegun, Workers
  <2>4. TrapsCounted'
    BY <1>3, <2>2, <2>3 DEF TrapsCounted, One
  <2>5. MonitorOnTime'
    BY <1>3, <2>1, <2>2, <2>3 DEF MonitorOnTime
  <2>6. ClockBounded(C)'
    BY <1>3, <2>2, <2>3 DEF ClockBounded
  <2>7. OpeningInTime(C)'
    BY <1>3, <2>2, <2>3 DEF OpeningInTime, Opened, Opening
  <2> QED
    BY <1>3, <2>4, <2>5, <2>6, <2>7 DEF ScheduleInv
<1> QED
  BY <1>2, <1>3, BootEffect

LEMMA ScheduleStep ==
  ASSUME NEW C \in Nat, \A c \in Costs : c <= C, 8 * C < TickCycles, Delays # 0,
         RtosInv, ScheduleInv(C), [RtosNext]_rtosVars
  PROVE  ScheduleInv(C)'
<1>1. CASE UNCHANGED rtosVars
  BY <1>1 DEF rtosVars, hardware, kernel, program, report, history,
     ScheduleInv, NotBegun, TrapsCounted, MonitorOnTime, ClockBounded,
     OpeningInTime, Opened, Opening, Starting, Fresh, Past, HasYielded, Dormant, Late,
     Due, One
<1>2. CASE RtosNext /\ ~started
  BY <1>2, BootKeepsSchedule
<1>3. CASE RtosNext /\ started
  <2>1. CASE TimerInterrupt
    BY <1>3, <2>1, TickTaken
  <2>2. ASSUME NEW c \in Costs, Worker(c) PROVE ScheduleInv(C)'
    BY <2>2, WorkerKeepsSchedule
  <2>3. ASSUME NEW c \in Costs, Monitor(c) PROVE ScheduleInv(C)'
    BY <2>3, MonitorKeepsSchedule
  <2>4. ASSUME NEW c \in Costs, PlatformFail(c) PROVE ScheduleInv(C)'
    BY <2>4, FailKeepsSchedule
  <2>5. ASSUME NEW c \in Costs, TickHandler(c) PROVE ScheduleInv(C)'
    BY <2>5, TickKeepsSchedule
  <2>6. ASSUME NEW c \in Costs, YieldHandler(c) PROVE ScheduleInv(C)'
    BY <2>6, YieldKeepsSchedule
  <2> QED
    BY <1>3, <2>1, <2>2, <2>3, <2>4, <2>5, <2>6, RunningSteps
<1> QED
  BY <1>1, <1>2, <1>3

(* PRIVILEGED_RTOS.md counts 26 traps, 20 of them ticks: as long as no     *)
(* step takes more than an eighth of a tick, there is one for each tick of *)
(* the monitor's delays, one for each delay and one for the yield of each  *)
(* worker, whenever the ticks come.                                        *)
THEOREM RtosTrapCount ==
  ASSUME NEW C \in Nat, \A c \in Costs : c <= C, 8 * C < TickCycles, Delays # 0
  PROVE  RtosSpec => []TrapCount
<1>1. RtosInit => ScheduleInv(C)
  BY DEF RtosInit, ScheduleInv, NotBegun, Fresh, Entry, Tasks, Workers
<1>2. ASSUME RtosInv, ScheduleInv(C), [RtosNext]_rtosVars
      PROVE  ScheduleInv(C)'
  BY <1>2, ScheduleStep
<1>3. RtosInv /\ ScheduleInv(C) => TrapCount
  <2> SUFFICES ASSUME RtosInv, ScheduleInv(C), tohost = 1
               PROVE  traps = Delays * DelayTicks + Delays + 2
    BY DEF TrapCount
  <2>1. started /\ RunInv /\ pc = "wfi"
    BY DEF RtosInv, BootInv, RunInv
  <2>2. current = "monitor" /\ trap = "none"
    BY <2>1 DEF RunInv, RunningOK, InterruptsOK, InWorker, Switchable, Critical,
       Final
  <2>3. TrapsCounted /\ MonitorOnTime /\ OpeningInTime(C)
    BY <2>1 DEF ScheduleInv
  <2>4. i = Delays /\ xTickCount = Due
    BY <2>1, <2>2, <2>3 DEF MonitorOnTime, Dormant
  <2>5. HasYielded("workerA") /\ HasYielded("workerB")
    BY <2>1, <2>2, <2>3 DEF OpeningInTime, Opened, Dormant
  <2>6. traps = Due + Delays + 2
    <3>1. Due \in Nat /\ Delays \in Nat
      BY <2>1, RtosAssumption DEF Due, RtosInv, RtosTypeOK
    <3> QED
      BY <2>1, <2>2, <2>3, <2>4, <2>5, <3>1 DEF TrapsCounted, One
  <2> QED
    BY <2>4, <2>6 DEF Due
<1> QED
  BY <1>1, <1>2, <1>3, RtosInvAlways, PTL DEF RtosSpec

(***************************************************************************)
(* What the workers get done, when a tick is long enough.                  *)
(***************************************************************************)
Turn(n) == IF n % 2 = 0 THEN "workerA" ELSE "workerB"

(* Once both are past their yield the workers take turns, tick by tick.    *)
TurnsKept ==
  Opened => /\ current \in Workers => current = Turn(xTickCount)
            /\ current = "monitor" =>
                 last \in Workers /\ last # Turn(xTickCount)

(* How many slices of w the timer has ended, and the least length of one.  *)
Ended(w) == IF w = "workerA" THEN (xTickCount + 1) \div 2 ELSE xTickCount \div 2
Quantum(C) == TickCycles - 8 * C

(* Where w is, the steps of its iterations and the most they have taken.   *)
Place(w) == IF current = w THEN pc ELSE context[w].pc
Steps(w) == 2 * progress[w] + One(Place(w) = "count")
Work(w, C) == C * Steps(w)

(* A worker that has not done enough yet has iterated all the time it had. *)
Earned(w, C) ==
  \/ progress[w] >= Enough
  \/ /\ Place(w) \in {"guard", "yield", "check", "count"}
     /\ Work(w, C) >= Ended(w) * Quantum(C)
                        + (IF current = w THEN clock - 8 * C ELSE 0)

(* An iteration takes a cycle at least.                                    *)
NotTooMuch ==
  progress["workerA"] + progress["workerB"] <= xTickCount * TickCycles + clock

ProgressInv(C) ==
  /\ code["monitor"] = "0"
  /\ ~started => progress["workerA"] = 0 /\ progress["workerB"] = 0
  /\ started => NotTooMuch /\ TurnsKept /\ \A w \in Workers : Earned(w, C)

(* Arithmetic.                                                             *)
LEMMA SmallMod == \A n, m \in Nat : n < m => n % m = n
OBVIOUS

LEMMA MoreTimes == \A a, b, t \in Nat : a <= b => a * t <= b * t
OBVIOUS

LEMMA NextTurn ==
  \A n \in Nat :
    /\ Turn(n) \in {"workerA", "workerB"} /\ Turn(n + 1) # Turn(n)
    /\ Turn(n) = "workerA" =>
         (n + 2) \div 2 = (n + 1) \div 2 + 1 /\ (n + 1) \div 2 = n \div 2
    /\ Turn(n) = "workerB" =>
         (n + 2) \div 2 = (n + 1) \div 2 /\ (n + 1) \div 2 = n \div 2 + 1
BY DEF Turn

LEMMA Halves == \A n \in Nat : n \div 2 \in Nat /\ (n + 1) \div 2 \in Nat
OBVIOUS

LEMMA NotAhead == \A a, b \in Nat : a <= b => a - b \in Int /\ a - b <= 0
OBVIOUS

LEMMA EarnedTypes ==
  ASSUME RtosInv, NEW C \in Nat, 8 * C < TickCycles, NEW w \in Workers
  PROVE  /\ progress[w] \in Nat /\ Ended(w) \in Nat /\ Quantum(C) \in Nat \ {0}
         /\ Steps(w) \in Nat /\ Work(w, C) \in Nat
         /\ Ended(w) * Quantum(C) \in Nat
<1>1. progress[w] \in Nat /\ xTickCount \in Nat
  BY RtosAssumption DEF RtosInv, RtosTypeOK
<1>2. Ended(w) \in Nat /\ Quantum(C) \in Nat \ {0}
  BY <1>1, TickType DEF Ended, Quantum
<1>3. Steps(w) \in Nat
  BY <1>1 DEF One, Steps
<1>4. Work(w, C) \in Nat
  BY <1>3 DEF Work
<1>5. Ended(w) * Quantum(C) \in Nat
  BY <1>2
<1> QED
  BY <1>1, <1>2, <1>3, <1>4, <1>5

(* What a step of a worker does for its progress.                          *)
LEMMA WorkerProgress ==
  ASSUME RtosInv, NEW c \in Costs, Worker(c)
  PROVE  /\ code'["monitor"] = code["monitor"]
         /\ pc = "check" => pc' = "count"
         /\ pc = "count" =>
              /\ progress'[current] = (progress[current] + 1) % CounterSize
              /\ pc' = IF ((progress[current] + 1) % CounterSize) % CheckEvery = 0
                       THEN "enter1" ELSE "check"
         /\ pc # "count" => progress' = progress
<1>1. /\ started /\ current \in Workers
      /\ progress \in [Workers -> 0 .. CounterSize - 1]
      /\ code \in [Tasks \cup {"main"} -> Codes]
  BY WorkerEffect DEF RtosInv, RtosTypeOK
<1>2. /\ pc # "guard" => s2 = Guard[current]
      /\ "monitor" \in Tasks \cup {"main"} /\ self # "monitor"
  BY <1>1 DEF RtosInv, RunInv, RunningOK, self, Tasks, Workers
<1>3. CASE LoadGuard(c)
  BY <1>3 DEF LoadGuard, At
<1>4. CASE Yield
  BY <1>4 DEF Yield, At, Ecall
<1>5. CASE CheckGuard(c)
  BY <1>2, <1>5 DEF CheckGuard, At, Goto
<1>6. CASE Count(c)
  BY <1>1, <1>6 DEF Count, At, Goto, AfterCount
<1>7. CASE ReadStatus(c)
  BY <1>1, <1>2, <1>7 DEF ReadStatus, At, GiveUp
<1>8. CASE \/ EnterCritical("enter1", "enter2", c)
           \/ EnterCritical("enter2", "status", c)
           \/ ExitCritical("exit2", "exit1", c)
           \/ ExitCritical("exit1", "check", c)
  BY <1>8 DEF EnterCritical, ExitCritical, At
<1> QED
  BY <1>3, <1>4, <1>5, <1>6, <1>7, <1>8 DEF Worker

(* Nobody but a worker counts, and nobody but the monitor reports f004.    *)
LEMMA CountAlone ==
  ASSUME RtosInv, RtosNext, ~(\E c \in Costs : Worker(c) \/ Verdict(c))
  PROVE  progress' = progress /\ code'["monitor"] = code["monitor"]
<1>1. code \in [Tasks \cup {"main"} -> Codes] /\ "monitor" \in Tasks
  BY DEF RtosInv, RtosTypeOK, Tasks
<1>2. CASE Main
  <2>1. ASSUME NEW here, NEW t, NEW next, Create(here, t, next), ~started
        PROVE  progress' = progress /\ code'["monitor"] = code["monitor"]
    BY <1>1, <2>1 DEF Create, GiveUp, self
  <2>2. ASSUME StartScheduler
        PROVE  progress' = progress /\ code'["monitor"] = code["monitor"]
    BY <2>2 DEF StartScheduler, configKERNEL_PROVIDED_STATIC_MEMORY
  <2>3. ~started
    <3>1. pc \notin InWorker \cup InMonitor
      BY <1>2 DEF Main, Create, StartScheduler, At, InWorker, Switchable,
         Critical, InMonitor, Final
    <3> QED
      BY <3>1 DEF RtosInv, RunInv, RunningOK
  <2> QED
    BY <1>2, <2>1, <2>2, <2>3 DEF Main
<1>3. CASE TimerInterrupt
  BY <1>3 DEF TimerInterrupt, program
<1>4. ASSUME NEW c \in Costs,
             Delay(c) \/ Suspend \/ TickHandler(c) \/ YieldHandler(c)
      PROVE  progress' = progress /\ code'["monitor"] = code["monitor"]
  BY <1>4 DEF Delay, Suspend, Ecall, TickHandler, YieldHandler
<1>5. ASSUME NEW c \in Costs, PlatformFail(c)
      PROVE  progress' = progress /\ code'["monitor"] = code["monitor"]
  BY <1>5 DEF PlatformFail, DisableInterrupts, WriteLed, WriteTohost, Sleep,
     rtosVars, program
<1> QED
  BY <1>2, <1>3, <1>4, <1>5 DEF RtosNext, Monitor

(* The counters do not wrap before the verdict.                            *)
LEMMA NoWrap ==
  ASSUME RtosInv, started, NEW C \in Nat, 8 * C < TickCycles, MonitorOnTime,
         NotTooMuch, Delays * DelayTicks * TickCycles < CounterSize,
         current \in Workers, clock < TickCycles
  PROVE  progress[current] + 1 < CounterSize
<1> DEFINE N == Delays * DelayTicks
<1>1. /\ i \in Nat /\ i <= Delays /\ Delays \in Nat /\ DelayTicks \in Nat
      /\ xTickCount \in Nat /\ clock \in Nat /\ TickCycles \in Nat
      /\ CounterSize \in Nat
      /\ progress["workerA"] \in Nat /\ progress["workerB"] \in Nat
  BY TickType, RtosAssumption DEF RtosInv, RtosTypeOK, Workers
<1>2. Due <= N /\ Due \in Nat /\ N \in Nat
  BY <1>1, MoreTimes DEF Due
<1>3. xTickCount + 1 <= N
  <2>1. xTickCount < Due
    BY DEF MonitorOnTime
  <2> HIDE DEF N
  <2> QED
    BY <1>1, <1>2, <2>1
<1>4. N * TickCycles < CounterSize
  OBVIOUS
<1> HIDE DEF N
<1>5. (xTickCount + 1) * TickCycles <= N * TickCycles
  BY <1>1, <1>2, <1>3, MoreTimes
<1>6. (xTickCount + 1) * TickCycles = xTickCount * TickCycles + TickCycles
  BY <1>1, NextMultiple
<1> DEFINE x == xTickCount * TickCycles
           y == N * TickCycles
<1>7. x \in Nat /\ y \in Nat
  BY <1>1, <1>2
<1>8. progress["workerA"] + progress["workerB"] <= x + clock
  BY DEF NotTooMuch
<1>9. x + TickCycles <= y /\ y < CounterSize
  BY <1>4, <1>5, <1>6
<1> HIDE DEF x, y
<1>10. progress["workerA"] + progress["workerB"] + 1 < CounterSize
  BY <1>1, <1>7, <1>8, <1>9
<1> QED
  BY <1>1, <1>10 DEF Workers

(* The hypotheses: half of the ticks give a worker time for Enough         *)
(* iterations, the first critical section comes after them, and the        *)
(* counters do not wrap.  With the values of the code (9000 cycles to a    *)
(* tick, 4 times 5 ticks, 100 iterations) a step can take up to 321        *)
(* cycles.                                                                 *)
LongTicks(C) ==
  /\ \A c \in Costs : c <= C
  /\ 8 * C < TickCycles /\ Delays # 0 /\ CheckEvery > Enough
  /\ ((Delays * DelayTicks) \div 2) * Quantum(C) >= 2 * Enough * C
  /\ Delays * DelayTicks * TickCycles < CounterSize

LEMMA WorkerEarns ==
  ASSUME RtosInv, NEW C \in Nat \ {0}, LongTicks(C), ScheduleInv(C), ScheduleInv(C)',
         ProgressInv(C), NEW c \in Costs, Worker(c)
  PROVE  ProgressInv(C)'
<1>1. /\ started /\ current \in Workers /\ trap = "none" /\ ~InterruptPending
      /\ UNCHANGED << started, current, ready, wake, xTickCount, context, i,
                      slices, last >>
      /\ \A w \in Workers : w # current => progress'[w] = progress[w]
      /\ \/ /\ pc = "guard" /\ pc' = "yield" /\ trap' = "none"
            /\ traps' = traps /\ clock' = clock + c
         \/ /\ pc = "yield" /\ pc' = "check" /\ trap' = "ecall"
            /\ traps' = traps + 1 /\ clock' = clock
         \/ /\ Past(pc) /\ Past(pc') /\ trap' = "none"
            /\ traps' = traps /\ clock' = clock + c
  BY WorkerEffect
<1>2. /\ code'["monitor"] = code["monitor"]
      /\ pc = "check" => pc' = "count"
      /\ pc = "count" =>
           /\ progress'[current] = (progress[current] + 1) % CounterSize
           /\ pc' = IF ((progress[current] + 1) % CounterSize) % CheckEvery = 0
                    THEN "enter1" ELSE "check"
      /\ pc # "count" => progress' = progress
  BY WorkerProgress
<1>3. /\ MonitorOnTime /\ OpeningInTime(C) /\ OpeningInTime(C)'
      /\ code["monitor"] = "0" /\ NotTooMuch /\ TurnsKept
      /\ \A w \in Workers : Earned(w, C)
      /\ c <= C /\ 8 * C < TickCycles /\ CheckEvery > Enough /\ C \in Nat
      /\ Delays * DelayTicks * TickCycles < CounterSize
  BY <1>1 DEF ScheduleInv, ProgressInv, LongTicks
<1>4. /\ clock \in Nat /\ TickCycles \in Nat /\ xTickCount \in Nat
      /\ c \in Nat \ {0} /\ Enough \in Nat /\ CheckEvery \in Nat
      /\ pc \in InWorker /\ (pc = "count" => clock < TickCycles)
  <2>1. pc \in InWorker
    BY <1>1 DEF RtosInv, RunInv, RunningOK
  <2> QED
    BY <1>1, <1>3, <2>1, StepFits, RtosAssumption DEF Critical, Final
<1>5. \A w \in Workers : /\ progress[w] \in Nat /\ Ended(w) \in Nat
                         /\ Quantum(C) \in Nat /\ Steps(w) \in Nat
                         /\ Work(w, C) \in Nat /\ Ended(w) * Quantum(C) \in Nat
  BY <1>3, EarnedTypes
<1>6. current # "monitor" /\ current \in {"workerA", "workerB"}
  BY <1>1 DEF Workers
<1>7. CounterSize \in Nat
      /\ (pc = "count" => progress'[current] = progress[current] + 1)
  <2>1. CASE pc = "count"
    <3>1. progress[current] + 1 < CounterSize
      BY <1>1, <1>3, <1>4, <2>1, NoWrap
    <3>2. (progress[current] + 1) % CounterSize = progress[current] + 1
      BY <1>1, <1>5, <3>1, SmallMod, RtosAssumption
    <3> QED
      BY <1>2, <2>1, <3>2, RtosAssumption
  <2> QED
    BY <2>1, RtosAssumption
<1>8. NotTooMuch'
  <2> DEFINE x == xTickCount * TickCycles
  <2>1. x \in Nat /\ x' = x
    BY <1>1, <1>4 DEF TickCycles
  <2>2. progress["workerA"] + progress["workerB"] <= x + clock
    BY <1>3 DEF NotTooMuch
  <2>3. pc = "count" => clock' = clock + c
    BY <1>1
  <2>4. clock' >= clock /\ clock' \in Nat
    BY <1>1, <1>4
  <2> HIDE DEF x
  <2>5. /\ progress["workerA"] \in Nat /\ progress["workerB"] \in Nat
        /\ "workerA" \in Workers /\ "workerB" \in Workers
    BY <1>5 DEF Workers
  <2>6. CASE pc = "count"
    <3>1. progress'["workerA"] + progress'["workerB"]
            = progress["workerA"] + progress["workerB"] + 1
      BY <1>1, <1>6, <1>7, <2>5, <2>6
    <3>2. progress'["workerA"] + progress'["workerB"] <= x' + clock'
      BY <1>4, <2>1, <2>2, <2>3, <2>5, <2>6, <3>1
    <3> QED
      BY <3>2 DEF NotTooMuch, x
  <2>7. CASE pc # "count"
    <3>1. progress'["workerA"] + progress'["workerB"] <= x' + clock'
      BY <1>2, <1>4, <2>1, <2>2, <2>4, <2>5, <2>7
    <3> QED
      BY <3>1 DEF NotTooMuch, x
  <2> QED
    BY <2>6, <2>7
<1>9. TurnsKept'
  <2>1. Opened' => Opened
    <3>1. CASE Opened
      BY <3>1
    <3>2. CASE Opening /\ xTickCount = 0
      <4>1. pc \in {"guard", "yield"}
        BY <1>1, <1>6, <3>2 DEF Opening, Starting
      <4>2. current = "workerA" => context'["workerB"].pc = "guard"
        BY <1>1, <3>2 DEF Opening, Starting, Fresh
      <4>3. trap' = "ecall" \/ pc' = "yield"
        BY <1>1, <4>1 DEF Past
      <4> QED
        BY <1>1, <1>6, <4>3 DEF Opened, HasYielded, Past
    <3> QED
      BY <1>3, <3>1, <3>2 DEF OpeningInTime
  <2> QED
    BY <1>1, <1>3, <1>6, <2>1 DEF TurnsKept, Turn
<1>10. ASSUME NEW w \in Workers, w # current
       PROVE  Earned(w, C)'
  <2>1. Place(w)' = Place(w) /\ progress'[w] = progress[w]
    BY <1>1, <1>10 DEF Place
  <2>2. Work(w, C)' = Work(w, C) /\ (Ended(w) * Quantum(C))' = Ended(w) * Quantum(C)
    BY <1>1, <2>1 DEF Work, Steps, One, Ended, Quantum
  <2>3. Earned(w, C)
    BY <1>3
  <2> QED
    BY <1>1, <1>10, <2>1, <2>2, <2>3 DEF Earned
<1>11. Earned(current, C)'
  <2> DEFINE e == Ended(current) * Quantum(C)
             p == progress[current]
  <2>1. /\ e \in Nat /\ e' = e /\ p \in Nat /\ p' = progress'[current]
        /\ Steps(current) \in Nat
    BY <1>1, <1>5 DEF Ended, Quantum
  <2>2. p >= Enough \/ ( /\ pc \in {"guard", "yield", "check", "count"}
                         /\ Work(current, C) >= e + (clock - 8 * C))
    BY <1>1, <1>3 DEF Earned, Place
  <2>3. Place(current) = pc /\ Place(current)' = pc'
    BY <1>1 DEF Place
  <2>4. Work(current, C) = C * Steps(current)
        /\ Work(current, C)' = C * Steps(current)'
    BY DEF Work
  <2>5. Steps(current) = 2 * p + (IF pc = "count" THEN 1 ELSE 0)
        /\ Steps(current)' = 2 * p' + (IF pc' = "count" THEN 1 ELSE 0)
    BY <1>1, <2>3 DEF Steps, One
  <2> SUFFICES p' >= Enough
               \/ ( /\ pc' \in {"guard", "yield", "check", "count"}
                    /\ Work(current, C)' >= e' + (clock' - 8 * C))
    BY <1>1, <2>3 DEF Earned
  <2> HIDE DEF e, p
  <2>6. CASE p >= Enough
    BY <1>1, <1>2, <1>7, <1>4, <2>1, <2>6 DEF p
  <2>7. CASE pc \in {"guard", "yield"} /\ Work(current, C) >= e + (clock - 8 * C)
    <3>1. ~Past(pc) /\ pc' \in {"yield", "check"}
      BY <1>1, <2>7 DEF Past
    <3>2. Opening' /\ xTickCount' = 0 /\ clock' <= 5 * C /\ clock' \in Nat
      <4>1. ~HasYielded(current)
        BY <2>7 DEF HasYielded, Past
      <4>2. pc = "yield" => trap' = "ecall"
        BY <1>1 DEF Past
      <4>3. pc = "guard" => pc' = "yield"
        BY <1>1 DEF Past
      <4>4. ~Opened'
        BY <1>1, <1>6, <2>7, <4>2, <4>3 DEF Opened, HasYielded, Past
      <4> QED
        BY <1>1, <1>3, <1>4, <1>6, <4>4 DEF OpeningInTime
    <3>3. e = 0
      <4>1. Ended(current) = 0
        BY <1>1, <3>2 DEF Ended
      <4> QED
        BY <1>1, <1>5, <4>1 DEF e
    <3>4. Work(current, C)' \in Nat
      <4>1. Steps(current)' \in Nat
        BY <1>2, <2>1, <2>5, <2>7 DEF p
      <4> QED
        BY <2>4, <4>1
    <3> QED
      BY <2>1, <3>1, <3>2, <3>3, <3>4
  <2>8. CASE pc = "check" /\ Work(current, C) >= e + (clock - 8 * C)
    <3>1. pc' = "count" /\ p' = p /\ clock' = clock + c
      BY <1>1, <1>2, <2>8 DEF p, Past
    <3>2. Steps(current)' = Steps(current) + 1
      BY <2>1, <2>5, <2>8, <3>1
    <3>3. C * (Steps(current) + 1) = C * Steps(current) + C
      BY <2>1
    <3>4. Work(current, C)' = Work(current, C) + C
      BY <2>4, <3>2, <3>3
    <3>5. Work(current, C) \in Nat
      BY <1>1, <1>5
    <3> QED
      BY <1>3, <1>4, <2>1, <2>8, <3>1, <3>4, <3>5
  <2>9. CASE pc = "count" /\ Work(current, C) >= e + (clock - 8 * C)
    <3>1. p' = p + 1 /\ clock' = clock + c
      BY <1>1, <1>7, <2>9 DEF p, Past
    <3>2. CASE p + 1 >= Enough
      BY <3>1, <3>2
    <3>3. CASE p + 1 < Enough
      <4>1. (p + 1) % CheckEvery = p + 1
        BY <1>3, <1>4, <2>1, <3>3, SmallMod
      <4>2. pc' = "check"
        BY <1>2, <1>7, <2>1, <2>9, <3>1, <4>1 DEF p
      <4>3. Steps(current)' = Steps(current) + 1
        BY <2>1, <2>5, <2>9, <3>1, <4>2
      <4>4. C * (Steps(current) + 1) = C * Steps(current) + C
        BY <2>1
      <4>5. Work(current, C)' = Work(current, C) + C
        BY <2>4, <4>3, <4>4
      <4>6. Work(current, C) \in Nat
        BY <1>1, <1>5
      <4> QED
        BY <1>3, <1>4, <2>1, <2>9, <3>1, <4>2, <4>5, <4>6
    <3> QED
      BY <1>4, <2>1, <3>2, <3>3
  <2> QED
    BY <2>2, <2>6, <2>7, <2>8, <2>9
<1>12. ASSUME NEW w \in Workers, w = current
       PROVE  Earned(w, C)'
  BY <1>1, <1>11, <1>12
     DEF Earned, Place, Work, Steps, One, Ended, Quantum
<1> QED
  BY <1>1, <1>2, <1>3, <1>8, <1>9, <1>10, <1>12 DEF ProgressInv

(* A step that leaves the workers where they are keeps what they earned.   *)
LEMMA QuietEarns ==
  ASSUME RtosInv, started, NEW C \in Nat, ProgressInv(C), started' = started,
         UNCHANGED << current, context, xTickCount, last, progress >>,
         code'["monitor"] = "0", clock' \in Nat, clock' >= clock,
         trap = "none",
         current \in Workers => pc' = pc /\ clock' = clock
  PROVE  ProgressInv(C)'
<1>1. NotTooMuch /\ TurnsKept /\ \A w \in Workers : Earned(w, C)
  BY DEF ProgressInv
<1>2. current \in Workers \cup {"monitor"} /\ "monitor" \notin Workers
  BY DEF RtosInv, RunInv, RunningOK, Workers
<1>3. clock \in Nat /\ TickCycles \in Nat /\ xTickCount \in Nat
      /\ progress["workerA"] \in Nat /\ progress["workerB"] \in Nat
  BY TickType, RtosAssumption DEF RtosInv, RtosTypeOK, Workers
<1>4. NotTooMuch'
  <2> DEFINE x == xTickCount * TickCycles
  <2>1. x \in Nat /\ x' = x
    BY <1>3 DEF TickCycles
  <2>2. progress["workerA"] + progress["workerB"] <= x + clock
    BY <1>1 DEF NotTooMuch
  <2> HIDE DEF x
  <2>3. progress'["workerA"] + progress'["workerB"] <= x' + clock'
    BY <1>3, <2>1, <2>2
  <2> QED
    BY <2>3 DEF NotTooMuch, x
<1>5. /\ HasYielded("workerA")' = HasYielded("workerA")
      /\ HasYielded("workerB")' = HasYielded("workerB")
  BY <1>2 DEF HasYielded, Past, Workers
<1>6. TurnsKept'
  BY <1>1, <1>5 DEF TurnsKept, Turn, Opened
<1>7. ASSUME NEW w \in Workers PROVE Earned(w, C)'
  <2>1. Place(w)' = Place(w) /\ (current = w => clock' = clock)
    BY <1>2, <1>7 DEF Place
  <2>2. Work(w, C)' = Work(w, C) /\ (Ended(w) * Quantum(C))' = Ended(w) * Quantum(C)
    BY <2>1 DEF Work, Steps, One, Ended, Quantum, TickCycles
  <2> QED
    BY <1>1, <1>7, <2>1, <2>2 DEF Earned
<1> QED
  BY <1>4, <1>6, <1>7 DEF ProgressInv

LEMMA FailClock ==
  ASSUME RtosInv, NEW c \in Costs, PlatformFail(c)
  PROVE  clock' \in Nat /\ clock' >= clock
BY RtosAssumption
   DEF RtosInv, RtosTypeOK, PlatformFail, DisableInterrupts, WriteLed, WriteTohost,
       Sleep, Elapse, rtosVars, hardware

(* A switch at tick count n: whoever gets the processor starts its slice   *)
(* with the clock at eight steps or less.                                  *)
LEMMA SwitchEarns ==
  ASSUME RtosInv, started, NEW C \in Nat, 8 * C < TickCycles,
         trap # "none", current = "monitor" => pc = "delay",
         NEW q, Lists(q, last), Dispatch(Saved, q),
         progress' = progress, clock' \in Nat, clock' <= 8 * C,
         xTickCount' \in Nat, NEW w \in Workers,
         \/ progress[w] >= Enough
         \/ /\ Place(w) \in {"guard", "yield", "check", "count"}
            /\ Work(w, C) >= Ended(w)' * Quantum(C)
  PROVE  Earned(w, C)'
<1>1. /\ RtosTypeOK /\ Saved \in [Tasks -> Context] /\ Contexts(Saved)
      /\ last \in Workers \cup {"none"}
  BY SavedOK DEF RtosInv, RtosTypeOK
<1>2. /\ context' = Saved
      /\ current' = "monitor" \/ current' \in Workers
  BY <1>1, DispatchOK
<1>3. pc' = Saved[current'].pc
  BY <1>1 DEF Dispatch
<1>4. Saved[w].pc = Place(w)
  BY <1>1, SavedContexts DEF Tasks, Place
<1>5. Place(w)' = Place(w)
  BY <1>2, <1>3, <1>4 DEF Place
<1>6. Work(w, C)' = Work(w, C)
  BY <1>5 DEF Work, Steps, One
<1>7. Work(w, C) \in Nat /\ Quantum(C) \in Nat
  BY EarnedTypes
<1>8. Ended(w)' * Quantum(C) \in Nat /\ (Ended(w) * Quantum(C))' = Ended(w)' * Quantum(C)
  <2>1. Ended(w)' \in Nat
    BY Halves DEF Ended
  <2> QED
    BY <1>7, <2>1 DEF Quantum, TickCycles
<1> DEFINE e == Ended(w)' * Quantum(C)
<1>9. progress[w] >= Enough
      \/ ( /\ Place(w) \in {"guard", "yield", "check", "count"} /\ Work(w, C) >= e )
  OBVIOUS
<1>10. e \in Nat /\ (Ended(w) * Quantum(C))' = e
  BY <1>8
<1> HIDE DEF e
<1> DEFINE r == IF current' = w THEN clock' - 8 * C ELSE 0
<1>11. r \in Int /\ r <= 0
  <2>1. 8 * C \in Nat
    OBVIOUS
  <2>2. clock' - 8 * C \in Int /\ clock' - 8 * C <= 0
    BY <2>1, NotAhead
  <2>3. CASE current' = w
    BY <2>2, <2>3
  <2>4. CASE current' # w
    BY <2>4
  <2> QED
    BY <2>3, <2>4
<1> HIDE DEF r
<1>13. Work(w, C) >= e => Work(w, C) >= e + r
  BY <1>7, <1>10, <1>11
<1> QED
  BY <1>5, <1>6, <1>9, <1>10, <1>13 DEF Earned, r

LEMMA TickEarns ==
  ASSUME RtosInv, NEW C \in Nat \ {0}, LongTicks(C), ScheduleInv(C),
         ProgressInv(C), NEW c \in Costs, TickHandler(c)
  PROVE  ProgressInv(C)'
<1>1. /\ trap = "timer" /\ started /\ trap' = "none" /\ started' = started
      /\ UNCHANGED << i, traps, code, progress >>
      /\ clock' = clock - TickCycles + c /\ clock >= TickCycles
      /\ xTickCount' = xTickCount + 1
  BY DEF TickHandler, RtosInv, BootInv, RunInv, InterruptsOK
<1>2. /\ MonitorOnTime /\ ClockBounded(C) /\ OpeningInTime(C)
      /\ code["monitor"] = "0" /\ NotTooMuch /\ TurnsKept
      /\ \A w \in Workers : Earned(w, C)
      /\ c <= C /\ 8 * C < TickCycles /\ C \in Nat
  BY <1>1 DEF ScheduleInv, ProgressInv, LongTicks
<1>3. /\ current \in Workers /\ current # "monitor" /\ last = current
      /\ RtosTypeOK
  BY <1>1, <1>2 DEF MonitorOnTime, RtosInv, RunInv, RunningOK, Workers
<1>4. /\ clock \in Nat /\ TickCycles \in Nat /\ xTickCount \in Nat /\ c \in Nat
      /\ progress["workerA"] \in Nat /\ progress["workerB"] \in Nat
      /\ Late(C) <= 5 * C /\ Late(C) \in Nat
  <2>1. Late(C) \in Nat
    BY <1>2 DEF Late
  <2> QED
    BY <1>1, <1>2, <1>3, <2>1, StepFits, RtosAssumption DEF RtosTypeOK, Workers
<1>5. clock' \in Nat /\ clock' <= 6 * C
  BY <1>1, <1>2, <1>3, <1>4 DEF ClockBounded
<1>6. Opened /\ current = Turn(xTickCount)
  BY <1>1, <1>2, <1>3 DEF OpeningInTime, TurnsKept
<1> DEFINE q == Woken(xTickCount + 1)
<1>7. Lists(q, last) /\ Dispatch(Saved, q)
  BY <1>1, <1>3, TickLists, WorkerIsPreempted
<1> HIDE DEF q
<1>8. NotTooMuch'
  <2> DEFINE x == xTickCount * TickCycles
  <2>1. x \in Nat /\ x' = x + TickCycles
    BY <1>1, <1>4, NextMultiple DEF TickCycles
  <2>2. progress["workerA"] + progress["workerB"] <= x + clock
    BY <1>2 DEF NotTooMuch
  <2> HIDE DEF x
  <2>3. progress'["workerA"] + progress'["workerB"] <= x' + clock'
    BY <1>1, <1>4, <1>5, <2>1, <2>2
  <2> QED
    BY <2>3 DEF NotTooMuch, x
<1>9. TurnsKept'
  <2>1. Saved \in [Tasks -> Context] /\ Contexts(Saved)
    BY <1>1, <1>3, SavedOK
  <2>2. \/ current' = "monitor" /\ last' = last
        \/ current' \in Workers /\ current' # last
    BY <1>3, <1>7, <2>1, DispatchOK DEF RtosTypeOK
  <2>3. Turn(xTickCount)' # Turn(xTickCount) /\ Turn(xTickCount)' \in Workers
    BY <1>1, <1>4, NextTurn DEF Turn, Workers
  <2>4. "monitor" \notin Workers
    BY DEF Workers
  <2> QED
    BY <1>3, <1>6, <2>2, <2>3, <2>4 DEF TurnsKept, Workers
<1>10. ASSUME NEW w \in Workers PROVE Earned(w, C)'
  <2>1. /\ Work(w, C) \in Nat /\ Ended(w) \in Nat /\ Quantum(C) \in Nat
        /\ Ended(w) * Quantum(C) \in Nat
    BY <1>2, EarnedTypes
  <2>2. CASE w = current
    <3>1. Ended(w)' = Ended(w) + 1
      BY <1>1, <1>4, <1>6, <1>10, <2>2, NextTurn DEF Ended, Workers
    <3>2. (Ended(w) + 1) * Quantum(C) = Ended(w) * Quantum(C) + Quantum(C)
      BY <2>1, NextMultiple
    <3>3. clock - 8 * C >= Quantum(C) /\ clock - 8 * C \in Int
      BY <1>1, <1>2, <1>4 DEF Quantum
    <3> DEFINE e == Ended(w) * Quantum(C)
    <3>4. \/ progress[w] >= Enough
          \/ /\ Place(w) \in {"guard", "yield", "check", "count"}
             /\ Work(w, C) >= e + (clock - 8 * C)
      BY <1>2, <2>2 DEF Earned
    <3>5. e \in Nat /\ Ended(w)' * Quantum(C) = e + Quantum(C)
      BY <2>1, <3>1, <3>2
    <3> HIDE DEF e
    <3>6. \/ progress[w] >= Enough
          \/ /\ Place(w) \in {"guard", "yield", "check", "count"}
             /\ Work(w, C) >= Ended(w)' * Quantum(C)
      BY <2>1, <3>3, <3>4, <3>5
    <3> QED
      BY <1>1, <1>2, <1>3, <1>4, <1>5, <1>7, <1>10, <3>6, SwitchEarns
  <2>3. CASE w # current
    <3>1. Ended(w)' = Ended(w)
      BY <1>1, <1>3, <1>4, <1>6, <1>10, <2>3, NextTurn DEF Ended, Workers
    <3>2. \/ progress[w] >= Enough
          \/ /\ Place(w) \in {"guard", "yield", "check", "count"}
             /\ Work(w, C) >= Ended(w) * Quantum(C)
      BY <1>2, <2>1, <2>3 DEF Earned
    <3> QED
      BY <1>1, <1>2, <1>3, <1>4, <1>5, <1>7, <1>10, <3>1, <3>2, SwitchEarns
  <2> QED
    BY <2>2, <2>3
<1> QED
  BY <1>1, <1>2, <1>8, <1>9, <1>10 DEF ProgressInv

LEMMA YieldEarns ==
  ASSUME RtosInv, NEW C \in Nat \ {0}, LongTicks(C), ScheduleInv(C), ScheduleInv(C)',
         ProgressInv(C), NEW c \in Costs, YieldHandler(c)
  PROVE  ProgressInv(C)'
<1>1. /\ trap = "ecall" /\ started /\ trap' = "none" /\ started' = started
      /\ UNCHANGED << i, traps, code, progress, xTickCount, wake >>
      /\ clock' = clock + c /\ Dispatch(Saved, ready)
  BY DEF YieldHandler, Elapse, RtosInv, BootInv
<1>2. /\ MonitorOnTime /\ ClockBounded(C) /\ OpeningInTime(C)
      /\ code["monitor"] = "0" /\ NotTooMuch /\ TurnsKept
      /\ \A w \in Workers : Earned(w, C)
      /\ c <= C /\ 8 * C < TickCycles /\ C \in Nat
  BY <1>1 DEF ScheduleInv, ProgressInv, LongTicks
<1>3. /\ RunInv /\ RtosTypeOK /\ last \in Workers \cup {"none"} /\ Lists(ready, last)
      /\ wake # 0 <=> ready[2] = << >>
      /\ current \in Workers => last = current
      /\ current = "monitor" => pc = "delay"
      /\ current \in Workers => pc = "check"
      /\ current \in Workers \cup {"monitor"}
  BY <1>1 DEF RtosInv, RunInv, RunningOK, InterruptsOK, RtosTypeOK, InMonitor,
     Final, InWorker, Switchable, Critical
<1>4. /\ clock \in Nat /\ TickCycles \in Nat /\ xTickCount \in Nat /\ c \in Nat \ {0}
      /\ Due \in Nat /\ DelayTicks \in Nat \ {0}
      /\ progress["workerA"] \in Nat /\ progress["workerB"] \in Nat
  BY <1>1, <1>2, <1>3, StepFits, RtosAssumption DEF RtosTypeOK, Workers
<1>5. Saved \in [Tasks -> Context] /\ Contexts(Saved)
  BY <1>1, <1>3, SavedOK
<1>6. clock <= 7 * C
  <2>1. CASE current = "monitor"
    BY <1>1, <1>2, <2>1 DEF ClockBounded, Dormant
  <2>2. CASE current \in Workers
    <3>1. clock <= 5 * C
      BY <1>1, <1>2, <1>3, <1>4, <2>2 DEF OpeningInTime, Opened, Workers
    <3> QED
      BY <1>2, <1>4, <3>1
  <2> QED
    BY <1>3, <2>1, <2>2
<1>7. clock' \in Nat /\ clock' <= 8 * C /\ clock' >= clock
  BY <1>1, <1>2, <1>4, <1>6
<1>8. NotTooMuch'
  <2> DEFINE x == xTickCount * TickCycles
  <2>1. x \in Nat /\ x' = x
    BY <1>1, <1>4 DEF TickCycles
  <2>2. progress["workerA"] + progress["workerB"] <= x + clock
    BY <1>2 DEF NotTooMuch
  <2> HIDE DEF x
  <2>3. progress'["workerA"] + progress'["workerB"] <= x' + clock'
    BY <1>1, <1>4, <1>7, <2>1, <2>2
  <2> QED
    BY <2>3 DEF NotTooMuch, x
<1>9. wake = Due /\ xTickCount < Due
  <2>1. CASE current = "monitor"
    BY <1>1, <1>2, <1>4, <2>1 DEF MonitorOnTime, Dormant
  <2>2. CASE current \in Workers
    BY <1>2, <2>2 DEF MonitorOnTime
  <2> QED
    BY <1>3, <2>1, <2>2
<1>10. ready[2] = << >>
  BY <1>3, <1>4, <1>9
<1>11. current' = (IF last = "workerA" THEN "workerB" ELSE "workerA")
  BY <1>1, <1>3, <1>5, <1>10, DispatchWorker
<1>12. TurnsKept'
  <2>1. Turn(xTickCount)' = Turn(xTickCount) /\ Turn(xTickCount) \in {"workerA", "workerB"}
    BY <1>1 DEF Turn
  <2>2. current' \in Workers /\ current' # "monitor"
    BY <1>11 DEF Workers
  <2>3. CASE Opened
    <3>1. current = "monitor"
      BY <1>1, <2>3 DEF Opened
    <3>2. last \in Workers /\ last # Turn(xTickCount)
      BY <1>2, <2>3, <3>1 DEF TurnsKept
    <3> QED
      BY <1>11, <2>1, <2>2, <3>2 DEF TurnsKept, Workers
  <2>4. CASE Opening /\ xTickCount = 0 /\ ~Opened
    <3>1. Turn(xTickCount) = "workerA"
      BY <2>4 DEF Turn
    <3>2. CASE current = "workerA"
      <4>1. context["workerB"].pc = "guard" /\ current' = "workerB"
        BY <1>3, <1>11, <2>4, <3>2 DEF Opening, Starting, Fresh, Workers
      <4>2. Saved["workerB"].pc = "guard"
        BY <1>3, <3>2, <4>1, SavedContexts DEF Tasks, Workers
      <4>3. pc' = Saved[current'].pc
        BY <1>1, <1>3, <1>5, <1>10, DispatchWorker
      <4> QED
        BY <4>1, <4>2, <4>3 DEF TurnsKept, Opened, HasYielded, Past
    <3>3. CASE current = "workerB" \/ current = "monitor"
      <4>1. current' = "workerA"
        BY <1>3, <1>11, <2>4, <3>3 DEF Opening, Starting, Workers
      <4> QED
        BY <2>1, <2>2, <3>1, <4>1 DEF TurnsKept
    <3> QED
      BY <1>3, <3>2, <3>3 DEF Workers
  <2> QED
    BY <1>2, <2>3, <2>4 DEF OpeningInTime
<1>13. ASSUME NEW w \in Workers PROVE Earned(w, C)'
  <2>1. /\ Work(w, C) \in Nat /\ Ended(w) \in Nat /\ Quantum(C) \in Nat
        /\ Ended(w) * Quantum(C) \in Nat
    BY <1>2, EarnedTypes
  <2>2. Ended(w)' = Ended(w)
    BY <1>1 DEF Ended
  <2>3. CASE w # current
    <3>1. \/ progress[w] >= Enough
          \/ /\ Place(w) \in {"guard", "yield", "check", "count"}
             /\ Work(w, C) >= Ended(w) * Quantum(C)
      BY <1>2, <2>1, <2>3 DEF Earned
    <3> QED
      BY <1>1, <1>2, <1>3, <1>4, <1>7, <1>13, <2>2, <3>1, SwitchEarns
  <2>4. CASE w = current
    <3>1. xTickCount = 0
      BY <1>1, <1>2, <1>13, <2>4 DEF OpeningInTime, Opened, Workers
    <3>2. Ended(w) * Quantum(C) = 0
      BY <2>1, <3>1 DEF Ended
    <3>3. Place(w) = "check"
      BY <1>3, <1>13, <2>4 DEF Place
    <3>4. \/ progress[w] >= Enough
          \/ /\ Place(w) \in {"guard", "yield", "check", "count"}
             /\ Work(w, C) >= Ended(w) * Quantum(C)
      BY <2>1, <3>2, <3>3
    <3> QED
      BY <1>1, <1>2, <1>3, <1>4, <1>7, <1>13, <2>2, <3>4, SwitchEarns
  <2> QED
    BY <2>3, <2>4
<1> QED
  BY <1>1, <1>2, <1>8, <1>12, <1>13 DEF ProgressInv

LEMMA BootEarns ==
  ASSUME RtosInv, ~started, NEW C \in Nat \ {0}, LongTicks(C), ScheduleInv(C),
         ProgressInv(C), RtosNext
  PROVE  ProgressInv(C)'
<1>1. /\ progress["workerA"] = 0 /\ progress["workerB"] = 0
      /\ code["monitor"] = "0" /\ NotBegun /\ 8 * C < TickCycles /\ C \in Nat
  BY DEF ProgressInv, ScheduleInv, LongTicks
<1>2. progress' = progress /\ code'["monitor"] = code["monitor"]
  <2>1. pc \notin InWorker \cup InMonitor
    BY DEF RtosInv, BootInv, InWorker, Switchable, Critical, InMonitor, Final
  <2>2. ASSUME NEW c \in Costs PROVE ~Worker(c) /\ ~Verdict(c)
    BY <2>1 DEF Worker, LoadGuard, Yield, CheckGuard, Count, EnterCritical,
       ReadStatus, ExitCritical, Verdict, At, InWorker, Switchable, Critical,
       InMonitor, Final
  <2> QED
    BY <2>2, CountAlone
<1>3. CASE UNCHANGED << started, context, progress, traps, xTickCount, clock,
                        slices, last >>
  BY <1>1, <1>2, <1>3 DEF ProgressInv
<1>4. CASE /\ started' /\ current' = "monitor" /\ last' = "none"
           /\ pc' = "delay" /\ trap' = "none" /\ wake' = 0 /\ i' = 0
           /\ UNCHANGED << context, progress, traps, xTickCount, clock, slices >>
  <2>1. xTickCount' = 0 /\ clock' = 0 /\ TickCycles' \in Nat
    BY <1>1, <1>4, TickType DEF NotBegun, TickCycles
  <2>2. NotTooMuch'
    BY <1>1, <1>4, <2>1 DEF NotTooMuch
  <2>3. /\ context'["workerA"].pc = "guard" /\ context'["workerB"].pc = "guard"
        /\ current' # "workerA" /\ current' # "workerB"
    BY <1>1, <1>4 DEF NotBegun, Fresh
  <2>4. TurnsKept'
    BY <2>3 DEF TurnsKept, Opened, HasYielded, Past
  <2>5. ASSUME NEW w \in Workers PROVE Earned(w, C)'
    <3>1. Place(w)' = "guard" /\ current' # w /\ progress'[w] = 0
      BY <1>1, <1>2, <2>3, <2>5 DEF Place, Workers
    <3>2. Steps(w)' = 0
      BY <3>1 DEF Steps, One
    <3>3. Work(w, C)' = 0
      BY <3>2, <1>1 DEF Work
    <3>4. Ended(w)' = 0
      BY <2>1 DEF Ended
    <3>5. (Ended(w) * Quantum(C))' = 0
      BY <1>1, <2>1, <3>4 DEF Quantum
    <3> QED
      BY <3>1, <3>3, <3>5 DEF Earned
  <2> QED
    BY <1>1, <1>2, <1>4, <2>2, <2>4, <2>5 DEF ProgressInv
<1> QED
  BY <1>3, <1>4, BootEffect

(* When the monitor gives its verdict the workers have done enough and the *)
(* ticks have come.                                                        *)
LEMMA VerdictPasses ==
  ASSUME RtosInv, started, NEW C \in Nat \ {0}, LongTicks(C), ScheduleInv(C),
         ProgressInv(C), current = "monitor", pc = "delay", trap = "none", i = Delays
  PROVE  Passed
<1> DEFINE N == Delays * DelayTicks
<1>1. /\ MonitorOnTime /\ \A w \in Workers : Earned(w, C)
      /\ 8 * C < TickCycles /\ (N \div 2) * Quantum(C) >= 2 * Enough * C /\ C \in Nat
  BY DEF ScheduleInv, ProgressInv, LongTicks
<1>2. xTickCount = N
  BY <1>1 DEF MonitorOnTime, Dormant, Due
<1>3. N \in Nat /\ Enough \in Nat
  BY RtosAssumption
<1> HIDE DEF N
<1>4. ASSUME NEW w \in Workers PROVE progress[w] >= Enough
  <2>1. /\ Work(w, C) \in Nat /\ Ended(w) \in Nat /\ Quantum(C) \in Nat
        /\ Ended(w) * Quantum(C) \in Nat /\ progress[w] \in Nat /\ Steps(w) \in Nat
    BY <1>1, EarnedTypes
  <2> SUFFICES ASSUME progress[w] < Enough PROVE FALSE
    BY <1>3, <2>1
  <2>2. Work(w, C) >= Ended(w) * Quantum(C)
    <3>1. current # w
      BY <1>4 DEF Workers
    <3>2. Work(w, C) >= Ended(w) * Quantum(C) + 0
      BY <1>1, <1>3, <1>4, <2>1, <3>1 DEF Earned
    <3> QED
      BY <2>1, <3>2
  <2>3. N \div 2 <= Ended(w) /\ N \div 2 \in Nat
    BY <1>2, <1>3 DEF Ended
  <2>4. (N \div 2) * Quantum(C) <= Ended(w) * Quantum(C)
    BY <2>1, <2>3, MoreTimes
  <2>5. Steps(w) + 1 <= 2 * Enough
    BY <1>3, <2>1 DEF Steps, One
  <2>6. (Steps(w) + 1) * C <= 2 * Enough * C
    BY <1>3, <2>1, <2>5, MoreTimes
  <2>7. (Steps(w) + 1) * C = Steps(w) * C + C
    BY <2>1, NextMultiple
  <2>8. Work(w, C) = Steps(w) * C
    BY <2>1 DEF Work
  <2> DEFINE a == (N \div 2) * Quantum(C)
             b == 2 * Enough * C
             d == Ended(w) * Quantum(C)
             e == Work(w, C)
  <2>9. e + C <= b
    BY <2>6, <2>7, <2>8
  <2>10. a >= b /\ a <= d /\ d <= e
    BY <1>1, <2>1, <2>2, <2>4
  <2>11. a \in Nat /\ b \in Nat /\ d \in Nat /\ e \in Nat
    BY <1>3, <2>1, <2>3
  <2> HIDE DEF a, b, d, e
  <2> QED
    BY <2>9, <2>10, <2>11
<1> QED
  BY <1>2, <1>3, <1>4 DEF Passed, N

LEMMA MonitorEarns ==
  ASSUME RtosInv, NEW C \in Nat \ {0}, LongTicks(C), ScheduleInv(C),
         ProgressInv(C), NEW c \in Costs, Monitor(c)
  PROVE  ProgressInv(C)'
<1>1. /\ started /\ current = "monitor" /\ trap = "none" /\ clock' \in Nat
      /\ UNCHANGED << started, current, xTickCount, context, progress, last >>
      /\ clock' >= clock
  BY MonitorEffect, RtosAssumption DEF RtosInv, RtosTypeOK
<1>2. code["monitor"] = "0" /\ current \notin Workers
  BY <1>1 DEF ProgressInv, Workers
<1>3. code'["monitor"] = "0"
  <2>1. CASE Verdict(c)
    <3>1. Passed
      BY <1>1, <2>1, VerdictPasses DEF Verdict, At
    <3>2. code' = [code EXCEPT !["monitor"] = "0"]
      BY <1>1, <2>1, <3>1 DEF Verdict, GiveUp, self
    <3> QED
      BY <3>2 DEF RtosInv, RtosTypeOK, Tasks
  <2>2. CASE ~Verdict(c)
    BY <1>2, <2>2 DEF Monitor, Delay, Suspend, Ecall
  <2> QED
    BY <2>1, <2>2
<1> QED
  BY <1>1, <1>2, <1>3, QuietEarns

(* When ticks are long enough for the steps the demonstration never        *)
(* reports a failure: platform_fail is only ever called with the code of   *)
(* success, wherever the ticks come and however long each step takes.      *)
THEOREM RtosNoFailure ==
  ASSUME NEW C \in Nat \ {0}, LongTicks(C)
  PROVE  RtosSpec => []NoFailure
<1>0. 8 * C < TickCycles /\ Delays # 0 /\ C \in Nat /\ \A c \in Costs : c <= C
  BY DEF LongTicks
<1>1. RtosInit => ScheduleInv(C) /\ ProgressInv(C)
  BY DEF RtosInit, ScheduleInv, NotBegun, Fresh, Entry, Tasks, Workers, ProgressInv
<1>2. ASSUME RtosInv, ScheduleInv(C), [RtosNext]_rtosVars
      PROVE  ScheduleInv(C)'
  BY <1>0, <1>2, ScheduleStep
<1>3. ASSUME RtosInv, ScheduleInv(C), ScheduleInv(C)', ProgressInv(C),
             [RtosNext]_rtosVars
      PROVE  ProgressInv(C)'
  <2>1. CASE UNCHANGED rtosVars
    BY <1>3, <2>1 DEF rtosVars, hardware, kernel, program, report, history,
       ProgressInv, NotTooMuch, TurnsKept, Turn, Earned, Opened, HasYielded, Past,
       Ended, Quantum, Work, Steps, Place, One, TickCycles
  <2>2. CASE RtosNext /\ ~started
    BY <1>3, <2>2, BootEarns
  <2>3. CASE RtosNext /\ started
    <3>1. CASE TimerInterrupt
      <4>1. /\ trap = "none" /\ clock' = clock /\ pc' = pc /\ code' = code
            /\ UNCHANGED << started, current, context, xTickCount, last, progress >>
        BY <3>1 DEF TimerInterrupt, kernel, program
      <4>2. clock \in Nat /\ code["monitor"] = "0"
        BY <1>3 DEF RtosInv, RtosTypeOK, ProgressInv
      <4> QED
        BY <1>0, <1>3, <2>3, <4>1, <4>2, QuietEarns
    <3>2. ASSUME NEW c \in Costs, Worker(c) PROVE ProgressInv(C)'
      BY <1>3, <3>2, WorkerEarns
    <3>3. ASSUME NEW c \in Costs, Monitor(c) PROVE ProgressInv(C)'
      BY <1>3, <3>3, MonitorEarns
    <3>4. ASSUME NEW c \in Costs, PlatformFail(c) PROVE ProgressInv(C)'
      <4>1. /\ started /\ current = "monitor" /\ trap = "none"
            /\ UNCHANGED << started, current, xTickCount, context, progress, last >>
        BY <1>3, <3>4, FailEffect
      <4>2. clock' \in Nat /\ clock' >= clock
        BY <1>3, <3>4, FailClock
      <4>3. code' = code /\ code["monitor"] = "0" /\ "monitor" \notin Workers
        BY <1>3, <3>4 DEF PlatformFail, DisableInterrupts, WriteLed, WriteTohost,
           Sleep, rtosVars, program, ProgressInv, Workers
      <4> QED
        BY <1>0, <1>3, <4>1, <4>2, <4>3, QuietEarns
    <3>5. ASSUME NEW c \in Costs, TickHandler(c) PROVE ProgressInv(C)'
      BY <1>3, <3>5, TickEarns
    <3>6. ASSUME NEW c \in Costs, YieldHandler(c) PROVE ProgressInv(C)'
      BY <1>3, <3>6, YieldEarns
    <3> QED
      BY <1>3, <2>3, <3>1, <3>2, <3>3, <3>4, <3>5, <3>6, RunningSteps
  <2> QED
    BY <1>3, <2>1, <2>2, <2>3
<1>4. RtosInv /\ ProgressInv(C) => NoFailure
  BY DEF RtosInv, CodesOK, ProgressInv, NoFailure, Tasks
<1> QED
  BY <1>1, <1>2, <1>3, <1>4, RtosInvAlways, PTL DEF RtosSpec
=============================================================================
