-------------------------------- MODULE Rtos --------------------------------
(***************************************************************************)
(* The FreeRTOS demonstration of sim_1/new/freertos: two workers that      *)
(* never block, a monitor of higher priority that sleeps four times and    *)
(* then gives the verdict, and the timer interrupt that must share the     *)
(* processor among them.                                                   *)
(*                                                                         *)
(* The program is main.c, the configuration FreeRTOSConfig.h, trap entry   *)
(* and mret those of privileged.v.  The kernel (FreeRTOS V11.2.0 with its  *)
(* RISC-V port, not part of the repository) is modelled from how main.c    *)
(* uses it.  A step is a statement of main.c or one system operation; it   *)
(* takes some number of cycles, chosen anew each time, so that the timer   *)
(* can come between any two of them.                                       *)
(***************************************************************************)
EXTENDS Integers, Sequences

CONSTANTS
  configCPU_CLOCK_HZ,  (* 90 000 000 in the code                            *)
  configTICK_RATE_HZ,  (* 10 000 in the code                                *)
  Costs,               (* cycles that a step may take                       *)
  CounterSize,         (* 2^32: progress wraps there                        *)
  CheckEvery,          (* 256: iterations between critical sections      *)
  Enough,              (* 100: iterations the monitor asks for              *)
  Delays,              (* 4: times the monitor sleeps                       *)
  DelayTicks           (* 5: ticks it sleeps                                *)

ASSUME RtosAssumption ==
  /\ configCPU_CLOCK_HZ \in Nat /\ configTICK_RATE_HZ \in Nat \ {0}
  /\ configCPU_CLOCK_HZ \div configTICK_RATE_HZ > 0
  /\ Costs \subseteq Nat \ {0}
  /\ CounterSize \in Nat \ {0} /\ CheckEvery \in Nat \ {0} /\ Enough \in Nat
  /\ Delays \in Nat /\ DelayTicks \in Nat \ {0}

configUSE_PREEMPTION == TRUE
configUSE_TIME_SLICING == TRUE
configMAX_PRIORITIES == 4
configKERNEL_PROVIDED_STATIC_MEMORY == TRUE
TickCycles == configCPU_CLOCK_HZ \div configTICK_RATE_HZ

Workers == {"workerA", "workerB"}
Tasks == Workers \cup {"monitor", "idle"}
Priorities == 0 .. configMAX_PRIORITIES - 1
Priority == [t \in Tasks |-> IF t = "monitor" THEN 2
                             ELSE IF t = "idle" THEN 0 ELSE 1]

(* The tasks for which main.c has a static control block and a stack.      *)
Buffered == Workers \cup {"monitor"}

(* What a worker keeps in s2, 0x13579bdf + index; s2 starts as 0.          *)
Guards == 0 .. 2
Guard == [w \in Workers |-> IF w = "workerA" THEN 1 ELSE 2]

Codes == {"0", "f001", "f002", "f003", "f004", "f005", "f006", "f007", "f008"}

VARIABLES
  pc,        (* the next statement                                          *)
  s2,        (* register s2                                                 *)
  mstatus,   (* mstatus.MIE and mstatus.MPIE                                *)
  nesting,   (* xCriticalNesting of the port                                *)
  trap,      (* the trap being handled, or "none"                           *)
  clock,     (* cycles since the last value of mtimecmp was reached or set  *)
  started,   (* the scheduler runs                                          *)
  current,   (* pxCurrentTCB                                                *)
  ready,     (* ready lists by priority, the next task first                *)
  wake,      (* tick at which the monitor is due, 0 if it does not sleep    *)
  xTickCount,
  context,   (* what the port saves of a task that does not run             *)
  code,      (* argument of platform_fail                                   *)
  i,         (* loop counter of the monitor                                 *)
  progress,
  led, tohost,
  traps,     (* history: traps taken                                        *)
  slices,    (* history: time slices of workers ended by the timer          *)
  last       (* history: the worker that ran most recently                  *)

hardware == << mstatus, trap, clock >>
kernel   == << nesting, started, current, ready, wake, xTickCount, context >>
report   == << led, tohost >>
program  == << pc, s2, code, i, progress, report >>
history  == << traps, slices, last >>
rtosVars == << hardware, kernel, program, history >>

self == IF started THEN current ELSE "main"

(* Mutant: the port counts from 0 before the scheduler runs. *)
BootNestingZero == 0

(* 0xaaaaaaaa in the port, so that no critical section enables interrupts  *)
(* before the scheduler runs.                                              *)
BootNesting == 1

(***************************************************************************)
(* Hardware: the timer, trap entry and the instructions main.c uses.       *)
(***************************************************************************)
InterruptPending == started /\ mstatus.mie /\ clock >= TickCycles
Elapse(c) == clock' = IF started THEN clock + c ELSE clock

TrapEntry(why) ==
  /\ trap' = why
  /\ mstatus' = [mie |-> FALSE, mpie |-> mstatus.mie]
  /\ traps' = traps + 1

(* The timer interrupt is taken between two instructions.                  *)
TimerInterrupt ==
  /\ trap = "none" /\ InterruptPending
  /\ TrapEntry("timer")
  /\ UNCHANGED << clock, kernel, program, slices, last >>

At(label) == trap = "none" /\ ~InterruptPending /\ pc = label
Goto(label) == pc' = label
GiveUp(why) == pc' = "fail" /\ code' = [code EXCEPT ![self] = why]

(* taskYIELD: an ecall; the port resumes the task behind it.               *)
Ecall(next) ==
  /\ TrapEntry("ecall")
  /\ Goto(next)
  /\ UNCHANGED << clock, kernel, s2, code, i, progress, report, slices, last >>

(***************************************************************************)
(* The kernel (external).                                                  *)
(***************************************************************************)
Highest(q) == CHOOSE p \in Priorities :
                /\ q[p] # << >>
                /\ \A r \in Priorities : r > p => q[r] = << >>

(* Mutant: the list index does not move on. *)
RotateNot(q, p) == q

Rotate(q, p) == [q EXCEPT ![p] = Append(Tail(q[p]), Head(q[p]))]

(* vTaskSwitchContext and restoring what it selects: the head of the       *)
(* highest list runs and goes to its end.                                  *)
Dispatch(saved, q) ==
  LET p == Highest(q)
      t == Head(q[p])
  IN /\ current' = t
     /\ ready' = Rotate(q, p)
     /\ context' = saved
     /\ pc' = saved[t].pc /\ s2' = saved[t].s2 /\ nesting' = saved[t].nesting
     /\ mstatus' = [mie |-> saved[t].mpie, mpie |-> TRUE]
     /\ last' = IF t \in Workers THEN t ELSE last

(* Mutant: the port forgets a register. *)
SavedGuardLost ==
  [context EXCEPT ![current] =
     [pc |-> pc, s2 |-> @.s2, mpie |-> mstatus.mpie, nesting |-> nesting]]

Saved == [context EXCEPT ![current] =
            [pc |-> pc, s2 |-> s2, mpie |-> mstatus.mpie, nesting |-> nesting]]

(* The monitor, the only task that sleeps, joins its list when it is due.  *)
Woken(n) ==
  IF wake = n THEN [ready EXCEPT ![Priority["monitor"]] = Append(@, "monitor")]
  ELSE ready

(* xTaskIncrementTick asks for a switch.                                   *)
SwitchRequired(n, q) ==
  /\ configUSE_PREEMPTION
  /\ \/ wake = n /\ Priority["monitor"] > Priority[current]
     \/ configUSE_TIME_SLICING /\ Len(q[Priority[current]]) > 1

TickHandler(c) ==
  /\ trap = "timer"
  /\ LET n == xTickCount + 1
         q == Woken(n)
     IN /\ xTickCount' = n
        /\ wake' = IF wake = n THEN 0 ELSE wake
        /\ IF SwitchRequired(n, q)
           THEN /\ Dispatch(Saved, q)
                /\ slices' = IF current \in Workers THEN slices + 1 ELSE slices
           ELSE /\ ready' = q
                /\ mstatus' = [mie |-> mstatus.mpie, mpie |-> TRUE]
                /\ UNCHANGED << nesting, current, context, pc, s2, slices,
                                last >>
  /\ trap' = "none"
  /\ clock' = clock - TickCycles + c
  /\ UNCHANGED << started, code, i, progress, report, traps >>

YieldHandler(c) ==
  /\ trap = "ecall"
  /\ Dispatch(Saved, ready)
  /\ trap' = "none"
  /\ Elapse(c)
  /\ UNCHANGED << started, wake, xTickCount, code, i, progress, report,
                  traps, slices >>

(* Mutant: leaving an inner critical section enables interrupts. *)
ExitsCriticalAlways(n) == TRUE

(* portEXIT_CRITICAL enables interrupts when the outermost section ends.   *)
ExitsCritical(n) == n = 1

EnterCritical(here, next, c) ==
  /\ At(here) /\ Goto(next) /\ Elapse(c)
  /\ mstatus' = [mstatus EXCEPT !.mie = FALSE]
  /\ nesting' = nesting + 1
  /\ UNCHANGED << trap, started, current, ready, wake, xTickCount, context, s2,
                  code, i, progress, report, history >>

ExitCritical(here, next, c) ==
  /\ At(here) /\ Goto(next) /\ Elapse(c)
  /\ mstatus' = [mstatus EXCEPT !.mie = ExitsCritical(nesting)]
  /\ nesting' = nesting - 1
  /\ UNCHANGED << trap, started, current, ready, wake, xTickCount, context, s2,
                  code, i, progress, report, history >>

(***************************************************************************)
(* main: three tasks, then the scheduler.                                  *)
(***************************************************************************)
CreateFails == [workerA |-> "f005", workerB |-> "f006", monitor |-> "f007"]

(* xTaskCreateStatic: in a critical section of the kernel the new task     *)
(* becomes ready, and current if no created task has a higher priority.    *)
Create(here, t, next) ==
  /\ At(here)
  /\ IF Priority[t] < configMAX_PRIORITIES /\ t \in Buffered
     THEN /\ Goto(next)
          /\ ready' = [ready EXCEPT ![Priority[t]] = Append(@, t)]
          /\ current' = IF current = "none" THEN t
                        ELSE IF Priority[current] <= Priority[t] THEN t
                        ELSE current
          /\ UNCHANGED code
     ELSE /\ GiveUp(IF t \in Buffered THEN "f001" ELSE CreateFails[t])
          /\ UNCHANGED << current, ready >>
  /\ mstatus' = [mstatus EXCEPT !.mie = ExitsCritical(nesting + 1)]
  /\ UNCHANGED << trap, clock, nesting, started, wake, xTickCount, context, s2,
                  i, progress, report, history >>

(* vTaskStartScheduler adds the idle task, sets mtimecmp one tick ahead    *)
(* and enters the current task with interrupts enabled; it would return if *)
(* there were no memory for the idle task.                                 *)
StartScheduler ==
  /\ At("start")
  /\ IF ~configKERNEL_PROVIDED_STATIC_MEMORY
     THEN /\ GiveUp("f008")
          /\ UNCHANGED << hardware, kernel, s2, last >>
     ELSE /\ started' = TRUE
          /\ ready' = [ready EXCEPT ![0] = Append(@, "idle")]
          /\ pc' = context[current].pc
          /\ s2' = context[current].s2
          /\ nesting' = context[current].nesting
          /\ mstatus' = [mie |-> TRUE, mpie |-> TRUE]
          /\ UNCHANGED << trap, clock, current, wake, xTickCount, context, code,
                          last >>
  /\ UNCHANGED << i, progress, report, traps, slices >>

(***************************************************************************)
(* worker.                                                                 *)
(***************************************************************************)
LoadGuard(c) ==
  /\ At("guard") /\ Goto("yield") /\ Elapse(c)
  /\ s2' = Guard[current]
  /\ UNCHANGED << mstatus, trap, kernel, code, i, progress, report, history >>

Yield == At("yield") /\ Ecall("check")

CheckGuard(c) ==
  /\ At("check") /\ Elapse(c)
  /\ IF s2 # Guard[current] THEN GiveUp("f002")
     ELSE Goto("count") /\ UNCHANGED code
  /\ UNCHANGED << mstatus, trap, kernel, s2, i, progress, report, history >>

(* Mutant: the worker gives up the processor in its loop. *)
AfterCountYields(n) == "yield"

(* Mutant: one taskENTER_CRITICAL is missing. *)
AfterCountOnce(n) == IF n % CheckEvery = 0 THEN "enter2" ELSE "check"

AfterCount(n) == IF n % CheckEvery = 0 THEN "enter1" ELSE "check"

Count(c) ==
  /\ At("count") /\ Elapse(c)
  /\ LET n == (progress[current] + 1) % CounterSize
     IN progress' = [progress EXCEPT ![current] = n] /\ Goto(AfterCount(n))
  /\ UNCHANGED << mstatus, trap, kernel, s2, code, i, report, history >>

ReadStatus(c) ==
  /\ At("status") /\ Elapse(c)
  /\ IF mstatus.mie THEN GiveUp("f003")
     ELSE Goto("exit2") /\ UNCHANGED code
  /\ UNCHANGED << mstatus, trap, kernel, s2, i, progress, report, history >>

Worker(c) ==
  \/ LoadGuard(c) \/ Yield \/ CheckGuard(c) \/ Count(c)
  \/ EnterCritical("enter1", "enter2", c)
  \/ EnterCritical("enter2", "status", c) \/ ReadStatus(c)
  \/ ExitCritical("exit2", "exit1", c) \/ ExitCritical("exit1", "check", c)

(***************************************************************************)
(* monitor.                                                                *)
(***************************************************************************)
(* vTaskDelay moves the task to the delayed list with the scheduler        *)
(* suspended, so in one step for the others, and then yields.  The running *)
(* task is the last of its list.                                           *)
Delay(c) ==
  /\ At("delay") /\ i < Delays /\ Goto("suspend") /\ Elapse(c)
  /\ wake' = xTickCount + DelayTicks
  /\ ready' = [ready EXCEPT ![Priority[current]] = SubSeq(@, 1, Len(@) - 1)]
  /\ i' = i + 1
  /\ UNCHANGED << mstatus, trap, nesting, started, current, xTickCount,
                  context, s2, code, progress, report, history >>

Suspend == At("suspend") /\ Ecall("delay")

Passed == /\ \A w \in Workers : progress[w] >= Enough
          /\ xTickCount >= Delays * DelayTicks

Verdict(c) ==
  /\ At("delay") /\ i = Delays /\ Elapse(c)
  /\ GiveUp(IF Passed THEN "0" ELSE "f004")
  /\ UNCHANGED << mstatus, trap, kernel, s2, i, progress, report, history >>

Monitor(c) == Delay(c) \/ Suspend \/ Verdict(c)

(***************************************************************************)
(* platform_fail.                                                          *)
(***************************************************************************)
(* Mutant: interrupts stay on. *)
DisableInterruptsNot(c) ==
  /\ At("fail") /\ Goto("led") /\ Elapse(c)
  /\ UNCHANGED << mstatus, trap, kernel, s2, code, i, progress, report,
                  history >>

DisableInterrupts(c) ==
  /\ At("fail") /\ Goto("led") /\ Elapse(c)
  /\ mstatus' = [mstatus EXCEPT !.mie = FALSE]
  /\ UNCHANGED << trap, kernel, s2, code, i, progress, report, history >>

(* Mutant: the simulation is never told. *)
WriteLedOnly(c) ==
  /\ At("led") /\ Goto("wfi") /\ Elapse(c)
  /\ led' = code[self]
  /\ UNCHANGED << mstatus, trap, kernel, s2, code, i, progress, tohost,
                  history >>

WriteLed(c) ==
  /\ At("led") /\ Goto("tohost") /\ Elapse(c)
  /\ led' = code[self]
  /\ UNCHANGED << mstatus, trap, kernel, s2, code, i, progress, tohost,
                  history >>

WriteTohost(c) ==
  /\ At("tohost") /\ Goto("wfi") /\ Elapse(c)
  /\ tohost' = 1
  /\ UNCHANGED << mstatus, trap, kernel, s2, code, i, progress, led, history >>

(* for(;;) wfi: a pending timer wakes it, and it sleeps again.             *)
Sleep == At("wfi") /\ UNCHANGED rtosVars

PlatformFail(c) ==
  DisableInterrupts(c) \/ WriteLed(c) \/ WriteTohost(c) \/ Sleep

(***************************************************************************)
(* The program from main on; start.S has set mtvec and cleared the data.   *)
(***************************************************************************)
Entry == [t \in Tasks |-> IF t \in Workers THEN "guard"
                          ELSE IF t = "monitor" THEN "delay" ELSE "idle"]

RtosInit ==
  /\ pc = "create1" /\ s2 = 0
  /\ mstatus = [mie |-> FALSE, mpie |-> FALSE]
  /\ nesting = BootNesting /\ trap = "none" /\ clock = 0
  /\ started = FALSE /\ current = "none"
  /\ ready = [p \in Priorities |-> << >>]
  /\ wake = 0 /\ xTickCount = 0
  /\ context = [t \in Tasks |-> [pc |-> Entry[t], s2 |-> 0, mpie |-> TRUE,
                                 nesting |-> 0]]
  /\ code = [t \in Tasks \cup {"main"} |-> "0"]
  /\ i = 0 /\ progress = [w \in Workers |-> 0]
  /\ led = "0" /\ tohost = 0
  /\ traps = 0 /\ slices = 0 /\ last = "none"

Main ==
  \/ Create("create1", "workerA", "create2")
  \/ Create("create2", "workerB", "create3")
  \/ Create("create3", "monitor", "start")
  \/ StartScheduler

RtosNext ==
  \/ Main \/ TimerInterrupt
  \/ \E c \in Costs : \/ Worker(c) \/ Monitor(c) \/ PlatformFail(c)
                     \/ TickHandler(c) \/ YieldHandler(c)

RtosSpec == RtosInit /\ [][RtosNext]_rtosVars

(* The clock runs: the processor executes the next step or takes the trap. *)
FairRtosSpec == RtosSpec /\ WF_rtosVars(RtosNext)

(***************************************************************************)
(* Properties.                                                             *)
(***************************************************************************)
Depth(l) == IF l \in {"status", "exit2"} THEN 2
            ELSE IF l \in {"enter2", "exit1"} THEN 1 ELSE 0
Labels == { "create1", "create2", "create3", "start", "guard", "yield", "check",
            "count", "enter1", "enter2", "status", "exit2", "exit1", "delay",
            "suspend", "fail", "led", "tohost", "wfi", "idle" }

Context == [pc : Labels, s2 : Guards, mpie : BOOLEAN, nesting : Nat]

(* Types; the ready lists hold tasks of their priority only.               *)
RtosTypeOK ==
  /\ pc \in Labels /\ s2 \in Guards
  /\ mstatus \in [mie : BOOLEAN, mpie : BOOLEAN]
  /\ nesting \in Nat /\ trap \in {"none", "timer", "ecall"} /\ clock \in Nat
  /\ started \in BOOLEAN /\ current \in Tasks \cup {"none"}
  /\ ready \in [Priorities -> Seq(Tasks)]
  /\ wake \in Nat /\ xTickCount \in Nat
  /\ context \in [Tasks -> Context]
  /\ code \in [Tasks \cup {"main"} -> Codes]
  /\ i \in 0 .. Delays /\ progress \in [Workers -> 0 .. CounterSize - 1]
  /\ led \in Codes /\ tohost \in 0 .. 1
  /\ traps \in Nat /\ slices \in Nat /\ last \in Workers \cup {"none"}

(* A critical section of a worker is never interrupted: from the first     *)
(* taskENTER_CRITICAL to the last taskEXIT_CRITICAL interrupts are off and *)
(* the nesting count is that of the program; no task is ever switched out  *)
(* inside one, and no interrupt comes before the scheduler runs.           *)
CriticalSections ==
  /\ started => nesting = Depth(pc)
  /\ started /\ Depth(pc) > 0 => ~mstatus.mie /\ trap = "none"
  /\ started => \A t \in Tasks \ {current} :
                  context[t].nesting = 0 /\ context[t].mpie
  /\ ~started => ~mstatus.mie /\ trap = "none"

(* The checks of the worker never fail: its register survives every switch *)
(* (f002) and interrupts are off in its critical section (f003), however   *)
(* long each step takes.                                                   *)
ContextsIntact == \A t \in Tasks \cup {"main"} : code[t] \notin {"f002", "f003"}

(* No failure is ever reported: with ticks as long as these the workers    *)
(* also get enough done by the time of the verdict (f004).                 *)
NoFailure == \A t \in Tasks \cup {"main"} : code[t] = "0"

(* main.c: "both workers can progress only if actual timer interrupts      *)
(* preempt and restore their contexts".                                    *)
PreemptionNeeded == (\A w \in Workers : progress[w] > 0) => slices > 0

(* PRIVILEGED_RTOS.md counts 26 traps in each run: 20 ticks, 4 delays of   *)
(* the monitor and 2 yields of the workers.                                *)
TrapCount == tohost = 1 => traps = Delays * DelayTicks + Delays + 2

(* Neither worker ever gets two time slices in a row, the monitor's turns  *)
(* included.                                                               *)
RoundRobin ==
  [][trap # "none" /\ trap' = "none" /\ current' \in Workers
       => current' # last]_rtosVars

(* The verdict is given by whoever decided it: from the moment             *)
(* platform_fail has turned interrupts off, before, between and behind its *)
(* two stores, no trap is taken, no other task runs and the progress it    *)
(* was based on stays, whatever the timer does; behind the second store    *)
(* the report stays as well.                                               *)
VerdictStands ==
  [][ /\ pc \in {"led", "tohost", "wfi"} \/ tohost = 1
           => UNCHANGED << progress, current, traps >>
      /\ tohost = 1 => UNCHANGED report ]_rtosVars

(* The demonstration ends.                                                 *)
Terminates == <>(tohost = 1)
=============================================================================
