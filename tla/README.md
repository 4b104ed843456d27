# A TLA+ model of the SXQ-RV32IM core

This directory holds a verification development for the RV32IM processor in
`src/sources_1/new`: an in-order pipeline with dual-port instruction fetch,
branch prediction, a one-request data bus, a machine-mode privileged unit, a
timer and a UART, and for the FreeRTOS demonstration in
`src/sim_1/new/freertos` that runs on it. Each module is translated from the
Verilog or C, TLC checks it on small instances, and TLAPS proves the central
facts for every value of the constants.

- [1. The system](#1-the-system)
- [2. The modules](#2-the-modules)
- [3. What is abstracted, and why](#3-what-is-abstracted-and-why)
- [4. The runs](#4-the-runs)
- [5. The proofs](#5-the-proofs)
- [6. What the checks found](#6-what-the-checks-found)
- [7. What is only model-checked, what is not modelled](#7-what-is-only-model-checked-what-is-not-modelled)
- [8. Plan](#8-plan)

To check a run: `tlc -workers 2 -config MCCore.cfg MCCore`. To check the
proofs: `tlapm CoreProofs.tla`.

## 1. The system

All state is in registers that change on the rising edge of one clock. What
runs concurrently are the pipeline stages, the units with a latency of their
own (multiplier, divider, bus slaves, slow path, timer, UART) and the two fetch
slots; they interact through wires that are functions of the registers.

| Component (source) | State it keeps | Operations | Interacts with |
|---|---|---|---|
| PC generator (`pc.v`) | PC, request for the second port | step by 4 or 8, redirect, hold | front end, late resolution, slow path |
| Instruction memory (`imem.v`) | ROM, the two output slots with their addresses and valid flags | fetch both slots; a data read takes port B | PC, front end, bus |
| IF/ID (`if_id.v`) and its glue in `cpu.v` | the IF/ID register, kill flags | load, drop, bypass (ID takes the IF word itself) | front end, ID |
| Redirect logic (`frontend_ctrl.v`) | none | turns predictions of slot 0 and slot 1 into redirects | predictors, PC |
| BHT, JTB (`branch_predictor.v`, `jump_target_buffer.v`) | tables | predict in IF, train in EX/MEM | front end |
| Return address stack (`ras.v`) | ring, pointer, count, two cached entries | call, return; look-up for both slots | front end, EX |
| Decoder (`id.v`) | none | classes, operands, immediates | ID |
| Hazards and forwarding (`ctrl_late_detect.v`, `forwarding.v`) | none | stall after a load; defer a branch instead of stalling it | ID, EX, MEM, WB |
| ID/EX, EX/MEM, MEM/WB (`id_ex.v`, `ex_mem.v`, `mem_wb.v`) | one instruction each | load, hold, bubble, flush | everything |
| Execution (`ex.v`) | none | ALU, address, branch resolution | forwarding, redirect |
| Late resolution (`mem_ctrl_resolve.v`) | none | resolves in MEM a branch or jalr whose operand was being loaded | WB, PC, flush |
| Multiplier, divider (`mul_unit.v`, `div_unit.v`) | busy, latency counter, result, ready | start (in ID or EX), abort, answer | ID, EX, hold |
| Bus (`bus_interconnect.v`), data memory (`dmem.v`) | the one pending request with its address, width and data; four byte lanes; the read on its way | accept, refuse, answer; byte enables, extension; reset | EX (strobe), MEM (answer), port B of IMEM, MMIO |
| Slow path (`privileged.v`) | five-state machine, machine CSRs, the latched instruction | trap, interrupt, CSR access, mret, wfi, fence | ID (stops it), MEM (faults), PC |
| MMIO and timer (`mmio.v`) | request register, mtime, mtimecmp, msip, led, tohost | two-cycle reads and writes, timer comparison | bus, slow path, UART |
| UART (`uart_tx.v`) | FIFO, pointers, shifter, counters, sticky overflow | push, pop, shift | MMIO, the line |
| Board top, display, clock IP | display scan | none the core depends on | - |
| FreeRTOS demonstration (`main.c`, `FreeRTOSConfig.h`) | progress counters, loop counter, task contexts and ready lists (in the kernel), the verdict in LED and tohost | create, yield, delay, critical sections, `platform_fail`; tick interrupt | slow path (ecall, timer trap, mret), timer |

Hard behaviours, and what makes each component correct:

- **Front end.** After a redirect ID is fed from IF directly ("five-stage
  form", one bubble) and later from IF/ID ("six-stage form"). Every stall,
  flush, predicted jump in either slot and data read on port B can fall in the
  switch. Correct: the instructions ID decodes are the predicted path, each
  once, each with its own word, and a redirect costs one bubble.
- **Pipeline.** Five kinds of holds and stalls, two places at which branches
  resolve, forwarding from three stages, an answer of the bus in the cycle of
  the next strobe. Correct: software sees a sequential machine.
- **Multiplier and divider.** They start before their instruction is known to
  survive. Correct: EX never takes a result that belongs to another one.
- **Bus.** Strobes last one cycle and are not repeated. Correct: never a strobe
  without a ready bus, never an answer without the instruction that asked.
- **Slow path.** Interrupts, faults and serial instructions compete with
  redirects. Correct: precise, and alone with the pipeline when it works.
- **Machine-mode registers.** A counter half is written in the cycle in which
  the other one carries; the cause of an interrupt is latched a cycle before the
  trap, while the lines may change; ID may hold a misaligned address that is
  never reached. Correct: the registers are those of one instruction after the
  other, every retired instruction counted once, no enabled interrupt waits for
  ever.
- **Byte lanes.** The word of a read, its width and its offset meet in the cycle
  in which the next access is already accepted; refusals and resets may leave an
  answer behind. Correct: a memory of bytes that answers every request once.
- **FreeRTOS demonstration.** The timer may come between any two statements.
  Correct: always a verdict, always success, although no worker ever blocks.
- **Timer.** 64-bit registers accessed in halves under a running counter.
  Correct: no early interrupt, no torn time, no stale interrupt behind a store.
- **UART.** A status bit that is cycles old when it is used. Correct: polling
  drivers lose nothing, a drained port has sent everything.
- **Return stack.** Cached copies of a ring that overwrites itself. Correct: a
  stack of bounded depth.

`PROJECT.json` lists these as hazards at their lines, with the property that
would catch each.

## 2. The modules

| Module | Models | Composition |
|---|---|---|
| `Rv` | addresses, instruction words, operand use, arithmetic, CSR effects | used by all core modules |
| `MemoryMap` | regions and the bad-request check of the bus | `EXTENDS Rv` |
| `Machine` | abstract specification: one instruction at a time, precise traps | `EXTENDS MemoryMap` |
| `Fetch` | the front end, with an arbitrary back end and arbitrary predictions | `EXTENDS Rv` |
| `Core` | front end and back end together | `EXTENDS Fetch, MemoryMap`; instantiates `Machine` |
| `ReturnStack`, `Ras` | abstract bounded stack; `ras.v`, with what `frontend_ctrl.v` counts as a predicted call or return in slot 0 | `Ras` instantiates `ReturnStack` |
| `Clint` | timer of `mmio.v` with its software | |
| `ByteChannel`, `Uart` | abstract byte channel; `uart_tx.v` behind `mmio.v`, drivers, a listener | `Uart` instantiates `ByteChannel` |
| `CsrFile` | the machine-mode registers as values: what they keep of a write and read as, what a trap, an mret and a retirement do | used by both modules below |
| `MachineMode`, `Privileged` | abstract machine mode, one instruction after the other; `privileged.v` in full, with the control of the pipeline | `EXTENDS CsrFile`; `Privileged` instantiates `MachineMode` |
| `ByteMemory`, `DataBus` | abstract byte memory with one outstanding request; `bus_interconnect.v`, `dmem.v`, the read ports of `imem.v` and `mmio.v` | `DataBus` instantiates `ByteMemory` |
| `Rtos` | `main.c` and `FreeRTOSConfig.h`, the kernel as `main.c` uses it | trap entry and mret as in `privileged.v` |
| `FetchProofs`, `CoreProofs`, `RasProofs`, `ClintProofs`, `UartProofs`, `PrivilegedProofs`, `DataBusProofs`, `RtosProofs` | theorems | extend their module |
| `MC...` | instances for TLC | extend their module |

**State and actions.** Variables are the registers, named as in the code where
it has one name (`preRe` is `if_pre_re_r`, `killQ` is
`frontend_redirect_kill_q`); a pipeline register is a record. Wires are
operators of the same cycle, with the code's priorities. One action is one
clock edge; which action it is depends on what the global control decides:

- In `Fetch`: `Issue` (advance), `Stall`, `EnterSystem` and `Drain` (the slow
  path takes over), `Mispredict`, `Squash` (fault), `SystemRedirect`. The back
  end's wires are their parameters.
- In `Core`: `IssueEdge`, `StallEdge`, `MispredictEdge`, `FaultEdge`, `FarEdge`,
  `EnterEdge` and the four states of the slow path `ExecEdge`, `TrapEdge`,
  `RedirectEdge`, `SleepEdge`. Each conjoins the `Fetch` action with `Back`, the
  next state of all back-end registers on that edge, so nothing in the back end
  is optional. The guards are `privileged.v`'s case distinction with its
  priorities and `cpu.v`'s stall, hold and flush.
- `irq`, the value of a ROM or device read, and the two predictions are chosen
  anew on every edge.
- In `Clint` and `Uart`: what software strobes in the cycle, or nothing.
- In `Privileged`: with the slow path idle `Advance`, `Wait` (bus), `ExecuteHold`
  (multiplier, divider), `Resolve`, `ResolveLate` and the reports of MEM,
  `DataFault`, `BadTarget`, `FarRedirect`; then `Enter`, one action per
  instruction in EXEC, `EnterTrap`, `Redirect`, `Sleep`, `WakeUp`. The guards are
  the cases of `privileged.v` in their order; every edge also counts the
  counters and changes the interrupt lines.
- In `DataBus`: `Strobe(r)` for a request, `NoStrobe`, `Reset`. In each the
  prefetch takes port B or leaves it.
- In `Rtos` an action is a statement of `main.c`, a kernel service or a trap.
  `pc` is the next statement; each step takes some number of cycles, so that the
  tick falls between any two.

`expect` (the address the next issued instruction must have), `wb.op`, `wb.addr`,
`wb.old`, `mem.pc`, `mem.old` in the core, `prev` in the timer, and `heard`,
`tick`, `queue` in the UART, `rd`, `seen` in `Privileged`, `traps`, `slices`,
`last` in `Rtos` are history: no guard reads them.

**Refinement mappings.** `Core` implements `Machine` under this mapping: the
abstract registers are `regs.v`'s; the abstract PC is the address of the oldest
instruction in WB, MEM, EX or the slow path, else `expect`; data memory is
`dmem` with the effects of stores that are in MEM or WB undone (they write
early, when EX strobes); likewise the count of device writes. The abstract step
happens when an instruction leaves WB, or when the slow path finishes.
`Ras` implements `ReturnStack` with the frames read out of the ring from the
newest down. `Uart` implements `ByteChannel` with `queue` the bytes strobed and
not heard or dropped yet. `Privileged` implements `MachineMode` with the address
of the oldest instruction that has not retired, the registers as they are, and,
while a trap is being entered, the interrupt lines as they were when its cause
was latched; an instruction that can fault counts when it leaves WB. `DataBus`
implements `ByteMemory` with the bytes read out of the lanes (a device write
that is captured but not executed counts as done), and the promise the word and
error that the registers of the read will deliver.

## 3. What is abstracted, and why

Control is kept in full; data is reduced to what the properties tell apart.

- In the core addresses count words; byte lanes, widths and misaligned data are
  in `DataBus`, misaligned targets in `Privileged`.
- The address space has `2 * Words` words (`Space`): one bit stands for all
  address bits above IMEM's index. That is enough to tell an address inside
  IMEM from one that aliases into it.
- Data are numbers below `Space`, and arithmetic wraps there. One comparison
  stands for six, one ALU operation for all single-cycle ones.
- Multiplier and divider are their handshake and a result computed at once;
  `DivSteps` iterations stand for 32.
- Values read from ROM as data or from devices are any of `LoadValues`. The
  device in `Core` is a slave that answers after two cycles as `mmio.v` does;
  the other slaves answer after one.
- The core's CSRs are mstatus.MIE/MPIE, one enable bit of mie, mtvec in direct
  mode, mepc and mcause. `irq` is the level of "an enabled source is pending" and
  may change in every cycle. `Privileged` has all registers and sources, and of
  the pipeline only which instruction is where and whether it is on the wrong
  path: jumps go anywhere, and what they were predicted to do is free.
- A word of `CsrFile` is the set of its one bits, over the bit positions that
  matter (those of mstatus, mie, the interrupt flag, two low and some address
  bits). Registers that read as zero are one name, absent ones another.
- `DataBus` has bytes of `ByteSize` values; the upper half is negative. Behind
  the register port is one register; the real ones are in `Clint` and `Uart`.
  The registers of a request and of a read are kept only while they are in use.
  `imem.v` drives `word_data` at lines 79 and 101; it is modelled as the
  combinational value both compute.
- `Rtos`: the FreeRTOS kernel and its port are not in the repository and are
  modelled as far as `main.c` reaches them: creation, tick, time slicing, yield,
  delay (one step for the other tasks, since the kernel suspends the scheduler),
  critical sections with the port's nesting count. The idle task never runs,
  because the workers never block. `memset` and `memcpy` serve the compiler.
- The predictor tables are unconstrained: any prediction `frontend_ctrl.v` can
  make of a word. What holds here holds for every training history.
- Reset is the initial state. Resetting again, which the code allows at any
  time and which simply restores it, is not an action.
- `Clint`: halves below `Half` stand for 32-bit words. `Uart`: `Bits` and
  `BaudDiv` stand for 8 data bits and 781 (90 MHz at 115200 baud) cycles a bit.
- `Clint`'s and `Uart`'s software and the line's listener are external: the
  sequence PRIVILEGED_RTOS.md:75 prescribes, the loops of
  `src/benchmarks/CoreMark/CoreMark/core_portme.c:70-87`, and a receiver that
  samples each bit in its middle on the sender's clock.

## 4. The runs

| Run | Instance | States | Question |
|---|---|---|---|
| `fetch` | all 64 images of 3 words out of 4 words, every back end | 48 655 | Does ID see exactly the predicted path? |
| `core` | 196 programs that move values through memory or a device into two uses and a jump or store; 120 sequences of mul, div and device store, some behind a branch; all 1331 triples of 11 branches, jumps and loads; all pairs of 12 sensitive instructions under interrupts, twice; ROM reads in straight-line code | 289 021 | Does the pipeline execute like the sequential machine, with load-use, forwarding, waiting, faults, early and late resolution, precise traps? Does EX get its own product and quotient? Can anything stop it for good? |
| `privileged` | words of 7 bits, counter halves of one bit, 8 words of IMEM; programs for interrupts and wfi, for exceptions, for counters | 165 676 | Are the machine-mode registers those of one instruction after the other? Are interrupts served? |
| `data_bus` | bytes of two bits, two words of program and of data memory, every width, loads and stores at aligned, misaligned, device and unmapped addresses, reset at any time | 11 632 | Is it a memory of bytes that answers each request once? |
| `rtos` | ticks of 19 cycles, steps of one or two, three sleeps of two ticks, a critical section every third iteration | 116 418 | Does the demonstration always end, and always in success? |
| `ras` | ring of 8, any power-up contents | 18 432 | Is the ring a bounded stack? |
| `clint` | halves of two bits, three comparator goals | 23 473 | Early interrupts? torn times? stale interrupts? |
| `uart` | FIFO of 4, 4-bit frames, 3 cycles a bit, polling drivers or software that does not poll | 206 243 | Overflow? order? is a drained port empty? is a loss confined and reported? |
| `rom_read_at_target`, `rom_read_at_jump`, `mul_at_late_target`, `branch_in_last_word` | one program each | - | the four disagreements of section 6 |

**Why the bounds are enough.** EX, MEM and WB hold three
instructions besides the two fetch slots, so that hazards show between
instructions at most three apart; each program family places every pair or triple of the
instructions of its theme at that distance, and the jumps and traps make the
programs loop and meet every phase of the front end. Six ROM words let slot 0
and slot 1 be at the end of IMEM, and targets outside of it fault. Two general
registers and x0 distinguish first, second and no operand. With `DivSteps = 1` a
division already lasts longer than a device access, so each can wait for the
other. The UART's frame is longer than the
time software needs to fill the FIFO, so the FIFO is full in many states; the
RAS instance has the code's depth; the timer's halves carry every four cycles,
which is faster than any access sequence. In `privileged` the counter halves
carry at every second count, so that each write meets each kind of carry; the
seven bit positions are those at which the code treats bits differently. In
`data_bus` two bits make a byte that is positive or negative, and a stored word
has four different bytes, so that a lane or source taken wrongly shows; every
access meets every other one back to back, since the bus has one request. In
`rtos` a tick is short enough to fall at each statement of a worker in some
behaviour, and long enough that the hypotheses of the theorems about `NoFailure`
and `TrapCount` hold with `C = 2` (section 5); with ticks of 12 cycles a worker
does not get around its loop before the monitor's verdict, and the demonstration
reports f004. The code's ticks of 9000 cycles are long compared with an iteration.

The state of `MaxAge` in `Clint` bounds the readings that are judged, not the
model: longer ones are allowed and claim nothing, since the high half could
have come around (in 2^64 cycles, in the code).

**Deadlock** is checked in every run: the clock always has an edge.

**Fairness** is weak fairness of the whole next-state relation (`CoreNext`,
`UartNext`) and nothing else: the clock runs. Answers, wake-ups and frames come
because the circuit counts, not because they are assumed to. `Progress` asks
that again and again an instruction retires, a trap is entered or the core is
asleep; it does not assume an interrupt ever comes. `Privileged` leaves the
duration of bus accesses, of multiplications and of fetching open, so there
fairness is two conditions: the pipeline moves on in the end
(`Advance(TRUE) \/ Reports`: each of these waits ends by the circuits `Core`
has in full), and the slow path, whose steps take one cycle each, moves on
(`SlowPath`). In `Rtos` it is `WF(RtosNext)`: the processor goes on executing.
The scheduler's fairness is not assumed, it is the subject.

**Mutants.** Each property of a passing run is paired in `PROJECT.json` with a
mutated definition that breaks it, written next to the definition it mutates
under a comment that begins with "Mutant": a dropped flush, a forwarding
priority swapped, a counter that wraps, an answer a cycle early.

## 5. The proofs

All theorems hold for every value of the constants that satisfies the named
assumptions of the modules: any ROM image and size (the refinement of `Machine`
has hypotheses, see there), memory map, divider latency, interrupt pattern, RAS depth of at least 8, half width, FIFO depth from the table in `uart_tx.v`, frame and baud rate, byte size, memory sizes and contents, tick
rate, cost of a step, number and length of the monitor's sleeps, bit positions of
a register, program, jump targets, faults and interrupt levels.

- **`FetchProofs`.** `FetchInvariant`, `FetchOnPath`, `FetchOneBubble` assume
  `ImemDataReads = FALSE`; with data reads on port B they are false (section 6).
  `IdOnPath` is not inductive: it says nothing of cycles in which ID has no
  instruction. `FetchInv` says that the front end is always in one of four
  states: `Booting`, `Redirected` (IF dead, the register empty or holding the
  slot-1 jump that redirected), `Paired` (five-stage form: IF in ID, slot 1 its
  successor) and `Sequential` (six-stage form). The proof that each edge leads
  from one to another has one lemma per action. `FetchTypeCorrect` needs no such
  assumption.
- **`CoreProofs`.** `CoreTypeCorrect` is proved register by register.
  `Handover` proves `HandoverInv`: the bus is pending exactly while MEM holds a
  memory instruction (which needs: no strobe is lost, no flush clears MEM under a
  request, EX fires once), the front end waits exactly while the slow path is not
  idle, and the slow path is alone. The last two depend on each other: a strobe
  behind a faulting access would leave a request without an instruction, and a
  request pending would leave the slow path not alone. `BusMatches` and
  `SlowPathIsAlone` follow. `CoreImplementsFetch`: every step of the core is one
  of `Fetch` or leaves the front end alone, so that what is proved in `Fetch` for
  every back end holds for this one; `CoreOnPath` carries `IdOnPath` over to all
  behaviours of the core in which no load reads ROM.

  The rest is the refinement of `Machine`. `MulDivInv` says whose operands the
  multiplier and the divider have: those of the instruction in EX, or of one that
  a flush has `Abandoned`, and then the multiplier is idle again before the next
  multiplication can be in ID. `MulDivAnswersOwn` proves
  `MulDivFresh` from it under the one condition that excludes finding 3
  (`NoMulAtLateTarget`: no multiplication is at the target of a branch that
  resolves late while another one runs). `SequentialInv` gives every stage its
  meaning: `WbMeaning`, `MemMeaning` and `ExMeaning` say that a stage holds the
  instruction ROM has at its address, that what it has computed comes from the
  registers and the memory its predecessors leave (or that it still lacks the
  operand of the load in front of it), and that the instruction behind it is its
  successor; `BusMeaning` that the pending request is that of MEM with the word it
  will answer, `SysMeaning` what the slow path has latched and why.
  `CoreIsSequential` proves it an invariant, edge by edge and stage by stage (TLC checked it on the instance
  of `core` first); `CoreImplementsMachine` then shows each edge to be one step of
  `Machine`, that of the instruction that leaves WB or of the slow path's end, or
  none. Hypotheses: the front end stays on its path (finding 1 and 2 break that;
  `CoreWithoutRomReads` replaces it by "no load reads ROM"), `NoMulAtLateTarget`
  (finding 3) and no branch in the last word of IMEM (finding 4). Every program of
  `core` satisfies all three.
- **`RasProofs`.** `RasInv` (the cached entries are those of the ring) is
  inductive as it stands; from it the refinement `RasImplementsStack`, by
  arithmetic on ring indices, and `RasShadow`, which says that the answer given
  to slot 1 is the stack's after a call or return that is predicted in slot 0. A
  linking jalr that the JTB does not know is not predicted
  (`slot0_jump_pred_base`), and slot 1 is told the stack without it. Slot 1 is dropped when slot 0 is taken,
  so that this is the front end's guarantee at the port, not a fact about
  fetched paths.
- **`ClintProofs`.** `ClintInv` follows the comparator through "low word all
  ones, high word, low word": at each stage it is one of the old and the new
  value or has the high word of one of them with the largest low word, so it
  is never reached earlier. `TimerSettles` and `NoEarlyTimer` are parts of it.
  `ClintNoTornTime` needs a second invariant, `ReadInv`, about the carries out of
  the low half since the reading began: each word read so far fixes how many
  there had been, their numbers only grow, and a reading short enough to be
  judged sees fewer than come around, so that equal high words mean equal
  numbers. Carries may fall anywhere in a reading; writes to mtime do not, since
  `Clint` has one access sequence at a time (one program, and no interrupt
  handler that sets the time).
- **`UartProofs`.** `PollInv` follows the room for one byte: from the answer
  "ready" through the strobe, the request and the push it allows, there is room
  and no other byte is on its way. `NoOverflow` is a part of it.
  `UartTypeCorrect` is proved from `Registers`, which also knows the structure of
  the FIFO and the shifter. `UartDrainMeansSent` counts: every byte of `queue` is
  in exactly one of four places, mmio.v's request register, its data register,
  the FIFO, or the line (`Owing`). For the last one the listener must be exactly
  as far as the shifter (`Line`: its cycle count is `bit * BaudDiv + baud`, it
  has taken the bits whose middle has passed, and the tail of the shifter is
  ones, so that it takes no stop bit for a start bit). With `PollInv`, which
  says that no push can be behind a status read, "not busy" empties all four.
  `UartIsChannel` is the refinement of `ByteChannel` but for its fairness.
  `InOrder` says which byte is where: `queue` is, from its head, the byte on the
  line, the FIFO from `rd` to `wr`, the byte pushed and the byte requested; the
  shifter holds the rest of the frame of the first one and the listener the bits
  before (`LineHolds`). What the listener takes is therefore the head, and what a
  full FIFO refuses the last one, because with `PollInv` no request is behind a
  push. TLC checked `InOrder` on the instance of `uart`.
- **`PrivilegedProofs`.** `PrivTypeOK` and `AlignedSlowPath` are parts of
  `PrivInv`, which adds what each place of the pipeline may hold. `Pipe`: behind
  ID there are only instructions of IMEM, and ID sees a misaligned address only
  while an older jump is on its way that faults there or was mispredicted;
  the slow path starts behind an empty pipeline, so never there. `Serial`: in EXEC
  there is an instruction that belongs there, and in TRAP the latched cause has
  its reason (`Reason`) in the word at the latched address, in the lines at
  the cycle of the latch, or in an address outside IMEM. With it each edge is one
  step of `MachineMode` or none (`PrivImplementsMachineMode`): an edge on which
  WB holds an instruction retires it (`RetiringEdge`), edges that fill or flush
  the pipeline in front of the oldest instruction change nothing, and EXEC and
  TRAP have a lemma per case. `ShownRetired` and its neighbours say that the
  register operations commute with leaving the cycle counters out.
- **`DataBusProofs`.** `RegistersOK` gives the types. `BusInv` adds to
  `AnswersBelong` that between its strobe and its answer a request is in exactly
  one place: refused, or with the slave that was selected. From it follow
  `BusAnswersInTwoCycles` and the refinement `BusIsByteMemory`, one lemma per
  edge: what a store does to the lanes is what it does to the bytes (`wdata`,
  `byte_en` against the abstract update), and what the multiplexers deliver is
  what the bytes were when the request was accepted.
- **`RtosProofs`.** `RtosInv` says where each task is while it does not run: its
  saved context is that of its program (guard register, nesting, interrupt
  enable), it is in its ready list exactly if it does not sleep, and the running
  worker is the last of its list. It also says where interrupts are off: in
  critical sections, in traps, and from the csrci of `platform_fail` on, which is
  why `VerdictStands` holds between the two stores of the verdict as well as
  behind them. `CriticalSections`, `ContextsIntact`,
  `RoundRobin` and `VerdictStands` follow for every number of cycles a step may
  take. `PreemptionInv` adds that until a slice has been ended the tasks are still
  in their opening, or only the first worker runs on (`Alone`), whence
  `PreemptionNeeded`. The other two are about time and have hypotheses about the cost of a step, with a bound `C` on it.
  `RtosTrapCount` needs eight steps to fit into a tick (`8 * C < TickCycles`), so
  that no tick is lost behind an opening, a switch or a critical section:
  `ScheduleInv(C)` bounds the clock at each statement (`ClockBounded`,
  `OpeningInTime`), says when the monitor wakes (`MonitorOnTime`) and counts the
  traps by ticks, yields and delays (`TrapsCounted`). `RtosNoFailure` adds
  `LongTicks(C)`: the time slices a worker has until the verdict, half of all
  ticks, less eight steps each, pay for `Enough` iterations; the first critical
  section comes after those; and the counters do not come around. `ProgressInv(C)`
  is an account of that time: a worker had its share of the slices (`TurnsKept`),
  has done what the cycles of its slices pay for (`Earned`), and never more than
  there were cycles (`NotTooMuch`). With the code's 9000 cycles to a tick, 4 sleeps
  of 5 ticks and 100 iterations, `LongTicks(C)` holds for steps (a statement, a
  trap or a kernel service) of up to 321 cycles. TLC checked all three inductive
  invariants on the instance of `rtos`.

## 6. What the checks found

1. `imem.v:83`: a data read clears `if_pre_re_r` also while the pipeline is
   stalled, but `cpu.v:532` keeps `if_pre_valid_q`. The slot-1 instruction then
   reads as the zero word and traps as illegal (`rom_read_at_target`).
2. `cpu.v:552`: when a data read takes port B in the recovery cycle after a
   redirect, the word ID takes from IF is also copied to IF/ID; a predicted-taken
   jump issues twice (`rom_read_at_jump`). In straight-line code ROM reads are
   harmless (`core`).
3. `mul_unit.v:22`: the start of a multiplication at the target of a
   late-resolved branch is dropped while the squashed wrong-path one still runs,
   and the latter's product is taken (`mul_at_late_target`). The divider handles
   the same case explicitly (`div_unit.v:70-71`).
4. `ex.v:133-134` and `mem_ctrl_resolve.v:68-70`: the fall-through of a
   mispredicted branch in the last IMEM word wraps to address 0, where
   PRIVILEGED_RTOS.md:48 promises that addresses outside IMEM never execute
   aliases (`branch_in_last_word`).

The programs of `core` avoid these cases: ROM reads occur only in straight-line
code, and `LongPrograms` keeps multiplications away from late targets.

## 7. What is only model-checked, what is not modelled

Every safety property of a passing run is stated by a theorem, some under the
hypotheses named in section 5. Only model-checked:

- liveness, which is out of the prover's reach: `Progress`, `InterruptsServed`,
  `Terminates`, and the fairness of `ImplementsChannel` (its steps are proved,
  `UartIsChannel`);
- the core with ROM reads in straight-line code: there `IdOnPath` is a hypothesis
  of the theorems, which the run `core` checks on its programs.

Not modelled:

- The predictor tables' contents: every prediction `frontend_ctrl.v` can make is
  allowed, so that nothing here depends on them, and a wrong table costs time
  only.
- The decoder's bit fields and the individual ALU operations: combinational, and
  covered by the RISC-V tests in the repository.
- Partial products of `mul_unit.v` and the steps of `div_unit.v`: arithmetic on
  wide words; their handshakes are in `Core`.
- msip, led and tohost in `mmio.v`: single registers; instret: a wire. The
  external interrupt's synchronizer: the line may have any level in any cycle.
- `top.v`, the display, vendor clocking: the core does not depend on them.
- Testbenches (read as a reference), the FreeRTOS kernel (not in the repository),
  benchmarks (third-party computations; their polling loop is the driver in
  `Uart`).
- Reset in the middle of operation, other than in `DataBus`, where it can cut an
  access in two.

## 8. Plan

Done, in this order: `Fetch`, `Machine`, `Core`, `Ras`, `Clint`, `Uart`, `Rtos`,
`Privileged`, `DataBus`, all with proofs, the refinements of `Machine` and
`ByteChannel` among them. What is left, most important first:

1. Proofs: `IdOnPath` with ROM reads that are never next to a redirect or a
   stall (what of findings 1 and 2 is harmless, and why), so that the refinement
   of `Machine` covers straight-line code that loads from ROM.
2. `MulDiv`: the iterations of `div_unit.v` and the pipelined sum of
   `mul_unit.v` against quotient and product over bounded widths, with aborts at
   every phase.
3. `Predictor`: hash, tag and counters of the BHT and JTB with their training
   port, and the claim that predictions are always among `Fetch`'s `Predictions`.
4. `Rtos` on `Privileged`: the same traps with the pipeline's timing.
