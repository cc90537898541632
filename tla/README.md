# Escapement in TLA+

A verification project for Escapement, a preemptive real-time kernel for
microcontrollers (Cortex-M0+ and M33): TLA+ modules translated from its source, TLC
configurations that check them on small instances, and theorems that TLAPS checks for
every value of the constants. Paths below are those of the repository; `H:` stands for
`Escapement/EscapementHard.c`, `S:` for `EscapementSoft.c`, `PA:` for
`EscapementHardPA.c`.

To check one run: `tlc -workers 2 -config Hard.cfg MCHard.tla` (section 3 names the module
of each); one module of proofs: `tlapm HardKernelProofs.tla`. `PROJECT.json` lists the
runs, the mutants that show each property can fail, the source lines behind each
definition, the hazards and the theorems.

## 1. The system and its parts

| Part | State | Operations | Interacts by | Modelled in |
|---|---|---|---|---|
| Hard kernel (`EscapementHard.c`) | TCBs, ready and arrival queues, list of tasks to reschedule, `SynchronousTaskDeadlines` | `OSEndTask`, `OSSuspendSynchronousTask`, `OSScheduleSuspendedTask`, `_OSTimerInterruptHandler`, `OSStartMultitasking` | soft timer interrupt, PendSV, the event queues | `HardKernel` |
| Live tasks (`H:250-271, 386-523`) | pool, requests, `LiveLastTime` | `OSCreateTaskLive`, `OSDeleteTaskLive` | requests served by the handler | `LiveTasks` |
| Context switch (`Escapement_CortexMx.c`, `_a.S`) | one stack, `_OSNoSaveContext` | PendSV handler, `SoftTimerInterrupt` | `_OSActiveTask`, the ready queue's head | `HardKernel`, `SoftKernel` |
| Wait-free FIFO (`H:952-979, 1268-1618`) | array, head, tail, `PendingOp`, descriptors on stacks | `FIFOEnqueue`, `FIFODequeue` | helping through `PendingOp` | `WaitFreeFIFO` |
| Slot buffers (`H:1620-1930`) | slots, indices, status | write, read by reference, read by copy | plain accesses, LL/SC on `Reading` | `FourSlot`, `ThreeSlot` |
| LL/SC (`Escapement_Atomic.c`) | reservation | LL, SC | cleared by interrupts | inside the models that use it |
| Soft (m,k)-firm kernel (`EscapementSoft.c`) | as the hard one, pattern counters, optional queue | admission, promotion, removal, drop | as the hard one | `SoftKernel` |
| Power-aware kernel (`EscapementHardPA.c`) | remaining work, simulation queue, slack | choice of speed, the pair of compare-and-stores | processor driver | `PowerAware` |
| Kernel timer of a port (`*/Escapement_Timer.c`) | counter, two alarms, flags | `_OSSetTimer`, `_OSGetActualTime`, handlers | flags, soft interrupt | `PicoTimer` (RP2040); `Stop2` (TIM2 of the STM32U5) |
| Timer events (`*/Escapement_TimerEvent.c`) | sorted queue, pool of nodes, alarm | schedule, unschedule, interrupt | events | `PicoTimer` |
| UART (`*/Escapement_UART.c`) | free nodes, queue, node under way | enqueue, interrupt, receive handler | user queues | `PicoUART` |
| Queue between cores (`RP2350/Escapement_CoreQueue.c`) | array, head, tail | enqueue, dequeue from two cores | LL/SC and barriers | `CoreQueue` |
| Stop 2, gated sleep | counter stopped and set on, LPTIM1, window after a byte | idle hook | timer, UART, timer events | `Stop2`, `PicoTimer` |
| Interrupt tables, clocks, `OSMalloc`, boot, start of core 1, measurement, trace, tests, emulation, tools | | | | not modelled, section 5 |

What is hard in it. On one core, contexts nest: a task is preempted by the context
switch and the scheduler, these by devices, and every one of them may touch the queues,
mostly with interrupts enabled. The kernel's defence is the order of its stores, LL/SC,
and helping (whoever comes in finishes what it finds under way). Its clock has 30 bits:
at each turn (18 minutes) every stored time is moved back by 2^30, while times are being
read and compared. What must hold, part by part:

- *hard kernel*: no release lost or late, the most urgent task runs, an event-driven task
  keeps to its period, times stay true across turns, a signal is served;
- *live tasks*: a block is given back once, and released at a time of the right turn; no
  request is left behind;
- *context switch*: the context on top of the one stack is that of the task elected;
- *FIFO*: an operation takes effect once, whoever completes it, and it ends;
- *slot buffers*: writer and reader never share a slot, a reader gets a whole item, the
  latest, never an older one;
- *soft kernel*: M of any K instances are mandatory and run; an optional instance never
  makes a mandatory one late; a promotion interrupted anywhere leaves one queue;
- *power-aware kernel*: a pair of stores interrupted anywhere has its effect once; the
  speed chosen leaves time for the remaining work; the two queues order alike;
- *timers*: an alarm due is never missed, a turn is counted once, no event waits for an
  alarm already past;
- *UART*: what is queued is sent, whole, and no node is lost or in two hands;
- *queue between cores*: as the FIFO, without nesting;
- *sleep*: the counter never passes the time it must wake for, and loses no time.

## 2. The modules

```
SlotRegister <-refines- FourSlot, ThreeSlot (both EXTEND SlotBuffer)    MCWaitFree
EventQueue   <-refines- WaitFreeFIFO, CoreQueue             MCQueues, MCWaitFree
HardKernel                  MCHardKernel  MCHard (EDF and DM)   MCLive (with LiveTasks)
SoftKernel                  MCSoftKernel  MCSoft
PowerAware, LiveTasks       MCPowerAware  MCVariants
PicoTimer, PicoUART, Stop2                MCPorts

FourSlot, ThreeSlot <- SlotBufferProofs   SoftKernel <- SoftKernelProofs
WaitFreeFIFO <- WaitFreeFIFOProofs        LiveTasks <- LiveTasksProofs
CoreQueue <- CoreQueueProofs              HardKernel <- HardKernelProofs
PicoTimer <- PicoTimerProofs              PicoUART <- PicoUARTProofs
```

The modules named MC give the constants their values. Where one holds several systems, a
variable `sys` chosen in the first state says which of them runs: each is checked alone,
and nothing is claimed of them together. `View` then compares states by the system that
runs.

### HardKernel

The tasks, the scheduler, the context switch and the clock together: their hazards are in
how they interleave. The processor's levels are explicit. A task's step needs
`soft = "out"`, `swap = "out"` and nothing pending; a step of the switch needs the
scheduler out and not pending; a step of the scheduler needs nothing. Device interrupts
and clock ticks come at any point, each at once.

| TLA+ | code |
|---|---|
| `taskState`, `high`, `low`, `nextDeadline` | `TaskState`, `NextArrivalTimeHigh/Low`, `NextDeadline` |
| `readyQ`, `arrivalQ` | the chains of `Next[READYQ]`, `Next[ARRIVALQ]` between their sentinels |
| `reschedule`; `waiting`, `signaled`; `carried` | `RescheduleSynchronousTaskList`; an event's FIFO; a local of `OSScheduleSuspendedTask` |
| `active`, `noSave`; `cur`, `saved` | `_OSActiveTask`, `_OSNoSaveContext`; what the registers and the stack hold |
| `tpc`, `swap`/`r1`, `soft`/`currentTime` | places in a task, in PendSV and in the timer handler, with their locals |
| `now`, `alarm`, `overflowFlag`, `comparatorFlag` | counter, comparator, the flags of the two timer interrupts |
| `EndTask…` (5 steps) | the stores of `OSEndTask`, a step each |
| `SuspendSynchronousTask` | `OSSuspendSynchronousTask`, interrupts masked: one step |
| `SignalDequeue`/`SignalPush`, `SignalByInterrupt` | `OSScheduleSuspendedTask` from a task, from a device |
| `SoftTimerInterrupt` … `Leave` | `FinalizeContextSwitchPreparation` and `_OSTimerInterruptHandler`, loop by loop |
| `SwapEnter` … `SwapRestore` | `_OSContextSwapHandler` |
| `due`, `left`, `rest`, `latency` | history only: true times, that no turn moves; no guard but the bounds reads them |

Abstractions. An event's FIFO is atomic here; `WaitFreeFIFO` shows it may be. The LIFO
push and pop by LL/SC of the reschedule list are single steps: each is a retry loop around
one SC. `_OSSetTimer` and a timer interrupt with its counter tick are one step each, which
`PicoTimer` takes apart. A priority under DM is the rank the code computes at creation
(deadline, then creation). The chains are sequences, `After` giving what a link leads to,
so that an unlinking with a stale pointer would show.

### LiveTasks

The option `ESCAPEMENT_LIVE_TASKS` of that kernel, under EDF. `state[b]` is `Live` of a
block, with the code's values; `pool`, `requests` and `serving` are `LiveFree`,
`LiveRequests` and the list that `ServeLiveRequests` took. A masked section is one step:
`Take` and `Ask` are those of `OSCreateTaskLive` and `OSDeleteTaskLive`, made by the task
running, which raises the soft timer interrupt in a step of its own (`raising`), or by an
interrupt, the overrun hook or `main` before the start (`CallByInterrupt`, at most one a
tick). What `HardKernel` does not have and matters here: the interrupt of a turn may come
some steps after the counter has passed 2^30 (`wrapped`), which is what `InWindow`, the test
at `H:800`, is for. The coincidence that the comment at `H:794-799` excepts is
`FirstTickAgain`: there the interrupt comes first. `due` is the true time to a task's
arrival, counted from the time its creation was served at.

### SoftKernel

The (m,k)-firm kernel with its own steps and levels, as in `HardKernel`. The links of the
ready queue are kept one by one (`Next[READYQ]`), because a promotion under EDF moves an
optional instance from behind the idle task to the head by four stores, the scheduler
finishing what it interrupts. `instance`, `nextMandatory` and the times of the next
mandatory instance are the code's pattern counters. The admission test is the code's, with
its accounts of mandatory instances to come and of the share of event-driven tasks. An
event's queue is one task. `KernelCosts` says whether ticks pass inside the kernel: the
queues are checked with `TRUE`; `AdmittedInTime` with `FALSE`, since the admission test
counts no cost of the kernel's own.

### PowerAware

The accounts of the four policies: `remainingWork` and its updates, the simulation of DRA
(`simQ`, `simTime`, `excess`) with the pair of compare-and-stores that a handler finishes
for the task it interrupted (`pair`), the slack of `DM_SLACK` store by store, the speed
chosen. Work is in 256ths, as in the code; speeds are `Ratio`. Assumed besides: the kernel's
code takes no time but the ticks at which an interrupt comes in it; signals come between
runs of the handler; arrivals tied in time come in any order; interrupts are taken at once
unless masked; an instance uses at most its WCET, and has ended when it has used it
(`EndedInTime`). A speed is in force at once.

One build is not free of what its comment excludes. A tick may come in an end that has
handed its slack over; under `DM_SLACK` the handler then charges it to `_OSActiveTask`, the
next task, without the test of `_OSNoSaveContext` that the other policies make (`PA:856-857`
against `PA:863` and the comment at `PA:276-285`). The history `charged` names the tasks
charged so, which `WorkCounted` excepts until their next release: without the exception TLC
finds it violated, an active task having less work on record than it has left. And such a
tick is time that the slack handed over does not have, the kernel's own time counting for
nothing in these accounts: `slowEnd` says that one came since the processor was last idle,
and `DeadlinesMet` excepts what is late then. What follows a late instance, the kernel's
treatment of an overrun, is not modelled, and `Variants.cfg` does not follow it (`NoneLate`).

### WaitFreeFIFO, CoreQueue and EventQueue

One action per access to shared memory of `FIFOEnqueue`, `FIFODequeue`, their helpers and
`IncrementFifoQueueIndex`; the two helpers have one shape and are one set of actions,
parted by the descriptor's `kind`. `des[l]` is the descriptor on the stack of level `l`,
`frame[l]` the level's place and locals, `frame[l].target` the descriptor it works on, its
own or the one it helps. Levels nest: only the highest active one runs. `reserved` is the
core's reservation: an LL sets it, an SC needs and clears it, the return of a preempting
context clears it, and so does `Interrupt` for a context that touches no queue. `marker` is
the argument `signal` that all calls on a queue share: `SIGNAL` for events, `NULL` for user
queues. Items have owners: one enqueues what it holds.

`CoreQueue` is the queue of the RP2350's two cores: on each core a task and the interrupts
that preempt it, both cores at once, `monitor` the reservation of each, lost also to a
store of the other core. The barriers are taken to make a core's accesses seen in their
order.

`EventQueue` is the promise of both: each call takes effect at an instant before its
return, on a sequence and, for an event, one signal. The refinement maps `contents` to the
items in the array from `Head` on (of the FIFO, from the slot after it while a dequeue has
emptied `Head`'s), and an operation is `effected` once the array shows it, or once its
answer is settled in the descriptor.

### SlotBuffer, FourSlot, ThreeSlot, SlotRegister

`SlotBuffer` has what both schemes share: a byte copied, the numbering, the status, the
event, the reader's beginning and end. `FourSlot` and `ThreeSlot` add the accesses of
Simpson's 4-slot mechanism and of the 3-slot one with LL/SC on `Reading`. A slot's content
is its number of bytes and the sequence number of its item. `SlotRegister` is the atomic
register they implement.

### PicoTimer, PicoUART, Stop2

`PicoTimer` takes `_OSSetTimer`, the handlers of the two kernel alarms, the timer events'
scheduling, removal and interrupt, and the idle task's gated sleep apart at each access to
the counter or an alarm; the counter is free-running, and an alarm matches only when the
counter equals it. The scheduler above is a loop that serves one task's arrivals.
`PicoUART` has senders that may preempt the driver or one another, the edge-raised transmit
interrupt of the PL011, and a receive handler that may send. Its two queues are atomic.
`Stop2` is the idle task of the STM32U5: how far the next event is, LPTIM1's compare
written and slow to arrive, the clocks stopped and moved on, the window after a byte. A
window that ends at the last count of LPTIM1 (`WindowEnd` 0xFFFF) has its compare set a tick
early, and may be slept for when that tick has passed: the finding `stop2_window`. The
history `missed` marks that sleep, and `CompareAhead`, in `ArrivalAhead`, excepts it alone.

Two steps are coarser than the code, to no effect on what is checked: in `Stop2` a byte comes
only in a sleep, and in `PicoUART` the end of the handler's loop and the write of the
interrupt mask that follows it are one.

## 3. The runs

| Run | Modules | Question | Bounds |
|---|---|---|---|
| `hard` | `MCHard`, `Hard.cfg` | Are times right across turns and within their word, releases punctual, the most urgent task running (under EDF and DM), periods kept, contexts and TCBs where they belong? | EDF: one periodic task of 1.5 turns that signals, one event-driven, a turn of 4, lateness 3. DM: a periodic and two event-driven tasks on one event, a turn of 2, an overrun stopping the system |
| `hard_live` | `MCLive`, `HardLive.cfg` | Is every signal served? Is every live request? | two tasks, a turn of 2, lateness 1; one block, a turn of 3 |
| `hard_wrap` | `MCHardKernel`, `HardWrap.cfg` | Is an event-driven instance given its workload? **Violated** | as `hard`, EDF |
| `queues` | `MCQueues`, `Queues.cfg` | Are the FIFO and the queue between cores atomic? Are descriptors alive? | FIFO: 3 levels, 3 calls, 2 places, indices wrapping at 6; two cores of 2 levels, the same queue |
| `wait_free` | `MCWaitFree`, `WaitFree.cfg` | Buffers: exclusion, whole items, no older item, atomic registers, nothing written left unread. FIFO: does every operation end? | items of 2 bytes, 5 writes to 4 slots, 4 to 3; 3 levels, 3 calls, 1 place |
| `soft` | `MCSoft`, `Soft.cfg` | One ready queue, contexts that follow it, the time of the right turn; the (m,k) pattern, no instance admitted making another late | queues: 2 periodic, 1 event-driven, a turn of 6, a pass of the kernel of a tick (`MaxLatency` 1); late: 3 periodic, a pass of two, up to the first stale start; admission: 3 and 1, periods up to more than a turn; EDF and DM |
| `soft_stale` | `MCSoftKernel`, `SoftStale.cfg` | Is a dropped instance without a context? **Violated** | the tasks of the queues of `soft`, EDF, a pass of two ticks |
| `variants` | `MCVariants`, `Variants.cfg` | Power: deadlines met however slow and work counted once, but for interrupted ends under DM_SLACK, DRA's simulation behind the real queue. Live tasks: blocks, first arrivals, requests | 4 builds (OTE under DM only: under EDF it is half of DR_OTE), 3 speeds, periods 3 and 6 with WCETs 1 and 2, an event-driven task of 1 in 4, a turn of 8; two blocks, periods of 2/3 and 4/3 of a turn of 3 |
| `power_order` | `MCPowerAware`, `PowerOrder.cfg` | Do the two queues order alike? **Violated** | DRA, the event-driven task at the first address |
| `ports` | `MCPorts`, `Ports.cfg` | Turns counted, arrivals and events never behind their alarm, the PLL running for each; buffers sent whole; no time lost or slept past in Stop 2 | counter of 32 and turn of 8; 3 nodes of 2 bytes, 2 senders; wrap at 34, LPTIM1 at 18 |
| `stop2_margin` | `Stop2`, `Stop2Margin.cfg` | Does the wake-up come before its event for any margin allowed? **Violated** | the margin one under `OS_STOP2_MIN_US` |
| `stop2_window` | `Stop2`, `Stop2Window.cfg` | Does a window's sleep end with the window? **Violated** | the bounds of `stop2_margin`, LPTIM1 at 20, the margin of `ports` |

Each type invariant is checked in a run or proved: alone (`TypeOK` of `hard`), with the
first property of its part (`DescriptorsSound`, `QueueKept`, `ClockCounts`, `NothingStuck`,
`ArrivalAhead`; `DeadlinesMet` for both parts of `variants`; `AtomicCoreQueue`,
`AtomicRegister3`), or as a theorem (`TypeCorrect` of `SlotBufferProofs`).

Bounds, and why they are enough.

- *Turn of the clock* (`ShiftTimeLimit`, `Turn`, `Wrap`): what matters is the order of
  times against a turn. Four ticks leave room for a period of a turn and a half, its carry,
  a deadline and a workload shorter than a turn, all at every phase of the clock; six and
  eight for instances of several ticks.
- `MaxLatency`: the scheduler ends within so many ticks of being asked; always less than a
  turn, as 2^30 µs is against a pass of some µs. No second turn begins before the first is
  taken into account, for the same reason. In `soft`, `queues` has one tick: a
  release may come at any step, but no later than a WCET after an admission, so that the
  stale switch of `soft_stale`, which needs two, lies outside. `late` has two, and three
  periodic tasks, and is followed up to such a switch (`NoStaleStart`), after which the
  kernel takes its ready queue for what it is no longer: whatever comes before it and every
  way around it is checked, and `ContextsMatch` excepts the state it leaves. The tasks of
  `queues` with two ticks are a space several times as large.
- `MaxLateness`: how long after its deadline an instance may still run. Overruns happen,
  endless ones do not.
- `MaxCalls`: three operations (or interrupts) on three levels. The helper that finds the
  work done takes two nested interrupts, and so three levels; the fault of a second signal
  that the code's own comment at `H:1384` describes is found with them. `StartIndex` is the
  last index, so that every run wraps. That an index does not come round to an old value
  within one preemption is assumed (`QueueAssumption`), as at `H:1301`.
- `MaxWritten`: five writes use each of four slots and come back to the first.
- `WriteTicks`, `WakeTicks`, `LockUs`: a delay of the hardware shorter and one longer than
  what the code waits for.

The views leave out of the comparison of states only values that no code reads before
writing them again (the deadline of an instance that ended, the times of a free block). In
`queues` and `ports` items, or nodes and senders, are interchangeable; what is checked with
a symmetry is safety, so that it is sound. Deadlock is not checked where the system stops by
itself: the bounded calls and writes. The overrun under DM, which stops the kernel with
interrupts masked, is a stuttering state of `MCHard`.

Fairness. `HardKernel!Fairness`: weak for the scheduler and the idle task, which nothing
disables once they are enabled; strong for the context switch and the clock, which higher
levels disable and enable again; strong for a task's own steps: one given the processor
again and again goes on and ends, which is what a worst-case execution time says.
`LiveTasks!Fairness` is the same, with the interrupt of a turn. `MCLive` joins the two,
conjunct by conjunct. The slot buffers and the FIFO assume only that a context that is not
preempted goes on; of the 3-slot buffer also that interrupts do not come between every LL
and its SC for ever (`[]<>` neither side is in its loop of retries). For the FIFO interrupts
and preempting operations are finitely many: no operation ends under preemption without end,
and the code does not claim it.

## 4. What is proved

All theorems hold for every value of the constants within the named assumptions.

`SlotBufferProofs`, of the 4-slot buffer, under `FourSlotAssumption` (four slots, two pairs)
and the sizes of `SlotBuffer`: `Inv` is inductive (`Invariance`); hence types
(`TypeCorrect`), exclusion (`Exclusion`), whole items (`Intact`), `ReadOnce`, and
`Refinement`: the buffer is an atomic register. The argument is in `Inv`: `Separation`, the
writer fills the slot its pair does not name and a reader that announced the same pair took
the one it does name; `Filled`, only full slots are named; `Ordered`, the latest pair names
the last item handed over, and a pair shared with the reader is the latest, which keeps a
reader from going back.

`SlotBufferProofs`, of the 3-slot buffer, under `ThreeSlotAssumption` (three slots):
`Invariance3`, `Exclusion3` (types, no slot shared, what a reader holds intact) and
`Refinement3`, the same atomic register. Here the reader's announcement and the writer's
answer go through one cell, `Reading`, by LL/SC, either of which may fail. `Inv` says what
the cell's reservation is worth: the writer's slot is neither the latest nor the one being
read; a reader whose reservation stands is about to name the latest item or the one before
it, the writer still having to answer it; an SC that succeeds therefore decides which of the
two named the slot, and the other sees it.

`WaitFreeFIFOProofs`, under `QueueAssumption` (the array divides the range of the indices,
which is longer than the operations of a run; `NULL`, `SIGNAL` and `UNREAD` are no task,
index or level), for any depth of nesting and any number of slots, items and calls:
`SoundDescriptors` (`DescriptorsSound`), `Atomic` (`AtomicQueue`) and `Rests`.

For the first, a descriptor dies with its operation's stack frame while those it preempted
and those that preempt it may hold its address. Four facts are inductive together: the
types; `Posted`, `PendingOp` is the descriptor of an operation that has posted it and not
yet withdrawn it; `Targets`, a level works for itself or for a lower one, which then is
still under way; and `Read`, the fields that the prologue is past are written, and what it
is about to store in one is of its kind. `Posted` is what gives `Targets` to a level that
reads `PendingOp`, and `OwnOnly` (where the levels above are idle, no one works for this
one) what lets an operation begin or return.

For the second, `AtomInv` adds what makes an operation take effect once, whoever completes
it. `Nested` and `Finished`: whatever is worked for and no longer posted is decided for
good, and the levels above the posted operation help it before they post their own, so that
one operation at a time changes the queue. `Ordered` and `Confirmed`: of two levels in the
prologue of one operation, the second to store a field stores what is there. `Opened`: what
was read for the posted operation holds until its store is made, and then `Head` or `Tail`
follows (`Stage`: before the store, between the two, after). `Looped` and `Reserved`: what a
level knows of the operation at each place of its loop, and what a standing reservation is
worth; a store-conditional that would make the store or the move a second time finds its
reservation gone or the place past. `Counted`: `Head` and `Tail` move once for each
operation, so that within `MaxCalls` none comes round to a place read before. `Shape`: the
items lie together from `NextOut` to `NextIn`, `Head` and `Tail` corrected by the move that
is still to come, and a signal is alone; hence an insertion appends to `Contents` and a
removal takes its first. `Unique`: an item is in one place, so that what was inserted can be
told from what was there. Each step is then one of `EventQueue` or a stutter: the effect is
the store into the slot, or, where nothing is to be stored (full, empty, a signal kept), the
last store into the descriptor.

`MaxCalls` bounds the operations of one nesting, not those of the queue's life: by `Rests`
the array is, whenever no operation is under way, what `Init` allows with another
`StartIndex`, so that each such stretch is a run of its own.

The hard kernel, under `TaskAssumption`, `CreatedAssumption` and `TimingAssumption` (the
checks of `OSCreateTask` and `OSCreateSynchronousTask`; the order of creation lists each
task once; a pass of the scheduler shorter than a turn). Its theorems rest on one another
in this order:

- `HardKernelProofs`: `TypeCorrect`, `ArrivalTimes` (`ArrivalTimesAgree`), `NeverForgotten`.
  That the arrival time kept of a periodic task is its true one for any period, any length
  of turn and any interleaving needs `ClockInv`, which adds three facts: `IdleOnce`, the idle
  task starts the timer once, so that the counter goes back to 0 only at a turn;
  `AlwaysArriving`, a periodic task is in the arrival queue in every state, so that the shift
  of `ShiftTimes`, which walks that queue, misses none (a release takes it out and puts it in
  within one step, and `InsertQueueProperties` shows that the insertion keeps whatever was
  there); and the types. `CarriesOne` (a signaller about to push holds a task) makes the
  types inductive.
- `HardKernelProofs` again: `StackDiscipline` (`ContextsMatch`) and `OneLink` (`OnePlace`).
  Neither is inductive. `StackInv` adds, for each place within `OSEndTask`, the context
  switch and the scheduler, which of the task under way, the one elected and the head of the
  ready queue may differ, and when `_OSNoSaveContext` is up: the order of the five stores of
  an ending task is what it rests on. `Links` says in how many places each task is linked;
  a task on its event's queue may be signalled before it has left the ready queue, and the
  masked section of `OSSuspendSynchronousTask` is what keeps that from being seen.
- There too: `Deadlines` (`DeadlinesAgree`) and `MostUrgent` (`MostUrgentRuns`).
  `Sorted` is the order of the ready queue by what the code compares; it is kept by an
  insertion (`ReadyQueueInsertTestKey` is a total preorder on the tasks it is asked about)
  and by a turn of the clock, which moves all deadlines alike. With `DeadlinesAgree` the
  order is that of true deadlines.
- There too: `Interarrival` (`PeriodKept`) and `Widths` (`TimesFit`). `RestKept` ties
  the arrival time of an event-driven task that waits to the rest of its period,
  `PassInv` the time the scheduler has read to the counter. For the width of the server's
  deadline `ServerInv` keeps the set of tasks whose workloads lie ahead in it: since each
  instance waits for its period (the mutant `WaitsNever` shows it is needed) and the
  workload is the period, none is counted twice.
- And `Punctuality` (`Punctual`). `PunctualInv` says, for each place of
  a pass, which of the flags, the comparator and the pending bit will bring the scheduler
  back to an arrival that is due.

Two hypotheses are about the constants and are not checked by the kernel. `Fits` (for
`Widths` and `Punctuality`): under EDF the workloads of all event-driven tasks, with the
ticks of a pass, come to less than a turn, 18 minutes; `Demand` is their sum, given by what
a sum must satisfy. `RemaindersCover` (for `Punctuality`): a period of one turn or more has
a remainder of at least the ticks of a pass. `Punctual` is false without it: TLC finds with
a turn of 4, a period of one turn and a tick and a pass of two ticks (`MaxLatency = 2`) that
a release made late by those two leaves the next remainder at -1 with a turn before it;
`ArrivalQueueInsertTestKey` (`H:940`) and `_OSSetTimer`'s caller (`H:858`) take a time with
turns before it for a later turn's, so that the next release comes with the next turn, late
by less than a pass. For periods of 18 minutes that are a multiple of 2^30 µs to within the
microseconds of a pass, that is what the code does; such a release is late by less than the
scheduler's own latency, and no later one accumulates it. The assumptions of `MCHard`
evaluate both hypotheses for the constants of the run.

`LiveTasksProofs`, under `LiveAssumption` (a finite pool, timings as `ValidTiming` has them,
a pass of the handler shorter than a turn): `Blocks` (`BlocksKept`), `Arrivals`
(`ArrivalsTrue`) and `Awaited` (`RequestsAwaited`), for any number of blocks. `LiveInvariant`
adds to the three what they rest on. `Ending`: a task that has begun to end is the one active,
at the head of the ready queue, and any pass of the handler takes it out before a request for
its block can be served. `FlagSeen`: the flag of a turn is tested before the next turn, so that
at most one turn separates the kernel's times from the clock. `TimeRead`: in the window of
`ServeLiveRequests` the time read, with the ticks since, is the true time, unless a turn began
between the test of the flag and the reading, and then the flag is up or its interrupt is still
to come; `InWindow` with the excepted coincidence of `H:794-799` leaves the first case alone,
so that a task created arrives at its true time. `CreatedNow`: a block asked for has no turns
before its arrival, since `OSCreateTaskLive` clears them. What the lists of blocks hold after
a push, a removal and an insertion is in the lemmas `ListConcat` to `ListRemove`.

`PicoTimerProofs`, under `PicoAssumption`: `TurnsAreCounted` (`ClockCounts`),
`ArrivalsAreSeen` (`ArrivalSeen`), `EventsAreCovered` (`EventCovered`) and
`AlarmsAreClocked` (`AlarmsMeetRunningClock`), for a turn of any length and a counter of
four to eight turns (2^32 is four). The assumption says that three latencies of a pass and
the time the PLL takes to lock come to less than a turn: some µs against 2^30. `PicoInv` has
five parts. `TypeInv`: the types and what is held at each place. `ClockInv`: alarm 1 is
armed for the end of the turn under way, or one turn has ended and the interrupt that counts
it is raised. `ArrivalInv`: alarm 0 meets the arrival, or the scheduler is on its way to arm
it. `EventInv`: the queue of timer events is sorted by the time left, a signed difference,
across the wrap of the counter; its head is covered by the alarm, by a pending interrupt or
by the code at work; and what is due has waited no longer than `Waited`, which is what keeps
the signed difference from turning over. `SleepInv`: where the PLL may be stopped, alarm 3
is armed `WakeUs` before every other. Alarms match only on equality, so each part follows an
alarm through the accesses between reading the counter, writing the alarm and reading the
counter again.

`PicoUARTProofs`, for any number of nodes, senders and bytes: `NeverStuck`
(`NothingStuck`), `NodesSafe` (the types and `NodesKept`) and `BuffersWhole`
(`WholeBuffers`). `Held` says when a sender and the handler have a node in hand, `Counted`
that index, size and bytes left agree with each other and with what the line has carried,
and `Awaited` who will raise or take the transmit interrupt while a buffer is half sent or
queued.

`CoreQueueProofs`, under `CoreQueueAssumption` (the length divides the range of the indices,
which is longer than the operations of a run; `NULL` is no item and no granule), for any
length, any depth of preemption on each core and any items: `CoreTypes`, `CoreAtomic` (the
queue of two cores implements `EventQueue`) and `CoreRests`. An operation is effected as its
index moves on, whoever moves it, so `CoreInv` speaks of the time in between. `Shape`: the
places between `Head` and `Tail` are full and the others empty, but for the store of an
operation whose index lags behind it. `Alone`: one operation lags at each end, since the
others find its place taken, or empty, and help first. `Knows`: as long as an index has not
moved since an operation read it, the bound it tested holds, and what it found in the place
tells it truly whether to store or to help. `Reserved` is why that survives a store of the
other core: a reservation that stands says that the place, or the index, is what it was at
the load; it is stated for the thread its core runs, since a preempting one leaves none.
`Counted`: an index moves at most once for each call, so that within `MaxCalls` none comes
round to where an operation read it: "the index is what it was" means that it has not moved,
and a call is refused only if the queue is full, or empty, as it tests (`RefusedIs`).
`CoreRests` needs `Owned` besides (an item is in one place, or with the one thread that is
to put it in) and makes each stretch between two rests a run of its own, as for the FIFO.

`SoftKernelProofs`, under `FirmAssumption` (the checks of `OSCreateTask`: M of K, a deadline
within the period): `Firm`, that `FirmGuarantee` holds for every M, K and period and any set of
tasks. `FirmInv` adds to the time kept (`TimeKept`) what the counters mean. `PatternKept`:
`nextMandatory` is the nearest mandatory number after the instance's own, by the code's
formula for the mandatory ones, and the flag that the next is mandatory says so.
`WindowKept`: what the last K releases were is told by their numbers. That M of any K numbers
in a row are mandatory is arithmetic (`Mandated` holds M numbers, one for each of 0 .. M - 1),
and that each release moves `instance` by one, whatever is skipped, dropped, promoted or
preempted, is a step per action.

Only model-checked: every other property of `SoftKernel`, those of `PowerAware` and `Stop2`,
and the bounds of the times in `LiveTasks!TypeOK`. Liveness everywhere (`WrittenIsRead3`,
`Served`, `OperationEnds`) is TLC's, since fairness and `ENABLED` are beyond
this prover. No recursive operator is used in the modules with theorems; what `InsertQueue`
does is proved from its definition by `CHOOSE`, not by induction.

## 5. What is not modelled

- *Weak memory order* between two cores: the barriers are taken to order the accesses as
  written. Whether they do is a question to the architecture's model.
- *Widths* below zero: the deadline of an instance that overruns for many turns is moved
  back by 2^30 at each. Times are integers here; that none exceeds its word is `TimesFit`.
- *The twins*: the timers, timer events and sleeps of the RP2350 and the STM32U3 differ
  from those modelled in registers, not in steps; the STM32 UART drivers (whose interrupt is
  a level, not an edge) and their own queue of timer events are not modelled.
- *STATIC_POWER_MANAGEMENT* and overruns in the power-aware kernel; its FIFO and buffers
  are the hard kernel's code.
- *Interrupt tables, clocks, voltage, `OSMalloc`, boot, the start of core 1*: constant
  tables, register sequences whose correctness is in datasheets, and code that runs once
  with nothing beside it.
- *Measurement and trace*: counters of optional builds that decide nothing in the kernel.
- *Tests, examples, emulation, tools*: read for what they claim, not modelled. They and the
  twins are the larger part of the repository's lines.

A quirk of the RP2040's gated sleep stays outside its properties: an alarm that fires
between two reads of `SleepGate` is served only when the PLL has locked, late by
`LockUs`. It is what the code's own margin accepts.

## 6. Findings

`hard_wrap`. The scheduler tests the overflow flag (`H:746`) and reads the time later
(`H:787`). If the counter passes 2^30 in between, an event-driven task released from the
list in that pass gets its deadline from a time of the new turn, and the next round of the
loop moves that deadline back by 2^30, to 0. It then runs before every periodic task and its
next instance may begin at once, where `docs/api.md:356` promises the workload as its
deadline and minimum interarrival time, and `docs/method.md:508-510` that the handler
releases nothing in that window. Tasks created live are guarded against it (`H:789-804`, and
the theorem `Arrivals` says that the guard suffices), event-driven ones are
not. `PeriodKept` in `hard` counts a period as the scheduler counted it, so that it says
what holds besides.

`soft_stale`. A context switch reads the task elected first and tests its state later. A
timer handler that comes in between may drop that task's optional instance and put the next
one behind the idle task: the switch still starts it and leaves its context on the stack,
where `S:948-951` says a dropped instance has nothing there.

`stop2_margin`. `OSSetStop2Wake` lets the margin grow to `OS_STOP2_MIN_US - 1`. The shortest
sleep is then shorter than a tick of LPTIM1 and its compare is behind the counter when it is
written: the sleep ends a round of LPTIM1, two seconds, later. With the default margin the
run `ports` shows that it never is.

`power_order`. A turn of the clock moves the release time of the periodic tasks of the
power-aware kernel's queues, but not that of an event-driven task that is ready. Ties of
deadlines are broken on these times, so that the simulation queue and the ready queue may
order a tie differently, where `PA:1796-1797` counts on an exact mimic.

`stop2_window`. `OSSetLPTimerCompare` sets a compare of 0xFFFF as 0xFFFE. `WindowSleep` looks
again after the slow write, for a window that ended meanwhile, and finds one tick left when the
count is 0xFFFE: the compare it sleeps on has just passed, the case the comment at
`Escapement_Stop2.c:263-264` says is closed. `SlowSleep` tests for two ticks and is free of it.

Two more are without a run of their own, and show as exceptions of what `variants` checks:

- under DM_SLACK a tick in an interrupted end is charged to the next task (`PA:856-857`), as
  section 2 says; the exception `charged` of `WorkCounted` is that case and no other;
- `SimulationCovers` is checked for periods one of which divides the other. Under DRA with
  periods 3 and 5 TLC finds the condition at `PA:828-841` looking only at the head of the ready
  queue. When the instance before of the arriving task ended early and still heads the
  simulation queue, while the head of the ready queue stays the active task,
  `DRASimQueueInsert` takes that instance out before `DRASimUpdateElapseTime` charges the
  elapsed time, which then falls to other tasks of the simulation, against the comment there.
  The effect is a speed higher than need be; no deadline was seen missed.

## 7. What is left

1. Proofs: the ready queue of `SoftKernel`, the compare of `Stop2`.
2. `PicoTimer` shown to refine the comparator of `HardKernel` as one specification, in
   place of the properties of each.
3. The STM32 UART and timer events; the queue between cores under a weaker memory order.
