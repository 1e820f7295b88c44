# Queen OS in TLA+

Queen is a kernel for aarch64 written in Rust (`src/kernel/src`). Kernel tasks
and user threads are futures, polled by an executor with a fair run queue; a
user thread is a task that alternates between user mode and a trap handler.
This directory models the parts of the kernel that hold shared state, checks
them with TLC and proves the central invariants with TLAPS.

## 1. The system and its parts

| Part | Source (under `src/kernel/src`) | Module |
|---|---|---|
| Executor: run queue, run loop, wake-ups | `task/executor`, `task/future.rs` | `Executor` |
| Weights, slices and periods of the run queue | `task/executor` | `LoadWeight` |
| Event bus | `sync/event_bus.rs` | `EventBus` |
| Processes, threads, fork, clone, exit, wait4 | `process/`, `syscall/process.rs` | `Process` |
| Address spaces, memory handlers, frame allocator | `memory/`, `arch/aarch64/paging.rs` | `MemorySet`, `AddressSpace` |
| Checks of user buffers, choice of free areas | `memory/memory_set.rs` | `UserBuffer` |
| Clock, timer queue, nanosleep | `task/timer.rs`, `arch/aarch64/timer.rs`, `syscall/process.rs` | `Timer`, `Sleep` |
| Signals | `signal/`, `arch/aarch64/signal.rs` | `Sleep` |
| Terminal | `fs/devfs/tty.rs` | `Terminal` |
| Open files, descriptors | `fs/file.rs`, `syscall/fs.rs` | `FileTable` |
| Spin locks, interrupt masking, trap handler | `sync/spin.rs`, `arch/aarch64/interrupt` | `Interrupts` |
| GICv2, PL011, PL031 and timer drivers, boot of the first CPU | `drivers/`, `arch/aarch64/mod.rs` | `Interrupts` |
| Delays of kernel tasks, log lock | `task/timer.rs`, `logging.rs` | `Interrupts` |
| Dispatch of system calls | `syscall/mod.rs` | no state of its own |
| ELF loading, initial stack | `process/structs.rs`, `process/abi.rs` | inputs of `MemorySet` |
| Crates `aarch64`, `allocators`, `queen-fs`, `queen-syscall` | not in the tree | external |

How they interact:

- The **executor** polls tasks. A task is woken through its `Waker`, which
  calls `schedule_fn` and puts it back on the run queue. Interrupt handlers
  (timer, serial) and other tasks call wakers.
- An **event bus** belongs to each process and to the terminal. A waiting task
  subscribes a callback that calls its waker; `change` runs the callbacks.
- **Processes** use the bus for `wait4`; a thread that exits sets
  `PROCESS_QUIT` on its own bus and `CHILD_PROCESS_QUIT` on its parent's.
- An **address space** belongs to a process; fork clones it; a page fault of
  a thread goes to it, and a system call checks its buffers against it.
- A **sleeping thread** has an entry in the timer queue and a callback on the
  bus of its process; the timer interrupt and `send_signal` wake it.
- A **reader of the terminal** has a callback on the bus of the terminal, and
  holds the lock of its process while it waits.
- An **interrupt** comes between any two instructions at which the mask is
  open; its handler takes the locks of the controller's table, of the timer
  queue, of the serial port, and of the run queue of a task that it wakes.

Two facts shape all modules. Only the boot CPU runs an executor
(`async_test` never returns, the other CPUs wait for it). The future of a user
thread is polled under a lock that disables interrupts
(`PageTableSwitchWrapper::poll`). So what a thread does between two awaits is
one step, and interleaving happens at awaits; kernel tasks and the run loop
itself can be interrupted anywhere outside a lock.

The boot code of this version spawns kernel tasks only. Nothing in it creates
the first user process, installs a signal handler or an alternate stack, or
feeds the terminal; the modules of those parts take the functions of the kernel
as their contract and let a caller use them in any order.

## 2. Modules

### Executor

One run queue, an arena of tids, and the loop of `Executor::run` with a program
counter: `pop` (under the run queue lock), `poll` (the future runs), `ret` (the
lock is taken again). `Wake` may happen between any two steps: it is the
interrupt. The Task and Runnable of the async-task crate are the two variables
`phase` and `scheduled` (external). Variables bear the names of the fields:
`queue`/`prio` are `ready_tasks`, `arena` is `active_tasks`.

| Action | Code |
|---|---|
| `Spawn` | `Executor::spawn`, and the schedule of the new Runnable |
| `StartRun` | `async_test` calls `run` |
| `Pop`, `PopPanics` | `pop_task_to_run`, and its `unwrap` of an empty queue |
| `Wake` | a waker called from an interrupt or a running task |
| `PollPending`, `PollReady` | the poll returns; the `CallOnDrop` guard on completion |
| `Return`, `ReturnHangs` | the second half of `run`: tick or remove; the removal of a queued Runnable under its own lock |

Abstracted: `sched_slice` is any member of `Slice`; the load only feeds it and
is left out. `nr_running` keeps its width: it wraps at `UsizeMax`.

### LoadWeight

The arithmetic behind the slices, on top of `Executor`: `nice_to_weight`,
`inv_weight`, `calc_delta` (its two loops are `halvings`), `sched_period`,
`sched_slice`, `sched_vslice` and `delta_fair` (`weighted`). The width of the
fixed point numbers is the parameter `WMULT_SHIFT`, since TLC counts in 32
bits; nothing overflows twice that width, as nothing overflows 64 bits in the
code while the load fits 32 (the last product is taken in 128). Shifts are
products and quotients by `pow2`. The properties are about each queue that the
executor forms while `nr_running` is right (`CountRight`; run
`executor_pop_panics` shows that it need not be), for every choice of nice
levels of its tasks.

### EventBus and Process

`EventBus` has the operators `new`, `change`, `subscribe`, `ready`; `Process`
applies them to the bus of each process. A thread is `user`, `asleep` (its
`wait_for_event` is subscribed), `woken` or `done`.

| Action | Code |
|---|---|
| `Fork` | `Thread::fork`, `add_to_table`, `add_to_process_table`, spawn |
| `Clone` | `Thread::new_clone` |
| `Exit`, `ExitGroup` | `sys_exit`, `sys_exit_group` with `Process::exit` |
| `Wait`, `WaitHangs`, `WaitPanics` | entry of `sys_wait4` up to its await; `wait4` of the caller's own pid locks its process twice, of a pid below -1 is `unimplemented!()` |
| `Resume` | the poll after a wake-up: clear, look again, or subscribe again |

`Weak::upgrade` is modelled by who still holds an `Arc`. Tids are the lowest
free entries of `THREADS`, and pids are tids.

### MemorySet and AddressSpace

`MemorySet` has, for each space, a set of areas, a page table (page to entry)
and a root frame; the allocator is a set of free ids and memory a function from
frames to contents. The content of a page is one value. Actions: `New`,
`Push`/`PushPanics`, `Pop`/`PopPanics`, `PopWithSplit`, `Drop`, `Clone`, `Fault` (user
mode), `KernelFault`, `Store`. Each handler's `map`, `unmap`, `clone_map` and
`handle_page_fault` is part of the action that calls it.

Frames keep their physical number, which starts at `MEMORY_OFFSET`; `alloc`
adds it and `dealloc` does not subtract it, as in the code. The assumption
`Ram <= MEMORY_OFFSET` is the machine of the Makefile (1 GiB of memory at
1 GiB). The kernel image at the start of memory is left out of the numbering.
`pop_with_split` has no caller yet; it is modelled for ranges of whole pages,
as an munmap would pass.

`AddressSpace` is the abstract specification: spaces with pages that are mapped
or not and have a value; they are created, mapped, unmapped, written, forked
(the child starts with the same pages and shares none) and destroyed.
`MemorySet` implements it under the mapping `View`, in which a page that is not
present yet reads as zero, or as the file.

### UserBuffer

`check_read_array`, `check_write_array` (of an area and of a `MemorySet`) and
`find_free_area`, evaluated on every state of `MemorySet`. A buffer is a first
byte and a length. Empty buffers are left out: the code accepts one anywhere as
soon as the process has an area.

### Timer and Sleep

`Timer` has the clock (`read_ns`, whose product keeps its width) and the timer
queue as operators. `Sleep` is one process whose threads call `sys_nanosleep`
while signals arrive. A thread is `user`, `asleep`, `woken` or `done`. Its
registers are those that `handle_signal` or a system call writes, `x11` and
`x13`, which `from_tf` mixes up, and `rest` for all others; its signal frames are
a sequence.

| Action | Code |
|---|---|
| `Tick`, `TimerInterrupt` | the counter; `Timer::expire` from the interrupt |
| `Send` | `send_signal`, with the event on the bus |
| `Nanosleep`, `Resume` | `sys_nanosleep`, `SleepFuture::poll` first and again |
| `Trap`, `Deliver` | a return to user mode through `handle_signal`, one turn of its loop a step: `TakeDefault` (`SIG_DFL`, `SIG_IGN`), `TakeError` (`SIG_ERR` is `unimplemented!()`) or `EnterHandler` |

### Terminal and FileTable

`Terminal` has `push`, `pop` and the read future as operators. `FileTable` is a
process of two threads and its forked child, with descriptors that lead to the
terminal as `Thread::new_user` sets them up; descriptions are shared by `dup3`
and fork. Actions: `Push`, `PushIntr` (typing), `Read`, `Resume`, `Write`,
`Seek`, `Close`, `Dup3`, `Fork`, `Exit`, `ExitGroup`, `HandleSignal`, `Trap`,
`LookupPath` (any call with a path: it panics, `ROOT_INODE` is `todo!()`), and
`TrapHangs`, `WaitHangs`: another thread spins on the process lock that a
waiting reader holds, with interrupts off, for ever.

### Interrupts

The boot CPU from `interrupt::init` on. `pc` is the place of the interrupted
code (boot steps, run loop, kernel tasks A and B, idle task), `irq_pc` that of
`trap_handler`; `daif` is the mask, `held` what each guard of a `MutexNoIrq`
saved. Two kinds of lock leave the mask alone and are there as well: `locked` is
the `Mutex` around each `SchedTask`, which `schedule_fn` holds across the lock of
the run queue, and `writing` the `RwLock` of `active_tasks`. The registers of the GIC are sets of lines, the receive side of the PL011 is a FIFO
with its two interrupts. A step ends where a lock, a device or the mask is
touched. The hang of `Executor::run` that `executor_lost_task` shows is kept
(`EndHangs`). The early return for a spurious interrupt is there and cannot be
taken: with one CPU nobody else acknowledges the line.

## 3. Runs

| Run | Expect | Checks |
|---|---|---|
| `executor` | pass | `QueuedIsActive`, `WokenIffQueued`, `ReadyToPop`, `SleeperCredit`, `CalcDeltaExact`, `SlicesFair` |
| `executor_pop_panics` | violation | `PopNeverPanics` |
| `executor_lost_task` | violation | `RemovesOnlyNotWoken` |
| `process` | pass | `ThreadsListed`, `NoMissedEvent`, `SoleWaiterSees`, `TableComplete`, `ExitCodeKept`, `WaitReturns` |
| `process_survivors` | violation | `ExitIsFinal` |
| `process_child_lost` | violation | `ChildKept` |
| `process_two_waiters` | violation | `NoZombieAsleep` |
| `memory` | pass | `AreasDisjoint`, `TableMatches`, `OneOwner`, `PagingInvisible`, `IsAddressSpace`, `BuffersReachable`, `FreeAreaFound` |
| `memory_frames` | violation | `AllocatorHoldsRam` |
| `sleep` | pass | `SleepInv` (`TypeOK`, `SleeperArmed`), `FirstSignalWakes`, `PendingMatchesQueue`, `FramesUnwind`, `NotEarly`, `SleepEnds`, `SignalTaken` |
| `files` | pass | `FileInv` (`TypeOK`, `NoSleepOnInput`), `CharsInOrder`, `OffsetCounts`, `ExitedHoldsNothing`, `InputConsumed`, `IntrTaken` |
| `interrupts` | pass | `NoSelfDeadlock`, `MaskRestored`, `LinesReachable`, `CharNotStranded`, `EchoInOrder`, `MessageWhole`, `DelayExpires`, `TypedEchoed` |

The type invariants of the other modules, `NoPanic` of `Interrupts` and
`TimeOnlyForward` of `Executor` are proved (section 4) and are in no run.

What they show:

- **executor.** No wake-up is lost or duplicated, a tid in the queue names the
  task that the arena holds, the idle task is queued whenever the loop picks, and
  an entry of the queue is at most half a latency before the minimum and never
  later than the vruntime of its task.
  These hold although `nr_running` and `current_task` are stale after a task
  has completed; only where `nr_running` is wrong does `pop_task_to_run` panic.
  While the count is right, `calc_delta` is the quotient its
  documentation gives but for truncations and its shift stays positive, the
  slices of the queue fit the period, and every vruntime advances alike.
- **executor_pop_panics.** A completed task is counted out twice, `nr_running`
  wraps, and `pop_task_to_run` takes the branch for several tasks with only the
  idle task there.
- **executor_lost_task.** An interrupt wakes the task between the return of
  `runnable.run()` and the run queue lock; `remove_task` then drops its
  Runnable while it holds the lock of the task.
- **process.** Whatever is forked and cloned, tids stay unique to a process and
  nobody sleeps through its event. As long as no program has cloned a thread
  (`OneThreadEach`), `wait4` never sleeps on a zombie, returns when there is one,
  the table is complete, and exit codes are final.
- **process_survivors.** `Process::exit` says "Kill all threads"
  (`process/mod.rs:144`) and clears the list of threads; the others keep running
  after the exit of their process.
- **process_child_lost.** After `exit_group` the tid of a zombie is free; the
  next fork takes it and overwrites the zombie in `PROCESSES`.
- **process_two_waiters.** Of two threads in `wait4`, the first to run clears
  the event and the second sleeps on, next to a zombie.
- **memory.** Areas, page table and frames agree through every order of push,
  split, fork, fault and drop, also when the allocator is empty; demand paging
  is invisible, and fork copies. A system call accepts a buffer exactly when
  the program itself could use all of it, and `find_free_area` always finds a
  place.
- **memory_frames.** The first frame that is freed comes back as a number that
  is not RAM.
- **sleep.** A sleeper always has a timer entry and a callback, no sleep returns
  0 early, and a finite sleep ends, with equal deadlines, stale entries and
  wake-ups for nothing. The signal queue and the pending set agree, nested
  handlers can be undone frame by frame, which gives back the mask and every
  register but `x11`, and a signal for a thread in user mode is taken. `FirstSignalWakes` states how far a signal reaches a sleeper (see
  section 5).
- **files.** No reader sleeps on input, each character goes to one reader in
  order, shared offsets count all bytes although a reader waits between
  reading the offset and adding to it, and a process that exited opens nothing
  again. Input is consumed, and the SIGINT of INTR is taken by a thread that calls
  `Process::exit`, unless the CPU hangs on the lock of a waiting reader or the
  reader waits for ever.
- **interrupts.** No handler spins on a lock of the code it interrupted, neither
  on one whose guard closes the mask nor on the `SchedTask` that `schedule_fn`
  holds with the mask open: an interrupt may come there, but wakes only tasks
  that are not being scheduled. No character is lost, reordered
  or stuck in the FIFO although the write to ICR clears nothing; delays expire
  and characters are echoed, for which the lines must be enabled and routed.
  `LinesReachable` says exactly which lines are routed.

Each passing property has a mutant: a definition with a plausible mistake
(`Mut_...`, next to the definition it stands for) under which TLC finds the
property violated.

### Bounds

- Executor: two tasks and the idle task, three slots (a slot is reused as soon
  as a task completes), run times 0 to 2 per poll, and a cap `MaxRun = 2` on
  the run time of a task. `UsizeMax = 4` makes the counter wrap after few
  steps, as it does below zero at any width; `SleeperCredit` needs run times
  larger than `Thresh = 2`, which scaled tasks reach.
- Process: three processes, three threads, three tids, two exit codes. Reuse of
  a pid while its former owner is a zombie, and a process that waits for a child
  that forks, need three processes. The number of objects is the only cap: a run
  ends when all have been used.
- MemorySet: two spaces of two pages of two units, so that areas share a page,
  are adjacent, or are split; four frames, so that the allocator runs out; ids
  up to `MaxId = 4`; the allocator hands out the lowest id first (`FirstFit`),
  the specification allows any. Buffers are all of the non-empty ones in the
  user half.
- LoadWeight: fixed point numbers of 14 bits, nice levels -5, -1, 0, 5 and 19,
  up to three tasks; `SCHED_NR_LATENCY` is 2 instead of 8, so that three tasks
  stretch the period.
- Sleep: two threads; four ticks of a clock with two ticks to three
  nanoseconds, so that deadlines coincide and are rounded; two signals out of
  one that terminates, one ignored, one with `SIG_ERR`, one for a single thread
  and one real-time, the last two with handlers, so that handlers nest. `BoundAssumption` keeps
  the counter below the wrap of `read_ns`.
- FileTable: two threads and a child, three descriptors, two characters and one
  write, seek, close or `dup3`, beside reads, the fork and exits.
- Interrupts: the two kernel tasks and the idle task, a FIFO of two characters
  that interrupts when full or after the timeout, two characters typed, delays
  of one and two timer periods, the 288 lines of the `virt` board.

Deadlock is checked in `interrupts`, where time goes on whatever the CPU does, and
not in the others: programs may all exit, and a halted or hung kernel takes no step.

### Fairness

- `Process`: weak fairness of `Resume`, the executor polls a woken thread again.
  This rests on the executor's own properties (`WokenIffQueued`: a woken task is
  queued; `TimeOnlyForward`: virtual time of those that run grows). Programs
  need not make any call.
- `Sleep`: weak fairness of the clock and its interrupt, of `Resume`, and of
  `Trap` and `Deliver`: a thread in user mode is interrupted by the timer sooner
  or later and returns through `handle_signal`.
- `FileTable`: the same of `Resume`, `Trap` (which may hang) and `HandleSignal`.
  Nobody need type or read.
- `Interrupts`: weak fairness of the handler, of time and of the receive
  timeout. Strong fairness of `Main` and of the acknowledgement of the serial
  line: a handler is short beside a period of the timer, so the interrupted code
  gets its turn, and the timer is not due each time the serial line asks.

## 4. Proofs

All theorems hold for every value of the constants under the named assumptions.
`ExecutorAssumption`, `ProcessAssumption` and `TaskAssumption` only state types
and that the distinguished values are distinct; so does `FileAssumption`, with
the three standard descriptors among `Fd`. `MemoryAssumption` says that
there is no more RAM than `MEMORY_OFFSET` frames, `BoardAssumption` that the
devices have different lines and that the controller has them.
`SleepAssumption` says that the clock stays below its wrap (`BoundAssumption`)
and that no alternate stack is armed without `AUTODISARM` (`StackAssumption`,
section 5); the signals, their handlers and masks are arbitrary.
`WeightAssumption` says that the tasks are finitely many and that their load
fits `WMULT_SHIFT` bits, for any width: 32 bits hold 48,000 tasks of the
largest weight. The granularity and the number of tasks after which the period
is stretched are arbitrary. Each
inductive invariant was checked with TLC on the instance of the run first.

- `ExecutorProof!TypeCorrect`: `Spec => []TypeOK`, directly inductive.
- `ExecutorProof!SchedulerSafe`: `QueuedIsActive` and `WokenIffQueued`. Neither
  is inductive alone. `IInv` adds `ArenaInv` (live tasks and arena slots
  correspond one to one), `WakeInv` (a queued task is scheduled and not polled; a
  scheduled task is polled or queued under its own tid; the idle task is always
  one of these) and `RunInv` (what is known at each program counter).
  `QueueMatchesArena` states the first alone.
- `ExecutorProof!SleepersBounded`: `SleeperCredit`. Its first half (`EntryNotTooEarly`:
  no entry is more than `Thresh` before the minimum) is inductive with the fact
  that a task which yields is itself within `Thresh` of the minimum, and rests on
  the lemma `UpdateMin`: `min_vruntime` grows at most to the first entry. The
  second half (`EntryNotLate`: no entry is later than the vruntime of its task)
  needs the queue and the arena to agree (`IInv`).
- `ExecutorProof!VirtualTimeForward`: `TimeOnlyForward`, no step moves
  `min_vruntime` or the vruntime of a live task back.
- `ExecutorProof!AlwaysReady`: `ReadyToPop`, whose second conjunct says that
  `pop_task_to_run` panics only where `nr_running` is not the number of tasks it
  is to count (`counted`). `PopFinds`: where it is right, the branch for several
  tasks has an entry besides that of the current task; and the entries are
  bounded from below by `SleeperCredit`, so one of them is the first.
- `ExecutorProof!CountLostWhere`: exactly which steps make `nr_running` wrong
  (`Miscount`): the removal of a completed task, a wake-up of the task that
  `run()` has just removed, and the hang of `executor_lost_task`. It assumes
  finitely many tasks, no more than a `usize` counts. `CountInv` says who is
  marked `on_rq`; the lemmas `...Counts` say of each action how it changes
  `counted` and `nr_running`. The count is right at first, so a panic has one
  of the first two causes, and until a step of the three is taken the
  hypothesis `CountRight` of the properties below holds.
- `LoadWeightProof!DeltaIsQuotient`: for every run time, and every weight and load
  of `WMULT_SHIFT` bits, `calc_delta` is the quotient of its documentation, never
  more, and less by at most `short`; results that do not fit a `usize` aside,
  which the code cuts off. `DeltaExact`: `CalcDeltaExact`, and `SlicesShare`:
  `SlicesFair`, for any number of tasks and any nice levels. The induction is not
  over the steps of the executor but over the numbers and the queue:
  - `PowDef`, `PowSum`: what `pow2` is. `NatInduct` and `SetInduct` are the
    inductions over the naturals and over the subsets of a finite set; each takes
    its predicate as a set, which the provers can instantiate.
  - `HalvingsFacts`: a loop of `calc_delta` stops, at the first shift that fits.
    So both loops together shift by `WMULT_SHIFT` bits at most, and only a
    factor that is too large (`ScaledFacts`).
  - `DeltaFacts`: with that, three truncations (of the inverse, of the factor and
    of the result) cost at most `short`. `DeltaUpper` and `DeltaLower` are the
    arithmetic of it.
  - `TotalIsSum`: the load is the sum of the weights in any order. `SumBounds`
    and `SumRatio`: shares of a period, each rounded down, add up to the period
    at most. `Fitting` and `Fair` put these together.
- `ProcessProof!TypeCorrect`, `ProcessSafe` and `ListedThreads`: `TypeOK`,
  `ThreadsListed` and `NoMissedEvent`. The invariant adds `InTable` (a thread in
  `THREADS` is there under its own tid) and `Made` (threads belong to processes
  that have a pid; no process is its own parent, so `exit` changes two
  different buses). The lemmas `ChangeSet`, `ChangeClear` and `Subscribe` say
  what the operators of the event bus do to a bus of `wait4` callbacks.
- `ProcessProof!TableIsComplete`, `NoSleepOnZombie`, `ExitCodeFinal`:
  `TableComplete`, `SoleWaiterSees` and `ExitCodeKept`, each of which speaks of
  the time until a program clones a thread. `OInv` is `OneThreadEach => SInv`; a
  second thread never goes away (`OneThreadBefore`), so each step has `SInv` to
  start from. `SInv` adds `Single` (a process has one thread, with its pid as
  tid, which it lists while it runs) and `Family` (children name their parent; a
  woken thread still has its event). `Single` keeps a pid from being reused while
  the process runs and makes the waiting thread the only one that clears its
  event; without it the theorems are false, which is what `process_two_waiters`
  and `process_survivors` show.
- `MemorySetProof!TypeCorrect`, `DisjointAreas`, `TableAgrees`,
  `FramesOwnedOnce`: `TypeOK`, `AreasDisjoint`, `TableMatches`, `OneOwner`.
  `OneOwner` is not inductive since a freed frame comes back under another id.
  `OwnInv` counts a frame and an id as the same when they agree modulo
  `MEMORY_OFFSET`: each residue is held by one page or root table, or free, but
  never both. The lemmas `TakeOwn` and `GiveOwn` say that allocation and release
  keep this; with `Ram <= MEMORY_OFFSET` no two frames of RAM have the same
  residue.
  `SplitAreas` has the case analysis of `pop_with_split`.
- `MemorySetProof!ImplementsAddressSpace`: `Spec => IsAddressSpace`, the
  refinement, and `PagingUnseen`: `PagingInvisible`. `RInv` adds to the
  invariant that an entry which is not in use is not writable and that a
  read-only page of a file holds the file. With one owner for every frame a
  store changes one page of one space (`FrameOfPage`), and each action maps to a
  step of `AddressSpace` or to a stutter.
- `InterruptsProof`: `TypeCorrect`, `NoDeadlock`, `MaskKept`, `LinesRouted`,
  `NeverPanics`, `NotStranded`, `MessagesWhole`, for every set of tasks, board
  and input. `LockInv` makes them inductive: the locks held and the mask are a
  function of the places of the interrupted code and of the handler. `PlainInv`
  says the same of the locks that leave the mask alone, and that a task whose
  `SchedTask` is locked is marked as scheduled, so that no waker calls
  `schedule_fn` for it again. `LineInv` follows the registration of the lines
  through boot, and `Slice` works out which bytes of the target registers
  `implemented_itargets_slice` covers; `UartInv` says why each receive interrupt
  is up.
  `EchoOrdered` proves `EchoInOrder`
  through `EchoInv`, which states it character by character.

- `UserBufferProof!ChecksExact`: `BuffersReachable`, and `FreeAreaAlways`:
  `FreeAreaFound`. Both follow from the invariants of `MemorySetProof` in one
  state. The sum of `check_read_array` over a set of areas of any size is shown
  to be the number of bytes of the buffer in them (`SumExists`, `SumCounts`,
  `ReadCounts`): the areas are finitely many and share no byte. It reaches the
  length of the buffer at some area exactly when every byte is in an area
  (`AllBytesSeen`: the areas up to that of the last byte hold them all), and the
  page table agrees with the areas. The inductions on the number of areas are by
  least counterexample (`Least`, from the well-foundedness of `<`).
- `SleepProof!SleepersArmed`, `NotEarlyHolds`, `PendingMatches`: `SleepInv`,
  which is inductive as it stands, the action property `NotEarly`, and
  `PendingMatchesQueue`, inductive with `TypeOK`: a standard signal that is pending is
  not queued again, so taking it out of the queue takes its only entry.
  `FirstSignal`: `FirstSignalWakes`, with `Started` (before the first signal
  nothing is queued and the event is not set).
  `FramesKept`: `FramesUnwind`. It is not inductive: it does not say what is
  below the stack pointer, nor which signals are masked. `SavedRuns`,
  `ResultRuns` and `EnteredRuns` say what `from_tf`, the result of a system call
  and `set_signal_handler` do to the registers. `Unwinding` adds
  `InForce` (the registers in force are those of the newest frame's handler, and
  every frame lies above the stack pointer or on the other stack), `Masked` (the
  signal of each frame is still masked, so it does not interrupt itself) and
  `Stacked` (nothing is on the alternate stack while it is armed). The two
  stacks are told apart by their addresses modulo the size of a frame.
- `FileTableProof!ReadersWoken`: `FileInv`, inductive. `CharsKeptInOrder`:
  `CharsInOrder`, stated position by position (`InOrder`, `Numbered`), so that a
  read which moves the head of the buffer to the end of `got` changes no
  position. `OffsetsCount`: `OffsetCounts`. `ExitedStayEmpty`:
  `ExitedHoldsNothing`, with `Forked` (a child that has exited was forked
  before, so no later `fork` fills its table).

Only model-checked: liveness (`WaitReturns`, `SleepEnds`, `SignalTaken`,
`InputConsumed`, `IntrTaken`, `DelayExpires`, `TypedEchoed`),
which is beyond the prover under fairness. Every safety property that a passing
run checks is also a theorem.

## 5. Met while modelling

Besides the six violation runs, each about a line that the code does not keep to,
four comments say something else than the code does. What the code does instead
is stated exactly by a property that a passing run checks (and `findings` of
`PROJECT.json` names) or, for the clock, by a theorem:

- `task/executor/mod.rs:507`, "ensure we never gain time by being placed
  backwards". The maximum is taken for `task.vruntime`, but the entry of the
  queue gets `min_vruntime - thresh` even if the vruntime of the task is later:
  the task is placed backwards. `SleeperCredit` has both bounds of the entry.
- `drivers/serial/pl011_uart.rs:405`, "Clear all pending IRQs." The handler
  writes 0 to ICR, which clears none. Reading the FIFO is what quiets the line,
  and `CharNotStranded` shows that it suffices.
- `drivers/rtc/pl031.rs:103`, "Enable IRQ", above a write that disables it. The
  handler of the clock is `todo!()`, and `NoPanic` rests on the line staying quiet.
- `drivers/irq/gicv2/gicd.rs:138`, "Route all SPIs to the boot core". The slice of
  `implemented_itargets_slice` leaves out the last register, and the fields of
  `SharedRegisterBlock` before the array leave gaps, so that it lies at 0x774
  where the controller has its target registers from 0x820 on. With 288 lines
  those from 112 on are not routed. `LinesReachable` states which are, and
  `LinesRouted` proves it for every number of lines; the devices of the board are
  on lines below.

Other behaviours that the modules contain:

- `wait4` with the caller's own pid spins on its own lock (`WaitHangs`).
- `wait4` with a pid reaps any process, not only a child of the caller; a pid
  below -1 panics (`WaitPanics`).
- The first process does not list its first thread, and the exit of a thread it
  clones exits the process.
- `sys_exit` leaves the tid of the thread in `THREADS`.
- `insert_task` does not count a task that is woken after `run()` has removed it
  and before the next one is current: it still is `current_task`
  (`CountLostWhere`).
- A system call that writes to a user page which is not present yet stops the
  kernel (`KernelFault`).
- `check_read_array` accepts an empty buffer anywhere once the process has an
  area, and none before; `find_free_area` may answer beyond the user half.
- `RECEIVE_SIGNAL` is never cleared, so only the first signal changes the bus:
  a thread that sleeps when a later signal arrives sleeps on until its time is
  over (`FirstSignalWakes`).
- `read_ns` multiplies by 10^9 in 64 bits and starts again from zero after about
  295 seconds at 62.5 MHz; `Sleep` stays below that.
- The signal context takes `x11` from `x13`; `FramesUnwind` leaves `x11` out. An
  on-stack handler on a stack without `AUTODISARM` would have its frame
  overwritten by the next one; `StackAssumption` excludes it, since nothing sets
  up such a stack.
- A read from the terminal keeps the lock of the process across its await:
  any other trap of the process, a parent in `wait4` and INTR spin on it
  (`hung`). A read of length zero panics when there is input.
- `dup3` closes the target before it looks the source up.
- An appending write adds its length to the old offset; no descriptor with that
  option can exist while `open` panics.
- A `try_lock` that fails leaves interrupts off. Its one caller holds another
  such lock, whose guard opens them again.
- `AP_CAN_INIT` is stored after a call that never returns: the other CPUs wait
  for ever.

## 6. Not modelled

- Several executors with `try_steal_tasks`: no other CPU runs one in this
  version. A model would also bring the two lock orders of `schedule_fn` and
  `pop_task_to_run` against each other.
- The calls of `syscall/fs.rs` that look up a path: behind `ROOT_INODE`
  (`todo!()`) they are the external file system.
- ELF parsing and the bytes of the initial stack; the areas they create are
  inputs of `MemorySet`.
- Page tables below the root, the execute and device bits of entries, caches and
  TLBs; the linear mappings of the kernel, made once at boot.
- MMU and UART set-up beyond the interrupt registers, the transmit side of the
  serial port, GPIO, the text of logs, the device tree beyond the interrupt
  cells, and the GICv3 driver, which is not part of the build.
- The crates that are not in the tree. Whether the lock of the frame allocator
  closes the interrupt mask is decided in one of them, so `Interrupts` leaves
  that lock out.
