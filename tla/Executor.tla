------------------------------ MODULE Executor ------------------------------
(***************************************************************************)
(* The completely fair executor of task/executor/mod.rs: the run queue of  *)
(* the boot CPU, its run() loop, spawn(), and the wake-ups that interrupt  *)
(* handlers and running tasks deliver through the async-task crate.        *)
(*                                                                         *)
(* Only the boot CPU ever calls Executor::run (the other CPUs end in       *)
(* kmain's halt loop), so there is one run loop; the queues of the other   *)
(* CPUs hold one idle task each and try_steal_tasks finds none with more   *)
(* than two running tasks.  A step of the model is one region executed     *)
(* under the run queue lock, or one outcome of a poll; an interrupt may    *)
(* wake a task between any two of them.                                    *)
(*                                                                         *)
(* Time slices (sched_slice) depend on weights and on nr_running through   *)
(* 64-bit fixed point arithmetic, which is module LoadWeight; here a slice *)
(* is any member of Slice, and the load of the queue, which only feeds     *)
(* sched_slice, is left out.                                               *)
(* Virtual runtimes are integers: the build is a release build, in which   *)
(* the usize difference wraps and is compared as isize.                    *)
(***************************************************************************)
EXTENDS Integers, FiniteSets

CONSTANTS
  Task,            \* every task of the run (SchedTask objects), idle included
  Idle,            \* the idle task of this CPU
  NoTask,          \* "no task": an empty slot, no current task
  NoTid,           \* "no tid": a task that has not been spawned
  Tid,             \* slots of the active_tasks arena
  Scale,           \* delta_fair of one time unit, per task: NICE_0_WEIGHT / weight
  Slice,           \* results of sched_slice
  Delta,           \* run times of one poll
  MaxRun,          \* bound: a task stops accumulating run time here
  Thresh,          \* SCHED_LATENCY >> 1
  MinGranularity,  \* SCHED_MIN_GRANULARITY
  UsizeMax         \* nr_running is a usize: it wraps below 0 to this value

ASSUME ExecutorAssumption ==
  /\ Idle \in Task
  /\ NoTask \notin Task
  /\ NoTid \notin Tid
  /\ Tid # {}
  /\ Scale \in [Task -> Nat \ {0}]
  /\ Slice \subseteq Nat
  /\ Delta \subseteq Nat
  /\ MaxRun \in Nat
  /\ Thresh \in Nat
  /\ MinGranularity \in Nat
  /\ UsizeMax \in Nat \ {0}

VARIABLES
  phase,         \* async-task: "new", "live", "completed" (COMPLETED)
  scheduled,     \* async-task: tasks whose SCHEDULED bit is set
  arena,         \* GlobalState.active_tasks: tid -> SchedTask
  tid,           \* SchedTask.tid
  on_rq,         \* SchedTask.on_rq
  vruntime,      \* SchedTask.vruntime
  sum_exec,      \* SchedTask.sum_exec_runtime (prev_sum_exec_runtime stays 0)
  queue,         \* RunQueue.ready_tasks: tid -> task whose Runnable it holds
  prio,          \* RunQueue.ready_tasks: tid -> ReadyTask.vruntime (0: no entry)
  current,       \* RunQueue.current_task
  min_vruntime,  \* RunQueue.min_vruntime
  nr_running,    \* RunQueue.nr_running
  pc,            \* where the boot CPU is in run()
  is_yielded     \* run(): the result of runnable.run()

taskVars == <<phase, scheduled, arena, tid, on_rq, vruntime, sum_exec>>
rqVars == <<queue, prio, current, min_vruntime, nr_running>>
vars == <<phase, scheduled, arena, tid, on_rq, vruntime, sum_exec,
          queue, prio, current, min_vruntime, nr_running, pc, is_yielded>>

Live == {t \in Task : phase[t] = "live"}

\* The tids in ready_tasks.
Queued(q) == {i \in Tid : q[i] # NoTask}

\* The task whose future is being polled (its RUNNING bit is set).
Polled(t) == pc = "poll" /\ current = t

Max2(a, b) == IF a >= b THEN a ELSE b
Min2(a, b) == IF a <= b THEN a ELSE b
-----------------------------------------------------------------------------
(***************************************************************************)
(* Operations of RunQueue and SchedTask.                                   *)
(***************************************************************************)

\* usize arithmetic of nr_running.
Inc(n) == IF n = UsizeMax THEN 0 ELSE n + 1
Dec(n) == IF n = 0 THEN UsizeMax ELSE n - 1

\* The entries PriorityQueue::peek may return: least vruntime first.
peek(q, p) == {i \in Queued(q) : \A j \in Queued(q) : p[i] <= p[j]}

delta_fair(t, delta_exec) == delta_exec * Scale[t]

\* RunQueue::insert_task: the current task is already counted.
insert_task(i) ==
  IF current # NoTask /\ tid[current] = i THEN nr_running ELSE Inc(nr_running)

\* Mutant of off_rq: on_rq is not cleared.
Mut_off_rq == on_rq

\* remove_task and the CallOnDrop guard mark the current task as off the queue.
off_rq == [on_rq EXCEPT ![current] = FALSE]

\* Mutant of update_min_vruntime: follows the current task, not the first entry.
Mut_update_min_vruntime(min, on, vr, q, p) ==
  {IF current # NoTask /\ on[current] THEN Max2(min, vr[current]) ELSE min}

(***************************************************************************)
(* RunQueue::update_min_vruntime, as the candidate values of min_vruntime  *)
(* (one value: all entries that peek may return have the same vruntime).   *)
(***************************************************************************)
update_min_vruntime(min, on, vr, q, p) ==
  LET own == IF current # NoTask /\ on[current] THEN vr[current] ELSE min
      least(i) == IF current = NoTask THEN p[i] ELSE Min2(own, p[i])
  IN  IF Queued(q) = {} THEN {Max2(min, own)}
                        ELSE {Max2(min, least(i)) : i \in peek(q, p)}

\* Mutant of schedule_fn: skips tasks that are marked on_rq.
Mut_schedule_fn_skip(t) ==
  /\ on_rq' = [on_rq EXCEPT ![t] = TRUE]
  /\ queue' = IF on_rq[t] THEN queue ELSE [queue EXCEPT ![tid[t]] = t]
  /\ nr_running' = insert_task(tid[t])
  /\ UNCHANGED <<vruntime, prio>>

(***************************************************************************)
(* SchedTask::schedule_fn: queue the Runnable of t.  The vruntime of the   *)
(* task is raised to min_vruntime - thresh if it is behind; its entry in   *)
(* ready_tasks is given min_vruntime - thresh in any case, however far     *)
(* ahead of that the task itself is.                                       *)
(***************************************************************************)
schedule_fn(t) ==
  LET placed == min_vruntime - Thresh
  IN  /\ on_rq' = [on_rq EXCEPT ![t] = TRUE]
      /\ vruntime' = [vruntime EXCEPT ![t] = Max2(vruntime[t], placed)]
      /\ queue' = [queue EXCEPT ![tid[t]] = t]
      /\ prio' = [prio EXCEPT ![tid[t]] = placed]
      /\ nr_running' = insert_task(tid[t])
-----------------------------------------------------------------------------
(***************************************************************************)
(* Executor::new has spawned the idle task; nothing has run yet.           *)
(***************************************************************************)
Init ==
  \E i \in Tid, s \in Slice :
    /\ phase = [t \in Task |-> IF t = Idle THEN "live" ELSE "new"]
    /\ scheduled = {Idle}
    /\ arena = [j \in Tid |-> IF j = i THEN Idle ELSE NoTask]
    /\ tid = [t \in Task |-> IF t = Idle THEN i ELSE NoTid]
    /\ on_rq = [t \in Task |-> t = Idle]
    /\ vruntime = [t \in Task |-> IF t = Idle THEN delta_fair(Idle, s) ELSE 0]
    /\ sum_exec = [t \in Task |-> 0]
    /\ queue = arena
    /\ prio = [j \in Tid |-> IF j = i THEN delta_fair(Idle, s) ELSE 0]
    /\ current = NoTask
    /\ min_vruntime = 0
    /\ nr_running = 1
    /\ pc = "boot"
    /\ is_yielded = FALSE

\* Mutant of next_vacant: a tid whose task is not queued is taken for vacant.
Mut_next_vacant(i) == queue[i] = NoTask

\* Arena::next_vacant: any slot without a task.
next_vacant(i) == arena[i] = NoTask

(***************************************************************************)
(* Executor::spawn, called by the boot code or by the task being polled.   *)
(* SpawnExtraOptions: without a parent the base is min_vruntime, with one  *)
(* (a fork) it is the parent's vruntime.  START_DEBIT is set.              *)
(***************************************************************************)
spawn(t, i, base, s) ==
  LET vr == Max2(base, min_vruntime + delta_fair(t, s))
  IN  /\ pc \in {"boot", "poll"}
      /\ phase[t] = "new"
      /\ next_vacant(i)
      /\ phase' = [phase EXCEPT ![t] = "live"]
      /\ scheduled' = scheduled \cup {t}
      /\ arena' = [arena EXCEPT ![i] = t]
      /\ tid' = [tid EXCEPT ![t] = i]
      /\ on_rq' = [on_rq EXCEPT ![t] = TRUE]
      /\ vruntime' = [vruntime EXCEPT ![t] = vr]
      /\ queue' = [queue EXCEPT ![i] = t]
      /\ prio' = [prio EXCEPT ![i] = vr]
      /\ nr_running' = insert_task(i)
      /\ UNCHANGED <<sum_exec, current, min_vruntime, pc, is_yielded>>

Spawn ==
  \E t \in Task, i \in Tid, s \in Slice :
    \/ spawn(t, i, min_vruntime, s)
    \/ current # NoTask /\ spawn(t, i, vruntime[current], s)

\* The boot code calls local_executor().run().
StartRun ==
  /\ pc = "boot"
  /\ pc' = "pop"
  /\ UNCHANGED <<taskVars, rqVars, is_yielded>>

(***************************************************************************)
(* pop_task_to_run: the tids it may choose.  With fewer than two running   *)
(* tasks, or no current task, it takes the first entry.  Otherwise the     *)
(* current task stays unless it is off the queue, has run longer than its  *)
(* slice, or is a slice ahead of the first entry; delta_exec is all the    *)
(* run time it ever had, since prev_sum_exec_runtime is never advanced.    *)
(***************************************************************************)
preempt_current(ideal_runtime) ==
  \/ ~on_rq[current]
  \/ sum_exec[current] > ideal_runtime
  \/ /\ sum_exec[current] >= MinGranularity
     /\ \E i \in peek(queue, prio) : vruntime[current] - prio[i] > ideal_runtime

next_tid(ideal_runtime) ==
  IF nr_running < 2 \/ current = NoTask THEN peek(queue, prio)
  ELSE IF preempt_current(ideal_runtime)
       THEN peek([queue EXCEPT ![tid[current]] = NoTask], prio)
       ELSE {tid[current]} \cap Queued(queue)

(***************************************************************************)
(* pop_task_to_run takes the Runnable out of ready_tasks and makes its     *)
(* task current; runnable.run() then clears SCHEDULED and starts the poll. *)
(***************************************************************************)
Pop ==
  /\ pc = "pop"
  /\ \E s \in Slice : \E i \in next_tid(s) :
       /\ arena[i] # NoTask
       /\ queue' = [queue EXCEPT ![i] = NoTask]
       /\ prio' = [prio EXCEPT ![i] = 0]
       /\ current' = arena[i]
       /\ scheduled' = scheduled \ {queue[i]}
  /\ pc' = "poll"
  /\ UNCHANGED <<phase, arena, tid, on_rq, vruntime, sum_exec,
                 min_vruntime, nr_running, is_yielded>>

\* One of the unwrap() calls of pop_task_to_run meets None: kernel panic.
PopPanics ==
  /\ pc = "pop"
  /\ \E s \in Slice :
       \/ next_tid(s) = {}
       \/ \E i \in next_tid(s) : arena[i] = NoTask
  /\ pc' = "panic"
  /\ UNCHANGED <<taskVars, rqVars, is_yielded>>

(***************************************************************************)
(* Waker::wake on a live task whose SCHEDULED bit is clear, from an        *)
(* interrupt handler or from the task being polled.  A running task is     *)
(* only marked; any other one is queued by schedule_fn.                    *)
(***************************************************************************)
Wake(t) ==
  /\ pc \in {"pop", "poll", "ret"}
  /\ t \in Live \ scheduled
  /\ scheduled' = scheduled \cup {t}
  /\ IF Polled(t) THEN UNCHANGED <<on_rq, vruntime, queue, prio, nr_running>>
                  ELSE schedule_fn(t)
  /\ UNCHANGED <<phase, arena, tid, sum_exec, current, min_vruntime,
                 pc, is_yielded>>

(***************************************************************************)
(* The poll returns Pending and runnable.run() returns whether the task    *)
(* was woken meanwhile, in which case it has queued it again.  yield_now   *)
(* is Wake of the task itself followed by this step.                       *)
(***************************************************************************)
PollPending ==
  /\ pc = "poll"
  /\ current = Idle => Idle \in scheduled        \* idle_task yields forever
  /\ is_yielded' = (current \in scheduled)
  /\ IF current \in scheduled
     THEN schedule_fn(current)
     ELSE UNCHANGED <<on_rq, vruntime, queue, prio, nr_running>>
  /\ pc' = "ret"
  /\ UNCHANGED <<phase, scheduled, arena, tid, sum_exec, current, min_vruntime>>

(***************************************************************************)
(* The future of the task returns: the CallOnDrop guard of spawn takes the *)
(* task off the queue and frees its tid.  current_task is kept, so         *)
(* remove_task counts the task as contained.                               *)
(***************************************************************************)
PollReady ==
  /\ pc = "poll"
  /\ current # Idle
  /\ phase' = [phase EXCEPT ![current] = "completed"]
  /\ scheduled' = scheduled \ {current}
  /\ arena' = [arena EXCEPT ![tid[current]] = NoTask]
  /\ on_rq' = off_rq
  /\ nr_running' = Dec(nr_running)
  /\ min_vruntime' \in update_min_vruntime(min_vruntime, on_rq', vruntime, queue, prio)
  /\ is_yielded' = FALSE
  /\ pc' = "ret"
  /\ UNCHANGED <<tid, vruntime, sum_exec, queue, prio, current>>

\* task_tick: account delta_exec, renew the priority, update min_vruntime.
task_tick(min, on, delta_exec) ==
  /\ sum_exec' = [sum_exec EXCEPT ![current] = @ + delta_exec]
  /\ vruntime' = [vruntime EXCEPT ![current] = @ + delta_fair(current, delta_exec)]
  /\ prio' = IF queue[tid[current]] = NoTask THEN prio
             ELSE [prio EXCEPT ![tid[current]] = vruntime'[current]]
  /\ min_vruntime' \in update_min_vruntime(min, on, vruntime', queue, prio')

(***************************************************************************)
(* run() takes the lock again.  A task that did not yield is removed, then *)
(* ticked.                                                                 *)
(***************************************************************************)
Return ==
  /\ pc = "ret"
  /\ is_yielded \/ queue[tid[current]] = NoTask
  /\ \E d \in Delta :
       /\ sum_exec[current] + d <= MaxRun
       /\ IF is_yielded
          THEN /\ UNCHANGED <<on_rq, nr_running>>
               /\ task_tick(min_vruntime, on_rq, d)
          ELSE /\ on_rq' = off_rq
               /\ nr_running' = Dec(nr_running)
               /\ \E m \in update_min_vruntime(min_vruntime, on_rq', vruntime, queue, prio) :
                    task_tick(m, on_rq', d)
  /\ pc' = "pop"
  /\ UNCHANGED <<phase, scheduled, arena, tid, queue, current, is_yielded>>

(***************************************************************************)
(* The task was woken after runnable.run() returned FALSE: remove_task     *)
(* drops its Runnable, which cancels the task and drops its future, whose  *)
(* CallOnDrop guard spins on the SchedTask lock that remove_task holds,    *)
(* with interrupts disabled.                                               *)
(***************************************************************************)
ReturnHangs ==
  /\ pc = "ret"
  /\ ~is_yielded
  /\ queue[tid[current]] # NoTask
  /\ on_rq' = off_rq
  /\ queue' = [queue EXCEPT ![tid[current]] = NoTask]
  /\ pc' = "hung"
  /\ UNCHANGED <<phase, scheduled, arena, tid, vruntime, sum_exec,
                 prio, current, min_vruntime, nr_running, is_yielded>>

Next ==
  \/ Spawn
  \/ StartRun
  \/ Pop
  \/ PopPanics
  \/ \E t \in Task : Wake(t)
  \/ PollPending
  \/ PollReady
  \/ Return
  \/ ReturnHangs

Spec == Init /\ [][Next]_vars
-----------------------------------------------------------------------------
\* The tasks that nr_running is to count: those in ready_tasks, and the
\* current one while it is on_rq.
counted == {t \in Task : \/ \E i \in Tid : queue[i] = t
                         \/ current = t /\ on_rq[t]}

(***************************************************************************)
(* Properties.                                                             *)
(***************************************************************************)

(* Type invariant of the scheduler state. *)
TypeOK ==
  /\ phase \in [Task -> {"new", "live", "completed"}]
  /\ scheduled \subseteq Task
  /\ arena \in [Tid -> Task \cup {NoTask}]
  /\ tid \in [Task -> Tid \cup {NoTid}]
  /\ on_rq \in [Task -> BOOLEAN]
  /\ vruntime \in [Task -> Int]
  /\ sum_exec \in [Task -> Nat]
  /\ queue \in [Tid -> Task \cup {NoTask}]
  /\ prio \in [Tid -> Int]
  /\ current \in Task \cup {NoTask}
  /\ min_vruntime \in Int
  /\ nr_running \in 0..UsizeMax
  /\ pc \in {"boot", "pop", "poll", "ret", "hung", "panic"}
  /\ is_yielded \in BOOLEAN
  /\ pc \in {"poll", "ret"} => current # NoTask

(* The arena and the queue agree: a tid in ready_tasks names a live task,  *)
(* the one whose Runnable is queued there, although tids are reused; so    *)
(* the lookup of a popped tid in active_tasks finds that very task.        *)
QueuedIsActive ==
  \A i \in Tid : queue[i] # NoTask =>
    /\ arena[i] = queue[i]
    /\ tid[queue[i]] = i
    /\ phase[queue[i]] = "live"

(* No wake-up is lost and none is duplicated: unless the CPU hung, the     *)
(* Runnable of a live task is in ready_tasks exactly when the task has     *)
(* been woken and is not being polled.                                     *)
WokenIffQueued ==
  pc # "hung" =>
    \A t \in Live : (\E i \in Tid : queue[i] = t) <=> (t \in scheduled /\ ~Polled(t))

(* "idle task always ready": whenever run() is about to pick a task, the   *)
(* idle task is in ready_tasks, and so is the current task if it is marked *)
(* on_rq, so the choice between them finds its entry.  An unwrap() of      *)
(* pop_task_to_run meets None only where nr_running is not the number of   *)
(* tasks it is to count.                                                   *)
ReadyToPop ==
  /\ pc = "pop" =>
       /\ \E i \in Tid : queue[i] = Idle
       /\ current # NoTask /\ on_rq[current] => queue[tid[current]] = current
  /\ pc = "panic" => nr_running # Cardinality(counted)

(* Where schedule_fn places a task: the entry of a task in ready_tasks is  *)
(* at most thresh before min_vruntime, so a sleeper is credited no more    *)
(* than half a latency, and never after the vruntime of the task, so no    *)
(* task is made to wait for time it has not used, however wake-ups, ticks  *)
(* and removals interleave.  It may be before the vruntime of the task:    *)
(* "ensure we never gain time by being placed backwards" holds of the      *)
(* task and not of its entry.                                              *)
SleeperCredit ==
  \A i \in Tid : queue[i] # NoTask =>
    /\ prio[i] >= min_vruntime - Thresh
    /\ prio[i] <= vruntime[queue[i]]

(* Neither min_vruntime nor the vruntime of a live task goes back, whatever *)
(* becomes of the entries: the maxima that update_min_vruntime and          *)
(* schedule_fn take.                                                        *)
TimeOnlyForward ==
  [][/\ min_vruntime' >= min_vruntime
     /\ \A t \in Task : phase[t] = "live" => vruntime'[t] >= vruntime[t]]_vars

(* "idle task always ready": the unwrap() calls of pop_task_to_run never   *)
(* meet an empty queue.                                                    *)
PopNeverPanics == pc # "panic"

(* "if it not yielded then remove it": what run() removes from the queue   *)
(* was not woken, so removing it drops no Runnable.                        *)
RemovesOnlyNotWoken == pc # "hung"
=============================================================================
