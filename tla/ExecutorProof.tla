---------------------------- MODULE ExecutorProof ----------------------------
(***************************************************************************)
(* Proofs about Executor, for every set of tasks, every arena and every    *)
(* choice of slices, run times and thresholds.                             *)
(***************************************************************************)
EXTENDS Executor, FiniteSetTheorems, TLAPS

(* delta_fair of a run time is a natural number: a tick never takes virtual *)
(* time away from a task.                                                   *)
LEMMA DeltaFairNat ==
  ASSUME NEW t \in Task, NEW d \in Nat
  PROVE  delta_fair(t, d) \in Nat
  BY ExecutorAssumption, SMT DEF delta_fair

(* update_min_vruntime yields an integer that is no smaller than the old    *)
(* minimum and, when it is larger, no larger than any entry of ready_tasks. *)
LEMMA UpdateMin ==
  ASSUME NEW min \in Int, NEW on, NEW vr \in [Task -> Int], NEW q,
         NEW p \in [Tid -> Int], current \in Task \cup {NoTask},
         NEW m \in update_min_vruntime(min, on, vr, q, p)
  PROVE  /\ m \in Int
         /\ m >= min
         /\ m > min => \A i \in Queued(q) : m <= p[i]
  <1> DEFINE own == IF current # NoTask /\ on[current] THEN vr[current] ELSE min
             least(i) == IF current = NoTask THEN p[i] ELSE Min2(own, p[i])
  <1>1. own \in Int
    BY Zenon
  <1>2. CASE Queued(q) = {}
    <2>1. m = Max2(min, own)
      BY <1>2, Zenon DEF update_min_vruntime
    <2> QED BY <1>1, <1>2, <2>1 DEF Max2
  <1>3. CASE Queued(q) # {}
    <2>1. PICK i \in peek(q, p) : m = Max2(min, least(i))
      BY <1>3, Zenon DEF update_min_vruntime
    <2>2. /\ p[i] \in Int
          /\ \A j \in Queued(q) : p[j] \in Int /\ p[i] <= p[j]
      BY <2>1, Zenon DEF peek, Queued
    <2>3. least(i) \in Int /\ least(i) <= p[i]
      BY <1>1, <2>2 DEF Min2
    <2> HIDE DEF least
    <2>4. m \in Int /\ m >= min /\ (m > min => m <= p[i])
      BY <2>1, <2>2, <2>3 DEF Max2
    <2> QED BY <2>2, <2>4
  <1> QED BY <1>2, <1>3, Zenon
(* pop_task_to_run only chooses tids that are in ready_tasks. *)
LEMMA NextTidQueued ==
  ASSUME TypeOK, NEW s, NEW i \in next_tid(s)
  PROVE  i \in Tid /\ queue[i] # NoTask
  <1> DEFINE others == [queue EXCEPT ![tid[current]] = NoTask]
  <1>1. Queued(others) \subseteq Queued(queue)
    BY Zenon DEF TypeOK, Queued
  <1>2. i \in peek(queue, prio) \/ i \in peek(others, prio) \/ i \in Queued(queue)
    BY Zenon DEF next_tid
  <1>3. i \in Queued(queue)
    BY <1>1, <1>2, Zenon DEF peek
  <1> QED BY <1>3, Zenon DEF Queued

(* schedule_fn keeps the variables it writes in their types. *)
LEMMA ScheduleType ==
  ASSUME TypeOK, NEW t \in Task, schedule_fn(t)
  PROVE  /\ on_rq' \in [Task -> BOOLEAN]
         /\ vruntime' \in [Task -> Int]
         /\ queue' \in [Tid -> Task \cup {NoTask}]
         /\ prio' \in [Tid -> Int]
         /\ nr_running' \in 0..UsizeMax
  <1>1. Thresh \in Nat /\ UsizeMax \in Nat \ {0}
    BY ExecutorAssumption, Zenon
  <1>2. insert_task(tid[t]) \in 0..UsizeMax
    BY <1>1 DEF TypeOK, insert_task, Inc
  <1>3. Max2(vruntime[t], min_vruntime - Thresh) \in Int
    BY <1>1 DEF TypeOK, Max2
  <1>4. vruntime' \in [Task -> Int]
    BY <1>3, Zenon DEF TypeOK, schedule_fn
  <1>5. prio' \in [Tid -> Int]
    <2>1. min_vruntime - Thresh \in Int
      BY <1>1 DEF TypeOK
    <2> QED BY <2>1, Zenon DEF TypeOK, schedule_fn
  <1>6. queue' \in [Tid -> Task \cup {NoTask}]
    BY Zenon DEF TypeOK, schedule_fn
  <1>7. on_rq' \in [Task -> BOOLEAN]
    BY Zenon DEF TypeOK, schedule_fn
  <1> QED BY <1>2, <1>4, <1>5, <1>6, <1>7, Zenon DEF schedule_fn
-----------------------------------------------------------------------------
(* The initial state has its types. *)
LEMMA InitType == Init => TypeOK
  <1> SUFFICES ASSUME NEW i \in Tid, NEW s \in Slice, Init!(i, s)
               PROVE  TypeOK
    BY Zenon DEF Init
  <1>1. delta_fair(Idle, s) \in Nat
    BY DeltaFairNat, ExecutorAssumption, Zenon
  <1>2. on_rq \in [Task -> BOOLEAN]
    BY Zenon
  <1>3. nr_running \in 0..UsizeMax
    BY ExecutorAssumption
  <1>4. vruntime \in [Task -> Int] /\ prio \in [Tid -> Int]
    BY <1>1
  <1>5. arena \in [Tid -> Task \cup {NoTask}] /\ queue \in [Tid -> Task \cup {NoTask}]
    BY ExecutorAssumption, Zenon
  <1>6. tid \in [Task -> Tid \cup {NoTid}] /\ sum_exec \in [Task -> Nat]
    BY Zenon
  <1>7. phase \in [Task -> {"new", "live", "completed"}]
    BY Zenon
  <1>8. scheduled \subseteq Task /\ current \in Task \cup {NoTask} /\ min_vruntime \in Int
    BY ExecutorAssumption
  <1>9. pc \in {"boot", "pop", "poll", "ret", "hung", "panic"} /\ is_yielded \in BOOLEAN
    BY Zenon
  <1> QED BY <1>2, <1>3, <1>4, <1>5, <1>6, <1>7, <1>8, <1>9, Zenon DEF TypeOK

(* Every action keeps every variable in its type. *)
LEMMA NextType == TypeOK /\ [Next]_vars => TypeOK'
  <1> SUFFICES ASSUME TypeOK, [Next]_vars PROVE TypeOK'
    BY Zenon
  <1> USE DEF TypeOK
  <1>1. CASE Spawn
    <2>1. PICK t \in Task, i \in Tid, s \in Slice, base \in Int : spawn(t, i, base, s)
      BY <1>1, Zenon DEF Spawn
    <2>2. delta_fair(t, s) \in Nat
      BY DeltaFairNat, ExecutorAssumption, Zenon
    <2>3. insert_task(i) \in 0..UsizeMax
      BY ExecutorAssumption DEF insert_task, Inc
    <2>4. Max2(base, min_vruntime + delta_fair(t, s)) \in Int
      BY <2>2 DEF Max2
    <2>5. vruntime' \in [Task -> Int] /\ prio' \in [Tid -> Int] /\ nr_running' \in 0..UsizeMax
      BY <2>1, <2>3, <2>4, Zenon DEF spawn
    <2>6. on_rq' \in [Task -> BOOLEAN] /\ phase' \in [Task -> {"new", "live", "completed"}]
      BY <2>1, Zenon DEF spawn
    <2>7. queue' \in [Tid -> Task \cup {NoTask}] /\ arena' \in [Tid -> Task \cup {NoTask}]
      BY <2>1, Zenon DEF spawn
    <2>8. tid' \in [Task -> Tid \cup {NoTid}] /\ scheduled' \subseteq Task
      BY <2>1, Zenon DEF spawn
    <2> QED BY <2>1, <2>5, <2>6, <2>7, <2>8, Zenon DEF spawn
  <1>2. CASE StartRun
    BY <1>2, Zenon DEF StartRun, taskVars, rqVars
  <1>3. CASE Pop
    <2>1. PICK s \in Slice : \E i \in next_tid(s) :
            /\ arena[i] # NoTask
            /\ queue' = [queue EXCEPT ![i] = NoTask]
            /\ prio' = [prio EXCEPT ![i] = 0]
            /\ current' = arena[i]
            /\ scheduled' = scheduled \ {queue[i]}
      BY <1>3, Zenon DEF Pop
    <2>2. PICK i \in next_tid(s) :
            /\ arena[i] # NoTask
            /\ queue' = [queue EXCEPT ![i] = NoTask]
            /\ prio' = [prio EXCEPT ![i] = 0]
            /\ current' = arena[i]
            /\ scheduled' = scheduled \ {queue[i]}
      BY <2>1, Zenon
    <2>3. i \in Tid
      BY NextTidQueued, Zenon
    <2>4. queue' \in [Tid -> Task \cup {NoTask}] /\ current' \in Task
      BY <2>2, <2>3, Zenon
    <2>5. prio' \in [Tid -> Int] /\ scheduled' \subseteq Task
      BY <2>2, <2>3
    <2> QED BY <1>3, <2>4, <2>5, ExecutorAssumption, Zenon DEF Pop
  <1>4. CASE PopPanics
    BY <1>4, Zenon DEF PopPanics, taskVars, rqVars
  <1>5. ASSUME NEW t \in Task, Wake(t) PROVE TypeOK'
    <2>1. scheduled' \subseteq Task
      BY <1>5, Zenon DEF Wake, Live
    <2>2. CASE Polled(t)
      BY <1>5, <2>1, <2>2, Zenon DEF Wake
    <2>3. CASE ~Polled(t)
      BY <1>5, <2>1, <2>3, ScheduleType, Zenon DEF Wake
    <2> QED BY <2>2, <2>3, Zenon
  <1>6. CASE PollPending
    <2>1. CASE current \in scheduled
      BY <1>6, <2>1, ScheduleType, Zenon DEF PollPending
    <2>2. CASE current \notin scheduled
      BY <1>6, <2>2 DEF PollPending
    <2> QED BY <2>1, <2>2, Zenon
  <1>7. CASE PollReady
    <2>1. min_vruntime' \in Int
      BY <1>7, UpdateMin, Zenon DEF PollReady
    <2>2. nr_running' \in 0..UsizeMax
      BY <1>7, ExecutorAssumption DEF PollReady, Dec
    <2> QED BY <1>7, <2>1, <2>2, Zenon DEF PollReady, off_rq
  <1>8. CASE Return
    <2>0. current \in Task
      BY <1>8, Zenon DEF Return
    <2>1. PICK d \in Delta, m \in Int : task_tick(m, on_rq', d)
      <3>1. CASE is_yielded
        BY <1>8, <3>1, Zenon DEF Return
      <3>2. CASE ~is_yielded
        BY <1>8, <3>2, UpdateMin, Zenon DEF Return
      <3> QED BY <3>1, <3>2, Zenon
    <2>2. nr_running' \in 0..UsizeMax
      BY <1>8, ExecutorAssumption DEF Return, Dec
    <2>3. on_rq' \in [Task -> BOOLEAN]
      BY <1>8, Zenon DEF Return, off_rq
    <2>4. d \in Nat
      BY ExecutorAssumption, Zenon
    <2>5. sum_exec' \in [Task -> Nat]
      <3>1. sum_exec[current] + d \in Nat
        BY <2>0, <2>4
      <3> QED BY <2>0, <2>1, <3>1, Zenon DEF task_tick
    <2>6. vruntime' \in [Task -> Int]
      <3>1. vruntime[current] + delta_fair(current, d) \in Int
        BY <2>0, <2>4, DeltaFairNat
      <3> QED BY <2>0, <2>1, <3>1, Zenon DEF task_tick
    <2>7. prio' \in [Tid -> Int]
      <3>1. vruntime'[current] \in Int
        BY <2>0, <2>6, Zenon
      <3> QED BY <2>1, <3>1, Zenon DEF task_tick
    <2>8. min_vruntime' \in Int
      BY <2>1, <2>6, <2>7, UpdateMin, Zenon DEF task_tick
    <2> QED BY <1>8, <2>2, <2>3, <2>5, <2>6, <2>7, <2>8, Zenon DEF Return
  <1>9. CASE ReturnHangs
    BY <1>9, Zenon DEF ReturnHangs, off_rq
  <1>10. CASE UNCHANGED vars
    BY <1>10, Zenon DEF vars
  <1> QED
    BY <1>1, <1>2, <1>3, <1>4, <1>5, <1>6, <1>7, <1>8, <1>9, <1>10, Zenon DEF Next

(* Type correctness of the scheduler: every action keeps every variable in  *)
(* its type, min_vruntime included, whichever entry update_min_vruntime     *)
(* follows.                                                                 *)
THEOREM TypeCorrect == Spec => []TypeOK
  BY InitType, NextType, PTL DEF Spec
-----------------------------------------------------------------------------
(***************************************************************************)
(* The inductive invariant behind QueuedIsActive, WokenIffQueued and       *)
(* ReadyToPop.  None of the three is inductive alone: that a woken task is *)
(* found in ready_tasks under its own tid needs live tasks to have         *)
(* distinct slots of the arena, that a queued task is not being polled     *)
(* needs the SCHEDULED bit, and that the idle task is queued needs it to   *)
(* be woken before each of its polls ends.                                 *)
(***************************************************************************)
ArenaInv ==
  /\ \A i \in Tid : arena[i] # NoTask => phase[arena[i]] = "live" /\ tid[arena[i]] = i
  /\ \A t \in Task : phase[t] = "live" => tid[t] \in Tid /\ arena[tid[t]] = t
  /\ current # NoTask => tid[current] \in Tid

WakeInv ==
  /\ \A t \in scheduled : phase[t] = "live"
  /\ \A i \in Tid : queue[i] # NoTask =>
        arena[i] = queue[i] /\ queue[i] \in scheduled /\ ~Polled(queue[i])
  /\ pc # "hung" => \A t \in scheduled : Polled(t) \/ queue[tid[t]] = t
  /\ phase[Idle] = "live" /\ (Idle \in scheduled \/ Polled(Idle))

RunInv ==
  /\ pc = "boot" => current = NoTask
  /\ pc = "poll" => phase[current] = "live"
  /\ pc = "ret" /\ is_yielded => current \in scheduled
  /\ pc = "pop" /\ current # NoTask /\ on_rq[current] => queue[tid[current]] = current

IInv == TypeOK /\ ArenaInv /\ WakeInv /\ RunInv

(* The invariant holds when Executor::new has queued the idle task. *)
LEMMA InitIInv == Init => IInv
  <1> SUFFICES ASSUME Init PROVE ArenaInv /\ WakeInv /\ RunInv
    BY InitType, Zenon DEF IInv
  <1>1. PICK i \in Tid :
          /\ phase = [t \in Task |-> IF t = Idle THEN "live" ELSE "new"]
          /\ scheduled = {Idle}
          /\ arena = [j \in Tid |-> IF j = i THEN Idle ELSE NoTask]
          /\ tid = [t \in Task |-> IF t = Idle THEN i ELSE NoTid]
          /\ queue = arena
          /\ current = NoTask
          /\ pc = "boot"
    BY Zenon DEF Init
  <1> QED BY <1>1, ExecutorAssumption, Zenon DEF ArenaInv, WakeInv, RunInv, Polled

(* spawn keeps it: the new task gets a slot that no live task has. *)
LEMMA SpawnIInv ==
  ASSUME IInv, TypeOK', Spawn
  PROVE  IInv'
  <1> USE ExecutorAssumption DEF IInv, TypeOK
  <1>1. PICK t \in Task, i \in Tid, s \in Slice, base \in Int : spawn(t, i, base, s)
    BY Zenon DEF Spawn
  <1>2. /\ pc' = pc /\ current' = current /\ pc \in {"boot", "poll"} /\ arena[i] = NoTask
        /\ phase[t] = "new" /\ phase' = [phase EXCEPT ![t] = "live"]
        /\ scheduled' = scheduled \cup {t}
        /\ arena' = [arena EXCEPT ![i] = t] /\ tid' = [tid EXCEPT ![t] = i]
        /\ queue' = [queue EXCEPT ![i] = t]
    BY <1>1, Zenon DEF spawn, next_vacant
  <1>3. ArenaInv'
    BY <1>2 DEF ArenaInv
  <1>4. WakeInv'
    <2>1. pc = "poll" => current # t
      BY <1>2, Zenon DEF RunInv
    <2>2. \A u \in scheduled : u # t /\ tid'[u] = tid[u] /\ tid[u] # i /\ tid[u] \in Tid
      BY <1>2 DEF WakeInv, ArenaInv
    <2> QED BY <1>2, <2>1, <2>2 DEF WakeInv, Polled
  <1>5. RunInv'
    BY <1>2 DEF RunInv
  <1> QED BY <1>3, <1>4, <1>5, Zenon

(* Pop keeps it: the popped task is live, was scheduled and is now polled. *)
LEMMA PopIInv ==
  ASSUME IInv, TypeOK', Pop
  PROVE  IInv'
  <1> USE ExecutorAssumption DEF IInv, TypeOK
  <1>1. PICK s \in Slice : \E i \in next_tid(s) :
          /\ queue' = [queue EXCEPT ![i] = NoTask]
          /\ current' = arena[i]
          /\ scheduled' = scheduled \ {queue[i]}
    BY Zenon DEF Pop
  <1>2. PICK i \in next_tid(s) :
          /\ queue' = [queue EXCEPT ![i] = NoTask]
          /\ current' = arena[i]
          /\ scheduled' = scheduled \ {queue[i]}
    BY <1>1, Zenon
  <1>3. i \in Tid /\ queue[i] # NoTask
    BY NextTidQueued, Zenon
  <1>4. /\ pc = "pop" /\ pc' = "poll" /\ phase' = phase /\ arena' = arena /\ tid' = tid
    BY Zenon DEF Pop
  <1>5. /\ arena[i] = queue[i] /\ queue[i] \in Task
        /\ phase[queue[i]] = "live" /\ tid[queue[i]] = i
    BY <1>3, Zenon DEF WakeInv, ArenaInv
  <1>6. ArenaInv'
    BY <1>2, <1>3, <1>4, <1>5, Zenon DEF ArenaInv
  <1>7. WakeInv'
    <2>1. \A j \in Tid : j # i /\ queue[j] # NoTask => queue[j] # queue[i]
      BY <1>3, <1>5 DEF WakeInv, ArenaInv
    <2>2. \A u \in scheduled : u # queue[i] => tid[u] # i
      BY <1>3, <1>5 DEF WakeInv, ArenaInv
    <2> QED BY <1>2, <1>3, <1>4, <1>5, <2>1, <2>2, SMTT(30), Zenon DEF WakeInv, Polled
  <1>8. RunInv'
    BY <1>2, <1>4, <1>5, Zenon DEF RunInv
  <1> QED BY <1>6, <1>7, <1>8, Zenon

(* Wake keeps it: the woken task is queued under its own tid, unless it is  *)
(* being polled.                                                            *)
LEMMA WakeIInv ==
  ASSUME IInv, TypeOK', NEW t \in Task, Wake(t)
  PROVE  IInv'
  <1> USE ExecutorAssumption DEF IInv, TypeOK
  <1>1. /\ phase' = phase /\ arena' = arena /\ tid' = tid /\ current' = current /\ pc' = pc
        /\ scheduled' = scheduled \cup {t} /\ is_yielded' = is_yielded
        /\ phase[t] = "live" /\ t \notin scheduled /\ pc # "hung"
    BY Zenon DEF Wake, Live
  <1>2. ArenaInv'
    BY <1>1, Zenon DEF ArenaInv
  <1>3. CASE Polled(t)
    <2>1. queue' = queue /\ on_rq' = on_rq
      BY <1>3, Zenon DEF Wake
    <2> QED BY <1>1, <1>2, <1>3, <2>1, Zenon DEF WakeInv, RunInv, Polled
  <1>4. CASE ~Polled(t)
    <2>1. queue' = [queue EXCEPT ![tid[t]] = t] /\ on_rq' = [on_rq EXCEPT ![t] = TRUE]
      BY <1>4, Zenon DEF Wake, schedule_fn
    <2>2. tid[t] \in Tid /\ arena[tid[t]] = t
      BY <1>1, Zenon DEF ArenaInv
    <2>3. \A u \in Task : phase[u] = "live" /\ u # t => tid[u] # tid[t]
      BY <2>2, Zenon DEF ArenaInv
    <2>4. WakeInv'
      BY <1>1, <1>4, <2>1, <2>2, <2>3 DEF WakeInv, Polled
    <2>5. RunInv'
      BY <1>1, <1>4, <2>1, <2>2, <2>3 DEF RunInv, WakeInv, ArenaInv
    <2> QED BY <1>2, <2>4, <2>5, Zenon
  <1> QED BY <1>3, <1>4, Zenon

(* PollPending keeps it: a task woken during its poll is queued again. *)
LEMMA PollPendingIInv ==
  ASSUME IInv, TypeOK', PollPending
  PROVE  IInv'
  <1> USE ExecutorAssumption DEF IInv, TypeOK
  <1>1. /\ phase' = phase /\ arena' = arena /\ tid' = tid /\ current' = current
        /\ scheduled' = scheduled /\ pc = "poll" /\ pc' = "ret" /\ current \in Task
        /\ is_yielded' = (current \in scheduled)
        /\ current = Idle => Idle \in scheduled
    BY Zenon DEF PollPending
  <1>2. ArenaInv'
    BY <1>1, Zenon DEF ArenaInv
  <1>3. RunInv'
    BY <1>1, Zenon DEF RunInv
  <1>4. CASE current \in scheduled
    <2>1. queue' = [queue EXCEPT ![tid[current]] = current]
      BY <1>4, Zenon DEF PollPending, schedule_fn
    <2>2. tid[current] \in Tid /\ arena[tid[current]] = current
      BY <1>1, Zenon DEF ArenaInv, RunInv
    <2>3. \A u \in scheduled : u # current => tid[u] # tid[current]
      BY <2>2 DEF ArenaInv, WakeInv
    <2>4. WakeInv'
      BY <1>1, <1>4, <2>1, <2>2, <2>3 DEF WakeInv, Polled
    <2> QED BY <1>2, <1>3, <2>4, Zenon
  <1>5. CASE current \notin scheduled
    <2>1. queue' = queue
      BY <1>5, Zenon DEF PollPending
    <2>2. WakeInv'
      BY <1>1, <1>5, <2>1, Zenon DEF WakeInv, Polled
    <2> QED BY <1>2, <1>3, <2>2, Zenon
  <1> QED BY <1>4, <1>5, Zenon

(* PollReady keeps it: the slot that the guard frees held the polled task.  *)
LEMMA PollReadyIInv ==
  ASSUME IInv, TypeOK', PollReady
  PROVE  IInv'
  <1> USE ExecutorAssumption DEF IInv, TypeOK
  <1>1. /\ pc = "poll" /\ pc' = "ret" /\ current' = current /\ current \in Task
        /\ current # Idle /\ tid' = tid /\ queue' = queue /\ ~is_yielded'
        /\ phase' = [phase EXCEPT ![current] = "completed"]
        /\ scheduled' = scheduled \ {current}
        /\ arena' = [arena EXCEPT ![tid[current]] = NoTask]
    BY Zenon DEF PollReady
  <1>2. tid[current] \in Tid /\ arena[tid[current]] = current
    BY <1>1, Zenon DEF ArenaInv, RunInv
  <1>3. \A u \in Task : phase[u] = "live" /\ u # current => tid[u] # tid[current]
    BY <1>2, Zenon DEF ArenaInv
  <1>4. ArenaInv'
    BY <1>1, <1>2, <1>3 DEF ArenaInv
  <1>5. WakeInv'
    <2>1. \A i \in Tid : queue[i] # NoTask => i # tid[current] /\ queue[i] # current
      BY <1>1, <1>2 DEF WakeInv, Polled
    <2> QED BY <1>1, <1>2, <1>3, <2>1, SMTT(30), Zenon DEF WakeInv, Polled
  <1>6. RunInv'
    BY <1>1, Zenon DEF RunInv
  <1> QED BY <1>4, <1>5, <1>6, Zenon

(* Return keeps it: a task that did not yield is marked off the queue. *)
LEMMA ReturnIInv ==
  ASSUME IInv, TypeOK', Return
  PROVE  IInv'
  <1> USE ExecutorAssumption DEF IInv, TypeOK
  <1>1. /\ pc = "ret" /\ pc' = "pop" /\ current' = current /\ current \in Task
        /\ phase' = phase /\ scheduled' = scheduled /\ arena' = arena /\ tid' = tid
        /\ queue' = queue /\ is_yielded' = is_yielded
    BY Zenon DEF Return
  <1>2. ~is_yielded => on_rq' = [on_rq EXCEPT ![current] = FALSE]
    BY SMTT(30), Zenon DEF Return, off_rq
  <1>3. ArenaInv' /\ WakeInv'
    BY <1>1, Zenon DEF ArenaInv, WakeInv, Polled
  <1>4. RunInv'
    BY <1>1, <1>2 DEF RunInv, WakeInv, Polled
  <1> QED BY <1>3, <1>4, Zenon

(* Every step keeps the invariant. *)
LEMMA NextIInv == IInv /\ [Next]_vars => IInv'
  <1> SUFFICES ASSUME IInv, [Next]_vars PROVE IInv'
    BY Zenon
  <1>1. TypeOK'
    BY NextType, Zenon DEF IInv
  <1>2. CASE StartRun
    BY <1>1, <1>2, Zenon DEF StartRun, taskVars, rqVars, IInv, ArenaInv, WakeInv, RunInv, Polled
  <1>3. CASE PopPanics
    BY <1>1, <1>3, Zenon
       DEF PopPanics, taskVars, rqVars, IInv, ArenaInv, WakeInv, RunInv, Polled
  <1>4. CASE ReturnHangs
    <2>1. /\ pc' = "hung" /\ pc = "ret" /\ phase' = phase /\ scheduled' = scheduled
          /\ arena' = arena /\ tid' = tid /\ current' = current
          /\ queue' = [queue EXCEPT ![tid[current]] = NoTask]
      BY <1>4, Zenon DEF ReturnHangs
    <2>2. ArenaInv' /\ RunInv'
      BY <2>1, Zenon DEF IInv, ArenaInv, RunInv
    <2>3. WakeInv'
      BY <2>1, SMTT(30), Zenon DEF IInv, TypeOK, WakeInv, Polled
    <2> QED BY <1>1, <2>2, <2>3, Zenon DEF IInv
  <1>5. CASE UNCHANGED vars
    BY <1>1, <1>5, Zenon DEF vars, IInv, ArenaInv, WakeInv, RunInv, Polled
  <1> QED
    BY <1>1, <1>2, <1>3, <1>4, <1>5, SpawnIInv, PopIInv, WakeIInv, PollPendingIInv,
       PollReadyIInv, ReturnIInv, Zenon DEF Next

LEMMA QueuedActive == IInv => QueuedIsActive
  BY DEF IInv, TypeOK, ArenaInv, WakeInv, QueuedIsActive

(* The scheduler neither mixes up tasks nor loses or duplicates a wake-up:  *)
(* QueuedIsActive and WokenIffQueued always hold.                           *)
THEOREM SchedulerSafe == Spec => [](QueuedIsActive /\ WokenIffQueued)
  <1>1. IInv => QueuedIsActive
    BY QueuedActive, Zenon
  <1>2. IInv => WokenIffQueued
    BY ExecutorAssumption DEF IInv, TypeOK, ArenaInv, WakeInv, WokenIffQueued, Live
  <1> QED BY <1>1, <1>2, InitIInv, NextIInv, PTL DEF Spec

(* A tid popped from ready_tasks is found in active_tasks as the live task  *)
(* whose Runnable it stands for, however tids are reused.                   *)
THEOREM QueueMatchesArena == Spec => []QueuedIsActive
  BY SchedulerSafe, PTL
-----------------------------------------------------------------------------
(***************************************************************************)
(* Virtual time.  The lower bound of SleeperCredit is inductive together   *)
(* with the fact that a task which yields has itself been placed within    *)
(* thresh of the minimum: its entry takes over the vruntime of the task at *)
(* the tick.  The upper bound needs that no two entries are of one task.   *)
(***************************************************************************)
EntryNotTooEarly == \A i \in Tid : queue[i] # NoTask => prio[i] >= min_vruntime - Thresh

EntryNotLate == \A i \in Tid : queue[i] # NoTask => prio[i] <= vruntime[queue[i]]

CreditInv ==
  /\ EntryNotTooEarly
  /\ pc = "ret" /\ is_yielded => vruntime[current] >= min_vruntime - Thresh

(* What Return does to virtual time, in both of its branches. *)
LEMMA ReturnTime ==
  ASSUME TypeOK, TypeOK', Return
  PROVE  /\ current \in Task
         /\ \E d \in Nat : vruntime' = [vruntime EXCEPT ![current] = @ + d]
         /\ prio' = IF queue[tid[current]] = NoTask THEN prio
                    ELSE [prio EXCEPT ![tid[current]] = vruntime'[current]]
         /\ min_vruntime' >= min_vruntime
         /\ min_vruntime' > min_vruntime =>
              \A i \in Queued(queue) : min_vruntime' <= prio'[i]
         /\ is_yielded \/ queue[tid[current]] = NoTask
  <1> USE DEF TypeOK
  <1>1. current \in Task
    BY Zenon DEF Return
  <1>2. PICK d \in Delta, m \in Int :
          /\ task_tick(m, on_rq', d)
          /\ m >= min_vruntime
          /\ m > min_vruntime => ~is_yielded /\ \A i \in Queued(queue) : m <= prio[i]
    <2>1. CASE is_yielded
      <3>1. PICK d \in Delta : task_tick(min_vruntime, on_rq, d) /\ on_rq' = on_rq
        BY <2>1, Zenon DEF Return
      <3> QED BY <3>1
    <2>2. CASE ~is_yielded
      <3>1. PICK d \in Delta :
              \E m \in update_min_vruntime(min_vruntime, on_rq', vruntime, queue, prio) :
                task_tick(m, on_rq', d)
        BY <2>2, Zenon DEF Return
      <3>2. PICK m \in update_min_vruntime(min_vruntime, on_rq', vruntime, queue, prio) :
                task_tick(m, on_rq', d)
        BY <3>1, Zenon
      <3>3. /\ m \in Int /\ m >= min_vruntime
            /\ m > min_vruntime => \A i \in Queued(queue) : m <= prio[i]
        BY UpdateMin, Zenon
      <3> QED BY <2>2, <3>2, <3>3, Zenon
    <2> QED BY <2>1, <2>2, Zenon
  <1>3. delta_fair(current, d) \in Nat
    BY <1>1, DeltaFairNat, ExecutorAssumption, Zenon
  <1>4. /\ min_vruntime' >= m
        /\ min_vruntime' > m => \A i \in Queued(queue) : min_vruntime' <= prio'[i]
    <2>1. min_vruntime' \in update_min_vruntime(m, on_rq', vruntime', queue, prio')
      BY <1>2, Zenon DEF task_tick
    <2> QED BY <2>1, UpdateMin, Zenon
  <1>5. vruntime' = [vruntime EXCEPT ![current] = @ + delta_fair(current, d)]
    BY <1>2, Zenon DEF task_tick
  <1>6. prio' = IF queue[tid[current]] = NoTask THEN prio
                ELSE [prio EXCEPT ![tid[current]] = vruntime'[current]]
    BY <1>2, Zenon DEF task_tick
  <1>7. is_yielded \/ queue[tid[current]] = NoTask
    BY SMTT(30), Zenon DEF Return
  <1>8. min_vruntime' > min_vruntime => \A i \in Queued(queue) : min_vruntime' <= prio'[i]
    <2>1. CASE min_vruntime' > m
      BY <1>4, <2>1, Zenon
    <2>2. CASE min_vruntime' = m
      BY <1>2, <1>6, <1>7, <2>2, Zenon
    <2> QED BY <1>4, <2>1, <2>2
  <1>9. min_vruntime' >= min_vruntime
    BY <1>2, <1>4, SMTT(30), Zenon
  <1> QED BY <1>1, <1>3, <1>5, <1>6, <1>7, <1>8, <1>9, Zenon

(* Every step keeps the credit of sleepers bounded. *)
LEMMA NextCredit == IInv /\ CreditInv /\ [Next]_vars => CreditInv'
  <1> SUFFICES ASSUME IInv, CreditInv, [Next]_vars PROVE CreditInv'
    BY SMTT(30), Zenon
  <1> USE ExecutorAssumption DEF IInv, TypeOK, CreditInv, EntryNotTooEarly
  <1>0. TypeOK'
    BY NextType, Zenon
  <1>1. CASE Spawn
    <2>1. PICK t \in Task, i \in Tid, s \in Slice, base \in Int : spawn(t, i, base, s)
      BY <1>1, Zenon DEF Spawn
    <2>2. delta_fair(t, s) \in Nat
      BY DeltaFairNat, Zenon
    <2>3. Max2(base, min_vruntime + delta_fair(t, s)) >= min_vruntime - Thresh
      BY <2>2 DEF Max2
    <2> QED BY <2>1, <2>3, Zenon DEF spawn
  <1>2. CASE StartRun
    BY <1>2, Zenon DEF StartRun, taskVars, rqVars
  <1>3. CASE Pop
    <2>1. PICK s \in Slice : \E i \in next_tid(s) :
            queue' = [queue EXCEPT ![i] = NoTask] /\ prio' = [prio EXCEPT ![i] = 0]
      BY <1>3, Zenon DEF Pop
    <2> QED BY <1>3, <2>1 DEF Pop
  <1>4. CASE PopPanics
    BY <1>4, Zenon DEF PopPanics, taskVars, rqVars
  <1>5. ASSUME NEW t \in Task, Wake(t) PROVE CreditInv'
    <2>1. CASE Polled(t)
      BY <1>5, <2>1, Zenon DEF Wake
    <2>2. CASE ~Polled(t)
      <3>1. /\ prio' = [prio EXCEPT ![tid[t]] = min_vruntime - Thresh]
            /\ queue' = [queue EXCEPT ![tid[t]] = t]
            /\ min_vruntime' = min_vruntime /\ pc' = pc /\ current' = current
            /\ is_yielded' = is_yielded
            /\ vruntime' = [vruntime EXCEPT ![t] = Max2(vruntime[t], min_vruntime - Thresh)]
        BY <1>5, <2>2, Zenon DEF Wake, schedule_fn
      <3>2. Max2(vruntime[t], min_vruntime - Thresh) >= vruntime[t]
        BY DEF Max2
      <3>3. EntryNotTooEarly'
        BY <3>1
      <3>4. pc = "ret" => vruntime'[current] >= vruntime[current]
        BY <3>1, <3>2
      <3>5. pc = "ret" /\ is_yielded => vruntime'[current] >= min_vruntime - Thresh
        BY <1>0, <3>4, SMTT(30), Zenon
      <3> QED BY <3>1, <3>3, <3>5, Zenon
    <2> QED BY <2>1, <2>2, Zenon
  <1>6. CASE PollPending
    <2>1. CASE current \in scheduled
      <3>1. /\ prio' = [prio EXCEPT ![tid[current]] = min_vruntime - Thresh]
            /\ queue' = [queue EXCEPT ![tid[current]] = current]
            /\ min_vruntime' = min_vruntime /\ current' = current
            /\ vruntime' = [vruntime EXCEPT
                 ![current] = Max2(vruntime[current], min_vruntime - Thresh)]
        BY <1>6, <2>1, Zenon DEF PollPending, schedule_fn
      <3>2. Max2(vruntime[current], min_vruntime - Thresh) >= min_vruntime - Thresh
        BY <2>1 DEF Max2
      <3>3. EntryNotTooEarly'
        BY <3>1
      <3> QED BY <2>1, <3>1, <3>2, <3>3, Zenon
    <2>2. CASE current \notin scheduled
      BY <1>6, <2>2, Zenon DEF PollPending
    <2> QED BY <2>1, <2>2, Zenon
  <1>7. CASE PollReady
    <2>1. /\ queue' = queue /\ prio' = prio /\ pc' = "ret" /\ ~is_yielded'
          /\ min_vruntime' >= min_vruntime
          /\ min_vruntime' > min_vruntime => \A i \in Queued(queue) : min_vruntime' <= prio[i]
      BY <1>7, UpdateMin, Zenon DEF PollReady
    <2> QED BY <1>0, <2>1 DEF Queued
  <1>8. CASE Return
    <2>1. queue' = queue /\ pc' = "pop" /\ tid[current] \in Tid
      BY <1>8, Zenon DEF Return, ArenaInv
    <2>2. PICK d \in Nat : vruntime' = [vruntime EXCEPT ![current] = @ + d]
      BY <1>0, <1>8, ReturnTime, Zenon
    <2>3. is_yielded => vruntime'[current] >= min_vruntime - Thresh
      BY <1>8, <2>2, ReturnTime, SMTT(30), Zenon DEF Return
    <2>4. \A i \in Queued(queue) : prio'[i] >= min_vruntime - Thresh
      BY <1>0, <1>8, <2>3, ReturnTime, SMTT(30), Zenon DEF Queued
    <2>5. \A i \in Queued(queue) : prio'[i] >= min_vruntime' - Thresh
      BY <1>0, <1>8, <2>4, ReturnTime, SMTT(30), Zenon DEF Queued
    <2> QED BY <2>1, <2>5, Zenon DEF Queued
  <1>9. CASE ReturnHangs
    BY <1>9, Zenon DEF ReturnHangs
  <1>10. CASE UNCHANGED vars
    BY <1>10, Zenon DEF vars
  <1> QED
    BY <1>1, <1>2, <1>3, <1>4, <1>5, <1>6, <1>7, <1>8, <1>9, <1>10, Zenon DEF Next

LEMMA CreditHolds == Spec => [](IInv /\ CreditInv)
  <1>1. Init => CreditInv
    <2> SUFFICES ASSUME Init PROVE CreditInv
      BY Zenon
    <2>1. PICK i \in Tid, s \in Slice :
            /\ arena = [j \in Tid |-> IF j = i THEN Idle ELSE NoTask]
            /\ queue = arena
            /\ prio = [j \in Tid |-> IF j = i THEN delta_fair(Idle, s) ELSE 0]
            /\ min_vruntime = 0 /\ pc = "boot"
      BY Zenon DEF Init
    <2>2. delta_fair(Idle, s) \in Nat
      BY DeltaFairNat, ExecutorAssumption, Zenon
    <2> QED BY <2>1, <2>2, ExecutorAssumption DEF CreditInv, EntryNotTooEarly
  <1> QED BY <1>1, InitIInv, NextIInv, NextCredit, PTL DEF Spec

(* Every step keeps the entries no later than their tasks: schedule_fn and  *)
(* the tick move an entry together with its task, and the vruntime of any   *)
(* other queued task stays as it is.                                        *)
LEMMA NextNotLate == IInv /\ EntryNotLate /\ [Next]_vars => EntryNotLate'
  <1> SUFFICES ASSUME IInv, EntryNotLate, [Next]_vars PROVE EntryNotLate'
    BY Zenon
  <1> USE ExecutorAssumption DEF IInv, TypeOK
  <1>0. TypeOK'
    BY NextType, Zenon
  <1>a. \A i \in Tid : queue[i] # NoTask =>
           queue[i] \in Task /\ tid[queue[i]] = i /\ phase[queue[i]] = "live"
    BY QueuedActive, Zenon DEF QueuedIsActive
  <1>b. ASSUME NEW t \in Task, phase[t] = "live", schedule_fn(t) PROVE EntryNotLate'
    <2>1. /\ prio' = [prio EXCEPT ![tid[t]] = min_vruntime - Thresh]
          /\ queue' = [queue EXCEPT ![tid[t]] = t]
          /\ vruntime' = [vruntime EXCEPT ![t] = Max2(vruntime[t], min_vruntime - Thresh)]
      BY <1>b, Zenon DEF schedule_fn
    <2>2. /\ min_vruntime - Thresh <= Max2(vruntime[t], min_vruntime - Thresh)
          /\ vruntime[t] <= Max2(vruntime[t], min_vruntime - Thresh)
      BY DEF Max2
    <2>3. tid[t] \in Tid
      BY <1>b, Zenon DEF ArenaInv
    <2>4. ASSUME NEW i \in Tid, queue'[i] # NoTask PROVE prio'[i] <= vruntime'[queue'[i]]
      <3>1. CASE i = tid[t]
        BY <2>1, <2>2, <3>1
      <3>2. CASE i # tid[t]
        <4>1. queue[i] # NoTask /\ queue[i] # t /\ queue[i] \in Task
          BY <1>a, <2>1, <2>4, <3>2, Zenon
        <4> QED BY <2>1, <3>2, <4>1, Zenon DEF EntryNotLate
      <3> QED BY <3>1, <3>2, Zenon
    <2> QED BY <2>4, Zenon DEF EntryNotLate
  <1>1. CASE Spawn
    <2>1. PICK t \in Task, i \in Tid, s \in Slice, base \in Int : spawn(t, i, base, s)
      BY <1>1, Zenon DEF Spawn
    <2> DEFINE vr == Max2(base, min_vruntime + delta_fair(t, s))
    <2>2. vr <= vr
      BY DeltaFairNat DEF Max2
    <2> HIDE DEF vr
    <2>3. /\ queue' = [queue EXCEPT ![i] = t] /\ prio' = [prio EXCEPT ![i] = vr]
          /\ vruntime' = [vruntime EXCEPT ![t] = vr] /\ phase[t] = "new"
      BY <2>1, Zenon DEF spawn, vr
    <2>4. ASSUME NEW j \in Tid, queue'[j] # NoTask PROVE prio'[j] <= vruntime'[queue'[j]]
      <3>1. CASE j = i
        BY <2>2, <2>3, <3>1, Zenon
      <3>2. CASE j # i
        <4>1. queue[j] # NoTask /\ queue[j] # t /\ queue[j] \in Task
          BY <1>a, <2>3, <2>4, <3>2, SMT
        <4> QED BY <2>3, <3>2, <4>1, Zenon DEF EntryNotLate
      <3> QED BY <3>1, <3>2, Zenon
    <2> QED BY <2>4, Zenon DEF EntryNotLate
  <1>2. CASE StartRun
    BY <1>2, Zenon DEF StartRun, taskVars, rqVars, EntryNotLate
  <1>3. CASE Pop
    <2>1. PICK s \in Slice : \E i \in next_tid(s) :
            queue' = [queue EXCEPT ![i] = NoTask] /\ prio' = [prio EXCEPT ![i] = 0]
      BY <1>3, Zenon DEF Pop
    <2>2. vruntime' = vruntime
      BY <1>3, Zenon DEF Pop
    <2> QED BY <2>1, <2>2, Zenon DEF EntryNotLate
  <1>4. CASE PopPanics
    BY <1>4, Zenon DEF PopPanics, taskVars, rqVars, EntryNotLate
  <1>5. ASSUME NEW t \in Task, Wake(t) PROVE EntryNotLate'
    BY <1>b, <1>5, Zenon DEF Wake, Live, EntryNotLate
  <1>6. CASE PollPending
    BY <1>b, <1>6, Zenon DEF PollPending, RunInv, EntryNotLate
  <1>7. CASE PollReady
    BY <1>7, Zenon DEF PollReady, EntryNotLate
  <1>8. CASE Return
    <2>1. queue' = queue /\ tid[current] \in Tid /\ current \in Task
      BY <1>8, Zenon DEF Return, ArenaInv
    <2>2. PICK d \in Nat : vruntime' = [vruntime EXCEPT ![current] = @ + d]
      BY <1>0, <1>8, ReturnTime, Zenon
    <2>3. vruntime'[current] <= vruntime'[current]
      BY <1>0, <2>1
    <2>4. prio' = IF queue[tid[current]] = NoTask THEN prio
                  ELSE [prio EXCEPT ![tid[current]] = vruntime'[current]]
      BY <1>0, <1>8, ReturnTime, Zenon
    <2>5. queue[tid[current]] # NoTask => queue[tid[current]] = current
      <3>1. is_yielded \/ queue[tid[current]] = NoTask
        BY <1>0, <1>8, ReturnTime, Zenon
      <3>2. pc = "ret"
        BY <1>8, Zenon DEF Return
      <3>3. is_yielded => phase[current] = "live"
        BY <3>2, Zenon DEF RunInv, WakeInv
      <3>4. is_yielded => arena[tid[current]] = current
        BY <2>1, <3>3, Zenon DEF ArenaInv
      <3> QED BY <2>1, <3>1, <3>4, Zenon DEF WakeInv
    <2>6. ASSUME NEW i \in Tid, queue[i] # NoTask PROVE prio'[i] <= vruntime'[queue[i]]
      <3>1. CASE i = tid[current]
        BY <2>1, <2>3, <2>4, <2>5, <2>6, <3>1, Zenon
      <3>2. CASE i # tid[current]
        <4>1. queue[i] # current /\ queue[i] \in Task
          BY <1>a, <2>6, <3>2, Zenon
        <4>2. prio'[i] = prio[i] /\ vruntime'[queue[i]] = vruntime[queue[i]]
          BY <2>2, <2>4, <3>2, <4>1, Zenon
        <4> QED BY <2>6, <4>2, Zenon DEF EntryNotLate
      <3> QED BY <3>1, <3>2, Zenon
    <2> QED BY <2>1, <2>6, Zenon DEF EntryNotLate
  <1>9. CASE ReturnHangs
    BY <1>9, Zenon DEF ReturnHangs, EntryNotLate
  <1>10. CASE UNCHANGED vars
    BY <1>10, Zenon DEF vars, EntryNotLate
  <1> QED
    BY <1>1, <1>2, <1>3, <1>4, <1>5, <1>6, <1>7, <1>8, <1>9, <1>10, Zenon DEF Next

(* However many tasks there are and however long they run, no entry of      *)
(* ready_tasks is more than thresh before the minimum or after the vruntime *)
(* of its task.                                                             *)
THEOREM SleepersBounded == Spec => []SleeperCredit
  <1>1. Init => EntryNotLate
    <2> SUFFICES ASSUME Init PROVE EntryNotLate
      BY Zenon
    <2>1. PICK i \in Tid, s \in Slice :
            /\ arena = [j \in Tid |-> IF j = i THEN Idle ELSE NoTask]
            /\ queue = arena
            /\ prio = [j \in Tid |-> IF j = i THEN delta_fair(Idle, s) ELSE 0]
            /\ vruntime = [t \in Task |-> IF t = Idle THEN delta_fair(Idle, s) ELSE 0]
      BY Zenon DEF Init
    <2>2. delta_fair(Idle, s) <= delta_fair(Idle, s)
      BY DeltaFairNat, ExecutorAssumption
    <2> QED BY <2>1, <2>2, ExecutorAssumption, Zenon DEF EntryNotLate
  <1>2. CreditInv /\ EntryNotLate => SleeperCredit
    BY Zenon DEF CreditInv, EntryNotTooEarly, EntryNotLate, SleeperCredit
  <1> QED BY <1>1, <1>2, CreditHolds, NextNotLate, PTL DEF Spec

(* The step of TimeOnlyForward. *)
Forward ==
  /\ min_vruntime' >= min_vruntime
  /\ \A t \in Task : phase[t] = "live" => vruntime'[t] >= vruntime[t]

(* Neither min_vruntime nor the vruntime of a live task ever goes back.     *)
THEOREM VirtualTimeForward == Spec => TimeOnlyForward
  <1>1. TypeOK /\ [Next]_vars => [Forward]_vars
    <2> SUFFICES ASSUME TypeOK, Next PROVE Forward
      BY Zenon DEF vars, Forward
    <2> USE ExecutorAssumption DEF TypeOK, Forward
    <2>0. TypeOK'
      BY NextType, Zenon
    <2>1. CASE Spawn
      <3>1. PICK t \in Task, i \in Tid, s \in Slice, base \in Int : spawn(t, i, base, s)
        BY <2>1, Zenon DEF Spawn
      <3> QED BY <3>1 DEF spawn
    <2>2. CASE StartRun \/ PopPanics
      BY <2>2 DEF StartRun, PopPanics, taskVars, rqVars
    <2>3. CASE Pop \/ ReturnHangs
      BY <2>3 DEF Pop, ReturnHangs
    <2>4. ASSUME NEW t \in Task, schedule_fn(t), min_vruntime' = min_vruntime
          PROVE  Forward
      BY <2>4 DEF schedule_fn, Max2
    <2>5. ASSUME NEW t \in Task, Wake(t) PROVE Forward
      BY <2>4, <2>5 DEF Wake
    <2>6. CASE PollPending
      BY <2>4, <2>6 DEF PollPending
    <2>7. CASE PollReady
      <3>1. vruntime' = vruntime
        BY <2>7, Zenon DEF PollReady
      <3>2. min_vruntime' >= min_vruntime
        BY <2>7, UpdateMin, Zenon DEF PollReady
      <3> QED BY <3>1, <3>2
    <2>8. CASE Return
      BY <2>0, <2>8, ReturnTime
    <2> QED BY <2>1, <2>2, <2>3, <2>5, <2>6, <2>7, <2>8, Zenon DEF Next
  <1> QED BY <1>1, TypeCorrect, PTL DEF Spec, TimeOnlyForward, Forward
-----------------------------------------------------------------------------
(***************************************************************************)
(* Panics of pop_task_to_run.  Some entry has the least vruntime, since    *)
(* EntryNotTooEarly bounds the entries from below; and where nr_running is    *)
(* right, the branch for several tasks finds a task besides the current.   *)
(***************************************************************************)
LEMMA PeekFinds ==
  ASSUME NEW q, NEW p \in [Tid -> Int], NEW low \in Int,
         Queued(q) # {}, \A i \in Queued(q) : p[i] >= low
  PROVE  peek(q, p) # {}
  <1> DEFINE T == {p[i] - low : i \in Queued(q)}
  <1>1. \A i \in Queued(q) : p[i] \in Int /\ p[i] - low \in Nat
    BY DEF Queued
  <1>2. T # {} /\ T \subseteq Nat
    BY <1>1, Zenon
  <1>3. PICK x \in T : \A y \in T : x <= y
    <2> DEFINE R == OpToRel(<, Nat)
    <2> HIDE DEF T
    <2>1. PICK x \in T : \A y \in T : ~(<<y, x>> \in R)
      BY <1>2, NatLessThanWellFounded, WFMin, Zenon
    <2>2. \A y \in T : ~(y < x)
      BY <1>2, <2>1, Zenon DEF OpToRel
    <2>3. \A y \in T : x <= y
      BY <1>2, <2>2
    <2> QED BY <2>3, Zenon
  <1>4. PICK i \in Queued(q) : x = p[i] - low
    BY Zenon
  <1>5. ASSUME NEW j \in Queued(q) PROVE p[i] <= p[j]
    <2>1. p[i] - low <= p[j] - low
      BY <1>3, <1>4, Zenon
    <2> QED BY <1>1, <2>1
  <1> QED BY <1>5, Zenon DEF peek

LEMMA TwoOf ==
  ASSUME NEW S, Cardinality(S) # 0, Cardinality(S) # 1
  PROVE  \E x, y \in S : x # y
  <1>1. PICK x : x \in S
    BY FS_EmptySet, Zenon
  <1>2. S # {x}
    BY FS_Singleton, Zenon
  <1> QED BY <1>1, <1>2, Zenon

LEMMA PopFinds ==
  ASSUME IInv, EntryNotTooEarly, pc = "pop", nr_running = Cardinality(counted), NEW s
  PROVE  next_tid(s) # {} /\ \A i \in next_tid(s) : arena[i] # NoTask
  <1> DEFINE low == min_vruntime - Thresh
             others == [queue EXCEPT ![tid[current]] = NoTask]
  <1>1. TypeOK /\ ArenaInv /\ WakeInv /\ RunInv /\ pc # "poll" /\ pc # "hung"
    BY Zenon DEF IInv
  <1>2. prio \in [Tid -> Int] /\ low \in Int
    BY <1>1, ExecutorAssumption DEF TypeOK
  <1>3. \A i \in Queued(queue) : prio[i] >= low
    BY Zenon DEF EntryNotTooEarly, Queued
  <1>4. tid[Idle] \in Queued(queue)
    <2>1. Idle \in Task /\ Idle # NoTask
      BY ExecutorAssumption, Zenon
    <2>2. phase[Idle] = "live" /\ Idle \in scheduled
      BY <1>1, Zenon DEF WakeInv, Polled
    <2>3. queue[tid[Idle]] = Idle
      BY <1>1, <2>2, Zenon DEF WakeInv, Polled
    <2>4. tid[Idle] \in Tid
      BY <1>1, <2>1, <2>2, Zenon DEF ArenaInv
    <2> QED BY <2>1, <2>3, <2>4, Zenon DEF Queued
  <1>5. \A i \in next_tid(s) : arena[i] # NoTask
    BY <1>1, NextTidQueued, Zenon DEF WakeInv
  <1> HIDE DEF low
  <1>6. CASE nr_running < 2 \/ current = NoTask
    BY <1>2, <1>3, <1>4, <1>5, <1>6, PeekFinds, Zenon DEF next_tid
  <1>7. CASE ~(nr_running < 2) /\ current # NoTask
    <2>1. /\ current \in Task /\ tid[current] \in Tid
          /\ on_rq[current] => queue[tid[current]] = current
      BY <1>1, <1>7, Zenon DEF TypeOK, ArenaInv, RunInv
    <2>2. CASE preempt_current(s)
      <3>1. Cardinality(counted) # 0 /\ Cardinality(counted) # 1
        BY <1>1, <1>7 DEF TypeOK
      <3>2. PICK x \in counted, y \in counted : x # y
        BY <3>1, TwoOf, Zenon
      <3>3. \A t \in counted : \E i \in Tid : queue[i] = t /\ t # NoTask
        BY <2>1, ExecutorAssumption, Zenon DEF counted
      <3>4. PICK i \in Tid : i # tid[current] /\ queue[i] # NoTask
        BY <3>2, <3>3, Zenon
      <3>5. i \in Queued(others) /\ Queued(others) \subseteq Queued(queue)
        BY <1>1, <3>4, Zenon DEF TypeOK, Queued
      <3>6. peek(others, prio) # {}
        BY <1>2, <1>3, <3>5, PeekFinds, Zenon
      <3> QED BY <1>5, <1>7, <2>2, <3>6, Zenon DEF next_tid
    <2>3. CASE ~preempt_current(s)
      <3>1. tid[current] \in Queued(queue)
        BY <1>7, <2>1, <2>3, Zenon DEF preempt_current, Queued
      <3> QED BY <1>5, <1>7, <2>3, <3>1, Zenon DEF next_tid
    <2> QED BY <2>2, <2>3, Zenon
  <1> QED BY <1>6, <1>7, Zenon

PanicInv == pc = "panic" => nr_running # Cardinality(counted)

LEMMA NextPanic == IInv /\ CreditInv /\ PanicInv /\ [Next]_vars => PanicInv'
  <1> SUFFICES ASSUME IInv, CreditInv, PanicInv, [Next]_vars, pc' = "panic"
               PROVE  (nr_running # Cardinality(counted))'
    BY Zenon DEF PanicInv
  <1>1. \/ UNCHANGED vars
        \/ PopPanics
    <2>1. ~StartRun /\ ~Pop /\ ~PollPending
      BY Zenon DEF StartRun, Pop, PollPending
    <2>2. ~PollReady /\ ~Return /\ ~ReturnHangs
      BY Zenon DEF PollReady, Return, ReturnHangs
    <2>3. ~Spawn
      <3>1. ASSUME NEW t, NEW i, NEW base, NEW s, spawn(t, i, base, s) PROVE FALSE
        <4>1. pc \in {"boot", "poll"} /\ pc' = pc
          BY <3>1, Zenon DEF spawn
        <4> QED BY <4>1
      <3> QED BY <3>1, Zenon DEF Spawn
    <2>4. \A t \in Task : ~Wake(t)
      BY Zenon DEF Wake
    <2> QED BY <2>1, <2>2, <2>3, <2>4, Zenon DEF Next
  <1>2. CASE UNCHANGED vars
    BY <1>2, Zenon DEF vars, PanicInv, counted
  <1>3. CASE PopPanics
    <2>1. nr_running # Cardinality(counted)
      BY <1>3, PopFinds, Zenon DEF PopPanics, CreditInv
    <2>2. nr_running' = nr_running /\ queue' = queue /\ current' = current /\ on_rq' = on_rq
      BY <1>3, Zenon DEF PopPanics, taskVars, rqVars
    <2> QED BY <2>1, <2>2, Zenon DEF counted
  <1> QED BY <1>1, <1>2, <1>3, Zenon

(* Whenever run() picks a task, the idle task is queued, and the current    *)
(* task too if it is marked on_rq; and when pop_task_to_run panics,         *)
(* nr_running is not the number of tasks that it is to count.               *)
THEOREM AlwaysReady == Spec => []ReadyToPop
  <1>1. Init => PanicInv
    BY Zenon DEF Init, PanicInv
  <1>2. IInv /\ PanicInv => ReadyToPop
    BY ExecutorAssumption, Zenon
       DEF IInv, TypeOK, ArenaInv, WakeInv, RunInv, PanicInv, ReadyToPop, Polled
  <1> QED BY <1>1, <1>2, CreditHolds, NextPanic, PTL DEF Spec
-----------------------------------------------------------------------------
(***************************************************************************)
(* Where nr_running goes wrong.  CountInv relates on_rq, which decides who *)
(* is counted, to the queue and the current task.                          *)
(***************************************************************************)
CountInv ==
  /\ \A i \in Tid : queue[i] # NoTask => on_rq[queue[i]]
  /\ pc \in {"poll", "ret"} /\ phase[current] = "live" => on_rq[current]
  /\ pc = "ret" /\ phase[current] # "live" => ~on_rq[current]
  /\ current # NoTask /\ phase[current] # "live" => arena[tid[current]] = NoTask
  /\ current # NoTask => phase[current] # "new"

LEMMA NextCountInv == IInv /\ CountInv /\ [Next]_vars => CountInv'
  <1> SUFFICES ASSUME IInv, CountInv, [Next]_vars PROVE CountInv'
    BY Zenon
  <1>0. TypeOK /\ ArenaInv /\ WakeInv /\ RunInv
    BY Zenon DEF IInv
  <1>a. QueuedIsActive
    BY QueuedActive, Zenon
  <1> USE ExecutorAssumption
  <1>1. CASE Spawn
    <2>1. PICK t \in Task, i \in Tid, s \in Slice, base \in Int : spawn(t, i, base, s)
      BY <1>0, <1>1, Zenon DEF Spawn, TypeOK
    <2>2. /\ pc' = pc /\ current' = current /\ pc \in {"boot", "poll"} /\ arena[i] = NoTask
          /\ phase[t] = "new" /\ phase' = [phase EXCEPT ![t] = "live"]
          /\ arena' = [arena EXCEPT ![i] = t] /\ tid' = [tid EXCEPT ![t] = i]
          /\ queue' = [queue EXCEPT ![i] = t] /\ on_rq' = [on_rq EXCEPT ![t] = TRUE]
      BY <2>1, Zenon DEF spawn, next_vacant
    <2>3. current # NoTask => current \in Task /\ current # t /\ phase[current] = "live"
      BY <1>0, <2>2, Zenon DEF TypeOK, RunInv
    <2> QED BY <1>0, <2>2, <2>3 DEF TypeOK, CountInv
  <1>2. CASE StartRun
    BY <1>0, <1>2, Zenon DEF StartRun, taskVars, rqVars, CountInv
  <1>3. CASE Pop
    <2>1. PICK s \in Slice : \E i \in next_tid(s) :
            queue' = [queue EXCEPT ![i] = NoTask] /\ current' = arena[i]
      BY <1>3, Zenon DEF Pop
    <2>2. PICK i \in Tid :
            queue' = [queue EXCEPT ![i] = NoTask] /\ current' = arena[i] /\ queue[i] # NoTask
      BY <1>0, <2>1, NextTidQueued, Zenon
    <2>3. /\ pc' = "poll" /\ phase' = phase /\ arena' = arena /\ tid' = tid /\ on_rq' = on_rq
      BY <1>3, Zenon DEF Pop
    <2>4. current' = queue[i] /\ phase[queue[i]] = "live"
      BY <1>0, <2>2, Zenon DEF WakeInv, ArenaInv
    <2> QED BY <1>0, <2>2, <2>3, <2>4 DEF TypeOK, CountInv
  <1>4. CASE PopPanics
    BY <1>0, <1>4, Zenon DEF PopPanics, taskVars, rqVars, CountInv
  <1>5. ASSUME NEW t \in Task, Wake(t) PROVE CountInv'
    <2>1. /\ phase' = phase /\ arena' = arena /\ tid' = tid /\ current' = current /\ pc' = pc
          /\ phase[t] = "live"
      BY <1>5, Zenon DEF Wake, Live
    <2>2. CASE Polled(t)
      BY <1>5, <2>1, <2>2, Zenon DEF Wake, CountInv
    <2>3. CASE ~Polled(t)
      <3>1. queue' = [queue EXCEPT ![tid[t]] = t] /\ on_rq' = [on_rq EXCEPT ![t] = TRUE]
        BY <1>5, <2>3, Zenon DEF Wake, schedule_fn
      <3> QED BY <1>0, <2>1, <3>1 DEF TypeOK, CountInv
    <2> QED BY <2>2, <2>3, Zenon
  <1>6. CASE PollPending
    <2>1. /\ phase' = phase /\ arena' = arena /\ tid' = tid /\ current' = current
          /\ pc = "poll" /\ pc' = "ret" /\ current \in Task
      BY <1>0, <1>6, Zenon DEF PollPending, TypeOK
    <2>2. phase[current] = "live"
      BY <1>0, <2>1, Zenon DEF RunInv
    <2>3. CASE current \in scheduled
      <3>1. /\ queue' = [queue EXCEPT ![tid[current]] = current]
            /\ on_rq' = [on_rq EXCEPT ![current] = TRUE]
        BY <1>6, <2>3, Zenon DEF PollPending, schedule_fn
      <3> QED BY <1>0, <2>1, <2>2, <3>1 DEF TypeOK, CountInv
    <2>4. CASE current \notin scheduled
      <3>1. queue' = queue /\ on_rq' = on_rq
        BY <1>6, <2>4, Zenon DEF PollPending
      <3> QED BY <2>1, <2>2, <3>1, Zenon DEF CountInv
    <2> QED BY <2>3, <2>4, Zenon
  <1>7. CASE PollReady
    <2>1. /\ pc = "poll" /\ pc' = "ret" /\ current' = current /\ current \in Task
          /\ tid' = tid /\ queue' = queue /\ on_rq' = [on_rq EXCEPT ![current] = FALSE]
          /\ phase' = [phase EXCEPT ![current] = "completed"]
          /\ arena' = [arena EXCEPT ![tid[current]] = NoTask]
      BY <1>0, <1>7, Zenon DEF PollReady, off_rq, TypeOK
    <2>2. tid[current] \in Tid
      BY <1>0, <2>1, Zenon DEF TypeOK, ArenaInv
    <2>3. ASSUME NEW i \in Tid PROVE queue[i] # current
      BY <1>0, <2>1, Zenon DEF TypeOK, WakeInv, Polled
    <2> QED BY <1>0, <2>1, <2>2, <2>3 DEF TypeOK, CountInv
  <1>8. CASE Return
    <2>1. /\ pc = "ret" /\ pc' = "pop" /\ current' = current /\ current \in Task
          /\ phase' = phase /\ arena' = arena /\ tid' = tid /\ queue' = queue
          /\ is_yielded \/ queue[tid[current]] = NoTask
      BY <1>0, <1>8, Zenon DEF Return, TypeOK
    <2>2. is_yielded => on_rq' = on_rq
      BY <1>8, Zenon DEF Return
    <2>3. ~is_yielded => on_rq' = [on_rq EXCEPT ![current] = FALSE]
      BY <1>8, SMTT(30), Zenon DEF Return, off_rq
    <2>4. ~is_yielded => \A i \in Tid : queue[i] # current
      <3>1. current # NoTask
        BY <2>1, Zenon
      <3>2. \A i \in Tid : queue[i] = current => tid[current] = i
        BY <1>a, <3>1, Zenon DEF QueuedIsActive
      <3> QED BY <2>1, <3>1, <3>2, Zenon
    <2> QED BY <1>0, <2>1, <2>2, <2>3, <2>4 DEF TypeOK, CountInv
  <1>9. CASE ReturnHangs
    <2>1. /\ pc = "ret" /\ pc' = "hung" /\ current' = current /\ current \in Task
          /\ phase' = phase /\ arena' = arena /\ tid' = tid
          /\ queue' = [queue EXCEPT ![tid[current]] = NoTask]
          /\ on_rq' = [on_rq EXCEPT ![current] = FALSE]
      BY <1>0, <1>9, Zenon DEF ReturnHangs, off_rq, TypeOK
    <2>2. \A i \in Tid : queue[i] # NoTask /\ i # tid[current] => queue[i] # current
      BY <1>a, Zenon DEF QueuedIsActive
    <2> QED BY <1>0, <2>1, <2>2 DEF TypeOK, CountInv
  <1>10. CASE UNCHANGED vars
    BY <1>10, Zenon DEF vars, CountInv
  <1> QED
    BY <1>1, <1>2, <1>3, <1>4, <1>5, <1>6, <1>7, <1>8, <1>9, <1>10, Zenon DEF Next

LEMMA CountChanges ==
  ASSUME IsFiniteSet(Task), Cardinality(Task) <= UsizeMax, NEW S \in SUBSET Task
  PROVE  /\ Cardinality(S) \in 0..UsizeMax
         /\ \A t \in Task \ S : Cardinality(S \cup {t}) = Inc(Cardinality(S))
         /\ \A t \in S : Cardinality(S \ {t}) = Dec(Cardinality(S))
         /\ Inc(Cardinality(S)) # Cardinality(S) /\ Dec(Cardinality(S)) # Cardinality(S)
  <1>1. IsFiniteSet(S) /\ \A T \in SUBSET Task : Cardinality(T) <= Cardinality(Task)
    BY FS_Subset, Zenon
  <1>2. /\ Cardinality(S) \in Nat /\ Cardinality(Task) \in Nat
        /\ Cardinality(S) <= Cardinality(Task) /\ UsizeMax \in Nat \ {0}
    BY <1>1, FS_CardinalityType, ExecutorAssumption, Zenon
  <1>3. ASSUME NEW t \in Task \ S PROVE Cardinality(S \cup {t}) = Inc(Cardinality(S))
    <2>1. Cardinality(S \cup {t}) = Cardinality(S) + 1
      BY <1>1, FS_AddElement, Zenon
    <2>2. Cardinality(S \cup {t}) <= Cardinality(Task)
      BY <1>1, Zenon
    <2> QED BY <1>2, <2>1, <2>2 DEF Inc
  <1>4. ASSUME NEW t \in S PROVE Cardinality(S \ {t}) = Dec(Cardinality(S))
    <2>1. Cardinality(S \ {t}) = Cardinality(S) - 1
      BY <1>1, FS_RemoveElement, Zenon
    <2>2. Cardinality(S) # 0
      BY <1>1, FS_EmptySet, Zenon
    <2> QED BY <1>2, <2>1, <2>2 DEF Dec
  <1>5. Inc(Cardinality(S)) # Cardinality(S) /\ Dec(Cardinality(S)) # Cardinality(S)
    BY <1>2 DEF Inc, Dec
  <1>6. Cardinality(S) \in 0..UsizeMax
    BY <1>2
  <1> QED BY <1>3, <1>4, <1>5, <1>6, Zenon

(***************************************************************************)
(* The steps that leave nr_running wrong: run() removes a task that has    *)
(* completed, which the guard of spawn has counted out before; an          *)
(* interrupt wakes the task that run() has just removed, before another    *)
(* one is current, so that insert_task takes it for counted; and           *)
(* remove_task hangs before it counts the task out.                        *)
(***************************************************************************)
Miscount ==
  \/ pc = "ret" /\ pc' = "pop" /\ phase[current] = "completed"
  \/ pc = "pop" /\ pc' = "pop" /\ current \in scheduled' \ scheduled
  \/ pc = "ret" /\ pc' = "hung"

InStep == nr_running = Cardinality(counted)

\* How a step may change who is counted and nr_running.
Same == counted' = counted /\ nr_running' = nr_running
Added == nr_running' = Inc(nr_running) /\ \E t \in Task \ counted : counted' = counted \cup {t}
Taken == nr_running' = Dec(nr_running) /\ \E t \in counted : counted' = counted \ {t}
OnlyDec == counted' = counted /\ nr_running' = Dec(nr_running)
OnlyAdded == nr_running' = nr_running /\ \E t \in Task \ counted : counted' = counted \cup {t}
OnlyTaken == nr_running' = nr_running /\ \E t \in counted : counted' = counted \ {t}

LEMMA CountMoves ==
  ASSUME IsFiniteSet(Task), Cardinality(Task) <= UsizeMax, InStep
  PROVE  /\ Same \/ Added \/ Taken => InStep'
         /\ OnlyDec \/ OnlyAdded \/ OnlyTaken => ~InStep'
  <1>1. counted \subseteq Task
    BY Zenon DEF counted
  <1>2. /\ \A t \in Task \ counted : Cardinality(counted \cup {t}) = Inc(nr_running)
        /\ \A t \in counted : Cardinality(counted \ {t}) = Dec(nr_running)
        /\ Inc(nr_running) # nr_running /\ Dec(nr_running) # nr_running
        /\ Cardinality(counted) = nr_running
    BY <1>1, CountChanges, Zenon DEF InStep
  <1>3. InStep' <=> nr_running' = Cardinality(counted')
    BY Zenon DEF InStep
  <1>4. Same => InStep'
    BY <1>2, <1>3, Zenon DEF Same
  <1>5. Added \/ Taken => InStep'
    BY <1>2, <1>3, Zenon DEF Added, Taken
  <1>6. OnlyDec => ~InStep'
    BY <1>2, <1>3, Zenon DEF OnlyDec
  <1>7. OnlyAdded \/ OnlyTaken => ~InStep'
    BY <1>2, <1>3, Zenon DEF OnlyAdded, OnlyTaken
  <1> QED BY <1>4, <1>5, <1>6, <1>7, Zenon

Kept == (Same \/ Added \/ Taken) /\ ~Miscount
Lost == (OnlyDec \/ OnlyAdded \/ OnlyTaken) /\ Miscount

(* Who is counted, under the invariants: a queued task is found under its   *)
(* own tid.                                                                 *)
LEMMA CountedWhere ==
  ASSUME IInv, NEW t \in Task
  PROVE  t \in counted <=> \/ tid[t] \in Tid /\ queue[tid[t]] = t
                           \/ current = t /\ on_rq[t]
  <1>1. t # NoTask
    BY ExecutorAssumption, Zenon
  <1>2. \A i \in Tid : queue[i] = t => tid[t] = i
    BY <1>1, QueuedActive, Zenon DEF QueuedIsActive
  <1> QED BY <1>2, Zenon DEF counted

LEMMA SpawnCounts ==
  ASSUME IInv, CountInv, Spawn
  PROVE  Kept
  <1>0. TypeOK /\ ArenaInv /\ WakeInv /\ RunInv /\ QueuedIsActive
    BY QueuedActive, Zenon DEF IInv
  <1> USE ExecutorAssumption
  <1>1. PICK t \in Task, i \in Tid, s \in Slice, base \in Int : spawn(t, i, base, s)
    BY <1>0, Zenon DEF Spawn, TypeOK
  <1>2. /\ pc' = pc /\ current' = current /\ pc \in {"boot", "poll"} /\ arena[i] = NoTask
        /\ phase[t] = "new" /\ nr_running' = insert_task(i)
        /\ queue' = [queue EXCEPT ![i] = t] /\ on_rq' = [on_rq EXCEPT ![t] = TRUE]
    BY <1>1, Zenon DEF spawn, next_vacant
  <1>3. current # NoTask => current # t /\ tid[current] # i
    <2> SUFFICES ASSUME current # NoTask PROVE current # t /\ tid[current] # i
      BY Zenon
    <2>1. current \in Task /\ phase[current] = "live"
      BY <1>0, <1>2, Zenon DEF TypeOK, RunInv
    <2> QED BY <1>0, <1>2, <2>1, Zenon DEF ArenaInv
  <1>4. t # NoTask /\ \A j \in Tid : queue[j] # t
    <2>1. t # NoTask /\ phase[t] # "live"
      BY <1>2
    <2> QED BY <1>0, <2>1, Zenon DEF QueuedIsActive
  <1>5. queue[i] = NoTask
    BY <1>0, <1>2, Zenon DEF QueuedIsActive
  <1>6. t \notin counted
    BY <1>3, <1>4, Zenon DEF counted
  <1>7. counted' = counted \cup {t}
    <2>1. \A u \in Task \ {t} : (\E j \in Tid : queue'[j] = u) <=> (\E j \in Tid : queue[j] = u)
      BY <1>0, <1>2, <1>5, Zenon DEF TypeOK
    <2>2. \A u \in Task \ {t} : on_rq'[u] = on_rq[u]
      BY <1>0, <1>2, Zenon DEF TypeOK
    <2>3. queue'[i] = t
      BY <1>0, <1>2, Zenon DEF TypeOK
    <2>4. ASSUME NEW u \in Task \ {t} PROVE u \in counted' <=> u \in counted
      BY <1>2, <2>1, <2>2, Zenon DEF counted
    <2>5. t \in counted' /\ counted' \subseteq Task /\ counted \subseteq Task
      BY <2>3, Zenon DEF counted
    <2> QED BY <2>4, <2>5, Zenon
  <1>8. nr_running' = Inc(nr_running)
    BY <1>2, <1>3, Zenon DEF insert_task
  <1> QED BY <1>2, <1>6, <1>7, <1>8, Zenon DEF Kept, Added, Miscount

LEMMA PopCounts ==
  ASSUME IInv, CountInv, Pop
  PROVE  Kept
  <1>0. TypeOK /\ RunInv /\ QueuedIsActive
    BY QueuedActive, Zenon DEF IInv
  <1>1. PICK s \in Slice : \E i \in next_tid(s) :
          queue' = [queue EXCEPT ![i] = NoTask] /\ current' = arena[i]
    BY Zenon DEF Pop
  <1>2. PICK i \in Tid :
          queue' = [queue EXCEPT ![i] = NoTask] /\ current' = arena[i] /\ queue[i] # NoTask
    BY <1>0, <1>1, NextTidQueued, Zenon
  <1>3. pc = "pop" /\ pc' = "poll" /\ on_rq' = on_rq /\ nr_running' = nr_running
    BY Zenon DEF Pop
  <1>4. current' = queue[i] /\ on_rq[queue[i]]
    BY <1>0, <1>2, Zenon DEF QueuedIsActive, CountInv
  <1>5. ASSUME NEW t \in Task PROVE t \in counted <=> \E j \in Tid : queue[j] = t
    <2>1. t # NoTask
      BY ExecutorAssumption, Zenon
    <2>2. current = t /\ on_rq[t] => queue[tid[t]] = t /\ tid[t] \in Tid
      BY <1>3, <2>1, Zenon DEF IInv, RunInv, ArenaInv
    <2> QED BY <2>2, Zenon DEF counted
  <1>6. ASSUME NEW t \in Task
        PROVE  t \in counted' <=> (\E j \in Tid \ {i} : queue[j] = t) \/ queue[i] = t
    <2>1. t # NoTask
      BY ExecutorAssumption, Zenon
    <2>2. (\E j \in Tid : queue'[j] = t) <=> (\E j \in Tid \ {i} : queue[j] = t)
      BY <1>0, <1>2, <2>1, Zenon DEF TypeOK
    <2> QED BY <1>3, <1>4, <2>2, Zenon DEF counted
  <1>7. counted' = counted
    BY <1>5, <1>6, Zenon DEF counted
  <1> QED BY <1>3, <1>7, Zenon DEF Kept, Same, Miscount

(* schedule_fn adds the task to those counted. *)
LEMMA ScheduleCounts ==
  ASSUME IInv, NEW t \in Task, phase[t] = "live", schedule_fn(t), current' = current
  PROVE  counted' = counted \cup {t}
  <1>1. TypeOK /\ QueuedIsActive /\ tid[t] \in Tid /\ arena[tid[t]] = t
    BY QueuedActive, Zenon DEF IInv, ArenaInv
  <1>2. queue' = [queue EXCEPT ![tid[t]] = t] /\ on_rq' = [on_rq EXCEPT ![t] = TRUE]
    BY Zenon DEF schedule_fn
  <1>3. queue[tid[t]] = NoTask \/ queue[tid[t]] = t
    BY <1>1, Zenon DEF QueuedIsActive
  <1>4. queue'[tid[t]] = t
    BY <1>1, <1>2, Zenon DEF TypeOK
  <1>5. ASSUME NEW u \in Task \ {t} PROVE u \in counted' <=> u \in counted
    <2>1. u # NoTask
      BY ExecutorAssumption, Zenon
    <2>2. (\E j \in Tid : queue'[j] = u) <=> (\E j \in Tid : queue[j] = u)
      BY <1>1, <1>2, <1>3, <2>1, Zenon DEF TypeOK
    <2>3. on_rq'[u] = on_rq[u]
      BY <1>1, <1>2, Zenon DEF TypeOK
    <2> QED BY <2>2, <2>3, Zenon DEF counted
  <1>6. t \in counted' /\ counted' \subseteq Task /\ counted \subseteq Task
    BY <1>1, <1>4, Zenon DEF counted
  <1> QED BY <1>5, <1>6, Zenon

LEMMA WakeCounts ==
  ASSUME IInv, CountInv, NEW t \in Task, Wake(t)
  PROVE  Kept \/ Lost
  <1>0. TypeOK /\ ArenaInv /\ WakeInv /\ RunInv
    BY Zenon DEF IInv
  <1> USE ExecutorAssumption
  <1>1. /\ current' = current /\ pc' = pc /\ scheduled' = scheduled \cup {t}
        /\ phase[t] = "live" /\ t \notin scheduled /\ pc \in {"pop", "poll", "ret"}
    BY Zenon DEF Wake, Live
  <1>2. Miscount <=> pc = "pop" /\ current = t
    BY <1>1, Zenon DEF Miscount
  <1>3. CASE Polled(t)
    <2>1. queue' = queue /\ on_rq' = on_rq /\ nr_running' = nr_running /\ ~Miscount
      BY <1>2, <1>3, Zenon DEF Wake, Polled
    <2> QED BY <1>1, <2>1, Zenon DEF Kept, Same, counted
  <1>4. CASE ~Polled(t)
    <2>1. schedule_fn(t) /\ nr_running' = insert_task(tid[t])
      BY <1>4, Zenon DEF Wake, schedule_fn
    <2>2. counted' = counted \cup {t}
      BY <1>1, <2>1, ScheduleCounts, Zenon
    <2>3. tid[t] \in Tid /\ arena[tid[t]] = t /\ t # NoTask
      BY <1>0, <1>1, Zenon DEF ArenaInv
    <2>4. queue[tid[t]] # t
      BY <1>0, <1>1, <2>3, Zenon DEF WakeInv
    <2>5. CASE current = t
      <3>1. nr_running' = nr_running
        BY <2>1, <2>3, <2>5, Zenon DEF insert_task
      <3>2. CASE pc = "pop"
        <4>1. t \notin counted
          BY <1>0, <2>3, <2>4, <2>5, <3>2, CountedWhere, Zenon DEF RunInv
        <4> QED BY <1>2, <2>2, <2>5, <3>1, <3>2, <4>1, Zenon DEF Lost, OnlyAdded
      <3>3. CASE pc = "ret"
        <4>1. t \in counted
          BY <1>1, <2>5, <3>3, Zenon DEF CountInv, counted
        <4>2. counted' = counted
          BY <2>2, <4>1, Zenon
        <4> QED BY <1>2, <3>1, <3>3, <4>2, Zenon DEF Kept, Same
      <3> QED BY <1>1, <1>4, <2>5, <3>2, <3>3, Zenon DEF Polled
    <2>6. CASE current # t
      <3>1. t \notin counted
        BY <2>4, <2>6, CountedWhere, Zenon
      <3>2. current # NoTask => tid[current] # tid[t]
        <4> SUFFICES ASSUME current # NoTask PROVE arena[tid[current]] # t
          BY <2>3, Zenon
        <4>1. CASE phase[current] = "live"
          BY <1>0, <2>6, <4>1, Zenon DEF TypeOK, ArenaInv
        <4>2. CASE phase[current] # "live"
          BY <2>3, <4>2, Zenon DEF CountInv
        <4> QED BY <4>1, <4>2, Zenon
      <3>3. nr_running' = Inc(nr_running)
        BY <2>1, <3>2, Zenon DEF insert_task
      <3> QED BY <1>2, <2>2, <2>6, <3>1, <3>3, Zenon DEF Kept, Added
    <2> QED BY <2>5, <2>6, Zenon
  <1> QED BY <1>3, <1>4, Zenon

LEMMA PollPendingCounts ==
  ASSUME IInv, CountInv, PollPending
  PROVE  Kept
  <1>0. TypeOK /\ RunInv /\ ArenaInv
    BY Zenon DEF IInv
  <1>1. pc = "poll" /\ pc' = "ret" /\ current' = current /\ current \in Task
    BY <1>0, Zenon DEF PollPending, TypeOK
  <1>2. phase[current] = "live" /\ current # NoTask /\ current \in counted /\ ~Miscount
    BY <1>0, <1>1, ExecutorAssumption, Zenon DEF RunInv, CountInv, counted, Miscount
  <1>3. CASE current \in scheduled
    <2>1. schedule_fn(current) /\ nr_running' = insert_task(tid[current])
      BY <1>3, Zenon DEF PollPending, schedule_fn
    <2>2. nr_running' = nr_running
      BY <1>2, <2>1, Zenon DEF insert_task
    <2>3. counted' = counted \cup {current}
      BY <1>1, <1>2, <2>1, ScheduleCounts, Zenon
    <2>4. counted' = counted
      BY <1>2, <2>3, Zenon
    <2> QED BY <1>2, <2>2, <2>4, Zenon DEF Kept, Same
  <1>4. CASE current \notin scheduled
    <2>1. queue' = queue /\ on_rq' = on_rq /\ nr_running' = nr_running
      BY <1>4, Zenon DEF PollPending
    <2> QED BY <1>1, <1>2, <2>1, Zenon DEF Kept, Same, counted
  <1> QED BY <1>3, <1>4, Zenon

(* Marking a current task that is not queued as off the queue takes it out  *)
(* of those counted, and no other task.                                     *)
LEMMA OffCounts ==
  ASSUME IInv, current \in Task, on_rq' = off_rq, queue' = queue, current' = current,
         \A i \in Tid : queue[i] # current
  PROVE  counted' = counted \ {current}
  <1>1. ASSUME NEW u \in Task \ {current} PROVE u \in counted' <=> u \in counted
    BY Zenon DEF counted
  <1>2. current \notin counted'
    <2>1. on_rq'[current] = FALSE
      BY Zenon DEF IInv, TypeOK, off_rq
    <2> QED BY <2>1, Zenon DEF counted
  <1>3. counted' \subseteq Task /\ counted \subseteq Task
    BY Zenon DEF counted
  <1> QED BY <1>1, <1>2, <1>3, Zenon

LEMMA PollReadyCounts ==
  ASSUME IInv, CountInv, PollReady
  PROVE  Kept
  <1>0. TypeOK /\ RunInv /\ WakeInv
    BY Zenon DEF IInv
  <1>1. /\ pc = "poll" /\ pc' = "ret" /\ current' = current /\ current \in Task
        /\ queue' = queue /\ on_rq' = off_rq /\ nr_running' = Dec(nr_running)
    BY <1>0, Zenon DEF PollReady, TypeOK
  <1>2. current # NoTask /\ current \in counted /\ ~Miscount
    BY <1>0, <1>1, ExecutorAssumption, Zenon DEF RunInv, CountInv, counted, Miscount
  <1>3. ASSUME NEW i \in Tid PROVE queue[i] # current
    BY <1>0, <1>1, <1>2, Zenon DEF WakeInv, Polled
  <1>4. counted' = counted \ {current}
    BY <1>1, <1>3, OffCounts, Zenon
  <1> QED BY <1>1, <1>2, <1>4, Zenon DEF Kept, Taken

LEMMA ReturnCounts ==
  ASSUME IInv, CountInv, Return
  PROVE  Kept \/ Lost
  <1>0. TypeOK /\ RunInv /\ WakeInv /\ QueuedIsActive
    BY QueuedActive, Zenon DEF IInv
  <1>1. /\ pc = "ret" /\ pc' = "pop" /\ current' = current /\ current \in Task
        /\ queue' = queue
        /\ is_yielded \/ queue[tid[current]] = NoTask
    BY <1>0, Zenon DEF Return, TypeOK
  <1>2. current # NoTask /\ phase[current] \in {"live", "completed"}
    BY <1>0, <1>1, ExecutorAssumption, Zenon DEF TypeOK, CountInv
  <1>3. Miscount <=> phase[current] = "completed"
    BY <1>1, Zenon DEF Miscount
  <1>4. CASE is_yielded
    <2>1. phase[current] = "live"
      BY <1>0, <1>1, <1>4, Zenon DEF RunInv, WakeInv
    <2>2. on_rq' = on_rq /\ nr_running' = nr_running
      BY <1>4, Zenon DEF Return
    <2>3. ~Miscount
      BY <1>3, <2>1
    <2> QED BY <1>1, <2>2, <2>3, Zenon DEF Kept, Same, counted
  <1>5. CASE ~is_yielded
    <2>1. on_rq' = off_rq /\ nr_running' = Dec(nr_running)
      BY <1>5, SMTT(30), Zenon DEF Return
    <2>2. \A i \in Tid : queue[i] # current
      <3>1. \A i \in Tid : queue[i] = current => tid[current] = i
        BY <1>0, <1>2, Zenon DEF QueuedIsActive
      <3> QED BY <1>1, <1>2, <1>5, <3>1, Zenon
    <2>3. counted' = counted \ {current}
      BY <1>1, <2>1, <2>2, OffCounts, Zenon
    <2>4. CASE phase[current] = "live"
      <3>1. current \in counted
        BY <1>1, <2>4, Zenon DEF CountInv, counted
      <3>2. phase[current] # "completed"
        BY <2>4
      <3> QED BY <1>3, <2>1, <2>3, <3>1, <3>2, Zenon DEF Kept, Taken
    <2>5. CASE phase[current] = "completed"
      <3>0. phase[current] # "live"
        BY <2>5
      <3>1. ~on_rq[current]
        BY <1>1, <3>0, Zenon DEF CountInv
      <3>2. current \notin counted
        BY <2>2, <3>1, Zenon DEF counted
      <3>3. counted' = counted
        BY <2>3, <3>2, Zenon
      <3> QED BY <1>3, <2>1, <2>5, <3>3, Zenon DEF Lost, OnlyDec
    <2> QED BY <1>2, <2>4, <2>5, Zenon
  <1> QED BY <1>4, <1>5, Zenon

LEMMA ReturnHangsCounts ==
  ASSUME IInv, CountInv, ReturnHangs
  PROVE  Lost
  <1>0. TypeOK /\ ArenaInv /\ QueuedIsActive
    BY QueuedActive, Zenon DEF IInv
  <1>1. /\ pc = "ret" /\ pc' = "hung" /\ current' = current /\ current \in Task
        /\ queue' = [queue EXCEPT ![tid[current]] = NoTask] /\ queue[tid[current]] # NoTask
        /\ on_rq' = [on_rq EXCEPT ![current] = FALSE] /\ nr_running' = nr_running
    BY <1>0, Zenon DEF ReturnHangs, off_rq, TypeOK
  <1>2. current # NoTask /\ tid[current] \in Tid
    BY <1>0, <1>1, ExecutorAssumption, Zenon DEF ArenaInv
  <1>3. queue[tid[current]] = current
    <2>1. arena[tid[current]] = queue[tid[current]]
      BY <1>0, <1>1, <1>2, Zenon DEF QueuedIsActive
    <2>2. phase[current] = "live"
      BY <1>1, <1>2, <2>1, Zenon DEF CountInv
    <2> QED BY <1>0, <1>1, <2>1, <2>2, Zenon DEF ArenaInv
  <1>4. current \in counted
    BY <1>1, <1>2, <1>3, Zenon DEF counted
  <1>5. ASSUME NEW u \in Task \ {current} PROVE u \in counted' <=> u \in counted
    <2>1. u # NoTask
      BY ExecutorAssumption, Zenon
    <2>2. (\E j \in Tid : queue'[j] = u) <=> (\E j \in Tid : queue[j] = u)
      BY <1>0, <1>1, <1>2, <1>3, <2>1, Zenon DEF TypeOK
    <2> QED BY <1>1, <2>2, Zenon DEF counted
  <1>6. current \notin counted'
    <2>1. on_rq'[current] = FALSE
      BY <1>0, <1>1, Zenon DEF TypeOK
    <2>2. \A j \in Tid : queue[j] = current => tid[current] = j
      BY <1>0, <1>2, Zenon DEF QueuedIsActive
    <2>3. \A j \in Tid : queue'[j] # current
      BY <1>0, <1>1, <1>2, <2>2, Zenon DEF TypeOK
    <2> QED BY <2>1, <2>3, Zenon DEF counted
  <1>7. counted' \subseteq Task /\ counted \subseteq Task
    BY Zenon DEF counted
  <1>8. counted' = counted \ {current}
    BY <1>5, <1>6, <1>7, Zenon
  <1> QED BY <1>1, <1>4, <1>8, Zenon DEF Lost, OnlyTaken, Miscount

LEMMA NextCounts == IInv /\ CountInv /\ [Next]_vars => Kept \/ Lost
  <1> SUFFICES ASSUME IInv, CountInv, [Next]_vars PROVE Kept \/ Lost
    BY Zenon
  <1>1. CASE StartRun \/ PopPanics
    <2>1. /\ pc' # "hung" /\ pc # "ret" /\ scheduled' = scheduled
          /\ queue' = queue /\ current' = current /\ on_rq' = on_rq /\ nr_running' = nr_running
      BY <1>1, Zenon DEF StartRun, PopPanics, taskVars, rqVars
    <2> QED BY <2>1, Zenon DEF Kept, Same, Miscount, counted
  <1>2. CASE UNCHANGED vars
    BY <1>2, Zenon DEF vars, Kept, Same, Miscount, counted
  <1> QED
    BY <1>1, <1>2, SpawnCounts, PopCounts, WakeCounts, PollPendingCounts, PollReadyCounts,
       ReturnCounts, ReturnHangsCounts, Zenon DEF Next

(* As long as there are no more tasks than a usize counts, nr_running turns *)
(* wrong exactly when run() removes a task that has completed, when an      *)
(* interrupt wakes the removed task before the next one is current, or when *)
(* remove_task hangs: every other step that finds it right leaves it right. *)
THEOREM CountLostWhere ==
  ASSUME IsFiniteSet(Task), Cardinality(Task) <= UsizeMax
  PROVE  Spec => [][InStep => (InStep' <=> ~Miscount)]_vars
  <1>1. Init => CountInv
    <2> SUFFICES ASSUME Init PROVE CountInv
      BY Zenon
    <2>1. PICK i \in Tid :
            /\ arena = [j \in Tid |-> IF j = i THEN Idle ELSE NoTask] /\ queue = arena
            /\ on_rq = [t \in Task |-> t = Idle] /\ current = NoTask /\ pc = "boot"
      BY Zenon DEF Init
    <2>2. on_rq[Idle] /\ \A j \in Tid : queue[j] = NoTask \/ queue[j] = Idle
      BY <2>1, ExecutorAssumption, Zenon
    <2>3. pc # "poll" /\ pc # "ret"
      BY <2>1, Zenon
    <2> QED BY <2>1, <2>2, <2>3, Zenon DEF CountInv
  <1>2. IInv /\ CountInv /\ [Next]_vars => [InStep => (InStep' <=> ~Miscount)]_vars
    BY NextCounts, CountMoves, Zenon DEF Kept, Lost
  <1> QED BY <1>1, <1>2, InitIInv, NextIInv, NextCountInv, PTL DEF Spec
=============================================================================
