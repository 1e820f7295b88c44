------------------------------ MODULE Process -------------------------------
(***************************************************************************)
(* Processes and threads: the tables PROCESSES and THREADS, and the system *)
(* calls fork, clone, exit, exit_group and wait4 (process/mod.rs,          *)
(* process/thread.rs, syscall/process.rs).                                 *)
(*                                                                         *)
(* A thread runs as one task of the only executor, with interrupts off     *)
(* while it is polled, so what it does between two awaits is one step.     *)
(* The one await of these calls is wait_for_event in sys_wait4.            *)
(*                                                                         *)
(* A Process or Thread object is freed when its last Arc goes; a Weak then *)
(* no longer upgrades.  Files, memory and signals of a process are not     *)
(* part of this module.  The Vec of children is a set: which of several    *)
(* exited children wait4 reports first is left open.                       *)
(***************************************************************************)
EXTENDS Integers, FiniteSets

CONSTANTS
  Proc, Thread,          \* the Process and Thread objects of a run
  NoProc, NoThread,      \* an empty table slot; no such object
  InitProc, InitThread,  \* what Thread::new_user made first
  MaxTid,                \* bound: the number of thread ids
  Code                   \* exit codes

ASSUME ProcessAssumption ==
  /\ InitProc \in Proc /\ NoProc \notin Proc
  /\ InitThread \in Thread /\ NoThread \notin Thread
  /\ MaxTid \in Nat \ {0}
  /\ Code \subseteq Nat

VARIABLES
  THREADS,    \* tid -> Thread
  PROCESSES,  \* pid -> Process
  process,    \* Thread.process
  tid,        \* Thread.tid
  state,      \* where the task of a thread is
  target,     \* the pid argument of the wait4 a thread is in (else AnyChild)
  pid,        \* Process.pid
  parent,     \* Process.parent
  children,   \* Process.children
  threads,    \* Process.threads
  exit_code,  \* Process.exit_code
  bus,        \* Process.event_bus
  hung        \* the CPU has stopped: it spins on a lock of its own, or panicked

tables == <<THREADS, PROCESSES>>
procVars == <<pid, parent, children, threads, exit_code, bus>>
vars == <<THREADS, PROCESSES, process, tid, state, target, pid, parent,
          children, threads, exit_code, bus, hung>>

EB == INSTANCE EventBus

Tids == 1..MaxTid                                    \* PID_INIT..

CHILD_PROCESS_QUIT == {"CHILD_PROCESS_QUIT"}
PROCESS_QUIT == {"PROCESS_QUIT"}

\* wait4: -1 and 0 stand for any child, a positive pid for itself.
AnyChild == 0
Target == {AnyChild} \cup Tids

\* Process::exited.
exited(p) == threads[p] = {}

\* The future of the thread has not completed: it holds an Arc of the thread.
Running(t) == state[t] \in {"user", "asleep", "woken"}

\* Weak::upgrade: does an Arc of the process exist?
upgrade(p) ==
  \/ \E i \in Tids : PROCESSES[i] = p
  \/ \E t \in Thread : process[t] = p /\ (Running(t) \/ \E i \in Tids : THREADS[i] = t)

\* Mutant of free_tid: ids are looked up in the process table.
Mut_free_tid(i) == PROCESSES[i] = NoProc /\ \A j \in 1..(i - 1) : PROCESSES[j] # NoProc

\* Thread::add_to_table: the lowest tid that is not in THREADS.
free_tid(i) == THREADS[i] = NoThread /\ \A j \in 1..(i - 1) : THREADS[j] # NoThread
-----------------------------------------------------------------------------
\* Thread::new_user: the first process does not list its thread.
Init ==
  /\ THREADS = [i \in Tids |-> IF i = 1 THEN InitThread ELSE NoThread]
  /\ PROCESSES = [i \in Tids |-> IF i = 1 THEN InitProc ELSE NoProc]
  /\ process = [t \in Thread |-> IF t = InitThread THEN InitProc ELSE NoProc]
  /\ tid = [t \in Thread |-> IF t = InitThread THEN 1 ELSE 0]
  /\ state = [t \in Thread |-> IF t = InitThread THEN "user" ELSE "none"]
  /\ target = [t \in Thread |-> AnyChild]
  /\ pid = [p \in Proc |-> IF p = InitProc THEN 1 ELSE 0]
  /\ parent = [p \in Proc |-> NoProc]
  /\ children = [p \in Proc |-> {}]
  /\ threads = [p \in Proc |-> {}]
  /\ exit_code = [p \in Proc |-> 0]
  /\ bus = [p \in Proc |-> EB!new]
  /\ hung = FALSE

\* Mutant of Trap: the exit flag of a system call is ignored.
Mut_Trap(t) == ~hung /\ state[t] \in {"user", "done"}

\* A thread in user mode enters the kernel.
Trap(t) == ~hung /\ state[t] = "user"

(***************************************************************************)
(* sys_fork: Thread::fork makes process c with the one thread u.           *)
(***************************************************************************)
Fork(t) ==
  \E c \in Proc, u \in Thread, i \in Tids :
    /\ Trap(t)
    /\ pid[c] = 0 /\ state[u] = "none"
    /\ free_tid(i)
    /\ THREADS' = [THREADS EXCEPT ![i] = u]
    /\ PROCESSES' = [PROCESSES EXCEPT ![i] = c]
    /\ process' = [process EXCEPT ![u] = c]
    /\ tid' = [tid EXCEPT ![u] = i]
    /\ state' = [state EXCEPT ![u] = "user"]
    /\ pid' = [pid EXCEPT ![c] = i]
    /\ parent' = [parent EXCEPT ![c] = process[t]]
    /\ threads' = [threads EXCEPT ![c] = {i}]
    /\ children' = [children EXCEPT ![process[t]] = @ \cup {c}]
    /\ UNCHANGED <<target, exit_code, bus, hung>>

\* sys_clone of a pthread: Thread::new_clone makes thread u of the same process.
Clone(t) ==
  \E u \in Thread, i \in Tids :
    /\ Trap(t)
    /\ state[u] = "none"
    /\ free_tid(i)
    /\ THREADS' = [THREADS EXCEPT ![i] = u]
    /\ process' = [process EXCEPT ![u] = process[t]]
    /\ tid' = [tid EXCEPT ![u] = i]
    /\ state' = [state EXCEPT ![u] = "user"]
    /\ threads' = [threads EXCEPT ![process[t]] = @ \cup {i}]
    /\ UNCHANGED <<PROCESSES, target, pid, parent, children, exit_code, bus, hung>>

\* Mutant of exit: the parent is not told.
Mut_exit(p, t, own, code) ==
  /\ bus' = [bus EXCEPT ![p] = EB!change(@, {}, PROCESS_QUIT)]
  /\ state' = [state EXCEPT ![t] = "done"]
  /\ exit_code' = [exit_code EXCEPT ![p] = code]
  /\ THREADS' = [i \in Tids |-> IF i \in own THEN NoThread ELSE THREADS[i]]
  /\ threads' = [threads EXCEPT ![p] = {}]

(***************************************************************************)
(* Process::exit, for the process p of thread t whose thread list is own:  *)
(* set PROCESS_QUIT, tell the parent, drop the listed threads from THREADS.*)
(* Thread t returns from its future; other threads of p keep running.      *)
(***************************************************************************)
exit(p, t, own, code) ==
  LET q     == parent[p]
      tell  == q # NoProc /\ upgrade(q)
      woken == EB!wakes(bus[p], {}, PROCESS_QUIT) \cup
               IF tell THEN EB!wakes(bus[q], {}, CHILD_PROCESS_QUIT) ELSE {}
  IN  /\ bus' = [r \in Proc |->
                   IF r = p THEN EB!change(bus[r], {}, PROCESS_QUIT)
                   ELSE IF tell /\ r = q THEN EB!change(bus[r], {}, CHILD_PROCESS_QUIT)
                   ELSE bus[r]]
      /\ state' = [u \in Thread |->
                     IF u = t THEN "done"
                     ELSE IF u \in woken /\ state[u] = "asleep" THEN "woken"
                     ELSE state[u]]
      /\ exit_code' = [exit_code EXCEPT ![p] = code]
      /\ THREADS' = [i \in Tids |-> IF i \in own THEN NoThread ELSE THREADS[i]]
      /\ threads' = [threads EXCEPT ![p] = {}]

\* sys_exit: the thread leaves the list first, so its own tid stays in THREADS.
Exit(t) ==
  LET p == process[t]
      rest == threads[p] \ {tid[t]}
  IN  /\ Trap(t)
      /\ IF rest = {}
         THEN \E code \in Code : exit(p, t, rest, code)
         ELSE /\ threads' = [threads EXCEPT ![p] = rest]
              /\ state' = [state EXCEPT ![t] = "done"]
              /\ UNCHANGED <<THREADS, exit_code, bus>>
      /\ UNCHANGED <<PROCESSES, process, tid, target, pid, parent, children, hung>>

\* sys_exit_group.
ExitGroup(t) ==
  /\ Trap(t)
  /\ \E code \in Code : exit(process[t], t, threads[process[t]], code)
  /\ UNCHANGED <<PROCESSES, process, tid, target, pid, parent, children, hung>>

\* Mutant of find: a child that still runs is reported.
Mut_find(p, tgt) == {c \in children[p] : upgrade(c) /\ tgt \in {AnyChild, pid[c]}}

\* sys_wait4: the exited processes that answer a wait of process p.
find(p, tgt) ==
  IF tgt = AnyChild THEN {c \in children[p] : upgrade(c) /\ exited(c)}
                    ELSE {c \in Proc : PROCESSES[tgt] = c /\ exited(c)}

\* sys_wait4: the check that leads to ECHILD.
invalid(p, tgt) ==
  ~\E c \in children[p] : upgrade(c) /\ (tgt = AnyChild \/ pid[c] = tgt)

(***************************************************************************)
(* One turn of the loop of sys_wait4.  Reaping removes the pid, not the    *)
(* process, from the table and from the children.  Otherwise the thread    *)
(* subscribes; an old CHILD_PROCESS_QUIT makes wait_for_event ready once   *)
(* and is cleared, after which the same turn finds the same.               *)
(***************************************************************************)
Reap(t, tgt) ==
  \E c \in find(process[t], tgt) :
    /\ PROCESSES' = [PROCESSES EXCEPT ![pid[c]] = NoProc]
    /\ children' = [children EXCEPT ![process[t]] = {d \in @ : pid[d] # pid[c]}]

ECHILD(t, tgt) ==
  /\ find(process[t], tgt) = {}
  /\ invalid(process[t], tgt)
  /\ UNCHANGED <<PROCESSES, children>>

WaitTurn(t, tgt, bus0) ==
  \/ /\ Reap(t, tgt) \/ ECHILD(t, tgt)
     /\ bus' = bus0
     /\ state' = [state EXCEPT ![t] = "user"]
     /\ target' = [target EXCEPT ![t] = AnyChild]
  \/ /\ find(process[t], tgt) = {}
     /\ ~invalid(process[t], tgt)
     /\ bus' = [bus0 EXCEPT ![process[t]] =
                  EB!subscribe(EB!change(@, CHILD_PROCESS_QUIT, {}), t, CHILD_PROCESS_QUIT)]
     /\ state' = [state EXCEPT ![t] = "asleep"]
     /\ target' = [target EXCEPT ![t] = tgt]
     /\ UNCHANGED <<PROCESSES, children>>

\* A call of sys_wait4; a wait for the caller's own pid is WaitHangs.
Wait(t) ==
  \E tgt \in Target :
    /\ Trap(t)
    /\ tgt # AnyChild => PROCESSES[tgt] # process[t]
    /\ WaitTurn(t, tgt, bus)
    /\ UNCHANGED <<THREADS, process, tid, pid, parent, threads, exit_code, hung>>

\* sys_wait4 holds the lock of the process that WaitFor::Pid looks up and locks.
WaitHangs(t) ==
  /\ Trap(t)
  /\ \E i \in Tids : PROCESSES[i] = process[t]
  /\ hung' = TRUE
  /\ UNCHANGED <<tables, procVars, process, tid, state, target>>

\* sys_wait4 with a pid below -1 is unimplemented!(): kernel panic.
WaitPanics(t) ==
  /\ Trap(t)
  /\ hung' = TRUE
  /\ UNCHANGED <<tables, procVars, process, tid, state, target>>

\* Mutant of Resume: a woken thread is polled only while it is subscribed.
Mut_Resume(t) ==
  /\ ~hung /\ state[t] = "woken"
  /\ \E c \in bus[process[t]].callbacks : c.waker = t
  /\ state' = [state EXCEPT ![t] = "asleep"]
  /\ UNCHANGED <<tables, procVars, process, tid, target, hung>>

(***************************************************************************)
(* A woken thread polls EventBusFuture again.  If CHILD_PROCESS_QUIT is    *)
(* still set it clears it and takes another turn of the loop; if another   *)
(* thread has cleared it, the thread subscribes again without looking.     *)
(***************************************************************************)
Resume(t) ==
  LET p == process[t]
  IN  /\ ~hung /\ state[t] = "woken"
      /\ IF EB!ready(bus[p], CHILD_PROCESS_QUIT)
         THEN WaitTurn(t, target[t],
                       [bus EXCEPT ![p] = EB!change(@, CHILD_PROCESS_QUIT, {})])
         ELSE /\ bus' = [bus EXCEPT ![p] = EB!subscribe(@, t, CHILD_PROCESS_QUIT)]
              /\ state' = [state EXCEPT ![t] = "asleep"]
              /\ UNCHANGED <<PROCESSES, children, target>>
      /\ UNCHANGED <<THREADS, process, tid, pid, parent, threads, exit_code, hung>>

Next ==
  \E t \in Thread :
    \/ Fork(t) \/ Clone(t) \/ Exit(t) \/ ExitGroup(t)
    \/ Wait(t) \/ WaitHangs(t) \/ WaitPanics(t) \/ Resume(t)

\* The executor polls every woken task again.
Fairness == \A t \in Thread : WF_vars(Resume(t))

Spec == Init /\ [][Next]_vars /\ Fairness
-----------------------------------------------------------------------------
(***************************************************************************)
(* Properties.                                                             *)
(***************************************************************************)

(* Type invariant of the tables, the processes and the threads. *)
TypeOK ==
  /\ THREADS \in [Tids -> Thread \cup {NoThread}]
  /\ PROCESSES \in [Tids -> Proc \cup {NoProc}]
  /\ process \in [Thread -> Proc \cup {NoProc}]
  /\ tid \in [Thread -> Tids \cup {0}]
  /\ state \in [Thread -> {"none", "user", "asleep", "woken", "done"}]
  /\ target \in [Thread -> Target]
  /\ pid \in [Proc -> Tids \cup {0}]
  /\ parent \in [Proc -> Proc \cup {NoProc}]
  /\ children \in [Proc -> SUBSET Proc]
  /\ threads \in [Proc -> SUBSET Tids]
  /\ exit_code \in [Proc -> Code \cup {0}]
  /\ bus \in [Proc -> [event : SUBSET {"PROCESS_QUIT", "CHILD_PROCESS_QUIT"},
                        callbacks : SUBSET [waker : Thread, mask : {CHILD_PROCESS_QUIT}]]]
  /\ hung \in BOOLEAN
  /\ \A t \in Thread : state[t] # "none" => process[t] \in Proc /\ tid[t] \in Tids

(* Tids are reused as soon as they leave THREADS, yet a tid that a process *)
(* lists always names a thread of that very process; hence no two          *)
(* processes list the same tid and process_of has one answer.              *)
ThreadsListed ==
  \A p \in Proc : \A i \in threads[p] :
    THREADS[i] # NoThread /\ process[THREADS[i]] = p /\ tid[THREADS[i]] = i

(* No thread sleeps through an event: a thread is asleep in wait4 exactly  *)
(* while its waker is subscribed to the bus of its process, and nobody is  *)
(* subscribed while CHILD_PROCESS_QUIT is set.                             *)
NoMissedEvent ==
  /\ \A t \in Thread : \A p \in Proc :
       (state[t] = "asleep" /\ process[t] = p) <=>
         [waker |-> t, mask |-> CHILD_PROCESS_QUIT] \in bus[p].callbacks
  /\ \A p \in Proc : CHILD_PROCESS_QUIT \subseteq bus[p].event => bus[p].callbacks = {}

\* c has exited and can still be reaped under its pid.
Zombie(c) == pid[c] # 0 /\ exited(c) /\ PROCESSES[pid[c]] = c

\* c is a child that the wait4 of thread t waits for.
WaitsFor(t, c) ==
  /\ state[t] \in {"asleep", "woken"}
  /\ c \in children[process[t]]
  /\ target[t] \in {AnyChild, pid[c]}

\* No process has had a second thread so far (the objects of finished threads
\* keep their process).
OneThreadEach ==
  \A t, u \in Thread :
    state[t] # "none" /\ state[u] # "none" /\ process[t] = process[u] => t = u

(* "Wait for the process exit": wait4 never sleeps on a child that has     *)
(* exited and waits to be reaped.                                          *)
NoZombieAsleep ==
  \A t \in Thread : \A c \in Proc :
    state[t] = "asleep" /\ WaitsFor(t, c) => ~Zombie(c)

(* As long as no program has cloned a thread, wait4 never sleeps on a      *)
(* zombie it waits for, whichever child exits between the check of the     *)
(* children, the subscription and the next poll.                           *)
SoleWaiterSees == OneThreadEach => NoZombieAsleep

\* A process that lists a thread is found under its pid.
RunningInTable ==
  \A p \in Proc : threads[p] # {} => PROCESSES[pid[p]] = p

(* As long as no program has cloned a thread, the process table is         *)
(* complete, although pids are reused and wait4 removes entries by pid.    *)
TableComplete == OneThreadEach => RunningInTable

(* As long as no program has cloned a thread, the exit code that wait4     *)
(* will report does not change once the process has exited.                *)
ExitCodeKept ==
  [][OneThreadEach =>
       \A p \in Proc \ {InitProc} :
         pid[p] # 0 /\ exited(p) => exit_code'[p] = exit_code[p]]_vars

(* A wait4 for a child that is a zombie returns, unless the zombie is      *)
(* taken away, a program clones a thread, or the CPU stops.                *)
WaitReturns ==
  \A t \in Thread : \A c \in Proc :
    (OneThreadEach /\ WaitsFor(t, c) /\ Zombie(c)) ~>
      (state[t] = "user" \/ ~Zombie(c) \/ ~OneThreadEach \/ hung)

(* "Exit the process. Kill all threads": a process that has quit has no    *)
(* thread that goes on to make new ones, so it stays exited.               *)
ExitIsFinal ==
  \A p \in Proc : PROCESS_QUIT \subseteq bus[p].event => exited(p)

(* "Store exit code": a child stays in the list of its parent until it is  *)
(* reaped, so its Process object must exist that long.                     *)
ChildKept ==
  \A p \in Proc : \A c \in children[p] : upgrade(c)
=============================================================================
