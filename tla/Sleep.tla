-------------------------------- MODULE Sleep --------------------------------
(***************************************************************************)
(* Threads of one process that sleep in sys_nanosleep while the timer      *)
(* interrupt runs and signals arrive: SleepFuture (syscall/process.rs),    *)
(* send_signal and handle_signal (signal/mod.rs), has_signal_to_handle and *)
(* the loop of Thread::spawn (process/thread.rs), over the timer queue and *)
(* the event bus of the process.                                           *)
(*                                                                         *)
(* A thread is polled with interrupts off on the one CPU that runs tasks,  *)
(* so what it does from a trap to the next return to user mode is one      *)
(* uninterrupted piece of work.  `cur` is the thread inside handle_signal, *)
(* one step per turn of its loop; nothing else happens meanwhile.          *)
(* wake() makes a sleeping thread runnable and means nothing to one that   *)
(* is queued already: the executor is the module Executor.                 *)
(***************************************************************************)
EXTENDS Timer, EventBus, Sequences

CONSTANTS
  Thread,
  Horizon,      \* bound on the counter
  MaxShift,     \* bound on the nanoseconds that Timer::add moves a deadline by
  Duration,     \* the times each thread asks sys_nanosleep for
  Infinite,     \* i64::max_value() nanoseconds: from here on no timer is set
  Request,      \* the arguments that send_signal is called with
  Dispositions, \* Process.dispositions
  AltStack,     \* signal_alternate_stack.flags of each thread at the start
  MaxSent,      \* bound on the signals sent
  None          \* no thread

\* signal/mod.rs, signal/action.rs: the constants the code tells apart.
RTMIN == 32
SIGHUP == 1
SIGINT == 2
SIGALRM == 14
SIG_DFL == 0
SIG_IGN == 1
SIG_ERR == 2147483646   \* usize::max_value() - 1, in the width of TLC's integers
SignalStackFlags == {"ONSTACK", "DISABLE", "AUTODISARM"}

\* tid -1: any thread of the process may take the signal.
AnyThread == None

EINTR == -4
FrameSize == 3

Signal == {r.signo : r \in Request}

SignalAssumption ==
  /\ Request \subseteq [signo : 1..64, tid : Thread \cup {AnyThread}]
  /\ Dispositions \in [Signal -> [handler : Nat, mask : SUBSET (0..63), onstack : BOOLEAN]]
  /\ AltStack \in [Thread -> SUBSET SignalStackFlags]
  /\ None \notin Thread

\* An alternate stack is armed once: no call of this kernel arms one at all.
StackAssumption ==
  \A t \in Thread : "DISABLE" \in AltStack[t] \/ "AUTODISARM" \in AltStack[t]

BoundAssumption ==
  /\ Horizon \in Nat /\ Horizon * Nsec < Width
  /\ Infinite \in Nat /\ Infinite > Width
  /\ Duration \in [Thread -> SUBSET (0..Infinite)]
  /\ MaxSent \in Nat /\ MaxShift \in Nat

ASSUME SleepAssumption == SignalAssumption /\ StackAssumption /\ BoundAssumption

VARIABLES
  count,           \* CNTPCT_EL0
  events,          \* TIMER.events
  bus,             \* Process.event_bus
  sig_queue,       \* Process.sig_queue
  pending_sigset,  \* Process.pending_sigset, as the set of its bits
  sent,            \* calls of send_signal so far
  exit_code,       \* Process.exit_code
  pc,              \* where each thread is
  sleep,           \* each thread's SleepFuture
  sig_mask,        \* ThreadInner.sig_mask
  alt_flags,       \* ThreadInner.signal_alternate_stack.flags
  tf,              \* each thread's UserContext
  frames,          \* the SignalFrames on each thread's stacks
  cur,             \* the thread inside handle_signal
  halted           \* the kernel has panicked

signals == <<sig_queue, pending_sigset, sent, exit_code>>
stacks == <<sig_mask, alt_flags, frames>>
vars == <<count, events, bus, signals, pc, sleep, stacks, tf, cur, halted>>

now == read_ns(count)
Idle == ~halted /\ cur = None
-----------------------------------------------------------------------------
\* Sigset: a word of 64 bits; `1 << sig` takes sig modulo 64 in a release build.
bit(sig) == sig % 64

is_standard(sig) == sig < RTMIN

\* Thread::has_signal_to_handle, and the find_map of handle_signal.
Deliverable(t) ==
  {i \in 1..Len(sig_queue) :
     /\ sig_queue[i].tid \in {AnyThread, t}
     /\ bit(sig_queue[i].signo) \notin sig_mask[t]}
has_signal_to_handle(t) == Deliverable(t) # {}
FirstDeliverable(t) ==
  {i \in Deliverable(t) : \A j \in Deliverable(t) : i <= j}

\* MachineContext::from_tf.  The registers that are treated alike, x3 to x30 but
\* for x11 and x13 and the saved pstate, are `rest`; x11 is saved from x13.
from_tf(context) == [context EXCEPT !.x11 = context.x13]

\* set_signal_handler.
set_signal_handler(context, sp, action, sig) ==
  [context EXCEPT !.sp = sp, !.pc = action.handler,
                  !.x0 = sig, !.x1 = sp + 1, !.x2 = sp + 2]

AltTop == -100   \* stack.sp + stack.size: apart from the main stack
UserContext == [x0 |-> 0, x1 |-> 21, x2 |-> 22, x11 |-> 11, x13 |-> 13, rest |-> 30,
                sp |-> 0, pc |-> 60]
-----------------------------------------------------------------------------
Init ==
  /\ count = 0
  /\ events = {} /\ bus = new
  /\ sig_queue = <<>> /\ pending_sigset = {} /\ sent = 0 /\ exit_code = 0
  /\ pc = [t \in Thread |-> "user"]
  /\ sleep = [t \in Thread |-> [deadline |-> 0, duration |-> 0]]
  /\ sig_mask = [t \in Thread |-> {}]
  /\ alt_flags = AltStack
  /\ tf = [t \in Thread |-> UserContext]
  /\ frames = [t \in Thread |-> <<>>]
  /\ cur = None /\ halted = FALSE

\* wake(): a sleeping thread becomes runnable.
Wake(threads) ==
  pc' = [t \in Thread |-> IF t \in threads /\ pc[t] = "asleep" THEN "woken" ELSE pc[t]]

\* Time passes.
Tick ==
  /\ Idle /\ count < Horizon
  /\ count' = count + 1
  /\ UNCHANGED <<events, bus, signals, pc, sleep, stacks, tf, cur, halted>>

\* GenericTimer::handle_interrupt: it comes again and again, and is of no
\* consequence here unless an entry has expired.
TimerInterrupt ==
  /\ Idle /\ Expired(events, now) # {}
  /\ events' = expire(events, now)
  /\ Wake(expired_wakers(events, now))
  /\ UNCHANGED <<count, bus, signals, sleep, stacks, tf, cur, halted>>
-----------------------------------------------------------------------------
\* The thread returns from the call and goes on to handle_signal.
Return(t, result) ==
  /\ pc' = [pc EXCEPT ![t] = "user"]
  /\ sleep' = [sleep EXCEPT ![t] = [deadline |-> 0, duration |-> 0]]
  /\ tf' = [tf EXCEPT ![t].x0 = result]
  /\ cur' = IF has_signal_to_handle(t) THEN t ELSE None
  /\ UNCHANGED <<events, bus>>

\* Mutant of Ready: a thread that was woken does not look at the clock again.
Mut_Ready(t, deadline) == pc[t] = "woken" \/ now >= deadline \/ has_signal_to_handle(t)

\* SleepFuture::poll: is the future ready?
Ready(t, deadline) == now >= deadline \/ has_signal_to_handle(t)

\* SleepFuture::poll, pending.
Block(t, deadline, duration) ==
  /\ ~Ready(t, deadline)
  /\ IF duration < Infinite THEN add(events, deadline, t, events') ELSE UNCHANGED events
  /\ bus' = subscribe(bus, t, EveryEvent)
  /\ pc' = [pc EXCEPT ![t] = "asleep"]
  /\ sleep' = [sleep EXCEPT ![t] = [deadline |-> deadline, duration |-> duration]]
  /\ UNCHANGED <<tf, cur>>

\* SleepFuture::poll, ready, and the check of sys_nanosleep after it.
Finish(t, deadline) ==
  /\ Ready(t, deadline)
  /\ Return(t, IF has_signal_to_handle(t) THEN EINTR ELSE 0)

\* sys_nanosleep up to its first await, or to its end.
Nanosleep(t, duration) ==
  /\ Idle /\ pc[t] = "user"
  /\ duration >= Infinite \/ now + duration + MaxShift <= read_ns(Horizon)
  /\ \/ duration = 0 /\ Return(t, 0)
     \/ duration # 0 /\ Finish(t, now + duration)
     \/ duration # 0 /\ Block(t, now + duration, duration)
  /\ UNCHANGED <<count, signals, stacks, halted>>

\* Mutant of Resume: the deadline is worked out anew.
Mut_Resume(t) ==
  /\ Idle /\ pc[t] = "woken"
  /\ \/ Finish(t, now + sleep[t].duration)
     \/ Block(t, now + sleep[t].duration, sleep[t].duration)
  /\ UNCHANGED <<count, signals, stacks, halted>>

\* The executor polls a thread that was woken.
Resume(t) ==
  /\ Idle /\ pc[t] = "woken"
  /\ \/ Finish(t, sleep[t].deadline)
     \/ Block(t, sleep[t].deadline, sleep[t].duration)
  /\ UNCHANGED <<count, signals, stacks, halted>>

\* Mutant of Trap: only signals for the process as a whole are looked for.
Mut_Trap(t) ==
  /\ Idle /\ pc[t] = "user"
  /\ \E i \in Deliverable(t) : sig_queue[i].tid = AnyThread
  /\ cur' = t
  /\ UNCHANGED <<count, events, bus, signals, pc, sleep, stacks, tf, halted>>

\* Any other trap of the loop of Thread::spawn: it ends in handle_signal, of no
\* consequence here unless there is a signal.
Trap(t) ==
  /\ Idle /\ pc[t] = "user" /\ has_signal_to_handle(t)
  /\ cur' = t
  /\ UNCHANGED <<count, events, bus, signals, pc, sleep, stacks, tf, halted>>
-----------------------------------------------------------------------------
\* Mutant of ChangeBus: the callbacks are not run.
Mut_ChangeBus(reset, set) ==
  bus' = [bus EXCEPT !.event = Changed(bus, reset, set)] /\ UNCHANGED pc

\* EventBus::change of the process's bus.
ChangeBus(reset, set) ==
  /\ bus' = change(bus, reset, set)
  /\ Wake(wakes(bus, reset, set))

\* Mutant of Queued: a standard signal is queued however often it is sent.
Mut_Queued(sig) == FALSE

\* send_signal returns early: the signal is pending already.
Queued(sig) == is_standard(sig) /\ bit(sig) \in pending_sigset

\* send_signal.
Send(sig, tid) ==
  /\ Idle /\ sent < MaxSent
  /\ sent' = sent + 1
  /\ IF Queued(sig)
     THEN UNCHANGED <<sig_queue, pending_sigset, bus, pc>>
     ELSE /\ sig_queue' = Append(sig_queue, [signo |-> sig, tid |-> tid])
          /\ pending_sigset' = pending_sigset \cup {bit(sig)}
          /\ ChangeBus({}, {"RECEIVE_SIGNAL"})
  /\ UNCHANGED <<count, events, exit_code, sleep, stacks, tf, cur, halted>>
-----------------------------------------------------------------------------
\* handle_signal: the signal leaves the queue, and what is behind it moves up.
Dequeue(t, i) ==
  /\ sig_queue' = [j \in 1..(Len(sig_queue) - 1) |-> sig_queue[IF j < i THEN j ELSE j + 1]]
  /\ pending_sigset' = pending_sigset \ {bit(sig_queue[i].signo)}

\* Process::exit, as far as it is about this process; the thread stops.
ExitProcess(t, code) ==
  /\ exit_code' = code
  /\ bus' = change(bus, {}, {"PROCESS_QUIT"})
  /\ pc' = [u \in Thread |->
       IF u = t THEN "done"
       ELSE IF u \in wakes(bus, {}, {"PROCESS_QUIT"}) /\ pc[u] = "asleep" THEN "woken"
       ELSE pc[u]]
  /\ cur' = None

\* The loop goes on while there is a signal to handle; then the thread returns
\* to user mode.
Continue(t) == cur' = IF has_signal_to_handle(t)' THEN t ELSE None

\* SIG_DFL and SIG_IGN.
Terminates(sig) ==
  Dispositions[sig].handler = SIG_DFL /\ sig \in {SIGALRM, SIGHUP, SIGINT}
TakeDefault(t, sig) ==
  /\ Dispositions[sig].handler \in {SIG_DFL, SIG_IGN}
  /\ UNCHANGED <<stacks, tf, halted>>
  /\ \/ Terminates(sig) /\ ExitProcess(t, sig + 128)
     \/ ~Terminates(sig) /\ Continue(t) /\ UNCHANGED <<exit_code, bus, pc>>

\* SIG_ERR: unimplemented!().
TakeError(t, sig) ==
  /\ Dispositions[sig].handler = SIG_ERR
  /\ halted' = TRUE
  /\ UNCHANGED <<exit_code, bus, pc, stacks, tf, cur>>

\* The stack the frame goes on.
OnAltStack(t, action) == action.onstack /\ "DISABLE" \notin alt_flags[t]
sig_sp(t, action) == (IF OnAltStack(t, action) THEN AltTop ELSE tf[t].sp) - FrameSize

\* Mutant of Frame: the context is saved after the handler's is set up.
Mut_Frame(t, sig, action) ==
  [signo |-> sig, sp |-> sig_sp(t, action), stack |-> alt_flags[t],
   context |-> from_tf(set_signal_handler(tf[t], sig_sp(t, action), action, sig)),
   sig_mask |-> sig_mask[t]]

\* The SignalFrame that is written to the stack.
Frame(t, sig, action) ==
  [signo |-> sig, sp |-> sig_sp(t, action), stack |-> alt_flags[t],
   context |-> from_tf(tf[t]), sig_mask |-> sig_mask[t]]

\* A handler is entered; the frame's memory may turn out not to be writable.
EnterHandler(t, sig, action) ==
  /\ action.handler \notin {SIG_DFL, SIG_IGN, SIG_ERR}
  /\ sig_mask' = [sig_mask EXCEPT ![t] = @ \cup {bit(sig)} \cup action.mask]
  /\ alt_flags' = [alt_flags EXCEPT ![t] =
       IF OnAltStack(t, action)
       THEN @ \cup {"ONSTACK"} \cup (IF "AUTODISARM" \in @ THEN {"DISABLE"} ELSE {})
       ELSE @]
  /\ \/ /\ frames' = [frames EXCEPT ![t] = Append(@, Frame(t, sig, action))]
        /\ tf' = [tf EXCEPT ![t] = set_signal_handler(@, sig_sp(t, action), action, sig)]
        /\ UNCHANGED halted
     \/ halted' = TRUE /\ UNCHANGED <<frames, tf>>
  /\ Continue(t)
  /\ UNCHANGED <<exit_code, bus, pc>>

\* One turn of the loop of handle_signal.
Deliver(t) ==
  /\ ~halted /\ cur = t /\ has_signal_to_handle(t)
  /\ \E i \in FirstDeliverable(t) :
       LET sig == sig_queue[i].signo
       IN  /\ Dequeue(t, i)
           /\ \/ TakeDefault(t, sig) \/ TakeError(t, sig)
              \/ EnterHandler(t, sig, Dispositions[sig])
  /\ UNCHANGED <<count, events, sent, sleep>>
-----------------------------------------------------------------------------
Next ==
  \/ Tick \/ TimerInterrupt
  \/ \E r \in Request : Send(r.signo, r.tid)
  \/ \E t \in Thread :
       \/ \E d \in Duration[t] : Nanosleep(t, d)
       \/ Resume(t) \/ Trap(t) \/ Deliver(t)

\* The clock runs, its interrupt is taken when it is not masked, the executor
\* polls what was woken, and a thread in user mode traps sooner or later: the
\* timer interrupts it.
Fairness ==
  /\ WF_vars(Tick) /\ WF_vars(TimerInterrupt)
  /\ \A t \in Thread : WF_vars(Resume(t)) /\ WF_vars(Trap(t)) /\ WF_vars(Deliver(t))

Safety == Init /\ [][Next]_vars
Spec == Safety /\ Fairness
-----------------------------------------------------------------------------
(***************************************************************************)
(* Properties.                                                             *)
(***************************************************************************)
Context == [x0 : Int, x1 : Int, x2 : Int, x11 : Int, x13 : Int, rest : Int,
            sp : Int, pc : Int]
FrameType == [signo : Signal, sp : Int, stack : SUBSET SignalStackFlags,
              context : Context, sig_mask : SUBSET (0..63)]
Callback == [waker : Thread, mask : {EveryEvent}]

\* The type of the state: the timer queue maps each deadline to one waker, the
\* bits of a Sigset are 0..63, and only a thread in user mode handles signals.
TypeOK ==
  /\ count \in 0..Horizon
  /\ events \subseteq [deadline : Nat, waker : Thread]
  /\ \A e, f \in events : e.deadline = f.deadline => e = f
  /\ bus \in [event : SUBSET {"RECEIVE_SIGNAL", "PROCESS_QUIT"}, callbacks : SUBSET Callback]
  /\ sent \in 0..MaxSent /\ exit_code \in Nat
  /\ sig_queue \in Seq([signo : Signal, tid : Thread \cup {AnyThread}])
  /\ pending_sigset \subseteq 0..63
  /\ pc \in [Thread -> {"user", "asleep", "woken", "done"}]
  /\ sleep \in [Thread -> [deadline : Nat, duration : Nat]]
  /\ sig_mask \in [Thread -> SUBSET (0..63)]
  /\ alt_flags \in [Thread -> SUBSET SignalStackFlags]
  /\ tf \in [Thread -> Context]
  /\ frames \in [Thread -> Seq(FrameType)]
  /\ cur \in Thread \cup {None} /\ (cur # None => pc[cur] = "user")
  /\ halted \in BOOLEAN

\* SleepFuture::poll leaves every way out open: a thread that sleeps for a
\* finite time has an entry in the timer queue at its deadline or later, also
\* when other threads sleep until the same time, when it was woken for nothing
\* and went back to sleep, and when stale entries of earlier sleeps expire; and
\* it is subscribed to the events of the process.
SleeperArmed ==
  \A t \in Thread : pc[t] = "asleep" =>
    /\ sleep[t].duration < Infinite =>
         \E e \in events : e.waker = t /\ e.deadline >= sleep[t].deadline
    /\ \E c \in bus.callbacks : c.waker = t

\* What the run checks of it: SleepFuture::poll keeps every sleeper armed
\* (SleeperArmed), in a state of the right type, the width of a Sigset included.
SleepInv == TypeOK /\ SleeperArmed

\* sys_nanosleep returns 0 only when the clock has reached its deadline: a waker
\* left behind by an earlier sleep, or by an event that concerns another thread,
\* ends no sleep early.
Asleep(t) == pc[t] \in {"asleep", "woken"}
NotEarly ==
  [][\A t \in Thread : Asleep(t) /\ pc'[t] = "user" /\ tf'[t].x0 = 0
       => now >= sleep[t].deadline]_vars

\* RECEIVE_SIGNAL is set by the first signal and never cleared, and a bus whose
\* events stay the same runs no callback.  What remains true: a thread that
\* sleeps although it has a signal to handle is one that a second signal, or a
\* later one, was meant for.
FirstSignalWakes ==
  \A t \in Thread : pc[t] = "asleep" /\ has_signal_to_handle(t) => sent >= 2

\* send_signal and handle_signal keep the queue and the pending set in step: a
\* standard signal is in the queue at most once, for whichever thread, and is
\* pending exactly while it is there; a real-time signal that is pending is in
\* the queue.
PendingMatchesQueue ==
  /\ \A i, j \in DOMAIN sig_queue :
       is_standard(sig_queue[i].signo) /\ sig_queue[i].signo = sig_queue[j].signo => i = j
  /\ \A b \in pending_sigset : \E i \in DOMAIN sig_queue : bit(sig_queue[i].signo) = b
  /\ \A i \in DOMAIN sig_queue :
       is_standard(sig_queue[i].signo) => bit(sig_queue[i].signo) \in pending_sigset

\* The registers of a handler that was entered over the frame f: its entry
\* point, its arguments, the stack pointer at its frame, and whatever the code
\* it interrupted had in the others; x0 is the signal, or the result of the
\* sys_nanosleep it made last.
HandlerRuns(f, context) ==
  /\ context.pc = Dispositions[f.signo].handler
  /\ context.x0 \in {f.signo, 0, EINTR}
  /\ context.x1 = f.sp + 1 /\ context.x2 = f.sp + 2 /\ context.sp = f.sp
  /\ context.x13 = f.context.x13 /\ context.rest = f.context.rest

\* The registers of the program while no handler runs.
ProgramRuns(context) ==
  /\ context.x0 \in {UserContext.x0, 0, EINTR}
  /\ \A x \in {"x1", "x2", "x13", "rest", "sp", "pc"} : context[x] = UserContext[x]

\* handle_signal may be undone frame by frame: putting back what the newest
\* frame holds resumes the handler below it, and what the oldest holds resumes
\* the program, with the mask and with every register but x11 that were in force
\* when the signal came, however many signals a thread takes before it returns
\* to user mode; the registers it runs with now are those of its newest handler.
\* No frame lies on another, and no handler is interrupted by its own signal.
FramesUnwind ==
  \A t \in Thread :
    LET fs == frames[t]
        n == Len(fs)
        MaskAfter(f) == f.sig_mask \cup {bit(f.signo)} \cup Dispositions[f.signo].mask
    IN  /\ n = 0 => ProgramRuns(tf[t])
        /\ n > 0 => /\ ProgramRuns(fs[1].context) /\ fs[1].sig_mask = {}
                    /\ HandlerRuns(fs[n], tf[t])
        /\ \A k \in 1..(n - 1) : /\ HandlerRuns(fs[k], fs[k + 1].context)
                                 /\ fs[k + 1].sig_mask = MaskAfter(fs[k])
        /\ n > 0 /\ ~halted => sig_mask[t] = MaskAfter(fs[n])
        /\ \A j, k \in 1..n : j # k => fs[j].sp # fs[k].sp /\ fs[j].signo # fs[k].signo

\* A sleep for a finite time ends, by the clock or by a signal: the timer queue,
\* the interrupt and the executor see to it whatever else wakes the thread.
SleepEnds ==
  \A t \in Thread :
    (pc[t] = "asleep" /\ sleep[t].duration < Infinite) ~> (~Asleep(t) \/ halted)

\* A signal that a thread in user mode may take does not stay in the queue: the
\* loop of Thread::spawn ends every trap with handle_signal.  Only the end of the
\* thread can prevent it.
SignalTaken ==
  \A t \in Thread :
    (pc[t] = "user" /\ has_signal_to_handle(t)) ~>
      (~has_signal_to_handle(t) \/ pc[t] = "done" \/ halted)
=============================================================================
