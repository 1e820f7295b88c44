------------------------------ MODULE Interrupts ------------------------------
(***************************************************************************)
(* The boot CPU: main_start brings up the interrupt controller and its     *)
(* three devices, then runs the two kernel tasks of async_test while the   *)
(* timer and the serial line interrupt it.                                 *)
(*                                                                         *)
(* `pc` is where the interrupted code stands, `irq_pc` where trap_handler  *)
(* stands.  Code between two accesses to a lock, a device or the CPU's     *)
(* mask bit is one step; an interrupt may come between any two steps that  *)
(* run with the mask open.  The locks in `held` are MutexNoIrq: taking one *)
(* saves the mask in the guard and closes it.  Two kinds of lock are plain *)
(* and leave the mask alone: the Mutex around each SchedTask and the       *)
(* RwLock around active_tasks.                                             *)
(*                                                                         *)
(* Time is relative: left[t] is what is left of the delay of task t, in    *)
(* periods of the timer, and the shift by single nanoseconds in Timer::add *)
(* is below that grain (it is in Sleep).  Which queued task runs next is   *)
(* Executor's matter: here any may.                                        *)
(***************************************************************************)
EXTENDS Integers, Sequences, Functions

CONSTANTS
  Kernel,     \* the tasks spawned by async_test
  FirstDelay, \* those that begin with a delay: task B
  Idle,       \* idle_task
  Delay,      \* the argument of delay_for, in timer periods
  NumIrqs,    \* interrupt lines of the controller
  UartCell, RtcCell,  \* `interrupts` of the two device nodes
  RxLevel, RxDepth,   \* receive FIFO: 1/8 full, and full
  Script,     \* what is typed, in order; "cr" is the carriage return
  None

\* InterruptCell::irq_number: shared lines start at 32, private ones at 16.
irq_number(cell) == IF cell.type = 0 THEN cell.number + 32 ELSE cell.number + 16

TIMER_IRQ == 30
UART_IRQ == irq_number(UartCell)
RTC_IRQ == irq_number(RtcCell)
Device == {TIMER_IRQ, UART_IRQ, RTC_IRQ}

ASSUME BoardAssumption ==
  /\ NumIrqs \in Nat /\ NumIrqs % 32 = 0 /\ NumIrqs >= 64
  /\ {UartCell, RtcCell} \subseteq [type : {0, 1}, number : Nat]
  /\ UART_IRQ # TIMER_IRQ /\ RTC_IRQ # TIMER_IRQ /\ UART_IRQ # RTC_IRQ
  /\ UART_IRQ < NumIrqs /\ RTC_IRQ < NumIrqs

ASSUME TaskAssumption ==
  /\ FirstDelay \subseteq Kernel /\ Idle \notin Kernel /\ None \notin Kernel \cup {Idle}
  /\ Delay \in [Kernel -> Nat \ {0}]
  /\ RxLevel \in Nat \ {0} /\ RxDepth \in Nat /\ RxLevel <= RxDepth
  /\ Script \in Seq(STRING)

Task == Kernel \cup {Idle}
Lock == {"LOG", "RUNQ", "TIMER", "IRQMAP", "UART"}
RxIrq == {"RX", "RT"}

VARIABLES
  daif,    \* the CPU's mask bit: "on" lets interrupts in
  spsr,    \* the mask saved by the interrupt that is being handled
  held,    \* each MutexNoIrq: free, or the mask saved in its guard
  locked, writing,    \* the tasks whose SchedTask is locked; active_tasks is
  pc, irq_pc,
  cur,     \* the task that is run
  queue, sched,       \* the run queue; async_task's state of each task
  at, left, events,   \* where each task resumes; its delay; Timer.events
  gicd,    \* on, lines routed to this CPU, lines enabled; `cpu` is GICC's part
  drivers, manager,   \* keys of irq_map; IRQ_MANAGER is set
  active,  \* the line acknowledged and not completed
  timer,   \* the comparator: off, armed or fired
  uart,    \* FIFO and interrupt registers of the PL011
  rtc_imsc,           \* the alarm interrupt of the PL031 is let through
  typed, echo,        \* how many characters were received; those echoed
  hung,    \* the CPU spins on a lock it holds itself
  halted   \* the kernel has panicked

cpu == <<daif, spsr, held>>
plain == <<locked, writing>>
tasks == <<cur, queue, sched, at>>
delays == <<left, events>>
gic == <<gicd, drivers, manager, active>>
devices == <<timer, uart, rtc_imsc>>
serial == <<typed, echo>>
vars == <<cpu, plain, pc, irq_pc, tasks, delays, gic, devices, serial, hung, halted>>

-----------------------------------------------------------------------------
(* Locks and the mask bit.                                                 *)

\* disable_and_store, as far as the CPU is concerned, and restore.
disable == daif' = "off"
restore(flags) == daif' = flags

\* Mutant of lock: a plain spin lock, which leaves the mask alone.
Mut_lock(l) ==
  /\ held[l] = "free"
  /\ held' = [held EXCEPT ![l] = daif]
  /\ UNCHANGED <<daif, spsr>>

\* MutexNoIrq::lock: save the mask, close it, spin until the lock is free.
lock(l) ==
  /\ held[l] = "free"
  /\ held' = [held EXCEPT ![l] = daif]
  /\ disable
  /\ UNCHANGED spsr

\* Mutant of unlock: the guard forgets to restore the mask.
Mut_unlock(l) ==
  /\ held' = [held EXCEPT ![l] = "free"]
  /\ UNCHANGED <<daif, spsr>>

\* MutexGuardNoIrq::drop: free the lock, then restore the saved mask.
unlock(l) ==
  /\ restore(held[l])
  /\ held' = [held EXCEPT ![l] = "free"]
  /\ UNCHANGED spsr

-----------------------------------------------------------------------------
(* The interrupt controller and the lines of the devices.                  *)

\* SharedRegisterBlock: the fields before ITARGETSR lie one after the other.
\* _reserved2 fills 0x108..0x200 although it comes after 0x200, and nothing
\* fills the gaps before 0x400 and 0x820.
ITARGETSR == 4 + 4 + (260 - 8) + 4 * 31 + 4 * 32 + (512 - 264) + 4 * 32 + 4 * 255

\* The byte in which the controller keeps the target of a line.
target_byte(irq) == 2048 + irq

\* Mutant of itargets_slice: the last register is included.
Mut_itargets_slice(n) ==
  {irq \in 32..(n - 1) : target_byte(irq) < ITARGETSR + 4 * ((n - 32) \div 4)}

\* implemented_itargets_slice: the shared lines whose byte is in the registers
\* 0..max_index of the field, the last one excluded.
itargets_slice(n) ==
  {irq \in 32..(n - 1) : target_byte(irq) < ITARGETSR + 4 * ((n - 32) \div 4 - 1)}

\* GicD::boot_core_init: route the slice here, disable the shared lines, on.
boot_core_init(g) ==
  [g EXCEPT !.on = TRUE, !.routed = @ \cup itargets_slice(NumIrqs),
            !.enabled = @ \ (32..(NumIrqs - 1))]

\* GicC::priority_accept_all and enable.
gicc_enable(g) == [g EXCEPT !.cpu = TRUE]

\* GicV2::init on the boot CPU.
gic_init(g) == gicc_enable(boot_core_init(g))

\* GicD::enable: private lines have a register of their own; the shared ones
\* start at line 32, hence the index less one.
gicd_enable(g, irq) ==
  [g EXCEPT !.enabled = @ \cup
     {IF irq < 32 THEN irq ELSE 32 * ((irq \div 32 - 1) + 1) + (irq % 32)}]

\* GicV2::register_and_enable_local_irq, with the mask closed by boot.
Register(irq) ==
  /\ drivers' = drivers \cup {irq}
  /\ gicd' = gicd_enable(gicd, irq)
  /\ UNCHANGED <<manager, active>>

\* What the devices assert.  The alarm of the clock is taken to be due.
Asserted ==
  (IF timer = "fired" THEN {TIMER_IRQ} ELSE {})
    \cup (IF uart.ris \cap uart.imsc # {} THEN {UART_IRQ} ELSE {})
    \cup (IF rtc_imsc THEN {RTC_IRQ} ELSE {})

\* What the controller offers to the CPU: nothing while a line is active,
\* since all lines have one priority.
Pending ==
  IF gicd.on /\ gicd.cpu /\ active = None
  THEN Asserted \cap gicd.enabled \cap (gicd.routed \cup 0..31)
  ELSE {}

InterruptDue == irq_pc = "none" /\ daif = "on" /\ Pending # {}

-----------------------------------------------------------------------------
(* Boot.                                                                   *)

Init ==
  /\ daif = "off" /\ spsr = "off"
  /\ held = [l \in Lock |-> "free"]
  /\ locked = {} /\ writing = FALSE
  /\ pc = "init_gic" /\ irq_pc = "none"
  /\ cur = None
  /\ queue = {Idle}
  /\ sched = [t \in Task |-> IF t = Idle THEN "scheduled" ELSE "none"]
  /\ at = [t \in Task |-> IF t = Idle THEN "yield"
                          ELSE IF t \in FirstDelay THEN "delay_for" ELSE "print"]
  /\ left = [t \in Kernel |-> 0]
  /\ events = {}
  /\ gicd = [on |-> FALSE, cpu |-> FALSE, routed |-> {}, enabled |-> {}]
  /\ drivers = {} /\ manager = FALSE /\ active = None
  /\ timer = "off"
  /\ uart = [on |-> FALSE, imsc |-> {}, ris |-> {}, timed |-> FALSE, fifo |-> <<>>]
  /\ rtc_imsc = FALSE
  /\ typed = 0 /\ echo = <<>>
  /\ hung = FALSE /\ halted = FALSE

\* The interrupted code goes from one place to the next, also by a step that
\* leaves the plain locks alone.
Go(from, to) ==
  /\ ~hung /\ ~halted /\ irq_pc = "none" /\ ~InterruptDue
  /\ pc = from /\ pc' = to
  /\ UNCHANGED <<irq_pc, hung, halted>>
Step(from, to) == Go(from, to) /\ UNCHANGED plain

\* gicv2::driver_init calls GicV2::init, and interrupt::init does once more.
GicInit ==
  /\ Step("init_gic", "init_timer")
  /\ gicd' = gic_init(gic_init(gicd))
  /\ UNCHANGED <<cpu, tasks, delays, drivers, manager, active, devices, serial>>

\* timer::driver_init: the comparator holds what it held at reset.
TimerInit ==
  /\ Step("init_timer", "init_uart")
  /\ timer' \in {"armed", "fired"}
  /\ Register(TIMER_IRQ)
  /\ UNCHANGED <<cpu, tasks, delays, uart, rtc_imsc, serial>>

\* ICR::ALL::CLEAR is the value 0, and a write to ICR clears the interrupts
\* whose bits are 1: it clears none.
ICR_ALL_CLEAR == {}
write_icr(u, bits) == [u EXCEPT !.ris = @ \ bits]

\* Mutant of uart_init: the receive timeout is not let through.
Mut_uart_init(u) == [write_icr(u, ICR_ALL_CLEAR) EXCEPT !.on = TRUE, !.imsc = {"RX"}]

\* Pl011UartInner::init: clear, let both receive interrupts through, on.
uart_init(u) == [write_icr(u, ICR_ALL_CLEAR) EXCEPT !.on = TRUE, !.imsc = RxIrq]

\* pl011_uart::driver_init.
UartInit ==
  /\ Step("init_uart", "init_rtc")
  /\ uart' = uart_init(uart)
  /\ Register(UART_IRQ)
  /\ UNCHANGED <<cpu, tasks, delays, timer, rtc_imsc, serial>>

\* Pl031Rtc::init: the alarm stays masked.
rtc_init == rtc_imsc' = FALSE

\* pl031::driver_init.
RtcInit ==
  /\ Step("init_rtc", "publish")
  /\ rtc_init
  /\ Register(RTC_IRQ)
  /\ UNCHANGED <<cpu, tasks, delays, timer, uart, serial>>

\* IRQ_MANAGER.call_once.
Publish ==
  /\ Step("publish", "enable")
  /\ manager' = TRUE
  /\ UNCHANGED <<cpu, tasks, delays, gicd, drivers, active, devices, serial>>

\* interrupt::enable.
Enable ==
  /\ Step("enable", "spawn")
  /\ daif' = "on"
  /\ UNCHANGED <<spsr, held, tasks, delays, gic, devices, serial>>

\* Executor::spawn: active_tasks is locked for writing, then the run queue; a
\* new task is put on it, and the guards go in the opposite order.
SpawnBegin ==
  /\ \E t \in Kernel : sched[t] = "none"
  /\ Go("spawn", "spawn_queue")
  /\ ~writing /\ writing' = TRUE
  /\ UNCHANGED <<cpu, locked, tasks, delays, gic, devices, serial>>

SpawnLock ==
  /\ Step("spawn_queue", "spawning")
  /\ lock("RUNQ")
  /\ UNCHANGED <<tasks, delays, gic, devices, serial>>

Spawn ==
  /\ Step("spawning", "spawned")
  /\ \E t \in Kernel :
       /\ sched[t] = "none"
       /\ sched' = [sched EXCEPT ![t] = "scheduled"]
       /\ queue' = queue \cup {t}
  /\ unlock("RUNQ")
  /\ UNCHANGED <<cur, at, delays, gic, devices, serial>>

SpawnEnd ==
  /\ Go("spawned", "spawn")
  /\ writing' = FALSE
  /\ UNCHANGED <<cpu, locked, tasks, delays, gic, devices, serial>>

\* async_test ends in local_executor().run(), which does not return.
Run ==
  /\ \A t \in Kernel : sched[t] # "none"
  /\ Step("spawn", "pop")
  /\ UNCHANGED <<cpu, tasks, delays, gic, devices, serial>>

-----------------------------------------------------------------------------
(* The executor's loop and the two kernel tasks.                           *)

PopLock ==
  /\ Step("pop", "popping")
  /\ lock("RUNQ")
  /\ UNCHANGED <<tasks, delays, gic, devices, serial>>

\* pop_task_to_run, and the poll of the task from where it stopped.
Pop ==
  /\ \E t \in queue :
       /\ Step("popping", at[t])
       /\ cur' = t
       /\ queue' = queue \ {t}
       /\ sched' = [sched EXCEPT ![t] = "running"]
  /\ unlock("RUNQ")
  /\ UNCHANGED <<at, delays, gic, devices, serial>>

\* idle_task: yield_now wakes its own task, and the next poll halts the CPU.
Yield ==
  /\ Step("yield", "return")
  /\ sched' = [sched EXCEPT ![cur] = "notified"]
  /\ at' = [at EXCEPT ![cur] = "halt"]
  /\ UNCHANGED <<cpu, cur, queue, delays, gic, devices, serial>>

\* Mutant of PrintBegin: the log is guarded by a plain spin lock.
Mut_PrintBegin ==
  /\ Step("print", "printing")
  /\ Mut_lock("LOG")
  /\ UNCHANGED <<tasks, delays, gic, devices, serial>>

\* _print: the first and the last character of a message under LOG_LOCK.
PrintBegin ==
  /\ Step("print", "printing")
  /\ lock("LOG")
  /\ UNCHANGED <<tasks, delays, gic, devices, serial>>

PrintEnd ==
  /\ Step("printing", "delay_for")
  /\ unlock("LOG")
  /\ UNCHANGED <<tasks, delays, gic, devices, serial>>

\* delay_for: the deadline is fixed here.
DelayFor ==
  /\ Step("delay_for", "poll")
  /\ left' = [left EXCEPT ![cur] = Delay[cur]]
  /\ UNCHANGED <<cpu, tasks, events, gic, devices, serial>>

\* DelayFuture::poll reads the clock; on the fast path the loop of the task
\* goes round.
PollReady ==
  /\ pc = "poll" /\ left[cur] = 0
  /\ Step("poll", "print")
  /\ UNCHANGED <<cpu, tasks, delays, gic, devices, serial>>

\* The slow path: the timer may fire, or the deadline pass, before the queue of
\* the timer is locked, and the deadline also while it is.
PollSlow ==
  /\ pc = "poll" /\ left[cur] > 0
  /\ Step("poll", "poll_slow")
  /\ UNCHANGED <<cpu, tasks, delays, gic, devices, serial>>

PollLock ==
  /\ Step("poll_slow", "adding")
  /\ lock("TIMER")
  /\ UNCHANGED <<tasks, delays, gic, devices, serial>>

PollAdd ==
  /\ Step("adding", "return")
  /\ events' = events \cup {cur}
  /\ at' = [at EXCEPT ![cur] = "poll"]
  /\ unlock("TIMER")
  /\ UNCHANGED <<cur, queue, sched, left, gic, devices, serial>>

\* Runnable::run returns; a task woken while it ran is scheduled first.
ReturnPending ==
  /\ pc = "return" /\ sched[cur] = "running"
  /\ Step("return", "end")
  /\ sched' = [sched EXCEPT ![cur] = "pending"]
  /\ UNCHANGED <<cpu, cur, queue, at, delays, gic, devices, serial>>

ReturnYielded ==
  /\ pc = "return" /\ sched[cur] = "notified"
  /\ Step("return", "resched")
  /\ sched' = [sched EXCEPT ![cur] = "scheduled"]
  /\ UNCHANGED <<cpu, cur, queue, at, delays, gic, devices, serial>>

\* SchedTask::schedule_fn, called by the executor: the SchedTask is locked, then
\* the run queue, whose guard goes first.
ReschedBegin ==
  /\ Go("resched", "resched_queue")
  /\ cur \notin locked /\ locked' = locked \cup {cur}
  /\ UNCHANGED <<cpu, writing, tasks, delays, gic, devices, serial>>

ReschedLock ==
  /\ Step("resched_queue", "rescheduling")
  /\ lock("RUNQ")
  /\ UNCHANGED <<tasks, delays, gic, devices, serial>>

Resched ==
  /\ Step("rescheduling", "rescheduled")
  /\ queue' = queue \cup {cur}
  /\ unlock("RUNQ")
  /\ UNCHANGED <<cur, sched, at, delays, gic, devices, serial>>

ReschedEnd ==
  /\ Go("rescheduled", "end_yielded")
  /\ locked' = locked \ {cur}
  /\ UNCHANGED <<cpu, writing, tasks, delays, gic, devices, serial>>

EndLock ==
  /\ \/ Step("end", "ending")
     \/ Step("end_yielded", "ending_yielded")
  /\ lock("RUNQ")
  /\ UNCHANGED <<tasks, delays, gic, devices, serial>>

\* The rest of Executor::run: a task that did not yield is removed.
End ==
  /\ \/ cur \notin queue /\ Step("ending", "pop")
     \/ Step("ending_yielded", "pop")
  /\ cur' = None
  /\ unlock("RUNQ")
  /\ UNCHANGED <<queue, sched, at, delays, gic, devices, serial>>

\* If an interrupt has queued it since, its Runnable is dropped under its own
\* lock, which the guard of the future then spins on (RemovesOnlyNotWoken of
\* Executor).
EndHangs ==
  /\ ~hung /\ pc = "ending" /\ cur \in queue
  /\ hung' = TRUE
  /\ UNCHANGED <<cpu, plain, pc, irq_pc, tasks, delays, gic, devices, serial, halted>>

Main ==
  \/ GicInit \/ TimerInit \/ UartInit \/ RtcInit \/ Publish \/ Enable
  \/ SpawnBegin \/ SpawnLock \/ Spawn \/ SpawnEnd \/ Run \/ PopLock \/ Pop \/ Yield
  \/ PrintBegin \/ PrintEnd \/ DelayFor \/ PollReady \/ PollSlow \/ PollLock \/ PollAdd
  \/ ReturnPending \/ ReturnYielded
  \/ ReschedBegin \/ ReschedLock \/ Resched \/ ReschedEnd \/ EndLock \/ End \/ EndHangs

-----------------------------------------------------------------------------
(* trap_handler for an interrupt.                                          *)

\* The CPU takes the interrupt: the mask is saved and closed, and a halted
\* CPU goes on after it.
TakeIrq ==
  /\ ~halted /\ InterruptDue
  /\ irq_pc' = "acknowledge"
  /\ spsr' = daif /\ daif' = "off"
  /\ pc' = IF pc = "halt" THEN "yield" ELSE pc
  /\ UNCHANGED <<held, plain, tasks, delays, gic, devices, serial, hung, halted>>

HandleGo(from, to) ==
  /\ ~halted /\ irq_pc = from /\ irq_pc' = to
  /\ UNCHANGED <<pc, cur, at, hung, halted>>
Handle(from, to) == HandleGo(from, to) /\ UNCHANGED plain

\* GicC::pending_irq_number: 1023 when no line is pending.
pending_irq_number == IF Pending = {} THEN {1023} ELSE Pending

\* IRQ_MANAGER.wait() spins until boot has set it; then the read of IAR.
Acknowledge(irq) ==
  /\ manager /\ irq \in pending_irq_number
  /\ Handle("acknowledge", IF irq = 1023 THEN "none" ELSE "lookup")
  /\ active' = IF irq = 1023 THEN active ELSE irq
  /\ daif' = IF irq = 1023 THEN spsr ELSE daif
  /\ UNCHANGED <<spsr, held, queue, sched, delays, gicd, drivers, manager, devices, serial>>

\* handle_pending_irqs: the map stays locked while the drivers run.  It
\* panics when no driver is registered for the line; so does the handler of
\* the clock, which is todo!().
Lookup ==
  /\ ~halted /\ irq_pc = "lookup"
  /\ irq_pc' = CASE active = TIMER_IRQ -> "timer"
                 [] active = UART_IRQ -> "uart"
                 [] OTHER -> "rtc"
  /\ halted' = (active \notin drivers \/ active = RTC_IRQ)
  /\ lock("IRQMAP")
  /\ UNCHANGED <<plain, pc, tasks, delays, gic, devices, serial, hung>>

\* GenericTimer::handle_interrupt.
TimerLock ==
  /\ Handle("timer", "expire")
  /\ lock("TIMER")
  /\ UNCHANGED <<queue, sched, delays, gic, devices, serial>>

\* Timer::expire, one entry: wake() marks a running task and schedules one
\* that is pending.
Expire(t) ==
  /\ t \in events /\ left[t] = 0
  /\ events' = events \ {t}
  /\ \/ /\ sched[t] = "running"
        /\ Handle("expire", "expire")
        /\ sched' = [sched EXCEPT ![t] = "notified"]
     \/ /\ sched[t] = "pending"
        /\ Handle("expire", "wake")
        /\ sched' = [sched EXCEPT ![t] = "waking"]
  /\ UNCHANGED <<cpu, queue, left, gic, devices, serial>>

\* SchedTask::schedule_fn, called by the handler: the same two locks, both taken
\* and released with the mask closed.
WakeLock(t) ==
  /\ sched[t] = "waking"
  /\ HandleGo("wake", "waking")
  /\ t \notin locked /\ locked' = locked \cup {t}
  /\ lock("RUNQ")
  /\ UNCHANGED <<writing, queue, sched, delays, gic, devices, serial>>

Wake(t) ==
  /\ sched[t] = "waking"
  /\ HandleGo("waking", "expire")
  /\ sched' = [sched EXCEPT ![t] = "scheduled"]
  /\ queue' = queue \cup {t}
  /\ locked' = locked \ {t}
  /\ unlock("RUNQ")
  /\ UNCHANGED <<writing, delays, gic, devices, serial>>

ExpireEnd ==
  /\ \A t \in events : left[t] > 0
  /\ Handle("expire", "tick_in")
  /\ unlock("TIMER")
  /\ UNCHANGED <<queue, sched, delays, gic, devices, serial>>

\* Mutant of TickIn: no next interrupt is asked for when no task is waiting for
\* one.
Mut_TickInIdle ==
  /\ Handle("tick_in", "complete")
  /\ timer' = IF events = {} THEN "off" ELSE "armed"
  /\ UNCHANGED <<cpu, queue, sched, delays, gic, uart, rtc_imsc, serial>>

\* tick_in(SCHED_MIN_GRANULARITY).
TickIn ==
  /\ Handle("tick_in", "complete")
  /\ timer' = "armed"
  /\ UNCHANGED <<cpu, queue, sched, delays, gic, uart, rtc_imsc, serial>>

\* Pl011Uart::handle_interrupt up to its loop.
UartBegin ==
  /\ Handle("uart", IF uart.ris \cap uart.imsc \cap RxIrq # {} THEN "uart_drain" ELSE "uart_done")
  /\ uart' = write_icr(uart, ICR_ALL_CLEAR)
  /\ lock("UART")
  /\ UNCHANGED <<queue, sched, delays, gic, timer, rtc_imsc, serial>>

\* Mutant of read_char_converting: characters are passed on as they are.
Mut_read_char_converting(c) == c

\* read_char_converting: a carriage return becomes a newline.
read_char_converting(c) == IF c = "cr" THEN "nl" ELSE c

\* One turn of the loop: a character is taken from the FIFO and echoed.
UartDrain ==
  /\ uart.fifo # <<>>
  /\ Handle("uart_drain", "uart_drain")
  /\ LET rest == Tail(uart.fifo) IN
       uart' = [uart EXCEPT !.fifo = rest, !.timed = FALSE,
                  !.ris = @ \ ((IF Len(rest) < RxLevel THEN {"RX"} ELSE {})
                                 \cup (IF rest = <<>> THEN {"RT"} ELSE {}))]
  /\ echo' = Append(echo, read_char_converting(Head(uart.fifo)))
  /\ UNCHANGED <<cpu, queue, sched, delays, gic, timer, rtc_imsc, typed>>

\* The FIFO is empty: the loop ends.
UartDrained ==
  /\ uart.fifo = <<>>
  /\ Handle("uart_drain", "uart_done")
  /\ UNCHANGED <<cpu, queue, sched, delays, gic, devices, serial>>

\* Mutant of UartDone: the interrupts are cleared after the loop.
Mut_UartDone ==
  /\ Handle("uart_done", "complete")
  /\ uart' = write_icr(uart, RxIrq)
  /\ unlock("UART")
  /\ UNCHANGED <<queue, sched, delays, gic, timer, rtc_imsc, serial>>

\* The guard goes.
UartDone ==
  /\ Handle("uart_done", "complete")
  /\ unlock("UART")
  /\ UNCHANGED <<queue, sched, delays, gic, devices, serial>>

\* GicC::mark_completed: the write to EOIR.
mark_completed == active' = None

\* The guard of the map goes at the end of the `if let`; then the line is
\* completed and the CPU returns from the exception.
Complete ==
  /\ Handle("complete", "none")
  /\ held' = [held EXCEPT !["IRQMAP"] = "free"]
  /\ mark_completed
  /\ daif' = spsr
  /\ UNCHANGED <<spsr, queue, sched, delays, gicd, drivers, manager, devices, serial>>

Handler ==
  \/ TakeIrq \/ (\E irq \in Device \cup {1023} : Acknowledge(irq))
  \/ Lookup
  \/ TimerLock \/ (\E t \in Kernel : Expire(t))
  \/ (\E t \in Kernel : WakeLock(t)) \/ (\E t \in Kernel : Wake(t))
  \/ ExpireEnd \/ TickIn
  \/ UartBegin \/ UartDrain \/ UartDrained \/ UartDone
  \/ Complete

-----------------------------------------------------------------------------
(* The world outside.                                                      *)

\* A timer period goes by; not between tick_in and the end of the handler
\* that called it, which takes far less.
Elapse ==
  /\ timer = "armed" => active # TIMER_IRQ
  /\ left' = [t \in Kernel |-> IF left[t] > 0 THEN left[t] - 1 ELSE 0]
  /\ timer' = IF timer = "armed" THEN "fired" ELSE timer
  /\ UNCHANGED <<cpu, plain, pc, irq_pc, tasks, events, gic, uart, rtc_imsc, serial, hung, halted>>

\* The next character arrives when there is room for it.
Receive ==
  /\ uart.on /\ typed < Len(Script) /\ Len(uart.fifo) < RxDepth
  /\ typed' = typed + 1
  /\ uart' = [uart EXCEPT !.fifo = Append(@, Script[typed']), !.timed = FALSE,
                !.ris = @ \cup IF Len(uart.fifo) + 1 >= RxLevel THEN {"RX"} ELSE {}]
  /\ UNCHANGED <<cpu, plain, pc, irq_pc, tasks, delays, gic, timer, rtc_imsc, echo, hung, halted>>

\* Nothing arrived for a while and the FIFO is not empty.
ReceiveTimeout ==
  /\ uart.on /\ uart.fifo # <<>> /\ ~uart.timed
  /\ uart' = [uart EXCEPT !.timed = TRUE, !.ris = @ \cup {"RT"}]
  /\ UNCHANGED <<cpu, plain, pc, irq_pc, tasks, delays, gic, timer, rtc_imsc, serial, hung, halted>>

Next ==
  \/ Main \/ Handler
  \/ Elapse \/ Receive \/ ReceiveTimeout

\* The CPU goes on, and so do the clock and the serial line.  Handlers are
\* short beside a period of the timer: they leave time to the tasks, and the
\* timer is not due at every turn of the serial line.
Fairness ==
  /\ WF_vars(Handler) /\ SF_vars(Main) /\ SF_vars(Acknowledge(UART_IRQ))
  /\ WF_vars(Elapse) /\ WF_vars(ReceiveTimeout)

Safety == Init /\ [][Next]_vars
Spec == Safety /\ Fairness

-----------------------------------------------------------------------------
(* What is checked.                                                        *)

Place == {"init_gic", "init_timer", "init_uart", "init_rtc", "publish", "enable",
          "spawn", "spawn_queue", "spawning", "spawned", "pop", "popping", "yield", "halt",
          "print", "printing", "delay_for", "poll", "poll_slow", "adding", "return",
          "resched", "resched_queue", "rescheduling", "rescheduled",
          "end", "ending", "end_yielded", "ending_yielded"}
HandlerPlace == {"none", "acknowledge", "lookup", "timer", "expire", "wake", "waking",
                 "tick_in", "uart", "uart_drain", "uart_done", "rtc",
                 "complete"}
Booting == {"init_gic", "init_timer", "init_uart", "init_rtc", "publish", "enable"}

\* Types: every line the controller is told to enable is a line it has.
TypeOK ==
  /\ daif \in {"on", "off"} /\ spsr \in {"on", "off"}
  /\ held \in [Lock -> {"free", "on", "off"}]
  /\ locked \subseteq Task /\ writing \in BOOLEAN
  /\ pc \in Place /\ irq_pc \in HandlerPlace
  /\ cur \in Task \cup {None} /\ queue \subseteq Task
  /\ sched \in [Task -> {"none", "pending", "waking", "scheduled", "running", "notified"}]
  /\ at \in [Task -> {"print", "delay_for", "poll", "yield", "halt"}]
  /\ left \in [Kernel -> Nat] /\ events \subseteq Kernel
  /\ gicd \in [on : BOOLEAN, cpu : BOOLEAN, routed : SUBSET (0..(NumIrqs - 1)),
              enabled : SUBSET (0..(NumIrqs - 1))]
  /\ drivers \subseteq Device /\ manager \in BOOLEAN /\ active \in Device \cup {None}
  /\ timer \in {"off", "armed", "fired"}
  /\ uart \in [on : BOOLEAN, imsc : SUBSET RxIrq, ris : SUBSET RxIrq, timed : BOOLEAN,
              fifo : Seq(Range(Script))]
  /\ rtc_imsc \in BOOLEAN
  /\ typed \in 0..Len(Script) /\ echo \in Seq(Range(Script) \cup {"nl"})
  /\ hung \in BOOLEAN /\ halted \in BOOLEAN

\* The lock that the code about to run asks for.
MainWants ==
  CASE pc \in {"spawn_queue", "pop", "resched_queue", "end", "end_yielded"} -> {"RUNQ"}
    [] pc = "print" -> {"LOG"}
    [] pc = "poll_slow" -> {"TIMER"}
    [] OTHER -> {}
HandlerWants ==
  CASE irq_pc = "lookup" -> {"IRQMAP"}
    [] irq_pc = "timer" -> {"TIMER"}
    [] irq_pc = "wake" -> {"RUNQ"}
    [] irq_pc = "uart" -> {"UART"}
    [] OTHER -> {}

\* The tasks whose SchedTask it asks for: under the run queue's lock
\* pop_task_to_run, remove_task and task_tick lock the current and the next one,
\* spawn the new one.
MainLocks ==
  CASE pc \in {"popping", "ending", "ending_yielded"} -> {cur} \cup queue
    [] pc = "spawning" -> {t \in Kernel : sched[t] = "none"}
    [] pc = "resched" -> {cur}
    [] OTHER -> {}
HandlerLocks == IF irq_pc = "wake" THEN {t \in Kernel : sched[t] = "waking"} ELSE {}

\* The CPU never spins on a lock that it holds itself, be it a handler on one of
\* the code it interrupted: neither on one that closes the mask nor on a plain
\* one, which the interrupted code may hold with the mask open (the SchedTask in
\* schedule_fn, active_tasks in spawn), nor on IRQ_MANAGER.wait() for the boot
\* code (MutexNoIrq::lock, the order of interrupt::init).
NoSelfDeadlock ==
  IF irq_pc = "none"
  THEN /\ \A l \in MainWants : held[l] = "free"
       /\ MainLocks \cap locked = {}
       /\ pc \in {"spawn", "popping"} => ~writing
  ELSE /\ \A l \in HandlerWants : held[l] = "free"
       /\ HandlerLocks \cap locked = {}
       /\ irq_pc = "acknowledge" => manager

\* After boot, interrupts are let in whenever no handler runs and no lock is
\* held: each guard gives back the mask it found, also where guards nest, and
\* none opens the mask inside a handler (MutexGuardNoIrq::drop).
MaskRestored ==
  IF irq_pc = "none"
  THEN pc \notin Booting /\ (\A l \in Lock : held[l] = "free") => daif = "on"
  ELSE daif = "off"

\* A line is enabled only with a driver behind it; once IRQ_MANAGER is set every
\* device's line is enabled, and of the shared lines exactly those up to
\* NumIrqs - 177 are routed to the boot CPU: 176 lines at the end are not,
\* although boot_core_init says that it routes all
\* (register_and_enable_local_irq, SharedRegisterBlock).
LinesReachable ==
  /\ gicd.enabled \subseteq drivers
  /\ manager => /\ Device \subseteq gicd.enabled
                /\ \A irq \in 32..(NumIrqs - 1) : irq \in gicd.routed <=> irq <= NumIrqs - 177

\* The handler neither meets a line without driver nor reaches the todo!() of
\* the clock's driver.
NoPanic == ~halted

\* A character in the receive FIFO is never forgotten: an interrupt is up or the
\* receive timeout is still to come.  And an interrupt is up only while there is
\* something to read, so that reading quiets the line, which the write to ICR
\* does not do (Pl011Uart::handle_interrupt).
CharNotStranded ==
  /\ uart.fifo # <<>> => uart.ris # {} \/ ~uart.timed
  /\ uart.ris # {} => uart.fifo # <<>>

Shown(s) == [i \in DOMAIN s |-> IF s[i] = "cr" THEN "nl" ELSE s[i]]

\* What was typed is echoed in order, once each, carriage returns as newlines;
\* the rest is in the FIFO.
EchoInOrder == Shown(SubSeq(Script, 1, typed)) = echo \o Shown(uart.fifo)

\* No echo goes out in the middle of a printed message, although the printer
\* and the serial driver hold different locks (_print, handle_interrupt).
MessageWhole == [][echo' # echo => pc # "printing"]_vars

\* A delay on the timer queue is expired, also one whose deadline passed before
\* DelayFuture::poll added it: the timer's handler quiets its line and asks for
\* the next interrupt (GenericTimer::handle_interrupt), so that neither the
\* tasks nor the timer stand still.  Here and below, only the hang of
\* Executor::run is an excuse.
DelayExpires == \A t \in Kernel : t \in events ~> (t \notin events \/ hung)

\* Each character received is echoed in the end.
TypedEchoed == \A n \in 1..Len(Script) : typed = n ~> (Len(echo) >= n \/ hung)
=============================================================================
