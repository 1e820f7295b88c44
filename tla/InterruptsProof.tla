--------------------------- MODULE InterruptsProof ---------------------------
(***************************************************************************)
(* Proofs about Interrupts, for every set of kernel tasks, every board     *)
(* that BoardAssumption admits and every input on the serial line.  The    *)
(* locks and the mask are a function of where the interrupted code and the *)
(* handler stand (LockInv, and PlainInv for the locks that leave the mask  *)
(* alone); that is what makes the safety properties inductive.             *)
(* EchoInOrder is about whole sequences; EchoInv says the same character   *)
(* by character and is what the steps keep.                                *)
(***************************************************************************)
EXTENDS Interrupts, TLAPS

(* The elements of a concatenation. *)
LEMMA Concat ==
  ASSUME NEW S, NEW s1 \in Seq(S), NEW s2 \in Seq(S)
  PROVE  /\ s1 \o s2 \in Seq(S) /\ Len(s1 \o s2) = Len(s1) + Len(s2)
         /\ \A i \in 1..(Len(s1) + Len(s2)) :
              (s1 \o s2)[i] = IF i <= Len(s1) THEN s1[i] ELSE s2[i - Len(s1)]
  OBVIOUS

\* The locks held at a place of the interrupted code and of the handler.
MainHolds(p) ==
  IF p \in {"spawning", "popping", "rescheduling", "ending", "ending_yielded"} THEN {"RUNQ"}
  ELSE IF p = "printing" THEN {"LOG"}
  ELSE IF p = "adding" THEN {"TIMER"}
  ELSE {}
HandlerHolds(p) ==
  IF p \in {"timer", "tick_in", "uart", "rtc", "complete"} THEN {"IRQMAP"}
  ELSE IF p \in {"expire", "wake"} THEN {"IRQMAP", "TIMER"}
  ELSE IF p = "waking" THEN {"IRQMAP", "TIMER", "RUNQ"}
  ELSE IF p \in {"uart_drain", "uart_done"} THEN {"IRQMAP", "UART"}
  ELSE {}

\* A guard of the interrupted code saved an open mask, one of the handler a
\* closed one.
LockInv ==
  /\ \A l \in Lock : held[l] = IF l \in MainHolds(pc) THEN "on"
                               ELSE IF l \in HandlerHolds(irq_pc) THEN "off" ELSE "free"
  /\ irq_pc = "none" => (daif = "off" <=> pc \in Booting \/ MainHolds(pc) # {})
  /\ irq_pc # "none" => daif = "off" /\ spsr = "on" /\ pc \notin Booting /\ MainHolds(pc) = {}

\* The task that is run, by place.
CurInv ==
  /\ at[Idle] \in {"yield", "halt"}
  /\ \A t \in Kernel : at[t] \in {"print", "delay_for", "poll"}
  /\ pc \in {"yield", "halt"} => cur = Idle
  /\ pc \in {"print", "printing", "delay_for", "poll", "poll_slow", "adding"} => cur \in Kernel
  /\ pc \in {"return", "resched", "resched_queue", "rescheduling", "rescheduled", "end",
             "ending", "end_yielded", "ending_yielded"} => cur \in Task

\* The plain locks held: active_tasks while a task is spawned, and the SchedTask
\* of a task that schedule_fn puts on the run queue.  The one that the executor
\* reschedules is already "scheduled", so that no handler wakes it.
PlainInv ==
  /\ writing <=> pc \in {"spawn_queue", "spawning", "spawned"}
  /\ locked = (IF pc \in {"resched_queue", "rescheduling", "rescheduled"} THEN {cur} ELSE {})
                \cup (IF irq_pc = "waking" THEN {t \in Kernel : sched[t] = "waking"} ELSE {})
  /\ pc \in {"resched", "resched_queue", "rescheduling", "rescheduled"} =>
       sched[cur] = "scheduled"
  /\ irq_pc \notin {"wake", "waking"} => \A t \in Task : sched[t] # "waking"
  /\ \A t, u \in Task : sched[t] = "waking" /\ sched[u] = "waking" => t = u

\* Boot registers the three lines one after the other; the clock's stays quiet.
LineInv ==
  /\ gicd.enabled = drivers
  /\ drivers = CASE pc \in {"init_gic", "init_timer"} -> {}
                 [] pc = "init_uart" -> {TIMER_IRQ}
                 [] pc = "init_rtc" -> {TIMER_IRQ, UART_IRQ}
                 [] OTHER -> Device
  /\ gicd.routed = IF pc = "init_gic" THEN {} ELSE itargets_slice(NumIrqs)
  /\ manager <=> pc \notin {"init_gic", "init_timer", "init_uart", "init_rtc", "publish"}
  /\ rtc_imsc = FALSE /\ halted = FALSE
  /\ irq_pc \notin {"none", "acknowledge"} => active \in {TIMER_IRQ, UART_IRQ}

\* Why each receive interrupt is up.
UartInv ==
  /\ "RX" \in uart.ris => Len(uart.fifo) >= RxLevel
  /\ "RT" \in uart.ris => uart.fifo # <<>>
  /\ uart.timed => "RT" \in uart.ris

IInv == TypeOK /\ CurInv /\ LockInv /\ PlainInv /\ LineInv /\ UartInv
-----------------------------------------------------------------------------
(* The lines of the devices exist. *)
LEMMA DeviceLines == Device \subseteq 0..(NumIrqs - 1)
  <1> USE BoardAssumption DEF TIMER_IRQ
  <1>1. UART_IRQ \in Nat /\ RTC_IRQ \in Nat
    BY DEF UART_IRQ, RTC_IRQ, irq_number
  <1>2. 30 \in 0..(NumIrqs - 1) /\ \A i \in Nat : i < NumIrqs => i \in 0..(NumIrqs - 1)
    OBVIOUS
  <1> QED BY <1>1, <1>2, Zenon DEF Device

(* What boot_core_init routes, as the registers are laid out. *)
LEMMA Slice ==
  /\ itargets_slice(NumIrqs) \subseteq 0..(NumIrqs - 1)
  /\ \A irq \in 32..(NumIrqs - 1) : irq \in itargets_slice(NumIrqs) <=> irq <= NumIrqs - 177
  <1>1. /\ NumIrqs \in Nat /\ ITARGETSR = 1908
        /\ \A irq \in Nat : target_byte(irq) = 2048 + irq
    BY BoardAssumption DEF ITARGETSR, target_byte
  <1>2. PICK k \in Nat : NumIrqs = 4 * k /\ k >= 16
    <2> DEFINE j == NumIrqs \div 32
    <2>1. NumIrqs = 32 * j /\ j \in Nat /\ NumIrqs >= 64
      BY BoardAssumption
    <2> HIDE DEF j
    <2>2. 8 * j \in Nat /\ NumIrqs = 4 * (8 * j) /\ 8 * j >= 16
      BY <2>1
    <2> QED BY <2>2
  <1>3. (NumIrqs - 32) \div 4 = k - 8
    BY <1>2
  <1> QED BY <1>1, <1>2, <1>3 DEF itargets_slice

(* GicD::enable sets the bit of the line it is given. *)
LEMMA EnableLine ==
  ASSUME NEW g, NEW irq \in Nat,
         g \in [on : BOOLEAN, cpu : BOOLEAN, routed : SUBSET (0..(NumIrqs - 1)),
                enabled : SUBSET (0..(NumIrqs - 1))]
  PROVE  gicd_enable(g, irq) = [g EXCEPT !.enabled = g.enabled \cup {irq}]
  <1>1. irq >= 32 => 32 * ((irq \div 32 - 1) + 1) + (irq % 32) = irq
    OBVIOUS
  <1>2. (IF irq < 32 THEN irq ELSE 32 * ((irq \div 32 - 1) + 1) + (irq % 32)) = irq
    BY <1>1
  <1> QED BY <1>2, Zenon DEF gicd_enable
-----------------------------------------------------------------------------
(* Every step of the interrupted code keeps LockInv. *)
LEMMA MainLockInv ==
  ASSUME TypeOK, CurInv, LockInv, Main
  PROVE  LockInv'
  <1> USE DEF LockInv, MainHolds, HandlerHolds, Booting, Lock, cpu, Step, Go, lock, unlock,
              disable, restore
  <1>1. CASE GicInit \/ TimerInit \/ UartInit \/ RtcInit \/ Publish
    BY <1>1, Zenon DEF GicInit, TimerInit, UartInit, RtcInit, Publish
  <1>2. CASE Enable
    BY <1>2, Zenon DEF Enable
  <1>3. CASE SpawnLock \/ PopLock \/ ReschedLock
    <2>1. CASE SpawnLock
      BY <2>1 DEF SpawnLock, TypeOK
    <2>2. CASE PopLock
      BY <2>2 DEF PopLock, TypeOK
    <2>3. CASE ReschedLock
      BY <2>3 DEF ReschedLock, TypeOK
    <2> QED BY <1>3, <2>1, <2>2, <2>3, Zenon
  <1>4. CASE EndLock
    BY <1>4, ZenonT(30) DEF EndLock, TypeOK
  <1>5. CASE PrintBegin \/ PollLock
    <2>1. CASE PrintBegin
      BY <2>1 DEF PrintBegin, TypeOK
    <2>2. CASE PollLock
      BY <2>2 DEF PollLock, TypeOK
    <2> QED BY <1>5, <2>1, <2>2, Zenon
  <1>6. CASE Spawn \/ Resched
    BY <1>6 DEF Spawn, Resched, TypeOK
  <1>7. CASE PrintEnd \/ PollAdd
    BY <1>7 DEF PrintEnd, PollAdd, TypeOK
  <1>8. CASE End
    BY <1>8, Zenon DEF End, TypeOK
  <1>9. CASE Run \/ Yield \/ DelayFor \/ PollReady \/ ReturnPending \/ ReturnYielded
    BY <1>9 DEF Run, Yield, DelayFor, PollReady, ReturnPending, ReturnYielded
  <1>10. CASE EndHangs
    BY <1>10, Zenon DEF EndHangs
  <1>12. CASE SpawnBegin \/ SpawnEnd \/ ReschedBegin \/ ReschedEnd \/ PollSlow
    BY <1>12 DEF SpawnBegin, SpawnEnd, ReschedBegin, ReschedEnd, PollSlow
  <1>11. CASE Pop
    <2>1. PICK t \in Task : Step("popping", at[t])
      BY <1>11, Zenon DEF Pop, TypeOK
    <2>2. at[t] \in {"print", "delay_for", "poll", "yield", "halt"}
      BY Zenon DEF TypeOK
    <2> QED BY <1>11, <2>1, <2>2 DEF Pop, TypeOK
  <1> QED
    BY <1>1, <1>2, <1>3, <1>4, <1>5, <1>6, <1>7, <1>8, <1>9, <1>10, <1>11, <1>12, Zenon
       DEF Main

(* Every step of the handler and of the world outside keeps LockInv. *)
LEMMA HandlerLockInv ==
  ASSUME TypeOK, LockInv, LineInv, Handler \/ Elapse \/ Receive \/ ReceiveTimeout
  PROVE  LockInv'
  <1> USE DEF LockInv, MainHolds, HandlerHolds, Booting, Lock, cpu, Handle, HandleGo, lock, unlock,
              disable, restore
  <1>1. CASE TakeIrq
    <2>1. /\ irq_pc = "none" /\ daif = "on" /\ irq_pc' = "acknowledge"
          /\ spsr' = "on" /\ daif' = "off" /\ held' = held
          /\ pc' = IF pc = "halt" THEN "yield" ELSE pc
      BY <1>1, Zenon DEF TakeIrq, InterruptDue
    <2>2. pc \notin Booting /\ MainHolds(pc) = {}
      BY <2>1, Zenon
    <2> QED BY <2>1, <2>2, Zenon
  <1>2. CASE \E irq \in Device \cup {1023} : Acknowledge(irq)
    BY <1>2 DEF Acknowledge
  <1>3. CASE Lookup
    <2>1. irq_pc' \in {"timer", "uart"}
      BY <1>3, Zenon DEF Lookup, LineInv
    <2> QED BY <1>3, <2>1, ZenonT(30) DEF Lookup, TypeOK
  <1>4. CASE TimerLock
    BY <1>4, ZenonT(30) DEF TimerLock, TypeOK
  <1>5. CASE \E t \in Kernel : Expire(t)
    BY <1>5 DEF Expire
  <1>6. CASE \E t \in Kernel : WakeLock(t)
    <2>1. /\ irq_pc = "wake" /\ irq_pc' = "waking" /\ pc' = pc
          /\ daif' = "off" /\ held' = [held EXCEPT !["RUNQ"] = daif] /\ spsr' = spsr
      BY <1>6, Zenon DEF WakeLock
    <2> QED BY <2>1, ZenonT(30) DEF TypeOK
  <1>7. CASE \E t \in Kernel : Wake(t)
    <2>1. /\ irq_pc = "waking" /\ irq_pc' = "expire" /\ pc' = pc
          /\ daif' = held["RUNQ"] /\ held' = [held EXCEPT !["RUNQ"] = "free"] /\ spsr' = spsr
      BY <1>7, Zenon DEF Wake
    <2> QED BY <2>1, ZenonT(30) DEF TypeOK
  <1>8. CASE ExpireEnd
    BY <1>8, ZenonT(30) DEF ExpireEnd, TypeOK
  <1>9. CASE TickIn \/ UartDrain \/ UartDrained
    BY <1>9, ZenonT(30) DEF TickIn, UartDrain, UartDrained
  <1>10. CASE UartBegin
    BY <1>10, ZenonT(30) DEF UartBegin, TypeOK
  <1>11. CASE UartDone
    BY <1>11, ZenonT(30) DEF UartDone, TypeOK
  <1>12. CASE Complete
    BY <1>12, ZenonT(30) DEF Complete, TypeOK
  <1>13. CASE Elapse \/ Receive \/ ReceiveTimeout
    <2>1. UNCHANGED <<daif, held, spsr, pc, irq_pc>>
      BY <1>13, Zenon DEF Elapse, Receive, ReceiveTimeout
    <2> QED BY <2>1, ZenonT(30)
  <1> HIDE DEF LockInv, MainHolds, HandlerHolds, Booting, Lock, cpu, Handle, HandleGo, lock, unlock,
               disable, restore
  <1> QED
    BY <1>1, <1>2, <1>3, <1>4, <1>5, <1>6, <1>7, <1>8, <1>9, <1>10, <1>11, <1>12, <1>13
    DEF Handler

(* Every step keeps CurInv. *)
LEMMA NextCurInv ==
  ASSUME TypeOK, CurInv, Next
  PROVE  CurInv'
  <1> USE TaskAssumption DEF CurInv, Task, Step, Go, tasks
  <1>1. CASE \/ GicInit \/ TimerInit \/ UartInit \/ RtcInit \/ Publish \/ Enable
             \/ SpawnBegin \/ SpawnLock \/ Run
    BY <1>1, Zenon
       DEF GicInit, TimerInit, UartInit, RtcInit, Publish, Enable, SpawnBegin, SpawnLock, Run
  <1>2. CASE \/ Spawn \/ SpawnEnd \/ PopLock \/ ReschedBegin \/ ReschedLock \/ Resched
             \/ ReschedEnd \/ EndLock \/ End
    BY <1>2, Zenon
       DEF Spawn, SpawnEnd, PopLock, ReschedBegin, ReschedLock, Resched, ReschedEnd, EndLock, End
  <1>3. CASE Pop
    <2>1. PICK t \in Task : pc' = at[t] /\ cur' = t
      BY <1>3, Zenon DEF Pop, TypeOK
    <2> QED BY <1>3, <2>1, Zenon DEF Pop
  <1>4. CASE Yield \/ PollAdd
    <2>1. CASE Yield
      BY <2>1, Zenon DEF Yield, TypeOK
    <2>2. CASE PollAdd
      <3>1. cur \in Kernel /\ at' = [at EXCEPT ![cur] = "poll"] /\ pc' = "return" /\ cur' = cur
        BY <2>2, Zenon DEF PollAdd
      <3> QED BY <3>1, Zenon DEF TypeOK
    <2> QED BY <1>4, <2>1, <2>2, Zenon
  <1>5. CASE PrintBegin \/ PrintEnd \/ DelayFor \/ PollReady \/ PollSlow \/ PollLock
    BY <1>5, Zenon DEF PrintBegin, PrintEnd, DelayFor, PollReady, PollSlow, PollLock
  <1>6. CASE ReturnPending \/ ReturnYielded \/ EndHangs
    BY <1>6, Zenon DEF ReturnPending, ReturnYielded, EndHangs
  <1>7. CASE TakeIrq
    BY <1>7, Zenon DEF TakeIrq
  <1>8. CASE Handler /\ ~TakeIrq
    <2>1. UNCHANGED <<pc, cur, at>>
      BY <1>8 DEF Handler, Acknowledge, Lookup, TimerLock, Expire, WakeLock, Wake, ExpireEnd,
                  TickIn, UartBegin, UartDrain, UartDrained, UartDone, Complete, Handle, HandleGo
    <2> QED BY <2>1, ZenonT(30)
  <1>9. CASE Elapse \/ Receive \/ ReceiveTimeout
    BY <1>9, Zenon DEF Elapse, Receive, ReceiveTimeout
  <1> HIDE DEF CurInv, Task, Step, Go, tasks
  <1> QED
    BY <1>1, <1>2, <1>3, <1>4, <1>5, <1>6, <1>7, <1>8, <1>9, Zenon DEF Next, Main

(* Every step keeps PlainInv: schedule_fn is never called for a task whose  *)
(* SchedTask is locked.                                                     *)
LEMMA NextPlainInv ==
  ASSUME TypeOK, CurInv, PlainInv, Next
  PROVE  PlainInv'
  <1> USE TaskAssumption DEF PlainInv, Step, Go, plain
  <1>0. sched \in [Task -> {"none", "pending", "waking", "scheduled", "running", "notified"}]
    BY Zenon DEF TypeOK
  <1> DEFINE Special == {"spawn_queue", "spawning", "spawned", "resched", "resched_queue",
                         "rescheduling", "rescheduled"}
  <1>a. ASSUME UNCHANGED <<locked, writing, sched, irq_pc>>, pc \notin Special, pc' \notin Special
        PROVE  PlainInv'
    BY <1>a, Zenon
  <1>1. CASE GicInit \/ TimerInit \/ UartInit \/ RtcInit \/ Publish \/ Enable \/ Run
    <2>1. pc \in {"init_gic", "init_timer", "init_uart", "init_rtc", "publish", "enable", "spawn"}
      BY <1>1, Zenon DEF GicInit, TimerInit, UartInit, RtcInit, Publish, Enable, Run
    <2>2. /\ pc' \in {"init_timer", "init_uart", "init_rtc", "publish", "enable", "spawn", "pop"}
          /\ UNCHANGED <<locked, writing, sched, irq_pc>>
      BY <1>1, Zenon DEF GicInit, TimerInit, UartInit, RtcInit, Publish, Enable, Run, tasks
    <2> QED BY <1>a, <2>1, <2>2, Zenon
  <1>2. CASE SpawnBegin \/ SpawnLock \/ SpawnEnd
    <2>1. /\ irq_pc = "none" /\ UNCHANGED <<locked, sched, irq_pc>>
          /\ pc \in {"spawn", "spawn_queue", "spawned"}
          /\ pc' \in {"spawn_queue", "spawning", "spawn"}
          /\ writing' <=> pc' \in {"spawn_queue", "spawning"}
      BY <1>2 DEF SpawnBegin, SpawnLock, SpawnEnd, tasks
    <2> QED BY <2>1, Zenon
  <1>3. CASE Spawn
    <2>1. /\ irq_pc = "none" /\ UNCHANGED <<locked, writing, irq_pc>>
          /\ pc = "spawning" /\ pc' = "spawned"
      BY <1>3, Zenon DEF Spawn
    <2>2. \A u \in Task : sched'[u] # "waking"
      BY <1>0, <1>3, <2>1, Zenon DEF Spawn, Task
    <2> QED BY <2>1, <2>2, Zenon
  <1>4. CASE \/ PopLock \/ PrintBegin \/ PrintEnd \/ DelayFor \/ PollReady \/ PollSlow
             \/ PollLock \/ PollAdd
    <2>1. pc \in {"pop", "print", "printing", "delay_for", "poll", "poll_slow", "adding"}
      BY <1>4, Zenon
         DEF PopLock, PrintBegin, PrintEnd, DelayFor, PollReady, PollSlow, PollLock, PollAdd
    <2>2. /\ pc' \in {"popping", "printing", "delay_for", "poll", "print", "poll_slow", "adding",
                      "return"}
          /\ UNCHANGED <<locked, writing, sched, irq_pc>>
      BY <1>4, Zenon
         DEF PopLock, PrintBegin, PrintEnd, DelayFor, PollReady, PollSlow, PollLock, PollAdd, tasks
    <2> QED BY <1>a, <2>1, <2>2, Zenon
  <1>5. CASE Pop
    <2>1. PICK t \in Task : /\ pc = "popping" /\ pc' = at[t] /\ irq_pc = "none"
                            /\ sched' = [sched EXCEPT ![t] = "running"]
                            /\ UNCHANGED <<irq_pc, locked, writing>>
      BY <1>5, Zenon DEF Pop, TypeOK
    <2>2. at[t] \in {"print", "delay_for", "poll", "yield", "halt"}
      BY Zenon DEF TypeOK
    <2>3. \A u \in Task : sched'[u] # "waking"
      BY <1>0, <2>1, Zenon
    <2> QED BY <2>1, <2>2, <2>3, Zenon
  <1>6. CASE Yield \/ ReturnPending \/ ReturnYielded
    <2>1. cur \in Task /\ irq_pc = "none"
      BY <1>6 DEF CurInv, Yield, ReturnPending, ReturnYielded, Task
    <2>2. \A u \in Task : sched'[u] # "waking"
      BY <1>0, <1>6, <2>1, Zenon DEF Yield, ReturnPending, ReturnYielded
    <2>3. ReturnYielded => sched'[cur] = "scheduled"
      BY <1>0, <2>1, Zenon DEF ReturnYielded
    <2>4. /\ UNCHANGED <<locked, writing, irq_pc, cur>> /\ pc \in {"yield", "return"}
          /\ pc' \in {"return", "end"} \/ (pc' = "resched" /\ ReturnYielded)
      BY <1>6, Zenon DEF Yield, ReturnPending, ReturnYielded
    <2> QED BY <2>1, <2>2, <2>3, <2>4, Zenon
  <1>7. CASE ReschedBegin \/ ReschedLock \/ Resched \/ ReschedEnd
    <2>1. /\ irq_pc = "none" /\ UNCHANGED <<writing, sched, irq_pc, cur>>
          /\ pc \in {"resched", "resched_queue", "rescheduling", "rescheduled"}
          /\ pc' \in {"resched_queue", "rescheduling", "rescheduled", "end_yielded"}
      BY <1>7 DEF ReschedBegin, ReschedLock, Resched, ReschedEnd, tasks
    <2>2. locked' = IF pc' = "end_yielded" THEN {} ELSE {cur}
      <3>1. CASE ReschedBegin
        BY <3>1, Zenon DEF ReschedBegin
      <3>2. CASE ReschedLock \/ Resched
        BY <3>2, Zenon DEF ReschedLock, Resched
      <3>3. CASE ReschedEnd
        BY <3>3, Zenon DEF ReschedEnd
      <3> QED BY <1>7, <3>1, <3>2, <3>3, Zenon
    <2> QED BY <2>1, <2>2, Zenon
  <1>8. CASE EndLock \/ End \/ EndHangs
    <2>1. /\ UNCHANGED <<locked, writing, sched, irq_pc>>
          /\ pc \in {"end", "end_yielded", "ending", "ending_yielded"}
          /\ pc' \in {"ending", "ending_yielded", "pop"}
      BY <1>8, Zenon DEF EndLock, End, EndHangs, tasks
    <2> QED BY <1>a, <2>1, Zenon
  <1>9. CASE TakeIrq
    <2>1. /\ irq_pc = "none" /\ irq_pc' = "acknowledge" /\ UNCHANGED <<locked, writing, sched, cur>>
          /\ pc' = IF pc = "halt" THEN "yield" ELSE pc
      BY <1>9, Zenon DEF TakeIrq, InterruptDue, tasks
    <2>2. \/ pc' = pc
          \/ pc \notin Special /\ pc' \notin Special
      BY <2>1, Zenon
    <2> QED BY <2>1, <2>2, Zenon
  <1>10. CASE \/ (\E irq \in Device \cup {1023} : Acknowledge(irq)) \/ Lookup \/ TimerLock
              \/ ExpireEnd \/ TickIn \/ UartBegin \/ UartDrain \/ UartDrained \/ UartDone
              \/ Complete
    <2>1. UNCHANGED <<pc, cur, sched, locked, writing>>
      BY <1>10
         DEF Acknowledge, Lookup, TimerLock, ExpireEnd, TickIn, UartBegin, UartDrain, UartDrained,
             UartDone, Complete, Handle, HandleGo, tasks
    <2>2. irq_pc \notin {"wake", "waking"} /\ irq_pc' \notin {"wake", "waking"}
      BY <1>10
         DEF Acknowledge, Lookup, TimerLock, ExpireEnd, TickIn, UartBegin, UartDrain, UartDrained,
             UartDone, Complete, Handle, HandleGo
    <2> QED BY <2>1, <2>2, Zenon
  <1>11. ASSUME NEW t \in Kernel, Expire(t) PROVE PlainInv'
    <2>1. /\ irq_pc = "expire" /\ irq_pc' \in {"expire", "wake"}
          /\ UNCHANGED <<pc, cur, locked, writing>> /\ sched[t] \in {"running", "pending"}
          /\ sched' = [sched EXCEPT ![t] = IF irq_pc' = "wake" THEN "waking" ELSE "notified"]
      BY <1>11, Zenon DEF Expire, Handle, HandleGo
    <2>2. t \in Task /\ sched[t] # "scheduled" /\ \A u \in Task : sched[u] # "waking"
      BY <2>1, Zenon DEF Task
    <2>3. \A u \in Task : /\ sched'[u] = "waking" => u = t /\ irq_pc' = "wake"
                          /\ sched[u] = "scheduled" => sched'[u] = "scheduled"
      BY <1>0, <2>1, <2>2
    <2>4. pc \in {"resched", "resched_queue", "rescheduling", "rescheduled"} => cur \in Task
      BY Zenon DEF CurInv
    <2> QED BY <2>1, <2>3, <2>4, Zenon
  <1>12. ASSUME NEW t \in Kernel, WakeLock(t) PROVE PlainInv'
    <2>1. /\ irq_pc = "wake" /\ irq_pc' = "waking" /\ sched[t] = "waking"
          /\ locked' = locked \cup {t} /\ UNCHANGED <<pc, cur, sched, writing>>
      BY <1>12, Zenon DEF WakeLock, HandleGo
    <2>2. {u \in Kernel : sched[u] = "waking"} = {t}
      BY <2>1, Zenon DEF Task
    <2> QED BY <2>1, <2>2, Zenon
  <1>13. ASSUME NEW t \in Kernel, Wake(t) PROVE PlainInv'
    <2>1. /\ irq_pc = "waking" /\ irq_pc' = "expire" /\ sched[t] = "waking"
          /\ locked' = locked \ {t} /\ UNCHANGED <<pc, cur, writing>>
          /\ sched' = [sched EXCEPT ![t] = "scheduled"]
      BY <1>13, Zenon DEF Wake, HandleGo
    <2>2. t \in Task /\ {u \in Kernel : sched[u] = "waking"} = {t}
      BY <2>1, Zenon DEF Task
    <2>3. \A u \in Task : /\ sched'[u] # "waking"
                          /\ sched[u] = "scheduled" => sched'[u] = "scheduled"
      BY <1>0, <2>1, <2>2
    <2>4. pc \in {"resched", "resched_queue", "rescheduling", "rescheduled"} =>
            cur \in Task /\ cur # t
      BY <2>1 DEF CurInv
    <2> QED BY <2>1, <2>2, <2>3, <2>4, Zenon
  <1>14. CASE Elapse \/ Receive \/ ReceiveTimeout
    <2>1. UNCHANGED <<locked, writing, sched, irq_pc, pc, cur>>
      BY <1>14, Zenon DEF Elapse, Receive, ReceiveTimeout, tasks
    <2> QED BY <2>1, Zenon
  <1> HIDE DEF PlainInv, Step, Go, plain
  <1> QED
    BY <1>1, <1>2, <1>3, <1>4, <1>5, <1>6, <1>7, <1>8, <1>9, <1>10, <1>11, <1>12, <1>13, <1>14
    DEF Next, Main, Handler

(* Boot leaves every device's line enabled and the slice routed, the clock's *)
(* alarm masked, and no handler runs for any other line.                    *)
LEMMA NextLineInv ==
  ASSUME TypeOK, LockInv, LineInv, Next
  PROVE  LineInv'
  <1> USE DEF LineInv, Step, Go
  <1>0. TIMER_IRQ \in Nat /\ UART_IRQ \in Nat /\ RTC_IRQ \in Nat
    BY BoardAssumption DEF TIMER_IRQ, UART_IRQ, RTC_IRQ, irq_number
  <1>1. CASE GicInit
    <2>1. /\ gicd'.enabled = gicd.enabled \ (32..(NumIrqs - 1))
          /\ gicd'.routed = gicd.routed \cup itargets_slice(NumIrqs)
      BY <1>1, Zenon DEF GicInit, gic_init, gicc_enable, boot_core_init, TypeOK
    <2>2. gicd'.enabled = {} /\ gicd'.routed = itargets_slice(NumIrqs)
      BY <1>1, <2>1, Zenon DEF GicInit
    <2> QED BY <1>1, <2>1, <2>2, Zenon DEF GicInit, devices
  <1>2. ASSUME NEW irq \in {TIMER_IRQ, UART_IRQ, RTC_IRQ}, Register(irq)
        PROVE  /\ drivers' = drivers \cup {irq} /\ gicd'.enabled = gicd.enabled \cup {irq}
               /\ gicd'.routed = gicd.routed /\ manager' = manager /\ active' = active
    <2>1. gicd' = [gicd EXCEPT !.enabled = gicd.enabled \cup {irq}]
      <3>1. irq \in Nat
        BY <1>0
      <3>2. gicd_enable(gicd, irq) = [gicd EXCEPT !.enabled = gicd.enabled \cup {irq}]
        BY <3>1, EnableLine, Zenon DEF TypeOK
      <3> QED BY <1>2, <3>2, Zenon DEF Register
    <2> QED BY <1>2, <2>1, Zenon DEF Register, TypeOK
  <1>3. CASE TimerInit
    BY <1>2, <1>3, Zenon DEF TimerInit
  <1>4. CASE UartInit
    BY <1>2, <1>4, Zenon DEF UartInit
  <1>5. CASE RtcInit
    BY <1>2, <1>5, Zenon DEF RtcInit, rtc_init, Device
  <1>6. CASE Publish \/ Enable
    BY <1>6, Zenon DEF Publish, Enable, gic, devices
  <1>7. CASE \/ SpawnBegin \/ SpawnLock \/ Spawn \/ SpawnEnd \/ Run \/ PopLock \/ Yield
             \/ PrintBegin \/ PrintEnd
             \/ DelayFor \/ PollReady \/ PollSlow \/ PollLock
    <2>1. UNCHANGED <<gicd, drivers, manager, active, rtc_imsc, halted, irq_pc>>
      BY <1>7, Zenon DEF SpawnBegin, SpawnLock, Spawn, SpawnEnd, Run, PopLock, Yield,
                         PrintBegin, PrintEnd, DelayFor, PollReady, PollSlow, PollLock, gic,
                         devices
    <2>2. /\ pc \in {"spawn", "spawn_queue", "spawning", "spawned", "pop", "yield", "print",
                     "printing", "delay_for", "poll", "poll_slow"}
          /\ pc' \in {"spawn_queue", "spawning", "spawned", "spawn", "pop", "popping", "return",
                      "printing", "delay_for", "poll", "print", "poll_slow", "adding"}
      BY <1>7, Zenon DEF SpawnBegin, SpawnLock, Spawn, SpawnEnd, Run, PopLock, Yield,
                         PrintBegin, PrintEnd, DelayFor, PollReady, PollSlow, PollLock
    <2> QED BY <2>1, <2>2, Zenon
  <1>8. CASE \/ PollAdd \/ ReturnPending \/ ReturnYielded \/ ReschedBegin \/ ReschedLock
             \/ Resched \/ ReschedEnd
             \/ EndLock \/ End \/ EndHangs
    <2>1. UNCHANGED <<gicd, drivers, manager, active, rtc_imsc, halted, irq_pc>>
      BY <1>8, Zenon
         DEF PollAdd, ReturnPending, ReturnYielded, ReschedBegin, ReschedLock, Resched,
             ReschedEnd, EndLock, End, EndHangs, gic, devices
    <2>2. /\ pc \in {"adding", "return", "resched", "resched_queue", "rescheduling",
                     "rescheduled", "end", "end_yielded", "ending", "ending_yielded"}
          /\ pc' \in {"return", "end", "resched", "resched_queue", "rescheduling",
                      "rescheduled", "end_yielded", "ending", "ending_yielded", "pop"}
      BY <1>8, Zenon
         DEF PollAdd, ReturnPending, ReturnYielded, ReschedBegin, ReschedLock, Resched,
             ReschedEnd, EndLock, End, EndHangs
    <2> QED BY <2>1, <2>2, Zenon
  <1>9. CASE Pop
    <2>1. pc = "popping" /\ pc' \in {"print", "delay_for", "poll", "yield", "halt"}
      BY <1>9, Zenon DEF Pop, TypeOK
    <2> QED BY <1>9, <2>1, Zenon DEF Pop, gic, devices
  <1>10. CASE TakeIrq
    BY <1>10, Zenon DEF TakeIrq, gic, devices
  <1>11. ASSUME NEW irq \in Device \cup {1023}, Acknowledge(irq) PROVE LineInv'
    <2>1. irq # 1023 => irq \in {TIMER_IRQ, UART_IRQ}
      BY <1>11 DEF Acknowledge, pending_irq_number, Pending, Asserted
    <2> QED BY <1>11, <2>1 DEF Acknowledge, Handle, HandleGo, devices
  <1>12. CASE Lookup
    <2>1. pc \notin Booting
      BY <1>12, Zenon DEF Lookup, LockInv
    <2>2. drivers = Device
      BY <2>1, Zenon DEF Booting
    <2>3. active \in drivers /\ active # RTC_IRQ
      BY <1>12, <2>2, BoardAssumption, Zenon DEF Lookup, Device
    <2> QED BY <1>12, <2>3, Zenon DEF Lookup, gic, devices
  <1>13. CASE \/ TimerLock \/ (\E t \in Kernel : Expire(t)) \/ (\E t \in Kernel : WakeLock(t))
              \/ (\E t \in Kernel : Wake(t))
    <2>1. /\ UNCHANGED <<pc, gicd, drivers, manager, active, rtc_imsc, halted>>
          /\ irq_pc \in {"timer", "expire", "wake", "waking"}
      BY <1>13, Zenon DEF TimerLock, Expire, WakeLock, Wake, Handle, HandleGo, gic, devices
    <2> QED BY <2>1, Zenon
  <1>14. CASE ExpireEnd \/ TickIn \/ UartBegin \/ UartDrain \/ UartDrained \/ UartDone
    <2>1. /\ UNCHANGED <<pc, gicd, drivers, manager, active, rtc_imsc, halted>>
          /\ irq_pc \in {"expire", "tick_in", "uart", "uart_drain", "uart_done"}
      BY <1>14, Zenon
         DEF ExpireEnd, TickIn, UartBegin, UartDrain, UartDrained, UartDone, Handle, HandleGo, gic,
                   devices
    <2> QED BY <2>1, Zenon
  <1>15. CASE Complete
    BY <1>15, Zenon DEF Complete, Handle, HandleGo, devices
  <1>16. CASE Elapse \/ Receive \/ ReceiveTimeout
    <2>1. UNCHANGED <<pc, irq_pc, gicd, drivers, manager, active, rtc_imsc, halted>>
      BY <1>16, Zenon DEF Elapse, Receive, ReceiveTimeout, gic
    <2> QED BY <2>1, Zenon
  <1> HIDE DEF LineInv, Step, Go
  <1> QED
    BY <1>1, <1>3, <1>4, <1>5, <1>6, <1>7, <1>8, <1>9, <1>10, <1>11, <1>12, <1>13, <1>14,
       <1>15, <1>16 DEF Next, Main, Handler

(* The steps that leave the serial line and the timer alone. *)
LEMMA DevicesSame ==
  ASSUME Next, ~TimerInit, ~UartInit, ~RtcInit, ~TickIn, ~UartBegin, ~UartDrain, ~Elapse,
         ~Receive, ~ReceiveTimeout
  PROVE  UNCHANGED <<devices, serial>>
  <1>1. CASE Main
    BY <1>1, Zenon
       DEF Main, GicInit, Publish, Enable, SpawnBegin, SpawnLock, Spawn, SpawnEnd, Run, PopLock,
           Pop, Yield, PrintBegin, PrintEnd, DelayFor, PollReady, PollSlow, PollLock, PollAdd,
           ReturnPending, ReturnYielded, ReschedBegin, ReschedLock, Resched, ReschedEnd,
           EndLock, End, EndHangs
  <1>2. CASE Handler
    BY <1>2, SMTT(30), Zenon
       DEF Handler, TakeIrq, Acknowledge, Lookup, TimerLock, Expire, WakeLock, Wake,
                ExpireEnd, UartDrained, UartDone, Complete
  <1> QED BY <1>1, <1>2, Zenon DEF Next

(* A receive interrupt is up only for a reason, and a timeout raises one. *)
LEMMA NextUartInv ==
  ASSUME TypeOK, UartInv, Next
  PROVE  UartInv'
  <1> DEFINE Char == Range(Script)
  <1>0. /\ uart \in [on : BOOLEAN, imsc : SUBSET RxIrq, ris : SUBSET RxIrq, timed : BOOLEAN,
                     fifo : Seq(Char)]
        /\ RxLevel \in Nat \ {0}
    BY TaskAssumption, Zenon DEF TypeOK
  <1> HIDE DEF Char
  <1> USE DEF UartInv
  <1>1. CASE TimerInit \/ RtcInit \/ TickIn \/ Elapse
    BY <1>1, Zenon DEF TimerInit, RtcInit, TickIn, Elapse
  <1>2. ASSUME uart' = write_icr(uart, ICR_ALL_CLEAR) \/ uart' = uart_init(uart)
        PROVE  UartInv'
    BY <1>0, <1>2, ZenonT(30) DEF uart_init, write_icr, ICR_ALL_CLEAR
  <1>3. CASE UartInit \/ UartBegin
    BY <1>2, <1>3, Zenon DEF UartInit, UartBegin
  <1>4. CASE UartDrain
    <2> DEFINE rest == Tail(uart.fifo)
               gone == (IF Len(rest) < RxLevel THEN {"RX"} ELSE {})
                         \cup (IF rest = <<>> THEN {"RT"} ELSE {})
    <2>1. uart' = [uart EXCEPT !.fifo = rest, !.timed = FALSE, !.ris = uart.ris \ gone]
      BY <1>4, Zenon DEF UartDrain
    <2>2. uart'.fifo = rest /\ uart'.timed = FALSE /\ uart'.ris = uart.ris \ gone
      BY <1>0, <2>1, Zenon
    <2>3. rest \in Seq(Char) /\ Len(rest) \in Nat
      BY <1>0, <1>4 DEF UartDrain
    <2>4. Len(rest) < RxLevel => "RX" \notin uart.ris \ gone
      BY Zenon
    <2>5. rest = <<>> => "RT" \notin uart.ris \ gone
      BY Zenon
    <2> HIDE DEF rest, gone
    <2> QED BY <1>0, <2>2, <2>3, <2>4, <2>5
  <1>5. CASE Receive
    <2> DEFINE c == Script[typed']
               up == IF Len(uart.fifo) + 1 >= RxLevel THEN {"RX"} ELSE {}
    <2>1. uart' = [uart EXCEPT !.fifo = Append(uart.fifo, c), !.timed = FALSE,
                     !.ris = uart.ris \cup up]
      BY <1>5, Zenon DEF Receive
    <2>2. /\ uart'.fifo = Append(uart.fifo, c) /\ uart'.timed = FALSE
          /\ uart'.ris = uart.ris \cup up
      BY <1>0, <2>1, Zenon
    <2>3. c \in Char
      BY <1>5, TaskAssumption DEF Receive, TypeOK, Char, Range
    <2>4. Len(uart'.fifo) = Len(uart.fifo) + 1 /\ Len(uart.fifo) \in Nat /\ uart'.fifo # <<>>
      BY <1>0, <2>2, <2>3
    <2>5. "RX" \in up => Len(uart.fifo) + 1 >= RxLevel
      BY Zenon
    <2>6. "RT" \notin up
      BY Zenon
    <2> HIDE DEF up
    <2> QED BY <1>0, <2>2, <2>4, <2>5, <2>6
  <1>6. CASE ReceiveTimeout
    BY <1>0, <1>6, Zenon DEF ReceiveTimeout
  <1>7. CASE UNCHANGED <<devices, serial>>
    BY <1>7, Zenon DEF devices
  <1> QED BY <1>1, <1>3, <1>4, <1>5, <1>6, <1>7, DevicesSame, Zenon
-----------------------------------------------------------------------------

\* The parts of TypeOK.
CpuType ==
  /\ daif \in {"on", "off"} /\ spsr \in {"on", "off"}
  /\ held \in [Lock -> {"free", "on", "off"}]
  /\ locked \subseteq Task /\ writing \in BOOLEAN
  /\ pc \in Place /\ irq_pc \in HandlerPlace
  /\ hung \in BOOLEAN /\ halted \in BOOLEAN
TaskType ==
  /\ cur \in Task \cup {None} /\ queue \subseteq Task
  /\ sched \in [Task -> {"none", "pending", "waking", "scheduled", "running", "notified"}]
  /\ at \in [Task -> {"print", "delay_for", "poll", "yield", "halt"}]
  /\ left \in [Kernel -> Nat] /\ events \subseteq Kernel
GicType ==
  /\ gicd \in [on : BOOLEAN, cpu : BOOLEAN, routed : SUBSET (0..(NumIrqs - 1)),
              enabled : SUBSET (0..(NumIrqs - 1))]
  /\ drivers \subseteq Device /\ manager \in BOOLEAN /\ active \in Device \cup {None}
DeviceType ==
  /\ timer \in {"off", "armed", "fired"}
  /\ uart \in [on : BOOLEAN, imsc : SUBSET RxIrq, ris : SUBSET RxIrq, timed : BOOLEAN,
              fifo : Seq(Range(Script))]
  /\ rtc_imsc \in BOOLEAN
  /\ typed \in 0..Len(Script) /\ echo \in Seq(Range(Script) \cup {"nl"})

(* TypeOK is the conjunction of its parts. *)
LEMMA TypeParts == TypeOK <=> CpuType /\ TaskType /\ GicType /\ DeviceType
  BY SMTT(30), Zenon DEF TypeOK, CpuType, TaskType, GicType, DeviceType

(* What does not touch the controller, its drivers or the active interrupt. *)
LEMMA GicSame ==
  ASSUME Next, ~GicInit, ~TimerInit, ~UartInit, ~RtcInit, ~Publish, ~Complete,
         ~\E irq \in Device \cup {1023} : Acknowledge(irq)
  PROVE  UNCHANGED gic
  <1>1. CASE Main
    BY <1>1, ZenonT(30) DEF Main, Enable, SpawnBegin, SpawnLock, Spawn, SpawnEnd, Run, PopLock,
                            Pop, Yield, PrintBegin, PrintEnd, DelayFor, PollReady, PollSlow,
                            PollLock, PollAdd, ReturnPending, ReturnYielded, ReschedBegin,
                            ReschedLock, Resched, ReschedEnd, EndLock, End, EndHangs
  <1>2. CASE Handler
    BY <1>2, ZenonT(30) DEF Handler, TakeIrq, Lookup, TimerLock, Expire, WakeLock, Wake, ExpireEnd,
         TickIn, UartBegin, UartDrain, UartDrained, UartDone
  <1>3. CASE Elapse \/ Receive \/ ReceiveTimeout
    BY <1>3, ZenonT(30) DEF Elapse, Receive, ReceiveTimeout
  <1> QED BY <1>1, <1>2, <1>3, ZenonT(30) DEF Next

(* Every step keeps the type of the controller's state: the lines that are  *)
(* routed and enabled exist.                                                *)
LEMMA NextGicType ==
  ASSUME GicType, TypeOK, Next
  PROVE  GicType'
  <1> USE DEF GicType
  <1>1. CASE GicInit
    <2>1. itargets_slice(NumIrqs) \subseteq 0..(NumIrqs - 1)
      BY Slice, Zenon
    <2>2. \A g : g \in [on : BOOLEAN, cpu : BOOLEAN, routed : SUBSET (0..(NumIrqs - 1)),
                        enabled : SUBSET (0..(NumIrqs - 1))] =>
                 gic_init(g) \in [on : BOOLEAN, cpu : BOOLEAN, routed : SUBSET (0..(NumIrqs - 1)),
                                  enabled : SUBSET (0..(NumIrqs - 1))]
      BY <2>1, Zenon DEF gic_init, gicc_enable, boot_core_init
    <2> QED BY <1>1, <2>2, Zenon DEF GicInit
  <1>2. ASSUME NEW irq \in Device, Register(irq) PROVE GicType'
    <2>1. irq \in 0..(NumIrqs - 1) /\ irq \in Nat
      BY DeviceLines, BoardAssumption
    <2>2. gicd' = [gicd EXCEPT !.enabled = gicd.enabled \cup {irq}]
      BY <1>2, <2>1, EnableLine, Zenon DEF Register
    <2> QED BY <1>2, <2>1, <2>2, Zenon DEF Register
  <1>3. CASE TimerInit \/ UartInit \/ RtcInit
    BY <1>2, <1>3, Zenon DEF TimerInit, UartInit, RtcInit, Device
  <1>4. CASE Publish
    BY <1>4, Zenon DEF Publish
  <1>5. CASE \E irq \in Device \cup {1023} : Acknowledge(irq)
    BY <1>5 DEF Acknowledge
  <1>6. CASE Complete
    BY <1>6, Zenon DEF Complete, mark_completed
  <1>7. CASE UNCHANGED gic
    BY <1>7, Zenon DEF gic
  <1> HIDE DEF GicType
  <1> QED BY <1>1, <1>3, <1>4, <1>5, <1>6, <1>7, GicSame, ZenonT(30)

(* Every step keeps the type of the devices and of the echo. *)
LEMMA NextDeviceType ==
  ASSUME DeviceType, Next
  PROVE  DeviceType'
  <1> USE DEF DeviceType
  <1> DEFINE Char == Range(Script)
             Uart == [on : BOOLEAN, imsc : SUBSET RxIrq, ris : SUBSET RxIrq, timed : BOOLEAN,
                      fifo : Seq(Char)]
  <1>0. uart \in Uart
    BY Zenon
  <1>1. write_icr(uart, ICR_ALL_CLEAR) \in Uart /\ uart_init(uart) \in Uart
    BY <1>0, Zenon DEF write_icr, ICR_ALL_CLEAR, uart_init
  <1>2. CASE TimerInit \/ RtcInit \/ TickIn \/ Elapse
    BY <1>2, ZenonT(30), Zenon DEF TimerInit, RtcInit, rtc_init, TickIn, Elapse, serial
  <1>3. CASE UartInit \/ UartBegin
    BY <1>1, <1>3, Zenon DEF UartInit, UartBegin, serial
  <1>4. CASE UartDrain
    <2> DEFINE rest == Tail(uart.fifo)
               gone == (IF Len(rest) < RxLevel THEN {"RX"} ELSE {})
                         \cup (IF rest = <<>> THEN {"RT"} ELSE {})
    <2>1. /\ uart' = [uart EXCEPT !.fifo = rest, !.timed = FALSE, !.ris = uart.ris \ gone]
          /\ uart.fifo # <<>>
          /\ echo' = Append(echo, read_char_converting(Head(uart.fifo)))
          /\ UNCHANGED <<timer, rtc_imsc, typed>>
      BY <1>4, Zenon DEF UartDrain
    <2>2. rest \in Seq(Char) /\ Head(uart.fifo) \in Char
      BY <1>0, <2>1
    <2>3. uart' \in Uart
      <3> HIDE DEF rest, gone, Char
      <3> QED BY <1>0, <2>1, <2>2, Zenon
    <2>4. read_char_converting(Head(uart.fifo)) \in Char \cup {"nl"}
      BY <2>2, Zenon DEF read_char_converting
    <2>5. echo' \in Seq(Char \cup {"nl"})
      BY <2>1, <2>4
    <2> QED BY <2>1, <2>3, <2>5, Zenon
  <1>5. CASE Receive
    <2> DEFINE c == Script[typed']
               up == IF Len(uart.fifo) + 1 >= RxLevel THEN {"RX"} ELSE {}
    <2>1. /\ uart' = [uart EXCEPT !.fifo = Append(uart.fifo, c), !.timed = FALSE,
                        !.ris = uart.ris \cup up]
          /\ typed < Len(Script) /\ typed' = typed + 1
          /\ UNCHANGED <<timer, rtc_imsc, echo>>
      BY <1>5, Zenon DEF Receive
    <2>2. c \in Char /\ typed' \in 0..Len(Script)
      BY <2>1, TaskAssumption DEF Range
    <2>3. up \subseteq RxIrq
      BY Zenon DEF RxIrq
    <2>4. uart' \in Uart
      <3> HIDE DEF up, Char, c
      <3>1. uart.fifo \in Seq(Char) /\ Append(uart.fifo, c) \in Seq(Char)
        BY <1>0, <2>2
      <3>2. uart.ris \cup up \in SUBSET RxIrq
        BY <1>0, <2>3, Zenon
      <3> QED BY <1>0, <2>1, <3>1, <3>2, Zenon
    <2> QED BY <2>1, <2>2, <2>4, Zenon
  <1>6. CASE ReceiveTimeout
    <2>1. uart' \in Uart
      BY <1>0, <1>6, Zenon DEF ReceiveTimeout, RxIrq
    <2> QED BY <1>6, <2>1, Zenon DEF ReceiveTimeout, serial
  <1>7. CASE UNCHANGED <<devices, serial>>
    BY <1>7, Zenon DEF devices, serial
  <1> QED BY <1>2, <1>3, <1>4, <1>5, <1>6, <1>7, DevicesSame, Zenon

(* Every step keeps the type of the tasks and of their delays. *)
LEMMA NextTaskType ==
  ASSUME TaskType, CurInv, LineInv, Next
  PROVE  TaskType'
  <1> USE TaskAssumption DEF TaskType
  <1>1. CASE Spawn
    BY <1>1, Zenon DEF Spawn, Task, delays
  <1>2. CASE Pop
    BY <1>2, Zenon DEF Pop, delays
  <1>3. CASE Yield
    BY <1>3, Zenon DEF Yield, delays
  <1>4. CASE DelayFor
    BY <1>4, Zenon DEF DelayFor, Step, Go, CurInv, tasks
  <1>5. CASE PollAdd
    BY <1>5, Zenon DEF PollAdd, Step, Go, CurInv
  <1>6. CASE ReturnPending \/ ReturnYielded
    BY <1>6, Zenon DEF ReturnPending, ReturnYielded, delays
  <1>7. CASE Resched
    BY <1>7, Zenon DEF Resched, ReschedEnd, Step, Go, CurInv, delays
  <1>8. CASE End
    BY <1>8, Zenon DEF End, delays
  <1>9. CASE \E t \in Kernel : Expire(t)
    BY <1>9, Zenon DEF Expire, Handle, HandleGo
  <1>10. CASE \E t \in Kernel : Wake(t)
    BY <1>10 DEF Wake, Handle, HandleGo, delays, Task
  <1>11. CASE Elapse
    <2>1. left' \in [Kernel -> Nat]
      BY <1>11 DEF Elapse
    <2> QED BY <1>11, <2>1, Zenon DEF Elapse, tasks
  <1>12. CASE UNCHANGED <<tasks, delays>>
    BY <1>12, Zenon DEF tasks, delays
  <1>13. CASE Main
    <2>1. CASE \/ GicInit \/ TimerInit \/ UartInit \/ RtcInit \/ Publish \/ Enable \/ SpawnBegin
               \/ SpawnLock \/ Run
      BY <1>12, <2>1, Zenon
         DEF GicInit, TimerInit, UartInit, RtcInit, Publish, Enable, SpawnBegin, SpawnLock, Run
    <2>2. CASE \/ PopLock \/ PrintBegin \/ PrintEnd \/ PollReady \/ PollSlow \/ PollLock
               \/ ReschedBegin \/ ReschedLock
               \/ EndLock \/ EndHangs
      BY <1>12, <2>2, Zenon
         DEF PopLock, PrintBegin, PrintEnd, PollReady, PollSlow, PollLock, ReschedBegin,
             ReschedLock, EndLock, EndHangs
    <2>3. CASE SpawnEnd \/ ReschedEnd
      BY <1>12, <2>3, Zenon DEF SpawnEnd, ReschedEnd
    <2> HIDE DEF TaskType
    <2> QED
      BY <1>1, <1>2, <1>3, <1>4, <1>5, <1>6, <1>7, <1>8, <1>13, <2>1, <2>2, <2>3, Zenon DEF Main
  <1>14. CASE Handler
    <2>1. CASE \/ TakeIrq \/ (\E irq \in Device \cup {1023} : Acknowledge(irq)) \/ Lookup
               \/ TimerLock \/ (\E t \in Kernel : WakeLock(t)) \/ ExpireEnd \/ TickIn
      <3>1. UNCHANGED <<tasks, delays>>
        BY <2>1 DEF TakeIrq, Acknowledge, Lookup, TimerLock, WakeLock, ExpireEnd, TickIn,
                    Handle, HandleGo, tasks
      <3> QED BY <1>12, <3>1, Zenon
    <2>2. CASE UartBegin \/ UartDrain \/ UartDrained \/ UartDone \/ Complete
      <3>1. UNCHANGED <<tasks, delays>>
        BY <2>2, Zenon DEF UartBegin, UartDrain, UartDrained, UartDone, Complete, Handle,
                           HandleGo, tasks
      <3> QED BY <1>12, <3>1, Zenon
    <2> HIDE DEF TaskType
    <2> QED BY <1>9, <1>10, <1>14, <2>1, <2>2 DEF Handler
  <1> QED BY <1>11, <1>12, <1>13, <1>14, Zenon DEF Next, Receive, ReceiveTimeout

(* Every step keeps the type of the CPU's state. *)
LEMMA NextCpuType ==
  ASSUME CpuType, TypeOK, CurInv, LockInv, PlainInv, LineInv, Next
  PROVE  CpuType'
  <1> DEFINE Regs(d, p, h) == /\ d \in {"on", "off"} /\ p \in {"on", "off"}
                              /\ h \in [Lock -> {"free", "on", "off"}]
  <1>0. Regs(daif, spsr, held)
    BY Zenon DEF CpuType
  <1>1. ASSUME UNCHANGED cpu \/ \E l \in Lock : lock(l) PROVE Regs(daif', spsr', held')
    BY <1>0, <1>1, Zenon DEF lock, disable, cpu
  <1>2. ASSUME NEW l \in Lock, l \in MainHolds(pc) \cup HandlerHolds(irq_pc), unlock(l)
        PROVE  Regs(daif', spsr', held')
    BY <1>0, <1>2, Zenon DEF unlock, restore, LockInv
  <1>3. {"LOG", "RUNQ", "TIMER", "IRQMAP", "UART"} = Lock
    BY Zenon DEF Lock
  <1> HIDE DEF Regs
  <1>4. Regs(daif', spsr', held')
    <2>1. CASE Spawn \/ Pop \/ Resched \/ End
      <3>1. unlock("RUNQ") /\ "RUNQ" \in MainHolds(pc)
        BY <2>1, Zenon DEF Spawn, SpawnEnd, Pop, Resched, ReschedEnd, End, Step, Go, MainHolds
      <3> QED BY <1>2, <1>3, <3>1, Zenon
    <2>2. CASE PrintEnd
      BY <1>2, <1>3, <2>2, Zenon DEF PrintEnd, Step, Go, MainHolds
    <2>3. CASE PollAdd
      BY <1>2, <1>3, <2>3, Zenon DEF PollAdd, Step, Go, MainHolds
    <2>4. CASE Enable
      BY <1>0, <2>4, Zenon DEF Enable, Regs
    <2>12. CASE \/ SpawnBegin \/ SpawnEnd \/ ReschedBegin \/ ReschedEnd \/ Run \/ Yield \/ DelayFor
                \/ PollReady \/ PollSlow \/ ReturnPending \/ ReturnYielded \/ EndHangs
      BY <1>1, <2>12, Zenon
         DEF SpawnBegin, SpawnEnd, ReschedBegin, ReschedEnd, Run, Yield, DelayFor, PollReady,
             PollSlow, ReturnPending, ReturnYielded, EndHangs
    <2>13. CASE SpawnLock \/ PopLock \/ PrintBegin \/ PollLock \/ ReschedLock \/ EndLock
      BY <1>1, <1>3, <2>13, Zenon DEF SpawnLock, PopLock, PrintBegin, PollLock, ReschedLock, EndLock
    <2>5. CASE Main
      BY <1>1, <2>1, <2>2, <2>3, <2>4, <2>5, <2>12, <2>13, Zenon
         DEF Main, GicInit, TimerInit, UartInit, RtcInit, Publish
    <2>6. CASE TakeIrq
      BY <1>0, <2>6, Zenon DEF TakeIrq, Regs
    <2>7. CASE (\E irq \in Device \cup {1023} : Acknowledge(irq)) \/ Complete
      BY <1>0, <2>7 DEF Acknowledge, Complete, Regs
    <2>8. CASE \E t \in Kernel : Wake(t)
      <3>1. unlock("RUNQ") /\ irq_pc = "waking"
        BY <2>8, Zenon DEF Wake, Handle, HandleGo
      <3> QED BY <1>2, <1>3, <3>1, Zenon DEF HandlerHolds
    <2>9. CASE ExpireEnd
      BY <1>2, <1>3, <2>9, Zenon DEF ExpireEnd, Handle, HandleGo, HandlerHolds
    <2>10. CASE UartDone
      BY <1>2, <1>3, <2>10, Zenon DEF UartDone, Handle, HandleGo, HandlerHolds
    <2>11. CASE Handler
      BY <1>1, <1>3, <2>6, <2>7, <2>8, <2>9, <2>10, <2>11, SMTT(30), Zenon
         DEF Handler, Lookup, TimerLock, Expire, WakeLock, TickIn, UartBegin, UartDrain,
             UartDrained
    <2> QED BY <1>1, <2>5, <2>11, Zenon DEF Next, Elapse, Receive, ReceiveTimeout
  <1>5. pc' \in Place
    <2>1. CASE Pop
      <3>1. PICK t \in Task : pc' = at[t]
        BY <2>1, Zenon DEF Pop, Step, Go, TypeOK
      <3>2. at[t] \in {"print", "delay_for", "poll", "yield", "halt"}
        BY SMTT(30), Zenon DEF TypeOK
      <3> QED BY <3>1, <3>2, Zenon DEF Place
    <2>2. CASE Main /\ ~Pop
      BY <2>2, Zenon
         DEF Main, GicInit, TimerInit, UartInit, RtcInit, Publish, Enable, SpawnBegin,
             SpawnLock, Spawn, SpawnEnd, Run, PopLock, Yield, PrintBegin, PrintEnd, DelayFor,
             PollReady, PollSlow, PollLock, PollAdd, ReturnPending, ReturnYielded, ReschedBegin,
             ReschedLock, Resched, ReschedEnd, EndLock, End, EndHangs, Step, Go, Place, CpuType
    <2>3. CASE Handler
      <3>1. CASE TakeIrq
        BY <3>1, Zenon DEF TakeIrq, CpuType, Place
      <3>2. CASE \/ (\E irq \in Device \cup {1023} : Acknowledge(irq)) \/ Lookup \/ TimerLock
                 \/ (\E t \in Kernel : Expire(t)) \/ (\E t \in Kernel : WakeLock(t))
                 \/ (\E t \in Kernel : Wake(t))
        BY <3>2 DEF Acknowledge, Lookup, TimerLock, Expire, WakeLock, Wake, Handle, HandleGo,
                    CpuType
      <3>3. CASE \/ ExpireEnd \/ TickIn \/ UartBegin \/ UartDrain \/ UartDrained \/ UartDone
                 \/ Complete
        BY <3>3, Zenon
           DEF ExpireEnd, TickIn, UartBegin, UartDrain, UartDrained, UartDone, Complete,
                    Handle, HandleGo, CpuType
      <3> QED BY <2>3, <3>1, <3>2, <3>3 DEF Handler
    <2> QED BY <2>1, <2>2, <2>3, Zenon DEF Next, Elapse, Receive, ReceiveTimeout, CpuType
  <1>6. irq_pc' \in HandlerPlace
    <2>1. CASE Main
      BY <2>1, Zenon
         DEF Main, GicInit, TimerInit, UartInit, RtcInit, Publish, Enable, SpawnBegin,
             SpawnLock, Spawn, SpawnEnd, Run, PopLock, Pop, Yield, PrintBegin, PrintEnd,
             DelayFor, PollReady, PollSlow, PollLock, PollAdd, ReturnPending, ReturnYielded,
             ReschedBegin, ReschedLock, Resched, ReschedEnd, EndLock, End, EndHangs, Step, Go,
             CpuType
    <2>2. CASE Handler
      <3> USE DEF HandlerPlace
      <3>1. CASE TakeIrq \/ Lookup
        BY <3>1, Zenon DEF TakeIrq, Lookup
      <3>2. CASE \/ (\E irq \in Device \cup {1023} : Acknowledge(irq)) \/ TimerLock
                 \/ (\E t \in Kernel : Expire(t)) \/ (\E t \in Kernel : WakeLock(t))
                 \/ (\E t \in Kernel : Wake(t))
        BY <3>2 DEF Acknowledge, TimerLock, Expire, WakeLock, Wake, Handle, HandleGo
      <3>3. CASE \/ ExpireEnd \/ TickIn \/ UartBegin \/ UartDrain \/ UartDrained \/ UartDone
                 \/ Complete
        BY <3>3, Zenon
           DEF ExpireEnd, TickIn, UartBegin, UartDrain, UartDrained, UartDone, Complete,
                    Handle, HandleGo
      <3> QED BY <2>2, <3>1, <3>2, <3>3 DEF Handler
    <2> QED BY <2>1, <2>2, Zenon DEF Next, Elapse, Receive, ReceiveTimeout, CpuType
  <1>7. hung' \in BOOLEAN
    <2>1. CASE EndHangs
      BY <2>1, Zenon DEF EndHangs
    <2>2. CASE Main /\ ~EndHangs
      BY <2>2, Zenon
         DEF Main, GicInit, TimerInit, UartInit, RtcInit, Publish, Enable, SpawnBegin,
             SpawnLock, Spawn, SpawnEnd, Run, PopLock, Pop, Yield, PrintBegin, PrintEnd,
             DelayFor, PollReady, PollSlow, PollLock, PollAdd, ReturnPending, ReturnYielded,
             ReschedBegin, ReschedLock, Resched, ReschedEnd, EndLock, End, Step, Go, CpuType
    <2>3. CASE Handler
      <3>1. CASE \/ TakeIrq \/ (\E irq \in Device \cup {1023} : Acknowledge(irq)) \/ Lookup
                 \/ TimerLock \/ (\E t \in Kernel : Expire(t)) \/ (\E t \in Kernel : WakeLock(t))
        BY <3>1 DEF TakeIrq, Acknowledge, Lookup, TimerLock, Expire, WakeLock, Handle, HandleGo,
                    CpuType
      <3>2. CASE \/ (\E t \in Kernel : Wake(t)) \/ ExpireEnd \/ TickIn \/ UartBegin \/ UartDrain
                 \/ UartDrained \/ UartDone \/ Complete
        BY <3>2, Zenon DEF Wake, ExpireEnd, TickIn, UartBegin, UartDrain, UartDrained, UartDone,
                    Complete, Handle, HandleGo, CpuType
      <3> QED BY <2>3, <3>1, <3>2 DEF Handler
    <2> QED BY <2>1, <2>2, <2>3, Zenon DEF Next, Elapse, Receive, ReceiveTimeout, CpuType
  <1>8. halted' \in BOOLEAN
    BY NextLineInv, Zenon DEF LineInv
  <1>9. locked' \subseteq Task /\ writing' \in BOOLEAN
    <2>1. PlainInv'
      BY NextPlainInv, Zenon
    <2>2. pc' \in {"resched_queue", "rescheduling", "rescheduled"} => cur' \in Task
      BY NextCurInv, Zenon DEF CurInv
    <2>3. writing' \in BOOLEAN
      <3>1. CASE SpawnBegin \/ SpawnEnd
        BY <3>1, Zenon DEF SpawnBegin, SpawnEnd
      <3>2. CASE Main /\ ~SpawnBegin /\ ~SpawnEnd
        BY <3>2, Zenon
           DEF Main, GicInit, TimerInit, UartInit, RtcInit, Publish, Enable, SpawnLock, Spawn,
               Run, PopLock, Pop, Yield, PrintBegin, PrintEnd, DelayFor, PollReady, PollSlow,
               PollLock, PollAdd, ReturnPending, ReturnYielded, ReschedBegin, ReschedLock,
               Resched, ReschedEnd, EndLock, End, EndHangs, Step, plain, CpuType
      <3>3. CASE Handler
        <4>1. writing' = writing
          BY <3>3
             DEF Handler, TakeIrq, Acknowledge, Lookup, TimerLock, Expire, WakeLock, Wake,
                 ExpireEnd, TickIn, UartBegin, UartDrain, UartDrained, UartDone, Complete,
                 Handle, plain
        <4> QED BY <4>1, Zenon DEF CpuType
      <3> QED
        BY <3>1, <3>2, <3>3, Zenon DEF Next, Elapse, Receive, ReceiveTimeout, plain, CpuType
    <2> QED BY <2>1, <2>2, <2>3, SMT DEF PlainInv, Task
  <1> QED BY <1>4, <1>5, <1>6, <1>7, <1>8, <1>9, Zenon DEF CpuType, Regs
-----------------------------------------------------------------------------
(* The invariant holds at reset. *)
LEMMA InitIInv == Init => IInv
  <1> SUFFICES ASSUME Init PROVE IInv
    BY Zenon
  <1> USE TaskAssumption DEF Init
  <1>1. CpuType
    BY Zenon DEF CpuType, Place, HandlerPlace
  <1>2. TaskType
    <2>1. FirstDelay \subseteq Kernel /\ Idle \in Task /\ queue \subseteq Task
      BY Zenon DEF Task
    <2>2. /\ sched \in [Task -> {"none", "pending", "waking", "scheduled", "running", "notified"}]
          /\ at \in [Task -> {"print", "delay_for", "poll", "yield", "halt"}]
      BY Zenon
    <2>3. left \in [Kernel -> Nat] /\ events \subseteq Kernel
      BY Zenon
    <2> QED BY <2>1, <2>2, <2>3, Zenon DEF TaskType
  <1>3. GicType
    BY BoardAssumption, Zenon DEF GicType
  <1>4. DeviceType
    <2>1. <<>> \in Seq(Range(Script)) /\ <<>> \in Seq(Range(Script) \cup {"nl"})
      OBVIOUS
    <2>2. Len(Script) \in Nat
      OBVIOUS
    <2>3. uart \in [on : BOOLEAN, imsc : SUBSET RxIrq, ris : SUBSET RxIrq, timed : BOOLEAN,
                   fifo : Seq(Range(Script))]
      BY <2>1, Zenon
    <2>4. /\ timer \in {"off", "armed", "fired"} /\ rtc_imsc \in BOOLEAN
          /\ echo \in Seq(Range(Script) \cup {"nl"})
      BY <2>1, Zenon
    <2>5. typed \in 0..Len(Script)
      BY <2>2
    <2> HIDE DEF Init
    <2> QED BY <2>3, <2>4, <2>5, Zenon DEF DeviceType
  <1>5. CurInv
    BY Zenon DEF CurInv, Task
  <1>6. LockInv
    BY Zenon DEF LockInv, MainHolds, HandlerHolds, Booting
  <1>7. LineInv
    BY Zenon DEF LineInv
  <1>8. UartInv
    BY Zenon DEF UartInv
  <1>9. PlainInv
    BY Zenon DEF PlainInv
  <1> QED BY <1>1, <1>2, <1>3, <1>4, <1>5, <1>6, <1>7, <1>8, <1>9, TypeParts, Zenon DEF IInv

(* Every step keeps the invariant. *)
LEMMA NextIInv == IInv /\ [Next]_vars => IInv'
  <1> SUFFICES ASSUME IInv, [Next]_vars PROVE IInv'
    BY Zenon
  <1>1. CASE Next
    <2>1. CurInv' /\ PlainInv' /\ LineInv' /\ UartInv'
      BY <1>1, NextCurInv, NextPlainInv, NextLineInv, NextUartInv, Zenon DEF IInv
    <2>2. LockInv'
      BY <1>1, MainLockInv, HandlerLockInv, Zenon DEF IInv, Next
    <2>3. CpuType' /\ TaskType' /\ GicType' /\ DeviceType'
      BY <1>1, TypeParts, NextCpuType, NextTaskType, NextGicType, NextDeviceType, Zenon DEF IInv
    <2>4. TypeOK'
      BY <2>3, Zenon DEF TypeOK, CpuType, TaskType, GicType, DeviceType
    <2> QED BY <2>1, <2>2, <2>4, Zenon DEF IInv
  <1>2. CASE UNCHANGED vars
    <2> USE <1>2 DEF vars, cpu, plain, tasks, delays, gic, devices, serial, IInv
    <2>1. TypeOK'
      BY DEF TypeOK
    <2>2. CurInv' /\ LockInv'
      BY Zenon DEF CurInv, LockInv
    <2>3. LineInv' /\ UartInv'
      BY Zenon DEF LineInv, UartInv
    <2>4. PlainInv'
      BY Zenon DEF PlainInv
    <2> QED BY <2>1, <2>2, <2>3, <2>4, Zenon
  <1> QED BY <1>1, <1>2, Zenon
-----------------------------------------------------------------------------
(* The state is well typed, always: the controller is never told of a line  *)
(* it does not have.                                                        *)
THEOREM TypeCorrect == Spec => []TypeOK
  <1>1. IInv => TypeOK
    BY SMTT(30), Zenon DEF IInv
  <1> QED BY <1>1, InitIInv, NextIInv, PTL DEF Spec, Safety

(* The CPU never spins on a lock it holds itself, for any number of kernel   *)
(* tasks: not on a MutexNoIrq, because the mask is closed while one is held; *)
(* not on a SchedTask, because schedule_fn runs for one task at a time of    *)
(* those that are not scheduled; not on active_tasks, which no handler takes.*)
THEOREM NoDeadlock == Spec => []NoSelfDeadlock
  <1>1. IInv => NoSelfDeadlock
    <2> SUFFICES ASSUME IInv PROVE NoSelfDeadlock
      BY Zenon
    <2> USE DEF IInv
    <2>1. irq_pc = "none" => \A l \in MainWants : l \in Lock /\ held[l] = "free"
      BY Zenon DEF MainWants, Lock, LockInv, MainHolds, HandlerHolds
    <2>2. irq_pc # "none" => \A l \in HandlerWants : l \in Lock /\ held[l] = "free"
      BY Zenon DEF HandlerWants, Lock, LockInv, MainHolds, HandlerHolds
    <2>3. irq_pc = "acknowledge" => manager
      BY Zenon DEF LockInv, LineInv, Booting
    <2>4. irq_pc = "none" => /\ MainLocks \cap locked = {}
                             /\ pc \in {"spawn", "popping"} => ~writing
      BY Zenon DEF MainLocks, PlainInv
    <2>5. HandlerLocks \cap locked = {}
      BY SMTT(30) DEF HandlerLocks, PlainInv
    <2> QED BY <2>1, <2>2, <2>3, <2>4, <2>5, Zenon DEF NoSelfDeadlock
  <1> QED BY <1>1, InitIInv, NextIInv, PTL DEF Spec, Safety

(* Guards that nest give the mask back as they found it: after boot it is   *)
(* open whenever no lock is held, and it stays closed in a handler.         *)
THEOREM MaskKept == Spec => []MaskRestored
  <1>1. IInv => MaskRestored
    <2> SUFFICES ASSUME IInv PROVE MaskRestored
      BY Zenon
    <2> USE DEF IInv, LockInv
    <2>1. ASSUME irq_pc = "none", pc \notin Booting, \A l \in Lock : held[l] = "free"
          PROVE  daif = "on"
      <3>1. MainHolds(pc) = {}
        BY <2>1, Zenon DEF MainHolds, Lock
      <3> QED BY <2>1, <3>1, Zenon DEF TypeOK
    <2> QED BY <2>1, Zenon DEF MaskRestored
  <1> QED BY <1>1, InitIInv, NextIInv, PTL DEF Spec, Safety

(* Once IRQ_MANAGER is set the line of every device has a driver and is      *)
(* enabled, and for every number of lines the shared ones routed to the boot *)
(* CPU are those up to NumIrqs - 177.                                        *)
THEOREM LinesRouted == Spec => []LinesReachable
  <1>1. IInv => LinesReachable
    <2> SUFFICES ASSUME IInv PROVE LinesReachable
      BY Zenon
    <2>1. gicd.enabled = drivers
      BY Zenon DEF IInv, LineInv
    <2>2. manager => drivers = Device /\ gicd.routed = itargets_slice(NumIrqs)
      BY Zenon DEF IInv, LineInv
    <2> QED BY <2>1, <2>2, Slice, Zenon DEF LinesReachable
  <1> QED BY <1>1, InitIInv, NextIInv, PTL DEF Spec, Safety

(* handle_pending_irqs never meets a line without a driver, nor the todo!() *)
(* of the clock's driver.                                                   *)
THEOREM NeverPanics == Spec => []NoPanic
  <1>1. IInv => NoPanic
    BY Zenon DEF IInv, LineInv, NoPanic
  <1> QED BY <1>1, InitIInv, NextIInv, PTL DEF Spec, Safety

(* For every FIFO level and depth and every input, a character in the FIFO  *)
(* has an interrupt or a timeout to come, and reading quiets the line.      *)
THEOREM NotStranded == Spec => []CharNotStranded
  <1>1. IInv => CharNotStranded
    <2> SUFFICES ASSUME IInv PROVE CharNotStranded
      BY Zenon
    <2>1. /\ uart.ris \subseteq RxIrq /\ RxLevel \in Nat \ {0}
          /\ Len(<<>>) = 0
      BY TaskAssumption, Zenon DEF IInv, TypeOK
    <2>2. "RX" \in uart.ris => uart.fifo # <<>>
      BY <2>1 DEF IInv, UartInv
    <2> QED BY <2>1, <2>2, Zenon DEF IInv, UartInv, RxIrq, CharNotStranded
  <1> QED BY <1>1, InitIInv, NextIInv, PTL DEF Spec, Safety

(* No echo goes out in the middle of a printed message: the printer runs    *)
(* with the mask closed.                                                    *)
THEOREM MessagesWhole == Spec => MessageWhole
  <1>1. IInv /\ [Next]_vars => [echo' # echo => pc # "printing"]_vars
    <2> SUFFICES ASSUME IInv, Next, echo' # echo PROVE pc # "printing"
      BY Zenon
    <2>1. UartDrain
      BY DevicesSame, Zenon DEF serial, TimerInit, UartInit, RtcInit, TickIn, UartBegin, Elapse,
                         Receive, ReceiveTimeout
    <2> QED BY <2>1, Zenon DEF UartDrain, Handle, HandleGo, IInv, LockInv, MainHolds
  <1> QED BY <1>1, InitIInv, NextIInv, PTL DEF Spec, Safety, MessageWhole
-----------------------------------------------------------------------------
\* EchoInOrder, character by character.
EchoInv ==
  /\ Len(echo) + Len(uart.fifo) = typed
  /\ \A i \in 1..Len(echo) : echo[i] = read_char_converting(Script[i])
  /\ \A i \in 1..Len(uart.fifo) : uart.fifo[i] = Script[Len(echo) + i]

(* Shown converts a sequence character by character. *)
LEMMA ShownChars ==
  ASSUME NEW C, NEW s \in Seq(C)
  PROVE  /\ Shown(s) \in Seq(C \cup {"nl"}) /\ Len(Shown(s)) = Len(s)
         /\ \A i \in 1..Len(s) : Shown(s)[i] = read_char_converting(s[i])
  <1>1. DOMAIN s = 1..Len(s) /\ Len(s) \in Nat /\ \A i \in 1..Len(s) : s[i] \in C
    OBVIOUS
  <1>2. Shown(s) = [i \in 1..Len(s) |-> read_char_converting(s[i])]
    BY <1>1, Zenon DEF Shown, read_char_converting
  <1>3. \A i \in 1..Len(s) : read_char_converting(s[i]) \in C \cup {"nl"}
    BY <1>1, Zenon DEF read_char_converting
  <1>4. Shown(s) \in [1..Len(s) -> C \cup {"nl"}]
    BY <1>2, <1>3, Zenon
  <1>5. Shown(s) \in Seq(C \cup {"nl"})
    BY <1>1, <1>4
  <1>6. Len(Shown(s)) = Len(s)
    BY <1>1, <1>4, <1>5
  <1> QED BY <1>2, <1>5, <1>6, Zenon

(* Character by character is enough. *)
LEMMA EchoInvSuffices == TypeOK /\ EchoInv => EchoInOrder
  <1> SUFFICES ASSUME TypeOK, EchoInv PROVE EchoInOrder
    BY Zenon
  <1> DEFINE Char == Range(Script)
             in == SubSeq(Script, 1, typed)
             out == echo \o Shown(uart.fifo)
  <1>1. /\ echo \in Seq(Char \cup {"nl"}) /\ uart.fifo \in Seq(Char)
        /\ Script \in Seq(STRING) /\ typed \in 0..Len(Script)
    BY TaskAssumption, Zenon DEF TypeOK
  <1>2. in \in Seq(STRING) /\ Len(in) = typed /\ \A i \in 1..typed : in[i] = Script[i]
    BY <1>1
  <1>3. Len(Shown(in)) = typed /\ \A i \in 1..typed : Shown(in)[i] = read_char_converting(Script[i])
    BY <1>2, ShownChars, Zenon
  <1>4. /\ Shown(uart.fifo) \in Seq(Char \cup {"nl"}) /\ Len(Shown(uart.fifo)) = Len(uart.fifo)
        /\ \A i \in 1..Len(uart.fifo) : Shown(uart.fifo)[i] = read_char_converting(uart.fifo[i])
    BY <1>1, ShownChars, Zenon
  <1>9. Len(echo) \in Nat /\ Len(uart.fifo) \in Nat /\ Len(echo) + Len(uart.fifo) = typed
    BY <1>1 DEF EchoInv
  <1>10. /\ \A i \in 1..Len(echo) : echo[i] = read_char_converting(Script[i])
         /\ \A i \in 1..Len(uart.fifo) : uart.fifo[i] = Script[Len(echo) + i]
    BY Zenon DEF EchoInv
  <1>11. /\ out \in Seq(Char \cup {"nl"}) /\ Len(out) = Len(echo) + Len(Shown(uart.fifo))
         /\ \A i \in 1..Len(out) :
              out[i] = IF i <= Len(echo) THEN echo[i] ELSE Shown(uart.fifo)[i - Len(echo)]
    <2> HIDE DEF Char
    <2>1. \A s1, s2 \in Seq(Char \cup {"nl"}) :
            /\ s1 \o s2 \in Seq(Char \cup {"nl"}) /\ Len(s1 \o s2) = Len(s1) + Len(s2)
            /\ \A i \in 1..(Len(s1) + Len(s2)) :
                 (s1 \o s2)[i] = IF i <= Len(s1) THEN s1[i] ELSE s2[i - Len(s1)]
      BY Concat, Zenon
    <2> DEFINE b == Shown(uart.fifo)
    <2>2. echo \in Seq(Char \cup {"nl"}) /\ b \in Seq(Char \cup {"nl"})
      BY <1>1, <1>4, Zenon
    <2> HIDE DEF b
    <2>3. /\ echo \o b \in Seq(Char \cup {"nl"}) /\ Len(echo \o b) = Len(echo) + Len(b)
          /\ \A i \in 1..(Len(echo) + Len(b)) :
               (echo \o b)[i] = IF i <= Len(echo) THEN echo[i] ELSE b[i - Len(echo)]
      BY <2>1, <2>2, Zenon
    <2> QED BY <2>3, Zenon DEF b
  <1> HIDE DEF out
  <1>5. out \in Seq(Char \cup {"nl"}) /\ Len(out) = typed
    BY <1>4, <1>9, <1>11, Zenon
  <1>6. ASSUME NEW i \in 1..typed PROVE out[i] = read_char_converting(Script[i])
    <2>1. CASE i <= Len(echo)
      BY <1>5, <1>9, <1>10, <1>11, <2>1
    <2>2. CASE i > Len(echo)
      <3>1. /\ i - Len(echo) \in 1..Len(uart.fifo) /\ Len(echo) + (i - Len(echo)) = i
            /\ out[i] = Shown(uart.fifo)[i - Len(echo)]
        BY <1>5, <1>9, <1>11, <2>2
      <3>2. uart.fifo[i - Len(echo)] = Script[i]
        BY <1>10, <3>1, Zenon
      <3> QED BY <1>4, <3>1, <3>2, Zenon
    <2> QED BY <1>9, <2>1, <2>2
  <1>7. Shown(in) \in Seq(STRING \cup {"nl"})
    BY <1>2, ShownChars, Zenon
  <1> HIDE DEF in
  <1>8. Shown(in) = out
    BY <1>1, <1>3, <1>5, <1>6, <1>7
  <1> QED BY <1>8, Zenon DEF EchoInOrder, in, out

(* Every step keeps the order of the characters. *)
LEMMA NextEchoInv ==
  ASSUME TypeOK, EchoInv, Next
  PROVE  EchoInv'
  <1> DEFINE Char == Range(Script)
  <1>0. /\ uart \in [on : BOOLEAN, imsc : SUBSET RxIrq, ris : SUBSET RxIrq, timed : BOOLEAN,
                     fifo : Seq(Char)]
        /\ uart.fifo \in Seq(Char) /\ echo \in Seq(Char \cup {"nl"}) /\ typed \in Nat
    BY TaskAssumption DEF TypeOK
  <1> HIDE DEF Char
  <1>8. Len(echo) \in Nat /\ Len(uart.fifo) \in Nat /\ Len(echo) + Len(uart.fifo) = typed
    BY <1>0 DEF EchoInv
  <1>9. /\ \A i \in 1..Len(echo) : echo[i] = read_char_converting(Script[i])
        /\ \A i \in 1..Len(uart.fifo) : uart.fifo[i] = Script[Len(echo) + i]
    BY Zenon DEF EchoInv
  <1>1. ASSUME uart'.fifo = uart.fifo, UNCHANGED <<echo, typed>> PROVE EchoInv'
    BY <1>1, Zenon DEF EchoInv
  <1>2. CASE UartInit \/ UartBegin
    <2>1. uart'.fifo = uart.fifo
      BY <1>0, <1>2, Zenon DEF UartInit, UartBegin, uart_init, write_icr, ICR_ALL_CLEAR
    <2> QED BY <1>1, <1>2, <2>1, Zenon DEF UartInit, UartBegin, serial
  <1>3. CASE ReceiveTimeout
    BY <1>0, <1>1, <1>3, Zenon DEF ReceiveTimeout, serial
  <1>4. CASE TimerInit \/ RtcInit \/ TickIn \/ Elapse
    BY <1>1, <1>4, Zenon DEF TimerInit, RtcInit, TickIn, Elapse, serial
  <1>5. CASE UNCHANGED <<devices, serial>>
    BY <1>1, <1>5, Zenon DEF devices, serial
  <1>6. CASE UartDrain
    <2> DEFINE c == Head(uart.fifo)
    <2>1. /\ uart.fifo # <<>> /\ uart'.fifo = Tail(uart.fifo)
          /\ echo' = Append(echo, read_char_converting(c)) /\ typed' = typed
      BY <1>0, <1>6, Zenon DEF UartDrain
    <2>2. c \in Char /\ c = uart.fifo[1] /\ Len(uart.fifo) \in Nat /\ Len(uart.fifo) >= 1
      BY <1>0, <2>1
    <2>3. c = Script[Len(echo) + 1]
      BY <1>0, <2>2 DEF EchoInv
    <2>4. read_char_converting(c) \in Char \cup {"nl"}
      BY <2>2, Zenon DEF read_char_converting
    <2>5. /\ Len(echo') = Len(echo) + 1 /\ echo'[Len(echo) + 1] = read_char_converting(c)
          /\ \A i \in 1..Len(echo) : echo'[i] = echo[i]
      BY <1>0, <2>1, <2>4
    <2>6. /\ Len(uart'.fifo) = Len(uart.fifo) - 1
          /\ \A i \in 1..(Len(uart.fifo) - 1) : uart'.fifo[i] = uart.fifo[i + 1]
      BY <1>0, <2>1
    <2> HIDE DEF c
    <2>7. Len(echo') + Len(uart'.fifo) = typed'
      <3>1. Len(echo') = Len(echo) + 1 /\ Len(uart'.fifo) = Len(uart.fifo) - 1 /\ typed' = typed
        BY <2>1, <2>5, <2>6, Zenon
      <3>2. \A m, n \in Nat : (m + 1) + (n - 1) = m + n
        OBVIOUS
      <3>3. (Len(echo) + 1) + (Len(uart.fifo) - 1) = typed
        BY <1>8, <3>2, Zenon
      <3> QED BY <3>1, <3>3, Zenon
    <2>8. \A i \in 1..Len(echo') : echo'[i] = read_char_converting(Script[i])
      BY <1>8, <1>9, <2>3, <2>5, SMTT(30), Zenon
    <2>9. ASSUME NEW i \in 1..Len(uart'.fifo) PROVE uart'.fifo[i] = Script[Len(echo') + i]
      <3>1. i + 1 \in 1..Len(uart.fifo) /\ uart'.fifo[i] = uart.fifo[i + 1]
        BY <2>2, <2>6
      <3>2. uart.fifo[i + 1] = Script[Len(echo) + (i + 1)]
        BY <1>9, <3>1, Zenon
      <3>3. Len(echo) + (i + 1) = Len(echo') + i
        BY <1>8, <2>5
      <3> QED BY <3>1, <3>2, <3>3, Zenon
    <2> QED BY <2>7, <2>8, <2>9, Zenon DEF EchoInv
  <1>7. CASE Receive
    <2> DEFINE c == Script[typed']
    <2>1. typed' = typed + 1 /\ uart'.fifo = Append(uart.fifo, c) /\ echo' = echo
      BY <1>0, <1>7, Zenon DEF Receive
    <2>2. c \in Char
      BY <1>7, TaskAssumption DEF Receive, TypeOK, Char, Range
    <2>3. /\ Len(uart'.fifo) = Len(uart.fifo) + 1 /\ uart'.fifo[Len(uart.fifo) + 1] = c
          /\ \A i \in 1..Len(uart.fifo) : uart'.fifo[i] = uart.fifo[i]
          /\ Len(uart.fifo) \in Nat
      BY <1>0, <2>1, <2>2
    <2>4. c = Script[Len(echo) + (Len(uart.fifo) + 1)]
      <3>1. Len(echo) + (Len(uart.fifo) + 1) = typed'
        BY <1>8, <2>1
      <3> QED BY <3>1, Zenon
    <2> HIDE DEF c
    <2>5. \A i \in 1..Len(uart'.fifo) : uart'.fifo[i] = Script[Len(echo') + i]
      <3> SUFFICES ASSUME NEW i \in 1..Len(uart'.fifo)
                   PROVE  uart'.fifo[i] = Script[Len(echo) + i]
        BY <2>1, Zenon
      <3>1. i \in 1..Len(uart.fifo) \/ i = Len(uart.fifo) + 1
        BY <2>3
      <3> QED BY <1>9, <2>3, <2>4, <3>1, Zenon
    <2>6. Len(echo') + Len(uart'.fifo) = typed'
      BY <1>8, <2>1, <2>3
    <2> QED BY <1>9, <2>1, <2>5, <2>6, Zenon DEF EchoInv
  <1> QED BY <1>2, <1>3, <1>4, <1>5, <1>6, <1>7, DevicesSame, Zenon

(* What was typed is echoed in order, once each and converted, for every    *)
(* input, FIFO size and interleaving of the handler with the serial line.   *)
THEOREM EchoOrdered == Spec => []EchoInOrder
  <1>1. Init => EchoInv
    <2> SUFFICES ASSUME Init PROVE EchoInv
      BY Zenon
    <2>1. Len(<<>>) = 0 /\ echo = <<>> /\ uart.fifo = <<>> /\ typed = 0
      BY Zenon DEF Init
    <2> QED BY <2>1 DEF EchoInv
  <1>2. IInv /\ EchoInv /\ [Next]_vars => EchoInv'
    BY NextEchoInv, Zenon DEF IInv, EchoInv, vars, devices, serial
  <1>3. IInv /\ EchoInv => EchoInOrder
    BY EchoInvSuffices, Zenon DEF IInv
  <1> QED BY <1>1, <1>2, <1>3, InitIInv, NextIInv, PTL DEF Spec, Safety
=============================================================================
