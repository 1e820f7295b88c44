----------------------------- MODULE SleepProof -----------------------------
(***************************************************************************)
(* What Sleep promises for any number of threads, signals and durations:   *)
(* its state keeps its type, every sleeper stays armed, the signal queue   *)
(* and the pending set agree, the first signal wakes whom it is meant for, *)
(* no sleep ends early, and the frames of the handlers unwind.             *)
(***************************************************************************)
EXTENDS Sleep, TLAPS

(* GenericTimer::read_ns gives a natural number. *)
LEMMA NowNat ==
  ASSUME NEW c \in 0..Horizon
  PROVE  read_ns(c) \in Nat
  <1> USE ClockAssumption, SleepAssumption DEF BoundAssumption
  <1>1. c * Nsec \in Nat
    OBVIOUS
  <1>2. (c * Nsec) % Width \in Nat
    BY <1>1
  <1> QED BY <1>2 DEF read_ns

(* A signal is a number from 1 to 64, and a disposition is what it should be. *)
LEMMA SignalType ==
  /\ Signal \subseteq 1..64
  /\ \A s \in Signal : /\ Dispositions[s].handler \in Nat
                       /\ Dispositions[s].mask \subseteq 0..63
                       /\ bit(s) \in 0..63
  BY SleepAssumption DEF SignalAssumption, Signal, bit

(* An element of a sequence. *)
LEMMA ElementOf ==
  ASSUME NEW S, NEW s \in Seq(S), NEW i \in 1..Len(s)
  PROVE  s[i] \in S
  OBVIOUS

(* A sequence without one of its elements. *)
LEMMA WithoutOne ==
  ASSUME NEW S, NEW s \in Seq(S), NEW i \in 1..Len(s)
  PROVE  LET r == [j \in 1..(Len(s) - 1) |-> s[IF j < i THEN j ELSE j + 1]]
         IN  r \in Seq(S) /\ Len(r) = Len(s) - 1
  <1> DEFINE n == Len(s) - 1
             r == [j \in 1..n |-> s[IF j < i THEN j ELSE j + 1]]
  <1>1. n \in Nat
    OBVIOUS
  <1>2. r \in Seq(S)
    OBVIOUS
  <1>3. DOMAIN r = 1..n
    BY Zenon
  <1> HIDE DEF n, r
  <1>4. Len(r) = n
    BY <1>1, <1>2, <1>3
  <1> QED BY <1>2, <1>4, Zenon DEF n, r

(* set_signal_handler makes a context of a context. *)
LEMMA HandlerContext ==
  ASSUME NEW c \in Context, NEW sp \in Int, NEW sig \in Int, NEW action, action.handler \in Int
  PROVE  /\ set_signal_handler(c, sp, action, sig) \in Context
         /\ set_signal_handler(c, sp, action, sig).sp = sp
         /\ set_signal_handler(c, sp, action, sig).pc = action.handler
  <1> DEFINE d == set_signal_handler(c, sp, action, sig)
  <1>1. sp + 1 \in Int /\ sp + 2 \in Int
    OBVIOUS
  <1>2. d \in Context
    BY <1>1, Zenon DEF set_signal_handler, Context
  <1>3. d.sp = sp /\ d.pc = action.handler
    BY Zenon DEF set_signal_handler, Context
  <1> QED BY <1>2, <1>3, Zenon

(* The state has its type at the start. *)
LEMMA InitType == Init => TypeOK
  <1> SUFFICES ASSUME Init PROVE TypeOK
    BY Zenon
  <1>1. /\ count \in 0..Horizon /\ events = {} /\ sent \in 0..MaxSent /\ exit_code \in Nat
        /\ pending_sigset \subseteq 0..63 /\ cur = None /\ halted \in BOOLEAN
    <2>1. Horizon \in Nat /\ MaxSent \in Nat
      BY SleepAssumption, Zenon DEF BoundAssumption
    <2>2. /\ count = 0 /\ events = {} /\ sent = 0 /\ exit_code = 0 /\ pending_sigset = {}
          /\ cur = None /\ halted = FALSE
      BY Zenon DEF Init
    <2>3. count \in 0..Horizon /\ sent \in 0..MaxSent /\ exit_code \in Nat
      BY <2>1, <2>2
    <2> QED BY <2>2, <2>3, Zenon
  <1>2. bus \in [event : SUBSET {"RECEIVE_SIGNAL", "PROCESS_QUIT"}, callbacks : SUBSET Callback]
    BY Zenon DEF Init, new
  <1>3. sig_queue \in Seq([signo : Signal, tid : Thread \cup {AnyThread}])
    BY DEF Init
  <1>4. /\ pc \in [Thread -> {"user", "asleep", "woken", "done"}]
        /\ sleep \in [Thread -> [deadline : Nat, duration : Nat]]
        /\ sig_mask \in [Thread -> SUBSET (0..63)]
    BY Zenon DEF Init
  <1>5. alt_flags \in [Thread -> SUBSET SignalStackFlags]
    BY SleepAssumption, Zenon DEF Init, SignalAssumption
  <1>6. tf \in [Thread -> Context]
    BY DEF Init, UserContext, Context
  <1>7. frames \in [Thread -> Seq(FrameType)]
    BY DEF Init
  <1> QED BY <1>1, <1>2, <1>3, <1>4, <1>5, <1>6, <1>7, Zenon DEF TypeOK

(* EventBus::change keeps the type of the bus. *)
LEMMA ChangeType ==
  ASSUME TypeOK, NEW set \in SUBSET {"RECEIVE_SIGNAL", "PROCESS_QUIT"}
  PROVE  change(bus, {}, set) \in
           [event : SUBSET {"RECEIVE_SIGNAL", "PROCESS_QUIT"}, callbacks : SUBSET Callback]
  BY Zenon DEF TypeOK, change, Changed

(* A duration and the deadline it leads to. *)
LEMMA DurationNat ==
  ASSUME TypeOK, NEW t \in Thread, NEW d \in Duration[t]
  PROVE  d \in Nat /\ now + d \in Nat
  <1>1. Duration[t] \subseteq 0..Infinite /\ Infinite \in Nat
    BY SleepAssumption, Zenon DEF BoundAssumption
  <1>2. now \in Nat
    BY NowNat, Zenon DEF now, TypeOK
  <1> QED BY <1>1, <1>2

(* wake keeps the type of pc, and touches neither user mode nor the end. *)
LEMMA WakeType ==
  ASSUME TypeOK, NEW threads, Wake(threads)
  PROVE  /\ pc' \in [Thread -> {"user", "asleep", "woken", "done"}]
         /\ \A t \in Thread : pc[t] = "user" => pc'[t] = "user"
  BY Zenon DEF TypeOK, Wake

(* The end of a sys_nanosleep. *)
LEMMA ReturnType ==
  ASSUME TypeOK, NEW t \in Thread, NEW result \in Int, Return(t, result)
  PROVE  /\ pc' \in [Thread -> {"user", "asleep", "woken", "done"}]
         /\ sleep' \in [Thread -> [deadline : Nat, duration : Nat]]
         /\ tf' \in [Thread -> Context]
         /\ cur' \in Thread \cup {None} /\ (cur' # None => pc'[cur'] = "user")
         /\ UNCHANGED <<events, bus>>
  <1>1. pc' = [pc EXCEPT ![t] = "user"] /\ cur' \in {t, None}
    BY Zenon DEF Return
  <1>2. tf' = [tf EXCEPT ![t].x0 = result] /\ tf \in [Thread -> Context]
    BY Zenon DEF Return, TypeOK
  <1>3. tf' \in [Thread -> Context]
    BY <1>2, Zenon DEF Context
  <1>4. sleep' = [sleep EXCEPT ![t] = [deadline |-> 0, duration |-> 0]]
    BY Zenon DEF Return
  <1> QED BY <1>1, <1>3, <1>4 DEF TypeOK, Return

(* The beginning or the continuation of a sleep. *)
LEMMA BlockType ==
  ASSUME TypeOK, NEW t \in Thread, NEW deadline \in Nat, NEW duration \in Nat,
         Block(t, deadline, duration), cur = None
  PROVE  /\ events' \subseteq [deadline : Nat, waker : Thread]
         /\ \A e, f \in events' : e.deadline = f.deadline => e = f
         /\ bus' \in [event : SUBSET {"RECEIVE_SIGNAL", "PROCESS_QUIT"},
                      callbacks : SUBSET Callback]
         /\ pc' \in [Thread -> {"user", "asleep", "woken", "done"}]
         /\ sleep' \in [Thread -> [deadline : Nat, duration : Nat]]
         /\ tf' = tf /\ cur' = None
  <1>1. /\ events' \subseteq [deadline : Nat, waker : Thread]
        /\ \A e, f \in events' : e.deadline = f.deadline => e = f
    <2>1. CASE duration < Infinite
      <3>1. PICK key \in deadline..(deadline + Cardinality(events)) :
              /\ FreeKey(events, deadline, key)
              /\ events' = events \cup {[deadline |-> key, waker |-> t]}
        BY <2>1, Zenon DEF Block, add
      <3>2. key \in Nat /\ \A e \in events : e.deadline # key
        BY <3>1 DEF FreeKey, Taken
      <3> QED BY <3>1, <3>2 DEF TypeOK
    <2>2. CASE ~(duration < Infinite)
      BY <2>2, Zenon DEF Block, TypeOK
    <2> QED BY <2>1, <2>2, Zenon
  <1>2. bus' = [bus EXCEPT !.callbacks = @ \cup {[waker |-> t, mask |-> EveryEvent]}]
    BY Zenon DEF Block, subscribe
  <1>3. bus' \in [event : SUBSET {"RECEIVE_SIGNAL", "PROCESS_QUIT"}, callbacks : SUBSET Callback]
    <2>1. bus \in [event : SUBSET {"RECEIVE_SIGNAL", "PROCESS_QUIT"}, callbacks : SUBSET Callback]
      BY Zenon DEF TypeOK
    <2>2. [waker |-> t, mask |-> EveryEvent] \in Callback
      BY Zenon DEF Callback
    <2> QED BY <1>2, <2>1, <2>2, Zenon
  <1>4. /\ pc' = [pc EXCEPT ![t] = "asleep"]
        /\ sleep' = [sleep EXCEPT ![t] = [deadline |-> deadline, duration |-> duration]]
        /\ tf' = tf /\ cur' = None
    BY Zenon DEF Block
  <1> QED BY <1>1, <1>3, <1>4, Zenon DEF TypeOK

(* A turn of handle_signal takes an entry that is deliverable, the first. *)
Taking(t, i) ==
  /\ i \in Deliverable(t) /\ \A j \in Deliverable(t) : i <= j
  /\ Dequeue(t, i)
  /\ \/ TakeDefault(t, sig_queue[i].signo)
     \/ TakeError(t, sig_queue[i].signo)
     \/ EnterHandler(t, sig_queue[i].signo, Dispositions[sig_queue[i].signo])
LEMMA DeliverTakes ==
  ASSUME NEW t \in Thread, Deliver(t)
  PROVE  \E i \in 1..Len(sig_queue) : Taking(t, i)
  BY Zenon DEF Deliver, FirstDeliverable, Deliverable, Taking

(* The queue and the pending set keep their types when an entry is removed. *)
LEMMA DequeueType ==
  ASSUME TypeOK, NEW t \in Thread, NEW i \in 1..Len(sig_queue), Dequeue(t, i)
  PROVE  /\ sig_queue' \in Seq([signo : Signal, tid : Thread \cup {AnyThread}])
         /\ pending_sigset' \subseteq 0..63
         /\ Len(sig_queue') = Len(sig_queue) - 1
         /\ \A j \in 1..Len(sig_queue') :
              sig_queue'[j] = sig_queue[IF j < i THEN j ELSE j + 1]
  <1>1. /\ sig_queue \in Seq([signo : Signal, tid : Thread \cup {AnyThread}])
        /\ pending_sigset \subseteq 0..63
    BY Zenon DEF TypeOK
  <1>2. /\ sig_queue' = [j \in 1..(Len(sig_queue) - 1) |->
                           sig_queue[IF j < i THEN j ELSE j + 1]]
        /\ pending_sigset' = pending_sigset \ {bit(sig_queue[i].signo)}
    BY Zenon DEF Dequeue
  <1>3. /\ sig_queue' \in Seq([signo : Signal, tid : Thread \cup {AnyThread}])
        /\ Len(sig_queue') = Len(sig_queue) - 1
    BY <1>1, <1>2, WithoutOne, Zenon
  <1>4. \A j \in 1..(Len(sig_queue) - 1) :
          sig_queue'[j] = sig_queue[IF j < i THEN j ELSE j + 1]
    BY <1>2, Zenon
  <1> QED BY <1>1, <1>2, <1>3, <1>4, Zenon

(* What EnterHandler changes keeps its type. *)
EnteredType ==
  /\ sig_mask' \in [Thread -> SUBSET (0..63)]
  /\ alt_flags' \in [Thread -> SUBSET SignalStackFlags]
  /\ tf' \in [Thread -> Context]
  /\ frames' \in [Thread -> Seq(FrameType)]
  /\ halted' \in BOOLEAN
LEMMA HandlerType ==
  ASSUME TypeOK, NEW t \in Thread, NEW sig \in Signal,
         EnterHandler(t, sig, Dispositions[sig])
  PROVE  EnteredType
  <1> DEFINE action == Dispositions[sig]
             sp == sig_sp(t, action)
  <1>1. /\ action.handler \in Int /\ action.mask \subseteq 0..63
        /\ bit(sig) \in 0..63 /\ sig \in Int
    BY SignalType
  <1>2. /\ sig_mask \in [Thread -> SUBSET (0..63)]
        /\ alt_flags \in [Thread -> SUBSET SignalStackFlags]
        /\ tf \in [Thread -> Context]
        /\ frames \in [Thread -> Seq(FrameType)]
        /\ halted \in BOOLEAN
    BY Zenon DEF TypeOK
  <1>3. sig_mask' \in [Thread -> SUBSET (0..63)]
    <2>1. sig_mask' = [sig_mask EXCEPT ![t] = @ \cup {bit(sig)} \cup action.mask]
      BY Zenon DEF EnterHandler
    <2> HIDE DEF action
    <2> QED BY <1>1, <1>2, <2>1, ZenonT(30)
  <1>4. alt_flags' \in [Thread -> SUBSET SignalStackFlags]
    <2>1. alt_flags' = [alt_flags EXCEPT ![t] =
            IF OnAltStack(t, action)
            THEN @ \cup {"ONSTACK"} \cup (IF "AUTODISARM" \in @ THEN {"DISABLE"} ELSE {})
            ELSE @]
      BY Zenon DEF EnterHandler
    <2> HIDE DEF action
    <2> QED BY <1>2, <2>1, Zenon DEF SignalStackFlags
  <1>5. sp \in Int
    BY <1>2 DEF sig_sp, AltTop, FrameSize, Context
  <1>6. CASE /\ frames' = [frames EXCEPT ![t] = Append(@, Frame(t, sig, action))]
             /\ tf' = [tf EXCEPT ![t] = set_signal_handler(@, sp, action, sig)]
             /\ halted' = halted
    <2> HIDE DEF action, sp
    <2>1. tf[t] \in Context
      BY <1>2, Zenon
    <2>2. set_signal_handler(tf[t], sp, action, sig) \in Context
      BY <1>1, <1>5, <2>1, HandlerContext, Zenon
    <2>3. from_tf(tf[t]) \in Context
      BY <2>1, Zenon DEF from_tf, Context
    <2>4. Frame(t, sig, action) \in FrameType
      BY <1>2, <1>5, <2>3, Zenon DEF Frame, FrameType, sp
    <2>5. tf' \in [Thread -> Context]
      BY <1>2, <1>6, <2>2, Zenon
    <2>6. frames' \in [Thread -> Seq(FrameType)]
      BY <1>2, <1>6, <2>4
    <2> QED BY <1>2, <1>3, <1>4, <1>6, <2>5, <2>6, Zenon DEF EnteredType
  <1>7. CASE halted' = TRUE /\ UNCHANGED <<frames, tf>>
    BY <1>2, <1>3, <1>4, <1>7, Zenon DEF EnteredType
  <1> QED BY <1>6, <1>7, Zenon DEF EnterHandler

(* Every step keeps the type. *)
LEMMA NextType == TypeOK /\ [Next]_vars => TypeOK'
  <1> SUFFICES ASSUME TypeOK, [Next]_vars PROVE TypeOK'
    BY Zenon
  <1>1. CASE Tick
    <2>1. count \in 0..Horizon /\ count < Horizon /\ count' = count + 1 /\ Horizon \in Nat
      BY <1>1, SleepAssumption, Zenon DEF Tick, TypeOK, BoundAssumption
    <2>2. count' \in 0..Horizon
      BY <2>1
    <2>3. UNCHANGED <<events, bus, sig_queue, pending_sigset, sent, exit_code, pc, sleep,
                      sig_mask, alt_flags, frames, tf, cur, halted>>
      BY <1>1, Zenon DEF Tick, signals, stacks
    <2> QED BY <2>2, <2>3, Zenon DEF TypeOK
  <1>2. CASE TimerInterrupt
    <2>1. /\ events' \subseteq [deadline : Nat, waker : Thread]
          /\ \A e, f \in events' : e.deadline = f.deadline => e = f
      BY <1>2, Zenon DEF TimerInterrupt, TypeOK, expire
    <2>2. Wake(expired_wakers(events, now))
      BY <1>2, Zenon DEF TimerInterrupt
    <2>3. /\ pc' \in [Thread -> {"user", "asleep", "woken", "done"}]
          /\ \A t \in Thread : pc[t] = "user" => pc'[t] = "user"
      BY <2>2, WakeType, Zenon
    <2>4. UNCHANGED <<count, bus, sig_queue, pending_sigset, sent, exit_code, sleep,
                      sig_mask, alt_flags, frames, tf, cur, halted>>
      BY <1>2, Zenon DEF TimerInterrupt, signals, stacks
    <2> QED BY <2>1, <2>3, <2>4, Zenon DEF TypeOK
  <1>3. ASSUME NEW r \in Request, Send(r.signo, r.tid) PROVE TypeOK'
    <2>1. r.signo \in Signal /\ r.tid \in Thread \cup {AnyThread} /\ bit(r.signo) \in 0..63
      <3>1. Request \subseteq [signo : 1..64, tid : Thread \cup {AnyThread}]
        BY SleepAssumption, Zenon DEF SignalAssumption
      <3> QED BY <3>1, SignalType DEF Signal
    <2>2. sent' \in 0..MaxSent
      <3>1. /\ sent \in 0..MaxSent /\ sent < MaxSent /\ sent' = sent + 1
            /\ MaxSent \in Nat
        BY <1>3, SleepAssumption, Zenon DEF Send, TypeOK, BoundAssumption
      <3> QED BY <3>1
    <2>3. CASE Queued(r.signo)
      <3>1. UNCHANGED <<sig_queue, pending_sigset, bus, pc, count, events, exit_code, sleep,
                        sig_mask, alt_flags, frames, tf, cur, halted>>
        BY <1>3, <2>3, Zenon DEF Send, stacks
      <3> QED BY <2>2, <3>1, Zenon DEF TypeOK
    <2>4. CASE ~Queued(r.signo)
      <3>1. /\ sig_queue' = Append(sig_queue, [signo |-> r.signo, tid |-> r.tid])
            /\ pending_sigset' = pending_sigset \cup {bit(r.signo)}
            /\ ChangeBus({}, {"RECEIVE_SIGNAL"})
        BY <1>3, <2>4, Zenon DEF Send
      <3>2. /\ sig_queue' \in Seq([signo : Signal, tid : Thread \cup {AnyThread}])
            /\ pending_sigset' \subseteq 0..63
        <4>1. /\ sig_queue \in Seq([signo : Signal, tid : Thread \cup {AnyThread}])
              /\ pending_sigset \subseteq 0..63
          BY Zenon DEF TypeOK
        <4>2. [signo |-> r.signo, tid |-> r.tid] \in [signo : Signal, tid : Thread \cup {AnyThread}]
          BY <2>1, Zenon
        <4>3. sig_queue' \in Seq([signo : Signal, tid : Thread \cup {AnyThread}])
          BY <3>1, <4>1, <4>2
        <4> QED BY <2>1, <3>1, <4>1, <4>3, Zenon
      <3>3. bus' \in [event : SUBSET {"RECEIVE_SIGNAL", "PROCESS_QUIT"},
                      callbacks : SUBSET Callback]
        BY <3>1, ChangeType, Zenon DEF ChangeBus
      <3>4. Wake(wakes(bus, {}, {"RECEIVE_SIGNAL"}))
        BY <3>1, Zenon DEF ChangeBus
      <3>5. /\ pc' \in [Thread -> {"user", "asleep", "woken", "done"}]
            /\ \A t \in Thread : pc[t] = "user" => pc'[t] = "user"
        BY <3>4, WakeType, Zenon
      <3>6. UNCHANGED <<count, events, exit_code, sleep, sig_mask, alt_flags, frames, tf, cur,
                        halted>>
        BY <1>3, Zenon DEF Send, stacks
      <3> QED BY <2>2, <3>2, <3>3, <3>5, <3>6, Zenon DEF TypeOK
    <2> QED BY <2>3, <2>4, Zenon
  <1>4. ASSUME NEW t \in Thread, NEW d \in Duration[t], Nanosleep(t, d) PROVE TypeOK'
    <2>1. /\ d \in Nat /\ now + d \in Nat /\ cur = None
          /\ UNCHANGED <<count, sig_queue, pending_sigset, sent, exit_code, sig_mask, alt_flags,
                         frames, halted>>
      BY <1>4, DurationNat, Zenon DEF Nanosleep, signals, stacks, Idle
    <2>2. ASSUME NEW result \in Int, Return(t, result) PROVE TypeOK'
      BY <2>1, <2>2, ReturnType, Zenon DEF TypeOK
    <2>3. CASE Finish(t, now + d)
      BY <2>2, <2>3 DEF Finish, EINTR
    <2>4. CASE Block(t, now + d, d)
      BY <2>1, <2>4, BlockType, Zenon DEF TypeOK
    <2> QED BY <1>4, <2>2, <2>3, <2>4 DEF Nanosleep
  <1>5. ASSUME NEW t \in Thread, Resume(t) PROVE TypeOK'
    <2>1. /\ sleep[t].deadline \in Nat /\ sleep[t].duration \in Nat /\ cur = None
          /\ UNCHANGED <<count, sig_queue, pending_sigset, sent, exit_code, sig_mask, alt_flags,
                         frames, halted>>
      <3>1. UNCHANGED <<count, sig_queue, pending_sigset, sent, exit_code, sig_mask, alt_flags,
                         frames, halted>>
        BY <1>5, Zenon DEF Resume, signals, stacks
      <3>2. sleep \in [Thread -> [deadline : Nat, duration : Nat]] /\ cur = None
        BY <1>5, Zenon DEF Resume, Idle, TypeOK
      <3> QED BY <3>1, <3>2, Zenon
    <2>2. CASE Finish(t, sleep[t].deadline)
      <3>1. PICK result \in Int : Return(t, result)
        BY <2>2 DEF Finish, EINTR
      <3> QED BY <2>1, <3>1, ReturnType, Zenon DEF TypeOK
    <2>3. CASE Block(t, sleep[t].deadline, sleep[t].duration)
      BY <2>1, <2>3, BlockType, Zenon DEF TypeOK
    <2> QED BY <1>5, <2>2, <2>3, Zenon DEF Resume
  <1>6. ASSUME NEW t \in Thread, Trap(t) PROVE TypeOK'
    BY <1>6, Zenon DEF Trap, TypeOK, signals, stacks
  <1>7. ASSUME NEW t \in Thread, Deliver(t) PROVE TypeOK'
    <2>1. PICK i \in 1..Len(sig_queue) : Taking(t, i)
      BY <1>7, DeliverTakes, Zenon
    <2>2. UNCHANGED <<count, events, sent, sleep>> /\ pc[t] = "user"
      BY <1>7, SleepAssumption, Zenon DEF Deliver, TypeOK, SignalAssumption
    <2> DEFINE sig == sig_queue[i].signo
    <2>3. sig \in Signal /\ sig \in 1..64
      <3>1. sig_queue \in Seq([signo : Signal, tid : Thread \cup {AnyThread}])
        BY Zenon DEF TypeOK
      <3>2. sig_queue[i] \in [signo : Signal, tid : Thread \cup {AnyThread}]
        BY <2>1, <3>1, ElementOf, Zenon
      <3>3. sig_queue[i].signo \in Signal
        BY <3>2, Zenon
      <3> QED BY <3>3, SignalType, Zenon
    <2>4. /\ sig_queue' \in Seq([signo : Signal, tid : Thread \cup {AnyThread}])
          /\ pending_sigset' \subseteq 0..63
      BY <2>1, DequeueType, Zenon DEF Taking
    <2>5. CASE TakeDefault(t, sig)
      <3>1. UNCHANGED <<sig_mask, alt_flags, frames, tf, halted>>
        BY <2>5, Zenon DEF TakeDefault, stacks
      <3>2. CASE ExitProcess(t, sig + 128)
        <4>1. exit_code' \in Nat /\ cur' = None
          <5>1. exit_code' = sig + 128 /\ cur' = None
            BY <3>2, Zenon DEF ExitProcess
          <5> HIDE DEF sig
          <5> QED BY <2>3, <5>1
        <4>2. bus' \in [event : SUBSET {"RECEIVE_SIGNAL", "PROCESS_QUIT"},
                        callbacks : SUBSET Callback]
          BY <3>2, ChangeType, Zenon DEF ExitProcess
        <4>3. pc' \in [Thread -> {"user", "asleep", "woken", "done"}]
          BY <3>2, Zenon DEF ExitProcess, TypeOK
        <4> QED BY <2>2, <2>4, <3>1, <4>1, <4>2, <4>3, Zenon DEF TypeOK
      <3>3. CASE Continue(t) /\ UNCHANGED <<exit_code, bus, pc>>
        <4>1. cur' \in {t, None}
          BY <3>3, Zenon DEF Continue
        <4> QED BY <2>2, <2>4, <3>1, <3>3, <4>1, Zenon DEF TypeOK
      <3> QED BY <2>5, <3>2, <3>3, Zenon DEF TakeDefault
    <2>6. CASE EnterHandler(t, sig, Dispositions[sig])
      <3>1. cur' \in {t, None} /\ UNCHANGED <<exit_code, bus, pc>>
        BY <2>6, Zenon DEF EnterHandler, Continue
      <3>2. EnteredType
        BY <2>3, <2>6, HandlerType, Zenon
      <3> QED BY <2>2, <2>4, <3>1, <3>2, Zenon DEF TypeOK, EnteredType
    <2>7. CASE TakeError(t, sig)
      <3>1. UNCHANGED <<exit_code, bus, pc, sig_mask, alt_flags, frames, tf, cur>>
        BY <2>7, Zenon DEF TakeError, stacks
      <3>2. halted' \in BOOLEAN
        BY <2>7, Zenon DEF TakeError
      <3> QED BY <2>2, <2>4, <3>1, <3>2, Zenon DEF TypeOK
    <2> QED BY <2>1, <2>5, <2>6, <2>7, Zenon DEF Taking
  <1>8. CASE UNCHANGED vars
    BY <1>8, Zenon DEF vars, signals, stacks, TypeOK
  <1> QED BY <1>1, <1>2, <1>3, <1>4, <1>5, <1>6, <1>7, <1>8, Zenon DEF Next
-----------------------------------------------------------------------------
(* What a step does to the sleepers: it leaves pc, sleep, events and bus    *)
(* alone, or wakes who is called, or puts a thread to sleep, or ends a      *)
(* sleep.                                                                   *)
Still == UNCHANGED <<pc, sleep, events, bus>>
Ringing ==
  /\ UNCHANGED <<sleep, events>>
  /\ \E set \in SUBSET {"RECEIVE_SIGNAL", "PROCESS_QUIT"} :
       /\ bus' = change(bus, {}, set)
       /\ \A u \in Thread : pc'[u] = "asleep" => pc[u] = "asleep" /\ u \notin wakes(bus, {}, set)
LEMMA StepKinds ==
  ASSUME TypeOK, Next
  PROVE  \/ Still \/ TimerInterrupt \/ Ringing
         \/ \E t \in Thread : \/ \E r \in Int : Return(t, r)
                              \/ \E dl, d \in Nat : Block(t, dl, d)
  <1>1. CASE Tick
    BY <1>1, Zenon DEF Tick, Still
  <1>2. ASSUME NEW r \in Request, Send(r.signo, r.tid) PROVE Still \/ Ringing
    <2>1. CASE Queued(r.signo)
      BY <1>2, <2>1, Zenon DEF Send, Still
    <2>2. CASE ~Queued(r.signo)
      <3>1. ChangeBus({}, {"RECEIVE_SIGNAL"}) /\ UNCHANGED <<sleep, events>>
        BY <1>2, <2>2, Zenon DEF Send
      <3>2. \A u \in Thread : pc'[u] = "asleep" =>
              pc[u] = "asleep" /\ u \notin wakes(bus, {}, {"RECEIVE_SIGNAL"})
        BY <3>1, Zenon DEF ChangeBus, Wake
      <3> QED BY <3>1, <3>2, Zenon DEF ChangeBus, Ringing
    <2> QED BY <2>1, <2>2, Zenon
  <1>3. ASSUME NEW t \in Thread, NEW d \in Duration[t], Nanosleep(t, d)
        PROVE  (\E r \in Int : Return(t, r)) \/ \E dl, e \in Nat : Block(t, dl, e)
    <2>1. now + d \in Nat /\ d \in Nat
      BY DurationNat, Zenon
    <2>2. EINTR \in Int /\ 0 \in Int
      BY DEF EINTR
    <2> QED BY <1>3, <2>1, <2>2, Zenon DEF Nanosleep, Finish
  <1>4. ASSUME NEW t \in Thread, Resume(t)
        PROVE  (\E r \in Int : Return(t, r)) \/ \E dl, e \in Nat : Block(t, dl, e)
    <2>1. sleep[t] \in [deadline : Nat, duration : Nat]
      BY Zenon DEF TypeOK
    <2>2. EINTR \in Int /\ 0 \in Int
      BY DEF EINTR
    <2> QED BY <1>4, <2>1, <2>2, Zenon DEF Resume, Finish
  <1>5. ASSUME NEW t \in Thread, Trap(t) PROVE Still
    BY <1>5, Zenon DEF Trap, Still
  <1>6. ASSUME NEW t \in Thread, Deliver(t) PROVE Still \/ Ringing
    <2>1. UNCHANGED <<sleep, events>>
      BY <1>6, Zenon DEF Deliver
    <2>2. PICK i \in 1..Len(sig_queue) : Taking(t, i)
      BY <1>6, DeliverTakes, Zenon
    <2>3. UNCHANGED <<bus, pc>> \/ ExitProcess(t, sig_queue[i].signo + 128)
      BY <2>2, Zenon DEF Taking, TakeDefault, TakeError, EnterHandler
    <2>4. CASE ExitProcess(t, sig_queue[i].signo + 128)
      <3>1. \A u \in Thread : pc'[u] = "asleep" =>
              pc[u] = "asleep" /\ u \notin wakes(bus, {}, {"PROCESS_QUIT"})
        BY <2>4, Zenon DEF ExitProcess
      <3> QED BY <2>1, <2>4, <3>1, Zenon DEF ExitProcess, Ringing
    <2> QED BY <2>1, <2>3, <2>4, Zenon DEF Still
  <1> QED BY <1>1, <1>2, <1>3, <1>4, <1>5, <1>6, Zenon DEF Next

(* A callback that change does not keep wakes its task. *)
LEMMA ChangeWakes ==
  ASSUME NEW set, NEW c \in bus.callbacks
  PROVE  c \in change(bus, {}, set).callbacks \/ c.waker \in wakes(bus, {}, set)
  BY Zenon DEF change, wakes

(* Every step keeps the sleepers armed. *)
LEMMA ArmedNext ==
  ASSUME TypeOK, SleeperArmed, [Next]_vars
  PROVE  SleeperArmed'
  <1> SUFFICES ASSUME NEW u \in Thread, pc'[u] = "asleep"
               PROVE  /\ sleep'[u].duration < Infinite =>
                           \E e \in events' : e.waker = u /\ e.deadline >= sleep'[u].deadline
                      /\ \E c \in bus'.callbacks : c.waker = u
    BY Zenon DEF SleeperArmed
  <1>0. pc[u] = "asleep" =>
          /\ sleep[u].duration < Infinite =>
               \E e \in events : e.waker = u /\ e.deadline >= sleep[u].deadline
          /\ \E c \in bus.callbacks : c.waker = u
    BY Zenon DEF SleeperArmed
  <1>1. CASE Still \/ UNCHANGED vars
    BY <1>0, <1>1, Zenon DEF Still, vars
  <1>2. CASE TimerInterrupt
    <2>1. /\ pc[u] = "asleep" /\ u \notin expired_wakers(events, now)
          /\ events' = events \ Expired(events, now) /\ UNCHANGED <<sleep, bus>>
      BY <1>2, Zenon DEF TimerInterrupt, Wake, expire
    <2>2. \A e \in events : e.waker = u => e \in events'
      BY <2>1, Zenon DEF expired_wakers
    <2> QED BY <1>0, <2>1, <2>2, Zenon
  <1>3. CASE Ringing
    <2>1. PICK set \in SUBSET {"RECEIVE_SIGNAL", "PROCESS_QUIT"} :
            /\ bus' = change(bus, {}, set)
            /\ pc[u] = "asleep" /\ u \notin wakes(bus, {}, set)
      BY <1>3, Zenon DEF Ringing
    <2>2. UNCHANGED <<sleep, events>>
      BY <1>3, Zenon DEF Ringing
    <2> QED BY <1>0, <2>1, <2>2, ChangeWakes, Zenon
  <1>4. ASSUME NEW t \in Thread, NEW r \in Int, Return(t, r)
        PROVE  /\ pc[u] = "asleep" /\ sleep'[u] = sleep[u]
               /\ UNCHANGED <<events, bus>>
    <2>1. pc' = [pc EXCEPT ![t] = "user"] /\ UNCHANGED <<events, bus>>
          /\ sleep' = [sleep EXCEPT ![t] = [deadline |-> 0, duration |-> 0]]
      BY <1>4, Zenon DEF Return
    <2>2. pc \in [Thread -> {"user", "asleep", "woken", "done"}]
          /\ sleep \in [Thread -> [deadline : Nat, duration : Nat]]
      BY Zenon DEF TypeOK
    <2> QED BY <2>1, <2>2, Zenon
  <1>5. ASSUME NEW t \in Thread, NEW dl \in Nat, NEW d \in Nat, Block(t, dl, d)
        PROVE  /\ sleep'[u].duration < Infinite =>
                    \E e \in events' : e.waker = u /\ e.deadline >= sleep'[u].deadline
               /\ \E c \in bus'.callbacks : c.waker = u
    <2>1. /\ pc' = [pc EXCEPT ![t] = "asleep"]
          /\ sleep' = [sleep EXCEPT ![t] = [deadline |-> dl, duration |-> d]]
          /\ bus' = [bus EXCEPT !.callbacks = @ \cup {[waker |-> t, mask |-> EveryEvent]}]
      BY <1>5, Zenon DEF Block, subscribe
    <2>2. /\ pc \in [Thread -> {"user", "asleep", "woken", "done"}]
          /\ sleep \in [Thread -> [deadline : Nat, duration : Nat]]
          /\ bus \in [event : SUBSET {"RECEIVE_SIGNAL", "PROCESS_QUIT"},
                      callbacks : SUBSET Callback]
      BY Zenon DEF TypeOK
    <2>3. bus'.callbacks = bus.callbacks \cup {[waker |-> t, mask |-> EveryEvent]}
      BY <2>1, <2>2, Zenon
    <2>4. /\ events \subseteq events'
          /\ d < Infinite => \E e \in events' : e.waker = t /\ e.deadline >= dl
      <3>1. CASE d < Infinite
        <4>1. PICK key \in dl..(dl + Cardinality(events)) :
                /\ FreeKey(events, dl, key)
                /\ events' = events \cup {[deadline |-> key, waker |-> t]}
          BY <1>5, <3>1, Zenon DEF Block, add
        <4> DEFINE e == [deadline |-> key, waker |-> t]
        <4>2. e.waker = t /\ e.deadline = key /\ key >= dl
          BY <4>1, Zenon DEF FreeKey
        <4>3. e \in events' /\ events \subseteq events'
          BY <4>1, Zenon
        <4> HIDE DEF e
        <4> QED BY <4>2, <4>3, Zenon
      <3>2. CASE ~(d < Infinite)
        BY <1>5, <3>2, Zenon DEF Block
      <3> QED BY <3>1, <3>2, Zenon
    <2>5. CASE u = t
      <3>1. sleep'[u] = [deadline |-> dl, duration |-> d]
        BY <2>1, <2>2, <2>5, Zenon
      <3>2. sleep'[u].deadline = dl /\ sleep'[u].duration = d
        BY <3>1
      <3> DEFINE c == [waker |-> t, mask |-> EveryEvent]
      <3>3. c \in bus'.callbacks /\ c.waker = u
        BY <2>3, <2>5, Zenon
      <3> HIDE DEF c
      <3> QED BY <2>4, <2>5, <3>2, <3>3, Zenon
    <2>6. CASE u # t
      <3>1. pc[u] = "asleep" /\ sleep'[u] = sleep[u]
        BY <2>1, <2>2, <2>6, Zenon
      <3> QED BY <1>0, <2>3, <2>4, <3>1, Zenon
    <2> QED BY <2>5, <2>6, Zenon
  <1>6. CASE Next
    BY <1>0, <1>1, <1>2, <1>3, <1>4, <1>5, <1>6, StepKinds, Zenon
  <1> QED BY <1>1, <1>6, Zenon

(* The type of the state and SleeperArmed, for any threads, durations and   *)
(* signals: SleepFuture::poll leaves every way out of a sleep open.         *)
THEOREM SleepersArmed == Safety => []SleepInv
  <1>1. Init => SleepInv
    BY InitType, Zenon DEF SleepInv, SleeperArmed, Init
  <1>2. SleepInv /\ [Next]_vars => SleepInv'
    BY NextType, ArmedNext, Zenon DEF SleepInv
  <1> QED BY <1>1, <1>2, PTL DEF Safety
(* The end of a sleep: only the executor's poll of a thread ends one, and   *)
(* with 0 only at the deadline.                                             *)
LEMMA EndsOnTime ==
  ASSUME TypeOK, [Next]_vars, NEW u \in Thread, Asleep(u), pc'[u] = "user", tf'[u].x0 = 0
  PROVE  now >= sleep[u].deadline
  <1>0. /\ pc \in [Thread -> {"user", "asleep", "woken", "done"}]
        /\ tf \in [Thread -> Context]
        /\ pc[u] # "user"
    BY Zenon DEF TypeOK, Asleep
  <1>1. ASSUME NEW t \in Thread, Resume(t) PROVE now >= sleep[u].deadline
    <2>1. CASE Finish(t, sleep[t].deadline)
      <3>1. PICK r \in {EINTR, 0} :
              /\ r = IF has_signal_to_handle(t) THEN EINTR ELSE 0
              /\ pc' = [pc EXCEPT ![t] = "user"] /\ tf' = [tf EXCEPT ![t].x0 = r]
        BY <2>1, Zenon DEF Finish, Return
      <3>2. u = t
        BY <1>0, <3>1, Zenon
      <3>3. tf'[t].x0 = r
        BY <1>0, <3>1, Zenon DEF Context
      <3>4. ~has_signal_to_handle(t)
        BY <3>1, <3>2, <3>3 DEF EINTR
      <3> QED BY <2>1, <3>2, <3>4, Zenon DEF Finish, Ready
    <2>2. CASE Block(t, sleep[t].deadline, sleep[t].duration)
      <3>1. pc' = [pc EXCEPT ![t] = "asleep"]
        BY <2>2, Zenon DEF Block
      <3> QED BY <1>0, <3>1, Zenon
    <2> QED BY <1>1, <2>1, <2>2, Zenon DEF Resume
  <1>2. ASSUME NEW t \in Thread, NEW d \in Duration[t], Nanosleep(t, d) PROVE FALSE
    <2>1. pc[t] = "user" /\ (pc' = [pc EXCEPT ![t] = "user"] \/ pc' = [pc EXCEPT ![t] = "asleep"])
      BY <1>2, Zenon DEF Nanosleep, Finish, Return, Block
    <2> QED BY <1>0, <2>1, Zenon
  <1>3. ASSUME NEW threads, Wake(threads) PROVE FALSE
    BY <1>0, <1>3, Zenon DEF Wake
  <1>4. ASSUME NEW r \in Request, Send(r.signo, r.tid) PROVE pc' = pc \/ \E threads : Wake(threads)
    BY <1>4, Zenon DEF Send, ChangeBus
  <1>5. ASSUME NEW t \in Thread, Deliver(t) PROVE FALSE
    <2>1. PICK i \in 1..Len(sig_queue) : Taking(t, i)
      BY <1>5, DeliverTakes, Zenon
    <2>2. pc' = pc \/ ExitProcess(t, sig_queue[i].signo + 128)
      BY <2>1, Zenon DEF Taking, TakeDefault, TakeError, EnterHandler
    <2>3. CASE ExitProcess(t, sig_queue[i].signo + 128)
      BY <1>0, <2>3, Zenon DEF ExitProcess
    <2> QED BY <1>0, <2>2, <2>3, Zenon
  <1>6. CASE Tick \/ UNCHANGED vars
    BY <1>0, <1>6, Zenon DEF Tick, vars
  <1>7. ASSUME NEW t \in Thread, Trap(t) PROVE FALSE
    BY <1>0, <1>7, Zenon DEF Trap
  <1>8. CASE TimerInterrupt
    BY <1>3, <1>8, Zenon DEF TimerInterrupt
  <1> QED BY <1>0, <1>1, <1>2, <1>3, <1>4, <1>5, <1>6, <1>7, <1>8, Zenon DEF Next

(* sys_nanosleep returns 0 only when its deadline has come, whatever has    *)
(* woken the thread on the way.                                             *)
THEOREM NotEarlyHolds == Safety => NotEarly
  <1>1. SleepInv /\ [Next]_vars =>
          [\A t \in Thread : Asleep(t) /\ pc'[t] = "user" /\ tf'[t].x0 = 0
             => now >= sleep[t].deadline]_vars
    BY EndsOnTime, Zenon DEF SleepInv
  <1> QED BY <1>1, SleepersArmed, PTL DEF Safety, NotEarly
-----------------------------------------------------------------------------
(* Different signals have different bits, although 64 has the bit 0. *)
LEMMA BitOfOne ==
  ASSUME NEW a \in 1..64, NEW b \in 1..64, bit(a) = bit(b)
  PROVE  a = b
  BY DEF bit

(* The entries of the queue. *)
LEMMA QueueEntry ==
  ASSUME TypeOK, NEW i \in DOMAIN sig_queue
  PROVE  /\ i \in 1..Len(sig_queue) /\ sig_queue[i].signo \in Signal
         /\ sig_queue[i].signo \in 1..64
  <1>1. sig_queue \in Seq([signo : Signal, tid : Thread \cup {AnyThread}])
    BY Zenon DEF TypeOK
  <1>2. i \in 1..Len(sig_queue)
    BY <1>1
  <1>3. sig_queue[i] \in [signo : Signal, tid : Thread \cup {AnyThread}]
    BY <1>1, <1>2, ElementOf, Zenon
  <1> QED BY <1>2, <1>3, SignalType, Zenon

(* send_signal and handle_signal keep the queue and the pending set in step. *)
LEMMA PendingNext ==
  ASSUME TypeOK, PendingMatchesQueue, [Next]_vars
  PROVE  PendingMatchesQueue'
  <1>0. sig_queue \in Seq([signo : Signal, tid : Thread \cup {AnyThread}])
    BY Zenon DEF TypeOK
  <1>1. CASE UNCHANGED <<sig_queue, pending_sigset>>
    BY <1>1, Zenon DEF PendingMatchesQueue
  <1>2. ASSUME NEW r \in Request, Send(r.signo, r.tid) PROVE PendingMatchesQueue'
    <2>1. CASE Queued(r.signo)
      BY <1>1, <1>2, <2>1, Zenon DEF Send
    <2>2. CASE ~Queued(r.signo)
      <3> DEFINE n == Len(sig_queue)
                 x == [signo |-> r.signo, tid |-> r.tid]
      <3>1. /\ sig_queue' = Append(sig_queue, x)
            /\ pending_sigset' = pending_sigset \cup {bit(r.signo)}
        BY <1>2, <2>2, Zenon DEF Send
      <3>2. x.signo = r.signo /\ n \in Nat
        BY <1>0
      <3> HIDE DEF x
      <3>3. /\ DOMAIN sig_queue = 1..n /\ DOMAIN sig_queue' = 1..(n + 1)
            /\ \A i \in 1..n : sig_queue'[i] = sig_queue[i]
            /\ sig_queue'[n + 1] = x
        BY <1>0, <3>1
      <3> HIDE DEF n
      <3>4. \A i \in 1..n : is_standard(r.signo) => sig_queue[i].signo # r.signo
        BY <2>2, <3>3, Zenon DEF PendingMatchesQueue, Queued
      <3>5. \A i \in 1..(n + 1) : i \in 1..n \/ i = n + 1
        BY <3>2
      <3>6. 1..n \subseteq 1..(n + 1) /\ n + 1 \in 1..(n + 1)
        BY <3>2
      <3>7. \A i, j \in 1..(n + 1) : is_standard(sig_queue'[i].signo)
              /\ sig_queue'[i].signo = sig_queue'[j].signo => i = j
        BY <3>2, <3>3, <3>4, <3>5, Zenon DEF PendingMatchesQueue
      <3>8. \A b \in pending_sigset' : \E i \in 1..(n + 1) : bit(sig_queue'[i].signo) = b
        BY <3>1, <3>2, <3>3, <3>6, ZenonT(30) DEF PendingMatchesQueue
      <3>9. \A i \in 1..(n + 1) :
              is_standard(sig_queue'[i].signo) => bit(sig_queue'[i].signo) \in pending_sigset'
        BY <3>1, <3>2, <3>3, <3>5, Zenon DEF PendingMatchesQueue
      <3> QED BY <3>3, <3>7, <3>8, <3>9, Zenon DEF PendingMatchesQueue, bit, is_standard
    <2> QED BY <2>1, <2>2, Zenon
  <1>3. ASSUME NEW t \in Thread, Deliver(t) PROVE PendingMatchesQueue'
    <2>1. PICK i \in 1..Len(sig_queue) : Dequeue(t, i)
      BY <1>3, DeliverTakes, Zenon DEF Taking
    <2> DEFINE n == Len(sig_queue)
               from(j) == IF j < i THEN j ELSE j + 1
               to(k) == IF k < i THEN k ELSE k - 1
    <2>2. /\ pending_sigset' = pending_sigset \ {bit(sig_queue[i].signo)}
          /\ DOMAIN sig_queue' = 1..(n - 1)
          /\ \A j \in 1..(n - 1) : sig_queue'[j] = sig_queue[from(j)]
      <3>1. sig_queue' = [j \in 1..(n - 1) |-> sig_queue[from(j)]]
        BY <2>1, Zenon DEF Dequeue
      <3> HIDE DEF n, from
      <3> QED BY <2>1, <3>1, Zenon DEF Dequeue
    <2>3. n \in Nat /\ DOMAIN sig_queue = 1..n
      BY <1>0
    <2>4. /\ \A j \in 1..(n - 1) : from(j) \in 1..n /\ from(j) # i
          /\ \A j, k \in 1..(n - 1) : from(j) = from(k) => j = k
          /\ \A k \in 1..n : k # i => to(k) \in 1..(n - 1) /\ from(to(k)) = k
      <3> HIDE DEF n
      <3> QED BY <2>1, <2>3 DEF n
    <2> HIDE DEF n, from, to
    <2>5. \A k \in 1..n : bit(sig_queue[k].signo) = bit(sig_queue[i].signo) =>
            sig_queue[k].signo = sig_queue[i].signo
      BY <2>1, <2>3, QueueEntry, BitOfOne, Zenon DEF n
    <2>6. i \in 1..n
      BY <2>1, Zenon DEF n
    <2>7. \A j, k \in 1..(n - 1) : is_standard(sig_queue'[j].signo)
            /\ sig_queue'[j].signo = sig_queue'[k].signo => j = k
      BY <2>2, <2>3, <2>4, ZenonT(30) DEF PendingMatchesQueue
    <2>8. ASSUME NEW b \in pending_sigset'
          PROVE  \E j \in 1..(n - 1) : bit(sig_queue'[j].signo) = b
      <3>1. PICK k \in 1..n : bit(sig_queue[k].signo) = b
        BY <2>2, <2>3, Zenon DEF PendingMatchesQueue
      <3>2. k # i
        BY <2>2, <3>1, Zenon
      <3>3. to(k) \in 1..(n - 1) /\ sig_queue'[to(k)] = sig_queue[k]
        BY <2>2, <2>4, <3>2, Zenon
      <3> QED BY <3>1, <3>3, Zenon
    <2>9. \A j \in 1..(n - 1) :
            is_standard(sig_queue'[j].signo) => bit(sig_queue'[j].signo) \in pending_sigset'
      BY <2>2, <2>3, <2>4, <2>5, <2>6, Zenon DEF PendingMatchesQueue
    <2> QED BY <2>2, <2>7, <2>8, <2>9, ZenonT(30) DEF PendingMatchesQueue, bit, is_standard
  <1>4. CASE Tick \/ TimerInterrupt \/ UNCHANGED vars
    BY <1>1, <1>4, Zenon DEF Tick, TimerInterrupt, vars, signals
  <1>5. ASSUME NEW t \in Thread,
               (\E d \in Duration[t] : Nanosleep(t, d)) \/ Resume(t) \/ Trap(t)
        PROVE  PendingMatchesQueue'
    BY <1>1, <1>5, Zenon DEF Nanosleep, Resume, Trap, signals
  <1> QED BY <1>2, <1>3, <1>4, <1>5, Zenon DEF Next

(* The queue and the pending set agree in every reachable state, for any    *)
(* signals and any number of them.                                          *)
THEOREM PendingMatches == Safety => []PendingMatchesQueue
  <1>1. Init => PendingMatchesQueue
    BY DEF Init, PendingMatchesQueue
  <1>2. SleepInv /\ PendingMatchesQueue /\ [Next]_vars => PendingMatchesQueue'
    BY PendingNext, Zenon DEF SleepInv
  <1> QED BY <1>1, <1>2, SleepersArmed, PTL DEF Safety
-----------------------------------------------------------------------------
(* Before the first signal the queue is empty and the event is not set. *)
Started == sent = 0 => sig_queue = <<>> /\ "RECEIVE_SIGNAL" \notin bus.event

(* The first signal changes the events of the bus, so every sleeper wakes. *)
LEMMA FirstWakes ==
  ASSUME TypeOK, SleeperArmed, "RECEIVE_SIGNAL" \notin bus.event,
         ChangeBus({}, {"RECEIVE_SIGNAL"}), NEW u \in Thread
  PROVE  pc'[u] # "asleep"
  <1>1. pc' = [t \in Thread |->
                 IF t \in wakes(bus, {}, {"RECEIVE_SIGNAL"}) /\ pc[t] = "asleep"
                 THEN "woken" ELSE pc[t]]
    BY Zenon DEF ChangeBus, Wake
  <1>2. CASE pc[u] = "asleep"
    <2>1. PICK c \in bus.callbacks : c.waker = u
      BY <1>2, Zenon DEF SleeperArmed
    <2>2. c.mask = EveryEvent
      <3>1. bus.callbacks \subseteq Callback
        BY Zenon DEF TypeOK
      <3> QED BY <3>1, Zenon DEF Callback
    <2>3. c \in Fired(bus, {}, {"RECEIVE_SIGNAL"})
      BY <2>2, Zenon DEF Fired, Changed, EveryEvent
    <2>4. u \in wakes(bus, {}, {"RECEIVE_SIGNAL"})
      BY <2>1, <2>3, Zenon DEF wakes
    <2> QED BY <1>1, <1>2, <2>4, Zenon
  <1>3. CASE pc[u] # "asleep"
    BY <1>1, <1>3, Zenon
  <1> QED BY <1>2, <1>3, Zenon

(* handle_signal gives no other thread a signal to handle. *)
LEMMA NoMoreSignals ==
  ASSUME TypeOK, NEW t \in Thread, Deliver(t), NEW u \in Thread \ {t}, has_signal_to_handle(u)'
  PROVE  has_signal_to_handle(u)
  <1>1. PICK i \in 1..Len(sig_queue) : Taking(t, i)
    BY DeliverTakes, Zenon
  <1>2. /\ Len(sig_queue') = Len(sig_queue) - 1 /\ Len(sig_queue) \in Nat
        /\ \A j \in 1..Len(sig_queue') : sig_queue'[j] = sig_queue[IF j < i THEN j ELSE j + 1]
    <2>1. sig_queue \in Seq([signo : Signal, tid : Thread \cup {AnyThread}])
      BY Zenon DEF TypeOK
    <2>2. Len(sig_queue) \in Nat
      BY <2>1
    <2>3. Dequeue(t, i)
      BY <1>1, Zenon DEF Taking
    <2> QED BY <2>2, <2>3, DequeueType, Zenon
  <1>3. sig_mask'[u] = sig_mask[u]
    <2>1. sig_mask' = sig_mask \/ \E m : sig_mask' = [sig_mask EXCEPT ![t] = m]
      BY <1>1, Zenon DEF Taking, TakeDefault, TakeError, EnterHandler, stacks
    <2>2. sig_mask \in [Thread -> SUBSET (0..63)]
      BY Zenon DEF TypeOK
    <2> QED BY <2>1, <2>2, Zenon
  <1>4. PICK j \in 1..Len(sig_queue') : /\ sig_queue'[j].tid \in {AnyThread, u}
                                        /\ bit(sig_queue'[j].signo) \notin sig_mask'[u]
    BY Zenon DEF has_signal_to_handle, Deliverable, bit
  <1> DEFINE k == IF j < i THEN j ELSE j + 1
  <1>5. k \in 1..Len(sig_queue)
    BY <1>2, <1>4
  <1>6. sig_queue'[j] = sig_queue[k]
    BY <1>2, <1>4, Zenon
  <1> HIDE DEF k
  <1> QED BY <1>3, <1>4, <1>5, <1>6, Zenon DEF has_signal_to_handle, Deliverable

(* Every step keeps FirstSignalWakes and what it rests on. *)
LEMMA FirstNext ==
  ASSUME TypeOK, SleeperArmed, Started, FirstSignalWakes, [Next]_vars
  PROVE  Started' /\ FirstSignalWakes'
  <1>0. sent \in Nat /\ pc \in [Thread -> {"user", "asleep", "woken", "done"}]
    BY DEF TypeOK
  <1>1. ASSUME NEW r \in Request, Send(r.signo, r.tid) PROVE Started' /\ FirstSignalWakes'
    <2>1. sent' = sent + 1 /\ UNCHANGED <<sig_mask>>
      BY <1>1, Zenon DEF Send, stacks
    <2>2. Started'
      BY <1>0, <2>1 DEF Started
    <2>3. CASE sent # 0
      <3>1. sent' >= 2
        BY <1>0, <2>1, <2>3
      <3> QED BY <2>2, <3>1, Zenon DEF FirstSignalWakes
    <2>4. CASE sent = 0
      <3>1. sig_queue = <<>> /\ "RECEIVE_SIGNAL" \notin bus.event
        BY <2>4, Zenon DEF Started
      <3>2. CASE Queued(r.signo)
        <4>1. sig_queue' = <<>>
          BY <1>1, <3>1, <3>2, Zenon DEF Send
        <4>2. 1..Len(sig_queue') = {}
          BY <4>1
        <4>3. \A u \in Thread : ~has_signal_to_handle(u)'
          BY <4>2, Zenon DEF has_signal_to_handle, Deliverable
        <4> QED BY <2>2, <4>3, Zenon DEF FirstSignalWakes
      <3>3. CASE ~Queued(r.signo)
        <4>1. ChangeBus({}, {"RECEIVE_SIGNAL"})
          BY <1>1, <3>3, Zenon DEF Send
        <4>2. \A u \in Thread : pc'[u] # "asleep"
          BY <3>1, <4>1, FirstWakes, Zenon
        <4> QED BY <2>2, <4>2, Zenon DEF FirstSignalWakes
      <3> QED BY <3>2, <3>3, Zenon
    <2> QED BY <2>3, <2>4, Zenon
  <1>2. ASSUME NEW t \in Thread, Deliver(t) PROVE Started' /\ FirstSignalWakes'
    <2>1. PICK i \in 1..Len(sig_queue) : Taking(t, i)
      BY <1>2, DeliverTakes, Zenon
    <2>2. sent' = sent /\ sent # 0
      <3>1. sig_queue # <<>>
        BY <2>1
      <3>2. sent' = sent
        BY <1>2, Zenon DEF Deliver
      <3> QED BY <3>1, <3>2, Zenon DEF Started
    <2>3. pc[t] = "user"
      BY <1>2, SleepAssumption, Zenon DEF Deliver, TypeOK, SignalAssumption
    <2>4. \A u \in Thread : pc'[u] = "asleep" => pc[u] = "asleep" /\ u # t
      <3>1. pc' = pc \/ ExitProcess(t, sig_queue[i].signo + 128)
        BY <2>1, Zenon DEF Taking, TakeDefault, TakeError, EnterHandler
      <3>2. CASE ExitProcess(t, sig_queue[i].signo + 128)
        BY <3>2, Zenon DEF ExitProcess
      <3>3. CASE pc' = pc
        BY <2>3, <3>3, Zenon
      <3> QED BY <3>1, <3>2, <3>3, Zenon
    <2>5. \A u \in Thread \ {t} : has_signal_to_handle(u)' => has_signal_to_handle(u)
      BY <1>2, NoMoreSignals, Zenon
    <2>6. Started'
      BY <2>2, Zenon DEF Started
    <2>7. FirstSignalWakes'
      BY <2>2, <2>4, <2>5, Zenon DEF FirstSignalWakes
    <2> QED BY <2>6, <2>7, Zenon
  <1>3. ASSUME UNCHANGED <<sent, sig_queue, sig_mask>>,
               bus'.event = bus.event,
               \A u \in Thread :
                 pc'[u] = "asleep" => pc[u] = "asleep" \/ ~has_signal_to_handle(u)
        PROVE  Started' /\ FirstSignalWakes'
    <2>1. \A u \in Thread : has_signal_to_handle(u)' <=> has_signal_to_handle(u)
      BY <1>3, Zenon DEF has_signal_to_handle, Deliverable
    <2> QED BY <1>3, <2>1, Zenon DEF Started, FirstSignalWakes
  <1>4. CASE Tick \/ UNCHANGED vars
    <2>1. UNCHANGED <<sent, sig_queue, sig_mask, bus, pc>>
      BY <1>4, Zenon DEF Tick, vars, signals, stacks
    <2> QED BY <1>3, <2>1, Zenon
  <1>5. CASE TimerInterrupt
    <2>1. UNCHANGED <<sent, sig_queue, sig_mask, bus>>
      BY <1>5, Zenon DEF TimerInterrupt, signals, stacks
    <2>2. \A u \in Thread : pc'[u] = "asleep" => pc[u] = "asleep"
      BY <1>5, Zenon DEF TimerInterrupt, Wake
    <2> QED BY <1>3, <2>1, <2>2, Zenon
  <1>6. ASSUME NEW t \in Thread, Trap(t) PROVE Started' /\ FirstSignalWakes'
    <2>1. UNCHANGED <<sent, sig_queue, sig_mask, bus, pc>>
      BY <1>6, Zenon DEF Trap, signals, stacks
    <2> QED BY <1>3, <2>1, Zenon
  <1>7. ASSUME NEW t \in Thread, UNCHANGED <<sent, sig_queue, sig_mask>>,
               (\E res : Return(t, res)) \/ \E dl, d : Block(t, dl, d)
        PROVE  Started' /\ FirstSignalWakes'
    <2>1. CASE \E res : Return(t, res)
      <3>1. bus' = bus /\ pc' = [pc EXCEPT ![t] = "user"]
        BY <2>1, Zenon DEF Return
      <3>2. \A u \in Thread : pc'[u] = "asleep" => pc[u] = "asleep"
        BY <1>0, <3>1, Zenon
      <3> QED BY <1>3, <1>7, <3>1, <3>2, Zenon
    <2>2. CASE \E dl, d : Block(t, dl, d)
      <3>1. /\ ~has_signal_to_handle(t) /\ pc' = [pc EXCEPT ![t] = "asleep"]
            /\ bus' = [bus EXCEPT !.callbacks = @ \cup {[waker |-> t, mask |-> EveryEvent]}]
        BY <2>2, Zenon DEF Block, Ready, subscribe
      <3>2. bus'.event = bus.event
        BY <3>1, Zenon DEF TypeOK
      <3>3. \A u \in Thread : pc'[u] = "asleep" => pc[u] = "asleep" \/ u = t
        BY <1>0, <3>1, Zenon
      <3> QED BY <1>3, <1>7, <3>1, <3>2, <3>3, Zenon
    <2> QED BY <1>7, <2>1, <2>2, Zenon
  <1>8. ASSUME NEW t \in Thread, (\E d \in Duration[t] : Nanosleep(t, d)) \/ Resume(t)
        PROVE  Started' /\ FirstSignalWakes'
    BY <1>7, <1>8, Zenon DEF Nanosleep, Resume, Finish, signals, stacks
  <1> QED BY <1>1, <1>2, <1>4, <1>5, <1>6, <1>8, Zenon DEF Next

(* A thread that sleeps although it has a signal to handle missed a second  *)
(* signal, or a later one; never the first.                                 *)
THEOREM FirstSignal == Safety => []FirstSignalWakes
  <1>1. Init => Started /\ FirstSignalWakes
    BY DEF Init, Started, FirstSignalWakes, new
  <1>2. SleepInv /\ Started /\ FirstSignalWakes /\ [Next]_vars => Started' /\ FirstSignalWakes'
    BY FirstNext, Zenon DEF SleepInv
  <1> QED BY <1>1, <1>2, SleepersArmed, PTL DEF Safety
-----------------------------------------------------------------------------
(***************************************************************************)
(* What a thread's frames owe to each other and to its registers, its mask *)
(* and its alternate stack.  The main stack is a multiple of FrameSize     *)
(* away from 0 and the alternate stack is not, and the alternate stack is  *)
(* entered once: that keeps the frames apart.                              *)
(***************************************************************************)
MaskAfter(f) == f.sig_mask \cup {bit(f.signo)} \cup Dispositions[f.signo].mask
Oldest(f) == ProgramRuns(f.context) /\ f.sig_mask = {}
Leads(f, g) == HandlerRuns(f, g.context) /\ g.sig_mask = MaskAfter(f)
Apart(f, g) == f.sp # g.sp /\ f.signo # g.signo
Clear(f, sp) == f.sp >= sp \/ f.sp % 3 # sp % 3

Linked(fs) ==
  /\ Len(fs) > 0 => Oldest(fs[1])
  /\ \A k \in 1..(Len(fs) - 1) : Leads(fs[k], fs[k + 1])
  /\ \A j, k \in 1..Len(fs) : j # k => Apart(fs[j], fs[k])
InForce(fs, context) ==
  /\ Len(fs) = 0 => ProgramRuns(context)
  /\ Len(fs) > 0 => HandlerRuns(fs[Len(fs)], context)
  /\ \A j \in 1..Len(fs) : Clear(fs[j], context.sp)
Masked(fs, mask) ==
  /\ Len(fs) = 0 => mask = {}
  /\ Len(fs) > 0 => mask = MaskAfter(fs[Len(fs)])
  /\ \A j \in 1..Len(fs) : bit(fs[j].signo) \in mask
Stacked(fs, context, flags) ==
  "DISABLE" \notin flags =>
    context.sp % 3 = 0 /\ \A j \in 1..Len(fs) : fs[j].sp % 3 = 0

Unwinding ==
  \A t \in Thread :
    /\ Linked(frames[t])
    /\ InForce(frames[t], tf[t])
    /\ ~halted => Masked(frames[t], sig_mask[t])
    /\ Stacked(frames[t], tf[t], alt_flags[t])
    /\ AltStack[t] \subseteq alt_flags[t]
(* The frame below the stack pointer lies on no other, on either stack. *)
LEMMA StackRoom ==
  ASSUME NEW sp \in Int, NEW q \in Int
  PROVE  /\ q >= sp \/ q % 3 # sp % 3 => q # sp - 3 /\ (q >= sp - 3 \/ q % 3 # (sp - 3) % 3)
         /\ q % 3 = 0 => q # -103 /\ q % 3 # (-103) % 3
         /\ (sp % 3 = 0) => (sp - 3) % 3 = 0
  OBVIOUS
(* What from_tf saves of the program's registers or of a handler's is as   *)
(* good as the registers: only x11 is lost.                                *)
LEMMA SavedRuns ==
  ASSUME NEW c \in Context
  PROVE  /\ ProgramRuns(c) => ProgramRuns(from_tf(c))
         /\ \A f : HandlerRuns(f, c) => HandlerRuns(f, from_tf(c))
  <1>1. /\ from_tf(c).x0 = c.x0 /\ from_tf(c).x1 = c.x1 /\ from_tf(c).x2 = c.x2
        /\ from_tf(c).x13 = c.x13 /\ from_tf(c).rest = c.rest
        /\ from_tf(c).sp = c.sp /\ from_tf(c).pc = c.pc
    BY Zenon DEF from_tf, Context
  <1> QED BY <1>1, Zenon DEF ProgramRuns, HandlerRuns
(* The result of a system call goes to x0. *)
LEMMA ResultRuns ==
  ASSUME NEW c \in Context, NEW result \in {0, EINTR}
  PROVE  LET d == [c EXCEPT !.x0 = result]
         IN  /\ ProgramRuns(c) => ProgramRuns(d)
             /\ \A f : HandlerRuns(f, c) => HandlerRuns(f, d)
             /\ d.sp = c.sp
  <1> DEFINE d == [c EXCEPT !.x0 = result]
  <1>1. /\ d.x0 = result /\ d.x1 = c.x1 /\ d.x2 = c.x2 /\ d.x13 = c.x13
        /\ d.rest = c.rest /\ d.sp = c.sp /\ d.pc = c.pc
    BY Zenon DEF Context
  <1> HIDE DEF d
  <1>2. (ProgramRuns(c) => ProgramRuns(d)) /\ \A f : HandlerRuns(f, c) => HandlerRuns(f, d)
    BY <1>1, Zenon DEF ProgramRuns, HandlerRuns
  <1> QED BY <1>1, <1>2, Zenon DEF d
(* set_signal_handler makes the registers of a handler. *)
LEMMA EnteredRuns ==
  ASSUME NEW c \in Context, NEW f \in FrameType, f.context = from_tf(c), NEW d,
         d = set_signal_handler(c, f.sp, Dispositions[f.signo], f.signo)
  PROVE  HandlerRuns(f, d) /\ d.sp = f.sp
  <1>1. f.context.x13 = c.x13 /\ f.context.rest = c.rest
    BY Zenon DEF from_tf, Context
  <1>2. /\ d.pc = Dispositions[f.signo].handler /\ d.x0 = f.signo
        /\ d.x1 = f.sp + 1 /\ d.x2 = f.sp + 2 /\ d.sp = f.sp
        /\ d.x13 = c.x13 /\ d.rest = c.rest
    BY Zenon DEF set_signal_handler, Context
  <1> QED BY <1>1, <1>2, Zenon DEF HandlerRuns
(* A frame pushed by handle_signal keeps all of it: its signal was not     *)
(* masked, so no frame is for it, and its place is below the stack pointer *)
(* or the first one of an alternate stack that nobody was on.              *)
LEMMA PushFrame ==
  ASSUME NEW fs \in Seq(FrameType), NEW c \in Context, NEW mask,
         NEW flags, NEW flags2, flags \subseteq flags2,
         NEW f \in FrameType, NEW d \in Context, NEW alt \in BOOLEAN,
         alt => "DISABLE" \notin flags /\ "DISABLE" \in flags2,
         alt => f.sp = -103, ~alt => f.sp = c.sp - 3,
         f.sig_mask = mask, f.context = from_tf(c),
         d = set_signal_handler(c, f.sp, Dispositions[f.signo], f.signo),
         bit(f.signo) \notin mask,
         Linked(fs), InForce(fs, c), Masked(fs, mask), Stacked(fs, c, flags)
  PROVE  /\ Linked(Append(fs, f)) /\ InForce(Append(fs, f), d)
         /\ Masked(Append(fs, f), MaskAfter(f)) /\ Stacked(Append(fs, f), d, flags2)
  <1> DEFINE gs == Append(fs, f)
             n == Len(fs)
  <1>0. HandlerRuns(f, d) /\ d.sp = f.sp
    BY EnteredRuns, SMTT(30)
  <1>1. /\ n \in Nat /\ Len(gs) = n + 1 /\ gs[n + 1] = f /\ gs[Len(gs)] = f
        /\ \A j \in 1..n : gs[j] = fs[j]
    OBVIOUS
  <1>2. \A j \in 1..n : fs[j] \in FrameType
    BY ElementOf, Zenon
  <1>3. c.sp \in Int /\ f.sp \in Int /\ \A j \in 1..n : fs[j].sp \in Int
    BY <1>2, Zenon DEF FrameType, Context
  <1> HIDE DEF gs, n
  <1>4. \A j \in 1..(n + 1) : j = n + 1 \/ j \in 1..n
    BY <1>1
  <1>5. ASSUME NEW j \in 1..n
        PROVE  fs[j].sp # f.sp /\ Clear(fs[j], f.sp)
    <2>1. Clear(fs[j], c.sp)
      BY Zenon DEF InForce, n
    <2>2. CASE alt
      <3>1. fs[j].sp % 3 = 0 /\ f.sp = -103
        BY <2>2, Zenon DEF Stacked, n
      <3> QED BY <1>3, <3>1, StackRoom DEF Clear
    <2>3. CASE ~alt
      BY <1>3, <2>1, <2>3, StackRoom DEF Clear
    <2> QED BY <2>2, <2>3, Zenon
  <1>6. ASSUME NEW j \in 1..n PROVE Apart(fs[j], f) /\ Apart(f, fs[j])
    <2>1. fs[j].signo # f.signo
      BY Zenon DEF Masked, n
    <2> QED BY <1>5, <2>1, Zenon DEF Apart
  <1>7. Linked(gs)
    <2>1. Oldest(gs[1])
      <3>1. CASE n = 0
        <4>1. gs[1] = f
          BY <1>1, <3>1
        <4>2. ProgramRuns(f.context) /\ mask = {}
          BY <3>1, SavedRuns, Zenon DEF InForce, Masked, n
        <4> QED BY <4>1, <4>2, Zenon DEF Oldest
      <3>2. CASE n # 0
        <4>1. n > 0 /\ gs[1] = fs[1]
          BY <1>1, <3>2
        <4> QED BY <4>1, Zenon DEF Linked, n
      <3> QED BY <3>1, <3>2, Zenon
    <2>2. ASSUME NEW k \in 1..n PROVE Leads(gs[k], gs[k + 1])
      <3>1. CASE k = n
        <4>1. n > 0 /\ gs[k] = fs[n] /\ gs[k + 1] = f
          BY <1>1, <3>1
        <4>2. HandlerRuns(fs[n], f.context) /\ mask = MaskAfter(fs[n])
          BY <4>1, SavedRuns, Zenon DEF InForce, Masked, n
        <4> QED BY <4>1, <4>2, Zenon DEF Leads
      <3>2. CASE k # n
        <4>1. k \in 1..(n - 1) /\ gs[k] = fs[k] /\ gs[k + 1] = fs[k + 1]
          BY <1>1, <3>2
        <4> QED BY <4>1, Zenon DEF Linked, n
      <3> QED BY <3>1, <3>2, Zenon
    <2>3. ASSUME NEW j \in 1..(n + 1), NEW k \in 1..(n + 1), j # k
          PROVE  Apart(gs[j], gs[k])
      <3>1. CASE j \in 1..n /\ k \in 1..n
        BY <1>1, <2>3, <3>1, Zenon DEF Linked, n
      <3>2. CASE j = n + 1 \/ k = n + 1
        BY <1>1, <1>4, <1>6, <2>3, <3>2, Zenon
      <3> QED BY <1>4, <3>1, <3>2, Zenon
    <2>4. 1..(Len(gs) - 1) = 1..n
      BY <1>1
    <2> QED BY <1>1, <2>1, <2>2, <2>3, <2>4, Zenon DEF Linked
  <1>8. InForce(gs, d)
    <2>1. \A j \in 1..(n + 1) : Clear(gs[j], d.sp)
      <3>1. Clear(f, d.sp)
        BY <1>0, <1>3 DEF Clear
      <3> QED BY <1>0, <1>1, <1>4, <1>5, <3>1, Zenon
    <2>2. Len(gs) # 0
      BY <1>1
    <2> QED BY <1>0, <1>1, <2>1, <2>2, Zenon DEF InForce
  <1>9. Masked(gs, MaskAfter(f))
    <2>1. ASSUME NEW j \in 1..(n + 1) PROVE bit(gs[j].signo) \in MaskAfter(f)
      <3>1. CASE j = n + 1
        BY <1>1, <3>1, Zenon DEF MaskAfter
      <3>2. CASE j \in 1..n
        <4>1. bit(gs[j].signo) \in mask
          BY <1>1, <3>2, Zenon DEF Masked, n
        <4> QED BY <4>1, Zenon DEF MaskAfter
      <3> QED BY <1>4, <3>1, <3>2, Zenon
    <2>2. Len(gs) # 0
      BY <1>1
    <2> QED BY <1>1, <2>1, <2>2, Zenon DEF Masked
  <1>10. Stacked(gs, d, flags2)
    <2> SUFFICES ASSUME "DISABLE" \notin flags2
                 PROVE  d.sp % 3 = 0 /\ \A j \in 1..(n + 1) : gs[j].sp % 3 = 0
      BY <1>1, Zenon DEF Stacked
    <2>1. ~alt /\ "DISABLE" \notin flags
      BY Zenon
    <2>2. c.sp % 3 = 0 /\ \A j \in 1..n : fs[j].sp % 3 = 0
      BY <2>1, Zenon DEF Stacked, n
    <2>3. f.sp % 3 = 0
      BY <1>3, <2>1, <2>2, StackRoom
    <2> QED BY <1>0, <1>1, <1>4, <2>2, <2>3, Zenon
  <1> QED BY <1>7, <1>8, <1>9, <1>10, Zenon DEF gs
(* The stack pointer and the flags of a handler that is entered. *)
LEMMA EnterStack ==
  ASSUME NEW t \in Thread, NEW action,
         alt_flags \in [Thread -> SUBSET SignalStackFlags], tf[t].sp \in Int,
         AltStack[t] \subseteq alt_flags[t],
         alt_flags' = [alt_flags EXCEPT ![t] =
           IF OnAltStack(t, action)
           THEN @ \cup {"ONSTACK"} \cup (IF "AUTODISARM" \in @ THEN {"DISABLE"} ELSE {})
           ELSE @]
  PROVE  /\ alt_flags[t] \subseteq alt_flags'[t]
         /\ OnAltStack(t, action) => /\ sig_sp(t, action) = -103
                                     /\ "DISABLE" \notin alt_flags[t]
                                     /\ "DISABLE" \in alt_flags'[t]
         /\ ~OnAltStack(t, action) => sig_sp(t, action) = tf[t].sp - 3
  <1>1. alt_flags'[t] = IF OnAltStack(t, action)
           THEN alt_flags[t] \cup {"ONSTACK"} \cup
                (IF "AUTODISARM" \in alt_flags[t] THEN {"DISABLE"} ELSE {})
           ELSE alt_flags[t]
    BY Zenon
  <1>2. "DISABLE" \in alt_flags[t] \/ "AUTODISARM" \in alt_flags[t]
    BY SleepAssumption, Zenon DEF StackAssumption
  <1>3. OnAltStack(t, action) => "DISABLE" \notin alt_flags[t]
    BY Zenon DEF OnAltStack
  <1>4. alt_flags[t] \subseteq alt_flags'[t]
    BY <1>1, Zenon
  <1>5. OnAltStack(t, action) => "DISABLE" \in alt_flags'[t]
    BY <1>1, <1>2, <1>3, Zenon
  <1>6. /\ OnAltStack(t, action) => sig_sp(t, action) = -103
        /\ ~OnAltStack(t, action) => sig_sp(t, action) = tf[t].sp - 3
    BY DEF sig_sp, AltTop, FrameSize
  <1> QED BY <1>3, <1>4, <1>5, <1>6, Zenon

(* What the frame says. *)
LEMMA FrameFields ==
  ASSUME NEW t \in Thread, NEW sig, NEW action
  PROVE  /\ Frame(t, sig, action).signo = sig
         /\ Frame(t, sig, action).sp = sig_sp(t, action)
         /\ Frame(t, sig, action).sig_mask = sig_mask[t]
         /\ Frame(t, sig, action).context = from_tf(tf[t])
  BY Zenon DEF Frame

(* A handler is entered: the frames of its thread are those of PushFrame. *)
LEMMA EnterUnwinds ==
  ASSUME TypeOK, Unwinding, ~halted, NEW t \in Thread, NEW sig \in Signal,
         bit(sig) \notin sig_mask[t],
         EnterHandler(t, sig, Dispositions[sig])
  PROVE  Unwinding'
  <1> DEFINE action == Dispositions[sig]
             sp == sig_sp(t, action)
             f == Frame(t, sig, action)
             d == set_signal_handler(tf[t], sp, action, sig)
  <1>1. /\ sig_mask \in [Thread -> SUBSET (0..63)]
        /\ alt_flags \in [Thread -> SUBSET SignalStackFlags]
        /\ tf \in [Thread -> Context]
        /\ frames \in [Thread -> Seq(FrameType)]
    BY Zenon DEF TypeOK
  <1>2. tf[t] \in Context /\ frames[t] \in Seq(FrameType)
    BY <1>1, Zenon
  <1>3. tf[t].sp \in Int
    BY <1>2, Zenon DEF Context
  <1>4. /\ Linked(frames[t]) /\ InForce(frames[t], tf[t]) /\ Masked(frames[t], sig_mask[t])
        /\ Stacked(frames[t], tf[t], alt_flags[t]) /\ AltStack[t] \subseteq alt_flags[t]
    BY Zenon DEF Unwinding
  <1>5. /\ sig_mask' = [sig_mask EXCEPT ![t] = @ \cup {bit(sig)} \cup action.mask]
        /\ alt_flags' = [alt_flags EXCEPT ![t] =
             IF OnAltStack(t, action)
             THEN @ \cup {"ONSTACK"} \cup (IF "AUTODISARM" \in @ THEN {"DISABLE"} ELSE {})
             ELSE @]
    BY Zenon DEF EnterHandler
  <1>6. /\ alt_flags[t] \subseteq alt_flags'[t]
        /\ OnAltStack(t, action) =>
             sp = -103 /\ "DISABLE" \notin alt_flags[t] /\ "DISABLE" \in alt_flags'[t]
        /\ ~OnAltStack(t, action) => sp = tf[t].sp - 3
    BY <1>1, <1>3, <1>4, <1>5, EnterStack, Zenon
  <1>7. /\ sig_mask'[t] = sig_mask[t] \cup {bit(sig)} \cup action.mask
        /\ \A u \in Thread \ {t} : sig_mask'[u] = sig_mask[u] /\ alt_flags'[u] = alt_flags[u]
    <2> HIDE DEF action
    <2> QED BY <1>1, <1>5, Zenon
  <1>8. CASE /\ frames' = [frames EXCEPT ![t] = Append(@, f)]
             /\ tf' = [tf EXCEPT ![t] = set_signal_handler(@, sp, action, sig)]
             /\ halted' = halted
    <2>1. f \in FrameType
      <3>1. sp \in Int
        BY <1>3 DEF sig_sp, AltTop, FrameSize
      <3>2. from_tf(tf[t]) \in Context
        BY <1>2, Zenon DEF from_tf, Context
      <3> QED BY <1>1, <3>1, <3>2, Zenon DEF Frame, FrameType
    <2>2. d \in Context
      <3>1. action.handler \in Int /\ sig \in Int
        BY SignalType
      <3>2. sp \in Int
        BY <1>3 DEF sig_sp, AltTop, FrameSize
      <3> HIDE DEF action, sp
      <3> QED BY <1>2, <3>1, <3>2, HandlerContext, Zenon
    <2>3. /\ f.signo = sig /\ f.sp = sp /\ f.sig_mask = sig_mask[t]
          /\ f.context = from_tf(tf[t])
      <3> HIDE DEF sp, action
      <3> QED BY FrameFields DEF f, sp
    <2>4. d = set_signal_handler(tf[t], f.sp, Dispositions[f.signo], f.signo)
      <3> HIDE DEF sp, f
      <3> QED BY <2>3, Zenon
    <2>5. MaskAfter(f) = sig_mask'[t]
      <3> HIDE DEF f
      <3> QED BY <1>7, <2>3, Zenon DEF MaskAfter
    <2>6. /\ frames'[t] = Append(frames[t], f) /\ tf'[t] = d
          /\ \A u \in Thread \ {t} : frames'[u] = frames[u] /\ tf'[u] = tf[u]
      <3> HIDE DEF f, sp, action
      <3> QED BY <1>1, <1>8, Zenon DEF d
    <2>7. /\ Linked(Append(frames[t], f)) /\ InForce(Append(frames[t], f), d)
          /\ Masked(Append(frames[t], f), MaskAfter(f))
          /\ Stacked(Append(frames[t], f), d, alt_flags'[t])
      <3> HIDE DEF f, sp, action, d
      <3>1. PICK alt \in BOOLEAN : alt <=> OnAltStack(t, action)
        BY Zenon
      <3> QED BY <1>2, <1>4, <1>6, <2>1, <2>2, <2>3, <2>4, <2>5, <3>1, PushFrame, Zenon
    <2> HIDE DEF f, sp, action, d
    <2> QED BY <1>4, <1>6, <1>7, <1>8, <2>5, <2>6, <2>7, Zenon DEF Unwinding
  <1>9. CASE halted' = TRUE /\ UNCHANGED <<frames, tf>>
    <2>1. Stacked(frames[t], tf[t], alt_flags'[t])
      BY <1>4, <1>6, Zenon DEF Stacked
    <2> HIDE DEF f, sp, action, d
    <2> QED BY <1>4, <1>6, <1>7, <1>9, <2>1, Zenon DEF Unwinding
  <1> QED BY <1>8, <1>9, Zenon DEF EnterHandler
(* Every step keeps the frames in order. *)
LEMMA UnwindNext ==
  ASSUME TypeOK, Unwinding, [Next]_vars
  PROVE  Unwinding'
  <1>0. tf \in [Thread -> Context]
    BY Zenon DEF TypeOK
  <1>1. ASSUME UNCHANGED <<stacks, halted>>,
               \A u \in Thread : \/ tf'[u] = tf[u]
                                 \/ \E res \in {0, EINTR} : tf'[u] = [tf[u] EXCEPT !.x0 = res]
        PROVE  Unwinding'
    <2>1. ASSUME NEW u \in Thread
          PROVE  /\ ProgramRuns(tf[u]) => ProgramRuns(tf'[u])
                 /\ \A f : HandlerRuns(f, tf[u]) => HandlerRuns(f, tf'[u])
                 /\ tf'[u].sp = tf[u].sp
      <3>1. tf[u] \in Context
        BY <1>0, Zenon
      <3>2. CASE tf'[u] = tf[u]
        BY <3>2, Zenon
      <3>3. CASE \E res \in {0, EINTR} : tf'[u] = [tf[u] EXCEPT !.x0 = res]
        BY <3>1, <3>3, ResultRuns, Zenon
      <3> QED BY <1>1, <3>2, <3>3, Zenon
    <2>2. ASSUME NEW u \in Thread
          PROVE  /\ InForce(frames[u], tf[u]) => InForce(frames[u], tf'[u])
                 /\ Stacked(frames[u], tf[u], alt_flags[u])
                      => Stacked(frames[u], tf'[u], alt_flags[u])
      BY <2>1, Zenon DEF InForce, Stacked
    <2> QED BY <1>1, <2>2, Zenon DEF Unwinding, stacks
  <1>2. ASSUME NEW t \in Thread, UNCHANGED <<stacks, halted>>,
               (\E res \in {0, EINTR} : Return(t, res)) \/ \E dl, dur : Block(t, dl, dur)
        PROVE  Unwinding'
    <2>1. tf' = tf \/ \E res \in {0, EINTR} : tf' = [tf EXCEPT ![t].x0 = res]
      BY <1>2, Zenon DEF Return, Block
    <2>2. ASSUME NEW res \in {0, EINTR}, tf' = [tf EXCEPT ![t].x0 = res], NEW u \in Thread
          PROVE  tf'[u] = tf[u] \/ tf'[u] = [tf[u] EXCEPT !.x0 = res]
      BY <1>0, <2>2, Zenon
    <2> QED BY <1>1, <1>2, <2>1, <2>2, Zenon
  <1>3. ASSUME NEW t \in Thread, Deliver(t) PROVE Unwinding'
    <2>1. PICK i \in 1..Len(sig_queue) : Taking(t, i)
      BY <1>3, DeliverTakes, Zenon
    <2>2. sig_queue[i].signo \in Signal
      <3>1. sig_queue \in Seq([signo : Signal, tid : Thread \cup {AnyThread}])
        BY Zenon DEF TypeOK
      <3>2. sig_queue[i] \in [signo : Signal, tid : Thread \cup {AnyThread}]
        BY <3>1, ElementOf, Zenon
      <3> QED BY <3>2, Zenon
    <2>3. bit(sig_queue[i].signo) \notin sig_mask[t] /\ ~halted
      BY <1>3, <2>1, Zenon DEF Taking, Deliverable, Deliver
    <2>4. CASE TakeDefault(t, sig_queue[i].signo)
      BY <1>1, <2>4, Zenon DEF TakeDefault
    <2>5. CASE EnterHandler(t, sig_queue[i].signo, Dispositions[sig_queue[i].signo])
      BY <2>2, <2>3, <2>5, EnterUnwinds, Zenon
    <2>6. CASE TakeError(t, sig_queue[i].signo)
      BY <2>6, Zenon DEF TakeError, Unwinding, stacks
    <2> QED BY <2>1, <2>4, <2>5, <2>6, Zenon DEF Taking
  <1>4. CASE Tick \/ TimerInterrupt \/ UNCHANGED vars
    <2>1. UNCHANGED <<stacks, halted, tf>>
      BY <1>4, Zenon DEF Tick, TimerInterrupt, vars
    <2> QED BY <1>1, <2>1, Zenon
  <1>5. ASSUME NEW r \in Request, Send(r.signo, r.tid) PROVE Unwinding'
    <2>1. UNCHANGED <<stacks, halted, tf>>
      BY <1>5, Zenon DEF Send
    <2> QED BY <1>1, <2>1, Zenon
  <1>6. ASSUME NEW t \in Thread, Trap(t) PROVE Unwinding'
    <2>1. UNCHANGED <<stacks, halted, tf>>
      BY <1>6, Zenon DEF Trap
    <2> QED BY <1>1, <2>1, Zenon
  <1>7. ASSUME NEW t \in Thread, (\E d \in Duration[t] : Nanosleep(t, d)) \/ Resume(t)
        PROVE  Unwinding'
    BY <1>2, <1>7, Zenon DEF Nanosleep, Resume, Finish
  <1> QED BY <1>3, <1>4, <1>5, <1>6, <1>7, Zenon DEF Next

(* Such frames can be undone one by one. *)
LEMMA UnwindingUnwinds ==
  ASSUME Unwinding
  PROVE  FramesUnwind
  <1> SUFFICES ASSUME NEW t \in Thread
               PROVE  LET fs == frames[t]
                          n == Len(fs)
                      IN  /\ n = 0 => ProgramRuns(tf[t])
                          /\ n > 0 => Oldest(fs[1]) /\ HandlerRuns(fs[n], tf[t])
                          /\ \A k \in 1..(n - 1) : Leads(fs[k], fs[k + 1])
                          /\ n > 0 /\ ~halted => sig_mask[t] = MaskAfter(fs[n])
                          /\ \A j, k \in 1..n : j # k => Apart(fs[j], fs[k])
    BY Zenon DEF FramesUnwind, Oldest, Leads, MaskAfter, Apart
  <1>1. /\ Linked(frames[t]) /\ InForce(frames[t], tf[t])
        /\ ~halted => Masked(frames[t], sig_mask[t])
    BY Zenon DEF Unwinding
  <1> QED BY <1>1, Zenon DEF Linked, InForce, Masked

(* The frames that handle_signal leaves on the stacks can be undone one by *)
(* one, each giving back the mask and every register but x11, whatever     *)
(* signals there are, however their handlers mask each other and whichever *)
(* of them run on the alternate stack.                                     *)
THEOREM FramesKept == Safety => []FramesUnwind
  <1>1. Init => Unwinding
    <2> SUFFICES ASSUME Init, NEW t \in Thread
                 PROVE  /\ Linked(<<>>) /\ InForce(<<>>, UserContext)
                        /\ Masked(<<>>, {}) /\ Stacked(<<>>, UserContext, AltStack[t])
      BY Zenon DEF Init, Unwinding
    <2> QED BY DEF Linked, InForce, Masked, Stacked, ProgramRuns, UserContext
  <1>2. SleepInv /\ Unwinding /\ [Next]_vars => Unwinding'
    BY UnwindNext, Zenon DEF SleepInv
  <1>3. Unwinding => FramesUnwind
    BY UnwindingUnwinds, Zenon
  <1> QED BY <1>1, <1>2, <1>3, SleepersArmed, PTL DEF Safety
=============================================================================
