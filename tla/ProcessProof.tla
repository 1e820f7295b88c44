---------------------------- MODULE ProcessProof ----------------------------
(***************************************************************************)
(* Proofs about Process, for every number of processes, threads and tids.  *)
(* The inductive invariant adds to the checked properties that a thread in *)
(* THREADS has been made and is there under its own tid (InTable), and     *)
(* that the process of a thread has a pid and is not its own parent (Made).*)
(***************************************************************************)
EXTENDS Process, TLAPS

InTable ==
  \A i \in Tids : THREADS[i] # NoThread =>
    state[THREADS[i]] # "none" /\ tid[THREADS[i]] = i

Made ==
  /\ \A t \in Thread : state[t] # "none" => pid[process[t]] # 0
  /\ \A p \in Proc : parent[p] # p

IInv == TypeOK /\ Made /\ InTable /\ ThreadsListed /\ NoMissedEvent

Waker(t) == [waker |-> t, mask |-> CHILD_PROCESS_QUIT]
Callback == [waker : Thread, mask : {CHILD_PROCESS_QUIT}]
Bus == [event : SUBSET {"PROCESS_QUIT", "CHILD_PROCESS_QUIT"}, callbacks : SUBSET Callback]

(* What change and subscribe do to a bus of wait4 callbacks. *)
LEMMA ChangeSet ==
  ASSUME NEW b \in Bus, NEW s \in {PROCESS_QUIT, CHILD_PROCESS_QUIT},
         CHILD_PROCESS_QUIT \subseteq b.event => b.callbacks = {}
  PROVE  /\ EB!change(b, {}, s) \in Bus
         /\ EB!change(b, {}, s).event = b.event \cup s
         /\ \A t \in Thread : Waker(t) \in EB!change(b, {}, s).callbacks <=>
              Waker(t) \in b.callbacks /\ t \notin EB!wakes(b, {}, s)
         /\ CHILD_PROCESS_QUIT \subseteq b.event \cup s => EB!change(b, {}, s).callbacks = {}
  <1> USE DEF Bus, Callback
  <1>1. EB!Changed(b, {}, s) = b.event \cup s
    BY Zenon DEF EB!Changed
  <1>2. EB!change(b, {}, s) =
          [event |-> b.event \cup s, callbacks |-> b.callbacks \ EB!Fired(b, {}, s)]
    BY <1>1, Zenon DEF EB!change
  <1>3. EB!Fired(b, {}, s) =
          {c \in b.callbacks : b.event \cup s # b.event /\ c.mask \cap (b.event \cup s) # {}}
    <2>1. \A c \in b.callbacks : \A e : c.mask \cap (e \cup EB!EveryEvent) = c.mask \cap e
      BY Zenon DEF CHILD_PROCESS_QUIT, EB!EveryEvent
    <2> QED BY <1>1, <2>1, Zenon DEF EB!Fired
  <1>4. b.event \cup s \subseteq {"PROCESS_QUIT", "CHILD_PROCESS_QUIT"}
    BY Zenon DEF PROCESS_QUIT, CHILD_PROCESS_QUIT
  <1>5. EB!change(b, {}, s) \in Bus
    BY <1>2, <1>4
  <1>6. \A t \in Thread : Waker(t) \in EB!Fired(b, {}, s) <=>
          Waker(t) \in b.callbacks /\ t \in EB!wakes(b, {}, s)
    <2> SUFFICES ASSUME NEW t \in Thread
                 PROVE  Waker(t) \in EB!Fired(b, {}, s) <=>
                          Waker(t) \in b.callbacks /\ t \in EB!wakes(b, {}, s)
      BY Zenon
    <2>1. \A c \in b.callbacks : c = Waker(c.waker)
      BY DEF Waker
    <2>2. Waker(t).waker = t
      BY Zenon DEF Waker
    <2> QED BY <1>3, <2>1, <2>2, Zenon DEF EB!wakes
  <1>7. ASSUME CHILD_PROCESS_QUIT \subseteq b.event \cup s
        PROVE  EB!change(b, {}, s).callbacks = {}
    <2>1. CASE CHILD_PROCESS_QUIT \subseteq b.event
      BY <1>2, <2>1
    <2>2. CASE ~(CHILD_PROCESS_QUIT \subseteq b.event)
      <3>1. b.event \cup s # b.event /\ "CHILD_PROCESS_QUIT" \in b.event \cup s
        BY <1>7, <2>2, Zenon DEF CHILD_PROCESS_QUIT
      <3>2. \A c \in b.callbacks : c.mask = {"CHILD_PROCESS_QUIT"}
        BY Zenon DEF CHILD_PROCESS_QUIT
      <3>3. EB!Fired(b, {}, s) = b.callbacks
        BY <1>3, <3>1, <3>2, Zenon
      <3> QED BY <1>2, <3>3
    <2> QED BY <2>1, <2>2, Zenon
  <1>8. EB!change(b, {}, s).event = b.event \cup s
    BY <1>2
  <1>9. \A t \in Thread : Waker(t) \in EB!change(b, {}, s).callbacks <=>
          Waker(t) \in b.callbacks /\ t \notin EB!wakes(b, {}, s)
    BY <1>2, <1>6
  <1> QED BY <1>5, <1>7, <1>8, <1>9, Zenon

(* Clearing CHILD_PROCESS_QUIT calls no waker and drops no callback. *)
LEMMA ChangeClear ==
  ASSUME NEW b \in Bus
  PROVE  /\ EB!change(b, CHILD_PROCESS_QUIT, {}) \in Bus
         /\ EB!change(b, CHILD_PROCESS_QUIT, {}).callbacks = b.callbacks
         /\ ~(CHILD_PROCESS_QUIT \subseteq EB!change(b, CHILD_PROCESS_QUIT, {}).event)
  <1>1. EB!Changed(b, CHILD_PROCESS_QUIT, {}) = b.event \ CHILD_PROCESS_QUIT
    BY Zenon DEF EB!Changed
  <1>2. EB!Fired(b, CHILD_PROCESS_QUIT, {}) = {}
    <2>1. \A c \in b.callbacks :
            c.mask \cap ((b.event \ CHILD_PROCESS_QUIT) \cup EB!EveryEvent) = {}
      BY Zenon DEF Bus, Callback, CHILD_PROCESS_QUIT, EB!EveryEvent
    <2> QED BY <1>1, <2>1, Zenon DEF EB!Fired
  <1>3. EB!change(b, CHILD_PROCESS_QUIT, {}) =
          [event |-> b.event \ CHILD_PROCESS_QUIT, callbacks |-> b.callbacks]
    BY <1>1, <1>2, Zenon DEF EB!change
  <1> QED BY <1>3 DEF Bus, CHILD_PROCESS_QUIT

(* Subscribing adds one callback. *)
LEMMA Subscribe ==
  ASSUME NEW b \in Bus, NEW t \in Thread
  PROVE  /\ EB!subscribe(b, t, CHILD_PROCESS_QUIT) \in Bus
         /\ EB!subscribe(b, t, CHILD_PROCESS_QUIT).event = b.event
         /\ EB!subscribe(b, t, CHILD_PROCESS_QUIT).callbacks = b.callbacks \cup {Waker(t)}
  BY DEF EB!subscribe, Bus, Callback, Waker
-----------------------------------------------------------------------------
(* The invariant holds after new_user. *)
LEMMA InitIInv == Init => IInv
  <1> SUFFICES ASSUME Init PROVE IInv
    BY Zenon
  <1> USE ProcessAssumption DEF Init, Tids
  <1>1. TypeOK
    <2>1. bus \in [Proc -> Bus]
      BY Zenon DEF EB!new, Bus
    <2>2. THREADS \in [Tids -> Thread \cup {NoThread}] /\ PROCESSES \in [Tids -> Proc \cup {NoProc}]
      BY Zenon
    <2>3. /\ process \in [Thread -> Proc \cup {NoProc}]
          /\ parent \in [Proc -> Proc \cup {NoProc}]
      BY Zenon
    <2>4. 1 \in Tids
      OBVIOUS
    <2>5. tid \in [Thread -> Tids \cup {0}] /\ pid \in [Proc -> Tids \cup {0}]
      BY <2>4, Zenon
    <2>6. \A t \in Thread : state[t] # "none" => process[t] \in Proc /\ tid[t] \in Tids
      BY <2>4, Zenon
    <2>7. target \in [Thread -> Target] /\ exit_code \in [Proc -> Code \cup {0}]
      BY Zenon DEF Target, AnyChild
    <2>8. /\ state \in [Thread -> {"none", "user", "asleep", "woken", "done"}]
          /\ children \in [Proc -> SUBSET Proc]
          /\ threads \in [Proc -> SUBSET Tids]
      BY Zenon
    <2> QED BY <2>1, <2>2, <2>3, <2>5, <2>6, <2>7, <2>8, Zenon DEF TypeOK, Bus, Callback
  <1>2. InTable
    BY Zenon DEF InTable
  <1>3. ThreadsListed
    BY Zenon DEF ThreadsListed
  <1>4. NoMissedEvent
    BY Zenon DEF NoMissedEvent, EB!new
  <1>5. Made
    BY DEF Made
  <1> QED BY <1>1, <1>2, <1>3, <1>4, <1>5, Zenon DEF IInv

(* fork adds a thread under a free tid. *)
LEMMA ForkIInv ==
  ASSUME IInv, NEW t \in Thread, Fork(t)
  PROVE  IInv'
  <1> USE ProcessAssumption
  <1>t0. TypeOK
    BY Zenon DEF IInv
  <1>m1. Made
    BY Zenon DEF IInv
  <1>i2. InTable
    BY Zenon DEF IInv
  <1>t3. ThreadsListed
    BY Zenon DEF IInv
  <1>n4. NoMissedEvent
    BY Zenon DEF IInv
  <1>0. PICK c \in Proc, u \in Thread, i \in Tids :
          /\ Trap(t)
          /\ pid[c] = 0 /\ state[u] = "none"
          /\ free_tid(i)
          /\ THREADS' = [THREADS EXCEPT ![i] = u]
          /\ PROCESSES' = [PROCESSES EXCEPT ![i] = c]
          /\ process' = [process EXCEPT ![u] = c]
          /\ tid' = [tid EXCEPT ![u] = i]
          /\ state' = [state EXCEPT ![u] = "user"]
          /\ pid' = [pid EXCEPT ![c] = i]
          /\ parent' = [parent EXCEPT ![c] = process[t]]
          /\ threads' = [threads EXCEPT ![c] = {i}]
          /\ children' = [children EXCEPT ![process[t]] = @ \cup {c}]
          /\ UNCHANGED <<target, exit_code, bus, hung>>
    BY Zenon DEF Fork
  <1>1. /\ state[t] = "user" /\ state[u] = "none" /\ THREADS[i] = NoThread
        /\ THREADS' = [THREADS EXCEPT ![i] = u]
        /\ PROCESSES' = [PROCESSES EXCEPT ![i] = c]
        /\ process' = [process EXCEPT ![u] = c]
        /\ tid' = [tid EXCEPT ![u] = i]
        /\ state' = [state EXCEPT ![u] = "user"]
        /\ pid' = [pid EXCEPT ![c] = i]
        /\ parent' = [parent EXCEPT ![c] = process[t]]
        /\ threads' = [threads EXCEPT ![c] = {i}]
        /\ children' = [children EXCEPT ![process[t]] = @ \cup {c}]
        /\ UNCHANGED <<target, exit_code, bus, hung>>
    BY <1>0, Zenon DEF Trap, free_tid
  <1>2. TypeOK'
    <2>1. process[t] \in Proc
      BY <1>t0, <1>1, Zenon DEF TypeOK
    <2>2. threads' \in [Proc -> SUBSET Tids] /\ children' \in [Proc -> SUBSET Proc]
      BY <1>t0, <1>1, <2>1 DEF TypeOK
    <2>3. \A v \in Thread : state'[v] # "none" => process'[v] \in Proc /\ tid'[v] \in Tids
      BY <1>t0, <1>1, Zenon DEF TypeOK
    <2> QED BY <1>t0, <1>1, <2>1, <2>2, <2>3, Zenon DEF TypeOK
  <1>3. \A j \in Tids : THREADS[j] # u
    BY <1>i2, <1>1, Zenon DEF InTable
  <1>4. InTable'
    BY <1>t0, <1>i2, <1>1, <1>3 DEF InTable, TypeOK
  <1>5. ThreadsListed'
    BY <1>t0, <1>t3, <1>1, <1>3 DEF ThreadsListed, TypeOK
  <1>6. NoMissedEvent'
    <2>1. \A v \in Thread : /\ state'[v] = "asleep" <=> state[v] = "asleep"
                            /\ state[v] = "asleep" => process'[v] = process[v]
      BY <1>t0, <1>1, Zenon DEF TypeOK
    <2> QED BY <1>n4, <1>1, <2>1 DEF NoMissedEvent
  <1>7. Made'
    <2>1. process[t] # c /\ i # 0
      BY <1>m1, <1>0, <1>1 DEF Made, Tids
    <2> QED BY <1>t0, <1>m1, <1>1, <2>1, Zenon DEF Made, TypeOK
  <1> QED BY <1>2, <1>4, <1>5, <1>6, <1>7, Zenon DEF IInv

(* clone adds a thread to the process of the caller. *)
LEMMA CloneIInv ==
  ASSUME IInv, NEW t \in Thread, Clone(t)
  PROVE  IInv'
  <1> USE ProcessAssumption
  <1>t0. TypeOK
    BY Zenon DEF IInv
  <1>m1. Made
    BY Zenon DEF IInv
  <1>i2. InTable
    BY Zenon DEF IInv
  <1>t3. ThreadsListed
    BY Zenon DEF IInv
  <1>n4. NoMissedEvent
    BY Zenon DEF IInv
  <1>1. PICK u \in Thread, i \in Tids :
          /\ state[t] = "user" /\ state[u] = "none" /\ THREADS[i] = NoThread
          /\ THREADS' = [THREADS EXCEPT ![i] = u]
          /\ process' = [process EXCEPT ![u] = process[t]]
          /\ tid' = [tid EXCEPT ![u] = i]
          /\ state' = [state EXCEPT ![u] = "user"]
          /\ threads' = [threads EXCEPT ![process[t]] = @ \cup {i}]
          /\ UNCHANGED <<PROCESSES, target, pid, parent, children, exit_code, bus, hung>>
    BY Zenon DEF Clone, Trap, free_tid
  <1>2. process[t] \in Proc
    BY <1>t0, <1>1, Zenon DEF TypeOK
  <1>3. TypeOK'
    <2>2. threads' \in [Proc -> SUBSET Tids]
      BY <1>t0, <1>1, <1>2, Zenon DEF TypeOK
    <2>3. \A v \in Thread : state'[v] # "none" => process'[v] \in Proc /\ tid'[v] \in Tids
      BY <1>t0, <1>1, <1>2, Zenon DEF TypeOK
    <2> QED BY <1>t0, <1>1, <1>2, <2>2, <2>3, Zenon DEF TypeOK
  <1>4. \A j \in Tids : THREADS[j] # u
    BY <1>i2, <1>1, Zenon DEF InTable
  <1>5. InTable'
    BY <1>t0, <1>i2, <1>1, <1>4 DEF InTable, TypeOK
  <1>6. ThreadsListed'
    BY <1>t0, <1>t3, <1>1, <1>2, <1>4 DEF ThreadsListed, TypeOK
  <1>7. NoMissedEvent'
    <2>1. \A v \in Thread : /\ state'[v] = "asleep" <=> state[v] = "asleep"
                            /\ state[v] = "asleep" => process'[v] = process[v]
      BY <1>t0, <1>1, Zenon DEF TypeOK
    <2> QED BY <1>n4, <1>1, <2>1 DEF NoMissedEvent
  <1>8. Made'
    BY <1>t0, <1>m1, <1>1, <1>2, Zenon DEF Made, TypeOK
  <1> QED BY <1>3, <1>5, <1>6, <1>7, <1>8, Zenon DEF IInv

(* Process::exit, called for the thread list own of process[t].            *)
LEMMA ExitProcessIInv ==
  ASSUME IInv, NEW t \in Thread, state[t] = "user", NEW own \in SUBSET threads[process[t]],
         NEW code \in Code, exit(process[t], t, own, code),
         UNCHANGED <<PROCESSES, process, tid, target, pid, parent, children, hung>>
  PROVE  IInv'
  <1> USE ProcessAssumption
  <1>t0. TypeOK
    BY Zenon DEF IInv
  <1>m1. Made
    BY Zenon DEF IInv
  <1>i2. InTable
    BY Zenon DEF IInv
  <1>t3. ThreadsListed
    BY Zenon DEF IInv
  <1>n4. NoMissedEvent
    BY Zenon DEF IInv
  <1> DEFINE p == process[t]
             q == parent[p]
             tell == q # NoProc /\ upgrade(q)
             woken == EB!wakes(bus[p], {}, PROCESS_QUIT) \cup
                      IF tell THEN EB!wakes(bus[q], {}, CHILD_PROCESS_QUIT) ELSE {}
  <1>1. /\ bus' = [r \in Proc |->
                     IF r = p THEN EB!change(bus[r], {}, PROCESS_QUIT)
                     ELSE IF tell /\ r = q THEN EB!change(bus[r], {}, CHILD_PROCESS_QUIT)
                     ELSE bus[r]]
        /\ state' = [u \in Thread |->
                       IF u = t THEN "done"
                       ELSE IF u \in woken /\ state[u] = "asleep" THEN "woken"
                       ELSE state[u]]
        /\ exit_code' = [exit_code EXCEPT ![p] = code]
        /\ THREADS' = [i \in Tids |-> IF i \in own THEN NoThread ELSE THREADS[i]]
        /\ threads' = [threads EXCEPT ![p] = {}]
    BY Zenon DEF exit
  <1>2. p \in Proc /\ q \in Proc \cup {NoProc}
    BY <1>t0, Zenon DEF TypeOK
  <1>3. bus \in [Proc -> Bus]
    BY <1>t0, Zenon DEF TypeOK, Bus, Callback
  <1>4. \A r \in Proc : CHILD_PROCESS_QUIT \subseteq bus[r].event => bus[r].callbacks = {}
    BY <1>n4, Zenon DEF NoMissedEvent
  <1>5. \A r \in Proc, s \in {PROCESS_QUIT, CHILD_PROCESS_QUIT} :
          /\ EB!change(bus[r], {}, s) \in Bus
          /\ EB!change(bus[r], {}, s).event = bus[r].event \cup s
          /\ \A u \in Thread : Waker(u) \in EB!change(bus[r], {}, s).callbacks <=>
               Waker(u) \in bus[r].callbacks /\ u \notin EB!wakes(bus[r], {}, s)
          /\ CHILD_PROCESS_QUIT \subseteq bus[r].event \cup s =>
               EB!change(bus[r], {}, s).callbacks = {}
    BY <1>3, <1>4, ChangeSet
  <1>6. TypeOK'
    <2>1. bus' \in [Proc -> Bus]
      BY <1>1, <1>3, <1>5, Zenon
    <2>2. state' \in [Thread -> {"none", "user", "asleep", "woken", "done"}]
      BY <1>t0, <1>1, Zenon DEF TypeOK
    <2>3. \A v \in Thread : state'[v] # "none" => process'[v] \in Proc /\ tid'[v] \in Tids
      BY <1>t0, <1>1, Zenon DEF TypeOK
    <2>4. exit_code' \in [Proc -> Code \cup {0}]
      BY <1>t0, <1>1, <1>2, Zenon DEF TypeOK
    <2>5. THREADS' \in [Tids -> Thread \cup {NoThread}] /\ threads' \in [Proc -> SUBSET Tids]
      BY <1>t0, <1>1, <1>2, Zenon DEF TypeOK
    <2> QED BY <1>t0, <2>1, <2>2, <2>3, <2>4, <2>5, Zenon DEF TypeOK, Bus, Callback
  <1>7. InTable'
    BY <1>t0, <1>i2, <1>1, SMTT(30), Zenon DEF InTable, TypeOK
  <1>8. ThreadsListed'
    BY <1>t0, <1>t3, <1>1, <1>2, SMTT(30), Zenon DEF ThreadsListed, TypeOK
  <1>9. NoMissedEvent'
    <2>1. \A r \in Proc : CHILD_PROCESS_QUIT \subseteq bus'[r].event => bus'[r].callbacks = {}
      BY <1>1, <1>4, <1>5, Zenon
    <2>2. ASSUME NEW u \in Thread, NEW r \in Proc
          PROVE  (state'[u] = "asleep" /\ process[u] = r) <=> Waker(u) \in bus'[r].callbacks
      <3>1. \A v \in Thread, o \in Proc :
              (state[v] = "asleep" /\ process[v] = o) <=> Waker(v) \in bus[o].callbacks
        BY <1>n4, Zenon DEF NoMissedEvent, Waker
      <3>2. \A o \in Proc, m \in {PROCESS_QUIT, CHILD_PROCESS_QUIT} :
              u \in EB!wakes(bus[o], {}, m) => state[u] = "asleep" /\ process[u] = o
        <4> SUFFICES ASSUME NEW o \in Proc, NEW m \in {PROCESS_QUIT, CHILD_PROCESS_QUIT},
                            u \in EB!wakes(bus[o], {}, m)
                     PROVE  state[u] = "asleep" /\ process[u] = o
          BY Zenon
        <4>1. PICK c \in bus[o].callbacks : c.waker = u
          BY Zenon DEF EB!wakes, EB!Fired
        <4>2. c = Waker(u)
          BY <1>3, <4>1, SMTT(30), Zenon DEF Bus, Callback, Waker
        <4> QED BY <3>1, <4>1, <4>2
      <3>3. u # t => (state'[u] = "asleep" <=> state[u] = "asleep" /\ u \notin woken)
        BY <1>1, Zenon
      <3>4. state'[t] # "asleep" /\ state[t] # "asleep"
        BY <1>1, Zenon
      <3>5. CASE r = p
        <4>1. bus'[r] = EB!change(bus[p], {}, PROCESS_QUIT)
          BY <1>1, <1>2, <3>5, Zenon
        <4>2. Waker(u) \in bus'[r].callbacks <=>
                state[u] = "asleep" /\ process[u] = p /\ u \notin EB!wakes(bus[p], {}, PROCESS_QUIT)
          BY <1>2, <1>5, <3>1, <4>1, Zenon
        <4>3. tell /\ process[u] = p => u \notin EB!wakes(bus[q], {}, CHILD_PROCESS_QUIT)
          BY <1>m1, <1>2, <3>2, Zenon DEF Made
        <4> QED BY <3>3, <3>4, <3>5, <4>2, <4>3, Zenon
      <3>6. CASE r # p /\ tell /\ r = q
        <4>1. bus'[r] = EB!change(bus[q], {}, CHILD_PROCESS_QUIT)
          BY <1>1, <3>6, Zenon
        <4>2. Waker(u) \in bus'[r].callbacks <=>
                state[u] = "asleep" /\ process[u] = r
                /\ u \notin EB!wakes(bus[q], {}, CHILD_PROCESS_QUIT)
          BY <1>5, <3>1, <3>6, <4>1, Zenon
        <4>3. process[u] = r => u \notin EB!wakes(bus[p], {}, PROCESS_QUIT)
          BY <1>2, <3>2, <3>6, Zenon
        <4> QED BY <3>3, <3>4, <3>6, <4>2, <4>3, Zenon
      <3>7. CASE r # p /\ ~(tell /\ r = q)
        <4>1. bus'[r] = bus[r]
          BY <1>1, <3>7, Zenon
        <4>2. process[u] = r => u \notin woken
          BY <1>2, <3>2, <3>7, Zenon
        <4> QED BY <3>1, <3>3, <3>4, <4>1, <4>2, Zenon
      <3> QED BY <3>5, <3>6, <3>7, Zenon
    <2> QED BY <1>n4, <2>1, <2>2, ZenonT(30), Zenon DEF NoMissedEvent, Waker
  <1>10. Made'
    BY <1>m1, <1>1, Zenon DEF Made
  <1> QED BY <1>6, <1>7, <1>8, <1>9, <1>10, Zenon DEF IInv

(* sys_exit and sys_exit_group. *)
LEMMA ExitIInv ==
  ASSUME IInv, NEW t \in Thread, Exit(t) \/ ExitGroup(t)
  PROVE  IInv'
  <1> USE ProcessAssumption
  <1>1. state[t] = "user"
    BY Zenon DEF Exit, ExitGroup, Trap
  <1>2. UNCHANGED <<PROCESSES, process, tid, target, pid, parent, children, hung>>
    BY Zenon DEF Exit, ExitGroup
  <1>3. ASSUME NEW own \in SUBSET threads[process[t]], NEW code \in Code,
               exit(process[t], t, own, code)
        PROVE  IInv'
    BY <1>1, <1>2, <1>3, ExitProcessIInv, Zenon
  <1>4. CASE ExitGroup(t)
    BY <1>3, <1>4, Zenon DEF ExitGroup
  <1>5. CASE Exit(t) /\ threads[process[t]] \ {tid[t]} = {}
    BY <1>3, <1>5, Zenon DEF Exit
  <1>6. CASE Exit(t) /\ threads[process[t]] \ {tid[t]} # {}
    <2> USE DEF IInv
    <2>1. /\ threads' = [threads EXCEPT ![process[t]] = threads[process[t]] \ {tid[t]}]
          /\ state' = [state EXCEPT ![t] = "done"]
          /\ UNCHANGED <<THREADS, exit_code, bus>>
      BY <1>6, Zenon DEF Exit
    <2>2. process[t] \in Proc
      BY <1>1, Zenon DEF TypeOK
    <2>3. threads' \in [Proc -> SUBSET Tids]
      BY <2>1, <2>2, Zenon DEF TypeOK
    <2>4. TypeOK'
      BY <1>1, <1>2, <2>1, <2>3 DEF TypeOK
    <2>5. InTable' /\ Made'
      BY <1>1, <1>2, <2>1 DEF InTable, Made, TypeOK
    <2>6. ThreadsListed'
      BY <1>2, <2>1, <2>2, SMTT(30), Zenon DEF ThreadsListed, TypeOK
    <2>7. NoMissedEvent'
      <3>1. \A v \in Thread : state'[v] = "asleep" <=> state[v] = "asleep"
        BY <1>1, <2>1, Zenon DEF TypeOK
      <3> QED BY <1>2, <2>1, <3>1 DEF NoMissedEvent
    <2> QED BY <2>4, <2>5, <2>6, <2>7, Zenon
  <1> QED BY <1>4, <1>5, <1>6, Zenon

(* Any step of thread t alone that leaves the threads and the tables of     *)
(* threads as they are, and subscribes t exactly when it falls asleep.      *)
LEMMA WaitStep ==
  ASSUME IInv, NEW t \in Thread, state[t] \in {"user", "woken"},
         UNCHANGED <<THREADS, process, tid, pid, parent, threads, exit_code, hung>>,
         PROCESSES' \in [Tids -> Proc \cup {NoProc}], children' \in [Proc -> SUBSET Proc],
         target' \in [Thread -> Target], NEW b \in Bus,
         bus' = [bus EXCEPT ![process[t]] = b],
         \/ /\ state' = [state EXCEPT ![t] = "user"]
            /\ b.callbacks = bus[process[t]].callbacks
            /\ CHILD_PROCESS_QUIT \subseteq b.event =>
                 CHILD_PROCESS_QUIT \subseteq bus[process[t]].event
         \/ /\ state' = [state EXCEPT ![t] = "asleep"]
            /\ b.callbacks = bus[process[t]].callbacks \cup {Waker(t)}
            /\ ~(CHILD_PROCESS_QUIT \subseteq b.event)
  PROVE  IInv'
  <1> USE ProcessAssumption
  <1>t0. TypeOK
    BY Zenon DEF IInv
  <1>m1. Made
    BY Zenon DEF IInv
  <1>i2. InTable
    BY Zenon DEF IInv
  <1>t3. ThreadsListed
    BY Zenon DEF IInv
  <1>n4. NoMissedEvent
    BY Zenon DEF IInv
  <1>1. process[t] \in Proc
    BY <1>t0, Zenon DEF TypeOK
  <1>2. bus \in [Proc -> Bus] /\ bus' \in [Proc -> Bus]
    BY <1>t0, <1>1, Zenon DEF TypeOK, Bus, Callback
  <1>3. TypeOK'
    <2>1. state' \in [Thread -> {"none", "user", "asleep", "woken", "done"}]
      BY <1>t0 DEF TypeOK
    <2>2. \A v \in Thread : state'[v] # "none" => process'[v] \in Proc /\ tid'[v] \in Tids
      BY <1>t0, Zenon DEF TypeOK
    <2> QED BY <1>t0, <1>2, <2>1, <2>2, Zenon DEF TypeOK, Bus, Callback
  <1>4. InTable' /\ Made'
    BY <1>t0, <1>m1, <1>i2 DEF InTable, Made, TypeOK
  <1>5. ThreadsListed'
    BY <1>t0, <1>t3, Zenon DEF ThreadsListed, TypeOK
  <1>6. \A u \in Thread, r \in Proc :
          (state'[u] = "asleep" /\ process[u] = r) <=> Waker(u) \in bus'[r].callbacks
    <2>1. \A u \in Thread, r \in Proc :
            (state[u] = "asleep" /\ process[u] = r) <=> Waker(u) \in bus[r].callbacks
      BY <1>n4, Zenon DEF NoMissedEvent, Waker
    <2>2. \A u, v \in Thread : Waker(u) = Waker(v) => u = v
      BY Zenon DEF Waker
    <2>3. state[t] # "asleep" /\ \A u \in Thread \ {t} : state'[u] = state[u]
      BY <1>t0, Zenon DEF TypeOK
    <2>4. \A r \in Proc : r # process[t] => bus'[r] = bus[r]
      BY <1>2, Zenon
    <2>5. bus'[process[t]] = b
      BY <1>1, <1>2, Zenon
    <2>6. CASE state' = [state EXCEPT ![t] = "user"]
      <3>1. state'[t] = "user" /\ b.callbacks = bus[process[t]].callbacks
        BY <1>t0, <2>6, Zenon DEF TypeOK
      <3> QED BY <2>1, <2>3, <2>4, <2>5, <3>1
    <2>7. CASE state' = [state EXCEPT ![t] = "asleep"]
      <3>1. state'[t] = "asleep" /\ b.callbacks = bus[process[t]].callbacks \cup {Waker(t)}
        BY <1>t0, <2>7, Zenon DEF TypeOK
      <3> QED BY <2>1, <2>2, <2>3, <2>4, <2>5, <3>1
    <2> QED BY <2>6, <2>7, Zenon
  <1>7. \A r \in Proc : CHILD_PROCESS_QUIT \subseteq bus'[r].event => bus'[r].callbacks = {}
    BY <1>n4, <1>1, <1>2 DEF NoMissedEvent
  <1>8. NoMissedEvent'
    BY <1>n4, <1>6, <1>7, Zenon DEF NoMissedEvent, Waker
  <1> QED BY <1>3, <1>4, <1>5, <1>8, Zenon DEF IInv

(* One turn of the loop of wait4, on the bus as it is or just cleared.      *)
LEMMA WaitTurnIInv ==
  ASSUME IInv, NEW t \in Thread, state[t] \in {"user", "woken"}, NEW tgt \in Target,
         NEW b0 \in Bus, b0.callbacks = bus[process[t]].callbacks,
         CHILD_PROCESS_QUIT \subseteq b0.event => CHILD_PROCESS_QUIT \subseteq bus[process[t]].event,
         WaitTurn(t, tgt, [bus EXCEPT ![process[t]] = b0]),
         UNCHANGED <<THREADS, process, tid, pid, parent, threads, exit_code, hung>>
  PROVE  IInv'
  <1> DEFINE p == process[t]
             bus0 == [bus EXCEPT ![p] = b0]
             b1 == EB!subscribe(EB!change(b0, CHILD_PROCESS_QUIT, {}), t, CHILD_PROCESS_QUIT)
  <1>1. p \in Proc /\ bus \in [Proc -> Bus]
    BY SMTT(30), Zenon DEF IInv, TypeOK, Bus, Callback
  <1>2. CASE /\ Reap(t, tgt) \/ ECHILD(t, tgt)
             /\ bus' = bus0
             /\ state' = [state EXCEPT ![t] = "user"]
             /\ target' = [target EXCEPT ![t] = AnyChild]
    <2>1. target' \in [Thread -> Target]
      BY <1>2, Zenon DEF IInv, TypeOK, Target
    <2>2. PROCESSES' \in [Tids -> Proc \cup {NoProc}] /\ children' \in [Proc -> SUBSET Proc]
      <3>1. CASE Reap(t, tgt)
        <4>1. PICK c :
                /\ PROCESSES' = [PROCESSES EXCEPT ![pid[c]] = NoProc]
                /\ children' = [children EXCEPT ![p] = {d \in children[p] : pid[d] # pid[c]}]
          BY <3>1, ZenonT(30), Zenon DEF Reap
        <4> QED BY <4>1, Zenon DEF IInv, TypeOK
      <3>2. CASE ECHILD(t, tgt)
        BY <3>2, Zenon DEF ECHILD, IInv, TypeOK
      <3> QED BY <1>2, <3>1, <3>2, Zenon
    <2> QED BY <1>2, <2>1, <2>2, WaitStep, Zenon
  <1>3. CASE /\ bus' = [bus0 EXCEPT ![p] =
                  EB!subscribe(EB!change(@, CHILD_PROCESS_QUIT, {}), t, CHILD_PROCESS_QUIT)]
             /\ state' = [state EXCEPT ![t] = "asleep"]
             /\ target' = [target EXCEPT ![t] = tgt]
             /\ UNCHANGED <<PROCESSES, children>>
    <2>1. bus0[p] = b0
      BY <1>1, Zenon
    <2>2. bus' = [bus EXCEPT ![p] = b1]
      BY <1>1, <1>3, <2>1, Zenon
    <2>3. /\ b1 \in Bus /\ b1.callbacks = bus[p].callbacks \cup {Waker(t)}
          /\ ~(CHILD_PROCESS_QUIT \subseteq b1.event)
      BY ChangeClear, Subscribe
    <2>4. target' \in [Thread -> Target]
      BY <1>3, Zenon DEF IInv, TypeOK
    <2>5. PROCESSES' \in [Tids -> Proc \cup {NoProc}] /\ children' \in [Proc -> SUBSET Proc]
      BY <1>3, Zenon DEF IInv, TypeOK
    <2> QED BY <1>3, <2>2, <2>3, <2>4, <2>5, WaitStep, Zenon
  <1> QED BY <1>2, <1>3, Zenon DEF WaitTurn

(* A call of wait4, and a woken thread that polls again. *)
LEMMA WaitIInv ==
  ASSUME IInv, NEW t \in Thread, Wait(t) \/ Resume(t)
  PROVE  IInv'
  <1>1. ASSUME NEW b \in {"user", "woken"}, state[t] = b
        PROVE  process[t] \in Proc /\ bus \in [Proc -> Bus]
    BY <1>1, Zenon DEF IInv, TypeOK, Bus, Callback
  <1>2. CASE Wait(t)
    <2>1. state[t] = "user"
      BY <1>2, Zenon DEF Wait, Trap
    <2>2. PICK tgt \in Target :
            /\ WaitTurn(t, tgt, bus)
            /\ UNCHANGED <<THREADS, process, tid, pid, parent, threads, exit_code, hung>>
      BY <1>2, Zenon DEF Wait
    <2>3. bus = [bus EXCEPT ![process[t]] = bus[process[t]]] /\ bus[process[t]] \in Bus
      BY <1>1, <2>1, Zenon
    <2> QED BY <2>1, <2>2, <2>3, WaitTurnIInv, Zenon
  <1>3. CASE Resume(t)
    <2> DEFINE p == process[t]
               b0 == EB!change(bus[p], CHILD_PROCESS_QUIT, {})
               b1 == EB!subscribe(bus[p], t, CHILD_PROCESS_QUIT)
    <2>1. /\ state[t] = "woken"
          /\ UNCHANGED <<THREADS, process, tid, pid, parent, threads, exit_code, hung>>
      BY <1>3, Zenon DEF Resume
    <2>2. p \in Proc /\ bus[p] \in Bus /\ target[t] \in Target
      BY <1>1, <2>1, Zenon DEF IInv, TypeOK
    <2>3. CASE EB!ready(bus[p], CHILD_PROCESS_QUIT)
      <3>1. WaitTurn(t, target[t], [bus EXCEPT ![p] = b0])
        BY <1>3, <2>3, Zenon DEF Resume
      <3>2. /\ b0 \in Bus /\ b0.callbacks = bus[p].callbacks
            /\ ~(CHILD_PROCESS_QUIT \subseteq b0.event)
        BY <2>2, ChangeClear, Zenon
      <3> QED BY <2>1, <2>2, <3>1, <3>2, WaitTurnIInv, Zenon
    <2>4. CASE ~EB!ready(bus[p], CHILD_PROCESS_QUIT)
      <3>1. /\ bus' = [bus EXCEPT ![p] = b1]
            /\ state' = [state EXCEPT ![t] = "asleep"]
            /\ UNCHANGED <<PROCESSES, children, target>>
        BY <1>3, <2>4, Zenon DEF Resume
      <3>2. /\ b1 \in Bus /\ b1.callbacks = bus[p].callbacks \cup {Waker(t)}
            /\ b1.event = bus[p].event
        BY <2>2, Subscribe, Zenon
      <3>3. ~(CHILD_PROCESS_QUIT \subseteq b1.event)
        BY <2>4, <3>2, Zenon DEF EB!ready, CHILD_PROCESS_QUIT
      <3>4. /\ PROCESSES' \in [Tids -> Proc \cup {NoProc}]
            /\ children' \in [Proc -> SUBSET Proc] /\ target' \in [Thread -> Target]
        BY <3>1, Zenon DEF IInv, TypeOK
      <3> QED BY <2>1, <3>1, <3>2, <3>3, <3>4, WaitStep, Zenon
    <2> QED BY <2>3, <2>4, Zenon
  <1> QED BY <1>2, <1>3, Zenon

(* Every step keeps the invariant. *)
LEMMA NextIInv == IInv /\ [Next]_vars => IInv'
  <1> SUFFICES ASSUME IInv, [Next]_vars PROVE IInv'
    BY SMTT(30), Zenon
  <1>1. ASSUME NEW t \in Thread, WaitHangs(t) \/ WaitPanics(t) PROVE IInv'
    <2>1. /\ UNCHANGED <<tables, procVars, process, tid, state, target>>
          /\ hung' = TRUE
      BY <1>1, Zenon DEF WaitHangs, WaitPanics
    <2> QED
      BY <2>1, SMTT(30)
         DEF tables, procVars, IInv, TypeOK, Made, InTable, ThreadsListed, NoMissedEvent
  <1>2. CASE UNCHANGED vars
    BY <1>2 DEF vars, IInv, TypeOK, Made, InTable, ThreadsListed, NoMissedEvent
  <1> QED BY <1>1, <1>2, ForkIInv, CloneIInv, ExitIInv, WaitIInv, Zenon DEF Next

(* The state of processes and threads is well typed, always. *)
THEOREM TypeCorrect == Spec => []TypeOK
  <1>1. IInv => TypeOK
    BY Zenon DEF IInv
  <1> QED BY <1>1, InitIInv, NextIInv, PTL DEF Spec

(* A tid that a process lists names a thread of that process, and no        *)
(* thread sleeps through CHILD_PROCESS_QUIT, for any number of processes,   *)
(* threads and tids and however their system calls interleave.              *)
THEOREM ProcessSafe == Spec => [](ThreadsListed /\ NoMissedEvent)
  <1>1. IInv => ThreadsListed /\ NoMissedEvent
    BY Zenon DEF IInv
  <1> QED BY <1>1, InitIInv, NextIInv, PTL DEF Spec

(* A tid that a process lists names a thread of that very process, so no    *)
(* two processes list one tid, although add_to_table reuses tids.           *)
THEOREM ListedThreads == Spec => []ThreadsListed
  BY ProcessSafe, PTL
-----------------------------------------------------------------------------
(***************************************************************************)
(* Until a program clones a thread, the process table is complete and      *)
(* wait4 does not sleep on a zombie.  Both rest on Single: a process has   *)
(* one thread, of the same id, which it lists until it exits.  That keeps  *)
(* a pid from being reused while the process runs, and makes the thread    *)
(* the only one to clear the event it was woken by (Family).               *)
(***************************************************************************)
Single ==
  /\ pid[InitProc] # 0
  /\ \A i \in Tids : PROCESSES[i] # NoProc => pid[PROCESSES[i]] = i
  /\ \A t \in Thread : state[t] # "none" => tid[t] = pid[process[t]]
  /\ \A t, u \in Thread :
       state[t] # "none" /\ state[u] # "none" /\ process[t] = process[u] => t = u
  /\ \A p \in Proc : threads[p] \subseteq {pid[p]}
  /\ \A t \in Thread : Running(t) /\ process[t] # InitProc => threads[process[t]] # {}

Family ==
  /\ \A p \in Proc : \A c \in children[p] : parent[c] = p /\ pid[c] # 0 /\ c # InitProc
  /\ \A t \in Thread : state[t] = "woken" => CHILD_PROCESS_QUIT \subseteq bus[process[t]].event

SInv == IInv /\ Single /\ RunningInTable /\ Family /\ NoZombieAsleep

(* TypeOK and Single one fact at a time. *)
LEMMA TypesOf ==
  ASSUME TypeOK
  PROVE  /\ state \in [Thread -> {"none", "user", "asleep", "woken", "done"}]
         /\ PROCESSES \in [Tids -> Proc \cup {NoProc}]
         /\ pid \in [Proc -> Tids \cup {0}]
         /\ threads \in [Proc -> SUBSET Tids]
         /\ parent \in [Proc -> Proc \cup {NoProc}]
         /\ children \in [Proc -> SUBSET Proc]
         /\ target \in [Thread -> Target]
         /\ \A u \in Thread : state[u] # "none" => process[u] \in Proc
  BY Zenon DEF TypeOK

LEMMA SingleFacts ==
  ASSUME Single
  PROVE  /\ pid[InitProc] # 0
         /\ \A i \in Tids : PROCESSES[i] # NoProc => pid[PROCESSES[i]] = i
         /\ \A u \in Thread : state[u] # "none" => tid[u] = pid[process[u]]
         /\ \A u, v \in Thread :
              state[u] # "none" /\ state[v] # "none" /\ process[u] = process[v] => u = v
         /\ \A p \in Proc : threads[p] \subseteq {pid[p]}
         /\ \A u \in Thread : Running(u) /\ process[u] # InitProc => threads[process[u]] # {}
  BY Zenon DEF Single

(* A process that lists a thread lists its pid, under which it is found. *)
LEMMA ListsItsPid ==
  ASSUME TypeOK, Single, RunningInTable, NEW p \in Proc, threads[p] # {}
  PROVE  threads[p] = {pid[p]} /\ pid[p] \in Tids /\ PROCESSES[pid[p]] = p
  <1>1. threads[p] \subseteq Tids
    <2>1. threads \in [Proc -> SUBSET Tids]
      BY TypesOf, Zenon
    <2> QED BY <2>1, Zenon
  <1>2. threads[p] \subseteq {pid[p]}
    BY SingleFacts, Zenon
  <1>3. PROCESSES[pid[p]] = p
    BY Zenon DEF RunningInTable
  <1> QED BY <1>1, <1>2, <1>3, Zenon

(* The invariant holds after new_user. *)
LEMMA InitSInv == Init => SInv
  <1> SUFFICES ASSUME Init PROVE Single /\ RunningInTable /\ Family /\ NoZombieAsleep
    BY InitIInv, Zenon DEF SInv
  <1> USE ProcessAssumption DEF Init, Tids
  <1>1. Single
    BY DEF Single, Running
  <1>2. RunningInTable
    BY Zenon DEF RunningInTable
  <1>3. Family
    BY Zenon DEF Family
  <1>4. NoZombieAsleep
    BY Zenon DEF NoZombieAsleep
  <1> QED BY <1>1, <1>2, <1>3, <1>4, Zenon

(* fork: the id of a running process is in THREADS, so the new process gets *)
(* another, and no thread of the caller's process sleeps.                   *)
LEMMA ForkSInv ==
  ASSUME SInv, NEW t \in Thread, Fork(t)
  PROVE  SInv'
  <1> USE ProcessAssumption
  <1>iv. IInv
    BY Zenon DEF SInv
  <1>t0. TypeOK
    BY <1>iv, Zenon DEF IInv
  <1>t2. ThreadsListed
    BY <1>iv, Zenon DEF IInv
  <1>m4. Made
    BY <1>iv, Zenon DEF IInv
  <1>s5. Single
    BY Zenon DEF SInv
  <1>r6. RunningInTable
    BY Zenon DEF SInv
  <1>f7. Family
    BY Zenon DEF SInv
  <1>n8. NoZombieAsleep
    BY Zenon DEF SInv
  <1>ty. /\ state \in [Thread -> {"none", "user", "asleep", "woken", "done"}]
         /\ PROCESSES \in [Tids -> Proc \cup {NoProc}]
         /\ pid \in [Proc -> Tids \cup {0}]
         /\ threads \in [Proc -> SUBSET Tids]
    BY <1>t0, TypesOf, Zenon
  <1>0. PICK c \in Proc, u \in Thread, i \in Tids :
          /\ Trap(t)
          /\ pid[c] = 0 /\ state[u] = "none"
          /\ free_tid(i)
          /\ THREADS' = [THREADS EXCEPT ![i] = u]
          /\ PROCESSES' = [PROCESSES EXCEPT ![i] = c]
          /\ process' = [process EXCEPT ![u] = c]
          /\ tid' = [tid EXCEPT ![u] = i]
          /\ state' = [state EXCEPT ![u] = "user"]
          /\ pid' = [pid EXCEPT ![c] = i]
          /\ parent' = [parent EXCEPT ![c] = process[t]]
          /\ threads' = [threads EXCEPT ![c] = {i}]
          /\ children' = [children EXCEPT ![process[t]] = @ \cup {c}]
          /\ UNCHANGED <<target, exit_code, bus, hung>>
    BY Zenon DEF Fork
  <1>1. /\ state[t] = "user" /\ THREADS[i] = NoThread /\ process[t] \in Proc /\ i # 0
        /\ c # InitProc /\ \A v \in Thread : state[v] # "none" => process[v] # c
    BY <1>t0, <1>m4, <1>s5, <1>0 DEF Trap, free_tid, TypeOK, Single, Made, Tids
  <1>2. IInv'
    BY <1>iv, ForkIInv, Zenon
  <1>3. \A p \in Proc : threads[p] # {} => pid[p] # i
    BY <1>t0, <1>t2, <1>s5, <1>1 DEF Single, ThreadsListed, TypeOK
  <1>4. Single'
    <2>1. pid'[InitProc] # 0 /\ \A p \in Proc : threads'[p] \subseteq {pid'[p]}
      BY <1>t0, <1>s5, <1>0, <1>1, ZenonT(30) DEF Single, TypeOK
    <2>2. \A j \in Tids : PROCESSES'[j] # NoProc => pid'[PROCESSES'[j]] = j
      BY <1>t0, <1>s5, <1>0, <1>1 DEF Single, TypeOK, Tids
    <2>3. \A v \in Thread : state'[v] # "none" => tid'[v] = pid'[process'[v]]
      BY <1>t0, <1>s5, <1>0, <1>1 DEF Single, TypeOK
    <2>4. \A v, w \in Thread :
            state'[v] # "none" /\ state'[w] # "none" /\ process'[v] = process'[w] => v = w
      BY <1>t0, <1>s5, <1>0, <1>1 DEF Single, TypeOK
    <2>5. \A v \in Thread : Running(v)' /\ process'[v] # InitProc => threads'[process'[v]] # {}
      <3> SUFFICES ASSUME NEW v \in Thread, Running(v)', process'[v] # InitProc
                   PROVE  threads'[process'[v]] # {}
        BY Zenon
      <3>1. CASE v = u
        BY <1>t0, <1>0, <3>1, Zenon DEF TypeOK
      <3>2. CASE v # u
        BY <1>t0, <1>s5, <1>0, <1>1, <3>2, SMTT(30), Zenon DEF Single, TypeOK, Running
      <3> QED BY <3>1, <3>2, Zenon
    <2> QED BY <1>s5, <2>1, <2>2, <2>3, <2>4, <2>5, Zenon DEF Single
  <1>5. RunningInTable'
    BY <1>t0, <1>s5, <1>r6, <1>0, <1>3 DEF RunningInTable, TypeOK, Single
  <1>6. Family'
    <2>1. \A p \in Proc : \A d \in children'[p] : parent'[d] = p /\ pid'[d] # 0 /\ d # InitProc
      BY <1>t0, <1>f7, <1>0, <1>1 DEF Family, TypeOK
    <2>2. \A v \in Thread : state'[v] = "woken" => CHILD_PROCESS_QUIT \subseteq bus'[process'[v]].event
      BY <1>t0, <1>f7, <1>0 DEF Family, TypeOK
    <2> QED BY <1>f7, <2>1, <2>2, Zenon DEF Family
  <1>7. NoZombieAsleep'
    <2> SUFFICES ASSUME NEW v \in Thread, NEW d \in Proc, state'[v] = "asleep",
                        WaitsFor(v, d)', Zombie(d)'
                 PROVE  FALSE
      BY <1>n8, Zenon DEF NoZombieAsleep
    <2>1. v # u /\ v # t /\ state[v] = "asleep" /\ process'[v] = process[v]
      <3>1. state' = [state EXCEPT ![u] = "user"] /\ process' = [process EXCEPT ![u] = c]
        BY <1>0, Zenon
      <3>2. state'[u] = "user" /\ (v # u => state'[v] = state[v])
        BY <1>ty, <3>1, Zenon
      <3>3. v # u /\ v # t /\ state[v] = "asleep"
        BY <1>1, <3>2, Zenon
      <3>4. process \in [Thread -> Proc \cup {NoProc}]
        BY <1>t0, Zenon DEF TypeOK
      <3>5. process'[v] = process[v]
        BY <3>1, <3>3, <3>4, Zenon
      <3> QED BY <3>3, <3>5, Zenon
    <2>2. process[v] # process[t]
      BY <1>s5, <1>1, <2>1, Zenon DEF Single
    <2>3. d \in children[process[v]] /\ d # c
      BY <1>t0, <1>f7, <1>0, <2>1, <2>2 DEF WaitsFor, TypeOK, Family
    <2>4. WaitsFor(v, d)
      BY <1>t0, <1>0, <2>1, <2>3, Zenon DEF WaitsFor, TypeOK
    <2>5. Zombie(d)
      <3>1. pid'[d] = pid[d] /\ threads'[d] = threads[d] /\ pid[d] \in Tids \cup {0}
        BY <1>0, <2>3, <1>ty, Zenon
      <3>2. pid[d] # 0 /\ threads[d] = {} /\ PROCESSES'[pid[d]] = d
        BY <3>1, Zenon DEF Zombie, exited
      <3>3. PROCESSES' = [PROCESSES EXCEPT ![i] = c] /\ PROCESSES \in [Tids -> Proc \cup {NoProc}]
        BY <1>0, <1>ty, Zenon
      <3>4. PROCESSES[pid[d]] = d
        BY <2>3, <3>1, <3>2, <3>3, Zenon
      <3> QED BY <3>2, <3>4, Zenon DEF Zombie, exited
    <2> QED BY <1>n8, <2>1, <2>4, <2>5, Zenon DEF NoZombieAsleep
  <1> QED BY <1>2, <1>4, <1>5, <1>6, <1>7, Zenon DEF SInv

(* exit and exit_group both run Process::exit, there being no other thread. *)
LEMMA ExitRuns ==
  ASSUME SInv, NEW t \in Thread, Exit(t) \/ ExitGroup(t)
  PROVE  /\ state[t] = "user" /\ process[t] \in Proc
         /\ UNCHANGED <<PROCESSES, process, tid, target, pid, parent, children, hung>>
         /\ \E own, code : exit(process[t], t, own, code)
  <1>1. /\ state[t] = "user"
        /\ UNCHANGED <<PROCESSES, process, tid, target, pid, parent, children, hung>>
    BY Zenon DEF Exit, ExitGroup, Trap
  <1>2. process[t] \in Proc /\ threads[process[t]] \ {tid[t]} = {}
    BY <1>1, Zenon DEF SInv, IInv, TypeOK, Single
  <1>3. \E own, code : exit(process[t], t, own, code)
    BY <1>2, Zenon DEF Exit, ExitGroup
  <1> QED BY <1>1, <1>2, <1>3, Zenon

(* exit: the thread of the parent that sleeps in wait4 is woken, and the    *)
(* event that woke it is set.                                               *)
LEMMA ExitSInv ==
  ASSUME SInv, NEW t \in Thread, Exit(t) \/ ExitGroup(t)
  PROVE  SInv'
  <1> USE ProcessAssumption
  <1>iv. IInv
    BY Zenon DEF SInv
  <1>t0. TypeOK
    BY <1>iv, Zenon DEF IInv
  <1>n3. NoMissedEvent
    BY <1>iv, Zenon DEF IInv
  <1>s5. Single
    BY Zenon DEF SInv
  <1>r6. RunningInTable
    BY Zenon DEF SInv
  <1>f7. Family
    BY Zenon DEF SInv
  <1>n8. NoZombieAsleep
    BY Zenon DEF SInv
  <1>ty. /\ state \in [Thread -> {"none", "user", "asleep", "woken", "done"}]
         /\ PROCESSES \in [Tids -> Proc \cup {NoProc}]
         /\ pid \in [Proc -> Tids \cup {0}]
         /\ threads \in [Proc -> SUBSET Tids]
    BY <1>t0, TypesOf, Zenon
  <1> DEFINE p == process[t]
             q == parent[p]
             tell == q # NoProc /\ upgrade(q)
             woken == EB!wakes(bus[p], {}, PROCESS_QUIT) \cup
                      IF tell THEN EB!wakes(bus[q], {}, CHILD_PROCESS_QUIT) ELSE {}
  <1>0. /\ state[t] = "user" /\ p \in Proc
        /\ UNCHANGED <<PROCESSES, process, tid, target, pid, parent, children, hung>>
    BY ExitRuns, Zenon
  <1>1. /\ bus' = [r \in Proc |->
                     IF r = p THEN EB!change(bus[r], {}, PROCESS_QUIT)
                     ELSE IF tell /\ r = q THEN EB!change(bus[r], {}, CHILD_PROCESS_QUIT)
                     ELSE bus[r]]
        /\ state' = [u \in Thread |->
                       IF u = t THEN "done"
                       ELSE IF u \in woken /\ state[u] = "asleep" THEN "woken"
                       ELSE state[u]]
        /\ threads' = [threads EXCEPT ![p] = {}]
    BY ExitRuns, Zenon DEF exit
  <1>2. IInv'
    BY <1>iv, ExitIInv, Zenon
  <1>3. ASSUME NEW u \in Thread
        PROVE  /\ state'[u] = "none" <=> state[u] = "none"
               /\ state'[u] \in {"user", "asleep", "woken"} =>
                    u # t /\ state[u] \in {"user", "asleep", "woken"}
    BY <1>t0, <1>0, <1>1, Zenon DEF TypeOK
  <1>4. Single'
    <2>1. \A r \in Proc : threads'[r] \subseteq {pid'[r]}
      BY <1>t0, <1>s5, <1>0, <1>1 DEF Single, TypeOK
    <2>2. \A u \in Thread : Running(u)' /\ process'[u] # InitProc => threads'[process'[u]] # {}
      <3> SUFFICES ASSUME NEW u \in Thread, Running(u)', process[u] # InitProc
                   PROVE  threads'[process[u]] # {}
        BY <1>0, Zenon
      <3>1. Running(u) /\ u # t /\ state[u] # "none"
        BY <1>3, Zenon DEF Running
      <3>2. process[u] # p /\ process[u] \in Proc
        BY <1>t0, <1>s5, <1>0, <3>1, Zenon DEF Single, TypeOK
      <3> QED BY <1>t0, <1>s5, <1>1, <3>1, <3>2, ZenonT(30) DEF Single, TypeOK
    <2>3. /\ \A u \in Thread : state'[u] # "none" => tid'[u] = pid'[process'[u]]
          /\ \A u, v \in Thread :
               state'[u] # "none" /\ state'[v] # "none" /\ process'[u] = process'[v] => u = v
      BY <1>s5, <1>0, <1>3, Zenon DEF Single
    <2>4. pid'[InitProc] # 0 /\ \A i \in Tids : PROCESSES'[i] # NoProc => pid'[PROCESSES'[i]] = i
      BY <1>s5, <1>0, Zenon DEF Single
    <2> QED BY <1>s5, <2>1, <2>2, <2>3, <2>4, Zenon DEF Single
  <1>5. RunningInTable'
    BY <1>t0, <1>r6, <1>0, <1>1, Zenon DEF RunningInTable, TypeOK
  <1>6. \A r \in Proc, m \in {PROCESS_QUIT, CHILD_PROCESS_QUIT} :
          EB!change(bus[r], {}, m).event = bus[r].event \cup m
    BY Zenon DEF EB!change, EB!Changed
  <1>7. \A u \in Thread, r \in Proc, m \in {PROCESS_QUIT, CHILD_PROCESS_QUIT} :
          u \in EB!wakes(bus[r], {}, m) => process[u] = r
    <2> SUFFICES ASSUME NEW u \in Thread, NEW r \in Proc,
                        NEW m \in {PROCESS_QUIT, CHILD_PROCESS_QUIT},
                        u \in EB!wakes(bus[r], {}, m)
                 PROVE  process[u] = r
      BY Zenon
    <2>1. PICK c \in bus[r].callbacks : c.waker = u
      BY Zenon DEF EB!wakes, EB!Fired
    <2>2. c = Waker(u)
      BY <1>t0, <2>1 DEF TypeOK, Waker
    <2> QED BY <1>n3, <2>1, <2>2 DEF NoMissedEvent, Waker
  <1>8. Family'
    <2>1. \A r \in Proc : \A d \in children'[r] : parent'[d] = r /\ pid'[d] # 0 /\ d # InitProc
      BY <1>f7, <1>0, Zenon DEF Family
    <2>2. ASSUME NEW u \in Thread, state'[u] = "woken"
          PROVE  CHILD_PROCESS_QUIT \subseteq bus'[process[u]].event
      <3>1. u # t /\ state[u] # "none" /\ process[u] \in Proc
        BY <1>t0, <1>1, <1>3, <2>2, Zenon DEF TypeOK
      <3>2. process[u] # p
        BY <1>s5, <1>0, <3>1, Zenon DEF Single
      <3>3. CASE state[u] = "woken"
        BY <1>f7, <1>1, <1>6, <3>1, <3>2, <3>3 DEF Family
      <3>4. CASE u \in woken /\ state[u] = "asleep"
        <4>1. tell /\ q \in Proc /\ process[u] = q
          BY <1>t0, <1>0, <1>7, <3>2, <3>4, Zenon DEF TypeOK
        <4>2. bus'[q] = EB!change(bus[q], {}, CHILD_PROCESS_QUIT)
          BY <1>1, <3>2, <4>1, Zenon
        <4> QED BY <1>6, <4>1, <4>2
      <3> QED BY <1>1, <2>2, <3>1, <3>3, <3>4, Zenon
    <2> QED BY <1>f7, <1>0, <2>1, <2>2, Zenon DEF Family
  <1>9. NoZombieAsleep'
    <2> SUFFICES ASSUME NEW v \in Thread, NEW d \in Proc, state'[v] = "asleep",
                        WaitsFor(v, d)', Zombie(d)'
                 PROVE  FALSE
      BY <1>n8, Zenon DEF NoZombieAsleep
    <2>1. v # t /\ state[v] = "asleep" /\ v \notin woken /\ process[v] \in Proc
      BY <1>t0, <1>1, Zenon DEF TypeOK
    <2>2. WaitsFor(v, d) /\ d \in children[process[v]]
      BY <1>0, <2>1, Zenon DEF WaitsFor
    <2>3. CASE d # p
      BY <1>t0, <1>n8, <1>0, <1>1, <2>1, <2>2, <2>3, Zenon
         DEF Zombie, exited, TypeOK, NoZombieAsleep
    <2>4. CASE d = p
      <3>1. q = process[v]
        BY <1>f7, <2>1, <2>2, <2>4, Zenon DEF Family
      <3>2. tell
        BY <2>1, <3>1, Zenon DEF upgrade, Running
      <3>3. Waker(v) \in bus[q].callbacks /\ ~(CHILD_PROCESS_QUIT \subseteq bus[q].event)
        BY <1>n3, <2>1, <3>1, SMTT(30), Zenon DEF NoMissedEvent, Waker
      <3>4. Waker(v) \in EB!Fired(bus[q], {}, CHILD_PROCESS_QUIT)
        BY <3>3, Zenon DEF EB!Fired, EB!Changed, Waker, CHILD_PROCESS_QUIT
      <3>5. v \in EB!wakes(bus[q], {}, CHILD_PROCESS_QUIT)
        BY <3>4 DEF EB!wakes, Waker
      <3> QED BY <2>1, <3>2, <3>5, Zenon
    <2> QED BY <2>3, <2>4, Zenon
  <1> QED BY <1>2, <1>4, <1>5, <1>8, <1>9, Zenon DEF SInv

(* wait4 reaps under a pid that no running process has: as long as the pid  *)
(* of the exited process is in THREADS, its holder cannot be another.       *)
LEMMA ReapedPid ==
  ASSUME SInv, NEW t \in Thread, process[t] \in Proc, NEW tgt \in Target,
         NEW c \in find(process[t], tgt), NEW p \in Proc, threads[p] # {}
  PROVE  pid[p] # pid[c]
  <1> USE ProcessAssumption
  <1>iv. IInv
    BY Zenon DEF SInv
  <1>t0. TypeOK
    BY <1>iv, Zenon DEF IInv
  <1>i1. InTable
    BY <1>iv, Zenon DEF IInv
  <1>t2. ThreadsListed
    BY <1>iv, Zenon DEF IInv
  <1>s5. Single
    BY Zenon DEF SInv
  <1>r6. RunningInTable
    BY Zenon DEF SInv
  <1>f7. Family
    BY Zenon DEF SInv
  <1> SUFFICES ASSUME pid[p] = pid[c] PROVE FALSE
    BY Zenon
  <1>1. c \in Proc /\ threads[c] = {}
    BY <1>t0, Zenon DEF find, TypeOK, exited
  <1>2. threads[p] = {pid[p]} /\ pid[p] \in Tids /\ PROCESSES[pid[p]] = p
    BY <1>t0, <1>s5, <1>r6, ListsItsPid, Zenon
  <1>3. ASSUME NEW i \in Tids, PROCESSES[i] = c PROVE FALSE
    <2>1. pid[PROCESSES[i]] = i
      BY <1>s5, <1>1, <1>3, SingleFacts, Zenon
    <2>2. PROCESSES[i] = p
      BY <1>2, <1>3, <2>1, Zenon
    <2> QED BY <1>1, <1>3, <2>2, Zenon
  <1>4. CASE tgt # AnyChild
    BY <1>3, <1>4, Zenon DEF find, Target
  <1>5. CASE tgt = AnyChild
    <2>1. c \in children[process[t]] /\ upgrade(c)
      BY <1>5, Zenon DEF find
    <2>2. PICK v \in Thread : process[v] = c /\ (Running(v) \/ \E i \in Tids : THREADS[i] = v)
      BY <1>3, <2>1, Zenon DEF upgrade
    <2>3. ~Running(v)
      BY <1>s5, <1>f7, <1>1, <2>1, <2>2 DEF Single, Family
    <2>4. PICK i \in Tids : THREADS[i] = v
      BY <2>2, <2>3, Zenon
    <2>5. state[v] # "none" /\ tid[v] = i
      BY <1>i1, <2>4, Zenon DEF InTable
    <2>6. i = pid[p]
      BY <1>s5, <2>2, <2>5, Zenon DEF Single
    <2>7. process[THREADS[pid[p]]] = p
      BY <1>t2, <1>2, Zenon DEF ThreadsListed
    <2> QED BY <1>1, <2>2, <2>4, <2>6, <2>7, Zenon
  <1> QED BY <1>4, <1>5, Zenon

(* Any turn of wait4: it changes the bus of its own process only, and       *)
(* sleeps only when find has found nothing.                                 *)
LEMMA WaitSInv ==
  ASSUME SInv, NEW t \in Thread, state[t] \in {"user", "woken"}, IInv',
         NEW tgt \in Target, NEW b \in [Proc -> Bus],
         \A r \in Proc \ {process[t]} : b[r] = bus[r],
         WaitTurn(t, tgt, b),
         UNCHANGED <<THREADS, process, tid, pid, parent, threads, exit_code, hung>>
  PROVE  SInv'
  <1> USE ProcessAssumption
  <1>iv. IInv
    BY Zenon DEF SInv
  <1>t0. TypeOK
    BY <1>iv, Zenon DEF IInv
  <1>s5. Single
    BY Zenon DEF SInv
  <1>r6. RunningInTable
    BY Zenon DEF SInv
  <1>f7. Family
    BY Zenon DEF SInv
  <1>n8. NoZombieAsleep
    BY Zenon DEF SInv
  <1>ty. /\ state \in [Thread -> {"none", "user", "asleep", "woken", "done"}]
         /\ PROCESSES \in [Tids -> Proc \cup {NoProc}]
         /\ pid \in [Proc -> Tids \cup {0}]
         /\ threads \in [Proc -> SUBSET Tids]
    BY <1>t0, TypesOf, Zenon
  <1>1. process[t] \in Proc
    BY <1>t0, Zenon DEF TypeOK
  <1>10. /\ \A v \in Thread : state[v] # "none" => process[v] \in Proc
         /\ \A r \in Proc : pid[r] # 0 => pid[r] \in Tids
         /\ NoProc \notin Proc
    BY <1>t0, Zenon DEF TypeOK
  <1>11. pid' = pid /\ threads' = threads
    BY Zenon
  <1>2. /\ state' = [state EXCEPT ![t] = "user"] \/ state' = [state EXCEPT ![t] = "asleep"]
        /\ \A v \in Thread \ {t} : target'[v] = target[v]
        /\ \A r \in Proc \ {process[t]} : bus'[r] = bus[r]
    BY <1>t0, <1>1, Zenon DEF WaitTurn, TypeOK
  <1>3. ASSUME NEW v \in Thread
        PROVE  /\ state'[v] # "none" => state[v] # "none"
               /\ state'[v] \in {"user", "asleep", "woken"} => state[v] \in {"user", "asleep", "woken"}
               /\ v # t => state'[v] = state[v]
    BY <1>t0, <1>2, Zenon DEF TypeOK
  <1>4. \/ UNCHANGED <<PROCESSES, children>>
        \/ \E c \in find(process[t], tgt) :
             /\ PROCESSES' = [PROCESSES EXCEPT ![pid[c]] = NoProc]
             /\ children' = [children EXCEPT ![process[t]] = {d \in @ : pid[d] # pid[c]}]
    BY SMTT(30), Zenon DEF WaitTurn, Reap, ECHILD
  <1>5. /\ \A i \in Tids : PROCESSES'[i] \in {PROCESSES[i], NoProc}
        /\ \A r \in Proc : children'[r] \subseteq children[r]
        /\ \A r \in Proc \ {process[t]} : children'[r] = children[r]
    <2>1. CASE UNCHANGED <<PROCESSES, children>>
      BY <2>1, Zenon
    <2>2. ASSUME NEW c,
                 PROCESSES' = [PROCESSES EXCEPT ![pid[c]] = NoProc],
                 children' = [children EXCEPT ![process[t]] = {d \in @ : pid[d] # pid[c]}]
          PROVE  /\ \A i \in Tids : PROCESSES'[i] \in {PROCESSES[i], NoProc}
                 /\ \A r \in Proc : children'[r] \subseteq children[r]
                 /\ \A r \in Proc \ {process[t]} : children'[r] = children[r]
      BY <1>t0, <1>1, <2>2, Zenon DEF TypeOK
    <2> QED BY <1>4, <2>1, <2>2, Zenon
  <1>6. Single'
    <2>1. \A i \in Tids : PROCESSES'[i] # NoProc => pid'[PROCESSES'[i]] = i
      BY <1>s5, <1>5, Zenon DEF Single
    <2>2. /\ \A v \in Thread : state'[v] # "none" => tid'[v] = pid'[process'[v]]
          /\ \A v, w \in Thread :
               state'[v] # "none" /\ state'[w] # "none" /\ process'[v] = process'[w] => v = w
      BY <1>s5, <1>3, Zenon DEF Single
    <2>3. \A v \in Thread : Running(v)' /\ process'[v] # InitProc => threads'[process'[v]] # {}
      BY <1>s5, <1>3, Zenon DEF Single, Running
    <2> QED BY <1>s5, <2>1, <2>2, <2>3, Zenon DEF Single
  <1>7. RunningInTable'
    <2> SUFFICES ASSUME NEW p \in Proc, threads[p] # {} PROVE PROCESSES'[pid[p]] = p
      BY <1>r6, Zenon DEF RunningInTable
    <2>1. pid[p] \in Tids /\ PROCESSES[pid[p]] = p
      BY <1>t0, <1>s5, <1>r6, SMTT(30), Zenon DEF Single, RunningInTable, TypeOK
    <2>2. \A c \in find(process[t], tgt) : pid[p] # pid[c]
      BY <1>1, ReapedPid, Zenon
    <2> QED BY <1>t0, <1>4, <2>1, <2>2, Zenon DEF TypeOK
  <1>8. Family'
    <2>1. \A r \in Proc : \A d \in children'[r] : parent'[d] = r /\ pid'[d] # 0 /\ d # InitProc
      BY <1>f7, <1>5, Zenon DEF Family
    <2>2. ASSUME NEW v \in Thread, state'[v] = "woken"
          PROVE  CHILD_PROCESS_QUIT \subseteq bus'[process[v]].event
      <3>1. v # t /\ state[v] = "woken" /\ process[v] \in Proc
        BY <1>t0, <1>2, <2>2, ZenonT(30) DEF TypeOK
      <3>2. process[v] # process[t]
        BY <1>s5, <3>1, Zenon DEF Single
      <3> QED BY <1>f7, <1>2, <3>1, <3>2, Zenon DEF Family
    <2> QED BY <1>f7, <2>1, <2>2, Zenon DEF Family
  <1>9. NoZombieAsleep'
    <2> SUFFICES ASSUME NEW v \in Thread, NEW d \in Proc, state'[v] = "asleep",
                        WaitsFor(v, d)', Zombie(d)'
                 PROVE  FALSE
      BY <1>n8, Zenon DEF NoZombieAsleep
    <2>1. Zombie(d)
      <3>1. pid[d] # 0 /\ threads[d] = {} /\ PROCESSES'[pid[d]] = d
        BY <1>11, Zenon DEF Zombie, exited
      <3>2. PROCESSES[pid[d]] = d
        BY <1>5, <1>10, <3>1, SMTT(30), Zenon
      <3> QED BY <3>1, <3>2, Zenon DEF Zombie, exited
    <2>2. process[v] \in Proc
      BY <1>3, <1>10, Zenon
    <2>3. CASE v # t
      <3>1. state[v] = "asleep"
        BY <1>3, <2>3, Zenon
      <3>2. process[v] # process[t]
        BY <1>s5, <2>3, <3>1, Zenon DEF Single
      <3>3. WaitsFor(v, d)
        <4>1. target'[v] = target[v] /\ children'[process[v]] = children[process[v]]
          BY <1>2, <1>5, <2>2, <2>3, <3>2, Zenon
        <4>2. process' = process
          BY Zenon
        <4>3. d \in children'[process[v]] /\ target'[v] \in {AnyChild, pid[d]}
          BY <1>11, <4>2, Zenon DEF WaitsFor
        <4> QED BY <3>1, <4>1, <4>3, Zenon DEF WaitsFor
      <3> QED BY <1>n8, <2>1, <3>1, <3>3, Zenon DEF NoZombieAsleep
    <2>4. CASE v = t
      <3>1. /\ find(process[t], tgt) = {}
            /\ target' = [target EXCEPT ![t] = tgt]
            /\ UNCHANGED <<PROCESSES, children>>
        BY <1>t0, <2>4, Zenon DEF WaitTurn, TypeOK
      <3>2. d \in children[process[t]] /\ tgt \in {AnyChild, pid[d]}
        BY <1>t0, <2>4, <3>1, Zenon DEF WaitsFor, TypeOK
      <3>3. PROCESSES[pid[d]] = d /\ exited(d) /\ pid[d] \in Tids
        BY <1>t0, <2>1, Zenon DEF Zombie, TypeOK
      <3>4. upgrade(d)
        BY <3>3, Zenon DEF upgrade
      <3>5. d \in find(process[t], tgt)
        BY <3>2, <3>3, <3>4, Zenon DEF find
      <3> QED BY <3>1, <3>5, Zenon
    <2> QED BY <2>3, <2>4, Zenon
  <1> QED BY <1>6, <1>7, <1>8, <1>9, Zenon DEF SInv
-----------------------------------------------------------------------------
(* Every step that leaves each process with one thread keeps the invariant; *)
(* a clone does not.                                                        *)
LEMMA NextSInv ==
  ASSUME SInv, [Next]_vars, OneThreadEach'
  PROVE  SInv'
  <1>0. IInv /\ IInv'
    BY NextIInv, Zenon DEF SInv
  <1>1. ASSUME NEW t \in Thread, Wait(t) PROVE SInv'
    <2>1. PICK tgt \in Target :
            /\ state[t] = "user" /\ WaitTurn(t, tgt, bus)
            /\ UNCHANGED <<THREADS, process, tid, pid, parent, threads, exit_code, hung>>
      BY <1>1, Zenon DEF Wait, Trap
    <2>2. bus \in [Proc -> Bus]
      BY <1>0, Zenon DEF IInv, TypeOK, Bus, Callback
    <2> QED BY <1>0, <2>1, <2>2, WaitSInv, Zenon
  <1>2. ASSUME NEW t \in Thread, Resume(t) PROVE SInv'
    <2> DEFINE p == process[t]
               b0 == EB!change(bus[p], CHILD_PROCESS_QUIT, {})
    <2>1. /\ state[t] = "woken"
          /\ UNCHANGED <<THREADS, process, tid, pid, parent, threads, exit_code, hung>>
      BY <1>2, Zenon DEF Resume
    <2>2. p \in Proc /\ target[t] \in Target /\ bus \in [Proc -> Bus]
      BY <1>0, <2>1, Zenon DEF IInv, TypeOK, Bus, Callback
    <2>3. EB!ready(bus[p], CHILD_PROCESS_QUIT)
      BY <2>1, Zenon DEF SInv, Family, EB!ready, CHILD_PROCESS_QUIT
    <2>4. WaitTurn(t, target[t], [bus EXCEPT ![p] = b0])
      BY <1>2, <2>3, Zenon DEF Resume
    <2>5. b0 \in Bus
      BY <2>2, ChangeClear, Zenon
    <2>6. [bus EXCEPT ![p] = b0] \in [Proc -> Bus]
      BY <2>2, <2>5, Zenon
    <2>7. \A r \in Proc \ {p} : [bus EXCEPT ![p] = b0][r] = bus[r]
      BY <2>2, ZenonT(30)
    <2> HIDE DEF b0
    <2> QED BY <1>0, <2>1, <2>2, <2>4, <2>6, <2>7, WaitSInv, Zenon
  <1>3. CASE UNCHANGED <<tables, procVars, process, tid, state, target>>
    <2>1. UNCHANGED <<THREADS, PROCESSES, pid, parent, children, threads, exit_code, bus,
                      process, tid, state, target>>
      BY <1>3, Zenon DEF tables, procVars
    <2>2. Single'
      BY <2>1, Zenon DEF SInv, Single, Running
    <2>3. RunningInTable' /\ Family'
      BY <2>1, Zenon DEF SInv, RunningInTable, Family
    <2>4. NoZombieAsleep'
      BY <2>1, Zenon DEF SInv, NoZombieAsleep, WaitsFor, Zombie, exited
    <2> QED BY <1>0, <2>2, <2>3, <2>4, Zenon DEF SInv
  <1>4. (\E t \in Thread : WaitHangs(t) \/ WaitPanics(t)) \/ UNCHANGED vars
        => UNCHANGED <<tables, procVars, process, tid, state, target>>
    BY Zenon DEF WaitHangs, WaitPanics, vars, tables, procVars
  <1>5. ASSUME NEW t \in Thread, Clone(t) PROVE FALSE
    <2>1. PICK u \in Thread :
            /\ state[t] = "user" /\ state[u] = "none"
            /\ process' = [process EXCEPT ![u] = process[t]]
            /\ state' = [state EXCEPT ![u] = "user"]
      BY <1>5, Zenon DEF Clone, Trap
    <2>2. t # u
      BY <2>1
    <2>3. process'[t] = process'[u] /\ state'[t] = "user" /\ state'[u] = "user"
      BY <1>0, <2>1, <2>2, Zenon DEF IInv, TypeOK
    <2> QED BY <2>2, <2>3 DEF OneThreadEach
  <1> QED BY <1>1, <1>2, <1>3, <1>4, <1>5, ForkSInv, ExitSInv, Zenon DEF Next

(* A process that has had two threads has had them ever since: a thread     *)
(* object keeps its process, and is not made twice.                         *)
LEMMA OneThreadBefore ==
  ASSUME IInv, [Next]_vars, OneThreadEach'
  PROVE  OneThreadEach
  <1>1. \A u \in Thread : state[u] # "none" => state'[u] # "none" /\ process'[u] = process[u]
    <2> USE DEF IInv, TypeOK
    <2>1. ASSUME NEW t \in Thread, Fork(t) \/ Clone(t)
          PROVE  \A u \in Thread :
                   state[u] # "none" => state'[u] # "none" /\ process'[u] = process[u]
      <3>1. PICK v \in Thread :
              /\ state[v] = "none"
              /\ \E p : process' = [process EXCEPT ![v] = p]
              /\ state' = [state EXCEPT ![v] = "user"]
        BY <2>1, Zenon DEF Fork, Clone
      <3>2. PICK p : process' = [process EXCEPT ![v] = p]
        BY <3>1, Zenon
      <3> QED BY <3>1, <3>2, Zenon
    <2>2. ASSUME NEW t \in Thread, Exit(t) \/ ExitGroup(t)
          PROVE  \A u \in Thread :
                   state[u] # "none" => state'[u] # "none" /\ process'[u] = process[u]
      <3>1. process' = process
        BY <2>2, Zenon DEF Exit, ExitGroup
      <3>2. \/ state' = [state EXCEPT ![t] = "done"]
            \/ \E p, own, code : exit(p, t, own, code)
        BY <2>2, Zenon DEF Exit, ExitGroup
      <3>3. ASSUME NEW p, NEW own, NEW code, exit(p, t, own, code)
            PROVE  \A u \in Thread : state'[u] \in {"done", "woken", state[u]}
        <4> DEFINE q == parent[p]
                   tell == q # NoProc /\ upgrade(q)
                   woken == EB!wakes(bus[p], {}, PROCESS_QUIT) \cup
                            IF tell THEN EB!wakes(bus[q], {}, CHILD_PROCESS_QUIT) ELSE {}
        <4>1. state' = [u \in Thread |->
                          IF u = t THEN "done"
                          ELSE IF u \in woken /\ state[u] = "asleep" THEN "woken"
                          ELSE state[u]]
          BY <3>3, Zenon DEF exit
        <4> HIDE DEF woken
        <4> QED BY <4>1, Zenon
      <3>4. \A u \in Thread : state'[u] \in {"done", "woken", state[u]}
        BY <3>2, <3>3, Zenon
      <3> QED BY <3>1, <3>4, SMT
    <2>3. ASSUME NEW t \in Thread, Wait(t) \/ Resume(t)
          PROVE  \A u \in Thread :
                   state[u] # "none" => state'[u] # "none" /\ process'[u] = process[u]
      <3>1. /\ process' = process
            /\ \/ state' = [state EXCEPT ![t] = "user"]
               \/ state' = [state EXCEPT ![t] = "asleep"]
        BY <2>3, Zenon DEF Wait, Resume, WaitTurn
      <3> QED BY <3>1
    <2>4. ASSUME NEW t \in Thread, WaitHangs(t) \/ WaitPanics(t)
          PROVE  state' = state /\ process' = process
      BY <2>4, Zenon DEF WaitHangs, WaitPanics
    <2>5. CASE UNCHANGED vars
      BY <2>5, Zenon DEF vars
    <2> QED BY <2>1, <2>2, <2>3, <2>4, <2>5, Zenon DEF Next
  <1> QED BY <1>1, Zenon DEF OneThreadEach

\* What holds of the state whether or not a program has cloned a thread.
OInv == IInv /\ (OneThreadEach => SInv)

LEMMA OInvHolds == Spec => []OInv
  <1>1. Init => OInv
    BY InitIInv, InitSInv, Zenon DEF OInv
  <1>2. OInv /\ [Next]_vars => OInv'
    BY NextIInv, NextSInv, OneThreadBefore, Zenon DEF OInv
  <1> QED BY <1>1, <1>2, PTL DEF Spec

(* Until a program clones a thread, a process that lists a thread is found  *)
(* under its pid, for any number of processes and pids, although pids are   *)
(* reused as soon as a thread leaves THREADS and wait4 removes entries by   *)
(* pid.                                                                     *)
THEOREM TableIsComplete == Spec => []TableComplete
  <1>1. OInv => TableComplete
    BY Zenon DEF OInv, SInv, TableComplete
  <1> QED BY <1>1, OInvHolds, PTL

(* Until a program clones a thread, sys_wait4 never sleeps on a child that  *)
(* has exited and can be reaped.                                            *)
THEOREM NoSleepOnZombie == Spec => []SoleWaiterSees
  <1>1. OInv => SoleWaiterSees
    BY Zenon DEF OInv, SInv, SoleWaiterSees
  <1> QED BY <1>1, OInvHolds, PTL

(* Until a program clones a thread, Process::exit runs once for every       *)
(* process but the first, so the exit code wait4 reports is final.          *)
THEOREM ExitCodeFinal == Spec => ExitCodeKept
  <1>1. ASSUME SInv, [Next]_vars, NEW p \in Proc \ {InitProc}, pid[p] # 0, exited(p)
        PROVE  exit_code'[p] = exit_code[p]
    <2>1. ASSUME NEW t \in Thread, Exit(t) \/ ExitGroup(t)
          PROVE  exit_code'[p] = exit_code[p]
      <3>1. state[t] = "user" /\ process[t] \in Proc
        BY <1>1, <2>1, ExitRuns, Zenon
      <3>2. process[t] # p
        BY <1>1, <3>1, Zenon DEF SInv, Single, Running, exited
      <3>3. PICK code : exit_code' = [exit_code EXCEPT ![process[t]] = code]
        BY <1>1, <2>1, ExitRuns, Zenon DEF exit
      <3> QED BY <1>1, <3>1, <3>2, <3>3, Zenon DEF SInv, IInv, TypeOK
    <2>2. ASSUME NEW t \in Thread, Fork(t) PROVE UNCHANGED exit_code
      BY <2>2, Zenon DEF Fork
    <2>3. ASSUME NEW t \in Thread, Clone(t) \/ Wait(t) \/ Resume(t) \/ WaitHangs(t) \/ WaitPanics(t)
          PROVE  UNCHANGED exit_code
      BY <2>3, Zenon DEF Clone, Wait, WaitHangs, WaitPanics, Resume, procVars
    <2>4. CASE UNCHANGED vars
      BY <2>4, Zenon DEF vars, procVars
    <2> QED BY <1>1, <2>1, <2>2, <2>3, <2>4, Zenon DEF Next
  <1>2. OInv /\ [Next]_vars =>
          [OneThreadEach =>
             \A p \in Proc \ {InitProc} :
               pid[p] # 0 /\ exited(p) => exit_code'[p] = exit_code[p]]_vars
    BY <1>1, Zenon DEF OInv
  <1> QED BY <1>2, OInvHolds, PTL DEF Spec, ExitCodeKept
=============================================================================
