--------------------------- MODULE FileTableProof ---------------------------
(***************************************************************************)
(* Proofs about FileTable, for any number of threads, descriptors,         *)
(* characters and calls: no reader sleeps through input, characters are    *)
(* neither lost nor swapped, shared offsets count every byte, and a        *)
(* process that has exited holds no file again.                            *)
(***************************************************************************)
EXTENDS FileTable, TLAPS

\* The types the steps below refer to, one fact each.
LEMMA Types ==
  ASSUME TypeOK
  PROVE  /\ tty \in Tty /\ got \in Seq(1..MaxTyped) /\ typed \in 0..MaxTyped
         /\ files \in [Proc -> Table] /\ threads \in [Proc -> SUBSET Thread]
         /\ offset \in [Desc -> Nat] /\ moved \in [Desc -> Nat]
         /\ pc \in [Thread -> {"none", "user", "asleep", "woken", "done"}]
         /\ call \in [Thread -> Call]
  BY Zenon DEF TypeOK

\* ProcOf yields a process, and FileAssumption keeps its threads apart.
LEMMA Owner ==
  ASSUME NEW t \in Thread
  PROVE  /\ ProcOf(t) \in Proc /\ t # None
         /\ ProcOf(t) = Child => t = ChildThread
         /\ t \in ParentThread => ProcOf(t) = Parent
  BY FileAssumption, Zenon DEF ProcOf, Proc, Thread

\* The element of a sequence, and what is left behind the first one.
LEMMA HeadTail ==
  ASSUME NEW S, NEW s \in Seq(S), s # <<>>
  PROVE  /\ Len(s) \in Nat /\ Len(s) >= 1 /\ Head(s) = s[1] /\ Head(s) \in S
         /\ Tail(s) \in Seq(S) /\ Len(Tail(s)) = Len(s) - 1
         /\ \A i \in 1..(Len(s) - 1) : Tail(s)[i] = s[i + 1]
         /\ Tail(s) = <<>> <=> Len(s) = 1
  <1>1. Len(s) \in Nat /\ Len(s) >= 1 /\ Head(s) = s[1] /\ Head(s) \in S
    OBVIOUS
  <1>2. /\ Tail(s) \in Seq(S) /\ Len(Tail(s)) = Len(s) - 1
        /\ \A i \in 1..(Len(s) - 1) : Tail(s)[i] = s[i + 1]
    OBVIOUS
  <1>3. \A x \in Seq(S) : x = <<>> <=> Len(x) = 0
    OBVIOUS
  <1>4. Tail(s) = <<>> <=> Len(s) = 1
    <2>1. Tail(s) = <<>> <=> Len(Tail(s)) = 0
      BY <1>2, <1>3, Zenon
    <2>2. Len(s) - 1 = 0 <=> Len(s) = 1
      BY <1>1
    <2> QED BY <1>2, <2>1, <2>2, Zenon
  <1> QED BY <1>1, <1>2, <1>4, Zenon

LEMMA Appended ==
  ASSUME NEW S, NEW s \in Seq(S), NEW e \in S
  PROVE  /\ Len(s) \in Nat /\ Append(s, e) \in Seq(S) /\ Len(Append(s, e)) = Len(s) + 1
         /\ \A i \in 1..Len(s) : Append(s, e)[i] = s[i]
         /\ Append(s, e)[Len(s) + 1] = e /\ Append(s, e) # <<>>
  OBVIOUS
-----------------------------------------------------------------------------
(* The operations of the terminal keep its type. *)
LEMMA ChangeType ==
  ASSUME NEW x \in Tty, NEW reset, NEW set \in SUBSET {"READABLE"}
  PROVE  change(x.bus, reset, set) \in [event : SUBSET {"READABLE"}, callbacks : SUBSET Callback]
  <1>1. x.bus \in [event : SUBSET {"READABLE"}, callbacks : SUBSET Callback]
    BY Zenon DEF Tty
  <1>2. Changed(x.bus, reset, set) \in SUBSET {"READABLE"}
    BY <1>1, Zenon DEF Changed
  <1>3. x.bus.callbacks \ Fired(x.bus, reset, set) \in SUBSET Callback
    BY <1>1
  <1> QED BY <1>2, <1>3, Zenon DEF change

LEMMA PushType ==
  ASSUME NEW x \in Tty, NEW c \in 1..MaxTyped
  PROVE  push(x, c) \in Tty
  <1>1. x.buf \in Seq(1..MaxTyped)
    BY Zenon DEF Tty
  <1>2. Append(x.buf, c) \in Seq(1..MaxTyped)
    BY <1>1
  <1>3. change(x.bus, {}, {"READABLE"})
          \in [event : SUBSET {"READABLE"}, callbacks : SUBSET Callback]
    BY ChangeType, Zenon
  <1> QED BY <1>2, <1>3, Zenon DEF push, Tty

LEMMA PopType ==
  ASSUME NEW x \in Tty, can_read(x)
  PROVE  pop(x) \in Tty /\ Head(x.buf) \in 1..MaxTyped
  <1>1. x.buf \in Seq(1..MaxTyped) /\ x.buf # <<>>
    BY Zenon DEF Tty, can_read
  <1>2. Tail(x.buf) \in Seq(1..MaxTyped) /\ Head(x.buf) \in 1..MaxTyped
    BY <1>1, HeadTail, Zenon
  <1>3. change(x.bus, Drained(x), {})
          \in [event : SUBSET {"READABLE"}, callbacks : SUBSET Callback]
    BY ChangeType, Zenon
  <1> QED BY <1>2, <1>3, Zenon DEF pop, Tty

LEMMA AwaitType ==
  ASSUME NEW x \in Tty, NEW t \in Thread
  PROVE  /\ await(x, t) \in Tty /\ await(x, t).buf = x.buf
         /\ await(x, t).bus.event = x.bus.event
         /\ await(x, t).bus.callbacks = x.bus.callbacks \cup {[waker |-> t, mask |-> EveryEvent]}
  <1>1. [waker |-> t, mask |-> EveryEvent] \in Callback
    BY DEF Callback
  <1> QED BY <1>1 DEF await, subscribe, Tty
-----------------------------------------------------------------------------
(* The tables of descriptors. *)
LEMMA TableFacts ==
  ASSUME NEW table \in Table
  PROVE  DOMAIN table \subseteq Fd /\ \A fd \in DOMAIN table : table[fd] \in Handle
  BY DEF Table

LEMMA TableOps ==
  ASSUME NEW table \in Table, NEW fd \in Fd, NEW h \in Handle
  PROVE  Without(table, fd) \in Table /\ With(table, fd, h) \in Table /\ NoFiles \in Table
  <1>1. DOMAIN table \subseteq Fd /\ \A f \in DOMAIN table : table[f] \in Handle
    BY TableFacts, Zenon
  <1>2. Without(table, fd) \in [DOMAIN table \ {fd} -> Handle]
    BY <1>1 DEF Without
  <1>3. With(table, fd, h) \in [DOMAIN table \cup {fd} -> Handle]
    BY <1>1 DEF With
  <1>4. NoFiles \in [{} -> Handle]
    BY DEF NoFiles
  <1>5. DOMAIN table \ {fd} \in SUBSET Fd /\ DOMAIN table \cup {fd} \in SUBSET Fd
    BY <1>1
  <1> QED BY <1>2, <1>3, <1>4, <1>5, Zenon DEF Table
-----------------------------------------------------------------------------
LEMMA InitType == Init => TypeOK
  <1> SUFFICES ASSUME Init PROVE TypeOK
    OBVIOUS
  <1>1. tty \in Tty /\ got \in Seq(1..MaxTyped) /\ typed \in 0..MaxTyped
    <2>1. <<>> \in Seq(1..MaxTyped)
      OBVIOUS
    <2>2. new \in [event : SUBSET {"READABLE"}, callbacks : SUBSET Callback]
      BY Zenon DEF new
    <2>3. TtyDefault \in Tty
      BY <2>1, <2>2, Zenon DEF TtyDefault, Tty
    <2>4. 0 \in 0..MaxTyped
      BY FileAssumption
    <2> QED BY <2>1, <2>3, <2>4, Zenon DEF Init
  <1>2. intr \subseteq Proc /\ exited \subseteq Proc /\ hung \in BOOLEAN /\ halted \in BOOLEAN
    BY Zenon DEF Init
  <1>3. files \in [Proc -> Table]
    <2>1. [fd \in Desc |-> [desc |-> fd]] \in [Desc -> Handle]
      BY DEF Handle
    <2>2. Desc \in SUBSET Fd
      BY FileAssumption DEF Desc
    <2>3. [fd \in Desc |-> [desc |-> fd]] \in Table
      BY <2>1, <2>2, Zenon DEF Table
    <2>4. NoFiles \in [{} -> Handle]
      BY DEF NoFiles
    <2>5. NoFiles \in Table
      BY <2>4, Zenon DEF Table
    <2> QED BY <2>3, <2>5, Zenon DEF Init
  <1>4. threads \in [Proc -> SUBSET Thread] /\ \A p \in Proc : \A t \in threads[p] : ProcOf(t) = p
    <2>1. threads = [p \in Proc |-> IF p = Parent THEN ParentThread \ {FirstThread} ELSE {}]
      BY Zenon DEF Init
    <2> QED BY <2>1, FileAssumption DEF Thread, ProcOf
  <1>5. offset \in [Desc -> Nat] /\ moved \in [Desc -> Nat] /\ calls \in 0..MaxCalls
    BY FileAssumption DEF Init
  <1>6. pc \in [Thread -> {"none", "user", "asleep", "woken", "done"}]
    BY Zenon DEF Init
  <1>7. call \in [Thread -> Call] /\ \A t \in Thread : call[t] = NoCall
    <2>1. NoCall \in Call
      BY DEF NoCall, Call, Desc
    <2> QED BY <2>1, Zenon DEF Init
  <1>8. cur = None
    BY Zenon DEF Init
  <1> QED BY <1>1, <1>2, <1>3, <1>4, <1>5, <1>6, <1>7, <1>8, Zenon DEF TypeOK
-----------------------------------------------------------------------------
(* wake() moves threads from one place to wait in to the other. *)
LEMMA WokenType ==
  ASSUME TypeOK, NEW R
  PROVE  /\ Woken(R) \in [Thread -> {"none", "user", "asleep", "woken", "done"}]
         /\ \A t \in Thread : /\ Woken(R)[t] \in {"asleep", "woken"} <=> Waiting(t)
                              /\ Woken(R)[t] = "user" <=> pc[t] = "user"
                              /\ Woken(R)[t] = "none" <=> pc[t] = "none"
                              /\ Woken(R)[t] = "asleep" => pc[t] = "asleep"
  BY Types DEF Woken, Waiting

(* A step that hangs the machine changes nothing else. *)
LEMMA HangType ==
  ASSUME TypeOK, Hang
  PROVE  TypeOK'
  BY Zenon DEF TypeOK, Hang, Waiting

(* A character is taken. *)
LEMMA TakeType ==
  ASSUME TypeOK, NEW t \in Thread, NEW c \in Call, cur = None, TakeChar(t, c),
         UNCHANGED <<typed, intr, files, threads, exited, calls, hung>>
  PROVE  TypeOK'
  <1>1. tty' \in Tty /\ Head(tty.buf) \in 1..MaxTyped
    BY Types, PopType, Zenon DEF TakeChar
  <1>2. got' \in Seq(1..MaxTyped)
    <2>1. Append(got, Head(tty.buf)) \in Seq(1..MaxTyped)
      BY <1>1, Types, Appended, Zenon
    <2> QED BY <2>1, Types, Zenon DEF TakeChar
  <1>3. offset' \in [Desc -> Nat] /\ moved' \in [Desc -> Nat]
    <2>1. CASE UNCHANGED <<offset, moved>>
      BY <2>1, Types, Zenon
    <2>2. CASE Advance(c.desc, c.seen)
      <3>1. c.desc \in Desc
        BY Zenon DEF Call
      <3> QED BY <2>2, <3>1, Types DEF Advance
    <2> QED BY <2>1, <2>2, Zenon DEF TakeChar
  <1>4. /\ pc' = [Woken(pop_wakes(tty)) EXCEPT ![t] = "user"]
        /\ call' = [call EXCEPT ![t] = NoCall]
    BY Zenon DEF TakeChar
  <1>5. pc' \in [Thread -> {"none", "user", "asleep", "woken", "done"}] /\ pc'[t] = "user"
    BY <1>4, WokenType, Zenon
  <1>6. /\ call' \in [Thread -> Call]
        /\ \A u \in Thread : pc'[u] \in {"asleep", "woken"} \/ call'[u] = NoCall
    <2>1. NoCall \in Call
      BY DEF NoCall, Call, Desc
    <2>2. call' \in [Thread -> Call]
      BY <1>4, <2>1, Types, Zenon
    <2>3. \A u \in Thread : u = t \/ (Waiting(u) <=> pc'[u] \in {"asleep", "woken"})
      BY <1>4, WokenType, Zenon
    <2>4. \A u \in Thread : call'[u] = IF u = t THEN NoCall ELSE call[u]
      BY <1>4, Types, Zenon
    <2> QED BY <2>2, <2>3, <2>4, Zenon DEF TypeOK
  <1>7. cur' \in {t, None} /\ halted' \in BOOLEAN
    BY Zenon DEF TakeChar, Leave, TypeOK
  <1> QED BY <1>1, <1>2, <1>3, <1>5, <1>6, <1>7, Zenon DEF TypeOK, Waiting

(* A reader begins to wait, or goes on waiting. *)
LEMMA WaitType ==
  ASSUME TypeOK, NEW t \in Thread, NEW c \in Call, cur = None, AwaitChar(t, c),
         UNCHANGED <<typed, intr, files, threads, exited, calls, hung>>
  PROVE  TypeOK'
  <1>1. tty' \in Tty
    BY Types, AwaitType, Zenon DEF AwaitChar
  <1>2. /\ pc' = [pc EXCEPT ![t] = "asleep"] /\ call' = [call EXCEPT ![t] = c]
        /\ UNCHANGED <<got, offset, moved, cur, halted>>
    BY Zenon DEF AwaitChar
  <1>3. /\ pc' \in [Thread -> {"none", "user", "asleep", "woken", "done"}]
        /\ call' \in [Thread -> Call]
    BY <1>2, Types, Zenon
  <1>4. \A u \in Thread : pc'[u] \in {"asleep", "woken"} \/ call'[u] = NoCall
    <2>1. \A u \in Thread : /\ pc'[u] = IF u = t THEN "asleep" ELSE pc[u]
                            /\ call'[u] = IF u = t THEN c ELSE call[u]
      BY <1>2, Types, Zenon
    <2> QED BY <2>1, Zenon DEF TypeOK, Waiting
  <1> QED BY <1>1, <1>2, <1>3, <1>4, Zenon DEF TypeOK, Waiting

(* A thread of the type TypeOK gives it leaves user mode for good. *)
LEMMA EndType ==
  ASSUME TypeOK, NEW t \in Thread, pc[t] = "user", pc' = [pc EXCEPT ![t] = "done"],
         call' = call
  PROVE  /\ pc' \in [Thread -> {"none", "user", "asleep", "woken", "done"}]
         /\ \A u \in Thread : pc'[u] \in {"asleep", "woken"} \/ call'[u] = NoCall
  <1>1. pc' \in [Thread -> {"none", "user", "asleep", "woken", "done"}]
    BY Types, Zenon
  <1>2. \A u \in Thread : pc'[u] = IF u = t THEN "done" ELSE pc[u]
    BY Types, Zenon
  <1>3. call[t] = NoCall
    <2>1. pc[t] \notin {"asleep", "woken"}
      OBVIOUS
    <2> QED BY <2>1, Zenon DEF TypeOK, Waiting
  <1> QED BY <1>1, <1>2, <1>3, Zenon DEF TypeOK, Waiting

(* Process::exit. *)
LEMMA ExitType ==
  ASSUME TypeOK, NEW t \in Thread, pc[t] = "user", ExitProcess(t)
  PROVE  TypeOK'
  <1>1. CASE Hang
    BY <1>1, HangType, Zenon
  <1>2. CASE ~Hang
    <2> DEFINE p == ProcOf(t)
    <2>1. /\ files' = [files EXCEPT ![p] = Closed(@)]
          /\ threads' = [threads EXCEPT ![p] = {}]
          /\ exited' = exited \cup {p}
          /\ pc' = [pc EXCEPT ![t] = "done"]
          /\ intr' = intr \ (IF cur = t THEN {p} ELSE {})
          /\ cur' = None
          /\ UNCHANGED <<tty, typed, got, offset, moved, calls, call, hung, halted>>
      BY <1>2, Zenon DEF ExitProcess
    <2>2. p \in Proc
      BY Owner, Zenon
    <2> HIDE DEF p
    <2>3. files' \in [Proc -> Table]
      <3>1. NoFiles \in [{} -> Handle]
        BY DEF NoFiles
      <3>2. NoFiles \in Table
        BY <3>1, Zenon DEF Table
      <3> QED BY <2>1, <2>2, <3>2, Types, Zenon DEF Closed
    <2>4. /\ threads' \in [Proc -> SUBSET Thread]
          /\ \A q \in Proc : \A u \in threads'[q] : ProcOf(u) = q
      <3>1. threads' \in [Proc -> SUBSET Thread]
        BY <2>1, <2>2, Types, Zenon
      <3>2. \A q \in Proc : threads'[q] = IF q = p THEN {} ELSE threads[q]
        BY <2>1, <2>2, Types, Zenon
      <3> QED BY <3>1, <3>2, Zenon DEF TypeOK
    <2>5. intr' \subseteq Proc /\ exited' \subseteq Proc
      BY <2>1, <2>2, Zenon DEF TypeOK
    <2>6. /\ pc' \in [Thread -> {"none", "user", "asleep", "woken", "done"}]
          /\ \A u \in Thread : pc'[u] \in {"asleep", "woken"} \/ call'[u] = NoCall
      BY <2>1, EndType, Zenon
    <2> QED BY <2>1, <2>3, <2>4, <2>5, <2>6, Zenon DEF TypeOK, Waiting
  <1> QED BY <1>1, <1>2

(* The description behind a descriptor, and what a read is called with. *)
LEMMA DescType ==
  ASSUME TypeOK, NEW t \in Thread, NEW fd \in DOMAIN files[ProcOf(t)]
  PROVE  files[ProcOf(t)][fd].desc \in Desc
  <1>1. files[ProcOf(t)] \in Table
    BY Owner, Types, Zenon
  <1>2. files[ProcOf(t)][fd] \in Handle
    BY <1>1, TableFacts, Zenon
  <1> QED BY <1>2, Zenon DEF Handle

LEMMA ReadCall ==
  ASSUME TypeOK, NEW d \in Desc, NEW len \in 0..1, NEW seeks \in BOOLEAN
  PROVE  [desc |-> d, len |-> len, seeks |-> seeks, seen |-> offset[d]] \in Call
  BY Types, Zenon DEF Call

(* Every step keeps the type. *)
LEMMA NextType == TypeOK /\ [Next]_vars => TypeOK'
  <1> SUFFICES ASSUME TypeOK, [Next]_vars PROVE TypeOK'
    OBVIOUS
  <1>1. CASE UNCHANGED vars
    BY <1>1, Zenon DEF TypeOK, vars, Waiting
  <1>2. CASE Push
    <2>1. /\ Idle /\ typed < MaxTyped /\ typed' = typed + 1 /\ tty' = push(tty, typed + 1)
          /\ pc' = Woken(push_wakes(tty))
          /\ UNCHANGED <<got, intr, files, offset, moved, threads, exited, calls, call, cur, hung,
                         halted>>
      BY <1>2, Zenon DEF Push
    <2>2. typed' \in 0..MaxTyped /\ typed + 1 \in 1..MaxTyped
      BY <2>1, FileAssumption, Types
    <2>3. tty' \in Tty
      BY <2>1, <2>2, PushType, Types, Zenon
    <2>4. /\ pc' \in [Thread -> {"none", "user", "asleep", "woken", "done"}]
          /\ \A u \in Thread : pc'[u] \in {"asleep", "woken"} \/ call'[u] = NoCall
      BY <2>1, WokenType, Zenon DEF TypeOK
    <2>5. cur = None
      BY <2>1, Zenon DEF Idle
    <2> QED BY <2>1, <2>2, <2>3, <2>4, <2>5, Zenon DEF TypeOK, Waiting
  <1>3. CASE PushIntr
    <2>1. CASE Hang
      BY <2>1, HangType, Zenon
    <2>2. CASE /\ intr' = {p \in Proc : Exists(p)}
               /\ UNCHANGED <<tty, typed, got, files, offset, moved, threads, exited, pc, calls,
                              call, cur, hung, halted>>
      BY <2>2, Zenon DEF TypeOK, Waiting
    <2> QED BY <1>3, <2>1, <2>2, Zenon DEF PushIntr
  <1>4. ASSUME NEW t \in Thread, TrapHangs(t) \/ WaitHangs(t) PROVE TypeOK'
    BY <1>4, HangType, Zenon DEF TrapHangs, WaitHangs
  <1>5. ASSUME NEW t \in Thread, Trap(t) PROVE TypeOK'
    <2>1. cur' \in {t, None} /\ pc[t] = "user"
      BY <1>5, Zenon DEF Trap, Enter, Leave
    <2> QED BY <1>5, <2>1, Zenon DEF Trap, TypeOK, Waiting
  <1>6. ASSUME NEW t \in Thread, Resume(t) PROVE TypeOK'
    <2>1. cur = None /\ call[t] \in Call
      BY <1>6, Types, Zenon DEF Resume, Idle
    <2> QED BY <1>6, <2>1, TakeType, WaitType, Zenon DEF Resume
  <1>7. ASSUME NEW t \in Thread, LookupPath(t) PROVE TypeOK'
    BY <1>7, Zenon DEF LookupPath, TypeOK, Waiting
  <1>8. ASSUME NEW t \in Thread, Fork(t) PROVE TypeOK'
    <2>1. /\ Enter(t) /\ pc[ChildThread] = "none"
          /\ files' = [files EXCEPT ![Child] = files[Parent]]
          /\ threads' = [threads EXCEPT ![Child] = {ChildThread}]
          /\ pc' = [pc EXCEPT ![ChildThread] = "user"]
          /\ Leave(t)
          /\ UNCHANGED <<tty, typed, got, intr, offset, moved, exited, calls, call, hung, halted>>
      BY <1>8, Zenon DEF Fork
    <2>2. Child \in Proc /\ Parent \in Proc /\ ChildThread \in Thread /\ ProcOf(ChildThread) = Child
      BY Zenon DEF Proc, Thread, ProcOf
    <2>3. files' \in [Proc -> Table]
      BY <2>1, <2>2, Types, Zenon
    <2>4. threads' \in [Proc -> SUBSET Thread]
      BY <2>1, <2>2, Types, Zenon
    <2>5. \A p \in Proc : \A u \in threads'[p] : ProcOf(u) = p
      <3>1. \A p \in Proc : threads'[p] = IF p = Child THEN {ChildThread} ELSE threads[p]
        BY <2>1, Types, Zenon
      <3> QED BY <2>2, <3>1, Zenon DEF TypeOK
    <2>6. /\ pc' \in [Thread -> {"none", "user", "asleep", "woken", "done"}]
          /\ \A u \in Thread : pc'[u] = IF u = ChildThread THEN "user" ELSE pc[u]
      BY <2>1, Types, Zenon
    <2>7. call[ChildThread] = NoCall
      BY <2>1, <2>2, Zenon DEF TypeOK, Waiting
    <2>8. \A u \in Thread : pc'[u] \in {"asleep", "woken"} \/ call'[u] = NoCall
      BY <2>1, <2>6, <2>7, Zenon DEF TypeOK, Waiting
    <2>9. cur' \in {t, None} /\ pc'[t] = "user"
      BY <2>1, <2>6, Zenon DEF Leave, Enter
    <2> QED BY <2>1, <2>3, <2>4, <2>5, <2>6, <2>8, <2>9, Zenon DEF TypeOK, Waiting
  <1>9. ASSUME NEW t \in Thread, HandleSignal(t) \/ ExitGroup(t) PROVE TypeOK'
    <2>1. pc[t] = "user" /\ ExitProcess(t)
      BY <1>9, Owner, Zenon DEF HandleSignal, ExitGroup, Enter, TypeOK
    <2> QED BY <2>1, ExitType, Zenon
  <1>10. ASSUME NEW t \in Thread, Exit(t) PROVE TypeOK'
    <2> DEFINE p == ProcOf(t)
    <2>1. /\ threads' = [threads EXCEPT ![p] = @ \ {t}]
          /\ pc' = [pc EXCEPT ![t] = "done"] /\ pc[t] = "user" /\ cur = None
          /\ UNCHANGED <<tty, typed, got, intr, files, offset, moved, exited, calls, call, cur,
                         hung, halted>>
      BY <1>10, Zenon DEF Exit, Enter, Idle
    <2>2. p \in Proc
      BY Owner, Zenon
    <2> HIDE DEF p
    <2>3. threads' \in [Proc -> SUBSET Thread]
      BY <2>1, <2>2, Types
    <2>4. \A q \in Proc : \A u \in threads'[q] : ProcOf(u) = q
      <3>1. \A q \in Proc : threads'[q] \subseteq threads[q]
        BY <2>1, <2>2, Types
      <3> QED BY <3>1, Zenon DEF TypeOK
    <2>5. /\ pc' \in [Thread -> {"none", "user", "asleep", "woken", "done"}]
          /\ \A u \in Thread : pc'[u] \in {"asleep", "woken"} \/ call'[u] = NoCall
      BY <2>1, EndType, Zenon
    <2> QED BY <2>1, <2>3, <2>4, <2>5, Zenon DEF TypeOK, Waiting
  <1>11. ASSUME NEW t \in Thread, NEW fd \in Fd, NEW len \in 0..1, NEW seeks \in BOOLEAN,
                Read(t, fd, len, seeks)
         PROVE  TypeOK'
    <2> DEFINE d == files[ProcOf(t)][fd].desc
               c == [desc |-> d, len |-> len, seeks |-> seeks, seen |-> offset[d]]
    <2>1. cur = None /\ (TakeChar(t, c) \/ AwaitChar(t, c))
          /\ UNCHANGED <<typed, intr, files, threads, exited, calls, hung>>
      BY <1>11, Zenon DEF Read, Enter, Idle
    <2>2. c \in Call
      BY <1>11, DescType, ReadCall, Zenon DEF Read
    <2> HIDE DEF c
    <2> QED BY <2>1, <2>2, TakeType, WaitType, Zenon
  <1>12. ASSUME NEW t \in Thread, pc[t] = "user", Leave(t), Counted,
                \E d \in Desc, x \in Nat, y \in Nat :
                  offset' = [offset EXCEPT ![d] = x] /\ moved' = [moved EXCEPT ![d] = y],
                UNCHANGED <<tty, typed, got, intr, files, threads, exited, pc, call, hung, halted>>
         PROVE  TypeOK'
    <2>1. offset' \in [Desc -> Nat] /\ moved' \in [Desc -> Nat]
      BY <1>12, Types, Zenon
    <2>2. cur' \in {t, None} /\ pc'[t] = "user"
      BY <1>12, Zenon DEF Leave
    <2>3. calls' \in 0..MaxCalls
      BY <1>12, FileAssumption DEF TypeOK, Counted
    <2> QED BY <1>12, <2>1, <2>2, <2>3, Zenon DEF TypeOK, Waiting
  <1>13. ASSUME NEW t \in Thread, NEW fd \in Fd, Write(t, fd) PROVE TypeOK'
    <2> DEFINE d == files[ProcOf(t)][fd].desc
    <2>1. d \in Desc
      BY <1>13, DescType, Zenon DEF Write
    <2>2. offset[d] + 1 \in Nat /\ moved[d] + 1 \in Nat
      <3>1. offset[d] \in Nat /\ moved[d] \in Nat
        BY <2>1, Types, Zenon
      <3> QED BY <3>1
    <2>3. /\ pc[t] = "user" /\ Leave(t) /\ Counted
          /\ offset' = [offset EXCEPT ![d] = @ + 1] /\ moved' = [moved EXCEPT ![d] = @ + 1]
          /\ UNCHANGED <<tty, typed, got, intr, files, threads, exited, pc, call, hung, halted>>
      BY <1>13, Zenon DEF Write, Enter, Advance
    <2> HIDE DEF d
    <2> QED BY <1>12, <2>1, <2>2, <2>3, Zenon
  <1>14. ASSUME NEW t \in Thread, NEW fd \in Fd, NEW pos \in {0, 2}, Seek(t, fd, pos)
         PROVE  TypeOK'
    <2> DEFINE d == files[ProcOf(t)][fd].desc
    <2>1. d \in Desc
      BY <1>14, DescType, Zenon DEF Seek
    <2>2. pos \in Nat
      OBVIOUS
    <2>3. /\ pc[t] = "user" /\ Leave(t) /\ Counted
          /\ offset' = [offset EXCEPT ![d] = pos] /\ moved' = [moved EXCEPT ![d] = pos]
          /\ UNCHANGED <<tty, typed, got, intr, files, threads, exited, pc, call, hung, halted>>
      BY <1>14, Zenon DEF Seek, Enter
    <2> HIDE DEF d
    <2> QED BY <1>12, <2>1, <2>2, <2>3, Zenon
  <1>15. ASSUME NEW t \in Thread, pc[t] = "user", Leave(t), Counted,
                \E table \in Table : files' = [files EXCEPT ![ProcOf(t)] = table],
                UNCHANGED <<tty, typed, got, intr, offset, moved, threads, exited, pc, call, hung,
                            halted>>
         PROVE  TypeOK'
    <2>1. files' \in [Proc -> Table]
      BY <1>15, Owner, Types, Zenon
    <2>2. cur' \in {t, None} /\ pc'[t] = "user"
      BY <1>15, Zenon DEF Leave
    <2>3. calls' \in 0..MaxCalls
      BY <1>15, FileAssumption DEF TypeOK, Counted
    <2> QED BY <1>15, <2>1, <2>2, <2>3, Zenon DEF TypeOK, Waiting
  <1>16. ASSUME NEW t \in Thread, NEW fd \in Fd, Close(t, fd) \/ \E to \in Fd : Dup3(t, fd, to)
         PROVE  TypeOK'
    <2> DEFINE table == files[ProcOf(t)]
    <2>1. table \in Table
      BY Owner, Types, Zenon
    <2>2. [desc |-> 0] \in Handle
      BY DEF Handle, Desc
    <2>3. \A f \in Fd : Without(table, f) \in Table
      BY <2>1, <2>2, TableOps, Zenon
    <2>4. CASE Close(t, fd)
      BY <1>15, <2>3, <2>4, Zenon DEF Close, Enter
    <2>5. ASSUME NEW to \in Fd, Dup3(t, fd, to) PROVE TypeOK'
      <3> DEFINE w == Without(table, to)
                 result == IF fd \in DOMAIN w THEN With(w, to, w[fd]) ELSE w
      <3>1. w \in Table
        BY <2>3, Zenon
      <3>2. /\ pc[t] = "user" /\ Leave(t) /\ Counted
            /\ files' = [files EXCEPT ![ProcOf(t)] = result]
            /\ UNCHANGED <<tty, typed, got, intr, offset, moved, threads, exited, pc, call, hung,
                           halted>>
        BY <2>5, Zenon DEF Dup3, Enter
      <3> HIDE DEF w
      <3>3. fd \in DOMAIN w => w[fd] \in Handle
        BY <3>1, TableFacts, Zenon
      <3>4. result \in Table
        BY <3>1, <3>3, TableOps, Zenon
      <3> HIDE DEF result
      <3> QED BY <1>15, <3>2, <3>4, Zenon
    <2> QED BY <1>16, <2>4, <2>5, Zenon
  <1> QED BY <1>1, <1>2, <1>3, <1>4, <1>5, <1>6, <1>7, <1>8, <1>9, <1>10, <1>11, <1>13, <1>14,
             <1>16, Zenon DEF Next
-----------------------------------------------------------------------------
(***************************************************************************)
(* Of all steps, a push and a read are the ones that touch the terminal    *)
(* and the only ones after which a thread may have begun to wait.          *)
(***************************************************************************)
Quiet ==
  /\ UNCHANGED <<tty, typed, got>> /\ (halted => halted')
  /\ \A u \in Thread : pc'[u] = "asleep" => pc[u] = "asleep"
Reading(t, c) == ~halted /\ UNCHANGED typed /\ (TakeChar(t, c) \/ AwaitChar(t, c))
LEMMA StepKinds ==
  ASSUME TypeOK, [Next]_vars
  PROVE  Push \/ Quiet \/ \E t \in Thread, c \in Call : Reading(t, c)
  <1>1. ASSUME UNCHANGED <<tty, typed, got>>, UNCHANGED halted \/ halted' = TRUE, UNCHANGED pc
        PROVE  Quiet
    BY <1>1 DEF Quiet
  <1>2. ASSUME NEW t \in Thread, NEW v \in {"user", "done"}, pc' = [pc EXCEPT ![t] = v],
               UNCHANGED <<tty, typed, got, halted>>
        PROVE  Quiet
    <2>1. \A u \in Thread : pc'[u] = "asleep" => pc[u] = "asleep"
      BY <1>2, Types
    <2> QED BY <1>2, <2>1, Zenon DEF Quiet
  <1>3. CASE UNCHANGED vars
    BY <1>1, <1>3, Zenon DEF vars
  <1>4. CASE PushIntr
    BY <1>1, <1>4, Zenon DEF PushIntr, Hang
  <1>5. ASSUME NEW t \in Thread,
               \/ TrapHangs(t) \/ Trap(t) \/ LookupPath(t) \/ WaitHangs(t)
               \/ \E fd \in Fd : \/ Write(t, fd) \/ Close(t, fd)
                                 \/ \E pos \in {0, 2} : Seek(t, fd, pos)
                                 \/ \E to \in Fd : Dup3(t, fd, to)
        PROVE  Quiet
    <2>1. CASE TrapHangs(t) \/ WaitHangs(t) \/ Trap(t) \/ LookupPath(t)
      BY <1>1, <2>1, Zenon DEF TrapHangs, WaitHangs, Hang, Trap, LookupPath
    <2>2. ASSUME NEW fd \in Fd, Write(t, fd) \/ Close(t, fd) PROVE Quiet
      BY <1>1, <2>2, Zenon DEF Write, Close
    <2>3. ASSUME NEW fd \in Fd, NEW pos \in {0, 2}, Seek(t, fd, pos) PROVE Quiet
      BY <1>1, <2>3, Zenon DEF Seek
    <2>4. ASSUME NEW fd \in Fd, NEW to \in Fd, Dup3(t, fd, to) PROVE Quiet
      BY <1>1, <2>4, Zenon DEF Dup3
    <2> QED BY <1>5, <2>1, <2>2, <2>3, <2>4, Zenon
  <1>6. ASSUME NEW t \in Thread, Fork(t) PROVE Quiet
    BY <1>2, <1>6, Zenon DEF Fork, Thread
  <1>7. ASSUME NEW t \in Thread, HandleSignal(t) \/ ExitGroup(t) \/ Exit(t) PROVE Quiet
    <2>1. CASE Hang
      BY <1>1, <2>1, Zenon DEF Hang
    <2>2. CASE ~Hang
      BY <1>2, <1>7, <2>2, Zenon DEF HandleSignal, ExitGroup, Exit, ExitProcess
    <2> QED BY <2>1, <2>2
  <1>8. ASSUME NEW t \in Thread, Resume(t) PROVE Reading(t, call[t]) /\ call[t] \in Call
    BY <1>8, Types, Zenon DEF Resume, Idle, Running, Reading
  <1>9. ASSUME NEW t \in Thread, NEW fd \in Fd, NEW len \in 0..1, NEW seeks \in BOOLEAN,
               Read(t, fd, len, seeks)
        PROVE  \E c \in Call : Reading(t, c)
    <2> DEFINE d == files[ProcOf(t)][fd].desc
               c == [desc |-> d, len |-> len, seeks |-> seeks, seen |-> offset[d]]
    <2>1. c \in Call
      BY <1>9, DescType, ReadCall, Zenon DEF Read
    <2>2. ~halted /\ UNCHANGED typed /\ (TakeChar(t, c) \/ AwaitChar(t, c))
      BY <1>9, Zenon DEF Read, Enter, Idle, Running
    <2> QED BY <2>1, <2>2, Zenon DEF Reading
  <1> QED BY <1>3, <1>4, <1>5, <1>6, <1>7, <1>8, <1>9, Zenon DEF Next
-----------------------------------------------------------------------------
(* A character for an empty buffer wakes every reader that is asleep. *)
LEMMA PushWakesAll ==
  ASSUME TypeOK, NoSleepOnInput, NEW t \in Thread
  PROVE  Woken(push_wakes(tty))[t] # "asleep"
  <1>1. CASE pc[t] # "asleep"
    BY <1>1, WokenType, Zenon
  <1>2. CASE pc[t] = "asleep"
    <2>1. PICK c \in tty.bus.callbacks : c.waker = t
      BY <1>2, Zenon DEF NoSleepOnInput
    <2>2. "READABLE" \notin tty.bus.event
      BY <1>2, Zenon DEF NoSleepOnInput
    <2>3. c.mask = EveryEvent
      <3>1. c \in Callback
        BY <2>1, Types DEF Tty
      <3> QED BY <3>1 DEF Callback
    <2>4. c \in Fired(tty.bus, {}, {"READABLE"})
      BY <2>1, <2>2, <2>3 DEF Fired, Changed, EveryEvent
    <2>5. t \in push_wakes(tty)
      BY <2>1, <2>4, Zenon DEF push_wakes, wakes
    <2> QED BY <1>2, <2>5, Zenon DEF Woken
  <1> QED BY <1>1, <1>2

(* Every step keeps NoSleepOnInput. *)
LEMMA SleepNext ==
  ASSUME TypeOK, NoSleepOnInput, [Next]_vars
  PROVE  NoSleepOnInput'
  <1>1. CASE Push
    <2>1. tty' = push(tty, typed + 1) /\ pc' = Woken(push_wakes(tty))
      BY <1>1, Zenon DEF Push
    <2>2. tty.buf \in Seq(1..MaxTyped)
      BY Types, Zenon DEF Tty
    <2>3. Append(tty.buf, typed + 1) # <<>>
      BY <2>2
    <2>4. "READABLE" \in tty'.bus.event /\ can_read(tty')
      BY <2>1, <2>3, Zenon DEF push, can_read, change, Changed
    <2>5. \A t \in Thread : pc'[t] # "asleep"
      BY <2>1, PushWakesAll, Zenon
    <2> QED BY <2>4, <2>5, Zenon DEF NoSleepOnInput
  <1>2. ASSUME NEW t \in Thread, NEW c, TakeChar(t, c) PROVE NoSleepOnInput'
    <2>1. /\ can_read(tty) /\ tty' = pop(tty)
          /\ pc' = [Woken(pop_wakes(tty)) EXCEPT ![t] = "user"]
      BY <1>2, Zenon DEF TakeChar
    <2>2. tty.buf \in Seq(1..MaxTyped) /\ tty.buf # <<>>
      BY <2>1, Types, Zenon DEF Tty, can_read
    <2>3. "READABLE" \in tty.bus.event /\ \A u \in Thread : pc[u] # "asleep"
      BY <2>1, Zenon DEF NoSleepOnInput
    <2>4. tty'.buf = Tail(tty.buf) /\ tty'.bus.event = (tty.bus.event \ Drained(tty)) \cup {}
      BY <2>1, Zenon DEF pop, change, Changed
    <2>5. Tail(tty.buf) = <<>> <=> Len(tty.buf) = 1
      BY <2>2, HeadTail, Zenon
    <2>6. "READABLE" \in tty'.bus.event <=> can_read(tty')
      BY <2>3, <2>4, <2>5, Zenon DEF Drained, can_read
    <2>7. \A u \in Thread : pc'[u] # "asleep"
      BY <2>1, <2>3, WokenType
    <2> QED BY <2>6, <2>7, Zenon DEF NoSleepOnInput
  <1>3. ASSUME NEW t \in Thread, NEW c, AwaitChar(t, c) PROVE NoSleepOnInput'
    <2>1. ~can_read(tty) /\ tty' = await(tty, t) /\ pc' = [pc EXCEPT ![t] = "asleep"]
      BY <1>3, Zenon DEF AwaitChar
    <2>2. /\ tty'.buf = tty.buf /\ tty'.bus.event = tty.bus.event
          /\ tty'.bus.callbacks = tty.bus.callbacks \cup {[waker |-> t, mask |-> EveryEvent]}
      BY <2>1, Types, AwaitType, Zenon
    <2>3. \A u \in Thread : pc'[u] = "asleep" => pc[u] = "asleep" \/ u = t
      BY <2>1, Types, Zenon
    <2>4. \E e \in tty'.bus.callbacks : e.waker = t
      <3> DEFINE e == [waker |-> t, mask |-> EveryEvent]
      <3>1. e.waker = t
        BY Zenon
      <3> HIDE DEF e
      <3>2. e \in tty'.bus.callbacks
        BY <2>2, Zenon DEF e
      <3> QED BY <3>1, <3>2, Zenon
    <2> QED BY <2>1, <2>2, <2>3, <2>4, Zenon DEF NoSleepOnInput, can_read
  <1>4. CASE Quiet
    BY <1>4, Zenon DEF Quiet, NoSleepOnInput
  <1> QED BY <1>1, <1>2, <1>3, <1>4, StepKinds, Zenon DEF Reading

(* No reader sleeps through input. *)
THEOREM ReadersWoken == Safety => []FileInv
  <1>1. Init => FileInv
    <2>1. Init => NoSleepOnInput
      BY DEF Init, NoSleepOnInput, TtyDefault, new, can_read
    <2> QED BY <2>1, InitType, Zenon DEF FileInv
  <1>2. FileInv /\ [Next]_vars => FileInv'
    BY NextType, SleepNext, Zenon DEF FileInv
  <1> QED BY <1>1, <1>2, PTL DEF Safety
-----------------------------------------------------------------------------
(***************************************************************************)
(* The characters are numbered as they are typed.  CharsInOrder, character *)
(* by character.                                                           *)
(***************************************************************************)
Numbered(g, b, n) ==
  /\ Len(g) + Len(b) = n
  /\ \A i \in 1..Len(g) : g[i] = i
  /\ \A i \in 1..Len(b) : b[i] = Len(g) + i
InOrder == ~halted => Numbered(got, tty.buf, typed)

LEMMA NumberedIs ==
  ASSUME NEW S, NEW g \in Seq(S), NEW b \in Seq(S), NEW n \in Nat, Numbered(g, b, n)
  PROVE  g \o b = [i \in 1..n |-> i]
  <1>1. Len(g) \in Nat /\ Len(b) \in Nat /\ Len(g) + Len(b) = n
    BY DEF Numbered
  <1>2. /\ g \o b \in Seq(S) /\ Len(g \o b) = Len(g) + Len(b)
        /\ \A i \in 1..(Len(g) + Len(b)) :
             (g \o b)[i] = IF i <= Len(g) THEN g[i] ELSE b[i - Len(g)]
    OBVIOUS
  <1>3. ASSUME NEW i \in 1..n PROVE (IF i <= Len(g) THEN g[i] ELSE b[i - Len(g)]) = i
    <2>1. CASE i <= Len(g)
      BY <1>1, <2>1 DEF Numbered
    <2>2. CASE ~(i <= Len(g))
      <3>1. i - Len(g) \in 1..Len(b) /\ Len(g) + (i - Len(g)) = i
        BY <1>1, <2>2
      <3>2. b[i - Len(g)] = Len(g) + (i - Len(g))
        BY <3>1, Zenon DEF Numbered
      <3> QED BY <2>2, <3>1, <3>2, Zenon
    <2> QED BY <2>1, <2>2
  <1> DEFINE s == g \o b
  <1>4. s \in Seq(S) /\ Len(s) = n /\ \A i \in 1..n : s[i] = i
    BY <1>1, <1>2, <1>3, Zenon
  <1> HIDE DEF s
  <1>5. s = [i \in 1..n |-> i]
    BY <1>4
  <1> QED BY <1>5 DEF s

(* One more character in the buffer. *)
LEMMA NumberedPush ==
  ASSUME NEW S, NEW g \in Seq(S), NEW b \in Seq(S), NEW n \in Nat, n + 1 \in S, Numbered(g, b, n)
  PROVE  Numbered(g, Append(b, n + 1), n + 1)
  <1>1. Len(g) \in Nat /\ Len(b) \in Nat /\ Len(g) + Len(b) = n
    BY DEF Numbered
  <1>2. /\ Len(Append(b, n + 1)) = Len(b) + 1 /\ Append(b, n + 1)[Len(b) + 1] = n + 1
        /\ \A i \in 1..Len(b) : Append(b, n + 1)[i] = b[i]
    OBVIOUS
  <1> DEFINE a == Append(b, n + 1)
  <1> HIDE DEF a
  <1>3. ASSUME NEW i \in 1..(Len(b) + 1) PROVE a[i] = Len(g) + i
    <2>1. CASE i \in 1..Len(b)
      BY <1>2, <2>1, Zenon DEF Numbered, a
    <2>2. CASE i = Len(b) + 1
      <3>1. n + 1 = Len(g) + i
        BY <1>1, <2>2
      <3> QED BY <1>2, <2>2, <3>1, Zenon DEF a
    <2>3. i \in 1..Len(b) \/ i = Len(b) + 1
      BY <1>1
    <2> QED BY <2>1, <2>2, <2>3
  <1>4. Len(g) + (Len(b) + 1) = n + 1
    BY <1>1
  <1> QED BY <1>2, <1>3, <1>4, Zenon DEF Numbered, a

(* The first character of the buffer is handed to a reader. *)
LEMMA NumberedTake ==
  ASSUME NEW S, NEW g \in Seq(S), NEW b \in Seq(S), b # <<>>, NEW n \in Nat, Numbered(g, b, n)
  PROVE  Numbered(Append(g, Head(b)), Tail(b), n)
  <1>1. Len(g) \in Nat /\ Len(g) + Len(b) = n
    BY DEF Numbered
  <1>2. /\ Len(b) \in Nat /\ Len(b) >= 1 /\ Head(b) = b[1] /\ Head(b) \in S
        /\ Len(Tail(b)) = Len(b) - 1
        /\ \A i \in 1..(Len(b) - 1) : Tail(b)[i] = b[i + 1]
    BY HeadTail, Zenon
  <1> DEFINE h == Append(g, Head(b))
             r == Tail(b)
  <1>3. /\ Len(h) = Len(g) + 1 /\ h[Len(g) + 1] = Head(b)
        /\ \A i \in 1..Len(g) : h[i] = g[i]
    BY <1>2
  <1> HIDE DEF h, r
  <1>4. Len(h) + Len(r) = n
    BY <1>1, <1>2, <1>3 DEF r
  <1>5. ASSUME NEW i \in 1..Len(h) PROVE h[i] = i
    <2>1. i \in 1..Len(g) \/ i = Len(g) + 1
      BY <1>1, <1>3
    <2>2. CASE i \in 1..Len(g)
      BY <1>3, <2>2, Zenon DEF Numbered
    <2>3. CASE i = Len(g) + 1
      <3>1. 1 \in 1..Len(b)
        BY <1>2
      <3>2. b[1] = Len(g) + 1
        BY <3>1, Zenon DEF Numbered
      <3> QED BY <1>2, <1>3, <2>3, <3>2, Zenon
    <2> QED BY <2>1, <2>2, <2>3
  <1>6. ASSUME NEW i \in 1..Len(r) PROVE r[i] = Len(h) + i
    <2>1. i \in 1..(Len(b) - 1) /\ i + 1 \in 1..Len(b)
      BY <1>2 DEF r
    <2>2. r[i] = b[i + 1]
      BY <1>2, <2>1, Zenon DEF r
    <2>3. b[i + 1] = Len(g) + (i + 1)
      BY <2>1, Zenon DEF Numbered
    <2>4. Len(g) + (i + 1) = Len(h) + i
      BY <1>1, <1>3, <2>1
    <2> QED BY <2>2, <2>3, <2>4, Zenon
  <1> QED BY <1>4, <1>5, <1>6, Zenon DEF Numbered, h, r

(* Every step keeps the order. *)
LEMMA OrderNext ==
  ASSUME TypeOK, InOrder, [Next]_vars
  PROVE  InOrder'
  <1>0. /\ tty.buf \in Seq(1..MaxTyped) /\ got \in Seq(1..MaxTyped)
    BY Types, Zenon DEF Tty
  <1>n. typed \in Nat
    BY Types, FileAssumption
  <1>1. CASE Push
    <2>1. /\ ~halted /\ typed' = typed + 1 /\ got' = got
          /\ tty'.buf = Append(tty.buf, typed + 1)
      BY <1>1, Zenon DEF Push, Idle, Running, push
    <2>2. typed + 1 \in 1..MaxTyped
      BY <1>1, <1>n, FileAssumption DEF Push
    <2>3. Numbered(got, Append(tty.buf, typed + 1), typed + 1)
      BY <1>0, <1>n, <2>1, <2>2, NumberedPush, Zenon DEF InOrder
    <2> QED BY <2>1, <2>3, Zenon DEF InOrder
  <1>2. ASSUME NEW t \in Thread, NEW c \in Call, Reading(t, c), TakeChar(t, c) PROVE InOrder'
    <2>1. /\ ~halted /\ typed' = typed /\ tty.buf # <<>> /\ tty'.buf = Tail(tty.buf)
          /\ ~halted' => got' = Append(got, Head(tty.buf))
      BY <1>2, Zenon DEF Reading, TakeChar, can_read, pop
    <2>2. Numbered(Append(got, Head(tty.buf)), Tail(tty.buf), typed)
      BY <1>0, <1>n, <2>1, NumberedTake, Zenon DEF InOrder
    <2> QED BY <2>1, <2>2, Zenon DEF InOrder
  <1>3. ASSUME NEW t \in Thread, NEW c \in Call, Reading(t, c), AwaitChar(t, c) PROVE InOrder'
    <2>1. ~halted /\ typed' = typed /\ got' = got
      BY <1>3, Zenon DEF Reading, AwaitChar
    <2>2. tty'.buf = tty.buf
      BY <1>3, Types, AwaitType, Zenon DEF AwaitChar
    <2> QED BY <2>1, <2>2, Zenon DEF InOrder
  <1>4. CASE Quiet
    BY <1>4, Zenon DEF Quiet, InOrder
  <1> QED BY <1>1, <1>2, <1>3, <1>4, StepKinds, Zenon DEF Reading

(* Every character that is typed reaches one reader, in the order of typing. *)
THEOREM CharsKeptInOrder == Safety => []CharsInOrder
  <1>1. Init => InOrder
    BY DEF Init, InOrder, Numbered, TtyDefault
  <1>2. FileInv /\ InOrder /\ [Next]_vars => InOrder'
    BY OrderNext, Zenon DEF FileInv
  <1>3. FileInv /\ InOrder => CharsInOrder
    <2> SUFFICES ASSUME TypeOK, InOrder, ~halted
                 PROVE  got \o tty.buf = [i \in 1..typed |-> i]
      BY Zenon DEF FileInv, CharsInOrder
    <2>1. tty.buf \in Seq(1..MaxTyped) /\ got \in Seq(1..MaxTyped)
      BY Types, Zenon DEF Tty
    <2>2. typed \in Nat
      BY Types, FileAssumption
    <2> QED BY <2>1, <2>2, NumberedIs, Zenon DEF InOrder
  <1> QED BY <1>1, <1>2, <1>3, ReadersWoken, PTL DEF Safety
-----------------------------------------------------------------------------
(* A read adds to the offset that is in force after its wait. *)
LEMMA OffsetNext ==
  ASSUME TypeOK, OffsetCounts, [Next]_vars
  PROVE  OffsetCounts'
  <1>1. CASE UNCHANGED <<offset, moved>>
    BY <1>1, Zenon DEF OffsetCounts
  <1>2. ASSUME NEW d, NEW seen, Advance(d, seen) PROVE OffsetCounts'
    BY <1>2, Zenon DEF Advance, OffsetCounts
  <1>3. ASSUME NEW t \in Thread, NEW c, TakeChar(t, c) \/ AwaitChar(t, c) PROVE OffsetCounts'
    BY <1>1, <1>2, <1>3, Zenon DEF TakeChar, AwaitChar
  <1>4. ASSUME NEW t \in Thread, NEW fd, NEW len, NEW seeks, Read(t, fd, len, seeks)
        PROVE  OffsetCounts'
    BY <1>3, <1>4, Zenon DEF Read
  <1>5. ASSUME NEW t \in Thread, Resume(t) PROVE OffsetCounts'
    BY <1>3, <1>5, Zenon DEF Resume
  <1>6. ASSUME NEW t \in Thread, NEW fd, Write(t, fd) PROVE OffsetCounts'
    BY <1>2, <1>6, Zenon DEF Write
  <1>7. ASSUME NEW t \in Thread, NEW fd, NEW pos, Seek(t, fd, pos) PROVE OffsetCounts'
    BY <1>7, Zenon DEF Seek, OffsetCounts
  <1>8. CASE Push \/ PushIntr \/ UNCHANGED vars
    BY <1>1, <1>8, Zenon DEF Push, PushIntr, Hang, vars
  <1>9. ASSUME NEW t \in Thread,
               \/ TrapHangs(t) \/ Trap(t) \/ LookupPath(t) \/ Fork(t) \/ WaitHangs(t)
               \/ HandleSignal(t) \/ ExitGroup(t) \/ Exit(t)
        PROVE  UNCHANGED <<offset, moved>>
    <2>1. CASE Hang
      BY <2>1, Zenon DEF Hang
    <2>2. CASE HandleSignal(t) \/ ExitGroup(t)
      BY <2>1, <2>2, Zenon DEF HandleSignal, ExitGroup, ExitProcess
    <2>3. CASE TrapHangs(t) \/ WaitHangs(t)
      BY <2>1, <2>3, Zenon DEF TrapHangs, WaitHangs
    <2>4. CASE Trap(t) \/ LookupPath(t) \/ Fork(t) \/ Exit(t)
      BY <2>4, Zenon DEF Trap, LookupPath, Fork, Exit
    <2> QED BY <1>9, <2>2, <2>3, <2>4
  <1>10. ASSUME NEW t \in Thread, NEW fd, Close(t, fd) \/ \E to : Dup3(t, fd, to)
         PROVE  UNCHANGED <<offset, moved>>
    BY <1>10, Zenon DEF Close, Dup3
  <1> QED BY <1>1, <1>4, <1>5, <1>6, <1>7, <1>8, <1>9, <1>10, Zenon DEF Next

(* A shared description counts the bytes of all who use it. *)
THEOREM OffsetsCount == Safety => []OffsetCounts
  <1>1. Init => OffsetCounts
    BY Zenon DEF Init, OffsetCounts
  <1>2. FileInv /\ OffsetCounts /\ [Next]_vars => OffsetCounts'
    BY OffsetNext, Zenon DEF FileInv
  <1> QED BY <1>1, <1>2, ReadersWoken, PTL DEF Safety
-----------------------------------------------------------------------------
(***************************************************************************)
(* A process that has exited was forked before, and so is not forked       *)
(* again: no table of descriptors is put in the place of its empty one.    *)
(***************************************************************************)
Forked == Child \in exited => pc[ChildThread] # "none"

LEMMA ExitedNext ==
  ASSUME TypeOK, Forked, ExitedHoldsNothing, [Next]_vars
  PROVE  Forked' /\ ExitedHoldsNothing'
  <1>0. ChildThread \in Thread /\ Child \in Proc /\ Parent \in Proc /\ exited \subseteq Proc
    BY Zenon DEF Thread, Proc, TypeOK
  <1>1. ASSUME UNCHANGED <<files, exited>>, pc'[ChildThread] = "none" => pc[ChildThread] = "none"
        PROVE  Forked' /\ ExitedHoldsNothing'
    BY <1>1, Zenon DEF Forked, ExitedHoldsNothing
  <1>2. ASSUME NEW t \in Thread, NEW v, v # "none", pc' = [pc EXCEPT ![t] = v]
        PROVE  pc'[ChildThread] = "none" => pc[ChildThread] = "none"
    BY <1>0, <1>2, Types, Zenon
  <1>3. CASE Hang \/ PushIntr \/ UNCHANGED vars
    BY <1>1, <1>3, Zenon DEF Hang, PushIntr, vars
  <1>4. CASE Push
    <2>1. pc' = Woken(push_wakes(tty)) /\ UNCHANGED <<files, exited>>
      BY <1>4, Zenon DEF Push
    <2> QED BY <1>0, <1>1, <2>1, WokenType, Zenon
  <1>5. ASSUME NEW t \in Thread, NEW c, TakeChar(t, c) \/ AwaitChar(t, c),
               UNCHANGED <<files, exited>>
        PROVE  Forked' /\ ExitedHoldsNothing'
    <2>1. CASE TakeChar(t, c)
      <3>1. pc' = [Woken(pop_wakes(tty)) EXCEPT ![t] = "user"]
        BY <2>1, Zenon DEF TakeChar
      <3>2. pc'[ChildThread] = "none" => pc[ChildThread] = "none"
        BY <1>0, <3>1, WokenType, Zenon
      <3> QED BY <1>1, <1>5, <3>2, Zenon
    <2>2. CASE AwaitChar(t, c)
      <3>1. pc' = [pc EXCEPT ![t] = "asleep"]
        BY <2>2, Zenon DEF AwaitChar
      <3> QED BY <1>1, <1>2, <1>5, <3>1, Zenon
    <2> QED BY <1>5, <2>1, <2>2
  <1>6. ASSUME NEW t \in Thread, NEW fd, NEW len, NEW seeks, Read(t, fd, len, seeks)
        PROVE  Forked' /\ ExitedHoldsNothing'
    BY <1>5, <1>6, Zenon DEF Read
  <1>7. ASSUME NEW t \in Thread, Resume(t) PROVE Forked' /\ ExitedHoldsNothing'
    BY <1>5, <1>7, Zenon DEF Resume
  <1>8. ASSUME NEW t \in Thread,
               \/ TrapHangs(t) \/ Trap(t) \/ LookupPath(t) \/ WaitHangs(t)
               \/ \E fd : Write(t, fd) \/ \E pos : Seek(t, fd, pos)
        PROVE  Forked' /\ ExitedHoldsNothing'
    <2>1. CASE TrapHangs(t) \/ WaitHangs(t)
      BY <1>3, <2>1, Zenon DEF TrapHangs, WaitHangs
    <2>2. CASE Trap(t) \/ LookupPath(t)
      BY <1>1, <2>2, Zenon DEF Trap, LookupPath
    <2>3. CASE \E fd : Write(t, fd) \/ \E pos : Seek(t, fd, pos)
      BY <1>1, <2>3, Zenon DEF Write, Seek
    <2> QED BY <1>8, <2>1, <2>2, <2>3, Zenon
  <1>9. ASSUME NEW t \in Thread, Exit(t) PROVE Forked' /\ ExitedHoldsNothing'
    BY <1>1, <1>2, <1>9, Zenon DEF Exit
  <1>10. ASSUME NEW t \in Thread, NEW table, files' = [files EXCEPT ![ProcOf(t)] = table],
                DOMAIN files[ProcOf(t)] = {} => DOMAIN table = {},
                UNCHANGED <<exited, pc>>
         PROVE  Forked' /\ ExitedHoldsNothing'
    <2>1. \A p \in Proc : files'[p] = IF p = ProcOf(t) THEN table ELSE files[p]
      BY <1>10, Types, Zenon
    <2>2. Forked'
      BY <1>10, Zenon DEF Forked
    <2>3. ExitedHoldsNothing'
      BY <1>0, <1>10, <2>1, Zenon DEF ExitedHoldsNothing
    <2> QED BY <2>2, <2>3
  <1>11. ASSUME NEW t \in Thread, NEW fd, Close(t, fd) \/ \E to : Dup3(t, fd, to)
         PROVE  Forked' /\ ExitedHoldsNothing'
    <2> DEFINE table == files[ProcOf(t)]
    <2>1. CASE Close(t, fd)
      <3>1. files' = [files EXCEPT ![ProcOf(t)] = Without(table, fd)] /\ UNCHANGED <<exited, pc>>
        BY <2>1, Zenon DEF Close
      <3>2. DOMAIN table = {} => DOMAIN Without(table, fd) = {}
        BY DEF Without
      <3> QED BY <1>10, <3>1, <3>2, Zenon
    <2>2. ASSUME NEW to, Dup3(t, fd, to) PROVE Forked' /\ ExitedHoldsNothing'
      <3> DEFINE w == Without(table, to)
                 result == IF fd \in DOMAIN w THEN With(w, to, w[fd]) ELSE w
      <3>1. files' = [files EXCEPT ![ProcOf(t)] = result] /\ UNCHANGED <<exited, pc>>
        BY <2>2, Zenon DEF Dup3
      <3>2. DOMAIN table = {} => DOMAIN w = {}
        BY DEF Without
      <3> HIDE DEF w
      <3>3. DOMAIN table = {} => DOMAIN result = {}
        BY <3>2, Zenon
      <3> HIDE DEF result
      <3> QED BY <1>10, <3>1, <3>3, Zenon
    <2> QED BY <1>11, <2>1, <2>2, Zenon
  <1>12. ASSUME NEW t \in Thread, Fork(t) PROVE Forked' /\ ExitedHoldsNothing'
    <2>1. /\ pc[ChildThread] = "none" /\ files' = [files EXCEPT ![Child] = files[Parent]]
          /\ exited' = exited /\ pc' = [pc EXCEPT ![ChildThread] = "user"]
      BY <1>12, Zenon DEF Fork
    <2>2. Child \notin exited
      BY <2>1, Zenon DEF Forked
    <2>3. \A p \in exited : files'[p] = files[p]
      BY <1>0, <2>1, <2>2, Types, Zenon
    <2> QED BY <2>1, <2>2, <2>3, Zenon DEF Forked, ExitedHoldsNothing
  <1>13. ASSUME NEW t \in Thread, HandleSignal(t) \/ ExitGroup(t)
         PROVE  Forked' /\ ExitedHoldsNothing'
    <2> DEFINE p == ProcOf(t)
    <2>1. CASE Hang
      BY <1>3, <2>1
    <2>2. CASE ~Hang
      <3>1. /\ files' = [files EXCEPT ![p] = NoFiles] /\ exited' = exited \cup {p}
            /\ pc' = [pc EXCEPT ![t] = "done"]
        BY <1>13, <2>2, Zenon DEF HandleSignal, ExitGroup, ExitProcess, Closed
      <3>2. p \in Proc /\ (p = Child => t = ChildThread)
        BY Owner, Zenon
      <3> HIDE DEF p
      <3>3. \A q \in Proc : files'[q] = IF q = p THEN NoFiles ELSE files[q]
        BY <3>1, <3>2, Types, Zenon
      <3>4. DOMAIN NoFiles = {}
        BY DEF NoFiles
      <3>5. ExitedHoldsNothing'
        BY <1>0, <3>1, <3>2, <3>3, <3>4, Zenon DEF ExitedHoldsNothing
      <3>6. pc'[t] = "done" /\ (pc'[ChildThread] = "none" => pc[ChildThread] = "none")
        BY <1>0, <3>1, Types, Zenon
      <3>7. Forked'
        BY <3>1, <3>2, <3>6, Zenon DEF Forked
      <3> QED BY <3>5, <3>7
    <2> QED BY <2>1, <2>2
  <1> QED BY <1>3, <1>4, <1>6, <1>7, <1>8, <1>9, <1>11, <1>12, <1>13, Zenon DEF Next

(* A process that has exited holds no file again. *)
THEOREM ExitedStayEmpty == Safety => []ExitedHoldsNothing
  <1>1. Init => Forked /\ ExitedHoldsNothing
    BY Zenon DEF Init, Forked, ExitedHoldsNothing
  <1>2. FileInv /\ Forked /\ ExitedHoldsNothing /\ [Next]_vars => Forked' /\ ExitedHoldsNothing'
    BY ExitedNext, Zenon DEF FileInv
  <1> QED BY <1>1, <1>2, ReadersWoken, PTL DEF Safety
=============================================================================
