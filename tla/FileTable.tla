----------------------------- MODULE FileTable ------------------------------
(***************************************************************************)
(* The open files of a process and its forked child, all of them handles   *)
(* on the terminal: the file calls of syscall/fs.rs, FileHandle of         *)
(* fs/file.rs, the part of Thread::new_user, Thread::fork and              *)
(* Process::exit that is about files, and the terminal itself.             *)
(*                                                                         *)
(* sys_read keeps the lock of its process while it waits for input, and a  *)
(* lock that is not free is spun on with interrupts off: `hung` is a CPU   *)
(* that spins on the lock of a waiting reader, which it keeps from ever    *)
(* running again.  ROOT_INODE is todo!(), so a call that looks up a path   *)
(* from the working directory panics: `halted`.                            *)
(***************************************************************************)
EXTENDS Terminal, Integers, FiniteSets

CONSTANTS
  Parent, Child,       \* two processes
  ParentThread,        \* threads of the parent
  FirstThread,         \* the one that Thread::new_user made: it is not listed
  ChildThread,         \* the one thread of the child
  Fd,                  \* the descriptor numbers in use
  MaxTyped,            \* bound on the characters typed
  MaxCalls,            \* bound on the calls of write, lseek, close and dup3
  None

Proc == {Parent, Child}
Thread == ParentThread \cup {ChildThread}
ProcOf(t) == IF t = ChildThread THEN Child ELSE Parent

ASSUME FileAssumption ==
  /\ Fd \in SUBSET Nat /\ {0, 1, 2} \subseteq Fd
  /\ MaxTyped \in Nat /\ MaxCalls \in Nat
  /\ Parent # Child /\ ChildThread \notin ParentThread
  /\ FirstThread \in ParentThread
  /\ None \notin Thread \cup Proc

VARIABLES
  tty,      \* TTY
  typed,    \* the characters typed so far
  got,      \* the characters handed to readers so far
  intr,     \* the processes with a SIGINT in their queue
  files,    \* Process.files: the handle behind each descriptor
  offset,   \* OpenFileDescription.offset of each description
  moved,    \* the bytes moved through each description since it was placed
  threads,  \* Process.threads
  exited,   \* the processes that have gone through Process::exit
  pc,       \* where each thread is
  calls,    \* calls of write, lseek, close and dup3 so far
  call,     \* the read each waiting thread is in
  cur,      \* the thread in handle_signal
  hung,     \* the CPU spins on a lock for ever
  halted    \* the kernel has panicked

vars == <<tty, typed, got, intr, files, offset, moved, threads, exited, pc, calls, call, cur,
          hung, halted>>

\* OpenFileDescription: the three that Thread::new_user creates.  Nothing else
\* creates one while no path can be looked up.
Desc == 0..2
OpenOptions == [d \in Desc |-> [read |-> d = 0, write |-> d # 0]]
Handle == [desc : Desc]
NoFiles == [fd \in {} |-> None]
NoCall == [desc |-> 0, len |-> 0, seeks |-> FALSE, seen |-> 0]

Running == ~hung /\ ~halted
Idle == Running /\ cur = None

\* The processes whose lock a waiting reader holds across the await of sys_read.
Waiting(t) == pc[t] \in {"asleep", "woken"}
Locked(p) == \E t \in Thread : ProcOf(t) = p /\ Waiting(t)
-----------------------------------------------------------------------------
Init ==
  /\ tty = TtyDefault /\ typed = 0 /\ got = <<>> /\ intr = {}
  /\ files = [p \in Proc |-> IF p = Parent
                             THEN [fd \in Desc |-> [desc |-> fd]]
                             ELSE NoFiles]
  /\ offset = [d \in Desc |-> 0] /\ moved = [d \in Desc |-> 0]
  /\ threads = [p \in Proc |-> IF p = Parent THEN ParentThread \ {FirstThread} ELSE {}]
  /\ exited = {}
  /\ pc = [t \in Thread |-> IF t = ChildThread THEN "none" ELSE "user"]
  /\ calls = 0 /\ call = [t \in Thread |-> NoCall]
  /\ cur = None /\ hung = FALSE /\ halted = FALSE
-----------------------------------------------------------------------------
\* wake() of readers that wait for the terminal.
Woken(readers) ==
  [t \in Thread |-> IF t \in readers /\ pc[t] = "asleep" THEN "woken" ELSE pc[t]]

\* The CPU spins on the lock of a process that a waiting reader holds.
Hang ==
  /\ hung' = TRUE
  /\ UNCHANGED <<tty, typed, got, intr, files, offset, moved, threads, exited, pc, calls, call,
                 cur, halted>>

\* TtyINode::push: a driver hands over an ordinary character.
Push ==
  /\ Idle /\ typed < MaxTyped
  /\ typed' = typed + 1
  /\ tty' = push(tty, typed + 1)
  /\ pc' = Woken(push_wakes(tty))
  /\ UNCHANGED <<got, intr, files, offset, moved, threads, exited, calls, call, cur, hung,
                 halted>>

\* TtyINode::push of INTR: process_group locks every process in turn, then each
\* gets a SIGINT.  The foreground group 0 is the one all processes are in.
Exists(p) == p = Parent \/ pc[ChildThread] # "none"
PushIntr ==
  /\ Idle
  /\ \/ (\E p \in Proc : Locked(p)) /\ Hang
     \/ /\ \A p \in Proc : ~Locked(p)
        /\ intr' = {p \in Proc : Exists(p)}
        /\ UNCHANGED <<tty, typed, got, files, offset, moved, threads, exited, pc, calls, call,
                       cur, hung, halted>>
-----------------------------------------------------------------------------
\* Every trap of a thread locks its process: Syscall::syscall does so first, and
\* handle_signal at the end.
Enter(t) == Idle /\ pc[t] = "user" /\ ~Locked(ProcOf(t))
TrapHangs(t) == Idle /\ pc[t] = "user" /\ Locked(ProcOf(t)) /\ Hang

\* Mutant of Leave: the thread returns to user mode without a look at the queue.
Mut_Leave(t) == cur' = None

\* The end of a trap: handle_signal has something to do if there is a SIGINT.
Leave(t) == cur' = IF ProcOf(t) \in intr THEN t ELSE None

\* The calls that a bound is put on.
Counted == calls < MaxCalls /\ calls' = calls + 1

\* A trap that changes nothing else: an interrupt, or a call that fails.
Trap(t) ==
  /\ Enter(t) /\ ProcOf(t) \in intr
  /\ Leave(t)
  /\ UNCHANGED <<tty, typed, got, intr, files, offset, moved, threads, exited, pc, calls, call,
                 hung, halted>>

\* Mutant of Advance: the offset read before the wait is used after it.
Mut_Advance(d, seen) ==
  /\ offset' = [offset EXCEPT ![d] = seen + 1]
  /\ moved' = [moved EXCEPT ![d] = @ + 1]

\* The offset of a description moves with the bytes.  `seen` is the offset that
\* FileHandle::read handed to read_at before it waited.
Advance(d, seen) ==
  /\ offset' = [offset EXCEPT ![d] = @ + 1]
  /\ moved' = [moved EXCEPT ![d] = @ + 1]

\* TtyINode::read_at with input, and what FileHandle::read does after it.  A
\* buffer of length 0 cannot take the character: the index panics.
TakeChar(t, c) ==
  /\ can_read(tty)
  /\ tty' = pop(tty)
  /\ pc' = [Woken(pop_wakes(tty)) EXCEPT ![t] = "user"]
  /\ call' = [call EXCEPT ![t] = NoCall]
  /\ IF c.len = 0
     THEN /\ halted' = TRUE
          /\ UNCHANGED <<got, offset, moved, cur>>
     ELSE /\ got' = Append(got, Head(tty.buf))
          /\ IF c.seeks THEN Advance(c.desc, c.seen) ELSE UNCHANGED <<offset, moved>>
          /\ Leave(t)
          /\ UNCHANGED halted

\* Without input the reader waits, and keeps the lock of its process.
AwaitChar(t, c) ==
  /\ ~can_read(tty)
  /\ tty' = await(tty, t)
  /\ pc' = [pc EXCEPT ![t] = "asleep"]
  /\ call' = [call EXCEPT ![t] = c]
  /\ UNCHANGED <<got, offset, moved, cur, halted>>

\* sys_read, or sys_pread if it does not seek.
Read(t, fd, len, seeks) ==
  /\ Enter(t)
  /\ fd \in DOMAIN files[ProcOf(t)]
  /\ LET d == files[ProcOf(t)][fd].desc
         c == [desc |-> d, len |-> len, seeks |-> seeks, seen |-> offset[d]]
     IN  OpenOptions[d].read /\ (TakeChar(t, c) \/ AwaitChar(t, c))
  /\ UNCHANGED <<typed, intr, files, threads, exited, calls, hung>>

\* Mutant of Resume: the process is locked once more before the read.
Mut_Resume(t) ==
  /\ Idle /\ pc[t] = "woken" /\ ~Locked(ProcOf(t))
  /\ TakeChar(t, call[t]) \/ AwaitChar(t, call[t])
  /\ UNCHANGED <<typed, intr, files, threads, exited, calls, hung>>

\* The executor polls a reader: the loop of FileHandle::read_at.
Resume(t) ==
  /\ Idle /\ pc[t] = "woken"
  /\ TakeChar(t, call[t]) \/ AwaitChar(t, call[t])
  /\ UNCHANGED <<typed, intr, files, threads, exited, calls, hung>>

\* sys_write: the terminal takes every byte; one is written here.
Write(t, fd) ==
  /\ Enter(t) /\ Counted
  /\ fd \in DOMAIN files[ProcOf(t)]
  /\ LET d == files[ProcOf(t)][fd].desc
     IN  OpenOptions[d].write /\ Advance(d, offset[d])
  /\ Leave(t)
  /\ UNCHANGED <<tty, typed, got, intr, files, threads, exited, pc, call, hung, halted>>

\* sys_lseek: SEEK_SET is no constant in scope, so the first arm takes every whence.
Seek(t, fd, pos) ==
  /\ Enter(t) /\ Counted
  /\ fd \in DOMAIN files[ProcOf(t)]
  /\ LET d == files[ProcOf(t)][fd].desc
     IN  offset' = [offset EXCEPT ![d] = pos] /\ moved' = [moved EXCEPT ![d] = pos]
  /\ Leave(t)
  /\ UNCHANGED <<tty, typed, got, intr, files, threads, exited, pc, call, hung, halted>>
-----------------------------------------------------------------------------
Without(table, fd) == [f \in DOMAIN table \ {fd} |-> table[f]]
With(table, fd, handle) == [f \in DOMAIN table \cup {fd} |-> IF f = fd THEN handle ELSE table[f]]

\* sys_close.
Close(t, fd) ==
  /\ Enter(t) /\ Counted
  /\ fd \in DOMAIN files[ProcOf(t)]
  /\ files' = [files EXCEPT ![ProcOf(t)] = Without(@, fd)]
  /\ Leave(t)
  /\ UNCHANGED <<tty, typed, got, intr, offset, moved, threads, exited, pc, call, hung, halted>>

\* sys_dup3: fd2 is closed before fd1 is looked up.
Dup3(t, fd1, fd2) ==
  /\ Enter(t) /\ Counted
  /\ LET table == Without(files[ProcOf(t)], fd2)
     IN  files' = [files EXCEPT ![ProcOf(t)] =
           IF fd1 \in DOMAIN table
           THEN With(table, fd2, table[fd1])
           ELSE table]
  /\ Leave(t)
  /\ UNCHANGED <<tty, typed, got, intr, offset, moved, threads, exited, pc, call, hung, halted>>

\* A call that looks up a path from the working directory: lookup_inode_at reads
\* ROOT_INODE.  (From any descriptor there is, the lookup fails.)
LookupPath(t) ==
  /\ Enter(t)
  /\ halted' = TRUE
  /\ UNCHANGED <<tty, typed, got, intr, files, offset, moved, threads, exited, pc, calls, call,
                 cur, hung>>

\* Thread::fork: the child shares the open file descriptions.
Fork(t) ==
  /\ Enter(t) /\ t \in ParentThread /\ pc[ChildThread] = "none"
  /\ files' = [files EXCEPT ![Child] = files[Parent]]
  /\ threads' = [threads EXCEPT ![Child] = {ChildThread}]
  /\ pc' = [pc EXCEPT ![ChildThread] = "user"]
  /\ Leave(t)
  /\ UNCHANGED <<tty, typed, got, intr, offset, moved, exited, calls, call, hung, halted>>

\* sys_wait4 locks the child to see whether it has exited.
WaitHangs(t) == Enter(t) /\ t \in ParentThread /\ Locked(Child) /\ Hang
-----------------------------------------------------------------------------
\* Mutant of Closed: the standard output survives.
Mut_Closed(table) == [f \in DOMAIN table \cap {1} |-> table[f]]

\* The loop of Process::exit over the descriptors.
Closed(table) == NoFiles

\* Process::exit by thread t, up to its lock on the parent and past it.
ExitProcess(t) ==
  LET p == ProcOf(t)
  IN  \/ p = Child /\ Locked(Parent) /\ Hang
      \/ /\ p = Parent \/ ~Locked(Parent)
         /\ files' = [files EXCEPT ![p] = Closed(@)]
         /\ threads' = [threads EXCEPT ![p] = {}]
         /\ exited' = exited \cup {p}
         /\ pc' = [pc EXCEPT ![t] = "done"]
         /\ intr' = intr \ (IF cur = t THEN {p} ELSE {})
         /\ cur' = None
         /\ UNCHANGED <<tty, typed, got, offset, moved, calls, call, hung, halted>>

\* handle_signal: the default action of SIGINT.
HandleSignal(t) == Running /\ cur = t /\ ExitProcess(t)

\* sys_exit_group, and sys_exit of the last thread that is listed.
ExitGroup(t) == Enter(t) /\ ExitProcess(t)

\* sys_exit of another thread.
Exit(t) ==
  /\ Enter(t)
  /\ threads[ProcOf(t)] \ {t} # {}
  /\ threads' = [threads EXCEPT ![ProcOf(t)] = @ \ {t}]
  /\ pc' = [pc EXCEPT ![t] = "done"]
  /\ UNCHANGED <<tty, typed, got, intr, files, offset, moved, exited, calls, call, cur, hung,
                 halted>>
-----------------------------------------------------------------------------
Next ==
  \/ Push \/ PushIntr
  \/ \E t \in Thread :
       \/ TrapHangs(t) \/ Trap(t) \/ Resume(t) \/ LookupPath(t) \/ Fork(t) \/ WaitHangs(t)
       \/ HandleSignal(t) \/ ExitGroup(t) \/ Exit(t)
       \/ \E fd \in Fd :
            \/ \E len \in 0..1, seeks \in BOOLEAN : Read(t, fd, len, seeks)
            \/ Write(t, fd) \/ Close(t, fd)
            \/ \E pos \in {0, 2} : Seek(t, fd, pos)
            \/ \E to \in Fd : Dup3(t, fd, to)

\* The executor polls every reader that was woken, the timer interrupts a thread
\* in user mode, and a trap runs to its end.
Fairness ==
  \A t \in Thread :
    WF_vars(Resume(t)) /\ WF_vars(HandleSignal(t)) /\ WF_vars(Trap(t) \/ TrapHangs(t))

Safety == Init /\ [][Next]_vars
Spec == Safety /\ Fairness
-----------------------------------------------------------------------------
(***************************************************************************)
(* Properties.                                                             *)
(***************************************************************************)
Callback == [waker : Thread, mask : {EveryEvent}]
Tty == [buf : Seq(1..MaxTyped), bus : [event : SUBSET {"READABLE"}, callbacks : SUBSET Callback]]
Table == UNION {[D -> Handle] : D \in SUBSET Fd}
Call == [desc : Desc, len : 0..1, seeks : BOOLEAN, seen : Nat]

\* The type of the state: a descriptor stands for a description of
\* Thread::new_user, only a thread that waits is in a read, and only a thread
\* that is in the kernel handles signals.
TypeOK ==
  /\ tty \in Tty /\ got \in Seq(1..MaxTyped) /\ typed \in 0..MaxTyped
  /\ intr \subseteq Proc /\ exited \subseteq Proc
  /\ files \in [Proc -> Table]
  /\ threads \in [Proc -> SUBSET Thread]
  /\ \A p \in Proc : \A t \in threads[p] : ProcOf(t) = p
  /\ offset \in [Desc -> Nat] /\ moved \in [Desc -> Nat]
  /\ pc \in [Thread -> {"none", "user", "asleep", "woken", "done"}]
  /\ calls \in 0..MaxCalls
  /\ call \in [Thread -> Call] /\ \A t \in Thread : Waiting(t) \/ call[t] = NoCall
  /\ cur \in Thread \cup {None} /\ (cur # None => pc[cur] = "user")
  /\ hung \in BOOLEAN /\ halted \in BOOLEAN

\* No reader sleeps through input: while a reader is asleep the buffer is empty,
\* READABLE is not set, so the next character changes the events, and the
\* reader's callback is on the bus.  READABLE is set exactly while there is
\* input, however pushes, reads and polls of several readers interleave.
NoSleepOnInput ==
  /\ "READABLE" \in tty.bus.event <=> can_read(tty)
  /\ \A t \in Thread : pc[t] = "asleep" =>
       ~can_read(tty) /\ \E c \in tty.bus.callbacks : c.waker = t

\* What the run checks of it: no reader of TtyINode sleeps through input
\* (NoSleepOnInput), in a state of the right type, whatever fork and exit do.
FileInv == TypeOK /\ NoSleepOnInput

\* Every character typed reaches exactly one reader, in the order of typing: the
\* ones handed out, followed by the ones in the buffer, are the ones typed.
\* Only the panic of a read into an empty buffer loses one.
CharsInOrder == ~halted => got \o tty.buf = [i \in 1..typed |-> i]

\* A description that is shared by dup3 and fork counts the bytes of all who use
\* it, also when a reader waits in between: FileHandle::read takes the offset
\* before the wait and adds to it after.
OffsetCounts == offset = moved

\* A process that has exited holds no file again, whatever its threads that are
\* still there call.
ExitedHoldsNothing == \A p \in exited : DOMAIN files[p] = {}

\* INTR reaches every process of the group: a thread takes the SIGINT from the
\* queue and calls Process::exit, because the loop of Thread::spawn looks for
\* signals after every trap, the reads that wait included.  It stays in the queue
\* only if the machine stops, if the process has no thread left to take it, or if
\* a reader holds the lock of the process and waits for ever: no signal ends the
\* wait.  (The other threads run on: Process::exit stops none of them.)
IntrTaken ==
  \A p \in Proc :
    (p \in intr) ~> \/ p \notin intr /\ p \in exited
                   \/ \A t \in Thread : ProcOf(t) = p => pc[t] = "done"
                   \/ []Locked(p)
                   \/ hung \/ halted

\* Input does not stay in the buffer while a reader waits, unless the machine
\* stops.
InputConsumed ==
  (can_read(tty) /\ \E t \in Thread : Waiting(t))
    ~> (~can_read(tty) \/ (\A t \in Thread : ~Waiting(t)) \/ hung \/ halted)
=============================================================================
