------------------------------ MODULE Terminal ------------------------------
(***************************************************************************)
(* fs/devfs/tty.rs as operators on a terminal: the characters typed and    *)
(* not yet read, and the event bus that readers subscribe to.              *)
(***************************************************************************)
EXTENDS EventBus, Sequences

TtyDefault == [buf |-> <<>>, bus |-> new]

\* TtyINode::can_read.
can_read(tty) == tty.buf # <<>>

\* Mutant of push: the character goes to the front.
Mut_push(tty, c) ==
  [buf |-> <<c>> \o tty.buf, bus |-> change(tty.bus, {}, {"READABLE"})]

\* TtyINode::push of an ordinary character, and the readers it wakes.
push(tty, c) ==
  [buf |-> Append(tty.buf, c), bus |-> change(tty.bus, {}, {"READABLE"})]
push_wakes(tty) == wakes(tty.bus, {}, {"READABLE"})

\* Mutant of Drained: READABLE stays set when the last character is taken.
Mut_Drained(tty) == {}

\* The events TtyINode::pop clears.
Drained(tty) == IF Len(tty.buf) = 1 THEN {"READABLE"} ELSE {}

\* TtyINode::pop, and the readers it wakes: their callbacks look at no event.
pop(tty) ==
  [buf |-> Tail(tty.buf), bus |-> change(tty.bus, Drained(tty), {})]
pop_wakes(tty) == wakes(tty.bus, Drained(tty), {})

\* SerialFuture::poll, pending.
await(tty, waker) == [tty EXCEPT !.bus = subscribe(@, waker, EveryEvent)]
=============================================================================
