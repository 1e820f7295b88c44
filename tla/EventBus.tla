------------------------------ MODULE EventBus ------------------------------
(***************************************************************************)
(* sync/event_bus.rs as operators on a bus, a record of the events that    *)
(* are set and the callbacks that are subscribed.  A callback is the waker *)
(* of a task together with the events it waits for.                        *)
(* Every operator is one region under the lock of the bus.                 *)
(***************************************************************************)

\* EventBus::new.
new == [event |-> {}, callbacks |-> {}]

\* The events of a bus after change(reset, set).
Changed(bus, reset, set) == (bus.event \ reset) \cup set

\* The mask of a callback that returns TRUE whatever the events (SleepFuture,
\* SerialFuture).
EveryEvent == {"ANY"}

\* The callbacks that return TRUE, which wake their task and are dropped.
\* No callback runs when the events stay as they are.
Fired(bus, reset, set) ==
  LET e == Changed(bus, reset, set)
  IN  {c \in bus.callbacks : e # bus.event /\ c.mask \cap (e \cup EveryEvent) # {}}

\* EventBus::change, and the wakers it calls.
change(bus, reset, set) ==
  [event     |-> Changed(bus, reset, set),
   callbacks |-> bus.callbacks \ Fired(bus, reset, set)]
wakes(bus, reset, set) == {c.waker : c \in Fired(bus, reset, set)}

\* EventBus::subscribe, as the futures use it.
subscribe(bus, waker, mask) ==
  [bus EXCEPT !.callbacks = @ \cup {[waker |-> waker, mask |-> mask]}]

\* Mutant of ready: compares the events instead of masking them.
Mut_ready(bus, mask) == bus.event = mask

\* EventBusFuture::poll: is the future ready?
ready(bus, mask) == bus.event \cap mask # {}
=============================================================================
