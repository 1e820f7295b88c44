-------------------------------- MODULE Timer --------------------------------
(***************************************************************************)
(* The clock and the timer queue: arch/aarch64/timer.rs and task/timer.rs. *)
(* Timer.events is a map from deadlines to wakers; it is kept here as the  *)
(* set of its entries.  Each operator is one region under TIMER.lock().    *)
(***************************************************************************)
EXTENDS Integers, FiniteSets

CONSTANTS
  Nsec,    \* nanoseconds in a second, scaled down
  Freq,    \* CNTFRQ_EL0, scaled down
  Width    \* the product CNTPCT_EL0 * Nsec is kept modulo Width (2^64)

ASSUME ClockAssumption ==
  Nsec \in Nat \ {0} /\ Freq \in Nat \ {0} /\ Width \in Nat \ {0}

\* GenericTimer::read_ns: the product wraps, the quotient is cut.
read_ns(count) == ((count * Nsec) % Width) \div Freq

\* The key that Timer::add ends at: the first free one from the deadline on.
Taken(events, key) == \E e \in events : e.deadline = key
FreeKey(events, deadline, key) ==
  /\ key >= deadline
  /\ ~Taken(events, key)
  /\ \A k \in deadline..(key - 1) : Taken(events, k)

\* Mutant of add: an entry with the same deadline is replaced.
Mut_add(events, deadline, waker, after) ==
  after = {e \in events : e.deadline # deadline}
            \cup {[deadline |-> deadline, waker |-> waker]}

\* Timer::add, as a relation between the queue before and after.
add(events, deadline, waker, after) ==
  \E key \in deadline..(deadline + Cardinality(events)) :
    /\ FreeKey(events, deadline, key)
    /\ after = events \cup {[deadline |-> key, waker |-> waker]}

\* Timer::expire: the entries that are removed, and the wakers it calls.
Expired(events, now) == {e \in events : e.deadline <= now}
expire(events, now) == events \ Expired(events, now)
expired_wakers(events, now) == {e.waker : e \in Expired(events, now)}
=============================================================================
