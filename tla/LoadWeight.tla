----------------------------- MODULE LoadWeight -----------------------------
(***************************************************************************)
(* The weight arithmetic of task/executor/mod.rs: the part of a scheduling *)
(* period that a task is granted (the slices of Executor), and the rate at *)
(* which its vruntime advances (Executor's Scale).  Both multiply by a     *)
(* weight and divide by another in fixed point, through a 32-bit inverse.  *)
(*                                                                         *)
(* The width of the fixed point numbers is a parameter: with WMULT_SHIFT   *)
(* bits every intermediate value of calc_delta fits 2 * WMULT_SHIFT bits,  *)
(* as it fits 64 in the code.  Times are in microseconds.                  *)
(***************************************************************************)
EXTENDS Executor, Sequences, FiniteSetsExt

CONSTANTS
  WMULT_SHIFT,            \* 32 in the code
  Nice,                   \* the nice levels of the tasks
  SCHED_MIN_GRANULARITY,  \* 750
  SCHED_NR_LATENCY        \* 8

SCHED_LATENCY == SCHED_NR_LATENCY * SCHED_MIN_GRANULARITY

\* NICE_TO_WEIGHT, whose first entry is that of nice -20.
nice_to_weight(nice) ==
  << 88761, 71755, 56483, 46273, 36291, 29154, 23254, 18705, 14949, 11916,
      9548,  7620,  6100,  4904,  3906,  3121,  2501,  1991,  1586,  1277,
      1024,   820,   655,   526,   423,   335,   272,   215,   172,   137,
       110,    87,    70,    56,    45,    36,    29,    23,    18,    15 >>[nice + 21]

NICE_0_WEIGHT == nice_to_weight(0)

\* 1 << n; x >> n is x \div pow2[n].
pow2[n \in Nat] == IF n = 0 THEN 1 ELSE 2 * pow2[n - 1]

WMULT_CONST == pow2[WMULT_SHIFT] - 1

\* Every load of a run queue fits WMULT_SHIFT bits, as that of 48,000 tasks
\* of the largest weight does in the code.
ASSUME WeightAssumption ==
  /\ WMULT_SHIFT \in Nat \ {0}
  /\ IsFiniteSet(Task)
  /\ Nice \subseteq -20..19
  /\ \A nice \in Nice : Cardinality(Task) * nice_to_weight(nice) <= WMULT_CONST
  /\ NICE_0_WEIGHT <= WMULT_CONST
  /\ SCHED_MIN_GRANULARITY \in Nat \ {0}
  /\ SCHED_NR_LATENCY \in Nat \ {0}

\* LoadWeight::inv_weight; the cached inverse is None in every LoadWeight.
inv_weight(weight) ==
  IF weight = 0 THEN WMULT_CONST
  ELSE IF weight <= WMULT_CONST THEN WMULT_CONST \div weight
  ELSE 1

\* How often a loop of calc_delta halves fact until it fits.
halvings(fact) ==
  CHOOSE n \in 0..(2 * WMULT_SHIFT) :
    /\ fact \div pow2[n] <= WMULT_CONST
    /\ \A m \in 0..(n - 1) : fact \div pow2[m] > WMULT_CONST

\* fact and shift after the two loops of calc_delta.
scaled(weight, lw) ==
  LET n == halvings(weight)
      fact == (weight \div pow2[n]) * inv_weight(lw)
      m == halvings(fact)
  IN  [fact |-> fact \div pow2[m], shift |-> WMULT_SHIFT - n - m]

\* Mutant of calc_delta: the product is rounded up.
Mut_calc_delta(delta_exec, weight, lw) ==
  LET s == scaled(weight, lw) IN (delta_exec * s.fact) \div pow2[s.shift] + 1

calc_delta(delta_exec, weight, lw) ==
  LET s == scaled(weight, lw) IN (delta_exec * s.fact) \div pow2[s.shift]

sched_period(nr) ==
  IF nr > SCHED_NR_LATENCY THEN nr * SCHED_MIN_GRANULARITY ELSE SCHED_LATENCY

\* Mutant of sched_slice: the load of a task off the queue is not added.
Mut_sched_slice(nr, load, weight, on) ==
  calc_delta(sched_period(IF on THEN nr ELSE nr + 1), weight, load)

\* RunQueue::sched_slice of a task of this weight, on or off the queue.
sched_slice(nr, load, weight, on) ==
  calc_delta(sched_period(IF on THEN nr ELSE nr + 1), weight,
             IF on THEN load ELSE load + weight)

\* SchedTask::delta_fair, which Executor writes as a factor per task.
weighted(delta_exec, weight) ==
  IF weight = NICE_0_WEIGHT THEN delta_exec
  ELSE calc_delta(delta_exec, NICE_0_WEIGHT, weight)

\* RunQueue::sched_vslice.
sched_vslice(nr, load, weight, on) ==
  weighted(sched_slice(nr, load, weight, on), weight)
-----------------------------------------------------------------------------
\* nr_running and load change together; as long as the first is right, so is
\* the second.
CountRight == nr_running > 0 /\ nr_running = Cardinality(counted)

\* The weights that n tasks may have, and the load of a queue of them.
Weights(n) == [1..n -> {nice_to_weight(nice) : nice \in Nice}]
total(W) == MapThenSumSet(LAMBDA i : W[i], DOMAIN W)

\* What the truncations of the inverse, of fact and of the result may cost.
short(d, w) == 2 + (3 * d * w) \div pow2[WMULT_SHIFT]

\* calc_delta(d, w, lw) is d * w / lw but for the truncations.
Exact(d, w, lw) ==
  LET exact == (d * w) \div lw
  IN  /\ calc_delta(d, w, lw) <= exact
      /\ exact - calc_delta(d, w, lw) <= short(d, w)

\* Sizes of the queue at which the claims of the properties below hold,
\* whatever the nice levels of the tasks.
ExactSizes ==
  {n \in 1..Cardinality(Task) : \A W \in Weights(n) : \A i \in 1..n :
     /\ scaled(W[i], total(W)).shift > 0
     /\ scaled(NICE_0_WEIGHT, W[i]).shift >= WMULT_SHIFT - 10
     /\ \A d \in {0, 1, SCHED_MIN_GRANULARITY, sched_period(n)} :
          Exact(d, W[i], total(W)) /\ Exact(d, NICE_0_WEIGHT, W[i])}

FittingSizes ==
  {n \in 1..Cardinality(Task) : \A W \in Weights(n) :
     LET slice == [i \in 1..n |-> sched_slice(n, total(W), W[i], TRUE)]
         debit(i) == sched_slice(n - 1, total(W) - W[i], W[i], FALSE)
     IN  /\ total(slice) <= sched_period(n)
         /\ \A i \in 1..n : total([slice EXCEPT ![i] = debit(i)]) <= sched_period(n)
         /\ (\A i \in 1..n : W[i] = W[1]) =>
              slice[1] + short(sched_period(n), W[1]) >= SCHED_MIN_GRANULARITY}

FairSizes ==
  {n \in 1..Cardinality(Task) : \A W \in Weights(n) : \A i \in 1..n :
     LET fair == (sched_period(n) * NICE_0_WEIGHT) \div total(W)
         vs == sched_vslice(n, total(W), W[i], TRUE)
     IN  /\ sched_vslice(n - 1, total(W) - W[i], W[i], FALSE) = vs
         /\ vs <= fair
         /\ fair - vs <= ((short(sched_period(n), W[i]) + 1) * NICE_0_WEIGHT) \div W[i]
                           + short(sched_period(n), NICE_0_WEIGHT)}

(* The two formulas of calc_delta's documentation agree on every queue     *)
(* that the executor forms: the fixed point result never exceeds           *)
(* delta_exec * weight / lw and is short of it by truncations only; "shift *)
(* stays positive", and 10 bits below WMULT_SHIFT at most for nice 0.      *)
CalcDeltaExact == CountRight => nr_running \in ExactSizes

(* "A period in which each task runs once": the slices of the tasks of the *)
(* queue, one of which may be about to be inserted, fit the period, and    *)
(* tasks of equal weight have the minimal granularity each, however many.  *)
(* When each task has run for its slice, every vruntime has advanced by    *)
(* the same amount whatever the nice levels, but for truncations; a new    *)
(* task is debited that same amount.                                       *)
SlicesFair == CountRight => nr_running \in FittingSizes \cap FairSizes
=============================================================================
