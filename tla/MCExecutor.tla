----------------------------- MODULE MCExecutor -----------------------------
(***************************************************************************)
(* Instances of Executor for TLC.                                          *)
(***************************************************************************)
EXTENDS LoadWeight, TLC

CONSTANTS a, b, idle,    \* tasks
          t0, t1, t2    \* slots of the arena

MCTask == {idle, a, b}

\* The idle task has nice 19: its vruntime advances faster.
MCScale == [t \in MCTask |-> IF t = idle THEN 2 ELSE 1]

\* nice 19 is that of the idle task.
MCNice == {-5, -1, 0, 5, 19}

Symmetry == Permutations({a, b}) \cup Permutations({t0, t1, t2})
=============================================================================
