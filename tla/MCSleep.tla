------------------------------ MODULE MCSleep ------------------------------
(***************************************************************************)
(* Two threads of a process, a terminating signal with the default action, *)
(* one ignored, one whose action is SIG_ERR, and two with handlers, one of *)
(* them real-time.  t2 has an armed alternate stack.                       *)
(***************************************************************************)
EXTENDS Sleep, TLC

CONSTANTS t1, t2

MCThread == {t1, t2}
MCRequest ==
  {[signo |-> 2, tid |-> AnyThread], [signo |-> 17, tid |-> t1],
   [signo |-> 15, tid |-> t1], [signo |-> 10, tid |-> t2],
   [signo |-> 64, tid |-> AnyThread]}
MCDispositions ==
  (2 :> [handler |-> SIG_DFL, mask |-> {}, onstack |-> FALSE]) @@
  (17 :> [handler |-> SIG_IGN, mask |-> {}, onstack |-> FALSE]) @@
  (15 :> [handler |-> SIG_ERR, mask |-> {}, onstack |-> FALSE]) @@
  (10 :> [handler |-> 70, mask |-> {}, onstack |-> TRUE]) @@
  (64 :> [handler |-> 80, mask |-> {10}, onstack |-> TRUE])
MCAltStack == (t1 :> {"DISABLE"}) @@ (t2 :> {"AUTODISARM"})
MCDuration == (t1 :> {0, 2}) @@ (t2 :> {2, 100})
=============================================================================
