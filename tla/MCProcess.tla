----------------------------- MODULE MCProcess ------------------------------
(***************************************************************************)
(* Small instances of Process for TLC.                                     *)
(***************************************************************************)
EXTENDS Process, TLC

Symmetry ==
  Permutations(Proc \ {InitProc}) \cup Permutations(Thread \ {InitThread})
=============================================================================
