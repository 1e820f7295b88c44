---------------------------- MODULE MCMemorySet -----------------------------
(***************************************************************************)
(* Small instances of MemorySet for TLC.                                   *)
(***************************************************************************)
EXTENDS UserBuffer, TLC

\* Files hold something else than zeroes.
MCFileData == [p \in 0..(NPage - 1) |-> 1]

Symmetry == Permutations(Space)
=============================================================================
