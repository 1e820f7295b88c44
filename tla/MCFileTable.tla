----------------------------- MODULE MCFileTable -----------------------------
(***************************************************************************)
(* A process with two threads that forks, and two characters to read.      *)
(***************************************************************************)
EXTENDS FileTable

CONSTANTS t1, t2

MCParentThread == {t1, t2}
MCFd == 0..2
=============================================================================
