---------------------------- MODULE AddressSpace ----------------------------
(***************************************************************************)
(* What a MemorySet promises to the programs that run in it: each page of  *)
(* each space has a value of its own.  There are no frames, no page faults *)
(* and no sharing here.                                                    *)
(***************************************************************************)
CONSTANTS Space, Page, Value

VARIABLES
  exists,   \* the spaces in use
  mem,      \* the pages of every space
  stopped   \* the machine has stopped

avars == <<exists, mem, stopped>>

Unmapped == [mapped |-> FALSE, writable |-> FALSE, value |-> 0]

Init ==
  /\ exists = {}
  /\ mem = [s \in Space |-> [p \in Page |-> Unmapped]]
  /\ stopped = FALSE

Create(s) ==
  /\ exists' = exists \cup {s}
  /\ UNCHANGED <<mem, stopped>>

\* Pages that are not in use come into use.
Map(s) ==
  \A p \in Page :
    mem'[s][p] = mem[s][p] \/ (~mem[s][p].mapped /\ mem'[s][p].mapped)

Unmap(s) ==
  \A p \in Page : mem'[s][p] \in {mem[s][p], Unmapped}

Write(s, p) ==
  /\ mem[s][p].writable
  /\ mem'[s][p].value \in Value
  /\ mem'[s] = [mem[s] EXCEPT ![p].value = mem'[s][p].value]

\* Map, Unmap and Write change one space and leave every other one alone.
Change(s) ==
  /\ UNCHANGED <<exists, stopped>>
  /\ \A t \in Space \ {s} : mem'[t] = mem[t]
  /\ Map(s) \/ Unmap(s) \/ \E p \in Page : Write(s, p)

\* fork: the child starts with what the parent has.
Fork(s, c) ==
  /\ exists' = exists \cup {c}
  /\ mem' = [mem EXCEPT ![c] = mem[s]]
  /\ UNCHANGED stopped

Destroy(s) ==
  /\ exists' = exists \ {s}
  /\ mem' = [mem EXCEPT ![s] = [p \in Page |-> Unmapped]]
  /\ UNCHANGED stopped

Stop ==
  /\ stopped' = TRUE
  /\ UNCHANGED <<exists, mem>>

Next ==
  /\ ~stopped
  /\ \/ Stop
     \/ \E s \in Space \ exists : Create(s)
     \/ \E s \in exists : Change(s) \/ Destroy(s) \/ \E c \in Space \ exists : Fork(s, c)

Spec == Init /\ [][Next]_avars
=============================================================================
