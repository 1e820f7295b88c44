----------------------------- MODULE UserBuffer -----------------------------
(***************************************************************************)
(* The checks that a system call makes on a buffer of the program before   *)
(* it uses it: check_read_array and check_write_array of                   *)
(* memory/memory_set.rs, on the address spaces of MemorySet, and           *)
(* find_free_area, which picks the place of a new area.                    *)
(*                                                                         *)
(* A buffer is given by the address of its first byte and its length in    *)
(* bytes, count elements of size_of::<S>() bytes each.                     *)
(***************************************************************************)
EXTENDS MemorySet, FiniteSetsExt

\* MemoryArea::check_read_array: how many bytes of the buffer are in area a.
area_check_read(a, ptr, size) ==
  LET min_bound == Max({ptr, a.start * PAGE_SIZE})
      max_bound == Min({ptr + size, a.end * PAGE_SIZE})
  IN  IF max_bound >= min_bound THEN max_bound - min_bound ELSE 0

\* Mutant of area_check_write: the attribute is not looked at.
Mut_area_check_write(a, ptr, size) == area_check_read(a, ptr, size)

\* MemoryArea::check_write_array.
area_check_write(a, ptr, size) == IF a.readonly THEN 0 ELSE area_check_read(a, ptr, size)

\* The areas that the loops over self.areas have seen once they reach a.
upto(s, a) == {b \in areas[s] : b.start <= a.start}

\* MemorySet::check_read_array returns Ok: at some area the sum is reached.
check_read_array(s, ptr, size) ==
  \E a \in areas[s] : MapThenSumSet(LAMBDA b : area_check_read(b, ptr, size), upto(s, a)) = size

\* MemorySet::check_write_array returns Ok.
check_write_array(s, ptr, size) ==
  \E a \in areas[s] : MapThenSumSet(LAMBDA b : area_check_write(b, ptr, size), upto(s, a)) = size

\* Mutant of candidates: the end of the last area is not tried.
Mut_candidates(s, hint) ==
  {round_up(hint)} \cup {a.end : a \in {b \in areas[s] : \E c \in areas[s] : b.end < c.end}}

\* The pages that find_free_area tries: the hint, and where an area ends.
candidates(s, hint) == {round_up(hint)} \cup {a.end : a \in areas[s]}

\* The pages at which find_free_area may put an area of len bytes.
find_free_area(s, hint, len) ==
  {p \in candidates(s, hint) : test_free_area(s, p, round_up(p * PAGE_SIZE + len))}
-----------------------------------------------------------------------------
(* The buffers that lie in the user half: first byte and length. *)
Buffer == {b \in (0..(NPage * PAGE_SIZE - 1)) \X (1..(NPage * PAGE_SIZE)) :
             b[1] + b[2] <= NPage * PAGE_SIZE}
PagesOf(b) == of_addr(b[1])..of_addr(b[1] + b[2] - 1)

(* What check_read_array and check_write_array accept is exactly what the  *)
(* program itself could use: the areas add up to the length of the buffer  *)
(* if and only if the page table lets the program reach, or write, each of *)
(* its pages, however areas were split, cloned and faulted in before.  A   *)
(* buffer may span areas; the zeroth byte after it does not count.         *)
BuffersReachable ==
  \A s \in live, b \in Buffer :
    /\ check_read_array(s, b[1], b[2]) <=> \A p \in PagesOf(b) : table[s][p].user
    /\ check_write_array(s, b[1], b[2]) <=>
         \A p \in PagesOf(b) : table[s][p].user /\ table[s][p].writable

(* find_free_area never fails ("failed to find free area ???"), whatever   *)
(* the areas and the hint: the end of the last area is always free.        *)
FreeAreaFound ==
  \A s \in live, hint \in Bound, len \in 1..PAGE_SIZE : find_free_area(s, hint, len) # {}
=============================================================================
