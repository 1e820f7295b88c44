----------------------------- MODULE MemorySet ------------------------------
(***************************************************************************)
(* Address spaces: memory/memory_set.rs with its handlers ByFrame, Delay   *)
(* and File, the page table entries they set up, and the frame allocator   *)
(* of memory/mod.rs, as processes and fork use them.                       *)
(*                                                                         *)
(* The lock of a MemorySet is held, with interrupts off, during each       *)
(* operation, so an operation is one step.  The content of a page is one   *)
(* value; the content of a frame that nothing maps is not tracked, and is  *)
(* any value when the frame is mapped without being filled.  The Vec of    *)
(* areas is a set: its order, by start address, follows from the areas.    *)
(* Frames of page tables below the root are left out.                      *)
(***************************************************************************)
EXTENDS Integers, FiniteSets

CONSTANTS
  Space,          \* the MemorySet objects of a run
  PAGE_SIZE,
  NPage,          \* number of pages of the user half
  Value,          \* contents of a page
  FileData,       \* what fill_data leaves in a page of a File area
  Ram,            \* number of frames of the physical memory
  MEMORY_OFFSET,  \* number of the first frame of the physical memory
  MaxId,          \* bound: frame ids above are not tracked
  FirstFit,       \* bound: does the allocator hand out the lowest ids first?
  Bound           \* the bounds of the areas that programs ask for

ASSUME MemoryAssumption ==
  /\ PAGE_SIZE \in Nat \ {0}
  /\ NPage \in Nat \ {0}
  /\ 0 \in Value
  /\ FileData \in [0..(NPage - 1) -> Value]
  /\ Ram \in Nat \ {0}
  /\ MEMORY_OFFSET \in Nat
  /\ Ram <= MEMORY_OFFSET          \* 1 GiB of memory at 1 GiB
  /\ MaxId \in Nat /\ Ram <= MaxId + 1
  /\ FirstFit \in BOOLEAN
  /\ Bound \subseteq 0..(NPage * PAGE_SIZE)

VARIABLES
  live,     \* the MemorySets that exist
  areas,    \* MemorySet.areas
  table,    \* MemorySet.page_table: page -> entry
  root,     \* PageTableImpl.root_frame
  free,     \* FRAME_ALLOCATOR: the free ids
  content,  \* the memory: frame -> value
  halted    \* the kernel has panicked

vars == <<live, areas, table, root, free, content, halted>>

Page == 0..(NPage - 1)
Area == [start : Nat, end : Nat, readonly : BOOLEAN, handler : {"ByFrame", "Delay", "File"}]

\* The handlers, and whether readonly, that new_user_vm gives to areas.
Kind == {<<"ByFrame", FALSE>>, <<"Delay", FALSE>>, <<"File", TRUE>>, <<"File", FALSE>>}

\* A page table entry; NoEntry where get_entry returns None.
NoEntry == [present |-> FALSE, target |-> 0, writable |-> FALSE, user |-> FALSE]
Entry(present, target, a) ==
  [present |-> present, target |-> target, writable |-> ~a.readonly, user |-> TRUE]

Frame == MEMORY_OFFSET..(MEMORY_OFFSET + MaxId)
IsRam(f) == f \in MEMORY_OFFSET..(MEMORY_OFFSET + Ram - 1)
-----------------------------------------------------------------------------
(***************************************************************************)
(* The frame allocator.  Frames are numbered by physical address.          *)
(***************************************************************************)

\* GlobalFrameAlloc::alloc, for each page of P: the frames it may return.
alloc(P) ==
  {f \in [P -> {id + MEMORY_OFFSET : id \in free}] :
     /\ \A p, q \in P : f[p] = f[q] => p = q
     /\ FirstFit => \A p \in P, id \in free :
          id + MEMORY_OFFSET < f[p] => \E q \in P : q < p /\ f[q] = id + MEMORY_OFFSET}

\* The ids that remain free once the frames F are allocated.
taken(F) == free \ {f - MEMORY_OFFSET : f \in F}

\* Mutant of dealloc: the id of a neighbour is returned.
Mut_dealloc(F) == {f - MEMORY_OFFSET + 1 : f \in F} \cap 0..MaxId

\* GlobalFrameAlloc::dealloc: the ids it returns for the frames F.
dealloc(F) == F \cap 0..MaxId

\* expect("failed to alloc frame") on an exhausted allocator, for n frames.
exhausted(n) == Cardinality(free) < n
-----------------------------------------------------------------------------
(***************************************************************************)
(* MemoryArea.                                                             *)
(***************************************************************************)

\* Page::of_addr, and the page after the last one of an area that ends at addr.
of_addr(addr) == addr \div PAGE_SIZE

round_up(addr) == (addr + PAGE_SIZE - 1) \div PAGE_SIZE

\* Page::range_of, for an area with page numbers as bounds.
Pages(a) == {p \in Page : a.start <= p /\ p < a.end}

\* Mutant of is_overlap_with: an area inside the range is not noticed.
Mut_is_overlap_with(a, start, end) == start \in a.start..(a.end - 1)

is_overlap_with(a, start, end) == ~(a.end <= start \/ a.start >= end)

\* The area that handle_page_fault finds for a page, as a set.
AreaOf(s, p) == {a \in areas[s] : p \in Pages(a)}

\* Frames that unmapping the pages P of space s returns.
Mapped(s, P) == {table[s][p].target : p \in {q \in P : table[s][q].present}}
-----------------------------------------------------------------------------
Init ==
  /\ live = {}
  /\ areas = [s \in Space |-> {}]
  /\ table = [s \in Space |-> [p \in Page |-> NoEntry]]
  /\ root = [s \in Space |-> 0]
  /\ free = 0..(Ram - 1)
  /\ content = [f \in Frame |-> 0]
  /\ halted = FALSE

\* panic! and failed assertions stop the machine.
Halt ==
  /\ halted' = TRUE
  /\ UNCHANGED <<live, areas, table, root, free, content>>

(***************************************************************************)
(* MemorySet::new: a page table with a root frame of its own, which the    *)
(* kernel clears through its map of the physical memory: a frame that is   *)
(* not RAM is not mapped there.                                            *)
(***************************************************************************)
New(s) ==
  /\ ~halted
  /\ s \notin live
  /\ IF exhausted(1) THEN Halt
     ELSE \E f \in alloc({NPage}) :
            IF ~IsRam(f[NPage]) THEN Halt
            ELSE /\ live' = live \cup {s}
                 /\ root' = [root EXCEPT ![s] = f[NPage]]
                 /\ free' = taken({f[NPage]})
                 /\ UNCHANGED <<areas, table, content, halted>>

\* test_free_area, for a range of pages.
test_free_area(s, start, end) == ~\E a \in areas[s] : is_overlap_with(a, start, end)

(***************************************************************************)
(* MemorySet::push with MemoryHandler::map.  ByFrame maps frames whose     *)
(* content is what it was; Delay and File map nothing yet.                 *)
(***************************************************************************)
Push(s) ==
  \E from, to \in Bound, kind \in Kind :
    LET a == [start |-> of_addr(from), end |-> round_up(to),
              readonly |-> kind[2], handler |-> kind[1]]
        eager == IF a.handler = "ByFrame" THEN Pages(a) ELSE {}
    IN  /\ ~halted
        /\ s \in live
        /\ from < to
        /\ test_free_area(s, a.start, a.end)
        /\ \E f \in alloc(eager), v \in Value :
             /\ areas' = [areas EXCEPT ![s] = @ \cup {a}]
             /\ table' = [table EXCEPT ![s] = [p \in Page |->
                  IF p \notin Pages(a) THEN @[p]
                  ELSE IF p \in eager THEN Entry(TRUE, f[p], a) ELSE Entry(FALSE, 0, a)]]
             /\ free' = taken({f[p] : p \in eager})
             /\ content' = [g \in Frame |->
                  IF \E p \in eager : f[p] = g THEN v ELSE content[g]]
             /\ UNCHANGED <<live, root, halted>>

\* push asserts that the area is free, and ByFrame that there are frames.
PushPanics(s) ==
  \E from, to \in Bound :
    /\ ~halted
    /\ s \in live
    /\ from < to
    /\ \/ ~test_free_area(s, of_addr(from), round_up(to))
       \/ exhausted(round_up(to) - of_addr(from))
    /\ Halt

\* MemoryHandler::unmap of the pages P of s; every page has an entry.
unmap(s, P) ==
  /\ table' = [table EXCEPT ![s] = [p \in Page |-> IF p \in P THEN NoEntry ELSE @[p]]]
  /\ content' = [g \in Frame |-> IF g \in Mapped(s, P) THEN 0 ELSE content[g]]

\* MemorySet::pop of one whole area.
Pop(s) ==
  /\ ~halted
  /\ \E a \in areas[s] :
       /\ areas' = [areas EXCEPT ![s] = @ \ {a}]
       /\ unmap(s, Pages(a))
       /\ free' = free \cup dealloc(Mapped(s, Pages(a)))
  /\ UNCHANGED <<live, root, halted>>

\* pop panics when no area has exactly these bounds.
PopPanics(s) ==
  /\ ~halted
  /\ s \in live
  /\ ~\A start, end \in 0..NPage : \E a \in areas[s] : a.start = start /\ a.end = end
  /\ Halt

\* Mutant of rest: the part behind the range is dropped and stays mapped.
Mut_rest(a, start, end) == IF a.start < start THEN {[a EXCEPT !.end = start]} ELSE {}

\* What pop_with_split keeps of an area: nothing, a prefix, a postfix or both.
rest(a, start, end) ==
  (IF a.start < start THEN {[a EXCEPT !.end = start]} ELSE {}) \cup
  (IF a.end > end THEN {[a EXCEPT !.start = end]} ELSE {})

\* MemorySet::pop_with_split, of a range of pages as munmap would call it.
PopWithSplit(s) ==
  \E start, end \in 0..NPage :
    LET hit == {a \in areas[s] : is_overlap_with(a, start, end)}
        dead == {p \in Page : start <= p /\ p < end /\ \E a \in hit : p \in Pages(a)}
    IN  /\ ~halted
        /\ s \in live
        /\ start < end
        /\ areas' = [areas EXCEPT ![s] =
             (@ \ hit) \cup UNION {rest(a, start, end) : a \in hit}]
        /\ unmap(s, dead)
        /\ free' = free \cup dealloc(Mapped(s, dead))
        /\ UNCHANGED <<live, root, halted>>

\* MemorySet::drop: clear all areas, then PageTableImpl::drop frees the root.
Drop(s) ==
  LET P == UNION {Pages(a) : a \in areas[s]}
  IN  /\ ~halted
      /\ s \in live
      /\ live' = live \ {s}
      /\ areas' = [areas EXCEPT ![s] = {}]
      /\ unmap(s, P)
      /\ root' = [root EXCEPT ![s] = 0]
      /\ free' = free \cup dealloc(Mapped(s, P) \cup {root[s]})
      /\ UNCHANGED halted

\* Mutant of copied: what the program wrote to a File area is forgotten.
Mut_copied(s) ==
  {p \in Page : table[s][p].present /\ \E a \in AreaOf(s, p) : a.handler # "File"}

(***************************************************************************)
(* MemoryHandler::clone_map: the pages of s that get a frame of their own  *)
(* in the clone.  The others are left for a page fault.                    *)
(***************************************************************************)
copied(s) ==
  {p \in Page : \E a \in AreaOf(s, p) :
     \/ a.handler = "ByFrame"
     \/ a.handler = "Delay" /\ table[s][p].present
     \/ a.handler = "File" /\ table[s][p].present /\ ~a.readonly}

\* The page table of the clone; the frame f[p] holds the copy of page p.
clone_table(s, f) ==
  [p \in Page |->
     IF AreaOf(s, p) = {} THEN NoEntry
     ELSE LET a == CHOOSE b \in AreaOf(s, p) : TRUE
          IN  IF p \in copied(s) THEN Entry(TRUE, f[p], a) ELSE Entry(FALSE, 0, a)]

(***************************************************************************)
(* MemorySet::clone, for fork.  f[NPage] is the root frame.                *)
(***************************************************************************)
Clone(s, c) ==
  LET P == copied(s)
  IN  /\ ~halted
      /\ s \in live /\ c \notin live
      /\ IF exhausted(Cardinality(P) + 1) THEN Halt
         ELSE \E f \in alloc(P \cup {NPage}) :
           IF ~IsRam(f[NPage]) \/ \E p \in P : ~IsRam(f[p]) \/ ~IsRam(table[s][p].target)
           THEN Halt
           ELSE
             /\ live' = live \cup {c}
             /\ areas' = [areas EXCEPT ![c] = areas[s]]
             /\ table' = [table EXCEPT ![c] = clone_table(s, f)]
             /\ root' = [root EXCEPT ![c] = f[NPage]]
             /\ free' = taken({f[p] : p \in P \cup {NPage}})
             /\ content' = [g \in Frame |->
                  IF \E p \in P : f[p] = g
                  THEN content[table[s][CHOOSE p \in P : f[p] = g].target] ELSE content[g]]
             /\ UNCHANGED halted
-----------------------------------------------------------------------------
(***************************************************************************)
(* Accesses.                                                               *)
(***************************************************************************)

\* Mutant of filled: pages of a Delay area are not cleared.
Mut_filled(a, p) == IF a.handler = "Delay" THEN 1 ELSE FileData[p]

\* What handle_page_fault puts into the frame of a page.
filled(a, p) == IF a.handler = "Delay" THEN 0 ELSE FileData[p]

\* The page a user access faults on: not present, read-only or not RAM.
faults(s, p) ==
  ~(table[s][p].present /\ table[s][p].writable /\ IsRam(table[s][p].target))

(***************************************************************************)
(* A user access that faults: handle_page_fault allocates and fills the    *)
(* frame of a page that a Delay or File area left open; any other fault    *)
(* ("page fault handle failed") stops the kernel.                          *)
(***************************************************************************)
Fault(s, p) ==
  LET lazy == {a \in AreaOf(s, p) : a.handler # "ByFrame" /\ ~table[s][p].present}
  IN  /\ ~halted
      /\ s \in live
      /\ faults(s, p)
      /\ IF lazy = {} \/ exhausted(1) THEN Halt
         ELSE \E a \in lazy, f \in alloc({p}) :
                IF ~IsRam(f[p]) THEN Halt
                ELSE /\ table' = [table EXCEPT ![s][p] = Entry(TRUE, f[p], a)]
                     /\ free' = taken({f[p]})
                     /\ content' = [content EXCEPT ![f[p]] = filled(a, p)]
                     /\ UNCHANGED <<live, areas, root, halted>>

\* A store of the user program, or of a system call that fills a user buffer.
Store(s, p, v) ==
  /\ ~halted
  /\ s \in live
  /\ ~faults(s, p)
  /\ content' = [content EXCEPT ![table[s][p].target] = v]
  /\ UNCHANGED <<live, areas, table, root, free, halted>>

(***************************************************************************)
(* A system call writes to a user buffer that check_write_array accepts,   *)
(* but whose page no access has brought in yet: a fault in kernel mode is  *)
(* never handled.                                                          *)
(***************************************************************************)
KernelFault(s, p) ==
  /\ ~halted
  /\ s \in live
  /\ \E a \in AreaOf(s, p) : ~a.readonly
  /\ ~table[s][p].present
  /\ Halt

Next ==
  \E s \in Space :
    \/ New(s) \/ Push(s) \/ PushPanics(s) \/ Pop(s) \/ PopPanics(s) \/ PopWithSplit(s) \/ Drop(s)
    \/ \E c \in Space : Clone(s, c)
    \/ \E p \in Page : Fault(s, p) \/ KernelFault(s, p) \/ \E v \in Value : Store(s, p, v)

Spec == Init /\ [][Next]_vars
-----------------------------------------------------------------------------
(***************************************************************************)
(* Properties.                                                             *)
(***************************************************************************)

(* Type invariant; an area is a non-empty range of whole pages. *)
TypeOK ==
  /\ live \subseteq Space
  /\ areas \in [Space -> SUBSET Area]
  /\ \A s \in Space : \A a \in areas[s] : a.start < a.end /\ a.end <= NPage
  /\ table \in [Space -> [Page -> [present : BOOLEAN, target : Frame \cup {0},
                                   writable : BOOLEAN, user : BOOLEAN]]]
  /\ root \in [Space -> Frame \cup {0}]
  /\ free \subseteq 0..MaxId
  /\ content \in [Frame -> Value]
  /\ halted \in BOOLEAN

(* No page belongs to two areas, however areas are pushed, split and       *)
(* cloned: handle_page_fault and check_read_array find one area per page.  *)
AreasDisjoint ==
  \A s \in Space : \A a, b \in areas[s] : a # b => Pages(a) \cap Pages(b) = {}

(* The page table and the areas agree: exactly the pages of areas have an  *)
(* entry, with the attributes of the area, and a ByFrame page is present;  *)
(* so no get_entry or unmap of a handler meets a missing entry.            *)
TableMatches ==
  \A s \in Space : \A p \in Page :
    /\ table[s][p].user <=> AreaOf(s, p) # {}
    /\ table[s][p].present => table[s][p].user
    /\ \A a \in AreaOf(s, p) :
         /\ table[s][p].writable = ~a.readonly
         /\ a.handler = "ByFrame" => table[s][p].present

\* Everything that holds a frame: the pages and the root of every space.
Holder == Space \X (Page \cup {NPage})
Holds(h) ==
  IF h[2] = NPage THEN IF h[1] \in live THEN {root[h[1]]} ELSE {}
  ELSE IF table[h[1]][h[2]].present THEN {table[h[1]][h[2]].target} ELSE {}

(* Every frame has one owner: no frame is mapped by two pages, of one      *)
(* space or of several, or used as a page table as well, and none that is  *)
(* held can be allocated again.                                            *)
OneOwner ==
  /\ \A g, h \in Holder : Holds(g) \cap Holds(h) # {} => g = h
  /\ \A h \in Holder : \A f \in Holds(h) : f - MEMORY_OFFSET \notin free

\* What a program sees of a page: lazily mapped pages are zero or the file.
View(s, p) ==
  LET e == table[s][p]
  IN  [mapped   |-> e.user,
       writable |-> e.writable,
       value    |-> IF e.present THEN content[e.target]
                    ELSE IF \E a \in AreaOf(s, p) : a.handler = "File" THEN FileData[p]
                    ELSE 0]

Abs == INSTANCE AddressSpace WITH
  exists <- live,
  mem <- [s \in Space |-> [p \in Page |-> View(s, p)]],
  stopped <- halted

(* Demand paging is invisible: when the frame behind a mapped page changes *)
(* the program reads the same as before, zeroes or the file.               *)
PagingInvisible ==
  [][\A s \in Space, p \in Page :
       /\ table[s][p].user /\ table'[s][p].user
       /\ table'[s][p].target # table[s][p].target
       => View(s, p)' = View(s, p)]_vars

(* A MemorySet implements an address space: a clone starts with a copy of  *)
(* every page and shares none, a store changes one page of one space,      *)
(* however areas are pushed, split and faulted in.                         *)
IsAddressSpace == Abs!Spec

(* "Deallocate a range of frames [frame, frame+count) from the frame       *)
(* allocator": what dealloc returns can be allocated again as the frames   *)
(* of the physical memory they are.                                        *)
AllocatorHoldsRam == \A id \in free : IsRam(id + MEMORY_OFFSET)
=============================================================================
