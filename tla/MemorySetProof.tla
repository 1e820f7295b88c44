--------------------------- MODULE MemorySetProof ---------------------------
(***************************************************************************)
(* Proofs about MemorySet, for every number of spaces, pages and frames:   *)
(* the inductive invariant; the steps that give frames out and take them   *)
(* back (New, Push, Pop and Drop); the steps that split, copy and fill     *)
(* areas; the theorems; and, last, that MemorySet implements AddressSpace. *)
(*                                                                         *)
(* OneOwner holds although dealloc returns a frame number where an id is   *)
(* expected: a frame comes back as an id that is MEMORY_OFFSET too high,   *)
(* so ids and frames keep their residue modulo MEMORY_OFFSET, and OwnInv   *)
(* says that no residue is in use twice.                                   *)
(***************************************************************************)
EXTENDS MemorySet, TLAPS

Res(x) == x % MEMORY_OFFSET

\* A space that does not exist has no areas.
DeadEmpty == \A s \in Space : s \notin live => areas[s] = {}

OwnInv ==
  /\ \A x, y \in free : Res(x) = Res(y) => x = y
  /\ \A h \in Holder : \A f \in Holds(h) : f \in Frame /\ \A x \in free : Res(f) # Res(x)
  /\ \A g, h \in Holder : \A e \in Holds(g), f \in Holds(h) : Res(e) = Res(f) => g = h

IInv == TypeOK /\ DeadEmpty /\ AreasDisjoint /\ TableMatches /\ OwnInv

(* The frame of an id has the residue of the id, and so has the id under    *)
(* which dealloc returns it.                                                *)
LEMMA Residue ==
  /\ \A x \in Nat : Res(x + MEMORY_OFFSET) = Res(x)
  /\ \A x \in 0..(Ram - 1) : Res(x) = x
  <1> USE MemoryAssumption
  <1> DEFINE O == MEMORY_OFFSET
  <1>0. O \in Nat /\ O > 0 /\ Ram <= O
    OBVIOUS
  <1>1. ASSUME NEW x \in Nat PROVE Res(x + O) = Res(x)
    <2> DEFINE q == x \div O
               r == x % O
               u == (x + O) \div O
               v == (x + O) % O
    <2>1. q \in Nat /\ r \in Nat /\ r < O /\ x = O * q + r
      BY <1>0
    <2>2. u \in Nat /\ v \in Nat /\ v < O /\ x + O = O * u + v
      BY <1>0
    <2> HIDE DEF O, q, r, u, v
    <2>3. O * (u - q - 1) = r - v
      BY <1>0, <2>1, <2>2
    <2>4. u - q - 1 = 0
      BY <1>0, <2>1, <2>2, <2>3
    <2>5. r = v
      BY <1>0, <2>1, <2>2, <2>3, <2>4
    <2> QED BY <2>5, Zenon DEF Res, O, r, v
  <1>2. ASSUME NEW x \in 0..(Ram - 1) PROVE Res(x) = x
    BY <1>0 DEF Res
  <1> QED BY <1>1, <1>2, Zenon

(* The pages from of_addr to round_up are a non-empty range of user pages. *)
LEMMA PageRange ==
  ASSUME NEW from \in Bound, NEW to \in Bound, from < to
  PROVE  /\ of_addr(from) \in Nat /\ round_up(to) \in Nat
         /\ of_addr(from) < round_up(to) /\ round_up(to) <= NPage
  <1> USE MemoryAssumption
  <1> DEFINE q == of_addr(from)
             r == round_up(to)
             S == PAGE_SIZE
  <1>1. from \in Nat /\ to \in Nat /\ to <= NPage * S /\ NPage * S \in Nat
    OBVIOUS
  <1>2. q \in Nat /\ q * S <= from /\ from < q * S + S
    BY <1>1 DEF of_addr
  <1>3. r \in Nat /\ r * S <= to + S - 1 /\ to + S - 1 < r * S + S
    BY <1>1 DEF round_up
  <1>4. q < r
    BY <1>1, <1>2, <1>3
  <1>5. r <= NPage
    BY <1>1, <1>3
  <1> QED BY <1>2, <1>3, <1>4, <1>5, Zenon

(* What alloc returns: frames of free ids, one per page. *)
LEMMA AllocFrames ==
  ASSUME TypeOK, NEW P, NEW f \in alloc(P)
  PROVE  /\ f \in [P -> Frame]
         /\ \A p \in P : f[p] - MEMORY_OFFSET \in free
         /\ \A p, q \in P : f[p] = f[q] => p = q
  <1> USE MemoryAssumption
  <1>1. /\ f \in [P -> {id + MEMORY_OFFSET : id \in free}]
        /\ \A p, q \in P : f[p] = f[q] => p = q
    BY Zenon DEF alloc
  <1>2. \A id \in free : id \in Nat /\ id + MEMORY_OFFSET \in Frame
                         /\ (id + MEMORY_OFFSET) - MEMORY_OFFSET = id
    BY DEF TypeOK, Frame
  <1> QED BY <1>1, <1>2

(* Every holder holds one frame at most. *)
LEMMA HoldsOne == \A h : \A e, f \in Holds(h) : e = f
  BY Zenon DEF Holds

(* Ownership when holders Q get the frames F of free ids, and no other      *)
(* holder gets any.                                                         *)
LEMMA TakeOwn ==
  ASSUME OwnInv, TypeOK, NEW Q \in SUBSET Holder, NEW F \in [Q -> Frame],
         \A h \in Q : F[h] - MEMORY_OFFSET \in free,
         \A g, h \in Q : F[g] = F[h] => g = h,
         \A h \in Q : Holds(h)' = {F[h]},
         \A h \in Holder \ Q : Holds(h)' \subseteq Holds(h),
         free' = free \ {F[h] - MEMORY_OFFSET : h \in Q}
  PROVE  OwnInv'
  <1> USE MemoryAssumption
  <1>0. \A h \in Q : /\ Res(F[h] - MEMORY_OFFSET) = Res(F[h])
                     /\ F[h] = (F[h] - MEMORY_OFFSET) + MEMORY_OFFSET
    <2> SUFFICES ASSUME NEW h \in Q
                 PROVE  /\ Res(F[h] - MEMORY_OFFSET) = Res(F[h])
                        /\ F[h] = (F[h] - MEMORY_OFFSET) + MEMORY_OFFSET
      BY Zenon
    <2>1. F[h] \in Frame
      BY Zenon
    <2>2. F[h] - MEMORY_OFFSET \in Nat /\ F[h] = (F[h] - MEMORY_OFFSET) + MEMORY_OFFSET
      BY <2>1 DEF Frame
    <2> QED BY <2>2, Residue, Zenon
  <1>1. \A x, y \in free' : Res(x) = Res(y) => x = y
    BY Zenon DEF OwnInv
  <1>2. ASSUME NEW h \in Holder, NEW f \in Holds(h)', NEW x \in free'
        PROVE  f \in Frame /\ Res(f) # Res(x)
    <2>1. CASE h \in Q
      <3>1. f = F[h] /\ x \in free /\ x # F[h] - MEMORY_OFFSET
        BY <1>2, <2>1, Zenon
      <3>2. Res(F[h] - MEMORY_OFFSET) # Res(x)
        BY <2>1, <3>1, Zenon DEF OwnInv
      <3> QED BY <1>0, <2>1, <3>1, <3>2, Zenon
    <2>2. CASE h \notin Q
      BY <1>2, <2>2, Zenon DEF OwnInv
    <2> QED BY <2>1, <2>2, Zenon
  <1>3. ASSUME NEW h \in Holder, NEW f \in Holds(h)' PROVE f \in Frame
    BY <1>3 DEF OwnInv
  <1>4. ASSUME NEW g \in Holder, NEW h \in Holder, NEW e \in Holds(g)', NEW f \in Holds(h)',
               Res(e) = Res(f)
        PROVE  g = h
    <2>1. CASE g \in Q /\ h \in Q
      <3>1. e = F[g] /\ f = F[h]
        BY <1>4, <2>1, Zenon
      <3>2. F[g] - MEMORY_OFFSET = F[h] - MEMORY_OFFSET
        BY <1>0, <1>4, <2>1, <3>1 DEF OwnInv
      <3>3. F[g] = F[h]
        BY <1>0, <2>1, <3>2, Zenon
      <3> QED BY <2>1, <3>3, Zenon
    <2>2. CASE g \in Q /\ h \notin Q
      BY <1>0, <1>4, <2>2 DEF OwnInv
    <2>3. CASE g \notin Q /\ h \in Q
      BY <1>0, <1>4, <2>3 DEF OwnInv
    <2>4. CASE g \notin Q /\ h \notin Q
      BY <1>4, <2>4, Zenon DEF OwnInv
    <2> QED BY <2>1, <2>2, <2>3, <2>4, Zenon
  <1>5. Holder' = Holder
    BY Zenon DEF Holder, Page
  <1> QED BY <1>1, <1>2, <1>3, <1>4, <1>5, Zenon DEF OwnInv

(* Ownership when holders R give their frames back and no holder gets one:  *)
(* dealloc takes the frames themselves for ids.                             *)
LEMMA GiveOwn ==
  ASSUME OwnInv, NEW R \in SUBSET Holder,
         \A h \in R : Holds(h)' = {},
         \A h \in Holder : Holds(h)' \subseteq Holds(h),
         \A x \in free' : x \in free \/ \E h \in R : x \in Holds(h)
  PROVE  OwnInv'
  <1>1. ASSUME NEW x \in free', NEW y \in free', Res(x) = Res(y) PROVE x = y
    BY <1>1, HoldsOne DEF OwnInv
  <1>2. ASSUME NEW h \in Holder, NEW f \in Holds(h)' PROVE f \in Frame
    BY <1>2, Zenon DEF OwnInv
  <1>3. ASSUME NEW h \in Holder, NEW f \in Holds(h)', NEW x \in free' PROVE Res(f) # Res(x)
    BY <1>3, Zenon DEF OwnInv
  <1>4. \A g, h \in Holder : \A e \in Holds(g)', f \in Holds(h)' : Res(e) = Res(f) => g = h
    BY Zenon DEF OwnInv
  <1>5. Holder' = Holder
    BY Zenon DEF Holder, Page
  <1> QED BY <1>1, <1>2, <1>3, <1>4, <1>5, Zenon DEF OwnInv
-----------------------------------------------------------------------------
(* The invariant holds before the first process. *)
LEMMA InitIInv == Init => IInv
  <1> SUFFICES ASSUME Init PROVE IInv
    BY Zenon
  <1> USE MemoryAssumption DEF Init
  <1>1. TypeOK
    <2>1. table \in [Space -> [Page -> [present : BOOLEAN, target : Frame \cup {0},
                                       writable : BOOLEAN, user : BOOLEAN]]]
      BY Zenon DEF NoEntry
    <2>2. free \subseteq 0..MaxId
      OBVIOUS
    <2> QED BY <2>1, <2>2, Zenon DEF TypeOK
  <1>2. DeadEmpty /\ AreasDisjoint
    BY Zenon DEF DeadEmpty, AreasDisjoint
  <1>3. TableMatches
    BY Zenon DEF TableMatches, AreaOf, NoEntry
  <1>4. \A h \in Holder : Holds(h) = {}
    BY Zenon DEF Holds, NoEntry, Holder
  <1>5. OwnInv
    BY <1>4, Residue, Zenon DEF OwnInv
  <1> QED BY <1>1, <1>2, <1>3, <1>5, Zenon DEF IInv

(* A panic changes nothing else. *)
LEMMA HaltIInv ==
  ASSUME IInv, UNCHANGED <<live, areas, table, root, free, content>>, halted' \in BOOLEAN
  PROVE  IInv'
  <1> USE DEF IInv
  <1>1. TypeOK'
    BY Zenon DEF TypeOK
  <1>2. DeadEmpty' /\ AreasDisjoint' /\ TableMatches'
    BY DEF DeadEmpty, AreasDisjoint, TableMatches, AreaOf, Pages, Page
  <1>3. Holder' = Holder /\ \A h \in Holder : Holds(h)' = Holds(h)
    BY Zenon DEF Holder, Holds, Page
  <1>4. OwnInv'
    BY <1>3 DEF OwnInv
  <1> QED BY <1>1, <1>2, <1>4, Zenon

(* MemorySet::new. *)
LEMMA NewIInv ==
  ASSUME IInv, NEW s \in Space, New(s)
  PROVE  IInv'
  <1> USE MemoryAssumption DEF IInv
  <1>1. CASE Halt
    BY <1>1, HaltIInv, Zenon DEF Halt
  <1>2. CASE ~Halt
    <2>0. PICK f \in alloc({NPage}) :
            /\ live' = live \cup {s}
            /\ root' = [root EXCEPT ![s] = f[NPage]]
            /\ free' = taken({f[NPage]})
            /\ UNCHANGED <<areas, table, content, halted>>
      BY <1>2, Zenon DEF New
    <2>1. f \in [{NPage} -> Frame] /\ f[NPage] - MEMORY_OFFSET \in free
      BY AllocFrames, Zenon
    <2>2. TypeOK'
      BY <2>0, <2>1, Zenon DEF TypeOK, taken
    <2>3. DeadEmpty' /\ AreasDisjoint' /\ TableMatches'
      BY <2>0 DEF DeadEmpty, AreasDisjoint, TableMatches, AreaOf, Pages, Page
    <2>4. OwnInv'
      <3> DEFINE Q == {<<s, NPage>>}
                 F == [h \in Q |-> f[NPage]]
      <3>1. Q \in SUBSET Holder /\ F \in [Q -> Frame]
        BY <2>1 DEF Holder
      <3>2. \A h \in Q : Holds(h)' = {F[h]}
        BY <2>0 DEF Holds, TypeOK
      <3>3. \A h \in Holder \ Q : Holds(h)' \subseteq Holds(h)
        <4> SUFFICES ASSUME NEW t \in Space, NEW p \in Page \cup {NPage}, <<t, p>> \notin Q
                     PROVE  Holds(<<t, p>>)' \subseteq Holds(<<t, p>>)
          BY DEF Holder
        <4> QED BY <2>0, Zenon DEF Holds, TypeOK
      <3>4. free' = free \ {F[h] - MEMORY_OFFSET : h \in Q}
        BY <2>0, Zenon DEF taken
      <3> QED BY <2>1, <3>1, <3>2, <3>3, <3>4, TakeOwn, Zenon
    <2> QED BY <2>2, <2>3, <2>4, Zenon
  <1> QED BY <1>1, <1>2, Zenon
-----------------------------------------------------------------------------
\* AreasDisjoint and TableMatches for one space with areas A and table T.
Covering(A, p) == {a \in A : p \in Pages(a)}
Disjoint(A) == \A a, b \in A : a # b => Pages(a) \cap Pages(b) = {}
Matches(A, T) ==
  \A p \in Page :
    /\ T[p].user <=> Covering(A, p) # {}
    /\ T[p].present => T[p].user
    /\ \A a \in Covering(A, p) :
         T[p].writable = ~a.readonly /\ (a.handler = "ByFrame" => T[p].present)

(* The two invariants, space by space. *)
LEMMA BySpace ==
  /\ AreasDisjoint <=> \A s \in Space : Disjoint(areas[s])
  /\ TableMatches <=> \A s \in Space : Matches(areas[s], table[s])
  BY Zenon DEF AreasDisjoint, TableMatches, Disjoint, Matches, Covering, AreaOf

(* A step that changes the areas and the table of one space. *)
LEMMA OneSpace ==
  ASSUME TypeOK, AreasDisjoint, TableMatches, NEW s \in Space, NEW A, NEW T,
         areas' = [areas EXCEPT ![s] = A], table' = [table EXCEPT ![s] = T],
         Disjoint(A), Matches(A, T)
  PROVE  AreasDisjoint' /\ TableMatches'
  <1>1. \A t \in Space : areas'[t] = (IF t = s THEN A ELSE areas[t])
                         /\ table'[t] = (IF t = s THEN T ELSE table[t])
    BY Zenon DEF TypeOK
  <1>2. \A t \in Space : Disjoint(areas'[t]) /\ Matches(areas'[t], table'[t])
    BY <1>1, BySpace, Zenon
  <1>3. AreasDisjoint'
    <2> SUFFICES ASSUME NEW t \in Space, NEW a \in areas'[t], NEW b \in areas'[t], a # b
                 PROVE  Pages(a) \cap Pages(b) = {}
      BY Zenon DEF AreasDisjoint, Pages, Page
    <2> QED BY <1>2, Zenon DEF Disjoint
  <1>4. TableMatches'
    <2> SUFFICES ASSUME NEW t \in Space, NEW p \in Page
                 PROVE  /\ table'[t][p].user <=> AreaOf(t, p)' # {}
                        /\ table'[t][p].present => table'[t][p].user
                        /\ \A a \in AreaOf(t, p)' :
                             /\ table'[t][p].writable = ~a.readonly
                             /\ a.handler = "ByFrame" => table'[t][p].present
      BY Zenon DEF TableMatches, Page
    <2>1. AreaOf(t, p)' = Covering(areas'[t], p)
      BY Zenon DEF AreaOf, Covering, Pages, Page
    <2>2. /\ table'[t][p].user <=> Covering(areas'[t], p) # {}
          /\ table'[t][p].present => table'[t][p].user
          /\ \A a \in Covering(areas'[t], p) :
               /\ table'[t][p].writable = ~a.readonly
               /\ a.handler = "ByFrame" => table'[t][p].present
      BY <1>2, Zenon DEF Matches
    <2> QED BY <2>1, <2>2, Zenon
  <1> QED BY <1>3, <1>4, Zenon

(* Ownership when the pages E of one space get frames from alloc. *)
LEMMA TakeAt ==
  ASSUME OwnInv, TypeOK, NEW s \in Space, NEW E, E \subseteq Page \cup {NPage},
         NEW f \in alloc(E),
         \A p \in E : Holds(<<s, p>>)' = {f[p]},
         \A t \in Space, p \in Page \cup {NPage} :
           ~(t = s /\ p \in E) => Holds(<<t, p>>)' \subseteq Holds(<<t, p>>),
         free' = taken({f[p] : p \in E})
  PROVE  OwnInv'
  <1> DEFINE Q == {<<s, p>> : p \in E}
             F == [h \in Q |-> f[h[2]]]
  <1>1. /\ f \in [E -> Frame] /\ \A p \in E : f[p] - MEMORY_OFFSET \in free
        /\ \A p, q \in E : f[p] = f[q] => p = q
    BY AllocFrames, Zenon
  <1>2. \A p \in E : <<s, p>> \in Q /\ F[<<s, p>>] = f[p]
    BY Zenon
  <1>3. \A h \in Q : \E p \in E : h = <<s, p>>
    BY Zenon
  <1>4. Q \in SUBSET Holder /\ F \in [Q -> Frame]
    BY <1>1 DEF Holder
  <1> HIDE DEF Q, F
  <1>5. \A h \in Q : Holds(h)' = {F[h]}
    BY <1>2, <1>3
  <1>6. ASSUME NEW h \in Holder \ Q PROVE Holds(h)' \subseteq Holds(h)
    <2>1. PICK t \in Space, p \in Page \cup {NPage} : h = <<t, p>>
      BY DEF Holder
    <2> QED BY <1>2, <2>1, Zenon
  <1>7. free' = free \ {F[h] - MEMORY_OFFSET : h \in Q}
    <2>1. ASSUME NEW x \in free'
          PROVE  x \in free /\ x \notin {F[h] - MEMORY_OFFSET : h \in Q}
      <3>1. x \in free /\ \A p \in E : x # f[p] - MEMORY_OFFSET
        BY Zenon DEF taken
      <3> QED BY <1>2, <1>3, <3>1, Zenon
    <2>2. ASSUME NEW x \in free, x \notin {F[h] - MEMORY_OFFSET : h \in Q}
          PROVE  x \in free'
      <3>1. \A p \in E : x # f[p] - MEMORY_OFFSET
        BY <1>2, <2>2, Zenon
      <3> QED BY <3>1, Zenon DEF taken
    <2> QED BY <2>1, <2>2, Zenon
  <1>8. /\ \A h \in Q : F[h] - MEMORY_OFFSET \in free
        /\ \A g, h \in Q : F[g] = F[h] => g = h
    BY <1>1, <1>2, <1>3
  <1> QED BY <1>4, <1>5, <1>6, <1>7, <1>8, TakeOwn, Zenon

(* The handlers of new_user_vm. *)
LEMMA KindType == \A k \in Kind : k[2] \in BOOLEAN /\ k[1] \in {"ByFrame", "Delay", "File"}
  <1> SUFFICES ASSUME NEW k \in Kind
               PROVE  k[2] \in BOOLEAN /\ k[1] \in {"ByFrame", "Delay", "File"}
    BY Zenon
  <1>1. CASE k = <<"ByFrame", FALSE>>
    BY <1>1, Zenon
  <1>2. CASE k = <<"Delay", FALSE>>
    BY <1>2, Zenon
  <1>3. CASE k = <<"File", TRUE>>
    BY <1>3, Zenon
  <1>4. CASE k = <<"File", FALSE>>
    BY <1>4, Zenon
  <1> QED BY <1>1, <1>2, <1>3, <1>4, Zenon DEF Kind

(* MemorySet::push. *)
LEMMA PushIInv ==
  ASSUME IInv, NEW s \in Space, Push(s)
  PROVE  IInv'
  <1> USE MemoryAssumption DEF IInv
  <1>0. PICK from \in Bound, to \in Bound, kind \in Kind :
          LET a == [start |-> of_addr(from), end |-> round_up(to),
                    readonly |-> kind[2], handler |-> kind[1]]
              eager == IF a.handler = "ByFrame" THEN Pages(a) ELSE {}
          IN  /\ ~halted
              /\ s \in live
              /\ from < to
              /\ test_free_area(s, a.start, a.end)
              /\ \E f \in alloc(eager), v \in Value :
                   /\ areas' = [areas EXCEPT ![s] = @ \cup {a}]
                   /\ table' = [table EXCEPT ![s] = [p \in Page |->
                        IF p \notin Pages(a) THEN @[p]
                        ELSE IF p \in eager THEN Entry(TRUE, f[p], a) ELSE Entry(FALSE, 0, a)]]
                   /\ free' = taken({f[p] : p \in eager})
                   /\ content' = [g \in Frame |->
                        IF \E p \in eager : f[p] = g THEN v ELSE content[g]]
                   /\ UNCHANGED <<live, root, halted>>
    BY Zenon DEF Push
  <1> DEFINE a == [start |-> of_addr(from), end |-> round_up(to),
                   readonly |-> kind[2], handler |-> kind[1]]
             eager == IF a.handler = "ByFrame" THEN Pages(a) ELSE {}
  <1>1. PICK f \in alloc(eager), v \in Value :
          /\ areas' = [areas EXCEPT ![s] = areas[s] \cup {a}]
          /\ table' = [table EXCEPT ![s] = [p \in Page |->
               IF p \notin Pages(a) THEN table[s][p]
               ELSE IF p \in eager THEN Entry(TRUE, f[p], a) ELSE Entry(FALSE, 0, a)]]
          /\ free' = taken({f[p] : p \in eager})
          /\ content' = [g \in Frame |-> IF \E p \in eager : f[p] = g THEN v ELSE content[g]]
          /\ UNCHANGED <<live, root, halted>>
    BY <1>0, Zenon
  <1> DEFINE T == [p \in Page |->
               IF p \notin Pages(a) THEN table[s][p]
               ELSE IF p \in eager THEN Entry(TRUE, f[p], a) ELSE Entry(FALSE, 0, a)]
  <1>2. /\ a \in Area /\ a.start < a.end /\ a.end <= NPage
        /\ s \in live /\ test_free_area(s, a.start, a.end)
    <2>1. from < to /\ s \in live /\ test_free_area(s, a.start, a.end)
      BY <1>0, Zenon
    <2>2. kind[2] \in BOOLEAN /\ kind[1] \in {"ByFrame", "Delay", "File"}
      BY KindType, Zenon
    <2>3. /\ of_addr(from) \in Nat /\ round_up(to) \in Nat
          /\ of_addr(from) < round_up(to) /\ round_up(to) <= NPage
      BY <2>1, PageRange, Zenon
    <2> QED BY <2>1, <2>2, <2>3, Zenon DEF Area
  <1> HIDE DEF a
  <1>3. eager \subseteq Pages(a) /\ Pages(a) \subseteq Page
    BY Zenon DEF Pages
  <1>4. /\ f \in [eager -> Frame] /\ \A p \in eager : f[p] - MEMORY_OFFSET \in free
        /\ \A p, q \in eager : f[p] = f[q] => p = q
    BY AllocFrames, Zenon
  <1>5. \A b \in areas[s] : Pages(a) \cap Pages(b) = {}
    <2> SUFFICES ASSUME NEW b \in areas[s], NEW p \in Page, p \in Pages(a), p \in Pages(b)
                 PROVE  FALSE
      BY Zenon DEF Pages
    <2>1. b \in Area /\ a.start <= p /\ p < a.end /\ b.start <= p /\ p < b.end
      BY Zenon DEF Pages, TypeOK
    <2>2. b.end <= a.start \/ b.start >= a.end
      BY <1>2, Zenon DEF test_free_area, is_overlap_with
    <2> QED BY <1>2, <2>1, <2>2, SMTT(30), Zenon DEF Area, Page
  <1>6. Disjoint(areas[s] \cup {a})
    BY <1>5, BySpace, Zenon DEF Disjoint
  <1> HIDE DEF eager
  <1>7. \A p \in Page : /\ p \notin Pages(a) => T[p] = table[s][p]
                        /\ p \in Pages(a) => /\ T[p].user /\ T[p].writable = ~a.readonly
                                             /\ T[p].present <=> p \in eager
                        /\ p \in eager => T[p].target = f[p] /\ T[p].present
    BY <1>3, Zenon DEF Entry
  <1>8. T \in [Page -> [present : BOOLEAN, target : Frame \cup {0}, writable : BOOLEAN,
                       user : BOOLEAN]]
    BY <1>2, <1>4 DEF Entry, TypeOK, Area
  <1> HIDE DEF T
  <1>9. Matches(areas[s] \cup {a}, T)
    <2> SUFFICES ASSUME NEW p \in Page
                 PROVE  /\ T[p].user <=> Covering(areas[s] \cup {a}, p) # {}
                        /\ T[p].present => T[p].user
                        /\ \A b \in Covering(areas[s] \cup {a}, p) :
                             T[p].writable = ~b.readonly /\ (b.handler = "ByFrame" => T[p].present)
      BY Zenon DEF Matches
    <2>1. CASE p \in Pages(a)
      <3>1. Covering(areas[s] \cup {a}, p) = {a}
        BY <1>5, <2>1, Zenon DEF Covering
      <3>2. a.handler = "ByFrame" => p \in eager
        BY <2>1, Zenon DEF eager
      <3> QED BY <1>7, <2>1, <3>1, <3>2, Zenon
    <2>2. CASE p \notin Pages(a)
      <3>1. Covering(areas[s] \cup {a}, p) = Covering(areas[s], p)
        BY <2>2, Zenon DEF Covering
      <3>2. Matches(areas[s], table[s])
        BY BySpace, Zenon
      <3> QED BY <1>7, <2>2, <3>1, <3>2, Zenon DEF Matches
    <2> QED BY <2>1, <2>2, Zenon
  <1>10. AreasDisjoint' /\ TableMatches'
    BY <1>1, <1>6, <1>9, OneSpace, Zenon DEF T
  <1>11. DeadEmpty'
    BY <1>1, <1>2, Zenon DEF DeadEmpty, TypeOK
  <1>12. TypeOK'
    <2>1. areas' \in [Space -> SUBSET Area]
      BY <1>1, <1>2, Zenon DEF TypeOK
    <2>2. \A t \in Space : \A b \in areas'[t] : b.start < b.end /\ b.end <= NPage
      BY <1>1, <1>2, Zenon DEF TypeOK
    <2>3. table' \in [Space -> [Page -> [present : BOOLEAN, target : Frame \cup {0},
                                        writable : BOOLEAN, user : BOOLEAN]]]
      BY <1>1, <1>8, Zenon DEF TypeOK, T
    <2>4. free' \subseteq 0..MaxId
      BY <1>1, Zenon DEF TypeOK, taken
    <2>5. content' \in [Frame -> Value]
      BY <1>1, Zenon DEF TypeOK
    <2> QED BY <1>1, <2>1, <2>2, <2>3, <2>4, <2>5, Zenon DEF TypeOK
  <1>13. OwnInv'
    <2>2. \A p \in Page : p # NPage
      BY DEF Page
    <2>3. ASSUME NEW p \in eager PROVE Holds(<<s, p>>)' = {f[p]}
      <3>1. table'[s] = T /\ p \in Page /\ p # NPage
        BY <1>1, <1>3, <2>2, Zenon DEF T, TypeOK
      <3> QED BY <1>7, <3>1, Zenon DEF Holds
    <2>4. ASSUME NEW t \in Space, NEW p \in Page \cup {NPage}, ~(t = s /\ p \in eager)
          PROVE  Holds(<<t, p>>)' \subseteq Holds(<<t, p>>)
      <3>1. CASE t # s \/ p = NPage
        BY <1>1, <3>1, Zenon DEF Holds, TypeOK
      <3>2. CASE t = s /\ p # NPage
        <4>1. table'[s] = T /\ p \in Page /\ p \notin eager
          BY <1>1, <2>4, <3>2, Zenon DEF T, TypeOK
        <4>2. T[p] = table[s][p] \/ ~T[p].present
          BY <1>7, <4>1, Zenon
        <4> QED BY <3>2, <4>1, <4>2, Zenon DEF Holds
      <3> QED BY <3>1, <3>2, Zenon
    <2>5. eager \subseteq Page \cup {NPage}
      BY <1>3, Zenon
    <2> QED BY <1>1, <2>3, <2>4, <2>5, TakeAt, SMTT(30), Zenon
  <1> QED BY <1>10, <1>11, <1>12, <1>13, Zenon

(***************************************************************************)
(* The pages P of s lose their entries and the areas of s become A, as in  *)
(* pop, pop_with_split and drop: what goes back to the allocator was held  *)
(* by a page of P or is the root of a space that ends.                     *)
(***************************************************************************)
LEMMA UnmapIInv ==
  ASSUME IInv, NEW s \in Space, NEW P \in SUBSET Page, NEW A \in SUBSET Area,
         areas' = [areas EXCEPT ![s] = A], unmap(s, P), Disjoint(A),
         \A b \in A : b.start < b.end /\ b.end <= NPage,
         \A p \in P : Covering(A, p) = {},
         \A p \in Page \ P : Covering(areas[s], p) # {} => Covering(A, p) # {},
         \A p \in Page \ P : \A b \in Covering(A, p) : \E a \in Covering(areas[s], p) :
           b.readonly = a.readonly /\ b.handler = a.handler,
         live' \subseteq live, root' \in [Space -> Frame \cup {0}],
         \A t \in live' : root'[t] = root[t], DeadEmpty', halted' = halted,
         free' \subseteq 0..MaxId,
         \A x \in free' : \/ x \in free \/ x \in Mapped(s, P)
                          \/ s \in live /\ s \notin live' /\ x = root[s]
  PROVE  IInv'
  <1> USE MemoryAssumption DEF IInv
  <1> DEFINE T == [p \in Page |-> IF p \in P THEN NoEntry ELSE table[s][p]]
  <1>1. /\ table' = [table EXCEPT ![s] = T]
        /\ content' = [g \in Frame |-> IF g \in Mapped(s, P) THEN 0 ELSE content[g]]
    BY SMTT(30), Zenon DEF unmap
  <1>2. \A p \in Page : /\ p \in P => ~T[p].present /\ ~T[p].user
                        /\ p \notin P => T[p] = table[s][p]
    BY Zenon DEF NoEntry
  <1>3. T \in [Page -> [present : BOOLEAN, target : Frame \cup {0}, writable : BOOLEAN,
                       user : BOOLEAN]]
    BY DEF NoEntry, TypeOK
  <1>4. table'[s] = T /\ \A t \in Space : t # s => table'[t] = table[t]
    BY <1>1, Zenon DEF TypeOK
  <1>5. TypeOK'
    <2>1. areas' \in [Space -> SUBSET Area]
      BY Zenon DEF TypeOK
    <2>2. \A t \in Space : \A b \in areas'[t] : b.start < b.end /\ b.end <= NPage
      BY SMTT(30), Zenon DEF TypeOK
    <2>3. table' \in [Space -> [Page -> [present : BOOLEAN, target : Frame \cup {0},
                                        writable : BOOLEAN, user : BOOLEAN]]]
      BY <1>1, <1>3, Zenon DEF TypeOK
    <2>4. content' \in [Frame -> Value]
      BY <1>1, Zenon DEF TypeOK
    <2> QED BY <2>1, <2>2, <2>3, <2>4, Zenon DEF TypeOK
  <1> HIDE DEF T
  <1>6. Matches(A, T)
    <2> SUFFICES ASSUME NEW p \in Page
                 PROVE  /\ T[p].user <=> Covering(A, p) # {}
                        /\ T[p].present => T[p].user
                        /\ \A b \in Covering(A, p) :
                             T[p].writable = ~b.readonly /\ (b.handler = "ByFrame" => T[p].present)
      BY SMTT(30), Zenon DEF Matches
    <2>1. CASE p \in P
      BY <1>2, <2>1, Zenon
    <2>2. CASE p \notin P
      <3>1. Matches(areas[s], table[s]) /\ T[p] = table[s][p]
        BY <1>2, <2>2, BySpace, Zenon
      <3>2. /\ T[p].user <=> Covering(areas[s], p) # {}
            /\ T[p].present => T[p].user
            /\ \A b \in Covering(areas[s], p) :
                 T[p].writable = ~b.readonly /\ (b.handler = "ByFrame" => T[p].present)
        BY <3>1, Zenon DEF Matches
      <3>3. Covering(A, p) # {} <=> Covering(areas[s], p) # {}
        BY <2>2, Zenon
      <3>4. ASSUME NEW b \in Covering(A, p)
            PROVE  T[p].writable = ~b.readonly /\ (b.handler = "ByFrame" => T[p].present)
        <4>1. PICK a \in Covering(areas[s], p) : b.readonly = a.readonly /\ b.handler = a.handler
          BY <2>2, Zenon
        <4> QED BY <3>2, <4>1, Zenon
      <3> QED BY <3>2, <3>3, <3>4, Zenon
    <2> QED BY <2>1, <2>2, Zenon
  <1>7. AreasDisjoint' /\ TableMatches'
    BY <1>1, <1>6, OneSpace, Zenon
  <1>8. OwnInv'
    <2> DEFINE R == {<<s, p>> : p \in P \cup (IF s \in live' THEN {} ELSE {NPage})}
    <2>1. R \in SUBSET Holder
      BY DEF Holder
    <2>2. \A p \in Page : p # NPage
      BY DEF Page
    <2>3. ASSUME NEW h \in R PROVE Holds(h)' = {}
      <3>1. PICK p \in P \cup (IF s \in live' THEN {} ELSE {NPage}) : h = <<s, p>>
        BY SMTT(30), Zenon
      <3>2. CASE p \in P
        BY <1>2, <1>4, <2>2, <3>1, <3>2, Zenon DEF Holds
      <3>3. CASE p = NPage /\ s \notin live'
        BY <3>1, <3>3, Zenon DEF Holds
      <3> QED BY <2>2, <3>1, <3>2, <3>3, Zenon
    <2>4. ASSUME NEW h \in Holder PROVE Holds(h)' \subseteq Holds(h)
      <3>1. PICK t \in Space, p \in Page \cup {NPage} : h = <<t, p>>
        BY SMTT(30), Zenon DEF Holder
      <3>2. CASE p = NPage
        BY <3>1, <3>2, Zenon DEF Holds
      <3>3. CASE p # NPage /\ t # s
        BY <1>4, <3>1, <3>3, Zenon DEF Holds
      <3>4. CASE p # NPage /\ t = s
        BY <1>2, <1>4, <3>1, <3>4, Zenon DEF Holds
      <3> QED BY <3>2, <3>3, <3>4, Zenon
    <2>5. ASSUME NEW x \in free' PROVE x \in free \/ \E h \in R : x \in Holds(h)
      <3>1. CASE x \in Mapped(s, P)
        <4>1. PICK p \in P : table[s][p].present /\ x = table[s][p].target
          BY <3>1, Zenon DEF Mapped
        <4>2. x \in Holds(<<s, p>>) /\ <<s, p>> \in R
          BY <2>2, <4>1, Zenon DEF Holds
        <4> QED BY <4>2, Zenon
      <3>2. CASE s \in live /\ s \notin live' /\ x = root[s]
        <4>1. x \in Holds(<<s, NPage>>) /\ <<s, NPage>> \in R
          BY <3>2, Zenon DEF Holds
        <4> QED BY <4>1, Zenon
      <3> QED BY <3>1, <3>2, Zenon
    <2> HIDE DEF R
    <2> QED BY <2>1, <2>3, <2>4, <2>5, GiveOwn, Zenon
  <1> QED BY <1>5, <1>7, <1>8, Zenon

(* MemorySet::pop. *)
LEMMA PopIInv ==
  ASSUME IInv, NEW s \in Space, Pop(s)
  PROVE  IInv'
  <1> USE MemoryAssumption DEF IInv
  <1>1. PICK a \in areas[s] : /\ areas' = [areas EXCEPT ![s] = areas[s] \ {a}]
                             /\ unmap(s, Pages(a))
                             /\ free' = free \cup dealloc(Mapped(s, Pages(a)))
                             /\ UNCHANGED <<live, root, halted>>
    BY Zenon DEF Pop
  <1> DEFINE A == areas[s] \ {a}
             P == Pages(a)
  <1>2. /\ P \in SUBSET Page /\ A \in SUBSET Area
        /\ \A b \in A : b.start < b.end /\ b.end <= NPage
    BY Zenon DEF Pages, TypeOK
  <1>3. Disjoint(areas[s])
    BY BySpace, Zenon
  <1>4. Disjoint(A) /\ \A p \in P : Covering(A, p) = {}
    BY <1>3, Zenon DEF Disjoint, Covering
  <1>5. \A p \in Page \ P : Covering(A, p) = Covering(areas[s], p)
    BY Zenon DEF Covering
  <1>6. DeadEmpty'
    BY <1>1, Zenon DEF DeadEmpty, TypeOK
  <1>7. /\ free' \subseteq 0..MaxId
        /\ \A x \in free' : x \in free \/ x \in Mapped(s, P)
    BY <1>1, Zenon DEF dealloc, TypeOK
  <1>8. live' = live /\ root' \in [Space -> Frame \cup {0}] /\ root' = root /\ halted' = halted
    BY <1>1, Zenon DEF TypeOK
  <1>9. areas' = [areas EXCEPT ![s] = A] /\ unmap(s, P)
    BY <1>1, Zenon
  <1> HIDE DEF A, P, IInv
  <1>10. /\ \A p \in Page \ P : Covering(areas[s], p) # {} => Covering(A, p) # {}
         /\ \A p \in Page \ P : \A b \in Covering(A, p) : \E c \in Covering(areas[s], p) :
              b.readonly = c.readonly /\ b.handler = c.handler
    BY <1>5, Zenon
  <1>11. \A x \in free' : \/ x \in free \/ x \in Mapped(s, P)
                          \/ s \in live /\ s \notin live' /\ x = root[s]
    BY <1>7, Zenon
  <1>12. live' \subseteq live /\ \A t \in live' : root'[t] = root[t]
    BY <1>8, Zenon
  <1> QED BY <1>2, <1>4, <1>6, <1>7, <1>8, <1>9, <1>10, <1>11, <1>12, UnmapIInv, Zenon

(* MemorySet::drop. *)
LEMMA DropIInv ==
  ASSUME IInv, NEW s \in Space, Drop(s)
  PROVE  IInv'
  <1> USE MemoryAssumption DEF IInv
  <1> DEFINE P == UNION {Pages(a) : a \in areas[s]}
  <1>1. /\ s \in live /\ live' = live \ {s}
        /\ areas' = [areas EXCEPT ![s] = {}]
        /\ unmap(s, P)
        /\ root' = [root EXCEPT ![s] = 0]
        /\ free' = free \cup dealloc(Mapped(s, P) \cup {root[s]})
        /\ UNCHANGED halted
    BY Zenon DEF Drop
  <1>2. P \in SUBSET Page /\ {} \in SUBSET Area /\ Disjoint({})
    BY Zenon DEF Pages, Disjoint
  <1>3. \A p \in Page : /\ Covering({}, p) = {}
                        /\ p \notin P => Covering(areas[s], p) = {}
    BY Zenon DEF Covering
  <1>4. DeadEmpty'
    BY <1>1, Zenon DEF DeadEmpty, TypeOK
  <1>5. /\ free' \subseteq 0..MaxId
        /\ \A x \in free' : x \in free \/ x \in Mapped(s, P) \/ x = root[s]
    BY <1>1, Zenon DEF dealloc, TypeOK
  <1>6. root' \in [Space -> Frame \cup {0}] /\ \A t \in live' : root'[t] = root[t]
    BY <1>1, Zenon DEF TypeOK
  <1> HIDE DEF P, IInv
  <1>7. /\ \A p \in P : Covering({}, p) = {}
        /\ \A p \in Page \ P : Covering(areas[s], p) # {} => Covering({}, p) # {}
        /\ \A p \in Page \ P : \A b \in Covering({}, p) : \E c \in Covering(areas[s], p) :
             b.readonly = c.readonly /\ b.handler = c.handler
    BY <1>2, <1>3, Zenon
  <1>8. /\ live' \subseteq live
        /\ \A x \in free' : \/ x \in free \/ x \in Mapped(s, P)
                            \/ s \in live /\ s \notin live' /\ x = root[s]
    BY <1>1, <1>5, Zenon
  <1>9. \A b \in {} : b.start < b.end /\ b.end <= NPage
    BY Zenon
  <1> QED BY <1>1, <1>2, <1>4, <1>5, <1>6, <1>7, <1>8, <1>9, UnmapIInv, Zenon
-----------------------------------------------------------------------------
(* What pop_with_split keeps of an area that overlaps the range: areas of   *)
(* the same kind, disjoint, with just the pages outside the range.          *)
LEMMA RestOf ==
  ASSUME NEW a \in Area, a.end <= NPage,
         NEW start \in 0..NPage, NEW end \in 0..NPage, start < end,
         is_overlap_with(a, start, end)
  PROVE  /\ \A b \in rest(a, start, end) :
              /\ b \in Area /\ b.start < b.end /\ b.end <= NPage
              /\ b.readonly = a.readonly /\ b.handler = a.handler
              /\ \A p \in Page : p \in Pages(b) => p \in Pages(a) /\ (p < start \/ p >= end)
         /\ \A b, c \in rest(a, start, end) : b # c => Pages(b) \cap Pages(c) = {}
         /\ \A p \in Pages(a) : p < start \/ p >= end =>
              \E b \in rest(a, start, end) : p \in Pages(b)
  <1> USE MemoryAssumption
  <1> DEFINE pre == [a EXCEPT !.end = start]
             post == [a EXCEPT !.start = end]
             R == rest(a, start, end)
  <1>1. a.start \in Nat /\ a.end \in Nat /\ a.end > start /\ a.start < end
    BY DEF is_overlap_with, Area
  <1>2. /\ pre \in Area /\ pre.start = a.start /\ pre.end = start
        /\ pre.readonly = a.readonly /\ pre.handler = a.handler
    BY SMTT(60) DEF Area
  <1>3. /\ post \in Area /\ post.start = end /\ post.end = a.end
        /\ post.readonly = a.readonly /\ post.handler = a.handler
    BY SMTT(60) DEF Area
  <1>4. /\ \A b \in R : (b = pre /\ a.start < start) \/ (b = post /\ a.end > end)
        /\ a.start < start => pre \in R
        /\ a.end > end => post \in R
    BY Zenon DEF rest
  <1>5. \A p \in Page : /\ p \in Pages(a) <=> a.start <= p /\ p < a.end
                        /\ p \in Pages(pre) <=> a.start <= p /\ p < start
                        /\ p \in Pages(post) <=> end <= p /\ p < a.end
    BY <1>2, <1>3, Zenon DEF Pages
  <1>6. \A b : Pages(b) \subseteq Page
    BY Zenon DEF Pages
  <1> HIDE DEF pre, post, R
  <1>7. ASSUME NEW b \in R
        PROVE  /\ b \in Area /\ b.start < b.end /\ b.end <= NPage
               /\ b.readonly = a.readonly /\ b.handler = a.handler
               /\ \A p \in Page : p \in Pages(b) => p \in Pages(a) /\ (p < start \/ p >= end)
    <2>1. CASE b = pre /\ a.start < start
      BY <1>1, <1>2, <1>5, <2>1 DEF Page
    <2>2. CASE b = post /\ a.end > end
      BY <1>1, <1>3, <1>5, <2>2 DEF Page
    <2> QED BY <1>4, <2>1, <2>2, Zenon
  <1>8. ASSUME NEW b \in R, NEW c \in R, b # c, NEW p \in Page, p \in Pages(b), p \in Pages(c)
        PROVE  FALSE
    <2>1. p \in Pages(pre) /\ p \in Pages(post)
      BY <1>4, <1>8, Zenon
    <2> QED BY <1>5, <2>1 DEF Page
  <1>9. ASSUME NEW p \in Pages(a), p < start \/ p >= end PROVE \E b \in R : p \in Pages(b)
    <2>1. p \in Page
      BY <1>6, Zenon
    <2>2. CASE p < start
      BY <1>1, <1>4, <1>5, <2>1, <2>2 DEF Page
    <2>3. CASE p >= end
      BY <1>1, <1>4, <1>5, <2>1, <2>3 DEF Page
    <2> QED BY <1>9, <2>2, <2>3, Zenon
  <1>10. \A b, c \in R : b # c => Pages(b) \cap Pages(c) = {}
    BY <1>6, <1>8, Zenon
  <1> QED BY <1>7, <1>9, <1>10, Zenon DEF R

\* pop_with_split: the areas it meets, the pages that go and the areas that stay.
HitBy(s, start, end) == {a \in areas[s] : is_overlap_with(a, start, end)}
DeadBy(s, start, end) ==
  {p \in Page : start <= p /\ p < end /\ \E a \in HitBy(s, start, end) : p \in Pages(a)}
KeptBy(s, start, end) ==
  (areas[s] \ HitBy(s, start, end)) \cup
  UNION {rest(a, start, end) : a \in HitBy(s, start, end)}

\* P are the pages of s that go, A the areas that stay.
SplitResult(s, P, A) ==
  /\ P \in SUBSET Page /\ A \in SUBSET Area
  /\ \A b \in A : b.start < b.end /\ b.end <= NPage
  /\ Disjoint(A)
  /\ \A p \in P : Covering(A, p) = {}
  /\ \A p \in Page \ P : Covering(areas[s], p) # {} => Covering(A, p) # {}
  /\ \A p \in Page \ P : \A b \in Covering(A, p) : \E a \in Covering(areas[s], p) :
       b.readonly = a.readonly /\ b.handler = a.handler

(* The areas that stay are disjoint, and a page outside the range is in an  *)
(* area of the kind it was in.                                              *)
LEMMA SplitAreas ==
  ASSUME IInv, NEW s \in Space, NEW start \in 0..NPage, NEW end \in 0..NPage, start < end
  PROVE  SplitResult(s, DeadBy(s, start, end), KeptBy(s, start, end))
  <1> USE MemoryAssumption DEF IInv
  <1> DEFINE hit == HitBy(s, start, end)
             P == DeadBy(s, start, end)
             A == KeptBy(s, start, end)
  <1>1. start < end
    BY Zenon
  <1>2. \A a \in areas[s] : a \in Area /\ a.start < a.end /\ a.end <= NPage
    BY Zenon DEF TypeOK
  <1>3. Disjoint(areas[s]) /\ \A a : Pages(a) \subseteq Page
    BY BySpace, Zenon DEF Pages
  <1>4. P \in SUBSET Page
    BY Zenon DEF DeadBy
  <1>5. ASSUME NEW b \in A
        PROVE  \E a \in areas[s] : (a \in hit /\ b \in rest(a, start, end)) \/ (a \notin hit /\ b = a)
    BY Zenon DEF KeptBy, HitBy
  <1>6. \A a \in hit : a \in areas[s] /\ \A b \in rest(a, start, end) : b \in A
    BY Zenon DEF KeptBy, HitBy
  <1>7. ASSUME NEW a \in areas[s], a \notin hit, NEW p \in Pages(a)
        PROVE  a \in A /\ (p < start \/ p >= end)
    <2>1. a.end <= start \/ a.start >= end
      BY <1>7, Zenon DEF is_overlap_with, HitBy
    <2>2. a \in A
      BY <1>7, Zenon DEF KeptBy
    <2> QED BY <1>2, <1>7, <2>1, <2>2 DEF Pages, Page, Area
  <1>8. ASSUME NEW a \in hit
        PROVE  /\ a \in Area /\ a.end <= NPage /\ is_overlap_with(a, start, end)
               /\ \A p \in Pages(a) : p \in P <=> ~(p < start \/ p >= end)
    BY <1>2, <1>3 DEF Page, HitBy, DeadBy
  <1>9. \A p \in P : start <= p /\ p < end
    BY Zenon DEF DeadBy
  <1> HIDE DEF hit, P, A
  <1>10. ASSUME NEW b \in A
         PROVE  /\ b \in Area /\ b.start < b.end /\ b.end <= NPage
                /\ \E a \in areas[s] :
                     /\ b.readonly = a.readonly /\ b.handler = a.handler
                     /\ Pages(b) \subseteq Pages(a)
                     /\ \A p \in Pages(b) : p < start \/ p >= end
    <2>1. PICK a \in areas[s] :
            (a \in hit /\ b \in rest(a, start, end)) \/ (a \notin hit /\ b = a)
      BY <1>5, Zenon
    <2>2. CASE a \in hit
      <3>1. /\ b \in Area /\ b.start < b.end /\ b.end <= NPage
            /\ b.readonly = a.readonly /\ b.handler = a.handler
            /\ \A p \in Page : p \in Pages(b) => p \in Pages(a) /\ (p < start \/ p >= end)
        BY <1>1, <1>8, <2>1, <2>2, RestOf, Zenon
      <3> QED BY <1>3, <3>1, Zenon
    <2>3. CASE a \notin hit
      <3>1. b = a
        BY <2>1, <2>3, Zenon
      <3> QED BY <1>2, <1>7, <2>3, <3>1, Zenon
    <2> QED BY <2>2, <2>3, Zenon
  <1>11. ASSUME NEW b \in A, NEW c \in A, b # c PROVE Pages(b) \cap Pages(c) = {}
    <2>1. PICK d \in areas[s] :
            (d \in hit /\ b \in rest(d, start, end)) \/ (d \notin hit /\ b = d)
      BY <1>5, Zenon
    <2>2. PICK e \in areas[s] :
            (e \in hit /\ c \in rest(e, start, end)) \/ (e \notin hit /\ c = e)
      BY <1>5, Zenon
    <2>3. CASE d = e
      <3>1. d \in hit /\ b \in rest(d, start, end) /\ c \in rest(d, start, end)
        BY <1>11, <2>1, <2>2, <2>3, Zenon
      <3> QED BY <1>1, <1>8, <1>11, <3>1, RestOf, Zenon
    <2>4. CASE d # e
      <3>1. Pages(b) \subseteq Pages(d)
        <4>1. CASE d \in hit
          BY <1>1, <1>3, <1>8, <2>1, <4>1, RestOf, Zenon
        <4> QED BY <2>1, <4>1, Zenon
      <3>2. Pages(c) \subseteq Pages(e)
        <4>1. CASE e \in hit
          BY <1>1, <1>3, <1>8, <2>2, <4>1, RestOf, Zenon
        <4> QED BY <2>2, <4>1, Zenon
      <3> QED BY <1>3, <2>4, <3>1, <3>2, Zenon DEF Disjoint
    <2> QED BY <2>3, <2>4, Zenon
  <1>12. ASSUME NEW p \in Page \ P, NEW a \in Covering(areas[s], p) PROVE Covering(A, p) # {}
    <2>1. a \in areas[s] /\ p \in Pages(a)
      BY <1>12, Zenon DEF Covering
    <2>2. CASE a \in hit
      <3>1. p < start \/ p >= end
        BY <1>8, <1>12, <2>1, <2>2, Zenon
      <3>2. PICK b \in rest(a, start, end) : p \in Pages(b)
        BY <1>1, <1>8, <2>1, <2>2, <3>1, RestOf
      <3> QED BY <1>6, <2>2, <3>2, Zenon DEF Covering
    <2>3. CASE a \notin hit
      BY <1>7, <2>1, <2>3, Zenon DEF Covering
    <2> QED BY <2>2, <2>3, Zenon
  <1>13. /\ A \in SUBSET Area /\ \A b \in A : b.start < b.end /\ b.end <= NPage
         /\ Disjoint(A)
    BY <1>10, <1>11, Zenon DEF Disjoint
  <1>14. ASSUME NEW p \in P PROVE Covering(A, p) = {}
    <2> SUFFICES ASSUME NEW b \in Covering(A, p) PROVE FALSE
      BY Zenon
    <2>1. b \in A /\ p \in Pages(b)
      BY Zenon DEF Covering
    <2>2. p < start \/ p >= end
      BY <1>10, <2>1, Zenon
    <2> QED BY <1>4, <1>9, <2>2 DEF Page
  <1>15. ASSUME NEW p \in Page \ P, NEW b \in Covering(A, p)
         PROVE  \E a \in Covering(areas[s], p) : b.readonly = a.readonly /\ b.handler = a.handler
    BY <1>10, <1>15, Zenon DEF Covering
  <1>16. \A p \in Page \ P : Covering(areas[s], p) # {} => Covering(A, p) # {}
    BY <1>12, Zenon
  <1> HIDE DEF IInv
  <1>17. SplitResult(s, P, A)
    BY <1>4, <1>13, <1>14, <1>15, <1>16, Zenon DEF SplitResult
  <1> QED BY <1>17, Zenon DEF P, A

(* The step of pop_with_split in these terms. *)
LEMMA SplitStep ==
  ASSUME NEW s \in Space, PopWithSplit(s)
  PROVE  \E start, end \in 0..NPage :
           /\ s \in live /\ start < end /\ ~halted
           /\ areas' = [areas EXCEPT ![s] = KeptBy(s, start, end)]
           /\ unmap(s, DeadBy(s, start, end))
           /\ free' = free \cup dealloc(Mapped(s, DeadBy(s, start, end)))
           /\ UNCHANGED <<live, root, halted>>
  BY Zenon DEF PopWithSplit, KeptBy, DeadBy, HitBy

(* MemorySet::pop_with_split. *)
LEMMA PopWithSplitIInv ==
  ASSUME IInv, NEW s \in Space, PopWithSplit(s)
  PROVE  IInv'
  <1>0. PICK start, end \in 0..NPage :
           /\ s \in live /\ start < end /\ ~halted
           /\ areas' = [areas EXCEPT ![s] = KeptBy(s, start, end)]
           /\ unmap(s, DeadBy(s, start, end))
           /\ free' = free \cup dealloc(Mapped(s, DeadBy(s, start, end)))
           /\ UNCHANGED <<live, root, halted>>
    BY SplitStep, Zenon
  <1> DEFINE P == DeadBy(s, start, end)
             A == KeptBy(s, start, end)
  <1>1. SplitResult(s, P, A)
    BY <1>0, SplitAreas, Zenon
  <1>2. areas' = [areas EXCEPT ![s] = A] /\ unmap(s, P)
    BY <1>0, Zenon
  <1> HIDE DEF P, A
  <1>3. DeadEmpty'
    BY <1>0, <1>2, Zenon DEF DeadEmpty, TypeOK, IInv
  <1>4. /\ free' \subseteq 0..MaxId
        /\ \A x \in free' : x \in free \/ x \in Mapped(s, P)
    BY <1>0, Zenon DEF dealloc, TypeOK, IInv, P
  <1>5. live' = live /\ root' \in [Space -> Frame \cup {0}] /\ root' = root /\ halted' = halted
    BY <1>0, Zenon DEF TypeOK, IInv
  <1>6. /\ live' \subseteq live /\ \A t \in live' : root'[t] = root[t]
        /\ \A x \in free' : \/ x \in free \/ x \in Mapped(s, P)
                            \/ s \in live /\ s \notin live' /\ x = root[s]
    BY <1>4, <1>5, Zenon
  <1> QED BY <1>1, <1>2, <1>3, <1>4, <1>5, <1>6, UnmapIInv, Zenon DEF SplitResult

(* The page table of a clone agrees with the areas it is cloned from. *)
LEMMA CloneTable ==
  ASSUME IInv, NEW s \in Space, NEW f \in alloc(copied(s) \cup {NPage})
  PROVE  /\ clone_table(s, f) \in [Page -> [present : BOOLEAN, target : Frame \cup {0},
                                          writable : BOOLEAN, user : BOOLEAN]]
         /\ Matches(areas[s], clone_table(s, f))
         /\ \A p \in Page : clone_table(s, f)[p].present <=> p \in copied(s)
         /\ \A p \in copied(s) : clone_table(s, f)[p].target = f[p]
  <1> USE MemoryAssumption DEF IInv
  <1> DEFINE T == clone_table(s, f)
             C(p) == Covering(areas[s], p)
  <1>1. f \in [copied(s) \cup {NPage} -> Frame]
    BY AllocFrames, Zenon
  <1>2. Disjoint(areas[s]) /\ \A a : Pages(a) \subseteq Page
    BY BySpace, Zenon DEF Pages
  <1>3. copied(s) \subseteq Page
    BY Zenon DEF copied
  <1>4. ASSUME NEW p \in Page
        PROVE  /\ T[p] \in [present : BOOLEAN, target : Frame \cup {0}, writable : BOOLEAN,
                            user : BOOLEAN]
               /\ T[p].user <=> C(p) # {}
               /\ T[p].present <=> p \in copied(s)
               /\ p \in copied(s) => T[p].target = f[p]
               /\ \A a \in C(p) :
                    T[p].writable = ~a.readonly /\ (a.handler = "ByFrame" => T[p].present)
    <2>0. AreaOf(s, p) = C(p)
      BY Zenon DEF AreaOf, Covering
    <2>1. CASE C(p) = {}
      <3>1. T[p] = NoEntry
        BY <2>0, <2>1, Zenon DEF clone_table
      <3>2. p \notin copied(s)
        BY <2>0, <2>1, Zenon DEF copied
      <3> QED BY <2>1, <3>1, <3>2 DEF NoEntry
    <2>2. CASE C(p) # {}
      <3> DEFINE a == CHOOSE b \in AreaOf(s, p) : TRUE
      <3>1. a \in C(p)
        BY <2>0, <2>2, Zenon
      <3>2. T[p] = IF p \in copied(s) THEN Entry(TRUE, f[p], a) ELSE Entry(FALSE, 0, a)
        BY <2>0, <2>2, Zenon DEF clone_table
      <3> HIDE DEF a
      <3>3. a \in Area /\ \A b \in C(p) : b = a
        BY <1>2, <3>1, Zenon DEF Covering, Disjoint, TypeOK
      <3>4. a.handler = "ByFrame" => p \in copied(s)
        BY <2>0, <3>1, Zenon DEF copied
      <3>5. p \in copied(s) => f[p] \in Frame
        BY <1>1, Zenon
      <3>6. CASE p \in copied(s)
        <4>1. T[p] = [present |-> TRUE, target |-> f[p], writable |-> ~a.readonly, user |-> TRUE]
          BY <3>2, <3>6, Zenon DEF Entry
        <4> HIDE DEF T
        <4> QED BY <2>2, <3>3, <3>5, <3>6, <4>1
      <3>7. CASE p \notin copied(s)
        <4>1. T[p] = [present |-> FALSE, target |-> 0, writable |-> ~a.readonly, user |-> TRUE]
          BY <3>2, <3>7, Zenon DEF Entry
        <4> HIDE DEF T
        <4> QED BY <2>2, <3>3, <3>4, <3>7, <4>1
      <3> QED BY <3>6, <3>7, Zenon
    <2> QED BY <2>1, <2>2, Zenon
  <1>5. T \in [Page -> [present : BOOLEAN, target : Frame \cup {0}, writable : BOOLEAN,
                       user : BOOLEAN]]
    BY <1>4, Zenon DEF clone_table
  <1>6. \A p \in copied(s) : C(p) # {}
    BY Zenon DEF copied, Covering, AreaOf
  <1>7. Matches(areas[s], T)
    <2> HIDE DEF T
    <2> QED BY <1>4, <1>6, Zenon DEF Matches
  <1> QED BY <1>3, <1>4, <1>5, <1>7, Zenon

(* MemorySet::clone. *)
LEMMA CloneIInv ==
  ASSUME IInv, NEW s \in Space, NEW c \in Space, Clone(s, c)
  PROVE  IInv'
  <1> USE MemoryAssumption DEF IInv
  <1> DEFINE P == copied(s)
  <1>1. CASE Halt
    BY <1>1, HaltIInv, Zenon DEF Halt
  <1>2. CASE ~Halt
    <2>1. /\ s \in live /\ c \notin live
          /\ \E f \in alloc(P \cup {NPage}) :
               /\ ~(~IsRam(f[NPage]) \/ \E p \in P : ~IsRam(f[p]) \/ ~IsRam(table[s][p].target))
               /\ live' = live \cup {c}
               /\ areas' = [areas EXCEPT ![c] = areas[s]]
               /\ table' = [table EXCEPT ![c] = clone_table(s, f)]
               /\ root' = [root EXCEPT ![c] = f[NPage]]
               /\ free' = taken({f[p] : p \in P \cup {NPage}})
               /\ content' = [g \in Frame |->
                    IF \E p \in P : f[p] = g
                    THEN content[table[s][CHOOSE p \in P : f[p] = g].target] ELSE content[g]]
               /\ UNCHANGED halted
      BY <1>2, Zenon DEF Clone
    <2>2. PICK f \in alloc(P \cup {NPage}) :
               /\ ~(~IsRam(f[NPage]) \/ \E p \in P : ~IsRam(f[p]) \/ ~IsRam(table[s][p].target))
               /\ live' = live \cup {c}
               /\ areas' = [areas EXCEPT ![c] = areas[s]]
               /\ table' = [table EXCEPT ![c] = clone_table(s, f)]
               /\ root' = [root EXCEPT ![c] = f[NPage]]
               /\ free' = taken({f[p] : p \in P \cup {NPage}})
               /\ content' = [g \in Frame |->
                    IF \E p \in P : f[p] = g
                    THEN content[table[s][CHOOSE p \in P : f[p] = g].target] ELSE content[g]]
               /\ UNCHANGED halted
      BY <2>1, Zenon
    <2> DEFINE T == clone_table(s, f)
    <2>3. /\ T \in [Page -> [present : BOOLEAN, target : Frame \cup {0}, writable : BOOLEAN,
                            user : BOOLEAN]]
          /\ Matches(areas[s], T)
          /\ \A p \in Page : T[p].present <=> p \in P
          /\ \A p \in P : T[p].target = f[p]
      BY CloneTable, Zenon
    <2>4. P \subseteq Page /\ f \in [P \cup {NPage} -> Frame] /\ \A p \in Page : p # NPage
      BY AllocFrames DEF copied, Page
    <2> HIDE DEF T, P
    <2>5. /\ table'[c] = T /\ areas'[c] = areas[s] /\ root'[c] = f[NPage]
          /\ \A t \in Space : t # c => table'[t] = table[t] /\ areas'[t] = areas[t]
                                                           /\ root'[t] = root[t]
      BY <2>2, Zenon DEF T, TypeOK
    <2>6. AreasDisjoint' /\ TableMatches'
      <3>1. Disjoint(areas[s])
        BY BySpace, Zenon
      <3> QED BY <2>2, <2>3, <3>1, OneSpace, Zenon DEF T
    <2>7. DeadEmpty'
      BY <2>2, <2>5, Zenon DEF DeadEmpty
    <2>8. TypeOK'
      <3>1. areas' \in [Space -> SUBSET Area] /\ live' \subseteq Space
        BY <2>2, Zenon DEF TypeOK
      <3>2. \A t \in Space : \A b \in areas'[t] : b.start < b.end /\ b.end <= NPage
        BY <2>5, Zenon DEF TypeOK
      <3>3. table' \in [Space -> [Page -> [present : BOOLEAN, target : Frame \cup {0},
                                          writable : BOOLEAN, user : BOOLEAN]]]
        BY <2>2, <2>3, Zenon DEF TypeOK, T
      <3>4. root' \in [Space -> Frame \cup {0}]
        BY <2>2, <2>4, Zenon DEF TypeOK
      <3>5. free' \subseteq 0..MaxId
        BY <2>2, Zenon DEF TypeOK, taken
      <3>6. content' \in [Frame -> Value]
        <4>1. ASSUME NEW g \in Frame, \E p \in P : f[p] = g
              PROVE  content[table[s][CHOOSE p \in P : f[p] = g].target] \in Value
          <5> DEFINE q == CHOOSE p \in P : f[p] = g
          <5>1. q \in P
            BY <4>1, Zenon
          <5> HIDE DEF q
          <5>2. IsRam(table[s][q].target)
            BY <2>2, <5>1, Zenon
          <5>3. table[s][q].target \in Frame
            BY <5>2, SMTT(30), Zenon DEF IsRam, Frame
          <5>4. content[table[s][q].target] \in Value
            BY <5>3, Zenon DEF TypeOK
          <5> QED BY <5>4, Zenon DEF q
        <4>2. \A g \in Frame : content[g] \in Value
          BY Zenon DEF TypeOK
        <4> QED BY <2>2, <4>1, <4>2, Zenon
      <3> QED BY <2>2, <3>1, <3>2, <3>3, <3>4, <3>5, <3>6, Zenon DEF TypeOK
    <2>9. OwnInv'
      <3> DEFINE E == P \cup {NPage}
      <3>1. ASSUME NEW p \in E PROVE Holds(<<c, p>>)' = {f[p]}
        <4>1. CASE p = NPage
          BY <2>2, <2>5, <4>1, Zenon DEF Holds
        <4>2. CASE p \in P
          BY <2>3, <2>4, <2>5, <4>2, Zenon DEF Holds
        <4> QED BY <4>1, <4>2, Zenon
      <3>2. ASSUME NEW t \in Space, NEW p \in Page \cup {NPage}, ~(t = c /\ p \in E)
            PROVE  Holds(<<t, p>>)' \subseteq Holds(<<t, p>>)
        <4>1. CASE t = c
          <5>1. p \in Page /\ p # NPage /\ ~T[p].present
            BY <2>3, <2>4, <3>2, <4>1, Zenon
          <5> QED BY <2>5, <4>1, <5>1, Zenon DEF Holds
        <4>2. CASE t # c
          <5>1. t \in live' <=> t \in live
            BY <2>2, <4>2, Zenon
          <5> QED BY <2>5, <4>2, <5>1, Zenon DEF Holds
        <4> QED BY <4>1, <4>2, Zenon
      <3>3. E \subseteq Page \cup {NPage} /\ free' = taken({f[p] : p \in E}) /\ f \in alloc(E)
        BY <2>2, <2>4, Zenon
      <3> HIDE DEF E
      <3> QED BY <3>1, <3>2, <3>3, TakeAt, SMTT(30), Zenon
    <2> QED BY <2>6, <2>7, <2>8, <2>9, Zenon
  <1> QED BY <1>1, <1>2, Zenon

(* handle_page_fault. *)
LEMMA FaultIInv ==
  ASSUME IInv, NEW s \in Space, NEW p \in Page, Fault(s, p)
  PROVE  IInv'
  <1> USE MemoryAssumption DEF IInv
  <1>1. CASE Halt
    BY <1>1, HaltIInv, Zenon DEF Halt
  <1>2. CASE ~Halt
    <2>1. s \in live /\ \E a \in AreaOf(s, p), f \in alloc({p}) :
            /\ table' = [table EXCEPT ![s][p] = Entry(TRUE, f[p], a)]
            /\ free' = taken({f[p]})
            /\ content' = [content EXCEPT ![f[p]] = filled(a, p)]
            /\ UNCHANGED <<live, areas, root, halted>>
      BY <1>2, Zenon DEF Fault
    <2>2. PICK a \in AreaOf(s, p), f \in alloc({p}) :
            /\ table' = [table EXCEPT ![s][p] = Entry(TRUE, f[p], a)]
            /\ free' = taken({f[p]})
            /\ content' = [content EXCEPT ![f[p]] = filled(a, p)]
            /\ UNCHANGED <<live, areas, root, halted>>
      BY <2>1, Zenon
    <2> DEFINE T == [table[s] EXCEPT ![p] = Entry(TRUE, f[p], a)]
    <2>3. table' = [table EXCEPT ![s] = T] /\ areas' = [areas EXCEPT ![s] = areas[s]]
      BY <2>2, Zenon DEF TypeOK
    <2>4. a \in Area /\ f[p] \in Frame /\ p # NPage /\ a \in Covering(areas[s], p)
      BY AllocFrames, SMTT(30), Zenon DEF AreaOf, Covering, TypeOK, Page
    <2>5. /\ T[p].present = TRUE /\ T[p].target = f[p]
          /\ T[p].writable = ~a.readonly /\ T[p].user = TRUE
          /\ \A q \in Page : q # p => T[q] = table[s][q]
      BY Zenon DEF TypeOK, Entry
    <2>6. T \in [Page -> [present : BOOLEAN, target : Frame \cup {0}, writable : BOOLEAN,
                         user : BOOLEAN]]
      <3>1. table[s] \in [Page -> [present : BOOLEAN, target : Frame \cup {0},
                                  writable : BOOLEAN, user : BOOLEAN]]
        BY Zenon DEF TypeOK
      <3>2. a.readonly \in BOOLEAN
        BY <2>4, Zenon DEF Area
      <3>3. Entry(TRUE, f[p], a) \in [present : BOOLEAN, target : Frame \cup {0},
                                     writable : BOOLEAN, user : BOOLEAN]
        BY <2>4, <3>2, Zenon DEF Entry
      <3> QED BY <3>1, <3>3, Zenon
    <2> HIDE DEF T
    <2>7. Matches(areas[s], table[s]) /\ Disjoint(areas[s])
      BY BySpace, Zenon
    <2>8. Matches(areas[s], T)
      <3>1. \A b \in Covering(areas[s], p) : b = a
        BY <2>4, <2>7, Zenon DEF Disjoint, Covering
      <3>2. \A b \in Covering(areas[s], p) : T[p].writable = ~b.readonly
        BY <2>5, <3>1, Zenon
      <3>3. T[p].user /\ T[p].present /\ Covering(areas[s], p) # {}
        BY <2>4, <2>5, Zenon
      <3> QED BY <2>5, <2>7, <3>2, <3>3, Zenon DEF Matches
    <2>9. AreasDisjoint' /\ TableMatches'
      BY <2>3, <2>7, <2>8, OneSpace, Zenon
    <2>10. DeadEmpty'
      BY <2>2, Zenon DEF DeadEmpty
    <2>11. TypeOK'
      <3>1. table' \in [Space -> [Page -> [present : BOOLEAN, target : Frame \cup {0},
                                          writable : BOOLEAN, user : BOOLEAN]]]
        BY <2>3, <2>6, Zenon DEF TypeOK
      <3>2. free' \subseteq 0..MaxId
        BY <2>2, Zenon DEF TypeOK, taken
      <3>3. content' \in [Frame -> Value]
        BY <2>2, Zenon DEF TypeOK, filled, Page
      <3> QED BY <2>2, <3>1, <3>2, <3>3, Zenon DEF TypeOK
    <2>12. OwnInv'
      <3>1. Holds(<<s, p>>)' = {f[p]}
        <4>1. table'[s][p].present = TRUE /\ table'[s][p].target = f[p]
          BY <2>3, <2>5, Zenon DEF TypeOK
        <4> QED BY <2>4, <4>1, Zenon DEF Holds
      <3>2. ASSUME NEW t \in Space, NEW q \in Page \cup {NPage}, ~(t = s /\ q \in {p})
            PROVE  Holds(<<t, q>>)' \subseteq Holds(<<t, q>>)
        <4>1. CASE q = NPage
          BY <2>2, <4>1, Zenon DEF Holds
        <4>2. CASE q # NPage
          BY <2>3, <2>5, <3>2, <4>2, ZenonT(30) DEF Holds, TypeOK
        <4> QED BY <4>1, <4>2, ZenonT(30)
      <3>3. {p} \subseteq Page \cup {NPage} /\ free' = taken({f[q] : q \in {p}})
        <4>1. {f[q] : q \in {p}} = {f[p]}
          BY Zenon
        <4> QED BY <2>2, <4>1, Zenon
      <3> QED BY <3>1, <3>2, <3>3, TakeAt, SMTT(60)
    <2> QED BY <2>9, <2>10, <2>11, <2>12, Zenon
  <1> QED BY <1>1, <1>2, Zenon

(* A store that does not fault. *)
LEMMA StoreIInv ==
  ASSUME IInv, NEW s \in Space, NEW p \in Page, NEW v \in Value, Store(s, p, v)
  PROVE  IInv'
  <1> USE DEF IInv
  <1>1. /\ content' = [content EXCEPT ![table[s][p].target] = v]
        /\ UNCHANGED <<live, areas, table, root, free, halted>>
    BY Zenon DEF Store
  <1>2. TypeOK'
    BY <1>1, Zenon DEF TypeOK
  <1>3. DeadEmpty' /\ AreasDisjoint' /\ TableMatches'
    BY <1>1, ZenonT(30) DEF DeadEmpty, AreasDisjoint, TableMatches, AreaOf, Pages, Page
  <1>4. Holder' = Holder /\ \A h \in Holder : Holds(h)' = Holds(h)
    BY <1>1, Zenon DEF Holder, Holds, Page
  <1>5. OwnInv'
    BY <1>1, <1>4 DEF OwnInv
  <1> QED BY <1>2, <1>3, <1>5, Zenon

(* No residue in use twice means no frame in use twice. *)
LEMMA OwnedOnce ==
  ASSUME IInv
  PROVE  OneOwner
  <1> USE MemoryAssumption DEF IInv
  <1>1. \A g, h \in Holder : Holds(g) \cap Holds(h) # {} => g = h
    BY Zenon DEF OwnInv
  <1>2. ASSUME NEW h \in Holder, NEW f \in Holds(h) PROVE f - MEMORY_OFFSET \notin free
    <2>1. f \in Frame /\ \A x \in free : Res(f) # Res(x)
      BY Zenon DEF OwnInv
    <2>2. f - MEMORY_OFFSET \in Nat /\ f = (f - MEMORY_OFFSET) + MEMORY_OFFSET
      BY <2>1 DEF Frame
    <2>3. Res(f - MEMORY_OFFSET) = Res(f)
      BY <2>2, Residue, Zenon
    <2> QED BY <2>1, <2>3, Zenon
  <1> QED BY <1>1, <1>2, Zenon DEF OneOwner

(* Every operation preserves the invariant. *)
LEMMA NextIInv ==
  ASSUME IInv, [Next]_vars
  PROVE  IInv'
  <1>1. ASSUME NEW s \in Space,
               PushPanics(s) \/ PopPanics(s) \/ \E p \in Page : KernelFault(s, p)
        PROVE  IInv'
    <2>1. Halt
      BY <1>1, Zenon DEF PushPanics, PopPanics, KernelFault
    <2> QED BY <2>1, HaltIInv, Zenon DEF Halt
  <1>2. CASE UNCHANGED vars
    <2>1. halted' \in BOOLEAN
      BY <1>2, Zenon DEF vars, IInv, TypeOK
    <2> QED BY <1>2, <2>1, HaltIInv, Zenon DEF vars
  <1>3. CASE Next
    <2>1. PICK s \in Space :
            \/ New(s) \/ Push(s) \/ PushPanics(s) \/ Pop(s) \/ PopPanics(s)
            \/ PopWithSplit(s) \/ Drop(s)
            \/ \E c \in Space : Clone(s, c)
            \/ \E p \in Page : Fault(s, p) \/ KernelFault(s, p) \/ \E v \in Value : Store(s, p, v)
      BY <1>3, Zenon DEF Next
    <2> QED BY <1>1, <2>1, NewIInv, PushIInv, PopIInv, PopWithSplitIInv, DropIInv, CloneIInv,
               FaultIInv, StoreIInv, Zenon
  <1> QED BY <1>2, <1>3, Zenon

(* The invariant holds in every state. *)
LEMMA InvariantHolds == Spec => []IInv
  <1>1. Init => IInv
    BY InitIInv, Zenon
  <1>2. IInv /\ [Next]_vars => IInv'
    BY NextIInv, Zenon
  <1> QED BY <1>1, <1>2, PTL DEF Spec
-----------------------------------------------------------------------------
(* Areas stay non-empty ranges of whole pages, entries name frames and      *)
(* free ids stay in range, through every operation of memory_set.rs.        *)
THEOREM TypeCorrect == Spec => []TypeOK
  <1>1. IInv => TypeOK
    BY Zenon DEF IInv
  <1> QED BY <1>1, InvariantHolds, PTL

(* push, pop_with_split and clone keep the areas of a space disjoint.       *)
THEOREM DisjointAreas == Spec => []AreasDisjoint
  <1>1. IInv => AreasDisjoint
    BY Zenon DEF IInv
  <1> QED BY <1>1, InvariantHolds, PTL

(* The page table has exactly the pages of the areas, with the attributes   *)
(* of the area, whatever is pushed, split, cloned or faulted in.            *)
THEOREM TableAgrees == Spec => []TableMatches
  <1>1. IInv => TableMatches
    BY Zenon DEF IInv
  <1> QED BY <1>1, InvariantHolds, PTL

(* A frame is held by one page or one root only and never by the allocator  *)
(* as well, although dealloc returns it under another id.                   *)
THEOREM FramesOwnedOnce == Spec => []OneOwner
  <1>1. IInv => OneOwner
    BY OwnedOnce, Zenon
  <1> QED BY <1>1, InvariantHolds, PTL
-----------------------------------------------------------------------------
(***************************************************************************)
(* MemorySet implements AddressSpace: with one owner for every frame, a    *)
(* step on one space shows in the pages of that space only, and a page     *)
(* fault shows nowhere.                                                    *)
(***************************************************************************)

(***************************************************************************)
(* What the mapping needs beyond IInv, for one page: an entry that is not  *)
(* in use is NoEntry to a program, and a read-only page of a file still    *)
(* holds the file, so clone may leave it to a fault of its own.            *)
(***************************************************************************)
PageInv(s, p) ==
  /\ table[s][p].user = FALSE => table[s][p].writable = FALSE
  /\ \A a \in AreaOf(s, p) :
       table[s][p].present /\ a.handler = "File" /\ a.readonly
       => content[table[s][p].target] = FileData[p]

RInv == IInv /\ \A s \in Space, p \in Page : PageInv(s, p)

\* The kinds of the areas of a page, before and after a step, are the same.
SameKinds(s, p) ==
  /\ \A a \in AreaOf(s, p)' : \E b \in AreaOf(s, p) :
       a.handler = b.handler /\ a.readonly = b.readonly
  /\ \A b \in AreaOf(s, p) : \E a \in AreaOf(s, p)' :
       a.handler = b.handler /\ a.readonly = b.readonly

(* A page with the same entry, kind and content looks the same. *)
LEMMA SamePage ==
  ASSUME NEW s \in Space, NEW p \in Page, PageInv(s, p), SameKinds(s, p),
         table'[s][p] = table[s][p],
         table[s][p].present => content'[table[s][p].target] = content[table[s][p].target]
  PROVE  View(s, p)' = View(s, p) /\ PageInv(s, p)'
  <1>1. (\E a \in AreaOf(s, p)' : a.handler = "File") <=> (\E a \in AreaOf(s, p) : a.handler = "File")
    BY DEF SameKinds
  <1>2. View(s, p)' = View(s, p)
    BY <1>1, Zenon DEF View
  <1>3. PageInv(s, p)'
    BY DEF PageInv, SameKinds
  <1> QED BY <1>2, <1>3, Zenon

(* A mapped frame is not in the hands of the allocator, or of another page. *)
LEMMA FrameOfPage ==
  ASSUME IInv, NEW s \in Space, NEW p \in Page, table[s][p].present
  PROVE  /\ table[s][p].target \in Frame
         /\ \A E : \A f \in alloc(E) : \A q \in E : f[q] # table[s][p].target
         /\ \A t \in Space, q \in Page :
              table[t][q].present /\ table[t][q].target = table[s][p].target => t = s /\ q = p
  <1> USE MemoryAssumption DEF IInv
  <1> DEFINE f == table[s][p].target
  <1>1. \A t \in Space, q \in Page : /\ <<t, q>> \in Holder
                                     /\ table[t][q].present => Holds(<<t, q>>) = {table[t][q].target}
    BY DEF Holder, Holds, Page
  <1>2. f \in Frame
    <2>1. <<s, p>> \in Holder /\ f \in Holds(<<s, p>>)
      BY <1>1, Zenon
    <2> HIDE DEF f
    <2> QED BY <2>1, Zenon DEF OwnInv
  <1>3. f - MEMORY_OFFSET \notin free
    BY <1>1, OwnedOnce, Zenon DEF OneOwner
  <1>4. ASSUME NEW E, NEW g \in alloc(E), NEW q \in E PROVE g[q] # f
    BY <1>3, AllocFrames, Zenon
  <1>5. ASSUME NEW t \in Space, NEW q \in Page, table[t][q].present, table[t][q].target = f
        PROVE  t = s /\ q = p
    <2>1. Holds(<<t, q>>) = {f} /\ Holds(<<s, p>>) = {f}
      BY <1>1, <1>5, Zenon
    <2>2. <<t, q>> = <<s, p>>
      BY <1>1, <2>1, Zenon DEF OwnInv
    <2> QED BY <2>2, Zenon
  <1> QED BY <1>2, <1>4, <1>5, Zenon

(* A step that leaves the areas and tables of the spaces other than s, and  *)
(* the content of their frames, as they are.                                *)
LEMMA OtherSpaces ==
  ASSUME RInv, NEW s,
         \A t \in Space \ {s} : areas'[t] = areas[t] /\ table'[t] = table[t],
         \A t \in Space \ {s}, p \in Page : table[t][p].present =>
           content'[table[t][p].target] = content[table[t][p].target]
  PROVE  \A t \in Space \ {s}, p \in Page : View(t, p)' = View(t, p) /\ PageInv(t, p)'
  <1> SUFFICES ASSUME NEW t \in Space \ {s}, NEW p \in Page
               PROVE  View(t, p)' = View(t, p) /\ PageInv(t, p)'
    BY Zenon
  <1>1. SameKinds(t, p)
    <2>1. AreaOf(t, p)' = AreaOf(t, p)
      BY Zenon DEF AreaOf, Pages, Page
    <2> QED BY <2>1, Zenon DEF SameKinds
  <1>2. PageInv(t, p)
    BY Zenon DEF RInv
  <1> QED BY <1>1, <1>2, SamePage, Zenon

(* Unmapping the pages P of one space, as pop, pop_with_split and drop do:  *)
(* they become Unmapped, and nothing else changes.                          *)
LEMMA UnmapView ==
  ASSUME RInv, NEW s \in Space, NEW P \in SUBSET Page, unmap(s, P),
         \A t \in Space \ {s} : areas'[t] = areas[t],
         \A p \in P : AreaOf(s, p)' = {},
         \A p \in Page \ P : SameKinds(s, p)
  PROVE  /\ \A t \in Space \ {s}, p \in Page : View(t, p)' = View(t, p)
         /\ \A p \in P : View(s, p)' = Abs!Unmapped /\ table'[s][p].user = FALSE
         /\ \A p \in Page \ P : View(s, p)' = View(s, p)
         /\ \A t \in Space, p \in Page : PageInv(t, p)'
  <1> USE MemoryAssumption
  <1>1. /\ \A t \in Space \ {s} : table'[t] = table[t]
        /\ \A p \in P : table'[s][p] = NoEntry
        /\ \A p \in Page \ P : table'[s][p] = table[s][p]
    BY Zenon DEF unmap, RInv, IInv, TypeOK
  <1>2. ASSUME NEW t \in Space, NEW p \in Page, ~(t = s /\ p \in P), table[t][p].present
        PROVE  content'[table[t][p].target] = content[table[t][p].target]
    <2> DEFINE f == table[t][p].target
    <2>0. IInv
      BY Zenon DEF RInv
    <2>1. f \in Frame
      BY <1>2, <2>0, FrameOfPage, Zenon
    <2>2. f \notin Mapped(s, P)
      <3> SUFFICES ASSUME NEW q \in P, table[s][q].present, f = table[s][q].target PROVE FALSE
        BY Zenon DEF Mapped
      <3>1. s = t /\ q = p
        BY <1>2, <2>0, FrameOfPage
      <3> QED BY <1>2, <3>1, Zenon
    <2> QED BY <2>1, <2>2, Zenon DEF unmap
  <1>a. \A t \in Space \ {s}, p \in Page : table[t][p].present =>
          content'[table[t][p].target] = content[table[t][p].target]
    BY <1>2, Zenon
  <1>b. \A t \in Space \ {s} : areas'[t] = areas[t] /\ table'[t] = table[t]
    BY <1>1, Zenon
  <1>3. \A t \in Space \ {s}, p \in Page : View(t, p)' = View(t, p) /\ PageInv(t, p)'
    BY <1>a, <1>b, OtherSpaces, Zenon
  <1>4. ASSUME NEW p \in P
        PROVE  View(s, p)' = Abs!Unmapped /\ table'[s][p].user = FALSE /\ PageInv(s, p)'
    <2>1. /\ table'[s][p].present = FALSE /\ table'[s][p].user = FALSE
          /\ table'[s][p].writable = FALSE /\ AreaOf(s, p)' = {}
      BY <1>1 DEF NoEntry
    <2>2. View(s, p)' = Abs!Unmapped
      BY <2>1, Zenon DEF View, Abs!Unmapped
    <2> QED BY <2>1, <2>2, Zenon DEF PageInv
  <1>5. ASSUME NEW p \in Page \ P PROVE View(s, p)' = View(s, p) /\ PageInv(s, p)'
    <2>1. PageInv(s, p) /\ SameKinds(s, p) /\ table'[s][p] = table[s][p]
      BY <1>1, Zenon DEF RInv
    <2> QED BY <1>2, <2>1, SamePage, Zenon
  <1> QED BY <1>3, <1>4, <1>5, Zenon

(* An area that covers a page is the only one, and a space without areas    *)
(* has no page in use.                                                      *)
LEMMA OneArea ==
  ASSUME RInv, NEW s \in Space, NEW p \in Page
  PROVE  /\ \A a, b \in AreaOf(s, p) : a = b
         /\ AreaOf(s, p) = {} => View(s, p) = Abs!Unmapped /\ table[s][p].present = FALSE
         /\ AreaOf(s, p) # {} => View(s, p).mapped /\ table[s][p].user
         /\ View(s, p).mapped \in BOOLEAN
  <1> USE DEF RInv, IInv
  <1>1. \A a, b \in AreaOf(s, p) : a = b
    BY Zenon DEF AreasDisjoint, AreaOf, Pages
  <1>2. /\ table[s][p].user \in BOOLEAN /\ table[s][p].present \in BOOLEAN
        /\ table[s][p].writable \in BOOLEAN
    BY Zenon DEF TypeOK
  <1>3. CASE AreaOf(s, p) = {}
    <2>1. table[s][p].user = FALSE /\ table[s][p].present = FALSE
      BY <1>2, <1>3, Zenon DEF TableMatches
    <2>2. table[s][p].writable = FALSE
      BY <2>1, Zenon DEF PageInv
    <2>3. View(s, p) = Abs!Unmapped
      BY <1>3, <2>1, <2>2, Zenon DEF View, Abs!Unmapped
    <2> QED BY <1>1, <1>2, <1>3, <2>1, <2>3, Zenon DEF View
  <1>4. CASE AreaOf(s, p) # {}
    <2>1. table[s][p].user
      BY <1>4, Zenon DEF TableMatches
    <2> QED BY <1>1, <1>2, <1>4, <2>1, Zenon DEF View
  <1> QED BY <1>3, <1>4, Zenon

\* The abstract memory.
Mem == [s \in Space |-> [p \in Page |-> View(s, p)]]

(* Steps of one space, in terms of the pages of the abstract memory. *)
LEMMA MemStep ==
  ASSUME NEW s \in Space, \A t \in Space \ {s}, p \in Page : View(t, p)' = View(t, p)
  PROVE  /\ \A t \in Space, p \in Page : Mem[t][p] = View(t, p) /\ Mem'[t][p] = View(t, p)'
         /\ \A t \in Space \ {s} : Mem'[t] = Mem[t]
         /\ (\A p \in Page : View(s, p)' = View(s, p)) => Mem' = Mem
  <1>1. /\ Mem = [t \in Space |-> [p \in Page |-> View(t, p)]]
        /\ Mem' = [t \in Space |-> [p \in Page |-> View(t, p)']]
    BY Zenon DEF Mem, Page
  <1> QED BY <1>1, Zenon
-----------------------------------------------------------------------------
(* The steps of AddressSpace in terms of Mem. *)
LEMMA AbsSteps ==
  ASSUME halted = FALSE
  PROVE  /\ halted' = TRUE /\ live' = live /\ Mem' = Mem => Abs!Next
         /\ \A s \in Space \ live :
              live' = live \cup {s} /\ Mem' = Mem /\ halted' = halted => Abs!Next
         /\ \A s \in live :
              /\ live' = live /\ halted' = halted
              /\ \A t \in Space \ {s} : Mem'[t] = Mem[t]
              /\ \/ \A p \in Page : \/ Mem'[s][p] = Mem[s][p]
                                    \/ ~Mem[s][p].mapped /\ Mem'[s][p].mapped
                 \/ \A p \in Page : Mem'[s][p] \in {Mem[s][p], Abs!Unmapped}
                 \/ \E p \in Page : /\ Mem[s][p].writable
                                    /\ Mem'[s][p].value \in Value
                                    /\ Mem'[s] = [Mem[s] EXCEPT ![p].value = Mem'[s][p].value]
              => Abs!Next
         /\ \A s \in live :
              /\ live' = live \ {s} /\ halted' = halted
              /\ Mem' = [Mem EXCEPT ![s] = [p \in Page |-> Abs!Unmapped]]
              => Abs!Next
         /\ \A s \in live : \A c \in Space \ live :
              /\ live' = live \cup {c} /\ halted' = halted
              /\ Mem' = [Mem EXCEPT ![c] = Mem[s]]
              => Abs!Next
  <1>1. halted' = TRUE /\ live' = live /\ Mem' = Mem => Abs!Next
    BY Zenon DEF Mem, Abs!Next, Abs!Stop
  <1>2. ASSUME NEW s \in Space \ live, live' = live \cup {s}, Mem' = Mem, halted' = halted
        PROVE  Abs!Next
    <2>1. Abs!Create(s)
      BY <1>2, Zenon DEF Mem, Abs!Create
    <2> QED BY <2>1, Zenon DEF Abs!Next
  <1>3. ASSUME NEW s \in live, live' = live, halted' = halted,
               \A t \in Space \ {s} : Mem'[t] = Mem[t],
               \/ \A p \in Page : \/ Mem'[s][p] = Mem[s][p]
                                  \/ ~Mem[s][p].mapped /\ Mem'[s][p].mapped
               \/ \A p \in Page : Mem'[s][p] \in {Mem[s][p], Abs!Unmapped}
               \/ \E p \in Page : /\ Mem[s][p].writable
                                  /\ Mem'[s][p].value \in Value
                                  /\ Mem'[s] = [Mem[s] EXCEPT ![p].value = Mem'[s][p].value]
        PROVE  Abs!Next
    <2>1. Abs!Map(s) \/ Abs!Unmap(s) \/ \E p \in Page : Abs!Write(s, p)
      BY <1>3, Zenon DEF Mem, Abs!Map, Abs!Unmap, Abs!Write
    <2>2. Abs!Change(s)
      BY <1>3, <2>1, Zenon DEF Mem, Abs!Change
    <2> QED BY <2>2, Zenon DEF Abs!Next
  <1>4. ASSUME NEW s \in live, live' = live \ {s}, halted' = halted,
               Mem' = [Mem EXCEPT ![s] = [p \in Page |-> Abs!Unmapped]]
        PROVE  Abs!Next
    <2>1. Abs!Destroy(s)
      BY <1>4, Zenon DEF Mem, Abs!Destroy
    <2> QED BY <2>1, Zenon DEF Abs!Next
  <1>5. ASSUME NEW s \in live, NEW c \in Space \ live, live' = live \cup {c}, halted' = halted,
               Mem' = [Mem EXCEPT ![c] = Mem[s]]
        PROVE  Abs!Next
    <2>1. Abs!Fork(s, c)
      BY <1>5, Zenon DEF Mem, Abs!Fork
    <2> QED BY <2>1, Zenon DEF Abs!Next
  <1> QED BY <1>1, <1>2, <1>3, <1>4, <1>5, Zenon

\* PagingInvisible, for one page.
Invisible(s, p) ==
  /\ table[s][p].user /\ table'[s][p].user
  /\ table'[s][p].target # table[s][p].target
  => View(s, p)' = View(s, p)

\* A step keeps the invariant of the pages and is a step of AddressSpace or a stutter.
Refines ==
  /\ \A t \in Space, p \in Page : Invisible(t, p)
  /\ \A t \in Space, p \in Page : PageInv(t, p)'
  /\ Abs!Next \/ UNCHANGED <<live, Mem, halted>>

(* A panic. *)
LEMMA HaltRefines ==
  ASSUME RInv, halted = FALSE, Halt
  PROVE  Refines
  <1>1. UNCHANGED <<live, areas, table, content>> /\ halted' = TRUE
    BY Zenon DEF Halt
  <1>2. \A t \in Space, p \in Page : View(t, p)' = View(t, p) /\ PageInv(t, p)' = PageInv(t, p)
    BY <1>1 DEF View, PageInv, AreaOf, Pages, Page
  <1>3. Mem' = Mem
    BY <1>2, Zenon DEF Mem, Page
  <1>4. Abs!Next
    BY <1>1, <1>3, AbsSteps, Zenon
  <1> QED BY <1>2, <1>4, Zenon DEF Refines, RInv, Invisible

(* MemorySet::new creates an empty space. *)
LEMMA NewRefines ==
  ASSUME RInv, NEW s \in Space, New(s)
  PROVE  Refines
  <1>0. halted = FALSE /\ s \notin live
    BY Zenon DEF New, RInv, IInv, TypeOK
  <1>1. CASE Halt
    BY <1>0, <1>1, HaltRefines, Zenon
  <1>2. CASE ~Halt
    <2>1. live' = live \cup {s} /\ UNCHANGED <<areas, table, content, halted>>
      BY <1>2, Zenon DEF New
    <2>2. \A t \in Space, p \in Page : View(t, p)' = View(t, p) /\ PageInv(t, p)' = PageInv(t, p)
      BY <2>1 DEF View, PageInv, AreaOf, Pages, Page
    <2>3. Mem' = Mem
      BY <2>2, Zenon DEF Mem, Page
    <2>4. Abs!Next
      BY <1>0, <2>1, <2>3, AbsSteps, Zenon
    <2> QED BY <2>2, <2>4, Zenon DEF Refines, RInv, Invisible
  <1> QED BY <1>1, <1>2, Zenon

(* pop removes pages of one space. *)
LEMMA PopRefines ==
  ASSUME RInv, NEW s \in Space, Pop(s)
  PROVE  Refines
  <1> USE DEF RInv, IInv
  <1>1. PICK a \in areas[s] : areas' = [areas EXCEPT ![s] = areas[s] \ {a}] /\ unmap(s, Pages(a))
    BY Zenon DEF Pop
  <1>2. halted = FALSE /\ s \in live /\ live' = live /\ halted' = halted
    BY <1>1, Zenon DEF Pop, TypeOK, DeadEmpty
  <1> DEFINE P == Pages(a)
  <1>3. P \in SUBSET Page /\ areas'[s] = areas[s] \ {a}
        /\ \A t \in Space \ {s} : areas'[t] = areas[t]
    BY <1>1, Zenon DEF Pages, TypeOK
  <1>4. \A p \in Page : AreaOf(s, p)' = AreaOf(s, p) \ {a}
    BY <1>3, Zenon DEF AreaOf, Pages, Page
  <1>5. \A p \in P : AreaOf(s, p)' = {}
    <2> SUFFICES ASSUME NEW p \in P PROVE AreaOf(s, p)' = {}
      BY Zenon
    <2>1. p \in Page /\ a \in AreaOf(s, p)
      BY <1>3, Zenon DEF AreaOf
    <2>2. \A b \in AreaOf(s, p) : b = a
      BY <2>1, OneArea, Zenon
    <2> QED BY <1>4, <2>1, <2>2, Zenon
  <1>6. \A p \in Page \ P : SameKinds(s, p)
    <2> SUFFICES ASSUME NEW p \in Page \ P PROVE SameKinds(s, p)
      BY Zenon
    <2>1. AreaOf(s, p)' = AreaOf(s, p)
      BY <1>4, Zenon DEF AreaOf
    <2> QED BY <2>1, Zenon DEF SameKinds
  <1>7. unmap(s, P)
    BY <1>1, Zenon
  <1> HIDE DEF P, RInv, IInv
  <1>8. /\ \A t \in Space \ {s}, p \in Page : View(t, p)' = View(t, p)
        /\ \A p \in P : View(s, p)' = Abs!Unmapped /\ table'[s][p].user = FALSE
        /\ \A p \in Page \ P : View(s, p)' = View(s, p)
        /\ \A t \in Space, p \in Page : PageInv(t, p)'
    BY <1>3, <1>5, <1>6, <1>7, UnmapView, Zenon
  <1>9. \A t \in Space \ {s} : Mem'[t] = Mem[t]
    BY <1>8, MemStep, Zenon
  <1>10. \A p \in Page : Mem'[s][p] \in {Mem[s][p], Abs!Unmapped}
    BY <1>8, MemStep
  <1>11. Abs!Next
    BY <1>2, <1>9, <1>10, AbsSteps, Zenon
  <1>12. \A t \in Space, p \in Page : Invisible(t, p)
    BY <1>8, Zenon DEF Invisible
  <1> QED BY <1>8, <1>11, <1>12, Zenon DEF Refines

(* pop_with_split removes pages of one space. *)
LEMMA PopWithSplitRefines ==
  ASSUME RInv, NEW s \in Space, PopWithSplit(s)
  PROVE  Refines
  <1>0. PICK start, end \in 0..NPage :
           /\ s \in live /\ start < end /\ ~halted
           /\ areas' = [areas EXCEPT ![s] = KeptBy(s, start, end)]
           /\ unmap(s, DeadBy(s, start, end))
           /\ free' = free \cup dealloc(Mapped(s, DeadBy(s, start, end)))
           /\ UNCHANGED <<live, root, halted>>
    BY SplitStep, Zenon
  <1> DEFINE P == DeadBy(s, start, end)
             A == KeptBy(s, start, end)
  <1>1. SplitResult(s, P, A)
    BY <1>0, SplitAreas, Zenon DEF RInv
  <1>2. halted = FALSE /\ s \in live /\ live' = live /\ halted' = halted /\ unmap(s, P)
    BY <1>0, Zenon DEF TypeOK, RInv, IInv
  <1>3. areas'[s] = A /\ \A t \in Space \ {s} : areas'[t] = areas[t]
    BY <1>0, Zenon DEF TypeOK, RInv, IInv
  <1> HIDE DEF P, A
  <1>4. \A p \in Page : /\ AreaOf(s, p) = Covering(areas[s], p)
                        /\ AreaOf(s, p)' = Covering(A, p)
    BY <1>3, Zenon DEF AreaOf, Covering, Pages, Page
  <1>5. P \in SUBSET Page /\ \A p \in P : AreaOf(s, p)' = {}
    BY <1>1, <1>4, Zenon DEF SplitResult
  <1>6. ASSUME NEW p \in Page \ P PROVE SameKinds(s, p)
    <2>1. /\ \A b \in Covering(A, p) : \E a \in Covering(areas[s], p) :
               b.readonly = a.readonly /\ b.handler = a.handler
          /\ Covering(areas[s], p) # {} => Covering(A, p) # {}
      BY <1>1, Zenon DEF SplitResult
    <2>2. \A a, b \in Covering(areas[s], p) : a = b
      BY <1>4, OneArea, ZenonT(30)
    <2>3. ASSUME NEW a \in Covering(areas[s], p)
          PROVE  \E b \in Covering(A, p) : b.handler = a.handler /\ b.readonly = a.readonly
      <3>1. PICK b \in Covering(A, p) : TRUE
        BY <2>1, Zenon
      <3> QED BY <2>1, <2>2, Zenon
    <2> QED BY <1>4, <2>1, <2>3 DEF SameKinds
  <1>8. /\ \A t \in Space \ {s}, p \in Page : View(t, p)' = View(t, p)
        /\ \A p \in P : View(s, p)' = Abs!Unmapped /\ table'[s][p].user = FALSE
        /\ \A p \in Page \ P : View(s, p)' = View(s, p)
        /\ \A t \in Space, p \in Page : PageInv(t, p)'
    BY <1>2, <1>3, <1>5, <1>6, UnmapView, Zenon
  <1>9. \A t \in Space \ {s} : Mem'[t] = Mem[t]
    BY <1>8, MemStep, Zenon
  <1>10. \A p \in Page : Mem'[s][p] \in {Mem[s][p], Abs!Unmapped}
    BY <1>8, MemStep
  <1>11. Abs!Next
    BY <1>2, <1>9, <1>10, AbsSteps, Zenon
  <1>12. \A t \in Space, p \in Page : Invisible(t, p)
    BY <1>8, Zenon DEF Invisible
  <1> QED BY <1>8, <1>11, <1>12, Zenon DEF Refines

(* drop destroys one space. *)
LEMMA DropRefines ==
  ASSUME RInv, NEW s \in Space, Drop(s)
  PROVE  Refines
  <1> DEFINE P == UNION {Pages(a) : a \in areas[s]}
  <1>1. /\ halted = FALSE /\ s \in live /\ live' = live \ {s} /\ halted' = halted
        /\ areas' = [areas EXCEPT ![s] = {}] /\ unmap(s, P)
    BY Zenon DEF Drop, TypeOK, RInv, IInv
  <1>2. areas'[s] = {} /\ \A t \in Space \ {s} : areas'[t] = areas[t]
    BY <1>1, Zenon DEF TypeOK, RInv, IInv
  <1>3. P \in SUBSET Page /\ \A p \in Page : AreaOf(s, p)' = {}
    BY <1>2, Zenon DEF Pages, AreaOf
  <1>4. \A p \in Page \ P : AreaOf(s, p) = {}
    BY Zenon DEF AreaOf
  <1> HIDE DEF P
  <1>5. \A p \in Page \ P : SameKinds(s, p)
    BY <1>3, <1>4, Zenon DEF SameKinds
  <1>6. /\ \A t \in Space \ {s}, p \in Page : View(t, p)' = View(t, p)
        /\ \A p \in P : View(s, p)' = Abs!Unmapped /\ table'[s][p].user = FALSE
        /\ \A p \in Page \ P : View(s, p)' = View(s, p)
        /\ \A t \in Space, p \in Page : PageInv(t, p)'
    <2>1. \A p \in P : AreaOf(s, p)' = {}
      BY <1>3, Zenon
    <2> QED BY <1>1, <1>2, <1>3, <1>5, <2>1, UnmapView, Zenon
  <1>7. \A p \in Page : View(s, p)' = Abs!Unmapped
    <2>1. \A p \in Page \ P : View(s, p) = Abs!Unmapped
      BY <1>4, OneArea, Zenon
    <2> QED BY <1>6, <2>1, Zenon
  <1>8. Mem' = [Mem EXCEPT ![s] = [p \in Page |-> Abs!Unmapped]]
    BY <1>6, <1>7, Zenon DEF Mem, Page
  <1>9. Abs!Next
    BY <1>1, <1>8, AbsSteps, Zenon
  <1>10. \A t \in Space, p \in Page : Invisible(t, p)
    BY <1>6, Zenon DEF Invisible
  <1> QED BY <1>6, <1>9, <1>10, Zenon DEF Refines

(* push maps pages that were not in use. *)
LEMMA PushRefines ==
  ASSUME RInv, NEW s \in Space, Push(s)
  PROVE  Refines
  <1> USE MemoryAssumption
  <1>0. PICK from \in Bound, to \in Bound, kind \in Kind :
          LET a == [start |-> of_addr(from), end |-> round_up(to),
                    readonly |-> kind[2], handler |-> kind[1]]
              eager == IF a.handler = "ByFrame" THEN Pages(a) ELSE {}
          IN  /\ ~halted
              /\ s \in live
              /\ from < to
              /\ test_free_area(s, a.start, a.end)
              /\ \E f \in alloc(eager), v \in Value :
                   /\ areas' = [areas EXCEPT ![s] = @ \cup {a}]
                   /\ table' = [table EXCEPT ![s] = [p \in Page |->
                        IF p \notin Pages(a) THEN @[p]
                        ELSE IF p \in eager THEN Entry(TRUE, f[p], a) ELSE Entry(FALSE, 0, a)]]
                   /\ free' = taken({f[p] : p \in eager})
                   /\ content' = [g \in Frame |->
                        IF \E p \in eager : f[p] = g THEN v ELSE content[g]]
                   /\ UNCHANGED <<live, root, halted>>
    BY Zenon DEF Push
  <1> DEFINE a == [start |-> of_addr(from), end |-> round_up(to),
                   readonly |-> kind[2], handler |-> kind[1]]
             eager == IF a.handler = "ByFrame" THEN Pages(a) ELSE {}
  <1>1. PICK f \in alloc(eager), v \in Value :
          /\ areas' = [areas EXCEPT ![s] = areas[s] \cup {a}]
          /\ table' = [table EXCEPT ![s] = [p \in Page |->
               IF p \notin Pages(a) THEN table[s][p]
               ELSE IF p \in eager THEN Entry(TRUE, f[p], a) ELSE Entry(FALSE, 0, a)]]
          /\ free' = taken({f[p] : p \in eager})
          /\ content' = [g \in Frame |-> IF \E p \in eager : f[p] = g THEN v ELSE content[g]]
          /\ UNCHANGED <<live, root, halted>>
    BY <1>0, Zenon
  <1>2. /\ s \in live /\ halted = FALSE /\ live' = live /\ halted' = halted
        /\ test_free_area(s, a.start, a.end) /\ a.start \in Nat /\ a.end \in Nat
    BY <1>0, <1>1, PageRange, Zenon DEF RInv, IInv, TypeOK
  <1>3. a.handler # "ByFrame" => eager = {}
    BY SMTT(30), Zenon
  <1> HIDE DEF a, eager
  <1>4. /\ \A t \in Space \ {s} : areas'[t] = areas[t] /\ table'[t] = table[t]
        /\ areas'[s] = areas[s] \cup {a}
        /\ \A p \in Page : p \notin Pages(a) => table'[s][p] = table[s][p]
        /\ \A p \in Pages(a) : table'[s][p].user = TRUE
                                /\ (p \notin eager => table'[s][p].present = FALSE)
    BY <1>1, Zenon DEF RInv, IInv, TypeOK, Pages, Entry
  <1>5. ASSUME NEW t \in Space, NEW p \in Page, table[t][p].present
        PROVE  content'[table[t][p].target] = content[table[t][p].target]
    <2>1. /\ table[t][p].target \in Frame
          /\ \A q \in eager : f[q] # table[t][p].target
      BY <1>5, FrameOfPage, Zenon DEF RInv
    <2> QED BY <1>1, <2>1, Zenon
  <1>6. \A t \in Space \ {s}, p \in Page : View(t, p)' = View(t, p) /\ PageInv(t, p)'
    <2>1. \A t \in Space \ {s}, p \in Page : table[t][p].present =>
            content'[table[t][p].target] = content[table[t][p].target]
      BY <1>5, Zenon
    <2> QED BY <1>4, <2>1, OtherSpaces, Zenon
  <1>7. ASSUME NEW p \in Page, p \notin Pages(a) PROVE View(s, p)' = View(s, p) /\ PageInv(s, p)'
    <2>1. AreaOf(s, p)' = AreaOf(s, p)
      BY <1>4, <1>7, Zenon DEF AreaOf, Pages, Page
    <2>2. SameKinds(s, p)
      BY <2>1, Zenon DEF SameKinds
    <2>3. PageInv(s, p) /\ table'[s][p] = table[s][p]
      BY <1>4, <1>7, Zenon DEF RInv
    <2> QED BY <1>5, <2>2, <2>3, SamePage, Zenon
  <1>8. ASSUME NEW p \in Pages(a) PROVE p \in Page /\ AreaOf(s, p) = {} /\ AreaOf(s, p)' = {a}
    <2>1. p \in Page
      BY Zenon DEF Pages
    <2>2. ASSUME NEW b \in areas[s] PROVE p \notin Pages(b)
      <3>1. b \in Area
        BY Zenon DEF RInv, IInv, TypeOK
      <3>2. b.end <= a.start \/ b.start >= a.end
        BY <1>2, Zenon DEF test_free_area, is_overlap_with
      <3> QED BY <1>2, <3>1, <3>2 DEF Pages, Page, Area
    <2>3. AreaOf(s, p) = {}
      BY <2>2, Zenon DEF AreaOf
    <2>4. AreaOf(s, p)' = {b \in areas[s] \cup {a} : p \in Pages(b)}
      BY <1>4, Zenon DEF AreaOf, Pages, Page
    <2> QED BY <2>1, <2>2, <2>3, <2>4, Zenon
  <1>9. ASSUME NEW p \in Pages(a) PROVE ~View(s, p).mapped /\ View(s, p)'.mapped
    <2>1. View(s, p) = Abs!Unmapped
      BY <1>8, OneArea, Zenon
    <2>2. View(s, p)'.mapped = table'[s][p].user
      BY Zenon DEF View
    <2> QED BY <1>4, <2>1, <2>2, SMTT(30), Zenon DEF Abs!Unmapped
  <1>10. ASSUME NEW p \in Pages(a) PROVE PageInv(s, p)'
    <2>1. table'[s][p].user = TRUE
      BY <1>4, Zenon
    <2>2. ASSUME NEW b \in AreaOf(s, p)', b.handler = "File" PROVE table'[s][p].present = FALSE
      <3>1. b = a
        BY <1>8, <2>2
      <3> QED BY <1>3, <1>4, <2>2, <3>1, Zenon
    <2> QED BY <2>1, <2>2, Zenon DEF PageInv
  <1>11. \A t \in Space \ {s} : Mem'[t] = Mem[t]
    BY <1>6, MemStep, Zenon
  <1>12. \A p \in Page : \/ Mem'[s][p] = Mem[s][p]
                         \/ ~Mem[s][p].mapped /\ Mem'[s][p].mapped
    BY <1>6, <1>7, <1>9, MemStep
  <1>13. Abs!Next
    BY <1>2, <1>11, <1>12, AbsSteps, Zenon
  <1>14. \A p \in Pages(a) : table[s][p].user = FALSE
    BY <1>8 DEF RInv, IInv, TableMatches, TypeOK
  <1>15. \A t \in Space, p \in Page : Invisible(t, p)
    BY <1>6, <1>7, <1>14, Zenon DEF Invisible
  <1> QED BY <1>6, <1>7, <1>10, <1>13, <1>15, Zenon DEF Refines

(* handle_page_fault is a stutter: the program sees what it saw before. *)
LEMMA FaultRefines ==
  ASSUME RInv, NEW s \in Space, NEW p \in Page, Fault(s, p)
  PROVE  Refines
  <1> USE MemoryAssumption
  <1>0. halted = FALSE
    BY Zenon DEF Fault, RInv, IInv, TypeOK
  <1>1. CASE Halt
    BY <1>0, <1>1, HaltRefines, Zenon
  <1>2. CASE ~Halt
    <2>1. \E a \in {b \in AreaOf(s, p) : b.handler # "ByFrame" /\ ~table[s][p].present},
             f \in alloc({p}) :
            /\ table' = [table EXCEPT ![s][p] = Entry(TRUE, f[p], a)]
            /\ content' = [content EXCEPT ![f[p]] = filled(a, p)]
            /\ UNCHANGED <<live, areas, root, halted>>
      BY <1>2, Zenon DEF Fault
    <2>2. PICK a \in {b \in AreaOf(s, p) : b.handler # "ByFrame" /\ ~table[s][p].present},
               f \in alloc({p}) :
            /\ table' = [table EXCEPT ![s][p] = Entry(TRUE, f[p], a)]
            /\ content' = [content EXCEPT ![f[p]] = filled(a, p)]
            /\ UNCHANGED <<live, areas, root, halted>>
      BY <2>1, Zenon
    <2>3. a \in AreaOf(s, p) /\ a \in Area /\ a.handler # "ByFrame" /\ table[s][p].present = FALSE
      BY DEF AreaOf, RInv, IInv, TypeOK
    <2>4. AreaOf(s, p) = {a} /\ f[p] \in Frame
      <3>1. \A b \in AreaOf(s, p) : b = a
        BY <2>3, OneArea, Zenon
      <3>2. f \in [{p} -> Frame]
        BY AllocFrames, Zenon DEF RInv, IInv
      <3> QED BY <2>3, <3>1, <3>2, Zenon
    <2>5. \A t \in Space, q \in Page : AreaOf(t, q)' = AreaOf(t, q)
      BY <2>2, Zenon DEF AreaOf, Pages, Page
    <2>6. /\ table'[s][p] = [present |-> TRUE, target |-> f[p], writable |-> ~a.readonly, user |-> TRUE]
          /\ \A t \in Space, q \in Page : ~(t = s /\ q = p) => table'[t][q] = table[t][q]
      BY <2>2, Zenon DEF Entry, RInv, IInv, TypeOK
    <2>7. content'[f[p]] = filled(a, p) /\ \A g \in Frame : g # f[p] => content'[g] = content[g]
      BY <2>2, <2>4, Zenon DEF RInv, IInv, TypeOK
    <2>8. ASSUME NEW t \in Space, NEW q \in Page, ~(t = s /\ q = p)
          PROVE  View(t, q)' = View(t, q) /\ PageInv(t, q)'
      <3>1. SameKinds(t, q)
        BY <2>5, Zenon DEF SameKinds
      <3>2. table[t][q].present => content'[table[t][q].target] = content[table[t][q].target]
        <4> SUFFICES ASSUME table[t][q].present
                     PROVE  content'[table[t][q].target] = content[table[t][q].target]
          BY Zenon
        <4>1. table[t][q].target \in Frame /\ f[p] # table[t][q].target
          BY FrameOfPage, Zenon DEF RInv
        <4> QED BY <2>7, <4>1, Zenon
      <3>3. PageInv(t, q) /\ table'[t][q] = table[t][q]
        BY <2>6, <2>8, Zenon DEF RInv
      <3> QED BY <3>1, <3>2, <3>3, SamePage, Zenon
    <2>9. View(s, p)' = View(s, p)
      <3>1. table[s][p].user = TRUE /\ table[s][p].writable = ~a.readonly
        BY <2>3, Zenon DEF RInv, IInv, TableMatches, TypeOK
      <3>2. filled(a, p) = IF a.handler = "File" THEN FileData[p] ELSE 0
        BY <2>3, Zenon DEF filled, Area
      <3>3. View(s, p) = [mapped |-> TRUE, writable |-> ~a.readonly, value |-> filled(a, p)]
        BY <2>3, <2>4, <3>1, <3>2, Zenon DEF View
      <3>4. View(s, p)' = [mapped |-> TRUE, writable |-> ~a.readonly, value |-> filled(a, p)]
        <4>1. /\ table'[s][p].present = TRUE /\ table'[s][p].target = f[p]
              /\ table'[s][p].writable = ~a.readonly /\ table'[s][p].user = TRUE
          BY <2>6
        <4> QED BY <2>7, <4>1, Zenon DEF View
      <3> QED BY <3>3, <3>4, Zenon
    <2>10. PageInv(s, p)'
      <3>1. AreaOf(s, p)' = {a}
        BY <2>4, <2>5, Zenon
      <3>2. a.handler = "File" => content'[f[p]] = FileData[p]
        BY <2>7, Zenon DEF filled
      <3> QED BY <2>6, <3>1, <3>2 DEF PageInv
    <2>11. \A t \in Space, q \in Page : View(t, q)' = View(t, q) /\ PageInv(t, q)'
      BY <2>8, <2>9, <2>10, Zenon
    <2>12. Mem' = Mem
      BY <2>11, Zenon DEF Mem, Page
    <2> QED BY <2>2, <2>11, <2>12, Zenon DEF Refines, Invisible
  <1> QED BY <1>1, <1>2, Zenon

(* A store changes one page of one space. *)
LEMMA StoreRefines ==
  ASSUME RInv, NEW s \in Space, NEW p \in Page, NEW v \in Value, Store(s, p, v)
  PROVE  Refines
  <1>1. /\ halted = FALSE /\ s \in live
        /\ content' = [content EXCEPT ![table[s][p].target] = v]
        /\ UNCHANGED <<live, areas, table, root, free, halted>>
    BY SMTT(30), Zenon DEF Store, RInv, IInv, TypeOK
  <1>2. table[s][p].present = TRUE /\ table[s][p].writable = TRUE
    BY SMTT(30), Zenon DEF Store, faults, RInv, IInv, TypeOK
  <1>3. table[s][p].target \in Frame
    BY <1>2, FrameOfPage, Zenon DEF RInv
  <1>4. \A t \in Space, q \in Page : AreaOf(t, q)' = AreaOf(t, q)
    BY <1>1, Zenon DEF AreaOf, Pages, Page
  <1>5. ASSUME NEW t \in Space, NEW q \in Page, ~(t = s /\ q = p)
        PROVE  View(t, q)' = View(t, q) /\ PageInv(t, q)'
    <2>1. SameKinds(t, q)
      BY <1>4, Zenon DEF SameKinds
    <2>2. table[t][q].present => content'[table[t][q].target] = content[table[t][q].target]
      <3> SUFFICES ASSUME table[t][q].present
                   PROVE  content'[table[t][q].target] = content[table[t][q].target]
        BY SMTT(30), Zenon
      <3>1. table[t][q].target # table[s][p].target /\ table[t][q].target \in Frame
        BY <1>2, <1>5, FrameOfPage, Zenon DEF RInv
      <3> QED BY <1>1, <3>1, Zenon DEF RInv, IInv, TypeOK
    <2>3. PageInv(t, q) /\ table'[t][q] = table[t][q]
      BY <1>1, Zenon DEF RInv
    <2> QED BY <2>1, <2>2, <2>3, SamePage, Zenon
  <1>6. View(s, p)' = [View(s, p) EXCEPT !.value = v]
    <2>1. View(s, p) = [mapped |-> table[s][p].user, writable |-> table[s][p].writable,
                        value |-> content[table[s][p].target]]
      BY <1>2, Zenon DEF View
    <2>2. content'[table[s][p].target] = v
      BY <1>1, <1>3, Zenon DEF RInv, IInv, TypeOK
    <2>3. View(s, p)' = [mapped |-> table[s][p].user, writable |-> table[s][p].writable,
                         value |-> v]
      BY <1>1, <1>2, <2>2, Zenon DEF View
    <2> QED BY <2>1, <2>3, SMTT(30), Zenon
  <1>7. PageInv(s, p)'
    <2>1. \A a \in AreaOf(s, p) : a.readonly = FALSE
      BY <1>2, SMTT(30), Zenon DEF RInv, IInv, TableMatches, TypeOK, AreaOf, Area
    <2>2. table'[s][p].user = FALSE => table'[s][p].writable = FALSE
      BY <1>1, Zenon DEF RInv, PageInv
    <2> QED BY <1>4, <2>1, <2>2, Zenon DEF PageInv
  <1>8. /\ \A t \in Space, q \in Page : Mem[t][q] = View(t, q) /\ Mem'[t][q] = View(t, q)'
        /\ \A t \in Space \ {s} : Mem'[t] = Mem[t]
    BY <1>5, MemStep, Zenon
  <1>9. Mem'[s] = [q \in Page |-> View(s, q)'] /\ Mem[s] = [q \in Page |-> View(s, q)]
    BY Zenon DEF Mem, Page
  <1>10. Mem[s][p].writable /\ Mem'[s][p].value = v
    <2>1. Mem[s][p] = View(s, p) /\ Mem'[s][p] = [View(s, p) EXCEPT !.value = v]
      BY <1>6, <1>8, Zenon
    <2>2. View(s, p).writable = TRUE
      BY <1>2, Zenon DEF View
    <2>3. [View(s, p) EXCEPT !.value = v].value = v
      BY Zenon DEF View
    <2> QED BY <2>1, <2>2, <2>3, Zenon
  <1>11. Mem'[s] = [Mem[s] EXCEPT ![p].value = Mem'[s][p].value]
    <2>1. \A q \in Page : q # p => View(s, q)' = View(s, q)
      BY <1>5, Zenon
    <2>2. Mem[s][p] = View(s, p)
      BY <1>8, Zenon
    <2> QED BY <1>6, <1>9, <1>10, <2>1, <2>2
  <1>12. Abs!Next
    BY <1>1, <1>8, <1>10, <1>11, AbsSteps, Zenon
  <1>13. \A t \in Space, q \in Page : Invisible(t, q)
    BY <1>1, Zenon DEF Invisible
  <1> QED BY <1>5, <1>7, <1>12, <1>13, Zenon DEF Refines

(* clone copies every page of the space, and the copy shares no frame. *)
LEMMA CloneRefines ==
  ASSUME RInv, NEW s \in Space, NEW c \in Space, Clone(s, c)
  PROVE  Refines
  <1> USE MemoryAssumption
  <1> DEFINE P == copied(s)
  <1>0. halted = FALSE
    BY Zenon DEF Clone, RInv, IInv, TypeOK
  <1>1. CASE Halt
    BY <1>0, <1>1, HaltRefines, Zenon
  <1>2. CASE ~Halt
    <2>1. /\ s \in live /\ c \notin live
          /\ \E f \in alloc(P \cup {NPage}) :
               /\ live' = live \cup {c}
               /\ areas' = [areas EXCEPT ![c] = areas[s]]
               /\ table' = [table EXCEPT ![c] = clone_table(s, f)]
               /\ content' = [g \in Frame |->
                    IF \E p \in P : f[p] = g
                    THEN content[table[s][CHOOSE p \in P : f[p] = g].target] ELSE content[g]]
               /\ UNCHANGED halted
      BY <1>2, Zenon DEF Clone
    <2>2. PICK f \in alloc(P \cup {NPage}) :
               /\ live' = live \cup {c}
               /\ areas' = [areas EXCEPT ![c] = areas[s]]
               /\ table' = [table EXCEPT ![c] = clone_table(s, f)]
               /\ content' = [g \in Frame |->
                    IF \E p \in P : f[p] = g
                    THEN content[table[s][CHOOSE p \in P : f[p] = g].target] ELSE content[g]]
               /\ UNCHANGED halted
      BY <2>1, Zenon
    <2> DEFINE T == clone_table(s, f)
    <2>3. /\ Matches(areas[s], T)
          /\ T \in [Page -> [present : BOOLEAN, target : Frame \cup {0}, writable : BOOLEAN,
                            user : BOOLEAN]]
          /\ \A p \in Page : T[p].present <=> p \in P
          /\ \A p \in P : T[p].target = f[p]
      BY CloneTable, Zenon DEF RInv
    <2>4. /\ P \subseteq Page /\ f \in [P \cup {NPage} -> Frame]
          /\ \A p, q \in P : f[p] = f[q] => p = q
      BY AllocFrames DEF copied, RInv, IInv
    <2>5. /\ table'[c] = T /\ areas'[c] = areas[s]
          /\ \A t \in Space \ {c} : areas'[t] = areas[t] /\ table'[t] = table[t]
      BY <2>2, Zenon DEF RInv, IInv, TypeOK
    <2>6. \A p \in Page : AreaOf(c, p)' = AreaOf(s, p) /\ AreaOf(s, p) = Covering(areas[s], p)
      BY <2>5, Zenon DEF AreaOf, Covering, Pages, Page
    <2>7. \A p \in Page : T[p].user = FALSE /\ AreaOf(s, p) = {} => T[p].writable = FALSE
      BY Zenon DEF clone_table, NoEntry
    <2>8. \A p \in P : table[s][p].present
      BY SMTT(30), Zenon DEF copied, RInv, IInv, TableMatches
    <2>9. \A p \in Page \ P : table[s][p].present => \A a \in AreaOf(s, p) : a.handler = "File" /\ a.readonly
      BY DEF copied, RInv, IInv, TypeOK, AreaOf, Area, TableMatches
    <2>10. \A p \in P : \A a \in AreaOf(s, p) : ~(a.handler = "File" /\ a.readonly)
      <3> SUFFICES ASSUME NEW p \in P, NEW a \in AreaOf(s, p)
                   PROVE  ~(a.handler = "File" /\ a.readonly)
        BY Zenon
      <3>1. p \in Page
        BY <2>4, Zenon
      <3>2. \A b \in AreaOf(s, p) : b = a
        BY <3>1, OneArea, Zenon
      <3> QED BY <3>2, Zenon DEF copied
    <2> HIDE DEF T, P
    <2>11. ASSUME NEW p \in P PROVE content'[f[p]] = content[table[s][p].target]
      <3> DEFINE q == CHOOSE r \in P : f[r] = f[p]
      <3>1. q \in P /\ f[q] = f[p]
        BY Zenon
      <3>2. q = p
        BY <2>4, <3>1, Zenon
      <3>3. content'[f[p]] = content[table[s][q].target]
        BY <2>2, <2>4, Zenon
      <3> HIDE DEF q
      <3> QED BY <3>2, <3>3, Zenon
    <2>12. ASSUME NEW t \in Space, NEW p \in Page, table[t][p].present
           PROVE  content'[table[t][p].target] = content[table[t][p].target]
      <3>1. /\ table[t][p].target \in Frame
            /\ \A q \in P \cup {NPage} : f[q] # table[t][p].target
        BY <2>12, FrameOfPage, Zenon DEF RInv
      <3> QED BY <2>2, <3>1, Zenon
    <2>13. \A t \in Space \ {c}, p \in Page : View(t, p)' = View(t, p) /\ PageInv(t, p)'
      <3>1. \A t \in Space \ {c}, p \in Page : table[t][p].present =>
              content'[table[t][p].target] = content[table[t][p].target]
        BY <2>12, Zenon
      <3> QED BY <2>5, <3>1, OtherSpaces, Zenon
    <2>14. ASSUME NEW p \in Page
           PROVE  /\ T[p].user = table[s][p].user /\ T[p].writable = table[s][p].writable
                  /\ T[p].user = FALSE => T[p].writable = FALSE
      <3>1. /\ T[p].user \in BOOLEAN /\ table[s][p].user \in BOOLEAN
            /\ T[p].writable \in BOOLEAN /\ table[s][p].writable \in BOOLEAN
        BY <2>3, SMTT(30), Zenon DEF RInv, IInv, TypeOK
      <3>2. /\ T[p].user <=> AreaOf(s, p) # {}
            /\ table[s][p].user <=> AreaOf(s, p) # {}
            /\ \A a \in AreaOf(s, p) :
                 T[p].writable = ~a.readonly /\ table[s][p].writable = ~a.readonly
        <4>1. /\ T[p].user <=> AreaOf(s, p) # {}
              /\ \A a \in AreaOf(s, p) : T[p].writable = ~a.readonly
          BY <2>3, <2>6, Zenon DEF Matches
        <4>2. /\ table[s][p].user <=> AreaOf(s, p) # {}
              /\ \A a \in AreaOf(s, p) : table[s][p].writable = ~a.readonly
          BY <2>3, Zenon DEF Matches, RInv, IInv, TableMatches
        <4> QED BY <4>1, <4>2, Zenon
      <3>3. table[s][p].user = FALSE => table[s][p].writable = FALSE
        BY Zenon DEF RInv, PageInv
      <3>4. CASE AreaOf(s, p) = {}
        <4>1. T[p].user = FALSE /\ table[s][p].user = FALSE
          BY <3>1, <3>2, <3>4, Zenon
        <4> QED BY <2>7, <3>3, <3>4, <4>1, Zenon
      <3>5. CASE AreaOf(s, p) # {}
        <4>1. T[p].user = TRUE /\ table[s][p].user = TRUE
          BY <3>1, <3>2, <3>5, Zenon
        <4>2. T[p].writable = table[s][p].writable
          BY <3>2, <3>5, Zenon
        <4> QED BY <4>1, <4>2, Zenon
      <3> QED BY <3>4, <3>5, Zenon
    <2>15. ASSUME NEW p \in Page PROVE View(c, p)' = View(s, p)
      <3> DEFINE lazy == IF \E a \in AreaOf(s, p) : a.handler = "File" THEN FileData[p] ELSE 0
                 val == IF table[s][p].present THEN content[table[s][p].target] ELSE lazy
                 val2 == IF T[p].present THEN content'[T[p].target] ELSE lazy
      <3>1. View(s, p) = [mapped |-> table[s][p].user, writable |-> table[s][p].writable, value |-> val]
        BY Zenon DEF View
      <3>2. View(c, p)' = [mapped |-> T[p].user, writable |-> T[p].writable, value |-> val2]
        BY <2>5, <2>6, Zenon DEF View
      <3>3. val = val2
        <4>1. CASE p \in P
          <5>1. T[p].present /\ T[p].target = f[p] /\ table[s][p].present
                /\ content'[f[p]] = content[table[s][p].target]
            BY <2>3, <2>8, <2>11, <4>1, Zenon
          <5> QED BY <5>1, Zenon
        <4>2. CASE p \notin P /\ table[s][p].present
          <5>1. PICK a \in AreaOf(s, p) : a.handler = "File" /\ a.readonly
            BY <2>9, <4>2, Zenon DEF RInv, IInv, TableMatches
          <5>2. content[table[s][p].target] = FileData[p] /\ lazy = FileData[p] /\ ~T[p].present
            BY <2>3, <4>2, <5>1, Zenon DEF RInv, PageInv
          <5> QED BY <4>2, <5>2, Zenon
        <4>3. CASE p \notin P /\ ~table[s][p].present
          <5>1. ~T[p].present
            BY <2>3, <4>3, Zenon
          <5> QED BY <4>3, <5>1, Zenon
        <4> QED BY <4>1, <4>2, <4>3, Zenon
      <3> HIDE DEF val, val2
      <3> QED BY <2>14, <3>1, <3>2, <3>3, Zenon
    <2>16. ASSUME NEW p \in Page PROVE PageInv(c, p)'
      <3>1. \A a \in AreaOf(c, p)' : ~(T[p].present /\ a.handler = "File" /\ a.readonly)
        BY <2>3, <2>6, <2>10, Zenon
      <3> QED BY <2>5, <2>14, <3>1, Zenon DEF PageInv
    <2>17. Mem' = [Mem EXCEPT ![c] = Mem[s]]
      <3>1. /\ Mem = [t \in Space |-> [p \in Page |-> View(t, p)]]
            /\ Mem' = [t \in Space |-> [p \in Page |-> View(t, p)']]
        BY Zenon DEF Mem, Page
      <3>2. [p \in Page |-> View(c, p)'] = [p \in Page |-> View(s, p)]
        BY <2>15, Zenon
      <3>3. \A t \in Space \ {c} : [p \in Page |-> View(t, p)'] = [p \in Page |-> View(t, p)]
        BY <2>13, Zenon
      <3> QED BY <3>1, <3>2, <3>3, Zenon
    <2>18. Abs!Next
      BY <1>0, <2>1, <2>2, <2>17, AbsSteps, Zenon
    <2>19. \A p \in Page : table[c][p].user = FALSE
      <3>1. \A p \in Page : AreaOf(c, p) = {}
        BY <2>1, Zenon DEF AreaOf, RInv, IInv, DeadEmpty
      <3> QED BY <3>1 DEF RInv, IInv, TableMatches, TypeOK
    <2>20. \A t \in Space, p \in Page : Invisible(t, p)
      BY <2>13, <2>19, Zenon DEF Invisible
    <2> QED BY <2>13, <2>16, <2>18, <2>20, Zenon DEF Refines
  <1> QED BY <1>1, <1>2, Zenon

(* Every step maps to a step of AddressSpace or a stutter. *)
LEMMA NextRefines ==
  ASSUME RInv, [Next]_vars
  PROVE  RInv' /\ Refines
  <1>0. IInv'
    BY NextIInv, Zenon DEF RInv
  <1>1. CASE UNCHANGED vars
    <2>1. \A t \in Space, p \in Page : View(t, p)' = View(t, p) /\ PageInv(t, p)' = PageInv(t, p)
      BY <1>1 DEF View, PageInv, AreaOf, Pages, Page, vars
    <2>2. Mem' = Mem
      BY <2>1, Zenon DEF Mem, Page
    <2>3. Refines
      BY <1>1, <2>1, <2>2, Zenon DEF Refines, RInv, Invisible, vars
    <2> QED BY <1>0, <2>3, Zenon DEF RInv, Refines, Page
  <1>2. CASE Next
    <2>1. PICK s \in Space :
            \/ New(s) \/ Push(s) \/ PushPanics(s) \/ Pop(s) \/ PopPanics(s)
            \/ PopWithSplit(s) \/ Drop(s)
            \/ \E c \in Space : Clone(s, c)
            \/ \E p \in Page : Fault(s, p) \/ KernelFault(s, p) \/ \E v \in Value : Store(s, p, v)
      BY <1>2, Zenon DEF Next
    <2>2. ASSUME PushPanics(s) \/ PopPanics(s) \/ \E p \in Page : KernelFault(s, p)
          PROVE  Refines
      <3>1. Halt /\ halted = FALSE
        BY <2>2, Zenon DEF PushPanics, PopPanics, KernelFault, RInv, IInv, TypeOK
      <3> QED BY <3>1, HaltRefines, Zenon
    <2>3. Refines
      BY <2>1, <2>2, NewRefines, PushRefines, PopRefines, PopWithSplitRefines, DropRefines,
         CloneRefines, FaultRefines, StoreRefines, Zenon
    <2> QED BY <1>0, <2>3, Zenon DEF RInv, Refines, Page
  <1> QED BY <1>1, <1>2, Zenon

(* The initial state maps to the initial state of AddressSpace. *)
LEMMA InitRefines ==
  ASSUME Init
  PROVE  RInv /\ Abs!Init
  <1>1. IInv
    BY InitIInv, Zenon
  <1>2. /\ \A s \in Space, p \in Page : table[s][p] = NoEntry /\ AreaOf(s, p) = {}
        /\ live = {} /\ halted = FALSE
    BY Zenon DEF Init, AreaOf
  <1>3. \A s \in Space, p \in Page : PageInv(s, p)
    BY <1>2 DEF PageInv, NoEntry
  <1>4. ASSUME NEW s \in Space, NEW p \in Page PROVE View(s, p) = Abs!Unmapped
    BY <1>1, <1>2, <1>3, OneArea, Zenon DEF RInv
  <1>5. Mem = [s \in Space |-> [p \in Page |-> Abs!Unmapped]]
    BY <1>4, Zenon DEF Mem
  <1>6. Abs!Init
    BY <1>2, <1>5, Zenon DEF Mem, Abs!Init
  <1> QED BY <1>1, <1>3, <1>6, Zenon DEF RInv
-----------------------------------------------------------------------------
(* MemorySet implements AddressSpace, for any number of spaces, pages and   *)
(* frames: a clone starts as a copy and shares nothing, a store changes one *)
(* page of one space, push and pop_with_split touch the pages they name,    *)
(* and a page fault changes nothing a program can see.                      *)
THEOREM ImplementsAddressSpace == Spec => IsAddressSpace
  <1>1. Init => RInv /\ Abs!Init
    BY InitRefines, Zenon
  <1>2. RInv /\ [Next]_vars => RInv' /\ [Abs!Next]_(Abs!avars)
    <2> SUFFICES ASSUME RInv, [Next]_vars PROVE RInv' /\ [Abs!Next]_(Abs!avars)
      BY Zenon
    <2>1. RInv' /\ (Abs!Next \/ UNCHANGED <<live, Mem, halted>>)
      BY NextRefines, Zenon DEF Refines
    <2>2. UNCHANGED <<live, Mem, halted>> => UNCHANGED Abs!avars
      BY Zenon DEF Mem, Abs!avars
    <2> QED BY <2>1, <2>2, Zenon
  <1> QED BY <1>1, <1>2, PTL DEF Spec, IsAddressSpace, Abs!Spec

(* handle_page_fault gives a mapped page a frame without the program seeing *)
(* any change: zeroes in Delay areas, the file's bytes in File areas.       *)
THEOREM PagingUnseen == Spec => PagingInvisible
  <1>1. Init => RInv
    BY InitRefines, Zenon
  <1>2. RInv /\ [Next]_vars =>
          RInv' /\ [\A s \in Space, p \in Page :
                     /\ table[s][p].user /\ table'[s][p].user
                     /\ table'[s][p].target # table[s][p].target
                     => View(s, p)' = View(s, p)]_vars
    BY NextRefines, Zenon DEF Refines, Invisible
  <1> QED BY <1>1, <1>2, PTL DEF Spec, PagingInvisible
=============================================================================
