--------------------------- MODULE UserBufferProof ---------------------------
(***************************************************************************)
(* Proofs about UserBuffer: what check_read_array and check_write_array    *)
(* accept is what the page table lets the program use, and find_free_area  *)
(* does not fail.  The sums over areas are counted byte by byte.           *)
(***************************************************************************)
EXTENDS MemorySetProof, UserBuffer, FiniteSetTheorems

(* A set of naturals has a least element. *)
LEMMA Least ==
  ASSUME NEW T, T \subseteq Nat, T # {}
  PROVE  \E x \in T : \A y \in T : x <= y
  <1> DEFINE R == OpToRel(<, Nat)
  <1>1. IsWellFoundedOn(R, Nat)
    BY NatLessThanWellFounded, Zenon
  <1> HIDE DEF R
  <1>2. PICK x \in T : \A y \in T : ~(<<y, x>> \in R)
    BY <1>1, WFMin, Zenon
  <1>3. \A y \in T : <<y, x>> \in R <=> y < x
    BY Zenon DEF R, OpToRel
  <1>4. \A y \in T : ~(y < x)
    BY <1>2, <1>3, Zenon
  <1>5. \A y \in T : x <= y
    BY <1>4
  <1> QED BY <1>5, Zenon

(***************************************************************************)
(* The sum of the weights g over a set, as MapThenSumSet takes it: it is   *)
(* defined for every subset of a finite set.                               *)
(***************************************************************************)
pick(s) == CHOOSE x \in s : TRUE
SumStep(g, it, s) == IF s = {} THEN 0 ELSE g[pick(s)] + it[s \ {pick(s)}]

IsSum(it, g, S) == it = [s \in SUBSET S |-> SumStep(g, it, s)]

LEMMA PickOne ==
  ASSUME NEW s, s # {}
  PROVE  pick(s) \in s
  BY Zenon DEF pick

LEMMA SumExists ==
  ASSUME NEW S, IsFiniteSet(S), NEW g
  PROVE  \E it : IsSum(it, g, S)
  <1> DEFINE Upto(n) == {s \in SUBSET S : Cardinality(s) <= n}
             Good(n) == \E it : it = [s \in Upto(n) |-> SumStep(g, it, s)]
             Bad == {n \in Nat : ~Good(n)}
  <1>1. \A s \in SUBSET S : IsFiniteSet(s) /\ Cardinality(s) \in Nat
    BY FS_Subset, FS_CardinalityType, Zenon
  <1>2. \A s \in SUBSET S : Cardinality(s) <= 0 => s = {}
    <2>1. \A s \in SUBSET S : Cardinality(s) <= 0 => Cardinality(s) = 0
      BY <1>1
    <2> QED BY <1>1, <2>1, FS_EmptySet, Zenon
  <1>3. Good(0)
    <2> DEFINE it == [s \in Upto(0) |-> 0]
    <2>1. \A s \in Upto(0) : SumStep(g, it, s) = 0
      BY <1>2, Zenon DEF SumStep
    <2>2. it = [s \in Upto(0) |-> SumStep(g, it, s)]
      BY <2>1, Zenon
    <2> QED BY <2>2, Zenon
  <1>4. ASSUME NEW n \in Nat, Good(n) PROVE Good(n + 1)
    <2>1. PICK it : it = [s \in Upto(n) |-> SumStep(g, it, s)]
      BY <1>4, Zenon
    <2> DEFINE nx == [s \in Upto(n + 1) |-> SumStep(g, it, s)]
    <2>2. ASSUME NEW s \in Upto(n + 1) PROVE SumStep(g, it, s) = SumStep(g, nx, s)
      <3>1. CASE s = {}
        BY <3>1, Zenon DEF SumStep
      <3>2. CASE s # {}
        <4> DEFINE r == s \ {pick(s)}
        <4>1. pick(s) \in s
          BY <3>2, PickOne, Zenon
        <4>2. IsFiniteSet(s) /\ s \in SUBSET S /\ Cardinality(s) \in Nat /\ Cardinality(s) <= n + 1
          BY <1>1, Zenon
        <4>3. Cardinality(r) = Cardinality(s) - 1 /\ r \in SUBSET S
          BY <4>1, <4>2, FS_RemoveElement, Zenon
        <4>4. Cardinality(r) <= n /\ Cardinality(r) <= n + 1
          BY <4>2, <4>3
        <4>5. r \in Upto(n) /\ r \in Upto(n + 1)
          BY <4>3, <4>4, Zenon
        <4> HIDE DEF r
        <4>6. it[r] = SumStep(g, it, r)
          BY <2>1, <4>5, Zenon
        <4>7. nx[r] = SumStep(g, it, r)
          BY <4>5, Zenon
        <4> QED BY <3>2, <4>6, <4>7, Zenon DEF SumStep, r
      <3> QED BY <3>1, <3>2, Zenon
    <2>3. nx = [s \in Upto(n + 1) |-> SumStep(g, nx, s)]
      BY <2>2, Zenon
    <2> QED BY <2>3, Zenon
  <1>5. \A n \in Nat : Good(n)
    <2> SUFFICES ASSUME Bad # {} PROVE FALSE
      BY Zenon
    <2>1. PICK n \in Bad : \A m \in Bad : n <= m
      <3> HIDE DEF Good
      <3>1. Bad \subseteq Nat
        BY Zenon
      <3> HIDE DEF Bad
      <3> QED BY <3>1, Least, Zenon
    <2> HIDE DEF Good
    <2>2. n \in Nat /\ n # 0
      BY <1>3, Zenon
    <2>3. n - 1 \in Nat /\ (n - 1) + 1 = n /\ ~(n <= n - 1)
      BY <2>2
    <2>4. Good(n - 1)
      BY <2>1, <2>3, Zenon
    <2>5. Good((n - 1) + 1)
      BY <1>4, <2>3, <2>4, Zenon
    <2> QED BY <2>3, <2>5, Zenon
  <1>6. Upto(Cardinality(S)) = SUBSET S
    <2>1. \A s \in SUBSET S : Cardinality(s) <= Cardinality(S)
      BY FS_Subset, Zenon
    <2> QED BY <2>1, Zenon
  <1>7. Cardinality(S) \in Nat
    BY FS_CardinalityType, Zenon
  <1>8. Good(Cardinality(S))
    BY <1>5, <1>7, Zenon
  <1>9. \E it : it = [s \in SUBSET S |-> SumStep(g, it, s)]
    BY <1>6, <1>8, Zenon
  <1> QED BY <1>9, Zenon DEF IsSum
-----------------------------------------------------------------------------
(* A sum of sizes of disjoint sets is the size of their union. *)
Cover(B, A) == UNION {B[a] : a \in A}
Counted(B, g, S) ==
  /\ \A a \in S : IsFiniteSet(B[a]) /\ g[a] = Cardinality(B[a])
  /\ \A a, b \in S : a # b => B[a] \cap B[b] = {}

LEMMA SumCounts ==
  ASSUME NEW S, IsFiniteSet(S), NEW g, NEW B, Counted(B, g, S), NEW it, IsSum(it, g, S)
  PROVE  \A A \in SUBSET S : IsFiniteSet(Cover(B, A)) /\ it[A] = Cardinality(Cover(B, A))
  <1> DEFINE Good(A) == IsFiniteSet(Cover(B, A)) /\ it[A] = Cardinality(Cover(B, A))
             Bad == {n \in Nat : \E A \in SUBSET S : Cardinality(A) = n /\ ~Good(A)}
  <1>0. /\ \A a \in S : IsFiniteSet(B[a]) /\ g[a] = Cardinality(B[a])
        /\ \A a, b \in S : a # b => B[a] \cap B[b] = {}
    BY Zenon DEF Counted
  <1>1. \A A \in SUBSET S : IsFiniteSet(A) /\ Cardinality(A) \in Nat
    BY FS_Subset, FS_CardinalityType, Zenon
  <1>2. Good({})
    <2>1. Cover(B, {}) = {}
      BY Zenon DEF Cover
    <2>2. it[{}] = 0
      BY Zenon DEF SumStep, IsSum
    <2> QED BY <2>1, <2>2, FS_EmptySet, Zenon
  <1>3. ASSUME NEW A \in SUBSET S, A # {}, Good(A \ {pick(A)}) PROVE Good(A)
    <2> DEFINE x == pick(A)
               r == A \ {x}
    <2>1. x \in A /\ x \in S
      BY <1>3, PickOne, Zenon
    <2>2. it[A] = g[x] + it[r]
      BY <1>3, Zenon DEF SumStep, IsSum
    <2>3. Cover(B, A) = B[x] \cup Cover(B, r)
      BY <2>1, Zenon DEF Cover
    <2> HIDE DEF x, r
    <2>4. B[x] \cap Cover(B, r) = {}
      <3>1. \A a \in r : a # x /\ a \in S
        BY Zenon DEF r
      <3>2. \A y : y \in Cover(B, r) => \E a \in r : y \in B[a]
        BY Zenon DEF Cover
      <3>3. \A a \in r : B[x] \cap B[a] = {}
        BY <1>0, <2>1, <3>1, Zenon
      <3> QED BY <3>2, <3>3, Zenon
    <2>5. /\ IsFiniteSet(B[x]) /\ g[x] = Cardinality(B[x]) /\ Cardinality(B[x]) \in Nat
          /\ IsFiniteSet(Cover(B, r)) /\ it[r] = Cardinality(Cover(B, r))
          /\ Cardinality(Cover(B, r)) \in Nat
      BY <1>0, <1>3, <2>1, FS_CardinalityType, Zenon DEF x, r
    <2>6. /\ IsFiniteSet(Cover(B, A))
          /\ Cardinality(Cover(B, A)) = Cardinality(B[x]) + Cardinality(Cover(B, r)) - Cardinality({})
      <3> DEFINE U == B[x]
                 V == Cover(B, r)
      <3>1. IsFiniteSet(U) /\ IsFiniteSet(V) /\ U \cap V = {}
        BY <2>4, <2>5, Zenon
      <3> HIDE DEF U, V
      <3>2. /\ IsFiniteSet(U \cup V)
            /\ Cardinality(U \cup V) = Cardinality(U) + Cardinality(V) - Cardinality(U \cap V)
        BY <3>1, FS_Union, Zenon
      <3> QED BY <2>3, <3>1, <3>2, Zenon DEF U, V
    <2>7. Cardinality({}) = 0
      BY FS_EmptySet, Zenon
    <2>8. Cardinality(Cover(B, A)) = Cardinality(B[x]) + Cardinality(Cover(B, r))
      BY <2>5, <2>6, <2>7
    <2> QED BY <2>2, <2>5, <2>6, <2>8, Zenon
  <1> HIDE DEF Good
  <1>4. Bad = {}
    <2> SUFFICES ASSUME Bad # {} PROVE FALSE
      BY Zenon
    <2>1. PICK n \in Bad : \A m \in Bad : n <= m
      <3>1. Bad \subseteq Nat
        BY Zenon
      <3> HIDE DEF Bad
      <3> QED BY <3>1, Least, Zenon
    <2>2. PICK A \in SUBSET S : Cardinality(A) = n /\ ~Good(A)
      BY Zenon
    <2>3. A # {}
      BY <1>2, <2>2, Zenon
    <2>4. pick(A) \in A
      BY <2>3, PickOne, Zenon
    <2> DEFINE r == A \ {pick(A)}
    <2>5. Cardinality(r) = Cardinality(A) - 1 /\ r \in SUBSET S
      BY <1>1, <2>4, FS_RemoveElement, Zenon
    <2>6. Cardinality(r) \in Nat /\ n \in Nat
      BY <1>1, <2>5, Zenon
    <2>7. ~(n <= Cardinality(r))
      BY <2>2, <2>5, <2>6
    <2>8. Good(r)
      BY <2>1, <2>5, <2>6, <2>7, Zenon
    <2> QED BY <1>3, <2>2, <2>3, <2>8, Zenon
  <1>5. \A A \in SUBSET S : Good(A)
    BY <1>1, <1>4, Zenon
  <1> QED BY <1>5, Zenon DEF Good
-----------------------------------------------------------------------------
(* The bytes of a buffer that are in an area. *)
Bytes(a, ptr, size) ==
  {x \in ptr..(ptr + size - 1) : a.start * PAGE_SIZE <= x /\ x < a.end * PAGE_SIZE}

LEMMA MaxMin ==
  ASSUME NEW x \in Int, NEW y \in Int
  PROVE  /\ Max({x, y}) = IF x >= y THEN x ELSE y
         /\ Min({x, y}) = IF x <= y THEN x ELSE y
  <1>1. (\E m \in {x, y} : \A z \in {x, y} : m >= z) /\ (\E m \in {x, y} : \A z \in {x, y} : m <= z)
    OBVIOUS
  <1>2. Max({x, y}) \in {x, y} /\ \A z \in {x, y} : Max({x, y}) >= z
    BY <1>1, Zenon DEF Max
  <1>3. Min({x, y}) \in {x, y} /\ \A z \in {x, y} : Min({x, y}) <= z
    BY <1>1, Zenon DEF Min
  <1>4. Max({x, y}) = IF x >= y THEN x ELSE y
    BY <1>2
  <1>5. Min({x, y}) = IF x <= y THEN x ELSE y
    BY <1>3
  <1> QED BY <1>4, <1>5, Zenon

LEMMA ReadCounts ==
  ASSUME NEW a \in Area, NEW ptr \in Nat, NEW size \in Nat
  PROVE  /\ IsFiniteSet(Bytes(a, ptr, size))
         /\ area_check_read(a, ptr, size) = Cardinality(Bytes(a, ptr, size))
  <1> DEFINE from == a.start * PAGE_SIZE
             to == a.end * PAGE_SIZE
             lo == IF ptr >= from THEN ptr ELSE from
             hi == IF ptr + size <= to THEN ptr + size ELSE to
  <1>1. from \in Nat /\ to \in Nat
    BY MemoryAssumption DEF Area
  <1> HIDE DEF from, to
  <1>2. Max({ptr, from}) = lo /\ Min({ptr + size, to}) = hi
    <2>1. ptr \in Int /\ from \in Int /\ ptr + size \in Int /\ to \in Int
      BY <1>1
    <2> QED BY <2>1, MaxMin, Zenon
  <1>3. area_check_read(a, ptr, size) = IF hi >= lo THEN hi - lo ELSE 0
    <2> HIDE DEF lo, hi
    <2> QED BY <1>2, Zenon DEF area_check_read, from, to
  <1>4. lo \in Nat /\ hi \in Nat /\ hi - 1 \in Int
    BY <1>1
  <1>5. Bytes(a, ptr, size) = lo..(hi - 1)
    <2>1. Bytes(a, ptr, size) = {x \in ptr..(ptr + size - 1) : from <= x /\ x < to}
      BY Zenon DEF Bytes, from, to
    <2> QED BY <1>1, <2>1
  <1> HIDE DEF lo, hi
  <1>6. /\ IsFiniteSet(lo..(hi - 1))
        /\ Cardinality(lo..(hi - 1)) = IF lo > hi - 1 THEN 0 ELSE (hi - 1) - lo + 1
    BY <1>4, FS_Interval
  <1>7. (IF lo > hi - 1 THEN 0 ELSE (hi - 1) - lo + 1) = IF hi >= lo THEN hi - lo ELSE 0
    BY <1>4
  <1> QED BY <1>3, <1>5, <1>6, <1>7, Zenon

(* The page of a byte. *)
LEMMA ByteInPages ==
  ASSUME NEW x \in Nat, NEW start \in Nat, NEW end \in Nat
  PROVE  /\ of_addr(x) \in Nat
         /\ start * PAGE_SIZE <= x <=> start <= of_addr(x)
         /\ x < end * PAGE_SIZE <=> of_addr(x) < end
  <1> USE MemoryAssumption
  <1> DEFINE q == of_addr(x)
  <1>1. q \in Nat /\ q * PAGE_SIZE <= x /\ x < q * PAGE_SIZE + PAGE_SIZE
    BY DEF of_addr
  <1> HIDE DEF q
  <1>2. ASSUME NEW k \in Nat PROVE k * PAGE_SIZE <= x <=> k <= q
    <2>1. CASE k <= q
      <3>1. k * PAGE_SIZE <= q * PAGE_SIZE
        BY <1>1, <2>1
      <3> QED BY <1>1, <2>1, <3>1
    <2>2. CASE q < k
      <3>1. q * PAGE_SIZE + PAGE_SIZE <= k * PAGE_SIZE
        BY <1>1, <2>2
      <3> QED BY <1>1, <2>2, <3>1
    <2> QED BY <1>1, <2>1, <2>2
  <1>3. end * PAGE_SIZE \in Nat
    OBVIOUS
  <1>4. start * PAGE_SIZE <= x <=> start <= q
    BY <1>2, Zenon
  <1>5. end * PAGE_SIZE <= x <=> end <= q
    BY <1>2, Zenon
  <1>6. x < end * PAGE_SIZE <=> q < end
    BY <1>1, <1>3, <1>5
  <1> QED BY <1>1, <1>4, <1>6, Zenon DEF q

LEMMA AreaFacts ==
  ASSUME TypeOK, NEW s \in Space, NEW a \in areas[s]
  PROVE  a \in Area /\ a.start \in Nat /\ a.end \in Nat /\ a.start < a.end /\ a.end <= NPage
  <1>1. a \in Area /\ a.start < a.end /\ a.end <= NPage
    BY Zenon DEF TypeOK
  <1> QED BY <1>1, Zenon DEF Area

(* A byte of a buffer is in an area when its page is one of the area. *)
LEMMA ByteOfArea ==
  ASSUME TypeOK, NEW s \in Space, NEW a \in areas[s], NEW ptr \in Nat, NEW size \in Nat,
         NEW x \in ptr..(ptr + size - 1)
  PROVE  x \in Bytes(a, ptr, size) <=> of_addr(x) \in Pages(a)
  <1>1. x \in Nat
    OBVIOUS
  <1>2. a.start \in Nat /\ a.end \in Nat /\ a.end <= NPage
    BY AreaFacts, Zenon
  <1>3. /\ of_addr(x) \in Nat /\ (a.start * PAGE_SIZE <= x <=> a.start <= of_addr(x))
        /\ (x < a.end * PAGE_SIZE <=> of_addr(x) < a.end)
    BY <1>1, <1>2, ByteInPages, Zenon
  <1>4. of_addr(x) < a.end => of_addr(x) \in Page
    BY <1>2, <1>3, MemoryAssumption DEF Page
  <1> QED BY <1>3, <1>4, Zenon DEF Bytes, Pages

(* The areas are disjoint byte by byte, ordered, and finitely many. *)
LEMMA OneAreaPerByte ==
  ASSUME TypeOK, AreasDisjoint, NEW s \in Space, NEW a \in areas[s], NEW b \in areas[s],
         NEW ptr \in Nat, NEW size \in Nat, a # b
  PROVE  Bytes(a, ptr, size) \cap Bytes(b, ptr, size) = {}
  <1> SUFFICES ASSUME NEW x, x \in Bytes(a, ptr, size), x \in Bytes(b, ptr, size) PROVE FALSE
    BY Zenon
  <1>1. x \in ptr..(ptr + size - 1)
    BY Zenon DEF Bytes
  <1>2. of_addr(x) \in Pages(a) /\ of_addr(x) \in Pages(b)
    BY <1>1, ByteOfArea, Zenon
  <1> QED BY <1>2, Zenon DEF AreasDisjoint

LEMMA AreasOrdered ==
  ASSUME TypeOK, AreasDisjoint, NEW s \in Space, NEW a \in areas[s], NEW b \in areas[s],
         NEW ptr \in Nat, NEW size \in Nat,
         NEW x \in Bytes(a, ptr, size), NEW y \in Bytes(b, ptr, size), y <= x
  PROVE  b.start <= a.start
  <1>1. /\ a.start \in Nat /\ a.end \in Nat /\ a.start < a.end /\ a.end <= NPage
        /\ b.start \in Nat /\ b.end \in Nat /\ b.start < b.end
    BY AreaFacts, Zenon
  <1>2. x \in Nat /\ y \in Nat /\ b.start * PAGE_SIZE <= y /\ x < a.end * PAGE_SIZE
    BY DEF Bytes
  <1>3. b.start * PAGE_SIZE <= x
    BY <1>1, <1>2, MemoryAssumption
  <1>4. of_addr(x) \in Nat /\ b.start <= of_addr(x) /\ of_addr(x) < a.end
    BY <1>1, <1>2, <1>3, ByteInPages, Zenon
  <1>5. CASE a.start < b.start
    <2>1. b.start \in Page /\ a.start <= b.start /\ b.start < a.end /\ b.start <= b.start
      BY <1>1, <1>4, <1>5, MemoryAssumption DEF Page
    <2>2. b.start \in Pages(a) /\ b.start \in Pages(b)
      BY <1>1, <2>1, Zenon DEF Pages
    <2>3. a = b
      BY <2>2, Zenon DEF AreasDisjoint
    <2> QED BY <1>1, <1>5, <2>3
  <1> QED BY <1>1, <1>5

LEMMA AreasFinite ==
  ASSUME TypeOK, AreasDisjoint, NEW s \in Space
  PROVE  IsFiniteSet(areas[s])
  <1> DEFINE f == [a \in areas[s] |-> a.start]
  <1>1. IsFiniteSet(0..NPage)
    BY FS_Interval, MemoryAssumption
  <1>2. \A a \in areas[s] : a.start \in 0..NPage /\ a.start \in Pages(a)
    <2> SUFFICES ASSUME NEW a \in areas[s] PROVE a.start \in 0..NPage /\ a.start \in Pages(a)
      BY Zenon
    <2>1. a.start \in Nat /\ a.end \in Nat /\ a.start < a.end /\ a.end <= NPage
      BY AreaFacts, Zenon
    <2> QED BY <2>1, MemoryAssumption DEF Pages, Page
  <1>3. \A a, b \in areas[s] : a.start = b.start => a = b
    BY <1>2, Zenon DEF AreasDisjoint
  <1>4. f \in Injection(areas[s], 0..NPage)
    BY <1>2, <1>3, Zenon DEF Injection, IsInjective
  <1> HIDE DEF f
  <1> QED BY <1>1, <1>4, FS_Injection, Zenon
-----------------------------------------------------------------------------
(* The sums of the two checks count the bytes in the areas seen so far. *)
LEMMA SumOfReads ==
  ASSUME NEW S, IsFiniteSet(S), NEW ptr, NEW size, NEW B,
         Counted(B, [a \in S |-> area_check_read(a, ptr, size)], S)
  PROVE  MapThenSumSet(LAMBDA b : area_check_read(b, ptr, size), S) = Cardinality(Cover(B, S))
  <1> DEFINE g == [a \in S |-> area_check_read(a, ptr, size)]
             raw(it, s) == IF s = {} THEN 0
                           ELSE area_check_read(CHOOSE x \in s : TRUE, ptr, size)
                                + it[s \ {CHOOSE x \in s : TRUE}]
             total == CHOOSE it : it = [s \in SUBSET S |-> raw(it, s)]
  <1>1. ASSUME NEW it PROVE it = [s \in SUBSET S |-> raw(it, s)] <=> IsSum(it, g, S)
    <2>1. ASSUME NEW s \in SUBSET S PROVE raw(it, s) = SumStep(g, it, s)
      <3>1. s # {} => pick(s) \in S
        BY PickOne, Zenon
      <3>2. s # {} => g[pick(s)] = area_check_read(pick(s), ptr, size)
        BY <3>1, Zenon
      <3>3. raw(it, s) = IF s = {} THEN 0
                         ELSE area_check_read(pick(s), ptr, size) + it[s \ {pick(s)}]
        BY Zenon DEF pick
      <3> HIDE DEF g, raw
      <3> QED BY <3>2, <3>3, Zenon DEF SumStep
    <2> HIDE DEF g, raw
    <2>2. [s \in SUBSET S |-> raw(it, s)] = [s \in SUBSET S |-> SumStep(g, it, s)]
      BY <2>1, Zenon
    <2> QED BY <2>2, Zenon DEF IsSum
  <1>2. Counted(B, g, S)
    BY Zenon
  <1>3. MapThenSumSet(LAMBDA b : area_check_read(b, ptr, size), S) = total[S]
    BY Zenon DEF MapThenSumSet, MapThenFoldSet
  <1> HIDE DEF g, raw
  <1>4. PICK it : IsSum(it, g, S)
    BY SumExists, Zenon
  <1>5. it = [s \in SUBSET S |-> raw(it, s)]
    BY <1>1, <1>4, Zenon
  <1>6. total = [s \in SUBSET S |-> raw(total, s)]
    BY <1>5, Zenon
  <1> HIDE DEF total
  <1>7. IsSum(total, g, S)
    BY <1>1, <1>6, Zenon
  <1>8. \A A \in SUBSET S : IsFiniteSet(Cover(B, A)) /\ total[A] = Cardinality(Cover(B, A))
    BY <1>2, <1>7, SumCounts, SMTT(30)
  <1> QED BY <1>3, <1>8, Zenon

LEMMA SumOfWrites ==
  ASSUME NEW S, IsFiniteSet(S), NEW ptr, NEW size, NEW B,
         Counted(B, [a \in S |-> area_check_write(a, ptr, size)], S)
  PROVE  MapThenSumSet(LAMBDA b : area_check_write(b, ptr, size), S) = Cardinality(Cover(B, S))
  <1> DEFINE g == [a \in S |-> area_check_write(a, ptr, size)]
             raw(it, s) == IF s = {} THEN 0
                           ELSE area_check_write(CHOOSE x \in s : TRUE, ptr, size)
                                + it[s \ {CHOOSE x \in s : TRUE}]
             total == CHOOSE it : it = [s \in SUBSET S |-> raw(it, s)]
  <1>1. ASSUME NEW it PROVE it = [s \in SUBSET S |-> raw(it, s)] <=> IsSum(it, g, S)
    <2>1. ASSUME NEW s \in SUBSET S PROVE raw(it, s) = SumStep(g, it, s)
      <3>1. s # {} => pick(s) \in S
        BY PickOne, Zenon
      <3>2. s # {} => g[pick(s)] = area_check_write(pick(s), ptr, size)
        BY <3>1, Zenon
      <3>3. raw(it, s) = IF s = {} THEN 0
                         ELSE area_check_write(pick(s), ptr, size) + it[s \ {pick(s)}]
        BY Zenon DEF pick
      <3> HIDE DEF g, raw
      <3> QED BY <3>2, <3>3, Zenon DEF SumStep
    <2> HIDE DEF g, raw
    <2>2. [s \in SUBSET S |-> raw(it, s)] = [s \in SUBSET S |-> SumStep(g, it, s)]
      BY <2>1, Zenon
    <2> QED BY <2>2, Zenon DEF IsSum
  <1>2. Counted(B, g, S)
    BY Zenon
  <1>3. MapThenSumSet(LAMBDA b : area_check_write(b, ptr, size), S) = total[S]
    BY Zenon DEF MapThenSumSet, MapThenFoldSet
  <1> HIDE DEF g, raw
  <1>4. PICK it : IsSum(it, g, S)
    BY SumExists, Zenon
  <1>5. it = [s \in SUBSET S |-> raw(it, s)]
    BY <1>1, <1>4, Zenon
  <1>6. total = [s \in SUBSET S |-> raw(total, s)]
    BY <1>5, Zenon
  <1> HIDE DEF total
  <1>7. IsSum(total, g, S)
    BY <1>1, <1>6, Zenon
  <1>8. \A A \in SUBSET S : IsFiniteSet(Cover(B, A)) /\ total[A] = Cardinality(Cover(B, A))
    BY <1>2, <1>7, SumCounts, SMTT(30)
  <1> QED BY <1>3, <1>8, Zenon
-----------------------------------------------------------------------------
(***************************************************************************)
(* When each area counts for the bytes B[a] of the buffer, the sum reaches *)
(* the length at some area exactly when every byte is counted: the areas   *)
(* up to the one with the last byte hold them all, whatever comes after.   *)
(***************************************************************************)
LEMMA AllBytesSeen ==
  ASSUME TypeOK, AreasDisjoint, NEW s \in Space, NEW ptr \in Nat, NEW size \in Nat \ {0},
         NEW B, \A a \in areas[s] : B[a] \subseteq Bytes(a, ptr, size)
  PROVE  (\E a \in areas[s] : Cardinality(Cover(B, upto(s, a))) = size)
         <=> \A x \in ptr..(ptr + size - 1) : \E a \in areas[s] : x \in B[a]
  <1> DEFINE D == ptr..(ptr + size - 1)
             last == ptr + size - 1
  <1>1. IsFiniteSet(D) /\ Cardinality(D) = size
    <2>1. ptr \in Int /\ ptr + size - 1 \in Int
      OBVIOUS
    <2>2. /\ IsFiniteSet(D)
          /\ Cardinality(D) = IF ptr > ptr + size - 1 THEN 0 ELSE (ptr + size - 1) - ptr + 1
      BY <2>1, FS_Interval, Zenon
    <2> QED BY <2>2
  <1>2. last \in D /\ \A x \in D : x <= last
    OBVIOUS
  <1>3. \A a \in areas[s] : Bytes(a, ptr, size) \subseteq D /\ upto(s, a) \subseteq areas[s]
    BY Zenon DEF Bytes, upto
  <1> HIDE DEF D, last
  <1>4. \A a \in areas[s] : Cover(B, upto(s, a)) \subseteq D
    BY <1>3, Zenon DEF Cover
  <1>5. ASSUME NEW a \in areas[s], Cardinality(Cover(B, upto(s, a))) = size, NEW x \in D
        PROVE  \E b \in areas[s] : x \in B[b]
    <2>1. Cover(B, upto(s, a)) = D
      BY <1>1, <1>4, <1>5, FS_Subset, Zenon
    <2> QED BY <1>3, <2>1, Zenon DEF Cover
  <1>6. ASSUME \A x \in D : \E a \in areas[s] : x \in B[a]
        PROVE  \E a \in areas[s] : Cardinality(Cover(B, upto(s, a))) = size
    <2>1. PICK a \in areas[s] : last \in B[a]
      BY <1>2, <1>6, Zenon
    <2>2. ASSUME NEW x \in D PROVE x \in Cover(B, upto(s, a))
      <3>1. PICK b \in areas[s] : x \in B[b]
        BY <1>6, Zenon
      <3>2. last \in Bytes(a, ptr, size) /\ x \in Bytes(b, ptr, size) /\ x <= last
        BY <1>2, <2>1, <3>1, Zenon
      <3>3. size \in Nat
        BY Zenon
      <3>4. b.start <= a.start
        BY <3>2, <3>3, AreasOrdered, Zenon
      <3> QED BY <3>1, <3>4, Zenon DEF Cover, upto
    <2>3. Cover(B, upto(s, a)) = D
      BY <1>4, <2>2, Zenon
    <2> QED BY <1>1, <2>3, Zenon
  <1> QED BY <1>5, <1>6, Zenon DEF D

LEMMA ReadCheck ==
  ASSUME TypeOK, AreasDisjoint, NEW s \in Space, NEW ptr \in Nat, NEW size \in Nat \ {0}
  PROVE  check_read_array(s, ptr, size)
         <=> \A x \in ptr..(ptr + size - 1) : \E a \in areas[s] : of_addr(x) \in Pages(a)
  <1> DEFINE B == [a \in areas[s] |-> Bytes(a, ptr, size)]
  <1>1. size \in Nat
    BY Zenon
  <1>2. \A a \in areas[s] : IsFiniteSet(B[a]) /\ area_check_read(a, ptr, size) = Cardinality(B[a])
    BY <1>1, AreaFacts, ReadCounts, Zenon
  <1>3. \A a, b \in areas[s] : a # b => B[a] \cap B[b] = {}
    BY <1>1, OneAreaPerByte, Zenon
  <1>4. \A a \in areas[s] : B[a] \subseteq Bytes(a, ptr, size)
    BY Zenon
  <1>5. \A a \in areas[s], x \in ptr..(ptr + size - 1) : x \in B[a] <=> of_addr(x) \in Pages(a)
    BY <1>1, ByteOfArea, Zenon
  <1> HIDE DEF B
  <1>6. ASSUME NEW a \in areas[s]
        PROVE  MapThenSumSet(LAMBDA b : area_check_read(b, ptr, size), upto(s, a))
               = Cardinality(Cover(B, upto(s, a)))
    <2> DEFINE S == upto(s, a)
    <2>1. S \subseteq areas[s]
      BY Zenon DEF upto
    <2> HIDE DEF S
    <2>2. IsFiniteSet(S)
      BY <2>1, AreasFinite, FS_Subset, Zenon
    <2>3. Counted(B, [b \in S |-> area_check_read(b, ptr, size)], S)
      BY <1>2, <1>3, <2>1, Zenon DEF Counted
    <2> QED BY <2>2, <2>3, SumOfReads, Zenon DEF S
  <1>7. check_read_array(s, ptr, size)
        <=> \E a \in areas[s] : Cardinality(Cover(B, upto(s, a))) = size
    BY <1>6, Zenon DEF check_read_array
  <1>8. (\E a \in areas[s] : Cardinality(Cover(B, upto(s, a))) = size)
        <=> \A x \in ptr..(ptr + size - 1) : \E a \in areas[s] : x \in B[a]
    BY <1>4, AllBytesSeen, Zenon
  <1> QED BY <1>5, <1>7, <1>8, Zenon

LEMMA WriteCheck ==
  ASSUME TypeOK, AreasDisjoint, NEW s \in Space, NEW ptr \in Nat, NEW size \in Nat \ {0}
  PROVE  check_write_array(s, ptr, size)
         <=> \A x \in ptr..(ptr + size - 1) :
               \E a \in areas[s] : ~a.readonly /\ of_addr(x) \in Pages(a)
  <1> DEFINE B == [a \in areas[s] |-> IF a.readonly THEN {} ELSE Bytes(a, ptr, size)]
  <1>1. size \in Nat
    BY Zenon
  <1>2. ASSUME NEW a \in areas[s]
        PROVE  IsFiniteSet(B[a]) /\ area_check_write(a, ptr, size) = Cardinality(B[a])
    <2>1. CASE a.readonly
      BY <2>1, FS_EmptySet, Zenon DEF area_check_write
    <2>2. CASE ~a.readonly
      BY <1>1, <2>2, AreaFacts, ReadCounts, Zenon DEF area_check_write
    <2> QED BY <2>1, <2>2, Zenon
  <1>3. \A a, b \in areas[s] : a # b => B[a] \cap B[b] = {}
    BY <1>1, OneAreaPerByte, Zenon
  <1>4. \A a \in areas[s] : B[a] \subseteq Bytes(a, ptr, size)
    BY Zenon
  <1>5. \A a \in areas[s], x \in ptr..(ptr + size - 1) :
          x \in B[a] <=> ~a.readonly /\ of_addr(x) \in Pages(a)
    BY <1>1, ByteOfArea, Zenon
  <1> HIDE DEF B
  <1>6. ASSUME NEW a \in areas[s]
        PROVE  MapThenSumSet(LAMBDA b : area_check_write(b, ptr, size), upto(s, a))
               = Cardinality(Cover(B, upto(s, a)))
    <2> DEFINE S == upto(s, a)
    <2>1. S \subseteq areas[s]
      BY Zenon DEF upto
    <2> HIDE DEF S
    <2>2. IsFiniteSet(S)
      BY <2>1, AreasFinite, FS_Subset, Zenon
    <2>3. Counted(B, [b \in S |-> area_check_write(b, ptr, size)], S)
      BY <1>2, <1>3, <2>1, Zenon DEF Counted
    <2> QED BY <2>2, <2>3, SumOfWrites, Zenon DEF S
  <1>7. check_write_array(s, ptr, size)
        <=> \E a \in areas[s] : Cardinality(Cover(B, upto(s, a))) = size
    BY <1>6, Zenon DEF check_write_array
  <1>8. (\E a \in areas[s] : Cardinality(Cover(B, upto(s, a))) = size)
        <=> \A x \in ptr..(ptr + size - 1) : \E a \in areas[s] : x \in B[a]
    BY <1>4, AllBytesSeen, Zenon
  <1> QED BY <1>5, <1>7, <1>8, Zenon

(* The pages of a buffer are those of its bytes. *)
LEMMA PagesOfBytes ==
  ASSUME NEW b \in Buffer
  PROVE  /\ b[1] \in Nat /\ b[2] \in Nat \ {0}
         /\ \A x \in b[1]..(b[1] + b[2] - 1) : of_addr(x) \in PagesOf(b)
         /\ \A p \in PagesOf(b) : p \in Page /\ \E x \in b[1]..(b[1] + b[2] - 1) : of_addr(x) = p
  <1> DEFINE ptr == b[1]
             last == b[1] + b[2] - 1
  <1>1. b[1] \in Nat /\ b[2] \in Nat \ {0} /\ b[1] + b[2] <= NPage * PAGE_SIZE
    BY MemoryAssumption DEF Buffer
  <1>2. ptr \in Nat /\ last \in Nat /\ ptr <= last /\ last < NPage * PAGE_SIZE
    BY <1>1, MemoryAssumption, SMTT(30)
  <1>3. PagesOf(b) = of_addr(ptr)..of_addr(last)
    BY Zenon DEF PagesOf
  <1> HIDE DEF ptr, last
  <1>4. of_addr(ptr) \in Nat /\ of_addr(last) \in Nat /\ NPage \in Nat /\ of_addr(last) < NPage
    BY <1>2, ByteInPages, MemoryAssumption, Zenon
  <1>5. ASSUME NEW x \in ptr..last PROVE of_addr(x) \in PagesOf(b)
    <2>1. x \in Nat /\ ptr <= x /\ x <= last
      BY <1>2
    <2>2. of_addr(x) \in Nat /\ of_addr(ptr) * PAGE_SIZE <= ptr /\ of_addr(x) * PAGE_SIZE <= x
      <3>1. of_addr(x) \in Nat
        BY <2>1, ByteInPages, Zenon
      <3>2. of_addr(ptr) <= of_addr(ptr) /\ of_addr(x) <= of_addr(x)
        BY <1>4, <3>1
      <3> QED BY <1>2, <1>4, <2>1, <3>1, <3>2, ByteInPages, Zenon
    <2>3. of_addr(ptr) * PAGE_SIZE <= x /\ of_addr(x) * PAGE_SIZE <= last
      <3>1. of_addr(ptr) * PAGE_SIZE \in Nat /\ of_addr(x) * PAGE_SIZE \in Nat
        BY <1>4, <2>2, MemoryAssumption
      <3> QED BY <1>2, <2>1, <2>2, <3>1, SMTT(30)
    <2>4. of_addr(ptr) <= of_addr(x) /\ of_addr(x) <= of_addr(last)
      BY <1>2, <1>4, <2>1, <2>2, <2>3, ByteInPages, Zenon
    <2> QED BY <1>3, <1>4, <2>2, <2>4
  <1>6. ASSUME NEW p \in PagesOf(b)
        PROVE  p \in Page /\ \E x \in ptr..last : of_addr(x) = p
    <2>1. p \in Nat /\ of_addr(ptr) <= p /\ p <= of_addr(last) /\ p \in Page
      BY <1>3, <1>4 DEF Page
    <2>2. CASE p = of_addr(ptr)
      <3>1. ptr \in ptr..last
        BY <1>2
      <3> QED BY <2>1, <2>2, <3>1, Zenon
    <2>3. CASE p # of_addr(ptr)
      <3> DEFINE x == p * PAGE_SIZE
      <3>1. ~(p <= of_addr(ptr)) /\ p + 1 \in Nat
        BY <1>4, <2>1, <2>3
      <3>2. ~(x <= ptr) /\ x <= last
        BY <1>2, <2>1, <3>1, ByteInPages, Zenon
      <3>3. x \in Nat /\ x <= x /\ x < (p + 1) * PAGE_SIZE
        BY <2>1, MemoryAssumption
      <3>4. of_addr(x) \in Nat /\ p <= of_addr(x) /\ of_addr(x) < p + 1
        BY <2>1, <3>1, <3>3, ByteInPages, Zenon
      <3> HIDE DEF x
      <3>5. x \in ptr..last /\ of_addr(x) = p
        BY <1>2, <2>1, <3>2, <3>3, <3>4
      <3> QED BY <2>1, <3>5, Zenon
    <2> QED BY <2>2, <2>3, Zenon
  <1> QED BY <1>1, <1>5, <1>6, Zenon DEF ptr, last

LEMMA BuffersReach ==
  ASSUME TypeOK, AreasDisjoint, TableMatches
  PROVE  BuffersReachable
  <1> SUFFICES ASSUME NEW s \in live, NEW b \in Buffer
               PROVE  /\ check_read_array(s, b[1], b[2]) <=> \A p \in PagesOf(b) : table[s][p].user
                      /\ check_write_array(s, b[1], b[2]) <=>
                           \A p \in PagesOf(b) : table[s][p].user /\ table[s][p].writable
    BY Zenon DEF BuffersReachable
  <1> DEFINE D == b[1]..(b[1] + b[2] - 1)
  <1>1. s \in Space
    BY Zenon DEF TypeOK
  <1>2. /\ b[1] \in Nat /\ b[2] \in Nat \ {0}
        /\ \A x \in D : of_addr(x) \in PagesOf(b)
        /\ \A p \in PagesOf(b) : p \in Page /\ \E x \in D : of_addr(x) = p
    BY PagesOfBytes, Zenon
  <1>3. check_read_array(s, b[1], b[2])
        <=> \A x \in D : \E a \in areas[s] : of_addr(x) \in Pages(a)
    BY <1>1, <1>2, ReadCheck, Zenon
  <1>4. check_write_array(s, b[1], b[2])
        <=> \A x \in D : \E a \in areas[s] : ~a.readonly /\ of_addr(x) \in Pages(a)
    BY <1>1, <1>2, WriteCheck, Zenon
  <1> HIDE DEF D
  <1>5. ASSUME NEW p \in Page
        PROVE  /\ table[s][p].user <=> \E a \in areas[s] : p \in Pages(a)
               /\ table[s][p].user /\ table[s][p].writable
                  <=> \E a \in areas[s] : ~a.readonly /\ p \in Pages(a)
    <2>1. /\ table[s][p].user <=> AreaOf(s, p) # {}
          /\ \A a \in AreaOf(s, p) : table[s][p].writable = ~a.readonly
      BY <1>1, Zenon DEF TableMatches
    <2> QED BY <2>1, Zenon DEF AreaOf
  <1> QED BY <1>2, <1>3, <1>4, <1>5, Zenon

(* The end of the last area overlaps no area, whatever the length. *)
LEMMA LastEndFree ==
  ASSUME TypeOK
  PROVE  FreeAreaFound
  <1> SUFFICES ASSUME NEW s \in live, NEW hint \in Bound, NEW len \in 1..PAGE_SIZE
               PROVE  find_free_area(s, hint, len) # {}
    BY Zenon DEF FreeAreaFound
  <1>1. s \in Space
    BY Zenon DEF TypeOK
  <1>2. CASE areas[s] = {}
    BY <1>2, Zenon DEF find_free_area, candidates, test_free_area
  <1>3. CASE areas[s] # {}
    <2> DEFINE T == {NPage - a.end : a \in areas[s]}
    <2>1. \A a \in areas[s] : a.end \in Nat /\ NPage - a.end \in Nat
      <3> SUFFICES ASSUME NEW a \in areas[s] PROVE a.end \in Nat /\ NPage - a.end \in Nat
        BY Zenon
      <3>1. a.end \in Nat /\ a.end <= NPage
        BY <1>1, AreaFacts, Zenon
      <3> QED BY <3>1, MemoryAssumption
    <2>2. T \subseteq Nat /\ T # {}
      BY <1>3, <2>1, Zenon
    <2>3. PICK x \in T : \A y \in T : x <= y
      <3> HIDE DEF T
      <3> QED BY <2>2, Least, Zenon
    <2>4. PICK a \in areas[s] : x = NPage - a.end
      BY Zenon
    <2>5. \A b \in areas[s] : NPage - a.end <= NPage - b.end
      BY <2>3, <2>4, Zenon
    <2>6. \A b \in areas[s] : b.end <= a.end
      BY <2>1, <2>5, MemoryAssumption
    <2>7. a.end \in candidates(s, hint)
      BY Zenon DEF candidates
    <2>8. test_free_area(s, a.end, round_up(a.end * PAGE_SIZE + len))
      BY <2>6, Zenon DEF test_free_area, is_overlap_with
    <2> QED BY <2>7, <2>8, Zenon DEF find_free_area
  <1> QED BY <1>2, <1>3, Zenon

(* check_read_array and check_write_array accept exactly the buffers that  *)
(* the page table lets the program use: always, for any areas, page size   *)
(* and buffer.                                                             *)
THEOREM ChecksExact == Spec => []BuffersReachable
  <1>1. TypeOK /\ AreasDisjoint /\ TableMatches => BuffersReachable
    BY BuffersReach, Zenon
  <1> QED BY <1>1, TypeCorrect, DisjointAreas, TableAgrees, PTL

(* find_free_area always finds a place for an area. *)
THEOREM FreeAreaAlways == Spec => []FreeAreaFound
  <1>1. TypeOK => FreeAreaFound
    BY LastEndFree, Zenon
  <1> QED BY <1>1, TypeCorrect, PTL
=============================================================================
