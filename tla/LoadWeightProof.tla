--------------------------- MODULE LoadWeightProof ---------------------------
(***************************************************************************)
(* Proofs about LoadWeight, for every width of the fixed point numbers, 32 *)
(* bits included, and every queue whose load fits it.  First the general   *)
(* part: induction over the naturals and over the subsets of a finite set, *)
(* with the predicate given as a set; sums as they are taken with          *)
(* MapThenSumSet; products and quotients of naturals.                      *)
(***************************************************************************)
EXTENDS LoadWeight, FiniteSetTheorems, TLAPS

(* A set of naturals has a least element. *)
LEMMA Least ==
  ASSUME NEW T, T \subseteq Nat, T # {}
  PROVE  \E x \in T : \A y \in T : x <= y
  <1> DEFINE R == OpToRel(<, Nat)
  <1>1. IsWellFoundedOn(R, Nat)
    BY NatLessThanWellFounded, Zenon
  <1> HIDE DEF R
  <1>2. PICK x \in T : \A y \in T : ~(<<y, x>> \in R)
    BY <1>1, WFMin, Zenon
  <1>3. \A y \in T : <<y, x>> \in R <=> y < x
    BY Zenon DEF R, OpToRel
  <1>4. \A y \in T : ~(y < x)
    BY <1>2, <1>3, Zenon
  <1>5. \A y \in T : x <= y
    BY <1>4
  <1> QED BY <1>5, Zenon

(* Induction over the naturals: G holds what is to be shown for all of them. *)
LEMMA NatInduct ==
  ASSUME NEW G, 0 \in G, \A n \in Nat : n \in G => n + 1 \in G
  PROVE  \A n \in Nat : n \in G
  <1> DEFINE Bad == {n \in Nat : n \notin G}
  <1> SUFFICES ASSUME Bad # {} PROVE FALSE
    BY Zenon
  <1>1. PICK n \in Bad : \A m \in Bad : n <= m
    <2>1. Bad \subseteq Nat
      BY Zenon
    <2> HIDE DEF Bad
    <2> QED BY <2>1, Least, Zenon
  <1>2. n \in Nat /\ n # 0
    BY Zenon
  <1>3. n - 1 \in Nat /\ (n - 1) + 1 = n /\ ~(n <= n - 1)
    BY <1>2
  <1>4. n - 1 \in G
    BY <1>1, <1>3, Zenon
  <1>5. (n - 1) + 1 \in G
    BY <1>3, <1>4, Zenon
  <1> QED BY <1>3, <1>5, Zenon

(* The element that MapThenSumSet adds first. *)
pick(s) == CHOOSE x \in s : TRUE

LEMMA PickOne ==
  ASSUME NEW s, s # {}
  PROVE  pick(s) \in s
  BY Zenon DEF pick

(* Induction over the subsets of a finite set, one picked element at a time. *)
LEMMA SetInduct ==
  ASSUME NEW S, IsFiniteSet(S), NEW G, {} \in G,
         \A A \in SUBSET S : A # {} /\ A \ {pick(A)} \in G => A \in G
  PROVE  \A A \in SUBSET S : A \in G
  <1> DEFINE H == {n \in Nat : \A A \in SUBSET S : Cardinality(A) = n => A \in G}
  <1>1. \A A \in SUBSET S : IsFiniteSet(A) /\ Cardinality(A) \in Nat
    BY FS_Subset, FS_CardinalityType, Zenon
  <1>2. 0 \in H
    <2>1. \A A \in SUBSET S : Cardinality(A) = 0 => A = {}
      BY <1>1, FS_EmptySet, Zenon
    <2>2. 0 \in Nat
      OBVIOUS
    <2> QED BY <2>1, <2>2, Zenon
  <1>3. ASSUME NEW n \in Nat, n \in H PROVE n + 1 \in H
    <2>1. ASSUME NEW A \in SUBSET S, Cardinality(A) = n + 1 PROVE A \in G
      <3>1. n + 1 # 0 /\ (n + 1) - 1 = n
        OBVIOUS
      <3>2. A # {}
        BY <2>1, <3>1, FS_EmptySet, Zenon
      <3>3. pick(A) \in A
        BY <3>2, PickOne, Zenon
      <3>4. Cardinality(A \ {pick(A)}) = Cardinality(A) - 1
        BY <1>1, <3>3, FS_RemoveElement, Zenon
      <3>5. Cardinality(A \ {pick(A)}) = n
        BY <2>1, <3>1, <3>4, Zenon
      <3>6. A \ {pick(A)} \in G
        BY <1>3, <3>5, Zenon
      <3> QED BY <3>2, <3>6, Zenon
    <2>2. n + 1 \in Nat
      OBVIOUS
    <2> QED BY <2>1, <2>2, Zenon
  <1>4. \A n \in Nat : n \in H
    <2> HIDE DEF H
    <2> QED BY <1>2, <1>3, NatInduct, Zenon
  <1>5. ASSUME NEW A \in SUBSET S PROVE A \in G
    <2>1. Cardinality(A) \in H
      BY <1>1, <1>4, Zenon
    <2> QED BY <2>1, Zenon
  <1> QED BY <1>5, Zenon
-----------------------------------------------------------------------------
(***************************************************************************)
(* The sum of the weights g over a set, as MapThenSumSet takes it: it is   *)
(* defined for every subset of a finite set.                               *)
(***************************************************************************)
SumStep(g, it, s) == IF s = {} THEN 0 ELSE g[pick(s)] + it[s \ {pick(s)}]

IsSum(it, g, S) == it = [s \in SUBSET S |-> SumStep(g, it, s)]

LEMMA SumExists ==
  ASSUME NEW S, IsFiniteSet(S), NEW g
  PROVE  \E it : IsSum(it, g, S)
  <1> DEFINE Upto(n) == {s \in SUBSET S : Cardinality(s) <= n}
             Good(n) == \E it : it = [s \in Upto(n) |-> SumStep(g, it, s)]
  <1>1. \A s \in SUBSET S : IsFiniteSet(s) /\ Cardinality(s) \in Nat
    BY FS_Subset, FS_CardinalityType, Zenon
  <1>2. \A s \in SUBSET S : Cardinality(s) <= 0 => s = {}
    <2>1. \A s \in SUBSET S : Cardinality(s) <= 0 => Cardinality(s) = 0
      BY <1>1
    <2> QED BY <1>1, <2>1, FS_EmptySet, Zenon
  <1>3. Good(0)
    <2> DEFINE it == [s \in Upto(0) |-> 0]
    <2>1. \A s \in Upto(0) : SumStep(g, it, s) = 0
      BY <1>2, Zenon DEF SumStep
    <2>2. it = [s \in Upto(0) |-> SumStep(g, it, s)]
      BY <2>1, Zenon
    <2> QED BY <2>2, Zenon
  <1>4. ASSUME NEW n \in Nat, Good(n) PROVE Good(n + 1)
    <2>1. PICK it : it = [s \in Upto(n) |-> SumStep(g, it, s)]
      BY <1>4, Zenon
    <2> DEFINE nx == [s \in Upto(n + 1) |-> SumStep(g, it, s)]
    <2>2. ASSUME NEW s \in Upto(n + 1) PROVE SumStep(g, it, s) = SumStep(g, nx, s)
      <3>1. CASE s = {}
        BY <3>1, Zenon DEF SumStep
      <3>2. CASE s # {}
        <4> DEFINE r == s \ {pick(s)}
        <4>1. pick(s) \in s
          BY <3>2, PickOne, Zenon
        <4>2. IsFiniteSet(s) /\ s \in SUBSET S /\ Cardinality(s) \in Nat /\ Cardinality(s) <= n + 1
          BY <1>1, Zenon
        <4>3. Cardinality(r) = Cardinality(s) - 1 /\ r \in SUBSET S
          BY <4>1, <4>2, FS_RemoveElement, Zenon
        <4>4. Cardinality(r) <= n /\ Cardinality(r) <= n + 1
          BY <4>2, <4>3
        <4>5. r \in Upto(n) /\ r \in Upto(n + 1)
          BY <4>3, <4>4, Zenon
        <4> HIDE DEF r
        <4>6. it[r] = SumStep(g, it, r)
          BY <2>1, <4>5, Zenon
        <4>7. nx[r] = SumStep(g, it, r)
          BY <4>5, Zenon
        <4> QED BY <3>2, <4>6, <4>7, Zenon DEF SumStep, r
      <3> QED BY <3>1, <3>2, Zenon
    <2>3. nx = [s \in Upto(n + 1) |-> SumStep(g, nx, s)]
      BY <2>2, Zenon
    <2> QED BY <2>3, Zenon
  <1>5. \A n \in Nat : Good(n)
    <2> DEFINE G == {n \in Nat : Good(n)}
    <2> HIDE DEF Good
    <2>1. 0 \in G
      BY <1>3, Zenon
    <2>2. \A n \in Nat : n \in G => n + 1 \in G
      BY <1>4
    <2>3. \A n \in Nat : n \in G
      <3> HIDE DEF G
      <3> QED BY <2>1, <2>2, NatInduct, Zenon
    <2> QED BY <2>3, Zenon
  <1>6. Upto(Cardinality(S)) = SUBSET S
    <2>1. \A s \in SUBSET S : Cardinality(s) <= Cardinality(S)
      BY FS_Subset, Zenon
    <2> QED BY <2>1, Zenon
  <1>7. Cardinality(S) \in Nat
    BY FS_CardinalityType, Zenon
  <1>8. Good(Cardinality(S))
    BY <1>5, <1>7, Zenon
  <1>9. \E it : it = [s \in SUBSET S |-> SumStep(g, it, s)]
    BY <1>6, <1>8, Zenon
  <1> QED BY <1>9, Zenon DEF IsSum
-----------------------------------------------------------------------------
(* A sum of naturals is at least each of them, and at most as many times   *)
(* the largest.                                                            *)
Bounded(g, c, S) == \A a \in S : g[a] \in Nat /\ g[a] <= c

LEMMA SumBounds ==
  ASSUME NEW S, IsFiniteSet(S), NEW g, NEW c \in Nat, Bounded(g, c, S), NEW it, IsSum(it, g, S)
  PROVE  \A A \in SUBSET S : /\ it[A] \in Nat /\ it[A] <= c * Cardinality(A)
                             /\ \A a \in A : g[a] <= it[A]
  <1> DEFINE Good(A) == /\ it[A] \in Nat /\ it[A] <= c * Cardinality(A)
                        /\ \A a \in A : g[a] <= it[A]
  <1>1. \A A \in SUBSET S : IsFiniteSet(A) /\ Cardinality(A) \in Nat
    BY FS_Subset, FS_CardinalityType, Zenon
  <1>2. Good({})
    <2>1. it[{}] = 0
      BY Zenon DEF SumStep, IsSum
    <2>2. Cardinality({}) = 0
      BY FS_EmptySet, Zenon
    <2>3. 0 \in Nat /\ 0 <= c * 0
      OBVIOUS
    <2> QED BY <2>1, <2>2, <2>3, Zenon
  <1>3. ASSUME NEW A \in SUBSET S, A # {}, Good(A \ {pick(A)}) PROVE Good(A)
    <2> DEFINE x == pick(A)
               r == A \ {x}
               k == Cardinality(r)
               u == g[x]
               v == it[r]
    <2>1. x \in A /\ x \in S /\ r \in SUBSET S
      BY <1>3, PickOne, Zenon
    <2>2. it[A] = g[x] + it[r]
      BY <1>3, Zenon DEF SumStep, IsSum
    <2>3. Cardinality(r) = Cardinality(A) - 1
      BY <1>1, <2>1, FS_RemoveElement, Zenon
    <2>4. u \in Nat /\ u <= c /\ v \in Nat /\ v <= c * k /\ \A a \in r : g[a] <= v
      BY <1>3, <2>1, Zenon DEF Bounded
    <2>5. k \in Nat /\ Cardinality(A) \in Nat
      BY <1>1, <2>1, Zenon
    <2>6. \A a \in r : g[a] \in Nat
      BY <2>1, Zenon DEF Bounded
    <2> HIDE DEF k, u, v
    <2>7. Cardinality(A) = k + 1
      BY <2>3, <2>5 DEF k
    <2>8. c * (k + 1) = c * k + c
      BY <2>5
    <2>9. u + v \in Nat /\ u + v <= c * k + c /\ u <= u + v /\ v <= u + v
      BY <2>4, <2>5
    <2>10. it[A] = u + v
      BY <2>2, Zenon DEF u, v
    <2>11. \A a \in r : g[a] <= u + v
      <3> HIDE DEF r
      <3> QED BY <2>4, <2>6
    <2>12. \A a \in A : g[a] <= u + v
      <3>1. \A a \in A : a = x \/ a \in r
        BY Zenon
      <3>2. g[x] <= u + v
        BY <2>9, Zenon DEF u
      <3> QED BY <2>11, <3>1, <3>2, Zenon
    <2> QED BY <2>7, <2>8, <2>9, <2>10, <2>12, Zenon
  <1>4. \A A \in SUBSET S : Good(A)
    <2> DEFINE G == {A \in SUBSET S : Good(A)}
    <2> HIDE DEF Good
    <2>1. {} \in G
      BY <1>2, Zenon
    <2>2. \A A \in SUBSET S : A # {} /\ A \ {pick(A)} \in G => A \in G
      BY <1>3, Zenon
    <2>3. \A A \in SUBSET S : A \in G
      <3> HIDE DEF G
      <3> QED BY <2>1, <2>2, SetInduct, Zenon
    <2> QED BY <2>3, Zenon
  <1> QED BY <1>4, Zenon

(* Sums of naturals are in a ratio that bounds those of their terms. *)
Ratio(a, g, b, h, S) == \A x \in S : g[x] \in Nat /\ h[x] \in Nat /\ a * g[x] <= b * h[x]

LEMMA SumRatio ==
  ASSUME NEW S, IsFiniteSet(S), NEW a \in Nat, NEW b \in Nat, NEW g, NEW h, Ratio(a, g, b, h, S),
         NEW it, IsSum(it, g, S), NEW jt, IsSum(jt, h, S)
  PROVE  \A A \in SUBSET S : it[A] \in Nat /\ jt[A] \in Nat /\ a * it[A] <= b * jt[A]
  <1> DEFINE Good(A) == it[A] \in Nat /\ jt[A] \in Nat /\ a * it[A] <= b * jt[A]
  <1>2. Good({})
    <2>1. it[{}] = 0 /\ jt[{}] = 0
      BY Zenon DEF SumStep, IsSum
    <2>2. 0 \in Nat /\ a * 0 <= b * 0
      OBVIOUS
    <2> QED BY <2>1, <2>2, Zenon
  <1>3. ASSUME NEW A \in SUBSET S, A # {}, Good(A \ {pick(A)}) PROVE Good(A)
    <2> DEFINE x == pick(A)
               r == A \ {x}
               u == g[x]
               v == it[r]
               y == h[x]
               z == jt[r]
    <2>1. x \in A /\ x \in S
      BY <1>3, PickOne, Zenon
    <2>2. it[A] = u + v /\ jt[A] = y + z
      BY <1>3, Zenon DEF SumStep, IsSum
    <2>3. u \in Nat /\ v \in Nat /\ y \in Nat /\ z \in Nat /\ a * u <= b * y /\ a * v <= b * z
      BY <1>3, <2>1, Zenon DEF Ratio
    <2> HIDE DEF u, v, y, z
    <2>4. a * (u + v) = a * u + a * v /\ b * (y + z) = b * y + b * z
      BY <2>3
    <2>5. a * u \in Nat /\ a * v \in Nat /\ b * y \in Nat /\ b * z \in Nat
      BY <2>3
    <2>6. a * u + a * v <= b * y + b * z
      BY <2>3, <2>5
    <2>7. u + v \in Nat /\ y + z \in Nat
      BY <2>3
    <2> QED BY <2>2, <2>4, <2>6, <2>7, Zenon
  <1>4. \A A \in SUBSET S : Good(A)
    <2> DEFINE G == {A \in SUBSET S : Good(A)}
    <2> HIDE DEF Good
    <2>1. {} \in G
      BY <1>2, Zenon
    <2>2. \A A \in SUBSET S : A # {} /\ A \ {pick(A)} \in G => A \in G
      BY <1>3, Zenon
    <2>3. \A A \in SUBSET S : A \in G
      <3> HIDE DEF G
      <3> QED BY <2>1, <2>2, SetInduct, Zenon
    <2> QED BY <2>3, Zenon
  <1> QED BY <1>4, Zenon
-----------------------------------------------------------------------------
(* Quotients, and products of naturals. *)
LEMMA DivFacts ==
  ASSUME NEW a \in Nat, NEW b \in Nat, b > 0
  PROVE  a \div b \in Nat /\ (a \div b) * b <= a /\ a < (a \div b) * b + b
  OBVIOUS

LEMMA MulMono ==
  ASSUME NEW a \in Nat, NEW b \in Nat, NEW c \in Nat, a <= b
  PROVE  a * c <= b * c
  OBVIOUS

LEMMA MulCancel ==
  ASSUME NEW a \in Nat, NEW b \in Nat, NEW c \in Nat, c > 0
  PROVE  (a * c <= b * c => a <= b) /\ (a * c < b * c => a < b)
  OBVIOUS

LEMMA MulNat ==
  ASSUME NEW a \in Nat, NEW b \in Nat
  PROVE  a * b \in Nat /\ a * b = b * a
  OBVIOUS

LEMMA DivLower ==
  ASSUME NEW x \in Nat, NEW a \in Nat, NEW b \in Nat, b > 0, x * b <= a
  PROVE  x <= a \div b
  <1> DEFINE q == a \div b
  <1>1. q \in Nat /\ a < q * b + b
    BY DivFacts, Zenon
  <1> HIDE DEF q
  <1>2. q * b + b = (q + 1) * b
    BY <1>1
  <1> DEFINE y == x * b
             z == (q + 1) * b
  <1>3. y \in Nat /\ z \in Nat /\ q + 1 \in Nat
    BY <1>1
  <1>4. y <= a /\ a < z
    BY <1>1, <1>2, Zenon
  <1> HIDE DEF y, z
  <1>5. y < z
    BY <1>3, <1>4
  <1>6. x < q + 1
    BY <1>3, <1>5, MulCancel, Zenon DEF y, z
  <1>7. x <= q
    BY <1>1, <1>6
  <1> QED BY <1>7, Zenon DEF q

LEMMA DivMono ==
  ASSUME NEW a \in Nat, NEW b \in Nat, NEW c \in Nat, c > 0, a <= b
  PROVE  a \div c <= b \div c
  <1> DEFINE q == a \div c
  <1>1. q \in Nat /\ q * c <= a
    BY DivFacts, Zenon
  <1> HIDE DEF q
  <1>2. q * c <= b
    <2> DEFINE x == q * c
    <2>1. x \in Nat /\ x <= a
      BY <1>1, MulNat, Zenon
    <2> HIDE DEF x
    <2>2. x <= b
      BY <2>1
    <2> QED BY <2>2, Zenon DEF x
  <1>3. q <= b \div c
    BY <1>1, <1>2, DivLower, Zenon
  <1> QED BY <1>3, Zenon DEF q

(* The fixed point product is no more than the quotient it stands for ... *)
LEMMA DeltaUpper ==
  ASSUME NEW d \in Nat, NEW w \in Nat, NEW lw \in Nat, NEW inv \in Nat, NEW fact \in Nat,
         NEW M \in Nat, NEW Q \in Nat, NEW P \in Nat, NEW r \in Nat, P > 0,
         Q * M = P, inv * lw <= P, fact * M <= w * inv, r * Q <= d * fact
  PROVE  r * lw <= d * w
  <1>1. /\ r * Q \in Nat /\ d * fact \in Nat /\ fact * M \in Nat /\ w * inv \in Nat
        /\ r * P \in Nat /\ d * w \in Nat /\ inv * lw \in Nat /\ r * lw \in Nat
        /\ d * (w * inv) \in Nat
    OBVIOUS
  <1>2. (r * Q) * M <= (d * fact) * M
    BY <1>1, MulMono, Zenon
  <1>3. (fact * M) * d <= (w * inv) * d
    BY <1>1, MulMono, Zenon
  <1>4. (r * Q) * M = r * P
    OBVIOUS
  <1>5. (d * fact) * M = (fact * M) * d /\ (w * inv) * d = d * (w * inv)
    OBVIOUS
  <1>6. r * P <= d * (w * inv)
    <2> DEFINE x == (d * fact) * M
               y == d * (w * inv)
               z == r * P
    <2>1. x \in Nat /\ y \in Nat /\ z \in Nat
      BY <1>1, MulNat, Zenon
    <2>2. z <= x /\ x <= y
      BY <1>2, <1>3, <1>4, <1>5, Zenon
    <2> HIDE DEF x, y, z
    <2>3. z <= y
      BY <2>1, <2>2
    <2> QED BY <2>3, Zenon DEF y, z
  <1>7. (r * P) * lw <= (d * (w * inv)) * lw
    BY <1>1, <1>6, MulMono, Zenon
  <1>8. (inv * lw) * (d * w) <= P * (d * w)
    BY <1>1, MulMono, Zenon
  <1>9. /\ (r * P) * lw = (r * lw) * P
        /\ (d * (w * inv)) * lw = (inv * lw) * (d * w)
        /\ P * (d * w) = (d * w) * P
    OBVIOUS
  <1>10. (r * lw) * P <= (d * w) * P
    <2> DEFINE x == (inv * lw) * (d * w)
               y == (r * lw) * P
               z == (d * w) * P
    <2>1. x \in Nat /\ y \in Nat /\ z \in Nat
      BY <1>1, MulNat, Zenon
    <2>2. y <= x /\ x <= z
      BY <1>7, <1>8, <1>9, Zenon
    <2> HIDE DEF x, y, z
    <2>3. y <= z
      BY <2>1, <2>2
    <2> QED BY <2>3, Zenon DEF y, z
  <1> QED BY <1>1, <1>10, MulCancel, Zenon

(* ... and the truncations of inv, of fact and of the result cost little. *)
LEMMA DeltaLower ==
  ASSUME NEW d \in Nat, NEW w \in Nat, NEW lw \in Nat, NEW inv \in Nat, NEW fact \in Nat,
         NEW M \in Nat, NEW Q \in Nat, NEW P \in Nat, NEW r \in Nat, NEW X \in Nat,
         NEW e \in Nat, NEW k \in Nat, P > 0, lw > 0,
         Q * M = P, P <= inv * lw + lw, w * inv <= fact * M + X, X <= 2 * w,
         d * fact < r * Q + Q, e * lw <= d * w, (3 * d) * w < k * P + P
  PROVE  e <= r + k + 1
  <1> DEFINE f == w * inv
             g == fact * M
             t == d * w
             c == inv * lw
  <1>1. /\ f \in Nat /\ g \in Nat /\ t \in Nat /\ c \in Nat /\ d * fact \in Nat
        /\ r * Q \in Nat /\ r * P \in Nat /\ k * P \in Nat
    OBVIOUS
  <1>2. P * t <= (c + lw) * t
    BY <1>1, Z3
  <1>3. f * d <= (g + X) * d
    BY <1>1, Z3
  <1>4. X * d <= (2 * w) * d
    BY Z3
  <1>5. (d * fact) * M <= (r * Q + Q) * M
    BY <1>1, Z3
  <1>6. (r * Q + Q) * M = r * P + P
    OBVIOUS
  <1>7. (d * fact) * M = g * d /\ (g + X) * d = g * d + X * d /\ (2 * w) * d = 2 * t
    OBVIOUS
  <1>8. f * d <= r * P + P + 2 * t
    <2> DEFINE x == f * d
               y == g * d
               z == X * d
               p == r * P
    <2>1. x \in Nat /\ y \in Nat /\ z \in Nat /\ p \in Nat
      BY <1>1, MulNat
    <2>2. x <= y + z /\ z <= 2 * t /\ y <= p + P
      BY <1>3, <1>4, <1>5, <1>6, <1>7, Zenon
    <2> HIDE DEF x, y, z, p, t
    <2>3. x <= p + P + 2 * t
      BY <1>1, <2>1, <2>2
    <2> QED BY <2>3, Zenon DEF x, p
  <1>9. (c + lw) * t = (f * d) * lw + t * lw
    OBVIOUS
  <1>10. (f * d) * lw <= (r * P + P + 2 * t) * lw
    <2> DEFINE x == f * d
               y == r * P + P + 2 * t
    <2>1. x \in Nat /\ y \in Nat
      BY <1>1
    <2>2. x <= y
      BY <1>8, Zenon
    <2> HIDE DEF x, y
    <2>3. x * lw <= y * lw
      BY <2>1, <2>2, MulMono, Zenon
    <2> QED BY <2>3, Zenon DEF x, y
  <1>11. (e * lw) * P <= t * P
    <2> DEFINE x == e * lw
    <2>1. x \in Nat /\ x <= t
      BY <1>1, MulNat
    <2> HIDE DEF x, t
    <2>2. x * P <= t * P
      BY <1>1, <2>1, MulMono, Zenon
    <2> QED BY <2>2, Zenon DEF x
  <1>12. (e * P) * lw <= (r * P + P + 3 * t) * lw
    <2> DEFINE x == (e * lw) * P
               y == (f * d) * lw
               u == t * lw
               z == (r * P + P + 2 * t) * lw
               v == P * t
    <2>1. x \in Nat /\ y \in Nat /\ u \in Nat /\ z \in Nat /\ v \in Nat
      BY <1>1
    <2>2. x <= v /\ v <= y + u /\ y <= z
      BY <1>1, <1>2, <1>9, <1>10, <1>11, MulNat
    <2> HIDE DEF x, y, u, z, v
    <2>3. x <= z + u
      BY <2>1, <2>2
    <2> HIDE DEF t
    <2>4. x = (e * P) * lw /\ z + u = (r * P + P + 3 * t) * lw
      BY <1>1 DEF x, z, u
    <2> QED BY <2>3, <2>4, Zenon
  <1>13. e * P <= r * P + P + 3 * t
    <2> DEFINE x == e * P
               y == r * P + P + 3 * t
    <2>1. x \in Nat /\ y \in Nat
      BY <1>1
    <2>2. x * lw <= y * lw
      BY <1>12, Zenon
    <2> HIDE DEF x, y
    <2>3. x <= y
      BY <2>1, <2>2, MulCancel, Zenon
    <2> QED BY <2>3, Zenon DEF x, y
  <1>14. 3 * t = (3 * d) * w
    OBVIOUS
  <1>15. e * P < (r + k + 2) * P
    <2> DEFINE x == e * P
               y == r * P
               z == k * P
               v == 3 * t
    <2>1. x \in Nat /\ y \in Nat /\ z \in Nat /\ v \in Nat
      BY <1>1
    <2>2. x <= y + P + v /\ v < z + P
      BY <1>13, <1>14, Zenon
    <2>3. (r + k + 2) * P = y + z + 2 * P
      OBVIOUS
    <2> HIDE DEF x, y, z, v
    <2>4. x < y + z + 2 * P
      BY <2>1, <2>2
    <2> QED BY <2>3, <2>4, Zenon DEF x
  <1>16. e < r + k + 2
    <2>1. r + k + 2 \in Nat
      OBVIOUS
    <2> DEFINE y == r + k + 2
    <2> HIDE DEF y
    <2>2. e < y
      BY <1>15, <2>1, MulCancel, Zenon DEF y
    <2> QED BY <2>2, Zenon DEF y
  <1> QED BY <1>16

(* The slice of a task, weighted, is no more than its fair part ... *)
LEMMA FairUpper ==
  ASSUME NEW s \in Nat, NEW t \in Nat, NEW p \in Nat, NEW w \in Nat, NEW w0 \in Nat, NEW v \in Nat,
         w > 0, s * t <= p * w, v * w <= s * w0
  PROVE  v * t <= p * w0
  <1>1. (v * w) * t <= (s * w0) * t
    BY MulNat, MulMono, Zenon
  <1>2. (s * t) * w0 <= (p * w) * w0
    BY MulNat, MulMono, Zenon
  <1>3. (v * w) * t = (v * t) * w /\ (s * w0) * t = (s * t) * w0 /\ (p * w) * w0 = (p * w0) * w
    OBVIOUS
  <1> DEFINE x == (v * t) * w
             y == (s * t) * w0
             z == (p * w0) * w
  <1>4. x \in Nat /\ y \in Nat /\ z \in Nat /\ v * t \in Nat /\ p * w0 \in Nat
    BY MulNat, Zenon
  <1>5. x <= y /\ y <= z
    BY <1>1, <1>2, <1>3, Zenon
  <1> HIDE DEF x, y, z
  <1>6. x <= z
    BY <1>4, <1>5
  <1> QED BY <1>4, <1>6, MulCancel, Zenon DEF x, z

(* ... and short of it by truncations only. *)
LEMMA FairLower ==
  ASSUME NEW s \in Nat, NEW t \in Nat, NEW p \in Nat, NEW w \in Nat, NEW w0 \in Nat,
         NEW x \in Nat, NEW fair \in Nat, NEW a \in Nat, NEW b \in Nat,
         w > 0, t > 0, p * w <= (s + x + 1) * t, fair * t <= p * w0,
         s * w0 < a * w + w, (x + 1) * w0 < b * w + w
  PROVE  fair <= a + b + 1
  <1> DEFINE y == s + x + 1
  <1>1. y \in Nat /\ y * w0 = s * w0 + (x + 1) * w0
    OBVIOUS
  <1>2. p * w <= y * t
    BY Zenon
  <1> HIDE DEF y
  <1>3. /\ fair * t \in Nat /\ p * w0 \in Nat /\ p * w \in Nat /\ y * t \in Nat /\ fair * w \in Nat
        /\ y * w0 \in Nat
    BY <1>1, MulNat, Zenon
  <1>4. (fair * t) * w <= (p * w0) * w
    BY <1>3, MulMono, Zenon
  <1>5. (p * w) * w0 <= (y * t) * w0
    BY <1>2, <1>3, MulMono, Zenon
  <1>6. /\ (fair * t) * w = (fair * w) * t /\ (p * w0) * w = (p * w) * w0
        /\ (y * t) * w0 = (y * w0) * t
    BY <1>1
  <1>7. fair * w <= y * w0
    <2> DEFINE i == (fair * w) * t
               j == (p * w) * w0
               k == (y * w0) * t
    <2>1. i \in Nat /\ j \in Nat /\ k \in Nat
      BY <1>3, MulNat, Zenon
    <2>2. i <= j /\ j <= k
      BY <1>4, <1>5, <1>6, Zenon
    <2> HIDE DEF i, j, k
    <2>3. i <= k
      BY <2>1, <2>2
    <2> QED BY <1>3, <2>3, MulCancel, Zenon DEF i, k
  <1>8. fair * w < (a + b + 2) * w
    <2> DEFINE i == s * w0
               j == (x + 1) * w0
               k == a * w
               l == b * w
               f == fair * w
    <2>1. i \in Nat /\ j \in Nat /\ k \in Nat /\ l \in Nat /\ f \in Nat
      OBVIOUS
    <2>2. f <= i + j /\ i < k + w /\ j < l + w
      BY <1>1, <1>7, Zenon
    <2>3. (a + b + 2) * w = k + l + 2 * w
      OBVIOUS
    <2> HIDE DEF i, j, k, l, f
    <2>4. f < k + l + 2 * w
      BY <2>1, <2>2
    <2> QED BY <2>3, <2>4, Zenon DEF f
  <1> DEFINE z == a + b + 2
  <1>9. z \in Nat /\ fair * w < z * w
    BY <1>8
  <1> HIDE DEF z
  <1>10. fair < z
    BY <1>9, MulCancel, Zenon
  <1> QED BY <1>10 DEF z
-----------------------------------------------------------------------------
(* pow2 satisfies its defining equation: there is such a function, taken   *)
(* from those on the intervals 0..n, which agree.                          *)
PowStep(f, n) == IF n = 0 THEN 1 ELSE 2 * f[n - 1]
PowUpto(f, n) == f = [i \in 0..n |-> PowStep(f, i)]

LEMMA PowUptoExists == \A n \in Nat : \E f : PowUpto(f, n)
  <1> DEFINE G == {n \in Nat : \E f : PowUpto(f, n)}
  <1>1. 0 \in G
    <2> DEFINE f == [i \in 0..0 |-> 1]
    <2>1. \A i \in 0..0 : PowStep(f, i) = 1
      BY DEF PowStep
    <2>2. [i \in 0..0 |-> PowStep(f, i)] = f
      BY <2>1, Zenon
    <2>3. 0 \in Nat
      OBVIOUS
    <2> QED BY <2>2, <2>3, Zenon DEF PowUpto
  <1>2. ASSUME NEW n \in Nat, n \in G PROVE n + 1 \in G
    <2>1. PICK f : PowUpto(f, n)
      BY <1>2, Zenon
    <2> DEFINE h == [i \in 0..(n + 1) |-> PowStep(f, i)]
    <2>2. ASSUME NEW i \in 0..(n + 1) PROVE PowStep(f, i) = PowStep(h, i)
      <3>1. CASE i = 0
        BY <3>1, Zenon DEF PowStep
      <3>2. CASE i # 0
        <4>1. i - 1 \in 0..n /\ i - 1 \in 0..(n + 1)
          BY <3>2
        <4>2. f[i - 1] = PowStep(f, i - 1)
          BY <2>1, <4>1, Zenon DEF PowUpto
        <4>3. h[i - 1] = PowStep(f, i - 1)
          BY <4>1, Zenon
        <4> QED BY <3>2, <4>2, <4>3, Zenon DEF PowStep
      <3> QED BY <3>1, <3>2, Zenon
    <2>3. PowUpto(h, n + 1)
      BY <2>2, Zenon DEF PowUpto
    <2>4. n + 1 \in Nat
      OBVIOUS
    <2> HIDE DEF h
    <2> QED BY <2>3, <2>4, Zenon
  <1>3. \A n \in Nat : n \in G
    <2> HIDE DEF G
    <2> QED BY <1>1, <1>2, NatInduct, Zenon
  <1> QED BY <1>3, Zenon

LEMMA PowUptoAgree ==
  ASSUME NEW m \in Nat, NEW n \in Nat, NEW f, PowUpto(f, m), NEW h, PowUpto(h, n),
         NEW k \in Nat, k \in 0..m, k \in 0..n
  PROVE  f[k] = h[k]
  <1> DEFINE G == {i \in Nat : i \in 0..m /\ i \in 0..n => f[i] = h[i]}
  <1>0. /\ \A i \in 0..m : f[i] = PowStep(f, i)
        /\ \A i \in 0..n : h[i] = PowStep(h, i)
    BY Zenon DEF PowUpto
  <1>1. 0 \in G
    <2>1. 0 \in Nat /\ 0 \in 0..m /\ 0 \in 0..n
      OBVIOUS
    <2> QED BY <1>0, <2>1, Zenon DEF PowStep
  <1>2. ASSUME NEW i \in Nat, i \in G PROVE i + 1 \in G
    <2>1. /\ i + 1 \in Nat /\ i + 1 # 0 /\ (i + 1) - 1 = i
          /\ i + 1 \in 0..m => i \in 0..m
          /\ i + 1 \in 0..n => i \in 0..n
      OBVIOUS
    <2>2. /\ i + 1 \in 0..m => f[i + 1] = 2 * f[i]
          /\ i + 1 \in 0..n => h[i + 1] = 2 * h[i]
      BY <1>0, <2>1, Zenon DEF PowStep
    <2> QED BY <1>2, <2>1, <2>2, Zenon
  <1>3. \A i \in Nat : i \in G
    <2> HIDE DEF G
    <2> QED BY <1>1, <1>2, NatInduct, Zenon
  <1> QED BY <1>3, Zenon

LEMMA PowDef == pow2 = [n \in Nat |-> IF n = 0 THEN 1 ELSE 2 * pow2[n - 1]]
  <1> DEFINE upto(n) == CHOOSE f : PowUpto(f, n)
             p == [n \in Nat |-> upto(n)[n]]
  <1>1. \A n \in Nat : PowUpto(upto(n), n)
    BY PowUptoExists, Zenon
  <1> HIDE DEF upto
  <1>2. ASSUME NEW n \in Nat PROVE p[n] = PowStep(p, n)
    <2>1. n \in 0..n
      OBVIOUS
    <2>2. p[n] = PowStep(upto(n), n)
      BY <1>1, <2>1, Zenon DEF PowUpto
    <2>3. CASE n = 0
      BY <2>2, <2>3, Zenon DEF PowStep
    <2>4. CASE n # 0
      <3>1. n - 1 \in Nat /\ n - 1 \in 0..n /\ n - 1 \in 0..(n - 1)
        BY <2>4
      <3>2. upto(n)[n - 1] = upto(n - 1)[n - 1]
        <4> DEFINE k == n - 1
                   f == upto(n)
                   h == upto(k)
        <4>1. PowUpto(f, n) /\ PowUpto(h, k) /\ k \in Nat /\ k \in 0..n /\ k \in 0..k
          BY <1>1, <3>1, Zenon
        <4> HIDE DEF k, f, h
        <4>2. f[k] = h[k]
          BY <4>1, PowUptoAgree, SMTT(30)
        <4> QED BY <4>2, Zenon DEF k, f, h
      <3>3. p[n - 1] = upto(n)[n - 1]
        BY <3>1, <3>2, Zenon
      <3> QED BY <2>2, <2>4, <3>3, Zenon DEF PowStep
    <2> QED BY <2>3, <2>4, Zenon
  <1>3. p = [n \in Nat |-> PowStep(p, n)]
    BY <1>2, Zenon
  <1> HIDE DEF p
  <1>4. p = [n \in Nat |-> IF n = 0 THEN 1 ELSE 2 * p[n - 1]]
    BY <1>3, Zenon DEF PowStep
  <1> QED BY <1>4, Zenon DEF pow2

LEMMA PowType == \A n \in Nat : pow2[n] \in Nat /\ pow2[n] > 0
  <1> DEFINE G == {n \in Nat : pow2[n] \in Nat /\ pow2[n] > 0}
  <1>1. 0 \in G
    <2>1. 0 \in Nat /\ 1 \in Nat /\ 1 > 0
      OBVIOUS
    <2>2. pow2[0] = 1
      BY <2>1, PowDef, Zenon
    <2> QED BY <2>1, <2>2, Zenon
  <1>2. ASSUME NEW n \in Nat, n \in G PROVE n + 1 \in G
    <2>1. n + 1 \in Nat /\ n + 1 # 0 /\ (n + 1) - 1 = n
      OBVIOUS
    <2>2. pow2[n + 1] = 2 * pow2[n]
      BY <2>1, PowDef, Zenon
    <2>3. 2 * pow2[n] \in Nat /\ 2 * pow2[n] > 0
      BY <1>2
    <2> QED BY <2>1, <2>2, <2>3, Zenon
  <1>3. \A n \in Nat : n \in G
    <2> HIDE DEF G
    <2> QED BY <1>1, <1>2, NatInduct, Zenon
  <1> QED BY <1>3, Zenon

LEMMA PowNext == pow2[0] = 1 /\ \A n \in Nat : pow2[n + 1] = 2 * pow2[n]
  <1>1. ASSUME NEW n \in Nat PROVE pow2[n + 1] = 2 * pow2[n]
    <2>1. n + 1 \in Nat /\ n + 1 # 0 /\ (n + 1) - 1 = n
      OBVIOUS
    <2> QED BY <2>1, PowDef, Zenon
  <1>2. 0 \in Nat
    OBVIOUS
  <1> QED BY <1>1, <1>2, PowDef, Zenon

LEMMA PowSum == \A m, n \in Nat : pow2[m + n] = pow2[m] * pow2[n]
  <1> SUFFICES ASSUME NEW m \in Nat PROVE \A n \in Nat : pow2[m + n] = pow2[m] * pow2[n]
    BY Zenon
  <1> DEFINE G == {n \in Nat : pow2[m + n] = pow2[m] * pow2[n]}
  <1>1. 0 \in G
    <2>1. m + 0 = m /\ 0 \in Nat
      OBVIOUS
    <2>2. pow2[m] \in Nat
      BY PowType, Zenon
    <2>3. pow2[m] * 1 = pow2[m]
      BY <2>2
    <2> QED BY <2>1, <2>3, PowNext, Zenon
  <1>2. ASSUME NEW n \in Nat, n \in G PROVE n + 1 \in G
    <2> DEFINE a == pow2[m]
               b == pow2[n]
    <2>1. n + 1 \in Nat /\ m + (n + 1) = (m + n) + 1 /\ m + n \in Nat
      OBVIOUS
    <2>2. a \in Nat /\ b \in Nat
      BY PowType, Zenon
    <2>3. pow2[(m + n) + 1] = 2 * (a * b) /\ pow2[n + 1] = 2 * b
      BY <1>2, <2>1, PowNext, Zenon
    <2> HIDE DEF a, b
    <2>4. 2 * (a * b) = a * (2 * b)
      BY <2>2
    <2> QED BY <2>1, <2>3, <2>4, Zenon DEF a
  <1>3. \A n \in Nat : n \in G
    <2> HIDE DEF G
    <2> QED BY <1>1, <1>2, NatInduct, Zenon
  <1> QED BY <1>3, Zenon
-----------------------------------------------------------------------------

LEMMA Nice0 == NICE_0_WEIGHT = 1024
  BY DEF NICE_0_WEIGHT, nice_to_weight

(* Every nice level has a weight. *)
LEMMA NiceWeights == \A nice \in -20..19 : nice_to_weight(nice) \in Nat /\ nice_to_weight(nice) > 0
  <1> SUFFICES ASSUME NEW nice \in -20..19
               PROVE  nice_to_weight(nice) \in Nat /\ nice_to_weight(nice) > 0
    BY Zenon
  <1>1. /\ nice_to_weight(-20) = 88761 /\ nice_to_weight(-19) = 71755 /\ nice_to_weight(-18) = 56483
        /\ nice_to_weight(-17) = 46273 /\ nice_to_weight(-16) = 36291 /\ nice_to_weight(-15) = 29154
        /\ nice_to_weight(-14) = 23254 /\ nice_to_weight(-13) = 18705 /\ nice_to_weight(-12) = 14949
        /\ nice_to_weight(-11) = 11916 /\ nice_to_weight(-10) = 9548 /\ nice_to_weight(-9) = 7620
        /\ nice_to_weight(-8) = 6100 /\ nice_to_weight(-7) = 4904 /\ nice_to_weight(-6) = 3906
        /\ nice_to_weight(-5) = 3121 /\ nice_to_weight(-4) = 2501 /\ nice_to_weight(-3) = 1991
        /\ nice_to_weight(-2) = 1586 /\ nice_to_weight(-1) = 1277 /\ nice_to_weight(0) = 1024
        /\ nice_to_weight(1) = 820 /\ nice_to_weight(2) = 655 /\ nice_to_weight(3) = 526
        /\ nice_to_weight(4) = 423 /\ nice_to_weight(5) = 335 /\ nice_to_weight(6) = 272
        /\ nice_to_weight(7) = 215 /\ nice_to_weight(8) = 172 /\ nice_to_weight(9) = 137
        /\ nice_to_weight(10) = 110 /\ nice_to_weight(11) = 87 /\ nice_to_weight(12) = 70
        /\ nice_to_weight(13) = 56 /\ nice_to_weight(14) = 45 /\ nice_to_weight(15) = 36
        /\ nice_to_weight(16) = 29 /\ nice_to_weight(17) = 23 /\ nice_to_weight(18) = 18
        /\ nice_to_weight(19) = 15
    BY DEF nice_to_weight
  <1> QED BY <1>1, SMT

LEMMA ConstFacts == /\ WMULT_SHIFT \in Nat /\ WMULT_SHIFT > 0
                    /\ pow2[WMULT_SHIFT] \in Nat /\ pow2[WMULT_SHIFT] > 0
                    /\ WMULT_CONST \in Nat /\ WMULT_CONST + 1 = pow2[WMULT_SHIFT]
  <1>1. WMULT_SHIFT \in Nat \ {0}
    BY WeightAssumption, Zenon
  <1>2. WMULT_SHIFT \in Nat /\ WMULT_SHIFT > 0
    BY <1>1
  <1> DEFINE p == pow2[WMULT_SHIFT]
  <1>3. p \in Nat /\ p > 0 /\ WMULT_CONST = p - 1
    BY <1>2, PowType, Zenon DEF WMULT_CONST
  <1> HIDE DEF p
  <1>4. p - 1 \in Nat /\ (p - 1) + 1 = p
    BY <1>3
  <1> QED BY <1>2, <1>3, <1>4, Zenon DEF p

(* The loops of calc_delta stop at the least shift after which fact fits. *)
LEMMA HalvingsFacts ==
  ASSUME NEW fact \in Nat, NEW k \in Nat, k <= 2 * WMULT_SHIFT, fact \div pow2[k] <= WMULT_CONST
  PROVE  /\ halvings(fact) \in Nat /\ halvings(fact) <= k
         /\ fact \div pow2[halvings(fact)] <= WMULT_CONST
         /\ \A m \in 0..(halvings(fact) - 1) : fact \div pow2[m] > WMULT_CONST
  <1> DEFINE I == 0..(2 * WMULT_SHIFT)
             T == {i \in I : fact \div pow2[i] <= WMULT_CONST}
             q(i) == fact \div pow2[i]
             First(n) == /\ q(n) <= WMULT_CONST
                         /\ \A m \in 0..(n - 1) : q(m) > WMULT_CONST
  <1>1. WMULT_SHIFT \in Nat /\ WMULT_CONST \in Nat
    BY ConstFacts, Zenon
  <1>2. I \subseteq Nat /\ k \in I
    BY <1>1
  <1>3. \A i \in Nat : q(i) \in Nat
    BY PowType, DivFacts, Zenon
  <1>4. PICK n \in T : \A i \in T : n <= i
    <2>1. T \subseteq Nat /\ T # {}
      BY <1>2, Zenon
    <2> HIDE DEF T
    <2> QED BY <2>1, Least, Zenon
  <1>5. n \in I /\ n \in Nat /\ q(n) <= WMULT_CONST
    BY <1>2, Zenon
  <1>6. \A m \in 0..(n - 1) : m \in I /\ m \in Nat /\ ~(n <= m)
    BY <1>1, <1>5
  <1>7. \A m \in 0..(n - 1) : q(m) > WMULT_CONST
    <2>1. \A m \in 0..(n - 1) : ~(q(m) <= WMULT_CONST)
      BY <1>4, <1>6, Zenon
    <2> HIDE DEF q
    <2> QED BY <1>1, <1>3, <1>6, <2>1
  <1> DEFINE h == halvings(fact)
  <1>8. h = CHOOSE i \in I : First(i)
    BY Zenon DEF halvings
  <1>9. h \in I /\ First(h)
    <2> HIDE DEF I, q, h
    <2> QED BY <1>5, <1>7, <1>8, Zenon
  <1>10. h \in Nat
    <2> HIDE DEF h
    <2> QED BY <1>2, <1>9, Zenon
  <1>11. h <= k
    <2> HIDE DEF h, q
    <2> SUFFICES ASSUME ~(h <= k) PROVE FALSE
      BY Zenon
    <2>1. k \in 0..(h - 1)
      BY <1>10
    <2>2. q(k) > WMULT_CONST
      BY <1>9, <2>1, Zenon
    <2>3. q(k) <= WMULT_CONST
      BY Zenon DEF q
    <2> QED BY <1>1, <1>3, <2>2, <2>3
  <1> QED BY <1>9, <1>10, <1>11, Zenon

(***************************************************************************)
(* What the loops of calc_delta leave: fact is weight times the inverse of *)
(* lw, shifted by m <= WMULT_SHIFT bits, and by none when it fits.         *)
(***************************************************************************)
Shifted(weight, lw, inv, m) ==
  /\ m <= WMULT_SHIFT
  /\ scaled(weight, lw) = [fact |-> (weight * inv) \div pow2[m], shift |-> WMULT_SHIFT - m]
  /\ inv * lw <= WMULT_CONST /\ WMULT_CONST < inv * lw + lw
  /\ m # 0 => pow2[WMULT_SHIFT] * pow2[m] <= 2 * (weight * inv)
  /\ weight * inv <= WMULT_CONST => m = 0

LEMMA ScaledFacts ==
  ASSUME NEW w \in Nat, NEW lw \in Nat, w <= WMULT_CONST, lw > 0, lw <= WMULT_CONST
  PROVE  \E inv \in Nat, m \in Nat : Shifted(w, lw, inv, m)
  <1> DEFINE S == WMULT_SHIFT
             C == WMULT_CONST
             P == pow2[S]
             inv == C \div lw
             f == w * inv
             m == halvings(f)
  <1>1. S \in Nat /\ S > 0 /\ P \in Nat /\ P > 0 /\ C \in Nat /\ C + 1 = P
    BY ConstFacts, Zenon
  <1>2. inv_weight(lw) = inv
    <2>1. lw # 0
      OBVIOUS
    <2> QED BY <2>1, Zenon DEF inv_weight
  <1>3. inv \in Nat /\ inv * lw <= C /\ C < inv * lw + lw
    BY <1>1, DivFacts, Zenon
  <1>4. halvings(w) = 0 /\ w \div pow2[0] = w
    <2>1. w \div 1 = w
      OBVIOUS
    <2>2. w \div pow2[0] <= WMULT_CONST
      BY <2>1, PowNext, Zenon
    <2>3. 0 \in Nat /\ 0 <= 2 * WMULT_SHIFT
      BY <1>1
    <2>4. halvings(w) \in Nat /\ halvings(w) <= 0
      BY <2>2, <2>3, HalvingsFacts, Zenon
    <2>5. halvings(w) = 0
      BY <2>4
    <2> QED BY <2>1, <2>5, PowNext, Zenon
  <1> HIDE DEF inv, P, C, S
  <1>5. inv <= C
    <2>1. inv * 1 <= inv * lw
      BY <1>3
    <2>2. inv * lw \in Nat
      BY <1>3
    <2> QED BY <1>1, <1>3, <2>1, <2>2
  <1>6. f \in Nat
    BY <1>3
  <1> HIDE DEF f
  <1>7. f \div P \in Nat /\ f \div P <= C
    <2> DEFINE q == f \div P
    <2>1. q \in Nat /\ q * P <= f
      BY <1>1, <1>6, DivFacts, Zenon
    <2> HIDE DEF q
    <2>2. w * inv <= C * inv
      BY <1>1, <1>3, MulMono, Zenon DEF C
    <2>3. inv * C <= P * C
      <3>1. inv <= P
        BY <1>1, <1>3, <1>5
      <3> QED BY <1>1, <1>3, <3>1, MulMono, Zenon
    <2>4. C * inv = inv * C /\ P * C = C * P /\ q * P \in Nat /\ C * P \in Nat /\ inv * C \in Nat
      BY <1>1, <1>3, <2>1, MulNat, Zenon
    <2>5. f <= inv * C
      BY <2>2, <2>4, Zenon DEF f
    <2> DEFINE x == q * P
               y == C * P
               z == inv * C
    <2>6. x <= f /\ f <= z /\ z <= y /\ x \in Nat /\ y \in Nat /\ z \in Nat
      BY <2>1, <2>3, <2>4, <2>5, Zenon
    <2> HIDE DEF x, y, z
    <2>7. x <= y
      BY <1>6, <2>6
    <2>8. q <= C
      BY <1>1, <2>1, <2>7, MulCancel, Zenon DEF x, y
    <2> QED BY <2>1, <2>8, Zenon DEF q
  <1>8. /\ m \in Nat /\ m <= S
        /\ \A i \in 0..(m - 1) : f \div pow2[i] > C
    <2>1. S <= 2 * WMULT_SHIFT
      BY <1>1 DEF S
    <2>2. f \div pow2[S] <= WMULT_CONST
      BY <1>7, Zenon DEF P, C
    <2> QED BY <1>1, <1>6, <2>1, <2>2, HalvingsFacts, Zenon DEF C
  <1>9. scaled(w, lw) = [fact |-> (w * inv) \div pow2[m], shift |-> S - m]
    <2>1. scaled(w, lw) = [fact |-> f \div pow2[m], shift |-> S - 0 - m]
      BY <1>2, <1>4, Zenon DEF scaled, f, S
    <2>2. S - 0 - m = S - m
      BY <1>1, <1>8
    <2> QED BY <2>1, <2>2, Zenon DEF f
  <1> HIDE DEF m
  <1>10. ASSUME m # 0 PROVE P * pow2[m] <= 2 * f
    <2> DEFINE i == m - 1
               u == pow2[i]
               q == f \div u
    <2>1. i \in Nat /\ i \in 0..(m - 1) /\ i + 1 = m
      BY <1>8, <1>10
    <2>2. u \in Nat /\ u > 0 /\ pow2[m] = 2 * u
      BY <2>1, PowType, PowNext, Zenon
    <2>3. q > C
      BY <1>8, <2>1, Zenon
    <2> HIDE DEF i, u
    <2>4. q \in Nat /\ q * u <= f
      BY <1>6, <2>2, DivFacts, Zenon
    <2> HIDE DEF q
    <2>5. P <= q
      BY <1>1, <2>3, <2>4
    <2>6. P * u <= q * u
      BY <1>1, <2>2, <2>4, <2>5, MulMono, Zenon
    <2>7. P * u <= f
      <3> DEFINE x == P * u
                 y == q * u
      <3>1. x \in Nat /\ y \in Nat /\ x <= y /\ y <= f
        BY <1>1, <2>2, <2>4, <2>6, MulNat, Zenon
      <3> HIDE DEF x, y
      <3>2. x <= f
        BY <1>6, <3>1
      <3> QED BY <3>2, Zenon DEF x
    <2>8. P * (2 * u) = 2 * (P * u)
      BY <1>1, <2>2
    <2>9. 2 * (P * u) <= 2 * f
      <3> DEFINE x == P * u
      <3>1. x \in Nat /\ x <= f
        BY <1>1, <2>2, <2>7, MulNat, Zenon
      <3> HIDE DEF x
      <3>2. 2 * x <= 2 * f
        BY <1>6, <3>1
      <3> QED BY <3>2, Zenon DEF x
    <2> QED BY <2>2, <2>8, <2>9, Zenon
  <1>11. f <= C => m = 0
    <2> SUFFICES ASSUME f <= C PROVE m = 0
      BY Zenon
    <2>1. f \div 1 = f
      BY <1>6
    <2>2. f \div pow2[0] <= WMULT_CONST
      BY <2>1, PowNext, Zenon DEF C
    <2>3. 0 \in Nat /\ 0 <= 2 * WMULT_SHIFT
      BY <1>1 DEF S
    <2>4. m <= 0
      BY <1>6, <2>2, <2>3, HalvingsFacts, Zenon DEF m
    <2> QED BY <1>8, <2>4
  <1>12. Shifted(w, lw, inv, m)
    BY <1>3, <1>8, <1>9, <1>10, <1>11, Zenon DEF Shifted, S, P, C, f
  <1> QED BY <1>3, <1>8, <1>12, Zenon

(* calc_delta(d, w, lw) against the quotient d * w / lw. *)
LEMMA DeltaFacts ==
  ASSUME NEW d \in Nat, NEW w \in Nat, NEW lw \in Nat,
         w <= WMULT_CONST, lw > 0, lw <= WMULT_CONST
  PROVE  /\ calc_delta(d, w, lw) \in Nat
         /\ calc_delta(d, w, lw) * lw <= d * w
         /\ (d * w) \div lw
              <= calc_delta(d, w, lw) + ((3 * d) * w) \div pow2[WMULT_SHIFT] + 1
  <1> DEFINE S == WMULT_SHIFT
             C == WMULT_CONST
             P == pow2[S]
  <1>1. S \in Nat /\ S > 0 /\ P \in Nat /\ P > 0 /\ C \in Nat /\ C + 1 = P
    BY ConstFacts, Zenon
  <1>2. PICK inv \in Nat, m \in Nat : Shifted(w, lw, inv, m)
    BY ScaledFacts, Zenon
  <1> DEFINE M == pow2[m]
             Q == pow2[S - m]
             f == w * inv
             fact == f \div M
             r == (d * fact) \div Q
             k == ((3 * d) * w) \div P
             e == (d * w) \div lw
             X == IF m = 0 THEN 0 ELSE M
  <1>3. m <= S /\ inv * lw <= C /\ C < inv * lw + lw /\ (m # 0 => P * M <= 2 * f)
    BY <1>2, Zenon DEF Shifted
  <1>4. S - m \in Nat /\ (S - m) + m = S
    BY <1>1, <1>3
  <1>5. M \in Nat /\ M > 0 /\ Q \in Nat /\ Q > 0
    BY <1>4, PowType, Zenon
  <1>6. Q * M = P
    BY <1>4, PowSum, Zenon
  <1>7. calc_delta(d, w, lw) = r
    <2> DEFINE s == scaled(w, lw)
    <2>1. s = [fact |-> (w * inv) \div pow2[m], shift |-> WMULT_SHIFT - m]
      BY <1>2, Zenon DEF Shifted
    <2>2. s.fact = fact /\ s.shift = S - m
      BY <2>1
    <2>3. calc_delta(d, w, lw) = (d * s.fact) \div pow2[s.shift]
      BY Zenon DEF calc_delta
    <2> HIDE DEF s
    <2> QED BY <2>2, <2>3, Zenon
  <1>8. m = 0 => M = 1
    BY PowNext, Zenon
  <1> HIDE DEF P, C, S, M, Q
  <1>9. f \in Nat /\ d * w \in Nat /\ (3 * d) * w \in Nat /\ inv * lw \in Nat
    OBVIOUS
  <1> HIDE DEF f
  <1>10. fact \in Nat /\ fact * M <= f /\ f < fact * M + M
    BY <1>5, <1>9, DivFacts, Zenon
  <1>11. m = 0 => fact = f
    BY <1>8, <1>9
  <1> HIDE DEF fact
  <1>12. d * fact \in Nat
    BY <1>10
  <1>13. r \in Nat /\ r * Q <= d * fact /\ d * fact < r * Q + Q
    BY <1>5, <1>12, DivFacts, Zenon
  <1>14. e \in Nat /\ e * lw <= d * w
    BY <1>9, DivFacts, Zenon
  <1>15. k \in Nat /\ (3 * d) * w < k * P + P
    BY <1>1, <1>9, DivFacts, Zenon
  <1>16. inv * lw <= P /\ P <= inv * lw + lw
    BY <1>1, <1>3, <1>9
  <1>17. X \in Nat /\ f <= fact * M + X
    <2>1. fact * M \in Nat
      BY <1>5, <1>10
    <2>2. CASE m = 0
      <3>1. X = 0 /\ M = 1 /\ fact = f
        BY <1>8, <1>11, <2>2, Zenon
      <3> QED BY <1>9, <3>1
    <2>3. CASE m # 0
      <3>1. X = M
        BY <2>3, Zenon
      <3> QED BY <1>5, <1>9, <1>10, <2>1, <3>1
    <2> QED BY <2>2, <2>3, Zenon
  <1>18. X <= 2 * w
    <2>1. CASE m = 0
      BY <2>1
    <2>2. CASE m # 0
      <3>1. X = M /\ P * M <= 2 * f
        BY <1>3, <2>2, Zenon
      <3>2. inv <= P
        <4>1. inv * 1 <= inv * lw
          OBVIOUS
        <4> QED BY <1>1, <1>9, <1>16, <4>1
      <3>3. inv * w <= P * w
        BY <1>1, <3>2, MulMono, Zenon
      <3>4. f = inv * w /\ P * w \in Nat /\ P * M \in Nat
        BY <1>1, <1>5 DEF f
      <3>5. P * M <= 2 * (P * w)
        <4> DEFINE x == P * M
                   y == P * w
        <4>1. x \in Nat /\ y \in Nat /\ x <= 2 * f /\ f <= y
          BY <3>1, <3>3, <3>4, Zenon
        <4> HIDE DEF x, y
        <4>2. x <= 2 * y
          BY <1>9, <4>1
        <4> QED BY <4>2, Zenon DEF x, y
      <3>6. M * P <= (2 * w) * P
        <4>1. M * P = P * M /\ (2 * w) * P = 2 * (P * w)
          BY <1>1, <1>5
        <4> QED BY <3>5, <4>1, Zenon
      <3>7. M <= 2 * w
        <4> DEFINE y == 2 * w
        <4>1. y \in Nat
          OBVIOUS
        <4>2. M * P <= y * P
          BY <3>6, Zenon
        <4> HIDE DEF y
        <4>3. M <= y
          BY <1>1, <1>5, <4>1, <4>2, MulCancel, Zenon
        <4> QED BY <4>3, Zenon DEF y
      <3> QED BY <3>1, <3>7, Zenon
    <2> QED BY <2>1, <2>2, Zenon
  <1> HIDE DEF r, e, k, X
  <1>19. r * lw <= d * w
    BY <1>1, <1>5, <1>6, <1>10, <1>13, <1>16, DeltaUpper, SMTT(30) DEF f
  <1>20. e <= r + k + 1
    BY <1>1, <1>5, <1>6, <1>10, <1>13, <1>14, <1>15, <1>16, <1>17, <1>18, DeltaLower, SMTT(30) DEF f
  <1> QED BY <1>7, <1>13, <1>19, <1>20, Zenon DEF e, k, P, S
-----------------------------------------------------------------------------
(* The load of a queue of n tasks, and the weights of its tasks. *)
LEMMA TotalIsSum ==
  ASSUME NEW n \in Nat, NEW W, DOMAIN W = 1..n
  PROVE  \E it : IsSum(it, W, 1..n) /\ total(W) = it[1..n]
  <1> DEFINE D == 1..n
             raw(it, s) == IF s = {} THEN 0
                           ELSE W[CHOOSE x \in s : TRUE] + it[s \ {CHOOSE x \in s : TRUE}]
             sum == CHOOSE it : it = [s \in SUBSET D |-> raw(it, s)]
  <1>1. ASSUME NEW it PROVE it = [s \in SUBSET D |-> raw(it, s)] <=> IsSum(it, W, D)
    BY Zenon DEF IsSum, SumStep, pick
  <1>2. total(W) = sum[D]
    BY Zenon DEF total, MapThenSumSet, MapThenFoldSet
  <1>3. IsFiniteSet(D)
    BY FS_Interval
  <1> HIDE DEF raw, D
  <1>4. PICK it : IsSum(it, W, D)
    BY <1>3, SumExists, Zenon
  <1>5. sum = [s \in SUBSET D |-> raw(sum, s)]
    BY <1>1, <1>4, Zenon
  <1> HIDE DEF sum
  <1>6. IsSum(sum, W, D)
    BY <1>1, <1>5, Zenon
  <1> QED BY <1>2, <1>6, Zenon DEF D

LEMMA TotalBounds ==
  ASSUME NEW n \in Nat, NEW c \in Nat, NEW W, DOMAIN W = 1..n,
         \A i \in 1..n : W[i] \in Nat /\ W[i] <= c
  PROVE  total(W) \in Nat /\ total(W) <= c * n /\ \A i \in 1..n : W[i] <= total(W)
  <1> DEFINE D == 1..n
  <1>1. IsFiniteSet(D)
    BY FS_Interval
  <1>2. Cardinality(D) = n
    <2>1. 1 \in Int /\ n \in Int /\ ~(1 > n /\ n # 0) /\ n - 1 + 1 = n
      OBVIOUS
    <2>2. Cardinality(1..n) = IF 1 > n THEN 0 ELSE n - 1 + 1
      BY FS_Interval
    <2> QED BY <2>1, <2>2
  <1>3. PICK it : IsSum(it, W, D) /\ total(W) = it[D]
    BY TotalIsSum, Zenon
  <1>4. Bounded(W, c, D)
    BY Zenon DEF Bounded
  <1> HIDE DEF D
  <1>5. \A A \in SUBSET D : /\ it[A] \in Nat /\ it[A] <= c * Cardinality(A)
                            /\ \A a \in A : W[a] <= it[A]
    BY <1>1, <1>3, <1>4, SumBounds, SMTT(30)
  <1> QED BY <1>2, <1>3, <1>5, Zenon DEF D

LEMMA TotalRatio ==
  ASSUME NEW n \in Nat, NEW a \in Nat, NEW b \in Nat,
         NEW V, DOMAIN V = 1..n, NEW W, DOMAIN W = 1..n, Ratio(a, V, b, W, 1..n)
  PROVE  total(V) \in Nat /\ total(W) \in Nat /\ a * total(V) <= b * total(W)
  <1> DEFINE D == 1..n
  <1>1. IsFiniteSet(D)
    BY FS_Interval
  <1>2. PICK it : IsSum(it, V, D) /\ total(V) = it[D]
    BY TotalIsSum, Zenon
  <1>3. PICK jt : IsSum(jt, W, D) /\ total(W) = jt[D]
    BY TotalIsSum, Zenon
  <1>4. Ratio(a, V, b, W, D)
    BY Zenon
  <1> HIDE DEF D
  <1>5. \A A \in SUBSET D : it[A] \in Nat /\ jt[A] \in Nat /\ a * it[A] <= b * jt[A]
    BY <1>1, <1>2, <1>3, <1>4, SumRatio, SMTT(30)
  <1> QED BY <1>2, <1>3, <1>5, Zenon

(* A queue of n tasks: each has a weight, and so has the queue. *)
LEMMA WeightsFacts ==
  ASSUME NEW n \in 1..Cardinality(Task), NEW W \in Weights(n)
  PROVE  /\ n \in Nat /\ n > 0 /\ DOMAIN W = 1..n
         /\ total(W) \in Nat /\ total(W) > 0 /\ total(W) <= WMULT_CONST
         /\ \A i \in 1..n : /\ W[i] \in Nat /\ W[i] > 0
                            /\ W[i] <= WMULT_CONST /\ W[i] <= total(W)
  <1> DEFINE K == Cardinality(Task)
             C == WMULT_CONST
             c == C \div K
  <1>1. K \in Nat
    BY WeightAssumption, FS_CardinalityType, Zenon
  <1>2. C \in Nat
    BY ConstFacts, Zenon
  <1>3. n \in 1..K
    BY Zenon
  <1>4. DOMAIN W = 1..n
    BY Zenon DEF Weights
  <1> HIDE DEF K, C
  <1>5. n \in Nat /\ n > 0 /\ n <= K /\ K > 0 /\ 1 \in 1..n
    BY <1>1, <1>3
  <1>6. c \in Nat /\ c * K <= C
    BY <1>1, <1>2, <1>5, DivFacts, Zenon
  <1>7. ASSUME NEW i \in 1..n PROVE W[i] \in Nat /\ W[i] > 0 /\ W[i] <= C /\ W[i] <= c
    <2> DEFINE w == W[i]
    <2>1. PICK nice \in Nice : w = nice_to_weight(nice)
      BY Zenon DEF Weights
    <2>2. nice \in -20..19 /\ K * w <= C
      BY <2>1, WeightAssumption, Zenon DEF K, C
    <2>3. w \in Nat /\ w > 0
      BY <2>1, <2>2, NiceWeights, Zenon
    <2> HIDE DEF w
    <2>4. 1 * w <= K * w
      <3>1. 1 \in Nat /\ 1 <= K
        BY <1>1, <1>5
      <3> QED BY <1>1, <2>3, <3>1, MulMono, Zenon
    <2>5. w <= C
      <3> DEFINE x == K * w
      <3>1. x \in Nat /\ 1 * w <= x /\ x <= C
        BY <1>1, <2>2, <2>3, <2>4, MulNat, Zenon
      <3> HIDE DEF x
      <3> QED BY <1>2, <2>3, <3>1
    <2>6. w <= c
      <3>1. C < c * K + K
        BY <1>1, <1>2, <1>5, DivFacts, Zenon
      <3> HIDE DEF c
      <3>2. c * K + K = (c + 1) * K /\ K * w = w * K
        BY <1>1, <1>6, <2>3
      <3> DEFINE x == w * K
                 y == (c + 1) * K
      <3>3. x \in Nat /\ y \in Nat
        BY <1>1, <1>6, <2>3
      <3>4. x <= C /\ C < y
        BY <2>2, <3>1, <3>2, Zenon
      <3> HIDE DEF x, y
      <3>5. x < y
        BY <1>2, <3>3, <3>4
      <3>6. c + 1 \in Nat
        BY <1>6
      <3>7. w < c + 1
        BY <1>1, <1>5, <2>3, <3>5, <3>6, MulCancel, Zenon DEF x, y
      <3> QED BY <1>6, <2>3, <3>7
    <2> QED BY <2>3, <2>5, <2>6, Zenon DEF w
  <1> HIDE DEF c
  <1>8. total(W) \in Nat /\ total(W) <= c * n /\ \A i \in 1..n : W[i] <= total(W)
    BY <1>4, <1>5, <1>6, <1>7, TotalBounds, Zenon
  <1> DEFINE t == total(W)
             v == W[1]
             x == c * n
             y == c * K
  <1>9. x <= y
    <2>1. n * c <= K * c
      BY <1>1, <1>5, <1>6, MulMono, Zenon
    <2> QED BY <1>1, <1>5, <1>6, <2>1, MulNat, Zenon
  <1>10. x \in Nat /\ y \in Nat
    BY <1>1, <1>5, <1>6, MulNat, Zenon
  <1>11. t \in Nat /\ t <= x /\ y <= C /\ v \in Nat /\ v > 0 /\ v <= t
    BY <1>5, <1>6, <1>7, <1>8, Zenon
  <1> HIDE DEF t, v, x, y
  <1>12. t > 0 /\ t <= C
    BY <1>2, <1>9, <1>10, <1>11
  <1> QED BY <1>4, <1>5, <1>7, <1>8, <1>12, Zenon DEF t, C

(* calc_delta is exact but for truncations on all loads that fit. *)
LEMMA ExactDelta ==
  ASSUME NEW d \in Nat, NEW w \in Nat, NEW lw \in Nat,
         w <= WMULT_CONST, lw > 0, lw <= WMULT_CONST
  PROVE  Exact(d, w, lw)
  <1> DEFINE r == calc_delta(d, w, lw)
             e == (d * w) \div lw
             k == ((3 * d) * w) \div pow2[WMULT_SHIFT]
  <1>1. r \in Nat /\ r * lw <= d * w /\ e <= r + k + 1
    BY DeltaFacts, Zenon
  <1>2. d * w \in Nat /\ (3 * d) * w \in Nat
    OBVIOUS
  <1>3. e \in Nat /\ k \in Nat
    BY <1>2, ConstFacts, DivFacts, Zenon
  <1>4. r <= e
    <2> HIDE DEF r
    <2> QED BY <1>1, <1>2, DivLower, Zenon
  <1>5. short(d, w) = 2 + k
    BY Zenon DEF short
  <1> HIDE DEF r, e, k
  <1>6. e - r <= 2 + k
    BY <1>1, <1>3
  <1> QED BY <1>4, <1>5, <1>6, Zenon DEF Exact, r, e

(* "Therefore our shift will also be positive": a task weighs no more than *)
(* its queue.                                                              *)
LEMMA ShiftOfPart ==
  ASSUME NEW w \in Nat, NEW lw \in Nat, w <= lw, lw > 0, lw <= WMULT_CONST
  PROVE  scaled(w, lw).shift = WMULT_SHIFT
  <1> DEFINE C == WMULT_CONST
  <1>1. C \in Nat /\ WMULT_SHIFT \in Nat
    BY ConstFacts, Zenon
  <1>2. w <= C
    BY <1>1
  <1>3. PICK inv \in Nat, m \in Nat : Shifted(w, lw, inv, m)
    BY <1>2, ScaledFacts, Zenon
  <1>4. inv * lw <= C /\ (w * inv <= C => m = 0)
    BY <1>3, Zenon DEF Shifted
  <1> HIDE DEF C
  <1>5. w * inv <= lw * inv
    BY MulMono, Zenon
  <1> DEFINE x == w * inv
             y == inv * lw
  <1>6. x \in Nat /\ y \in Nat /\ x <= y
    BY <1>5, MulNat
  <1>7. y <= C /\ (x <= C => m = 0)
    BY <1>4, Zenon
  <1> HIDE DEF x, y
  <1>8. m = 0
    BY <1>1, <1>6, <1>7
  <1> DEFINE f == (w * inv) \div pow2[m]
  <1>9. scaled(w, lw) = [fact |-> f, shift |-> WMULT_SHIFT - m]
    BY <1>3, Zenon DEF Shifted
  <1> HIDE DEF f
  <1> QED BY <1>1, <1>8, <1>9

(* "NICE_0_LOAD gives another 10 bits": what is left when weight is 1024. *)
LEMMA ShiftOfNice0 ==
  ASSUME NEW lw \in Nat, lw > 0, lw <= WMULT_CONST
  PROVE  scaled(NICE_0_WEIGHT, lw).shift \in Int /\ scaled(NICE_0_WEIGHT, lw).shift >= WMULT_SHIFT - 10
  <1> DEFINE w == NICE_0_WEIGHT
             C == WMULT_CONST
             P == pow2[WMULT_SHIFT]
  <1>1. C \in Nat /\ WMULT_SHIFT \in Nat /\ P \in Nat /\ P > 0 /\ C + 1 = P
    BY ConstFacts, Zenon
  <1>2. w = 1024
    BY Nice0, Zenon
  <1>3. PICK inv \in Nat, m \in Nat : Shifted(w, lw, inv, m)
    <2>1. w <= C
      BY WeightAssumption, Zenon
    <2> HIDE DEF w
    <2>2. w \in Nat
      BY <1>2
    <2> QED BY <2>1, <2>2, ScaledFacts, Zenon
  <1> DEFINE M == pow2[m]
  <1>4. inv * lw <= C /\ (m # 0 => P * M <= 2 * (w * inv))
    BY <1>3, Zenon DEF Shifted
  <1> DEFINE f == (w * inv) \div pow2[m]
  <1>5. scaled(w, lw) = [fact |-> f, shift |-> WMULT_SHIFT - m]
    BY <1>3, Zenon DEF Shifted
  <1>6. M \in Nat
    BY PowType, Zenon
  <1> HIDE DEF f, w, C, P, M
  <1>7. inv < P
    <2>1. inv * 1 <= inv * lw /\ inv * lw \in Nat
      OBVIOUS
    <2> QED BY <1>1, <1>4, <2>1
  <1>8. m # 0 => M < 2048
    <2> DEFINE y == 2048
    <2> SUFFICES ASSUME m # 0 PROVE M < y
      BY Zenon
    <2>1. P * M <= 2 * (w * inv)
      BY <1>4, Zenon
    <2>2. M * P < y * P
      BY <1>1, <1>2, <1>6, <1>7, <2>1, MulNat
    <2>3. y \in Nat
      OBVIOUS
    <2> HIDE DEF y
    <2> QED BY <1>1, <1>6, <2>2, <2>3, MulCancel, Zenon
  <1>9. m <= 10
    <2> SUFFICES ASSUME ~(m <= 10) PROVE FALSE
      BY Zenon
    <2>1. /\ pow2[0] = 1 /\ pow2[1] = 2 /\ pow2[2] = 4 /\ pow2[3] = 8 /\ pow2[4] = 16
          /\ pow2[5] = 32 /\ pow2[6] = 64 /\ pow2[7] = 128 /\ pow2[8] = 256
          /\ pow2[9] = 512 /\ pow2[10] = 1024 /\ pow2[11] = 2048
      BY PowNext
    <2> DEFINE j == m - 11
               u == pow2[j]
    <2>2. j \in Nat /\ j + 11 = m /\ 11 \in Nat
      OBVIOUS
    <2>3. u \in Nat /\ u > 0
      BY <2>2, PowType, Zenon
    <2> HIDE DEF j
    <2>4. M = u * pow2[11]
      <3>1. pow2[j + 11] = pow2[j] * pow2[11]
        BY <2>2, PowSum, Zenon
      <3> QED BY <2>2, <3>1, Zenon DEF M
    <2> HIDE DEF u
    <2>5. M >= 2048
      BY <2>1, <2>3, <2>4
    <2> QED BY <1>6, <1>8, <2>5
  <1> QED BY <1>1, <1>5, <1>9 DEF w

(* The sizes that the run queue may report while its count is right. *)
LEMMA CountBounded == CountRight => nr_running \in 1..Cardinality(Task)
  <1> SUFFICES ASSUME CountRight PROVE nr_running \in 1..Cardinality(Task)
    BY Zenon
  <1>1. nr_running > 0 /\ nr_running = Cardinality(counted)
    BY Zenon DEF CountRight
  <1>2. counted \subseteq Task
    BY Zenon DEF counted
  <1>3. IsFiniteSet(Task)
    BY WeightAssumption, Zenon
  <1>4. /\ Cardinality(counted) \in Nat /\ Cardinality(Task) \in Nat
        /\ Cardinality(counted) <= Cardinality(Task)
    BY <1>2, <1>3, FS_Subset, FS_CardinalityType, Zenon
  <1> QED BY <1>1, <1>4

LEMMA PeriodFacts ==
  ASSUME NEW n \in Nat
  PROVE  sched_period(n) \in Nat /\ SCHED_MIN_GRANULARITY \in Nat /\ SCHED_MIN_GRANULARITY > 0
         /\ SCHED_MIN_GRANULARITY * n <= sched_period(n)
  <1> DEFINE g == SCHED_MIN_GRANULARITY
             l == SCHED_NR_LATENCY
  <1>1. g \in Nat \ {0} /\ l \in Nat \ {0}
    BY WeightAssumption, Zenon
  <1>2. sched_period(n) = IF n > l THEN n * g ELSE l * g
    BY Zenon DEF sched_period, SCHED_LATENCY
  <1> HIDE DEF g, l
  <1>3. g \in Nat /\ g > 0 /\ l \in Nat
    BY <1>1
  <1>4. n * g \in Nat /\ l * g \in Nat /\ g * n = n * g /\ n * g <= n * g
    BY <1>3
  <1>5. ~(n > l) => n * g <= l * g
    <2>1. ~(n > l) => n <= l
      BY <1>3
    <2> QED BY <1>3, <2>1, MulMono, Zenon
  <1>6. CASE n > l
    BY <1>2, <1>3, <1>4, <1>6, Zenon DEF g
  <1>7. CASE ~(n > l)
    BY <1>2, <1>3, <1>4, <1>5, <1>7, Zenon DEF g
  <1> QED BY <1>6, <1>7, Zenon

LEMMA Exacts == \A n \in 1..Cardinality(Task) : n \in ExactSizes
  <1> SUFFICES ASSUME NEW n \in 1..Cardinality(Task), NEW W \in Weights(n), NEW i \in 1..n
               PROVE  /\ scaled(W[i], total(W)).shift > 0
                      /\ scaled(NICE_0_WEIGHT, W[i]).shift >= WMULT_SHIFT - 10
                      /\ \A d \in {0, 1, SCHED_MIN_GRANULARITY, sched_period(n)} :
                           Exact(d, W[i], total(W)) /\ Exact(d, NICE_0_WEIGHT, W[i])
    BY Zenon DEF ExactSizes
  <1> DEFINE w == W[i]
             t == total(W)
             w0 == NICE_0_WEIGHT
  <1>1. /\ n \in Nat /\ t \in Nat /\ t > 0 /\ t <= WMULT_CONST
        /\ w \in Nat /\ w > 0 /\ w <= WMULT_CONST /\ w <= t
    BY WeightsFacts, Zenon
  <1>2. w0 \in Nat /\ w0 <= WMULT_CONST
    BY WeightAssumption, Nice0
  <1> HIDE DEF w, t, w0
  <1>3. scaled(w, t).shift > 0
    <2>1. scaled(w, t).shift = WMULT_SHIFT
      BY <1>1, ShiftOfPart, Zenon
    <2> QED BY <2>1, ConstFacts, Zenon
  <1>4. scaled(w0, w).shift >= WMULT_SHIFT - 10
    BY <1>1, ShiftOfNice0, Zenon DEF w0
  <1>5. ASSUME NEW d \in {0, 1, SCHED_MIN_GRANULARITY, sched_period(n)}
        PROVE  Exact(d, w, t) /\ Exact(d, w0, w)
    <2>1. 0 \in Nat /\ 1 \in Nat
      OBVIOUS
    <2>2. d \in Nat
      BY <1>1, <2>1, PeriodFacts, Zenon
    <2> QED BY <1>1, <1>2, <2>2, ExactDelta, Zenon
  <1> QED BY <1>3, <1>4, <1>5, Zenon DEF w, t, w0

(* A task about to be inserted gets the slice that it has once it is in. *)
LEMMA SliceFacts ==
  ASSUME NEW n \in 1..Cardinality(Task), NEW W \in Weights(n), NEW i \in 1..n
  PROVE  /\ sched_slice(n, total(W), W[i], TRUE) = calc_delta(sched_period(n), W[i], total(W))
         /\ sched_slice(n - 1, total(W) - W[i], W[i], FALSE)
              = calc_delta(sched_period(n), W[i], total(W))
  <1> DEFINE w == W[i]
             t == total(W)
  <1>1. n \in Nat /\ t \in Nat /\ w \in Nat
    BY WeightsFacts, Zenon
  <1> HIDE DEF w, t
  <1>2. (n - 1) + 1 = n /\ (t - w) + w = t
    BY <1>1
  <1>3. sched_slice(n, t, w, TRUE) = calc_delta(sched_period(n), w, t)
    BY Zenon DEF sched_slice
  <1>4. sched_slice(n - 1, t - w, w, FALSE) = calc_delta(sched_period((n - 1) + 1), w, (t - w) + w)
    BY Zenon DEF sched_slice
  <1> QED BY <1>2, <1>3, <1>4, Zenon DEF w, t

LEMMA Fitting == \A n \in 1..Cardinality(Task) : n \in FittingSizes
  <1> SUFFICES ASSUME NEW n \in 1..Cardinality(Task), NEW W \in Weights(n)
               PROVE  LET slice == [i \in 1..n |-> sched_slice(n, total(W), W[i], TRUE)]
                          debit(i) == sched_slice(n - 1, total(W) - W[i], W[i], FALSE)
                      IN  /\ total(slice) <= sched_period(n)
                          /\ \A i \in 1..n : total([slice EXCEPT ![i] = debit(i)]) <= sched_period(n)
                          /\ (\A i \in 1..n : W[i] = W[1]) =>
                               slice[1] + short(sched_period(n), W[1]) >= SCHED_MIN_GRANULARITY
    BY Zenon DEF FittingSizes
  <1> DEFINE t == total(W)
             p == sched_period(n)
             D == 1..n
             slice == [i \in D |-> sched_slice(n, total(W), W[i], TRUE)]
             debit(i) == sched_slice(n - 1, total(W) - W[i], W[i], FALSE)
             g == SCHED_MIN_GRANULARITY
  <1>1. /\ n \in Nat /\ n > 0 /\ t \in Nat /\ t > 0 /\ t <= WMULT_CONST /\ DOMAIN W = D
        /\ \A i \in D : W[i] \in Nat /\ W[i] > 0 /\ W[i] <= WMULT_CONST
    BY WeightsFacts, Zenon
  <1>2. p \in Nat /\ g \in Nat /\ g > 0 /\ g * n <= p
    BY <1>1, PeriodFacts, Zenon
  <1>3. \A i \in D : slice[i] = calc_delta(p, W[i], t) /\ debit(i) = slice[i]
    BY SliceFacts, Zenon
  <1>4. DOMAIN slice = D /\ \A i \in D : [slice EXCEPT ![i] = debit(i)] = slice
    BY <1>3, Zenon
  <1> HIDE DEF slice, debit, p, t
  <1>5. Ratio(t, slice, p, W, D)
    <2> SUFFICES ASSUME NEW i \in D
                 PROVE  slice[i] \in Nat /\ W[i] \in Nat /\ t * slice[i] <= p * W[i]
      BY Zenon DEF Ratio
    <2> DEFINE w == W[i]
               s == slice[i]
    <2>1. w \in Nat /\ w <= WMULT_CONST /\ s = calc_delta(p, w, t)
      BY <1>1, <1>3, Zenon
    <2> HIDE DEF w, s
    <2>2. s \in Nat /\ s * t <= p * w
      BY <1>1, <1>2, <2>1, DeltaFacts, Zenon
    <2>3. t * s = s * t
      BY <1>1, <2>2
    <2> QED BY <2>1, <2>2, <2>3, Zenon DEF w, s
  <1>6. total(slice) <= p
    <2> DEFINE u == total(slice)
    <2>1. u \in Nat /\ t * u <= p * t
      BY <1>1, <1>2, <1>4, <1>5, TotalRatio, Zenon DEF t
    <2> HIDE DEF u
    <2>2. t * u = u * t
      BY <1>1, <2>1
    <2>3. u <= p
      BY <1>1, <1>2, <2>1, <2>2, MulCancel, Zenon
    <2> QED BY <2>3, Zenon DEF u
  <1>7. ASSUME \A i \in D : W[i] = W[1]
        PROVE  slice[1] + short(p, W[1]) >= g
    <2> DEFINE w == W[1]
               s == slice[1]
               e == (p * w) \div t
               x == short(p, w)
    <2>0. 1 \in D
      BY <1>1
    <2>1. w \in Nat /\ w > 0 /\ w <= WMULT_CONST /\ s = calc_delta(p, w, t)
      BY <1>1, <1>3, <2>0, Zenon
    <2>2. \A i \in D : W[i] \in Nat /\ W[i] <= w
      <3> HIDE DEF D
      <3>1. w <= w
        BY <2>1
      <3> QED BY <1>1, <1>7, <3>1, Zenon
    <2>3. t <= w * n
      <3> HIDE DEF w
      <3> QED BY <1>1, <2>1, <2>2, TotalBounds, Zenon DEF t
    <2> HIDE DEF w, s, D, g
    <2>4. s \in Nat /\ e \in Nat /\ x \in Nat
      <3>1. p * w \in Nat /\ (3 * p) * w \in Nat
        BY <1>2, <2>1
      <3>2. ((3 * p) * w) \div pow2[WMULT_SHIFT] \in Nat
        BY <3>1, ConstFacts, DivFacts, Zenon
      <3>3. x = 2 + ((3 * p) * w) \div pow2[WMULT_SHIFT]
        BY Zenon DEF short
      <3>4. x \in Nat
        BY <3>2, <3>3
      <3>5. e \in Nat
        BY <1>1, <3>1, DivFacts, Zenon
      <3>6. s \in Nat
        BY <1>1, <1>2, <2>1, DeltaFacts, Zenon
      <3> QED BY <3>4, <3>5, <3>6, Zenon
    <2>5. e - s <= x
      <3>1. Exact(p, w, t)
        BY <1>1, <1>2, <2>1, ExactDelta, Zenon
      <3> QED BY <2>1, <3>1, Zenon DEF Exact
    <2>6. g <= e
      <3>1. t * g <= (w * n) * g
        <4>1. w * n \in Nat
          BY <1>1, <2>1
        <4> QED BY <1>1, <1>2, <2>3, <4>1, MulMono, Zenon
      <3>2. (g * n) * w <= p * w
        <4>1. g * n \in Nat
          BY <1>1, <1>2
        <4> QED BY <1>2, <2>1, <4>1, MulMono, Zenon
      <3>3. t * g = g * t /\ (w * n) * g = (g * n) * w
        BY <1>1, <1>2, <2>1
      <3> DEFINE a == g * t
                 b == (g * n) * w
                 c == p * w
      <3>4. a \in Nat /\ b \in Nat /\ c \in Nat
        BY <1>1, <1>2, <2>1
      <3>5. a <= b /\ b <= c
        BY <3>1, <3>2, <3>3, Zenon
      <3> HIDE DEF a, b, c
      <3>6. a <= c
        BY <3>4, <3>5
      <3>7. g * t <= c
        BY <3>6, Zenon DEF a
      <3>8. g <= c \div t
        BY <1>1, <1>2, <3>4, <3>7, DivLower, Zenon
      <3> QED BY <3>8, Zenon DEF c
    <2> HIDE DEF e, x
    <2>7. s + x >= g
      BY <1>2, <2>4, <2>5, <2>6 DEF g
    <2> QED BY <2>7, Zenon DEF s, x, w
  <1> QED BY <1>4, <1>6, <1>7, Zenon DEF slice, debit, p

LEMMA Fair == \A n \in 1..Cardinality(Task) : n \in FairSizes
  <1> SUFFICES ASSUME NEW n \in 1..Cardinality(Task), NEW W \in Weights(n), NEW i \in 1..n
               PROVE  LET fair == (sched_period(n) * NICE_0_WEIGHT) \div total(W)
                          vs == sched_vslice(n, total(W), W[i], TRUE)
                      IN  /\ sched_vslice(n - 1, total(W) - W[i], W[i], FALSE) = vs
                          /\ vs <= fair
                          /\ fair - vs
                               <= ((short(sched_period(n), W[i]) + 1) * NICE_0_WEIGHT) \div W[i]
                                    + short(sched_period(n), NICE_0_WEIGHT)
    BY Zenon DEF FairSizes
  <1> DEFINE t == total(W)
             p == sched_period(n)
             w == W[i]
             w0 == NICE_0_WEIGHT
             P == pow2[WMULT_SHIFT]
             s == calc_delta(p, w, t)
             v == weighted(s, w)
             fair == (p * w0) \div t
             x == short(p, w)
             x0 == short(p, w0)
             b == ((x + 1) * w0) \div w
  <1>1. /\ n \in Nat /\ t \in Nat /\ t > 0 /\ t <= WMULT_CONST
        /\ w \in Nat /\ w > 0 /\ w <= WMULT_CONST /\ w <= t
    BY WeightsFacts, Zenon
  <1>2. p \in Nat
    BY <1>1, PeriodFacts, Zenon
  <1>3. w0 \in Nat /\ w0 <= WMULT_CONST
    BY WeightAssumption, Nice0
  <1>4. P \in Nat /\ P > 0
    BY ConstFacts, Zenon
  <1>5. /\ sched_vslice(n, total(W), W[i], TRUE) = v
        /\ sched_vslice(n - 1, total(W) - W[i], W[i], FALSE) = v
    BY SliceFacts, Zenon DEF sched_vslice
  <1> HIDE DEF t, p, w, w0, P
  <1>6. x = 2 + ((3 * p) * w) \div P /\ x0 = 2 + ((3 * p) * w0) \div P
    BY Zenon DEF short, P
  <1>7. p * w0 \in Nat /\ p * w \in Nat /\ (3 * p) * w \in Nat /\ (3 * p) * w0 \in Nat
    BY <1>1, <1>2, <1>3
  <1>8. x \in Nat /\ x0 \in Nat /\ (x + 1) * w0 \in Nat
    <2>1. ((3 * p) * w) \div P \in Nat /\ ((3 * p) * w0) \div P \in Nat
      BY <1>4, <1>7, DivFacts, Zenon
    <2> HIDE DEF x, x0
    <2>2. x \in Nat /\ x0 \in Nat
      BY <1>6, <2>1
    <2> QED BY <1>3, <2>2
  <1> HIDE DEF x, x0
  <1>9. b \in Nat /\ (x + 1) * w0 < b * w + w
    BY <1>1, <1>8, DivFacts, Zenon
  <1>10. fair \in Nat /\ fair * t <= p * w0
    BY <1>1, <1>7, DivFacts, Zenon
  <1>11. s \in Nat /\ s * t <= p * w
    BY <1>1, <1>2, DeltaFacts, Zenon
  <1>12. p * w <= (s + x + 1) * t
    <2> DEFINE e == (p * w) \div t
    <2>1. e - s <= x
      <3>1. Exact(p, w, t)
        BY <1>1, <1>2, ExactDelta, Zenon
      <3> QED BY <3>1, Zenon DEF Exact, x
    <2>2. e \in Nat /\ p * w < e * t + t
      BY <1>1, <1>7, DivFacts, Zenon
    <2> HIDE DEF e, s
    <2>3. e + 1 <= s + x + 1 /\ e + 1 \in Nat /\ s + x + 1 \in Nat
      BY <1>8, <1>11, <2>1, <2>2
    <2>4. (e + 1) * t <= (s + x + 1) * t
      BY <1>1, <2>3, MulMono, Zenon
    <2>5. (e + 1) * t = e * t + t
      BY <1>1, <2>2
    <2> DEFINE y == p * w
               z == e * t + t
               u == (s + x + 1) * t
    <2>6. y \in Nat /\ z \in Nat /\ u \in Nat
      BY <1>1, <1>7, <2>2, <2>3
    <2>7. y < z /\ z <= u
      BY <2>2, <2>4, <2>5, Zenon
    <2> HIDE DEF y, z, u
    <2>8. y <= u
      BY <2>6, <2>7
    <2> QED BY <2>8, Zenon DEF y, u
  <1> HIDE DEF s, fair, b
  <1>13. CASE w = w0
    <2>1. v = s
      BY <1>13, Zenon DEF weighted, w0
    <2>2. Exact(p, w0, t)
      BY <1>1, <1>2, <1>3, ExactDelta, Zenon
    <2>3. s <= fair /\ fair - s <= x0
      BY <1>13, <2>2, Zenon DEF Exact, fair, s, x0
    <2>4. fair - s <= b + x0
      BY <1>8, <1>9, <1>10, <1>11, <2>3
    <2>5. v <= fair /\ fair - v <= b + x0
      BY <2>1, <2>3, <2>4, Zenon
    <2> QED BY <1>5, <2>5, Zenon DEF t, p, w, w0, fair, b, x, x0
  <1>14. CASE w # w0
    <2> DEFINE a == (s * w0) \div w
               k == ((3 * s) * w0) \div P
               k0 == ((3 * p) * w0) \div P
    <2>1. v = calc_delta(s, w0, w)
      BY <1>14, Zenon DEF weighted, w0
    <2> HIDE DEF v
    <2>2. v \in Nat /\ v * w <= s * w0 /\ a <= v + k + 1
      BY <1>1, <1>3, <1>11, <2>1, DeltaFacts, Zenon DEF P
    <2>3. v <= fair
      <3>1. v * t <= p * w0
        BY <1>1, <1>2, <1>3, <1>11, <2>2, FairUpper, Zenon
      <3> QED BY <1>1, <1>7, <2>2, <3>1, DivLower, Zenon DEF fair
    <2>4. s * w0 \in Nat /\ (3 * s) * w0 \in Nat
      BY <1>3, <1>11
    <2>5. a \in Nat /\ s * w0 < a * w + w
      BY <1>1, <2>4, DivFacts, Zenon
    <2>6. fair <= a + b + 1
      BY <1>1, <1>2, <1>3, <1>8, <1>9, <1>10, <1>11, <1>12, <2>5, FairLower, SMTT(30)
    <2>7. s <= p
      <3>1. p * w <= p * t
        BY <1>1, <1>2, MulMono, MulNat
      <3> DEFINE y == s * t
                 z == p * t
                 u == p * w
      <3>2. y \in Nat /\ z \in Nat /\ u \in Nat
        BY <1>1, <1>2, <1>11
      <3>3. y <= u /\ u <= z
        BY <1>11, <3>1, Zenon
      <3> HIDE DEF y, z, u
      <3>4. y <= z
        BY <3>2, <3>3
      <3> QED BY <1>1, <1>2, <1>11, <3>4, MulCancel, Zenon DEF y, z
    <2>8. k <= k0
      <3>1. (3 * s) * w0 <= (3 * p) * w0
        <4>1. 3 * s \in Nat /\ 3 * p \in Nat /\ 3 * s <= 3 * p
          BY <1>2, <1>11, <2>7
        <4> QED BY <1>3, <4>1, MulMono, Zenon
      <3> QED BY <1>4, <1>7, <2>4, <3>1, DivMono, Zenon
    <2>9. k \in Nat /\ k0 \in Nat /\ x0 = 2 + k0
      BY <1>4, <1>6, <1>7, <2>4, DivFacts, Zenon
    <2> HIDE DEF a, k, k0
    <2>10. fair - v <= b + x0
      BY <1>9, <1>10, <2>2, <2>5, <2>6, <2>8, <2>9
    <2> QED BY <1>5, <2>3, <2>10, Zenon DEF t, p, w, w0, fair, b, x, x0, v
  <1> QED BY <1>13, <1>14, Zenon
-----------------------------------------------------------------------------
(* For weights and loads of up to WMULT_SHIFT bits and every run time, the *)
(* shift of calc_delta does not underflow, and the result is               *)
(* delta_exec * weight / lw.weight, never more, and less by truncations    *)
(* only: the two formulas of its documentation agree.                      *)
THEOREM DeltaIsQuotient ==
  \A d \in Nat, w \in 0..WMULT_CONST, lw \in 1..WMULT_CONST :
    scaled(w, lw).shift \in 0..WMULT_SHIFT /\ Exact(d, w, lw)
  <1> SUFFICES ASSUME NEW d \in Nat, NEW w \in 0..WMULT_CONST, NEW lw \in 1..WMULT_CONST
               PROVE  scaled(w, lw).shift \in 0..WMULT_SHIFT /\ Exact(d, w, lw)
    BY Zenon
  <1>1. WMULT_CONST \in Nat /\ WMULT_SHIFT \in Nat
    BY ConstFacts, Zenon
  <1>2. w \in Nat /\ w <= WMULT_CONST /\ lw \in Nat /\ lw > 0 /\ lw <= WMULT_CONST
    BY <1>1
  <1>3. Exact(d, w, lw)
    BY <1>2, ExactDelta, Zenon
  <1>4. PICK inv \in Nat, m \in Nat : Shifted(w, lw, inv, m)
    BY <1>2, ScaledFacts, Zenon
  <1> DEFINE f == (w * inv) \div pow2[m]
  <1>5. m <= WMULT_SHIFT /\ scaled(w, lw) = [fact |-> f, shift |-> WMULT_SHIFT - m]
    BY <1>4, Zenon DEF Shifted
  <1> HIDE DEF f
  <1>6. scaled(w, lw).shift = WMULT_SHIFT - m
    BY <1>5
  <1>7. WMULT_SHIFT - m \in 0..WMULT_SHIFT
    BY <1>1, <1>5
  <1> QED BY <1>3, <1>6, <1>7, Zenon

(* On every queue that the executor forms, of any number of tasks of any   *)
(* nice levels, calc_delta is exact but for truncations, and shift stays   *)
(* positive, as its documentation says.                                    *)
THEOREM DeltaExact == Spec => []CalcDeltaExact
  <1>1. CalcDeltaExact
    BY CountBounded, Exacts, Zenon DEF CalcDeltaExact
  <1> QED BY <1>1, PTL

(* On every such queue the slices of the tasks fit sched_period, tasks of  *)
(* equal weight get the minimal granularity each, and every vruntime       *)
(* advances by the same amount in a period but for truncations.            *)
THEOREM SlicesShare == Spec => []SlicesFair
  <1>1. SlicesFair
    BY CountBounded, Fitting, Fair, Zenon DEF SlicesFair
  <1> QED BY <1>1, PTL
=============================================================================
