--------------------------- MODULE InductionLemmas ---------------------------
(***************************************************************************)
(* Induction and recursion over the natural numbers, stated about sets and *)
(* functions, so that they can be cited like any other fact: the theorems  *)
(* of NaturalsInduction take the formula to be proved as an operator.  To  *)
(* prove P(n) for every n, apply SetInduction to {n \in Nat : P(n)}.       *)
(***************************************************************************)
EXTENDS Integers, FiniteSetTheorems, TLAPS

\* A set of natural numbers has a smallest element.
LEMMA SmallestOfSet ==
  ASSUME NEW T \in SUBSET Nat, T # {}
  PROVE  \E n \in T : \A m \in T : n <= m
<1> DEFINE R == OpToRel(<, Nat)
<1>1. IsWellFoundedOn(R, Nat)
  BY NatLessThanWellFounded, Zenon
<1> HIDE DEF R
<1>2. PICK n \in T : \A m \in T : <<m, n>> \notin R
  BY <1>1, WFMin, Zenon
<1> USE DEF R
<1>3. \A m \in T : ~(m < n)
  BY <1>2 DEF OpToRel
<1> QED
  BY <1>3

\* Induction: a set with 0 and every successor has every natural number.
LEMMA SetInduction ==
  ASSUME NEW S, 0 \in S, \A n \in Nat : n \in S => n + 1 \in S
  PROVE  \A n \in Nat : n \in S
<1> SUFFICES ASSUME NEW n \in Nat, n \notin S PROVE FALSE
  OBVIOUS
<1> DEFINE T == Nat \ S
<1>1. PICK k \in T : \A m \in T : k <= m
  BY SmallestOfSet
<1>2. k # 0 /\ k - 1 \in Nat /\ k - 1 \in S
  BY <1>1
<1> QED
  BY <1>2

\* The n first of a set by rank, or all of it if there are no n.
LEMMA FirstByRank ==
  ASSUME NEW S, NEW rank \in [S -> Nat],
         \A x, y \in S : rank[x] = rank[y] => x = y,
         NEW n \in Nat
  PROVE  \E T \in SUBSET S :
           /\ IsFiniteSet(T)
           /\ Cardinality(T) <= n
           /\ T = S \/ Cardinality(T) = n
           /\ \A x \in T, y \in S \ T : rank[x] < rank[y]
<1> DEFINE First(m, T) ==
             /\ IsFiniteSet(T)
             /\ Cardinality(T) <= m
             /\ T = S \/ Cardinality(T) = m
             /\ \A x \in T, y \in S \ T : rank[x] < rank[y]
           M == {m \in Nat : \E T \in SUBSET S : First(m, T)}
<1>1. 0 \in M
  <2>1. First(0, {})
    BY FS_EmptySet
  <2> QED
    BY <2>1
<1>2. ASSUME NEW m \in Nat, m \in M PROVE m + 1 \in M
  <2>1. PICK T \in SUBSET S : First(m, T)
    BY <1>2
  <2>2. Cardinality(T) \in Nat
    BY <2>1, FS_CardinalityType
  <2>3. CASE T = S
    <3>1. First(m + 1, T)
      BY <2>1, <2>2, <2>3
    <3> QED
      BY <3>1
  <2>4. CASE T # S
    <3> DEFINE Ranks == {rank[x] : x \in S \ T}
    <3>1. Ranks \in SUBSET Nat /\ Ranks # {}
      BY <2>4
    <3> HIDE DEF Ranks
    <3>2. PICK k \in Ranks : \A j \in Ranks : k <= j
      BY <3>1, SmallestOfSet
    <3> USE DEF Ranks
    <3>3. PICK z \in S \ T : rank[z] = k
      BY <3>2
    <3>4. \A y \in S \ T : rank[z] <= rank[y]
      BY <3>2, <3>3
    <3> HIDE DEF Ranks
    <3> DEFINE U == T \cup {z}
    <3>5. IsFiniteSet(U) /\ Cardinality(U) = m + 1
      <4>1. Cardinality(T) = m
        BY <2>1, <2>4
      <4>2. IsFiniteSet(U) /\ Cardinality(U) = IF z \in T THEN Cardinality(T) ELSE Cardinality(T) + 1
        BY <2>1, FS_AddElement
      <4> QED
        BY <3>3, <4>1, <4>2
    <3>6. \A x \in U, y \in S \ U : rank[x] < rank[y]
      <4> SUFFICES ASSUME NEW x \in U, NEW y \in S \ U PROVE rank[x] < rank[y]
        OBVIOUS
      <4>1. CASE x \in T
        BY <2>1, <4>1
      <4>2. CASE x = z
        <5>1. rank[z] <= rank[y] /\ rank[z] # rank[y] /\ rank[z] \in Nat /\ rank[y] \in Nat
          BY <3>3, <3>4
        <5> QED
          BY <4>2, <5>1
      <4> QED
        BY <4>1, <4>2
    <3>7. U \in SUBSET S
      BY <3>3
    <3>8. First(m + 1, U)
      BY <3>5, <3>6
    <3> HIDE DEF U
    <3> QED
      BY <3>7, <3>8
  <2> QED
    BY <2>3, <2>4
<1> HIDE DEF M
<1>3. n \in M
  BY <1>1, <1>2, SetInduction
<1> QED
  BY <1>3 DEF M

\* A set of ranked things has a first.
LEMMA FirstOfSet ==
  ASSUME NEW S, S # {}, NEW rank \in [S -> Nat]
  PROVE  \E x \in S : \A y \in S : rank[x] <= rank[y]
<1> DEFINE Ranks == {rank[x] : x \in S}
<1>1. Ranks \in SUBSET Nat /\ Ranks # {}
  OBVIOUS
<1> HIDE DEF Ranks
<1>2. PICK k \in Ranks : \A j \in Ranks : k <= j
  BY <1>1, SmallestOfSet
<1> USE DEF Ranks
<1> QED
  BY <1>2
-----------------------------------------------------------------------------
(* Iterating a function                                                    *)

\* h is the orbit of x under F, up to n.
Orbit(x, F, n, h) == h[0] = x /\ \A i \in 1..n : h[i] = F[h[i - 1]]

LEMMA OrbitExists ==
  ASSUME NEW X, NEW x \in X, NEW F \in [X -> X], NEW n \in Nat
  PROVE  \E h \in [0..n -> X] : Orbit(x, F, n, h)
<1> DEFINE S == {m \in Nat : \E h \in [0..m -> X] : Orbit(x, F, m, h)}
<1>1. 0 \in S
  <2>1. [i \in 0..0 |-> x] \in [0..0 -> X] /\ Orbit(x, F, 0, [i \in 0..0 |-> x])
    BY DEF Orbit
  <2> QED
    BY <2>1
<1>2. ASSUME NEW m \in Nat, m \in S PROVE m + 1 \in S
  <2>1. PICK h \in [0..m -> X] : Orbit(x, F, m, h)
    BY <1>2
  <2> DEFINE k == [i \in 0..m + 1 |-> IF i = m + 1 THEN F[h[m]] ELSE h[i]]
  <2>2. k \in [0..m + 1 -> X]
    OBVIOUS
  <2>3. k[0] = x
    BY <2>1 DEF Orbit
  <2>4. ASSUME NEW i \in 1..m + 1 PROVE k[i] = F[k[i - 1]]
    <3>1. CASE i = m + 1
      BY <3>1
    <3>2. CASE i # m + 1
      BY <2>1, <3>2 DEF Orbit
    <3> QED
      BY <3>1, <3>2
  <2>5. Orbit(x, F, m + 1, k)
    BY <2>3, <2>4 DEF Orbit
  <2> HIDE DEF k
  <2> QED
    BY <2>2, <2>5
<1> HIDE DEF S
<1>3. n \in S
  BY <1>1, <1>2, SetInduction
<1> QED
  BY <1>3 DEF S

LEMMA OrbitsAgree ==
  ASSUME NEW X, NEW x \in X, NEW F \in [X -> X], NEW m \in Nat, NEW n \in Nat,
         NEW h \in [0..m -> X], Orbit(x, F, m, h),
         NEW k \in [0..n -> X], Orbit(x, F, n, k),
         NEW i \in Nat, i <= m, i <= n
  PROVE  h[i] = k[i]
<1> DEFINE S == {j \in Nat : j <= m /\ j <= n => h[j] = k[j]}
<1>1. 0 \in S
  BY DEF Orbit
<1>2. ASSUME NEW j \in Nat, j \in S PROVE j + 1 \in S
  BY <1>2 DEF Orbit
<1> HIDE DEF S
<1>3. i \in S
  BY <1>1, <1>2, SetInduction
<1> QED
  BY <1>3 DEF S

\* g is the sequence of iterates of F, from x on.
Iterates(g, x, F) == g[0] = x /\ \A n \in Nat \ {0} : g[n] = F[g[n - 1]]

\* There is such a sequence: a recursive definition of this form defines what
\* it says.
LEMMA PrimitiveRecursion ==
  ASSUME NEW X, NEW x \in X, NEW F \in [X -> X]
  PROVE  \E g \in [Nat -> X] : Iterates(g, x, F)
<1> DEFINE H(n) == CHOOSE h \in [0..n -> X] : Orbit(x, F, n, h)
           g == [n \in Nat |-> H(n)[n]]
<1>1. \A n \in Nat : H(n) \in [0..n -> X] /\ Orbit(x, F, n, H(n))
  BY OrbitExists
<1> HIDE DEF H
<1>2. g \in [Nat -> X]
  BY <1>1
<1>3. g[0] = x
  BY <1>1 DEF Orbit
<1>4. ASSUME NEW n \in Nat \ {0} PROVE g[n] = F[g[n - 1]]
  <2>1. H(n)[n] = F[H(n)[n - 1]]
    BY <1>1 DEF Orbit
  <2>2. H(n)[n - 1] = H(n - 1)[n - 1]
    <3> DEFINE m == n - 1
               h == H(n)
               k == H(m)
    <3>1. m \in Nat /\ n \in Nat /\ m <= m /\ m <= n
      OBVIOUS
    <3>2. h \in [0..n -> X] /\ Orbit(x, F, n, h)
      BY <1>1
    <3>3. k \in [0..m -> X] /\ Orbit(x, F, m, k)
      BY <1>1, <3>1
    <3> HIDE DEF m, h, k
    <3>4. h[m] = k[m]
      BY <3>1, <3>2, <3>3, OrbitsAgree
    <3> QED
      BY <3>4 DEF m, h, k
  <2> QED
    BY <2>1, <2>2
<1> QED
  BY <1>2, <1>3, <1>4 DEF Iterates
=============================================================================
