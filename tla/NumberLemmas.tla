----------------------------- MODULE NumberLemmas -----------------------------
(***************************************************************************)
(* Facts about sets of numbers that the proofs about days, ids and counts  *)
(* share: least and largest members, ranks, recursion over days, and sums  *)
(* over finite sets.                                                       *)
(***************************************************************************)
EXTENDS Integers, FiniteSets, Functions, FiniteSetTheorems, WellFoundedInduction, TLAPS

\* A set of numbers has a least one.
LEMMA LeastNumber ==
  ASSUME NEW S, S \subseteq Nat, S # {}
  PROVE  \E x \in S : \A y \in S : x <= y
<1> DEFINE R == {ss \in Nat \X Nat : ss[1] < ss[2]}
<1>1. IsWellFoundedOn(R, Nat)
  BY NatLessThanWellFounded, Zenon DEF OpToRel
<1>2. PICK x \in S : \A y \in S : ~ (<<y, x>> \in R)
  <2> HIDE DEF R
  <2>1. QED
    BY <1>1, WFMin
<1>3. ASSUME NEW y \in S PROVE x <= y
  <2>1. x \in Nat /\ y \in Nat /\ ~ (<<y, x>> \in R)
    BY <1>2
  <2>2. QED
    BY <2>1
<1>4. QED
  BY <1>3

\* A set of numbers up to n has a largest one.
LEMMA LargestNumber ==
  ASSUME NEW n \in Nat, NEW S, S \subseteq 0 .. n, S # {}
  PROVE  \E x \in S : \A y \in S : y <= x
<1> DEFINE T == {n - i : i \in S}
<1>1. T # {} /\ T \subseteq Nat
  <2>1. \A i \in S : n - i \in Nat
    OBVIOUS
  <2>2. QED
    BY <2>1
<1>2. PICK m \in T : \A k \in T : m <= k
  <2> HIDE DEF T
  <2>1. QED
    BY <1>1, LeastNumber
<1>3. PICK x \in S : m = n - x
  OBVIOUS
<1>4. ASSUME NEW y \in S PROVE y <= x
  <2>1. m <= n - y
    BY <1>2
  <2>2. QED
    BY <1>3, <2>1
<1>5. QED
  BY <1>4

-----------------------------------------------------------------------------
\* How many members of a set of numbers come up to one of them, and those
\* that are among its first k.
Rank(S, e) == Cardinality({f \in S : f <= e})
FirstOnes(S, k) == {e \in S : Rank(S, e) <= k}

LEMMA RankType ==
  ASSUME NEW S, S \subseteq Nat, IsFiniteSet(S), NEW e \in S
  PROVE  Rank(S, e) \in Nat
BY FS_Subset, FS_CardinalityType DEF Rank

LEMMA RankGrows ==
  ASSUME NEW S, S \subseteq Nat, IsFiniteSet(S), NEW e \in S, NEW f \in S, e < f
  PROVE  Rank(S, e) + 1 <= Rank(S, f)
<1> DEFINE E == {x \in S : x <= e}
           F == {x \in S : x <= f}
<1>1. IsFiniteSet(E) /\ IsFiniteSet(F)
  BY FS_Subset
<1>2. f \notin E /\ E \cup {f} \subseteq F
  <2>1. e \in Nat /\ f \in Nat
    OBVIOUS
  <2>2. \A x \in S : x \in Nat
    OBVIOUS
  <2>3. ~ (f <= e) /\ \A x \in S : x <= e => x <= f
    BY <2>1, <2>2
  <2>4. f \in S /\ f <= f
    BY <2>1
  <2>5. QED
    BY <2>3, <2>4, Zenon
<1>3. IsFiniteSet(E \cup {f}) /\ Cardinality(E \cup {f}) = Cardinality(E) + 1
  BY <1>1, <1>2, FS_AddElement
<1>4. Cardinality(E \cup {f}) <= Cardinality(F)
  BY <1>1, <1>2, FS_Subset
<1>5. QED
  BY <1>3, <1>4 DEF Rank

\* The first k members of a set that has as many are k.
LEMMA FirstOnesCount ==
  ASSUME NEW S, S \subseteq Nat, IsFiniteSet(S), NEW h \in Nat, h <= Cardinality(S)
  PROVE  Cardinality(FirstOnes(S, h)) = h
<1> DEFINE B == {k \in 0 .. h : Cardinality(FirstOnes(S, k)) # k}
<1> SUFFICES ASSUME B # {} PROVE FALSE
  OBVIOUS
<1>1. PICK m \in B : \A k \in B : m <= k
  <2>1. B \subseteq Nat
    OBVIOUS
  <2> HIDE DEF B
  <2>2. QED
    BY <2>1, LeastNumber
<1>2. m \in 0 .. h /\ Cardinality(FirstOnes(S, m)) # m
  OBVIOUS
<1>3. Cardinality(S) \in Nat
  BY FS_CardinalityType
<1>4. ASSUME NEW e \in S PROVE Rank(S, e) >= 1
  <2>1. e \in {f \in S : f <= e}
    OBVIOUS
  <2>2. IsFiniteSet({f \in S : f <= e})
    BY FS_Subset
  <2>3. Rank(S, e) # 0
    BY <2>1, <2>2, FS_EmptySet DEF Rank
  <2>4. QED
    <3>1. Rank(S, e) \in Nat
      BY RankType
    <3>2. QED
      BY <2>3, <3>1
<1>5. m # 0
  <2>1. FirstOnes(S, 0) = {}
    <3>1. \A e \in S : ~ (Rank(S, e) <= 0)
      <4>1. \A e \in S : Rank(S, e) >= 1 /\ Rank(S, e) \in Nat
        BY <1>4, RankType
      <4>2. QED
        BY <4>1
    <3>2. QED
      BY <3>1 DEF FirstOnes
  <2>2. QED
    BY <1>2, <2>1, FS_EmptySet
<1> DEFINE W == FirstOnes(S, m - 1)
<1>6. Cardinality(W) = m - 1 /\ m - 1 \in Nat
  <2>1. m - 1 \in 0 .. h /\ ~ (m <= m - 1)
    BY <1>2, <1>5
  <2>2. m - 1 \notin B
    BY <1>1, <2>1
  <2>3. QED
    BY <2>1, <2>2
<1>7. W \subseteq S /\ IsFiniteSet(W)
  BY FS_Subset DEF FirstOnes
<1>8. S \ W # {}
  <2>1. W # S
    BY <1>2, <1>3, <1>6
  <2>2. QED
    BY <1>7, <2>1
<1>9. PICK x \in S \ W : \A y \in S \ W : x <= y
  BY <1>8, LeastNumber
<1>10. ASSUME NEW w \in W PROVE w < x
  <2>1. w \in S /\ Rank(S, w) <= m - 1 /\ x \in S /\ ~ (Rank(S, x) <= m - 1)
    BY <1>9 DEF FirstOnes
  <2>2. w # x /\ w \in Nat /\ x \in Nat
    BY <2>1
  <2>3. CASE x < w
    <3>1. Rank(S, x) + 1 <= Rank(S, w)
      BY <2>1, <2>3, RankGrows
    <3>2. QED
      <4>1. Rank(S, x) \in Nat /\ Rank(S, w) \in Nat
        BY <2>1, RankType
      <4>2. QED
        BY <1>6, <2>1, <3>1, <4>1
  <2>4. QED
    BY <2>2, <2>3
<1>11. {f \in S : f <= x} = W \cup {x}
  <2>1. ASSUME NEW f \in S, f <= x PROVE f \in W \cup {x}
    <3>1. f \notin W => x <= f
      BY <1>9
    <3>2. f \in Nat /\ x \in Nat
      BY <1>9
    <3>3. QED
      BY <2>1, <3>1, <3>2
  <2>2. ASSUME NEW w \in W PROVE w \in S /\ w <= x
    <3>1. w \in S /\ w < x /\ w \in Nat /\ x \in Nat
      BY <1>7, <1>9, <1>10
    <3>2. QED
      BY <3>1
  <2>3. x \in S /\ x <= x
    BY <1>9
  <2> HIDE DEF W
  <2>4. QED
    BY <2>1, <2>2, <2>3
<1>12. Rank(S, x) = m
  <2>1. x \notin W
    BY <1>9
  <2>2. Cardinality(W \cup {x}) = Cardinality(W) + 1
    BY <1>7, <2>1, FS_AddElement
  <2>3. QED
    BY <1>2, <1>6, <1>11, <2>2 DEF Rank
<1>13. FirstOnes(S, m) = W \cup {x}
  <2>1. ASSUME NEW y \in S, Rank(S, y) <= m PROVE y \in W \cup {x}
    <3>1. CASE y \in S \ W /\ y # x
      <4>1. x < y
        BY <1>9, <3>1
      <4>2. Rank(S, x) + 1 <= Rank(S, y)
        BY <1>9, <4>1, RankGrows
      <4>3. QED
        <5>1. y \in S /\ m \in Nat
          BY <1>2, <3>1
        <5>2. Rank(S, y) \in Nat
          BY <5>1, RankType
        <5>3. QED
          BY <1>12, <2>1, <4>2, <5>1, <5>2
    <3>2. QED
      BY <3>1
  <2>2. ASSUME NEW w \in W PROVE w \in S /\ Rank(S, w) <= m
    <3>1. w \in S /\ Rank(S, w) <= m - 1 /\ Rank(S, w) \in Nat
      BY RankType DEF FirstOnes
    <3>2. QED
      BY <1>2, <3>1
  <2>3. x \in S /\ Rank(S, x) <= m
    BY <1>2, <1>9, <1>12
  <2> HIDE DEF W
  <2>4. QED
    BY <2>1, <2>2, <2>3 DEF FirstOnes
<1>14. Cardinality(FirstOnes(S, m)) = m
  <2>1. x \notin W
    BY <1>9
  <2>2. Cardinality(W \cup {x}) = Cardinality(W) + 1
    BY <1>7, <2>1, FS_AddElement
  <2>3. QED
    BY <1>2, <1>6, <1>13, <2>2
<1>15. QED
  BY <1>2, <1>14

-----------------------------------------------------------------------------
(* What is computed day by day.                                            *)

\* What holds of the start and is kept by each step holds of all.
LEMMA Upwards ==
  ASSUME NEW n \in Nat, NEW S, S \subseteq 0 .. n, 0 \in S,
         \A i \in 1 .. n : i - 1 \in S => i \in S
  PROVE  S = 0 .. n
<1> SUFFICES ASSUME (0 .. n) \ S # {} PROVE FALSE
  OBVIOUS
<1> DEFINE T == (0 .. n) \ S
<1>1. T \subseteq Nat
  OBVIOUS
<1>2. PICK i \in T : \A j \in T : i <= j
  <2> HIDE DEF T
  <2>1. QED
    BY <1>1, LeastNumber DEF T
<1>3. i # 0 /\ i \in 1 .. n
  BY <1>2
<1>4. i - 1 \in 0 .. n /\ ~(i <= i - 1)
  BY <1>3
<1>5. i - 1 \in S
  BY <1>2, <1>4
<1>6. QED
  BY <1>2, <1>3, <1>5

\* A recursion over days is a function.
Follows(f, n, start, step) ==
  \A i \in 0 .. n : f[i] = IF i = 0 THEN start ELSE step[i][f[i - 1]]

LEMMA DayByDay ==
  ASSUME NEW n \in Nat, NEW V, NEW start \in V, NEW step \in [1 .. n -> [V -> V]]
  PROVE  \E f \in [0 .. n -> V] : Follows(f, n, start, step)
<1> DEFINE Upto(m, f) == \A i \in 0 .. m : f[i] = IF i = 0 THEN start ELSE step[i][f[i - 1]]
           S == {m \in 0 .. n : \E f \in [0 .. m -> V] : Upto(m, f)}
<1>1. 0 \in S
  <2> DEFINE f == [i \in 0 .. 0 |-> start]
  <2>1. f \in [0 .. 0 -> V] /\ \A i \in 0 .. 0 : i = 0 /\ f[i] = start
    OBVIOUS
  <2>2. Upto(0, f)
    BY <2>1
  <2>3. f \in [0 .. 0 -> V] /\ 0 \in 0 .. n
    BY <2>1
  <2> HIDE DEF f, Upto
  <2>4. QED
    BY <2>2, <2>3
<1>2. ASSUME NEW m \in 1 .. n, m - 1 \in S PROVE m \in S
  <2>1. PICK g \in [0 .. m - 1 -> V] : Upto(m - 1, g)
    BY <1>2
  <2> DEFINE f == [i \in 0 .. m |-> IF i = m THEN step[m][g[m - 1]] ELSE g[i]]
  <2>2. /\ m - 1 \in 0 .. m - 1 /\ m # 0
        /\ \A i \in 0 .. m : i = m \/ i \in 0 .. m - 1
        /\ \A i \in 0 .. m - 1 : i \in 0 .. m /\ i # m
    OBVIOUS
  <2>3. g[m - 1] \in V
    BY <2>2
  <2>4. step[m][g[m - 1]] \in V
    BY <2>3
  <2>5. f \in [0 .. m -> V]
    BY <2>2, <2>4
  <2>6. \A i \in 0 .. m - 1 : f[i] = g[i]
    BY <2>2
  <2>7. f[m] = step[m][f[m - 1]]
    BY <2>2, <2>6
  <2>8. ASSUME NEW i \in 0 .. m - 1
        PROVE  f[i] = IF i = 0 THEN start ELSE step[i][f[i - 1]]
    <3>1. i # 0 => i - 1 \in 0 .. m - 1
      OBVIOUS
    <3> HIDE DEF f
    <3>2. QED
      BY <2>1, <2>6, <3>1
  <2> HIDE DEF f
  <2>9. Upto(m, f)
    BY <2>2, <2>7, <2>8
  <2>10. QED
    BY <2>5, <2>9
<1>3. S = 0 .. n
  <2>1. S \subseteq 0 .. n
    OBVIOUS
  <2> HIDE DEF S
  <2>2. QED
    BY <1>1, <1>2, <2>1, Upwards
<1>4. n \in S
  BY <1>3
<1>5. PICK f \in [0 .. n -> V] : Upto(n, f)
  BY <1>4
<1>6. Follows(f, n, start, step)
  BY <1>5 DEF Follows
<1>7. QED
  BY <1>6

-----------------------------------------------------------------------------
(* Sums over finite sets.                                                  *)

\* What holds of a set once it holds of its proper subsets holds of every
\* subset of a finite set.
LEMMA Outwards ==
  ASSUME NEW S, IsFiniteSet(S), NEW G,
         \A U \in SUBSET S : (\A V \in SUBSET U : V # U => V \in G) => U \in G
  PROVE  SUBSET S \subseteq G
<1> DEFINE bad == {U \in SUBSET S : U \notin G}
           sizes == {Cardinality(U) : U \in bad}
<1> SUFFICES ASSUME bad # {} PROVE FALSE
  OBVIOUS
<1>1. \A U \in SUBSET S : IsFiniteSet(U) /\ Cardinality(U) \in Nat
  BY FS_Subset, FS_CardinalityType
<1>2. sizes \subseteq Nat /\ sizes # {}
  BY <1>1
<1>3. PICK n \in sizes : \A k \in sizes : n <= k
  <2> HIDE DEF sizes
  <2>1. QED
    BY <1>2, LeastNumber
<1>4. PICK U \in bad : n = Cardinality(U)
  OBVIOUS
<1>5. ASSUME NEW V \in SUBSET U, V # U PROVE V \in G
  <2>1. V \in SUBSET S
    OBVIOUS
  <2>2. Cardinality(V) <= Cardinality(U) /\ Cardinality(V) # Cardinality(U)
    BY <1>1, <1>5, FS_Subset
  <2>3. ~(Cardinality(U) <= Cardinality(V))
    BY <1>1, <2>1, <2>2
  <2>4. V \notin bad
    BY <1>3, <1>4, <2>3
  <2>5. QED
    BY <2>1, <2>4
<1>6. QED
  BY <1>4, <1>5

AnyOf(s) == CHOOSE x \in s : TRUE
\* The sums of f over the subsets of S, as the folds of sets define them.
Adds(f, t, S) ==
  t = [s \in SUBSET S |-> IF s = {} THEN 0 ELSE f[AnyOf(s)] + t[s \ {AnyOf(s)}]]
SumOver(f, S) == (CHOOSE t : Adds(f, t, S))[S]

LEMMA ChosenIsIn ==
  ASSUME NEW s, s # {}
  PROVE  AnyOf(s) \in s /\ s \ {AnyOf(s)} # s /\ s \ {AnyOf(s)} \subseteq s
BY DEF AnyOf

LEMMA SumsExist ==
  ASSUME NEW S, IsFiniteSet(S), NEW f, \A x \in S : f[x] \in Int
  PROVE  \E t : Adds(f, t, S)
<1> DEFINE Small(n) == {s \in SUBSET S : Cardinality(s) <= n}
           Upto(t, n) == \A s \in Small(n) :
             t[s] \in Int /\ t[s] = IF s = {} THEN 0 ELSE f[AnyOf(s)] + t[s \ {AnyOf(s)}]
           N == Cardinality(S)
           D == {n \in 0 .. N : \E t \in [Small(n) -> Int] : Upto(t, n)}
<1>1. N \in Nat /\ \A s \in SUBSET S : IsFiniteSet(s) /\ Cardinality(s) \in Nat /\ Cardinality(s) <= N
  BY FS_Subset, FS_CardinalityType
<1>2. 0 \in D
  <2> DEFINE t == [s \in Small(0) |-> 0]
  <2>1. \A s \in Small(0) : s = {}
    <3>1. \A s \in SUBSET S : Cardinality(s) <= 0 => Cardinality(s) = 0
      BY <1>1
    <3>2. QED
      BY <1>1, <3>1, FS_EmptySet
  <2>2. t \in [Small(0) -> Int] /\ \A s \in Small(0) : t[s] = 0
    OBVIOUS
  <2>3. Upto(t, 0)
    BY <2>1, <2>2
  <2>4. 0 \in 0 .. N
    BY <1>1
  <2> HIDE DEF t, Upto, Small
  <2>5. QED
    BY <2>2, <2>3, <2>4
<1>3. ASSUME NEW n \in 1 .. N, n - 1 \in D PROVE n \in D
  <2>1. PICK t \in [Small(n - 1) -> Int] : Upto(t, n - 1)
    BY <1>3
  <2> DEFINE u == [s \in Small(n) |-> IF s = {} THEN 0 ELSE f[AnyOf(s)] + t[s \ {AnyOf(s)}]]
  <2>2. ASSUME NEW s \in Small(n), s # {}
        PROVE  AnyOf(s) \in S /\ s \ {AnyOf(s)} \in Small(n - 1)
    <3>1. AnyOf(s) \in s
      BY <2>2, ChosenIsIn
    <3>2. Cardinality(s \ {AnyOf(s)}) = Cardinality(s) - 1
      BY <1>1, <3>1, FS_RemoveElement
    <3>3. Cardinality(s) \in Nat /\ Cardinality(s) <= n
      BY <1>1
    <3>4. Cardinality(s) - 1 <= n - 1
      BY <3>3
    <3>5. QED
      BY <3>1, <3>2, <3>4
  <2>3. \A s \in Small(n) : (IF s = {} THEN 0 ELSE f[AnyOf(s)] + t[s \ {AnyOf(s)}]) \in Int
    <3>1. ASSUME NEW s \in Small(n), s # {} PROVE f[AnyOf(s)] + t[s \ {AnyOf(s)}] \in Int
      <4>1. f[AnyOf(s)] \in Int /\ t[s \ {AnyOf(s)}] \in Int
        BY <2>1, <2>2, <3>1
      <4>2. QED
        BY <4>1
    <3>2. QED
      BY <3>1
  <2>4. u \in [Small(n) -> Int]
    BY <2>3
  <2>5. \A s \in Small(n) : u[s] = IF s = {} THEN 0 ELSE f[AnyOf(s)] + t[s \ {AnyOf(s)}]
    OBVIOUS
  <2>6. Small(n - 1) \subseteq Small(n)
    <3>1. \A s \in SUBSET S : Cardinality(s) <= n - 1 => Cardinality(s) <= n
      BY <1>1
    <3>2. QED
      BY <3>1
  <2>7. \A s \in Small(n - 1) : u[s] = t[s]
    BY <2>1, <2>5, <2>6
  <2>8. ASSUME NEW s \in Small(n)
        PROVE  u[s] \in Int /\ u[s] = IF s = {} THEN 0 ELSE f[AnyOf(s)] + u[s \ {AnyOf(s)}]
    <3>1. u[s] \in Int
      BY <2>4
    <3>2. s # {} => u[s \ {AnyOf(s)}] = t[s \ {AnyOf(s)}]
      BY <2>2, <2>7
    <3> HIDE DEF u, Small
    <3>3. QED
      BY <2>5, <3>1, <3>2
  <2> HIDE DEF u
  <2>9. Upto(u, n)
    BY <2>8
  <2>10. n \in 0 .. N
    OBVIOUS
  <2> HIDE DEF Upto, Small
  <2>11. QED
    BY <2>4, <2>9, <2>10
<1>4. N \in D
  <2>1. D \subseteq 0 .. N
    OBVIOUS
  <2>2. D = 0 .. N
    <3> HIDE DEF D, N
    <3>1. QED
      BY <1>1, <1>2, <1>3, <2>1, Upwards
  <2>3. N \in 0 .. N
    BY <1>1
  <2> HIDE DEF D, N
  <2>4. QED
    BY <2>2, <2>3
<1>5. Small(N) = SUBSET S
  BY <1>1
<1>6. PICK t \in [SUBSET S -> Int] : Upto(t, N)
  BY <1>4, <1>5
<1>7. Adds(f, t, S)
  <2>1. \A s \in SUBSET S : t[s] = IF s = {} THEN 0 ELSE f[AnyOf(s)] + t[s \ {AnyOf(s)}]
    BY <1>5, <1>6
  <2> HIDE DEF Upto, Small, N
  <2>2. QED
    BY <1>6, <2>1 DEF Adds
<1>8. QED
  BY <1>7

\* Sums of what agrees agree, and are numbers.
LEMMA SumsAgree ==
  ASSUME NEW S, NEW T, IsFiniteSet(S), S \subseteq T, NEW f, NEW g, NEW t, NEW u,
         Adds(f, t, S), Adds(g, u, T), \A x \in S : f[x] \in Int /\ f[x] = g[x]
  PROVE  \A U \in SUBSET S : t[U] = u[U] /\ t[U] \in Int
<1> DEFINE G == {U \in SUBSET S : t[U] = u[U] /\ t[U] \in Int}
<1>1. ASSUME NEW U \in SUBSET S, \A V \in SUBSET U : V # U => V \in G PROVE U \in G
  <2>1. /\ t[U] = IF U = {} THEN 0 ELSE f[AnyOf(U)] + t[U \ {AnyOf(U)}]
        /\ u[U] = IF U = {} THEN 0 ELSE g[AnyOf(U)] + u[U \ {AnyOf(U)}]
    BY DEF Adds
  <2>2. CASE U = {}
    BY <2>1, <2>2
  <2>3. CASE U # {}
    <3>1. AnyOf(U) \in S /\ U \ {AnyOf(U)} \in G
      BY <1>1, <2>3, ChosenIsIn
    <3>2. f[AnyOf(U)] \in Int /\ f[AnyOf(U)] = g[AnyOf(U)]
      BY <3>1
    <3>3. t[U \ {AnyOf(U)}] = u[U \ {AnyOf(U)}] /\ t[U \ {AnyOf(U)}] \in Int
      BY <3>1
    <3>4. t[U] = u[U] /\ t[U] \in Int
      BY <2>1, <2>3, <3>2, <3>3
    <3>5. QED
      BY <3>4
  <2>4. QED
    BY <2>2, <2>3
<1> HIDE DEF G
<1>2. SUBSET S \subseteq G
  BY <1>1, Outwards
<1>3. QED
  BY <1>2 DEF G

LEMMA SumIs ==
  ASSUME NEW S, IsFiniteSet(S), NEW f, \A x \in S : f[x] \in Int
  PROVE  \A t : Adds(f, t, S) => t[S] = SumOver(f, S) /\ t[S] \in Int
<1>1. PICK u : u = CHOOSE t : Adds(f, t, S)
  OBVIOUS
<1>2. Adds(f, u, S)
  BY <1>1, SumsExist
<1>3. ASSUME NEW t, Adds(f, t, S) PROVE t[S] = u[S] /\ t[S] \in Int
  BY <1>2, <1>3, SumsAgree
<1>4. QED
  BY <1>1, <1>3 DEF SumOver

LEMMA SumOfNone == ASSUME NEW f PROVE SumOver(f, {}) = 0
<1>1. IsFiniteSet({})
  BY FS_EmptySet
<1>2. PICK t : Adds(f, t, {})
  BY <1>1, SumsExist
<1>3. t[{}] = 0
  BY <1>2 DEF Adds
<1>4. QED
  BY <1>1, <1>2, <1>3, SumIs

LEMMA SumSame ==
  ASSUME NEW S, IsFiniteSet(S), NEW f, NEW g, \A x \in S : f[x] \in Int /\ f[x] = g[x]
  PROVE  SumOver(f, S) = SumOver(g, S) /\ SumOver(f, S) \in Int
<1>1. PICK t, u : Adds(f, t, S) /\ Adds(g, u, S)
  BY SumsExist
<1>2. t[S] = u[S] /\ t[S] \in Int
  BY <1>1, SumsAgree
<1>3. t[S] = SumOver(f, S) /\ u[S] = SumOver(g, S)
  BY <1>1, SumIs
<1>4. QED
  BY <1>2, <1>3

\* Any member may come first.
LEMMA SumWithout ==
  ASSUME NEW S, IsFiniteSet(S), NEW f, \A x \in S : f[x] \in Int, NEW y \in S
  PROVE  SumOver(f, S) = f[y] + SumOver(f, S \ {y}) /\ SumOver(f, S \ {y}) \in Int
<1>1. PICK t : Adds(f, t, S)
  BY SumsExist
<1> DEFINE G == {U \in SUBSET S : \A x \in U : t[U] = f[x] + t[U \ {x}]}
<1>2. \A U \in SUBSET S : t[U] \in Int
  BY <1>1, SumsAgree
<1>3. \A U \in SUBSET S : U # {} => t[U] = f[AnyOf(U)] + t[U \ {AnyOf(U)}]
  BY <1>1 DEF Adds
<1>4. ASSUME NEW U \in SUBSET S, \A V \in SUBSET U : V # U => V \in G, NEW x \in U
      PROVE  t[U] = f[x] + t[U \ {x}]
  <2>1. PICK c \in U : c = AnyOf(U)
    BY ChosenIsIn
  <2>2. t[U] = f[c] + t[U \ {c}]
    BY <1>3, <2>1
  <2>3. CASE c = x
    BY <2>2, <2>3
  <2>4. CASE c # x
    <3>1. U \ {c} \in G /\ U \ {x} \in G /\ x \in U \ {c} /\ c \in U \ {x}
      BY <1>4, <2>4
    <3>2. t[U \ {c}] = f[x] + t[(U \ {c}) \ {x}]
      BY <3>1
    <3>3. t[U \ {x}] = f[c] + t[(U \ {x}) \ {c}]
      BY <3>1
    <3>4. (U \ {c}) \ {x} = (U \ {x}) \ {c}
      OBVIOUS
    <3>5. PICK rest \in Int : rest = t[(U \ {c}) \ {x}]
      <4>1. (U \ {c}) \ {x} \in SUBSET S
        OBVIOUS
      <4>2. QED
        BY <1>2, <4>1
    <3>6. f[c] \in Int /\ f[x] \in Int
      OBVIOUS
    <3>7. t[U] = f[c] + (f[x] + rest) /\ t[U \ {x}] = f[c] + rest
      BY <2>2, <3>2, <3>3, <3>4, <3>5
    <3>8. QED
      BY <3>6, <3>7
  <2>5. QED
    BY <2>3, <2>4
<1>5. ASSUME NEW U \in SUBSET S, \A V \in SUBSET U : V # U => V \in G PROVE U \in G
  BY <1>4, <1>5
<1> HIDE DEF G
<1>6. SUBSET S \subseteq G
  BY <1>5, Outwards
<1>7. t[S] = f[y] + t[S \ {y}]
  BY <1>6 DEF G
<1>8. t[S] = SumOver(f, S)
  BY <1>1, SumIs
<1>9. t[S \ {y}] = SumOver(f, S \ {y}) /\ t[S \ {y}] \in Int
  <2>1. IsFiniteSet(S \ {y})
    BY FS_Subset
  <2>2. PICK u : Adds(f, u, S \ {y})
    BY <2>1, SumsExist
  <2>3. u[S \ {y}] = SumOver(f, S \ {y}) /\ u[S \ {y}] \in Int
    BY <2>1, <2>2, SumIs
  <2>4. u[S \ {y}] = t[S \ {y}]
    BY <1>1, <2>1, <2>2, SumsAgree
  <2>5. QED
    BY <2>3, <2>4
<1>10. QED
  BY <1>7, <1>8, <1>9

\* One value is another.
LEMMA SumChanged ==
  ASSUME NEW S, IsFiniteSet(S), NEW f, NEW g, \A x \in S : f[x] \in Int /\ g[x] \in Int,
         NEW y \in S, \A x \in S : x # y => f[x] = g[x]
  PROVE  SumOver(g, S) = SumOver(f, S) + (g[y] - f[y])
<1>1. /\ SumOver(f, S) = f[y] + SumOver(f, S \ {y}) /\ SumOver(f, S \ {y}) \in Int
      /\ SumOver(g, S) = g[y] + SumOver(g, S \ {y})
  BY SumWithout
<1>2. IsFiniteSet(S \ {y})
  BY FS_Subset
<1>3. SumOver(f, S \ {y}) = SumOver(g, S \ {y})
  BY <1>2, SumSame
<1>4. f[y] \in Int /\ g[y] \in Int
  OBVIOUS
<1>5. QED
  BY <1>1, <1>3, <1>4

\* Sums of what is not negative grow.
LEMMA SumGrows ==
  ASSUME NEW S, IsFiniteSet(S), NEW f, \A x \in S : f[x] \in Nat, NEW T \in SUBSET S
  PROVE  SumOver(f, T) \in Nat /\ SumOver(f, T) <= SumOver(f, S)
<1> DEFINE G == {U \in SUBSET S :
                   SumOver(f, U) \in Nat /\ \A V \in SUBSET U : SumOver(f, V) <= SumOver(f, U)}
<1>1. ASSUME NEW U \in SUBSET S, \A V \in SUBSET U : V # U => V \in G PROVE U \in G
  <2>1. \A V \in SUBSET U : V # U => SumOver(f, V) \in Nat
    BY <1>1
  <2>2. ASSUME NEW x \in U
        PROVE  SumOver(f, U) \in Nat /\ SumOver(f, U \ {x}) \in Nat
               /\ SumOver(f, U \ {x}) <= SumOver(f, U)
    <3>1. IsFiniteSet(U) /\ \A z \in U : f[z] \in Int
      BY FS_Subset
    <3>2. SumOver(f, U) = f[x] + SumOver(f, U \ {x})
      BY <3>1, SumWithout
    <3>3. SumOver(f, U \ {x}) \in Nat /\ f[x] \in Nat
      BY <2>1
    <3>4. QED
      BY <3>2, <3>3
  <2>3. SumOver(f, U) \in Nat
    <3>1. CASE U = {}
      BY <3>1, SumOfNone
    <3>2. CASE U # {}
      BY <2>2, <3>2
    <3>3. QED
      BY <3>1, <3>2
  <2>4. ASSUME NEW V \in SUBSET U PROVE SumOver(f, V) <= SumOver(f, U)
    <3>1. CASE V = U
      BY <2>3, <3>1
    <3>2. CASE V # U
      <4>1. PICK x \in U : x \notin V
        BY <3>2
      <4>2. U \ {x} \in G /\ V \in SUBSET (U \ {x})
        BY <1>1, <4>1
      <4>3. SumOver(f, V) <= SumOver(f, U \ {x})
        BY <4>2
      <4>4. SumOver(f, V) \in Nat
        BY <2>1, <3>2
      <4>5. QED
        BY <2>2, <2>3, <4>3, <4>4
    <3>3. QED
      BY <3>1, <3>2
  <2>5. QED
    BY <2>3, <2>4
<1> HIDE DEF G
<1>2. SUBSET S \subseteq G
  BY <1>1, Outwards
<1>3. QED
  BY <1>2 DEF G

\* The sums of the community modules are these sums.
LEMMA SumOnSet ==
  ASSUME NEW f, NEW U
  PROVE  SumFunctionOnSet(f, U) = SumOver(f, U)
BY DEF SumFunctionOnSet, FoldFunctionOnSet, MapThenFoldSet, SumOver, Adds, AnyOf

LEMMA SumOfFunction ==
  ASSUME NEW f
  PROVE  SumFunction(f) = SumOver(f, DOMAIN f)
BY SumOnSet DEF SumFunction

\* Sums of numbers are numbers, and of positive numbers positive.
LEMMA SumIsNumber ==
  ASSUME NEW S, IsFiniteSet(S), NEW f \in [S -> Int]
  PROVE  SumFunction(f) \in Int
<1>1. SumFunction(f) = SumOver(f, S)
  BY SumOfFunction
<1>2. \A x \in S : f[x] \in Int
  OBVIOUS
<1>3. QED
  BY <1>1, <1>2, SumSame

LEMMA SumIsPositive ==
  ASSUME NEW S, IsFiniteSet(S), NEW f \in [S -> Nat \ {0}], S # {}
  PROVE  SumFunction(f) \in Nat \ {0}
<1>1. SumFunction(f) = SumOver(f, S)
  BY SumOfFunction
<1>2. \A x \in S : f[x] \in Nat /\ f[x] # 0
  OBVIOUS
<1>3. PICK y \in S : TRUE
  OBVIOUS
<1>4. SumOver(f, S) = f[y] + SumOver(f, S \ {y}) /\ SumOver(f, S \ {y}) \in Int
  BY <1>2, SumWithout
<1>5. SumOver(f, S) \in Nat /\ SumOver(f, S \ {y}) \in Nat
  BY <1>2, SumGrows
<1>6. QED
  BY <1>1, <1>2, <1>4, <1>5
=============================================================================
