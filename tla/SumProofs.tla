----------------------------- MODULE SumProofs ------------------------------
(***************************************************************************)
(* Sums over finite sets, for every set and every summand.  Induction over *)
(* finite sets is by a least counterexample: proper inclusion is well      *)
(* founded on the subsets of a finite set, so the set of the subsets a     *)
(* claim fails for has a least member.                                     *)
(***************************************************************************)
EXTENDS Sums, FiniteSetTheorems, TLAPS

\* A non-empty set of subsets of a finite set has a least member.
LEMMA LeastSubset ==
  ASSUME NEW S, IsFiniteSet(S), NEW B \in SUBSET SUBSET S, B # {}
  PROVE  \E T \in B : \A U \in B : U \subseteq T => U = T
<1>1. IsWellFoundedOn(StrictSubsetOrdering(S), FiniteSubsetsOf(S))
  BY FS_StrictSubsetOrderingWellFounded
<1>2. FiniteSubsetsOf(S) = SUBSET S
  BY FS_FiniteSubsetsOfFinite
<1>3. PICK T \in B : \A U \in B : ~(<<U, T>> \in StrictSubsetOrdering(S))
  BY <1>1, <1>2, WFMin
<1>4. \A U \in B : U \subseteq T => U = T
  BY <1>3 DEF StrictSubsetOrdering
<1> QED BY <1>4

\* A non-empty set of positions of a finite list has a first one.
LEMMA FirstPosition ==
  ASSUME NEW n \in Nat, NEW B \in SUBSET (1..n), B # {}
  PROVE  \E i \in B : \A j \in B : i <= j
<1> DEFINE C == {1..k : k \in B}
<1>1. C \in SUBSET SUBSET (1..n) /\ C # {}
  <2>1. ASSUME NEW k \in B PROVE 1..k \in SUBSET (1..n)
    <3>1. k \in Nat /\ k <= n
      OBVIOUS
    <3> QED BY <3>1
  <2>2. C \in SUBSET SUBSET (1..n)
    BY <2>1
  <2>3. PICK k : k \in B
    OBVIOUS
  <2>4. 1..k \in C
    BY <2>3
  <2> QED BY <2>2, <2>4
<1>2. IsFiniteSet(1..n)
  BY FS_Interval
<1>3. \E T \in C : \A U \in C : U \subseteq T => U = T
  <2>1. PICK S : S = 1..n
    OBVIOUS
  <2>2. C \in SUBSET SUBSET S /\ C # {} /\ IsFiniteSet(S)
    BY <1>1, <1>2, <2>1
  <2> HIDE DEF C
  <2> QED BY <2>2, LeastSubset
<1>4. PICK i \in B : \A U \in C : U \subseteq 1..i => U = 1..i
  BY <1>3
<1>5. ASSUME NEW j \in B, ~(i <= j) PROVE FALSE
  <2>1. i \in 1..n /\ j \in 1..n /\ j < i
    BY <1>5
  <2>2. 1..j \in C /\ 1..j \subseteq 1..i
    BY <2>1
  <2>3. 1..j = 1..i
    BY <1>4, <2>2
  <2>4. i \in 1..i /\ ~(i \in 1..j)
    BY <2>1
  <2> QED BY <2>3, <2>4
<1> QED BY <1>5
-----------------------------------------------------------------------------
(* The recursion behind the sum *)

Pick(s) == CHOOSE x \in s : TRUE

\* The equation the fold's iterator is chosen to satisfy.
Recursion(g, f, S) ==
  g = [s \in SUBSET S |-> IF s = {} THEN 0 ELSE f[Pick(s)] + g[s \ {Pick(s)}]]

LEMMA SumUnfolded ==
  ASSUME NEW f, NEW S
  PROVE  SumOf(f, S) = (CHOOSE g : Recursion(g, f, S))[S]
BY DEF SumOf, MapThenSumSet, MapThenFoldSet, Recursion, Pick

LEMMA PickIn ==
  ASSUME NEW s, s # {}
  PROVE  Pick(s) \in s
BY DEF Pick

LEMMA RecursionAt ==
  ASSUME NEW g, NEW f, NEW S, Recursion(g, f, S), NEW s \in SUBSET S
  PROVE  g[s] = IF s = {} THEN 0 ELSE f[Pick(s)] + g[s \ {Pick(s)}]
BY DEF Recursion

\* Iterators agree where both are defined.
LEMMA RecursionUnique ==
  ASSUME NEW f, NEW S, NEW U \in SUBSET S, IsFiniteSet(U), NEW g, NEW h,
         Recursion(g, f, S), Recursion(h, f, U)
  PROVE  g[U] = h[U]
<1> DEFINE B == {s \in SUBSET U : g[s] # h[s]}
<1> SUFFICES ASSUME B # {} PROVE FALSE
  OBVIOUS
<1>0. \E T \in B : \A V \in B : V \subseteq T => V = T
  <2>1. B \in SUBSET SUBSET U
    OBVIOUS
  <2> HIDE DEF B
  <2> QED BY <2>1, LeastSubset
<1>1. PICK T \in B : \A V \in B : V \subseteq T => V = T
  BY <1>0
<1>2. T \in SUBSET U /\ T \in SUBSET S /\ g[T] # h[T]
  OBVIOUS
<1>3. /\ g[T] = IF T = {} THEN 0 ELSE f[Pick(T)] + g[T \ {Pick(T)}]
      /\ h[T] = IF T = {} THEN 0 ELSE f[Pick(T)] + h[T \ {Pick(T)}]
  BY <1>2, RecursionAt
<1>4. T # {}
  BY <1>2, <1>3
<1>5. Pick(T) \in T
  BY <1>4, PickIn
<1>6. T \ {Pick(T)} \notin B
  BY <1>1, <1>5
<1>7. g[T \ {Pick(T)}] = h[T \ {Pick(T)}]
  BY <1>2, <1>6
<1> QED BY <1>2, <1>3, <1>4, <1>7

\* An iterator exists on the subsets of every finite set.
LEMMA RecursionExists ==
  ASSUME NEW f, NEW S, IsFiniteSet(S)
  PROVE  \E g : Recursion(g, f, S)
<1> DEFINE B == {T \in SUBSET S : ~\E g : Recursion(g, f, T)}
<1> SUFFICES ASSUME B # {} PROVE FALSE
  OBVIOUS
<1>0. \E T \in B : \A V \in B : V \subseteq T => V = T
  <2>1. B \in SUBSET SUBSET S
    OBVIOUS
  <2> HIDE DEF B
  <2> QED BY <2>1, LeastSubset
<1>1. PICK T \in B : \A V \in B : V \subseteq T => V = T
  BY <1>0
<1>2. T \in SUBSET S /\ ~\E g : Recursion(g, f, T)
  OBVIOUS
<1>3. \A V \in SUBSET T : V # T => \E g : Recursion(g, f, V)
  BY <1>1, <1>2
<1> DEFINE it == [V \in SUBSET T |-> CHOOSE g : Recursion(g, f, V)]
<1>4. \A V \in SUBSET T : V # T => Recursion(it[V], f, V)
  BY <1>3
<1> HIDE DEF it, B
<1>5. \A V \in SUBSET T : IsFiniteSet(V)
  BY <1>2, FS_Subset
<1>6. \A V \in SUBSET T : V # T => \A W \in SUBSET V : it[V][W] = it[W][W]
  <2> SUFFICES ASSUME NEW V \in SUBSET T, V # T, NEW W \in SUBSET V
               PROVE  it[V][W] = it[W][W]
    OBVIOUS
  <2>1. Recursion(it[V], f, V) /\ Recursion(it[W], f, W) /\ IsFiniteSet(W)
    BY <1>4, <1>5
  <2> QED BY <2>1, RecursionUnique
<1> DEFINE g == [s \in SUBSET T |->
                   IF s = {} THEN 0
                   ELSE f[Pick(s)] + it[s \ {Pick(s)}][s \ {Pick(s)}]]
<1>7. \A s \in SUBSET T : s # T => g[s] = it[s][s]
  <2> SUFFICES ASSUME NEW s \in SUBSET T, s # T PROVE g[s] = it[s][s]
    OBVIOUS
  <2>1. it[s][s] = IF s = {} THEN 0 ELSE f[Pick(s)] + it[s][s \ {Pick(s)}]
    BY <1>4, RecursionAt
  <2>2. it[s][s \ {Pick(s)}] = it[s \ {Pick(s)}][s \ {Pick(s)}]
    BY <1>6
  <2> QED BY <2>1, <2>2
<1>8. \A s \in SUBSET T :
        g[s] = IF s = {} THEN 0 ELSE f[Pick(s)] + g[s \ {Pick(s)}]
  <2> SUFFICES ASSUME NEW s \in SUBSET T, s # {}
               PROVE  g[s] = f[Pick(s)] + g[s \ {Pick(s)}]
    OBVIOUS
  <2>1. Pick(s) \in s
    BY PickIn
  <2>2. PICK u \in SUBSET T : u = s \ {Pick(s)}
    OBVIOUS
  <2>3. u # T
    BY <2>1, <2>2
  <2>4. g[u] = it[u][u]
    BY <1>7, <2>3
  <2>5. g[s] = f[Pick(s)] + it[u][u]
    BY <2>2
  <2> QED BY <2>2, <2>4, <2>5
<1>9. Recursion(g, f, T)
  <2>1. g = [s \in SUBSET T |-> g[s]]
    OBVIOUS
  <2> HIDE DEF g
  <2> QED BY <1>8, <2>1 DEF Recursion
<1> QED BY <1>2, <1>9
-----------------------------------------------------------------------------
(* Facts about sums *)

LEMMA SumIterator ==
  ASSUME NEW f, NEW S, IsFiniteSet(S)
  PROVE  \E g : Recursion(g, f, S) /\ SumOf(f, S) = g[S]
BY SumUnfolded, RecursionExists

\* The sum over the empty set.
LEMMA SumEmpty ==
  ASSUME NEW f
  PROVE  SumOf(f, {}) = 0
<1>1. PICK g : Recursion(g, f, {}) /\ SumOf(f, {}) = g[{}]
  BY SumIterator, FS_EmptySet
<1> QED BY <1>1, RecursionAt

\* The fold's own step.
LEMMA SumStep ==
  ASSUME NEW f, NEW S, IsFiniteSet(S), S # {}
  PROVE  SumOf(f, S) = f[Pick(S)] + SumOf(f, S \ {Pick(S)})
<1>1. PICK U \in SUBSET S : U = S \ {Pick(S)}
  OBVIOUS
<1>2. IsFiniteSet(U)
  BY FS_Subset
<1>3. PICK g : Recursion(g, f, S) /\ SumOf(f, S) = g[S]
  BY SumIterator
<1>4. PICK h : Recursion(h, f, U) /\ SumOf(f, U) = h[U]
  BY <1>2, SumIterator
<1>5. g[U] = h[U]
  BY <1>2, <1>3, <1>4, RecursionUnique
<1>6. g[S] = f[Pick(S)] + g[U]
  BY <1>1, <1>3, RecursionAt
<1> QED BY <1>1, <1>3, <1>4, <1>5, <1>6

\* A sum of integers is an integer, a sum of naturals a natural.
LEMMA SumInt ==
  ASSUME NEW S, IsFiniteSet(S), NEW f, \A x \in S : f[x] \in Int
  PROVE  SumOf(f, S) \in Int
<1> DEFINE B == {T \in SUBSET S : SumOf(f, T) \notin Int}
<1> SUFFICES ASSUME B # {} PROVE FALSE
  OBVIOUS
<1>0. \E T \in B : \A V \in B : V \subseteq T => V = T
  <2>1. B \in SUBSET SUBSET S
    OBVIOUS
  <2> HIDE DEF B
  <2> QED BY <2>1, LeastSubset
<1>1. PICK T \in B : \A V \in B : V \subseteq T => V = T
  BY <1>0
<1>2. T \in SUBSET S /\ SumOf(f, T) \notin Int /\ IsFiniteSet(T)
  BY FS_Subset
<1>3. T # {}
  BY <1>2, SumEmpty
<1>4. Pick(T) \in T
  BY <1>3, PickIn
<1>5. SumOf(f, T \ {Pick(T)}) \in Int
  BY <1>1, <1>2, <1>4
<1>6. SumOf(f, T) = f[Pick(T)] + SumOf(f, T \ {Pick(T)})
  BY <1>2, <1>3, SumStep
<1>7. f[Pick(T)] \in Int
  BY <1>2, <1>4
<1> QED BY <1>2, <1>5, <1>6, <1>7

LEMMA SumNat ==
  ASSUME NEW S, IsFiniteSet(S), NEW f, \A x \in S : f[x] \in Nat
  PROVE  SumOf(f, S) \in Nat
<1> DEFINE B == {T \in SUBSET S : SumOf(f, T) \notin Nat}
<1> SUFFICES ASSUME B # {} PROVE FALSE
  OBVIOUS
<1>0. \E T \in B : \A V \in B : V \subseteq T => V = T
  <2>1. B \in SUBSET SUBSET S
    OBVIOUS
  <2> HIDE DEF B
  <2> QED BY <2>1, LeastSubset
<1>1. PICK T \in B : \A V \in B : V \subseteq T => V = T
  BY <1>0
<1>2. T \in SUBSET S /\ SumOf(f, T) \notin Nat /\ IsFiniteSet(T)
  BY FS_Subset
<1>3. T # {}
  BY <1>2, SumEmpty
<1>4. Pick(T) \in T
  BY <1>3, PickIn
<1>5. SumOf(f, T \ {Pick(T)}) \in Nat
  BY <1>1, <1>2, <1>4
<1>6. SumOf(f, T) = f[Pick(T)] + SumOf(f, T \ {Pick(T)})
  BY <1>2, <1>3, SumStep
<1>7. f[Pick(T)] \in Nat
  BY <1>2, <1>4
<1> QED BY <1>2, <1>5, <1>6, <1>7

\* Any element may be taken out first: the order of the loop does not matter.
LEMMA SumRemove ==
  ASSUME NEW S, IsFiniteSet(S), NEW f, \A x \in S : f[x] \in Int,
         NEW x \in S
  PROVE  SumOf(f, S) = f[x] + SumOf(f, S \ {x})
<1> DEFINE B == {T \in SUBSET S :
                   \E y \in T : SumOf(f, T) # f[y] + SumOf(f, T \ {y})}
<1> SUFFICES ASSUME B # {} PROVE FALSE
  OBVIOUS
<1>0. \E T \in B : \A V \in B : V \subseteq T => V = T
  <2>1. B \in SUBSET SUBSET S
    OBVIOUS
  <2> HIDE DEF B
  <2> QED BY <2>1, LeastSubset
<1>1. PICK T \in B : \A V \in B : V \subseteq T => V = T
  BY <1>0
<1>2. T \in SUBSET S /\ IsFiniteSet(T)
  BY FS_Subset
<1>3. PICK y \in T : SumOf(f, T) # f[y] + SumOf(f, T \ {y})
  OBVIOUS
<1>4. PICK p \in T : p = Pick(T)
  BY <1>3, PickIn
<1>5. SumOf(f, T) = f[p] + SumOf(f, T \ {p})
  BY <1>2, <1>3, <1>4, SumStep
<1>6. p # y
  BY <1>3, <1>5
<1>7. T \ {p} \notin B /\ T \ {y} \notin B
  BY <1>1, <1>3, <1>4
<1>8. SumOf(f, T \ {p}) = f[y] + SumOf(f, (T \ {p}) \ {y})
  BY <1>2, <1>3, <1>6, <1>7
<1>9. SumOf(f, T \ {y}) = f[p] + SumOf(f, (T \ {y}) \ {p})
  BY <1>2, <1>4, <1>6, <1>7
<1>10. (T \ {p}) \ {y} = (T \ {y}) \ {p}
  OBVIOUS
<1>11. PICK r : r = SumOf(f, (T \ {p}) \ {y})
  OBVIOUS
<1>12. r \in Int /\ f[p] \in Int /\ f[y] \in Int
  <2>1. IsFiniteSet((T \ {p}) \ {y}) /\ (T \ {p}) \ {y} \subseteq S
    BY <1>2, FS_Subset
  <2> QED BY <1>2, <1>3, <1>4, <1>11, <2>1, SumInt
<1> QED BY <1>3, <1>5, <1>8, <1>9, <1>10, <1>11, <1>12

\* One element more.
LEMMA SumInsert ==
  ASSUME NEW S, IsFiniteSet(S), NEW f, \A x \in S : f[x] \in Int,
         NEW x, x \notin S, f[x] \in Int
  PROVE  SumOf(f, S \cup {x}) = SumOf(f, S) + f[x]
<1>1. IsFiniteSet(S \cup {x}) /\ (S \cup {x}) \ {x} = S
  BY FS_AddElement
<1>2. \A y \in S \cup {x} : f[y] \in Int
  OBVIOUS
<1>3. SumOf(f, S \cup {x}) = f[x] + SumOf(f, S)
  BY <1>1, <1>2, SumRemove
<1>4. SumOf(f, S) \in Int
  BY SumInt
<1> QED BY <1>3, <1>4

\* The sum of two functions added up pointwise.
LEMMA SumPlus ==
  ASSUME NEW S, IsFiniteSet(S), NEW f, NEW g, NEW h,
         \A x \in S : f[x] \in Int /\ g[x] \in Int /\ h[x] = f[x] + g[x]
  PROVE  SumOf(h, S) = SumOf(f, S) + SumOf(g, S)
<1> DEFINE B == {T \in SUBSET S : SumOf(h, T) # SumOf(f, T) + SumOf(g, T)}
<1> SUFFICES ASSUME B # {} PROVE FALSE
  OBVIOUS
<1>0. \E T \in B : \A V \in B : V \subseteq T => V = T
  <2>1. B \in SUBSET SUBSET S
    OBVIOUS
  <2> HIDE DEF B
  <2> QED BY <2>1, LeastSubset
<1>1. PICK T \in B : \A V \in B : V \subseteq T => V = T
  BY <1>0
<1>2. /\ T \in SUBSET S /\ IsFiniteSet(T)
      /\ SumOf(h, T) # SumOf(f, T) + SumOf(g, T)
  BY FS_Subset
<1>3. T # {}
  <2>1. SumOf(h, {}) = 0 /\ SumOf(f, {}) = 0 /\ SumOf(g, {}) = 0
    BY SumEmpty
  <2>2. SumOf(h, {}) = SumOf(f, {}) + SumOf(g, {})
    BY <2>1
  <2> QED BY <1>2, <2>2
<1>4. PICK p \in T : p = Pick(T)
  BY <1>3, PickIn
<1>5. PICK U \in SUBSET T : U = T \ {p}
  OBVIOUS
<1>6. SumOf(h, U) = SumOf(f, U) + SumOf(g, U)
  BY <1>1, <1>2, <1>5
<1>7. /\ SumOf(f, T) = f[p] + SumOf(f, U)
      /\ SumOf(g, T) = g[p] + SumOf(g, U)
      /\ SumOf(h, T) = h[p] + SumOf(h, U)
  BY <1>2, <1>3, <1>4, <1>5, SumStep
<1>8. /\ SumOf(f, U) \in Int /\ SumOf(g, U) \in Int
      /\ f[p] \in Int /\ g[p] \in Int /\ h[p] = f[p] + g[p]
  <2>1. IsFiniteSet(U) /\ \A x \in U : f[x] \in Int /\ g[x] \in Int
    BY <1>2, FS_Subset
  <2> QED BY <1>2, <2>1, SumInt
<1> QED BY <1>2, <1>6, <1>7, <1>8

\* A smaller function has a smaller sum.
LEMMA SumLess ==
  ASSUME NEW S, IsFiniteSet(S), NEW f, NEW g,
         \A x \in S : f[x] \in Int /\ g[x] \in Int /\ f[x] <= g[x]
  PROVE  SumOf(f, S) <= SumOf(g, S)
<1> DEFINE d == [x \in S |-> g[x] - f[x]]
<1>1. \A x \in S : f[x] \in Int /\ d[x] \in Int /\ g[x] = f[x] + d[x]
  OBVIOUS
<1>2. \A x \in S : d[x] \in Nat
  OBVIOUS
<1> HIDE DEF d
<1>3. SumOf(g, S) = SumOf(f, S) + SumOf(d, S)
  BY <1>1, SumPlus
<1>4. SumOf(d, S) \in Nat /\ SumOf(f, S) \in Int
  BY <1>1, <1>2, SumNat, SumInt
<1> QED BY <1>3, <1>4

\* The sum depends only on the values in the set.
LEMMA SumSame ==
  ASSUME NEW S, IsFiniteSet(S), NEW f, NEW g,
         \A x \in S : f[x] \in Int /\ f[x] = g[x]
  PROVE  SumOf(f, S) = SumOf(g, S)
<1>1. /\ SumOf(f, S) <= SumOf(g, S)
      /\ SumOf(g, S) <= SumOf(f, S)
  BY SumLess
<1>2. SumOf(f, S) \in Int /\ SumOf(g, S) \in Int
  BY SumInt
<1> QED BY <1>1, <1>2

\* A change at one element changes the sum by as much.
LEMMA SumChange ==
  ASSUME NEW S, IsFiniteSet(S), NEW f, NEW g, NEW x \in S,
         \A y \in S : f[y] \in Int /\ g[y] \in Int,
         \A y \in S : y # x => g[y] = f[y]
  PROVE  SumOf(g, S) = SumOf(f, S) + (g[x] - f[x])
<1>1. PICK U \in SUBSET S : U = S \ {x}
  OBVIOUS
<1>2. IsFiniteSet(U) /\ \A y \in U : f[y] \in Int /\ f[y] = g[y]
  BY <1>1, FS_Subset
<1>3. SumOf(f, U) = SumOf(g, U)
  BY <1>2, SumSame
<1>4. SumOf(f, S) = f[x] + SumOf(f, U) /\ SumOf(g, S) = g[x] + SumOf(g, U)
  BY <1>1, SumRemove
<1>5. SumOf(f, U) \in Int /\ f[x] \in Int /\ g[x] \in Int
  BY <1>2, SumInt
<1> QED BY <1>3, <1>4, <1>5

\* A function that is zero everywhere.
LEMMA SumZero ==
  ASSUME NEW S, IsFiniteSet(S), NEW f, \A x \in S : f[x] = 0
  PROVE  SumOf(f, S) = 0
<1>1. SumOf(f, S) = SumOf(f, S) + SumOf(f, S)
  BY SumPlus
<1>2. PICK n \in Int : n = SumOf(f, S)
  BY SumInt
<1>3. n = n + n
  BY <1>1, <1>2
<1>4. \A m \in Int : m = m + m => m = 0
  OBVIOUS
<1>5. n = 0
  BY <1>3, <1>4
<1> QED BY <1>2, <1>5

\* Elements where the function is zero may be left out.
LEMMA SumSupport ==
  ASSUME NEW S, IsFiniteSet(S), NEW T \in SUBSET S, NEW f,
         \A x \in T : f[x] \in Int, \A x \in S \ T : f[x] = 0
  PROVE  SumOf(f, S) = SumOf(f, T)
<1> DEFINE B == {U \in SUBSET (S \ T) : SumOf(f, T \cup U) # SumOf(f, T)}
<1>0. IsFiniteSet(S \ T) /\ IsFiniteSet(T)
  BY FS_Subset
<1>1. ASSUME B # {} PROVE FALSE
  <2>0. \E U \in B : \A V \in B : V \subseteq U => V = U
    <3>1. B \in SUBSET SUBSET (S \ T)
      OBVIOUS
    <3> HIDE DEF B
    <3> QED BY <1>0, <1>1, <3>1, LeastSubset
  <2>1. PICK U \in B : \A V \in B : V \subseteq U => V = U
    BY <2>0
  <2>2. U # {}
    OBVIOUS
  <2>3. PICK p \in U : TRUE
    BY <2>2
  <2>4. PICK W \in SUBSET S : W = T \cup (U \ {p})
    OBVIOUS
  <2>5. SumOf(f, W) = SumOf(f, T)
    <3>1. U \ {p} \in SUBSET (S \ T) /\ U \ {p} # U
      BY <2>1, <2>3
    <3>2. U \ {p} \notin B
      BY <2>1, <3>1
    <3> QED BY <2>4, <3>1, <3>2
  <2>6. IsFiniteSet(W) /\ p \notin W /\ f[p] = 0 /\ W \cup {p} = T \cup U
    BY <2>3, <2>4, FS_Subset
  <2>7. \A x \in W : f[x] \in Int
    BY <2>4
  <2>8. SumOf(f, T \cup U) = SumOf(f, W) + 0
    BY <2>6, <2>7, SumInsert
  <2>9. SumOf(f, W) \in Int
    BY <2>6, <2>7, SumInt
  <2> QED BY <2>1, <2>5, <2>8, <2>9
<1>2. S \ T \notin B
  BY <1>1
<1>3. T \cup (S \ T) = S
  OBVIOUS
<1> QED BY <1>2, <1>3

\* The sum over a set is split by a subset.
LEMMA SumSplit ==
  ASSUME NEW S, IsFiniteSet(S), NEW T \in SUBSET S, NEW f,
         \A x \in S : f[x] \in Int
  PROVE  SumOf(f, S) = SumOf(f, T) + SumOf(f, S \ T)
<1> DEFINE a == [x \in S |-> IF x \in T THEN f[x] ELSE 0]
           b == [x \in S |-> IF x \in T THEN 0 ELSE f[x]]
<1>1. /\ \A x \in S : a[x] \in Int /\ b[x] \in Int /\ f[x] = a[x] + b[x]
      /\ \A x \in T : a[x] = f[x]
      /\ \A x \in S \ T : a[x] = 0
      /\ \A x \in S \ T : b[x] = f[x]
      /\ \A x \in S \ (S \ T) : b[x] = 0
  OBVIOUS
<1> HIDE DEF a, b
<1>2. IsFiniteSet(T) /\ IsFiniteSet(S \ T)
  BY FS_Subset
<1>3. SumOf(f, S) = SumOf(a, S) + SumOf(b, S)
  BY <1>1, SumPlus
<1>4. SumOf(a, S) = SumOf(a, T)
  BY <1>1, SumSupport
<1>5. SumOf(b, S) = SumOf(b, S \ T)
  <2>1. S \ T \in SUBSET S /\ \A x \in S \ T : b[x] \in Int
    BY <1>1
  <2> QED BY <1>1, <2>1, SumSupport
<1>6. SumOf(a, T) = SumOf(f, T) /\ SumOf(b, S \ T) = SumOf(f, S \ T)
  BY <1>1, <1>2, SumSame
<1> QED BY <1>3, <1>4, <1>5, <1>6

\* No part exceeds the whole.
LEMMA SumPart ==
  ASSUME NEW S, IsFiniteSet(S), NEW T \in SUBSET S, NEW f,
         \A x \in S : f[x] \in Nat
  PROVE  SumOf(f, T) <= SumOf(f, S)
<1>1. IsFiniteSet(T) /\ IsFiniteSet(S \ T)
  BY FS_Subset
<1>2. SumOf(f, T) \in Nat /\ SumOf(f, S \ T) \in Nat
  BY <1>1, SumNat
<1>3. SumOf(f, S) = SumOf(f, T) + SumOf(f, S \ T)
  BY SumSplit
<1> QED BY <1>2, <1>3

LEMMA SumAtLeast ==
  ASSUME NEW S, IsFiniteSet(S), NEW f, \A y \in S : f[y] \in Nat, NEW x \in S
  PROVE  f[x] <= SumOf(f, S)
<1>1. SumOf(f, S) = f[x] + SumOf(f, S \ {x})
  BY SumRemove
<1>2. IsFiniteSet(S \ {x})
  BY FS_Subset
<1>3. SumOf(f, S \ {x}) \in Nat
  BY <1>2, SumNat
<1> QED BY <1>1, <1>3

\* The sum of a constant.
LEMMA SumConstant ==
  ASSUME NEW S, IsFiniteSet(S), NEW c \in Nat, NEW f, \A x \in S : f[x] = c
  PROVE  SumOf(f, S) = c * Cardinality(S)
<1> DEFINE B == {T \in SUBSET S : SumOf(f, T) # c * Cardinality(T)}
<1> SUFFICES ASSUME B # {} PROVE FALSE
  OBVIOUS
<1>0. \E T \in B : \A V \in B : V \subseteq T => V = T
  <2>1. B \in SUBSET SUBSET S
    OBVIOUS
  <2> HIDE DEF B
  <2> QED BY <2>1, LeastSubset
<1>1. PICK T \in B : \A V \in B : V \subseteq T => V = T
  BY <1>0
<1>2. T \in SUBSET S /\ IsFiniteSet(T) /\ SumOf(f, T) # c * Cardinality(T)
  BY FS_Subset
<1>3. T # {}
  BY <1>2, SumEmpty, FS_EmptySet
<1>4. PICK p \in T : p = Pick(T)
  BY <1>3, PickIn
<1>5. PICK U \in SUBSET T : U = T \ {p}
  OBVIOUS
<1>6. SumOf(f, U) = c * Cardinality(U)
  BY <1>1, <1>2, <1>5
<1>7. SumOf(f, T) = f[p] + SumOf(f, U) /\ f[p] = c
  BY <1>2, <1>3, <1>4, <1>5, SumStep
<1>8. IsFiniteSet(U) /\ Cardinality(U) = Cardinality(T) - 1
  BY <1>2, <1>5, FS_RemoveElement
<1>9. PICK n \in Nat : n = Cardinality(U)
  BY <1>8, FS_CardinalityType
<1>10. Cardinality(T) = n + 1
  BY <1>2, <1>8, <1>9, FS_CardinalityType
<1>11. c * (n + 1) = c + c * n
  OBVIOUS
<1> QED BY <1>2, <1>6, <1>7, <1>9, <1>10, <1>11

\* A common factor.
LEMMA SumScaled ==
  ASSUME NEW S, IsFiniteSet(S), NEW k \in Int, NEW f, NEW g,
         \A x \in S : f[x] \in Int /\ g[x] = k * f[x]
  PROVE  SumOf(g, S) = k * SumOf(f, S)
<1> DEFINE B == {T \in SUBSET S : SumOf(g, T) # k * SumOf(f, T)}
<1> SUFFICES ASSUME B # {} PROVE FALSE
  OBVIOUS
<1>0. \E T \in B : \A V \in B : V \subseteq T => V = T
  <2>1. B \in SUBSET SUBSET S
    OBVIOUS
  <2> HIDE DEF B
  <2> QED BY <2>1, LeastSubset
<1>1. PICK T \in B : \A V \in B : V \subseteq T => V = T
  BY <1>0
<1>2. T \in SUBSET S /\ IsFiniteSet(T) /\ SumOf(g, T) # k * SumOf(f, T)
  BY FS_Subset
<1>3. T # {}
  BY <1>2, SumEmpty
<1>4. PICK p \in T : p = Pick(T)
  BY <1>3, PickIn
<1>5. PICK U \in SUBSET T : U = T \ {p}
  OBVIOUS
<1>6. SumOf(g, U) = k * SumOf(f, U)
  BY <1>1, <1>2, <1>5
<1>7. /\ SumOf(f, T) = f[p] + SumOf(f, U)
      /\ SumOf(g, T) = k * f[p] + SumOf(g, U)
  BY <1>2, <1>3, <1>4, <1>5, SumStep
<1>8. PICK m \in Int : m = SumOf(f, U)
  <2>1. IsFiniteSet(U) /\ \A x \in U : f[x] \in Int
    BY <1>2, FS_Subset
  <2> QED BY <2>1, SumInt
<1>9. PICK n \in Int : n = f[p]
  BY <1>2
<1>10. k * (n + m) = k * n + k * m
  OBVIOUS
<1> QED BY <1>2, <1>6, <1>7, <1>8, <1>9, <1>10
=============================================================================
