-------------------------------- MODULE Sums --------------------------------
(* What SumFunction of a finite function adds up to.  The fold that defines  *)
(* it takes the elements in an order nobody knows; counting them instead,    *)
(* f[x] units for each x, has no order, and the rest is about cardinalities. *)
EXTENDS Integers, FiniteSets, Functions, FiniteSetTheorems, WellFoundedInduction, TLAPS

\* The units of the elements of S.
Units(f, S) == {u \in S \X Nat : 1 <= u[2] /\ u[2] <= f[u[1]]}

\* A set of numbers that has a member has a least one.
LEMMA LeastOf ==
  ASSUME NEW S \in SUBSET Nat, S # {}
  PROVE  \E x \in S : \A y \in S : x <= y
<1>1. \E x \in S : \A y \in S : ~(<<y, x>> \in OpToRel(<, Nat))
  BY NatLessThanWellFounded, WFMin
<1>2. \A x, y \in Nat : <<y, x>> \in OpToRel(<, Nat) <=> y < x
  BY Zenon DEF OpToRel
<1>3. \E x \in S : \A y \in S : ~(y < x)
  BY <1>1, <1>2
<1>4. \A x, y \in S : ~(y < x) => x <= y
  OBVIOUS
<1> QED  BY <1>3, <1>4

LEMMA UnitsOfOne ==
  ASSUME NEW x, NEW n \in Nat
  PROVE  IsFiniteSet({x} \X (1..n)) /\ Cardinality({x} \X (1..n)) = n
<1>1. IsFiniteSet({x}) /\ Cardinality({x}) = 1
  BY FS_Singleton
<1>2. IsFiniteSet(1..n) /\ Cardinality(1..n) = n
  BY FS_Interval
<1>3. IsFiniteSet({x} \X (1..n))
      /\ Cardinality({x} \X (1..n)) = Cardinality({x}) * Cardinality(1..n)
  BY <1>1, <1>2, FS_Product
<1>4. Cardinality({x}) * Cardinality(1..n) = n
  BY <1>1, <1>2
<1> QED  BY <1>3, <1>4

LEMMA UnitsFinite ==
  ASSUME NEW S, IsFiniteSet(S), NEW f \in [S -> Nat]
  PROVE  IsFiniteSet(Units(f, S))
<1> DEFINE col == [x \in S |-> {x} \X (1..f[x])]
           cols == {col[x] : x \in S}
<1>1. col \in Surjection(S, cols)
  BY DEF Surjection
<1>2. IsFiniteSet(cols)
  BY <1>1, FS_Surjection
<1>3. ASSUME NEW T \in cols
      PROVE  IsFiniteSet(T)
  <2>1. PICK x \in S : T = {x} \X (1..f[x])
    OBVIOUS
  <2>2. f[x] \in Nat
    OBVIOUS
  <2> QED  BY <2>1, <2>2, UnitsOfOne
<1>4. IsFiniteSet(UNION cols)
  BY <1>2, <1>3, FS_UNION
<1>5. Units(f, S) \subseteq UNION cols
  BY DEF Units
<1> HIDE DEF cols
<1> QED  BY <1>4, <1>5, FS_Subset

LEMMA UnitsSplit ==
  ASSUME NEW S, IsFiniteSet(S), NEW f \in [S -> Nat], NEW T \in SUBSET S, NEW x \in T
  PROVE  Cardinality(Units(f, T)) = f[x] + Cardinality(Units(f, T \ {x}))
<1> DEFINE one == {x} \X (1..f[x])
           rest == Units(f, T \ {x})
<1>1. Units(f, T) = one \cup rest /\ one \cap rest = {}
  BY DEF Units
<1>2. IsFiniteSet(one) /\ Cardinality(one) = f[x]
  BY UnitsOfOne
<1>3. IsFiniteSet(rest)
  <2>1. rest \subseteq Units(f, S)
    BY DEF Units
  <2> QED  BY <2>1, UnitsFinite, FS_Subset
<1>4. Cardinality(rest) \in Nat /\ Cardinality({}) = 0
  BY <1>3, FS_CardinalityType, FS_EmptySet
<1> HIDE DEF one, rest
<1>5. Cardinality(one \cup rest) = f[x] + Cardinality(rest)
  <2>1. f[x] \in Nat
    OBVIOUS
  <2>2. Cardinality(one \cup rest)
          = Cardinality(one) + Cardinality(rest) - Cardinality(one \cap rest)
    BY <1>2, <1>3, FS_Union
  <2>3. Cardinality(one \cap rest) = 0
    BY <1>1, <1>4, Zenon
  <2> QED  BY <1>2, <1>4, <2>1, <2>2, <2>3
<1> QED  BY <1>1, <1>5 DEF rest

\* The sum is the number of units.
LEMMA SumCounts ==
  ASSUME NEW S, IsFiniteSet(S), NEW f \in [S -> Nat]
  PROVE  SumFunction(f) = Cardinality(Units(f, S))
<1> DEFINE Pick(s) == CHOOSE x \in s : TRUE
           Folds(g) == g = [s \in SUBSET S |->
                              IF s = {} THEN 0 ELSE f[Pick(s)] + g[s \ {Pick(s)}]]
           count == [s \in SUBSET S |-> Cardinality(Units(f, s))]
           iter == CHOOSE g : Folds(g)
<1>1. SumFunction(f) = iter[S]
  BY DEF SumFunction, SumFunctionOnSet, FoldFunctionOnSet, MapThenFoldSet
<1>2. Folds(count)
  <2>1. count[{}] = 0
    BY FS_EmptySet DEF Units
  <2>2. ASSUME NEW s \in SUBSET S, s # {}
        PROVE  count[s] = f[Pick(s)] + count[s \ {Pick(s)}]
    <3>1. Pick(s) \in s /\ s \ {Pick(s)} \in SUBSET S
      BY <2>2
    <3> HIDE DEF Pick
    <3>2. Cardinality(Units(f, s)) = f[Pick(s)] + Cardinality(Units(f, s \ {Pick(s)}))
      BY <3>1, UnitsSplit
    <3> QED  BY <3>1, <3>2
  <2> QED  BY <2>1, <2>2
<1>3. Folds(iter)
  BY <1>2
<1>4. ASSUME NEW s \in SUBSET S, iter[s] # count[s]
      PROVE  FALSE
  <2> DEFINE Sizes == {Cardinality(t) : t \in {u \in SUBSET S : iter[u] # count[u]}}
  <2>1. \A t \in SUBSET S : IsFiniteSet(t) /\ Cardinality(t) \in Nat
    BY FS_Subset, FS_CardinalityType
  <2>2. Sizes \in SUBSET Nat /\ Sizes # {}
    BY <1>4, <2>1
  <2>3. PICK n \in Sizes : \A m \in Sizes : n <= m
    BY <2>2, LeastOf
  <2>4. PICK t \in SUBSET S : iter[t] # count[t] /\ Cardinality(t) = n
    BY <2>3
  <2>5. t # {}
    BY <2>4, <1>2, <1>3
  <2>6. Pick(t) \in t
    BY <2>5
  <2>7. Cardinality(t \ {Pick(t)}) = n - 1
    BY <2>1, <2>4, <2>6, FS_RemoveElement
  <2>8. iter[t \ {Pick(t)}] = count[t \ {Pick(t)}]
    <3>1. t \ {Pick(t)} \in SUBSET S /\ n \in Nat
      BY <2>2, <2>3
    <3> HIDE DEF Pick, iter, count
    <3>2. CASE iter[t \ {Pick(t)}] # count[t \ {Pick(t)}]
      <4>1. n - 1 \in Sizes
        BY <2>7, <3>1, <3>2
      <4> QED  BY <2>3, <3>1, <4>1
    <3> QED  BY <3>2
  <2>9. iter[t] = f[Pick(t)] + iter[t \ {Pick(t)}]
        /\ count[t] = f[Pick(t)] + count[t \ {Pick(t)}]
    <3> HIDE DEF Pick, iter, count
    <3> QED  BY <1>2, <1>3, <2>5
  <2> QED  BY <2>4, <2>8, <2>9
<1> QED  BY <1>1, <1>4

\* A sum of nothing, and of numbers.
LEMMA SumEmpty ==
  ASSUME NEW f, DOMAIN f = {}
  PROVE  SumFunction(f) = 0
<1>1. f \in [{} -> Nat] /\ Units(f, {}) = {}
  BY DEF Units
<1>2. SumFunction(f) = Cardinality(Units(f, {}))
  BY <1>1, SumCounts, FS_EmptySet
<1> QED  BY <1>1, <1>2, FS_EmptySet

LEMMA SumType ==
  ASSUME NEW S, IsFiniteSet(S), NEW f \in [S -> Nat]
  PROVE  SumFunction(f) \in Nat
  BY SumCounts, UnitsFinite, FS_CardinalityType

\* What one element contributes, and what the others do.
LEMMA SumAt ==
  ASSUME NEW S, IsFiniteSet(S), NEW f \in [S -> Nat], NEW x \in S
  PROVE  SumFunction(f) = f[x] + SumFunction([y \in S \ {x} |-> f[y]])
<1> DEFINE g == [y \in S \ {x} |-> f[y]]
<1>1. IsFiniteSet(S \ {x}) /\ g \in [S \ {x} -> Nat]
  BY FS_RemoveElement
<1>2. Units(g, S \ {x}) = Units(f, S \ {x})
  BY DEF Units
<1>3. S \in SUBSET S
  OBVIOUS
<1> HIDE DEF g
<1>4. SumFunction(g) = Cardinality(Units(f, S \ {x}))
  BY <1>1, <1>2, SumCounts
<1>5. SumFunction(f) = Cardinality(Units(f, S))
  BY SumCounts
<1>6. Cardinality(Units(f, S)) = f[x] + Cardinality(Units(f, S \ {x}))
  BY <1>3, UnitsSplit
<1> QED  BY <1>4, <1>5, <1>6 DEF g

\* Two functions that differ at one place differ in sum by what they do there.
LEMMA SumChange ==
  ASSUME NEW S, IsFiniteSet(S), NEW f \in [S -> Nat], NEW g \in [S -> Nat], NEW x \in S,
         \A y \in S \ {x} : f[y] = g[y]
  PROVE  SumFunction(f) + g[x] = SumFunction(g) + f[x]
<1>1. [y \in S \ {x} |-> f[y]] = [y \in S \ {x} |-> g[y]]
  OBVIOUS
<1>2. SumFunction(f) = f[x] + SumFunction([y \in S \ {x} |-> g[y]])
  BY <1>1, SumAt
<1>3. SumFunction(g) = g[x] + SumFunction([y \in S \ {x} |-> g[y]])
  BY SumAt
<1>4. SumFunction([y \in S \ {x} |-> g[y]]) \in Nat
  <2>1. [y \in S \ {x} |-> g[y]] \in [S \ {x} -> Nat] /\ IsFiniteSet(S \ {x})
    BY FS_RemoveElement
  <2> QED  BY <2>1, SumType
<1>5. f[x] \in Nat /\ g[x] \in Nat
  OBVIOUS
<1> QED  BY <1>2, <1>3, <1>4, <1>5

\* One element more.
LEMMA SumMore ==
  ASSUME NEW S, IsFiniteSet(S), NEW f \in [S -> Nat], NEW x, x \notin S,
         NEW g \in [S \cup {x} -> Nat], \A y \in S : g[y] = f[y]
  PROVE  SumFunction(g) = SumFunction(f) + g[x]
<1> DEFINE T == S \cup {x}
<1>1. IsFiniteSet(T) /\ g \in [T -> Nat] /\ x \in T
  BY FS_AddElement
<1>2. T \ {x} = S
  OBVIOUS
<1> HIDE DEF T
<1>3. SumFunction(g) = g[x] + SumFunction([y \in T \ {x} |-> g[y]])
  BY <1>1, SumAt
<1>4. [y \in T \ {x} |-> g[y]] = f
  BY <1>2
<1>5. SumFunction(f) \in Nat /\ g[x] \in Nat
  BY <1>1, SumType
<1> QED  BY <1>3, <1>4, <1>5

\* Elements that contribute nothing may be left out.
LEMMA SumWithout ==
  ASSUME NEW S, IsFiniteSet(S), NEW f \in [S -> Nat], NEW T \in SUBSET S,
         \A x \in S \ T : f[x] = 0
  PROVE  SumFunction([x \in T |-> f[x]]) = SumFunction(f)
<1> DEFINE g == [x \in T |-> f[x]]
<1>1. IsFiniteSet(T) /\ g \in [T -> Nat]
  BY FS_Subset
<1>2. Units(g, T) = Units(f, S)
  <2>1. \A u : u \in Units(f, S) => u[1] \in T
    BY DEF Units
  <2> QED  BY <2>1 DEF Units
<1> HIDE DEF g
<1>3. SumFunction(g) = Cardinality(Units(g, T))
  BY <1>1, SumCounts
<1>4. SumFunction(f) = Cardinality(Units(f, S))
  BY SumCounts
<1> QED  BY <1>2, <1>3, <1>4 DEF g

\* The sum along a row of numbers that has become one longer.
LEMMA SumLonger ==
  ASSUME NEW n, NEW f, NEW g
  PROVE  n \in Nat /\ f \in [1..n -> Nat] /\ g \in [1..(n + 1) -> Nat] /\ (\A k \in 1..n : g[k] = f[k])
           => SumFunction(g) = SumFunction(f) + g[n + 1]
<1>1. SUFFICES ASSUME n \in Nat, f \in [1..n -> Nat], g \in [1..(n + 1) -> Nat],
                      \A k \in 1..n : g[k] = f[k]
               PROVE  SumFunction(g) = SumFunction(f) + g[n + 1]
  OBVIOUS
<1> DEFINE S == 1..n
           x == n + 1
<1>2. IsFiniteSet(S) /\ x \notin S
  BY <1>1, FS_Interval
<1>3. f \in [S -> Nat] /\ g \in [S \cup {x} -> Nat] /\ \A k \in S : g[k] = f[k]
  <2>1. 1..x = S \cup {x}
    BY <1>1
  <2> QED  BY <1>1, <2>1
<1> HIDE DEF S, x
<1>4. SumFunction(g) = SumFunction(f) + g[x]
  BY <1>2, <1>3, SumMore
<1> QED  BY <1>4 DEF x
=============================================================================
