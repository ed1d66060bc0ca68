--------------------------- MODULE WeightsProofs ---------------------------
(***************************************************************************)
(* Facts about sums of weight.  Since Total(f) is the number of weight     *)
(* units of f, each is a fact about the cardinality of finite sets.        *)
(***************************************************************************)
EXTENDS Weights, Integers, FiniteSetTheorems, TLAPS

\* The weight units that a holds when it has n of them.
UnitsOf(a, n) == {a} \X (1..n)

\* n units are n units.
LEMMA UnitsOfCount ==
  ASSUME NEW a, NEW n \in Nat
  PROVE  IsFiniteSet(UnitsOf(a, n)) /\ Cardinality(UnitsOf(a, n)) = n
<1>1. IsFiniteSet({a}) /\ Cardinality({a}) = 1
  BY FS_Singleton
<1>2. IsFiniteSet(1..n) /\ Cardinality(1..n) = n
  BY FS_Interval
<1>3. /\ IsFiniteSet({a} \X (1..n))
      /\ Cardinality({a} \X (1..n)) = Cardinality({a}) * Cardinality(1..n)
  BY <1>1, <1>2, FS_Product
<1>4. 1 * n = n
  OBVIOUS
<1> QED
  BY <1>1, <1>2, <1>3, <1>4 DEF UnitsOf

\* A finite assignment of natural numbers has finitely many units.
LEMMA UnitsFinite ==
  ASSUME NEW S, IsFiniteSet(S), NEW f \in [S -> Nat]
  PROVE  IsFiniteSet(Units(f))
<1> DEFINE Parts == {UnitsOf(a, f[a]) : a \in S}
           part == [a \in S |-> UnitsOf(a, f[a])]
<1>1. part \in Surjection(S, Parts)
  BY DEF Surjection
<1>2. IsFiniteSet(Parts)
  BY <1>1, FS_Surjection
<1>3. \A P \in Parts : IsFiniteSet(P)
  BY UnitsOfCount
<1>4. Units(f) = UNION Parts
  BY DEF Units, UnitsOf
<1> QED
  BY <1>2, <1>3, <1>4, FS_UNION

\* The sum of a finite assignment is a natural number.
LEMMA TotalType ==
  ASSUME NEW S, IsFiniteSet(S), NEW f \in [S -> Nat]
  PROVE  Total(f) \in Nat
BY UnitsFinite, FS_CardinalityType DEF Total

\* Nobody has weight, so there is none.
LEMMA TotalOfZero ==
  ASSUME NEW S, NEW f \in [S -> Nat], \A a \in S : f[a] = 0
  PROVE  Total(f) = 0
<1>1. \A n \in Int : n = 0 => 1..n = {}
  OBVIOUS
<1>2. Units(f) = {}
  BY <1>1 DEF Units
<1> QED
  BY <1>2, FS_EmptySet DEF Total

\* Changing one share changes the sum by the difference.
LEMMA TotalUpdate ==
  ASSUME NEW S, IsFiniteSet(S), NEW f \in [S -> Nat], NEW a \in S, NEW v \in Nat
  PROVE  Total([f EXCEPT ![a] = v]) = Total(f) - f[a] + v
<1> DEFINE g == [f EXCEPT ![a] = v]
           rest == {u \in Units(f) : u[1] # a}
<1>1. Units(f) = rest \cup UnitsOf(a, f[a])
  BY DEF Units, UnitsOf
<1>2. Units(g) = rest \cup UnitsOf(a, v)
  BY DEF Units, UnitsOf
<1>3. rest \cap UnitsOf(a, f[a]) = {} /\ rest \cap UnitsOf(a, v) = {}
  BY DEF UnitsOf
<1>4. IsFiniteSet(rest) /\ Cardinality(rest) \in Nat
  BY UnitsFinite, FS_Subset, FS_CardinalityType
<1> HIDE DEF g, rest
<1>5. Cardinality(Units(f)) = Cardinality(rest) + f[a]
  BY <1>1, <1>3, <1>4, UnitsOfCount, FS_Union, FS_EmptySet
<1>6. Cardinality(Units(g)) = Cardinality(rest) + v
  BY <1>2, <1>3, <1>4, UnitsOfCount, FS_Union, FS_EmptySet
<1> QED
  BY <1>4, <1>5, <1>6 DEF Total, g

\* No share exceeds the sum.
LEMMA ShareAtMostTotal ==
  ASSUME NEW S, IsFiniteSet(S), NEW f \in [S -> Nat], NEW a \in S
  PROVE  f[a] <= Total(f)
<1>1. UnitsOf(a, f[a]) \subseteq Units(f)
  BY DEF Units, UnitsOf
<1> QED
  BY <1>1, UnitsFinite, UnitsOfCount, FS_Subset DEF Total

\* Two assignments that nobody shares in both, each bounded by a third, are
\* together bounded by it.
LEMMA DisjointTotals ==
  ASSUME NEW S, IsFiniteSet(S),
         NEW f \in [S -> Nat], NEW g \in [S -> Nat], NEW h \in [S -> Nat],
         \A a \in S : f[a] <= h[a] /\ g[a] <= h[a],
         \A a \in S : f[a] = 0 \/ g[a] = 0
  PROVE  Total(f) + Total(g) <= Total(h)
<1>1. Units(f) \subseteq Units(h) /\ Units(g) \subseteq Units(h)
  BY DEF Units
<1>2. Units(f) \cap Units(g) = {}
  BY DEF Units
<1>3. /\ IsFiniteSet(Units(f)) /\ IsFiniteSet(Units(g)) /\ IsFiniteSet(Units(h))
      /\ Cardinality(Units(f)) \in Nat /\ Cardinality(Units(g)) \in Nat
  BY UnitsFinite, FS_CardinalityType
<1>4. Cardinality(Units(f) \cup Units(g)) = Total(f) + Total(g)
  <2>1. Cardinality(Units(f) \cup Units(g))
          = Cardinality(Units(f)) + Cardinality(Units(g)) - Cardinality({})
    BY <1>2, <1>3, FS_Union
  <2>2. Cardinality({}) = 0
    BY FS_EmptySet
  <2> QED
    BY <1>3, <2>1, <2>2 DEF Total
<1>5. Units(f) \cup Units(g) \subseteq Units(h)
  BY <1>1
<1> QED
  BY <1>3, <1>4, <1>5, FS_Subset DEF Total

\* A unit is somebody's i-th.
LEMMA UnitOf ==
  ASSUME NEW S, NEW f \in [S -> Nat], NEW a, NEW n
  PROVE  <<a, n>> \in Units(f) <=> a \in S /\ n \in 1..f[a]
BY DEF Units

LEMMA UnitsArePairs ==
  ASSUME NEW S, NEW f \in [S -> Nat], NEW u \in Units(f)
  PROVE  u = <<u[1], u[2]>> /\ u[1] \in S /\ u[2] \in 1..f[u[1]]
BY DEF Units

\* The sum of two assignments has the sum of their sums.
LEMMA SumOfTotals ==
  ASSUME NEW S, IsFiniteSet(S),
         NEW f \in [S -> Nat], NEW g \in [S -> Nat], NEW h \in [S -> Nat],
         \A a \in S : h[a] = f[a] + g[a]
  PROVE  Total(h) = Total(f) + Total(g)
<1> DEFINE above == {u \in Units(h) : u[2] > f[u[1]]}
           lift == [u \in Units(g) |-> <<u[1], f[u[1]] + u[2]>>]
<1>1. lift \in [Units(g) -> above]
  <2> SUFFICES ASSUME NEW u \in Units(g)
               PROVE  <<u[1], f[u[1]] + u[2]>> \in above
    OBVIOUS
  <2>1. u[1] \in S /\ u[2] \in 1..g[u[1]]
    BY UnitsArePairs
  <2> DEFINE a == u[1]
             n == u[2]
             m == f[a] + n
  <2>2. a \in S /\ n \in 1..g[a] /\ f[a] \in Nat /\ g[a] \in Nat /\ h[a] = f[a] + g[a]
    BY <2>1
  <2> HIDE DEF a, n
  <2>3. m \in 1..h[a] /\ m > f[a]
    BY <2>2
  <2> HIDE DEF m
  <2>4. <<a, m>> \in Units(h)
    BY <2>2, <2>3, UnitOf
  <2>5. <<a, m>> \in above
    BY <2>3, <2>4
  <2> QED
    BY <2>5 DEF a, n, m
<1>2. \A u, v \in Units(g) : lift[u] = lift[v] => u = v
  <2> SUFFICES ASSUME NEW u \in Units(g), NEW v \in Units(g), lift[u] = lift[v]
               PROVE  u = v
    OBVIOUS
  <2>1. /\ u = <<u[1], u[2]>> /\ u[1] \in S /\ u[2] \in 1..g[u[1]]
        /\ v = <<v[1], v[2]>> /\ v[1] \in S /\ v[2] \in 1..g[v[1]]
    BY UnitsArePairs
  <2>2. u[1] = v[1] /\ f[u[1]] + u[2] = f[v[1]] + v[2]
    OBVIOUS
  <2>3. f[u[1]] \in Nat /\ u[2] \in Int /\ v[2] \in Int
    BY <2>1
  <2>4. u[2] = v[2]
    BY <2>2, <2>3
  <2> QED
    BY <2>1, <2>2, <2>4
<1>3. \A t \in above : \E u \in Units(g) : lift[u] = t
  <2> SUFFICES ASSUME NEW t \in above PROVE \E u \in Units(g) : lift[u] = t
    OBVIOUS
  <2>1. /\ t = <<t[1], t[2]>> /\ t[1] \in S /\ t[2] \in 1..h[t[1]]
        /\ t[2] > f[t[1]]
    BY UnitsArePairs
  <2> DEFINE a == t[1]
             n == t[2] - f[t[1]]
  <2>2. a \in S /\ n \in 1..g[a] /\ t[2] = f[a] + n
    BY <2>1
  <2> HIDE DEF a, n
  <2>3. <<a, n>> \in Units(g)
    BY <2>2, UnitOf
  <2>4. lift[<<a, n>>] = <<a, f[a] + n>>
    BY <2>3
  <2> QED
    BY <2>1, <2>2, <2>3, <2>4 DEF a
<1>4. IsFiniteSet(Units(f)) /\ IsFiniteSet(Units(g))
  BY UnitsFinite
<1>5. IsFiniteSet(above) /\ Cardinality(above) = Cardinality(Units(g))
  <2>1. lift \in Bijection(Units(g), above)
    BY <1>1, <1>2, <1>3 DEF Bijection, Injection, Surjection, IsInjective
  <2> HIDE DEF lift, above
  <2> QED
    BY <1>4, <2>1, FS_Bijection DEF ExistsBijection
<1>6. Units(h) = Units(f) \cup above /\ Units(f) \cap above = {}
  <2>1. ASSUME NEW u \in Units(f) PROVE u \in Units(h) /\ u \notin above
    <3>1. u = <<u[1], u[2]>> /\ u[1] \in S /\ u[2] \in 1..f[u[1]]
      BY UnitsArePairs
    <3>2. u[2] \in 1..h[u[1]] /\ ~(u[2] > f[u[1]])
      BY <3>1
    <3>3. <<u[1], u[2]>> \in Units(h)
      BY <3>1, <3>2, UnitOf
    <3> QED
      BY <3>1, <3>2, <3>3
  <2>2. ASSUME NEW u \in Units(h), u \notin above PROVE u \in Units(f)
    <3>1. u = <<u[1], u[2]>> /\ u[1] \in S /\ u[2] \in 1..h[u[1]]
      BY UnitsArePairs
    <3>2. u[2] \in 1..f[u[1]]
      BY <2>2, <3>1
    <3>3. <<u[1], u[2]>> \in Units(f)
      BY <3>1, <3>2, UnitOf
    <3> QED
      BY <3>1, <3>3
  <2> QED
    BY <2>1, <2>2
<1> HIDE DEF above
<1>7. Cardinality(Units(h))
        = Cardinality(Units(f)) + Cardinality(above) - Cardinality({})
  BY <1>4, <1>5, <1>6, FS_Union
<1>8. /\ Cardinality({}) = 0
      /\ Cardinality(Units(f)) \in Nat /\ Cardinality(Units(g)) \in Nat
  BY <1>4, FS_EmptySet, FS_CardinalityType
<1> QED
  BY <1>5, <1>7, <1>8 DEF Total

\* Those who have nothing do not count.
LEMMA TotalOfSome ==
  ASSUME NEW S, NEW R, R \subseteq S, NEW f \in [S -> Nat], NEW g \in [R -> Nat],
         \A a \in S : f[a] = IF a \in R THEN g[a] ELSE 0
  PROVE  Total(f) = Total(g)
<1>1. ASSUME NEW u \in Units(f) PROVE u \in Units(g)
  <2>1. u = <<u[1], u[2]>> /\ u[1] \in S /\ u[2] \in 1..f[u[1]]
    BY UnitsArePairs
  <2>2. u[1] \in R /\ u[2] \in 1..g[u[1]]
    BY <2>1
  <2>3. <<u[1], u[2]>> \in Units(g)
    BY <2>2, UnitOf
  <2> QED
    BY <2>1, <2>3
<1>2. ASSUME NEW u \in Units(g) PROVE u \in Units(f)
  <2>1. u = <<u[1], u[2]>> /\ u[1] \in R /\ u[2] \in 1..g[u[1]]
    BY UnitsArePairs
  <2>2. u[1] \in S /\ u[2] \in 1..f[u[1]]
    BY <2>1
  <2>3. <<u[1], u[2]>> \in Units(f)
    BY <2>2, UnitOf
  <2> QED
    BY <2>1, <2>3
<1> QED
  BY <1>1, <1>2 DEF Total

\* A larger share for everybody is a larger sum.
LEMMA TotalMonotone ==
  ASSUME NEW S, IsFiniteSet(S), NEW f \in [S -> Nat], NEW g \in [S -> Nat],
         \A a \in S : f[a] <= g[a]
  PROVE  Total(f) <= Total(g)
<1>1. Units(f) \subseteq Units(g)
  BY DEF Units
<1> QED
  BY <1>1, UnitsFinite, FS_Subset DEF Total

\* Adding to one share adds to the sum.
LEMMA TotalPlus ==
  ASSUME NEW S, IsFiniteSet(S), NEW f \in [S -> Nat], NEW a \in S, NEW w \in Nat
  PROVE  Plus(f, a, w) \in [S -> Nat] /\ Total(Plus(f, a, w)) = Total(f) + w
<1> DEFINE v == f[a] + w
<1>1. v \in Nat /\ f[a] \in Nat
  OBVIOUS
<1>2. Plus(f, a, w) = [f EXCEPT ![a] = v]
  BY DEF Plus
<1>3. v = f[a] + w
  OBVIOUS
<1> HIDE DEF v
<1>4. Total([f EXCEPT ![a] = v]) = Total(f) - f[a] + v
  BY <1>1, TotalUpdate
<1>5. Total(f) \in Nat
  BY TotalType
<1>6. [f EXCEPT ![a] = v] \in [S -> Nat]
  BY <1>1
<1> QED
  BY <1>1, <1>2, <1>3, <1>4, <1>5, <1>6
=============================================================================
