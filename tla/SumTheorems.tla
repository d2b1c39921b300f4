----------------------------- MODULE SumTheorems -----------------------------
(* Laws of Total, for families of naturals over a finite set.               *)
EXTENDS Sums, FiniteSetTheorems, TLAPS

\* A unit token of f names a row and one of the units of the row's value.
LEMMA UnitsMember ==
  ASSUME NEW S, NEW f \in [S -> Nat]
  PROVE  Units(f) = {p \in S \X Nat : 1 <= p[2] /\ p[2] <= f[p[1]]}
<1>1. ASSUME NEW x \in S, NEW i \in 1 .. f[x]
      PROVE  <<x, i>> \in {p \in S \X Nat : 1 <= p[2] /\ p[2] <= f[p[1]]}
  OBVIOUS
<1>2. ASSUME NEW p \in S \X Nat, 1 <= p[2], p[2] <= f[p[1]]
      PROVE  p \in {p[1]} \X (1 .. f[p[1]])
  BY <1>2
<1> QED  BY <1>1, <1>2 DEF Units

\* The units of a finite family are finite, so its sum is a natural number.
LEMMA TotalNat ==
  ASSUME NEW S, IsFiniteSet(S), NEW f \in [S -> Nat]
  PROVE  IsFiniteSet(Units(f)) /\ Total(f) \in Nat
<1> DEFINE g == [x \in S |-> {x} \X (1 .. f[x])]
           T == {{x} \X (1 .. f[x]) : x \in S}
<1>1. g \in Surjection(S, T)
  BY DEF Surjection
<1>2. IsFiniteSet(T)
  <2> HIDE DEF g, T
  <2> QED  BY <1>1, FS_Surjection
<1>3. \A x \in S : IsFiniteSet({x} \X (1 .. f[x]))
  <2> SUFFICES ASSUME NEW x \in S
               PROVE  IsFiniteSet({x} \X (1 .. f[x]))
    OBVIOUS
  <2>1. IsFiniteSet(1 .. f[x])
    BY FS_Interval
  <2> QED  BY <2>1, FS_Singleton, FS_Product
<1>4. \A t \in T : IsFiniteSet(t)
  BY <1>3
<1>5. IsFiniteSet(UNION T)
  <2> HIDE DEF T
  <2> QED  BY <1>2, <1>4, FS_UNION
<1>6. Units(f) = UNION T
  BY DEF Units
<1> QED  BY <1>5, <1>6, FS_CardinalityType DEF Total

\* The sum of a family that is zero everywhere is zero.
LEMMA TotalZero ==
  ASSUME NEW S, NEW f \in [S -> Nat], \A x \in S : f[x] = 0
  PROVE  Total(f) = 0
<1>1. Units(f) = {}
  BY UnitsMember
<1> QED  BY <1>1, FS_EmptySet DEF Total

\* A family that is pointwise smaller has a smaller sum.
LEMMA TotalMonotone ==
  ASSUME NEW S, IsFiniteSet(S), NEW f \in [S -> Nat], NEW g \in [S -> Nat],
         \A x \in S : f[x] <= g[x]
  PROVE  Total(f) <= Total(g)
<1>1. Units(f) \subseteq Units(g)
  BY UnitsMember
<1> QED  BY <1>1, TotalNat, FS_Subset DEF Total

\* Splitting the rows of a family in two splits its sum.
LEMMA TotalSplit ==
  ASSUME NEW S, IsFiniteSet(S),
         NEW f \in [S -> Nat], NEW g \in [S -> Nat], NEW h \in [S -> Nat],
         \A x \in S : (g[x] = 0 /\ f[x] = h[x]) \/ (h[x] = 0 /\ f[x] = g[x])
  PROVE  Total(f) = Total(g) + Total(h)
<1>1. Units(f) = Units(g) \cup Units(h)
  BY UnitsMember
<1>2. Units(g) \cap Units(h) = {}
  BY UnitsMember
<1>3. /\ IsFiniteSet(Units(g)) /\ Total(g) \in Nat
      /\ IsFiniteSet(Units(h)) /\ Total(h) \in Nat
  BY TotalNat
<1>4. Cardinality(Units(g) \cup Units(h))
        = Cardinality(Units(g)) + Cardinality(Units(h)) - Cardinality(Units(g) \cap Units(h))
  BY <1>3, FS_Union
<1>5. Cardinality({}) = 0
  BY FS_EmptySet
<1>6. /\ Cardinality(Units(f)) = Cardinality(Units(g) \cup Units(h))
      /\ Cardinality(Units(g) \cap Units(h)) = 0
  BY <1>1, <1>2, <1>5, Zenon
<1> QED  BY <1>3, <1>4, <1>6 DEF Total

\* Raising one value of a family by e raises the sum by e.
LEMMA TotalRaise ==
  ASSUME NEW S, IsFiniteSet(S), NEW f \in [S -> Nat], NEW g \in [S -> Nat],
         NEW x \in S, NEW e \in Nat, g[x] = f[x] + e,
         \A y \in S \ {x} : g[y] = f[y]
  PROVE  Total(g) = Total(f) + e
<1> DEFINE New == {x} \X (f[x] + 1 .. f[x] + e)
<1>1. Units(g) = Units(f) \cup New
  BY UnitsMember
<1>2. Units(f) \cap New = {}
  BY UnitsMember
<1>3. IsFiniteSet(New) /\ Cardinality(New) = e
  <2> DEFINE lo == f[x] + 1
             hi == f[x] + e
  <2>1. lo \in Int /\ hi \in Int /\ (IF lo > hi THEN 0 ELSE hi - lo + 1) = e
    OBVIOUS
  <2> HIDE DEF lo, hi
  <2>2. IsFiniteSet(lo .. hi) /\ Cardinality(lo .. hi) = e
    BY <2>1, FS_Interval
  <2>3. IsFiniteSet({x}) /\ Cardinality({x}) = 1
    BY FS_Singleton
  <2> DEFINE I == lo .. hi
  <2> HIDE DEF I
  <2>4. IsFiniteSet({x} \X I) /\ Cardinality({x} \X I) = Cardinality({x}) * Cardinality(I)
    BY <2>2, <2>3, FS_Product, Zenon DEF I
  <2>5. Cardinality({x}) * Cardinality(I) = e
    BY <2>2, <2>3 DEF I
  <2>6. New = {x} \X I
    BY DEF New, I, lo, hi
  <2> QED  BY <2>4, <2>5, <2>6, Zenon
<1>4. IsFiniteSet(Units(f)) /\ Total(f) \in Nat
  BY TotalNat
<1>5. Cardinality(Units(f) \cup New)
        = Cardinality(Units(f)) + Cardinality(New) - Cardinality(Units(f) \cap New)
  <2> HIDE DEF New
  <2> QED  BY <1>3, <1>4, FS_Union
<1>6. Cardinality({}) = 0
  BY FS_EmptySet
<1>7. /\ Cardinality(Units(g)) = Cardinality(Units(f) \cup New)
      /\ Cardinality(Units(f) \cap New) = 0
  <2> HIDE DEF New
  <2> QED  BY <1>1, <1>2, <1>6, Zenon
<1> HIDE DEF New
<1> QED  BY <1>3, <1>4, <1>5, <1>7 DEF Total
=============================================================================
