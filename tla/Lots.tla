-------------------------------- MODULE Lots --------------------------------
(***************************************************************************)
(* Lots that several orders hold, reserve or ask for, and what is proved   *)
(* of their sums.  A sum over a set is the number of its lots, each named  *)
(* by its order and its place in it, so that what holds of finite sets     *)
(* holds of sums.  A sum over a row adds its numbers one after the other,  *)
(* and a row of functions is applied one after the other.                  *)
(***************************************************************************)
EXTENDS Integers, FiniteSets, FiniteSetTheorems, FunctionTheorems, NaturalsInduction,
        WellFoundedInduction, TLAPS

Abs(n) == IF n < 0 THEN -n ELSE n
Larger(a, b) == IF a >= b THEN a ELSE b
Smaller(a, b) == IF a <= b THEN a ELSE b

\* The sum of lots[o] over some orders, as the number of their lots.
LotsOf(lots, os) == UNION {{o} \X (1 .. lots[o]) : o \in os}
Total(lots, os) == Cardinality(LotsOf(lots, os))

\* The sum of the first n numbers of g, which may be negative.
SumTo(g, n) == LET s[k \in Nat] == IF k = 0 THEN 0 ELSE s[k - 1] + g[k] IN s[n]

\* What the first n functions of g, one after the other, make of x.
InTurn(g, x, n) == LET f[k \in Nat] == IF k = 0 THEN x ELSE g[k][f[k - 1]] IN f[n]
-----------------------------------------------------------------------------
\* A lot of the sum is an order with a number.
LEMMA LotParts ==
  ASSUME NEW f, NEW S, NEW o, NEW i
  PROVE  <<o, i>> \in LotsOf(f, S) <=> o \in S /\ i \in 1 .. f[o]
  BY DEF LotsOf

\* Every lot is a pair.
LEMMA LotIsPair ==
  ASSUME NEW f, NEW S, NEW l \in LotsOf(f, S)
  PROVE  l = <<l[1], l[2]>> /\ l[1] \in S /\ l[2] \in 1 .. f[l[1]]
<1>1. PICK o \in S : l \in {o} \X (1 .. f[o])
  BY DEF LotsOf
<1>2. QED
  BY <1>1

\* A sum over finitely many orders is a number.
LEMMA TotalFinite ==
  ASSUME NEW S, IsFiniteSet(S), NEW f, \A o \in S : f[o] \in Nat
  PROVE  IsFiniteSet(LotsOf(f, S)) /\ Total(f, S) \in Nat
<1> DEFINE T == {{o} \X (1 .. f[o]) : o \in S}
           g == [o \in S |-> {o} \X (1 .. f[o])]
<1>1. IsFiniteSet(T)
  <2>1. g \in Surjection(S, T)
    BY DEF Surjection
  <2> HIDE DEF g, T
  <2>2. QED
    BY <2>1, FS_Surjection
<1>2. \A U \in T : IsFiniteSet(U)
  <2>1. ASSUME NEW o \in S PROVE IsFiniteSet({o} \X (1 .. f[o]))
    <3> DEFINE n == f[o]
    <3>0. n \in Int /\ 1 \in Int
      OBVIOUS
    <3> HIDE DEF n
    <3>1. IsFiniteSet({o}) /\ IsFiniteSet(1 .. n)
      BY <3>0, FS_Singleton, FS_Interval
    <3> USE DEF n
    <3>2. QED
      BY <3>1, FS_Product
  <2>2. QED
    BY <2>1
<1>3. LotsOf(f, S) = UNION T
  BY DEF LotsOf
<1> HIDE DEF T, g
<1>4. IsFiniteSet(LotsOf(f, S))
  BY <1>1, <1>2, <1>3, FS_UNION
<1>5. QED
  BY <1>4, FS_CardinalityType DEF Total

\* More orders with more lots have more in all.
LEMMA TotalGrows ==
  ASSUME NEW T, IsFiniteSet(T), NEW S \in SUBSET T, NEW f, NEW g,
         \A o \in T : g[o] \in Nat, \A o \in S : f[o] \in Int /\ f[o] <= g[o]
  PROVE  Total(f, S) <= Total(g, T)
<1>1. LotsOf(f, S) \in SUBSET LotsOf(g, T)
  <2>1. ASSUME NEW l \in LotsOf(f, S) PROVE l \in LotsOf(g, T)
    <3>1. l = <<l[1], l[2]>> /\ l[1] \in S /\ l[2] \in 1 .. f[l[1]]
      BY LotIsPair
    <3>2. l[1] \in T /\ l[2] \in 1 .. g[l[1]]
      BY <3>1
    <3>3. QED
      BY <3>1, <3>2, LotParts
  <2>2. QED
    BY <2>1
<1>2. IsFiniteSet(LotsOf(g, T))
  BY TotalFinite
<1>3. QED
  BY <1>1, <1>2, FS_Subset DEF Total

\* Equal lots have equal sums.
LEMMA TotalSame ==
  ASSUME NEW S, NEW f, NEW g, \A o \in S : f[o] = g[o]
  PROVE  Total(f, S) = Total(g, S)
  BY DEF Total, LotsOf

\* What one more order adds.
LEMMA TotalAddOrder ==
  ASSUME NEW S, IsFiniteSet(S), NEW o, o \notin S, NEW f,
         \A p \in S \cup {o} : f[p] \in Nat
  PROVE  Total(f, S \cup {o}) = Total(f, S) + f[o]
<1> DEFINE one == {o} \X (1 .. f[o])
           n == f[o]
<1>0. n \in Nat
  OBVIOUS
<1>1. LotsOf(f, S \cup {o}) = LotsOf(f, S) \cup one
  BY DEF LotsOf
<1>2. LotsOf(f, S) \cap one = {}
  <2>1. ASSUME NEW l \in LotsOf(f, S), l \in one PROVE FALSE
    <3>1. l[1] \in S
      BY LotIsPair
    <3>2. l[1] = o
      BY <2>1
    <3>3. QED
      BY <3>1, <3>2
  <2>2. QED
    BY <2>1
<1>3. IsFiniteSet(one) /\ Cardinality(one) = f[o]
  <2>1. /\ IsFiniteSet({o}) /\ Cardinality({o}) = 1
        /\ IsFiniteSet(1 .. f[o]) /\ Cardinality(1 .. f[o]) = f[o]
    <3> HIDE DEF n
    <3>1. IsFiniteSet(1 .. n) /\ Cardinality(1 .. n) = n
      BY <1>0, FS_Interval
    <3>2. QED
      BY <3>1, FS_Singleton DEF n
  <2>2. Cardinality(one) = 1 * f[o] /\ IsFiniteSet(one)
    BY <2>1, FS_Product
  <2> HIDE DEF one
  <2>3. QED
    BY <2>2
<1>4. IsFiniteSet(LotsOf(f, S)) /\ Cardinality(LotsOf(f, S)) \in Nat
  BY TotalFinite DEF Total
<1> HIDE DEF one
<1>5. Cardinality(LotsOf(f, S) \cup one) = Cardinality(LotsOf(f, S)) + f[o] - Cardinality({})
  BY <1>2, <1>3, <1>4, FS_Union
<1>6. Cardinality({}) = 0
  BY FS_EmptySet
<1> DEFINE c == Cardinality(LotsOf(f, S))
<1>7. Total(f, S \cup {o}) = c + n - 0 /\ Total(f, S) = c /\ c \in Nat
  BY <1>1, <1>4, <1>5, <1>6 DEF Total
<1> HIDE DEF c
<1>8. Total(f, S \cup {o}) = Total(f, S) + n
  BY <1>0, <1>7
<1>9. QED
  BY <1>8

\* One more lot of one order is one more in all.
LEMMA TotalAddLot ==
  ASSUME NEW S, IsFiniteSet(S), NEW o \in S, NEW f, NEW g,
         \A p \in S : f[p] \in Nat, \A p \in S \ {o} : g[p] = f[p], g[o] = f[o] + 1
  PROVE  Total(g, S) = Total(f, S) + 1
<1> DEFINE l == <<o, f[o] + 1>>
<1>1. LotsOf(g, S) = LotsOf(f, S) \cup {l}
  <2>1. ASSUME NEW m \in LotsOf(g, S) PROVE m \in LotsOf(f, S) \cup {l}
    <3>1. m = <<m[1], m[2]>> /\ m[1] \in S /\ m[2] \in 1 .. g[m[1]]
      BY LotIsPair
    <3>2. CASE m = l
      BY <3>2
    <3>3. CASE m # l
      <4>1. m[2] \in 1 .. f[m[1]]
        BY <3>1, <3>3
      <4>2. QED
        BY <3>1, <4>1, LotParts
    <3>4. QED
      BY <3>2, <3>3
  <2>2. ASSUME NEW m \in LotsOf(f, S) PROVE m \in LotsOf(g, S)
    <3>1. m = <<m[1], m[2]>> /\ m[1] \in S /\ m[2] \in 1 .. f[m[1]]
      BY LotIsPair
    <3>2. m[2] \in 1 .. g[m[1]]
      BY <3>1
    <3>3. QED
      BY <3>1, <3>2, LotParts
  <2>3. l \in LotsOf(g, S)
    BY LotParts
  <2>4. QED
    BY <2>1, <2>2, <2>3
<1>2. l \notin LotsOf(f, S)
  BY LotParts
<1>3. IsFiniteSet(LotsOf(f, S))
  BY TotalFinite
<1> HIDE DEF l
<1>4. QED
  BY <1>1, <1>2, <1>3, FS_AddElement DEF Total

\* A sum of sums.
LEMMA TotalOfTwo ==
  ASSUME NEW S, IsFiniteSet(S), NEW f, NEW g, NEW h,
         \A o \in S : f[o] \in Nat /\ g[o] \in Nat /\ h[o] \in Nat /\ h[o] <= f[o] + g[o]
  PROVE  Total(h, S) <= Total(f, S) + Total(g, S)
<1> DEFINE F == LotsOf(f, S)
           G == LotsOf(g, S)
           R == LotsOf(h, S) \ F
           shift == [l \in R |-> <<l[1], l[2] - f[l[1]]>>]
<1>1. IsFiniteSet(F) /\ IsFiniteSet(G) /\ IsFiniteSet(LotsOf(h, S))
  BY TotalFinite
<1>2. \A l \in R : l = <<l[1], l[2]>> /\ l[1] \in S /\ l[2] \in Int
                   /\ l[2] - f[l[1]] \in 1 .. g[l[1]]
  <2>1. SUFFICES ASSUME NEW l \in R
                 PROVE  l = <<l[1], l[2]>> /\ l[1] \in S /\ l[2] \in Int
                        /\ l[2] - f[l[1]] \in 1 .. g[l[1]]
    OBVIOUS
  <2>2. l = <<l[1], l[2]>> /\ l[1] \in S /\ l[2] \in 1 .. h[l[1]]
    BY LotIsPair
  <2>3. ~(l[2] \in 1 .. f[l[1]])
    BY <2>2, LotParts
  <2>4. QED
    BY <2>2, <2>3
<1>3. shift \in Injection(R, G)
  <2>1. shift \in [R -> G]
    BY <1>2, LotParts
  <2>2. ASSUME NEW l \in R, NEW m \in R, shift[l] = shift[m] PROVE l = m
    <3>1. l[1] = m[1] /\ l[2] - f[l[1]] = m[2] - f[m[1]]
      BY <2>2
    <3>2. l[2] = m[2]
      BY <1>2, <3>1
    <3>3. QED
      BY <1>2, <3>1, <3>2
  <2> HIDE DEF shift, R, G
  <2>3. QED
    BY <2>1, <2>2 DEF Injection, IsInjective
<1>4. IsFiniteSet(R) /\ Cardinality(R) <= Cardinality(G)
  <2> HIDE DEF shift, R, G
  <2>1. QED
    BY <1>1, <1>3, FS_Injection
<1>5. /\ IsFiniteSet(F \cup R)
      /\ Cardinality(F \cup R) = Cardinality(F) + Cardinality(R) - Cardinality(F \cap R)
  <2> HIDE DEF F, R
  <2>1. QED
    BY <1>1, <1>4, FS_Union
<1>6. F \cap R = {} /\ LotsOf(h, S) \in SUBSET (F \cup R)
  OBVIOUS
<1>7. /\ Cardinality(F) \in Nat /\ Cardinality(G) \in Nat /\ Cardinality(R) \in Nat
      /\ Cardinality(LotsOf(h, S)) \in Nat /\ Cardinality(F \cap R) = 0
  <2> HIDE DEF F, G, R
  <2>1. QED
    BY <1>1, <1>4, <1>6, FS_CardinalityType, FS_EmptySet
<1>8. Cardinality(LotsOf(h, S)) <= Cardinality(F \cup R)
  <2> HIDE DEF F, R
  <2>1. QED
    BY <1>5, <1>6, FS_Subset
<1> HIDE DEF R
<1>9. QED
  BY <1>4, <1>5, <1>7, <1>8 DEF Total

\* No orders have no lots.
LEMMA TotalOfNone == ASSUME NEW f PROVE Total(f, {}) = 0
<1>1. LotsOf(f, {}) = {}
  BY DEF LotsOf
<1>2. QED
  BY <1>1, FS_EmptySet DEF Total

\* The sum over two sets of orders, which may share some.
LEMMA TotalOfUnion ==
  ASSUME NEW S, NEW T, IsFiniteSet(S), IsFiniteSet(T), NEW f, \A o \in S \cup T : f[o] \in Nat
  PROVE  Total(f, S \cup T) <= Total(f, S) + Total(f, T)
<1>1. PICK F, G : F = LotsOf(f, S) /\ G = LotsOf(f, T)
  OBVIOUS
<1>2. IsFiniteSet(F) /\ IsFiniteSet(G)
  BY <1>1, TotalFinite
<1>3. LotsOf(f, S \cup T) = F \cup G
  BY <1>1 DEF LotsOf
<1>4. /\ IsFiniteSet(F \cap G) /\ Cardinality(F \cap G) \in Nat
      /\ Cardinality(F) \in Nat /\ Cardinality(G) \in Nat
  <2>1. F \cap G \in SUBSET F
    OBVIOUS
  <2>2. QED
    BY <1>2, <2>1, FS_Subset, FS_CardinalityType
<1>5. Cardinality(F \cup G) = Cardinality(F) + Cardinality(G) - Cardinality(F \cap G)
  BY <1>2, FS_Union
<1>6. Total(f, S \cup T) = Cardinality(F \cup G) /\ Total(f, S) = Cardinality(F)
      /\ Total(f, T) = Cardinality(G)
  BY <1>1, <1>3 DEF Total
<1>7. PICK x, y, z, u : x = Cardinality(F) /\ y = Cardinality(G) /\ z = Cardinality(F \cap G)
                        /\ u = Cardinality(F \cup G)
  OBVIOUS
<1>8. x \in Nat /\ y \in Nat /\ z \in Nat /\ u = x + y - z
  BY <1>4, <1>5, <1>7
<1>9. u <= x + y
  BY <1>8
<1>10. QED
  BY <1>6, <1>7, <1>9

\* Orders that each stand for another, no two for the same, with no more lots.
LEMMA TotalRenamed ==
  ASSUME NEW S, NEW T, IsFiniteSet(T), NEW f, NEW h, NEW g,
         \A o \in S : g[o] \in T /\ f[o] \in Int /\ f[o] <= h[g[o]],
         \A o, p \in S : g[o] = g[p] => o = p,
         \A t \in T : h[t] \in Nat
  PROVE  Total(f, S) <= Total(h, T)
<1> DEFINE F == LotsOf(f, S)
           H == LotsOf(h, T)
           m == [l \in F |-> <<g[l[1]], l[2]>>]
<1>1. IsFiniteSet(H)
  BY TotalFinite
<1>2. ASSUME NEW l \in F
      PROVE  l = <<l[1], l[2]>> /\ l[1] \in S /\ m[l] = <<g[l[1]], l[2]>> /\ m[l] \in H
  <2>1. l = <<l[1], l[2]>> /\ l[1] \in S /\ l[2] \in 1 .. f[l[1]]
    BY LotIsPair
  <2>2. g[l[1]] \in T /\ l[2] \in 1 .. h[g[l[1]]]
    BY <2>1
  <2>3. QED
    BY <2>1, <2>2, LotParts
<1>3. m \in [F -> H]
  BY <1>2
<1> HIDE DEF m, F, H
<1>4. ASSUME NEW k \in F, NEW l \in F, m[k] = m[l] PROVE k = l
  <2>1. g[k[1]] = g[l[1]] /\ k[2] = l[2]
    BY <1>2, <1>4
  <2>2. k[1] = l[1]
    BY <1>2, <2>1
  <2>3. QED
    BY <1>2, <2>1, <2>2
<1>5. m \in Injection(F, H)
  BY <1>3, <1>4 DEF Injection, IsInjective
<1>6. Cardinality(F) <= Cardinality(H)
  BY <1>1, <1>5, FS_Injection
<1>7. QED
  BY <1>6 DEF Total, F, H

\* The least of some numbers.
LEMMA LeastOfNumbers ==
  ASSUME NEW T \in SUBSET Nat, T # {}
  PROVE  \E x \in T : \A y \in T : x <= y
<1> DEFINE Below == OpToRel(<, Nat)
<1>1. IsWellFoundedOn(Below, Nat)
  BY NatLessThanWellFounded, Zenon
<1>2. \A x, y \in Nat : <<y, x>> \in Below <=> y < x
  BY DEF OpToRel
<1> HIDE DEF Below
<1>3. PICK x \in T : \A y \in T : ~(<<y, x>> \in Below)
  BY <1>1, WFMin
<1>4. \A y \in T : ~(y < x)
  BY <1>2, <1>3
<1>5. QED
  BY <1>4

Before(o, S) == {p \in S : p < o}
ServedFrom(room, e, S, a) ==
  \A o \in S : a[o] = Smaller(e[o], Larger(0, room - Total(e, Before(o, S))))

\* Those before an order.
LEMMA BeforeParts ==
  ASSUME NEW S \in SUBSET Nat, IsFiniteSet(S), NEW o \in S
  PROVE  /\ IsFiniteSet(Before(o, S)) /\ o \notin Before(o, S)
         /\ Before(o, S) \cup {o} \subseteq S /\ Before(o, S) \in SUBSET S
         /\ IsFiniteSet(Before(o, S) \cup {o})
         /\ \A q \in S : o < q => Before(o, S) \cup {o} \subseteq Before(q, S)
<1>1. o \notin Before(o, S) /\ Before(o, S) \in SUBSET S /\ Before(o, S) \cup {o} \in SUBSET S
  <2>1. ~(o < o)
    OBVIOUS
  <2>2. QED
    BY <2>1 DEF Before
<1>2. ASSUME NEW q \in S, o < q PROVE Before(o, S) \cup {o} \subseteq Before(q, S)
  <2>1. ASSUME NEW p \in S, p < o PROVE p < q
    BY <1>2, <2>1
  <2>2. QED
    BY <1>2, <2>1 DEF Before
<1>3. QED
  BY <1>1, <1>2, FS_Subset

\* An order is served after all before it.
LEMMA BeforeAdds ==
  ASSUME NEW S \in SUBSET Nat, IsFiniteSet(S), NEW f, \A p \in S : f[p] \in Nat, NEW o \in S
  PROVE  /\ Total(f, Before(o, S)) \in Nat
         /\ Total(f, Before(o, S)) + f[o] <= Total(f, S)
         /\ \A q \in S : o < q => Total(f, Before(o, S)) + f[o] <= Total(f, Before(q, S))
<1> DEFINE U == Before(o, S)
<1>1. /\ IsFiniteSet(U) /\ o \notin U /\ U \cup {o} \in SUBSET S /\ IsFiniteSet(U \cup {o})
  BY BeforeParts
<1>3. \A q \in S : o < q => U \cup {o} \in SUBSET Before(q, S)
  BY BeforeParts
<1> HIDE DEF U
<1>2. \A p \in U \cup {o} : f[p] \in Nat /\ f[p] \in Int /\ f[p] <= f[p]
  <2>1. ASSUME NEW p \in U \cup {o} PROVE f[p] \in Nat /\ f[p] \in Int /\ f[p] <= f[p]
    <3>1. f[p] \in Nat
      BY <1>1
    <3>2. QED
      BY <3>1
  <2>2. QED
    BY <2>1
<1>4. Total(f, U) \in Nat /\ Total(f, U \cup {o}) = Total(f, U) + f[o]
  BY <1>1, <1>2, TotalFinite, TotalAddOrder
<1>5. Total(f, U \cup {o}) <= Total(f, S)
  BY <1>1, <1>2, TotalGrows
<1>6. ASSUME NEW q \in S, o < q PROVE Total(f, U \cup {o}) <= Total(f, Before(q, S))
  <2>1. /\ IsFiniteSet(Before(q, S)) /\ \A p \in Before(q, S) : f[p] \in Nat
        /\ U \cup {o} \in SUBSET Before(q, S)
    BY <1>3, <1>6, BeforeParts
  <2>2. QED
    BY <1>2, <2>1, TotalGrows
<1>7. QED
  BY <1>4, <1>5, <1>6 DEF U

\* Claims served one after the other from a room never take more than there
\* is, whatever order they are served in.
LEMMA ServedWithinRoom ==
  ASSUME NEW S, IsFiniteSet(S), NEW e, NEW a, NEW pre, NEW room \in Nat,
         \A o \in S : e[o] \in Nat /\ pre[o] \in SUBSET S /\ o \notin pre[o],
         \A o, q \in S : o # q => pre[o] \cup {o} \in SUBSET pre[q] \/ pre[q] \cup {q} \in SUBSET pre[o],
         \A o \in S : a[o] = Smaller(e[o], Larger(0, room - Total(e, pre[o])))
  PROVE  /\ \A o \in S : a[o] \in Nat /\ a[o] <= e[o]
         /\ Total(a, S) <= room
<1> DEFINE before(o) == Total(e, pre[o])
<1>1. \A o \in S : before(o) \in Nat
  <2>1. ASSUME NEW o \in S PROVE before(o) \in Nat
    <3>1. pre[o] \in SUBSET S /\ IsFiniteSet(pre[o])
      BY FS_Subset
    <3>2. QED
      BY <3>1, TotalFinite
  <2>2. QED
    BY <2>1
<1>2. \A o, q \in S : o # q => before(o) + e[o] <= before(q) \/ before(q) + e[q] <= before(o)
  <2>1. ASSUME NEW o \in S, NEW q \in S, pre[o] \cup {o} \in SUBSET pre[q]
        PROVE  before(o) + e[o] <= before(q)
    <3>1. /\ pre[o] \in SUBSET S /\ IsFiniteSet(pre[o])
          /\ pre[q] \in SUBSET S /\ IsFiniteSet(pre[q]) /\ o \notin pre[o]
      BY FS_Subset
    <3>2. Total(e, pre[o] \cup {o}) = Total(e, pre[o]) + e[o]
      BY <3>1, TotalAddOrder
    <3>3. \A p \in pre[q] : e[p] \in Nat /\ e[p] \in Int /\ e[p] <= e[p]
      BY <3>1
    <3>4. Total(e, pre[o] \cup {o}) <= Total(e, pre[q])
      BY <2>1, <3>1, <3>3, TotalGrows
    <3>5. QED
      BY <3>2, <3>4
  <2> HIDE DEF before
  <2>2. QED
    BY <2>1
<1>3. ASSUME NEW o \in S
      PROVE  /\ a[o] \in Nat /\ a[o] <= e[o]
             /\ a[o] > 0 => before(o) + a[o] <= room
  <2>1. a[o] = Smaller(e[o], Larger(0, room - before(o))) /\ e[o] \in Nat
    OBVIOUS
  <2> HIDE DEF before
  <2>2. QED
    BY <1>1, <2>1 DEF Smaller, Larger
<1> HIDE DEF before
<1>4. Total(a, S) <= room
  <2> DEFINE A == LotsOf(a, S)
             place == [l \in A |-> before(l[1]) + l[2]]
  <2>1. ASSUME NEW l \in A
        PROVE  /\ l = <<l[1], l[2]>> /\ l[1] \in S /\ l[2] \in 1 .. a[l[1]]
               /\ l[2] <= e[l[1]] /\ place[l] \in 1 .. room
    <3>1. l = <<l[1], l[2]>> /\ l[1] \in S /\ l[2] \in 1 .. a[l[1]]
      BY LotIsPair
    <3>2. place[l] = before(l[1]) + l[2]
      OBVIOUS
    <3> HIDE DEF place
    <3>3. /\ before(l[1]) \in Nat /\ a[l[1]] \in Nat /\ a[l[1]] <= e[l[1]] /\ e[l[1]] \in Nat
          /\ a[l[1]] > 0 => before(l[1]) + a[l[1]] <= room
      BY <1>1, <1>3, <3>1
    <3>4. l[2] <= e[l[1]] /\ before(l[1]) + l[2] \in 1 .. room
      BY <3>1, <3>3
    <3>5. QED
      BY <3>1, <3>2, <3>4
  <2>2. ASSUME NEW l \in A, NEW m \in A, place[l] = place[m] PROVE l = m
    <3>1. before(l[1]) + l[2] = before(m[1]) + m[2]
      BY <2>2
    <3>2. /\ l = <<l[1], l[2]>> /\ m = <<m[1], m[2]>> /\ l[1] \in S /\ m[1] \in S
          /\ l[2] \in 1 .. a[l[1]] /\ m[2] \in 1 .. a[m[1]]
          /\ l[2] <= e[l[1]] /\ m[2] <= e[m[1]]
      BY <2>1
    <3> HIDE DEF place, A
    <3>3. before(l[1]) \in Nat /\ before(m[1]) \in Nat /\ e[l[1]] \in Nat /\ e[m[1]] \in Nat
      BY <1>1, <3>2
    <3>4. \/ l[1] = m[1]
          \/ before(l[1]) + e[l[1]] <= before(m[1])
          \/ before(m[1]) + e[m[1]] <= before(l[1])
      BY <1>2, <3>2
    <3>5. l[1] = m[1]
      BY <3>1, <3>2, <3>3, <3>4
    <3>6. l[2] = m[2]
      BY <3>1, <3>2, <3>3, <3>5
    <3>7. QED
      BY <3>2, <3>5, <3>6
  <2>3. place \in [A -> 1 .. room]
    BY <2>1
  <2> HIDE DEF place, A
  <2>4. place \in Injection(A, 1 .. room)
    BY <2>2, <2>3 DEF Injection, IsInjective
  <2>5. IsFiniteSet(1 .. room) /\ Cardinality(1 .. room) = room
    BY FS_Interval
  <2>6. Cardinality(A) <= room
    BY <2>4, <2>5, FS_Injection
  <2>7. QED
    BY <2>6 DEF Total, A
<1>5. QED
  BY <1>3, <1>4

\* Claims served in order from a room never take more than there is; if they
\* leave some, every claim was served in full.
LEMMA ServedInOrder ==
  ASSUME NEW S \in SUBSET Nat, IsFiniteSet(S), NEW e, NEW a, NEW room \in Nat,
         \A o \in S : e[o] \in Nat, ServedFrom(room, e, S, a)
  PROVE  /\ \A o \in S : a[o] \in Nat /\ a[o] <= e[o]
         /\ Total(a, S) <= room
         /\ Total(a, S) < room => \A o \in S : a[o] = e[o]
<1> DEFINE before(o) == Total(e, Before(o, S))
<1>1. \A o \in S : before(o) \in Nat
  BY BeforeAdds
<1>3. ASSUME NEW o \in S
      PROVE  /\ a[o] \in Nat /\ a[o] <= e[o]
             /\ a[o] # e[o] => a[o] = Larger(0, room - before(o))
  <2>1. a[o] = Smaller(e[o], Larger(0, room - before(o)))
    BY DEF ServedFrom
  <2> HIDE DEF before
  <2>2. QED
    BY <1>1, <2>1 DEF Smaller, Larger
<1> HIDE DEF before
<1>5. Total(a, S) <= room
  <2> DEFINE pre == [o \in S |-> Before(o, S)]
  <2>1. \A o \in S : e[o] \in Nat /\ pre[o] \in SUBSET S /\ o \notin pre[o]
    BY BeforeParts
  <2>2. \A o, q \in S : o # q => pre[o] \cup {o} \in SUBSET pre[q] \/ pre[q] \cup {q} \in SUBSET pre[o]
    <3>1. ASSUME NEW o \in S, NEW q \in S, o < q PROVE pre[o] \cup {o} \in SUBSET pre[q]
      BY <3>1, BeforeParts
    <3>2. \A o, q \in S : o # q => o < q \/ q < o
      OBVIOUS
    <3> HIDE DEF pre
    <3>3. QED
      BY <3>1, <3>2
  <2>3. \A o \in S : a[o] = Smaller(e[o], Larger(0, room - Total(e, pre[o])))
    BY DEF ServedFrom
  <2> HIDE DEF pre
  <2>4. QED
    BY <2>1, <2>2, <2>3, ServedWithinRoom
<1>6. ASSUME Total(a, S) < room PROVE \A o \in S : a[o] = e[o]
  <2> DEFINE Cut == {o \in S : a[o] # e[o]}
  <2>1. SUFFICES ASSUME Cut # {} PROVE FALSE
    OBVIOUS
  <2>2. PICK o \in Cut : \A p \in Cut : o <= p
    <3>1. Cut \in SUBSET Nat
      OBVIOUS
    <3> HIDE DEF Cut
    <3>2. QED
      BY <2>1, <3>1, LeastOfNumbers
  <2>3. o \in S /\ a[o] # e[o]
    OBVIOUS
  <2>4. \A p \in Before(o, S) : a[p] = e[p]
    BY <2>2 DEF Before
  <2>5. Total(a, Before(o, S)) = before(o)
    BY <2>4, TotalSame DEF before
  <2>6. Total(a, Before(o, S)) + a[o] <= Total(a, S) /\ Total(a, S) \in Nat
    BY <1>3, <2>3, BeforeAdds, TotalFinite
  <2> HIDE DEF Cut
  <2>7. a[o] = Larger(0, room - before(o)) /\ before(o) \in Nat /\ a[o] \in Nat
    BY <1>1, <1>3, <2>3
  <2>8. before(o) + a[o] >= room
    BY <2>7 DEF Larger
  <2>9. QED
    BY <1>6, <2>5, <2>6, <2>7, <2>8
<1>7. QED
  BY <1>3, <1>5, <1>6

-----------------------------------------------------------------------------
(* Sums of numbers in a row.  That there are such sums, and what holds of  *)
(* each, is shown of the least number it would not hold of.                *)

\* h holds the sums of the first numbers of g, up to n of them.
PartSums(g, n, h) == h = [k \in 0 .. n |-> IF k = 0 THEN 0 ELSE h[k - 1] + g[k]]

\* There are such sums up to every number: the least number without them would
\* follow one that has them.
LEMMA PartSumsExist == ASSUME NEW g, NEW n \in Nat PROVE \E h : PartSums(g, n, h)
<1>1. PICK T \in SUBSET Nat : T = {m \in Nat : ~\E h : PartSums(g, m, h)}
  OBVIOUS
<1>2. ASSUME T # {} PROVE FALSE
  <2>1. PICK m \in T : \A j \in T : m <= j
    BY <1>2, LeastOfNumbers
  <2>2. CASE m = 0
    <3>1. PartSums(g, 0, [k \in 0 .. 0 |-> 0])
      BY DEF PartSums
    <3> QED
      BY <1>1, <2>1, <2>2, <3>1
  <2>3. CASE m # 0
    <3>1. m \in Nat /\ m - 1 \in Nat /\ m - 1 \notin T
      BY <1>1, <2>1, <2>3
    <3>2. PICK h : PartSums(g, m - 1, h)
      BY <1>1, <3>1
    <3>3. PICK e : e = [k \in 0 .. m |-> IF k = m THEN h[m - 1] + g[m] ELSE h[k]]
      OBVIOUS
    <3>4. h = [k \in 0 .. m - 1 |-> IF k = 0 THEN 0 ELSE h[k - 1] + g[k]]
      BY <3>2 DEF PartSums
    <3>5. ASSUME NEW k \in 0 .. m
          PROVE  e[k] = IF k = 0 THEN 0 ELSE e[k - 1] + g[k]
      <4>1. CASE k = m
        <5>1. k # 0 /\ k - 1 \in 0 .. m /\ k - 1 # m
          BY <2>3, <3>1, <4>1
        <5> QED
          BY <3>3, <4>1, <5>1
      <4>2. CASE k # m /\ k = 0
        <5>1. 0 \in 0 .. m - 1
          BY <3>1
        <5> QED
          BY <3>3, <3>4, <4>2, <5>1
      <4>3. CASE k # m /\ k # 0
        <5>1. k \in 0 .. m - 1 /\ k - 1 \in 0 .. m /\ k - 1 # m
          BY <3>1, <4>3
        <5>2. e[k] = h[k] /\ e[k - 1] = h[k - 1]
          BY <3>3, <4>3, <5>1
        <5> QED
          BY <3>4, <4>3, <5>1, <5>2
      <4> QED
        BY <4>1, <4>2, <4>3
    <3>6. e = [k \in 0 .. m |-> e[k]]
      BY <3>3
    <3>7. PartSums(g, m, e)
      BY <3>5, <3>6 DEF PartSums
    <3> QED
      BY <1>1, <2>1, <3>7
  <2> QED
    BY <2>2, <2>3
<1> QED
  BY <1>1, <1>2

\* Sums of numbers that agree are the same.
LEMMA PartSumsAgree ==
  ASSUME NEW g, NEW f, NEW n \in Nat, NEW m \in Nat, NEW h, NEW e,
         PartSums(g, n, h), PartSums(f, m, e),
         NEW l \in Nat, l <= n, l <= m, \A k \in 1 .. l : g[k] = f[k]
  PROVE  h[l] = e[l]
<1>1. PICK T \in SUBSET Nat : T = {k \in Nat : k <= l /\ h[k] # e[k]}
  OBVIOUS
<1>2. /\ h = [k \in 0 .. n |-> IF k = 0 THEN 0 ELSE h[k - 1] + g[k]]
      /\ e = [k \in 0 .. m |-> IF k = 0 THEN 0 ELSE e[k - 1] + f[k]]
  BY DEF PartSums
<1>3. ASSUME T # {} PROVE FALSE
  <2>1. PICK k \in T : \A j \in T : k <= j
    BY <1>3, LeastOfNumbers
  <2>2. k \in 0 .. n /\ k \in 0 .. m /\ h[k] # e[k]
    BY <1>1, <2>1
  <2>3. k # 0
    BY <1>2, <2>2
  <2>4. k - 1 \in 0 .. l /\ k - 1 \notin T /\ k \in 1 .. l
    BY <1>1, <2>1, <2>3
  <2>5. h[k - 1] = e[k - 1] /\ g[k] = f[k]
    BY <1>1, <2>4
  <2>6. h[k] = h[k - 1] + g[k] /\ e[k] = e[k - 1] + f[k]
    BY <1>2, <2>2, <2>3
  <2> QED
    BY <2>2, <2>5, <2>6
<1> QED
  BY <1>1, <1>3

\* A sum is the one before it and one number more.
LEMMA SumToParts ==
  ASSUME NEW g
  PROVE  \A n \in Nat : SumTo(g, n) = IF n = 0 THEN 0 ELSE SumTo(g, n - 1) + g[n]
<1> DEFINE Def(s) == s = [k \in Nat |-> IF k = 0 THEN 0 ELSE s[k - 1] + g[k]]
<1>1. PICK t : t = [n \in Nat |-> (CHOOSE h : PartSums(g, n, h))[n]]
  OBVIOUS
<1>2. ASSUME NEW n \in Nat, n # 0 PROVE t[n] = t[n - 1] + g[n]
  <2>1. PICK h : PartSums(g, n, h) /\ t[n] = h[n]
    BY <1>1, PartSumsExist
  <2>2. n - 1 \in Nat
    BY <1>2
  <2>3. PICK e : PartSums(g, n - 1, e) /\ t[n - 1] = e[n - 1]
    BY <1>1, <2>2, PartSumsExist
  <2>4. h[n - 1] = e[n - 1]
    <3>1. PICK m \in Nat : m = n - 1
      BY <2>2
    <3>2. m <= n /\ m <= m
      BY <3>1
    <3>3. PartSums(g, n, h) /\ PartSums(g, m, e)
      BY <2>1, <2>3, <3>1
    <3>4. h[m] = e[m]
      BY <3>2, <3>3, PartSumsAgree
    <3> QED
      BY <3>1, <3>4
  <2>5. h[n] = h[n - 1] + g[n]
    BY <1>2, <2>1 DEF PartSums
  <2> QED
    BY <2>1, <2>3, <2>4, <2>5
<1>3. t[0] = 0
  <2>1. PICK h : PartSums(g, 0, h) /\ t[0] = h[0]
    BY <1>1, PartSumsExist
  <2> QED
    BY <2>1 DEF PartSums
<1>4. Def(t)
  <2>1. ASSUME NEW n \in Nat PROVE t[n] = IF n = 0 THEN 0 ELSE t[n - 1] + g[n]
    BY <1>2, <1>3
  <2>2. t = [n \in Nat |-> t[n]]
    BY <1>1
  <2> QED
    BY <2>1, <2>2
<1>5. PICK s : s = CHOOSE x : Def(x)
  OBVIOUS
<1>6. Def(s)
  BY <1>4, <1>5
<1>7. \A n : SumTo(g, n) = s[n]
  BY <1>5 DEF SumTo
<1> HIDE DEF Def
<1>8. s = [k \in Nat |-> IF k = 0 THEN 0 ELSE s[k - 1] + g[k]]
  BY <1>6 DEF Def
<1>9. ASSUME NEW n \in Nat PROVE s[n] = IF n = 0 THEN 0 ELSE s[n - 1] + g[n]
  BY <1>8
<1> QED
  BY <1>7, <1>9

\* Sums of integers are integers, and only depend on what they sum.
LEMMA SumToInt ==
  ASSUME NEW g, NEW n \in Nat, \A k \in 1 .. n : g[k] \in Int
  PROVE  SumTo(g, n) \in Int
<1>1. PICK T \in SUBSET Nat : T = {k \in Nat : k <= n /\ SumTo(g, k) \notin Int}
  OBVIOUS
<1>2. ASSUME T # {} PROVE FALSE
  <2>1. PICK k \in T : \A j \in T : k <= j
    BY <1>2, LeastOfNumbers
  <2>2. CASE k = 0
    BY <1>1, <2>1, <2>2, SumToParts
  <2>3. CASE k # 0
    <3>1. k - 1 \in 0 .. n /\ k - 1 \notin T /\ k \in 1 .. n
      BY <1>1, <2>1, <2>3
    <3>2. SumTo(g, k - 1) \in Int /\ g[k] \in Int
      BY <1>1, <3>1
    <3>3. SumTo(g, k) = SumTo(g, k - 1) + g[k]
      BY <2>3, SumToParts
    <3> QED
      BY <1>1, <2>1, <3>2, <3>3
  <2> QED
    BY <2>2, <2>3
<1> QED
  BY <1>1, <1>2

LEMMA SumToSame ==
  ASSUME NEW g, NEW f, NEW n \in Nat, \A k \in 1 .. n : g[k] = f[k]
  PROVE  SumTo(g, n) = SumTo(f, n)
<1>1. PICK T \in SUBSET Nat : T = {k \in Nat : k <= n /\ SumTo(g, k) # SumTo(f, k)}
  OBVIOUS
<1>2. ASSUME T # {} PROVE FALSE
  <2>1. PICK k \in T : \A j \in T : k <= j
    BY <1>2, LeastOfNumbers
  <2>2. CASE k = 0
    BY <1>1, <2>1, <2>2, SumToParts
  <2>3. CASE k # 0
    <3>1. k - 1 \in 0 .. n /\ k - 1 \notin T /\ k \in 1 .. n
      BY <1>1, <2>1, <2>3
    <3>2. SumTo(g, k - 1) = SumTo(f, k - 1) /\ g[k] = f[k]
      BY <1>1, <3>1
    <3>3. SumTo(g, k) = SumTo(g, k - 1) + g[k] /\ SumTo(f, k) = SumTo(f, k - 1) + f[k]
      BY <2>3, SumToParts
    <3> QED
      BY <1>1, <2>1, <3>2, <3>3
  <2> QED
    BY <2>2, <2>3
<1> QED
  BY <1>1, <1>2

\* What two rows of integers sum to is the sum of their sums.
LEMMA SumToAdds ==
  ASSUME NEW h, NEW f, NEW g, NEW n \in Nat,
         \A k \in 1 .. n : f[k] \in Int /\ g[k] \in Int /\ h[k] = f[k] + g[k]
  PROVE  SumTo(h, n) = SumTo(f, n) + SumTo(g, n)
<1>1. PICK T \in SUBSET Nat : T = {k \in Nat : k <= n /\ SumTo(h, k) # SumTo(f, k) + SumTo(g, k)}
  OBVIOUS
<1>2. ASSUME T # {} PROVE FALSE
  <2>1. PICK k \in T : \A j \in T : k <= j
    BY <1>2, LeastOfNumbers
  <2>2. CASE k = 0
    BY <1>1, <2>1, <2>2, SumToParts
  <2>3. CASE k # 0
    <3>1. k - 1 \in Nat /\ k - 1 <= n /\ k - 1 \notin T /\ k \in 1 .. n
      BY <1>1, <2>1, <2>3
    <3>2. PICK a, b, c : a = SumTo(f, k - 1) /\ b = SumTo(g, k - 1) /\ c = SumTo(h, k - 1)
      OBVIOUS
    <3>3. a \in Int /\ b \in Int
      BY <3>1, <3>2, SumToInt
    <3>4. c = a + b /\ f[k] \in Int /\ g[k] \in Int /\ h[k] = f[k] + g[k]
      BY <1>1, <3>1, <3>2
    <3>5. SumTo(h, k) = c + h[k] /\ SumTo(f, k) = a + f[k] /\ SumTo(g, k) = b + g[k]
      BY <2>3, <3>2, SumToParts
    <3>6. SumTo(h, k) = SumTo(f, k) + SumTo(g, k)
      BY <3>3, <3>4, <3>5
    <3> QED
      BY <1>1, <2>1, <3>6
  <2> QED
    BY <2>2, <2>3
<1> QED
  BY <1>1, <1>2

\* A row with zeros but at one place sums to what is there.
LEMMA SumToOnly ==
  ASSUME NEW g, NEW n \in Nat, NEW k \in 1 .. n, g[k] \in Int, \A j \in (1 .. n) \ {k} : g[j] = 0
  PROVE  SumTo(g, n) = g[k]
<1>1. PICK T \in SUBSET Nat :
        T = {m \in Nat : m <= n /\ SumTo(g, m) # IF k <= m THEN g[k] ELSE 0}
  OBVIOUS
<1>2. ASSUME T # {} PROVE FALSE
  <2>1. PICK m \in T : \A j \in T : m <= j
    BY <1>2, LeastOfNumbers
  <2>2. CASE m = 0
    BY <1>1, <2>1, <2>2, SumToParts
  <2>3. CASE m # 0
    <3>1. m - 1 \in Nat /\ m - 1 <= n /\ m - 1 \notin T /\ m \in 1 .. n
      BY <1>1, <2>1, <2>3
    <3>2. SumTo(g, m - 1) = (IF k <= m - 1 THEN g[k] ELSE 0)
      BY <1>1, <3>1
    <3>3. SumTo(g, m) = SumTo(g, m - 1) + g[m]
      BY <2>3, SumToParts
    <3>4. m = k \/ g[m] = 0
      BY <3>1
    <3>5. SumTo(g, m) = (IF k <= m THEN g[k] ELSE 0)
      <4>1. CASE m = k
        BY <3>1, <3>2, <3>3, <4>1
      <4>2. CASE m # k
        BY <3>1, <3>2, <3>3, <3>4, <4>2
      <4> QED
        BY <4>1, <4>2
    <3> QED
      BY <1>1, <2>1, <3>5
  <2> QED
    BY <2>2, <2>3
<1> QED
  BY <1>1, <1>2
-----------------------------------------------------------------------------
(* Functions in a row.  As above, what holds of all is shown of the least  *)
(* number it would not hold of.                                            *)

\* h holds what the first functions of g make of x, up to n of them.
StepsOf(g, x, n, h) == h = [k \in 0 .. n |-> IF k = 0 THEN x ELSE g[k][h[k - 1]]]

LEMMA StepsOfExists == ASSUME NEW g, NEW x, NEW n \in Nat PROVE \E h : StepsOf(g, x, n, h)
<1>1. PICK T \in SUBSET Nat : T = {m \in Nat : ~\E h : StepsOf(g, x, m, h)}
  OBVIOUS
<1>2. ASSUME T # {} PROVE FALSE
  <2>1. PICK m \in T : \A j \in T : m <= j
    BY <1>2, LeastOfNumbers
  <2>2. CASE m = 0
    <3>1. PICK h : h = [k \in 0 .. 0 |-> x]
      OBVIOUS
    <3>2. h = [k \in 0 .. 0 |-> IF k = 0 THEN x ELSE g[k][h[k - 1]]]
      BY <3>1
    <3>3. StepsOf(g, x, 0, h)
      BY <3>2 DEF StepsOf
    <3> QED
      BY <1>1, <2>1, <2>2, <3>3
  <2>3. CASE m # 0
    <3>1. m \in Nat /\ m - 1 \in Nat /\ m - 1 \notin T
      BY <1>1, <2>1, <2>3
    <3>2. PICK h : StepsOf(g, x, m - 1, h)
      BY <1>1, <3>1
    <3>3. h = [k \in 0 .. m - 1 |-> IF k = 0 THEN x ELSE g[k][h[k - 1]]]
      BY <3>2 DEF StepsOf
    <3>4. PICK e : e = [k \in 0 .. m |-> IF k = m THEN g[m][h[m - 1]] ELSE h[k]]
      OBVIOUS
    <3>5. ASSUME NEW k \in 0 .. m
          PROVE  e[k] = IF k = 0 THEN x ELSE g[k][e[k - 1]]
      <4>1. CASE k = 0
        BY <2>3, <3>1, <3>3, <3>4, <4>1
      <4>2. CASE k # 0 /\ k < m
        <5>1. k \in 0 .. m - 1 /\ k - 1 \in 0 .. m /\ k - 1 # m
          BY <3>1, <4>2
        <5> QED
          BY <3>3, <3>4, <4>2, <5>1
      <4>3. CASE k = m
        <5>1. m - 1 \in 0 .. m /\ m - 1 # m
          BY <3>1
        <5> QED
          BY <2>3, <3>4, <4>3, <5>1
      <4> QED
        BY <3>1, <4>1, <4>2, <4>3
    <3>6. e = [k \in 0 .. m |-> e[k]]
      BY <3>4
    <3>7. StepsOf(g, x, m, e)
      BY <3>5, <3>6 DEF StepsOf
    <3> QED
      BY <1>1, <2>1, <3>7
  <2> QED
    BY <2>2, <2>3
<1> QED
  BY <1>1, <1>2

LEMMA StepsOfAgree ==
  ASSUME NEW g, NEW x, NEW n \in Nat, NEW m \in Nat, NEW h, NEW e,
         StepsOf(g, x, n, h), StepsOf(g, x, m, e), NEW l \in Nat, l <= n, l <= m
  PROVE  h[l] = e[l]
<1>1. PICK T \in SUBSET Nat : T = {k \in Nat : k <= l /\ h[k] # e[k]}
  OBVIOUS
<1>2. /\ h = [k \in 0 .. n |-> IF k = 0 THEN x ELSE g[k][h[k - 1]]]
      /\ e = [k \in 0 .. m |-> IF k = 0 THEN x ELSE g[k][e[k - 1]]]
  BY DEF StepsOf
<1>3. ASSUME T # {} PROVE FALSE
  <2>1. PICK k \in T : \A j \in T : k <= j
    BY <1>3, LeastOfNumbers
  <2>2. k \in 0 .. n /\ k \in 0 .. m /\ h[k] # e[k]
    BY <1>1, <2>1
  <2>3. k # 0
    BY <1>2, <2>2
  <2>4. k - 1 \in 0 .. l /\ k - 1 \notin T
    BY <1>1, <2>1, <2>3
  <2>5. h[k - 1] = e[k - 1]
    BY <1>1, <2>4
  <2>6. h[k] = g[k][h[k - 1]] /\ e[k] = g[k][e[k - 1]]
    BY <1>2, <2>2, <2>3
  <2> QED
    BY <2>2, <2>5, <2>6
<1> QED
  BY <1>1, <1>3

\* One function after the others.
LEMMA InTurnParts ==
  ASSUME NEW g, NEW x
  PROVE  /\ InTurn(g, x, 0) = x
         /\ \A n \in Nat : n # 0 => InTurn(g, x, n) = g[n][InTurn(g, x, n - 1)]
<1> DEFINE Def(s) == s = [k \in Nat |-> IF k = 0 THEN x ELSE g[k][s[k - 1]]]
<1>1. PICK t : t = [n \in Nat |-> (CHOOSE h : StepsOf(g, x, n, h))[n]]
  OBVIOUS
<1>2. ASSUME NEW n \in Nat, n # 0 PROVE t[n] = g[n][t[n - 1]]
  <2>1. PICK h : StepsOf(g, x, n, h) /\ t[n] = h[n]
    BY <1>1, StepsOfExists
  <2>2. PICK m \in Nat : m = n - 1
    BY <1>2
  <2>3. PICK e : StepsOf(g, x, m, e) /\ t[m] = e[m]
    BY <1>1, StepsOfExists
  <2>4. h[m] = e[m]
    <3>1. m <= n /\ m <= m
      BY <2>2
    <3> QED
      BY <2>1, <2>3, <3>1, StepsOfAgree
  <2>5. h[n] = g[n][h[n - 1]]
    BY <1>2, <2>1 DEF StepsOf
  <2> QED
    BY <2>1, <2>2, <2>3, <2>4, <2>5
<1>3. t[0] = x
  <2>1. PICK h : StepsOf(g, x, 0, h) /\ t[0] = h[0]
    BY <1>1, StepsOfExists
  <2> QED
    BY <2>1 DEF StepsOf
<1>4. Def(t)
  <2>1. ASSUME NEW n \in Nat PROVE t[n] = IF n = 0 THEN x ELSE g[n][t[n - 1]]
    BY <1>2, <1>3
  <2>2. t = [n \in Nat |-> t[n]]
    BY <1>1
  <2> QED
    BY <2>1, <2>2
<1>5. PICK s : s = CHOOSE y : Def(y)
  OBVIOUS
<1>7. \A n : InTurn(g, x, n) = s[n]
  BY <1>5 DEF InTurn
<1> HIDE DEF Def
<1>6. Def(s)
  BY <1>4, <1>5
<1>8. s = [k \in Nat |-> IF k = 0 THEN x ELSE g[k][s[k - 1]]]
  BY <1>6 DEF Def
<1>9. s[0] = x /\ \A n \in Nat : n # 0 => s[n] = g[n][s[n - 1]]
  BY <1>8
<1> QED
  BY <1>7, <1>9

LEMMA InTurnNext ==
  ASSUME NEW g, NEW x, NEW n \in Nat, n # 0
  PROVE  InTurn(g, x, n) = g[n][InTurn(g, x, n - 1)]
BY InTurnParts

\* What holds at first and is kept by every function holds all along: J[k] is
\* where the first k functions lead.
LEMMA InTurnLeads ==
  ASSUME NEW g, NEW x, NEW n \in Nat, NEW J, x \in J[0],
         \A k \in 1 .. n : \A y \in J[k - 1] : g[k][y] \in J[k]
  PROVE  \A k \in 0 .. n : InTurn(g, x, k) \in J[k]
<1>1. PICK T \in SUBSET Nat : T = {k \in Nat : k <= n /\ InTurn(g, x, k) \notin J[k]}
  OBVIOUS
<1>2. ASSUME T # {} PROVE FALSE
  <2>1. PICK k \in T : \A j \in T : k <= j
    BY <1>2, LeastOfNumbers
  <2>2. k # 0
    BY <1>1, <2>1, InTurnParts
  <2>3. k - 1 \in 0 .. n /\ k - 1 \notin T /\ k \in 1 .. n
    BY <1>1, <2>1, <2>2
  <2>4. InTurn(g, x, k - 1) \in J[k - 1]
    BY <1>1, <2>3
  <2>5. InTurn(g, x, k) = g[k][InTurn(g, x, k - 1)]
    BY <1>1, <2>1, <2>2, InTurnParts
  <2> QED
    BY <1>1, <2>1, <2>3, <2>4, <2>5
<1> QED
  BY <1>1, <1>2

\* Functions that do the same on the way lead to the same.
LEMMA InTurnSame ==
  ASSUME NEW g, NEW h, NEW x, NEW n \in Nat,
         \A k \in 1 .. n : g[k][InTurn(g, x, k - 1)] = h[k][InTurn(g, x, k - 1)]
  PROVE  InTurn(g, x, n) = InTurn(h, x, n)
<1>1. PICK J : J = [k \in Nat |-> {InTurn(g, x, k)}]
  OBVIOUS
<1>2. x \in J[0]
  BY <1>1, InTurnParts
<1>3. ASSUME NEW k \in 1 .. n, NEW y \in J[k - 1] PROVE h[k][y] \in J[k]
  <2>1. k \in Nat \ {0} /\ k - 1 \in Nat
    OBVIOUS
  <2>2. y = InTurn(g, x, k - 1) /\ J[k] = {InTurn(g, x, k)}
    BY <1>1, <2>1
  <2>3. InTurn(g, x, k) = g[k][InTurn(g, x, k - 1)]
    BY <2>1, InTurnParts
  <2> QED
    BY <2>2, <2>3
<1>4. n \in 0 .. n
  OBVIOUS
<1>5. InTurn(h, x, n) \in J[n]
  BY <1>2, <1>3, <1>4, InTurnLeads
<1> QED
  BY <1>1, <1>5

\* The functions from some place on begin where those before it lead.
LEMMA InTurnRest ==
  ASSUME NEW g, NEW h, NEW x, NEW m \in Nat, NEW n \in Nat,
         \A k \in 1 .. n : h[k] = g[m + k]
  PROVE  InTurn(g, x, m + n) = InTurn(h, InTurn(g, x, m), n)
<1>1. PICK J : J = [k \in Nat |-> {InTurn(g, x, m + k)}]
  OBVIOUS
<1>2. InTurn(g, x, m) \in J[0]
  <2>1. m + 0 = m
    OBVIOUS
  <2> QED
    BY <1>1, <2>1
<1>3. ASSUME NEW k \in 1 .. n, NEW y \in J[k - 1] PROVE h[k][y] \in J[k]
  <2>1. PICK l \in Nat : l # 0 /\ l = m + k /\ k \in Nat /\ k - 1 \in Nat /\ m + (k - 1) = l - 1
    OBVIOUS
  <2>2. y = InTurn(g, x, l - 1) /\ J[k] = {InTurn(g, x, l)}
    BY <1>1, <2>1
  <2>3. InTurn(g, x, l) = g[l][InTurn(g, x, l - 1)]
    BY <2>1, InTurnNext
  <2> QED
    BY <2>1, <2>2, <2>3
<1>4. n \in 0 .. n
  OBVIOUS
<1>5. InTurn(h, InTurn(g, x, m), n) \in J[n]
  BY <1>2, <1>3, <1>4, InTurnLeads
<1> QED
  BY <1>1, <1>5
=============================================================================
