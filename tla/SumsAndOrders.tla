--------------------------- MODULE SumsAndOrders ---------------------------
(***************************************************************************)
(* Lemmas on sums over finite sets, and on finite sets in order, for the   *)
(* proofs about Bandwidth and about the list of the live view.             *)
(***************************************************************************)
EXTENDS Integers, FiniteSets, FiniteSetsExt, FiniteSetTheorems, WellFoundedInduction,
        NaturalsInduction, TLAPS

-----------------------------------------------------------------------------
(* Numbers                                                                  *)

LEMMA LeastOf ==
    ASSUME NEW T, T \subseteq Nat, T # {}
    PROVE  \E x \in T : \A y \in T : x <= y
<1> DEFINE R == OpToRel(<, Nat)
<1>1. PICK x \in T : \A y \in T : ~(<<y, x>> \in R)
  <2>1. IsWellFoundedOn(R, Nat)
    BY NatLessThanWellFounded, Zenon
  <2> HIDE DEF R
  <2> QED
    BY <2>1, WFMin
<1>2. \A y \in T : ~(y < x)
  BY <1>1 DEF OpToRel
<1> QED
  BY <1>2

-----------------------------------------------------------------------------
(* Sums.  The sum of a function is the number of its units: for each x as   *)
(* many as f[x].                                                            *)

Units(f, S) == UNION {{x} \X (1 .. f[x]) : x \in S}

LEMMA UnitsAre ==
    ASSUME NEW S, NEW f \in [S -> Nat], NEW T \in SUBSET S
    PROVE  Units(f, T) = {u \in T \X Nat : u[2] \in 1 .. f[u[1]]}
<1>1. ASSUME NEW u \in Units(f, T) PROVE u \in T \X Nat /\ u[2] \in 1 .. f[u[1]]
  BY <1>1 DEF Units
<1>2. ASSUME NEW u \in T \X Nat, u[2] \in 1 .. f[u[1]] PROVE u \in Units(f, T)
  <2>1. u[1] \in T /\ u \in {u[1]} \X (1 .. f[u[1]])
    BY <1>2
  <2> QED
    BY <2>1 DEF Units
<1> QED
  BY <1>1, <1>2

LEMMA UnitsFinite ==
    ASSUME NEW S, IsFiniteSet(S), NEW f \in [S -> Nat]
    PROVE  IsFiniteSet(Units(f, S))
<1> DEFINE P == {{x} \X (1 .. f[x]) : x \in S}
           h == [x \in S |-> {x} \X (1 .. f[x])]
<1>1. h \in Surjection(S, P)
  BY DEF Surjection
<1>2. IsFiniteSet(P)
  BY <1>1, FS_Surjection
<1>3. ASSUME NEW t \in P PROVE IsFiniteSet(t)
  <2>1. PICK x \in S : t = {x} \X (1 .. f[x])
    OBVIOUS
  <2>2. IsFiniteSet({x}) /\ IsFiniteSet(1 .. f[x])
    <3>1. f[x] \in Int /\ 1 \in Int
      OBVIOUS
    <3> QED
      BY <3>1, FS_Singleton, FS_Interval
  <2> QED
    BY <2>1, <2>2, FS_Product
<1>4. IsFiniteSet(UNION P)
  <2> HIDE DEF P
  <2> QED
    BY <1>2, <1>3, FS_UNION
<1> QED
  BY <1>4 DEF Units

LEMMA UnitsMore ==
    ASSUME NEW S, IsFiniteSet(S), NEW f \in [S -> Nat], NEW T \in SUBSET S, NEW x \in T
    PROVE  /\ IsFiniteSet(Units(f, T)) /\ Cardinality(Units(f, T)) \in Nat
           /\ IsFiniteSet(Units(f, T \ {x})) /\ Cardinality(Units(f, T \ {x})) \in Nat
           /\ Cardinality(Units(f, T)) = f[x] + Cardinality(Units(f, T \ {x}))
<1> DEFINE A == {x} \X (1 .. f[x])
           B == Units(f, T \ {x})
<1>1. Units(f, T) = A \cup B
  BY DEF Units
<1>2. IsFiniteSet(Units(f, S))
  BY UnitsFinite
<1>3. Units(f, T) \subseteq Units(f, S) /\ B \subseteq Units(f, S)
  BY DEF Units
<1>4. IsFiniteSet(A) /\ Cardinality(A) = f[x]
  <2>1. IsFiniteSet({x}) /\ Cardinality({x}) = 1
    BY FS_Singleton
  <2>2. IsFiniteSet(1 .. f[x]) /\ Cardinality(1 .. f[x]) = f[x]
    BY FS_Interval
  <2>3. IsFiniteSet(A) /\ Cardinality(A) = 1 * f[x]
    BY <2>1, <2>2, FS_Product
  <2> QED
    BY <2>3
<1>5. A \cap B = {}
  BY UnitsAre
<1>6. IsFiniteSet(Units(f, T)) /\ IsFiniteSet(B)
  BY <1>2, <1>3, FS_Subset
<1>7. Cardinality(A \cap B) = 0
  BY <1>5, FS_EmptySet
<1>8. Cardinality(Units(f, T)) = f[x] + Cardinality(B) - 0
  <2> HIDE DEF A, B
  <2> QED
    BY <1>1, <1>4, <1>6, <1>7, FS_Union
<1> QED
  BY <1>6, <1>8, FS_CardinalityType

LEMMA SumIsUnits ==
    ASSUME NEW S, IsFiniteSet(S), NEW f \in [S -> Nat]
    PROVE  SumFunction(f) = Cardinality(Units(f, S))
<1> DEFINE pick(s) == CHOOSE x \in s : TRUE
           Step(h) == [s \in SUBSET S |-> IF s = {} THEN 0 ELSE f[pick(s)] + h[s \ {pick(s)}]]
           units == [s \in SUBSET S |-> Cardinality(Units(f, s))]
<1>1. DOMAIN f = S
  OBVIOUS
<1>2. units = Step(units)
  <2>1. ASSUME NEW s \in SUBSET S, s # {} PROVE units[s] = f[pick(s)] + units[s \ {pick(s)}]
    <3>1. pick(s) \in s
      BY <2>1
    <3>2. s \ {pick(s)} \in SUBSET S
      OBVIOUS
    <3>3. Cardinality(Units(f, s)) = f[pick(s)] + Cardinality(Units(f, s \ {pick(s)}))
      <4> HIDE DEF pick
      <4> QED
        BY <3>1, UnitsMore
    <3> QED
      BY <3>2, <3>3
  <2>2. units[{}] = 0
    <3>1. Units(f, {}) = {}
      BY DEF Units
    <3> QED
      BY <3>1, FS_EmptySet
  <2>3. \A s \in SUBSET S : units[s] = Step(units)[s]
    <3> HIDE DEF units
    <3> QED
      BY <2>1, <2>2
  <2> QED
    BY <2>3
<1>3. PICK h : h = Step(h) /\ SumFunction(f) = h[DOMAIN f]
  BY <1>1, <1>2, Zenon DEF SumFunction, SumFunctionOnSet, FoldFunctionOnSet, MapThenFoldSet
<1>4. ASSUME NEW s \in SUBSET S, h[s] # units[s] PROVE FALSE
  <2> DEFINE Wrong == {n \in Nat : \E t \in SUBSET S : h[t] # units[t] /\ Cardinality(t) = n}
  <2>1. Cardinality(s) \in Wrong
    BY <1>4, FS_Subset, FS_CardinalityType
  <2>2. PICK n \in Wrong : \A m \in Wrong : n <= m
    <3>1. Wrong \subseteq Nat /\ Wrong # {}
      BY <2>1
    <3> HIDE DEF Wrong
    <3> QED
      BY <3>1, LeastOf
  <2>3. PICK t \in SUBSET S : h[t] # units[t] /\ Cardinality(t) = n
    OBVIOUS
  <2>4. t # {}
    BY <1>2, <1>3, <2>3
  <2> DEFINE x == pick(t)
             r == t \ {x}
  <2>5. x \in t
    BY <2>4
  <2>6. h[t] = f[x] + h[r] /\ units[t] = f[x] + units[r]
    <3> HIDE DEF units
    <3>1. h[t] = Step(h)[t] /\ units[t] = Step(units)[t]
      BY <1>2, <1>3
    <3> QED
      BY <2>4, <3>1
  <2>7. Cardinality(r) \in Nat /\ Cardinality(r) < n
    <3>1. IsFiniteSet(t)
      BY FS_Subset
    <3>2. Cardinality(r) = Cardinality(t) - 1 /\ IsFiniteSet(r)
      BY <2>5, <3>1, FS_RemoveElement
    <3> QED
      BY <2>3, <3>1, <3>2, FS_CardinalityType
  <2>8. h[r] # units[r]
    BY <2>3, <2>6
  <2>9. Cardinality(r) \in Wrong
    BY <2>7, <2>8
  <2> QED
    <3>1. n <= Cardinality(r) /\ n \in Nat
      BY <2>2, <2>9
    <3> QED
      BY <2>7, <3>1
<1> QED
  BY <1>1, <1>3, <1>4

LEMMA SumType ==
    ASSUME NEW S, IsFiniteSet(S), NEW f \in [S -> Nat]
    PROVE  SumFunction(f) \in Nat
  BY SumIsUnits, UnitsFinite, FS_CardinalityType

LEMMA SumOfNone ==
    ASSUME NEW f \in [{} -> Nat]
    PROVE  SumFunction(f) = 0
<1>1. Units(f, {}) = {}
  BY DEF Units
<1> QED
  BY <1>1, SumIsUnits, FS_EmptySet

LEMMA SumOfOne ==
    ASSUME NEW x, NEW f \in [{x} -> Nat]
    PROVE  SumFunction(f) = f[x]
<1>1. IsFiniteSet({x})
  BY FS_Singleton
<1>2. {x} \ {x} = {}
  OBVIOUS
<1>3. Units(f, {}) = {}
  BY DEF Units
<1>4. Cardinality(Units(f, {x})) = f[x] + Cardinality(Units(f, {x} \ {x}))
  BY <1>1, UnitsMore
<1>5. Cardinality(Units(f, {x})) = f[x] + 0
  BY <1>2, <1>3, <1>4, FS_EmptySet
<1>6. f[x] \in Nat
  OBVIOUS
<1> QED
  BY <1>1, <1>5, <1>6, SumIsUnits

\* Each x has a share of its own in the other sum.
LEMMA SumAtMost ==
    ASSUME NEW S, IsFiniteSet(S), NEW f \in [S -> Nat],
           NEW T, IsFiniteSet(T), NEW g \in [T -> Nat],
           NEW h \in Injection(S, T), \A x \in S : f[x] <= g[h[x]]
    PROVE  SumFunction(f) <= SumFunction(g)
<1> DEFINE i == [u \in Units(f, S) |-> <<h[u[1]], u[2]>>]
<1>1. \A x \in S : h[x] \in T /\ f[x] \in Nat /\ g[h[x]] \in Nat
  BY DEF Injection
<1>2. ASSUME NEW u \in Units(f, S)
      PROVE  u[1] \in S /\ u[2] \in Nat /\ u = <<u[1], u[2]>> /\ i[u] \in Units(g, T)
  <2>1. u \in S \X Nat /\ u[2] \in 1 .. f[u[1]]
    BY UnitsAre
  <2>2. <<h[u[1]], u[2]>> \in T \X Nat /\ u[2] \in 1 .. g[h[u[1]]]
    BY <1>1, <2>1
  <2>3. <<h[u[1]], u[2]>> \in Units(g, T)
    BY <2>2, UnitsAre
  <2> QED
    BY <2>1, <2>3
<1>3. i \in Injection(Units(f, S), Units(g, T))
  <2>1. i \in [Units(f, S) -> Units(g, T)]
    BY <1>2
  <2>2. ASSUME NEW u \in Units(f, S), NEW v \in Units(f, S), i[u] = i[v] PROVE u = v
    <3>1. h[u[1]] = h[v[1]] /\ u[2] = v[2]
      BY <2>2
    <3>2. u[1] = v[1]
      BY <1>2, <3>1 DEF Injection, IsInjective
    <3> QED
      BY <1>2, <3>1, <3>2
  <2> HIDE DEF i
  <2> QED
    BY <2>1, <2>2 DEF Injection, IsInjective
<1>4. IsFiniteSet(Units(g, T))
  BY UnitsFinite
<1>5. Cardinality(Units(f, S)) <= Cardinality(Units(g, T))
  <2> HIDE DEF i
  <2> QED
    BY <1>3, <1>4, FS_Injection
<1> QED
  BY <1>5, SumIsUnits

LEMMA SumMoved ==
    ASSUME NEW S, IsFiniteSet(S), NEW f \in [S -> Nat],
           NEW T, IsFiniteSet(T), NEW g \in [T -> Nat],
           NEW h \in Bijection(S, T), \A x \in S : f[x] = g[h[x]]
    PROVE  SumFunction(f) = SumFunction(g)
<1> DEFINE k == [y \in T |-> CHOOSE x \in S : h[x] = y]
<1>1. h \in Injection(S, T) /\ h \in Surjection(S, T) /\ h \in [S -> T]
  BY DEF Bijection, Injection
<1>2. \A y \in T : k[y] \in S /\ h[k[y]] = y
  BY <1>1 DEF Surjection
<1>3. k \in Injection(T, S)
  <2>1. k \in [T -> S]
    BY <1>2
  <2> HIDE DEF k
  <2> QED
    BY <1>2, <2>1 DEF Injection, IsInjective
<1>4. \A y \in T : g[y] <= f[k[y]]
  <2> HIDE DEF k
  <2> QED
    BY <1>2
<1>5. \A x \in S : f[x] <= g[h[x]]
  BY <1>1
<1>6. SumFunction(f) <= SumFunction(g)
  BY <1>1, <1>5, SumAtMost
<1>7. SumFunction(g) <= SumFunction(f)
  <2> HIDE DEF k
  <2> QED
    BY <1>3, <1>4, SumAtMost
<1> QED
  BY <1>6, <1>7, SumType

\* What is divided among k \in K adds up to the whole.
LEMMA PartsAddUp ==
    ASSUME NEW U, IsFiniteSet(U), NEW K, IsFiniteSet(K), NEW q \in [U -> K],
           NEW n \in [K -> Nat], \A k \in K : n[k] = Cardinality({u \in U : q[u] = k})
    PROVE  SumFunction(n) = Cardinality(U)
<1> DEFINE part(k) == {u \in U : q[u] = k}
           number == [k \in K |-> CHOOSE f : f \in Bijection(1 .. n[k], part(k))]
           h == [v \in Units(n, K) |-> number[v[1]][v[2]]]
<1>1. \A k \in K : number[k] \in Bijection(1 .. n[k], part(k))
  <2> SUFFICES ASSUME NEW k \in K PROVE number[k] \in Bijection(1 .. n[k], part(k))
    OBVIOUS
  <2>1. IsFiniteSet(part(k)) /\ n[k] = Cardinality(part(k))
    BY FS_Subset
  <2>2. ExistsBijection(1 .. n[k], part(k))
    <3> HIDE DEF part
    <3> QED
      BY <2>1, FS_CardinalityType
  <2> QED
    BY <2>2, Zenon DEF ExistsBijection
<1> HIDE DEF number
<1>2. \A v \in Units(n, K) : v[1] \in K /\ v[2] \in 1 .. n[v[1]] /\ v = <<v[1], v[2]>> /\ v[2] \in Nat
  BY UnitsAre
<1>3. \A k \in K : \A i \in 1 .. n[k] : number[k][i] \in U /\ q[number[k][i]] = k
  BY <1>1 DEF Bijection, Injection
<1>4. h \in [Units(n, K) -> U]
  BY <1>2, <1>3
<1>5. ASSUME NEW v \in Units(n, K), NEW w \in Units(n, K), h[v] = h[w] PROVE v = w
  <2>1. number[v[1]][v[2]] = number[w[1]][w[2]]
    BY <1>5
  <2>2. v[1] = w[1]
    BY <1>2, <1>3, <2>1
  <2>3. v[2] = w[2]
    <3> DEFINE g == number[v[1]]
               N == 1 .. n[v[1]]
    <3>1. g \in [N -> part(v[1])] /\ IsInjective(g)
      BY <1>1, <1>2 DEF Bijection, Injection
    <3>2. v[2] \in N /\ w[2] \in N /\ g[v[2]] = g[w[2]]
      BY <1>2, <2>1, <2>2
    <3> HIDE DEF g, N
    <3> QED
      BY <3>1, <3>2 DEF IsInjective
  <2> QED
    BY <1>2, <2>2, <2>3
<1>6. ASSUME NEW u \in U PROVE \E v \in Units(n, K) : h[v] = u
  <2>1. q[u] \in K /\ u \in part(q[u])
    OBVIOUS
  <2>2. PICK i \in 1 .. n[q[u]] : number[q[u]][i] = u
    BY <1>1, <2>1 DEF Bijection, Surjection
  <2>3. <<q[u], i>> \in Units(n, K)
    <3>1. n[q[u]] \in Nat
      BY <2>1
    <3>2. <<q[u], i>> \in K \X Nat
      BY <2>1, <2>2, <3>1
    <3> QED
      BY <2>2, <3>2, UnitsAre
  <2> QED
    BY <2>2, <2>3
<1>7. h \in Bijection(Units(n, K), U)
  <2> HIDE DEF h
  <2> QED
    BY <1>4, <1>5, <1>6 DEF Bijection, Injection, Surjection, IsInjective
<1>8. Cardinality(U) = Cardinality(Units(n, K))
  <2>1. IsFiniteSet(Units(n, K))
    BY UnitsFinite
  <2>2. ExistsBijection(Units(n, K), U)
    BY <1>7, Zenon DEF ExistsBijection
  <2> QED
    BY <2>1, <2>2, FS_Bijection
<1> QED
  BY <1>8, SumIsUnits

\* f's arguments sorted by p into K; part[k] is f on those of k, n[k] their sum.
SortedAt(S, f, p, n, part, k) ==
    /\ part[k] \in [{y \in S : p[y] = k} -> Nat]
    /\ \A x \in S : p[x] = k => part[k][x] = f[x]
    /\ n[k] = SumFunction(part[k])

Sorted(S, f, K, p, n, part) ==
    /\ IsFiniteSet(S) /\ f \in [S -> Nat]
    /\ IsFiniteSet(K) /\ p \in [S -> K] /\ n \in [K -> Nat]
    /\ \A k \in K : SortedAt(S, f, p, n, part, k)

LEMMA SumOfParts ==
    ASSUME NEW S, NEW f, NEW K, NEW p, NEW n, NEW part, Sorted(S, f, K, p, n, part)
    PROVE  SumFunction(n) = SumFunction(f)
<1>7. /\ IsFiniteSet(S) /\ f \in [S -> Nat] /\ IsFiniteSet(K) /\ p \in [S -> K] /\ n \in [K -> Nat]
      /\ \A k \in K : SortedAt(S, f, p, n, part, k)
  BY DEF Sorted
<1> DEFINE U == Units(f, S)
           q == [u \in U |-> p[u[1]]]
<1>1. IsFiniteSet(U)
  BY <1>7, UnitsFinite
<1>2. \A u \in U : u[1] \in S
  BY <1>7, UnitsAre
<1>3. q \in [U -> K]
  <2> HIDE DEF U
  <2> QED
    BY <1>2, <1>7
<1>4. ASSUME NEW k \in K PROVE n[k] = Cardinality({u \in U : q[u] = k})
  <2> DEFINE T == {y \in S : p[y] = k}
             g == part[k]
  <2>1. g \in [T -> Nat] /\ IsFiniteSet(T) /\ \A x \in T : g[x] = f[x]
    BY <1>7, FS_Subset DEF SortedAt
  <2>2. n[k] = Cardinality(Units(g, T))
    <3>1. n[k] = SumFunction(g)
      BY <1>7 DEF SortedAt
    <3> HIDE DEF g, T
    <3> QED
      BY <2>1, <3>1, SumIsUnits
  <2>3. Units(g, T) = Units(f, T)
    <3> HIDE DEF g, T
    <3> QED
      BY <2>1 DEF Units
  <2>4. ASSUME NEW u PROVE u \in Units(f, T) <=> u \in U /\ q[u] = k
    <3>1. u \in Units(f, T) <=> u \in T \X Nat /\ u[2] \in 1 .. f[u[1]]
      <4>1. T \in SUBSET S
        OBVIOUS
      <4> HIDE DEF T
      <4> QED
        BY <1>7, <4>1, UnitsAre
    <3>2. u \in U <=> u \in S \X Nat /\ u[2] \in 1 .. f[u[1]]
      BY <1>7, UnitsAre
    <3>3. u \in U => q[u] = p[u[1]]
      OBVIOUS
    <3> HIDE DEF U, q
    <3> QED
      BY <3>1, <3>2, <3>3
  <2>5. Units(f, T) = {u \in U : q[u] = k}
    <3> HIDE DEF T, U, q
    <3> QED
      BY <2>4
  <2> QED
    BY <2>2, <2>3, <2>5
<1> HIDE DEF U, q
<1>5. SumFunction(n) = Cardinality(U)
  BY <1>1, <1>3, <1>4, <1>7, PartsAddUp
<1> QED
  BY <1>5, <1>7, SumIsUnits DEF U

LEMMA SumPlus ==
    ASSUME NEW S, IsFiniteSet(S), NEW f \in [S -> Nat], NEW g \in [S -> Nat],
           NEW h \in [S -> Nat], \A x \in S : h[x] = f[x] + g[x]
    PROVE  SumFunction(h) = SumFunction(f) + SumFunction(g)
<1> DEFINE U == Units(h, S)
           A == Units(f, S)
           B == Units(g, S)
           s == [u \in U \ A |-> <<u[1], u[2] - f[u[1]]>>]
<1>1. /\ \A u : u \in U <=> u \in S \X Nat /\ u[2] \in 1 .. f[u[1]] + g[u[1]]
      /\ \A u : u \in A <=> u \in S \X Nat /\ u[2] \in 1 .. f[u[1]]
      /\ \A u : u \in B <=> u \in S \X Nat /\ u[2] \in 1 .. g[u[1]]
  <2>1. /\ U = {u \in S \X Nat : u[2] \in 1 .. h[u[1]]}
        /\ A = {u \in S \X Nat : u[2] \in 1 .. f[u[1]]}
        /\ B = {u \in S \X Nat : u[2] \in 1 .. g[u[1]]}
    BY UnitsAre
  <2> HIDE DEF U, A, B
  <2> QED
    BY <2>1
<1>2. IsFiniteSet(U) /\ IsFiniteSet(A) /\ IsFiniteSet(B)
  BY UnitsFinite
<1> HIDE DEF U, A, B
<1>3. \A x \in S : f[x] \in Nat /\ g[x] \in Nat
  OBVIOUS
<1>4. A \subseteq U
  <2> SUFFICES ASSUME NEW u \in A PROVE u \in U
    OBVIOUS
  <2>1. u \in S \X Nat /\ u[2] \in 1 .. f[u[1]] /\ u[1] \in S
    BY <1>1
  <2>2. u[2] \in 1 .. f[u[1]] + g[u[1]]
    BY <1>3, <2>1
  <2> QED
    BY <1>1, <2>1, <2>2
<1>5. ASSUME NEW u \in U \ A
      PROVE  u[1] \in S /\ u[2] \in Nat /\ f[u[1]] \in Nat /\ u = <<u[1], u[2]>> /\ s[u] \in B
  <2>1. u \in S \X Nat /\ u[2] \in 1 .. f[u[1]] + g[u[1]] /\ u[2] \notin 1 .. f[u[1]]
    BY <1>1
  <2>2. u[2] - f[u[1]] \in 1 .. g[u[1]] /\ u[2] - f[u[1]] \in Nat
    BY <1>3, <2>1
  <2>3. <<u[1], u[2] - f[u[1]]>> \in B
    BY <1>1, <2>1, <2>2
  <2> QED
    BY <1>3, <2>1, <2>3
<1>6. s \in Bijection(U \ A, B)
  <2>1. s \in [U \ A -> B]
    BY <1>5
  <2>2. ASSUME NEW u \in U \ A, NEW v \in U \ A, s[u] = s[v] PROVE u = v
    <3>1. u[1] = v[1] /\ u[2] - f[u[1]] = v[2] - f[v[1]]
      BY <2>2
    <3>2. u[2] = v[2]
      <4>1. u[2] \in Nat /\ v[2] \in Nat /\ f[u[1]] \in Nat
        BY <1>5
      <4>2. u[2] - f[u[1]] = v[2] - f[u[1]]
        BY <3>1
      <4> QED
        BY ONLY <4>1, <4>2
    <3> QED
      BY <1>5, <3>1, <3>2
  <2>3. ASSUME NEW w \in B PROVE \E u \in U \ A : s[u] = w
    <3>1. w \in S \X Nat /\ w[2] \in 1 .. g[w[1]] /\ w[1] \in S /\ w[2] \in Nat /\ w = <<w[1], w[2]>>
      BY <1>1
    <3> DEFINE u == <<w[1], w[2] + f[w[1]]>>
    <3>2. u \in S \X Nat /\ u[1] = w[1] /\ u[2] = w[2] + f[w[1]]
      BY <1>3, <3>1
    <3>3. u[2] \in 1 .. f[u[1]] + g[u[1]] /\ u[2] \notin 1 .. f[u[1]]
      BY <1>3, <3>1, <3>2
    <3>4. u \in U \ A
      BY <1>1, <3>2, <3>3
    <3>5. u[2] - f[u[1]] = w[2]
      BY <1>3, <3>1, <3>2
    <3>6. s[u] = <<u[1], u[2] - f[u[1]]>>
      BY <3>4
    <3> QED
      BY <3>1, <3>2, <3>4, <3>5, <3>6
  <2> HIDE DEF s
  <2> QED
    BY <2>1, <2>2, <2>3 DEF Bijection, Injection, Surjection, IsInjective
<1>7. IsFiniteSet(U \ A) /\ Cardinality(U) = Cardinality(A) + Cardinality(U \ A)
  <2>1. U \cap A = A
    BY <1>4
  <2>2. IsFiniteSet(U \ A) /\ Cardinality(U \ A) = Cardinality(U) - Cardinality(U \cap A)
    BY <1>2, FS_Difference
  <2>3. Cardinality(U) \in Nat /\ Cardinality(A) \in Nat
    BY <1>2, FS_CardinalityType
  <2>4. Cardinality(U \ A) = Cardinality(U) - Cardinality(A)
    BY <2>1, <2>2
  <2> QED
    BY ONLY <2>2, <2>3, <2>4
<1>8. Cardinality(U \ A) = Cardinality(B)
  <2>1. ExistsBijection(U \ A, B)
    BY <1>6, Zenon DEF ExistsBijection
  <2> QED
    BY <1>7, <2>1, FS_Bijection
<1> QED
  BY <1>7, <1>8, SumIsUnits DEF U, A, B

LEMMA SumOfUnion ==
    ASSUME NEW S, IsFiniteSet(S), NEW T, IsFiniteSet(T), S \cap T = {},
           NEW g \in [S -> Nat], NEW h \in [T -> Nat], NEW f \in [S \cup T -> Nat],
           \A x \in S : g[x] = f[x], \A x \in T : h[x] = f[x]
    PROVE  SumFunction(f) = SumFunction(g) + SumFunction(h)
<1>1. g \in [S -> Nat] /\ h \in [T -> Nat]
  OBVIOUS
<1>2. Units(f, S \cup T) = Units(g, S) \cup Units(h, T)
  BY DEF Units
<1>3. Units(g, S) \cap Units(h, T) = {}
  <2>1. \A u \in Units(g, S) : u[1] \in S
    BY <1>1, UnitsAre
  <2>2. \A u \in Units(h, T) : u[1] \in T
    BY <1>1, UnitsAre
  <2> QED
    BY <2>1, <2>2
<1>4. IsFiniteSet(Units(g, S)) /\ IsFiniteSet(Units(h, T)) /\ IsFiniteSet(S \cup T)
  BY <1>1, UnitsFinite, FS_Union
<1>5. Cardinality(Units(f, S \cup T)) = Cardinality(Units(g, S)) + Cardinality(Units(h, T)) - 0
  <2> DEFINE A == Units(g, S)
             B == Units(h, T)
  <2>1. Cardinality(A \cup B) = Cardinality(A) + Cardinality(B) - Cardinality(A \cap B)
    <3>1. IsFiniteSet(A) /\ IsFiniteSet(B)
      BY <1>4
    <3> HIDE DEF A, B
    <3> QED
      BY <3>1, FS_Union
  <2>2. Cardinality(A \cap B) = 0
    BY <1>3, FS_EmptySet
  <2> QED
    BY <1>2, <2>1, <2>2
<1>6. SumFunction(f) = Cardinality(Units(f, S \cup T))
  BY <1>4, SumIsUnits
<1>7. SumFunction(g) = Cardinality(Units(g, S)) /\ SumFunction(h) = Cardinality(Units(h, T))
  BY <1>1, SumIsUnits
<1>8. Cardinality(Units(g, S)) \in Nat /\ Cardinality(Units(h, T)) \in Nat
  BY <1>4, FS_CardinalityType
<1> QED
  BY <1>5, <1>6, <1>7, <1>8

LEMMA SumOfFewer ==
    ASSUME NEW S, IsFiniteSet(S), NEW f \in [S -> Nat], NEW T \in SUBSET S,
           NEW g \in [T -> Nat], \A x \in T : g[x] = f[x]
    PROVE  SumFunction(g) <= SumFunction(f)
<1> DEFINE h == [x \in T |-> x]
<1>1. h \in Injection(T, S)
  BY DEF Injection, IsInjective
<1>2. IsFiniteSet(T)
  BY FS_Subset
<1>3. \A x \in T : g[x] <= f[h[x]]
  OBVIOUS
<1> HIDE DEF h
<1> QED
  BY <1>1, <1>2, <1>3, SumAtMost

-----------------------------------------------------------------------------
(* Orders.  The first n of a finite set in a strict total order R are those *)
(* with fewer than n before them.                                           *)

Earlier(K, R, k) == {j \in K : <<j, k>> \in R}

StrictTotalOrder(K, R) ==
    /\ \A j \in K : <<j, j>> \notin R
    /\ \A i, j, k \in K : <<i, j>> \in R /\ <<j, k>> \in R => <<i, k>> \in R
    /\ \A j, k \in K : j # k => <<j, k>> \in R \/ <<k, j>> \in R

LEMMA RankGrows ==
    ASSUME NEW K, IsFiniteSet(K), NEW R, StrictTotalOrder(K, R)
    PROVE  /\ \A k \in K : IsFiniteSet(Earlier(K, R, k)) /\ Cardinality(Earlier(K, R, k)) \in Nat
           /\ \A j, k \in K : <<j, k>> \in R =>
                 Cardinality(Earlier(K, R, j)) < Cardinality(Earlier(K, R, k))
<1>1. ASSUME NEW k \in K
      PROVE  IsFiniteSet(Earlier(K, R, k)) /\ Cardinality(Earlier(K, R, k)) \in Nat
  <2>1. Earlier(K, R, k) \subseteq K
    BY DEF Earlier
  <2> QED
    BY <2>1, FS_Subset, FS_CardinalityType
<1>2. ASSUME NEW j \in K, NEW k \in K, <<j, k>> \in R
      PROVE  Cardinality(Earlier(K, R, j)) < Cardinality(Earlier(K, R, k))
  <2>1. Earlier(K, R, j) \subseteq Earlier(K, R, k) /\ j \in Earlier(K, R, k) /\ j \notin Earlier(K, R, j)
    BY <1>2 DEF Earlier, StrictTotalOrder
  <2>2. /\ Cardinality(Earlier(K, R, j)) <= Cardinality(Earlier(K, R, k))
        /\ Cardinality(Earlier(K, R, j)) # Cardinality(Earlier(K, R, k))
    BY <1>1, <2>1, FS_Subset
  <2> QED
    BY <1>1, <2>2
<1> QED
  BY <1>1, <1>2

LEMMA FirstOnes ==
    ASSUME NEW K, IsFiniteSet(K), NEW R, StrictTotalOrder(K, R), NEW n \in Nat \ {0},
           NEW A, A = {k \in K : Cardinality(Earlier(K, R, k)) < n}
    PROVE  /\ Cardinality(A) <= n
           /\ Cardinality(A) < n => A = K
           /\ \A k \in K \ A, j \in A : <<j, k>> \in R
<1> DEFINE rank(k) == Cardinality(Earlier(K, R, k))
<1>1. /\ \A k \in K : IsFiniteSet(Earlier(K, R, k)) /\ rank(k) \in Nat
      /\ \A j, k \in K : <<j, k>> \in R => rank(j) < rank(k)
  BY RankGrows
<1> HIDE DEF rank
<1>2. A = {k \in K : rank(k) < n}
  BY DEF rank
<1>3. IsFiniteSet(A) /\ Cardinality(A) \in Nat
  BY <1>2, FS_Subset, FS_CardinalityType
<1>4. ASSUME NEW k \in K \ A, NEW j \in A PROVE <<j, k>> \in R
  <2>1. j # k /\ rank(j) < n /\ ~(rank(k) < n) /\ j \in K
    BY <1>2
  <2>2. ~(rank(k) < rank(j))
    BY <1>1, <2>1
  <2> QED
    BY <1>1, <2>1, <2>2 DEF StrictTotalOrder
<1>5. Cardinality(A) <= n
  <2>1. CASE A = {}
    BY <2>1, FS_EmptySet
  <2>2. CASE A # {}
    <3> DEFINE Ranks == {m \in Nat : \E k \in A : n - rank(k) = m}
    <3>1. Ranks \subseteq Nat /\ Ranks # {}
      <4>1. PICK k \in A : TRUE
        BY <2>2
      <4>2. n - rank(k) \in Nat
        BY <1>1, <1>2
      <4> QED
        BY <4>2
    <3>2. PICK m \in Ranks : \A l \in Ranks : m <= l
      <4> HIDE DEF Ranks
      <4> QED
        BY <3>1, LeastOf
    <3>3. PICK k \in A : n - rank(k) = m
      OBVIOUS
    <3>4. ASSUME NEW j \in A, j # k PROVE j \in Earlier(K, R, k)
      <4>1. j \in K /\ k \in K /\ rank(j) \in Nat /\ rank(k) \in Nat /\ rank(j) < n
        BY <1>1, <1>2
      <4>2. n - rank(j) \in Ranks
        BY <4>1
      <4>3. n - rank(k) <= n - rank(j)
        BY <3>2, <3>3, <4>2
      <4>4. ~(rank(k) < rank(j))
        BY <4>1, <4>3
      <4> QED
        BY <1>1, <3>4, <4>1, <4>4 DEF Earlier, StrictTotalOrder
    <3>5. k \in K /\ k \in A /\ rank(k) < n /\ rank(k) \in Nat
      BY <1>1, <1>2
    <3>6. Cardinality(A \ {k}) <= rank(k)
      <4>1. A \ {k} \subseteq Earlier(K, R, k)
        BY <3>4
      <4> QED
        BY <1>1, <3>5, <4>1, FS_Subset DEF rank
    <3>7. Cardinality(A \ {k}) = Cardinality(A) - 1
      BY <1>3, <3>5, FS_RemoveElement
    <3> QED
      BY <1>3, <3>5, <3>6, <3>7
  <2> QED
    BY <2>1, <2>2
<1>6. ASSUME Cardinality(A) < n, A # K PROVE FALSE
  <2> DEFINE Ranks == {m \in Nat : \E k \in K \ A : rank(k) = m}
  <2>1. Ranks \subseteq Nat /\ Ranks # {}
    <3>1. PICK k \in K \ A : TRUE
      BY <1>2, <1>6
    <3> QED
      BY <1>1
  <2>2. PICK m \in Ranks : \A l \in Ranks : m <= l
    <3> HIDE DEF Ranks
    <3> QED
      BY <2>1, LeastOf
  <2>3. PICK k \in K \ A : rank(k) = m
    OBVIOUS
  <2>4. Earlier(K, R, k) \subseteq A
    <3> SUFFICES ASSUME NEW j \in Earlier(K, R, k), j \notin A PROVE FALSE
      OBVIOUS
    <3>1. j \in K /\ <<j, k>> \in R
      BY DEF Earlier
    <3>2. rank(j) < rank(k) /\ rank(j) \in Nat /\ rank(k) \in Nat
      BY <1>1, <3>1
    <3>3. rank(j) \in Ranks
      BY <3>1, <3>2
    <3>4. m <= rank(j)
      BY <2>2, <3>3
    <3> QED
      BY <2>3, <3>2, <3>4
  <2>5. rank(k) <= Cardinality(A)
    BY <1>3, <2>4, FS_Subset DEF rank
  <2>6. k \in A
    BY <1>1, <1>2, <1>3, <1>6, <2>3, <2>5
  <2> QED
    BY <2>3, <2>6
<1> QED
  BY <1>4, <1>5, <1>6

=============================================================================
