------------------------ MODULE ReplayNavigation_proofs ------------------------
(***************************************************************************)
(* Proofs about ReplayNavigation, for any number of snapshots, contents,   *)
(* window and retention.                                                   *)
(***************************************************************************)
EXTENDS ReplayNavigation, FiniteSetTheorems, TLAPS

(* The strengthening *)

TypeLog ==
    /\ now \in 0 .. MaxTime /\ made \in 0 .. MaxRecords
    /\ readable \subseteq [id : Ids, at : 0 .. MaxTime, done : BOOLEAN]
    /\ rows \in Contents

TypeView ==
    /\ refs \in Seq(Ref) /\ Len(refs) <= MaxRecords
    /\ currentIndex \in 0 .. MaxRecords /\ shown \in Ids \cup {0}
    /\ topDirection \in Dirs /\ skipEmpty \in BOOLEAN /\ followLatest \in BOOLEAN
    /\ astray \in BOOLEAN

TypeThread ==
    /\ ui \in {"start", "idle", "read"}
    /\ target \in 0 .. MaxRecords /\ (ui = "read" <=> target \in DOMAIN refs)

TypeSearch ==
    /\ scan \in {"idle", "run"} /\ lost \in BOOLEAN
    /\ scanRefs \in Seq(Ref) /\ Len(scanRefs) <= MaxRecords
    /\ scanned \in 0 .. Len(scanRefs)
    /\ results \in Seq(Result)

\* Snapshots are numbered in the order of their capture.
LogInv ==
    /\ \A e \in readable : e.id <= made /\ e.at <= now
    /\ \A e, f \in readable : e.id <= f.id => e.at <= f.at

Sorted(index) ==
    \A i, j \in DOMAIN index : i < j => index[i].id < index[j].id /\ index[i].at <= index[j].at

\* An index lies in the window, and lacks no snapshot that is older than its last.
Faithful(index) ==
    /\ \A i \in DOMAIN index : index[i].id <= made /\ InRange(index[i])
    /\ \A e \in readable, i \in DOMAIN index :
          /\ e.id = index[i].id => e.at = index[i].at
          /\ InRange(e) /\ e.id <= index[i].id => \E j \in DOMAIN index : index[j].id = e.id

IndexInv == Sorted(refs) /\ Faithful(refs)

Searching == scan = "run" \/ results # <<>>

\* The index may have grown since the search began.
Extends(index, old) ==
    \A i \in DOMAIN old : i \in DOMAIN index /\ index[i].id = old[i].id

SearchInv ==
    Searching /\ ~lost =>
        /\ \A i \in DOMAIN refs : IsReadable(refs[i].id)
        /\ scan = "run" => Extends(refs, scanRefs)
        /\ \A k \in DOMAIN results :
              results[k].index \in DOMAIN refs /\ refs[results[k].index].id = results[k].id

\* The piles of dialogs; the results of a search lie on top of none but the jump prompt.
PagesInv ==
    /\ pages \in {<<>>, <<"jump">>, <<"search">>, <<"results">>, <<"jump", "results">>}
    /\ focus \in ToSet(pages) \cup {"main"}
    /\ scan = "run" => pages \in {<<>>, <<"jump">>}
    /\ scan = "idle" /\ results # <<>> => pages \in {<<"results">>, <<"jump", "results">>}

ReplayInv ==
    /\ TypeLog /\ TypeView /\ TypeThread /\ TypeSearch
    /\ LogInv /\ IndexInv /\ SearchInv /\ PagesInv /\ HeaderNamesRecord

-----------------------------------------------------------------------------
(* Numbers                                                                  *)

LEMMA LeastOf ==
    ASSUME NEW T, T \subseteq Nat, T # {}
    PROVE  \E x \in T : \A y \in T : x <= y
<1> DEFINE R == OpToRel(<, Nat)
<1>1. PICK x \in T : \A y \in T : ~(<<y, x>> \in R)
  <2>1. IsWellFoundedOn(R, Nat)
    BY NatLessThanWellFounded, Zenon
  <2> HIDE DEF R
  <2> QED
    BY <2>1, WFMin
<1>2. \A y \in T : ~(y < x)
  BY <1>1 DEF OpToRel
<1> QED
  BY <1>2

LEMMA MinIs ==
    ASSUME NEW S, S \subseteq Nat, S # {}
    PROVE  Min(S) \in S /\ \A x \in S : Min(S) <= x
<1>1. \E x \in S : \A y \in S : x <= y
  BY LeastOf
<1> QED
  BY <1>1 DEF Min

LEMMA MaxIs ==
    ASSUME NEW S, NEW n \in Nat, S \subseteq 0 .. n, S # {}
    PROVE  Max(S) \in S /\ \A x \in S : Max(S) >= x
<1> DEFINE T == {m \in Nat : \A x \in S : x <= m}
<1>1. n \in T
  OBVIOUS
<1>2. PICK m \in T : \A y \in T : m <= y
  <2>1. T \subseteq Nat /\ T # {}
    BY <1>1
  <2> HIDE DEF T
  <2> QED
    BY <2>1, LeastOf
<1>3. m \in S
  <2> SUFFICES ASSUME m \notin S PROVE FALSE
    OBVIOUS
  <2>1. \A x \in S : x <= m - 1 /\ x \in Nat
    BY <1>2
  <2>2. m - 1 \in Nat
    <3>1. PICK x \in S : TRUE
      OBVIOUS
    <3>2. x <= m - 1 /\ x \in Nat /\ m \in Nat
      BY <1>2, <2>1
    <3> QED
      BY <3>2
  <2>3. m - 1 \in T
    BY <2>1, <2>2
  <2> QED
    BY <1>2, <2>3
<1>4. \E x \in S : \A y \in S : x >= y
  BY <1>2, <1>3
<1> QED
  BY <1>4 DEF Max

-----------------------------------------------------------------------------
(* Positions                                                                *)

LEMMA RefType ==
    ASSUME NEW r \in Ref
    PROVE  r.id \in Ids /\ r.at \in 0 .. MaxTime /\ r.id \in Nat /\ r.at \in Nat
  BY ReplayAssumption DEF Ref, Ids

LEMMA ActiveType ==
    ASSUME NEW index \in Seq(Ref), NEW dir
    PROVE  /\ ActiveIn(index, dir) \subseteq 1 .. Len(index)
           /\ ActiveIn(index, dir) \subseteq DOMAIN index
  BY DEF ActiveIn

LEMMA FindPrevIs ==
    ASSUME NEW index \in Seq(Ref), NEW i \in Int, NEW j
    PROVE  \/ /\ FindPrev(index, i, j) \in ActiveIn(index, topDirection)
              /\ FindPrev(index, i, j) <= i
           \/ /\ FindPrev(index, i, j) = j
              /\ \A k \in ActiveIn(index, topDirection) : k > i
<1> DEFINE S == {k \in ActiveIn(index, topDirection) : k <= i}
<1>1. S \subseteq 0 .. Len(index) /\ Len(index) \in Nat
  BY ActiveType
<1>2. CASE S = {}
  <2>1. FindPrev(index, i, j) = j
    BY <1>2 DEF FindPrev, Or
  <2>2. \A k \in ActiveIn(index, topDirection) : k > i
    BY <1>2, ActiveType
  <2> QED
    BY <2>1, <2>2
<1>3. CASE S # {}
  <2>1. FindPrev(index, i, j) = Max(S)
    BY <1>3 DEF FindPrev, Or
  <2> HIDE DEF S
  <2>2. Max(S) \in S
    BY <1>1, <1>3, MaxIs
  <2> QED
    BY <2>1, <2>2 DEF S
<1> QED
  BY <1>2, <1>3

LEMMA FindNextIs ==
    ASSUME NEW index \in Seq(Ref), NEW i \in Int, NEW j
    PROVE  \/ /\ FindNext(index, i, j) \in ActiveIn(index, topDirection)
              /\ FindNext(index, i, j) >= i
           \/ /\ FindNext(index, i, j) = j
              /\ \A k \in ActiveIn(index, topDirection) : k < i
<1> DEFINE S == {k \in ActiveIn(index, topDirection) : k >= i}
<1>1. S \subseteq Nat
  BY ActiveType
<1>2. CASE S = {}
  <2>1. FindNext(index, i, j) = j
    BY <1>2 DEF FindNext, Or
  <2>2. \A k \in ActiveIn(index, topDirection) : k < i
    BY <1>2, ActiveType
  <2> QED
    BY <2>1, <2>2
<1>3. CASE S # {}
  <2>1. FindNext(index, i, j) = Min(S)
    BY <1>3 DEF FindNext, Or
  <2> HIDE DEF S
  <2>2. Min(S) \in S
    BY <1>1, <1>3, MinIs
  <2> QED
    BY <2>1, <2>2 DEF S
<1> QED
  BY <1>2, <1>3

LEMMA FindNearestIs ==
    ASSUME NEW index \in Seq(Ref), NEW dir, NEW i \in Nat
    PROVE  /\ i \notin DOMAIN index => FindNearest(index, dir, i) = i
           /\ i \in DOMAIN index => FindNearest(index, dir, i) \in DOMAIN index
           /\ i \in DOMAIN index /\ ActiveIn(index, dir) # {}
                 => FindNearest(index, dir, i) \in ActiveIn(index, dir)
<1> DEFINE active == ActiveIn(index, dir)
           nearest == {k \in active : \A l \in active : Distance(k, i) <= Distance(l, i)}
<1>1. active \subseteq Nat /\ active \subseteq DOMAIN index
  BY ActiveType
<1>2. i \in DOMAIN index => FindNearest(index, dir, i) = Or(nearest, Min, i)
  BY DEF FindNearest
<1>3. i \notin DOMAIN index => FindNearest(index, dir, i) = i
  BY DEF FindNearest
<1>4. CASE nearest = {}
  <2>1. active = {}
    <3> SUFFICES ASSUME active # {} PROVE FALSE
      OBVIOUS
    <3> HIDE DEF active
    <3> DEFINE T == {Distance(k, i) : k \in active}
    <3>1. T \subseteq Nat /\ T # {}
      <4>1. \A k \in Nat : Distance(k, i) \in Nat
        BY DEF Distance
      <4> QED
        BY <1>1, <4>1
    <3>2. PICK d \in T : \A y \in T : d <= y
      <4> HIDE DEF T
      <4> QED
        BY <3>1, LeastOf
    <3>3. PICK k \in active : Distance(k, i) = d
      BY <3>2
    <3>4. \A l \in active : Distance(k, i) <= Distance(l, i)
      BY <3>2, <3>3
    <3>5. k \in nearest
      BY <3>4
    <3> QED
      BY <1>4, <3>5
  <2>2. Or(nearest, Min, i) = i
    BY <1>4 DEF Or
  <2> HIDE DEF nearest
  <2> QED
    BY <1>2, <1>3, <2>1, <2>2
<1>5. CASE nearest # {}
  <2>1. Or(nearest, Min, i) = Min(nearest)
    BY <1>5 DEF Or
  <2>2. nearest \subseteq Nat /\ nearest \subseteq active
    BY <1>1
  <2> HIDE DEF nearest
  <2>3. Min(nearest) \in active
    BY <1>5, <2>2, MinIs
  <2> QED
    BY <1>1, <1>2, <1>3, <2>1, <2>3
<1> QED
  BY <1>4, <1>5

LEMMA AdjustStartIs ==
    ASSUME NEW index \in Seq(Ref), index # <<>>
    PROVE  /\ AdjustStart(index) \in DOMAIN index
           /\ skipEmpty /\ ActiveIn(index, topDirection) # {}
                 => AdjustStart(index) \in ActiveIn(index, topDirection)
<1>1. 1 \in DOMAIN index
  OBVIOUS
<1>2. ActiveIn(index, topDirection) \subseteq DOMAIN index
  BY ActiveType
<1>3. \A k \in ActiveIn(index, topDirection) : ~(k < 1)
  BY ActiveType
<1> QED
  BY <1>1, <1>2, <1>3, FindNextIs DEF AdjustStart

LEMMA AdjustLatestIs ==
    ASSUME NEW index \in Seq(Ref), index # <<>>
    PROVE  /\ AdjustLatest(index) \in DOMAIN index
           /\ skipEmpty /\ ActiveIn(index, topDirection) # {}
                 => AdjustLatest(index) \in ActiveIn(index, topDirection)
<1>1. Len(index) \in DOMAIN index /\ Len(index) \in Int
  OBVIOUS
<1>2. ActiveIn(index, topDirection) \subseteq DOMAIN index
  BY ActiveType
<1>3. \A k \in ActiveIn(index, topDirection) : ~(k > Len(index))
  BY ActiveType
<1> QED
  BY <1>1, <1>2, <1>3, FindPrevIs DEF AdjustLatest

\* The jump goes to a position than which none is closer.
LEMMA ClosestIs ==
    ASSUME refs \in Seq(Ref), refs # <<>>, Sorted(refs), NEW t \in Nat
    PROVE  /\ Closest(t) \in DOMAIN refs
           /\ \A i \in DOMAIN refs : Distance(refs[Closest(t)].at, t) <= Distance(refs[i].at, t)
<1> DEFINE after == {i \in DOMAIN refs : refs[i].at >= t}
           m == Min(after)
<1>1. /\ DOMAIN refs = 1 .. Len(refs) /\ Len(refs) \in Nat \ {0}
      /\ \A i \in DOMAIN refs : refs[i].at \in Nat
  BY RefType
<1>2. \A i, j \in DOMAIN refs : i <= j => refs[i].at <= refs[j].at
  BY <1>1 DEF Sorted
<1>3. CASE after = {}
  <2>1. Closest(t) = Len(refs)
    BY <1>3 DEF Closest
  <2>2. \A i \in DOMAIN refs : refs[i].at < t
    BY <1>1, <1>3
  <2>3. Len(refs) \in DOMAIN refs
    BY <1>1
  <2> QED
    BY <1>1, <1>2, <2>1, <2>2, <2>3 DEF Distance
<1>4. CASE after # {}
  <2>1. m \in after /\ \A i \in after : m <= i
    <3>1. after \subseteq Nat
      BY <1>1
    <3> HIDE DEF after
    <3> QED
      BY <1>4, <3>1, MinIs
  <2>2. Closest(t) = IF m = 1 \/ t - refs[m - 1].at > refs[m].at - t THEN m ELSE m - 1
    BY <1>4 DEF Closest
  <2> HIDE DEF m
  <2>3. m \in DOMAIN refs /\ refs[m].at >= t
    BY <2>1
  <2>4. \A i \in DOMAIN refs : i < m => refs[i].at < t
    BY <1>1, <2>1, <2>3
  <2>5. \A i \in DOMAIN refs : i >= m => Distance(refs[m].at, t) <= Distance(refs[i].at, t)
    BY <1>1, <1>2, <2>3 DEF Distance
  <2>6. CASE m = 1
    <3>1. Closest(t) = m
      BY <2>2, <2>6
    <3> QED
      BY <1>1, <2>3, <2>5, <2>6, <3>1
  <2>7. CASE m # 1
    <3>1. m - 1 \in DOMAIN refs /\ refs[m - 1].at < t
      BY <1>1, <2>3, <2>4, <2>7
    <3>2. \A i \in DOMAIN refs : i < m => Distance(refs[m - 1].at, t) <= Distance(refs[i].at, t)
      <4> SUFFICES ASSUME NEW i \in DOMAIN refs, i < m
                   PROVE  Distance(refs[m - 1].at, t) <= Distance(refs[i].at, t)
        OBVIOUS
      <4>1. i <= m - 1
        BY <1>1, <2>3
      <4>2. refs[i].at <= refs[m - 1].at /\ refs[i].at \in Nat /\ refs[m - 1].at \in Nat
        BY <1>1, <1>2, <3>1, <4>1
      <4> QED
        BY <3>1, <4>2 DEF Distance
    <3>3. CASE t - refs[m - 1].at > refs[m].at - t
      <4>1. Closest(t) = m
        BY <2>2, <3>3
      <4>2. Distance(refs[m].at, t) <= Distance(refs[m - 1].at, t)
        BY <1>1, <2>3, <3>1, <3>3 DEF Distance
      <4>3. \A i \in DOMAIN refs : i < m => Distance(refs[m].at, t) <= Distance(refs[i].at, t)
        <5>1. /\ Distance(refs[m].at, t) \in Nat /\ Distance(refs[m - 1].at, t) \in Nat
              /\ \A i \in DOMAIN refs : Distance(refs[i].at, t) \in Nat
          BY <1>1, <2>3, <3>1 DEF Distance
        <5> QED
          BY <3>2, <4>2, <5>1
      <4> QED
        BY <1>1, <2>3, <2>5, <4>1, <4>3
    <3>4. CASE ~(t - refs[m - 1].at > refs[m].at - t)
      <4>1. Closest(t) = m - 1
        BY <2>2, <2>7, <3>4
      <4>2. Distance(refs[m - 1].at, t) <= Distance(refs[m].at, t)
        BY <1>1, <2>3, <3>1, <3>4 DEF Distance
      <4>3. \A i \in DOMAIN refs : i >= m => Distance(refs[m - 1].at, t) <= Distance(refs[i].at, t)
        BY <1>1, <2>3, <2>5, <3>1, <4>2 DEF Distance
      <4> QED
        BY <1>1, <2>3, <3>1, <3>2, <4>1, <4>3
    <3> QED
      BY <3>3, <3>4
  <2> QED
    BY <2>6, <2>7
<1> QED
  BY <1>3, <1>4

-----------------------------------------------------------------------------
(* The index that LoadIndex makes                                           *)

LEMMA NatInductionSet ==
    ASSUME NEW T, 0 \in T, \A n \in Nat : n \in T => n + 1 \in T
    PROVE  Nat \subseteq T
<1> DEFINE Left == Nat \ T
<1>1. SUFFICES ASSUME Left # {} PROVE FALSE
  OBVIOUS
<1>2. PICK x \in Left : \A y \in Left : x <= y
  <2>1. Left \subseteq Nat
    OBVIOUS
  <2> HIDE DEF Left
  <2> QED
    BY <1>1, <2>1, LeastOf
<1>3. x # 0 /\ x - 1 \in Nat /\ (x - 1) + 1 = x
  OBVIOUS
<1>4. x - 1 \notin T
  BY <1>3
<1> QED
  BY <1>2, <1>3, <1>4

Unique(S) == \A r, s \in S : r.id = s.id => r = s

LEMMA RefsFinite ==
    ASSUME NEW S \in SUBSET Ref, Unique(S)
    PROVE  IsFiniteSet(S)
<1> DEFINE f == [r \in S |-> r.id]
<1>1. f \in Injection(S, Ids)
  <2>1. f \in [S -> Ids]
    BY RefType
  <2>2. \A r, s \in S : f[r] = f[s] => r = s
    BY DEF Unique
  <2> QED
    BY <2>1, <2>2 DEF Injection, IsInjective
<1>2. IsFiniteSet(Ids)
  <2>1. 1 \in Int /\ MaxRecords \in Int
    BY ReplayAssumption
  <2> QED
    BY <2>1, FS_Interval, Zenon DEF Ids
<1> HIDE DEF f
<1> QED
  BY <1>1, <1>2, FS_Injection

Ordered(U, n) ==
    \E f \in Bijection(1 .. n, U) : \A i, j \in DOMAIN f : i < j => f[i].id < f[j].id

LEMMA OrderExists ==
    ASSUME NEW S \in SUBSET Ref, Unique(S), IsFiniteSet(S)
    PROVE  Ordered(S, Cardinality(S))
<1> DEFINE T == {n \in Nat : \A U \in SUBSET S : IsFiniteSet(U) /\ Cardinality(U) = n => Ordered(U, n)}
<1>1. 0 \in T
  <2>1. ASSUME NEW U, U = {} PROVE Ordered(U, 0)
    <3> DEFINE f == [i \in 1 .. 0 |-> i]
    <3>1. 1 .. 0 = {}
      OBVIOUS
    <3>2. f \in Bijection(1 .. 0, U) /\ DOMAIN f = {}
      BY <2>1, <3>1 DEF Bijection, Injection, Surjection, IsInjective
    <3> HIDE DEF f
    <3> QED
      BY <3>2 DEF Ordered
  <2>2. \A U : IsFiniteSet(U) /\ Cardinality(U) = 0 => U = {}
    BY FS_EmptySet
  <2> QED
    BY <2>1, <2>2
<1>2. ASSUME NEW n \in Nat, n \in T PROVE n + 1 \in T
  <2> SUFFICES ASSUME NEW U \in SUBSET S, IsFiniteSet(U), Cardinality(U) = n + 1
               PROVE  Ordered(U, n + 1)
    OBVIOUS
  <2>1. PICK m \in U : \A r \in U \ {m} : r.id < m.id
    <3> DEFINE I == {r.id : r \in U}
    <3>1. U # {}
      BY FS_EmptySet
    <3>2. I \subseteq 0 .. MaxRecords /\ I # {}
      BY <3>1, RefType, ReplayAssumption DEF Ids
    <3>3. Max(I) \in I /\ \A x \in I : Max(I) >= x
      <4> HIDE DEF I
      <4> QED
        BY <3>2, MaxIs, ReplayAssumption
    <3>4. PICK m \in U : m.id = Max(I)
      BY <3>3
    <3>5. ASSUME NEW r \in U \ {m} PROVE r.id < m.id
      <4>1. r.id \in I /\ r.id # m.id /\ r.id \in Nat /\ m.id \in Nat
        BY RefType DEF Unique
      <4> HIDE DEF I
      <4> QED
        BY <3>3, <3>4, <4>1
    <3> QED
      BY <3>5
  <2> DEFINE V == U \ {m}
  <2>2. IsFiniteSet(V) /\ Cardinality(V) = n /\ V \in SUBSET S
    <3>1. IsFiniteSet(V) /\ Cardinality(V) = Cardinality(U) - 1
      BY FS_RemoveElement, Zenon
    <3> QED
      BY <3>1
  <2>3. PICK g \in Bijection(1 .. n, V) : \A i, j \in DOMAIN g : i < j => g[i].id < g[j].id
    BY <1>2, <2>2 DEF Ordered
  <2>4. /\ DOMAIN g = 1 .. n
        /\ \A i \in 1 .. n : g[i] \in V
        /\ \A i, j \in 1 .. n : g[i] = g[j] => i = j
        /\ \A v \in V : \E i \in 1 .. n : g[i] = v
    BY <2>3 DEF Bijection, Injection, Surjection, IsInjective
  <2> DEFINE f == [i \in 1 .. n + 1 |-> IF i = n + 1 THEN m ELSE g[i]]
  <2>5. /\ DOMAIN f = 1 .. n + 1 /\ f[n + 1] = m
        /\ \A i \in 1 .. n + 1 : i # n + 1 => f[i] = g[i] /\ i \in 1 .. n
        /\ \A i \in 1 .. n : f[i] = g[i] /\ i \in 1 .. n + 1
        /\ f \in [1 .. n + 1 -> U]
    BY <2>4
  <2> HIDE DEF f
  <2>6. f \in Bijection(1 .. n + 1, U)
    <3>1. \A i, j \in 1 .. n + 1 : f[i] = f[j] => i = j
      BY <2>4, <2>5
    <3>2. \A u \in U : \E i \in 1 .. n + 1 : f[i] = u
      BY <2>4, <2>5
    <3> QED
      BY <2>5, <3>1, <3>2 DEF Bijection, Injection, Surjection, IsInjective
  <2>7. \A i, j \in DOMAIN f : i < j => f[i].id < f[j].id
    <3> SUFFICES ASSUME NEW i \in 1 .. n + 1, NEW j \in 1 .. n + 1, i < j
                 PROVE  f[i].id < f[j].id
      BY <2>5
    <3>1. i # n + 1 /\ f[i] = g[i] /\ i \in 1 .. n
      BY <2>5
    <3>2. CASE j = n + 1
      BY <2>1, <2>4, <2>5, <3>1, <3>2
    <3>3. CASE j # n + 1
      BY <2>3, <2>4, <2>5, <3>1, <3>3
    <3> QED
      BY <3>2, <3>3
  <2> QED
    BY <2>6, <2>7 DEF Ordered
<1>3. Nat \subseteq T
  <2> HIDE DEF T
  <2> QED
    BY <1>1, <1>2, NatInductionSet
<1>4. Cardinality(S) \in T /\ S \in SUBSET S
  BY <1>3, FS_CardinalityType
<1> QED
  BY <1>4

\* Each step of a sorted index leads at least one id on.
LEMMA IdsGrow ==
    ASSUME NEW s \in Seq(Ref), \A i, j \in DOMAIN s : i < j => s[i].id < s[j].id
    PROVE  /\ \A i \in DOMAIN s : i <= s[i].id
           /\ Len(s) <= MaxRecords
<1>1. /\ DOMAIN s = 1 .. Len(s) /\ Len(s) \in Nat
      /\ \A i \in DOMAIN s : s[i].id \in Nat /\ 1 <= s[i].id /\ s[i].id <= MaxRecords
  BY RefType, ReplayAssumption DEF Ids
<1> DEFINE Behind == {i \in DOMAIN s : ~(i <= s[i].id)}
<1>2. Behind = {}
  <2> SUFFICES ASSUME Behind # {} PROVE FALSE
    OBVIOUS
  <2>1. PICK i \in Behind : \A j \in Behind : i <= j
    <3>1. Behind \subseteq Nat
      BY <1>1
    <3> HIDE DEF Behind
    <3> QED
      BY <3>1, LeastOf
  <2>2. i \in 1 .. Len(s) /\ i # 1
    BY <1>1, <2>1
  <2>3. i - 1 \in DOMAIN s /\ i - 1 < i
    BY <1>1, <2>2
  <2>4. i - 1 \notin Behind
    BY <2>1, <2>3
  <2>5. i - 1 <= s[i - 1].id /\ s[i - 1].id < s[i].id
    BY <2>1, <2>3, <2>4
  <2> QED
    BY <1>1, <2>1, <2>3, <2>5
<1>3. \A i \in DOMAIN s : i <= s[i].id
  BY <1>2
<1>4. Len(s) <= MaxRecords
  <2>1. CASE Len(s) = 0
    BY <2>1, ReplayAssumption
  <2>2. CASE Len(s) # 0
    <3>1. Len(s) \in DOMAIN s
      BY <1>1, <2>2
    <3> QED
      BY <1>1, <1>3, <3>1, ReplayAssumption
  <2> QED
    BY <2>1, <2>2
<1> QED
  BY <1>3, <1>4

LEMMA LoadIndexIs ==
    ASSUME TypeLog, LogInv
    PROVE  /\ LoadIndex \in Seq(Ref) /\ Len(LoadIndex) <= MaxRecords
           /\ Sorted(LoadIndex) /\ Faithful(LoadIndex)
           /\ \A i \in DOMAIN LoadIndex : IsReadable(LoadIndex[i].id)
           /\ \A e \in readable : InRange(e) => \E i \in DOMAIN LoadIndex : LoadIndex[i].id = e.id
<1> DEFINE S == FilterByRange({[id |-> e.id, at |-> e.at] : e \in readable})
           f == InOrder(S)
           n == Cardinality(S)
<1>1. \A e \in readable : e.id \in Ids /\ e.at \in 0 .. MaxTime /\ e.id \in Nat /\ e.at \in Nat
  BY ReplayAssumption DEF TypeLog, Ids
<1>2. /\ \A r \in S : InRange(r) /\ \E e \in readable : r.id = e.id /\ r.at = e.at
      /\ \A e \in readable : InRange(e) => \E r \in S : r.id = e.id /\ r.at = e.at
      /\ S \in SUBSET Ref
  <2> DEFINE all == {[id |-> e.id, at |-> e.at] : e \in readable}
  <2>1. \A r \in all : \E e \in readable : r = [id |-> e.id, at |-> e.at]
    OBVIOUS
  <2>2. \A e \in readable : [id |-> e.id, at |-> e.at] \in all
    OBVIOUS
  <2>3. S = {r \in all : InRange(r)}
    BY DEF FilterByRange
  <2> HIDE DEF all, S
  <2>4. \A r \in S : InRange(r) /\ \E e \in readable : r.id = e.id /\ r.at = e.at
    BY <2>1, <2>3
  <2>5. ASSUME NEW e \in readable, InRange(e)
        PROVE  \E r \in S : r.id = e.id /\ r.at = e.at
    <3> DEFINE r == [id |-> e.id, at |-> e.at]
    <3>1. r.id = e.id /\ r.at = e.at /\ r \in all
      BY <2>2
    <3>2. InRange(r)
      BY <2>5, <3>1 DEF InRange
    <3> QED
      BY <2>3, <3>1, <3>2
  <2>6. S \in SUBSET Ref
    <3>1. \A e \in readable : [id |-> e.id, at |-> e.at] \in Ref
      BY <1>1 DEF Ref
    <3> QED
      BY <2>1, <2>3, <3>1
  <2> QED
    BY <2>4, <2>5, <2>6
<1> HIDE DEF S
<1>3. Unique(S)
  <2> SUFFICES ASSUME NEW r \in S, NEW s \in S, r.id = s.id
               PROVE  r = s
    BY DEF Unique
  <2>1. PICK d \in readable : r.id = d.id /\ r.at = d.at
    BY <1>2
  <2>2. PICK e \in readable : s.id = e.id /\ s.at = e.at
    BY <1>2
  <2>3. d.at <= e.at /\ e.at <= d.at
    <3>1. d.id = e.id /\ d.id \in Nat
      BY <1>1, <2>1, <2>2, Zenon
    <3>2. d.id <= e.id /\ e.id <= d.id
      BY <3>1
    <3> QED
      BY <3>2 DEF LogInv
  <2>4. r.at = s.at
    BY <1>1, <2>1, <2>2, <2>3
  <2>5. r \in Ref /\ s \in Ref
    BY <1>2
  <2> QED
    BY <2>4, <2>5 DEF Ref
<1>4. IsFiniteSet(S)
  BY <1>2, <1>3, RefsFinite
<1>5. f \in Bijection(1 .. n, S) /\ \A i, j \in DOMAIN f : i < j => f[i].id < f[j].id
  <2>1. Ordered(S, Cardinality(S))
    BY <1>2, <1>3, <1>4, OrderExists
  <2> QED
    BY <2>1 DEF Ordered, InOrder
<1>6. LoadIndex = f
  BY DEF LoadIndex, S
<1>7. n \in Nat
  BY <1>4, FS_CardinalityType
<1> HIDE DEF f, n
<1>8. f \in [1 .. n -> S] /\ \A r \in S : \E i \in 1 .. n : f[i] = r
  BY <1>5 DEF Bijection, Surjection
<1>9. f \in Seq(Ref) /\ DOMAIN f = 1 .. n
  BY <1>2, <1>7, <1>8
<1>10. Len(f) <= MaxRecords
  BY <1>5, <1>9, IdsGrow
<1>11. \A i \in DOMAIN f : InRange(f[i]) /\ \E e \in readable : f[i].id = e.id /\ f[i].at = e.at
  BY <1>2, <1>8, <1>9
<1>12. \A e \in readable : InRange(e) => \E i \in DOMAIN f : f[i].id = e.id
  <2> SUFFICES ASSUME NEW e \in readable, InRange(e)
               PROVE  \E i \in DOMAIN f : f[i].id = e.id
    OBVIOUS
  <2>1. PICK r \in S : r.id = e.id
    BY <1>2
  <2> QED
    BY <1>8, <1>9, <2>1
<1>13. \A i \in DOMAIN f : IsReadable(f[i].id)
  BY <1>11 DEF IsReadable
<1>14. Sorted(f)
  <2> SUFFICES ASSUME NEW i \in DOMAIN f, NEW j \in DOMAIN f, i < j
               PROVE  f[i].id < f[j].id /\ f[i].at <= f[j].at
    BY DEF Sorted
  <2>1. f[i].id < f[j].id
    BY <1>5
  <2>2. PICK d \in readable : f[i].id = d.id /\ f[i].at = d.at
    BY <1>11
  <2>3. PICK e \in readable : f[j].id = e.id /\ f[j].at = e.at
    BY <1>11
  <2>4. d.id <= e.id
    BY <1>1, <2>1, <2>2, <2>3
  <2> QED
    BY <2>1, <2>2, <2>3, <2>4 DEF LogInv
<1>15. Faithful(f)
  <2>1. \A i \in DOMAIN f : f[i].id <= made /\ InRange(f[i])
    BY <1>11 DEF LogInv
  <2>2. ASSUME NEW e \in readable, NEW i \in DOMAIN f, e.id = f[i].id
        PROVE  e.at = f[i].at
    <3>1. PICK d \in readable : f[i].id = d.id /\ f[i].at = d.at
      BY <1>11
    <3>2. d.at <= e.at /\ e.at <= d.at
      BY <1>1, <2>2, <3>1 DEF LogInv
    <3> QED
      BY <1>1, <3>1, <3>2
  <2> QED
    BY <1>12, <2>1, <2>2 DEF Faithful
<1> QED
  BY <1>6, <1>9, <1>10, <1>12, <1>13, <1>14, <1>15

\* An index that has all of an older one and lacks nothing in between extends it.
LEMMA GrownIndex ==
    ASSUME NEW s \in Seq(Ref), NEW t \in Seq(Ref),
           \A i, j \in DOMAIN s : i < j => s[i].id < s[j].id,
           \A i, j \in DOMAIN t : i < j => t[i].id < t[j].id,
           \A i \in DOMAIN s : \E j \in DOMAIN t : t[j].id = s[i].id,
           \A i \in DOMAIN s, j \in DOMAIN t :
              t[j].id <= s[i].id => \E k \in DOMAIN s : s[k].id = t[j].id
    PROVE  Extends(t, s)
<1> DEFINE Good(i) == i \in DOMAIN t /\ t[i].id = s[i].id
           Bad == {i \in DOMAIN s : ~Good(i)}
<1>1. /\ DOMAIN s = 1 .. Len(s) /\ Len(s) \in Nat /\ DOMAIN t = 1 .. Len(t) /\ Len(t) \in Nat
      /\ \A i \in DOMAIN s : s[i].id \in Nat
      /\ \A i \in DOMAIN t : t[i].id \in Nat
  BY RefType
<1>2. Bad = {}
  <2> SUFFICES ASSUME Bad # {} PROVE FALSE
    OBVIOUS
  <2>1. PICK i \in Bad : \A j \in Bad : i <= j
    <3>1. Bad \subseteq Nat
      BY <1>1
    <3> HIDE DEF Bad
    <3> QED
      BY <3>1, LeastOf
  <2>2. \A j \in DOMAIN s : j < i => Good(j)
    BY <1>1, <2>1
  <2>3. i \in DOMAIN s /\ ~Good(i)
    OBVIOUS
  <2>4. PICK j \in DOMAIN t : t[j].id = s[i].id
    BY <2>3
  <2>5. ~(j < i)
    <3> SUFFICES ASSUME j < i PROVE FALSE
      OBVIOUS
    <3>1. j \in DOMAIN s
      BY <1>1, <2>3
    <3> QED
      BY <1>1, <2>2, <2>3, <2>4, <3>1
  <2>6. i < j
    BY <1>1, <2>3, <2>4, <2>5
  <2>7. i \in DOMAIN t /\ t[i].id < s[i].id
    BY <1>1, <2>3, <2>4, <2>6
  <2>8. PICK k \in DOMAIN s : s[k].id = t[i].id
    <3>1. t[i].id <= s[i].id
      BY <1>1, <2>3, <2>7
    <3> QED
      BY <2>3, <2>7, <3>1
  <2>9. k < i
    BY <1>1, <2>3, <2>7, <2>8
  <2>10. Good(k)
    BY <2>2, <2>9
  <2>11. t[k].id < t[i].id
    BY <2>7, <2>9, <2>10
  <2> QED
    BY <1>1, <2>7, <2>8, <2>10, <2>11
<1> QED
  BY <1>2 DEF Extends

-----------------------------------------------------------------------------
(* What the steps do                                                        *)

LEMMA ClampIs ==
    ASSUME refs \in Seq(Ref), refs # <<>>, NEW i \in Int
    PROVE  Clamp(i) \in DOMAIN refs /\ (i \in DOMAIN refs => Clamp(i) = i)
  BY DEF Clamp

\* The record shown is left, or one is read, or the position moves without.
Viewed ==
    \/ UNCHANGED <<currentIndex, shown, astray>>
    \/ refs # <<>> /\ \E i \in Int : LoadSnapshotAt(i)
    \/ shown' = shown /\ \E i \in 0 .. MaxRecords : Reposition(i)

Environment ==
    /\ Capture \/ FinishCapture \/ Tick
    /\ UNCHANGED <<viewVars, threadVars, pageVars, searchVars, astray, lost>>

Loss ==
    /\ Lose
    /\ UNCHANGED <<refs, currentIndex, shown, topDirection, skipEmpty, astray, pageVars, searchVars>>
    /\ followLatest' \in BOOLEAN
    /\ \/ UNCHANGED threadVars
       \/ ui = "idle" /\ refs # <<>> /\ ui' = "read" /\ target' = AdjustLatest(refs)

Reload ==
    /\ ui # "read"
    /\ \/ TakeIndex(LoadIndex, AdjustStart(LoadIndex))
       \/ TakeIndex(LoadIndex, AdjustLatest(LoadIndex))
    /\ followLatest' \in BOOLEAN
    /\ UNCHANGED <<logVars, topDirection, skipEmpty, pageVars, searchVars, lost>>

Move ==
    /\ Viewed
    /\ \/ UNCHANGED threadVars
       \/ ui' = "idle" /\ target' = 0
    /\ topDirection' \in Dirs /\ skipEmpty' \in BOOLEAN /\ followLatest' \in BOOLEAN
    /\ UNCHANGED <<logVars, refs, pageVars, searchVars, lost>>

Dialog ==
    /\ \/ \E page \in {"jump", "search"} : Prompt(page)
       \/ \E page \in Pages : Cancel(page)
       \/ \E t \in 0 .. MaxTime : Jump(t)
       \/ StartSearch \/ Scan \/ ShowResults
       \/ \E k \in Ids : JumpToResult(k)
    /\ Viewed
    /\ followLatest' \in BOOLEAN
    /\ UNCHANGED <<logVars, refs, topDirection, skipEmpty, threadVars>>

Typed == TypeLog /\ TypeView /\ TypeThread /\ TypeSearch

LEMMA Bounds ==
    ASSUME TypeView
    PROVE  /\ DOMAIN refs = 1 .. Len(refs) /\ Len(refs) \in Nat /\ Len(refs) <= MaxRecords
           /\ MaxRecords \in Nat /\ currentIndex \in Int
           /\ DOMAIN refs \subseteq 0 .. MaxRecords /\ DOMAIN refs \subseteq Int
  BY ReplayAssumption DEF TypeView

LEMMA MovesAre ==
    ASSUME Typed,
           \/ ReadTarget \/ NavigatePrev \/ NavigateNext \/ NavigateOldest \/ NavigateLatest
           \/ ToggleDirection \/ ToggleSkipEmpty \/ FollowOff
    PROVE  Move
<1>1. TypeView /\ TypeThread
  BY DEF Typed
<1>2. refs \in Seq(Ref) /\ currentIndex \in Nat /\ currentIndex \in 0 .. MaxRecords
  BY <1>1 DEF TypeView
<1>3. topDirection \in Dirs /\ skipEmpty \in BOOLEAN /\ followLatest \in BOOLEAN
  BY <1>1 DEF TypeView
<1>4. ASSUME NEW i \in Int, refs # <<>>, MoveTo(i), followLatest' \in BOOLEAN PROVE Move
  <2>1. Viewed
    BY <1>4 DEF MoveTo, Viewed
  <2>2. UNCHANGED <<logVars, refs, topDirection, skipEmpty, threadVars, pageVars, searchVars, lost>>
    BY <1>4 DEF MoveTo
  <2> QED
    BY <1>3, <1>4, <2>1, <2>2 DEF Move
<1>5. ASSUME Stay, followLatest' \in BOOLEAN PROVE Move
  <2>1. Viewed
    BY <1>5 DEF Stay, Viewed
  <2>2. UNCHANGED <<logVars, refs, topDirection, skipEmpty, threadVars, pageVars, searchVars, lost>>
    BY <1>5 DEF Stay
  <2> QED
    BY <1>3, <1>5, <2>1, <2>2 DEF Move
<1>6. CASE ReadTarget
  <2>1. refs # <<>> /\ target \in Int
    <3>1. target \in DOMAIN refs
      BY <1>1, <1>6 DEF ReadTarget, TypeThread
    <3> QED
      BY <1>1, <3>1, Bounds
  <2>2. Viewed
    BY <1>6, <2>1 DEF ReadTarget, Viewed
  <2> QED
    BY <1>3, <1>6, <2>2 DEF ReadTarget, Move
<1>7. CASE NavigatePrev
  <2>1. refs # <<>> /\ followLatest' \in BOOLEAN
    BY <1>7 DEF NavigatePrev
  <2>2. currentIndex - 1 \in Int
    BY <1>2
  <2>3. FindPrev(refs, currentIndex - 1, 0) \in Int
    BY <1>1, <1>2, <2>2, FindPrevIs, ActiveType, Bounds
  <2>4. \/ MoveTo(currentIndex - 1) \/ MoveTo(FindPrev(refs, currentIndex - 1, 0)) \/ Stay
    BY <1>7 DEF NavigatePrev
  <2> QED
    BY <1>4, <1>5, <2>1, <2>2, <2>3, <2>4
<1>8. CASE NavigateNext
  <2>1. refs # <<>> /\ followLatest' \in BOOLEAN
    BY <1>8 DEF NavigateNext
  <2>2. currentIndex + 1 \in Int
    BY <1>2
  <2>3. FindNext(refs, currentIndex + 1, 0) \in Int
    BY <1>1, <1>2, <2>2, FindNextIs, ActiveType, Bounds
  <2>4. \/ MoveTo(currentIndex + 1) \/ MoveTo(FindNext(refs, currentIndex + 1, 0)) \/ Stay
    BY <1>8 DEF NavigateNext
  <2> QED
    BY <1>4, <1>5, <2>1, <2>2, <2>3, <2>4
<1>9. CASE NavigateOldest
  <2>1. refs # <<>> /\ followLatest' \in BOOLEAN /\ MoveTo(AdjustStart(refs))
    BY <1>9 DEF NavigateOldest
  <2>2. AdjustStart(refs) \in Int
    BY <1>1, <1>2, <2>1, AdjustStartIs, Bounds
  <2> QED
    BY <1>4, <2>1, <2>2
<1>10. CASE NavigateLatest
  <2>1. refs # <<>> /\ followLatest' \in BOOLEAN /\ MoveTo(AdjustLatest(refs))
    BY <1>3, <1>10 DEF NavigateLatest
  <2>2. AdjustLatest(refs) \in Int
    BY <1>1, <1>2, <2>1, AdjustLatestIs, Bounds
  <2> QED
    BY <1>4, <2>1, <2>2
<1>11. \A d : FindNearest(refs, d, currentIndex) \in 0 .. MaxRecords
  BY <1>1, <1>2, FindNearestIs, Bounds
<1>12. CASE ToggleDirection
  <2>1. PICK d \in Dirs : /\ topDirection' = d
                         /\ Reposition(IF skipEmpty THEN FindNearest(refs, d, currentIndex) ELSE currentIndex)
    BY <1>12 DEF ToggleDirection
  <2>2. Viewed
    BY <1>2, <1>11, <1>12, <2>1 DEF Viewed, ToggleDirection
  <2> QED
    BY <1>3, <1>12, <2>1, <2>2 DEF ToggleDirection, Move
<1>13. CASE ToggleSkipEmpty
  <2>1. Reposition(IF skipEmpty THEN currentIndex ELSE FindNearest(refs, topDirection, currentIndex))
    BY <1>13 DEF ToggleSkipEmpty
  <2>2. Viewed
    BY <1>2, <1>11, <1>13, <2>1 DEF Viewed, ToggleSkipEmpty
  <2>3. skipEmpty' \in BOOLEAN
    BY <1>13 DEF ToggleSkipEmpty
  <2> QED
    BY <1>3, <1>13, <2>2, <2>3 DEF ToggleSkipEmpty, Move
<1>14. CASE FollowOff
  BY <1>5, <1>14 DEF FollowOff
<1> QED
  BY <1>6, <1>7, <1>8, <1>9, <1>10, <1>12, <1>13, <1>14

LEMMA DialogsAre ==
    ASSUME Typed, Sorted(refs),
           \/ \E page \in {"jump", "search"} : Prompt(page)
           \/ \E page \in Pages : Cancel(page)
           \/ \E t \in 0 .. MaxTime : Jump(t)
           \/ StartSearch \/ Scan \/ ShowResults
           \/ \E k \in Ids : JumpToResult(k)
    PROVE  Dialog
<1>1. TypeView /\ TypeSearch
  BY DEF Typed
<1>2. refs \in Seq(Ref) /\ followLatest \in BOOLEAN
  BY <1>1 DEF TypeView
<1>3. ASSUME NEW page \in {"jump", "search"}, Prompt(page) PROVE Dialog
  BY <1>2, <1>3 DEF Prompt, viewVars, Dialog, Viewed
<1>4. ASSUME NEW page \in Pages, Cancel(page) PROVE Dialog
  BY <1>2, <1>4 DEF Cancel, viewVars, Dialog, Viewed
<1>5. ASSUME NEW t \in 0 .. MaxTime, Jump(t) PROVE Dialog
  <2>1. Viewed /\ followLatest' \in BOOLEAN
    <3>1. CASE refs = <<>>
      BY <1>2, <1>5, <3>1 DEF Jump, Viewed
    <3>2. CASE refs # <<>>
      <4>1. Closest(t) \in DOMAIN refs
        BY <1>2, <3>2, ClosestIs
      <4>2. FindNearest(refs, topDirection, Closest(t)) \in DOMAIN refs
        BY <1>1, <1>2, <4>1, FindNearestIs, Bounds
      <4>3. (IF skipEmpty THEN FindNearest(refs, topDirection, Closest(t)) ELSE Closest(t)) \in Int
        BY <1>1, <4>1, <4>2, Bounds
      <4> QED
        BY <1>5, <3>2, <4>3 DEF Jump, Viewed
    <3> QED
      BY <3>1, <3>2
  <2> QED
    BY <1>5, <2>1 DEF Jump, Dialog
<1>6. CASE StartSearch
  BY <1>2, <1>6 DEF StartSearch, Dialog, Viewed
<1>7. CASE Scan
  BY <1>2, <1>7 DEF Scan, viewVars, Dialog, Viewed
<1>8. CASE ShowResults
  BY <1>2, <1>8 DEF ShowResults, viewVars, Dialog, Viewed
<1>9. ASSUME NEW k \in Ids, JumpToResult(k) PROVE Dialog
  <2>1. Viewed /\ followLatest' \in BOOLEAN
    <3>1. CASE results[k].index \in DOMAIN refs
      <4>1. results[k].index \in Int /\ refs # <<>>
        BY <1>1, <3>1, Bounds
      <4> QED
        BY <1>9, <3>1, <4>1 DEF JumpToResult, Viewed
    <3>2. CASE results[k].index \notin DOMAIN refs
      BY <1>2, <1>9, <3>2 DEF JumpToResult, Viewed
    <3> QED
      BY <3>1, <3>2
  <2> QED
    BY <1>9, <2>1 DEF JumpToResult, Dialog
<1> QED
  BY <1>3, <1>4, <1>5, <1>6, <1>7, <1>8, <1>9

LEMMA StepsAre ==
    ASSUME Typed, Sorted(refs), Next
    PROVE  Environment \/ Loss \/ Reload \/ Move \/ Dialog
<1>1. followLatest \in BOOLEAN
  BY DEF Typed, TypeView
<1>2. CASE LogStep
  <2>1. CASE Capture
    BY <2>1 DEF Capture, Environment
  <2>2. CASE FinishCapture
    BY <2>2 DEF FinishCapture, Environment
  <2>3. CASE Tick
    BY <2>3 DEF Tick, Environment
  <2>4. CASE LoseSnapshots
    BY <1>1, <2>4 DEF LoseSnapshots, viewVars, Loss
  <2> QED
    BY <1>2, <2>1, <2>2, <2>3, <2>4 DEF LogStep
<1>3. CASE Open
  BY <1>1, <1>3 DEF Open, Reload
<1>4. CASE Follow
  BY <1>1, <1>4 DEF Follow, Reload
<1>5. CASE FollowFails
  BY <1>1, <1>5 DEF FollowFails, viewVars, Loss
<1>6. CASE FollowOn
  <2>1. ui = "idle" /\ followLatest' \in BOOLEAN /\ UNCHANGED <<topDirection, skipEmpty, pageVars, searchVars>>
    BY <1>6 DEF FollowOn, AtMain
  <2>2. CASE TakeIndex(LoadIndex, AdjustLatest(LoadIndex)) /\ UNCHANGED <<logVars, lost>>
    BY <2>1, <2>2 DEF Reload
  <2>3. CASE /\ Lose
             /\ IF refs = <<>> THEN UNCHANGED threadVars
                ELSE ui' = "read" /\ target' = AdjustLatest(refs)
             /\ UNCHANGED <<refs, currentIndex, shown, astray>>
    BY <2>1, <2>3 DEF Loss
  <2> QED
    BY <1>6, <2>2, <2>3 DEF FollowOn
<1>7. CASE \/ ReadTarget \/ NavigatePrev \/ NavigateNext \/ NavigateOldest \/ NavigateLatest
           \/ ToggleDirection \/ ToggleSkipEmpty \/ FollowOff
  BY <1>7, MovesAre
<1>8. CASE \/ \E page \in {"jump", "search"} : Prompt(page)
           \/ \E page \in Pages : Cancel(page)
           \/ \E t \in 0 .. MaxTime : Jump(t)
           \/ StartSearch \/ Scan \/ ShowResults
           \/ \E k \in Ids : JumpToResult(k)
  BY <1>8, DialogsAre
<1> QED
  BY <1>2, <1>3, <1>4, <1>5, <1>6, <1>7, <1>8 DEF Next, ThreadStep, Key, NavigationKey

-----------------------------------------------------------------------------
(* The log                                                                  *)

\* What can be read could be read before, or is newer than all that was made.
Remains ==
    /\ made <= made'
    /\ \A e \in readable' : e.id > made \/ \E d \in readable : d.id = e.id /\ d.at = e.at

LEMMA LogTypes ==
    ASSUME TypeLog
    PROVE  /\ made \in Nat /\ now \in Nat
           /\ \A e \in readable : e.id \in Ids /\ e.id \in Nat /\ e.at \in 0 .. MaxTime /\ e.at \in Nat
  BY ReplayAssumption DEF TypeLog, Ids

LEMMA CaptureKeeps ==
    ASSUME TypeLog, LogInv, Capture
    PROVE  /\ TypeLog' /\ LogInv' /\ Remains
           /\ \A id : IsReadable(id) => \E e \in readable' : e.id = id
<1> DEFINE new == [id |-> made + 1, at |-> now, done |-> FALSE]
<1>1. /\ readable' = readable \cup {new} /\ now' = now /\ rows' = rows /\ made' = made + 1
      /\ made < MaxRecords /\ \A e \in readable : e.at < now
  BY DEF Capture, Log!Write
<1>2. new.id = made + 1 /\ new.at = now
  OBVIOUS
<1>3. made + 1 \in 1 .. MaxRecords
  BY <1>1, ReplayAssumption DEF TypeLog
<1>4. new \in [id : Ids, at : 0 .. MaxTime, done : BOOLEAN]
  BY <1>3 DEF TypeLog, Ids
<1> HIDE DEF new
<1>5. TypeLog'
  BY <1>1, <1>3, <1>4 DEF TypeLog
<1>6. LogInv'
  <2>1. \A e \in readable' : e.id <= made' /\ e.at <= now'
    BY <1>1, <1>2, LogTypes DEF LogInv
  <2>2. \A e, f \in readable' : e.id <= f.id => e.at <= f.at
    <3> SUFFICES ASSUME NEW e \in readable', NEW f \in readable', e.id <= f.id
                 PROVE  e.at <= f.at
      OBVIOUS
    <3>1. CASE e \in readable /\ f \in readable
      BY <3>1 DEF LogInv
    <3>2. CASE f = new
      BY <1>1, <1>2, <3>2, LogTypes
    <3>3. CASE e = new /\ f \in readable
      <4>1. f.id <= made /\ made \in Nat /\ f.id \in Nat
        BY <3>3, LogTypes DEF LogInv
      <4> QED
        BY <1>2, <3>3, <4>1
    <3> QED
      BY <1>1, <3>1, <3>2, <3>3
  <2> QED
    BY <2>1, <2>2 DEF LogInv
<1>7. Remains
  BY <1>1, <1>2, LogTypes DEF Remains
<1>8. \A id : IsReadable(id) => \E e \in readable' : e.id = id
  BY <1>1 DEF IsReadable
<1> QED
  BY <1>5, <1>6, <1>7, <1>8

LEMMA FinishKeeps ==
    ASSUME TypeLog, LogInv, FinishCapture
    PROVE  /\ TypeLog' /\ LogInv' /\ Remains
           /\ \A id : IsReadable(id) => \E e \in readable' : e.id = id
<1>1. PICK d \in readable : Log!Finish(d)
  BY DEF FinishCapture
<1> DEFINE new == [d EXCEPT !.done = TRUE]
<1>2. /\ readable' = (readable \ {d}) \cup {new} /\ now' = now /\ rows' = rows /\ made' = made
  BY <1>1 DEF FinishCapture, Log!Finish
<1>3. d \in [id : Ids, at : 0 .. MaxTime, done : BOOLEAN]
  BY DEF TypeLog
<1>4. new \in [id : Ids, at : 0 .. MaxTime, done : BOOLEAN] /\ new.id = d.id /\ new.at = d.at
  BY <1>3
<1> HIDE DEF new
<1>5. \A e \in readable' : \E f \in readable : f.id = e.id /\ f.at = e.at
  BY <1>2, <1>4
<1>6. TypeLog'
  BY <1>2, <1>4 DEF TypeLog
<1>7. LogInv'
  BY <1>2, <1>5, LogTypes DEF LogInv
<1>8. Remains
  BY <1>2, <1>5, LogTypes DEF Remains
<1>9. \A id : IsReadable(id) => \E e \in readable' : e.id = id
  BY <1>2, <1>4 DEF IsReadable
<1> QED
  BY <1>6, <1>7, <1>8, <1>9

LEMMA TickKeeps ==
    ASSUME TypeLog, LogInv, Tick
    PROVE  /\ TypeLog' /\ LogInv' /\ Remains
           /\ \A id : IsReadable(id) => \E e \in readable' : e.id = id
<1>1. now < MaxTime /\ now' = now + 1 /\ UNCHANGED <<readable, made, rows>>
  BY DEF Tick
<1>2. TypeLog'
  BY <1>1, ReplayAssumption DEF TypeLog
<1>3. LogInv'
  BY <1>1, LogTypes DEF LogInv
<1>4. Remains
  BY <1>1, LogTypes DEF Remains
<1> QED
  BY <1>1, <1>2, <1>3, <1>4 DEF IsReadable

LEMMA LoseKeeps ==
    ASSUME TypeLog, LogInv, Lose
    PROVE  TypeLog' /\ LogInv' /\ Remains
<1>1. readable' \subseteq readable /\ UNCHANGED <<now, made, rows>>
  BY DEF Lose, Log!Spoil, Log!Expire
<1>2. TypeLog'
  BY <1>1 DEF TypeLog
<1>3. LogInv'
  BY <1>1 DEF LogInv
<1>4. Remains
  BY <1>1, LogTypes DEF Remains
<1> QED
  BY <1>2, <1>3, <1>4

\* The index ages well: what it lacks and did not lack before is newer.
LEMMA FaithfulKept ==
    ASSUME TypeLog, TypeLog', refs \in Seq(Ref), Faithful(refs), Remains, refs' = refs
    PROVE  Faithful(refs)'
<1>1. /\ \A i \in DOMAIN refs : refs[i].id \in Nat /\ refs[i].id <= made /\ InRange(refs[i])
      /\ made \in Nat /\ made' \in Nat /\ made <= made'
  BY RefType, LogTypes, ReplayAssumption DEF Faithful, Remains, TypeLog
<1>2. \A i \in DOMAIN refs : refs[i].id <= made' /\ InRange(refs[i])
  BY <1>1
<1>3. ASSUME NEW e \in readable', NEW i \in DOMAIN refs
      PROVE  /\ e.id = refs[i].id => e.at = refs[i].at
             /\ InRange(e) /\ e.id <= refs[i].id => \E j \in DOMAIN refs : refs[j].id = e.id
  <2>1. e.id \in Nat
    BY ReplayAssumption DEF TypeLog, Ids
  <2>2. CASE e.id > made
    BY <1>1, <2>1, <2>2
  <2>3. CASE \E d \in readable : d.id = e.id /\ d.at = e.at
    <3>1. PICK d \in readable : d.id = e.id /\ d.at = e.at
      BY <2>3
    <3>2. InRange(e) => InRange(d)
      BY <3>1 DEF InRange
    <3> QED
      BY <3>1, <3>2 DEF Faithful
  <2> QED
    BY <2>2, <2>3 DEF Remains
<1> QED
  BY <1>2, <1>3 DEF Faithful, InRange

LEMMA FaithfulSame ==
    ASSUME NEW index, Faithful(index), refs' = index, UNCHANGED logVars
    PROVE  Faithful(refs)'
  BY DEF Faithful, InRange, logVars

-----------------------------------------------------------------------------
(* The view                                                                 *)

LEMMA ViewedKeeps ==
    ASSUME Typed, HeaderNamesRecord, Viewed, refs' = refs
    PROVE  /\ currentIndex' \in 0 .. MaxRecords /\ shown' \in Ids \cup {0} /\ astray' \in BOOLEAN
           /\ HeaderNamesRecord'
<1>1. /\ refs \in Seq(Ref) /\ currentIndex \in 0 .. MaxRecords /\ shown \in Ids \cup {0} /\ astray \in BOOLEAN
      /\ TypeView
  BY DEF Typed, TypeView
<1>2. CASE UNCHANGED <<currentIndex, shown, astray>>
  BY <1>1, <1>2 DEF HeaderNamesRecord
<1>3. ASSUME refs # <<>>, NEW i \in Int, LoadSnapshotAt(i)
      PROVE  /\ currentIndex' \in 0 .. MaxRecords /\ shown' \in Ids \cup {0} /\ astray' \in BOOLEAN
             /\ HeaderNamesRecord'
  <2> DEFINE j == Clamp(i)
  <2>1. j \in DOMAIN refs
    BY <1>1, <1>3, ClampIs
  <2>2. \/ currentIndex' = j /\ shown' = refs[j].id /\ astray' = FALSE
        \/ UNCHANGED <<currentIndex, shown, astray>>
    BY <1>3 DEF LoadSnapshotAt
  <2> HIDE DEF j
  <2>3. j \in 0 .. MaxRecords /\ refs[j].id \in Ids
    BY <1>1, <2>1, Bounds, RefType
  <2>4. CASE currentIndex' = j /\ shown' = refs[j].id /\ astray' = FALSE
    BY <2>1, <2>3, <2>4 DEF HeaderNamesRecord
  <2> QED
    BY <1>2, <2>2, <2>4
<1>4. ASSUME shown' = shown, NEW i \in 0 .. MaxRecords, Reposition(i)
      PROVE  /\ currentIndex' \in 0 .. MaxRecords /\ shown' \in Ids \cup {0} /\ astray' \in BOOLEAN
             /\ HeaderNamesRecord'
  BY <1>1, <1>4 DEF Reposition, HeaderNamesRecord
<1> QED
  BY <1>2, <1>3, <1>4 DEF Viewed

ViewKept == TypeView' /\ TypeThread' /\ HeaderNamesRecord'

LEMMA TakeIndexKeeps ==
    ASSUME Typed, LogInv, HeaderNamesRecord, ui # "read", NEW i, TakeIndex(LoadIndex, i),
           LoadIndex # <<>> => i \in DOMAIN LoadIndex,
           followLatest' \in BOOLEAN, UNCHANGED <<topDirection, skipEmpty>>
    PROVE  ViewKept
<1> DEFINE index == LoadIndex
<1>1. index \in Seq(Ref) /\ Len(index) <= MaxRecords
  BY LoadIndexIs DEF Typed
<1>2. /\ TypeView /\ TypeThread
      /\ topDirection' \in Dirs /\ skipEmpty' \in BOOLEAN
      /\ currentIndex \in 0 .. MaxRecords /\ shown \in Ids \cup {0} /\ astray \in BOOLEAN
  BY DEF Typed, TypeView
<1>3. /\ refs' = index
      /\ IF index = <<>>
         THEN /\ currentIndex' = 0 /\ shown' = 0 /\ astray' = FALSE
              /\ ui' = "idle" /\ target' = 0
         ELSE /\ ui' = "read" /\ target' = i
              /\ astray' = (astray \/ index # refs)
              /\ UNCHANGED <<currentIndex, shown>>
  BY DEF TakeIndex
<1>4. index # <<>> => i \in DOMAIN index
  OBVIOUS
<1> HIDE DEF index
<1>5. CASE index = <<>>
  <2>1. DOMAIN refs' = {} /\ refs' \in Seq(Ref) /\ Len(refs') <= MaxRecords /\ 0 \in 0 .. MaxRecords
    BY <1>1, <1>3, <1>5, ReplayAssumption
  <2>2. TypeView' /\ TypeThread'
    BY <1>2, <1>3, <1>5, <2>1 DEF TypeView, TypeThread
  <2>3. HeaderNamesRecord'
    BY <1>3, <1>5, <2>1 DEF HeaderNamesRecord
  <2> QED
    BY <2>2, <2>3 DEF ViewKept
<1>6. CASE index # <<>>
  <2>1. i \in DOMAIN index /\ DOMAIN index \subseteq 0 .. MaxRecords
    BY <1>1, <1>4, <1>6, ReplayAssumption
  <2>2. astray' \in BOOLEAN
    BY <1>2, <1>3, <1>6
  <2>3. TypeView'
    BY <1>1, <1>2, <1>3, <1>6, <2>2 DEF TypeView
  <2>4. TypeThread'
    BY <1>3, <1>6, <2>1 DEF TypeThread
  <2>5. HeaderNamesRecord'
    BY <1>3, <1>6 DEF HeaderNamesRecord
  <2> QED
    BY <2>3, <2>4, <2>5 DEF ViewKept
<1> QED
  BY <1>5, <1>6

LEMMA ViewKeeps ==
    ASSUME Typed, LogInv, IndexInv, HeaderNamesRecord,
           Environment \/ Loss \/ Reload \/ Move \/ Dialog
    PROVE  ViewKept
<1>1. TypeView /\ TypeThread /\ TypeLog
  BY DEF Typed
<1>2. CASE Environment
  BY <1>1, <1>2 DEF Environment, viewVars, threadVars, TypeView, TypeThread, HeaderNamesRecord, ViewKept
<1>3. CASE Loss
  <2>1. TypeView' /\ HeaderNamesRecord'
    BY <1>1, <1>3 DEF Loss, TypeView, HeaderNamesRecord
  <2>2. TypeThread'
    <3>1. CASE UNCHANGED threadVars
      BY <1>1, <1>3, <3>1 DEF Loss, threadVars, TypeThread
    <3>2. CASE refs # <<>> /\ ui' = "read" /\ target' = AdjustLatest(refs)
      <4>1. target' \in DOMAIN refs
        BY <1>1, <3>2, AdjustLatestIs DEF TypeView
      <4>2. refs' = refs /\ target' \in 0 .. MaxRecords
        BY <1>1, <1>3, <4>1, Bounds DEF Loss
      <4> QED
        BY <3>2, <4>1, <4>2 DEF TypeThread
    <3> QED
      BY <1>3, <3>1, <3>2 DEF Loss
  <2> QED
    BY <2>1, <2>2 DEF ViewKept
<1>4. CASE Reload
  <2>1. LoadIndex \in Seq(Ref)
    BY <1>1, LoadIndexIs
  <2>2. LoadIndex # <<>> => /\ AdjustStart(LoadIndex) \in DOMAIN LoadIndex
                           /\ AdjustLatest(LoadIndex) \in DOMAIN LoadIndex
    BY <2>1, AdjustStartIs, AdjustLatestIs
  <2>3. ui # "read" /\ followLatest' \in BOOLEAN /\ UNCHANGED <<topDirection, skipEmpty>>
    BY <1>4 DEF Reload
  <2>4. \/ TakeIndex(LoadIndex, AdjustStart(LoadIndex))
        \/ TakeIndex(LoadIndex, AdjustLatest(LoadIndex))
    BY <1>4 DEF Reload
  <2> QED
    BY <2>2, <2>3, <2>4, TakeIndexKeeps
<1>5. CASE Move
  <2>1. /\ currentIndex' \in 0 .. MaxRecords /\ shown' \in Ids \cup {0} /\ astray' \in BOOLEAN
        /\ HeaderNamesRecord' /\ refs' = refs
    BY <1>5, ViewedKeeps DEF Move
  <2>2. TypeView'
    BY <1>1, <1>5, <2>1 DEF TypeView, Move
  <2>3. TypeThread'
    <3>1. 0 \notin DOMAIN refs /\ 0 \in 0 .. MaxRecords
      BY <1>1, Bounds
    <3> QED
      BY <1>1, <1>5, <2>1, <3>1 DEF TypeThread, Move, threadVars
  <2> QED
    BY <2>1, <2>2, <2>3 DEF ViewKept
<1>6. CASE Dialog
  <2>1. /\ currentIndex' \in 0 .. MaxRecords /\ shown' \in Ids \cup {0} /\ astray' \in BOOLEAN
        /\ HeaderNamesRecord' /\ refs' = refs
    BY <1>6, ViewedKeeps DEF Dialog
  <2>2. followLatest' \in BOOLEAN /\ UNCHANGED <<topDirection, skipEmpty, ui, target>>
    BY <1>6 DEF Dialog, threadVars
  <2>3. TypeView' /\ TypeThread'
    BY <1>1, <2>1, <2>2 DEF TypeView, TypeThread
  <2> QED
    BY <2>1, <2>3 DEF ViewKept
<1> QED
  BY <1>2, <1>3, <1>4, <1>5, <1>6

LEMMA LogKeeps ==
    ASSUME Typed, LogInv, IndexInv, Environment \/ Loss \/ Reload \/ Move \/ Dialog
    PROVE  TypeLog' /\ LogInv' /\ IndexInv'
<1>1. TypeLog /\ refs \in Seq(Ref) /\ Sorted(refs) /\ Faithful(refs)
  BY DEF Typed, TypeView, IndexInv
<1>2. CASE Environment \/ Loss
  <2>1. TypeLog' /\ LogInv' /\ Remains
    BY <1>1, <1>2, CaptureKeeps, FinishKeeps, TickKeeps, LoseKeeps DEF Environment, Loss
  <2>2. refs' = refs
    BY <1>2 DEF Environment, Loss, viewVars
  <2>3. Faithful(refs)'
    BY <1>1, <2>1, <2>2, FaithfulKept
  <2>4. Sorted(refs)'
    BY <1>1, <2>2 DEF Sorted
  <2> QED
    BY <2>1, <2>3, <2>4 DEF IndexInv
<1>3. CASE Reload \/ Move \/ Dialog
  <2>1. UNCHANGED logVars
    BY <1>3 DEF Reload, Move, Dialog
  <2>2. PICK index : refs' = index /\ Faithful(index) /\ Sorted(index)
    <3>1. CASE Reload
      <4>1. refs' = LoadIndex
        BY <3>1 DEF Reload, TakeIndex
      <4>2. Faithful(LoadIndex) /\ Sorted(LoadIndex)
        BY <1>1, LoadIndexIs
      <4> QED
        BY <4>1, <4>2
    <3>2. CASE Move \/ Dialog
      BY <1>1, <3>2 DEF Move, Dialog
    <3> QED
      BY <1>3, <3>1, <3>2
  <2>3. Faithful(refs)' /\ Sorted(refs)'
    BY <2>1, <2>2, FaithfulSame DEF Sorted
  <2>4. TypeLog' /\ LogInv'
    BY <1>1, <2>1 DEF logVars, TypeLog, LogInv
  <2> QED
    BY <2>3, <2>4 DEF IndexInv
<1> QED
  BY <1>2, <1>3

-----------------------------------------------------------------------------
(* The dialogs                                                              *)

LEMMA Piles ==
    /\ ToSet(<<>>) = {}
    /\ \A p \in Pages : ToSet(<<p>>) = {p}
    /\ ToSet(<<"jump", "results">>) = {"jump", "results"}
  BY DEF ToSet

LEMMA RemoveFirstAt ==
    ASSUME NEW S, NEW s \in Seq(S), NEW k \in 1 .. Len(s), NEW e,
           \A i \in 1 .. Len(s) : s[i] = e <=> i = k
    PROVE  RemoveFirst(s, e) = SubSeq(s, 1, k - 1) \o SubSeq(s, k + 1, Len(s))
<1> DEFINE I == {i \in 1 .. Len(s) : s[i] = e}
<1>1. I = {k}
  OBVIOUS
<1>2. Min(I) = k
  BY <1>1 DEF Min
<1>3. SelectInSeq(s, LAMBDA v : v = e) = k
  BY <1>1, <1>2 DEF SelectInSeq
<1> QED
  BY <1>3 DEF RemoveFirst, RemoveAt

\* Short sequences, by their elements.
LEMMA OneIs ==
    ASSUME NEW S, NEW x \in S, NEW s \in Seq(S), Len(s) = 1, s[1] = x
    PROVE  s = <<x>>
  OBVIOUS

LEMMA TwoIs ==
    ASSUME NEW S, NEW x \in S, NEW y \in S, NEW s \in Seq(S), Len(s) = 2, s[1] = x, s[2] = y
    PROVE  s = <<x, y>>
  OBVIOUS

LEMMA OneMore ==
    ASSUME NEW S, NEW x \in S, NEW y \in S
    PROVE  Append(<<>>, x) = <<x>> /\ Append(<<x>>, y) = <<x, y>>
<1>1. Append(<<>>, x) = <<x>>
  OBVIOUS
<1>2. /\ Append(<<x>>, y) \in Seq(S) /\ Len(Append(<<x>>, y)) = 2
      /\ Append(<<x>>, y)[1] = x /\ Append(<<x>>, y)[2] = y
  OBVIOUS
<1>3. Append(<<x>>, y) = <<x, y>>
  BY <1>2, TwoIs
<1> QED
  BY <1>1, <1>3

LEMMA PairWithout ==
    ASSUME NEW S, NEW a \in S, NEW b \in S
    PROVE  /\ SubSeq(<<a, b>>, 1, 1) \o SubSeq(<<a, b>>, 3, 2) = <<a>>
           /\ SubSeq(<<a, b>>, 1, 0) \o SubSeq(<<a, b>>, 2, 2) = <<b>>
<1> DEFINE s == <<a, b>>
<1>1. s \in Seq(S) /\ Len(s) = 2 /\ s[1] = a /\ s[2] = b
  OBVIOUS
<1> HIDE DEF s
<1>2. /\ SubSeq(s, 1, 1) \in Seq(S) /\ Len(SubSeq(s, 1, 1)) = 1 /\ SubSeq(s, 1, 1)[1] = a
      /\ SubSeq(s, 2, 2) \in Seq(S) /\ Len(SubSeq(s, 2, 2)) = 1 /\ SubSeq(s, 2, 2)[1] = b
  BY <1>1
<1>3. SubSeq(s, 1, 1) = <<a>> /\ SubSeq(s, 2, 2) = <<b>>
  BY <1>2, OneIs
<1>4. SubSeq(s, 1, 0) = <<>> /\ SubSeq(s, 3, 2) = <<>>
  BY <1>1
<1>5. <<a>> \o <<>> = <<a>> /\ <<>> \o <<b>> = <<b>>
  OBVIOUS
<1> QED
  BY <1>3, <1>4, <1>5 DEF s

LEMMA RemoveFirstNone ==
    ASSUME NEW s, NEW e, \A i \in 1 .. Len(s) : s[i] # e
    PROVE  RemoveFirst(s, e) = s
  BY DEF RemoveFirst

LEMMA WithoutIs ==
    /\ pages = <<>> => \A p \in Pages : Without(p) = <<>>
    /\ \A p, q \in Pages : pages = <<q>> => Without(p) = IF p = q THEN <<>> ELSE <<q>>
    /\ pages = <<"jump", "results">> => Without("results") = <<"jump">> /\ Without("jump") = <<"results">>
<1>1. ASSUME pages = <<>>, NEW p \in Pages PROVE Without(p) = <<>>
  BY <1>1 DEF Without, RemoveFirst
<1>2. ASSUME NEW p \in Pages, NEW q \in Pages, pages = <<q>>
      PROVE  Without(p) = IF p = q THEN <<>> ELSE <<q>>
  <2>1. CASE p # q
    <3>1. \A i \in 1 .. Len(<<q>>) : <<q>>[i] # p
      BY <2>1
    <3> QED
      BY <1>2, <2>1, <3>1, RemoveFirstNone DEF Without
  <2>2. CASE p = q
    <3> DEFINE s == <<p>>
    <3>1. s \in Seq(Pages) /\ 1 \in 1 .. Len(s) /\ \A i \in 1 .. Len(s) : s[i] = p <=> i = 1
      OBVIOUS
    <3>2. SubSeq(s, 1, 1 - 1) \o SubSeq(s, 1 + 1, Len(s)) = <<>>
      OBVIOUS
    <3> HIDE DEF s
    <3>3. RemoveFirst(s, p) = SubSeq(s, 1, 1 - 1) \o SubSeq(s, 1 + 1, Len(s))
      BY <3>1, RemoveFirstAt
    <3> QED
      BY <1>2, <2>2, <3>2, <3>3 DEF Without, s
  <2> QED
    BY <2>1, <2>2
<1>3. ASSUME pages = <<"jump", "results">>
      PROVE  Without("results") = <<"jump">> /\ Without("jump") = <<"results">>
  <2> DEFINE s == <<"jump", "results">>
  <2>1. /\ s \in Seq(Pages) /\ 1 \in 1 .. Len(s) /\ 2 \in 1 .. Len(s)
        /\ \A i \in 1 .. Len(s) : s[i] = "results" <=> i = 2
        /\ \A i \in 1 .. Len(s) : s[i] = "jump" <=> i = 1
    BY DEF Pages
  <2>2. /\ SubSeq(s, 1, 1) \o SubSeq(s, 3, 2) = <<"jump">>
        /\ SubSeq(s, 1, 0) \o SubSeq(s, 2, 2) = <<"results">>
    <3>1. "jump" \in Pages /\ "results" \in Pages
      BY DEF Pages
    <3> HIDE DEF Pages
    <3> QED
      BY <3>1, PairWithout
  <2>3. Len(s) = 2
    OBVIOUS
  <2> HIDE DEF s
  <2>4. RemoveFirst(s, "results") = SubSeq(s, 1, 1) \o SubSeq(s, 3, 2)
    <3>1. RemoveFirst(s, "results") = SubSeq(s, 1, 2 - 1) \o SubSeq(s, 2 + 1, Len(s))
      BY <2>1, RemoveFirstAt
    <3> QED
      BY <2>3, <3>1
  <2>5. RemoveFirst(s, "jump") = SubSeq(s, 1, 0) \o SubSeq(s, 2, 2)
    <3>1. RemoveFirst(s, "jump") = SubSeq(s, 1, 1 - 1) \o SubSeq(s, 1 + 1, Len(s))
      BY <2>1, RemoveFirstAt
    <3> QED
      BY <2>3, <3>1
  <2> QED
    BY <1>3, <2>2, <2>4, <2>5 DEF Without, s
<1> QED
  BY <1>1, <1>2, <1>3

\* What closing a dialog that has the focus does.
LEMMA CloseIs ==
    ASSUME PagesInv, NEW page \in Pages, focus = page, Close(page)
    PROVE  /\ focus' = "main"
           /\ pages' \in {<<>>, <<"jump">>, <<"results">>}
           /\ page = "results" => pages' \in {<<>>, <<"jump">>} /\ scan # "run"
           /\ page = "search" => pages = <<"search">> /\ pages' = <<>>
           /\ page = "jump" => pages \in {<<"jump">>, <<"jump", "results">>}
           /\ page = "jump" /\ pages = <<"jump">> => pages' = <<>>
           /\ page = "jump" /\ pages = <<"jump", "results">> => pages' = <<"results">>
<1>1. page \in ToSet(pages) /\ page \in {"jump", "search", "results"}
  BY DEF PagesInv, Pages
<1>2. pages' = Without(page) /\ focus' = "main"
  BY DEF Close
<1>3. <<"jump">> # <<>> /\ <<"search">> # <<>> /\ <<"results">> # <<>>
      /\ <<"jump", "results">> # <<>> /\ <<"jump">> # <<"results">> /\ <<"jump">> # <<"search">>
      /\ <<"search">> # <<"results">>
      /\ \A p : <<p>> # <<"jump", "results">>
  OBVIOUS
<1>4. CASE pages = <<>>
  BY <1>1, <1>4, Piles
<1>5. CASE pages = <<"jump">>
  <2>1. page = "jump"
    BY <1>1, <1>5, Piles DEF Pages
  <2>2. pages' = <<>>
    BY <1>2, <1>5, <2>1, WithoutIs
  <2> QED
    BY <1>2, <1>3, <1>5, <2>1, <2>2
<1>6. CASE pages = <<"search">>
  <2>1. page = "search"
    BY <1>1, <1>6, Piles DEF Pages
  <2>2. pages' = <<>>
    BY <1>2, <1>6, <2>1, WithoutIs
  <2> QED
    BY <1>2, <1>3, <1>6, <2>1, <2>2
<1>7. CASE pages = <<"results">>
  <2>1. page = "results"
    BY <1>1, <1>7, Piles DEF Pages
  <2>2. pages' = <<>>
    BY <1>2, <1>7, <2>1, WithoutIs
  <2> QED
    BY <1>2, <1>3, <1>7, <2>1, <2>2 DEF PagesInv
<1>8. CASE pages = <<"jump", "results">>
  <2>1. page \in {"jump", "results"}
    BY <1>1, <1>8, Piles
  <2>2. page = "jump" => pages' = <<"results">>
    BY <1>2, <1>8, WithoutIs
  <2>3. page = "results" => pages' = <<"jump">>
    BY <1>2, <1>8, WithoutIs
  <2>4. scan # "run"
    BY <1>3, <1>8 DEF PagesInv
  <2> QED
    BY <1>2, <1>3, <1>8, <2>1, <2>2, <2>3, <2>4
<1> QED
  BY <1>4, <1>5, <1>6, <1>7, <1>8 DEF PagesInv

LEMMA FocusMain ==
    ASSUME focus' = "main"
    PROVE  (focus \in ToSet(pages) \cup {"main"})'
  OBVIOUS

LEMMA PagesKeep ==
    ASSUME Typed, PagesInv, Environment \/ Loss \/ Reload \/ Move \/ Dialog
    PROVE  PagesInv'
<1>1. CASE UNCHANGED <<pages, focus, scan, results>>
  BY <1>1 DEF PagesInv
<1>2. CASE Environment \/ Loss \/ Reload \/ Move
  BY <1>1, <1>2 DEF Environment, Loss, Reload, Move, pageVars, searchVars
<1>3. scan \in {"idle", "run"}
  BY DEF Typed, TypeSearch
<1>4. \A p \in Pages : p \in ToSet(<<p>>)
  BY Piles
<1>5. ASSUME NEW page \in {"jump", "search"}, Prompt(page) PROVE PagesInv'
  <2>1. pages = <<>> /\ page \in Pages /\ UNCHANGED <<scan, results>>
    BY <1>5 DEF Prompt, AtMain, Pages, searchVars
  <2>2. pages' = <<page>> /\ focus' = page
    <3>1. Without(page) = <<>>
      BY <2>1, WithoutIs
    <3> QED
      BY <1>5, <3>1 DEF Prompt, Show
  <2>3. (focus \in ToSet(pages))'
    BY <1>4, <2>1, <2>2
  <2>4. page = "search" => scan = "idle"
    BY <1>5 DEF Prompt
  <2>5. scan = "idle" => results = <<>>
    BY <2>1 DEF PagesInv
  <2> QED
    BY <2>1, <2>2, <2>3, <2>4, <2>5 DEF PagesInv
<1>6. ASSUME NEW page \in Pages, Cancel(page) PROVE PagesInv'
  <2>1. focus = page /\ Close(page) /\ scan' = scan
        /\ IF page = "results" THEN results' = <<>> ELSE results' = results
    BY <1>6 DEF Cancel, ForgetResults
  <2>2. /\ focus' = "main"
        /\ pages' \in {<<>>, <<"jump">>, <<"results">>}
        /\ page = "results" => pages' \in {<<>>, <<"jump">>} /\ scan # "run"
        /\ page = "search" => pages = <<"search">> /\ pages' = <<>>
        /\ page = "jump" => pages \in {<<"jump">>, <<"jump", "results">>}
        /\ page = "jump" /\ pages = <<"jump">> => pages' = <<>>
        /\ page = "jump" /\ pages = <<"jump", "results">> => pages' = <<"results">>
    BY <2>1, CloseIs
  <2>3. (focus \in ToSet(pages) \cup {"main"})'
    BY <2>2, FocusMain
  <2>4. CASE page = "results"
    BY <2>1, <2>2, <2>3, <2>4 DEF PagesInv
  <2>5. CASE page = "search"
    BY <2>1, <2>2, <2>3, <2>5 DEF PagesInv
  <2>6. CASE page = "jump"
    BY <2>1, <2>2, <2>3, <2>6 DEF PagesInv
  <2> QED
    BY <2>4, <2>5, <2>6 DEF Pages
<1>7. ASSUME NEW t \in 0 .. MaxTime, Jump(t) PROVE PagesInv'
  <2>1. focus = "jump" /\ Close("jump") /\ scan' = scan /\ results' = results /\ "jump" \in Pages
    BY <1>7 DEF Jump, searchVars, Pages
  <2>2. /\ focus' = "main"
        /\ pages \in {<<"jump">>, <<"jump", "results">>}
        /\ pages = <<"jump">> => pages' = <<>>
        /\ pages = <<"jump", "results">> => pages' = <<"results">>
    BY <2>1, CloseIs
  <2>3. (focus \in ToSet(pages) \cup {"main"})'
    BY <2>2, FocusMain
  <2> QED
    BY <2>1, <2>2, <2>3 DEF PagesInv
<1>8. CASE StartSearch
  <2>1. focus = "search" /\ Close("search") /\ "search" \in Pages
        /\ \/ UNCHANGED <<scan, results>>
           \/ scan' = "run" /\ results' = <<>>
    BY <1>8 DEF StartSearch, searchVars, Pages
  <2>2. focus' = "main" /\ pages = <<"search">> /\ pages' = <<>>
    BY <2>1, CloseIs
  <2>3. (focus \in ToSet(pages) \cup {"main"})'
    BY <2>2, FocusMain
  <2>4. scan = "idle" /\ results = <<>>
    BY <1>3, <2>2 DEF PagesInv
  <2> QED
    BY <2>1, <2>2, <2>3, <2>4 DEF PagesInv
<1>9. CASE Scan
  <2>1. scan = "run" /\ scan' = scan /\ pages' = pages /\ focus' = focus
    BY <1>9 DEF Scan, pageVars
  <2> QED
    BY <2>1 DEF PagesInv
<1>10. CASE ShowResults
  <2>1. scan = "run" /\ scan' = "idle" /\ results' = results
    BY <1>10 DEF ShowResults
  <2>2. CASE results = <<>>
    BY <1>10, <2>1, <2>2 DEF PagesInv, ShowResults, pageVars
  <2>3. CASE results # <<>>
    <3>1. Show("results") /\ "results" \in Pages /\ "jump" \in Pages
      BY <1>10, <2>3 DEF ShowResults, Pages
    <3>2. CASE pages = <<>>
      <4>1. Without("results") = <<>>
        BY <3>1, <3>2, WithoutIs
      <4>2. pages' = <<"results">> /\ focus' = "results"
        <5>1. pages' = Append(Without("results"), "results") /\ focus' = "results"
          BY <3>1, Zenon DEF Show
        <5> QED
          BY <3>1, <4>1, <5>1, OneMore
      <4>3. (focus \in ToSet(pages))'
        BY <1>4, <3>1, <4>2
      <4> QED
        BY <2>1, <4>2, <4>3 DEF PagesInv
    <3>3. CASE pages = <<"jump">>
      <4>1. Without("results") = <<"jump">>
        BY <3>1, <3>3, WithoutIs
      <4>2. pages' = <<"jump", "results">> /\ focus' = "results"
        <5>1. pages' = Append(Without("results"), "results") /\ focus' = "results"
          BY <3>1, Zenon DEF Show
        <5> QED
          BY <3>1, <4>1, <5>1, OneMore
      <4>3. (focus \in ToSet(pages))'
        BY <4>2, Piles
      <4> QED
        BY <2>1, <4>2, <4>3 DEF PagesInv
    <3> QED
      BY <2>1, <3>2, <3>3 DEF PagesInv
  <2> QED
    BY <2>2, <2>3
<1>11. ASSUME NEW k \in Ids, JumpToResult(k) PROVE PagesInv'
  <2>1. focus = "results" /\ Close("results") /\ scan' = scan /\ results' = <<>> /\ "results" \in Pages
    BY <1>11 DEF JumpToResult, ForgetResults, Pages
  <2>2. focus' = "main" /\ pages' \in {<<>>, <<"jump">>} /\ scan # "run"
    BY <2>1, CloseIs
  <2>3. (focus \in ToSet(pages) \cup {"main"})'
    BY <2>2, FocusMain
  <2> QED
    BY <2>1, <2>2, <2>3 DEF PagesInv
<1> QED
  BY <1>2, <1>5, <1>6, <1>7, <1>8, <1>9, <1>10, <1>11 DEF Dialog

-----------------------------------------------------------------------------
(* The search                                                               *)

LEMMA SearchTypes ==
    ASSUME Typed, PagesInv, Environment \/ Loss \/ Reload \/ Move \/ Dialog
    PROVE  TypeSearch'
<1>1. TypeSearch /\ TypeView
  BY DEF Typed
<1>2. CASE Environment \/ Loss \/ Reload \/ Move
  <2>1. UNCHANGED searchVars /\ lost' \in BOOLEAN
    BY <1>1, <1>2 DEF Environment, Loss, Lose, Reload, Move, TypeSearch
  <2> QED
    BY <1>1, <2>1 DEF searchVars, TypeSearch
<1>3. ASSUME NEW page \in {"jump", "search"}, Prompt(page) PROVE TypeSearch'
  BY <1>1, <1>3 DEF Prompt, searchVars, TypeSearch
<1>4. ASSUME NEW page \in Pages, Cancel(page) PROVE TypeSearch'
  <2>1. UNCHANGED <<scan, scanRefs, scanned>>
        /\ \/ results' = <<>> /\ lost' = FALSE
           \/ UNCHANGED <<results, lost>>
    BY <1>4 DEF Cancel, ForgetResults
  <2>2. <<>> \in Seq(Result) /\ FALSE \in BOOLEAN
    OBVIOUS
  <2>3. results \in Seq(Result) /\ lost \in BOOLEAN
    BY <1>1 DEF TypeSearch
  <2>4. results' \in Seq(Result)
    BY <2>1, <2>2, <2>3, Zenon
  <2>5. lost' \in BOOLEAN
    BY <2>1, <2>2, <2>3, Zenon
  <2> QED
    BY <1>1, <2>1, <2>4, <2>5 DEF TypeSearch
<1>5. ASSUME NEW t \in 0 .. MaxTime, Jump(t) PROVE TypeSearch'
  BY <1>1, <1>5 DEF Jump, searchVars, TypeSearch
<1>6. CASE StartSearch
  <2>1. CASE refs = <<>>
    BY <1>1, <1>6, <2>1 DEF StartSearch, searchVars, TypeSearch
  <2>2. CASE refs # <<>>
    <3>1. scan' = "run" /\ scanRefs' = refs /\ scanned' = 0 /\ results' = <<>> /\ lost' \in BOOLEAN
      BY <1>6, <2>2 DEF StartSearch
    <3>2. scanRefs' \in Seq(Ref) /\ Len(scanRefs') <= MaxRecords /\ 0 \in 0 .. Len(scanRefs')
      BY <1>1, <3>1 DEF TypeView
    <3> QED
      BY <3>1, <3>2 DEF TypeSearch
  <2> QED
    BY <2>1, <2>2
<1>7. CASE Scan
  <2>1. /\ scanned < Len(scanRefs) /\ scanned' = scanned + 1
        /\ UNCHANGED <<scan, scanRefs, lost>>
        /\ \/ results' = Append(results, [index |-> scanned', id |-> scanRefs[scanned'].id])
           \/ results' = results
    BY <1>7 DEF Scan
  <2>2. scanned' \in 1 .. Len(scanRefs) /\ scanned' \in Ids
    BY <1>1, <2>1, ReplayAssumption DEF TypeSearch, Ids
  <2>3. scanRefs[scanned'] \in Ref
    BY <1>1, <2>2 DEF TypeSearch
  <2>4. [index |-> scanned', id |-> scanRefs[scanned'].id] \in Result
    BY <2>2, <2>3, RefType DEF Result
  <2>5. results' \in Seq(Result)
    BY <1>1, <2>1, <2>4 DEF TypeSearch
  <2> QED
    BY <1>1, <2>1, <2>2, <2>5 DEF TypeSearch
<1>8. CASE ShowResults
  <2>1. scan' = "idle" /\ scanRefs' = <<>> /\ scanned' = 0 /\ results' = results /\ lost' \in BOOLEAN
    BY <1>1, <1>8 DEF ShowResults, TypeSearch
  <2>2. <<>> \in Seq(Ref) /\ Len(<<>>) = 0 /\ 0 \in 0 .. 0
    OBVIOUS
  <2> QED
    BY <1>1, <2>1, <2>2, ReplayAssumption DEF TypeSearch
<1>9. ASSUME NEW k \in Ids, JumpToResult(k) PROVE TypeSearch'
  <2>1. UNCHANGED <<scan, scanRefs, scanned>> /\ results' = <<>> /\ lost' = FALSE
    BY <1>9 DEF JumpToResult, ForgetResults
  <2>2. <<>> \in Seq(Result) /\ FALSE \in BOOLEAN
    OBVIOUS
  <2> QED
    BY <1>1, <2>1, <2>2 DEF TypeSearch
<1> QED
  BY <1>2, <1>3, <1>4, <1>5, <1>6, <1>7, <1>8, <1>9 DEF Dialog

\* While all its snapshots can be read, an index can only grow.
LEMMA ReloadExtends ==
    ASSUME Typed, LogInv, IndexInv, \A i \in DOMAIN refs : IsReadable(refs[i].id)
    PROVE  Extends(LoadIndex, refs)
<1> DEFINE index == LoadIndex
<1>1. /\ index \in Seq(Ref) /\ Sorted(index) /\ Faithful(index)
      /\ \A i \in DOMAIN index : IsReadable(index[i].id)
      /\ \A e \in readable : InRange(e) => \E i \in DOMAIN index : index[i].id = e.id
  BY LoadIndexIs DEF Typed
<1>2. refs \in Seq(Ref) /\ Sorted(refs) /\ Faithful(refs)
  BY DEF Typed, TypeView, IndexInv
<1> HIDE DEF index
<1>3. ASSUME NEW i \in DOMAIN refs PROVE \E j \in DOMAIN index : index[j].id = refs[i].id
  <2>1. PICK e \in readable : e.id = refs[i].id
    BY DEF IsReadable
  <2>2. e.at = refs[i].at /\ InRange(refs[i])
    BY <1>2, <2>1 DEF Faithful
  <2>3. InRange(e)
    BY <2>2 DEF InRange
  <2> QED
    BY <1>1, <2>1, <2>3
<1>4. ASSUME NEW i \in DOMAIN refs, NEW j \in DOMAIN index, index[j].id <= refs[i].id
      PROVE  \E k \in DOMAIN refs : refs[k].id = index[j].id
  <2>1. PICK e \in readable : e.id = index[j].id
    BY <1>1 DEF IsReadable
  <2>2. e.at = index[j].at /\ InRange(index[j])
    BY <1>1, <2>1 DEF Faithful
  <2>3. InRange(e) /\ e.id <= refs[i].id
    BY <1>4, <2>1, <2>2 DEF InRange
  <2> QED
    BY <1>2, <2>1, <2>3 DEF Faithful
<1>5. /\ \A i, j \in DOMAIN refs : i < j => refs[i].id < refs[j].id
      /\ \A i, j \in DOMAIN index : i < j => index[i].id < index[j].id
  BY <1>1, <1>2 DEF Sorted
<1>6. Extends(index, refs)
  BY <1>1, <1>2, <1>3, <1>4, <1>5, GrownIndex
<1> QED
  BY <1>6 DEF index

LEMMA SearchSame ==
    ASSUME SearchInv, UNCHANGED <<refs, scan, scanRefs, results, lost>>,
           \A id : IsReadable(id) => \E e \in readable' : e.id = id
    PROVE  SearchInv'
  BY DEF SearchInv, Searching, Extends, IsReadable

LEMMA SearchEnds ==
    ASSUME results' = <<>>, scan' # "run"
    PROVE  SearchInv'
  BY DEF SearchInv, Searching

LEMMA SearchKeeps ==
    ASSUME Typed, LogInv, IndexInv, SearchInv, PagesInv,
           Environment \/ Loss \/ Reload \/ Move \/ Dialog
    PROVE  SearchInv'
<1>1. TypeLog /\ TypeSearch /\ TypeView
  BY DEF Typed
<1>2. CASE Environment
  <2>1. \A id : IsReadable(id) => \E e \in readable' : e.id = id
    BY <1>1, <1>2, CaptureKeeps, FinishKeeps, TickKeeps DEF Environment
  <2>2. UNCHANGED <<refs, scan, scanRefs, results, lost>>
    BY <1>2 DEF Environment, viewVars, searchVars
  <2> QED
    BY <2>1, <2>2, SearchSame
<1>3. CASE Loss
  <2>1. lost' = Searching /\ scan' = scan /\ results' = results
    BY <1>3 DEF Loss, Lose, searchVars, Searching
  <2> QED
    BY <2>1 DEF SearchInv, Searching
<1>4. CASE Reload
  <2>1. refs' = LoadIndex /\ UNCHANGED <<readable, scan, scanRefs, results, lost>>
    BY <1>4 DEF Reload, TakeIndex, logVars, searchVars
  <2>2. SUFFICES ASSUME Searching, ~lost
                 PROVE  SearchInv'
    BY <2>1 DEF SearchInv, Searching
  <2>3. Extends(LoadIndex, refs)
    BY <2>2, ReloadExtends DEF SearchInv
  <2>4. \A i \in DOMAIN LoadIndex : IsReadable(LoadIndex[i].id)
    BY <1>1, LoadIndexIs
  <2> DEFINE index == LoadIndex
  <2>5. /\ refs' = index /\ \A i \in DOMAIN index : IsReadable(index[i].id)
        /\ \A i \in DOMAIN refs : i \in DOMAIN index /\ index[i].id = refs[i].id
    BY <2>1, <2>3, <2>4 DEF Extends
  <2> HIDE DEF index
  <2>6. \A i \in DOMAIN refs' : \E e \in readable' : e.id = refs'[i].id
    BY <2>1, <2>5 DEF IsReadable
  <2>7. scan = "run" => \A i \in DOMAIN scanRefs : i \in DOMAIN refs' /\ refs'[i].id = scanRefs[i].id
    BY <2>2, <2>5 DEF SearchInv, Extends
  <2>8. \A k \in DOMAIN results :
           results[k].index \in DOMAIN refs' /\ refs'[results[k].index].id = results[k].id
    BY <2>2, <2>5 DEF SearchInv
  <2> QED
    BY <2>1, <2>6, <2>7, <2>8 DEF SearchInv, Extends, IsReadable
<1>5. CASE Move
  <2>1. UNCHANGED <<readable, refs, scan, scanRefs, results, lost>>
    BY <1>5 DEF Move, logVars, searchVars
  <2> QED
    BY <2>1, SearchSame DEF IsReadable
<1>6. CASE Dialog
  <2>1. UNCHANGED <<readable, refs>>
    BY <1>6 DEF Dialog, logVars
  <2>2. UNCHANGED <<scan, scanRefs, results, lost>> => SearchInv'
    BY <2>1, SearchSame DEF IsReadable
  <2>3. ASSUME NEW page \in {"jump", "search"}, Prompt(page) PROVE SearchInv'
    BY <2>2, <2>3 DEF Prompt, searchVars
  <2>4. ASSUME NEW page \in Pages, Cancel(page) PROVE SearchInv'
    <3>1. CASE page = "results"
      <4>1. results' = <<>> /\ scan' = scan /\ focus = page /\ Close(page)
        BY <2>4, <3>1 DEF Cancel, ForgetResults
      <4>2. scan # "run"
        BY <3>1, <4>1, CloseIs
      <4> QED
        BY <4>1, <4>2, SearchEnds
    <3>2. CASE page # "results"
      BY <2>2, <2>4, <3>2 DEF Cancel
    <3> QED
      BY <3>1, <3>2
  <2>5. ASSUME NEW t \in 0 .. MaxTime, Jump(t) PROVE SearchInv'
    BY <2>2, <2>5 DEF Jump, searchVars
  <2>6. CASE StartSearch
    <3>1. CASE refs = <<>>
      BY <2>2, <2>6, <3>1 DEF StartSearch, searchVars
    <3>2. CASE refs # <<>>
      <4>1. /\ lost' = \E i \in DOMAIN refs : ~IsReadable(refs[i].id)
            /\ scan' = "run" /\ scanRefs' = refs /\ results' = <<>> /\ refs' = refs /\ readable' = readable
        BY <2>1, <2>6, <3>2 DEF StartSearch
      <4>2. ~lost' => \A i \in DOMAIN refs' : \E e \in readable' : e.id = refs'[i].id
        BY <4>1 DEF IsReadable
      <4>3. \A i \in DOMAIN scanRefs' : i \in DOMAIN refs' /\ refs'[i].id = scanRefs'[i].id
        BY <4>1
      <4>4. DOMAIN results' = {}
        BY <4>1
      <4> QED
        BY <4>2, <4>3, <4>4 DEF SearchInv, Extends, IsReadable
    <3> QED
      BY <3>1, <3>2
  <2>7. CASE Scan
    <3>1. /\ scan = "run" /\ scanned < Len(scanRefs) /\ scanned' = scanned + 1
          /\ UNCHANGED <<scan, scanRefs, lost>>
          /\ \/ results' = Append(results, [index |-> scanned', id |-> scanRefs[scanned'].id])
             \/ results' = results
      BY <2>7 DEF Scan
    <3>2. CASE results' = results
      BY <2>2, <3>1, <3>2
    <3>3. CASE lost
      BY <3>1, <3>3 DEF SearchInv
    <3>4. CASE ~lost /\ results' = Append(results, [index |-> scanned', id |-> scanRefs[scanned'].id])
      <4> DEFINE new == [index |-> scanned', id |-> scanRefs[scanned'].id]
      <4>1. /\ \A i \in DOMAIN refs : IsReadable(refs[i].id)
            /\ Extends(refs, scanRefs)
            /\ \A k \in DOMAIN results :
                  results[k].index \in DOMAIN refs /\ refs[results[k].index].id = results[k].id
        BY <3>1, <3>4 DEF SearchInv, Searching
      <4>2. scanned' \in DOMAIN scanRefs
        BY <1>1, <3>1 DEF TypeSearch
      <4>3. new.index \in DOMAIN refs /\ refs[new.index].id = new.id
        BY <4>1, <4>2 DEF Extends
      <4>4. results' = Append(results, new)
        BY <3>4
      <4>5. new \in Result
        <5>1. scanned' \in Ids
          BY <1>1, <4>2, ReplayAssumption DEF TypeSearch, Ids
        <5>2. scanRefs[scanned'].id \in Ids
          BY <1>1, <4>2, RefType DEF TypeSearch
        <5> QED
          BY <5>1, <5>2 DEF Result
      <4> HIDE DEF new
      <4>6. \A k \in DOMAIN results' : results'[k] = new \/ (k \in DOMAIN results /\ results'[k] = results[k])
        BY <1>1, <4>4, <4>5 DEF TypeSearch
      <4>7. \A k \in DOMAIN results' :
               results'[k].index \in DOMAIN refs /\ refs[results'[k].index].id = results'[k].id
        BY <4>1, <4>3, <4>6
      <4> QED
        BY <2>1, <3>1, <4>1, <4>7 DEF SearchInv, Extends, IsReadable
    <3> QED
      BY <3>1, <3>2, <3>3, <3>4
  <2>8. CASE ShowResults
    <3>1. scan' = "idle" /\ results' = results
      BY <2>8 DEF ShowResults
    <3>2. CASE results = <<>>
      BY <3>1, <3>2, SearchEnds
    <3>3. CASE results # <<>>
      <4>1. lost' = lost
        BY <2>8, <3>3 DEF ShowResults
      <4> QED
        BY <2>1, <3>1, <3>3, <4>1 DEF SearchInv, Searching, IsReadable
    <3> QED
      BY <3>2, <3>3
  <2>9. ASSUME NEW k \in Ids, JumpToResult(k) PROVE SearchInv'
    <3>1. results' = <<>> /\ scan' = scan /\ focus = "results" /\ Close("results") /\ "results" \in Pages
      BY <2>9 DEF JumpToResult, ForgetResults, Pages
    <3>2. scan # "run"
      BY <3>1, CloseIs
    <3> QED
      BY <3>1, <3>2, SearchEnds
  <2> QED
    BY <1>6, <2>3, <2>4, <2>5, <2>6, <2>7, <2>8, <2>9 DEF Dialog
<1> QED
  BY <1>2, <1>3, <1>4, <1>5, <1>6

-----------------------------------------------------------------------------
(* The theorems                                                             *)

LEMMA ReplayInit == Init => ReplayInv
<1> SUFFICES ASSUME Init PROVE ReplayInv
  OBVIOUS
<1>1. /\ now = 0 /\ readable = {} /\ made = 0 /\ rows \in Contents
      /\ refs = <<>> /\ currentIndex = 0 /\ shown = 0
      /\ topDirection = Incoming /\ skipEmpty = TRUE /\ followLatest = FALSE
      /\ ui = "start" /\ target = 0
      /\ pages = <<>> /\ focus = "main"
      /\ scan = "idle" /\ scanRefs = <<>> /\ scanned = 0 /\ results = <<>>
      /\ astray = FALSE /\ lost = FALSE
  BY DEF Init, Log!LogInit
<1>2. /\ <<>> \in Seq(Ref) /\ <<>> \in Seq(Result) /\ Len(<<>>) = 0 /\ DOMAIN <<>> = {}
      /\ 0 \in 0 .. MaxRecords /\ 0 \in 0 .. MaxTime /\ 0 <= MaxRecords /\ 0 \in 0 .. 0
  BY ReplayAssumption
<1>3. TypeLog
  BY <1>1, <1>2 DEF TypeLog
<1>4. TypeView
  BY <1>1, <1>2 DEF TypeView, Dirs
<1>5. TypeThread /\ TypeSearch
  BY <1>1, <1>2 DEF TypeThread, TypeSearch
<1>6. LogInv /\ IndexInv /\ HeaderNamesRecord
  BY <1>1, <1>2 DEF LogInv, IndexInv, Sorted, Faithful, HeaderNamesRecord
<1>7. SearchInv /\ PagesInv
  BY <1>1 DEF SearchInv, Searching, PagesInv
<1> QED
  BY <1>3, <1>4, <1>5, <1>6, <1>7 DEF ReplayInv

LEMMA ReplayStep == ReplayInv /\ [Next]_vars => ReplayInv'
<1> SUFFICES ASSUME ReplayInv, [Next]_vars PROVE ReplayInv'
  OBVIOUS
<1>1. Typed /\ LogInv /\ IndexInv /\ SearchInv /\ PagesInv /\ HeaderNamesRecord /\ Sorted(refs)
  BY DEF ReplayInv, Typed, IndexInv
<1>2. CASE Next
  <2>1. Environment \/ Loss \/ Reload \/ Move \/ Dialog
    BY <1>1, <1>2, StepsAre
  <2>2. TypeLog' /\ LogInv' /\ IndexInv'
    BY <1>1, <2>1, LogKeeps
  <2>3. ViewKept
    BY <1>1, <2>1, ViewKeeps
  <2>4. TypeSearch'
    BY <1>1, <2>1, SearchTypes
  <2>5. SearchInv'
    BY <1>1, <2>1, SearchKeeps
  <2>6. PagesInv'
    BY <1>1, <2>1, PagesKeep
  <2> QED
    BY <2>2, <2>3, <2>4, <2>5, <2>6 DEF ViewKept, ReplayInv
<1>3. CASE UNCHANGED vars
  <2>1. /\ UNCHANGED <<now, readable, made, rows, refs, currentIndex, shown, topDirection, skipEmpty>>
        /\ UNCHANGED <<followLatest, ui, target, pages, focus, scan, scanRefs, scanned, results, astray, lost>>
    BY <1>3 DEF vars, logVars, viewVars, threadVars, pageVars, searchVars
  <2>2. TypeLog' /\ TypeView' /\ TypeThread' /\ TypeSearch'
    BY <1>1, <2>1 DEF Typed, TypeLog, TypeView, TypeThread, TypeSearch
  <2>3. LogInv' /\ IndexInv' /\ HeaderNamesRecord'
    BY <1>1, <2>1 DEF LogInv, IndexInv, Sorted, Faithful, InRange, HeaderNamesRecord
  <2>4. SearchInv' /\ PagesInv'
    BY <1>1, <2>1 DEF SearchInv, Searching, Extends, IsReadable, PagesInv
  <2> QED
    BY <2>2, <2>3, <2>4 DEF ReplayInv
<1> QED
  BY <1>2, <1>3

LEMMA ReplayHolds == Spec => []ReplayInv
  BY ReplayInit, ReplayStep, PTL DEF Spec

\* internal/tui/history_app.go: among the rest, a reload under way has a position
\* of its index to read, and the index has no more entries than there are snapshots.
THEOREM ReplayTypes == Spec => []TypeOK
<1>1. ReplayInv => TypeOK
  <2> SUFFICES ASSUME ReplayInv PROVE TypeOK
    OBVIOUS
  <2>1. <<"jump">> \in Seq(Pages) /\ <<"search">> \in Seq(Pages) /\ <<"results">> \in Seq(Pages)
        /\ <<"jump", "results">> \in Seq(Pages) /\ <<>> \in Seq(Pages)
    BY DEF Pages
  <2>2. pages \in Seq(Pages)
    BY <2>1 DEF ReplayInv, PagesInv
  <2>3. focus \in Pages \cup {"main"}
    <3>1. ToSet(pages) \subseteq Pages
      BY <2>2 DEF ToSet
    <3> QED
      BY <3>1 DEF ReplayInv, PagesInv
  <2>4. TypeLog /\ TypeView /\ TypeThread /\ TypeSearch
    BY DEF ReplayInv
  <2> QED
    BY <2>2, <2>3, <2>4 DEF TypeLog, TypeView, TypeThread, TypeSearch, TypeOK
<1> QED
  BY <1>1, ReplayHolds, PTL

\* The header of the replay view names the record under it, through reloads,
\* failed reads, jumps and pruning (loadSnapshotAt, reloadIndex).
THEOREM HeaderTheorem == Spec => []HeaderNamesRecord
<1>1. ReplayInv => HeaderNamesRecord
  BY DEF ReplayInv
<1> QED
  BY <1>1, ReplayHolds, PTL

\* What a key leaves in the header: the record at the position it asks for, or
\* the one that was there.
LEMMA ReadsAt ==
    ASSUME TypeView, refs # <<>>, NEW i \in Int, LoadSnapshotAt(i), shown' # shown
    PROVE  Clamp(i) \in DOMAIN refs /\ shown' = refs[Clamp(i)].id
  BY ClampIs DEF TypeView, LoadSnapshotAt

LEMMA StepBack ==
    ASSUME ReplayInv, NavigatePrev, ~astray, shown # 0
    PROVE  ~(shown' > shown)
<1> SUFFICES ASSUME shown' > shown PROVE FALSE
  OBVIOUS
<1>1. TypeView /\ refs \in Seq(Ref) /\ Sorted(refs)
  BY DEF ReplayInv, TypeView, IndexInv
<1>2. currentIndex \in DOMAIN refs /\ refs[currentIndex].id = shown
  BY DEF ReplayInv, HeaderNamesRecord
<1>3. currentIndex \in Nat /\ currentIndex - 1 \in Int /\ DOMAIN refs = 1 .. Len(refs)
      /\ shown \in Nat /\ \A i \in DOMAIN refs : refs[i].id \in Nat
  BY <1>1, <1>2, RefType
<1>4. shown' # shown
  BY <1>3
<1>5. \A i \in DOMAIN refs : i <= currentIndex => ~(refs[i].id > shown)
  BY <1>1, <1>2, <1>3 DEF Sorted
<1>6. ASSUME NEW i \in Int, i <= currentIndex, MoveTo(i) PROVE FALSE
  <2>1. refs # <<>> /\ LoadSnapshotAt(i)
    BY <1>6 DEF MoveTo, NavigatePrev
  <2>2. Clamp(i) \in DOMAIN refs /\ shown' = refs[Clamp(i)].id
    BY <1>1, <1>4, <2>1, ReadsAt
  <2>3. Clamp(i) <= currentIndex
    BY <1>2, <1>3, <1>6, <2>1 DEF Clamp
  <2> QED
    BY <1>5, <2>2, <2>3
<1>7. FindPrev(refs, currentIndex - 1, 0) \in Int /\ FindPrev(refs, currentIndex - 1, 0) <= currentIndex
  <2>1. ActiveIn(refs, topDirection) \subseteq 1 .. Len(refs)
    BY <1>1, ActiveType
  <2>2. \/ /\ FindPrev(refs, currentIndex - 1, 0) \in ActiveIn(refs, topDirection)
           /\ FindPrev(refs, currentIndex - 1, 0) <= currentIndex - 1
        \/ FindPrev(refs, currentIndex - 1, 0) = 0
    BY <1>1, <1>3, FindPrevIs
  <2> QED
    BY <1>3, <2>1, <2>2
<1>8. currentIndex - 1 <= currentIndex
  BY <1>3
<1>9. \/ MoveTo(currentIndex - 1) \/ MoveTo(FindPrev(refs, currentIndex - 1, 0)) \/ Stay
  BY DEF NavigatePrev
<1>10. ~Stay
  BY <1>4 DEF Stay
<1> QED
  BY <1>3, <1>6, <1>7, <1>8, <1>9, <1>10

LEMMA StepOn ==
    ASSUME ReplayInv, NavigateNext, ~astray, shown # 0
    PROVE  ~(shown' < shown)
<1> SUFFICES ASSUME shown' < shown PROVE FALSE
  OBVIOUS
<1>1. TypeView /\ refs \in Seq(Ref) /\ Sorted(refs)
  BY DEF ReplayInv, TypeView, IndexInv
<1>2. currentIndex \in DOMAIN refs /\ refs[currentIndex].id = shown
  BY DEF ReplayInv, HeaderNamesRecord
<1>3. currentIndex \in Nat /\ currentIndex + 1 \in Int /\ DOMAIN refs = 1 .. Len(refs)
      /\ shown \in Nat /\ \A i \in DOMAIN refs : refs[i].id \in Nat
  BY <1>1, <1>2, RefType
<1>4. shown' # shown
  BY <1>3
<1>5. \A i \in DOMAIN refs : i >= currentIndex => ~(refs[i].id < shown)
  BY <1>1, <1>2, <1>3 DEF Sorted
<1>6. ASSUME NEW i \in Int, i >= currentIndex, MoveTo(i) PROVE FALSE
  <2>1. refs # <<>> /\ LoadSnapshotAt(i)
    BY <1>6 DEF MoveTo, NavigateNext
  <2>2. Clamp(i) \in DOMAIN refs /\ shown' = refs[Clamp(i)].id
    BY <1>1, <1>4, <2>1, ReadsAt
  <2>3. Clamp(i) >= currentIndex
    BY <1>2, <1>3, <1>6, <2>1 DEF Clamp
  <2> QED
    BY <1>5, <2>2, <2>3
<1>7. FindNext(refs, currentIndex + 1, 0) # 0 =>
         FindNext(refs, currentIndex + 1, 0) \in Int /\ FindNext(refs, currentIndex + 1, 0) >= currentIndex
  <2>1. ActiveIn(refs, topDirection) \subseteq 1 .. Len(refs)
    BY <1>1, ActiveType
  <2>2. \/ /\ FindNext(refs, currentIndex + 1, 0) \in ActiveIn(refs, topDirection)
           /\ FindNext(refs, currentIndex + 1, 0) >= currentIndex + 1
        \/ FindNext(refs, currentIndex + 1, 0) = 0
    BY <1>1, <1>3, FindNextIs
  <2> QED
    BY <1>3, <2>1, <2>2
<1>8. currentIndex + 1 >= currentIndex
  BY <1>3
<1>9. \/ MoveTo(currentIndex + 1)
      \/ FindNext(refs, currentIndex + 1, 0) # 0 /\ MoveTo(FindNext(refs, currentIndex + 1, 0))
      \/ Stay
  BY DEF NavigateNext
<1>10. ~Stay
  BY <1>4 DEF Stay
<1> QED
  BY <1>3, <1>6, <1>7, <1>8, <1>9, <1>10

\* With skip-empty on, the keys go to active positions.
LEMMA KeysFindRows ==
    ASSUME ReplayInv, skipEmpty, shown' # shown, Active # {}, NavigationKey
    PROVE  topDirection \in rows[shown']
<1>1. TypeView /\ refs \in Seq(Ref) /\ Sorted(refs) /\ skipEmpty = TRUE
  BY DEF ReplayInv, TypeView, IndexInv
<1>2. Active = ActiveIn(refs, topDirection) /\ Active \subseteq DOMAIN refs /\ DOMAIN refs \subseteq Int
      /\ \A i \in Active : topDirection \in rows[refs[i].id]
  BY <1>1, ActiveType, Bounds DEF Active, ActiveIn
<1>3. ASSUME NEW i \in Active, refs # <<>>, LoadSnapshotAt(i) PROVE topDirection \in rows[shown']
  <2>1. i \in DOMAIN refs /\ i \in Int
    BY <1>2
  <2>2. Clamp(i) = i
    BY <1>1, <1>3, <2>1, ClampIs
  <2>3. shown' = refs[Clamp(i)].id
    BY <1>1, <1>3, <2>1, ReadsAt
  <2> QED
    BY <1>2, <2>2, <2>3
<1>4. currentIndex - 1 \in Int /\ currentIndex + 1 \in Int /\ 0 \notin Active /\ currentIndex \in Nat
  BY <1>1, <1>2, ReplayAssumption DEF TypeView
<1>5. CASE NavigatePrev
  <2>1. \/ FindPrev(refs, currentIndex - 1, 0) # 0 /\ MoveTo(FindPrev(refs, currentIndex - 1, 0))
        \/ Stay
    BY <1>1, <1>5 DEF NavigatePrev
  <2>2. FindPrev(refs, currentIndex - 1, 0) # 0 => FindPrev(refs, currentIndex - 1, 0) \in Active
    BY <1>1, <1>2, <1>4, FindPrevIs
  <2> QED
    BY <1>3, <1>5, <2>1, <2>2 DEF NavigatePrev, MoveTo, Stay
<1>6. CASE NavigateNext
  <2>1. \/ FindNext(refs, currentIndex + 1, 0) # 0 /\ MoveTo(FindNext(refs, currentIndex + 1, 0))
        \/ Stay
    BY <1>1, <1>6 DEF NavigateNext
  <2>2. FindNext(refs, currentIndex + 1, 0) # 0 => FindNext(refs, currentIndex + 1, 0) \in Active
    BY <1>1, <1>2, <1>4, FindNextIs
  <2> QED
    BY <1>3, <1>6, <2>1, <2>2 DEF NavigateNext, MoveTo, Stay
<1>7. CASE NavigateOldest
  <2>1. refs # <<>> /\ LoadSnapshotAt(AdjustStart(refs))
    BY <1>7 DEF NavigateOldest, MoveTo
  <2>2. AdjustStart(refs) \in Active
    BY <1>1, <1>2, <2>1, AdjustStartIs
  <2> QED
    BY <1>3, <2>1, <2>2
<1>8. CASE NavigateLatest
  <2>1. refs # <<>> /\ LoadSnapshotAt(AdjustLatest(refs))
    BY <1>8 DEF NavigateLatest, MoveTo
  <2>2. AdjustLatest(refs) \in Active
    BY <1>1, <1>2, <2>1, AdjustLatestIs
  <2> QED
    BY <1>3, <2>1, <2>2
<1>9. ASSUME NEW t \in 0 .. MaxTime, Jump(t) PROVE topDirection \in rows[shown']
  <2>1. refs # <<>> /\ LoadSnapshotAt(FindNearest(refs, topDirection, Closest(t)))
    BY <1>1, <1>9 DEF Jump
  <2>2. Closest(t) \in DOMAIN refs /\ Closest(t) \in Nat
    BY <1>1, <2>1, ClosestIs
  <2>3. FindNearest(refs, topDirection, Closest(t)) \in Active
    BY <1>1, <1>2, <2>2, FindNearestIs
  <2> QED
    BY <1>3, <2>1, <2>3
<1> QED
  BY <1>5, <1>6, <1>7, <1>8, <1>9 DEF NavigationKey

\* '[' never shows a later snapshot and ']' never an earlier one, and with
\* skip-empty no key shows an empty one if it can be helped (navigatePrev,
\* navigateNext and the adjust functions of history_app.go, replay/navigation.go).
THEOREM StepsTheorem == Spec => StepsGoOneWay
<1> DEFINE Holds ==
             /\ ~astray /\ shown # 0 =>
                   /\ shown' > shown => ~NavigatePrev
                   /\ shown' < shown => ~NavigateNext
             /\ skipEmpty /\ shown' # shown /\ Active # {} /\ NavigationKey
                   => topDirection \in rows[shown']
<1>1. ReplayInv => Holds
  BY StepBack, StepOn, KeysFindRows
<1>2. Spec => [][Holds]_vars
  BY <1>1, ReplayHolds, PTL
<1> QED
  BY <1>2 DEF StepsGoOneWay

\* A jump to a time shows a snapshot than which none is closer; a search result
\* leads to the snapshot that matched, although the index may have been reloaded
\* since and the result is but a position in it (replay/search.go,
\* jumpToTimelineSearchResult).
THEOREM JumpTheorem == Spec => JumpHitsTarget
<1> DEFINE Holds ==
       /\ ~skipEmpty /\ currentIndex' # currentIndex =>
            \A t \in 0 .. MaxTime : Jump(t) =>
              \A i \in DOMAIN refs : Distance(refs[currentIndex'].at, t) <= Distance(refs[i].at, t)
       /\ \A k \in Ids : JumpToResult(k) /\ ~lost => shown' = results[k].id
<1>1. ASSUME ReplayInv PROVE Holds
  <2>1. TypeView /\ refs \in Seq(Ref) /\ Sorted(refs) /\ TypeSearch
    BY <1>1 DEF ReplayInv, TypeView, IndexInv
  <2>2. ASSUME ~skipEmpty, currentIndex' # currentIndex, NEW t \in 0 .. MaxTime, Jump(t)
        PROVE  \A i \in DOMAIN refs : Distance(refs[currentIndex'].at, t) <= Distance(refs[i].at, t)
    <3>1. refs # <<>> /\ LoadSnapshotAt(Closest(t))
      BY <2>2 DEF Jump
    <3>2. t \in Nat
      BY ReplayAssumption
    <3>3. /\ Closest(t) \in DOMAIN refs
          /\ \A i \in DOMAIN refs : Distance(refs[Closest(t)].at, t) <= Distance(refs[i].at, t)
      BY <2>1, <3>1, <3>2, ClosestIs
    <3>4. Clamp(Closest(t)) = Closest(t)
      <4>1. Closest(t) \in Int
        BY <2>1, <3>3, Bounds
      <4> QED
        BY <2>1, <3>1, <3>3, <4>1, ClampIs
    <3>5. currentIndex' = Clamp(Closest(t))
      BY <2>2, <3>1 DEF LoadSnapshotAt
    <3> QED
      BY <3>3, <3>4, <3>5
  <2>3. ASSUME NEW k \in Ids, JumpToResult(k), ~lost
        PROVE  shown' = results[k].id
    <3>1. k \in DOMAIN results
      BY <2>3 DEF JumpToResult
    <3>2. /\ \A i \in DOMAIN refs : IsReadable(refs[i].id)
          /\ results[k].index \in DOMAIN refs /\ refs[results[k].index].id = results[k].id
      BY <1>1, <2>3, <3>1 DEF ReplayInv, SearchInv, Searching
    <3>3. LoadSnapshotAt(results[k].index)
      BY <2>3, <3>2 DEF JumpToResult
    <3>4. Clamp(results[k].index) = results[k].index
      <4>1. results[k].index \in Int /\ refs # <<>>
        BY <2>1, <3>2, Bounds
      <4> QED
        BY <2>1, <3>2, <4>1, ClampIs
    <3> QED
      BY <3>2, <3>3, <3>4 DEF LoadSnapshotAt
  <2> QED
    BY <2>2, <2>3
<1>2. Spec => [][Holds]_vars
  BY <1>1, ReplayHolds, PTL
<1> QED
  BY <1>2 DEF JumpHitsTarget

=============================================================================
