-------------------------- MODULE Bandwidth_proofs --------------------------
(***************************************************************************)
(* Proofs about Bandwidth, for any hosts, caps and number of captures.     *)
(***************************************************************************)
EXTENDS Bandwidth, SumsAndOrders, TLAPS

(* The strengthening *)

FlowId(c) == <<c.orig, c.reply>>
ZeroDue == [c \in Conns |-> Zero]

Table(conns) ==
    IsFiniteSet(DOMAIN conns) /\ DOMAIN conns \subseteq Tuples /\ conns \in [DOMAIN conns -> Figures]

TypeRows ==
    /\ Table(rows)
    /\ \A t \in DOMAIN rows : rows[t].source = "none" => rows[t].tx = 0 /\ rows[t].rx = 0

\* What a tracker remembers of a counter, and how the counter has moved since:
\* from there, or from zero if the connection was replaced.
Follows(source, c, d, was) ==
    IF c \in since[source].known THEN bytes[c][d] = was + since[source].moved[c][d]
    ELSE bytes[c][d] <= since[source].moved[c][d]

FlowsFollowed ==
    /\ \A c \in since["conntrack"].known : FlowId(c) \in DOMAIN tracker.prev
    /\ \A c \in Conns : FlowId(c) \in DOMAIN tracker.prev =>
          /\ c.tracked
          /\ \A d \in Ends :
                IF world.accounting THEN Follows("conntrack", c, d, tracker.prev[FlowId(c)][d])
                ELSE tracker.prev[FlowId(c)][d] = 0

SocketsFollowed ==
    /\ \A c \in since["ss"].known : DOMAIN c.sockets \subseteq DOMAIN ssTracker.prev
    /\ \A c \in Conns : \A t \in DOMAIN c.sockets : t \in DOMAIN ssTracker.prev =>
          /\ Follows("ss", c, Direction(c, t), ssTracker.prev[t].orig)
          /\ Follows("ss", c, Opposite(Direction(c, t)), ssTracker.prev[t].reply)

\* A tracker that remembers anything has taken a sample, the socket tracker
\* none yet in a capture that has not come to it.
TrackersInv ==
    /\ DOMAIN tracker.prev # {} => tracker.prevAt > 0
    /\ DOMAIN ssTracker.prev # {} => ssTracker.prevAt > 0
    /\ tracker.prevAt <= now /\ ssTracker.prevAt <= now
    /\ pc # "idle" => now > 0
    /\ pc \in {"flows", "counters"} => ssTracker.prevAt < now

\* What rows and histories are at each step of a capture.
CaptureInv ==
    /\ pc = "idle" => DOMAIN rows = {}
    /\ pc = "flows" =>
          \A t \in DOMAIN rows : rows[t].source = "none" /\ \E c \in Conns : t \in DOMAIN c.sockets
    /\ pc = "counters" => \A t \in DOMAIN rows : rows[t].source # "ss"
    /\ pc = "counters" /\ ~world.accounting =>
          \A t \in DOMAIN rows : rows[t].tx = 0 /\ rows[t].rx = 0
    /\ record.written => pc = "append" /\ record = Record(rows, bwSample)
    /\ pc \in {"idle", "flows"} => since["conntrack"].measured = {} /\ since["conntrack"].due = ZeroDue
    /\ pc # "append" => since["ss"].measured = {} /\ since["ss"].due = ZeroDue

\* The first half of LivingTrafficIsExact holds from the flows on.
FlowsExact ==
    \A t \in DOMAIN rows : \A x \in Candidates(t) :
        Candidates(t) = {x} /\ world.accounting /\ Measurable("conntrack", t, x)
            => ShownExactly("conntrack", t, x)

BandwidthInv ==
    /\ TypeOK /\ TypeRows /\ FlowsFollowed /\ SocketsFollowed /\ TrackersInv /\ CaptureInv
    /\ NothingInvented /\ FlowsExact /\ LivingTrafficIsExact /\ OneRowPerConnection

-----------------------------------------------------------------------------
(* The groups of a record                                                   *)

\* The rows that fall into one group with row t, and what a set of rows moved.
Together(conns, T, side, t) ==
    {u \in T : AggregateKey(conns, u, side) = AggregateKey(conns, t, side)}

MovedBy(conns, S) == SumFunction([t \in S |-> conns[t].tx + conns[t].rx])


LEMMA GroupsAre ==
    ASSUME NEW conns, Table(conns), NEW T \in SUBSET DOMAIN conns, NEW side,
           NEW G, G = Aggregated(conns, T, side)
    PROVE  /\ IsFiniteSet(DOMAIN G) /\ DOMAIN G \subseteq Nat \X Nat \X Nat
           /\ \A k \in DOMAIN G : G[k].count \in Nat \ {0} /\ G[k].tx \in Nat /\ G[k].rx \in Nat
           /\ \A t \in T : /\ AggregateKey(conns, t, side) \in DOMAIN G
                           /\ MovedBy(conns, Together(conns, T, side, t))
                                = TotalBytes(G[AggregateKey(conns, t, side)])
           /\ GroupTotals(G).count = Cardinality(T)
           /\ GroupTotals(G).total = MovedBy(conns, T)
<1> DEFINE key == [t \in T |-> AggregateKey(conns, t, side)]
           K == {AggregateKey(conns, t, side) : t \in T}
           group(k) == {t \in T : AggregateKey(conns, t, side) = k}
           tx == [t \in T |-> conns[t].tx]
           rx == [t \in T |-> conns[t].rx]
           both == [t \in T |-> conns[t].tx + conns[t].rx]
           part(f, k) == [t \in group(k) |-> f[t]]
           count == [k \in K |-> Cardinality(group(k))]
           txs == [k \in K |-> SumFunction(part(tx, k))]
           rxs == [k \in K |-> SumFunction(part(rx, k))]
<1>1. ASSUME NEW t \in T
      PROVE  /\ conns[t].tx \in Nat /\ conns[t].rx \in Nat
             /\ AggregateKey(conns, t, side) \in Nat \X Nat \X Nat
  BY DEF Table, Figures, Tuples, AggregateKey
<1>2. IsFiniteSet(T)
  BY FS_Subset DEF Table
<1>3. tx \in [T -> Nat] /\ rx \in [T -> Nat] /\ both \in [T -> Nat]
  BY <1>1
<1>4. IsFiniteSet(K) /\ key \in [T -> K]
  <2>1. key \in Surjection(T, K)
    BY DEF Surjection
  <2> HIDE DEF key, K
  <2> QED
    BY <1>2, <2>1, FS_Surjection DEF Surjection
<1>5. DOMAIN G = K /\ \A k \in K : G[k].count = count[k] /\ G[k].tx = txs[k] /\ G[k].rx = rxs[k]
  <2>1. \A k \in K : part(tx, k) = [t \in group(k) |-> conns[t].tx]
                  /\ part(rx, k) = [t \in group(k) |-> conns[t].rx]
    OBVIOUS
  <2>2. G = [k \in K |-> [count |-> Cardinality(group(k)),
                          tx |-> SumFunction([t \in group(k) |-> conns[t].tx]),
                          rx |-> SumFunction([t \in group(k) |-> conns[t].rx])]]
    BY Zenon DEF Aggregated
  <2> HIDE DEF K, group, part
  <2>3. DOMAIN G = K
    BY <2>2
  <2>4. ASSUME NEW k \in K
        PROVE  G[k].count = count[k] /\ G[k].tx = txs[k] /\ G[k].rx = rxs[k]
    <3>1. /\ G[k].count = Cardinality(group(k))
          /\ G[k].tx = SumFunction([t \in group(k) |-> conns[t].tx])
          /\ G[k].rx = SumFunction([t \in group(k) |-> conns[t].rx])
      BY <2>2
    <3> QED
      BY <2>1, <3>1
  <2> QED
    BY <2>3, <2>4
<1>6. ASSUME NEW k \in K
      PROVE  /\ IsFiniteSet(group(k)) /\ group(k) = {t \in T : key[t] = k} /\ group(k) \in SUBSET T
             /\ part(tx, k) \in [group(k) -> Nat] /\ part(rx, k) \in [group(k) -> Nat]
  <2>1. group(k) \in SUBSET T /\ group(k) = {t \in T : key[t] = k}
    OBVIOUS
  <2> QED
    BY <1>2, <1>3, <2>1, FS_Subset
<1>7. ASSUME NEW k \in K PROVE count[k] \in Nat \ {0} /\ txs[k] \in Nat /\ rxs[k] \in Nat
  <2>1. PICK t \in T : t \in group(k)
    OBVIOUS
  <2>2. Cardinality(group(k)) \in Nat /\ Cardinality(group(k)) # 0
    <3>1. IsFiniteSet(group(k)) /\ group(k) # {}
      BY <1>6, <2>1
    <3> HIDE DEF group
    <3> QED
      BY <3>1, FS_CardinalityType, FS_EmptySet
  <2>3. SumFunction(part(tx, k)) \in Nat /\ SumFunction(part(rx, k)) \in Nat
    <3> HIDE DEF group, part
    <3> QED
      BY <1>6, SumType
  <2> QED
    BY <2>2, <2>3
<1>8. ASSUME NEW t \in T
      PROVE  key[t] \in K /\ key[t] = AggregateKey(conns, t, side)
  OBVIOUS
<1> HIDE DEF key, K, count, txs, rxs
<1>9. count \in [K -> Nat] /\ txs \in [K -> Nat] /\ rxs \in [K -> Nat]
  BY <1>7 DEF count, txs, rxs
<1>10. SumFunction(count) = Cardinality(T)
  <2>1. \A k \in K : count[k] = Cardinality({t \in T : key[t] = k})
    BY <1>6 DEF count
  <2> QED
    BY <1>2, <1>4, <1>9, <2>1, PartsAddUp
<1>11. SumFunction(txs) = SumFunction(tx) /\ SumFunction(rxs) = SumFunction(rx)
  <2> DEFINE txParts == [k \in K |-> part(tx, k)]
             rxParts == [k \in K |-> part(rx, k)]
  <2>1. ASSUME NEW k \in K
        PROVE  /\ txParts[k] \in [{u \in T : key[u] = k} -> Nat]
               /\ rxParts[k] \in [{u \in T : key[u] = k} -> Nat]
    BY <1>6
  <2>2. ASSUME NEW k \in K, NEW t \in T, key[t] = k
        PROVE  txParts[k][t] = tx[t] /\ rxParts[k][t] = rx[t]
    <3>1. t \in group(k)
      BY <1>6, <2>2
    <3> QED
      BY <3>1
  <2>3. ASSUME NEW k \in K
        PROVE  txs[k] = SumFunction(txParts[k]) /\ rxs[k] = SumFunction(rxParts[k])
    BY DEF txs, rxs
  <2>4. /\ IsFiniteSet(T) /\ IsFiniteSet(K) /\ key \in [T -> K]
        /\ tx \in [T -> Nat] /\ rx \in [T -> Nat] /\ txs \in [K -> Nat] /\ rxs \in [K -> Nat]
    BY <1>2, <1>3, <1>4, <1>9
  <2> HIDE DEF tx, rx, txParts, rxParts
  <2>5. \A k \in K : SortedAt(T, tx, key, txs, txParts, k)
    BY <2>1, <2>2, <2>3 DEF SortedAt
  <2>6. \A k \in K : SortedAt(T, rx, key, rxs, rxParts, k)
    BY <2>1, <2>2, <2>3 DEF SortedAt
  <2>7. Sorted(T, tx, K, key, txs, txParts)
    BY <2>4, <2>5 DEF Sorted
  <2>8. Sorted(T, rx, K, key, rxs, rxParts)
    BY <2>4, <2>6 DEF Sorted
  <2>9. SumFunction(txs) = SumFunction(tx)
    BY ONLY <2>7, SumOfParts
  <2>10. SumFunction(rxs) = SumFunction(rx)
    BY ONLY <2>8, SumOfParts
  <2> QED
    BY <2>9, <2>10
<1>12. GroupTotals(G).count = SumFunction(count)
  <2>1. [k \in DOMAIN G |-> G[k].count] = count
    BY <1>5, <1>9
  <2> QED
    BY <2>1 DEF GroupTotals
<1>13. GroupTotals(G).total = MovedBy(conns, T)
  <2> DEFINE totals == [k \in DOMAIN G |-> TotalBytes(G[k])]
  <2>1. totals \in [K -> Nat] /\ \A k \in K : totals[k] = txs[k] + rxs[k]
    BY <1>5, <1>7 DEF TotalBytes
  <2>2. SumFunction(totals) = SumFunction(txs) + SumFunction(rxs)
    <3>1. totals \in [K -> Nat]
      BY <2>1
    <3>2. \A k \in K : totals[k] = txs[k] + rxs[k]
      BY <2>1
    <3> HIDE DEF totals
    <3> QED
      <4>1. IsFiniteSet(K)
        BY <1>4
      <4>2. txs \in [K -> Nat] /\ rxs \in [K -> Nat]
        BY <1>9
      <4> HIDE DEF tx, rx, both
      <4> QED
        BY ONLY <3>1, <3>2, <4>1, <4>2, SumPlus
  <2>3. SumFunction(both) = SumFunction(tx) + SumFunction(rx)
    <3>1. \A t \in T : both[t] = tx[t] + rx[t]
      OBVIOUS
    <3> HIDE DEF both, tx, rx
    <3> QED
      BY <1>2, <1>3, <3>1, SumPlus
  <2>4. GroupTotals(G).total = SumFunction(totals) /\ MovedBy(conns, T) = SumFunction(both)
    BY DEF GroupTotals, MovedBy
  <2> QED
    BY <1>11, <2>2, <2>3, <2>4
<1>14. \A k \in K : k \in Nat \X Nat \X Nat
  BY <1>1 DEF K
<1>15. ASSUME NEW t \in T
       PROVE  MovedBy(conns, Together(conns, T, side, t)) = TotalBytes(G[AggregateKey(conns, t, side)])
  <2> DEFINE k == AggregateKey(conns, t, side)
             moved == [u \in group(k) |-> conns[u].tx + conns[u].rx]
  <2>1. k \in K /\ Together(conns, T, side, t) = group(k)
    BY <1>8 DEF Together
  <2>2. MovedBy(conns, Together(conns, T, side, t)) = SumFunction(moved)
    BY <2>1 DEF MovedBy
  <2>3. /\ moved \in [group(k) -> Nat]
        /\ \A u \in group(k) : moved[u] = part(tx, k)[u] + part(rx, k)[u]
    BY <1>1
  <2>4. TotalBytes(G[k]) = SumFunction(part(tx, k)) + SumFunction(part(rx, k))
    BY <1>5, <2>1 DEF TotalBytes, txs, rxs
  <2>5. /\ IsFiniteSet(group(k))
        /\ part(tx, k) \in [group(k) -> Nat] /\ part(rx, k) \in [group(k) -> Nat]
    BY <1>6, <2>1
  <2>6. SumFunction(moved) = SumFunction(part(tx, k)) + SumFunction(part(rx, k))
    <3> HIDE DEF k, moved, group, part, tx, rx
    <3> QED
      BY ONLY <2>3, <2>5, SumPlus
  <2> QED
    BY <2>2, <2>4, <2>6
<1> QED
  BY <1>4, <1>5, <1>7, <1>8, <1>10, <1>12, <1>13, <1>14, <1>15

LEMMA GroupsAreOrdered ==
    ASSUME NEW K, K \subseteq Nat \X Nat \X Nat, NEW G,
           \A k \in K : G[k].count \in Nat \ {0} /\ G[k].tx \in Nat /\ G[k].rx \in Nat
    PROVE  StrictTotalOrder(K, {e \in K \X K : SortsBefore(G, e[1], e[2])})
<1> DEFINE R == {e \in K \X K : SortsBefore(G, e[1], e[2])}
           bytes_(k) == TotalBytes(G[k])
<1>1. \A j, k \in K : <<j, k>> \in R <=> SortsBefore(G, j, k)
  OBVIOUS
<1>2. \A k \in K : /\ G[k].count \in Nat /\ bytes_(k) \in Nat
                   /\ k[1] \in Nat /\ k[2] \in Nat /\ k[3] \in Nat /\ k = <<k[1], k[2], k[3]>>
  BY DEF TotalBytes
<1>3. \A j, k \in K : SortsBefore(G, j, k) <=>
         \/ bytes_(j) > bytes_(k)
         \/ /\ bytes_(j) = bytes_(k)
            /\ \/ G[j].count > G[k].count
               \/ /\ G[j].count = G[k].count
                  /\ \/ j[1] < k[1]
                     \/ j[1] = k[1] /\ j[2] < k[2]
                     \/ j[1] = k[1] /\ j[2] = k[2] /\ j[3] < k[3]
  BY DEF SortsBefore
<1> HIDE DEF R, bytes_
<1>4. \A j \in K : <<j, j>> \notin R
  BY <1>1, <1>2, <1>3
<1>5. ASSUME NEW i \in K, NEW j \in K, NEW k \in K, <<i, j>> \in R, <<j, k>> \in R
      PROVE  <<i, k>> \in R
  BY <1>1, <1>2, <1>3, <1>5
<1>6. ASSUME NEW j \in K, NEW k \in K, j # k
      PROVE  <<j, k>> \in R \/ <<k, j>> \in R
  <2>1. j[1] # k[1] \/ j[2] # k[2] \/ j[3] # k[3]
    BY <1>2, <1>6
  <2> QED
    BY <1>1, <1>2, <1>3, <2>1
<1> QED
  BY <1>4, <1>5, <1>6 DEF R, StrictTotalOrder

LEMMA SideIs ==
    ASSUME NEW conns, Table(conns), NEW T \in SUBSET DOMAIN conns, NEW side,
           NEW A, A = AggregateConnectionsByDirection(conns, T, side)
    PROVE  /\ Groups(A)
           /\ IsFiniteSet(T) /\ Cardinality(DOMAIN A) \in Nat /\ Cardinality(DOMAIN A) <= TopLimit
           /\ GroupTotals(A).count \in Nat /\ GroupTotals(A).total \in Nat
           /\ GroupTotals(A).count <= Cardinality(T)
           /\ Cardinality(DOMAIN A) < TopLimit =>
                 /\ GroupTotals(A).count = Cardinality(T)
                 /\ GroupTotals(A).total = MovedBy(conns, T)
           /\ \A t \in T : AggregateKey(conns, t, side) \notin DOMAIN A =>
                 /\ Cardinality(DOMAIN A) = TopLimit
                 /\ \A k \in DOMAIN A : MovedBy(conns, Together(conns, T, side, t)) <= TotalBytes(A[k])
<1> DEFINE G == Aggregated(conns, T, side)
           K == DOMAIN G
           R == {e \in K \X K : SortsBefore(G, e[1], e[2])}
           first == {k \in K : Cardinality({j \in K : SortsBefore(G, j, k)}) < TopLimit}
<1>1. /\ IsFiniteSet(K) /\ K \subseteq Nat \X Nat \X Nat
      /\ \A k \in K : G[k].count \in Nat \ {0} /\ G[k].tx \in Nat /\ G[k].rx \in Nat
      /\ \A t \in T : /\ AggregateKey(conns, t, side) \in K
                      /\ MovedBy(conns, Together(conns, T, side, t))
                           = TotalBytes(G[AggregateKey(conns, t, side)])
      /\ GroupTotals(G).count = Cardinality(T)
      /\ GroupTotals(G).total = MovedBy(conns, T)
  <2>1. G = Aggregated(conns, T, side)
    OBVIOUS
  <2> HIDE DEF G
  <2> QED
    BY <2>1, GroupsAre
<1>2. A = [k \in first |-> G[k]]
  BY Zenon DEF AggregateConnectionsByDirection
<1>3. DOMAIN A = first /\ \A k \in first : A[k] = G[k]
  <2> HIDE DEF first, G
  <2> QED
    BY <1>2
<1> HIDE DEF G
<1>4. first = {k \in K : Cardinality(Earlier(K, R, k)) < TopLimit}
  <2>1. \A k \in K : Earlier(K, R, k) = {j \in K : SortsBefore(G, j, k)}
    BY DEF Earlier
  <2> QED
    BY <2>1
<1>5. StrictTotalOrder(K, R)
  <2> HIDE DEF K
  <2> QED
    BY <1>1, GroupsAreOrdered
<1>6. /\ Cardinality(first) <= TopLimit
      /\ Cardinality(first) < TopLimit => first = K
      /\ \A k \in K \ first, j \in first : <<j, k>> \in R
  <2>1. TopLimit \in Nat \ {0} /\ IsFiniteSet(K)
    BY <1>1, BandwidthAssumption
  <2> HIDE DEF K, R, first
  <2> QED
    BY <1>4, <1>5, <2>1, FirstOnes
<1>7. first \in SUBSET K /\ IsFiniteSet(first) /\ Cardinality(first) \in Nat
  <2>1. first \in SUBSET K
    OBVIOUS
  <2> QED
    BY <1>1, <2>1, FS_Subset, FS_CardinalityType
<1>8. \A j, k \in K : <<j, k>> \in R => TotalBytes(G[k]) <= TotalBytes(G[j])
  BY <1>1 DEF SortsBefore, TotalBytes
<1> HIDE DEF R, first, K
<1>9. Groups(A)
  BY <1>1, <1>3, <1>7 DEF Groups
<1>10. /\ GroupTotals(A).count \in Nat /\ GroupTotals(A).total \in Nat
       /\ GroupTotals(A).count <= Cardinality(T)
  <2> DEFINE all == [k \in K |-> G[k].count]
             kept == [k \in DOMAIN A |-> A[k].count]
             totals == [k \in DOMAIN A |-> TotalBytes(A[k])]
  <2>1. all \in [K -> Nat] /\ kept \in [first -> Nat] /\ totals \in [first -> Nat]
        /\ \A k \in first : kept[k] = all[k]
    BY <1>1, <1>3, <1>7 DEF TotalBytes
  <2>2. SumFunction(all) = Cardinality(T)
    BY <1>1 DEF GroupTotals, K
  <2>3. GroupTotals(A).count = SumFunction(kept) /\ GroupTotals(A).total = SumFunction(totals)
    BY DEF GroupTotals
  <2> HIDE DEF all, kept, totals
  <2>4. SumFunction(kept) \in Nat /\ SumFunction(totals) \in Nat
    BY <1>7, <2>1, SumType
  <2>5. SumFunction(kept) <= SumFunction(all)
    BY <1>1, <1>7, <2>1, SumOfFewer
  <2> QED
    BY <2>2, <2>3, <2>4, <2>5
<1>11. ASSUME Cardinality(DOMAIN A) < TopLimit PROVE A = G
  BY <1>2, <1>3, <1>6, <1>11, Zenon DEF K, G, Aggregated
<1>12. ASSUME NEW t \in T, AggregateKey(conns, t, side) \notin DOMAIN A
       PROVE  /\ Cardinality(DOMAIN A) = TopLimit
              /\ \A k \in DOMAIN A : MovedBy(conns, Together(conns, T, side, t)) <= TotalBytes(A[k])
  <2> DEFINE m == AggregateKey(conns, t, side)
  <2>1. m \in K /\ m \notin first /\ MovedBy(conns, Together(conns, T, side, t)) = TotalBytes(G[m])
    BY <1>1, <1>3, <1>12
  <2> HIDE DEF m
  <2>2. Cardinality(first) = TopLimit
    BY <1>6, <1>7, <2>1, BandwidthAssumption
  <2>3. ASSUME NEW k \in first PROVE MovedBy(conns, Together(conns, T, side, t)) <= TotalBytes(A[k])
    <3>1. TotalBytes(G[m]) <= TotalBytes(G[k])
      BY <1>6, <1>7, <1>8, <2>1
    <3>2. TotalBytes(G[m]) \in Nat /\ TotalBytes(G[k]) \in Nat
      BY <1>1, <1>7, <2>1 DEF TotalBytes
    <3> QED
      BY <1>3, <2>1, <3>1, <3>2
  <2> QED
    BY <1>3, <2>2, <2>3
<1>13. IsFiniteSet(T)
  BY FS_Subset DEF Table
<1> QED
  <2>1. Cardinality(DOMAIN A) \in Nat /\ Cardinality(DOMAIN A) <= TopLimit
    BY <1>3, <1>6, <1>7
  <2>2. Cardinality(DOMAIN A) < TopLimit =>
                 /\ GroupTotals(A).count = Cardinality(T)
                 /\ GroupTotals(A).total = MovedBy(conns, T)
    BY <1>1, <1>11
  <2> QED
    BY <1>9, <1>10, <1>12, <1>13, <2>1, <2>2

LEMMA RecordIs ==
    ASSUME Table(rows), NEW sample, record = Record(rows, sample)
    PROVE  RecordAccountsForRows
<1>1. ASSUME NEW T \in SUBSET DOMAIN rows, NEW side \in {"incoming", "outgoing"},
             NEW A, A = AggregateConnectionsByDirection(rows, T, side),
             T = {t \in DOMAIN rows : ~rows[t].self /\ (t.sport \in ListenPorts <=> side = "incoming")}
      PROVE  SideAccountsForRows(A, side)
  <2>1. /\ Cardinality(DOMAIN A) <= TopLimit
        /\ GroupTotals(A).count <= Cardinality(T)
        /\ Cardinality(DOMAIN A) < TopLimit =>
              GroupTotals(A).count = Cardinality(T) /\ GroupTotals(A).total = MovedBy(rows, T)
        /\ \A t \in T : AggregateKey(rows, t, side) \notin DOMAIN A =>
              /\ Cardinality(DOMAIN A) = TopLimit
              /\ \A k \in DOMAIN A : MovedBy(rows, Together(rows, T, side, t)) <= TotalBytes(A[k])
    BY <1>1, SideIs
  <2>2. GroupTotals(A) = [count |-> GroupTotals(A).count, total |-> GroupTotals(A).total]
    BY DEF GroupTotals
  <2> QED
    BY <1>1, <2>1, <2>2 DEF SideAccountsForRows, MovedBy, Together
<1>2. SideAccountsForRows(record.incoming, "incoming")
  <2>1. /\ record.incoming = AggregateConnectionsByDirection(rows, Incoming(rows), "incoming")
        /\ Incoming(rows) = {t \in DOMAIN rows :
                                ~rows[t].self /\ (t.sport \in ListenPorts <=> "incoming" = "incoming")}
    BY DEF Record, Incoming
  <2> QED
    BY <1>1, <2>1
<1>3. SideAccountsForRows(record.outgoing, "outgoing")
  <2>1. /\ record.outgoing = AggregateConnectionsByDirection(rows, Outgoing(rows), "outgoing")
        /\ Outgoing(rows) = {t \in DOMAIN rows :
                                ~rows[t].self /\ (t.sport \in ListenPorts <=> "outgoing" = "incoming")}
    BY DEF Record, Outgoing
  <2> QED
    BY <1>1, <2>1
<1> QED
  BY <1>2, <1>3 DEF RecordAccountsForRows

-----------------------------------------------------------------------------
(* What the counters of a sample say of a tuple                              *)

EndsOf(C, u) == {x \in C \X Ends : <<u, x[2]>> \in x[1].ends}
TxOf(C, trk, u) == [x \in EndsOf(C, u) |-> Delta(x[1], trk)[x[2]]]
RxOf(C, trk, u) == [x \in EndsOf(C, u) |-> Delta(x[1], trk)[Opposite(x[2])]]
TxSum(B, M) == SumFunction([u \in M |-> B[u].tx])
RxSum(B, M) == SumFunction([u \in M |-> B[u].rx])
PairsOf(C, M) == {x \in C \X Ends : \E u \in M : <<u, x[2]>> \in x[1].ends}

LEMMA ByTupleIs ==
    ASSUME NEW C, NEW trk, NEW B, B = ByTuple(C, trk)
    PROVE  /\ \A u : u \in DOMAIN B <=> \E c \in C : \E e \in c.ends : u = e[1]
           /\ \A u \in DOMAIN B :
                 /\ B[u].tx = SumFunction(TxOf(C, trk, u))
                 /\ B[u].rx = SumFunction(RxOf(C, trk, u))
<1> DEFINE D == {e[1] : e \in UNION {c.ends : c \in C}}
           tx(u) == SumFunction(TxOf(C, trk, u))
           rx(u) == SumFunction(RxOf(C, trk, u))
<1>1. B = [u \in D |-> [tx |-> tx(u), rx |-> rx(u)]]
  BY Zenon DEF ByTuple, EndsOf, TxOf, RxOf
<1> HIDE DEF D, tx, rx
<1>2. DOMAIN B = D /\ \A u \in D : B[u].tx = tx(u) /\ B[u].rx = rx(u)
  BY <1>1
<1>3. \A u : u \in D <=> \E c \in C : \E e \in c.ends : u = e[1]
  BY DEF D
<1> QED
  BY <1>2, <1>3, Zenon DEF tx, rx

\* Every end of a counter is one tuple's, and what the sample has on the tuples
\* M is no more than tx and rx have on P.
Measures(C, trk, M, P, tx, rx, h) ==
    /\ IsFiniteSet(C) /\ IsFiniteSet(P) /\ tx \in [P -> Nat] /\ rx \in [P -> Nat]
    /\ \A c \in C : Delta(c, trk) \in Counters
    /\ \A c \in C : \A e \in c.ends : e[2] \in Ends /\ e = <<e[1], e[2]>>
    /\ \A c \in C : \A e, f \in c.ends : e[2] = f[2] => e = f
    /\ h \in Injection(PairsOf(C, M), P)
    /\ \A x \in PairsOf(C, M) : /\ Delta(x[1], trk)[x[2]] <= tx[h[x]]
                                /\ Delta(x[1], trk)[Opposite(x[2])] <= rx[h[x]]

LEMMA MeasuresAtMost ==
    ASSUME NEW C, NEW trk, NEW B, B = ByTuple(C, trk), NEW M \in SUBSET DOMAIN B,
           NEW P, NEW tx, NEW rx, NEW h, Measures(C, trk, M, P, tx, rx, h)
    PROVE  /\ TxSum(B, M) \in Nat /\ RxSum(B, M) \in Nat
           /\ TxSum(B, M) <= SumFunction(tx)
           /\ RxSum(B, M) <= SumFunction(rx)
<1> DEFINE S == PairsOf(C, M)
           p == [x \in S |-> CHOOSE u \in M : <<u, x[2]>> \in x[1].ends]
           ftx == [x \in S |-> Delta(x[1], trk)[x[2]]]
           frx == [x \in S |-> Delta(x[1], trk)[Opposite(x[2])]]
           parttx == [u \in M |-> TxOf(C, trk, u)]
           partrx == [u \in M |-> RxOf(C, trk, u)]
           ntx == [u \in M |-> B[u].tx]
           nrx == [u \in M |-> B[u].rx]
<1>1. /\ IsFiniteSet(C) /\ IsFiniteSet(P) /\ tx \in [P -> Nat] /\ rx \in [P -> Nat]
      /\ \A c \in C : Delta(c, trk) \in Counters
      /\ \A c \in C : \A e \in c.ends : e[2] \in Ends /\ e = <<e[1], e[2]>>
      /\ \A c \in C : \A e, f \in c.ends : e[2] = f[2] => e = f
      /\ h \in Injection(S, P)
      /\ \A x \in S : /\ Delta(x[1], trk)[x[2]] <= tx[h[x]]
                      /\ Delta(x[1], trk)[Opposite(x[2])] <= rx[h[x]]
  BY Zenon DEF Measures
<1>2. IsFiniteSet(S)
  <2>1. IsFiniteSet(Ends)
    <3>1. Ends = {"orig"} \cup {"reply"}
      BY DEF Ends
    <3> QED
      BY <3>1, FS_Singleton, FS_Union
  <2>2. IsFiniteSet(C \X Ends)
    BY <1>1, <2>1, FS_Product
  <2>3. S \subseteq C \X Ends
    BY DEF PairsOf
  <2> QED
    BY <2>2, <2>3, FS_Subset
<1>3. ASSUME NEW c \in C, NEW d \in Ends
      PROVE  Delta(c, trk)[d] \in Nat /\ Delta(c, trk)[Opposite(d)] \in Nat
  <2>1. Delta(c, trk) \in Counters
    BY <1>1
  <2>2. d = "orig" \/ d = "reply"
    BY DEF Ends
  <2>3. Opposite(d) = "orig" \/ Opposite(d) = "reply"
    BY <2>2 DEF Opposite
  <2> HIDE DEF Counters
  <2>4. \A y \in Counters : y["orig"] \in Nat /\ y["reply"] \in Nat
    BY DEF Counters
  <2> QED
    BY <2>1, <2>2, <2>3, <2>4
<1>4. ASSUME NEW x \in S, NEW u \in M
      PROVE  /\ x[1] \in C /\ x[2] \in Ends /\ p[x] \in M
             /\ p[x] = u <=> x \in EndsOf(C, u)
  <2>1. x \in C \X Ends /\ \E v \in M : <<v, x[2]>> \in x[1].ends
    BY DEF PairsOf
  <2>2. p[x] \in M /\ <<p[x], x[2]>> \in x[1].ends
    BY <2>1, Zenon
  <2>3. x \in EndsOf(C, u) <=> <<u, x[2]>> \in x[1].ends
    BY <2>1 DEF EndsOf
  <2>4. <<u, x[2]>> \in x[1].ends => <<u, x[2]>> = <<p[x], x[2]>>
    BY <1>1, <2>1, <2>2
  <2> HIDE DEF p, S
  <2> QED
    BY <2>1, <2>2, <2>3, <2>4
<1>5. ASSUME NEW u \in M PROVE EndsOf(C, u) = {x \in S : p[x] = u}
  <2>1. \A x : x \in EndsOf(C, u) => x \in S
    BY DEF EndsOf, PairsOf
  <2> HIDE DEF p, S
  <2> QED
    BY <1>4, <2>1
<1>6. p \in [S -> M] /\ ftx \in [S -> Nat] /\ frx \in [S -> Nat]
  <2>1. \A x \in S : p[x] \in M /\ ftx[x] \in Nat /\ frx[x] \in Nat
    <3> SUFFICES ASSUME NEW x \in S PROVE p[x] \in M /\ ftx[x] \in Nat /\ frx[x] \in Nat
      OBVIOUS
    <3>1. M # {}
      BY DEF PairsOf
    <3>2. x[1] \in C /\ x[2] \in Ends /\ p[x] \in M
      BY <1>4, <3>1
    <3> QED
      BY <1>3, <3>2
  <2> QED
    BY <2>1, Zenon
<1>7. IsFiniteSet(M)
  <2>1. \A u \in M : \E x \in S : p[x] = u
    <3> SUFFICES ASSUME NEW u \in M PROVE \E x \in S : p[x] = u
      OBVIOUS
    <3>0. PICK c \in C : \E e \in c.ends : u = e[1]
      BY ByTupleIs
    <3>1. PICK e \in c.ends : u = e[1]
      BY <3>0
    <3>2. <<c, e[2]>> \in EndsOf(C, u)
      BY <1>1, <3>1 DEF EndsOf
    <3> QED
      BY <1>5, <3>2
  <2> HIDE DEF p, S
  <2>2. p \in Surjection(S, M)
    BY <1>6, <2>1 DEF Surjection
  <2> QED
    BY <1>2, <2>2, FS_Surjection
<1>8. \A u \in M : ntx[u] = SumFunction(parttx[u]) /\ nrx[u] = SumFunction(partrx[u])
  <2> SUFFICES ASSUME NEW u \in M
               PROVE  ntx[u] = SumFunction(parttx[u]) /\ nrx[u] = SumFunction(partrx[u])
    OBVIOUS
  <2>1. u \in DOMAIN B
    OBVIOUS
  <2>2. ntx[u] = B[u].tx /\ nrx[u] = B[u].rx
    OBVIOUS
  <2>3. parttx[u] = TxOf(C, trk, u) /\ partrx[u] = RxOf(C, trk, u)
    OBVIOUS
  <2> HIDE DEF ntx, nrx, parttx, partrx
  <2> QED
    BY <2>1, <2>2, <2>3, ByTupleIs, SMT
<1>9. ASSUME NEW u \in M
      PROVE  /\ parttx[u] \in [{x \in S : p[x] = u} -> Nat]
             /\ partrx[u] \in [{x \in S : p[x] = u} -> Nat]
             /\ \A x \in S : p[x] = u => parttx[u][x] = ftx[x] /\ partrx[u][x] = frx[x]
  <2>1. \A x \in EndsOf(C, u) : x[1] \in C /\ x[2] \in Ends
    BY DEF EndsOf
  <2>2. parttx[u] \in [EndsOf(C, u) -> Nat] /\ partrx[u] \in [EndsOf(C, u) -> Nat]
    BY <1>3, <2>1 DEF TxOf, RxOf
  <2>3. \A x \in S : p[x] = u => x \in EndsOf(C, u)
    BY <1>5, Zenon
  <2>4. \A x \in S : p[x] = u => parttx[u][x] = ftx[x] /\ partrx[u][x] = frx[x]
    BY <2>3, Zenon DEF TxOf, RxOf
  <2> QED
    BY <1>5, <2>2, <2>4, Zenon
<1>10. \A u \in M : ntx[u] \in Nat /\ nrx[u] \in Nat
  <2> SUFFICES ASSUME NEW u \in M PROVE ntx[u] \in Nat /\ nrx[u] \in Nat
    OBVIOUS
  <2> DEFINE E == {x \in S : p[x] = u}
  <2>1. IsFiniteSet(E)
    BY <1>2, FS_Subset
  <2>2. parttx[u] \in [E -> Nat] /\ partrx[u] \in [E -> Nat]
    BY <1>9
  <2>3. ntx[u] = SumFunction(parttx[u]) /\ nrx[u] = SumFunction(partrx[u])
    BY <1>8
  <2> HIDE DEF E, parttx, partrx, ntx, nrx
  <2> QED
    BY <2>1, <2>2, <2>3, SumType
<1>11. ntx \in [M -> Nat] /\ nrx \in [M -> Nat]
  BY <1>10, Zenon
<1>12. \A x \in S : ftx[x] <= tx[h[x]] /\ frx[x] <= rx[h[x]]
  BY <1>1, Zenon
<1> HIDE DEF S, p, ftx, frx, parttx, partrx, ntx, nrx
<1>13. \A u \in M : /\ SortedAt(S, ftx, p, ntx, parttx, u)
                    /\ SortedAt(S, frx, p, nrx, partrx, u)
  BY <1>8, <1>9 DEF SortedAt
<1>14. Sorted(S, ftx, M, p, ntx, parttx) /\ Sorted(S, frx, M, p, nrx, partrx)
  BY <1>2, <1>6, <1>7, <1>11, <1>13 DEF Sorted
<1>15. SumFunction(ntx) = SumFunction(ftx) /\ SumFunction(nrx) = SumFunction(frx)
  BY <1>14, SumOfParts
<1>16. SumFunction(ftx) <= SumFunction(tx) /\ SumFunction(frx) <= SumFunction(rx)
  BY <1>1, <1>2, <1>6, <1>12, SumAtMost
<1>17. SumFunction(ntx) \in Nat /\ SumFunction(nrx) \in Nat
  BY <1>7, <1>11, SumType
<1>18. /\ SumFunction(ntx) \in Nat /\ SumFunction(nrx) \in Nat
       /\ SumFunction(ntx) <= SumFunction(tx) /\ SumFunction(nrx) <= SumFunction(rx)
  BY <1>15, <1>16, <1>17
<1> QED
  BY <1>18, Zenon DEF ntx, nrx, TxSum, RxSum

\* One tuple that one end of one counter is
MeasuredBy(C, trk, B, u, c, d) ==
    /\ B = ByTuple(C, trk) /\ u \in DOMAIN B
    /\ c \in C /\ d \in Ends /\ EndsOf(C, u) = {<<c, d>>}
    /\ Delta(c, trk) \in Counters

LEMMA MeasuresExactly ==
    ASSUME NEW C, NEW trk, NEW B, NEW u, NEW c, NEW d, MeasuredBy(C, trk, B, u, c, d)
    PROVE  /\ TxSum(B, {u}) = Delta(c, trk)[d]
           /\ RxSum(B, {u}) = Delta(c, trk)[Opposite(d)]
<1> DEFINE ftx == TxOf(C, trk, u)
           frx == RxOf(C, trk, u)
           ntx == [v \in {u} |-> B[v].tx]
           nrx == [v \in {u} |-> B[v].rx]
<1>0. /\ B = ByTuple(C, trk) /\ u \in DOMAIN B
      /\ c \in C /\ d \in Ends /\ EndsOf(C, u) = {<<c, d>>}
      /\ Delta(c, trk) \in Counters
  BY DEF MeasuredBy
<1>1. Delta(c, trk)[d] \in Nat /\ Delta(c, trk)[Opposite(d)] \in Nat
  <2>1. d = "orig" \/ d = "reply"
    BY <1>0 DEF Ends
  <2>2. Opposite(d) = "orig" \/ Opposite(d) = "reply"
    BY <2>1 DEF Opposite
  <2>3. \A y \in Counters : y["orig"] \in Nat /\ y["reply"] \in Nat
    BY DEF Counters
  <2> QED
    BY <1>0, <2>1, <2>2, <2>3
<1>2. /\ ftx \in [{<<c, d>>} -> Nat] /\ ftx[<<c, d>>] = Delta(c, trk)[d]
      /\ frx \in [{<<c, d>>} -> Nat] /\ frx[<<c, d>>] = Delta(c, trk)[Opposite(d)]
  BY <1>0, <1>1 DEF TxOf, RxOf
<1>3. B[u].tx = SumFunction(ftx) /\ B[u].rx = SumFunction(frx)
  BY <1>0, ByTupleIs, SMT
<1> HIDE DEF ftx, frx
<1>4. B[u].tx = Delta(c, trk)[d] /\ B[u].rx = Delta(c, trk)[Opposite(d)]
  BY <1>2, <1>3, SumOfOne
<1>5. /\ ntx \in [{u} -> Nat] /\ ntx[u] = Delta(c, trk)[d]
      /\ nrx \in [{u} -> Nat] /\ nrx[u] = Delta(c, trk)[Opposite(d)]
  BY <1>1, <1>4
<1> HIDE DEF ntx, nrx
<1>6. SumFunction(ntx) = Delta(c, trk)[d] /\ SumFunction(nrx) = Delta(c, trk)[Opposite(d)]
  BY <1>5, SumOfOne
<1> QED
  BY <1>6, Zenon DEF ntx, nrx, TxSum, RxSum

-----------------------------------------------------------------------------
(* The connections of a host                                                 *)

LEMMA EndsAre ==
    ASSUME NEW d \in Ends
    PROVE  d \in {"orig", "reply"} /\ Opposite(d) \in Ends /\ Opposite(Opposite(d)) = d
BY DEF Ends, Opposite

LEMMA CountersAre ==
    ASSUME NEW y \in Counters, NEW d \in Ends
    PROVE  y[d] \in Nat
BY DEF Ends, Counters

LEMMA ConnsAre ==
    ASSUME world \in Worlds
    PROVE  /\ IsFiniteSet(Conns) /\ world.accounting \in BOOLEAN /\ world.events \in Nat
           /\ \A c \in Conns : \A d \in Ends : c[d] \in Tuples /\ c[d] \in TuplesOf(c)
           /\ \A c, e \in Conns : TuplesOf(c) \cap TuplesOf(e) # {} => c = e
           /\ \A c \in Conns : \A t \in DOMAIN c.sockets :
                 /\ c.sockets[t] \in Nat
                 /\ Direction(c, t) \in Ends /\ c[Direction(c, t)] = t
           /\ \A c \in Conns : c.tracked \in BOOLEAN /\ c.self \in BOOLEAN
<1>1. /\ IsFiniteSet(Conns) /\ world.accounting \in BOOLEAN /\ world.events \in Nat
      /\ \A c, e \in Conns : TuplesOf(c) \cap TuplesOf(e) # {} => c = e
  BY WorldsAssumption, Zenon DEF Conns
<1>2. \A c \in Conns :
         /\ c.orig \in Tuples /\ c.reply \in Tuples
         /\ c.tracked \in BOOLEAN /\ c.self \in BOOLEAN
         /\ DOMAIN c.sockets \subseteq {c.orig, c.reply}
         /\ \A t \in DOMAIN c.sockets : c.sockets[t] \in Nat
  BY WorldsAssumption, Zenon DEF Conns
<1>3. ASSUME NEW c \in Conns, NEW d \in Ends PROVE c[d] \in Tuples /\ c[d] \in TuplesOf(c)
  <2>1. d = "orig" \/ d = "reply"
    BY DEF Ends
  <2> HIDE DEF Tuples, Conns
  <2> QED
    BY <1>2, <2>1 DEF TuplesOf
<1>4. ASSUME NEW c \in Conns, NEW t \in DOMAIN c.sockets
      PROVE  Direction(c, t) \in Ends /\ c[Direction(c, t)] = t
  <2>1. t = c.orig \/ t = c.reply
    BY <1>2
  <2> QED
    BY <2>1 DEF Direction, Ends
<1> QED
  BY <1>1, <1>2, <1>3, <1>4

LEMMA SameTuple ==
    ASSUME world \in Worlds, NEW c \in Conns, NEW e \in Conns, NEW t, t \in TuplesOf(c), t \in TuplesOf(e)
    PROVE  c = e
BY ConnsAre

LEMMA CandidatesAre ==
    ASSUME world \in Worlds, NEW t
    PROVE  /\ IsFiniteSet(Candidates(t))
           /\ \A x \in Candidates(t) : x[1] \in Conns /\ x[2] \in Ends /\ x = <<x[1], x[2]>>
           /\ \A c \in Conns, d \in Ends : FallbackKey(c[d]) = FallbackKey(t) => <<c, d>> \in Candidates(t)
           /\ \A x \in Candidates(t) : FallbackKey(x[1][x[2]]) = FallbackKey(t)
<1>1. IsFiniteSet(Ends)
  <2>1. Ends = {"orig"} \cup {"reply"}
    BY DEF Ends
  <2> QED
    BY <2>1, FS_Singleton, FS_Union
<1>2. IsFiniteSet(Conns \X Ends)
  BY <1>1, ConnsAre, FS_Product
<1>3. Candidates(t) \subseteq Conns \X Ends
  BY DEF Candidates
<1>4. IsFiniteSet(Candidates(t))
  BY <1>2, <1>3, FS_Subset
<1> QED
  BY <1>3, <1>4 DEF Candidates

\* The sums that NothingInvented compares a row with, before they are due
MovedTx(source, t) == [x \in Candidates(t) |-> since[source].moved[x[1]][x[2]]]
MovedRx(source, t) == [x \in Candidates(t) |-> since[source].moved[x[1]][Opposite(x[2])]]

LEMMA SinceIs ==
    ASSUME TypeOK, NEW s \in Sources
    PROVE  /\ since[s].known \subseteq Conns /\ since[s].measured \subseteq Conns
           /\ \A c \in Conns : since[s].moved[c] \in Counters /\ since[s].due[c] \in Counters
           /\ \A c \in Conns, d \in Ends : since[s].moved[c][d] \in Nat /\ since[s].due[c][d] \in Nat
<1> HIDE DEF Counters
<1>1. since[s] \in [moved : [Conns -> Counters], known : SUBSET Conns,
                    due : [Conns -> Counters], measured : SUBSET Conns]
  BY DEF TypeOK
<1>2. /\ since[s].known \subseteq Conns /\ since[s].measured \subseteq Conns
      /\ \A c \in Conns : since[s].moved[c] \in Counters /\ since[s].due[c] \in Counters
  BY <1>1
<1> QED
  BY <1>2, CountersAre

LEMMA MovedType ==
    ASSUME TypeOK, NEW s \in Sources, NEW t
    PROVE  MovedTx(s, t) \in [Candidates(t) -> Nat] /\ MovedRx(s, t) \in [Candidates(t) -> Nat]
<1>1. world \in Worlds
  BY DEF TypeOK
<1>2. \A x \in Candidates(t) : /\ since[s].moved[x[1]][x[2]] \in Nat
                               /\ since[s].moved[x[1]][Opposite(x[2])] \in Nat
  BY <1>1, CandidatesAre, SinceIs, EndsAre
<1> QED
  BY <1>2 DEF MovedTx, MovedRx

LEMMA Clamped ==
    ASSUME NEW v \in Int, NEW m \in Nat, v <= m
    PROVE  /\ clampDelta(v) \in Nat /\ clampDelta(v) <= m
           /\ v \in Nat /\ v <= MaxDelta => clampDelta(v) = v
BY BandwidthAssumption DEF clampDelta

-----------------------------------------------------------------------------
(* The flows of a sample                                                     *)

FlowOf(c) ==
    [orig |-> c.orig, reply |-> c.reply, established |-> status[c] = "open",
     origBytes |-> IF world.accounting THEN bytes[c].orig ELSE 0,
     replyBytes |-> IF world.accounting THEN bytes[c].reply ELSE 0]

CounterOf(c) == FlowCounters(FlowOf(c))
Tracks == {d \in Conns : Tracked(d)}
FlowSample == {CounterOf(c) : c \in Tracks}

LEMMA FlowsAre ==
    /\ Flows = {FlowOf(c) : c \in Tracks}
    /\ {FlowCounters(f) : f \in Flows} = FlowSample
    /\ FlowSnapshot(Flows) = ByTuple(FlowSample, tracker)
<1>1. Flows = {FlowOf(c) : c \in Tracks}
  BY DEF Flows, FlowOf, Tracks
<1>2. {FlowCounters(f) : f \in Flows} = FlowSample
  BY <1>1 DEF FlowSample, CounterOf
<1> QED
  BY <1>1, <1>2, Zenon DEF FlowSnapshot

LEMMA CounterIs ==
    ASSUME NEW c \in Conns
    PROVE  /\ CounterOf(c).id = FlowId(c)
           /\ CounterOf(c).orig = IF world.accounting THEN bytes[c].orig ELSE 0
           /\ CounterOf(c).reply = IF world.accounting THEN bytes[c].reply ELSE 0
           /\ CounterOf(c).ends = {<<c.orig, "orig">>, <<c.reply, "reply">>}
BY DEF CounterOf, FlowCounters, FlowOf, FlowId

LEMMA FlowIdIs ==
    ASSUME world \in Worlds, NEW c \in Conns, NEW e \in Conns, FlowId(c) = FlowId(e)
    PROVE  c = e
<1>1. c.orig = e.orig
  BY DEF FlowId
<1> QED
  BY <1>1, SameTuple DEF TuplesOf

LEMMA FlowSampleIs ==
    ASSUME world \in Worlds
    PROVE  /\ IsFiniteSet(FlowSample) /\ Tracks \subseteq Conns
           /\ \A c, e \in Tracks : CounterOf(c) = CounterOf(e) => c = e
<1>1. Tracks \subseteq Conns
  BY DEF Tracks
<1>2. IsFiniteSet(Tracks)
  BY <1>1, ConnsAre, FS_Subset
<1> DEFINE h == [c \in Tracks |-> CounterOf(c)]
<1>3. h \in Surjection(Tracks, FlowSample)
  BY DEF Surjection, FlowSample
<1> HIDE DEF h
<1>4. IsFiniteSet(FlowSample)
  BY <1>2, <1>3, FS_Surjection
<1> QED
  BY <1>1, <1>4, CounterIs, FlowIdIs

LEMMA FlowDeltas ==
    ASSUME TypeOK, FlowsFollowed, TrackersInv, NEW c \in Tracks
    PROVE  /\ Delta(CounterOf(c), tracker) \in Counters
           /\ \A d \in Ends : Delta(CounterOf(c), tracker)[d] <= since["conntrack"].moved[c][d]
           /\ \A d \in Ends : world.accounting /\ c \in since["conntrack"].known
                                /\ since["conntrack"].moved[c][d] <= MaxDelta
                 => Delta(CounterOf(c), tracker)[d] = since["conntrack"].moved[c][d]
<1>1. c \in Conns /\ world \in Worlds /\ world.accounting \in BOOLEAN
  BY ConnsAre DEF Tracks, TypeOK
<1>2. /\ since["conntrack"].moved[c].orig \in Nat /\ since["conntrack"].moved[c].reply \in Nat
      /\ bytes[c].orig \in Nat /\ bytes[c].reply \in Nat
  <2>1. bytes[c] \in Counters /\ since["conntrack"].moved[c] \in Counters
    BY <1>1, SinceIs DEF TypeOK, Sources
  <2> QED
    BY <2>1 DEF Counters
<1> DEFINE D == Delta(CounterOf(c), tracker)
           was == tracker.prev[FlowId(c)]
           moved == since["conntrack"].moved[c]
<1>3. CASE FlowId(c) \in DOMAIN tracker.prev
  <2>1. tracker.prevAt > 0
    BY <1>3 DEF TrackersInv
  <2>2. /\ D.orig = clampDelta(CounterOf(c).orig - was.orig)
        /\ D.reply = clampDelta(CounterOf(c).reply - was.reply)
        /\ D = [orig |-> D.orig, reply |-> D.reply]
    BY <1>1, <1>3, <2>1, CounterIs DEF Delta
  <2>3. was.orig \in Nat /\ was.reply \in Nat
    BY <1>3 DEF TypeOK, TrackerOK
  <2>4. CASE world.accounting
    <3>1. /\ Follows("conntrack", c, "orig", was.orig)
          /\ Follows("conntrack", c, "reply", was.reply)
      BY <1>1, <1>3, <2>4 DEF FlowsFollowed, Ends
    <3>2. CounterOf(c).orig = bytes[c].orig /\ CounterOf(c).reply = bytes[c].reply
      BY <1>1, <2>4, CounterIs
    <3>3. /\ bytes[c].orig - was.orig \in Int /\ bytes[c].orig - was.orig <= moved.orig
          /\ c \in since["conntrack"].known => bytes[c].orig - was.orig = moved.orig
      BY <1>2, <2>3, <3>1 DEF Follows
    <3>4. /\ bytes[c].reply - was.reply \in Int /\ bytes[c].reply - was.reply <= moved.reply
          /\ c \in since["conntrack"].known => bytes[c].reply - was.reply = moved.reply
      BY <1>2, <2>3, <3>1 DEF Follows
    <3>5. /\ D.orig \in Nat /\ D.orig <= moved.orig
          /\ c \in since["conntrack"].known /\ moved.orig <= MaxDelta => D.orig = moved.orig
      BY <1>2, <2>2, <3>2, <3>3, Clamped
    <3>6. /\ D.reply \in Nat /\ D.reply <= moved.reply
          /\ c \in since["conntrack"].known /\ moved.reply <= MaxDelta => D.reply = moved.reply
      BY <1>2, <2>2, <3>2, <3>4, Clamped
    <3> HIDE DEF D, moved
    <3> QED
      BY <2>2, <3>5, <3>6 DEF Ends, Counters, D, moved
  <2>5. CASE ~world.accounting
    <3>1. was.orig = 0 /\ was.reply = 0 /\ CounterOf(c).orig = 0 /\ CounterOf(c).reply = 0
      BY <1>1, <1>3, <2>5, CounterIs DEF FlowsFollowed, Ends
    <3>2. D.orig = 0 /\ D.reply = 0
      BY <2>2, <3>1, BandwidthAssumption DEF clampDelta
    <3> HIDE DEF D, moved
    <3> QED
      BY <1>2, <2>2, <2>5, <3>2 DEF Ends, Counters, D, moved
  <2> QED
    BY <1>1, <2>4, <2>5
<1>4. CASE FlowId(c) \notin DOMAIN tracker.prev
  <2>1. D = Zero /\ c \notin since["conntrack"].known
    BY <1>1, <1>4, CounterIs DEF Delta, FlowsFollowed
  <2> QED
    BY <1>2, <2>1 DEF Zero, Ends, Counters
<1> QED
  BY <1>3, <1>4

LEMMA MatchesAre ==
    ASSUME NEW B, NEW t
    PROVE  /\ Matches(B, t) \subseteq DOMAIN B
           /\ \A u \in Matches(B, t) : FallbackKey(u) = FallbackKey(t)
BY DEF Matches

LEMMA FlowsMeasured ==
    ASSUME TypeOK, FlowsFollowed, TrackersInv, NEW t,
           NEW B, B = FlowSnapshot(Flows), NEW M, M = Matches(B, t)
    PROVE  /\ TxSum(B, M) \in Nat /\ RxSum(B, M) \in Nat
           /\ TxSum(B, M) <= SumFunction(MovedTx("conntrack", t))
           /\ RxSum(B, M) <= SumFunction(MovedRx("conntrack", t))
<1> DEFINE C == FlowSample
           P == Candidates(t)
           S == PairsOf(C, M)
           conn(x) == CHOOSE c \in Tracks : CounterOf(c) = x[1]
           h == [x \in S |-> <<conn(x), x[2]>>]
           tx == MovedTx("conntrack", t)
           rx == MovedRx("conntrack", t)
<1>1. world \in Worlds
  BY DEF TypeOK
<1>2. ASSUME NEW x \in S
      PROVE  /\ conn(x) \in Tracks /\ CounterOf(conn(x)) = x[1] /\ x[2] \in Ends
             /\ x = <<x[1], x[2]>> /\ h[x] = <<conn(x), x[2]>> /\ h[x] \in P
  <2>1. x \in C \X Ends /\ \E u \in M : <<u, x[2]>> \in x[1].ends
    BY DEF PairsOf
  <2>2. conn(x) \in Tracks /\ CounterOf(conn(x)) = x[1]
    BY <2>1 DEF FlowSample
  <2>3. PICK u \in M : <<u, x[2]>> \in x[1].ends
    BY <2>1
  <2>4. x[1].ends = {<<conn(x).orig, "orig">>, <<conn(x).reply, "reply">>}
    BY <1>1, <2>2, CounterIs, FlowSampleIs
  <2>5. conn(x)[x[2]] = u
    BY <2>3, <2>4
  <2>6. FallbackKey(conn(x)[x[2]]) = FallbackKey(t)
    BY <2>5, MatchesAre
  <2>7. <<conn(x), x[2]>> \in P
    BY <1>1, <2>1, <2>2, <2>6, CandidatesAre, FlowSampleIs
  <2> QED
    BY <2>1, <2>2, <2>7
<1>3. h \in Injection(S, P)
  <2>1. h \in [S -> P]
    <3>1. \A x \in S : <<conn(x), x[2]>> \in P
      BY <1>2
    <3> QED
      BY <3>1
  <2>2. ASSUME NEW x \in S, NEW y \in S, h[x] = h[y] PROVE x = y
    <3> HIDE DEF h, conn, S
    <3> QED
      BY <1>2, <2>2
  <2> HIDE DEF h, S, P
  <2> QED
    BY <2>1, <2>2 DEF Injection, IsInjective
<1>4. ASSUME NEW x \in S
      PROVE  /\ Delta(x[1], tracker)[x[2]] <= tx[h[x]]
             /\ Delta(x[1], tracker)[Opposite(x[2])] <= rx[h[x]]
  <2>1. /\ tx[h[x]] = since["conntrack"].moved[conn(x)][x[2]]
        /\ rx[h[x]] = since["conntrack"].moved[conn(x)][Opposite(x[2])]
    <3> HIDE DEF h, conn, S
    <3> QED
      BY <1>2 DEF MovedTx, MovedRx
  <2>2. x[2] \in Ends /\ Opposite(x[2]) \in Ends
    BY <1>2, EndsAre
  <2> HIDE DEF h, conn, S, tx, rx
  <2> QED
    BY <1>2, <2>1, <2>2, FlowDeltas
<1>5. \A c \in C : /\ Delta(c, tracker) \in Counters
                   /\ \A e \in c.ends : e[2] \in Ends /\ e = <<e[1], e[2]>>
                   /\ \A e, f \in c.ends : e[2] = f[2] => e = f
  <2> SUFFICES ASSUME NEW c \in C
               PROVE  /\ Delta(c, tracker) \in Counters
                      /\ \A e \in c.ends : e[2] \in Ends /\ e = <<e[1], e[2]>>
                      /\ \A e, f \in c.ends : e[2] = f[2] => e = f
    OBVIOUS
  <2>1. PICK d \in Tracks : c = CounterOf(d)
    BY DEF FlowSample
  <2>2. c.ends = {<<d.orig, "orig">>, <<d.reply, "reply">>}
    BY <1>1, <2>1, CounterIs, FlowSampleIs
  <2>3. Delta(c, tracker) \in Counters
    BY <2>1, FlowDeltas
  <2> QED
    BY <2>2, <2>3 DEF Ends
<1>6. IsFiniteSet(C) /\ IsFiniteSet(P) /\ tx \in [P -> Nat] /\ rx \in [P -> Nat]
  BY <1>1, FlowSampleIs, CandidatesAre, MovedType DEF Sources
<1> HIDE DEF C, P, h, tx, rx
<1>7. Measures(C, tracker, M, P, tx, rx, h)
  BY <1>3, <1>4, <1>5, <1>6 DEF Measures
<1>8. B = ByTuple(C, tracker) /\ M \in SUBSET DOMAIN B
  BY FlowsAre, MatchesAre DEF C
<1> QED
  BY <1>7, <1>8, MeasuresAtMost DEF tx, rx

LEMMA FlowsExactly ==
    ASSUME TypeOK, FlowsFollowed, TrackersInv, world.accounting, NEW t,
           NEW x \in Candidates(t), Candidates(t) = {x},
           x[1] \in since["conntrack"].known, x[1] \in Tracks,
           since["conntrack"].moved[x[1]].orig <= MaxDelta,
           since["conntrack"].moved[x[1]].reply <= MaxDelta,
           NEW B, B = FlowSnapshot(Flows), NEW M, M = Matches(B, t)
    PROVE  /\ TxSum(B, M) = since["conntrack"].moved[x[1]][x[2]]
           /\ RxSum(B, M) = since["conntrack"].moved[x[1]][Opposite(x[2])]
<1> DEFINE c == x[1]
           d == x[2]
           u == c[d]
           C == FlowSample
<1>1. world \in Worlds
  BY DEF TypeOK
<1>2. c \in Conns /\ d \in Ends /\ x = <<c, d>> /\ FallbackKey(u) = FallbackKey(t)
  BY <1>1, CandidatesAre
<1>3. B = ByTuple(C, tracker) /\ CounterOf(c) \in C
  BY FlowsAre DEF FlowSample
<1>4. ASSUME NEW y \in C, NEW e \in y.ends, FallbackKey(e[1]) = FallbackKey(t)
      PROVE  y = CounterOf(c) /\ e = <<u, d>>
  <2>1. PICK b \in Tracks : y = CounterOf(b)
    BY DEF FlowSample
  <2>2. b \in Conns /\ e \in {<<b.orig, "orig">>, <<b.reply, "reply">>}
    BY <1>1, <2>1, CounterIs, FlowSampleIs
  <2>3. e = <<b[e[2]], e[2]>> /\ e[2] \in Ends
    BY <2>2 DEF Ends
  <2>4. <<b, e[2]>> \in Candidates(t)
    <3>1. e[1] = b[e[2]]
      BY <2>3
    <3>2. FallbackKey(b[e[2]]) = FallbackKey(t)
      BY <1>4, <3>1
    <3> QED
      BY <1>1, <2>2, <2>3, <3>2, CandidatesAre
  <2>5. <<b, e[2]>> = <<c, d>>
    BY <1>2, <2>4
  <2> QED
    BY <2>1, <2>3, <2>5
<1>5. <<u, d>> \in CounterOf(c).ends
  BY <1>2, CounterIs DEF Ends
<1> HIDE DEF c, d, u, C
<1>6. u \in DOMAIN B /\ \A v \in DOMAIN B : FallbackKey(v) = FallbackKey(t) => v = u
  <2>1. u \in DOMAIN B
    BY <1>3, <1>5, ByTupleIs
  <2>2. ASSUME NEW v \in DOMAIN B, FallbackKey(v) = FallbackKey(t) PROVE v = u
    <3>1. PICK y \in C : \E e \in y.ends : v = e[1]
      BY <1>3, ByTupleIs
    <3>2. PICK e \in y.ends : v = e[1]
      BY <3>1
    <3> QED
      BY <1>4, <2>2, <3>2
  <2> QED
    BY <2>1, <2>2
<1>7. M = {u}
  BY <1>2, <1>6 DEF Matches
<1>8. EndsOf(C, u) = {<<CounterOf(c), d>>}
  <2>1. <<CounterOf(c), d>> \in EndsOf(C, u)
    BY <1>2, <1>3, <1>5 DEF EndsOf
  <2>2. ASSUME NEW y \in EndsOf(C, u) PROVE y = <<CounterOf(c), d>>
    <3>1. y \in C \X Ends /\ <<u, y[2]>> \in y[1].ends
      BY DEF EndsOf
    <3>2. y[1] = CounterOf(c) /\ <<u, y[2]>> = <<u, d>>
      BY <1>2, <1>4, <3>1
    <3> QED
      BY <3>1, <3>2
  <2> QED
    BY <2>1, <2>2
<1>9. c \in Tracks /\ c \in since["conntrack"].known
  BY DEF c
<1>10. /\ Delta(CounterOf(c), tracker) \in Counters
       /\ Delta(CounterOf(c), tracker)[d] = since["conntrack"].moved[c][d]
       /\ Delta(CounterOf(c), tracker)[Opposite(d)] = since["conntrack"].moved[c][Opposite(d)]
  <2>1. \A e \in Ends : since["conntrack"].moved[c][e] <= MaxDelta
    BY DEF Ends, c
  <2> QED
    BY <1>2, <1>9, <2>1, FlowDeltas, EndsAre
<1>11. /\ TxSum(B, {u}) = Delta(CounterOf(c), tracker)[d]
       /\ RxSum(B, {u}) = Delta(CounterOf(c), tracker)[Opposite(d)]
  <2>1. B = ByTuple(C, tracker) /\ CounterOf(c) \in C /\ u \in DOMAIN B /\ d \in Ends
    BY <1>2, <1>3, <1>6
  <2> QED
    <3>1. MeasuredBy(C, tracker, B, u, CounterOf(c), d)
      BY <1>8, <1>10, <2>1 DEF MeasuredBy
    <3> QED
      BY <3>1, MeasuresExactly
<1> QED
  BY <1>7, <1>10, <1>11 DEF c, d

-----------------------------------------------------------------------------
(* The sockets of a sample                                                   *)

SocketOf(s) ==
    [tuple |-> s[2], acked |-> bytes[s[1]][Direction(s[1], s[2])],
     recv |-> bytes[s[1]][Opposite(Direction(s[1], s[2]))]]

SocketCounterOf(s) == SocketCounters(SocketOf(s))
SocketSample == {SocketCounterOf(s) : s \in Sockets}

LEMMA SocketsIn ==
    /\ \A s \in Sockets : /\ s = <<s[1], s[2]>> /\ s[1] \in Conns /\ status[s[1]] = "open"
                          /\ s[2] \in DOMAIN s[1].sockets
    /\ \A c \in Conns : status[c] = "open" => \A t \in DOMAIN c.sockets : <<c, t>> \in Sockets
BY DEF Sockets

LEMMA SocketsAre ==
    /\ {SocketCounters(s) : s \in SocketCounterTable} = SocketSample
    /\ SocketSnapshot(SocketCounterTable) = ByTuple(SocketSample, ssTracker)
<1>1. SocketCounterTable = {SocketOf(s) : s \in Sockets}
  BY DEF SocketCounterTable, SocketOf
<1>2. {SocketCounters(s) : s \in SocketCounterTable} = SocketSample
  BY <1>1 DEF SocketSample, SocketCounterOf
<1> QED
  BY <1>2, Zenon DEF SocketSnapshot

LEMMA SocketCounterIs ==
    ASSUME NEW s \in Sockets
    PROVE  /\ SocketCounterOf(s).id = s[2]
           /\ SocketCounterOf(s).orig = bytes[s[1]][Direction(s[1], s[2])]
           /\ SocketCounterOf(s).reply = bytes[s[1]][Opposite(Direction(s[1], s[2]))]
           /\ SocketCounterOf(s).ends = {<<s[2], "orig">>}
BY DEF SocketCounterOf, SocketCounters, SocketOf

LEMMA SameSocket ==
    ASSUME world \in Worlds, NEW c \in Conns, NEW e \in Conns,
           NEW t \in DOMAIN c.sockets, t \in DOMAIN e.sockets
    PROVE  c = e
<1>1. t \in TuplesOf(c) /\ t \in TuplesOf(e)
  BY ConnsAre
<1> QED
  BY <1>1, SameTuple

LEMMA SocketSampleIs ==
    ASSUME world \in Worlds
    PROVE  /\ IsFiniteSet(Sockets) /\ IsFiniteSet(SocketSample)
           /\ \A r, s \in Sockets : r[2] = s[2] => r = s
<1>1. \A r, s \in Sockets : r[2] = s[2] => r = s
  BY SameSocket, SocketsIn
<1>2. IsFiniteSet(Sockets)
  <2> DEFINE h == [s \in Sockets |-> <<s[1], Direction(s[1], s[2])>>]
  <2>1. IsFiniteSet(Conns \X Ends)
    <3>1. Ends = {"orig"} \cup {"reply"}
      BY DEF Ends
    <3> QED
      BY <3>1, ConnsAre, FS_Singleton, FS_Union, FS_Product
  <2>2. \A s \in Sockets : /\ h[s] = <<s[1], Direction(s[1], s[2])>> /\ h[s] \in Conns \X Ends
                           /\ s[1][Direction(s[1], s[2])] = s[2]
    BY ConnsAre, SocketsIn
  <2>3. h \in [Sockets -> Conns \X Ends]
    <3>1. \A s \in Sockets : <<s[1], Direction(s[1], s[2])>> \in Conns \X Ends
      BY <2>2
    <3> QED
      BY <3>1
  <2>4. ASSUME NEW r \in Sockets, NEW s \in Sockets, h[r] = h[s] PROVE r = s
    <3> HIDE DEF h
    <3>1. r[1] = s[1] /\ Direction(r[1], r[2]) = Direction(s[1], s[2])
      BY <2>2, <2>4
    <3>2. r[2] = s[2]
      BY <2>2, <3>1
    <3> QED
      BY <1>1, <3>2
  <2> HIDE DEF h
  <2>5. h \in Injection(Sockets, Conns \X Ends)
    BY <2>3, <2>4 DEF Injection, IsInjective
  <2> QED
    BY <2>1, <2>5, FS_Injection
<1>3. IsFiniteSet(SocketSample)
  <2> DEFINE h == [s \in Sockets |-> SocketCounterOf(s)]
  <2>1. h \in Surjection(Sockets, SocketSample)
    BY DEF Surjection, SocketSample
  <2> HIDE DEF h
  <2> QED
    BY <1>2, <2>1, FS_Surjection
<1> QED
  BY <1>1, <1>2, <1>3

LEMMA SocketDeltas ==
    ASSUME TypeOK, SocketsFollowed, TrackersInv, NEW s \in Sockets,
           NEW c, c = s[1], NEW d, d = Direction(s[1], s[2]),
           NEW D, D = Delta(SocketCounterOf(s), ssTracker)
    PROVE  /\ D \in Counters
           /\ D["orig"] <= since["ss"].moved[c][d]
           /\ D["reply"] <= since["ss"].moved[c][Opposite(d)]
           /\ c \in since["ss"].known =>
                 /\ since["ss"].moved[c][d] <= MaxDelta => D["orig"] = since["ss"].moved[c][d]
                 /\ since["ss"].moved[c][Opposite(d)] <= MaxDelta
                       => D["reply"] = since["ss"].moved[c][Opposite(d)]
<1>1. /\ c \in Conns /\ world \in Worlds /\ s[2] \in DOMAIN c.sockets /\ d = Direction(c, s[2])
      /\ d \in Ends /\ Opposite(d) \in Ends
  BY ConnsAre, SocketsIn, EndsAre DEF TypeOK
<1> DEFINE m == since["ss"].moved[c][d]
           n == since["ss"].moved[c][Opposite(d)]
           b == bytes[c][d]
           e == bytes[c][Opposite(d)]
           was == ssTracker.prev[s[2]]
<1>2. m \in Nat /\ n \in Nat /\ b \in Nat /\ e \in Nat
  <2>1. bytes[c] \in Counters
    BY <1>1 DEF TypeOK
  <2> QED
    BY <1>1, <2>1, SinceIs, CountersAre DEF Sources
<1>3. /\ SocketCounterOf(s).id = s[2]
      /\ SocketCounterOf(s).orig = b /\ SocketCounterOf(s).reply = e
  BY <1>1, SocketCounterIs
<1>4. CASE s[2] \in DOMAIN ssTracker.prev
  <2>1. ssTracker.prevAt > 0
    BY <1>4 DEF TrackersInv
  <2>2. /\ D.orig = clampDelta(b - was.orig) /\ D.reply = clampDelta(e - was.reply)
        /\ D = [orig |-> D.orig, reply |-> D.reply]
    BY <1>3, <1>4, <2>1 DEF Delta
  <2>3. was.orig \in Nat /\ was.reply \in Nat
    BY <1>4 DEF TypeOK, TrackerOK
  <2>4. Follows("ss", c, d, was.orig) /\ Follows("ss", c, Opposite(d), was.reply)
    BY <1>1, <1>4 DEF SocketsFollowed
  <2>5. b - was.orig \in Int /\ b - was.orig <= m /\ (c \in since["ss"].known => b - was.orig = m)
    BY <1>2, <2>3, <2>4 DEF Follows
  <2>6. e - was.reply \in Int /\ e - was.reply <= n /\ (c \in since["ss"].known => e - was.reply = n)
    BY <1>2, <2>3, <2>4 DEF Follows
  <2> HIDE DEF m, n, b, e, was
  <2>7. D.orig \in Nat /\ D.orig <= m /\ (c \in since["ss"].known /\ m <= MaxDelta => D.orig = m)
    BY <1>2, <2>2, <2>5, Clamped
  <2>8. D.reply \in Nat /\ D.reply <= n /\ (c \in since["ss"].known /\ n <= MaxDelta => D.reply = n)
    BY <1>2, <2>2, <2>6, Clamped
  <2>9. D \in Counters
    BY <2>2, <2>7, <2>8 DEF Counters
  <2> QED
    BY <2>7, <2>8, <2>9 DEF m, n
<1>5. CASE s[2] \notin DOMAIN ssTracker.prev
  <2>1. D = Zero /\ c \notin since["ss"].known
    BY <1>1, <1>3, <1>5 DEF Delta, SocketsFollowed
  <2> QED
    BY <1>2, <2>1 DEF Zero, Counters
<1> QED
  BY <1>4, <1>5

LEMMA SocketsMeasured ==
    ASSUME TypeOK, SocketsFollowed, TrackersInv, NEW t,
           NEW B, B = SocketSnapshot(SocketCounterTable), NEW M, M = Matches(B, t)
    PROVE  /\ TxSum(B, M) \in Nat /\ RxSum(B, M) \in Nat
           /\ TxSum(B, M) <= SumFunction(MovedTx("ss", t))
           /\ RxSum(B, M) <= SumFunction(MovedRx("ss", t))
<1> DEFINE C == SocketSample
           P == Candidates(t)
           S == PairsOf(C, M)
           sock(x) == CHOOSE s \in Sockets : SocketCounterOf(s) = x[1]
           dir(x) == Direction(sock(x)[1], sock(x)[2])
           h == [x \in S |-> <<sock(x)[1], dir(x)>>]
           tx == MovedTx("ss", t)
           rx == MovedRx("ss", t)
<1>1. world \in Worlds
  BY DEF TypeOK
<1>2. ASSUME NEW x \in S
      PROVE  /\ sock(x) \in Sockets /\ SocketCounterOf(sock(x)) = x[1] /\ x[2] = "orig"
             /\ x = <<x[1], x[2]>> /\ h[x] = <<sock(x)[1], dir(x)>> /\ h[x] \in P
             /\ sock(x)[1][dir(x)] = sock(x)[2]
  <2>1. x \in C \X Ends /\ \E u \in M : <<u, x[2]>> \in x[1].ends
    BY DEF PairsOf
  <2>2. sock(x) \in Sockets /\ SocketCounterOf(sock(x)) = x[1]
    BY <2>1 DEF SocketSample
  <2>3. PICK u \in M : <<u, x[2]>> \in x[1].ends
    BY <2>1
  <2> HIDE DEF sock
  <2>4. x[1].ends = {<<sock(x)[2], "orig">>}
    BY <2>2, SocketCounterIs
  <2>5. u = sock(x)[2] /\ x[2] = "orig"
    BY <2>3, <2>4
  <2>6. /\ sock(x)[1] \in Conns /\ dir(x) \in Ends /\ sock(x)[1][dir(x)] = sock(x)[2]
    BY <1>1, <2>2, SocketsIn, ConnsAre
  <2>7. FallbackKey(sock(x)[1][dir(x)]) = FallbackKey(t)
    BY <2>5, <2>6, MatchesAre
  <2>8. <<sock(x)[1], dir(x)>> \in P
    BY <1>1, <2>6, <2>7, CandidatesAre
  <2> QED
    BY <2>1, <2>2, <2>5, <2>6, <2>8
<1>3. h \in Injection(S, P)
  <2>1. h \in [S -> P]
    <3>1. \A x \in S : <<sock(x)[1], dir(x)>> \in P
      BY <1>2
    <3> QED
      BY <3>1
  <2>2. ASSUME NEW x \in S, NEW y \in S, h[x] = h[y] PROVE x = y
    <3> HIDE DEF h, sock, dir, S
    <3>1. sock(x)[1] = sock(y)[1] /\ dir(x) = dir(y)
      BY <1>2, <2>2
    <3>2. sock(x)[2] = sock(y)[2]
      BY <1>2, <3>1
    <3>3. sock(x) = sock(y)
      BY <1>1, <1>2, <3>2, SocketSampleIs
    <3> QED
      BY <1>2, <3>3
  <2> HIDE DEF h, S, P
  <2> QED
    BY <2>1, <2>2 DEF Injection, IsInjective
<1>4. ASSUME NEW x \in S
      PROVE  /\ Delta(x[1], ssTracker)[x[2]] <= tx[h[x]]
             /\ Delta(x[1], ssTracker)[Opposite(x[2])] <= rx[h[x]]
  <2> HIDE DEF h, sock, S
  <2>1. /\ tx[h[x]] = since["ss"].moved[sock(x)[1]][dir(x)]
        /\ rx[h[x]] = since["ss"].moved[sock(x)[1]][Opposite(dir(x))]
    <3> HIDE DEF dir
    <3> QED
      BY <1>2 DEF MovedTx, MovedRx
  <2>2. x[2] = "orig" /\ Opposite(x[2]) = "reply"
    BY <1>2 DEF Opposite
  <2> HIDE DEF tx, rx
  <2> QED
    BY <1>2, <2>1, <2>2, SocketDeltas
<1>5. \A c \in C : /\ Delta(c, ssTracker) \in Counters
                   /\ \A e \in c.ends : e[2] \in Ends /\ e = <<e[1], e[2]>>
                   /\ \A e, f \in c.ends : e[2] = f[2] => e = f
  <2> SUFFICES ASSUME NEW c \in C
               PROVE  /\ Delta(c, ssTracker) \in Counters
                      /\ \A e \in c.ends : e[2] \in Ends /\ e = <<e[1], e[2]>>
                      /\ \A e, f \in c.ends : e[2] = f[2] => e = f
    OBVIOUS
  <2>1. PICK s \in Sockets : c = SocketCounterOf(s)
    BY DEF SocketSample
  <2>2. c.ends = {<<s[2], "orig">>}
    BY <2>1, SocketCounterIs
  <2>3. Delta(c, ssTracker) \in Counters
    BY <2>1, SocketDeltas
  <2> QED
    BY <2>2, <2>3 DEF Ends
<1>6. IsFiniteSet(C) /\ IsFiniteSet(P) /\ tx \in [P -> Nat] /\ rx \in [P -> Nat]
  BY <1>1, SocketSampleIs, CandidatesAre, MovedType DEF Sources
<1> HIDE DEF C, P, h, tx, rx
<1>7. Measures(C, ssTracker, M, P, tx, rx, h)
  BY <1>3, <1>4, <1>5, <1>6 DEF Measures
<1>8. B = ByTuple(C, ssTracker) /\ M \in SUBSET DOMAIN B
  BY SocketsAre, MatchesAre DEF C
<1> QED
  BY <1>7, <1>8, MeasuresAtMost DEF tx, rx

LEMMA SocketsExactly ==
    ASSUME TypeOK, SocketsFollowed, TrackersInv, NEW t,
           NEW x \in Candidates(t), Candidates(t) = {x},
           x[1] \in since["ss"].known, status[x[1]] = "open", t \in DOMAIN x[1].sockets,
           since["ss"].moved[x[1]].orig <= MaxDelta,
           since["ss"].moved[x[1]].reply <= MaxDelta,
           NEW B, B = SocketSnapshot(SocketCounterTable), NEW M, M = Matches(B, t)
    PROVE  /\ M # {}
           /\ TxSum(B, M) = since["ss"].moved[x[1]][x[2]]
           /\ RxSum(B, M) = since["ss"].moved[x[1]][Opposite(x[2])]
<1> DEFINE c == x[1]
           d == x[2]
           s == <<c, t>>
           C == SocketSample
           k == SocketCounterOf(s)
<1>1. world \in Worlds
  BY DEF TypeOK
<1>2. c \in Conns /\ s \in Sockets /\ d = Direction(c, t) /\ d \in Ends
  <2>1. c \in Conns
    BY <1>1, CandidatesAre
  <2>2. Direction(c, t) \in Ends /\ c[Direction(c, t)] = t
    BY <1>1, <2>1, ConnsAre
  <2>3. <<c, Direction(c, t)>> = x
    BY <1>1, <2>1, <2>2, CandidatesAre
  <2> QED
    BY <2>1, <2>2, <2>3, SocketsIn
<1>3. B = ByTuple(C, ssTracker) /\ k \in C /\ k.ends = {<<t, "orig">>}
  BY <1>2, SocketsAre, SocketCounterIs DEF SocketSample
<1>4. t \in DOMAIN B /\ M = {t}
  <2>1. <<t, "orig">> \in k.ends /\ t = <<t, "orig">>[1]
    BY <1>3
  <2> HIDE DEF k, C
  <2>2. t \in DOMAIN B
    BY <1>3, <2>1, ByTupleIs
  <2> QED
    BY <2>2 DEF Matches
<1>5. EndsOf(C, t) = {<<k, "orig">>}
  <2>1. <<k, "orig">> \in EndsOf(C, t)
    BY <1>3 DEF EndsOf, Ends
  <2>2. ASSUME NEW y \in EndsOf(C, t) PROVE y = <<k, "orig">>
    <3>1. y \in C \X Ends /\ <<t, y[2]>> \in y[1].ends
      BY DEF EndsOf
    <3>2. PICK r \in Sockets : y[1] = SocketCounterOf(r)
      BY <3>1 DEF SocketSample
    <3>3. r[2] = t /\ y[2] = "orig"
      BY <3>1, <3>2, SocketCounterIs
    <3>4. r = s
      BY <1>1, <1>2, <3>3, SocketSampleIs
    <3> QED
      BY <3>1, <3>2, <3>3, <3>4
  <2> QED
    BY <2>1, <2>2
<1>6. /\ Delta(k, ssTracker) \in Counters
      /\ Delta(k, ssTracker)["orig"] = since["ss"].moved[c][d]
      /\ Delta(k, ssTracker)["reply"] = since["ss"].moved[c][Opposite(d)]
  <2>1. \A e \in Ends : since["ss"].moved[c][e] <= MaxDelta
    BY DEF Ends
  <2>2. Opposite(d) \in Ends /\ s[1] = c /\ s[2] = t
    BY <1>2, EndsAre
  <2> HIDE DEF c, d, s
  <2>3. c \in since["ss"].known
    BY DEF c
  <2> QED
    BY <1>2, <2>1, <2>2, <2>3, SocketDeltas
<1> HIDE DEF c, d, s, k, C
<1>7. MeasuredBy(C, ssTracker, B, t, k, "orig")
  BY <1>3, <1>4, <1>5, <1>6 DEF MeasuredBy, Ends
<1>8. /\ TxSum(B, {t}) = Delta(k, ssTracker)["orig"]
      /\ RxSum(B, {t}) = Delta(k, ssTracker)[Opposite("orig")]
  BY <1>7, MeasuresExactly
<1> QED
  BY <1>4, <1>6, <1>8 DEF c, d, Opposite

-----------------------------------------------------------------------------
(* Rows and histories                                                        *)

DueTx(source, t) == [x \in Candidates(t) |-> Due(source, x, TRUE)]
DueRx(source, t) == [x \in Candidates(t) |-> Due(source, x, FALSE)]

LEMMA DuesAre ==
    ASSUME NEW s, NEW t
    PROVE  /\ DueTx(s, t) = [x \in Candidates(t) |-> since[s].due[x[1]][x[2]]]
           /\ DueRx(s, t) = [x \in Candidates(t) |-> since[s].due[x[1]][Opposite(x[2])]]
           /\ DueTx(s, t)' = [x \in Candidates(t)' |-> since'[s].due[x[1]][x[2]]]
           /\ DueRx(s, t)' = [x \in Candidates(t)' |-> since'[s].due[x[1]][Opposite(x[2])]]
BY DEF Due, DueTx, DueRx

LEMMA InventionIs ==
    /\ NothingInvented <=>
          \A t \in DOMAIN rows : rows[t].source # "none" =>
             /\ rows[t].tx <= SumFunction(DueTx(rows[t].source, t))
             /\ rows[t].rx <= SumFunction(DueRx(rows[t].source, t))
    /\ NothingInvented' <=>
          \A t \in DOMAIN rows' : rows'[t].source # "none" =>
             /\ rows'[t].tx <= SumFunction(DueTx(rows[t].source, t)')
             /\ rows'[t].rx <= SumFunction(DueRx(rows[t].source, t)')
BY Zenon DEF NothingInvented, DueTx, DueRx

LEMMA CandidatesKept ==
    ASSUME world' = world, NEW t
    PROVE  Candidates(t)' = Candidates(t)
BY DEF Candidates, Conns

LEMMA FiguresKept ==
    ASSUME TypeRows, world' = world, rows' = rows,
           \A s \in Sources : since'[s].due = since[s].due /\ since'[s].measured = since[s].measured
    PROVE  /\ NothingInvented => NothingInvented'
           /\ FlowsExact => FlowsExact'
           /\ OneRowPerConnection => OneRowPerConnection'
           /\ pc' = pc /\ LivingTrafficIsExact => LivingTrafficIsExact'
<1>1. \A t : Candidates(t)' = Candidates(t)
  BY CandidatesKept
<1>2. \A s \in Sources : \A t : DueTx(s, t)' = DueTx(s, t) /\ DueRx(s, t)' = DueRx(s, t)
  BY <1>1, DuesAre
<1>3. NothingInvented => NothingInvented'
  <2>1. \A t \in DOMAIN rows : rows[t].source \in Sources \cup {"none"}
    BY DEF TypeRows, Table, Figures, Sources
  <2> QED
    BY <1>2, <2>1, InventionIs
<1>4. ASSUME NEW s \in Sources, NEW t, NEW x
      PROVE  /\ Measurable(s, t, x)' <=> Measurable(s, t, x)
             /\ ShownExactly(s, t, x)' <=> ShownExactly(s, t, x)
  BY Zenon DEF Measurable, ShownExactly, Due
<1>5. "conntrack" \in Sources /\ "ss" \in Sources
  BY DEF Sources
<1>6. FlowsExact => FlowsExact'
  BY <1>1, <1>4, <1>5, Zenon DEF FlowsExact
<1>7. ASSUME pc' = pc, LivingTrafficIsExact PROVE LivingTrafficIsExact'
  BY <1>1, <1>4, <1>5, <1>7, Zenon DEF LivingTrafficIsExact
<1>8. OneRowPerConnection => OneRowPerConnection'
  BY DEF OneRowPerConnection, Conns
<1> QED
  BY <1>3, <1>6, <1>7, <1>8

LEMMA NoFigures ==
    ASSUME world' \in Worlds, DOMAIN rows' = {}
    PROVE  TypeRows' /\ NothingInvented' /\ FlowsExact' /\ OneRowPerConnection' /\ LivingTrafficIsExact'
<1>1. TypeRows'
  BY FS_EmptySet DEF TypeRows, Table
<1>2. NothingInvented'
  BY InventionIs
<1>3. FlowsExact' /\ LivingTrafficIsExact'
  BY Zenon DEF FlowsExact, LivingTrafficIsExact
<1>4. OneRowPerConnection'
  <2> SUFFICES ASSUME NEW c \in Conns'
               PROVE  Cardinality({t \in DOMAIN rows' : t \in {c.orig, Flip(c.orig), c.reply, Flip(c.reply)}})
                        <= (IF DOMAIN c.sockets = {} THEN 1 ELSE Cardinality(DOMAIN c.sockets))
    BY DEF OneRowPerConnection
  <2>1. {t \in DOMAIN rows' : t \in {c.orig, Flip(c.orig), c.reply, Flip(c.reply)}} = {}
    OBVIOUS
  <2> QED
    <3>1. IsFiniteSet(DOMAIN c.sockets)
      <4>1. DOMAIN c.sockets \subseteq {c.orig} \cup {c.reply}
        BY WorldsAssumption DEF Conns
      <4>2. IsFiniteSet({c.orig} \cup {c.reply})
        BY FS_Singleton, FS_Union
      <4> QED
        BY <4>1, <4>2, FS_Subset
    <3>2. Cardinality(DOMAIN c.sockets) \in Nat
      BY <3>1, FS_CardinalityType
    <3> QED
      BY <2>1, <3>2, FS_EmptySet
<1> QED
  BY <1>1, <1>2, <1>3, <1>4

-----------------------------------------------------------------------------
(* What happens to the connections                                           *)

LEMMA HistoryType ==
    ASSUME TypeOK, NEW s \in Sources
    PROVE  since[s] \in [moved : [Conns -> Counters], known : SUBSET Conns,
                         due : [Conns -> Counters], measured : SUBSET Conns]
BY Zenon DEF TypeOK

\* An event of a connection leaves the capture alone.
LEMMA CaptureKept ==
    ASSUME BandwidthInv, UNCHANGED <<world, pc, now, rows, tracker, ssTracker, bwSample, record>>,
           \A s \in Sources : since'[s].due = since[s].due /\ since'[s].measured = since[s].measured
    PROVE  /\ TypeRows' /\ TrackersInv' /\ CaptureInv' /\ NothingInvented' /\ FlowsExact'
           /\ LivingTrafficIsExact' /\ OneRowPerConnection'
<1> USE DEF BandwidthInv
<1>1. TypeRows'
  BY DEF TypeRows, Table
<1>2. TrackersInv'
  BY DEF TrackersInv
<1>3. CaptureInv'
  <2>1. "conntrack" \in Sources /\ "ss" \in Sources
    BY DEF Sources
  <2>2. Conns' = Conns /\ ZeroDue' = ZeroDue
    BY DEF Conns, ZeroDue
  <2> QED
    BY <2>1, <2>2, Zenon DEF CaptureInv
<1>4. /\ NothingInvented' /\ FlowsExact' /\ LivingTrafficIsExact' /\ OneRowPerConnection'
  BY FiguresKept
<1> QED
  BY <1>1, <1>2, <1>3, <1>4

LEMMA OpenStep ==
    ASSUME BandwidthInv, NEW c \in Conns, Open(c)
    PROVE  BandwidthInv'
<1> USE DEF BandwidthInv
<1>1. /\ UNCHANGED <<world, pc, now, rows, tracker, ssTracker, bwSample, record>>
      /\ status' = [status EXCEPT ![c] = "open"] /\ bytes' = [bytes EXCEPT ![c] = Zero]
      /\ since' = [s \in Sources |-> [since[s] EXCEPT !.known = @ \ {c}]]
      /\ events < world.events /\ events' = events + 1
  BY DEF Open, Event
<1>2. Conns' = Conns /\ world \in Worlds /\ world.events \in Nat
  BY <1>1, ConnsAre DEF Conns, TypeOK
<1>3. \A s \in Sources : /\ since'[s].moved = since[s].moved /\ since'[s].known = since[s].known \ {c}
                         /\ since'[s].due = since[s].due /\ since'[s].measured = since[s].measured
                         /\ since'[s] \in [moved : [Conns -> Counters], known : SUBSET Conns,
                                           due : [Conns -> Counters], measured : SUBSET Conns]
  <2> SUFFICES ASSUME NEW s \in Sources
               PROVE  /\ since'[s].moved = since[s].moved /\ since'[s].known = since[s].known \ {c}
                      /\ since'[s].due = since[s].due /\ since'[s].measured = since[s].measured
                      /\ since'[s] \in [moved : [Conns -> Counters], known : SUBSET Conns,
                                        due : [Conns -> Counters], measured : SUBSET Conns]
    OBVIOUS
  <2> HIDE DEF Counters, Conns
  <2>1. since[s] \in [moved : [Conns -> Counters], known : SUBSET Conns,
                      due : [Conns -> Counters], measured : SUBSET Conns]
    BY HistoryType
  <2>2. since'[s] = [since[s] EXCEPT !.known = @ \ {c}]
    BY <1>1
  <2> QED
    BY <2>1, <2>2
<1>4. TypeOK'
  <2>1. world' \in Worlds /\ pc' \in {"idle", "flows", "counters", "append"} /\ now' \in 0 .. MaxCaptures
        /\ (\A t \in DOMAIN rows' : rows'[t] \in Figures)
        /\ TrackerOK(tracker') /\ TrackerOK(ssTracker')
        /\ bwSample' \in [seconds : Nat, available : BOOLEAN]
        /\ (record'.written => Groups(record'.incoming) /\ Groups(record'.outgoing))
    BY <1>1 DEF TypeOK
  <2>2. events' \in 0 .. world'.events
    BY <1>1, <1>2 DEF TypeOK
  <2>3. status' \in [Conns' -> {"open", "closing", "gone"}] /\ bytes' \in [Conns' -> Counters]
    BY <1>1, <1>2 DEF TypeOK, Zero, Counters
  <2>4. since' \in [Sources -> [moved : [Conns' -> Counters], known : SUBSET Conns',
                                due : [Conns' -> Counters], measured : SUBSET Conns']]
    <3> HIDE DEF Counters, Conns
    <3> QED
      BY <1>1, <1>2, <1>3
  <2> QED
    BY <2>1, <2>2, <2>3, <2>4 DEF TypeOK
<1>5. \A e \in Conns, d \in Ends : /\ bytes'[e][d] = (IF e = c THEN 0 ELSE bytes[e][d])
                                   /\ \A s \in Sources : since[s].moved[e][d] \in Nat
  BY <1>1, SinceIs DEF TypeOK, Zero, Ends
<1>6. FlowsFollowed'
  <2>1. ASSUME NEW e \in Conns, NEW d \in Ends, NEW was, Follows("conntrack", e, d, was)
        PROVE  Follows("conntrack", e, d, was)'
    BY <1>3, <1>5, <2>1 DEF Follows, Sources
  <2> QED
    BY <1>1, <1>2, <1>3, <2>1 DEF FlowsFollowed, Sources
<1>7. SocketsFollowed'
  <2>1. ASSUME NEW e \in Conns, NEW d \in Ends, NEW was, Follows("ss", e, d, was)
        PROVE  Follows("ss", e, d, was)'
    BY <1>3, <1>5, <2>1 DEF Follows, Sources
  <2>2. \A e \in Conns : \A t \in DOMAIN e.sockets :
           Direction(e, t) \in Ends /\ Opposite(Direction(e, t)) \in Ends
    BY <1>2, ConnsAre, EndsAre
  <2> QED
    BY <1>1, <1>2, <1>3, <2>1, <2>2 DEF SocketsFollowed, Sources
<1> QED
  BY <1>1, <1>3, <1>4, <1>6, <1>7, CaptureKept

LEMMA CloseStep ==
    ASSUME BandwidthInv, NEW c \in Conns, Close(c)
    PROVE  BandwidthInv'
<1> USE DEF BandwidthInv
<1>1. /\ UNCHANGED <<world, bytes, pc, now, rows, tracker, ssTracker, bwSample, record, since>>
      /\ \E v \in {"closing", "gone"} : status' = [status EXCEPT ![c] = v]
      /\ events < world.events /\ events' = events + 1
  BY DEF Close, Event
<1>2. Conns' = Conns /\ world \in Worlds /\ world.events \in Nat
  BY <1>1, ConnsAre DEF Conns, TypeOK
<1>3. TypeOK'
  <2>1. events' \in 0 .. world'.events
    BY <1>1, <1>2 DEF TypeOK
  <2>2. status' \in [Conns' -> {"open", "closing", "gone"}]
    BY <1>1, <1>2 DEF TypeOK
  <2>3. world' \in Worlds /\ pc' \in {"idle", "flows", "counters", "append"} /\ now' \in 0 .. MaxCaptures
        /\ (\A t \in DOMAIN rows' : rows'[t] \in Figures)
        /\ TrackerOK(tracker') /\ TrackerOK(ssTracker')
        /\ bwSample' \in [seconds : Nat, available : BOOLEAN]
        /\ (record'.written => Groups(record'.incoming) /\ Groups(record'.outgoing))
    BY <1>1 DEF TypeOK
  <2>4. bytes' \in [Conns' -> Counters]
        /\ since' \in [Sources -> [moved : [Conns' -> Counters], known : SUBSET Conns',
                                   due : [Conns' -> Counters], measured : SUBSET Conns']]
    BY <1>1, <1>2, Zenon DEF TypeOK
  <2> QED
    BY <2>1, <2>2, <2>3, <2>4 DEF TypeOK
<1>4. FlowsFollowed'
  BY <1>1, <1>2 DEF FlowsFollowed, Follows
<1>5. SocketsFollowed'
  BY <1>1, <1>2 DEF SocketsFollowed, Follows
<1> QED
  BY <1>1, <1>3, <1>4, <1>5, CaptureKept

LEMMA TransferStep ==
    ASSUME BandwidthInv, NEW c \in Conns, NEW d \in Ends, NEW n \in Bursts, Transfer(c, d, n)
    PROVE  BandwidthInv'
<1> USE DEF BandwidthInv
<1>1. /\ UNCHANGED <<world, status, pc, now, rows, tracker, ssTracker, bwSample, record>>
      /\ bytes' = [bytes EXCEPT ![c][d] = @ + n]
      /\ since' = [s \in Sources |-> IF Sees(s, c) THEN [since[s] EXCEPT !.moved[c][d] = @ + n] ELSE since[s]]
      /\ events < world.events /\ events' = events + 1
  BY DEF Transfer, Event
<1>2. Conns' = Conns /\ world \in Worlds /\ world.events \in Nat /\ n \in Nat
  BY <1>1, ConnsAre, BandwidthAssumption DEF Conns, TypeOK
<1>3. \A y \in Counters : /\ [y EXCEPT ![d] = @ + n] \in Counters
                          /\ \A e \in Ends : [y EXCEPT ![d] = @ + n][e] = IF e = d THEN y[e] + n ELSE y[e]
  BY <1>2 DEF Counters, Ends
<1>4. /\ bytes' \in [Conns -> Counters]
      /\ \A e \in Conns, b \in Ends :
            bytes'[e][b] = IF e = c /\ b = d THEN bytes[e][b] + n ELSE bytes[e][b]
  <2>1. bytes \in [Conns -> Counters]
    BY DEF TypeOK
  <2>2. bytes' = [bytes EXCEPT ![c] = [bytes[c] EXCEPT ![d] = @ + n]]
    BY <1>1
  <2> HIDE DEF Counters, Conns
  <2> DEFINE y == [bytes[c] EXCEPT ![d] = @ + n]
  <2>3. bytes[c] \in Counters
    BY <2>1
  <2>4. y \in Counters /\ \A e \in Ends : y[e] = IF e = d THEN bytes[c][e] + n ELSE bytes[c][e]
    BY <1>3, <2>3
  <2>5. bytes' = [bytes EXCEPT ![c] = y]
    BY <2>2
  <2> HIDE DEF y
  <2> QED
    BY <2>1, <2>4, <2>5
<1>5. ASSUME NEW s \in Sources
      PROVE  /\ since'[s].known = since[s].known
             /\ since'[s].due = since[s].due /\ since'[s].measured = since[s].measured
             /\ since'[s] \in [moved : [Conns -> Counters], known : SUBSET Conns,
                               due : [Conns -> Counters], measured : SUBSET Conns]
             /\ \A e \in Conns, b \in Ends :
                   since'[s].moved[e][b] = IF Sees(s, c) /\ e = c /\ b = d
                                           THEN since[s].moved[e][b] + n ELSE since[s].moved[e][b]
  <2> HIDE DEF Counters, Conns
  <2>1. since[s] \in [moved : [Conns -> Counters], known : SUBSET Conns,
                      due : [Conns -> Counters], measured : SUBSET Conns]
    BY HistoryType
  <2>2. CASE ~Sees(s, c)
    <3>1. since'[s] = since[s]
      BY <1>1, <2>2
    <3> QED
      BY <2>1, <2>2, <3>1
  <2>3. CASE Sees(s, c)
    <3> DEFINE y == [since[s].moved[c] EXCEPT ![d] = @ + n]
    <3>1. since'[s] = [since[s] EXCEPT !.moved = [since[s].moved EXCEPT ![c] = y]]
      BY <1>1, <2>3
    <3>2. since[s].moved \in [Conns -> Counters] /\ since[s].moved[c] \in Counters
      BY <2>1
    <3>3. y \in Counters /\ \A e \in Ends : y[e] = IF e = d THEN since[s].moved[c][e] + n ELSE since[s].moved[c][e]
      BY <1>3, <3>2
    <3> HIDE DEF y
    <3>4. /\ [since[s].moved EXCEPT ![c] = y] \in [Conns -> Counters]
          /\ \A e \in Conns : [since[s].moved EXCEPT ![c] = y][e] = IF e = c THEN y ELSE since[s].moved[e]
      BY <3>2, <3>3
    <3>5. since'[s].moved = [since[s].moved EXCEPT ![c] = y]
      BY <2>1, <3>1
    <3>6. /\ since'[s].known = since[s].known
          /\ since'[s].due = since[s].due /\ since'[s].measured = since[s].measured
          /\ since'[s] \in [moved : [Conns -> Counters], known : SUBSET Conns,
                            due : [Conns -> Counters], measured : SUBSET Conns]
      BY <2>1, <3>1, <3>4
    <3>7. \A e \in Conns, b \in Ends :
             since'[s].moved[e][b] = IF e = c /\ b = d THEN since[s].moved[e][b] + n ELSE since[s].moved[e][b]
      BY <3>3, <3>4, <3>5
    <3> QED
      BY <2>3, <3>6, <3>7
  <2> QED
    BY <2>2, <2>3
<1>6. TypeOK'
  <2>1. events' \in 0 .. world'.events
    BY <1>1, <1>2 DEF TypeOK
  <2>2. since' \in [Sources -> [moved : [Conns' -> Counters], known : SUBSET Conns',
                                due : [Conns' -> Counters], measured : SUBSET Conns']]
    <3> HIDE DEF Counters, Conns
    <3> QED
      BY <1>1, <1>2, <1>5
  <2>3. world' \in Worlds /\ pc' \in {"idle", "flows", "counters", "append"} /\ now' \in 0 .. MaxCaptures
        /\ (\A t \in DOMAIN rows' : rows'[t] \in Figures)
        /\ TrackerOK(tracker') /\ TrackerOK(ssTracker')
        /\ bwSample' \in [seconds : Nat, available : BOOLEAN]
        /\ (record'.written => Groups(record'.incoming) /\ Groups(record'.outgoing))
    BY <1>1 DEF TypeOK
  <2>4. status' \in [Conns' -> {"open", "closing", "gone"}] /\ bytes' \in [Conns' -> Counters]
    BY <1>1, <1>2, <1>4, Zenon DEF TypeOK
  <2> QED
    BY <2>1, <2>2, <2>3, <2>4 DEF TypeOK
<1>7. ASSUME NEW s \in Sources, NEW e \in Conns, NEW b \in Ends, NEW was, was \in Nat,
             e = c => Sees(s, c), Follows(s, e, b, was)
      PROVE  Follows(s, e, b, was)'
  <2>1. since[s].moved[e][b] \in Nat /\ bytes[e][b] \in Nat
    <3>1. bytes[e] \in Counters
      BY DEF TypeOK
    <3> QED
      BY <3>1, SinceIs, CountersAre
  <2>2. /\ since'[s].known = since[s].known
        /\ bytes'[e][b] = IF e = c /\ b = d THEN bytes[e][b] + n ELSE bytes[e][b]
        /\ since'[s].moved[e][b] = IF e = c /\ b = d THEN since[s].moved[e][b] + n ELSE since[s].moved[e][b]
    BY <1>4, <1>5, <1>7
  <2> QED
    BY <1>2, <1>7, <2>1, <2>2 DEF Follows
<1>8. FlowsFollowed'
  <2>1. "conntrack" \in Sources /\ since'["conntrack"].known = since["conntrack"].known
    BY <1>5 DEF Sources
  <2>2. ASSUME NEW e \in Conns, FlowId(e) \in DOMAIN tracker.prev, NEW b \in Ends, world.accounting
        PROVE  Follows("conntrack", e, b, tracker.prev[FlowId(e)][b])'
    <3>1. tracker.prev[FlowId(e)] \in Counters
      BY <2>2 DEF TypeOK, TrackerOK, Counters
    <3>2. tracker.prev[FlowId(e)][b] \in Nat /\ Sees("conntrack", e)
      BY <2>2, <3>1, CountersAre DEF Sees, FlowsFollowed
    <3>3. Follows("conntrack", e, b, tracker.prev[FlowId(e)][b])
      BY <2>2 DEF FlowsFollowed
    <3> QED
      BY <1>1, <1>4, <1>5, <1>7, <2>1, <3>2, <3>3 DEF Follows, FlowId
  <2> QED
    BY <1>1, <1>2, <2>1, <2>2 DEF FlowsFollowed
<1>9. SocketsFollowed'
  <2>1. "ss" \in Sources /\ since'["ss"].known = since["ss"].known
    BY <1>5 DEF Sources
  <2>2. ASSUME NEW e \in Conns, NEW t \in DOMAIN e.sockets, t \in DOMAIN ssTracker.prev
        PROVE  /\ Follows("ss", e, Direction(e, t), ssTracker.prev[t].orig)'
               /\ Follows("ss", e, Opposite(Direction(e, t)), ssTracker.prev[t].reply)'
    <3>1. ssTracker.prev[t].orig \in Nat /\ ssTracker.prev[t].reply \in Nat
      BY <2>2 DEF TypeOK, TrackerOK
    <3>2. Direction(e, t) \in Ends /\ Opposite(Direction(e, t)) \in Ends /\ Sees("ss", e)
      BY <1>2, ConnsAre, EndsAre DEF Sees
    <3>3. /\ Follows("ss", e, Direction(e, t), ssTracker.prev[t].orig)
          /\ Follows("ss", e, Opposite(Direction(e, t)), ssTracker.prev[t].reply)
      BY <2>2 DEF SocketsFollowed
    <3> QED
      BY <1>1, <1>7, <2>1, <3>1, <3>2, <3>3 DEF Follows
  <2> QED
    BY <1>1, <1>2, <2>1, <2>2 DEF SocketsFollowed
<1> QED
  BY <1>1, <1>5, <1>6, <1>8, <1>9, CaptureKept

-----------------------------------------------------------------------------
(* The capture                                                               *)

LEMMA ReportedIs ==
    ASSUME TypeOK, NEW s \in Sources
    PROVE  /\ Reported[s].moved = since[s].moved /\ Reported[s].known = since[s].known
           /\ Reported[s].due = ZeroDue /\ Reported[s].measured = {}
           /\ Reported[s] \in [moved : [Conns -> Counters], known : SUBSET Conns,
                               due : [Conns -> Counters], measured : SUBSET Conns]
           /\ [Reported[s] EXCEPT !.known = {}] \in
                  [moved : [Conns -> Counters], known : SUBSET Conns,
                   due : [Conns -> Counters], measured : SUBSET Conns]
           /\ [Reported[s] EXCEPT !.known = {}].moved = since[s].moved
           /\ [Reported[s] EXCEPT !.known = {}].known = {}
           /\ [Reported[s] EXCEPT !.known = {}].due = ZeroDue
           /\ [Reported[s] EXCEPT !.known = {}].measured = {}
<1>1. ZeroDue \in [Conns -> Counters]
  BY DEF ZeroDue, Zero, Counters
<1>2. Reported[s] = [since[s] EXCEPT !.due = ZeroDue, !.measured = {}]
  BY DEF Reported, ZeroDue
<1> HIDE DEF Counters, Conns, ZeroDue
<1> QED
  BY <1>1, <1>2, HistoryType

LEMMA AppendStep ==
    ASSUME BandwidthInv, Append
    PROVE  BandwidthInv'
<1> USE DEF BandwidthInv
<1>1. /\ UNCHANGED <<world, status, bytes, now, events, tracker, ssTracker>>
      /\ pc' = "idle" /\ rows' = NoRows /\ bwSample' = NoSample /\ record' = NoRecord
      /\ since' = Reported /\ pc = "append"
  BY DEF Append, Discarded, hostVars
<1>2. Conns' = Conns /\ ZeroDue' = ZeroDue /\ world' \in Worlds /\ DOMAIN rows' = {}
  BY <1>1 DEF Conns, ZeroDue, TypeOK, NoRows
<1>3. \A s \in Sources : /\ since'[s].moved = since[s].moved /\ since'[s].known = since[s].known
                         /\ since'[s].due = ZeroDue /\ since'[s].measured = {}
                         /\ since'[s] \in [moved : [Conns -> Counters], known : SUBSET Conns,
                                           due : [Conns -> Counters], measured : SUBSET Conns]
  BY <1>1, ReportedIs
<1>4. TypeOK'
  <2>1. since' \in [Sources -> [moved : [Conns' -> Counters], known : SUBSET Conns',
                                due : [Conns' -> Counters], measured : SUBSET Conns']]
    <3>1. DOMAIN Reported = Sources /\ Reported = [s \in Sources |-> Reported[s]]
      BY DEF Reported
    <3> HIDE DEF Counters, Conns
    <3> QED
      BY <1>1, <1>2, <1>3, <3>1
  <2>2. status' \in [Conns' -> {"open", "closing", "gone"}] /\ bytes' \in [Conns' -> Counters]
    BY <1>1, <1>2, Zenon DEF TypeOK
  <2>3. world' \in Worlds /\ pc' \in {"idle", "flows", "counters", "append"} /\ now' \in 0 .. MaxCaptures
        /\ events' \in 0 .. world'.events
        /\ (\A t \in DOMAIN rows' : rows'[t] \in Figures)
        /\ TrackerOK(tracker') /\ TrackerOK(ssTracker')
    BY <1>1, <1>2 DEF TypeOK
  <2>4. bwSample' \in [seconds : Nat, available : BOOLEAN] /\ ~record'.written
    BY <1>1 DEF NoSample, NoRecord
  <2> QED
    BY <2>1, <2>2, <2>3, <2>4 DEF TypeOK
<1>5. FlowsFollowed'
  BY <1>1, <1>2, <1>3 DEF FlowsFollowed, Follows, Sources
<1>6. SocketsFollowed'
  BY <1>1, <1>2, <1>3 DEF SocketsFollowed, Follows, Sources
<1>7. TrackersInv'
  BY <1>1 DEF TrackersInv
<1>8. CaptureInv'
  BY <1>1, <1>2, <1>3 DEF CaptureInv, NoRecord, Sources
<1> QED
  BY <1>2, <1>4, <1>5, <1>6, <1>7, <1>8, NoFigures

LEMMA RestartStep ==
    ASSUME BandwidthInv, Restart
    PROVE  BandwidthInv'
<1> USE DEF BandwidthInv
<1>1. /\ UNCHANGED <<world, status, bytes, now>>
      /\ events < world.events /\ events' = events + 1
      /\ pc' = "idle" /\ rows' = NoRows /\ bwSample' = NoSample /\ record' = NoRecord
      /\ tracker' = NewTracker /\ ssTracker' = NewTracker
      /\ since' = [s \in Sources |-> [Reported[s] EXCEPT !.known = {}]]
  BY DEF Restart, Discarded, hostVars, Event
<1>2. Conns' = Conns /\ ZeroDue' = ZeroDue /\ world' \in Worlds /\ DOMAIN rows' = {}
      /\ world.events \in Nat
  BY <1>1, ConnsAre DEF Conns, ZeroDue, TypeOK, NoRows
<1>3. \A s \in Sources : /\ since'[s].known = {} /\ since'[s].due = ZeroDue /\ since'[s].measured = {}
                         /\ since'[s] \in [moved : [Conns -> Counters], known : SUBSET Conns,
                                           due : [Conns -> Counters], measured : SUBSET Conns]
  BY <1>1, ReportedIs
<1>4. DOMAIN tracker'.prev = {} /\ DOMAIN ssTracker'.prev = {} /\ tracker'.prevAt = 0 /\ ssTracker'.prevAt = 0
  BY <1>1 DEF NewTracker, NoRows
<1>5. TypeOK'
  <2>1. since' \in [Sources -> [moved : [Conns' -> Counters], known : SUBSET Conns',
                                due : [Conns' -> Counters], measured : SUBSET Conns']]
    <3> HIDE DEF Counters, Conns
    <3> QED
      BY <1>1, <1>2, <1>3
  <2>2. status' \in [Conns' -> {"open", "closing", "gone"}] /\ bytes' \in [Conns' -> Counters]
    BY <1>1, <1>2, Zenon DEF TypeOK
  <2>3. world' \in Worlds /\ pc' \in {"idle", "flows", "counters", "append"} /\ now' \in 0 .. MaxCaptures
        /\ events' \in 0 .. world'.events
        /\ (\A t \in DOMAIN rows' : rows'[t] \in Figures)
    BY <1>1, <1>2 DEF TypeOK
  <2>4. TrackerOK(tracker') /\ TrackerOK(ssTracker')
    BY <1>4, BandwidthAssumption DEF TrackerOK
  <2>5. bwSample' \in [seconds : Nat, available : BOOLEAN] /\ ~record'.written
    BY <1>1 DEF NoSample, NoRecord
  <2> QED
    BY <2>1, <2>2, <2>3, <2>4, <2>5 DEF TypeOK
<1>6. FlowsFollowed' /\ SocketsFollowed'
  BY <1>3, <1>4 DEF FlowsFollowed, SocketsFollowed, Sources
<1>7. TrackersInv'
  BY <1>1, <1>4 DEF TrackersInv, TypeOK
<1>8. CaptureInv'
  BY <1>1, <1>2, <1>3 DEF CaptureInv, NoRecord, Sources
<1> QED
  BY <1>2, <1>5, <1>6, <1>7, <1>8, NoFigures

LEMMA SocketTableIs ==
    ASSUME world \in Worlds
    PROVE  /\ Table(SocketTable)
           /\ \A t \in DOMAIN SocketTable :
                 /\ \E c \in Conns : t \in DOMAIN c.sockets
                 /\ SocketTable[t].source = "none" /\ SocketTable[t].tx = 0 /\ SocketTable[t].rx = 0
<1> DEFINE D == {s[2] : s \in Sockets}
           conn(t) == CHOOSE d \in Conns : <<d, t>> \in Sockets
<1>1. SocketTable = [t \in D |-> [proc |-> conn(t).sockets[t], self |-> conn(t).self,
                                  tx |-> 0, rx |-> 0, source |-> "none"]]
  BY Zenon DEF SocketTable
<1>2. ASSUME NEW t \in D
      PROVE  conn(t) \in Conns /\ t \in DOMAIN conn(t).sockets /\ t \in Tuples
             /\ conn(t).sockets[t] \in Nat /\ conn(t).self \in BOOLEAN
  <2>1. PICK s \in Sockets : t = s[2]
    OBVIOUS
  <2>2. s[1] \in Conns /\ <<s[1], t>> \in Sockets
    BY <2>1, SocketsIn
  <2>3. conn(t) \in Conns /\ <<conn(t), t>> \in Sockets
    BY <2>2, Zenon
  <2> HIDE DEF conn
  <2>4. t \in DOMAIN conn(t).sockets
    BY <2>3, SocketsIn
  <2> QED
    BY <2>3, <2>4, ConnsAre
<1>3. IsFiniteSet(D)
  <2> DEFINE h == [s \in Sockets |-> s[2]]
  <2>1. h \in Surjection(Sockets, D)
    BY DEF Surjection
  <2> HIDE DEF h, D
  <2> QED
    BY <2>1, SocketSampleIs, FS_Surjection
<1> HIDE DEF D, conn
<1>4. DOMAIN SocketTable = D
  BY <1>1
<1>5. \A t \in D : /\ SocketTable[t] \in Figures
                   /\ SocketTable[t].source = "none" /\ SocketTable[t].tx = 0 /\ SocketTable[t].rx = 0
  BY <1>1, <1>2 DEF Figures
<1>6. SocketTable \in [D -> Figures]
  BY <1>1, <1>5
<1>7. Table(SocketTable)
  BY <1>2, <1>3, <1>4, <1>6 DEF Table
<1> QED
  BY <1>2, <1>4, <1>5, <1>7

\* The one row of a connection is the same row again, or the one of a socket.
RowsOf(conns, c) == {t \in DOMAIN conns : t \in {c.orig, Flip(c.orig), c.reply, Flip(c.reply)}}

LEMMA SocketsFinite ==
    ASSUME world \in Worlds, NEW c \in Conns
    PROVE  /\ IsFiniteSet(DOMAIN c.sockets) /\ Cardinality(DOMAIN c.sockets) \in Nat
           /\ DOMAIN c.sockets \subseteq TuplesOf(c)
<1>1. DOMAIN c.sockets \subseteq {c.orig, c.reply}
  BY WorldsAssumption DEF Conns
<1>2. IsFiniteSet({c.orig} \cup {c.reply})
  BY FS_Singleton, FS_Union
<1>3. IsFiniteSet(DOMAIN c.sockets)
  BY <1>1, <1>2, FS_Subset
<1> QED
  BY <1>1, <1>3, FS_CardinalityType DEF TuplesOf

LEMMA SocketRows ==
    ASSUME world \in Worlds, NEW c \in Conns, NEW conns,
           \A t \in DOMAIN conns : \E e \in Conns : t \in DOMAIN e.sockets
    PROVE  /\ RowsOf(conns, c) \subseteq DOMAIN c.sockets
           /\ Cardinality(RowsOf(conns, c)) <=
                 (IF DOMAIN c.sockets = {} THEN 1 ELSE Cardinality(DOMAIN c.sockets))
<1>1. RowsOf(conns, c) \subseteq DOMAIN c.sockets
  <2> SUFFICES ASSUME NEW t \in RowsOf(conns, c) PROVE t \in DOMAIN c.sockets
    OBVIOUS
  <2>1. t \in DOMAIN conns /\ t \in TuplesOf(c)
    BY DEF RowsOf, TuplesOf
  <2>2. PICK e \in Conns : t \in DOMAIN e.sockets
    BY <2>1
  <2>3. t \in TuplesOf(e)
    BY <2>2, SocketsFinite
  <2> QED
    BY <2>1, <2>2, <2>3, SameTuple
<1> QED
  BY <1>1, SocketsFinite, FS_Subset, FS_CardinalityType, FS_EmptySet

LEMMA TopTalkersStep ==
    ASSUME BandwidthInv, NEW ok \in BOOLEAN, CollectTopTalkers(ok)
    PROVE  BandwidthInv'
<1> USE DEF BandwidthInv
<1>1. /\ UNCHANGED <<world, status, bytes, tracker, ssTracker, bwSample, record, since>>
      /\ pc = "idle" /\ now < MaxCaptures /\ now' = now + 1
      /\ \/ pc' = "flows" /\ rows' = SocketTable /\ events' = events
         \/ events < world.events /\ events' = events + 1 /\ pc' = pc /\ rows' = rows
  BY DEF CollectTopTalkers, Event, hostVars
<1>2. Conns' = Conns /\ ZeroDue' = ZeroDue /\ world \in Worlds /\ world' \in Worlds
      /\ world.events \in Nat /\ MaxCaptures \in Nat
  BY <1>1, ConnsAre, BandwidthAssumption DEF Conns, ZeroDue, TypeOK
<1>3. ~record.written
  BY <1>1 DEF CaptureInv
<1>4. TypeRows' /\ \A t \in DOMAIN rows' : rows'[t].source = "none"
  <2>1. CASE rows' = SocketTable
    BY <1>2, <2>1, SocketTableIs DEF TypeRows
  <2>2. CASE rows' = rows
    BY <1>1, <2>2 DEF TypeRows, CaptureInv
  <2> QED
    BY <1>1, <2>1, <2>2
<1>5. TypeOK'
  <2>1. events' \in 0 .. world'.events /\ now' \in 0 .. MaxCaptures
    BY <1>1, <1>2 DEF TypeOK
  <2>2. \A t \in DOMAIN rows' : rows'[t] \in Figures
    BY <1>4 DEF TypeRows, Table
  <2>3. world' \in Worlds /\ pc' \in {"idle", "flows", "counters", "append"}
        /\ TrackerOK(tracker') /\ TrackerOK(ssTracker')
        /\ bwSample' \in [seconds : Nat, available : BOOLEAN] /\ ~record'.written
    BY <1>1, <1>3 DEF TypeOK
  <2>4. status' \in [Conns' -> {"open", "closing", "gone"}] /\ bytes' \in [Conns' -> Counters]
        /\ since' \in [Sources -> [moved : [Conns' -> Counters], known : SUBSET Conns',
                                   due : [Conns' -> Counters], measured : SUBSET Conns']]
    BY <1>1, <1>2, Zenon DEF TypeOK
  <2> QED
    BY <2>1, <2>2, <2>3, <2>4 DEF TypeOK
<1>6. FlowsFollowed' /\ SocketsFollowed'
  BY <1>1, <1>2 DEF FlowsFollowed, SocketsFollowed, Follows
<1>7. TrackersInv'
  BY <1>1 DEF TrackersInv, TypeOK, TrackerOK
<1>8. \A t \in DOMAIN rows' : \E c \in Conns : t \in DOMAIN c.sockets
  BY <1>1, <1>2, SocketTableIs DEF CaptureInv
<1>9. CaptureInv'
  BY <1>1, <1>2, <1>3, <1>4, <1>8 DEF CaptureInv
<1>10. NothingInvented'
  BY <1>4, InventionIs
<1>11. FlowsExact' /\ LivingTrafficIsExact'
  <2>1. since'["conntrack"].measured = {} /\ pc' # "append"
    BY <1>1 DEF CaptureInv
  <2> QED
    BY <2>1, Zenon DEF FlowsExact, LivingTrafficIsExact, Measurable
<1>12. OneRowPerConnection'
  BY <1>2, <1>8, SocketRows DEF OneRowPerConnection, RowsOf
<1> QED
  BY <1>4, <1>5, <1>6, <1>7, <1>9, <1>10, <1>11, <1>12

\* A flow of an open connection is the row of its socket, if it has any.
LEMMA FacingIs ==
    ASSUME world \in Worlds, NEW c \in Conns, NEW local,
           LocalAddrs \subseteq local, local \subseteq HostAddrs(world)
    PROVE  /\ HostFacing(FlowOf(c), local) \subseteq Tuples \cap TuplesOf(c)
           /\ IsFiniteSet(HostFacing(FlowOf(c), local))
           /\ Cardinality(HostFacing(FlowOf(c), local)) <= 1
           /\ DOMAIN c.sockets # {} => HostFacing(FlowOf(c), local) \subseteq DOMAIN c.sockets
<1> DEFINE F == HostFacing(FlowOf(c), local)
<1>1. FlowOf(c).orig = c.orig
  BY DEF FlowOf
<1>2. /\ c.orig \in Tuples /\ c.reply \in Tuples
      /\ DOMAIN c.sockets \subseteq {c.orig, c.reply}
      /\ c.reply \in DOMAIN c.sockets => c.reply = Flip(c.orig)
      /\ \A t \in DOMAIN c.sockets :
            t.src \in LocalAddrs \/ t.dst \notin HostAddrs(world) \/ Flip(t) \in DOMAIN c.sockets
  BY WorldsAssumption DEF Conns
<1>3. /\ Flip(c.orig) \in Tuples /\ Flip(Flip(c.orig)) = c.orig
      /\ Flip(c.orig).src = c.orig.dst /\ Flip(c.orig).dst = c.orig.src
  BY <1>2 DEF Flip, Tuples
<1>4. \/ F = {} /\ ~(c.orig.src \in local /\ c.orig.dst \notin local)
                /\ ~(c.orig.dst \in local /\ c.orig.src \notin local)
      \/ F = {c.orig} /\ c.orig.src \in local /\ c.orig.dst \notin local
      \/ F = {Flip(c.orig)} /\ c.orig.dst \in local /\ c.orig.src \notin local
  BY <1>1 DEF HostFacing
<1>5. IsFiniteSet(F) /\ Cardinality(F) <= 1
  <2> HIDE DEF F
  <2>1. /\ IsFiniteSet({}) /\ Cardinality({}) = 0
        /\ IsFiniteSet({c.orig}) /\ Cardinality({c.orig}) = 1
        /\ IsFiniteSet({Flip(c.orig)}) /\ Cardinality({Flip(c.orig)}) = 1
    BY FS_EmptySet, FS_Singleton
  <2> QED
    BY <1>4, <2>1
<1>6. F \subseteq Tuples \cap TuplesOf(c)
  BY <1>2, <1>3, <1>4 DEF TuplesOf
<1>7. ASSUME DOMAIN c.sockets # {} PROVE F \subseteq DOMAIN c.sockets
  <2>1. CASE F = {}
    BY <2>1
  <2>2. CASE F = {c.orig} /\ c.orig.src \in local /\ c.orig.dst \notin local
    <3>1. CASE c.orig \in DOMAIN c.sockets
      BY <2>2, <3>1
    <3>2. CASE c.orig \notin DOMAIN c.sockets
      <4>1. Flip(c.orig) \in DOMAIN c.sockets
        BY <1>2, <1>7, <3>2
      <4>2. Flip(Flip(c.orig)) \in DOMAIN c.sockets
        BY <1>2, <1>3, <2>2, <4>1
      <4> QED
        BY <1>3, <3>2, <4>2
    <3> QED
      BY <3>1, <3>2
  <2>3. CASE F = {Flip(c.orig)} /\ c.orig.dst \in local /\ c.orig.src \notin local
    <3>1. CASE c.reply \in DOMAIN c.sockets
      BY <1>2, <2>3, <3>1
    <3>2. CASE c.reply \notin DOMAIN c.sockets
      <4>1. c.orig \in DOMAIN c.sockets
        BY <1>2, <1>7, <3>2
      <4> QED
        BY <1>2, <2>3, <4>1
    <3> QED
      BY <3>1, <3>2
  <2> QED
    BY <1>4, <2>1, <2>2, <2>3
<1> QED
  BY <1>5, <1>6, <1>7

LEMMA MergedIs ==
    ASSUME world \in Worlds, NEW conns, Table(conns), NEW flows, flows \subseteq Flows,
           \A t \in DOMAIN conns : \E e \in Conns : t \in DOMAIN e.sockets,
           NEW merged, merged = MergeConntrackHostFlows(conns, flows)
    PROVE  /\ Table(merged) /\ DOMAIN conns \subseteq DOMAIN merged
           /\ \A t \in DOMAIN merged : merged[t] = IF t \in DOMAIN conns THEN conns[t] ELSE NatRow
           /\ \A c \in Conns : Cardinality(RowsOf(merged, c)) <=
                 (IF DOMAIN c.sockets = {} THEN 1 ELSE Cardinality(DOMAIN c.sockets))
<1> DEFINE local == LocalAddrs \cup {t.src : t \in DOMAIN conns}
           up == {g \in flows : g.established}
           parts == {HostFacing(f, local) : f \in up}
           facing == UNION parts
<1>1. merged = [t \in DOMAIN conns \cup facing |-> IF t \in DOMAIN conns THEN conns[t] ELSE NatRow]
  BY Zenon DEF MergeConntrackHostFlows
<1>2. LocalAddrs \subseteq local /\ local \subseteq HostAddrs(world)
  BY DEF HostAddrs, Conns
<1>3. ASSUME NEW f \in up
      PROVE  \E c \in Conns : f = FlowOf(c)
  BY FlowsAre DEF Tracks
<1>4. IsFiniteSet(parts)
  <2>1. IsFiniteSet(Flows)
    <3> DEFINE h == [c \in Tracks |-> FlowOf(c)]
    <3>1. h \in Surjection(Tracks, Flows)
      BY FlowsAre DEF Surjection
    <3>2. IsFiniteSet(Tracks)
      BY FlowSampleIs, ConnsAre, FS_Subset
    <3> HIDE DEF h
    <3> QED
      BY <3>1, <3>2, FS_Surjection
  <2>2. IsFiniteSet(up)
    <3>1. up \subseteq Flows
      OBVIOUS
    <3> QED
      BY <2>1, <3>1, FS_Subset
  <2> DEFINE h == [f \in up |-> HostFacing(f, local)]
  <2>3. h \in Surjection(up, parts)
    <3> HIDE DEF local, up
    <3> QED
      BY DEF Surjection
  <2> HIDE DEF h, up, parts
  <2> QED
    BY <2>2, <2>3, FS_Surjection
<1>5. IsFiniteSet(facing) /\ facing \subseteq Tuples
  <2>1. \A p \in parts : IsFiniteSet(p) /\ p \subseteq Tuples
    <3> SUFFICES ASSUME NEW f \in up
                 PROVE  IsFiniteSet(HostFacing(f, local)) /\ HostFacing(f, local) \subseteq Tuples
      OBVIOUS
    <3> HIDE DEF local, up
    <3> QED
      BY <1>2, <1>3, FacingIs
  <2> HIDE DEF parts
  <2>2. IsFiniteSet(facing)
    BY <1>4, <2>1, FS_UNION
  <2> QED
    BY <2>1, <2>2
<1>6. \A t \in facing : \E c \in Conns : t \in HostFacing(FlowOf(c), local)
  <2> SUFFICES ASSUME NEW f \in up, NEW t \in HostFacing(f, local)
               PROVE  \E c \in Conns : t \in HostFacing(FlowOf(c), local)
    OBVIOUS
  <2> HIDE DEF local, up
  <2> QED
    BY <1>3
<1> HIDE DEF local, up, parts, facing
<1>7. /\ DOMAIN merged = DOMAIN conns \cup facing
      /\ \A t \in DOMAIN merged : merged[t] = IF t \in DOMAIN conns THEN conns[t] ELSE NatRow
  BY <1>1
<1>8. Table(merged)
  <2>1. IsFiniteSet(DOMAIN merged) /\ DOMAIN merged \subseteq Tuples
    <3>1. IsFiniteSet(DOMAIN conns) /\ DOMAIN conns \subseteq Tuples
      BY DEF Table
    <3>2. IsFiniteSet(DOMAIN conns \cup facing)
      BY <1>5, <3>1, FS_Union
    <3> QED
      BY <1>5, <1>7, <3>1, <3>2
  <2>2. \A t \in DOMAIN merged : merged[t] \in Figures
    <3>1. NatRow \in Figures
      BY DEF NatRow, NatProc, Figures
    <3>2. \A t \in DOMAIN conns : conns[t] \in Figures
      BY DEF Table
    <3> HIDE DEF Figures
    <3> QED
      BY <1>7, <3>1, <3>2
  <2> HIDE DEF Figures
  <2>3. merged \in [DOMAIN merged -> Figures]
    BY <1>1, <1>7, <2>2
  <2> QED
    BY <2>1, <2>3 DEF Table
<1>9. ASSUME NEW c \in Conns
      PROVE  Cardinality(RowsOf(merged, c)) <=
                (IF DOMAIN c.sockets = {} THEN 1 ELSE Cardinality(DOMAIN c.sockets))
  <2>1. RowsOf(conns, c) \subseteq DOMAIN c.sockets
    BY SocketRows
  <2>2. ASSUME NEW t \in RowsOf(merged, c)
        PROVE  t \in DOMAIN c.sockets \/ t \in HostFacing(FlowOf(c), local)
    <3>1. t \in DOMAIN merged /\ t \in TuplesOf(c)
      BY DEF RowsOf, TuplesOf
    <3>2. CASE t \in DOMAIN conns
      BY <2>1, <3>1, <3>2 DEF RowsOf, TuplesOf
    <3>3. CASE t \in facing
      <4>1. PICK e \in Conns : t \in HostFacing(FlowOf(e), local)
        BY <1>6, <3>3
      <4>2. t \in TuplesOf(e)
        BY <1>2, <4>1, FacingIs
      <4>3. e = c
        BY <3>1, <4>2, SameTuple
      <4> QED
        BY <4>1, <4>3
    <3> QED
      BY <1>7, <3>1, <3>2, <3>3
  <2>3. CASE DOMAIN c.sockets # {}
    <3>1. RowsOf(merged, c) \subseteq DOMAIN c.sockets
      BY <1>2, <2>2, <2>3, FacingIs
    <3> QED
      BY <2>3, <3>1, SocketsFinite, FS_Subset
  <2>4. CASE DOMAIN c.sockets = {}
    <3>1. RowsOf(merged, c) \subseteq HostFacing(FlowOf(c), local)
      BY <2>2, <2>4
    <3>2. IsFiniteSet(HostFacing(FlowOf(c), local)) /\ Cardinality(HostFacing(FlowOf(c), local)) <= 1
      BY <1>2, FacingIs
    <3>3. /\ Cardinality(RowsOf(merged, c)) <= Cardinality(HostFacing(FlowOf(c), local))
          /\ Cardinality(RowsOf(merged, c)) \in Nat /\ Cardinality(HostFacing(FlowOf(c), local)) \in Nat
      BY <3>1, <3>2, FS_Subset, FS_CardinalityType
    <3> QED
      BY <2>4, <3>2, <3>3
  <2> QED
    BY <2>3, <2>4
<1> QED
  BY <1>7, <1>8, <1>9

LEMMA MeasuredIs ==
    ASSUME NEW row \in Figures, NEW B, NEW t, NEW source \in Sources,
           TxSum(B, Matches(B, t)) \in Nat, RxSum(B, Matches(B, t)) \in Nat,
           NEW new, new = Measured(row, B, t, source)
    PROVE  /\ new \in Figures /\ new.source = source
           /\ new.tx = TxSum(B, Matches(B, t)) /\ new.rx = RxSum(B, Matches(B, t))
<1>1. new = [row EXCEPT !.tx = TxSum(B, Matches(B, t)), !.rx = RxSum(B, Matches(B, t)), !.source = source]
  BY Zenon DEF Measured, TxSum, RxSum
<1> QED
  BY <1>1 DEF Figures, Sources

LEMMA TakenIs ==
    ASSUME TypeOK, NEW s \in Sources, since' = Taken(s), world' = world
    PROVE  /\ since'[s].moved = ZeroDue /\ since'[s].known = Present(s)
           /\ since'[s].due = since[s].moved /\ since'[s].measured = since[s].known \cap Present(s)
           /\ \A r \in Sources : r # s => since'[r] = since[r]
           /\ since' \in [Sources -> [moved : [Conns' -> Counters], known : SUBSET Conns',
                                      due : [Conns' -> Counters], measured : SUBSET Conns']]
<1> DEFINE new == [moved |-> ZeroDue, known |-> Present(s),
                   due |-> since[s].moved, measured |-> since[s].known \cap Present(s)]
<1>1. since' = [since EXCEPT ![s] = new]
  BY DEF Taken, ZeroDue
<1>2. ZeroDue \in [Conns -> Counters] /\ Present(s) \subseteq Conns /\ Conns' = Conns
  BY DEF ZeroDue, Zero, Counters, Present, Conns
<1> DEFINE History == [moved : [Conns -> Counters], known : SUBSET Conns,
                       due : [Conns -> Counters], measured : SUBSET Conns]
<1>3. since \in [Sources -> History]
  BY DEF TypeOK
<1>4. new \in History
  <2> HIDE DEF Counters, Conns, ZeroDue
  <2>1. since[s] \in History
    BY <1>3
  <2> QED
    BY <1>2, <2>1
<1>5. /\ new.moved = ZeroDue /\ new.known = Present(s)
      /\ new.due = since[s].moved /\ new.measured = since[s].known \cap Present(s)
  OBVIOUS
<1> HIDE DEF new, History
<1>6. since' \in [Sources -> History] /\ since'[s] = new /\ \A r \in Sources : r # s => since'[r] = since[r]
  BY <1>1, <1>3, <1>4
<1> QED
  BY <1>2, <1>5, <1>6 DEF History

LEMMA AdvancedIs ==
    ASSUME NEW C, NEW trk, \A c, e \in C : c.id = e.id => c = e,
           NEW new, new = Advanced(C, trk)
    PROVE  /\ new.prevAt = now
           /\ \A id : id \in DOMAIN new.prev <=> \E c \in C : c.id = id
           /\ \A c \in C : new.prev[c.id] = [orig |-> c.orig, reply |-> c.reply]
<1> DEFINE ids == {c.id : c \in C}
           the(id) == CHOOSE x \in C : x.id = id
           prev == [id \in ids |-> [orig |-> the(id).orig, reply |-> the(id).reply]]
<1>1. new = [prev |-> prev, prevAt |-> now]
  BY Zenon DEF Advanced
<1>2. new.prev = prev /\ new.prevAt = now
  <2> HIDE DEF prev
  <2> QED
    BY <1>1
<1>3. \A id : id \in ids <=> \E c \in C : c.id = id
  OBVIOUS
<1>4. ASSUME NEW c \in C PROVE the(c.id) = c
  <2>1. the(c.id) \in C /\ the(c.id).id = c.id
    BY Zenon
  <2> HIDE DEF the
  <2> QED
    BY <2>1
<1> HIDE DEF ids, the
<1>5. DOMAIN prev = ids /\ \A c \in C : prev[c.id] = [orig |-> c.orig, reply |-> c.reply]
  <2> SUFFICES ASSUME NEW c \in C PROVE prev[c.id] = [orig |-> c.orig, reply |-> c.reply]
    OBVIOUS
  <2>1. c.id \in ids /\ the(c.id) = c
    BY <1>3, <1>4
  <2> QED
    BY <2>1
<1> QED
  BY <1>2, <1>3, <1>5

LEMMA SumOfZeros ==
    ASSUME NEW S, IsFiniteSet(S), NEW f \in [S -> Nat], \A x \in S : f[x] = 0
    PROVE  SumFunction(f) = 0
<1>1. Units(f, S) = {}
  BY UnitsAre
<1> QED
  BY <1>1, SumIsUnits, FS_EmptySet

\* Without accounting conntrack has nothing on any tuple.
LEMMA FlowsSilent ==
    ASSUME TypeOK, FlowsFollowed, TrackersInv, ~world.accounting, NEW t,
           NEW B, B = FlowSnapshot(Flows), NEW M, M = Matches(B, t)
    PROVE  TxSum(B, M) = 0 /\ RxSum(B, M) = 0
<1> DEFINE C == FlowSample
           S == PairsOf(C, M)
           h == [x \in S |-> x]
           none == [x \in S |-> 0]
<1>1. world \in Worlds
  BY DEF TypeOK
<1>2. \A c \in C : /\ Delta(c, tracker) = Zero
                   /\ \A e \in c.ends : e[2] \in Ends /\ e = <<e[1], e[2]>>
                   /\ \A e, f \in c.ends : e[2] = f[2] => e = f
  <2> SUFFICES ASSUME NEW c \in C
               PROVE  /\ Delta(c, tracker) = Zero
                      /\ \A e \in c.ends : e[2] \in Ends /\ e = <<e[1], e[2]>>
                      /\ \A e, f \in c.ends : e[2] = f[2] => e = f
    OBVIOUS
  <2>1. PICK d \in Tracks : c = CounterOf(d)
    BY DEF FlowSample
  <2>2. /\ c.ends = {<<d.orig, "orig">>, <<d.reply, "reply">>}
        /\ c.orig = 0 /\ c.reply = 0 /\ c.id = FlowId(d) /\ d \in Conns
    BY <1>1, <2>1, CounterIs, FlowSampleIs
  <2>3. Delta(c, tracker) = Zero
    <3>1. CASE FlowId(d) \in DOMAIN tracker.prev
      <4>1. tracker.prev[FlowId(d)].orig = 0 /\ tracker.prev[FlowId(d)].reply = 0
        BY <2>2, <3>1 DEF FlowsFollowed, Ends
      <4> QED
        BY <2>2, <4>1, BandwidthAssumption DEF Delta, Zero, clampDelta
    <3>2. CASE FlowId(d) \notin DOMAIN tracker.prev
      BY <2>2, <3>2 DEF Delta
    <3> QED
      BY <3>1, <3>2
  <2> QED
    BY <2>2, <2>3 DEF Ends
<1>3. Zero \in Counters /\ \A d \in Ends : Zero[d] = 0 /\ Zero[Opposite(d)] = 0
  BY DEF Zero, Counters, Ends, Opposite
<1>4. \A x \in S : x[1] \in C /\ x[2] \in Ends
  BY DEF PairsOf
<1>5. IsFiniteSet(C) /\ IsFiniteSet(S)
  <2>1. IsFiniteSet(C)
    BY <1>1, FlowSampleIs
  <2>2. IsFiniteSet(Ends)
    <3>1. Ends = {"orig"} \cup {"reply"}
      BY DEF Ends
    <3> QED
      BY <3>1, FS_Singleton, FS_Union
  <2>3. IsFiniteSet(C \X Ends)
    BY <2>1, <2>2, FS_Product
  <2>4. S \subseteq C \X Ends
    BY DEF PairsOf
  <2> QED
    BY <2>1, <2>3, <2>4, FS_Subset
<1>6. B = ByTuple(C, tracker) /\ M \in SUBSET DOMAIN B
  BY FlowsAre, MatchesAre
<1> HIDE DEF C
<1>7. h \in Injection(S, S) /\ none \in [S -> Nat] /\ \A x \in S : h[x] = x /\ none[x] = 0
  <2> HIDE DEF S
  <2> QED
    BY DEF Injection, IsInjective
<1>8. \A x \in S : /\ Delta(x[1], tracker)[x[2]] <= none[h[x]]
                   /\ Delta(x[1], tracker)[Opposite(x[2])] <= none[h[x]]
  <2> SUFFICES ASSUME NEW x \in S
               PROVE  /\ Delta(x[1], tracker)[x[2]] <= none[h[x]]
                      /\ Delta(x[1], tracker)[Opposite(x[2])] <= none[h[x]]
    OBVIOUS
  <2>1. Delta(x[1], tracker) = Zero /\ x[2] \in Ends
    BY <1>2, <1>4
  <2>2. none[h[x]] = 0
    OBVIOUS
  <2>3. Zero[x[2]] = 0 /\ Zero[Opposite(x[2])] = 0
    BY <1>3, <2>1
  <2> QED
    BY <2>1, <2>2, <2>3
<1> HIDE DEF h, none
<1>9. Measures(C, tracker, M, S, none, none, h)
  BY <1>2, <1>3, <1>5, <1>7, <1>8 DEF Measures
<1> HIDE DEF S
<1>10. SumFunction(none) = 0
  BY <1>5, <1>7, SumOfZeros
<1> QED
  BY <1>6, <1>9, <1>10, MeasuresAtMost

LEMMA FlowsStep ==
    ASSUME BandwidthInv, NEW reading \in FlowReadings, CollectConntrackFlowsTCP(reading)
    PROVE  BandwidthInv'
<1> USE DEF BandwidthInv
<1> DEFINE merged == MergeConntrackHostFlows(rows, reading.flows)
           B == FlowSnapshot(Flows)
<1>1. /\ UNCHANGED <<world, status, bytes, now, ssTracker, record>>
      /\ pc = "flows" /\ pc' = "counters"
      /\ \/ /\ rows' = merged /\ events < world.events /\ events' = events + 1
            /\ UNCHANGED <<tracker, bwSample, since>>
         \/ /\ ~reading.err /\ events' = events
            /\ rows' = EnrichConnectionsWithBandwidth(merged, FlowSnapshot(reading.flows))
            /\ tracker' = Advanced({FlowCounters(f) : f \in reading.flows}, tracker)
            /\ bwSample' = SampleOf(tracker)
            /\ since' = Taken("conntrack")
  BY DEF CollectConntrackFlowsTCP, Event, hostVars
<1>2. Conns' = Conns /\ ZeroDue' = ZeroDue /\ world \in Worlds /\ world' \in Worlds
      /\ world.events \in Nat /\ world.accounting \in BOOLEAN /\ ~record.written
  BY <1>1, ConnsAre DEF Conns, ZeroDue, TypeOK, CaptureInv
<1>3. reading.flows \subseteq Flows /\ (~reading.err => reading.flows = Flows)
  BY DEF FlowReadings
<1>4. /\ Table(merged)
      /\ \A t \in DOMAIN merged : merged[t] = IF t \in DOMAIN rows THEN rows[t] ELSE NatRow
      /\ \A c \in Conns : Cardinality(RowsOf(merged, c)) <=
            (IF DOMAIN c.sockets = {} THEN 1 ELSE Cardinality(DOMAIN c.sockets))
  BY <1>1, <1>2, <1>3, MergedIs DEF CaptureInv, TypeRows
<1>5. \A t \in DOMAIN merged : /\ merged[t] \in Figures
                               /\ merged[t].source = "none" /\ merged[t].tx = 0 /\ merged[t].rx = 0
  BY <1>1, <1>4 DEF CaptureInv, TypeRows, Table, NatRow
<1>6. \A s \in {"conntrack", "ss"} : s \in Sources
  BY DEF Sources
<1>7. ASSUME DOMAIN rows' = DOMAIN merged PROVE OneRowPerConnection'
  BY <1>2, <1>4, <1>7 DEF OneRowPerConnection, RowsOf
<1> HIDE DEF merged
<1>8. CASE /\ rows' = merged /\ events < world.events /\ events' = events + 1
           /\ UNCHANGED <<tracker, bwSample, since>>
  <2>1. TypeRows'
    BY <1>4, <1>5, <1>8 DEF TypeRows
  <2>2. TypeOK'
    <3>1. events' \in 0 .. world'.events
      BY <1>1, <1>2, <1>8 DEF TypeOK
    <3>2. \A t \in DOMAIN rows' : rows'[t] \in Figures
      BY <1>5, <1>8
    <3>3. world' \in Worlds /\ pc' \in {"idle", "flows", "counters", "append"} /\ now' \in 0 .. MaxCaptures
          /\ TrackerOK(tracker') /\ TrackerOK(ssTracker')
          /\ bwSample' \in [seconds : Nat, available : BOOLEAN] /\ ~record'.written
      BY <1>1, <1>2, <1>8 DEF TypeOK
    <3>4. status' \in [Conns' -> {"open", "closing", "gone"}] /\ bytes' \in [Conns' -> Counters]
          /\ since' \in [Sources -> [moved : [Conns' -> Counters], known : SUBSET Conns',
                                     due : [Conns' -> Counters], measured : SUBSET Conns']]
      BY <1>1, <1>2, <1>8, Zenon DEF TypeOK
    <3> QED
      BY <3>1, <3>2, <3>3, <3>4 DEF TypeOK
  <2>3. FlowsFollowed' /\ SocketsFollowed'
    BY <1>1, <1>2, <1>8 DEF FlowsFollowed, SocketsFollowed, Follows
  <2>4. TrackersInv'
    BY <1>1, <1>8 DEF TrackersInv
  <2>5. CaptureInv'
    BY <1>1, <1>2, <1>5, <1>8 DEF CaptureInv
  <2>6. NothingInvented'
    BY <1>5, <1>8, InventionIs
  <2>7. FlowsExact' /\ LivingTrafficIsExact'
    <3>1. since'["conntrack"].measured = {} /\ pc' # "append"
      BY <1>1, <1>8 DEF CaptureInv
    <3> QED
      BY <3>1, Zenon DEF FlowsExact, LivingTrafficIsExact, Measurable
  <2> QED
    BY <1>7, <1>8, <2>1, <2>2, <2>3, <2>4, <2>5, <2>6, <2>7
<1>9. CASE /\ ~reading.err /\ events' = events
           /\ rows' = EnrichConnectionsWithBandwidth(merged, FlowSnapshot(reading.flows))
           /\ tracker' = Advanced({FlowCounters(f) : f \in reading.flows}, tracker)
           /\ bwSample' = SampleOf(tracker)
           /\ since' = Taken("conntrack")
  <2>1. /\ since'["conntrack"].moved = ZeroDue /\ since'["conntrack"].known = Tracks
        /\ since'["conntrack"].due = since["conntrack"].moved
        /\ since'["conntrack"].measured = since["conntrack"].known \cap Tracks
        /\ since'["ss"] = since["ss"]
        /\ since' \in [Sources -> [moved : [Conns' -> Counters], known : SUBSET Conns',
                                   due : [Conns' -> Counters], measured : SUBSET Conns']]
    <3>1. Present("conntrack") = Tracks
      BY DEF Present, Sees, Tracks, Tracked
    <3> QED
      BY <1>1, <1>6, <1>9, <3>1, TakenIs
  <2>2. rows' = [t \in DOMAIN merged |-> Measured(merged[t], B, t, "conntrack")]
    BY <1>3, <1>9 DEF EnrichConnectionsWithBandwidth
  <2> HIDE DEF B
  <2>3. DOMAIN rows' = DOMAIN merged
    BY <2>2
  <2>4. ASSUME NEW t \in DOMAIN merged
        PROVE  /\ TxSum(B, Matches(B, t)) \in Nat /\ RxSum(B, Matches(B, t)) \in Nat
               /\ TxSum(B, Matches(B, t)) <= SumFunction(MovedTx("conntrack", t))
               /\ RxSum(B, Matches(B, t)) <= SumFunction(MovedRx("conntrack", t))
    BY FlowsMeasured DEF B
  <2>5. \A t \in DOMAIN rows' : /\ rows'[t] \in Figures /\ rows'[t].source = "conntrack"
                                /\ rows'[t].tx = TxSum(B, Matches(B, t))
                                /\ rows'[t].rx = RxSum(B, Matches(B, t))
    <3> SUFFICES ASSUME NEW t \in DOMAIN merged
                 PROVE  /\ rows'[t] \in Figures /\ rows'[t].source = "conntrack"
                        /\ rows'[t].tx = TxSum(B, Matches(B, t))
                        /\ rows'[t].rx = RxSum(B, Matches(B, t))
      BY <2>3
    <3>1. rows'[t] = Measured(merged[t], B, t, "conntrack")
      BY <2>2
    <3> QED
      BY <1>5, <1>6, <2>4, <3>1, MeasuredIs
  <2>6. TypeRows'
    <3> HIDE DEF Figures
    <3>1. rows' \in [DOMAIN rows' -> Figures]
      BY <2>2, <2>3, <2>5
    <3> QED
      BY <1>4, <2>3, <2>5, <3>1 DEF TypeRows, Table
  <2>7. /\ tracker'.prevAt = now
        /\ \A c \in Conns : FlowId(c) \in DOMAIN tracker'.prev <=> c \in Tracks
        /\ \A id \in DOMAIN tracker'.prev : \E c \in Tracks : id = FlowId(c)
        /\ \A c \in Tracks : tracker'.prev[FlowId(c)] =
              [orig |-> IF world.accounting THEN bytes[c].orig ELSE 0,
               reply |-> IF world.accounting THEN bytes[c].reply ELSE 0]
    <3>1. tracker' = Advanced(FlowSample, tracker)
      BY <1>3, <1>9, FlowsAre
    <3>2. \A c, e \in FlowSample : c.id = e.id => c = e
      BY <1>2, CounterIs, FlowIdIs, FlowSampleIs DEF FlowSample
    <3>3. /\ tracker'.prevAt = now
          /\ \A id : id \in DOMAIN tracker'.prev <=> \E c \in FlowSample : c.id = id
          /\ \A c \in FlowSample : tracker'.prev[c.id] = [orig |-> c.orig, reply |-> c.reply]
      BY <3>1, <3>2, AdvancedIs
    <3>4. \A c \in Tracks : CounterOf(c) \in FlowSample /\ CounterOf(c).id = FlowId(c) /\ c \in Conns
      BY <1>2, CounterIs, FlowSampleIs DEF FlowSample
    <3>5. \A k \in FlowSample : \E c \in Tracks : k = CounterOf(c)
      BY DEF FlowSample
    <3>6. \A c \in Conns : FlowId(c) \in DOMAIN tracker'.prev <=> c \in Tracks
      BY <1>2, <3>3, <3>4, <3>5, FlowIdIs
    <3>7. \A id \in DOMAIN tracker'.prev : \E c \in Tracks : id = FlowId(c)
      BY <3>3, <3>4, <3>5
    <3>8. ASSUME NEW c \in Tracks
          PROVE  tracker'.prev[FlowId(c)] =
                    [orig |-> IF world.accounting THEN bytes[c].orig ELSE 0,
                     reply |-> IF world.accounting THEN bytes[c].reply ELSE 0]
      <4>1. tracker'.prev[FlowId(c)] = [orig |-> CounterOf(c).orig, reply |-> CounterOf(c).reply]
        BY <3>3, <3>4
      <4> QED
        BY <3>4, <4>1, CounterIs
    <3> QED
      BY <3>3, <3>6, <3>7, <3>8
  <2>8. \A c \in Tracks : c \in Conns /\ bytes[c].orig \in Nat /\ bytes[c].reply \in Nat /\ c.tracked
    <3> SUFFICES ASSUME NEW c \in Tracks
                 PROVE  c \in Conns /\ bytes[c].orig \in Nat /\ bytes[c].reply \in Nat /\ c.tracked
      OBVIOUS
    <3>1. c \in Conns /\ c.tracked
      BY DEF Tracks, Tracked
    <3>2. bytes[c] \in Counters
      BY <3>1 DEF TypeOK
    <3> QED
      BY <3>1, <3>2 DEF Counters
  <2>9. TypeOK'
    <3>1. events' \in 0 .. world'.events /\ now' \in 0 .. MaxCaptures
      BY <1>1, <1>9 DEF TypeOK
    <3>2. \A t \in DOMAIN rows' : rows'[t] \in Figures
      BY <2>5
    <3>3. TrackerOK(tracker')
      <4>1. tracker'.prevAt \in 0 .. MaxCaptures
        BY <2>7 DEF TypeOK
      <4>2. ASSUME NEW id \in DOMAIN tracker'.prev
            PROVE  tracker'.prev[id] \in [orig : Nat, reply : Nat]
        <5>1. PICK c \in Tracks : id = FlowId(c)
          BY <2>7
        <5>2. tracker'.prev[id] = [orig |-> IF world.accounting THEN bytes[c].orig ELSE 0,
                                   reply |-> IF world.accounting THEN bytes[c].reply ELSE 0]
          BY <2>7, <5>1
        <5>3. bytes[c].orig \in Nat /\ bytes[c].reply \in Nat
          BY <2>8
        <5> QED
          BY <5>2, <5>3
      <4> QED
        BY <4>1, <4>2 DEF TrackerOK
    <3>4. bwSample' \in [seconds : Nat, available : BOOLEAN]
      BY <1>1, <1>9 DEF SampleOf, TypeOK, TrackerOK, TrackersInv
    <3>5. world' \in Worlds /\ pc' \in {"idle", "flows", "counters", "append"}
          /\ TrackerOK(ssTracker') /\ ~record'.written
      BY <1>1, <1>2 DEF TypeOK
    <3>6. status' \in [Conns' -> {"open", "closing", "gone"}] /\ bytes' \in [Conns' -> Counters]
      BY <1>1, <1>2, Zenon DEF TypeOK
    <3> QED
      BY <2>1, <3>1, <3>2, <3>3, <3>4, <3>5, <3>6 DEF TypeOK
  <2>10. FlowsFollowed'
    <3>1. \A c \in Conns : since'["conntrack"].moved[c] = Zero
      BY <2>1 DEF ZeroDue
    <3>2. ASSUME NEW c \in Conns, FlowId(c) \in DOMAIN tracker'.prev, NEW d \in Ends
          PROVE  /\ c.tracked
                 /\ world.accounting => Follows("conntrack", c, d, tracker.prev[FlowId(c)][d])'
                 /\ ~world.accounting => tracker'.prev[FlowId(c)][d] = 0
      <4>1. c \in Tracks /\ c.tracked /\ c \in since'["conntrack"].known
        BY <2>1, <2>7, <2>8, <3>2
      <4>2. since'["conntrack"].moved[c][d] = 0
        BY <3>1 DEF Zero, Ends
      <4>3. /\ world.accounting => tracker'.prev[FlowId(c)][d] = bytes[c][d]
            /\ ~world.accounting => tracker'.prev[FlowId(c)][d] = 0
        <5>1. tracker'.prev[FlowId(c)] = [orig |-> IF world.accounting THEN bytes[c].orig ELSE 0,
                                          reply |-> IF world.accounting THEN bytes[c].reply ELSE 0]
          BY <2>7, <4>1
        <5>2. d = "orig" \/ d = "reply"
          BY DEF Ends
        <5> QED
          BY <5>1, <5>2
      <4>4. bytes[c][d] \in Nat
        BY <2>8, <4>1 DEF Ends
      <4> QED
        BY <1>1, <4>1, <4>2, <4>3, <4>4 DEF Follows, FlowId
    <3>3. \A c \in since'["conntrack"].known : FlowId(c) \in DOMAIN tracker'.prev
      BY <2>1, <2>7, <2>8
    <3> QED
      BY <1>1, <1>2, <3>2, <3>3 DEF FlowsFollowed, Ends, FlowId
  <2>11. SocketsFollowed'
    BY <1>1, <1>2, <2>1 DEF SocketsFollowed, Follows
  <2>12. TrackersInv'
    BY <1>1, <2>7 DEF TrackersInv, TypeOK
  <2>13. CaptureInv'
    <3>1. ASSUME ~world.accounting, NEW t \in DOMAIN rows'
          PROVE  rows'[t].tx = 0 /\ rows'[t].rx = 0
      BY <2>5, <3>1, FlowsSilent DEF B
    <3> QED
      BY <1>1, <1>2, <2>1, <2>5, <3>1 DEF CaptureInv
  <2>14. \A t : Candidates(t)' = Candidates(t)
    BY <1>1, CandidatesKept
  <2>15. \A t : DueTx("conntrack", t)' = MovedTx("conntrack", t) /\ DueRx("conntrack", t)' = MovedRx("conntrack", t)
    BY <2>1, <2>14, DuesAre DEF MovedTx, MovedRx
  <2>16. NothingInvented'
    <3> SUFFICES ASSUME NEW t \in DOMAIN rows'
                 PROVE  /\ rows'[t].tx <= SumFunction(DueTx(rows[t].source, t)')
                        /\ rows'[t].rx <= SumFunction(DueRx(rows[t].source, t)')
      BY InventionIs
    <3>1. /\ DueTx(rows[t].source, t)' = DueTx("conntrack", t)'
          /\ DueRx(rows[t].source, t)' = DueRx("conntrack", t)'
      BY <2>5 DEF DueTx, DueRx
    <3> QED
      BY <2>3, <2>4, <2>5, <2>15, <3>1
  <2>17. FlowsExact'
    <3> SUFFICES ASSUME NEW t \in DOMAIN rows', NEW x \in Candidates(t),
                        Candidates(t) = {x}, world.accounting, Measurable("conntrack", t, x)'
                 PROVE  ShownExactly("conntrack", t, x)'
      BY <1>1, <2>14 DEF FlowsExact
    <3> DEFINE c == x[1]
               d == x[2]
    <3>1. c \in Conns /\ d \in Ends /\ Opposite(d) \in Ends
      BY <1>2, CandidatesAre, EndsAre
    <3>2. /\ Due("conntrack", x, TRUE)' = since["conntrack"].moved[c][d]
          /\ Due("conntrack", x, FALSE)' = since["conntrack"].moved[c][Opposite(d)]
      BY <2>1 DEF Due
    <3>3. c \in since["conntrack"].known /\ c \in Tracks
      BY <2>1 DEF Measurable
    <3>4. since["conntrack"].moved[c][d] <= MaxDelta /\ since["conntrack"].moved[c][Opposite(d)] <= MaxDelta
      BY <3>2 DEF Measurable
    <3>5. since["conntrack"].moved[c].orig <= MaxDelta /\ since["conntrack"].moved[c].reply <= MaxDelta
      BY <3>1, <3>4 DEF Ends, Opposite
    <3>6. /\ TxSum(B, Matches(B, t)) = since["conntrack"].moved[c][d]
          /\ RxSum(B, Matches(B, t)) = since["conntrack"].moved[c][Opposite(d)]
      BY <3>3, <3>5, FlowsExactly DEF B
    <3> QED
      BY <2>5, <3>2, <3>6 DEF ShownExactly
  <2>18. LivingTrafficIsExact'
    BY <1>1, Zenon DEF LivingTrafficIsExact
  <2> QED
    BY <1>7, <2>3, <2>6, <2>9, <2>10, <2>11, <2>12, <2>13, <2>16, <2>17, <2>18
<1> QED
  BY <1>1, <1>8, <1>9

LEMMA SocketsStep ==
    ASSUME BandwidthInv, NEW ok \in BOOLEAN, CollectSocketTCPCounters(ok)
    PROVE  BandwidthInv'
<1> USE DEF BandwidthInv
<1> DEFINE B == SocketSnapshot(SocketCounterTable)
           over == OverlayMissingBandwidth(rows, SocketSnapshot(SocketCounterTable))
<1>1. /\ UNCHANGED <<world, status, bytes, now, tracker>>
      /\ pc = "counters" /\ pc' = "append" /\ record' = Record(rows', bwSample')
      /\ \/ /\ events < world.events /\ events' = events + 1
            /\ UNCHANGED <<rows, ssTracker, bwSample, since>>
         \/ /\ events' = events
            /\ ssTracker' = Advanced({SocketCounters(s) : s \in SocketCounterTable}, ssTracker)
            /\ since' = Taken("ss")
            /\ \/ /\ SampleOf(ssTracker).available
                  /\ rows' = over
                  /\ bwSample' = IF bwSample.available THEN bwSample ELSE SampleOf(ssTracker)
               \/ ~SampleOf(ssTracker).available /\ UNCHANGED <<rows, bwSample>>
  BY DEF CollectSocketTCPCounters, Event, hostVars
<1>2. Conns' = Conns /\ ZeroDue' = ZeroDue /\ world \in Worlds /\ world' \in Worlds
      /\ world.events \in Nat /\ world.accounting \in BOOLEAN
  BY <1>1, ConnsAre DEF Conns, ZeroDue, TypeOK
<1>3. \A s \in {"conntrack", "ss"} : s \in Sources
  BY DEF Sources
<1>4. \A t \in DOMAIN rows : rows[t] \in Figures /\ rows[t].source \in {"none", "conntrack"}
  BY <1>1 DEF CaptureInv, TypeRows, Table, Figures
<1>5. ASSUME Table(rows') PROVE Groups(record'.incoming) /\ Groups(record'.outgoing) /\ record'.written
  <2>1. /\ record'.incoming = AggregateConnectionsByDirection(rows', Incoming(rows'), "incoming")
        /\ record'.outgoing = AggregateConnectionsByDirection(rows', Outgoing(rows'), "outgoing")
        /\ record'.written
    BY <1>1 DEF Record
  <2>2. Incoming(rows') \in SUBSET DOMAIN rows' /\ Outgoing(rows') \in SUBSET DOMAIN rows'
    BY DEF Incoming, Outgoing
  <2> QED
    BY <1>5, <2>1, <2>2, SideIs
<1>6. status' \in [Conns' -> {"open", "closing", "gone"}] /\ bytes' \in [Conns' -> Counters]
  BY <1>1, <1>2, Zenon DEF TypeOK
<1>7. /\ world' \in Worlds /\ pc' \in {"idle", "flows", "counters", "append"} /\ now' \in 0 .. MaxCaptures
      /\ TrackerOK(tracker') /\ events' \in 0 .. world'.events
  BY <1>1, <1>2 DEF TypeOK
<1>8. CaptureInv'
  BY <1>1, Zenon DEF CaptureInv
<1>9. CASE UNCHANGED <<rows, ssTracker, bwSample, since>>
  <2>1. TypeRows'
    BY <1>9 DEF TypeRows, Table
  <2>2. TypeOK'
    <3>1. \A t \in DOMAIN rows' : rows'[t] \in Figures
      BY <1>4, <1>9
    <3>2. TrackerOK(ssTracker') /\ bwSample' \in [seconds : Nat, available : BOOLEAN]
      BY <1>9 DEF TypeOK
    <3>3. since' \in [Sources -> [moved : [Conns' -> Counters], known : SUBSET Conns',
                                  due : [Conns' -> Counters], measured : SUBSET Conns']]
      BY <1>2, <1>9, Zenon DEF TypeOK
    <3>4. Groups(record'.incoming) /\ Groups(record'.outgoing)
      BY <1>5, <2>1 DEF TypeRows
    <3> QED
      BY <1>6, <1>7, <3>1, <3>2, <3>3, <3>4 DEF TypeOK
  <2>3. FlowsFollowed' /\ SocketsFollowed'
    BY <1>1, <1>2, <1>9 DEF FlowsFollowed, SocketsFollowed, Follows
  <2>4. TrackersInv'
    BY <1>1, <1>9 DEF TrackersInv
  <2>5. NothingInvented' /\ FlowsExact' /\ OneRowPerConnection'
    BY <1>1, <1>9, FiguresKept
  <2>6. LivingTrafficIsExact'
    <3>1. since'["ss"].measured = {}
      BY <1>1, <1>9 DEF CaptureInv
    <3>2. \A t, x : ~Measurable("ss", t, x)'
      BY <3>1, Zenon DEF Measurable
    <3> QED
      BY <2>5, <3>2, Zenon DEF LivingTrafficIsExact, FlowsExact
  <2> QED
    BY <1>8, <2>1, <2>2, <2>3, <2>4, <2>5, <2>6
<1>10. CASE /\ ssTracker' = Advanced({SocketCounters(s) : s \in SocketCounterTable}, ssTracker)
            /\ since' = Taken("ss")
            /\ \/ /\ SampleOf(ssTracker).available
                  /\ rows' = over
                  /\ bwSample' = IF bwSample.available THEN bwSample ELSE SampleOf(ssTracker)
               \/ ~SampleOf(ssTracker).available /\ UNCHANGED <<rows, bwSample>>
  <2>1. /\ since'["ss"].moved = ZeroDue /\ since'["ss"].known = Present("ss")
        /\ since'["ss"].due = since["ss"].moved
        /\ since'["ss"].measured = since["ss"].known \cap Present("ss")
        /\ since'["conntrack"] = since["conntrack"]
        /\ since' \in [Sources -> [moved : [Conns' -> Counters], known : SUBSET Conns',
                                   due : [Conns' -> Counters], measured : SUBSET Conns']]
    BY <1>1, <1>3, <1>10, TakenIs
  <2>2. \A c : c \in Present("ss") <=> c \in Conns /\ DOMAIN c.sockets # {} /\ status[c] = "open"
    BY DEF Present, Sees
  <2> DEFINE Shown(t) == SampleOf(ssTracker).available /\ rows[t].tx + rows[t].rx = 0 /\ Matches(B, t) # {}
  <2>3. /\ DOMAIN rows' = DOMAIN rows
        /\ \A t \in DOMAIN rows : rows'[t] = IF Shown(t) THEN Measured(rows[t], B, t, "ss") ELSE rows[t]
        /\ rows' = [t \in DOMAIN rows |-> rows'[t]]
    <3>1. \A t \in DOMAIN rows : rows[t].tx + rows[t].rx > 0 <=> rows[t].tx + rows[t].rx # 0
      BY <1>4 DEF Figures
    <3>2. over = [t \in DOMAIN rows |->
                    IF rows[t].tx + rows[t].rx > 0 \/ Matches(B, t) = {} THEN rows[t]
                    ELSE Measured(rows[t], B, t, "ss")]
      BY Zenon DEF OverlayMissingBandwidth
    <3>3. rows = [t \in DOMAIN rows |-> rows[t]]
      BY DEF TypeRows, Table
    <3> HIDE DEF B, over
    <3> QED
      BY <1>10, <3>1, <3>2, <3>3
  <2>4. ASSUME NEW t \in DOMAIN rows
        PROVE  /\ TxSum(B, Matches(B, t)) \in Nat /\ RxSum(B, Matches(B, t)) \in Nat
               /\ TxSum(B, Matches(B, t)) <= SumFunction(MovedTx("ss", t))
               /\ RxSum(B, Matches(B, t)) <= SumFunction(MovedRx("ss", t))
    BY SocketsMeasured
  <2> HIDE DEF B
  <2>5. ASSUME NEW t \in DOMAIN rows
        PROVE  /\ rows'[t] \in Figures
               /\ ~Shown(t) => rows'[t] = rows[t]
               /\ Shown(t) => /\ rows'[t].source = "ss"
                              /\ rows'[t].tx = TxSum(B, Matches(B, t))
                              /\ rows'[t].rx = RxSum(B, Matches(B, t))
    <3>1. CASE Shown(t)
      <4>1. rows'[t] = Measured(rows[t], B, t, "ss")
        BY <2>3, <3>1
      <4> HIDE DEF Shown
      <4> QED
        BY <1>3, <1>4, <2>4, <3>1, <4>1, MeasuredIs
    <3>2. CASE ~Shown(t)
      BY <1>4, <2>3, <3>2
    <3> QED
      BY <3>1, <3>2
  <2>6. TypeRows'
    <3>1. rows' \in [DOMAIN rows' -> Figures]
      <4> HIDE DEF Figures, Shown
      <4> QED
        BY <2>3, <2>5
    <3>2. \A t \in DOMAIN rows' : rows'[t].source = "none" => rows'[t].tx = 0 /\ rows'[t].rx = 0
      <4> HIDE DEF Shown
      <4> QED
        BY <2>3, <2>5 DEF TypeRows
    <3> QED
      BY <2>3, <3>1, <3>2 DEF TypeRows, Table
  <2>7. /\ ssTracker'.prevAt = now
        /\ \A t : t \in DOMAIN ssTracker'.prev <=> \E s \in Sockets : s[2] = t
        /\ \A s \in Sockets : ssTracker'.prev[s[2]] =
              [orig |-> bytes[s[1]][Direction(s[1], s[2])],
               reply |-> bytes[s[1]][Opposite(Direction(s[1], s[2]))]]
    <3>1. ssTracker' = Advanced(SocketSample, ssTracker)
      BY <1>10, SocketsAre
    <3>2. \A c, e \in SocketSample : c.id = e.id => c = e
      BY <1>2, SocketCounterIs, SocketSampleIs DEF SocketSample
    <3>3. /\ ssTracker'.prevAt = now
          /\ \A id : id \in DOMAIN ssTracker'.prev <=> \E c \in SocketSample : c.id = id
          /\ \A c \in SocketSample : ssTracker'.prev[c.id] = [orig |-> c.orig, reply |-> c.reply]
      BY <3>1, <3>2, AdvancedIs
    <3>4. \A s \in Sockets : SocketCounterOf(s) \in SocketSample /\ SocketCounterOf(s).id = s[2]
      BY SocketCounterIs DEF SocketSample
    <3>5. \A k \in SocketSample : \E s \in Sockets : k = SocketCounterOf(s)
      BY DEF SocketSample
    <3>6. \A t : t \in DOMAIN ssTracker'.prev <=> \E s \in Sockets : s[2] = t
      BY <3>3, <3>4, <3>5
    <3>7. ASSUME NEW s \in Sockets
          PROVE  ssTracker'.prev[s[2]] =
                    [orig |-> bytes[s[1]][Direction(s[1], s[2])],
                     reply |-> bytes[s[1]][Opposite(Direction(s[1], s[2]))]]
      <4>1. ssTracker'.prev[s[2]] = [orig |-> SocketCounterOf(s).orig, reply |-> SocketCounterOf(s).reply]
        BY <3>3, <3>4
      <4> QED
        BY <4>1, SocketCounterIs
    <3> QED
      BY <3>3, <3>6, <3>7
  <2>8. \A c \in Conns, d \in Ends : bytes[c][d] \in Nat
    <3>1. \A c \in Conns : bytes[c] \in Counters
      BY DEF TypeOK
    <3> QED
      BY <3>1, CountersAre
  <2>9. TypeOK'
    <3>1. \A t \in DOMAIN rows' : rows'[t] \in Figures
      BY <2>6 DEF TypeRows, Table
    <3>2. TrackerOK(ssTracker')
      <4>1. ssTracker'.prevAt \in 0 .. MaxCaptures
        BY <2>7 DEF TypeOK
      <4>2. ASSUME NEW id \in DOMAIN ssTracker'.prev
            PROVE  ssTracker'.prev[id] \in [orig : Nat, reply : Nat]
        <5>1. PICK s \in Sockets : s[2] = id
          BY <2>7
        <5>2. ssTracker'.prev[id] = [orig |-> bytes[s[1]][Direction(s[1], s[2])],
                                     reply |-> bytes[s[1]][Opposite(Direction(s[1], s[2]))]]
          BY <2>7, <5>1
        <5>3. s[1] \in Conns /\ Direction(s[1], s[2]) \in Ends /\ Opposite(Direction(s[1], s[2])) \in Ends
          BY <1>2, SocketsIn, ConnsAre, EndsAre
        <5>4. /\ bytes[s[1]][Direction(s[1], s[2])] \in Nat
              /\ bytes[s[1]][Opposite(Direction(s[1], s[2]))] \in Nat
          BY <2>8, <5>3
        <5> QED
          BY <5>2, <5>4
      <4> QED
        BY <4>1, <4>2 DEF TrackerOK
    <3>3. bwSample' \in [seconds : Nat, available : BOOLEAN]
      <4>1. SampleOf(ssTracker) \in [seconds : Nat, available : BOOLEAN]
        BY DEF SampleOf, TypeOK, TrackerOK, TrackersInv
      <4> HIDE DEF over
      <4> QED
        BY <1>10, <4>1 DEF TypeOK
    <3>4. Groups(record'.incoming) /\ Groups(record'.outgoing)
      BY <1>5, <2>6 DEF TypeRows
    <3> QED
      BY <1>6, <1>7, <2>1, <3>1, <3>2, <3>3, <3>4 DEF TypeOK
  <2>10. FlowsFollowed'
    BY <1>1, <1>2, <2>1 DEF FlowsFollowed, Follows
  <2>11. SocketsFollowed'
    <3>1. \A c \in Conns : since'["ss"].moved[c] = Zero
      BY <2>1 DEF ZeroDue
    <3>2. ASSUME NEW c \in Conns, NEW t \in DOMAIN c.sockets, t \in DOMAIN ssTracker'.prev
          PROVE  /\ Follows("ss", c, Direction(c, t), ssTracker.prev[t].orig)'
                 /\ Follows("ss", c, Opposite(Direction(c, t)), ssTracker.prev[t].reply)'
      <4>1. PICK s \in Sockets : s[2] = t
        BY <2>7, <3>2
      <4>2. s[1] = c /\ status[c] = "open"
        BY <1>2, <4>1, SocketsIn, SameSocket
      <4>3. c \in since'["ss"].known
        BY <2>1, <2>2, <4>2
      <4>4. Direction(c, t) \in Ends /\ Opposite(Direction(c, t)) \in Ends
        BY <1>2, ConnsAre, EndsAre
      <4>5. \A d \in Ends : since'["ss"].moved[c][d] = 0
        BY <3>1 DEF Zero, Ends
      <4>6. ssTracker'.prev[t] = [orig |-> bytes[c][Direction(c, t)],
                                  reply |-> bytes[c][Opposite(Direction(c, t))]]
        BY <2>7, <4>1, <4>2
      <4>7. bytes[c][Direction(c, t)] \in Nat /\ bytes[c][Opposite(Direction(c, t))] \in Nat
        BY <2>8, <4>4
      <4>8. /\ ssTracker'.prev[t].orig = bytes[c][Direction(c, t)]
            /\ ssTracker'.prev[t].reply = bytes[c][Opposite(Direction(c, t))]
            /\ since'["ss"].moved[c][Direction(c, t)] = 0
            /\ since'["ss"].moved[c][Opposite(Direction(c, t))] = 0
        BY <4>4, <4>5, <4>6
      <4> QED
        BY <1>1, <4>3, <4>7, <4>8 DEF Follows
    <3>3. \A c \in since'["ss"].known : DOMAIN c.sockets \subseteq DOMAIN ssTracker'.prev
      <4> SUFFICES ASSUME NEW c \in Present("ss"), NEW t \in DOMAIN c.sockets
                   PROVE  t \in DOMAIN ssTracker'.prev
        BY <2>1
      <4>1. <<c, t>> \in Sockets
        BY <2>2, SocketsIn
      <4>2. <<c, t>>[2] = t
        OBVIOUS
      <4> QED
        BY <2>7, <4>1, <4>2
    <3> QED
      BY <1>2, <3>2, <3>3 DEF SocketsFollowed
  <2>12. TrackersInv'
    BY <1>1, <2>7 DEF TrackersInv, TypeOK
  <2>13. \A t : Candidates(t)' = Candidates(t)
    BY <1>1, CandidatesKept
  <2>14. \A t : /\ DueTx("conntrack", t)' = DueTx("conntrack", t)
                /\ DueRx("conntrack", t)' = DueRx("conntrack", t)
                /\ DueTx("ss", t)' = MovedTx("ss", t)
                /\ DueRx("ss", t)' = MovedRx("ss", t)
    <3> SUFFICES ASSUME NEW t
                 PROVE  /\ DueTx("conntrack", t)' = DueTx("conntrack", t)
                        /\ DueRx("conntrack", t)' = DueRx("conntrack", t)
                        /\ DueTx("ss", t)' = MovedTx("ss", t)
                        /\ DueRx("ss", t)' = MovedRx("ss", t)
      OBVIOUS
    <3>1. DueTx("conntrack", t)' = DueTx("conntrack", t) /\ DueRx("conntrack", t)' = DueRx("conntrack", t)
      BY <2>1, <2>13, Zenon DEF DueTx, DueRx, Due
    <3>2. DueTx("ss", t)' = MovedTx("ss", t)
      BY <2>1, <2>13, DuesAre DEF MovedTx
    <3>3. DueRx("ss", t)' = MovedRx("ss", t)
      BY <2>1, <2>13, DuesAre DEF MovedRx
    <3> QED
      BY <3>1, <3>2, <3>3
  <2>15. NothingInvented'
    <3> SUFFICES ASSUME NEW t \in DOMAIN rows', rows'[t].source # "none"
                 PROVE  /\ rows'[t].tx <= SumFunction(DueTx(rows[t].source, t)')
                        /\ rows'[t].rx <= SumFunction(DueRx(rows[t].source, t)')
      BY InventionIs
    <3>1. CASE Shown(t)
      <4>1. rows'[t].source = "ss"
        BY <2>3, <2>5, <3>1
      <4>2. DueTx(rows[t].source, t)' = DueTx("ss", t)' /\ DueRx(rows[t].source, t)' = DueRx("ss", t)'
        BY <4>1 DEF DueTx, DueRx
      <4> QED
        BY <2>3, <2>4, <2>5, <2>14, <3>1, <4>2
    <3>2. CASE ~Shown(t)
      <4>1. rows'[t] = rows[t] /\ t \in DOMAIN rows /\ rows[t].source = "conntrack"
        BY <1>4, <2>3, <2>5, <3>2
      <4>2. /\ DueTx(rows[t].source, t)' = DueTx("conntrack", t)'
            /\ DueRx(rows[t].source, t)' = DueRx("conntrack", t)'
        BY <4>1 DEF DueTx, DueRx
      <4>3. /\ rows[t].tx <= SumFunction(DueTx("conntrack", t))
            /\ rows[t].rx <= SumFunction(DueRx("conntrack", t))
        BY <4>1, InventionIs
      <4> QED
        BY <2>14, <4>1, <4>2, <4>3
    <3> QED
      BY <3>1, <3>2
  <2>16. FlowsExact'
    <3> SUFFICES ASSUME NEW t \in DOMAIN rows, NEW x \in Candidates(t),
                        Candidates(t) = {x}, world.accounting, Measurable("conntrack", t, x)'
                 PROVE  ShownExactly("conntrack", t, x)'
      BY <1>1, <2>3, <2>13 DEF FlowsExact
    <3>1. Measurable("conntrack", t, x)
      BY <2>1 DEF Measurable, Due
    <3>2. ShownExactly("conntrack", t, x)
      BY <3>1 DEF FlowsExact
    <3>3. rows[t].tx + rows[t].rx > 0
      BY <3>1, <3>2 DEF Measurable, ShownExactly
    <3>4. rows'[t] = rows[t]
      BY <2>5, <3>3
    <3> QED
      BY <2>1, <3>2, <3>4 DEF ShownExactly, Due
  <2>17. ASSUME NEW t \in DOMAIN rows, NEW x \in Candidates(t), Candidates(t) = {x},
                Measurable("ss", t, x)', since["conntrack"].due[x[1]] = Zero \/ ~world.accounting
         PROVE  ShownExactly("ss", t, x)'
    <3> DEFINE c == x[1]
               d == x[2]
    <3>1. c \in Conns /\ d \in Ends /\ Opposite(d) \in Ends
      BY <1>2, CandidatesAre, EndsAre
    <3>2. /\ Due("ss", x, TRUE)' = since["ss"].moved[c][d]
          /\ Due("ss", x, FALSE)' = since["ss"].moved[c][Opposite(d)]
      BY <2>1 DEF Due
    <3>3. c \in since["ss"].known /\ status[c] = "open" /\ t \in DOMAIN c.sockets
      BY <2>1, <2>2, <2>17 DEF Measurable
    <3>4. since["ss"].moved[c][d] <= MaxDelta /\ since["ss"].moved[c][Opposite(d)] <= MaxDelta
      BY <2>17, <3>2 DEF Measurable
    <3>5. since["ss"].moved[c].orig <= MaxDelta /\ since["ss"].moved[c].reply <= MaxDelta
      BY <3>1, <3>4 DEF Ends, Opposite
    <3>6. /\ Matches(B, t) # {}
          /\ TxSum(B, Matches(B, t)) = since["ss"].moved[c][d]
          /\ RxSum(B, Matches(B, t)) = since["ss"].moved[c][Opposite(d)]
      BY <2>17, <3>3, <3>5, SocketsExactly DEF B
    <3>7. SampleOf(ssTracker).available
      <4>1. t \in DOMAIN ssTracker.prev
        BY <3>3 DEF SocketsFollowed
      <4>2. ssTracker.prevAt > 0 /\ now > ssTracker.prevAt
        BY <1>1, <4>1 DEF TrackersInv, TypeOK, TrackerOK
      <4> QED
        BY <4>2 DEF SampleOf
    <3>8. rows[t].tx + rows[t].rx = 0
      <4>1. CASE ~world.accounting
        BY <1>1, <4>1 DEF CaptureInv
      <4>2. CASE rows[t].source = "none"
        BY <4>2 DEF TypeRows
      <4>3. CASE rows[t].source = "conntrack" /\ since["conntrack"].due[c] = Zero
        <5>1. /\ DueTx("conntrack", t) = [y \in Candidates(t) |-> since["conntrack"].due[y[1]][y[2]]]
              /\ DueRx("conntrack", t) = [y \in Candidates(t) |-> since["conntrack"].due[y[1]][Opposite(y[2])]]
          BY DuesAre
        <5>2. Zero[d] = 0 /\ Zero[Opposite(d)] = 0
          BY <3>1 DEF Zero, Ends
        <5>3. /\ DueTx("conntrack", t) \in [{x} -> Nat] /\ DueTx("conntrack", t)[x] = 0
              /\ DueRx("conntrack", t) \in [{x} -> Nat] /\ DueRx("conntrack", t)[x] = 0
          BY <2>17, <4>3, <5>1, <5>2
        <5>4. SumFunction(DueTx("conntrack", t)) = 0 /\ SumFunction(DueRx("conntrack", t)) = 0
          BY <5>3, SumOfOne
        <5>5. rows[t].tx <= 0 /\ rows[t].rx <= 0
          BY <4>3, <5>4, InventionIs
        <5>6. rows[t].tx \in Nat /\ rows[t].rx \in Nat
          BY <1>4 DEF Figures
        <5> QED
          BY <5>5, <5>6
      <4> QED
        BY <1>4, <2>17, <4>1, <4>2, <4>3
    <3>9. Shown(t)
      BY <3>6, <3>7, <3>8
    <3>10. /\ rows'[t].source = "ss"
           /\ rows'[t].tx = since["ss"].moved[c][d]
           /\ rows'[t].rx = since["ss"].moved[c][Opposite(d)]
      <4> HIDE DEF Shown
      <4> QED
        BY <2>5, <3>6, <3>9
    <3> QED
      BY <3>2, <3>10 DEF ShownExactly
  <2>18. LivingTrafficIsExact'
    <3> SUFFICES ASSUME NEW t \in DOMAIN rows', NEW x \in Candidates(t)', Candidates(t)' = {x}
                 PROVE  /\ world'.accounting /\ Measurable("conntrack", t, x)' => ShownExactly("conntrack", t, x)'
                        /\ /\ Measurable("ss", t, x)'
                           /\ since'["conntrack"].due[x[1]] = Zero \/ ~world'.accounting
                           => ShownExactly("ss", t, x)'
      BY Zenon DEF LivingTrafficIsExact
    <3>1. world'.accounting /\ Measurable("conntrack", t, x)' => ShownExactly("conntrack", t, x)'
      BY <2>16 DEF FlowsExact
    <3>2. ASSUME Measurable("ss", t, x)', since'["conntrack"].due[x[1]] = Zero \/ ~world'.accounting
          PROVE  ShownExactly("ss", t, x)'
      <4>1. t \in DOMAIN rows /\ x \in Candidates(t) /\ Candidates(t) = {x}
        BY <2>3, <2>13
      <4>2. since["conntrack"].due[x[1]] = Zero \/ ~world.accounting
        BY <1>1, <2>1, <3>2
      <4> QED
        BY <2>17, <3>2, <4>1, <4>2
    <3> QED
      BY <3>1, <3>2
  <2>19. OneRowPerConnection'
    BY <1>2, <2>3 DEF OneRowPerConnection
  <2> QED
    BY <1>8, <2>6, <2>9, <2>10, <2>11, <2>12, <2>15, <2>16, <2>18, <2>19
<1> QED
  BY <1>1, <1>9, <1>10

-----------------------------------------------------------------------------
(* The theorems                                                              *)

LEMMA InitHolds ==
    ASSUME Init
    PROVE  BandwidthInv
<1> USE DEF Init
<1>1. world \in Worlds /\ world.events \in Nat /\ DOMAIN rows = {}
  BY ConnsAre DEF NoRows
<1>2. \A s \in Sources : /\ since[s].known = {} /\ since[s].measured = {} /\ since[s].due = ZeroDue
  BY DEF ZeroDue
<1>3. TypeOK
  <2>1. status \in [Conns -> {"open", "closing", "gone"}] /\ bytes \in [Conns -> Counters]
    BY DEF Zero, Counters
  <2>2. TrackerOK(tracker) /\ TrackerOK(ssTracker)
    BY BandwidthAssumption DEF NewTracker, NoRows, TrackerOK
  <2>3. since \in [Sources -> [moved : [Conns -> Counters], known : SUBSET Conns,
                               due : [Conns -> Counters], measured : SUBSET Conns]]
    <3>1. ZeroDue \in [Conns -> Counters]
      BY DEF ZeroDue, Zero, Counters
    <3>2. since = [s \in Sources |-> [moved |-> ZeroDue, known |-> {}, due |-> ZeroDue, measured |-> {}]]
      BY DEF ZeroDue
    <3> HIDE DEF Counters, Conns, ZeroDue, Init
    <3> QED
      BY <3>1, <3>2
  <2>4. bwSample \in [seconds : Nat, available : BOOLEAN] /\ ~record.written
    BY DEF NoSample, NoRecord
  <2>5. pc \in {"idle", "flows", "counters", "append"} /\ now \in 0 .. MaxCaptures
        /\ events \in 0 .. world.events
    BY <1>1, BandwidthAssumption
  <2> HIDE DEF Init
  <2> QED
    BY <1>1, <2>1, <2>2, <2>3, <2>4, <2>5 DEF TypeOK
<1>4. TypeRows /\ NothingInvented /\ FlowsExact /\ LivingTrafficIsExact
  <2>1. TypeRows
    BY <1>1, FS_EmptySet DEF TypeRows, Table
  <2>2. NothingInvented
    BY <1>1, InventionIs
  <2>3. FlowsExact /\ LivingTrafficIsExact
    BY <1>1, Zenon DEF FlowsExact, LivingTrafficIsExact
  <2> QED
    BY <2>1, <2>2, <2>3
<1>5. OneRowPerConnection
  <2>1. \A t \in DOMAIN rows : \E e \in Conns : t \in DOMAIN e.sockets
    BY <1>1
  <2> QED
    BY <1>1, <2>1, SocketRows DEF OneRowPerConnection, RowsOf
<1>6. FlowsFollowed /\ SocketsFollowed
  BY <1>2 DEF FlowsFollowed, SocketsFollowed, Sources, NewTracker, NoRows
<1>7. TrackersInv
  BY DEF TrackersInv, NewTracker, NoRows
<1>8. CaptureInv
  BY <1>1, <1>2 DEF CaptureInv, Sources, NoRecord
<1> QED
  BY <1>3, <1>4, <1>5, <1>6, <1>7, <1>8 DEF BandwidthInv

LEMMA NextHolds ==
    ASSUME BandwidthInv, [Next]_vars
    PROVE  BandwidthInv'
<1>1. CASE \E c \in Conns : Open(c)
  BY <1>1, OpenStep
<1>2. CASE \E c \in Conns : Close(c)
  BY <1>2, CloseStep
<1>3. CASE \E c \in Conns, d \in Ends, n \in Bursts : Transfer(c, d, n)
  BY <1>3, TransferStep
<1>4. CASE \E ok \in BOOLEAN : CollectTopTalkers(ok)
  BY <1>4, TopTalkersStep
<1>5. CASE \E reading \in FlowReadings : CollectConntrackFlowsTCP(reading)
  BY <1>5, FlowsStep
<1>6. CASE \E ok \in BOOLEAN : CollectSocketTCPCounters(ok)
  BY <1>6, SocketsStep
<1>7. CASE Append
  BY <1>7, AppendStep
<1>8. CASE Restart
  BY <1>8, RestartStep
<1>9. CASE UNCHANGED vars
  <2>1. /\ UNCHANGED <<world, pc, now, rows, tracker, ssTracker, bwSample, record, status, bytes, since, events>>
    BY <1>9 DEF vars, hostVars
  <2>2. TypeOK'
    <3>1. Conns' = Conns
      BY <2>1 DEF Conns
    <3> QED
      BY <2>1, <3>1, Zenon DEF BandwidthInv, TypeOK
  <2>3. FlowsFollowed' /\ SocketsFollowed'
    BY <2>1 DEF BandwidthInv, FlowsFollowed, SocketsFollowed, Follows, Conns
  <2> QED
    BY <2>1, <2>2, <2>3, CaptureKept DEF BandwidthInv
<1> QED
  BY <1>1, <1>2, <1>3, <1>4, <1>5, <1>6, <1>7, <1>8, <1>9 DEF Next

\* The strengthening holds: what each tracker remembers of a counter plus what
\* has moved since its last sample is what the counter stands at.
THEOREM BandwidthHolds == Spec => []BandwidthInv
<1>1. Init => BandwidthInv
  BY InitHolds
<1>2. BandwidthInv /\ [Next]_vars => BandwidthInv'
  BY NextHolds
<1> QED
  BY <1>1, <1>2, PTL DEF Spec

\* The variables keep their types: no difference of counters, no sum of a row
\* or a group (clampDelta, AggregateConnectionsByDirection) is ever negative.
THEOREM BandwidthTypes == Spec => []TypeOK
<1>1. BandwidthInv => TypeOK
  BY DEF BandwidthInv
<1> QED
  BY <1>1, BandwidthHolds, PTL

\* No row shows more bytes than its connection and those to the same peer and
\* ports moved since the last sample of the source of its figures, whatever was
\* opened, closed or replaced, whichever captures failed, and over restarts of
\* the program (BuildSnapshot of the two trackers, clampDelta).
THEOREM InventionTheorem == Spec => []NothingInvented
<1>1. BandwidthInv => NothingInvented
  BY DEF BandwidthInv
<1> QED
  BY <1>1, BandwidthHolds, PTL

\* A connection that two samples in a row have seen, that has no namesake and
\* moved no more than the cap, is recorded with exactly what it moved
\* (BuildSnapshot, EnrichConnectionsWithBandwidth, OverlayMissingBandwidth).
THEOREM ExactTheorem == Spec => []LivingTrafficIsExact
<1>1. BandwidthInv => LivingTrafficIsExact
  BY DEF BandwidthInv
<1> QED
  BY <1>1, BandwidthHolds, PTL

\* A connection never has a row more than it has sockets on the host, or one
\* if it has none (MergeConntrackHostFlows, hostFacingTuple).
THEOREM RowTheorem == Spec => []OneRowPerConnection
<1>1. BandwidthInv => OneRowPerConnection
  BY DEF BandwidthInv
<1> QED
  BY <1>1, BandwidthHolds, PTL

\* A side of a record that is not cut has every foreign row once and all its
\* bytes; one that is cut drops no group that moved more than one it keeps
\* (SplitConnectionsByDirection, AggregateConnectionsByDirection).
THEOREM RecordTheorem == Spec => []RecordAccountsForRows
<1>1. BandwidthInv => RecordAccountsForRows
  <2> SUFFICES ASSUME BandwidthInv PROVE RecordAccountsForRows
    OBVIOUS
  <2>1. CASE ~record.written
    BY <2>1 DEF RecordAccountsForRows
  <2>2. CASE record.written
    <3>1. Table(rows) /\ record = Record(rows, bwSample)
      BY <2>2 DEF BandwidthInv, TypeRows, CaptureInv
    <3> QED
      BY <3>1, RecordIs
  <2> QED
    BY <2>1, <2>2
<1> QED
  BY <1>1, BandwidthHolds, PTL
=============================================================================
