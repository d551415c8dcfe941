---------------------------- MODULE LiveUI_proofs ----------------------------
(***************************************************************************)
(* The live view, for any keys, loops, goroutines, connections, readings   *)
(* and heights of the panel: the pages of the list and the level of the    *)
(* interface, the order of rows and of groups, where the cursor may be,    *)
(* and then the dialogs, the pause and the refresh loops, and all of them  *)
(* together.                                                               *)
(***************************************************************************)
EXTENDS LiveUI, SumsAndOrders, TLAPS

-----------------------------------------------------------------------------
(* TopConnectionsPageBounds: the cursor of the list rests on the first      *)
(* theorem, that no row is out of reach on the second                       *)

\* The only fact about \div that is needed.
LEMMA DivBounds ==
    ASSUME NEW n \in Nat, NEW per \in Nat, per > 0
    PROVE  /\ (n \div per) \in Nat
           /\ (n \div per) * per <= n
           /\ n < (n \div per) * per + per
  BY SMT

\* With any row at all, the page that is shown has a row, whichever page was
\* asked for and however few lines fit; and it shows no row that does not
\* exist, nor more than fit.
THEOREM PageHasRows ==
    ASSUME NEW totalRows \in Nat, totalRows > 0, NEW rowsPerPage \in Nat, NEW pageIndex \in Int
    PROVE  LET b == TopConnectionsPageBounds(totalRows, rowsPerPage, pageIndex)
           IN  /\ 0 <= b.start /\ b.start < b.end /\ b.end <= totalRows
               /\ b.end - b.start <= Most(rowsPerPage, 1)
               /\ 0 <= b.page /\ b.page < b.totalPages
<1> DEFINE per == Most(rowsPerPage, 1)
           totalPages == (totalRows + per - 1) \div per
           page == Least(Most(pageIndex, 0), totalPages - 1)
<1>1. per \in Nat /\ per > 0
  BY DEF Most
<1> HIDE DEF per
<1>2. /\ totalPages \in Nat
      /\ totalPages * per <= totalRows + per - 1
      /\ totalRows + per - 1 < totalPages * per + per
  BY <1>1, DivBounds
<1>3. totalPages > 0
  BY <1>1, <1>2
<1> HIDE DEF totalPages
<1>4. page \in Nat /\ page <= totalPages - 1
  BY <1>2, <1>3 DEF Least, Most
<1> HIDE DEF page
<1>5. page * per \in Nat /\ page * per < totalRows
  <2>1. page * per <= (totalPages - 1) * per
    BY <1>1, <1>2, <1>3, <1>4
  <2>2. (totalPages - 1) * per = totalPages * per - per
    BY <1>1, <1>2
  <2>3. page * per \in Nat
    BY <1>1, <1>4
  <2>4. QED
    BY <1>1, <1>2, <2>1, <2>2, <2>3
<1> DEFINE start == page * per
           end == Least(page * per + per, totalRows)
<1>6. TopConnectionsPageBounds(totalRows, rowsPerPage, pageIndex)
        = [page |-> page, start |-> start, end |-> end, totalPages |-> totalPages]
  BY DEF TopConnectionsPageBounds, per, totalPages, page
<1>7. 0 <= start /\ start < end /\ end <= totalRows /\ end - start <= per
  <2>1. \A s \in Nat : s < totalRows =>
          LET e == Least(s + per, totalRows)
          IN  0 <= s /\ s < e /\ e <= totalRows /\ e - s <= per
    BY <1>1 DEF Least
  <2>2. QED
    BY <1>5, <2>1
<1> HIDE DEF start, end
<1>8. 0 <= page /\ page < totalPages
  BY <1>2, <1>4
<1>9. QED
  BY <1>6, <1>7, <1>8 DEF per

\* Every row is on a page: that of its number.
THEOREM EveryRowHasItsPage ==
    ASSUME NEW totalRows \in Nat, NEW rowsPerPage \in Nat, rowsPerPage > 0,
           NEW row \in 0 .. totalRows - 1
    PROVE  LET b == TopConnectionsPageBounds(totalRows, rowsPerPage, row \div rowsPerPage)
           IN  b.start <= row /\ row < b.end
  BY DivBounds, SMT DEF TopConnectionsPageBounds, Least, Most


-----------------------------------------------------------------------------
(* TrafficLevel: what the streaks have to do with the last readings, and    *)
(* the property from that                                                   *)

\* A streak counts the last readings of its level, and is short where the
\* level that is shown is not that of the last reading.
Streaks(m) ==
    /\ m.warnStreak > 0 => m.last = "WARN" /\ m.warnStreak <= m.run
    /\ m.clearStreak > 0 => m.last = "OK" /\ m.clearStreak <= m.run

\* During the warm-up, and until a reading after it, nothing is shown.
Warm(m) ==
    /\ ~m.prevIfaceStats => m.ifaceSpikeCount = 0
    /\ m.ifaceSpikeCount < interfaceSpikeWarmupSamples =>
         m.displayLevel = "UNKNOWN" /\ m.run <= m.ifaceSpikeCount
    /\ m.displayLevel = "UNKNOWN" =>
         m.warnStreak = 0 /\ m.clearStreak = 0 /\ m.run <= interfaceSpikeWarmupSamples

\* How far what is shown may be behind the last reading.
Behind(m) ==
    /\ m.displayLevel # "UNKNOWN" => m.last # "UNKNOWN"
    /\ m.last = "CRIT" => m.displayLevel \in {"CRIT", "UNKNOWN"}
    /\ m.last = "WARN" /\ m.displayLevel = "CRIT" => m.run = m.warnStreak
    /\ m.last = "WARN" /\ m.displayLevel = "OK" => m.warnStreak = 1 /\ m.run <= 4
    /\ m.displayLevel = "CRIT" => m.clearStreak <= 1
    /\ m.last = "OK" /\ m.displayLevel = "CRIT" => m.run = m.clearStreak
    /\ m.last = "OK" /\ m.displayLevel = "WARN" => m.run <= m.clearStreak + 2

StateInv(m) == m \in TrafficStates /\ Streaks(m) /\ Warm(m) /\ Behind(m)

\* What a counted reading changes, before the level is chosen.
LEMMA CountedEffect ==
    ASSUME NEW m \in TrafficStates, NEW raw \in Levels
    PROVE  LET k == Counted(m, raw)
           IN  /\ k \in TrafficStates /\ k.last = raw
               /\ k.prevIfaceStats = m.prevIfaceStats
               /\ k.displayLevel = m.displayLevel
               /\ k.warnStreak = m.warnStreak /\ k.clearStreak = m.clearStreak
               /\ k.run = IF m.last # raw THEN 1 ELSE IF m.run < 5 THEN m.run + 1 ELSE m.run
               /\ k.ifaceSpikeCount = IF m.ifaceSpikeCount < 3 THEN m.ifaceSpikeCount + 1
                                      ELSE m.ifaceSpikeCount
<1> DEFINE count == IF m.ifaceSpikeCount < 3 THEN m.ifaceSpikeCount + 1 ELSE m.ifaceSpikeCount
           run == IF m.last # raw THEN 1 ELSE IF m.run < 5 THEN m.run + 1 ELSE m.run
<1>1. Counted(m, raw) = [m EXCEPT !.ifaceSpikeCount = count, !.last = raw, !.run = run]
  BY DEF Counted, interfaceSpikeWarmupSamples
<1>2. count \in 0 .. interfaceSpikeWarmupSamples /\ run \in 0 .. 5 /\ raw \in Levels \cup {"UNKNOWN"}
  BY SMT DEF TrafficStates, interfaceSpikeWarmupSamples
<1> DEFINE k == [m EXCEPT !.ifaceSpikeCount = count, !.last = raw, !.run = run]
<1>3. k \in TrafficStates
  <2> HIDE DEF count, run
  <2>1. QED
    BY <1>2, Zenon DEF TrafficStates
<1>4. /\ k.last = raw /\ k.prevIfaceStats = m.prevIfaceStats
      /\ k.displayLevel = m.displayLevel
      /\ k.warnStreak = m.warnStreak /\ k.clearStreak = m.clearStreak
      /\ k.run = run /\ k.ifaceSpikeCount = count
  <2> HIDE DEF count, run
  <2>1. QED
    BY SMT DEF TrafficStates
<1> HIDE DEF k
<1>5. QED
  BY <1>1, <1>3, <1>4 DEF k

\* Display sets the level and the streaks.
LEMMA DisplayType ==
    ASSUME NEW k \in TrafficStates, NEW level \in Levels \cup {"UNKNOWN"},
           NEW warn \in 0 .. 1, NEW clear \in 0 .. 2
    PROVE  Display(k, level, warn, clear) \in TrafficStates
<1>1. warn \in 0 .. interfaceTrafficWarnSamples - 1 /\ clear \in 0 .. interfaceTrafficClearSamples - 1
  BY DEF interfaceTrafficWarnSamples, interfaceTrafficClearSamples
<1>2. QED
  BY <1>1, Zenon DEF Display, TrafficStates

LEMMA DisplayFields ==
    ASSUME NEW k \in TrafficStates, NEW level, NEW warn, NEW clear,
           NEW n, n = Display(k, level, warn, clear)
    PROVE  /\ n.displayLevel = level /\ n.warnStreak = warn /\ n.clearStreak = clear
           /\ n.prevIfaceStats = k.prevIfaceStats /\ n.ifaceSpikeCount = k.ifaceSpikeCount
           /\ n.last = k.last /\ n.run = k.run
  BY SMT DEF Display, TrafficStates

\* What is shown, and which streaks are kept, after a reading of each level.
Level(k, raw, ready) ==
    LET d == k.displayLevel IN
    IF ~ready THEN "UNKNOWN"
    ELSE IF raw = "CRIT" THEN "CRIT"
    ELSE IF raw = "WARN" THEN
        IF d = "WARN" \/ k.warnStreak = 1 THEN "WARN" ELSE IF d = "UNKNOWN" THEN "OK" ELSE d
    ELSE IF d = "UNKNOWN" THEN "OK"
    ELSE IF d = "CRIT" THEN IF k.clearStreak >= 1 THEN "WARN" ELSE d
    ELSE IF k.clearStreak = 2 THEN "OK" ELSE d

Warnings(k, raw, ready) ==
    IF ready /\ raw = "WARN" /\ k.displayLevel # "WARN" /\ k.warnStreak = 0 THEN 1 ELSE 0

Clears(k, raw, ready) ==
    IF ~ready \/ raw # "OK" THEN 0
    ELSE IF k.displayLevel = "UNKNOWN" THEN k.clearStreak
    ELSE IF (k.displayLevel = "CRIT" /\ k.clearStreak >= 1) \/ k.clearStreak = 2 THEN 0
    ELSE k.clearStreak + 1

LEMMA StabilizedEffect ==
    ASSUME NEW k \in TrafficStates, NEW raw \in Levels, NEW ready \in BOOLEAN
    PROVE  Stabilized(k, raw, ready)
             = Display(k, Level(k, raw, ready), Warnings(k, raw, ready), Clears(k, raw, ready))
<1> USE DEF TrafficStates, interfaceTrafficWarnSamples, interfaceTrafficClearSamples,
            interfaceTrafficCritDownsample, Levels
<1>1. CASE ~ready
  BY <1>1 DEF Stabilized, Level, Warnings, Clears
<1>2. CASE ready /\ raw = "CRIT"
  BY <1>2 DEF Stabilized, OnCrit, Level, Warnings, Clears
<1>3. CASE ready /\ raw = "WARN"
  BY <1>3, SMT DEF Stabilized, OnWarn, Level, Warnings, Clears
<1>4. CASE ready /\ raw = "OK"
  BY <1>4, SMT DEF Stabilized, OnQuiet, Level, Warnings, Clears
<1>5. QED
  BY <1>1, <1>2, <1>3, <1>4

\* Every reading keeps the invariant and is steady.
LEMMA ReadingKeepsInv ==
    ASSUME NEW m, StateInv(m), NEW raw \in Readings
    PROVE  StateInv(Refreshed(m, raw)) /\ Steady(m, Refreshed(m, raw))
<1>1. CASE raw = "error" \/ (raw = "idle" /\ m.prevIfaceStats)
  <2>1. Refreshed(m, raw) = m
    BY <1>1 DEF Refreshed, EvaluateInterfaceSpike
  <2>2. QED
    BY <2>1 DEF Steady
<1>2. CASE raw # "error" /\ ~m.prevIfaceStats
  <2> DEFINE n == [m EXCEPT !.prevIfaceStats = TRUE]
  <2>1. Refreshed(m, raw) = n
    BY <1>2 DEF Refreshed
  <2>2. n \in TrafficStates
    BY Zenon DEF StateInv, TrafficStates
  <2>7. /\ n.prevIfaceStats /\ n.ifaceSpikeCount = m.ifaceSpikeCount
        /\ n.displayLevel = m.displayLevel /\ n.warnStreak = m.warnStreak
        /\ n.clearStreak = m.clearStreak /\ n.last = m.last /\ n.run = m.run
    BY SMT DEF StateInv, TrafficStates
  <2> HIDE DEF n
  <2>3. m.ifaceSpikeCount = 0
    BY <1>2 DEF StateInv, Warm
  <2>4. StateInv(n)
    BY <2>2, <2>3, <2>7, SMT DEF StateInv, Streaks, Warm, Behind
  <2>5. Steady(m, n)
    BY <2>3, SMT DEF Steady, interfaceSpikeWarmupSamples
  <2>6. QED
    BY <2>1, <2>4, <2>5
<1>3. CASE raw \in Levels /\ m.prevIfaceStats
  <2> DEFINE k == Counted(m, raw)
             ready == m.ifaceSpikeCount >= 3
             level == Level(k, raw, ready)
             warn == Warnings(k, raw, ready)
             clear == Clears(k, raw, ready)
             n == Refreshed(m, raw)
  <2>1. /\ k \in TrafficStates /\ k.last = raw
        /\ k.prevIfaceStats = m.prevIfaceStats
        /\ k.displayLevel = m.displayLevel
        /\ k.warnStreak = m.warnStreak /\ k.clearStreak = m.clearStreak
        /\ k.run = IF m.last # raw THEN 1 ELSE IF m.run < 5 THEN m.run + 1 ELSE m.run
        /\ k.ifaceSpikeCount = IF m.ifaceSpikeCount < 3 THEN m.ifaceSpikeCount + 1
                               ELSE m.ifaceSpikeCount
    BY <1>3, CountedEffect DEF StateInv
  <2>2. n = Stabilized(k, raw, ready)
    BY <1>3 DEF Refreshed, EvaluateInterfaceSpike, Levels, interfaceSpikeWarmupSamples
  <2>3. n = Display(k, level, warn, clear)
    <3>1. ready \in BOOLEAN
      OBVIOUS
    <3> HIDE DEF k, ready, n
    <3>2. n = Display(k, Level(k, raw, ready), Warnings(k, raw, ready), Clears(k, raw, ready))
      BY <1>3, <2>1, <2>2, <3>1, StabilizedEffect
    <3>3. QED
      BY <3>2
  <2> HIDE DEF k, n
  <2>4. level \in Levels \cup {"UNKNOWN"} /\ warn \in 0 .. 1 /\ clear \in 0 .. 2
    BY <1>3, <2>1, SMT DEF Level, Warnings, Clears, TrafficStates, Levels,
           interfaceTrafficWarnSamples, interfaceTrafficClearSamples
  <2>5. /\ n \in TrafficStates
        /\ n.displayLevel = level /\ n.warnStreak = warn /\ n.clearStreak = clear
        /\ n.prevIfaceStats = m.prevIfaceStats /\ n.ifaceSpikeCount = k.ifaceSpikeCount
        /\ n.last = raw /\ n.run = k.run
    <3> HIDE DEF level, warn, clear
    <3>1. k \in TrafficStates /\ k.last = raw /\ k.prevIfaceStats = m.prevIfaceStats
      BY <2>1
    <3>2. n \in TrafficStates
      BY <2>3, <2>4, <3>1, DisplayType
    <3>3. /\ n.displayLevel = level /\ n.warnStreak = warn /\ n.clearStreak = clear
          /\ n.prevIfaceStats = k.prevIfaceStats /\ n.ifaceSpikeCount = k.ifaceSpikeCount
          /\ n.last = k.last /\ n.run = k.run
      BY <2>3, <3>1, DisplayFields, SMT
    <3>4. QED
      BY <3>1, <3>2, <3>3
  <2>6. /\ level = Level(m, raw, ready) /\ warn = Warnings(m, raw, ready)
        /\ clear = Clears(m, raw, ready)
    BY <2>1 DEF Level, Warnings, Clears
  <2> HIDE DEF level, warn, clear
  <2> USE DEF StateInv, TrafficStates, Levels, interfaceSpikeWarmupSamples,
              interfaceTrafficWarnSamples, interfaceTrafficClearSamples
  <2>7. Streaks(n)
    BY <1>3, <2>1, <2>5, <2>6, SMT DEF Streaks, Level, Warnings, Clears, Warm
  <2>8. Warm(n)
    BY <1>3, <2>1, <2>5, <2>6, SMT DEF Warm, Level, Warnings, Clears
  <2>9. Behind(n)
    BY <1>3, <2>1, <2>5, <2>6, SMT DEF Behind, Streaks, Warm, Level, Warnings, Clears
  <2>10. Steady(m, n)
    BY <1>3, <2>1, <2>5, <2>6, SMT DEF Steady, Rank, Behind, Streaks, Warm, Level, Warnings, Clears
  <2>11. QED
    BY <2>5, <2>7, <2>8, <2>9, <2>10 DEF n
<1>4. QED
  BY <1>1, <1>2, <1>3 DEF Readings

\* The level that System Health shows is steady, whatever the readings are and
\* however often the lanes and the handlers take them.
THEOREM LoadIsSteady == TrafficSpec => LoadLevelIsSteady
<1>1. TrafficInit => StateInv(traffic)
  BY SMT DEF TrafficInit, StateInv, TrafficStates, Levels, Streaks, Warm, Behind,
             interfaceSpikeWarmupSamples, interfaceTrafficWarnSamples, interfaceTrafficClearSamples
<1>2. StateInv(traffic) /\ [RefreshInterfacePanel(Readings)]_traffic
        => StateInv(traffic)' /\ Steady(traffic, traffic')
  <2>1. CASE RefreshInterfacePanel(Readings)
    BY <2>1, ReadingKeepsInv DEF RefreshInterfacePanel
  <2>2. CASE UNCHANGED traffic
    BY <2>2 DEF Steady
  <2>3. QED
    BY <2>1, <2>2
<1>3. QED
  BY <1>1, <1>2, PTL DEF TrafficSpec, LoadLevelIsSteady

-----------------------------------------------------------------------------
(* InOrder: rows whose keys are tuples of one length, no two the same       *)

Keyed(T, n) ==
    /\ IsFiniteSet(T) /\ n \in Nat
    /\ \A x \in T : x.key \in Seq(Int) /\ Len(x.key) = n
    /\ \A x, y \in T : x.key = y.key => x = y

KeyOrder(T) == {p \in T \X T : Before(p[1].key, p[2].key)}

LEMMA KeysDiffer ==
    ASSUME NEW n \in Nat, NEW a \in Seq(Int), NEW b \in Seq(Int), Len(a) = n, Len(b) = n, a # b
    PROVE  Before(a, b) \/ Before(b, a)
<1> DEFINE D == {i \in 1 .. n : a[i] # b[i]}
<1>1. DOMAIN a = 1 .. n /\ DOMAIN b = 1 .. n
  OBVIOUS
<1>2. D \subseteq Nat /\ D # {}
  <2>1. D = {} => a = b
    <3>1. a = [i \in 1 .. n |-> a[i]] /\ b = [i \in 1 .. n |-> b[i]]
      BY <1>1
    <3>2. D = {} => \A i \in 1 .. n : a[i] = b[i]
      OBVIOUS
    <3> QED
      BY <3>1, <3>2
  <2>2. D \subseteq Nat
    OBVIOUS
  <2> QED
    BY <2>1, <2>2
<1>3. PICK i \in D : \A j \in D : i <= j
  <2> HIDE DEF D
  <2> QED
    BY <1>2, LeastOf
<1>4. i \in 1 .. n /\ a[i] # b[i] /\ a[i] \in Int /\ b[i] \in Int
  OBVIOUS
<1>5. \A j \in 1 .. i - 1 : j \in 1 .. n /\ j \notin D
  BY <1>3, <1>4
<1>6. \A j \in 1 .. i - 1 : a[j] = b[j]
  BY <1>5
<1>7. a[i] < b[i] \/ b[i] < a[i]
  BY <1>4
<1> QED
  BY <1>1, <1>4, <1>6, <1>7 DEF Before

LEMMA BeforeIsTransitive ==
    ASSUME NEW n \in Nat, NEW a \in Seq(Int), NEW b \in Seq(Int), NEW c \in Seq(Int),
           Len(a) = n, Len(b) = n, Len(c) = n, Before(a, b), Before(b, c)
    PROVE  Before(a, c)
<1>1. DOMAIN a = 1 .. n /\ \A k \in 1 .. n : a[k] \in Int /\ b[k] \in Int /\ c[k] \in Int
  OBVIOUS
<1>2. PICK i \in 1 .. n : a[i] < b[i] /\ \A k \in 1 .. i - 1 : a[k] = b[k]
  BY DEF Before
<1>3. PICK j \in 1 .. n : b[j] < c[j] /\ \A k \in 1 .. j - 1 : b[k] = c[k]
  BY DEF Before
<1>4. CASE i <= j
  <2>1. a[i] < c[i]
    <3>1. b[i] <= c[i]
      BY <1>1, <1>3, <1>4
    <3> QED
      BY <1>1, <1>2, <3>1
  <2>2. \A k \in 1 .. i - 1 : a[k] = c[k]
    BY <1>2, <1>3, <1>4
  <2> QED
    BY <1>1, <2>1, <2>2 DEF Before
<1>5. CASE j < i
  <2>1. a[j] < c[j]
    BY <1>1, <1>2, <1>3, <1>5
  <2>2. \A k \in 1 .. j - 1 : a[k] = c[k]
    BY <1>2, <1>3, <1>5
  <2> QED
    BY <1>1, <2>1, <2>2 DEF Before
<1> QED
  BY <1>4, <1>5

LEMMA KeysAreOrdered ==
    ASSUME NEW T, NEW n, Keyed(T, n)
    PROVE  StrictTotalOrder(T, KeyOrder(T))
<1> DEFINE R == KeyOrder(T)
<1>1. \A x, y \in T : <<x, y>> \in R <=> Before(x.key, y.key)
  BY DEF KeyOrder
<1> HIDE DEF R
<1>2. \A x \in T : <<x, x>> \notin R
  <2> SUFFICES ASSUME NEW x \in T, <<x, x>> \in R PROVE FALSE
    OBVIOUS
  <2>1. x.key \in Seq(Int) /\ Before(x.key, x.key)
    BY <1>1 DEF Keyed
  <2>2. PICK i \in DOMAIN x.key : x.key[i] < x.key[i]
    BY <2>1 DEF Before
  <2>3. x.key[i] \in Int
    BY <2>1
  <2> QED
    BY <2>2, <2>3
<1>3. ASSUME NEW x \in T, NEW y \in T, NEW z \in T, <<x, y>> \in R, <<y, z>> \in R
      PROVE  <<x, z>> \in R
  <2>1. n \in Nat /\ \A t \in {x, y, z} : t.key \in Seq(Int) /\ Len(t.key) = n
    BY DEF Keyed
  <2>2. Before(x.key, z.key)
    BY <1>1, <1>3, <2>1, BeforeIsTransitive
  <2> QED
    BY <1>1, <2>2
<1>4. ASSUME NEW x \in T, NEW y \in T, x # y
      PROVE  <<x, y>> \in R \/ <<y, x>> \in R
  <2>1. n \in Nat /\ x.key # y.key /\ \A t \in {x, y} : t.key \in Seq(Int) /\ Len(t.key) = n
    BY <1>4 DEF Keyed
  <2>2. Before(x.key, y.key) \/ Before(y.key, x.key)
    BY <2>1, KeysDiffer
  <2> QED
    BY <1>1, <2>2
<1> QED
  BY <1>2, <1>3, <1>4 DEF StrictTotalOrder, R

\* Place k of the list has the member with k - 1 before it, and each member has
\* one place.
PlacesOf(T, f) ==
    /\ f \in Bijection(1 .. Cardinality(T), T)
    /\ InOrder(T) = [k \in 1 .. Cardinality(T) |-> f[k].row]
    /\ \A j, k \in 1 .. Cardinality(T) : j < k <=> Before(f[j].key, f[k].key)

LEMMA InOrderIs ==
    ASSUME NEW T, NEW n, Keyed(T, n)
    PROVE  \E f : PlacesOf(T, f)
<1> DEFINE N == Cardinality(T)
           R == KeyOrder(T)
           place == [x \in T |-> Cardinality(Earlier(T, R, x)) + 1]
           f == [k \in 1 .. N |-> CHOOSE x \in T : place[x] = k]
<1>1. IsFiniteSet(T) /\ N \in Nat
  BY FS_CardinalityType DEF Keyed
<1>2. /\ \A x \in T : IsFiniteSet(Earlier(T, R, x)) /\ Cardinality(Earlier(T, R, x)) \in Nat
      /\ \A x, y \in T : <<x, y>> \in R => Cardinality(Earlier(T, R, x)) < Cardinality(Earlier(T, R, y))
  <2>1. StrictTotalOrder(T, R)
    BY KeysAreOrdered
  <2> HIDE DEF R
  <2> QED
    BY <1>1, <2>1, RankGrows
<1>3. \A x \in T : Earlier(T, R, x) = {y \in T : Before(y.key, x.key)}
  BY DEF Earlier, KeyOrder
<1>4. \A x, y \in T : x = y \/ <<x, y>> \in R \/ <<y, x>> \in R
  BY KeysAreOrdered, Zenon DEF StrictTotalOrder
<1>5. \A x, y \in T : <<x, y>> \in R <=> Before(x.key, y.key)
  BY DEF KeyOrder
<1>6. \A x \in T : place[x] = Cardinality({y \in T : Before(y.key, x.key)}) + 1
  BY <1>3
<1>7. \A x \in T : place[x] \in 1 .. N
  <2> SUFFICES ASSUME NEW x \in T PROVE place[x] \in 1 .. N
    OBVIOUS
  <2>1. Earlier(T, R, x) \in SUBSET (T \ {x})
    <3>1. <<x, x>> \notin R
      BY KeysAreOrdered, Zenon DEF StrictTotalOrder
    <3> QED
      BY <3>1 DEF Earlier
  <2>2. IsFiniteSet(T \ {x}) /\ Cardinality(T \ {x}) = N - 1
    BY <1>1, FS_RemoveElement
  <2>3. Cardinality(Earlier(T, R, x)) <= N - 1
    <3> HIDE DEF R, N
    <3> QED
      BY <2>1, <2>2, FS_Subset
  <2> QED
    BY <1>1, <1>2, <2>3
<1>8. \A x, y \in T : <<x, y>> \in R => place[x] < place[y]
  BY <1>2
<1>9. place \in Injection(T, 1 .. N)
  <2>1. place \in [T -> 1 .. N]
    BY <1>7
  <2>2. ASSUME NEW x \in T, NEW y \in T, place[x] = place[y] PROVE x = y
    <3>1. place[x] \in Int /\ place[y] \in Int
      BY <1>7
    <3>2. x = y \/ <<x, y>> \in R \/ <<y, x>> \in R
      BY <1>4
    <3>3. (<<x, y>> \in R => place[x] < place[y]) /\ (<<y, x>> \in R => place[y] < place[x])
      BY <1>8
    <3> HIDE DEF place, R
    <3> QED
      BY <2>2, <3>1, <3>2, <3>3
  <2> HIDE DEF place
  <2> QED
    BY <2>1, <2>2 DEF Injection, IsInjective
<1>10. place \in Surjection(T, 1 .. N)
  <2>1. IsFiniteSet(1 .. N) /\ Cardinality(1 .. N) = N
    BY <1>1, FS_Interval
  <2> HIDE DEF place
  <2> QED
    BY <1>9, <2>1, FS_Injection DEF N
<1> HIDE DEF place, R
<1>11. \A k \in 1 .. N : f[k] \in T /\ place[f[k]] = k
  BY <1>10 DEF Surjection
<1>12. \A x \in T : f[place[x]] = x
  BY <1>7, <1>9, <1>11 DEF Injection, IsInjective
<1>13. f \in Bijection(1 .. N, T)
  <2>1. f \in [1 .. N -> T]
    BY <1>11
  <2> HIDE DEF f
  <2> QED
    BY <2>1, <1>7, <1>11, <1>12 DEF Bijection, Injection, Surjection, IsInjective
<1>14. InOrder(T) = [k \in 1 .. N |-> f[k].row]
  <2> DEFINE placed == {[place |-> Cardinality({y \in T : Before(y.key, x.key)}) + 1, row |-> x.row] : x \in T}
             Of(k) == CHOOSE p \in placed : p.place = k
  <2>1. placed = {[place |-> place[x], row |-> x.row] : x \in T}
    BY <1>6
  <2>2. ASSUME NEW k \in 1 .. N PROVE Of(k) = [place |-> k, row |-> f[k].row]
    <3> HIDE DEF placed, f
    <3>1. f[k] \in T /\ place[f[k]] = k
      BY <1>11
    <3>2. [place |-> k, row |-> f[k].row] \in placed
      BY <2>1, <3>1
    <3>3. ASSUME NEW p \in placed, p.place = k PROVE p = [place |-> k, row |-> f[k].row]
      <4>1. PICK x \in T : p = [place |-> place[x], row |-> x.row]
        BY <2>1
      <4>2. f[place[x]] = x /\ place[x] = k
        BY <1>12, <3>3, <4>1
      <4> QED
        BY <4>1, <4>2
    <3> QED
      BY <3>2, <3>3
  <2>3. InOrder(T) = [k \in 1 .. N |-> Of(k).row]
    BY DEF InOrder
  <2> HIDE DEF Of, f
  <2> QED
    BY <2>2, <2>3
<1>15. \A j, k \in 1 .. N : j < k <=> Before(f[j].key, f[k].key)
  <2> SUFFICES ASSUME NEW j \in 1 .. N, NEW k \in 1 .. N PROVE j < k <=> <<f[j], f[k]>> \in R
    BY <1>5, <1>11
  <2>1. f[j] \in T /\ f[k] \in T /\ place[f[j]] = j /\ place[f[k]] = k
    BY <1>11
  <2>2. f[j] = f[k] => j = k
    BY <2>1
  <2>3. f[j] = f[k] \/ <<f[j], f[k]>> \in R \/ <<f[k], f[j]>> \in R
    BY <1>4, <2>1
  <2>4. /\ <<f[j], f[k]>> \in R => place[f[j]] < place[f[k]]
        /\ <<f[k], f[j]>> \in R => place[f[k]] < place[f[j]]
    BY <1>8, <2>1
  <2> HIDE DEF f
  <2> QED
    BY <1>1, <2>1, <2>2, <2>3, <2>4
<1> QED
  BY <1>13, <1>14, <1>15 DEF PlacesOf

-----------------------------------------------------------------------------
(* The rows are the filtered connections, each once                         *)

ViewOK(v) ==
    /\ v.latestTalkers \in Seq(Connections)
    /\ v.topDirection \in {"IN", "OUT"} /\ v.sortMode \in SortModes /\ v.sortDesc \in BOOLEAN

LEMMA PlacesAreFinite ==
    ASSUME NEW v, ViewOK(v)
    PROVE  /\ DOMAIN v.latestTalkers = 1 .. Len(v.latestTalkers)
           /\ \A i \in DOMAIN v.latestTalkers : i \in Int /\ v.latestTalkers[i] \in Connections
           /\ IsFiniteSet(DOMAIN v.latestTalkers)
<1>1. DOMAIN v.latestTalkers = 1 .. Len(v.latestTalkers) /\ Len(v.latestTalkers) \in Int
  BY DEF ViewOK
<1>2. IsFiniteSet(1 .. Len(v.latestTalkers))
  <2>1. \A n \in Int : IsFiniteSet(1 .. n)
    BY FS_Interval
  <2> QED
    BY <1>1, <2>1, Zenon
<1> QED
  BY <1>1, <1>2 DEF ViewOK

LEMMA FilteredArePlaces ==
    ASSUME NEW v, ViewOK(v)
    PROVE  /\ Filtered(v) \in SUBSET DOMAIN v.latestTalkers
           /\ IsFiniteSet(Filtered(v)) /\ Cardinality(Filtered(v)) \in Nat
<1>1. Filtered(v) \in SUBSET DOMAIN v.latestTalkers
  BY DEF Filtered, FilterByText, FilterByPort, Source
<1>2. IsFiniteSet(DOMAIN v.latestTalkers)
  BY PlacesAreFinite
<1> QED
  BY <1>1, <1>2, FS_Subset, FS_CardinalityType

\* The two sets of filters are the same.
LEMMA FiltersAgree ==
    ASSUME NEW v, ViewOK(v)
    PROVE  GroupFiltered(v) = Filtered(v)
<1> DEFINE Matches(c) == \/ v.portFilter \in {NoFilter, 0}
                         \/ v.topDirection = "OUT" /\ c.remotePort = v.portFilter
                         \/ v.topDirection = "IN" /\ c.localPort = v.portFilter
<1>1. {i \in Source(v) : Matches(v.latestTalkers[i])} = FilterByPort(Source(v), v)
  <2>1. CASE v.portFilter \in {NoFilter, 0}
    BY <2>1 DEF FilterByPort
  <2>2. CASE v.portFilter \notin {NoFilter, 0}
    <3>1. v.topDirection = "OUT" \/ v.topDirection = "IN"
      BY DEF ViewOK
    <3>2. FilterByPort(Source(v), v) = {i \in Source(v) : DirectionPort(v.latestTalkers[i], v) = v.portFilter}
      BY <2>2 DEF FilterByPort
    <3>3. \A i \in Source(v) : Matches(v.latestTalkers[i]) <=> DirectionPort(v.latestTalkers[i], v) = v.portFilter
      BY <2>2, <3>1 DEF DirectionPort
    <3> HIDE DEF Matches
    <3> QED
      BY <3>2, <3>3
  <2> QED
    BY <2>1, <2>2
<1>2. GroupFiltered(v) = FilterByText({i \in Source(v) : Matches(v.latestTalkers[i])}, v)
  BY DEF GroupFiltered
<1> HIDE DEF Matches
<1> QED
  BY <1>1, <1>2, Zenon DEF Filtered

Sortable(places, v) ==
    {[key |-> SortKey(i, places, v), row |-> v.latestTalkers[i]] : i \in places}

LEMMA SortKeyType ==
    ASSUME NEW v, ViewOK(v), NEW places \in SUBSET DOMAIN v.latestTalkers, NEW i \in places
    PROVE  /\ SortKey(i, places, v) \in Seq(Int)
           /\ Len(SortKey(i, places, v)) = 5
           /\ SortKey(i, places, v)[5] = i
<1> DEFINE c == v.latestTalkers[i]
           same == {j \in places : v.latestTalkers[j].peer = c.peer}
           n == Cardinality(same)
           D(m) == Directed(m, v.sortDesc)
<1>1. /\ c.bytes \in Nat /\ c.queue \in Nat /\ c.peer \in Nat /\ DirectionPort(c, v) \in Nat
      /\ i \in Int
  <2>1. c \in Connections /\ i \in Int
    BY PlacesAreFinite
  <2>2. c.bytes \in Nat /\ c.queue \in Nat /\ c.peer \in Nat /\ c.localPort \in Nat /\ c.remotePort \in Nat
    <3> HIDE DEF c
    <3> QED
      BY <2>1 DEF Connections
  <2> QED
    BY <2>1, <2>2 DEF DirectionPort
<1>2. n \in Nat
  <2>1. IsFiniteSet(DOMAIN v.latestTalkers) /\ same \in SUBSET DOMAIN v.latestTalkers
    BY PlacesAreFinite
  <2> HIDE DEF same
  <2> QED
    BY <2>1, FS_Subset, FS_CardinalityType
<1>3. \A m \in Nat : D(m) \in Int
  BY DEF Directed
<1> HIDE DEF D
<1>4. D(c.bytes) \in Int /\ D(c.queue) \in Int /\ D(DirectionPort(c, v)) \in Int /\ D(n) \in Int
  <2> HIDE DEF c, n
  <2> QED
    BY <1>1, <1>2, <1>3
<1>5. \A a, b, d, e \in Int :
         /\ <<a, b, d, e, i>> \in Seq(Int) /\ Len(<<a, b, d, e, i>>) = 5 /\ <<a, b, d, e, i>>[5] = i
  BY <1>1
<1>6. \/ SortKey(i, places, v) = <<D(c.bytes), D(c.queue), D(DirectionPort(c, v)), c.peer, i>>
      \/ SortKey(i, places, v) = <<D(n), D(c.bytes), D(DirectionPort(c, v)), c.peer, i>>
      \/ SortKey(i, places, v) = <<D(DirectionPort(c, v)), D(c.bytes), c.peer, 0, i>>
  <2>1. v.sortMode = "bandwidth" \/ v.sortMode = "conns" \/ v.sortMode = "port"
    BY DEF ViewOK, SortModes
  <2>2. CASE v.sortMode = "bandwidth"
    BY <2>2 DEF SortKey, D
  <2>3. CASE v.sortMode = "conns"
    BY <2>3 DEF SortKey, D
  <2>4. CASE v.sortMode = "port"
    BY <2>4 DEF SortKey, D
  <2> QED
    BY <2>1, <2>2, <2>3, <2>4
<1> HIDE DEF c, n
<1>7. c.peer \in Int /\ 0 \in Int
  BY <1>1
<1>8. CASE SortKey(i, places, v) = <<D(c.bytes), D(c.queue), D(DirectionPort(c, v)), c.peer, i>>
  BY <1>4, <1>5, <1>7, <1>8
<1>9. CASE SortKey(i, places, v) = <<D(n), D(c.bytes), D(DirectionPort(c, v)), c.peer, i>>
  BY <1>4, <1>5, <1>7, <1>9
<1>10. CASE SortKey(i, places, v) = <<D(DirectionPort(c, v)), D(c.bytes), c.peer, 0, i>>
  BY <1>4, <1>5, <1>7, <1>10
<1> QED
  BY <1>6, <1>8, <1>9, <1>10

LEMMA SortableIsKeyed ==
    ASSUME NEW v, ViewOK(v), NEW places \in SUBSET DOMAIN v.latestTalkers
    PROVE  Keyed(Sortable(places, v), 5)
<1> DEFINE T == Sortable(places, v)
           h == [i \in places |-> [key |-> SortKey(i, places, v), row |-> v.latestTalkers[i]]]
<1>1. IsFiniteSet(T)
  <2>1. IsFiniteSet(DOMAIN v.latestTalkers)
    BY PlacesAreFinite
  <2>2. IsFiniteSet(places)
    BY <2>1, FS_Subset
  <2>3. h \in Surjection(places, T)
    BY DEF Surjection, Sortable
  <2> HIDE DEF T, h
  <2> QED
    BY <2>2, <2>3, FS_Surjection
<1>2. \A x \in T : \E i \in places : x.key = SortKey(i, places, v) /\ x = h[i]
  BY DEF Sortable
<1>3. \A x \in T : x.key \in Seq(Int) /\ Len(x.key) = 5
  <2> HIDE DEF T, h
  <2> QED
    BY <1>2, SortKeyType
<1>4. ASSUME NEW x \in T, NEW y \in T, x.key = y.key PROVE x = y
  <2> HIDE DEF T, h
  <2>1. PICK i \in places : x.key = SortKey(i, places, v) /\ x = h[i]
    BY <1>2
  <2>2. PICK j \in places : y.key = SortKey(j, places, v) /\ y = h[j]
    BY <1>2
  <2>3. SortKey(i, places, v)[5] = i /\ SortKey(j, places, v)[5] = j
    BY SortKeyType
  <2> QED
    BY <1>4, <2>1, <2>2, <2>3
<1> HIDE DEF T
<1> QED
  BY <1>1, <1>3, <1>4 DEF Keyed, T

\* Sorting gives each place a row.
RowsOf(rows, places, v, g) ==
    /\ g \in Bijection(1 .. Cardinality(places), places)
    /\ rows = [k \in 1 .. Cardinality(places) |-> v.latestTalkers[g[k]]]

LEMMA StableSortIs ==
    ASSUME NEW v, ViewOK(v), NEW places \in SUBSET DOMAIN v.latestTalkers
    PROVE  \E g : RowsOf(StableSort(places, v), places, v, g)
<1> DEFINE T == Sortable(places, v)
           Entry(i) == [key |-> SortKey(i, places, v), row |-> v.latestTalkers[i]]
           h == [i \in places |-> Entry(i)]
           back == [x \in T |-> x.key[5]]
<1>1. IsFiniteSet(places)
  <2>1. IsFiniteSet(DOMAIN v.latestTalkers)
    BY PlacesAreFinite
  <2> QED
    BY <2>1, FS_Subset
<1>2. \A i \in places : SortKey(i, places, v)[5] = i
  BY SortKeyType
<1>3. \A i \in places : Entry(i) \in T /\ back[Entry(i)] = i
  <2>1. \A i \in places : Entry(i) \in T
    BY DEF Sortable
  <2> QED
    BY <1>2, <2>1
<1>4. \A x \in T : \E i \in places : x = Entry(i)
  BY DEF Sortable
<1>5. \A x \in T : back[x] \in places /\ x = Entry(back[x])
  <2> HIDE DEF T, Entry, back
  <2> QED
    BY <1>3, <1>4
<1>6. back \in Bijection(T, places)
  <2>1. back \in [T -> places]
    BY <1>5
  <2> HIDE DEF T, Entry, back
  <2> QED
    BY <1>3, <1>5, <2>1 DEF Bijection, Injection, Surjection, IsInjective
<1>7. Cardinality(T) = Cardinality(places)
  <2>1. Keyed(T, 5)
    BY SortableIsKeyed
  <2>2. ExistsBijection(T, places)
    <3> HIDE DEF T, back
    <3> QED
      BY <1>6, Zenon DEF ExistsBijection
  <2>3. IsFiniteSet(T)
    BY <2>1 DEF Keyed
  <2> HIDE DEF T
  <2> QED
    BY <2>2, <2>3, FS_Bijection
<1>8. PICK f : PlacesOf(T, f)
  BY SortableIsKeyed, InOrderIs
<1> DEFINE N == Cardinality(places)
           g == [k \in 1 .. N |-> back[f[k]]]
<1>9. f \in Bijection(1 .. N, T) /\ InOrder(T) = [k \in 1 .. N |-> f[k].row]
  BY <1>7, <1>8 DEF PlacesOf
<1> HIDE DEF N
<1>10. \A k \in 1 .. N : f[k] \in T /\ g[k] = back[f[k]] /\ f[k].row = v.latestTalkers[g[k]]
  <2>1. \A k \in 1 .. N : f[k] \in T
    BY <1>9 DEF Bijection, Injection
  <2>2. \A i : Entry(i).row = v.latestTalkers[i]
    OBVIOUS
  <2> HIDE DEF T, Entry, back
  <2> QED
    BY <1>5, <2>1, <2>2
<1>11. g \in Bijection(1 .. N, places)
  <2> HIDE DEF T, Entry, back
  <2>1. f \in Injection(1 .. N, T) /\ f \in Surjection(1 .. N, T)
    BY <1>9 DEF Bijection
  <2>2. back \in Injection(T, places) /\ back \in Surjection(T, places)
    BY <1>6 DEF Bijection
  <2>3. g \in [1 .. N -> places]
    BY <1>5, <1>10
  <2>4. ASSUME NEW j \in 1 .. N, NEW k \in 1 .. N, g[j] = g[k] PROVE j = k
    <3>1. f[j] = f[k]
      BY <1>10, <2>2, <2>4 DEF Injection, IsInjective
    <3> QED
      BY <2>1, <3>1 DEF Injection, IsInjective
  <2>5. ASSUME NEW i \in places PROVE \E k \in 1 .. N : g[k] = i
    <3>1. PICK x \in T : back[x] = i
      BY <2>2 DEF Surjection
    <3>2. PICK k \in 1 .. N : f[k] = x
      BY <2>1 DEF Surjection
    <3> QED
      BY <1>10, <3>1, <3>2
  <2> HIDE DEF g
  <2> QED
    BY <2>3, <2>4, <2>5 DEF Bijection, Injection, Surjection, IsInjective
<1>12. StableSort(places, v) = [k \in 1 .. N |-> v.latestTalkers[g[k]]]
  <2>1. StableSort(places, v) = InOrder(T)
    BY Zenon DEF StableSort, Sortable
  <2> HIDE DEF T, Entry, back, g
  <2> QED
    BY <1>9, <1>10, <2>1
<1> HIDE DEF g
<1> QED
  BY <1>11, <1>12 DEF RowsOf, N

\* So no connection is lost or doubled, and counting rows counts connections.
LEMMA RowsCount ==
    ASSUME NEW v, ViewOK(v), NEW peer, NEW port
    PROVE  LET rows == ConnectionRows(v)
           IN  /\ rows \in Seq(Connections)
               /\ Len(rows) = Cardinality(Filtered(v))
               /\ Cardinality({k \in DOMAIN rows : rows[k].peer = peer /\ rows[k].localPort = port})
                    = Cardinality(At(Filtered(v), peer, port, v))
<1> DEFINE rows == ConnectionRows(v)
           P == Filtered(v)
           N == Cardinality(P)
<1>1. P \in SUBSET DOMAIN v.latestTalkers /\ IsFiniteSet(P) /\ N \in Nat
  BY FilteredArePlaces
<1>2. PICK g : RowsOf(rows, P, v, g)
  BY <1>1, StableSortIs DEF ConnectionRows
<1>3. g \in Bijection(1 .. N, P) /\ rows = [k \in 1 .. N |-> v.latestTalkers[g[k]]]
  BY <1>2 DEF RowsOf
<1> HIDE DEF rows, P
<1>4. \A k \in 1 .. N : g[k] \in P /\ rows[k] = v.latestTalkers[g[k]] /\ rows[k] \in Connections
  <2>1. \A k \in 1 .. N : g[k] \in P
    BY <1>3 DEF Bijection, Injection
  <2> QED
    BY <1>1, <1>3, <2>1, PlacesAreFinite
<1>5. rows \in Seq(Connections) /\ Len(rows) = N /\ DOMAIN rows = 1 .. N
  <2>1. rows \in [1 .. N -> Connections]
    BY <1>3, <1>4
  <2> QED
    BY <1>1, <2>1
<1> DEFINE A == {k \in DOMAIN rows : rows[k].peer = peer /\ rows[k].localPort = port}
           B == At(P, peer, port, v)
           h == [k \in A |-> g[k]]
<1>6. A \subseteq 1 .. N /\ B \subseteq P
  BY <1>5 DEF At
<1>7. \A k \in 1 .. N : k \in A <=> g[k] \in B
  BY <1>4, <1>5 DEF At
<1>8. h \in Bijection(A, B)
  <2> HIDE DEF A, B
  <2>1. h \in [A -> B]
    BY <1>6, <1>7
  <2>2. ASSUME NEW j \in A, NEW k \in A, h[j] = h[k] PROVE j = k
    <3>1. g[j] = g[k] /\ j \in 1 .. N /\ k \in 1 .. N
      BY <1>6, <2>2
    <3> QED
      BY <1>3, <3>1 DEF Bijection, Injection, IsInjective
  <2>3. ASSUME NEW i \in B PROVE \E k \in A : h[k] = i
    <3>1. PICK k \in 1 .. N : g[k] = i
      BY <1>3, <1>6 DEF Bijection, Surjection
    <3> QED
      BY <1>7, <3>1
  <2> HIDE DEF h
  <2> QED
    BY <2>1, <2>2, <2>3 DEF Bijection, Injection, Surjection, IsInjective
<1>9. Cardinality(A) = Cardinality(B)
  <2>1. IsFiniteSet(A)
    <3>1. IsFiniteSet(1 .. N)
      BY <1>1, FS_Interval
    <3> HIDE DEF A
    <3> QED
      BY <1>6, <3>1, FS_Subset
  <2>2. ExistsBijection(A, B)
    <3> HIDE DEF A, B, h
    <3> QED
      BY <1>8, Zenon DEF ExistsBijection
  <2> HIDE DEF A, B
  <2> QED
    BY <2>1, <2>2, FS_Bijection
<1> QED
  BY <1>5, <1>9 DEF rows, P

-----------------------------------------------------------------------------
(* The groups share out the filtered connections                            *)

Sums == [peer : Nat, proc : Nat, members : SUBSET Int, bytes : Nat, queue : Nat]

MembersOf(peer, proc, v) ==
    {i \in GroupFiltered(v) : v.latestTalkers[i].peer = peer /\ v.latestTalkers[i].proc = proc}

LEMMA PeerGroupIs ==
    ASSUME NEW v, ViewOK(v), NEW peer \in Nat, NEW proc \in Nat
    PROVE  LET g == PeerGroup(peer, proc, v)
           IN  /\ g \in Sums /\ g.peer = peer /\ g.proc = proc
               /\ g.members = MembersOf(peer, proc, v)
               /\ IsFiniteSet(g.members) /\ Cardinality(g.members) \in Nat
<1> DEFINE M == MembersOf(peer, proc, v)
           b == [i \in M |-> v.latestTalkers[i].bytes]
           q == [i \in M |-> v.latestTalkers[i].queue]
<1>1. M \in SUBSET DOMAIN v.latestTalkers
  BY FiltersAgree, FilteredArePlaces DEF MembersOf
<1>2. IsFiniteSet(M) /\ Cardinality(M) \in Nat
  <2>1. IsFiniteSet(DOMAIN v.latestTalkers)
    BY PlacesAreFinite
  <2> HIDE DEF M
  <2> QED
    BY <1>1, <2>1, FS_Subset, FS_CardinalityType
<1>3. PeerGroup(peer, proc, v) =
        [peer |-> peer, proc |-> proc, members |-> M, bytes |-> SumFunction(b), queue |-> SumFunction(q)]
  BY Zenon DEF PeerGroup, MembersOf
<1> HIDE DEF M
<1>4. \A i \in M : i \in Int /\ v.latestTalkers[i].bytes \in Nat /\ v.latestTalkers[i].queue \in Nat
  <2>1. \A i \in M : i \in Int /\ v.latestTalkers[i] \in Connections
    BY <1>1, PlacesAreFinite
  <2> QED
    BY <2>1 DEF Connections
<1>5. b \in [M -> Nat] /\ q \in [M -> Nat]
  BY <1>4
<1> HIDE DEF b, q
<1>6. SumFunction(b) \in Nat /\ SumFunction(q) \in Nat
  BY <1>2, <1>5, SumType
<1>7. M \in SUBSET Int
  BY <1>4
<1> QED
  BY <1>2, <1>3, <1>6, <1>7 DEF Sums, M

LEMMA PeerGroupsAre ==
    ASSUME NEW v, ViewOK(v)
    PROVE  /\ IsFiniteSet(PeerGroups(v))
           /\ \A g \in PeerGroups(v) :
                 /\ g \in Sums /\ g = PeerGroup(g.peer, g.proc, v)
                 /\ g.members = MembersOf(g.peer, g.proc, v) /\ Count(g) \in Nat
           /\ \A i \in Filtered(v) :
                 \E g \in PeerGroups(v) : g.peer = v.latestTalkers[i].peer /\ g.proc = v.latestTalkers[i].proc
<1> DEFINE P == GroupFiltered(v)
           Of(i) == PeerGroup(v.latestTalkers[i].peer, v.latestTalkers[i].proc, v)
           h == [i \in P |-> Of(i)]
<1>1. P = Filtered(v) /\ P \in SUBSET DOMAIN v.latestTalkers /\ IsFiniteSet(P)
  BY FiltersAgree, FilteredArePlaces
<1>2. PeerGroups(v) = {Of(i) : i \in P}
  BY Zenon DEF PeerGroups
<1>3. \A i \in P : v.latestTalkers[i].peer \in Nat /\ v.latestTalkers[i].proc \in Nat
  <2>1. \A i \in P : v.latestTalkers[i] \in Connections
    BY <1>1, PlacesAreFinite
  <2> QED
    BY <2>1 DEF Connections
<1>4. IsFiniteSet(PeerGroups(v))
  <2>1. h \in Surjection(P, PeerGroups(v))
    <3> HIDE DEF P, Of
    <3> QED
      BY <1>2 DEF Surjection
  <2> HIDE DEF P, h
  <2> QED
    BY <1>1, <2>1, FS_Surjection
<1>5. ASSUME NEW i \in P
      PROVE  /\ Of(i).peer = v.latestTalkers[i].peer /\ Of(i).proc = v.latestTalkers[i].proc
             /\ Of(i) \in Sums
             /\ Of(i).members = MembersOf(v.latestTalkers[i].peer, v.latestTalkers[i].proc, v)
             /\ Cardinality(Of(i).members) \in Nat
  <2> DEFINE peer == v.latestTalkers[i].peer
             proc == v.latestTalkers[i].proc
  <2>1. peer \in Nat /\ proc \in Nat
    BY <1>3
  <2> HIDE DEF peer, proc
  <2>2. /\ PeerGroup(peer, proc, v).peer = peer /\ PeerGroup(peer, proc, v).proc = proc
        /\ PeerGroup(peer, proc, v) \in Sums
        /\ PeerGroup(peer, proc, v).members = MembersOf(peer, proc, v)
        /\ Cardinality(PeerGroup(peer, proc, v).members) \in Nat
    BY <2>1, PeerGroupIs
  <2> QED
    BY <2>2 DEF peer, proc
<1>6. ASSUME NEW g \in PeerGroups(v)
      PROVE  /\ g \in Sums /\ g = PeerGroup(g.peer, g.proc, v)
             /\ g.members = MembersOf(g.peer, g.proc, v) /\ Count(g) \in Nat
  <2>1. PICK i \in P : g = Of(i)
    BY <1>2
  <2>2. /\ g.peer = v.latestTalkers[i].peer /\ g.proc = v.latestTalkers[i].proc /\ g \in Sums
        /\ g.members = MembersOf(v.latestTalkers[i].peer, v.latestTalkers[i].proc, v)
        /\ Cardinality(g.members) \in Nat
    BY <1>5, <2>1
  <2> QED
    BY <2>1, <2>2 DEF Count
<1>7. ASSUME NEW i \in Filtered(v)
      PROVE  \E g \in PeerGroups(v) : g.peer = v.latestTalkers[i].peer /\ g.proc = v.latestTalkers[i].proc
  <2>1. i \in P /\ Of(i) \in PeerGroups(v)
    BY <1>1, <1>2
  <2> QED
    BY <1>5, <2>1
<1> QED
  BY <1>4, <1>6, <1>7

LEMMA GroupsShareOut ==
    ASSUME NEW v, ViewOK(v)
    PROVE  /\ UNION {g.members : g \in PeerGroups(v)} = Filtered(v)
           /\ \A g, h \in PeerGroups(v) : g # h => g.members \cap h.members = {}
<1> DEFINE G == PeerGroups(v)
<1>1. /\ \A g \in G : g = PeerGroup(g.peer, g.proc, v) /\ g.members = MembersOf(g.peer, g.proc, v)
      /\ \A i \in Filtered(v) : \E g \in G : g.peer = v.latestTalkers[i].peer /\ g.proc = v.latestTalkers[i].proc
  BY PeerGroupsAre
<1>2. GroupFiltered(v) = Filtered(v)
  BY FiltersAgree
<1> HIDE DEF G
<1>3. ASSUME NEW i \in Filtered(v) PROVE \E g \in G : i \in g.members
  BY <1>1, <1>2 DEF MembersOf
<1>4. ASSUME NEW g \in G, NEW i \in g.members PROVE i \in Filtered(v)
  BY <1>1, <1>2 DEF MembersOf
<1>5. ASSUME NEW g \in G, NEW h \in G, NEW i \in g.members \cap h.members PROVE g = h
  <2>1. g.peer = h.peer /\ g.proc = h.proc
    BY <1>1 DEF MembersOf
  <2> QED
    BY <1>1, <2>1
<1> QED
  BY <1>3, <1>4, <1>5 DEF G

-----------------------------------------------------------------------------
(* The groups in order, and the cap                                         *)

SortableGroups(groups, desc) == {[key |-> GroupKey(g, desc), row |-> g] : g \in groups}

LEMMA SortedGroups ==
    ASSUME NEW v, ViewOK(v), NEW groups \in SUBSET PeerGroups(v), NEW desc \in BOOLEAN
    PROVE  /\ IsFiniteSet(groups)
           /\ \E f : /\ f \in Bijection(1 .. Cardinality(groups), groups)
                     /\ SortPeerGroups(groups, desc) = [k \in 1 .. Cardinality(groups) |-> f[k]]
                     /\ \A j, k \in 1 .. Cardinality(groups) :
                           j < k => Before(GroupKey(f[j], desc), GroupKey(f[k], desc))
<1> DEFINE T == SortableGroups(groups, desc)
           Entry(g) == [key |-> GroupKey(g, desc), row |-> g]
           h == [g \in groups |-> Entry(g)]
           n == Cardinality(groups)
<1>1. IsFiniteSet(groups) /\ n \in Nat
  BY PeerGroupsAre, FS_Subset, FS_CardinalityType
<1>2. \A g \in groups : g \in Sums /\ g = PeerGroup(g.peer, g.proc, v) /\ Count(g) \in Nat
  BY PeerGroupsAre
<1>3. ASSUME NEW g \in groups
      PROVE  /\ GroupKey(g, desc) \in Seq(Int) /\ Len(GroupKey(g, desc)) = 5
             /\ GroupKey(g, desc)[4] = g.peer /\ GroupKey(g, desc)[5] = g.proc
  <2>1. /\ g.bytes \in Nat /\ g.queue \in Nat /\ g.peer \in Nat /\ g.proc \in Nat /\ Count(g) \in Nat
    BY <1>2 DEF Sums
  <2>2. Directed(Count(g), desc) \in Int /\ -g.bytes \in Int /\ -g.queue \in Int
    BY <2>1 DEF Directed
  <2> QED
    BY <2>1, <2>2 DEF GroupKey
<1>4. \A g \in groups : Entry(g) \in T /\ Entry(g).row = g /\ Entry(g).key = GroupKey(g, desc)
  BY DEF SortableGroups
<1>5. \A x \in T : x.row \in groups /\ x = Entry(x.row)
  BY DEF SortableGroups
<1> HIDE DEF T, Entry
<1>6. \A g, k \in groups : GroupKey(g, desc) = GroupKey(k, desc) => g = k
  BY <1>2, <1>3
<1>7. h \in Bijection(groups, T)
  <2>1. h \in [groups -> T]
    BY <1>4
  <2>2. \A g \in groups : h[g].row = g
    BY <1>4
  <2>3. \A x \in T : x.row \in groups /\ h[x.row] = x
    BY <1>5
  <2> HIDE DEF h
  <2> QED
    BY <2>1, <2>2, <2>3 DEF Bijection, Injection, Surjection, IsInjective
<1>8. IsFiniteSet(T) /\ Cardinality(T) = n
  <2>1. ExistsBijection(groups, T)
    <3> HIDE DEF h
    <3> QED
      BY <1>7, Zenon DEF ExistsBijection
  <2> QED
    BY <1>1, <2>1, FS_Bijection
<1>9. Keyed(T, 5)
  <2>1. \A x \in T : x.key = GroupKey(x.row, desc)
    BY <1>4, <1>5
  <2>2. \A x \in T : x.key \in Seq(Int) /\ Len(x.key) = 5
    BY <1>3, <1>5, <2>1
  <2>3. ASSUME NEW x \in T, NEW y \in T, x.key = y.key PROVE x = y
    <3>1. x.row = y.row
      BY <1>5, <1>6, <2>1, <2>3
    <3> QED
      BY <1>5, <3>1
  <2> QED
    BY <1>8, <2>2, <2>3 DEF Keyed
<1>10. PICK e : PlacesOf(T, e)
  BY <1>9, InOrderIs
<1>11. /\ e \in Bijection(1 .. n, T) /\ InOrder(T) = [k \in 1 .. n |-> e[k].row]
       /\ \A j, k \in 1 .. n : j < k <=> Before(e[j].key, e[k].key)
  BY <1>8, <1>10 DEF PlacesOf
<1> DEFINE f == [k \in 1 .. n |-> e[k].row]
<1>12. SortPeerGroups(groups, desc) = [k \in 1 .. n |-> f[k]]
  <2>1. SortPeerGroups(groups, desc) = InOrder(T)
    BY Zenon DEF SortPeerGroups, SortableGroups, T
  <2>2. InOrder(T) = f
    BY <1>11
  <2>3. f = [k \in 1 .. n |-> f[k]]
    OBVIOUS
  <2> HIDE DEF f
  <2> QED
    BY <2>1, <2>2, <2>3
<1> HIDE DEF n
<1>13. \A k \in 1 .. n : e[k] \in T /\ f[k] = e[k].row /\ f[k] \in groups /\ e[k].key = GroupKey(f[k], desc)
  <2>1. \A k \in 1 .. n : e[k] \in T
    BY <1>11 DEF Bijection, Injection
  <2> QED
    BY <1>4, <1>5, <2>1
<1>14. f \in Bijection(1 .. n, groups)
  <2>1. f \in [1 .. n -> groups]
    BY <1>13
  <2>2. ASSUME NEW j \in 1 .. n, NEW k \in 1 .. n, f[j] = f[k] PROVE j = k
    <3>1. e[j] = e[k]
      BY <1>5, <1>13, <2>2
    <3> QED
      BY <1>11, <3>1 DEF Bijection, Injection, IsInjective
  <2>3. ASSUME NEW g \in groups PROVE \E k \in 1 .. n : f[k] = g
    <3>1. PICK k \in 1 .. n : e[k] = Entry(g)
      BY <1>4, <1>11 DEF Bijection, Surjection
    <3> QED
      BY <1>4, <1>13, <3>1
  <2> HIDE DEF f
  <2> QED
    BY <2>1, <2>2, <2>3 DEF Bijection, Injection, Surjection, IsInjective
<1>15. \A j, k \in 1 .. n : j < k => Before(GroupKey(f[j], desc), GroupKey(f[k], desc))
  BY <1>11, <1>13
<1> HIDE DEF f
<1> QED
  BY <1>1, <1>12, <1>14, <1>15 DEF n

\* What the cap keeps are groups, and none that it drops has more connections;
\* the same rows stand in the list.
LEMMA CapKeepsTheLargest ==
    ASSUME NEW v, ViewOK(v)
    PROVE  LET kept == ToSet(GroupRows(v))
           IN  /\ GroupRows(v) \in Seq(PeerGroups(v))
               /\ \A g \in kept, h \in PeerGroups(v) \ kept : Count(h) <= Count(g)
<1> DEFINE G == PeerGroups(v)
           ranked == SortPeerGroups(G, TRUE)
           first == 1 .. Least(Len(ranked), TopConnectionsGroupCap)
           kept == IF TopConnectionsGroupCap = 0 THEN G ELSE {ranked[k] : k \in first}
           n == Cardinality(G)
<1>1. PICK f : /\ f \in Bijection(1 .. n, G) /\ ranked = [k \in 1 .. n |-> f[k]]
               /\ \A j, k \in 1 .. n : j < k => Before(GroupKey(f[j], TRUE), GroupKey(f[k], TRUE))
  BY SortedGroups
<1>2. n \in Nat /\ \A g \in G : Count(g) \in Nat
  BY PeerGroupsAre, FS_CardinalityType
<1>3. TopConnectionsGroupCap \in Nat
  BY TopConnectionsAssumption
<1> HIDE DEF G, ranked, n
<1>4. (\A k \in 1 .. n : f[k] \in G /\ ranked[k] = f[k]) /\ \A g \in G : \E k \in 1 .. n : f[k] = g
  BY <1>1 DEF Bijection, Injection, Surjection
<1>5. ranked \in Seq(G) /\ Len(ranked) = n
  <2>1. ranked \in [1 .. n -> G]
    BY <1>1, <1>4
  <2> QED
    BY <1>2, <2>1
<1>6. first \subseteq 1 .. n /\ \A k \in first : \A j \in 1 .. n : j < k => j \in first
  BY <1>2, <1>3, <1>5 DEF Least
<1> HIDE DEF first
<1>7. kept \in SUBSET G
  BY <1>4, <1>6
<1>8. ASSUME NEW g \in kept, NEW h \in G \ kept PROVE Count(h) <= Count(g)
  <2>1. PICK k \in first : g = f[k]
    BY <1>4, <1>6, <1>8
  <2>2. PICK j \in 1 .. n : h = f[j]
    BY <1>4
  <2>3. j \notin first /\ k \in 1 .. n
    BY <1>4, <1>6, <1>8, <2>2
  <2>4. k < j
    BY <1>2, <1>6, <2>1, <2>2, <2>3
  <2>5. Before(GroupKey(g, TRUE), GroupKey(h, TRUE))
    BY <1>1, <2>1, <2>2, <2>3, <2>4
  <2>6. g \in G /\ Count(g) \in Nat /\ Count(h) \in Nat
    BY <1>2, <1>7
  <2>7. /\ DOMAIN GroupKey(g, TRUE) = 1 .. 5
        /\ GroupKey(g, TRUE)[1] = -Count(g) /\ GroupKey(h, TRUE)[1] = -Count(h)
    BY DEF GroupKey, Directed
  <2>8. PICK i \in 1 .. 5 : /\ GroupKey(g, TRUE)[i] < GroupKey(h, TRUE)[i]
                            /\ \A l \in 1 .. i - 1 : GroupKey(g, TRUE)[l] = GroupKey(h, TRUE)[l]
    BY <2>5, <2>7 DEF Before
  <2>9. CASE i = 1
    <3>1. -Count(g) < -Count(h)
      BY <2>7, <2>8, <2>9
    <3> QED
      BY <2>6, <3>1
  <2>10. CASE i # 1
    <3>1. 1 \in 1 .. i - 1
      BY <2>10
    <3>2. -Count(g) = -Count(h)
      BY <2>7, <2>8, <3>1
    <3> QED
      BY <2>6, <3>2
  <2> QED
    BY <2>9, <2>10
<1>9. GroupRows(v) = SortPeerGroups(kept, v.sortDesc)
  BY Zenon DEF GroupRows, LimitPeerGroups, kept, first, ranked, G
<1> HIDE DEF kept
<1> DEFINE m == Cardinality(kept)
<1>10. PICK e : e \in Bijection(1 .. m, kept) /\ GroupRows(v) = [k \in 1 .. m |-> e[k]]
  <2> DEFINE desc == v.sortDesc
  <2>1. kept \in SUBSET PeerGroups(v) /\ desc \in BOOLEAN /\ GroupRows(v) = SortPeerGroups(kept, desc)
    BY <1>7, <1>9 DEF ViewOK, G
  <2> HIDE DEF desc
  <2>2. \E e : /\ e \in Bijection(1 .. Cardinality(kept), kept)
               /\ SortPeerGroups(kept, desc) = [k \in 1 .. Cardinality(kept) |-> e[k]]
               /\ \A j, k \in 1 .. Cardinality(kept) :
                     j < k => Before(GroupKey(e[j], desc), GroupKey(e[k], desc))
    BY <2>1, SortedGroups, Zenon
  <2> QED
    BY <2>1, <2>2, Zenon
<1>11. m \in Nat
  <2>1. IsFiniteSet(G)
    BY PeerGroupsAre DEF G
  <2> QED
    BY <1>7, <2>1, FS_Subset, FS_CardinalityType
<1> HIDE DEF m
<1>12. (\A k \in 1 .. m : e[k] \in kept /\ GroupRows(v)[k] = e[k]) /\ \A g \in kept : \E k \in 1 .. m : e[k] = g
  BY <1>10 DEF Bijection, Injection, Surjection
<1>13. GroupRows(v) \in [1 .. m -> kept] /\ DOMAIN GroupRows(v) = 1 .. m
  BY <1>10, <1>12
<1>14. GroupRows(v) \in Seq(G)
  BY <1>7, <1>11, <1>13
<1>15. ToSet(GroupRows(v)) = kept
  BY <1>12, <1>13 DEF ToSet
<1> QED
  BY <1>8, <1>14, <1>15 DEF G

-----------------------------------------------------------------------------
(* The cursor and the preview, after any drawing of any view                *)

LEMMA ViewsAreOK ==
    ASSUME session \in Sessions, NEW v \in Views
    PROVE  ViewOK(v)
<1>1. session.tables \subseteq Seq(Connections)
  BY TopConnectionsAssumption
<1>2. v.latestTalkers \in session.tables \/ v.latestTalkers = <<>>
  BY DEF Views
<1>3. v.latestTalkers \in Seq(Connections)
  <2>1. <<>> \in Seq(Connections)
    OBVIOUS
  <2> QED
    BY <1>1, <1>2, <2>1
<1>4. v.topDirection \in {"IN", "OUT"} /\ v.sortMode \in SortModes /\ v.sortDesc \in BOOLEAN
  BY DEF Views
<1> QED
  BY <1>3, <1>4 DEF ViewOK

LEMMA LayoutType ==
    ASSUME NEW v, NEW n \in Nat
    PROVE  Layout(n, v).rowLimit \in Nat
<1> DEFINE height == IF v.zoomed THEN ZoomHeight ELSE GridHeight
           notes == IF v.topBandwidthNote THEN 1 ELSE 0
<1>1. height \in Nat
  BY TopConnectionsAssumption
<1>2. notes \in {0, 1}
  BY Zenon
<1>3. Layout(n, v) = CalculateTopConnectionsDisplayLimit(height, notes, n > 0)
  BY DEF Layout
<1> HIDE DEF height, notes
<1> DEFINE free == height - 7 - notes
<1>4. free \in Int
  BY <1>1, <1>2
<1>5. \/ Layout(n, v).rowLimit = Least(free - 5, 100) /\ free - 5 >= 3
      \/ Layout(n, v).rowLimit = Least(Most(free, 5), 100)
  BY <1>3 DEF CalculateTopConnectionsDisplayLimit, BaseReservedLines, PreviewLines, MinRows,
         MinRowsWithPreview, MaxRows
<1> HIDE DEF free
<1> QED
  BY <1>4, <1>5 DEF Least, Most

LEMMA RowsType ==
    ASSUME NEW v, ViewOK(v)
    PROVE  /\ Len(Rows(v)) \in Nat /\ Rows(v) \in Seq(PeerGroups(v) \cup Connections)
           /\ PanelRows(v) = Rows(v)
<1>1. ConnectionRows(v) \in Seq(PeerGroups(v) \cup Connections)
  <2>1. ConnectionRows(v) \in Seq(Connections)
    BY RowsCount
  <2> QED
    BY <2>1
<1>2. GroupRows(v) \in Seq(PeerGroups(v) \cup Connections)
  BY CapKeepsTheLargest
<1>3. Rows(v) \in Seq(PeerGroups(v) \cup Connections)
  BY <1>1, <1>2 DEF Rows
<1>4. PanelRows(v) = Rows(v)
  BY Zenon DEF PanelRows, Rows, PeerGroupPanelRows, TalkersPanelRows, GroupRows, ConnectionRows, Filtered
<1> QED
  BY <1>3, <1>4

\* What the preview's action would hit is among the connections behind the view.
LEMMA TargetCounts ==
    ASSUME NEW v, ViewOK(v), NEW row, Preview(row, v).target # NoTarget
    PROVE  Preview(row, v).target.count =
             Cardinality(At(Filtered(v), row.peer, Preview(row, v).target.port, v))
<1>1. CASE v.groupView
  <2> DEFINE Of(port) == At(GroupFiltered(v), row.peer, port, v)
  <2>1. Preview(row, v).target = SelectedPeerPortTarget(row.peer, v)
    BY <1>1 DEF Preview
  <2>2. \E best : SelectedPeerPortTarget(row.peer, v) = [port |-> best, count |-> Cardinality(Of(best))]
    BY <2>1 DEF SelectedPeerPortTarget
  <2>3. GroupFiltered(v) = Filtered(v)
    BY FiltersAgree
  <2> QED
    BY <2>1, <2>2, <2>3
<1>2. CASE ~v.groupView
  <2>1. Preview(row, v).target =
          [port |-> row.localPort, count |-> CountPeerMatches(row.peer, row.localPort, v)]
    BY <1>2 DEF Preview
  <2> QED
    BY <2>1 DEF CountPeerMatches
<1> QED
  BY <1>1, <1>2

\* The page that exists, asked for again, is the same.
LEMMA PageAgain ==
    ASSUME NEW n \in Nat, NEW limit \in Nat, NEW page \in Int
    PROVE  LET b == TopConnectionsPageBounds(n, limit, page)
           IN  /\ b.page \in Nat /\ b.start \in Nat /\ b.end \in Nat /\ b.totalPages \in Int
               /\ n > 0 => b.start < b.end /\ b.end <= n
               /\ n = 0 => b.start = 0 /\ b.end = 0
               /\ TopConnectionsPageBounds(n, limit, b.page) = b
<1> DEFINE b == TopConnectionsPageBounds(n, limit, page)
           per == Most(limit, 1)
           total == (n + per - 1) \div per
<1>1. CASE n = 0
  <2>1. \A i : TopConnectionsPageBounds(n, limit, i) = [page |-> 0, start |-> 0, end |-> 0, totalPages |-> 0]
    BY <1>1 DEF TopConnectionsPageBounds
  <2> QED
    BY <1>1, <2>1
<1>2. CASE n > 0
  <2>1. per \in Nat /\ per > 0
    BY DEF Most
  <2> HIDE DEF per
  <2>2. total \in Int
    <3>1. n + per - 1 \in Nat
      BY <2>1
    <3> QED
      BY <2>1, <3>1, DivBounds
  <2> HIDE DEF total
  <2>3. \A i \in Int : TopConnectionsPageBounds(n, limit, i) =
           [page |-> Least(Most(i, 0), total - 1), start |-> Least(Most(i, 0), total - 1) * per,
            end |-> Least(Least(Most(i, 0), total - 1) * per + per, n), totalPages |-> total]
    <3>1. ~(n <= 0)
      BY <1>2
    <3> QED
      BY <3>1, Zenon DEF TopConnectionsPageBounds, per, total
  <2>4. b = [page |-> Least(Most(page, 0), total - 1), start |-> Least(Most(page, 0), total - 1) * per,
             end |-> Least(Least(Most(page, 0), total - 1) * per + per, n), totalPages |-> total]
    BY <2>3
  <2>5. 0 <= b.start /\ b.start < b.end /\ b.end <= n /\ 0 <= b.page
    BY <1>2, PageHasRows
  <2> HIDE DEF b
  <2>6. b.page \in Int /\ b.page = Least(Most(page, 0), total - 1)
    BY <2>2, <2>4 DEF Least, Most
  <2>7. Least(Most(b.page, 0), total - 1) = b.page
    BY <2>2, <2>5, <2>6 DEF Least, Most
  <2>8. TopConnectionsPageBounds(n, limit, b.page) = b
    BY <2>3, <2>4, <2>6, <2>7
  <2>9. b.start \in Int /\ b.end \in Int
    <3>1. b.start = b.page * per /\ b.end = Least(b.page * per + per, n)
      BY <2>4
    <3>2. b.page * per \in Int
      BY <2>1, <2>6
    <3> QED
      BY <2>1, <3>1, <3>2 DEF Least
  <2> QED
    BY <1>2, <2>2, <2>4, <2>5, <2>6, <2>8, <2>9 DEF b
<1> QED
  BY <1>1, <1>2

CursorInv ==
    /\ session \in Sessions /\ view \in Views
    /\ selectedTalkerIndex \in Nat /\ topPageIndex \in Nat /\ Len(drawn.rows) \in Nat
    /\ CursorOnDrawnRow

LEMMA DrawingPutsTheCursor ==
    ASSUME session \in Sessions, session' = session, NEW v \in Views, NEW page \in Int, NEW sel \in Nat,
           RenderTopConnectionsPanel(v, page, sel)
    PROVE  CursorInv'
<1> DEFINE rows == Rows(v)
           n == Len(rows)
           layout == Layout(n, v)
           b == Bounds(n, page, v)
           at == Clamp(sel, b.end - b.start)
           preview == IF rows = <<>> \/ ~layout.showPreview THEN NoPreview
                      ELSE Preview(rows[b.start + at + 1], v)
<1>1. /\ view' = v /\ topPageIndex' = b.page /\ selectedTalkerIndex' = at
      /\ drawn' = Panel(v, layout.rowLimit, b.page, at, preview)
  BY DEF RenderTopConnectionsPanel
<1>2. ViewOK(v)
  BY ViewsAreOK
<1>3. n \in Nat /\ rows \in Seq(PeerGroups(v) \cup Connections) /\ PanelRows(v) = rows
  BY <1>2, RowsType
<1>4. layout.rowLimit \in Nat
  BY <1>3, LayoutType
<1> HIDE DEF rows
<1> DEFINE limit == layout.rowLimit
<1>5. b = TopConnectionsPageBounds(n, limit, page)
  BY DEF Bounds
<1> DEFINE p == TopConnectionsPageBounds(n, limit, b.page)
<1>6. drawn' = [rows |-> SubSeq(rows, p.start + 1, p.end), sel |-> Clamp(at, p.end - p.start), preview |-> preview]
  <2> HIDE DEF preview, at, b
  <2> QED
    BY <1>1, <1>3 DEF Panel
<1> HIDE DEF layout, preview
<1>7. /\ b.page \in Nat /\ p = b
      /\ n > 0 => 0 <= b.start /\ b.start < b.end /\ b.end <= n /\ b.start \in Nat /\ b.end \in Nat
      /\ n = 0 => b.start = 0 /\ b.end = 0
  <2>1. n \in Nat /\ limit \in Nat
    BY <1>3, <1>4
  <2> DEFINE q == TopConnectionsPageBounds(n, limit, page)
  <2> HIDE DEF n, limit, b
  <2>2. /\ q.page \in Nat /\ q.start \in Nat /\ q.end \in Nat
        /\ n > 0 => q.start < q.end /\ q.end <= n
        /\ n = 0 => q.start = 0 /\ q.end = 0
        /\ TopConnectionsPageBounds(n, limit, q.page) = q
    BY <2>1, PageAgain
  <2>3. b = q
    BY <1>5
  <2> HIDE DEF q
  <2>4. p = b
    BY <2>2, <2>3
  <2> QED
    BY <2>2, <2>3, <2>4
<1> HIDE DEF b, p, limit
<1> DEFINE size == b.end - b.start
<1>8. /\ size \in Nat /\ (size = 0 <=> n = 0)
      /\ at \in Nat /\ at <= Most(size - 1, 0) /\ (n > 0 => at < size) /\ Clamp(at, size) = at
  BY <1>3, <1>7 DEF Clamp, Least, Most
<1>9. drawn'.rows = SubSeq(rows, b.start + 1, b.end) /\ drawn'.sel = at /\ drawn'.preview = preview
  <2> HIDE DEF at, size
  <2> QED
    BY <1>6, <1>7, <1>8 DEF size
<1> HIDE DEF at
<1>10. /\ Len(SubSeq(rows, b.start + 1, b.end)) = size
       /\ n > 0 => SubSeq(rows, b.start + 1, b.end)[at + 1] = rows[b.start + at + 1]
  <2>1. CASE n = 0
    <3>1. b.start + 1 = 1 /\ b.end = 0 /\ size = 0
      BY <1>7, <1>8, <2>1
    <3>2. Len(SubSeq(rows, 1, 0)) = 0
      BY <1>3
    <3> QED
      BY <2>1, <3>1, <3>2
  <2>2. CASE n > 0
    <3>1. b.start + 1 \in 1 .. n /\ b.end \in 1 .. n /\ b.start + 1 <= b.end /\ n = Len(rows)
      BY <1>3, <1>7, <2>2
    <3>2. SubSeq(rows, b.start + 1, b.end) = [i \in 1 .. b.end - (b.start + 1) + 1 |-> rows[i + (b.start + 1) - 1]]
      BY <1>3, <3>1, SMT
    <3>3. b.end - (b.start + 1) + 1 = size
      BY <1>7, <2>2
    <3>4. at + 1 \in 1 .. size /\ at + 1 + (b.start + 1) - 1 = b.start + at + 1
      BY <1>7, <1>8, <2>2
    <3>5. SubSeq(rows, b.start + 1, b.end) = [i \in 1 .. size |-> rows[i + (b.start + 1) - 1]]
      BY <3>2, <3>3
    <3>6. Len(SubSeq(rows, b.start + 1, b.end)) = size
      <4>1. SubSeq(rows, b.start + 1, b.end) \in Seq(PeerGroups(v) \cup Connections)
        BY <1>3, <3>1
      <4>2. DOMAIN SubSeq(rows, b.start + 1, b.end) = 1 .. size
        BY <3>5
      <4> HIDE DEF size
      <4> QED
        BY <1>8, <4>1, <4>2
    <3>7. SubSeq(rows, b.start + 1, b.end)[at + 1] = rows[at + 1 + (b.start + 1) - 1]
      <4> HIDE DEF size
      <4> QED
        BY <3>4, <3>5
    <3> QED
      BY <3>4, <3>6, <3>7
  <2>3. n = 0 \/ n > 0
    BY <1>3
  <2> QED
    BY <2>1, <2>2, <2>3
<1>11. preview # NoPreview => n > 0 /\ preview = Preview(rows[b.start + at + 1], v)
  <2>1. preview # NoPreview => rows # <<>> /\ preview = Preview(rows[b.start + at + 1], v)
    BY DEF preview
  <2>2. rows # <<>> => n > 0
    BY <1>3
  <2> QED
    BY <2>1, <2>2
<1>12. PreviewOfMark'
  <2> SUFFICES ASSUME preview # NoPreview
               PROVE  LET target == preview.target
                          row == preview.row
                          all == ConnectionRows(v)
                      IN  /\ SubSeq(rows, b.start + 1, b.end)[at + 1] = row
                          /\ target # NoTarget =>
                               target.count = Cardinality({k \in DOMAIN all : /\ all[k].peer = row.peer
                                                                              /\ all[k].localPort = target.port})
    BY <1>1, <1>9 DEF PreviewOfMark
  <2> DEFINE row == rows[b.start + at + 1]
  <2>1. n > 0 /\ preview = Preview(row, v)
    BY <1>11
  <2>2. Preview(row, v).row = row
    BY DEF Preview
  <2> HIDE DEF row
  <2>3. SubSeq(rows, b.start + 1, b.end)[at + 1] = row
    BY <1>10, <2>1 DEF row
  <2>4. Preview(row, v).target # NoTarget =>
          Preview(row, v).target.count =
             Cardinality(At(Filtered(v), row.peer, Preview(row, v).target.port, v))
    BY <1>2, TargetCounts
  <2> DEFINE port == Preview(row, v).target.port
             all == ConnectionRows(v)
  <2>5. Cardinality({k \in DOMAIN all : all[k].peer = row.peer /\ all[k].localPort = port})
          = Cardinality(At(Filtered(v), row.peer, port, v))
    BY <1>2, RowsCount
  <2> QED
    BY <2>1, <2>2, <2>3, <2>4, <2>5
<1>13. session' \in Sessions /\ view' \in Views'
  BY <1>1 DEF Views
<1>14. selectedTalkerIndex' \in Nat /\ topPageIndex' \in Nat /\ Len(drawn'.rows) \in Nat
  BY <1>1, <1>7, <1>8, <1>9, <1>10
<1>15. /\ selectedTalkerIndex' <= Most(Len(drawn'.rows) - 1, 0)
       /\ drawn'.sel <= Most(Len(drawn'.rows) - 1, 0)
  BY <1>1, <1>8, <1>9, <1>10
<1> QED
  BY <1>12, <1>13, <1>14, <1>15 DEF CursorInv, CursorOnDrawnRow


-----------------------------------------------------------------------------
(* Sequences without duplicates, from which a page is removed               *)

NoDup(s) == \A i, j \in DOMAIN s : s[i] = s[j] => i = j

LEMMA InToSet ==
    ASSUME NEW S, NEW s \in Seq(S)
    PROVE  \A x : x \in ToSet(s) <=> \E i \in 1 .. Len(s) : s[i] = x
<1>1. DOMAIN s = 1 .. Len(s)
  OBVIOUS
<1> QED
  BY <1>1, Zenon DEF ToSet

LEMMA NoDupIs ==
    ASSUME NEW S, NEW s \in Seq(S)
    PROVE  NoDup(s) <=> \A i, j \in 1 .. Len(s) : s[i] = s[j] => i = j
<1>1. DOMAIN s = 1 .. Len(s)
  OBVIOUS
<1> QED
  BY <1>1, Zenon DEF NoDup

\* Removing what is at place k.
LEMMA RemoveFirstAt ==
    ASSUME NEW S, NEW s \in Seq(S), NoDup(s), NEW e, NEW k \in 1 .. Len(s), s[k] = e
    PROVE  RemoveFirst(s, e) = SubSeq(s, 1, k - 1) \o SubSeq(s, k + 1, Len(s))
<1> DEFINE I == {i \in 1 .. Len(s) : s[i] = e}
<1>1. I = {k}
  BY DEF NoDup
<1>2. Min(I) = k
  BY <1>1 DEF Min
<1>3. SelectInSeq(s, LAMBDA v : v = e) = k
  BY <1>1, <1>2 DEF SelectInSeq
<1> QED
  BY <1>3 DEF RemoveFirst, RemoveAt

LEMMA RemoveFirstNone ==
    ASSUME NEW s, NEW e, \A i \in 1 .. Len(s) : s[i] # e
    PROVE  RemoveFirst(s, e) = s
  BY DEF RemoveFirst

\* What is left, and where.
LEMMA RemoveFirstLeaves ==
    ASSUME NEW S, NEW s \in Seq(S), NoDup(s), NEW e
    PROVE  LET r == RemoveFirst(s, e)
           IN  /\ r \in Seq(S) /\ NoDup(r)
               /\ ToSet(r) = ToSet(s) \ {e}
               /\ \A i \in 2 .. Len(r) : \E j \in 2 .. Len(s) : r[i] = s[j]
<1> DEFINE r == RemoveFirst(s, e)
<1>1. CASE \A i \in 1 .. Len(s) : s[i] # e
  BY <1>1, RemoveFirstNone DEF ToSet
<1>2. CASE \E i \in 1 .. Len(s) : s[i] = e
  <2>1. PICK k \in 1 .. Len(s) : s[k] = e
    BY <1>2
  <2>2. r = SubSeq(s, 1, k - 1) \o SubSeq(s, k + 1, Len(s))
    BY <2>1, RemoveFirstAt
  <2> HIDE DEF r
  <2>3. /\ r \in Seq(S) /\ Len(r) = Len(s) - 1
        /\ \A i \in 1 .. Len(r) : r[i] = s[IF i < k THEN i ELSE i + 1]
    <3> DEFINE a == SubSeq(s, 1, k - 1)
               b == SubSeq(s, k + 1, Len(s))
    <3>1. /\ a \in Seq(S) /\ Len(a) = k - 1 /\ \A i \in 1 .. k - 1 : a[i] = s[i]
          /\ b \in Seq(S) /\ Len(b) = Len(s) - k /\ \A i \in 1 .. Len(s) - k : b[i] = s[k + i]
      OBVIOUS
    <3>2. r = a \o b
      BY <2>2
    <3> HIDE DEF a, b
    <3>3. /\ r \in Seq(S) /\ Len(r) = Len(a) + Len(b)
          /\ \A i \in 1 .. Len(r) : r[i] = IF i <= Len(a) THEN a[i] ELSE b[i - Len(a)]
      <4>1. a \in Seq(S) /\ b \in Seq(S)
        BY <3>1
      <4>2. a \o b \in Seq(S) /\ Len(a \o b) = Len(a) + Len(b)
        BY <4>1
      <4>3. \A i \in 1 .. Len(a) + Len(b) :
              (a \o b)[i] = IF i <= Len(a) THEN a[i] ELSE b[i - Len(a)]
        BY <4>1
      <4> QED
        BY <3>2, <4>2, <4>3
    <3>4. Len(r) = Len(s) - 1
      BY <3>1, <3>3
    <3>5. ASSUME NEW i \in 1 .. Len(r)
          PROVE  r[i] = s[IF i < k THEN i ELSE i + 1]
      <4>1. CASE i < k
        BY <4>1, <3>1, <3>3
      <4>2. CASE i >= k
        <5>1. i - (k - 1) \in 1 .. Len(s) - k /\ k + (i - (k - 1)) = i + 1
          BY <4>2, <3>4
        <5> QED
          BY <4>2, <5>1, <3>1, <3>3
      <4> QED
        BY <4>1, <4>2
    <3> QED
      BY <3>3, <3>4, <3>5
  <2>4. NoDup(r)
    <3>1. \A i, j \in 1 .. Len(s) : s[i] = s[j] => i = j
      BY NoDupIs
    <3>2. \A i, j \in 1 .. Len(r) : r[i] = r[j] => i = j
      BY <2>3, <3>1
    <3> QED
      BY <2>3, <3>2, NoDupIs
  <2>5. ToSet(r) = ToSet(s) \ {e}
    <3>1. \A i \in 1 .. Len(r) : r[i] \in ToSet(s) \ {e}
      <4> SUFFICES ASSUME NEW i \in 1 .. Len(r)
                   PROVE  r[i] \in ToSet(s) /\ r[i] # e
        OBVIOUS
      <4> DEFINE j == IF i < k THEN i ELSE i + 1
      <4>1. j \in 1 .. Len(s) /\ j # k /\ r[i] = s[j]
        BY <2>3
      <4> HIDE DEF j
      <4> QED
        BY <2>1, <4>1, InToSet, NoDupIs
    <3>2. \A j \in 1 .. Len(s) : s[j] # e => \E i \in 1 .. Len(r) : r[i] = s[j]
      <4> SUFFICES ASSUME NEW j \in 1 .. Len(s), s[j] # e
                   PROVE  \E i \in 1 .. Len(r) : r[i] = s[j]
        OBVIOUS
      <4>1. CASE j < k
        BY <4>1, <2>3
      <4>2. CASE j > k
        <5>1. j - 1 \in 1 .. Len(r) /\ r[j - 1] = s[j]
          BY <4>2, <2>3
        <5> QED
          BY <5>1
      <4> QED
        BY <4>1, <4>2, <2>1
    <3> QED
      <4>1. /\ \A x : x \in ToSet(r) <=> \E i \in 1 .. Len(r) : r[i] = x
            /\ \A x : x \in ToSet(s) <=> \E i \in 1 .. Len(s) : s[i] = x
        BY <2>3, InToSet
      <4> QED
        <5>1. \A x : x \in ToSet(r) => x \in ToSet(s) /\ x # e
          BY <3>1, <4>1, Zenon
        <5>2. \A x : x \in ToSet(s) /\ x # e => x \in ToSet(r)
          <6> SUFFICES ASSUME NEW x, x \in ToSet(s), x # e PROVE x \in ToSet(r)
            OBVIOUS
          <6>1. PICK j \in 1 .. Len(s) : s[j] = x
            BY <4>1
          <6>2. PICK i \in 1 .. Len(r) : r[i] = s[j]
            BY <3>2, <6>1
          <6> QED
            BY <4>1, <6>1, <6>2
        <5> QED
          BY <5>1, <5>2, Zenon
  <2>6. \A i \in 2 .. Len(r) : \E j \in 2 .. Len(s) : r[i] = s[j]
    <3> SUFFICES ASSUME NEW i \in 2 .. Len(r)
                 PROVE  \E j \in 2 .. Len(s) : r[i] = s[j]
      OBVIOUS
    <3> QED
      BY <2>3
  <2> QED
    BY <2>3, <2>4, <2>5, <2>6 DEF r
<1> QED
  BY <1>1, <1>2

\* What is left, with the page put in front.
LEMMA FrontAgain ==
    ASSUME NEW S, NEW s \in Seq(S), NoDup(s), NEW e \in S
    PROVE  LET r == Append(RemoveFirst(s, e), e)
           IN  /\ r \in Seq(S) /\ NoDup(r) /\ r # <<>> /\ Last(r) = e
               /\ ToSet(r) = ToSet(s) \cup {e}
               /\ \A i \in 2 .. Len(r) : r[i] = e \/ \E j \in 2 .. Len(s) : r[i] = s[j]
<1> DEFINE q == RemoveFirst(s, e)
           r == Append(q, e)
<1>1. /\ q \in Seq(S) /\ NoDup(q)
      /\ ToSet(q) = ToSet(s) \ {e}
      /\ \A i \in 2 .. Len(q) : \E j \in 2 .. Len(s) : q[i] = s[j]
  BY RemoveFirstLeaves
<1> HIDE DEF q
<1>2. /\ r \in Seq(S) /\ Len(r) = Len(q) + 1 /\ r[Len(r)] = e
      /\ \A i \in 1 .. Len(q) : r[i] = q[i]
  BY <1>1
<1>3. \A i \in 1 .. Len(q) : q[i] # e
  BY <1>1, InToSet
<1> HIDE DEF r
<1>4. NoDup(r)
  <2>1. \A i, j \in 1 .. Len(q) : q[i] = q[j] => i = j
    BY <1>1, NoDupIs
  <2>2. \A i, j \in 1 .. Len(r) : r[i] = r[j] => i = j
    BY <1>1, <1>2, <1>3, <2>1
  <2> QED
    BY <1>2, <2>2, NoDupIs
<1>5. ToSet(r) = ToSet(q) \cup {e}
  <2>1. \A i \in 1 .. Len(r) : i \in 1 .. Len(q) \/ i = Len(r)
    BY <1>1, <1>2
  <2>2. 1 .. Len(q) \subseteq 1 .. Len(r) /\ Len(r) \in 1 .. Len(r)
    BY <1>1, <1>2
  <2>3. /\ \A x : x \in ToSet(r) <=> \E i \in 1 .. Len(r) : r[i] = x
        /\ \A x : x \in ToSet(q) <=> \E i \in 1 .. Len(q) : q[i] = x
    BY <1>1, <1>2, InToSet
  <2> QED
    BY <1>2, <2>1, <2>2, <2>3, Zenon
<1>6. ToSet(r) = ToSet(s) \cup {e}
  BY <1>1, <1>5
<1>7. \A i \in 2 .. Len(r) : r[i] = e \/ \E j \in 2 .. Len(s) : r[i] = s[j]
  <2>1. \A i \in 2 .. Len(r) : i \in 2 .. Len(q) \/ i = Len(r)
    BY <1>1, <1>2
  <2> QED
    BY <1>1, <1>2, <2>1
<1>8. r # <<>> /\ Last(r) = e
  BY <1>1, <1>2 DEF Last
<1> QED
  BY <1>2, <1>4, <1>6, <1>7, <1>8 DEF r, q

\* Short piles.
LEMMA RemoveFromShort ==
    ASSUME NEW S, NEW e \in S, NEW f \in S, e # f
    PROVE  /\ RemoveFirst(<<>>, e) = <<>>
           /\ RemoveFirst(<<e>>, e) = <<>>
           /\ RemoveFirst(<<f>>, e) = <<f>>
           /\ RemoveFirst(<<f, e>>, e) = <<f>>
<1>1. RemoveFirst(<<>>, e) = <<>>
  BY RemoveFirstNone
<1>2. RemoveFirst(<<e>>, e) = <<>>
  <2>1. <<e>> \in Seq(S) /\ NoDup(<<e>>) /\ 1 \in 1 .. Len(<<e>>) /\ <<e>>[1] = e
    BY DEF NoDup
  <2>2. RemoveFirst(<<e>>, e) = SubSeq(<<e>>, 1, 1 - 1) \o SubSeq(<<e>>, 1 + 1, Len(<<e>>))
    BY <2>1, RemoveFirstAt
  <2> QED
    BY <2>2
<1>3. RemoveFirst(<<f>>, e) = <<f>>
  BY RemoveFirstNone
<1>4. RemoveFirst(<<f, e>>, e) = <<f>>
  <2>1. <<f, e>> \in Seq(S) /\ NoDup(<<f, e>>) /\ 2 \in 1 .. Len(<<f, e>>) /\ <<f, e>>[2] = e
    BY DEF NoDup
  <2>2. RemoveFirst(<<f, e>>, e) = SubSeq(<<f, e>>, 1, 2 - 1) \o SubSeq(<<f, e>>, 2 + 1, Len(<<f, e>>))
    BY <2>1, RemoveFirstAt
  <2> QED
    BY <2>2
<1> QED
  BY <1>1, <1>2, <1>3, <1>4

-----------------------------------------------------------------------------
(* The pile of pages                                                        *)

\* The pages that come over others; all others are opened from the main page.
Guests == {"block-summary", "pod-lookup-result", "blocked-peers-remove-result"}

PagesInv ==
    /\ pages \in Seq(Overlays) /\ NoDup(pages)
    /\ \A i \in 2 .. Len(pages) : pages[i] \in Guests
    /\ focus \in Overlays \cup {"main"} /\ buried \in BOOLEAN

\* With PauseIsAccountedFor: the dialog takes no pause over the user's own.
PauseInv ==
    /\ paused \in BOOLEAN /\ killFlowAutoPaused \in BOOLEAN /\ byUser \in BOOLEAN
    /\ PauseIsAccountedFor
    /\ killFlowAutoPaused => ~byUser

\* The piles in which a goroutine's popup has come over no dialog.
Tidy ==
    \/ pages = <<>>
    \/ pages = <<"help">>
    \/ \E name \in Overlays : pages = <<name>> /\ focus = name
    \/ \E name \in Guests : pages = <<"help", name>> /\ focus = name
    \/ pages = <<"blocked-peers", "blocked-peers-remove-result">>
         /\ focus = "blocked-peers-remove-result"

TidyInv == buried \/ Tidy

\* What the actions do to pages, focus and pause.

Stays == SamePages /\ UNCHANGED pauseVars

UserPauses ==
    /\ FrontPage = "main" /\ SamePages
    /\ paused' = ~paused /\ byUser' = ~byUser /\ UNCHANGED killFlowAutoPaused

DialogOpens ==
    \E name \in Overlays \ (KillPages \cup Guests) :
        FrontPage = "main" /\ Push(name) /\ UNCHANGED pauseVars

KillOpens == FrontPage = "main" /\ Push("kill-peer-form") /\ EnterKillFlowPause

HelpOpens ==
    /\ FrontPage = "main" /\ pages' = Append(pages, "help")
    /\ UNCHANGED <<focus, buried>> /\ UNCHANGED pauseVars

HelpCloses ==
    /\ FrontPage = "help" /\ pages' = Without("help") /\ buried' = StillBuried
    /\ UNCHANGED focus /\ UNCHANGED pauseVars

ConfirmOpens == In("kill-peer-form") /\ PromptKillPeerConfirm /\ UNCHANGED pauseVars

KillCloses == \E name \in KillPages : In(name) /\ Close(name) /\ ExitKillFlowPause

DialogCloses ==
    \E name \in Overlays \ (KillPages \cup {"blocked-peers-remove-result"}) :
        In(name) /\ Close(name) /\ UNCHANGED pauseVars

ListGivesWay ==
    /\ In("blocked-peers")
    /\ pages' = Append(Without("blocked-peers"), "blocked-peers-remove-result")
    /\ focus' = "blocked-peers-remove-result" /\ buried' = StillBuried
    /\ UNCHANGED pauseVars

ResultOpens ==
    In("blocked-peers") /\ Push("blocked-peers-remove-result") /\ UNCHANGED pauseVars

ResultCloses ==
    /\ In("blocked-peers-remove-result")
    /\ pages' = Without("blocked-peers-remove-result") /\ buried' = StillBuried
    /\ IF "blocked-peers" \in ToSet(pages) THEN focus' = "blocked-peers"
       ELSE focus' \in {"main", "blocked-peers"}
    /\ UNCHANGED pauseVars

GuestComes ==
    \E name \in {"block-summary", "pod-lookup-result"} : Popup(name) /\ UNCHANGED pauseVars

PageStep ==
    \/ Stays \/ UserPauses \/ DialogOpens \/ KillOpens \/ HelpOpens \/ HelpCloses
    \/ ConfirmOpens \/ KillCloses \/ DialogCloses \/ ListGivesWay \/ ResultOpens \/ ResultCloses
    \/ GuestComes

LEMMA OverlayNames ==
    /\ Overlays = {"kill-peer-form", "kill-peer", "action-log", "socket-queue-explain",
          "interface-stats-explain", "help", "filter", "search", "blocked-peers",
          "blocked-peers-remove-result", "block-summary", "pod-lookup-form", "pod-lookup-result"}
    /\ \A key \in DOMAIN TextDialogs :
          TextDialogs[key] \in {"action-log", "socket-queue-explain", "interface-stats-explain"}
    /\ Guests \subseteq Overlays /\ KillPages \subseteq Overlays
    /\ Guests \cap KillPages = {} /\ "main" \notin Overlays
<1>1. DOMAIN TextDialogs = {"h", "i", "I"}
  BY DEF TextDialogs
<1>2. /\ TextDialogs["h"] = "action-log" /\ TextDialogs["i"] = "socket-queue-explain"
      /\ TextDialogs["I"] = "interface-stats-explain"
  BY DEF TextDialogs
<1>3. {TextDialogs[k] : k \in DOMAIN TextDialogs}
        = {"action-log", "socket-queue-explain", "interface-stats-explain"}
  BY <1>1, <1>2
<1> QED
  BY <1>1, <1>2, <1>3 DEF Overlays, Guests, KillPages

LEMMA StepsOfPages == [Next]_vars => PageStep
<1> SUFFICES ASSUME [Next]_vars PROVE PageStep
  OBVIOUS
<1>1. CASE UNCHANGED vars
  BY <1>1 DEF vars, pageVars, pauseVars, PageStep, Stays, SamePages
<1>3. CASE Run
  BY <1>3 DEF Run, PageStep, Stays, SamePages
<1>4. CASE \/ PressUp \/ PressDown \/ PressPrevPage \/ PressNextPage \/ PressGroup
           \/ PressDirection \/ PressSortBandwidth \/ PressSortConns \/ PressSortPort
           \/ PressStates \/ PressMask \/ PressZoom \/ PressEsc
  <2>1. SamePages /\ UNCHANGED pauseVars
    BY <1>4 DEF PressUp, PressDown, PressPrevPage, PressNextPage, PressGroup,
         PressDirection, PressSortBandwidth, PressSortConns, PressSortPort, PressStates,
         PressMask, PressZoom, PressEsc, ListKey
  <2> QED
    BY <2>1 DEF PageStep, Stays
<1>5. CASE PressTab \/ PressRefresh \/ PressQuit
  BY <1>5 DEF PressTab, PressRefresh, PressQuit, PageStep, Stays
<1>6. CASE PressPause
  BY <1>6 DEF PressPause, AtMain, PageStep, UserPauses
<1>7. CASE PressHelp
  BY <1>7 DEF PressHelp, AtMain, PageStep, HelpOpens
<1>8. CASE AnyKeyOnHelp
  BY <1>8 DEF AnyKeyOnHelp, PageStep, HelpCloses
<1>9. CASE PressText \/ PressFilter \/ PressSearch \/ PressBlocked \/ PressLookup
  <2>1. \/ \E name \in Overlays \ (KillPages \cup Guests) : FrontPage = "main" /\ Opens(name)
        \/ SamePages /\ UNCHANGED pauseVars
    <3>1. CASE PressText
      BY <3>1, OverlayNames DEF PressText, AtMain, Guests, KillPages
    <3>2. CASE PressFilter
      BY <3>2, OverlayNames DEF PressFilter, AtMain, Guests, KillPages
    <3>3. CASE PressSearch \/ PressBlocked \/ PressLookup
      BY <3>3, OverlayNames DEF PressSearch, PressBlocked, PressLookup, AtMain, Guests, KillPages
    <3> QED
      BY <1>9, <3>1, <3>2, <3>3
  <2>2. CASE \E name \in Overlays \ (KillPages \cup Guests) : FrontPage = "main" /\ Opens(name)
    BY <2>2 DEF Opens, PageStep, DialogOpens
  <2> QED
    BY <2>1, <2>2 DEF PageStep, Stays
<1>10. CASE CloseText \/ LeaveFilter \/ LeaveSearch \/ CloseBlocked \/ CancelLookup
            \/ SubmitLookup \/ ClosePodResult \/ CloseSummary
  <2>1. \E name \in Overlays \ (KillPages \cup {"blocked-peers-remove-result"}) :
          In(name) /\ Close(name) /\ UNCHANGED pauseVars
    <3>1. CASE CloseText
      BY <3>1, OverlayNames DEF CloseText, Closes, KillPages
    <3>2. CASE LeaveFilter \/ LeaveSearch
      BY <3>2, OverlayNames DEF LeaveFilter, LeaveSearch, KillPages
    <3>3. CASE CloseBlocked \/ CancelLookup \/ ClosePodResult \/ CloseSummary
      BY <3>3, OverlayNames DEF CloseBlocked, CancelLookup, ClosePodResult, CloseSummary, Closes, KillPages
    <3>4. CASE SubmitLookup
      BY <3>4, OverlayNames DEF SubmitLookup, KillPages
    <3> QED
      BY <1>10, <3>1, <3>2, <3>3, <3>4
  <2> QED
    BY <2>1 DEF PageStep, DialogCloses
<1>11. CASE PressKill
  BY <1>11 DEF PressKill, PromptKillPeer, AtMain, PageStep, KillOpens
<1>12. CASE CancelKillForm \/ CancelKill \/ ConfirmKill
  BY <1>12 DEF CancelKillForm, CancelKill, ConfirmKill, LeaveKillConfirm, KillPages, PageStep, KillCloses
<1>13. CASE SubmitKillForm
  BY <1>13 DEF SubmitKillForm, PageStep, ConfirmOpens
<1>14. CASE RemoveLast \/ RemoveOneOfVanishing
  BY <1>14 DEF RemoveLast, RemoveOneOfVanishing, PageStep, ListGivesWay
<1>15. CASE RemoveOne
  BY <1>15 DEF RemoveOne, Opens, PageStep, ResultOpens
<1>16. CASE CloseRemoveResult
  BY <1>16 DEF CloseRemoveResult, PageStep, ResultCloses
<1>17. ASSUME NEW t \in session.tasks,
              \/ BlockFails(t) \/ BlockIsSet(t) \/ FlowsAreKilled(t) \/ BlockIsGone(t)
              \/ UnblockFails(t) \/ BlockExpires(t) \/ PodsAreFound(t) \/ RunNote(t) \/ RunExpired(t)
       PROVE  PageStep
  <2>1. SamePages /\ UNCHANGED pauseVars
    BY <1>17 DEF BlockFails, BlockIsSet, FlowsAreKilled, BlockIsGone, UnblockFails, BlockExpires,
         PodsAreFound, RunNote, RunExpired, Posts, SamePages
  <2> QED
    BY <2>1 DEF PageStep, Stays
<1>18. ASSUME NEW t \in session.tasks, RunSummary(t) \/ RunFound(t)
       PROVE  PageStep
  BY <1>18 DEF RunSummary, RunFound, PageStep, GuestComes
<1>19. ASSUME NEW l \in Loops, FireTicker(l) \/ RunTick(l)
       PROVE  PageStep
  BY <1>19 DEF FireTicker, RunTick, OffThread, OnThread, SamePages, PageStep, Stays
<1>20. CASE TakeRequest \/ RunManual
  BY <1>20 DEF TakeRequest, RunManual, OffThread, OnThread, SamePages, PageStep, Stays
<1> QED
  BY <1>1, <1>3, <1>4, <1>5, <1>6, <1>7, <1>8, <1>9, <1>10, <1>11, <1>12, <1>13, <1>14, <1>15,
     <1>16, <1>17, <1>18, <1>19, <1>20 DEF Next

\* With the keyboard on the main page nothing is over it.
LEMMA AtMainNoPages ==
    ASSUME PagesInv, FrontPage = "main"
    PROVE  pages = <<>>
<1> SUFFICES ASSUME pages # <<>> PROVE FALSE
  OBVIOUS
<1>1. pages \in Seq(Overlays) /\ Len(pages) \in 1 .. Len(pages)
  BY DEF PagesInv
<1>2. Last(pages) \in Overlays
  BY <1>1 DEF Last
<1> QED
  BY <1>2, OverlayNames DEF FrontPage

\* A dialog that is no guest is in front only by itself.
LEMMA AloneInFront ==
    ASSUME PagesInv, NEW name \in Overlays \ Guests, FrontPage = name
    PROVE  pages = <<name>>
<1>1. pages # <<>>
  BY OverlayNames DEF FrontPage
<1>2. pages \in Seq(Overlays) /\ Len(pages) \in 1 .. Len(pages) /\ pages[Len(pages)] = name
  BY <1>1 DEF PagesInv, FrontPage, Last
<1>3. Len(pages) = 1
  <2>1. Len(pages) \notin 2 .. Len(pages)
    BY <1>2 DEF PagesInv
  <2>2. Len(pages) \in Nat
    BY <1>2
  <2>3. \A n \in Nat : n \in 1 .. n /\ n \notin 2 .. n => n = 1
    OBVIOUS
  <2> QED
    BY <1>2, <2>1, <2>2, <2>3, Zenon
<1> QED
  BY <1>2, <1>3

\* One page by itself, put over nothing or taken away.
LEMMA OnePage ==
    ASSUME NEW name \in Overlays
    PROVE  /\ RemoveFirst(<<>>, name) = <<>> /\ RemoveFirst(<<name>>, name) = <<>>
           /\ Append(<<>>, name) = <<name>>
           /\ <<name>> \in Seq(Overlays) /\ NoDup(<<name>>) /\ ToSet(<<name>>) = {name}
           /\ Len(<<name>>) = 1 /\ <<name>> # <<>>
           /\ <<>> \in Seq(Overlays) /\ NoDup(<<>>) /\ ToSet(<<>>) = {} /\ Len(<<>>) = 0
<1>1. \E other \in Overlays : name # other
  BY OverlayNames
<1>2. RemoveFirst(<<>>, name) = <<>> /\ RemoveFirst(<<name>>, name) = <<>>
  BY <1>1, RemoveFromShort
<1> QED
  BY <1>2 DEF NoDup, ToSet

\* The pile after a guest has come, and after a page has gone.
LEMMA GuestOver ==
    ASSUME PagesInv, NEW name \in Guests, pages' = Append(Without(name), name),
           focus' \in Overlays \cup {"main"}, buried' \in BOOLEAN
    PROVE  PagesInv' /\ ToSet(pages)' = ToSet(pages) \cup {name}
<1>1. pages \in Seq(Overlays) /\ NoDup(pages) /\ name \in Overlays
  BY OverlayNames DEF PagesInv
<1>2. /\ pages' \in Seq(Overlays) /\ NoDup(pages')
      /\ ToSet(pages') = ToSet(pages) \cup {name}
      /\ \A i \in 2 .. Len(pages') : pages'[i] = name \/ \E j \in 2 .. Len(pages) : pages'[i] = pages[j]
  BY <1>1, FrontAgain DEF Without
<1> QED
  BY <1>2 DEF PagesInv, NoDup

LEMMA PageGone ==
    ASSUME PagesInv, NEW name, pages' = Without(name),
           focus' \in Overlays \cup {"main"}, buried' \in BOOLEAN
    PROVE  PagesInv' /\ ToSet(pages)' = ToSet(pages) \ {name}
<1>1. pages \in Seq(Overlays) /\ NoDup(pages)
  BY DEF PagesInv
<1>2. /\ pages' \in Seq(Overlays) /\ NoDup(pages')
      /\ ToSet(pages') = ToSet(pages) \ {name}
      /\ \A i \in 2 .. Len(pages') : \E j \in 2 .. Len(pages) : pages'[i] = pages[j]
  BY <1>1, RemoveFirstLeaves DEF Without
<1> QED
  BY <1>2 DEF PagesInv, NoDup

\* A pile of one page, or of none.
LEMMA OneOrNone ==
    ASSUME \/ pages' = <<>>
           \/ \E name \in Overlays : pages' = <<name>>,
           focus' \in Overlays \cup {"main"}, buried' \in BOOLEAN
    PROVE  PagesInv'
<1>1. \E name \in Overlays : TRUE
  BY OverlayNames
<1>2. pages' \in Seq(Overlays) /\ NoDup(pages') /\ Len(pages') \in {0, 1}
  BY <1>1, OnePage
<1>3. \A i \in 2 .. Len(pages') : pages'[i] \in Guests
  BY <1>2
<1> QED
  BY <1>2, <1>3 DEF PagesInv, NoDup

\* The pause, by the kill pages that are open.
LEMMA PauseFollows ==
    ASSUME PauseInv, UNCHANGED pauseVars, KillPages \cap ToSet(pages') = {} <=> KillPages \cap ToSet(pages) = {}
    PROVE  PauseInv'
<1>1. ToSet(pages)' = ToSet(pages')
  BY DEF ToSet
<1> QED
  BY <1>1 DEF PauseInv, PauseIsAccountedFor, pauseVars

\* A pause that is taken when the kill form opens is given back when it closes.
LEMMA KillStepsKeep ==
    ASSUME PagesInv, PauseInv, TidyInv, KillOpens \/ ConfirmOpens \/ KillCloses
    PROVE  PagesInv' /\ PauseInv' /\ TidyInv'
<1> DEFINE form == "kill-peer-form"
           confirm == "kill-peer"
<1>1. form \in Overlays \ Guests /\ confirm \in Overlays \ Guests /\ KillPages = {form, confirm}
  BY OverlayNames DEF KillPages, Guests
<1>2. CASE KillOpens
  <2>1. pages = <<>> /\ pages' = <<form>> /\ focus' = form /\ buried' \in BOOLEAN
    <3>1. pages = <<>>
      BY <1>2, AtMainNoPages DEF KillOpens
    <3>2. pages' = Append(RemoveFirst(<<>>, form), form)
      BY <1>2, <3>1 DEF KillOpens, Push, Without
    <3>3. focus' = form /\ buried' \in BOOLEAN
      BY <1>2 DEF KillOpens, Push, StillBuried, PagesInv
    <3> QED
      BY <1>1, <3>1, <3>2, <3>3, OnePage
  <2>2. ToSet(pages) = {} /\ ToSet(pages)' = {form}
    BY <1>1, <2>1, OnePage
  <2>3. PauseInv'
    BY <1>1, <1>2, <2>2 DEF KillOpens, EnterKillFlowPause, PauseInv, PauseIsAccountedFor
  <2> QED
    BY <1>1, <2>1, <2>3, OneOrNone DEF TidyInv, Tidy
<1>3. CASE ConfirmOpens
  <2>1. pages = <<form>> /\ pages' = <<confirm>> /\ focus' = confirm /\ buried' \in BOOLEAN
    <3>1. pages = <<form>>
      BY <1>1, <1>3, AloneInFront DEF ConfirmOpens, In
    <3>2. pages' = Append(RemoveFirst(<<form>>, form), confirm)
      BY <1>3, <3>1 DEF ConfirmOpens, PromptKillPeerConfirm, Without
    <3>3. focus' = confirm /\ buried' \in BOOLEAN
      BY <1>3 DEF ConfirmOpens, PromptKillPeerConfirm, StillBuried, PagesInv
    <3> QED
      BY <1>1, <3>1, <3>2, <3>3, OnePage
  <2>2. ToSet(pages) = {form} /\ ToSet(pages') = {confirm}
    BY <1>1, <2>1, OnePage
  <2>3. PauseInv'
    BY <1>1, <1>3, <2>2, PauseFollows DEF ConfirmOpens
  <2> QED
    BY <1>1, <2>1, <2>3, OneOrNone DEF TidyInv, Tidy
<1>4. ASSUME NEW name \in KillPages, In(name), Close(name), ExitKillFlowPause
      PROVE  PagesInv' /\ PauseInv' /\ TidyInv'
  <2>1. pages = <<name>> /\ pages' = <<>> /\ focus' = "main" /\ buried' \in BOOLEAN
    <3>1. pages = <<name>>
      BY <1>1, <1>4, AloneInFront DEF In
    <3>2. pages' = RemoveFirst(<<name>>, name)
      BY <1>4, <3>1 DEF Close, Without
    <3>3. focus' = "main" /\ buried' \in BOOLEAN
      BY <1>4 DEF Close, StillBuried, PagesInv
    <3> QED
      BY <1>1, <3>1, <3>2, <3>3, OnePage
  <2>2. ToSet(pages) = {name} /\ ToSet(pages)' = {}
    BY <1>1, <2>1, OnePage
  <2>3. PauseInv'
    BY <1>1, <1>4, <2>2 DEF ExitKillFlowPause, PauseInv, PauseIsAccountedFor
  <2> QED
    BY <2>1, <2>3, OneOrNone DEF TidyInv, Tidy
<1> QED
  BY <1>2, <1>3, <1>4 DEF KillCloses

\* Dialogs that are opened from the main page, or close to it.
LEMMA DialogStepsKeep ==
    ASSUME PagesInv, PauseInv, TidyInv,
           UserPauses \/ DialogOpens \/ HelpOpens \/ HelpCloses \/ ListGivesWay
    PROVE  PagesInv' /\ PauseInv' /\ TidyInv'
<1>1. CASE UserPauses
  <2>1. pages = <<>> /\ UNCHANGED <<pages, focus, buried>>
    BY <1>1, AtMainNoPages DEF UserPauses, SamePages, pageVars
  <2>2. ToSet(pages) = {} /\ ToSet(pages)' = {}
    BY <2>1 DEF ToSet
  <2>3. PauseInv'
    BY <1>1, <2>2 DEF UserPauses, PauseInv, PauseIsAccountedFor
  <2>4. PagesInv' /\ TidyInv'
    BY <2>1 DEF PagesInv, NoDup, TidyInv, Tidy
  <2> QED
    BY <2>3, <2>4
<1>2. ASSUME NEW name \in Overlays \ (KillPages \cup Guests), FrontPage = "main", Push(name),
             UNCHANGED pauseVars
      PROVE  PagesInv' /\ PauseInv' /\ TidyInv'
  <2>1. pages = <<>>
    BY <1>2, AtMainNoPages
  <2>2. pages' = Append(RemoveFirst(<<>>, name), name)
    BY <1>2, <2>1 DEF Push, Without
  <2>3. pages' = <<name>> /\ focus' = name /\ buried' \in BOOLEAN
    BY <1>2, <2>2, OnePage DEF Push, StillBuried, PagesInv
  <2>4. ToSet(pages) = {} /\ ToSet(pages') = {name}
    BY <1>2, <2>1, <2>3, OnePage
  <2>5. PauseInv'
    BY <1>2, <2>4, PauseFollows
  <2> QED
    BY <1>2, <2>3, <2>5, OneOrNone DEF TidyInv, Tidy
<1>3. CASE HelpOpens
  <2>1. "help" \in Overlays \ KillPages
    BY OverlayNames DEF KillPages
  <2>2. pages = <<>> /\ pages' = <<"help">> /\ UNCHANGED <<focus, buried>>
    BY <1>3, AtMainNoPages DEF HelpOpens
  <2>3. ToSet(pages) = {} /\ ToSet(pages') = {"help"}
    BY <2>1, <2>2, OnePage
  <2>4. PauseInv'
    BY <1>3, <2>1, <2>3, PauseFollows DEF HelpOpens
  <2>5. PagesInv'
    BY <2>1, <2>2, OneOrNone DEF PagesInv
  <2> QED
    BY <2>2, <2>4, <2>5 DEF TidyInv, Tidy
<1>4. CASE HelpCloses
  <2>1. "help" \in Overlays \ Guests /\ "help" \notin KillPages
    BY OverlayNames DEF KillPages, Guests
  <2>2. pages = <<"help">>
    BY <1>4, <2>1, AloneInFront DEF HelpCloses
  <2>3. pages' = <<>> /\ focus' = focus /\ buried' \in BOOLEAN
    BY <1>4, <2>1, <2>2, OnePage DEF HelpCloses, Without, StillBuried, PagesInv
  <2>4. ToSet(pages) = {"help"} /\ ToSet(pages') = {}
    BY <2>1, <2>2, <2>3, OnePage
  <2>5. PauseInv'
    BY <1>4, <2>1, <2>4, PauseFollows DEF HelpCloses
  <2>6. PagesInv'
    BY <2>3, OneOrNone DEF PagesInv
  <2> QED
    BY <2>3, <2>5, <2>6 DEF TidyInv, Tidy
<1>5. CASE ListGivesWay
  <2> DEFINE list == "blocked-peers"
             result == "blocked-peers-remove-result"
  <2>1. list \in Overlays \ Guests /\ result \in Overlays /\ {list, result} \cap KillPages = {}
    BY OverlayNames DEF KillPages, Guests
  <2>2. pages = <<list>>
    BY <1>5, <2>1, AloneInFront DEF ListGivesWay, In
  <2>3. pages' = Append(RemoveFirst(<<list>>, list), result)
    BY <1>5, <2>2 DEF ListGivesWay, Without
  <2>4. pages' = <<result>> /\ focus' = result /\ buried' \in BOOLEAN
    BY <1>5, <2>1, <2>3, OnePage DEF ListGivesWay, StillBuried, PagesInv
  <2>5. ToSet(pages) = {list} /\ ToSet(pages') = {result}
    BY <2>1, <2>2, <2>4, OnePage
  <2>6. PauseInv'
    BY <1>5, <2>1, <2>5, PauseFollows DEF ListGivesWay
  <2> QED
    BY <2>1, <2>4, <2>6, OneOrNone DEF TidyInv, Tidy
<1> QED
  BY <1>1, <1>2, <1>3, <1>4, <1>5 DEF DialogOpens

\* Piles of two.
LEMMA TwoPages ==
    ASSUME NEW e \in Overlays, NEW f \in Overlays, e # f
    PROVE  /\ RemoveFirst(<<f, e>>, e) = <<f>>
           /\ RemoveFirst(<<f>>, e) = <<f>> /\ Append(<<f>>, e) = <<f, e>>
           /\ RemoveFirst(<<f, e>>, f) = <<e>>
           /\ Last(<<f, e>>) = e /\ Last(<<f>>) = f /\ <<f, e>> # <<>>
           /\ ToSet(<<f, e>>) = {e, f}
<1>1. RemoveFirst(<<f, e>>, e) = <<f>> /\ RemoveFirst(<<f>>, e) = <<f>>
  BY RemoveFromShort
<1>2. RemoveFirst(<<f, e>>, f) = <<e>>
  <2>1. <<f, e>> \in Seq(Overlays) /\ NoDup(<<f, e>>) /\ 1 \in 1 .. Len(<<f, e>>) /\ <<f, e>>[1] = f
    BY DEF NoDup
  <2>2. RemoveFirst(<<f, e>>, f) = SubSeq(<<f, e>>, 1, 1 - 1) \o SubSeq(<<f, e>>, 1 + 1, Len(<<f, e>>))
    BY <2>1, RemoveFirstAt
  <2> QED
    BY <2>2
<1>3. ToSet(<<f, e>>) = {e, f}
  <2>1. <<f, e>> \in Seq(Overlays) /\ Len(<<f, e>>) = 2 /\ <<f, e>>[1] = f /\ <<f, e>>[2] = e
    OBVIOUS
  <2>2. \A x : x \in ToSet(<<f, e>>) <=> \E i \in 1 .. 2 : <<f, e>>[i] = x
    BY <2>1, InToSet
  <2>3. 1 .. 2 = {1, 2}
    OBVIOUS
  <2>4. \A x : x \in ToSet(<<f, e>>) <=> x = f \/ x = e
    BY <2>1, <2>2, <2>3
  <2> QED
    BY <2>4, Zenon
<1>4. Last(<<f, e>>) = e /\ Last(<<f>>) = f
  <2>1. Len(<<f, e>>) = 2 /\ Len(<<f>>) = 1
    OBVIOUS
  <2> QED
    BY <2>1 DEF Last
<1>5. Append(<<f>>, e) = <<f, e>>
  <2> DEFINE a == Append(<<f>>, e)
             b == <<f, e>>
  <2>1. a \in Seq(Overlays) /\ Len(a) = 2 /\ a[1] = f /\ a[2] = e
    OBVIOUS
  <2>2. b \in Seq(Overlays) /\ Len(b) = 2 /\ b[1] = f /\ b[2] = e
    OBVIOUS
  <2> HIDE DEF a, b
  <2>3. \A i \in 1 .. 2 : a[i] = b[i]
    BY <2>1, <2>2
  <2>4. a = b
    BY <2>1, <2>2, <2>3
  <2> QED
    BY <2>4 DEF a, b
<1>6. <<f, e>> # <<>>
  <2>1. Len(<<f, e>>) = 2 /\ Len(<<>>) = 0
    OBVIOUS
  <2> QED
    BY <2>1
<1> QED
  BY <1>1, <1>2, <1>3, <1>4, <1>5, <1>6

\* The front of a tidy pile, and what is left without it.
LEMMA TidyWithoutFront ==
    ASSUME Tidy, NEW name \in Overlays, In(name)
    PROVE  \/ Without(name) = <<>>
           \/ Without(name) = <<"help">> /\ name \in Guests
           \/ Without(name) = <<"blocked-peers">> /\ name = "blocked-peers-remove-result"
                /\ "blocked-peers" \in ToSet(pages)
<1>1. /\ name # "main" /\ "help" \in Overlays /\ "blocked-peers" \in Overlays
      /\ "blocked-peers-remove-result" \in Overlays
      /\ \A n \in Guests : n \in Overlays /\ n # "help"
  BY OverlayNames DEF Guests
<1>2. pages # <<>> /\ Last(pages) = name
  BY <1>1 DEF In, FrontPage
<1>3. ASSUME NEW n \in Overlays, pages = <<n>>
      PROVE  Without(name) = <<>>
  <2>1. Last(<<n>>) = n
    BY DEF Last
  <2>2. n = name
    BY <1>2, <1>3, <2>1
  <2> QED
    BY <1>3, <2>2, OnePage DEF Without
<1>4. ASSUME NEW n \in Guests, pages = <<"help", n>>
      PROVE  Without(name) = <<"help">> /\ name \in Guests
  <2>1. n \in Overlays /\ n # "help" /\ Last(<<"help", n>>) = n
    BY <1>1 DEF Last
  <2>2. n = name
    BY <1>2, <1>4, <2>1
  <2>3. RemoveFirst(<<"help", n>>, n) = <<"help">>
    BY <1>1, <2>1, TwoPages
  <2> QED
    BY <1>4, <2>2, <2>3 DEF Without
<1>5. ASSUME pages = <<"blocked-peers", "blocked-peers-remove-result">>
      PROVE  /\ Without(name) = <<"blocked-peers">> /\ name = "blocked-peers-remove-result"
             /\ "blocked-peers" \in ToSet(pages)
  <2> DEFINE list == "blocked-peers"
             result == "blocked-peers-remove-result"
  <2>1. list \in Overlays /\ result \in Overlays /\ list # result
    BY <1>1
  <2>2. pages = <<list, result>>
    BY <1>5
  <2> HIDE DEF list, result
  <2>3. /\ RemoveFirst(<<list, result>>, result) = <<list>> /\ Last(<<list, result>>) = result
        /\ ToSet(<<list, result>>) = {result, list}
    BY <2>1, TwoPages
  <2>4. name = result
    BY <1>2, <2>2, <2>3
  <2>5. Without(name) = <<list>> /\ list \in ToSet(pages)
    BY <2>2, <2>3, <2>4 DEF Without
  <2> QED
    BY <2>4, <2>5 DEF list, result
<1> QED
  BY <1>1, <1>2, <1>3, <1>4, <1>5 DEF Tidy

\* Steps of and over the guests.
LEMMA GuestStepsKeep ==
    ASSUME PagesInv, PauseInv, TidyInv, DialogCloses \/ ResultOpens \/ ResultCloses \/ GuestComes
    PROVE  PagesInv' /\ PauseInv' /\ TidyInv'
<1> DEFINE list == "blocked-peers"
           result == "blocked-peers-remove-result"
<1>1. /\ list \in Overlays \ Guests /\ result \in Overlays /\ result \in Guests
      /\ {list, result} \cap KillPages = {}
  BY OverlayNames DEF KillPages, Guests
<1>2. ASSUME NEW name \in Overlays \ (KillPages \cup {result}), In(name), Close(name), UNCHANGED pauseVars
      PROVE  PagesInv' /\ PauseInv' /\ TidyInv'
  <2>1. pages' = Without(name) /\ focus' = "main" /\ buried' = StillBuried /\ buried' \in BOOLEAN
    BY <1>2 DEF Close, StillBuried, PagesInv
  <2>2. PagesInv' /\ ToSet(pages)' = ToSet(pages) \ {name}
    BY <2>1, PageGone
  <2>3. PauseInv'
    <3>1. ToSet(pages)' = ToSet(pages')
      BY DEF ToSet
    <3> QED
      BY <1>2, <2>2, <3>1, PauseFollows
  <2>4. buried' \/ pages' = <<>> => TidyInv'
    BY DEF TidyInv, Tidy
  <2>5. ASSUME ~buried', pages' # <<>>
        PROVE  TidyInv'
    <3>1. Tidy
      BY <2>1, <2>5 DEF StillBuried, TidyInv
    <3>2. pages' = <<"help">>
      BY <1>2, <2>1, <2>5, <3>1, TidyWithoutFront
    <3> QED
      BY <3>2 DEF TidyInv, Tidy
  <2> QED
    BY <2>2, <2>3, <2>4, <2>5
<1>3. CASE ResultOpens
  <2>1. pages = <<list>>
    BY <1>1, <1>3, AloneInFront DEF ResultOpens, In
  <2>2. pages' = Append(Without(result), result) /\ focus' = result /\ buried' \in BOOLEAN
    BY <1>3 DEF ResultOpens, Push, StillBuried, PagesInv
  <2>3. PagesInv' /\ ToSet(pages)' = ToSet(pages) \cup {result}
    BY <1>1, <2>2, GuestOver
  <2>4. PauseInv'
    <3>1. ToSet(pages)' = ToSet(pages')
      BY DEF ToSet
    <3> QED
      BY <1>1, <1>3, <2>3, <3>1, PauseFollows DEF ResultOpens
  <2>5. pages' = <<list, result>>
    <3>1. pages' = Append(RemoveFirst(<<list>>, result), result)
      BY <2>1, <2>2 DEF Without
    <3> QED
      BY <1>1, <3>1, TwoPages
  <2> QED
    BY <2>2, <2>3, <2>4, <2>5 DEF TidyInv, Tidy
<1>4. CASE ResultCloses
  <2>1. /\ pages' = Without(result) /\ focus' \in Overlays \cup {"main"}
        /\ buried' = StillBuried /\ buried' \in BOOLEAN
    BY <1>1, <1>4 DEF ResultCloses, StillBuried, PagesInv
  <2>2. PagesInv' /\ ToSet(pages)' = ToSet(pages) \ {result}
    BY <2>1, PageGone
  <2>3. PauseInv'
    <3>1. ToSet(pages)' = ToSet(pages')
      BY DEF ToSet
    <3> QED
      BY <1>1, <1>4, <2>2, <3>1, PauseFollows DEF ResultCloses
  <2>4. buried' \/ pages' = <<>> => TidyInv'
    BY DEF TidyInv, Tidy
  <2>5. ASSUME ~buried', pages' # <<>>
        PROVE  TidyInv'
    <3>1. Tidy
      BY <2>1, <2>5 DEF StillBuried, TidyInv
    <3>2. In(result)
      BY <1>4 DEF ResultCloses
    <3>3. pages' = <<"help">> \/ (pages' = <<list>> /\ list \in ToSet(pages))
      BY <1>1, <2>1, <2>5, <3>1, <3>2, TidyWithoutFront
    <3>4. CASE pages' = <<"help">>
      BY <3>4 DEF TidyInv, Tidy
    <3>5. CASE pages' = <<list>> /\ list \in ToSet(pages)
      <4>1. focus' = list
        BY <1>4, <3>5 DEF ResultCloses
      <4> QED
        BY <1>1, <3>5, <4>1 DEF TidyInv, Tidy
    <3> QED
      BY <3>3, <3>4, <3>5
  <2> QED
    BY <2>2, <2>3, <2>4, <2>5
<1>5. ASSUME NEW name \in {"block-summary", "pod-lookup-result"}, Popup(name), UNCHANGED pauseVars
      PROVE  PagesInv' /\ PauseInv' /\ TidyInv'
  <2>1. /\ name \in Guests /\ name \in Overlays /\ name \notin KillPages /\ name # "help"
        /\ name # list /\ name # result /\ "help" \in Overlays
    BY OverlayNames DEF Guests, KillPages
  <2>2. /\ pages' = Append(Without(name), name) /\ focus' = name /\ buried' \in BOOLEAN
        /\ buried' <=> buried \/ (Without(name) # <<>> /\ Last(Without(name)) # "help")
    BY <1>5 DEF Popup, PagesInv
  <2>3. PagesInv' /\ ToSet(pages)' = ToSet(pages) \cup {name}
    BY <2>1, <2>2, GuestOver
  <2>4. PauseInv'
    <3>1. ToSet(pages)' = ToSet(pages')
      BY DEF ToSet
    <3> QED
      BY <1>5, <2>1, <2>3, <3>1, PauseFollows
  <2>5. buried' => TidyInv'
    BY DEF TidyInv
  <2>6. ASSUME ~buried' PROVE TidyInv'
    <3>1. Tidy /\ (Without(name) = <<>> \/ Last(Without(name)) = "help")
      BY <2>2, <2>6 DEF TidyInv
    <3>2. Without(name) = <<>> \/ Without(name) = <<"help">>
      <4>1. CASE pages = <<>>
        BY <2>1, <4>1, OnePage DEF Without
      <4>2. ASSUME NEW n \in Overlays, pages = <<n>>
            PROVE  Without(name) = <<>> \/ Without(name) = <<"help">>
        <5>1. CASE n = name
          BY <4>2, <5>1, OnePage DEF Without
        <5>2. CASE n # name
          <6>1. Without(name) = <<n>> /\ Last(<<n>>) = n /\ <<n>> # <<>>
            BY <2>1, <4>2, <5>2, TwoPages DEF Without
          <6> QED
            BY <3>1, <6>1
        <5> QED
          BY <5>1, <5>2
      <4>3. ASSUME NEW n \in Guests, pages = <<"help", n>>
            PROVE  Without(name) = <<>> \/ Without(name) = <<"help">>
        <5>1. n \in Overlays /\ n # "help"
          BY <4>3, OverlayNames DEF Guests
        <5>2. CASE n = name
          BY <2>1, <4>3, <5>2, TwoPages DEF Without
        <5>3. CASE n # name
          <6>1. \A i \in 1 .. Len(<<"help", n>>) : <<"help", n>>[i] # name
            BY <2>1, <5>3
          <6>2. Without(name) = <<"help", n>>
            BY <4>3, <6>1, RemoveFirstNone DEF Without
          <6>3. Last(<<"help", n>>) = n /\ <<"help", n>> # <<>>
            BY DEF Last
          <6> QED
            BY <3>1, <5>1, <6>2, <6>3
        <5> QED
          BY <5>2, <5>3
      <4>4. pages # <<list, result>>
        <5> SUFFICES ASSUME pages = <<list, result>> PROVE FALSE
          OBVIOUS
        <5>1. \A i \in 1 .. Len(<<list, result>>) : <<list, result>>[i] # name
          BY <2>1
        <5>2. Without(name) = <<list, result>>
          BY <5>1, RemoveFirstNone DEF Without
        <5> QED
          BY <1>1, <3>1, <5>2, TwoPages
      <4> QED
        BY <2>1, <3>1, <4>1, <4>2, <4>3, <4>4 DEF Tidy
    <3>3. pages' = <<name>> \/ pages' = <<"help", name>>
      <4>1. Append(<<>>, name) = <<name>> /\ Append(<<"help">>, name) = <<"help", name>>
        BY <2>1, OnePage, TwoPages
      <4> QED
        BY <2>2, <3>2, <4>1
    <3> QED
      BY <2>1, <2>2, <3>3 DEF TidyInv, Tidy
  <2> QED
    BY <2>3, <2>4, <2>5, <2>6
<1> QED
  BY <1>2, <1>3, <1>4, <1>5 DEF DialogCloses, GuestComes

-----------------------------------------------------------------------------
(* The loops, the goroutines and the list                                   *)

\* What a loop has posted in a pause, or had posted before, runs once.
LateInv ==
    /\ late \subseteq Loops /\ loop \in [Loops -> {"wait", "tick", "manual", "done"}]
    /\ ~paused => late = {}
    /\ \A l \in late : loop[l] # "tick"

UiTypeInv ==
    /\ session \in Sessions /\ focusIndex \in {0, 2} /\ refreshChan \in BOOLEAN
    /\ phase \in {"new", "running", "stopped"} /\ task \in [session.tasks -> TaskStates]

TaskStep ==
    \/ task' = task
    \/ \E t \in session.tasks, state \in TaskStates : task' = [task EXCEPT ![t] = state]

LoopRests == loop' = loop /\ (SameLate \/ (late' = late /\ paused' = paused))

LoopStep ==
    \/ LoopRests
    \/ \E l \in Loops : FireTicker(l) \/ RunTick(l)
    \/ TakeRequest \/ RunManual

ListStep ==
    \/ UNCHANGED listVars
    \/ \E delta \in {-1, 1} : MoveTopConnectionSelection(delta) \/ MoveTopConnectionPage(delta)
    \/ ToggleGroupView \/ ToggleTopConnectionsDirection \/ ToggleZoom
    \/ \E mode \in SortModes : ApplySortInput(mode)
    \/ RefreshData \/ ClearFilters
    \/ \E port \in Ports \cup {NoFilter} : SetPortFilter(port)
    \/ \E word \in Words \cup {NoFilter} : SetTextFilter(word)
    \/ RefreshInterfacePanel(session.loads) /\ UNCHANGED <<view, cursorVars>>

OtherStep ==
    /\ session' = session /\ focusIndex' \in {focusIndex, 2 - focusIndex}
    /\ phase' \in {phase, "running", "stopped"} /\ refreshChan' \in {refreshChan, TRUE, FALSE}
    /\ TaskStep /\ LoopStep /\ ListStep

LEMMA RestingSteps ==
    ASSUME UNCHANGED focusIndex, Resting, ListStep
    PROVE  OtherStep
  BY DEF Resting, OtherStep, TaskStep, LoopStep, LoopRests

LEMMA StepsOfOthers == [Next]_vars => OtherStep
<1> SUFFICES ASSUME [Next]_vars PROVE OtherStep
  OBVIOUS
<1> USE DEF OtherStep, TaskStep, LoopStep, LoopRests
<1>1. CASE UNCHANGED vars
  BY <1>1 DEF vars, loopVars, pauseVars, ListStep
<1>2. CASE Run
  BY <1>2 DEF Run, loopVars, pauseVars, ListStep
<1>3. CASE PressUp \/ PressDown \/ PressPrevPage \/ PressNextPage
  BY <1>3, RestingSteps DEF PressUp, PressDown, PressPrevPage, PressNextPage, ListKey, ListStep
<1>4. CASE \/ PressGroup \/ PressDirection \/ PressSortBandwidth \/ PressSortConns \/ PressSortPort
           \/ PressStates \/ PressMask \/ PressZoom \/ PressEsc
  BY <1>4, RestingSteps DEF PressGroup, PressDirection, PressSortBandwidth, PressSortConns,
       PressSortPort, PressStates, PressMask, PressZoom, PressEsc, ListKey, ListStep, SortModes
<1>5. CASE PressTab
  BY <1>5 DEF PressTab, Resting, ListStep
<1>6. CASE PressRefresh \/ PressQuit
  BY <1>6 DEF PressRefresh, PressQuit, pauseVars, ListStep
<1>7. CASE PressPause \/ PressHelp \/ AnyKeyOnHelp
  BY <1>7, RestingSteps DEF PressPause, PressHelp, AnyKeyOnHelp, ListStep
<1>8. CASE PressText \/ CloseText
  BY <1>8, RestingSteps DEF PressText, CloseText, Opens, Closes, ListStep
<1>9. CASE PressFilter
  BY <1>9, RestingSteps DEF PressFilter, Opens, ListStep
<1>10. CASE LeaveFilter \/ LeaveSearch
  BY <1>10, RestingSteps DEF LeaveFilter, LeaveSearch, ListStep
<1>11. CASE PressSearch \/ PressBlocked \/ CloseBlocked \/ RemoveOne \/ PressLookup \/ CancelLookup
            \/ ClosePodResult \/ CloseSummary
  BY <1>11, RestingSteps DEF PressSearch, PressBlocked, CloseBlocked, RemoveOne, PressLookup,
       CancelLookup, ClosePodResult, CloseSummary, Opens, Closes, ListStep
<1>12. CASE PressKill \/ CancelKillForm \/ SubmitKillForm \/ CancelKill
  BY <1>12, RestingSteps DEF PressKill, CancelKillForm, SubmitKillForm, CancelKill, LeaveKillConfirm, ListStep
<1>13. CASE ConfirmKill
  BY <1>13 DEF ConfirmKill, LeaveKillConfirm, ListStep, TaskStates
<1>14. CASE RemoveLast \/ RemoveOneOfVanishing \/ CloseRemoveResult
  BY <1>14, RestingSteps DEF RemoveLast, RemoveOneOfVanishing, CloseRemoveResult, ListStep
<1>15. CASE SubmitLookup
  BY <1>15 DEF SubmitLookup, ListStep, TaskStates, loopVars, pauseVars
<1>16. ASSUME NEW t \in session.tasks,
              \/ BlockFails(t) \/ BlockIsSet(t) \/ FlowsAreKilled(t) \/ BlockIsGone(t)
              \/ UnblockFails(t) \/ BlockExpires(t) \/ PodsAreFound(t) \/ RunNote(t)
       PROVE  OtherStep
  BY <1>16 DEF BlockFails, BlockIsSet, FlowsAreKilled, BlockIsGone, UnblockFails, BlockExpires,
       PodsAreFound, RunNote, Posts, Moves, ListStep, TaskStates, loopVars, pauseVars
<1>17. ASSUME NEW t \in session.tasks, RunSummary(t) \/ RunExpired(t) \/ RunFound(t)
       PROVE  OtherStep
  BY <1>17 DEF RunSummary, RunExpired, RunFound, Moves, ListStep, TaskStates, loopVars, pauseVars
<1>18. ASSUME NEW l \in Loops, FireTicker(l) PROVE OtherStep
  BY <1>18 DEF FireTicker, OffThread, ListStep
<1>19. ASSUME NEW l \in Loops, RunTick(l) PROVE OtherStep
  BY <1>19 DEF RunTick, OnThread, ListStep
<1>20. CASE TakeRequest
  BY <1>20 DEF TakeRequest, OffThread, ListStep
<1>21. CASE RunManual
  BY <1>21 DEF RunManual, OnThread, ListStep
<1> QED
  BY <1>1, <1>2, <1>3, <1>4, <1>5, <1>6, <1>7, <1>8, <1>9, <1>10, <1>11, <1>12, <1>13, <1>14, <1>15,
     <1>16, <1>17, <1>18, <1>19, <1>20, <1>21 DEF Next

\* No tick is posted in a pause, so the one that was there before is the last.
LEMMA LoopStepsKeep ==
    ASSUME LateInv, LoopStep, paused \in BOOLEAN, paused' \in BOOLEAN
    PROVE  /\ LateInv'
           /\ \A l \in Loops : loop[l] = "tick" /\ loop'[l] # "tick" /\ paused => l \notin late
<1> DEFINE States == {"wait", "tick", "manual", "done"}
<1>1. CASE LoopRests
  <2>1. loop' = loop /\ late' \subseteq Loops /\ (~paused' => late' = {}) /\ late' \subseteq late
    BY <1>1 DEF LoopRests, SameLate, LateInv
  <2> QED
    BY <2>1 DEF LateInv
<1>2. ASSUME NEW l \in Loops, FireTicker(l)
      PROVE  LateInv' /\ \A k \in Loops : loop[k] = "tick" /\ loop'[k] # "tick" /\ paused => k \notin late
  <2> DEFINE posted == IF paused THEN "done" ELSE "tick"
  <2>1. /\ loop' = [loop EXCEPT ![l] = posted] /\ late' = late /\ paused' = paused
        /\ loop[l] = "wait" /\ posted \in States /\ (paused => posted # "tick")
    BY <1>2 DEF FireTicker, OffThread, pauseVars
  <2>2. loop' \in [Loops -> States] /\ \A k \in Loops : loop'[k] = IF k = l THEN posted ELSE loop[k]
    BY <1>2, <2>1 DEF LateInv
  <2> HIDE DEF posted
  <2> QED
    BY <2>1, <2>2 DEF LateInv
<1>3. ASSUME NEW l \in Loops, RunTick(l)
      PROVE  LateInv' /\ \A k \in Loops : loop[k] = "tick" /\ loop'[k] # "tick" /\ paused => k \notin late
  <2> DEFINE next == IF l = "warmup" THEN "done" ELSE "wait"
  <2>1. /\ loop' = [loop EXCEPT ![l] = next] /\ loop[l] = "tick" /\ paused' = paused
        /\ late' = IF paused THEN late \cup {l} ELSE {}
        /\ next \in States /\ next # "tick"
    BY <1>3 DEF RunTick, OnThread, pauseVars
  <2>2. loop' \in [Loops -> States] /\ \A k \in Loops : loop'[k] = IF k = l THEN next ELSE loop[k]
    BY <1>3, <2>1 DEF LateInv
  <2> HIDE DEF next
  <2> QED
    BY <1>3, <2>1, <2>2 DEF LateInv
<1>4. CASE TakeRequest \/ RunManual
  <2>1. PICK next \in {"manual", "wait"} :
           /\ loop' = [loop EXCEPT !["refresh"] = next] /\ late' = late /\ paused' = paused
           /\ loop["refresh"] \in {"wait", "manual"}
    BY <1>4 DEF TakeRequest, RunManual, OnThread, OffThread, pauseVars
  <2>2. "refresh" \in Loops
    BY DEF Loops
  <2>3. /\ loop' \in [Loops -> States]
        /\ \A k \in Loops : loop'[k] = IF k = "refresh" THEN next ELSE loop[k]
    BY <2>1, <2>2 DEF LateInv
  <2> QED
    BY <2>1, <2>3 DEF LateInv
<1> QED
  BY <1>1, <1>2, <1>3, <1>4 DEF LoopStep

UiInv == PagesInv /\ PauseInv /\ TidyInv /\ LateInv /\ UiTypeInv

LEMMA UiInit == Init => UiInv
<1> SUFFICES ASSUME Init PROVE UiInv
  OBVIOUS
<1>1. PagesInv /\ TidyInv
  <2>1. pages = <<>> /\ focus = "main" /\ buried = FALSE
    BY DEF Init
  <2>2. /\ <<>> \in Seq(Overlays) /\ NoDup(<<>>)
        /\ \A i \in 2 .. Len(<<>>) : <<>>[i] \in Guests
    BY DEF NoDup
  <2> QED
    BY <2>1, <2>2, Zenon DEF PagesInv, TidyInv, Tidy
<1>2. ToSet(pages) = {}
  BY DEF Init, ToSet
<1>3. PauseInv
  BY <1>2 DEF Init, PauseInv, PauseIsAccountedFor
<1>4. LateInv
  BY DEF Init, LateInv
<1>5. UiTypeInv
  BY DEF Init, ListInit, UiTypeInv, TaskStates
<1> QED
  BY <1>1, <1>3, <1>4, <1>5 DEF UiInv

LEMMA UiNext == UiInv /\ [Next]_vars => UiInv'
<1> SUFFICES ASSUME UiInv, [Next]_vars PROVE UiInv'
  OBVIOUS
<1> USE DEF UiInv
<1>1. PagesInv' /\ PauseInv' /\ TidyInv'
  <2>1. CASE Stays
    <3>1. UNCHANGED <<pages, focus, buried>> /\ UNCHANGED <<paused, killFlowAutoPaused, byUser>>
      BY <2>1 DEF Stays, SamePages, pageVars, pauseVars
    <3>2. ToSet(pages)' = ToSet(pages)
      BY <3>1 DEF ToSet
    <3>3. PauseInv'
      BY <3>1, <3>2 DEF PauseInv, PauseIsAccountedFor
    <3> QED
      BY <3>1, <3>3 DEF PagesInv, NoDup, TidyInv, Tidy
  <2> QED
    BY <2>1, StepsOfPages, KillStepsKeep, DialogStepsKeep, GuestStepsKeep DEF PageStep
<1>2. LateInv'
  BY <1>1, StepsOfOthers, LoopStepsKeep DEF OtherStep, PauseInv
<1>3. UiTypeInv'
  <2>1. OtherStep
    BY StepsOfOthers
  <2>2. task' \in [session.tasks -> TaskStates]
    BY <2>1 DEF OtherStep, TaskStep, UiTypeInv
  <2>3. session' = session /\ session' \in Sessions
    BY <2>1 DEF OtherStep, UiTypeInv
  <2>4. focusIndex' \in {0, 2}
    BY <2>1 DEF OtherStep, UiTypeInv
  <2>5. phase' \in {"new", "running", "stopped"}
    BY <2>1 DEF OtherStep, UiTypeInv
  <2>6. refreshChan' \in BOOLEAN
    BY <2>1, Zenon DEF OtherStep, UiTypeInv
  <2> QED
    BY <2>2, <2>3, <2>4, <2>5, <2>6 DEF UiTypeInv
<1> QED
  BY <1>1, <1>2, <1>3

\* Whatever dialogs and popups come and go, the loops rest exactly when the user
\* has asked for it or an open kill dialog has.
THEOREM PauseTheorem == Spec => []PauseIsAccountedFor
<1>1. UiInv => PauseIsAccountedFor
  BY DEF UiInv, PauseInv
<1> QED
  BY <1>1, UiInit, UiNext, PTL DEF Spec

\* The dialog in front has the keyboard, unless a popup has come over another.
THEOREM KeysTheorem == Spec => []KeysReachFront
<1>1. UiInv => KeysReachFront
  <2> SUFFICES ASSUME Tidy, PagesInv, FrontPage \notin {"main", "help"} PROVE FrontPage = focus
    BY DEF UiInv, TidyInv, KeysReachFront
  <2>1. pages # <<>> /\ FrontPage = Last(pages)
    BY DEF FrontPage
  <2>2. \A e, f : Last(<<e>>) = e /\ Last(<<e, f>>) = f
    BY DEF Last
  <2> QED
    BY <2>1, <2>2 DEF Tidy
<1> QED
  BY <1>1, UiInit, UiNext, PTL DEF Spec

\* In a pause each loop changes the panels at most once.
THEOREM TableTheorem == Spec => PauseHoldsTheTable
<1>1. UiInv /\ [Next]_vars =>
        [\A l \in Loops : loop[l] = "tick" /\ loop'[l] # "tick" /\ paused => l \notin late]_vars
  <2> SUFFICES ASSUME UiInv, [Next]_vars
               PROVE  \A l \in Loops : loop[l] = "tick" /\ loop'[l] # "tick" /\ paused => l \notin late
    OBVIOUS
  <2>1. UiInv'
    BY UiNext
  <2> QED
    BY <2>1, StepsOfOthers, LoopStepsKeep DEF OtherStep, UiInv, PauseInv
<1> QED
  BY <1>1, UiInit, UiNext, PTL DEF Spec, PauseHoldsTheTable

\* Handlers of the list take a reading of the interface or leave the level.
LEMMA ListStepsRead ==
    ASSUME ListStep
    PROVE  UNCHANGED traffic \/ RefreshInterfacePanel(session.loads)
<1> USE DEF listVars, RefreshList, Render, RenderFromTop
<1>1. ASSUME NEW v, NEW page, NEW sel, RefreshList(v, page, sel)
      PROVE  RefreshInterfacePanel(session.loads)
  BY <1>1
<1>2. ASSUME NEW v, NEW page, NEW sel, Render(v, page, sel)
      PROVE  UNCHANGED traffic
  BY <1>2
<1> HIDE DEF RefreshList, Render
<1>3. ASSUME NEW delta, MoveTopConnectionSelection(delta) \/ MoveTopConnectionPage(delta)
      PROVE  UNCHANGED traffic
  BY <1>2, <1>3 DEF MoveTopConnectionSelection, MoveTopConnectionPage
<1>4. CASE ToggleGroupView \/ ToggleTopConnectionsDirection \/ ToggleZoom
  BY <1>2, <1>4 DEF ToggleGroupView, ToggleTopConnectionsDirection, ToggleZoom
<1>5. ASSUME NEW mode, ApplySortInput(mode)
      PROVE  UNCHANGED traffic
  BY <1>2, <1>5 DEF ApplySortInput
<1>6. CASE RefreshData \/ ClearFilters
  BY <1>1, <1>6 DEF RefreshData, ClearFilters
<1>7. ASSUME NEW x, SetPortFilter(x) \/ SetTextFilter(x)
      PROVE  RefreshInterfacePanel(session.loads)
  BY <1>1, <1>7 DEF SetPortFilter, SetTextFilter
<1> QED
  BY <1>3, <1>4, <1>5, <1>6, <1>7 DEF ListStep

-----------------------------------------------------------------------------
(* The list under the pages: every handler leaves the cursor on a row       *)

\* The layout of the panel is not what its rows depend on.
LEMMA ZoomKeepsRows ==
    ASSUME NEW v \in Views
    PROVE  LET w == [v EXCEPT !.zoomed = ~@]
           IN  w \in Views /\ ConnectionRows(w) = ConnectionRows(v)
<1> DEFINE w == [v EXCEPT !.zoomed = ~@]
<1>1. w \in Views
  BY DEF Views
<1>2. /\ w.latestTalkers = v.latestTalkers /\ w.listenPortsKnown = v.listenPortsKnown
      /\ w.topDirection = v.topDirection /\ w.portFilter = v.portFilter /\ w.textFilter = v.textFilter
      /\ w.sortMode = v.sortMode /\ w.sortDesc = v.sortDesc
  BY DEF Views
<1> HIDE DEF w
<1>3. Source(w) = Source(v)
  BY <1>2 DEF Source
<1>4. \A c : DirectionPort(c, w) = DirectionPort(c, v)
  BY <1>2 DEF DirectionPort
<1>5. FilterByPort(Source(v), w) = FilterByPort(Source(v), v)
  BY <1>2, <1>4 DEF FilterByPort
<1>6. Filtered(w) = Filtered(v)
  BY <1>2, <1>3, <1>5 DEF Filtered, FilterByText
<1>7. \A i : SortKey(i, Filtered(v), w) = SortKey(i, Filtered(v), v)
  BY <1>2, <1>4, Zenon DEF SortKey
<1>8. {[key |-> SortKey(i, Filtered(v), w), row |-> w.latestTalkers[i]] : i \in Filtered(v)}
        = {[key |-> SortKey(i, Filtered(v), v), row |-> v.latestTalkers[i]] : i \in Filtered(v)}
  BY <1>2, <1>7
<1> QED
  BY <1>1, <1>6, <1>8 DEF w, ConnectionRows, StableSort

\* What the cursor may do under a panel that is not drawn anew.
LEMMA CursorStays ==
    ASSUME CursorInv, session' = session, drawn' = drawn, view' \in Views,
           ConnectionRows(view') = ConnectionRows(view),
           selectedTalkerIndex' \in Nat, selectedTalkerIndex' <= selectedTalkerIndex, topPageIndex' \in Nat
    PROVE  CursorInv'
<1>1. session' \in Sessions /\ view' \in Views'
  BY DEF CursorInv, Views
<1>2. PreviewOfMark'
  <2>1. ConnectionRows(view)' = ConnectionRows(view)
    BY DEF ConnectionRows
  <2> QED
    BY <2>1 DEF CursorInv, CursorOnDrawnRow, PreviewOfMark
<1>3. selectedTalkerIndex' <= Most(Len(drawn'.rows) - 1, 0)
  BY DEF CursorInv, CursorOnDrawnRow, Most
<1> QED
  BY <1>1, <1>2, <1>3 DEF CursorInv, CursorOnDrawnRow

\* Nothing is drawn, and the cursor is at the top.
LEMMA NothingDrawn ==
    ASSUME session' \in Sessions, view' \in Views', drawn' = NoDrawing,
           selectedTalkerIndex' = 0, topPageIndex' = 0
    PROVE  CursorInv'
<1>1. drawn'.rows = <<>> /\ drawn'.sel = 0 /\ drawn'.preview = NoPreview
  BY DEF NoDrawing
<1>2. PreviewOfMark'
  BY <1>1 DEF PreviewOfMark
<1>3. 0 <= Most(Len(drawn'.rows) - 1, 0) /\ Len(drawn'.rows) = 0
  BY <1>1 DEF Most
<1> QED
  BY <1>1, <1>2, <1>3 DEF CursorInv, CursorOnDrawnRow

\* A refresh brings a table of the session, or takes the connections away.
LEMMA RefreshKeepsCursor ==
    ASSUME session \in Sessions, session' = session, NEW v \in Views, NEW page \in Int, NEW sel \in Nat,
           RefreshList(v, page, sel)
    PROVE  CursorInv'
<1>1. PICK known \in {v.listenPortsKnown, TRUE} :
        \/ /\ view' = [v EXCEPT !.listenPortsKnown = known, !.latestTalkers = <<>>,
                                !.topBandwidthNote = FALSE]
           /\ selectedTalkerIndex' = 0 /\ topPageIndex' = 0 /\ drawn' = NoDrawing
        \/ \E talkers \in session.tables, note \in BOOLEAN :
             RenderTopConnectionsPanel(
                 [v EXCEPT !.listenPortsKnown = known, !.latestTalkers = talkers,
                           !.topBandwidthNote = note], page, sel)
  BY Zenon DEF RefreshList
<1>2. known \in BOOLEAN
  BY DEF Views
<1>3. \A talkers \in session.tables \cup {<<>>}, note \in BOOLEAN :
        [v EXCEPT !.listenPortsKnown = known, !.latestTalkers = talkers, !.topBandwidthNote = note] \in Views
  BY <1>2, Zenon DEF Views
<1>4. CASE /\ view' = [v EXCEPT !.listenPortsKnown = known, !.latestTalkers = <<>>,
                                !.topBandwidthNote = FALSE]
           /\ selectedTalkerIndex' = 0 /\ topPageIndex' = 0 /\ drawn' = NoDrawing
  <2>1. view' \in Views
    BY <1>3, <1>4
  <2> QED
    BY <1>4, <2>1, NothingDrawn DEF Views
<1>5. ASSUME NEW talkers \in session.tables, NEW note \in BOOLEAN,
             RenderTopConnectionsPanel(
                 [v EXCEPT !.listenPortsKnown = known, !.latestTalkers = talkers,
                           !.topBandwidthNote = note], page, sel)
      PROVE  CursorInv'
  <2> DEFINE w == [v EXCEPT !.listenPortsKnown = known, !.latestTalkers = talkers,
                            !.topBandwidthNote = note]
  <2>1. w \in Views
    BY <1>3
  <2>2. RenderTopConnectionsPanel(w, page, sel)
    BY <1>5
  <2> HIDE DEF w
  <2> QED
    BY <2>1, <2>2, DrawingPutsTheCursor
<1> QED
  BY <1>1, <1>4, <1>5

\* The page on which a key finds the list.
LEMMA VisibleBoundsType ==
    ASSUME CursorInv
    PROVE  /\ VisibleBounds.page \in Nat /\ VisibleBounds.totalPages \in Int
           /\ VisibleBounds.end - VisibleBounds.start \in Nat
<1> DEFINE n == Len(Rows(view))
           limit == Layout(n, view).rowLimit
           b == TopConnectionsPageBounds(n, limit, topPageIndex)
<1>1. n \in Nat
  BY ViewsAreOK, RowsType DEF CursorInv
<1>2. limit \in Nat
  BY <1>1, LayoutType
<1>3. VisibleBounds = b /\ topPageIndex \in Int
  BY DEF VisibleBounds, Bounds, CursorInv
<1> HIDE DEF n, limit
<1>4. /\ b.page \in Nat /\ b.start \in Nat /\ b.end \in Nat /\ b.totalPages \in Int
      /\ n > 0 => b.start < b.end
      /\ n = 0 => b.start = 0 /\ b.end = 0
  BY <1>1, <1>2, <1>3, PageAgain
<1> HIDE DEF b
<1> QED
  BY <1>1, <1>3, <1>4

LEMMA ListStepKeepsCursor ==
    ASSUME CursorInv, session' = session, ListStep
    PROVE  CursorInv'
<1> USE DEF CursorInv
<1>1. ASSUME NEW v \in Views, NEW page \in Int, NEW sel \in Nat, Render(v, page, sel)
      PROVE  CursorInv'
  BY <1>1, DrawingPutsTheCursor DEF Render
<1>2. ASSUME NEW v \in Views, RenderFromTop(v)
      PROVE  CursorInv'
  BY <1>1, <1>2 DEF RenderFromTop
<1>3. CASE UNCHANGED listVars
  <2>1. UNCHANGED <<view, selectedTalkerIndex, topPageIndex, drawn>>
    BY <1>3 DEF listVars, cursorVars
  <2> QED
    BY <2>1, CursorStays
<1>4. ASSUME NEW delta \in {-1, 1}, MoveTopConnectionSelection(delta)
      PROVE  CursorInv'
  <2> DEFINE b == VisibleBounds
             count == b.end - b.start
             from == Clamp(selectedTalkerIndex, count)
             next == Least(Most(from + delta, 0), count - 1)
  <2>1. \/ /\ count = 0 \/ next = from
           /\ topPageIndex' = b.page
           /\ selectedTalkerIndex' = IF count = 0 THEN selectedTalkerIndex ELSE from
           /\ UNCHANGED <<view, drawn>>
        \/ count # 0 /\ Render(view, b.page, next)
    BY <1>4, Zenon DEF MoveTopConnectionSelection
  <2>2. b.page \in Nat /\ count \in Nat
    BY VisibleBoundsType
  <2> HIDE DEF b, count
  <2>3. from \in Nat /\ from <= selectedTalkerIndex
    BY <2>2 DEF Clamp, Least
  <2>4. count # 0 => next \in Nat
    BY <2>2, <2>3 DEF Least, Most
  <2> HIDE DEF from, next
  <2>5. CASE /\ topPageIndex' = b.page
             /\ selectedTalkerIndex' = IF count = 0 THEN selectedTalkerIndex ELSE from
             /\ UNCHANGED <<view, drawn>>
    <3>1. selectedTalkerIndex' \in Nat /\ selectedTalkerIndex' <= selectedTalkerIndex
      BY <2>3, <2>5
    <3> QED
      BY <2>2, <2>5, <3>1, CursorStays
  <2>6. CASE count # 0 /\ Render(view, b.page, next)
    BY <1>1, <2>2, <2>4, <2>6
  <2> QED
    BY <2>1, <2>5, <2>6
<1>5. ASSUME NEW delta \in {-1, 1}, MoveTopConnectionPage(delta)
      PROVE  CursorInv'
  <2> DEFINE b == VisibleBounds
             next == Least(Most(b.page + delta, 0), b.totalPages - 1)
  <2>1. \/ topPageIndex' = b.page /\ UNCHANGED <<view, selectedTalkerIndex, drawn>>
        \/ UNCHANGED listVars
        \/ Render(view, next, 0)
    BY <1>5, Zenon DEF MoveTopConnectionPage
  <2>2. b.page \in Nat /\ b.totalPages \in Int
    BY VisibleBoundsType
  <2> HIDE DEF b
  <2>3. next \in Int
    BY <2>2 DEF Least, Most
  <2> HIDE DEF next
  <2>4. CASE topPageIndex' = b.page /\ UNCHANGED <<view, selectedTalkerIndex, drawn>>
    BY <2>2, <2>4, CursorStays
  <2> QED
    BY <1>1, <1>3, <2>1, <2>3, <2>4
<1>6. CASE ToggleGroupView
  <2>1. [view EXCEPT !.groupView = ~@] \in Views
    BY DEF Views
  <2> QED
    BY <1>2, <1>6, <2>1 DEF ToggleGroupView
<1>7. CASE ToggleTopConnectionsDirection
  <2>1. [view EXCEPT !.topDirection = IF @ = "IN" THEN "OUT" ELSE "IN"] \in Views
    BY DEF Views
  <2> QED
    BY <1>2, <1>7, <2>1 DEF ToggleTopConnectionsDirection
<1>8. CASE ToggleZoom
  <2>1. /\ view' = [view EXCEPT !.zoomed = ~@]
        /\ UNCHANGED <<selectedTalkerIndex, topPageIndex, drawn>>
    BY <1>8 DEF ToggleZoom, cursorVars
  <2>2. view' \in Views /\ ConnectionRows(view') = ConnectionRows(view)
    BY <2>1, ZoomKeepsRows
  <2> QED
    BY <2>1, <2>2, CursorStays
<1>9. ASSUME NEW mode \in SortModes, ApplySortInput(mode)
      PROVE  CursorInv'
  <2> DEFINE desc == IF view.sortMode = mode THEN ~view.sortDesc ELSE TRUE
             w == [view EXCEPT !.sortMode = mode, !.sortDesc = desc]
  <2>1. desc \in BOOLEAN
    BY DEF Views
  <2>2. w \in Views
    BY <2>1, Zenon DEF Views
  <2>3. RenderFromTop(w)
    BY <1>9, Zenon DEF ApplySortInput
  <2> HIDE DEF w
  <2> QED
    BY <1>2, <2>2, <2>3
<1>10. ASSUME NEW v \in Views, NEW page \in Int, NEW sel \in Nat, RefreshList(v, page, sel)
       PROVE  CursorInv'
  BY <1>10, RefreshKeepsCursor
<1>11. CASE RefreshData
  BY <1>10, <1>11 DEF RefreshData
<1>12. CASE ClearFilters
  <2> DEFINE w == [view EXCEPT !.portFilter = NoFilter, !.textFilter = NoFilter]
  <2>1. w \in Views
    BY Zenon DEF Views
  <2>2. RefreshList(w, 0, 0)
    BY <1>12, Zenon DEF ClearFilters
  <2> HIDE DEF w
  <2> QED
    BY <1>10, <2>1, <2>2
<1>13. ASSUME NEW port \in Ports \cup {NoFilter}, SetPortFilter(port)
       PROVE  CursorInv'
  <2> DEFINE w == [view EXCEPT !.portFilter = port]
  <2>1. w \in Views
    BY Zenon DEF Views
  <2>2. RefreshList(w, 0, 0)
    BY <1>13, Zenon DEF SetPortFilter
  <2> HIDE DEF w
  <2> QED
    BY <1>10, <2>1, <2>2
<1>14. ASSUME NEW word \in Words \cup {NoFilter}, SetTextFilter(word)
       PROVE  CursorInv'
  <2> DEFINE port == IF word = NoFilter THEN NoFilter ELSE view.portFilter
             w == [view EXCEPT !.textFilter = word, !.portFilter = port]
  <2>1. port \in Ports \cup {NoFilter}
    BY DEF Views
  <2>2. w \in Views
    BY <2>1, Zenon DEF Views
  <2>3. RefreshList(w, 0, 0)
    BY <1>14, Zenon DEF SetTextFilter
  <2> HIDE DEF w
  <2> QED
    BY <1>10, <2>2, <2>3
<1>15. CASE UNCHANGED <<view, cursorVars>>
  <2>1. UNCHANGED <<view, selectedTalkerIndex, topPageIndex, drawn>>
    BY <1>15 DEF cursorVars
  <2> QED
    BY <2>1, CursorStays
<1> QED
  BY <1>3, <1>4, <1>5, <1>6, <1>7, <1>8, <1>9, <1>11, <1>12, <1>13, <1>14, <1>15 DEF ListStep

LEMMA CursorInit == Init => CursorInv
<1> SUFFICES ASSUME Init PROVE CursorInv
  OBVIOUS
<1>1. /\ session \in Sessions /\ selectedTalkerIndex = 0 /\ topPageIndex = 0 /\ drawn = NoDrawing
      /\ view = [latestTalkers |-> <<>>, listenPortsKnown |-> FALSE, topBandwidthNote |-> FALSE,
                 topDirection |-> "IN", portFilter |-> NoFilter, textFilter |-> NoFilter,
                 sortMode |-> "bandwidth", sortDesc |-> TRUE, groupView |-> FALSE, zoomed |-> FALSE]
  BY DEF Init, ListInit
<1>2. view \in Views
  BY <1>1 DEF Views, SortModes
<1>3. drawn.rows = <<>> /\ drawn.sel = 0 /\ drawn.preview = NoPreview
  BY <1>1 DEF NoDrawing
<1>4. 0 <= Most(Len(drawn.rows) - 1, 0) /\ Len(drawn.rows) = 0
  BY <1>3 DEF Most
<1> QED
  BY <1>1, <1>2, <1>3, <1>4 DEF CursorInv, CursorOnDrawnRow, PreviewOfMark

LEMMA CursorNext == CursorInv /\ [Next]_vars => CursorInv'
  BY StepsOfOthers, ListStepKeepsCursor DEF OtherStep

\* Whatever a refresh brings, a filter leaves or the height of the panel allows,
\* the cursor is on a row that is drawn, and the preview is of that row and counts
\* the connections that are behind the view.
THEOREM CursorTheorem == Spec => []CursorOnDrawnRow
<1>1. CursorInv => CursorOnDrawnRow
  BY DEF CursorInv
<1> QED
  BY <1>1, CursorInit, CursorNext, PTL DEF Spec

\* In every view the groups share out the connections that the rows show, and
\* the cap keeps those with the most.
THEOREM ViewsTheorem == Spec => []ViewsAgree
<1>1. CursorInv => ViewsAgree
  <2> SUFFICES ASSUME CursorInv PROVE ViewsAgree
    OBVIOUS
  <2>1. ViewOK(view)
    BY ViewsAreOK DEF CursorInv
  <2>2. /\ UNION {g.members : g \in PeerGroups(view)} = Filtered(view)
        /\ \A g, h \in PeerGroups(view) : g # h => g.members \cap h.members = {}
    BY <2>1, GroupsShareOut
  <2>3. Len(ConnectionRows(view)) = Cardinality(Filtered(view))
    BY <2>1, RowsCount
  <2>4. \A g \in ToSet(GroupRows(view)), h \in PeerGroups(view) \ ToSet(GroupRows(view)) :
          Count(h) <= Count(g)
    BY <2>1, CapKeepsTheLargest
  <2> QED
    BY <2>2, <2>3, <2>4, Zenon DEF ViewsAgree
<1> QED
  BY <1>1, CursorInit, CursorNext, PTL DEF Spec

LEMMA LevelInit == Init => StateInv(traffic)
  BY SMT DEF Init, ListInit, TrafficInit, StateInv, TrafficStates, Levels, Streaks, Warm, Behind,
         interfaceSpikeWarmupSamples, interfaceTrafficWarnSamples, interfaceTrafficClearSamples

LEMMA LevelNext ==
    UiInv /\ StateInv(traffic) /\ [Next]_vars
      => StateInv(traffic)' /\ [Steady(traffic, traffic')]_traffic
<1> SUFFICES ASSUME UiInv, StateInv(traffic), [Next]_vars
             PROVE  StateInv(traffic)' /\ [Steady(traffic, traffic')]_traffic
  OBVIOUS
<1>1. UNCHANGED traffic \/ RefreshInterfacePanel(session.loads)
  BY StepsOfOthers, ListStepsRead DEF OtherStep
<1>2. session.loads \subseteq Readings
  BY TopConnectionsAssumption DEF UiInv, UiTypeInv
<1>3. CASE UNCHANGED traffic
  BY <1>3
<1>4. CASE RefreshInterfacePanel(session.loads)
  BY <1>2, <1>4, ReadingKeepsInv DEF RefreshInterfacePanel
<1> QED
  BY <1>1, <1>3, <1>4

\* Both lanes and every key that refreshes feed the level, and it is steady all
\* the same.
THEOREM LoadTheorem == Spec => LoadLevelIsSteady
  BY LevelInit, LevelNext, UiInit, UiNext, PTL DEF Spec, LoadLevelIsSteady

\* The variables of the pages, the pause, the loops and the list have their types
\* after any keys, ticks and results.
THEOREM LiveTypes == Spec => []TypeOK
<1>1. UiInv /\ CursorInv /\ StateInv(traffic) => TypeOK
  <2> SUFFICES ASSUME UiInv, CursorInv, StateInv(traffic) PROVE TypeOK
    OBVIOUS
  <2>1. ListTypeOK
    BY DEF CursorInv, StateInv, ListTypeOK
  <2>2. ToSet(pages) \subseteq Overlays /\ focus \in Overlays \cup {"main"}
    BY DEF UiInv, PagesInv, ToSet
  <2>3. {paused, killFlowAutoPaused, refreshChan, byUser, buried} \subseteq BOOLEAN
    BY DEF UiInv, PagesInv, PauseInv, UiTypeInv
  <2>4. loop \in [Loops -> {"wait", "tick", "manual", "done"}] /\ late \subseteq Loops
    BY DEF UiInv, LateInv
  <2>5. /\ focusIndex \in {0, 2} /\ phase \in {"new", "running", "stopped"}
        /\ task \in [session.tasks -> TaskStates]
    BY DEF UiInv, UiTypeInv
  <2> QED
    BY <2>1, <2>2, <2>3, <2>4, <2>5 DEF TypeOK
<1> QED
  BY <1>1, CursorInit, CursorNext, LevelInit, LevelNext, UiInit, UiNext, PTL DEF Spec

=============================================================================
