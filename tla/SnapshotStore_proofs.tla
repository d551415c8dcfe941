------------------------- MODULE SnapshotStore_proofs -------------------------
(***************************************************************************)
(* Proofs about SnapshotStore, for any length of day, retention, clock and *)
(* number of records.                                                      *)
(***************************************************************************)
EXTENDS SnapshotStore, FiniteSetTheorems, TLAPS

(* The strengthening: what the files hold, and what the writer and the two  *)
(* pruners know of them.                                                    *)

StoreTypeOK ==
    /\ now \in 0 .. MaxTime
    /\ exists \subseteq Days
    /\ chunks \in [Days -> Seq(Chunk)]
    /\ wpc \in {"down", "idle", "capture", "write"}
    /\ ts \in 0 .. MaxTime
    /\ segment \in Days \cup {NoDay}
    /\ linked \in BOOLEAN
    /\ part \in Parts \ {"whole"}
    /\ made \in 0 .. MaxRecords
    /\ pruneDay \in Days
    /\ todo \in [Pruners -> SUBSET Days]

\* The writer's file has a name only as long as it exists; during a write it is
\* that of the timestamp's day.
WriterInv ==
    /\ ts <= now
    /\ linked => segment \in exists
    /\ wpc = "capture" => made < MaxRecords
    /\ wpc = "write" => segment = DayOf(ts) /\ made # 0
    /\ part # "none" => wpc = "write"

\* A chunk lies in the file of its day, and is not newer than the writer.
ChunksInv ==
    /\ \A d \in Days : d \notin exists => chunks[d] = <<>>
    /\ \A d \in Days : \A i \in DOMAIN chunks[d] :
          /\ DayOf(chunks[d][i].at) = d
          /\ chunks[d][i].id <= made /\ chunks[d][i].at <= now
          /\ wpc # "down" => chunks[d][i].at <= ts

\* No record is in two places.
IdsInv ==
    \A d, e \in Days : \A i \in DOMAIN chunks[d], j \in DOMAIN chunks[e] :
        chunks[d][i].id = chunks[e][j].id => d = e /\ i = j

\* The line that is being written is the last of its file; until it is begun,
\* or when its file is unlinked, it is in none.
LineInv ==
    wpc = "write" =>
        IF part # "none" /\ linked
        THEN /\ chunks[segment] # <<>>
             /\ chunks[segment][Len(chunks[segment])] = [id |-> made, at |-> ts, part |-> part]
        ELSE \A d \in Days : \A i \in DOMAIN chunks[d] : chunks[d][i].id < made

\* What a pruner has listed has expired.
PruneInv ==
    \A a \in Pruners : \A d \in todo[a] : (d + 1) * DayTicks + Keep[a] < now

StoreInv == StoreTypeOK /\ WriterInv /\ ChunksInv /\ IdsInv /\ LineInv /\ PruneInv

-----------------------------------------------------------------------------
(* Days *)

LEMMA DayBounds ==
    ASSUME NEW t \in Nat
    PROVE  DayOf(t) \in Nat /\ DayOf(t) * DayTicks <= t /\ t < (DayOf(t) + 1) * DayTicks
  BY SnapshotStoreAssumption DEF DayOf

LEMMA DayMonotone ==
    ASSUME NEW t \in Nat, NEW u \in Nat, t <= u
    PROVE  DayOf(t) <= DayOf(u)
  BY SnapshotStoreAssumption DEF DayOf

LEMMA DayInDays ==
    ASSUME NEW t \in 0 .. MaxTime
    PROVE  DayOf(t) \in Days
  BY SnapshotStoreAssumption, DayBounds, DayMonotone DEF Days

LEMMA DaysAreNats == Days \subseteq Nat /\ NoDay \notin Days
<1>1. MaxTime \in Nat
  BY SnapshotStoreAssumption
<1> QED
  BY <1>1, DayBounds, SnapshotStoreAssumption DEF Days

LEMMA KeepBounds ==
    /\ ShortestRetention \in Nat \ {0}
    /\ \A a \in Pruners : Keep[a] \in Nat \ {0} /\ ShortestRetention <= Keep[a]
  BY SnapshotStoreAssumption DEF ShortestRetention, Keep, Pruners

\* What a chunk of a file is.
LEMMA ChunkType ==
    ASSUME StoreTypeOK, NEW d \in Days, NEW i \in DOMAIN chunks[d]
    PROVE  /\ chunks[d] \in Seq(Chunk) /\ Len(chunks[d]) \in Nat /\ i \in 1 .. Len(chunks[d])
           /\ chunks[d][i] \in Chunk
           /\ chunks[d][i].id \in Nat /\ chunks[d][i].at \in 0 .. MaxTime
<1>1. /\ chunks[d] \in Seq(Chunk) /\ Len(chunks[d]) \in Nat /\ i \in 1 .. Len(chunks[d])
      /\ chunks[d][i] \in Chunk
  BY DEF StoreTypeOK
<1>2. Ids \subseteq Nat
  BY SnapshotStoreAssumption DEF Ids
<1> QED
  BY <1>1, <1>2 DEF Chunk

-----------------------------------------------------------------------------
(* The clock, listing and the writer without its writes *)

\* Steps that leave the files and their line alone.
LEMMA QuietStep ==
    ASSUME StoreInv, StoreTypeOK',
           chunks' = chunks, exists \subseteq exists', now' \in Nat, now <= now',
           made \in Nat, made' \in Nat, made <= made',
           WriterInv',
           wpc' # "down" => IF wpc = "down" THEN ts' = now ELSE ts <= ts',
           wpc' = "write" => IF wpc = "write"
                             THEN UNCHANGED <<segment, ts, linked, part, made>>
                             ELSE part' = "none" /\ made < made',
           PruneInv'
    PROVE  StoreInv'
<1> USE DEF StoreInv
<1>1. ASSUME NEW d \in Days, NEW i \in DOMAIN chunks[d]
      PROVE  chunks[d][i].id \in Nat /\ chunks[d][i].at \in Nat
  BY ChunkType, SnapshotStoreAssumption
<1>2. ts \in Nat /\ ts' \in Nat /\ now \in Nat
  BY SnapshotStoreAssumption DEF StoreTypeOK
<1>3. ChunksInv'
  BY <1>1, <1>2 DEF ChunksInv
<1>4. IdsInv'
  BY DEF IdsInv
<1>5. LineInv'
  <2>1. CASE wpc' = "write" /\ wpc = "write"
    BY <2>1 DEF LineInv
  <2>2. CASE wpc' = "write" /\ wpc # "write"
    <3>1. part' = "none" /\ made < made'
      BY <2>2
    <3> QED
      BY <1>1, <3>1 DEF LineInv, ChunksInv
  <2> QED
    BY <2>1, <2>2 DEF LineInv
<1> QED
  BY <1>3, <1>4, <1>5

LEMMA ListExpiredOK ==
    ASSUME StoreInv, NEW a \in Pruners, ListExpired(a), UNCHANGED now
    PROVE  todo' \in [Pruners -> SUBSET Days] /\ pruneDay' \in Days /\ PruneInv'
<1>1. todo' \in [Pruners -> SUBSET Days]
  BY DEF ListExpired, StoreInv, StoreTypeOK
<1>2. pruneDay' \in Days
  BY DayInDays DEF ListExpired, StoreInv, StoreTypeOK
<1>3. PruneInv'
  BY DEF ListExpired, StoreInv, StoreTypeOK, PruneInv, Expired
<1> QED
  BY <1>1, <1>2, <1>3

\* Everything but the writes of a line and the removal of a file.
LEMMA QuietKeeps ==
    ASSUME StoreInv,
           \/ StartDaemon \/ BeginCapture \/ FailCapture \/ OpenSegment \/ FailWrite \/ StopDaemon
           \/ \E a \in Pruners : BeginPrune(a)
           \/ BeginLoad \/ IndexNext \/ FailLoad \/ FinishLoad
           \/ Tick \/ UNCHANGED vars
    PROVE  StoreInv' /\ chunks' = chunks
<1> USE SnapshotStoreAssumption
        DEF StoreInv, disk, writerVars, pruneVars, loadVars
<1>1. CASE StartDaemon
  <2>1. StoreTypeOK' /\ WriterInv' /\ PruneInv'
    <3>1. Daemon \in Pruners /\ ListExpired(Daemon) /\ UNCHANGED now
      BY <1>1 DEF StartDaemon, Pruners
    <3>2. todo' \in [Pruners -> SUBSET Days] /\ pruneDay' \in Days /\ PruneInv'
      BY <3>1, ListExpiredOK
    <3> QED
      BY <1>1, <3>2 DEF StartDaemon, StoreTypeOK, WriterInv
  <2> QED
    BY <1>1, <2>1, QuietStep DEF StartDaemon, StoreTypeOK
<1>2. CASE BeginCapture
  <2>1. StoreTypeOK' /\ WriterInv' /\ PruneInv' /\ ts <= ts'
    BY <1>2 DEF BeginCapture, StoreTypeOK, WriterInv, PruneInv
  <2> QED
    BY <1>2, <2>1, QuietStep DEF BeginCapture, StoreTypeOK
<1>3. CASE FailCapture
  <2>1. StoreTypeOK' /\ WriterInv' /\ PruneInv'
    <3>1. StoreTypeOK'
      BY <1>3 DEF FailCapture, StoreTypeOK
    <3>2. WriterInv'
      BY <1>3 DEF FailCapture, StoreTypeOK, WriterInv
    <3> QED
      BY <1>3, <3>1, <3>2 DEF FailCapture, PruneInv
  <2> QED
    BY <1>3, <2>1, QuietStep DEF FailCapture, StoreTypeOK
<1>4. CASE OpenSegment
  <2>1. DayOf(ts) \in Days
    BY DayInDays DEF StoreTypeOK
  <2>2. StoreTypeOK' /\ WriterInv' /\ PruneInv'
    <3>1. StoreTypeOK'
      <4>1. exists' \subseteq Days /\ segment' \in Days \cup {NoDay} /\ linked' \in BOOLEAN
        BY <1>4, <2>1 DEF OpenSegment, StoreTypeOK
      <4>2. made' \in 0 .. MaxRecords /\ wpc' \in {"down", "idle", "capture", "write"}
        BY <1>4 DEF OpenSegment, StoreTypeOK, WriterInv
      <4>3. UNCHANGED <<now, chunks, ts, part, pruneDay, todo>>
        BY <1>4 DEF OpenSegment
      <4> QED
        BY <4>1, <4>2, <4>3 DEF StoreTypeOK
    <3>2. WriterInv'
      BY <1>4 DEF OpenSegment, StoreTypeOK, WriterInv
    <3> QED
      BY <1>4, <3>1, <3>2 DEF OpenSegment, PruneInv
  <2>3. part = "none"
    BY <1>4 DEF OpenSegment, WriterInv
  <2> QED
    BY <1>4, <2>2, <2>3, QuietStep DEF OpenSegment, StoreTypeOK
<1>5. CASE FailWrite
  <2>1. StoreTypeOK' /\ WriterInv' /\ PruneInv'
    BY <1>5 DEF FailWrite, StoreTypeOK, Parts, WriterInv, PruneInv
  <2> QED
    BY <1>5, <2>1, QuietStep DEF FailWrite, StoreTypeOK
<1>6. CASE StopDaemon
  <2>1. StoreTypeOK' /\ WriterInv'
    <3>1. StoreTypeOK'
      <4>1. todo' \in [Pruners -> SUBSET Days]
        BY <1>6 DEF StopDaemon, StoreTypeOK
      <4>2. ts' \in 0 .. MaxTime /\ part' \in Parts \ {"whole"} /\ segment' \in Days \cup {NoDay}
            /\ wpc' \in {"down", "idle", "capture", "write"}
        BY <1>6 DEF StopDaemon, Parts
      <4>3. linked' \in BOOLEAN
        BY <1>6, Zenon DEF StopDaemon
      <4>4. UNCHANGED <<now, exists, chunks, made, pruneDay>>
        BY <1>6 DEF StopDaemon
      <4> QED
        BY <4>1, <4>2, <4>3, <4>4 DEF StoreTypeOK
    <3> QED
      BY <1>6, <3>1 DEF StopDaemon, StoreTypeOK, WriterInv
  <2>2. PruneInv'
    BY <1>6 DEF StopDaemon, StoreTypeOK, PruneInv
  <2> QED
    BY <1>6, <2>1, <2>2, QuietStep DEF StopDaemon, StoreTypeOK
<1>7. ASSUME NEW a \in Pruners, BeginPrune(a) PROVE StoreInv' /\ chunks' = chunks
  <2>1. todo' \in [Pruners -> SUBSET Days] /\ pruneDay' \in Days /\ PruneInv'
    BY <1>7, ListExpiredOK DEF BeginPrune
  <2>2. StoreTypeOK' /\ WriterInv'
    BY <1>7, <2>1 DEF BeginPrune, StoreTypeOK, WriterInv
  <2> QED
    BY <1>7, <2>1, <2>2, QuietStep DEF BeginPrune, StoreTypeOK
<1>8. CASE Tick
  <2>1. StoreTypeOK' /\ WriterInv'
    BY <1>8 DEF Tick, StoreTypeOK, WriterInv
  <2>2. PruneInv'
    <3>1. \A a \in Pruners : \A d \in todo[a] : (d + 1) * DayTicks + Keep[a] \in Nat
      <4>1. ASSUME NEW a \in Pruners, NEW d \in todo[a] PROVE d \in Nat /\ Keep[a] \in Nat
        BY KeepBounds, DaysAreNats DEF StoreTypeOK
      <4> QED
        BY <4>1
    <3> QED
      BY <1>8, <3>1 DEF Tick, PruneInv, StoreTypeOK
  <2> QED
    BY <1>8, <2>1, <2>2, QuietStep DEF Tick, StoreTypeOK
<1>9. CASE UNCHANGED <<now, exists, chunks, wpc, ts, segment, linked, part, made, pruneDay, todo>>
  <2>1. StoreTypeOK' /\ WriterInv' /\ PruneInv'
    BY <1>9 DEF StoreTypeOK, WriterInv, PruneInv
  <2> QED
    BY <1>9, <2>1, QuietStep DEF StoreTypeOK
<1> QED
  BY <1>1, <1>2, <1>3, <1>4, <1>5, <1>6, <1>7, <1>8, <1>9
     DEF BeginLoad, IndexNext, FailLoad, FinishLoad, vars

-----------------------------------------------------------------------------
(* What a write does to the file it goes to *)

LEMMA AppendEffect ==
    ASSUME StoreTypeOK, segment \in Days, linked, NEW p \in Parts \ {"none"},
           made # 0, AppendChunk(p)
    PROVE  /\ chunks' \in [Days -> Seq(Chunk)]
           /\ \A d \in Days \ {segment} : chunks'[d] = chunks[d]
           /\ Len(chunks'[segment]) = Len(chunks[segment]) + 1
           /\ \A i \in DOMAIN chunks[segment] : chunks'[segment][i] = chunks[segment][i]
           /\ chunks'[segment][Len(chunks[segment]) + 1] = [id |-> made, at |-> ts, part |-> p]
<1> DEFINE file == chunks[segment]
           new == [id |-> made, at |-> ts, part |-> p]
<1>1. chunks' = [chunks EXCEPT ![segment] = Append(file, new)]
  BY DEF AppendChunk
<1>2. file \in Seq(Chunk)
  BY DEF StoreTypeOK
<1>3. new \in Chunk
  <2>1. made \in Ids
    BY SnapshotStoreAssumption DEF StoreTypeOK, Ids
  <2> QED
    BY <2>1 DEF StoreTypeOK, Chunk
<1>4. chunks'[segment] = Append(file, new)
  BY <1>1 DEF StoreTypeOK
<1>5. \A d \in Days \ {segment} : chunks'[d] = chunks[d]
  BY <1>1 DEF StoreTypeOK
<1>6. DOMAIN chunks' = Days /\ chunks' = [d \in Days |-> chunks'[d]]
  BY <1>1 DEF StoreTypeOK
<1> HIDE DEF new
<1>7. /\ Append(file, new) \in Seq(Chunk)
      /\ Len(Append(file, new)) = Len(file) + 1
      /\ \A i \in DOMAIN file : Append(file, new)[i] = file[i]
      /\ Append(file, new)[Len(file) + 1] = new
  <2> HIDE DEF file
  <2> QED
    BY <1>2, <1>3
<1>8. \A d \in Days : chunks'[d] \in Seq(Chunk)
  BY <1>4, <1>5, <1>7 DEF StoreTypeOK
<1>9. chunks' \in [Days -> Seq(Chunk)]
  BY <1>6, <1>8
<1> QED
  BY <1>4, <1>5, <1>7, <1>9 DEF new

LEMMA ExtendEffect ==
    ASSUME StoreTypeOK, segment \in Days, linked, NEW p \in Parts \ {"none"},
           chunks[segment] # <<>>,
           NEW q \in Parts,
           chunks[segment][Len(chunks[segment])] = [id |-> made, at |-> ts, part |-> q],
           ExtendChunk(p)
    PROVE  /\ chunks' \in [Days -> Seq(Chunk)]
           /\ \A d \in Days \ {segment} : chunks'[d] = chunks[d]
           /\ Len(chunks'[segment]) = Len(chunks[segment])
           /\ \A i \in DOMAIN chunks[segment] : i # Len(chunks[segment]) =>
                 chunks'[segment][i] = chunks[segment][i]
           /\ chunks'[segment][Len(chunks[segment])] = [id |-> made, at |-> ts, part |-> p]
<1> DEFINE file == chunks[segment]
           n == Len(file)
           new == [id |-> made, at |-> ts, part |-> p]
           longer == [file EXCEPT ![n] = new]
<1>1. chunks' = [chunks EXCEPT ![segment] = longer]
  <2>1. PICK c : c = file[n]
    OBVIOUS
  <2>2. c = [id |-> made, at |-> ts, part |-> q]
    BY <2>1
  <2>3. [c EXCEPT !.part = p] = new
    BY <2>2
  <2>4. chunks' = [chunks EXCEPT ![segment] = [file EXCEPT ![n] = [file[n] EXCEPT !.part = p]]]
    BY DEF ExtendChunk
  <2> QED
    BY <2>1, <2>3, <2>4
<1>2. file \in Seq(Chunk) /\ n \in Nat /\ n \in 1 .. Len(file) /\ DOMAIN file = 1 .. Len(file)
  BY DEF StoreTypeOK
<1>3. new \in Chunk
  <2>1. file[n] \in Chunk
    BY <1>2
  <2>2. made \in Ids
    <3>1. file[n].id = made /\ file[n].id \in Ids
      BY <2>1 DEF Chunk
    <3> QED
      BY <3>1
  <2> QED
    BY <2>2 DEF StoreTypeOK, Chunk
<1>4. chunks'[segment] = longer
  BY <1>1 DEF StoreTypeOK
<1>5. \A d \in Days \ {segment} : chunks'[d] = chunks[d]
  BY <1>1 DEF StoreTypeOK
<1>6. DOMAIN chunks' = Days /\ chunks' = [d \in Days |-> chunks'[d]]
  BY <1>1 DEF StoreTypeOK
<1> HIDE DEF new
<1>7. /\ longer \in Seq(Chunk)
      /\ Len(longer) = n
      /\ \A i \in DOMAIN file : i # n => longer[i] = file[i]
      /\ longer[n] = new
  <2> HIDE DEF file
  <2> QED
    BY <1>2, <1>3
<1>8. \A d \in Days : chunks'[d] \in Seq(Chunk)
  BY <1>4, <1>5, <1>7 DEF StoreTypeOK
<1>9. chunks' \in [Days -> Seq(Chunk)]
  BY <1>6, <1>8
<1> QED
  BY <1>4, <1>5, <1>7, <1>9 DEF new

-----------------------------------------------------------------------------
(* What a write does to the lines of a file *)

\* A new torn chunk hides the bare line it is glued to, and is no line itself.
LEMMA LinesAfterAppend ==
    ASSUME NEW f \in Seq(Chunk), NEW g \in Seq(Chunk),
           Len(g) = Len(f) + 1, \A i \in DOMAIN f : g[i] = f[i],
           g[Len(f) + 1].part = "torn",
           NEW i \in DOMAIN g
    PROVE  Decodes(g, i) <=> i \in DOMAIN f /\ Decodes(f, i) /\ f[i].part = "whole"
<1>1. DOMAIN f = 1 .. Len(f) /\ DOMAIN g = 1 .. Len(f) + 1 /\ Len(f) \in Nat
  OBVIOUS
<1>2. CASE i \in DOMAIN f
  <2>1. Starts(g, i) <=> Starts(f, i)
    <3>1. i # 1 => i - 1 \in DOMAIN f
      BY <1>1, <1>2
    <3> QED
      BY <3>1 DEF Starts
  <2> QED
    BY <1>1, <1>2, <2>1 DEF Decodes
<1>3. CASE i = Len(f) + 1
  BY <1>1, <1>3 DEF Decodes
<1> QED
  BY <1>1, <1>2, <1>3

\* The last chunk, made longer, changes no line but the one it begins.
LEMMA LinesAfterExtend ==
    ASSUME NEW f \in Seq(Chunk), NEW g \in Seq(Chunk), f # <<>>,
           Len(g) = Len(f), \A i \in DOMAIN f : i # Len(f) => g[i] = f[i],
           NEW i \in DOMAIN f
    PROVE  /\ i \in DOMAIN g
           /\ i # Len(f) => (Decodes(g, i) <=> Decodes(f, i)) /\ g[i] = f[i]
           /\ Starts(g, i) <=> Starts(f, i)
<1>1. DOMAIN f = 1 .. Len(f) /\ DOMAIN g = 1 .. Len(f) /\ Len(f) \in Nat
  OBVIOUS
<1>2. Starts(g, i) <=> Starts(f, i)
  <2>1. i # 1 => i - 1 \in DOMAIN f /\ i - 1 # Len(f)
    BY <1>1
  <2> QED
    BY <2>1 DEF Starts
<1> QED
  BY <1>1, <1>2 DEF Decodes

-----------------------------------------------------------------------------
(* What readers find, chunk by chunk *)

Entry(c) == [id |-> c.id, at |-> c.at, done |-> c.part = "whole"]

LEMMA EntryOfUnfinished ==
    ASSUME NEW i, NEW t, NEW c, NEW p, c = [id |-> i, at |-> t, part |-> p], p # "whole"
    PROVE  Entry(c) = [id |-> i, at |-> t, done |-> FALSE]
<1>1. c.id = i /\ c.at = t /\ c.part = p
  OBVIOUS
<1>2. (c.part = "whole") = FALSE
  BY <1>1, Zenon
<1> QED
  BY <1>1, <1>2, Zenon DEF Entry

LEMMA EntryOfWhole ==
    ASSUME NEW i, NEW t, NEW c, c = [id |-> i, at |-> t, part |-> "whole"]
    PROVE  Entry(c) = [id |-> i, at |-> t, done |-> TRUE]
<1>1. c.id = i /\ c.at = t /\ c.part = "whole"
  OBVIOUS
<1>2. (c.part = "whole") = TRUE
  BY <1>1, Zenon
<1> QED
  BY <1>1, <1>2, Zenon DEF Entry

LEMMA DoneField ==
    ASSUME NEW i, NEW t, NEW a, NEW b, NEW c, NEW x, c = [id |-> i, at |-> t, done |-> a],
           x = [c EXCEPT !.done = b]
    PROVE  x = [id |-> i, at |-> t, done |-> b]
  OBVIOUS

IsEntry(files, x) ==
    \E d \in Days : \E i \in DOMAIN files[d] : Decodes(files[d], i) /\ x = Entry(files[d][i])

LEMMA ReadableNow ==
    ASSUME StoreInv
    PROVE  \A x : x \in Readable <=> IsEntry(chunks, x)
<1>1. \A d \in Days : d \notin exists => DOMAIN chunks[d] = {}
  BY DEF StoreInv, ChunksInv
<1>2. exists \subseteq Days
  BY DEF StoreInv, StoreTypeOK
<1>3. \A x : x \in Readable <=> \E r \in Records : x = Entry(r)
  BY Zenon DEF Readable, Entry
<1>4. \A r : r \in Records <=>
         \E d \in exists : \E i \in DOMAIN chunks[d] : Decodes(chunks[d], i) /\ r = chunks[d][i]
  <2>1. ASSUME NEW d, NEW r
        PROVE  r \in ReadableIn(d) <=> \E i \in DOMAIN chunks[d] : Decodes(chunks[d], i) /\ r = chunks[d][i]
    BY DEF ReadableIn, GoodLines
  <2>2. \A r : r \in Records <=> \E d \in exists : r \in ReadableIn(d)
    BY DEF Records
  <2> QED
    BY <2>1, <2>2
<1>5. \A x : x \in Readable <=>
         \E d \in exists : \E i \in DOMAIN chunks[d] :
            Decodes(chunks[d], i) /\ x = Entry(chunks[d][i])
  BY <1>3, <1>4
<1> QED
  BY <1>1, <1>2, <1>5 DEF IsEntry

LEMMA ReadableNext ==
    ASSUME StoreInv'
    PROVE  \A x : x \in Readable' <=> IsEntry(chunks', x)
<1>1. \A d \in Days : d \notin exists' => DOMAIN chunks'[d] = {}
  BY DEF StoreInv, ChunksInv
<1>2. exists' \subseteq Days
  BY DEF StoreInv, StoreTypeOK
<1>3. \A x : x \in Readable' <=> \E r \in Records' : x = Entry(r)
  BY Zenon DEF Readable, Entry
<1>4. \A r : r \in Records' <=>
         \E d \in exists' : \E i \in DOMAIN chunks'[d] : Decodes(chunks'[d], i) /\ r = chunks'[d][i]
  <2>1. ASSUME NEW d, NEW r
        PROVE  r \in ReadableIn(d)' <=> \E i \in DOMAIN chunks'[d] : Decodes(chunks'[d], i) /\ r = chunks'[d][i]
    BY DEF ReadableIn, GoodLines
  <2>2. \A r : r \in Records' <=> \E d \in exists' : r \in ReadableIn(d)'
    BY DEF Records
  <2> QED
    BY <2>1, <2>2
<1>5. \A x : x \in Readable' <=>
         \E d \in exists' : \E i \in DOMAIN chunks'[d] :
            Decodes(chunks'[d], i) /\ x = Entry(chunks'[d][i])
  BY <1>3, <1>4
<1> QED
  BY <1>1, <1>2, <1>5 DEF IsEntry

\* Steps that leave the files alone let readers find the same.
LEMMA SameReadable ==
    ASSUME StoreInv, StoreInv', chunks' = chunks
    PROVE  Readable' = Readable
  BY ReadableNow, ReadableNext

-----------------------------------------------------------------------------
(* What a step does to the files, in terms of their records *)

\* Every record stays where it is, until its day has expired; at most one is new,
\* the writer's, and only the writer's becomes readable.
FilesStep ==
    /\ \A d \in Days : \A i \in DOMAIN chunks'[d] :
          \/ /\ i \in DOMAIN chunks[d]
             /\ chunks'[d][i].id = chunks[d][i].id /\ chunks'[d][i].at = chunks[d][i].at
             /\ chunks[d][i].part = "whole" => chunks'[d][i].part = "whole"
             /\ Decodes(chunks'[d], i) =>
                   Decodes(chunks[d], i) \/ (wpc = "write" /\ part = "torn" /\ chunks[d][i].id = made)
          \/ /\ wpc = "write" /\ part = "none" /\ d = segment /\ i = Len(chunks[d]) + 1
             /\ chunks'[d][i].id = made /\ chunks'[d][i].at = ts /\ ~Decodes(chunks'[d], i)
    /\ \A d \in Days : \A i \in DOMAIN chunks[d] :
          \/ /\ i \in DOMAIN chunks'[d]
             /\ chunks'[d][i].id = chunks[d][i].id /\ chunks'[d][i].at = chunks[d][i].at
             /\ chunks[d][i].part = "whole" => chunks'[d][i] = chunks[d][i]
          \/ (d + 1) * DayTicks + ShortestRetention < now

LEMMA SameFiles ==
    ASSUME chunks' = chunks
    PROVE  FilesStep
  BY DEF FilesStep

-----------------------------------------------------------------------------
(* The line begins *)

LEMMA TornStep ==
    ASSUME StoreInv, wpc = "write", part = "none", part' = "torn", AppendChunk("torn"),
           UNCHANGED <<now, exists, wpc, ts, segment, linked, made, pruneDay, todo>>
    PROVE  StoreInv' /\ [Log!LogNext]_<<now, Readable>> /\ FilesStep
<1> DEFINE n == Len(chunks[segment])
           new == [id |-> made, at |-> ts, part |-> "torn"]
<1>1. segment = DayOf(ts) /\ segment \in Days /\ made # 0 /\ ts <= now
      /\ made \in Nat /\ ts \in Nat /\ now \in Nat
  BY DayInDays, SnapshotStoreAssumption DEF StoreInv, WriterInv, StoreTypeOK
<1>2. CASE ~linked
  <2>1. chunks' = chunks
    BY <1>2 DEF AppendChunk
  <2>2. StoreInv'
    BY <1>1, <1>2, <2>1
       DEF StoreInv, StoreTypeOK, Parts, WriterInv, ChunksInv, IdsInv, LineInv, PruneInv
  <2> QED
    BY <2>1, <2>2, SameReadable, SameFiles
<1>3. CASE linked
  <2>1. /\ chunks' \in [Days -> Seq(Chunk)]
        /\ \A d \in Days \ {segment} : chunks'[d] = chunks[d]
        /\ Len(chunks'[segment]) = n + 1
        /\ \A i \in DOMAIN chunks[segment] : chunks'[segment][i] = chunks[segment][i]
        /\ chunks'[segment][n + 1] = new
    BY <1>1, <1>3, AppendEffect DEF StoreInv, Parts
  <2>2. chunks[segment] \in Seq(Chunk) /\ chunks'[segment] \in Seq(Chunk) /\ n \in Nat
        /\ DOMAIN chunks[segment] = 1 .. n /\ DOMAIN chunks'[segment] = 1 .. n + 1
    BY <1>1, <2>1 DEF StoreInv, StoreTypeOK
  <2>3. ASSUME NEW d \in Days, NEW i \in DOMAIN chunks[d]
        PROVE  /\ i \in DOMAIN chunks'[d] /\ chunks'[d][i] = chunks[d][i]
               /\ chunks[d][i].id \in Nat /\ chunks[d][i].at \in Nat
               /\ chunks[d][i].id < made /\ chunks[d][i].at <= ts
    <3>1. i \in DOMAIN chunks'[d] /\ chunks'[d][i] = chunks[d][i]
      <4>1. CASE d = segment
        BY <2>1, <2>2, <4>1
      <4>2. CASE d # segment
        BY <2>1, <4>2
      <4> QED
        BY <4>1, <4>2
    <3>2. chunks[d][i].id \in Nat /\ chunks[d][i].at \in Nat
      BY ChunkType, SnapshotStoreAssumption DEF StoreInv
    <3> QED
      BY <3>1, <3>2 DEF StoreInv, LineInv, ChunksInv
  <2>4. ASSUME NEW d \in Days, NEW i \in DOMAIN chunks'[d],
               ~(i \in DOMAIN chunks[d] /\ chunks'[d][i] = chunks[d][i])
        PROVE  d = segment /\ i = n + 1 /\ chunks'[d][i] = new
    <3>1. d = segment
      BY <2>1, <2>4
    <3> QED
      BY <2>1, <2>2, <2>4, <3>1
  <2>5. StoreInv'
    <3>1. StoreTypeOK'
      BY <2>1 DEF StoreInv, StoreTypeOK, Parts
    <3>2. WriterInv' /\ PruneInv'
      BY DEF StoreInv, WriterInv, PruneInv
    <3>3. ChunksInv'
      <4>1. \A d \in Days : d \notin exists' => chunks'[d] = <<>>
        BY <1>3, <2>1 DEF StoreInv, ChunksInv, WriterInv
      <4>2. ASSUME NEW d \in Days, NEW i \in DOMAIN chunks'[d]
            PROVE  /\ DayOf(chunks'[d][i].at) = d
                   /\ chunks'[d][i].id <= made /\ chunks'[d][i].at <= now /\ chunks'[d][i].at <= ts
        <5>1. CASE i \in DOMAIN chunks[d] /\ chunks'[d][i] = chunks[d][i]
          BY <1>1, <2>3, <5>1 DEF StoreInv, ChunksInv
        <5>2. CASE d = segment /\ chunks'[d][i] = new
          BY <1>1, <5>2
        <5> QED
          BY <2>4, <5>1, <5>2
      <4> QED
        BY <4>1, <4>2 DEF ChunksInv
    <3>4. IdsInv'
      <4>1. ASSUME NEW d \in Days, NEW e \in Days, NEW i \in DOMAIN chunks'[d],
                   NEW j \in DOMAIN chunks'[e], chunks'[d][i].id = chunks'[e][j].id
            PROVE  d = e /\ i = j
        <5>1. CASE /\ i \in DOMAIN chunks[d] /\ chunks'[d][i] = chunks[d][i]
                   /\ j \in DOMAIN chunks[e] /\ chunks'[e][j] = chunks[e][j]
          BY <4>1, <5>1 DEF StoreInv, IdsInv
        <5>2. CASE /\ i \in DOMAIN chunks[d] /\ chunks'[d][i] = chunks[d][i]
                   /\ chunks'[e][j] = new
          BY <1>1, <2>3, <4>1, <5>2
        <5>3. CASE /\ j \in DOMAIN chunks[e] /\ chunks'[e][j] = chunks[e][j]
                   /\ chunks'[d][i] = new
          BY <1>1, <2>3, <4>1, <5>3
        <5>4. CASE d = segment /\ i = n + 1 /\ e = segment /\ j = n + 1
          BY <5>4
        <5> QED
          BY <2>4, <5>1, <5>2, <5>3, <5>4
      <4> QED
        BY <4>1 DEF IdsInv
    <3>5. LineInv'
      <4>1. chunks'[segment] # <<>>
        BY <2>1, <2>2
      <4> QED
        BY <1>3, <2>1, <4>1 DEF LineInv
    <3> QED
      BY <3>1, <3>2, <3>3, <3>4, <3>5 DEF StoreInv
  <2>6. ASSUME NEW i \in DOMAIN chunks'[segment]
        PROVE  Decodes(chunks'[segment], i) <=>
                  i \in DOMAIN chunks[segment] /\ Decodes(chunks[segment], i)
                  /\ chunks[segment][i].part = "whole"
    <3> DEFINE f == chunks[segment]
               g == chunks'[segment]
    <3>1. /\ f \in Seq(Chunk) /\ g \in Seq(Chunk) /\ Len(g) = Len(f) + 1
          /\ \A k \in DOMAIN f : g[k] = f[k]
          /\ g[Len(f) + 1].part = "torn" /\ i \in DOMAIN g
      BY <2>1, <2>2
    <3> HIDE DEF f, g
    <3>2. Decodes(g, i) <=> i \in DOMAIN f /\ Decodes(f, i) /\ f[i].part = "whole"
      BY <3>1, LinesAfterAppend
    <3> QED
      BY <3>2 DEF f, g
  <2>7. ASSUME NEW x
        PROVE  IsEntry(chunks', x) <=>
                  \E d \in Days : \E i \in DOMAIN chunks[d] :
                     /\ Decodes(chunks[d], i) /\ x = Entry(chunks[d][i])
                     /\ d = segment => chunks[d][i].part = "whole"
    <3>1. ASSUME NEW d \in Days, NEW i \in DOMAIN chunks'[d], Decodes(chunks'[d], i),
                 x = Entry(chunks'[d][i])
          PROVE  /\ i \in DOMAIN chunks[d]
                 /\ Decodes(chunks[d], i) /\ x = Entry(chunks[d][i])
                 /\ d = segment => chunks[d][i].part = "whole"
      <4>1. CASE d = segment
        BY <2>3, <2>6, <3>1, <4>1
      <4>2. CASE d # segment
        BY <2>1, <3>1, <4>2
      <4> QED
        BY <4>1, <4>2
    <3>2. ASSUME NEW d \in Days, NEW i \in DOMAIN chunks[d], Decodes(chunks[d], i),
                 x = Entry(chunks[d][i]), d = segment => chunks[d][i].part = "whole"
          PROVE  /\ i \in DOMAIN chunks'[d]
                 /\ Decodes(chunks'[d], i) /\ x = Entry(chunks'[d][i])
      <4>1. CASE d = segment
        BY <2>3, <2>6, <3>2, <4>1
      <4>2. CASE d # segment
        BY <2>1, <3>2, <4>2
      <4> QED
        BY <4>1, <4>2
    <3> QED
      BY <3>1, <3>2 DEF IsEntry
  <2>8. /\ \A x : x \in Readable <=> IsEntry(chunks, x)
        /\ \A x : x \in Readable' <=> IsEntry(chunks', x)
    BY <2>5, ReadableNow, ReadableNext
  <2>9. FilesStep
    <3>1. ASSUME NEW d \in Days, NEW i \in DOMAIN chunks'[d],
                 i \in DOMAIN chunks[d] /\ chunks'[d][i] = chunks[d][i], Decodes(chunks'[d], i)
          PROVE  Decodes(chunks[d], i)
      <4>1. CASE d = segment
        BY <2>6, <3>1, <4>1
      <4>2. CASE d # segment
        BY <2>1, <3>1, <4>2
      <4> QED
        BY <4>1, <4>2
    <3>2. ~Decodes(chunks'[segment], n + 1)
      BY <2>2, <2>6
    <3> QED
      BY <2>3, <2>4, <3>1, <3>2 DEF FilesStep
  <2>10. CASE n # 0 /\ Decodes(chunks[segment], n) /\ chunks[segment][n].part = "bare"
    <3> DEFINE e == Entry(chunks[segment][n])
    <3>1. n \in DOMAIN chunks[segment]
      BY <2>2, <2>10
    <3>2. e \in Readable /\ ~e.done /\ e.id = chunks[segment][n].id
      BY <1>1, <2>8, <2>10, <3>1 DEF IsEntry, Entry
    <3>3. ASSUME NEW d \in Days, NEW i \in DOMAIN chunks[d], Decodes(chunks[d], i)
          PROVE  (d = segment => chunks[d][i].part = "whole") <=> Entry(chunks[d][i]) # e
      <4>1. CASE Entry(chunks[d][i]) = e
        <5>1. chunks[d][i].id = chunks[segment][n].id
          BY <4>1 DEF Entry
        <5> QED
          BY <1>1, <2>10, <3>1, <4>1, <5>1 DEF StoreInv, IdsInv
      <4>2. CASE Entry(chunks[d][i]) # e
        <5>1. d = segment => i # n
          BY <4>2
        <5> QED
          BY <3>3, <4>2, <5>1 DEF Decodes
      <4> QED
        BY <4>1, <4>2
    <3>4. Readable' = Readable \ {e}
      <4>1. \A x : x \in Readable' <=> x \in Readable /\ x # e
        <5> HIDE DEF e
        <5> QED
          BY <2>7, <2>8, <3>3 DEF IsEntry
      <4> HIDE DEF e
      <4> QED
        BY <4>1
    <3>5. Log!Spoil(e)
      BY <3>2, <3>4 DEF Log!Spoil
    <3> HIDE DEF e
    <3>6. Log!LogNext
      BY <3>2, <3>5 DEF Log!LogNext
    <3> QED
      BY <2>9, <2>5, <3>6
  <2>11. CASE ~(n # 0 /\ Decodes(chunks[segment], n) /\ chunks[segment][n].part = "bare")
    <3>1. ASSUME NEW i \in DOMAIN chunks[segment], Decodes(chunks[segment], i)
          PROVE  chunks[segment][i].part = "whole"
      BY <2>2, <2>11, <3>1 DEF Decodes
    <3>2. \A x : x \in Readable' <=> x \in Readable
      BY <2>7, <2>8, <3>1 DEF IsEntry
    <3>3. Readable' = Readable
      BY <3>2
    <3> QED
      BY <2>9, <2>5, <3>3
  <2> QED
    BY <2>10, <2>11, <2>9
<1> QED
  BY <1>2, <1>3

-----------------------------------------------------------------------------
(* The line grows *)

LEMMA ExtendOK ==
    ASSUME StoreInv, wpc = "write", part # "none", linked,
           NEW p \in {"bare", "whole"}, ExtendChunk(p),
           UNCHANGED <<now, exists, ts, segment, made>>
    PROVE  LET n == Len(chunks[segment]) IN
           /\ segment \in Days /\ n \in DOMAIN chunks[segment] /\ n \in DOMAIN chunks'[segment]
           /\ Len(chunks'[segment]) = n /\ chunks'[segment] # <<>>
           /\ chunks[segment][n] = [id |-> made, at |-> ts, part |-> part]
           /\ chunks'[segment][n] = [id |-> made, at |-> ts, part |-> p]
           /\ Starts(chunks'[segment], n) <=> Starts(chunks[segment], n)
           /\ \A d \in Days : DOMAIN chunks'[d] = DOMAIN chunks[d]
           /\ \A d \in Days : \A i \in DOMAIN chunks[d] :
                 \/ d = segment /\ i = n
                 \/ /\ chunks'[d][i] = chunks[d][i]
                    /\ Decodes(chunks'[d], i) <=> Decodes(chunks[d], i)
                    /\ chunks[d][i].id < made /\ chunks[d][i].at <= ts
           /\ chunks' \in [Days -> Seq(Chunk)] /\ ChunksInv' /\ IdsInv'
<1> DEFINE f == chunks[segment]
           g == chunks'[segment]
           n == Len(f)
<1>1. segment = DayOf(ts) /\ segment \in Days /\ segment \in exists /\ ts <= now
      /\ made \in Nat /\ ts \in Nat /\ now \in Nat /\ p \in Parts \ {"none"} /\ part \in Parts
  BY DayInDays, SnapshotStoreAssumption DEF StoreInv, WriterInv, StoreTypeOK, Parts
<1>2. f # <<>> /\ f[n] = [id |-> made, at |-> ts, part |-> part]
  BY DEF StoreInv, LineInv
<1>3. /\ chunks' \in [Days -> Seq(Chunk)]
      /\ \A d \in Days \ {segment} : chunks'[d] = chunks[d]
      /\ Len(g) = n
      /\ \A i \in DOMAIN f : i # n => g[i] = f[i]
      /\ g[n] = [id |-> made, at |-> ts, part |-> p]
  <2>1. StoreTypeOK
    BY DEF StoreInv
  <2> QED
    BY <1>1, <1>2, <2>1, ExtendEffect
<1>4. f \in Seq(Chunk) /\ g \in Seq(Chunk) /\ n \in Nat /\ n # 0
      /\ DOMAIN f = 1 .. n /\ DOMAIN g = 1 .. n /\ g # <<>>
  BY <1>1, <1>2, <1>3 DEF StoreInv, StoreTypeOK
<1>5. \A d \in Days : DOMAIN chunks'[d] = DOMAIN chunks[d]
  BY <1>3, <1>4
<1>6. \A i \in DOMAIN f : /\ i # n => (Decodes(g, i) <=> Decodes(f, i))
                          /\ Starts(g, i) <=> Starts(f, i)
  <2> HIDE DEF f, g
  <2> QED
    BY <1>2, <1>3, <1>4, LinesAfterExtend
<1>7. ASSUME NEW d \in Days, NEW i \in DOMAIN chunks[d], ~(d = segment /\ i = n)
      PROVE  /\ chunks'[d][i] = chunks[d][i]
             /\ Decodes(chunks'[d], i) <=> Decodes(chunks[d], i)
             /\ chunks[d][i].id \in Nat /\ chunks[d][i].at \in Nat
             /\ chunks[d][i].id < made /\ chunks[d][i].at <= ts
  <2>1. chunks[d][i].id \in Nat /\ chunks[d][i].at \in Nat
    BY ChunkType, SnapshotStoreAssumption DEF StoreInv
  <2>2. chunks[d][i].id <= made /\ chunks[d][i].at <= ts
    BY DEF StoreInv, ChunksInv
  <2>3. chunks[d][i].id # made
    <3>1. f[n].id = made
      BY <1>2
    <3> QED
      BY <1>1, <1>4, <1>7, <3>1 DEF StoreInv, IdsInv
  <2>4. chunks'[d][i] = chunks[d][i] /\ (Decodes(chunks'[d], i) <=> Decodes(chunks[d], i))
    <3>1. CASE d = segment
      BY <1>3, <1>6, <1>7, <3>1
    <3>2. CASE d # segment
      BY <1>3, <3>2
    <3> QED
      BY <3>1, <3>2
  <2> QED
    BY <1>1, <2>1, <2>2, <2>3, <2>4
<1>8. ChunksInv'
  <2>1. \A d \in Days : d \notin exists' => chunks'[d] = <<>>
    BY <1>1, <1>3 DEF StoreInv, ChunksInv
  <2>2. ASSUME NEW d \in Days, NEW i \in DOMAIN chunks'[d]
        PROVE  /\ DayOf(chunks'[d][i].at) = d
               /\ chunks'[d][i].id <= made /\ chunks'[d][i].at <= now /\ chunks'[d][i].at <= ts
    <3>1. i \in DOMAIN chunks[d]
      BY <1>5
    <3>2. CASE d = segment /\ i = n
      BY <1>1, <1>3, <3>2
    <3>3. CASE ~(d = segment /\ i = n)
      BY <1>1, <1>7, <3>1, <3>3 DEF StoreInv, ChunksInv
    <3> QED
      BY <3>2, <3>3
  <2> QED
    BY <2>1, <2>2 DEF ChunksInv
<1>9. IdsInv'
  <2>1. ASSUME NEW d \in Days, NEW i \in DOMAIN chunks'[d]
        PROVE  i \in DOMAIN chunks[d] /\ chunks'[d][i].id = chunks[d][i].id
    <3>1. i \in DOMAIN chunks[d]
      BY <1>5
    <3>2. CASE d = segment /\ i = n
      BY <1>2, <1>3, <3>1, <3>2
    <3>3. CASE ~(d = segment /\ i = n)
      BY <1>7, <3>1, <3>3
    <3> QED
      BY <3>1, <3>2, <3>3
  <2> QED
    BY <2>1 DEF StoreInv, IdsInv
<1> QED
  BY <1>1, <1>2, <1>3, <1>4, <1>5, <1>6, <1>7, <1>8, <1>9

\* All of the line but its newline is there: the newest snapshot, unless the
\* line is glued to one that was cut.
LEMMA BareStep ==
    ASSUME StoreInv, wpc = "write", part = "torn", part' = "bare", ExtendChunk("bare"),
           UNCHANGED <<now, exists, wpc, ts, segment, linked, made, pruneDay, todo>>
    PROVE  StoreInv' /\ [Log!LogNext]_<<now, Readable>> /\ FilesStep
<1> DEFINE n == Len(chunks[segment])
           e == [id |-> made, at |-> ts, done |-> FALSE]
<1>1. CASE ~linked
  <2>1. chunks' = chunks
    BY <1>1 DEF ExtendChunk
  <2>2. StoreInv'
    BY <1>1, <2>1
       DEF StoreInv, StoreTypeOK, Parts, WriterInv, ChunksInv, IdsInv, LineInv, PruneInv
  <2> QED
    BY <2>1, <2>2, SameReadable, SameFiles
<1>2. CASE linked
  <2>1. /\ segment \in Days /\ n \in DOMAIN chunks[segment] /\ n \in DOMAIN chunks'[segment]
        /\ Len(chunks'[segment]) = n /\ chunks'[segment] # <<>>
        /\ chunks[segment][n] = [id |-> made, at |-> ts, part |-> "torn"]
        /\ chunks'[segment][n] = [id |-> made, at |-> ts, part |-> "bare"]
        /\ Starts(chunks'[segment], n) <=> Starts(chunks[segment], n)
        /\ \A d \in Days : DOMAIN chunks'[d] = DOMAIN chunks[d]
        /\ \A d \in Days : \A i \in DOMAIN chunks[d] :
              \/ d = segment /\ i = n
              \/ /\ chunks'[d][i] = chunks[d][i]
                 /\ Decodes(chunks'[d], i) <=> Decodes(chunks[d], i)
                 /\ chunks[d][i].id < made /\ chunks[d][i].at <= ts
        /\ chunks' \in [Days -> Seq(Chunk)] /\ ChunksInv' /\ IdsInv'
    BY <1>2, ExtendOK
  <2>2. StoreInv'
    <3>1. StoreTypeOK'
      BY <2>1 DEF StoreInv, StoreTypeOK, Parts
    <3>2. WriterInv' /\ PruneInv'
      BY DEF StoreInv, WriterInv, PruneInv
    <3>3. LineInv'
      BY <1>2, <2>1 DEF LineInv
    <3> QED
      BY <2>1, <3>1, <3>2, <3>3 DEF StoreInv
  <2>3. /\ \A x : x \in Readable <=> IsEntry(chunks, x)
        /\ \A x : x \in Readable' <=> IsEntry(chunks', x)
    BY <2>2, ReadableNow, ReadableNext
  <2>4. ~Decodes(chunks[segment], n)
    BY <2>1 DEF Decodes
  <2>5. Decodes(chunks'[segment], n) <=> Starts(chunks[segment], n)
    BY <2>1 DEF Decodes
  <2>6. Entry(chunks'[segment][n]) = e
    <3>1. chunks'[segment][n] = [id |-> made, at |-> ts, part |-> "bare"] /\ "bare" # "whole"
      BY <2>1
    <3> QED
      BY <3>1, EntryOfUnfinished, Zenon
  <2>7. \A x : x \in Readable' <=> x \in Readable \/ (Starts(chunks[segment], n) /\ x = e)
    <3>1. ASSUME NEW x, IsEntry(chunks', x)
          PROVE  IsEntry(chunks, x) \/ (Starts(chunks[segment], n) /\ x = e)
      <4>1. PICK d \in Days : \E i \in DOMAIN chunks'[d] :
                Decodes(chunks'[d], i) /\ x = Entry(chunks'[d][i])
        BY <3>1 DEF IsEntry
      <4>2. PICK i \in DOMAIN chunks'[d] : Decodes(chunks'[d], i) /\ x = Entry(chunks'[d][i])
        BY <4>1
      <4>3. i \in DOMAIN chunks[d]
        BY <2>1
      <4>4. CASE d = segment /\ i = n
        BY <2>5, <2>6, <4>2, <4>4
      <4>5. CASE ~(d = segment /\ i = n)
        BY <2>1, <4>2, <4>3, <4>5 DEF IsEntry
      <4> QED
        BY <4>4, <4>5
    <3>2. ASSUME NEW x, IsEntry(chunks, x)
          PROVE  IsEntry(chunks', x)
      <4>1. PICK d \in Days : \E i \in DOMAIN chunks[d] :
                Decodes(chunks[d], i) /\ x = Entry(chunks[d][i])
        BY <3>2 DEF IsEntry
      <4>2. PICK i \in DOMAIN chunks[d] : Decodes(chunks[d], i) /\ x = Entry(chunks[d][i])
        BY <4>1
      <4> QED
        BY <2>1, <2>4, <4>2 DEF IsEntry
    <3>3. Starts(chunks[segment], n) => IsEntry(chunks', e)
      BY <2>1, <2>5, <2>6 DEF IsEntry
    <3> QED
      BY <2>3, <3>1, <3>2, <3>3
  <2>8. FilesStep
    <3>1. ASSUME NEW d \in Days, NEW i \in DOMAIN chunks[d]
          PROVE  /\ chunks'[d][i].id = chunks[d][i].id /\ chunks'[d][i].at = chunks[d][i].at
                 /\ Decodes(chunks'[d], i) => Decodes(chunks[d], i) \/ chunks[d][i].id = made
                 /\ chunks[d][i].part = "whole" => chunks'[d][i] = chunks[d][i]
      <4>1. CASE d = segment /\ i = n
        BY <2>1, <4>1
      <4>2. CASE ~(d = segment /\ i = n)
        BY <2>1, <4>2
      <4> QED
        BY <4>1, <4>2
    <3> QED
      BY <2>1, <3>1 DEF FilesStep
  <2>9. CASE Starts(chunks[segment], n)
    <3>1. ASSUME NEW r \in Readable PROVE r.id < made /\ r.at <= ts
      <4>1. PICK d \in Days : \E i \in DOMAIN chunks[d] :
                Decodes(chunks[d], i) /\ r = Entry(chunks[d][i])
        BY <2>3 DEF IsEntry
      <4>2. PICK i \in DOMAIN chunks[d] : Decodes(chunks[d], i) /\ r = Entry(chunks[d][i])
        BY <4>1
      <4>3. chunks[d][i].id < made /\ chunks[d][i].at <= ts
        BY <2>1, <2>4, <4>2
      <4> QED
        BY <4>2, <4>3 DEF Entry
    <3>2. Readable' = Readable \cup {e}
      <4> HIDE DEF e
      <4> QED
        BY <2>7, <2>9
    <3>3. e.id = made /\ e.at = ts /\ ts <= now /\ made \in Nat
      BY SnapshotStoreAssumption DEF StoreInv, WriterInv, StoreTypeOK
    <3> HIDE DEF e
    <3>4. Log!Write(e)
      BY <3>1, <3>2, <3>3 DEF Log!Write
    <3>5. e \in Readable' \ Readable
      <4>1. ~(made < made)
        BY <3>3
      <4> QED
        BY <3>1, <3>2, <3>3, <4>1
    <3>6. Log!LogNext
      BY <3>4, <3>5 DEF Log!LogNext
    <3> QED
      BY <2>8, <2>2, <3>6
  <2>10. CASE ~Starts(chunks[segment], n)
    <3>1. \A x : x \in Readable' <=> x \in Readable
      BY <2>7, <2>10
    <3>2. Readable' = Readable
      BY <3>1
    <3> QED
      BY <2>8, <2>2, <3>2
  <2> QED
    BY <2>9, <2>10, <2>8
<1> QED
  BY <1>1, <1>2

\* The newline is there: the snapshot that could be read is complete, if its
\* line is one.
LEMMA WholeStep ==
    ASSUME StoreInv, FinishWrite
    PROVE  StoreInv' /\ [Log!LogNext]_<<now, Readable>> /\ FilesStep
<1> DEFINE n == Len(chunks[segment])
           e == [id |-> made, at |-> ts, done |-> FALSE]
           full == [id |-> made, at |-> ts, done |-> TRUE]
<1>1. /\ wpc = "write" /\ part = "bare" /\ part' = "none" /\ wpc' = "idle" /\ ExtendChunk("whole")
      /\ UNCHANGED <<now, exists, ts, segment, linked, made, pruneDay, todo>>
  BY DEF FinishWrite, pruneVars
<1>2. CASE ~linked
  <2>1. chunks' = chunks
    BY <1>1, <1>2 DEF ExtendChunk
  <2>2. StoreInv'
    BY <1>1, <1>2, <2>1
       DEF StoreInv, StoreTypeOK, Parts, WriterInv, ChunksInv, IdsInv, LineInv, PruneInv
  <2> QED
    BY <1>1, <2>1, <2>2, SameReadable, SameFiles
<1>3. CASE linked
  <2>1. /\ segment \in Days /\ n \in DOMAIN chunks[segment] /\ n \in DOMAIN chunks'[segment]
        /\ Len(chunks'[segment]) = n /\ chunks'[segment] # <<>>
        /\ chunks[segment][n] = [id |-> made, at |-> ts, part |-> "bare"]
        /\ chunks'[segment][n] = [id |-> made, at |-> ts, part |-> "whole"]
        /\ Starts(chunks'[segment], n) <=> Starts(chunks[segment], n)
        /\ \A d \in Days : DOMAIN chunks'[d] = DOMAIN chunks[d]
        /\ \A d \in Days : \A i \in DOMAIN chunks[d] :
              \/ d = segment /\ i = n
              \/ /\ chunks'[d][i] = chunks[d][i]
                 /\ Decodes(chunks'[d], i) <=> Decodes(chunks[d], i)
                 /\ chunks[d][i].id < made /\ chunks[d][i].at <= ts
        /\ chunks' \in [Days -> Seq(Chunk)] /\ ChunksInv' /\ IdsInv'
    BY <1>1, <1>3, ExtendOK
  <2>2. StoreInv'
    <3>1. StoreTypeOK'
      BY <1>1, <2>1 DEF StoreInv, StoreTypeOK, Parts
    <3>2. WriterInv' /\ PruneInv' /\ LineInv'
      BY <1>1 DEF StoreInv, WriterInv, PruneInv, LineInv
    <3> QED
      BY <2>1, <3>1, <3>2 DEF StoreInv
  <2>3. /\ \A x : x \in Readable <=> IsEntry(chunks, x)
        /\ \A x : x \in Readable' <=> IsEntry(chunks', x)
    BY <2>2, ReadableNow, ReadableNext
  <2>4. Decodes(chunks[segment], n) <=> Starts(chunks[segment], n)
    BY <2>1 DEF Decodes
  <2>5. Decodes(chunks'[segment], n) <=> Starts(chunks[segment], n)
    BY <2>1 DEF Decodes
  <2>6. Entry(chunks[segment][n]) = e /\ Entry(chunks'[segment][n]) = full
    <3>1. /\ chunks[segment][n] = [id |-> made, at |-> ts, part |-> "bare"] /\ "bare" # "whole"
          /\ chunks'[segment][n] = [id |-> made, at |-> ts, part |-> "whole"]
      BY <2>1
    <3> QED
      BY <3>1, EntryOfUnfinished, EntryOfWhole, Zenon
  <2>7. made \in Nat
    BY SnapshotStoreAssumption DEF StoreInv, StoreTypeOK
  <2>8. \A d \in Days : \A i \in DOMAIN chunks[d] :
           ~(d = segment /\ i = n) => Entry(chunks[d][i]) # e
    <3>1. ASSUME NEW d \in Days, NEW i \in DOMAIN chunks[d], Entry(chunks[d][i]) = e,
                 ~(d = segment /\ i = n)
          PROVE  FALSE
      <4>1. chunks[d][i].id = made
        BY <3>1 DEF Entry
      <4>2. chunks[d][i].id < made
        BY <2>1, <3>1
      <4> QED
        BY <2>7, <4>1, <4>2
    <3> QED
      BY <3>1
  <2>9. \A x : x \in Readable' <=>
           (x \in Readable /\ x # e) \/ (Starts(chunks[segment], n) /\ x = full)
    <3>1. ASSUME NEW x, IsEntry(chunks', x)
          PROVE  (IsEntry(chunks, x) /\ x # e) \/ (Starts(chunks[segment], n) /\ x = full)
      <4>1. PICK d \in Days : \E i \in DOMAIN chunks'[d] :
                Decodes(chunks'[d], i) /\ x = Entry(chunks'[d][i])
        BY <3>1 DEF IsEntry
      <4>2. PICK i \in DOMAIN chunks'[d] : Decodes(chunks'[d], i) /\ x = Entry(chunks'[d][i])
        BY <4>1
      <4>3. i \in DOMAIN chunks[d]
        BY <2>1
      <4>4. CASE d = segment /\ i = n
        BY <2>5, <2>6, <4>2, <4>4
      <4>5. CASE ~(d = segment /\ i = n)
        <5>1. Decodes(chunks[d], i) /\ x = Entry(chunks[d][i])
          BY <2>1, <4>2, <4>3, <4>5
        <5> QED
          BY <2>8, <4>3, <4>5, <5>1 DEF IsEntry
      <4> QED
        BY <4>4, <4>5
    <3>2. ASSUME NEW x, IsEntry(chunks, x), x # e
          PROVE  IsEntry(chunks', x)
      <4>1. PICK d \in Days : \E i \in DOMAIN chunks[d] :
                Decodes(chunks[d], i) /\ x = Entry(chunks[d][i])
        BY <3>2 DEF IsEntry
      <4>2. PICK i \in DOMAIN chunks[d] : Decodes(chunks[d], i) /\ x = Entry(chunks[d][i])
        BY <4>1
      <4>3. ~(d = segment /\ i = n)
        BY <2>6, <3>2, <4>2
      <4>4. i \in DOMAIN chunks'[d] /\ Decodes(chunks'[d], i) /\ x = Entry(chunks'[d][i])
        BY <2>1, <4>2, <4>3
      <4> QED
        BY <4>4 DEF IsEntry
    <3>3. Starts(chunks[segment], n) => IsEntry(chunks', full)
      BY <2>1, <2>5, <2>6 DEF IsEntry
    <3> HIDE DEF e, full
    <3> QED
      BY <2>3, <3>1, <3>2, <3>3
  <2>10. FilesStep
    <3>1. ASSUME NEW d \in Days, NEW i \in DOMAIN chunks[d]
          PROVE  /\ chunks'[d][i].id = chunks[d][i].id /\ chunks'[d][i].at = chunks[d][i].at
                 /\ Decodes(chunks'[d], i) => Decodes(chunks[d], i)
                 /\ chunks[d][i].part = "whole" => chunks'[d][i] = chunks[d][i]
      <4>1. CASE d = segment /\ i = n
        BY <2>1, <2>4, <2>5, <4>1
      <4>2. CASE ~(d = segment /\ i = n)
        BY <2>1, <4>2
      <4> QED
        BY <4>1, <4>2
    <3> QED
      BY <2>1, <3>1 DEF FilesStep
  <2>11. CASE Starts(chunks[segment], n)
    <3>1. e \in Readable
      BY <2>1, <2>3, <2>4, <2>6, <2>11 DEF IsEntry
    <3>2. Readable' = (Readable \ {e}) \cup {full}
      <4> HIDE DEF e, full
      <4> QED
        BY <2>9, <2>11
    <3>3. ~e.done /\ [e EXCEPT !.done = TRUE] = full
      <4>1. ~e.done
        OBVIOUS
      <4>2. PICK x : x = [e EXCEPT !.done = TRUE]
        OBVIOUS
      <4>3. x = full
        BY <4>2, DoneField, Zenon
      <4> QED
        BY <4>1, <4>2, <4>3, Zenon
    <3> HIDE DEF e, full
    <3>4. Log!Finish(e)
      BY <1>1, <3>2, <3>3 DEF Log!Finish
    <3>5. Log!LogNext
      BY <3>1, <3>4 DEF Log!LogNext
    <3> QED
      BY <2>10, <2>2, <3>5
  <2>12. CASE ~Starts(chunks[segment], n)
    <3>1. ~IsEntry(chunks, e)
      BY <2>4, <2>8, <2>12 DEF IsEntry
    <3> HIDE DEF e, full
    <3>2. \A x : x \in Readable' <=> x \in Readable
      BY <2>3, <2>9, <2>12, <3>1
    <3>3. Readable' = Readable
      BY <3>2
    <3> QED
      BY <2>10, <1>1, <2>2, <3>3
  <2> QED
    BY <2>11, <2>12, <2>10
<1> QED
  BY <1>2, <1>3

-----------------------------------------------------------------------------
(* A file goes *)

LEMMA RemoveStep ==
    ASSUME StoreInv, NEW a \in Pruners, RemoveSegment(a)
    PROVE  StoreInv' /\ [Log!LogNext]_<<now, Readable>> /\ FilesStep
<1>1. PICK day \in todo[a] :
        /\ exists' = exists \ {day}
        /\ chunks' = [chunks EXCEPT ![day] = <<>>]
        /\ linked' = (linked /\ segment # day)
        /\ todo' = [todo EXCEPT ![a] = @ \ {day}]
        /\ UNCHANGED <<now, wpc, ts, segment, part, made, pruneDay>>
  BY DEF RemoveSegment
<1>2. day \in Days /\ day \in Nat
  BY DaysAreNats DEF StoreInv, StoreTypeOK
<1>3. chunks'[day] = <<>> /\ \A d \in Days \ {day} : chunks'[d] = chunks[d]
  BY <1>1, <1>2 DEF StoreInv, StoreTypeOK
<1>4. ASSUME NEW d \in Days, NEW i \in DOMAIN chunks'[d]
      PROVE  d # day /\ i \in DOMAIN chunks[d] /\ chunks'[d] = chunks[d]
  <2>1. d # day
    BY <1>3
  <2> QED
    BY <1>3, <2>1
<1>5. StoreTypeOK'
  <2>1. chunks' \in [Days -> Seq(Chunk)]
    <3>1. <<>> \in Seq(Chunk)
      OBVIOUS
    <3> QED
      BY <1>1, <1>2, <3>1 DEF StoreInv, StoreTypeOK
  <2>2. todo' \in [Pruners -> SUBSET Days] /\ exists' \subseteq Days
    BY <1>1 DEF StoreInv, StoreTypeOK
  <2>3. linked' \in BOOLEAN
    BY <1>1, Zenon
  <2> QED
    BY <1>1, <2>1, <2>2, <2>3 DEF StoreInv, StoreTypeOK
<1>6. linked' => linked /\ segment # day
  BY <1>1
<1>7. WriterInv'
  BY <1>1, <1>6 DEF StoreInv, WriterInv
<1>8. ChunksInv'
  <2>1. \A d \in Days : d \notin exists' => chunks'[d] = <<>>
    BY <1>1, <1>3 DEF StoreInv, ChunksInv
  <2> QED
    BY <1>1, <1>4, <2>1 DEF StoreInv, ChunksInv
<1>9. IdsInv'
  BY <1>4 DEF StoreInv, IdsInv
<1>10. LineInv'
  <2> SUFFICES ASSUME wpc' = "write"
               PROVE  LineInv'
    BY DEF LineInv
  <2>1. wpc = "write" /\ segment \in Days
    BY <1>1, DayInDays DEF StoreInv, WriterInv, StoreTypeOK
  <2>2. CASE part' # "none" /\ linked'
    <3>1. chunks'[segment] = chunks[segment] /\ linked /\ part # "none"
      BY <1>1, <1>3, <1>6, <2>1, <2>2
    <3> QED
      BY <1>1, <2>1, <2>2, <3>1 DEF StoreInv, LineInv
  <2>3. CASE part # "none" /\ linked /\ ~linked'
    <3>1. segment = day
      BY <1>1, <2>3
    <3>2. chunks[segment] # <<>> /\ chunks[segment][Len(chunks[segment])].id = made
      BY <2>1, <2>3 DEF StoreInv, LineInv
    <3>3. Len(chunks[segment]) \in DOMAIN chunks[segment]
      BY <2>1, <3>2 DEF StoreInv, StoreTypeOK
    <3>4. ASSUME NEW d \in Days, NEW i \in DOMAIN chunks'[d] PROVE chunks'[d][i].id < made'
      <4>1. d # segment /\ i \in DOMAIN chunks[d] /\ chunks'[d] = chunks[d]
        BY <1>4, <3>1
      <4>2. chunks[d][i].id # made
        BY <2>1, <3>2, <3>3, <4>1 DEF StoreInv, IdsInv
      <4>3. chunks[d][i].id \in Nat /\ made \in Nat /\ chunks[d][i].id <= made
        BY <4>1, ChunkType, SnapshotStoreAssumption DEF StoreInv, StoreTypeOK, ChunksInv
      <4> QED
        BY <1>1, <4>1, <4>2, <4>3
    <3> QED
      BY <2>3, <3>4 DEF LineInv
  <2>4. CASE ~(part # "none" /\ linked)
    <3>1. ~(part' # "none" /\ linked')
      BY <1>1, <1>6, <2>4
    <3>2. \A d \in Days : \A i \in DOMAIN chunks'[d] : chunks'[d][i].id < made'
      BY <1>1, <1>4, <2>1, <2>4 DEF StoreInv, LineInv
    <3> QED
      BY <3>1, <3>2 DEF LineInv
  <2> QED
    BY <1>1, <2>2, <2>3, <2>4
<1>11. PruneInv'
  BY <1>1 DEF StoreInv, StoreTypeOK, PruneInv
<1>12. StoreInv'
  BY <1>5, <1>7, <1>8, <1>9, <1>10, <1>11 DEF StoreInv
<1>13. /\ \A x : x \in Readable <=> IsEntry(chunks, x)
       /\ \A x : x \in Readable' <=> IsEntry(chunks', x)
  BY <1>12, ReadableNow, ReadableNext
<1>14. ASSUME NEW d \in Days, NEW i \in DOMAIN chunks[d]
       PROVE  DayOf(Entry(chunks[d][i]).at) = d
  BY DEF Entry, StoreInv, ChunksInv
<1>15. \A x : IsEntry(chunks', x) <=> IsEntry(chunks, x) /\ DayOf(x.at) # day
  <2>1. ASSUME NEW x, IsEntry(chunks', x)
        PROVE  IsEntry(chunks, x) /\ DayOf(x.at) # day
    <3>1. PICK d \in Days : \E i \in DOMAIN chunks'[d] :
              Decodes(chunks'[d], i) /\ x = Entry(chunks'[d][i])
      BY <2>1 DEF IsEntry
    <3>2. PICK i \in DOMAIN chunks'[d] : Decodes(chunks'[d], i) /\ x = Entry(chunks'[d][i])
      BY <3>1
    <3>3. d # day /\ i \in DOMAIN chunks[d] /\ chunks'[d] = chunks[d]
      BY <1>4
    <3> QED
      BY <1>14, <3>2, <3>3 DEF IsEntry
  <2>2. ASSUME NEW x, IsEntry(chunks, x), DayOf(x.at) # day
        PROVE  IsEntry(chunks', x)
    <3>1. PICK d \in Days : \E i \in DOMAIN chunks[d] :
              Decodes(chunks[d], i) /\ x = Entry(chunks[d][i])
      BY <2>2 DEF IsEntry
    <3>2. PICK i \in DOMAIN chunks[d] : Decodes(chunks[d], i) /\ x = Entry(chunks[d][i])
      BY <3>1
    <3>3. d # day
      BY <1>14, <2>2, <3>2
    <3>4. chunks'[d] = chunks[d]
      BY <1>3, <3>3
    <3> QED
      BY <3>2, <3>4 DEF IsEntry
  <2> QED
    BY <2>1, <2>2
<1>16. Readable' = {x \in Readable : DayOf(x.at) # day}
  BY <1>13, <1>15
<1>17. FilesStep
  <2>1. ASSUME NEW d \in Days, NEW i \in DOMAIN chunks[d]
        PROVE  \/ chunks'[d] = chunks[d]
               \/ (d + 1) * DayTicks + ShortestRetention < now
    <3>1. CASE d = day
      <4>1. (day + 1) * DayTicks + Keep[a] < now
        BY <1>1 DEF StoreInv, PruneInv
      <4>2. (day + 1) * DayTicks \in Nat /\ now \in Nat
        BY <1>2, SnapshotStoreAssumption DEF StoreInv, StoreTypeOK
      <4> QED
        BY <3>1, <4>1, <4>2, KeepBounds
    <3>2. CASE d # day
      BY <1>3, <3>2
    <3> QED
      BY <3>1, <3>2
  <2> QED
    BY <1>4, <2>1 DEF FilesStep
<1>18. CASE \E x \in Readable : DayOf(x.at) = day
  <2>1. (day + 1) * DayTicks + ShortestRetention < now
    <3>1. (day + 1) * DayTicks + Keep[a] < now
      BY <1>1 DEF StoreInv, PruneInv
    <3>2. (day + 1) * DayTicks \in Nat /\ now \in Nat
      BY <1>2, SnapshotStoreAssumption DEF StoreInv, StoreTypeOK
    <3> QED
      BY <3>1, <3>2, KeepBounds
  <2>2. Log!Expire(day)
    BY <1>1, <1>16, <2>1 DEF Log!Expire, Log!Expired, Log!DayOf, DayOf
  <2>3. day \in {Log!DayOf(x.at) : x \in Readable}
    BY <1>18 DEF Log!DayOf, DayOf
  <2>4. Log!LogNext
    BY <2>2, <2>3 DEF Log!LogNext
  <2> QED
    BY <1>17, <1>12, <2>4
<1>19. CASE ~\E x \in Readable : DayOf(x.at) = day
  <2>1. Readable' = Readable
    BY <1>16, <1>19
  <2> QED
    BY <1>17, <1>1, <1>12, <2>1
<1> QED
  BY <1>18, <1>19, <1>17

-----------------------------------------------------------------------------
(* The store implements SnapshotLog *)

LEMMA InitHolds == Init => StoreInv /\ Log!LogInit
<1> SUFFICES ASSUME Init
             PROVE  StoreInv /\ Log!LogInit
  OBVIOUS
<1> USE SnapshotStoreAssumption
<1>1. StoreTypeOK
  <2>1. 0 \in Days
    BY DayInDays, DayBounds DEF Days, DayOf
  <2>2. chunks \in [Days -> Seq(Chunk)]
    BY DEF Init
  <2>3. linked \in BOOLEAN
    BY Zenon DEF Init
  <2> QED
    BY <2>1, <2>2, <2>3 DEF Init, StoreTypeOK, Parts
<1>2. \A d \in Days : chunks[d] = <<>>
  BY DEF Init
<1>3. WriterInv /\ LineInv
  BY <1>1 DEF Init, StoreTypeOK, WriterInv, LineInv
<1>4. ChunksInv /\ IdsInv
  BY <1>2 DEF ChunksInv, IdsInv
<1>5. PruneInv
  BY DEF Init, PruneInv
<1>6. StoreInv
  BY <1>1, <1>3, <1>4, <1>5 DEF StoreInv
<1>7. Readable = {}
  BY <1>2, <1>6, ReadableNow DEF IsEntry
<1> QED
  BY <1>6, <1>7 DEF Init, Log!LogInit

LEMMA StepHolds == StoreInv /\ [Next]_vars => StoreInv' /\ [Log!LogNext]_<<now, Readable>> /\ FilesStep
<1> SUFFICES ASSUME StoreInv, [Next]_vars
             PROVE  StoreInv' /\ [Log!LogNext]_<<now, Readable>> /\ FilesStep
  OBVIOUS
<1>1. CASE WriteSome
  <2>1. /\ wpc = "write"
        /\ \/ part = "none" /\ part' = "torn" /\ AppendChunk("torn")
           \/ part = "torn" /\ part' = "bare" /\ ExtendChunk("bare")
        /\ UNCHANGED <<now, exists, wpc, ts, segment, linked, made, pruneDay, todo>>
    BY <1>1 DEF WriteSome, pruneVars
  <2> QED
    BY <2>1, TornStep, BareStep
<1>2. CASE FinishWrite
  BY <1>2, WholeStep
<1>3. ASSUME NEW a \in Pruners, RemoveSegment(a)
      PROVE  StoreInv' /\ [Log!LogNext]_<<now, Readable>> /\ FilesStep
  BY <1>3, RemoveStep
<1>4. CASE /\ \/ StartDaemon \/ BeginCapture \/ FailCapture \/ OpenSegment \/ FailWrite \/ StopDaemon
              \/ \E a \in Pruners : BeginPrune(a)
              \/ BeginLoad \/ IndexNext \/ FailLoad \/ FinishLoad
              \/ UNCHANGED vars
  <2>1. StoreInv' /\ chunks' = chunks
    BY <1>4, QuietKeeps
  <2>2. now' = now
    BY <1>4 DEF StartDaemon, BeginCapture, FailCapture, OpenSegment, FailWrite, StopDaemon,
                BeginPrune, BeginLoad, IndexNext, FailLoad, FinishLoad, vars
  <2> QED
    BY <2>1, <2>2, SameReadable, SameFiles
<1>5. CASE Tick
  <2>1. StoreInv' /\ Readable' = Readable /\ FilesStep
    BY <1>5, QuietKeeps, SameReadable, SameFiles
  <2>2. now' > now
    BY <1>5, SnapshotStoreAssumption DEF Tick, StoreInv, StoreTypeOK
  <2>3. Log!LogNext
    BY <2>1, <2>2 DEF Log!LogNext, Log!PassTime
  <2> QED
    BY <2>1, <2>3
<1> QED
  BY <1>1, <1>2, <1>3, <1>4, <1>5 DEF Next, DaemonStep

\* internal/history implements SnapshotLog for every length of day, retention
\* and number of captures: what a reader can find only grows by the newest
\* snapshot, and one written to its end stays until its whole day has expired,
\* whatever crashes, failed writes, rotations, prunes and loads come between.
THEOREM StoreImplementsLog == Spec => ImplementsLog
<1>1. Init => StoreInv /\ Log!LogInit
  BY InitHolds
<1>2. StoreInv /\ [Next]_vars => StoreInv' /\ [Log!LogNext]_<<now, Readable>>
  BY StepHolds
<1> QED
  BY <1>1, <1>2, PTL DEF Spec, ImplementsLog, Log!LogSpec

-----------------------------------------------------------------------------
(* Sorting: what InOrder returns *)

\* A set of numbers that has 0 and the successor of each of its members has all.
LEMMA NatInductionSet ==
    ASSUME NEW T, 0 \in T, \A n \in Nat : n \in T => n + 1 \in T
    PROVE  Nat \subseteq T
<1> DEFINE R == OpToRel(<, Nat)
           Left == Nat \ T
<1>1. SUFFICES ASSUME Left # {} PROVE FALSE
  OBVIOUS
<1>2. PICK x \in Left : \A y \in Left : ~(<<y, x>> \in R)
  <2>1. IsWellFoundedOn(R, Nat)
    BY NatLessThanWellFounded, Zenon
  <2> HIDE DEF R
  <2> QED
    BY <1>1, <2>1, WFMin
<1>3. \A y \in Left : ~(y < x)
  BY <1>2 DEF OpToRel
<1>4. x # 0 /\ x - 1 \in Nat
  OBVIOUS
<1>5. x - 1 \in Left
  <2>1. x - 1 \notin T
    <3>1. (x - 1) + 1 = x
      OBVIOUS
    <3> QED
      BY <1>4, <3>1
  <2> QED
    BY <1>4, <2>1
<1> QED
  BY <1>3, <1>5

\* A finite set whose members Before puts in a strict line has a last one.
LEMMA LastOf ==
    ASSUME NEW S,
           \A r, s, t \in S : Before(r, s) /\ Before(s, t) => Before(r, t),
           \A r, s \in S : r # s => Before(r, s) \/ Before(s, r)
    PROVE  \A U \in SUBSET S : IsFiniteSet(U) /\ U # {} =>
              \E last \in U : \A r \in U \ {last} : Before(r, last)
<1> DEFINE Has(U) == \E last \in U : \A r \in U \ {last} : Before(r, last)
           T == {n \in Nat : \A U \in SUBSET S :
                    IsFiniteSet(U) /\ U # {} /\ Cardinality(U) = n => Has(U)}
<1>1. 0 \in T
  BY FS_EmptySet
<1>2. ASSUME NEW n \in Nat, n \in T PROVE n + 1 \in T
  <2> SUFFICES ASSUME NEW U \in SUBSET S, IsFiniteSet(U), U # {}, Cardinality(U) = n + 1
               PROVE  Has(U)
    OBVIOUS
  <2>1. PICK x \in U : TRUE
    OBVIOUS
  <2> DEFINE V == U \ {x}
  <2>2. IsFiniteSet(V) /\ Cardinality(V) = n /\ V \in SUBSET S
    <3>1. IsFiniteSet(V) /\ Cardinality(V) = Cardinality(U) - 1
      BY FS_RemoveElement, Zenon
    <3> QED
      BY <3>1
  <2>3. CASE V = {}
    <3>1. U = {x}
      BY <2>3
    <3> QED
      BY <3>1
  <2>4. CASE V # {}
    <3>1. PICK m \in V : \A r \in V \ {m} : Before(r, m)
      BY <1>2, <2>2, <2>4
    <3>2. m # x /\ m \in S /\ x \in S /\ m \in U
      OBVIOUS
    <3>3. CASE Before(x, m)
      <4>1. \A r \in U \ {m} : Before(r, m)
        BY <3>1, <3>3
      <4> QED
        BY <3>2, <4>1
    <3>4. CASE Before(m, x)
      <4>1. \A r \in U \ {x} : Before(r, x)
        BY <3>1, <3>2, <3>4
      <4> QED
        BY <4>1
    <3> QED
      BY <3>2, <3>3, <3>4
  <2> QED
    BY <2>3, <2>4
<1>3. Nat \subseteq T
  <2> HIDE DEF T
  <2> QED
    BY <1>1, <1>2, NatInductionSet
<1> QED
  <2> TAKE U \in SUBSET S
  <2> HAVE IsFiniteSet(U) /\ U # {}
  <2>1. Cardinality(U) \in Nat
    BY FS_CardinalityType
  <2>2. Cardinality(U) \in T
    BY <1>3, <2>1
  <2> QED
    BY <2>2

\* So it can be put in that order.
LEMMA OrderExists ==
    ASSUME NEW S,
           \A r, s, t \in S : Before(r, s) /\ Before(s, t) => Before(r, t),
           \A r, s \in S : r # s => Before(r, s) \/ Before(s, r),
           IsFiniteSet(S)
    PROVE  \E f \in Bijection(1 .. Cardinality(S), S) :
              \A i, j \in DOMAIN f : i < j => Before(f[i], f[j])
<1> DEFINE Ordered(U, n) == \E f \in Bijection(1 .. n, U) :
                               \A i, j \in DOMAIN f : i < j => Before(f[i], f[j])
           T == {n \in Nat : \A U \in SUBSET S : IsFiniteSet(U) /\ Cardinality(U) = n => Ordered(U, n)}
<1>1. 0 \in T
  <2>1. ASSUME NEW U, U = {} PROVE Ordered(U, 0)
    <3> DEFINE f == [i \in 1 .. 0 |-> i]
    <3>1. 1 .. 0 = {}
      OBVIOUS
    <3>2. f \in Bijection(1 .. 0, U) /\ DOMAIN f = {}
      BY <2>1, <3>1 DEF Bijection, Injection, Surjection, IsInjective
    <3> HIDE DEF f
    <3> QED
      BY <3>2
  <2>2. \A U : IsFiniteSet(U) /\ Cardinality(U) = 0 => U = {}
    BY FS_EmptySet
  <2> HIDE DEF Ordered
  <2> QED
    BY <2>1, <2>2
<1>2. ASSUME NEW n \in Nat, n \in T PROVE n + 1 \in T
  <2> SUFFICES ASSUME NEW U \in SUBSET S, IsFiniteSet(U), Cardinality(U) = n + 1
               PROVE  Ordered(U, n + 1)
    OBVIOUS
  <2>1. PICK m \in U : \A r \in U \ {m} : Before(r, m)
    <3>1. U # {}
      BY FS_EmptySet
    <3>2. \A W \in SUBSET S : IsFiniteSet(W) /\ W # {} =>
             \E last \in W : \A r \in W \ {last} : Before(r, last)
      BY LastOf, Zenon
    <3> QED
      BY <3>1, <3>2
  <2> DEFINE V == U \ {m}
  <2>2. IsFiniteSet(V) /\ Cardinality(V) = n /\ V \in SUBSET S
    <3>1. IsFiniteSet(V) /\ Cardinality(V) = Cardinality(U) - 1
      BY FS_RemoveElement, Zenon
    <3> QED
      BY <3>1
  <2>3. PICK g \in Bijection(1 .. n, V) : \A i, j \in DOMAIN g : i < j => Before(g[i], g[j])
    BY <1>2, <2>2
  <2>4. /\ DOMAIN g = 1 .. n
        /\ \A i \in 1 .. n : g[i] \in V
        /\ \A i, j \in 1 .. n : g[i] = g[j] => i = j
        /\ \A v \in V : \E i \in 1 .. n : g[i] = v
    BY <2>3 DEF Bijection, Injection, Surjection, IsInjective
  <2> DEFINE f == [i \in 1 .. n + 1 |-> IF i = n + 1 THEN m ELSE g[i]]
  <2>5. /\ DOMAIN f = 1 .. n + 1 /\ f[n + 1] = m
        /\ \A i \in 1 .. n + 1 : i # n + 1 => f[i] = g[i] /\ i \in 1 .. n
        /\ \A i \in 1 .. n : f[i] = g[i] /\ i \in 1 .. n + 1
        /\ f \in [1 .. n + 1 -> U]
    BY <2>4
  <2> HIDE DEF f
  <2>6. f \in Bijection(1 .. n + 1, U)
    <3>1. \A i, j \in 1 .. n + 1 : f[i] = f[j] => i = j
      BY <2>4, <2>5
    <3>2. \A u \in U : \E i \in 1 .. n + 1 : f[i] = u
      BY <2>4, <2>5
    <3> QED
      BY <2>5, <3>1, <3>2 DEF Bijection, Injection, Surjection, IsInjective
  <2>7. \A i, j \in DOMAIN f : i < j => Before(f[i], f[j])
    <3> SUFFICES ASSUME NEW i \in 1 .. n + 1, NEW j \in 1 .. n + 1, i < j
                 PROVE  Before(f[i], f[j])
      BY <2>5
    <3>1. i # n + 1 /\ f[i] = g[i] /\ i \in 1 .. n
      BY <2>5
    <3>2. CASE j = n + 1
      BY <2>1, <2>4, <2>5, <3>1, <3>2
    <3>3. CASE j # n + 1
      BY <2>3, <2>4, <2>5, <3>1, <3>3
    <3> QED
      BY <3>2, <3>3
  <2> QED
    BY <2>6, <2>7
<1>3. Nat \subseteq T
  <2> HIDE DEF T
  <2> QED
    BY <1>1, <1>2, NatInductionSet
<1>4. Cardinality(S) \in T /\ S \in SUBSET S
  BY <1>3, FS_CardinalityType
<1> QED
  BY <1>4

LEMMA RefType ==
    ASSUME NEW r \in Ref
    PROVE  /\ r.day \in Days /\ r.pos \in Ids /\ r.id \in Ids /\ r.at \in 0 .. MaxTime
           /\ r.day \in Nat /\ r.pos \in Nat /\ r.id \in Nat /\ r.at \in Nat
<1>1. r.day \in Days /\ r.pos \in Ids /\ r.id \in Ids /\ r.at \in 0 .. MaxTime
  BY DEF Ref
<1>2. Ids \subseteq Nat /\ 0 .. MaxTime \subseteq Nat
  BY SnapshotStoreAssumption DEF Ids
<1> QED
  BY <1>1, <1>2, DaysAreNats

LEMMA InOrderSorts ==
    ASSUME NEW S \in SUBSET Ref, IsFiniteSet(S),
           \A r, s \in S : r # s => Before(r, s) \/ Before(s, r)
    PROVE  /\ InOrder(S) \in Seq(S)
           /\ {InOrder(S)[i] : i \in DOMAIN InOrder(S)} = S
           /\ \A i, j \in DOMAIN InOrder(S) : i < j => Before(InOrder(S)[i], InOrder(S)[j])
<1>1. \A r \in S : r.at \in Nat /\ r.day \in Nat /\ r.pos \in Nat
  BY RefType
<1>2. \A r, s, t \in S : Before(r, s) /\ Before(s, t) => Before(r, t)
  BY <1>1 DEF Before
<1>3. \E f \in Bijection(1 .. Cardinality(S), S) :
         \A i, j \in DOMAIN f : i < j => Before(f[i], f[j])
  BY <1>2, OrderExists
<1>4. /\ InOrder(S) \in Bijection(1 .. Cardinality(S), S)
      /\ \A i, j \in DOMAIN InOrder(S) : i < j => Before(InOrder(S)[i], InOrder(S)[j])
  BY <1>3 DEF InOrder
<1> DEFINE f == InOrder(S)
           n == Cardinality(S)
<1>5. n \in Nat
  BY FS_CardinalityType
<1>6. f \in [1 .. n -> S] /\ \A r \in S : \E i \in 1 .. n : f[i] = r
  BY <1>4 DEF Bijection, Surjection
<1> HIDE DEF f, n
<1>7. f \in Seq(S) /\ {f[i] : i \in DOMAIN f} = S
  BY <1>5, <1>6
<1> QED
  BY <1>4, <1>7 DEF f

-----------------------------------------------------------------------------
(* The strengthening, for the index and the counts *)

IndexTypeOK ==
    /\ lpc \in {"idle", "load"}
    /\ ltodo \subseteq Days
    /\ lrefs \subseteq Ref /\ IsFiniteSet(lrefs)
    /\ refs \in Seq(Ref)
    /\ appended \subseteq [id : Ids, at : 0 .. MaxTime]
    /\ cuts \in Nat
    /\ atBegin \subseteq Ids

\* Of two records the later is not older.
Agree(r, s) ==
    /\ r.id < s.id => r.at <= s.at
    /\ s.id < r.id => s.at <= r.at
    /\ r.id = s.id => r.at = s.at

\* Records are written in the order of their ids, in all files and in each.
FileOrder ==
    /\ \A d, e \in Days : \A i \in DOMAIN chunks[d], j \in DOMAIN chunks[e] :
          Agree(chunks[d][i], chunks[e][j])
    /\ \A d \in Days : \A i, j \in DOMAIN chunks[d] : i < j => chunks[d][i].id < chunks[d][j].id
    /\ \A d \in Days : \A i \in DOMAIN chunks[d] : i <= chunks[d][i].id

Young(t) == t + ShortestRetention >= now

\* The writer's file loses its name only when its day has expired.
UnlinkedInv ==
    segment # NoDay /\ ~linked => (segment + 1) * DayTicks + ShortestRetention < now

\* A ref to a young record still points to it.
Held(r) ==
    /\ DayOf(r.at) = r.day
    /\ Young(r.at) => r.pos \in DOMAIN chunks[r.day] /\ chunks[r.day][r.pos].id = r.id

HeldInv == \A r \in lrefs \cup {refs[i] : i \in DOMAIN refs} : Held(r)

SortedInv ==
    \A i, j \in DOMAIN refs : i < j => refs[i].at <= refs[j].at /\ refs[i].id < refs[j].id

\* What the writer's line may still become is new to a load under way.
Fresh(x) == x <= made /\ (wpc = "write" /\ part \in {"none", "torn"} => x < made)

\* The refs of a load agree with one another, with the files and the writer.
LoadInv ==
    /\ \A r, s \in lrefs : Agree(r, s) /\ (r.day = s.day => (r.pos < s.pos <=> r.id < s.id))
    /\ \A r \in lrefs :
          /\ r.day \notin ltodo
          /\ Fresh(r.id) /\ r.at <= now /\ (wpc # "down" => r.at <= ts)
          /\ \A d \in Days : \A i \in DOMAIN chunks[d] : Agree(r, chunks[d][i])

\* What could be read when the load began, and still can, is indexed or in a
\* file that has its turn yet.
BeginInv ==
    /\ \A x \in atBegin : Fresh(x)
    /\ \A d \in Days : \A i \in DOMAIN chunks[d] :
          Decodes(chunks[d], i) /\ chunks[d][i].id \in atBegin =>
             d \in ltodo \/ \E r \in lrefs : r.id = chunks[d][i].id

IndexInv == IndexTypeOK /\ FileOrder /\ UnlinkedInv /\ HeldInv /\ SortedInv /\ LoadInv /\ BeginInv

\* An appended record is in its file, whole, while it is young.
AppendedInv ==
    \A x \in appended : Young(x.at) =>
        \E i \in DOMAIN chunks[DayOf(x.at)] :
           chunks[DayOf(x.at)][i] = [id |-> x.id, at |-> x.at, part |-> "whole"]

\* Chunks whose line was cut, or is being written.
Cut == {p \in Days \X Ids : p[2] \in DOMAIN chunks[p[1]] /\ chunks[p[1]][p[2]].part # "whole"}

Writing == part # "none" /\ linked

CutInv == Cardinality(Cut) <= cuts + (IF Writing THEN 1 ELSE 0)

-----------------------------------------------------------------------------
(* What the writer does to its ids and times *)

WriterStep ==
    /\ made <= made' /\ now <= now'
    /\ wpc' # "down" => IF wpc = "down" THEN ts' = now ELSE ts <= ts'
    /\ wpc' = "write" => IF wpc = "write"
                         THEN made' = made /\ (part' \in {"none", "torn"} => part \in {"none", "torn"})
                         ELSE made < made'

LEMMA StoreNats ==
    ASSUME StoreInv
    PROVE  made \in Nat /\ now \in Nat /\ ts \in Nat /\ ts <= now
  BY SnapshotStoreAssumption DEF StoreInv, StoreTypeOK, WriterInv

LEMMA StoreNatsNext ==
    ASSUME StoreInv'
    PROVE  made' \in Nat /\ now' \in Nat /\ ts' \in Nat /\ ts' <= now'
  BY SnapshotStoreAssumption DEF StoreInv, StoreTypeOK, WriterInv

LEMMA WriterSteps ==
    ASSUME StoreInv, [Next]_vars
    PROVE  WriterStep
<1> USE StoreNats DEF WriterStep, pruneVars, loadVars, writerVars
<1>1. CASE StartDaemon
  BY <1>1 DEF StartDaemon
<1>2. CASE BeginCapture
  BY <1>2 DEF BeginCapture
<1>3. CASE FailCapture
  BY <1>3 DEF FailCapture
<1>4. CASE OpenSegment
  BY <1>4 DEF OpenSegment
<1>5. CASE WriteSome
  BY <1>5 DEF WriteSome
<1>6. CASE FinishWrite
  BY <1>6 DEF FinishWrite
<1>7. CASE FailWrite
  BY <1>7 DEF FailWrite
<1>8. CASE StopDaemon
  BY <1>8 DEF StopDaemon
<1>9. ASSUME NEW a \in Pruners, BeginPrune(a) \/ RemoveSegment(a) PROVE WriterStep
  BY <1>9 DEF BeginPrune, RemoveSegment
<1>10. CASE BeginLoad \/ IndexNext \/ FailLoad \/ FinishLoad
  BY <1>10 DEF BeginLoad, IndexNext, FailLoad, FinishLoad
<1>11. CASE Tick
  BY <1>11 DEF Tick
<1>12. CASE UNCHANGED vars
  BY <1>12 DEF vars
<1> QED
  BY <1>1, <1>2, <1>3, <1>4, <1>5, <1>6, <1>7, <1>8, <1>9, <1>10, <1>11, <1>12 DEF Next, DaemonStep

\* The ids and times in the files are numbers, after a step as before it.
LEMMA FilesNumbers ==
    ASSUME StoreInv, FilesStep, NEW d \in Days, NEW i \in DOMAIN chunks'[d]
    PROVE  chunks'[d][i].id \in Nat /\ chunks'[d][i].at \in Nat
<1>1. i \in DOMAIN chunks[d] => chunks[d][i].id \in Nat /\ chunks[d][i].at \in Nat
  BY ChunkType, SnapshotStoreAssumption DEF StoreInv
<1> QED
  BY <1>1, StoreNats DEF FilesStep

-----------------------------------------------------------------------------
(* The order of the records survives every step *)

LEMMA NewChunk ==
    ASSUME StoreInv, FilesStep, FileOrder, NEW d \in Days, NEW i \in DOMAIN chunks'[d],
           i \notin DOMAIN chunks[d]
    PROVE  /\ wpc = "write" /\ part = "none" /\ d = segment /\ i = Len(chunks[d]) + 1
           /\ chunks'[d][i].id = made /\ chunks'[d][i].at = ts
           /\ ~Decodes(chunks'[d], i)
           /\ i <= made
           /\ \A e \in Days : \A j \in DOMAIN chunks[e] :
                 chunks[e][j].id < made /\ chunks[e][j].at <= ts
<1>1. /\ wpc = "write" /\ part = "none" /\ d = segment /\ i = Len(chunks[d]) + 1
      /\ chunks'[d][i].id = made /\ chunks'[d][i].at = ts
      /\ ~Decodes(chunks'[d], i)
  BY DEF FilesStep
<1>2. \A e \in Days : \A j \in DOMAIN chunks[e] :
         chunks[e][j].id < made /\ chunks[e][j].at <= ts
  BY <1>1 DEF StoreInv, LineInv, ChunksInv
<1>3. i <= made
  <2>1. chunks[d] \in Seq(Chunk) /\ Len(chunks[d]) \in Nat /\ DOMAIN chunks[d] = 1 .. Len(chunks[d])
    BY DEF StoreInv, StoreTypeOK
  <2>2. made \in Nat /\ made # 0
    BY <1>1, StoreNats DEF StoreInv, WriterInv
  <2>3. CASE Len(chunks[d]) = 0
    BY <1>1, <2>2, <2>3
  <2>4. CASE Len(chunks[d]) # 0
    <3> DEFINE n == Len(chunks[d])
    <3>1. n \in DOMAIN chunks[d]
      BY <2>1, <2>4
    <3>2. n <= chunks[d][n].id /\ chunks[d][n].id < made /\ chunks[d][n].id \in Nat
      BY <1>2, <3>1, ChunkType DEF FileOrder, StoreInv
    <3> QED
      BY <1>1, <2>1, <2>2, <3>2
  <2> QED
    BY <2>3, <2>4
<1> QED
  BY <1>1, <1>2, <1>3

LEMMA FileOrderKept ==
    ASSUME StoreInv, FilesStep, FileOrder
    PROVE  FileOrder'
<1>1. ASSUME NEW d \in Days, NEW i \in DOMAIN chunks'[d], i \in DOMAIN chunks[d]
      PROVE  /\ chunks'[d][i].id = chunks[d][i].id /\ chunks'[d][i].at = chunks[d][i].at
             /\ chunks[d][i].id \in Nat /\ chunks[d][i].at \in Nat
  <2>1. chunks[d][i].id \in Nat /\ chunks[d][i].at \in Nat /\ Len(chunks[d]) \in Nat /\ i \in 1 .. Len(chunks[d])
    BY <1>1, ChunkType, SnapshotStoreAssumption DEF StoreInv
  <2>2. i # Len(chunks[d]) + 1
    BY <2>1
  <2> QED
    BY <2>1, <2>2 DEF FilesStep
<1>2. ASSUME NEW d \in Days, NEW e \in Days, NEW i \in DOMAIN chunks'[d], NEW j \in DOMAIN chunks'[e]
      PROVE  Agree(chunks'[d][i], chunks'[e][j])
  <2>1. CASE i \in DOMAIN chunks[d] /\ j \in DOMAIN chunks[e]
    BY <1>1, <2>1 DEF FileOrder, Agree
  <2>2. CASE i \in DOMAIN chunks[d] /\ j \notin DOMAIN chunks[e]
    BY <1>1, <2>2, NewChunk, StoreNats DEF Agree
  <2>3. CASE i \notin DOMAIN chunks[d] /\ j \in DOMAIN chunks[e]
    BY <1>1, <2>3, NewChunk, StoreNats DEF Agree
  <2>4. CASE i \notin DOMAIN chunks[d] /\ j \notin DOMAIN chunks[e]
    BY <2>4, NewChunk, StoreNats DEF Agree
  <2> QED
    BY <2>1, <2>2, <2>3, <2>4
<1>3. ASSUME NEW d \in Days, NEW i \in DOMAIN chunks'[d], NEW j \in DOMAIN chunks'[d], i < j
      PROVE  chunks'[d][i].id < chunks'[d][j].id
  <2>1. /\ Len(chunks[d]) \in Nat /\ DOMAIN chunks[d] = 1 .. Len(chunks[d])
    BY DEF StoreInv, StoreTypeOK
  <2>2. CASE i \in DOMAIN chunks[d] /\ j \in DOMAIN chunks[d]
    BY <1>1, <1>3, <2>2 DEF FileOrder
  <2>3. CASE i \in DOMAIN chunks[d] /\ j \notin DOMAIN chunks[d]
    BY <1>1, <2>3, NewChunk
  <2>4. CASE i \notin DOMAIN chunks[d] /\ j \in DOMAIN chunks[d]
    <3>1. i = Len(chunks[d]) + 1
      BY <2>4, NewChunk
    <3> QED
      BY <1>3, <2>1, <2>4, <3>1
  <2>5. CASE i \notin DOMAIN chunks[d] /\ j \notin DOMAIN chunks[d]
    <3>1. i = Len(chunks[d]) + 1 /\ j = Len(chunks[d]) + 1
      BY <2>5, NewChunk
    <3> QED
      BY <1>3, <2>1, <3>1
  <2> QED
    BY <2>2, <2>3, <2>4, <2>5
<1>4. ASSUME NEW d \in Days, NEW i \in DOMAIN chunks'[d]
      PROVE  i <= chunks'[d][i].id
  <2>1. CASE i \in DOMAIN chunks[d]
    BY <1>1, <2>1 DEF FileOrder
  <2>2. CASE i \notin DOMAIN chunks[d]
    BY <2>2, NewChunk
  <2> QED
    BY <2>1, <2>2
<1> QED
  BY <1>2, <1>3, <1>4 DEF FileOrder

\* A day that has expired stays expired, and holds no young record.
LEMMA ExpiredIsOld ==
    ASSUME StoreInv, StoreInv', WriterStep, NEW d \in Days,
           (d + 1) * DayTicks + ShortestRetention < now
    PROVE  /\ (d + 1) * DayTicks + ShortestRetention < now'
           /\ \A t \in Nat : DayOf(t) = d => ~Young(t) /\ ~Young(t)'
<1>1. (d + 1) * DayTicks \in Nat /\ ShortestRetention \in Nat
  BY DaysAreNats, KeepBounds, SnapshotStoreAssumption
<1>2. now \in Nat /\ now' \in Nat /\ now <= now'
  BY StoreNats, StoreNatsNext DEF WriterStep
<1>3. \A t \in Nat : DayOf(t) = d => t < (d + 1) * DayTicks
  BY DayBounds
<1> QED
  BY <1>1, <1>2, <1>3 DEF Young

LEMMA UnlinkedKept ==
    ASSUME StoreInv, StoreInv', UnlinkedInv, [Next]_vars
    PROVE  UnlinkedInv'
<1>1. WriterStep
  BY WriterSteps
<1>2. ASSUME segment' = segment, segment # NoDay, ~linked
      PROVE  (segment' + 1) * DayTicks + ShortestRetention < now'
  BY <1>1, <1>2, ExpiredIsOld DEF UnlinkedInv, StoreInv, StoreTypeOK
<1>3. ASSUME NEW a \in Pruners, RemoveSegment(a), segment # NoDay, linked, ~linked'
      PROVE  (segment' + 1) * DayTicks + ShortestRetention < now'
  <2>1. PICK d \in todo[a] : linked' = (linked /\ segment # d) /\ UNCHANGED <<now, segment>>
    BY <1>3 DEF RemoveSegment
  <2>2. segment = d
    BY <1>3, <2>1
  <2>3. (d + 1) * DayTicks + Keep[a] < now /\ d \in Nat
    BY DaysAreNats DEF StoreInv, StoreTypeOK, PruneInv
  <2>4. (d + 1) * DayTicks \in Nat /\ now \in Nat
    BY <2>3, SnapshotStoreAssumption, StoreNats
  <2> QED
    BY <2>1, <2>2, <2>3, <2>4, KeepBounds
<1>4. CASE segment' = segment /\ linked' = linked
  BY <1>2, <1>4 DEF UnlinkedInv
<1>5. CASE FailCapture \/ OpenSegment \/ StopDaemon
  <2>1. (segment' = segment /\ linked' = linked) \/ segment' = NoDay \/ linked'
    BY <1>5 DEF FailCapture, OpenSegment, StopDaemon
  <2> QED
    BY <1>4, <2>1 DEF UnlinkedInv
<1>6. CASE \E a \in Pruners : RemoveSegment(a)
  <2>1. PICK a \in Pruners : RemoveSegment(a)
    BY <1>6
  <2>2. segment' = segment
    BY <2>1 DEF RemoveSegment
  <2>3. CASE linked
    BY <1>3, <2>1, <2>2, <2>3 DEF UnlinkedInv
  <2>4. CASE ~linked
    BY <1>2, <2>2, <2>4 DEF UnlinkedInv
  <2> QED
    BY <2>3, <2>4
<1> QED
  BY <1>4, <1>5, <1>6
     DEF Next, DaemonStep, StartDaemon, BeginCapture, WriteSome, FinishWrite, FailWrite,
         BeginPrune, BeginLoad, IndexNext, FailLoad, FinishLoad, Tick, vars, writerVars

\* A ref that points to its record still does, or is no longer young.
LEMMA HeldKept ==
    ASSUME StoreInv, StoreInv', FilesStep, WriterStep, NEW r \in Ref, Held(r)
    PROVE  Held(r)'
<1>1. r.day \in Days /\ r.at \in Nat
  BY RefType
<1>2. SUFFICES ASSUME Young(r.at)'
               PROVE  r.pos \in DOMAIN chunks'[r.day] /\ chunks'[r.day][r.pos].id = r.id
  BY DEF Held
<1>3. Young(r.at)
  <2>1. now \in Nat /\ now' \in Nat /\ now <= now' /\ ShortestRetention \in Nat
    BY StoreNats, StoreNatsNext, KeepBounds DEF WriterStep
  <2> QED
    BY <1>1, <1>2, <2>1 DEF Young
<1>4. r.pos \in DOMAIN chunks[r.day] /\ chunks[r.day][r.pos].id = r.id /\ DayOf(r.at) = r.day
  BY <1>3 DEF Held
<1>5. ~((r.day + 1) * DayTicks + ShortestRetention < now)
  BY <1>1, <1>3, <1>4, ExpiredIsOld
<1> QED
  BY <1>1, <1>4, <1>5 DEF FilesStep

LEMMA FreshKept ==
    ASSUME StoreInv, StoreInv', WriterStep, NEW x \in Nat, Fresh(x)
    PROVE  Fresh(x)'
  BY StoreNats, StoreNatsNext DEF WriterStep, Fresh

\* A load that makes no step stays right whatever the others do.
LEMMA LoadKept ==
    ASSUME StoreInv, StoreInv', FilesStep, WriterStep, FileOrder, LoadInv,
           lrefs \subseteq Ref, UNCHANGED <<ltodo, lrefs>>
    PROVE  LoadInv'
<1>1. ASSUME NEW r \in lrefs
      PROVE  Fresh(r.id)' /\ r.at <= now' /\ (wpc' # "down" => r.at <= ts')
  <2>1. r.id \in Nat /\ r.at \in Nat /\ r.at <= now /\ (wpc # "down" => r.at <= ts) /\ Fresh(r.id)
    BY RefType DEF LoadInv
  <2>2. Fresh(r.id)'
    BY <2>1, FreshKept
  <2> QED
    BY <2>1, <2>2, StoreNats, StoreNatsNext DEF WriterStep
<1>2. ASSUME NEW r \in lrefs, NEW d \in Days, NEW i \in DOMAIN chunks'[d]
      PROVE  Agree(r, chunks'[d][i])
  <2>1. CASE i \in DOMAIN chunks[d]
    <3>1. chunks'[d][i].id = chunks[d][i].id /\ chunks'[d][i].at = chunks[d][i].at
      <4>1. i # Len(chunks[d]) + 1
        BY <2>1 DEF StoreInv, StoreTypeOK
      <4> QED
        BY <2>1, <4>1 DEF FilesStep
    <3> QED
      BY <2>1, <3>1 DEF LoadInv, Agree
  <2>2. CASE i \notin DOMAIN chunks[d]
    <3>1. /\ wpc = "write" /\ part = "none"
          /\ chunks'[d][i].id = made /\ chunks'[d][i].at = ts
      BY <2>2, NewChunk
    <3>2. r.id < made /\ r.at <= ts /\ r.id \in Nat
      BY <3>1, RefType DEF LoadInv, Fresh
    <3> QED
      BY <3>1, <3>2, StoreNats DEF Agree
  <2> QED
    BY <2>1, <2>2
<1> QED
  BY <1>1, <1>2 DEF LoadInv

LEMMA BeginKept ==
    ASSUME StoreInv, StoreInv', FilesStep, WriterStep, FileOrder, BeginInv,
           atBegin \subseteq Ids, UNCHANGED <<ltodo, lrefs, atBegin>>
    PROVE  BeginInv'
<1>1. ASSUME NEW x \in atBegin PROVE Fresh(x)'
  <2>1. x \in Nat /\ Fresh(x)
    BY SnapshotStoreAssumption DEF BeginInv, Ids
  <2> QED
    BY <2>1, FreshKept
<1>2. ASSUME NEW d \in Days, NEW i \in DOMAIN chunks'[d],
             Decodes(chunks'[d], i), chunks'[d][i].id \in atBegin
      PROVE  d \in ltodo \/ \E r \in lrefs : r.id = chunks'[d][i].id
  <2>1. i \in DOMAIN chunks[d]
    BY <1>2, NewChunk
  <2>2. i # Len(chunks[d]) + 1
    BY <2>1 DEF StoreInv, StoreTypeOK
  <2>3. /\ chunks'[d][i].id = chunks[d][i].id
        /\ Decodes(chunks[d], i) \/ (wpc = "write" /\ part = "torn" /\ chunks[d][i].id = made)
    BY <1>2, <2>2 DEF FilesStep
  <2>4. ~(wpc = "write" /\ part = "torn" /\ chunks[d][i].id = made)
    <3>1. Fresh(chunks[d][i].id)
      BY <1>2, <2>3 DEF BeginInv
    <3> QED
      BY <3>1, StoreNats DEF Fresh
  <2> QED
    BY <1>2, <2>1, <2>3, <2>4 DEF BeginInv
<1> QED
  BY <1>1, <1>2 DEF BeginInv

-----------------------------------------------------------------------------
(* Loading *)

\* What decodes is not the line that is still being begun.
LEMMA ReadableIsFresh ==
    ASSUME StoreInv, NEW d \in Days, NEW i \in DOMAIN chunks[d], Decodes(chunks[d], i)
    PROVE  Fresh(chunks[d][i].id)
<1>1. chunks[d][i].id \in Nat /\ chunks[d][i].id <= made /\ made \in Nat
  BY ChunkType, StoreNats DEF StoreInv, ChunksInv
<1>2. ASSUME wpc = "write", part = "torn", linked PROVE chunks[d][i].id # made
  <2> DEFINE n == Len(chunks[segment])
  <2>1. /\ segment \in Days /\ chunks[segment] # <<>>
        /\ chunks[segment][n] = [id |-> made, at |-> ts, part |-> "torn"]
    BY <1>2, DayInDays DEF StoreInv, LineInv, WriterInv, StoreTypeOK
  <2>2. n \in DOMAIN chunks[segment]
    BY <2>1 DEF StoreInv, StoreTypeOK
  <2>3. ~Decodes(chunks[segment], n)
    BY <2>1 DEF Decodes
  <2> SUFFICES ASSUME chunks[d][i].id = made
               PROVE  FALSE
    OBVIOUS
  <2>4. chunks[segment][n].id = made
    BY <2>1
  <2>5. d = segment /\ i = n
    BY <2>1, <2>2, <2>4 DEF StoreInv, IdsInv
  <2> QED
    BY <2>3, <2>5
<1>3. ASSUME wpc = "write", ~(part # "none" /\ linked) PROVE chunks[d][i].id < made
  BY <1>3 DEF StoreInv, LineInv
<1> QED
  BY <1>1, <1>2, <1>3 DEF Fresh

LEMMA LeastOf ==
    ASSUME NEW T, T \subseteq Nat, T # {}
    PROVE  \E x \in T : \A y \in T : x <= y
<1> DEFINE R == OpToRel(<, Nat)
<1>1. PICK x \in T : \A y \in T : ~(<<y, x>> \in R)
  <2>1. IsWellFoundedOn(R, Nat)
    BY NatLessThanWellFounded, Zenon
  <2> HIDE DEF R
  <2> QED
    BY <2>1, WFMin
<1>2. \A y \in T : ~(y < x)
  BY <1>1 DEF OpToRel
<1> QED
  BY <1>2

LEMMA OldestLeftIn ==
    ASSUME ltodo \subseteq Days, ltodo # {}
    PROVE  OldestLeft \in ltodo
<1>1. \E d \in ltodo : \A e \in ltodo : d <= e
  BY DaysAreNats, LeastOf
<1> QED
  BY <1>1 DEF OldestLeft

\* The refs of one file, and the chunks they were made from.
LEMMA RefsOfFile ==
    ASSUME StoreInv, FileOrder, NEW d \in Days
    PROVE  /\ \A i \in DOMAIN chunks[d] : Decodes(chunks[d], i) => RefTo(d, i, i) \in IndexSegmentFile(d)
           /\ \A r \in IndexSegmentFile(d) :
                 /\ r \in Ref /\ r.day = d /\ r.pos \in DOMAIN chunks[d] /\ Decodes(chunks[d], r.pos)
                 /\ r.id = chunks[d][r.pos].id /\ r.at = chunks[d][r.pos].at
           /\ IsFiniteSet(IndexSegmentFile(d))
<1> DEFINE good == GoodLines(chunks[d])
<1>1. good \subseteq DOMAIN chunks[d] /\ \A i \in DOMAIN chunks[d] : i \in good <=> Decodes(chunks[d], i)
  BY DEF GoodLines
<1>2. \A r : r \in IndexSegmentFile(d) <=> \E i \in good : r = RefTo(d, i, i)
  BY DEF IndexSegmentFile
<1>3. ASSUME NEW i \in DOMAIN chunks[d]
      PROVE  /\ RefTo(d, i, i) \in Ref
             /\ RefTo(d, i, i).day = d /\ RefTo(d, i, i).pos = i
             /\ RefTo(d, i, i).id = chunks[d][i].id /\ RefTo(d, i, i).at = chunks[d][i].at
  <2>1. chunks[d][i].id \in Ids /\ chunks[d][i].at \in 0 .. MaxTime
    BY ChunkType DEF StoreInv, Chunk
  <2>2. i \in Ids
    <3>1. i \in Nat /\ i # 0 /\ i <= chunks[d][i].id
      BY ChunkType DEF FileOrder, StoreInv
    <3> QED
      BY <2>1, <3>1, SnapshotStoreAssumption DEF Ids
  <2> QED
    BY <2>1, <2>2 DEF RefTo, Ref
<1>4. IsFiniteSet(IndexSegmentFile(d))
  <2>1. IsFiniteSet(good)
    <3>1. Len(chunks[d]) \in Nat /\ DOMAIN chunks[d] = 1 .. Len(chunks[d])
      BY DEF StoreInv, StoreTypeOK
    <3>2. IsFiniteSet(1 .. Len(chunks[d]))
      <4>1. ASSUME NEW n \in Nat PROVE IsFiniteSet(1 .. n)
        <5>1. n \in Int /\ 1 \in Int
          OBVIOUS
        <5> QED
          BY <5>1, FS_Interval, Zenon
      <4> QED
        BY <3>1, <4>1
    <3> QED
      BY <1>1, <3>1, <3>2, FS_Subset
  <2> DEFINE f == [i \in good |-> RefTo(d, i, i)]
  <2>2. f \in Surjection(good, IndexSegmentFile(d))
    <3> HIDE DEF good
    <3>1. f \in [good -> IndexSegmentFile(d)]
      BY <1>2
    <3>2. \A r \in IndexSegmentFile(d) : \E i \in good : f[i] = r
      BY <1>2
    <3> QED
      BY <3>1, <3>2 DEF Surjection
  <2> HIDE DEF f, good
  <2> QED
    BY <2>1, <2>2, FS_Surjection
<1> HIDE DEF good
<1> QED
  BY <1>1, <1>2, <1>3, <1>4

LEMMA IndexNextKeeps ==
    ASSUME StoreInv, IndexInv, IndexNext
    PROVE  IndexInv'
<1> DEFINE d == OldestLeft
           new == IndexSegmentFile(d)
<1>1. d \in ltodo /\ d \in Days
  BY OldestLeftIn DEF IndexNext, IndexInv, IndexTypeOK
<1>2. lrefs' = lrefs \cup new /\ ltodo' = ltodo \ {d}
  BY DEF IndexNext
<1>3. UNCHANGED <<now, exists, chunks, wpc, ts, segment, linked, part, made,
                  lpc, refs, atBegin, appended, cuts>>
  BY DEF IndexNext, disk, writerVars
<1>4. /\ \A i \in DOMAIN chunks[d] : Decodes(chunks[d], i) => RefTo(d, i, i) \in new
      /\ \A r \in new :
            /\ r \in Ref /\ r.day = d /\ r.pos \in DOMAIN chunks[d] /\ Decodes(chunks[d], r.pos)
            /\ r.id = chunks[d][r.pos].id /\ r.at = chunks[d][r.pos].at
      /\ IsFiniteSet(new)
  BY <1>1, RefsOfFile DEF IndexInv
<1> HIDE DEF d, new
<1>5. IndexTypeOK'
  <2>1. IsFiniteSet(lrefs')
    BY <1>2, <1>4, FS_Union DEF IndexInv, IndexTypeOK
  <2> QED
    BY <1>2, <1>3, <1>4, <2>1 DEF IndexInv, IndexTypeOK
<1>6. FileOrder' /\ UnlinkedInv' /\ SortedInv'
  BY <1>3 DEF IndexInv, FileOrder, UnlinkedInv, SortedInv
<1>7. HeldInv'
  <2>1. ASSUME NEW r \in lrefs \cup {refs[i] : i \in DOMAIN refs} PROVE Held(r)'
    BY <1>3 DEF IndexInv, HeldInv, Held, Young
  <2>2. ASSUME NEW r \in new PROVE Held(r)'
    BY <1>1, <1>3, <1>4 DEF Held, StoreInv, ChunksInv
  <2> QED
    BY <1>2, <1>3, <2>1, <2>2 DEF HeldInv
<1>8. LoadInv'
  <2>1. ASSUME NEW r \in lrefs, NEW q \in new
        PROVE  Agree(r, q) /\ Agree(q, r) /\ r.day # q.day
    <3>1. r.day # d
      BY <1>1 DEF IndexInv, LoadInv
    <3> QED
      BY <1>1, <1>4, <3>1 DEF IndexInv, LoadInv, Agree
  <2>2. ASSUME NEW r \in new, NEW q \in new
        PROVE  Agree(r, q) /\ (r.pos < q.pos <=> r.id < q.id)
    <3>1. r.pos \in DOMAIN chunks[d] /\ q.pos \in DOMAIN chunks[d]
          /\ r.id = chunks[d][r.pos].id /\ q.id = chunks[d][q.pos].id
          /\ r.at = chunks[d][r.pos].at /\ q.at = chunks[d][q.pos].at
      BY <1>4
    <3>2. r.pos \in Nat /\ q.pos \in Nat /\ r.id \in Nat /\ q.id \in Nat
      BY <1>4, RefType
    <3>3. /\ r.pos < q.pos => r.id < q.id
          /\ q.pos < r.pos => q.id < r.id
      BY <1>1, <3>1 DEF IndexInv, FileOrder
    <3>4. r.pos = q.pos => r.id = q.id
      BY <3>1
    <3>5. Agree(r, q)
      BY <1>1, <3>1 DEF IndexInv, FileOrder, Agree
    <3> QED
      BY <3>2, <3>3, <3>4, <3>5
  <2>3. \A r, q \in lrefs : Agree(r, q) /\ (r.day = q.day => (r.pos < q.pos <=> r.id < q.id))
    BY DEF IndexInv, LoadInv
  <2>4. \A r, q \in lrefs' : Agree(r, q) /\ (r.day = q.day => (r.pos < q.pos <=> r.id < q.id))
    BY <1>2, <2>1, <2>2, <2>3
  <2>5. ASSUME NEW r \in lrefs
        PROVE  /\ r.day \notin ltodo' /\ Fresh(r.id)' /\ r.at <= now' /\ (wpc' # "down" => r.at <= ts')
               /\ \A e \in Days : \A i \in DOMAIN chunks'[e] : Agree(r, chunks'[e][i])
    BY <1>2, <1>3 DEF IndexInv, LoadInv, Fresh
  <2>6. ASSUME NEW r \in new
        PROVE  /\ r.day \notin ltodo' /\ Fresh(r.id)' /\ r.at <= now' /\ (wpc' # "down" => r.at <= ts')
               /\ \A e \in Days : \A i \in DOMAIN chunks'[e] : Agree(r, chunks'[e][i])
    <3>1. r.day = d /\ r.pos \in DOMAIN chunks[d] /\ Decodes(chunks[d], r.pos)
          /\ r.id = chunks[d][r.pos].id /\ r.at = chunks[d][r.pos].at
      BY <1>4
    <3>2. Fresh(r.id)
      BY <1>1, <3>1, ReadableIsFresh
    <3>3. r.at <= now /\ (wpc # "down" => r.at <= ts)
      BY <1>1, <3>1 DEF StoreInv, ChunksInv
    <3>4. \A e \in Days : \A i \in DOMAIN chunks[e] : Agree(r, chunks[e][i])
      BY <1>1, <3>1 DEF IndexInv, FileOrder, Agree
    <3> QED
      BY <1>2, <1>3, <3>1, <3>2, <3>3, <3>4 DEF Fresh
  <2> QED
    BY <1>2, <2>4, <2>5, <2>6 DEF LoadInv
<1>9. BeginInv'
  <2>1. ASSUME NEW x \in atBegin PROVE Fresh(x)'
    BY <1>3 DEF IndexInv, BeginInv, Fresh
  <2>2. ASSUME NEW e \in Days, NEW i \in DOMAIN chunks[e], Decodes(chunks[e], i), chunks[e][i].id \in atBegin
        PROVE  e \in ltodo' \/ \E r \in lrefs' : r.id = chunks[e][i].id
    <3>1. CASE e = d
      <4>1. RefTo(d, i, i) \in new
        BY <1>4, <2>2, <3>1
      <4>2. RefTo(d, i, i).id = chunks[d][i].id
        BY DEF RefTo
      <4> QED
        BY <1>2, <3>1, <4>1, <4>2
    <3>2. CASE e # d
      BY <1>2, <2>2, <3>2 DEF IndexInv, BeginInv
    <3> QED
      BY <3>1, <3>2
  <2> QED
    BY <1>3, <2>1, <2>2 DEF BeginInv
<1> QED
  BY <1>5, <1>6, <1>7, <1>8, <1>9 DEF IndexInv

LEMMA BeginLoadKeeps ==
    ASSUME StoreInv, IndexInv, BeginLoad
    PROVE  IndexInv'
<1>1. /\ lpc' = "load" /\ ltodo' = exists /\ lrefs' = {} /\ atBegin' = ReadableIds
      /\ UNCHANGED <<now, exists, chunks, wpc, ts, segment, linked, part, made, refs, appended, cuts>>
  BY DEF BeginLoad, disk, writerVars
<1>2. ASSUME NEW x \in ReadableIds
      PROVE  x \in Ids /\ Fresh(x)
  <2>1. PICK r \in Records : x = r.id
    BY DEF ReadableIds
  <2>2. PICK d \in exists : r \in ReadableIn(d)
    BY DEF Records
  <2>3. PICK i \in DOMAIN chunks[d] : Decodes(chunks[d], i) /\ r = chunks[d][i]
    BY <2>2 DEF ReadableIn, GoodLines
  <2>4. d \in Days
    BY DEF StoreInv, StoreTypeOK
  <2>5. chunks[d][i].id \in Ids
    BY <2>4, ChunkType DEF StoreInv, Chunk
  <2> QED
    BY <2>1, <2>3, <2>4, <2>5, ReadableIsFresh
<1>3. IndexTypeOK'
  <2>1. lrefs' \subseteq Ref /\ IsFiniteSet(lrefs')
    BY <1>1, FS_EmptySet
  <2>2. ltodo' \subseteq Days /\ atBegin' \subseteq Ids
    BY <1>1, <1>2 DEF StoreInv, StoreTypeOK
  <2> QED
    BY <1>1, <2>1, <2>2 DEF IndexInv, IndexTypeOK
<1>4. FileOrder' /\ UnlinkedInv' /\ SortedInv'
  BY <1>1 DEF IndexInv, FileOrder, UnlinkedInv, SortedInv
<1>5. HeldInv'
  BY <1>1 DEF IndexInv, HeldInv, Held, Young
<1>6. LoadInv'
  BY <1>1 DEF LoadInv
<1>7. BeginInv'
  <2>1. \A x \in atBegin' : Fresh(x)'
    BY <1>1, <1>2 DEF Fresh
  <2>2. \A d \in Days : \A i \in DOMAIN chunks[d] : d \in exists
    BY DEF StoreInv, ChunksInv
  <2> QED
    BY <1>1, <2>1, <2>2 DEF BeginInv
<1> QED
  BY <1>3, <1>4, <1>5, <1>6, <1>7 DEF IndexInv

\* The refs of a load have one order, and in it their ids grow.
LEMMA LoadedRefsOrdered ==
    ASSUME IndexTypeOK, HeldInv, LoadInv, NEW r \in lrefs, NEW q \in lrefs
    PROVE  /\ r # q => Before(r, q) \/ Before(q, r)
           /\ Before(r, q) => r.at <= q.at /\ r.id < q.id
<1>1. r \in Ref /\ q \in Ref
  BY DEF IndexTypeOK
<1>2. /\ r.at \in Nat /\ r.day \in Nat /\ r.pos \in Nat /\ r.id \in Nat
      /\ q.at \in Nat /\ q.day \in Nat /\ q.pos \in Nat /\ q.id \in Nat
  BY <1>1, RefType
<1>3. r.at = q.at => r.day = q.day
  BY DEF HeldInv, Held
<1>4. Agree(r, q) /\ (r.day = q.day => (r.pos < q.pos <=> r.id < q.id) /\ (q.pos < r.pos <=> q.id < r.id))
  BY DEF LoadInv
<1>5. ASSUME r.at = q.at, r.day = q.day, r.pos = q.pos PROVE r = q
  <2>1. r.id = q.id
    BY <1>2, <1>4, <1>5
  <2> QED
    BY <1>1, <1>5, <2>1 DEF Ref
<1>6. r # q => Before(r, q) \/ Before(q, r)
  BY <1>2, <1>3, <1>5 DEF Before
<1>7. Before(r, q) => r.at <= q.at /\ r.id < q.id
  BY <1>2, <1>3, <1>4 DEF Before, Agree
<1> QED
  BY <1>6, <1>7

LEMMA FinishLoadKeeps ==
    ASSUME StoreInv, IndexInv, FinishLoad
    PROVE  IndexInv'
<1> DEFINE f == InOrder(lrefs)
<1>1. /\ refs' = f /\ lpc' = "idle" /\ lrefs' = {} /\ atBegin' = {}
      /\ UNCHANGED <<now, exists, chunks, wpc, ts, segment, linked, part, made, ltodo, appended, cuts>>
  BY DEF FinishLoad, disk, writerVars
<1>2. /\ f \in Seq(lrefs) /\ {f[i] : i \in DOMAIN f} = lrefs
      /\ \A i, j \in DOMAIN f : i < j => Before(f[i], f[j])
  <2>1. lrefs \in SUBSET Ref /\ IsFiniteSet(lrefs)
    BY DEF IndexInv, IndexTypeOK
  <2>2. \A r, q \in lrefs : r # q => Before(r, q) \/ Before(q, r)
    BY LoadedRefsOrdered DEF IndexInv
  <2> QED
    BY <2>1, <2>2, InOrderSorts
<1> HIDE DEF f
<1>3. \A i \in DOMAIN f : f[i] \in lrefs
  BY <1>2
<1>4. IndexTypeOK'
  <2>1. lrefs' \subseteq Ref /\ IsFiniteSet(lrefs')
    BY <1>1, FS_EmptySet
  <2>2. refs' \in Seq(Ref)
    BY <1>1, <1>2 DEF IndexInv, IndexTypeOK
  <2> QED
    BY <1>1, <2>1, <2>2 DEF IndexInv, IndexTypeOK
<1>5. FileOrder' /\ UnlinkedInv'
  BY <1>1 DEF IndexInv, FileOrder, UnlinkedInv
<1>6. HeldInv'
  <2>1. \A r \in lrefs : Held(r)'
    BY <1>1 DEF IndexInv, HeldInv, Held, Young
  <2>2. lrefs' \cup {refs'[i] : i \in DOMAIN refs'} = lrefs
    BY <1>1, <1>2
  <2> QED
    BY <2>1, <2>2 DEF HeldInv
<1>7. SortedInv'
  <2>1. ASSUME NEW i \in DOMAIN f, NEW j \in DOMAIN f, i < j
        PROVE  f[i].at <= f[j].at /\ f[i].id < f[j].id
    BY <1>2, <1>3, <2>1, LoadedRefsOrdered DEF IndexInv
  <2> QED
    BY <1>1, <2>1 DEF SortedInv
<1>8. LoadInv' /\ BeginInv'
  BY <1>1 DEF LoadInv, BeginInv
<1> QED
  BY <1>4, <1>5, <1>6, <1>7, <1>8 DEF IndexInv

LEMMA FailLoadKeeps ==
    ASSUME StoreInv, IndexInv, FailLoad
    PROVE  IndexInv'
<1>1. /\ lpc' = "idle" /\ ltodo' = {} /\ lrefs' = {} /\ atBegin' = {}
      /\ UNCHANGED <<now, exists, chunks, wpc, ts, segment, linked, part, made, refs, appended, cuts>>
  BY DEF FailLoad, disk, writerVars
<1>2. IsFiniteSet(lrefs')
  BY <1>1, FS_EmptySet
<1>3. IndexTypeOK'
  BY <1>1, <1>2 DEF IndexInv, IndexTypeOK
<1>4. FileOrder' /\ UnlinkedInv' /\ SortedInv' /\ LoadInv' /\ BeginInv'
  BY <1>1 DEF IndexInv, FileOrder, UnlinkedInv, SortedInv, LoadInv, BeginInv
<1>5. HeldInv'
  BY <1>1 DEF IndexInv, HeldInv, Held, Young
<1> QED
  BY <1>3, <1>4, <1>5 DEF IndexInv

\* The steps of the others, seen from the index.
LEMMA OthersKeep ==
    ASSUME StoreInv, StoreInv', FilesStep, IndexInv, [Next]_vars,
           UNCHANGED loadVars
    PROVE  IndexInv'
<1>1. UNCHANGED <<lpc, ltodo, lrefs, refs, atBegin>>
  BY DEF loadVars
<1>2. WriterStep
  BY WriterSteps
<1>3. FileOrder' /\ UnlinkedInv' /\ LoadInv' /\ BeginInv'
  BY <1>1, <1>2, FileOrderKept, UnlinkedKept, LoadKept, BeginKept DEF IndexInv, IndexTypeOK
<1>4. HeldInv'
  <2>1. \A r \in lrefs \cup {refs[i] : i \in DOMAIN refs} : r \in Ref
    BY DEF IndexInv, IndexTypeOK
  <2>2. \A r \in lrefs \cup {refs[i] : i \in DOMAIN refs} : Held(r)'
    BY <1>2, <2>1, HeldKept DEF IndexInv, HeldInv
  <2> QED
    BY <1>1, <2>2 DEF HeldInv
<1>5. SortedInv'
  BY <1>1 DEF IndexInv, SortedInv
<1>6. appended' \subseteq [id : Ids, at : 0 .. MaxTime] /\ cuts' \in Nat
  <2>1. CASE FinishWrite
    <3>1. appended' = appended \cup {[id |-> made, at |-> ts]} /\ cuts' = cuts /\ wpc = "write"
      BY <2>1 DEF FinishWrite
    <3>2. made \in Ids /\ ts \in 0 .. MaxTime
      BY <3>1, SnapshotStoreAssumption DEF StoreInv, StoreTypeOK, WriterInv, Ids
    <3> QED
      BY <3>1, <3>2 DEF IndexInv, IndexTypeOK
  <2>2. CASE FailWrite \/ StopDaemon
    BY <2>2 DEF FailWrite, StopDaemon, CountCut, IndexInv, IndexTypeOK
  <2>3. CASE UNCHANGED <<appended, cuts>>
    BY <2>3 DEF IndexInv, IndexTypeOK
  <2> QED
    BY <2>1, <2>2, <2>3
       DEF Next, DaemonStep, StartDaemon, BeginCapture, FailCapture, OpenSegment, WriteSome,
           BeginPrune, RemoveSegment, BeginLoad, IndexNext, FailLoad, FinishLoad, Tick, vars
<1>7. IndexTypeOK'
  BY <1>1, <1>6 DEF IndexInv, IndexTypeOK
<1> QED
  BY <1>3, <1>4, <1>5, <1>7 DEF IndexInv

LEMMA IndexInit == Init => IndexInv
<1> SUFFICES ASSUME Init
             PROVE  IndexInv
  OBVIOUS
<1>1. \A d \in Days : chunks[d] = <<>>
  BY DEF Init
<1>2. IsFiniteSet(lrefs)
  BY FS_EmptySet DEF Init
<1>3. IndexTypeOK
  BY <1>2 DEF Init, IndexTypeOK
<1>4. FileOrder /\ UnlinkedInv /\ SortedInv /\ LoadInv /\ BeginInv /\ HeldInv
  BY <1>1 DEF Init, FileOrder, UnlinkedInv, SortedInv, LoadInv, BeginInv, HeldInv
<1> QED
  BY <1>3, <1>4 DEF IndexInv

LEMMA IndexStep == StoreInv /\ IndexInv /\ [Next]_vars => IndexInv'
<1> SUFFICES ASSUME StoreInv, IndexInv, [Next]_vars
             PROVE  IndexInv'
  OBVIOUS
<1>1. StoreInv' /\ FilesStep
  BY StepHolds
<1>2. CASE UNCHANGED loadVars
  BY <1>1, <1>2, OthersKeep
<1> QED
  BY <1>2, BeginLoadKeeps, IndexNextKeeps, FailLoadKeeps, FinishLoadKeeps
     DEF Next, DaemonStep, StartDaemon, BeginCapture, FailCapture, OpenSegment, WriteSome,
         FinishWrite, FailWrite, StopDaemon, BeginPrune, RemoveSegment, Tick, vars

LEMMA InvHolds == Spec => [](StoreInv /\ IndexInv)
<1>1. Init => StoreInv /\ IndexInv
  BY InitHolds, IndexInit
<1>2. StoreInv /\ IndexInv /\ [Next]_vars => (StoreInv /\ IndexInv)'
  BY StepHolds, IndexStep
<1> QED
  BY <1>1, <1>2, PTL DEF Spec

\* Every variable of the store keeps its type: no ref points outside a file, no
\* id is given twice, whatever is appended, cut, pruned and loaded.
THEOREM StoreTypeInvariant == Spec => []TypeOK
<1>1. StoreInv /\ IndexInv => TypeOK
  BY DEF StoreInv, StoreTypeOK, IndexInv, IndexTypeOK, TypeOK
<1> QED
  BY <1>1, InvHolds, PTL

\* LoadIndex and ReadSnapshot: an index is in the order of capture without a
\* repetition, and reading a young snapshot through it, however old it is,
\* gives the record the ref was made for or an error.
THEOREM IndexTheorem == Spec => []IndexAgreesWithStore
<1>1. StoreInv /\ IndexInv => IndexAgreesWithStore
  <2> SUFFICES ASSUME StoreInv, IndexInv
               PROVE  IndexAgreesWithStore
    OBVIOUS
  <2>1. ASSUME NEW i \in DOMAIN refs, refs[i].at + ShortestRetention >= now
        PROVE  ReadSnapshot(refs[i]) \subseteq {refs[i].id}
    <3>1. Held(refs[i])
      BY DEF IndexInv, HeldInv
    <3> QED
      BY <2>1, <3>1 DEF Held, Young, ReadSnapshot
  <2> QED
    BY <2>1 DEF IndexInv, SortedInv, IndexAgreesWithStore
<1> QED
  BY <1>1, InvHolds, PTL

\* A load that succeeds has a ref for every snapshot that could be read when it
\* began and still can, whatever is appended and pruned between its files.
THEOREM LoadTheorem == Spec => LoadIsComplete
<1>1. StoreInv /\ IndexInv /\ [Next]_vars =>
         [lpc = "load" /\ ltodo = {} /\ lpc' = "idle"
            => atBegin \cap ReadableIds \subseteq {refs'[i].id : i \in DOMAIN refs'}]_vars
  <2> SUFFICES ASSUME StoreInv, IndexInv, Next, lpc = "load", ltodo = {}, lpc' = "idle"
               PROVE  atBegin \cap ReadableIds \subseteq {refs'[i].id : i \in DOMAIN refs'}
    OBVIOUS
  <2>1. FinishLoad
    BY DEF Next, DaemonStep, StartDaemon, BeginCapture, FailCapture, OpenSegment, WriteSome,
           FinishWrite, FailWrite, StopDaemon, BeginPrune, RemoveSegment, Tick,
           BeginLoad, IndexNext, FailLoad, loadVars
  <2>2. refs' = InOrder(lrefs)
    BY <2>1 DEF FinishLoad
  <2>3. {InOrder(lrefs)[i] : i \in DOMAIN InOrder(lrefs)} = lrefs
    <3>1. lrefs \in SUBSET Ref /\ IsFiniteSet(lrefs)
      BY DEF IndexInv, IndexTypeOK
    <3>2. \A r, q \in lrefs : r # q => Before(r, q) \/ Before(q, r)
      BY LoadedRefsOrdered DEF IndexInv
    <3> QED
      BY <3>1, <3>2, InOrderSorts
  <2>4. ASSUME NEW x \in atBegin, x \in ReadableIds
        PROVE  \E r \in lrefs : r.id = x
    <3>1. PICK c \in Records : x = c.id
      BY <2>4 DEF ReadableIds
    <3>2. PICK d \in exists : c \in ReadableIn(d)
      BY DEF Records
    <3>3. PICK i \in DOMAIN chunks[d] : Decodes(chunks[d], i) /\ c = chunks[d][i]
      BY <3>2 DEF ReadableIn, GoodLines
    <3>4. d \in Days
      BY DEF StoreInv, StoreTypeOK
    <3> QED
      BY <2>4, <3>1, <3>3, <3>4 DEF IndexInv, BeginInv
  <2> QED
    BY <2>2, <2>3, <2>4
<1> QED
  BY <1>1, InvHolds, PTL DEF Spec, LoadIsComplete

-----------------------------------------------------------------------------
(* Counting what is lost *)

LEMMA CutFinite == IsFiniteSet(Cut) /\ IsFiniteSet(Cut')
<1>1. IsFiniteSet(Days) /\ IsFiniteSet(Ids)
  <2>1. ASSUME NEW m \in Int, NEW n \in Int PROVE IsFiniteSet(m .. n)
    BY FS_Interval, Zenon
  <2>2. DayOf(MaxTime) \in Int /\ MaxRecords \in Int /\ 0 \in Int /\ 1 \in Int
    BY SnapshotStoreAssumption, DayBounds
  <2> QED
    BY <2>1, <2>2 DEF Days, Ids
<1>2. IsFiniteSet(Days \X Ids)
  BY <1>1, FS_Product
<1> QED
  <2>1. Cut \subseteq Days \X Ids /\ Cut' \subseteq Days \X Ids
    BY DEF Cut
  <2> QED
    BY <1>2, <2>1, FS_Subset

\* A chunk has its place in Cut as long as it lacks its newline.
LEMMA CutPlaces ==
    ASSUME StoreInv, FileOrder, NEW d \in Days, NEW i \in DOMAIN chunks[d]
    PROVE  i \in Ids /\ (<<d, i>> \in Cut <=> chunks[d][i].part # "whole")
<1>1. chunks[d][i].id \in Ids /\ i \in Nat /\ i # 0 /\ i <= chunks[d][i].id
  BY ChunkType DEF StoreInv, Chunk, FileOrder
<1>2. i \in Ids
  BY <1>1, SnapshotStoreAssumption DEF Ids
<1>3. <<d, i>> \in Cut <=> chunks[d][i].part # "whole"
  <2>1. <<d, i>> \in Days \X Ids
    BY <1>2
  <2> QED
    BY <2>1 DEF Cut
<1> QED
  BY <1>2, <1>3

LEMMA CutMembers ==
    ASSUME NEW p \in Cut
    PROVE  /\ p[1] \in Days /\ p[2] \in DOMAIN chunks[p[1]] /\ p = <<p[1], p[2]>>
           /\ chunks[p[1]][p[2]].part # "whole"
  BY DEF Cut

\* The place of the line that is being written.
LEMMA WritingPlace ==
    ASSUME StoreInv, FileOrder, Writing
    PROVE  <<segment, Len(chunks[segment])>> \in Cut
<1> DEFINE n == Len(chunks[segment])
<1>1. /\ wpc = "write" /\ segment \in Days /\ chunks[segment] # <<>>
      /\ chunks[segment][n] = [id |-> made, at |-> ts, part |-> part]
  BY DayInDays DEF Writing, StoreInv, WriterInv, LineInv, StoreTypeOK
<1>2. n \in DOMAIN chunks[segment]
  BY <1>1 DEF StoreInv, StoreTypeOK
<1>3. part # "whole"
  BY DEF StoreInv, StoreTypeOK
<1>4. chunks[segment][n].part # "whole"
  BY <1>1, <1>3
<1> QED
  BY <1>1, <1>2, <1>4, CutPlaces

LEMMA CutGrows ==
    ASSUME StoreInv, FileOrder, FilesStep, NEW p \in Cut'
    PROVE  p \in Cut \/ (wpc = "write" /\ part = "none" /\ p = <<segment, Len(chunks[segment]) + 1>>)
<1>1. /\ p[1] \in Days /\ p[2] \in DOMAIN chunks'[p[1]] /\ p = <<p[1], p[2]>>
      /\ chunks'[p[1]][p[2]].part # "whole"
  BY DEF Cut
<1>2. CASE p[2] \in DOMAIN chunks[p[1]]
  <2>1. p[2] # Len(chunks[p[1]]) + 1
    BY <1>1, <1>2 DEF StoreInv, StoreTypeOK
  <2>2. chunks[p[1]][p[2]].part # "whole"
    BY <1>1, <1>2, <2>1 DEF FilesStep
  <2> QED
    BY <1>1, <1>2, <2>2, CutPlaces
<1>3. CASE p[2] \notin DOMAIN chunks[p[1]]
  BY <1>1, <1>3, NewChunk
<1> QED
  BY <1>2, <1>3

LEMMA CutBounds ==
    /\ Cardinality(Cut) \in Nat /\ Cardinality(Cut') \in Nat
    /\ Cut' \subseteq Cut => Cardinality(Cut') <= Cardinality(Cut)
    /\ \A w : Cut' \subseteq Cut \cup {w} => Cardinality(Cut') <= Cardinality(Cut) + 1
    /\ \A w \in Cut : Cut' \subseteq Cut \ {w} => Cardinality(Cut') <= Cardinality(Cut) - 1
<1>1. IsFiniteSet(Cut) /\ IsFiniteSet(Cut')
  BY CutFinite
<1>2. Cardinality(Cut) \in Nat /\ Cardinality(Cut') \in Nat
  BY <1>1, FS_CardinalityType
<1>3. ASSUME NEW w
      PROVE  /\ IsFiniteSet(Cut \cup {w}) /\ Cardinality(Cut \cup {w}) \in Nat
             /\ Cardinality(Cut \cup {w}) <= Cardinality(Cut) + 1
  <2>1. /\ IsFiniteSet(Cut \cup {w})
        /\ Cardinality(Cut \cup {w}) = IF w \in Cut THEN Cardinality(Cut) ELSE Cardinality(Cut) + 1
    BY <1>1, FS_AddElement, Zenon
  <2> QED
    BY <1>2, <2>1
<1>4. ASSUME NEW w \in Cut
      PROVE  IsFiniteSet(Cut \ {w}) /\ Cardinality(Cut \ {w}) = Cardinality(Cut) - 1
  BY <1>1, FS_RemoveElement, Zenon
<1>5. ASSUME NEW S, IsFiniteSet(S), Cut' \subseteq S PROVE Cardinality(Cut') <= Cardinality(S)
  BY <1>5, FS_Subset
<1>6. ASSUME NEW w, Cut' \subseteq Cut \cup {w} PROVE Cardinality(Cut') <= Cardinality(Cut) + 1
  <2> DEFINE U == Cut \cup {w}
  <2>1. Cardinality(U) \in Nat /\ Cardinality(U) <= Cardinality(Cut) + 1
    BY <1>3
  <2>2. Cardinality(Cut') <= Cardinality(U)
    BY <1>3, <1>5, <1>6
  <2> HIDE DEF U
  <2> QED
    BY <1>2, <2>1, <2>2
<1>7. ASSUME NEW w \in Cut, Cut' \subseteq Cut \ {w} PROVE Cardinality(Cut') <= Cardinality(Cut) - 1
  BY <1>4, <1>5, <1>7
<1> QED
  BY <1>1, <1>2, <1>5, <1>6, <1>7

LEMMA CutKept ==
    ASSUME StoreInv, StoreInv', IndexInv, CutInv, FilesStep, [Next]_vars
    PROVE  CutInv'
<1> USE DEF CutInv
<1> DEFINE w == <<segment, Len(chunks[segment])>>
<1>1. /\ Cardinality(Cut) \in Nat /\ Cardinality(Cut') \in Nat /\ cuts \in Nat
      /\ Cut' \subseteq Cut => Cardinality(Cut') <= Cardinality(Cut)
      /\ \A x : Cut' \subseteq Cut \cup {x} => Cardinality(Cut') <= Cardinality(Cut) + 1
      /\ \A x \in Cut : Cut' \subseteq Cut \ {x} => Cardinality(Cut') <= Cardinality(Cut) - 1
  BY CutBounds DEF IndexInv, IndexTypeOK
<1>2. Cut' \subseteq Cut \/ (wpc = "write" /\ part = "none"
                                /\ Cut' \subseteq Cut \cup {<<segment, Len(chunks[segment]) + 1>>})
  BY CutGrows DEF IndexInv
<1>3. Writing => w \in Cut
  BY WritingPlace DEF IndexInv
<1>4. chunks' = chunks => Cut' = Cut
  BY DEF Cut
<1> HIDE DEF w
<1>5. CASE FinishWrite
  <2>1. /\ part = "bare" /\ part' = "none" /\ linked' = linked /\ cuts' = cuts /\ Cut' \subseteq Cut
        /\ wpc = "write" /\ ExtendChunk("whole") /\ UNCHANGED <<now, exists, ts, segment, made>>
    BY <1>2, <1>5 DEF FinishWrite
  <2>2. CASE linked
    <3>1. Writing /\ w \in Cut
      BY <1>3, <2>1, <2>2 DEF Writing
    <3>2. chunks'[segment][Len(chunks[segment])].part = "whole"
      <4>1. chunks'[segment][Len(chunks[segment])] = [id |-> made, at |-> ts, part |-> "whole"]
        BY <2>1, <2>2, ExtendOK
      <4> QED
        BY <4>1
    <3>3. w \notin Cut'
      BY <3>2 DEF Cut, w
    <3>4. Cut' \subseteq Cut \ {w}
      BY <2>1, <3>3
    <3>5. Cardinality(Cut') <= Cardinality(Cut) - 1
      BY <1>1, <3>1, <3>4
    <3> QED
      BY <1>1, <2>1, <3>1, <3>5 DEF Writing
  <2>3. CASE ~linked
    BY <1>1, <2>1, <2>3 DEF Writing
  <2> QED
    BY <2>2, <2>3
<1>6. CASE WriteSome
  <2>1. linked' = linked /\ cuts' = cuts /\ wpc = "write"
    BY <1>6 DEF WriteSome
  <2>2. CASE part = "torn"
    <3>1. part' = "bare" /\ Cut' \subseteq Cut
      BY <1>2, <1>6, <2>2 DEF WriteSome
    <3> QED
      BY <1>1, <2>1, <2>2, <3>1 DEF Writing
  <2>3. CASE part = "none" /\ linked
    <3>1. part' = "torn" /\ Cut' \subseteq Cut \cup {<<segment, Len(chunks[segment]) + 1>>}
      BY <1>2, <1>6, <2>3 DEF WriteSome
    <3>2. Cardinality(Cut') <= Cardinality(Cut) + 1
      BY <1>1, <3>1
    <3> QED
      BY <1>1, <2>1, <2>3, <3>1, <3>2 DEF Writing
  <2>4. CASE part = "none" /\ ~linked
    <3>1. chunks' = chunks
      BY <1>6, <2>4 DEF WriteSome, AppendChunk
    <3> QED
      BY <1>1, <1>4, <2>1, <2>4, <3>1 DEF Writing
  <2> QED
    BY <1>6, <2>2, <2>3, <2>4 DEF WriteSome
<1>7. CASE FailWrite \/ StopDaemon
  <2>1. part' = "none" /\ CountCut /\ chunks' = chunks
    BY <1>7 DEF FailWrite, StopDaemon, disk
  <2> QED
    BY <1>1, <1>4, <2>1 DEF CountCut, Writing
<1>8. CASE \E a \in Pruners : RemoveSegment(a)
  <2>1. PICK a \in Pruners : RemoveSegment(a)
    BY <1>8
  <2>2. PICK d \in todo[a] :
          /\ chunks' = [chunks EXCEPT ![d] = <<>>]
          /\ linked' = (linked /\ segment # d)
          /\ UNCHANGED <<segment, part, cuts>>
    BY <2>1 DEF RemoveSegment
  <2>3. d \in Days
    BY DEF StoreInv, StoreTypeOK
  <2>4. chunks'[d] = <<>> /\ \A e \in Days : e # d => chunks'[e] = chunks[e]
    BY <2>2, <2>3 DEF StoreInv, StoreTypeOK
  <2>5. \A p \in Cut' : p \in Cut /\ p[1] # d
    BY <2>4 DEF Cut
  <2>6. CASE linked /\ segment = d
    <3>1. ~linked'
      BY <2>2, <2>6
    <3>2. Cut' \subseteq Cut
      BY <2>5
    <3>3. CASE Writing
      <4>1. w \in Cut /\ w \notin Cut'
        BY <1>3, <2>5, <2>6, <3>3 DEF w
      <4>2. Cardinality(Cut') <= Cardinality(Cut) - 1
        BY <1>1, <3>2, <4>1
      <4> QED
        BY <1>1, <2>2, <3>1, <3>3, <4>2 DEF Writing
    <3>4. CASE ~Writing
      BY <1>1, <2>2, <3>1, <3>2, <3>4 DEF Writing
    <3> QED
      BY <3>3, <3>4
  <2>7. CASE ~(linked /\ segment = d)
    <3>1. Cut' \subseteq Cut
      BY <2>5
    <3>2. Writing' <=> Writing
      BY <2>2, <2>7 DEF Writing
    <3> QED
      BY <1>1, <2>2, <3>1, <3>2
  <2> QED
    BY <2>6, <2>7
<1>9. CASE chunks' = chunks /\ cuts' = cuts /\ part' = part /\ (linked' = linked \/ part = "none")
  BY <1>1, <1>4, <1>9 DEF Writing
<1>10. wpc = "capture" => part = "none"
  BY DEF StoreInv, WriterInv
<1> QED
  BY <1>5, <1>6, <1>7, <1>8, <1>9, <1>10
     DEF Next, DaemonStep, StartDaemon, BeginCapture, FailCapture, OpenSegment, BeginPrune,
         BeginLoad, IndexNext, FailLoad, FinishLoad, Tick, vars, disk, writerVars

LEMMA AppendedKept ==
    ASSUME StoreInv, StoreInv', IndexInv, AppendedInv, FilesStep, [Next]_vars
    PROVE  AppendedInv'
<1>1. WriterStep
  BY WriterSteps
<1>2. ASSUME NEW x \in appended, Young(x.at)'
      PROVE  \E i \in DOMAIN chunks'[DayOf(x.at)] :
                chunks'[DayOf(x.at)][i] = [id |-> x.id, at |-> x.at, part |-> "whole"]
  <2>1. x.at \in 0 .. MaxTime /\ x.at \in Nat
    BY SnapshotStoreAssumption DEF IndexInv, IndexTypeOK
  <2>2. DayOf(x.at) \in Days
    BY <2>1, DayInDays
  <2>3. Young(x.at)
    <3>1. now \in Nat /\ now' \in Nat /\ now <= now' /\ ShortestRetention \in Nat
      BY <1>1, StoreNats, StoreNatsNext, KeepBounds DEF WriterStep
    <3> QED
      BY <1>2, <2>1, <3>1 DEF Young
  <2>4. PICK i \in DOMAIN chunks[DayOf(x.at)] :
            chunks[DayOf(x.at)][i] = [id |-> x.id, at |-> x.at, part |-> "whole"]
    BY <2>3 DEF AppendedInv
  <2>5. ~((DayOf(x.at) + 1) * DayTicks + ShortestRetention < now)
    BY <1>1, <2>1, <2>2, <2>3, ExpiredIsOld
  <2>6. chunks[DayOf(x.at)][i].part = "whole"
    BY <2>4
  <2>7. i \in DOMAIN chunks'[DayOf(x.at)] /\ chunks'[DayOf(x.at)][i] = chunks[DayOf(x.at)][i]
    BY <2>2, <2>5, <2>6 DEF FilesStep
  <2> QED
    BY <2>4, <2>7
<1>3. CASE FinishWrite
  <2>1. /\ wpc = "write" /\ part = "bare" /\ ExtendChunk("whole")
        /\ appended' = appended \cup {[id |-> made, at |-> ts]}
        /\ UNCHANGED <<now, exists, ts, segment, made>>
    BY <1>3 DEF FinishWrite
  <2>2. segment = DayOf(ts) /\ segment \in Days /\ segment # NoDay
    BY <2>1, DayInDays, DaysAreNats DEF StoreInv, WriterInv, StoreTypeOK
  <2>3. CASE linked
    <3> DEFINE n == Len(chunks[segment])
    <3>1. n \in DOMAIN chunks'[segment]
          /\ chunks'[segment][n] = [id |-> made, at |-> ts, part |-> "whole"]
      <4>1. part # "none"
        BY <2>1
      <4> QED
        BY <2>1, <2>3, <4>1, ExtendOK
    <3>2. ASSUME NEW x \in appended', Young(x.at)'
          PROVE  \E i \in DOMAIN chunks'[DayOf(x.at)] :
                    chunks'[DayOf(x.at)][i] = [id |-> x.id, at |-> x.at, part |-> "whole"]
      <4>1. CASE x \in appended
        BY <1>2, <3>2, <4>1
      <4>2. CASE x = [id |-> made, at |-> ts]
        <5>1. x.id = made /\ x.at = ts
          BY <4>2
        <5> HIDE DEF n
        <5> QED
          BY <2>2, <3>1, <5>1
      <4> QED
        BY <2>1, <4>1, <4>2
    <3> QED
      BY <3>2 DEF AppendedInv
  <2>4. CASE ~linked
    <3>1. (segment + 1) * DayTicks + ShortestRetention < now
      BY <2>2, <2>4 DEF IndexInv, UnlinkedInv
    <3>2. ~(ts + ShortestRetention >= now')
      <4>1. \A t \in Nat : DayOf(t) = segment => ~(t + ShortestRetention >= now')
        BY <1>1, <2>2, <3>1, ExpiredIsOld DEF Young
      <4> QED
        BY <2>2, <4>1, StoreNats
    <3>3. ASSUME NEW x \in appended', Young(x.at)' PROVE x \in appended
      <4>1. x.at # ts
        BY <3>2, <3>3 DEF Young
      <4>2. x # [id |-> made, at |-> ts]
        BY <4>1
      <4> QED
        BY <2>1, <4>2
    <3> QED
      BY <1>2, <3>3 DEF AppendedInv
  <2> QED
    BY <2>3, <2>4
<1>4. CASE appended' = appended
  BY <1>2, <1>4 DEF AppendedInv
<1> QED
  BY <1>3, <1>4
     DEF Next, DaemonStep, StartDaemon, BeginCapture, FailCapture, OpenSegment, WriteSome,
         FailWrite, StopDaemon, BeginPrune, RemoveSegment, BeginLoad, IndexNext, FailLoad,
         FinishLoad, Tick, vars

LEMMA CountHolds == Spec => [](StoreInv /\ IndexInv /\ CutInv /\ AppendedInv)
<1>1. Init => StoreInv /\ IndexInv /\ CutInv /\ AppendedInv
  <2> SUFFICES ASSUME Init
               PROVE  StoreInv /\ IndexInv /\ CutInv /\ AppendedInv
    OBVIOUS
  <2>1. Cut = {}
    BY DEF Cut, Init
  <2>2. Cardinality(Cut) = 0
    BY <2>1, FS_EmptySet
  <2>3. CutInv /\ AppendedInv
    BY <2>2 DEF Init, CutInv, Writing, AppendedInv
  <2> QED
    BY <2>3, InitHolds, IndexInit
<1>2. StoreInv /\ IndexInv /\ CutInv /\ AppendedInv /\ [Next]_vars
         => (StoreInv /\ IndexInv /\ CutInv /\ AppendedInv)'
  <2> SUFFICES ASSUME StoreInv, IndexInv, CutInv, AppendedInv, [Next]_vars
               PROVE  (StoreInv /\ IndexInv /\ CutInv /\ AppendedInv)'
    OBVIOUS
  <2>1. StoreInv' /\ FilesStep
    BY StepHolds
  <2> QED
    BY <2>1, IndexStep, CutKept, AppendedKept
<1> QED
  BY <1>1, <1>2, PTL DEF Spec

\* The cut chunks that no write is at work on are as many as the cut writes, or fewer.
LEMMA LeftBehind ==
    ASSUME StoreInv, IndexInv, CutInv
    PROVE  LET left == IF Writing THEN Cut \ {<<segment, Len(chunks[segment])>>} ELSE Cut IN
           IsFiniteSet(left) /\ Cardinality(left) <= cuts
<1> DEFINE w == <<segment, Len(chunks[segment])>>
           left == IF Writing THEN Cut \ {w} ELSE Cut
<1>1. IsFiniteSet(Cut) /\ Cardinality(Cut) \in Nat /\ cuts \in Nat
  BY CutFinite, FS_CardinalityType DEF IndexInv, IndexTypeOK
<1>2. CASE Writing
  <2>1. w \in Cut
    BY <1>2, WritingPlace DEF IndexInv
  <2> HIDE DEF w
  <2>2. IsFiniteSet(Cut \ {w}) /\ Cardinality(Cut \ {w}) = Cardinality(Cut) - 1
    BY <1>1, <2>1, FS_RemoveElement, Zenon
  <2>3. Cardinality(Cut) <= cuts + 1
    BY <1>2 DEF CutInv
  <2>4. left = Cut \ {w}
    BY <1>2
  <2> HIDE DEF left
  <2>5. IsFiniteSet(left) /\ Cardinality(left) <= cuts
    BY <1>1, <2>2, <2>3, <2>4
  <2> QED
    BY <2>5 DEF left, w
<1>3. CASE ~Writing
  <2>1. Cardinality(Cut) <= cuts
    BY <1>1, <1>3 DEF CutInv
  <2>2. left = Cut
    BY <1>3
  <2> QED
    BY <1>1, <2>1, <2>2
<1> QED
  BY <1>2, <1>3

\* A lost record is whole but glued to the chunk before it, which was cut.
LEMMA LostIsGlued ==
    ASSUME StoreInv, IndexInv, AppendedInv, NEW x \in Lost
    PROVE  \E p \in Cut :
              /\ Writing => p # <<segment, Len(chunks[segment])>>
              /\ p[2] + 1 \in DOMAIN chunks[p[1]]
              /\ chunks[p[1]][p[2] + 1].id = x.id /\ chunks[p[1]][p[2] + 1].at = x.at
<1> DEFINE d == DayOf(x.at)
<1>1. x \in appended /\ Young(x.at) /\ x.id \notin ReadableIds /\ x.at \in 0 .. MaxTime
  BY DEF Lost, Young, IndexInv, IndexTypeOK
<1>2. d \in Days
  BY <1>1, DayInDays
<1> HIDE DEF d
<1>3. PICK i \in DOMAIN chunks[d] : chunks[d][i] = [id |-> x.id, at |-> x.at, part |-> "whole"]
  BY <1>1 DEF AppendedInv, d
<1>4. ~Decodes(chunks[d], i)
  <2> SUFFICES ASSUME Decodes(chunks[d], i)
               PROVE  FALSE
    OBVIOUS
  <2>1. d \in exists
    BY <1>2 DEF StoreInv, ChunksInv
  <2>2. chunks[d][i] \in Records
    <3>1. chunks[d][i] \in ReadableIn(d)
      BY DEF ReadableIn, GoodLines
    <3> QED
      BY <2>1, <3>1 DEF Records
  <2>3. chunks[d][i].id = x.id
    BY <1>3
  <2> QED
    BY <1>1, <2>2, <2>3 DEF ReadableIds
<1>5. i # 1 /\ chunks[d][i - 1].part # "whole"
  <2>1. chunks[d][i].part = "whole"
    BY <1>3
  <2> QED
    BY <1>4, <2>1 DEF Decodes, Starts
<1>6. Len(chunks[d]) \in Nat /\ DOMAIN chunks[d] = 1 .. Len(chunks[d])
  BY <1>2 DEF StoreInv, StoreTypeOK
<1>7. i - 1 \in DOMAIN chunks[d] /\ (i - 1) + 1 = i /\ i - 1 # Len(chunks[d])
  <2>1. i \in 1 .. Len(chunks[d])
    BY <1>6
  <2>2. i \in Nat /\ i # 0 /\ i <= Len(chunks[d]) /\ i # 1
    BY <1>5, <1>6, <2>1
  <2>3. i - 1 \in 1 .. Len(chunks[d]) /\ (i - 1) + 1 = i /\ i - 1 # Len(chunks[d])
    BY <1>6, <2>2
  <2> QED
    BY <1>6, <2>3
<1>8. <<d, i - 1>> \in Cut
  BY <1>2, <1>5, <1>7, CutPlaces DEF IndexInv
<1>9. chunks[d][i].id = x.id /\ chunks[d][i].at = x.at
  BY <1>3
<1> DEFINE p == <<d, i - 1>>
<1>10. p[1] = d /\ p[2] = i - 1
  OBVIOUS
<1>11. p # <<segment, Len(chunks[segment])>>
  BY <1>7
<1>12. p \in Cut
  BY <1>8
<1> HIDE DEF p
<1>13. p[2] + 1 = i
  BY <1>7, <1>10
<1> QED
  BY <1>9, <1>10, <1>11, <1>12, <1>13

\* internal/history: a cut write, by a crash, a kill or a full disk, costs at
\* most one record besides its own, and every line a load counts as corrupt is
\* due to one, or is being written.
THEOREM LossTheorem == Spec => []LossIsBounded
<1>1. StoreInv /\ IndexInv /\ CutInv /\ AppendedInv => LossIsBounded
  <2> SUFFICES ASSUME StoreInv, IndexInv, CutInv, AppendedInv
               PROVE  LossIsBounded
    OBVIOUS
  <2> DEFINE w == <<segment, Len(chunks[segment])>>
             left == IF Writing THEN Cut \ {w} ELSE Cut
             Glued(x, p) == /\ p[2] + 1 \in DOMAIN chunks[p[1]]
                            /\ chunks[p[1]][p[2] + 1].id = x.id
                            /\ chunks[p[1]][p[2] + 1].at = x.at
             f == [x \in Lost |-> CHOOSE p \in left : Glued(x, p)]
  <2>1. IsFiniteSet(left) /\ Cardinality(left) <= cuts
    BY LeftBehind
  <2>2. ASSUME NEW x \in Lost PROVE \E p \in left : Glued(x, p)
    <3>1. PICK p \in Cut : (Writing => p # w) /\ Glued(x, p)
      BY LostIsGlued
    <3>2. p \in left
      BY <3>1
    <3> QED
      BY <3>1, <3>2
  <2>3. \A x \in Lost : x \in [id : Ids, at : 0 .. MaxTime]
    BY DEF Lost, IndexInv, IndexTypeOK
  <2>4. f \in Injection(Lost, left)
    <3> HIDE DEF left, Glued
    <3>1. \A x \in Lost : f[x] \in left /\ Glued(x, f[x])
      BY <2>2
    <3>2. ASSUME NEW x \in Lost, NEW y \in Lost, f[x] = f[y] PROVE x = y
      <4>1. x.id = y.id /\ x.at = y.at
        <5> HIDE DEF f
        <5> QED
          BY <3>1, <3>2 DEF Glued
      <4> QED
        BY <2>3, <4>1
    <3>3. f \in [Lost -> left] /\ DOMAIN f = Lost
      BY <3>1
    <3> HIDE DEF f
    <3> QED
      BY <3>2, <3>3 DEF Injection, IsInjective
  <2>5. Cardinality(Lost) <= cuts
    <3>1. Cardinality(Lost) <= Cardinality(left) /\ IsFiniteSet(Lost)
      <4> HIDE DEF f, left
      <4> QED
        BY <2>1, <2>4, FS_Injection
    <3>2. Cardinality(Lost) \in Nat /\ Cardinality(left) \in Nat /\ cuts \in Nat
      BY <2>1, <3>1, FS_CardinalityType DEF IndexInv, IndexTypeOK
    <3> HIDE DEF left
    <3> QED
      BY <2>1, <3>1, <3>2
  <2>6. CorruptLines \subseteq Cut
    <3> SUFFICES ASSUME NEW p \in CorruptLines
                 PROVE  p \in Cut
      OBVIOUS
    <3>1. p = <<p[1], p[2]>> /\ p[1] \in exists /\ p[2] \in DOMAIN chunks[p[1]]
          /\ Starts(chunks[p[1]], p[2]) /\ ~Decodes(chunks[p[1]], p[2])
      BY DEF CorruptLines
    <3>2. p[1] \in Days
      BY <3>1 DEF StoreInv, StoreTypeOK
    <3>3. chunks[p[1]][p[2]].part # "whole"
      BY <3>1 DEF Decodes
    <3> QED
      BY <3>1, <3>2, <3>3, CutPlaces DEF IndexInv
  <2>7. Cardinality(CorruptLines) <= cuts + (IF part = "none" THEN 0 ELSE 1)
    <3>1. IsFiniteSet(CorruptLines) /\ Cardinality(CorruptLines) <= Cardinality(Cut)
      BY <2>6, CutFinite, FS_Subset
    <3>2. Cardinality(CorruptLines) \in Nat /\ Cardinality(Cut) \in Nat /\ cuts \in Nat
      BY <3>1, CutFinite, FS_CardinalityType DEF IndexInv, IndexTypeOK
    <3> QED
      BY <3>1, <3>2 DEF CutInv, Writing
  <2> QED
    BY <2>5, <2>7 DEF LossIsBounded
<1> QED
  BY <1>1, CountHolds, PTL

=============================================================================
