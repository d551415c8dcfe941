---------------------------- MODULE SnapshotStore ----------------------------
(***************************************************************************)
(* The snapshot store (internal/history) and those who use it at the same  *)
(* time: the daemon that appends and prunes, `daemon prune`, and a replay  *)
(* that loads the index.  The only lock is the one that keeps the daemon   *)
(* alone as a writer.                                                      *)
(*                                                                         *)
(* A segment file is a sequence of chunks, one per Write call that wrote   *)
(* something: "torn" when the JSON is incomplete, "bare" when only the     *)
(* newline is missing, "whole".  The writer's process may die, and a Write *)
(* may fail, after any of them.  A line of the file is a chunk with all    *)
(* the chunks before it that lack their newline.                           *)
(***************************************************************************)
EXTENDS Naturals, Sequences, FiniteSets, Functions

CONSTANTS DayTicks,     \* the length of a local day
          Retention,    \* --retention-hours of the daemon, in ticks
          PruneRetention, \* --retention-hours of `daemon prune`
          MaxTime,      \* bound on the clock
          MaxRecords,   \* bound on the captures of a behaviour
          Daemon, Prune, \* the two that prune
          NoDay

ASSUME SnapshotStoreAssumption ==
    /\ DayTicks \in Nat \ {0}
    /\ Retention \in Nat \ {0} /\ PruneRetention \in Nat \ {0}
    /\ MaxTime \in Nat /\ MaxRecords \in Nat
    /\ Daemon # Prune /\ NoDay \notin Nat

DayOf(t) == t \div DayTicks

Days == 0 .. DayOf(MaxTime)
Ids == 1 .. MaxRecords
Pruners == {Daemon, Prune}
Keep == [a \in Pruners |-> IF a = Daemon THEN Retention ELSE PruneRetention]
ShortestRetention == IF Retention < PruneRetention THEN Retention ELSE PruneRetention

VARIABLES
    now,       \* the wall clock
    exists,    \* days that have a segment file
    chunks,    \* what was written to the file of each day
    wpc,       \* the daemon: down, idle, capture, write
    ts,        \* the timestamp of the capture under way
    segment,   \* the day of the file the writer has open, or NoDay
    linked,    \* that file still has a name
    part,      \* how much of the current line is written
    made,      \* captures so far; the current one's id
    pruneDay,  \* the day of the daemon's last prune; the next is due at midnight
    todo,      \* segments each prune has still to remove
    lpc,       \* LoadIndex: idle or load
    ltodo,     \* segments it has still to index
    lrefs,     \* the refs it has so far
    refs,      \* the index the replay holds
    appended,  \* history: records whose Append returned without an error
    cuts,      \* history: writes that ended before their newline
    atBegin    \* history: what was readable when LoadIndex began

disk == <<exists, chunks>>
writerVars == <<wpc, ts, segment, linked, part, made>>
pruneVars == <<pruneDay, todo>>
loadVars == <<lpc, ltodo, lrefs, refs, atBegin>>
vars == <<now, disk, writerVars, pruneVars, loadVars, appended, cuts>>

Parts == {"none", "torn", "bare", "whole"}
Chunk == [id : Ids, at : 0 .. MaxTime, part : Parts \ {"none"}]
Ref == [day : Days, pos : Ids, id : Ids, at : 0 .. MaxTime]

Init ==
    /\ now = 0
    /\ exists = {} /\ chunks = [d \in Days |-> <<>>]
    /\ wpc = "down" /\ ts = 0 /\ segment = NoDay /\ linked = FALSE /\ part = "none" /\ made = 0
    /\ pruneDay = 0 /\ todo = [a \in Pruners |-> {}]
    /\ lpc = "idle" /\ ltodo = {} /\ lrefs = {} /\ refs = <<>>
    /\ appended = {} /\ cuts = 0 /\ atBegin = {}

-----------------------------------------------------------------------------
(* Lines and refs. *)

\* A line starts at the first chunk and after every newline.
Starts(file, i) == i = 1 \/ file[i - 1].part = "whole"

\* decodeSnapshotRecordLine accepts the line at i: one complete JSON, ended by
\* a newline or by the end of the file.
Decodes(file, i) ==
    /\ i \in DOMAIN file /\ Starts(file, i)
    /\ file[i].part = "whole" \/ (file[i].part = "bare" /\ i = Len(file))

\* The lines of a file that decode, by their first chunk.
GoodLines(file) == {i \in DOMAIN file : Decodes(file, i)}

RefTo(d, i, pos) == [day |-> d, pos |-> pos, id |-> chunks[d][i].id, at |-> chunks[d][i].at]

\* Mutant: the offset is advanced before the ref is made.
IndexSegmentFileLate(d) == {RefTo(d, i, i + 1) : i \in GoodLines(chunks[d])}

\* indexSegmentFile: a ref for each line that decodes.
IndexSegmentFile(d) == {RefTo(d, i, i) : i \in GoodLines(chunks[d])}

\* The order of the index: capture time, file, offset.
Before(r, s) ==
    \/ r.at < s.at
    \/ r.at = s.at /\ r.day < s.day
    \/ r.at = s.at /\ r.day = s.day /\ r.pos < s.pos

\* Some refs, each once, in that order.
InOrder(S) ==
    CHOOSE f \in Bijection(1 .. Cardinality(S), S) :
        \A i, j \in DOMAIN f : i < j => Before(f[i], f[j])

\* ReadSnapshot: the record found at a ref, nothing when there is an error.
ReadSnapshot(r) ==
    IF r.day \in exists /\ Decodes(chunks[r.day], r.pos)
    THEN {chunks[r.day][r.pos].id} ELSE {}

-----------------------------------------------------------------------------
(* PruneDataDirByAge *)

\* Mutant: a segment counts as old when it begins before the cutoff.
ExpiredByStart(d, t, keep) == d # DayOf(t) /\ d * DayTicks + keep < t

\* The segment is not today's and ends before the cutoff.
Expired(d, t, keep) == d # DayOf(t) /\ (d + 1) * DayTicks + keep < t

\* List the data directory and choose what goes.
ListExpired(a) ==
    /\ todo' = [todo EXCEPT ![a] = {d \in exists : Expired(d, now, Keep[a])}]
    /\ pruneDay' = IF a = Daemon THEN DayOf(now) ELSE pruneDay

-----------------------------------------------------------------------------
(* The writer. *)

\* Writes to an unlinked file reach no reader.
AppendChunk(p) ==
    chunks' = IF linked
              THEN [chunks EXCEPT ![segment] = Append(@, [id |-> made, at |-> ts, part |-> p])]
              ELSE chunks

ExtendChunk(p) ==
    chunks' = IF linked
              THEN [chunks EXCEPT ![segment][Len(chunks[segment])].part = p]
              ELSE chunks

\* daemon run: it has the lock, and begins with a prune.
StartDaemon ==
    /\ wpc = "down"
    /\ wpc' = "idle" /\ ts' = now
    /\ ListExpired(Daemon)
    /\ UNCHANGED <<now, disk, segment, linked, part, made, loadVars, appended, cuts>>

\* A tick of the capture timer; it may have waited while a capture or a prune
\* was under way.
BeginCapture ==
    /\ wpc = "idle" /\ todo[Daemon] = {} /\ made < MaxRecords
    /\ wpc' = "capture"
    /\ ts' \in ts .. now
    /\ UNCHANGED <<now, disk, segment, linked, part, made, pruneVars, loadVars, appended, cuts>>

\* The collectors fail, or the segment cannot be opened: nothing is written.
FailCapture ==
    /\ wpc = "capture"
    /\ wpc' = "idle"
    /\ \/ UNCHANGED <<segment, linked>>
       \/ segment # DayOf(ts) /\ segment' = NoDay /\ linked' = FALSE
    /\ UNCHANGED <<now, disk, ts, part, made, pruneVars, loadVars, appended, cuts>>

\* Mutant: the segment is truncated when it is opened.
OpenSegmentTruncates ==
    /\ wpc = "capture"
    /\ wpc' = "write" /\ made' = made + 1
    /\ IF segment # DayOf(ts)
       THEN /\ segment' = DayOf(ts) /\ linked' = TRUE
            /\ exists' = exists \cup {DayOf(ts)}
            /\ chunks' = [chunks EXCEPT ![DayOf(ts)] = <<>>]
       ELSE UNCHANGED <<segment, linked, exists, chunks>>
    /\ UNCHANGED <<now, ts, part, pruneVars, loadVars, appended, cuts>>

\* Append: rotate to the segment of the timestamp's day, created or appended to.
OpenSegment ==
    /\ wpc = "capture"
    /\ wpc' = "write" /\ made' = made + 1
    /\ IF segment # DayOf(ts)
       THEN /\ segment' = DayOf(ts) /\ linked' = TRUE
            /\ exists' = exists \cup {DayOf(ts)}
       ELSE UNCHANGED <<segment, linked, exists>>
    /\ UNCHANGED <<now, chunks, ts, part, pruneVars, loadVars, appended, cuts>>

\* The kernel has taken some more bytes of the line.
WriteSome ==
    /\ wpc = "write"
    /\ \/ part = "none" /\ part' = "torn" /\ AppendChunk("torn")
       \/ part = "torn" /\ part' = "bare" /\ ExtendChunk("bare")
    /\ UNCHANGED <<now, exists, wpc, ts, segment, linked, made, pruneVars, loadVars, appended, cuts>>

\* The last byte; Append returns.
FinishWrite ==
    /\ wpc = "write" /\ part = "bare"
    /\ ExtendChunk("whole")
    /\ part' = "none"
    /\ wpc' = "idle"
    /\ appended' = appended \cup {[id |-> made, at |-> ts]}
    /\ UNCHANGED <<now, exists, ts, segment, linked, made, pruneVars, loadVars, cuts>>

CountCut == cuts' = IF part = "none" THEN cuts ELSE cuts + 1

\* Write returns an error (the disk is full): the daemon logs it and goes on.
FailWrite ==
    /\ wpc = "write"
    /\ wpc' = "idle" /\ part' = "none"
    /\ CountCut
    /\ UNCHANGED <<now, disk, ts, segment, linked, made, pruneVars, loadVars, appended>>

\* The daemon stops or is killed, anywhere.
StopDaemon ==
    /\ wpc # "down"
    /\ wpc' = "down" /\ ts' = 0 /\ part' = "none" /\ segment' = NoDay /\ linked' = FALSE
    /\ todo' = [todo EXCEPT ![Daemon] = {}]
    /\ CountCut
    /\ UNCHANGED <<now, disk, made, pruneDay, loadVars, appended>>

-----------------------------------------------------------------------------
(* Pruning, by the daemon after midnight and by `daemon prune` at any time. *)

BeginPrune(a) ==
    /\ todo[a] = {}
    /\ a = Daemon => wpc = "idle" /\ DayOf(now) # pruneDay
    /\ ListExpired(a)
    /\ UNCHANGED <<now, disk, writerVars, loadVars, appended, cuts>>

\* Remove the oldest of them; it may be gone already.
RemoveSegment(a) ==
    \E d \in todo[a] :
        /\ \A e \in todo[a] : d <= e
        /\ exists' = exists \ {d}
        /\ chunks' = [chunks EXCEPT ![d] = <<>>]
        /\ linked' = (linked /\ segment # d)
        /\ todo' = [todo EXCEPT ![a] = @ \ {d}]
        /\ UNCHANGED <<now, wpc, ts, segment, part, made, pruneDay, loadVars, appended, cuts>>

-----------------------------------------------------------------------------
(* LoadIndex *)

\* The records a reader can find now.
ReadableIn(d) == {chunks[d][i] : i \in GoodLines(chunks[d])}
Records == UNION {ReadableIn(d) : d \in exists}
ReadableIds == {r.id : r \in Records}

BeginLoad ==
    /\ lpc = "idle"
    /\ lpc' = "load" /\ ltodo' = exists /\ lrefs' = {} /\ atBegin' = ReadableIds
    /\ UNCHANGED <<now, disk, writerVars, pruneVars, refs, appended, cuts>>

OldestLeft == CHOOSE d \in ltodo : \A e \in ltodo : d <= e

\* Mutant: a segment that was pruned meanwhile ends the index early.
IndexNextGivesUp ==
    /\ lpc = "load" /\ ltodo # {}
    /\ IF OldestLeft \in exists
       THEN lrefs' = lrefs \cup IndexSegmentFile(OldestLeft) /\ ltodo' = ltodo \ {OldestLeft}
       ELSE lrefs' = lrefs /\ ltodo' = {}
    /\ UNCHANGED <<now, disk, writerVars, pruneVars, lpc, refs, atBegin, appended, cuts>>

\* Index one segment.
IndexNext ==
    /\ lpc = "load" /\ ltodo # {} /\ OldestLeft \in exists
    /\ lrefs' = lrefs \cup IndexSegmentFile(OldestLeft)
    /\ ltodo' = ltodo \ {OldestLeft}
    /\ UNCHANGED <<now, disk, writerVars, pruneVars, lpc, refs, atBegin, appended, cuts>>

\* The segment was pruned meanwhile: that fails the whole load, and the replay
\* keeps its old index.
FailLoad ==
    /\ lpc = "load" /\ ltodo # {} /\ OldestLeft \notin exists
    /\ lpc' = "idle" /\ lrefs' = {} /\ ltodo' = {} /\ atBegin' = {}
    /\ UNCHANGED <<now, disk, writerVars, pruneVars, refs, appended, cuts>>

\* Mutant: the new refs are added to the old.
FinishLoadAppends ==
    /\ lpc = "load" /\ ltodo = {}
    /\ refs' = refs \o InOrder(lrefs)
    /\ lpc' = "idle" /\ lrefs' = {} /\ atBegin' = {}
    /\ UNCHANGED <<now, disk, writerVars, pruneVars, ltodo, appended, cuts>>

\* The replay takes the sorted refs for its index.
FinishLoad ==
    /\ lpc = "load" /\ ltodo = {}
    /\ refs' = InOrder(lrefs)
    /\ lpc' = "idle" /\ lrefs' = {} /\ atBegin' = {}
    /\ UNCHANGED <<now, disk, writerVars, pruneVars, ltodo, appended, cuts>>

-----------------------------------------------------------------------------
Tick ==
    /\ now < MaxTime
    /\ now' = now + 1
    /\ UNCHANGED <<disk, writerVars, pruneVars, loadVars, appended, cuts>>

DaemonStep ==
    \/ StartDaemon \/ BeginCapture \/ FailCapture \/ OpenSegment
    \/ WriteSome \/ FinishWrite \/ FailWrite \/ StopDaemon

Next ==
    \/ DaemonStep
    \/ \E a \in Pruners : BeginPrune(a) \/ RemoveSegment(a)
    \/ BeginLoad \/ IndexNext \/ FailLoad \/ FinishLoad
    \/ Tick

Spec == Init /\ [][Next]_vars

-----------------------------------------------------------------------------
(* Properties *)

TypeOK ==
    /\ now \in 0 .. MaxTime
    /\ exists \subseteq Days
    /\ chunks \in [Days -> Seq(Chunk)]
    /\ wpc \in {"down", "idle", "capture", "write"}
    /\ ts \in 0 .. MaxTime
    /\ segment \in Days \cup {NoDay}
    /\ linked \in BOOLEAN
    /\ part \in Parts \ {"whole"}
    /\ made \in 0 .. MaxRecords
    /\ pruneDay \in Days
    /\ todo \in [Pruners -> SUBSET Days]
    /\ lpc \in {"idle", "load"}
    /\ ltodo \subseteq Days
    /\ lrefs \subseteq Ref
    /\ refs \in Seq(Ref)
    /\ appended \subseteq [id : Ids, at : 0 .. MaxTime]
    /\ cuts \in Nat
    /\ atBegin \subseteq Ids

\* Records the daemon was told are written, still young, and not to be found.
Lost == {r \in appended : r.at + ShortestRetention >= now /\ r.id \notin ReadableIds}

CorruptLines ==
    {line \in exists \X Ids :
        LET file == chunks[line[1]] IN
        line[2] \in DOMAIN file /\ Starts(file, line[2]) /\ ~Decodes(file, line[2])}

\* A write that is cut off, by a crash or a full disk, costs at most one record
\* besides its own: the one that is glued to its line.  And every line LoadIndex
\* counts as corrupt is due to a write that was cut, or is being written.
LossIsBounded ==
    /\ Cardinality(Lost) <= cuts
    /\ Cardinality(CorruptLines) <= cuts + (IF part = "none" THEN 0 ELSE 1)

\* A load that succeeds misses nothing that could be read all the time.
LoadIsComplete ==
    [][lpc = "load" /\ ltodo = {} /\ lpc' = "idle"
          => atBegin \cap ReadableIds \subseteq {refs'[i].id : i \in DOMAIN refs'}]_vars

\* The index is in the order of capture and names no record twice, whatever was
\* appended and pruned while it was loaded file by file.  And however old it is,
\* reading a snapshot that is still within the retention through it gives the
\* record the ref was made for, or an error.
IndexAgreesWithStore ==
    /\ \A i, j \in DOMAIN refs : i < j =>
          refs[i].at <= refs[j].at /\ refs[i].id < refs[j].id
    /\ \A i \in DOMAIN refs :
          refs[i].at + ShortestRetention >= now => ReadSnapshot(refs[i]) \subseteq {refs[i].id}

\* What readers can find, as SnapshotLog has it.
Readable == {[id |-> r.id, at |-> r.at, done |-> r.part = "whole"] : r \in Records}

Log == INSTANCE SnapshotLog WITH readable <- Readable, Retention <- ShortestRetention

\* The store implements SnapshotLog: complete snapshots stay readable until
\* their whole day has expired, through crashes, rotation and pruning.
ImplementsLog == Log!LogSpec
=============================================================================
