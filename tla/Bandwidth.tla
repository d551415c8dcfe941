----------------------------- MODULE Bandwidth -----------------------------
(***************************************************************************)
(* How bytes moved on the wire become the figures of a snapshot: one       *)
(* capture of the daemon (cmd/daemon.go) reads the sockets, then the       *)
(* conntrack flows, then the byte counters of the sockets, while           *)
(* connections open, close, are replaced under the same addresses and move *)
(* bytes.  collector/conntrack_merge.go adds the flows that have no socket *)
(* on the host, the two trackers (bandwidth_tracker.go,                    *)
(* socket_bandwidth_tracker.go) turn counters into differences, and        *)
(* history/aggregate.go groups the rows of the record.  The live view runs *)
(* the same sequence in refreshData.                                       *)
(*                                                                         *)
(* Addresses are the normalized ones: every comparison in the code is made *)
(* after normalizeFlowIP.  A rate is a difference divided by the seconds   *)
(* of its sample and is left out; the clock counts captures.               *)
(***************************************************************************)
EXTENDS Integers, FiniteSets, FiniteSetsExt

CONSTANTS
    Worlds,        \* cases: the connections of a host, whether conntrack counts bytes,
                   \* and (a bound) how many events there are
    LocalAddrs,    \* localHostIPSet
    ListenPorts,   \* CollectListenPorts
    MaxDelta,      \* maxDeltaPerFlow
    TopLimit,      \* opts.topLimit, per side
    Bursts,        \* bound: how many bytes a connection moves at once
    MaxCaptures    \* bound: captures

ASSUME BandwidthAssumption ==
    /\ MaxDelta \in Nat /\ TopLimit \in Nat \ {0}
    /\ MaxCaptures \in Nat /\ Bursts \subseteq Nat

VARIABLES
    world,     \* the case: [conns, accounting, events]
    status,    \* of a connection: closed ones keep their conntrack entry for a while
    bytes,     \* of a connection: the counters of both its directions
    pc,        \* what the capture does next
    now,       \* the capture it is
    events,    \* how much has happened to the connections or failed
    rows,      \* conns: the rows of this capture, by tuple
    tracker,   \* bwTracker
    ssTracker, \* ssBWTracker
    bwSample,  \* of this capture: the seconds it covers, and if there is one
    record,    \* what Append is given
    since      \* history: what moved since each tracker's last sample, and in the last one

hostVars == <<world, status, bytes>>
vars == <<hostVars, pc, now, events, rows, tracker, ssTracker, bwSample, record, since>>

Conns == world.conns
Sources == {"conntrack", "ss"}
Zero == [orig |-> 0, reply |-> 0]
NoRows == [t \in {} |-> 0]
NoSample == [seconds |-> 0, available |-> FALSE]
NoRecord == [written |-> FALSE]
NewTracker == [prev |-> NoRows, prevAt |-> 0]

Ends == {"orig", "reply"}
Opposite(d) == IF d = "orig" THEN "reply" ELSE "orig"
Flip(t) == [src |-> t.dst, sport |-> t.dport, dst |-> t.src, dport |-> t.sport]
FallbackKey(t) == <<t.dst, t.sport, t.dport>>

-----------------------------------------------------------------------------
(* The hosts.  A connection has the tuples that conntrack knows it by, the  *)
(* request and the answer, and a socket for each of its ends on the host.   *)

Tuples == [src : Nat, sport : Nat, dst : Nat, dport : Nat]
TuplesOf(c) == {c.orig, Flip(c.orig), c.reply, Flip(c.reply)}
HostAddrs(w) == LocalAddrs \cup {t.src : t \in UNION {DOMAIN c.sockets : c \in w.conns}}

\* No two connections have a tuple in common.  A socket of the answering end is
\* not behind a translation, and the peer of a connection is not on the host,
\* unless it has its socket there, or the host knows its own address.
ASSUME WorldsAssumption ==
    \A w \in Worlds :
        /\ IsFiniteSet(w.conns) /\ w.accounting \in BOOLEAN /\ w.events \in Nat
        /\ \A c, d \in w.conns : c # d => TuplesOf(c) \cap TuplesOf(d) = {}
        /\ \A c \in w.conns :
              /\ c.orig \in Tuples /\ c.reply \in Tuples
              /\ c.tracked \in BOOLEAN /\ c.self \in BOOLEAN
              /\ DOMAIN c.sockets \subseteq {c.orig, c.reply}
              /\ \A t \in DOMAIN c.sockets : c.sockets[t] \in Nat
              /\ c.reply \in DOMAIN c.sockets => c.reply = Flip(c.orig)
              /\ \A t \in DOMAIN c.sockets :
                    t.src \in LocalAddrs \/ t.dst \notin HostAddrs(w) \/ Flip(t) \in DOMAIN c.sockets

-----------------------------------------------------------------------------
(* The trackers *)

\* Mutant: a restarted counter is taken for one that ran backwards.
clampDeltaAbs(v) == IF v < 0 THEN -v ELSE IF v > MaxDelta THEN 0 ELSE v

\* Mutant: a difference that is the cap itself is dropped.
clampDeltaStrict(v) == IF v < 0 \/ v >= MaxDelta THEN 0 ELSE v

\* Mutant: the sign of a difference is not looked at.
clampDeltaSigned(v) == IF v > MaxDelta THEN 0 ELSE v

\* A counter that went back belongs to another connection; a difference above
\* the cap is taken for an anomaly.
clampDelta(v) == IF v < 0 \/ v > MaxDelta THEN 0 ELSE v

\* What a sample is built from: counters of two directions, each of them the
\* traffic of a tuple, under the key the tracker remembers them by.
\* A flow is seen from both its ends; a socket from its own.
FlowCounters(f) ==
    [id |-> <<f.orig, f.reply>>, orig |-> f.origBytes, reply |-> f.replyBytes,
     ends |-> {<<f.orig, "orig">>, <<f.reply, "reply">>}]

SocketCounters(s) ==
    [id |-> s.tuple, orig |-> s.acked, reply |-> s.recv, ends |-> {<<s.tuple, "orig">>}]

\* The first sample of a key has no difference.
Delta(c, t) ==
    IF t.prevAt > 0 /\ c.id \in DOMAIN t.prev
    THEN [orig |-> clampDelta(c.orig - t.prev[c.id].orig),
          reply |-> clampDelta(c.reply - t.prev[c.id].reply)]
    ELSE Zero

\* addTupleBandwidth for every counter of the sample
ByTuple(counters, t) ==
    LET ends(u) == {x \in counters \X Ends : <<u, x[2]>> \in x[1].ends}
    IN  [u \in {e[1] : e \in UNION {c.ends : c \in counters}} |->
            [tx |-> SumFunction([x \in ends(u) |-> Delta(x[1], t)[x[2]]]),
             rx |-> SumFunction([x \in ends(u) |-> Delta(x[1], t)[Opposite(x[2])]])]]

\* Mutant: the counters of a flow the tracker knows are not replaced.
AdvancedNewOnly(counters, t) ==
    [prev |-> [id \in {c.id : c \in counters} |->
                 IF id \in DOMAIN t.prev THEN t.prev[id]
                 ELSE LET c == CHOOSE x \in counters : x.id = id IN [orig |-> c.orig, reply |-> c.reply]],
     prevAt |-> now]

\* Only what the sample has is remembered.
Advanced(counters, t) ==
    [prev |-> [id \in {c.id : c \in counters} |->
                 LET c == CHOOSE x \in counters : x.id = id IN [orig |-> c.orig, reply |-> c.reply]],
     prevAt |-> now]

\* BuildSnapshot of the two trackers
FlowSnapshot(flows) == ByTuple({FlowCounters(f) : f \in flows}, tracker)
SocketSnapshot(sockets) == ByTuple({SocketCounters(s) : s \in sockets}, ssTracker)

SampleOf(t) ==
    [seconds |-> IF t.prevAt > 0 THEN now - t.prevAt ELSE 0,
     available |-> t.prevAt > 0 /\ now > t.prevAt]

\* Mutant: the remote port is left out of the fallback key.
MatchesAnyRemotePort(byTuple, t) ==
    IF t \in DOMAIN byTuple THEN {t}
    ELSE {u \in DOMAIN byTuple : u.dst = t.dst /\ u.sport = t.sport}

\* The figures for a row: those of its own tuple, else those of every tuple to
\* the same peer with the same ports, which finds a container behind DNAT.
Matches(byTuple, t) ==
    IF t \in DOMAIN byTuple THEN {t}
    ELSE {u \in DOMAIN byTuple : FallbackKey(u) = FallbackKey(t)}

Measured(row, byTuple, t, source) ==
    [row EXCEPT !.tx = SumFunction([u \in Matches(byTuple, t) |-> byTuple[u].tx]),
                !.rx = SumFunction([u \in Matches(byTuple, t) |-> byTuple[u].rx]),
                !.source = source]

EnrichConnectionsWithBandwidth(conns, byTuple) ==
    [t \in DOMAIN conns |-> Measured(conns[t], byTuple, t, "conntrack")]

\* Mutant: the overlay replaces figures.
OverlayBandwidth(conns, byTuple) ==
    [t \in DOMAIN conns |->
        IF Matches(byTuple, t) = {} THEN conns[t] ELSE Measured(conns[t], byTuple, t, "ss")]

\* Only rows that have no figures yet and that the other source knows
OverlayMissingBandwidth(conns, byTuple) ==
    [t \in DOMAIN conns |->
        IF conns[t].tx + conns[t].rx > 0 \/ Matches(byTuple, t) = {} THEN conns[t]
        ELSE Measured(conns[t], byTuple, t, "ss")]

-----------------------------------------------------------------------------
(* Flows that have no socket *)

\* Mutant: the tuple of a request from outside is not turned round.
HostFacingUnturned(f, local) ==
    IF f.orig.src \in local /\ f.orig.dst \notin local THEN {f.orig}
    ELSE IF f.orig.dst \in local /\ f.orig.src \notin local THEN {f.orig}
    ELSE {}

\* The tuple as the host sees it: exactly one end is local.
HostFacing(f, local) ==
    IF f.orig.src \in local /\ f.orig.dst \notin local THEN {f.orig}
    ELSE IF f.orig.dst \in local /\ f.orig.src \notin local THEN {Flip(f.orig)}
    ELSE {}

NatProc == 0
NatRow == [proc |-> NatProc, self |-> FALSE, tx |-> 0, rx |-> 0, source |-> "none"]

MergeConntrackHostFlows(conns, flows) ==
    LET local == LocalAddrs \cup {t.src : t \in DOMAIN conns}
        facing == UNION {HostFacing(f, local) : f \in {g \in flows : g.established}}
    IN  [t \in DOMAIN conns \cup facing |-> IF t \in DOMAIN conns THEN conns[t] ELSE NatRow]

-----------------------------------------------------------------------------
(* The groups of a record *)

\* Mutant: the program's own connections count as outgoing.
OutgoingWithSelf(conns) == {t \in DOMAIN conns : t.sport \notin ListenPorts}

\* SplitConnectionsByDirection: what the listening ports receive, and the rest,
\* without the program's own
Incoming(conns) == {t \in DOMAIN conns : ~conns[t].self /\ t.sport \in ListenPorts}
Outgoing(conns) == {t \in DOMAIN conns : ~conns[t].self /\ t.sport \notin ListenPorts}

AggregateKey(conns, t, side) ==
    <<t.dst, IF side = "incoming" THEN t.sport ELSE t.dport, conns[t].proc>>

Aggregated(conns, tuples, side) ==
    LET group(k) == {t \in tuples : AggregateKey(conns, t, side) = k}
    IN  [k \in {AggregateKey(conns, t, side) : t \in tuples} |->
            [count |-> Cardinality(group(k)),
             tx |-> SumFunction([t \in group(k) |-> conns[t].tx]),
             rx |-> SumFunction([t \in group(k) |-> conns[t].rx])]]

TotalBytes(g) == g.tx + g.rx

\* Mutant: connections come before bytes.
SortsBeforeByCount(groups, j, k) ==
    \/ groups[j].count > groups[k].count
    \/ /\ groups[j].count = groups[k].count
       /\ \/ TotalBytes(groups[j]) > TotalBytes(groups[k])
          \/ /\ TotalBytes(groups[j]) = TotalBytes(groups[k])
             /\ \/ j[1] < k[1]
                \/ j[1] = k[1] /\ j[2] < k[2]
                \/ j[1] = k[1] /\ j[2] = k[2] /\ j[3] < k[3]

\* The order of the groups: bytes, then connections, then the key.
SortsBefore(groups, j, k) ==
    \/ TotalBytes(groups[j]) > TotalBytes(groups[k])
    \/ /\ TotalBytes(groups[j]) = TotalBytes(groups[k])
       /\ \/ groups[j].count > groups[k].count
          \/ /\ groups[j].count = groups[k].count
             /\ \/ j[1] < k[1]
                \/ j[1] = k[1] /\ j[2] < k[2]
                \/ j[1] = k[1] /\ j[2] = k[2] /\ j[3] < k[3]

\* The first TopLimit groups in that order
AggregateConnectionsByDirection(conns, tuples, side) ==
    LET groups == Aggregated(conns, tuples, side)
    IN  [k \in {k \in DOMAIN groups :
                   Cardinality({j \in DOMAIN groups : SortsBefore(groups, j, k)}) < TopLimit} |->
            groups[k]]

-----------------------------------------------------------------------------
(* The host *)

Tracked(c) == c.tracked /\ status[c] # "gone"

Flows ==
    {[orig |-> c.orig, reply |-> c.reply, established |-> status[c] = "open",
      origBytes |-> IF world.accounting THEN bytes[c].orig ELSE 0,
      replyBytes |-> IF world.accounting THEN bytes[c].reply ELSE 0] :
         c \in {d \in Conns : Tracked(d)}}

\* The end of a connection that a tuple is the traffic of
Direction(c, t) == IF t = c.orig THEN "orig" ELSE "reply"

Sockets == UNION {{<<c, t>> : t \in DOMAIN c.sockets} : c \in {d \in Conns : status[d] = "open"}}

SocketTable ==
    [t \in {s[2] : s \in Sockets} |->
        LET c == CHOOSE d \in Conns : <<d, t>> \in Sockets
        IN  [proc |-> c.sockets[t], self |-> c.self, tx |-> 0, rx |-> 0, source |-> "none"]]

SocketCounterTable ==
    {[tuple |-> s[2], acked |-> bytes[s[1]][Direction(s[1], s[2])],
      recv |-> bytes[s[1]][Opposite(Direction(s[1], s[2]))]] : s \in Sockets}

\* History: a source takes its sample.  "known" are the connections that were
\* in its last one and have not been replaced since; "due" is what this sample
\* has to account for.
Sees(source, c) == IF source = "conntrack" THEN c.tracked ELSE DOMAIN c.sockets # {}

Present(source) ==
    {c \in Conns : Sees(source, c) /\ (IF source = "conntrack" THEN Tracked(c) ELSE status[c] = "open")}

Taken(source) ==
    [since EXCEPT ![source] =
        [moved |-> [c \in Conns |-> Zero], known |-> Present(source),
         due |-> @.moved, measured |-> @.known \cap Present(source)]]

Reported ==
    [s \in Sources |-> [since[s] EXCEPT !.due = [c \in Conns |-> Zero], !.measured = {}]]

Event == events < world.events /\ events' = events + 1

\* What the kernel does takes effect for the capture until the last counter
\* has been read.
Open(c) ==
    /\ pc # "append"
    /\ Event
    /\ status[c] # "open"
    /\ status' = [status EXCEPT ![c] = "open"]
    /\ bytes' = [bytes EXCEPT ![c] = Zero]
    /\ since' = [s \in Sources |-> [since[s] EXCEPT !.known = @ \ {c}]]
    /\ UNCHANGED <<world, pc, now, rows, tracker, ssTracker, bwSample, record>>

Close(c) ==
    /\ pc # "append"
    /\ Event
    /\ \/ status[c] = "open" /\ status' = [status EXCEPT ![c] = "closing"]
       \/ status[c] = "closing" /\ status' = [status EXCEPT ![c] = "gone"]
    /\ UNCHANGED <<world, bytes, pc, now, rows, tracker, ssTracker, bwSample, record, since>>

Transfer(c, d, n) ==
    /\ pc # "append"
    /\ Event
    /\ status[c] = "open"
    /\ bytes' = [bytes EXCEPT ![c][d] = @ + n]
    /\ since' = [s \in Sources |-> IF Sees(s, c) THEN [since[s] EXCEPT !.moved[c][d] = @ + n] ELSE since[s]]
    /\ UNCHANGED <<world, status, pc, now, rows, tracker, ssTracker, bwSample, record>>

-----------------------------------------------------------------------------
(* The daemon *)

Discarded ==
    /\ rows' = NoRows
    /\ bwSample' = NoSample
    /\ record' = NoRecord

\* capture: CollectTopTalkers and CollectListenPorts; if one fails, the capture
\* is over before a tracker has seen anything.
CollectTopTalkers(ok) ==
    /\ pc = "idle"
    /\ now < MaxCaptures
    /\ now' = now + 1
    /\ \/ ok /\ pc' = "flows" /\ rows' = SocketTable /\ UNCHANGED events
       \/ ~ok /\ Event /\ UNCHANGED <<pc, rows>>
    /\ UNCHANGED <<hostVars, tracker, ssTracker, bwSample, record, since>>

\* What CollectConntrackFlowsTCP may return: an error; the flows; without
\* accounting the flows with no bytes, which the exec reader also calls an error
\* and the kernel reader does not.
FlowReadings ==
    {[flows |-> {}, err |-> TRUE], [flows |-> Flows, err |-> FALSE]}
        \cup (IF world.accounting \/ Flows = {} THEN {} ELSE {[flows |-> Flows, err |-> TRUE]})

\* Flows are merged even when they come with an error; the tracker only sees
\* them without one.
CollectConntrackFlowsTCP(reading) ==
    LET merged == MergeConntrackHostFlows(rows, reading.flows)
    IN  /\ pc = "flows"
        /\ pc' = "counters"
        /\ \/ /\ reading.err
              /\ rows' = merged
              /\ Event
              /\ UNCHANGED <<tracker, bwSample, since>>
           \/ /\ ~reading.err
              /\ UNCHANGED events
              /\ rows' = EnrichConnectionsWithBandwidth(merged, FlowSnapshot(reading.flows))
              /\ tracker' = Advanced({FlowCounters(f) : f \in reading.flows}, tracker)
              /\ bwSample' = SampleOf(tracker)
              /\ since' = Taken("conntrack")
        /\ UNCHANGED <<hostVars, now, ssTracker, record>>

\* The rows as they are recorded, and what the record says of them
Record(conns, sample) ==
    [written |-> TRUE, seconds |-> sample.seconds, available |-> sample.available,
     incoming |-> AggregateConnectionsByDirection(conns, Incoming(conns), "incoming"),
     outgoing |-> AggregateConnectionsByDirection(conns, Outgoing(conns), "outgoing")]

\* CollectSocketTCPCounters, the overlay, and the groups of the record
CollectSocketTCPCounters(ok) ==
    /\ pc = "counters"
    /\ pc' = "append"
    /\ \/ /\ ~ok
          /\ Event
          /\ UNCHANGED <<rows, ssTracker, bwSample, since>>
       \/ /\ ok
          /\ UNCHANGED events
          /\ ssTracker' = Advanced({SocketCounters(s) : s \in SocketCounterTable}, ssTracker)
          /\ since' = Taken("ss")
          /\ \/ /\ SampleOf(ssTracker).available
                /\ rows' = OverlayMissingBandwidth(rows, SocketSnapshot(SocketCounterTable))
                /\ bwSample' = IF bwSample.available THEN bwSample ELSE SampleOf(ssTracker)
             \/ ~SampleOf(ssTracker).available /\ UNCHANGED <<rows, bwSample>>
    /\ record' = Record(rows', bwSample')
    /\ UNCHANGED <<hostVars, now, tracker>>

\* Append writes the record or fails; the trackers have moved on either way.
Append ==
    /\ pc = "append"
    /\ pc' = "idle"
    /\ Discarded
    /\ since' = Reported
    /\ UNCHANGED <<hostVars, now, events, tracker, ssTracker>>

\* The daemon is stopped or dies, and is started again.
Restart ==
    /\ Event
    /\ pc' = "idle"
    /\ Discarded
    /\ tracker' = NewTracker
    /\ ssTracker' = NewTracker
    /\ since' = [s \in Sources |-> [Reported[s] EXCEPT !.known = {}]]
    /\ UNCHANGED <<hostVars, now>>

Init ==
    /\ world \in Worlds
    /\ status \in [Conns -> {"open", "gone"}]
    /\ bytes = [c \in Conns |-> IF status[c] = "open" THEN [orig |-> 1, reply |-> 1] ELSE Zero]
    /\ pc = "idle"
    /\ now = 0
    /\ events = 0
    /\ rows = NoRows
    /\ tracker = NewTracker
    /\ ssTracker = NewTracker
    /\ bwSample = NoSample
    /\ record = NoRecord
    /\ since = [s \in Sources |-> [moved |-> [c \in Conns |-> Zero], known |-> {},
                                   due |-> [c \in Conns |-> Zero], measured |-> {}]]

Next ==
    \/ \E c \in Conns : Open(c)
    \/ \E c \in Conns : Close(c)
    \/ \E c \in Conns, d \in Ends, n \in Bursts : Transfer(c, d, n)
    \/ \E ok \in BOOLEAN : CollectTopTalkers(ok)
    \/ \E reading \in FlowReadings : CollectConntrackFlowsTCP(reading)
    \/ \E ok \in BOOLEAN : CollectSocketTCPCounters(ok)
    \/ Append
    \/ Restart

Spec == Init /\ [][Next]_vars

-----------------------------------------------------------------------------
(* Correctness *)

Figures == [proc : Nat, self : BOOLEAN, tx : Nat, rx : Nat, source : {"none", "conntrack", "ss"}]
Counters == [orig : Nat, reply : Nat]
Groups(g) == \A k \in DOMAIN g : g[k].count \in Nat \ {0} /\ g[k].tx \in Nat /\ g[k].rx \in Nat
TrackerOK(t) ==
    /\ t.prevAt \in 0 .. MaxCaptures
    /\ \A id \in DOMAIN t.prev : t.prev[id] \in [orig : Nat, reply : Nat]

\* The types of the variables; no figure of a row or a group is negative.
TypeOK ==
    /\ world \in Worlds
    /\ status \in [Conns -> {"open", "closing", "gone"}]
    /\ bytes \in [Conns -> Counters]
    /\ pc \in {"idle", "flows", "counters", "append"}
    /\ now \in 0 .. MaxCaptures
    /\ events \in 0 .. world.events
    /\ \A t \in DOMAIN rows : rows[t] \in Figures
    /\ TrackerOK(tracker) /\ TrackerOK(ssTracker)
    /\ bwSample \in [seconds : Nat, available : BOOLEAN]
    /\ record.written => Groups(record.incoming) /\ Groups(record.outgoing)
    /\ since \in [Sources -> [moved : [Conns -> Counters], known : SUBSET Conns,
                              due : [Conns -> Counters], measured : SUBSET Conns]]

\* The connections that a tuple may be measured by, and which end of them
\* sends: those to its peer with its ports.
Candidates(t) ==
    {x \in Conns \X Ends : FallbackKey(x[1][x[2]]) = FallbackKey(t)}

Due(source, x, sent) ==
    since[source].due[x[1]][IF sent THEN x[2] ELSE Opposite(x[2])]

\* A row never shows more bytes, in either direction, than its connection, with
\* those to the same peer and ports, has moved since the last sample of the
\* source of its figures: counters that restart, are missed by a capture or are
\* read after an outage do not invent traffic (clampDelta, BuildSnapshot).
NothingInvented ==
    \A t \in DOMAIN rows :
        rows[t].source # "none" =>
            /\ rows[t].tx <= SumFunction([x \in Candidates(t) |-> Due(rows[t].source, x, TRUE)])
            /\ rows[t].rx <= SumFunction([x \in Candidates(t) |-> Due(rows[t].source, x, FALSE)])

\* A connection that was in the last sample of a source and still is, has no
\* namesake, and moved something, but no more than the cap, since then is shown
\* with exactly what it moved, over however many failed captures: in the row
\* that the flow or the socket belongs to.  Conntrack comes first; the sockets
\* answer for rows it has nothing on.
Measurable(source, t, x) ==
    LET tx == Due(source, x, TRUE)
        rx == Due(source, x, FALSE)
    IN  /\ x[1] \in since[source].measured
        /\ source = "ss" => t \in DOMAIN x[1].sockets
        /\ tx + rx > 0 /\ tx <= MaxDelta /\ rx <= MaxDelta

ShownExactly(source, t, x) ==
    /\ rows[t].source = source
    /\ rows[t].tx = Due(source, x, TRUE)
    /\ rows[t].rx = Due(source, x, FALSE)

LivingTrafficIsExact ==
    pc = "append" =>
        \A t \in DOMAIN rows : \A x \in Candidates(t) :
            Candidates(t) = {x} =>
                /\ world.accounting /\ Measurable("conntrack", t, x) => ShownExactly("conntrack", t, x)
                /\ /\ Measurable("ss", t, x)
                   /\ since["conntrack"].due[x[1]] = Zero \/ ~world.accounting
                   => ShownExactly("ss", t, x)

\* A connection has one row for each socket it has on the host, and one if it
\* has none: the flow that conntrack remembers of it is never a second row,
\* whichever side opened it and whatever was read between (hostFacingTuple).
OneRowPerConnection ==
    \A c \in Conns :
        LET mine == {t \in DOMAIN rows : t \in {c.orig, Flip(c.orig), c.reply, Flip(c.reply)}}
        IN  Cardinality(mine) <= (IF DOMAIN c.sockets = {} THEN 1 ELSE Cardinality(DOMAIN c.sockets))

GroupTotals(g) ==
    [count |-> SumFunction([k \in DOMAIN g |-> g[k].count]),
     total |-> SumFunction([k \in DOMAIN g |-> TotalBytes(g[k])])]

SideAccountsForRows(groups, side) ==
    LET mine == {t \in DOMAIN rows : ~rows[t].self /\ (t.sport \in ListenPorts <=> side = "incoming")}
        key(t) == AggregateKey(rows, t, side)
        moved(T) == SumFunction([t \in T |-> rows[t].tx + rows[t].rx])
    IN  /\ Cardinality(DOMAIN groups) <= TopLimit
        /\ GroupTotals(groups).count <= Cardinality(mine)
        /\ Cardinality(DOMAIN groups) < TopLimit =>
              GroupTotals(groups) = [count |-> Cardinality(mine), total |-> moved(mine)]
        /\ \A t \in mine : key(t) \notin DOMAIN groups =>
              /\ Cardinality(DOMAIN groups) = TopLimit
              /\ \A k \in DOMAIN groups :
                    moved({u \in mine : key(u) = key(t)}) <= TotalBytes(groups[k])

\* A record accounts for the rows: a side that is not cut has every connection
\* that is not the program's own once, and all their bytes; a side that is cut
\* drops no group of connections that together moved more than a group it keeps.
\* SplitConnectionsByDirection and AggregateConnectionsByDirection work on the
\* same rows one after the other.
RecordAccountsForRows ==
    record.written => /\ SideAccountsForRows(record.incoming, "incoming")
                      /\ SideAccountsForRows(record.outgoing, "outgoing")
=============================================================================
