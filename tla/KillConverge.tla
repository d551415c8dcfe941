----------------------------- MODULE KillConverge -----------------------------
(***************************************************************************)
(* KillPeerFlows (internal/actions/kill_converge.go): the bounded sweep    *)
(* that clears the connections of one peer and local port, against a peer  *)
(* that goes on opening and closing them.                                  *)
(*                                                                         *)
(* A pass is a broad kill, a kill of exact tuples, a deletion of conntrack *)
(* entries and a new count.  Passes repeat until nothing active is left,   *)
(* the time is up or MaxIterations passes have run.  Every kernel call is  *)
(* a step, so sockets come and go between listing, killing and counting.   *)
(*                                                                         *)
(* A timed block runs the sweep behind DROP rules: then no new socket can  *)
(* appear, unless the user lifts the block meanwhile.  A kill-only sweep   *)
(* runs without them.                                                      *)
(***************************************************************************)
EXTENDS Naturals, FiniteSets

CONSTANTS Tuples,         \* the 4-tuples of the peer and port in play
          Toolsets,       \* SocketManager and reliability of the hosts in play
          MaxIterations,  \* KillConvergeOptions after normalized()
          MaxDuration,
          SleepBetween,
          PassTime        \* bound on the time one pass takes

ASSUME KillConvergeAssumption ==
    /\ IsFiniteSet(Tuples)
    /\ Toolsets \subseteq [backend : {"ss", "netlink"}, mayFail : BOOLEAN]
    /\ MaxIterations \in Nat \ {0}
    /\ MaxDuration \in Nat \ {0}
    /\ SleepBetween \in Nat
    /\ PassTime \in Nat

VARIABLES
    tools,      \* what the host has; chosen at start-up
    sock,       \* the kernel's socket of each tuple
    dropped,    \* the DROP rules are in place
    pc,
    cached,     \* cachedSnapshotTuples: what the screen showed
    toKill,     \* tuples KillSockets has not tried yet
    killed,     \* KillSockets closed at least one
    elapsed,    \* time since startedAt
    report      \* KillConvergeReport

sweepVars == <<pc, cached, toKill, killed, elapsed, report>>
vars == <<tools, sock, dropped, sweepVars>>

\* The SocketManager in use, and whether queries may fail and kills fail or do
\* nothing.
SocketBackend == tools.backend
ToolsMayFail == tools.mayFail

\* Half-open, open, half-closed, and the two ends of a life.
States == {"NONE", "SYN_RECV", "ESTABLISHED", "CLOSING", "TIME_WAIT"}

\* Active states are all but TIME_WAIT.
Active(k) == {t \in Tuples : k[t] \notin {"NONE", "TIME_WAIT"}}

InState(k, s) == {t \in Tuples : k[t] = s}

Reports == [beforeActive : Nat, afterActive : Nat, beforeTW : Nat, afterTW : Nat,
            beforeErr : BOOLEAN, afterErr : BOOLEAN,
            socketErr : BOOLEAN, flowErr : BOOLEAN,
            iterations : 0..MaxIterations,
            timedOut : BOOLEAN, converged : BOOLEAN]

EmptyReport == [beforeActive |-> 0, afterActive |-> 0, beforeTW |-> 0, afterTW |-> 0,
                beforeErr |-> FALSE, afterErr |-> FALSE,
                socketErr |-> FALSE, flowErr |-> FALSE,
                iterations |-> 0, timedOut |-> FALSE, converged |-> FALSE]

PcLabels == {"before", "broad", "query", "kill", "conntrack", "count", "sleep", "done"}

Init ==
    /\ tools \in Toolsets
    /\ sock \in [Tuples -> States]
    /\ dropped \in BOOLEAN
    /\ pc = "before"
    /\ cached \in SUBSET Tuples
    /\ toKill = {}
    /\ killed = FALSE
    /\ elapsed = 0
    /\ report = EmptyReport

-----------------------------------------------------------------------------
(* The peer, the local server and the kernel's own timers. *)

\* A packet of the peer gets through: the handshake starts or ends, or the
\* peer closes.
PeerMoves(t) ==
    /\ ~dropped
    /\ \E s \in States :
          /\ \/ sock[t] \in {"NONE", "TIME_WAIT"} /\ s = "SYN_RECV"
             \/ sock[t] = "SYN_RECV" /\ s = "ESTABLISHED"
             \/ sock[t] = "ESTABLISHED" /\ s = "CLOSING"
             \/ sock[t] = "CLOSING" /\ s = "TIME_WAIT"
          /\ sock' = [sock EXCEPT ![t] = s]
    /\ UNCHANGED <<tools, dropped, sweepVars>>

\* The server closes a connection, or the kernel gives one up.
HostMoves(t) ==
    /\ \E s \in States :
          /\ \/ sock[t] = "ESTABLISHED" /\ s = "CLOSING"
             \/ sock[t] \in {"SYN_RECV", "CLOSING", "TIME_WAIT"} /\ s = "NONE"
          /\ sock' = [sock EXCEPT ![t] = s]
    /\ UNCHANGED <<tools, dropped, sweepVars>>

\* The block is removed by hand or its cleanup runs while the sweep goes on.
LiftBlock ==
    /\ dropped
    /\ dropped' = FALSE
    /\ UNCHANGED <<tools, sock, sweepVars>>

-----------------------------------------------------------------------------
(* SocketManager, both backends. *)

\* The states a backend shows: ss without -a leaves out half-open sockets and
\* TIME_WAIT, the netlink dump asks for every state.
ListedStates == IF SocketBackend = "ss" THEN {"ESTABLISHED", "CLOSING"}
                                        ELSE States \ {"NONE"}

Listed(k) == {t \in Tuples : k[t] \in ListedStates}

\* Mutant: only established sockets count as active.
CountEstablished(k) == [active |-> Cardinality(InState(k, "ESTABLISHED")),
                        tw |-> Cardinality(InState(k, "TIME_WAIT"))]

\* QueryPeerSnapshot: ActiveCount and TimeWaitCount of what is listed.
CountStates(k) == [active |-> Cardinality(Active(k) \cap Listed(k)),
                   tw |-> Cardinality(InState(k, "TIME_WAIT") \cap Listed(k))]

\* Mutant: only established tuples are listed for the exact kill.
ListEstablished(k) == InState(k, "ESTABLISHED")

\* QueryPeerSnapshot: ExactTuples.  The parser of ss lists a tuple before it
\* looks at its state, the netlink dump leaves TIME_WAIT out.
ExactTuples(k) == IF SocketBackend = "ss" THEN Listed(k) ELSE Active(k)

\* BroadKill: ss -K without a state closes what ss lists, netlink destroys what
\* QueryEstablished lists.
BroadTargets(k) == IF SocketBackend = "ss" THEN Listed(k) ELSE InState(k, "ESTABLISHED")

\* KillSocket: ss stops at its first command that exits 0, which asks for
\* established sockets, so the second is only reached when that one fails.
KillStates ==
    IF SocketBackend = "netlink" THEN States \ {"NONE"}
    ELSE IF ToolsMayFail THEN {"ESTABLISHED", "CLOSING"} ELSE {"ESTABLISHED"}

Destroy(k, T) == [t \in Tuples |-> IF t \in T THEN "NONE" ELSE k[t]]

-----------------------------------------------------------------------------
(* runKillPeerFlows *)

\* The sets a query or kill of tools that may fail can yield instead of all.
BestEffort(T) == IF ToolsMayFail THEN SUBSET T ELSE {T}

\* The first count fills both ends of the report.
CountBefore ==
    /\ pc = "before"
    /\ LET n == CountStates(sock) IN
       \/ report' = [report EXCEPT !.beforeActive = n.active, !.afterActive = n.active,
                                   !.beforeTW = n.tw, !.afterTW = n.tw,
                                   !.iterations = 1]
       \/ /\ ToolsMayFail
          /\ report' = [report EXCEPT !.beforeErr = TRUE, !.afterErr = TRUE,
                                      !.iterations = 1]
    /\ pc' = "broad"
    /\ UNCHANGED <<tools, sock, dropped, cached, toKill, killed, elapsed>>

\* Errors of the broad kill are ignored.
BroadKill ==
    /\ pc = "broad"
    /\ \E T \in BestEffort(BroadTargets(sock)) : sock' = Destroy(sock, T)
    /\ pc' = "query"
    /\ UNCHANGED <<tools, dropped, cached, toKill, killed, elapsed, report>>

\* The exact tuples, or an error, and always the cached ones.  With nothing to
\* kill the pass skips KillSockets and leaves SocketErr as it is.
QueryExactTuples ==
    /\ pc = "query"
    /\ \/ /\ toKill' = ExactTuples(sock) \cup cached
          /\ UNCHANGED report
       \/ /\ ToolsMayFail
          /\ toKill' = cached
          /\ report' = [report EXCEPT !.socketErr = TRUE]
    /\ pc' = IF toKill' = {} THEN "conntrack" ELSE "kill"
    /\ killed' = FALSE
    /\ UNCHANGED <<tools, sock, dropped, cached, elapsed>>

\* KillSocket of one tuple.  ss -K exits 0 whether or not it closed a socket;
\* SOCK_DESTROY of a socket that is gone is an error.
KillSocket(t) ==
    /\ pc = "kill" /\ t \in toKill
    /\ \/ /\ sock[t] \in KillStates
          /\ sock' = Destroy(sock, {t})
          /\ killed' = TRUE
       \/ /\ sock[t] \notin KillStates \/ ToolsMayFail
          /\ killed' = (killed \/ SocketBackend = "ss")
          /\ UNCHANGED sock
       \/ /\ ToolsMayFail
          /\ UNCHANGED <<sock, killed>>
    /\ toKill' = toKill \ {t}
    /\ UNCHANGED <<tools, dropped, pc, cached, elapsed, report>>

\* Mutant: the exact kill is repeated until one tuple was closed.
FinishKillRetry ==
    /\ pc = "kill" /\ toKill = {}
    /\ report' = [report EXCEPT !.socketErr = ~killed]
    /\ pc' = IF killed THEN "conntrack" ELSE "query"
    /\ UNCHANGED <<tools, sock, dropped, cached, toKill, killed, elapsed>>

\* KillSockets returns nil when one tuple was closed.
FinishKill ==
    /\ pc = "kill" /\ toKill = {}
    /\ report' = [report EXCEPT !.socketErr = ~killed]
    /\ pc' = "conntrack"
    /\ UNCHANGED <<tools, sock, dropped, cached, toKill, killed, elapsed>>

DropConntrack ==
    /\ pc = "conntrack"
    /\ \E err \in (IF ToolsMayFail THEN BOOLEAN ELSE {FALSE}) :
          report' = [report EXCEPT !.flowErr = err]
    /\ pc' = "count"
    /\ UNCHANGED <<tools, sock, dropped, cached, toKill, killed, elapsed>>

\* Mutant: the deadline is not looked at.
DeadlineNever(r, now) ==
    IF r.iterations < MaxIterations
    THEN [next |-> IF SleepBetween > 0 THEN "sleep" ELSE "again", report |-> r]
    ELSE [next |-> "done", report |-> r]

\* Mutant: one pass more than MaxIterations.
DeadlineOneMore(r, now) ==
    IF now >= MaxDuration THEN [next |-> "done", report |-> [r EXCEPT !.timedOut = TRUE]]
    ELSE IF r.iterations <= MaxIterations
    THEN [next |-> IF SleepBetween > 0 THEN "sleep" ELSE "again", report |-> r]
    ELSE [next |-> "done", report |-> r]

\* After a count that left something: stop at the deadline or after the last
\* pass, else sleep (if a sleep is configured) and go on.
Deadline(r, now) ==
    IF now >= MaxDuration THEN [next |-> "done", report |-> [r EXCEPT !.timedOut = TRUE]]
    ELSE IF r.iterations < MaxIterations
    THEN [next |-> IF SleepBetween > 0 THEN "sleep" ELSE "again", report |-> r]
    ELSE [next |-> "done", report |-> r]

\* The end of the loop body: to the next pass, to the sleep, or out.
EndPass(r) ==
    LET d == Deadline(r, elapsed') IN
    /\ report' = IF d.next = "again" THEN [d.report EXCEPT !.iterations = @ + 1]
                 ELSE d.report
    /\ pc' = IF d.next = "again" THEN "broad" ELSE d.next

\* The count of a pass, which took up to PassTime.
CountAfter ==
    /\ pc = "count"
    /\ \E d \in 0..PassTime : elapsed' = elapsed + d
    /\ LET n == CountStates(sock)
           counted == [report EXCEPT !.afterErr = FALSE,
                                     !.afterActive = n.active, !.afterTW = n.tw]
       IN  \/ /\ n.active = 0
              /\ report' = [counted EXCEPT !.converged = TRUE]
              /\ pc' = "done"
           \/ n.active > 0 /\ EndPass(counted)
           \/ ToolsMayFail /\ EndPass([report EXCEPT !.afterErr = TRUE])
    /\ UNCHANGED <<tools, sock, dropped, cached, toKill, killed>>

WakeUp ==
    /\ pc = "sleep"
    /\ elapsed' = elapsed + SleepBetween
    /\ report' = [report EXCEPT !.iterations = @ + 1]
    /\ pc' = "broad"
    /\ UNCHANGED <<tools, sock, dropped, cached, toKill, killed>>

Sweep ==
    \/ CountBefore \/ BroadKill \/ QueryExactTuples
    \/ (\E t \in Tuples : KillSocket(t)) \/ FinishKill
    \/ DropConntrack \/ CountAfter \/ WakeUp

Next ==
    \/ Sweep
    \/ \E t \in Tuples : PeerMoves(t) \/ HostMoves(t)
    \/ LiftBlock

Spec == Init /\ [][Next]_vars

\* The goroutine runs and every call returns; peer, server and user are free.
FairSpec == Spec /\ WF_vars(Sweep)

-----------------------------------------------------------------------------
(* What the user reads: BuildKillPart and the drop part of the summary. *)

CountsKnown == ~report.beforeErr /\ ~report.afterErr

\* Mutant: a sweep counts as partial only when its time was up.
IsPartialOnTimeout == report.timedOut /\ ~report.afterErr /\ report.afterActive > 0

IsPartial == ~report.converged /\ ~report.afterErr /\ report.afterActive > 0

\* "killed n/n flows" with no remaining part.
ClaimsAllKilled == CountsKnown /\ ~IsPartial

-----------------------------------------------------------------------------
(* Properties *)

TypeOK ==
    /\ tools \in Toolsets
    /\ sock \in [Tuples -> States]
    /\ dropped \in BOOLEAN
    /\ pc \in PcLabels
    /\ cached \subseteq Tuples
    /\ toKill \subseteq Tuples
    /\ killed \in BOOLEAN
    /\ elapsed \in Nat
    /\ report \in Reports

\* The active sockets no count of the backend sees: half-open ones under ss.
Missed(k) == IF SocketBackend = "ss" THEN InState(k, "SYN_RECV") ELSE {}

\* Behind the DROP rules a finished sweep understates what is alive by the
\* half-open sockets of ss at most: the count it reports was taken after its
\* last kill, and only goes down from there.
NeverUnderstates ==
    pc = "done" /\ dropped /\ ~report.afterErr =>
        Cardinality(Active(sock) \ Missed(sock)) <= report.afterActive

\* A summary of a timed block that claims every flow was killed is right but for
\* the half-open sockets of ss: the peer has no other active connection, and gets
\* none while the block lasts.
ClaimIsTrue ==
    pc = "done" /\ dropped /\ ClaimsAllKilled => Active(sock) \subseteq Missed(sock)

\* kill_converge.go: "Active states include all matching sockets except
\* TIME_WAIT", so behind the DROP rules a converged sweep leaves no active socket.
ClearedWhenConverged ==
    pc = "done" /\ dropped /\ report.converged => Active(sock) = {}

\* A sweep that gave up early did so at the deadline, and it outlives the
\* deadline by at most the sleep and the pass it was in.
SweepIsBounded ==
    /\ pc = "done" /\ ~report.converged /\ report.iterations < MaxIterations
          => report.timedOut
    /\ pc # "sleep" => elapsed < MaxDuration + SleepBetween + PassTime
    /\ pc = "sleep" => elapsed < MaxDuration

\* The sweep ends whatever the peer does.
SweepEnds == <>(pc = "done")

\* With working tools, a sweep behind the DROP rules converges.
BlockedSweepConverges ==
    (pc = "before" /\ dropped /\ ~ToolsMayFail) ~> (~dropped \/ (pc = "done" /\ report.converged))
=============================================================================
