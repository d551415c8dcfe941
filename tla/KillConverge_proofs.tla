-------------------------- MODULE KillConverge_proofs --------------------------
(***************************************************************************)
(* The safety properties of the kill sweep, for every set of tuples, both  *)
(* backends and every limit on passes and time.                            *)
(*                                                                         *)
(* NeverUnderstates needs one fact about the environment: behind the DROP  *)
(* rules no step adds an active socket that a count would see, so a count  *)
(* taken after the last kill stays an upper bound.  A half-open socket     *)
(* cannot become one: the handshake needs a packet of the peer.            *)
(* ClaimIsTrue adds that a converged report counted none, and with netlink *)
(* nothing goes uncounted, so ClearedWhenConverged holds as well.          *)
(* SweepIsBounded needs to know how much time has passed and which pass is *)
(* running at every control point.                                         *)
(***************************************************************************)
EXTENDS KillConverge, FiniteSetTheorems, TLAPS

InPass == {"broad", "query", "kill", "conntrack", "count"}

\* A converged sweep is over and its last count was zero.
ConvergedInv ==
    report.converged => pc = "done" /\ ~report.afterErr /\ report.afterActive = 0

\* Before a pass starts there is time left, and before a sleep a pass too.
BoundInv ==
    /\ pc = "before" => elapsed = 0
    /\ pc \in InPass => elapsed < MaxDuration + SleepBetween
    /\ pc = "sleep" => report.iterations < MaxIterations
    /\ SweepIsBounded

IInv == TypeOK /\ ConvergedInv /\ BoundInv /\ NeverUnderstates

\* The active sockets a count of the backend sees.
Seen(k) == Active(k) \ Missed(k)

\* The active tuples form a finite set, counted by a natural number.
LEMMA SeenFinite ==
    ASSUME NEW k PROVE IsFiniteSet(Seen(k)) /\ Cardinality(Seen(k)) \in Nat
<1>1. Seen(k) \subseteq Tuples  BY DEF Seen, Active
<1> QED  BY <1>1, KillConvergeAssumption, FS_Subset, FS_CardinalityType DEF KillConvergeAssumption

\* Fewer active sockets, a smaller count.
LEMMA SeenShrinks ==
    ASSUME NEW k, NEW m, Seen(m) \subseteq Seen(k)
    PROVE  Cardinality(Seen(m)) <= Cardinality(Seen(k))
BY SeenFinite, FS_Subset

\* QueryPeerSnapshot's counts are natural numbers; the active one counts every
\* active socket but the half-open ones that ss does not list.
LEMMA StatesCounted ==
    ASSUME NEW k \in [Tuples -> States]
    PROVE  /\ CountStates(k).active = Cardinality(Seen(k))
           /\ CountStates(k).active \in Nat /\ CountStates(k).tw \in Nat
<1>1. InState(k, "TIME_WAIT") \cap Listed(k) \subseteq Tuples  BY DEF InState
<1>2. Cardinality(InState(k, "TIME_WAIT") \cap Listed(k)) \in Nat
      BY <1>1, KillConvergeAssumption, FS_Subset, FS_CardinalityType DEF KillConvergeAssumption
<1>3. Active(k) \cap Listed(k) = Seen(k)
      BY KillConvergeAssumption
         DEF KillConvergeAssumption, Seen, Active, Missed, Listed, ListedStates, InState, States
<1> QED  BY <1>2, <1>3, SeenFinite DEF CountStates

-----------------------------------------------------------------------------
(* What the steps do to the sockets. *)

\* The backend was chosen at start-up.
LEMMA ToolsKept ==
    ASSUME [Next]_vars PROVE tools' = tools
BY DEF Next, Sweep, CountBefore, BroadKill, QueryExactTuples, KillSocket, FinishKill,
       DropConntrack, CountAfter, WakeUp, PeerMoves, HostMoves, LiftBlock, vars

\* Behind the DROP rules no step of anyone adds an active socket that is seen.
LEMMA NoNewActive ==
    ASSUME TypeOK, Next, dropped, dropped'
    PROVE  Seen(sock') \subseteq Seen(sock)
<1> USE KillConvergeAssumption
    DEF Seen, Active, Missed, InState, TypeOK, States, KillConvergeAssumption
<1>1. CASE \E t \in Tuples : PeerMoves(t)  BY <1>1 DEF PeerMoves
<1>2. CASE \E t \in Tuples : HostMoves(t)  BY <1>2 DEF HostMoves
<1>3. CASE LiftBlock  BY <1>3 DEF LiftBlock
<1>4. CASE BroadKill  BY <1>4 DEF BroadKill, Destroy
<1>5. CASE \E t \in Tuples : KillSocket(t)  BY <1>5 DEF KillSocket, Destroy
<1>6. CASE CountBefore \/ QueryExactTuples \/ FinishKill \/ DropConntrack
           \/ CountAfter \/ WakeUp
      BY <1>6 DEF CountBefore, QueryExactTuples, FinishKill, DropConntrack, CountAfter, WakeUp
<1> QED  BY <1>1, <1>2, <1>3, <1>4, <1>5, <1>6 DEF Next, Sweep

-----------------------------------------------------------------------------
(* The end of a pass, whichever way it goes. *)

\* What EndPass does to a report r of the current pass: out, to the sleep or
\* straight to the next pass, with the bounds that hold there.
LEMMA EndPassEffect ==
    ASSUME NEW r \in Reports, elapsed' \in Nat, EndPass(r),
           elapsed' < MaxDuration + SleepBetween + PassTime
    PROVE  /\ pc' \in {"broad", "sleep", "done"}
           /\ report' \in Reports
           /\ report'.converged = r.converged /\ report'.afterErr = r.afterErr
           /\ report'.afterActive = r.afterActive
           /\ pc' # "done" => elapsed' < MaxDuration
           /\ pc' = "sleep" => report'.iterations < MaxIterations
           /\ pc' = "done" => report'.timedOut \/ report'.iterations >= MaxIterations
<1> USE KillConvergeAssumption DEF KillConvergeAssumption, Reports
<1>1. CASE elapsed' >= MaxDuration
      BY <1>1 DEF EndPass, Deadline
<1>2. CASE elapsed' < MaxDuration /\ r.iterations < MaxIterations /\ SleepBetween > 0
      BY <1>2 DEF EndPass, Deadline
<1>3. CASE elapsed' < MaxDuration /\ r.iterations < MaxIterations /\ ~(SleepBetween > 0)
      BY <1>3 DEF EndPass, Deadline
<1>4. CASE elapsed' < MaxDuration /\ ~(r.iterations < MaxIterations)
      BY <1>4 DEF EndPass, Deadline
<1> QED  BY <1>1, <1>2, <1>3, <1>4

-----------------------------------------------------------------------------
(* The inductive step, one action of the sweep at a time. *)

\* The initial states.
LEMMA InitInv ==
    ASSUME Init PROVE IInv
<1> USE KillConvergeAssumption DEF Init, EmptyReport, KillConvergeAssumption
<1>1. TypeOK
  <2>1. report \in Reports  BY DEF Reports
  <2> QED  BY <2>1 DEF TypeOK, PcLabels
<1>2. ConvergedInv  BY DEF ConvergedInv
<1>3. BoundInv  BY DEF BoundInv, SweepIsBounded, InPass
<1>4. NeverUnderstates  BY DEF NeverUnderstates
<1> QED  BY <1>1, <1>2, <1>3, <1>4 DEF IInv

\* Types and bounds are kept by every step.
LEMMA StepKeepsBounds ==
    ASSUME TypeOK, ConvergedInv, BoundInv, [Next]_vars
    PROVE  TypeOK' /\ ConvergedInv' /\ BoundInv'
<1> USE KillConvergeAssumption
    DEF TypeOK, ConvergedInv, BoundInv, SweepIsBounded, InPass, PcLabels,
        KillConvergeAssumption
<1>1. CASE CountBefore
  <2> DEFINE n == CountStates(sock)
  <2>1. n.active \in Nat /\ n.tw \in Nat  BY StatesCounted
  <2>2. \/ report' = [report EXCEPT !.beforeActive = n.active, !.afterActive = n.active,
                                    !.beforeTW = n.tw, !.afterTW = n.tw, !.iterations = 1]
        \/ report' = [report EXCEPT !.beforeErr = TRUE, !.afterErr = TRUE, !.iterations = 1]
        BY <1>1 DEF CountBefore
  <2> HIDE DEF n
  <2>3. report' \in Reports /\ report'.converged = report.converged
    <3>1. report \in Reports /\ 1 \in 0..MaxIterations  OBVIOUS
    <3>2. CASE report' = [report EXCEPT !.beforeActive = n.active, !.afterActive = n.active,
                                        !.beforeTW = n.tw, !.afterTW = n.tw, !.iterations = 1]
          BY <2>1, <3>1, <3>2 DEF Reports
    <3>3. CASE report' = [report EXCEPT !.beforeErr = TRUE, !.afterErr = TRUE, !.iterations = 1]
          BY <3>1, <3>3 DEF Reports
    <3> QED  BY <2>2, <3>2, <3>3
  <2>4. /\ pc = "before" /\ pc' = "broad"
        /\ UNCHANGED <<tools, sock, dropped, cached, toKill, killed, elapsed>>
        BY <1>1 DEF CountBefore
  <2> QED  BY <2>3, <2>4
<1>2. CASE BroadKill
      BY <1>2 DEF BroadKill, Destroy, States
<1>3. CASE QueryExactTuples
      BY <1>3 DEF QueryExactTuples, ExactTuples, Listed, Active, Reports
<1>4. CASE \E t \in Tuples : KillSocket(t)
      BY <1>4 DEF KillSocket, Destroy, States
<1>5. CASE FinishKill
      BY <1>5 DEF FinishKill, Reports
<1>6. CASE DropConntrack
  <2>1. PICK err \in BOOLEAN : report' = [report EXCEPT !.flowErr = err]
        BY <1>6 DEF DropConntrack
  <2>2. report' \in Reports /\ report'.converged = report.converged
        /\ report'.iterations = report.iterations
        BY <2>1 DEF Reports
  <2> QED  BY <1>6, <2>2 DEF DropConntrack
<1>7. CASE CountAfter
  <2> DEFINE n == CountStates(sock)
             counted == [report EXCEPT !.afterErr = FALSE,
                                       !.afterActive = n.active, !.afterTW = n.tw]
             missed == [report EXCEPT !.afterErr = TRUE]
  <2>1. n.active \in Nat /\ n.tw \in Nat  BY StatesCounted
  <2> HIDE DEF n
  <2>2. elapsed' \in Nat /\ elapsed' < MaxDuration + SleepBetween + PassTime
        BY <1>7 DEF CountAfter
  <2>3. ~report.converged /\ UNCHANGED <<tools, sock, dropped, cached, toKill, killed>>
        BY <1>7 DEF CountAfter
  <2>4. CASE n.active = 0 /\ report' = [counted EXCEPT !.converged = TRUE] /\ pc' = "done"
        BY <1>7, <2>1, <2>2, <2>4 DEF CountAfter, Reports
  <2>5. CASE n.active > 0 /\ EndPass(counted)
    <3>1. counted \in Reports /\ ~counted.converged  BY <2>1, <2>3 DEF Reports
    <3> HIDE DEF counted
    <3>2. report' \in Reports /\ ~report'.converged  BY <2>2, <2>5, <3>1, EndPassEffect
    <3>3. report'.iterations \in Nat  BY <3>2 DEF Reports
    <3> QED  BY <2>2, <2>3, <2>5, <3>1, <3>2, <3>3, EndPassEffect
  <2>6. CASE EndPass(missed)
    <3>1. missed \in Reports /\ ~missed.converged  BY <2>3 DEF Reports
    <3> HIDE DEF missed
    <3>2. report' \in Reports /\ ~report'.converged  BY <2>2, <2>6, <3>1, EndPassEffect
    <3>3. report'.iterations \in Nat  BY <3>2 DEF Reports
    <3> QED  BY <2>2, <2>3, <2>6, <3>1, <3>2, <3>3, EndPassEffect
  <2> QED  BY <1>7, <2>4, <2>5, <2>6 DEF CountAfter, n
<1>8. CASE WakeUp
      BY <1>8 DEF WakeUp, Reports
<1>9. CASE \E t \in Tuples : PeerMoves(t) \/ HostMoves(t)
      BY <1>9 DEF PeerMoves, HostMoves, sweepVars, States
<1>10. CASE LiftBlock
      BY <1>10 DEF LiftBlock, sweepVars
<1>11. CASE UNCHANGED vars
      BY <1>11 DEF vars, sweepVars
<1> QED  BY <1>1, <1>2, <1>3, <1>4, <1>5, <1>6, <1>7, <1>8, <1>9, <1>10, <1>11 DEF Next, Sweep

\* The last count stays an upper bound while the block lasts.
LEMMA StepKeepsCount ==
    ASSUME TypeOK, NeverUnderstates, [Next]_vars
    PROVE  NeverUnderstates'
<1> SUFFICES ASSUME pc' = "done", dropped', ~report'.afterErr
             PROVE  Cardinality(Seen(sock')) <= report'.afterActive
    BY ToolsKept DEF NeverUnderstates, Seen, Active, Missed, InState, SocketBackend
<1>1. CASE UNCHANGED vars
      BY <1>1 DEF vars, sweepVars, NeverUnderstates, Seen
<1>2. CASE Next /\ pc = "done"
  <2>1. report' = report /\ dropped
        BY <1>2 DEF Next, Sweep, CountBefore, BroadKill, QueryExactTuples, KillSocket,
                    FinishKill, DropConntrack, CountAfter, WakeUp, PeerMoves, HostMoves,
                    LiftBlock, sweepVars
  <2>2. Seen(sock') \subseteq Seen(sock)  BY <1>2, <2>1, NoNewActive
  <2>3. Cardinality(Seen(sock')) <= Cardinality(Seen(sock))  BY <2>2, SeenShrinks
  <2>4. report.afterActive \in Nat  BY DEF TypeOK, Reports
  <2> QED  BY <1>2, <2>1, <2>3, <2>4, SeenFinite DEF NeverUnderstates, Seen
<1>3. CASE Next /\ pc # "done"
  <2>1. CountAfter
        BY <1>3 DEF Next, Sweep, CountBefore, BroadKill, QueryExactTuples, KillSocket,
                    FinishKill, DropConntrack, WakeUp, PeerMoves, HostMoves, LiftBlock, sweepVars
  <2>2. sock' = sock  BY <2>1 DEF CountAfter
  <2> DEFINE n == CountStates(sock)
             counted == [report EXCEPT !.afterErr = FALSE,
                                       !.afterActive = n.active, !.afterTW = n.tw]
  <2>3. n.active = Cardinality(Seen(sock))  BY StatesCounted DEF TypeOK
  <2>4. n.active \in Nat  BY StatesCounted DEF TypeOK
  <2> HIDE DEF n
  <2>5. report \in Reports  BY DEF TypeOK
  <2>6. CASE report' = [counted EXCEPT !.converged = TRUE]
        BY <2>2, <2>3, <2>4, <2>5, <2>6, SeenFinite DEF Reports
  <2>7. CASE EndPass(counted)
        BY <2>2, <2>3, <2>4, <2>5, <2>7, SeenFinite DEF EndPass, Deadline, Reports
  <2>8. CASE EndPass([report EXCEPT !.afterErr = TRUE])
    <3>1. report'.afterErr  BY <2>5, <2>8 DEF EndPass, Deadline, Reports
    <3> QED  BY <3>1
  <2> QED  BY <2>1, <2>6, <2>7, <2>8 DEF CountAfter, n
<1> QED  BY <1>1, <1>2, <1>3

-----------------------------------------------------------------------------
(* The theorems. *)

\* Every behaviour of the sweep keeps the inductive invariant.
THEOREM Invariance == Spec => []IInv
<1>1. Init => IInv  BY InitInv
<1>2. IInv /\ [Next]_vars => IInv'
      BY StepKeepsBounds, StepKeepsCount DEF IInv
<1> QED  BY <1>1, <1>2, PTL DEF Spec

\* Every report and every control point of runKillPeerFlows has its type; in
\* particular the passes never exceed MaxIterations.
THEOREM SweepTypeCorrect == Spec => []TypeOK
<1>1. IInv => TypeOK  BY DEF IInv
<1> QED  BY <1>1, Invariance, PTL

\* The count a finished, still blocked sweep reports is too small by the
\* half-open sockets that ss does not list, and by nothing else.
THEOREM ReportNeverUnderstates == Spec => []NeverUnderstates
<1>1. IInv => NeverUnderstates  BY DEF IInv
<1> QED  BY <1>1, Invariance, PTL

\* A finished sweep behind the DROP rules whose last count was zero has left no
\* socket but the half-open ones of ss.
LEMMA NoneSeen ==
    ASSUME IInv, pc = "done", dropped, ~report.afterErr, report.afterActive = 0
    PROVE  Active(sock) \subseteq Missed(sock)
<1>1. Cardinality(Seen(sock)) = 0
      BY SeenFinite DEF IInv, NeverUnderstates, Seen
<1> QED  BY <1>1, SeenFinite, FS_EmptySet DEF Seen

\* A summary that claims all flows of a blocked peer were killed is true of every
\* connection but the half-open ones of ss, and stays true while the block lasts.
THEOREM ClaimsAreTrue == Spec => []ClaimIsTrue
<1>1. IInv => ClaimIsTrue
  <2> SUFFICES ASSUME IInv, pc = "done", dropped, ClaimsAllKilled
               PROVE  Active(sock) \subseteq Missed(sock)
      BY DEF ClaimIsTrue
  <2>1. report.afterActive \in Nat  BY DEF IInv, TypeOK, Reports
  <2>2. report.afterActive = 0
        BY <2>1 DEF IInv, ConvergedInv, ClaimsAllKilled, CountsKnown, IsPartial
  <2> QED  BY <2>2, NoneSeen DEF ClaimsAllKilled, CountsKnown
<1> QED  BY <1>1, Invariance, PTL

\* With netlink every active socket is counted, so a converged sweep behind the
\* DROP rules has left none.
THEOREM NetlinkConvergedIsClear ==
    Spec => [](SocketBackend = "netlink" => ClearedWhenConverged)
<1>1. IInv => (SocketBackend = "netlink" => ClearedWhenConverged)
  <2> SUFFICES ASSUME IInv, SocketBackend = "netlink", pc = "done", dropped, report.converged
               PROVE  Active(sock) = {}
      BY DEF ClearedWhenConverged
  <2>1. ~report.afterErr /\ report.afterActive = 0  BY DEF IInv, ConvergedInv
  <2>2. Missed(sock) = {}  BY DEF Missed
  <2> QED  BY <2>1, <2>2, NoneSeen
<1> QED  BY <1>1, Invariance, PTL

\* The sweep gives up early only at its deadline and outlives the deadline by
\* less than a sleep and a pass.
THEOREM SweepBounded == Spec => []SweepIsBounded
<1>1. IInv => SweepIsBounded  BY DEF IInv, BoundInv
<1> QED  BY <1>1, Invariance, PTL
=============================================================================
