------------------------ MODULE PeerBlocking_proofs -------------------------
(***************************************************************************)
(* Proofs about PeerBlocking, for every set of specs and goroutines, every *)
(* block length, both backends, and with or without failing commands.      *)
(***************************************************************************)
EXTENDS PeerBlocking, TLAPS

-----------------------------------------------------------------------------
(* The inductive invariant. *)

\* Whoever is inside an operation has a spec, and only the exec backend has
\* the control points between two iptables commands of BlockPeer.
TargetInv ==
    /\ \A w \in Workers : pc[w] \in InstallPc \cup TimedPc \cup LiftPc => target[w] \in Specs
    /\ pc[UI] \in LiftPc \cup {"confirm"} => target[UI] \in Specs
    /\ pc[UI] = "confirm" => minutes[UI] \in Minutes
    /\ \A w \in Workers : pc[w] \in {"block_out", "rollback"} => Backend = "exec"

\* The nft backend keeps both chains equal, and a flush still finds the rules
\* it listed unless it knows that they are gone.
NftInv ==
    Backend = "nft" =>
        /\ rules["INPUT"] = rules["OUTPUT"]
        /\ \A a \in Actors : pc[a] = "unblock_out" => got[a] <= rules["INPUT"][target[a]]

\* quitting is set exactly from 'q' on.
QuitInv ==
    /\ pc[UI] \in {"idle", "confirm", "list"} => ~quitting
    /\ pc[UI] \in {"cleanup", "exited"} => quitting
    /\ pc[UI] = "exited" => pending = {}

\* An error UnblockPeer is holding was recorded in failed.
ErrInv ==
    \A a \in Actors : /\ pc[a] = "unblock_in" => ~opErr[a]
                      /\ pc[a] = "unblock_out" /\ opErr[a] => target[a] \in failed

TypeInv == TypeOK /\ TargetInv /\ NftInv /\ QuitInv /\ ErrInv

RulesAre(s, in, out) == rules["INPUT"][s] = in /\ rules["OUTPUT"][s] = out

InMap(s) == IF HasActiveBlock(s) THEN 1 ELSE 0

\* What the kernel, the map and the timer hold while goroutine w works on s.
GoroutineInv(w, s) ==
    /\ pc[w] \in {"block_in", "block_out", "add"} => /\ ~HasActiveBlock(s)
                                                     /\ timer[w] <= minutes[w]
    /\ pc[w] = "block_in"  => RulesAre(s, 0, 0)
    /\ pc[w] = "block_out" => RulesAre(s, 1, 0)
    /\ pc[w] = "add"       => RulesAre(s, 1, 1)
    /\ pc[w] # "rollback"
    /\ pc[w] = "sweep" => activeBlocks[s] <= minutes[w]
    /\ pc[w] = "sleep" => activeBlocks[s] <= timer[w]
    /\ pc[w] \in LiftPc => activeBlocks[s] = 0
    /\ pc[w] = "unblock_in" => RulesAre(s, 1, 1)
    /\ pc[w] = "unblock_out" =>
          IF Backend = "exec" THEN RulesAre(s, 0, 1) /\ ~opErr[w]
                              ELSE RulesAre(s, 1, 1) /\ got[w] = 1
    /\ pc[w] = "remove" => RulesAre(s, 0, 0)

\* The same for the UI thread inside UnblockPeer.
UiInv(s) ==
    /\ pc[UI] = "unblock_in" => RulesAre(s, InMap(s), InMap(s))
    /\ pc[UI] = "unblock_out" =>
          IF Backend = "exec" THEN RulesAre(s, 0, InMap(s)) /\ ~opErr[UI]
                              ELSE RulesAre(s, InMap(s), InMap(s)) /\ got[UI] = InMap(s)
    /\ pc[UI] = "remove" => RulesAre(s, 0, 0)

\* An undisturbed spec has at most one goroutine, and the UI thread and the
\* goroutine are never both in the middle of an operation on it.
Alone(s) ==
    /\ \A v, w \in Workers : Blocking(v, s) /\ Blocking(w, s) => v = w
    /\ UiOperating(s) => \A w \in Workers : ~Operating(w, s)

\* Once 'q' was pressed no goroutine installs a block, and every entry is
\* still to be cleaned up.
QuitSpecInv(s) ==
    quitting =>
        /\ \A w \in Workers : target[w] = s => pc[w] \notin InstallPc
        /\ HasActiveBlock(s) => s \in pending \/ UiOperating(s)

SpecInv(s) ==
    /\ Alone(s)
    /\ \A w \in Workers : target[w] = s => GoroutineInv(w, s)
    /\ target[UI] = s => UiInv(s)
    /\ Quiet(s) => RulesAre(s, InMap(s), InMap(s))
    /\ QuitSpecInv(s)

\* While the program runs and after it exited; a crash freezes whatever
\* operation was under way.
UndisturbedInv == pc[UI] # "crashed" => \A s \in Specs : Undisturbed(s) => SpecInv(s)

IInv == TypeInv /\ EveryBlockHasATimer /\ UndisturbedInv

\* What the two chains of iptables hold of a spec while commands fail: a rule in
\* OUTPUT is the second half of a block that is in the map or about to be.
ChainsInv(s) ==
    Backend = "exec" /\ ~quitting /\ s \notin leftover =>
        /\ rules["OUTPUT"][s] <= 1
        /\ rules["OUTPUT"][s] > 0 =>
              HasActiveBlock(s) \/ \E w \in Workers : target[w] = s /\ pc[w] = "add"
        /\ \A w \in Workers : target[w] = s =>
              /\ pc[w] \in InstallPc => ~HasActiveBlock(s)
              /\ pc[w] \in {"block_out", "rollback", "add"} => rules["INPUT"][s] > 0
              /\ pc[w] \in {"block_in", "block_out", "rollback"} => rules["OUTPUT"][s] = 0
        /\ \A a \in Actors : target[a] = s /\ pc[a] = "remove" => rules["OUTPUT"][s] = 0

\* What an nft removal listed is still all there is when the batch runs.
BatchInv(s) ==
    Backend = "nft" /\ s \notin failed =>
        \A a \in Actors : target[a] = s =>
            /\ pc[a] = "unblock_out" => got[a] = rules["INPUT"][s]
            /\ pc[a] = "remove" => rules["INPUT"][s] = 0

UnsharedInv(s) == Alone(s) /\ ChainsInv(s) /\ BatchInv(s)

SharedIInv == TypeInv /\ \A s \in Specs : Unshared(s) => UnsharedInv(s)

-----------------------------------------------------------------------------
(* What one firewall command does to a table of rules. *)

\* iptables -I adds one rule to its chain and spec and touches nothing else.
LEMMA InsertRuleEffect ==
    ASSUME NEW r \in RuleTables, NEW c \in Chains, NEW s \in Specs
    PROVE  /\ InsertRule(r, c, s) \in RuleTables
           /\ \A d \in Chains, q \in Specs : InsertRule(r, c, s)[d][q] =
                  IF d = c /\ q = s THEN r[d][q] + 1 ELSE r[d][q]
BY DEF RuleTables, InsertRule

\* iptables -D removes at most one rule of its chain and spec.
LEMMA DeleteRuleEffect ==
    ASSUME NEW r \in RuleTables, NEW c \in Chains, NEW s \in Specs
    PROVE  /\ DeleteRule(r, c, s) \in RuleTables
           /\ \A d \in Chains, q \in Specs : DeleteRule(r, c, s)[d][q] =
                  IF d = c /\ q = s THEN (IF r[d][q] = 0 THEN 0 ELSE r[d][q] - 1)
                                   ELSE r[d][q]
BY DEF RuleTables, DeleteRule

\* Neither touches the rules of another spec.
LEMMA CommandElsewhere ==
    ASSUME NEW r \in RuleTables, NEW c \in Chains, NEW s \in Specs,
           NEW d \in Chains, NEW q \in Specs, q # s
    PROVE  InsertRule(r, c, s)[d][q] = r[d][q] /\ DeleteRule(r, c, s)[d][q] = r[d][q]
BY InsertRuleEffect, DeleteRuleEffect

\* One nft flush adds a rule to both chains.
LEMMA InsertPairEffect ==
    ASSUME NEW r \in RuleTables, NEW s \in Specs
    PROVE  \A d \in Chains, q \in Specs : InsertPair(r, s)[d][q] =
                  IF q = s THEN r[d][q] + 1 ELSE r[d][q]
BY DEF RuleTables, InsertPair

\* One nft flush removes the listed rules from both chains.
LEMMA DeleteListedEffect ==
    ASSUME NEW r \in RuleTables, NEW s \in Specs, NEW n \in Nat
    PROVE  \A d \in Chains, q \in Specs : DeleteListed(r, s, n)[d][q] =
                  IF q = s THEN r[d][q] - n ELSE r[d][q]
BY DEF RuleTables, DeleteListed

-----------------------------------------------------------------------------
(* Types. *)

\* The initial state has the types and the shapes TypeInv asks for.
LEMMA TypeInvInit == Init => TypeInv
<1> SUFFICES ASSUME Init PROVE TypeInv
  OBVIOUS
<1> USE PeerBlockingAssumption, BackendAssumption
<1>1. rules \in RuleTables /\ (Backend = "nft" => rules["INPUT"] = rules["OUTPUT"])
  BY DEF Init, LeftoverTables, RuleTables, Chains
<1>2. TypeOK
  BY <1>1 DEF Init, TypeOK, Actors, WorkerPc, UiPc, InstallPc, TimedPc, LiftPc, NoEntry
<1>3. TargetInv /\ QuitInv /\ ErrInv
  BY DEF Init, TargetInv, QuitInv, ErrInv, Actors, InstallPc, TimedPc, LiftPc
<1>4. NftInv
  BY <1>1 DEF Init, NftInv, Actors
<1> QED
  BY <1>2, <1>3, <1>4 DEF TypeInv

\* Every step keeps them.
LEMMA TypeInvNext == TypeInv /\ [Next]_vars => TypeInv'
<1> SUFFICES ASSUME TypeInv, [Next]_vars PROVE TypeInv'
  OBVIOUS
<1> USE PeerBlockingAssumption, BackendAssumption
    DEF TypeInv, TypeOK, TargetInv, NftInv, QuitInv, ErrInv, Actors,
        WorkerPc, UiPc, InstallPc, TimedPc, LiftPc, NoEntry, Gone, uiVars, histVars,
        At, Running
<1>1. ASSUME NEW w \in Workers, BlockInput(w) PROVE TypeInv'
  <2>1. rules' \in RuleTables
    BY <1>1, InsertRuleEffect DEF BlockInput, CommandFails, Chains
  <2> QED
    BY <1>1, <2>1 DEF BlockInput, Goto, CommandFails
<1>2. ASSUME NEW w \in Workers, BlockOutput(w) PROVE TypeInv'
  <2>1. rules' \in RuleTables
    BY <1>2, InsertRuleEffect DEF BlockOutput, CommandFails, Chains
  <2> QED
    BY <1>2, <2>1 DEF BlockOutput, Goto, CommandFails
<1>3. ASSUME NEW w \in Workers, RollbackInput(w) PROVE TypeInv'
  <2>1. rules' \in RuleTables
    BY <1>3, DeleteRuleEffect DEF RollbackInput, CommandFails, Chains
  <2> QED
    BY <1>3, <2>1 DEF RollbackInput, Goto, CommandFails
<1>4. ASSUME NEW w \in Workers, BlockFlush(w) PROVE TypeInv'
  BY <1>4 DEF RuleTables, Chains, BlockFlush, Goto, CommandFails, InsertPair
<1>5. ASSUME NEW w \in Workers, AddActiveBlock(w) PROVE TypeInv'
  BY <1>5 DEF AddActiveBlock, Goto
<1>6. ASSUME NEW w \in Workers, FinishSweep(w) PROVE TypeInv'
  BY <1>6 DEF FinishSweep, Goto
<1>7. ASSUME NEW w \in Workers, WakeUp(w) PROVE TypeInv'
  <2>1. pc' \in [Actors -> WorkerPc \cup UiPc] /\ pc'[w] \in {"unblock_in", "done"}
        /\ \A a \in Actors : a # w => pc'[a] = pc[a]
    BY <1>7 DEF WakeUp, Goto
  <2>2. raced' \subseteq Specs /\ opErr' \in [Actors -> BOOLEAN]
    <3>1. target[w] \in Specs /\ raced' \in {raced, raced \cup {target[w]}}
      BY <1>7 DEF WakeUp
    <3>2. opErr' \in {opErr, [opErr EXCEPT ![w] = FALSE]}
      BY <1>7 DEF WakeUp
    <3> QED
      BY <3>1, <3>2
  <2>3. ErrInv'
    <3>1. pc'[w] = "unblock_in" => ~opErr'[w]
      BY <1>7 DEF WakeUp, Goto
    <3>2. \A a \in Actors : a # w => opErr'[a] = opErr[a]
      BY <1>7 DEF WakeUp
    <3> QED
      BY <1>7, <2>1, <3>1, <3>2 DEF WakeUp
  <2> QED
    BY <1>7, <2>1, <2>2, <2>3 DEF WakeUp
<1>8. ASSUME NEW w \in Workers, KillOnly(w) PROVE TypeInv'
  BY <1>8 DEF KillOnly, Goto
<1>9. ASSUME NEW w \in Workers, RemoveExpired(w) PROVE TypeInv'
  BY <1>9 DEF RemoveExpired, Goto
<1>10. ASSUME NEW a \in Actors, DeleteInput(a) PROVE TypeInv'
  <2>1. rules' \in RuleTables
    BY <1>10, DeleteRuleEffect DEF DeleteInput, CommandFails, Chains
  <2>2. pc' = [pc EXCEPT ![a] = "unblock_out"] /\ Backend = "exec"
    BY <1>10 DEF DeleteInput, Goto
  <2>3. /\ failed' \subseteq Specs /\ opErr' \in [Actors -> BOOLEAN]
        /\ \A b \in Actors : b # a => opErr'[b] = opErr[b]
        /\ opErr'[a] => target[a] \in failed'
        /\ failed \subseteq failed'
    <3>1. target[a] \in Specs /\ ~opErr[a]
      BY <1>10 DEF DeleteInput
    <3>2. CASE opErr' = opErr /\ failed' = failed
      BY <3>1, <3>2
    <3>3. CASE opErr' = [opErr EXCEPT ![a] = TRUE] /\ failed' = failed \cup {target[a]}
      BY <3>1, <3>3
    <3> QED
      BY <1>10, <3>2, <3>3 DEF DeleteInput, CommandFails
  <2>4. UNCHANGED <<activeBlocks, target, minutes, timer, got, uiVars, leftover, raced, reblocked>>
    BY <1>10 DEF DeleteInput
  <2>5. pc[a] = "unblock_in"
    BY <1>10 DEF DeleteInput
  <2>6. ErrInv'
    BY <2>2, <2>3, <2>4, <2>5
  <2>7. TypeOK'
    BY <2>1, <2>2, <2>3, <2>4, <2>5
  <2> QED
    BY <2>2, <2>4, <2>5, <2>6, <2>7
<1>11. ASSUME NEW a \in Actors, DeleteOutput(a) PROVE TypeInv'
  <2>1. rules' \in RuleTables
    <3>1. rules' = DeleteRule(rules, "OUTPUT", target[a]) \/ rules' = rules
      BY <1>11 DEF DeleteOutput, CommandFails
    <3>2. target[a] \in Specs /\ "OUTPUT" \in Chains
      BY <1>11 DEF DeleteOutput, Chains
    <3> QED
      BY <3>1, <3>2, DeleteRuleEffect
  <2> QED
    BY <1>11, <2>1 DEF DeleteOutput, Goto, CommandFails, AfterUnblock
<1>12. ASSUME NEW a \in Actors, ListTagged(a) PROVE TypeInv'
  BY <1>12 DEF RuleTables, Chains, ListTagged, Goto, CommandFails, GetRules, AfterUnblock
<1>13. ASSUME NEW a \in Actors, DeleteFlush(a) PROVE TypeInv'
  BY <1>13 DEF RuleTables, Chains, DeleteFlush, Goto, CommandFails, DeleteListed, AfterUnblock
<1>14. ASSUME NEW s \in Specs, NEW m \in Minutes, SubmitKillForm(s, m) PROVE TypeInv'
  BY <1>14 DEF SubmitKillForm, Goto
<1>15. ASSUME NEW w \in Workers, ConfirmKill(w) PROVE TypeInv'
  <2>1. raced' \subseteq Specs /\ reblocked' \subseteq Specs
    BY <1>15 DEF ConfirmKill, Restarts
  <2>2. minutes[UI] \in Minutes /\ minutes[UI] \in Nat /\ target[UI] \in Specs
    BY <1>15 DEF ConfirmKill
  <2> QED
    BY <1>15, <2>1, <2>2 DEF ConfirmKill
<1>16. ASSUME NEW s \in Specs, RemoveSelected(s) PROVE TypeInv'
  BY <1>16 DEF RemoveSelected, BeginUnblock, Goto
<1>17. ASSUME NEW s \in Specs, CleanupNext(s) PROVE TypeInv'
  BY <1>17 DEF CleanupNext, BeginUnblock, Goto
<1>18. ASSUME CancelKill PROVE TypeInv'
  BY <1>18 DEF CancelKill, Goto
<1>19. ASSUME PromptBlockedPeers PROVE TypeInv'
  BY <1>19 DEF PromptBlockedPeers, Goto, SnapshotDisplayActiveBlocks, Tracked, ListBlockedPeers
<1>20. ASSUME FinishRemove PROVE TypeInv'
  BY <1>20 DEF FinishRemove, Goto, Tracked, ListBlockedPeers
<1>21. ASSUME CloseBlockedPeers PROVE TypeInv'
  BY <1>21 DEF CloseBlockedPeers, Goto
<1>22. ASSUME Quit PROVE TypeInv'
  BY <1>22 DEF Quit, Goto, Tracked
<1>23. ASSUME FinishCleanup PROVE TypeInv'
  BY <1>23 DEF FinishCleanup, Goto
<1>24. ASSUME Exit PROVE TypeInv'
  BY <1>24 DEF Exit, Goto
<1>25. ASSUME Crash PROVE TypeInv'
  BY <1>25 DEF Crash, Goto
<1>26. ASSUME Tick PROVE TypeInv'
  BY <1>26 DEF Tick, Countdown
<1>27. CASE UNCHANGED vars
  BY <1>27 DEF vars
<1> QED
  BY <1>1, <1>2, <1>3, <1>4, <1>5, <1>6, <1>7, <1>8, <1>9, <1>10, <1>11, <1>12, <1>13, <1>14, <1>15, <1>16, <1>17, <1>18, <1>19, <1>20, <1>21, <1>22, <1>23, <1>24, <1>25, <1>26, <1>27
     DEF Next, WorkerStep, UIStep, BlockPeer, UnblockPeer

\* Every state of every behaviour has the types of TypeOK.
THEOREM TypeCorrect == Spec => []TypeOK
<1>1. TypeInv => TypeOK
  BY DEF TypeInv
<1> QED
  BY <1>1, TypeInvInit, TypeInvNext, PTL DEF Spec

-----------------------------------------------------------------------------
(* Timers. *)

\* Every step keeps a goroutine behind every entry whose commands all worked.
LEMMA TimerNext == TypeInv /\ EveryBlockHasATimer /\ [Next]_vars => EveryBlockHasATimer'
<1> SUFFICES ASSUME TypeInv, EveryBlockHasATimer, [Next]_vars,
                    NEW q \in Specs, HasActiveBlock(q)', q \notin failed'
             PROVE  \E v \in Workers : target'[v] = q /\ pc'[v] \in TimedPc \cup LiftPc
  BY DEF EveryBlockHasATimer, Tracked
<1> USE PeerBlockingAssumption
    DEF TypeInv, TypeOK, TargetInv, ErrInv, Actors, TimedPc, LiftPc, HasActiveBlock, uiVars,
        histVars, At
<1> DEFINE Goal == \E v \in Workers : target'[v] = q /\ pc'[v] \in TimedPc \cup LiftPc
<1>0. HasActiveBlock(q) /\ q \notin failed =>
        \E v \in Workers : target[v] = q /\ pc[v] \in TimedPc \cup LiftPc
  BY DEF EveryBlockHasATimer, Tracked
<1>1. ASSUME NEW w \in Workers, BlockInput(w) PROVE Goal
  BY <1>0, <1>1 DEF BlockInput, Goto, CommandFails
<1>2. ASSUME NEW w \in Workers, BlockOutput(w) PROVE Goal
  BY <1>0, <1>2 DEF BlockOutput, Goto, CommandFails
<1>3. ASSUME NEW w \in Workers, RollbackInput(w) PROVE Goal
  BY <1>0, <1>3 DEF RollbackInput, Goto, CommandFails
<1>4. ASSUME NEW w \in Workers, BlockFlush(w) PROVE Goal
  BY <1>0, <1>4 DEF BlockFlush, Goto, CommandFails
<1>5. ASSUME NEW w \in Workers, AddActiveBlock(w) PROVE Goal
  BY <1>0, <1>5 DEF AddActiveBlock, Goto
<1>6. ASSUME NEW w \in Workers, FinishSweep(w) PROVE Goal
  BY <1>0, <1>6 DEF FinishSweep, Goto
<1>7. ASSUME NEW w \in Workers, WakeUp(w) PROVE Goal
  BY <1>0, <1>7 DEF WakeUp, Goto
<1>8. ASSUME NEW w \in Workers, KillOnly(w) PROVE Goal
  BY <1>0, <1>8 DEF KillOnly, Goto
<1>9. ASSUME NEW w \in Workers, RemoveExpired(w) PROVE Goal
  BY <1>0, <1>9 DEF RemoveExpired, Goto
<1>10. ASSUME NEW a \in Actors, DeleteInput(a) PROVE Goal
  BY <1>0, <1>10 DEF DeleteInput, Goto, CommandFails
<1>11. ASSUME NEW a \in Actors, DeleteOutput(a) PROVE Goal
  BY <1>0, <1>11 DEF DeleteOutput, Goto, CommandFails, AfterUnblock
<1>12. ASSUME NEW a \in Actors, ListTagged(a) PROVE Goal
  BY <1>0, <1>12 DEF ListTagged, Goto, CommandFails, AfterUnblock
<1>13. ASSUME NEW a \in Actors, DeleteFlush(a) PROVE Goal
  BY <1>0, <1>13 DEF DeleteFlush, Goto, CommandFails, AfterUnblock
<1>14. ASSUME NEW s \in Specs, NEW m \in Minutes, SubmitKillForm(s, m) PROVE Goal
  BY <1>0, <1>14 DEF SubmitKillForm, Goto
<1>15. ASSUME NEW w \in Workers, ConfirmKill(w) PROVE Goal
  BY <1>0, <1>15 DEF ConfirmKill
<1>16. ASSUME NEW s \in Specs, RemoveSelected(s) PROVE Goal
  BY <1>0, <1>16 DEF RemoveSelected, BeginUnblock, Goto
<1>17. ASSUME NEW s \in Specs, CleanupNext(s) PROVE Goal
  BY <1>0, <1>17 DEF CleanupNext, BeginUnblock, Goto
<1>18. ASSUME CancelKill PROVE Goal
  BY <1>0, <1>18 DEF CancelKill, Goto
<1>19. ASSUME PromptBlockedPeers PROVE Goal
  BY <1>0, <1>19 DEF PromptBlockedPeers, Goto
<1>20. ASSUME FinishRemove PROVE Goal
  BY <1>0, <1>20 DEF FinishRemove, Goto
<1>21. ASSUME CloseBlockedPeers PROVE Goal
  BY <1>0, <1>21 DEF CloseBlockedPeers, Goto
<1>22. ASSUME Quit PROVE Goal
  BY <1>0, <1>22 DEF Quit, Goto
<1>23. ASSUME FinishCleanup PROVE Goal
  BY <1>0, <1>23 DEF FinishCleanup, Goto
<1>24. ASSUME Exit PROVE Goal
  BY <1>0, <1>24 DEF Exit, Goto
<1>25. ASSUME Crash PROVE Goal
  BY <1>0, <1>25 DEF Crash, Goto
<1>26. ASSUME Tick PROVE Goal
  BY <1>0, <1>26 DEF Tick, Countdown, NoEntry
<1>27. CASE UNCHANGED vars
  BY <1>0, <1>27 DEF vars
<1> QED
  BY <1>1, <1>2, <1>3, <1>4, <1>5, <1>6, <1>7, <1>8, <1>9, <1>10, <1>11, <1>12, <1>13, <1>14, <1>15, <1>16, <1>17, <1>18, <1>19, <1>20, <1>21, <1>22, <1>23, <1>24, <1>25, <1>26, <1>27
     DEF Next, WorkerStep, UIStep, BlockPeer, UnblockPeer

-----------------------------------------------------------------------------
(* Undisturbed specs. *)

\* A step of one actor's firewall operation on another spec is invisible to q.
LEMMA ElsewhereStep ==
    ASSUME NEW q \in Specs, SpecInv(q), NEW a \in Actors, target[a] # q,
           UNCHANGED <<target, activeBlocks, minutes, timer, pending, quitting>>,
           \A b \in Actors : b # a => pc'[b] = pc[b] /\ opErr'[b] = opErr[b],
           \A b \in Actors : target[b] = q => got'[b] = got[b],
           \A d \in Chains : rules'[d][q] = rules[d][q]
    PROVE  SpecInv(q)'
BY DEF Actors, SpecInv, Alone, Blocking, Operating, UiOperating, GoroutineInv, UiInv,
       RulesAre, InMap, Quiet, QuitSpecInv, Chains, HasActiveBlock

\* Every step of a running program keeps SpecInv of a spec that is still
\* undisturbed after it.
LEMMA SpecInvNext ==
    ASSUME IInv, [Next]_vars, NEW q \in Specs, Undisturbed(q)', pc'[UI] # "crashed"
    PROVE  SpecInv(q)'
<1> USE PeerBlockingAssumption, BackendAssumption
    DEF TypeInv, TypeOK, TargetInv, NftInv, QuitInv, ErrInv, Actors, InstallPc, TimedPc,
        LiftPc, WorkerPc, UiPc, NoEntry, Gone, HasActiveBlock, uiVars, histVars, At, Running,
        Undisturbed, Unshared, SpecInv, Alone, Blocking, Operating, UiOperating, GoroutineInv, UiInv,
        RulesAre, InMap, Quiet, QuitSpecInv, Chains
<1>0. TypeInv /\ (pc[UI] # "crashed" /\ Undisturbed(q) => SpecInv(q))
  BY DEF IInv, UndisturbedInv
<1>1. ASSUME NEW w \in Workers, BlockInput(w) PROVE SpecInv(q)'
  <2>1. q = target[w] /\ q \notin failed' =>
          /\ rules'["INPUT"][q] = rules["INPUT"][q] + 1
          /\ rules'["OUTPUT"][q] = rules["OUTPUT"][q]
    BY <1>0, <1>1, InsertRuleEffect DEF BlockInput, CommandFails
  <2>2. q # target[w] => \A d \in Chains : rules'[d][q] = rules[d][q]
    <3>1. rules' = InsertRule(rules, "INPUT", target[w]) \/ rules' = rules
      BY <1>1 DEF BlockInput, CommandFails
    <3>2. target[w] \in Specs /\ "INPUT" \in Chains /\ rules \in RuleTables
      BY <1>0, <1>1 DEF BlockInput
    <3> QED
      BY <3>1, <3>2, CommandElsewhere
  <2> QED
    BY <1>0, <1>1, <2>1, <2>2 DEF BlockInput, Goto, CommandFails
<1>2. ASSUME NEW w \in Workers, BlockOutput(w) PROVE SpecInv(q)'
  <2>1. q = target[w] /\ q \notin failed' =>
          /\ rules'["OUTPUT"][q] = rules["OUTPUT"][q] + 1
          /\ rules'["INPUT"][q] = rules["INPUT"][q]
    <3>1. q = target[w] /\ q \notin failed' => rules' = InsertRule(rules, "OUTPUT", q)
      BY <1>2 DEF BlockOutput, CommandFails
    <3>2. rules \in RuleTables /\ "OUTPUT" \in Chains /\ "INPUT" \in Chains
      BY <1>0
    <3> QED
      BY <3>1, <3>2, InsertRuleEffect
  <2>2. q # target[w] => \A d \in Chains : rules'[d][q] = rules[d][q]
    <3>1. rules' = InsertRule(rules, "OUTPUT", target[w]) \/ rules' = rules
      BY <1>2 DEF BlockOutput, CommandFails
    <3>2. target[w] \in Specs /\ "OUTPUT" \in Chains /\ rules \in RuleTables
      BY <1>0, <1>2 DEF BlockOutput
    <3> QED
      BY <3>1, <3>2, CommandElsewhere
  <2> QED
    BY <1>0, <1>2, <2>1, <2>2 DEF BlockOutput, Goto, CommandFails
<1>3. ASSUME NEW w \in Workers, RollbackInput(w) PROVE SpecInv(q)'
  <2>1. q # target[w]
    BY <1>0, <1>3 DEF RollbackInput, CommandFails
  <2>2. \A d \in Chains : rules'[d][q] = rules[d][q]
    <3>1. rules' = DeleteRule(rules, "INPUT", target[w]) \/ rules' = rules
      BY <1>3 DEF RollbackInput, CommandFails
    <3>2. target[w] \in Specs /\ "INPUT" \in Chains /\ rules \in RuleTables
      BY <1>0, <1>3 DEF RollbackInput
    <3> QED
      BY <2>1, <3>1, <3>2, CommandElsewhere
  <2> QED
    BY <1>0, <1>3, <2>1, <2>2 DEF RollbackInput, Goto, CommandFails
<1>4. ASSUME NEW w \in Workers, BlockFlush(w) PROVE SpecInv(q)'
  BY <1>0, <1>4, InsertPairEffect DEF BlockFlush, Goto, CommandFails
<1>5. ASSUME NEW w \in Workers, AddActiveBlock(w) PROVE SpecInv(q)'
  BY <1>0, <1>5 DEF AddActiveBlock, Goto
<1>6. ASSUME NEW w \in Workers, FinishSweep(w) PROVE SpecInv(q)'
  BY <1>0, <1>6 DEF FinishSweep, Goto
<1>7. ASSUME NEW w \in Workers, WakeUp(w) PROVE SpecInv(q)'
  BY <1>0, <1>7 DEF WakeUp, Goto
<1>8. ASSUME NEW w \in Workers, KillOnly(w) PROVE SpecInv(q)'
  BY <1>0, <1>8 DEF KillOnly, Goto
<1>9. ASSUME NEW w \in Workers, RemoveExpired(w) PROVE SpecInv(q)'
  BY <1>0, <1>9 DEF RemoveExpired, Goto
<1>10. ASSUME NEW a \in Actors, DeleteInput(a) PROVE SpecInv(q)'
  <2>1. q = target[a] /\ q \notin failed' =>
          /\ rules'["INPUT"][q] = IF rules["INPUT"][q] = 0 THEN 0 ELSE rules["INPUT"][q] - 1
          /\ rules'["OUTPUT"][q] = rules["OUTPUT"][q]
    BY <1>0, <1>10, DeleteRuleEffect DEF DeleteInput, CommandFails
  <2>2. q # target[a] => \A d \in Chains : rules'[d][q] = rules[d][q]
    <3>1. rules' = DeleteRule(rules, "INPUT", target[a]) \/ rules' = rules
      BY <1>10 DEF DeleteInput, CommandFails
    <3>2. target[a] \in Specs /\ "INPUT" \in Chains /\ rules \in RuleTables
      BY <1>0, <1>10 DEF DeleteInput
    <3> QED
      BY <3>1, <3>2, CommandElsewhere
  <2>3. CASE q = target[a]
    BY <1>0, <1>10, <2>1, <2>3, SMTT(60) DEF DeleteInput, Goto, CommandFails
  <2>4. CASE q # target[a]
    BY <1>0, <1>10, <2>2, <2>4 DEF DeleteInput, Goto, CommandFails
  <2> QED
    BY <2>3, <2>4
<1>11. ASSUME NEW a \in Actors, DeleteOutput(a) PROVE SpecInv(q)'
  <2>1. q = target[a] /\ q \notin failed' =>
          /\ rules'["OUTPUT"][q] = IF rules["OUTPUT"][q] = 0 THEN 0 ELSE rules["OUTPUT"][q] - 1
          /\ rules'["INPUT"][q] = rules["INPUT"][q]
    <3>1. q = target[a] /\ q \notin failed' => rules' = DeleteRule(rules, "OUTPUT", q)
      BY <1>11 DEF DeleteOutput, CommandFails
    <3>2. rules \in RuleTables /\ "OUTPUT" \in Chains /\ "INPUT" \in Chains
      BY <1>0
    <3> QED
      BY <3>1, <3>2, DeleteRuleEffect
  <2>2. q # target[a] => \A d \in Chains : rules'[d][q] = rules[d][q]
    <3>1. rules' = DeleteRule(rules, "OUTPUT", target[a]) \/ rules' = rules
      BY <1>11 DEF DeleteOutput, CommandFails
    <3>2. target[a] \in Specs /\ "OUTPUT" \in Chains /\ rules \in RuleTables
      BY <1>0, <1>11 DEF DeleteOutput
    <3> QED
      BY <3>1, <3>2, CommandElsewhere
  <2>3. CASE q = target[a]
    BY <1>0, <1>11, <2>1, <2>3, SMTT(60) DEF DeleteOutput, Goto, CommandFails, AfterUnblock
  <2>4. CASE q # target[a]
    <3>1. SpecInv(q)
      BY <1>0, <1>11 DEF DeleteOutput, CommandFails
    <3>2. UNCHANGED <<target, activeBlocks, minutes, timer, pending, quitting>>
      BY <1>11 DEF DeleteOutput
    <3>3. \A b \in Actors : b # a => pc'[b] = pc[b] /\ opErr'[b] = opErr[b]
      BY <1>0, <1>11 DEF DeleteOutput, Goto
    <3>4. \A b \in Actors : target[b] = q => got'[b] = got[b]
      BY <1>0, <1>11, <2>4 DEF DeleteOutput
    <3>5. \A d \in Chains : rules'[d][q] = rules[d][q]
      BY <2>2, <2>4
    <3> HIDE DEF SpecInv
    <3> QED
      BY <3>1, <3>2, <3>3, <3>4, <3>5, <2>4, ElsewhereStep
  <2> QED
    BY <2>3, <2>4
<1>12. ASSUME NEW a \in Actors, ListTagged(a) PROVE SpecInv(q)'
  <2>1. CASE q = target[a]
    BY <1>0, <1>12, <2>1, SMTT(60) DEF ListTagged, GetRules, Goto, CommandFails, AfterUnblock
  <2>2. CASE q # target[a]
    <3>1. SpecInv(q)
      BY <1>0, <1>12 DEF ListTagged, CommandFails
    <3>2. UNCHANGED <<target, activeBlocks, minutes, timer, pending, quitting>>
      BY <1>12 DEF ListTagged
    <3>3. \A b \in Actors : b # a => pc'[b] = pc[b] /\ opErr'[b] = opErr[b]
      BY <1>0, <1>12 DEF ListTagged, Goto
    <3>4. \A b \in Actors : target[b] = q => got'[b] = got[b]
      BY <1>0, <1>12, <2>2 DEF ListTagged
    <3>5. \A d \in Chains : rules'[d][q] = rules[d][q]
      BY <1>12 DEF ListTagged, CommandFails
    <3> HIDE DEF SpecInv
    <3> QED
      BY <3>1, <3>2, <3>3, <3>4, <3>5, <2>2, ElsewhereStep
  <2> QED
    BY <2>1, <2>2
<1>13. ASSUME NEW a \in Actors, DeleteFlush(a) PROVE SpecInv(q)'
  BY <1>0, <1>13, DeleteListedEffect, SMTT(60) DEF DeleteFlush, Goto, CommandFails, AfterUnblock
<1>14. ASSUME NEW s \in Specs, NEW m \in Minutes, SubmitKillForm(s, m) PROVE SpecInv(q)'
  BY <1>0, <1>14 DEF SubmitKillForm, Goto
<1>15. ASSUME NEW w \in Workers, ConfirmKill(w) PROVE SpecInv(q)'
  <2>1. (\A v \in Workers : ~Blocking(v, q)) /\ Undisturbed(q) =>
          ~HasActiveBlock(q) /\ RulesAre(q, 0, 0)
    BY <1>0, <1>15 DEF ConfirmKill, IInv, EveryBlockHasATimer, Tracked
  <2>2. CASE q = target[UI] /\ minutes[UI] > 0
    BY <1>0, <1>15, <2>1, <2>2, SMTT(60) DEF ConfirmKill, Restarts
  <2>3. CASE ~(q = target[UI] /\ minutes[UI] > 0)
    BY <1>0, <1>15, <2>3, SMTT(60) DEF ConfirmKill, Restarts
  <2> QED
    BY <2>2, <2>3
<1>16. ASSUME NEW s \in Specs, RemoveSelected(s) PROVE SpecInv(q)'
  BY <1>0, <1>16, SMTT(60) DEF RemoveSelected, BeginUnblock, Goto
<1>17. ASSUME NEW s \in Specs, CleanupNext(s) PROVE SpecInv(q)'
  BY <1>0, <1>17 DEF CleanupNext, BeginUnblock, Goto
<1>18. ASSUME CancelKill PROVE SpecInv(q)'
  BY <1>0, <1>18 DEF CancelKill, Goto
<1>19. ASSUME PromptBlockedPeers PROVE SpecInv(q)'
  BY <1>0, <1>19 DEF PromptBlockedPeers, Goto
<1>20. ASSUME FinishRemove PROVE SpecInv(q)'
  BY <1>0, <1>20 DEF FinishRemove, Goto
<1>21. ASSUME CloseBlockedPeers PROVE SpecInv(q)'
  BY <1>0, <1>21 DEF CloseBlockedPeers, Goto
<1>22. ASSUME Quit PROVE SpecInv(q)'
  BY <1>0, <1>22 DEF Quit, Goto, Tracked
<1>23. ASSUME FinishCleanup PROVE SpecInv(q)'
  BY <1>0, <1>23 DEF FinishCleanup, Goto
<1>24. ASSUME Exit PROVE SpecInv(q)'
  BY <1>0, <1>24 DEF Exit, Goto
<1>25. ASSUME Crash PROVE SpecInv(q)'
  BY <1>0, <1>25 DEF Crash, Goto
<1>26. ASSUME Tick PROVE SpecInv(q)'
  BY <1>0, <1>26 DEF Tick, Countdown, NoEntry
<1>27. CASE UNCHANGED vars
  BY <1>0, <1>27 DEF vars
<1> QED
  BY <1>1, <1>2, <1>3, <1>4, <1>5, <1>6, <1>7, <1>8, <1>9, <1>10, <1>11, <1>12, <1>13, <1>14, <1>15, <1>16, <1>17, <1>18, <1>19, <1>20, <1>21, <1>22, <1>23, <1>24, <1>25, <1>26, <1>27
     DEF Next, WorkerStep, UIStep, BlockPeer, UnblockPeer

\* The whole invariant holds initially.
LEMMA IInvInit == Init => IInv
<1> SUFFICES ASSUME Init PROVE IInv
  OBVIOUS
<1>1. TypeInv
  BY TypeInvInit
<1>2. EveryBlockHasATimer
  BY DEF Init, EveryBlockHasATimer, Tracked, HasActiveBlock
<1>3. ASSUME NEW s \in Specs, Undisturbed(s) PROVE SpecInv(s)
  <2>1. RulesAre(s, 0, 0)
    BY <1>1, <1>3 DEF Init, Undisturbed, RulesAre, Chains, TypeInv, TypeOK, RuleTables
  <2> QED
    BY <2>1, PeerBlockingAssumption
       DEF Init, SpecInv, Alone, Blocking, Operating, UiOperating, GoroutineInv, UiInv,
           RulesAre, InMap, Quiet, QuitSpecInv, HasActiveBlock, Actors, InstallPc, TimedPc,
           LiftPc, NoEntry
<1> QED
  BY <1>1, <1>2, <1>3 DEF IInv, UndisturbedInv

\* Every step keeps it; after a crash only UndisturbedInv's premise is false.
LEMMA IInvNext == IInv /\ [Next]_vars => IInv'
<1> SUFFICES ASSUME IInv, [Next]_vars PROVE IInv'
  OBVIOUS
<1>1. TypeInv'
  BY TypeInvNext DEF IInv
<1>2. EveryBlockHasATimer'
  BY TimerNext DEF IInv
<1>3. UndisturbedInv'
  BY SpecInvNext DEF UndisturbedInv
<1> QED
  BY <1>1, <1>2, <1>3 DEF IInv

LEMMA IInvCorrect == Spec => []IInv
BY IInvInit, IInvNext, PTL DEF Spec

-----------------------------------------------------------------------------
(* Specs no two actors share, whatever commands fail. *)

\* The rules of q in both chains after one iptables command on spec s.
LEMMA CommandEffect ==
    ASSUME rules \in RuleTables, NEW s \in Specs, NEW q \in Specs, NEW c \in Chains,
           \/ rules' = InsertRule(rules, c, s)
           \/ rules' = DeleteRule(rules, c, s)
           \/ rules' = rules
    PROVE  /\ rules["INPUT"][q] \in Nat /\ rules["OUTPUT"][q] \in Nat
           /\ rules'["INPUT"][q] \in Nat /\ rules'["OUTPUT"][q] \in Nat
           /\ q # s => rules'["INPUT"][q] = rules["INPUT"][q] /\ rules'["OUTPUT"][q] = rules["OUTPUT"][q]
           /\ c = "INPUT" => rules'["OUTPUT"][q] = rules["OUTPUT"][q]
           /\ c = "OUTPUT" => rules'["INPUT"][q] = rules["INPUT"][q]
<1>1. rules' \in RuleTables
  BY InsertRuleEffect, DeleteRuleEffect
<1>2. \A d \in Chains : d # c \/ q # s => rules'[d][q] = rules[d][q]
  BY InsertRuleEffect, DeleteRuleEffect
<1> QED
  BY <1>1, <1>2 DEF RuleTables, Chains

\* Every step keeps UnsharedInv of a spec that no two actors share after it.
LEMMA UnsharedInvNext ==
    ASSUME SharedIInv, [Next]_vars, NEW q \in Specs, Unshared(q)'
    PROVE  UnsharedInv(q)'
<1> USE PeerBlockingAssumption, BackendAssumption
    DEF TypeInv, TypeOK, TargetInv, NftInv, ErrInv, Actors, InstallPc, TimedPc, LiftPc,
        WorkerPc, UiPc, NoEntry, Gone, HasActiveBlock, uiVars, histVars, At, Running,
        Unshared, UnsharedInv, Alone, ChainsInv, BatchInv, Blocking, Operating, UiOperating
<1>0. TypeInv /\ (Unshared(q) => UnsharedInv(q))
  BY DEF SharedIInv
<1>a. rules["INPUT"][q] \in Nat /\ rules["OUTPUT"][q] \in Nat
  BY <1>0 DEF RuleTables, Chains
<1>1. ASSUME NEW w \in Workers, BlockInput(w) PROVE UnsharedInv(q)'
  <2>1. target[w] \in Specs /\ "INPUT" \in Chains /\ rules \in RuleTables
    BY <1>0, <1>1 DEF BlockInput, Chains
  <2>2. rules' = InsertRule(rules, "INPUT", target[w]) \/ rules' = rules
    BY <1>1 DEF BlockInput, CommandFails
  <2>3. pc' = [pc EXCEPT ![w] = "block_out"] /\ q = target[w] => rules'["INPUT"][q] = rules["INPUT"][q] + 1
    BY <1>0, <1>1, <2>1, InsertRuleEffect DEF BlockInput, CommandFails, Goto
  <2> QED
    BY <1>0, <1>a, <1>1, <2>1, <2>2, <2>3, CommandEffect DEF BlockInput, Goto, CommandFails
<1>2. ASSUME NEW w \in Workers, BlockOutput(w) PROVE UnsharedInv(q)'
  <2>1. target[w] \in Specs /\ "OUTPUT" \in Chains /\ rules \in RuleTables
    BY <1>0, <1>2 DEF BlockOutput, Chains
  <2>2. rules' = InsertRule(rules, "OUTPUT", target[w]) \/ rules' = rules
    BY <1>2 DEF BlockOutput, CommandFails
  <2>3. q = target[w] => \/ rules' = rules /\ pc' = [pc EXCEPT ![w] = "rollback"]
                         \/ /\ rules'["OUTPUT"][q] = rules["OUTPUT"][q] + 1
                            /\ pc' = [pc EXCEPT ![w] = "add"]
    BY <1>0, <1>2, <2>1, InsertRuleEffect DEF BlockOutput, CommandFails, Goto
  <2> QED
    BY <1>0, <1>a, <1>2, <2>1, <2>2, <2>3, CommandEffect DEF BlockOutput, CommandFails, Goto
<1>3. ASSUME NEW w \in Workers, RollbackInput(w) PROVE UnsharedInv(q)'
  <2>1. target[w] \in Specs /\ "INPUT" \in Chains /\ rules \in RuleTables
    BY <1>0, <1>3 DEF RollbackInput, Chains
  <2>2. rules' = DeleteRule(rules, "INPUT", target[w]) \/ rules' = rules
    BY <1>3 DEF RollbackInput, CommandFails
  <2> QED
    BY <1>0, <1>a, <1>3, <2>1, <2>2, CommandEffect DEF RollbackInput, Goto, CommandFails
<1>4. ASSUME NEW w \in Workers, BlockFlush(w) PROVE UnsharedInv(q)'
  BY <1>0, <1>a, <1>4, InsertPairEffect DEF BlockFlush, Goto, CommandFails, Chains
<1>5. ASSUME NEW w \in Workers, AddActiveBlock(w) PROVE UnsharedInv(q)'
  BY <1>0, <1>5 DEF AddActiveBlock, Goto
<1>6. ASSUME NEW w \in Workers, FinishSweep(w) PROVE UnsharedInv(q)'
  BY <1>0, <1>6 DEF FinishSweep, Goto
<1>7. ASSUME NEW w \in Workers, WakeUp(w) PROVE UnsharedInv(q)'
  BY <1>0, <1>7 DEF WakeUp, Goto
<1>8. ASSUME NEW w \in Workers, KillOnly(w) PROVE UnsharedInv(q)'
  BY <1>0, <1>8 DEF KillOnly, Goto
<1>9. ASSUME NEW w \in Workers, RemoveExpired(w) PROVE UnsharedInv(q)'
  BY <1>0, <1>a, <1>9 DEF RemoveExpired, Goto
<1>10. ASSUME NEW a \in Actors, DeleteInput(a) PROVE UnsharedInv(q)'
  <2>1. target[a] \in Specs /\ "INPUT" \in Chains /\ rules \in RuleTables
    BY <1>0, <1>10 DEF DeleteInput, Chains
  <2>2. rules' = DeleteRule(rules, "INPUT", target[a]) \/ rules' = rules
    BY <1>10 DEF DeleteInput, CommandFails
  <2>3. /\ pc' = [pc EXCEPT ![a] = "unblock_out"] /\ pc[a] = "unblock_in" /\ Backend = "exec"
        /\ UNCHANGED <<activeBlocks, target, uiVars, leftover, raced, reblocked>>
    BY <1>10 DEF DeleteInput, Goto
  <2> QED
    BY <1>0, <1>a, <2>1, <2>2, <2>3, CommandEffect
<1>11. ASSUME NEW a \in Actors, DeleteOutput(a) PROVE UnsharedInv(q)'
  <2>1. target[a] \in Specs /\ "OUTPUT" \in Chains /\ rules \in RuleTables
    BY <1>0, <1>11 DEF DeleteOutput, Chains
  <2>2. rules' = DeleteRule(rules, "OUTPUT", target[a]) \/ rules' = rules
    BY <1>11 DEF DeleteOutput, CommandFails
  <2>3. /\ pc' \in {[pc EXCEPT ![a] = "done"], [pc EXCEPT ![a] = "list"], [pc EXCEPT ![a] = "remove"]}
        /\ pc[a] = "unblock_out" /\ Backend = "exec"
        /\ UNCHANGED <<activeBlocks, target, uiVars, leftover, raced, reblocked>>
    BY <1>11 DEF DeleteOutput, Goto, AfterUnblock
  <2>4. pc'[a] = "remove" /\ ~quitting => rules' = DeleteRule(rules, "OUTPUT", target[a])
    BY <1>0, <1>11 DEF DeleteOutput, Goto, CommandFails, AfterUnblock
  <2>5. q = target[a] => \/ rules'["OUTPUT"][q] = rules["OUTPUT"][q] /\ (quitting \/ pc'[a] # "remove")
                         \/ rules'["OUTPUT"][q] =
                               IF rules["OUTPUT"][q] = 0 THEN 0 ELSE rules["OUTPUT"][q] - 1
    BY <2>1, <2>2, <2>4, DeleteRuleEffect
  <2> QED
    BY <1>0, <1>a, <2>1, <2>2, <2>3, <2>5, CommandEffect
<1>12. ASSUME NEW a \in Actors, ListTagged(a) PROVE UnsharedInv(q)'
  BY <1>0, <1>a, <1>12 DEF ListTagged, GetRules, Goto, CommandFails, AfterUnblock
<1>13. ASSUME NEW a \in Actors, DeleteFlush(a) PROVE UnsharedInv(q)'
  BY <1>0, <1>a, <1>13, DeleteListedEffect, SMTT(60)
     DEF DeleteFlush, Goto, CommandFails, AfterUnblock, Chains
<1>14. ASSUME NEW s \in Specs, NEW m \in Minutes, SubmitKillForm(s, m) PROVE UnsharedInv(q)'
  BY <1>0, <1>14 DEF SubmitKillForm, Goto
<1>15. ASSUME NEW w \in Workers, ConfirmKill(w) PROVE UnsharedInv(q)'
  BY <1>0, <1>a, <1>15, SMTT(60) DEF ConfirmKill, Restarts
<1>16. ASSUME NEW s \in Specs, RemoveSelected(s) PROVE UnsharedInv(q)'
  BY <1>0, <1>16 DEF RemoveSelected, BeginUnblock, Goto
<1>17. ASSUME NEW s \in Specs, CleanupNext(s) PROVE UnsharedInv(q)'
  BY <1>0, <1>17 DEF CleanupNext, BeginUnblock, Goto
<1>18. ASSUME CancelKill PROVE UnsharedInv(q)'
  BY <1>0, <1>18 DEF CancelKill, Goto
<1>19. ASSUME PromptBlockedPeers PROVE UnsharedInv(q)'
  BY <1>0, <1>19 DEF PromptBlockedPeers, Goto
<1>20. ASSUME FinishRemove PROVE UnsharedInv(q)'
  BY <1>0, <1>a, <1>20 DEF FinishRemove, Goto
<1>21. ASSUME CloseBlockedPeers PROVE UnsharedInv(q)'
  BY <1>0, <1>21 DEF CloseBlockedPeers, Goto
<1>22. ASSUME Quit PROVE UnsharedInv(q)'
  BY <1>0, <1>22 DEF Quit, Goto
<1>23. ASSUME FinishCleanup PROVE UnsharedInv(q)'
  BY <1>0, <1>23 DEF FinishCleanup, Goto
<1>24. ASSUME Exit PROVE UnsharedInv(q)'
  BY <1>0, <1>24 DEF Exit, Goto
<1>25. ASSUME Crash PROVE UnsharedInv(q)'
  BY <1>0, <1>25 DEF Crash, Goto
<1>26. ASSUME Tick PROVE UnsharedInv(q)'
  BY <1>0, <1>26 DEF Tick, Countdown
<1>27. CASE UNCHANGED vars
  BY <1>0, <1>27 DEF vars
<1> QED
  BY <1>1, <1>2, <1>3, <1>4, <1>5, <1>6, <1>7, <1>8, <1>9, <1>10, <1>11, <1>12, <1>13, <1>14, <1>15, <1>16, <1>17, <1>18, <1>19, <1>20, <1>21, <1>22, <1>23, <1>24, <1>25, <1>26, <1>27
     DEF Next, WorkerStep, UIStep, BlockPeer, UnblockPeer

\* No spec is shared and no operation is under way at the start of a session.
LEMMA SharedIInvCorrect == Spec => []SharedIInv
<1>1. Init => SharedIInv
  <2> SUFFICES ASSUME Init, NEW s \in Specs PROVE UnsharedInv(s)
    BY TypeInvInit DEF SharedIInv
  <2>1. s \notin leftover => rules["OUTPUT"][s] = 0
    BY TypeInvInit DEF Init, TypeInv, TypeOK, RuleTables, Chains
  <2> QED
    BY <2>1, PeerBlockingAssumption
       DEF Init, UnsharedInv, Alone, ChainsInv, BatchInv, Blocking, Operating, UiOperating,
           Actors, InstallPc, TimedPc, LiftPc
<1>2. SharedIInv /\ [Next]_vars => SharedIInv'
  <2> SUFFICES ASSUME SharedIInv, [Next]_vars PROVE SharedIInv'
    OBVIOUS
  <2>1. TypeInv'
    BY TypeInvNext DEF SharedIInv
  <2>2. \A s \in Specs : Unshared(s)' => UnsharedInv(s)'
    BY UnsharedInvNext
  <2> QED
    BY <2>1, <2>2 DEF SharedIInv
<1> QED
  BY <1>1, <1>2, PTL DEF Spec

-----------------------------------------------------------------------------
(* The properties of PeerBlocking. *)

\* A block in the map never loses its goroutine, however goroutines and the UI
\* thread interleave, unless one of its firewall commands failed.
THEOREM TimersNeverLost == Spec => []EveryBlockHasATimer
<1>1. IInv => EveryBlockHasATimer
  BY DEF IInv
<1> QED
  BY <1>1, IInvCorrect, PTL

\* The kernel's rules and the map of active blocks agree on every undisturbed
\* spec whenever no operation on it is under way.
THEOREM RulesAndEntriesAgree == Spec => []RulesMatchEntries
<1>1. IInv => RulesMatchEntries
  BY DEF IInv, UndisturbedInv, SpecInv, RulesMatchEntries, RulesAre, InMap, Chains
<1> QED
  BY <1>1, IInvCorrect, PTL

\* No goroutine lifts an undisturbed block before the expiry it showed.
THEOREM BlocksLastUntilExpiry == Spec => []NoEarlyUnblock
<1>1. IInv => NoEarlyUnblock
  BY DEF IInv, TypeInv, TargetInv, UndisturbedInv, SpecInv, GoroutineInv, NoEarlyUnblock,
         At, Running, LiftPc
<1> QED
  BY <1>1, IInvCorrect, PTL

\* After 'q' no rule of an undisturbed spec is left in the kernel.
THEOREM QuitIsClean == Spec => []QuitLeavesNoRule
<1>1. IInv => QuitLeavesNoRule
  <2> SUFFICES ASSUME IInv, pc[UI] = "exited", NEW s \in Specs, Undisturbed(s)
               PROVE  \A c \in Chains : rules[c][s] = 0
    BY DEF QuitLeavesNoRule
  <2>1. SpecInv(s) /\ quitting /\ pending = {}
    BY DEF IInv, UndisturbedInv, TypeInv, QuitInv
  <2>2. ~HasActiveBlock(s)
    BY <2>1 DEF SpecInv, QuitSpecInv, UiOperating, LiftPc
  <2>3. \A w \in Workers : target[w] = s => pc[w] \notin InstallPc \cup LiftPc
    BY <2>1, <2>2 DEF SpecInv, QuitSpecInv, GoroutineInv, HasActiveBlock, LiftPc, NoEntry
  <2>4. Quiet(s)
    BY <2>3 DEF Quiet, UiOperating, Operating, LiftPc
  <2> QED
    BY <2>1, <2>2, <2>4 DEF SpecInv, RulesAre, InMap, Chains
<1> QED
  BY <1>1, IInvCorrect, PTL

\* Whatever commands fail halfway, a rule of an unshared spec stays on the list
\* from which the user can remove it.
THEOREM RulesStayListed == Spec => []EveryRuleIsListed
<1>1. SharedIInv => EveryRuleIsListed
  <2> SUFFICES ASSUME SharedIInv, ~quitting, NEW s \in Specs \ leftover, Unshared(s),
                      NEW c \in Chains, rules[c][s] > 0
               PROVE  s \in SnapshotDisplayActiveBlocks(TRUE)
    BY DEF EveryRuleIsListed
  <2>1. TypeInv /\ UnsharedInv(s)
    BY DEF SharedIInv
  <2>2. CASE Backend = "nft"
    BY <2>2 DEF SnapshotDisplayActiveBlocks, ListBlockedPeers
  <2>3. CASE Backend = "exec" /\ rules["INPUT"][s] > 0
    BY <2>3 DEF SnapshotDisplayActiveBlocks, ListBlockedPeers
  <2>4. CASE Backend = "exec" /\ ~(rules["INPUT"][s] > 0)
    <3>1. rules["OUTPUT"][s] > 0
      BY <2>4 DEF Chains
    <3>2. HasActiveBlock(s)
      BY <2>1, <2>4, <3>1 DEF UnsharedInv, ChainsInv
    <3> QED
      BY <3>2 DEF SnapshotDisplayActiveBlocks, Tracked
  <2> QED
    BY <2>2, <2>3, <2>4, BackendAssumption
<1> QED
  BY <1>1, SharedIInvCorrect, PTL

\* With the nft backend no rule of an unshared spec outlives a removal whose
\* commands worked, the rules of earlier sessions included.
THEOREM NftRemovalIsComplete == ASSUME Backend = "nft" PROVE Spec => []RemovalIsComplete
<1>1. SharedIInv => RemovalIsComplete
  <2> SUFFICES ASSUME SharedIInv, NEW a \in Actors, pc[a] = "remove", Unshared(target[a]),
                      target[a] \notin failed, NEW c \in Chains
               PROVE  rules[c][target[a]] = 0
    BY DEF RemovalIsComplete, At
  <2>1. target[a] \in Specs /\ rules["INPUT"] = rules["OUTPUT"]
    BY DEF SharedIInv, TypeInv, TypeOK, TargetInv, NftInv, Actors, LiftPc
  <2>2. UnsharedInv(target[a])
    BY <2>1 DEF SharedIInv
  <2> QED
    BY <2>1, <2>2 DEF UnsharedInv, BatchInv, Chains
<1> QED
  BY <1>1, SharedIInvCorrect, PTL
=============================================================================
