---------------------------- MODULE PeerBlocking ----------------------------
(***************************************************************************)
(* Timed peer blocking of the live TUI (internal/tui/blocking): the map of *)
(* active blocks, one goroutine per confirmed block, the UI thread that    *)
(* confirms, lists, removes and quits, and the kernel's DROP rules.        *)
(*                                                                         *)
(* One behaviour is one session of the process.  It starts with whatever   *)
(* rules earlier sessions left behind and ends by 'q' (which cleans up) or *)
(* by Ctrl-C or a crash (which does not).  Every firewall command and      *)
(* every critical section of Manager.blockMu is a step of its own, so the  *)
(* goroutines and the UI thread interleave between them.                   *)
(*                                                                         *)
(* Time is counted in minutes and only as distances: an entry carries the  *)
(* time left until its ExpiresAt, a goroutine the time left on its timer,  *)
(* and Tick lowers all of them.  Distances stop at 0, so a goroutine may   *)
(* be scheduled arbitrarily late, as time.Sleep allows.                    *)
(***************************************************************************)
EXTENDS Firewall, Integers, FiniteSets

CONSTANTS Workers,       \* the goroutines a session may start (a bound)
          UI,            \* the UI thread
          NoSpec,        \* "no target"
          Minutes,       \* the block lengths the form accepts; 0 is kill-only
          MaxLeftover,   \* bound on the rules per chain left by earlier sessions
          KernelMayFail  \* whether firewall commands may fail

ASSUME PeerBlockingAssumption ==
    /\ UI \notin Workers
    /\ NoSpec \notin Specs
    /\ Minutes \subseteq Nat
    /\ MaxLeftover \in Nat
    /\ KernelMayFail \in BOOLEAN

VARIABLES
    rules,          \* the kernel's rule table (survives the process)
    activeBlocks,   \* Manager.activeBlocks: time until ExpiresAt, or NoEntry
    pc,             \* where each goroutine and the UI thread are
    target,         \* the spec each of them is working on
    minutes,        \* the block length each of them was given
    timer,          \* goroutine: time until its ExpiresAt, then until it wakes
    opErr,          \* UnblockPeer has collected an error
    got,            \* nft UnblockPeer: rules listed for deletion, or Gone
    listed,         \* the Blocked Peers modal: the specs it shows
    pending,        \* CleanupActiveBlocks: specs still to unblock
    quitting,       \* 'q' was pressed
    leftover,       \* history: specs with rules of an earlier session
    failed,         \* history: specs for which a firewall command failed
    raced,          \* history: specs two actors worked on at the same time
    reblocked       \* history: specs blocked again while an older goroutine slept

uiVars   == <<listed, pending, quitting>>
histVars == <<leftover, failed, raced, reblocked>>
vars == <<rules, activeBlocks, pc, target, minutes, timer, opErr, got,
          listed, pending, quitting, leftover, failed, raced, reblocked>>

Actors == Workers \cup {UI}

\* No entry in the map; every entry has a distance in Nat.
NoEntry == -1

\* A listed rule was deleted by someone else: the flush will fail with ENOENT.
Gone == -1

-----------------------------------------------------------------------------
(* Control points. *)

InstallPc == {"block_in", "block_out", "rollback", "add"}
TimedPc   == {"sweep", "sleep"}
LiftPc    == {"unblock_in", "unblock_out", "remove"}
WorkerPc  == InstallPc \cup TimedPc \cup LiftPc \cup {"idle", "kill", "done"}
UiPc      == LiftPc \cup {"idle", "confirm", "list", "cleanup", "exited", "crashed"}

Running == pc[UI] \notin {"exited", "crashed"}

\* Manager.HasActiveBlock
HasActiveBlock(s) == activeBlocks[s] # NoEntry

Tracked == {s \in Specs : HasActiveBlock(s)}

\* w is running BlockPeerForDuration for s.
Blocking(w, s) == target[w] = s /\ pc[w] \in InstallPc \cup TimedPc \cup LiftPc

\* w is inside a firewall operation on s (or between it and the map update).
Operating(w, s) == target[w] = s /\ pc[w] \in InstallPc \cup LiftPc

\* The UI thread is inside removeSelected or CleanupActiveBlocks for s.
UiOperating(s) == target[UI] = s /\ pc[UI] \in LiftPc

\* Manager.SnapshotDisplayActiveBlocks: the entries in memory, and the specs
\* found in the firewall unless listing fails.
SnapshotDisplayActiveBlocks(listOK) ==
    Tracked \cup (IF listOK THEN ListBlockedPeers(rules) ELSE {})

ListResults == IF KernelMayFail THEN BOOLEAN ELSE {TRUE}

-----------------------------------------------------------------------------
(* Start of a session: no goroutine, empty map, leftover rules. *)

LeftoverTables ==
    {r \in [Chains -> [Specs -> 0..MaxLeftover]] :
        Backend = "nft" => r["INPUT"] = r["OUTPUT"]}

Init ==
    /\ rules \in LeftoverTables
    /\ activeBlocks = [s \in Specs |-> NoEntry]
    /\ pc = [a \in Actors |-> "idle"]
    /\ target = [a \in Actors |-> NoSpec]
    /\ minutes = [a \in Actors |-> 0]
    /\ timer = [w \in Workers |-> 0]
    /\ opErr = [a \in Actors |-> FALSE]
    /\ got = [a \in Actors |-> 0]
    /\ listed = {}
    /\ pending = {}
    /\ quitting = FALSE
    /\ leftover = {s \in Specs : \E c \in Chains : rules[c][s] > 0}
    /\ failed = {}
    /\ raced = {}
    /\ reblocked = {}

\* a is at the control point and the process is alive.
At(a, label) == Running /\ pc[a] = label

Goto(a, label) == pc' = [pc EXCEPT ![a] = label]

\* A failed command changes no rule and marks the spec.
CommandFails(s) ==
    /\ KernelMayFail
    /\ failed' = failed \cup {s}
    /\ UNCHANGED rules

-----------------------------------------------------------------------------
(* BlockPeerForDuration, one goroutine. *)

\* BlockPeer, exec backend: iptables -I INPUT.
BlockInput(w) ==
    /\ Backend = "exec" /\ At(w, "block_in")
    /\ \/ /\ rules' = InsertRule(rules, "INPUT", target[w])
          /\ Goto(w, "block_out")
          /\ UNCHANGED failed
       \/ /\ CommandFails(target[w])
          /\ Goto(w, "done")
    /\ UNCHANGED <<activeBlocks, target, minutes, timer, opErr, got, uiVars, leftover, raced, reblocked>>

\* BlockPeer, exec backend: iptables -I OUTPUT, or roll the INPUT rule back.
BlockOutput(w) ==
    /\ Backend = "exec" /\ At(w, "block_out")
    /\ \/ /\ rules' = InsertRule(rules, "OUTPUT", target[w])
          /\ Goto(w, "add")
          /\ UNCHANGED failed
       \/ /\ CommandFails(target[w])
          /\ Goto(w, "rollback")
    /\ UNCHANGED <<activeBlocks, target, minutes, timer, opErr, got, uiVars, leftover, raced, reblocked>>

\* The rollback's own error is ignored.
RollbackInput(w) ==
    /\ Backend = "exec" /\ At(w, "rollback")
    /\ \/ rules' = DeleteRule(rules, "INPUT", target[w]) /\ UNCHANGED failed
       \/ CommandFails(target[w])
    /\ Goto(w, "done")
    /\ UNCHANGED <<activeBlocks, target, minutes, timer, opErr, got, uiVars, leftover, raced, reblocked>>

\* BlockPeer, nft backend: both rules in one flush.
BlockFlush(w) ==
    /\ Backend = "nft" /\ At(w, "block_in")
    /\ \/ /\ rules' = InsertPair(rules, target[w])
          /\ Goto(w, "add")
          /\ UNCHANGED failed
       \/ /\ CommandFails(target[w])
          /\ Goto(w, "done")
    /\ UNCHANGED <<activeBlocks, target, minutes, timer, opErr, got, uiVars, leftover, raced, reblocked>>

\* The entry is keyed by spec and overwrites one already there.
AddActiveBlock(w) ==
    /\ At(w, "add")
    /\ activeBlocks' = [activeBlocks EXCEPT ![target[w]] = timer[w]]
    /\ timer' = [timer EXCEPT ![w] = 0]
    /\ Goto(w, "sweep")
    /\ UNCHANGED <<rules, target, minutes, opErr, got, uiVars, histVars>>

\* KillPeerFlows returns, UpdateActiveBlockSummary rewrites the summary of an
\* entry that is still there and leaves a missing one missing; the sleep for
\* the whole duration starts only now.
FinishSweep(w) ==
    /\ At(w, "sweep")
    /\ timer' = [timer EXCEPT ![w] = minutes[w]]
    /\ Goto(w, "sleep")
    /\ UNCHANGED <<rules, activeBlocks, target, minutes, opErr, got, uiVars, histVars>>

\* Mutant: the goroutine returns when the block is still there.
WakeUpInverted(w) ==
    /\ At(w, "sleep") /\ timer[w] = 0
    /\ Goto(w, IF HasActiveBlock(target[w]) THEN "done" ELSE "unblock_in")
    /\ UNCHANGED <<rules, activeBlocks, target, minutes, timer, opErr, got, uiVars, histVars>>

\* time.Sleep is over: unblock if the spec is in the map, whoever put it there.
WakeUp(w) ==
    /\ At(w, "sleep") /\ timer[w] = 0
    /\ \/ /\ HasActiveBlock(target[w])
          /\ Goto(w, "unblock_in")
          /\ opErr' = [opErr EXCEPT ![w] = FALSE]
          /\ raced' = IF UiOperating(target[w]) THEN raced \cup {target[w]} ELSE raced
       \/ /\ ~HasActiveBlock(target[w])
          /\ Goto(w, "done")
          /\ UNCHANGED <<opErr, raced>>
    /\ UNCHANGED <<rules, activeBlocks, target, minutes, timer, got, uiVars, leftover, failed, reblocked>>

\* KillPeerConnectionsOnly: no rule, no entry, no timer.
KillOnly(w) ==
    /\ At(w, "kill")
    /\ Goto(w, "done")
    /\ UNCHANGED <<rules, activeBlocks, target, minutes, timer, opErr, got, uiVars, histVars>>

-----------------------------------------------------------------------------
(* UnblockPeer and RemoveActiveBlock, by a goroutine or by the UI thread. *)

\* Exec backend: iptables -D INPUT; an error is kept and OUTPUT still tried.
DeleteInput(a) ==
    /\ Backend = "exec" /\ At(a, "unblock_in")
    /\ \/ /\ rules' = DeleteRule(rules, "INPUT", target[a])
          /\ UNCHANGED <<opErr, failed>>
       \/ /\ CommandFails(target[a])
          /\ opErr' = [opErr EXCEPT ![a] = TRUE]
    /\ Goto(a, "unblock_out")
    /\ UNCHANGED <<activeBlocks, target, minutes, timer, got, uiVars, leftover, raced, reblocked>>

\* Mutant: removeSelected goes on after an error, as the cleanup does.
AfterUnblockGoesOn(a, isErr) == IF isErr /\ a # UI THEN "done" ELSE "remove"

\* Where UnblockPeer's caller goes: a goroutine gives up for good on an error,
\* removeSelected returns to the list, CleanupActiveBlocks ignores the error.
AfterUnblock(a, isErr) ==
    IF isErr /\ a # UI THEN "done"
    ELSE IF isErr /\ ~quitting THEN "list"
    ELSE "remove"

\* Exec backend: iptables -D OUTPUT, then UnblockPeer returns.
DeleteOutput(a) ==
    /\ Backend = "exec" /\ At(a, "unblock_out")
    /\ \/ /\ rules' = DeleteRule(rules, "OUTPUT", target[a])
          /\ Goto(a, AfterUnblock(a, opErr[a]))
          /\ UNCHANGED failed
       \/ /\ CommandFails(target[a])
          /\ Goto(a, AfterUnblock(a, TRUE))
    /\ UNCHANGED <<activeBlocks, target, minutes, timer, opErr, got, uiVars, leftover, raced, reblocked>>

\* Nft backend: list the tagged rules; an error returns at once.  findTable
\* turns an error of its own listing into "no table", and UnblockPeer then
\* returns nil with every rule in place.
ListTagged(a) ==
    /\ Backend = "nft" /\ At(a, "unblock_in")
    /\ \/ /\ got' = [got EXCEPT ![a] = GetRules(rules, target[a])]
          /\ Goto(a, "unblock_out")
          /\ UNCHANGED <<rules, failed>>
       \/ /\ CommandFails(target[a])
          /\ \E isErr \in BOOLEAN : Goto(a, AfterUnblock(a, isErr))
          /\ UNCHANGED got
    /\ UNCHANGED <<activeBlocks, target, minutes, timer, opErr, uiVars, leftover, raced, reblocked>>

\* Nft backend: delete what was listed, in one batch that fails as a whole when
\* a listed rule has been deleted in the meantime.
DeleteFlush(a) ==
    /\ Backend = "nft" /\ At(a, "unblock_out")
    /\ \/ /\ got[a] # Gone
          /\ rules' = DeleteListed(rules, target[a], got[a])
          /\ got' = [b \in Actors |->
                        IF b = a THEN 0
                        ELSE IF /\ pc[b] = "unblock_out" /\ target[b] = target[a]
                                /\ got[b] > 0 /\ got[a] > 0
                        THEN Gone ELSE got[b]]
          /\ Goto(a, AfterUnblock(a, FALSE))
          /\ UNCHANGED failed
       \/ /\ got[a] = Gone
          /\ failed' = failed \cup {target[a]}
          /\ Goto(a, AfterUnblock(a, TRUE))
          /\ UNCHANGED <<rules, got>>
       \/ /\ CommandFails(target[a])
          /\ Goto(a, AfterUnblock(a, TRUE))
          /\ UNCHANGED got
    /\ UNCHANGED <<activeBlocks, target, minutes, timer, opErr, uiVars, leftover, raced, reblocked>>

\* Mutant: RemoveActiveBlock is forgotten after the automatic unblock.
RemoveExpiredForgotten(w) ==
    /\ At(w, "remove")
    /\ Goto(w, "done")
    /\ UNCHANGED <<rules, activeBlocks, target, minutes, timer, opErr, got, uiVars, histVars>>

\* The goroutine forgets the block and ends.
RemoveExpired(w) ==
    /\ At(w, "remove")
    /\ activeBlocks' = [activeBlocks EXCEPT ![target[w]] = NoEntry]
    /\ Goto(w, "done")
    /\ UNCHANGED <<rules, target, minutes, timer, opErr, got, uiVars, histVars>>

-----------------------------------------------------------------------------
(* The UI thread. *)

\* submit in PromptKillPeer: a timed block of a spec in the map is refused
\* ("Already blocked"), anything else goes on to the confirmation modal.
SubmitKillForm(s, m) ==
    /\ At(UI, "idle")
    /\ m = 0 \/ ~HasActiveBlock(s)
    /\ Goto(UI, "confirm")
    /\ target' = [target EXCEPT ![UI] = s]
    /\ minutes' = [minutes EXCEPT ![UI] = m]
    /\ UNCHANGED <<rules, activeBlocks, timer, opErr, got, uiVars, histVars>>

\* What the start of a second block does to the history: it overlaps with an
\* operation under way or with an entry that appeared since the form was
\* submitted, or it follows one whose goroutine still sleeps.
Restarts(s, m) ==
    /\ raced' = IF m > 0 /\ (HasActiveBlock(s) \/ \E v \in Workers : Operating(v, s))
                THEN raced \cup {s} ELSE raced
    /\ reblocked' = IF m > 0 /\ \E v \in Workers : Blocking(v, s)
                    THEN reblocked \cup {s} ELSE reblocked

\* Mutant: the length is not looked at, kill-only peers are blocked too.
ConfirmKillBlocks(w) ==
    LET s == target[UI] IN
    /\ At(UI, "confirm") /\ pc[w] = "idle"
    /\ pc' = [pc EXCEPT ![UI] = "idle", ![w] = "block_in"]
    /\ target' = [target EXCEPT ![w] = s, ![UI] = NoSpec]
    /\ minutes' = [minutes EXCEPT ![w] = minutes[UI], ![UI] = 0]
    /\ timer' = [timer EXCEPT ![w] = minutes[UI]]
    /\ Restarts(s, minutes[UI])
    /\ UNCHANGED <<rules, activeBlocks, opErr, got, uiVars, leftover, failed>>

\* The confirmation button: start the goroutine.  HasActiveBlock is not asked
\* again, and ExpiresAt is fixed before the first firewall command.
ConfirmKill(w) ==
    LET s == target[UI] IN
    /\ At(UI, "confirm") /\ pc[w] = "idle"
    /\ pc' = [pc EXCEPT ![UI] = "idle",
                        ![w] = IF minutes[UI] = 0 THEN "kill" ELSE "block_in"]
    /\ target' = [target EXCEPT ![w] = s, ![UI] = NoSpec]
    /\ minutes' = [minutes EXCEPT ![w] = minutes[UI], ![UI] = 0]
    /\ timer' = [timer EXCEPT ![w] = minutes[UI]]
    /\ Restarts(s, minutes[UI])
    /\ UNCHANGED <<rules, activeBlocks, opErr, got, uiVars, leftover, failed>>

CancelKill ==
    /\ At(UI, "confirm")
    /\ Goto(UI, "idle")
    /\ target' = [target EXCEPT ![UI] = NoSpec]
    /\ minutes' = [minutes EXCEPT ![UI] = 0]
    /\ UNCHANGED <<rules, activeBlocks, timer, opErr, got, uiVars, histVars>>

\* PromptBlockedPeers opens only when there is something to show.
PromptBlockedPeers ==
    /\ At(UI, "idle")
    /\ \E ok \in ListResults :
          /\ SnapshotDisplayActiveBlocks(ok) # {}
          /\ listed' = SnapshotDisplayActiveBlocks(ok)
    /\ Goto(UI, "list")
    /\ UNCHANGED <<rules, activeBlocks, target, minutes, timer, opErr, got,
                   pending, quitting, histVars>>

\* The UI thread enters UnblockPeer for s.
BeginUnblock(s) ==
    /\ Goto(UI, "unblock_in")
    /\ target' = [target EXCEPT ![UI] = s]
    /\ opErr' = [opErr EXCEPT ![UI] = FALSE]
    /\ raced' = IF \E w \in Workers : Operating(w, s) THEN raced \cup {s} ELSE raced

\* removeSelected: s is a row of the modal, possibly out of date.
RemoveSelected(s) ==
    /\ At(UI, "list") /\ s \in listed
    /\ BeginUnblock(s)
    /\ UNCHANGED <<rules, activeBlocks, minutes, timer, got, uiVars, leftover, failed, reblocked>>

\* Mutant: RemoveActiveBlock is forgotten after a removal by hand.
FinishRemoveForgotten ==
    /\ At(UI, "remove") /\ ~quitting
    /\ Goto(UI, "list")
    /\ target' = [target EXCEPT ![UI] = NoSpec]
    /\ UNCHANGED <<rules, activeBlocks, minutes, timer, opErr, got, uiVars, histVars>>

\* removeSelected after UnblockPeer: forget the block and show what remains;
\* the modal closes when nothing does.
FinishRemove ==
    /\ At(UI, "remove") /\ ~quitting
    /\ activeBlocks' = [activeBlocks EXCEPT ![target[UI]] = NoEntry]
    /\ \E ok \in ListResults :
          LET remaining == (Tracked \ {target[UI]})
                              \cup (IF ok THEN ListBlockedPeers(rules) ELSE {})
          IN  /\ listed' = remaining
              /\ Goto(UI, IF remaining = {} THEN "idle" ELSE "list")
    /\ target' = [target EXCEPT ![UI] = NoSpec]
    /\ UNCHANGED <<rules, minutes, timer, opErr, got, pending, quitting, histVars>>

CloseBlockedPeers ==
    /\ At(UI, "list")
    /\ Goto(UI, "idle")
    /\ target' = [target EXCEPT ![UI] = NoSpec]
    /\ listed' = {}
    /\ UNCHANGED <<rules, activeBlocks, minutes, timer, opErr, got,
                   pending, quitting, histVars>>

\* Mutant: 'q' stops the application without the cleanup.
QuitWithoutCleanup ==
    /\ At(UI, "idle")
    /\ quitting' = TRUE
    /\ Goto(UI, "cleanup")
    /\ UNCHANGED <<rules, activeBlocks, target, minutes, timer, opErr, got,
                   listed, pending, histVars>>

\* 'q': CleanupActiveBlocks takes its snapshot of the map.
Quit ==
    /\ At(UI, "idle")
    /\ quitting' = TRUE
    /\ pending' = Tracked
    /\ Goto(UI, "cleanup")
    /\ raced' = raced \cup {s \in Specs : \E w \in Workers :
                                target[w] = s /\ pc[w] \in InstallPc}
    /\ UNCHANGED <<rules, activeBlocks, target, minutes, timer, opErr, got,
                   listed, leftover, failed, reblocked>>

\* CleanupActiveBlocks, the next entry of the snapshot in map order.
CleanupNext(s) ==
    /\ At(UI, "cleanup") /\ s \in pending
    /\ pending' = pending \ {s}
    /\ BeginUnblock(s)
    /\ UNCHANGED <<rules, activeBlocks, minutes, timer, got, listed, quitting, leftover, failed, reblocked>>

FinishCleanup ==
    /\ At(UI, "remove") /\ quitting
    /\ activeBlocks' = [activeBlocks EXCEPT ![target[UI]] = NoEntry]
    /\ Goto(UI, "cleanup")
    /\ target' = [target EXCEPT ![UI] = NoSpec]
    /\ UNCHANGED <<rules, minutes, timer, opErr, got, uiVars, histVars>>

\* app.Stop: the process ends and its goroutines with it.
Exit ==
    /\ At(UI, "cleanup") /\ pending = {}
    /\ Goto(UI, "exited")
    /\ UNCHANGED <<rules, activeBlocks, target, minutes, timer, opErr, got, uiVars, histVars>>

\* Ctrl-C (tview stops the application itself), a signal, a crash: no cleanup.
Crash ==
    /\ Running
    /\ Goto(UI, "crashed")
    /\ UNCHANGED <<rules, activeBlocks, target, minutes, timer, opErr, got, uiVars, histVars>>

-----------------------------------------------------------------------------
(* A minute passes. *)

Countdown(n) == IF n > 0 THEN n - 1 ELSE n

Tick ==
    /\ Running
    /\ activeBlocks' = [s \in Specs |-> Countdown(activeBlocks[s])]
    /\ timer' = [w \in Workers |-> Countdown(timer[w])]
    /\ UNCHANGED <<rules, pc, target, minutes, opErr, got, uiVars, histVars>>

-----------------------------------------------------------------------------
BlockPeer(w) == BlockInput(w) \/ BlockOutput(w) \/ RollbackInput(w) \/ BlockFlush(w)

UnblockPeer(a) == DeleteInput(a) \/ DeleteOutput(a) \/ ListTagged(a) \/ DeleteFlush(a)

WorkerStep(w) ==
    \/ BlockPeer(w) \/ AddActiveBlock(w) \/ FinishSweep(w) \/ WakeUp(w)
    \/ UnblockPeer(w) \/ RemoveExpired(w) \/ KillOnly(w)

UIStep ==
    \/ \E s \in Specs, m \in Minutes : SubmitKillForm(s, m)
    \/ \E w \in Workers : ConfirmKill(w)
    \/ CancelKill
    \/ PromptBlockedPeers
    \/ \E s \in Specs : RemoveSelected(s)
    \/ UnblockPeer(UI)
    \/ FinishRemove \/ CloseBlockedPeers
    \/ Quit \/ (\E s \in Specs : CleanupNext(s)) \/ FinishCleanup \/ Exit

Next == (\E w \in Workers : WorkerStep(w)) \/ UIStep \/ Crash \/ Tick

Spec == Init /\ [][Next]_vars

\* Goroutines are scheduled, commands return and time passes; the user need
\* not do anything.
FairSpec ==
    /\ Spec
    /\ \A w \in Workers : WF_vars(WorkerStep(w))
    /\ WF_vars(Tick)

-----------------------------------------------------------------------------
(* Properties *)

\* Types, and that only a block the user asked for a length of touches the
\* firewall: a kill-only target never gets a rule, an entry or a timer.
TypeOK ==
    /\ rules \in RuleTables
    /\ activeBlocks \in [Specs -> Nat \cup {NoEntry}]
    /\ pc \in [Actors -> WorkerPc \cup UiPc]
    /\ pc[UI] \in UiPc
    /\ \A w \in Workers : pc[w] \in WorkerPc
    /\ \A w \in Workers : pc[w] \in InstallPc \cup TimedPc \cup LiftPc =>
           target[w] \in Specs /\ minutes[w] \in Minutes \ {0}
    /\ target \in [Actors -> Specs \cup {NoSpec}]
    /\ minutes \in [Actors -> Nat]
    /\ timer \in [Workers -> Nat]
    /\ opErr \in [Actors -> BOOLEAN]
    /\ got \in [Actors -> Nat \cup {Gone}]
    /\ listed \subseteq Specs
    /\ pending \subseteq Specs
    /\ quitting \in BOOLEAN
    /\ leftover \subseteq Specs
    /\ failed \subseteq Specs
    /\ raced \subseteq Specs
    /\ reblocked \subseteq Specs

\* No two actors worked on s at the same time, and no two goroutines had it.
Unshared(s) == s \notin raced \cup reblocked

\* Nothing outside one actor's own sequence of commands has touched s: no rule
\* of an earlier session, no failed command, no second actor.
Undisturbed(s) == Unshared(s) /\ s \notin leftover \cup failed

\* No firewall operation on s is under way.
Quiet(s) == ~UiOperating(s) /\ \A w \in Workers : ~Operating(w, s)

\* Every entry of activeBlocks has a goroutine that will still look at it: a
\* block shown to the user as timed cannot have lost its timer, unless a
\* firewall command failed (BlockPeerForDuration gives up after an error).
EveryBlockHasATimer ==
    \A s \in Tracked \ failed :
        \E w \in Workers : target[w] = s /\ pc[w] \in TimedPc \cup LiftPc

\* Between operations the kernel and the map agree on an undisturbed spec: one
\* rule in each chain if it is in the map, none if it is not.
RulesMatchEntries ==
    pc[UI] # "crashed" => \A s \in Specs : Undisturbed(s) /\ Quiet(s) =>
        \A c \in Chains : rules[c][s] = IF HasActiveBlock(s) THEN 1 ELSE 0

\* A goroutine lifts an undisturbed block only when the ExpiresAt shown for it
\* has passed.
NoEarlyUnblock ==
    \A w \in Workers :
        (At(w, "unblock_in") \/ At(w, "unblock_out")) /\ Undisturbed(target[w])
            => activeBlocks[target[w]] = 0

\* 'q' leaves no rule of an undisturbed spec in the kernel, whatever the
\* goroutines did while CleanupActiveBlocks ran.
QuitLeavesNoRule ==
    pc[UI] = "exited" =>
        \A s \in Specs : Undisturbed(s) => \A c \in Chains : rules[c][s] = 0

\* Whatever commands failed, halfway through an installation or a removal, the
\* rules of an unshared spec are on the Blocked Peers list until 'q', where the
\* user can remove them: ListBlockedPeers of iptables looks at INPUT only, so a
\* rule left alone in OUTPUT has to have an entry.
EveryRuleIsListed ==
    Running /\ ~quitting => \A s \in Specs \ leftover :
        Unshared(s) /\ (\E c \in Chains : rules[c][s] > 0) => s \in SnapshotDisplayActiveBlocks(TRUE)

\* With nft, a removal that succeeds takes every rule of the spec with it,
\* those that earlier sessions left included, before the entry is forgotten.
\* The listing and the batch are two steps; a spec is exempt when another actor
\* shared it or a command for it failed.
RemovalIsComplete ==
    \A a \in Actors : At(a, "remove") /\ Unshared(target[a]) /\ target[a] \notin failed
        => \A c \in Chains : rules[c][target[a]] = 0

\* While the program runs, the DROP rules of an undisturbed spec go away again.
RulesEventuallyLifted ==
    \A s \in Specs :
        (Running /\ \E c \in Chains : rules[c][s] > 0)
            ~> (~Running \/ ~Undisturbed(s) \/ \A c \in Chains : rules[c][s] = 0)

\* README.MD: "auto-unblock when timer expires".  A goroutine that is about to
\* unblock finds an entry that has expired (or was just removed), unless the
\* peer was confirmed a second time before its first block was in the map.
UnblockAtExpiry ==
    \A w \in Workers : pc[w] = "unblock_in" /\ target[w] \notin raced =>
        activeBlocks[target[w]] \in {NoEntry, 0}
=============================================================================
