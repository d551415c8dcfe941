------------------------------- MODULE LiveUI -------------------------------
(***************************************************************************)
(* The live view (internal/tui/app_core.go, app_connections.go) with the   *)
(* dialogs of its packages (tui/blocking, tui/podlookup): the pages over   *)
(* the main page, which of them has the keyboard, the pause that the kill  *)
(* dialog takes, the refresh loops, and the goroutines that post their     *)
(* results.  The list under all this is TopConnections.                    *)
(*                                                                         *)
(* One UI thread runs the handlers of keys and the functions that          *)
(* goroutines hand to QueueUpdateDraw, one at a time; a goroutine waits    *)
(* until its function has run.  Here functions that wait may run in any    *)
(* order.                                                                  *)
(***************************************************************************)
EXTENDS TopConnections

\* A session also says which keys the user presses, which refresh loops tick,
\* and how many goroutines (`tasks') exist at a time.

\* The refresh loops.
Loops == {"refresh", "interface", "warmup"}
TextDialogs == [h |-> "action-log", i |-> "socket-queue-explain", I |-> "interface-stats-explain"]
KillPages == {"kill-peer-form", "kill-peer"}
Overlays == KillPages \cup {TextDialogs[k] : k \in DOMAIN TextDialogs}
    \cup {"help", "filter", "search", "blocked-peers", "blocked-peers-remove-result",
          "block-summary", "pod-lookup-form", "pod-lookup-result"}
TaskStates == {"none", "blocking", "summary", "asleep", "expired", "killing", "killed", "lookup",
               "found", "note"}

VARIABLES
    pages,      \* the visible pages over main, front last
    focus,      \* the page whose widget has the focus of tview
    focusIndex, \* the panel that counts as focused
    paused, killFlowAutoPaused,
    refreshChan,\* a manual refresh is asked for
    loop,       \* what each loop has posted: nothing, a tick, or a manual refresh
    task,       \* the goroutines of kills and lookups
    phase,      \* "new", "running", "stopped"
    byUser,     \* history: the pause that the user has set with 'p'
    buried,     \* history: a popup has come over another dialog
    late        \* history: the loops whose tick has run in this pause

pageVars == <<pages, focus>>
pauseVars == <<paused, killFlowAutoPaused, byUser>>
loopVars == <<refreshChan, loop, late>>
vars == <<listVars, session, pageVars, focusIndex, pauseVars, loopVars, task, phase, buried>>

Init ==
    /\ ListInit
    /\ pages = <<>> /\ focus = "main" /\ focusIndex = 2
    /\ paused = FALSE /\ killFlowAutoPaused = FALSE /\ byUser = FALSE
    /\ refreshChan = FALSE /\ loop = [l \in Loops |-> "wait"] /\ late = {}
    /\ task = [t \in session.tasks |-> "none"]
    /\ phase = "new" /\ buried = FALSE

-----------------------------------------------------------------------------
(* Pages and focus *)

Running == phase = "running"

FrontPage == IF pages = <<>> THEN "main" ELSE Last(pages)

Without(name) == RemoveFirst(pages, name)

\* A dialog whose keys the user can reach: in front, and with the focus, since
\* handleKeyEvent passes every key on while an overlay is visible.
In(name) == Running /\ FrontPage = name /\ focus = name

\* Keys of the main page.
AtMain(key) == Running /\ FrontPage = "main" /\ key \in session.keys

StillBuried == buried /\ pages' # <<>>

\* AddPage and SetFocus
Push(name) ==
    /\ pages' = Append(Without(name), name) /\ focus' = name
    /\ buried' = StillBuried

\* RemovePage and RestoreFocus
Close(name) ==
    /\ pages' = Without(name) /\ focus' = "main"
    /\ buried' = StillBuried

\* A popup that a goroutine opens over whatever is there.
Popup(name) ==
    /\ pages' = Append(Without(name), name) /\ focus' = name
    /\ buried' = (buried \/ (Without(name) # <<>> /\ Last(Without(name)) # "help"))

SamePages == UNCHANGED <<pageVars, buried>>

-----------------------------------------------------------------------------
(* The pause of the kill flow (blocking/manager.go) *)

EnterKillFlowPause ==
    /\ paused' = TRUE
    /\ killFlowAutoPaused' = (killFlowAutoPaused \/ ~paused)
    /\ UNCHANGED byUser

\* Mutant: the pause is lifted whoever has set it.
ExitKillFlowPauseAlways == paused' = FALSE /\ killFlowAutoPaused' = FALSE /\ UNCHANGED byUser

ExitKillFlowPause ==
    /\ paused' = (paused /\ ~killFlowAutoPaused)
    /\ killFlowAutoPaused' = FALSE
    /\ UNCHANGED byUser

\* The history of late ticks begins anew with each pause.
SameLate == late' = IF paused' THEN late ELSE {}

Resting == UNCHANGED <<session, refreshChan, loop, task, phase>> /\ SameLate

-----------------------------------------------------------------------------
(* Keys of the main page (handleKeyEvent) *)

\* Keys that change the list and nothing else.
ListKey(key, Handler) ==
    /\ AtMain(key) /\ Handler
    /\ SamePages /\ UNCHANGED <<focusIndex, pauseVars>> /\ Resting

OnList == focusIndex = 2

PressUp == OnList /\ ListKey("Up", MoveTopConnectionSelection(-1))
PressDown == OnList /\ ListKey("Down", MoveTopConnectionSelection(1))
PressPrevPage == OnList /\ ListKey("[", MoveTopConnectionPage(-1))
PressNextPage == OnList /\ ListKey("]", MoveTopConnectionPage(1))
PressGroup == ListKey("g", ToggleGroupView)
PressDirection == OnList /\ ListKey("o", ToggleTopConnectionsDirection)
PressSortBandwidth == ListKey("B", ApplySortInput("bandwidth"))
PressSortConns == ListKey("C", ApplySortInput("conns"))
PressSortPort == ListKey("P", ApplySortInput("port"))
\* 's' on System Health and 'm' refresh at once; what they toggle is only drawn.
PressStates == focusIndex = 0 /\ ListKey("s", RefreshData)
PressMask == ListKey("m", RefreshData)
PressZoom == (view.zoomed \/ OnList) /\ ListKey("z", ToggleZoom)
PressEsc == view.zoomed /\ ListKey("Esc", ToggleZoom)

\* focusNext and focusPrev, over two panels
PressTab ==
    /\ AtMain("Tab") /\ ~view.zoomed
    /\ focusIndex' = 2 - focusIndex
    /\ SamePages /\ UNCHANGED <<listVars, pauseVars>> /\ Resting

PressRefresh ==
    /\ AtMain("r")
    /\ refreshChan' = TRUE
    /\ SamePages /\ UNCHANGED <<listVars, session, focusIndex, pauseVars, loop, late, task, phase>>

PressPause ==
    /\ AtMain("p")
    /\ paused' = ~paused /\ byUser' = ~byUser
    /\ SamePages /\ UNCHANGED <<listVars, focusIndex, killFlowAutoPaused>> /\ Resting

\* 'q', after CleanupActiveBlocks: the loops see stopChan, the UI thread ends.
PressQuit ==
    /\ AtMain("q")
    /\ phase' = "stopped"
    /\ SamePages
    /\ UNCHANGED <<listVars, session, focusIndex, pauseVars, refreshChan, loop, late, task>>

Opens(name) == Push(name) /\ UNCHANGED <<listVars, focusIndex, pauseVars>> /\ Resting
Closes(name) == Close(name) /\ UNCHANGED <<listVars, focusIndex, pauseVars>> /\ Resting

\* showHelp and hideHelp ask for no focus: handleKeyEvent closes the help at
\* any key, whoever has it.
PressHelp ==
    /\ AtMain("?")
    /\ pages' = Append(pages, "help") /\ UNCHANGED <<focus, buried>>
    /\ UNCHANGED <<listVars, focusIndex, pauseVars>> /\ Resting

AnyKeyOnHelp ==
    /\ Running /\ FrontPage = "help"
    /\ pages' = Without("help") /\ buried' = StillBuried
    /\ UNCHANGED <<listVars, focus, focusIndex, pauseVars>> /\ Resting

\* promptActionLog, promptSocketQueueExplain, promptInterfaceStatsExplain
PressText == \E key \in DOMAIN TextDialogs : AtMain(key) /\ Opens(TextDialogs[key])
CloseText == \E key \in DOMAIN TextDialogs : In(TextDialogs[key]) /\ Closes(TextDialogs[key])

-----------------------------------------------------------------------------
(* The two prompts of the list (app_connections.go) *)

\* promptPortFilter: while a filter is set the key clears both.
PressFilter ==
    /\ AtMain("f")
    /\ IF view.portFilter = NoFilter /\ view.textFilter = NoFilter
       THEN Opens("filter")
       ELSE ClearFilters /\ SamePages /\ UNCHANGED <<focusIndex, pauseVars>> /\ Resting

LeaveFilter ==
    /\ In("filter")
    /\ RefreshData \/ \E port \in Ports \cup {NoFilter} : SetPortFilter(port)
    /\ Close("filter") /\ UNCHANGED <<focusIndex, pauseVars>> /\ Resting

PressSearch == AtMain("/") /\ OnList /\ Opens("search")

LeaveSearch ==
    /\ In("search")
    /\ UNCHANGED listVars \/ \E word \in Words \cup {NoFilter} : SetTextFilter(word)
    /\ Close("search") /\ UNCHANGED <<focusIndex, pauseVars>> /\ Resting

-----------------------------------------------------------------------------
(* The kill flow (blocking/ui_kill.go) *)

PromptKillPeer == EnterKillFlowPause /\ Push("kill-peer-form")

\* 'k'; Enter does the same with the list focused.
PressKill ==
    /\ AtMain("k")
    /\ ~(OnList /\ view.topDirection = "OUT")
    /\ PromptKillPeer
    /\ UNCHANGED <<listVars, focusIndex>> /\ Resting

\* Mutant: Esc closes the form and forgets the pause.
CancelKillFormKeepsPause == In("kill-peer-form") /\ Closes("kill-peer-form")

CancelKillForm ==
    /\ In("kill-peer-form")
    /\ Close("kill-peer-form") /\ ExitKillFlowPause
    /\ UNCHANGED <<listVars, focusIndex>> /\ Resting

\* In the place of the form.
PromptKillPeerConfirm ==
    /\ pages' = Append(Without("kill-peer-form"), "kill-peer") /\ focus' = "kill-peer"
    /\ buried' = StillBuried

\* submit with valid input that is not blocked yet; otherwise only a note.
SubmitKillForm ==
    /\ In("kill-peer-form") /\ PromptKillPeerConfirm
    /\ UNCHANGED <<listVars, focusIndex, pauseVars>> /\ Resting

LeaveKillConfirm == In("kill-peer") /\ Close("kill-peer") /\ ExitKillFlowPause /\ UNCHANGED focusIndex

CancelKill == LeaveKillConfirm /\ UNCHANGED listVars /\ Resting

\* The goroutine of BlockPeerForDuration or KillPeerConnectionsOnly.
ConfirmKill ==
    /\ LeaveKillConfirm
    /\ \E t \in session.tasks, kind \in {"blocking", "killing"} :
         task[t] = "none" /\ task' = [task EXCEPT ![t] = kind]
    /\ SameLate /\ UNCHANGED <<listVars, session, refreshChan, loop, phase>>

-----------------------------------------------------------------------------
(* The blocked peers (blocking/ui_blocked_peers.go).  Which there are is the  *)
(* subject of PeerBlocking; here each look at them may find some or none.     *)

PressBlocked == AtMain("b") /\ Opens("blocked-peers")

CloseBlocked == In("blocked-peers") /\ Closes("blocked-peers")

\* removeSelected: the last one is gone, and the list with it.
RemoveLast ==
    /\ In("blocked-peers")
    /\ pages' = Append(Without("blocked-peers"), "blocked-peers-remove-result")
    /\ focus' = "blocked-peers-remove-result" /\ buried' = StillBuried
    /\ UNCHANGED <<listVars, focusIndex, pauseVars>> /\ Resting

\* removeSelected: others are left.
RemoveOne == In("blocked-peers") /\ Opens("blocked-peers-remove-result")

\* removeSelected: others were left, and are gone when refreshList looks again.
RemoveOneOfVanishing ==
    /\ In("blocked-peers") /\ RefreshData
    /\ pages' = Append(Without("blocked-peers"), "blocked-peers-remove-result")
    /\ focus' = "blocked-peers-remove-result" /\ buried' = StillBuried
    /\ UNCHANGED <<focusIndex, pauseVars>> /\ Resting

\* Mutant: the focus goes to the panel, also when the list is still open.
CloseRemoveResultToPanel ==
    In("blocked-peers-remove-result") /\ Closes("blocked-peers-remove-result")

\* The popup gives the focus back to the list if that was left open, or was
\* thought to be.
CloseRemoveResult ==
    /\ In("blocked-peers-remove-result")
    /\ pages' = Without("blocked-peers-remove-result") /\ buried' = StillBuried
    /\ IF "blocked-peers" \in ToSet(pages) THEN focus' = "blocked-peers"
       ELSE focus' \in {"main", "blocked-peers"}
    /\ UNCHANGED <<listVars, focusIndex, pauseVars>> /\ Resting

-----------------------------------------------------------------------------
(* The pod lookup (tui/podlookup) *)

PressLookup == AtMain("K") /\ Opens("pod-lookup-form")

CancelLookup == In("pod-lookup-form") /\ Closes("pod-lookup-form")

SubmitLookup ==
    /\ In("pod-lookup-form") /\ Close("pod-lookup-form")
    /\ \E t \in session.tasks : task[t] = "none" /\ task' = [task EXCEPT ![t] = "lookup"]
    /\ UNCHANGED <<listVars, session, focusIndex, pauseVars, loopVars, phase>>

ClosePodResult == In("pod-lookup-result") /\ Closes("pod-lookup-result")

CloseSummary == In("block-summary") /\ Closes("block-summary")

-----------------------------------------------------------------------------
(* What goroutines do, and the functions of theirs that the UI thread runs    *)

Moves(t, from, to) == Running /\ task[t] = from /\ task' = [task EXCEPT ![t] = to]

\* A step of a goroutine off the UI thread ends with a function for that.
Posts(t, from, to) ==
    /\ Moves(t, from, to)
    /\ UNCHANGED <<listVars, session, pageVars, buried, focusIndex, pauseVars, loopVars, phase>>

\* BlockPeerForDuration up to its sleep, and KillPeerConnectionsOnly.
BlockFails(t) == Posts(t, "blocking", "note")
BlockIsSet(t) == Posts(t, "blocking", "summary")
FlowsAreKilled(t) == Posts(t, "killing", "killed")

\* Its sleep is over: the peer was unblocked by hand, or the rule cannot be
\* removed, or it is removed.
BlockIsGone(t) == Posts(t, "asleep", "none")
UnblockFails(t) == Posts(t, "asleep", "note")
BlockExpires(t) == Posts(t, "asleep", "expired")

\* runPodLookup
PodsAreFound(t) == Posts(t, "lookup", "found")

\* A popup, and the list as it is after the kill.
RunSummary(t) ==
    /\ \/ Moves(t, "summary", "asleep")
       \/ Moves(t, "killed", "none")
    /\ Popup("block-summary") /\ RefreshData
    /\ UNCHANGED <<session, focusIndex, pauseVars, loopVars, phase>>

RunExpired(t) ==
    /\ Moves(t, "expired", "none") /\ RefreshData
    /\ SamePages /\ UNCHANGED <<session, focusIndex, pauseVars, loopVars, phase>>

\* ShowPodLookupResults and ShowPodLookupNotFound
RunFound(t) ==
    /\ Moves(t, "found", "none") /\ Popup("pod-lookup-result")
    /\ UNCHANGED <<listVars, session, focusIndex, pauseVars, loopVars, phase>>

RunNote(t) == Posts(t, "note", "none")

-----------------------------------------------------------------------------
(* The refresh loops (app_core.go)                                            *)

\* Run: the first refresh, and then keys and loops.
Run ==
    /\ phase = "new" /\ phase' = "running" /\ RefreshData
    /\ UNCHANGED <<session, pageVars, focusIndex, pauseVars, loopVars, task, buried>>

OffThread == UNCHANGED <<listVars, session, pageVars, buried, focusIndex, pauseVars, late, task, phase>>

\* Mutant: the loop does not look at the pause.
FireTickerInPause(l) ==
    /\ Running /\ l \in session.loops /\ loop[l] = "wait"
    /\ loop' = [loop EXCEPT ![l] = "tick"]
    /\ OffThread /\ UNCHANGED refreshChan

\* The timer of a loop; in a pause only the warm-up changes, which is skipped.
FireTicker(l) ==
    /\ Running /\ l \in session.loops /\ loop[l] = "wait"
    /\ ~paused \/ l = "warmup"
    /\ loop' = [loop EXCEPT ![l] = IF paused THEN "done" ELSE "tick"]
    /\ OffThread /\ UNCHANGED refreshChan

\* Mutant: a request is left in the channel while the pause lasts.
TakeRequestUnpaused ==
    /\ Running /\ refreshChan /\ loop["refresh"] = "wait" /\ ~paused
    /\ refreshChan' = FALSE /\ loop' = [loop EXCEPT !["refresh"] = "manual"]
    /\ OffThread

\* A manual refresh, also in a pause.
TakeRequest ==
    /\ Running /\ refreshChan /\ loop["refresh"] = "wait"
    /\ refreshChan' = FALSE /\ loop' = [loop EXCEPT !["refresh"] = "manual"]
    /\ OffThread

OnThread == SamePages /\ UNCHANGED <<session, focusIndex, pauseVars, refreshChan, task, phase>>

\* refreshInterfacePanel draws System Health only.
RunTick(l) ==
    /\ Running /\ loop[l] = "tick"
    /\ loop' = [loop EXCEPT ![l] = IF l = "warmup" THEN "done" ELSE "wait"]
    /\ late' = IF paused THEN late \cup {l} ELSE {}
    /\ IF l = "interface" THEN RefreshInterfacePanel(session.loads) /\ UNCHANGED <<view, cursorVars>>
       ELSE RefreshData
    /\ OnThread

RunManual ==
    /\ Running /\ loop["refresh"] = "manual"
    /\ loop' = [loop EXCEPT !["refresh"] = "wait"]
    /\ RefreshData
    /\ OnThread /\ UNCHANGED late

Next ==
    \/ Run \/ PressUp \/ PressDown \/ PressPrevPage \/ PressNextPage \/ PressGroup \/ PressDirection
    \/ PressSortBandwidth \/ PressSortConns \/ PressSortPort
    \/ PressStates \/ PressMask \/ PressZoom \/ PressEsc \/ PressTab
    \/ PressRefresh \/ PressPause \/ PressQuit
    \/ PressHelp \/ AnyKeyOnHelp \/ PressText \/ CloseText
    \/ PressFilter \/ LeaveFilter \/ PressSearch \/ LeaveSearch
    \/ PressKill \/ CancelKillForm \/ SubmitKillForm \/ CancelKill \/ ConfirmKill
    \/ PressBlocked \/ CloseBlocked \/ RemoveLast \/ RemoveOne \/ RemoveOneOfVanishing
    \/ CloseRemoveResult \/ PressLookup \/ CancelLookup \/ SubmitLookup \/ ClosePodResult
    \/ CloseSummary
    \/ \E t \in session.tasks :
         \/ BlockFails(t) \/ BlockIsSet(t) \/ FlowsAreKilled(t)
         \/ BlockIsGone(t) \/ UnblockFails(t) \/ BlockExpires(t) \/ PodsAreFound(t)
         \/ RunSummary(t) \/ RunExpired(t) \/ RunFound(t) \/ RunNote(t)
    \/ \E l \in Loops : FireTicker(l) \/ RunTick(l)
    \/ TakeRequest \/ RunManual

Spec == Init /\ [][Next]_vars

\* The UI thread runs every function that waits.  The select of the refresh
\* loop chooses at random among the channels that are ready, so a request that
\* waits is taken in the end.  Users and timers owe nothing.
FairSpec ==
    /\ Spec
    /\ WF_vars(RunTick("refresh")) /\ WF_vars(RunManual) /\ SF_vars(TakeRequest)

-----------------------------------------------------------------------------
(* Properties *)

TypeOK ==
    /\ ListTypeOK
    /\ ToSet(pages) \subseteq Overlays /\ focus \in Overlays \cup {"main"}
    /\ focusIndex \in {0, 2}
    /\ {paused, killFlowAutoPaused, refreshChan, byUser, buried} \subseteq BOOLEAN
    /\ loop \in [Loops -> {"wait", "tick", "manual", "done"}] /\ late \subseteq Loops
    /\ phase \in {"new", "running", "stopped"} /\ task \in [session.tasks -> TaskStates]

\* The loops rest exactly when the user has asked for it or the kill dialog has:
\* no way out of the dialog loses or keeps a pause (EnterKillFlowPause and
\* ExitKillFlowPause, called by handlers that other pages separate).
\* And while a kill dialog is open the data stands still, but the dialog's own
\* pause does not outlive it.
PauseIsAccountedFor ==
    LET open == KillPages \cap ToSet(pages) # {}
    IN  /\ paused <=> byUser \/ killFlowAutoPaused
        /\ open => paused
        /\ killFlowAutoPaused => open

\* The keys go to the dialog that is shown in front, unless a popup of a
\* goroutine has come over another dialog.
KeysReachFront == FrontPage \notin {"main", "help", focus} => buried

\* In a pause a loop changes the panels at most once, with the tick it had
\* posted before.
PauseHoldsTheTable ==
    [][\A l \in Loops : loop[l] = "tick" /\ loop'[l] # "tick" /\ paused => l \notin late]_vars

\* The refresh that 'r' asks for is made, also in a pause.
RequestedRefreshHappens ==
    /\ refreshChan ~> loop["refresh"] = "manual" \/ ~Running
    /\ loop["refresh"] = "manual" ~> loop["refresh"] = "wait" \/ ~Running
=============================================================================
