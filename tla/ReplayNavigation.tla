-------------------------- MODULE ReplayNavigation --------------------------
(***************************************************************************)
(* The replay view (internal/tui/history_app.go, internal/tui/replay): an  *)
(* index of the snapshots, a position in it, the record shown, live tail,  *)
(* skip-empty navigation, and a search that runs in a goroutine.  Beneath  *)
(* it the log of SnapshotLog grows and expires, which the view learns only *)
(* when it reloads the index or when a read fails.                         *)
(*                                                                         *)
(* The UI thread runs one handler at a time.  A reload takes two steps,    *)
(* LoadIndex and ReadSnapshot, since the daemon may prune between them.    *)
(* Indices are those of the code plus one; 0 stands for none.              *)
(***************************************************************************)
EXTENDS Integers, Sequences, SequencesExt

CONSTANTS DayTicks, Retention,
          MaxTime,      \* bound on the clock
          MaxRecords,   \* bound on the snapshots of a behaviour
          RangeBegin, RangeEnd, \* -b and -e
          Incoming, Outgoing,
          Contents      \* which directions have rows, for each snapshot: the cases to check

ASSUME ReplayAssumption ==
    /\ DayTicks \in Nat \ {0} /\ Retention \in Nat \ {0}
    /\ MaxTime \in Nat /\ MaxRecords \in Nat
    /\ RangeBegin \in Nat /\ RangeEnd \in Nat
    /\ Incoming # Outgoing
    /\ Contents \subseteq [1 .. MaxRecords -> SUBSET {Incoming, Outgoing}]

Ids == 1 .. MaxRecords
Dirs == {Incoming, Outgoing}
Pages == {"jump", "search", "results"}

VARIABLES
    now, readable, \* the log, as SnapshotLog has it
    made,          \* snapshots so far
    rows,          \* the directions in which each snapshot has rows
    refs,          \* refs: the index
    currentIndex,
    shown,         \* currentRecord, by its id; 0 is the empty record
    topDirection, skipEmpty, followLatest,
    ui,            \* the UI thread: start, idle, or read, in the middle of a reload
    target,        \* the index a reload is going to read
    pages,         \* overlays over the main page, front last
    focus,         \* the page that gets the keys
    scan,          \* the search goroutine: idle, run
    scanRefs,      \* its copy of the index
    scanned,       \* how many of them it has read
    results,       \* what it found: position in its copy, and snapshot
    astray,        \* history: the position moved, or the index changed, without a read
    lost           \* history: a snapshot of the index that is searched was lost

logVars == <<now, readable, made, rows>>
viewVars == <<refs, currentIndex, shown, topDirection, skipEmpty, followLatest>>
threadVars == <<ui, target>>
pageVars == <<pages, focus>>
searchVars == <<scan, scanRefs, scanned, results>>
vars == <<logVars, viewVars, threadVars, pageVars, searchVars, astray, lost>>

Ref == [id : Ids, at : 0 .. MaxTime]
Result == [index : Ids, id : Ids]

Log == INSTANCE SnapshotLog

Init ==
    /\ Log!LogInit /\ made = 0 /\ rows \in Contents
    /\ refs = <<>> /\ currentIndex = 0 /\ shown = 0
    /\ topDirection = Incoming /\ skipEmpty = TRUE /\ followLatest = FALSE
    /\ ui = "start" /\ target = 0
    /\ pages = <<>> /\ focus = "main"
    /\ scan = "idle" /\ scanRefs = <<>> /\ scanned = 0 /\ results = <<>>
    /\ astray = FALSE /\ lost = FALSE

-----------------------------------------------------------------------------
(* The snapshots underneath. *)

\* One per interval of the daemon, which is the unit of the clock.  A line that
\* was cut off is spoilt before the next one is there.
Capture ==
    /\ made < MaxRecords /\ \A e \in readable : e.at < now /\ e.done
    /\ made' = made + 1
    /\ Log!Write([id |-> made + 1, at |-> now, done |-> FALSE])
    /\ UNCHANGED <<rows, viewVars, threadVars, pageVars, searchVars, astray, lost>>

FinishCapture ==
    /\ \E e \in readable : Log!Finish(e)
    /\ UNCHANGED <<made, rows, viewVars, threadVars, pageVars, searchVars, astray, lost>>

Lose ==
    /\ \/ \E e \in readable : Log!Spoil(e)
       \/ \E e \in readable : Log!Expire(Log!DayOf(e.at))
    /\ lost' = (scan = "run" \/ results # <<>>)
    /\ UNCHANGED <<made, rows>>

LoseSnapshots ==
    /\ Lose
    /\ UNCHANGED <<viewVars, threadVars, pageVars, searchVars, astray>>

Tick ==
    /\ now < MaxTime
    /\ now' = now + 1
    /\ UNCHANGED <<readable, made, rows, viewVars, threadVars, pageVars, searchVars, astray, lost>>

IsReadable(id) == \E e \in readable : e.id = id

-----------------------------------------------------------------------------
(* The index and positions in it (replay/navigation.go, search.go). *)

InRange(r) == RangeBegin <= r.at /\ r.at <= RangeEnd

FilterByRange(S) == {r \in S : InRange(r)}

\* The order of capture.
InOrder(S) ==
    CHOOSE f \in Bijection(1 .. Cardinality(S), S) :
        \A i, j \in DOMAIN f : i < j => f[i].id < f[j].id

\* LoadIndex, as SnapshotStore shows it, and the window.
LoadIndex == InOrder(FilterByRange({[id |-> e.id, at |-> e.at] : e \in readable}))

\* The positions with rows in a direction (currentRefCount).
ActiveIn(index, dir) == {i \in DOMAIN index : dir \in rows[index[i].id]}

Active == ActiveIn(refs, topDirection)

Or(S, Best(_), i) == IF S = {} THEN i ELSE Best(S)

\* Mutant: at the oldest active snapshot it goes on from the newest.
FindPrevWraps(index, i, j) ==
    LET active == ActiveIn(index, topDirection)
    IN  Or({k \in active : k <= i}, Max, Or(active, Max, j))

\* The last active position up to i, the first one from i on; or j.
FindPrev(index, i, j) == Or({k \in ActiveIn(index, topDirection) : k <= i}, Max, j)
FindNext(index, i, j) == Or({k \in ActiveIn(index, topDirection) : k >= i}, Min, j)

Distance(i, j) == IF i < j THEN j - i ELSE i - j

\* FindNearestNonEmptyIndex: of two that are as near the earlier one; or i.
FindNearest(index, dir, i) ==
    LET active == ActiveIn(index, dir)
        nearest == {k \in active : \A l \in active : Distance(k, i) <= Distance(l, i)}
    IN  IF i \in DOMAIN index THEN Or(nearest, Min, i) ELSE i

\* adjustStartIndexForSkipEmpty
AdjustStart(index) == IF skipEmpty THEN FindNext(index, 1, 1) ELSE 1

\* Mutant: the last snapshot, active or not.
AdjustLatestRaw(index) == Len(index)

\* adjustLatestIndexForSkipEmpty
AdjustLatest(index) ==
    IF skipEmpty THEN FindPrev(index, Len(index), Len(index)) ELSE Len(index)

\* Mutant: the comparison of the two neighbours is turned round.
ClosestFarther(t) ==
    LET after == {i \in DOMAIN refs : refs[i].at >= t}
        i == Min(after)
    IN  IF after = {} THEN Len(refs)
        ELSE IF i = 1 \/ t - refs[i - 1].at < refs[i].at - t THEN i ELSE i - 1

\* ClosestSnapshotIndex: the first snapshot from t on, or the one before it if
\* that is at least as close.
Closest(t) ==
    LET after == {i \in DOMAIN refs : refs[i].at >= t}
        i == Min(after)
    IN  IF after = {} THEN Len(refs)
        ELSE IF i = 1 \/ t - refs[i - 1].at > refs[i].at - t THEN i ELSE i - 1

Clamp(i) == IF i < 1 THEN 1 ELSE IF i > Len(refs) THEN Len(refs) ELSE i

-----------------------------------------------------------------------------
(* Reading a snapshot *)

\* Mutant: the position is moved before the read.
LoadSnapshotAtFirst(i) ==
    LET j == Clamp(i) IN
    /\ currentIndex' = j
    /\ IF IsReadable(refs[j].id)
       THEN shown' = refs[j].id /\ astray' = FALSE
       ELSE UNCHANGED <<shown, astray>>

\* loadSnapshotAt with a non-empty index: when the read fails, nothing changes.
LoadSnapshotAt(i) ==
    LET j == Clamp(i) IN
    IF IsReadable(refs[j].id)
    THEN currentIndex' = j /\ shown' = refs[j].id /\ astray' = FALSE
    ELSE UNCHANGED <<currentIndex, shown, astray>>

\* Mutant: an empty index is not a case of its own.
TakeIndexWhole(index, i) ==
    /\ refs' = index /\ ui' = "read" /\ target' = i
    /\ astray' = (astray \/ index # refs)
    /\ UNCHANGED <<currentIndex, shown>>

\* reloadIndex has its index; read the snapshot it wants next, if any.
TakeIndex(index, i) ==
    /\ refs' = index
    /\ IF index = <<>>
       THEN /\ currentIndex' = 0 /\ shown' = 0 /\ astray' = FALSE
            /\ ui' = "idle" /\ target' = 0
       ELSE /\ ui' = "read" /\ target' = i
            /\ astray' = (astray \/ index # refs)
            /\ UNCHANGED <<currentIndex, shown>>

\* Run: the first index, and the oldest snapshot.
Open ==
    /\ ui = "start"
    /\ TakeIndex(LoadIndex, AdjustStart(LoadIndex))
    /\ UNCHANGED <<logVars, topDirection, skipEmpty, followLatest, pageVars, searchVars, lost>>

\* The second half of a reload.
ReadTarget ==
    /\ ui = "read"
    /\ LoadSnapshotAt(target)
    /\ ui' = "idle" /\ target' = 0
    /\ UNCHANGED <<logVars, refs, topDirection, skipEmpty, followLatest, pageVars, searchVars, lost>>

\* Mutant: the live tail waits while a dialog is open.
FollowWaits ==
    /\ ui = "idle" /\ followLatest /\ pages = <<>>
    /\ TakeIndex(LoadIndex, AdjustLatest(LoadIndex))
    /\ UNCHANGED <<logVars, topDirection, skipEmpty, followLatest, pageVars, searchVars, lost>>

\* Every third tick of the ticker loop, on the UI thread, dialogs or not.
Follow ==
    /\ ui = "idle" /\ followLatest
    /\ TakeIndex(LoadIndex, AdjustLatest(LoadIndex))
    /\ UNCHANGED <<logVars, topDirection, skipEmpty, followLatest, pageVars, searchVars, lost>>

\* A segment goes while the index is loaded: LoadIndex fails and nothing changes.
FollowFails ==
    /\ ui = "idle" /\ followLatest
    /\ Lose
    /\ UNCHANGED <<viewVars, threadVars, pageVars, searchVars, astray>>

-----------------------------------------------------------------------------
(* Keys on the main page *)

AtMain == ui = "idle" /\ pages = <<>>

MoveTo(i) ==
    /\ LoadSnapshotAt(i)
    /\ UNCHANGED <<logVars, refs, topDirection, skipEmpty, threadVars, pageVars, searchVars, lost>>

Stay == UNCHANGED <<logVars, refs, currentIndex, shown, topDirection, skipEmpty, threadVars,
                    pageVars, searchVars, astray, lost>>

\* '[': with skip-empty, only if there is an active snapshot before.
NavigatePrev ==
    /\ AtMain /\ refs # <<>>
    /\ followLatest' = FALSE
    /\ LET i == FindPrev(refs, currentIndex - 1, 0) IN
       IF ~skipEmpty THEN MoveTo(currentIndex - 1)
       ELSE IF i # 0 THEN MoveTo(i) ELSE Stay

\* ']'
NavigateNext ==
    /\ AtMain /\ refs # <<>>
    /\ followLatest' = FALSE
    /\ LET i == FindNext(refs, currentIndex + 1, 0) IN
       IF ~skipEmpty THEN MoveTo(currentIndex + 1)
       ELSE IF i # 0 THEN MoveTo(i) ELSE Stay

\* 'a'
NavigateOldest ==
    /\ AtMain /\ refs # <<>>
    /\ followLatest' = FALSE
    /\ MoveTo(AdjustStart(refs))

\* 'e', which leaves the live tail as it is.
NavigateLatest ==
    /\ AtMain /\ refs # <<>>
    /\ MoveTo(AdjustLatest(refs))
    /\ UNCHANGED followLatest

\* The position moves, and nothing is read.
Reposition(i) ==
    /\ currentIndex' = i
    /\ astray' = (astray \/ i # currentIndex)

\* 'o'
ToggleDirection ==
    /\ AtMain
    /\ \E d \in Dirs \ {topDirection} :
        /\ topDirection' = d
        /\ Reposition(IF skipEmpty THEN FindNearest(refs, d, currentIndex) ELSE currentIndex)
    /\ UNCHANGED <<logVars, refs, shown, skipEmpty, followLatest, threadVars, pageVars, searchVars, lost>>

\* 'x'
ToggleSkipEmpty ==
    /\ AtMain
    /\ skipEmpty' = ~skipEmpty
    /\ Reposition(IF skipEmpty THEN currentIndex ELSE FindNearest(refs, topDirection, currentIndex))
    /\ UNCHANGED <<logVars, refs, shown, topDirection, followLatest, threadVars, pageVars, searchVars, lost>>

\* 'L': reload the index and go to the latest snapshot; when that fails, go to
\* the latest of the old index.
FollowOn ==
    /\ AtMain /\ ~followLatest
    /\ followLatest' = TRUE
    /\ \/ TakeIndex(LoadIndex, AdjustLatest(LoadIndex)) /\ UNCHANGED <<logVars, lost>>
       \/ /\ Lose
          /\ IF refs = <<>> THEN UNCHANGED threadVars
             ELSE ui' = "read" /\ target' = AdjustLatest(refs)
          /\ UNCHANGED <<refs, currentIndex, shown, astray>>
    /\ UNCHANGED <<topDirection, skipEmpty, pageVars, searchVars>>

FollowOff ==
    /\ AtMain /\ followLatest
    /\ followLatest' = FALSE
    /\ Stay

-----------------------------------------------------------------------------
(* Dialogs.  Closing one gives the focus to the main page, whatever is in   *)
(* front then.                                                              *)

Without(page) == RemoveFirst(pages, page)

Show(page) == pages' = Append(Without(page), page) /\ focus' = page

Close(page) == pages' = Without(page) /\ focus' = "main"

\* 't' and 'S'
Prompt(page) ==
    /\ AtMain /\ refs # <<>>
    /\ page = "search" => scan = "idle"
    /\ Show(page)
    /\ UNCHANGED <<logVars, viewVars, threadVars, searchVars, astray, lost>>

\* The results are only reached through their dialog.
ForgetResults == results' = <<>> /\ lost' = FALSE

\* Esc
Cancel(page) ==
    /\ ui = "idle" /\ focus = page
    /\ Close(page)
    /\ IF page = "results" THEN ForgetResults ELSE UNCHANGED <<results, lost>>
    /\ UNCHANGED <<logVars, viewVars, threadVars, scan, scanRefs, scanned, astray>>

\* Enter in the jump prompt, for a time t.
Jump(t) ==
    /\ ui = "idle" /\ focus = "jump"
    /\ Close("jump")
    /\ IF refs = <<>> THEN UNCHANGED <<currentIndex, shown, followLatest, astray>>
       ELSE /\ followLatest' = FALSE
            /\ LoadSnapshotAt(IF skipEmpty THEN FindNearest(refs, topDirection, Closest(t))
                              ELSE Closest(t))
    /\ UNCHANGED <<logVars, refs, topDirection, skipEmpty, threadVars, searchVars, lost>>

-----------------------------------------------------------------------------
(* The timeline search *)

\* Enter in the search prompt: start the goroutine on a copy of the index.
StartSearch ==
    /\ ui = "idle" /\ focus = "search"
    /\ Close("search")
    /\ IF refs = <<>> THEN UNCHANGED <<followLatest, searchVars, lost>>
       ELSE /\ followLatest' = FALSE
            /\ lost' = \E i \in DOMAIN refs : ~IsReadable(refs[i].id)
            /\ scan' = "run" /\ scanRefs' = refs /\ scanned' = 0 /\ results' = <<>>
    /\ UNCHANGED <<logVars, refs, currentIndex, shown, topDirection, skipEmpty, threadVars, astray>>

\* The query matches every row.  The direction is read anew for each snapshot,
\* while the UI thread may change it.
Matches(i) == IsReadable(scanRefs[i].id) /\ topDirection \in rows[scanRefs[i].id]

\* Mutant: the results are numbered among themselves.
ScanRenumbers ==
    /\ scan = "run" /\ scanned < Len(scanRefs)
    /\ scanned' = scanned + 1
    /\ results' = IF Matches(scanned')
                  THEN Append(results, [index |-> Len(results) + 1, id |-> scanRefs[scanned'].id])
                  ELSE results
    /\ UNCHANGED <<logVars, viewVars, threadVars, pageVars, scan, scanRefs, astray, lost>>

\* ScanTimelineMatches, one snapshot; one that cannot be read is left out.
Scan ==
    /\ scan = "run" /\ scanned < Len(scanRefs)
    /\ scanned' = scanned + 1
    /\ results' = IF Matches(scanned')
                  THEN Append(results, [index |-> scanned', id |-> scanRefs[scanned'].id])
                  ELSE results
    /\ UNCHANGED <<logVars, viewVars, threadVars, pageVars, scan, scanRefs, astray, lost>>

\* The results come to the UI thread, over whatever page is open by then.
ShowResults ==
    /\ ui = "idle" /\ scan = "run" /\ scanned = Len(scanRefs)
    /\ scan' = "idle" /\ scanRefs' = <<>> /\ scanned' = 0
    /\ IF results = <<>> THEN lost' = FALSE /\ UNCHANGED pageVars
       ELSE Show("results") /\ UNCHANGED lost
    /\ UNCHANGED <<logVars, viewVars, threadVars, results, astray>>

\* Enter on a result.
JumpToResult(k) ==
    /\ ui = "idle" /\ focus = "results" /\ k \in DOMAIN results
    /\ Close("results")
    /\ IF results[k].index \in DOMAIN refs
       THEN followLatest' = FALSE /\ LoadSnapshotAt(results[k].index)
       ELSE UNCHANGED <<followLatest, currentIndex, shown, astray>>
    /\ ForgetResults
    /\ UNCHANGED <<logVars, refs, topDirection, skipEmpty, threadVars, scan, scanRefs, scanned>>

-----------------------------------------------------------------------------
LogStep == Capture \/ FinishCapture \/ LoseSnapshots \/ Tick

ThreadStep == Open \/ ReadTarget \/ Follow \/ FollowFails \/ Scan \/ ShowResults

NavigationKey ==
    \/ NavigatePrev \/ NavigateNext \/ NavigateOldest \/ NavigateLatest
    \/ \E t \in 0 .. MaxTime : Jump(t)

Key ==
    \/ NavigationKey
    \/ ToggleDirection \/ ToggleSkipEmpty \/ FollowOn \/ FollowOff
    \/ \E page \in {"jump", "search"} : Prompt(page)
    \/ \E page \in Pages : Cancel(page)
    \/ StartSearch
    \/ \E k \in Ids : JumpToResult(k)

Next == LogStep \/ ThreadStep \/ Key

Spec == Init /\ [][Next]_vars

\* The ticker ticks and the UI thread runs on; the user, the daemon and the
\* search need do nothing.
Fairness == WF_vars(Open) /\ WF_vars(ReadTarget) /\ WF_vars(Follow)

FairSpec == Spec /\ Fairness

-----------------------------------------------------------------------------
(* Properties *)

TypeOK ==
    /\ now \in 0 .. MaxTime /\ made \in 0 .. MaxRecords
    /\ readable \subseteq [id : Ids, at : 0 .. MaxTime, done : BOOLEAN]
    /\ rows \in Contents
    /\ refs \in Seq(Ref) /\ Len(refs) <= MaxRecords
    /\ currentIndex \in 0 .. MaxRecords /\ shown \in Ids \cup {0}
    /\ topDirection \in Dirs /\ skipEmpty \in BOOLEAN /\ followLatest \in BOOLEAN
    /\ ui \in {"start", "idle", "read"}
    /\ target \in 0 .. MaxRecords /\ (ui = "read" <=> target \in DOMAIN refs)
    /\ pages \in Seq(Pages) /\ focus \in Pages \cup {"main"}
    /\ scan \in {"idle", "run"} /\ scanRefs \in Seq(Ref) /\ scanned \in 0 .. Len(scanRefs)
    /\ results \in Seq(Result)
    /\ astray \in BOOLEAN /\ lost \in BOOLEAN

\* The header names the record that is shown: the position is that of the
\* record in the index, and there is none when the index is empty.  'o', 'x' and
\* a reload whose read fails are the only ways to lose this, until the next
\* read that succeeds.
HeaderNamesRecord ==
    ~astray => IF currentIndex \in DOMAIN refs THEN refs[currentIndex].id = shown ELSE shown = 0

\* '[' and ']' take the user one way: the record that comes up was captured
\* before, or after, the one that was there, however the index was reloaded.
\* And with skip-empty on, a key that changes the record shows one with rows in
\* the current direction, as long as the index has one.
StepsGoOneWay ==
    [][/\ ~astray /\ shown # 0 =>
            /\ shown' > shown => ~NavigatePrev
            /\ shown' < shown => ~NavigateNext
       /\ skipEmpty /\ shown' # shown /\ Active # {} /\ NavigationKey
            => topDirection \in rows[shown']]_vars

\* Without skip-empty the jump to a time shows, if it can be read, a snapshot
\* than which none in the index is closer to that time; and choosing a search
\* result shows the snapshot that matched, though the index may have been
\* reloaded since, unless one of the snapshots searched was lost.
JumpHitsTarget ==
    [][/\ ~skipEmpty /\ currentIndex' # currentIndex =>
            \A t \in 0 .. MaxTime : Jump(t) =>
              \A i \in DOMAIN refs : Distance(refs[currentIndex'].at, t) <= Distance(refs[i].at, t)
       /\ \A k \in Ids : JumpToResult(k) /\ ~lost => shown' = results[k].id]_vars

Newest == LET index == LoadIndex IN IF index = <<>> THEN 0 ELSE index[AdjustLatest(index)].id

\* With the live tail on for good, the newest snapshot, or the newest active
\* one, is shown again and again, whatever dialogs are open.
TailFollows == <>[]followLatest => []<>(shown = Newest)

\* Keys reach the dialog in front, whose hotkeys the status bar shows
\* (StatusHotkeysForPage).
FrontPageHasKeys == focus = IF pages = <<>> THEN "main" ELSE Last(pages)
=============================================================================
