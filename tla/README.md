# holyf-network: models, checks and proofs

holyf-network is a terminal monitor for the network of one Linux host. It shows
connections, conntrack and interface statistics; it can block a peer with
firewall rules for some minutes and kill its connections; and a daemon of it
writes snapshots of the connections to disk, which a replay view reads back.

This directory holds TLA+ modules of the parts of it that change state, the TLC
runs that check them on small instances, and TLAPS proofs for every instance.
Source paths are relative to the repository.

## 1. The system

| Part | State | Operations | Hard because |
|---|---|---|---|
| Firewall backends (`internal/kernelapi/firewall_*.go`) | DROP rules in the kernel, which outlive the program | insert, delete and list rules of a peer and port, by `iptables` commands or nft batches | two commands per block, each may fail; list-then-delete in nft; rules of earlier sessions |
| Peer blocking (`internal/tui/blocking`, `internal/actions/peer_blocker.go`) | the map of active blocks; one sleeping goroutine per block | confirm a block, sweep, sleep, unblock, remove by hand, clean up on `q` | goroutines and the UI thread change rules and map in separate steps, no lock spans both |
| Kill sweep (`internal/actions/kill_converge.go`, `internal/kernelapi/socket_*.go`) | the report of one sweep | count, list, kill, drop conntrack entries, count again, until nothing is left or a deadline | the peer reconnects, the host closes, tools fail, counts are stale when used |
| Snapshot daemon (`cmd/daemon.go`) | active-state file, PID files, flock | start, stop, status, prune; the worker's own start and end | independent processes, crashes, zombies, check-then-act on files |
| Snapshot store (`internal/history`) | segment files, one per local day | append, rotate, prune by age, index, read one snapshot | torn lines, pruning while another process reads |
| Replay view (`internal/tui/history_app.go`, `tui/replay`) | the index, the current position, the loaded record, follow mode, a search in the background | step, jump, follow, reload, search | the position and the record shown must agree; search results refer to an older index |
| Live view (`internal/tui/app_core.go`, `app_connections.go`) | pages, focus, pause flag, refresh loops | keys, dialogs, refresh on a timer or on request | refresh, dialogs and blocking goroutines all post to the UI thread |
| Top Connections (`tui/app_connections.go`, `tui/panels/top_connections.go`) | the table, its filters and order, page and position | move, turn the page, filter, sort, group, draw | the table changes under the cursor; handler and panel compute the rows each by itself, rows and groups by different code |
| Bandwidth (`collector/bandwidth_tracker.go`, `socket_bandwidth_tracker.go`, `conntrack_merge.go`, `history/aggregate.go`) | the last sample of two trackers | merge flows and sockets, difference, overlay, group | three tables read one after the other; counters restart; addresses are reused; a read fails |
| Traffic level (`tui/traffic`) | a level, two streaks | evaluate a reading | must not flap and must follow; readings come from two lanes and several keys |
| Action log (`tui/actionlog`) | the last 500 lines, in memory and on disk | add | two programs share the file |
| Pod lookup (`internal/podlookup`, `tui/podlookup`) | an answer that arrives later | scan, show | the page may be closed by then |

How they interact: the confirmation dialog of the live view starts a blocking
goroutine; that calls the firewall, then the sweep, then sleeps, then calls the
firewall again and edits the map the UI thread reads. The daemon appends to the
store, which the replay view reads, in another process and without a lock; the
daemon and `daemon prune` delete what the replay view may be reading.

What makes each part correct: rules and map agree when nobody is in the middle
of an operation, and every rule is lifted in the end; a sweep never claims more
than it did, and ends; a data directory has one writer, and the files name it;
a reader of the store sees every complete record and only those; the replay
view shows the record its title names; the row that is marked is the row whose
connections a kill would hit, and the table stands still while that is
confirmed; a figure is never more than what moved on the wire.

PROJECT.json lists under `components` every part with its status and under
`hazards` each place in the code where these things can go wrong.

## 2. Modules

| Module | What it is |
|---|---|
| `Firewall` | rule tables, and what one command or batch does to one |
| `PeerBlocking` | the blocking goroutines, the UI thread and the kernel; uses `Firewall` |
| `PeerBlocking_proofs` | its inductive invariants and seven theorems |
| `KillConverge` | one sweep against a peer and a host that move |
| `KillConverge_proofs` | its inductive invariant and five theorems |
| `DaemonLifecycle` | commands, workers and the three kinds of file |
| `DaemonLifecycle_proofs` | its two inductive invariants and four theorems |
| `SnapshotLog` | what the snapshot store promises: a log that grows, and loses whole days when they expire |
| `SnapshotStore` | segment files, their writer, both pruners and a loading replay; implements `SnapshotLog` |
| `SnapshotStore_proofs` | its inductive invariants, five theorems, among them that `SnapshotLog` is implemented |
| `ReplayNavigation` | the replay view over a log that grows and expires; uses `SnapshotLog` |
| `ReplayNavigation_proofs` | its inductive invariant and four theorems |
| `Paging` | how many rows fit the panel, and which rows a page has |
| `TrafficLevel` | the load level of the interface, from readings |
| `TopConnections` | the list: rows, groups, cursor, drawing, preview; uses `Paging` and `TrafficLevel` |
| `LiveUI` | keys, pages, focus, pause, refresh loops and what goroutines post, over `TopConnections` |
| `LiveUI_proofs` | of pages of rows, order, groups and cursor, of dialogs, pause and loops: its inductive invariants and ten theorems; uses `SumsAndOrders` |
| `Bandwidth` | one capture after another over a host whose connections come, go and move bytes |
| `Bandwidth_proofs` | its inductive invariant and six theorems; uses `SumsAndOrders` |
| `SumsAndOrders` | lemmas on sums over finite sets and on finite sets in order |
| `MC...` | what TLC needs besides: symmetry sets and instances |

Operators whose comment begins with "Mutant:" are plausible bugs. They are used
by no specification; each is there to be put in the place of the operator below
it, to see that the property it is meant for would notice.

### PeerBlocking

An actor is a blocking goroutine (`Workers`) or the UI thread (`UI`). `pc[a]`
is the statement an actor is at; one action is one firewall command or batch,
one critical section of `Manager`, or one UI handler, because that is where
another actor can come between. `BlockPeerForDuration` is `ConfirmKill` (the
`go` statement), `BlockInput`, `BlockOutput` or `BlockFlush`, `AddActiveBlock`,
`FinishSweep`, the sleep, `WakeUp`, the unblock steps and `RemoveExpired`.
Time is counted as distances in minutes, to the expiry of an entry and to the end
of a sleep; `Tick` is a minute that passes for everybody, in the middle of a
command or a sweep too. Distances stop at 0, so a goroutine may wake up late.

Rules are counted per chain, because `iptables -I` adds a second copy and `-D`
removes one. The initial rules are those an earlier session left (`MaxLeftover`
copies): a crash or Ctrl-C leaves rules behind, and `Crash` ends a session with
whatever it was doing.

With nft an unblock is two steps, the listing (`ListTagged`) and the batch
(`DeleteFlush`), which fails as a whole if a listed rule is gone. A listing that
fails is an error or, where `findTable` swallows it, a success that removed
nothing.

Four history sets say which peers something unusual happened to: `leftover`
(rules before the session), `failed` (a command failed), `raced` (two actors
worked on the peer at once), `reblocked` (it was blocked again while the
goroutine of an earlier block still slept). A peer in neither of the last two is
*unshared*, one in none of the four *undisturbed*. `EveryBlockHasATimer` holds
of raced peers too, `EveryRuleIsListed` of peers whose commands failed,
`RemovalIsComplete` of peers with rules of an earlier session. About the others
the code promises little; section 4 says what goes wrong there, with an old
goroutine, a swallowed error and a second pair of rules.

### KillConverge

Each tuple of the peer has a TCP state. `PeerMoves` opens, advances and closes
connections (new ones only while the peer is not blocked, as the DROP rules
stop its packets), `HostMoves` is what the local side and its timers do. The
pass is split where the code makes a system call: count, list, one kill per
tuple, the broad kill, conntrack, count.

`tools` is what a host has: its backend, and whether its tools may fail.
The backends differ in the states they see. `ss -tnp` without `-a` leaves out
half-open sockets and `TIME_WAIT` (`ListedStates`), in the count, in the exact
tuples and in the broad kill, which is `ss -K` without a state filter; netlink
dumps every state, but its broad kill lists established sockets only. For one
tuple `ss` tries `state established` first and stops there if the command exits
with 0, which it does even if it closed nothing (`KillStates`); so with working
tools only established sockets are closed one by one, and half-closed ones by
the broad kill. `Missed` are the active sockets that a backend cannot see: the
half-open ones under `ss`, none with netlink. What the report claims is claimed
of the rest (`NeverUnderstates`, `ClaimIsTrue`); that it is true of all of them
(`ClearedWhenConverged`) holds with netlink and fails with `ss`.

`report` is `KillConvergeReport` with the fields `BuildKillPart` prints;
`ClaimsAllKilled` is that text's claim.

### DaemonLifecycle

A command process (`Cmds`, slots that are reused) takes one step per file
operation or signal; a worker process (`Pids`, each used once) likewise. The
kernel's part is in `Exit`: a process that ends loses its flock and stays a
zombie while its parent, the start command, lives. `Interrupt` is Ctrl-C or an
early error return at any step. Histories `overlapped`, `interrupted` and
`orphaned` let a property say under which circumstances it is promised. Stale
PID files, dead workers, interrupted starts and stops with the wrong flags are
all reachable.

### SnapshotStore

A segment file is a sequence of chunks, one per `Write` call: "torn" while the
JSON is incomplete, "bare" while only the newline is missing, "whole". A file
is opened for appending and nobody looks at its end, so a chunk that was cut
off, by a crash or a full disk, and the next one share a line, and a line that
is not exactly one JSON does not decode. `Decodes` is that rule, for
`indexSegmentFile` and `ReadSnapshot` alike. The bytes of a chunk arrive in
steps (`WriteSome`, `FinishWrite`), with crashes, failures, prunes and reads
between them; `linked` says whether the open file still has a name, since
pruning may remove it under the writer. Reading one file is one step: a reader
sees the file as of its last read, and everything before is only appended to.
The time of a capture is the time of its tick, which may be older than `now`
when the tick waited. Days and records are few (`MaxTime`, `MaxRecords`).
`IndexAgreesWithStore` speaks, where it reads back, of records within the retention only: a capture
that hangs for longer than that re-creates a file pruned meanwhile, and an old
offset then finds a record of the new file.

### ReplayNavigation

Beneath the view lies the abstract `SnapshotLog`, not the files: what the view
can see of them is that a snapshot can be read, or no longer. `Capture`,
`FinishCapture`, `LoseSnapshots` and `Tick` are that environment. The UI thread
runs one handler at a time, so a key is one action, except that a reload takes
two: `TakeIndex` replaces the index and `ReadTarget` reads a snapshot of it,
which may have been pruned in between. The search goroutine reads one snapshot
per step and looks at `topDirection` each time, which the UI thread may change
meanwhile without a lock.

`pages` and `focus` stand for tview's: a page that is shown comes to the front
and takes the focus; closing one gives the focus to the main panel. A dialog
has keys only while it has the focus, the main page only while it is in front.

Two history variables say when less is promised: `astray` (the position moved,
or the index changed, without a read; the next read that succeeds ends it) and
`lost` (a snapshot of the index that was searched is gone, so positions in it
may have shifted). A query matches every row of a snapshot; rows are given per
snapshot and direction by `Contents`, which include snapshots that have rows on
one side only.

### TopConnections and LiveUI

`view` holds what the panel is computed from, with the field names of `App`.
`Rows` is what the handlers take for the rows (`filteredTopConnections`,
`filteredPeerGroups`), `PanelRows` what the panel takes for them: the two are
translated separately, as they are separate code. `Render` is
`renderTopConnectionsPanel`, which ends every handler of the list and brings
page and position back onto a row; `drawn` is its result. `RefreshList` is
`refreshData`; an error of `CollectTopTalkers` empties the list. A connection
is a record of small numbers, with the set of words that a search for it
finds; byte counts stand for the rates they are divided into. A filtered list
is the set of the places that its members have in `latestTalkers`, since the
code's filters keep the order; the order of rows is that of their keys
(`SortKey`, `GroupKey`: the comparisons of the code one after another), with
the place last, as the sort is stable. `InOrder` puts each row at the place that
follows from how many keys are less.

The UI thread is one step per handler, and one per function that a goroutine
has handed to `QueueUpdateDraw`. `pages` is the page stack of tview without the
main page, `focus` the page whose widget has the focus. `task` are the
goroutines of kills and lookups as far as they reach the screen, `loop` the
three refresh loops: a loop that has posted waits until its function has run.
What the blocking goroutine does to rules and map is in `PeerBlocking`; here it
is `BlockIsSet`, `BlockExpires` and so on, each possible at any time. Histories:
`byUser` is the pause the user has set himself, `buried` that a popup came over
another dialog, `late` which loops have run a tick in this pause.

One instance with all keys would be too large. A *session* is a part of the
program's alphabet: which keys are pressed, which tables a refresh may bring,
which loops tick, how many goroutines there are and what readings the interface
gives. All sessions share the actions; `Init` picks one.

### TrafficLevel

The level of a reading is an input; the rate, the moving average and the two
thresholds that make it are left out. `Refreshed` is one reading, with the
first one (nothing to compare with), the warm-up, and readings without traffic,
which change nothing that is kept. `last` and `run` are history.

### Bandwidth

The capture is four steps, as it makes three reads and one write with time in
between: `CollectTopTalkers`, `CollectConntrackFlowsTCP`,
`CollectSocketTCPCounters`, `Append`. `Open`, `Close` and `Transfer` are the
kernel's tables meanwhile; `Open` of a closed connection starts its counters
anew under the same addresses. A connection has the tuple of the request and of
the answer, which differ behind DNAT, and its sockets on the host, of which a
container's has none. `Matches` keeps the fallback of the code, by peer and
ports. `since` is history: what moved since each tracker's last sample, and
which connections lived throughout.

## 3. Runs

| Run | Instance | What it shows |
|---|---|---|
| `blocking_exec` | iptables, one peer, two goroutines, kill-only or one minute, a leftover rule per chain, failing commands, fairness | types and that kill-only touches no rule, timers, agreement of rules and map, clean quit, rules that stay on the list whatever fails halfway, every undisturbed block is lifted |
| `blocking_nft` | nft, two peers, two goroutines, one minute, a leftover pair, failing calls | a removal that succeeds takes every rule of the peer whatever goes on with the other (the other safety properties hold for both backends by the theorems of section 5) |
| `blocking_stale_timer` | iptables, one peer, two goroutines, one and two minutes, no failures | **violated**: the goroutine of a block removed by hand lifts a later block |
| `sweep` | two tuples, three passes, a sleep between passes; `ss` with failing tools, netlink with working ones; fairness | the report never understates what is alive and its claim is true, half-open sockets of `ss` excepted; the sweep keeps to its deadline and ends, and with working tools it converges behind the block |
| `sweep_ss_half_open` | `ss`, two tuples, working tools | **violated**: a sweep converges while a half-open socket is alive |
| `daemon` | two commands at a time, two workers, two directories, two PID files | one writer per directory, locks never left behind; where commands did not overlap the files name the daemon that serves, through crashes and interrupted commands |
| `daemon_failed_start` | one command at a time, two workers | **violated**: a dead child is taken for a running daemon |
| `snapshot_store` | two days and the first tick of a third, three captures, cuts anywhere, both pruners, one reader | each cut write costs itself and at most the record that shares its line; an index load is ordered and complete; old refs never yield another record; `SnapshotLog` is implemented |
| `replay` | three snapshots with rows on one, no and both sides, of which a window (`-b`, `-e`) may leave out the last, expiry after one day, fairness | the header names the record shown; skip-empty navigation shows rows; steps go one way; a jump goes to the closest; a search result leads to what matched though the index was reloaded; the live tail keeps up whatever dialogs are open and reads fail |
| `live` | eight sessions; tables of two and nine connections (three peers, a peer with two processes, the program's own), pages of three rows, a cap of two groups, two heights; up to two goroutines; fairness | the cursor and the mark are on a row, and the preview and its target are of that row; rows and groups are the same connections, and the cap keeps the busiest; the kill dialog's pause and the user's are kept apart, and the table stands still in it; keys go to the dialog in front; a refresh asked for is made; the load level is steady |
| `bandwidth` | nine hosts of one to four connections (served, client, container, container with another port, loopback, untracked, own; one whose four make three unequal groups), two to four events each, bursts of 1 and 3, a cap (`MaxDelta`) of 2, two groups a side and once three groups for them, three captures | no figure exceeds what moved; a connection that lived has its exact figure; each is one row; the groups of a side account for its rows, and the cut drops no group that moved more than one it keeps |
| `replay_keys` | two snapshots | **violated**: search results that arrive over another dialog leave it without the focus |

The bounds are small because the interesting cases are. Two goroutines are
enough for a stale timer to meet a later block, and two lengths of sleep to
order two expiries. Two commands are enough for every race on a file: each is
between a check and a write of one other. Two workers are an orphan and its
successor. Two tuples are one that the sweep has dealt with and one it has not;
three passes are a first, a middle and a last. Three captures are one that is
cut off, one that shares its line and one that is whole again; the first day
expires while later ones stay. Three snapshots are a current one and a
neighbour on each side, or two to compare and one that is skipped. Six rows in pages of three
are two pages, and the small table is shorter than one, so that a refresh may
take the cursor's page or row away; the note and the preview each push the
number of rows across a boundary. Two goroutines are one that shows a popup and
one whose popup comes over it. Three captures are a first sample, a difference
and one after a gap; two to four events are enough for a connection to close
and be replaced between two samples, to be missed by one tracker, and to move
bytes on both sides of each. A burst of 3 is above the cap and one of 1 below,
two of 1 are the cap itself.

`CHECK_DEADLOCK FALSE` is set where the system stops: a session ends (of blocking, and of the live
view, whose keyboard may also be dead), a sweep
returns, the keyboard of the replay view may be dead (finding 4) when its log
has come to the end of the instance. The daemon never stops for good, as a command can always be issued, nor does the store, as its daemon can always be
started and stopped.

### Fairness

`PeerBlocking` assumes that goroutines run on and that time passes; nothing of
the user. `KillConverge` assumes that the sweep runs on; nothing of peer and
host. The Go scheduler runs every runnable goroutine, and system calls and
commands return, which is weak fairness per actor. `DaemonLifecycle` assumes
nothing: its workers may hang and its commands may stop anywhere. Nor does
`SnapshotStore`, which states no liveness. `ReplayNavigation` assumes that the
UI thread runs on and that the ticker ticks; nothing of the user, the daemon or
the search. `LiveUI` assumes that the UI thread runs what was posted
(`WF` of `RunTick("refresh")` and `RunManual`) and that a request in
`refreshChan` is taken (`SF` of `TakeRequest`): the loop's `select` chooses at
random among the channels that are ready, so a request cannot lose against the
ticker for ever. Users, tickers and goroutines owe nothing. `Bandwidth` states
no liveness.

## 4. Findings

Each is a run that TLC finds violated, quoted with its line in PROJECT.json.

1. *Stale timer.* A goroutine that wakes up asks whether the peer has an entry,
   not whether it is its own. Block a peer, remove the block by hand, block it
   again for longer: the first goroutine, still asleep, lifts the second block
   when it wakes up (`blocking_stale_timer`).
2. *Half-open sockets.* `ss` without `-a` does not show them, so a sweep with
   that backend reports convergence while one is alive (`sweep_ss_half_open`).
   Behind DROP rules such a socket does not get any further and times out.
3. *Dead child.* `daemon start` never waits for its child, so its check that the
   child is still running is answered by a zombie (`daemon_failed_start`).
4. *Dead keyboard.* Search results that arrive while the jump prompt is open are
   put over it. Closing them gives the focus to the panel beneath, and neither
   the prompt nor the main page has keys from then on; only Ctrl-C is left
   (`replay_keys`).

More places were met on the way where the code does less than one might expect.
The properties are stated so as not to depend on them, and the models contain
those that change a modelled state.

*Blocking and commands.* `findTable` answers "no table" also when the tables
cannot be listed (`firewall_nft.go:201`), so with nft `UnblockPeer` then
succeeds, its caller forgets the entry and both rules stay (`ListTagged`).
Blocking a peer that an earlier session left blocked stacks a second pair of
rules, of which unblocking removes one with iptables and both with nft; the
design document has `UnblockPeer` remove the DROP rules in either case
(`docs/ai-context/HIGH_LEVEL_DESIGN.md:95`).
A peer that is confirmed twice before its first block is in the map gets two
pairs of rules under one entry (`raced`). The kill summary lowers the count
after a sweep to the one before it and prints the result as what remains (only
the claim that nothing remains is a property).
`daemon stop --pid-file` without `--data-dir` follows the active state (`IssueStop`).

*Replay.* `o` and `x` move the position without reading the snapshot there, so
that the header names one snapshot over the rows of another until the next read
(`Reposition`, `astray`), which `internal/tui/history_app_test.go` does not
notice as it looks at the position only.

*Live view.* A block summary or a lookup result that comes over another dialog
leaves that without the focus when it is closed, as in finding 4; if it was the
kill form, the refresh stays paused and `q` is out of reach (`buried`). `k` and
Enter open an empty form (`PromptKillPeer(nil)`), while the preview and
`docs/ai-context/HIGH_LEVEL_DESIGN.md` say that they act on the selected row; `k` works in
OUT mode when System Health has the focus. The pod lookup takes
`conns[selectedTalkerIndex]` of the unfiltered, unsorted table, though its
comment says it is pre-filled from the selected row. A second summary replaces
an unread one. The load level is fed once per refresh, so that a key that
refreshes ('m') speeds it up, and it never falls while readings alternate
between WARN and OK, as each ends the streak of the other.

*Bandwidth.* `clampDelta` compares the difference of a whole interval with
12.5 GB where its comment and two documents speak of 12.5 GB/s: at the default
interval of 30 s a connection above 3.3 Gbit/s is shown as 0. Bytes that `ss`
supplied while conntrack could not be read are counted again by the next
conntrack difference; the rows of one record may cover different intervals; an
`Append` that fails loses its interval, as the trackers have moved on. Behind
DNAT to another port the row never has figures, and the fallback by peer and
ports may take those of a connection to another local address
(`NothingInvented` therefore sums over what `Matches` may confuse).
`bandwidth_available` is also set from `ss`, where `docs/SNAPSHOT_FORMAT.md`
speaks of conntrack only.

## 5. Proofs

All theorems are about `Spec` for every value of the constants that the modules
assume. They were checked by TLAPS with SMT, Zenon and LS4.

**PeerBlocking.** The invariant is `IInv`, of three parts. `TypeInv` is `TypeOK`
with what control points imply: the target of a busy goroutine is a peer, an
nft table is the same in both chains, `quitting` is set exactly after `q`.
`EveryBlockHasATimer` is one of the properties and inductive with it.
`UndisturbedInv` says for each undisturbed peer how many rules each chain has
at each control point of the one actor that may be working on it, that at most
one is, and that there are as many rules as map entries when none is. Only this
last count makes `RulesMatchEntries` inductive: the property itself says
nothing about the middle of an operation, from which the next step leads back
to a state it speaks of. The preservation proof has one step per action; steps
on another peer are dismissed by lemmas on what a firewall command leaves alone.

`EveryRuleIsListed` and `RemovalIsComplete` speak of peers whose commands may
have failed or that had rules before, of which `UndisturbedInv` says nothing.
`SharedIInv` adds `UnsharedInv`, which is about peers that one actor at a time
works on: `ChainsInv` says which chain may have a rule without the other at each
control point, after any failure, and `BatchInv` that the rules an nft actor has
listed are the rules there are until its batch. `CommandEffect` says once what a
command of each backend may do to the rules of its peer, so that the step proof
(`UnsharedInvNext`) need not look into the commands.

**KillConverge.** `IInv` is `TypeOK`, `ConvergedInv` (a sweep that reports
convergence counted zero), `BoundInv` (passes and time used at each control
point) and `NeverUnderstates`, with the lemma `NoNewActive`: behind the rules
no step makes a connection active, nor half-open. So a count bounds every later
state of the sockets the backend sees (`SeenShrinks`, `StatesCounted`), and
the claim printed from it stays true while the block lasts. With netlink it sees
all of them (`NoneSeen`), which gives `NetlinkConvergedIsClear`; with `ss` this
is what `sweep_ss_half_open` refutes.

**DaemonLifecycle.** `IInv` is `TypeOK` with two strengthenings. `JobsFit` says
what a command has in its job at each label: a start has a directory and a PID
file, whoever signals, waits or records has a worker; without it the type of the
active state is not inductive. `LocksHeld` makes the lock and the writing one
thing: the flock of a directory is held by p exactly while p is between
`NewSnapshotWriter` and `writer.Close` on that directory. `OneWriterPerDir`
follows, as two writers of a directory would both hold its one lock. The lemmas
`EndKeeps`, `ExitKeeps` and `EndAndKillKeeps` say that the ways in which a
process may end (return, death, child killed by its parent) keep it; the step
proof has one case per action and cites them. Nothing is assumed of the
commands' order, so overlapping starts, stops and clean-ups are all covered.

`ServingIsFound` and `StopLeavesNoDaemon` speak of commands one after another,
and need to know what one command leaves to the next. `SoloInv` says it, in
three layers, as the histories take them away: whoever a file or a command names
was spawned, and for that PID file (commands did not overlap); a living worker
is named in its PID file or its start is about to write it, and what the command
under way believes of the files is true (no worker was orphaned either); a
living worker is in the active state and serves, unless a stop is waiting for it
(no command was interrupted). Neither property is inductive without it: each
looks at the end of a command only, and what makes the end right is what
the command read some steps before (`StateKnown`, `FileKnown`). The steps of one
command keep it by `SoleStep` and the lemmas about the one command that runs
(`SoleEnd`, `SoleMove`, `SoleKill`); those of a worker by `WorkerSolo`.

**SnapshotStore.** `StoreInv` says what the files hold: a chunk lies in the file
of its day, no record is in two places, the line being written is the last of
the writer's file if that still has a name, and what a pruner has listed has
expired. With it every step is one of `SnapshotLog` or leaves what can be read
alone (`StoreImplementsLog`): a chunk that joins a torn one is a record spoilt,
the newline of a line is a record finished, a file removed is a day expired. The
two lemmas on lines (`LinesAfterAppend`, `LinesAfterExtend`) say which lines
decode after one write. `IndexInv` adds the reader: ids, times and places agree
in all files and in the refs of a load under way (`FileOrder`, `LoadInv`), a
ref to a young record still points to it (`HeldInv`; only expired days go, and a
writer whose file has lost its name is on one, `UnlinkedInv`), and what was
readable when the load began is indexed, gone, or in a file that has its turn
yet (`BeginInv`). `IndexTheorem` and `LoadTheorem` follow; that the index can be
sorted at all is `OrderExists`. `LossTheorem` counts: the chunks that are cut
are at most the cuts, but for the line being written (`CutInv`), and an
injection takes every lost record to the cut chunk before it.

**ReplayNavigation.** `ReplayInv` describes the index, the search and the piles
of dialogs. `IndexInv`: an index is in order of capture, lies in the window, and
lacks nothing that can be read and is older than its last entry (`Faithful`);
so while every snapshot of an index can be read, a reload only appends to it
(`ReloadExtends`, from `GrownIndex`: two sorted indexes, one of which has all of
the other and nothing before its end, agree). That is what a search result rests
on, as it is a position in an index that may have been reloaded: `SearchInv`
says that as long as nothing was `lost`, the index in use extends the one the
goroutine searches, and each result points to the snapshot that matched. It
needs `PagesInv`: there are five piles of dialogs, and under none of those in
which results can be dismissed is a search under way, so that no results come
back after `ForgetResults`. `HeaderNamesRecord` is inductive with the
types. The theorems about steps rest on lemmas that say what each operator of
navigation returns (`FindPrevIs`, `FindNextIs`, `FindNearestIs`, `ClosestIs`,
`LoadIndexIs`): the four finders by their least or greatest candidate, the index
by `OrderExists`, that a finite set of refs can be put in order.
`StepsGoOneWay` and `JumpHitsTarget` are shown of the indices first and of
snapshots through `Sorted`.

**LiveUI.** `PagesInv` and `TidyInv` describe the piles of pages: whatever lies
on another page came from a goroutine, and as long as nothing was `buried` there
are five shapes, in each of which the page in front has the focus
(`KeysTheorem`). `PauseInv` adds to `PauseIsAccountedFor` that the kill dialog
takes no pause over the user's own. The actions are first brought to the few
things they do to pages and pause (`StepsOfPages`), and the invariant is shown
for those. `LateInv` says that what a loop had posted before a pause runs once,
which is what `PauseHoldsTheTable` allows the table. `LoadTheorem` carries the
theorem of `TrafficLevel` to the panel in the live view, whose readings are a
subset of those. `LiveTypes` puts all invariants together.

**TopConnections.** The invariant is `CursorInv`: `CursorOnDrawnRow` with the
types of the session, the view and the cursor. Here inductiveness is not the
difficulty, as every drawing puts the cursor anew (`DrawingPutsTheCursor`) and
the few handlers that move it without drawing only lower it (`CursorStays`);
the difficulty is what a drawing shows. `Keyed` are rows whose keys are of one
length and all different, and `InOrderIs` says of them that `InOrder` is a
bijection from places to rows that follows the order of the keys: by
`RankGrows` the number of keys below a key grows with it, so that each place up
to the number of rows is taken once. `StableSortIs` and `SortedGroups` bring
that to the rows and the groups. Hence the rows are as many as the connections
filtered, and as many of them have a given peer and port as `countPeerMatches`
counts (`RowsCount`), whichever sort is chosen; the two sets of filters agree
(`FiltersAgree`), so the groups share the connections out (`GroupsShareOut`);
and what the cap drops comes later in the descending order than what it keeps
(`CapKeepsTheLargest`). `PageAgain` says that the page brought back into range
stays where it is when the panel asks again, so that handler and panel find the
same row. `ViewsTheorem` holds of every view that can be, so its proof uses of
the invariant only that the view is one.

**TrafficLevel.** `TrafficSpec` is the panel by itself; in `LiveUI` its variable
changes by `RefreshInterfacePanel` of a subset of `Readings` only, or not at
all (`ListStepsRead`). The property compares two states that a reading joins; what it needs of
the first is `StateInv`: a streak counts the last readings of its level
(`Streaks`), nothing is shown during the warm-up (`Warm`), and how far the level
shown may lag behind (`Behind`). `ReadingKeepsInv` proves both at once, from
lemmas that say what a reading does to each field.

**Paging.** Two facts about every number of rows, rows per page and page asked
for: the page shown has a row if there is any and no row that does not exist
(what `CursorOnDrawnRow` rests on), and every row is on the page of its number.

**Bandwidth.** `BandwidthInv` is the properties with what makes them inductive.
Its centre is `FlowsFollowed` and `SocketsFollowed`: for every connection that a
tracker has in its last sample, the counter it remembers plus what `since` says
has moved is where the counter stands now, and for one that was replaced
meanwhile the counter is at most what has moved since. From this a difference,
clamped or not, is at most what moved, and exactly that if the connection was
in both samples and below the cap. `TypeRows` says of the rows of a capture
whose tuples they are, `CaptureInv` what the rows and the sample are at
each step of the capture, and `FlowsExact` is `LivingTrafficIsExact` for
conntrack alone, between the read of the flows and that of the sockets, where
the property itself says nothing. Figures are sums over the tuples that
`Matches` finds, and these are bounded through `SumsAndOrders`, which has the
sum of a function as the number of its units, so that sums over parts, over
unions and along injections follow from cardinalities. `RecordIs` says of any
table of rows what the groups of each side add up to, and that all rows of a group go with
it (`Together`, `MovedBy`); a group is dropped only if `TopLimit`
others come before it, by the lemma that the first of a finite order are as
many as asked for (`FirstOnes`).

The theorems take hosts as `WorldsAssumption` has them: no two connections share
a tuple, a socket of the answering end is not behind a translation, and the peer
of a connection is not on the host, unless it has its socket there. Without the
last, a connection to a port of the host that is redirected to another port
would have a row for its socket and one for its flow; the code
(`hostFacingTuple`) cannot tell, and `OneRowPerConnection` would not hold.

**Only model-checked.** Every invariant and every safety property of a step that
a run checks is proved. What is left to TLC is liveness, as the prover has no
rule for fairness: that a block is lifted, a sweep ends and clears the peer, a
requested refresh happens (`RequestedRefreshHappens`), the live tail follows
(`TailFollows`); and the violations. Two things are proved that no run checks: that
no goroutine lifts an undisturbed block early (`BlocksLastUntilExpiry`) and that
with netlink a converged sweep is clear (`NetlinkConvergedIsClear`). The prover
cannot use an induction theorem with an operator parameter nor look into a
recursive definition. Where an induction was needed and the property could be
said of a set (that a finite set can be put in order, `OrderExists`; that sets
have a first and a last member; that a sum is a number of units), it is done by
least counterexample in `Nat`, or by counting.

## 6. Plan

All modules of the plan stand but `ActionLog` (see section 7), and every safety
property has its theorem. What would come next is an abstract `TimedBlock` (a
peer is blocked or not, until a time) that `PeerBlocking` implements for
undisturbed peers: its safety is stated by `RulesMatchEntries` and
`NoEarlyUnblock`, so a refinement would say it in one place.

## 7. Not modelled

The action log is a bounded list of lines with a file of them; its one hazard,
two programs rewriting the file at once, is a loss that no document promises
against, so that a property could only restate it. Of the live view, the status
bar with its ticker and notes, the update check, the IP mask (which is only
drawn) and the refusals of invalid input are left out; of the pod lookup, the
scan itself. The rates and the moving average behind a load level are
arithmetic on floating point numbers; the level they give is an input. Masking,
colours and column layout of the list are not in `TopConnections`.

A few steps of modelled operations are merged or left out. `FinishRemove` is
`RemoveActiveBlock`, the new list and the redraw in one
(`ui_blocked_peers.go:94`, 106, 120), and `RemoveActive` the two removals of
`cmd/daemon.go:243` and 912; the same process reads nothing between them, but
another could. Errors of `NewSnapshotWriter` other than a lock that is taken
(`history/writer.go:28`) are left out. A socket read without
`ss` installed is an empty table without an error (`socket_exec.go:176`); a host
where it comes and goes is not modelled. The conntrack table is one read, though
the fallback by `conntrack -L` makes two dumps. The order of groups leaves out
their queues (`aggregate.go:91`), which are never compared by a property, and
`os.Remove` of a segment fails only because the file is gone (`prune.go:39`).
The daemon prunes by the time of its timer (`daemon.go:655`), the model by the
current time, which is later and so removes more. The torn lines of
`SnapshotStore` are what `docs/SNAPSHOT_FORMAT.md:10`, one complete JSON object
per line, does not tell of.

Parsing of tool output and netlink messages, reads of `/proc`, rendering,
flags and configuration files, the demo programs: conversions and I/O without
protocol. Reuse of a pid by the kernel (signal 0 would take a stranger for the daemon,
`cmd/daemon.go:953`), and a PID file read while it is being written, are left
out of `DaemonLifecycle`. The clock of `SnapshotStore` is never set back and
its days have one length, so the 23 and 25 hour days of `history/files.go:28`
are not met; `LoadIndexFromFile` and the periodic prune of the
writer, which the daemon switches off, are not in it. The filters, sort
orders, row selection, IP mask, help page and texts of the replay view change
what is drawn, not which record is; they are left out. `DropPeerConnections` and its
helpers are called from nowhere. The choice of a backend is a constant, as the
program makes it once at start-up.
