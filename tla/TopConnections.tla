--------------------------- MODULE TopConnections ---------------------------
(***************************************************************************)
(* The Top Connections list of the live view (internal/tui/                *)
(* app_connections.go, panels/top_connections.go): one table of            *)
(* connections seen as rows or as groups, incoming or outgoing, filtered,  *)
(* sorted and cut into pages, with a cursor that is a page and a position  *)
(* in it.  Every handler of the list ends in Render, which moves the       *)
(* cursor back onto a row; what it draws is `drawn'.                       *)
(*                                                                         *)
(* The operators here say how the variables of the list change.  LiveUI    *)
(* has the keys and the refresh loops that use them.                       *)
(***************************************************************************)
EXTENDS Sequences, FiniteSets, SequencesExt, Paging, TrafficLevel

CONSTANTS
    Sessions,    \* the cases to check: the tables of connections that a refresh may
                 \* bring, the readings of the interface, and what LiveUI adds
    ListenPorts, \* what CollectListenPorts finds
    Ports,       \* what the user types as a port, 0 being none that exists
    Words,       \* what the user searches for
    NoFilter,
    GridHeight, ZoomHeight, \* the height of the panel in its two layouts
    TopConnectionsGroupCap

\* What the list shows and sorts of a connection.  Peers and processes are
\* numbered in the order of their names; words are those a search finds it by.
Connections ==
    [peer : Nat, proc : Nat, localPort : Nat, remotePort : Nat, bytes : Nat, queue : Nat,
     self : BOOLEAN, words : SUBSET Words]

ASSUME TopConnectionsAssumption ==
    /\ GridHeight \in Nat /\ ZoomHeight \in Nat /\ TopConnectionsGroupCap \in Nat
    /\ NoFilter \notin Ports /\ NoFilter \notin Words
    /\ \A s \in Sessions : s.loads \subseteq Readings /\ s.tables \subseteq Seq(Connections)

SortModes == {"bandwidth", "conns", "port"}
NoTarget == [port |-> 0, count |-> 0]
NoRow == [peer |-> 0]

VARIABLES
    session,       \* the case that is checked
    view,          \* what the panel is computed from, see Views
    selectedTalkerIndex, topPageIndex,
    drawn          \* the panel: rows or groups, the highlighted one, and the preview below

\* latestTalkers are the connections in the order in which they were collected;
\* with topBandwidthNote a line above the rows is taken by a note.
Views ==
    [latestTalkers : session.tables \cup {<<>>}, listenPortsKnown : BOOLEAN,
     topBandwidthNote : BOOLEAN, topDirection : {"IN", "OUT"},
     portFilter : Ports \cup {NoFilter}, textFilter : Words \cup {NoFilter},
     sortMode : SortModes, sortDesc : BOOLEAN, groupView : BOOLEAN, zoomed : BOOLEAN]

cursorVars == <<selectedTalkerIndex, topPageIndex, drawn>>
listVars == <<view, cursorVars, traffic>>

-----------------------------------------------------------------------------
(* Which connections: filtered lists, as sets of places in latestTalkers *)

\* topConnectionsSource: not the program's own, and those of one direction
\* once the listening ports are known.
Source(v) ==
    {i \in DOMAIN v.latestTalkers :
        LET c == v.latestTalkers[i]
        IN  ~c.self /\ (v.listenPortsKnown => (c.localPort \in ListenPorts <=> v.topDirection = "IN"))}

DirectionPort(c, v) == IF v.topDirection = "OUT" THEN c.remotePort ELSE c.localPort

\* FilterByPortDirection: a port out of range filters nothing.
FilterByPort(places, v) ==
    IF v.portFilter \in {NoFilter, 0} THEN places
    ELSE {i \in places : DirectionPort(v.latestTalkers[i], v) = v.portFilter}

FilterByText(places, v) ==
    IF v.textFilter = NoFilter THEN places
    ELSE {i \in places : v.textFilter \in v.latestTalkers[i].words}

\* applyTopConnectionFilters, on the way to rows
Filtered(v) == FilterByText(FilterByPort(Source(v), v), v)

\* Mutant: the group view filters by the local port in both directions.
GroupFilteredLocal(v) ==
    FilterByText(IF v.portFilter \in {NoFilter, 0} THEN Source(v)
                 ELSE {i \in Source(v) : v.latestTalkers[i].localPort = v.portFilter}, v)

\* ApplyGroupConnectionFiltersByDirection, on the way to groups
GroupFiltered(v) ==
    LET Matches(c) == \/ v.portFilter \in {NoFilter, 0}
                      \/ v.topDirection = "OUT" /\ c.remotePort = v.portFilter
                      \/ v.topDirection = "IN" /\ c.localPort = v.portFilter
    IN  FilterByText({i \in Source(v) : Matches(v.latestTalkers[i])}, v)

-----------------------------------------------------------------------------
(* The order of rows *)

\* Tuples by their first difference.
Before(a, b) ==
    \E i \in DOMAIN a : a[i] < b[i] /\ \A j \in 1 .. i - 1 : a[j] = b[j]

\* What a set of [key, row] has as rows, by their keys: at place k the one with
\* k - 1 others before it.
InOrder(keyed) ==
    LET placed == {[place |-> Cardinality({y \in keyed : Before(y.key, x.key)}) + 1, row |-> x.row] : x \in keyed}
    IN  [k \in 1 .. Cardinality(keyed) |-> (CHOOSE p \in placed : p.place = k).row]

Directed(n, desc) == IF desc THEN -n ELSE n

\* The comparisons of SortConnectionsWithDirection, as a key for each mode.
\* Rates order as the bytes they come from.  The sort is stable: equal ones stay
\* in their places.  The keys are of one length, which a 0 fills up.
SortKey(i, places, v) ==
    LET D(n) == Directed(n, v.sortDesc)
        c == v.latestTalkers[i]
        ofPeer == Cardinality({j \in places : v.latestTalkers[j].peer = c.peer})
    IN  CASE v.sortMode = "bandwidth" -> <<D(c.bytes), D(c.queue), D(DirectionPort(c, v)), c.peer, i>>
          [] v.sortMode = "conns" -> <<D(ofPeer), D(c.bytes), D(DirectionPort(c, v)), c.peer, i>>
          [] v.sortMode = "port" -> <<D(DirectionPort(c, v)), D(c.bytes), c.peer, 0, i>>

StableSort(places, v) ==
    InOrder({[key |-> SortKey(i, places, v), row |-> v.latestTalkers[i]] : i \in places})

\* filteredTopConnections
ConnectionRows(v) == StableSort(Filtered(v), v)

-----------------------------------------------------------------------------
(* Groups: the connections of a peer and a process *)

PeerGroup(peer, proc, v) ==
    LET members == {i \in GroupFiltered(v) : /\ v.latestTalkers[i].peer = peer
                                             /\ v.latestTalkers[i].proc = proc}
    IN  [peer |-> peer, proc |-> proc, members |-> members,
         bytes |-> SumFunction([i \in members |-> v.latestTalkers[i].bytes]),
         queue |-> SumFunction([i \in members |-> v.latestTalkers[i].queue])]

\* BuildPeerGroups, unsorted
PeerGroups(v) ==
    {PeerGroup(v.latestTalkers[i].peer, v.latestTalkers[i].proc, v) : i \in GroupFiltered(v)}

Count(g) == Cardinality(g.members)

\* sortPeerGroups
GroupKey(g, desc) == <<Directed(Count(g), desc), -g.bytes, -g.queue, g.peer, g.proc>>
SortPeerGroups(groups, desc) == InOrder({[key |-> GroupKey(g, desc), row |-> g] : g \in groups})

\* Mutant: the cap cuts the list as it is displayed.
LimitPeerGroupsShown(groups, v) ==
    LET sorted == SortPeerGroups(groups, v.sortDesc)
    IN  SubSeq(sorted, 1, Least(Len(sorted), TopConnectionsGroupCap))

\* LimitPeerGroups: the groups with the most connections, in the order of the view.
LimitPeerGroups(groups, v) ==
    LET ranked == SortPeerGroups(groups, TRUE)
        kept == {ranked[k] : k \in 1 .. Least(Len(ranked), TopConnectionsGroupCap)}
    IN  SortPeerGroups(IF TopConnectionsGroupCap = 0 THEN groups ELSE kept, v.sortDesc)

\* filteredPeerGroups
GroupRows(v) == LimitPeerGroups(PeerGroups(v), v)

Rows(v) == IF v.groupView THEN GroupRows(v) ELSE ConnectionRows(v)

-----------------------------------------------------------------------------
(* The preview of the selected row *)

\* The places of those to a peer and a port.
At(places, peer, port, v) ==
    {i \in places : v.latestTalkers[i].peer = peer /\ v.latestTalkers[i].localPort = port}

\* countPeerMatches
CountPeerMatches(peer, port, v) == Cardinality(At(Filtered(v), peer, port, v))

\* byPort: the ports of a peer
PortsOf(places, peer, v) ==
    {v.latestTalkers[i].localPort : i \in {j \in places : v.latestTalkers[j].peer = peer}}

\* Mutant: the ports of the group are counted without the filters.
SelectedPeerPortTargetUnfiltered(peer, v) ==
    LET Number(port) == Cardinality(At(Source(v), peer, port, v))
        ports == PortsOf(Source(v), peer, v)
        busiest == {p \in ports : \A q \in ports : Number(q) <= Number(p)}
    IN  IF v.topDirection = "OUT" \/ ports = {} THEN NoTarget
        ELSE [port |-> Min(busiest), count |-> Number(Min(busiest))]

\* selectedPeerPortTarget: the port of the peer with the most connections, then
\* the longest queues, then the least number.
SelectedPeerPortTarget(peer, v) ==
    LET Of(port) == At(GroupFiltered(v), peer, port, v)
        Queue(port) == SumFunction([i \in Of(port) |-> v.latestTalkers[i].queue])
        Key(port) == <<-Cardinality(Of(port)), -Queue(port), port>>
        ports == PortsOf(GroupFiltered(v), peer, v)
        best == CHOOSE p \in ports : \A q \in ports \ {p} : Before(Key(p), Key(q))
    IN  IF v.topDirection = "OUT" \/ ports = {} THEN NoTarget
        ELSE [port |-> best, count |-> Cardinality(Of(best))]

\* buildSelectedConnectionPreview, buildSelectedPeerGroupPreview: the row in
\* detail, and what its action would hit.  There is no action on outgoing ones.
Preview(row, v) ==
    [row |-> row,
     target |-> IF v.groupView THEN SelectedPeerPortTarget(row.peer, v)
                ELSE IF v.topDirection = "OUT" THEN NoTarget
                ELSE [port |-> row.localPort, count |-> CountPeerMatches(row.peer, row.localPort, v)]]

NoPreview == [row |-> NoRow, target |-> NoTarget]

-----------------------------------------------------------------------------
(* The cursor *)

\* topConnectionsPanelLayout, with that many rows
Layout(count, v) ==
    CalculateTopConnectionsDisplayLimit(IF v.zoomed THEN ZoomHeight ELSE GridHeight,
                                        IF v.topBandwidthNote THEN 1 ELSE 0, count > 0)

Bounds(count, page, v) == TopConnectionsPageBounds(count, Layout(count, v).rowLimit, page)

\* Mutant: the selection is kept within the rows of a full page.
ClampFullPage(sel, count) == Least(sel, MinRows)

\* Mutant: an empty page is not thought of.
ClampNonempty(sel, count) == Least(sel, count - 1)

Clamp(sel, count) == IF count = 0 THEN 0 ELSE Least(sel, count - 1)

NoDrawing == [rows |-> <<>>, sel |-> 0, preview |-> NoPreview]

\* Mutant: the panel takes its rows for incoming ones.
TalkersPanelRowsIncoming(v) ==
    LET in == [v EXCEPT !.topDirection = "IN"]
    IN  StableSort(FilterByText(FilterByPort(Source(v), in), in), in)

\* RenderTalkersPanel and RenderPeerGroupPanel are given the source; they filter,
\* group, sort and cut it by themselves.
TalkersPanelRows(v) == StableSort(FilterByText(FilterByPort(Source(v), v), v), v)
PeerGroupPanelRows(v) == LimitPeerGroups(PeerGroups(v), v)
PanelRows(v) == IF v.groupView THEN PeerGroupPanelRows(v) ELSE TalkersPanelRows(v)

\* The rows of the page, and the one with the mark.
Panel(v, rowLimit, page, sel, preview) ==
    LET rows == PanelRows(v)
        b == TopConnectionsPageBounds(Len(rows), rowLimit, page)
    IN  [rows |-> SubSeq(rows, b.start + 1, b.end), sel |-> Clamp(sel, b.end - b.start),
         preview |-> preview]

\* renderTopConnectionsPanel of a view: from the page and the position asked
\* for to those that exist.
RenderTopConnectionsPanel(next, page, sel) ==
    \E v \in {next} : \E rows \in {Rows(v)} :
        LET layout == Layout(Len(rows), v)
            b == Bounds(Len(rows), page, v)
            at == Clamp(sel, b.end - b.start)
        IN  /\ view' = v
            /\ topPageIndex' = b.page
            /\ selectedTalkerIndex' = at
            /\ drawn' = Panel(v, layout.rowLimit, b.page, at,
                              IF rows = <<>> \/ ~layout.showPreview THEN NoPreview
                              ELSE Preview(rows[b.start + at + 1], v))

\* A handler that draws the list and reads nothing anew.
Render(next, page, sel) == RenderTopConnectionsPanel(next, page, sel) /\ UNCHANGED traffic

\* resetTopConnectionsCursor and renderTopConnectionsPanel
RenderFromTop(v) == Render(v, 0, 0)

ListInit ==
    /\ session \in Sessions /\ TrafficInit
    /\ view = [latestTalkers |-> <<>>, listenPortsKnown |-> FALSE, topBandwidthNote |-> FALSE,
               topDirection |-> "IN", portFilter |-> NoFilter, textFilter |-> NoFilter,
               sortMode |-> "bandwidth", sortDesc |-> TRUE, groupView |-> FALSE, zoomed |-> FALSE]
    /\ selectedTalkerIndex = 0 /\ topPageIndex = 0 /\ drawn = NoDrawing

-----------------------------------------------------------------------------
(* Handlers of the list *)

\* refreshData: the listening ports until they are known, a reading of the
\* interface, then the connections, which an error takes away.  The handler may
\* have asked for another view or place of the cursor before.
RefreshList(v, page, sel) ==
  /\ RefreshInterfacePanel(session.loads)
  /\ \E known \in {v.listenPortsKnown, TRUE} :
        \/ /\ view' = [v EXCEPT !.listenPortsKnown = known, !.latestTalkers = <<>>,
                                !.topBandwidthNote = FALSE]
           /\ selectedTalkerIndex' = 0 /\ topPageIndex' = 0 /\ drawn' = NoDrawing
        \/ \E talkers \in session.tables, note \in BOOLEAN :
             RenderTopConnectionsPanel(
                 [v EXCEPT !.listenPortsKnown = known, !.latestTalkers = talkers,
                           !.topBandwidthNote = note], page, sel)

\* visibleTopConnectionCount, which also moves the page to one that exists
VisibleBounds == Bounds(Len(Rows(view)), topPageIndex, view)

\* Mutant: the position is moved and not brought back onto the page.
MoveTopConnectionSelectionFreely(delta) ==
    /\ UNCHANGED <<view, drawn, traffic>>
    /\ topPageIndex' = VisibleBounds.page
    /\ selectedTalkerIndex' = Most(selectedTalkerIndex + delta, 0)

\* moveTopConnectionSelection
MoveTopConnectionSelection(delta) ==
    LET b == VisibleBounds
        count == b.end - b.start
        from == Clamp(selectedTalkerIndex, count)
        next == Least(Most(from + delta, 0), count - 1)
    IN  IF count = 0 \/ next = from
        THEN /\ topPageIndex' = b.page
             /\ selectedTalkerIndex' = IF count = 0 THEN selectedTalkerIndex ELSE from
             /\ UNCHANGED <<view, drawn, traffic>>
        ELSE Render(view, b.page, next)

\* moveTopConnectionPage
MoveTopConnectionPage(delta) ==
    LET b == VisibleBounds
        next == Least(Most(b.page + delta, 0), b.totalPages - 1)
    IN  IF b.totalPages <= 1
        THEN topPageIndex' = b.page /\ UNCHANGED <<view, selectedTalkerIndex, drawn, traffic>>
        ELSE IF next = b.page THEN UNCHANGED listVars ELSE Render(view, next, 0)

ToggleGroupView == RenderFromTop([view EXCEPT !.groupView = ~@])

\* applyTopConnectionSortInput: the mode again turns the order round.
ApplySortInput(mode) ==
    RenderFromTop([view EXCEPT !.sortMode = mode,
                               !.sortDesc = IF view.sortMode = mode THEN ~@ ELSE TRUE])

ToggleTopConnectionsDirection ==
    RenderFromTop([view EXCEPT !.topDirection = IF @ = "IN" THEN "OUT" ELSE "IN"])

\* promptPortFilter while a filter is set clears both.
ClearFilters ==
    RefreshList([view EXCEPT !.portFilter = NoFilter, !.textFilter = NoFilter], 0, 0)

\* Enter in the port prompt; Esc leaves the filter and the cursor.
SetPortFilter(port) == RefreshList([view EXCEPT !.portFilter = port], 0, 0)

\* Enter in the search prompt; an empty word clears both filters.
SetTextFilter(word) ==
    RefreshList([view EXCEPT !.textFilter = word,
                             !.portFilter = IF word = NoFilter THEN NoFilter ELSE @], 0, 0)

RefreshData == RefreshList(view, topPageIndex, selectedTalkerIndex)

\* toggleZoom and exitZoom change the height; the text is drawn anew later.
ToggleZoom == view' = [view EXCEPT !.zoomed = ~@] /\ UNCHANGED <<cursorVars, traffic>>

-----------------------------------------------------------------------------
(* Properties *)

ListTypeOK ==
    /\ view \in Views /\ selectedTalkerIndex \in Nat /\ topPageIndex \in Nat
    /\ traffic \in TrafficStates

\* The handler and the panel find the selected row each for itself: the preview
\* describes the row with the mark, and counts as matches of its target the
\* connections behind the view with this peer and port.
PreviewOfMark ==
    drawn.preview # NoPreview =>
        LET row == drawn.preview.row
            target == drawn.preview.target
            rows == ConnectionRows(view)
        IN  /\ drawn.rows[drawn.sel + 1] = row
            /\ target # NoTarget =>
                 target.count = Cardinality({k \in DOMAIN rows : /\ rows[k].peer = row.peer
                                                                 /\ rows[k].localPort = target.port})

\* The highlighted row exists: the cursor is on one of the rows drawn, or at 0
\* when there is none, whatever the data, the filters and the height of the
\* panel have become since it was moved (renderTopConnectionsPanel, and the
\* handlers that move the cursor and draw nothing).  And the preview below is of
\* that row.
CursorOnDrawnRow ==
    /\ selectedTalkerIndex <= Most(Len(drawn.rows) - 1, 0)
    /\ drawn.sel <= Most(Len(drawn.rows) - 1, 0)
    /\ PreviewOfMark

\* The two views filter by code of their own, and show the same connections:
\* each of them is a member of exactly one group.  And the cap of the group view
\* drops none with more connections than one it keeps, also when the view is
\* sorted upwards.
ViewsAgree ==
    LET groups == PeerGroups(view)
        kept == ToSet(GroupRows(view))
    IN  /\ UNION {g.members : g \in groups} = Filtered(view)
        /\ Len(ConnectionRows(view)) = Cardinality(Filtered(view))
        /\ \A g, h \in groups : g # h => g.members \cap h.members = {}
        /\ \A g \in kept, h \in groups \ kept : Count(h) <= Count(g)

=============================================================================
