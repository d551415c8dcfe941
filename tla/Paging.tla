------------------------------- MODULE Paging -------------------------------
(* The arithmetic of pages (panels/top_connections.go): how many rows of    *)
(* the Top Connections list fit, and which rows a page holds.  Rows and     *)
(* pages count from 0, as in the code.                                      *)
EXTENDS Integers

BaseReservedLines == 7
PreviewLines == 5
MinRows == 5
MinRowsWithPreview == 3
MaxRows == 100

Least(i, j) == IF i < j THEN i ELSE j
Most(i, j) == IF i < j THEN j ELSE i

\* The rows that fit a panel of this height, and whether a preview does.
CalculateTopConnectionsDisplayLimit(height, notes, wantsPreview) ==
    LET free == height - BaseReservedLines - notes IN
    IF wantsPreview /\ free - PreviewLines >= MinRowsWithPreview
    THEN [rowLimit |-> Least(free - PreviewLines, MaxRows), showPreview |-> TRUE]
    ELSE [rowLimit |-> Least(Most(free, MinRows), MaxRows), showPreview |-> FALSE]

\* The page nearest to the one asked for, its rows start .. end - 1, and how
\* many pages there are.
TopConnectionsPageBounds(totalRows, rowsPerPage, pageIndex) ==
    LET per == Most(rowsPerPage, 1)
        totalPages == (totalRows + per - 1) \div per
        page == Least(Most(pageIndex, 0), totalPages - 1)
    IN  IF totalRows <= 0
        THEN [page |-> 0, start |-> 0, end |-> 0, totalPages |-> 0]
        ELSE [page |-> page, start |-> page * per,
              end |-> Least(page * per + per, totalRows), totalPages |-> totalPages]
=============================================================================
