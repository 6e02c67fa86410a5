----------------------------- MODULE DataTable -----------------------------
(***************************************************************************)
(* The table (frontend hooks/use-data-table-instance.ts,                   *)
(* components/data-table) with the columns of the CRM page or of the       *)
(* sections: sorting, paging, selecting, hiding columns and, where its     *)
(* parent allows it, dragging a row.  TanStack Table and dnd-kit are       *)
(* external; they are modelled by what they do to the state the hook keeps.*)
(***************************************************************************)
EXTENDS Integers, Sequences, FiniteSets

CONSTANTS RowIds,     \* the rows' ids
          NameOf,     \* row -> the value of the column that can be sorted, a number
          PageSizes,  \* what "Rows per page" offers
          DndEnabled  \* DataTable's property; a parent that sets it keeps the data

ASSUME TableAssumption ==
    /\ IsFiniteSet(RowIds) /\ NameOf \in [RowIds -> Int]
    /\ PageSizes \subseteq Nat \ {0} /\ PageSizes # {} /\ DndEnabled \in BOOLEAN

SeqExt == INSTANCE SequencesExt

VARIABLES
    table,            \* whose columns it has: "leads" or "sections"
    data,             \* the rows in their parent's order
    sorting,          \* "none", "asc" or "desc", by name
    pageIndex, pageSize,
    rowSelection,     \* ids
    hidden            \* columns made invisible

tableVars == <<table, data, sorting, pageIndex, pageSize, rowSelection, hidden>>

-----------------------------------------------------------------------------
(* The columns.  "select", "actions" and "drag" have no accessor.          *)

Column(accessor, sort, hide) ==
    [accessor |-> accessor, enableSorting |-> sort, enableHiding |-> hide]

\* recentLeadsColumns
LeadColumns ==
    [select |-> Column(FALSE, FALSE, FALSE), id |-> Column(TRUE, FALSE, FALSE),
     name |-> Column(TRUE, TRUE, FALSE), company |-> Column(TRUE, FALSE, TRUE),
     status |-> Column(TRUE, FALSE, TRUE), source |-> Column(TRUE, FALSE, TRUE),
     lastActivity |-> Column(TRUE, FALSE, TRUE), actions |-> Column(FALSE, FALSE, TRUE)]

\* dashboardColumns
SectionColumns ==
    [c \in {"select", "header", "type", "status", "target", "limit", "reviewer", "actions"} |->
        Column(c \notin {"select", "actions"}, FALSE, c # "select")]

\* withDndColumn: rows are dragged by the handle in a column of its own.
DragColumn == Column(FALSE, FALSE, FALSE)
Columns ==
    LET own == IF table = "leads" THEN LeadColumns ELSE SectionColumns
    IN  [c \in DOMAIN own \cup (IF DndEnabled THEN {"drag"} ELSE {}) |->
            IF c = "drag" THEN DragColumn ELSE own[c]]

CanSort(c) == Columns[c].accessor /\ Columns[c].enableSorting

\* Mutant: every column that can be sorted can be hidden.
HeaderMenuWithHide(c) == IF ~CanSort(c) THEN {} ELSE {"Asc", "Desc", "Hide"}

\* DataTableColumnHeader: a column that cannot be sorted is a title without a
\* menu; in the menu one that can be hidden has "Hide".
HeaderMenu(c) ==
    IF ~CanSort(c) THEN {}
    ELSE {"Asc", "Desc"} \cup IF Columns[c].enableHiding THEN {"Hide"} ELSE {}

\* The columns DataTableViewOptions lists, hidden or not.
ViewOptions == {c \in DOMAIN Columns : Columns[c].accessor /\ Columns[c].enableHiding}

-----------------------------------------------------------------------------
(* The rows that are shown.                                                *)

\* Does the row at place j of the data come before the one at place k?
Before(j, k) ==
    LET name(i) == NameOf[data[i]] IN
    \/ sorting = "asc" /\ name(j) < name(k)
    \/ sorting = "desc" /\ name(j) > name(k)
    \/ (sorting = "none" \/ name(j) = name(k)) /\ j < k

\* getSortedRowModel is stable: the i-th row is the one with i - 1 rows before it.
Sorted ==
    [i \in DOMAIN data |->
        data[CHOOSE k \in DOMAIN data : Cardinality({j \in DOMAIN data : Before(j, k)}) = i - 1]]

\* getPaginationRowModel
PageCount == (Len(data) + pageSize - 1) \div pageSize
Page == LET last == IF (pageIndex + 1) * pageSize < Len(data) THEN (pageIndex + 1) * pageSize
                                                             ELSE Len(data)
        IN  SubSeq(Sorted, pageIndex * pageSize + 1, last)
Rows(list) == {list[i] : i \in DOMAIN list}
OnPage     == Rows(Page)

\* The body of DataTable and the footer of DataTablePagination.
Body   == IF Page = <<>> THEN "No results." ELSE "rows"
Footer == [selected |-> Cardinality(rowSelection \cap RowIds), of |-> Len(data),
           page |-> pageIndex + 1, pages |-> PageCount]

\* The checkbox "Select all": getIsAllPageRowsSelected.
AllAreSelected == Page # <<>> /\ OnPage \subseteq rowSelection

CanPreviousPage == pageIndex > 0
CanNextPage     == pageIndex < PageCount - 1

-----------------------------------------------------------------------------
\* useDataTableInstance: the first of the page sizes, nothing sorted, selected or hidden.
TableInit ==
    /\ table \in {"leads", "sections"}
    /\ data = SeqExt!SetToSeq(RowIds)
    /\ sorting = "none" /\ pageIndex = 0 /\ rowSelection = {} /\ hidden = {}
    /\ pageSize = CHOOSE n \in PageSizes : \A m \in PageSizes : n <= m

\* "Asc" and "Desc".  The rows are sorted again, which resets the page index.
ToggleSorting(c, direction) ==
    /\ HeaderMenu(c) # {} /\ c \notin hidden
    /\ sorting' = direction
    /\ pageIndex' = 0
    /\ UNCHANGED <<table, data, pageSize, rowSelection, hidden>>

\* "Hide" in the header, or a checkbox of the view options.
ToggleVisibility(c) ==
    /\ c \in ViewOptions \/ ("Hide" \in HeaderMenu(c) /\ c \notin hidden)
    /\ hidden' = IF c \in hidden THEN hidden \ {c} ELSE hidden \cup {c}
    /\ UNCHANGED <<table, data, sorting, pageIndex, pageSize, rowSelection>>

\* setPageSize keeps the row at the top of the page on the page.
SetPageSize(n) ==
    /\ n # pageSize /\ pageSize' = n
    /\ pageIndex' = (pageSize * pageIndex) \div n
    /\ UNCHANGED <<table, data, sorting, rowSelection, hidden>>

SetPageIndex(i) ==
    /\ pageIndex' = IF i < 0 THEN 0 ELSE i
    /\ UNCHANGED <<table, data, sorting, pageSize, rowSelection, hidden>>

FirstPage    == CanPreviousPage /\ SetPageIndex(0)
PreviousPage == CanPreviousPage /\ SetPageIndex(pageIndex - 1)
NextPage     == CanNextPage /\ SetPageIndex(pageIndex + 1)
\* Mutant: the last page is taken to be the one with the number of pages.
LastPageByCount == CanNextPage /\ SetPageIndex(PageCount)

LastPage     == CanNextPage /\ SetPageIndex(PageCount - 1)

ToggleSelected(r) ==
    /\ r \in OnPage
    /\ rowSelection' = IF r \in rowSelection THEN rowSelection \ {r} ELSE rowSelection \cup {r}
    /\ UNCHANGED <<table, data, sorting, pageIndex, pageSize, hidden>>

ToggleAllPageRowsSelected ==
    /\ rowSelection' = IF AllAreSelected THEN rowSelection \ OnPage ELSE rowSelection \cup OnPage
    /\ UNCHANGED <<table, data, sorting, pageIndex, pageSize, hidden>>

\* Mutant: the row is copied over the one it is dropped on.
ArrayCopy(list, from, to) == [list EXCEPT ![to] = list[from]]

\* Mutant: the two rows change places.
ArraySwap(list, from, to) == [list EXCEPT ![to] = list[from], ![from] = list[to]]

\* arrayMove of dnd-kit
ArrayMove(list, from, to) ==
    LET rest == SubSeq(list, 1, from - 1) \o SubSeq(list, from + 1, Len(list))
    IN  SubSeq(rest, 1, to - 1) \o <<list[from]>> \o SubSeq(rest, to, Len(rest))

\* handleDragEnd: the places of both rows on the page are taken for places in
\* the data.  New data reset the page index too.  The places are looked up by
\* Number(row.id): the sections' ids are numbers, those of the leads ("L-1012")
\* are not, none is found, and arrayMove(data, -1, -1) keeps the order.
DragEnd(active, over) ==
    LET page     == Page
        place(r) == CHOOSE i \in DOMAIN page : page[i] = r IN
    /\ "drag" \in DOMAIN Columns \ hidden /\ active # over /\ {active, over} \subseteq OnPage
    /\ data' = IF table = "sections" THEN ArrayMove(data, place(active), place(over)) ELSE data
    /\ pageIndex' = 0
    /\ UNCHANGED <<table, sorting, pageSize, rowSelection, hidden>>

TableNext ==
    \/ \E c \in DOMAIN Columns :
          \/ \E direction \in {"asc", "desc"} : ToggleSorting(c, direction)
          \/ ToggleVisibility(c)
    \/ \E n \in PageSizes : SetPageSize(n)
    \/ FirstPage
    \/ PreviousPage
    \/ NextPage
    \/ LastPage
    \/ \E r \in RowIds : ToggleSelected(r)
    \/ ToggleAllPageRowsSelected
    \/ \E active, over \in RowIds : DragEnd(active, over)

TableSpec == TableInit /\ [][TableNext]_tableVars

-----------------------------------------------------------------------------
(* Properties.                                                             *)

TableTypeOK ==
    /\ table \in {"leads", "sections"}
    /\ Rows(data) = RowIds /\ Len(data) = Cardinality(RowIds)
    /\ sorting \in {"none", "asc", "desc"}
    /\ pageIndex \in Nat /\ pageSize \in PageSizes
    /\ rowSelection \subseteq RowIds /\ hidden \subseteq DOMAIN Columns

\* "No results." is said of an empty table only: no sequence of paging, resizing,
\* sorting and dragging ends on a page behind the last one.
PageHasRows == RowIds # {} => Body = "rows" /\ Footer.page <= Footer.pages

\* A column that was hidden can be shown again, although it is hidden in one
\* menu and shown in another; the rows keep their box and their handle, and
\* those of the leads their name.
HiddenCanBeShown == hidden \subseteq ViewOptions \ {"select", "drag", "name"}

\* What holds of the table in every state: its types, a page with rows, and a way
\* back for every hidden column.
TableInv == TableTypeOK /\ PageHasRows /\ HiddenCanBeShown

\* Dragging moves one row and nothing else, however the table is sorted, resized
\* and paged: it is one of the first rows of the data, as many as a page has, the
\* others keep their order, and those behind them their places.  On the first page
\* of an unsorted table these rows are the ones shown.  Elsewhere they are not: the
\* row that moves is then not the one dragged.
DragMovesTheRow == [][
    data' # data =>
        \E r \in {data[i] : i \in {j \in DOMAIN data : j <= pageSize}} :
            /\ \A i, j, k, l \in DOMAIN data :
                  (/\ r \notin {data[i], data[j]} /\ i < j
                   /\ data'[k] = data[i] /\ data'[l] = data[j]) => k < l
            /\ \A i \in DOMAIN data : i > pageSize => data'[i] = data[i] ]_tableVars
=============================================================================
