--------------------------- MODULE SearchBackfill ---------------------------
(***************************************************************************)
(* cmd/backfill_search: a process of its own that pages through            *)
(* PostgreSQL's events and sends every page to Elasticsearch, while        *)
(* aggregator workers insert further rows and indexers add documents.      *)
(* A page is sorted by timestamp, which a client may set, but the next one *)
(* starts behind the page's last id (gorm's FindInBatches).                *)
(***************************************************************************)
EXTENDS Integers, FiniteSets

CONSTANTS
    Rows,        \* event ids, the primary keys
    Times,         \* timestamps
    PageSize,      \* FindInBatches' batch size, 200
    Unencodable,   \* events json.Marshal rejects
    BackfillFaults \* "postgres": a page cannot be read; "elastic": a bulk request fails

ASSUME RowsAssumption   == Rows \subseteq Nat \ {0} /\ IsFiniteSet(Rows) /\ Times \subseteq Nat
ASSUME PagesAssumption  == PageSize \in Nat \ {0} /\ Unencodable \subseteq Rows
ASSUME BackfillFaultsAssumption == BackfillFaults \subseteq {"postgres", "elastic"}

VARIABLES
    time,    \* event -> its timestamp
    pg,      \* PostgreSQL's events
    docs,    \* events that have a document in the index
    bpc,     \* the backfill's next call
    after,   \* the last id of the page before, 0 at the first page
    page,    \* the page in hand
    present  \* history: the rows that were there when the backfill started

backfillVars == <<time, pg, docs, bpc, after, page, present>>

-----------------------------------------------------------------------------

\* ORDER BY timestamp asc, id.
Before(e, f) == time[e] < time[f] \/ (time[e] = time[f] /\ e < f)

\* The first PageSize of the rows S, and the last row of a page.
FirstRows(S) == {e \in S : Cardinality({f \in S : Before(f, e)}) < PageSize}
LastRow(S)   == CHOOSE e \in S : \A f \in S \ {e} : Before(f, e)

BackfillInit ==
    /\ time \in [Rows -> Times]
    /\ pg \in SUBSET Rows
    /\ docs = {}
    /\ bpc = "off" /\ after = 0 /\ page = {} /\ present = {}

\* An aggregator worker commits a row, in no order of ids or timestamps.
InsertRow(e) ==
    /\ e \notin pg
    /\ pg' = pg \cup {e}
    /\ UNCHANGED <<time, docs, bpc, after, page, present>>

\* An indexer worker indexes a row's event.
IndexRow(e) ==
    /\ e \in pg \ docs
    /\ docs' = docs \cup {e}
    /\ UNCHANGED <<time, pg, bpc, after, page, present>>

\* The operator starts the command, again after it ended or failed.
StartBackfill ==
    /\ bpc \in {"off", "done", "failed"}
    /\ bpc' = "read" /\ after' = 0 /\ page' = {}
    /\ present' = pg
    /\ UNCHANGED <<time, pg, docs>>

\* Mutant: no condition on the id, every page is the first one.
ReadFirstPage ==
    /\ bpc = "read"
    /\ page' = FirstRows(pg)
    /\ bpc' = IF page' = {} THEN "done" ELSE "bulk"
    /\ UNCHANGED <<time, pg, docs, after, present>>

\* One page; an empty one ends the backfill without a callback.
ReadPage ==
    /\ bpc = "read"
    /\ page' = FirstRows({e \in pg : e > after})
    /\ bpc' = IF page' = {} THEN "done" ELSE "bulk"
    /\ UNCHANGED <<time, pg, docs, after, present>>

FailRead ==
    /\ bpc = "read" /\ "postgres" \in BackfillFaults
    /\ bpc' = "failed"
    /\ UNCHANGED <<time, pg, docs, after, page, present>>

\* Mutant: the next page starts one id too far.
CursorTooFar ==
    /\ bpc = "bulk" /\ page \cap Unencodable = {}
    /\ docs' = docs \cup page
    /\ bpc' = IF Cardinality(page) < PageSize THEN "done" ELSE "read"
    /\ after' = LastRow(page) + 1
    /\ UNCHANGED <<time, pg, page, present>>

\* The callback succeeded: a page that is not full was the last one.
BulkPage ==
    /\ bpc = "bulk" /\ page \cap Unencodable = {}
    /\ docs' = docs \cup page
    /\ bpc' = IF Cardinality(page) < PageSize THEN "done" ELSE "read"
    /\ after' = LastRow(page)
    /\ UNCHANGED <<time, pg, page, present>>

\* Mutant: the callback's error does not end the loop.
BulkErrorIgnored ==
    /\ bpc = "bulk"
    /\ "elastic" \in BackfillFaults \/ page \cap Unencodable # {}
    /\ bpc' = IF Cardinality(page) < PageSize THEN "done" ELSE "read"
    /\ after' = LastRow(page)
    /\ UNCHANGED <<time, pg, docs, page, present>>

\* The request failed, having indexed any part of the page, or the page holds
\* an event that cannot be encoded and nothing was sent.  The command ends.
FailBulk ==
    /\ bpc = "bulk"
    /\ \/ /\ "elastic" \in BackfillFaults /\ page \cap Unencodable = {}
          /\ \E S \in SUBSET page : docs' = docs \cup S
       \/ page \cap Unencodable # {} /\ UNCHANGED docs
    /\ bpc' = "failed"
    /\ UNCHANGED <<time, pg, after, page, present>>

-----------------------------------------------------------------------------

Backfill == ReadPage \/ FailRead \/ BulkPage \/ FailBulk

BackfillNext ==
    \/ \E e \in Rows : InsertRow(e) \/ IndexRow(e)
    \/ StartBackfill
    \/ Backfill

BackfillSpec == BackfillInit /\ [][BackfillNext]_backfillVars

\* The command runs once it is started.
FairBackfillSpec == BackfillSpec /\ WF_backfillVars(Backfill)

-----------------------------------------------------------------------------
(* Properties.                                                             *)

\* The variables have their types; the page in hand is of PostgreSQL's rows.
BackfillTypeOK ==
    /\ time \in [Rows -> Times]
    /\ pg \in SUBSET Rows /\ docs \in SUBSET Rows /\ present \in SUBSET pg
    /\ bpc \in {"off", "read", "bulk", "done", "failed"}
    /\ after \in Rows \cup {0}
    /\ page \in SUBSET pg

\* A backfill that ends without error misses a row only if a row with a larger
\* id sorts before it by timestamp: with timestamps in the order of the ids it
\* misses none, whatever is inserted while it runs.
MissesOnlyOutOfOrder ==
    bpc = "done" =>
        \A e \in present \ docs : \E f \in docs : f > e /\ Before(f, e)

\* What holds of the backfill in every state: its types, and what it may miss.
BackfillInv == BackfillTypeOK /\ MissesOnlyOutOfOrder

\* Liveness: a backfill ends, although rows are inserted while it runs.
BackfillEnds == bpc \in {"read", "bulk"} ~> bpc \in {"done", "failed"}

\* cmd/backfill_search/main.go:25 logs "Search backfill completed
\* successfully": every row that was there at the start is indexed then.
BackfillIsComplete == bpc = "done" => present \subseteq docs
=============================================================================
