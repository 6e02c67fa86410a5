----------------------------- MODULE MCReaders -----------------------------
(***************************************************************************)
(* Instances of the parts beside the write path that share no state: the   *)
(* map-reduce handler, the recent feed command by command and the search   *)
(* backfill.  Every behaviour runs one of them and leaves the others in    *)
(* one initial state.                                                      *)
(***************************************************************************)
EXTENDS MapReduce, RecentFeed, SearchBackfill

CONSTANTS p1, p2

VARIABLE part  \* the part this behaviour runs

readerVars == <<part, vars, feedVars, backfillVars>>

MCActions    == {"click", "view"}
MCDurations  == {0, 1}
TwoPushers   == {p1, p2}
MCEvents     == 1 .. 4
MCRows       == 1 .. 4
MCTimes      == 1 .. 2
EventThree   == {3}
FeedFailures == {"broken", "flush"}
RunFailures  == {"postgres", "elastic"}

ReadersInit ==
    /\ part \in {"mapreduce", "feed", "backfill"}
    /\ Init /\ FeedInit /\ BackfillInit
    /\ part # "mapreduce" => events = <<>>
    /\ part # "backfill" => pg = {} /\ \A e \in Rows : time[e] = 1

ReadersNext ==
    \/ part = "mapreduce" /\ Next /\ UNCHANGED <<part, feedVars, backfillVars>>
    \/ part = "feed" /\ FeedNext /\ UNCHANGED <<part, vars, backfillVars>>
    \/ part = "backfill" /\ BackfillNext /\ UNCHANGED <<part, vars, feedVars>>

\* The fairness of FairSpec and FairBackfillSpec, which ask nothing of an idle part.
ReadersSpec ==
    /\ ReadersInit /\ [][ReadersNext]_readerVars
    /\ WF_vars(part = "mapreduce" /\ Next) /\ WF_backfillVars(part = "backfill" /\ Backfill)
=============================================================================
