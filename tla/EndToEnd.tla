------------------------------ MODULE EndToEnd ------------------------------
(***************************************************************************)
(* The server process as a whole: the write path (EventPipeline) and the   *)
(* search indexers (SearchIndexer) share the stream "events:index", the    *)
(* process they run in and the Redis database they can lose.               *)
(***************************************************************************)
EXTENDS EventPipeline

CONSTANTS Indexers, IndexBatchSize, Malformed, IndexFaults

VARIABLES jobGroup, jobLast, jobPel, jobAcked, ipc, ifrom, ito, docs

Search == INSTANCE SearchIndexer WITH MaxJobs <- MaxEntries

indexVars    == <<jobGroup, jobLast, jobPel, jobAcked, ipc, ifrom, ito, docs>>
\* The write path's variables that the indexers do not share.
pipelineVars == <<request, stream, groupVars, workerVars, aggVars, userMaps, pg, click,
                  feedVars, published>>
systemVars   == <<vars, indexVars>>

SystemInit == Init /\ Search!IndexInit

Ingest(e) ==
    /\ PostEvent(e)
    /\ UNCHANGED indexVars

Aggregate(w) ==
    /\ ReadFromGroup(w) \/ ProcessBatch(w)
    /\ UNCHANGED indexVars

Index(x) ==
    /\ Search!ProcessIndexBatch(x)
    /\ UNCHANGED pipelineVars

\* Mutant: the indexers' group is created anew at every start.
RestartAnewIndexerGroup ==
    /\ Restart
    /\ jobGroup' = TRUE /\ jobLast' = Len(jobs) /\ jobPel' = {}
    /\ UNCHANGED <<jobAcked, ipc, ifrom, ito, docs>>

\* main: both groups are ensured before any worker starts.
SystemRestart == Restart /\ Search!EnsureIndexerGroup
SystemCrash   == Crash /\ Search!LoseIndexers
SystemFlush   == FlushAll /\ Search!FlushJobs

SystemNext ==
    \/ \E e \in Events : Ingest(e)
    \/ \E w \in Workers : Aggregate(w)
    \/ \E x \in Indexers : Index(x)
    \/ SystemCrash
    \/ SystemRestart
    \/ SystemFlush

SystemSpec == SystemInit /\ [][SystemNext]_systemVars

SystemFairness ==
    /\ \A w \in Workers : WF_systemVars(Aggregate(w))
    /\ \A x \in Indexers : WF_systemVars(Index(x))

FairSystemSpec == SystemSpec /\ SystemFairness

-----------------------------------------------------------------------------
(* Properties.                                                             *)

\* What search can find is in PostgreSQL, ClickHouse and the user maps,
\* whatever failed on the way: an index document is never ahead of its event.
SearchIsPersisted == \A e \in docs : StoredEvent(e)

\* An entry leaves a queue only into the hands of a worker: a crash loses the
\* batches in flight, and a restart skips nothing that was still queued, unless
\* Redis was flushed.
QueueSurvivesRestart ==
    [][/\ \A i \in Entries : group /\ last < i /\ i <= Len(stream) /\ i <= last' => Held(i)'
       /\ \A j \in Entries : jobGroup /\ jobLast < j /\ j <= Len(jobs) /\ j <= jobLast' =>
             \E x \in Indexers : j \in (Search!JobBatch(x))'
      ]_systemVars

\* Liveness: without faults an accepted event can be found by search, unless it
\* shares its index batch with one that JSON cannot encode.
AcceptedIsSearchable ==
    \A e \in Events \ Unencodable : request[e] = "accepted" ~> e \in docs
=============================================================================
