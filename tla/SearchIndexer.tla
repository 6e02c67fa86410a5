--------------------------- MODULE SearchIndexer ---------------------------
(***************************************************************************)
(* The search index's side of the stream "events:index": aggregator        *)
(* workers append one job per event of a batch, indexer workers read jobs  *)
(* through a consumer group of their own, send them to Elasticsearch in    *)
(* one bulk request and acknowledge them.                                  *)
(***************************************************************************)
EXTENDS Integers, Sequences, FiniteSets

CONSTANTS
    Events,          \* event ids; also the _id of an event's document
    Indexers,        \* the goroutines indexer-1, indexer-2
    IndexBatchSize,  \* XREADGROUP COUNT
    MaxJobs,         \* bound: jobs ever added
    Malformed,       \* events whose job parseIndexEvent rejects (no readable time or id)
    Unencodable,     \* events json.Marshal rejects (a duration that is no number)
    IndexFaults      \* which of IndexFaultKinds a run allows

IndexFaultKinds == {"read", "elastic", "ack", "crash", "flush"}

ASSUME IndexBoundsAssumption == IndexBatchSize \in Nat \ {0} /\ MaxJobs \in Nat
ASSUME IndexEventsAssumption == Malformed \subseteq Events /\ Unencodable \subseteq Events
ASSUME IndexFaultsAssumption == IndexFaults \subseteq IndexFaultKinds

VARIABLES
    jobs,       \* every entry XADDed to "events:index", oldest first
    jobGroup,   \* does the group "event-indexers" exist?
    jobLast,    \* its last delivered job
    jobPel,     \* its pending jobs
    jobAcked,   \* history: jobs an XACK removed from jobPel
    ipc,        \* indexer -> the call of processIndexBatch it makes next
    ifrom, ito, \* indexer -> its batch is the jobs ifrom[x] .. ito[x]
    docs,       \* events that have a document in the index
    up          \* is the server process running?

jobVars     == <<jobGroup, jobLast, jobPel, jobAcked>>
indexerVars == <<ipc, ifrom, ito>>
indexVars   == <<jobVars, indexerVars, docs>>
searchVars  == <<jobs, up, indexVars>>

-----------------------------------------------------------------------------

JobEntries  == 1 .. MaxJobs
JobBatch(x) == ifrom[x] .. ito[x]

\* The events of a batch whose message parseIndexEvent accepts.
Parsed(x) == {jobs[j] : j \in JobBatch(x)} \ Malformed

IndexInit ==
    /\ jobGroup = TRUE /\ jobLast = 0 /\ jobPel = {} /\ jobAcked = {}
    /\ ipc = [x \in Indexers |-> "idle"]
    /\ ifrom = [x \in Indexers |-> 1] /\ ito = [x \in Indexers |-> 0]
    /\ docs = {}

Init == IndexInit /\ jobs = <<>> /\ up = TRUE

\* An aggregator worker queues one event; a pipeline the client library
\* repeats queues it again.
EnqueueJob(e) ==
    /\ up /\ Len(jobs) < MaxJobs
    /\ jobs' = Append(jobs, e)
    /\ UNCHANGED <<indexVars, up>>

-----------------------------------------------------------------------------
(* processIndexBatch, one call at a time.                                  *)

Drop(x) ==
    /\ ipc' = [ipc EXCEPT ![x] = "idle"]
    /\ ifrom' = [ifrom EXCEPT ![x] = 1] /\ ito' = [ito EXCEPT ![x] = 0]

\* Mutant: the group's position moves by COUNT, not by what was read.
JobsReadByCount(x) ==
    /\ up /\ jobGroup /\ ipc[x] = "idle" /\ jobLast < Len(jobs)
    /\ jobLast' = jobLast + IndexBatchSize
    /\ UNCHANGED <<jobs, jobGroup, jobPel, jobAcked, indexerVars, docs, up>>

\* Mutant: a read starts at the oldest pending job, whoever holds it.
JobsReadPending(x) ==
    /\ up /\ jobGroup /\ ipc[x] = "idle" /\ jobLast < Len(jobs)
    /\ jobLast' = jobLast + 1
    /\ jobPel' = jobPel \cup {jobLast + 1}
    /\ ipc' = [ipc EXCEPT ![x] = "index"]
    /\ ifrom' = [ifrom EXCEPT ![x] = IF jobPel = {} THEN jobLast + 1
                                     ELSE CHOOSE j \in jobPel : \A k \in jobPel : j <= k]
    /\ ito' = [ito EXCEPT ![x] = jobLast + 1]
    /\ UNCHANGED <<jobs, jobGroup, jobAcked, docs, up>>

\* XREADGROUP ">" again: a job is delivered to one indexer, once.
ReadIndexJobs(x) ==
    /\ up /\ jobGroup /\ ipc[x] = "idle" /\ jobLast < Len(jobs)
    /\ \E upTo \in jobLast + 1 .. Len(jobs) :
          /\ upTo = (IF jobLast + IndexBatchSize < Len(jobs) THEN jobLast + IndexBatchSize
                                                             ELSE Len(jobs))
          /\ jobLast' = upTo
          /\ jobPel' = jobPel \cup (jobLast + 1 .. upTo)
          /\ \/ /\ ipc' = [ipc EXCEPT ![x] = "index"]
                /\ ifrom' = [ifrom EXCEPT ![x] = jobLast + 1] /\ ito' = [ito EXCEPT ![x] = upTo]
             \/ "read" \in IndexFaults /\ UNCHANGED indexerVars   \* the reply was lost
    /\ UNCHANGED <<jobs, jobGroup, jobAcked, docs, up>>

\* Mutant: a bulk response with item errors is taken for a success.
ItemErrorsIgnored(x) ==
    /\ ipc[x] = "index"
    /\ \E S \in SUBSET (Parsed(x) \ Unencodable) : docs' = docs \cup S
    /\ ipc' = [ipc EXCEPT ![x] = "ack"]
    /\ UNCHANGED <<jobs, jobVars, ifrom, ito, up>>

\* Mutant: a batch with an event that cannot be encoded is tried for ever.
PoisonRetried(x) ==
    /\ ipc[x] = "index"
    /\ Parsed(x) \cap Unencodable = {}
    /\ docs' = docs \cup Parsed(x)
    /\ ipc' = [ipc EXCEPT ![x] = "ack"]
    /\ UNCHANGED <<jobs, jobVars, ifrom, ito, up>>

\* One _bulk request.  An event that cannot be encoded fails the batch before
\* the request is sent; a failed or partly failed request has indexed any part.
BulkIndexEvents(x) ==
    /\ ipc[x] = "index"
    /\ \/ /\ Parsed(x) \cap Unencodable = {}
          /\ docs' = docs \cup Parsed(x)
          /\ ipc' = [ipc EXCEPT ![x] = "ack"]
          /\ UNCHANGED <<ifrom, ito>>
       \/ /\ Parsed(x) \cap Unencodable = {} /\ Parsed(x) # {}
          /\ "elastic" \in IndexFaults
          /\ \E S \in SUBSET Parsed(x) : docs' = docs \cup S
          /\ Drop(x)
       \/ /\ Parsed(x) \cap Unencodable # {}
          /\ Drop(x)
          /\ UNCHANGED docs
    /\ UNCHANGED <<jobs, jobVars, up>>

\* Malformed jobs are acknowledged with the rest; a failed XACK leaves all of
\* them pending.
AckIndexJobs(x) ==
    /\ ipc[x] = "ack"
    /\ \/ /\ jobPel' = jobPel \ JobBatch(x)
          /\ jobAcked' = jobAcked \cup (jobPel \cap JobBatch(x))
       \/ "ack" \in IndexFaults /\ UNCHANGED <<jobPel, jobAcked>>
    /\ Drop(x)
    /\ UNCHANGED <<jobs, jobGroup, jobLast, docs, up>>

-----------------------------------------------------------------------------

LoseIndexers ==
    /\ ipc' = [x \in Indexers |-> "idle"]
    /\ ifrom' = [x \in Indexers |-> 1] /\ ito' = [x \in Indexers |-> 0]
    /\ UNCHANGED <<jobVars, docs>>

Crash ==
    /\ "crash" \in IndexFaults /\ up
    /\ up' = FALSE
    /\ LoseIndexers
    /\ UNCHANGED jobs

\* Mutant: a new group starts at "0" and delivers what was delivered before.
IndexerGroupAtZero ==
    /\ jobGroup' = TRUE
    /\ jobLast' = IF jobGroup THEN jobLast ELSE 0
    /\ UNCHANGED <<jobPel, jobAcked, indexerVars, docs>>

EnsureIndexerGroup ==
    /\ jobGroup' = TRUE
    /\ jobLast' = IF jobGroup THEN jobLast ELSE Len(jobs)
    /\ UNCHANGED <<jobPel, jobAcked, indexerVars, docs>>

Restart ==
    /\ ~up
    /\ up' = TRUE
    /\ EnsureIndexerGroup
    /\ UNCHANGED jobs

FlushJobs ==
    /\ jobGroup' = FALSE /\ jobPel' = {}
    /\ UNCHANGED <<jobLast, jobAcked, indexerVars, docs>>

FlushAll ==
    /\ "flush" \in IndexFaults
    /\ FlushJobs
    /\ UNCHANGED <<jobs, up>>

-----------------------------------------------------------------------------

ProcessIndexBatch(x) == ReadIndexJobs(x) \/ BulkIndexEvents(x) \/ AckIndexJobs(x)

Next ==
    \/ \E e \in Events : EnqueueJob(e)
    \/ \E x \in Indexers : ProcessIndexBatch(x)
    \/ Crash
    \/ Restart
    \/ FlushAll

Spec == Init /\ [][Next]_searchVars

\* Each indexer goroutine runs while the process does; ES's HTTP client has a
\* timeout, so every call returns.
IndexFairness == \A x \in Indexers : WF_searchVars(ProcessIndexBatch(x))

FairSpec == Spec /\ IndexFairness

-----------------------------------------------------------------------------
(* Properties.                                                             *)

\* The variables have their types, and positions lie inside the stream.
IndexTypeOK ==
    /\ jobs \in Seq(Events) /\ Len(jobs) <= MaxJobs
    /\ jobGroup \in BOOLEAN /\ jobLast \in 0 .. Len(jobs)
    /\ jobPel \subseteq 1 .. jobLast /\ jobAcked \subseteq 1 .. jobLast
    /\ ipc \in [Indexers -> {"idle", "index", "ack"}]
    /\ ifrom \in [Indexers -> Nat \ {0}] /\ ito \in [Indexers -> 0 .. Len(jobs)]
    /\ docs \in SUBSET Events
    /\ up \in BOOLEAN

\* The event of job j can be found, or could never be parsed.
Found(j) == j <= Len(jobs) /\ jobs[j] \in docs \cup Malformed

\* A job is acknowledged only when its event can be found, or could never be
\* parsed: no error of Elasticsearch loses an acknowledged job
\* (indexer_test.go:114).
AckedIsIndexed == \A j \in jobAcked : Found(j)

\* Only queued events are indexed, and no two indexers hold a common job.
IndexersExclusive ==
    /\ \A e \in docs : \E j \in 1 .. jobLast : jobs[j] = e /\ e \notin Malformed
    /\ \A x, y \in Indexers : x # y => JobBatch(x) \cap JobBatch(y) = {}
    /\ \A x \in Indexers : JobBatch(x) \cap jobAcked = {}

\* A batch lies inside the delivered jobs, is found once it is to be acknowledged,
\* and is pending as a whole or, after FLUSHDB, not at all.
JobBatchShape == \A x \in Indexers :
    /\ ipc[x] = "idle" => ifrom[x] = 1 /\ ito[x] = 0
    /\ ito[x] <= jobLast
    /\ ipc[x] = "ack" => \A j \in JobBatch(x) : Found(j)
    /\ JobBatch(x) \subseteq jobPel \/ JobBatch(x) \cap jobPel = {}

\* What holds of the index queue in every state: its types, exclusive batches of a
\* known shape, and acknowledgements that follow the index.
IndexInv == IndexTypeOK /\ IndexersExclusive /\ AckedIsIndexed /\ JobBatchShape

JobStatusOf(j) ==
    CASE j > Len(jobs) -> "absent"
      [] j <= Len(jobs) /\ j > jobLast -> "queued"
      [] j <= jobLast /\ \E x \in Indexers : j \in JobBatch(x) -> "held"
      [] j \in jobAcked -> "done"
      [] OTHER -> "lost"

JobLedger == INSTANCE DeliveryLedger WITH
    Entries <- JobEntries,
    status  <- [j \in JobEntries |-> JobStatusOf(j)],
    stored  <- {j \in JobEntries : Found(j)}

\* Every behaviour of the index queue, with any faults, is one of the ledger:
\* a job is delivered at most once, in order, and never taken up again.
JobLedgerSpec == JobLedger!Spec

\* Liveness: whatever fails, no indexer is stuck with its jobs for ever.
IndexBatchesEnd == \A x \in Indexers : ipc[x] # "idle" ~> ipc[x] = "idle"

\* README.md:46: "Events are queued for search indexing and indexed into
\* Elasticsearch": an event whose own job is sound is indexed.
SoundJobIsIndexed ==
    \A j \in JobEntries :
        (j <= Len(jobs) /\ jobs[j] \notin Unencodable) ~> Found(j)
=============================================================================
