------------------------- MODULE SearchIndexerProofs -------------------------
(***************************************************************************)
(* Proofs that IndexInv is an invariant of SearchIndexer for any events,   *)
(* indexers, bounds and faults, and that the index queue implements the    *)
(* delivery ledger: each step is one of the ledger or changes nothing of   *)
(* it.                                                                     *)
(***************************************************************************)
EXTENDS SearchIndexer, TLAPS

USE IndexBoundsAssumption, IndexEventsAssumption

\* The invariant holds before the first job: nothing is delivered.
LEMMA IndexInvInit == Init => IndexInv
  <1> SUFFICES ASSUME Init PROVE IndexInv OBVIOUS
  <1> USE DEF Init, IndexInit
  <1>1. IndexTypeOK BY DEF IndexTypeOK
  <1>2. IndexersExclusive BY DEF IndexersExclusive, JobBatch
  <1>3. AckedIsIndexed BY DEF AckedIsIndexed
  <1>4. JobBatchShape BY DEF JobBatchShape, JobBatch
  <1> QED BY <1>1, <1>2, <1>3, <1>4 DEF IndexInv

\* A batch is made of delivered jobs, and the jobs of events.
LEMMA JobBatchDelivered ==
    ASSUME IndexInv, NEW x \in Indexers
    PROVE  /\ JobBatch(x) \subseteq 1 .. jobLast
           /\ jobLast \in Nat /\ jobLast <= Len(jobs) /\ Len(jobs) \in Nat
           /\ \A j \in 1 .. Len(jobs) : jobs[j] \in Events
           /\ Parsed(x) \subseteq Events
  <1>1. ifrom[x] \in Nat \ {0} /\ ito[x] \in Nat /\ ito[x] <= jobLast
    BY DEF IndexInv, IndexTypeOK, JobBatchShape
  <1>2. jobLast \in Nat /\ jobLast <= Len(jobs) /\ Len(jobs) \in Nat
        /\ \A j \in 1 .. Len(jobs) : jobs[j] \in Events
    BY DEF IndexInv, IndexTypeOK
  <1>3. JobBatch(x) \subseteq 1 .. jobLast BY <1>1, <1>2 DEF JobBatch
  <1> QED BY <1>2, <1>3 DEF Parsed

\* What is found stays found: jobs are only appended and documents only added.
LEMMA FoundStable ==
    ASSUME IndexTypeOK, NEW j \in Nat \ {0}, Found(j), docs \subseteq docs',
           UNCHANGED jobs \/ \E e \in Events : jobs' = Append(jobs, e)
    PROVE  Found(j)'
  <1>1. jobs \in Seq(Events) BY DEF IndexTypeOK
  <1>2. j <= Len(jobs) /\ jobs[j] \in docs \cup Malformed BY DEF Found
  <1>3. j <= Len(jobs') /\ jobs'[j] = jobs[j] BY <1>1, <1>2
  <1> QED BY <1>2, <1>3 DEF Found

-----------------------------------------------------------------------------
(* One lemma per action.                                                   *)

LEMMA EnqueueKeepsInv == ASSUME IndexInv, NEW e \in Events, EnqueueJob(e) PROVE IndexInv'
  <1>1. /\ jobs' = Append(jobs, e) /\ Len(jobs) < MaxJobs
        /\ UNCHANGED <<jobGroup, jobLast, jobPel, jobAcked, ipc, ifrom, ito, docs, up>>
    BY DEF EnqueueJob, indexVars, jobVars, indexerVars
  <1>2. jobs \in Seq(Events) /\ Len(jobs) \in Nat BY DEF IndexInv, IndexTypeOK
  <1>3. /\ jobs' \in Seq(Events) /\ Len(jobs') = Len(jobs) + 1
        /\ \A j \in 1 .. Len(jobs) : jobs'[j] = jobs[j]
    BY <1>1, <1>2
  <1>4. \A j \in 1 .. Len(jobs) : Found(j) => Found(j)'
    BY <1>1, FoundStable DEF IndexInv
  <1>5. IndexTypeOK' BY <1>1, <1>2, <1>3 DEF IndexInv, IndexTypeOK
  <1>6. \A x \in Indexers : JobBatch(x)' = JobBatch(x) BY <1>1 DEF JobBatch
  <1>7. IndexersExclusive'
    <2>1. \A d \in docs' : \E j \in 1 .. jobLast' : jobs'[j] = d /\ d \notin Malformed
      BY <1>1, <1>2, <1>3 DEF IndexInv, IndexTypeOK, IndexersExclusive
    <2> QED BY <1>1, <1>6, <2>1 DEF IndexInv, IndexersExclusive
  <1>8. AckedIsIndexed'
    <2>1. jobAcked \subseteq 1 .. Len(jobs) BY <1>2 DEF IndexInv, IndexTypeOK
    <2> QED BY <1>1, <1>4, <2>1 DEF IndexInv, AckedIsIndexed
  <1>9. JobBatchShape'
    <2>1. \A x \in Indexers : JobBatch(x) \subseteq 1 .. Len(jobs) BY <1>2, JobBatchDelivered
    <2> QED BY <1>1, <1>4, <1>6, <2>1 DEF IndexInv, JobBatchShape
  <1> QED BY <1>5, <1>7, <1>8, <1>9 DEF IndexInv

\* A read extends the group's position by jobs nobody was given before.
LEMMA ReadTakesNewJobs ==
    ASSUME IndexInv, NEW x \in Indexers, ReadIndexJobs(x)
    PROVE  /\ jobLast' \in jobLast + 1 .. Len(jobs)
           /\ jobPel' = jobPel \cup (jobLast + 1 .. jobLast')
           /\ UNCHANGED <<jobs, jobGroup, jobAcked, docs, up>>
           /\ ipc[x] = "idle" /\ JobBatch(x) = {}
           /\ \A y \in Indexers \ {x} : JobBatch(y)' = JobBatch(y) /\ ipc'[y] = ipc[y]
           /\ \/ /\ ipc'[x] = "index" /\ ifrom'[x] = jobLast + 1 /\ ito'[x] = jobLast'
                 /\ JobBatch(x)' = jobLast + 1 .. jobLast'
              \/ UNCHANGED indexerVars
           /\ ipc' \in [Indexers -> {"idle", "index", "ack"}]
           /\ ifrom' \in [Indexers -> Nat \ {0}] /\ ito' \in [Indexers -> 0 .. Len(jobs)]
  <1>0. IndexTypeOK /\ JobBatchShape BY DEF IndexInv
  <1>1. PICK upTo \in jobLast + 1 .. Len(jobs) :
          /\ jobLast' = upTo
          /\ jobPel' = jobPel \cup (jobLast + 1 .. upTo)
          /\ \/ /\ ipc' = [ipc EXCEPT ![x] = "index"]
                /\ ifrom' = [ifrom EXCEPT ![x] = jobLast + 1] /\ ito' = [ito EXCEPT ![x] = upTo]
             \/ UNCHANGED indexerVars
    BY DEF ReadIndexJobs
  <1>2. ipc[x] = "idle" /\ UNCHANGED <<jobs, jobGroup, jobAcked, docs, up>> BY DEF ReadIndexJobs
  <1>3. JobBatch(x) = {} BY <1>0, <1>2 DEF JobBatchShape, JobBatch
  <1>4. jobLast \in Nat /\ Len(jobs) \in Nat BY <1>0 DEF IndexTypeOK
  <1>5. CASE UNCHANGED indexerVars
    <2>1. \A y \in Indexers : JobBatch(y)' = JobBatch(y) /\ ipc'[y] = ipc[y]
      BY <1>5 DEF indexerVars, JobBatch
    <2>2. /\ ipc' \in [Indexers -> {"idle", "index", "ack"}]
          /\ ifrom' \in [Indexers -> Nat \ {0}] /\ ito' \in [Indexers -> 0 .. Len(jobs)]
      BY <1>0, <1>5 DEF indexerVars, IndexTypeOK
    <2> QED BY <1>1, <1>2, <1>3, <1>5, <2>1, <2>2
  <1>6. CASE /\ ipc' = [ipc EXCEPT ![x] = "index"]
             /\ ifrom' = [ifrom EXCEPT ![x] = jobLast + 1] /\ ito' = [ito EXCEPT ![x] = upTo]
    <2>1. /\ ipc'[x] = "index" /\ ifrom'[x] = jobLast + 1 /\ ito'[x] = jobLast'
          /\ ipc' \in [Indexers -> {"idle", "index", "ack"}]
          /\ ifrom' \in [Indexers -> Nat \ {0}] /\ ito' \in [Indexers -> 0 .. Len(jobs)]
      BY <1>0, <1>1, <1>4, <1>6 DEF IndexTypeOK
    <2>2. JobBatch(x)' = jobLast + 1 .. jobLast' BY <2>1 DEF JobBatch
    <2>3. \A y \in Indexers \ {x} : JobBatch(y)' = JobBatch(y) /\ ipc'[y] = ipc[y]
      BY <1>0, <1>6 DEF JobBatch, IndexTypeOK
    <2> QED BY <1>1, <1>2, <1>3, <2>1, <2>2, <2>3
  <1> QED BY <1>1, <1>5, <1>6

LEMMA ReadKeepsInv == ASSUME IndexInv, NEW x \in Indexers, ReadIndexJobs(x) PROVE IndexInv'
  <1>0. IndexTypeOK /\ IndexersExclusive /\ AckedIsIndexed /\ JobBatchShape BY DEF IndexInv
  <1>1. /\ jobLast' \in jobLast + 1 .. Len(jobs)
        /\ jobPel' = jobPel \cup (jobLast + 1 .. jobLast')
        /\ UNCHANGED <<jobs, jobGroup, jobAcked, docs, up>>
        /\ ipc[x] = "idle" /\ JobBatch(x) = {}
        /\ \A y \in Indexers \ {x} : JobBatch(y)' = JobBatch(y) /\ ipc'[y] = ipc[y]
    BY ReadTakesNewJobs
  <1>2. \/ /\ ipc'[x] = "index" /\ ifrom'[x] = jobLast + 1 /\ ito'[x] = jobLast'
           /\ JobBatch(x)' = jobLast + 1 .. jobLast'
        \/ UNCHANGED indexerVars
    BY ReadTakesNewJobs
  <1>3. jobLast \in Nat /\ Len(jobs) \in Nat /\ jobLast < jobLast' /\ jobLast' <= Len(jobs)
        /\ jobLast' \in Nat
    BY <1>0, <1>1 DEF IndexTypeOK
  <1>4. JobBatch(x)' = {} \/ JobBatch(x)' = jobLast + 1 .. jobLast'
    BY <1>1, <1>2 DEF indexerVars, JobBatch
  <1>5. \A y \in Indexers : JobBatch(y) \subseteq 1 .. jobLast BY JobBatchDelivered
  <1>6. IndexTypeOK'
    <2>1. /\ ipc' \in [Indexers -> {"idle", "index", "ack"}]
          /\ ifrom' \in [Indexers -> Nat \ {0}] /\ ito' \in [Indexers -> 0 .. Len(jobs)]
      BY ReadTakesNewJobs
    <2> QED BY <1>0, <1>1, <1>3, <2>1 DEF IndexTypeOK
  <1>7. IndexersExclusive'
    <2>1. \A d \in docs' : \E j \in 1 .. jobLast' : jobs'[j] = d /\ d \notin Malformed
      BY <1>0, <1>1, <1>3 DEF IndexersExclusive
    <2>2. \A y \in Indexers \ {x} : JobBatch(x)' \cap JobBatch(y)' = {}
      BY <1>1, <1>3, <1>4, <1>5
    <2>3. \A y, z \in Indexers : y # z => JobBatch(y)' \cap JobBatch(z)' = {}
      BY <1>0, <1>1, <2>2 DEF IndexersExclusive
    <2>4. JobBatch(x)' \cap jobAcked' = {} BY <1>0, <1>1, <1>3, <1>4 DEF IndexTypeOK
    <2>5. \A y \in Indexers : JobBatch(y)' \cap jobAcked' = {}
      BY <1>0, <1>1, <2>4 DEF IndexersExclusive
    <2> QED BY <2>1, <2>3, <2>5 DEF IndexersExclusive
  <1>8. AckedIsIndexed' BY <1>0, <1>1 DEF AckedIsIndexed, Found
  <1>9. JobBatchShape'
    <2> SUFFICES ASSUME NEW y \in Indexers
                 PROVE  /\ ipc'[y] = "idle" => ifrom'[y] = 1 /\ ito'[y] = 0
                        /\ ito'[y] <= jobLast'
                        /\ ipc'[y] = "ack" => \A j \in JobBatch(y)' : Found(j)'
                        /\ JobBatch(y)' \subseteq jobPel' \/ JobBatch(y)' \cap jobPel' = {}
      BY DEF JobBatchShape
    <2>1. CASE y = x /\ ~UNCHANGED indexerVars
      BY <1>1, <1>2, <1>3, <2>1
    <2>2. CASE y # x \/ UNCHANGED indexerVars
      <3>1. ipc'[y] = ipc[y] /\ ifrom'[y] = ifrom[y] /\ ito'[y] = ito[y]
            /\ JobBatch(y)' = JobBatch(y)
        BY <1>0, <2>2 DEF ReadIndexJobs, indexerVars, JobBatch, IndexTypeOK
      <3>2. ito[y] \in Nat BY <1>0, <1>3 DEF IndexTypeOK
      <3> QED BY <1>0, <1>1, <1>3, <1>5, <3>1, <3>2 DEF JobBatchShape, Found
    <2> QED BY <2>1, <2>2
  <1> QED BY <1>6, <1>7, <1>8, <1>9 DEF IndexInv

\* An indexer that drops its batch: the others keep theirs.
LEMMA DropEmpties ==
    ASSUME IndexTypeOK, NEW x \in Indexers, Drop(x)
    PROVE  /\ ipc'[x] = "idle" /\ ifrom'[x] = 1 /\ ito'[x] = 0 /\ JobBatch(x)' = {}
           /\ \A y \in Indexers \ {x} :
                 /\ ipc'[y] = ipc[y] /\ ifrom'[y] = ifrom[y] /\ ito'[y] = ito[y]
                 /\ JobBatch(y)' = JobBatch(y)
           /\ ipc' \in [Indexers -> {"idle", "index", "ack"}]
           /\ ifrom' \in [Indexers -> Nat \ {0}] /\ ito' \in [Indexers -> 0 .. Len(jobs)]
  <1>1. Len(jobs) \in Nat BY DEF IndexTypeOK
  <1>2. /\ ipc' = [ipc EXCEPT ![x] = "idle"]
        /\ ifrom' = [ifrom EXCEPT ![x] = 1] /\ ito' = [ito EXCEPT ![x] = 0]
    BY DEF Drop
  <1>3. ipc'[x] = "idle" /\ ifrom'[x] = 1 /\ ito'[x] = 0 BY <1>2 DEF IndexTypeOK
  <1>4. JobBatch(x)' = {} BY <1>3 DEF JobBatch
  <1>5. \A y \in Indexers \ {x} : ipc'[y] = ipc[y] /\ ifrom'[y] = ifrom[y] /\ ito'[y] = ito[y]
    BY <1>2 DEF IndexTypeOK
  <1>6. \A y \in Indexers \ {x} : JobBatch(y)' = JobBatch(y) BY <1>5 DEF JobBatch
  <1>7. /\ ipc' \in [Indexers -> {"idle", "index", "ack"}]
        /\ ifrom' \in [Indexers -> Nat \ {0}] /\ ito' \in [Indexers -> 0 .. Len(jobs)]
    BY <1>1, <1>2 DEF IndexTypeOK
  <1> QED BY <1>3, <1>4, <1>5, <1>6, <1>7

\* After a step that keeps or drops the batch of x and leaves the group's position
\* alone the invariant is a matter of the three facts named last.
LEMMA HolderKeepsInv ==
    ASSUME IndexInv, IndexTypeOK', NEW x \in Indexers, docs \subseteq docs',
           UNCHANGED <<jobs, jobLast>>, jobPel' \subseteq jobPel,
           \/ Drop(x)
           \/ /\ UNCHANGED <<ifrom, ito>> /\ ipc' = [ipc EXCEPT ![x] = "ack"]
              /\ ipc[x] # "idle" /\ \A j \in JobBatch(x) : Found(j)',
           \A d \in docs' \ docs : \E j \in 1 .. jobLast : jobs[j] = d /\ d \notin Malformed,
           /\ jobAcked \subseteq jobAcked' /\ jobAcked' \ jobAcked \subseteq JobBatch(x)
           /\ jobAcked' # jobAcked => Drop(x) /\ \A j \in JobBatch(x) : Found(j),
           jobPel \ jobPel' \subseteq JobBatch(x) /\ (jobPel' # jobPel => Drop(x))
    PROVE  IndexInv'
  <1>0. IndexTypeOK /\ IndexersExclusive /\ AckedIsIndexed /\ JobBatchShape BY DEF IndexInv
  <1>1. \A y \in Indexers \ {x} : ipc'[y] = ipc[y] /\ ifrom'[y] = ifrom[y] /\ ito'[y] = ito[y]
                                 /\ JobBatch(y)' = JobBatch(y)
    BY <1>0, DropEmpties DEF IndexTypeOK, JobBatch
  <1>2. \/ JobBatch(x)' = {} /\ Drop(x)
        \/ JobBatch(x)' = JobBatch(x) /\ jobAcked' = jobAcked
    BY <1>0, DropEmpties DEF JobBatch
  <1>3. \A y \in Indexers : JobBatch(y) \subseteq 1 .. jobLast BY JobBatchDelivered
  <1>4. \A j \in Nat \ {0} : Found(j) => Found(j)' BY <1>0, FoundStable
  <1>5. jobLast \in Nat BY <1>0 DEF IndexTypeOK
  <1>6. IndexersExclusive'
    <2>1. \A d \in docs' : \E j \in 1 .. jobLast' : jobs'[j] = d /\ d \notin Malformed
      BY <1>0 DEF IndexersExclusive
    <2>2. \A y, z \in Indexers : y # z => JobBatch(y)' \cap JobBatch(z)' = {}
      BY <1>0, <1>1, <1>2 DEF IndexersExclusive
    <2>3. \A y \in Indexers : JobBatch(y)' \cap jobAcked' = {}
      BY <1>0, <1>1, <1>2 DEF IndexersExclusive
    <2> QED BY <2>1, <2>2, <2>3 DEF IndexersExclusive
  <1>7. AckedIsIndexed'
    <2>1. \A j \in jobAcked' : j \in Nat \ {0} /\ Found(j)
      BY <1>0, <1>3, <1>5 DEF AckedIsIndexed, IndexTypeOK
    <2> QED BY <1>4, <2>1 DEF AckedIsIndexed
  <1>8. JobBatchShape'
    <2> SUFFICES ASSUME NEW y \in Indexers
                 PROVE  /\ ipc'[y] = "idle" => ifrom'[y] = 1 /\ ito'[y] = 0
                        /\ ito'[y] <= jobLast'
                        /\ ipc'[y] = "ack" => \A j \in JobBatch(y)' : Found(j)'
                        /\ JobBatch(y)' \subseteq jobPel' \/ JobBatch(y)' \cap jobPel' = {}
      BY DEF JobBatchShape
    <2>1. CASE y # x
      <3>1. JobBatch(y) \cap JobBatch(x) = {} BY <1>0, <2>1 DEF IndexersExclusive
      <3>2. \A j \in JobBatch(y) : j \in Nat \ {0} BY <1>3, <1>5
      <3> QED BY <1>0, <1>1, <1>4, <2>1, <3>1, <3>2 DEF JobBatchShape
    <2>2. CASE y = x /\ Drop(x)
      BY <1>0, <1>5, <2>2, DropEmpties
    <2>3. CASE y = x /\ ~Drop(x)
      <3>1. ipc'[x] = "ack" /\ ito'[x] = ito[x] /\ JobBatch(x)' = JobBatch(x)
        BY <1>0, <2>3 DEF IndexTypeOK, JobBatch
      <3> QED BY <1>0, <2>3, <3>1 DEF JobBatchShape
    <2> QED BY <2>1, <2>2, <2>3
  <1> QED BY <1>6, <1>7, <1>8 DEF IndexInv

LEMMA BulkKeepsInv == ASSUME IndexInv, NEW x \in Indexers, BulkIndexEvents(x) PROVE IndexInv'
  <1>0. IndexTypeOK /\ JobBatchShape BY DEF IndexInv
  <1>1. UNCHANGED <<jobs, jobGroup, jobLast, jobPel, jobAcked, up>> /\ ipc[x] = "index"
    BY DEF BulkIndexEvents, jobVars
  <1>2. /\ docs \subseteq docs' /\ docs' \subseteq docs \cup Parsed(x)
        /\ \/ Drop(x)
           \/ /\ UNCHANGED <<ifrom, ito>> /\ ipc' = [ipc EXCEPT ![x] = "ack"]
              /\ Parsed(x) \subseteq docs'
    BY DEF BulkIndexEvents
  <1>3. JobBatch(x) \subseteq 1 .. jobLast /\ jobLast \in Nat /\ jobLast <= Len(jobs)
        /\ Len(jobs) \in Nat /\ Parsed(x) \subseteq Events
    BY JobBatchDelivered
  <1>4. \A d \in docs' \ docs : \E j \in 1 .. jobLast : jobs[j] = d /\ d \notin Malformed
    BY <1>2, <1>3 DEF Parsed
  <1>5. Parsed(x) \subseteq docs' => \A j \in JobBatch(x) : Found(j)'
    BY <1>1, <1>3 DEF Parsed, Found
  <1>6. IndexTypeOK'
    <2>1. /\ ipc' \in [Indexers -> {"idle", "index", "ack"}]
          /\ ifrom' \in [Indexers -> Nat \ {0}] /\ ito' \in [Indexers -> 0 .. Len(jobs)]
      BY <1>0, <1>2, DropEmpties DEF IndexTypeOK
    <2> QED BY <1>0, <1>1, <1>2, <1>3, <2>1 DEF IndexTypeOK
  <1>7. \/ Drop(x)
        \/ /\ UNCHANGED <<ifrom, ito>> /\ ipc' = [ipc EXCEPT ![x] = "ack"]
           /\ ipc[x] # "idle" /\ \A j \in JobBatch(x) : Found(j)'
    BY <1>1, <1>2, <1>5
  <1> QED BY <1>1, <1>2, <1>4, <1>6, <1>7, HolderKeepsInv

LEMMA AckKeepsInv == ASSUME IndexInv, NEW x \in Indexers, AckIndexJobs(x) PROVE IndexInv'
  <1>0. IndexTypeOK /\ JobBatchShape BY DEF IndexInv
  <1>1. UNCHANGED <<jobs, jobGroup, jobLast, docs, up>> /\ ipc[x] = "ack" /\ Drop(x)
    BY DEF AckIndexJobs
  <1>2. \/ /\ jobPel' = jobPel \ JobBatch(x)
           /\ jobAcked' = jobAcked \cup (jobPel \cap JobBatch(x))
        \/ UNCHANGED <<jobPel, jobAcked>>
    BY DEF AckIndexJobs
  <1>3. \A j \in JobBatch(x) : Found(j) BY <1>0, <1>1 DEF JobBatchShape
  <1>4. JobBatch(x) \subseteq 1 .. jobLast BY JobBatchDelivered
  <1>5. IndexTypeOK' BY <1>0, <1>1, <1>2, <1>4, DropEmpties DEF IndexTypeOK
  <1>6. /\ jobPel' \subseteq jobPel
        /\ jobAcked \subseteq jobAcked' /\ jobAcked' \ jobAcked \subseteq JobBatch(x)
        /\ jobPel \ jobPel' \subseteq JobBatch(x)
    BY <1>2
  <1> QED BY <1>1, <1>3, <1>5, <1>6, HolderKeepsInv

\* A crash, a restart and FLUSHDB.
LEMMA ProcessKeepsInv == ASSUME IndexInv, Crash \/ Restart \/ FlushAll PROVE IndexInv'
  <1>0. IndexTypeOK /\ IndexersExclusive /\ AckedIsIndexed /\ JobBatchShape BY DEF IndexInv
  <1>1. CASE Crash
    <2>1. /\ ipc' = [x \in Indexers |-> "idle"]
          /\ ifrom' = [x \in Indexers |-> 1] /\ ito' = [x \in Indexers |-> 0]
          /\ UNCHANGED <<jobs, jobGroup, jobLast, jobPel, jobAcked, docs>> /\ up' = FALSE
      BY <1>1 DEF Crash, LoseIndexers, jobVars
    <2>2. \A x \in Indexers : JobBatch(x)' = {} BY <2>1 DEF JobBatch
    <2>3. IndexTypeOK'
      <3>1. Len(jobs) \in Nat /\ 0 \in 0 .. Len(jobs) BY <1>0 DEF IndexTypeOK
      <3>2. /\ ipc' \in [Indexers -> {"idle", "index", "ack"}]
            /\ ifrom' \in [Indexers -> Nat \ {0}] /\ ito' \in [Indexers -> 0 .. Len(jobs)]
        BY <2>1, <3>1
      <3> QED BY <1>0, <2>1, <3>2 DEF IndexTypeOK
    <2>4. IndexersExclusive' BY <1>0, <2>1, <2>2 DEF IndexersExclusive
    <2>5. AckedIsIndexed' BY <1>0, <2>1 DEF AckedIsIndexed, Found
    <2>6. JobBatchShape' BY <1>0, <2>1, <2>2 DEF JobBatchShape, IndexTypeOK
    <2> QED BY <2>3, <2>4, <2>5, <2>6 DEF IndexInv
  <1>2. CASE Restart \/ FlushAll
    <2>1. /\ UNCHANGED <<jobs, jobAcked, ipc, ifrom, ito, docs>>
          /\ jobLast' = jobLast \/ jobLast' = Len(jobs)
          /\ jobPel' = jobPel \/ jobPel' = {}
          /\ jobGroup' \in BOOLEAN /\ up' \in BOOLEAN
      BY <1>0, <1>2 DEF Restart, EnsureIndexerGroup, FlushAll, FlushJobs, indexerVars, IndexTypeOK
    <2>2. jobLast \in Nat /\ jobLast' \in Nat /\ jobLast <= jobLast' /\ jobLast' <= Len(jobs)
          /\ Len(jobs) \in Nat
      BY <1>0, <2>1 DEF IndexTypeOK
    <2>3. \A x \in Indexers : JobBatch(x)' = JobBatch(x) BY <2>1 DEF JobBatch
    <2>4. IndexTypeOK'
      <3>1. jobLast' \in 0 .. Len(jobs') BY <2>1, <2>2
      <3>2. jobPel \subseteq 1 .. jobLast /\ jobAcked \subseteq 1 .. jobLast
        BY <1>0 DEF IndexTypeOK
      <3>3. jobPel' \subseteq 1 .. jobLast' /\ jobAcked' \subseteq 1 .. jobLast'
        <4>1. 1 .. jobLast \subseteq 1 .. jobLast' BY <2>2
        <4> QED BY <2>1, <3>2, <4>1
      <3> QED BY <1>0, <2>1, <3>1, <3>3 DEF IndexTypeOK
    <2>5. IndexersExclusive' BY <1>0, <2>1, <2>2, <2>3 DEF IndexersExclusive
    <2>6. AckedIsIndexed' BY <1>0, <2>1 DEF AckedIsIndexed, Found
    <2>7. JobBatchShape'
      <3>1. \A x \in Indexers : ito[x] \in Nat BY <1>0, <2>2 DEF IndexTypeOK
      <3> QED BY <1>0, <2>1, <2>2, <2>3, <3>1 DEF JobBatchShape, Found
    <2> QED BY <2>4, <2>5, <2>6, <2>7 DEF IndexInv
  <1> QED BY <1>1, <1>2

-----------------------------------------------------------------------------

LEMMA IndexInvStep == IndexInv /\ [Next]_searchVars => IndexInv'
  <1> SUFFICES ASSUME IndexInv, [Next]_searchVars PROVE IndexInv' OBVIOUS
  <1>1. CASE \E e \in Events : EnqueueJob(e) BY <1>1, EnqueueKeepsInv
  <1>2. CASE \E x \in Indexers : ProcessIndexBatch(x)
    BY <1>2, ReadKeepsInv, BulkKeepsInv, AckKeepsInv DEF ProcessIndexBatch
  <1>3. CASE Crash \/ Restart \/ FlushAll BY <1>3, ProcessKeepsInv
  <1>4. CASE UNCHANGED searchVars
    <2> USE <1>4 DEF searchVars, indexVars, jobVars, indexerVars
    <2>1. IndexTypeOK' BY DEF IndexInv, IndexTypeOK
    <2>2. IndexersExclusive' BY DEF IndexInv, IndexersExclusive, JobBatch
    <2>3. AckedIsIndexed' BY DEF IndexInv, AckedIsIndexed, Found
    <2>4. JobBatchShape' BY DEF IndexInv, JobBatchShape, JobBatch, Found
    <2> QED BY <2>1, <2>2, <2>3, <2>4 DEF IndexInv
  <1> QED BY <1>1, <1>2, <1>3, <1>4 DEF Next

\* The index queue keeps its invariant: exclusive batches, and no job acknowledged
\* whose event is not found, whatever Elasticsearch and Redis do.
THEOREM IndexInvariance == Spec => []IndexInv
  <1> QED BY IndexInvInit, IndexInvStep, PTL DEF Spec

-----------------------------------------------------------------------------
(* The index queue implements the ledger.  A step is recognised by what it *)
(* does to the status of each job.                                         *)

LEMMA JobsAreNumbers == JobEntries \subseteq Nat \ {0}
  BY DEF JobEntries

\* The status of a job by the positions that decide it; the invariant makes the
\* cases of JobStatusOf exclusive.
JobStatusIs(j) ==
    /\ JobStatusOf(j) = "absent" <=> j > Len(jobs)
    /\ JobStatusOf(j) = "queued" <=> j <= Len(jobs) /\ j > jobLast
    /\ JobStatusOf(j) = "held" <=> \E x \in Indexers : j \in JobBatch(x)
    /\ JobStatusOf(j) = "done" <=> j \in jobAcked
    /\ JobStatusOf(j) \in {"absent", "queued", "held", "done", "lost"}

LEMMA JobStatuses == IndexInv => \A j \in JobEntries : JobStatusIs(j)
  <1> SUFFICES ASSUME IndexInv, NEW j \in JobEntries PROVE JobStatusIs(j) OBVIOUS
  <1>1. jobLast \in Nat /\ Len(jobs) \in Nat /\ jobLast <= Len(jobs) /\ j \in Nat \ {0}
    BY JobsAreNumbers DEF IndexInv, IndexTypeOK
  <1>2. \A x \in Indexers : JobBatch(x) \subseteq 1 .. jobLast BY JobBatchDelivered
  <1>3. jobAcked \subseteq 1 .. jobLast /\ \A x \in Indexers : JobBatch(x) \cap jobAcked = {}
    BY DEF IndexInv, IndexTypeOK, IndexersExclusive
  <1>4. CASE j > Len(jobs)
    <2>1. JobStatusOf(j) = "absent" BY <1>1, <1>3, <1>4 DEF JobStatusOf
    <2> QED BY <1>1, <1>2, <1>3, <1>4, <2>1 DEF JobStatusIs
  <1>5. CASE j <= Len(jobs) /\ j > jobLast
    <2>1. JobStatusOf(j) = "queued" BY <1>1, <1>3, <1>5 DEF JobStatusOf
    <2> QED BY <1>1, <1>2, <1>3, <1>5, <2>1 DEF JobStatusIs
  <1>6. CASE j <= jobLast /\ \E x \in Indexers : j \in JobBatch(x)
    <2>1. JobStatusOf(j) = "held" BY <1>1, <1>3, <1>6 DEF JobStatusOf
    <2> QED BY <1>1, <1>2, <1>3, <1>6, <2>1 DEF JobStatusIs
  <1>7. CASE j <= jobLast /\ ~\E x \in Indexers : j \in JobBatch(x)
    <2>1. JobStatusOf(j) = IF j \in jobAcked THEN "done" ELSE "lost"
      BY <1>1, <1>7 DEF JobStatusOf
    <2> QED BY <1>1, <1>2, <1>3, <1>7, <2>1 DEF JobStatusIs
  <1> QED BY <1>1, <1>4, <1>5, <1>6, <1>7

LEMMA JobStatusesNext == ASSUME IndexInv' PROVE \A j \in JobEntries : JobStatusIs(j)'
  <1>1. (IndexInv => \A j \in JobEntries : JobStatusIs(j))' BY JobStatuses, PTL
  <1> QED BY <1>1

\* A step that only gives up held jobs, if any, and stores more of them.
LEMMA IsProcess ==
    ASSUME \A j \in JobEntries : \/ JobStatusOf(j)' = JobStatusOf(j)
                                 \/ JobStatusOf(j) = "held" /\ JobStatusOf(j)' = "lost",
           \A j \in JobEntries : Found(j) => Found(j)'
    PROVE  JobLedger!Process
  <1> DEFINE L == {j \in JobEntries : JobStatusOf(j)' # JobStatusOf(j)}
             S == {j \in JobEntries : Found(j)'}
  <1>1. L \in SUBSET JobLedger!In("held") BY DEF JobLedger!In
  <1>2. JobLedger!Move(L, "lost") BY DEF JobLedger!Move
  <1>3. JobLedger!Store
    <2>1. S \in SUBSET JobEntries
          /\ {j \in JobEntries : Found(j)'} = {j \in JobEntries : Found(j)} \cup S
      OBVIOUS
    <2> QED BY <2>1 DEF JobLedger!Store
  <1> QED BY <1>1, <1>2, <1>3 DEF JobLedger!Process

\* A step that appends jobs in order.
LEMMA IsAdd ==
    ASSUME \A j \in JobEntries : \/ JobStatusOf(j)' = JobStatusOf(j)
                                 \/ JobStatusOf(j) = "absent" /\ JobStatusOf(j)' = "queued",
           \A j, k \in JobEntries :
              /\ JobStatusOf(j)' # JobStatusOf(j)
              /\ JobStatusOf(k) = "absent" /\ JobStatusOf(k)' = "absent"
              => j < k,
           \A j \in JobEntries : Found(j) => Found(j)'
    PROVE  JobLedger!Add
  <1> DEFINE A == {j \in JobEntries : JobStatusOf(j)' # JobStatusOf(j)}
             S == {j \in JobEntries : Found(j)'}
  <1>1. A \in SUBSET JobLedger!In("absent") BY DEF JobLedger!In
  <1>2. \A i \in A, k \in JobLedger!In("absent") \ A : i < k BY DEF JobLedger!In
  <1>3. JobLedger!Move(A, "queued") BY DEF JobLedger!Move
  <1>4. JobLedger!Store
    <2>1. S \in SUBSET JobEntries
          /\ {j \in JobEntries : Found(j)'} = {j \in JobEntries : Found(j)} \cup S
      OBVIOUS
    <2> QED BY <2>1 DEF JobLedger!Store
  <1> QED BY <1>1, <1>2, <1>3, <1>4 DEF JobLedger!Add

\* A step that hands the oldest queued jobs to one reader, or loses them.
LEMMA IsDeliver ==
    ASSUME NEW s \in {"held", "lost"},
           \A j \in JobEntries : \/ JobStatusOf(j)' = JobStatusOf(j)
                                 \/ JobStatusOf(j) = "queued" /\ JobStatusOf(j)' = s,
           \A j, k \in JobEntries :
              /\ JobStatusOf(j)' # JobStatusOf(j)
              /\ JobStatusOf(k) = "queued" /\ JobStatusOf(k)' = "queued"
              => j < k,
           \A j \in JobEntries : Found(j) => Found(j)'
    PROVE  JobLedger!Deliver
  <1> DEFINE D == {j \in JobEntries : JobStatusOf(j)' # JobStatusOf(j)}
             S == {j \in JobEntries : Found(j)'}
  <1>1. D \in SUBSET JobLedger!In("queued") BY DEF JobLedger!In
  <1>2. \A i \in D, k \in JobLedger!In("queued") \ D : i < k BY DEF JobLedger!In
  <1>3. JobLedger!Move(D, s) BY DEF JobLedger!Move
  <1>4. JobLedger!Store
    <2>1. S \in SUBSET JobEntries
          /\ {j \in JobEntries : Found(j)'} = {j \in JobEntries : Found(j)} \cup S
      OBVIOUS
    <2> QED BY <2>1 DEF JobLedger!Store
  <1> QED BY <1>1, <1>2, <1>3, <1>4 DEF JobLedger!Deliver

\* A step that finishes held jobs which are found.
LEMMA IsFinish ==
    ASSUME \A j \in JobEntries : \/ JobStatusOf(j)' = JobStatusOf(j)
                                 \/ /\ JobStatusOf(j) = "held" /\ JobStatusOf(j)' = "done"
                                    /\ Found(j),
           \A j \in JobEntries : Found(j)' <=> Found(j)
    PROVE  JobLedger!Finish
  <1> DEFINE F == {j \in JobEntries : JobStatusOf(j)' # JobStatusOf(j)}
  <1>1. F \in SUBSET (JobLedger!In("held") \cap {j \in JobEntries : Found(j)})
    BY DEF JobLedger!In
  <1>2. JobLedger!Move(F, "done") BY DEF JobLedger!Move
  <1>3. {j \in JobEntries : Found(j)'} = {j \in JobEntries : Found(j)} OBVIOUS
  <1> QED BY <1>1, <1>2, <1>3 DEF JobLedger!Finish

-----------------------------------------------------------------------------
(* Each action is a step of the ledger.                                    *)

LEMMA EnqueueRefines ==
    ASSUME IndexInv, IndexInv', NEW e \in Events, EnqueueJob(e) PROVE JobLedger!Add
  <1>1. /\ jobs' = Append(jobs, e)
        /\ UNCHANGED <<jobLast, jobAcked, ifrom, ito, docs>>
    BY DEF EnqueueJob, indexVars, jobVars, indexerVars
  <1>2. jobs \in Seq(Events) /\ Len(jobs) \in Nat /\ jobLast \in Nat /\ jobLast <= Len(jobs)
    BY DEF IndexInv, IndexTypeOK
  <1>3. Len(jobs') = Len(jobs) + 1 BY <1>1, <1>2
  <1>4. \A x \in Indexers : JobBatch(x)' = JobBatch(x) BY <1>1 DEF JobBatch
  <1>5. \A j \in JobEntries : Found(j) => Found(j)'
    BY <1>1, JobsAreNumbers, FoundStable DEF IndexInv
  <1>6. ASSUME NEW j \in JobEntries
        PROVE  \/ JobStatusOf(j)' = JobStatusOf(j)
               \/ j = Len(jobs) + 1 /\ JobStatusOf(j) = "absent" /\ JobStatusOf(j)' = "queued"
    <2>1. JobStatusIs(j) /\ JobStatusIs(j)' BY JobStatuses, JobStatusesNext
    <2>2. j \in Nat \ {0} BY JobsAreNumbers
    <2>3. CASE j <= Len(jobs) BY <1>1, <1>2, <1>3, <1>4, <2>1, <2>2, <2>3 DEF JobStatusIs
    <2>4. CASE j = Len(jobs) + 1 BY <1>1, <1>2, <1>3, <2>1, <2>4 DEF JobStatusIs
    <2>5. CASE j > Len(jobs) + 1 BY <1>2, <1>3, <2>1, <2>2, <2>5 DEF JobStatusIs
    <2> QED BY <1>2, <2>2, <2>3, <2>4, <2>5
  <1>7. ASSUME NEW k \in JobEntries, JobStatusOf(k)' = "absent" PROVE k > Len(jobs) + 1
    BY <1>3, <1>7, JobStatusesNext DEF JobStatusIs
  <1>8. \A j, k \in JobEntries :
          /\ JobStatusOf(j)' # JobStatusOf(j)
          /\ JobStatusOf(k) = "absent" /\ JobStatusOf(k)' = "absent"
          => j < k
    BY <1>6, <1>7
  <1> QED BY <1>5, <1>6, <1>8, IsAdd

\* A read delivers: to the indexer, or, when the reply is lost, to nobody.
LEMMA ReadRefines ==
    ASSUME IndexInv, IndexInv', NEW x \in Indexers, ReadIndexJobs(x) PROVE JobLedger!Deliver
  <1>1. /\ jobLast' \in jobLast + 1 .. Len(jobs)
        /\ UNCHANGED <<jobs, jobAcked, docs>>
        /\ JobBatch(x) = {}
        /\ \A y \in Indexers \ {x} : JobBatch(y)' = JobBatch(y)
        /\ JobBatch(x)' = {} \/ JobBatch(x)' = jobLast + 1 .. jobLast'
    BY ReadTakesNewJobs DEF indexerVars, JobBatch
  <1>2. jobLast \in Nat /\ Len(jobs) \in Nat /\ jobLast <= Len(jobs)
    BY DEF IndexInv, IndexTypeOK
  <1>3. \A j \in JobEntries : Found(j) => Found(j)' BY <1>1 DEF Found
  <1>4. PICK s \in {"held", "lost"} :
          JobBatch(x)' = IF s = "held" THEN jobLast + 1 .. jobLast' ELSE {}
    BY <1>1
  <1>5. ASSUME NEW j \in JobEntries
        PROVE  \/ JobStatusOf(j)' = JobStatusOf(j) /\ ~(j > jobLast /\ j <= jobLast')
               \/ j <= jobLast' /\ JobStatusOf(j) = "queued" /\ JobStatusOf(j)' = s
    <2>1. JobStatusIs(j) /\ JobStatusIs(j)' BY JobStatuses, JobStatusesNext
    <2>2. j \in Nat \ {0} BY JobsAreNumbers
    <2>3. jobAcked \subseteq 1 .. jobLast /\ \A y \in Indexers : JobBatch(y) \subseteq 1 .. jobLast
      BY JobBatchDelivered DEF IndexInv, IndexTypeOK
    <2>4. CASE j > jobLast /\ j <= jobLast'
      <3>1. JobStatusOf(j) = "queued" BY <1>1, <1>2, <2>1, <2>2, <2>4 DEF JobStatusIs
      <3>2. j \notin jobAcked' /\ \A y \in Indexers \ {x} : j \notin JobBatch(y)'
        BY <1>1, <1>2, <2>2, <2>3, <2>4
      <3>3. j \in JobBatch(x)' <=> s = "held" BY <1>2, <1>4, <1>1, <2>2, <2>4
      <3>4. JobStatusOf(j)' = s
        BY <1>1, <1>2, <2>1, <2>2, <2>4, <3>2, <3>3 DEF JobStatusIs
      <3> QED BY <2>4, <3>1, <3>4
    <2>5. CASE ~(j > jobLast /\ j <= jobLast')
      <3>1. j \notin JobBatch(x)' BY <1>1, <1>2, <2>2, <2>5
      <3>2. (\E y \in Indexers : j \in JobBatch(y)') <=> (\E y \in Indexers : j \in JobBatch(y))
        BY <1>1, <3>1
      <3>3. JobStatusOf(j)' = JobStatusOf(j)
        BY <1>1, <1>2, <2>1, <2>2, <2>5, <3>2 DEF JobStatusIs
      <3> QED BY <2>5, <3>3
    <2> QED BY <2>4, <2>5
  <1>6. ASSUME NEW k \in JobEntries, JobStatusOf(k)' = "queued" PROVE k > jobLast'
    BY <1>6, JobStatusesNext DEF JobStatusIs
  <1>7. \A j, k \in JobEntries :
          /\ JobStatusOf(j)' # JobStatusOf(j)
          /\ JobStatusOf(k) = "queued" /\ JobStatusOf(k)' = "queued"
          => j < k
    <2> SUFFICES ASSUME NEW j \in JobEntries, NEW k \in JobEntries,
                        JobStatusOf(j)' # JobStatusOf(j), JobStatusOf(k)' = "queued"
                 PROVE  j < k
      OBVIOUS
    <2>1. j <= jobLast' /\ k > jobLast' BY <1>5, <1>6
    <2> QED BY <1>1, <1>2, <2>1, JobsAreNumbers
  <1> QED BY <1>3, <1>5, <1>7, IsDeliver

\* After a step that moves no position and acknowledges nothing a job keeps its
\* status, unless its holder gave it up.
LEMMA GivesUp ==
    ASSUME IndexInv, IndexInv', UNCHANGED <<jobs, jobLast, jobAcked>>, docs \subseteq docs',
           \A x \in Indexers : JobBatch(x)' = JobBatch(x) \/ JobBatch(x)' = {}
    PROVE  JobLedger!Process
  <1>1. \A j \in JobEntries : Found(j) => Found(j)'
    BY JobsAreNumbers, FoundStable DEF IndexInv
  <1>2. ASSUME NEW j \in JobEntries
        PROVE  \/ JobStatusOf(j)' = JobStatusOf(j)
               \/ JobStatusOf(j) = "held" /\ JobStatusOf(j)' = "lost"
    <2>1. JobStatusIs(j) /\ JobStatusIs(j)' BY JobStatuses, JobStatusesNext
    <2>2. (\E x \in Indexers : j \in JobBatch(x)') => (\E x \in Indexers : j \in JobBatch(x))
      OBVIOUS
    <2> QED BY <2>1, <2>2 DEF JobStatusIs
  <1> QED BY <1>1, <1>2, IsProcess

LEMMA BulkRefines ==
    ASSUME IndexInv, IndexInv', NEW x \in Indexers, BulkIndexEvents(x) PROVE JobLedger!Process
  <1>0. IndexTypeOK BY DEF IndexInv
  <1>1. UNCHANGED <<jobs, jobLast, jobAcked>> /\ docs \subseteq docs'
        /\ (Drop(x) \/ UNCHANGED <<ifrom, ito>>)
    BY DEF BulkIndexEvents, jobVars
  <1>2. \A y \in Indexers : JobBatch(y)' = JobBatch(y) \/ JobBatch(y)' = {}
    BY <1>0, <1>1, DropEmpties DEF JobBatch
  <1> QED BY <1>1, <1>2, GivesUp

\* An XACK finishes a batch that is pending; one that fails, or finds nothing
\* pending after FLUSHDB, only gives the batch up.
LEMMA AckRefines ==
    ASSUME IndexInv, IndexInv', NEW x \in Indexers, AckIndexJobs(x)
    PROVE  JobLedger!Finish \/ JobLedger!Process
  <1>0. IndexTypeOK /\ IndexersExclusive /\ JobBatchShape BY DEF IndexInv
  <1>1. /\ UNCHANGED <<jobs, jobLast, docs>> /\ ipc[x] = "ack" /\ Drop(x)
        /\ \/ jobAcked' = jobAcked \cup (jobPel \cap JobBatch(x))
           \/ UNCHANGED jobAcked
    BY DEF AckIndexJobs
  <1>2. JobBatch(x)' = {} /\ \A y \in Indexers \ {x} : JobBatch(y)' = JobBatch(y)
    BY <1>0, <1>1, DropEmpties
  <1>3. \/ jobAcked' = jobAcked \cup JobBatch(x)
        \/ UNCHANGED jobAcked
    BY <1>0, <1>1 DEF JobBatchShape
  <1>4. CASE UNCHANGED jobAcked BY <1>1, <1>2, <1>4, GivesUp
  <1>5. CASE jobAcked' = jobAcked \cup JobBatch(x)
    <2>1. \A j \in JobBatch(x) : Found(j) BY <1>0, <1>1 DEF JobBatchShape
    <2>2. \A j \in JobEntries : Found(j)' <=> Found(j) BY <1>1 DEF Found
    <2>3. ASSUME NEW j \in JobEntries
          PROVE  \/ JobStatusOf(j)' = JobStatusOf(j)
                 \/ JobStatusOf(j) = "held" /\ JobStatusOf(j)' = "done" /\ Found(j)
      <3>1. JobStatusIs(j) /\ JobStatusIs(j)' BY JobStatuses, JobStatusesNext
      <3>2. CASE j \in JobBatch(x)
        BY <1>5, <2>1, <3>1, <3>2 DEF JobStatusIs
      <3>3. CASE j \notin JobBatch(x)
        <4>1. (\E y \in Indexers : j \in JobBatch(y)') <=> (\E y \in Indexers : j \in JobBatch(y))
          BY <1>2, <3>3
        <4>2. j \in jobAcked' <=> j \in jobAcked BY <1>5, <3>3
        <4> QED BY <1>1, <3>1, <4>1, <4>2 DEF JobStatusIs
      <3> QED BY <3>2, <3>3
    <2> QED BY <2>2, <2>3, IsFinish
  <1> QED BY <1>3, <1>4, <1>5

\* A new group starts behind the queue, which is lost.
LEMMA RestartRefines == ASSUME IndexInv, IndexInv', Restart
                        PROVE  JobLedger!Deliver \/ JobLedger!Process
  <1>1. /\ UNCHANGED <<jobs, jobAcked, ifrom, ito, docs>>
        /\ jobLast' = jobLast \/ jobLast' = Len(jobs)
    BY DEF Restart, EnsureIndexerGroup, indexerVars
  <1>2. jobLast \in Nat /\ Len(jobs) \in Nat /\ jobLast <= Len(jobs)
    BY DEF IndexInv, IndexTypeOK
  <1>3. \A x \in Indexers : JobBatch(x)' = JobBatch(x) BY <1>1 DEF JobBatch
  <1>4. \A x \in Indexers : JobBatch(x) \subseteq 1 .. jobLast BY JobBatchDelivered
  <1>5. CASE jobLast' = jobLast BY <1>1, <1>3, <1>5, GivesUp
  <1>6. CASE jobLast' = Len(jobs)
    <2>1. \A j \in JobEntries : Found(j) => Found(j)' BY <1>1 DEF Found
    <2>2. ASSUME NEW j \in JobEntries
          PROVE  /\ \/ JobStatusOf(j)' = JobStatusOf(j)
                    \/ JobStatusOf(j) = "queued" /\ JobStatusOf(j)' = "lost"
                 /\ JobStatusOf(j)' # "queued"
      <3>1. JobStatusIs(j) /\ JobStatusIs(j)' BY JobStatuses, JobStatusesNext
      <3>2. j \in Nat \ {0} BY JobsAreNumbers
      <3>3. jobAcked \subseteq 1 .. jobLast BY DEF IndexInv, IndexTypeOK
      <3>4. CASE j > jobLast /\ j <= Len(jobs)
        <4>1. j \notin jobAcked' /\ \A y \in Indexers : j \notin JobBatch(y)'
          BY <1>1, <1>2, <1>3, <1>4, <3>2, <3>3, <3>4
        <4> QED BY <1>1, <1>6, <3>1, <3>4, <4>1 DEF JobStatusIs
      <3>5. CASE ~(j > jobLast /\ j <= Len(jobs))
        BY <1>1, <1>2, <1>3, <1>6, <3>1, <3>2, <3>5 DEF JobStatusIs
      <3> QED BY <3>4, <3>5
    <2> QED BY <2>1, <2>2, IsDeliver
  <1> QED BY <1>1, <1>5, <1>6

LEMMA RefinesStep ==
    ASSUME IndexInv, IndexInv', [Next]_searchVars PROVE [JobLedger!Next]_(JobLedger!vars)
  <1>1. CASE \E e \in Events : EnqueueJob(e) BY <1>1, EnqueueRefines DEF JobLedger!Next
  <1>2. CASE \E x \in Indexers : ProcessIndexBatch(x)
    BY <1>2, ReadRefines, BulkRefines, AckRefines DEF ProcessIndexBatch, JobLedger!Next
  <1>3. CASE Crash
    <2>1. UNCHANGED <<jobs, jobLast, jobAcked, docs>> BY <1>3 DEF Crash, LoseIndexers, jobVars
    <2>2. \A x \in Indexers : JobBatch(x)' = {} BY <1>3 DEF Crash, LoseIndexers, JobBatch
    <2> QED BY <2>1, <2>2, GivesUp DEF JobLedger!Next
  <1>4. CASE Restart BY <1>4, RestartRefines DEF JobLedger!Next
  <1>5. CASE FlushAll \/ UNCHANGED searchVars
    <2>1. UNCHANGED <<jobs, jobLast, jobAcked, docs, ifrom, ito>>
      BY <1>5 DEF FlushAll, FlushJobs, searchVars, indexVars, jobVars, indexerVars
    <2> QED BY <2>1, GivesUp DEF JobLedger!Next, JobBatch
  <1> QED BY <1>1, <1>2, <1>3, <1>4, <1>5 DEF Next

LEMMA RefinesInit == Init => JobLedger!Init
  <1> SUFFICES ASSUME Init PROVE JobLedger!Init OBVIOUS
  <1>1. jobs = <<>> BY DEF Init
  <1>2. \A j \in JobEntries : JobStatusOf(j) = "absent" /\ ~Found(j)
    <2>1. IndexInv BY IndexInvInit
    <2> QED BY <1>1, <2>1, JobStatuses, JobsAreNumbers DEF JobStatusIs, Found
  <1> QED BY <1>2 DEF JobLedger!Init

\* The index queue implements the delivery ledger for any events, indexers and
\* faults: a job is handed out at most once and in order, is acknowledged only
\* when its event is found, and is never taken up again.
THEOREM IndexQueueImplementsLedger == Spec => JobLedgerSpec
  <1>1. IndexInv /\ IndexInv' /\ [Next]_searchVars => [JobLedger!Next]_(JobLedger!vars)
    BY RefinesStep
  <1> QED BY <1>1, RefinesInit, IndexInvariance, PTL DEF Spec, JobLedgerSpec, JobLedger!Spec

=============================================================================
