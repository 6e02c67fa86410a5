--------------------------- MODULE EventPipeline ---------------------------
(***************************************************************************)
(* The write path of the analytics backend: POST /event appends an event   *)
(* to the Redis stream "events"; aggregator workers read batches of it     *)
(* through one consumer group and carry each batch through PostgreSQL,     *)
(* ClickHouse, the recent feed, Pub/Sub and the search queue before they   *)
(* acknowledge it.  One action is one call to a store, so two workers, a   *)
(* failing call and a crash can meet between any two calls of a batch.     *)
(*                                                                         *)
(* A call has three outcomes: it succeeds; it fails without effect         *)
(* (FailCall); or its effect is applied and the reply is lost, which the   *)
(* worker cannot tell from the second (the last disjunct of the call's own *)
(* action).  Faults names the outcomes and events a run allows.            *)
(***************************************************************************)
EXTENDS Integers, Sequences, FiniteSets

CONSTANTS
    Events,       \* Snowflake ids: a larger id was generated later
    Workers,      \* the aggregator goroutines worker-1 .. worker-4
    BatchSize,    \* XREADGROUP COUNT
    FeedCap,      \* entries the recent feed keeps
    MaxEntries,   \* bound: entries ever added to the stream
    KeyOf,        \* event -> its (action, element, window) group
    Unencodable,  \* events json.Marshal rejects (a duration that is no number)
    Faults        \* which of FaultKinds a run allows

FaultKinds == {"ingest", "read", "postgres", "clickhouse", "redis", "crash", "flush"}

ASSUME EventsAssumption     == Events \subseteq Nat
ASSUME BoundsAssumption     == BatchSize \in Nat \ {0} /\ FeedCap \in Nat \ {0} /\ MaxEntries \in Nat
ASSUME UnencodableAssumption == Unencodable \subseteq Events
ASSUME FaultsAssumption     == Faults \subseteq FaultKinds

VARIABLES
    request,     \* event -> how POST /event answered it, or "again" on the way
    stream,      \* every entry XADDed to "events", oldest first
    group,       \* does the consumer group exist?
    last,        \* the group's last delivered entry
    pel,         \* its pending entries: delivered, not acknowledged
    acked,       \* history: entries an XACK removed from pel
    pc,          \* worker -> the call of processAggregatedBatch it makes next
    from, to,    \* worker -> its batch is the entries from[w] .. to[w]
    next,        \* worker -> the entry the feed loop is at
    rows,        \* worker -> the insertion that created its aggregated rows
    insertions,  \* how many inserts into aggregated_events were committed
    aggRows,     \* PostgreSQL aggregated_events
    userMaps,    \* PostgreSQL user_event_maps
    pg,          \* PostgreSQL events: the ids present (primary key)
    click,       \* entry -> its rows in ClickHouse events
    feed,        \* Redis sorted set events:recent
    pushed,      \* history: events ZADDed since the feed was last deleted
    published,   \* history: events published on events:stream
    jobs,        \* every entry XADDed to "events:index"
    up           \* is the server process running?

groupVars  == <<group, last, pel, acked>>
workerVars == <<pc, from, to, next, rows>>
aggVars    == <<insertions, aggRows>>
feedVars   == <<feed, pushed>>
vars == <<request, stream, groupVars, workerVars, aggVars, userMaps, pg, click,
          feedVars, published, jobs, up>>

-----------------------------------------------------------------------------

Entries   == 1 .. MaxEntries
Keys      == {KeyOf[e] : e \in Events}
Answers   == {"none", "again", "accepted", "error"}
Steps     == {"idle", "aggregate", "raw", "click", "maps", "feed", "publish", "enqueue", "ack"}
Batch(w)  == from[w] .. to[w]
Event(i)  == stream[i]
Delivered == 1 .. last

\* Group the entries of w's batch by (Action, Element, Window).
BatchKeys(w)    == {KeyOf[Event(i)] : i \in Batch(w)}
Grouped(w, k)   == {i \in Batch(w) : KeyOf[Event(i)] = k}
RowId(n, k)     == [insertion |-> n, key |-> k]
NewRows(w, n)   == {[id |-> RowId(n, k), entries |-> Grouped(w, k)] : k \in BatchKeys(w)}
NewUserMaps(w)  == {[row |-> RowId(rows[w], KeyOf[Event(i)]), entry |-> i] : i \in Batch(w)}

\* ZREMRANGEBYRANK 0 -(FeedCap+1): what is left after trimming to the newest.
Newest(S) == {e \in S : Cardinality({f \in S : f > e}) < FeedCap}

-----------------------------------------------------------------------------

Init ==
    /\ request = [e \in Events |-> "none"]
    /\ stream = <<>>
    /\ group = TRUE /\ last = 0 /\ pel = {} /\ acked = {}
    /\ pc = [w \in Workers |-> "idle"]
    /\ from = [w \in Workers |-> 1] /\ to = [w \in Workers |-> 0]
    /\ next = [w \in Workers |-> 1] /\ rows = [w \in Workers |-> 0]
    /\ insertions = 0 /\ aggRows = {} /\ userMaps = {}
    /\ pg = {} /\ click = [i \in Entries |-> 0]
    /\ feed = {} /\ pushed = {} /\ published = {} /\ jobs = <<>>
    /\ up = TRUE

-----------------------------------------------------------------------------
(* POST /event.                                                            *)

XAdd(e) ==
    /\ Len(stream) < MaxEntries
    /\ stream' = Append(stream, e)

\* XADD was applied and its reply lost: the client library sends it again, after what
\* the other requests add meanwhile (MaxRetries: 3; one repetition is modelled).
Resend(e) ==
    /\ "ingest" \in Faults
    /\ up /\ request[e] = "none"
    /\ request' = [request EXCEPT ![e] = "again"]
    /\ XAdd(e)
    /\ UNCHANGED <<groupVars, workerVars, aggVars, userMaps, pg, click, feedVars,
                   published, jobs, up>>

\* XADD succeeded, at once or when it was sent again.
Accept(e) ==
    /\ up /\ request[e] \in {"none", "again"}
    /\ request' = [request EXCEPT ![e] = "accepted"]
    /\ XAdd(e)
    /\ UNCHANGED <<groupVars, workerVars, aggVars, userMaps, pg, click, feedVars,
                   published, jobs, up>>

\* XADD failed or ran into the 5 second timeout: the client is told 500,
\* whether or not Redis applied it.
Reject(e) ==
    /\ "ingest" \in Faults
    /\ up /\ request[e] \in {"none", "again"}
    /\ request' = [request EXCEPT ![e] = "error"]
    /\ XAdd(e) \/ UNCHANGED stream
    /\ UNCHANGED <<groupVars, workerVars, aggVars, userMaps, pg, click, feedVars,
                   published, jobs, up>>

PostEvent(e) == Resend(e) \/ Accept(e) \/ Reject(e)

-----------------------------------------------------------------------------
(* processAggregatedBatch, one call at a time.                             *)

Abandon(w) ==
    /\ pc' = [pc EXCEPT ![w] = "idle"]
    /\ from' = [from EXCEPT ![w] = 1] /\ to' = [to EXCEPT ![w] = 0]
    /\ next' = [next EXCEPT ![w] = 1] /\ rows' = [rows EXCEPT ![w] = 0]

GoTo(w, step) ==
    /\ pc' = [pc EXCEPT ![w] = step]
    /\ UNCHANGED <<from, to, next, rows>>

\* Mutant: the group's position moves by COUNT, not by what was read.
ReadMovesByCount(w) ==
    /\ up /\ group /\ pc[w] = "idle" /\ last < Len(stream)
    /\ last' = last + BatchSize
    /\ UNCHANGED <<request, stream, group, pel, acked, workerVars, aggVars, userMaps, pg, click,
                   feedVars, published, jobs, up>>

\* Mutant: an idle worker also reads the group's pending entries again.
ReadTakesPending(w) ==
    /\ up /\ group /\ pc[w] = "idle" /\ last < Len(stream)
    /\ last' = last + 1
    /\ pel' = pel \cup {last + 1}
    /\ pc' = [pc EXCEPT ![w] = "aggregate"]
    /\ from' = [from EXCEPT ![w] = IF pel = {} THEN last + 1 ELSE CHOOSE i \in pel : \A j \in pel : i <= j]
    /\ to' = [to EXCEPT ![w] = last + 1]
    /\ next' = [next EXCEPT ![w] = from'[w]]
    /\ UNCHANGED <<request, stream, group, acked, rows, aggVars, userMaps, pg, click, feedVars,
                   published, jobs, up>>

\* XREADGROUP ">": only entries the group never delivered to anyone.
ReadFromGroup(w) ==
    /\ up /\ group /\ pc[w] = "idle" /\ last < Len(stream)
    /\ \E upTo \in last + 1 .. Len(stream) :
          /\ upTo = (IF last + BatchSize < Len(stream) THEN last + BatchSize ELSE Len(stream))
          /\ last' = upTo
          /\ pel' = pel \cup (last + 1 .. upTo)
          /\ \/ /\ pc' = [pc EXCEPT ![w] = "aggregate"]
                /\ from' = [from EXCEPT ![w] = last + 1] /\ to' = [to EXCEPT ![w] = upTo]
                /\ next' = [next EXCEPT ![w] = last + 1]
                /\ UNCHANGED rows
             \/ "read" \in Faults /\ UNCHANGED workerVars   \* the reply was lost
    /\ UNCHANGED <<request, stream, group, acked, aggVars, userMaps, pg, click, feedVars,
                   published, jobs, up>>

\* Mutant: a lost reply makes the worker insert its aggregated rows again.
AggregatesRetried(w) ==
    /\ pc[w] = "aggregate"
    /\ insertions < MaxEntries
    /\ insertions' = insertions + 1
    /\ aggRows' = aggRows \cup NewRows(w, insertions + 1)
    /\ \/ /\ pc' = [pc EXCEPT ![w] = "raw"]
          /\ rows' = [rows EXCEPT ![w] = insertions + 1]
       \/ "postgres" \in Faults /\ UNCHANGED <<pc, rows>>
    /\ UNCHANGED <<from, to, next, request, stream, groupVars, userMaps, pg, click, feedVars,
                   published, jobs, up>>

BatchCreateAggregatedEvents(w) ==
    /\ pc[w] = "aggregate"
    /\ insertions' = insertions + 1
    /\ aggRows' = aggRows \cup NewRows(w, insertions + 1)
    /\ \/ /\ pc' = [pc EXCEPT ![w] = "raw"]
          /\ rows' = [rows EXCEPT ![w] = insertions + 1]
          /\ UNCHANGED <<from, to, next>>
       \/ "postgres" \in Faults /\ Abandon(w)
    /\ UNCHANGED <<request, stream, groupVars, userMaps, pg, click, feedVars,
                   published, jobs, up>>

\* Mutant: duplicate ids are let through (ON CONFLICT DO NOTHING).
NoConflict(w) == FALSE

\* One transaction: an id that is already there, or twice in the batch,
\* violates the primary key and nothing of the batch is stored.
Conflict(w) ==
    \E i \in Batch(w) : Event(i) \in pg \/ \E j \in Batch(w) : j # i /\ Event(j) = Event(i)

BatchAddToDatabase(w) ==
    /\ pc[w] = "raw"
    /\ \/ /\ Conflict(w)
          /\ Abandon(w)
          /\ UNCHANGED pg
       \/ /\ ~Conflict(w)
          /\ pg' = pg \cup {Event(i) : i \in Batch(w)}
          /\ GoTo(w, "click") \/ ("postgres" \in Faults /\ Abandon(w))
    /\ UNCHANGED <<request, stream, groupVars, aggVars, userMaps, click, feedVars,
                   published, jobs, up>>

\* MergeTree keeps every row it is sent: no key, no deduplication.
BatchInsertToClickHouse(w) ==
    /\ pc[w] = "click"
    /\ click' = [i \in Entries |-> click[i] + (IF i \in Batch(w) THEN 1 ELSE 0)]
    /\ GoTo(w, "maps") \/ ("clickhouse" \in Faults /\ Abandon(w))
    /\ UNCHANGED <<request, stream, groupVars, aggVars, userMaps, pg, feedVars,
                   published, jobs, up>>

\* Mutant: the maps are not one transaction, a failure leaves some of them.
MapsOneByOne(w) ==
    /\ pc[w] = "maps"
    /\ \/ userMaps' = userMaps \cup NewUserMaps(w) /\ GoTo(w, "feed")
       \/ /\ "postgres" \in Faults /\ Abandon(w)
          /\ \E M \in SUBSET NewUserMaps(w) : userMaps' = userMaps \cup M
    /\ UNCHANGED <<request, stream, groupVars, aggVars, pg, click, feedVars,
                   published, jobs, up>>

BatchCreateUserEventMaps(w) ==
    /\ pc[w] = "maps"
    /\ userMaps' = userMaps \cup NewUserMaps(w)
    /\ GoTo(w, "feed") \/ ("postgres" \in Faults /\ Abandon(w))
    /\ UNCHANGED <<request, stream, groupVars, aggVars, pg, click, feedVars,
                   published, jobs, up>>

\* The feed loop goes on to the next event, or leaves after the last one.
NextEvent(w) ==
    /\ next' = [next EXCEPT ![w] = @ + 1]
    /\ pc' = [pc EXCEPT ![w] = IF next[w] = to[w] THEN "enqueue" ELSE "feed"]
    /\ UNCHANGED <<from, to, rows>>

\* Mutant: an event that cannot be encoded fails the batch.
SkipFails(w) ==
    /\ pc[w] = "feed" /\ Event(next[w]) \in Unencodable
    /\ Abandon(w)
    /\ UNCHANGED <<request, stream, groupVars, aggVars, userMaps, pg, click, feedVars,
                   published, jobs, up>>

\* An event json.Marshal rejects is neither pushed nor published, and no
\* error is returned for it.
SkipEvent(w) ==
    /\ pc[w] = "feed" /\ Event(next[w]) \in Unencodable
    /\ NextEvent(w)
    /\ UNCHANGED <<request, stream, groupVars, aggVars, userMaps, pg, click, feedVars,
                   published, jobs, up>>

\* Mutant: the feed keeps what was pushed last (LPUSH, LTRIM), not what is newest.
PushKeepsLatest(w) ==
    /\ pc[w] = "feed" /\ Event(next[w]) \notin Unencodable
    /\ pushed' = pushed \cup {Event(next[w])}
    /\ feed' = {Event(next[w])}
    /\ GoTo(w, "publish")
    /\ UNCHANGED <<request, stream, groupVars, aggVars, userMaps, pg, click,
                   published, jobs, up>>

\* ZADD and ZREMRANGEBYRANK in one pipeline that is no transaction: on an
\* error the trim may not have run.
PushToRecentFeed(w) ==
    /\ pc[w] = "feed" /\ Event(next[w]) \notin Unencodable
    /\ pushed' = pushed \cup {Event(next[w])}
    /\ \/ /\ feed' = Newest(feed \cup {Event(next[w])})
          /\ GoTo(w, "publish")
       \/ /\ "redis" \in Faults
          /\ feed' \in {feed \cup {Event(next[w])}, Newest(feed \cup {Event(next[w])})}
          /\ Abandon(w)
    /\ UNCHANGED <<request, stream, groupVars, aggVars, userMaps, pg, click,
                   published, jobs, up>>

\* Mutant: a failed publish starts over with the push, for as long as it fails.
PublishRetried(w) ==
    /\ pc[w] = "publish"
    /\ \/ published' = published \cup {Event(next[w])} /\ NextEvent(w)
       \/ "redis" \in Faults /\ GoTo(w, "feed") /\ UNCHANGED published
    /\ UNCHANGED <<request, stream, groupVars, aggVars, userMaps, pg, click, feedVars,
                   jobs, up>>

PublishEvent(w) ==
    /\ pc[w] = "publish"
    /\ published' = published \cup {Event(next[w])}
    /\ NextEvent(w) \/ ("redis" \in Faults /\ Abandon(w))
    /\ UNCHANGED <<request, stream, groupVars, aggVars, userMaps, pg, click, feedVars,
                   jobs, up>>

\* Mutant: the last event of a batch is left out of the pipeline.
EnqueueMissesLast(w) ==
    /\ pc[w] = "enqueue"
    /\ jobs' = jobs \o SubSeq(stream, from[w], to[w] - 1)
    /\ GoTo(w, "ack")
    /\ UNCHANGED <<request, stream, groupVars, aggVars, userMaps, pg, click, feedVars,
                   published, up>>

\* A pipeline of XADDs; its error is logged and the batch goes on to its ack,
\* so with "redis" any prefix may be all that is ever queued.
EnqueueEventsForIndexing(w) ==
    /\ pc[w] = "enqueue"
    /\ \E n \in from[w] - 1 .. to[w] :
          /\ n = to[w] \/ "redis" \in Faults
          /\ jobs' = jobs \o SubSeq(stream, from[w], n)
    /\ GoTo(w, "ack")
    /\ UNCHANGED <<request, stream, groupVars, aggVars, userMaps, pg, click, feedVars,
                   published, up>>

\* XACK of the whole batch; whatever its reply, the worker is done with it.
AckMessage(w) ==
    /\ pc[w] = "ack"
    /\ pel' = pel \ Batch(w)
    /\ acked' = acked \cup (pel \cap Batch(w))
    /\ Abandon(w)
    /\ UNCHANGED <<request, stream, group, last, aggVars, userMaps, pg, click, feedVars,
                   published, jobs, up>>

StoreOf(step) ==
    CASE step \in {"aggregate", "raw", "maps"} -> "postgres"
      [] step = "click" -> "clickhouse"
      [] OTHER -> "redis"

\* Mutants: the error of one insert is logged but not returned.
ClickHouseErrorIgnored(w) ==
    /\ pc[w] = "click" /\ "clickhouse" \in Faults
    /\ GoTo(w, "maps")
    /\ UNCHANGED <<request, stream, groupVars, aggVars, userMaps, pg, click, feedVars,
                   published, jobs, up>>

RawErrorIgnored(w) ==
    /\ pc[w] = "raw" /\ "postgres" \in Faults
    /\ GoTo(w, "click")
    /\ UNCHANGED <<request, stream, groupVars, aggVars, userMaps, pg, click, feedVars,
                   published, jobs, up>>

\* Mutant: the error of the user maps' insert is logged but not returned.
MapsErrorIgnored(w) ==
    /\ pc[w] = "maps" /\ "postgres" \in Faults
    /\ GoTo(w, "feed")
    /\ UNCHANGED <<request, stream, groupVars, aggVars, userMaps, pg, click, feedVars,
                   published, jobs, up>>

\* A call failed without effect: the error is returned, the batch forgotten.
FailCall(w) ==
    /\ pc[w] \notin {"idle", "enqueue"}
    /\ pc[w] = "feed" => Event(next[w]) \notin Unencodable
    /\ StoreOf(pc[w]) \in Faults
    /\ Abandon(w)
    /\ UNCHANGED <<request, stream, groupVars, aggVars, userMaps, pg, click, feedVars,
                   published, jobs, up>>

-----------------------------------------------------------------------------
(* The process and the operator.                                           *)

\* The process ends, killed or by SIGTERM: main waits for the HTTP server
\* only, so batches in flight are lost; so are requests, which end in an error.
Crash ==
    /\ "crash" \in Faults /\ up
    /\ up' = FALSE
    /\ request' = [e \in Events |-> IF request[e] = "again" THEN "error" ELSE request[e]]
    /\ pc' = [w \in Workers |-> "idle"]
    /\ from' = [w \in Workers |-> 1] /\ to' = [w \in Workers |-> 0]
    /\ next' = [w \in Workers |-> 1] /\ rows' = [w \in Workers |-> 0]
    /\ UNCHANGED <<stream, groupVars, aggVars, userMaps, pg, click, feedVars, published, jobs>>

\* Mutant: a new group starts at "0", before entries the old one delivered.
GroupAtZero ==
    /\ group' = TRUE
    /\ last' = IF group THEN last ELSE 0
    /\ UNCHANGED <<pel, acked>>

\* XGROUP CREATE ... "$": a group created now starts after the newest entry;
\* one that exists (BUSYGROUP) keeps its place.
EnsureConsumerGroup ==
    /\ group' = TRUE
    /\ last' = IF group THEN last ELSE Len(stream)
    /\ UNCHANGED <<pel, acked>>

Restart ==
    /\ ~up
    /\ up' = TRUE
    /\ EnsureConsumerGroup
    /\ UNCHANGED <<request, stream, workerVars, aggVars, userMaps, pg, click, feedVars,
                   published, jobs>>

\* cmd/flush_all: FLUSHDB takes the stream, its group and the feed.
FlushAll ==
    /\ "flush" \in Faults
    /\ group' = FALSE /\ pel' = {}
    /\ feed' = {} /\ pushed' = {}
    /\ UNCHANGED <<request, stream, last, acked, workerVars, aggVars, userMaps, pg, click,
                   published, jobs, up>>

-----------------------------------------------------------------------------

\* One iteration step of StartAggregatorWorker's loop.
ProcessBatch(w) ==
    \/ BatchCreateAggregatedEvents(w)
    \/ BatchAddToDatabase(w)
    \/ BatchInsertToClickHouse(w)
    \/ BatchCreateUserEventMaps(w)
    \/ SkipEvent(w)
    \/ PushToRecentFeed(w)
    \/ PublishEvent(w)
    \/ EnqueueEventsForIndexing(w)
    \/ AckMessage(w)
    \/ FailCall(w)

Next ==
    \/ \E e \in Events : PostEvent(e)
    \/ \E w \in Workers : ReadFromGroup(w) \/ ProcessBatch(w)
    \/ Crash
    \/ Restart
    \/ FlushAll

Spec == Init /\ [][Next]_vars

\* Every worker is a goroutine that keeps running while the process does: a
\* call it makes returns, and it reads again after every batch.
Fairness == \A w \in Workers : WF_vars(ReadFromGroup(w) \/ ProcessBatch(w))

FairSpec == Spec /\ Fairness

-----------------------------------------------------------------------------
(* Properties.                                                             *)

Row      == [id : [insertion : Nat, key : Keys], entries : SUBSET Entries]
UserMap  == [row : [insertion : Nat, key : Keys], entry : Entries]

QueueTypeOK ==
    /\ request \in [Events -> Answers]
    /\ stream \in Seq(Events) /\ Len(stream) <= MaxEntries
    /\ group \in BOOLEAN /\ last \in 0 .. Len(stream)
    /\ pel \subseteq Delivered /\ acked \subseteq Delivered
    /\ jobs \in Seq(Events)
    /\ up \in BOOLEAN

WorkerTypeOK ==
    /\ pc \in [Workers -> Steps]
    /\ from \in [Workers -> Nat \ {0}] /\ to \in [Workers -> 0 .. Len(stream)]
    /\ next \in [Workers -> Nat \ {0}] /\ rows \in [Workers -> Nat]

StoreTypeOK ==
    /\ insertions \in Nat
    /\ aggRows \in SUBSET Row /\ userMaps \in SUBSET UserMap
    /\ pg \in SUBSET Events /\ click \in [Entries -> Nat]
    /\ feed \in SUBSET Events /\ pushed \in SUBSET Events /\ published \in SUBSET Events

\* The variables have their types, and positions lie inside the stream.
TypeOK == QueueTypeOK /\ WorkerTypeOK /\ StoreTypeOK

\* Entry i reached every store: its event in PostgreSQL, one row in
\* ClickHouse, and a user map of the aggregated row that counts it.
Stored(i) ==
    /\ Event(i) \in pg
    /\ click[i] = 1
    /\ \E r \in aggRows : i \in r.entries /\ [row |-> r.id, entry |-> i] \in userMaps

StoredEvent(e) == \E i \in Delivered : Event(i) = e /\ Stored(i)

\* Persistence first: what a reader sees in the recent feed, receives as an
\* SSE message or will find by search is already in every store, whichever
\* worker crashed, failed or lost a reply on the way.
PersistenceFirst ==
    /\ \A e \in feed \cup published : StoredEvent(e)
    /\ \A j \in 1 .. Len(jobs) : StoredEvent(jobs[j])

\* An entry leaves the pending list by XACK only when all its stores have it:
\* no batch is acknowledged after a failed call (aggregator_test.go:221).
AckedIsStored == \A i \in acked : Stored(i)

\* No two workers hold a common entry, and none holds one that has been
\* acknowledged: the batches of the group are exclusive.
BatchesExclusive ==
    /\ \A v, w \in Workers : v # w => Batch(v) \cap Batch(w) = {}
    /\ \A w \in Workers : Batch(w) \subseteq Delivered /\ Batch(w) \cap acked = {}

\* ClickHouse has no key, yet an event is in it at most once, and only if it
\* is in PostgreSQL: the primary key stops a duplicate XADD before the insert.
ClickHouseOnce ==
    \A i \in Entries : click[i] > 0 =>
        /\ i \in Delivered /\ click[i] = 1 /\ Event(i) \in pg
        /\ \A j \in Delivered \ {i} : Event(j) = Event(i) => click[j] = 0

\* An entry is counted by at most one aggregated row.
CountedOnce ==
    \A r, s \in aggRows : r # s => r.entries \cap s.entries = {}

\* The calls after BatchAddToDatabase, and those after BatchCreateUserEventMaps.
PastRaw  == {"click", "maps", "feed", "publish", "enqueue", "ack"}
PastMaps == {"feed", "publish", "enqueue", "ack"}

Mapped(r) == {m.entry : m \in {m \in userMaps : m.row = r.id}}

\* Entry i is acknowledged, or its worker is past the insert of its user maps.
PastItsMaps(i) == i \in acked \/ \E w \in Workers : pc[w] \in PastMaps /\ i \in Batch(w)

\* A row's count and GetUserEvents' join, which goes through the user maps, agree: the
\* maps name a row that exists and are written all or none.  A row that counts and has
\* none is left by a batch that failed in between, or is still on its way: no entry of
\* it is acknowledged, and none gets as far as the feed, the stream or the index queue.
UserMapsMatchCounts ==
    /\ \A m \in userMaps : \E r \in aggRows : r.id = m.row /\ m.entry \in r.entries
    /\ \A r \in aggRows :
          \/ Mapped(r) = r.entries
          \/ Mapped(r) = {} /\ \A i \in r.entries : ~PastItsMaps(i)

\* GetRecentFeed (the FeedCap newest of the sorted set) serves the newest of
\* all events ever pushed, in whatever order the workers push and trim.
FeedIsNewest == Newest(feed) = Newest(pushed)

\* Liveness: without faults, every accepted event is eventually in every
\* store, acknowledged and queued for the search index.
Settled(e) ==
    \E i \in Delivered : /\ Event(i) = e
                         /\ i \in acked /\ Stored(i)
                         /\ \E j \in 1 .. Len(jobs) : jobs[j] = e

AcceptedIsSettled == \A e \in Events : request[e] = "accepted" ~> Settled(e)

\* Liveness: whatever fails, no worker is stuck with a batch for ever.
BatchesEnd == \A w \in Workers : pc[w] # "idle" ~> pc[w] = "idle"

\* README.md:43: "Raw events are written to PostgreSQL and ClickHouse": an
\* event that was answered 202 reaches every store in the end.
AcceptedReachesStores == \A e \in Events : request[e] = "accepted" ~> StoredEvent(e)

-----------------------------------------------------------------------------
(* The inductive invariant behind the safety properties: what each worker's *)
(* step says about its batch.                                               *)

\* An idle worker holds the empty batch, any other a non-empty delivered one,
\* and the feed loop starts and stays inside it.
BatchShape == \A w \in Workers :
    /\ pc[w] = "idle" => from[w] = 1 /\ to[w] = 0
    /\ pc[w] # "idle" => from[w] <= to[w] /\ to[w] <= last
    /\ pc[w] \notin {"idle", "enqueue", "ack"} => next[w] \in Batch(w)

\* Entry i has a ClickHouse row, or its worker is about to send it.
Entered(i) == click[i] > 0 \/ \E w \in Workers : pc[w] = "click" /\ i \in Batch(w)

\* One entry per event enters ClickHouse, after its event is in PostgreSQL.
EnteredOnce ==
    /\ \A i \in Entries : click[i] > 0 => i \in Delivered /\ click[i] = 1
    /\ \A i \in Delivered : Entered(i) => Event(i) \in pg
    /\ \A i, j \in Delivered : Entered(i) /\ Entered(j) /\ Event(i) = Event(j) => i = j

\* What worker w has written for its batch so far, step by step.
Written(w) == \A i \in Batch(w) :
    /\ pc[w] \in {"aggregate", "raw", "click"} => click[i] = 0
    /\ pc[w] = "aggregate" => \A r \in aggRows : i \notin r.entries
    /\ pc[w] \in {"raw", "click", "maps"} =>
          \E r \in aggRows : r.id = RowId(rows[w], KeyOf[Event(i)]) /\ i \in r.entries
    /\ pc[w] \in PastRaw => Event(i) \in pg
    /\ pc[w] = "maps" => click[i] = 1
    /\ pc[w] \in PastMaps => Stored(i)

\* Aggregated rows count delivered entries, each at most once.
RowsSound ==
    /\ \A r \in aggRows : r.entries \subseteq Delivered
    /\ CountedOnce

IndInv ==
    /\ TypeOK
    /\ BatchShape
    /\ BatchesExclusive
    /\ EnteredOnce
    /\ RowsSound
    /\ \A w \in Workers : Written(w)
    /\ AckedIsStored
    /\ PersistenceFirst

-----------------------------------------------------------------------------
(* The abstract ledger this pipeline implements.                           *)

Held(i) == \E w \in Workers : i \in Batch(w)

StatusOf(i) ==
    CASE i > Len(stream) -> "absent"
      [] i <= Len(stream) /\ i > last -> "queued"
      [] i <= last /\ Held(i) -> "held"
      [] i <= last /\ ~Held(i) /\ i \in acked -> "done"
      [] OTHER -> "lost"

Ledger == INSTANCE DeliveryLedger WITH
    status <- [i \in Entries |-> StatusOf(i)],
    stored <- {i \in Delivered : Stored(i)}

\* Every behaviour of the pipeline, with any faults, is one of the ledger: an
\* entry is delivered at most once, in order, and is never taken up again.
LedgerSpec == Ledger!Spec
=============================================================================
