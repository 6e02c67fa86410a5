# Formal model of the analytics backend and its dashboard

TLA+ modules for the event pipeline and the frontend of this repository, TLC
configurations that check them on small instances, and TLAPS proofs of the
properties that matter most. Paths below are relative to `src/`.

## 1. The system

    client -- POST /event --> handlers/event.go -- XADD --> stream "events"
                                                               |  group "event-group", 4 workers
                                                               v
          worker/aggregator.go: PostgreSQL aggregated_events -> PostgreSQL events -> ClickHouse events
                                -> PostgreSQL user_event_maps -> feed + Pub/Sub per event
                                -> stream "events:index" -> XACK
                                                               |  group "event-indexers", 2 workers
                                                               v
          worker/indexer.go:    Elasticsearch _bulk -> XACK
    readers: /events/recent (feed), /events/stream (SSE), /search/events (Elasticsearch),
             /analytics/* (ClickHouse, PostgreSQL)
                                                               |
          frontend (Next.js):   dashboard page, search palette, preferences, sidebar, tables, forms, charts

| component | state | operations | talks to |
|---|---|---|---|
| ingestion `handlers/event.go` | none | `GetEvent`: bind, give a Snowflake id, XADD with a 5 s timeout, answer 202 or 500 | Redis |
| event stream `database/stream.go` | entries, group position, pending list | `AddToStream`, `EnsureConsumerGroup` ("$"), `ReadFromGroup` (">", 1000), `AckMessage` | Redis |
| aggregators `worker/aggregator.go` | the batch in hand | `processAggregatedBatch`, for ever; 1 s pause after an error | all stores |
| PostgreSQL `database/postgres.go` | `events` (primary key), `aggregated_events`, `user_event_maps` | one transaction per batch insert | aggregators, analytics, backfill |
| ClickHouse `database/clickhouse.go` | `events`, MergeTree without key | batch insert, aggregate query | aggregators, analytics |
| recent feed `database/redis.go` | sorted set `events:recent`, 50 newest | ZADD + trim in a pipeline, conversion of an old list, ZREVRANGE | aggregators, feed handler, `cmd/flush` |
| search queue and indexers `database/index_queue.go`, `worker/indexer.go` | stream `events:index`, its group | `processIndexBatch`, for ever | Redis, Elasticsearch |
| Elasticsearch client `database/elasticsearch.go` | index documents | `_bulk`, `_search`, cursors | indexers, search handler, backfill |
| backfill `cmd/backfill_search` | a page cursor | pages through `events`, bulk request per page | PostgreSQL, Elasticsearch |
| analytics `handlers/analytics.go` | none | sequential loop; chunks, goroutines, channel | PostgreSQL |
| process `main.go` | up or down | connect, ensure groups, start workers, shut down the HTTP server | - |
| SSE `handlers/sse.go` | one connection | subscribe, write messages until the 10 s WriteTimeout | Redis, dashboard |
| dashboard page `frontend/.../dashboard/default` | feed, table, cards, filters in the URL, search response | snapshots, stream, polls, refresh, debounced search, load more | HTTP API, SSE |
| search palette `.../sidebar/search-dialog.tsx` | open, query, results | debounced, aborted search; navigation | HTTP API, router |
| preferences `lib/preferences`, `stores`, `scripts/theme-boot.tsx` | document attributes, store, cookies | boot, hydrate, choose, restore, follow the system's scheme | browser |
| sidebar `components/ui/sidebar.tsx`, `nav-main.tsx` | open, isMobile, listener, cookie, submenus | toggle, shortcut, resize, navigate | preferences |
| tables `hooks/use-data-table-instance.ts`, `components/data-table` | order, sorting, page, selection, visibility | header menus, pagination, view options, dragging | - |
| forms `auth/_components`, `ui/form.tsx` | values, errors | edit, submit | - |
| charts `ui/chart.tsx` and the cards | configuration, answer, active point | style sheet, tooltip, bars | analytics |

What is hard here. Backend: four workers and two indexers read shared groups; a
batch touches four stores without a common transaction and any call may fail, or
succeed and lose its reply; the Redis client sends commands again; nothing reads
pending entries again, so a failure loses a batch; shutdown does not wait for
the workers; an operator may flush Redis under a running server. Frontend: answers
arrive in any order, some requests are aborted half way and others cannot be;
listeners and timers belong to an older render; tabs share cookies, and what an
earlier version left there; lists are paged, sorted and dragged by position.

What makes each part correct: batches are exclusive and counted once
(aggregators); readers see only what is persisted (feed, SSE, search);
acknowledgement follows storage (both groups); the feed keeps the newest in any order of
pushes; the backfill misses only what its order must miss; the parallel analytics answer is
the sequential one and comes; what the page shows belongs to the filters or query
it shows, or one of the named causes explains why not, what it was told of stays until it must go, and loading ends; document,
store and controls agree.

## 2. Modules

| module | models | state and actions |
|---|---|---|
| `EventPipeline` | ingestion, stream, aggregators, stores, process | one action per call of `processAggregatedBatch`; `pc[w]` is the next call, `from[w] .. to[w]` the batch |
| `DeliveryLedger` | abstract: what a queue with one reader group promises | entries are absent, queued, held, done or lost |
| `SearchIndexer` | index queue and indexers | one action per call of `processIndexBatch` |
| `EndToEnd` | composition of the two in one process | joint crash, restart and FLUSHDB; `jobs` and `up` are shared |
| `RecentFeed` | the sorted set, command by command | ZADD, trim, DEL and `cmd/flush` of several pushers |
| `SearchBackfill` | `cmd/backfill_search` | pages, concurrent inserts, failures, reruns |
| `MapReduce` | `handlers/analytics.go` | chunks, goroutines, wait group, channel |
| `LiveDashboard` | default view of `page.tsx` | the server's stores and PUBLISH event by event, snapshots, stream messages, breaks, polls, refreshes; a call is asked, answered or failed before it is received |
| `EventSearch` | search view of `page.tsx` | URL, debounce timer, abortable search of the effect, unaborted searches of the buttons, pages |
| `SearchDialog` | `search-dialog.tsx` | open, type, timer, fetch, abort, choose |
| `Preferences` | boot script, store, provider, controls, cookies | several tabs over the same cookies and one color scheme |
| `Sidebar` | `sidebar.tsx`, `use-mobile.ts`, `nav-main.tsx` | width events, renders, effects, toggles, navigation |
| `AppShell` | composition: `app-sidebar.tsx` draws the sidebar from the store | joint reload |
| `DataTable` | the table hook and its controls | sort, page, resize, select, hide, drag |
| `AuthForms` | both forms and `form.tsx` | edit, submit, validate |
| `Charts` | `chart.tsx` and its users | hover, new answers, another chart |
| `SetLemmas` | finite sets of numbers: newest, least, places in an order, sums | lemmas that the proofs share |
| `EventPipelineProofs`, `SearchIndexerProofs`, `EndToEndProofs`, `ReadersProofs`, `DashboardProofs`, `ShellProofs`, `WidgetProofs` | the proofs, by the run that checks the same properties | |
| `MC*` | constant values for TLC, and the choice of the part that moves | |

**Write path** (`EventPipeline`). An entry of the stream is its position, 1, 2, ...; the group's state is `last`
(everything up to it was delivered) and `pel`. `ReadFromGroup` is XREADGROUP ">" and
delivers the next `BatchSize` entries. The calls that follow have the names and the
order of `aggregator.go:163-211`. A call has three outcomes: success; failure without
effect (`FailCall`); effect without reply, which the worker takes for a failure. Every
error but the index queue's makes the worker forget the batch (`Abandon`), as the early
returns do. `Conflict` is PostgreSQL's primary key: an id that is there or twice in a batch fails the
transaction. A retried XADD (`redis.go:24`) is an event that is in the stream twice: `Resend` appends it and
waits, other requests may append theirs, then `Accept` or `Reject` ends the request. An
event `json.Marshal` rejects is skipped by the feed loop (`SkipEvent`) and poisons the bulk
request (`SearchIndexer`).

**Dashboard.** A request is a record that is asked, answered (with what the server said
*then*) or failed, and received by an action of its own, so that everything can happen
between the three. `LiveDashboard` and `EventSearch` are two views of one page and share
no state. Of the server `LiveDashboard` has what the page can see: how far each event has come (`stage`:
PostgreSQL, ClickHouse, feed, published), one event independently of the next, since four workers
(`main.go:50`) have batches of their own; so ids are fed and published in any order, and a PUBLISH whose reply is lost
is sent again later. GET /events/recent is the newest ids of the feed (`Newest`), GET /events the latest rows
by time (`Latest`). FLUSHDB and the conversion of the feed are not in it. History variables: `timeline` is what the page was told of since its last snapshot,
in that order; `feedBrought` and `tableBrought` are what the last snapshots brought; `shown` is what the page listed when
the server answered. `raced`, `failed`, `unfinished` and `refused` remember why a search may be incomplete; the
properties say that there is no other reason. In the palette an aborted fetch throws, and what follows its await does
not run; a chosen event is searched for by the text of its id (`IdText`), which String() makes of a rounded number.

**Shell.** A tab is "static" (the server's document), "booted" (the boot script ran), then
"synced" (the store was filled from the document). All seven keys are cookies of the client, as
`PREFERENCE_PERSISTENCE` (`preferences-config.ts:82-90`) has them. One cookie that `decodeURIComponent` rejects stops the
boot script before it has set anything (`ScriptStops`). The history variable `chosen` is the last choice in any tab, and `due` what
each document owes: the choices when it booted, or all defaults when the script stopped, and its own since. The sidebar learns the
width from an event after it changed, and its key listener belongs to the render whose
effect ran last.

**Widgets.** TanStack Table, dnd-kit, React Hook Form and Recharts are external and modelled
by what they do to the state the repository's code keeps or reads. Dragging looks rows up by `Number(row.id)`
(`data-table.tsx:75`): for the leads ("L-1012") that is NaN, none is found, and the order stays.

Abstractions. The aggregation key (action, element, 5 s window) is `KeyOf`, a function of the
event; in the code equal windows in different time-zone objects are different
keys, which is a finer `KeyOf`, except that two copies of one event may then be
grouped apart - such a batch always ends at the primary key. ClickHouse's
time-to-live of a month is left out. A row's count is the set of entries it counts. The
score of the feed is a float64 of the id; near ids get equal scores, and Redis then orders
by member, the JSON text that starts with the id, so the order by id is kept. A repetition
by the client library is modelled once per XADD of `events`, not for the index queue (a
second document overwrites the first under the same `_id`). `PushToRecentFeed` is one step in
`EventPipeline` and its commands are in `RecentFeed`. Sleeps, block times, debounce and poll
intervals are left out: a step may always be late. In the dashboard an id is its rank,
`NumberOf` the double JSON.parse makes of it, which two ids may share, and `Timestamp` its time, which the client may set; a hit of a search is
the pair of filters and page that found it; a point of a chart has no figures except in the
breakdown, and its header is a prefix and a name.

What of the frontend a route mounts: the dashboard page, its palette
(`dashboard/layout.tsx`), the boot script and the store provider (`app/layout.tsx`), the
forms, and the CRM and finance cards. `LayoutControls`, `ThemeSwitcher`, `SidebarProvider` with
`AppSidebar` and its menus, the sections table's columns and `table-cell-viewer` are mounted by
no route; they are modelled as the code stands, with the layout that would mount them as the
environment. Also noticed, and modelled as it is: the `sidebar_state` cookie is written
and never read back; `elasticsearch.go:445` expects a string where the sort value of a date is a
number, so the server never hands out a cursor (`EventSearch` has pages all the same, as
the page's code has); an action called "count" would be headed "Event Count" by the breakdown's
tooltip.

## 3. Properties and runs

Each module has one type invariant. Where a run checks `...Inv` (`IndexInv`, `FeedInv`, `BackfillInv`,
`MapReduceInv`, `LiveInv`, `SearchInv`, `DialogInv`, `PrefInv`, `SidebarInv`, `TableInv`, `FormInv`, `ChartInv`), that is the
type invariant conjoined with the named safety properties of the module, each commented
where it is defined.

| run | checks | shows | states |
|---|---|---|---|
| `pipeline_stores` | `PersistenceFirst`, `AckedIsStored`, `UserMapsMatchCounts`, `FeedIsNewest`, `BatchesEnd` | failing and reply-losing stores, an event JSON cannot encode | 179,496 |
| `pipeline_delivery` | `BatchesExclusive`, `ClickHouseOnce`, `CountedOnce`, `IndInv`, `LedgerSpec` | duplicated XADD, lost read replies, crashes, FLUSHDB; the pipeline implements `DeliveryLedger` | 489,748 |
| `indexer_safe` | `IndexInv`, `JobLedgerSpec`, `IndexBatchesEnd` | the index queue under all faults; it implements the same ledger | 86,758 |
| `system` | `SearchIsPersisted`, `QueueSurvivesRestart`, `SettledWhenCalm`, `SearchableWhenCalm` | search is never ahead of the stores; a restart skips nothing that was queued; without faults every accepted event is stored and found | 39,129 |
| `readers` | `FeedInv`, `BackfillInv`, `MapReduceInv`, `ChannelSuffices`, `BackfillEnds`, `AnalyticsEnds` | interleaved feed commands, paging beside inserts, the parallel analytics | 221,580 |
| `dashboard` | `LiveInv`, `FeedKeepsEvents`, `SearchInv`, `RowsBelongToFilters`, `DialogInv`, `CardsCatchUp`, `FiltersAreSearched`, `QueryIsAnswered` | interleaved publication, overlapping answers, broken streams, aborted and unaborted searches | 205,296 |
| `shell` | `PrefInv`, `ChoiceIsKept`, `SidebarInv`, `SidebarFollowsDocument`, `HydrationDoesNotFlicker` | two tabs, stale and malformed cookies, a resized window, an older listener | 35,800 |
| `widgets` | `TableInv`, `FormInv`, `ChartInv`, `DragMovesTheRow` | every order of the controls | 56,569 |

What the properties do not say, because the code does it. The feed's card is in the order in which the page was told
of the events, not newest first: workers publish interleaved, and an older event that comes late pushes out a newer one
(`FeedIsInOrder`). A snapshot takes out what came while it was on its way (`page.tsx:209`), and what is published while
the stream is broken is missing until the page is loaded again (`page.tsx:243`). Two ids with one double are one row,
unless one snapshot brought both (`RowsAreUnique`). A search of a button overwrites the rows of newer filters (`raced`), a thrown
search of the palette leaves its label until the next one (`unfinished`). A row that counts and has no user maps is left by a batch
that failed in between; `UserMapsMatchCounts` says that no entry of it is acknowledged or shown. A malformed cookie undoes
every choice for new documents (`ChoiceIsKept`). On a sorted table or a later page another row moves than the
dragged one (`DragMovesTheRow`). `PointIsNamed` fails for an event whose
action is the empty string, which `handlers/event.go` accepts: its bar has a tooltip without header. `QueueSurvivesRestart`
fails where the reply of an XREADGROUP is lost; its run and its theorem leave that fault out.

The liveness properties of the page have the form `<>[]P => <>[]Q`: a click may come at any time, so what is promised is
promised of filters, queries and settings that stay. `FiltersAreSearched` asks that the first row is then a hit of these filters and of no
others, `QueryIsAnswered` that the palette holds the hits of the query and no longer speaks of a search.

Four runs show a disagreement between the code and what the repository says of it:

* `pipeline_dropped`: one failed ClickHouse insert leaves the batch unacknowledged,
  as `aggregator_test.go:221` wants, but `ReadFromGroup` asks for ">" only
  (`stream.go:58`), so nobody reads it again and the events never reach ClickHouse (`README.md:43`).
* `indexer_poison`: one event with a duration JSON cannot encode fails the bulk
  request of its batch (`elasticsearch.go:343`); the other events are never indexed (`README.md:46`).
* `backfill_missed`: pages are sorted by timestamp and continued by id
  (`postgres.go:156`), so rows are skipped and the command still logs success
  (`cmd/backfill_search/main.go:25`).
* `dashboard_empty`: an empty feed is JSON `null` (`handlers/feed.go:23`); the card that has a
  text for it (`chart-area-interactive.tsx:97`) calls `slice` on it first (`:47`) and the page crashes.

`README.md:43-44` also lists the raw events before the aggregated rows; the code commits
them the other way round (`aggregator.go:163`, `:168`), and so does `EventPipeline`. When two
workers convert an old feed list, the second DEL removes the new sorted set
(`redis.go:51`); `RecentFeed` has the step, and `FeedInv` speaks of what was added since the last DEL.

### Parts

Modules without common state are checked by one run: the variable `part` of `MCReaders`,
`MCDashboard`, `MCShell` and `MCWidgets` chooses, in the initial state, which of them moves,
and the others rest. In `MCEndToEnd` it chooses between an instance that fails in every way (for the safety
properties) and `Calm`, an INSTANCE without faults and with other batch sizes (for the liveness ones).

### Bounds

Two workers, two indexers: every property relates at most two of them, and a third
would only repeat the second. Batch size 2 of 3 entries gives a full batch, a
partial one and two batches in flight; with 3 entries of 2 events
(`pipeline_delivery`) an event can be in the stream twice, with the other between or not, in the same batch or in two. A
feed cap of 1 or 2 lies below the number of events, so trimming happens.
`MaxEntries` and `MaxJobs` bound the streams in the guards of `XAdd` and
`EnqueueJob`. The indexers' run has one malformed and one unencodable event beside a sound one. The
backfill has 4 rows, 2 timestamps and pages of 2: full, partial and empty pages,
and ids against the order of the timestamps. MapReduce has 3 workers and 0 to 5
events: no event, fewer events than workers, uneven chunks, and (4 events) fewer chunks than
workers. The dashboard has 3 events for lists of 2, none of them there before the page, two of them with one double and two with one time, 2 overlapping
calls, searches of 2 pages with 2 fields, one button search beside the effect's, and queries that share a
hit. The shell has two tabs, the mode and one layout preference, a retired and a
malformed value, and a page with, one without and one outside a submenu.
The table has 4 rows with equal names and page sizes 1 to 3; forms are submitted twice; actions
are counted to 3; one is called "count" and one has no name. Deadlock is not checked (`CHECK_DEADLOCK FALSE`): every
model comes to rest when its bounded input is used up. Only
`pipeline_delivery` uses symmetry, of its workers, which nothing distinguishes; it checks no liveness.

### Faults

`Faults` names what a run allows: "ingest" (repeated or unanswered XADD), "read" (a
lost XREADGROUP reply), "postgres", "clickhouse", "redis" (a call of that store fails, with or
without effect), "crash", "flush". `IndexFaults`, `FeedFaults`, `BackfillFaults`, `Failures`,
`SearchFails` and `DialogFaults` likewise. The runs allow the faults their question is about; the
invariants are proved for any of them.

### Fairness

Weak fairness of each worker's step: a worker is a goroutine in an endless
loop (`aggregator.go:83-97`, `indexer.go:36-50`), its calls return, and a read is enabled as long as
something is undelivered. That calls return rests on the clients: the Elasticsearch client has a timeout
of 10 seconds (`elasticsearch.go:66`), the Redis and ClickHouse clients have those of their libraries; gorm's
calls to PostgreSQL are made without one (`postgres.go:64-109`), so a connection that hangs without an error
is outside of what the liveness properties say. Nothing else of the
backend is fair: no client has to post, nothing has to fail, a crashed process need not be
restarted. The backfill command and the goroutines of the analytics handler run once they
are started. In the browser timers fire, callbacks run and requests come back or fail; the
user need not do anything (`SearchFairness`, `DialogFairness`). `LiveFairness` adds strong
fairness of `AnswerAnalytics`: the cards are polled for ever, and a poll that is repeated for
ever succeeds at last. `CardsCatchUp` asks for it only while auto refresh is on.

`SettledWhenCalm` and `SearchableWhenCalm` are stated without faults, because the code keeps no
promise for a batch once a call of it failed (see `pipeline_dropped`); `BatchesEnd`,
`IndexBatchesEnd` and `BackfillEnds` are stated with them. `Calm` has index batches of one event,
since one that JSON cannot encode takes its whole batch with it (see `indexer_poison`).

## 4. Proofs

Every invariant the runs check is stated by a theorem, and so are the refinements and the action
properties. The theorems hold for every value of the constants that
satisfies the named assumptions of the modules, and for any set of faults unless one is excluded by name.
Most of the invariants are not inductive; what has to be added to each is the argument, and is told here.
One lemma per action shows that it keeps the inductive invariant.

`SetLemmas` has what several proofs need of finite sets: the newest n of a set and what adding one does to them
(`NewestOfAdded`, `KeptTrimmed`), least and greatest members, sums (`SumTakes`, `SumAdds`,
`SumReindexed`), and that ranks in a strict order take every place once (`EveryPlaceIsTaken`).
The prover cannot instantiate an induction theorem, so `SmallestSet` takes its place: if a
statement about finite sets has counterexamples, one of them has the fewest members.

`EventPipelineProofs`:

    Spec => []IndInv, []TypeOK, []PersistenceFirst, []AckedIsStored, []BatchesExclusive,
            []CountedOnce, []ClickHouseOnce, []UserMapsMatchCounts, []FeedIsNewest

None of these is inductive alone: that a published event is stored follows only
from what the publishing worker did before. `IndInv` therefore says, for each
worker, what its `pc` implies about every entry of its batch (`Written`): not yet
counted at "aggregate"; counted by the worker's own row from "raw" on; in PostgreSQL from
"click" on; exactly one ClickHouse row at "maps"; in every store from "feed" on.
`BatchShape` keeps batches inside the delivered entries, `RowsSound` keeps the
rows disjoint and `EnteredOnce` gives each event one entry that may enter ClickHouse: the
primary key turns a second one away before its insert. Frame lemmas carry the cases in which the
acting worker is another one.
`UserMapsMatchCounts` follows from `IndInv` (an entry past its maps is `Stored`, so its row has maps) and
`MapsAllOrNone`, which needs `RowsFound` besides: a row is identified by its insertion and key, and a
worker that has still to write its maps finds its rows as it inserted them.

`SearchIndexerProofs`: `Spec => []IndexInv` and `Spec => JobLedgerSpec`, along the lines of the write path.

`EndToEndProofs`:

* `Spec => LedgerSpec`: the write path implements `DeliveryLedger`. A step is recognised by what it does to the
  status of every entry: `StatusCases` gives the status by positions, `IsProcess` and `IsDeliver` turn
  "these entries went from held to done or lost" into a step of the ledger. Needed besides `IndInv`: a
  batch is pending as a whole or, after FLUSHDB, not at all (`PendingTogether`), or one XACK would finish a part of it.
* `SystemSpec => Spec`: the composition behaves for the write path as `EventPipeline` alone, so that
  everything above holds in it, the ledger included.
* `SystemSpec => []SearchIsPersisted`: a document comes from a job and a job is enqueued when its event
  is stored (`DocsQueued`); stores only grow.
* `SystemSpec => QueueSurvivesRestart` where neither `Faults` nor `IndexFaults` has "read". The
  condition is needed: an XREADGROUP whose reply is lost moves the group's position, and no
  worker holds what it passed.

`ReadersProofs`:

* `FeedSpec => []FeedInv` (`FeedKept`): trimming after each of several ZADDs in any order keeps exactly the newest.
* `BackfillSpec => []BackfillInv` for finite tables: the page about to be sent holds the rows behind the
  cursor or, if it is full, the first of them (`PageIsNext`), and every row up to the cursor has a document or
  sorts behind a larger id that has one (`CursorInv`).
* `Spec => []ChannelSuffices` (`ChunkInv`): chunk starts are 1, 1 + c, 1 + 2c, ... and c, rounded up, makes
  NumWorkers chunks reach the end, so the starts are at most NumWorkers and no send blocks.
* `Spec => []MapReduceInv`: the chunks lie one behind the other (`ProgressInv`); the channel holds the results of
  distinct sent chunks, and counts and total are the sums over the sent chunks that are no longer in it (`ResultsInv`).

`DashboardProofs`:

* `LiveSpec => []LiveInv`, `[]FeedKeepsEvents`. The invariant has a part each for server, feed, table and cards, none of which looks at
  the variables of another (`LiveIndInv`); events only go forward (`Grows`), so what was fed or stored stays so. For the feed the
  properties are nearly inductive (`FeedShape`): a message is put on top of list and timeline alike (`OnMessageKeepsFeed`), and a
  snapshot begins both anew (`ReceiveFeedKeeps`). That a snapshot has what was listed holds because an event is in the server's
  feed before anybody is told of it (`AnswerFeedKeeps`).
* `SearchSpec => []SearchInv`, `[]RowsBelongToFilters`. The effect's timer and search are always about the filters of
  the URL (`EffectFollowsUrl`), and a button's search that met nothing (`~raced`) is alone, about those
  filters, and for the page behind the hits there are (`RunIsAlone`, `QuietRows`).
* `DialogSpec => []DialogInv`. A timer or fetch exists only in an open dialog with a query, and when none does
  the list is the answer to the query, unless the last search broke (`DialogShape`).

`ShellProofs`:

* `PrefSpec => []PrefInv`. The invariant is a property of each tab by itself (`TabInv`) and says nothing of the
  storage, so other tabs and broken values cannot matter.
* `PrefSpec => []ChoiceIsKept`. A choice that has not expired is what a boot script reads (`CookiesKeep`), and each document has what
  it owes (`Owed`): from its boot, through hydration, since an owed value is one the code knows, to its own choices.
* `PrefSpec => HydrationDoesNotFlicker`. Until hydration the class "dark" agrees with the attribute the
  store is filled from, unless that is "system" (`DocInv`).
* `SidebarSpec => []SidebarInv`, and `ShellSpec => []SidebarFollowsDocument`: the composition is a behaviour of both parts.

`WidgetProofs`:

* `FormSpec => []FormInv`: that messages are current is inductive once the types are known field by field
  (`FormIndInv`): an edit changes what is said of its own field only, but for the second password, which is
  compared with the first (`ErrorDependsOn`).
* `TableSpec => []TableInv`, `DragMovesTheRow`: places in the sorted order are a bijection onto the rows, the page's
  index stays in range after every control (`TableIndInv`), and `arrayMove` is a permutation that shifts what lies
  between the two places (`ArrayMoveFacts`); places on a page are places among the first rows of the data (`PageRows`), whatever the page.
* `ChartSpec => []ChartInv`: bars are the counts in the order of their ranks, so they add up to what the cards
  say (`BarsFacts`, `BarsMatch`); the tooltip's and the pie's parts are shown for each kind of chart.

Only model-checked: the liveness properties (`BatchesEnd`, `IndexBatchesEnd`, `SettledWhenCalm`, `SearchableWhenCalm`,
`BackfillEnds`, `AnalyticsEnds`, `CardsCatchUp`, `FiltersAreSearched`, `QueryIsAnswered`), since fairness and ENABLED
are beyond the prover, and the counterexamples of section 3. No module uses a RECURSIVE operator.

## 5. Running

    tlc -workers 2 -config EventPipeline_stores.cfg MCEventPipeline
    tlapm EventPipelineProofs.tla

`PROJECT.json` names module and cfg of every run. Operators marked "Mutant" are altered copies
of an action or helper; with one in place of the original, the property `PROJECT.json` names for
it fails. They are not part of any `Next`. An `...Inv` has a mutant for each hazard it is about.

## 6. Hazards

`PROJECT.json` lists each with its line and the properties about it; a note says what the code does that the property
leaves out. Four have no property: the index queue's error is swallowed and the batch acknowledged
(`aggregator.go:207`), which the code and its test intend; the recursion after
WRONGTYPE (`redis.go:52`), which ends only if Redis lets DEL through; the DEL that takes the new sorted set (`redis.go:51`); and
messages missed while the stream is broken (`page.tsx:243`). The models have all these steps.
Smaller ones that are not listed: an edit of the filters overtaken by the navigation of an
earlier one (`page.tsx:120`), the time zone of a chart's range (`analytics-dashboard.ts:77`), and the sheet
that stays open when the window grows (`sidebar.tsx:70`).

## 7. Plan

Done: the write path with `DeliveryLedger`; indexers and the composition; feed; backfill; map-reduce;
the dashboard's two views and the palette; preferences, sidebar and their composition;
table, forms, charts; and the proofs of section 4, which state every invariant the runs check.

Left, in this order:

1. `SearchPaging`: `searchEvents`, cursors and `search_after` beside concurrent indexing, from the server's side.
2. The loop of `handlers/sse.go` composed with `LiveDashboard`: which event a subscriber misses between snapshot and stream.
3. The recent feed as `RecentFeed` has it inside `EventPipeline`, where a push is one step.

## 8. Not modelled

Metrics (nothing reads them back), configuration (constants here), the load
generators, `GetEvents` and the ClickHouse query beyond their results (they only
read), index creation at start and the building of queries. In the frontend: styled wrappers of library
components (`ui/*` without state of their own), the carousel (no page uses it), the theme
preset generator (a build script), the account switcher and the menus' entries, which do nothing,
the cells' own forms, which only show toasts, the cards that show fixed data, and all
formatting and layout. `PROJECT.json` names each with its reason.
