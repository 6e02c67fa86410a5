--------------------------- MODULE LiveDashboard ---------------------------
(***************************************************************************)
(* The default view of the dashboard page (frontend .../default/page.tsx): *)
(* the recent feed and the event table, each filled by one HTTP snapshot   *)
(* and by the messages of one EventSource, and the analytics cards, which  *)
(* are polled.  No answer is ordered with respect to another one.          *)
(*                                                                         *)
(* The server's part is what the page can see of it: the workers take each *)
(* event through PostgreSQL, ClickHouse, the feed and PUBLISH, event e     *)
(* being the one with the e-th id.  The URL, the filters and the search of *)
(* the same page are in EventSearch.                                       *)
(***************************************************************************)
EXTENDS Naturals, Sequences, FiniteSets

CONSTANTS MaxEvents,    \* events the server accepts
          InitialEvents,\* how many of them are published before the page opens
          Cap,          \* length of the feed, of GET /events and of slice(0, 50)
          CardLength,   \* rows of the feed card, slice(0, 7)
          Timestamp,    \* an event's time, which its client may set
          NumberOf,     \* the double JSON.parse makes of an event's 64-bit id
          Calls,        \* analytics calls that can be in flight together
          Failures      \* "http": a request may fail; "stream": the EventSource may break;
                        \* "reply": the reply of a PUBLISH may be lost, so that it is sent again

ASSUME LiveAssumption ==
    /\ MaxEvents \in Nat /\ InitialEvents \in 0 .. MaxEvents
    /\ Cap \in Nat \ {0} /\ CardLength \in Nat
    /\ Timestamp \in [1 .. MaxEvents -> Nat] /\ NumberOf \in [1 .. MaxEvents -> Nat]
    /\ IsFiniteSet(Calls)
    /\ Failures \subseteq {"http", "stream", "reply"}

VARIABLES
    stage,         \* how far each event has come on the server
    source,        \* readyState of the EventSource: "connecting" or "open"
    messages,      \* events sent on the stream and not handled yet
    page,          \* "closed" on another route, "new" before the effects ran, "up",
                   \* "crashed" by a render error
    recentFeed, events,                 \* the two lists, newest first
    feedCall,                           \* the request of fetchRecentFeed
    analyticsCalls, eventsCalls,        \* those of refreshAnalytics, refreshDefaultEvents
    analytics,                          \* total_events, 0 for null
    autoRefresh, analyticsLoading, eventsLoading,
    timeline,      \* history: what the feed was told of since its last snapshot, which
                   \* is the beginning, oldest first
    feedBrought, tableBrought,          \* history: what the last snapshot of each list brought
    shown          \* history: the feed when the server answered the request for it

serverVars == <<stage, source, messages>>
feedVars   == <<recentFeed, feedCall, timeline, feedBrought, shown>>
tableVars  == <<events, eventsCalls, eventsLoading, tableBrought>>
cardVars   == <<analytics, analyticsCalls, autoRefresh, analyticsLoading>>
liveVars   == <<serverVars, feedVars, tableVars, cardVars, page>>

Event == 1 .. MaxEvents

\* What the workers have done with an event: nothing, its row is in PostgreSQL, in
\* ClickHouse, it is in the feed, it is published but will be once more, it is published.
After      == [none |-> "stored", stored |-> "counted", counted |-> "fed"]
Stages     == DOMAIN After \cup {"fed", "again", "published"}
Stored     == {e \in Event : stage[e] # "none"}
Counted    == {e \in Event : stage[e] \notin {"none", "stored"}}
Fed        == {e \in Event : stage[e] \notin DOMAIN After}
Sent       == {e \in Event : stage[e] \in {"again", "published"}}

\* A request: not made, waiting for the server, answered, answered with null,
\* or failed on the way (a refusal and a network error look alike).
None      == [step |-> "none"]
Asked     == [step |-> "asked"]
Failed    == [step |-> "failed"]
NullBody  == [step |-> "null"]
Answer(v) == [step |-> "answered", value |-> v]
\* A request and what its caller does after the answer.
AndThen(call, next) ==
    [f \in DOMAIN call \cup {"next"} |-> IF f = "next" THEN next ELSE call[f]]
IsBack(call) == call.step \in {"answered", "null", "failed"}

LowestOf(a, b) == IF a < b THEN a ELSE b

Listed(list)      == {list[i] : i \in DOMAIN list}
Unique(list)      == \A i, j \in DOMAIN list : list[i] = list[j] => i = j
Truncate(list, n) == SubSeq(list, 1, LowestOf(n, Len(list)))

Rows(S) == [1 .. LowestOf(Cap, Cardinality(S)) -> S]

\* GET /events/recent: the Cap members of the sorted set with the highest ids, highest
\* first (equal scores are ordered by the members, whose first field is the id).
Newest(rows, S) ==
    /\ \A i, j \in DOMAIN rows : i < j => rows[i] > rows[j]
    /\ \A i \in DOMAIN rows, e \in S \ Listed(rows) : rows[i] > e

\* GET /events: the Cap rows with the latest times, rows of one time in any order.
Latest(rows, S) ==
    /\ Unique(rows)
    /\ \A i, j \in DOMAIN rows : i < j => Timestamp[rows[i]] >= Timestamp[rows[j]]
    /\ \A i \in DOMAIN rows, e \in S \ Listed(rows) : Timestamp[rows[i]] >= Timestamp[e]

\* Mutant: nothing is cut off.
MergeUnbounded(list, e) ==
    IF \E i \in DOMAIN list : NumberOf[list[i]] = NumberOf[e] THEN list ELSE <<e>> \o list

\* Mutant: no look for a duplicate.
MergeBlindly(list, e) == Truncate(<<e>> \o list, Cap)

\* Mutant: a new event goes to the end.
MergeAtEnd(list, e) ==
    IF \E i \in DOMAIN list : NumberOf[list[i]] = NumberOf[e]
    THEN list ELSE Truncate(Append(list, e), Cap)

\* The updater of onmessage: an event whose number is listed already is a duplicate.
Merge(list, e) ==
    IF \E i \in DOMAIN list : NumberOf[list[i]] = NumberOf[e]
    THEN list
    ELSE Truncate(<<e>> \o list, Cap)

OldestFirst(list) == [i \in DOMAIN list |-> list[Len(list) + 1 - i]]

\* fetchAnalytics, fetchRecentFeed and fetchEvents catch everything: a failed
\* request is a value like another.
MayFail == "http" \in Failures

-----------------------------------------------------------------------------
LiveInit ==
    /\ stage = [e \in Event |-> IF e <= InitialEvents THEN "published" ELSE "none"]
    /\ source = "connecting" /\ messages = <<>>
    /\ page \in {"closed", "new"}
    /\ recentFeed = <<>> /\ events = <<>>
    /\ feedCall = None
    /\ eventsCalls = [c \in Calls |-> None]
    /\ analytics = 0 /\ analyticsCalls = [c \in Calls |-> None]
    /\ autoRefresh = TRUE /\ analyticsLoading = FALSE /\ eventsLoading = FALSE
    /\ timeline = <<>> /\ feedBrought = {} /\ tableBrought = {} /\ shown = {}

\* refreshAnalytics up to its await; "next" is what its caller does after it.
StartAnalytics(c, next) ==
    /\ analyticsCalls[c] = None /\ eventsCalls[c] = None
    /\ analyticsCalls' = [analyticsCalls EXCEPT ![c] = AndThen(Asked, next)]
    /\ analyticsLoading' = TRUE

\* refreshDefaultEvents up to its await.
StartEvents(c) ==
    /\ eventsCalls' = [eventsCalls EXCEPT ![c] = Asked]
    /\ eventsLoading' = TRUE

\* The effect of the first render: both snapshots and the analytics are fetched.
Mount ==
    /\ page = "new" /\ page' = "up"
    /\ feedCall' = Asked
    /\ \E c \in Calls : StartAnalytics(c, "done") /\ StartEvents(c)
    /\ UNCHANGED <<serverVars, recentFeed, timeline, feedBrought, shown, events, tableBrought,
                   analytics, autoRefresh>>

-----------------------------------------------------------------------------
(* The server and the stream.                                              *)

Send(e) == messages' = IF source = "open" THEN Append(messages, e) ELSE messages

\* The stores of aggregateBatch and PushToRecentFeed.  Four workers have batches of
\* their own, so the steps of two events come in any order, and a batch that fails
\* leaves its events where they are.
FillStore(e) ==
    /\ stage[e] \in DOMAIN After
    /\ stage' = [stage EXCEPT ![e] = After[@]]
    /\ UNCHANGED <<source, messages, feedVars, tableVars, cardVars, page>>

\* Mutant: an event is published before it is in the feed.
PublishFirst(e) ==
    /\ stage[e] = "counted" /\ Send(e)
    /\ UNCHANGED <<stage, source, feedVars, tableVars, cardVars, page>>

\* PublishEvent reaches whoever is connected.  When the reply is lost go-redis sends the
\* command again, after whatever the other workers send meanwhile (once more, in the model).
Publish(e) ==
    /\ \/ stage[e] = "fed" /\ stage' = [stage EXCEPT ![e] = "published"]
       \/ stage[e] = "fed" /\ "reply" \in Failures /\ stage' = [stage EXCEPT ![e] = "again"]
       \/ stage[e] = "again" /\ stage' = [stage EXCEPT ![e] = "published"]
    /\ Send(e)
    /\ UNCHANGED <<source, feedVars, tableVars, cardVars, page>>

\* GetEventsStream has subscribed; there is no replay of what was missed.
OpenStream ==
    /\ page = "up" /\ source = "connecting"
    /\ source' = "open"
    /\ UNCHANGED <<stage, messages, feedVars, tableVars, cardVars, page>>

\* onerror only logs; EventSource itself connects again.  What was on the way is lost.
BreakStream ==
    /\ "stream" \in Failures /\ source = "open"
    /\ source' = "connecting" /\ messages' = <<>>
    /\ UNCHANGED <<stage, feedVars, tableVars, cardVars, page>>

\* Mutant: the feed waits for its snapshot and drops what comes before it.
OnMessageAfterSnapshot ==
    /\ page = "up" /\ messages # <<>>
    /\ messages' = Tail(messages)
    /\ recentFeed' = IF feedCall = None THEN Merge(recentFeed, Head(messages)) ELSE recentFeed
    /\ events' = Merge(events, Head(messages))
    /\ timeline' = Append(timeline, Head(messages))
    /\ UNCHANGED <<stage, source, feedCall, feedBrought, shown, eventsCalls, eventsLoading,
                   tableBrought, cardVars, page>>

\* onmessage: the event goes into both lists.
OnMessage ==
    /\ page = "up" /\ messages # <<>>
    /\ messages' = Tail(messages)
    /\ recentFeed' = Merge(recentFeed, Head(messages))
    /\ events' = Merge(events, Head(messages))
    /\ timeline' = Append(timeline, Head(messages))
    /\ UNCHANGED <<stage, source, feedCall, feedBrought, shown, eventsCalls, eventsLoading,
                   tableBrought, cardVars, page>>

-----------------------------------------------------------------------------
(* The snapshots.                                                          *)

\* GetRecentFeed never makes its slice, so an empty feed is null in JSON.
AnswerFeed ==
    /\ feedCall = Asked
    /\ \/ \E rows \in Rows(Fed) :
              Newest(rows, Fed) /\ feedCall' = IF Fed = {} THEN NullBody ELSE Answer(rows)
       \/ MayFail /\ feedCall' = Failed
    /\ shown' = Listed(recentFeed)
    /\ UNCHANGED <<serverVars, recentFeed, timeline, feedBrought, tableVars, cardVars, page>>

\* fetchRecentFeed(...).then(setRecentFeed): the rows replace the list, whatever
\* was merged meanwhile; a failure is the empty list.  The card calls slice on
\* the value, so a null ends the page with a TypeError.
ReceiveFeed ==
    /\ page = "up" /\ IsBack(feedCall)
    /\ feedCall' = None
    /\ page' = IF feedCall = NullBody THEN "crashed" ELSE page
    /\ recentFeed' = IF feedCall.step = "answered" THEN feedCall.value ELSE <<>>
    /\ timeline' = OldestFirst(recentFeed') /\ feedBrought' = Listed(recentFeed')
    /\ UNCHANGED <<serverVars, shown, tableVars, cardVars>>

AnswerEvents(c) ==
    /\ eventsCalls[c] = Asked
    /\ \/ \E rows \in Rows(Stored) :
              Latest(rows, Stored) /\ eventsCalls' = [eventsCalls EXCEPT ![c] = Answer(rows)]
       \/ MayFail /\ eventsCalls' = [eventsCalls EXCEPT ![c] = Failed]
    /\ UNCHANGED <<serverVars, feedVars, events, eventsLoading, tableBrought, cardVars, page>>

\* Mutant: a failed request leaves before the flag is cleared.
ReceiveEventsOrLeave(c) ==
    /\ page = "up" /\ IsBack(eventsCalls[c])
    /\ eventsCalls' = [eventsCalls EXCEPT ![c] = None]
    /\ events' = IF eventsCalls[c] = Failed THEN events ELSE eventsCalls[c].value
    /\ eventsLoading' = (eventsCalls[c] = Failed)
    /\ tableBrought' = Listed(events')
    /\ UNCHANGED <<serverVars, feedVars, cardVars, page>>

\* refreshDefaultEvents after its await.
ReceiveEvents(c) ==
    /\ page = "up" /\ IsBack(eventsCalls[c])
    /\ eventsCalls' = [eventsCalls EXCEPT ![c] = None]
    /\ events' = IF eventsCalls[c] = Failed THEN <<>> ELSE eventsCalls[c].value
    /\ eventsLoading' = FALSE
    /\ tableBrought' = Listed(events')
    /\ UNCHANGED <<serverVars, feedVars, cardVars, page>>

-----------------------------------------------------------------------------
(* The analytics cards.                                                    *)

\* The interval fires while auto refresh is on, whether or not a call is out.
Poll ==
    /\ page = "up" /\ autoRefresh
    /\ \E c \in Calls : StartAnalytics(c, "done")
    /\ UNCHANGED <<serverVars, feedVars, tableVars, analytics, autoRefresh, page>>

\* handleManualRefresh; the button is disabled while something loads.
ManualRefresh ==
    /\ page = "up" /\ ~analyticsLoading /\ ~eventsLoading
    /\ \E c \in Calls : StartAnalytics(c, "events")
    /\ UNCHANGED <<serverVars, feedVars, tableVars, analytics, autoRefresh, page>>

ToggleAutoRefresh ==
    /\ page = "up"
    /\ autoRefresh' = ~autoRefresh
    /\ UNCHANGED <<serverVars, feedVars, tableVars, analytics, analyticsCalls, analyticsLoading,
                   page>>

AnswerAnalytics(c) ==
    /\ analyticsCalls[c].step = "asked"
    /\ analyticsCalls' =
          [analyticsCalls EXCEPT ![c] = AndThen(Answer(Cardinality(Counted)), @.next)]
    /\ UNCHANGED <<serverVars, feedVars, tableVars, analytics, autoRefresh, analyticsLoading, page>>

FailAnalytics(c) ==
    /\ MayFail /\ analyticsCalls[c].step = "asked"
    /\ analyticsCalls' = [analyticsCalls EXCEPT ![c] = AndThen(Failed, @.next)]
    /\ UNCHANGED <<serverVars, feedVars, tableVars, analytics, autoRefresh, analyticsLoading, page>>

\* Mutant: only the first answer is kept.
ReceiveFirstAnalytics(c) ==
    LET call == analyticsCalls[c] IN
    /\ page = "up" /\ IsBack(call)
    /\ analyticsCalls' = [analyticsCalls EXCEPT ![c] = None]
    /\ analytics' = IF call.step = "answered" /\ analytics = 0 THEN call.value ELSE analytics
    /\ analyticsLoading' = FALSE
    /\ IF call.next = "events" THEN StartEvents(c) ELSE UNCHANGED <<eventsCalls, eventsLoading>>
    /\ UNCHANGED <<serverVars, feedVars, events, tableBrought, autoRefresh, page>>

\* refreshAnalytics after its await.  The loading flag falls although another
\* call may be out.  A manual refresh goes on to the table.
ReceiveAnalytics(c) ==
    LET call == analyticsCalls[c] IN
    /\ page = "up" /\ IsBack(call)
    /\ analyticsCalls' = [analyticsCalls EXCEPT ![c] = None]
    /\ analytics' = IF call.step = "answered" THEN call.value ELSE analytics
    /\ analyticsLoading' = FALSE
    /\ IF call.next = "events" THEN StartEvents(c) ELSE UNCHANGED <<eventsCalls, eventsLoading>>
    /\ UNCHANGED <<serverVars, feedVars, events, tableBrought, autoRefresh, page>>

-----------------------------------------------------------------------------
LiveNext ==
    \/ Mount
    \/ \E e \in Event : FillStore(e) \/ Publish(e)
    \/ OpenStream
    \/ BreakStream
    \/ OnMessage
    \/ AnswerFeed
    \/ ReceiveFeed
    \/ Poll
    \/ ManualRefresh
    \/ ToggleAutoRefresh
    \/ \E c \in Calls :
          \/ AnswerEvents(c)
          \/ ReceiveEvents(c)
          \/ AnswerAnalytics(c)
          \/ FailAnalytics(c)
          \/ ReceiveAnalytics(c)

LiveSpec == LiveInit /\ [][LiveNext]_liveVars

\* The browser runs its callbacks and its interval, requests come back, and a
\* request that is made again and again is answered at last.
LiveFairness ==
    /\ WF_liveVars(Mount) /\ WF_liveVars(Poll)
    /\ \A c \in Calls :
          /\ WF_liveVars(AnswerEvents(c)) /\ WF_liveVars(ReceiveEvents(c))
          /\ WF_liveVars(AnswerAnalytics(c) \/ FailAnalytics(c))
          /\ SF_liveVars(AnswerAnalytics(c))
          /\ WF_liveVars(ReceiveAnalytics(c))

-----------------------------------------------------------------------------
(* What the page shows.                                                    *)

\* displayFeed of ChartAreaInteractive, the top of the list.
DisplayFeed == Truncate(recentFeed, CardLength)

\* The body of DataTable in its default view.
TableBody ==
    IF eventsLoading THEN "Loading events..."
    ELSE IF events = <<>> THEN "No events recorded yet" ELSE "rows"

-----------------------------------------------------------------------------
(* Properties.                                                             *)

LiveTypeOK ==
    /\ stage \in [Event -> Stages]
    /\ source \in {"connecting", "open"} /\ page \in {"closed", "new", "up", "crashed"}
    /\ Listed(messages) \subseteq Sent /\ Listed(timeline) \subseteq Fed
    /\ Listed(recentFeed) \subseteq Fed /\ Listed(events) \subseteq Stored
    /\ Len(recentFeed) <= Cap /\ Len(events) <= Cap
    /\ analytics \in 0 .. Cardinality(Counted)
    /\ {autoRefresh, analyticsLoading, eventsLoading} \subseteq BOOLEAN
    /\ feedBrought \cup shown \subseteq Fed /\ tableBrought \subseteq Stored

\* No two rows of a list have one number, the key React and the table know a row by,
\* unless one snapshot brought them both.
NumbersDiffer(list, together) ==
    \A i, j \in DOMAIN list : i # j /\ NumberOf[list[i]] = NumberOf[list[j]] =>
        {list[i], list[j]} \subseteq together

\* Snapshots and messages bring the same event in any order and more than once; it is
\* one row of each list all the same.
RowsAreUnique ==
    /\ Unique(recentFeed) /\ NumbersDiffer(recentFeed, feedBrought)
    /\ Unique(events) /\ NumbersDiffer(events, tableBrought)

\* Places of the timeline the rows of the feed come from, the top one last.
ComeFrom(places) ==
    /\ \A i \in DOMAIN recentFeed : timeline[places[i]] = recentFeed[i]
    /\ \A i, j \in DOMAIN recentFeed : i < j => places[i] > places[j]

\* From the bottom to the top the feed is in the order in which the page was told:
\* the snapshot in the order of the ids, then the messages as they were published.
FeedIsInOrder ==
    \E places \in [DOMAIN recentFeed -> DOMAIN timeline] : ComeFrom(places)

\* The table says that it loads only while a request for it is out, although two
\* can overlap and either can fail.
TableLoadingIsTrue ==
    (page = "up" /\ TableBody = "Loading events...") => \E c \in Calls : eventsCalls[c] # None

\* What holds of the lists in every state: their types, rows, order and loading.
LiveInv == LiveTypeOK /\ RowsAreUnique /\ FeedIsInOrder /\ TableLoadingIsTrue

\* The feed lists event e, or one that has its number.
Lists(e) == \E i \in DOMAIN recentFeed : NumberOf[recentFeed[i]] = NumberOf[e]

\* Cap events have come after place k of the timeline, none of them the one at k.
PushedOutSince(k) ==
    Cardinality({timeline[j] : j \in k + 1 .. Len(timeline)} \ {timeline[k]}) >= Cap

\* An event the page was told of by the last snapshot or since is in the feed, unless
\* Cap others have come after it: messages may come twice, in any order, and be late.
ToldIsListed == \A i \in DOMAIN timeline :
    \/ Lists(timeline[i])
    \/ \E k \in DOMAIN timeline : NumberOf[timeline[k]] = NumberOf[timeline[i]] /\ PushedOutSince(k)

\* A snapshot replaces the feed, and takes out what came while it was on its way; but
\* what was listed when the server answered is in it too, unless it is full of newer
\* events: an event is in the server's feed before anybody hears of it.
SnapshotHasWhatWasShown == feedCall.step \in {"answered", "null"} => \A e \in shown :
    /\ feedCall.step = "answered"
    /\ \/ e \in Listed(feedCall.value)
       \/ Len(feedCall.value) = Cap /\ \A i \in 1 .. Cap : feedCall.value[i] > e

\* The two together: what can take an event out of the feed.
FeedKeepsEvents == ToldIsListed /\ SnapshotHasWhatWasShown

\* While the page is up and auto refresh on, the cards come to show what the server counts,
\* whatever order the overlapping answers arrive in.
CardsCatchUp == <>[](page = "up" /\ autoRefresh) => <>[](analytics = Cardinality(Counted))

\* An empty feed is shown as "No recent events" (chart-area-interactive.tsx:97-100).
EmptyFeedIsShown == page # "crashed"
=============================================================================
