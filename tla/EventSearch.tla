---------------------------- MODULE EventSearch ----------------------------
(***************************************************************************)
(* The search view of the dashboard page (frontend .../default/page.tsx):  *)
(* the filters live in the URL, an effect searches 300 ms after they       *)
(* change and aborts the search it replaces, while "Refresh" and "Load     *)
(* more" run searches of their own that nobody aborts.                     *)
(*                                                                         *)
(* The router and the server are external.  Every search has Pages pages   *)
(* of hits; a hit is known by the filters and the page that found it.      *)
(* The snapshot lists of the default view are in LiveDashboard.            *)
(***************************************************************************)
EXTENDS Naturals, Sequences, FiniteSets

CONSTANTS Fields,      \* the filters: "query", "action", ...
          Values,      \* what can be typed into one
          Pages,       \* pages of hits of every search
          Runs,        \* searches of the two buttons that can be out together
          SearchFails  \* whether a request may fail

ASSUME SearchAssumption ==
    /\ Pages \in Nat \ {0} /\ IsFiniteSet(Runs) /\ SearchFails \in BOOLEAN
    /\ "" \notin Values /\ Values # {} /\ "query" \in Fields

VARIABLES
    url,          \* the filters of the URL the page was rendered with
    nextUrl,      \* those of the navigation asked for last; url when it is done
    debounce,     \* the effect's timer: armed with the filters or NoTimer
    effectCall,   \* the effect's search
    runs,         \* the calls of runSearch and the manual refreshes before it
    response,     \* searchResponse
    searchLoading, loadingMore,
    raced,        \* history: a button's search met a change of the filters or another one
    failed        \* history: the last search to end failed

urlVars    == <<url, nextUrl>>
resultVars == <<response, searchLoading, loadingMore, failed>>
searchVars == <<urlVars, resultVars, debounce, effectCall, runs, raced>>

Filter    == [Fields -> Values \cup {""}]
NoFilters == [f \in Fields |-> ""]

\* hasActiveFilters
Active(filters) == \E f \in Fields : filters[f] # ""

NoTimer    == [armed |-> FALSE, filters |-> NoFilters]
Timer(fs)  == [armed |-> TRUE, filters |-> fs]

\* A search in flight.  "then" is "replace" or "append"; a manual refresh first
\* waits for the analytics.
Idle == [step |-> "idle", filters |-> NoFilters, then |-> "replace", page |-> 1]
Call(step, fs, then, n) == [step |-> step, filters |-> fs, then |-> then, page |-> n]

\* A response: its hits, page by page, and the page its cursor leads to, 0 for none.
Hit(fs, n)    == [filters |-> fs, page |-> n]
NoResponse    == [known |-> FALSE, items |-> <<>>, next |-> 0]
EmptyResponse == [known |-> TRUE, items |-> <<>>, next |-> 0]
\* Mutant: the last page has a cursor too.
FoundForEver(fs, n) == [known |-> TRUE, items |-> <<Hit(fs, n)>>, next |-> n + 1]

Found(fs, n)  == [known |-> TRUE, items |-> <<Hit(fs, n)>>, next |-> IF n < Pages THEN n + 1 ELSE 0]

\* The updater of runSearch: more hits go behind the ones that are there now.
Appended(more) ==
    IF response.known THEN [more EXCEPT !.items = response.items \o @] ELSE more

-----------------------------------------------------------------------------
\* The page opens at a URL, with or without filters.
SearchInit ==
    /\ url \in {NoFilters, [NoFilters EXCEPT !["query"] = CHOOSE v \in Values : TRUE]}
    /\ nextUrl = url
    /\ debounce = IF Active(url) THEN Timer(url) ELSE NoTimer
    /\ effectCall = Idle
    /\ runs = [r \in Runs |-> Idle]
    /\ response = NoResponse
    /\ searchLoading = FALSE /\ loadingMore = FALSE
    /\ raced = FALSE /\ failed = FALSE

\* The inputs above the table and the button under them.
FilterBar == [values |-> url, canClear |-> Active(url)]

\* updateFilters: the URL of the last render with one filter set or deleted.
\* router.replace is a transition: until it ends the page keeps the old URL,
\* and an edit of another filter starts from there again.
UpdateFilters(f, v) ==
    /\ v # FilterBar.values[f]
    /\ nextUrl' = [url EXCEPT ![f] = v]
    /\ UNCHANGED <<url, resultVars, debounce, effectCall, runs, raced>>

\* clearFilters; the button is disabled outside search mode.
ClearFilters ==
    /\ FilterBar.canClear /\ nextUrl' = NoFilters
    /\ UNCHANGED <<url, resultVars, debounce, effectCall, runs, raced>>

\* The search dialog's router.push: this query and no other filter, or nothing.
FollowDialog(v) ==
    /\ nextUrl' = [NoFilters EXCEPT !["query"] = v]
    /\ UNCHANGED <<url, resultVars, debounce, effectCall, runs, raced>>

\* Mutant: the effect does not depend on the filters, only its cleanup runs.
CommitUrlWithoutTimer ==
    /\ nextUrl # url
    /\ url' = nextUrl
    /\ debounce' = NoTimer
    /\ effectCall' = Idle
    /\ IF effectCall # Idle
       THEN response' = EmptyResponse /\ searchLoading' = FALSE
       ELSE /\ response' = IF Active(nextUrl) THEN response ELSE NoResponse
            /\ UNCHANGED searchLoading
    /\ raced' = (raced \/ \E r \in Runs : runs[r] # Idle)
    /\ UNCHANGED <<nextUrl, loadingMore, failed, runs>>

\* The navigation ends and the page renders with the new filters: the effect's
\* cleanup aborts the search and drops the timer, the effect arms a new timer
\* or, outside search mode, forgets the response.  An aborted fetch comes back
\* as null at once, and the code after its await takes that for a failure.
CommitUrl ==
    /\ nextUrl # url
    /\ url' = nextUrl
    /\ debounce' = IF Active(nextUrl) THEN Timer(nextUrl) ELSE NoTimer
    /\ effectCall' = Idle
    /\ IF effectCall # Idle
       THEN response' = EmptyResponse /\ searchLoading' = FALSE
       ELSE /\ response' = IF Active(nextUrl) THEN response ELSE NoResponse
            /\ UNCHANGED searchLoading
    /\ raced' = (raced \/ \E r \in Runs : runs[r] # Idle)
    /\ UNCHANGED <<nextUrl, loadingMore, failed, runs>>

-----------------------------------------------------------------------------
(* The effect's search.                                                    *)

FireTimer ==
    /\ debounce.armed
    /\ debounce' = NoTimer
    /\ effectCall' = Call("asked", debounce.filters, "replace", 1)
    /\ searchLoading' = TRUE
    /\ UNCHANGED <<urlVars, response, loadingMore, failed, runs, raced>>

AnswerEffect ==
    /\ effectCall.step = "asked"
    /\ \E step \in {"answered"} \cup (IF SearchFails THEN {"failed"} ELSE {}) :
          effectCall' = [effectCall EXCEPT !.step = step]
    /\ UNCHANGED <<urlVars, resultVars, debounce, runs, raced>>

\* Mutant: a failure returns before the flag is cleared.
ReceiveEffectOrLeave ==
    /\ effectCall.step \in {"answered", "failed"}
    /\ effectCall' = Idle
    /\ response' = IF effectCall.step = "answered" THEN Found(effectCall.filters, 1)
                                                   ELSE EmptyResponse
    /\ failed' = (effectCall.step = "failed")
    /\ searchLoading' = (effectCall.step = "failed")
    /\ raced' = \E r \in Runs : runs[r] # Idle
    /\ UNCHANGED <<urlVars, loadingMore, debounce, runs>>

\* The effect's callback after its await.
ReceiveEffect ==
    /\ effectCall.step \in {"answered", "failed"}
    /\ effectCall' = Idle
    /\ response' = IF effectCall.step = "answered" THEN Found(effectCall.filters, 1)
                                                   ELSE EmptyResponse
    /\ failed' = (effectCall.step = "failed")
    /\ searchLoading' = FALSE
    /\ raced' = \E r \in Runs : runs[r] # Idle
    /\ UNCHANGED <<urlVars, loadingMore, debounce, runs>>

-----------------------------------------------------------------------------
(* The buttons.                                                            *)

Busy == \E r \in Runs : runs[r] # Idle

\* handleManualRefresh in search mode, with the filters of this render.  The
\* button is disabled while something loads; the flag of the analytics may
\* have been cleared by a poll, so it does not keep a second click out.
RefreshSearch ==
    /\ Active(url) /\ ~searchLoading
    /\ \E r \in Runs :
          runs[r] = Idle /\ runs' = [runs EXCEPT ![r] = Call("analytics", url, "replace", 1)]
    /\ raced' = (raced \/ Busy \/ effectCall # Idle \/ debounce.armed)
    /\ UNCHANGED <<urlVars, resultVars, debounce, effectCall>>

\* refreshAnalytics is back: runSearch() of the render the click came from.
SearchAgain(r) ==
    /\ runs[r].step = "analytics"
    /\ runs' = [runs EXCEPT ![r].step = "asked"]
    /\ searchLoading' = TRUE
    /\ UNCHANGED <<urlVars, response, loadingMore, failed, debounce, effectCall, raced>>

\* Mutant: the cursor is not sent, so the first page is answered again.
LoadMoreWithoutCursor ==
    /\ Active(url) /\ response.next # 0 /\ ~loadingMore
    /\ \E r \in Runs :
          /\ runs[r] = Idle
          /\ runs' = [runs EXCEPT ![r] = Call("asked", url, "append", 1)]
    /\ loadingMore' = TRUE
    /\ raced' = (raced \/ Busy \/ effectCall # Idle \/ debounce.armed)
    /\ UNCHANGED <<urlVars, response, searchLoading, failed, debounce, effectCall>>

\* handleLoadMore: the button is there in search mode while a cursor is known.
LoadMore ==
    /\ Active(url) /\ response.next # 0 /\ ~loadingMore
    /\ \E r \in Runs :
          /\ runs[r] = Idle
          /\ runs' = [runs EXCEPT ![r] = Call("asked", url, "append", response.next)]
    /\ loadingMore' = TRUE
    /\ raced' = (raced \/ Busy \/ effectCall # Idle \/ debounce.armed)
    /\ UNCHANGED <<urlVars, response, searchLoading, failed, debounce, effectCall>>

AnswerRun(r) ==
    /\ runs[r].step = "asked"
    /\ \E step \in {"answered"} \cup (IF SearchFails THEN {"failed"} ELSE {}) :
          runs' = [runs EXCEPT ![r].step = step]
    /\ UNCHANGED <<urlVars, resultVars, debounce, effectCall, raced>>

\* runSearch after its await: whatever the filters are by now, the response is
\* stored, and both flags fall.
ReceiveRun(r) ==
    LET run == runs[r] IN
    /\ run.step \in {"answered", "failed"}
    /\ runs' = [runs EXCEPT ![r] = Idle]
    /\ response' =
          IF run.step = "failed"
          THEN IF run.then = "append" THEN response ELSE EmptyResponse
          ELSE IF run.then = "append" THEN Appended(Found(run.filters, run.page))
                                      ELSE Found(run.filters, 1)
    /\ failed' = (run.step = "failed")
    /\ searchLoading' = FALSE /\ loadingMore' = FALSE
    /\ UNCHANGED <<urlVars, debounce, effectCall, raced>>

-----------------------------------------------------------------------------
SearchNext ==
    \/ \E f \in Fields, v \in Values \cup {""} : UpdateFilters(f, v)
    \/ ClearFilters
    \/ \E v \in Values \cup {""} : FollowDialog(v)
    \/ CommitUrl
    \/ FireTimer
    \/ AnswerEffect
    \/ ReceiveEffect
    \/ RefreshSearch
    \/ LoadMore
    \/ \E r \in Runs :
          \/ SearchAgain(r)
          \/ AnswerRun(r)
          \/ ReceiveRun(r)

SearchSpec == SearchInit /\ [][SearchNext]_searchVars

\* Navigations end, timers fire and requests come back; nobody has to click.
SearchFairness ==
    /\ WF_searchVars(CommitUrl) /\ WF_searchVars(FireTimer)
    /\ WF_searchVars(AnswerEffect) /\ WF_searchVars(ReceiveEffect)
    /\ \A r \in Runs :
          WF_searchVars(SearchAgain(r)) /\ WF_searchVars(AnswerRun(r)) /\ WF_searchVars(ReceiveRun(r))

-----------------------------------------------------------------------------
(* What the page shows.                                                    *)

\* The body of DataTable in search mode, and whether the button is under it.
Body ==
    IF searchLoading THEN "Loading events..."
    ELSE IF response.items = <<>> THEN "No events matched the current filters" ELSE "rows"

LoadMoreIsOffered == Active(url) /\ response.next # 0

-----------------------------------------------------------------------------
(* Properties.                                                             *)

SearchTypeOK ==
    /\ {url, nextUrl} \subseteq Filter
    /\ debounce \in {NoTimer} \cup {Timer(fs) : fs \in Filter}
    /\ effectCall.step \in {"idle", "asked", "answered", "failed"}
    /\ \A r \in Runs : runs[r].step \in {"idle", "analytics", "asked", "answered", "failed"}
    /\ \A i \in DOMAIN response.items : response.items[i] \in [filters : Filter, page : 1 .. Pages]
    /\ {response.known, searchLoading, loadingMore, raced, failed} \subseteq BOOLEAN

\* With nothing of its own on the way the table shows the hits of the filters
\* it shows, page 1 first and no page missing or twice - unless a button's
\* search met a change of the filters or another search, which nothing aborts.
RowsBelongToFilters ==
    (Active(url) /\ ~debounce.armed /\ effectCall = Idle /\ ~raced) =>
        response.items = [i \in 1 .. Len(response.items) |-> Hit(url, i)]

\* "No events matched the current filters" is said of filters that match
\* something only while they have not been searched for or after a failure.
NoMatchIsExplained ==
    (Active(url) /\ Body = "No events matched the current filters") =>
        debounce.armed \/ failed \/ raced

\* The table says that it loads only while a search is out or about to begin.
SearchLoadingIsTrue ==
    searchLoading => debounce.armed \/ effectCall # Idle \/ \E r \in Runs : runs[r] # Idle

\* What holds of the search in every state: its types, and what its texts mean.
SearchInv == SearchTypeOK /\ NoMatchIsExplained /\ SearchLoadingIsTrue

\* Filters that stay in the URL are searched for: the table comes to show their hits
\* from the first on, although every change of the filters aborts a search and an
\* abort is taken for an empty answer.
FiltersAreSearched == \A fs \in Filter : Active(fs) =>
    (<>[](url = fs /\ ~failed /\ ~raced) =>
        <>[](response.items # <<>> /\ response.items[1] = Hit(fs, 1)))
=============================================================================
