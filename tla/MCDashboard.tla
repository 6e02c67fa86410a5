---------------------------- MODULE MCDashboard ----------------------------
(* Model checking LiveDashboard, EventSearch and SearchDialog.  They share  *)
(* no state (the dialog's navigation is EventSearch's FollowDialog), so     *)
(* each is explored from its own initial states while the others rest.      *)
EXTENDS LiveDashboard, EventSearch, SearchDialog, TLC

CONSTANTS c1, c2, r1

VARIABLE part  \* the one that moves: "feed", "table" and "cards" of LiveDashboard, "search", "dialog"

dashboardVars == <<part, liveVars, searchVars, dialogVars>>

MCCalls    == {c1, c2}
MCRuns     == {r1}
TwoAlike   == <<1, 1, 3>>
Times      == <<3, 1, 1>>
MCHits     == ("" :> {}) @@ ("a" :> {"e1"}) @@ ("b" :> {"e1", "e2"})
MCIdText   == ("e1" :> "n1") @@ ("e2" :> "n2")
MCMatching == ("" :> {"nav", "e1", "e2"}) @@ ("a" :> {"nav", "e1"}) @@ ("b" :> {"e2"})

DashboardInit ==
    /\ part \in {"feed", "table", "cards", "search", "dialog"}
    /\ LiveInit /\ page = (IF part \in {"feed", "table", "cards"} THEN "new" ELSE "closed")
    /\ SearchInit /\ (part # "search" => url = NoFilters)
    /\ DialogInit

\* One event at a time is on its way through the stores, which the lists do not see.
ServerBound ==
    Cardinality({e \in Event : stage'[e] \in {"stored", "counted"}}) <= 1

\* The feed without answers to the other requests; the table without an answer to the
\* feed's and with none for the cards; the cards without a stream, feed or third event.
Unanswered(calls) == \A c \in Calls : calls[c].step # "answered"
Resting(calls)    == \A c \in Calls : calls[c].step \in {"none", "asked"}
FeedBound ==
    /\ ServerBound /\ Len(messages') <= 2 /\ Len(timeline') <= 4
    /\ Resting(eventsCalls') /\ Resting(analyticsCalls') /\ analyticsCalls'[c2] = None
    /\ autoRefresh'
TableBound ==
    /\ ServerBound /\ Len(messages') <= 1 /\ Len(timeline') <= 2
    /\ (\A e \in Event : stage'[e] # "again") /\ feedCall'.step \in {"none", "asked"}
    /\ Unanswered(analyticsCalls') /\ analyticsCalls'[c2] = None /\ eventsCalls'[c2] = None
    /\ autoRefresh'
CardsBound == source' = "connecting" /\ feedCall'.step \in {"none", "asked"}
              /\ stage'[MaxEvents] = "none" /\ Fed' = {}

DashboardNext ==
    \/ /\ LiveNext /\ UNCHANGED <<part, searchVars, dialogVars>>
       /\ \/ part = "feed" /\ FeedBound
          \/ part = "table" /\ TableBound
          \/ part = "cards" /\ CardsBound
    \/ part = "search" /\ SearchNext /\ UNCHANGED <<part, liveVars, dialogVars>>
    \/ part = "dialog" /\ DialogNext /\ UNCHANGED <<part, liveVars, searchVars>>

DashboardSpec ==
    /\ DashboardInit /\ [][DashboardNext]_dashboardVars
    /\ LiveFairness /\ SearchFairness /\ DialogFairness
=============================================================================
