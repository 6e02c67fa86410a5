---------------------------- MODULE SearchDialog ----------------------------
(***************************************************************************)
(* The command palette in the header of every dashboard page (frontend     *)
(* .../_components/sidebar/search-dialog.tsx): Ctrl/Cmd+J opens it, an     *)
(* effect searches 300 ms after the query changed, closing it or typing on *)
(* aborts the search.  An aborted or broken fetch throws, and the rest of  *)
(* the timer's callback does not run.                                      *)
(*                                                                         *)
(* The server is external: a query finds the events Hits[q], and the       *)
(* palette (cmdk) lists those whose text matches the query, Matching[q].   *)
(* The id in that text, and in the navigation, is that of JSON.parse: a    *)
(* double, which a 64-bit id may be rounded to.                            *)
(***************************************************************************)
EXTENDS Naturals, FiniteSets

CONSTANTS Queries,      \* what can be typed, "" included
          Hits,         \* query -> the events GET /search/events answers, at most 8
          Matching,     \* query -> what cmdk's own filter lets through
          IdText,       \* event -> String(event.id)
          NavigationItem, \* the static item "Realtime Dashboard"
          DialogFaults  \* "refused": a status that is not ok; "network": fetch throws

ASSUME DialogAssumption ==
    /\ "" \in Queries /\ Hits[""] = {} /\ DOMAIN Hits = Queries /\ DOMAIN Matching = Queries
    /\ DialogFaults \subseteq {"refused", "network"}
    /\ \A q \in Queries : NavigationItem \notin Hits[q] /\ Hits[q] \subseteq DOMAIN IdText

VARIABLES
    dialogOpen,    \* open
    query,
    results,
    dialogLoading, \* isLoading
    dialogTimer,   \* is the effect's timer armed?
    dialogCall,    \* its fetch: "none", "asked", "answered", "refused" or "broken"
    pushed,        \* the last target of router.push: "none", "dashboard" or a query
    unfinished,    \* history: the last search that began ended by throwing
    refused        \* history: the last search that ended was refused

effectVars == <<dialogTimer, dialogCall>>
shownVars  == <<results, dialogLoading, unfinished, refused>>
dialogVars == <<dialogOpen, query, pushed, effectVars, shownVars>>

-----------------------------------------------------------------------------
DialogInit ==
    /\ dialogOpen = FALSE /\ query = "" /\ results = {} /\ dialogLoading = FALSE
    /\ dialogTimer = FALSE /\ dialogCall = "none" /\ pushed = "none"
    /\ unfinished = FALSE /\ refused = FALSE

\* Mutant: what is listed is taken for the answer to the next query too.
RunEffectWhenEmpty ==
    /\ dialogTimer' = (dialogOpen' /\ query' # "" /\ results = {})
    /\ dialogCall' = "none"
    /\ IF dialogOpen' /\ query' = ""
       THEN results' = {} /\ dialogLoading' = FALSE /\ unfinished' = FALSE
       ELSE /\ unfinished' = (unfinished \/ dialogCall # "none")
            /\ UNCHANGED <<results, dialogLoading>>
    /\ UNCHANGED refused

\* The effect on [open, query]: its cleanup aborts the fetch, whose await throws,
\* and drops the timer.  While the dialog is closed nothing else happens; an
\* empty query forgets the results; any other one arms the timer.
RunEffect ==
    /\ dialogTimer' = (dialogOpen' /\ query' # "")
    /\ dialogCall' = "none"
    /\ IF dialogOpen' /\ query' = ""
       THEN results' = {} /\ dialogLoading' = FALSE /\ unfinished' = FALSE
       ELSE /\ unfinished' = (unfinished \/ dialogCall # "none")
            /\ UNCHANGED <<results, dialogLoading>>
    /\ UNCHANGED refused

\* Ctrl/Cmd+J, the button, Escape and a click outside.
SetOpen(value) ==
    /\ dialogOpen # value /\ dialogOpen' = value
    /\ UNCHANGED <<query, pushed>>
    /\ RunEffect

Type(q) ==
    /\ dialogOpen /\ q # query /\ query' = q
    /\ UNCHANGED <<dialogOpen, pushed>>
    /\ RunEffect

\* The timer's callback up to its await.
FireDialogTimer ==
    /\ dialogTimer /\ dialogTimer' = FALSE
    /\ dialogCall' = "asked" /\ dialogLoading' = TRUE /\ unfinished' = FALSE
    /\ UNCHANGED <<dialogOpen, query, pushed, results, refused>>

AnswerDialog ==
    /\ dialogCall = "asked"
    /\ \/ dialogCall' = "answered"
       \/ "refused" \in DialogFaults /\ dialogCall' = "refused"
       \/ "network" \in DialogFaults /\ dialogCall' = "broken"
    /\ UNCHANGED <<dialogOpen, query, pushed, dialogTimer, shownVars>>

\* Mutant: a refusal returns before the flag is cleared.
ReceiveDialogOrLeave ==
    /\ dialogCall \in {"answered", "refused"} /\ dialogCall' = "none"
    /\ results' = IF dialogCall = "answered" THEN Hits[query] ELSE {}
    /\ refused' = (dialogCall = "refused")
    /\ dialogLoading' = (dialogCall = "refused")
    /\ UNCHANGED <<dialogOpen, query, pushed, dialogTimer, unfinished>>

\* The callback after its await: a refusal is an empty list.  The query is the
\* one of the effect that armed the timer, which is the current one, because a
\* change of it would have aborted the call.
ReceiveDialog ==
    /\ dialogCall \in {"answered", "refused"} /\ dialogCall' = "none"
    /\ results' = IF dialogCall = "answered" THEN Hits[query] ELSE {}
    /\ refused' = (dialogCall = "refused")
    /\ dialogLoading' = FALSE
    /\ UNCHANGED <<dialogOpen, query, pushed, dialogTimer, unfinished>>

\* fetch threw: an unhandled rejection ends the callback at its await.
ThrowDialog ==
    /\ dialogCall = "broken" /\ dialogCall' = "none"
    /\ unfinished' = TRUE
    /\ UNCHANGED <<dialogOpen, query, pushed, dialogTimer, results, dialogLoading, refused>>

-----------------------------------------------------------------------------
(* What the dialog lists.                                                  *)

\* The groups "Navigation" and, under a query, "Events", through cmdk's filter,
\* which lets everything through while nothing is typed.
Items   == {NavigationItem} \cup IF query = "" THEN {} ELSE results
Visible == IF query = "" THEN Items ELSE Items \cap Matching[query]

\* CommandEmpty, shown when nothing is visible.
EmptyLabel == IF dialogLoading THEN "Searching events..." ELSE "No matching dashboard items"

\* Mutant: the router gets the query instead of the item's target.
ChooseQuery(item) ==
    /\ dialogOpen /\ item \in Visible
    /\ pushed' = query
    /\ dialogOpen' = FALSE /\ UNCHANGED query
    /\ RunEffect

\* An item is chosen: the router gets its target, for an event the search for its
\* id as it is printed, and the dialog closes.
Choose(item) ==
    /\ dialogOpen /\ item \in Visible
    /\ pushed' = IF item = NavigationItem THEN "dashboard" ELSE IdText[item]
    /\ dialogOpen' = FALSE /\ UNCHANGED query
    /\ RunEffect

-----------------------------------------------------------------------------
DialogNext ==
    \/ \E value \in BOOLEAN : SetOpen(value)
    \/ \E q \in Queries : Type(q)
    \/ FireDialogTimer
    \/ AnswerDialog
    \/ ReceiveDialog
    \/ ThrowDialog
    \/ \E item \in Visible : Choose(item)

DialogSpec == DialogInit /\ [][DialogNext]_dialogVars

\* Timers fire and fetches settle; the user need not do anything.
DialogFairness ==
    /\ WF_dialogVars(FireDialogTimer) /\ WF_dialogVars(AnswerDialog)
    /\ WF_dialogVars(ReceiveDialog) /\ WF_dialogVars(ThrowDialog)

-----------------------------------------------------------------------------
(* Properties.                                                             *)

DialogTypeOK ==
    /\ query \in Queries
    /\ {dialogOpen, dialogLoading, dialogTimer, unfinished, refused} \subseteq BOOLEAN
    /\ dialogCall \in {"none", "asked", "answered", "refused", "broken"}
    /\ results \in {Hits[q] : q \in Queries}
    /\ pushed \in {"none", "dashboard"} \cup {IdText[e] : e \in DOMAIN IdText}

SearchIsQuiet == ~dialogTimer /\ dialogCall = "none"

\* Once the search of an open dialog is over, what is listed are hits of this
\* query and not of one typed before, unless the search broke; and all of its
\* hits that cmdk lets through.
ListIsOfTheQuery ==
    (dialogOpen /\ SearchIsQuiet /\ ~unfinished /\ ~refused) =>
        Visible \ {NavigationItem} = Hits[query] \cap Matching[query]

\* The dialog speaks of a search only while there is one, or one threw: an
\* aborted or broken search leaves the flag behind.
SearchingIsTrue ==
    dialogLoading => dialogCall # "none" \/ dialogTimer \/ unfinished

\* What holds of the dialog in every state: its types, what it lists and what it says.
DialogInv == DialogTypeOK /\ ListIsOfTheQuery /\ SearchingIsTrue

\* A query that stays in an open dialog gets its answer, and the dialog stops speaking
\* of a search, although opening, closing and typing abort searches on the way and leave
\* the flag behind; unless its own search broke or was refused.
QueryIsAnswered == \A q \in Queries :
    <>[](dialogOpen /\ query = q /\ ~unfinished /\ ~refused) =>
        <>[](results = Hits[q] /\ ~dialogLoading)
=============================================================================
