----------------------------- MODULE RecentFeed -----------------------------
(***************************************************************************)
(* The sorted set "events:recent", command by command: PushToRecentFeed's  *)
(* pipeline is no transaction, so the commands of two aggregator workers,  *)
(* of the conversion of an old key and of cmd/flush interleave.            *)
(* EventPipeline takes one push as one step; here it is three.             *)
(***************************************************************************)
EXTENDS Integers, FiniteSets

CONSTANTS
    Events,    \* event ids: the scores
    Pushers,   \* aggregator workers
    FeedCap,   \* entries ZREMRANGEBYRANK keeps, and GetRecentFeed reads
    OldKey,    \* does the key start as a list, from before it was a sorted set?
    FeedFaults \* "broken": a connection may break inside a pipeline; "flush": cmd/flush

ASSUME FeedEventsAssumption == Events \subseteq Nat /\ FeedCap \in Nat \ {0}
ASSUME FeedFaultsAssumption == OldKey \in BOOLEAN /\ FeedFaults \subseteq {"broken", "flush"}

VARIABLES
    kind,     \* type of the key events:recent
    feed,     \* its members while it is a sorted set
    ppc,      \* pusher -> the command it sends next
    event,    \* pusher -> the event it is pushing
    unpushed, \* events no batch has reached yet
    added,    \* history: events ZADDed since the key was last deleted
    returned  \* history: those whose push returned no error

feedVars == <<kind, feed, ppc, event, unpushed, added, returned>>

NoEvent == -1

Newest(S) == {e \in S : Cardinality({f \in S : f > e}) < FeedCap}

FeedInit ==
    /\ kind = (IF OldKey THEN "list" ELSE "none")
    /\ feed = {} /\ added = {} /\ returned = {}
    /\ ppc = [p \in Pushers |-> "idle"]
    /\ event = [p \in Pushers |-> NoEvent]
    /\ unpushed = Events

-----------------------------------------------------------------------------

Start(p) ==
    /\ ppc[p] = "idle"
    /\ \E e \in unpushed :
          /\ event' = [event EXCEPT ![p] = e]
          /\ unpushed' = unpushed \ {e}
    /\ ppc' = [ppc EXCEPT ![p] = "add"]
    /\ UNCHANGED <<kind, feed, added, returned>>

\* Mutant: the key is read, trimmed and written back whole.
AddOverwrites(p) ==
    /\ ppc[p] = "add"
    /\ kind' = "zset"
    /\ feed' = {event[p]}
    /\ added' = added \cup {event[p]}
    /\ ppc' = [ppc EXCEPT ![p] = "trim"]
    /\ UNCHANGED <<event, unpushed, returned>>

\* ZADD.  On a list it fails with WRONGTYPE, as the trim behind it does.
Add(p) ==
    /\ ppc[p] = "add"
    /\ \/ /\ kind = "list"
          /\ ppc' = [ppc EXCEPT ![p] = "delete"]
          /\ UNCHANGED <<kind, feed, added>>
       \/ /\ kind # "list"
          /\ kind' = "zset"
          /\ feed' = feed \cup {event[p]}
          /\ added' = added \cup {event[p]}
          /\ ppc' = [ppc EXCEPT ![p] = "trim"]
    /\ UNCHANGED <<event, unpushed, returned>>

Finish(p) ==
    /\ ppc' = [ppc EXCEPT ![p] = "idle"]
    /\ event' = [event EXCEPT ![p] = NoEvent]

\* ZREMRANGEBYRANK 0 -(FeedCap+1), and the end of a push without error.  A
\* key deleted in between is nothing to trim.
Trim(p) ==
    /\ ppc[p] = "trim"
    /\ feed' = Newest(feed)
    /\ returned' = returned \cup ({event[p]} \cap added)
    /\ Finish(p)
    /\ UNCHANGED <<kind, unpushed, added>>

\* The connection breaks before or after the trim: the push returns an error.
BreakPipeline(p) ==
    /\ "broken" \in FeedFaults
    /\ ppc[p] \in {"add", "trim"}
    /\ feed' \in {feed} \cup (IF ppc[p] = "trim" THEN {Newest(feed)} ELSE {})
    /\ Finish(p)
    /\ UNCHANGED <<kind, unpushed, added, returned>>

\* After WRONGTYPE: DEL whatever the key is by now, and push again.  The
\* error of a DEL that fails is not looked at.
DeleteOldKey(p) ==
    /\ ppc[p] = "delete"
    /\ \/ kind' = "none" /\ feed' = {} /\ added' = {} /\ returned' = {}
       \/ "broken" \in FeedFaults /\ UNCHANGED <<kind, feed, added, returned>>
    /\ ppc' = [ppc EXCEPT ![p] = "add"]
    /\ UNCHANGED <<event, unpushed>>

\* Mutant: the key is given up while its members stay.
FlushKeepsMembers ==
    /\ "flush" \in FeedFaults /\ kind # "none"
    /\ kind' = "none"
    /\ UNCHANGED <<feed, ppc, event, unpushed, added, returned>>

\* cmd/flush: DEL events:recent.
OperatorFlush ==
    /\ "flush" \in FeedFaults /\ kind # "none"
    /\ kind' = "none" /\ feed' = {}
    /\ added' = {} /\ returned' = {}
    /\ UNCHANGED <<ppc, event, unpushed>>

Push(p) == Start(p) \/ Add(p) \/ Trim(p) \/ BreakPipeline(p) \/ DeleteOldKey(p)

FeedNext == (\E p \in Pushers : Push(p)) \/ OperatorFlush

FeedSpec == FeedInit /\ [][FeedNext]_feedVars

-----------------------------------------------------------------------------
(* Properties.                                                             *)

\* The variables have their types; only a sorted set has members.
FeedTypeOK ==
    /\ kind \in {"none", "list", "zset"}
    /\ feed \in SUBSET Events /\ added \in SUBSET Events /\ returned \in SUBSET added
    /\ ppc \in [Pushers -> {"idle", "add", "trim", "delete"}]
    /\ event \in [Pushers -> Events \cup {NoEvent}]
    /\ unpushed \in SUBSET Events
    /\ kind # "zset" => feed = {}

\* GetRecentFeed serves the newest of everything added since the key was last
\* deleted, though adds and trims of several workers interleave.
ServesNewest == Newest(feed) = Newest(added)

\* An event whose push returned no error is in the feed unless FeedCap newer
\* ones displaced it or the key was deleted.
ReturnedIsServed ==
    \A e \in returned : e \in feed \/ Cardinality({f \in feed : f > e}) >= FeedCap
\* What holds of the feed in every state: its types; it serves the newest events,
\* and every one whose push returned.
FeedInv == FeedTypeOK /\ ServesNewest /\ ReturnedIsServed
=============================================================================
