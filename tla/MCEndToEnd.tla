----------------------------- MODULE MCEndToEnd -----------------------------
(***************************************************************************)
(* Two instances of EndToEnd: one that fails in every way, for the safety  *)
(* properties, and a calm one with other batch sizes and an event JSON     *)
(* cannot encode, for the liveness properties.                             *)
(***************************************************************************)
EXTENDS EndToEnd

CONSTANTS w1, w2, x1, x2

VARIABLE part  \* "faulty" or "calm", for the whole behaviour

MCWorkers     == {w1, w2}
MCIndexers    == {x1, x2}
MCEvents      == 1 .. 2
OneKey        == [e \in Events |-> "k"]
NoEvents      == {}
ProcessFaults == {"redis", "postgres", "flush", "crash"}
ElasticFaults == {"elastic", "ack"}

Calm == INSTANCE EndToEnd WITH
            BatchSize <- 2, IndexBatchSize <- 1, Unencodable <- {2}, Faults <- {}, IndexFaults <- {}

MCSystemInit ==
    \/ part = "faulty" /\ SystemInit
    \/ part = "calm" /\ Calm!SystemInit

MCSystemNext ==
    /\ \/ part = "faulty" /\ SystemNext
       \/ part = "calm" /\ Calm!SystemNext
    /\ UNCHANGED part

\* The calm part has EndToEnd's fairness; nothing is asked of the faulty one.
MCSystemSpec ==
    /\ MCSystemInit /\ [][MCSystemNext]_<<part, systemVars>>
    /\ \A w \in Workers : WF_systemVars(part = "calm" /\ Calm!Aggregate(w))
    /\ \A x \in Indexers : WF_systemVars(part = "calm" /\ Calm!Index(x))

\* Liveness: without faults an accepted event, also one that JSON cannot encode, ends
\* in every store, acknowledged and queued (EventPipeline's AcceptedIsSettled).
SettledWhenCalm == part = "calm" => Calm!AcceptedIsSettled

\* Liveness: without faults an accepted event can be found by search, unless JSON
\* cannot encode it (EndToEnd's AcceptedIsSearchable).
SearchableWhenCalm == part = "calm" => Calm!AcceptedIsSearchable
=============================================================================
