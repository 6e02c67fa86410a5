-------------------------- MODULE MCEventPipeline --------------------------
(* Constant values for model checking EventPipeline.                       *)
EXTENDS EventPipeline, TLC

CONSTANTS w1, w2

MCWorkers == {w1, w2}
\* Nothing tells one worker from another.
Symmetry  == Permutations(Workers)
MCEvents2 == 1 .. 2
MCEvents3 == 1 .. 3
TwoKeys   == [e \in Events |-> IF e = 2 THEN "b" ELSE "a"]
NoEvents  == {}
EventTwo  == {2}

StoreFaults      == {"postgres", "clickhouse", "redis"}
ClickHouseFaults == {"clickhouse"}
DeliveryFaults   == {"ingest", "read", "postgres", "crash", "flush"}
=============================================================================
