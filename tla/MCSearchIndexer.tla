-------------------------- MODULE MCSearchIndexer --------------------------
(* Constant values for model checking SearchIndexer.                       *)
EXTENDS SearchIndexer

CONSTANTS x1, x2

MCIndexers == {x1, x2}
MCEvents   == 1 .. 3
NoEvents   == {}
EventTwo   == {2}
EventThree == {3}

NoFaults   == {}
AllFaults  == {"read", "elastic", "ack", "crash", "flush"}
=============================================================================
