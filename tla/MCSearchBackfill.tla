-------------------------- MODULE MCSearchBackfill --------------------------
(* Constant values for model checking SearchBackfill alone.                *)
EXTENDS SearchBackfill

MCRows   == 1 .. 4
MCTimes  == 1 .. 2
NoRows   == {}
NoFaults == {}
=============================================================================
