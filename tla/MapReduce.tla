----------------------------- MODULE MapReduce -----------------------------
(***************************************************************************)
(* GET /analytics/mapreduce: the handler cuts the events into chunks, one  *)
(* goroutine per chunk sends its partial result into a buffered channel,   *)
(* and the handler waits for all of them before it reads the channel.  As  *)
(* nobody reads before the wait ends, a send into a full channel would     *)
(* block for ever.                                                         *)
(***************************************************************************)
EXTENDS Integers, Sequences, FiniteSets

SetsExt == INSTANCE FiniteSetsExt

CONSTANTS
    NumWorkers, \* numWorkers = 8: the wanted number of chunks, the channel's capacity
    Actions,    \* the events' actions
    Durations,  \* their durations, as integers
    MaxEvents   \* bound: events PostgreSQL returns (FetchLimit)

ASSUME WorkersAssumption == NumWorkers \in Nat \ {0} /\ MaxEvents \in Nat
ASSUME DurationsAssumption == Durations \subseteq Int

VARIABLES
    events,  \* what database.GetEvents returned
    hpc,     \* the handler's next step
    i,       \* where its next chunk starts
    gpc,     \* chunk -> its goroutine
    channel, \* the partial results sent and not yet read
    counts,  \* finalCounts
    total    \* totalDuration

vars == <<events, hpc, i, gpc, channel, counts, total>>

-----------------------------------------------------------------------------

Event  == [action : Actions, duration : Durations]
Inputs == UNION {[1 .. n -> Event] : n \in 0 .. MaxEvents}

\* Mutant: the chunk size is rounded down.
ChunkSizeRoundedDown(n) == IF n < NumWorkers THEN 1 ELSE n \div NumWorkers

ChunkSize(n) == (n + NumWorkers - 1) \div NumWorkers

\* The chunk that starts at s: the positions of events[s : end].
Chunk(s) == {j \in 1 .. Len(events) : s <= j /\ j < s + ChunkSize(Len(events))}

\* What a loop over the events at the positions D adds up.
CountsOf(D)   == [a \in Actions |-> Cardinality({j \in D : events[j].action = a})]
DurationOf(D) == SetsExt!MapThenSumSet(LAMBDA j : events[j].duration, D)

Init ==
    /\ events \in Inputs
    /\ hpc = (IF events = <<>> THEN "done" ELSE "spawn")
    /\ i = 1 /\ gpc = <<>> /\ channel = <<>>
    /\ counts = [a \in Actions |-> 0] /\ total = 0

-----------------------------------------------------------------------------

Goroutine(s, step) ==
    gpc' = [t \in DOMAIN gpc \cup {s} |-> IF t = s THEN step ELSE gpc[t]]

\* Mutant: the loop's bound is off by one.
SpawnBehindEnd ==
    /\ hpc = "spawn"
    /\ Goroutine(i, "working")
    /\ i' = i + ChunkSize(Len(events))
    /\ hpc' = IF i' <= Len(events) + 1 THEN "spawn" ELSE "wait"
    /\ UNCHANGED <<events, channel, counts, total>>

\* wg.Add(1) and go func for the chunk at i; the loop ends behind the events.
Spawn ==
    /\ hpc = "spawn"
    /\ Goroutine(i, "working")
    /\ i' = i + ChunkSize(Len(events))
    /\ hpc' = IF i' <= Len(events) THEN "spawn" ELSE "wait"
    /\ UNCHANGED <<events, channel, counts, total>>

\* resultsChan <- partialResult, into a buffer that has room.
Send(s) ==
    /\ gpc[s] = "working" /\ Len(channel) < NumWorkers
    /\ channel' = Append(channel, [counts |-> CountsOf(Chunk(s)), duration |-> DurationOf(Chunk(s))])
    /\ Goroutine(s, "sent")
    /\ UNCHANGED <<events, hpc, i, counts, total>>

\* The deferred wg.Done().
Done(s) ==
    /\ gpc[s] = "sent"
    /\ Goroutine(s, "done")
    /\ UNCHANGED <<events, hpc, i, channel, counts, total>>

\* Mutant: one wg.Done() lets the handler go on.
WaitForOne ==
    /\ hpc = "wait" /\ \E s \in DOMAIN gpc : gpc[s] = "done"
    /\ hpc' = "reduce"
    /\ UNCHANGED <<events, i, gpc, channel, counts, total>>

\* wg.Wait() and close(resultsChan).
Wait ==
    /\ hpc = "wait" /\ \A s \in DOMAIN gpc : gpc[s] = "done"
    /\ hpc' = "reduce"
    /\ UNCHANGED <<events, i, gpc, channel, counts, total>>

\* The range over resultsChan: one partial result, or the end of a closed and
\* empty channel.
Reduce ==
    /\ hpc = "reduce"
    /\ \/ /\ channel # <<>>
          /\ counts' = [a \in Actions |-> counts[a] + Head(channel).counts[a]]
          /\ total' = total + Head(channel).duration
          /\ channel' = Tail(channel)
          /\ UNCHANGED hpc
       \/ channel = <<>> /\ hpc' = "done" /\ UNCHANGED <<channel, counts, total>>
    /\ UNCHANGED <<events, i, gpc>>

Next == Spawn \/ Wait \/ Reduce \/ \E s \in DOMAIN gpc : Send(s) \/ Done(s)

Spec == Init /\ [][Next]_vars

\* The Go scheduler runs every goroutine that can go on.
FairSpec == Spec /\ WF_vars(Next)

-----------------------------------------------------------------------------
(* Properties.                                                             *)

\* The variables have their types.
TypeOK ==
    /\ events \in Inputs
    /\ hpc \in {"spawn", "wait", "reduce", "done"}
    /\ i \in Nat \ {0}
    /\ DOMAIN gpc \subseteq 1 .. Len(events)
    /\ \A s \in DOMAIN gpc : gpc[s] \in {"working", "sent", "done"}
    /\ counts \in [Actions -> Nat] /\ total \in Int

\* There are never more goroutines than the channel has room for: none blocks
\* in its send while the handler waits for it.
ChannelSuffices == Cardinality(DOMAIN gpc) <= NumWorkers

\* What GetAnalyticsSequential answers for the same events.
SequentialCounts == CountsOf(1 .. Len(events))
SequentialTotal  == DurationOf(1 .. Len(events))

\* The parallel answer is the sequential one, in whatever order the goroutines
\* finish.
MatchesSequential == hpc = "done" => counts = SequentialCounts /\ total = SequentialTotal

\* What holds of a request in every state: its types, and its answer.
MapReduceInv == TypeOK /\ MatchesSequential

\* Liveness: every request is answered.
AnalyticsEnds == <>(hpc = "done")
=============================================================================
