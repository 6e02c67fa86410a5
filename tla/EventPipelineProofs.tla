------------------------- MODULE EventPipelineProofs -------------------------
(***************************************************************************)
(* Proofs that the safety properties of EventPipeline hold for any events, *)
(* workers, bounds and faults.  IndInv is the inductive invariant: one     *)
(* lemma per conjunct shows that a step preserves it, one case per action. *)
(***************************************************************************)
EXTENDS EventPipeline, SetLemmas, TLAPS

USE EventsAssumption, BoundsAssumption, UnencodableAssumption

\* An event added to the stream leaves the entries before it as they were.
LEMMA PostKeepsEntries ==
    ASSUME QueueTypeOK, NEW e \in Events, PostEvent(e)
    PROVE  /\ stream' \in Seq(Events) /\ Len(stream') <= MaxEntries
           /\ Len(stream') \in {Len(stream), Len(stream) + 1}
           /\ \A i \in 1 .. Len(stream) : stream'[i] = stream[i]
  <1>1. stream \in Seq(Events) /\ Len(stream) <= MaxEntries BY DEF QueueTypeOK
  <1>2. UNCHANGED stream \/ XAdd(e) BY DEF PostEvent, Resend, Accept, Reject
  <1> QED BY <1>1, <1>2 DEF XAdd

\* The invariant holds before the first event: nothing is stored or held.
LEMMA InitIndInv == Init => IndInv
  <1> SUFFICES ASSUME Init PROVE IndInv OBVIOUS
  <1>1. TypeOK
    BY DEF Init, TypeOK, QueueTypeOK, WorkerTypeOK, StoreTypeOK, Answers, Steps, Entries, Delivered
  <1>2. BatchShape /\ BatchesExclusive
    BY DEF Init, BatchShape, BatchesExclusive, Batch, Delivered
  <1>3. EnteredOnce /\ RowsSound
    BY DEF Init, EnteredOnce, Entered, RowsSound, CountedOnce, Delivered, Entries
  <1>4. (\A w \in Workers : Written(w)) /\ AckedIsStored /\ PersistenceFirst
    BY DEF Init, Written, AckedIsStored, PersistenceFirst, Batch
  <1> QED BY <1>1, <1>2, <1>3, <1>4 DEF IndInv

-----------------------------------------------------------------------------

\* A batch is made of entries of the stream, and their events of Events.
LEMMA BatchEvents ==
    ASSUME QueueTypeOK, WorkerTypeOK, NEW w \in Workers
    PROVE  /\ Batch(w) \subseteq Entries
           /\ Batch(w) \subseteq 1 .. Len(stream)
           /\ \A i \in Batch(w) : Event(i) \in Events
           /\ BatchKeys(w) \subseteq Keys
  <1>1. from[w] \in Nat \ {0} /\ to[w] \in 0 .. Len(stream) BY DEF WorkerTypeOK
  <1>2. Len(stream) \in Nat /\ Len(stream) <= MaxEntries BY DEF QueueTypeOK
  <1>3. Batch(w) \subseteq 1 .. Len(stream) /\ Batch(w) \subseteq Entries
    BY <1>1, <1>2 DEF Batch, Entries
  <1>4. \A i \in Batch(w) : Event(i) \in Events BY <1>3 DEF QueueTypeOK, Event
  <1> QED BY <1>3, <1>4 DEF BatchKeys, Keys

\* What the three ways a worker moves on do to its variables.
LEMMA WorkerMoves ==
    ASSUME WorkerTypeOK, NEW w \in Workers, UNCHANGED stream,
           \/ Abandon(w)
           \/ NextEvent(w)
           \/ \E step \in Steps : GoTo(w, step)
    PROVE  WorkerTypeOK'
  <1>1. CASE Abandon(w) BY <1>1 DEF WorkerTypeOK, Abandon, Steps
  <1>2. CASE NextEvent(w) BY <1>2 DEF WorkerTypeOK, NextEvent, Steps
  <1>3. CASE \E step \in Steps : GoTo(w, step) BY <1>3 DEF WorkerTypeOK, GoTo
  <1> QED BY <1>1, <1>2, <1>3

\* Every step keeps the variables' types.
LEMMA TypeStep == IndInv /\ Next => TypeOK'
  <1> SUFFICES ASSUME IndInv, Next PROVE TypeOK' OBVIOUS
  <1> USE DEF groupVars, workerVars, aggVars, feedVars
  <1>0. QueueTypeOK /\ WorkerTypeOK /\ StoreTypeOK /\ BatchShape BY DEF IndInv, TypeOK
  <1>1. ASSUME NEW e \in Events, PostEvent(e) PROVE TypeOK'
    <2>2. stream' \in Seq(Events) /\ Len(stream') <= MaxEntries /\ Len(stream) <= Len(stream')
      BY <1>0, <1>1, PostKeepsEntries DEF QueueTypeOK
    <2>3. request' \in [Events -> Answers]
      BY <1>0, <1>1 DEF QueueTypeOK, PostEvent, Resend, Accept, Reject, Answers
    <2>6. UNCHANGED <<group, last, pel, acked, jobs, up>> BY <1>1 DEF PostEvent, Resend, Accept, Reject
    <2>7. QueueTypeOK' BY <1>0, <2>2, <2>3, <2>6 DEF QueueTypeOK, Delivered
    <2>4. WorkerTypeOK' BY <1>0, <1>1, <2>2 DEF WorkerTypeOK, QueueTypeOK, PostEvent, Resend, Accept, Reject
    <2>5. StoreTypeOK' BY <1>0, <1>1 DEF StoreTypeOK, PostEvent, Resend, Accept, Reject
    <2> QED BY <2>4, <2>5, <2>7 DEF TypeOK
  <1>2. ASSUME NEW w \in Workers, ReadFromGroup(w) PROVE TypeOK'
    <2>1. last' \in last + 1 .. Len(stream) /\ pel' = pel \cup (last + 1 .. last')
      BY <1>2 DEF ReadFromGroup
    <2>5. UNCHANGED <<request, stream, group, acked, jobs, up>> BY <1>2 DEF ReadFromGroup
    <2>2. QueueTypeOK' BY <1>0, <2>1, <2>5 DEF QueueTypeOK, Delivered
    <2>3. WorkerTypeOK'
      <3>1. CASE UNCHANGED workerVars BY <1>0, <2>5, <3>1 DEF WorkerTypeOK
      <3>2. CASE ~UNCHANGED workerVars
        <4>1. /\ pc' = [pc EXCEPT ![w] = "aggregate"] /\ from' = [from EXCEPT ![w] = last + 1]
              /\ to' = [to EXCEPT ![w] = last'] /\ next' = [next EXCEPT ![w] = last + 1]
              /\ rows' = rows
          BY <1>2, <3>2 DEF ReadFromGroup
        <4>2. last + 1 \in Nat \ {0} /\ last' \in 0 .. Len(stream)
          BY <1>0, <2>1 DEF QueueTypeOK
        <4> QED BY <1>0, <2>5, <4>1, <4>2 DEF WorkerTypeOK, Steps
      <3> QED BY <3>1, <3>2
    <2>4. StoreTypeOK' BY <1>0, <1>2 DEF StoreTypeOK, ReadFromGroup
    <2> QED BY <2>2, <2>3, <2>4 DEF TypeOK
  <1>3. ASSUME NEW w \in Workers, BatchCreateAggregatedEvents(w) PROVE TypeOK'
    <2>0. Batch(w) \subseteq Entries /\ BatchKeys(w) \subseteq Keys BY <1>0, BatchEvents
    <2>1. NewRows(w, insertions + 1) \in SUBSET Row
      <3>1. insertions + 1 \in Nat BY <1>0 DEF StoreTypeOK
      <3> QED BY <2>0, <3>1 DEF NewRows, Row, RowId, Grouped
    <2>2. QueueTypeOK' BY <1>0, <1>3 DEF QueueTypeOK, BatchCreateAggregatedEvents, Delivered
    <2>3. WorkerTypeOK'
      <3>1. CASE Abandon(w) BY <1>0, <1>3, <3>1, WorkerMoves DEF BatchCreateAggregatedEvents
      <3>2. CASE ~Abandon(w)
        <4>1. /\ pc' = [pc EXCEPT ![w] = "raw"] /\ rows' = [rows EXCEPT ![w] = insertions + 1]
              /\ UNCHANGED <<stream, from, to, next>>
          BY <1>3, <3>2 DEF BatchCreateAggregatedEvents
        <4>2. insertions + 1 \in Nat BY <1>0 DEF StoreTypeOK
        <4> QED BY <1>0, <4>1, <4>2 DEF WorkerTypeOK, Steps
      <3> QED BY <3>1, <3>2
    <2>4. StoreTypeOK' BY <1>0, <1>3, <2>1 DEF StoreTypeOK, BatchCreateAggregatedEvents
    <2> QED BY <2>2, <2>3, <2>4 DEF TypeOK
  <1>4. ASSUME NEW w \in Workers, BatchAddToDatabase(w) PROVE TypeOK'
    <2>1. {Event(i) : i \in Batch(w)} \subseteq Events BY <1>0, BatchEvents
    <2>2. QueueTypeOK' BY <1>0, <1>4 DEF QueueTypeOK, BatchAddToDatabase, Delivered
    <2>3. WorkerTypeOK' BY <1>0, <1>4, WorkerMoves DEF BatchAddToDatabase, Steps
    <2>4. StoreTypeOK' BY <1>0, <1>4, <2>1 DEF StoreTypeOK, BatchAddToDatabase
    <2> QED BY <2>2, <2>3, <2>4 DEF TypeOK
  <1>5. ASSUME NEW w \in Workers, BatchInsertToClickHouse(w) PROVE TypeOK'
    <2>1. QueueTypeOK' BY <1>0, <1>5 DEF QueueTypeOK, BatchInsertToClickHouse, Delivered
    <2>2. WorkerTypeOK' BY <1>0, <1>5, WorkerMoves DEF BatchInsertToClickHouse, Steps
    <2>3. StoreTypeOK' BY <1>0, <1>5 DEF StoreTypeOK, BatchInsertToClickHouse
    <2> QED BY <2>1, <2>2, <2>3 DEF TypeOK
  <1>6. ASSUME NEW w \in Workers, BatchCreateUserEventMaps(w) PROVE TypeOK'
    <2>1. NewUserMaps(w) \in SUBSET UserMap
      <3>1. Batch(w) \subseteq Entries /\ \A i \in Batch(w) : KeyOf[Event(i)] \in Keys
        BY <1>0, BatchEvents DEF BatchKeys
      <3>2. rows[w] \in Nat BY <1>0 DEF WorkerTypeOK
      <3> QED BY <3>1, <3>2 DEF NewUserMaps, UserMap, RowId
    <2>2. QueueTypeOK' BY <1>0, <1>6 DEF QueueTypeOK, BatchCreateUserEventMaps, Delivered
    <2>3. WorkerTypeOK' BY <1>0, <1>6, WorkerMoves DEF BatchCreateUserEventMaps, Steps
    <2>4. StoreTypeOK' BY <1>0, <1>6, <2>1 DEF StoreTypeOK, BatchCreateUserEventMaps
    <2> QED BY <2>2, <2>3, <2>4 DEF TypeOK
  <1>7. ASSUME NEW w \in Workers, SkipEvent(w) PROVE TypeOK'
    <2>1. QueueTypeOK' /\ StoreTypeOK'
      BY <1>0, <1>7 DEF QueueTypeOK, StoreTypeOK, SkipEvent, Delivered
    <2>2. WorkerTypeOK' BY <1>0, <1>7, WorkerMoves DEF SkipEvent
    <2> QED BY <2>1, <2>2 DEF TypeOK
  <1>8. ASSUME NEW w \in Workers, PushToRecentFeed(w) PROVE TypeOK'
    <2>1. Event(next[w]) \in Events
      <3>1. next[w] \in Batch(w) BY <1>0, <1>8 DEF BatchShape, PushToRecentFeed
      <3> QED BY <1>0, <3>1, BatchEvents
    <2>2. QueueTypeOK' BY <1>0, <1>8 DEF QueueTypeOK, PushToRecentFeed, Delivered
    <2>3. WorkerTypeOK' BY <1>0, <1>8, WorkerMoves DEF PushToRecentFeed, Steps
    <2>4. StoreTypeOK' BY <1>0, <1>8, <2>1 DEF StoreTypeOK, PushToRecentFeed, Newest
    <2> QED BY <2>2, <2>3, <2>4 DEF TypeOK
  <1>9. ASSUME NEW w \in Workers, PublishEvent(w) PROVE TypeOK'
    <2>1. Event(next[w]) \in Events
      <3>1. next[w] \in Batch(w) BY <1>0, <1>9 DEF BatchShape, PublishEvent
      <3> QED BY <1>0, <3>1, BatchEvents
    <2>2. QueueTypeOK' BY <1>0, <1>9 DEF QueueTypeOK, PublishEvent, Delivered
    <2>3. WorkerTypeOK' BY <1>0, <1>9, WorkerMoves DEF PublishEvent
    <2>4. StoreTypeOK' BY <1>0, <1>9, <2>1 DEF StoreTypeOK, PublishEvent
    <2> QED BY <2>2, <2>3, <2>4 DEF TypeOK
  <1>10. ASSUME NEW w \in Workers, EnqueueEventsForIndexing(w) PROVE TypeOK'
    <2>1. PICK n \in from[w] - 1 .. to[w] : jobs' = jobs \o SubSeq(stream, from[w], n)
      BY <1>10 DEF EnqueueEventsForIndexing
    <2>2. SubSeq(stream, from[w], n) \in Seq(Events)
      BY <1>0 DEF QueueTypeOK, WorkerTypeOK
    <2>3. jobs' \in Seq(Events) BY <1>0, <2>1, <2>2 DEF QueueTypeOK
    <2>4. QueueTypeOK' BY <1>0, <1>10, <2>3 DEF QueueTypeOK, EnqueueEventsForIndexing, Delivered
    <2>5. WorkerTypeOK' BY <1>0, <1>10, WorkerMoves DEF EnqueueEventsForIndexing, Steps
    <2>6. StoreTypeOK' BY <1>0, <1>10 DEF StoreTypeOK, EnqueueEventsForIndexing
    <2> QED BY <2>4, <2>5, <2>6 DEF TypeOK
  <1>11. ASSUME NEW w \in Workers, AckMessage(w) PROVE TypeOK'
    <2>1. QueueTypeOK' BY <1>0, <1>11 DEF QueueTypeOK, AckMessage, Delivered
    <2>2. WorkerTypeOK' BY <1>0, <1>11, WorkerMoves DEF AckMessage
    <2>3. StoreTypeOK' BY <1>0, <1>11 DEF StoreTypeOK, AckMessage
    <2> QED BY <2>1, <2>2, <2>3 DEF TypeOK
  <1>12. ASSUME NEW w \in Workers, FailCall(w) PROVE TypeOK'
    <2>1. QueueTypeOK' /\ StoreTypeOK'
      BY <1>0, <1>12 DEF QueueTypeOK, StoreTypeOK, FailCall, Delivered
    <2>2. WorkerTypeOK' BY <1>0, <1>12, WorkerMoves DEF FailCall
    <2> QED BY <2>1, <2>2 DEF TypeOK
  <1>13. CASE Crash
    <2>1. QueueTypeOK' BY <1>0, <1>13 DEF QueueTypeOK, Crash, Delivered, Answers
    <2>2. WorkerTypeOK' BY <1>0, <1>13 DEF QueueTypeOK, WorkerTypeOK, Crash, Steps
    <2>3. StoreTypeOK' BY <1>0, <1>13 DEF StoreTypeOK, Crash
    <2> QED BY <2>1, <2>2, <2>3 DEF TypeOK
  <1>14. CASE Restart
    BY <1>0, <1>14 DEF TypeOK, QueueTypeOK, WorkerTypeOK, StoreTypeOK, Restart,
       EnsureConsumerGroup, Delivered
  <1>15. CASE FlushAll
    BY <1>0, <1>15 DEF TypeOK, QueueTypeOK, WorkerTypeOK, StoreTypeOK, FlushAll, Delivered
  <1> QED BY <1>1, <1>2, <1>3, <1>4, <1>5, <1>6, <1>7, <1>8, <1>9, <1>10, <1>11, <1>12,
            <1>13, <1>14, <1>15 DEF Next, ProcessBatch

-----------------------------------------------------------------------------

\* A worker that abandons its batch or takes its next call leaves every
\* worker with a batch inside the one it had.
LEMMA BatchesShrink ==
    ASSUME QueueTypeOK, WorkerTypeOK, BatchShape, NEW w \in Workers, pc[w] # "idle",
           UNCHANGED <<stream, last>>,
           \/ Abandon(w)
           \/ pc[w] \in {"feed", "publish"} /\ NextEvent(w)
           \/ \E step \in Steps \ {"idle"} :
                 GoTo(w, step) /\ (step = "ack" \/ next[w] \in Batch(w))
    PROVE  /\ BatchShape'
           /\ \A v \in Workers : Batch(v)' \subseteq Batch(v)
           /\ \A v \in Workers \ {w} : /\ Batch(v)' = Batch(v)
                                       /\ pc'[v] = pc[v] /\ rows'[v] = rows[v]
  <1>1. CASE Abandon(w) BY <1>1 DEF Abandon, BatchShape, Batch, WorkerTypeOK
  <1>2. CASE pc[w] \in {"feed", "publish"} /\ NextEvent(w)
    BY <1>2 DEF NextEvent, BatchShape, Batch, WorkerTypeOK
  <1>3. CASE \E step \in Steps \ {"idle"} :
                GoTo(w, step) /\ (step = "ack" \/ next[w] \in Batch(w))
    BY <1>3 DEF GoTo, BatchShape, Batch, WorkerTypeOK
  <1> QED BY <1>1, <1>2, <1>3

\* The calls of a batch, each with what it may do to the worker's variables.
LEMMA ProcessShrinks ==
    ASSUME QueueTypeOK, WorkerTypeOK, BatchShape, NEW w \in Workers, ProcessBatch(w)
    PROVE  /\ pc[w] # "idle"
           /\ UNCHANGED <<request, stream, group, last, up>>
           /\ BatchShape'
           /\ \A v \in Workers : Batch(v)' \subseteq Batch(v)
           /\ \A v \in Workers \ {w} : /\ Batch(v)' = Batch(v)
                                       /\ pc'[v] = pc[v] /\ rows'[v] = rows[v]
  <1>1. pc[w] # "idle"
    BY DEF ProcessBatch, BatchCreateAggregatedEvents, BatchAddToDatabase, BatchInsertToClickHouse,
       BatchCreateUserEventMaps, SkipEvent, PushToRecentFeed, PublishEvent,
       EnqueueEventsForIndexing, AckMessage, FailCall
  <1>2. UNCHANGED <<request, stream, group, last, up>>
    BY DEF ProcessBatch, BatchCreateAggregatedEvents, BatchAddToDatabase, BatchInsertToClickHouse,
       BatchCreateUserEventMaps, SkipEvent, PushToRecentFeed, PublishEvent,
       EnqueueEventsForIndexing, AckMessage, FailCall, groupVars
  <1>3. CASE BatchCreateAggregatedEvents(w) /\ ~Abandon(w)
    <2>1. /\ pc[w] = "aggregate" /\ pc' = [pc EXCEPT ![w] = "raw"]
          /\ rows' = [rows EXCEPT ![w] = insertions + 1] /\ UNCHANGED <<from, to, next>>
      BY <1>3 DEF BatchCreateAggregatedEvents
    <2> QED BY <1>1, <1>2, <2>1 DEF BatchShape, Batch, WorkerTypeOK
  <1>4. CASE ~(BatchCreateAggregatedEvents(w) /\ ~Abandon(w))
    <2>1. \/ Abandon(w)
          \/ pc[w] \in {"feed", "publish"} /\ NextEvent(w)
          \/ \E step \in Steps \ {"idle"} :
                GoTo(w, step) /\ (step = "ack" \/ next[w] \in Batch(w))
      BY <1>4 DEF ProcessBatch, BatchAddToDatabase, BatchInsertToClickHouse,
         BatchCreateUserEventMaps, SkipEvent, PushToRecentFeed, PublishEvent,
         EnqueueEventsForIndexing, AckMessage, FailCall, BatchShape, Steps
    <2> QED BY <1>1, <1>2, <2>1, BatchesShrink
  <1> QED BY <1>1, <1>2, <1>3, <1>4

\* A worker that reads holds a batch above everything delivered before.
LEMMA ReadTakesNew ==
    ASSUME QueueTypeOK, WorkerTypeOK, NEW w \in Workers, ReadFromGroup(w)
    PROVE  /\ last' \in last + 1 .. Len(stream)
           /\ UNCHANGED <<request, stream, group, acked, up>>
           /\ UNCHANGED <<insertions, aggRows, userMaps, pg, click, feed, published, jobs>>
           /\ \A v \in Workers \ {w} : /\ Batch(v)' = Batch(v) /\ next'[v] = next[v]
                                       /\ pc'[v] = pc[v] /\ rows'[v] = rows[v]
                                       /\ from'[v] = from[v] /\ to'[v] = to[v]
           /\ \/ /\ pc'[w] = pc[w] /\ from'[w] = from[w] /\ to'[w] = to[w]
                 /\ next'[w] = next[w] /\ Batch(w)' = Batch(w) /\ rows'[w] = rows[w]
              \/ /\ pc'[w] = "aggregate" /\ from'[w] = last + 1 /\ to'[w] = last'
                 /\ next'[w] = last + 1 /\ Batch(w)' = last + 1 .. last'
                 /\ rows'[w] = rows[w]
  <1>1. /\ last' \in last + 1 .. Len(stream)
        /\ UNCHANGED <<request, stream, group, acked, up>>
        /\ UNCHANGED <<insertions, aggRows, userMaps, pg, click, feed, published, jobs>>
    BY DEF ReadFromGroup, aggVars, feedVars
  <1>2. CASE UNCHANGED workerVars BY <1>1, <1>2 DEF workerVars, Batch
  <1>3. CASE ~UNCHANGED workerVars
    <2>1. /\ pc' = [pc EXCEPT ![w] = "aggregate"] /\ from' = [from EXCEPT ![w] = last + 1]
          /\ to' = [to EXCEPT ![w] = last'] /\ next' = [next EXCEPT ![w] = last + 1]
          /\ rows' = rows
      BY <1>3 DEF ReadFromGroup
    <2> QED BY <1>1, <2>1 DEF Batch, WorkerTypeOK
  <1> QED BY <1>1, <1>2, <1>3

\* What the steps outside the workers do: no batch grows, nothing is stored.
LEMMA OtherSteps ==
    ASSUME QueueTypeOK, WorkerTypeOK,
           (\E e \in Events : PostEvent(e)) \/ Crash \/ Restart \/ FlushAll
    PROVE  /\ last <= last' /\ last' \in Nat /\ acked' = acked
           /\ \A i \in Delivered : Event(i)' = Event(i)
           /\ UNCHANGED <<insertions, aggRows, userMaps, pg, click, published, jobs>>
           /\ feed' \subseteq feed
           /\ \/ UNCHANGED workerVars
              \/ \A v \in Workers : /\ pc'[v] = "idle" /\ from'[v] = 1 /\ to'[v] = 0
                                    /\ Batch(v)' = {}
  <1> USE DEF groupVars, aggVars, feedVars
  <1>1. ASSUME NEW e \in Events, PostEvent(e)
        PROVE  /\ \A i \in Delivered : Event(i)' = Event(i)
               /\ last' = last /\ acked' = acked /\ UNCHANGED workerVars
    <2>2. \A i \in 1 .. Len(stream) : stream'[i] = stream[i] BY <1>1, PostKeepsEntries
    <2>3. last' = last /\ acked' = acked /\ UNCHANGED workerVars BY <1>1 DEF PostEvent, Resend, Accept, Reject
    <2> QED BY <2>2, <2>3 DEF QueueTypeOK, Delivered, Event
  <1>2. CASE \E e \in Events : PostEvent(e)
    <2>1. PICK e \in Events : PostEvent(e) BY <1>2
    <2>2. UNCHANGED <<insertions, aggRows, userMaps, pg, click, published, jobs, feed>>
      BY <2>1 DEF PostEvent, Resend, Accept, Reject
    <2> QED BY <1>1, <2>1, <2>2 DEF QueueTypeOK
  <1>3. CASE Crash
    <2>1. /\ UNCHANGED <<stream, last, acked>>
          /\ UNCHANGED <<insertions, aggRows, userMaps, pg, click, published, jobs, feed>>
      BY <1>3 DEF Crash
    <2>2. \A v \in Workers : pc'[v] = "idle" /\ from'[v] = 1 /\ to'[v] = 0 BY <1>3 DEF Crash
    <2> QED BY <2>1, <2>2 DEF QueueTypeOK, Event, Batch
  <1>4. CASE Restart
    BY <1>4 DEF Restart, EnsureConsumerGroup, QueueTypeOK, Event
  <1>5. CASE FlushAll
    BY <1>5 DEF FlushAll, QueueTypeOK, Event
  <1> QED BY <1>2, <1>3, <1>4, <1>5

-----------------------------------------------------------------------------

\* Every step keeps each worker's batch in shape: empty while it is idle,
\* delivered and around the feed loop's position otherwise.
LEMMA ShapeStep == IndInv /\ Next => BatchShape'
  <1> SUFFICES ASSUME IndInv, Next PROVE BatchShape' OBVIOUS
  <1>0. QueueTypeOK /\ WorkerTypeOK /\ BatchShape BY DEF IndInv, TypeOK
  <1>1. ASSUME NEW w \in Workers, ReadFromGroup(w) PROVE BatchShape'
    <2>1. last' \in last + 1 .. Len(stream) /\ last \in Nat BY <1>0, <1>1, ReadTakesNew DEF QueueTypeOK
    <2>2. \A v \in Workers \ {w} :
             /\ pc'[v] = pc[v] /\ from'[v] = from[v] /\ to'[v] = to[v] /\ next'[v] = next[v]
      BY <1>0, <1>1, ReadTakesNew
    <2>3. \/ /\ pc'[w] = pc[w] /\ from'[w] = from[w] /\ to'[w] = to[w] /\ next'[w] = next[w]
          \/ /\ pc'[w] = "aggregate" /\ from'[w] = last + 1 /\ to'[w] = last'
             /\ next'[w] = last + 1
      BY <1>0, <1>1, ReadTakesNew
    <2> DEFINE Shape(p, f, t, n, l) == /\ p = "idle" => f = 1 /\ t = 0
                                       /\ p # "idle" => f <= t /\ t <= l
                                       /\ p \notin {"idle", "enqueue", "ack"} => n \in f .. t
    <2>4. \A v \in Workers : Shape(pc[v], from[v], to[v], next[v], last)
      BY <1>0 DEF BatchShape, Batch
    <2>5. \A v \in Workers : to[v] \in Nat BY <1>0 DEF WorkerTypeOK, QueueTypeOK
    <2>6. \A v \in Workers : Shape(pc[v], from[v], to[v], next[v], last')
      BY <2>1, <2>4, <2>5
    <2>7. Shape("aggregate", last + 1, last', last + 1, last') BY <2>1
    <2>8. \A v \in Workers : Shape(pc'[v], from'[v], to'[v], next'[v], last')
      BY <2>2, <2>3, <2>6, <2>7
    <2> QED BY <2>8 DEF BatchShape, Batch
  <1>2. ASSUME NEW w \in Workers, ProcessBatch(w) PROVE BatchShape'
    BY <1>0, <1>2, ProcessShrinks
  <1>3. CASE (\E e \in Events : PostEvent(e)) \/ Crash \/ Restart \/ FlushAll
    <2>1. last <= last' /\ last' \in Nat /\ last \in Nat BY <1>0, <1>3, OtherSteps DEF QueueTypeOK
    <2>2. CASE UNCHANGED workerVars
      BY <1>0, <2>1, <2>2 DEF BatchShape, Batch, WorkerTypeOK, workerVars
    <2>3. CASE \A v \in Workers : pc'[v] = "idle" /\ from'[v] = 1 /\ to'[v] = 0
      BY <2>3 DEF BatchShape
    <2> QED BY <1>0, <1>3, <2>2, <2>3, OtherSteps
  <1> QED BY <1>1, <1>2, <1>3 DEF Next

\* No step makes two workers hold one entry, or one hold an acknowledged entry:
\* a read takes entries nobody was ever given.
LEMMA ExclusiveStep == IndInv /\ Next => BatchesExclusive'
  <1> SUFFICES ASSUME IndInv, Next PROVE BatchesExclusive' OBVIOUS
  <1>0. QueueTypeOK /\ WorkerTypeOK /\ BatchShape /\ BatchesExclusive BY DEF IndInv, TypeOK
  <1>1. ASSUME NEW w \in Workers, ReadFromGroup(w) PROVE BatchesExclusive'
    <2>1. last' \in last + 1 .. Len(stream) /\ last \in Nat /\ acked' = acked
      BY <1>0, <1>1, ReadTakesNew DEF QueueTypeOK
    <2>2. \A v \in Workers \ {w} : Batch(v)' = Batch(v) BY <1>0, <1>1, ReadTakesNew
    <2>3. Batch(w)' = Batch(w) \/ Batch(w)' = last + 1 .. last' BY <1>0, <1>1, ReadTakesNew
    <2>4. acked \subseteq Delivered BY <1>0 DEF QueueTypeOK
    <2>5. \A v \in Workers : Batch(v) \subseteq 1 .. last /\ Batch(v) \cap acked = {}
      BY <1>0 DEF BatchesExclusive, Delivered
    <2>6. \A v \in Workers : Batch(v)' \subseteq 1 .. last' /\ Batch(v)' \cap acked' = {}
      BY <2>1, <2>2, <2>3, <2>4, <2>5 DEF Delivered
    <2>7. ASSUME NEW u \in Workers, NEW v \in Workers, u # v PROVE Batch(u)' \cap Batch(v)' = {}
      <3>1. Batch(u) \cap Batch(v) = {} BY <1>0, <2>7 DEF BatchesExclusive
      <3> QED BY <2>1, <2>2, <2>3, <2>5, <2>7, <3>1
    <2> QED BY <2>6, <2>7 DEF BatchesExclusive, Delivered
  <1>2. ASSUME NEW w \in Workers, ProcessBatch(w) PROVE BatchesExclusive'
    <2>1. /\ last' = last /\ \A v \in Workers : Batch(v)' \subseteq Batch(v)
          /\ \A v \in Workers \ {w} : Batch(v)' = Batch(v)
      BY <1>0, <1>2, ProcessShrinks
    <2>2. acked' = acked \/ (acked' \subseteq acked \cup Batch(w) /\ Batch(w)' = {})
      <3>1. CASE AckMessage(w)
        BY <1>0, <3>1 DEF AckMessage, Abandon, Batch, WorkerTypeOK
      <3>2. CASE ~AckMessage(w)
        BY <1>2, <3>2 DEF ProcessBatch, BatchCreateAggregatedEvents, BatchAddToDatabase,
           BatchInsertToClickHouse, BatchCreateUserEventMaps, SkipEvent, PushToRecentFeed,
           PublishEvent, EnqueueEventsForIndexing, FailCall, groupVars
      <3> QED BY <3>1, <3>2
    <2> QED BY <1>0, <2>1, <2>2 DEF BatchesExclusive, Delivered
  <1>3. CASE (\E e \in Events : PostEvent(e)) \/ Crash \/ Restart \/ FlushAll
    <2>1. last <= last' /\ last' \in Nat /\ last \in Nat /\ acked' = acked
      BY <1>0, <1>3, OtherSteps DEF QueueTypeOK
    <2>2. \A v \in Workers : Batch(v)' = Batch(v) \/ Batch(v)' = {}
      BY <1>0, <1>3, OtherSteps DEF workerVars, Batch
    <2> QED BY <1>0, <2>1, <2>2 DEF BatchesExclusive, Delivered
  <1> QED BY <1>1, <1>2, <1>3 DEF Next

-----------------------------------------------------------------------------

\* A step that adds no ClickHouse row and sends no batch on to ClickHouse
\* keeps EnteredOnce.
LEMMA EnteredFrame ==
    ASSUME EnteredOnce, QueueTypeOK, QueueTypeOK', BatchesExclusive, last <= last',
           \A i \in Delivered : Event(i)' = Event(i),
           pg \subseteq pg', click' = click,
           \A v \in Workers : pc'[v] = "click" => pc[v] = "click" /\ Batch(v)' \subseteq Batch(v)
    PROVE  EnteredOnce'
  <1>1. \A i : Entered(i)' => Entered(i) BY DEF Entered
  <1>2. \A i \in Entries : click[i] > 0 => i \in Delivered /\ click[i] = 1 BY DEF EnteredOnce
  <1>3. Delivered \subseteq Delivered' BY DEF Delivered, QueueTypeOK
  <1>4. \A i \in Delivered' : Entered(i) => i \in Delivered
    <2>1. Delivered' \subseteq Entries BY DEF Delivered, Entries, QueueTypeOK
    <2> QED BY <1>2, <2>1 DEF Entered, BatchesExclusive
  <1>5. \A i \in Delivered : Entered(i) => Event(i) \in pg BY DEF EnteredOnce
  <1>6. \A i, j \in Delivered : Entered(i) /\ Entered(j) /\ Event(i) = Event(j) => i = j
    BY DEF EnteredOnce
  <1>7. \A i \in Entries : click'[i] > 0 => i \in Delivered' /\ click'[i] = 1
    BY <1>2, <1>3
  <1>8. \A i \in Delivered' : Entered(i)' => Event(i)' \in pg'
    BY <1>1, <1>4, <1>5
  <1>9. \A i, j \in Delivered' : Entered(i)' /\ Entered(j)' /\ Event(i)' = Event(j)' => i = j
    BY <1>1, <1>4, <1>6
  <1> QED BY <1>7, <1>8, <1>9 DEF EnteredOnce

\* Every step keeps ClickHouse free of duplicates: the insert of a raw batch
\* lets no second entry of an event pass.
LEMMA EnteredStep == IndInv /\ Next /\ TypeOK' => EnteredOnce'
  <1> SUFFICES ASSUME IndInv, Next, TypeOK' PROVE EnteredOnce' OBVIOUS
  <1>0. /\ QueueTypeOK /\ WorkerTypeOK /\ StoreTypeOK /\ BatchShape /\ BatchesExclusive
        /\ EnteredOnce /\ QueueTypeOK'
    BY DEF IndInv, TypeOK
  <1>1. ASSUME NEW w \in Workers, ReadFromGroup(w) PROVE EnteredOnce'
    <2>1. /\ last <= last' /\ UNCHANGED <<stream, pg, click>>
          /\ \A v \in Workers : pc'[v] = "click" => pc[v] = "click" /\ Batch(v)' \subseteq Batch(v)
      BY <1>0, <1>1, ReadTakesNew DEF QueueTypeOK
    <2> QED BY <1>0, <2>1, EnteredFrame DEF Event
  <1>2. ASSUME NEW w \in Workers, BatchAddToDatabase(w) PROVE EnteredOnce'
    <2>1. /\ UNCHANGED <<stream, last, click>> /\ pg \subseteq pg'
          /\ \A v \in Workers \ {w} : Batch(v)' = Batch(v) /\ pc'[v] = pc[v]
          /\ Batch(w)' \subseteq Batch(w)
      BY <1>0, <1>2, ProcessShrinks DEF ProcessBatch, BatchAddToDatabase
    <2>2. CASE Abandon(w)
      <3>1. pc'[w] = "idle" BY <1>0, <2>2 DEF Abandon, WorkerTypeOK
      <3> QED BY <1>0, <2>1, <3>1, EnteredFrame DEF Event, QueueTypeOK
    <2>3. CASE ~Abandon(w)
      <3>1. /\ ~Conflict(w) /\ pg' = pg \cup {Event(i) : i \in Batch(w)}
        BY <1>2, <2>3 DEF BatchAddToDatabase
      <3>2. \A i : Entered(i)' => Entered(i) \/ i \in Batch(w)
        BY <2>1 DEF Entered
      <3>3. \A i, j \in Batch(w) : Event(i) \notin pg /\ (Event(i) = Event(j) => i = j)
        BY <3>1 DEF Conflict
      <3>4. \A i \in Delivered : Entered(i)' => Event(i) \in pg'
        BY <1>0, <3>1, <3>2 DEF EnteredOnce
      <3>5. \A i, j \in Delivered : Entered(i)' /\ Entered(j)' /\ Event(i) = Event(j) => i = j
        BY <1>0, <3>2, <3>3 DEF EnteredOnce
      <3> QED BY <1>0, <2>1, <3>4, <3>5 DEF EnteredOnce, Delivered, Event
    <2> QED BY <2>2, <2>3
  <1>3. ASSUME NEW w \in Workers, BatchInsertToClickHouse(w) PROVE EnteredOnce'
    <2>1. /\ UNCHANGED <<stream, last, pg>> /\ pc[w] = "click"
          /\ \A v \in Workers \ {w} : Batch(v)' = Batch(v) /\ pc'[v] = pc[v]
      BY <1>0, <1>3, ProcessShrinks DEF ProcessBatch, BatchInsertToClickHouse
    <2>2. pc'[w] # "click"
      BY <1>0, <1>3 DEF BatchInsertToClickHouse, Abandon, GoTo, WorkerTypeOK
    <2>3. click' = [i \in Entries |-> click[i] + (IF i \in Batch(w) THEN 1 ELSE 0)]
      BY <1>3 DEF BatchInsertToClickHouse
    <2>4. \A i \in Batch(w) : click[i] = 0 BY <2>1 DEF IndInv, Written
    <2>5. \A i \in Entries : click'[i] > 0 => i \in Delivered /\ click'[i] = 1
      BY <1>0, <2>3, <2>4 DEF EnteredOnce, BatchesExclusive, StoreTypeOK
    <2>6. \A i \in Delivered : Entered(i)' => Entered(i)
      <3>1. Delivered \subseteq Entries BY <1>0 DEF Delivered, Entries, QueueTypeOK
      <3>2. \A i \in Delivered : click'[i] > 0 => click[i] > 0 \/ i \in Batch(w)
        BY <1>0, <2>3, <3>1 DEF StoreTypeOK
      <3> QED BY <2>1, <2>2, <3>2 DEF Entered
    <2> QED BY <1>0, <2>1, <2>5, <2>6 DEF EnteredOnce, Delivered, Event
  <1>4. ASSUME NEW w \in Workers, ProcessBatch(w), ~BatchAddToDatabase(w),
               ~BatchInsertToClickHouse(w)
        PROVE  EnteredOnce'
    <2>1. /\ UNCHANGED <<stream, last>>
          /\ \A v \in Workers \ {w} : Batch(v)' = Batch(v) /\ pc'[v] = pc[v]
      BY <1>0, <1>4, ProcessShrinks
    <2>2. UNCHANGED <<pg, click>>
      BY <1>4 DEF ProcessBatch, BatchCreateAggregatedEvents, BatchCreateUserEventMaps, SkipEvent,
         PushToRecentFeed, PublishEvent, EnqueueEventsForIndexing, AckMessage, FailCall
    <2>3. pc'[w] # "click"
      BY <1>0, <1>4 DEF ProcessBatch, BatchCreateAggregatedEvents, BatchCreateUserEventMaps,
         SkipEvent, PushToRecentFeed, PublishEvent, EnqueueEventsForIndexing, AckMessage, FailCall,
         Abandon, GoTo, NextEvent, WorkerTypeOK
    <2>4. \A v \in Workers : pc'[v] = "click" => pc[v] = "click" /\ Batch(v)' \subseteq Batch(v)
      BY <2>1, <2>3
    <2>5. last <= last' /\ \A i \in Delivered : Event(i)' = Event(i)
      BY <1>0, <2>1 DEF QueueTypeOK, Event
    <2> QED BY <1>0, <2>2, <2>4, <2>5, EnteredFrame
  <1>5. CASE (\E e \in Events : PostEvent(e)) \/ Crash \/ Restart \/ FlushAll
    <2>1. /\ last <= last' /\ \A i \in Delivered : Event(i)' = Event(i)
          /\ UNCHANGED <<pg, click>>
      BY <1>0, <1>5, OtherSteps
    <2>2. \A v \in Workers : pc'[v] = "click" => pc[v] = "click" /\ Batch(v)' \subseteq Batch(v)
      BY <1>0, <1>5, OtherSteps DEF workerVars, Batch
    <2> QED BY <1>0, <2>1, <2>2, EnteredFrame
  <1> QED BY <1>1, <1>2, <1>3, <1>4, <1>5 DEF Next

-----------------------------------------------------------------------------

\* Every step keeps the aggregated rows disjoint: the entries a worker is about
\* to count are in no row.
LEMMA RowsStep == IndInv /\ Next => RowsSound'
  <1> SUFFICES ASSUME IndInv, Next PROVE RowsSound' OBVIOUS
  <1>0. /\ QueueTypeOK /\ WorkerTypeOK /\ StoreTypeOK /\ BatchShape /\ BatchesExclusive
        /\ RowsSound
    BY DEF IndInv, TypeOK
  <1>1. ASSUME NEW w \in Workers, BatchCreateAggregatedEvents(w) PROVE RowsSound'
    <2>1. /\ last' = last /\ pc[w] = "aggregate"
          /\ aggRows' = aggRows \cup NewRows(w, insertions + 1)
      BY <1>1 DEF BatchCreateAggregatedEvents, groupVars
    <2>2. \A r \in NewRows(w, insertions + 1) :
             \E k \in BatchKeys(w) : /\ r.id = RowId(insertions + 1, k)
                                     /\ r.entries = Grouped(w, k)
                                     /\ r = [id |-> r.id, entries |-> r.entries]
      BY DEF NewRows
    <2>3. \A k : Grouped(w, k) \subseteq Batch(w) BY DEF Grouped
    <2>4. \A k, l : k # l => Grouped(w, k) \cap Grouped(w, l) = {} BY DEF Grouped
    <2>5. \A r \in aggRows : r.entries \cap Batch(w) = {}
      BY <2>1 DEF IndInv, Written
    <2>6. \A r, s \in NewRows(w, insertions + 1) : r # s => r.entries \cap s.entries = {}
      BY <2>2, <2>4
    <2>7. \A r \in aggRows, s \in NewRows(w, insertions + 1) : r.entries \cap s.entries = {}
      BY <2>2, <2>3, <2>5
    <2>8. \A r \in NewRows(w, insertions + 1) : r.entries \subseteq Delivered
      BY <1>0, <2>2, <2>3 DEF BatchesExclusive
    <2> QED BY <1>0, <2>1, <2>6, <2>7, <2>8 DEF RowsSound, CountedOnce, Delivered
  <1>2. ASSUME NEW w \in Workers,
               \/ ReadFromGroup(w)
               \/ ProcessBatch(w) /\ ~BatchCreateAggregatedEvents(w)
        PROVE  RowsSound'
    <2>1. aggRows' = aggRows
      BY <1>2 DEF ReadFromGroup, ProcessBatch, BatchAddToDatabase, BatchInsertToClickHouse,
         BatchCreateUserEventMaps, SkipEvent, PushToRecentFeed, PublishEvent,
         EnqueueEventsForIndexing, AckMessage, FailCall, aggVars
    <2>2. last <= last' /\ last \in Nat /\ last' \in Nat
      BY <1>0, <1>2, ReadTakesNew, ProcessShrinks DEF QueueTypeOK
    <2> QED BY <1>0, <2>1, <2>2 DEF RowsSound, CountedOnce, Delivered
  <1>3. CASE (\E e \in Events : PostEvent(e)) \/ Crash \/ Restart \/ FlushAll
    <2>1. last <= last' /\ last' \in Nat /\ last \in Nat /\ aggRows' = aggRows
      BY <1>0, <1>3, OtherSteps DEF QueueTypeOK
    <2> QED BY <1>0, <2>1 DEF RowsSound, CountedOnce, Delivered
  <1> QED BY <1>1, <1>2, <1>3 DEF Next

-----------------------------------------------------------------------------

\* What a step may do to the stores: nothing but add, and to ClickHouse only
\* rows of entries that have none.
LEMMA StoresGrow ==
    ASSUME IndInv, Next
    PROVE  /\ last <= last' /\ last \in Nat /\ last' \in Nat
           /\ \A i \in Delivered : Event(i)' = Event(i)
           /\ pg \subseteq pg' /\ aggRows \subseteq aggRows' /\ userMaps \subseteq userMaps'
           /\ \A i \in Entries : click[i] > 0 => click'[i] = click[i]
  <1>0. /\ QueueTypeOK /\ WorkerTypeOK /\ StoreTypeOK /\ BatchShape BY DEF IndInv, TypeOK
  <1>1. ASSUME NEW w \in Workers, ReadFromGroup(w)
        PROVE  /\ last < last' /\ last' \in Nat
               /\ UNCHANGED <<stream, aggRows, userMaps, pg, click>>
    BY <1>0, <1>1, ReadTakesNew DEF QueueTypeOK
  <1>2. ASSUME NEW w \in Workers, ProcessBatch(w)
        PROVE  /\ UNCHANGED <<stream, last>>
               /\ pg \subseteq pg' /\ aggRows \subseteq aggRows' /\ userMaps \subseteq userMaps'
               /\ \A i \in Entries : click[i] > 0 => click'[i] = click[i]
    <2>1. UNCHANGED <<stream, last>> BY <1>0, <1>2, ProcessShrinks
    <2>2. pg \subseteq pg' /\ aggRows \subseteq aggRows' /\ userMaps \subseteq userMaps'
      BY <1>2 DEF ProcessBatch, BatchCreateAggregatedEvents, BatchAddToDatabase,
         BatchInsertToClickHouse, BatchCreateUserEventMaps, SkipEvent, PushToRecentFeed,
         PublishEvent, EnqueueEventsForIndexing, AckMessage, FailCall, aggVars
    <2>3. CASE BatchInsertToClickHouse(w)
      <3>1. click' = [i \in Entries |-> click[i] + (IF i \in Batch(w) THEN 1 ELSE 0)]
        BY <2>3 DEF BatchInsertToClickHouse
      <3>2. \A i \in Batch(w) : click[i] = 0
        BY <2>3 DEF IndInv, Written, BatchInsertToClickHouse
      <3> QED BY <1>0, <2>1, <2>2, <3>1, <3>2 DEF StoreTypeOK
    <2>4. CASE ~BatchInsertToClickHouse(w)
      <3>1. click' = click
        BY <1>2, <2>4 DEF ProcessBatch, BatchCreateAggregatedEvents, BatchAddToDatabase,
           BatchCreateUserEventMaps, SkipEvent, PushToRecentFeed, PublishEvent,
           EnqueueEventsForIndexing, AckMessage, FailCall
      <3> QED BY <2>1, <2>2, <3>1
    <2> QED BY <2>3, <2>4
  <1>3. CASE (\E e \in Events : PostEvent(e)) \/ Crash \/ Restart \/ FlushAll
    <2>1. /\ last <= last' /\ last' \in Nat /\ UNCHANGED <<aggRows, userMaps, pg, click>>
          /\ \A i \in Delivered : Event(i)' = Event(i)
      BY <1>0, <1>3, OtherSteps
    <2> QED BY <1>0, <2>1 DEF QueueTypeOK
  <1>4. last \in Nat BY <1>0 DEF QueueTypeOK
  <1> QED BY <1>1, <1>2, <1>3, <1>4 DEF Next, Event

\* Once every store has an entry, every store keeps it.
LEMMA StoredStable ==
    ASSUME IndInv, Next, NEW i \in Delivered, Stored(i)
    PROVE  Stored(i)'
  <1>1. i \in Entries BY DEF IndInv, TypeOK, QueueTypeOK, Delivered, Entries
  <1>2. click'[i] = 1 BY <1>1, StoresGrow DEF Stored
  <1> QED BY <1>2, StoresGrow DEF Stored

\* An event every store has stays there, whatever the step.
LEMMA StoredEventStable ==
    ASSUME IndInv, Next, NEW e, StoredEvent(e)
    PROVE  StoredEvent(e)'
  <1>1. PICK i \in Delivered : Event(i) = e /\ Stored(i) BY DEF StoredEvent
  <1>2. i \in Delivered' /\ Event(i)' = e BY <1>1, StoresGrow DEF Delivered
  <1> QED BY <1>1, <1>2, StoredStable DEF StoredEvent

\* Written(v) survives a step in which v does nothing and no other worker
\* writes for v's batch.
LEMMA WrittenFrame ==
    ASSUME IndInv, Next, NEW v \in Workers, pc'[v] = pc[v],
           Batch(v)' = Batch(v), rows'[v] = rows[v],
           \A i \in Batch(v) : click'[i] = click[i],
           \A r \in aggRows' \ aggRows : r.entries \cap Batch(v) = {}
    PROVE  Written(v)'
  <1>1. Written(v) /\ Batch(v) \subseteq Delivered BY DEF IndInv, BatchesExclusive
  <1> SUFFICES ASSUME NEW i \in Batch(v) PROVE
        /\ pc[v] \in {"aggregate", "raw", "click"} => click'[i] = 0
        /\ pc[v] = "aggregate" => \A r \in aggRows' : i \notin r.entries
        /\ pc[v] \in {"raw", "click", "maps"} =>
              \E r \in aggRows' : r.id = RowId(rows[v], KeyOf[Event(i)]) /\ i \in r.entries
        /\ pc[v] \in PastRaw => Event(i) \in pg'
        /\ pc[v] = "maps" => click'[i] = 1
        /\ pc[v] \in PastMaps => Stored(i)'
    <2>1. \A i \in Batch(v) : Event(i)' = Event(i) BY <1>1, StoresGrow
    <2> QED BY <2>1 DEF Written, RowId, PastRaw, PastMaps
  <1>2. /\ pc[v] \in {"aggregate", "raw", "click"} => click'[i] = 0
        /\ pc[v] = "maps" => click'[i] = 1
    BY <1>1 DEF Written
  <1>3. pc[v] = "aggregate" => \A r \in aggRows' : i \notin r.entries
    BY <1>1 DEF Written
  <1>4. pc[v] \in {"raw", "click", "maps"} =>
           \E r \in aggRows' : r.id = RowId(rows[v], KeyOf[Event(i)]) /\ i \in r.entries
    BY <1>1, StoresGrow DEF Written
  <1>5. pc[v] \in PastRaw => Event(i) \in pg' BY <1>1, StoresGrow DEF Written
  <1>6. pc[v] \in PastMaps => Stored(i)' BY <1>1, StoredStable DEF Written
  <1> QED BY <1>2, <1>3, <1>4, <1>5, <1>6

\* Every step leaves each worker's batch written as far as its pc says.
LEMMA WrittenStep == IndInv /\ Next => \A v \in Workers : Written(v)'
  <1> SUFFICES ASSUME IndInv, Next, NEW v \in Workers PROVE Written(v)' OBVIOUS
  <1>0. /\ QueueTypeOK /\ WorkerTypeOK /\ StoreTypeOK /\ BatchShape /\ BatchesExclusive
        /\ EnteredOnce /\ RowsSound /\ Written(v)
        /\ Batch(v) \subseteq Delivered /\ Batch(v) \subseteq Entries
    BY BatchEvents DEF IndInv, TypeOK, BatchesExclusive
  <1>1. ASSUME NEW w \in Workers, ReadFromGroup(w) PROVE Written(v)'
    <2>1. UNCHANGED <<aggRows, click, stream>> BY <1>0, <1>1, ReadTakesNew
    <2>2. CASE pc'[v] = pc[v] /\ Batch(v)' = Batch(v) /\ rows'[v] = rows[v]
      BY <2>1, <2>2, WrittenFrame
    <2>3. CASE pc'[v] = "aggregate" /\ Batch(v)' = last + 1 .. last'
      <3>1. last' \in last + 1 .. Len(stream) /\ last \in Nat
        BY <1>0, <1>1, ReadTakesNew DEF QueueTypeOK
      <3>2. \A i \in Batch(v)' : i \notin Delivered /\ i \in Entries
        BY <1>0, <2>3, <3>1 DEF Delivered, Entries, QueueTypeOK
      <3>3. \A i \in Batch(v)' : click[i] = 0
        BY <1>0, <3>2 DEF EnteredOnce, StoreTypeOK
      <3>4. \A i \in Batch(v)' : \A r \in aggRows : i \notin r.entries
        BY <1>0, <3>2 DEF RowsSound
      <3> QED BY <2>1, <2>3, <3>3, <3>4 DEF Written, PastRaw, PastMaps
    <2> QED BY <1>0, <1>1, <2>2, <2>3, ReadTakesNew
  <1>2. ASSUME NEW w \in Workers, ProcessBatch(w), v # w PROVE Written(v)'
    <2>1. pc'[v] = pc[v] /\ Batch(v)' = Batch(v) /\ rows'[v] = rows[v]
      BY <1>0, <1>2, ProcessShrinks
    <2>2. Batch(v) \cap Batch(w) = {} BY <1>0, <1>2 DEF BatchesExclusive
    <2>3. \A r \in aggRows' \ aggRows : r.entries \cap Batch(v) = {}
      <3>1. CASE BatchCreateAggregatedEvents(w)
        BY <2>2, <3>1 DEF BatchCreateAggregatedEvents, NewRows, Grouped
      <3>2. CASE ~BatchCreateAggregatedEvents(w)
        BY <1>2, <3>2 DEF ProcessBatch, BatchAddToDatabase, BatchInsertToClickHouse,
           BatchCreateUserEventMaps, SkipEvent, PushToRecentFeed, PublishEvent,
           EnqueueEventsForIndexing, AckMessage, FailCall, aggVars
      <3> QED BY <3>1, <3>2
    <2>4. \A i \in Batch(v) : click'[i] = click[i]
      <3>1. CASE BatchInsertToClickHouse(w)
        BY <1>0, <2>2, <3>1 DEF BatchInsertToClickHouse, StoreTypeOK
      <3>2. CASE ~BatchInsertToClickHouse(w)
        BY <1>2, <3>2 DEF ProcessBatch, BatchCreateAggregatedEvents, BatchAddToDatabase,
           BatchCreateUserEventMaps, SkipEvent, PushToRecentFeed, PublishEvent,
           EnqueueEventsForIndexing, AckMessage, FailCall
      <3> QED BY <3>1, <3>2
    <2> QED BY <2>1, <2>3, <2>4, WrittenFrame
  <1>3. CASE ProcessBatch(v) /\ Abandon(v)
    <2>1. Batch(v)' = {} BY <1>0, <1>3 DEF Abandon, Batch, WorkerTypeOK
    <2> QED BY <2>1 DEF Written
  <1>4. CASE ProcessBatch(v) /\ ~Abandon(v)
    <2>0. /\ UNCHANGED <<stream, last>> /\ Batch(v)' \subseteq Batch(v)
      BY <1>0, <1>4, ProcessShrinks
    <2>1. CASE BatchCreateAggregatedEvents(v)
      <3>1. /\ pc[v] = "aggregate" /\ pc' = [pc EXCEPT ![v] = "raw"]
            /\ rows' = [rows EXCEPT ![v] = insertions + 1] /\ click' = click
            /\ aggRows' = aggRows \cup NewRows(v, insertions + 1)
        BY <1>4, <2>1 DEF BatchCreateAggregatedEvents
      <3>2. pc'[v] = "raw" /\ rows'[v] = insertions + 1 BY <1>0, <3>1 DEF WorkerTypeOK
      <3>3. \A i \in Batch(v) :
               \E r \in aggRows' : r.id = RowId(insertions + 1, KeyOf[Event(i)]) /\ i \in r.entries
        <4> SUFFICES ASSUME NEW i \in Batch(v)
            PROVE \E r \in aggRows' : r.id = RowId(insertions + 1, KeyOf[Event(i)]) /\ i \in r.entries
          OBVIOUS
        <4> DEFINE r == [id |-> RowId(insertions + 1, KeyOf[Event(i)]),
                         entries |-> Grouped(v, KeyOf[Event(i)])]
        <4>1. r \in aggRows' BY <3>1 DEF NewRows, BatchKeys
        <4>2. i \in r.entries BY DEF Grouped
        <4> QED BY <4>1, <4>2
      <3>4. \A i \in Batch(v) : click'[i] = 0 BY <1>0, <3>1 DEF Written
      <3> QED BY <2>0, <3>2, <3>3, <3>4 DEF Written, RowId, Event, PastRaw, PastMaps
    <2>2. CASE BatchAddToDatabase(v)
      <3>1. /\ pc[v] = "raw" /\ pc' = [pc EXCEPT ![v] = "click"]
            /\ UNCHANGED <<rows, aggRows, click>>
            /\ pg' = pg \cup {Event(i) : i \in Batch(v)}
        BY <1>4, <2>2 DEF BatchAddToDatabase, GoTo, aggVars
      <3>2. pc'[v] = "click" BY <1>0, <3>1 DEF WorkerTypeOK
      <3> QED BY <1>0, <2>0, <3>1, <3>2 DEF Written, RowId, Event, PastRaw, PastMaps
    <2>3. CASE BatchInsertToClickHouse(v)
      <3>1. /\ pc[v] = "click" /\ pc' = [pc EXCEPT ![v] = "maps"]
            /\ UNCHANGED <<rows, aggRows, pg>>
            /\ click' = [i \in Entries |-> click[i] + (IF i \in Batch(v) THEN 1 ELSE 0)]
        BY <1>4, <2>3 DEF BatchInsertToClickHouse, GoTo, aggVars
      <3>2. pc'[v] = "maps" BY <1>0, <3>1 DEF WorkerTypeOK
      <3>3. \A i \in Batch(v) : click'[i] = 1 BY <1>0, <3>1 DEF Written
      <3> QED BY <1>0, <2>0, <3>1, <3>2, <3>3 DEF Written, RowId, Event, PastRaw, PastMaps
    <2>4. CASE BatchCreateUserEventMaps(v)
      <3>1. /\ pc[v] = "maps" /\ pc' = [pc EXCEPT ![v] = "feed"]
            /\ UNCHANGED <<rows, aggRows, pg, click>>
            /\ userMaps' = userMaps \cup NewUserMaps(v)
        BY <1>4, <2>4 DEF BatchCreateUserEventMaps, GoTo, aggVars
      <3>2. pc'[v] = "feed" BY <1>0, <3>1 DEF WorkerTypeOK
      <3>3. \A i \in Batch(v) : Stored(i)'
        BY <1>0, <2>0, <3>1 DEF Written, NewUserMaps, Stored, Event, PastRaw
      <3>4. \A i \in Batch(v) : Event(i)' \in pg'
        BY <1>0, <2>0, <3>1 DEF Written, Event, PastRaw
      <3> QED BY <2>0, <3>2, <3>3, <3>4 DEF Written, PastRaw, PastMaps
    <2>5. CASE \/ SkipEvent(v) \/ PushToRecentFeed(v) \/ PublishEvent(v)
               \/ EnqueueEventsForIndexing(v)
      <3>1. pc[v] \in PastMaps
        BY <2>5 DEF SkipEvent, PushToRecentFeed, PublishEvent, EnqueueEventsForIndexing, PastMaps
      <3>2. pc'[v] \in PastMaps
        BY <1>0, <1>4, <2>5 DEF SkipEvent, PushToRecentFeed, PublishEvent,
           EnqueueEventsForIndexing, PastMaps, NextEvent, GoTo, WorkerTypeOK
      <3>3. \A i \in Batch(v)' : Stored(i)'
        BY <1>0, <2>0, <3>1, StoredStable DEF Written
      <3> QED BY <3>2, <3>3 DEF Written, Stored, PastMaps
    <2>6. CASE AckMessage(v) \/ FailCall(v) BY <1>4, <2>6 DEF AckMessage, FailCall
    <2> QED BY <1>4, <2>1, <2>2, <2>3, <2>4, <2>5, <2>6 DEF ProcessBatch
  <1>5. CASE (\E e \in Events : PostEvent(e)) \/ Crash \/ Restart \/ FlushAll
    <2>1. UNCHANGED <<aggRows, click>> BY <1>0, <1>5, OtherSteps
    <2>2. CASE UNCHANGED workerVars
      BY <2>1, <2>2, WrittenFrame DEF workerVars, Batch
    <2>3. CASE Batch(v)' = {} BY <2>3 DEF Written
    <2> QED BY <1>0, <1>5, <2>2, <2>3, OtherSteps
  <1> QED BY <1>1, <1>2, <1>3, <1>4, <1>5 DEF Next

-----------------------------------------------------------------------------

\* Every step acknowledges only entries every store has.
LEMMA AckedStep == IndInv /\ Next => AckedIsStored'
  <1> SUFFICES ASSUME IndInv, Next, NEW i \in acked' PROVE Stored(i)'
    BY DEF AckedIsStored
  <1>0. QueueTypeOK /\ WorkerTypeOK /\ BatchShape /\ BatchesExclusive BY DEF IndInv, TypeOK
  <1>1. CASE i \in acked
    BY <1>0, <1>1, StoredStable DEF IndInv, AckedIsStored, QueueTypeOK
  <1>2. CASE i \notin acked
    <2>1. PICK w \in Workers : AckMessage(w)
      <3>1. \A w \in Workers : ProcessBatch(w) /\ ~AckMessage(w) => acked' = acked
        BY DEF ProcessBatch, BatchCreateAggregatedEvents, BatchAddToDatabase,
           BatchInsertToClickHouse, BatchCreateUserEventMaps, SkipEvent, PushToRecentFeed,
           PublishEvent, EnqueueEventsForIndexing, FailCall, groupVars
      <3> QED BY <1>0, <1>2, <3>1, ReadTakesNew, OtherSteps DEF Next
    <2>2. pc[w] = "ack" /\ i \in Batch(w) BY <1>2, <2>1 DEF AckMessage
    <2>3. Stored(i) BY <2>2 DEF IndInv, Written, PastMaps
    <2> QED BY <1>0, <2>2, <2>3, StoredStable DEF BatchesExclusive
  <1> QED BY <1>1, <1>2

\* A slice of a sequence: its type, its length and its elements.
LEMMA SliceProperties ==
    ASSUME NEW S, NEW q \in Seq(S), NEW m \in Nat \ {0}, NEW n \in Nat,
           m - 1 <= n, n <= Len(q)
    PROVE  /\ SubSeq(q, m, n) \in Seq(S)
           /\ Len(SubSeq(q, m, n)) = n - m + 1
           /\ \A k \in 1 .. n - m + 1 : SubSeq(q, m, n)[k] = q[m + k - 1]
  <1>1. Len(SubSeq(q, m, n)) = n - m + 1
    OBVIOUS
  <1>2. \A k \in 1 .. n - m + 1 : SubSeq(q, m, n)[k] = q[m + k - 1]
    OBVIOUS
  <1>3. SubSeq(q, m, n) \in Seq(S)
    OBVIOUS
  <1> QED BY <1>1, <1>2, <1>3

\* Every step feeds, publishes and queues only events every store has.
LEMMA PersistenceStep == IndInv /\ Next => PersistenceFirst'
  <1> SUFFICES ASSUME IndInv, Next PROVE PersistenceFirst' OBVIOUS
  <1>0. /\ QueueTypeOK /\ WorkerTypeOK /\ StoreTypeOK /\ BatchShape /\ PersistenceFirst
    BY DEF IndInv, TypeOK
  <1>a. \A w \in Workers : pc[w] \in PastMaps => \A i \in Batch(w) : StoredEvent(Event(i))
    BY DEF IndInv, Written, StoredEvent, BatchesExclusive
  <1>1. ASSUME NEW w \in Workers, PushToRecentFeed(w) PROVE PersistenceFirst'
    <2>1. /\ feed' \subseteq feed \cup {Event(next[w])} /\ UNCHANGED <<published, jobs>>
      BY <1>1 DEF PushToRecentFeed, Newest
    <2>2. StoredEvent(Event(next[w]))
      <3>1. pc[w] = "feed" /\ next[w] \in Batch(w) BY <1>0, <1>1 DEF PushToRecentFeed, BatchShape
      <3> QED BY <1>a, <3>1 DEF PastMaps
    <2> QED BY <1>0, <2>1, <2>2, StoredEventStable DEF PersistenceFirst
  <1>2. ASSUME NEW w \in Workers, PublishEvent(w) PROVE PersistenceFirst'
    <2>1. /\ published' = published \cup {Event(next[w])} /\ UNCHANGED <<feed, jobs>>
      BY <1>2 DEF PublishEvent, feedVars
    <2>2. StoredEvent(Event(next[w]))
      <3>1. pc[w] = "publish" /\ next[w] \in Batch(w) BY <1>0, <1>2 DEF PublishEvent, BatchShape
      <3> QED BY <1>a, <3>1 DEF PastMaps
    <2> QED BY <1>0, <2>1, <2>2, StoredEventStable DEF PersistenceFirst
  <1>3. ASSUME NEW w \in Workers, EnqueueEventsForIndexing(w) PROVE PersistenceFirst'
    <2>1. /\ pc[w] = "enqueue" /\ UNCHANGED <<feed, published>>
      BY <1>3 DEF EnqueueEventsForIndexing, feedVars
    <2>2. PICK n \in from[w] - 1 .. to[w] : jobs' = jobs \o SubSeq(stream, from[w], n)
      BY <1>3 DEF EnqueueEventsForIndexing
    <2>3. /\ from[w] \in Nat \ {0} /\ to[w] \in 0 .. Len(stream) /\ stream \in Seq(Events)
          /\ jobs \in Seq(Events)
      BY <1>0 DEF QueueTypeOK, WorkerTypeOK
    <2>4. \A j \in 1 .. Len(jobs') :
             \/ j \in 1 .. Len(jobs) /\ jobs'[j] = jobs[j]
             \/ \E i \in Batch(w) : jobs'[j] = Event(i)
      <3> DEFINE s == SubSeq(stream, from[w], n)
      <3>0. /\ from[w] \in Nat \ {0} /\ n \in Nat
            /\ from[w] - 1 <= n /\ n <= Len(stream)
            /\ stream \in Seq(Events) /\ Len(stream) \in Nat
        BY <2>2, <2>3
      <3>1. /\ s \in Seq(Events) /\ Len(s) = n - from[w] + 1
            /\ \A k \in 1 .. Len(s) : s[k] = stream[from[w] + k - 1]
        BY <3>0, SliceProperties
      <3> HIDE DEF s
      <3>2. ASSUME NEW k \in 1 .. Len(s) PROVE from[w] + k - 1 \in from[w] .. to[w]
        <4>1. Len(s) = n - from[w] + 1 BY <3>1
        <4>2. n \in from[w] - 1 .. to[w] /\ to[w] \in Nat BY <2>2, <2>3
        <4> QED BY <3>0, <4>1, <4>2
      <3>3. \A k \in 1 .. Len(s) : \E i \in Batch(w) : s[k] = Event(i)
        BY <3>1, <3>2 DEF Event, Batch
      <3>4. jobs' = jobs \o s BY <2>2 DEF s
      <3>5. \A j \in 1 .. Len(jobs') :
               \/ j \in 1 .. Len(jobs) /\ jobs'[j] = jobs[j]
               \/ j - Len(jobs) \in 1 .. Len(s) /\ jobs'[j] = s[j - Len(jobs)]
        BY <2>3, <3>1, <3>4
      <3> QED BY <3>3, <3>5
    <2>5. \A i \in Batch(w) : StoredEvent(Event(i)) BY <1>a, <2>1 DEF PastMaps
    <2>6. \A j \in 1 .. Len(jobs') : StoredEvent(jobs'[j])
      BY <1>0, <2>4, <2>5 DEF PersistenceFirst
    <2>7. \A e \in feed' \cup published' : StoredEvent(e) BY <1>0, <2>1 DEF PersistenceFirst
    <2> QED BY <2>6, <2>7, StoredEventStable DEF PersistenceFirst
  <1>4. ASSUME NEW w \in Workers,
               \/ ReadFromGroup(w)
               \/ /\ ProcessBatch(w) /\ ~PushToRecentFeed(w) /\ ~PublishEvent(w)
                  /\ ~EnqueueEventsForIndexing(w)
        PROVE  PersistenceFirst'
    <2>1. UNCHANGED <<feed, published, jobs>>
      BY <1>4 DEF ReadFromGroup, ProcessBatch, BatchCreateAggregatedEvents, BatchAddToDatabase,
         BatchInsertToClickHouse, BatchCreateUserEventMaps, SkipEvent, AckMessage, FailCall,
         feedVars
    <2> QED BY <1>0, <2>1, StoredEventStable DEF PersistenceFirst
  <1>5. CASE (\E e \in Events : PostEvent(e)) \/ Crash \/ Restart \/ FlushAll
    <2>1. feed' \subseteq feed /\ UNCHANGED <<published, jobs>> BY <1>0, <1>5, OtherSteps
    <2> QED BY <1>0, <2>1, StoredEventStable DEF PersistenceFirst
  <1> QED BY <1>1, <1>2, <1>3, <1>4, <1>5 DEF Next, ProcessBatch

-----------------------------------------------------------------------------

\* A stuttering step changes nothing.
LEMMA IndInvStutter == IndInv /\ UNCHANGED vars => IndInv'
  <1> SUFFICES ASSUME IndInv, UNCHANGED vars PROVE IndInv' OBVIOUS
  <1> USE DEF vars, groupVars, workerVars, aggVars, feedVars
  <1>1. TypeOK'
    BY DEF IndInv, TypeOK, QueueTypeOK, WorkerTypeOK, StoreTypeOK, Delivered
  <1>2. BatchShape' /\ BatchesExclusive'
    BY DEF IndInv, BatchShape, BatchesExclusive, Batch, Delivered
  <1>3. EnteredOnce' /\ RowsSound'
    BY DEF IndInv, EnteredOnce, Entered, RowsSound, CountedOnce, Batch, Delivered, Event
  <1>4. \A i : Stored(i)' = Stored(i) BY DEF Stored, Event
  <1>5. \A w \in Workers : Written(w)'
    BY <1>4 DEF IndInv, Written, Batch, Event, RowId
  <1>6. AckedIsStored' /\ PersistenceFirst'
    BY <1>4 DEF IndInv, AckedIsStored, PersistenceFirst, StoredEvent, Event, Delivered
  <1> QED BY <1>1, <1>2, <1>3, <1>5, <1>6 DEF IndInv

\* IndInv is an inductive invariant of the write path.
THEOREM Invariance == Spec => []IndInv
  <1>1. Init => IndInv BY InitIndInv
  <1>2. IndInv /\ [Next]_vars => IndInv'
    <2> SUFFICES ASSUME IndInv, [Next]_vars PROVE IndInv' OBVIOUS
    <2>1. CASE Next
      BY <2>1, TypeStep, ShapeStep, ExclusiveStep, EnteredStep, RowsStep, WrittenStep, AckedStep,
         PersistenceStep DEF IndInv
    <2>2. CASE UNCHANGED vars BY <2>2, IndInvStutter
    <2> QED BY <2>1, <2>2
  <1> QED BY <1>1, <1>2, PTL DEF Spec

\* The variables keep their types.
THEOREM TypeCorrect == Spec => []TypeOK
  <1>1. IndInv => TypeOK BY DEF IndInv
  <1> QED BY <1>1, Invariance, PTL

\* Nothing is served from the feed, published or queued for search before
\* every store has it.
THEOREM PersistenceFirstHolds == Spec => []PersistenceFirst
  <1>1. IndInv => PersistenceFirst BY DEF IndInv
  <1> QED BY <1>1, Invariance, PTL

\* An acknowledged entry is in every store.
THEOREM AckedIsStoredHolds == Spec => []AckedIsStored
  <1>1. IndInv => AckedIsStored BY DEF IndInv
  <1> QED BY <1>1, Invariance, PTL

\* No two workers ever hold a common entry, nor one that was acknowledged.
THEOREM BatchesExclusiveHolds == Spec => []BatchesExclusive
  <1>1. IndInv => BatchesExclusive BY DEF IndInv
  <1> QED BY <1>1, Invariance, PTL

\* No entry is counted by two aggregated rows.
THEOREM CountedOnceHolds == Spec => []CountedOnce
  <1>1. IndInv => CountedOnce BY DEF IndInv, RowsSound
  <1> QED BY <1>1, Invariance, PTL

\* An event is in ClickHouse at most once, and only if it is in PostgreSQL,
\* although the stream may hold it twice.
THEOREM ClickHouseOnceHolds == Spec => []ClickHouseOnce
  <1>1. IndInv => ClickHouseOnce
    <2> SUFFICES ASSUME IndInv, NEW i \in Entries, click[i] > 0
        PROVE  /\ i \in Delivered /\ click[i] = 1 /\ Event(i) \in pg
               /\ \A j \in Delivered \ {i} : Event(j) = Event(i) => click[j] = 0
      BY DEF ClickHouseOnce
    <2>1. EnteredOnce /\ QueueTypeOK /\ StoreTypeOK BY DEF IndInv, TypeOK
    <2>2. i \in Delivered /\ click[i] = 1 /\ Entered(i) BY <2>1 DEF EnteredOnce, Entered
    <2>3. Event(i) \in pg BY <2>1, <2>2 DEF EnteredOnce
    <2>4. ASSUME NEW j \in Delivered \ {i}, Event(j) = Event(i) PROVE click[j] = 0
      <3>1. ~Entered(j) BY <2>1, <2>2, <2>4 DEF EnteredOnce
      <3>2. click[j] \in Nat
        BY <2>1 DEF StoreTypeOK, QueueTypeOK, Delivered, Entries
      <3> QED BY <3>1, <3>2 DEF Entered
    <2> QED BY <2>2, <2>3, <2>4
  <1> QED BY <1>1, Invariance, PTL

-----------------------------------------------------------------------------
(* The user maps.  They name a row by the insertion and key it came from,  *)
(* so what must be known is that these identify it, and that a worker that *)
(* is to write its maps finds the rows it inserted as it inserted them.    *)

BeforeMaps == {"raw", "click", "maps"}

RowsFound ==
    /\ \A r \in aggRows : r.id.insertion <= insertions
    /\ \A r, s \in aggRows : r.id = s.id => r = s
    /\ \A w \in Workers : pc[w] \in BeforeMaps => NewRows(w, rows[w]) \subseteq aggRows

MapsAllOrNone ==
    /\ \A m \in userMaps : \E r \in aggRows : r.id = m.row /\ m.entry \in r.entries
    /\ \A r \in aggRows : {m.entry : m \in {m \in userMaps : m.row = r.id}} \in {{}, r.entries}

MapsInv == RowsFound /\ MapsAllOrNone

\* Between its two inserts a worker keeps its batch, and nobody changes an event of it.
LEMMA OwnRowsKept ==
    ASSUME IndInv, Next, NEW v \in Workers, pc'[v] \in BeforeMaps, ~BatchCreateAggregatedEvents(v)
    PROVE  pc[v] \in BeforeMaps /\ NewRows(v, rows[v])' = NewRows(v, rows[v])
  <1>0. /\ QueueTypeOK /\ WorkerTypeOK /\ BatchShape /\ Batch(v) \subseteq Delivered
    BY DEF IndInv, TypeOK, BatchesExclusive
  <1>1. \A i \in Batch(v) : Event(i)' = Event(i) BY <1>0, StoresGrow
  <1>2. SUFFICES pc[v] \in BeforeMaps /\ Batch(v)' = Batch(v) /\ rows'[v] = rows[v]
    <2> SUFFICES ASSUME Batch(v)' = Batch(v), rows'[v] = rows[v]
                 PROVE  NewRows(v, rows[v])' = NewRows(v, rows[v])
      BY <1>2
    <2>1. \A k : Grouped(v, k)' = Grouped(v, k) BY <1>1 DEF Grouped
    <2>2. BatchKeys(v)' = BatchKeys(v) BY <1>1 DEF BatchKeys
    <2> QED BY <2>1, <2>2 DEF NewRows, RowId
  <1>3. ASSUME NEW w \in Workers, ReadFromGroup(w)
        PROVE  pc[v] \in BeforeMaps /\ Batch(v)' = Batch(v) /\ rows'[v] = rows[v]
    <2>1. CASE w # v BY <1>0, <1>3, <2>1, ReadTakesNew
    <2>2. CASE w = v
      <3>1. pc[v] = "idle" BY <1>3, <2>2 DEF ReadFromGroup
      <3>2. pc'[v] = pc[v] \/ pc'[v] = "aggregate" BY <1>0, <1>3, <2>2, ReadTakesNew
      <3> QED BY <3>1, <3>2 DEF BeforeMaps
    <2> QED BY <2>1, <2>2
  <1>4. ASSUME NEW w \in Workers, ProcessBatch(w)
        PROVE  pc[v] \in BeforeMaps /\ Batch(v)' = Batch(v) /\ rows'[v] = rows[v]
    <2>1. CASE w # v BY <1>0, <1>4, <2>1, ProcessShrinks
    <2>2. CASE w = v
      <3>1. ~Abandon(v) BY <1>0 DEF Abandon, WorkerTypeOK, BeforeMaps
      <3>2. ASSUME NEW step \in Steps, GoTo(v, step)
            PROVE  pc'[v] = step /\ Batch(v)' = Batch(v) /\ rows' = rows
        BY <1>0, <3>2 DEF GoTo, Batch, WorkerTypeOK
      <3>3. ~(pc[v] \in {"feed", "publish"} /\ NextEvent(v))
        BY <1>0 DEF NextEvent, WorkerTypeOK, BeforeMaps
      <3>4. CASE BatchAddToDatabase(v)
        BY <3>1, <3>2, <3>4 DEF BatchAddToDatabase, Steps, BeforeMaps
      <3>5. CASE BatchInsertToClickHouse(v)
        BY <3>1, <3>2, <3>5 DEF BatchInsertToClickHouse, Steps, BeforeMaps
      <3>6. CASE ~BatchAddToDatabase(v) /\ ~BatchInsertToClickHouse(v)
        <4>1. \/ Abandon(v)
              \/ pc[v] \in {"feed", "publish"} /\ NextEvent(v)
              \/ \E step \in Steps \ BeforeMaps : GoTo(v, step)
          BY <1>4, <2>2, <3>6
             DEF ProcessBatch, BatchCreateUserEventMaps, SkipEvent, PushToRecentFeed,
                 PublishEvent, EnqueueEventsForIndexing, AckMessage, FailCall, Steps, BeforeMaps
        <4> QED BY <3>1, <3>2, <3>3, <4>1
      <3> QED BY <3>4, <3>5, <3>6
    <2> QED BY <2>1, <2>2
  <1>5. CASE (\E e \in Events : PostEvent(e)) \/ Crash \/ Restart \/ FlushAll
    <2>1. UNCHANGED workerVars \/ pc'[v] = "idle" BY <1>0, <1>5, OtherSteps
    <2> QED BY <2>1 DEF workerVars, Batch, BeforeMaps
  <1> QED BY <1>3, <1>4, <1>5 DEF Next

\* The rows of a new insertion have new identities and no user maps yet.
LEMMA AggregateKeepsMaps ==
    ASSUME IndInv, MapsInv, Next, NEW w \in Workers, BatchCreateAggregatedEvents(w)
    PROVE  MapsInv'
  <1>0. QueueTypeOK /\ WorkerTypeOK /\ StoreTypeOK /\ BatchShape /\ insertions \in Nat
    BY DEF IndInv, TypeOK, StoreTypeOK
  <1> DEFINE new == NewRows(w, insertions + 1)
  <1>1. /\ insertions' = insertions + 1 /\ aggRows' = aggRows \cup new
        /\ userMaps' = userMaps /\ stream' = stream
    BY DEF BatchCreateAggregatedEvents
  <1>2. \A r \in new : /\ r.id.insertion = insertions + 1
                       /\ r.id = RowId(insertions + 1, r.id.key)
                       /\ r = [id |-> r.id, entries |-> Grouped(w, r.id.key)]
    BY DEF NewRows, RowId
  <1>3. \A r \in aggRows : r.id.insertion <= insertions /\ r.id.insertion \in Nat
    BY <1>0 DEF MapsInv, RowsFound, StoreTypeOK, Row
  <1>4. \A r \in aggRows' : r.id.insertion <= insertions' BY <1>0, <1>1, <1>2, <1>3
  <1>5. \A r, s \in aggRows' : r.id = s.id => r = s
    <2>1. \A r, s \in aggRows : r.id = s.id => r = s BY DEF MapsInv, RowsFound
    <2>2. \A r, s \in new : r.id = s.id => r = s BY <1>2
    <2>3. \A r \in aggRows, s \in new : r.id # s.id BY <1>0, <1>2, <1>3
    <2> QED BY <1>1, <2>1, <2>2, <2>3
  <1>6. ASSUME NEW v \in Workers, pc'[v] \in BeforeMaps PROVE (NewRows(v, rows[v]) \subseteq aggRows)'
    <2>1. CASE v = w
      <3>1. ~Abandon(w) BY <1>0, <1>6, <2>1 DEF Abandon, WorkerTypeOK, BeforeMaps
      <3>2. rows'[w] = insertions + 1 /\ UNCHANGED <<from, to>>
        BY <1>0, <3>1 DEF BatchCreateAggregatedEvents, WorkerTypeOK
      <3>3. NewRows(w, rows[w])' = new
        BY <1>1, <3>2 DEF NewRows, BatchKeys, Grouped, Batch, Event, RowId
      <3> QED BY <1>1, <2>1, <3>3
    <2>2. CASE v # w
      <3>1. pc'[v] = pc[v] /\ rows'[v] = rows[v] /\ Batch(v)' = Batch(v)
        BY <1>0, <2>2, ProcessShrinks DEF ProcessBatch
      <3>2. NewRows(v, rows[v])' = NewRows(v, rows[v])
        BY <1>1, <3>1 DEF NewRows, BatchKeys, Grouped, Event, RowId
      <3>3. NewRows(v, rows[v]) \subseteq aggRows BY <1>6, <3>1 DEF MapsInv, RowsFound
      <3> QED BY <1>1, <3>2, <3>3
    <2> QED BY <2>1, <2>2
  <1>7. MapsAllOrNone'
    <2>1. \A m \in userMaps : \E r \in aggRows : r.id = m.row /\ m.entry \in r.entries
      BY DEF MapsInv, MapsAllOrNone
    <2>2. \A m \in userMaps, r \in new : m.row # r.id BY <1>0, <1>2, <1>3, <2>1
    <2>3. \A r \in new : {m.entry : m \in {m \in userMaps : m.row = r.id}} = {} BY <2>2
    <2>4. \A r \in aggRows : {m.entry : m \in {m \in userMaps : m.row = r.id}} \in {{}, r.entries}
      BY DEF MapsInv, MapsAllOrNone
    <2> HIDE DEF new
    <2> QED BY <1>1, <2>1, <2>3, <2>4 DEF MapsAllOrNone
  <1> QED BY <1>4, <1>5, <1>6, <1>7 DEF MapsInv, RowsFound

\* A worker's maps are those of its rows, each in full.
LEMMA CreateKeepsMaps ==
    ASSUME IndInv, MapsInv, NEW w \in Workers, BatchCreateUserEventMaps(w)
    PROVE  MapsAllOrNone'
  <1>1. userMaps' = userMaps \cup NewUserMaps(w) /\ aggRows' = aggRows /\ pc[w] = "maps"
    BY DEF BatchCreateUserEventMaps, aggVars
  <1>2. NewRows(w, rows[w]) \subseteq aggRows /\ \A r, s \in aggRows : r.id = s.id => r = s
    BY <1>1 DEF MapsInv, RowsFound, BeforeMaps
  <1>3. ASSUME NEW i \in Batch(w)
        PROVE  LET k == KeyOf[Event(i)] IN
               /\ [id |-> RowId(rows[w], k), entries |-> Grouped(w, k)] \in aggRows
               /\ i \in Grouped(w, k)
    BY <1>2 DEF NewRows, BatchKeys, Grouped
  <1>4. ASSUME NEW m \in userMaps' PROVE \E r \in aggRows : r.id = m.row /\ m.entry \in r.entries
    <2>1. CASE m \in userMaps BY <2>1 DEF MapsInv, MapsAllOrNone
    <2>2. CASE m \in NewUserMaps(w)
      <3>1. PICK i \in Batch(w) : m = [row |-> RowId(rows[w], KeyOf[Event(i)]), entry |-> i]
        BY <2>2 DEF NewUserMaps
      <3> QED BY <1>3, <3>1
    <2> QED BY <1>1, <2>1, <2>2
  <1>5. ASSUME NEW r \in aggRows
        PROVE  {m.entry : m \in {m \in userMaps' : m.row = r.id}} \in {{}, r.entries}
    <2> DEFINE own   == {i \in Batch(w) : RowId(rows[w], KeyOf[Event(i)]) = r.id}
               old   == {m.entry : m \in {m \in userMaps : m.row = r.id}}
    <2>1. {m.entry : m \in {m \in userMaps' : m.row = r.id}} = old \cup own
      <3>1. \A m \in NewUserMaps(w) : m.row = r.id => m.entry \in own BY DEF NewUserMaps
      <3>2. \A i \in own : \E m \in NewUserMaps(w) : m.row = r.id /\ m.entry = i
        <4> SUFFICES ASSUME NEW i \in own
                     PROVE  \E m \in NewUserMaps(w) : m.row = r.id /\ m.entry = i
          OBVIOUS
        <4> DEFINE m == [row |-> RowId(rows[w], KeyOf[Event(i)]), entry |-> i]
        <4>1. m \in NewUserMaps(w) BY DEF NewUserMaps
        <4>2. m.row = r.id /\ m.entry = i OBVIOUS
        <4> QED BY <4>1, <4>2
      <3> HIDE DEF own
      <3> QED BY <1>1, <3>1, <3>2
    <2>2. old \in {{}, r.entries} BY DEF MapsInv, MapsAllOrNone
    <2>3. ASSUME own # {} PROVE own = r.entries
      <3>1. PICK i \in Batch(w) : RowId(rows[w], KeyOf[Event(i)]) = r.id BY <2>3
      <3>2. r = [id |-> RowId(rows[w], KeyOf[Event(i)]), entries |-> Grouped(w, KeyOf[Event(i)])]
        BY <1>2, <1>3, <3>1
      <3>3. own = Grouped(w, KeyOf[Event(i)]) BY <3>1 DEF Grouped, RowId
      <3> QED BY <3>2, <3>3
    <2> HIDE DEF own, old
    <2> QED BY <2>1, <2>2, <2>3
  <1> QED BY <1>1, <1>4, <1>5 DEF MapsAllOrNone

LEMMA MapsStep == IndInv /\ MapsInv /\ [Next]_vars => MapsInv'
  <1> SUFFICES ASSUME IndInv, MapsInv, [Next]_vars PROVE MapsInv' OBVIOUS
  <1>0. QueueTypeOK /\ WorkerTypeOK /\ BatchShape BY DEF IndInv, TypeOK
  <1>1. ASSUME NEW w \in Workers, BatchCreateAggregatedEvents(w) PROVE MapsInv'
    <2>1. Next BY <1>1 DEF Next, ProcessBatch
    <2> QED BY <1>1, <2>1, AggregateKeepsMaps
  <1>2. CASE Next /\ \A w \in Workers : ~BatchCreateAggregatedEvents(w)
    <2>1. insertions' = insertions /\ aggRows' = aggRows
      <3>1. ASSUME NEW w \in Workers, ReadFromGroup(w) PROVE insertions' = insertions /\ aggRows' = aggRows
        BY <3>1 DEF ReadFromGroup, aggVars
      <3>2. ASSUME NEW w \in Workers, ProcessBatch(w) PROVE insertions' = insertions /\ aggRows' = aggRows
        BY <1>2, <3>2
           DEF ProcessBatch, BatchAddToDatabase, BatchInsertToClickHouse, BatchCreateUserEventMaps,
               SkipEvent, PushToRecentFeed, PublishEvent, EnqueueEventsForIndexing, AckMessage,
               FailCall, aggVars
      <3> QED BY <1>0, <1>2, <3>1, <3>2, OtherSteps DEF Next
    <2>2. RowsFound' BY <1>2, <2>1, OwnRowsKept DEF MapsInv, RowsFound
    <2>3. ASSUME NEW w \in Workers, BatchCreateUserEventMaps(w) PROVE MapsAllOrNone'
      BY <2>3, CreateKeepsMaps
    <2>4. ASSUME \A w \in Workers : ~BatchCreateUserEventMaps(w) PROVE MapsAllOrNone'
      <3>1. ASSUME NEW w \in Workers, ReadFromGroup(w) PROVE userMaps' = userMaps
        BY <3>1 DEF ReadFromGroup
      <3>2. ASSUME NEW w \in Workers, ProcessBatch(w) PROVE userMaps' = userMaps
        BY <1>2, <2>4, <3>2
           DEF ProcessBatch, BatchAddToDatabase, BatchInsertToClickHouse, SkipEvent,
               PushToRecentFeed, PublishEvent, EnqueueEventsForIndexing, AckMessage, FailCall
      <3>3. userMaps' = userMaps BY <1>0, <1>2, <3>1, <3>2, OtherSteps DEF Next
      <3> QED BY <2>1, <3>3 DEF MapsInv, MapsAllOrNone
    <2> QED BY <2>2, <2>3, <2>4 DEF MapsInv
  <1>3. CASE UNCHANGED vars
    BY <1>3 DEF vars, workerVars, aggVars, MapsInv, RowsFound, MapsAllOrNone, NewRows,
       BatchKeys, Grouped, Batch, Event, RowId
  <1> QED BY <1>1, <1>2, <1>3

\* The user maps of an aggregated row are written all or none, name a row that exists, and
\* are missing only while no entry of the row is acknowledged or past the call that writes
\* them, although rows and maps are inserted by different calls of a batch.
THEOREM UserMapsMatchCountsHolds == Spec => []UserMapsMatchCounts
  <1>1. Init => MapsInv BY DEF Init, MapsInv, RowsFound, MapsAllOrNone, BeforeMaps
  <1>2. IndInv /\ MapsInv => UserMapsMatchCounts
    <2> SUFFICES ASSUME IndInv, MapsInv PROVE UserMapsMatchCounts OBVIOUS
    <2>1. \A r \in aggRows : Mapped(r) \in {{}, r.entries} BY DEF MapsInv, MapsAllOrNone, Mapped
    <2>2. ASSUME NEW r \in aggRows, NEW i \in r.entries, PastItsMaps(i) PROVE Mapped(r) # {}
      <3>1. Stored(i) BY <2>2 DEF PastItsMaps, IndInv, AckedIsStored, Written
      <3>2. PICK s \in aggRows : i \in s.entries /\ [row |-> s.id, entry |-> i] \in userMaps
        BY <3>1 DEF Stored
      <3>3. s = r BY <2>2, <3>2 DEF IndInv, RowsSound, CountedOnce
      <3> DEFINE m == [row |-> r.id, entry |-> i]
      <3>4. m \in userMaps /\ m.row = r.id /\ m.entry = i BY <3>2, <3>3
      <3> HIDE DEF m
      <3>5. i \in Mapped(r) BY <3>4 DEF Mapped
      <3> QED BY <3>5
    <2> QED BY <2>1, <2>2 DEF UserMapsMatchCounts, MapsInv, MapsAllOrNone
  <1> QED BY <1>1, <1>2, MapsStep, Invariance, PTL DEF Spec

-----------------------------------------------------------------------------
(* The recent feed.  Workers add and trim in any order and a trim can be   *)
(* lost, yet the sorted set always holds the newest events pushed.         *)

\* The feed is a part of what was pushed that holds the newest of it.
FeedKept == IsFiniteSet(pushed) /\ feed \subseteq pushed /\ Newest(pushed) \subseteq feed

LEMMA NewestIsNewestOf == \A S : Newest(S) = NewestOf(S, FeedCap)
  BY DEF Newest, NewestOf, Above

LEMMA FeedStep == IndInv /\ FeedKept /\ [Next]_vars => FeedKept'
  <1> SUFFICES ASSUME IndInv, FeedKept, [Next]_vars PROVE FeedKept' OBVIOUS
  <1>0. /\ pushed \in SUBSET Nat /\ IsFiniteSet(pushed) /\ feed \in SUBSET pushed
        /\ Newest(pushed) \subseteq feed
    BY DEF IndInv, TypeOK, StoreTypeOK, FeedKept
  <1>1. ASSUME NEW w \in Workers, PushToRecentFeed(w) PROVE FeedKept'
    <2> DEFINE e == Event(next[w])
               S == pushed \cup {e}
               T == feed \cup {e}
    <2>1. pushed' = S /\ (feed' = T \/ feed' = Newest(T)) BY <1>1 DEF PushToRecentFeed
    <2>2. S \in SUBSET Nat
      <3>1. pushed' \in SUBSET Events BY <1>1, TypeStep DEF TypeOK, StoreTypeOK, Next, ProcessBatch
      <3> QED BY <2>1, <3>1
    <2>3. IsFiniteSet(S) /\ T \in SUBSET S /\ Newest(S) \subseteq T
      <3>1. NewestOf(pushed, FeedCap) \subseteq feed BY <1>0, NewestIsNewestOf
      <3>2. IsFiniteSet(S) /\ NewestOf(S, FeedCap) \subseteq T
        <4>1. FeedCap \in Nat OBVIOUS
        <4> HIDE DEF e
        <4> QED BY <1>0, <3>1, <4>1, KeptAdded
      <3>3. T \in SUBSET S BY <1>0
      <3> HIDE DEF S, T
      <3> QED BY <3>2, <3>3, NewestIsNewestOf
    <2>4. Newest(S) \subseteq Newest(T) /\ Newest(T) \subseteq S
      <3> HIDE DEF S, T
      <3> QED BY <2>2, <2>3, KeptTrimmed, NewestIsNewestOf
    <2>5. CASE feed' = T BY <2>1, <2>3, <2>5 DEF FeedKept, Newest
    <2>6. CASE feed' = Newest(T) BY <2>1, <2>3, <2>4, <2>6 DEF FeedKept, Newest
    <2> QED BY <2>1, <2>5, <2>6
  <1>2. CASE FlushAll
    <2>1. feed' = {} /\ pushed' = {} BY <1>2 DEF FlushAll
    <2> QED BY <2>1, FS_EmptySet DEF FeedKept, Newest
  <1>3. CASE UNCHANGED feedVars BY <1>3 DEF FeedKept, Newest, feedVars
  <1>4. CASE \E e \in Events : PostEvent(e) BY <1>3, <1>4 DEF PostEvent, Resend, Accept, Reject
  <1>5. ASSUME NEW w \in Workers, ReadFromGroup(w) PROVE FeedKept' BY <1>3, <1>5 DEF ReadFromGroup
  <1>6. ASSUME NEW w \in Workers, ProcessBatch(w) PROVE FeedKept'
    BY <1>1, <1>3, <1>6
       DEF ProcessBatch, BatchCreateAggregatedEvents, BatchAddToDatabase, BatchInsertToClickHouse,
           BatchCreateUserEventMaps, SkipEvent, PublishEvent, EnqueueEventsForIndexing, AckMessage,
           FailCall
  <1>7. CASE Crash \/ Restart BY <1>3, <1>7 DEF Crash, Restart
  <1>8. CASE UNCHANGED vars BY <1>3, <1>8 DEF vars
  <1> QED BY <1>2, <1>4, <1>5, <1>6, <1>7, <1>8 DEF Next

\* GetRecentFeed serves the newest of all events ever pushed since the last flush,
\* for any number of workers, any order of their pushes and any cap.
THEOREM FeedIsNewestHolds == Spec => []FeedIsNewest
  <1>1. Init => FeedKept BY FS_EmptySet DEF Init, FeedKept, Newest
  <1>2. IndInv /\ FeedKept => FeedIsNewest
    <2> SUFFICES ASSUME IndInv, FeedKept PROVE Newest(feed) = Newest(pushed) BY DEF FeedIsNewest
    <2>1. pushed \in SUBSET Nat /\ feed \in SUBSET pushed BY DEF IndInv, TypeOK, StoreTypeOK, FeedKept
    <2> QED BY <2>1, NewestOfPart, NewestIsNewestOf DEF FeedKept
  <1> QED BY <1>1, <1>2, FeedStep, Invariance, PTL DEF Spec
=============================================================================
