--------------------------- MODULE EndToEndProofs ---------------------------
(***************************************************************************)
(* Proofs about the composed server.  Its write path implements the        *)
(* delivery ledger, and the server behaves for it as EventPipeline says    *)
(* although the indexers share its queue: every theorem about the pipeline *)
(* holds of the server.  What search finds is in every store, and a        *)
(* restart skips nothing that was still queued.                            *)
(***************************************************************************)
EXTENDS EndToEnd, EventPipelineProofs

-----------------------------------------------------------------------------
(* The ledger.  Under the mapping of EventPipeline every step is one of    *)
(* the ledger's.  One more invariant is needed, that a batch is pending as *)
(* a whole or, after FLUSHDB, not at all: without it one XACK could finish *)
(* a part of a batch and lose the rest.                                    *)

PendingTogether == \A w \in Workers : Batch(w) \subseteq pel \/ Batch(w) \cap pel = {}

LEMMA AckLeavesRest ==
    ASSUME QueueTypeOK, WorkerTypeOK, BatchShape, NEW w \in Workers, AckMessage(w)
    PROVE  /\ Batch(w)' = {} /\ \A v \in Workers \ {w} : Batch(v)' = Batch(v)
           /\ UNCHANGED <<stream, last, aggVars, userMaps, pg, click>>
  <1>1. ProcessBatch(w) BY DEF ProcessBatch
  <1>2. \A v \in Workers \ {w} : Batch(v)' = Batch(v) BY <1>1, ProcessShrinks
  <1>3. from'[w] = 1 /\ to'[w] = 0 BY DEF AckMessage, Abandon, WorkerTypeOK
  <1>4. Batch(w)' = {} BY <1>3 DEF Batch
  <1> QED BY <1>2, <1>4 DEF AckMessage

LEMMA OthersLeaveQueue ==
    ASSUME NEW w \in Workers, ProcessBatch(w), ~AckMessage(w)
    PROVE  UNCHANGED <<stream, last, pel, acked>>
  BY DEF ProcessBatch, BatchCreateAggregatedEvents, BatchAddToDatabase, BatchInsertToClickHouse,
     BatchCreateUserEventMaps, SkipEvent, PushToRecentFeed, PublishEvent,
     EnqueueEventsForIndexing, FailCall, groupVars

LEMMA PendingStep == IndInv /\ PendingTogether /\ [Next]_vars => PendingTogether'
  <1> SUFFICES ASSUME IndInv, PendingTogether, [Next]_vars PROVE PendingTogether' OBVIOUS
  <1>0. /\ QueueTypeOK /\ WorkerTypeOK /\ BatchShape /\ BatchesExclusive
        /\ \A v \in Workers : Batch(v) \subseteq 1 .. last
    BY DEF IndInv, TypeOK, BatchesExclusive, Delivered
  <1>1. ASSUME NEW w \in Workers, ReadFromGroup(w) PROVE PendingTogether'
    <2>1. last' \in last + 1 .. Len(stream) /\ pel' = pel \cup (last + 1 .. last')
      BY <1>1 DEF ReadFromGroup
    <2>2. \A v \in Workers \ {w} : Batch(v)' = Batch(v) BY <1>0, <1>1, ReadTakesNew
    <2>3. Batch(w)' = Batch(w) \/ Batch(w)' = last + 1 .. last' BY <1>0, <1>1, ReadTakesNew
    <2>4. \A v \in Workers : Batch(v) \cap (last + 1 .. last') = {}
      BY <1>0, <2>1 DEF QueueTypeOK
    <2>5. \A v \in Workers : Batch(v) \subseteq pel' \/ Batch(v) \cap pel' = {}
      BY <2>1, <2>4 DEF PendingTogether
    <2> QED BY <2>1, <2>2, <2>3, <2>5 DEF PendingTogether
  <1>2. ASSUME NEW w \in Workers, AckMessage(w) PROVE PendingTogether'
    <2>1. pel' = pel \ Batch(w) BY <1>2 DEF AckMessage
    <2>2. Batch(w)' = {} /\ \A v \in Workers \ {w} : Batch(v)' = Batch(v)
      BY <1>0, <1>2, AckLeavesRest
    <2>3. \A v \in Workers \ {w} : Batch(v) \cap Batch(w) = {} BY <1>0 DEF BatchesExclusive
    <2> QED BY <2>1, <2>2, <2>3 DEF PendingTogether
  <1>3. ASSUME NEW w \in Workers, ProcessBatch(w), ~AckMessage(w) PROVE PendingTogether'
    <2>1. \A v \in Workers : Batch(v)' \subseteq Batch(v) BY <1>0, <1>3, ProcessShrinks
    <2>2. pel' = pel BY <1>3, OthersLeaveQueue
    <2> QED BY <2>1, <2>2 DEF PendingTogether
  <1>4. CASE (\E e \in Events : PostEvent(e)) \/ Crash \/ Restart \/ FlushAll
    <2>1. pel' = pel \/ pel' = {}
      BY <1>4 DEF PostEvent, Resend, Accept, Reject, Crash, Restart, EnsureConsumerGroup, FlushAll, groupVars
    <2>2. \A v \in Workers : Batch(v)' = Batch(v) \/ Batch(v)' = {}
      BY <1>0, <1>4, OtherSteps DEF workerVars, Batch
    <2> QED BY <2>1, <2>2 DEF PendingTogether
  <1>5. CASE UNCHANGED vars
    BY <1>5 DEF PendingTogether, vars, groupVars, workerVars, Batch
  <1> QED BY <1>1, <1>2, <1>3, <1>4, <1>5 DEF Next

LEMMA PendingInvariance == Spec => []PendingTogether
  <1>1. Init => PendingTogether BY DEF Init, PendingTogether, Batch
  <1> QED BY <1>1, PendingStep, Invariance, PTL DEF Spec

-----------------------------------------------------------------------------
(* A step is recognised by what it does to the status of each entry.       *)

\* The status of an entry by the positions that decide it.
StatusIs(i) ==
    /\ StatusOf(i) = "absent" <=> i > Len(stream)
    /\ StatusOf(i) = "queued" <=> i <= Len(stream) /\ i > last
    /\ StatusOf(i) = "held" <=> Held(i)
    /\ StatusOf(i) = "done" <=> i \in acked
    /\ StatusOf(i) \in {"absent", "queued", "held", "done", "lost"}

LEMMA EntriesAreNumbers == Entries \subseteq Nat \ {0}
  BY DEF Entries

LEMMA StatusCases == IndInv => \A i \in Entries : StatusIs(i)
  <1> SUFFICES ASSUME IndInv, NEW i \in Entries PROVE StatusIs(i) OBVIOUS
  <1>1. last \in Nat /\ Len(stream) \in Nat /\ last <= Len(stream) /\ i \in Nat \ {0}
    BY EntriesAreNumbers DEF IndInv, TypeOK, QueueTypeOK
  <1>2. (i \in acked => i <= last) /\ (Held(i) => i <= last /\ i \notin acked)
    BY <1>1 DEF IndInv, TypeOK, QueueTypeOK, BatchesExclusive, Delivered, Held
  <1>3. CASE i > Len(stream)
    <2>1. StatusOf(i) = "absent" BY <1>1, <1>3 DEF StatusOf
    <2> QED BY <1>1, <1>2, <1>3, <2>1 DEF StatusIs
  <1>4. CASE i <= Len(stream) /\ i > last
    <2>1. StatusOf(i) = "queued" BY <1>1, <1>4 DEF StatusOf
    <2> QED BY <1>1, <1>2, <1>4, <2>1 DEF StatusIs
  <1>5. CASE i <= last /\ Held(i)
    <2>1. StatusOf(i) = "held" BY <1>1, <1>5 DEF StatusOf
    <2> QED BY <1>1, <1>2, <1>5, <2>1 DEF StatusIs
  <1>6. CASE i <= last /\ ~Held(i)
    <2>1. StatusOf(i) = IF i \in acked THEN "done" ELSE "lost" BY <1>1, <1>6 DEF StatusOf
    <2> QED BY <1>1, <1>2, <1>6, <2>1 DEF StatusIs
  <1> QED BY <1>1, <1>3, <1>4, <1>5, <1>6

LEMMA StatusCasesNext == ASSUME IndInv' PROVE \A i \in Entries : StatusIs(i)'
  <1>1. (IndInv => \A i \in Entries : StatusIs(i))' BY StatusCases, PTL
  <1> QED BY <1>1

LEMMA DeliveredAreEntries == IndInv => Delivered \subseteq Entries
  <1> SUFFICES ASSUME IndInv PROVE Delivered \subseteq Entries OBVIOUS
  <1>1. last \in 0 .. Len(stream) /\ Len(stream) \in Nat /\ Len(stream) <= MaxEntries
    BY DEF IndInv, TypeOK, QueueTypeOK
  <1>2. last \in Nat /\ last <= MaxEntries /\ MaxEntries \in Nat BY <1>1, BoundsAssumption
  <1> QED BY <1>2 DEF Delivered, Entries

\* What the stores have is only added to.
LEMMA StoresRefine ==
    ASSUME IndInv, IndInv', [Next]_vars
    PROVE  Ledger!Store
  <1> DEFINE S == {i \in Delivered' : Stored(i)'}
  <1>1. S \in SUBSET Entries
    <2>1. (IndInv => Delivered \subseteq Entries)' BY DeliveredAreEntries, PTL
    <2> QED BY <2>1
  <1>2. {i \in Delivered : Stored(i)} \subseteq S
    <2>1. CASE Next
      <3>1. last <= last' /\ last \in Nat /\ last' \in Nat BY <2>1, StoresGrow
      <3>2. Delivered \subseteq Delivered' BY <3>1 DEF Delivered
      <3>3. \A i \in Delivered : Stored(i) => Stored(i)' BY <2>1, StoredStable
      <3> QED BY <3>2, <3>3
    <2>2. CASE UNCHANGED vars
      BY <2>2 DEF vars, groupVars, aggVars, Stored, Event, Delivered
    <2> QED BY <2>1, <2>2
  <1>3. {i \in Delivered' : Stored(i)'} = {i \in Delivered : Stored(i)} \cup S BY <1>2
  <1> QED BY <1>1, <1>3 DEF Ledger!Store

\* A step that only gives up held entries, if any, and stores more of them.
LEMMA IsProcess ==
    ASSUME IndInv, IndInv', [Next]_vars, UNCHANGED <<stream, last, acked>>,
           \A w \in Workers : Batch(w)' \subseteq Batch(w)
    PROVE  Ledger!Process
  <1>1. ASSUME NEW i \in Entries
        PROVE  \/ StatusOf(i)' = StatusOf(i)
               \/ StatusOf(i) = "held" /\ StatusOf(i)' = "lost"
    <2>1. StatusIs(i) /\ StatusIs(i)' BY StatusCases, StatusCasesNext
    <2>2. Held(i)' => Held(i) BY DEF Held
    <2> QED BY <2>1, <2>2 DEF StatusIs
  <1> DEFINE L == {i \in Entries : StatusOf(i)' # StatusOf(i)}
  <1>2. L \in SUBSET Ledger!In("held") BY <1>1 DEF Ledger!In
  <1>3. Ledger!Move(L, "lost") BY <1>1 DEF Ledger!Move
  <1> QED BY <1>2, <1>3, StoresRefine DEF Ledger!Process

-----------------------------------------------------------------------------
(* Each action is a step of the ledger.                                    *)

\* An XADD of POST /event appends the event, or fails.
LEMMA AppendRefines ==
    ASSUME IndInv, IndInv', NEW e \in Events, PostEvent(e)
    PROVE  Ledger!Add
  <1>0. QueueTypeOK /\ WorkerTypeOK BY DEF IndInv, TypeOK
  <1>2. Len(stream) \in Nat /\ last \in Nat /\ last <= Len(stream)
    BY <1>0 DEF QueueTypeOK
  <1>3. Len(stream') \in {Len(stream), Len(stream) + 1} BY <1>0, PostKeepsEntries
  <1>4. last' = last /\ acked' = acked /\ \A i : Held(i)' <=> Held(i)
    BY DEF PostEvent, Resend, Accept, Reject, groupVars, workerVars, Held, Batch
  <1>5. ASSUME NEW i \in Entries
        PROVE  \/ StatusOf(i)' = StatusOf(i)
               \/ /\ i <= Len(stream') /\ StatusOf(i) = "absent" /\ StatusOf(i)' = "queued"
    <2>1. StatusIs(i) /\ StatusIs(i)' BY StatusCases, StatusCasesNext
    <2>2. i \in Nat \ {0} BY EntriesAreNumbers
    <2>3. CASE i <= Len(stream) \/ i > Len(stream')
      <3>1. (i > Len(stream')) = (i > Len(stream)) /\ (i <= Len(stream')) = (i <= Len(stream))
            /\ (i > last') = (i > last)
        BY <1>2, <1>3, <1>4, <2>2, <2>3
      <3> QED BY <1>4, <2>1, <3>1 DEF StatusIs
    <2>4. CASE i > Len(stream) /\ i <= Len(stream')
      BY <1>2, <1>3, <1>4, <2>1, <2>2, <2>4 DEF StatusIs
    <2> QED BY <1>2, <1>3, <2>2, <2>3, <2>4
  <1>6. ASSUME NEW k \in Entries, StatusOf(k)' = "absent" PROVE k > Len(stream')
    BY <1>6, StatusCasesNext DEF StatusIs
  <1> DEFINE A == {i \in Entries : StatusOf(i)' # StatusOf(i)}
  <1>7. A \in SUBSET Ledger!In("absent") BY <1>5 DEF Ledger!In
  <1>8. \A i \in A, k \in Ledger!In("absent") \ A : i < k
    <2> SUFFICES ASSUME NEW i \in A, NEW k \in Entries,
                        StatusOf(k)' = "absent"
                 PROVE  i < k
      BY DEF Ledger!In
    <2>1. i <= Len(stream') /\ k > Len(stream') BY <1>5, <1>6
    <2> QED BY <1>2, <1>3, <2>1, EntriesAreNumbers
  <1>9. Ledger!Move(A, "queued") BY <1>5 DEF Ledger!Move
  <1>10. Next BY DEF Next
  <1> QED BY <1>7, <1>8, <1>9, <1>10, StoresRefine DEF Ledger!Add

\* The oldest queued entries, up to the new position of the group, go to s.
LEMMA IsDeliver ==
    ASSUME IndInv, IndInv', [Next]_vars, NEW s \in {"held", "lost"},
           stream' = stream, last <= last', acked' = acked,
           \A i \in Entries : Held(i)' <=> \/ Held(i)
                                           \/ s = "held" /\ i > last /\ i <= last'
    PROVE  Ledger!Deliver
  <1>0. last \in Nat /\ last' \in Nat /\ Len(stream) \in Nat /\ last' <= Len(stream)
    BY DEF IndInv, TypeOK, QueueTypeOK
  <1>1. ASSUME NEW i \in Entries
        PROVE  \/ StatusOf(i)' = StatusOf(i)
               \/ i <= last' /\ StatusOf(i) = "queued" /\ StatusOf(i)' = s
    <2>1. StatusIs(i) /\ StatusIs(i)' BY StatusCases, StatusCasesNext
    <2>2. i \in Nat \ {0} BY EntriesAreNumbers
    <2>3. CASE i > last /\ i <= last'
      <3>1. StatusOf(i) = "queued" BY <1>0, <2>1, <2>2, <2>3 DEF StatusIs
      <3>2. i \notin acked' BY <2>1, <3>1 DEF StatusIs
      <3>3. ~Held(i) BY <2>1, <3>1 DEF StatusIs
      <3>4. Held(i)' <=> s = "held" BY <2>3, <3>3
      <3>5. StatusOf(i)' = s BY <1>0, <2>1, <2>2, <2>3, <3>2, <3>4 DEF StatusIs
      <3> QED BY <2>3, <3>1, <3>5
    <2>4. CASE ~(i > last /\ i <= last')
      <3>1. (i > last') = (i > last) BY <1>0, <2>2, <2>4
      <3>2. Held(i)' <=> Held(i) BY <2>4
      <3>3. StatusOf(i)' = StatusOf(i) BY <2>1, <3>1, <3>2 DEF StatusIs
      <3> QED BY <3>3
    <2> QED BY <2>3, <2>4
  <1>2. ASSUME NEW k \in Entries, StatusOf(k)' = "queued" PROVE k > last'
    BY <1>2, StatusCasesNext DEF StatusIs
  <1> DEFINE D == {i \in Entries : StatusOf(i)' # StatusOf(i)}
  <1>3. D \in SUBSET Ledger!In("queued") BY <1>1 DEF Ledger!In
  <1>4. \A i \in D, k \in Ledger!In("queued") \ D : i < k
    <2> SUFFICES ASSUME NEW i \in D, NEW k \in Entries, StatusOf(k)' = "queued"
                 PROVE  i < k
      BY DEF Ledger!In
    <2>1. i <= last' /\ k > last' BY <1>1, <1>2
    <2> QED BY <1>0, <2>1, EntriesAreNumbers
  <1>5. Ledger!Move(D, s) BY <1>1 DEF Ledger!Move
  <1> QED BY <1>3, <1>4, <1>5, StoresRefine DEF Ledger!Deliver

LEMMA ReadRefines ==
    ASSUME IndInv, IndInv', NEW w \in Workers, ReadFromGroup(w) PROVE Ledger!Deliver
  <1>0. QueueTypeOK /\ WorkerTypeOK /\ BatchShape BY DEF IndInv, TypeOK
  <1>1. /\ last' \in last + 1 .. Len(stream) /\ UNCHANGED <<stream, acked>>
        /\ \A v \in Workers \ {w} : Batch(v)' = Batch(v)
        /\ (Batch(w)' = Batch(w) \/ Batch(w)' = last + 1 .. last')
    BY <1>0, ReadTakesNew
  <1>2. last \in Nat /\ Len(stream) \in Nat BY <1>0 DEF QueueTypeOK
  <1>3. pc[w] = "idle" BY DEF ReadFromGroup
  <1>4. Batch(w) = {} BY <1>0, <1>3 DEF BatchShape, Batch
  <1>5. Next BY DEF Next
  <1>6. CASE Batch(w)' = Batch(w)
    <2>1. \A i \in Entries : Held(i)' <=> Held(i) BY <1>1, <1>6 DEF Held
    <2> QED BY <1>1, <1>2, <1>5, <2>1, IsDeliver
  <1>7. CASE Batch(w)' = last + 1 .. last'
    <2>1. \A i \in Entries : Held(i)' <=> Held(i) \/ (i > last /\ i <= last')
      BY <1>1, <1>2, <1>4, <1>7, EntriesAreNumbers DEF Held
    <2> QED BY <1>1, <1>2, <1>5, <2>1, IsDeliver
  <1> QED BY <1>1, <1>6, <1>7

\* An XACK finishes a batch that is pending, which is in every store by then;
\* after FLUSHDB there is nothing to acknowledge and the batch is given up.
LEMMA AckRefines ==
    ASSUME IndInv, IndInv', PendingTogether, NEW w \in Workers, AckMessage(w)
    PROVE  Ledger!Finish \/ Ledger!Process
  <1>0. QueueTypeOK /\ WorkerTypeOK /\ BatchShape /\ BatchesExclusive /\ Written(w)
    BY DEF IndInv, TypeOK
  <1>1. /\ Batch(w)' = {} /\ \A v \in Workers \ {w} : Batch(v)' = Batch(v)
        /\ UNCHANGED <<stream, last, aggVars, userMaps, pg, click>>
    BY <1>0, AckLeavesRest
  <1>2. acked' = acked \cup (pel \cap Batch(w)) /\ pc[w] = "ack" BY DEF AckMessage
  <1>3. Next BY DEF Next, ProcessBatch
  <1>4. CASE Batch(w) \cap pel = {}
    <2>1. acked' = acked BY <1>2, <1>4
    <2> QED BY <1>1, <1>3, <2>1, IsProcess
  <1>5. CASE Batch(w) \subseteq pel
    <2>1. acked' = acked \cup Batch(w) BY <1>2, <1>5
    <2>2. \A i \in Batch(w) : i \in Delivered /\ Stored(i)
      BY <1>0, <1>2 DEF Written, PastMaps, BatchesExclusive
    <2>3. ASSUME NEW i \in Entries
          PROVE  \/ StatusOf(i)' = StatusOf(i)
                 \/ i \in Batch(w) /\ StatusOf(i) = "held" /\ StatusOf(i)' = "done"
      <3>1. StatusIs(i) /\ StatusIs(i)' BY StatusCases, StatusCasesNext
      <3>2. CASE i \in Batch(w)
        <4>1. Held(i) BY <3>2 DEF Held
        <4> QED BY <2>1, <3>1, <3>2, <4>1 DEF StatusIs
      <3>3. CASE i \notin Batch(w)
        <4>1. Held(i)' <=> Held(i) BY <1>1, <3>3 DEF Held
        <4>2. i \in acked' <=> i \in acked BY <2>1, <3>3
        <4> QED BY <1>1, <3>1, <4>1, <4>2 DEF StatusIs
      <3> QED BY <3>2, <3>3
    <2> DEFINE F == {i \in Entries : StatusOf(i)' # StatusOf(i)}
    <2>4. F \in SUBSET (Ledger!In("held") \cap {i \in Delivered : Stored(i)})
      BY <2>2, <2>3 DEF Ledger!In
    <2>5. Ledger!Move(F, "done") BY <2>3 DEF Ledger!Move
    <2>6. {i \in Delivered' : Stored(i)'} = {i \in Delivered : Stored(i)}
      BY <1>1 DEF Delivered, Stored, Event, aggVars
    <2> QED BY <2>4, <2>5, <2>6 DEF Ledger!Finish
  <1> QED BY <1>4, <1>5 DEF PendingTogether

\* A new group starts behind the stream: what was queued is lost.
LEMMA RestartRefines == ASSUME IndInv, IndInv', Restart PROVE Ledger!Deliver
  <1>0. last \in Nat /\ Len(stream) \in Nat /\ last <= Len(stream)
    BY DEF IndInv, TypeOK, QueueTypeOK
  <1>1. /\ UNCHANGED <<stream, acked, workerVars>>
        /\ last' = last \/ last' = Len(stream)
    BY DEF Restart, EnsureConsumerGroup
  <1>2. \A i \in Entries : Held(i)' <=> Held(i) BY <1>1 DEF Held, workerVars, Batch
  <1>3. Next BY DEF Next
  <1> QED BY <1>0, <1>1, <1>2, <1>3, IsDeliver

LEMMA RefinesStep ==
    ASSUME IndInv, IndInv', PendingTogether, [Next]_vars
    PROVE  [Ledger!Next]_(Ledger!vars)
  <1>0. QueueTypeOK /\ WorkerTypeOK /\ BatchShape BY DEF IndInv, TypeOK
  <1>1. CASE \E e \in Events : PostEvent(e) BY <1>1, AppendRefines DEF Ledger!Next
  <1>2. ASSUME NEW w \in Workers, ReadFromGroup(w) PROVE Ledger!Next
    BY <1>2, ReadRefines DEF Ledger!Next
  <1>3. ASSUME NEW w \in Workers, ProcessBatch(w) PROVE Ledger!Next
    <2>1. CASE AckMessage(w) BY <2>1, AckRefines DEF Ledger!Next
    <2>2. CASE ~AckMessage(w)
      <3>1. UNCHANGED <<stream, last, acked>> BY <1>3, <2>2, OthersLeaveQueue
      <3>2. \A v \in Workers : Batch(v)' \subseteq Batch(v) BY <1>0, <1>3, ProcessShrinks
      <3> QED BY <3>1, <3>2, IsProcess DEF Ledger!Next
    <2> QED BY <2>1, <2>2
  <1>4. CASE Restart BY <1>4, RestartRefines DEF Ledger!Next
  <1>5. CASE Crash \/ FlushAll \/ UNCHANGED vars
    <2>1. UNCHANGED <<stream, last, acked>>
      BY <1>5 DEF Crash, FlushAll, vars, groupVars
    <2>2. \A v \in Workers : Batch(v)' \subseteq Batch(v)
      BY <1>5 DEF Crash, FlushAll, vars, workerVars, Batch
    <2> QED BY <2>1, <2>2, IsProcess DEF Ledger!Next
  <1> QED BY <1>1, <1>2, <1>3, <1>4, <1>5 DEF Next

LEMMA RefinesInit == Init => Ledger!Init
  <1> SUFFICES ASSUME Init PROVE Ledger!Init OBVIOUS
  <1>1. stream = <<>> /\ last = 0 BY DEF Init
  <1>2. IndInv BY InitIndInv
  <1>3. \A i \in Entries : StatusOf(i) = "absent"
    BY <1>1, <1>2, StatusCases, EntriesAreNumbers DEF StatusIs
  <1>4. {i \in Delivered : Stored(i)} = {} BY <1>1 DEF Delivered
  <1> QED BY <1>3, <1>4 DEF Ledger!Init

\* The write path implements the delivery ledger for any events, workers and
\* faults: an entry is handed out at most once and in order, is acknowledged
\* only when every store has it, and is never taken up again.
THEOREM PipelineImplementsLedger == Spec => LedgerSpec
  <1>1. /\ IndInv /\ IndInv' /\ PendingTogether /\ [Next]_vars
        => [Ledger!Next]_(Ledger!vars)
    BY RefinesStep
  <1> QED BY <1>1, RefinesInit, Invariance, PendingInvariance, PTL DEF Spec, LedgerSpec, Ledger!Spec

-----------------------------------------------------------------------------
(* The composition.                                                        *)

\* The steps of the pipeline inside the system.
LEMMA SystemStepIsPipelineStep == [SystemNext]_systemVars => [Next]_vars
  <1> SUFFICES ASSUME [SystemNext]_systemVars PROVE [Next]_vars OBVIOUS
  <1>1. CASE \E e \in Events : Ingest(e) BY <1>1 DEF Ingest, Next
  <1>2. CASE \E w \in Workers : Aggregate(w) BY <1>2 DEF Aggregate, Next
  <1>3. ASSUME NEW x \in Indexers, Index(x) PROVE UNCHANGED vars
    <2>1. UNCHANGED <<jobs, up>>
      BY <1>3 DEF Index, Search!ProcessIndexBatch, Search!ReadIndexJobs, Search!BulkIndexEvents,
         Search!AckIndexJobs
    <2> QED BY <1>3, <2>1 DEF Index, pipelineVars, vars
  <1>4. CASE SystemCrash \/ SystemRestart \/ SystemFlush
    BY <1>4 DEF SystemCrash, SystemRestart, SystemFlush, Next
  <1>5. CASE UNCHANGED systemVars BY <1>5 DEF systemVars
  <1> QED BY <1>1, <1>2, <1>3, <1>4, <1>5 DEF SystemNext

\* The server's write path is the pipeline: sharing the queue, the process and
\* the database with the indexers adds nothing to what it can do.
THEOREM SystemImplementsPipeline == SystemSpec => Spec
  <1>1. SystemInit => Init BY DEF SystemInit
  <1> QED BY <1>1, SystemStepIsPipelineStep, PTL DEF SystemSpec, Spec

-----------------------------------------------------------------------------
(* Every document was queued.                                              *)

\* The event e has been queued for the index.
Queued(e) == \E j \in 1 .. Len(jobs) : jobs[j] = e

\* The group and the indexers stay inside the queue, and what they indexed was in it.
DocsQueued ==
    /\ jobLast \in 0 .. Len(jobs)
    /\ ifrom \in [Indexers -> Nat \ {0}] /\ ito \in [Indexers -> 0 .. Len(jobs)]
    /\ \A e \in docs : Queued(e)

\* The queue is only appended to.
LEMMA JobsGrow ==
    ASSUME IndInv, [Next]_vars
    PROVE  /\ Len(jobs) \in Nat /\ Len(jobs') \in Nat /\ Len(jobs) <= Len(jobs')
           /\ \A j \in 1 .. Len(jobs) : jobs'[j] = jobs[j]
  <1>0. jobs \in Seq(Events) /\ stream \in Seq(Events) BY DEF IndInv, TypeOK, QueueTypeOK
  <1>1. CASE \E w \in Workers : EnqueueEventsForIndexing(w)
    <2>1. PICK w \in Workers : EnqueueEventsForIndexing(w) BY <1>1
    <2>2. PICK n \in from[w] - 1 .. to[w] : jobs' = jobs \o SubSeq(stream, from[w], n)
      BY <2>1 DEF EnqueueEventsForIndexing
    <2>3. SubSeq(stream, from[w], n) \in Seq(Events)
      <3>1. /\ from[w] \in Nat \ {0} /\ to[w] \in 0 .. Len(stream) /\ n \in Int
            /\ from[w] - 1 <= n /\ n <= to[w]
        BY <2>1, <2>2 DEF IndInv, TypeOK, WorkerTypeOK
      <3>2. \A i \in from[w] .. n : stream[i] \in Events BY <1>0, <3>1
      <3> QED BY <3>1, <3>2
    <2> QED BY <1>0, <2>2, <2>3
  <1>2. CASE ~\E w \in Workers : EnqueueEventsForIndexing(w)
    <2>1. UNCHANGED jobs
      BY <1>2 DEF Next, vars, PostEvent, Resend, Accept, Reject, Crash, Restart, FlushAll,
         ReadFromGroup, ProcessBatch,
         BatchCreateAggregatedEvents, BatchAddToDatabase, BatchInsertToClickHouse,
         BatchCreateUserEventMaps, SkipEvent, PushToRecentFeed, PublishEvent, AckMessage, FailCall
    <2> QED BY <1>0, <2>1
  <1> QED BY <1>1, <1>2

\* A batch an indexer holds lies inside the queue.
LEMMA HeldJobsAreQueued ==
    ASSUME DocsQueued, Len(jobs) \in Nat, NEW x \in Indexers
    PROVE  \A e \in Search!Parsed(x) : Queued(e)
  <1>1. ifrom[x] \in Nat \ {0} /\ ito[x] \in 0 .. Len(jobs) BY DEF DocsQueued
  <1> QED BY <1>1 DEF Search!Parsed, Search!JobBatch, Queued

\* Dropping a batch leaves the empty one, which lies inside the queue.
LEMMA DropStaysInside ==
    ASSUME DocsQueued, Len(jobs) \in Nat, NEW x \in Indexers, Search!Drop(x)
    PROVE  ifrom' \in [Indexers -> Nat \ {0}] /\ ito' \in [Indexers -> 0 .. Len(jobs)]
  <1>1. ifrom' = [ifrom EXCEPT ![x] = 1] /\ ito' = [ito EXCEPT ![x] = 0] BY DEF Search!Drop
  <1>2. 1 \in Nat \ {0} /\ 0 \in 0 .. Len(jobs) OBVIOUS
  <1>3. ifrom \in [Indexers -> Nat \ {0}] /\ ito \in [Indexers -> 0 .. Len(jobs)]
    BY DEF DocsQueued
  <1> QED BY <1>1, <1>2, <1>3

LEMMA IndexKeepsDocsQueued ==
    ASSUME DocsQueued, IndInv, NEW x \in Indexers, Index(x)
    PROVE  DocsQueued'
  <1>0. Len(jobs) \in Nat BY DEF IndInv, TypeOK, QueueTypeOK
  <1>1. CASE Search!ReadIndexJobs(x)
    <2>1. /\ jobLast' \in jobLast + 1 .. Len(jobs) /\ UNCHANGED <<jobs, docs>>
          /\ \/ /\ ifrom' = [ifrom EXCEPT ![x] = jobLast + 1]
                /\ ito' = [ito EXCEPT ![x] = jobLast']
             \/ UNCHANGED <<ifrom, ito>>
      BY <1>1 DEF Search!ReadIndexJobs, Search!indexerVars
    <2>2. jobLast \in Nat /\ jobLast' \in 0 .. Len(jobs) BY <1>0, <2>1 DEF DocsQueued
    <2>3. ifrom' \in [Indexers -> Nat \ {0}] /\ ito' \in [Indexers -> 0 .. Len(jobs)]
      <3>1. ifrom \in [Indexers -> Nat \ {0}] /\ ito \in [Indexers -> 0 .. Len(jobs)]
        BY DEF DocsQueued
      <3>2. jobLast + 1 \in Nat \ {0} BY <2>2
      <3> QED BY <2>1, <2>2, <3>1, <3>2
    <2> QED BY <2>1, <2>2, <2>3 DEF DocsQueued, Queued
  <1>2. CASE Search!BulkIndexEvents(x)
    <2>1. /\ docs' \subseteq docs \cup Search!Parsed(x) /\ UNCHANGED <<jobs, jobLast>>
          /\ Search!Drop(x) \/ UNCHANGED <<ifrom, ito>>
      BY <1>2 DEF Search!BulkIndexEvents, Search!jobVars
    <2>2. ifrom' \in [Indexers -> Nat \ {0}] /\ ito' \in [Indexers -> 0 .. Len(jobs)]
      BY <1>0, <2>1, DropStaysInside DEF DocsQueued
    <2>3. \A e \in docs' : Queued(e) BY <1>0, <2>1, HeldJobsAreQueued DEF DocsQueued
    <2> QED BY <2>1, <2>2, <2>3 DEF DocsQueued, Queued
  <1>3. CASE Search!AckIndexJobs(x)
    <2>1. UNCHANGED <<jobs, jobLast, docs>> /\ Search!Drop(x) BY <1>3 DEF Search!AckIndexJobs
    <2>2. ifrom' \in [Indexers -> Nat \ {0}] /\ ito' \in [Indexers -> 0 .. Len(jobs)]
      BY <1>0, <2>1, DropStaysInside DEF DocsQueued
    <2> QED BY <2>1, <2>2 DEF DocsQueued, Queued
  <1> QED BY <1>1, <1>2, <1>3 DEF Index, Search!ProcessIndexBatch

LEMMA DocsQueuedStep == DocsQueued /\ IndInv /\ [SystemNext]_systemVars => DocsQueued'
  <1> SUFFICES ASSUME DocsQueued, IndInv, [SystemNext]_systemVars PROVE DocsQueued' OBVIOUS
  <1>0. /\ Len(jobs) \in Nat /\ Len(jobs') \in Nat /\ Len(jobs) <= Len(jobs')
        /\ \A j \in 1 .. Len(jobs) : jobs'[j] = jobs[j]
    BY SystemStepIsPipelineStep, JobsGrow
  <1>1. \A e : Queued(e) => Queued(e)' BY <1>0 DEF Queued
  <1>2. CASE \E x \in Indexers : Index(x) BY <1>2, IndexKeepsDocsQueued
  <1>3. CASE UNCHANGED <<jobLast, ifrom, ito, docs>>
    BY <1>0, <1>1, <1>3 DEF DocsQueued
  <1>4. CASE SystemCrash
    <2>1. /\ UNCHANGED <<jobLast, docs>>
          /\ ifrom' = [x \in Indexers |-> 1] /\ ito' = [x \in Indexers |-> 0]
      BY <1>4 DEF SystemCrash, Search!LoseIndexers, Search!jobVars
    <2> QED BY <1>0, <1>1, <2>1 DEF DocsQueued
  <1>5. CASE SystemRestart
    <2>1. /\ UNCHANGED <<jobs, ifrom, ito, docs>> /\ jobLast' \in {jobLast, Len(jobs)}
      BY <1>5 DEF SystemRestart, Restart, Search!EnsureIndexerGroup, Search!indexerVars
    <2> QED BY <1>0, <1>1, <2>1 DEF DocsQueued
  <1> QED BY <1>2, <1>3, <1>4, <1>5 DEF SystemNext, Ingest, Aggregate, SystemFlush, Search!FlushJobs,
          systemVars, indexVars, Search!indexerVars

\* What search can find is in PostgreSQL, ClickHouse and the user maps, for any
\* events, workers, indexers and faults.
THEOREM SearchIsPersistedHolds == SystemSpec => []SearchIsPersisted
  <1>1. SystemInit => DocsQueued
    BY DEF SystemInit, Init, Search!IndexInit, DocsQueued
  <1>2. DocsQueued /\ IndInv => SearchIsPersisted
    BY DEF DocsQueued, Queued, IndInv, PersistenceFirst, SearchIsPersisted
  <1> QED BY <1>1, <1>2, DocsQueuedStep, SystemImplementsPipeline, Invariance, PTL DEF SystemSpec

\* The server, its indexers included, implements the ledger as its write path does.
COROLLARY SystemImplementsLedger == SystemSpec => LedgerSpec
  BY SystemImplementsPipeline, PipelineImplementsLedger

-----------------------------------------------------------------------------
(* What leaves a queue.                                                    *)

\* Only a read moves the aggregators' group past entries, and its worker holds them.
LEMMA QueueIsTaken ==
    ASSUME IndInv, [Next]_vars, "read" \notin Faults, NEW i \in Entries,
           group, last < i, i <= Len(stream), i <= last'
    PROVE  Held(i)'
  <1>0. QueueTypeOK /\ WorkerTypeOK /\ last \in Nat /\ i \in Nat
    BY DEF IndInv, TypeOK, QueueTypeOK, Entries
  <1>1. ASSUME NEW w \in Workers, ReadFromGroup(w) PROVE Held(i)'
    <2>1. PICK upTo \in last + 1 .. Len(stream) :
             /\ last' = upTo
             /\ from' = [from EXCEPT ![w] = last + 1] /\ to' = [to EXCEPT ![w] = upTo]
      BY <1>1 DEF ReadFromGroup
    <2>2. from'[w] = last + 1 /\ to'[w] = last' BY <1>0, <2>1 DEF WorkerTypeOK
    <2>3. i \in Batch(w)' BY <1>0, <2>1, <2>2 DEF Batch
    <2> QED BY <2>3 DEF Held
  <1>2. ASSUME ~\E w \in Workers : ReadFromGroup(w) PROVE last' = last
    <2>1. ASSUME NEW w \in Workers, ProcessBatch(w) PROVE last' = last
      BY <2>1 DEF ProcessBatch, BatchCreateAggregatedEvents, BatchAddToDatabase,
         BatchInsertToClickHouse, BatchCreateUserEventMaps, SkipEvent, PushToRecentFeed,
         PublishEvent, EnqueueEventsForIndexing, AckMessage, FailCall, groupVars
    <2>2. CASE Restart BY <2>2 DEF Restart, EnsureConsumerGroup
    <2>3. CASE UNCHANGED vars BY <2>3 DEF vars, groupVars
    <2> QED BY <1>2, <2>1, <2>2, <2>3 DEF Next, PostEvent, Resend, Accept, Reject, Crash, FlushAll, groupVars
  <1>3. last' # last
    BY <1>0
  <1> QED BY <1>1, <1>2, <1>3

\* The same of the indexers' group.
LEMMA JobsAreTaken ==
    ASSUME DocsQueued, Len(jobs) \in Nat, [SystemNext]_systemVars, "read" \notin IndexFaults,
           NEW j \in Entries, jobGroup, jobLast < j, j <= jobLast'
    PROVE  \E x \in Indexers : j \in (Search!JobBatch(x))'
  <1>0. jobLast \in Nat /\ j \in Nat BY DEF DocsQueued, Entries
  <1>1. ASSUME NEW x \in Indexers, Search!ReadIndexJobs(x) PROVE j \in (Search!JobBatch(x))'
    <2>1. PICK upTo \in jobLast + 1 .. Len(jobs) :
             /\ jobLast' = upTo
             /\ ifrom' = [ifrom EXCEPT ![x] = jobLast + 1] /\ ito' = [ito EXCEPT ![x] = upTo]
      BY <1>1 DEF Search!ReadIndexJobs
    <2>2. ifrom'[x] = jobLast + 1 /\ ito'[x] = jobLast' BY <2>1 DEF DocsQueued
    <2> QED BY <1>0, <2>1, <2>2 DEF Search!JobBatch
  <1>2. ASSUME ~\E x \in Indexers : Search!ReadIndexJobs(x) PROVE jobLast' = jobLast
    <2>1. ASSUME NEW x \in Indexers, Index(x) PROVE jobLast' = jobLast
      BY <1>2, <2>1 DEF Index, Search!ProcessIndexBatch, Search!BulkIndexEvents,
         Search!AckIndexJobs, Search!jobVars
    <2>2. CASE SystemRestart BY <2>2 DEF SystemRestart, Search!EnsureIndexerGroup
    <2>3. CASE SystemCrash BY <2>3 DEF SystemCrash, Search!LoseIndexers, Search!jobVars
    <2>4. CASE SystemFlush BY <2>4 DEF SystemFlush, Search!FlushJobs
    <2> QED BY <2>1, <2>2, <2>3, <2>4 DEF SystemNext, Ingest, Aggregate, systemVars, indexVars
  <1>3. jobLast' # jobLast BY <1>0
  <1> QED BY <1>1, <1>2, <1>3

\* As long as no reply of XREADGROUP is lost, an entry leaves a queue only into the
\* hands of a worker: neither crash nor restart skips what was still queued.
THEOREM QueueSurvivesRestartHolds ==
    ASSUME "read" \notin Faults, "read" \notin IndexFaults
    PROVE  SystemSpec => QueueSurvivesRestart
  <1>1. ASSUME IndInv, DocsQueued, [SystemNext]_systemVars
        PROVE  /\ \A i \in Entries : group /\ last < i /\ i <= Len(stream) /\ i <= last' => Held(i)'
               /\ \A j \in Entries : jobGroup /\ jobLast < j /\ j <= Len(jobs) /\ j <= jobLast' =>
                     \E x \in Indexers : j \in (Search!JobBatch(x))'
    <2>1. [Next]_vars BY <1>1, SystemStepIsPipelineStep
    <2>2. Len(jobs) \in Nat BY <1>1 DEF IndInv, TypeOK, QueueTypeOK
    <2>3. ASSUME NEW i \in Entries, group, last < i, i <= Len(stream), i <= last' PROVE Held(i)'
      BY <1>1, <2>1, <2>3, QueueIsTaken
    <2>4. ASSUME NEW j \in Entries, jobGroup, jobLast < j, j <= Len(jobs), j <= jobLast'
          PROVE  \E x \in Indexers : j \in (Search!JobBatch(x))'
      BY <1>1, <2>2, <2>4, JobsAreTaken
    <2> QED BY <2>3, <2>4
  <1>2. SystemSpec => [](IndInv /\ DocsQueued)
    <2>1. SystemInit => DocsQueued BY DEF SystemInit, Init, Search!IndexInit, DocsQueued
    <2> QED BY <2>1, DocsQueuedStep, SystemImplementsPipeline, Invariance, PTL DEF SystemSpec
  <1> QED BY <1>1, <1>2, PTL DEF SystemSpec, QueueSurvivesRestart
=============================================================================
