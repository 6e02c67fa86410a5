---------------------------- MODULE ReadersProofs ----------------------------
(***************************************************************************)
(* Proofs about the parts beside the write path, for any constants: the    *)
(* recent feed serves the newest events although pushes interleave command *)
(* by command; the search backfill misses only rows whose timestamps are   *)
(* out of order; and GetAnalyticsMapReduce starts no more goroutines than  *)
(* its channel has room for and answers what the sequential handler would. *)
(***************************************************************************)
EXTENDS MapReduce, RecentFeed, SearchBackfill, SetLemmas, SequenceTheorems, TLAPS

-----------------------------------------------------------------------------
(* The recent feed.                                                        *)

\* The feed is a part of what was added that holds the newest of it, and a pusher
\* that is not idle has an event.
FeedKept ==
    /\ FeedTypeOK
    /\ \A p \in Pushers : ppc[p] # "idle" => event[p] \in Events
    /\ IsFiniteSet(added) /\ feed \subseteq added /\ Newest(added) \subseteq feed

LEMMA NewestIsNewestOf == \A S : Newest(S) = NewestOf(S, FeedCap)
  BY DEF Newest, NewestOf, Above

\* ZADD, with whatever is trimmed between two adds, keeps the newest.
LEMMA AddKeepsNewest ==
    ASSUME FeedKept, NEW e \in Events
    PROVE  /\ IsFiniteSet(added \cup {e}) /\ feed \cup {e} \subseteq added \cup {e}
           /\ Newest(added \cup {e}) \subseteq feed \cup {e}
  <1>1. /\ added \in SUBSET Nat /\ IsFiniteSet(added) /\ feed \in SUBSET added /\ FeedCap \in Nat
        /\ NewestOf(added, FeedCap) \subseteq feed
    BY FeedEventsAssumption, NewestIsNewestOf DEF FeedKept, FeedTypeOK
  <1>2. NewestOf(added \cup {e}, FeedCap) \subseteq feed \cup {e} /\ IsFiniteSet(added \cup {e})
    BY <1>1, KeptAdded
  <1> QED BY <1>1, <1>2, NewestIsNewestOf

\* ZREMRANGEBYRANK cuts off none of the newest.
LEMMA TrimKeepsNewest ==
    ASSUME FeedKept
    PROVE  Newest(feed) \subseteq feed /\ Newest(added) \subseteq Newest(feed)
  <1>1. /\ added \in SUBSET Nat /\ IsFiniteSet(added) /\ feed \in SUBSET added /\ FeedCap \in Nat
        /\ NewestOf(added, FeedCap) \subseteq feed
    BY FeedEventsAssumption, NewestIsNewestOf DEF FeedKept, FeedTypeOK
  <1>2. NewestOf(added, FeedCap) \subseteq NewestOf(feed, FeedCap) BY <1>1, KeptTrimmed
  <1> QED BY <1>2, NewestIsNewestOf DEF Newest

LEMMA FeedKeptStep == FeedKept /\ [FeedNext]_feedVars => FeedKept'
  <1> SUFFICES ASSUME FeedKept, [FeedNext]_feedVars PROVE FeedKept' OBVIOUS
  <1> USE DEF FeedTypeOK
  <1>1. ASSUME NEW p \in Pushers, Start(p) PROVE FeedKept'
    BY <1>1 DEF Start, FeedKept, Newest
  <1>2. ASSUME NEW p \in Pushers, Add(p) PROVE FeedKept'
    <2>1. CASE kind = "list"
      BY <1>2, <2>1 DEF Add, FeedKept, Newest
    <2>2. CASE kind # "list"
      <3>1. event[p] \in Events BY <1>2 DEF Add, FeedKept
      <3>2. /\ kind' = "zset" /\ feed' = feed \cup {event[p]} /\ added' = added \cup {event[p]}
            /\ ppc' = [ppc EXCEPT ![p] = "trim"] /\ UNCHANGED <<event, unpushed, returned>>
        BY <1>2, <2>2 DEF Add
      <3>3. FeedTypeOK' BY <3>1, <3>2 DEF FeedKept
      <3>4. \A q \in Pushers : ppc'[q] # "idle" => event'[q] \in Events
        BY <3>1, <3>2 DEF FeedKept
      <3>5. IsFiniteSet(added') /\ feed' \subseteq added' /\ Newest(added') \subseteq feed'
        BY <3>1, <3>2, AddKeepsNewest
      <3> QED BY <3>3, <3>4, <3>5 DEF FeedKept, Newest
    <2> QED BY <2>1, <2>2
  <1>3. ASSUME NEW p \in Pushers, Trim(p) \/ BreakPipeline(p) PROVE FeedKept'
    <2>1. /\ feed' = feed \/ feed' = Newest(feed)
          /\ ppc' = [ppc EXCEPT ![p] = "idle"] /\ event' = [event EXCEPT ![p] = NoEvent]
          /\ UNCHANGED <<kind, unpushed, added>>
          /\ returned' \in SUBSET added
      BY <1>3 DEF Trim, BreakPipeline, Finish, FeedKept
    <2>2. feed' \subseteq feed /\ Newest(added) \subseteq feed'
      BY <2>1, TrimKeepsNewest DEF FeedKept
    <2>3. FeedTypeOK' BY <2>1, <2>2 DEF FeedKept
    <2>4. \A q \in Pushers : ppc'[q] # "idle" => event'[q] \in Events BY <2>1 DEF FeedKept
    <2> QED BY <2>1, <2>2, <2>3, <2>4 DEF FeedKept, Newest
  <1>4. ASSUME NEW p \in Pushers, DeleteOldKey(p) PROVE FeedKept'
    <2>1. CASE kind' = "none" /\ feed' = {} /\ added' = {} /\ returned' = {}
      BY <1>4, <2>1, FS_EmptySet DEF DeleteOldKey, FeedKept, Newest
    <2>2. CASE UNCHANGED <<kind, feed, added, returned>>
      BY <1>4, <2>2 DEF DeleteOldKey, FeedKept, Newest
    <2> QED BY <1>4, <2>1, <2>2 DEF DeleteOldKey
  <1>5. CASE OperatorFlush BY <1>5, FS_EmptySet DEF OperatorFlush, FeedKept, Newest
  <1>6. CASE UNCHANGED feedVars BY <1>6 DEF feedVars, FeedKept, Newest
  <1> QED BY <1>1, <1>2, <1>3, <1>4, <1>5, <1>6 DEF FeedNext, Push

\* The feed serves the newest events of those added since the key was last deleted,
\* and every event whose push returned, for any number of pushers whose commands
\* interleave, with connections that break and the operator's DEL.
THEOREM FeedInvariance == FeedSpec => []FeedInv
  <1>1. FeedInit => FeedKept
    BY FS_EmptySet DEF FeedInit, FeedKept, FeedTypeOK, Newest
  <1>2. FeedKept => FeedInv
    <2> SUFFICES ASSUME FeedKept PROVE FeedInv OBVIOUS
    <2>1. /\ added \in SUBSET Nat /\ IsFiniteSet(added) /\ feed \in SUBSET added /\ FeedCap \in Nat
          /\ NewestOf(added, FeedCap) \subseteq feed /\ returned \subseteq added
      BY FeedEventsAssumption, NewestIsNewestOf DEF FeedKept, FeedTypeOK
    <2>2. ServesNewest BY <2>1, NewestOfPart, NewestIsNewestOf DEF ServesNewest
    <2>3. ASSUME NEW e \in returned, e \notin feed
          PROVE  Cardinality({f \in feed : f > e}) >= FeedCap
      <3>1. e \in added /\ e \notin NewestOf(added, FeedCap) BY <2>1, <2>3
      <3>2. Cardinality(Above(feed, e)) >= FeedCap BY <2>1, <3>1, Displaced
      <3> QED BY <3>2 DEF Above
    <2> QED BY <2>2, <2>3 DEF FeedInv, FeedKept, ReturnedIsServed
  <1> QED BY <1>1, <1>2, FeedKeptStep, PTL DEF FeedSpec

-----------------------------------------------------------------------------
(* The search backfill.                                                    *)

\* Timestamps, then ids, put the rows in a strict total order.
LEMMA BeforeIsStrictOrder ==
    ASSUME time \in [Rows -> Times]
    PROVE  /\ \A e \in Rows : ~Before(e, e)
           /\ \A e, f, g \in Rows : Before(e, f) /\ Before(f, g) => Before(e, g)
           /\ \A e, f \in Rows : e # f => Before(e, f) \/ Before(f, e)
  <1>1. \A e \in Rows : e \in Nat /\ time[e] \in Nat BY RowsAssumption
  <1>2. \A e \in Rows : ~Before(e, e) BY <1>1 DEF Before
  <1>3. ASSUME NEW e \in Rows, NEW f \in Rows, NEW g \in Rows, Before(e, f), Before(f, g)
        PROVE  Before(e, g)
    BY <1>1, <1>3 DEF Before
  <1>4. ASSUME NEW e \in Rows, NEW f \in Rows, e # f PROVE Before(e, f) \/ Before(f, e)
    BY <1>1, <1>4 DEF Before
  <1> QED BY <1>2, <1>3, <1>4

\* Rows that are not none have a first one and a last one.
LEMMA FirstAndLastRow ==
    ASSUME time \in [Rows -> Times], NEW S \in SUBSET Rows, S # {}
    PROVE  /\ \E e \in S : \A f \in S \ {e} : Before(e, f)
           /\ \E e \in S : \A f \in S \ {e} : Before(f, e)
  <1>0. IsFiniteSet(S) BY RowsAssumption, FS_Subset
  <1>a. \A e \in S : e \in Rows OBVIOUS
  <1>1. \E e \in S : \A f \in S \ {e} : Before(e, f)
    <2> DEFINE R == {p \in S \X S : Before(p[2], p[1])}
    <2>1. \A x, y \in S : <<x, y>> \in R <=> Before(y, x) OBVIOUS
    <2> HIDE DEF R
    <2>2. \A x \in S : <<x, x>> \notin R BY <1>a, <2>1, BeforeIsStrictOrder
    <2>3. \A x, y, z \in S : <<x, y>> \in R /\ <<y, z>> \in R => <<x, z>> \in R
      BY <1>a, <2>1, BeforeIsStrictOrder
    <2>4. PICK e \in S : \A x \in S : <<e, x>> \notin R BY <1>0, <2>2, <2>3, MaximalMember
    <2> QED BY <1>a, <2>1, <2>4, BeforeIsStrictOrder
  <1>2. \E e \in S : \A f \in S \ {e} : Before(f, e)
    <2> DEFINE R == {p \in S \X S : Before(p[1], p[2])}
    <2>1. \A x, y \in S : <<x, y>> \in R <=> Before(x, y) OBVIOUS
    <2> HIDE DEF R
    <2>2. \A x \in S : <<x, x>> \notin R BY <1>a, <2>1, BeforeIsStrictOrder
    <2>3. \A x, y, z \in S : <<x, y>> \in R /\ <<y, z>> \in R => <<x, z>> \in R
      BY <1>a, <2>1, BeforeIsStrictOrder
    <2>4. PICK e \in S : \A x \in S : <<e, x>> \notin R BY <1>0, <2>2, <2>3, MaximalMember
    <2> QED BY <1>a, <2>1, <2>4, BeforeIsStrictOrder
  <1> QED BY <1>1, <1>2

\* What ORDER BY ... LIMIT returns: all rows, or a full page of rows that come
\* before every row it leaves out.
LEMMA PageOfRows ==
    ASSUME time \in [Rows -> Times], NEW S \in SUBSET Rows
    PROVE  /\ FirstRows(S) \subseteq S
           /\ S # {} => FirstRows(S) # {}
           /\ \A e \in S \ FirstRows(S) :
                 /\ Cardinality(FirstRows(S)) >= PageSize
                 /\ \A f \in FirstRows(S) : Before(f, e)
  <1> DEFINE Pre(e) == {f \in S : Before(f, e)}
  <1>0. \A e \in S : e \in Rows OBVIOUS
  <1>1. IsFiniteSet(S) /\ IsFiniteSet(FirstRows(S)) /\ PageSize \in Nat \ {0}
    BY RowsAssumption, PagesAssumption, FS_Subset DEF FirstRows
  <1>2. \A e : IsFiniteSet(Pre(e)) /\ Cardinality(Pre(e)) \in Nat
    BY <1>1, FS_Subset, FS_CardinalityType
  <1>3. \A e \in S : e \in FirstRows(S) <=> Cardinality(Pre(e)) < PageSize BY DEF FirstRows
  <1>4. FirstRows(S) \subseteq S BY DEF FirstRows
  <1>5. ASSUME S # {} PROVE FirstRows(S) # {}
    <2>1. PICK e \in S : \A f \in S \ {e} : Before(e, f) BY <1>5, FirstAndLastRow
    <2>2. Pre(e) = {} BY <1>0, <2>1, BeforeIsStrictOrder
    <2>3. Cardinality(Pre(e)) = 0 BY <2>2, FS_EmptySet
    <2> QED BY <1>1, <1>3, <2>3
  <1>6. ASSUME NEW e \in S \ FirstRows(S), NEW f \in FirstRows(S) PROVE Before(f, e)
    <2>1. e \in S /\ f \in S /\ e # f BY <1>4, <1>6
    <2>2. ASSUME Before(e, f) PROVE FALSE
      <3>1. Pre(e) \subseteq Pre(f) BY <1>0, <2>1, <2>2, BeforeIsStrictOrder
      <3>2. Cardinality(Pre(e)) <= Cardinality(Pre(f)) BY <1>2, <3>1, FS_Subset
      <3> HIDE DEF Pre
      <3> QED BY <1>1, <1>2, <1>3, <2>1, <3>2
    <2> QED BY <1>0, <2>1, <2>2, BeforeIsStrictOrder
  <1>7. ASSUME NEW e \in S \ FirstRows(S) PROVE Cardinality(FirstRows(S)) >= PageSize
    <2> DEFINE D == S \ FirstRows(S)
    <2>1. D \in SUBSET Rows /\ D # {} OBVIOUS
    <2>2. PICK g \in D : \A f \in D \ {g} : Before(g, f)
      <3> HIDE DEF D
      <3> QED BY <2>1, FirstAndLastRow
    <2>3. Pre(g) \subseteq FirstRows(S) BY <1>0, <2>2, BeforeIsStrictOrder
    <2>4. Cardinality(Pre(g)) <= Cardinality(FirstRows(S)) /\ Cardinality(FirstRows(S)) \in Nat
      BY <1>1, <2>3, FS_Subset, FS_CardinalityType
    <2>5. ~(Cardinality(Pre(g)) < PageSize) BY <1>3
    <2> HIDE DEF Pre
    <2> QED BY <1>1, <1>2, <2>4, <2>5
  <1> QED BY <1>4, <1>5, <1>6, <1>7

\* Row e has a document, or a row with a larger id that sorts before it has.
Covered(e) == e \in docs \/ \E f \in docs : f > e /\ Before(f, e)

\* The page in hand, if it is to be sent: the rows behind the cursor that were
\* there at the start are in it, or it is full and they come after all of it.
PageIsNext ==
    /\ page # {} /\ \A e \in page : e > after
    /\ \A e \in present \ page : e > after =>
          /\ Cardinality(page) >= PageSize
          /\ \A f \in page : Before(f, e)

\* Up to the cursor every row of the start is covered.
CursorInv ==
    /\ BackfillTypeOK
    /\ bpc \in {"read", "bulk"} => \A e \in present : e <= after => Covered(e)
    /\ bpc = "bulk" => PageIsNext
    /\ bpc = "done" => \A e \in present : Covered(e)

LEMMA CursorStep == CursorInv /\ [BackfillNext]_backfillVars => CursorInv'
  <1> SUFFICES ASSUME CursorInv, [BackfillNext]_backfillVars PROVE CursorInv' OBVIOUS
  <1>0. /\ time \in [Rows -> Times] /\ pg \in SUBSET Rows /\ docs \in SUBSET Rows
        /\ present \in SUBSET pg /\ page \in SUBSET pg
        /\ bpc \in {"off", "read", "bulk", "done", "failed"} /\ after \in Rows \cup {0}
    BY DEF CursorInv, BackfillTypeOK
  <1>a. \A e \in Rows : e \in Nat \ {0} BY RowsAssumption
  <1>1. ASSUME NEW e \in Rows, InsertRow(e) \/ IndexRow(e) PROVE CursorInv'
    <2>1. /\ UNCHANGED <<time, bpc, after, page, present>>
          /\ pg' \in SUBSET Rows /\ docs' \in SUBSET Rows /\ pg \subseteq pg' /\ docs \subseteq docs'
      BY <1>0, <1>1 DEF InsertRow, IndexRow
    <2>2. \A f : Covered(f) => Covered(f)' BY <2>1 DEF Covered, Before
    <2>3. PageIsNext => PageIsNext' BY <2>1 DEF PageIsNext, Before
    <2>4. BackfillTypeOK' BY <1>0, <2>1 DEF BackfillTypeOK
    <2> QED BY <2>1, <2>2, <2>3, <2>4 DEF CursorInv
  <1>2. CASE StartBackfill
    <2>1. BackfillTypeOK' BY <1>0, <1>2 DEF StartBackfill, BackfillTypeOK
    <2>2. \A e \in present' : ~(e <= after') BY <1>0, <1>a, <1>2 DEF StartBackfill
    <2> QED BY <1>2, <2>1, <2>2 DEF StartBackfill, CursorInv
  <1>3. CASE ReadPage
    <2> DEFINE S == {e \in pg : e > after}
    <2>1. /\ page' = FirstRows(S) /\ bpc' = IF page' = {} THEN "done" ELSE "bulk"
          /\ bpc = "read" /\ UNCHANGED <<time, pg, docs, after, present>>
      BY <1>3 DEF ReadPage
    <2>2. S \in SUBSET Rows BY <1>0
    <2>3. /\ page' \subseteq S /\ (S # {} => page' # {})
          /\ \A e \in S \ page' : Cardinality(page') >= PageSize /\ \A f \in page' : Before(f, e)
      <3> HIDE DEF S
      <3> QED BY <1>0, <2>1, <2>2, PageOfRows
    <2>4. BackfillTypeOK' BY <1>0, <2>1, <2>3 DEF BackfillTypeOK
    <2>5. \A e \in present : e <= after => Covered(e) BY <2>1 DEF CursorInv
    <2>6. \A e \in present : Covered(e)' <=> Covered(e) BY <2>1 DEF Covered, Before
    <2>7. CASE page' = {}
      <3>1. \A e \in present : e <= after
        <4>1. \A e \in present : e \in Nat /\ e \notin S BY <1>0, <1>a, <2>3, <2>7
        <4>2. after \in Nat BY <1>0, <1>a
        <4> QED BY <1>0, <4>1, <4>2
      <3> QED BY <2>1, <2>4, <2>5, <2>6, <2>7, <3>1 DEF CursorInv
    <2>8. CASE page' # {}
      <3>1. PageIsNext'
        <4>1. \A e \in page' : e > after BY <2>3
        <4>2. ASSUME NEW e \in present \ page', e > after
              PROVE  Cardinality(page') >= PageSize /\ \A f \in page' : Before(f, e)
          BY <1>0, <2>3, <4>2
        <4> QED BY <2>1, <2>8, <4>1, <4>2 DEF PageIsNext, Before
      <3> QED BY <2>1, <2>4, <2>5, <2>6, <2>8, <3>1 DEF CursorInv
    <2> QED BY <2>7, <2>8
  <1>4. CASE BulkPage
    <2>1. /\ docs' = docs \cup page /\ after' = LastRow(page)
          /\ bpc' = IF Cardinality(page) < PageSize THEN "done" ELSE "read"
          /\ bpc = "bulk" /\ UNCHANGED <<time, pg, page, present>>
      BY <1>4 DEF BulkPage
    <2>2. PageIsNext /\ \A e \in present : e <= after => Covered(e) BY <2>1 DEF CursorInv
    <2>3. LastRow(page) \in page
      <3>1. \E e \in page : \A f \in page \ {e} : Before(f, e)
        BY <1>0, <2>2, FirstAndLastRow DEF PageIsNext
      <3> QED BY <3>1 DEF LastRow
    <2>4. BackfillTypeOK' BY <1>0, <2>1, <2>3 DEF BackfillTypeOK
    <2>5. \A e : Covered(e) => Covered(e)' BY <2>1 DEF Covered, Before
    <2>6. \A e \in page : Covered(e)' BY <2>1 DEF Covered
    <2>7. ASSUME NEW e \in present, e <= after' PROVE Covered(e)'
      <3>1. CASE e <= after BY <2>2, <2>5, <3>1
      <3>2. CASE e \in page BY <2>6, <3>2
      <3>3. CASE e > after /\ e \notin page
        <4>1. Before(after', e) BY <2>1, <2>2, <2>3, <3>3 DEF PageIsNext
        <4>2. after' \in Nat /\ e \in Nat /\ after' # e BY <1>0, <1>a, <2>1, <2>3, <3>3
        <4>3. after' > e BY <2>7, <4>2
        <4>4. after' \in docs' BY <2>1, <2>3
        <4> QED BY <2>1, <4>1, <4>3, <4>4 DEF Covered, Before
      <3>4. e \in Nat /\ after \in Nat BY <1>0, <1>a
      <3> QED BY <3>1, <3>2, <3>3, <3>4
    <2>8. ASSUME Cardinality(page) < PageSize, NEW e \in present PROVE Covered(e)'
      <3>1. CASE e <= after BY <2>2, <2>5, <3>1
      <3>2. CASE e > after
        <4>1. IsFiniteSet(page) /\ Cardinality(page) \in Nat /\ PageSize \in Nat
          BY <1>0, RowsAssumption, PagesAssumption, FS_Subset, FS_CardinalityType
        <4>2. e \in page BY <2>2, <2>8, <3>2, <4>1 DEF PageIsNext
        <4> QED BY <2>6, <4>2
      <3>3. e \in Nat /\ after \in Nat BY <1>0, <1>a
      <3> QED BY <3>1, <3>2, <3>3
    <2> QED BY <2>1, <2>4, <2>7, <2>8 DEF CursorInv
  <1>5. CASE FailRead \/ FailBulk
    <2>1. /\ bpc' = "failed" /\ UNCHANGED <<time, pg, after, page, present>>
          /\ docs' \in SUBSET Rows
      BY <1>0, <1>5 DEF FailRead, FailBulk
    <2>2. BackfillTypeOK' BY <1>0, <2>1 DEF BackfillTypeOK
    <2> QED BY <2>1, <2>2 DEF CursorInv
  <1>6. CASE UNCHANGED backfillVars
    BY <1>6 DEF backfillVars, CursorInv, BackfillTypeOK, PageIsNext, Covered, Before
  <1> QED BY <1>1, <1>2, <1>3, <1>4, <1>5, <1>6 DEF BackfillNext, Backfill

\* A backfill that ends without error misses a row that was there at its start only
\* if a row with a larger id sorts before it by timestamp, for any rows, timestamps
\* and page size, whatever is inserted or indexed while it runs.
THEOREM BackfillInvariance == BackfillSpec => []BackfillInv
  <1>1. BackfillInit => CursorInv
    BY DEF BackfillInit, CursorInv, BackfillTypeOK
  <1>2. CursorInv => BackfillInv
    <2> SUFFICES ASSUME CursorInv PROVE MissesOnlyOutOfOrder BY DEF CursorInv, BackfillInv
    <2> QED BY DEF CursorInv, Covered, MissesOnlyOutOfOrder
  <1> QED BY <1>1, <1>2, CursorStep, PTL DEF BackfillSpec

-----------------------------------------------------------------------------
(* The map-reduce handler.  The chunks start at 1, 1 + c, 1 + 2c, ... for  *)
(* the chunk size c, and c is rounded up, so NumWorkers chunks reach the   *)
(* last event.                                                             *)

Size   == ChunkSize(Len(events))
StartOf(k) == 1 + (k - 1) * Size
Starts == {StartOf(k) : k \in 1 .. NumWorkers}

\* The next chunk, if there is one, and all chunks before it are among the
\* first NumWorkers.
ChunkInv ==
    /\ Len(events) \in Nat
    /\ hpc = "spawn" => i <= Len(events) /\ i \in Starts
    /\ DOMAIN gpc \subseteq Starts

\* Rounding up, NumWorkers chunks of ChunkSize(n) reach n.
LEMMA ChunksReach ==
    ASSUME NEW n \in Nat, n > 0
    PROVE  /\ ChunkSize(n) \in Nat \ {0}
           /\ n <= NumWorkers * ChunkSize(n)
  <1>1. NumWorkers \in Nat \ {0}
    BY WorkersAssumption
  <1> DEFINE x == n + NumWorkers - 1
  <1>2. x \in Nat /\ x >= NumWorkers
    BY <1>1
  <1>3. /\ x \div NumWorkers \in Int
        /\ x < NumWorkers * ((x \div NumWorkers) + 1)
    BY <1>1, <1>2
  <1>4. x < NumWorkers * (x \div NumWorkers) + NumWorkers
    BY <1>1, <1>3
  <1>5. NumWorkers * (x \div NumWorkers) \in Int
    BY <1>1, <1>3
  <1>6. n <= NumWorkers * (x \div NumWorkers)
    BY <1>1, <1>4, <1>5
  <1>7. x \div NumWorkers > 0
    BY <1>1, <1>2, <1>3, <1>6
  <1> QED BY <1>3, <1>6, <1>7 DEF ChunkSize

\* A chunk that starts inside the events is followed by one of the first
\* NumWorkers, or by none.
LEMMA NextStart ==
    ASSUME Len(events) \in Nat, i \in Starts, i <= Len(events),
           i + Size <= Len(events)
    PROVE  i + Size \in Starts
  <1> DEFINE n == Len(events)
  <1>1. PICK k \in 1 .. NumWorkers : i = StartOf(k)
    BY DEF Starts
  <1>2. n > 0 /\ Size \in Nat \ {0} /\ n <= NumWorkers * Size
    <2>1. n > 0
      <3>1. CASE n = 0
        <4>1. Size \in Int
          BY <3>1, WorkersAssumption DEF Size, ChunkSize
        <4>2. Size = 0
          BY <3>1, WorkersAssumption DEF Size, ChunkSize
        <4>3. i = 1
          BY <1>1, <4>2, WorkersAssumption DEF StartOf
        <4> QED BY <3>1, <4>3
      <3> QED BY <3>1
    <2> QED BY <2>1, ChunksReach DEF Size
  <1>3. i + Size = 1 + k * Size
    BY <1>1, <1>2, WorkersAssumption DEF StartOf
  <1>4. k * Size < NumWorkers * Size
    <2>1. k * Size \in Nat /\ NumWorkers * Size \in Nat
      BY <1>2, WorkersAssumption
    <2> QED BY <1>2, <1>3, <2>1
  <1>5. k < NumWorkers
    <2>1. SUFFICES ASSUME k = NumWorkers PROVE FALSE
      BY WorkersAssumption
    <2> QED BY <1>4, <2>1, <1>2, WorkersAssumption
  <1>6. k + 1 \in 1 .. NumWorkers /\ i + Size = StartOf(k + 1)
    BY <1>3, <1>5, <1>2, WorkersAssumption DEF StartOf
  <1> QED BY <1>6 DEF Starts

\* ChunkInv is an inductive invariant of the handler.
LEMMA ChunkInvariance == Spec => []ChunkInv
  <1>1. Init => ChunkInv
    <2> SUFFICES ASSUME Init PROVE ChunkInv
      OBVIOUS
    <2>1. Len(events) \in Nat
      BY DEF Init, Inputs
    <2>2. hpc = "spawn" => i <= Len(events) /\ i \in Starts
      <3>1. i = 1 /\ 1 \in 1 .. NumWorkers
        BY WorkersAssumption DEF Init
      <3>2. hpc = "spawn" => Len(events) > 0
        BY <2>1 DEF Init, Inputs
      <3>3. Len(events) > 0 => StartOf(1) = 1
        BY <2>1, ChunksReach DEF StartOf, Size
      <3> QED BY <2>1, <3>1, <3>2, <3>3 DEF Starts
    <2>3. DOMAIN gpc = {}
      BY DEF Init
    <2> QED BY <2>1, <2>2, <2>3 DEF ChunkInv
  <1>2. ChunkInv /\ [Next]_vars => ChunkInv'
    <2> SUFFICES ASSUME ChunkInv, [Next]_vars PROVE ChunkInv'
      OBVIOUS
    <2>1. CASE Spawn
      <3>1. events' = events /\ Size' = Size /\ Starts' = Starts
        BY <2>1 DEF Spawn, Size, Starts, StartOf
      <3>2. i \in Starts /\ i <= Len(events) /\ i' = i + Size
        BY <2>1 DEF Spawn, ChunkInv, Size
      <3>3. DOMAIN gpc' = DOMAIN gpc \cup {i}
        BY <2>1 DEF Spawn, Goroutine
      <3>4. hpc' = "spawn" => i' <= Len(events) /\ i' \in Starts
        BY <2>1, <3>2, NextStart DEF Spawn, ChunkInv
      <3> QED BY <3>1, <3>2, <3>3, <3>4 DEF ChunkInv
    <2>2. CASE \E s \in DOMAIN gpc : Send(s) \/ Done(s)
      <3>1. PICK s \in DOMAIN gpc : Send(s) \/ Done(s)
        BY <2>2
      <3>2. UNCHANGED <<events, hpc, i>>
        BY <3>1 DEF Send, Done
      <3>3. DOMAIN gpc' = DOMAIN gpc
        BY <3>1 DEF Send, Done, Goroutine
      <3> QED BY <3>2, <3>3 DEF ChunkInv, Starts, StartOf, Size
    <2>3. CASE Wait \/ Reduce \/ UNCHANGED vars
      <3>1. UNCHANGED <<events, i, gpc>> /\ (hpc' = "spawn" => hpc = "spawn")
        BY <2>3 DEF Wait, Reduce, vars
      <3> QED BY <3>1 DEF ChunkInv, Starts, StartOf, Size
    <2> QED BY <2>1, <2>2, <2>3 DEF Next
  <1> QED BY <1>1, <1>2, PTL DEF Spec

\* There are at most NumWorkers starts.
LEMMA StartsBounded == ChunkInv => IsFiniteSet(Starts) /\ Cardinality(Starts) <= NumWorkers
  <1> DEFINE f == [k \in 1 .. NumWorkers |-> StartOf(k)]
  <1>1. f \in Surjection(1 .. NumWorkers, Starts)
    BY DEF Surjection, Starts
  <1>2. ExistsSurjection(1 .. NumWorkers, Starts)
    BY <1>1 DEF ExistsSurjection
  <1> QED BY <1>2, WorkersAssumption, FS_SurjCardinalityBound, FS_NatSurjection

\* The channel has room for what every goroutine sends, whatever the number of
\* events and of workers.
THEOREM ChannelSufficesHolds == Spec => []ChannelSuffices
  <1>1. ChunkInv => ChannelSuffices
    <2> SUFFICES ASSUME ChunkInv PROVE ChannelSuffices
      OBVIOUS
    <2>1. DOMAIN gpc \subseteq Starts
      BY DEF ChunkInv
    <2>2. IsFiniteSet(DOMAIN gpc) /\ Cardinality(DOMAIN gpc) <= Cardinality(Starts)
      BY <2>1, StartsBounded, FS_Subset
    <2>3. Cardinality(Starts) \in Nat /\ Cardinality(DOMAIN gpc) \in Nat
      BY <2>2, StartsBounded, FS_CardinalityType
    <2> QED BY <2>2, <2>3, StartsBounded, WorkersAssumption DEF ChannelSuffices
  <1> QED BY <1>1, ChunkInvariance, PTL

-----------------------------------------------------------------------------
(* The answer.  A partial result in the channel is that of one chunk; what *)
(* was read of the channel adds up to the chunks whose results were sent   *)
(* and are not in it any more.                                             *)

Places == 1 .. Len(events)
Length == [j \in Places |-> events[j].duration]

LEMMA EventsTyped ==
    ASSUME events \in Inputs
    PROVE  /\ Len(events) \in Nat /\ IsFiniteSet(Places)
           /\ \A j \in Places : events[j] \in Event /\ Length[j] \in Int
  <1>1. PICK n : n \in 0 .. MaxEvents /\ events \in [1 .. n -> Event] BY DEF Inputs
  <1>2. n \in Nat /\ Len(events) = n BY <1>1, WorkersAssumption
  <1>3. \A j \in Places : events[j] \in Event BY <1>1, <1>2 DEF Places
  <1>4. \A j \in Places : Length[j] \in Int BY <1>3, DurationsAssumption DEF Length, Event
  <1>5. IsFiniteSet(1 .. n) BY <1>2, FS_Interval
  <1> QED BY <1>2, <1>3, <1>4, <1>5 DEF Places

\* The fold over the durations is a sum.
LEMMA DurationIsSum ==
    ASSUME events \in Inputs, NEW g, IsSum(Length, Places, g), NEW D \in SUBSET Places
    PROVE  DurationOf(D) = g[D]
  <1> DEFINE F(k) == [S \in SUBSET D |->
                         IF S = {} THEN 0
                         ELSE LET x == CHOOSE x \in S : TRUE IN events[x].duration + k[S \ {x}]]
             fold == CHOOSE k : k = F(k)
  <1>1. DurationOf(D) = fold[D]
    BY DEF DurationOf, SetsExt!MapThenSumSet, SetsExt!MapThenFoldSet
  <1>2. IsFiniteSet(Places) /\ IsFiniteSet(D) BY EventsTyped, FS_Subset
  <1>3. ASSUME NEW k PROVE F(k) = [S \in SUBSET D |-> SumStep(Length, S, k)]
    <2>1. ASSUME NEW S \in SUBSET D
          PROVE  (IF S = {} THEN 0
                  ELSE LET x == CHOOSE x \in S : TRUE IN events[x].duration + k[S \ {x}])
                     = SumStep(Length, S, k)
      <3>1. CASE S = {} BY <3>1 DEF SumStep
      <3>2. CASE S # {}
        <4> DEFINE x == CHOOSE x \in S : TRUE
        <4>1. x \in S BY <3>2
        <4>2. x \in Places BY <4>1
        <4>3. SumStep(Length, S, k) = Length[x] + k[S \ {x}] BY <3>2 DEF SumStep
        <4> HIDE DEF x
        <4>4. Length[x] = events[x].duration BY <4>2 DEF Length
        <4> QED BY <3>2, <4>3, <4>4 DEF x
      <3> QED BY <3>1, <3>2
    <2> QED BY <2>1
  <1>4. PICK h : IsSum(Length, D, h) BY <1>2, SumExists
  <1> HIDE DEF F
  <1>5. h = F(h) BY <1>3, <1>4 DEF IsSum
  <1>6. fold = F(fold) BY <1>5
  <1> HIDE DEF fold
  <1>7. IsSum(Length, D, fold) BY <1>3, <1>6 DEF IsSum
  <1>8. fold[D] = g[D] BY <1>2, <1>7, SumUnique
  <1> QED BY <1>1, <1>8

LEMMA DurationsAdd ==
    ASSUME events \in Inputs, NEW S \in SUBSET Places, NEW T \in SUBSET Places, S \cap T = {}
    PROVE  /\ DurationOf({}) = 0 /\ DurationOf(S) \in Int
           /\ DurationOf(S \cup T) = DurationOf(S) + DurationOf(T)
  <1>0. IsFiniteSet(Places) BY EventsTyped
  <1>1. \A x \in Places : Length[x] \in Int BY EventsTyped
  <1>2. PICK g : IsSum(Length, Places, g) BY <1>0, SumExists
  <1>3. \A D \in SUBSET Places : DurationOf(D) = g[D] BY <1>2, DurationIsSum
  <1>4. g[{}] = 0 BY <1>2, SumOf
  <1>5. g[S] \in Int BY <1>0, <1>1, <1>2, SumTyped
  <1>6. g[S \cup T] = g[S] + g[T]
    <2>1. \A X, Y \in SUBSET Places : X \cap Y = {} => g[X \cup Y] = g[X] + g[Y]
      BY <1>0, <1>1, <1>2, SumAdds
    <2> QED BY <2>1
  <1>7. S \cup T \in SUBSET Places /\ {} \in SUBSET Places OBVIOUS
  <1> QED BY <1>3, <1>4, <1>5, <1>6, <1>7

LEMMA CountsAdd ==
    ASSUME events \in Inputs, NEW S \in SUBSET Places, NEW T \in SUBSET Places, S \cap T = {}
    PROVE  /\ CountsOf({}) = [a \in Actions |-> 0]
           /\ \A a \in Actions : CountsOf(S)[a] \in Nat
           /\ CountsOf(S \cup T) = [a \in Actions |-> CountsOf(S)[a] + CountsOf(T)[a]]
  <1> DEFINE With(D, a) == {j \in D : events[j].action = a}
             count(D, a) == Cardinality(With(D, a))
  <1>1. \A D \in SUBSET Places : \A a : IsFiniteSet(With(D, a)) /\ count(D, a) \in Nat
    <2> TAKE D \in SUBSET Places
    <2> TAKE a
    <2>1. IsFiniteSet(Places) /\ With(D, a) \in SUBSET Places BY EventsTyped
    <2> HIDE DEF With
    <2> QED BY <2>1, FS_Subset, FS_CardinalityType
  <1>2. ASSUME NEW a \in Actions PROVE count(S \cup T, a) = count(S, a) + count(T, a)
    <2>1. With(S \cup T, a) = With(S, a) \cup With(T, a) /\ With(S, a) \cap With(T, a) = {} OBVIOUS
    <2>2. IsFiniteSet(With(S, a)) /\ IsFiniteSet(With(T, a)) BY <1>1
    <2>3. count(S, a) \in Nat /\ count(T, a) \in Nat BY <1>1
    <2> HIDE DEF With
    <2>4. Cardinality(With(S, a) \cup With(T, a))
             = Cardinality(With(S, a)) + Cardinality(With(T, a)) - Cardinality(With(S, a) \cap With(T, a))
      BY <2>2, FS_Union
    <2>5. Cardinality(With(S, a) \cap With(T, a)) = 0 BY <2>1, FS_EmptySet
    <2>6. count(S \cup T, a) = Cardinality(With(S, a) \cup With(T, a)) BY <2>1
    <2>7. Cardinality(With(S, a)) = count(S, a) /\ Cardinality(With(T, a)) = count(T, a) OBVIOUS
    <2> HIDE DEF count
    <2> QED BY <2>3, <2>4, <2>5, <2>6, <2>7
  <1>3. \A a : count({}, a) = 0
    <2>1. \A a : With({}, a) = {} OBVIOUS
    <2> QED BY <2>1, FS_EmptySet
  <1>4. \A D : CountsOf(D) = [a \in Actions |-> count(D, a)] BY DEF CountsOf
  <1> HIDE DEF count
  <1> QED BY <1>1, <1>2, <1>3, <1>4

\* The chunks of the goroutines lie one behind the other and reach the place where
\* the next one starts; the handler goes on only when all of them are done.
Summed(X) == UNION {Chunk(s) : s \in X}
ProgressInv ==
    /\ events \in Inputs
    /\ i \in Nat \ {0} /\ hpc \in {"spawn", "wait", "reduce", "done"}
    /\ IF hpc = "spawn" THEN i <= Len(events) ELSE i > Len(events)
    /\ \A s \in DOMAIN gpc : s \in Places /\ s + Size <= i /\ gpc[s] \in {"working", "sent", "done"}
    /\ \A s, t \in DOMAIN gpc : s < t => s + Size <= t
    /\ Summed(DOMAIN gpc) = {j \in Places : j < i}
    /\ hpc \in {"reduce", "done"} => \A s \in DOMAIN gpc : gpc[s] = "done"

LEMMA SizeTyped ==
    ASSUME events \in Inputs
    PROVE  Size \in Nat /\ (Len(events) > 0 => Size > 0)
  <1>1. Len(events) \in Nat BY EventsTyped
  <1>2. CASE Len(events) > 0 BY <1>1, <1>2, ChunksReach DEF Size
  <1>3. CASE Len(events) = 0
    <2>1. 0 + NumWorkers - 1 \in Nat /\ NumWorkers \in Nat \ {0} BY WorkersAssumption
    <2>2. (0 + NumWorkers - 1) \div NumWorkers \in Nat BY <2>1
    <2> QED BY <1>3, <2>2 DEF Size, ChunkSize
  <1> QED BY <1>1, <1>2, <1>3

\* The partial results are told apart by the chunks they are of.
Result(s)    == [counts |-> CountsOf(Chunk(s)), duration |-> DurationOf(Chunk(s))]
SentOnes     == {s \in DOMAIN gpc : gpc[s] # "working"}
InChannel(f) == {f[k] : k \in 1 .. Len(f)}
Tagged(f) ==
    /\ f \in Seq(SentOnes) /\ channel = [k \in 1 .. Len(f) |-> Result(f[k])]
    /\ \A k, l \in 1 .. Len(f) : f[k] = f[l] => k = l
    /\ counts = CountsOf(Summed(SentOnes \ InChannel(f)))
    /\ total = DurationOf(Summed(SentOnes \ InChannel(f)))
ResultsInv ==
    /\ ProgressInv
    /\ hpc = "done" => channel = <<>>
    /\ \E f : Tagged(f)

\* A chunk is part of the events; two goroutines have no event in common.
LEMMA ChunksApart ==
    ASSUME ProgressInv
    PROVE  /\ \A s : Chunk(s) \in SUBSET Places
           /\ \A X : Summed(X) \in SUBSET Places
           /\ \A s, t \in DOMAIN gpc : s # t => Chunk(s) \cap Chunk(t) = {}
  <1>1. Len(events) \in Nat /\ Size \in Nat BY EventsTyped, SizeTyped DEF ProgressInv
  <1>2. \A s : Chunk(s) = {j \in Places : s <= j /\ j < s + Size} BY DEF Chunk, Size, Places
  <1>3. \A s, t \in DOMAIN gpc : s \in Int /\ t \in Int /\ (s < t => s + Size <= t)
    BY DEF ProgressInv, Places
  <1>4. \A s : Chunk(s) \in SUBSET Places BY <1>2
  <1>5. ASSUME NEW s \in DOMAIN gpc, NEW t \in DOMAIN gpc, s < t PROVE Chunk(s) \cap Chunk(t) = {}
    <2> SUFFICES ASSUME NEW j \in Chunk(s) \cap Chunk(t) PROVE FALSE OBVIOUS
    <2>1. j \in Int /\ j < s + Size /\ t <= j BY <1>2 DEF Places
    <2> QED BY <1>1, <1>3, <1>5, <2>1
  <1>6. \A s, t \in DOMAIN gpc : s # t => s < t \/ t < s BY <1>3
  <1>7. \A s, t \in DOMAIN gpc : s # t => Chunk(s) \cap Chunk(t) = {}
    <2> SUFFICES ASSUME NEW s \in DOMAIN gpc, NEW t \in DOMAIN gpc, s # t
                 PROVE  Chunk(s) \cap Chunk(t) = {}
      OBVIOUS
    <2>1. CASE s < t BY <1>5, <2>1
    <2>2. CASE t < s
      <3>1. Chunk(t) \cap Chunk(s) = {} BY <1>5, <2>2
      <3> QED BY <3>1
    <2> QED BY <1>6, <2>1, <2>2
  <1>8. \A X : Summed(X) \in SUBSET Places BY <1>4 DEF Summed
  <1> QED BY <1>4, <1>7, <1>8

\* Reading one more result adds its chunk to what is summed up.
LEMMA ResultAdds ==
    ASSUME ProgressInv, NEW X \in SUBSET DOMAIN gpc, NEW s \in DOMAIN gpc, s \notin X
    PROVE  /\ CountsOf(Summed(X \cup {s}))
                 = [a \in Actions |-> CountsOf(Summed(X))[a] + CountsOf(Chunk(s))[a]]
           /\ DurationOf(Summed(X \cup {s})) = DurationOf(Summed(X)) + DurationOf(Chunk(s))
  <1>1. Summed(X \cup {s}) = Summed(X) \cup Chunk(s) BY DEF Summed
  <1>2. Summed(X) \cap Chunk(s) = {}
    <2>1. \A t \in X : Chunk(t) \cap Chunk(s) = {} BY ChunksApart
    <2> QED BY <2>1 DEF Summed
  <1>3. Summed(X) \in SUBSET Places /\ Chunk(s) \in SUBSET Places BY ChunksApart
  <1>4. events \in Inputs BY DEF ProgressInv
  <1> DEFINE S == Summed(X)
             T == Chunk(s)
  <1>5. S \in SUBSET Places /\ T \in SUBSET Places /\ S \cap T = {} /\ Summed(X \cup {s}) = S \cup T
    BY <1>1, <1>2, <1>3
  <1> HIDE DEF S, T
  <1>6. CountsOf(S \cup T) = [a \in Actions |-> CountsOf(S)[a] + CountsOf(T)[a]] BY <1>4, <1>5, CountsAdd
  <1>7. DurationOf(S \cup T) = DurationOf(S) + DurationOf(T) BY <1>4, <1>5, DurationsAdd
  <1> QED BY <1>5, <1>6, <1>7 DEF S, T

LEMMA ProgressInit == Init => ProgressInv
  <1> SUFFICES ASSUME Init PROVE ProgressInv OBVIOUS
  <1>1. events \in Inputs /\ Len(events) \in Nat /\ DOMAIN gpc = {} /\ i = 1 BY EventsTyped DEF Init
  <1>2. hpc = "spawn" <=> Len(events) > 0
    <2>1. PICK n : n \in 0 .. MaxEvents /\ events \in [1 .. n -> Event] BY <1>1 DEF Inputs
    <2>2. n \in Nat /\ Len(events) = n BY <2>1, WorkersAssumption
    <2>3. CASE n = 0
      <3>1. events = <<>> BY <2>1, <2>3
      <3> QED BY <2>2, <2>3, <3>1 DEF Init
    <2>4. CASE n > 0
      <3>1. events # <<>> BY <2>2, <2>4
      <3> QED BY <2>2, <2>4, <3>1 DEF Init
    <2> QED BY <2>2, <2>3, <2>4
  <1>3. Summed(DOMAIN gpc) = {} BY <1>1 DEF Summed
  <1>4. {j \in Places : j < i} = {} BY <1>1 DEF Places
  <1>5. hpc \in {"spawn", "done"} BY DEF Init
  <1> QED BY <1>1, <1>2, <1>3, <1>4, <1>5 DEF ProgressInv

\* A goroutine of the chunk behind all others, or another step of one.
LEMMA ProgressStep == ProgressInv /\ [Next]_vars => ProgressInv'
  <1> SUFFICES ASSUME ProgressInv, [Next]_vars PROVE ProgressInv' OBVIOUS
  <1>1. Len(events) \in Nat /\ Size \in Nat /\ (Len(events) > 0 => Size > 0) /\ i \in Nat \ {0}
    BY EventsTyped, SizeTyped DEF ProgressInv
  <1>2. events' = events BY DEF Next, Spawn, Send, Done, Wait, Reduce, vars
  <1>3. Places' = Places /\ Size' = Size /\ \A s : Chunk(s)' = Chunk(s)
    BY <1>2 DEF Places, Size, ChunkSize, Chunk
  <1>4. \A X : Summed(X)' = Summed(X) BY <1>3 DEF Summed
  <1>5. CASE Spawn
    <2>1. /\ hpc = "spawn" /\ i <= Len(events) /\ i' = i + Size
          /\ hpc' = IF i' <= Len(events) THEN "spawn" ELSE "wait"
      BY <1>5 DEF Spawn, ProgressInv, Size
    <2>2. /\ DOMAIN gpc' = DOMAIN gpc \cup {i} /\ gpc'[i] = "working"
          /\ \A s \in DOMAIN gpc : s # i => gpc'[s] = gpc[s]
      BY <1>5 DEF Spawn, Goroutine
    <2>3. \A s \in DOMAIN gpc : s \in Places /\ s + Size <= i /\ gpc[s] \in {"working", "sent", "done"}
      BY DEF ProgressInv
    <2>4. i \in Places /\ Size > 0 /\ i' \in Nat \ {0} BY <1>1, <2>1 DEF Places
    <2>5. \A s \in DOMAIN gpc : s \in Int /\ s < i
      <3>1. \A s \in DOMAIN gpc : s \in Int BY <2>3 DEF Places
      <3> QED BY <1>1, <2>3, <2>4, <3>1
    <2>6. \A s \in DOMAIN gpc' : s \in Places /\ s + Size <= i' /\ gpc'[s] \in {"working", "sent", "done"}
      <3> TAKE s \in DOMAIN gpc'
      <3>1. CASE s = i BY <1>1, <2>1, <2>2, <2>4, <3>1
      <3>2. CASE s \in DOMAIN gpc /\ s # i
        <4>1. s + Size <= i' BY <1>1, <2>1, <2>3, <2>5, <3>2
        <4> QED BY <2>2, <2>3, <3>2, <4>1
      <3> QED BY <2>2, <3>1, <3>2
    <2>7. \A s, t \in DOMAIN gpc' : s < t => s + Size <= t
      <3> SUFFICES ASSUME NEW s \in DOMAIN gpc', NEW t \in DOMAIN gpc', s < t PROVE s + Size <= t
        OBVIOUS
      <3>1. CASE s \in DOMAIN gpc /\ t \in DOMAIN gpc BY <3>1 DEF ProgressInv
      <3>2. CASE s \in DOMAIN gpc /\ t = i BY <2>3, <3>2
      <3>3. CASE s = i /\ t \in DOMAIN gpc BY <1>1, <2>5, <3>3
      <3>4. CASE s = i /\ t = i BY <1>1, <3>4
      <3> QED BY <2>2, <3>1, <3>2, <3>3, <3>4
    <2>8. Summed(DOMAIN gpc \cup {i}) = {j \in Places : j < i + Size}
      <3>1. Summed(DOMAIN gpc \cup {i}) = Summed(DOMAIN gpc) \cup Chunk(i) BY DEF Summed
      <3>2. Chunk(i) = {j \in Places : i <= j /\ j < i + Size} BY DEF Chunk, Size, Places
      <3>3. Summed(DOMAIN gpc) = {j \in Places : j < i} BY DEF ProgressInv
      <3>4. \A j \in Places : j \in Int BY DEF Places
      <3>5. \A j \in Places : j < i + Size <=> (j < i \/ (i <= j /\ j < i + Size)) BY <1>1, <3>4
      <3> QED BY <3>1, <3>2, <3>3, <3>5
    <2>9. Summed(DOMAIN gpc)' = {j \in Places : j < i'}
      <3> DEFINE D == DOMAIN gpc \cup {i}
      <3>1. Summed(DOMAIN gpc)' = UNION {Chunk(s) : s \in DOMAIN gpc'} BY <1>3 DEF Summed
      <3> QED BY <2>1, <2>2, <2>8, <3>1 DEF Summed
    <2>10. IF hpc' = "spawn" THEN i' <= Len(events) ELSE i' > Len(events) BY <1>1, <2>1, <2>4
    <2>11. hpc' \in {"spawn", "wait"} BY <2>1
    <2>12. events' \in Inputs BY <1>2 DEF ProgressInv
    <2> QED BY <1>2, <1>3, <2>4, <2>6, <2>7, <2>9, <2>10, <2>11, <2>12 DEF ProgressInv
  <1>6. CASE \E s \in DOMAIN gpc : Send(s) \/ Done(s)
    <2>1. PICK s \in DOMAIN gpc : Send(s) \/ Done(s) BY <1>6
    <2>2. UNCHANGED <<hpc, i>> /\ gpc[s] # "done" BY <2>1 DEF Send, Done
    <2>3. /\ DOMAIN gpc' = DOMAIN gpc /\ gpc'[s] \in {"sent", "done"}
          /\ \A t \in DOMAIN gpc : t # s => gpc'[t] = gpc[t]
      BY <2>1 DEF Send, Done, Goroutine
    <2>4. \A t \in DOMAIN gpc : gpc'[t] \in {"working", "sent", "done"} BY <2>3 DEF ProgressInv
    <2>5. ~(hpc \in {"reduce", "done"}) BY <2>2 DEF ProgressInv
    <2>6. Summed(DOMAIN gpc)' = Summed(DOMAIN gpc) BY <1>3, <2>3 DEF Summed
    <2> QED BY <1>2, <1>3, <2>2, <2>3, <2>4, <2>5, <2>6 DEF ProgressInv
  <1>7. CASE Wait \/ Reduce \/ UNCHANGED vars
    <2>1. UNCHANGED <<i, gpc>> BY <1>7 DEF Wait, Reduce, vars
    <2>2. /\ hpc' \in {"spawn", "wait", "reduce", "done"} /\ (hpc' = "spawn" <=> hpc = "spawn")
          /\ hpc' \in {"reduce", "done"} => \A s \in DOMAIN gpc : gpc[s] = "done"
      BY <1>7 DEF Wait, Reduce, vars, ProgressInv
    <2>3. Summed(DOMAIN gpc)' = Summed(DOMAIN gpc) BY <1>3, <2>1 DEF Summed
    <2> QED BY <1>2, <1>3, <2>1, <2>2, <2>3 DEF ProgressInv
  <1> QED BY <1>5, <1>6, <1>7 DEF Next

LEMMA ResultsInit == Init => ResultsInv
  <1> SUFFICES ASSUME Init PROVE ResultsInv OBVIOUS
  <1>1. ProgressInv /\ events \in Inputs BY ProgressInit DEF Init
  <1>2. DOMAIN gpc = {} /\ channel = <<>> /\ counts = [a \in Actions |-> 0] /\ total = 0 BY DEF Init
  <1> DEFINE none == <<>>
  <1>3. InChannel(none) = {} /\ none \in Seq(SentOnes) /\ Len(none) = 0 BY DEF InChannel
  <1>4. SentOnes = {} BY <1>2 DEF SentOnes
  <1>5. Summed(SentOnes \ InChannel(none)) = {} BY <1>3, <1>4 DEF Summed
  <1>6. CountsOf({}) = [a \in Actions |-> 0] /\ DurationOf({}) = 0
    <2>1. {} \in SUBSET Places /\ {} \cap {} = {} OBVIOUS
    <2> QED BY <1>1, <2>1, CountsAdd, DurationsAdd
  <1>7. channel = [k \in 1 .. Len(none) |-> Result(none[k])] BY <1>2, <1>3
  <1>8. Tagged(none)
    <2>1. counts = CountsOf(Summed(SentOnes \ InChannel(none))) BY <1>2, <1>5, <1>6
    <2>2. total = DurationOf(Summed(SentOnes \ InChannel(none))) BY <1>2, <1>5, <1>6
    <2>3. \A k, l \in 1 .. Len(none) : none[k] = none[l] => k = l BY <1>3
    <2> HIDE DEF none
    <2> QED BY <1>3, <1>7, <2>1, <2>2, <2>3 DEF Tagged
  <1> QED BY <1>1, <1>2, <1>8 DEF ResultsInv

\* What a channel holds after a send, and after its first result was read.
LEMMA InChannelSteps ==
    ASSUME NEW S, NEW f \in Seq(S), \A k, l \in 1 .. Len(f) : f[k] = f[l] => k = l
    PROVE  /\ \A s : InChannel(Append(f, s)) = InChannel(f) \cup {s}
           /\ f # <<>> => f[1] \in InChannel(f) /\ InChannel(Tail(f)) = InChannel(f) \ {f[1]}
           /\ InChannel(f) \subseteq S
  <1>1. Len(f) \in Nat /\ \A k \in 1 .. Len(f) : f[k] \in S OBVIOUS
  <1>2. ASSUME NEW s PROVE InChannel(Append(f, s)) = InChannel(f) \cup {s}
    <2> DEFINE g == Append(f, s)
    <2>0. f \in Seq(S \cup {s}) BY <1>1
    <2>1. Len(g) = Len(f) + 1 /\ g[Len(f) + 1] = s /\ \A k \in 1 .. Len(f) : g[k] = f[k] BY <2>0, <1>1
    <2> HIDE DEF g
    <2>2. 1 .. Len(g) = (1 .. Len(f)) \cup {Len(f) + 1} BY <1>1, <2>1
    <2> QED BY <2>1, <2>2 DEF InChannel, g
  <1>3. ASSUME f # <<>> PROVE f[1] \in InChannel(f) /\ InChannel(Tail(f)) = InChannel(f) \ {f[1]}
    <2> DEFINE g == Tail(f)
    <2>1. Len(f) >= 1 BY <1>1, <1>3
    <2>2. Len(g) = Len(f) - 1 /\ \A k \in 1 .. Len(g) : g[k] = f[k + 1] BY <1>3, <2>1
    <2> HIDE DEF g
    <2>3. f[1] \in InChannel(f) BY <1>1, <2>1 DEF InChannel
    <2>4. ASSUME NEW x \in InChannel(g) PROVE x \in InChannel(f) \ {f[1]}
      <3>1. PICK k \in 1 .. Len(g) : x = g[k] BY DEF InChannel
      <3>2. k + 1 \in 1 .. Len(f) /\ k + 1 # 1 /\ 1 \in 1 .. Len(f) BY <1>1, <2>1, <2>2, <3>1
      <3>3. x = f[k + 1] BY <2>2, <3>1
      <3> QED BY <3>2, <3>3 DEF InChannel
    <2>5. ASSUME NEW x \in InChannel(f) \ {f[1]} PROVE x \in InChannel(g)
      <3>1. PICK k \in 1 .. Len(f) : x = f[k] BY DEF InChannel
      <3>2. k # 1 BY <3>1
      <3>3. k - 1 \in 1 .. Len(g) /\ (k - 1) + 1 = k BY <1>1, <2>2, <3>1, <3>2
      <3>4. x = g[k - 1] BY <2>2, <3>1, <3>3
      <3> QED BY <3>3, <3>4 DEF InChannel
    <2> QED BY <2>3, <2>4, <2>5 DEF g
  <1> QED BY <1>1, <1>2, <1>3 DEF InChannel

LEMMA ResultsStep == ResultsInv /\ [Next]_vars => ResultsInv'
  <1> SUFFICES ASSUME ResultsInv, [Next]_vars PROVE ResultsInv' OBVIOUS
  <1>1. ProgressInv /\ ProgressInv' BY ProgressStep DEF ResultsInv
  <1>2. PICK f : Tagged(f) BY DEF ResultsInv
  <1>3. /\ f \in Seq(SentOnes) /\ Len(f) \in Nat /\ \A k \in 1 .. Len(f) : f[k] \in SentOnes
        /\ \A k, l \in 1 .. Len(f) : f[k] = f[l] => k = l
    BY <1>2 DEF Tagged
  <1>4. channel = [k \in 1 .. Len(f) |-> Result(f[k])] BY <1>2 DEF Tagged
  <1>5. events' = events BY DEF Next, Spawn, Send, Done, Wait, Reduce, vars
  <1>6. \A s : Chunk(s)' = Chunk(s) BY <1>5 DEF ChunkSize, Chunk
  <1>7. \A D : CountsOf(D)' = CountsOf(D) /\ DurationOf(D)' = DurationOf(D)
    BY <1>5 DEF CountsOf, DurationOf, SetsExt!MapThenSumSet, SetsExt!MapThenFoldSet
  <1>8. (\A s : Result(s)' = Result(s)) /\ \A X : Summed(X)' = Summed(X)
    BY <1>6, <1>7 DEF Result, Summed
  <1> DEFINE Left(g) == Summed(SentOnes' \ InChannel(g))
  <1>9. ASSUME NEW g, g \in Seq(SentOnes'), channel' = [k \in 1 .. Len(g) |-> Result(g[k])],
                \A k, l \in 1 .. Len(g) : g[k] = g[l] => k = l,
                counts' = CountsOf(Left(g)), total' = DurationOf(Left(g))
         PROVE  Tagged(g)'
    <2>1. CountsOf(Summed(SentOnes \ InChannel(g)))' = CountsOf(Left(g))
      BY <1>5 DEF CountsOf, Summed, Chunk, ChunkSize, InChannel
    <2>2. DurationOf(Summed(SentOnes \ InChannel(g)))' = DurationOf(Left(g))
      BY <1>5 DEF DurationOf, SetsExt!MapThenSumSet, SetsExt!MapThenFoldSet, Summed, Chunk, ChunkSize, InChannel
    <2>3. channel' = [k \in 1 .. Len(g) |-> Result(g[k])'] BY <1>8, <1>9
    <2> QED BY <1>9, <2>1, <2>2, <2>3 DEF Tagged
  <1>10. ASSUME UNCHANGED <<channel, counts, total>>, SentOnes' = SentOnes PROVE Tagged(f)'
    <2>1. counts' = CountsOf(Left(f)) /\ total' = DurationOf(Left(f)) BY <1>2, <1>10 DEF Tagged
    <2>2. channel' = [k \in 1 .. Len(f) |-> Result(f[k])] BY <1>4, <1>10
    <2> QED BY <1>3, <1>10, <1>9, <2>1, <2>2
  <1>11. CASE Spawn
    <2>1. UNCHANGED <<channel, counts, total>> /\ hpc' # "done" /\ hpc = "spawn" BY <1>11 DEF Spawn
    <2>2. /\ DOMAIN gpc' = DOMAIN gpc \cup {i} /\ gpc'[i] = "working"
          /\ \A s \in DOMAIN gpc : s # i => gpc'[s] = gpc[s]
      BY <1>11 DEF Spawn, Goroutine
    <2>3. i \notin DOMAIN gpc
      <3>1. Len(events) \in Nat /\ Size \in Nat /\ (Len(events) > 0 => Size > 0)
        BY <1>1, EventsTyped, SizeTyped DEF ProgressInv
      <3>2. i \in Nat \ {0} /\ i <= Len(events) BY <1>1, <2>1 DEF ProgressInv
      <3>3. ~(i + Size <= i) BY <3>1, <3>2
      <3> QED BY <1>1, <3>3 DEF ProgressInv
    <2>4. SentOnes' = SentOnes BY <2>2, <2>3 DEF SentOnes
    <2> QED BY <1>1, <1>10, <2>1, <2>4 DEF ResultsInv
  <1>12. CASE \E s \in DOMAIN gpc : Send(s)
    <2>1. PICK s \in DOMAIN gpc : Send(s) BY <1>12
    <2>2. UNCHANGED <<hpc, counts, total>> /\ channel' = Append(channel, Result(s))
      BY <2>1 DEF Send, Result
    <2>3. gpc[s] = "working" BY <2>1 DEF Send
    <2>4. DOMAIN gpc' = DOMAIN gpc /\ gpc'[s] = "sent" /\ \A t \in DOMAIN gpc : t # s => gpc'[t] = gpc[t]
      BY <2>1 DEF Send, Goroutine
    <2>5. SentOnes' = SentOnes \cup {s} /\ s \notin SentOnes BY <2>3, <2>4 DEF SentOnes
    <2> DEFINE g == Append(f, s)
    <2>6. g \in Seq(SentOnes \cup {s})
      <3>1. f \in Seq(SentOnes \cup {s}) BY <1>3
      <3> QED BY <3>1
    <2>7. Len(g) = Len(f) + 1 /\ g[Len(f) + 1] = s /\ \A k \in 1 .. Len(f) : g[k] = f[k]
      <3>1. f \in Seq(SentOnes \cup {s}) BY <1>3
      <3> QED BY <3>1
    <2>8. InChannel(g) = InChannel(f) \cup {s} /\ InChannel(f) \subseteq SentOnes BY <1>3, InChannelSteps
    <2> HIDE DEF g
    <2>9. 1 .. Len(g) = (1 .. Len(f)) \cup {Len(f) + 1} BY <1>3, <2>7
    <2>10. channel' = [k \in 1 .. Len(g) |-> Result(g[k])]
      <3> DEFINE R == {Result(t) : t \in SentOnes \cup {s}}
                 c == [k \in 1 .. Len(f) |-> Result(f[k])]
      <3>1. c \in Seq(R) /\ Len(c) = Len(f) BY <1>3
      <3>2. Result(s) \in R OBVIOUS
      <3> DEFINE r == Result(s)
                 d == [k \in 1 .. Len(g) |-> Result(g[k])]
      <3>3. d \in Seq(R) /\ Len(d) = Len(g)
        <4>1. \A k \in 1 .. Len(g) : g[k] \in SentOnes \cup {s} BY <2>6
        <4>2. Len(g) \in Nat BY <2>6
        <4> QED BY <4>1, <4>2
      <3>4. \A k \in 1 .. Len(f) : d[k] = c[k] BY <2>7, <2>9
      <3>5. d[Len(f) + 1] = r BY <2>7, <2>9
      <3> HIDE DEF c, d, R, r
      <3>6. d = Append(c, r)
        <4>1. r \in R BY <3>2 DEF r
        <4>2. Append(c, r) \in Seq(R) /\ Len(Append(c, r)) = Len(f) + 1 BY <3>1, <4>1
        <4>3. \A k \in 1 .. Len(f) + 1 : Append(c, r)[k] = d[k] BY <1>3, <3>1, <3>4, <3>5, <4>1
        <4> QED BY <3>3, <2>7, <4>2, <4>3, SeqEqual
      <3> QED BY <1>4, <2>2, <3>6 DEF c, d, r
    <2>11. \A k, l \in 1 .. Len(g) : g[k] = g[l] => k = l
      <3>1. \A k \in 1 .. Len(f) : g[k] = f[k] /\ g[k] # s BY <1>3, <2>5, <2>7
      <3> SUFFICES ASSUME NEW k \in 1 .. Len(g), NEW l \in 1 .. Len(g), g[k] = g[l] PROVE k = l OBVIOUS
      <3>2. CASE k \in 1 .. Len(f) /\ l \in 1 .. Len(f) BY <1>3, <3>1, <3>2
      <3>3. CASE k \in 1 .. Len(f) /\ l = Len(f) + 1 BY <2>7, <3>1, <3>3
      <3>4. CASE k = Len(f) + 1 /\ l \in 1 .. Len(f) BY <2>7, <3>1, <3>4
      <3>5. CASE k = Len(f) + 1 /\ l = Len(f) + 1 BY <3>5
      <3> QED BY <2>9, <3>2, <3>3, <3>4, <3>5
    <2>12. SentOnes' \ InChannel(g) = SentOnes \ InChannel(f) BY <2>5, <2>8
    <2>13. /\ counts = CountsOf(Summed(SentOnes \ InChannel(f)))
           /\ total = DurationOf(Summed(SentOnes \ InChannel(f)))
      BY <1>2 DEF Tagged
    <2>14. Tagged(g)'
      <3>1. g \in Seq(SentOnes') BY <2>5, <2>6
      <3>2. counts' = CountsOf(Left(g)) /\ total' = DurationOf(Left(g)) BY <2>2, <2>12, <2>13
      <3> QED BY <1>9, <2>10, <2>11, <3>1, <3>2
    <2>15. hpc' # "done" BY <1>1, <2>2, <2>3 DEF ProgressInv
    <2> QED BY <1>1, <2>14, <2>15 DEF ResultsInv
  <1>13. CASE \E s \in DOMAIN gpc : Done(s)
    <2>1. PICK s \in DOMAIN gpc : Done(s) BY <1>13
    <2>2. UNCHANGED <<hpc, channel, counts, total>> /\ gpc[s] = "sent" BY <2>1 DEF Done
    <2>3. DOMAIN gpc' = DOMAIN gpc /\ gpc'[s] = "done" /\ \A t \in DOMAIN gpc : t # s => gpc'[t] = gpc[t]
      BY <2>1 DEF Done, Goroutine
    <2>4. SentOnes' = SentOnes BY <2>2, <2>3 DEF SentOnes
    <2> QED BY <1>1, <1>10, <2>2, <2>4 DEF ResultsInv
  <1>14. CASE Wait \/ UNCHANGED vars
    <2>1. UNCHANGED <<gpc, channel, counts, total>> /\ (hpc' = "done" => hpc = "done")
      BY <1>14 DEF Wait, vars
    <2>2. SentOnes' = SentOnes BY <2>1 DEF SentOnes
    <2> QED BY <1>1, <1>10, <2>1, <2>2 DEF ResultsInv
  <1>15. CASE Reduce
    <2>1. UNCHANGED <<events, i, gpc>> /\ hpc = "reduce" BY <1>15 DEF Reduce
    <2>2. SentOnes' = SentOnes /\ SentOnes \subseteq DOMAIN gpc BY <2>1 DEF SentOnes
    <2>3. CASE channel = <<>> /\ hpc' = "done" /\ UNCHANGED <<channel, counts, total>>
      BY <1>1, <1>10, <2>2, <2>3 DEF ResultsInv
    <2>4. CASE /\ channel # <<>>
               /\ counts' = [a \in Actions |-> counts[a] + Head(channel).counts[a]]
               /\ total' = total + Head(channel).duration
               /\ channel' = Tail(channel)
               /\ UNCHANGED hpc
      <3> DEFINE g == Tail(f)
                 s == f[1]
                 X == SentOnes \ InChannel(f)
      <3>1. f # <<>> /\ Len(f) >= 1
        <4>1. Len(f) # 0 BY <1>4, <2>4
        <4> QED BY <1>3, <4>1
      <3>2. g \in Seq(SentOnes) /\ Len(g) = Len(f) - 1 /\ \A k \in 1 .. Len(g) : g[k] = f[k + 1] BY <1>3, <3>1
      <3>3. s \in InChannel(f) /\ InChannel(g) = InChannel(f) \ {s} /\ InChannel(f) \subseteq SentOnes
        BY <1>3, <3>1, InChannelSteps
      <3>4. s \in DOMAIN gpc /\ X \in SUBSET DOMAIN gpc /\ s \notin X BY <2>2, <3>3
      <3>5. SentOnes \ InChannel(g) = X \cup {s} BY <3>3
      <3>6. counts = CountsOf(Summed(X)) /\ total = DurationOf(Summed(X)) BY <1>2 DEF Tagged
      <3>7. Head(channel) = Result(s) BY <1>3, <1>4, <3>1
      <3> HIDE DEF X, s, g
      <3>8. /\ counts' = [a \in Actions |-> CountsOf(Summed(X))[a] + CountsOf(Chunk(s))[a]]
            /\ total' = DurationOf(Summed(X)) + DurationOf(Chunk(s))
        BY <2>4, <3>6, <3>7 DEF Result
      <3>9. counts' = CountsOf(Summed(X \cup {s})) /\ total' = DurationOf(Summed(X \cup {s}))
        BY <1>1, <3>4, <3>8, ResultAdds
      <3>10. channel' = [k \in 1 .. Len(g) |-> Result(g[k])]
        <4> DEFINE R == {Result(t) : t \in SentOnes}
                   c == [k \in 1 .. Len(f) |-> Result(f[k])]
                   d == [k \in 1 .. Len(g) |-> Result(g[k])]
        <4>1. c \in Seq(R) /\ Len(c) = Len(f) /\ c # <<>> BY <1>3, <3>1
        <4>2. d \in Seq(R) /\ Len(d) = Len(g) BY <3>2
        <4>3. \A k \in 1 .. Len(g) : d[k] = c[k + 1] BY <1>3, <3>2
        <4> HIDE DEF c, d, R
        <4>4. d = Tail(c)
          <5>1. Tail(c) \in Seq(R) /\ Len(Tail(c)) = Len(f) - 1 BY <4>1
          <5>2. \A k \in 1 .. Len(f) - 1 : Tail(c)[k] = d[k] BY <1>3, <3>2, <4>1, <4>3
          <5> QED BY <3>2, <4>2, <5>1, <5>2, SeqEqual
        <4> QED BY <1>4, <2>4, <4>4 DEF c, d
      <3>11. \A k, l \in 1 .. Len(g) : g[k] = g[l] => k = l
        <4> SUFFICES ASSUME NEW k \in 1 .. Len(g), NEW l \in 1 .. Len(g), g[k] = g[l] PROVE k = l OBVIOUS
        <4>1. k + 1 \in 1 .. Len(f) /\ l + 1 \in 1 .. Len(f) BY <1>3, <3>2
        <4>2. f[k + 1] = f[l + 1] BY <3>2
        <4>3. k + 1 = l + 1 BY <1>3, <4>1, <4>2
        <4> QED BY <1>3, <3>2, <4>3
      <3>12. Tagged(g)'
        <4>1. g \in Seq(SentOnes') BY <2>2, <3>2
        <4>2. counts' = CountsOf(Left(g)) /\ total' = DurationOf(Left(g)) BY <2>2, <3>5, <3>9
        <4> QED BY <1>9, <3>10, <3>11, <4>1, <4>2
      <3> QED BY <1>1, <2>1, <2>4, <3>12 DEF ResultsInv
    <2> QED BY <1>15, <2>3, <2>4 DEF Reduce
  <1> QED BY <1>11, <1>12, <1>13, <1>14, <1>15 DEF Next

\* The parallel answer is the sequential one, for any events, number of workers and
\* order of the goroutines; and the variables keep their types.
THEOREM MapReduceInvariance == Spec => []MapReduceInv
  <1>1. ResultsInv => MapReduceInv
    <2> SUFFICES ASSUME ResultsInv PROVE MapReduceInv OBVIOUS
    <2>1. ProgressInv /\ events \in Inputs BY DEF ResultsInv, ProgressInv
    <2>2. PICK f : Tagged(f) BY DEF ResultsInv
    <2> DEFINE S == Summed(SentOnes \ InChannel(f))
    <2>3. S \in SUBSET Places /\ {} \in SUBSET Places /\ S \cap {} = {} BY <2>1, ChunksApart
    <2>4. counts = CountsOf(S) /\ total = DurationOf(S) BY <2>2 DEF Tagged
    <2> HIDE DEF S
    <2>5. (\A a \in Actions : CountsOf(S)[a] \in Nat) /\ DurationOf(S) \in Int
      BY <2>1, <2>3, CountsAdd, DurationsAdd
    <2>6. counts \in [Actions -> Nat] /\ total \in Int
      <3>1. CountsOf(S) = [a \in Actions |-> CountsOf(S)[a]] BY DEF CountsOf
      <3> QED BY <2>4, <2>5, <3>1
    <2>7. TypeOK
      <3>1. i \in Nat \ {0} /\ hpc \in {"spawn", "wait", "reduce", "done"} BY <2>1 DEF ProgressInv
      <3>2. \A s \in DOMAIN gpc : s \in 1 .. Len(events) /\ gpc[s] \in {"working", "sent", "done"}
        BY <2>1 DEF ProgressInv, Places
      <3> QED BY <2>1, <2>6, <3>1, <3>2 DEF TypeOK
    <2>8. ASSUME hpc = "done" PROVE S = 1 .. Len(events)
      <3>1. Len(f) = 0
        <4>1. channel = <<>> /\ channel = [k \in 1 .. Len(f) |-> Result(f[k])] /\ Len(f) \in Nat
          BY <2>2, <2>8 DEF ResultsInv, Tagged
        <4> QED BY <4>1
      <3>2. InChannel(f) = {} BY <3>1 DEF InChannel
      <3>3. SentOnes = DOMAIN gpc BY <2>1, <2>8 DEF ProgressInv, SentOnes
      <3>4. S = {j \in Places : j < i} BY <2>1, <3>2, <3>3 DEF ProgressInv, S
      <3>5. i \in Nat /\ i > Len(events) /\ Len(events) \in Nat BY <2>1, <2>8, EventsTyped DEF ProgressInv
      <3> QED BY <3>4, <3>5 DEF Places
    <2>9. MatchesSequential BY <2>4, <2>8 DEF MatchesSequential, SequentialCounts, SequentialTotal
    <2> QED BY <2>7, <2>9 DEF MapReduceInv
  <1> QED BY <1>1, ResultsInit, ResultsStep, PTL DEF Spec
=============================================================================
