--------------------------- MODULE DashboardProofs ---------------------------
(***************************************************************************)
(* Proofs about the dashboard page, for any events, ids, filters, queries, *)
(* pages, bounds and failures.  The default view shows every event in one  *)
(* row, in the order in which it was told of them, and forgets none before *)
(* Cap others came; the search view shows what belongs to the filters it   *)
(* shows; the search dialog lists the answer to the query it shows.  The   *)
(* steps of the three share no variable.                                   *)
(***************************************************************************)
EXTENDS LiveDashboard, EventSearch, SearchDialog, FiniteSetTheorems, SequenceTheorems, TLAPS

-----------------------------------------------------------------------------
(* The lists of the default view.                                          *)

\* A list of the page: members of S, each once, at most Cap of them.
Good(list, S) ==
    /\ list \in Seq(Event) /\ Len(list) <= Cap
    /\ \A i \in 1 .. Len(list) : list[i] \in S
    /\ \A i, j \in 1 .. Len(list) : list[i] = list[j] => i = j

LEMMA LiveConstants ==
    /\ MaxEvents \in Nat /\ InitialEvents \in 0 .. MaxEvents /\ Cap \in Nat /\ Cap > 0
    /\ CardLength \in Nat
  BY LiveAssumption

\* The stages follow each other.
LEMMA StagesNest ==
    ASSUME stage \in [Event -> Stages]
    PROVE  Sent \subseteq Fed /\ Fed \subseteq Counted /\ Counted \subseteq Stored /\ Stored \subseteq Event
  BY DEF Sent, Fed, Counted, Stored, Stages, After

LEMMA EventsFinite ==
    ASSUME NEW S \in SUBSET Event
    PROVE  IsFiniteSet(S) /\ Cardinality(S) \in Nat
  <1>1. MaxEvents \in Int /\ 1 \in Int BY LiveConstants
  <1>2. IsFiniteSet(Event) BY <1>1, FS_Interval DEF Event
  <1> QED BY <1>2, FS_Subset, FS_CardinalityType

\* As many places as members, no member at two of them: every member has one.
LEMMA AllAreListed ==
    ASSUME NEW S \in SUBSET Event, NEW rows \in [1 .. Cardinality(S) -> S],
           \A i, j \in 1 .. Cardinality(S) : rows[i] = rows[j] => i = j
    PROVE  \A e \in S : \E i \in 1 .. Cardinality(S) : rows[i] = e
  <1> DEFINE n == Cardinality(S)
  <1>1. IsFiniteSet(S) /\ n \in Nat BY EventsFinite
  <1>2. Cardinality(1 .. n) = n
    <2> HIDE DEF n
    <2>1. 1 \in Int /\ n \in Int BY <1>1
    <2>2. Cardinality(1 .. n) = IF 1 > n THEN 0 ELSE n - 1 + 1 BY <2>1, FS_Interval
    <2> QED BY <1>1, <2>2
  <1>3. rows \in Injection(1 .. n, S) BY DEF Injection, IsInjective
  <1>4. rows \in Surjection(1 .. n, S) BY <1>1, <1>2, <1>3, FS_Injection
  <1> QED BY <1>4 DEF Surjection

\* At least as many members as there are places that differ.
LEMMA AtLeastCap ==
    ASSUME NEW T \in SUBSET Event, NEW rows \in [1 .. Cap -> T],
           \A i, j \in 1 .. Cap : rows[i] = rows[j] => i = j
    PROVE  Cardinality(T) >= Cap
  <1>1. IsFiniteSet(T) /\ Cardinality(T) \in Nat BY EventsFinite
  <1>2. IsFiniteSet(1 .. Cap) /\ Cardinality(1 .. Cap) = Cap
    <2>1. 1 \in Int /\ Cap \in Int /\ Cap \in Nat BY LiveConstants
    <2>2. IsFiniteSet(1 .. Cap) /\ Cardinality(1 .. Cap) = IF 1 > Cap THEN 0 ELSE Cap - 1 + 1
      BY <2>1, FS_Interval
    <2> QED BY <2>1, <2>2
  <1>3. rows \in Injection(1 .. Cap, T) BY DEF Injection, IsInjective
  <1>4. Cardinality(1 .. Cap) <= Cardinality(T) BY <1>1, <1>3, FS_Injection
  <1> QED BY <1>1, <1>2, <1>4, LiveConstants

LEMMA TruncateFacts ==
    ASSUME NEW S, NEW list \in Seq(S), NEW n \in Nat
    PROVE  /\ Truncate(list, n) \in Seq(S) /\ Len(Truncate(list, n)) = LowestOf(n, Len(list))
           /\ \A i \in 1 .. Len(Truncate(list, n)) : Truncate(list, n)[i] = list[i]
  <1> DEFINE m == LowestOf(n, Len(list))
  <1>1. Len(list) \in Nat /\ \A i \in 1 .. Len(list) : list[i] \in S BY LenProperties, ElementOfSeq
  <1>2. m \in Nat /\ m <= Len(list) BY <1>1 DEF LowestOf
  <1> HIDE DEF m
  <1>3. \A i \in 1 .. m : list[i] \in S BY <1>1, <1>2
  <1>4. /\ SubSeq(list, 1, m) \in Seq(S) /\ Len(SubSeq(list, 1, m)) = (IF 1 <= m THEN m - 1 + 1 ELSE 0)
        /\ \A i \in 1 .. m - 1 + 1 : SubSeq(list, 1, m)[i] = list[1 + i - 1]
    BY <1>2, <1>3, SubSeqProperties
  <1>5. Len(SubSeq(list, 1, m)) = m BY <1>2, <1>4
  <1>6. \A i \in 1 .. m : SubSeq(list, 1, m)[i] = list[i]
    <2> TAKE i \in 1 .. m
    <2>1. i \in 1 .. m - 1 + 1 /\ 1 + i - 1 = i BY <1>2
    <2> QED BY <1>4, <2>1
  <1> QED BY <1>4, <1>5, <1>6 DEF Truncate, m

\* What a message does to a list: nothing, or its event comes first and the
\* others move down by one.
LEMMA MergeNothing ==
    ASSUME NEW list, NEW e, \E i \in DOMAIN list : NumberOf[list[i]] = NumberOf[e]
    PROVE  Merge(list, e) = list
  BY DEF Merge

LEMMA MergeFirst ==
    ASSUME NEW list \in Seq(Event), NEW e \in Event,
           ~ \E i \in DOMAIN list : NumberOf[list[i]] = NumberOf[e]
    PROVE  LET merged == Merge(list, e) IN
           /\ merged \in Seq(Event) /\ Len(merged) = LowestOf(Cap, Len(list) + 1)
           /\ merged[1] = e /\ \A i \in 2 .. Len(merged) : merged[i] = list[i - 1]
           /\ \A i \in 1 .. Len(list) : list[i] # e
  <1>1. <<e>> \in Seq(Event) /\ Len(<<e>>) = 1 /\ <<e>>[1] = e OBVIOUS
  <1>2. Len(list) \in Nat /\ DOMAIN list = 1 .. Len(list) BY LenProperties
  <1> DEFINE long == <<e>> \o list
  <1>3. /\ long \in Seq(Event) /\ Len(long) = 1 + Len(list)
        /\ \A i \in 1 .. 1 + Len(list) : long[i] = IF i <= 1 THEN <<e>>[i] ELSE list[i - 1]
    <2> DEFINE s == <<e>>
    <2>1. s \in Seq(Event) /\ Len(s) = 1 BY <1>1
    <2> HIDE DEF s
    <2>2. /\ s \o list \in Seq(Event) /\ Len(s \o list) = Len(s) + Len(list)
          /\ \A i \in 1 .. Len(s) + Len(list) :
                (s \o list)[i] = IF i <= Len(s) THEN s[i] ELSE list[i - Len(s)]
      BY <2>1, ConcatProperties
    <2>3. /\ s \o list \in Seq(Event) /\ Len(s \o list) = 1 + Len(list)
          /\ \A i \in 1 .. 1 + Len(list) :
                (s \o list)[i] = IF i <= 1 THEN s[i] ELSE list[i - 1]
      BY <2>1, <2>2
    <2> QED BY <2>3 DEF s
  <1>4. Merge(list, e) = Truncate(long, Cap) BY DEF Merge
  <1> HIDE DEF long
  <1>5. /\ Truncate(long, Cap) \in Seq(Event) /\ Len(Truncate(long, Cap)) = LowestOf(Cap, Len(long))
        /\ \A i \in 1 .. Len(Truncate(long, Cap)) : Truncate(long, Cap)[i] = long[i]
    BY <1>3, LiveConstants, TruncateFacts
  <1> DEFINE n == LowestOf(Cap, Len(list) + 1)
  <1>6. Len(long) = Len(list) + 1 BY <1>2, <1>3
  <1>7. n \in Nat /\ 1 <= n /\ n <= Len(list) + 1 BY <1>2, LiveConstants DEF LowestOf
  <1>8. Len(Truncate(long, Cap)) = n BY <1>5, <1>6
  <1> HIDE DEF n
  <1>9. long[1] = e BY <1>1, <1>2, <1>3
  <1>10. Truncate(long, Cap)[1] = e BY <1>5, <1>7, <1>8, <1>9
  <1>11. \A i \in 2 .. n : Truncate(long, Cap)[i] = list[i - 1]
    <2> TAKE i \in 2 .. n
    <2>1. i \in 1 .. 1 + Len(list) /\ i \in 1 .. n /\ ~(i <= 1) BY <1>2, <1>7
    <2>2. long[i] = list[i - 1] BY <1>3, <2>1
    <2> QED BY <1>5, <1>8, <2>1, <2>2
  <1>12. \A i \in 1 .. Len(list) : list[i] # e BY <1>2
  <1> QED BY <1>4, <1>5, <1>8, <1>10, <1>11, <1>12 DEF n

LEMMA MergeGood ==
    ASSUME NEW S \in SUBSET Event, NEW list, Good(list, S), NEW e \in S,
           NEW together, NumbersDiffer(list, together)
    PROVE  Good(Merge(list, e), S) /\ NumbersDiffer(Merge(list, e), together)
  <1>1. CASE \E i \in DOMAIN list : NumberOf[list[i]] = NumberOf[e] BY <1>1, MergeNothing
  <1>2. CASE ~ \E i \in DOMAIN list : NumberOf[list[i]] = NumberOf[e]
    <2> DEFINE merged == Merge(list, e)
    <2>1. list \in Seq(Event) /\ Len(list) \in Nat /\ DOMAIN list = 1 .. Len(list)
      BY LenProperties DEF Good
    <2>2. /\ merged \in Seq(Event) /\ Len(merged) = LowestOf(Cap, Len(list) + 1)
          /\ merged[1] = e /\ \A i \in 2 .. Len(merged) : merged[i] = list[i - 1]
          /\ \A i \in 1 .. Len(list) : list[i] # e
      BY <1>2, <2>1, MergeFirst
    <2> HIDE DEF merged
    <2>3. /\ Len(merged) \in Nat /\ Len(merged) <= Cap /\ Len(merged) <= Len(list) + 1
          /\ DOMAIN merged = 1 .. Len(merged)
      BY <2>1, <2>2, LiveConstants, LenProperties DEF LowestOf
    <2>4. \A i \in 2 .. Len(merged) : i - 1 \in 1 .. Len(list) BY <2>1, <2>3
    <2>5. \A i \in 1 .. Len(merged) : i = 1 \/ i \in 2 .. Len(merged) BY <2>3
    <2>6. \A i \in 1 .. Len(merged) : merged[i] \in S BY <2>2, <2>4, <2>5 DEF Good
    <2>7. ASSUME NEW i \in 1 .. Len(merged), NEW j \in 1 .. Len(merged), i # j,
                 NumberOf[merged[i]] = NumberOf[merged[j]]
          PROVE  /\ i # 1 /\ j # 1 /\ i - 1 \in 1 .. Len(list) /\ j - 1 \in 1 .. Len(list)
                 /\ merged[i] = list[i - 1] /\ merged[j] = list[j - 1] /\ i - 1 # j - 1
      <3>1. CASE i = 1 BY <1>2, <2>1, <2>2, <2>4, <2>5, <2>7, <3>1
      <3>2. CASE j = 1 BY <1>2, <2>1, <2>2, <2>4, <2>5, <2>7, <3>2
      <3>3. CASE i # 1 /\ j # 1 BY <2>2, <2>4, <2>5, <2>7, <3>3
      <3> QED BY <3>1, <3>2, <3>3
    <2>8. \A i, j \in 1 .. Len(merged) : merged[i] = merged[j] => i = j
      <3> SUFFICES ASSUME NEW i \in 1 .. Len(merged), NEW j \in 1 .. Len(merged), merged[i] = merged[j],
                          i # j
                   PROVE  FALSE
        OBVIOUS
      <3>1. /\ i - 1 \in 1 .. Len(list) /\ j - 1 \in 1 .. Len(list) /\ i - 1 # j - 1
            /\ merged[i] = list[i - 1] /\ merged[j] = list[j - 1]
        BY <2>7
      <3>2. list[i - 1] = list[j - 1] BY <3>1
      <3> QED BY <3>1, <3>2 DEF Good
    <2>9. NumbersDiffer(merged, together)
      <3> SUFFICES ASSUME NEW i \in 1 .. Len(merged), NEW j \in 1 .. Len(merged), i # j,
                          NumberOf[merged[i]] = NumberOf[merged[j]]
                   PROVE  {merged[i], merged[j]} \subseteq together
        BY <2>3 DEF NumbersDiffer
      <3>1. /\ i - 1 \in DOMAIN list /\ j - 1 \in DOMAIN list /\ i - 1 # j - 1
            /\ merged[i] = list[i - 1] /\ merged[j] = list[j - 1]
        BY <2>1, <2>7
      <3> QED BY <3>1 DEF NumbersDiffer
    <2> QED BY <2>2, <2>3, <2>6, <2>8, <2>9 DEF Good, merged
  <1> QED BY <1>1, <1>2

-----------------------------------------------------------------------------
(* The invariant of the default view: the server's part, the feed, the     *)
(* table and the cards, none of which looks at the variables of another.   *)

ServerInv ==
    /\ stage \in [Event -> Stages]
    /\ source \in {"connecting", "open"} /\ page \in {"closed", "new", "up", "crashed"}
    /\ messages \in Seq(Event) /\ Listed(messages) \subseteq Sent

FeedShape ==
    /\ Good(recentFeed, Fed) /\ NumbersDiffer(recentFeed, feedBrought)
    /\ timeline \in Seq(Event) /\ Listed(timeline) \subseteq Fed
    /\ feedBrought \subseteq Fed /\ shown \subseteq Fed
    /\ feedCall.step = "answered" => Good(feedCall.value, Fed)

FeedInv == FeedShape /\ FeedIsInOrder /\ FeedKeepsEvents

EventsCallOK(c) ==
    \/ eventsCalls[c] \in {None, Asked, Failed}
    \/ eventsCalls[c].step = "answered" /\ Good(eventsCalls[c].value, Stored)

RowsInv ==
    /\ Good(events, Stored) /\ NumbersDiffer(events, tableBrought) /\ tableBrought \subseteq Stored
    /\ DOMAIN eventsCalls = Calls /\ \A c \in Calls : EventsCallOK(c)
    /\ eventsLoading \in BOOLEAN /\ (eventsLoading => \E c \in Calls : eventsCalls[c] # None)

CardsInv ==
    /\ analytics \in 0 .. Cardinality(Counted)
    /\ autoRefresh \in BOOLEAN /\ analyticsLoading \in BOOLEAN
    /\ DOMAIN analyticsCalls = Calls
    /\ \A c \in Calls : analyticsCalls[c].step = "answered" =>
                           analyticsCalls[c].value \in 0 .. Cardinality(Counted)

LiveIndInv == ServerInv /\ FeedInv /\ RowsInv /\ CardsInv

\* Events only go forward.
Grows ==
    /\ stage' \in [Event -> Stages]
    /\ Stored \subseteq Stored' /\ Counted \subseteq Counted' /\ Fed \subseteq Fed' /\ Sent \subseteq Sent'

LEMMA RequestsDiffer ==
    /\ None.step = "none" /\ Asked.step = "asked" /\ Failed.step = "failed" /\ NullBody.step = "null"
    /\ \A v : Answer(v).step = "answered" /\ Answer(v).value = v
    /\ \A next : AndThen(Asked, next).step = "asked" /\ AndThen(Failed, next).step = "failed"
    /\ \A v, next : AndThen(Answer(v), next).step = "answered" /\ AndThen(Answer(v), next).value = v
  BY DEF None, Asked, Failed, NullBody, Answer, AndThen

LEMMA EmptyList == ASSUME NEW S PROVE Good(<<>>, S) /\ Len(<<>>) = 0 /\ DOMAIN <<>> = {} /\ Listed(<<>>) = {}
  <1>1. <<>> \in Seq(Event) /\ Len(<<>>) = 0 BY EmptySeq, Zenon
  <1>2. DOMAIN <<>> = 1 .. Len(<<>>) BY <1>1, LenProperties, Zenon
  <1>3. 1 .. 0 = {} OBVIOUS
  <1> QED BY <1>1, <1>2, <1>3, LiveConstants DEF Good, Listed

LEMMA ServerGrows == LiveIndInv /\ [LiveNext]_liveVars => Grows
  <1> SUFFICES ASSUME LiveIndInv, [LiveNext]_liveVars PROVE Grows OBVIOUS
  <1>0. stage \in [Event -> Stages] BY DEF LiveIndInv, ServerInv
  <1>1. CASE \E e \in Event : FillStore(e)
    <2>1. PICK e \in Event : stage[e] \in DOMAIN After /\ stage' = [stage EXCEPT ![e] = After[stage[e]]]
      BY <1>1 DEF FillStore
    <2>2. /\ stage[e] = "none" => stage'[e] = "stored"
          /\ stage[e] = "stored" => stage'[e] = "counted"
          /\ stage[e] = "counted" => stage'[e] = "fed"
          /\ stage[e] \in {"none", "stored", "counted"}
          /\ \A d \in Event \ {e} : stage'[d] = stage[d]
      BY <1>0, <2>1 DEF After
    <2>3. stage' \in [Event -> Stages] BY <1>0, <2>1, <2>2 DEF Stages, After
    <2> QED BY <2>2, <2>3 DEF Grows, Stored, Counted, Fed, Sent, After
  <1>2. CASE \E e \in Event : Publish(e)
    <2>1. PICK e \in Event : /\ stage[e] \in {"fed", "again"}
                             /\ \E to \in {"published", "again"} : stage' = [stage EXCEPT ![e] = to]
      BY <1>2 DEF Publish
    <2>2. /\ stage'[e] \in {"published", "again"} /\ \A d \in Event \ {e} : stage'[d] = stage[d]
      BY <1>0, <2>1
    <2>3. stage' \in [Event -> Stages] BY <1>0, <2>1 DEF Stages
    <2> QED BY <2>1, <2>2, <2>3 DEF Grows, Stored, Counted, Fed, Sent, After
  <1>3. CASE UNCHANGED stage BY <1>0, <1>3 DEF Grows, Stored, Counted, Fed, Sent
  <1>4. UNCHANGED stage \/ (\E e \in Event : FillStore(e)) \/ (\E e \in Event : Publish(e))
    BY DEF LiveNext, liveVars, serverVars, Mount, OpenStream, BreakStream, OnMessage, AnswerFeed,
       ReceiveFeed, Poll, ManualRefresh, ToggleAutoRefresh, AnswerEvents, ReceiveEvents,
       AnswerAnalytics, FailAnalytics, ReceiveAnalytics
  <1> QED BY <1>1, <1>2, <1>3, <1>4

\* What rests while events go forward stays true.
LEMMA FeedRests == FeedInv /\ Grows /\ UNCHANGED feedVars => FeedInv'
  <1> SUFFICES ASSUME FeedInv, Grows, UNCHANGED feedVars PROVE FeedInv' OBVIOUS
  <1>1. Fed \subseteq Fed' /\ UNCHANGED <<recentFeed, feedCall, timeline, feedBrought, shown>>
    BY DEF Grows, feedVars
  <1>2. FeedShape' BY <1>1 DEF FeedInv, FeedShape, Good, NumbersDiffer, Listed
  <1>3. FeedIsInOrder' BY <1>1 DEF FeedInv, FeedIsInOrder, ComeFrom
  <1>4. FeedKeepsEvents'
    <2>1. ToldIsListed'
      <3>1. \A e : Lists(e)' <=> Lists(e) BY <1>1 DEF Lists
      <3>2. \A k : PushedOutSince(k)' <=> PushedOutSince(k) BY <1>1 DEF PushedOutSince
      <3>3. ToldIsListed BY DEF FeedInv, FeedKeepsEvents
      <3> QED BY <1>1, <3>1, <3>2, <3>3 DEF ToldIsListed
    <2>2. SnapshotHasWhatWasShown'
      BY <1>1 DEF FeedInv, FeedKeepsEvents, SnapshotHasWhatWasShown, Listed
    <2> QED BY <2>1, <2>2 DEF FeedKeepsEvents
  <1> QED BY <1>2, <1>3, <1>4 DEF FeedInv

LEMMA RowsRest == RowsInv /\ Grows /\ UNCHANGED tableVars => RowsInv'
  <1> SUFFICES ASSUME RowsInv, Grows, UNCHANGED tableVars PROVE RowsInv' OBVIOUS
  <1>1. Stored \subseteq Stored' /\ UNCHANGED <<events, eventsCalls, eventsLoading, tableBrought>>
    BY DEF Grows, tableVars
  <1>2. \A c \in Calls : EventsCallOK(c)' BY <1>1 DEF RowsInv, EventsCallOK, Good
  <1> QED BY <1>1, <1>2 DEF RowsInv, Good, NumbersDiffer

LEMMA CountedGrows ==
    ASSUME Grows, stage \in [Event -> Stages]
    PROVE  /\ Cardinality(Counted) \in Nat /\ Cardinality(Counted') \in Nat
           /\ Cardinality(Counted) <= Cardinality(Counted')
           /\ \A n \in 0 .. Cardinality(Counted) : n \in 0 .. Cardinality(Counted')
  <1>1. Counted \subseteq Counted' /\ Counted \subseteq Event /\ Counted' \subseteq Event
    BY DEF Grows, Counted
  <1>2. IsFiniteSet(Counted') /\ Cardinality(Counted) \in Nat /\ Cardinality(Counted') \in Nat
    BY <1>1, EventsFinite
  <1>3. Cardinality(Counted) <= Cardinality(Counted') BY <1>1, <1>2, FS_Subset
  <1> QED BY <1>2, <1>3

LEMMA CardsRest == LiveIndInv /\ Grows /\ UNCHANGED cardVars => CardsInv'
  <1> SUFFICES ASSUME LiveIndInv, Grows, UNCHANGED cardVars PROVE CardsInv' OBVIOUS
  <1>1. UNCHANGED <<analytics, analyticsCalls, autoRefresh, analyticsLoading>> BY DEF cardVars
  <1>2. \A n \in 0 .. Cardinality(Counted) : n \in 0 .. Cardinality(Counted')
    BY CountedGrows DEF LiveIndInv, ServerInv
  <1> QED BY <1>1, <1>2 DEF LiveIndInv, CardsInv

LEMMA LiveInvInit == LiveInit => LiveIndInv
  <1> SUFFICES ASSUME LiveInit PROVE LiveIndInv OBVIOUS
  <1>1. stage \in [Event -> Stages] BY DEF LiveInit, Stages, After
  <1>2. ServerInv BY <1>1, EmptyList DEF LiveInit, ServerInv, Good
  <1>3. FeedShape BY EmptyList, RequestsDiffer DEF LiveInit, FeedShape, NumbersDiffer, Good
  <1>4. FeedIsInOrder
    <2>1. recentFeed = <<>> /\ timeline = <<>> BY DEF LiveInit
    <2> DEFINE places == [i \in DOMAIN recentFeed |-> i]
    <2>2. places \in [DOMAIN recentFeed -> DOMAIN timeline] /\ ComeFrom(places)
      BY <2>1, EmptyList DEF ComeFrom
    <2> HIDE DEF places
    <2> QED BY <2>2 DEF FeedIsInOrder
  <1>5. FeedKeepsEvents
    BY EmptyList, RequestsDiffer DEF LiveInit, FeedKeepsEvents, ToldIsListed, SnapshotHasWhatWasShown
  <1>6. RowsInv BY EmptyList, RequestsDiffer DEF LiveInit, RowsInv, EventsCallOK, NumbersDiffer
  <1>7. CardsInv
    <2>1. Counted \subseteq Event BY DEF Counted
    <2>2. 0 \in 0 .. Cardinality(Counted) BY <2>1, EventsFinite
    <2> QED BY <2>2, RequestsDiffer DEF LiveInit, CardsInv
  <1> QED BY <1>2, <1>3, <1>4, <1>5, <1>6, <1>7 DEF LiveIndInv, FeedInv

-----------------------------------------------------------------------------
(* The server's part.                                                      *)

LEMMA ServerStep == LiveIndInv /\ [LiveNext]_liveVars => ServerInv'
  <1> SUFFICES ASSUME LiveIndInv, [LiveNext]_liveVars PROVE ServerInv' OBVIOUS
  <1>0. ServerInv /\ Grows /\ Sent \subseteq Sent' BY ServerGrows DEF LiveIndInv, Grows
  <1>1. page' \in {"closed", "new", "up", "crashed"} /\ source' \in {"connecting", "open"}
    BY <1>0 DEF ServerInv, LiveNext, liveVars, serverVars, Mount, OpenStream, BreakStream, OnMessage,
       AnswerFeed, ReceiveFeed, Poll, ManualRefresh, ToggleAutoRefresh, AnswerEvents, ReceiveEvents,
       AnswerAnalytics, FailAnalytics, ReceiveAnalytics, FillStore, Publish
  <1>2. CASE UNCHANGED messages BY <1>0, <1>1, <1>2 DEF ServerInv, Grows, Listed
  <1>3. CASE BreakStream
    <2>1. messages' = <<>> BY <1>3 DEF BreakStream
    <2>2. messages' \in Seq(Event) /\ Listed(messages') = {} BY <2>1, EmptyList DEF Good
    <2>3. Listed(messages)' = {} BY <2>2 DEF Listed
    <2> QED BY <1>0, <1>1, <2>2, <2>3 DEF ServerInv, Grows
  <1>4. CASE OnMessage
    <2>1. messages # <<>> /\ messages' = Tail(messages) BY <1>4 DEF OnMessage
    <2>2. /\ messages \in Seq(Event) /\ messages' \in Seq(Event)
          /\ Len(messages) \in Nat /\ Len(messages') = Len(messages) - 1
          /\ \A i \in 1 .. Len(messages') : messages'[i] = messages[i + 1]
          /\ DOMAIN messages = 1 .. Len(messages) /\ DOMAIN messages' = 1 .. Len(messages')
      BY <1>0, <2>1, HeadTailProperties, LenProperties DEF ServerInv
    <2>3. \A i \in DOMAIN messages' : i + 1 \in DOMAIN messages BY <2>2
    <2>4. \A i \in DOMAIN messages' : messages'[i] \in Sent
      BY <1>0, <2>2, <2>3 DEF ServerInv, Listed
    <2> QED BY <1>0, <1>1, <2>2, <2>4 DEF ServerInv, Grows, Listed
  <1>5. ASSUME NEW e \in Event, Publish(e) PROVE ServerInv'
    <2>1. stage'[e] \in {"again", "published"}
      BY <1>0, <1>5 DEF Publish, ServerInv
    <2>2. e \in Sent' BY <2>1 DEF Sent
    <2>3. messages' = IF source = "open" THEN Append(messages, e) ELSE messages
      BY <1>5 DEF Publish, Send
    <2>4. CASE source = "open"
      <3>1. /\ messages \in Seq(Event) /\ messages' \in Seq(Event) /\ Len(messages) \in Nat
            /\ Len(messages') = Len(messages) + 1 /\ messages'[Len(messages) + 1] = e
            /\ \A i \in 1 .. Len(messages) : messages'[i] = messages[i]
            /\ DOMAIN messages = 1 .. Len(messages) /\ DOMAIN messages' = 1 .. Len(messages')
        BY <1>0, <2>3, <2>4, AppendProperties, LenProperties DEF ServerInv
      <3>2. \A i \in DOMAIN messages' : i \in DOMAIN messages \/ i = Len(messages) + 1 BY <3>1
      <3>3. \A i \in DOMAIN messages' : messages'[i] \in Sent'
        BY <1>0, <2>2, <3>1, <3>2 DEF ServerInv, Listed
      <3> QED BY <1>0, <1>1, <3>1, <3>3 DEF ServerInv, Grows, Listed
    <2>5. CASE source # "open" BY <1>2, <2>3, <2>5
    <2> QED BY <2>4, <2>5
  <1>6. UNCHANGED messages \/ BreakStream \/ OnMessage \/ \E e \in Event : Publish(e)
    BY DEF LiveNext, liveVars, serverVars, Mount, OpenStream, AnswerFeed,
       ReceiveFeed, Poll, ManualRefresh, ToggleAutoRefresh, AnswerEvents, ReceiveEvents,
       AnswerAnalytics, FailAnalytics, ReceiveAnalytics, FillStore
  <1> QED BY <1>2, <1>3, <1>4, <1>5, <1>6

-----------------------------------------------------------------------------
(* The feed.                                                               *)

LEMMA AnswerFeedKeeps == LiveIndInv /\ Grows /\ AnswerFeed => FeedInv'
  <1> SUFFICES ASSUME LiveIndInv, Grows, AnswerFeed PROVE FeedInv' OBVIOUS
  <1>1. /\ FeedInv /\ stage \in [Event -> Stages] /\ Fed' = Fed
        /\ UNCHANGED <<recentFeed, timeline, feedBrought>> /\ shown' = Listed(recentFeed)
    BY DEF LiveIndInv, ServerInv, AnswerFeed, serverVars, Fed
  <1>2. recentFeed \in Seq(Event) /\ DOMAIN recentFeed = 1 .. Len(recentFeed) /\ shown' \subseteq Fed
    BY <1>1, LenProperties DEF FeedInv, FeedShape, Good, Listed
  <1>3. FeedIsInOrder' BY <1>1 DEF FeedInv, FeedIsInOrder, ComeFrom
  <1>4. ToldIsListed'
    <2>1. \A e : Lists(e)' <=> Lists(e) BY <1>1 DEF Lists
    <2>2. \A k : PushedOutSince(k)' <=> PushedOutSince(k) BY <1>1 DEF PushedOutSince
    <2>3. ToldIsListed BY <1>1 DEF FeedInv, FeedKeepsEvents
    <2> QED BY <1>1, <2>1, <2>2, <2>3 DEF ToldIsListed
  <1>5. CASE feedCall'.step \notin {"answered", "null"}
    <2>1. SnapshotHasWhatWasShown' BY <1>5 DEF SnapshotHasWhatWasShown
    <2>2. FeedShape' BY <1>1, <1>2, <1>5 DEF FeedInv, FeedShape, Good, NumbersDiffer, Listed
    <2> QED BY <1>3, <1>4, <2>1, <2>2 DEF FeedInv, FeedKeepsEvents
  <1>6. CASE feedCall' = NullBody /\ Fed = {}
    <2>1. shown' = {} BY <1>2, <1>6
    <2>2. SnapshotHasWhatWasShown' BY <2>1 DEF SnapshotHasWhatWasShown
    <2>3. FeedShape'
      BY <1>1, <1>2, <1>6, RequestsDiffer DEF FeedInv, FeedShape, Good, NumbersDiffer, Listed
    <2> QED BY <1>3, <1>4, <2>2, <2>3 DEF FeedInv, FeedKeepsEvents
  <1>7. ASSUME NEW rows \in Rows(Fed), Newest(rows, Fed), feedCall' = Answer(rows) PROVE FeedInv'
    <2> DEFINE n == LowestOf(Cap, Cardinality(Fed))
    <2>0. Fed \subseteq Event /\ Cardinality(Fed) \in Nat /\ Cap \in Nat
      BY <1>1, StagesNest, EventsFinite, LiveConstants
    <2>1. n \in Nat /\ n <= Cap /\ (n = Cap \/ n = Cardinality(Fed)) BY <2>0 DEF LowestOf
    <2>2. rows \in [1 .. n -> Fed] BY <1>7 DEF Rows
    <2> HIDE DEF n
    <2>3. rows \in Seq(Event) /\ Len(rows) = n /\ DOMAIN rows = 1 .. n
      <3>1. \A i \in 1 .. n : rows[i] \in Event BY <2>0, <2>2
      <3>2. rows = [i \in 1 .. n |-> rows[i]] BY <2>2
      <3>3. [i \in 1 .. n |-> rows[i]] \in Seq(Event) BY <2>1, <3>1, IsASeq
      <3> QED BY <2>1, <2>2, <3>2, <3>3, LenProperties
    <2>4. \A i, j \in 1 .. n : i < j => rows[i] > rows[j] BY <1>7, <2>3 DEF Newest
    <2>5. \A i \in 1 .. n : rows[i] \in Nat
      <3>1. \A e \in Event : e \in Nat BY LiveConstants DEF Event
      <3> QED BY <2>0, <2>2, <3>1
    <2>6. \A i, j \in 1 .. n : rows[i] = rows[j] => i = j
      <3> SUFFICES ASSUME NEW i \in 1 .. n, NEW j \in 1 .. n, rows[i] = rows[j], i # j PROVE FALSE
        OBVIOUS
      <3>1. i < j \/ j < i BY <2>1
      <3>2. rows[i] > rows[j] \/ rows[j] > rows[i] BY <2>4, <3>1
      <3> QED BY <2>5, <3>2
    <2>7. Good(rows, Fed) BY <2>1, <2>2, <2>3, <2>6 DEF Good
    <2>8. feedCall'.step = "answered" /\ feedCall'.value = rows BY <1>7, RequestsDiffer
    <2>9. Good(rows, Fed)' BY <1>1, <2>7 DEF Good
    <2>10. FeedShape'
      <3>1. Good(recentFeed, Fed)' /\ NumbersDiffer(recentFeed, feedBrought)'
        BY <1>1 DEF FeedInv, FeedShape, Good, NumbersDiffer
      <3>2. timeline' \in Seq(Event) /\ Listed(timeline)' \subseteq Fed' /\ feedBrought' \subseteq Fed'
        BY <1>1 DEF FeedInv, FeedShape, Listed
      <3>3. Good(feedCall.value, Fed)' BY <1>1, <2>7, <2>8 DEF Good
      <3> QED BY <1>1, <1>2, <3>1, <3>2, <3>3 DEF FeedShape
    <2>11. ASSUME NEW e \in Fed, e \notin Listed(rows)
           PROVE  Len(rows) = Cap /\ \A i \in 1 .. Cap : rows[i] > e
      <3>1. n # Cardinality(Fed)
        <4> SUFFICES ASSUME n = Cardinality(Fed) PROVE FALSE OBVIOUS
        <4>1. \E i \in 1 .. n : rows[i] = e BY <2>0, <2>2, <2>6, AllAreListed
        <4> QED BY <2>3, <2>11, <4>1 DEF Listed
      <3>2. n = Cap BY <2>1, <3>1
      <3> QED BY <1>7, <2>3, <2>11, <3>2 DEF Newest
    <2>12. SnapshotHasWhatWasShown'
      <3> SUFFICES ASSUME NEW e \in shown'
                   PROVE  e \in Listed(rows) \/ (Len(rows) = Cap /\ \A i \in 1 .. Cap : rows[i] > e)
        BY <2>8 DEF SnapshotHasWhatWasShown, Listed
      <3> QED BY <1>2, <2>11
    <2> QED BY <1>3, <1>4, <2>10, <2>12 DEF FeedInv, FeedKeepsEvents
  <1>8. \/ feedCall' = Failed
        \/ feedCall' = NullBody /\ Fed = {}
        \/ \E rows \in Rows(Fed) : Newest(rows, Fed) /\ feedCall' = Answer(rows)
    BY DEF AnswerFeed
  <1> QED BY <1>5, <1>6, <1>7, <1>8, RequestsDiffer

LEMMA ReceiveFeedKeeps == LiveIndInv /\ Grows /\ ReceiveFeed => FeedInv'
  <1> SUFFICES ASSUME LiveIndInv, Grows, ReceiveFeed PROVE FeedInv' OBVIOUS
  <1> DEFINE rows == IF feedCall.step = "answered" THEN feedCall.value ELSE <<>>
             n    == Len(rows)
             told == OldestFirst(rows)
  <1>1. /\ FeedInv /\ Fed' = Fed /\ UNCHANGED shown /\ feedCall' = None
        /\ recentFeed' = rows /\ timeline' = told /\ feedBrought' = Listed(rows)
    BY DEF LiveIndInv, ReceiveFeed, serverVars, Fed
  <1>2. Good(rows, Fed) BY <1>1, EmptyList DEF FeedInv, FeedShape
  <1> HIDE DEF rows
  <1>3. rows \in Seq(Event) /\ n \in Nat /\ DOMAIN rows = 1 .. n BY <1>2, LenProperties DEF Good
  <1>4. told = [i \in 1 .. n |-> rows[n + 1 - i]] BY <1>3 DEF OldestFirst
  <1>5. \A i \in 1 .. n : n + 1 - i \in 1 .. n /\ n + 1 - (n + 1 - i) = i BY <1>3
  <1>6. \A i \in 1 .. n : told[i] = rows[n + 1 - i] /\ told[i] \in Fed /\ told[i] \in Event
    <2>1. \A i \in 1 .. n : rows[i] \in Fed /\ rows[i] \in Event BY <1>2, <1>3, ElementOfSeq DEF Good
    <2> HIDE DEF n, told
    <2> QED BY <1>4, <1>5, <2>1
  <1>7. told \in Seq(Event) /\ DOMAIN told = 1 .. n
    <2>1. \A i \in 1 .. n : rows[n + 1 - i] \in Event BY <1>6
    <2> HIDE DEF n, told
    <2> QED BY <1>3, <1>4, <2>1, IsASeq
  <1> HIDE DEF n, told
  <1>8. FeedShape'
    <2>1. Listed(rows) \subseteq Fed /\ Listed(told) \subseteq Fed
      BY <1>2, <1>3, <1>6, <1>7 DEF Good, Listed, n
    <2>2. NumbersDiffer(rows, Listed(rows)) BY DEF NumbersDiffer, Listed
    <2>3. (feedCall.step = "answered" => Good(feedCall.value, Fed))' BY <1>1, RequestsDiffer
    <2>4. Good(recentFeed, Fed)' /\ NumbersDiffer(recentFeed, feedBrought)'
      BY <1>1, <1>2, <2>2 DEF Good, NumbersDiffer
    <2>5. timeline' \in Seq(Event) /\ Listed(timeline)' \subseteq Fed' /\ feedBrought' \subseteq Fed'
      BY <1>1, <1>7, <2>1 DEF Listed
    <2>6. shown' \subseteq Fed' BY <1>1 DEF FeedInv, FeedShape
    <2> QED BY <2>3, <2>4, <2>5, <2>6 DEF FeedShape
  <1>9. FeedIsInOrder'
    <2> DEFINE places == [i \in 1 .. n |-> n + 1 - i]
    <2>1. places \in [1 .. n -> 1 .. n] BY <1>5
    <2>2. \A i \in 1 .. n : told[places[i]] = rows[i]
      <3> TAKE i \in 1 .. n
      <3>1. places[i] = n + 1 - i /\ n + 1 - i \in 1 .. n BY <1>5
      <3>2. told[n + 1 - i] = rows[n + 1 - (n + 1 - i)] BY <1>6, <3>1
      <3> QED BY <1>5, <3>1, <3>2
    <2>3. \A i, j \in 1 .. n : i < j => places[i] > places[j] BY <1>3
    <2> HIDE DEF places
    <2> QED BY <1>1, <1>3, <1>7, <2>1, <2>2, <2>3 DEF FeedIsInOrder, ComeFrom
  <1>10. ToldIsListed'
    <2> SUFFICES ASSUME NEW i \in 1 .. n
                 PROVE  \E j \in 1 .. n : NumberOf[rows[j]] = NumberOf[told[i]]
      BY <1>1, <1>3, <1>7 DEF ToldIsListed, Lists
    <2> QED BY <1>5, <1>6
  <1>11. SnapshotHasWhatWasShown' BY <1>1, RequestsDiffer DEF SnapshotHasWhatWasShown
  <1> QED BY <1>8, <1>9, <1>10, <1>11 DEF FeedInv, FeedKeepsEvents

LEMMA MountFeed == LiveIndInv /\ Grows /\ Mount => FeedInv'
  <1> SUFFICES ASSUME LiveIndInv, Grows, Mount PROVE FeedInv' OBVIOUS
  <1>1. /\ FeedInv /\ Fed' = Fed /\ feedCall' = Asked
        /\ UNCHANGED <<recentFeed, timeline, feedBrought, shown>>
    BY DEF LiveIndInv, Mount, serverVars, Fed
  <1>2. FeedShape' BY <1>1, RequestsDiffer DEF FeedInv, FeedShape, Good, NumbersDiffer, Listed
  <1>3. FeedIsInOrder' BY <1>1 DEF FeedInv, FeedIsInOrder, ComeFrom
  <1>4. ToldIsListed'
    <2>1. \A e : Lists(e)' <=> Lists(e) BY <1>1 DEF Lists
    <2>2. \A k : PushedOutSince(k)' <=> PushedOutSince(k) BY <1>1 DEF PushedOutSince
    <2>3. ToldIsListed BY <1>1 DEF FeedInv, FeedKeepsEvents
    <2> QED BY <1>1, <2>1, <2>2, <2>3 DEF ToldIsListed
  <1>5. SnapshotHasWhatWasShown' BY <1>1, RequestsDiffer DEF SnapshotHasWhatWasShown
  <1> QED BY <1>2, <1>3, <1>4, <1>5 DEF FeedInv, FeedKeepsEvents

\* A message: one more place of the timeline, and a row on top or none.
LEMMA MessageFacts ==
    ASSUME LiveIndInv, OnMessage
    PROVE  LET e == Head(messages) IN
           /\ e \in Sent /\ e \in Fed /\ e \in Stored /\ e \in Event
           /\ stage' = stage
           /\ recentFeed' = Merge(recentFeed, e) /\ events' = Merge(events, e)
           /\ timeline' = Append(timeline, e)
  <1>1. messages \in Seq(Event) /\ messages # <<>> /\ Listed(messages) \subseteq Sent
    BY DEF LiveIndInv, ServerInv, OnMessage
  <1>2. Len(messages) \in Nat /\ Len(messages) # 0 /\ Head(messages) = messages[1]
        /\ DOMAIN messages = 1 .. Len(messages)
    BY <1>1, EmptySeq, LenProperties, HeadTailProperties
  <1>3. 1 \in DOMAIN messages BY <1>2
  <1>4. Head(messages) \in Sent BY <1>1, <1>2, <1>3 DEF Listed
  <1>5. Sent \subseteq Fed /\ Fed \subseteq Stored /\ Stored \subseteq Event
    BY StagesNest DEF LiveIndInv, ServerInv
  <1> QED BY <1>4, <1>5 DEF OnMessage

LEMMA OnMessageKeepsFeed == LiveIndInv /\ Grows /\ OnMessage => FeedInv'
  <1> SUFFICES ASSUME LiveIndInv, Grows, OnMessage PROVE FeedInv' OBVIOUS
  <1> DEFINE e      == Head(messages)
             merged == Merge(recentFeed, e)
             n      == Len(recentFeed)
             m      == Len(merged)
             last   == Len(timeline)
             Has(d)    == \E j \in DOMAIN recentFeed' : NumberOf[recentFeed'[j]] = NumberOf[d]
             Pushed(k) == Cardinality({timeline'[j] : j \in k + 1 .. Len(timeline')} \ {timeline'[k]}) >= Cap
  <1>1. /\ e \in Fed /\ e \in Event /\ Fed' = Fed /\ Fed \subseteq Event
        /\ recentFeed' = merged /\ timeline' = Append(timeline, e)
        /\ UNCHANGED <<feedCall, feedBrought, shown>>
    BY MessageFacts, StagesNest DEF LiveIndInv, ServerInv, OnMessage, Fed
  <1>2. /\ Good(recentFeed, Fed) /\ NumbersDiffer(recentFeed, feedBrought) /\ timeline \in Seq(Event)
        /\ FeedInv
    BY DEF LiveIndInv, FeedInv, FeedShape
  <1> HIDE DEF e
  <1>3. Good(merged, Fed) /\ NumbersDiffer(merged, feedBrought) BY <1>1, <1>2, MergeGood
  <1>4. /\ recentFeed \in Seq(Event) /\ n \in Nat /\ n <= Cap /\ DOMAIN recentFeed = 1 .. n
        /\ merged \in Seq(Event) /\ m \in Nat /\ m <= Cap /\ DOMAIN merged = 1 .. m
    BY <1>2, <1>3, LenProperties DEF Good
  <1>5. /\ timeline' \in Seq(Event) /\ last \in Nat /\ DOMAIN timeline = 1 .. last
        /\ DOMAIN timeline' = 1 .. last + 1 /\ timeline'[last + 1] = e
        /\ \A j \in 1 .. last : timeline'[j] = timeline[j]
    <2>1. timeline' \in Seq(Event) /\ Len(timeline') = last + 1 /\ timeline'[last + 1] = e
          /\ \A j \in 1 .. last : timeline'[j] = timeline[j]
      BY <1>1, <1>2, AppendProperties
    <2> QED BY <1>2, <2>1, LenProperties
  <1>6. FeedShape'
    <2>1. Good(recentFeed, Fed)' /\ NumbersDiffer(recentFeed, feedBrought)'
      BY <1>1, <1>3 DEF Good, NumbersDiffer
    <2>2. \A j \in 1 .. last + 1 : timeline'[j] \in Fed
      <3>1. \A j \in 1 .. last : timeline[j] \in Fed
        BY <1>2, <1>5 DEF FeedInv, FeedShape, Listed
      <3>2. \A j \in 1 .. last + 1 : j \in 1 .. last \/ j = last + 1 BY <1>5
      <3> QED BY <1>1, <1>5, <3>1, <3>2
    <2>3. Listed(timeline)' \subseteq Fed' BY <1>1, <1>5, <2>2 DEF Listed
    <2>4. feedBrought' \subseteq Fed' /\ shown' \subseteq Fed'
          /\ (feedCall'.step = "answered" => Good(feedCall.value, Fed)')
      BY <1>1, <1>2 DEF FeedInv, FeedShape, Good
    <2> QED BY <1>5, <2>1, <2>3, <2>4 DEF FeedShape
  <1>7. PICK places \in [1 .. n -> 1 .. last] :
            /\ \A i \in 1 .. n : timeline[places[i]] = recentFeed[i]
            /\ \A i, j \in 1 .. n : i < j => places[i] > places[j]
    BY <1>2, <1>4, <1>5 DEF FeedInv, FeedIsInOrder, ComeFrom
  <1>8. SnapshotHasWhatWasShown'
    BY <1>1, <1>2 DEF FeedInv, FeedKeepsEvents, SnapshotHasWhatWasShown, Listed
  <1>9. \A k \in 1 .. last : PushedOutSince(k) => Pushed(k)
    <2> SUFFICES ASSUME NEW k \in 1 .. last, PushedOutSince(k) PROVE Pushed(k) OBVIOUS
    <2> DEFINE before == {timeline[j] : j \in k + 1 .. Len(timeline)} \ {timeline[k]}
               after  == {timeline'[j] : j \in k + 1 .. Len(timeline')} \ {timeline'[k]}
    <2>1. Len(timeline') = last + 1 BY <1>5, LenProperties
    <2>2. \A j \in k + 1 .. last : j \in 1 .. last /\ j \in k + 1 .. last + 1 BY <1>5
    <2>3. before \subseteq after BY <1>5, <2>1, <2>2
    <2>4. \A j \in k + 1 .. last + 1 : j \in 1 .. last + 1 BY <1>5
    <2>5. after \subseteq Event BY <1>5, <2>1, <2>4, ElementOfSeq
    <2> HIDE DEF before, after
    <2>6. Cardinality(before) <= Cardinality(after) /\ Cardinality(after) \in Nat
          /\ Cardinality(before) \in Nat
      BY <2>3, <2>5, EventsFinite, FS_Subset
    <2>7. Cardinality(before) >= Cap BY DEF PushedOutSince, before
    <2>8. Cardinality(after) >= Cap BY <2>6, <2>7, LiveConstants
    <2> QED BY <2>8 DEF after
  <1> SUFFICES FeedIsInOrder' /\ ToldIsListed' BY <1>6, <1>8 DEF FeedInv, FeedKeepsEvents
  <1>10. CASE \E i \in DOMAIN recentFeed : NumberOf[recentFeed[i]] = NumberOf[e]
    <2>1. recentFeed' = recentFeed BY <1>1, <1>10, MergeNothing
    <2>2. FeedIsInOrder'
      <3>1. places \in [1 .. n -> 1 .. last + 1] /\ \A i \in 1 .. n : places[i] \in 1 .. last
        BY <1>5, <1>7
      <3>2. \A i \in 1 .. n : timeline'[places[i]] = recentFeed[i] BY <1>5, <1>7, <3>1
      <3> QED BY <1>4, <1>5, <1>7, <2>1, <3>1, <3>2 DEF FeedIsInOrder, ComeFrom
    <2>3. \A d : Lists(d) => Has(d) BY <2>1 DEF Lists
    <2>4. Has(e) BY <1>10, <2>1
    <2>5. ASSUME NEW i \in 1 .. last + 1
          PROVE  \/ Has(timeline'[i])
                 \/ \E k \in 1 .. last + 1 :
                        NumberOf[timeline'[k]] = NumberOf[timeline'[i]] /\ Pushed(k)
      <3>1. CASE i = last + 1 BY <1>5, <2>4, <3>1
      <3>2. CASE i \in 1 .. last
        <4>1. \/ Lists(timeline[i])
              \/ \E k \in 1 .. last : NumberOf[timeline[k]] = NumberOf[timeline[i]] /\ PushedOutSince(k)
          BY <1>2, <1>5, <3>2 DEF FeedInv, FeedKeepsEvents, ToldIsListed
        <4>2. \A k \in 1 .. last : k \in 1 .. last + 1 BY <1>5
        <4>3. CASE Lists(timeline[i]) BY <1>5, <2>3, <3>2, <4>3
        <4>4. CASE \E k \in 1 .. last : NumberOf[timeline[k]] = NumberOf[timeline[i]] /\ PushedOutSince(k)
          BY <1>5, <1>9, <3>2, <4>2, <4>4
        <4> QED BY <4>1, <4>3, <4>4
      <3>3. i = last + 1 \/ i \in 1 .. last BY <1>5
      <3> QED BY <3>1, <3>2, <3>3, Zenon
    <2>6. ToldIsListed' BY <1>5, <2>5 DEF ToldIsListed, Lists, PushedOutSince
    <2> QED BY <2>2, <2>6
  <1>11. CASE ~ \E i \in DOMAIN recentFeed : NumberOf[recentFeed[i]] = NumberOf[e]
    <2>1. /\ m = LowestOf(Cap, n + 1) /\ merged[1] = e
          /\ \A i \in 2 .. m : merged[i] = recentFeed[i - 1]
      BY <1>1, <1>4, <1>11, MergeFirst
    <2> HIDE DEF merged, n, m, last
    <2>2. m <= n + 1 /\ 1 <= m /\ (m = Cap \/ m = n + 1) BY <1>4, <2>1, LiveConstants DEF LowestOf
    <2>3. \A i \in 1 .. m : i = 1 \/ (i \in 2 .. m /\ i - 1 \in 1 .. n) BY <1>4, <2>2
    <2>4. FeedIsInOrder'
      <3> DEFINE next == [i \in 1 .. m |-> IF i = 1 THEN last + 1 ELSE places[i - 1]]
      <3>1. \A i \in 1 .. m : next[i] \in 1 .. last + 1 BY <1>5, <1>7, <2>3
      <3>2. \A i \in 1 .. m : timeline'[next[i]] = merged[i]
        <4> TAKE i \in 1 .. m
        <4>1. CASE i = 1 BY <1>5, <2>1, <4>1
        <4>2. CASE i # 1
          <5>1. i \in 2 .. m /\ i - 1 \in 1 .. n /\ next[i] = places[i - 1] BY <2>3, <4>2
          <5>2. places[i - 1] \in 1 .. last BY <1>7, <5>1
          <5>3. timeline'[places[i - 1]] = timeline[places[i - 1]] BY <1>5, <5>2
          <5>4. timeline[places[i - 1]] = recentFeed[i - 1] BY <1>7, <5>1
          <5> QED BY <2>1, <5>1, <5>3, <5>4
        <4> QED BY <4>1, <4>2
      <3>3. \A i, j \in 1 .. m : i < j => next[i] > next[j]
        <4> SUFFICES ASSUME NEW i \in 1 .. m, NEW j \in 1 .. m, i < j PROVE next[i] > next[j] OBVIOUS
        <4>1. j # 1 /\ j - 1 \in 1 .. n /\ next[j] = places[j - 1] /\ places[j - 1] \in 1 .. last
          BY <1>4, <1>7, <2>3
        <4>2. CASE i = 1 BY <1>5, <4>1, <4>2
        <4>3. CASE i # 1
          <5>1. i - 1 \in 1 .. n /\ next[i] = places[i - 1] /\ i - 1 < j - 1 BY <1>4, <2>3, <4>1, <4>3
          <5> QED BY <1>7, <4>1, <5>1
        <4> QED BY <4>2, <4>3
      <3>4. next \in [1 .. m -> 1 .. last + 1] BY <3>1
      <3> HIDE DEF next
      <3> QED BY <1>1, <1>4, <1>5, <3>2, <3>3, <3>4 DEF FeedIsInOrder, ComeFrom
    <2>5. ASSUME NEW i \in 1 .. last, NEW p \in 1 .. n,
                 NumberOf[recentFeed[p]] = NumberOf[timeline[i]], ~ (p + 1 <= m)
          PROVE  NumberOf[timeline[places[p]]] = NumberOf[timeline[i]] /\ Pushed(places[p])
      <3> DEFINE k == places[p]
                 T == {timeline'[j] : j \in k + 1 .. Len(timeline')} \ {timeline'[k]}
                 rows == [q \in 1 .. Cap |-> merged[q]]
      <3>1. p = Cap /\ n = Cap /\ m = Cap BY <1>4, <2>2, <2>5, LiveConstants
      <3>2. k \in 1 .. last /\ timeline[k] = recentFeed[p] /\ timeline'[k] = recentFeed[p]
        BY <1>5, <1>7
      <3>3. Len(timeline') = last + 1 BY <1>5, LenProperties
      <3>4. \A q \in 1 .. Cap : merged[q] \in T
        <4> TAKE q \in 1 .. Cap
        <4>1. CASE q = 1
          <5>1. last + 1 \in k + 1 .. Len(timeline') BY <1>5, <3>2, <3>3
          <5>2. e # recentFeed[p] BY <1>4, <1>11
          <5> QED BY <1>5, <2>1, <3>2, <4>1, <5>1, <5>2
        <4>2. CASE q # 1
          <5>1. q \in 2 .. m /\ q - 1 \in 1 .. n /\ q - 1 < p /\ q - 1 # p BY <2>3, <3>1, <4>2
          <5>2. merged[q] = recentFeed[q - 1] BY <2>1, <5>1
          <5>3. places[q - 1] > k /\ places[q - 1] \in 1 .. last BY <1>7, <5>1
          <5>4. timeline'[places[q - 1]] = recentFeed[q - 1] BY <1>5, <1>7, <5>1, <5>3
          <5>5. places[q - 1] \in k + 1 .. Len(timeline') BY <1>5, <3>2, <3>3, <5>3
          <5>6. recentFeed[q - 1] # recentFeed[p] BY <1>2, <5>1 DEF Good, n
          <5> QED BY <3>2, <5>2, <5>4, <5>5, <5>6
        <4> QED BY <4>1, <4>2
      <3>5. T \subseteq Event
        <4>1. \A j \in k + 1 .. last + 1 : j \in 1 .. last + 1 BY <1>5, <3>2
        <4> QED BY <1>5, <3>3, <4>1, ElementOfSeq
      <3>6. \A q, r \in 1 .. Cap : merged[q] = merged[r] => q = r BY <1>3, <3>1 DEF Good, m
      <3> HIDE DEF T
      <3>7. rows \in [1 .. Cap -> T] /\ \A q, r \in 1 .. Cap : rows[q] = rows[r] => q = r
        BY <3>4, <3>6
      <3> HIDE DEF rows
      <3>8. Cardinality(T) >= Cap BY <3>5, <3>7, AtLeastCap
      <3>9. Pushed(places[p]) BY <3>8 DEF T
      <3> QED BY <2>5, <3>2, <3>9
    <2>6. ASSUME NEW i \in 1 .. last + 1
          PROVE  \/ Has(timeline'[i])
                 \/ \E k \in 1 .. last + 1 :
                        NumberOf[timeline'[k]] = NumberOf[timeline'[i]] /\ Pushed(k)
      <3>1. CASE i = last + 1
        <4>1. 1 \in DOMAIN merged BY <1>4, <2>2
        <4> QED BY <1>1, <1>5, <2>1, <3>1, <4>1
      <3>2. CASE i \in 1 .. last
        <4>0. \A k \in 1 .. last : k \in 1 .. last + 1 BY <1>5
        <4>1. \/ Lists(timeline[i])
              \/ \E k \in 1 .. last : NumberOf[timeline[k]] = NumberOf[timeline[i]] /\ PushedOutSince(k)
          BY <1>2, <1>5, <3>2 DEF FeedInv, FeedKeepsEvents, ToldIsListed
        <4>2. CASE \E k \in 1 .. last : NumberOf[timeline[k]] = NumberOf[timeline[i]] /\ PushedOutSince(k)
          BY <1>5, <1>9, <3>2, <4>0, <4>2
        <4>3. CASE Lists(timeline[i])
          <5>1. PICK p \in 1 .. n : NumberOf[recentFeed[p]] = NumberOf[timeline[i]]
            BY <1>4, <4>3 DEF Lists
          <5>2. CASE p + 1 <= m
            <6>1. p + 1 \in 2 .. m /\ p + 1 \in 1 .. m /\ p + 1 - 1 = p BY <1>4, <5>2
            <6>2. merged[p + 1] = recentFeed[p] BY <2>1, <6>1
            <6> QED BY <1>1, <1>4, <1>5, <3>2, <5>1, <6>1, <6>2
          <5>3. CASE ~ (p + 1 <= m)
            <6>1. NumberOf[timeline[places[p]]] = NumberOf[timeline[i]] /\ Pushed(places[p])
              BY <2>5, <3>2, <5>1, <5>3
            <6>2. places[p] \in 1 .. last BY <1>7
            <6> QED BY <1>5, <3>2, <4>0, <6>1, <6>2
          <5> QED BY <5>2, <5>3
        <4> QED BY <4>1, <4>2, <4>3
      <3>3. i = last + 1 \/ i \in 1 .. last BY <1>5
      <3> QED BY <3>1, <3>2, <3>3, Zenon
    <2>7. ToldIsListed' BY <1>5, <2>6 DEF ToldIsListed, Lists, PushedOutSince
    <2> QED BY <2>4, <2>7
  <1> QED BY <1>10, <1>11

-----------------------------------------------------------------------------
(* The table.                                                              *)

LEMMA StartRequest ==
    ASSUME RowsInv, Grows, NEW c \in Calls, StartEvents(c), UNCHANGED <<events, tableBrought>>
    PROVE  RowsInv'
  <1>1. /\ Stored \subseteq Stored' /\ eventsCalls' = [eventsCalls EXCEPT ![c] = Asked]
        /\ eventsLoading' = TRUE
    BY DEF Grows, StartEvents
  <1>2. DOMAIN eventsCalls' = Calls /\ eventsCalls'[c] = Asked /\ eventsCalls'[c] # None
        /\ \A d \in Calls \ {c} : eventsCalls'[d] = eventsCalls[d]
    BY <1>1, RequestsDiffer DEF RowsInv
  <1>3. \A d \in Calls : EventsCallOK(d)' BY <1>1, <1>2 DEF RowsInv, EventsCallOK, Good
  <1>4. Good(events, Stored)' /\ NumbersDiffer(events, tableBrought)' /\ tableBrought' \subseteq Stored'
    BY <1>1 DEF RowsInv, Good, NumbersDiffer
  <1> QED BY <1>1, <1>2, <1>3, <1>4 DEF RowsInv

LEMMA AnswerEventsKeeps ==
    ASSUME LiveIndInv, Grows, NEW c \in Calls, AnswerEvents(c)
    PROVE  RowsInv'
  <1>1. /\ RowsInv /\ stage \in [Event -> Stages] /\ Stored' = Stored
        /\ UNCHANGED <<events, eventsLoading, tableBrought>> /\ eventsCalls[c] = Asked
    BY DEF LiveIndInv, ServerInv, AnswerEvents, serverVars, Stored
  <1>2. \/ eventsCalls' = [eventsCalls EXCEPT ![c] = Failed]
        \/ \E rows \in Rows(Stored) :
               Latest(rows, Stored) /\ eventsCalls' = [eventsCalls EXCEPT ![c] = Answer(rows)]
    BY DEF AnswerEvents
  <1>3. \A rows \in Rows(Stored) : Latest(rows, Stored) => Good(rows, Stored)
    <2> SUFFICES ASSUME NEW rows \in Rows(Stored), Latest(rows, Stored) PROVE Good(rows, Stored)
      OBVIOUS
    <2> DEFINE n == LowestOf(Cap, Cardinality(Stored))
    <2>1. Stored \subseteq Event /\ Cardinality(Stored) \in Nat /\ Cap \in Nat
      BY <1>1, StagesNest, EventsFinite, LiveConstants
    <2>2. n \in Nat /\ n <= Cap BY <2>1 DEF LowestOf
    <2>3. rows \in [1 .. n -> Stored] BY DEF Rows
    <2> HIDE DEF n
    <2>4. \A i \in 1 .. n : rows[i] \in Event BY <2>1, <2>3
    <2>5. rows = [i \in 1 .. n |-> rows[i]] BY <2>3
    <2>6. [i \in 1 .. n |-> rows[i]] \in Seq(Event) BY <2>2, <2>4, IsASeq
    <2>7. rows \in Seq(Event) /\ Len(rows) = n /\ DOMAIN rows = 1 .. n
      BY <2>2, <2>3, <2>5, <2>6, LenProperties
    <2> QED BY <2>2, <2>3, <2>7 DEF Good, Latest, Unique
  <1>4. /\ DOMAIN eventsCalls' = Calls /\ \A d \in Calls \ {c} : eventsCalls'[d] = eventsCalls[d]
        /\ \/ eventsCalls'[c] = Failed
           \/ \E rows \in Rows(Stored) : Latest(rows, Stored) /\ eventsCalls'[c] = Answer(rows)
    BY <1>1, <1>2 DEF RowsInv
  <1>5. EventsCallOK(c)'
    <2>1. CASE eventsCalls'[c] = Failed BY <2>1 DEF EventsCallOK
    <2>2. ASSUME NEW rows \in Rows(Stored), Latest(rows, Stored), eventsCalls'[c] = Answer(rows)
          PROVE  EventsCallOK(c)'
      <3>1. eventsCalls'[c].step = "answered" /\ eventsCalls'[c].value = rows BY <2>2, RequestsDiffer
      <3>2. Good(rows, Stored) BY <1>3, <2>2
      <3> QED BY <1>1, <3>1, <3>2 DEF EventsCallOK, Good
    <2> QED BY <1>4, <2>1, <2>2
  <1>6. \A d \in Calls : EventsCallOK(d)' BY <1>1, <1>4, <1>5 DEF RowsInv, EventsCallOK, Good
  <1>7. eventsCalls'[c] # None BY <1>4, RequestsDiffer
  <1>8. Good(events, Stored)' /\ NumbersDiffer(events, tableBrought)' /\ tableBrought' \subseteq Stored'
    BY <1>1 DEF RowsInv, Good, NumbersDiffer
  <1> QED BY <1>1, <1>4, <1>6, <1>7, <1>8 DEF RowsInv

LEMMA ReceiveEventsKeeps ==
    ASSUME LiveIndInv, Grows, NEW c \in Calls, ReceiveEvents(c)
    PROVE  RowsInv'
  <1>1. /\ RowsInv /\ Stored' = Stored /\ IsBack(eventsCalls[c])
        /\ eventsCalls' = [eventsCalls EXCEPT ![c] = None]
        /\ events' = (IF eventsCalls[c] = Failed THEN <<>> ELSE eventsCalls[c].value)
        /\ eventsLoading' = FALSE /\ tableBrought' = Listed(events')
    BY DEF LiveIndInv, ReceiveEvents, serverVars, Stored
  <1>2. eventsCalls[c] = Failed \/ Good(eventsCalls[c].value, Stored)
    BY <1>1, RequestsDiffer DEF RowsInv, EventsCallOK, IsBack
  <1>3. Good(events', Stored) BY <1>1, <1>2, EmptyList
  <1>4. tableBrought' \subseteq Stored /\ NumbersDiffer(events', tableBrought')
    <2>1. DOMAIN events' = 1 .. Len(events') BY <1>3, LenProperties DEF Good
    <2> QED BY <1>1, <1>3, <2>1 DEF Good, Listed, NumbersDiffer
  <1>5. Good(events, Stored)' /\ NumbersDiffer(events, tableBrought)'
    BY <1>1, <1>3, <1>4 DEF Good, NumbersDiffer
  <1>6. \A d \in Calls : EventsCallOK(d)' BY <1>1, RequestsDiffer DEF RowsInv, EventsCallOK, Good
  <1> QED BY <1>1, <1>4, <1>5, <1>6 DEF RowsInv

LEMMA OnMessageKeepsRows == LiveIndInv /\ Grows /\ OnMessage => RowsInv'
  <1> SUFFICES ASSUME LiveIndInv, Grows, OnMessage PROVE RowsInv' OBVIOUS
  <1> DEFINE e == Head(messages)
  <1>1. /\ e \in Stored /\ Stored' = Stored /\ Stored \subseteq Event /\ events' = Merge(events, e)
        /\ UNCHANGED <<eventsCalls, eventsLoading, tableBrought>> /\ RowsInv
    BY MessageFacts, StagesNest DEF LiveIndInv, ServerInv, OnMessage, Stored
  <1> HIDE DEF e
  <1>2. Good(Merge(events, e), Stored) /\ NumbersDiffer(Merge(events, e), tableBrought)
    BY <1>1, MergeGood DEF RowsInv
  <1>3. Good(events, Stored)' /\ NumbersDiffer(events, tableBrought)'
    BY <1>1, <1>2 DEF Good, NumbersDiffer
  <1>4. \A d \in Calls : EventsCallOK(d)' BY <1>1 DEF RowsInv, EventsCallOK, Good
  <1> QED BY <1>1, <1>3, <1>4 DEF RowsInv

-----------------------------------------------------------------------------
(* The cards.                                                              *)

\* A step of one request: asked again, answered with a number, failed or over.
LEMMA CardsMove ==
    ASSUME LiveIndInv, Grows, NEW c \in Calls, NEW call,
           analyticsCalls' = [analyticsCalls EXCEPT ![c] = call],
           call.step = "answered" => call.value \in 0 .. Cardinality(Counted'),
           analytics' \in 0 .. Cardinality(Counted'),
           autoRefresh' \in BOOLEAN, analyticsLoading' \in BOOLEAN
    PROVE  CardsInv'
  <1>1. \A n \in 0 .. Cardinality(Counted) : n \in 0 .. Cardinality(Counted')
    BY CountedGrows DEF LiveIndInv, ServerInv
  <1>2. DOMAIN analyticsCalls' = Calls /\ analyticsCalls'[c] = call
        /\ \A d \in Calls \ {c} : analyticsCalls'[d] = analyticsCalls[d]
    BY DEF LiveIndInv, CardsInv
  <1>3. \A d \in Calls : analyticsCalls'[d].step = "answered" =>
                            analyticsCalls'[d].value \in 0 .. Cardinality(Counted')
    BY <1>1, <1>2 DEF LiveIndInv, CardsInv
  <1> QED BY <1>2, <1>3 DEF CardsInv

LEMMA CardsStep == LiveIndInv /\ [LiveNext]_liveVars => CardsInv'
  <1> SUFFICES ASSUME LiveIndInv, [LiveNext]_liveVars PROVE CardsInv' OBVIOUS
  <1>0. Grows BY ServerGrows
  <1>1. /\ \A n \in 0 .. Cardinality(Counted) : n \in 0 .. Cardinality(Counted')
        /\ Cardinality(Counted) \in Nat
    BY <1>0, CountedGrows DEF LiveIndInv, ServerInv
  <1>2. /\ analytics \in 0 .. Cardinality(Counted) /\ autoRefresh \in BOOLEAN /\ analyticsLoading \in BOOLEAN
        /\ \A c \in Calls : analyticsCalls[c].step = "answered" =>
                               analyticsCalls[c].value \in 0 .. Cardinality(Counted)
    BY DEF LiveIndInv, CardsInv
  <1>3. CASE UNCHANGED cardVars BY <1>0, <1>3, CardsRest
  <1>4. ASSUME NEW c \in Calls, NEW next, StartAnalytics(c, next), UNCHANGED <<analytics, autoRefresh>>
        PROVE  CardsInv'
    <2>1. AndThen(Asked, next).step = "asked" BY RequestsDiffer
    <2> QED BY <1>0, <1>1, <1>2, <1>4, <2>1, CardsMove DEF StartAnalytics
  <1>5. CASE Mount BY <1>4, <1>5 DEF Mount
  <1>6. CASE Poll BY <1>4, <1>6 DEF Poll
  <1>7. CASE ManualRefresh BY <1>4, <1>7 DEF ManualRefresh
  <1>8. CASE ToggleAutoRefresh
    <2>1. /\ autoRefresh' \in BOOLEAN /\ Counted' = Counted
          /\ UNCHANGED <<analytics, analyticsCalls, analyticsLoading>>
      BY <1>8 DEF ToggleAutoRefresh, serverVars, Counted
    <2> QED BY <2>1 DEF LiveIndInv, CardsInv
  <1>9. ASSUME NEW c \in Calls, AnswerAnalytics(c) PROVE CardsInv'
    <2> DEFINE call == AndThen(Answer(Cardinality(Counted)), analyticsCalls[c].next)
    <2>1. call.step = "answered" /\ call.value = Cardinality(Counted) BY RequestsDiffer
    <2>2. analyticsCalls' = [analyticsCalls EXCEPT ![c] = call]
          /\ UNCHANGED <<analytics, autoRefresh, analyticsLoading>>
      BY <1>9 DEF AnswerAnalytics
    <2> HIDE DEF call
    <2>3. call.value \in 0 .. Cardinality(Counted') BY <1>1, <2>1
    <2> QED BY <1>0, <1>1, <1>2, <2>2, <2>3, CardsMove
  <1>10. ASSUME NEW c \in Calls, FailAnalytics(c) PROVE CardsInv'
    <2>1. AndThen(Failed, analyticsCalls[c].next).step = "failed" BY RequestsDiffer
    <2> QED BY <1>0, <1>1, <1>2, <1>10, <2>1, CardsMove DEF FailAnalytics
  <1>11. ASSUME NEW c \in Calls, ReceiveAnalytics(c) PROVE CardsInv'
    <2>1. /\ analyticsCalls' = [analyticsCalls EXCEPT ![c] = None] /\ UNCHANGED autoRefresh
          /\ analytics' = (IF analyticsCalls[c].step = "answered" THEN analyticsCalls[c].value ELSE analytics)
          /\ analyticsLoading' = FALSE
      BY <1>11 DEF ReceiveAnalytics
    <2>2. analytics' \in 0 .. Cardinality(Counted') BY <1>1, <1>2, <2>1
    <2> QED BY <1>0, <1>2, <2>1, <2>2, RequestsDiffer, CardsMove
  <1>12. UNCHANGED cardVars \/ Mount \/ Poll \/ ManualRefresh \/ ToggleAutoRefresh
         \/ \E c \in Calls : AnswerAnalytics(c) \/ FailAnalytics(c) \/ ReceiveAnalytics(c)
    BY DEF LiveNext, liveVars, OpenStream, BreakStream, OnMessage, AnswerFeed, ReceiveFeed,
       AnswerEvents, ReceiveEvents, FillStore, Publish
  <1> QED BY <1>3, <1>5, <1>6, <1>7, <1>8, <1>9, <1>10, <1>11, <1>12

-----------------------------------------------------------------------------
(* The theorems of the default view.                                       *)

LEMMA FeedStep == LiveIndInv /\ [LiveNext]_liveVars => FeedInv'
  <1> SUFFICES ASSUME LiveIndInv, [LiveNext]_liveVars PROVE FeedInv' OBVIOUS
  <1>0. Grows BY ServerGrows
  <1>1. CASE UNCHANGED feedVars BY <1>0, <1>1, FeedRests DEF LiveIndInv
  <1>2. UNCHANGED feedVars \/ Mount \/ OnMessage \/ AnswerFeed \/ ReceiveFeed
    BY DEF LiveNext, liveVars, OpenStream, BreakStream, Poll, ManualRefresh, ToggleAutoRefresh,
       AnswerEvents, ReceiveEvents, AnswerAnalytics, FailAnalytics, ReceiveAnalytics, FillStore, Publish
  <1> QED BY <1>0, <1>1, <1>2, MountFeed, OnMessageKeepsFeed, AnswerFeedKeeps, ReceiveFeedKeeps

LEMMA RowsStep == LiveIndInv /\ [LiveNext]_liveVars => RowsInv'
  <1> SUFFICES ASSUME LiveIndInv, [LiveNext]_liveVars PROVE RowsInv' OBVIOUS
  <1>0. Grows /\ RowsInv BY ServerGrows DEF LiveIndInv
  <1>1. CASE UNCHANGED tableVars BY <1>0, <1>1, RowsRest
  <1>2. CASE Mount BY <1>0, <1>2, StartRequest DEF Mount
  <1>3. ASSUME NEW c \in Calls, ReceiveAnalytics(c) PROVE RowsInv'
    <2>1. UNCHANGED <<events, tableBrought>>
          /\ (StartEvents(c) \/ UNCHANGED <<eventsCalls, eventsLoading>>)
      BY <1>3 DEF ReceiveAnalytics
    <2>2. CASE StartEvents(c) BY <1>0, <2>1, <2>2, StartRequest
    <2>3. CASE UNCHANGED <<eventsCalls, eventsLoading>> BY <1>1, <2>1, <2>3 DEF tableVars
    <2> QED BY <2>1, <2>2, <2>3
  <1>4. UNCHANGED tableVars \/ Mount \/ OnMessage
        \/ \E c \in Calls : AnswerEvents(c) \/ ReceiveEvents(c) \/ ReceiveAnalytics(c)
    BY DEF LiveNext, liveVars, OpenStream, BreakStream, Poll, ManualRefresh, ToggleAutoRefresh,
       AnswerFeed, ReceiveFeed, AnswerAnalytics, FailAnalytics, FillStore, Publish
  <1> QED BY <1>0, <1>1, <1>2, <1>3, <1>4, OnMessageKeepsRows, AnswerEventsKeeps, ReceiveEventsKeeps

LEMMA LiveIndInvariance == LiveSpec => []LiveIndInv
  <1>1. LiveInit => LiveIndInv BY LiveInvInit
  <1>2. LiveIndInv /\ [LiveNext]_liveVars => LiveIndInv'
    BY ServerStep, FeedStep, RowsStep, CardsStep DEF LiveIndInv
  <1> QED BY <1>1, <1>2, PTL DEF LiveSpec

\* In every state both lists hold at most Cap events, each in one row, and no two with one
\* number unless a snapshot brought both; the feed is in the order in which the page was
\* told; and the table says that it loads only while a request for it is out.
THEOREM LiveInvariance == LiveSpec => []LiveInv
  <1>1. LiveIndInv => LiveInv
    <2> SUFFICES ASSUME LiveIndInv PROVE LiveInv OBVIOUS
    <2>1. /\ Good(recentFeed, Fed) /\ DOMAIN recentFeed = 1 .. Len(recentFeed)
          /\ Good(events, Stored) /\ DOMAIN events = 1 .. Len(events)
      BY LenProperties DEF LiveIndInv, FeedInv, FeedShape, RowsInv, Good
    <2>2. RowsAreUnique
      BY <2>1 DEF LiveIndInv, FeedInv, FeedShape, RowsInv, Good, RowsAreUnique, Unique
    <2>3. LiveTypeOK
      <3>1. Listed(recentFeed) \subseteq Fed /\ Listed(events) \subseteq Stored
        BY <2>1 DEF Listed, Good
      <3> QED BY <2>1, <3>1
        DEF LiveIndInv, ServerInv, FeedInv, FeedShape, RowsInv, CardsInv, Good, LiveTypeOK
    <2>4. FeedIsInOrder BY DEF LiveIndInv, FeedInv
    <2>5. TableLoadingIsTrue
      BY DEF LiveIndInv, RowsInv, TableLoadingIsTrue, TableBody
    <2> QED BY <2>2, <2>3, <2>4, <2>5 DEF LiveInv
  <1> QED BY <1>1, LiveIndInvariance, PTL

\* What the page was told of since its last snapshot, or by it, stays in the feed until Cap
\* other events came after it, however the workers' messages are mixed, repeated or late;
\* and a snapshot lists what was shown when the server answered, unless Cap newer events do.
THEOREM FeedKeepsEventsHolds == LiveSpec => []FeedKeepsEvents
  <1>1. LiveIndInv => FeedKeepsEvents BY DEF LiveIndInv, FeedInv
  <1> QED BY <1>1, LiveIndInvariance, PTL

-----------------------------------------------------------------------------
(* The search view.                                                        *)

CallType == [step : {"idle", "analytics", "asked", "answered", "failed"}, filters : Filter,
             then : {"replace", "append"}, page : 1 .. Pages]

HitType == [filters : Filter, page : 1 .. Pages]

ResponseType == [known : BOOLEAN, items : Seq(HitType), next : 0 .. Pages]

\* The types of everything, the fields of a call included.
TypesOK ==
    /\ url \in Filter /\ nextUrl \in Filter
    /\ debounce \in [armed : BOOLEAN, filters : Filter]
    /\ debounce.armed \/ debounce = NoTimer
    /\ effectCall \in CallType /\ (effectCall.step = "idle" => effectCall = Idle)
    /\ effectCall.step # "analytics"
    /\ runs \in [Runs -> CallType] /\ \A r \in Runs : runs[r].step = "idle" => runs[r] = Idle
    /\ response \in ResponseType /\ (response.known \/ response.items = <<>>)
    /\ searchLoading \in BOOLEAN /\ loadingMore \in BOOLEAN
    /\ raced \in BOOLEAN /\ failed \in BOOLEAN

\* The timer and the effect's search are always about the filters shown.
EffectFollowsUrl ==
    /\ debounce.armed => debounce.filters = url
    /\ effectCall # Idle => effectCall.filters = url

\* A button's search that met nothing is alone and about what is shown; it asks
\* for the page behind the hits there are.
RunIsAlone == \A r \in Runs : runs[r] # Idle /\ ~raced =>
    /\ Active(url) /\ ~debounce.armed /\ effectCall = Idle
    /\ runs[r].filters = url
    /\ runs[r].then = "append" => runs[r].page = Len(response.items) + 1
    /\ \A q \in Runs \ {r} : runs[q] = Idle

\* Nothing of the effect is on the way and nothing met a change of the filters.
Quiet == Active(url) /\ ~debounce.armed /\ effectCall = Idle /\ ~raced

\* Then the hits are those of the filters, in order, the cursor leads behind
\* them, and there are some unless the last search failed.
QuietRows == Quiet =>
    /\ \A i \in 1 .. Len(response.items) : response.items[i] = Hit(url, i)
    /\ response.next \in {0, Len(response.items) + 1}
    /\ failed \/ response.items # <<>>

\* searchLoading covers the effect's search, and nothing else but a search.
LoadingCovers ==
    /\ effectCall # Idle /\ ~raced => searchLoading
    /\ searchLoading => effectCall # Idle \/ Busy

SearchIndInv == TypesOK /\ EffectFollowsUrl /\ RunIsAlone /\ QuietRows /\ LoadingCovers

-----------------------------------------------------------------------------

LEMMA PagesTyped == Pages \in Nat \ {0}
  BY SearchAssumption

LEMMA FiltersTyped ==
    /\ NoFilters \in Filter /\ ~Active(NoFilters)
    /\ Idle \in CallType /\ NoTimer \in [armed : BOOLEAN, filters : Filter]
    /\ NoResponse \in ResponseType /\ NoResponse.items = <<>>
    /\ EmptyResponse \in ResponseType /\ EmptyResponse.known
    /\ EmptyResponse.items = <<>> /\ EmptyResponse.next = 0
    /\ Pages \in Nat \ {0} /\ 1 \in 1 .. Pages
  <1>1. NoFilters \in Filter /\ ~Active(NoFilters) BY DEF NoFilters, Filter, Active
  <1>2. Pages \in Nat \ {0} /\ 1 \in 1 .. Pages BY PagesTyped
  <1>3. Idle \in CallType BY <1>1, <1>2 DEF Idle, CallType
  <1>4. NoTimer \in [armed : BOOLEAN, filters : Filter] BY <1>1 DEF NoTimer
  <1>5. /\ NoResponse \in ResponseType /\ NoResponse.items = <<>>
        /\ EmptyResponse \in ResponseType /\ EmptyResponse.known
        /\ EmptyResponse.items = <<>> /\ EmptyResponse.next = 0
    <2>1. <<>> \in Seq(HitType) /\ 0 \in 0 .. Pages BY <1>2
    <2>2. NoResponse \in ResponseType /\ NoResponse.items = <<>>
      BY <2>1 DEF NoResponse, ResponseType
    <2>3. /\ EmptyResponse \in ResponseType /\ EmptyResponse.known
          /\ EmptyResponse.items = <<>> /\ EmptyResponse.next = 0
      BY <2>1 DEF EmptyResponse, ResponseType
    <2> QED BY <2>2, <2>3
  <1> QED BY <1>1, <1>2, <1>3, <1>4, <1>5

\* What a search finds is one hit, and its cursor leads to the next page.
LEMMA FoundTyped ==
    ASSUME NEW fs \in Filter, NEW n \in 1 .. Pages
    PROVE  /\ Found(fs, n) \in ResponseType /\ Found(fs, n).known
           /\ Found(fs, n).items = <<Hit(fs, n)>> /\ Found(fs, n).next \in {0, n + 1}
  <1>1. Hit(fs, n) \in HitType BY DEF Hit, HitType
  <1>2. (IF n < Pages THEN n + 1 ELSE 0) \in 0 .. Pages BY PagesTyped
  <1>3. <<Hit(fs, n)>> \in Seq(HitType) BY <1>1
  <1>4. /\ Found(fs, n).known /\ Found(fs, n).items = <<Hit(fs, n)>>
        /\ Found(fs, n).next \in {0, n + 1}
    BY DEF Found
  <1>5. Found(fs, n) \in ResponseType BY <1>2, <1>3 DEF Found, ResponseType
  <1> QED BY <1>4, <1>5

\* Appending keeps the hits there are and puts the new one behind them.
LEMMA AppendedTyped ==
    ASSUME TypesOK, NEW fs \in Filter, NEW n \in 1 .. Pages
    PROVE  /\ Appended(Found(fs, n)) \in ResponseType /\ Appended(Found(fs, n)).known
           /\ Appended(Found(fs, n)).items = response.items \o <<Hit(fs, n)>>
           /\ Appended(Found(fs, n)).next \in {0, n + 1}
  <1>1. /\ Found(fs, n) \in ResponseType /\ Found(fs, n).known
        /\ Found(fs, n).items = <<Hit(fs, n)>> /\ Found(fs, n).next \in {0, n + 1}
    BY FoundTyped
  <1>2. response.items \in Seq(HitType) /\ <<Hit(fs, n)>> \in Seq(HitType)
    BY <1>1 DEF TypesOK, ResponseType
  <1>3. response.items \o <<Hit(fs, n)>> \in Seq(HitType) BY <1>2
  <1>4. CASE response.known BY <1>1, <1>3, <1>4 DEF Appended, ResponseType
  <1>5. CASE ~response.known
    <2>1. response.items = <<>> BY <1>5 DEF TypesOK
    <2>2. response.items \o <<Hit(fs, n)>> = <<Hit(fs, n)>> BY <1>2, <2>1
    <2> QED BY <1>1, <1>5, <2>2 DEF Appended
  <1> QED BY <1>4, <1>5

LEMMA SearchIndInvInit == SearchInit => SearchIndInv
  <1> SUFFICES ASSUME SearchInit PROVE SearchIndInv OBVIOUS
  <1> USE DEF SearchInit
  <1>1. url \in Filter
    <2>1. PICK v \in Values : v = CHOOSE u \in Values : TRUE BY SearchAssumption
    <2>2. NoFilters \in Filter /\ [NoFilters EXCEPT !["query"] = v] \in Filter
      BY FiltersTyped DEF Filter
    <2> QED BY <2>1, <2>2
  <1>2. debounce \in [armed : BOOLEAN, filters : Filter] /\ (debounce.armed \/ debounce = NoTimer)
    BY <1>1, FiltersTyped DEF Timer
  <1>3. TypesOK BY <1>1, <1>2, FiltersTyped DEF TypesOK, Idle, NoResponse
  <1>4. EffectFollowsUrl /\ QuietRows /\ LoadingCovers
    BY DEF EffectFollowsUrl, QuietRows, Quiet, LoadingCovers, Timer, NoTimer
  <1>5. RunIsAlone BY DEF RunIsAlone
  <1> QED BY <1>3, <1>4, <1>5 DEF SearchIndInv

-----------------------------------------------------------------------------
(* One lemma per action.                                                   *)

\* A navigation that is only asked for changes nothing that is shown.
LEMMA AskKeepsInv ==
    ASSUME SearchIndInv, nextUrl' \in Filter,
           UNCHANGED <<url, resultVars, debounce, effectCall, runs, raced>>
    PROVE  SearchIndInv'
  BY DEF SearchIndInv, TypesOK, EffectFollowsUrl, RunIsAlone, QuietRows, Quiet, LoadingCovers, Busy,
     resultVars

LEMMA CommitKeepsInv == ASSUME SearchIndInv, CommitUrl PROVE SearchIndInv'
  <1>0. TypesOK /\ EffectFollowsUrl /\ RunIsAlone /\ LoadingCovers BY DEF SearchIndInv
  <1>1. /\ url' = nextUrl /\ UNCHANGED <<nextUrl, loadingMore, failed, runs>>
        /\ debounce' = (IF Active(nextUrl) THEN Timer(nextUrl) ELSE NoTimer)
        /\ effectCall' = Idle
        /\ raced' = (raced \/ Busy)
        /\ \/ effectCall # Idle /\ response' = EmptyResponse /\ searchLoading' = FALSE
           \/ /\ effectCall = Idle /\ response' \in {response, NoResponse}
              /\ UNCHANGED searchLoading
    BY DEF CommitUrl, Busy
  <1>2. nextUrl \in Filter BY <1>0 DEF TypesOK
  <1>3. TypesOK'
    <2>1. /\ debounce' \in [armed : BOOLEAN, filters : Filter]
          /\ debounce'.armed \/ debounce' = NoTimer
      BY <1>1, <1>2, FiltersTyped DEF Timer
    <2>2. response' \in ResponseType /\ (response'.known \/ response'.items = <<>>)
      BY <1>0, <1>1, FiltersTyped DEF TypesOK
    <2>3. effectCall' \in CallType /\ effectCall'.step # "analytics"
      BY <1>1, FiltersTyped DEF Idle
    <2>4. searchLoading' \in BOOLEAN /\ raced' \in BOOLEAN BY <1>0, <1>1 DEF TypesOK, Busy
    <2> QED BY <1>0, <1>1, <1>2, <2>1, <2>2, <2>3, <2>4 DEF TypesOK
  <1>4. EffectFollowsUrl' BY <1>1 DEF EffectFollowsUrl, Timer, NoTimer
  <1>5. RunIsAlone' BY <1>1 DEF RunIsAlone, Busy
  <1>6. QuietRows' BY <1>1 DEF QuietRows, Quiet, Timer, Active
  <1>7. LoadingCovers' BY <1>0, <1>1 DEF LoadingCovers, Busy
  <1> QED BY <1>3, <1>4, <1>5, <1>6, <1>7 DEF SearchIndInv

LEMMA FireKeepsInv == ASSUME SearchIndInv, FireTimer PROVE SearchIndInv'
  <1>0. TypesOK /\ EffectFollowsUrl /\ RunIsAlone BY DEF SearchIndInv
  <1>1. /\ debounce.armed /\ debounce' = NoTimer /\ searchLoading' = TRUE
        /\ effectCall' = Call("asked", debounce.filters, "replace", 1)
        /\ UNCHANGED <<url, nextUrl, response, loadingMore, failed, runs, raced>>
    BY DEF FireTimer, urlVars
  <1>2. /\ effectCall' \in CallType /\ effectCall'.step = "asked"
        /\ effectCall'.filters = url
    BY <1>0, <1>1, FiltersTyped DEF Call, CallType, EffectFollowsUrl, TypesOK
  <1>3. effectCall' # Idle BY <1>2 DEF Idle
  <1>4. TypesOK' BY <1>0, <1>1, <1>2, FiltersTyped DEF TypesOK
  <1>5. EffectFollowsUrl' BY <1>1, <1>2 DEF EffectFollowsUrl, NoTimer
  <1>6. RunIsAlone' BY <1>0, <1>1 DEF RunIsAlone
  <1>7. QuietRows' /\ LoadingCovers' BY <1>1, <1>3 DEF QuietRows, Quiet, LoadingCovers
  <1> QED BY <1>4, <1>5, <1>6, <1>7 DEF SearchIndInv

LEMMA AnswerEffectKeepsInv == ASSUME SearchIndInv, AnswerEffect PROVE SearchIndInv'
  <1>0. TypesOK /\ EffectFollowsUrl /\ RunIsAlone /\ LoadingCovers BY DEF SearchIndInv
  <1>1. effectCall.step = "asked" /\ UNCHANGED <<urlVars, resultVars, debounce, runs, raced>>
    BY DEF AnswerEffect
  <1>2. PICK step \in {"answered", "failed"} : effectCall' = [effectCall EXCEPT !.step = step]
    BY DEF AnswerEffect
  <1>3. effectCall' \in CallType /\ effectCall'.step = step /\ effectCall'.filters = effectCall.filters
    BY <1>0, <1>2 DEF TypesOK, CallType
  <1>4. effectCall # Idle /\ effectCall' # Idle BY <1>1, <1>3 DEF Idle
  <1> USE DEF urlVars, resultVars
  <1>5. TypesOK' BY <1>0, <1>1, <1>3 DEF TypesOK
  <1>6. EffectFollowsUrl' BY <1>0, <1>1, <1>3, <1>4 DEF EffectFollowsUrl
  <1>7. RunIsAlone' BY <1>0, <1>1, <1>4 DEF RunIsAlone
  <1>8. QuietRows' /\ LoadingCovers' BY <1>0, <1>1, <1>4 DEF QuietRows, Quiet, LoadingCovers, Busy
  <1> QED BY <1>5, <1>6, <1>7, <1>8 DEF SearchIndInv

LEMMA ReceiveEffectKeepsInv == ASSUME SearchIndInv, ReceiveEffect PROVE SearchIndInv'
  <1>0. TypesOK /\ EffectFollowsUrl BY DEF SearchIndInv
  <1>1. /\ effectCall.step \in {"answered", "failed"} /\ effectCall' = Idle
        /\ response' = (IF effectCall.step = "answered" THEN Found(effectCall.filters, 1)
                                                        ELSE EmptyResponse)
        /\ failed' = (effectCall.step = "failed") /\ searchLoading' = FALSE
        /\ raced' = Busy
        /\ UNCHANGED <<url, nextUrl, loadingMore, debounce, runs>>
    BY DEF ReceiveEffect, Busy, urlVars
  <1>2. effectCall # Idle BY <1>1 DEF Idle
  <1>3. effectCall.filters = url BY <1>0, <1>2 DEF EffectFollowsUrl
  <1>4. url \in Filter BY <1>0 DEF TypesOK
  <1>5. /\ Found(url, 1) \in ResponseType /\ Found(url, 1).known
        /\ Found(url, 1).items = <<Hit(url, 1)>> /\ Found(url, 1).next \in {0, 2}
    BY <1>4, FiltersTyped, FoundTyped
  <1>6. TypesOK'
    <2>1. response' \in ResponseType /\ (response'.known \/ response'.items = <<>>)
      BY <1>1, <1>3, <1>5, FiltersTyped
    <2>2. effectCall' \in CallType /\ effectCall'.step # "analytics"
      BY <1>1, FiltersTyped DEF Idle
    <2>3. failed' \in BOOLEAN /\ searchLoading' \in BOOLEAN /\ raced' \in BOOLEAN
      BY <1>1 DEF Busy
    <2> QED BY <1>0, <1>1, <2>1, <2>2, <2>3 DEF TypesOK
  <1>7. EffectFollowsUrl' BY <1>0, <1>1 DEF EffectFollowsUrl
  <1>8. RunIsAlone' BY <1>1 DEF RunIsAlone, Busy
  <1>9. QuietRows'
    <2>1. CASE effectCall.step = "answered"
      <3>1. response'.items = <<Hit(url, 1)>> /\ response'.next \in {0, 2}
        BY <1>1, <1>3, <1>5, <2>1
      <3>2. /\ Len(response'.items) = 1 /\ response'.items[1] = Hit(url, 1)
            /\ response'.items # <<>>
        BY <3>1
      <3>3. \A i \in 1 .. Len(response'.items) : response'.items[i] = Hit(url, i)
        BY <3>2
      <3>4. response'.next \in {0, Len(response'.items) + 1} BY <3>1, <3>2
      <3>5. url' = url BY <1>1
      <3> QED BY <3>2, <3>3, <3>4, <3>5 DEF QuietRows
    <2>2. CASE effectCall.step = "failed"
      <3>1. response'.items = <<>> /\ response'.next = 0 /\ failed'
        BY <1>1, <2>2, FiltersTyped
      <3> QED BY <1>1, <3>1 DEF QuietRows
    <2> QED BY <1>1, <2>1, <2>2
  <1>10. LoadingCovers' BY <1>1 DEF LoadingCovers
  <1> QED BY <1>6, <1>7, <1>8, <1>9, <1>10 DEF SearchIndInv

\* A search that goes on, of a button, keeps what it is about.
LEMMA RunGoesOn ==
    ASSUME SearchIndInv, NEW r \in Runs, runs[r].step # "idle",
           NEW step \in {"asked", "answered", "failed"},
           runs' = [runs EXCEPT ![r].step = step],
           searchLoading' \in {searchLoading, TRUE},
           UNCHANGED <<urlVars, response, loadingMore, failed, debounce, effectCall, raced>>
    PROVE  SearchIndInv'
  <1>0. TypesOK /\ EffectFollowsUrl /\ RunIsAlone /\ QuietRows /\ LoadingCovers
    BY DEF SearchIndInv
  <1>1. /\ runs' \in [Runs -> CallType]
        /\ runs'[r].step = step /\ runs'[r].filters = runs[r].filters
        /\ runs'[r].then = runs[r].then /\ runs'[r].page = runs[r].page
        /\ \A q \in Runs \ {r} : runs'[q] = runs[q]
    BY <1>0 DEF TypesOK, CallType
  <1>2. runs[r] # Idle /\ runs'[r] # Idle BY <1>1 DEF Idle
  <1> USE DEF urlVars
  <1>3. TypesOK' BY <1>0, <1>1 DEF TypesOK
  <1>4. EffectFollowsUrl' BY <1>0 DEF EffectFollowsUrl
  <1>5. RunIsAlone'
    <2> SUFFICES ASSUME NEW q \in Runs, runs'[q] # Idle, ~raced'
                 PROVE  /\ Active(url') /\ ~debounce'.armed /\ effectCall' = Idle
                        /\ runs'[q].filters = url'
                        /\ runs'[q].then = "append" => runs'[q].page = Len(response'.items) + 1
                        /\ \A u \in Runs \ {q} : runs'[u] = Idle
      BY DEF RunIsAlone, Active
    <2>1. q = r BY <1>0, <1>1, <1>2 DEF RunIsAlone
    <2> QED BY <1>0, <1>1, <1>2, <2>1 DEF RunIsAlone
  <1>6. QuietRows' BY <1>0 DEF QuietRows, Quiet, Active
  <1>7. LoadingCovers' BY <1>0, <1>2 DEF LoadingCovers, Busy
  <1> QED BY <1>3, <1>4, <1>5, <1>6, <1>7 DEF SearchIndInv

LEMMA AgainKeepsInv ==
    ASSUME SearchIndInv, NEW r \in Runs, SearchAgain(r) \/ AnswerRun(r) PROVE SearchIndInv'
  <1>1. CASE SearchAgain(r)
    BY <1>1, RunGoesOn DEF SearchAgain
  <1>2. CASE AnswerRun(r)
    <2>1. PICK step \in {"answered", "failed"} : runs' = [runs EXCEPT ![r].step = step]
      BY <1>2 DEF AnswerRun
    <2> QED BY <1>2, <2>1, RunGoesOn DEF AnswerRun, resultVars
  <1> QED BY <1>1, <1>2

\* A click starts a search: it is alone unless something is on the way already.
LEMMA ClickKeepsInv ==
    ASSUME SearchIndInv, RefreshSearch \/ LoadMore PROVE SearchIndInv'
  <1>0. TypesOK /\ EffectFollowsUrl /\ RunIsAlone /\ QuietRows /\ LoadingCovers
    BY DEF SearchIndInv
  <1>1. PICK r \in Runs, c \in {Call("analytics", url, "replace", 1),
                                Call("asked", url, "append", response.next)} :
          /\ runs[r] = Idle /\ runs' = [runs EXCEPT ![r] = c]
          /\ c.then = "append" => response.next # 0
    BY DEF RefreshSearch, LoadMore, Call
  <1>2. /\ Active(url) /\ UNCHANGED <<urlVars, response, failed, debounce, effectCall, searchLoading>>
        /\ loadingMore' \in BOOLEAN
        /\ raced' = (raced \/ Busy \/ effectCall # Idle \/ debounce.armed)
    BY <1>0 DEF RefreshSearch, LoadMore, resultVars, TypesOK
  <1>3. /\ c \in CallType /\ c.step # "idle" /\ c.filters = url
        /\ c.then = "append" => c.page = response.next
    <2>1. url \in Filter /\ response.next \in 0 .. Pages BY <1>0 DEF TypesOK, ResponseType
    <2>2. CASE c = Call("analytics", url, "replace", 1)
      BY <2>1, <2>2, FiltersTyped DEF Call, CallType
    <2>3. CASE c = Call("asked", url, "append", response.next)
      <3>1. c.then = "append" /\ c.step = "asked" /\ c.filters = url /\ c.page = response.next
        BY <2>3 DEF Call
      <3>2. response.next \in 1 .. Pages BY <1>1, <2>1, <3>1, PagesTyped
      <3>3. c \in CallType BY <2>1, <2>3, <3>2 DEF Call, CallType
      <3> QED BY <3>1, <3>3
    <2> QED BY <2>2, <2>3
  <1>4. /\ runs' \in [Runs -> CallType] /\ runs'[r] = c
        /\ \A q \in Runs \ {r} : runs'[q] = runs[q]
    BY <1>0, <1>1, <1>3 DEF TypesOK
  <1>5. c # Idle BY <1>3 DEF Idle
  <1> USE DEF urlVars
  <1>6. TypesOK' BY <1>0, <1>2, <1>3, <1>4 DEF TypesOK, Busy
  <1>7. EffectFollowsUrl' BY <1>0, <1>2 DEF EffectFollowsUrl
  <1>8. RunIsAlone'
    <2> SUFFICES ASSUME NEW q \in Runs, runs'[q] # Idle, ~raced'
                 PROVE  /\ Active(url') /\ ~debounce'.armed /\ effectCall' = Idle
                        /\ runs'[q].filters = url'
                        /\ runs'[q].then = "append" => runs'[q].page = Len(response'.items) + 1
                        /\ \A u \in Runs \ {q} : runs'[u] = Idle
      BY DEF RunIsAlone, Active
    <2>1. Quiet /\ ~Busy BY <1>2 DEF Quiet
    <2>2. q = r /\ \A u \in Runs \ {r} : runs'[u] = Idle BY <1>4, <2>1 DEF Busy
    <2>3. c.then = "append" => c.page = Len(response.items) + 1
      BY <1>0, <1>1, <1>3, <2>1 DEF QuietRows
    <2> QED BY <1>2, <1>3, <1>4, <2>1, <2>2, <2>3 DEF Quiet
  <1>9. QuietRows' BY <1>0, <1>2 DEF QuietRows, Quiet, Active
  <1>10. LoadingCovers' BY <1>0, <1>2, <1>4, <1>5 DEF LoadingCovers, Busy
  <1> QED BY <1>6, <1>7, <1>8, <1>9, <1>10 DEF SearchIndInv

LEMMA ReceiveRunKeepsInv ==
    ASSUME SearchIndInv, NEW r \in Runs, ReceiveRun(r) PROVE SearchIndInv'
  <1>0. TypesOK /\ EffectFollowsUrl /\ RunIsAlone /\ QuietRows /\ LoadingCovers
    BY DEF SearchIndInv
  <1> DEFINE run == runs[r]
  <1>1. /\ run.step \in {"answered", "failed"} /\ runs' = [runs EXCEPT ![r] = Idle]
        /\ response' =
             IF run.step = "failed"
             THEN IF run.then = "append" THEN response ELSE EmptyResponse
             ELSE IF run.then = "append" THEN Appended(Found(run.filters, run.page))
                                         ELSE Found(run.filters, 1)
        /\ failed' = (run.step = "failed")
        /\ searchLoading' = FALSE /\ loadingMore' = FALSE
        /\ UNCHANGED <<url, nextUrl, debounce, effectCall, raced>>
    BY DEF ReceiveRun, urlVars
  <1>2. run \in CallType /\ run # Idle BY <1>0, <1>1 DEF TypesOK, Idle
  <1>3. run.filters \in Filter /\ run.page \in 1 .. Pages BY <1>2 DEF CallType
  <1>4. runs'[r] = Idle /\ \A q \in Runs \ {r} : runs'[q] = runs[q] BY <1>0, <1>1 DEF TypesOK
  <1>5. response' \in ResponseType /\ (response'.known \/ response'.items = <<>>)
    BY <1>0, <1>1, <1>3, FiltersTyped, FoundTyped, AppendedTyped DEF TypesOK
  <1>6. TypesOK'
    <2>1. runs' \in [Runs -> CallType] /\ \A q \in Runs : runs'[q].step = "idle" => runs'[q] = Idle
      BY <1>0, <1>1, <1>4, FiltersTyped DEF TypesOK
    <2> QED BY <1>0, <1>1, <1>5, <2>1 DEF TypesOK
  <1>7. EffectFollowsUrl' BY <1>0, <1>1 DEF EffectFollowsUrl
  <1>8. ASSUME ~raced
        PROVE  /\ Quiet /\ run.filters = url
               /\ run.then = "append" => run.page = Len(response.items) + 1
               /\ \A q \in Runs : runs'[q] = Idle
    BY <1>0, <1>2, <1>4, <1>8 DEF RunIsAlone, Quiet
  <1>9. RunIsAlone' BY <1>1, <1>8 DEF RunIsAlone
  <1>10. LoadingCovers' BY <1>1, <1>8 DEF LoadingCovers, Quiet
  <1>11. QuietRows'
    <2> SUFFICES ASSUME ~raced
                 PROVE  /\ \A i \in 1 .. Len(response'.items) : response'.items[i] = Hit(url, i)
                        /\ response'.next \in {0, Len(response'.items) + 1}
                        /\ failed' \/ response'.items # <<>>
      BY <1>1 DEF QuietRows, Quiet
    <2>0. /\ \A i \in 1 .. Len(response.items) : response.items[i] = Hit(url, i)
          /\ response.next \in {0, Len(response.items) + 1}
      BY <1>0, <1>8 DEF QuietRows
    <2>1. CASE run.step = "failed"
      <3>1. CASE run.then = "append" BY <1>1, <2>0, <2>1, <3>1
      <3>2. CASE run.then # "append"
        <4>1. response' = EmptyResponse /\ failed' BY <1>1, <2>1, <3>2
        <4>2. response'.items = <<>> /\ response'.next = 0 BY <4>1, FiltersTyped
        <4>3. Len(response'.items) = 0 BY <4>2
        <4> QED BY <4>1, <4>2, <4>3
      <3> QED BY <3>1, <3>2
    <2>2. CASE run.step # "failed" /\ run.then # "append"
      <3>1. response'.items = <<Hit(url, 1)>> /\ response'.next \in {0, 2}
        BY <1>1, <1>3, <1>8, <2>2, FiltersTyped, FoundTyped
      <3>2. /\ Len(response'.items) = 1 /\ response'.items[1] = Hit(url, 1)
            /\ response'.items # <<>>
        BY <3>1
      <3> QED BY <3>1, <3>2
    <2>3. CASE run.step # "failed" /\ run.then = "append"
      <3> DEFINE n == Len(response.items)
                 h == Hit(url, n + 1)
      <3>1. /\ response'.items = response.items \o <<h>>
            /\ response'.next \in {0, n + 2}
        BY <1>0, <1>1, <1>3, <1>8, <2>3, AppendedTyped
      <3>2. response.items \in Seq(HitType) /\ n \in Nat BY <1>0 DEF TypesOK, ResponseType
      <3>3. /\ Len(response'.items) = n + 1 /\ response'.items[n + 1] = h
            /\ \A i \in 1 .. n : response'.items[i] = response.items[i]
        BY <3>1, <3>2
      <3>4. response'.items # <<>> BY <3>2, <3>3
      <3> QED BY <2>0, <3>1, <3>2, <3>3, <3>4
    <2> QED BY <2>1, <2>2, <2>3
  <1> QED BY <1>6, <1>7, <1>9, <1>10, <1>11 DEF SearchIndInv

-----------------------------------------------------------------------------

LEMMA SearchIndInvStep == SearchIndInv /\ [SearchNext]_searchVars => SearchIndInv'
  <1> SUFFICES ASSUME SearchIndInv, [SearchNext]_searchVars PROVE SearchIndInv' OBVIOUS
  <1>0. url \in Filter /\ NoFilters \in Filter BY FiltersTyped DEF SearchIndInv, TypesOK
  <1>1. ASSUME NEW f \in Fields, NEW v \in Values \cup {""}, UpdateFilters(f, v)
        PROVE  SearchIndInv'
    <2>1. nextUrl' \in Filter BY <1>0, <1>1 DEF UpdateFilters, Filter
    <2> QED BY <1>1, <2>1, AskKeepsInv DEF UpdateFilters
  <1>2. CASE ClearFilters BY <1>0, <1>2, AskKeepsInv DEF ClearFilters
  <1>3. ASSUME NEW v \in Values \cup {""}, FollowDialog(v) PROVE SearchIndInv'
    <2>1. nextUrl' \in Filter BY <1>0, <1>3 DEF FollowDialog, Filter
    <2> QED BY <1>3, <2>1, AskKeepsInv DEF FollowDialog
  <1>4. CASE UNCHANGED searchVars
    <2>1. nextUrl' \in Filter BY <1>4 DEF searchVars, urlVars, SearchIndInv, TypesOK
    <2> QED BY <1>4, <2>1, AskKeepsInv DEF searchVars, urlVars
  <1> QED BY <1>1, <1>2, <1>3, <1>4, CommitKeepsInv, FireKeepsInv, AnswerEffectKeepsInv,
         ReceiveEffectKeepsInv, ClickKeepsInv, AgainKeepsInv, ReceiveRunKeepsInv DEF SearchNext

LEMMA SearchIndInvariance == SearchSpec => []SearchIndInv
  <1> QED BY SearchIndInvInit, SearchIndInvStep, PTL DEF SearchSpec

\* Whatever is typed, clicked, aborted or failing: the types hold, and the texts
\* "Loading events..." and "No events matched the current filters" are true.
THEOREM SearchInvariance == SearchSpec => []SearchInv
  <1>1. SearchIndInv => SearchInv
    <2> SUFFICES ASSUME SearchIndInv PROVE SearchInv OBVIOUS
    <2>0. TypesOK /\ QuietRows /\ LoadingCovers BY DEF SearchIndInv
    <2>1. SearchTypeOK
      <3>1. debounce \in {NoTimer} \cup {Timer(fs) : fs \in Filter}
        <4>1. CASE debounce.armed
          <5>1. debounce = Timer(debounce.filters) BY <2>0, <4>1 DEF TypesOK, Timer
          <5>2. debounce.filters \in Filter BY <2>0 DEF TypesOK
          <5> QED BY <5>1, <5>2
        <4> QED BY <2>0, <4>1 DEF TypesOK
      <3>2. /\ effectCall.step \in {"idle", "asked", "answered", "failed"}
            /\ \A r \in Runs :
                  runs[r].step \in {"idle", "analytics", "asked", "answered", "failed"}
        BY <2>0 DEF TypesOK, CallType
      <3>3. \A i \in DOMAIN response.items : response.items[i] \in HitType
        <4>1. response.items \in Seq(HitType) BY <2>0 DEF TypesOK, ResponseType
        <4> QED BY <4>1
      <3>4. response.known \in BOOLEAN BY <2>0 DEF TypesOK, ResponseType
      <3> QED BY <2>0, <3>1, <3>2, <3>3, <3>4 DEF SearchTypeOK, TypesOK, HitType
    <2>2. NoMatchIsExplained
      BY <2>0 DEF NoMatchIsExplained, Body, QuietRows, Quiet, LoadingCovers
    <2>3. SearchLoadingIsTrue BY <2>0 DEF SearchLoadingIsTrue, LoadingCovers, Busy
    <2> QED BY <2>1, <2>2, <2>3 DEF SearchInv
  <1> QED BY <1>1, SearchIndInvariance, PTL

\* The table shows the hits of the filters it shows, in order, none missing and
\* none twice, unless a button's search met a change of the filters.
THEOREM RowsBelongToFiltersHolds == SearchSpec => []RowsBelongToFilters
  <1>1. SearchIndInv => RowsBelongToFilters
    <2> SUFFICES ASSUME SearchIndInv, Quiet
                 PROVE  response.items = [i \in 1 .. Len(response.items) |-> Hit(url, i)]
      BY DEF RowsBelongToFilters, Quiet
    <2>1. response.items \in Seq(HitType) BY DEF SearchIndInv, TypesOK, ResponseType
    <2>2. \A i \in 1 .. Len(response.items) : response.items[i] = Hit(url, i)
      BY DEF SearchIndInv, QuietRows
    <2>3. response.items = [i \in 1 .. Len(response.items) |-> response.items[i]] BY <2>1
    <2> QED BY <2>2, <2>3
  <1> QED BY <1>1, SearchIndInvariance, PTL

-----------------------------------------------------------------------------
(* The search dialog.                                                      *)

\* A timer or a fetch belongs to an open dialog with a query, and a dialog where
\* nothing is on the way holds the answer, unless the last search went wrong.
DialogShape ==
    /\ dialogTimer \/ dialogCall # "none" => dialogOpen /\ query # ""
    /\ dialogOpen /\ SearchIsQuiet /\ ~unfinished /\ ~refused => results = Hits[query]
    /\ dialogLoading => dialogCall # "none" \/ unfinished

DialogIndInv == DialogTypeOK /\ DialogShape

LEMMA DialogIndInvInit == DialogInit => DialogIndInv
  <1> SUFFICES ASSUME DialogInit PROVE DialogIndInv OBVIOUS
  <1>1. results \in {Hits[q] : q \in Queries} BY DialogAssumption DEF DialogInit
  <1> QED BY <1>1, DialogAssumption DEF DialogInit, DialogIndInv, DialogTypeOK, DialogShape

\* Whatever runs the effect, opening, closing, typing or choosing, it leaves the
\* invariant, if the query and the router's target keep their types.
LEMMA EffectKeepsInv ==
    ASSUME DialogIndInv, RunEffect, query' \in Queries, dialogOpen' \in BOOLEAN,
           pushed' \in {"none", "dashboard"} \cup {IdText[d] : d \in DOMAIN IdText}
    PROVE  DialogIndInv'
  <1>0. DialogTypeOK /\ DialogShape BY DEF DialogIndInv
  <1>1. /\ dialogTimer' = (dialogOpen' /\ query' # "") /\ dialogCall' = "none"
        /\ refused' = refused
        /\ \/ /\ dialogOpen' /\ query' = ""
              /\ results' = {} /\ dialogLoading' = FALSE /\ unfinished' = FALSE
           \/ /\ ~(dialogOpen' /\ query' = "")
              /\ unfinished' = (unfinished \/ dialogCall # "none")
              /\ results' = results /\ dialogLoading' = dialogLoading
    BY DEF RunEffect
  <1>2. {} = Hits[""] /\ "" \in Queries BY DialogAssumption
  <1>3. results' \in {Hits[q] : q \in Queries} BY <1>0, <1>1, <1>2 DEF DialogTypeOK
  <1>4. DialogTypeOK'
    <2>1. /\ dialogTimer' \in BOOLEAN /\ unfinished' \in BOOLEAN /\ dialogLoading' \in BOOLEAN
          /\ refused' \in BOOLEAN
      BY <1>0, <1>1 DEF DialogTypeOK
    <2> QED BY <1>1, <1>3, <2>1 DEF DialogTypeOK
  <1>5. DialogShape'
    <2>1. (dialogTimer \/ dialogCall # "none" => dialogOpen /\ query # "")' BY <1>1
    <2>2. (dialogLoading => dialogCall # "none" \/ unfinished)'
      <3>1. CASE dialogOpen' /\ query' = "" BY <1>1, <3>1
      <3>2. CASE ~(dialogOpen' /\ query' = "") BY <1>0, <1>1, <3>2 DEF DialogShape
      <3> QED BY <3>1, <3>2
    <2>3. ASSUME dialogOpen', SearchIsQuiet' PROVE (results = Hits[query])'
      <3>1. ~dialogTimer' BY <2>3 DEF SearchIsQuiet
      <3>2. query' = "" BY <1>1, <2>3, <3>1
      <3>3. results' = {} BY <1>1, <2>3, <3>2
      <3> QED BY <1>2, <3>2, <3>3
    <2> QED BY <2>1, <2>2, <2>3 DEF DialogShape
  <1> QED BY <1>4, <1>5 DEF DialogIndInv

LEMMA ChooseKeepsInv ==
    ASSUME DialogIndInv, NEW item \in Visible, Choose(item) PROVE DialogIndInv'
  <1>0. DialogTypeOK BY DEF DialogIndInv
  <1>1. item = NavigationItem \/ item \in results BY DEF Visible, Items
  <1>2. pushed' \in {"none", "dashboard"} \cup {IdText[d] : d \in DOMAIN IdText}
    <2>1. pushed' = IF item = NavigationItem THEN "dashboard" ELSE IdText[item] BY DEF Choose
    <2>2. PICK q \in Queries : results = Hits[q] BY <1>0 DEF DialogTypeOK
    <2>3. item = NavigationItem \/ item \in DOMAIN IdText BY <1>1, <2>2, DialogAssumption
    <2> QED BY <2>1, <2>3
  <1> QED BY <1>0, <1>2, EffectKeepsInv DEF Choose, DialogTypeOK

\* The search itself: the timer, the answer and what comes of it.
LEMMA SearchKeepsInv ==
    ASSUME DialogIndInv, FireDialogTimer \/ AnswerDialog \/ ReceiveDialog \/ ThrowDialog
    PROVE  DialogIndInv'
  <1>0. DialogTypeOK /\ DialogShape BY DEF DialogIndInv
  <1>1. CASE FireDialogTimer
    BY <1>0, <1>1 DEF FireDialogTimer, DialogIndInv, DialogTypeOK, DialogShape, SearchIsQuiet
  <1>2. CASE AnswerDialog
    BY <1>0, <1>2 DEF AnswerDialog, shownVars, DialogIndInv, DialogTypeOK, DialogShape, SearchIsQuiet
  <1>3. CASE ReceiveDialog
    <2>1. /\ dialogCall' = "none" /\ dialogLoading' = FALSE
          /\ refused' = (dialogCall = "refused")
          /\ results' = (IF dialogCall = "answered" THEN Hits[query] ELSE {})
          /\ dialogCall \in {"answered", "refused"}
          /\ UNCHANGED <<dialogOpen, query, pushed, dialogTimer, unfinished>>
      BY <1>3 DEF ReceiveDialog
    <2>2. results' \in {Hits[q] : q \in Queries}
      BY <1>0, <2>1, DialogAssumption DEF DialogTypeOK
    <2>3. DialogTypeOK' BY <1>0, <2>1, <2>2 DEF DialogTypeOK
    <2>4. DialogShape' BY <1>0, <2>1 DEF DialogShape, SearchIsQuiet
    <2> QED BY <2>3, <2>4 DEF DialogIndInv
  <1>4. CASE ThrowDialog
    BY <1>0, <1>4 DEF ThrowDialog, DialogIndInv, DialogTypeOK, DialogShape, SearchIsQuiet
  <1> QED BY <1>1, <1>2, <1>3, <1>4

LEMMA DialogIndInvStep == DialogIndInv /\ [DialogNext]_dialogVars => DialogIndInv'
  <1> SUFFICES ASSUME DialogIndInv, [DialogNext]_dialogVars PROVE DialogIndInv' OBVIOUS
  <1>0. DialogTypeOK BY DEF DialogIndInv
  <1>1. CASE \E value \in BOOLEAN : SetOpen(value)
    BY <1>0, <1>1, EffectKeepsInv DEF SetOpen, DialogTypeOK
  <1>2. CASE \E q \in Queries : Type(q)
    BY <1>0, <1>2, EffectKeepsInv DEF Type, DialogTypeOK
  <1>3. CASE UNCHANGED dialogVars
    BY <1>0, <1>3 DEF dialogVars, effectVars, shownVars, DialogIndInv, DialogTypeOK, DialogShape,
       SearchIsQuiet
  <1> QED BY <1>1, <1>2, <1>3, ChooseKeepsInv, SearchKeepsInv DEF DialogNext

\* Once its search is over an open dialog lists the hits of its own query, however
\* often it was closed, opened and typed into before; and it says that it searches
\* only while it does, or after a search that threw.
THEOREM DialogInvariance == DialogSpec => []DialogInv
  <1>1. DialogIndInv => DialogInv
    <2> SUFFICES ASSUME DialogIndInv PROVE DialogInv OBVIOUS
    <2>0. DialogTypeOK /\ DialogShape BY DEF DialogIndInv
    <2>1. ListIsOfTheQuery
      <3> SUFFICES ASSUME dialogOpen, SearchIsQuiet, ~unfinished, ~refused
                   PROVE  Visible \ {NavigationItem} = Hits[query] \cap Matching[query]
        BY DEF ListIsOfTheQuery
      <3>1. results = Hits[query] /\ query \in Queries BY <2>0 DEF DialogShape, DialogTypeOK
      <3>2. CASE query = "" BY <3>1, <3>2, DialogAssumption DEF Visible, Items
      <3>3. CASE query # "" BY <3>1, <3>3, DialogAssumption DEF Visible, Items
      <3> QED BY <3>2, <3>3
    <2>2. SearchingIsTrue BY <2>0 DEF SearchingIsTrue, DialogShape
    <2> QED BY <2>0, <2>1, <2>2 DEF DialogInv
  <1> QED BY <1>1, DialogIndInvInit, DialogIndInvStep, PTL DEF DialogSpec
=============================================================================
