---------------------------- MODULE WidgetProofs ----------------------------
(***************************************************************************)
(* Proofs about the parts of the frontend that share nothing, for any      *)
(* inputs and bounds: what the forms say and let through; that the table   *)
(* never ends on a page without rows or with a column out of reach; and    *)
(* that the charts' tooltips name their points and the bars add up.        *)
(***************************************************************************)
EXTENDS AuthForms, DataTable, Charts, SetLemmas, SequenceTheorems

-----------------------------------------------------------------------------
(* The login and the register form.                                        *)

LoginSet    == {"email", "password", "remember"}
RegisterSet == {"email", "password", "confirmPassword"}

LEMMA FieldsOfForm ==
    ASSUME form \in {"login", "register"}
    PROVE  FieldSet = IF form = "login" THEN LoginSet ELSE RegisterSet
  <1>1. \A a, b, c : {<<a, b, c>>[i] : i \in DOMAIN <<a, b, c>>} = {a, b, c}
    <2> SUFFICES ASSUME NEW a, NEW b, NEW c PROVE {<<a, b, c>>[i] : i \in DOMAIN <<a, b, c>>} = {a, b, c}
      OBVIOUS
    <2>1. DOMAIN <<a, b, c>> = {1, 2, 3} OBVIOUS
    <2>2. <<a, b, c>>[1] = a /\ <<a, b, c>>[2] = b /\ <<a, b, c>>[3] = c OBVIOUS
    <2> QED BY <2>1, <2>2
  <1>2. CASE form = "login" BY <1>1, <1>2 DEF FieldSet, Fields, LoginSet
  <1>3. CASE form # "login" BY <1>1, <1>3 DEF FieldSet, Fields, RegisterSet
  <1> QED BY <1>2, <1>3

\* The types as they are used: of the functions of the fields, too.
FormTyped ==
    /\ form \in {"login", "register"} /\ isSubmitted \in BOOLEAN /\ outdated \in BOOLEAN
    /\ DOMAIN values = FieldSet /\ DOMAIN errors = FieldSet
    /\ \A f \in FieldSet : values[f] \in Inputs(f)

Message == {"", "invalid email", "too short", "no match"}

\* What was let through is a valid value of every field.
FormIndInv ==
    /\ FormTyped /\ \A f \in FieldSet : errors[f] \in Message
    /\ MessagesAreCurrent /\ SubmittedIsValid

LEMMA ErrorsAreMessages ==
    \A vs : \A f \in FieldSet : Resolve(vs)[f] \in Message
  BY DEF Resolve, LoginError, RegisterError, Message

LEMMA FormIndInvInit == FormInit => FormIndInv
  <1> SUFFICES ASSUME FormInit PROVE FormIndInv OBVIOUS
  <1>1. FormTyped BY InputAssumption, FieldsOfForm DEF FormInit, FormTyped, Inputs, LoginSet, RegisterSet
  <1>2. \A f \in FieldSet : errors[f] = "" BY DEF FormInit
  <1>3. MessagesAreCurrent BY <1>2 DEF FormInit, MessagesAreCurrent, Item
  <1>4. SubmittedIsValid BY DEF FormInit, SubmittedIsValid
  <1> QED BY <1>1, <1>2, <1>3, <1>4 DEF FormIndInv, Message

\* What a field is told depends on its own value; only the second password is
\* compared with the first.
LEMMA ErrorDependsOn ==
    ASSUME form \in {"login", "register"}, NEW vs, NEW ws, NEW f \in FieldSet, vs[f] = ws[f],
           f = "confirmPassword" => vs["password"] = ws["password"]
    PROVE  Resolve(vs)[f] = Resolve(ws)[f]
  BY DEF Resolve, LoginError, RegisterError

LEMMA ChangeKeeps ==
    ASSUME NEW f \in FieldSet, NEW v \in Inputs(f)
    PROVE  FormIndInv /\ Change(f, v) => FormIndInv'
  <1> SUFFICES ASSUME FormIndInv, Change(f, v) PROVE FormIndInv' OBVIOUS
  <1>1. /\ values' = [values EXCEPT ![f] = v]
        /\ errors' = IF isSubmitted THEN [errors EXCEPT ![f] = Resolve(values')[f]] ELSE errors
        /\ outdated' = CASE f = "password" /\ form = "register" -> isSubmitted
                         [] f = "confirmPassword"               -> FALSE
                         [] OTHER                               -> outdated
        /\ UNCHANGED <<form, isSubmitted, submits, toast>>
    BY DEF Change
  <1>2. FormTyped BY DEF FormIndInv
  <1>3. FieldSet' = FieldSet /\ \A g : Inputs(g)' = Inputs(g) BY <1>1 DEF FieldSet, Fields, Inputs
  <1>4. \A vs : \A g \in FieldSet : Resolve(vs)[g] \in Message
    BY ErrorsAreMessages
  <1>5. values'[f] = v /\ \A g \in FieldSet \ {f} : values'[g] = values[g] BY <1>1, <1>2 DEF FormTyped
  <1>6. outdated' \in BOOLEAN BY <1>1, <1>2 DEF FormTyped
  <1>7. DOMAIN values' = FieldSet /\ DOMAIN errors' = FieldSet BY <1>1, <1>2 DEF FormTyped
  <1>8. FormTyped' BY <1>1, <1>2, <1>3, <1>5, <1>6, <1>7 DEF FormTyped, Inputs
  <1>9. \A g \in FieldSet : errors'[g] \in Message
    BY <1>1, <1>2, <1>4 DEF FormTyped, FormIndInv
  <1>10. ASSUME NEW g \in FieldSet, isSubmitted
         PROVE  errors'[g] = Resolve(values')[g] \/ (g = "confirmPassword" /\ outdated')
    <2>1. errors[g] = Resolve(values)[g] \/ (g = "confirmPassword" /\ outdated)
      BY <1>10 DEF FormIndInv, MessagesAreCurrent, Item
    <2>2. CASE g = f BY <1>1, <1>2, <1>10, <2>2 DEF FormTyped
    <2>3. CASE g # f
      <3>1. errors'[g] = errors[g] /\ values'[g] = values[g] BY <1>1, <1>2, <1>5, <1>10, <2>3 DEF FormTyped
      <3>2. CASE g = "confirmPassword"
        <4>1. form = "register" BY <1>2, <3>2, FieldsOfForm DEF FormTyped, LoginSet
        <4>2. CASE f = "password" BY <1>1, <1>10, <3>2, <4>1, <4>2
        <4>3. CASE f # "password"
          <5>1. outdated' = outdated BY <1>1, <2>3, <3>2, <4>3
          <5>2. "password" \in FieldSet BY <4>1, FieldsOfForm, <1>2 DEF FormTyped, RegisterSet
          <5>3. values'["password"] = values["password"] BY <1>5, <4>3, <5>2
          <5>4. Resolve(values')[g] = Resolve(values)[g]
            BY <1>2, <3>1, <5>3, ErrorDependsOn DEF FormTyped
          <5> QED BY <2>1, <3>1, <5>1, <5>4
        <4> QED BY <4>2, <4>3
      <3>3. CASE g # "confirmPassword"
        <4>1. Resolve(values')[g] = Resolve(values)[g] BY <1>2, <3>1, <3>3, ErrorDependsOn DEF FormTyped
        <4> QED BY <2>1, <3>1, <3>3, <4>1
      <3> QED BY <3>2, <3>3
    <2> QED BY <2>2, <2>3
  <1>11. MessagesAreCurrent'
    <2>1. CASE isSubmitted
      <3>1. (\A g \in FieldSet : errors[g] = Resolve(values)[g] \/ (g = "confirmPassword" /\ outdated))'
        BY <1>1, <1>3, <1>10, <2>1 DEF Resolve
      <3> QED BY <1>1, <2>1, <3>1 DEF MessagesAreCurrent, Item
    <2>2. CASE ~isSubmitted
      BY <1>1, <1>3, <2>2 DEF FormIndInv, MessagesAreCurrent, Item
    <2> QED BY <2>1, <2>2
  <1>12. SubmittedIsValid' BY <1>1, <1>3 DEF FormIndInv, SubmittedIsValid, Valid, Resolve
  <1> QED BY <1>3, <1>8, <1>9, <1>11, <1>12 DEF FormIndInv

LEMMA SubmitKeeps == FormIndInv /\ Submit => FormIndInv'
  <1> SUFFICES ASSUME FormIndInv, Submit PROVE FormIndInv' OBVIOUS
  <1>1. /\ isSubmitted' = TRUE /\ errors' = Resolve(values) /\ outdated' = FALSE
        /\ toast' = IF Valid(values) THEN [of |-> "values", values |-> values] ELSE toast
        /\ UNCHANGED <<form, values>>
    BY DEF Submit
  <1>2. FormTyped BY DEF FormIndInv
  <1>3. FieldSet' = FieldSet /\ \A g : Inputs(g)' = Inputs(g) BY <1>1 DEF FieldSet, Fields, Inputs
  <1>4. DOMAIN errors' = FieldSet BY <1>1 DEF Resolve
  <1>5. FormTyped' BY <1>1, <1>2, <1>3, <1>4 DEF FormTyped, Inputs
  <1>6. \A g \in FieldSet : errors'[g] \in Message BY <1>1, ErrorsAreMessages
  <1>7. MessagesAreCurrent' BY <1>1, <1>3 DEF MessagesAreCurrent, Item, Resolve
  <1>8. SubmittedIsValid'
    <2>1. CASE Valid(values)
      <3>1. toast'.values = values BY <1>1, <2>1
      <3> QED BY <1>1, <1>3, <2>1, <3>1 DEF SubmittedIsValid, Valid, Resolve
    <2>2. CASE ~Valid(values)
      BY <1>1, <1>3, <2>2 DEF FormIndInv, SubmittedIsValid, Valid, Resolve
    <2> QED BY <2>1, <2>2
  <1> QED BY <1>3, <1>5, <1>6, <1>7, <1>8 DEF FormIndInv

\* Once a form was submitted every message is about the values that are there, but
\* for the one that compares the passwords, and nothing the schema rejects is let
\* through, whatever is typed and however often the form is submitted.
THEOREM FormInvariance == FormSpec => []FormInv
  <1>1. FormIndInv /\ [FormNext]_formVars => FormIndInv'
    <2> SUFFICES ASSUME FormIndInv, [FormNext]_formVars PROVE FormIndInv' OBVIOUS
    <2>1. CASE Submit BY <2>1, SubmitKeeps
    <2>2. ASSUME NEW f \in FieldSet, NEW v \in Inputs(f), Change(f, v) PROVE FormIndInv'
      BY <2>2, ChangeKeeps
    <2>3. CASE UNCHANGED formVars
      <3>1. UNCHANGED <<form, values, errors, isSubmitted, toast, outdated>> BY <2>3 DEF formVars
      <3>2. FieldSet' = FieldSet BY <3>1 DEF FieldSet, Fields
      <3>3. FormTyped' BY <3>1, <3>2 DEF FormIndInv, FormTyped, Inputs
      <3>4. MessagesAreCurrent' BY <3>1, <3>2 DEF FormIndInv, MessagesAreCurrent, Item, Resolve
      <3>5. SubmittedIsValid' BY <3>1, <3>2 DEF FormIndInv, SubmittedIsValid, Valid, Resolve
      <3>6. \A f \in FieldSet' : errors'[f] \in Message BY <3>1, <3>2 DEF FormIndInv
      <3> QED BY <3>3, <3>4, <3>5, <3>6 DEF FormIndInv
    <2> QED BY <2>1, <2>2, <2>3 DEF FormNext
  <1>2. FormIndInv => FormInv
    BY DEF FormIndInv, FormTyped, FormInv, FormTypeOK, Message
  <1> QED BY <1>1, <1>2, FormIndInvInit, PTL DEF FormSpec

-----------------------------------------------------------------------------
(* The rows of the table.                                                  *)

LEMMA Quotient ==
    ASSUME NEW a \in Nat, NEW n \in Nat \ {0}
    PROVE  a \div n \in Nat /\ (a \div n) * n <= a /\ a < (a \div n) * n + n
  OBVIOUS

LEMMA TimesKeepsOrder ==
    ASSUME NEW a \in Nat, NEW b \in Nat, NEW n \in Nat, a <= b
    PROVE  a * n \in Nat /\ b * n \in Nat /\ a * n <= b * n
  OBVIOUS

LEMMA OneLessTimes ==
    ASSUME NEW a \in Nat, NEW n \in Nat
    PROVE  (a - 1) * n = a * n - n /\ (a + 1) * n = a * n + n
  OBVIOUS

LEMMA NothingTimes == ASSUME NEW n \in Nat PROVE 0 * n = 0
  OBVIOUS

\* The rows are those of the data, each once.
DataOK ==
    /\ data \in Seq(RowIds) /\ Len(data) = Cardinality(RowIds) /\ Rows(data) = RowIds
    /\ \A i, j \in 1 .. Len(data) : data[i] = data[j] => i = j

LEMMA DataTyped ==
    ASSUME DataOK
    PROVE  /\ Len(data) \in Nat /\ DOMAIN data = 1 .. Len(data)
           /\ \A i \in 1 .. Len(data) : data[i] \in RowIds /\ NameOf[data[i]] \in Int
  BY TableAssumption, LenProperties, ElementOfSeq DEF DataOK

\* The order of the rows is strict and total.
LEMMA BeforeIsAnOrder ==
    ASSUME DataOK, sorting \in {"none", "asc", "desc"},
           NEW i \in 1 .. Len(data), NEW j \in 1 .. Len(data), NEW k \in 1 .. Len(data)
    PROVE  /\ ~Before(i, i)
           /\ i # j => Before(i, j) \/ Before(j, i)
           /\ Before(i, j) /\ Before(j, k) => Before(i, k)
  <1> DEFINE a == NameOf[data[i]]
             b == NameOf[data[j]]
             c == NameOf[data[k]]
  <1>1. a \in Int /\ b \in Int /\ c \in Int /\ i \in Nat /\ j \in Nat /\ k \in Nat BY DataTyped
  <1>2. /\ Before(i, i) <=> (sorting = "asc" /\ a < a) \/ (sorting = "desc" /\ a > a)
                            \/ ((sorting = "none" \/ a = a) /\ i < i)
        /\ Before(i, j) <=> (sorting = "asc" /\ a < b) \/ (sorting = "desc" /\ a > b)
                            \/ ((sorting = "none" \/ a = b) /\ i < j)
        /\ Before(j, i) <=> (sorting = "asc" /\ b < a) \/ (sorting = "desc" /\ b > a)
                            \/ ((sorting = "none" \/ b = a) /\ j < i)
        /\ Before(j, k) <=> (sorting = "asc" /\ b < c) \/ (sorting = "desc" /\ b > c)
                            \/ ((sorting = "none" \/ b = c) /\ j < k)
        /\ Before(i, k) <=> (sorting = "asc" /\ a < c) \/ (sorting = "desc" /\ a > c)
                            \/ ((sorting = "none" \/ a = c) /\ i < k)
    BY DEF Before
  <1> HIDE DEF a, b, c
  <1> QED BY <1>1, <1>2

\* Sorting puts one row at every place.
LEMMA EveryRankIsTaken ==
    ASSUME DataOK, sorting \in {"none", "asc", "desc"}, NEW i \in 1 .. Len(data)
    PROVE  \E k \in 1 .. Len(data) : Cardinality({j \in 1 .. Len(data) : Before(j, k)}) = i - 1
  <1> DEFINE n == Len(data)
             D == 1 .. n
             R == {p \in D \X D : Before(p[1], p[2])}
  <1>1. n \in Nat BY DataTyped
  <1>2. IsFiniteSet(D) /\ Cardinality(D) = n
    <2> HIDE DEF n
    <2>1. 1 \in Int /\ n \in Int BY <1>1
    <2>2. IsFiniteSet(1 .. n) /\ Cardinality(1 .. n) = IF 1 > n THEN 0 ELSE n - 1 + 1
      BY <2>1, FS_Interval
    <2> QED BY <1>1, <2>2
  <1>3. \A j, k \in D : j # k => Before(j, k) \/ Before(k, j) BY BeforeIsAnOrder
  <1>4. \A j \in D : ~Before(j, j) BY BeforeIsAnOrder
  <1>5. \A j, k, l \in D : Before(j, k) /\ Before(k, l) => Before(j, l) BY BeforeIsAnOrder
  <1> HIDE DEF D
  <1>6. \A j, k \in D : <<j, k>> \in R <=> Before(j, k) OBVIOUS
  <1> HIDE DEF R
  <1>7. Orders(R, D) BY <1>3, <1>4, <1>5, <1>6 DEF Orders
  <1>8. \A m \in 1 .. Cardinality(D) : \E k \in D : Cardinality(Ahead(R, D, k)) = m - 1
    BY <1>2, <1>7, EveryPlaceIsTaken
  <1>9. \A k \in D : Ahead(R, D, k) = {j \in D : Before(j, k)} BY <1>6 DEF Ahead
  <1> QED BY <1>2, <1>8, <1>9 DEF D

LEMMA SortedRows ==
    ASSUME DataOK, sorting \in {"none", "asc", "desc"}
    PROVE  Sorted \in Seq(RowIds) /\ Len(Sorted) = Len(data)
  <1> DEFINE n == Len(data)
             row(i) == data[CHOOSE k \in DOMAIN data :
                               Cardinality({j \in DOMAIN data : Before(j, k)}) = i - 1]
             all == [i \in 1 .. n |-> row(i)]
  <1>1. n \in Nat /\ DOMAIN data = 1 .. n /\ \A i \in 1 .. n : data[i] \in RowIds BY DataTyped
  <1>2. \A i \in 1 .. n : row(i) \in RowIds
    <2> TAKE i \in 1 .. n
    <2>1. \E k \in DOMAIN data : Cardinality({j \in DOMAIN data : Before(j, k)}) = i - 1
      BY <1>1, EveryRankIsTaken
    <2>2. (CHOOSE k \in DOMAIN data : Cardinality({j \in DOMAIN data : Before(j, k)}) = i - 1)
             \in DOMAIN data
      BY <2>1
    <2> QED BY <1>1, <2>2
  <1>3. Sorted = all BY <1>1 DEF Sorted
  <1> HIDE DEF row, n
  <1>4. all \in Seq(RowIds) BY <1>1, <1>2, IsASeq
  <1>5. Len(all) = n BY <1>1, <1>4, LenProperties
  <1> QED BY <1>3, <1>4, <1>5 DEF n

\* The page index points at a row, when there is one.
InRange == Len(data) > 0 => pageIndex * pageSize < Len(data)

LEMMA SizesTyped == ASSUME NEW n \in PageSizes PROVE n \in Nat \ {0}
  BY TableAssumption

LEMMA PageRows ==
    ASSUME DataOK, sorting \in {"none", "asc", "desc"}, pageIndex \in Nat, pageSize \in PageSizes
    PROVE  /\ DOMAIN Page \subseteq 1 .. Len(data) /\ OnPage \subseteq RowIds
           /\ \A i \in DOMAIN Page : i <= pageSize
           /\ InRange /\ Len(data) > 0 => Page # <<>>
  <1> DEFINE n == Len(data)
             first == pageIndex * pageSize
             next == (pageIndex + 1) * pageSize
             last == IF next < n THEN next ELSE n
  <1>1. n \in Nat /\ pageSize \in Nat \ {0} BY DataTyped, SizesTyped
  <1>2. first \in Nat /\ next \in Nat /\ next = first + pageSize
    BY <1>1, TimesKeepsOrder, OneLessTimes
  <1>3. Sorted \in Seq(RowIds) /\ Len(Sorted) = n BY SortedRows
  <1>4. Page = SubSeq(Sorted, first + 1, last) BY DEF Page
  <1> HIDE DEF n, first, next
  <1>5. last \in Nat /\ last <= n BY <1>1, <1>2
  <1>6. InRange /\ n > 0 => first + 1 <= last BY <1>1, <1>2 DEF InRange, n, first
  <1>7. first + 1 \in Nat \ {0} /\ last \in 0 .. n BY <1>1, <1>2, <1>5
  <1>15. last <= first + pageSize BY <1>1, <1>2
  <1> HIDE DEF last
  <1>8. \A i \in first + 1 .. last : Sorted[i] \in RowIds
    <2>1. \A i \in first + 1 .. last : i \in 1 .. n BY <1>1, <1>2, <1>5
    <2> QED BY <1>3, <2>1, ElementOfSeq
  <1> DEFINE rows == SubSeq(Sorted, first + 1, last)
  <1>9. /\ rows \in Seq(RowIds)
        /\ Len(rows) = IF first + 1 <= last THEN last - (first + 1) + 1 ELSE 0
    BY <1>2, <1>5, <1>8, SubSeqProperties
  <1> HIDE DEF rows
  <1>10. Len(rows) \in Nat /\ DOMAIN rows = 1 .. Len(rows) BY <1>9, LenProperties
  <1>11. Len(rows) <= n /\ Len(rows) <= pageSize /\ (InRange /\ n > 0 => Len(rows) > 0)
    <2> DEFINE m == Len(rows)
    <2>1. m = IF first + 1 <= last THEN last - (first + 1) + 1 ELSE 0 BY <1>9
    <2> HIDE DEF m
    <2>2. m <= n /\ m <= pageSize /\ (InRange /\ n > 0 => m > 0)
      BY <1>1, <1>2, <1>5, <1>6, <1>15, <2>1
    <2> QED BY <2>2 DEF m
  <1>12. DOMAIN rows \subseteq 1 .. n /\ \A i \in DOMAIN rows : i <= pageSize
    BY <1>1, <1>10, <1>11
  <1>13. \A i \in DOMAIN rows : rows[i] \in RowIds BY <1>9, <1>10, ElementOfSeq
  <1>14. InRange /\ n > 0 => rows # <<>>
    <2>1. Len(<<>>) = 0 BY EmptySeq, Zenon
    <2> QED BY <1>11, <2>1
  <1> QED BY <1>4, <1>12, <1>13, <1>14 DEF rows, n, OnPage, Rows

\* A sequence cut in front of place k.
LEMMA Cut ==
    ASSUME NEW S, NEW list \in Seq(S), NEW n \in Nat, n = Len(list), NEW k \in 1 .. n + 1
    PROVE  /\ SubSeq(list, 1, k - 1) \in Seq(S) /\ Len(SubSeq(list, 1, k - 1)) = k - 1
           /\ \A i \in 1 .. k - 1 : SubSeq(list, 1, k - 1)[i] = list[i]
           /\ SubSeq(list, k, n) \in Seq(S) /\ Len(SubSeq(list, k, n)) = n - k + 1
           /\ \A i \in 1 .. n - k + 1 : SubSeq(list, k, n)[i] = list[k + i - 1]
  <1>1. \A i \in 1 .. n : list[i] \in S BY ElementOfSeq
  <1>2. k \in Nat /\ k - 1 \in Nat /\ 1 <= k /\ k <= n + 1 OBVIOUS
  <1>3. /\ SubSeq(list, 1, k - 1) \in Seq(S)
        /\ Len(SubSeq(list, 1, k - 1)) = (IF 1 <= k - 1 THEN k - 1 - 1 + 1 ELSE 0)
        /\ \A i \in 1 .. k - 1 - 1 + 1 : SubSeq(list, 1, k - 1)[i] = list[1 + i - 1]
    <2>1. \A i \in 1 .. k - 1 : list[i] \in S BY <1>1, <1>2
    <2> QED BY <1>2, <2>1, SubSeqProperties
  <1>4. /\ SubSeq(list, k, n) \in Seq(S)
        /\ Len(SubSeq(list, k, n)) = (IF k <= n THEN n - k + 1 ELSE 0)
        /\ \A i \in 1 .. n - k + 1 : SubSeq(list, k, n)[i] = list[k + i - 1]
    <2>1. \A i \in k .. n : list[i] \in S BY <1>1, <1>2
    <2> QED BY <1>2, <2>1, SubSeqProperties
  <1>5. Len(SubSeq(list, 1, k - 1)) = k - 1 BY <1>2, <1>3
  <1>6. Len(SubSeq(list, k, n)) = n - k + 1 BY <1>2, <1>4
  <1>7. \A i \in 1 .. k - 1 : SubSeq(list, 1, k - 1)[i] = list[i]
    <2> TAKE i \in 1 .. k - 1
    <2>1. i \in 1 .. k - 1 - 1 + 1 /\ 1 + i - 1 = i BY <1>2
    <2> QED BY <1>3, <2>1
  <1> QED BY <1>3, <1>4, <1>5, <1>6, <1>7

\* The place a row has among the others, and the place the row at i comes from.
Closed(i, from)        == IF i < from THEN i ELSE i + 1
MovedFrom(i, from, to) ==
    IF i < to THEN Closed(i, from) ELSE IF i = to THEN from ELSE Closed(i - 1, from)

\* arrayMove puts the row at its new place; the others close up.
LEMMA ArrayMoveFacts ==
    ASSUME NEW S, NEW list \in Seq(S), NEW from \in 1 .. Len(list), NEW to \in 1 .. Len(list)
    PROVE  /\ ArrayMove(list, from, to) \in Seq(S) /\ Len(ArrayMove(list, from, to)) = Len(list)
           /\ \A i \in 1 .. Len(list) : ArrayMove(list, from, to)[i] = list[MovedFrom(i, from, to)]
  <1> SUFFICES ASSUME NEW n \in Nat, n = Len(list), from \in 1 .. n, to \in 1 .. n
               PROVE  /\ ArrayMove(list, from, to) \in Seq(S) /\ Len(ArrayMove(list, from, to)) = n
                      /\ \A i \in 1 .. n : ArrayMove(list, from, to)[i] = list[MovedFrom(i, from, to)]
    BY LenProperties
  <1> DEFINE left == SubSeq(list, 1, from - 1)
             right == SubSeq(list, from + 1, n)
             others == left \o right
             place(i) == Closed(i, from)
  <1>1. /\ left \in Seq(S) /\ Len(left) = from - 1 /\ \A i \in 1 .. from - 1 : left[i] = list[i]
        /\ right \in Seq(S) /\ Len(right) = n - from
        /\ \A i \in 1 .. n - from : right[i] = list[from + i]
    <2>1. from \in 1 .. n + 1 /\ from + 1 \in 1 .. n + 1 OBVIOUS
    <2>2. left \in Seq(S) /\ Len(left) = from - 1 /\ \A i \in 1 .. from - 1 : left[i] = list[i]
      BY <2>1, Cut
    <2>3. /\ right \in Seq(S) /\ Len(right) = n - (from + 1) + 1
          /\ \A i \in 1 .. n - (from + 1) + 1 : right[i] = list[from + 1 + i - 1]
      BY <2>1, Cut
    <2> HIDE DEF left, right
    <2>4. n - (from + 1) + 1 = n - from /\ \A i \in 1 .. n - from : from + 1 + i - 1 = from + i OBVIOUS
    <2> QED BY <2>2, <2>3, <2>4
  <1>2. ArrayMove(list, from, to) =
           SubSeq(others, 1, to - 1) \o <<list[from]>> \o SubSeq(others, to, Len(others))
    BY DEF ArrayMove
  <1> HIDE DEF left, right
  <1>3. /\ others \in Seq(S) /\ Len(others) = n - 1
        /\ \A i \in 1 .. n - 1 : others[i] = list[place(i)]
    <2>1. /\ others \in Seq(S) /\ Len(others) = Len(left) + Len(right)
          /\ \A i \in 1 .. Len(left) + Len(right) :
                others[i] = IF i <= Len(left) THEN left[i] ELSE right[i - Len(left)]
      BY <1>1, ConcatProperties
    <2>2. Len(left) + Len(right) = n - 1 BY <1>1
    <2>3. ASSUME NEW i \in 1 .. n - 1 PROVE others[i] = list[place(i)]
      <3>1. others[i] = IF i <= from - 1 THEN left[i] ELSE right[i - (from - 1)] BY <1>1, <2>1, <2>2
      <3> HIDE DEF others
      <3>2. CASE i < from
        <4>1. i <= from - 1 /\ i \in 1 .. from - 1 BY <3>2
        <4> QED BY <1>1, <3>1, <3>2, <4>1 DEF Closed
      <3>3. CASE ~(i < from)
        <4>1. ~(i <= from - 1) /\ i - (from - 1) \in 1 .. n - from /\ from + (i - (from - 1)) = i + 1
          BY <3>3
        <4>2. right[i - (from - 1)] = list[i + 1] BY <1>1, <4>1
        <4> QED BY <3>1, <3>3, <4>1, <4>2 DEF Closed
      <3> QED BY <3>2, <3>3
    <2> QED BY <2>1, <2>2, <2>3
  <1> HIDE DEF others, place
  <1> DEFINE top == SubSeq(others, 1, to - 1)
             bottom == SubSeq(others, to, n - 1)
             one == <<list[from]>>
  <1>4. /\ top \in Seq(S) /\ Len(top) = to - 1 /\ \A i \in 1 .. to - 1 : top[i] = others[i]
        /\ bottom \in Seq(S) /\ Len(bottom) = n - to
        /\ \A i \in 1 .. n - to : bottom[i] = others[to + i - 1]
    <2>1. n - 1 \in Nat /\ to \in 1 .. n - 1 + 1 OBVIOUS
    <2>2. /\ top \in Seq(S) /\ Len(top) = to - 1 /\ \A i \in 1 .. to - 1 : top[i] = others[i]
          /\ bottom \in Seq(S) /\ Len(bottom) = n - 1 - to + 1
          /\ \A i \in 1 .. n - 1 - to + 1 : bottom[i] = others[to + i - 1]
      BY <1>3, <2>1, Cut
    <2> HIDE DEF top, bottom
    <2>3. n - 1 - to + 1 = n - to OBVIOUS
    <2> QED BY <2>2, <2>3
  <1>5. one \in Seq(S) /\ Len(one) = 1 /\ one[1] = list[from]
    <2>1. list[from] \in S BY ElementOfSeq
    <2> QED BY <2>1
  <1>6. ArrayMove(list, from, to) = top \o one \o bottom BY <1>2, <1>3
  <1> HIDE DEF top, bottom, one
  <1>7. /\ top \o one \in Seq(S) /\ Len(top \o one) = to
        /\ \A i \in 1 .. to : (top \o one)[i] = IF i < to THEN others[i] ELSE list[from]
    <2>1. /\ top \o one \in Seq(S) /\ Len(top \o one) = Len(top) + Len(one)
          /\ \A i \in 1 .. Len(top) + Len(one) :
                (top \o one)[i] = IF i <= Len(top) THEN top[i] ELSE one[i - Len(top)]
      BY <1>4, <1>5, ConcatProperties
    <2>2. Len(top) + Len(one) = to BY <1>4, <1>5
    <2>3. ASSUME NEW i \in 1 .. to
          PROVE  (top \o one)[i] = IF i < to THEN others[i] ELSE list[from]
      <3>1. (top \o one)[i] = IF i <= to - 1 THEN top[i] ELSE one[i - (to - 1)] BY <1>4, <2>1, <2>2
      <3>2. CASE i < to
        <4>1. i <= to - 1 /\ i \in 1 .. to - 1 BY <3>2
        <4> QED BY <1>4, <3>1, <3>2, <4>1
      <3>3. CASE ~(i < to)
        <4>1. ~(i <= to - 1) /\ i - (to - 1) = 1 BY <3>3
        <4> QED BY <1>5, <3>1, <3>3, <4>1
      <3> QED BY <3>2, <3>3
    <2> QED BY <2>1, <2>2, <2>3
  <1> DEFINE head == top \o one
             moved == head \o bottom
  <1> HIDE DEF head
  <1>8. /\ moved \in Seq(S) /\ Len(moved) = n
        /\ \A i \in 1 .. n : moved[i] = IF i < to THEN others[i]
                                        ELSE IF i = to THEN list[from] ELSE others[i - 1]
    <2>0. /\ head \in Seq(S) /\ Len(head) = to
          /\ \A i \in 1 .. to : head[i] = IF i < to THEN others[i] ELSE list[from]
      BY <1>7 DEF head
    <2>1. /\ moved \in Seq(S) /\ Len(moved) = Len(head) + Len(bottom)
          /\ \A i \in 1 .. Len(head) + Len(bottom) :
                moved[i] = IF i <= Len(head) THEN head[i] ELSE bottom[i - Len(head)]
      BY <1>4, <2>0, ConcatProperties
    <2>2. Len(head) + Len(bottom) = n BY <1>4, <2>0
    <2>3. ASSUME NEW i \in 1 .. n
          PROVE  moved[i] = IF i < to THEN others[i] ELSE IF i = to THEN list[from] ELSE others[i - 1]
      <3>1. moved[i] = IF i <= to THEN head[i] ELSE bottom[i - to] BY <2>0, <2>1, <2>2
      <3> HIDE DEF moved
      <3>2. CASE i <= to
        <4>1. i \in 1 .. to /\ (i < to \/ i = to) BY <3>2
        <4> QED BY <2>0, <3>1, <3>2, <4>1
      <3>3. CASE ~(i <= to)
        <4>1. ~(i < to) /\ i # to /\ i - to \in 1 .. n - to /\ to + (i - to) - 1 = i - 1 BY <3>3
        <4>2. bottom[i - to] = others[i - 1] BY <1>4, <4>1
        <4> QED BY <3>1, <3>3, <4>1, <4>2
      <3> QED BY <3>2, <3>3
    <2> QED BY <2>1, <2>2, <2>3
  <1>9. ArrayMove(list, from, to) = moved BY <1>6 DEF head
  <1> HIDE DEF moved
  <1>10. ASSUME NEW i \in 1 .. n
         PROVE  moved[i] = list[MovedFrom(i, from, to)]
    <2>1. CASE i < to
      <3>1. i \in 1 .. n - 1 BY <2>1
      <3> QED BY <1>3, <1>8, <2>1, <3>1 DEF MovedFrom, place
    <2>2. CASE i = to
      <3>1. ~(i < to) BY <2>2
      <3> QED BY <1>8, <2>2, <3>1 DEF MovedFrom
    <2>3. CASE ~(i < to) /\ i # to
      <3>1. i - 1 \in 1 .. n - 1 BY <2>3
      <3> QED BY <1>3, <1>8, <2>3, <3>1 DEF MovedFrom, place
    <2> QED BY <2>1, <2>2, <2>3
  <1> QED BY <1>8, <1>9, <1>10

\* Dragging a row keeps all the rows.
LEMMA MoveKeepsRows ==
    ASSUME DataOK, NEW from \in 1 .. Len(data), NEW to \in 1 .. Len(data),
           data' = ArrayMove(data, from, to)
    PROVE  DataOK' /\ Len(data') = Len(data)
  <1> DEFINE n == Len(data)
             src(i) == MovedFrom(i, from, to)
  <1>1. n \in Nat /\ data \in Seq(RowIds) /\ DOMAIN data = 1 .. n /\ Rows(data) = RowIds
        /\ \A i, j \in 1 .. n : data[i] = data[j] => i = j
    BY DataTyped DEF DataOK
  <1>2. /\ data' \in Seq(RowIds) /\ Len(data') = n
        /\ \A i \in 1 .. n : data'[i] = data[src(i)]
    <2>1. /\ ArrayMove(data, from, to) \in Seq(RowIds) /\ Len(ArrayMove(data, from, to)) = Len(data)
          /\ \A i \in 1 .. Len(data) : ArrayMove(data, from, to)[i] = data[MovedFrom(i, from, to)]
      BY <1>1, ArrayMoveFacts
    <2> QED BY <2>1
  <1>3. DOMAIN data' = 1 .. n BY <1>2, LenProperties
  <1> HIDE DEF n
  <1>4. from \in 1 .. n /\ to \in 1 .. n BY DEF n
  <1>5. \A i \in 1 .. n : src(i) \in 1 .. n BY <1>1, <1>4 DEF MovedFrom, Closed
  <1>6. \A i, j \in 1 .. n : src(i) = src(j) => i = j BY <1>1, <1>4 DEF MovedFrom, Closed
  <1>7. \A k \in 1 .. n : \E i \in 1 .. n : src(i) = k
    <2> TAKE k \in 1 .. n
    <2> DEFINE r == IF k < from THEN k ELSE k - 1
    <2>1. CASE k = from
      <3>1. src(to) = k BY <1>1, <1>4, <2>1 DEF MovedFrom
      <3> QED BY <1>4, <3>1
    <2>2. CASE k # from
      <3>1. r \in 1 .. n - 1 /\ Closed(r, from) = k BY <1>1, <1>4, <2>2 DEF Closed
      <3>2. CASE r < to
        <4>1. r \in 1 .. n /\ src(r) = k BY <1>1, <1>4, <3>1, <3>2 DEF MovedFrom
        <4> QED BY <4>1
      <3>3. CASE ~(r < to)
        <4>1. r + 1 \in 1 .. n /\ src(r + 1) = Closed(r, from) BY <1>1, <1>4, <3>1, <3>3 DEF MovedFrom
        <4> QED BY <3>1, <4>1
      <3> QED BY <3>2, <3>3
    <2> QED BY <2>1, <2>2
  <1> HIDE DEF src
  <1>8. \A i, j \in 1 .. n : data'[i] = data'[j] => i = j
    <2> SUFFICES ASSUME NEW i \in 1 .. n, NEW j \in 1 .. n, data'[i] = data'[j] PROVE i = j OBVIOUS
    <2>1. data[src(i)] = data[src(j)] BY <1>2
    <2>2. src(i) = src(j) BY <1>1, <1>5, <2>1
    <2> QED BY <1>6, <2>2
  <1>9. Rows(data') = RowIds
    <2>1. Rows(data') \subseteq RowIds
      <3>1. \A i \in 1 .. n : data[src(i)] \in Rows(data) BY <1>1, <1>5 DEF Rows
      <3> QED BY <1>1, <1>2, <1>3, <3>1 DEF Rows
    <2>2. ASSUME NEW r \in RowIds PROVE r \in Rows(data')
      <3>1. PICK k \in 1 .. n : data[k] = r BY <1>1 DEF Rows
      <3>2. PICK i \in 1 .. n : src(i) = k BY <1>7
      <3>3. data'[i] = r BY <1>2, <3>1, <3>2
      <3> QED BY <1>3, <3>3 DEF Rows
    <2> QED BY <2>1, <2>2
  <1>10. n = Cardinality(RowIds) BY DEF DataOK, n
  <1>11. Rows(data)' = RowIds BY <1>9 DEF Rows
  <1>12. Len(data') = Cardinality(RowIds) BY <1>2, <1>10
  <1>13. \A i, j \in 1 .. Len(data') : data'[i] = data'[j] => i = j BY <1>2, <1>8
  <1>14. DataOK' BY <1>2, <1>11, <1>12, <1>13 DEF DataOK
  <1> QED BY <1>2, <1>14 DEF n

\* The rows start as a list of all the ids.
LEMMA FirstRows ==
    ASSUME data = SeqExt!SetToSeq(RowIds)
    PROVE  DataOK
  <1> DEFINE n == Cardinality(RowIds)
  <1>1. IsFiniteSet(RowIds) BY TableAssumption
  <1>2. n \in Nat /\ ExistsBijection(1 .. n, RowIds) BY <1>1, FS_CardinalityType
  <1>3. IsFiniteSet(1 .. n) /\ Cardinality(1 .. n) = n
    <2> HIDE DEF n
    <2>1. 1 \in Int /\ n \in Int BY <1>2
    <2>2. IsFiniteSet(1 .. n) /\ Cardinality(1 .. n) = IF 1 > n THEN 0 ELSE n - 1 + 1
      BY <2>1, FS_Interval
    <2> QED BY <1>2, <2>2
  <1>4. \E f \in [1 .. n -> RowIds] : SeqExt!IsInjective(f)
    BY <1>2 DEF ExistsBijection, Bijection, Injection, IsInjective, SeqExt!IsInjective
  <1>5. data \in [1 .. n -> RowIds] /\ SeqExt!IsInjective(data) 
    <2>1. SeqExt!Cardinality(RowIds) = n BY DEF SeqExt!Cardinality, Cardinality
    <2> HIDE DEF n
    <2> QED BY <1>4, <2>1 DEF SeqExt!SetToSeq
  <1>6. \A i, j \in 1 .. n : data[i] = data[j] => i = j BY <1>5 DEF SeqExt!IsInjective
  <1>7. data \in Injection(1 .. n, RowIds)
    <2>1. \A a, b \in 1 .. n : data[a] = data[b] => a = b BY <1>6
    <2> QED BY <1>5, <2>1 DEF Injection, IsInjective
  <1>8. data \in Surjection(1 .. n, RowIds) BY <1>1, <1>3, <1>7, FS_Injection
  <1>9. Rows(data) = RowIds BY <1>5, <1>8 DEF Rows, Surjection
  <1>10. data \in Seq(RowIds) /\ Len(data) = n
    <2>1. DOMAIN data = 1 .. n /\ \A i \in 1 .. n : data[i] \in RowIds BY <1>5
    <2>2. data = [i \in 1 .. n |-> data[i]] BY <1>5
    <2> HIDE DEF n
    <2>3. data \in Seq(RowIds) BY <1>2, <2>1, <2>2, IsASeq
    <2>4. Len(data) = n BY <1>2, <2>1, <2>3, LenProperties
    <2> QED BY <2>3, <2>4
  <1> QED BY <1>6, <1>9, <1>10 DEF DataOK

\* The pages are those whose first row exists.
LEMMA Pages ==
    ASSUME DataOK, pageSize \in PageSizes
    PROVE  PageCount \in Nat /\ \A i \in Nat : i * pageSize < Len(data) <=> i < PageCount
  <1> DEFINE n == Len(data)
             p == pageSize
             q == (n + p - 1) \div p
  <1>1. n \in Nat /\ p \in Nat \ {0} BY DataTyped, SizesTyped
  <1>2. PageCount = q BY DEF PageCount
  <1> HIDE DEF n, p
  <1>3. q \in Nat /\ q * p <= n + p - 1 /\ n + p - 1 < q * p + p
    <2>1. n + p - 1 \in Nat BY <1>1
    <2> QED BY <1>1, <2>1, Quotient
  <1> HIDE DEF q
  <1>4. q * p \in Nat /\ n <= q * p BY <1>1, <1>3
  <1>5. ASSUME NEW i \in Nat PROVE i * p < n <=> i < q
    <2>1. ASSUME i * p < n PROVE i < q
      <3> SUFFICES ASSUME q <= i PROVE FALSE BY <1>3
      <3>1. q * p <= i * p /\ i * p \in Nat BY <1>1, <1>3, TimesKeepsOrder
      <3> QED BY <1>1, <1>4, <2>1, <3>1
    <2>2. ASSUME i < q PROVE i * p < n
      <3>1. i + 1 <= q /\ i + 1 \in Nat BY <1>3, <2>2
      <3>2. (i + 1) * p <= q * p BY <1>1, <1>3, <3>1, TimesKeepsOrder
      <3>3. (i + 1) * p = i * p + p /\ i * p \in Nat BY <1>1, OneLessTimes, TimesKeepsOrder
      <3>4. i * p + p <= n + p - 1 BY <1>1, <1>3, <1>4, <3>2, <3>3
      <3> QED BY <1>1, <3>3, <3>4
    <2> QED BY <2>1, <2>2
  <1> QED BY <1>2, <1>3, <1>5 DEF n, p

\* What the menus can hide; the boxes, the handles and the names are not among them.
LEMMA WhatCanBeHidden ==
    ASSUME table \in {"leads", "sections"}
    PROVE  /\ ViewOptions \subseteq DOMAIN Columns /\ ViewOptions \cap {"select", "drag", "name"} = {}
           /\ \A c \in DOMAIN Columns : "Hide" \in HeaderMenu(c) => c \in ViewOptions
  <1>1. ViewOptions \subseteq DOMAIN Columns BY DEF ViewOptions
  <1>2. \A c \in DOMAIN Columns : "Hide" \in HeaderMenu(c) => c \in ViewOptions
    <2> SUFFICES ASSUME NEW c \in DOMAIN Columns, "Hide" \in HeaderMenu(c) PROVE c \in ViewOptions
      OBVIOUS
    <2>1. CanSort(c) /\ Columns[c].enableHiding BY DEF HeaderMenu
    <2> QED BY <2>1 DEF CanSort, ViewOptions
  <1>3. /\ "select" \in DOMAIN Columns => ~Columns["select"].enableHiding
        /\ "drag" \in DOMAIN Columns => ~Columns["drag"].enableHiding
        /\ "name" \in DOMAIN Columns => ~Columns["name"].enableHiding
    <2>1. /\ LeadColumns["select"] = Column(FALSE, FALSE, FALSE)
          /\ LeadColumns["name"] = Column(TRUE, TRUE, FALSE)
      BY DEF LeadColumns
    <2>2. /\ SectionColumns["select"] = Column(FALSE, FALSE, FALSE)
          /\ "name" \notin DOMAIN SectionColumns /\ "drag" \notin DOMAIN SectionColumns
      BY DEF SectionColumns, Column
    <2>3. "drag" \notin DOMAIN LeadColumns BY DEF LeadColumns
    <2>4. /\ ~Column(FALSE, FALSE, FALSE).enableHiding
          /\ ~Column(TRUE, TRUE, FALSE).enableHiding
      BY DEF Column
    <2>5. "drag" \in DOMAIN Columns => Columns["drag"] = Column(FALSE, FALSE, FALSE)
      BY DEF Columns, DragColumn
    <2>6. CASE table = "leads"
      <3>1. \A c \in DOMAIN LeadColumns : Columns[c] = LeadColumns[c]
        BY <2>3, <2>6 DEF Columns
      <3>2. "select" \in DOMAIN LeadColumns /\ "name" \in DOMAIN LeadColumns BY DEF LeadColumns
      <3>3. Columns["select"] = Column(FALSE, FALSE, FALSE) BY <2>1, <3>1, <3>2
      <3>4. Columns["name"] = Column(TRUE, TRUE, FALSE) BY <2>1, <3>1, <3>2
      <3> QED BY <2>4, <2>5, <3>3, <3>4, Zenon
    <2>7. CASE table = "sections"
      <3>1. \A c \in DOMAIN SectionColumns : Columns[c] = SectionColumns[c]
        BY <2>2, <2>7 DEF Columns
      <3>2. "select" \in DOMAIN SectionColumns BY DEF SectionColumns
      <3>3. "name" \notin DOMAIN Columns BY <2>2, <2>7 DEF Columns
      <3>4. Columns["select"] = Column(FALSE, FALSE, FALSE) BY <2>2, <3>1, <3>2
      <3> QED BY <2>4, <2>5, <3>3, <3>4, Zenon
    <2> QED BY <2>6, <2>7
  <1>4. ViewOptions \cap {"select", "drag", "name"} = {} BY <1>3 DEF ViewOptions
  <1> QED BY <1>1, <1>2, <1>4

\* The view options are the same as long as the table is.
LEMMA ColumnsStay ==
    ASSUME table' = table PROVE Columns' = Columns /\ ViewOptions' = ViewOptions
  BY DEF Columns, ViewOptions

\* The page index is on a page that exists and only columns of the menus are hidden.
TableIndInv ==
    /\ table \in {"leads", "sections"} /\ DataOK
    /\ sorting \in {"none", "asc", "desc"}
    /\ pageIndex \in Nat /\ pageSize \in PageSizes /\ InRange
    /\ rowSelection \subseteq RowIds /\ hidden \subseteq ViewOptions

LEMMA TableIndInvInit == TableInit => TableIndInv
  <1> SUFFICES ASSUME TableInit PROVE TableIndInv OBVIOUS
  <1>1. DataOK BY FirstRows DEF TableInit
  <1>2. pageSize \in PageSizes
    <2>1. PICK n : n \in PageSizes /\ \A m \in PageSizes : n <= m
      BY TableAssumption, LeastNumber
    <2> QED BY <2>1 DEF TableInit
  <1>3. InRange
    <2>1. pageIndex = 0 /\ pageSize \in Nat BY <1>2, SizesTyped DEF TableInit
    <2>2. 0 * pageSize = 0 BY <2>1, NothingTimes
    <2> QED BY <2>1, <2>2 DEF InRange
  <1> QED BY <1>1, <1>2, <1>3 DEF TableInit, TableIndInv

\* On the first page there are rows, if there are any.
LEMMA FirstPageInRange ==
    ASSUME pageIndex' = 0, pageSize' \in PageSizes
    PROVE  InRange'
  <1>1. pageSize' \in Nat BY SizesTyped
  <1>2. 0 * pageSize' = 0 BY <1>1, NothingTimes
  <1> QED BY <1>2 DEF InRange

\* Sorting and dragging begin again with the first page.
LEMMA SortingKeeps ==
    ASSUME TableIndInv, NEW c, NEW direction \in {"asc", "desc"}, ToggleSorting(c, direction)
    PROVE  TableIndInv'
  <1>1. /\ sorting' = direction /\ pageIndex' = 0
        /\ UNCHANGED <<table, data, pageSize, rowSelection, hidden>>
    BY DEF ToggleSorting
  <1>2. ViewOptions' = ViewOptions BY <1>1, ColumnsStay
  <1>3. InRange' BY <1>1, FirstPageInRange DEF TableIndInv
  <1>4. DataOK' BY <1>1 DEF DataOK, Rows, TableIndInv
  <1> QED BY <1>1, <1>2, <1>3, <1>4 DEF TableIndInv

LEMMA DraggingKeeps ==
    ASSUME TableIndInv, NEW dragged, NEW over, DragEnd(dragged, over)
    PROVE  TableIndInv'
  <1> DEFINE from == CHOOSE i \in DOMAIN Page : Page[i] = dragged
             to   == CHOOSE i \in DOMAIN Page : Page[i] = over
  <1>1. /\ {dragged, over} \subseteq OnPage /\ pageIndex' = 0
        /\ data' = IF table = "sections" THEN ArrayMove(data, from, to) ELSE data
        /\ UNCHANGED <<table, sorting, pageSize, rowSelection, hidden>>
    BY DEF DragEnd
  <1>2. ViewOptions' = ViewOptions BY <1>1, ColumnsStay
  <1>3. InRange' BY <1>1, FirstPageInRange DEF TableIndInv
  <1>4. DataOK'
    <2>1. (\E i \in DOMAIN Page : Page[i] = dragged) /\ (\E i \in DOMAIN Page : Page[i] = over)
      BY <1>1 DEF OnPage, Rows
    <2>2. from \in DOMAIN Page /\ to \in DOMAIN Page BY <2>1
    <2>3. DOMAIN Page \subseteq 1 .. Len(data) BY PageRows DEF TableIndInv
    <2> HIDE DEF from, to
    <2>4. from \in 1 .. Len(data) /\ to \in 1 .. Len(data) BY <2>2, <2>3
    <2>5. DataOK BY DEF TableIndInv
    <2>6. CASE table = "sections" BY <1>1, <2>4, <2>5, <2>6, MoveKeepsRows
    <2>7. CASE table # "sections" BY <1>1, <2>5, <2>7 DEF DataOK, Rows
    <2> QED BY <2>6, <2>7
  <1> QED BY <1>1, <1>2, <1>3, <1>4 DEF TableIndInv

\* A step that leaves the rows and the columns alone.
RowsStay == UNCHANGED <<table, data, sorting>>

LEMMA PagingKeeps ==
    ASSUME TableIndInv,
           (\E n \in PageSizes : SetPageSize(n)) \/ FirstPage \/ PreviousPage \/ NextPage \/ LastPage
    PROVE  TableIndInv'
  <1> DEFINE n == Len(data)
  <1>1. RowsStay /\ UNCHANGED <<rowSelection, hidden>>
    BY DEF SetPageSize, FirstPage, PreviousPage, NextPage, LastPage, SetPageIndex, RowsStay
  <1>2. ViewOptions' = ViewOptions BY <1>1, ColumnsStay DEF RowsStay
  <1>3. DataOK' BY <1>1 DEF RowsStay, DataOK, Rows, TableIndInv
  <1>4. n \in Nat /\ pageIndex \in Nat /\ pageSize \in Nat \ {0} BY DataTyped, SizesTyped DEF TableIndInv
  <1>5. pageIndex' \in Nat /\ pageSize' \in PageSizes /\ InRange'
    <2>1. ASSUME NEW m \in PageSizes, SetPageSize(m)
          PROVE  pageIndex' \in Nat /\ pageSize' \in PageSizes /\ InRange'
      <3> DEFINE top == pageSize * pageIndex
      <3>1. pageSize' = m /\ pageIndex' = top \div m /\ data' = data BY <2>1 DEF SetPageSize
      <3>2. m \in Nat \ {0} BY SizesTyped
      <3>3. top \in Nat /\ top = pageIndex * pageSize BY <1>4
      <3> HIDE DEF top
      <3>4. top \div m \in Nat /\ (top \div m) * m <= top BY <3>2, <3>3, Quotient
      <3>5. n > 0 => top < n BY <3>3 DEF TableIndInv, InRange
      <3> DEFINE q == top \div m
                 r == q * m
      <3>6. r \in Nat BY <3>2, <3>4
      <3>7. n > 0 => r < n
        <4>1. r <= top BY <3>4
        <4> HIDE DEF q, r, n
        <4> QED BY <1>4, <3>3, <3>5, <3>6, <4>1
      <3>8. InRange' BY <3>1, <3>7 DEF InRange
      <3> QED BY <3>1, <3>4, <3>8
    <2>2. ASSUME FirstPage \/ PreviousPage \/ NextPage \/ LastPage
          PROVE  pageIndex' \in Nat /\ pageSize' \in PageSizes /\ InRange'
      <3>1. pageSize' = pageSize /\ data' = data
        BY <2>2 DEF FirstPage, PreviousPage, NextPage, LastPage, SetPageIndex
      <3>2. PageCount \in Nat /\ \A i \in Nat : i * pageSize < n <=> i < PageCount
        BY Pages DEF TableIndInv
      <3>3. n > 0 => pageIndex < PageCount BY <1>4, <3>2 DEF TableIndInv, InRange
      <3> HIDE DEF n
      <3>4. pageIndex' \in Nat /\ (n > 0 => pageIndex' < PageCount)
        <4>1. n > 0 => 0 < PageCount BY <1>4, <3>2, <3>3
        <4>2. CASE FirstPage BY <4>1, <4>2 DEF FirstPage, SetPageIndex
        <4>3. CASE PreviousPage
          BY <1>4, <3>2, <3>3, <4>3 DEF PreviousPage, CanPreviousPage, SetPageIndex
        <4>4. CASE NextPage BY <1>4, <3>2, <4>4 DEF NextPage, CanNextPage, SetPageIndex
        <4>5. CASE LastPage BY <1>4, <3>2, <4>5 DEF LastPage, CanNextPage, SetPageIndex
        <4> QED BY <2>2, <4>2, <4>3, <4>4, <4>5
      <3>5. n > 0 => pageIndex' * pageSize < n BY <3>2, <3>4
      <3>6. InRange' BY <3>1, <3>5 DEF InRange, n
      <3> QED BY <3>1, <3>4, <3>6 DEF TableIndInv
    <2> QED BY <2>1, <2>2
  <1> QED BY <1>1, <1>2, <1>3, <1>5 DEF TableIndInv, RowsStay

LEMMA SelectingKeeps ==
    ASSUME TableIndInv, (\E r \in RowIds : ToggleSelected(r)) \/ ToggleAllPageRowsSelected
    PROVE  TableIndInv'
  <1>1. RowsStay /\ UNCHANGED <<pageIndex, pageSize, hidden>>
    BY DEF ToggleSelected, ToggleAllPageRowsSelected, RowsStay
  <1>2. ViewOptions' = ViewOptions BY <1>1, ColumnsStay DEF RowsStay
  <1>3. DataOK' /\ InRange' BY <1>1 DEF RowsStay, DataOK, Rows, TableIndInv, InRange
  <1>4. OnPage \subseteq RowIds BY PageRows DEF TableIndInv
  <1>5. rowSelection' \subseteq RowIds
    BY <1>4 DEF ToggleSelected, ToggleAllPageRowsSelected, TableIndInv
  <1> QED BY <1>1, <1>2, <1>3, <1>5 DEF TableIndInv, RowsStay

LEMMA HidingKeeps ==
    ASSUME TableIndInv, NEW c \in DOMAIN Columns, ToggleVisibility(c)
    PROVE  TableIndInv'
  <1>1. RowsStay /\ UNCHANGED <<pageIndex, pageSize, rowSelection>>
    BY DEF ToggleVisibility, RowsStay
  <1>2. ViewOptions' = ViewOptions BY <1>1, ColumnsStay DEF RowsStay
  <1>3. DataOK' /\ InRange' BY <1>1 DEF RowsStay, DataOK, Rows, TableIndInv, InRange
  <1>4. c \in ViewOptions BY WhatCanBeHidden DEF ToggleVisibility, TableIndInv
  <1>5. hidden' \subseteq ViewOptions BY <1>4 DEF ToggleVisibility, TableIndInv
  <1> QED BY <1>1, <1>2, <1>3, <1>5 DEF TableIndInv, RowsStay

\* What the user of the table sees follows.
LEMMA TableIndInvSuffices == TableIndInv => TableInv
  <1> SUFFICES ASSUME TableIndInv PROVE TableInv OBVIOUS
  <1>1. TableTypeOK BY WhatCanBeHidden DEF TableIndInv, DataOK, TableTypeOK
  <1>2. PageHasRows
    <2> SUFFICES ASSUME RowIds # {} PROVE Body = "rows" /\ Footer.page <= Footer.pages
      BY DEF PageHasRows
    <2>1. Len(data) \in Nat /\ Len(data) > 0
      <3>1. IsFiniteSet(RowIds) BY TableAssumption
      <3>2. Cardinality(RowIds) \in Nat /\ Cardinality(RowIds) # 0
        BY <3>1, FS_CardinalityType, FS_EmptySet
      <3>3. Len(data) = Cardinality(RowIds) BY DEF TableIndInv, DataOK
      <3> QED BY <3>2, <3>3
    <2>2. Body = "rows" BY <2>1, PageRows DEF TableIndInv, Body
    <2>3. pageIndex \in Nat /\ PageCount \in Nat /\ pageIndex < PageCount
      BY <2>1, Pages DEF TableIndInv, InRange
    <2>4. Footer.page = pageIndex + 1 /\ Footer.pages = PageCount BY DEF Footer
    <2> QED BY <2>2, <2>3, <2>4
  <1>3. HiddenCanBeShown BY WhatCanBeHidden DEF TableIndInv, HiddenCanBeShown
  <1> QED BY <1>1, <1>2, <1>3 DEF TableInv

LEMMA TableStep == TableIndInv /\ [TableNext]_tableVars => TableIndInv'
  <1> SUFFICES ASSUME TableIndInv, [TableNext]_tableVars PROVE TableIndInv' OBVIOUS
  <1>1. ASSUME NEW c \in DOMAIN Columns, NEW direction \in {"asc", "desc"},
               ToggleSorting(c, direction)
        PROVE  TableIndInv'
    BY <1>1, SortingKeeps
  <1>2. ASSUME NEW c \in DOMAIN Columns, ToggleVisibility(c) PROVE TableIndInv'
    BY <1>2, HidingKeeps
  <1>3. CASE (\E n \in PageSizes : SetPageSize(n)) \/ FirstPage \/ PreviousPage \/ NextPage \/ LastPage
    BY <1>3, PagingKeeps
  <1>4. CASE (\E r \in RowIds : ToggleSelected(r)) \/ ToggleAllPageRowsSelected
    BY <1>4, SelectingKeeps
  <1>5. ASSUME NEW dragged \in RowIds, NEW over \in RowIds, DragEnd(dragged, over) PROVE TableIndInv'
    BY <1>5, DraggingKeeps
  <1>6. CASE UNCHANGED tableVars
    <2>1. RowsStay /\ UNCHANGED <<pageIndex, pageSize, rowSelection, hidden>>
      BY <1>6 DEF tableVars, RowsStay
    <2>2. ViewOptions' = ViewOptions BY <2>1, ColumnsStay DEF RowsStay
    <2>3. DataOK' /\ InRange' BY <2>1 DEF RowsStay, DataOK, Rows, TableIndInv, InRange
    <2> QED BY <2>1, <2>2, <2>3 DEF TableIndInv, RowsStay
  <1> QED BY <1>1, <1>2, <1>3, <1>4, <1>5, <1>6 DEF TableNext

\* For any rows and page sizes, no sequence of sorting, paging, resizing, selecting,
\* hiding and dragging loses a row, ends on a page without rows, or hides a column
\* that the view options cannot show again.
THEOREM TableInvariance == TableSpec => []TableInv
  BY TableStep, TableIndInvInit, TableIndInvSuffices, PTL DEF TableSpec

\* What arrayMove does to the order: the others come from places in the same order,
\* and a place behind both rows keeps its row.
LEMMA MovedOrder ==
    ASSUME NEW n \in Nat, NEW from \in 1 .. n, NEW to \in 1 .. n, NEW k \in 1 .. n, NEW l \in 1 .. n
    PROVE  /\ (/\ MovedFrom(k, from, to) # from /\ MovedFrom(l, from, to) # from
               /\ MovedFrom(k, from, to) < MovedFrom(l, from, to)) => k < l
           /\ k > from /\ k > to => MovedFrom(k, from, to) = k
           /\ MovedFrom(k, from, to) \in 1 .. n
  BY DEF MovedFrom, Closed

\* For any rows and page sizes, dragging moves one row: it is among the first rows,
\* the others keep their order, and those that no first page shows their places.
THEOREM DragMovesTheRowHolds == TableSpec => DragMovesTheRow
  <1> DEFINE First == {data[i] : i \in {j \in DOMAIN data : j <= pageSize}}
             Moves == data' # data =>
                \E r \in First :
                    /\ \A i, j, k, l \in DOMAIN data :
                          (/\ r \notin {data[i], data[j]} /\ i < j
                           /\ data'[k] = data[i] /\ data'[l] = data[j]) => k < l
                    /\ \A i \in DOMAIN data : i > pageSize => data'[i] = data[i]
  <1>1. TableIndInv /\ [TableNext]_tableVars => [Moves]_tableVars
    <2> SUFFICES ASSUME TableIndInv, TableNext, data' # data
                 PROVE  Moves
      BY DEF Moves
    <2>1. PICK dragged, over : DragEnd(dragged, over)
      BY DEF TableNext, ToggleSorting, ToggleVisibility, SetPageSize, FirstPage, PreviousPage,
             NextPage, LastPage, SetPageIndex, ToggleSelected, ToggleAllPageRowsSelected
    <2> DEFINE n    == Len(data)
               from == CHOOSE i \in DOMAIN Page : Page[i] = dragged
               to   == CHOOSE i \in DOMAIN Page : Page[i] = over
               src(i) == MovedFrom(i, from, to)
    <2>2. {dragged, over} \subseteq OnPage /\ data' = ArrayMove(data, from, to) BY <2>1 DEF DragEnd
    <2>3. from \in DOMAIN Page /\ to \in DOMAIN Page
      <3>1. (\E i \in DOMAIN Page : Page[i] = dragged) /\ (\E i \in DOMAIN Page : Page[i] = over)
        BY <2>2 DEF OnPage, Rows
      <3> QED BY <3>1
    <2> HIDE DEF from, to
    <2>4. DOMAIN Page \subseteq 1 .. n /\ \A i \in DOMAIN Page : i <= pageSize
      BY PageRows DEF TableIndInv
    <2>5. /\ n \in Nat /\ DOMAIN data = 1 .. n /\ data \in Seq(RowIds)
          /\ \A i, j \in 1 .. n : data[i] = data[j] => i = j
      BY DataTyped DEF TableIndInv, DataOK
    <2>6. /\ from \in 1 .. n /\ to \in 1 .. n
          /\ from <= pageSize /\ to <= pageSize /\ pageSize \in Nat
      BY <2>3, <2>4, SizesTyped DEF TableIndInv
    <2>7. \A i \in 1 .. n : data'[i] = data[src(i)]
      <3>1. \A i \in 1 .. Len(data) : ArrayMove(data, from, to)[i] = data[MovedFrom(i, from, to)]
        BY <2>5, <2>6, ArrayMoveFacts
      <3> QED BY <2>2, <3>1
    <2> HIDE DEF n
    <2>8. data[from] \in First BY <2>5, <2>6
    <2>9. ASSUME NEW i \in 1 .. n, NEW j \in 1 .. n, NEW k \in 1 .. n, NEW l \in 1 .. n,
                 data[from] \notin {data[i], data[j]}, i < j,
                 data'[k] = data[i], data'[l] = data[j]
          PROVE  k < l
      <3>1. src(k) \in 1 .. n /\ src(l) \in 1 .. n BY <2>5, <2>6, MovedOrder
      <3>2. src(k) = i /\ src(l) = j BY <2>5, <2>7, <2>9, <3>1
      <3>3. src(k) # from /\ src(l) # from /\ src(k) < src(l) BY <2>9, <3>2
      <3> HIDE DEF src
      <3> QED BY <2>5, <2>6, <3>3, MovedOrder DEF src
    <2>10. ASSUME NEW i \in 1 .. n, i > pageSize PROVE data'[i] = data[i]
      <3>1. i > from /\ i > to BY <2>5, <2>6, <2>10
      <3>2. src(i) = i BY <2>5, <2>6, <3>1, MovedOrder
      <3> QED BY <2>7, <3>2
    <2> HIDE DEF First
    <2> QED BY <2>5, <2>8, <2>9, <2>10
  <1>2. TableIndInv /\ [TableNext]_tableVars => TableIndInv' BY TableStep
  <1> QED BY <1>1, <1>2, TableIndInvInit, PTL DEF TableSpec, DragMovesTheRow

-----------------------------------------------------------------------------
(* The action breakdown.                                                   *)

ActionSet == {Actions[i] : i \in DOMAIN Actions}
AnalyticsOK ==
    \/ analytics = NoAnalytics
    \/ \E counts : /\ DOMAIN counts \in SUBSET ActionSet /\ counts \in [DOMAIN counts -> 1 .. MaxCount]
                   /\ analytics = Answer(counts)

\* A fold over a function's values is a sum.
LEMMA TotalIsSum ==
    ASSUME NEW f, NEW D, D = DOMAIN f, IsFiniteSet(D), NEW g, IsSum(f, D, g)
    PROVE  Total(f) = g[D]
  <1> DEFINE F(k) == [S \in SUBSET D |->
                         IF S = {} THEN 0
                         ELSE LET x == CHOOSE x \in S : TRUE IN f[x] + k[S \ {x}]]
             fold == CHOOSE k : k = F(k)
  <1>1. Total(f) = fold[D]
    BY DEF Total, SetsExt!MapThenSumSet, SetsExt!MapThenFoldSet
  <1>2. F(g) = [S \in SUBSET D |-> SumStep(f, S, g)] BY DEF SumStep
  <1>3. ASSUME NEW k PROVE F(k) = [S \in SUBSET D |-> SumStep(f, S, k)] BY DEF SumStep
  <1> HIDE DEF F
  <1>4. g = F(g) BY <1>2 DEF IsSum
  <1>5. fold = F(fold) BY <1>4
  <1> HIDE DEF fold
  <1>6. IsSum(f, D, fold) BY <1>3, <1>5 DEF IsSum
  <1>7. D \in SUBSET D OBVIOUS
  <1>8. \A S \in SUBSET D : fold[S] = g[S] BY <1>6, SumUnique
  <1> QED BY <1>1, <1>7, <1>8

LEMMA CountsTyped ==
    ASSUME AnalyticsOK
    PROVE  /\ DOMAIN Counts \subseteq ActionSet
           /\ \A a \in DOMAIN Counts : Counts[a] \in Nat
           /\ Cards.totalEvents = Total(Counts)
           /\ Cards.uniqueActions = Cardinality(DOMAIN Counts)
  <1>1. Cards.uniqueActions = Cardinality(DOMAIN Counts) BY DEF Cards
  <1>2. CASE analytics = NoAnalytics
    <2>1. Counts = <<>> /\ DOMAIN Counts = {} BY <1>2 DEF Counts
    <2>2. Cards.totalEvents = 0 BY <1>2 DEF Cards
    <2>3. IsFiniteSet({}) BY FS_EmptySet
    <2>4. PICK g : IsSum(Counts, {}, g) BY <2>3, SumExists
    <2>5. g[{}] = 0 BY <2>4, SumOf
    <2>6. Total(Counts) = g[{}] BY <2>1, <2>3, <2>4, TotalIsSum
    <2> QED BY <1>1, <2>1, <2>2, <2>5, <2>6
  <1>3. CASE analytics # NoAnalytics
    <2>1. PICK counts : /\ DOMAIN counts \in SUBSET ActionSet /\ counts \in [DOMAIN counts -> 1 .. MaxCount]
                        /\ analytics = Answer(counts)
      BY <1>3 DEF AnalyticsOK
    <2>2. Counts = counts /\ Cards.totalEvents = Total(counts) BY <1>3, <2>1 DEF Counts, Cards, Answer
    <2>3. \A a \in DOMAIN counts : counts[a] \in Nat BY <2>1, ChartAssumption
    <2> QED BY <1>1, <2>1, <2>2, <2>3
  <1> QED BY <1>2, <1>3

\* The places of the entries are as many as the actions that were counted.
LEMMA EntriesFacts ==
    ASSUME AnalyticsOK
    PROVE  /\ IsFiniteSet(Entries) /\ IsFiniteSet(DOMAIN Counts)
           /\ Cardinality(Entries) \in Nat /\ Cardinality(Entries) = Cardinality(DOMAIN Counts)
           /\ {Actions[i] : i \in Entries} = DOMAIN Counts
           /\ \A i \in Entries : i \in Nat /\ Actions[i] \in DOMAIN Counts /\ Counts[Actions[i]] \in Nat
           /\ \A i, j \in Entries : Actions[i] = Actions[j] => i = j
  <1> DEFINE h == [i \in Entries |-> Actions[i]]
  <1>1. Len(Actions) \in Nat /\ DOMAIN Actions = 1 .. Len(Actions) BY ChartAssumption, LenProperties
  <1>2. IsFiniteSet(DOMAIN Actions) BY <1>1, FS_Interval
  <1>3. Entries \in SUBSET DOMAIN Actions BY DEF Entries
  <1>4. IsFiniteSet(Entries) /\ Cardinality(Entries) \in Nat BY <1>2, <1>3, FS_Subset, FS_CardinalityType
  <1>5. \A i \in Entries : i \in Nat /\ Actions[i] \in DOMAIN Counts /\ Counts[Actions[i]] \in Nat
    BY <1>1, CountsTyped DEF Entries
  <1>6. \A i, j \in Entries : Actions[i] = Actions[j] => i = j BY <1>3, ChartAssumption
  <1>7. {Actions[i] : i \in Entries} = DOMAIN Counts BY CountsTyped DEF Entries, ActionSet
  <1>8. h \in [Entries -> DOMAIN Counts] BY <1>5
  <1>9. \A i, j \in Entries : h[i] = h[j] => i = j BY <1>6
  <1>10. \A a \in DOMAIN Counts : \E i \in Entries : h[i] = a BY <1>7
  <1> HIDE DEF h
  <1>11. h \in Injection(Entries, DOMAIN Counts) BY <1>8, <1>9 DEF Injection, IsInjective
  <1>12. h \in Surjection(Entries, DOMAIN Counts) BY <1>8, <1>10 DEF Surjection
  <1>13. IsFiniteSet(DOMAIN Counts) /\ Cardinality(DOMAIN Counts) = Cardinality(Entries)
    BY <1>4, <1>11, <1>12, FS_Surjection
  <1> QED BY <1>4, <1>5, <1>6, <1>7, <1>13

\* The bars are the entries, one each, the longest first.
LEMMA BarsFacts ==
    ASSUME AnalyticsOK
    PROVE  /\ Bars \in Seq(STRING) /\ Len(Bars) = Cardinality(DOMAIN Counts)
           /\ DOMAIN Bars = 1 .. Cardinality(Entries)
           /\ {Bars[n] : n \in DOMAIN Bars} = DOMAIN Counts
           /\ \A n \in DOMAIN Bars : Bars[n] \in DOMAIN Counts
           /\ \A m, n \in DOMAIN Bars : Bars[m] = Bars[n] => m = n
           /\ \A m, n \in DOMAIN Bars : m < n => Counts[Bars[m]] >= Counts[Bars[n]]
  <1> DEFINE N == Cardinality(Entries)
             R == {p \in Entries \X Entries : Longer(p[1], p[2])}
             count(i) == Counts[Actions[i]]
             nth(n) == CHOOSE i \in Entries : Cardinality({j \in Entries : Longer(j, i)}) = n - 1
  <1>1. \A i, j \in Entries : Longer(i, j) <=> count(i) > count(j) \/ (count(i) = count(j) /\ i < j)
    BY DEF Longer
  <1>2. \A i \in Entries : i \in Nat /\ count(i) \in Nat BY EntriesFacts
  <1>3. N \in Nat /\ IsFiniteSet(Entries) BY EntriesFacts
  <1>4. \A i, j \in Entries : <<i, j>> \in R <=> Longer(i, j) OBVIOUS
  <1> HIDE DEF R
  <1>5. Orders(R, Entries)
    <2> HIDE DEF count
    <2> QED BY <1>1, <1>2, <1>4 DEF Orders
  <1>6. \A i \in Entries : Ahead(R, Entries, i) = {j \in Entries : Longer(j, i)} BY <1>4 DEF Ahead
  <1> DEFINE rank(i) == Cardinality(Ahead(R, Entries, i))
  <1>7. /\ \A i \in Entries : rank(i) \in 0 .. N - 1
        /\ \A i, j \in Entries : rank(i) < rank(j) <=> <<i, j>> \in R
        /\ \A i, j \in Entries : rank(i) = rank(j) => i = j
        /\ \A n \in 1 .. N : \E i \in Entries : rank(i) = n - 1
    BY <1>3, <1>5, EveryPlaceIsTaken
  <1> HIDE DEF rank
  <1>8. ASSUME NEW n \in 1 .. N PROVE nth(n) \in Entries /\ rank(nth(n)) = n - 1
    <2>1. \E i \in Entries : Cardinality({j \in Entries : Longer(j, i)}) = n - 1
      BY <1>6, <1>7 DEF rank
    <2>2. nth(n) \in Entries /\ Cardinality({j \in Entries : Longer(j, nth(n))}) = n - 1 BY <2>1
    <2> QED BY <1>6, <2>2 DEF rank
  <1>9. Bars = [n \in 1 .. N |-> Actions[nth(n)]] BY DEF Bars
  <1> HIDE DEF nth, N
  <1>10. \A n \in 1 .. N : nth(n) \in Entries /\ rank(nth(n)) = n - 1 BY <1>8
  <1>11. DOMAIN Bars = 1 .. N /\ \A n \in 1 .. N : Bars[n] = Actions[nth(n)] BY <1>9
  <1>12. \A n \in 1 .. N : Bars[n] \in DOMAIN Counts BY <1>10, <1>11, EntriesFacts
  <1>13. Bars \in Seq(STRING) /\ Len(Bars) = N
    <2>1. \A n \in 1 .. N : Bars[n] \in STRING
      <3>1. \A i \in Entries : Actions[i] \in STRING BY ChartAssumption, ElementOfSeq DEF Entries
      <3> QED BY <1>10, <1>11, <3>1
    <2>2. Bars = [n \in 1 .. N |-> Bars[n]] BY <1>9, <1>11
    <2>3. Bars \in Seq(STRING) BY <1>3, <2>1, <2>2, IsASeq
    <2> QED BY <1>3, <1>11, <2>3, LenProperties
  <1>14. \A i \in Entries : \E n \in 1 .. N : nth(n) = i
    <2> TAKE i \in Entries
    <2> DEFINE n == rank(i) + 1
    <2>1. n \in 1 .. N /\ n - 1 = rank(i) BY <1>3, <1>7
    <2> HIDE DEF n
    <2>2. nth(n) = i BY <1>7, <1>10, <2>1
    <2> QED BY <2>1, <2>2
  <1>15. {Bars[n] : n \in 1 .. N} = DOMAIN Counts
    <2>1. \A a \in DOMAIN Counts : \E i \in Entries : a = Actions[i] BY EntriesFacts
    <2>2. \A a \in DOMAIN Counts : \E n \in 1 .. N : a = Bars[n] BY <1>11, <1>14, <2>1
    <2> QED BY <1>12, <2>2
  <1>16. ASSUME NEW m \in 1 .. N, NEW n \in 1 .. N, Bars[m] = Bars[n] PROVE m = n
    <2>1. nth(m) = nth(n) BY <1>10, <1>11, <1>16, EntriesFacts
    <2>2. m - 1 = n - 1 BY <1>10, <2>1
    <2> QED BY <1>3, <2>2
  <1>17. ASSUME NEW m \in 1 .. N, NEW n \in 1 .. N, m < n PROVE Counts[Bars[m]] >= Counts[Bars[n]]
    <2>1. rank(nth(m)) < rank(nth(n)) BY <1>3, <1>10, <1>17
    <2>2. Longer(nth(m), nth(n)) BY <1>4, <1>7, <1>10, <2>1
    <2>3. count(nth(m)) >= count(nth(n)) BY <1>1, <1>2, <1>10, <2>2
    <2> QED BY <1>11, <2>3
  <1> QED BY <1>11, <1>12, <1>13, <1>15, <1>16, <1>17, EntriesFacts DEF N

LEMMA BarsMatch == AnalyticsOK => BarsMatchCards
  <1> SUFFICES ASSUME AnalyticsOK PROVE BarsMatchCards OBVIOUS
  <1> DEFINE D == DOMAIN Counts
             E == DOMAIN Bars
             lengths == [n \in E |-> Counts[Bars[n]]]
  <1>1. /\ Len(Bars) = Cardinality(D) /\ E = 1 .. Cardinality(Entries) /\ {Bars[n] : n \in E} = D
        /\ \A n \in E : Bars[n] \in D /\ lengths[n] = Counts[Bars[n]]
        /\ \A m, n \in E : Bars[m] = Bars[n] => m = n
        /\ \A m, n \in E : m < n => lengths[m] >= lengths[n]
    BY BarsFacts
  <1>2. IsFiniteSet(D) /\ IsFiniteSet(E)
    <2>1. 1 \in Int /\ Cardinality(Entries) \in Int BY EntriesFacts
    <2>2. IsFiniteSet(1 .. Cardinality(Entries)) BY <2>1, FS_Interval
    <2> QED BY <1>1, <2>2, EntriesFacts
  <1>3. \A a \in D : Counts[a] \in Int BY CountsTyped
  <1>4. DOMAIN lengths = E OBVIOUS
  <1> HIDE DEF lengths, D, E
  <1>5. PICK g : IsSum(Counts, D, g) BY <1>2, SumExists
  <1>6. PICK k : IsSum(lengths, E, k) BY <1>2, SumExists
  <1>7. Total(Counts) = g[D] BY <1>2, <1>5, TotalIsSum DEF D
  <1>8. Total(lengths) = k[E] BY <1>2, <1>4, <1>6, TotalIsSum
  <1>9. k[E] = g[{Bars[n] : n \in E}]
    <2>1. \A y \in E : Bars[y] \in D /\ lengths[y] = Counts[Bars[y]] BY <1>1
    <2>2. \A y, z \in E : Bars[y] = Bars[z] => y = z BY <1>1
    <2>3. \A x \in D : Counts[x] \in Int BY <1>3
    <2> QED BY <1>2, <1>5, <1>6, <2>1, <2>2, <2>3, SumReindexed
  <1>10. Total(lengths) = Total(Counts) BY <1>1, <1>7, <1>8, <1>9
  <1> QED BY <1>1, <1>10, CountsTyped DEF BarsMatchCards, lengths, D, E

-----------------------------------------------------------------------------
(* The tooltips.                                                           *)

ChartNames == {"leads", "proposals", "revenue", "source", "project", "cashFlow", "visitors", "breakdown"}

\* What the tooltip needs of a chart: one series at least; a point without a name has
\* no prefix or label; and where the axis is hidden, the points have names of their own, which
\* the header shows as they are.
Named(c) ==
    /\ DOMAIN c.series = 1 .. Len(c.series) /\ Len(c.series) \in Nat \ {0}
    /\ DOMAIN c.points = 1 .. Len(c.points) /\ Len(c.points) \in Nat
    /\ ~c.options.hideLabel =>
          \A i \in DOMAIN c.points : c.points[i] = "" => c.options.prefix = "" /\ "" \notin DOMAIN c.config
    /\ c.axisHidden /\ ~c.options.hideLabel =>
          /\ \A i \in DOMAIN c.points : c.points[i] # "" /\ c.points[i] \notin DOMAIN c.config
          /\ \A i, j \in DOMAIN c.points : c.points[i] = c.points[j] => i = j

LEMMA TwoPoints ==
    ASSUME NEW a, NEW b, a # b
    PROVE  /\ DOMAIN <<a, b>> = 1 .. Len(<<a, b>>) /\ Len(<<a, b>>) \in Nat
           /\ \A i \in DOMAIN <<a, b>> : <<a, b>>[i] \in {a, b}
           /\ \A i, j \in DOMAIN <<a, b>> : <<a, b>>[i] = <<a, b>>[j] => i = j
  OBVIOUS

LEMMA ChartsAreNamed ==
    ASSUME AnalyticsOK, chart \in ChartNames
    PROVE  Named(Shown)
  <1>1. CASE chart = "leads"
    <2> DEFINE P == {"1-5", "6-10", "11-15", "16-20", "21-25", "26-30"}
               K == {"newLeads", "disqualified", "background"}
    <2>1. DOMAIN LeadsChart.series = 1 .. Len(LeadsChart.series) /\ Len(LeadsChart.series) \in Nat \ {0}
      BY DEF LeadsChart
    <2> DEFINE points == <<"1-5", "6-10", "11-15", "16-20", "21-25", "26-30">>
    <2>2. LeadsChart.points = points BY DEF LeadsChart, Spans
    <2>6. /\ DOMAIN points = 1 .. Len(points) /\ Len(points) \in Nat
          /\ \A i \in DOMAIN points : points[i] \in P
          /\ \A i, j \in DOMAIN points : points[i] = points[j] => i = j
      OBVIOUS
    <2>3. DOMAIN LeadsChart.config = K BY DEF LeadsChart, CrmConfig
    <2>4. \A p \in P : p # "" /\ p \notin K OBVIOUS
    <2> HIDE DEF P, K, points
    <2>5. Named(LeadsChart) BY <2>1, <2>2, <2>3, <2>4, <2>6, Zenon DEF Named
    <2> QED BY <1>1, <2>5 DEF Shown, Catalogue
  <1>2. CASE chart = "proposals"
    <2> DEFINE P == {"1-5", "6-10", "11-15", "16-20", "21-25", "26-30"}
               K == {"proposalsSent"}
    <2>1. DOMAIN ProposalsChart.series = 1 .. Len(ProposalsChart.series) /\ Len(ProposalsChart.series) \in Nat \ {0}
      BY DEF ProposalsChart
    <2> DEFINE points == <<"1-5", "6-10", "11-15", "16-20", "21-25", "26-30">>
    <2>2. ProposalsChart.points = points BY DEF ProposalsChart, Spans
    <2>6. /\ DOMAIN points = 1 .. Len(points) /\ Len(points) \in Nat
          /\ \A i \in DOMAIN points : points[i] \in P
          /\ \A i, j \in DOMAIN points : points[i] = points[j] => i = j
      OBVIOUS
    <2>3. DOMAIN ProposalsChart.config = K BY DEF ProposalsChart, CrmConfig
    <2>4. \A p \in P : p # "" /\ p \notin K OBVIOUS
    <2> HIDE DEF P, K, points
    <2>5. Named(ProposalsChart) BY <2>1, <2>2, <2>3, <2>4, <2>6, Zenon DEF Named
    <2> QED BY <1>2, <2>5 DEF Shown, Catalogue
  <1>3. CASE chart = "revenue"
    <2> DEFINE P == {"Jul 2024", "Jun 2025"}
               K == {"revenue"}
    <2>1. DOMAIN RevenueChart.series = 1 .. Len(RevenueChart.series) /\ Len(RevenueChart.series) \in Nat \ {0}
      BY DEF RevenueChart
    <2> DEFINE points == <<"Jul 2024", "Jun 2025">>
    <2>2. RevenueChart.points = points BY DEF RevenueChart
    <2>6. /\ DOMAIN points = 1 .. Len(points) /\ Len(points) \in Nat
          /\ \A i \in DOMAIN points : points[i] \in P
          /\ \A i, j \in DOMAIN points : points[i] = points[j] => i = j
      BY TwoPoints, Zenon
    <2>3. DOMAIN RevenueChart.config = K BY DEF RevenueChart, CrmConfig
    <2>4. \A p \in P : p # "" /\ p \notin K OBVIOUS
    <2> HIDE DEF P, K, points
    <2>5. Named(RevenueChart) BY <2>1, <2>2, <2>3, <2>4, <2>6, Zenon DEF Named
    <2> QED BY <1>3, <2>5 DEF Shown, Catalogue
  <1>4. CASE chart = "project"
    <2> DEFINE P == {"MVP Development", "Consultation"}
               K == {"actual", "remaining", "label"}
    <2>1. DOMAIN ProjectChart.series = 1 .. Len(ProjectChart.series) /\ Len(ProjectChart.series) \in Nat \ {0}
      BY DEF ProjectChart
    <2> DEFINE points == <<"MVP Development", "Consultation">>
    <2>2. ProjectChart.points = points BY DEF ProjectChart
    <2>6. /\ DOMAIN points = 1 .. Len(points) /\ Len(points) \in Nat
          /\ \A i \in DOMAIN points : points[i] \in P
          /\ \A i, j \in DOMAIN points : points[i] = points[j] => i = j
      BY TwoPoints, Zenon
    <2>3. DOMAIN ProjectChart.config = K BY DEF ProjectChart, CrmConfig
    <2>4. \A p \in P : p # "" /\ p \notin K OBVIOUS
    <2> HIDE DEF P, K, points
    <2>5. Named(ProjectChart) BY <2>1, <2>2, <2>3, <2>4, <2>6, Zenon DEF Named
    <2> QED BY <1>4, <2>5 DEF Shown, Catalogue
  <1>5. CASE chart = "visitors"
    <2> DEFINE P == {"January", "February"}
               K == {"desktop", "mobile"}
    <2>1. DOMAIN VisitorsChart.series = 1 .. Len(VisitorsChart.series) /\ Len(VisitorsChart.series) \in Nat \ {0}
      BY DEF VisitorsChart
    <2> DEFINE points == <<"January", "February">>
    <2>2. VisitorsChart.points = points BY DEF VisitorsChart
    <2>6. /\ DOMAIN points = 1 .. Len(points) /\ Len(points) \in Nat
          /\ \A i \in DOMAIN points : points[i] \in P
          /\ \A i, j \in DOMAIN points : points[i] = points[j] => i = j
      BY TwoPoints, Zenon
    <2>3. DOMAIN VisitorsChart.config = K BY DEF VisitorsChart
    <2>4. \A p \in P : p # "" /\ p \notin K OBVIOUS
    <2> HIDE DEF P, K, points
    <2>5. Named(VisitorsChart) BY <2>1, <2>2, <2>3, <2>4, <2>6, Zenon DEF Named
    <2> QED BY <1>5, <2>5 DEF Shown, Catalogue
  <1>6. CASE chart = "source"
    <2>1. DOMAIN SourceChart.series = 1 .. Len(SourceChart.series) /\ Len(SourceChart.series) \in Nat \ {0} BY DEF SourceChart
    <2>2. DOMAIN SourceChart.points = 1 .. Len(SourceChart.points) /\ Len(SourceChart.points) \in Nat BY DEF SourceChart, Sources
    <2>3. SourceChart.options.prefix = "" /\ SourceChart.options.hideLabel BY DEF SourceChart, Options
    <2>4. Named(SourceChart) BY <2>1, <2>2, <2>3, Zenon DEF Named
    <2> QED BY <1>6, <2>4 DEF Shown, Catalogue
  <1>7. CASE chart = "cashFlow"
    <2>1. DOMAIN CashFlowChart.series = 1 .. Len(CashFlowChart.series) /\ Len(CashFlowChart.series) \in Nat \ {0} BY DEF CashFlowChart
    <2>2. DOMAIN CashFlowChart.points = 1 .. Len(CashFlowChart.points) /\ Len(CashFlowChart.points) \in Nat BY DEF CashFlowChart
    <2>3. CashFlowChart.options.prefix = "" /\ CashFlowChart.options.hideLabel BY DEF CashFlowChart, Options
    <2>4. Named(CashFlowChart) BY <2>1, <2>2, <2>3, Zenon DEF Named
    <2> QED BY <1>7, <2>4 DEF Shown, Catalogue
  <1>8. CASE chart = "breakdown"
    <2>1. DOMAIN BreakdownChart.series = 1 .. Len(BreakdownChart.series) /\ Len(BreakdownChart.series) \in Nat \ {0}
      BY DEF BreakdownChart
    <2>2. DOMAIN Bars = 1 .. Len(Bars) /\ Len(Bars) \in Nat BY BarsFacts, LenProperties
    <2>3. BreakdownChart.points = Bars BY DEF BreakdownChart
    <2>4. BreakdownChart.options.prefix = "" /\ "" \notin DOMAIN BreakdownChart.config /\ ~BreakdownChart.axisHidden
      BY DEF BreakdownChart, Options
    <2>5. Named(BreakdownChart) BY <2>1, <2>2, <2>3, <2>4, Zenon DEF Named
    <2> QED BY <1>8, <2>5 DEF Shown, Catalogue
  <1> QED BY <1>1, <1>2, <1>3, <1>4, <1>5, <1>6, <1>7, <1>8 DEF ChartNames

LEMMA ColoursDefined == chart \in ChartNames => ColoursAreDefined
  <1> SUFFICES ASSUME chart \in ChartNames PROVE Shown.uses \subseteq ChartStyle(Shown.config)
    BY DEF ColoursAreDefined
  <1>1. CASE chart = "leads"
    <2>1. LeadsChart.uses = {"background", "newLeads", "disqualified"} BY DEF LeadsChart
    <2>2. /\ "background" \in DOMAIN LeadsChart.config /\ LeadsChart.config["background"].colour
          /\ "newLeads" \in DOMAIN LeadsChart.config /\ LeadsChart.config["newLeads"].colour
          /\ "disqualified" \in DOMAIN LeadsChart.config /\ LeadsChart.config["disqualified"].colour
      BY DEF LeadsChart, CrmConfig, Coloured, Labelled
    <2> QED BY <1>1, <2>1, <2>2 DEF ChartStyle, Shown, Catalogue
  <1>2. CASE chart = "proposals"
    <2>1. ProposalsChart.uses = {"proposalsSent"} BY DEF ProposalsChart
    <2>2. /\ "proposalsSent" \in DOMAIN ProposalsChart.config /\ ProposalsChart.config["proposalsSent"].colour
      BY DEF ProposalsChart, CrmConfig, Coloured, Labelled
    <2> QED BY <1>2, <2>1, <2>2 DEF ChartStyle, Shown, Catalogue
  <1>3. CASE chart = "revenue"
    <2>1. RevenueChart.uses = {"revenue"} BY DEF RevenueChart
    <2>2. /\ "revenue" \in DOMAIN RevenueChart.config /\ RevenueChart.config["revenue"].colour
      BY DEF RevenueChart, CrmConfig, Coloured, Labelled
    <2> QED BY <1>3, <2>1, <2>2 DEF ChartStyle, Shown, Catalogue
  <1>4. CASE chart = "source"
    <2>1. SourceChart.uses = {"website", "referral", "social", "cold", "other"} BY DEF SourceChart, Sources
    <2>2. /\ "website" \in DOMAIN SourceChart.config /\ SourceChart.config["website"].colour
          /\ "referral" \in DOMAIN SourceChart.config /\ SourceChart.config["referral"].colour
          /\ "social" \in DOMAIN SourceChart.config /\ SourceChart.config["social"].colour
          /\ "cold" \in DOMAIN SourceChart.config /\ SourceChart.config["cold"].colour
          /\ "other" \in DOMAIN SourceChart.config /\ SourceChart.config["other"].colour
      BY DEF SourceChart, CrmConfig, Coloured, Labelled
    <2> QED BY <1>4, <2>1, <2>2 DEF ChartStyle, Shown, Catalogue
  <1>5. CASE chart = "project"
    <2>1. ProjectChart.uses = {"actual", "remaining"} BY DEF ProjectChart
    <2>2. /\ "actual" \in DOMAIN ProjectChart.config /\ ProjectChart.config["actual"].colour
          /\ "remaining" \in DOMAIN ProjectChart.config /\ ProjectChart.config["remaining"].colour
      BY DEF ProjectChart, CrmConfig, Coloured, Labelled
    <2> QED BY <1>5, <2>1, <2>2 DEF ChartStyle, Shown, Catalogue
  <1>6. CASE chart = "visitors"
    <2>1. VisitorsChart.uses = {"mobile", "desktop"} BY DEF VisitorsChart
    <2>2. /\ "mobile" \in DOMAIN VisitorsChart.config /\ VisitorsChart.config["mobile"].colour
          /\ "desktop" \in DOMAIN VisitorsChart.config /\ VisitorsChart.config["desktop"].colour
      BY DEF VisitorsChart, Coloured, Labelled
    <2> QED BY <1>6, <2>1, <2>2 DEF ChartStyle, Shown, Catalogue
  <1>7. CASE chart = "breakdown"
    <2>1. BreakdownChart.uses = {"count"} BY DEF BreakdownChart
    <2>2. /\ "count" \in DOMAIN BreakdownChart.config /\ BreakdownChart.config["count"].colour
      BY DEF BreakdownChart, Coloured, Labelled
    <2> QED BY <1>7, <2>1, <2>2 DEF ChartStyle, Shown, Catalogue
  <1>8. CASE chart = "cashFlow"
    <2>1. CashFlowChart.uses = {} BY DEF CashFlowChart
    <2> QED BY <1>8, <2>1 DEF Shown, Catalogue
  <1> QED BY <1>1, <1>2, <1>3, <1>4, <1>5, <1>6, <1>7, <1>8 DEF ChartNames

\* The header is shown above the rows or in the only one, and never twice.
LEMMA HeaderIsShownOnce ==
    ASSUME NEW c, Named(c), NEW point
    PROVE  Headers(Tooltip(c, point)) = IF Header(c, point) = <<>> THEN 0 ELSE 1
  <1> DEFINE t == Tooltip(c, point)
             shown == {i \in DOMAIN t.rows : t.rows[i].header # <<>>}
  <1>1. /\ t.header = (IF NestLabel(c) THEN <<>> ELSE Header(c, point))
        /\ DOMAIN t.rows = DOMAIN c.series
        /\ \A i \in DOMAIN c.series : t.rows[i] = Row(c, c.series[i], point)
    BY DEF Tooltip
  <1>2. \A s : Row(c, s, point).header = (IF NestLabel(c) THEN Header(c, point) ELSE <<>>) BY DEF Row
  <1>3. \A i \in DOMAIN c.series : t.rows[i].header = (IF NestLabel(c) THEN Header(c, point) ELSE <<>>)
    BY <1>1, <1>2
  <1>4. DOMAIN c.series = 1 .. Len(c.series) BY DEF Named
  <1>5. Headers(t) = (IF t.header = <<>> THEN 0 ELSE 1) + Cardinality(shown) BY DEF Headers
  <1>6. Cardinality({}) = 0 /\ Cardinality({1}) = 1 BY FS_EmptySet, FS_Singleton
  <1> HIDE DEF t
  <1>7. CASE NestLabel(c)
    <2>1. DOMAIN c.series = {1} BY <1>4, <1>7 DEF NestLabel
    <2>2. t.header = <<>> BY <1>1, <1>7
    <2>3. shown = IF Header(c, point) = <<>> THEN {} ELSE {1} BY <1>1, <1>3, <1>7, <2>1
    <2> HIDE DEF shown
    <2>4. Cardinality(shown) = IF Header(c, point) = <<>> THEN 0 ELSE 1 BY <1>6, <2>3
    <2> QED BY <1>5, <2>2, <2>4 DEF t
  <1>8. CASE ~NestLabel(c)
    <2>1. t.header = Header(c, point) BY <1>1, <1>8
    <2>2. shown = {} BY <1>1, <1>3, <1>8
    <2> HIDE DEF shown
    <2>3. Cardinality(shown) = 0 BY <1>6, <2>2
    <2> QED BY <1>5, <2>1, <2>3 DEF t
  <1> QED BY <1>7, <1>8

LEMMA HeaderShows ==
    ASSUME NEW c, Named(c), NEW i \in DOMAIN c.points
    PROVE  Header(c, c.points[i]) = <<>> <=> c.options.hideLabel \/ c.points[i] = ""
  <1> DEFINE point == c.points[i]
             value == IF point \in DOMAIN c.config THEN Or(c.config[point].label, point) ELSE point
  <1>1. value = "" => point = "" BY DEF Or
  <1>2. ~c.options.hideLabel /\ point = "" => c.options.prefix = "" /\ value = "" BY DEF Named
  <1>3. Header(c, point) = IF c.options.hideLabel \/ (c.options.prefix = "" /\ value = "")
                           THEN <<>> ELSE <<c.options.prefix, value>>
    BY DEF Header
  <1>4. \A a, b : <<a, b>> # <<>> OBVIOUS
  <1> HIDE DEF value
  <1> QED BY <1>1, <1>2, <1>3, <1>4

LEMMA NamedTyped ==
    ASSUME NEW c, Named(c)
    PROVE  /\ DOMAIN c.series = 1 .. Len(c.series) /\ 1 \in DOMAIN c.series
           /\ DOMAIN c.points = 1 .. Len(c.points) /\ Len(c.points) \in Nat
  <1> DEFINE n == Len(c.series)
  <1>1. /\ DOMAIN c.series = 1 .. n /\ n \in Nat \ {0}
        /\ DOMAIN c.points = 1 .. Len(c.points) /\ Len(c.points) \in Nat
    BY Zenon DEF Named
  <1> HIDE DEF n
  <1>2. 1 \in 1 .. n BY <1>1
  <1> QED BY <1>1, <1>2, Zenon DEF n

\* A header that shows its point as it is tells it from every other.
LEMMA TooltipsDiffer ==
    ASSUME NEW c, Named(c), c.axisHidden, ~c.options.hideLabel,
           NEW i \in DOMAIN c.points, NEW j \in DOMAIN c.points, i # j
    PROVE  Tooltip(c, c.points[i]) # Tooltip(c, c.points[j])
  <1> DEFINE p == c.points[i]
             q == c.points[j]
  <1>1. p # q /\ p # "" /\ q # "" /\ p \notin DOMAIN c.config /\ q \notin DOMAIN c.config BY DEF Named
  <1>2. 1 \in DOMAIN c.series BY NamedTyped
  <1> HIDE DEF p, q
  <1>3. Header(c, p) = <<c.options.prefix, p>> /\ Header(c, q) = <<c.options.prefix, q>> BY <1>1 DEF Header
  <1>4. Header(c, p) # Header(c, q)
    <2>1. ASSUME NEW a, NEW x, NEW y, x # y PROVE <<a, x>> # <<a, y>> BY <2>1
    <2> QED BY <1>1, <1>3, <2>1, Zenon
  <1>5. CASE NestLabel(c)
    <2>1. \A point : Tooltip(c, point).rows[1].header = Header(c, point)
      <3> TAKE point
      <3>1. Tooltip(c, point).rows[1] = Row(c, c.series[1], point) BY <1>2 DEF Tooltip
      <3>2. Row(c, c.series[1], point).header = Header(c, point) BY <1>5 DEF Row
      <3> QED BY <3>1, <3>2, Zenon
    <2> QED BY <1>4, <2>1, Zenon DEF p, q
  <1>6. CASE ~NestLabel(c)
    <2>1. \A point : Tooltip(c, point).header = Header(c, point) BY <1>6 DEF Tooltip
    <2> QED BY <1>4, <2>1, Zenon DEF p, q
  <1> QED BY <1>5, <1>6

\* A slice of the pie is called what the legend calls it.
LEMMA SliceIsLabelled ==
    ASSUME NEW i \in DOMAIN SourceChart.points
    PROVE  LET point == SourceChart.points[i]
           IN  Tooltip(SourceChart, point).rows[1].label = Legend(point)
  <1> DEFINE point == SourceChart.points[i]
             P == {"website", "referral", "social", "cold", "other"}
             labels == CrmConfig.source
  <1>1. /\ SourceChart.points = Sources /\ SourceChart.series = <<"leads">> /\ SourceChart.pie
        /\ SourceChart.field = "source" /\ SourceChart.config = labels
    BY DEF SourceChart
  <1>2. \A k \in DOMAIN Sources : Sources[k] \in P BY DEF Sources
  <1>3. point \in P BY <1>1, <1>2
  <1>4. \A s \in P : s \in DOMAIN labels /\ s \notin {"name", "dataKey", "source"} BY DEF CrmConfig
  <1>5. /\ labels["website"].label = "Website" /\ labels["referral"].label = "Referral"
        /\ labels["social"].label = "Social Media" /\ labels["cold"].label = "Cold Outreach"
        /\ labels["other"].label = "Other"
    BY Zenon DEF CrmConfig, Coloured
  <1>6. \A s \in P : labels[s].label # ""
    <2>1. /\ "Website" # "" /\ "Referral" # "" /\ "Social Media" # "" /\ "Cold Outreach" # "" /\ "Other" # ""
      BY Zenon
    <2> QED BY <1>5, <2>1, Zenon
  <1> HIDE DEF P, point, labels
  <1>7. Name(SourceChart, "leads", point) = point BY <1>1 DEF Name
  <1> DEFINE strings == Strings(SourceChart, "leads", point)
  <1>8. DOMAIN strings = {"name", "dataKey", "source"} BY <1>1 DEF Strings
  <1> HIDE DEF strings
  <1>9. PayloadConfig(labels, strings, point) = labels[point] BY <1>3, <1>4, <1>8 DEF PayloadConfig
  <1>10. Row(SourceChart, "leads", point).label = Or(labels[point].label, point)
    BY <1>1, <1>7, <1>9, Zenon DEF Row, strings
  <1>11. Or(labels[point].label, point) = labels[point].label BY <1>3, <1>6, Zenon DEF Or
  <1>12. Tooltip(SourceChart, point).rows[1] = Row(SourceChart, "leads", point)
    <2>1. 1 \in DOMAIN SourceChart.series /\ SourceChart.series[1] = "leads" BY <1>1
    <2> QED BY <2>1 DEF Tooltip
  <1>13. Legend(point) = labels[point].label BY DEF Legend, labels
  <1> QED BY <1>10, <1>11, <1>12, <1>13, Zenon DEF point

\* No two slices are called the same.
LEMMA SlicesDiffer ==
    ASSUME NEW i \in DOMAIN SourceChart.points, NEW j \in DOMAIN SourceChart.points, i # j
    PROVE  Tooltip(SourceChart, SourceChart.points[i]) # Tooltip(SourceChart, SourceChart.points[j])
  <1> DEFINE label(k) == Legend(SourceChart.points[k])
  <1>1. SourceChart.points = Sources BY DEF SourceChart
  <1>2. /\ DOMAIN Sources = {1, 2, 3, 4, 5} /\ Sources[1] = "website" /\ Sources[2] = "referral"
        /\ Sources[3] = "social" /\ Sources[4] = "cold" /\ Sources[5] = "other"
    BY DEF Sources
  <1>3. /\ CrmConfig.source["website"].label = "Website" /\ CrmConfig.source["referral"].label = "Referral"
        /\ CrmConfig.source["social"].label = "Social Media" /\ CrmConfig.source["cold"].label = "Cold Outreach"
        /\ CrmConfig.source["other"].label = "Other"
    BY Zenon DEF CrmConfig, Coloured
  <1>4. /\ label(1) = "Website" /\ label(2) = "Referral" /\ label(3) = "Social Media"
        /\ label(4) = "Cold Outreach" /\ label(5) = "Other"
    BY <1>1, <1>2, <1>3, Zenon DEF Legend
  <1>5. label(i) # label(j)
    <2> DEFINE a == "Website"
               b == "Referral"
               c == "Social Media"
               d == "Cold Outreach"
               e == "Other"
    <2>1. i \in {1, 2, 3, 4, 5} /\ j \in {1, 2, 3, 4, 5} BY <1>1, <1>2
    <2>2. /\ a # b /\ a # c /\ a # d /\ a # e /\ b # c
          /\ b # d /\ b # e /\ c # d /\ c # e /\ d # e
      BY Zenon
    <2>3. label(1) = a /\ label(2) = b /\ label(3) = c /\ label(4) = d /\ label(5) = e BY <1>4, Zenon
    <2> HIDE DEF label, a, b, c, d, e
    <2> QED BY <2>1, <2>2, <2>3
  <1> QED BY <1>5, SliceIsLabelled, Zenon

-----------------------------------------------------------------------------
(* The charts, with the pointer and the answers moving under them.         *)

ChartIndInv == chart \in ChartNames /\ AnalyticsOK /\ active \in 0 .. Len(Shown.points)

LEMMA PointsAreNamed == chart \in ChartNames /\ AnalyticsOK /\ active \in 0 .. Len(Shown.points) => PointIsNamed
  <1> SUFFICES ASSUME ChartIndInv, active # 0 PROVE PointIsNamed BY DEF ChartIndInv, PointIsNamed
  <1>1. Named(Shown) BY ChartsAreNamed DEF ChartIndInv
  <1>2. active \in DOMAIN Shown.points
    <2> DEFINE n == Len(Shown.points)
    <2>1. active \in 0 .. n BY DEF ChartIndInv
    <2>2. n \in Nat /\ DOMAIN Shown.points = 1 .. n BY <1>1, NamedTyped
    <2> HIDE DEF n
    <2> QED BY <2>1, <2>2
  <1> DEFINE point == Shown.points[active]
  <1>3. Headers(Tooltip(Shown, point)) = IF Shown.options.hideLabel \/ point = "" THEN 0 ELSE 1
    BY <1>1, <1>2, HeaderIsShownOnce, HeaderShows, Zenon
  <1>4. ASSUME Shown.axisHidden, NEW i \in DOMAIN Shown.points \ {active}
        PROVE  Tooltip(Shown, Shown.points[i]) # Tooltip(Shown, point)
    <2>1. CASE ~Shown.options.hideLabel BY <1>1, <1>2, <1>4, <2>1, TooltipsDiffer
    <2>2. CASE Shown.options.hideLabel
      <3>1. chart = "source"
        <4>1. /\ LeadsChart.options.hideLabel = FALSE /\ ProposalsChart.options.hideLabel = FALSE
              /\ RevenueChart.options.hideLabel = FALSE /\ ProjectChart.options.hideLabel = FALSE
              /\ VisitorsChart.options.hideLabel = FALSE
              /\ CashFlowChart.axisHidden = FALSE /\ BreakdownChart.axisHidden = FALSE
          BY Zenon DEF LeadsChart, ProposalsChart, RevenueChart, ProjectChart, VisitorsChart, CashFlowChart,
                       BreakdownChart, Options
        <4> QED BY <1>4, <2>2, <4>1 DEF Shown, Catalogue, ChartIndInv, ChartNames
      <3>2. Shown = SourceChart BY <3>1 DEF Shown, Catalogue
      <3> QED BY <1>2, <1>4, <3>2, SlicesDiffer
    <2> QED BY <2>1, <2>2
  <1> QED BY <1>3, <1>4, Zenon DEF PointIsNamed

LEMMA PlaceInBars == AnalyticsOK => Len(Bars) = Cardinality(DOMAIN Counts) /\ Len(Bars) \in Nat
  BY BarsFacts, LenProperties

\* For any actions and counts: whatever chart is looked at, colours, tooltip, legend,
\* bars and cards agree, and the pointer is at a point the chart has.
THEOREM ChartInvariance == ChartSpec => []ChartInv
  <1>1. ChartInit => ChartIndInv
    <2> SUFFICES ASSUME ChartInit PROVE ChartIndInv OBVIOUS
    <2>1. chart \in ChartNames /\ AnalyticsOK /\ active = 0 BY DEF ChartInit, ChartNames, AnalyticsOK
    <2>2. Len(Shown.points) \in Nat BY <2>1, ChartsAreNamed DEF Named
    <2> QED BY <2>1, <2>2 DEF ChartIndInv
  <1>2. ChartIndInv /\ [ChartNext]_chartVars => ChartIndInv'
    <2> SUFFICES ASSUME ChartIndInv, [ChartNext]_chartVars PROVE ChartIndInv' OBVIOUS
    <2>1. ASSUME NEW known \in SUBSET ActionSet, NEW counts \in [known -> 1 .. MaxCount], ReceiveCounts(counts)
          PROVE  ChartIndInv'
      <3>1. chart' = chart /\ chart = "breakdown" /\ analytics' = Answer(counts) BY <2>1 DEF ReceiveCounts
      <3>2. DOMAIN counts = known OBVIOUS
      <3>3. AnalyticsOK' BY <3>1, <3>2 DEF AnalyticsOK
      <3>4. Counts' = counts BY <3>1 DEF Counts, Answer, NoAnalytics
      <3>5. Len(Bars)' = Cardinality(known) /\ Len(Bars)' \in Nat
        <4>1. AnalyticsOK' => (Len(Bars) = Cardinality(DOMAIN Counts) /\ Len(Bars) \in Nat)' BY PlaceInBars, PTL
        <4> QED BY <3>2, <3>3, <3>4, <4>1
      <3>6. (Shown.points)' = Bars' BY <3>1 DEF Shown, Catalogue, BreakdownChart
      <3>7. active \in Nat /\ active' = IF active > Cardinality(known) THEN 0 ELSE active
        <4>1. Len(Shown.points) \in Nat BY ChartsAreNamed DEF ChartIndInv, Named
        <4> QED BY <2>1, <3>2, <4>1 DEF ReceiveCounts, ChartIndInv
      <3>8. active' \in 0 .. Len(Bars)' BY <3>5, <3>7
      <3> QED BY <3>1, <3>3, <3>6, <3>8 DEF ChartIndInv
    <2>2. ASSUME UNCHANGED <<chart, analytics>>, active' \in 0 .. Len(Shown.points) PROVE ChartIndInv'
      <3>1. Counts' = Counts /\ Entries' = Entries BY <2>2 DEF Counts, Entries
      <3>2. Bars' = Bars BY <3>1 DEF Bars, Longer
      <3>3. Shown' = Shown BY <2>2, <3>2 DEF Shown, Catalogue, BreakdownChart
      <3>4. AnalyticsOK' BY <2>2 DEF AnalyticsOK, ChartIndInv
      <3> QED BY <2>2, <3>3, <3>4 DEF ChartIndInv
    <2> DEFINE n == Len(Shown.points)
    <2>3. DOMAIN Shown.points = 1 .. n /\ n \in Nat BY ChartsAreNamed, NamedTyped DEF ChartIndInv
    <2> HIDE DEF n
    <2>4. CASE \E i \in DOMAIN Shown.points : Point(i)
      <3>1. PICK i \in DOMAIN Shown.points : Point(i) BY <2>4
      <3>2. i \in 0 .. n BY <2>3, <3>1
      <3> QED BY <2>2, <3>1, <3>2 DEF Point, n
    <2>5. CASE Leave
      <3>1. 0 \in 0 .. n BY <2>3
      <3> QED BY <2>2, <2>5, <3>1 DEF Leave, n
    <2>6. CASE UNCHANGED chartVars BY <2>2, <2>6 DEF ChartIndInv, chartVars
    <2> QED BY <2>1, <2>4, <2>5, <2>6 DEF ChartNext, ActionSet
  <1>3. ChartIndInv => ChartInv
    <2> SUFFICES ASSUME ChartIndInv PROVE ChartInv OBVIOUS
    <2>1. ChartTypeOK BY DEF ChartIndInv, ChartTypeOK, ChartNames, Catalogue
    <2>2. LegendAgrees
      <3> SUFFICES ASSUME chart = "source", active # 0
                   PROVE  Tooltip(Shown, Shown.points[active]).rows[1].label = Legend(Shown.points[active])
        BY DEF LegendAgrees
      <3>1. Shown = SourceChart BY DEF Shown, Catalogue
      <3> DEFINE n == Len(Shown.points)
      <3>2. active \in 0 .. n BY DEF ChartIndInv
      <3>3. DOMAIN Shown.points = 1 .. n /\ n \in Nat BY ChartsAreNamed, NamedTyped DEF ChartIndInv
      <3> HIDE DEF n
      <3>4. active \in DOMAIN Shown.points BY <3>2, <3>3
      <3> QED BY <3>1, <3>4, SliceIsLabelled
    <2> QED BY <2>1, <2>2, PointsAreNamed, ColoursDefined, BarsMatch DEF ChartInv, ChartIndInv
  <1> QED BY <1>1, <1>2, <1>3, PTL DEF ChartSpec
=============================================================================
