------------------------------ MODULE SetLemmas ------------------------------
(***************************************************************************)
(* Facts about sets of numbers that the proofs of several modules need:    *)
(* least and greatest members, and what the newest members of a set are    *)
(* when only some of the set is kept.  Induction is by a least             *)
(* counterexample.                                                         *)
(***************************************************************************)
EXTENDS Integers, FiniteSets, FiniteSetTheorems, WellFoundedInduction, TLAPS

\* A set of natural numbers that is not empty has a least member.
LEMMA LeastNumber ==
    ASSUME NEW T \in SUBSET Nat, T # {}
    PROVE  \E n \in T : \A m \in T : n <= m
  <1> DEFINE R == OpToRel(<, Nat)
  <1>1. IsWellFoundedOn(R, Nat) BY NatLessThanWellFounded
  <1>2. PICK n \in T : \A m \in T : ~(<<m, n>> \in R) BY <1>1, WFMin
  <1>3. \A m \in T : m < n => <<m, n>> \in R BY DEF OpToRel
  <1> HIDE DEF R
  <1>4. \A m \in T : m \in Nat OBVIOUS
  <1>5. ASSUME NEW m \in T PROVE n <= m
    <2>1. ~(m < n) BY <1>2, <1>3
    <2>2. m \in Nat /\ n \in Nat BY <1>4
    <2> QED BY <2>1, <2>2
  <1> QED BY <1>5

\* A finite set that is not empty has a member none of the others is above, for
\* any strict order.
LEMMA MaximalMember ==
    ASSUME NEW D, IsFiniteSet(D), D # {}, NEW R,
           \A x \in D : <<x, x>> \notin R,
           \A x, y, z \in D : <<x, y>> \in R /\ <<y, z>> \in R => <<x, z>> \in R
    PROVE  \E g \in D : \A x \in D : <<g, x>> \notin R
  <1> DEFINE Above(x) == {y \in D : <<x, y>> \in R}
             Sizes    == {Cardinality(Above(x)) : x \in D}
  <1>1. \A x \in D : IsFiniteSet(Above(x)) /\ Cardinality(Above(x)) \in Nat
    BY FS_Subset, FS_CardinalityType
  <1>2. PICK n \in Sizes : \A m \in Sizes : n <= m
    <2>1. Sizes \in SUBSET Nat
      <3> HIDE DEF Above
      <3>1. ASSUME NEW n \in Sizes PROVE n \in Nat BY <1>1
      <3> HIDE DEF Sizes
      <3> QED BY <3>1
    <2>2. PICK x \in D : TRUE OBVIOUS
    <2>3. Cardinality(Above(x)) \in Sizes OBVIOUS
    <2> HIDE DEF Sizes
    <2> QED BY <2>1, <2>3, LeastNumber
  <1>3. PICK g \in D : n = Cardinality(Above(g)) OBVIOUS
  <1>4. ASSUME NEW x \in D, <<g, x>> \in R PROVE FALSE
    <2>0. ASSUME NEW y \in Above(x) PROVE y \in Above(g)
      <3>1. y \in D /\ <<x, y>> \in R OBVIOUS
      <3>2. <<g, y>> \in R BY <1>4, <3>1
      <3> QED BY <3>1, <3>2
    <2>1. Above(x) \subseteq Above(g) /\ x \in Above(g) /\ x \notin Above(x) BY <1>4, <2>0
    <2>2. Cardinality(Above(x)) <= Cardinality(Above(g)) /\ Cardinality(Above(x)) # Cardinality(Above(g))
      BY <1>1, <2>1, FS_Subset
    <2>3. Cardinality(Above(x)) \in Sizes OBVIOUS
    <2> HIDE DEF Above, Sizes
    <2>4. Cardinality(Above(g)) <= Cardinality(Above(x)) BY <1>2, <1>3, <2>3
    <2> QED BY <1>1, <2>2, <2>4
  <1> QED BY <1>4

\* A finite set of numbers that is not empty has a greatest member.
LEMMA GreatestNumber ==
    ASSUME NEW D \in SUBSET Int, IsFiniteSet(D), D # {}
    PROVE  \E g \in D : \A x \in D : x <= g
  <1> DEFINE R == {p \in D \X D : p[1] < p[2]}
  <1>1. \A x \in D : <<x, x>> \notin R OBVIOUS
  <1>2. \A x, y, z \in D : <<x, y>> \in R /\ <<y, z>> \in R => <<x, z>> \in R OBVIOUS
  <1>3. \A x, y \in D : x < y => <<x, y>> \in R OBVIOUS
  <1> HIDE DEF R
  <1>4. PICK g \in D : \A x \in D : <<g, x>> \notin R BY <1>1, <1>2, MaximalMember
  <1>5. \A x \in D : x \in Int OBVIOUS
  <1>6. ASSUME NEW x \in D PROVE x <= g
    <2>1. ~(g < x) BY <1>3, <1>4
    <2>2. g \in Int /\ x \in Int BY <1>5
    <2> QED BY <2>1, <2>2
  <1> QED BY <1>6

-----------------------------------------------------------------------------
(* The newest members of a set of numbers.                                 *)

Above(S, e)      == {f \in S : f > e}
NewestOf(S, cap) == {e \in S : Cardinality(Above(S, e)) < cap}

\* What is above a member of a finite set.
LEMMA AboveFinite ==
    ASSUME NEW S, IsFiniteSet(S), NEW e
    PROVE  IsFiniteSet(Above(S, e)) /\ Cardinality(Above(S, e)) \in Nat
  BY FS_Subset, FS_CardinalityType DEF Above

\* A member that is not among the newest is displaced by newer ones, also where
\* only a part of the set is kept that holds the newest.
LEMMA Displaced ==
    ASSUME NEW S \in SUBSET Nat, IsFiniteSet(S), NEW cap \in Nat, NEW T \in SUBSET S,
           NewestOf(S, cap) \subseteq T, NEW e \in S, e \notin NewestOf(S, cap)
    PROVE  Cardinality(Above(T, e)) >= cap
  <1> DEFINE D == S \ NewestOf(S, cap)
  <1>0. \A x \in S : x \in Nat OBVIOUS
  <1>1. IsFiniteSet(D) /\ e \in D /\ D \in SUBSET Int
    <2>1. IsFiniteSet(D) BY FS_Difference
    <2>2. \A x \in D : x \in Int BY <1>0
    <2>3. D \in SUBSET Int
      <3> HIDE DEF D
      <3> QED BY <2>2
    <2> QED BY <2>1, <2>3
  <1>2. PICK g \in D : \A x \in D : x <= g
    <2> HIDE DEF D
    <2> QED BY <1>1, GreatestNumber
  <1>3. Above(S, g) \subseteq Above(T, g)
    <2> SUFFICES ASSUME NEW f \in S, f > g PROVE f \in T BY DEF Above
    <2>1. f \notin D BY <1>0, <1>2
    <2> QED BY <2>1
  <1>4. e <= g BY <1>1, <1>2
  <1>5. Above(T, g) \subseteq Above(T, e)
    <2> SUFFICES ASSUME NEW f \in T, f > g PROVE f > e BY DEF Above
    <2>1. f \in Nat /\ g \in Nat /\ e \in Nat BY <1>0
    <2> QED BY <1>4, <2>1
  <1>6. IsFiniteSet(T) BY FS_Subset
  <1>7. /\ Cardinality(Above(S, g)) <= Cardinality(Above(T, e))
        /\ Cardinality(Above(S, g)) \in Nat /\ Cardinality(Above(T, e)) \in Nat
    BY <1>3, <1>5, <1>6, AboveFinite, FS_Subset
  <1>8. ~(Cardinality(Above(S, g)) < cap) BY DEF NewestOf
  <1> QED BY <1>7, <1>8

\* A part of the set that holds its newest members has the same newest members.
LEMMA NewestOfPart ==
    ASSUME NEW S \in SUBSET Nat, IsFiniteSet(S), NEW cap \in Nat, NEW T \in SUBSET S,
           NewestOf(S, cap) \subseteq T
    PROVE  NewestOf(T, cap) = NewestOf(S, cap)
  <1>1. IsFiniteSet(T) BY FS_Subset
  <1>2. ASSUME NEW e \in NewestOf(S, cap) PROVE e \in NewestOf(T, cap)
    <2>1. e \in T /\ Cardinality(Above(S, e)) < cap BY DEF NewestOf
    <2>2. Above(T, e) \subseteq Above(S, e) BY DEF Above
    <2>3. Cardinality(Above(T, e)) <= Cardinality(Above(S, e)) BY <2>2, AboveFinite, FS_Subset
    <2> QED BY <1>1, <2>1, <2>3, AboveFinite DEF NewestOf
  <1>3. ASSUME NEW e \in NewestOf(T, cap) PROVE e \in NewestOf(S, cap)
    <2>1. e \in S /\ Cardinality(Above(T, e)) < cap BY DEF NewestOf
    <2>2. ASSUME e \notin NewestOf(S, cap) PROVE FALSE
      <3>1. Cardinality(Above(T, e)) >= cap BY <2>1, <2>2, Displaced
      <3> QED BY <1>1, <2>1, <3>1, AboveFinite
    <2> QED BY <2>2
  <1> QED BY <1>2, <1>3

\* A new member displaces others and brings none but itself.
LEMMA NewestOfAdded ==
    ASSUME NEW S \in SUBSET Nat, IsFiniteSet(S), NEW cap \in Nat, NEW e
    PROVE  NewestOf(S \cup {e}, cap) \subseteq NewestOf(S, cap) \cup {e}
  <1> SUFFICES ASSUME NEW f \in NewestOf(S \cup {e}, cap), f # e PROVE f \in NewestOf(S, cap)
    OBVIOUS
  <1>1. IsFiniteSet(S \cup {e}) BY FS_AddElement
  <1>2. Above(S, f) \subseteq Above(S \cup {e}, f) BY DEF Above
  <1>3. Cardinality(Above(S, f)) <= Cardinality(Above(S \cup {e}, f))
    BY <1>1, <1>2, AboveFinite, FS_Subset
  <1> QED BY <1>1, <1>3, AboveFinite DEF NewestOf

\* The three ways a set and the part of it that is kept change together: a member
\* is added to both; the part is cut down to its newest.
LEMMA KeptAdded ==
    ASSUME NEW S \in SUBSET Nat, IsFiniteSet(S), NEW cap \in Nat, NEW T \in SUBSET S,
           NewestOf(S, cap) \subseteq T, NEW e
    PROVE  NewestOf(S \cup {e}, cap) \subseteq T \cup {e} /\ IsFiniteSet(S \cup {e})
  BY NewestOfAdded, FS_AddElement

LEMMA KeptTrimmed ==
    ASSUME NEW S \in SUBSET Nat, IsFiniteSet(S), NEW cap \in Nat, NEW T \in SUBSET S,
           NewestOf(S, cap) \subseteq T
    PROVE  NewestOf(S, cap) \subseteq NewestOf(T, cap) /\ NewestOf(T, cap) \subseteq S
  BY NewestOfPart DEF NewestOf

-----------------------------------------------------------------------------
(* Sums over a finite set, as the folds of the community modules make      *)
(* them: take a member, add its value to the sum of the others.            *)

SumStep(d, S, g) ==
    IF S = {} THEN 0 ELSE LET x == CHOOSE x \in S : TRUE IN d[x] + g[S \ {x}]
IsSum(d, D, g) == g = [S \in SUBSET D |-> SumStep(d, S, g)]

\* A set of finite sets that is not empty has one none of the others is part of.
LEMMA SmallestSet ==
    ASSUME NEW D, IsFiniteSet(D), NEW Bad \in SUBSET SUBSET D, Bad # {}
    PROVE  \E S \in Bad : \A T \in SUBSET S : T # S => T \notin Bad
  <1> DEFINE Sizes == {Cardinality(S) : S \in Bad}
  <1>1. \A S \in SUBSET D : IsFiniteSet(S) /\ Cardinality(S) \in Nat
    BY FS_Subset, FS_CardinalityType
  <1>2. PICK n \in Sizes : \A m \in Sizes : n <= m
    <2>1. \A m \in Sizes : m \in Nat BY <1>1
    <2>2. Sizes # {} OBVIOUS
    <2> HIDE DEF Sizes
    <2>3. Sizes \in SUBSET Nat BY <2>1
    <2> QED BY <2>2, <2>3, LeastNumber
  <1>3. PICK S \in Bad : n = Cardinality(S) OBVIOUS
  <1>4. ASSUME NEW T \in SUBSET S, T # S, T \in Bad PROVE FALSE
    <2>1. Cardinality(T) <= Cardinality(S) /\ Cardinality(S) # Cardinality(T)
      BY <1>1, <1>4, FS_Subset
    <2>2. Cardinality(T) \in Sizes BY <1>4
    <2> HIDE DEF Sizes
    <2>3. Cardinality(S) <= Cardinality(T) BY <1>2, <1>3, <2>2
    <2>4. Cardinality(S) \in Nat /\ Cardinality(T) \in Nat BY <1>1, <1>4
    <2> QED BY <2>1, <2>3, <2>4
  <1> QED BY <1>4

\* The equations of a sum have a solution.
LEMMA SumExists ==
    ASSUME NEW D, IsFiniteSet(D), NEW d
    PROVE  \E g : IsSum(d, D, g)
  <1> DEFINE Solves(k, g) ==
                 /\ g = [S \in SUBSET D |-> g[S]]
                 /\ \A S \in SUBSET D : Cardinality(S) <= k => g[S] = SumStep(d, S, g)
             Bad == {k \in Nat : ~\E g : Solves(k, g)}
  <1>1. \A S \in SUBSET D : IsFiniteSet(S) /\ Cardinality(S) \in Nat /\ Cardinality(S) <= Cardinality(D)
    BY FS_Subset, FS_CardinalityType
  <1>2. Bad = {}
    <2> SUFFICES ASSUME Bad # {} PROVE FALSE OBVIOUS
    <2>1. PICK k : k \in Bad /\ \A m \in Bad : k <= m
      <3>1. Bad \in SUBSET Nat OBVIOUS
      <3> HIDE DEF Bad
      <3> QED BY <3>1, LeastNumber
    <2>2. k \in Nat /\ ~\E g : Solves(k, g) BY <2>1
    <2>3. CASE k = 0
      <3> DEFINE zero == [S \in SUBSET D |-> 0]
      <3>1. ASSUME NEW S \in SUBSET D, Cardinality(S) <= 0 PROVE zero[S] = SumStep(d, S, zero)
        <4>1. S = {} BY <1>1, <3>1, FS_EmptySet
        <4> QED BY <4>1 DEF SumStep
      <3>2. zero = [S \in SUBSET D |-> zero[S]] OBVIOUS
      <3> HIDE DEF zero
      <3>3. Solves(k, zero) BY <2>3, <3>1, <3>2
      <3> QED BY <2>2, <3>3
    <2>4. CASE k # 0
      <3>1. k - 1 \in Nat /\ ~(k <= k - 1) BY <2>2, <2>4
      <3>2. k - 1 \notin Bad BY <2>1, <3>1
      <3>3. PICK g : Solves(k - 1, g) BY <3>1, <3>2
      <3> DEFINE h == [S \in SUBSET D |-> SumStep(d, S, g)]
      <3>4. ASSUME NEW S \in SUBSET D, Cardinality(S) <= k PROVE h[S] = SumStep(d, S, h)
        <4>1. h[S] = SumStep(d, S, g) OBVIOUS
        <4>2. CASE S = {} BY <4>1, <4>2 DEF SumStep
        <4>3. CASE S # {}
          <5> DEFINE x == CHOOSE x \in S : TRUE
                     R == S \ {x}
          <5>1. x \in S BY <4>3
          <5>2. SumStep(d, S, g) = d[x] + g[R] /\ SumStep(d, S, h) = d[x] + h[R]
            BY <4>3 DEF SumStep
          <5> HIDE DEF x
          <5>3. R \in SUBSET D OBVIOUS
          <5>4. Cardinality(R) = Cardinality(S) - 1 BY <1>1, <5>1, FS_RemoveElement
          <5> HIDE DEF R
          <5>5. Cardinality(R) <= k - 1 BY <1>1, <2>2, <3>4, <5>3, <5>4
          <5>6. g[R] = SumStep(d, R, g) BY <3>3, <5>3, <5>5
          <5>7. h[R] = SumStep(d, R, g) BY <5>3
          <5> HIDE DEF h
          <5> QED BY <4>1, <5>2, <5>6, <5>7
        <4> QED BY <4>2, <4>3
      <3>5. h = [S \in SUBSET D |-> h[S]] OBVIOUS
      <3> HIDE DEF h
      <3>6. Solves(k, h) BY <3>4, <3>5
      <3> QED BY <2>2, <3>6
    <2> QED BY <2>3, <2>4
  <1>3. Cardinality(D) \in Nat BY FS_CardinalityType
  <1>4. PICK g : Solves(Cardinality(D), g) BY <1>2, <1>3
  <1>5. \A S \in SUBSET D : g[S] = SumStep(d, S, g) BY <1>1, <1>4
  <1>6. g = [S \in SUBSET D |-> g[S]] BY <1>4
  <1> HIDE DEF Solves, Bad
  <1>7. g = [S \in SUBSET D |-> SumStep(d, S, g)] BY <1>5, <1>6
  <1> QED BY <1>7 DEF IsSum

\* What the equations say of a set.
LEMMA SumOf ==
    ASSUME NEW D, NEW d, NEW g, IsSum(d, D, g), NEW S \in SUBSET D
    PROVE  /\ g[{}] = 0
           /\ S # {} => \E x \in S : x = (CHOOSE y \in S : TRUE) /\ g[S] = d[x] + g[S \ {x}]
  <1>1. \A T \in SUBSET D : g[T] = SumStep(d, T, g)
    <2> TAKE T \in SUBSET D
    <2>1. g = [U \in SUBSET D |-> SumStep(d, U, g)] BY DEF IsSum
    <2> DEFINE h == [U \in SUBSET D |-> SumStep(d, U, g)]
    <2>2. h[T] = SumStep(d, T, g) OBVIOUS
    <2>3. g = h BY <2>1
    <2> HIDE DEF h
    <2> QED BY <2>2, <2>3
  <1>2. g[{}] = SumStep(d, {}, g) /\ g[S] = SumStep(d, S, g) BY <1>1
  <1> QED BY <1>2 DEF SumStep

\* There is one solution, whatever set the sum is part of.
LEMMA SumUnique ==
    ASSUME NEW D, IsFiniteSet(D), NEW E \in SUBSET D, NEW d, NEW g, NEW h, IsSum(d, D, g), IsSum(d, E, h)
    PROVE  \A S \in SUBSET E : h[S] = g[S]
  <1> DEFINE Bad == {S \in SUBSET E : h[S] # g[S]}
  <1> SUFFICES ASSUME Bad # {} PROVE FALSE OBVIOUS
  <1>1. PICK S : S \in Bad /\ \A T \in SUBSET S : T # S => T \notin Bad
    <2>1. IsFiniteSet(E) /\ Bad \in SUBSET SUBSET E BY FS_Subset
    <2> HIDE DEF Bad
    <2> QED BY <2>1, SmallestSet
  <1>2. S \in SUBSET E /\ S \in SUBSET D /\ h[S] # g[S] BY <1>1
  <1>3. S # {} BY <1>2, SumOf
  <1>4. PICK x : x \in S /\ x = (CHOOSE y \in S : TRUE) /\ g[S] = d[x] + g[S \ {x}] BY <1>2, <1>3, SumOf
  <1>5. PICK z : z \in S /\ z = (CHOOSE y \in S : TRUE) /\ h[S] = d[z] + h[S \ {z}] BY <1>2, <1>3, SumOf
  <1>6. S \ {x} \in SUBSET S /\ S \ {x} # S BY <1>4
  <1>7. g[S \ {x}] = h[S \ {x}] BY <1>1, <1>2, <1>6
  <1> QED BY <1>2, <1>4, <1>5, <1>7

LEMMA SumTyped ==
    ASSUME NEW D, IsFiniteSet(D), NEW d, NEW g, IsSum(d, D, g), \A x \in D : d[x] \in Int
    PROVE  \A S \in SUBSET D : g[S] \in Int
  <1> DEFINE Bad == {S \in SUBSET D : g[S] \notin Int}
  <1> SUFFICES ASSUME Bad # {} PROVE FALSE OBVIOUS
  <1>1. PICK S : S \in Bad /\ \A T \in SUBSET S : T # S => T \notin Bad
    <2>1. Bad \in SUBSET SUBSET D OBVIOUS
    <2> HIDE DEF Bad
    <2> QED BY <2>1, SmallestSet
  <1>2. S \in SUBSET D /\ g[S] \notin Int BY <1>1
  <1>3. S # {}
    <2>1. g[{}] = 0 BY <1>2, SumOf
    <2>2. g[S] # 0 BY <1>2
    <2> QED BY <2>1, <2>2
  <1>4. PICK x : x \in S /\ g[S] = d[x] + g[S \ {x}] BY <1>2, <1>3, SumOf
  <1>5. S \ {x} \in SUBSET S /\ S \ {x} # S BY <1>4
  <1>6. g[S \ {x}] \in Int /\ d[x] \in Int BY <1>1, <1>2, <1>4, <1>5
  <1> QED BY <1>2, <1>4, <1>6

\* The order in which members are taken does not matter.
LEMMA SumTakes ==
    ASSUME NEW D, IsFiniteSet(D), NEW d, NEW g, IsSum(d, D, g), \A x \in D : d[x] \in Int,
           NEW U \in SUBSET D, NEW u \in U
    PROVE  g[U] = d[u] + g[U \ {u}]
  <1> DEFINE Bad == {S \in SUBSET D : \E y \in S : g[S] # d[y] + g[S \ {y}]}
  <1> SUFFICES ASSUME Bad # {} PROVE FALSE OBVIOUS
  <1>1. PICK S : S \in Bad /\ \A T \in SUBSET S : T # S => T \notin Bad
    <2>1. Bad \in SUBSET SUBSET D OBVIOUS
    <2> HIDE DEF Bad
    <2> QED BY <2>1, SmallestSet
  <1>2. S \in SUBSET D BY <1>1
  <1>3. PICK y : y \in S /\ g[S] # d[y] + g[S \ {y}] BY <1>1
  <1>4. PICK x : x \in S /\ g[S] = d[x] + g[S \ {x}] BY <1>2, <1>3, SumOf
  <1>5. x # y BY <1>3, <1>4
  <1> DEFINE X == S \ {x}
             Y == S \ {y}
             R == S \ {x, y}
  <1>6. X \in SUBSET S /\ X # S /\ y \in X /\ X \ {y} = R BY <1>3, <1>4, <1>5
  <1>7. Y \in SUBSET S /\ Y # S /\ x \in Y /\ Y \ {x} = R BY <1>3, <1>4, <1>5
  <1>8. g[X] = d[y] + g[R]
    <2>1. X \notin Bad /\ X \in SUBSET D BY <1>1, <1>2, <1>6
    <2> QED BY <1>6, <2>1
  <1>9. g[Y] = d[x] + g[R]
    <2>1. Y \notin Bad /\ Y \in SUBSET D BY <1>1, <1>2, <1>7
    <2> QED BY <1>7, <2>1
  <1>10. g[R] \in Int /\ d[x] \in Int /\ d[y] \in Int
    <2>1. R \in SUBSET D BY <1>2
    <2>2. g[R] \in Int BY <2>1, SumTyped
    <2> QED BY <1>2, <1>3, <1>4, <2>2
  <1> HIDE DEF X, Y, R
  <1>11. g[S] = d[x] + g[X] /\ g[S] # d[y] + g[Y] BY <1>3, <1>4 DEF X, Y
  <1> QED BY <1>8, <1>9, <1>10, <1>11

\* The sum over two sets that have no common member.
LEMMA SumAdds ==
    ASSUME NEW D, IsFiniteSet(D), NEW d, NEW g, IsSum(d, D, g), \A x \in D : d[x] \in Int
    PROVE  \A S, U \in SUBSET D : S \cap U = {} => g[S \cup U] = g[S] + g[U]
  <1> SUFFICES ASSUME NEW S \in SUBSET D, NEW U \in SUBSET D, S \cap U = {}
               PROVE  g[S \cup U] = g[S] + g[U]
    OBVIOUS
  <1>0. \A V \in SUBSET D : \A v \in V : g[V] = d[v] + g[V \ {v}]
    <2> SUFFICES ASSUME NEW V \in SUBSET D, NEW v \in V PROVE g[V] = d[v] + g[V \ {v}] OBVIOUS
    <2> QED BY SumTakes
  <1> DEFINE Bad == {T \in SUBSET D : S \cap T = {} /\ g[S \cup T] # g[S] + g[T]}
  <1> SUFFICES ASSUME Bad # {} PROVE FALSE OBVIOUS
  <1>1. PICK T : T \in Bad /\ \A V \in SUBSET T : V # T => V \notin Bad
    <2>1. Bad \in SUBSET SUBSET D OBVIOUS
    <2> HIDE DEF Bad
    <2> QED BY <2>1, SmallestSet
  <1>2. T \in SUBSET D /\ S \cap T = {} /\ g[S \cup T] # g[S] + g[T] BY <1>1
  <1>3. \A V \in SUBSET D : g[V] \in Int BY SumTyped
  <1>4. T # {}
    <2> SUFFICES ASSUME T = {} PROVE FALSE OBVIOUS
    <2>1. g[T] = 0 /\ S \cup T = S BY SumOf
    <2> QED BY <1>2, <1>3, <2>1
  <1>5. PICK y : y \in T BY <1>4
  <1> DEFINE R == T \ {y}
             A == S \cup T
             B == S \cup R
  <1>6. R \in SUBSET T /\ R # T /\ R \in SUBSET D /\ S \cap R = {} BY <1>2, <1>5
  <1>7. A \in SUBSET D /\ y \in A /\ A \ {y} = B BY <1>2, <1>5
  <1>8. g[B] = g[S] + g[R]
    <2>1. R \notin Bad BY <1>1, <1>6
    <2> QED BY <1>6, <2>1
  <1>9. g[T] = d[y] + g[R] BY <1>0, <1>2, <1>5
  <1>10. g[A] = d[y] + g[B]
    <2> HIDE DEF A, B
    <2>1. g[A] = d[y] + g[A \ {y}] BY <1>0, <1>7
    <2> QED BY <1>7, <2>1
  <1>11. g[S] \in Int /\ g[R] \in Int /\ d[y] \in Int BY <1>2, <1>3, <1>5, <1>6
  <1>12. g[A] # g[S] + g[T] BY <1>2
  <1> HIDE DEF R, A, B
  <1> QED BY <1>8, <1>9, <1>10, <1>11, <1>12

\* The order in which the values are listed does not matter.
LEMMA SumReindexed ==
    ASSUME NEW D, IsFiniteSet(D), NEW d, NEW g, IsSum(d, D, g), \A x \in D : d[x] \in Int,
           NEW E, IsFiniteSet(E), NEW e, NEW k, IsSum(e, E, k),
           NEW h, \A y \in E : h[y] \in D /\ e[y] = d[h[y]],
           \A y, z \in E : h[y] = h[z] => y = z
    PROVE  k[E] = g[{h[y] : y \in E}]
  <1> DEFINE Image(S) == {h[y] : y \in S}
             Bad == {S \in SUBSET E : k[S] # g[Image(S)]}
  <1>1. Bad = {}
    <2> SUFFICES ASSUME Bad # {} PROVE FALSE OBVIOUS
    <2>1. PICK S : S \in Bad /\ \A T \in SUBSET S : T # S => T \notin Bad
      <3>1. Bad \in SUBSET SUBSET E OBVIOUS
      <3> HIDE DEF Bad
      <3> QED BY <3>1, SmallestSet
    <2>2. S \in SUBSET E /\ k[S] # g[Image(S)] BY <2>1
    <2>3. S # {}
      <3>1. ASSUME S = {} PROVE FALSE
        <4>1. Image(S) = {} /\ {} \in SUBSET D BY <3>1
        <4>2. g[{}] = 0 BY <4>1, SumOf
        <4>3. k[{}] = 0 BY <2>2, SumOf
        <4> QED BY <2>2, <3>1, <4>1, <4>2, <4>3
      <3> QED BY <3>1
    <2>4. PICK y : y \in S /\ k[S] = e[y] + k[S \ {y}] BY <2>2, <2>3, SumOf
    <2>5. S \ {y} \in SUBSET S /\ S \ {y} # S BY <2>4
    <2>6. k[S \ {y}] = g[Image(S \ {y})] BY <2>1, <2>2, <2>5
    <2>7. Image(S) \in SUBSET D /\ h[y] \in Image(S) /\ e[y] = d[h[y]] BY <2>2, <2>4
    <2>8. Image(S) \ {h[y]} = Image(S \ {y}) BY <2>2, <2>4
    <2> DEFINE U == Image(S)
               u == h[y]
    <2>9. U \in SUBSET D /\ u \in U BY <2>7
    <2> HIDE DEF U, u
    <2>10. g[U] = d[u] + g[U \ {u}] BY <2>9, SumTakes
    <2> QED BY <2>2, <2>4, <2>6, <2>7, <2>8, <2>10 DEF U, u
  <1>2. E \in SUBSET E OBVIOUS
  <1> QED BY <1>1, <1>2

-----------------------------------------------------------------------------
(* The places of a finite set in a strict total order, a set of pairs.     *)

Ahead(R, D, k) == {j \in D : <<j, k>> \in R}
Orders(R, D) ==
    /\ \A j, k \in D : j # k => <<j, k>> \in R \/ <<k, j>> \in R
    /\ \A j \in D : <<j, j>> \notin R
    /\ \A j, k, l \in D : <<j, k>> \in R /\ <<k, l>> \in R => <<j, l>> \in R

\* Every place is that of one member: their numbers of members ahead differ.
LEMMA EveryPlaceIsTaken ==
    ASSUME NEW D, IsFiniteSet(D), NEW R, Orders(R, D)
    PROVE  /\ \A k \in D : Cardinality(Ahead(R, D, k)) \in 0 .. Cardinality(D) - 1
           /\ \A j, k \in D : Cardinality(Ahead(R, D, j)) < Cardinality(Ahead(R, D, k))
                                 <=> <<j, k>> \in R
           /\ \A j, k \in D : Cardinality(Ahead(R, D, j)) = Cardinality(Ahead(R, D, k)) => j = k
           /\ \A n \in 1 .. Cardinality(D) : \E k \in D : Cardinality(Ahead(R, D, k)) = n - 1
  <1> DEFINE ahead(k) == Ahead(R, D, k)
             count(k) == Cardinality(ahead(k))
             rank == [k \in D |-> count(k) + 1]
             size == Cardinality(D)
             T == 1 .. size
  <1>1. size \in Nat BY FS_CardinalityType
  <1>2. IsFiniteSet(T) /\ Cardinality(T) = size
    <2> HIDE DEF size
    <2>1. 1 \in Int /\ size \in Int BY <1>1
    <2>2. IsFiniteSet(1 .. size) /\ Cardinality(1 .. size) = IF 1 > size THEN 0 ELSE size - 1 + 1
      BY <2>1, FS_Interval
    <2> QED BY <1>1, <2>2
  <1>3. \A k \in D : ahead(k) \in SUBSET D /\ ahead(k) # D BY DEF Ahead, Orders
  <1>4. \A k \in D : IsFiniteSet(ahead(k)) /\ count(k) \in Nat
    <2> TAKE k \in D
    <2>1. IsFiniteSet(ahead(k)) BY <1>3, FS_Subset
    <2> QED BY <2>1, FS_CardinalityType
  <1>5. ASSUME NEW k \in D PROVE count(k) <= size /\ count(k) # size BY <1>3, FS_Subset
  <1>6. ASSUME NEW j \in D, NEW k \in D, <<j, k>> \in R PROVE count(j) <= count(k) /\ count(j) # count(k)
    <2>1. ahead(j) \in SUBSET ahead(k) BY <1>6 DEF Ahead, Orders
    <2>2. j \in ahead(k) /\ j \notin ahead(j) BY <1>6 DEF Ahead, Orders
    <2> QED BY <1>4, <2>1, <2>2, FS_Subset
  <1>7. \A j, k \in D : <<j, k>> \in R => count(j) <= count(k) /\ count(j) # count(k) BY <1>6
  <1>8. \A k \in D : count(k) <= size /\ count(k) # size BY <1>5
  <1>9. \A j, k \in D : j # k => <<j, k>> \in R \/ <<k, j>> \in R BY DEF Orders
  <1>10. \A k \in D : count(k) \in Nat BY <1>4
  <1> HIDE DEF count, size
  <1>11. \A k \in D : count(k) \in 0 .. size - 1 BY <1>1, <1>8, <1>10
  <1>12. \A j, k \in D : count(j) = count(k) => j = k BY <1>7, <1>9
  <1>13. \A j, k \in D : count(j) < count(k) <=> <<j, k>> \in R
    <2> SUFFICES ASSUME NEW j \in D, NEW k \in D PROVE count(j) < count(k) <=> <<j, k>> \in R OBVIOUS
    <2>1. count(j) \in Nat /\ count(k) \in Nat BY <1>10
    <2>2. CASE <<j, k>> \in R BY <1>7, <2>1, <2>2
    <2>3. CASE <<j, k>> \notin R
      <3>1. CASE j = k BY <2>1, <2>3, <3>1
      <3>2. CASE j # k
        <4>1. count(k) <= count(j) BY <1>7, <1>9, <2>3, <3>2
        <4> QED BY <2>1, <2>3, <4>1
      <3> QED BY <3>1, <3>2
    <2> QED BY <2>2, <2>3
  <1>14. \A n \in 1 .. size : \E k \in D : count(k) = n - 1
    <2>1. rank \in [D -> T]
      <3>1. \A k \in D : count(k) + 1 \in T BY <1>1, <1>8, <1>10
      <3> HIDE DEF T
      <3> QED BY <3>1
    <2>2. \A j, k \in D : rank[j] = rank[k] => j = k
      <3> SUFFICES ASSUME NEW j \in D, NEW k \in D, rank[j] = rank[k] PROVE j = k OBVIOUS
      <3>1. count(j) + 1 = count(k) + 1 OBVIOUS
      <3>2. count(j) = count(k) BY <1>10, <3>1
      <3> QED BY <1>12, <3>2
    <2> HIDE DEF rank, T
    <2>3. rank \in Injection(D, T) BY <2>1, <2>2 DEF Injection, IsInjective
    <2>4. Cardinality(D) = Cardinality(T) BY <1>2 DEF size
    <2>5. rank \in Surjection(D, T) BY <1>2, <2>3, <2>4, FS_Injection
    <2> TAKE n \in 1 .. size
    <2>6. PICK k \in D : rank[k] = n BY <2>5 DEF Surjection, T
    <2>7. count(k) + 1 = n /\ count(k) \in Nat BY <1>10, <2>6 DEF rank
    <2>8. count(k) = n - 1 BY <2>7
    <2> QED BY <2>8
  <1> QED BY <1>11, <1>12, <1>13, <1>14 DEF count, size
=============================================================================
