-------------------------------- MODULE Sums --------------------------------
(***************************************************************************)
(* Sums over finite sets, for proofs.  A sum of naturals is the number of  *)
(* the units it adds up, so what is known of cardinalities says how sums   *)
(* grow, shrink and compare.                                               *)
(***************************************************************************)
EXTENDS Integers, FiniteSets, FiniteSetsExt, FiniteSetTheorems, WellFoundedInduction, TLAPS

\* f[x] units for every x.
Units(f, S) == UNION {{x} \X (1 .. f[x]) : x \in S}

\* The units of one summand.
LEMMA PartCount ==
  ASSUME NEW x, NEW n \in Nat
  PROVE  IsFiniteSet({x} \X (1 .. n)) /\ Cardinality({x} \X (1 .. n)) = n
<1> DEFINE one == {x}
           few == 1 .. n
<1>1. IsFiniteSet(one) /\ Cardinality(one) = 1
  BY FS_Singleton
<1>2. IsFiniteSet(few) /\ Cardinality(few) = n
  BY FS_Interval
<1>3. IsFiniteSet(one \X few) /\ Cardinality(one \X few) = Cardinality(one) * Cardinality(few)
  <2> HIDE DEF one, few
  <2> QED  BY <1>1, <1>2, FS_Product
<1> QED  BY <1>1, <1>2, <1>3

\* Finitely many units, one set of them after the other.
LEMMA UnitsFinite ==
  ASSUME NEW S, IsFiniteSet(S), NEW f, \A x \in S : f[x] \in Nat
  PROVE  IsFiniteSet(Units(f, S)) /\ Cardinality(Units(f, S)) \in Nat
<1> DEFINE part == [x \in S |-> {x} \X (1 .. f[x])]
           parts == {{x} \X (1 .. f[x]) : x \in S}
<1>1. ASSUME NEW x \in S PROVE IsFiniteSet({x} \X (1 .. f[x]))
  BY PartCount
<1>2. part \in Surjection(S, parts)
  BY DEF Surjection
<1>3. IsFiniteSet(parts)
  BY <1>2, FS_Surjection
<1>4. IsFiniteSet(UNION parts)
  <2>1. \A T \in parts : IsFiniteSet(T)
    BY <1>1
  <2> HIDE DEF parts
  <2> QED  BY <2>1, <1>3, FS_UNION
<1> QED  BY <1>4, FS_CardinalityType DEF Units

\* One more set of units.
LEMMA UnitsSplit ==
  ASSUME NEW S, IsFiniteSet(S), NEW f, \A x \in S : f[x] \in Nat, NEW x \in S
  PROVE  Cardinality(Units(f, S)) = f[x] + Cardinality(Units(f, S \ {x}))
<1> DEFINE own == {x} \X (1 .. f[x])
           rest == Units(f, S \ {x})
<1>1. Units(f, S) = own \cup rest /\ own \cap rest = {}
  BY DEF Units
<1>2. IsFiniteSet(S \ {x})
  BY FS_RemoveElement
<1>3. IsFiniteSet(rest) /\ Cardinality(rest) \in Nat
  BY <1>2, UnitsFinite
<1>4. IsFiniteSet(own) /\ Cardinality(own) = f[x]
  BY PartCount
<1>5. Cardinality(own \cap rest) = 0
  BY <1>1, FS_EmptySet
<1>6. Cardinality(own \cup rest) = f[x] + Cardinality(rest)
  <2> HIDE DEF own, rest
  <2>1. Cardinality(own \cup rest) = Cardinality(own) + Cardinality(rest) - Cardinality(own \cap rest)
    BY <1>3, <1>4, FS_Union
  <2> QED  BY <2>1, <1>3, <1>4, <1>5
<1> QED  BY <1>1, <1>6

-----------------------------------------------------------------------------

\* The equation of the fold behind a sum of f over S.
Adds(g, f, S) ==
  g = [s \in SUBSET S |->
        IF s = {} THEN 0 ELSE f[CHOOSE x \in s : TRUE] + g[s \ {CHOOSE x \in s : TRUE}]]

\* What MapThenSumSet is.
LEMMA SumIsFold ==
  ASSUME NEW S, NEW f
  PROVE  MapThenSumSet(LAMBDA x : f[x], S) = (CHOOSE g : Adds(g, f, S))[S]
BY DEF MapThenSumSet, MapThenFoldSet, Adds

\* Counting units solves the equation.
LEMMA CountAdds ==
  ASSUME NEW S, IsFiniteSet(S), NEW f, \A x \in S : f[x] \in Nat
  PROVE  Adds([s \in SUBSET S |-> Cardinality(Units(f, s))], f, S)
<1> DEFINE g == [s \in SUBSET S |-> Cardinality(Units(f, s))]
<1>1. ASSUME NEW s \in SUBSET S
      PROVE  g[s] = IF s = {} THEN 0
                    ELSE f[CHOOSE x \in s : TRUE] + g[s \ {CHOOSE x \in s : TRUE}]
  <2>1. CASE s = {}
    <3>1. Units(f, s) = {}
      BY <2>1 DEF Units
    <3> QED  BY <2>1, <3>1, FS_EmptySet
  <2>2. CASE s # {}
    <3> DEFINE x == CHOOSE x \in s : TRUE
    <3>1. x \in s
      BY <2>2
    <3>2. IsFiniteSet(s)
      BY FS_Subset
    <3> HIDE DEF x
    <3>3. Cardinality(Units(f, s)) = f[x] + Cardinality(Units(f, s \ {x}))
      BY <3>1, <3>2, UnitsSplit
    <3>4. g[s] = f[x] + g[s \ {x}]
      BY <3>3
    <3> QED  BY <2>2, <3>4 DEF x
  <2> QED  BY <2>1, <2>2
<1> QED  BY <1>1 DEF Adds

\* Nothing else does: a smallest set on which two solutions differ would have
\* an element less.
LEMMA OneSum ==
  ASSUME NEW S, IsFiniteSet(S), NEW f, NEW g, NEW h, Adds(g, f, S), Adds(h, f, S)
  PROVE  g[S] = h[S]
<1> DEFINE Differ == {s \in SUBSET S : g[s] # h[s]}
<1>1. Differ \subseteq FiniteSubsetsOf(S)
  BY FS_Subset DEF FiniteSubsetsOf
<1>2. ASSUME Differ # {} PROVE FALSE
  <2>1. PICK s \in Differ : \A t \in Differ : ~(<<t, s>> \in StrictSubsetOrdering(S))
    <3> HIDE DEF Differ
    <3> QED  BY <1>1, <1>2, WFMin, FS_StrictSubsetOrderingWellFounded
  <2>2. s # {}
    BY <2>1 DEF Adds
  <2> DEFINE x == CHOOSE x \in s : TRUE
             t == s \ {x}
  <2>3. x \in s
    BY <2>2
  <2> HIDE DEF x
  <2>4. t \in SUBSET S /\ t \subseteq s /\ t # s
    BY <2>1, <2>3
  <2>5. t \notin Differ
    BY <2>1, <2>4 DEF StrictSubsetOrdering
  <2>6. g[t] = h[t]
    BY <2>4, <2>5
  <2>7. g[s] = f[x] + g[t] /\ h[s] = f[x] + h[t]
    BY <2>1, <2>2 DEF Adds, x
  <2> QED  BY <2>1, <2>6, <2>7
<1> QED  BY <1>2

\* A sum of naturals over a finite set counts its units.
THEOREM SumCountsUnits ==
  ASSUME NEW S, IsFiniteSet(S), NEW f, \A x \in S : f[x] \in Nat
  PROVE  MapThenSumSet(LAMBDA x : f[x], S) = Cardinality(Units(f, S))
<1> DEFINE g == [s \in SUBSET S |-> Cardinality(Units(f, s))]
           h == CHOOSE h : Adds(h, f, S)
<1>1. Adds(g, f, S)
  BY CountAdds
<1>2. Adds(h, f, S)
  <2> HIDE DEF g
  <2> QED  BY <1>1
<1>3. g[S] = h[S]
  <2> HIDE DEF g, h
  <2> QED  BY <1>1, <1>2, OneSum
<1> QED  BY <1>3, SumIsFold

-----------------------------------------------------------------------------

SumOf(f, S) == MapThenSumSet(LAMBDA x : f[x], S)

\* A sum is a natural number.
LEMMA SumType ==
  ASSUME NEW S, IsFiniteSet(S), NEW f, \A x \in S : f[x] \in Nat
  PROVE  SumOf(f, S) \in Nat
<1>1. SumOf(f, S) = Cardinality(Units(f, S))
  BY SumCountsUnits DEF SumOf
<1> QED  BY <1>1, UnitsFinite

\* Nothing adds up to nothing.
LEMMA SumEmpty ==
  ASSUME NEW f
  PROVE  SumOf(f, {}) = 0
<1>1. Units(f, {}) = {}
  BY DEF Units
<1>2. SumOf(f, {}) = Cardinality(Units(f, {}))
  BY SumCountsUnits, FS_EmptySet DEF SumOf
<1> QED  BY <1>1, <1>2, FS_EmptySet

\* One summand taken out.
LEMMA SumSplit ==
  ASSUME NEW S, IsFiniteSet(S), NEW f, \A x \in S : f[x] \in Nat, NEW x \in S
  PROVE  SumOf(f, S) = f[x] + SumOf(f, S \ {x})
<1>1. IsFiniteSet(S \ {x})
  BY FS_RemoveElement
<1>2. SumOf(f, S \ {x}) = Cardinality(Units(f, S \ {x}))
  BY <1>1, SumCountsUnits DEF SumOf
<1>3. SumOf(f, S) = Cardinality(Units(f, S))
  BY SumCountsUnits DEF SumOf
<1> QED  BY <1>2, <1>3, UnitsSplit

\* Equal summands have equal sums.
LEMMA SumAgree ==
  ASSUME NEW S, IsFiniteSet(S), NEW f, \A x \in S : f[x] \in Nat,
         NEW g, \A x \in S : g[x] = f[x]
  PROVE  SumOf(g, S) = SumOf(f, S)
<1>1. {{x} \X (1 .. g[x]) : x \in S} = {{x} \X (1 .. f[x]) : x \in S}
  OBVIOUS
<1>2. Units(g, S) = Units(f, S)
  BY <1>1 DEF Units
<1>3. SumOf(g, S) = Cardinality(Units(g, S)) /\ SumOf(f, S) = Cardinality(Units(f, S))
  BY SumCountsUnits DEF SumOf
<1> QED  BY <1>2, <1>3

\* A change of one summand changes the sum by as much.
LEMMA SumChange ==
  ASSUME NEW S, IsFiniteSet(S), NEW f, \A x \in S : f[x] \in Nat, NEW y \in S,
         NEW g, g[y] \in Nat, \A x \in S \ {y} : g[x] = f[x]
  PROVE  SumOf(g, S) + f[y] = SumOf(f, S) + g[y]
<1>1. IsFiniteSet(S \ {y})
  BY FS_RemoveElement
<1>2. \A x \in S : g[x] \in Nat
  OBVIOUS
<1>3. SumOf(g, S \ {y}) = SumOf(f, S \ {y}) /\ SumOf(f, S \ {y}) \in Nat
  BY <1>1, SumAgree, SumType
<1>4. SumOf(g, S) = g[y] + SumOf(g, S \ {y})
  BY <1>2, SumSplit
<1>5. SumOf(f, S) = f[y] + SumOf(f, S \ {y})
  BY SumSplit
<1> QED  BY <1>3, <1>4, <1>5

\* Summands that are all zero.
LEMMA SumZero ==
  ASSUME NEW S, IsFiniteSet(S), NEW f, \A x \in S : f[x] = 0
  PROVE  SumOf(f, S) = 0
<1>1. Units(f, S) = {}
  BY DEF Units
<1>2. \A x \in S : f[x] \in Nat
  OBVIOUS
<1>3. SumOf(f, S) = Cardinality(Units(f, S))
  BY <1>2, SumCountsUnits DEF SumOf
<1> QED  BY <1>1, <1>3, FS_EmptySet

=============================================================================
