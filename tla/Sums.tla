--------------------------------- MODULE Sums ---------------------------------
(***************************************************************************)
(* What SumFunctionOnSet of the community modules computes.                 *)
(***************************************************************************)
EXTENDS Integers, Functions, FiniteSetTheorems, WellFoundedInduction, TLAPS

Some(s) == CHOOSE x \in s : TRUE

Unfolded(fun, g, s) == IF s = {} THEN 0 ELSE fun[Some(s)] + g[s \ {Some(s)}]

Solves(g, fun, S) == g = [s \in SUBSET S |-> Unfolded(fun, g, s)]

\* Among subsets of a finite set there is one none of whose parts is among them.
LEMMA SmallestSubset ==
  ASSUME NEW S, IsFiniteSet(S), NEW T, T \subseteq SUBSET S, T # {}
  PROVE  \E s \in T : \A t \in SUBSET s : t # s => t \notin T
<1>1. IsWellFoundedOn(StrictSubsetOrdering(S), SUBSET S)
  BY FS_StrictSubsetOrderingWellFounded, FS_FiniteSubsetsOfFinite
<1>2. PICK s \in T : \A t \in T : <<t, s>> \notin StrictSubsetOrdering(S)
  BY <1>1, WFMin
<1> QED
  BY <1>2 DEF StrictSubsetOrdering

LEMMA SumIs ==
  ASSUME NEW fun, NEW S
  PROVE  SumFunctionOnSet(fun, S) = (CHOOSE g : Solves(g, fun, S))[S]
  BY DEF SumFunctionOnSet, FoldFunctionOnSet, MapThenFoldSet, Solves, Unfolded, Some

\* A solution for a set is one for its parts.
LEMMA SolvesPart ==
  ASSUME NEW fun, NEW S, NEW g, Solves(g, fun, S), NEW T \in SUBSET S
  PROVE  Solves([s \in SUBSET T |-> g[s]], fun, T)
<1> DEFINE h == [s \in SUBSET T |-> g[s]]
<1>1. \A s \in SUBSET T : h[s] = Unfolded(fun, h, s)
  BY DEF Solves, Unfolded
<1>2. h = [s \in SUBSET T |-> h[s]]
  OBVIOUS
<1> QED
  BY <1>1, <1>2 DEF Solves

\* A set has one solution at most: where two of them differ first, they agree on
\* what remains.
LEMMA SolvesOnce ==
  ASSUME NEW fun, NEW S, IsFiniteSet(S), NEW g, Solves(g, fun, S), NEW h, Solves(h, fun, S)
  PROVE  g = h
<1> DEFINE T == {s \in SUBSET S : g[s] # h[s]}
<1>1. CASE T # {}
  <2>1. PICK s \in T : \A t \in SUBSET s : t # s => t \notin T
    <3>1. T \subseteq SUBSET S
      OBVIOUS
    <3> HIDE DEF T
    <3> QED
      BY <1>1, <3>1, SmallestSubset
  <2>2. g[s] = Unfolded(fun, g, s) /\ h[s] = Unfolded(fun, h, s)
    BY <2>1 DEF Solves
  <2>3. s # {} => g[s \ {Some(s)}] = h[s \ {Some(s)}]
    <3>1. s # {} => Some(s) \in s
      BY DEF Some
    <3> QED
      BY <2>1, <3>1
  <2> QED
    BY <2>1, <2>2, <2>3 DEF Unfolded
<1>2. CASE T = {}
  BY <1>2 DEF Solves
<1> QED
  BY <1>1, <1>2

\* A finite set has a solution: a smallest one without would get it from those of
\* its parts.
LEMMA SolutionExists ==
  ASSUME NEW fun, NEW S, IsFiniteSet(S)
  PROVE  \E g : Solves(g, fun, S)
<1> DEFINE T == {s \in SUBSET S : ~ \E g : Solves(g, fun, s)}
           of(s) == CHOOSE g : Solves(g, fun, s)
<1> SUFFICES ASSUME T # {}
             PROVE  FALSE
  OBVIOUS
<1>1. PICK s \in T : \A t \in SUBSET s : t # s => t \notin T
  <2>1. T \subseteq SUBSET S
    OBVIOUS
  <2> HIDE DEF T
  <2> QED
    BY <2>1, SmallestSubset
<1>2. \A t \in SUBSET s : t # s => Solves(of(t), fun, t)
  BY <1>1
<1>3. \A t \in SUBSET s : t # {} => Some(t) \in t
  BY DEF Some
<1> HIDE DEF T, of
<1> DEFINE g == [t \in SUBSET s |->
                  IF t # s THEN of(t)[t]
                  ELSE IF t = {} THEN 0 ELSE fun[Some(t)] + of(t \ {Some(t)})[t \ {Some(t)}]]
<1>4. ASSUME NEW t \in SUBSET s
      PROVE  g[t] = Unfolded(fun, g, t)
  <2>1. CASE t = {}
    <3>1. CASE t # s
      BY <1>2, <2>1, <3>1 DEF Solves, Unfolded
    <3>2. CASE t = s
      BY <2>1, <3>2 DEF Unfolded
    <3> QED
      BY <3>1, <3>2
  <2>2. CASE t # {}
    <3> DEFINE rest == t \ {Some(t)}
    <3>1. rest \in SUBSET s /\ rest # s /\ rest \in SUBSET t
      BY <1>3, <2>2
    <3>2. g[rest] = of(rest)[rest]
      BY <3>1
    <3>3. CASE t = s
      BY <2>2, <3>2, <3>3 DEF Unfolded
    <3>4. CASE t # s
      <4>1. Solves(of(t), fun, t) /\ Solves(of(rest), fun, rest)
        BY <1>2, <3>1, <3>4
      <4>2. Solves([u \in SUBSET rest |-> of(t)[u]], fun, rest)
        BY <3>1, <4>1, SolvesPart
      <4>3. IsFiniteSet(rest)
        <5>1. rest \in SUBSET S
          BY <1>1, <3>1 DEF T
        <5> QED
          BY <5>1, FS_Subset
      <4>4. of(rest) = [u \in SUBSET rest |-> of(t)[u]]
        BY <4>1, <4>2, <4>3, SolvesOnce
      <4>5. of(rest)[rest] = of(t)[rest]
        BY <4>4
      <4>6. of(t)[t] = Unfolded(fun, of(t), t)
        BY <4>1 DEF Solves
      <4> QED
        BY <2>2, <3>2, <3>4, <4>5, <4>6 DEF Unfolded
    <3> QED
      BY <3>3, <3>4
  <2> QED
    BY <2>1, <2>2
<1>5. g = [t \in SUBSET s |-> g[t]]
  OBVIOUS
<1>6. Solves(g, fun, s)
  <2> HIDE DEF g
  <2> QED
    BY <1>4, <1>5 DEF Solves
<1> QED
  BY <1>1, <1>6 DEF T

\* The equation of the definition.
LEMMA SumEquation ==
  ASSUME NEW fun, NEW S, IsFiniteSet(S)
  PROVE  SumFunctionOnSet(fun, S) =
           IF S = {} THEN 0 ELSE fun[Some(S)] + SumFunctionOnSet(fun, S \ {Some(S)})
<1> DEFINE g == CHOOSE g : Solves(g, fun, S)
           rest == S \ {Some(S)}
           h == CHOOSE h : Solves(h, fun, rest)
<1>1. Solves(g, fun, S)
  BY SolutionExists
<1>2. IsFiniteSet(rest) /\ rest \in SUBSET S
  BY FS_Subset
<1>3. Solves(h, fun, rest)
  BY <1>2, SolutionExists
<1>4. SumFunctionOnSet(fun, S) = g[S] /\ SumFunctionOnSet(fun, rest) = h[rest]
  BY SumIs
<1> HIDE DEF g, h
<1>5. h = [u \in SUBSET rest |-> g[u]]
  <2>1. Solves([u \in SUBSET rest |-> g[u]], fun, rest)
    BY <1>1, <1>2, SolvesPart
  <2> HIDE DEF rest
  <2> QED
    BY <1>2, <1>3, <2>1, SolvesOnce
<1>6. h[rest] = g[rest]
  BY <1>5
<1>7. g[S] = Unfolded(fun, g, S)
  BY <1>1 DEF Solves
<1> QED
  BY <1>4, <1>6, <1>7 DEF Unfolded

-----------------------------------------------------------------------------

LEMMA SumOfNone ==
  ASSUME NEW fun
  PROVE  SumFunctionOnSet(fun, {}) = 0
  BY SumEquation, FS_EmptySet

LEMMA SumIsInt ==
  ASSUME NEW S, IsFiniteSet(S), NEW fun, \A x \in S : fun[x] \in Int
  PROVE  SumFunctionOnSet(fun, S) \in Int
<1> DEFINE T == {s \in SUBSET S : SumFunctionOnSet(fun, s) \notin Int}
<1> SUFFICES ASSUME T # {}
             PROVE  FALSE
  OBVIOUS
<1>1. PICK s \in T : \A t \in SUBSET s : t # s => t \notin T
  <2>1. T \subseteq SUBSET S
    OBVIOUS
  <2> HIDE DEF T
  <2> QED
    BY <2>1, SmallestSubset
<1>2. IsFiniteSet(s)
  BY FS_Subset
<1>3. s # {} => Some(s) \in s
  BY DEF Some
<1>4. s # {} => fun[Some(s)] \in Int /\ SumFunctionOnSet(fun, s \ {Some(s)}) \in Int
  BY <1>1, <1>3
<1>5. SumFunctionOnSet(fun, s) =
        IF s = {} THEN 0 ELSE fun[Some(s)] + SumFunctionOnSet(fun, s \ {Some(s)})
  BY <1>2, SumEquation
<1>6. SumFunctionOnSet(fun, s) \notin Int
  BY <1>1
<1> HIDE DEF T
<1> QED
  BY <1>4, <1>5, <1>6

\* Any element may be taken out first.
LEMMA SumWithout ==
  ASSUME NEW S, IsFiniteSet(S), NEW fun, \A x \in S : fun[x] \in Int, NEW x \in S
  PROVE  SumFunctionOnSet(fun, S) = fun[x] + SumFunctionOnSet(fun, S \ {x})
<1> DEFINE Sum(s) == SumFunctionOnSet(fun, s)
           T == {s \in SUBSET S : \E y \in s : Sum(s) # fun[y] + Sum(s \ {y})}
<1> SUFFICES ASSUME T # {}
             PROVE  FALSE
  OBVIOUS
<1>1. PICK s \in T : \A t \in SUBSET s : t # s => t \notin T
  <2>1. T \subseteq SUBSET S
    OBVIOUS
  <2> HIDE DEF T
  <2> QED
    BY <2>1, SmallestSubset
<1>2. PICK y \in s : Sum(s) # fun[y] + Sum(s \ {y})
  BY <1>1
<1> DEFINE z == Some(s)
           rest == s \ {y, z}
<1>3. z \in s
  BY <1>2 DEF Some
<1>4. \A t \in SUBSET s : IsFiniteSet(t) /\ Sum(t) \in Int
  <2>1. \A t \in SUBSET s : t \in SUBSET S
    OBVIOUS
  <2> QED
    BY <2>1, FS_Subset, SumIsInt
<1>5. Sum(s) = fun[z] + Sum(s \ {z})
  BY <1>2, <1>4, SumEquation
<1>6. y # z
  BY <1>2, <1>5
<1>7. Sum(s \ {z}) = fun[y] + Sum(rest)
  <2>1. (s \ {z}) \ {y} = rest
    OBVIOUS
  <2>2. s \ {z} \notin T
    BY <1>1, <1>3
  <2> QED
    BY <1>2, <1>6, <2>1, <2>2
<1>8. Sum(s \ {y}) = fun[z] + Sum(rest)
  <2>1. (s \ {y}) \ {z} = rest
    OBVIOUS
  <2>2. s \ {y} \notin T
    BY <1>1, <1>2
  <2> QED
    BY <1>3, <1>6, <2>1, <2>2
<1>9. fun[y] \in Int /\ fun[z] \in Int /\ Sum(rest) \in Int
  BY <1>1, <1>2, <1>3, <1>4
<1> HIDE DEF Sum, T, z, rest
<1> QED
  BY <1>2, <1>5, <1>7, <1>8, <1>9

\* ... or added to the rest.
LEMMA SumWith ==
  ASSUME NEW S, IsFiniteSet(S), NEW fun, NEW x, x \notin S,
         \A y \in S \cup {x} : fun[y] \in Int
  PROVE  SumFunctionOnSet(fun, S \cup {x}) = fun[x] + SumFunctionOnSet(fun, S)
<1>1. IsFiniteSet(S \cup {x})
  BY FS_AddElement
<1>2. (S \cup {x}) \ {x} = S
  OBVIOUS
<1> QED
  BY <1>1, <1>2, SumWithout

\* Only what is summed up matters.
LEMMA SumOfSame ==
  ASSUME NEW S, IsFiniteSet(S), NEW fun, NEW gun, \A x \in S : fun[x] = gun[x]
  PROVE  SumFunctionOnSet(fun, S) = SumFunctionOnSet(gun, S)
<1> DEFINE T == {s \in SUBSET S : SumFunctionOnSet(fun, s) # SumFunctionOnSet(gun, s)}
<1> SUFFICES ASSUME T # {}
             PROVE  FALSE
  OBVIOUS
<1>1. PICK s \in T : \A t \in SUBSET s : t # s => t \notin T
  <2>1. T \subseteq SUBSET S
    OBVIOUS
  <2> HIDE DEF T
  <2> QED
    BY <2>1, SmallestSubset
<1>2. IsFiniteSet(s)
  BY FS_Subset
<1>3. s # {} => Some(s) \in s
  BY DEF Some
<1>4. s # {} => SumFunctionOnSet(fun, s \ {Some(s)}) = SumFunctionOnSet(gun, s \ {Some(s)})
  BY <1>1, <1>3
<1>5. s # {} => fun[Some(s)] = gun[Some(s)]
  BY <1>1, <1>3
<1>6. \A h : SumFunctionOnSet(h, s) =
               IF s = {} THEN 0 ELSE h[Some(s)] + SumFunctionOnSet(h, s \ {Some(s)})
  BY <1>2, SumEquation
<1>7. SumFunctionOnSet(fun, s) # SumFunctionOnSet(gun, s)
  BY <1>1
<1> HIDE DEF T
<1> QED
  BY <1>4, <1>5, <1>6, <1>7

\* A sum grows with what is summed up.
LEMMA SumOfMore ==
  ASSUME NEW S, IsFiniteSet(S), NEW fun, NEW gun,
         \A x \in S : fun[x] \in Int /\ gun[x] \in Int /\ fun[x] <= gun[x]
  PROVE  SumFunctionOnSet(fun, S) <= SumFunctionOnSet(gun, S)
<1> DEFINE T == {s \in SUBSET S : ~ (SumFunctionOnSet(fun, s) <= SumFunctionOnSet(gun, s))}
<1> SUFFICES ASSUME T # {}
             PROVE  FALSE
  OBVIOUS
<1>1. PICK s \in T : \A t \in SUBSET s : t # s => t \notin T
  <2>1. T \subseteq SUBSET S
    OBVIOUS
  <2> HIDE DEF T
  <2> QED
    BY <2>1, SmallestSubset
<1>2. IsFiniteSet(s) /\ IsFiniteSet(s \ {Some(s)})
  BY FS_Subset
<1>3. s # {} => Some(s) \in s
  BY DEF Some
<1>4. s # {} => SumFunctionOnSet(fun, s \ {Some(s)}) <= SumFunctionOnSet(gun, s \ {Some(s)})
  BY <1>1, <1>3
<1>5. s # {} => /\ fun[Some(s)] \in Int /\ gun[Some(s)] \in Int
                /\ fun[Some(s)] <= gun[Some(s)]
  BY <1>1, <1>3
<1>6. /\ SumFunctionOnSet(fun, s \ {Some(s)}) \in Int
      /\ SumFunctionOnSet(gun, s \ {Some(s)}) \in Int
  BY <1>2, SumIsInt
<1> QED
  BY <1>1, <1>2, <1>4, <1>5, <1>6, SumEquation

\* Induction over the subsets of a finite set, for a property given by a set.
LEMMA SubsetInduction ==
  ASSUME NEW S, IsFiniteSet(S), NEW P, {} \in P,
         \A s \in SUBSET S : \A x \in s : s \ {x} \in P => s \in P
  PROVE  S \in P
<1> DEFINE T == {s \in SUBSET S : s \notin P}
<1> SUFFICES ASSUME T # {}
             PROVE  FALSE
  OBVIOUS
<1>1. PICK s \in T : \A t \in SUBSET s : t # s => t \notin T
  <2>1. T \subseteq SUBSET S
    OBVIOUS
  <2> HIDE DEF T
  <2> QED
    BY <2>1, SmallestSubset
<1>2. PICK x \in s : TRUE
  BY <1>1
<1>3. s \ {x} \in SUBSET s /\ s \ {x} # s /\ s \ {x} \in SUBSET S
  BY <1>1, <1>2
<1>4. s \ {x} \in P
  BY <1>1, <1>3
<1> QED
  BY <1>1, <1>2, <1>4

\* The sum of two sets of things.
LEMMA SumOfBoth ==
  ASSUME NEW S, IsFiniteSet(S), NEW R, IsFiniteSet(R), S \cap R = {}, NEW fun,
         \A x \in S \cup R : fun[x] \in Int
  PROVE  SumFunctionOnSet(fun, S \cup R) = SumFunctionOnSet(fun, S) + SumFunctionOnSet(fun, R)
<1> DEFINE Sum(s) == SumFunctionOnSet(fun, s)
           P == {s \in SUBSET R : Sum(S \cup s) = Sum(S) + Sum(s)}
<1>1. Sum(S) \in Int
  BY SumIsInt
<1>2. {} \in P
  <2>1. S \cup {} = S /\ Sum({}) = 0
    BY SumOfNone
  <2> HIDE DEF Sum
  <2> QED
    BY <1>1, <2>1
<1>3. ASSUME NEW s \in SUBSET R, NEW x \in s, s \ {x} \in P PROVE s \in P
  <2> DEFINE rest == s \ {x}
  <2>1. IsFiniteSet(s) /\ IsFiniteSet(S \cup s)
    <3>1. IsFiniteSet(s)
      BY FS_Subset
    <3> QED
      BY <3>1, FS_Union
  <2>2. (S \cup s) \ {x} = S \cup rest /\ x \in S \cup s
    BY <1>3
  <2>3. Sum(s) = fun[x] + Sum(rest)
    BY <2>1, SumWithout
  <2>4. Sum(S \cup s) = fun[x] + Sum((S \cup s) \ {x})
    BY <2>1, <2>2, SumWithout
  <2>5. fun[x] \in Int /\ Sum(rest) \in Int
    <3>1. IsFiniteSet(rest) /\ \A y \in rest : fun[y] \in Int
      BY <2>1, FS_Subset
    <3> QED
      BY <3>1, SumIsInt
  <2>6. Sum((S \cup s) \ {x}) = Sum(S) + Sum(rest)
    BY <1>3, <2>2
  <2> HIDE DEF Sum, rest
  <2>7. Sum(S \cup s) = Sum(S) + Sum(s)
    BY <1>1, <2>3, <2>4, <2>5, <2>6
  <2> QED
    BY <2>7
<1>4. R \in P
  <2> HIDE DEF P
  <2> QED
    BY <1>2, <1>3, SubsetInduction
<1> QED
  BY <1>4

\* A factor may be taken out.
LEMMA SumOfMultiples ==
  ASSUME NEW S, IsFiniteSet(S), NEW c \in Int, NEW fun, NEW gun,
         \A x \in S : fun[x] \in Int /\ gun[x] = c * fun[x]
  PROVE  SumFunctionOnSet(gun, S) = c * SumFunctionOnSet(fun, S)
<1> DEFINE F(s) == SumFunctionOnSet(fun, s)
           G(s) == SumFunctionOnSet(gun, s)
           P == {s \in SUBSET S : G(s) = c * F(s)}
<1>1. {} \in P
  <2>1. F({}) = 0 /\ G({}) = 0
    BY SumOfNone
  <2> HIDE DEF F, G
  <2> QED
    BY <2>1
<1>2. ASSUME NEW s \in SUBSET S, NEW x \in s, s \ {x} \in P PROVE s \in P
  <2> DEFINE rest == s \ {x}
  <2>1. IsFiniteSet(s) /\ IsFiniteSet(rest)
    BY FS_Subset
  <2>2. \A y \in s : fun[y] \in Int /\ gun[y] \in Int
    OBVIOUS
  <2>3. F(s) = fun[x] + F(rest) /\ G(s) = gun[x] + G(rest)
    BY <2>1, <2>2, SumWithout
  <2>4. F(rest) \in Int
    BY <2>1, <2>2, SumIsInt
  <2>5. G(rest) = c * F(rest) /\ fun[x] \in Int /\ gun[x] = c * fun[x]
    BY <1>2
  <2> HIDE DEF F, G, rest
  <2>6. c * (fun[x] + F(rest)) = c * fun[x] + c * F(rest)
    BY <2>4, <2>5
  <2> QED
    BY <2>3, <2>5, <2>6
<1>3. S \in P
  <2> HIDE DEF P
  <2> QED
    BY <1>1, <1>2, SubsetInduction
<1> QED
  BY <1>3

\* A sum of positive numbers is positive, unless it is empty.
LEMMA SumOfPositive ==
  ASSUME NEW S, IsFiniteSet(S), NEW fun, \A x \in S : fun[x] \in Nat \ {0}
  PROVE  SumFunctionOnSet(fun, S) \in Nat /\ (S # {} => SumFunctionOnSet(fun, S) > 0)
<1> DEFINE Sum(s) == SumFunctionOnSet(fun, s)
           P == {s \in SUBSET S : Sum(s) \in Nat /\ (s # {} => Sum(s) > 0)}
<1>1. {} \in P
  BY SumOfNone
<1>2. ASSUME NEW s \in SUBSET S, NEW x \in s, s \ {x} \in P PROVE s \in P
  <2>1. IsFiniteSet(s)
    BY FS_Subset
  <2>2. Sum(s) = fun[x] + Sum(s \ {x})
    BY <2>1, SumWithout
  <2>3. Sum(s \ {x}) \in Nat /\ fun[x] \in Nat \ {0}
    BY <1>2
  <2> HIDE DEF Sum
  <2> QED
    BY <2>2, <2>3
<1>3. S \in P
  <2> HIDE DEF P
  <2> QED
    BY <1>1, <1>2, SubsetInduction
<1> QED
  BY <1>3

\* The parts of a set, and the sum of each.
Parts(S, K, part, parts) == \A k \in K : parts[k] = {x \in S : part[x] = k}

PartSums(fun, K, parts, sums) == \A k \in K : sums[k] = SumFunctionOnSet(fun, parts[k])

\* A sum may be taken part by part.
LEMMA SumByParts ==
  ASSUME NEW S, IsFiniteSet(S), NEW fun, \A x \in S : fun[x] \in Int,
         NEW K, IsFiniteSet(K), NEW part, \A x \in S : part[x] \in K,
         NEW parts, Parts(S, K, part, parts), NEW sums, PartSums(fun, K, parts, sums)
  PROVE  SumFunctionOnSet(fun, S) = SumFunctionOnSet(sums, K)
<1> DEFINE Sum(s) == SumFunctionOnSet(fun, s)
           of(s) == [k \in K |-> Sum({x \in s : part[x] = k})]
           P == {s \in SUBSET S : Sum(s) = SumFunctionOnSet(of(s), K)}
<1>1. {} \in P
  <2>1. \A k \in K : of({})[k] = 0
    <3>1. \A k \in K : {x \in {} : part[x] = k} = {}
      OBVIOUS
    <3> QED
      BY <3>1, SumOfNone
  <2>2. SumFunctionOnSet(of({}), K) = 0 * SumFunctionOnSet(of({}), K)
    <3>1. \A k \in K : of({})[k] \in Int /\ of({})[k] = 0 * of({})[k]
      BY <2>1
    <3> HIDE DEF of
    <3> QED
      BY <3>1, SumOfMultiples
  <2>3. SumFunctionOnSet(of({}), K) \in Int
    <3> HIDE DEF of
    <3> QED
      BY <2>1, SumIsInt
  <2>4. Sum({}) = 0
    BY SumOfNone
  <2> HIDE DEF Sum, of
  <2> QED
    BY <2>2, <2>3, <2>4
<1>2. ASSUME NEW s \in SUBSET S, NEW x \in s, s \ {x} \in P PROVE s \in P
  <2> DEFINE rest == s \ {x}
             k == part[x]
             others == K \ {k}
  <2>1. IsFiniteSet(s) /\ IsFiniteSet(rest) /\ k \in K /\ x \in S /\ fun[x] \in Int
    BY FS_Subset
  <2>2. ASSUME NEW j \in K PROVE of(s)[j] \in Int /\ of(rest)[j] \in Int
    <3> DEFINE A == {y \in s : part[y] = j}
               B == {y \in rest : part[y] = j}
    <3>1. A \in SUBSET s /\ B \in SUBSET s
      OBVIOUS
    <3>2. IsFiniteSet(A) /\ IsFiniteSet(B) /\ (\A y \in A : fun[y] \in Int) /\ \A y \in B : fun[y] \in Int
      BY <2>1, <3>1, FS_Subset
    <3> HIDE DEF A, B
    <3>3. Sum(A) \in Int /\ Sum(B) \in Int
      BY <3>2, SumIsInt
    <3> QED
      BY <3>3 DEF A, B
  <2>3. of(s)[k] = fun[x] + of(rest)[k]
    <3> DEFINE A == {y \in s : part[y] = k}
               B == {y \in rest : part[y] = k}
    <3>1. A \in SUBSET s /\ x \in A /\ A \ {x} = B
      OBVIOUS
    <3>2. IsFiniteSet(A) /\ \A y \in A : fun[y] \in Int
      BY <2>1, <3>1, FS_Subset
    <3>3. Sum(A) = fun[x] + Sum(B)
      <4> HIDE DEF A, B
      <4> QED
        BY <3>1, <3>2, SumWithout
    <3> QED
      BY <2>1, <3>3
  <2>4. ASSUME NEW j \in others PROVE of(s)[j] = of(rest)[j]
    <3>1. {y \in s : part[y] = j} = {y \in rest : part[y] = j}
      OBVIOUS
    <3> QED
      BY <3>1
  <2>5. Sum(s) = fun[x] + Sum(rest) /\ Sum(rest) = SumFunctionOnSet(of(rest), K)
    <3>1. \A y \in s : fun[y] \in Int
      OBVIOUS
    <3>2. Sum(s) = fun[x] + Sum(rest)
      BY <2>1, <3>1, SumWithout
    <3> QED
      BY <1>2, <3>2
  <2> DEFINE f == of(s)
             g == of(rest)
  <2>6. f[k] = fun[x] + g[k] /\ (\A j \in K : f[j] \in Int /\ g[j] \in Int) /\ \A j \in others : f[j] = g[j]
    BY <2>2, <2>3, <2>4
  <2> HIDE DEF f, g, Sum, rest
  <2>7. /\ SumFunctionOnSet(f, K) = f[k] + SumFunctionOnSet(f, others)
        /\ SumFunctionOnSet(g, K) = g[k] + SumFunctionOnSet(g, others)
    BY <2>1, <2>6, SumWithout
  <2>8. IsFiniteSet(others)
    BY FS_RemoveElement
  <2>9. /\ SumFunctionOnSet(f, others) = SumFunctionOnSet(g, others)
        /\ SumFunctionOnSet(g, others) \in Int
    <3>1. \A j \in others : g[j] \in Int
      BY <2>6
    <3> QED
      BY <2>6, <2>8, <3>1, SumOfSame, SumIsInt
  <2>10. SumFunctionOnSet(f, K) = fun[x] + SumFunctionOnSet(g, K)
    BY <2>1, <2>6, <2>7, <2>9
  <2>11. Sum(s) = SumFunctionOnSet(f, K)
    BY <2>5, <2>10 DEF g
  <2> QED
    BY <2>11 DEF f
<1>3. S \in P
  <2> HIDE DEF P
  <2> QED
    BY <1>1, <1>2, SubsetInduction
<1>4. SumFunctionOnSet(of(S), K) = SumFunctionOnSet(sums, K)
  <2>1. \A k \in K : of(S)[k] = sums[k]
    BY DEF Parts, PartSums
  <2> HIDE DEF of
  <2> QED
    BY <2>1, SumOfSame
<1> QED
  BY <1>3, <1>4

-----------------------------------------------------------------------------

\* Of finitely many things that can all be compared there is a best one.
LEMMA BestExists ==
  ASSUME NEW S, IsFiniteSet(S), S # {}, NEW R,
         \A x, y \in S : <<x, y>> \in R \/ <<y, x>> \in R,
         \A x, y, z \in S : <<x, y>> \in R /\ <<y, z>> \in R => <<x, z>> \in R
  PROVE  \E x \in S : \A y \in S : <<x, y>> \in R
<1> DEFINE T == {s \in SUBSET S : s # {} /\ ~ \E x \in s : \A y \in s : <<x, y>> \in R}
<1> SUFFICES ASSUME T # {} PROVE FALSE
  OBVIOUS
<1>1. PICK s \in T : \A t \in SUBSET s : t # s => t \notin T
  <2>1. T \subseteq SUBSET S
    OBVIOUS
  <2> HIDE DEF T
  <2> QED
    BY <2>1, SmallestSubset
<1>2. PICK a \in s : TRUE
  OBVIOUS
<1>3. s \ {a} \in SUBSET s /\ s \ {a} # s /\ s \in SUBSET S
  BY <1>2
<1>4. CASE s \ {a} = {}
  BY <1>2, <1>3, <1>4
<1>5. CASE s \ {a} # {}
  <2>1. PICK b \in s \ {a} : \A y \in s \ {a} : <<b, y>> \in R
    <3> DEFINE rest == s \ {a}
    <3>1. rest \in SUBSET s /\ rest \in SUBSET S /\ rest # s /\ rest # {}
      BY <1>3, <1>5
    <3>2. rest \notin T
      BY <1>1, <3>1
    <3> HIDE DEF rest
    <3>3. \E b \in rest : \A y \in rest : <<b, y>> \in R
      BY <3>1, <3>2
    <3> QED
      BY <3>3 DEF rest
  <2>2. CASE <<a, b>> \in R
    <3>1. \A y \in s : <<a, y>> \in R
      BY <1>2, <1>3, <2>1, <2>2
    <3> QED
      BY <1>2, <3>1
  <2>3. CASE <<b, a>> \in R
    <3>1. \A y \in s : <<b, y>> \in R
      BY <2>1, <2>3
    <3> QED
      BY <2>1, <3>1
  <2> QED
    BY <1>2, <1>3, <2>1, <2>2, <2>3
<1> QED
  BY <1>4, <1>5

LEMMA ExtremesExist ==
  ASSUME NEW S, IsFiniteSet(S), S # {}, S \subseteq Int
  PROVE  (\E x \in S : \A y \in S : x >= y) /\ \E x \in S : \A y \in S : x <= y
<1> DEFINE R == {p \in S \X S : p[1] >= p[2]}
           Q == {p \in S \X S : p[1] <= p[2]}
<1>1. \A x, y \in S : (<<x, y>> \in R <=> x >= y) /\ (<<x, y>> \in Q <=> x <= y)
  OBVIOUS
<1>2. \A x \in S : x \in Int
  OBVIOUS
<1> HIDE DEF R, Q
<1>3. /\ \A x, y \in S : <<x, y>> \in R \/ <<y, x>> \in R
      /\ \A x, y \in S : <<x, y>> \in Q \/ <<y, x>> \in Q
  BY <1>1, <1>2
<1>4. /\ \A x, y, z \in S : <<x, y>> \in R /\ <<y, z>> \in R => <<x, z>> \in R
      /\ \A x, y, z \in S : <<x, y>> \in Q /\ <<y, z>> \in Q => <<x, z>> \in Q
  BY <1>1, <1>2
<1>5. \E x \in S : \A y \in S : <<x, y>> \in R
  BY <1>3, <1>4, BestExists
<1>6. \E x \in S : \A y \in S : <<x, y>> \in Q
  BY <1>3, <1>4, BestExists
<1> QED
  BY <1>1, <1>5, <1>6

=============================================================================
