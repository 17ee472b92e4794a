-------------------------- MODULE FiniteInduction ---------------------------
(***************************************************************************)
(* Induction over numbers and over finite sets, in the form of a set that  *)
(* is closed under the step and so holds everything, and with it the       *)
(* totals of the community modules: a sum over a finite set does not       *)
(* depend on the order in which its elements are taken.                    *)
(***************************************************************************)
EXTENDS Integers, FiniteSets, FiniteSetsExt, FiniteSetTheorems, WellFoundedInduction, TLAPS

(* A set of numbers that holds zero and every successor holds them all.    *)
LEMMA NumberInduction ==
  ASSUME NEW G \in SUBSET Nat, 0 \in G, \A n \in G : n + 1 \in G
  PROVE  G = Nat
<1> DEFINE Bad == Nat \ G
<1> SUFFICES ASSUME Bad # {} PROVE FALSE
  OBVIOUS
<1>1. PICK n \in Bad : \A m \in Bad : ~ (<<m, n>> \in OpToRel(<, Nat))
  <2>1. Bad \subseteq Nat
    OBVIOUS
  <2> HIDE DEF Bad
  <2> QED BY <2>1, NatLessThanWellFounded, WFMin
<1>2. n # 0 /\ n - 1 \in Nat
  OBVIOUS
<1>3. <<n - 1, n>> \in OpToRel(<, Nat)
  BY <1>2 DEF OpToRel
<1>4. n - 1 \in G
  BY <1>1, <1>2, <1>3
<1>5. (n - 1) + 1 = n
  BY <1>2
<1> QED BY <1>4, <1>5

(* Inclusion is well-founded on the subsets of a finite set.               *)
LEMMA InclusionWellFounded ==
  ASSUME NEW U, IsFiniteSet(U)
  PROVE  IsWellFoundedOn(StrictSubsetOrdering(U), SUBSET U)
BY FS_StrictSubsetOrderingWellFounded, FS_FiniteSubsetsOfFinite

(* A family of subsets of a finite set that has the empty set, and every   *)
(* set of which it has all those with one element less, has them all.      *)
LEMMA SetInduction ==
  ASSUME NEW U, IsFiniteSet(U), NEW G \in SUBSET SUBSET U, {} \in G,
         \A S \in SUBSET U : S # {} /\ (\A x \in S : S \ {x} \in G) => S \in G
  PROVE  G = SUBSET U
<1> DEFINE Bad == (SUBSET U) \ G
<1> SUFFICES ASSUME Bad # {} PROVE FALSE
  OBVIOUS
<1>1. IsWellFoundedOn(StrictSubsetOrdering(U), SUBSET U)
  BY InclusionWellFounded
<1>2. PICK S \in Bad : \A T \in Bad : ~ (<<T, S>> \in StrictSubsetOrdering(U))
  <2>1. Bad \subseteq SUBSET U
    OBVIOUS
  <2> HIDE DEF Bad
  <2> QED BY <1>1, <2>1, WFMin
<1>3. ASSUME NEW x \in S PROVE S \ {x} \in G
  <2>1. <<S \ {x}, S>> \in StrictSubsetOrdering(U)
    BY DEF StrictSubsetOrdering
  <2> QED BY <1>2, <2>1
<1>4. S \in G
  BY <1>2, <1>3
<1> QED BY <1>4
-----------------------------------------------------------------------------
Total(h, S) == MapThenSumSet(LAMBDA x : h[x], S)

(* What the community modules' sum chooses first, and how it goes on.      *)
First(s) == CHOOSE x \in s : TRUE
OneStep(h, f, s) == IF s = {} THEN 0 ELSE h[First(s)] + f[s \ {First(s)}]
Partial(h, U) == CHOOSE f : f = [s \in SUBSET U |-> OneStep(h, f, s)]

(* A total is the fold the community module defines it by, read as a       *)
(* function on the parts of the set.                                       *)
LEMMA TotalIsPartial ==
  ASSUME NEW h, NEW U
  PROVE  Total(h, U) = Partial(h, U)[U]
BY DEF Total, MapThenSumSet, MapThenFoldSet, Partial, OneStep, First

(* The recursion has a solution: one for the sets of at most n elements    *)
(* determines the one for n + 1.                                           *)
LEMMA PartialExists ==
  ASSUME NEW U, IsFiniteSet(U), NEW h
  PROVE  Partial(h, U) = [s \in SUBSET U |-> OneStep(h, Partial(h, U), s)]
<1> DEFINE Small(n) == {s \in SUBSET U : Cardinality(s) <= n}
           G == {n \in Nat : \E f : f = [s \in Small(n) |-> OneStep(h, f, s)]}
<1>0. ASSUME NEW s \in SUBSET U
      PROVE  IsFiniteSet(s) /\ Cardinality(s) \in Nat /\ (Cardinality(s) = 0 <=> s = {})
  BY FS_Subset, FS_CardinalityType, FS_EmptySet
<1>1. 0 \in G
  <2> DEFINE f == [s \in Small(0) |-> 0]
  <2>1. \A s \in Small(0) : s = {}
    BY <1>0
  <2>2. f = [s \in Small(0) |-> OneStep(h, f, s)]
    BY <2>1 DEF OneStep
  <2> QED BY <2>2
<1>2. ASSUME NEW n \in G PROVE n + 1 \in G
  <2>1. PICK f : f = [s \in Small(n) |-> OneStep(h, f, s)]
    OBVIOUS
  <2> DEFINE g == [s \in Small(n + 1) |-> OneStep(h, f, s)]
  <2>2. \A s \in Small(n) : s \in Small(n + 1) /\ g[s] = f[s]
    <3>1. \A s \in Small(n) : s \in Small(n + 1)
      BY <1>0
    <3>2. \A s \in Small(n) : g[s] = OneStep(h, f, s)
      BY <3>1
    <3>3. \A s \in Small(n) : f[s] = OneStep(h, f, s)
      BY <2>1
    <3> QED BY <3>1, <3>2, <3>3
  <2>3. ASSUME NEW s \in Small(n + 1), s # {}
        PROVE  s \ {First(s)} \in Small(n)
    <3>1. First(s) \in s
      BY <2>3 DEF First
    <3>2. Cardinality(s \ {First(s)}) = Cardinality(s) - 1
      BY <1>0, <3>1, FS_RemoveElement
    <3> QED BY <1>0, <3>2
  <2>4. ASSUME NEW s \in Small(n + 1) PROVE OneStep(h, f, s) = OneStep(h, g, s)
    <3>1. s # {} => f[s \ {First(s)}] = g[s \ {First(s)}]
      BY <2>2, <2>3
    <3> HIDE DEF g
    <3> QED BY <3>1 DEF OneStep
  <2>5. g = [s \in Small(n + 1) |-> OneStep(h, g, s)]
    BY <2>4
  <2>6. \E k : k = [s \in Small(n + 1) |-> OneStep(h, k, s)]
    <3> HIDE DEF g, Small
    <3> QED BY <2>5
  <2>7. n + 1 \in Nat
    OBVIOUS
  <2> HIDE DEF g, Small
  <2> QED BY <2>6, <2>7
<1>3. G = Nat
  <2> HIDE DEF G
  <2>1. G \in SUBSET Nat
    BY DEF G
  <2> QED BY <1>1, <1>2, <2>1, NumberInduction
<1>4. Cardinality(U) \in Nat
  BY FS_CardinalityType
<1>5. PICK f : f = [s \in Small(Cardinality(U)) |-> OneStep(h, f, s)]
  BY <1>3, <1>4
<1>6. Small(Cardinality(U)) = SUBSET U
  BY FS_Subset
<1>7. f = [s \in SUBSET U |-> OneStep(h, f, s)]
  BY <1>5, <1>6
<1> QED BY <1>7 DEF Partial

(* A part of the solution is the solution for the part.                    *)
LEMMA PartialOfPart ==
  ASSUME NEW U, IsFiniteSet(U), NEW h, NEW S \in SUBSET U
  PROVE  Partial(h, U)[S] = Total(h, S)
<1>0. IsFiniteSet(S)
  BY FS_Subset
<1> DEFINE G == {s \in SUBSET S : Partial(h, U)[s] = Partial(h, S)[s]}
<1>1. ASSUME NEW s \in SUBSET S
      PROVE  /\ Partial(h, U)[s] = OneStep(h, Partial(h, U), s)
             /\ Partial(h, S)[s] = OneStep(h, Partial(h, S), s)
  <2>1. s \in SUBSET U
    OBVIOUS
  <2>2. Partial(h, U) = [t \in SUBSET U |-> OneStep(h, Partial(h, U), t)]
    BY PartialExists
  <2>3. Partial(h, S) = [t \in SUBSET S |-> OneStep(h, Partial(h, S), t)]
    BY <1>0, PartialExists
  <2>4. Partial(h, U)[s] = OneStep(h, Partial(h, U), s)
    BY ONLY <2>1, <2>2
  <2>5. Partial(h, S)[s] = OneStep(h, Partial(h, S), s)
    BY ONLY <2>3, s \in SUBSET S
  <2> QED BY <2>4, <2>5
<1>2. {} \in G
  BY <1>1 DEF OneStep
<1>3. ASSUME NEW s \in SUBSET S, s # {}, \A x \in s : s \ {x} \in G
      PROVE  s \in G
  <2>1. First(s) \in s
    BY <1>3 DEF First
  <2> QED BY <1>1, <1>3, <2>1 DEF OneStep
<1>4. G = SUBSET S
  <2>1. G \in SUBSET SUBSET S
    OBVIOUS
  <2> HIDE DEF G
  <2> QED BY <1>0, <1>2, <1>3, <2>1, SetInduction
<1> QED BY <1>4, TotalIsPartial

(* The sum over nothing, and over a set from which one element is taken:   *)
(* the chosen one, to begin with.                                          *)
LEMMA TotalEmpty ==
  ASSUME NEW h
  PROVE  Total(h, {}) = 0
<1>1. IsFiniteSet({})
  BY FS_EmptySet
<1>2. Partial(h, {}) = [s \in SUBSET {} |-> OneStep(h, Partial(h, {}), s)]
  BY <1>1, PartialExists
<1>3. Partial(h, {})[{}] = OneStep(h, Partial(h, {}), {})
  BY ONLY <1>2
<1> QED BY <1>3, TotalIsPartial DEF OneStep

(* A total is its first element and the total of the rest.                 *)
LEMMA TotalFirst ==
  ASSUME NEW S, IsFiniteSet(S), S # {}, NEW h
  PROVE  /\ First(S) \in S
         /\ Total(h, S) = h[First(S)] + Total(h, S \ {First(S)})
<1>1. First(S) \in S
  BY DEF First
<1>2. Partial(h, S) = [s \in SUBSET S |-> OneStep(h, Partial(h, S), s)]
  BY PartialExists
<1>3. Partial(h, S)[S] = OneStep(h, Partial(h, S), S)
  BY ONLY <1>2
<1>4. Partial(h, S)[S \ {First(S)}] = Total(h, S \ {First(S)})
  BY PartialOfPart
<1> QED BY <1>1, <1>3, <1>4, TotalIsPartial DEF OneStep

(* The sum of integers is an integer.                                      *)
LEMMA TotalType ==
  ASSUME NEW U, IsFiniteSet(U), NEW h, \A x \in U : h[x] \in Int
  PROVE  \A S \in SUBSET U : Total(h, S) \in Int
<1> DEFINE G == {S \in SUBSET U : Total(h, S) \in Int}
<1>1. {} \in G
  BY TotalEmpty
<1>2. ASSUME NEW S \in SUBSET U, S # {}, \A x \in S : S \ {x} \in G
      PROVE  S \in G
  <2>1. IsFiniteSet(S)
    BY FS_Subset
  <2>2. /\ First(S) \in S
        /\ Total(h, S) = h[First(S)] + Total(h, S \ {First(S)})
    BY <1>2, <2>1, TotalFirst
  <2>3. h[First(S)] \in Int /\ Total(h, S \ {First(S)}) \in Int
    BY <1>2, <2>2
  <2> QED BY <2>2, <2>3
<1>3. G = SUBSET U
  <2>1. G \in SUBSET SUBSET U
    OBVIOUS
  <2> HIDE DEF G
  <2> QED BY <1>1, <1>2, <2>1, SetInduction
<1> QED BY <1>3

(* Any element may be taken first.                                         *)
LEMMA TotalSplit ==
  ASSUME NEW U, IsFiniteSet(U), NEW h, \A x \in U : h[x] \in Int
  PROVE  \A S \in SUBSET U : \A x \in S : Total(h, S) = h[x] + Total(h, S \ {x})
<1> DEFINE G == {S \in SUBSET U : \A x \in S : Total(h, S) = h[x] + Total(h, S \ {x})}
<1>1. {} \in G
  OBVIOUS
<1>2. ASSUME NEW S \in SUBSET U, S # {}, \A x \in S : S \ {x} \in G
      PROVE  S \in G
  <2> SUFFICES ASSUME NEW x \in S PROVE Total(h, S) = h[x] + Total(h, S \ {x})
    OBVIOUS
  <2> DEFINE c == First(S)
             rest == (S \ {c}) \ {x}
  <2>1. IsFiniteSet(S)
    BY FS_Subset
  <2>2. c \in S /\ Total(h, S) = h[c] + Total(h, S \ {c})
    BY <1>2, <2>1, TotalFirst
  <2>3. CASE x = c
    BY <2>2, <2>3
  <2>4. CASE x # c
    <3>1. x \in S \ {c} /\ c \in S \ {x} /\ (S \ {x}) \ {c} = rest
      BY <2>2, <2>4
    <3>2. Total(h, S \ {c}) = h[x] + Total(h, rest)
      BY <1>2, <2>2, <3>1
    <3>3. Total(h, S \ {x}) = h[c] + Total(h, rest)
      BY <1>2, <3>1
    <3>4. h[x] \in Int /\ h[c] \in Int /\ Total(h, rest) \in Int
      BY <2>2, TotalType
    <3> HIDE DEF c, rest
    <3> QED BY <2>2, <3>2, <3>3, <3>4
  <2> QED BY <2>3, <2>4
<1>3. G = SUBSET U
  <2>1. G \in SUBSET SUBSET U
    OBVIOUS
  <2> HIDE DEF G
  <2> QED BY <1>1, <1>2, <2>1, SetInduction
<1> QED BY <1>3

(* The sum sees of a function what it is on the set.                       *)
LEMMA TotalSame ==
  ASSUME NEW U, IsFiniteSet(U), NEW h, NEW g, \A x \in U : g[x] = h[x]
  PROVE  \A S \in SUBSET U : Total(g, S) = Total(h, S)
<1> DEFINE G == {S \in SUBSET U : Total(g, S) = Total(h, S)}
<1>1. {} \in G
  BY TotalEmpty
<1>2. ASSUME NEW S \in SUBSET U, S # {}, \A x \in S : S \ {x} \in G
      PROVE  S \in G
  <2>1. IsFiniteSet(S)
    BY FS_Subset
  <2>2. /\ First(S) \in S
        /\ Total(h, S) = h[First(S)] + Total(h, S \ {First(S)})
        /\ Total(g, S) = g[First(S)] + Total(g, S \ {First(S)})
    BY <1>2, <2>1, TotalFirst
  <2>3. Total(g, S \ {First(S)}) = Total(h, S \ {First(S)}) /\ g[First(S)] = h[First(S)]
    BY <1>2, <2>2
  <2> QED BY <2>2, <2>3
<1>3. G = SUBSET U
  <2>1. G \in SUBSET SUBSET U
    OBVIOUS
  <2> HIDE DEF G
  <2> QED BY <1>1, <1>2, <2>1, SetInduction
<1> QED BY <1>3

(* Where a function changes at one element, its sum changes by as much.    *)
LEMMA TotalChange ==
  ASSUME NEW S, IsFiniteSet(S), NEW x \in S, NEW h, NEW g,
         \A y \in S : h[y] \in Int, g[x] \in Int,
         \A y \in S \ {x} : g[y] = h[y]
  PROVE  /\ Total(h, S) \in Int
         /\ Total(g, S) = Total(h, S) - h[x] + g[x]
<1>1. IsFiniteSet(S \ {x})
  BY FS_RemoveElement
<1>2. Total(g, S \ {x}) = Total(h, S \ {x})
  BY <1>1, TotalSame
<1>3. \A y \in S : g[y] \in Int
  OBVIOUS
<1>4. Total(g, S) = g[x] + Total(g, S \ {x})
  BY <1>3, TotalSplit
<1>5. Total(h, S) = h[x] + Total(h, S \ {x})
  BY TotalSplit
<1>6. /\ Total(h, S) \in Int /\ Total(h, S \ {x}) \in Int
      /\ h[x] \in Int
  BY TotalType
<1> QED BY <1>2, <1>4, <1>5, <1>6

(* A part of what is not negative is no more than the whole.               *)
LEMMA TotalAtLeast ==
  ASSUME NEW U, IsFiniteSet(U), NEW h, \A x \in U : h[x] \in Nat
  PROVE  \A S \in SUBSET U : Total(h, S) \in Nat /\ \A x \in S : h[x] <= Total(h, S)
<1> DEFINE G == {S \in SUBSET U : Total(h, S) \in Nat}
<1>1. {} \in G
  BY TotalEmpty
<1>2. ASSUME NEW S \in SUBSET U, S # {}, \A x \in S : S \ {x} \in G
      PROVE  S \in G
  <2>1. PICK x \in S : TRUE
    BY <1>2
  <2>2. Total(h, S) = h[x] + Total(h, S \ {x})
    BY TotalSplit
  <2>3. Total(h, S \ {x}) \in Nat /\ h[x] \in Nat
    BY <1>2
  <2> QED BY <2>2, <2>3
<1>3. G = SUBSET U
  <2>1. G \in SUBSET SUBSET U
    OBVIOUS
  <2> HIDE DEF G
  <2> QED BY <1>1, <1>2, <2>1, SetInduction
<1>4. ASSUME NEW S \in SUBSET U, NEW x \in S PROVE h[x] <= Total(h, S)
  <2>1. Total(h, S) = h[x] + Total(h, S \ {x})
    BY TotalSplit
  <2>2. Total(h, S \ {x}) \in Nat /\ h[x] \in Nat
    BY <1>3
  <2> QED BY <2>1, <2>2
<1> QED BY <1>3, <1>4

(* A sum of nothings is nothing.                                           *)
LEMMA TotalZero ==
  ASSUME NEW U, IsFiniteSet(U), NEW h, \A x \in U : h[x] = 0
  PROVE  Total(h, U) = 0
<1> DEFINE G == {S \in SUBSET U : Total(h, S) = 0}
<1>1. {} \in G
  BY TotalEmpty
<1>2. ASSUME NEW S \in SUBSET U, S # {}, \A x \in S : S \ {x} \in G
      PROVE  S \in G
  <2>1. PICK x \in S : TRUE
    BY <1>2
  <2>2. Total(h, S) = h[x] + Total(h, S \ {x})
    BY TotalSplit
  <2> QED BY <1>2, <2>2
<1>3. G = SUBSET U
  <2>1. G \in SUBSET SUBSET U
    OBVIOUS
  <2> HIDE DEF G
  <2> QED BY <1>1, <1>2, <2>1, SetInduction
<1> QED BY <1>3
=============================================================================
