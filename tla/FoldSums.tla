------------------------------- MODULE FoldSums -------------------------------
(***************************************************************************)
(* Sums over a finite set, as FoldFunction(+, 0, f) computes them: what    *)
(* the proofs need to know when one value of f changes.  The fold is a     *)
(* recursive function, so its facts come by induction; the induction runs  *)
(* on sets, as the least element of the set of counterexamples.            *)
(***************************************************************************)
EXTENDS Integers, Functions, FiniteSets, FiniteSetTheorems, WellFoundedInduction,
        TLAPS

(***************************************************************************)
(* Induction, with a set in the place of a predicate.                      *)
(***************************************************************************)
(* A set of numbers that is not empty has a least one. *)
LEMMA LeastNumber ==
  ASSUME NEW T \in SUBSET Nat, T # {}
  PROVE  \E n \in T : \A m \in T : ~(m < n)
<1>1. PICK R : R = OpToRel(<, Nat)
  OBVIOUS
<1>2. \A m, n \in Nat : m < n => <<m, n>> \in R
  BY <1>1 DEF OpToRel
<1>3. \E n \in T : \A m \in T : ~(<<m, n>> \in R)
  BY <1>1, NatLessThanWellFounded, WFMin
<1>. QED
  BY <1>2, <1>3

(* A set with 0 and the successor of each of its numbers has all. *)
LEMMA NumberInduction ==
  ASSUME NEW T, 0 \in T, \A n \in Nat : n \in T => n + 1 \in T
  PROVE  Nat \subseteq T
<1>1. SUFFICES ASSUME Nat \ T # {} PROVE FALSE
  OBVIOUS
<1>2. PICK n \in Nat \ T : \A m \in Nat \ T : ~(m < n)
  BY <1>1, LeastNumber
<1>3. n - 1 \in Nat /\ n - 1 < n /\ n - 1 + 1 = n
  BY <1>2
<1>4. n - 1 \in T
  BY <1>2, <1>3
<1>. QED
  BY <1>2, <1>3, <1>4

-----------------------------------------------------------------------------
(***************************************************************************)
(* The element a fold takes from a set next, and the function from the     *)
(* subsets of S to their sums that the recursive function inside           *)
(* FoldFunction is.                                                        *)
(***************************************************************************)
Any(s) == CHOOSE x \in s : TRUE

SumStep(f, g, s) == IF s = {} THEN 0 ELSE f[Any(s)] + g[s \ {Any(s)}]

SumFcn(f, S) == CHOOSE g : g = [s \in SUBSET S |-> SumStep(f, g, s)]

(* Taking an element leaves a smaller set. *)
LEMMA AnyOf ==
  ASSUME NEW S, IsFiniteSet(S), NEW s \in SUBSET S, s # {}
  PROVE  /\ Any(s) \in s
         /\ s \ {Any(s)} \in SUBSET S
         /\ Cardinality(s) \in Nat \ {0}
         /\ Cardinality(s \ {Any(s)}) = Cardinality(s) - 1
<1>1. Any(s) \in s
  BY DEF Any
<1>2. IsFiniteSet(s) /\ Cardinality(s) \in Nat /\ Cardinality(s) # 0
  BY FS_Subset, FS_CardinalityType, FS_EmptySet
<1>3. Cardinality(s \ {Any(s)}) = Cardinality(s) - 1
  BY <1>1, <1>2, FS_RemoveElement
<1>. QED
  BY <1>1, <1>2, <1>3

(* Induction along the elements a fold takes. *)
LEMMA SubsetInduction ==
  ASSUME NEW S, IsFiniteSet(S), NEW T, {} \in T,
         \A s \in SUBSET S : s # {} /\ s \ {Any(s)} \in T => s \in T
  PROVE  SUBSET S \subseteq T
<1>1. PICK N : N = {n \in Nat : \A s \in SUBSET S : Cardinality(s) = n => s \in T}
  OBVIOUS
<1>2. 0 \in N
  <2>1. ASSUME NEW s \in SUBSET S, Cardinality(s) = 0 PROVE s \in T
    BY <2>1, FS_Subset, FS_EmptySet
  <2>. QED
    BY <1>1, <2>1
<1>3. ASSUME NEW n \in Nat, n \in N PROVE n + 1 \in N
  <2>1. ASSUME NEW s \in SUBSET S, Cardinality(s) = n + 1 PROVE s \in T
    <3>1. s # {}
      BY <2>1, FS_EmptySet
    <3>2. Cardinality(s \ {Any(s)}) = n /\ s \ {Any(s)} \in SUBSET S
      BY <2>1, <3>1, AnyOf
    <3>3. s \ {Any(s)} \in T
      BY <1>1, <1>3, <3>2
    <3>. QED
      BY <3>1, <3>3
  <2>. QED
    BY <1>1, <2>1
<1>4. Nat \subseteq N
  BY <1>2, <1>3, NumberInduction
<1>5. ASSUME NEW s \in SUBSET S PROVE s \in T
  <2>1. Cardinality(s) \in Nat
    BY FS_Subset, FS_CardinalityType
  <2>. QED
    BY <1>1, <1>4, <2>1
<1>. QED
  BY <1>5

(* There is such a function: by induction on the size of the subsets. *)
LEMMA SumFcnDefined ==
  ASSUME NEW S, IsFiniteSet(S), NEW f
  PROVE  SumFcn(f, S) = [s \in SUBSET S |-> SumStep(f, SumFcn(f, S), s)]
<1> DEFINE Upto(g, n) ==
             \A s \in SUBSET S : Cardinality(s) <= n => g[s] = SumStep(f, g, s)
<1>1. PICK N : N = {n \in Nat : \E g : Upto(g, n)}
  OBVIOUS
<1>2. 0 \in N
  <2>1. PICK g : g = [s \in SUBSET S |-> 0]
    OBVIOUS
  <2>2. ASSUME NEW s \in SUBSET S, Cardinality(s) <= 0
        PROVE  g[s] = SumStep(f, g, s)
    <3>1. s = {}
      BY <2>2, FS_Subset, FS_CardinalityType, FS_EmptySet
    <3>. QED
      BY <2>1, <3>1 DEF SumStep
  <2>3. Upto(g, 0)
    BY <2>2
  <2>. QED
    BY <1>1, <2>3
<1>3. ASSUME NEW n \in Nat, n \in N PROVE n + 1 \in N
  <2>1. PICK g : Upto(g, n)
    BY <1>1, <1>3
  <2>2. PICK h : h = [s \in SUBSET S |-> SumStep(f, g, s)]
    OBVIOUS
  <2>3. ASSUME NEW s \in SUBSET S, Cardinality(s) <= n + 1
        PROVE  h[s] = SumStep(f, h, s)
    <3>1. CASE s = {}
      BY <2>2, <3>1 DEF SumStep
    <3>2. CASE s # {}
      <4>1. PICK t : t = s \ {Any(s)}
        OBVIOUS
      <4>2. /\ t \in SUBSET S /\ Cardinality(s) \in Nat
            /\ Cardinality(t) = Cardinality(s) - 1
        BY <3>2, <4>1, AnyOf
      <4>3. Cardinality(t) <= n
        BY <2>3, <4>2
      <4>4. g[t] = SumStep(f, g, t)
        BY <2>1, <4>2, <4>3
      <4>5. h[t] = g[t]
        BY <2>2, <4>2, <4>4
      <4>. QED
        BY <2>2, <3>2, <4>1, <4>5 DEF SumStep
    <3>. QED
      BY <3>1, <3>2
  <2>4. Upto(h, n + 1)
    BY <2>3
  <2>. QED
    BY <1>1, <2>4
<1>4. Nat \subseteq N
  BY <1>2, <1>3, NumberInduction
<1>5. Cardinality(S) \in Nat
  BY FS_CardinalityType
<1>6. PICK g : Upto(g, Cardinality(S))
  BY <1>1, <1>4, <1>5
<1>7. PICK h : h = [s \in SUBSET S |-> g[s]]
  OBVIOUS
<1>8. ASSUME NEW s \in SUBSET S
      PROVE  h[s] = SumStep(f, h, s)
  <2>1. g[s] = SumStep(f, g, s)
    BY <1>6, FS_Subset
  <2>2. s # {} => s \ {Any(s)} \in SUBSET S
    OBVIOUS
  <2>. QED
    BY <1>7, <2>1, <2>2 DEF SumStep
<1>9. h = [s \in SUBSET S |-> SumStep(f, h, s)]
  BY <1>7, <1>8
<1>. QED
  BY <1>9, Zenon DEF SumFcn

(* The sum of a set is an element's value and the sum of the others. *)
LEMMA SumOf ==
  ASSUME NEW S, IsFiniteSet(S), NEW f
  PROVE  /\ SumFcn(f, S)[{}] = 0
         /\ \A s \in SUBSET S :
              s # {} => SumFcn(f, S)[s] = f[Any(s)] + SumFcn(f, S)[s \ {Any(s)}]
<1>1. ASSUME NEW s \in SUBSET S
      PROVE  SumFcn(f, S)[s] = SumStep(f, SumFcn(f, S), s)
  <2>1. PICK e : e = [t \in SUBSET S |-> SumStep(f, SumFcn(f, S), t)]
    OBVIOUS
  <2>2. SumFcn(f, S) = e
    BY <2>1, SumFcnDefined, Zenon
  <2>3. e[s] = SumStep(f, SumFcn(f, S), s)
    BY <2>1
  <2>. QED
    BY <2>2, <2>3, Zenon
<1>. QED
  BY <1>1 DEF SumStep

(* A sum of integers is one. *)
LEMMA SumIsInt ==
  ASSUME NEW S, IsFiniteSet(S), NEW f \in [S -> Int], NEW s \in SUBSET S
  PROVE  SumFcn(f, S)[s] \in Int
<1>1. PICK T : T = {t \in SUBSET S : SumFcn(f, S)[t] \in Int}
  OBVIOUS
<1>2. {} \in T
  BY <1>1, SumOf
<1>3. ASSUME NEW t \in SUBSET S, t # {}, t \ {Any(t)} \in T PROVE t \in T
  <2>1. f[Any(t)] \in Int /\ SumFcn(f, S)[t \ {Any(t)}] \in Int
    BY <1>1, <1>3, AnyOf
  <2>2. SumFcn(f, S)[t] = f[Any(t)] + SumFcn(f, S)[t \ {Any(t)}]
    BY <1>3, SumOf
  <2>. QED
    BY <1>1, <2>1, <2>2
<1>4. SUBSET S \subseteq T
  BY <1>2, <1>3, SubsetInduction
<1>. QED
  BY <1>1, <1>4

(* Nothing added up is nothing. *)
LEMMA SumOfZeros ==
  ASSUME NEW S, IsFiniteSet(S), NEW f, \A x \in S : f[x] = 0, NEW s \in SUBSET S
  PROVE  SumFcn(f, S)[s] = 0
<1>1. PICK T : T = {t \in SUBSET S : SumFcn(f, S)[t] = 0}
  OBVIOUS
<1>2. {} \in T
  BY <1>1, SumOf
<1>3. ASSUME NEW t \in SUBSET S, t # {}, t \ {Any(t)} \in T PROVE t \in T
  <2>1. f[Any(t)] = 0 /\ SumFcn(f, S)[t \ {Any(t)}] = 0
    BY <1>1, <1>3, AnyOf
  <2>2. SumFcn(f, S)[t] = f[Any(t)] + SumFcn(f, S)[t \ {Any(t)}]
    BY <1>3, SumOf
  <2>. QED
    BY <1>1, <2>1, <2>2
<1>4. SUBSET S \subseteq T
  BY <1>2, <1>3, SubsetInduction
<1>. QED
  BY <1>1, <1>4

(* One value changed by d changes the sums that have it by d. *)
LEMMA SumOfChanged ==
  ASSUME NEW S, IsFiniteSet(S), NEW f \in [S -> Int], NEW p \in S, NEW d \in Int,
         NEW h \in [S -> Int], h[p] = f[p] + d, \A x \in S \ {p} : h[x] = f[x],
         NEW s \in SUBSET S
  PROVE  SumFcn(h, S)[s] = SumFcn(f, S)[s] + (IF p \in s THEN d ELSE 0)
<1> DEFINE More(t) == IF p \in t THEN d ELSE 0
<1>1. PICK T : T = {t \in SUBSET S : SumFcn(h, S)[t] = SumFcn(f, S)[t] + More(t)}
  OBVIOUS
<1>2. {} \in T
  BY <1>1, SumOf
<1>3. ASSUME NEW t \in SUBSET S, t # {}, t \ {Any(t)} \in T PROVE t \in T
  <2>1. PICK a, u : a = Any(t) /\ u = t \ {a}
    OBVIOUS
  <2>2. a \in t /\ u \in SUBSET S
    BY <1>3, <2>1, AnyOf
  <2>3. SumFcn(h, S)[u] = SumFcn(f, S)[u] + More(u)
    BY <1>1, <1>3, <2>1
  <2>4. /\ SumFcn(h, S)[t] = h[a] + SumFcn(h, S)[u]
        /\ SumFcn(f, S)[t] = f[a] + SumFcn(f, S)[u]
    <3>1. SumFcn(h, S)[t] = h[Any(t)] + SumFcn(h, S)[t \ {Any(t)}]
      BY <1>3, SumOf
    <3>2. SumFcn(f, S)[t] = f[Any(t)] + SumFcn(f, S)[t \ {Any(t)}]
      BY <1>3, SumOf
    <3>. QED
      BY <2>1, <3>1, <3>2, Zenon
  <2>5. SumFcn(f, S)[u] \in Int
    BY <2>2, SumIsInt
  <2>6. h[a] + More(u) = f[a] + More(t)
    BY <2>1, <2>2
  <2>7. f[a] \in Int /\ h[a] \in Int /\ More(u) \in Int /\ More(t) \in Int
    BY <2>2
  <2>8. SumFcn(h, S)[t] = SumFcn(f, S)[t] + More(t)
    BY <2>3, <2>4, <2>5, <2>6, <2>7
  <2>. QED
    BY <1>1, <2>8
<1>4. SUBSET S \subseteq T
  BY <1>2, <1>3, SubsetInduction
<1>. QED
  BY <1>1, <1>4

-----------------------------------------------------------------------------
(***************************************************************************)
(* The same of FoldFunction(+, 0, f).                                      *)
(***************************************************************************)
LEMMA FoldIsSum ==
  ASSUME NEW f
  PROVE  FoldFunction(+, 0, f) = SumFcn(f, DOMAIN f)[DOMAIN f]
BY Zenon DEF FoldFunction, FoldFunctionOnSet, MapThenFoldSet, SumFcn, SumStep, Any

(* A function that is 0 everywhere sums up to 0. *)
LEMMA FoldOfZeros ==
  ASSUME NEW S, IsFiniteSet(S)
  PROVE  FoldFunction(+, 0, [x \in S |-> 0]) = 0
<1>1. PICK f : f = [x \in S |-> 0]
  OBVIOUS
<1>2. SumFcn(f, S)[S] = 0
  BY <1>1, SumOfZeros
<1>3. FoldFunction(+, 0, f) = SumFcn(f, S)[S]
  <2>1. DOMAIN f = S
    BY <1>1
  <2>. QED
    BY <2>1, FoldIsSum, Zenon
<1>. QED
  BY <1>1, <1>2, <1>3, Zenon

(* A function to the integers sums up to one. *)
LEMMA FoldOfInts ==
  ASSUME NEW S, IsFiniteSet(S), NEW f \in [S -> Int]
  PROVE  FoldFunction(+, 0, f) \in Int
<1>1. DOMAIN f = S
  OBVIOUS
<1>2. FoldFunction(+, 0, f) = SumFcn(f, S)[S]
  BY <1>1, FoldIsSum, Zenon
<1>3. SumFcn(f, S)[S] \in Int
  BY SumIsInt
<1>. QED
  BY <1>2, <1>3, Zenon

(* One value replaced changes the sum by the difference. *)
LEMMA FoldOfChanged ==
  ASSUME NEW S, IsFiniteSet(S), NEW f \in [S -> Int], NEW p \in S, NEW v \in Int
  PROVE  FoldFunction(+, 0, [f EXCEPT ![p] = v])
           = FoldFunction(+, 0, f) + v - f[p]
<1>1. PICK h : h = [f EXCEPT ![p] = v]
  OBVIOUS
<1>2. h \in [S -> Int] /\ h[p] = v /\ \A x \in S \ {p} : h[x] = f[x]
  BY <1>1
<1>3. PICK d \in Int : d = v - f[p]
  OBVIOUS
<1>4. h[p] = f[p] + d
  BY <1>2, <1>3
<1>5. SumFcn(h, S)[S] = SumFcn(f, S)[S] + d
  BY <1>2, <1>4, SumOfChanged
<1>6. DOMAIN f = S /\ DOMAIN h = S
  BY <1>2
<1>7. /\ FoldFunction(+, 0, f) = SumFcn(f, S)[S]
      /\ FoldFunction(+, 0, h) = SumFcn(h, S)[S]
  BY <1>6, FoldIsSum, Zenon
<1>8. FoldFunction(+, 0, f) \in Int
  BY FoldOfInts
<1>9. PICK x, y : x = FoldFunction(+, 0, f) /\ y = FoldFunction(+, 0, h)
  OBVIOUS
<1>10. y = x + d /\ x \in Int
  BY <1>5, <1>7, <1>8, <1>9, Zenon
<1>11. y = x + v - f[p]
  BY <1>3, <1>10
<1>. QED
  BY <1>1, <1>9, <1>11, Zenon

=============================================================================
