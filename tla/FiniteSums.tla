----------------------------- MODULE FiniteSums -----------------------------
(***************************************************************************)
(* What SumFunction of the module Functions computes, for every function   *)
(* from a finite set to the integers: the sum changes by as much as one of *)
(* its terms, a sum of zeros is zero, and greater terms have a greater     *)
(* sum.  The proofs about amounts that many requests take from one row     *)
(* rest on these facts.                                                    *)
(*                                                                         *)
(* SumFunction is a recursive function over the subsets of the domain.  An *)
(* induction over them is the search for a smallest counterexample: a set  *)
(* of subsets that is not empty has a member from which no element can be  *)
(* taken without leaving it (Smallest).                                    *)
(***************************************************************************)
EXTENDS Integers, Functions, FiniteSets, FiniteSetTheorems, WellFoundedInduction, TLAPS

(* The element a fold takes next.                                          *)
First(s) == CHOOSE x \in s : TRUE

(* it is defined on D by the recursion of SumFunction.                     *)
IsSum(D, f, it) == it = [s \in D |-> IF s = {} THEN 0 ELSE f[First(s)] + it[s \ {First(s)}]]

UpTo(S, n) == {s \in SUBSET S : Cardinality(s) <= n}

(* The sums of f over all subsets of S.                                    *)
SumUp(S, f) == CHOOSE it : IsSum(SUBSET S, f, it)

Unfolds(S, f, F) ==
    /\ F[{}] = 0
    /\ \A s \in SUBSET S : s # {} => F[s] = f[First(s)] + F[s \ {First(s)}]

(* The induction principle.                                                *)
LEMMA Smallest ==
    ASSUME NEW S, IsFiniteSet(S), NEW T \in SUBSET (SUBSET S), T # {}
    PROVE  \E s \in T : \A x \in s : s \ {x} \notin T
<1>1. IsWellFoundedOn(StrictSubsetOrdering(S), SUBSET S)
  BY FS_StrictSubsetOrderingWellFounded, FS_FiniteSubsetsOfFinite
<1>2. PICK s \in T : \A t \in T : ~(<<t, s>> \in StrictSubsetOrdering(S))
  BY <1>1, WFMin
<1>3. ASSUME NEW x \in s, s \ {x} \in T PROVE FALSE
  <2>1. <<s \ {x}, s>> \in (SUBSET S) \X (SUBSET S)
    OBVIOUS
  <2>2. <<s \ {x}, s>> \in StrictSubsetOrdering(S)
    BY <2>1 DEF StrictSubsetOrdering
  <2> QED BY <1>2, <1>3, <2>2
<1> QED BY <1>3

(* The definition, unfolded once.                                          *)
LEMMA SumIs ==
    ASSUME NEW S, NEW f, DOMAIN f = S
    PROVE  SumFunction(f) = SumUp(S, f)[S]
  BY DEF SumFunction, SumFunctionOnSet, FoldFunctionOnSet, MapThenFoldSet, SumUp, IsSum, First

LEMMA FirstIn == ASSUME NEW s, s # {} PROVE First(s) \in s
  BY DEF First

(* The recursion that defines a sum has a solution.                        *)
LEMMA SumExists ==
    ASSUME NEW S, IsFiniteSet(S), NEW f
    PROVE  \E it : IsSum(SUBSET S, f, it)
<1> DEFINE T == {c \in SUBSET S : ~\E it : IsSum(UpTo(S, Cardinality(c)), f, it)}
<1>0. \A c \in SUBSET S : IsFiniteSet(c) /\ Cardinality(c) \in Nat
  BY FS_Subset, FS_CardinalityType
<1>1. T = {}
  <2> SUFFICES ASSUME T # {} PROVE FALSE
    OBVIOUS
  <2>1. PICK c \in T : \A x \in c : c \ {x} \notin T
    <3>1. T \in SUBSET (SUBSET S)
      OBVIOUS
    <3> HIDE DEF T
    <3> QED BY <3>1, Smallest
  <2>2. CASE c = {}
    <3>1. UpTo(S, 0) = {{}}
      BY <1>0, FS_EmptySet DEF UpTo
    <3>2. IsSum({{}}, f, [s \in {{}} |-> 0])
      BY DEF IsSum
    <3> QED BY <2>2, <3>1, <3>2, FS_EmptySet
  <2>3. CASE c # {}
    <3>1. PICK x \in c : TRUE
      BY <2>3
    <3>2. PICK g : IsSum(UpTo(S, Cardinality(c \ {x})), f, g)
      BY <2>1
    <3>3. Cardinality(c \ {x}) = Cardinality(c) - 1
      BY <1>0, FS_RemoveElement
    <3> DEFINE n == Cardinality(c)
               D == UpTo(S, n - 1)
               h == [s \in UpTo(S, n) |-> IF s = {} THEN 0 ELSE f[First(s)] + g[s \ {First(s)}]]
    <3>4. \A s \in UpTo(S, n) : s # {} => s \ {First(s)} \in D
      <4> SUFFICES ASSUME NEW s \in UpTo(S, n), s # {} PROVE s \ {First(s)} \in D
        OBVIOUS
      <4>1. Cardinality(s \ {First(s)}) = Cardinality(s) - 1
        BY <1>0, FirstIn, FS_RemoveElement DEF UpTo
      <4> QED BY <1>0, <4>1 DEF UpTo
    <3>5. g = [s \in D |-> IF s = {} THEN 0 ELSE f[First(s)] + g[s \ {First(s)}]]
      BY <3>2, <3>3 DEF IsSum
    <3>6. D \subseteq UpTo(S, n)
      BY <1>0 DEF UpTo
    <3>7. \A s \in D : h[s] = g[s]
      <4> HIDE DEF D
      <4> QED BY <3>5, <3>6
    <3>8. \A s \in UpTo(S, n) : s # {} => h[s \ {First(s)}] = g[s \ {First(s)}]
      BY <3>4, <3>7
    <3>9. h = [s \in UpTo(S, n) |-> IF s = {} THEN 0 ELSE f[First(s)] + h[s \ {First(s)}]]
      BY <3>8
    <3> QED BY <3>9 DEF IsSum
  <2> QED BY <2>2, <2>3
<1>2. UpTo(S, Cardinality(S)) = SUBSET S
  BY <1>0, FS_Subset DEF UpTo
<1>3. S \notin T
  BY <1>1
<1> QED BY <1>2, <1>3

(* So the sums satisfy it.                                                 *)
LEMMA SumUnfolds ==
    ASSUME NEW S, IsFiniteSet(S), NEW f
    PROVE  Unfolds(S, f, SumUp(S, f))
<1>1. IsSum(SUBSET S, f, SumUp(S, f))
  BY SumExists DEF SumUp
<1> HIDE DEF SumUp
<1> QED BY <1>1 DEF IsSum, Unfolds

LEMMA SumIsInt ==
    ASSUME NEW S, IsFiniteSet(S), NEW f \in [S -> Int]
    PROVE  \A s \in SUBSET S : SumUp(S, f)[s] \in Int
<1> DEFINE F == SumUp(S, f)
           T == {s \in SUBSET S : F[s] \notin Int}
<1>0. Unfolds(S, f, F)
  BY SumUnfolds
<1> HIDE DEF F
<1> SUFFICES ASSUME T # {} PROVE FALSE
  BY DEF F
<1>1. PICK s \in T : \A x \in s : s \ {x} \notin T
  <2>1. T \in SUBSET (SUBSET S)
    OBVIOUS
  <2> HIDE DEF T
  <2> QED BY <2>1, Smallest
<1>2. s # {}
  <2>1. F[{}] = 0
    BY <1>0 DEF Unfolds
  <2> QED BY <2>1
<1>3. First(s) \in s
  BY <1>2, FirstIn
<1>4. F[s \ {First(s)}] \in Int
  BY <1>1, <1>3
<1>5. F[s] = f[First(s)] + F[s \ {First(s)}]
  BY <1>0, <1>2 DEF Unfolds
<1> QED BY <1>3, <1>4, <1>5

(* Over every subset, the sums of functions that differ in x.              *)
LEMMA SumsDiffer ==
    ASSUME NEW S, IsFiniteSet(S), NEW f \in [S -> Int], NEW g \in [S -> Int], NEW x \in S,
           \A y \in S : y # x => g[y] = f[y]
    PROVE  \A s \in SUBSET S : SumUp(S, g)[s] = SumUp(S, f)[s] + (IF x \in s THEN g[x] - f[x] ELSE 0)
<1> DEFINE F == SumUp(S, f)
           G == SumUp(S, g)
           d(s) == IF x \in s THEN g[x] - f[x] ELSE 0
           T == {s \in SUBSET S : G[s] # F[s] + d(s)}
<1>0. Unfolds(S, f, F) /\ Unfolds(S, g, G)
  BY SumUnfolds
<1>6. \A r \in SUBSET S : F[r] \in Int
  BY SumIsInt
<1> HIDE DEF F, G
<1> SUFFICES ASSUME T # {} PROVE FALSE
  BY DEF F, G
<1>1. PICK s \in T : \A y \in s : s \ {y} \notin T
  <2>1. T \in SUBSET (SUBSET S)
    OBVIOUS
  <2> HIDE DEF T
  <2> QED BY <2>1, Smallest
<1>2. s # {}
  <2>1. F[{}] = 0
    BY <1>0 DEF Unfolds
  <2>2. G[{}] = 0
    BY <1>0 DEF Unfolds
  <2>3. d({}) = 0
    OBVIOUS
  <2> HIDE DEF d
  <2> QED BY <2>1, <2>2, <2>3
<1>3. First(s) \in s
  BY <1>2, FirstIn
<1> DEFINE t == s \ {First(s)}
<1>4. G[t] = F[t] + d(t)
  BY <1>1, <1>3
<1>5. F[s] = f[First(s)] + F[t] /\ G[s] = g[First(s)] + G[t]
  BY <1>0, <1>2 DEF Unfolds
<1>7. g[First(s)] - f[First(s)] + d(t) = d(s) /\ d(t) \in Int /\ d(s) \in Int
  <2>1. CASE First(s) = x
    BY <2>1, <1>3
  <2>2. CASE First(s) # x
    BY <2>2, <1>3
  <2> QED BY <2>1, <2>2
<1>8. G[s] = F[s] + d(s)
  <2>1. f[First(s)] \in Int /\ g[First(s)] \in Int /\ F[t] \in Int
    BY <1>3, <1>6
  <2> HIDE DEF d, t
  <2> QED BY <1>4, <1>5, <1>7, <2>1
<1> QED BY <1>8

LEMMA SumInt ==
    ASSUME NEW S, IsFiniteSet(S), NEW f \in [S -> Int]
    PROVE  SumFunction(f) \in Int
<1>1. SumFunction(f) = SumUp(S, f)[S]
  BY SumIs
<1> QED BY <1>1, SumIsInt

(* Changing one term changes the sum by the difference.                    *)
LEMMA SumChanges ==
    ASSUME NEW S, IsFiniteSet(S), NEW f \in [S -> Int], NEW g \in [S -> Int], NEW x \in S,
           \A y \in S : y # x => g[y] = f[y]
    PROVE  SumFunction(f) \in Int /\ SumFunction(g) = SumFunction(f) + (g[x] - f[x])
<1>1. SumFunction(f) = SumUp(S, f)[S] /\ SumFunction(g) = SumUp(S, g)[S]
  BY SumIs
<1> QED BY <1>1, SumIsInt, SumsDiffer

LEMMA SumOfZeros ==
    ASSUME NEW S, IsFiniteSet(S)
    PROVE  SumFunction([x \in S |-> 0]) = 0
<1> DEFINE f == [x \in S |-> 0]
           F == SumUp(S, f)
           T == {s \in SUBSET S : F[s] # 0}
<1>0. Unfolds(S, f, F)
  BY SumUnfolds
<1>1. SumFunction(f) = F[S]
  BY SumIs
<1> HIDE DEF F
<1> SUFFICES ASSUME T # {} PROVE FALSE
  BY <1>1
<1>2. PICK s \in T : \A y \in s : s \ {y} \notin T
  <2>1. T \in SUBSET (SUBSET S)
    OBVIOUS
  <2> HIDE DEF T
  <2> QED BY <2>1, Smallest
<1>3. s # {}
  <2>1. F[{}] = 0
    BY <1>0 DEF Unfolds
  <2> QED BY <2>1
<1>4. First(s) \in s
  BY <1>3, FirstIn
<1>5. F[s] = f[First(s)] + F[s \ {First(s)}]
  BY <1>0, <1>3 DEF Unfolds
<1>6. F[s \ {First(s)}] = 0 /\ f[First(s)] = 0
  BY <1>2, <1>4
<1> QED BY <1>5, <1>6

(* Terms that are not smaller have a sum that is not smaller.              *)
LEMMA SumGrows ==
    ASSUME NEW S, IsFiniteSet(S), NEW f \in [S -> Int], NEW g \in [S -> Int],
           \A x \in S : f[x] <= g[x]
    PROVE  SumFunction(f) <= SumFunction(g)
<1> DEFINE F == SumUp(S, f)
           G == SumUp(S, g)
           T == {s \in SUBSET S : ~(F[s] <= G[s])}
<1>0. Unfolds(S, f, F) /\ Unfolds(S, g, G)
  BY SumUnfolds
<1>1. \A r \in SUBSET S : F[r] \in Int
  BY SumIsInt
<1>2. \A r \in SUBSET S : G[r] \in Int
  BY SumIsInt
<1>3. SumFunction(f) = F[S] /\ SumFunction(g) = G[S]
  BY SumIs
<1> HIDE DEF F, G
<1> SUFFICES ASSUME T # {} PROVE FALSE
  BY <1>3
<1>4. PICK s \in T : \A y \in s : s \ {y} \notin T
  <2>1. T \in SUBSET (SUBSET S)
    OBVIOUS
  <2> HIDE DEF T
  <2> QED BY <2>1, Smallest
<1>5. s # {}
  <2>1. F[{}] = 0
    BY <1>0 DEF Unfolds
  <2>2. G[{}] = 0
    BY <1>0 DEF Unfolds
  <2> QED BY <2>1, <2>2
<1>6. First(s) \in s
  BY <1>5, FirstIn
<1> DEFINE t == s \ {First(s)}
<1>7. F[t] <= G[t] /\ t \in SUBSET S
  BY <1>4, <1>6
<1>8. F[s] = f[First(s)] + F[t] /\ G[s] = g[First(s)] + G[t]
  BY <1>0, <1>5 DEF Unfolds
<1>9. f[First(s)] <= g[First(s)] /\ f[First(s)] \in Int /\ g[First(s)] \in Int
  BY <1>6
<1>10. F[s] <= G[s]
  <2> HIDE DEF t
  <2> QED BY <1>1, <1>2, <1>7, <1>8, <1>9
<1> QED BY <1>10

=============================================================================
