---------------------------- MODULE SumTheorems -----------------------------
(***************************************************************************)
(* Sums over finite sets, for every function and every set: stock, the     *)
(* units of orders and the totals of views are such sums.                  *)
(*                                                                         *)
(* SumFunctionOnSet takes the elements in the order CHOOSE gives them.     *)
(* The lemmas say that it is well defined, that the order does not matter, *)
(* and how a sum changes with the function and with the set.               *)
(***************************************************************************)
EXTENDS Integers, Functions, Folds, FiniteSetTheorems, TLAPS

-----------------------------------------------------------------------------
(***************************************************************************)
(* Induction over finite sets, for a property given as the set of the sets *)
(* that have it.                                                           *)
(***************************************************************************)

\* A finite set of sets of which each is good if all its proper subsets are:
\* there is no smallest one that is not.
LEMMA FiniteInduction ==
  ASSUME NEW S, IsFiniteSet(S), NEW Good,
         \A T \in SUBSET S : (\A U \in SUBSET T : U # T => U \in Good) => T \in Good
  PROVE  S \in Good
<1> DEFINE Bad == {T \in SUBSET S : T \notin Good}
<1> SUFFICES Bad = {}
  OBVIOUS
<1> SUFFICES ASSUME Bad # {} PROVE FALSE
  OBVIOUS
<1>1. IsWellFoundedOn(StrictSubsetOrdering(S), FiniteSubsetsOf(S))
  BY FS_StrictSubsetOrderingWellFounded
<1>2. Bad \subseteq FiniteSubsetsOf(S)
  BY FS_FiniteSubsetsOfFinite
<1>3. PICK T \in Bad : \A U \in Bad : <<U, T>> \notin StrictSubsetOrdering(S)
  <2> HIDE DEF Bad
  <2> QED
    BY <1>1, <1>2, WFMin
<1>4. ASSUME NEW U \in SUBSET T, U # T PROVE U \in Good
  BY <1>3, <1>4 DEF StrictSubsetOrdering
<1> QED
  BY <1>3, <1>4

-----------------------------------------------------------------------------
(***************************************************************************)
(* The recursion of a sum.                                                 *)
(***************************************************************************)

\* The element a fold takes first.
First(s) == CHOOSE x \in s : TRUE
Rest(s) == s \ {First(s)}

\* What it takes is there.
LEMMA FirstIn == ASSUME NEW s, s # {} PROVE First(s) \in s
BY DEF First

\* g sums fun over every subset of S.
Sums(fun, S, g) ==
  g = [s \in SUBSET S |-> IF s = {} THEN 0 ELSE fun[First(s)] + g[Rest(s)]]

\* A sum is the value of such a function.
LEMMA SumByChoice ==
  ASSUME NEW fun, NEW S
  PROVE  SumFunctionOnSet(fun, S) = (CHOOSE g : Sums(fun, S, g))[S]
BY Zenon DEF SumFunctionOnSet, FoldFunctionOnSet, MapThenFoldSet, Sums, First, Rest

\* The values of such a function.
LEMMA SumsAt ==
  ASSUME NEW fun, NEW S, NEW g, Sums(fun, S, g), NEW s \in SUBSET S
  PROVE  g[s] = IF s = {} THEN 0 ELSE fun[First(s)] + g[Rest(s)]
BY Zenon DEF Sums

\* Two of them have the same values where both are defined.
LEMMA SumsAgree ==
  ASSUME NEW fun, NEW S, NEW T, NEW g, NEW h, Sums(fun, S, g), Sums(fun, T, h),
         IsFiniteSet(S), IsFiniteSet(T), NEW s \in SUBSET S, s \in SUBSET T
  PROVE  g[s] = h[s]
<1> DEFINE Good == {t \in SUBSET S : g[t] = h[t]}
<1>1. ASSUME NEW t \in SUBSET s, \A u \in SUBSET t : u # t => u \in Good PROVE t \in Good
  <2>1. CASE t = {}
    BY <2>1, SumsAt
  <2>2. CASE t # {}
    <3>1. Rest(t) \in SUBSET t /\ Rest(t) # t
      BY <2>2, FirstIn DEF Rest
    <3>2. g[Rest(t)] = h[Rest(t)]
      BY <1>1, <3>1
    <3>3. /\ g[t] = fun[First(t)] + g[Rest(t)]
          /\ h[t] = fun[First(t)] + h[Rest(t)]
      BY <2>2, SumsAt
    <3> QED
      BY <3>2, <3>3
  <2> QED
    BY <2>1, <2>2
<1>2. IsFiniteSet(s)
  BY FS_Subset
<1>3. s \in Good
  <2> HIDE DEF Good
  <2> QED
    BY <1>1, <1>2, FiniteInduction
<1> QED
  BY <1>3

\* There is one for every finite set.
LEMMA SumsExist == ASSUME NEW fun, NEW S, IsFiniteSet(S) PROVE \E g : Sums(fun, S, g)
<1> DEFINE Good == {T \in SUBSET S : \E g : Sums(fun, T, g)}
<1>1. ASSUME NEW T \in SUBSET S, \A U \in SUBSET T : U # T => U \in Good PROVE T \in Good
  <2> DEFINE F(U) == CHOOSE g : Sums(fun, U, g)
             V(U) == IF U = {} THEN 0 ELSE fun[First(U)] + F(Rest(U))[Rest(U)]
             G == [U \in SUBSET T |-> V(U)]
  <2>1. ASSUME NEW U \in SUBSET T, U # T PROVE Sums(fun, U, F(U))
    <3>1. \E g : Sums(fun, U, g)
      BY <1>1, <2>1
    <3> QED
      BY <3>1, Zenon
  <2>2. ASSUME NEW U \in SUBSET T, U # {} PROVE /\ Rest(U) \in SUBSET T /\ Rest(U) # T
                                                /\ First(U) \in U
    BY <2>2, FirstIn DEF Rest
  <2>3. ASSUME NEW U \in SUBSET T, U # T PROVE F(U)[U] = V(U)
    <3>1. CASE U = {}
      BY <2>1, <2>3, <3>1, SumsAt
    <3>2. CASE U # {}
      <4>1. F(U)[U] = fun[First(U)] + F(U)[Rest(U)]
        BY <2>1, <2>3, <3>2, SumsAt
      <4>2. F(U)[Rest(U)] = F(Rest(U))[Rest(U)]
        <5>1. Sums(fun, U, F(U)) /\ Sums(fun, Rest(U), F(Rest(U)))
          BY <2>1, <2>2, <2>3, <3>2
        <5>2. IsFiniteSet(U) /\ IsFiniteSet(Rest(U)) /\ Rest(U) \in SUBSET U
          BY FS_Subset DEF Rest
        <5> HIDE DEF F
        <5> QED
          BY <5>1, <5>2, SumsAgree
      <4> QED
        BY <3>2, <4>1, <4>2
    <3> QED
      BY <3>1, <3>2
  <2>4. ASSUME NEW U \in SUBSET T
        PROVE  G[U] = IF U = {} THEN 0 ELSE fun[First(U)] + G[Rest(U)]
    <3>1. CASE U = {}
      BY <3>1
    <3>2. CASE U # {}
      <4>1. G[Rest(U)] = V(Rest(U))
        BY <2>2, <3>2
      <4>2. V(Rest(U)) = F(Rest(U))[Rest(U)]
        BY <2>2, <2>3, <3>2
      <4>3. G[U] = V(U)
        OBVIOUS
      <4> HIDE DEF G, F
      <4> QED
        BY <3>2, <4>1, <4>2, <4>3
    <3> QED
      BY <3>1, <3>2
  <2>5. Sums(fun, T, G)
    <3>1. G = [U \in SUBSET T |-> G[U]]
      OBVIOUS
    <3> HIDE DEF G
    <3>2. [U \in SUBSET T |-> G[U]]
            = [U \in SUBSET T |-> IF U = {} THEN 0 ELSE fun[First(U)] + G[Rest(U)]]
      BY <2>4
    <3> QED
      BY <3>1, <3>2, Zenon DEF Sums
  <2> HIDE DEF G
  <2> QED
    BY <2>5
<1> HIDE DEF Good
<1>2. S \in Good
  BY <1>1, FiniteInduction
<1> USE DEF Good
<1> QED
  BY <1>2

\* What is summed over a subset does not depend on the set the sum was asked for.
LEMMA SumAt ==
  ASSUME NEW fun, NEW S, IsFiniteSet(S), NEW g, Sums(fun, S, g), NEW T \in SUBSET S
  PROVE  SumFunctionOnSet(fun, T) = g[T]
<1>1. IsFiniteSet(T)
  BY FS_Subset
<1>2. Sums(fun, T, CHOOSE k : Sums(fun, T, k))
  BY <1>1, SumsExist, Zenon
<1>3. PICK h : h = CHOOSE k : Sums(fun, T, k)
  OBVIOUS
<1>4. SumFunctionOnSet(fun, T) = h[T]
  BY <1>3, SumByChoice
<1>5. Sums(fun, T, h)
  BY <1>2, <1>3
<1>6. h[T] = g[T]
  BY <1>1, <1>5, SumsAgree
<1> QED
  BY <1>4, <1>6

\* Nothing adds up to nothing.
LEMMA SumEmpty == ASSUME NEW fun PROVE SumFunctionOnSet(fun, {}) = 0
<1>1. IsFiniteSet({})
  BY FS_EmptySet
<1>2. PICK g : Sums(fun, {}, g)
  BY <1>1, SumsExist
<1> QED
  BY <1>1, <1>2, SumAt, SumsAt

\* The recursion that defines the sum.
LEMMA SumFirst ==
  ASSUME NEW fun, NEW S, IsFiniteSet(S), S # {}
  PROVE  SumFunctionOnSet(fun, S) = fun[First(S)] + SumFunctionOnSet(fun, Rest(S))
<1>1. PICK g : Sums(fun, S, g)
  BY SumsExist
<1>2. Rest(S) \in SUBSET S /\ S \in SUBSET S
  BY DEF Rest
<1>3. g[S] = fun[First(S)] + g[Rest(S)]
  BY <1>1, <1>2, SumsAt
<1>4. SumFunctionOnSet(fun, S) = g[S] /\ SumFunctionOnSet(fun, Rest(S)) = g[Rest(S)]
  BY <1>1, <1>2, SumAt
<1> QED
  BY <1>3, <1>4
-----------------------------------------------------------------------------
(***************************************************************************)
(* What a sum is and how it changes.                                       *)
(***************************************************************************)

\* A sum of integers is an integer.
LEMMA SumInt ==
  ASSUME NEW fun, NEW S, IsFiniteSet(S), \A x \in S : fun[x] \in Int
  PROVE  SumFunctionOnSet(fun, S) \in Int
<1> DEFINE Good == {T \in SUBSET S : SumFunctionOnSet(fun, T) \in Int}
<1>1. ASSUME NEW T \in SUBSET S, \A U \in SUBSET T : U # T => U \in Good PROVE T \in Good
  <2>1. CASE T = {}
    BY <2>1, SumEmpty
  <2>2. CASE T # {}
    <3>1. First(T) \in T /\ Rest(T) \in SUBSET T /\ Rest(T) # T
      BY <2>2, FirstIn DEF Rest
    <3>2. SumFunctionOnSet(fun, Rest(T)) \in Int
      BY <1>1, <3>1
    <3>3. SumFunctionOnSet(fun, T) = fun[First(T)] + SumFunctionOnSet(fun, Rest(T))
      BY <2>2, FS_Subset, SumFirst
    <3> QED
      BY <3>1, <3>2, <3>3
  <2> QED
    BY <2>1, <2>2
<1>2. S \in Good
  <2> HIDE DEF Good
  <2> QED
    BY <1>1, FiniteInduction
<1> QED
  BY <1>2

\* Any element may be taken first.
LEMMA SumRemove ==
  ASSUME NEW fun, NEW S, IsFiniteSet(S), \A x \in S : fun[x] \in Int, NEW x \in S
  PROVE  SumFunctionOnSet(fun, S) = fun[x] + SumFunctionOnSet(fun, S \ {x})
<1> DEFINE Sum(T) == SumFunctionOnSet(fun, T)
           Good == {T \in SUBSET S : \A y \in T : Sum(T) = fun[y] + Sum(T \ {y})}
<1>1. ASSUME NEW T \in SUBSET S, \A U \in SUBSET T : U # T => U \in Good PROVE T \in Good
  <2> SUFFICES ASSUME NEW y \in T PROVE Sum(T) = fun[y] + Sum(T \ {y})
    OBVIOUS
  <2>1. First(T) \in T /\ IsFiniteSet(T) /\ T # {}
    BY FirstIn, FS_Subset
  <2>2. Sum(T) = fun[First(T)] + Sum(T \ {First(T)})
    BY <2>1, SumFirst DEF Rest
  <2>3. CASE y # First(T)
    <3>1. Sum(T \ {First(T)}) = fun[y] + Sum((T \ {First(T)}) \ {y})
      BY <1>1, <2>1, <2>3
    <3>2. Sum(T \ {y}) = fun[First(T)] + Sum((T \ {y}) \ {First(T)})
      BY <1>1, <2>1, <2>3
    <3>3. PICK W : W = (T \ {First(T)}) \ {y}
      OBVIOUS
    <3>4. Sum((T \ {First(T)}) \ {y}) = Sum(W) /\ Sum((T \ {y}) \ {First(T)}) = Sum(W)
      <4>1. (T \ {y}) \ {First(T)} = W
        BY <3>3
      <4> QED
        BY <3>3, <4>1, Zenon
    <3>5. Sum(W) \in Int
      BY <2>1, <3>3, FS_Subset, SumInt
    <3>6. fun[y] \in Int /\ fun[First(T)] \in Int
      BY <2>1
    <3> QED
      BY <2>2, <3>1, <3>2, <3>4, <3>5, <3>6
  <2> QED
    BY <2>2, <2>3
<1>2. S \in Good
  <2> HIDE DEF Good
  <2> QED
    BY <1>1, FiniteInduction
<1> QED
  BY <1>2

\* A sum depends on the values at the elements only.
LEMMA SumSame ==
  ASSUME NEW f, NEW g, NEW S, IsFiniteSet(S), \A x \in S : f[x] = g[x]
  PROVE  SumFunctionOnSet(f, S) = SumFunctionOnSet(g, S)
<1> DEFINE Good == {T \in SUBSET S : SumFunctionOnSet(f, T) = SumFunctionOnSet(g, T)}
<1>1. ASSUME NEW T \in SUBSET S, \A U \in SUBSET T : U # T => U \in Good PROVE T \in Good
  <2>1. CASE T = {}
    BY <2>1, SumEmpty
  <2>2. CASE T # {}
    <3>1. First(T) \in T /\ Rest(T) \in SUBSET T /\ Rest(T) # T
      BY <2>2, FirstIn DEF Rest
    <3>2. SumFunctionOnSet(f, Rest(T)) = SumFunctionOnSet(g, Rest(T)) /\ f[First(T)] = g[First(T)]
      BY <1>1, <3>1
    <3>3. /\ SumFunctionOnSet(f, T) = f[First(T)] + SumFunctionOnSet(f, Rest(T))
          /\ SumFunctionOnSet(g, T) = g[First(T)] + SumFunctionOnSet(g, Rest(T))
      BY <2>2, FS_Subset, SumFirst
    <3> QED
      BY <3>2, <3>3
  <2> QED
    BY <2>1, <2>2
<1>2. S \in Good
  <2> HIDE DEF Good
  <2> QED
    BY <1>1, FiniteInduction
<1> QED
  BY <1>2

\* A change at one element changes the sum by as much.
LEMMA SumChange ==
  ASSUME NEW f, NEW g, NEW S, IsFiniteSet(S), NEW x \in S,
         \A y \in S : f[y] \in Int /\ g[y] \in Int,
         \A y \in S \ {x} : f[y] = g[y]
  PROVE  SumFunctionOnSet(g, S) = SumFunctionOnSet(f, S) - f[x] + g[x]
<1>1. IsFiniteSet(S \ {x})
  BY FS_RemoveElement
<1>2. SumFunctionOnSet(f, S \ {x}) = SumFunctionOnSet(g, S \ {x})
  BY <1>1, SumSame
<1>3. SumFunctionOnSet(f, S \ {x}) \in Int
  BY <1>1, SumInt
<1>4. /\ SumFunctionOnSet(f, S) = f[x] + SumFunctionOnSet(f, S \ {x})
      /\ SumFunctionOnSet(g, S) = g[x] + SumFunctionOnSet(g, S \ {x})
  BY SumRemove
<1> QED
  BY <1>2, <1>3, <1>4

\* Fewer and smaller natural numbers do not add up to more.
LEMMA SumMonotone ==
  ASSUME NEW f, NEW g, NEW S, IsFiniteSet(S), NEW R \in SUBSET S,
         \A x \in S : g[x] \in Nat, \A x \in R : f[x] \in Int /\ f[x] <= g[x]
  PROVE  SumFunctionOnSet(f, R) <= SumFunctionOnSet(g, S)
<1> DEFINE Sum(h, T) == SumFunctionOnSet(h, T)
           Good == {T \in SUBSET S : Sum(f, T \cap R) <= Sum(g, T)}
<1>1. ASSUME NEW T \in SUBSET S, \A U \in SUBSET T : U # T => U \in Good PROVE T \in Good
  <2>1. CASE T = {}
    <3>1. T \cap R = {}
      BY <2>1
    <3> QED
      BY <2>1, <3>1, SumEmpty
  <2>2. CASE T # {}
    <3>1. PICK x \in T : TRUE
      BY <2>2
    <3>2. PICK U : U = T \ {x}
      OBVIOUS
    <3>3. Sum(f, U \cap R) <= Sum(g, U)
      BY <1>1, <3>1, <3>2
    <3>4. /\ IsFiniteSet(T) /\ IsFiniteSet(T \cap R)
          /\ IsFiniteSet(U) /\ IsFiniteSet(U \cap R)
      BY <3>2, FS_Subset
    <3>5. Sum(g, T) = g[x] + Sum(g, U) /\ Sum(g, U) \in Int /\ g[x] \in Nat
      BY <3>1, <3>2, <3>4, SumRemove, SumInt
    <3>6. Sum(f, U \cap R) \in Int
      BY <3>2, <3>4, SumInt
    <3>7. CASE x \in R
      <4>1. (T \cap R) \ {x} = U \cap R
        BY <3>2
      <4>2. Sum(f, T \cap R) = f[x] + Sum(f, U \cap R)
        <5>1. \A y \in T \cap R : f[y] \in Int
          OBVIOUS
        <5>2. Sum(f, T \cap R) = f[x] + Sum(f, (T \cap R) \ {x})
          BY <3>1, <3>4, <3>7, <5>1, SumRemove
        <5> QED
          BY <4>1, <5>2
      <4>3. f[x] \in Int /\ f[x] <= g[x]
        BY <3>7
      <4>4. Sum(f, T \cap R) <= Sum(g, T)
        BY <3>3, <3>5, <3>6, <4>2, <4>3
      <4> QED
        BY <4>4
    <3>8. CASE x \notin R
      <4>1. T \cap R = U \cap R
        BY <3>2, <3>8
      <4>2. Sum(f, T \cap R) = Sum(f, U \cap R)
        BY <4>1, Zenon
      <4> QED
        BY <3>3, <3>5, <3>6, <4>2
    <3> QED
      BY <3>7, <3>8
  <2> QED
    BY <2>1, <2>2
<1>2. S \in Good
  <2> HIDE DEF Good
  <2> QED
    BY <1>1, FiniteInduction
<1>3. S \cap R = R
  OBVIOUS
<1> QED
  BY <1>2, <1>3

\* A sum of natural numbers is one.
LEMMA SumNat ==
  ASSUME NEW fun, NEW S, IsFiniteSet(S), \A x \in S : fun[x] \in Nat
  PROVE  SumFunctionOnSet(fun, S) \in Nat
<1>1. SumFunctionOnSet(fun, {}) <= SumFunctionOnSet(fun, S)
  BY SumMonotone
<1>2. SumFunctionOnSet(fun, S) \in Int
  BY SumInt
<1> QED
  BY <1>1, <1>2, SumEmpty

\* Elements of value zero may be left out.
LEMMA SumZeros ==
  ASSUME NEW f, NEW g, NEW S, IsFiniteSet(S), NEW R \in SUBSET S,
         \A x \in R : f[x] \in Int /\ f[x] = g[x],
         \A x \in S \ R : g[x] = 0
  PROVE  SumFunctionOnSet(f, R) = SumFunctionOnSet(g, S)
<1> DEFINE Sum(h, T) == SumFunctionOnSet(h, T)
           Good == {T \in SUBSET S : Sum(f, T \cap R) = Sum(g, T)}
<1>1. ASSUME NEW T \in SUBSET S, \A U \in SUBSET T : U # T => U \in Good PROVE T \in Good
  <2>1. CASE T = {}
    <3>1. T \cap R = {}
      BY <2>1
    <3> QED
      BY <2>1, <3>1, SumEmpty
  <2>2. CASE T # {}
    <3>1. PICK x \in T : TRUE
      BY <2>2
    <3>2. PICK U : U = T \ {x}
      OBVIOUS
    <3>3. Sum(f, U \cap R) = Sum(g, U)
      BY <1>1, <3>1, <3>2
    <3>4. /\ IsFiniteSet(T) /\ IsFiniteSet(T \cap R) /\ IsFiniteSet(U)
      BY <3>2, FS_Subset
    <3>5. \A y \in S : g[y] \in Int
      OBVIOUS
    <3>6. Sum(g, T) = g[x] + Sum(g, U) /\ Sum(g, U) \in Int
      BY <3>1, <3>2, <3>4, <3>5, SumRemove, SumInt
    <3>7. CASE x \in R
      <4>1. (T \cap R) \ {x} = U \cap R
        BY <3>2
      <4>2. Sum(f, T \cap R) = f[x] + Sum(f, (T \cap R) \ {x})
        <5>1. \A y \in T \cap R : f[y] \in Int
          OBVIOUS
        <5> QED
          BY <3>1, <3>4, <3>7, <5>1, SumRemove
      <4>3. f[x] = g[x]
        BY <3>7
      <4> QED
        BY <3>3, <3>6, <4>1, <4>2, <4>3
    <3>8. CASE x \notin R
      <4>1. T \cap R = U \cap R
        BY <3>2, <3>8
      <4>2. Sum(f, T \cap R) = Sum(f, U \cap R)
        BY <4>1, Zenon
      <4>3. g[x] = 0
        BY <3>1, <3>8
      <4> QED
        BY <3>3, <3>6, <4>2, <4>3
    <3> QED
      BY <3>7, <3>8
  <2> QED
    BY <2>1, <2>2
<1>2. S \in Good
  <2> HIDE DEF Good
  <2> QED
    BY <1>1, FiniteInduction
<1>3. S \cap R = R
  OBVIOUS
<1> QED
  BY <1>2, <1>3

\* T has a name for every element of N, and f has its value of g.
Renamed(f, T, name, g, N) ==
  /\ T = {name[n] : n \in N}
  /\ \A m, n \in N : name[m] = name[n] => m = n
  /\ \A n \in N : f[name[n]] = g[n] /\ g[n] \in Int

\* A sum may be taken over names of the elements instead, one for each.
LEMMA SumRename ==
  ASSUME NEW N, IsFiniteSet(N), NEW name, NEW f, NEW g, NEW T, Renamed(f, T, name, g, N)
  PROVE  SumFunctionOnSet(f, T) = SumFunctionOnSet(g, N)
<1> SUFFICES ASSUME \A m, n \in N : name[m] = name[n] => m = n,
                    \A n \in N : f[name[n]] = g[n] /\ g[n] \in Int
             PROVE  SumFunctionOnSet(f, {name[n] : n \in N}) = SumFunctionOnSet(g, N)
  BY Zenon DEF Renamed
<1> DEFINE Image(M) == {name[n] : n \in M}
           Good == {M \in SUBSET N : /\ IsFiniteSet(Image(M))
                                     /\ SumFunctionOnSet(f, Image(M)) = SumFunctionOnSet(g, M)}
<1>1. ASSUME NEW M \in SUBSET N, \A U \in SUBSET M : U # M => U \in Good PROVE M \in Good
  <2>1. CASE M = {}
    <3>1. Image(M) = {}
      BY <2>1
    <3> QED
      BY <2>1, <3>1, SumEmpty, FS_EmptySet
  <2>2. CASE M # {}
    <3>1. PICK n \in M : TRUE
      BY <2>2
    <3>2. PICK U : U = M \ {n}
      OBVIOUS
    <3>3. /\ IsFiniteSet(Image(U))
          /\ SumFunctionOnSet(f, Image(U)) = SumFunctionOnSet(g, U)
      BY <1>1, <3>1, <3>2
    <3>4. Image(M) = Image(U) \cup {name[n]} /\ Image(M) \ {name[n]} = Image(U)
      BY <3>1, <3>2
    <3>5. IsFiniteSet(Image(M)) /\ IsFiniteSet(M)
      <4> HIDE DEF Image
      <4> QED
        BY <3>3, <3>4, FS_AddElement, FS_Subset
    <3>6. \A x \in Image(M) : f[x] \in Int
      OBVIOUS
    <3>7. name[n] \in Image(M)
      OBVIOUS
    <3>8. SumFunctionOnSet(f, Image(M)) = f[name[n]] + SumFunctionOnSet(f, Image(U))
      <4> HIDE DEF Image
      <4> QED
        BY <3>4, <3>5, <3>6, <3>7, SumRemove
    <3>9. SumFunctionOnSet(g, M) = g[n] + SumFunctionOnSet(g, U)
      BY <3>1, <3>2, <3>5, SumRemove
    <3> HIDE DEF Image
    <3>10. SumFunctionOnSet(f, Image(M)) = SumFunctionOnSet(g, M)
      BY <3>1, <3>3, <3>8, <3>9
    <3> QED
      BY <3>5, <3>10
  <2> QED
    BY <2>1, <2>2
<1>2. N \in Good
  <2> HIDE DEF Good
  <2> QED
    BY <1>1, FiniteInduction
<1> QED
  BY <1>2

\* A product distributes over a sum.
LEMMA Distribute == ASSUME NEW a \in Int, NEW x \in Int, NEW y \in Int PROVE a * (x + y) = a * x + a * y
OBVIOUS

\* A linear bound that holds element by element holds of the sums.
LEMMA SumLinear ==
  ASSUME NEW S, IsFiniteSet(S), NEW f, NEW g, NEW h, NEW a \in Int, NEW b \in Int, NEW c \in Int,
         \A x \in S : f[x] \in Int /\ g[x] \in Int /\ h[x] \in Int,
         \A x \in S : a * f[x] <= b * g[x] + c * h[x]
  PROVE  a * SumFunctionOnSet(f, S) <= b * SumFunctionOnSet(g, S) + c * SumFunctionOnSet(h, S)
<1> DEFINE Sum(k, T) == SumFunctionOnSet(k, T)
           Good == {T \in SUBSET S : a * Sum(f, T) <= b * Sum(g, T) + c * Sum(h, T)}
<1>1. ASSUME NEW T \in SUBSET S, \A U \in SUBSET T : U # T => U \in Good PROVE T \in Good
  <2>1. CASE T = {}
    <3>1. Sum(f, T) = 0 /\ Sum(g, T) = 0 /\ Sum(h, T) = 0
      BY <2>1, SumEmpty
    <3> QED
      BY <3>1
  <2>2. CASE T # {}
    <3>1. PICK x \in T : x = First(T)
      BY <2>2, FirstIn
    <3>0. Rest(T) \in SUBSET T /\ Rest(T) # T
      BY <3>1 DEF Rest
    <3>2. PICK U : U = Rest(T) /\ U \in SUBSET T /\ U # T
      BY <3>0, Zenon
    <3>3. IsFiniteSet(T) /\ IsFiniteSet(U)
      BY <3>2, FS_Subset
    <3>4. /\ Sum(f, T) = f[x] + Sum(f, U)
          /\ Sum(g, T) = g[x] + Sum(g, U)
          /\ Sum(h, T) = h[x] + Sum(h, U)
      BY <2>2, <3>1, <3>2, <3>3, SumFirst
    <3>5. Sum(f, U) \in Int /\ Sum(g, U) \in Int /\ Sum(h, U) \in Int
      BY <3>2, <3>3, SumInt
    <3>6. a * Sum(f, U) <= b * Sum(g, U) + c * Sum(h, U)
      BY <1>1, <3>2
    <3>7. a * f[x] <= b * g[x] + c * h[x]
      OBVIOUS
    <3> HIDE DEF Sum
    <3>8. /\ a * Sum(f, T) = a * f[x] + a * Sum(f, U)
          /\ b * Sum(g, T) = b * g[x] + b * Sum(g, U)
          /\ c * Sum(h, T) = c * h[x] + c * Sum(h, U)
      BY <3>4, <3>5, Distribute
    <3>9. /\ a * f[x] \in Int /\ b * g[x] \in Int /\ c * h[x] \in Int
          /\ a * Sum(f, U) \in Int /\ b * Sum(g, U) \in Int /\ c * Sum(h, U) \in Int
      BY <3>5
    <3> QED
      BY <3>6, <3>7, <3>8, <3>9
  <2> QED
    BY <2>1, <2>2
<1>2. S \in Good
  <2> HIDE DEF Good
  <2> QED
    BY <1>1, FiniteInduction
<1> QED
  BY <1>2
=============================================================================
