------------------------------ MODULE SumLemmas ------------------------------
(***************************************************************************)
(* Sums over finite sets.  SumFunctionOnSet is a fold, defined by          *)
(* recursion on sets.  The lemmas say of it, without an operator as a      *)
(* parameter, what the proofs about Invoices and Books need: a sum takes   *)
(* its elements one by one in any order, and what follows from that.       *)
(* An induction on sets is the choice of a smallest counterexample.        *)
(***************************************************************************)
EXTENDS Functions, Integers, FiniteSets, FiniteSetTheorems,
        WellFoundedInduction, TLAPS

-----------------------------------------------------------------------------
(* Induction on finite sets *)

LEMMA LeastNumber ==
    ASSUME NEW T \in SUBSET Nat, T # {}
    PROVE  \E x \in T : \A y \in T : x <= y
  <1>1. PICK x \in T : \A y \in T : ~(<<y, x>> \in OpToRel(<, Nat))
    BY NatLessThanWellFounded, WFMin
  <1>2. \A y \in T : y \in Nat /\ ~(y < x)
    BY <1>1 DEF OpToRel
  <1> QED BY <1>2

LEMMA SmallestSet ==
    ASSUME NEW S, IsFiniteSet(S), NEW B \in SUBSET (SUBSET S), B # {}
    PROVE  \E T \in B : IsFiniteSet(T) /\ \A U \in B : U \subseteq T => U = T
  <1> DEFINE N == {Cardinality(T) : T \in B}
  <1>1. \A T \in B : IsFiniteSet(T) /\ Cardinality(T) \in Nat
    BY FS_Subset, FS_CardinalityType
  <1>2. N \in SUBSET Nat /\ N # {}
    BY <1>1
  <1>3. PICK n \in N : \A m \in N : n <= m
    BY <1>2, LeastNumber
  <1>4. PICK T \in B : Cardinality(T) = n
    OBVIOUS
  <1>5. ASSUME NEW U \in B, U \subseteq T PROVE U = T
    <2>1. Cardinality(U) <= Cardinality(T) /\ (Cardinality(T) = Cardinality(U) => T = U)
      BY <1>1, <1>5, FS_Subset
    <2>2. Cardinality(T) <= Cardinality(U)
      BY <1>3, <1>4
    <2> QED BY <1>1, <2>1, <2>2
  <1> QED BY <1>1, <1>5

-----------------------------------------------------------------------------
(* What the fold computes *)

\* h is what the fold computes for each subset of S.
Computes(h, f, S) ==
    h = [T \in SUBSET S |->
            IF T = {} THEN 0
            ELSE f[CHOOSE x \in T : TRUE] + h[T \ {CHOOSE x \in T : TRUE}]]

\* h takes the elements of each subset of S in any order.
Additive(h, f, S) ==
    /\ h \in [SUBSET S -> Int]
    /\ h[{}] = 0
    /\ \A T \in SUBSET S : \A x \in T : h[T] = f[x] + h[T \ {x}]

Summable(f, S) == IsFiniteSet(S) /\ \A x \in S : f[x] \in Int

LEMMA SumDef ==
    ASSUME NEW f, NEW S
    PROVE  SumFunctionOnSet(f, S) = (CHOOSE h : Computes(h, f, S))[S]
  BY DEF SumFunctionOnSet, FoldFunctionOnSet, MapThenFoldSet, Computes

LEMMA AdditiveStep ==
    ASSUME NEW f, NEW S, \A y \in S : f[y] \in Int, NEW x \in S,
           NEW h, Additive(h, f, S \ {x})
    PROVE  \E g : Additive(g, f, S)
  <1> DEFINE g == [T \in SUBSET S |-> IF x \in T THEN f[x] + h[T \ {x}] ELSE h[T]]
  <1>1. \A T \in SUBSET S : T \ {x} \in SUBSET (S \ {x}) /\ (x \notin T => T \in SUBSET (S \ {x}))
    OBVIOUS
  <1>2. \A T \in SUBSET (S \ {x}) : h[T] \in Int
    BY DEF Additive
  <1>3. g \in [SUBSET S -> Int]
    BY <1>1, <1>2
  <1>4. g[{}] = 0
    BY DEF Additive
  <1>5. ASSUME NEW T \in SUBSET S, NEW y \in T
        PROVE  g[T] = f[y] + g[T \ {y}]
    <2>0. T \ {y} \in SUBSET S
      OBVIOUS
    <2>1. CASE y = x
      BY <2>0, <2>1
    <2>2. CASE y # x /\ x \notin T
      <3>1. T \in SUBSET (S \ {x})
        BY <2>2
      <3>2. h[T] = f[y] + h[T \ {y}]
        BY <3>1 DEF Additive
      <3> QED BY <2>0, <2>2, <3>2
    <2>3. CASE y # x /\ x \in T
      <3>1. T \ {x} \in SUBSET (S \ {x}) /\ y \in T \ {x}
        BY <2>3
      <3>2. h[T \ {x}] = f[y] + h[(T \ {x}) \ {y}]
        BY <3>1 DEF Additive
      <3>3. (T \ {x}) \ {y} = (T \ {y}) \ {x} /\ x \in T \ {y}
        BY <2>3
      <3>4. h[(T \ {x}) \ {y}] \in Int /\ h[T \ {x}] \in Int
        BY <1>2
      <3>5. g[T] = f[x] + h[T \ {x}] /\ g[T \ {y}] = f[x] + h[(T \ {x}) \ {y}]
        BY <2>0, <2>3, <3>3
      <3>6. f[y] \in Int
        OBVIOUS
      <3> HIDE DEF g
      <3> QED BY <3>2, <3>4, <3>5, <3>6
    <2> QED BY <2>1, <2>2, <2>3
  <1> HIDE DEF g
  <1> QED BY <1>3, <1>4, <1>5 DEF Additive

LEMMA AdditiveExists ==
    ASSUME NEW f, NEW S, Summable(f, S)
    PROVE  \E h : Additive(h, f, S)
  <1> DEFINE B == {T \in SUBSET S : ~ \E h : Additive(h, f, T)}
  <1>1. SUFFICES ASSUME B # {} PROVE FALSE
    OBVIOUS
  <1>2. PICK T \in B : \A U \in B : U \subseteq T => U = T
    <2>1. B \in SUBSET (SUBSET S) /\ IsFiniteSet(S)
      BY DEF Summable
    <2> HIDE DEF B
    <2> QED BY <1>1, <2>1, SmallestSet
  <1>3. T # {}
    <2> DEFINE h == [U \in SUBSET {} |-> 0]
    <2>1. h \in [SUBSET {} -> Int] /\ h[{}] = 0
      OBVIOUS
    <2>2. \A U \in SUBSET {} : \A x \in U : FALSE
      OBVIOUS
    <2> HIDE DEF h
    <2>3. Additive(h, f, {})
      BY <2>1, <2>2 DEF Additive
    <2> QED BY <2>3
  <1>4. PICK x : x \in T
    BY <1>3
  <1>5. T \ {x} \notin B /\ T \ {x} \in SUBSET S
    BY <1>2, <1>4
  <1>6. PICK h : Additive(h, f, T \ {x})
    BY <1>5
  <1>7. \A y \in T : f[y] \in Int
    BY DEF Summable
  <1>8. \E g : Additive(g, f, T)
    BY <1>4, <1>6, <1>7, AdditiveStep
  <1> QED BY <1>8

LEMMA SumIsAdditive ==
    ASSUME NEW f, NEW S, IsFiniteSet(S), NEW g, Additive(g, f, S)
    PROVE  SumFunctionOnSet(f, S) = g[S]
  <1>1. Computes(g, f, S)
    <2> DEFINE h == [T \in SUBSET S |->
                        IF T = {} THEN 0
                        ELSE f[CHOOSE x \in T : TRUE] + g[T \ {CHOOSE x \in T : TRUE}]]
    <2>1. ASSUME NEW T \in SUBSET S PROVE g[T] = h[T]
      <3>1. CASE T = {}
        BY <3>1 DEF Additive
      <3>2. CASE T # {}
        <4>1. (CHOOSE x \in T : TRUE) \in T
          BY <3>2
        <4> QED BY <3>2, <4>1 DEF Additive
      <3> QED BY <3>1, <3>2
    <2>2. g = [T \in SUBSET S |-> g[T]]
      BY DEF Additive
    <2>3. g = h
      BY <2>1, <2>2
    <2> QED BY <2>3 DEF Computes
  <1>2. PICK h : h = (CHOOSE k : Computes(k, f, S))
    OBVIOUS
  <1>3. Computes(h, f, S)
    BY <1>1, <1>2
  <1> DEFINE B == {T \in SUBSET S : h[T] # g[T]}
  <1>4. B = {}
    <2> SUFFICES ASSUME B # {} PROVE FALSE
      OBVIOUS
    <2>1. PICK T \in B : \A U \in B : U \subseteq T => U = T
      <3>1. B \in SUBSET (SUBSET S)
        OBVIOUS
      <3> HIDE DEF B
      <3> QED BY <3>1, SmallestSet
    <2>2. CASE T = {}
      BY <1>3, <2>2 DEF Computes, Additive
    <2>3. CASE T # {}
      <3>1. PICK x : x = (CHOOSE y \in T : TRUE) /\ x \in T
        BY <2>3
      <3>2. h[T] = f[x] + h[T \ {x}]
        <4>1. \A U \in SUBSET S : U # {} =>
                  h[U] = f[CHOOSE y \in U : TRUE] + h[U \ {CHOOSE y \in U : TRUE}]
          BY <1>3 DEF Computes
        <4> QED BY <2>3, <3>1, <4>1
      <3>3. g[T] = f[x] + g[T \ {x}]
        BY <3>1 DEF Additive
      <3>4. h[T \ {x}] = g[T \ {x}]
        BY <2>1, <3>1
      <3> QED BY <3>2, <3>3, <3>4
    <2> QED BY <2>2, <2>3
  <1>5. h[S] = g[S]
    BY <1>4
  <1> QED BY <1>2, <1>5, SumDef
-----------------------------------------------------------------------------
(* Sums *)

LEMMA SumType ==
    ASSUME NEW f, NEW S, Summable(f, S)
    PROVE  SumFunctionOnSet(f, S) \in Int
  <1>1. PICK g : Additive(g, f, S)
    BY AdditiveExists
  <1>2. SumFunctionOnSet(f, S) = g[S]
    BY <1>1, SumIsAdditive DEF Summable
  <1> QED BY <1>1, <1>2 DEF Additive

LEMMA SumEmpty ==
    ASSUME NEW f
    PROVE  SumFunctionOnSet(f, {}) = 0
  <1>1. Summable(f, {})
    BY FS_EmptySet DEF Summable
  <1>2. PICK g : Additive(g, f, {})
    BY <1>1, AdditiveExists
  <1>3. SumFunctionOnSet(f, {}) = g[{}]
    BY <1>1, <1>2, SumIsAdditive DEF Summable
  <1> QED BY <1>2, <1>3 DEF Additive

\* A sum takes any of its elements.
LEMMA SumTake ==
    ASSUME NEW f, NEW S, Summable(f, S), NEW x \in S
    PROVE  /\ Summable(f, S \ {x})
           /\ SumFunctionOnSet(f, S \ {x}) \in Int
           /\ SumFunctionOnSet(f, S) = f[x] + SumFunctionOnSet(f, S \ {x})
  <1>1. PICK g : Additive(g, f, S)
    BY AdditiveExists
  <1>2. SumFunctionOnSet(f, S) = g[S]
    BY <1>1, SumIsAdditive DEF Summable
  <1>3. Summable(f, S \ {x})
    BY FS_RemoveElement DEF Summable
  <1> DEFINE R == S \ {x}
             h == [T \in SUBSET R |-> g[T]]
  <1>4. Additive(h, f, R)
    <2>0. \A T \in SUBSET R : T \in SUBSET S /\ \A y \in T : T \ {y} \in SUBSET R
      OBVIOUS
    <2>1. h \in [SUBSET R -> Int] /\ h[{}] = 0
      BY <1>1, <2>0 DEF Additive
    <2>2. \A T \in SUBSET R : \A y \in T : h[T] = f[y] + h[T \ {y}]
      <3>1. ASSUME NEW T \in SUBSET R, NEW y \in T PROVE h[T] = f[y] + h[T \ {y}]
        <4>1. g[T] = f[y] + g[T \ {y}]
          BY <1>1, <2>0 DEF Additive
        <4>2. h[T] = g[T] /\ h[T \ {y}] = g[T \ {y}]
          BY <2>0
        <4> QED BY <4>1, <4>2
      <3> QED BY <3>1
    <2> HIDE DEF h
    <2> QED BY <2>1, <2>2 DEF Additive
  <1>5. SumFunctionOnSet(f, R) = g[R]
    <2>1. h[R] = g[R]
      OBVIOUS
    <2> HIDE DEF h
    <2>2. IsFiniteSet(R)
      BY <1>3 DEF Summable
    <2> HIDE DEF R
    <2> QED BY <1>4, <2>1, <2>2, SumIsAdditive
  <1>6. g[S] = f[x] + g[R]
    BY <1>1 DEF Additive
  <1> QED BY <1>2, <1>3, <1>5, <1>6, SumType

\* Functions that agree on a set have the same sum over it.
LEMMA SumAgree ==
    ASSUME NEW f, NEW g, NEW S, Summable(f, S), \A x \in S : f[x] = g[x]
    PROVE  Summable(g, S) /\ SumFunctionOnSet(g, S) = SumFunctionOnSet(f, S)
  <1>1. PICK h : Additive(h, f, S)
    BY AdditiveExists
  <1>2. Additive(h, g, S)
    BY <1>1 DEF Additive
  <1>3. SumFunctionOnSet(f, S) = h[S] /\ SumFunctionOnSet(g, S) = h[S]
    BY <1>1, <1>2, SumIsAdditive DEF Summable
  <1> QED BY <1>3 DEF Summable

\* A sum grows by what is put into its set.
LEMMA SumAdd ==
    ASSUME NEW f, NEW S, Summable(f, S), NEW x, x \notin S, f[x] \in Int
    PROVE  /\ Summable(f, S \cup {x})
           /\ SumFunctionOnSet(f, S \cup {x}) = f[x] + SumFunctionOnSet(f, S)
  <1>1. Summable(f, S \cup {x})
    BY FS_AddElement DEF Summable
  <1>2. (S \cup {x}) \ {x} = S
    OBVIOUS
  <1>3. SumFunctionOnSet(f, S \cup {x}) = f[x] + SumFunctionOnSet(f, (S \cup {x}) \ {x})
    BY <1>1, SumTake
  <1> QED BY <1>1, <1>2, <1>3

\* A sum changes by what one of its elements changes by.
LEMMA SumChange ==
    ASSUME NEW f, NEW g, NEW S, Summable(f, S), NEW x \in S, g[x] \in Int,
           \A y \in S : y # x => g[y] = f[y]
    PROVE  /\ Summable(g, S)
           /\ SumFunctionOnSet(g, S) = SumFunctionOnSet(f, S) + (g[x] - f[x])
  <1> DEFINE R == S \ {x}
  <1>1. Summable(f, R) /\ SumFunctionOnSet(f, R) \in Int
        /\ SumFunctionOnSet(f, S) = f[x] + SumFunctionOnSet(f, R)
    BY SumTake
  <1>2. Summable(g, S)
    BY DEF Summable
  <1>3. SumFunctionOnSet(g, S) = g[x] + SumFunctionOnSet(g, R)
    BY <1>2, SumTake
  <1>4. \A y \in R : f[y] = g[y]
    OBVIOUS
  <1> HIDE DEF R
  <1>5. SumFunctionOnSet(g, R) = SumFunctionOnSet(f, R)
    BY <1>1, <1>4, SumAgree
  <1>6. f[x] \in Int
    BY DEF Summable
  <1> QED BY <1>1, <1>2, <1>3, <1>5, <1>6

LEMMA SumMonotone ==
    ASSUME NEW f, NEW g, NEW S, Summable(f, S), Summable(g, S),
           \A x \in S : f[x] <= g[x]
    PROVE  SumFunctionOnSet(f, S) <= SumFunctionOnSet(g, S)
  <1> DEFINE B == {T \in SUBSET S : ~(SumFunctionOnSet(f, T) <= SumFunctionOnSet(g, T))}
  <1> SUFFICES ASSUME B # {} PROVE FALSE
    BY SumType
  <1>1. PICK T \in B : \A U \in B : U \subseteq T => U = T
    <2>1. B \in SUBSET (SUBSET S) /\ IsFiniteSet(S)
      BY DEF Summable
    <2> HIDE DEF B
    <2> QED BY <2>1, SmallestSet
  <1>2. Summable(f, T) /\ Summable(g, T)
    BY FS_Subset DEF Summable
  <1>3. PICK x : x \in T
    BY SumEmpty
  <1>4. f[x] \in Int /\ g[x] \in Int /\ f[x] <= g[x]
    BY <1>3 DEF Summable
  <1> DEFINE R == T \ {x}
  <1>5. SumFunctionOnSet(f, R) <= SumFunctionOnSet(g, R)
    BY <1>1, <1>3
  <1>6. /\ SumFunctionOnSet(f, R) \in Int /\ SumFunctionOnSet(g, R) \in Int
        /\ SumFunctionOnSet(f, T) = f[x] + SumFunctionOnSet(f, R)
        /\ SumFunctionOnSet(g, T) = g[x] + SumFunctionOnSet(g, R)
    BY <1>2, <1>3, SumTake
  <1>7. SumFunctionOnSet(f, T) <= SumFunctionOnSet(g, T)
    <2> HIDE DEF R
    <2> QED BY <1>4, <1>5, <1>6
  <1> QED BY <1>7

\* One element grows by one at most, no other one grows.
LEMMA SumPlusOne ==
    ASSUME NEW f, NEW g, NEW S, Summable(f, S), Summable(g, S), NEW x \in S,
           g[x] <= f[x] + 1, \A y \in S : y # x => g[y] <= f[y]
    PROVE  SumFunctionOnSet(g, S) <= SumFunctionOnSet(f, S) + 1
  <1> DEFINE h == [y \in S |-> IF y = x THEN f[x] + 1 ELSE f[y]]
  <1>1. h[x] = f[x] + 1 /\ \A y \in S : y # x => h[y] = f[y]
    OBVIOUS
  <1>2. f[x] \in Int /\ g[x] \in Int /\ SumFunctionOnSet(f, S) \in Int
    BY SumType DEF Summable
  <1> HIDE DEF h
  <1>3. Summable(h, S) /\ SumFunctionOnSet(h, S) = SumFunctionOnSet(f, S) + (h[x] - f[x])
    BY <1>1, <1>2, SumChange
  <1>4. \A y \in S : g[y] <= h[y]
    BY <1>1
  <1>5. SumFunctionOnSet(g, S) <= SumFunctionOnSet(h, S)
    BY <1>3, <1>4, SumMonotone
  <1> QED BY <1>1, <1>2, <1>3, <1>5

\* A sum of zeroes.
LEMMA SumZero ==
    ASSUME NEW f, NEW S, IsFiniteSet(S), \A x \in S : f[x] = 0
    PROVE  Summable(f, S) /\ SumFunctionOnSet(f, S) = 0
  <1> DEFINE B == {T \in SUBSET S : SumFunctionOnSet(f, T) # 0}
  <1>0. Summable(f, S)
    BY DEF Summable
  <1> SUFFICES ASSUME B # {} PROVE FALSE
    BY <1>0
  <1>1. PICK T \in B : \A U \in B : U \subseteq T => U = T
    <2>1. B \in SUBSET (SUBSET S)
      OBVIOUS
    <2> HIDE DEF B
    <2> QED BY <2>1, SmallestSet
  <1>2. Summable(f, T)
    BY <1>0, FS_Subset DEF Summable
  <1>3. PICK x : x \in T
    BY SumEmpty
  <1>4. SumFunctionOnSet(f, T \ {x}) = 0
    BY <1>1, <1>3
  <1>5. SumFunctionOnSet(f, T) = f[x] + SumFunctionOnSet(f, T \ {x})
    BY <1>2, <1>3, SumTake
  <1>6. f[x] = 0
    BY <1>3
  <1> QED BY <1>4, <1>5, <1>6

LEMMA SumNat ==
    ASSUME NEW f, NEW S, IsFiniteSet(S), \A x \in S : f[x] \in Nat
    PROVE  Summable(f, S) /\ SumFunctionOnSet(f, S) \in Nat
  <1> DEFINE z == [x \in S |-> 0]
  <1>1. Summable(f, S)
    BY DEF Summable
  <1>2. \A x \in S : z[x] = 0 /\ z[x] <= f[x]
    OBVIOUS
  <1> HIDE DEF z
  <1>3. Summable(z, S) /\ SumFunctionOnSet(z, S) = 0
    BY <1>2, SumZero
  <1>4. SumFunctionOnSet(z, S) <= SumFunctionOnSet(f, S)
    BY <1>1, <1>2, <1>3, SumMonotone
  <1> QED BY <1>1, <1>3, <1>4, SumType

LEMMA SumSingle ==
    ASSUME NEW f, NEW x, f[x] \in Int
    PROVE  Summable(f, {x}) /\ SumFunctionOnSet(f, {x}) = f[x]
  <1>1. Summable(f, {})
    BY FS_EmptySet DEF Summable
  <1>2. /\ Summable(f, {} \cup {x})
        /\ SumFunctionOnSet(f, {} \cup {x}) = f[x] + SumFunctionOnSet(f, {})
    BY <1>1, SumAdd
  <1>3. {} \cup {x} = {x}
    OBVIOUS
  <1> QED BY <1>2, <1>3, SumEmpty

\* The sum of the sums of two functions.
LEMMA SumPlus ==
    ASSUME NEW f, NEW g, NEW h, NEW S, Summable(f, S), Summable(g, S),
           \A x \in S : h[x] = f[x] + g[x]
    PROVE  /\ Summable(h, S)
           /\ SumFunctionOnSet(h, S) = SumFunctionOnSet(f, S) + SumFunctionOnSet(g, S)
  <1> DEFINE B == {T \in SUBSET S : SumFunctionOnSet(h, T)
                       # SumFunctionOnSet(f, T) + SumFunctionOnSet(g, T)}
  <1>0. Summable(h, S)
    BY DEF Summable
  <1> SUFFICES ASSUME B # {} PROVE FALSE
    BY <1>0
  <1>1. PICK T \in B : \A U \in B : U \subseteq T => U = T
    <2>1. B \in SUBSET (SUBSET S) /\ IsFiniteSet(S)
      BY DEF Summable
    <2> HIDE DEF B
    <2> QED BY <2>1, SmallestSet
  <1>2. Summable(f, T) /\ Summable(g, T) /\ Summable(h, T)
    BY <1>0, FS_Subset DEF Summable
  <1>3. PICK x : x \in T
    BY SumEmpty
  <1>4. f[x] \in Int /\ g[x] \in Int /\ h[x] = f[x] + g[x]
    BY <1>3 DEF Summable
  <1> DEFINE R == T \ {x}
  <1>5. SumFunctionOnSet(h, R) = SumFunctionOnSet(f, R) + SumFunctionOnSet(g, R)
    BY <1>1, <1>3
  <1>6. /\ SumFunctionOnSet(f, R) \in Int /\ SumFunctionOnSet(g, R) \in Int
        /\ SumFunctionOnSet(f, T) = f[x] + SumFunctionOnSet(f, R)
        /\ SumFunctionOnSet(g, T) = g[x] + SumFunctionOnSet(g, R)
        /\ SumFunctionOnSet(h, T) = h[x] + SumFunctionOnSet(h, R)
    BY <1>2, <1>3, SumTake
  <1>7. SumFunctionOnSet(h, T) = SumFunctionOnSet(f, T) + SumFunctionOnSet(g, T)
    <2> HIDE DEF R
    <2> QED BY <1>4, <1>5, <1>6
  <1> QED BY <1>7

\* The sum over two sets that have nothing in common.
LEMMA SumUnion ==
    ASSUME NEW f, NEW A, NEW S, Summable(f, A), Summable(f, S), A \cap S = {}
    PROVE  /\ Summable(f, A \cup S)
           /\ SumFunctionOnSet(f, A \cup S)
              = SumFunctionOnSet(f, A) + SumFunctionOnSet(f, S)
  <1> DEFINE B == {T \in SUBSET S : SumFunctionOnSet(f, A \cup T)
                       # SumFunctionOnSet(f, A) + SumFunctionOnSet(f, T)}
  <1>0. \A T \in SUBSET S : Summable(f, T) /\ Summable(f, A \cup T)
    BY FS_Subset, FS_Union DEF Summable
  <1> SUFFICES ASSUME B # {} PROVE FALSE
    BY <1>0
  <1>1. PICK T \in B : \A U \in B : U \subseteq T => U = T
    <2>1. B \in SUBSET (SUBSET S) /\ IsFiniteSet(S)
      BY DEF Summable
    <2> HIDE DEF B
    <2> QED BY <2>1, SmallestSet
  <1>2. PICK x : x \in T
    <2>1. A \cup {} = A /\ SumFunctionOnSet(f, A) \in Int
      BY SumType
    <2> QED BY <2>1, SumEmpty
  <1> DEFINE R == T \ {x}
  <1>3. (A \cup T) \ {x} = A \cup R /\ R \in SUBSET S
    BY <1>2
  <1>4. SumFunctionOnSet(f, A \cup R) = SumFunctionOnSet(f, A) + SumFunctionOnSet(f, R)
    BY <1>1, <1>2
  <1>5. /\ SumFunctionOnSet(f, A \cup T) = f[x] + SumFunctionOnSet(f, A \cup R)
        /\ SumFunctionOnSet(f, T) = f[x] + SumFunctionOnSet(f, R)
        /\ SumFunctionOnSet(f, R) \in Int /\ f[x] \in Int
    BY <1>0, <1>2, <1>3, SumTake DEF Summable
  <1>6. SumFunctionOnSet(f, A) \in Int
    BY SumType
  <1>7. SumFunctionOnSet(f, A \cup T) = SumFunctionOnSet(f, A) + SumFunctionOnSet(f, T)
    <2> HIDE DEF R
    <2> QED BY <1>4, <1>5, <1>6
  <1> QED BY <1>7

\* What is zero need not be summed up.
LEMMA SumSupport ==
    ASSUME NEW f, NEW S, Summable(f, S), NEW T \in SUBSET S,
           \A x \in S \ T : f[x] = 0
    PROVE  /\ Summable(f, T)
           /\ SumFunctionOnSet(f, S) = SumFunctionOnSet(f, T)
  <1> DEFINE U == S \ T
  <1>1. Summable(f, T) /\ Summable(f, U) /\ IsFiniteSet(U)
    BY FS_Subset DEF Summable
  <1>2. SumFunctionOnSet(f, U) = 0
    BY <1>1, SumZero
  <1>3. S = T \cup U /\ T \cap U = {}
    OBVIOUS
  <1> HIDE DEF U
  <1>4. SumFunctionOnSet(f, T \cup U) = SumFunctionOnSet(f, T) + SumFunctionOnSet(f, U)
    BY <1>1, <1>3, SumUnion
  <1>5. SumFunctionOnSet(f, S) = SumFunctionOnSet(f, T \cup U)
    BY <1>3
  <1>6. SumFunctionOnSet(f, T) \in Int
    BY <1>1, SumType
  <1> QED BY <1>1, <1>2, <1>4, <1>5, <1>6

\* No element is more than the sum of natural numbers.
LEMMA SumMember ==
    ASSUME NEW f, NEW S, IsFiniteSet(S), \A x \in S : f[x] \in Nat, NEW x \in S
    PROVE  f[x] <= SumFunctionOnSet(f, S)
  <1>1. Summable(f, S)
    BY DEF Summable
  <1>2. SumFunctionOnSet(f, S) = f[x] + SumFunctionOnSet(f, S \ {x})
    BY <1>1, SumTake
  <1>3. SumFunctionOnSet(f, S \ {x}) \in Nat
    BY SumNat, FS_RemoveElement
  <1> QED BY <1>2, <1>3

\* A sum with two terms that are not zero.
LEMMA SumPair ==
    ASSUME NEW f, NEW S, Summable(f, S), NEW a \in S, NEW b \in S, a # b,
           \A x \in S \ {a, b} : f[x] = 0
    PROVE  SumFunctionOnSet(f, S) = f[a] + f[b]
  <1>1. f[a] \in Int /\ f[b] \in Int
    BY DEF Summable
  <1>2. SumFunctionOnSet(f, S) = SumFunctionOnSet(f, {a, b})
    <2>1. {a, b} \in SUBSET S
      OBVIOUS
    <2> QED BY <2>1, SumSupport
  <1>3. Summable(f, {a}) /\ SumFunctionOnSet(f, {a}) = f[a]
    BY <1>1, SumSingle
  <1>4. SumFunctionOnSet(f, {a} \cup {b}) = f[b] + f[a]
    BY <1>1, <1>3, SumAdd
  <1>5. {a} \cup {b} = {a, b}
    OBVIOUS
  <1> QED BY <1>1, <1>2, <1>4, <1>5
=============================================================================
