------------------------------ MODULE SumLemmas ------------------------------
(***************************************************************************)
(* What SumFunctionOnSet of the community modules computes over a finite   *)
(* set, for the proofs about money and bytes.  Its definition folds the    *)
(* set by picking one element after the other; that this determines a      *)
(* value, and that the order of picking does not matter, is an induction   *)
(* over subsets, which rests on the strict subsets of a finite set being   *)
(* well founded.                                                           *)
(***************************************************************************)
EXTENDS Integers, FiniteSets, Functions, FiniteSetTheorems, TLAPS

Pick(s) == CHOOSE x \in s : TRUE

(* g folds f over every set of D.                                          *)
IsFold(g, f, D) ==
    g = [s \in D |-> IF s = {} THEN 0 ELSE f[Pick(s)] + g[s \ {Pick(s)}]]

(* The subsets of S of at most n elements.                                 *)
Small(S, n) == {s \in SUBSET S : Cardinality(s) <= n}

----------------------------------------------------------------------------
(* Induction over the subsets of a finite set, for a set G of good ones.   *)
LEMMA SubsetInduction ==
    ASSUME NEW S, IsFiniteSet(S), NEW G,
           \A T \in SUBSET S : (\A U \in SUBSET T : U # T => U \in G) => T \in G
    PROVE  \A T \in SUBSET S : T \in G
<1> DEFINE Bad == (SUBSET S) \ G
           R == StrictSubsetOrdering(S)
<1>1. SUFFICES ASSUME Bad # {} PROVE FALSE
  OBVIOUS
<1>2. IsWellFoundedOn(R, SUBSET S)
  BY FS_FiniteSubsetsOfFinite, FS_StrictSubsetOrderingWellFounded
<1>3. Bad \subseteq SUBSET S
  OBVIOUS
<1> HIDE DEF Bad, R
<1>4. PICK T \in Bad : \A U \in Bad : ~(<<U, T>> \in R)
  BY <1>1, <1>2, <1>3, WFMin
<1>5. \A U \in SUBSET T : U # T => U \in G
  BY <1>3, <1>4 DEF Bad, R, StrictSubsetOrdering
<1> QED BY <1>3, <1>4, <1>5 DEF Bad

LEMMA PickIn == ASSUME NEW s, s # {} PROVE Pick(s) \in s
BY DEF Pick

(* A subset less one of its elements: finite, and smaller by one.          *)
LEMMA OneLess ==
    ASSUME NEW S, IsFiniteSet(S), NEW T \in SUBSET S, NEW x \in T
    PROVE  /\ IsFiniteSet(T) /\ IsFiniteSet(T \ {x})
           /\ Cardinality(T) \in Nat /\ Cardinality(T \ {x}) \in Nat
           /\ Cardinality(T) = Cardinality(T \ {x}) + 1
<1>1. IsFiniteSet(T)
  BY FS_Subset
<1>2. Cardinality(T) \in Nat
  BY <1>1, FS_CardinalityType
<1>3. IsFiniteSet(T \ {x}) /\ Cardinality(T \ {x}) = Cardinality(T) - 1
  BY <1>1, FS_RemoveElement
<1>4. Cardinality(T \ {x}) \in Nat
  BY <1>3, FS_CardinalityType
<1> QED BY <1>1, <1>2, <1>3, <1>4

(* A fold exists, whatever f is: the fold of the sets of one more element  *)
(* is made from the fold of the smaller ones.                              *)
LEMMA FoldExists ==
    ASSUME NEW S, IsFiniteSet(S), NEW f
    PROVE  \E g : IsFold(g, f, SUBSET S)
<1> DEFINE G == {T \in SUBSET S : \E g : IsFold(g, f, Small(S, Cardinality(T)))}
<1>1. ASSUME NEW T \in SUBSET S, \A U \in SUBSET T : U # T => U \in G
      PROVE  T \in G
  <2>1. CASE T = {}
    <3>1. Cardinality(T) = 0
      BY <2>1, FS_EmptySet
    <3>2. \A s \in SUBSET S : Cardinality(s) <= 0 <=> s = {}
      BY FS_Subset, FS_CardinalityType, FS_EmptySet
    <3>3. Small(S, Cardinality(T)) = {{}}
      BY <3>1, <3>2 DEF Small
    <3>4. IsFold([s \in {{}} |-> 0], f, {{}})
      BY DEF IsFold
    <3> QED BY <3>3, <3>4, <1>1
  <2>2. CASE T # {}
    <3>1. PICK x \in T : TRUE
      BY <2>2
    <3> DEFINE n == Cardinality(T \ {x})
               grown(g) == [s \in Small(S, n + 1) |->
                              IF s = {} THEN 0 ELSE f[Pick(s)] + g[s \ {Pick(s)}]]
    <3>2. T \ {x} \in G
      BY <1>1, <3>1
    <3>3. Cardinality(T) = n + 1 /\ n \in Nat
      BY <3>1, OneLess
    <3>4. PICK g : IsFold(g, f, Small(S, n))
      BY <3>2
    <3> HIDE DEF n
    <3>5. ASSUME NEW s \in Small(S, n + 1), s # {}
          PROVE  s \ {Pick(s)} \in Small(S, n)
      <4>1. /\ Cardinality(s) \in Nat /\ Cardinality(s \ {Pick(s)}) \in Nat
            /\ Cardinality(s) = Cardinality(s \ {Pick(s)}) + 1
        BY <3>5, PickIn, OneLess DEF Small
      <4> QED BY <3>3, <4>1 DEF Small
    <3>6. ASSUME NEW s \in Small(S, n) PROVE g[s] = grown(g)[s]
      <4>1. s \in SUBSET S /\ Cardinality(s) \in Nat /\ Cardinality(s) <= n
        BY <3>6, FS_Subset, FS_CardinalityType DEF Small
      <4>2. s \in Small(S, n + 1)
        BY <3>3, <4>1 DEF Small
      <4> QED BY <3>4, <4>2 DEF IsFold
    <3> HIDE DEF grown
    <3>7. \A s \in Small(S, n + 1) : s # {} => g[s \ {Pick(s)}] = grown(g)[s \ {Pick(s)}]
      BY <3>5, <3>6
    <3> DEFINE h == grown(g)
               before(s) == IF s = {} THEN 0 ELSE f[Pick(s)] + g[s \ {Pick(s)}]
               after(s) == IF s = {} THEN 0 ELSE f[Pick(s)] + h[s \ {Pick(s)}]
    <3>8. h = [s \in Small(S, n + 1) |-> before(s)]
      BY DEF grown
    <3> HIDE DEF h
    <3>9. \A s \in Small(S, n + 1) : before(s) = after(s)
      BY <3>7 DEF h
    <3>10. IsFold(h, f, Small(S, n + 1))
      BY <3>8, <3>9 DEF IsFold
    <3> QED BY <3>3, <3>10, <1>1
  <2> QED BY <2>1, <2>2
<1>2. S \in G
  <2> HIDE DEF G
  <2> QED BY <1>1, SubsetInduction
<1>3. Small(S, Cardinality(S)) = SUBSET S
  BY FS_Subset DEF Small
<1> QED BY <1>2, <1>3

LEMMA SumIsFold ==
    ASSUME NEW S, IsFiniteSet(S), NEW f
    PROVE  \E g : IsFold(g, f, SUBSET S) /\ SumFunctionOnSet(f, S) = g[S]
<1> DEFINE iter == CHOOSE g : IsFold(g, f, SUBSET S)
<1>1. IsFold(iter, f, SUBSET S)
  BY FoldExists
<1>2. SumFunctionOnSet(f, S) = iter[S]
  BY DEF IsFold, SumFunctionOnSet, FoldFunctionOnSet, MapThenFoldSet, Pick
<1> QED BY <1>1, <1>2

(* Two folds agree on the largest set where both are defined.              *)
LEMMA FoldsAgree ==
    ASSUME NEW S, IsFiniteSet(S), NEW T \in SUBSET S, NEW f, NEW g, NEW h,
           IsFold(g, f, SUBSET S), IsFold(h, f, SUBSET T)
    PROVE  g[T] = h[T]
<1> DEFINE G == {U \in SUBSET T : g[U] = h[U]}
<1>1. ASSUME NEW U \in SUBSET T, \A V \in SUBSET U : V # U => V \in G
      PROVE  U \in G
  <2>1. CASE U = {}
    BY <2>1 DEF IsFold
  <2>2. CASE U # {}
    <3>1. Pick(U) \in U
      BY <2>2, PickIn
    <3>2. g[U \ {Pick(U)}] = h[U \ {Pick(U)}]
      BY <1>1, <3>1
    <3> HIDE DEF G
    <3>3. g[U] = f[Pick(U)] + g[U \ {Pick(U)}] /\ h[U] = f[Pick(U)] + h[U \ {Pick(U)}]
      BY <2>2 DEF IsFold
    <3> QED BY <3>2, <3>3 DEF G
  <2> QED BY <2>1, <2>2
<1>2. IsFiniteSet(T)
  BY FS_Subset
<1> HIDE DEF G
<1>3. T \in G
  BY <1>1, <1>2, SubsetInduction
<1> QED BY <1>3 DEF G

----------------------------------------------------------------------------
(* The equations of the sum, with the element that was picked ...          *)
LEMMA SumPicked ==
    ASSUME NEW S, IsFiniteSet(S), NEW f
    PROVE  SumFunctionOnSet(f, S) =
             IF S = {} THEN 0 ELSE f[Pick(S)] + SumFunctionOnSet(f, S \ {Pick(S)})
<1>1. PICK g : IsFold(g, f, SUBSET S) /\ SumFunctionOnSet(f, S) = g[S]
  BY SumIsFold
<1>2. CASE S = {}
  BY <1>1, <1>2 DEF IsFold
<1>3. CASE S # {}
  <2> DEFINE T == S \ {Pick(S)}
  <2>1. T \in SUBSET S /\ IsFiniteSet(T)
    BY <1>3, FS_Subset
  <2> HIDE DEF T
  <2>2. PICK h : IsFold(h, f, SUBSET T) /\ SumFunctionOnSet(f, T) = h[T]
    BY <2>1, SumIsFold
  <2>3. g[T] = h[T]
    <3>1. IsFold(g, f, SUBSET S) /\ IsFold(h, f, SUBSET T)
      BY <1>1, <2>2
    <3> QED BY <2>1, <3>1, FoldsAgree
  <2>4. g[S] = f[Pick(S)] + g[T]
    BY <1>1, <1>3 DEF IsFold, T
  <2> QED BY <1>1, <1>3, <2>2, <2>3, <2>4 DEF T
<1> QED BY <1>2, <1>3

LEMMA SumEmpty == ASSUME NEW f PROVE SumFunctionOnSet(f, {}) = 0
BY SumPicked, FS_EmptySet

LEMMA SumInt ==
    ASSUME NEW S, IsFiniteSet(S), NEW f, \A x \in S : f[x] \in Int
    PROVE  SumFunctionOnSet(f, S) \in Int
<1> DEFINE G == {T \in SUBSET S : SumFunctionOnSet(f, T) \in Int}
<1>1. ASSUME NEW T \in SUBSET S, \A U \in SUBSET T : U # T => U \in G
      PROVE  T \in G
  <2>1. IsFiniteSet(T)
    BY FS_Subset
  <2>2. CASE T = {}
    BY <2>2, SumEmpty
  <2>3. CASE T # {}
    <3>1. Pick(T) \in T
      BY <2>3, PickIn
    <3>2. SumFunctionOnSet(f, T \ {Pick(T)}) \in Int
      BY <1>1, <3>1
    <3>3. f[Pick(T)] \in Int
      BY <3>1
    <3>4. SumFunctionOnSet(f, T) = f[Pick(T)] + SumFunctionOnSet(f, T \ {Pick(T)})
      BY <2>1, <2>3, SumPicked
    <3> QED BY <3>2, <3>3, <3>4
  <2> QED BY <2>2, <2>3
<1> HIDE DEF G
<1>2. S \in G
  BY <1>1, SubsetInduction
<1> QED BY <1>2 DEF G

(* ... and with any element.                                               *)
LEMMA SumRemove ==
    ASSUME NEW S, IsFiniteSet(S), NEW f, \A y \in S : f[y] \in Int, NEW x \in S
    PROVE  SumFunctionOnSet(f, S) = f[x] + SumFunctionOnSet(f, S \ {x})
<1> DEFINE G == {T \in SUBSET S : \A z \in T :
                   SumFunctionOnSet(f, T) = f[z] + SumFunctionOnSet(f, T \ {z})}
<1>1. ASSUME NEW T \in SUBSET S, \A U \in SUBSET T : U # T => U \in G, NEW z \in T
      PROVE  SumFunctionOnSet(f, T) = f[z] + SumFunctionOnSet(f, T \ {z})
  <2> DEFINE c == Pick(T)
             rest == T \ {c, z}
  <2>1. IsFiniteSet(T) /\ c \in T
    BY FS_Subset, PickIn
  <2>2. SumFunctionOnSet(f, T) = f[c] + SumFunctionOnSet(f, T \ {c})
    BY <2>1, SumPicked
  <2> HIDE DEF c
  <2>3. CASE c = z
    BY <2>2, <2>3
  <2>4. CASE c # z
    <3>1. /\ T \ {c} \in G /\ z \in T \ {c} /\ (T \ {c}) \ {z} = rest
          /\ T \ {z} \in G /\ c \in T \ {z} /\ (T \ {z}) \ {c} = rest
      <4> HIDE DEF G
      <4> QED BY <1>1, <2>1, <2>4
    <3>2. SumFunctionOnSet(f, T \ {c}) = f[z] + SumFunctionOnSet(f, rest)
      BY <3>1
    <3>3. SumFunctionOnSet(f, T \ {z}) = f[c] + SumFunctionOnSet(f, rest)
      BY <3>1
    <3>4. f[c] \in Int /\ f[z] \in Int
      BY <2>1
    <3>5. SumFunctionOnSet(f, rest) \in Int
      <4>1. IsFiniteSet(rest) /\ rest \subseteq S
        BY FS_Subset
      <4> QED BY <4>1, SumInt
    <3> HIDE DEF rest
    <3> QED BY <2>2, <3>2, <3>3, <3>4, <3>5
  <2> QED BY <2>3, <2>4
<1>2. \A T \in SUBSET S : (\A U \in SUBSET T : U # T => U \in G) => T \in G
  BY <1>1
<1> HIDE DEF G
<1>3. S \in G
  BY <1>2, SubsetInduction
<1> QED BY <1>3 DEF G

LEMMA SumAdd ==
    ASSUME NEW S, IsFiniteSet(S), NEW f, \A y \in S : f[y] \in Int,
           NEW x, x \notin S, f[x] \in Int
    PROVE  SumFunctionOnSet(f, S \cup {x}) = SumFunctionOnSet(f, S) + f[x]
<1>1. IsFiniteSet(S \cup {x})
  BY FS_AddElement
<1> DEFINE T == S \cup {x}
<1>2. IsFiniteSet(T) /\ x \in T /\ T \ {x} = S /\ \A y \in T : f[y] \in Int
  BY <1>1
<1> HIDE DEF T
<1>3. SumFunctionOnSet(f, T) = f[x] + SumFunctionOnSet(f, T \ {x})
  BY <1>2, SumRemove
<1>4. SumFunctionOnSet(f, T) = f[x] + SumFunctionOnSet(f, S)
  BY <1>2, <1>3
<1>5. SumFunctionOnSet(f, S) \in Int
  BY SumInt
<1> QED BY <1>4, <1>5 DEF T

(* A sum is of the values on the set, and of nothing else.                 *)
LEMMA SumSame ==
    ASSUME NEW S, IsFiniteSet(S), NEW f, NEW g, \A x \in S : f[x] = g[x]
    PROVE  SumFunctionOnSet(f, S) = SumFunctionOnSet(g, S)
<1> DEFINE G == {T \in SUBSET S : SumFunctionOnSet(f, T) = SumFunctionOnSet(g, T)}
<1>1. ASSUME NEW T \in SUBSET S, \A U \in SUBSET T : U # T => U \in G
      PROVE  T \in G
  <2>1. IsFiniteSet(T)
    BY FS_Subset
  <2>2. CASE T = {}
    BY <2>2, SumEmpty
  <2>3. CASE T # {}
    <3>1. Pick(T) \in T
      BY <2>3, PickIn
    <3>2. SumFunctionOnSet(f, T \ {Pick(T)}) = SumFunctionOnSet(g, T \ {Pick(T)})
      BY <1>1, <3>1
    <3>3. /\ SumFunctionOnSet(f, T) = f[Pick(T)] + SumFunctionOnSet(f, T \ {Pick(T)})
          /\ SumFunctionOnSet(g, T) = g[Pick(T)] + SumFunctionOnSet(g, T \ {Pick(T)})
      BY <2>1, <2>3, SumPicked
    <3>4. f[Pick(T)] = g[Pick(T)]
      BY <3>1
    <3> QED BY <3>2, <3>3, <3>4
  <2> QED BY <2>2, <2>3
<1> HIDE DEF G
<1>2. S \in G
  BY <1>1, SubsetInduction
<1> QED BY <1>2 DEF G

LEMMA SumZero ==
    ASSUME NEW S, IsFiniteSet(S), NEW f, \A x \in S : f[x] = 0
    PROVE  SumFunctionOnSet(f, S) = 0
<1> DEFINE G == {T \in SUBSET S : SumFunctionOnSet(f, T) = 0}
<1>1. ASSUME NEW T \in SUBSET S, \A U \in SUBSET T : U # T => U \in G
      PROVE  T \in G
  <2>1. IsFiniteSet(T)
    BY FS_Subset
  <2>2. CASE T = {}
    BY <2>2, SumEmpty
  <2>3. CASE T # {}
    <3>1. Pick(T) \in T
      BY <2>3, PickIn
    <3>2. SumFunctionOnSet(f, T \ {Pick(T)}) = 0
      BY <1>1, <3>1
    <3> QED BY <2>1, <2>3, <3>1, <3>2, SumPicked
  <2> QED BY <2>2, <2>3
<1> HIDE DEF G
<1>2. S \in G
  BY <1>1, SubsetInduction
<1> QED BY <1>2 DEF G

(* What changes one value changes the sum by the difference.               *)
LEMMA SumChange ==
    ASSUME NEW S, IsFiniteSet(S), NEW f, NEW g, NEW x \in S,
           \A y \in S : f[y] \in Int, \A y \in S : g[y] \in Int,
           \A y \in S \ {x} : f[y] = g[y]
    PROVE  SumFunctionOnSet(g, S) = SumFunctionOnSet(f, S) + g[x] - f[x]
<1>1. IsFiniteSet(S \ {x})
  BY FS_Subset
<1>2. SumFunctionOnSet(f, S \ {x}) = SumFunctionOnSet(g, S \ {x})
  BY <1>1, SumSame
<1>3. /\ SumFunctionOnSet(f, S) = f[x] + SumFunctionOnSet(f, S \ {x})
      /\ SumFunctionOnSet(g, S) = g[x] + SumFunctionOnSet(g, S \ {x})
  BY SumRemove
<1>4. f[x] \in Int /\ g[x] \in Int /\ SumFunctionOnSet(f, S \ {x}) \in Int
  BY <1>1, SumInt
<1> QED BY <1>2, <1>3, <1>4

LEMMA SumUpdate ==
    ASSUME NEW S, IsFiniteSet(S), NEW f \in [S -> Int], NEW x \in S, NEW v \in Int
    PROVE  /\ SumFunctionOnSet([f EXCEPT ![x] = v], S) = SumFunctionOnSet(f, S) + v - f[x]
           /\ SumFunction([f EXCEPT ![x] = v]) = SumFunction(f) + v - f[x]
<1> DEFINE g == [f EXCEPT ![x] = v]
<1>1. /\ \A y \in S : f[y] \in Int /\ g[y] \in Int
      /\ \A y \in S \ {x} : f[y] = g[y]
      /\ g[x] = v /\ DOMAIN f = S /\ DOMAIN g = S
  OBVIOUS
<1> HIDE DEF g
<1>2. SumFunctionOnSet(g, S) = SumFunctionOnSet(f, S) + g[x] - f[x]
  BY <1>1, SumChange
<1> QED BY <1>1, <1>2 DEF g, SumFunction

(* A sum of natural numbers is one, and none of them exceeds it.           *)
LEMMA SumNat ==
    ASSUME NEW S, IsFiniteSet(S), NEW f, \A x \in S : f[x] \in Nat
    PROVE  /\ SumFunctionOnSet(f, S) \in Nat
           /\ \A x \in S : f[x] <= SumFunctionOnSet(f, S)
<1> DEFINE G == {T \in SUBSET S : SumFunctionOnSet(f, T) \in Nat}
<1>1. ASSUME NEW T \in SUBSET S, \A U \in SUBSET T : U # T => U \in G
      PROVE  T \in G
  <2>1. IsFiniteSet(T)
    BY FS_Subset
  <2>2. CASE T = {}
    BY <2>2, SumEmpty
  <2>3. CASE T # {}
    <3>1. Pick(T) \in T
      BY <2>3, PickIn
    <3>2. SumFunctionOnSet(f, T \ {Pick(T)}) \in Nat
      BY <1>1, <3>1
    <3>3. f[Pick(T)] \in Nat
      BY <3>1
    <3>4. SumFunctionOnSet(f, T) = f[Pick(T)] + SumFunctionOnSet(f, T \ {Pick(T)})
      BY <2>1, <2>3, SumPicked
    <3> QED BY <3>2, <3>3, <3>4
  <2> QED BY <2>2, <2>3
<1> HIDE DEF G
<1>2. \A T \in SUBSET S : T \in G
  BY <1>1, SubsetInduction
<1>3. ASSUME NEW x \in S PROVE f[x] <= SumFunctionOnSet(f, S)
  <2>1. SumFunctionOnSet(f, S) = f[x] + SumFunctionOnSet(f, S \ {x})
    BY SumRemove
  <2>2. SumFunctionOnSet(f, S \ {x}) \in Nat /\ f[x] \in Nat
    BY <1>2 DEF G
  <2> QED BY <2>1, <2>2
<1> QED BY <1>2, <1>3 DEF G

(* Natural numbers add up to at least as many as are positive.             *)
LEMMA CountBelowSum ==
    ASSUME NEW S, IsFiniteSet(S), NEW f, \A x \in S : f[x] \in Nat
    PROVE  Cardinality({x \in S : f[x] > 0}) <= SumFunctionOnSet(f, S)
<1> DEFINE pos(T) == {x \in T : f[x] > 0}
           G == {T \in SUBSET S : Cardinality(pos(T)) <= SumFunctionOnSet(f, T)}
<1>1. ASSUME NEW T \in SUBSET S, \A U \in SUBSET T : U # T => U \in G
      PROVE  Cardinality(pos(T)) <= SumFunctionOnSet(f, T)
  <2>1. IsFiniteSet(T) /\ IsFiniteSet(pos(T))
    BY FS_Subset
  <2>2. CASE T = {}
    BY <2>2, SumEmpty, FS_EmptySet
  <2>3. CASE T # {}
    <3>1. PICK z \in T : TRUE
      BY <2>3
    <3>2. Cardinality(pos(T \ {z})) <= SumFunctionOnSet(f, T \ {z})
      BY <1>1, <3>1
    <3>3. SumFunctionOnSet(f, T) = f[z] + SumFunctionOnSet(f, T \ {z})
      BY <2>1, <3>1, SumRemove
    <3>4. Cardinality(pos(T) \ {z}) = Cardinality(pos(T \ {z}))
      <4>1. pos(T) \ {z} = pos(T \ {z})
        OBVIOUS
      <4> QED BY <4>1
    <3>5. Cardinality(pos(T) \ {z}) = IF z \in pos(T) THEN Cardinality(pos(T)) - 1
                                                      ELSE Cardinality(pos(T))
      BY <2>1, FS_RemoveElement
    <3>6. f[z] \in Nat /\ Cardinality(pos(T)) \in Nat /\ SumFunctionOnSet(f, T \ {z}) \in Int
      <4>1. IsFiniteSet(T \ {z}) /\ \A x \in T \ {z} : f[x] \in Int
        BY <2>1, FS_Subset
      <4> QED BY <2>1, <4>1, FS_CardinalityType, SumInt
    <3>7. z \in pos(T) <=> f[z] > 0
      OBVIOUS
    <3> HIDE DEF pos
    <3> QED BY <3>2, <3>3, <3>4, <3>5, <3>6, <3>7
  <2> QED BY <2>2, <2>3
<1>2. \A T \in SUBSET S : (\A U \in SUBSET T : U # T => U \in G) => T \in G
  BY <1>1
<1> HIDE DEF G
<1>3. S \in G
  BY <1>2, SubsetInduction
<1> QED BY <1>3 DEF G

(* Sums add up value by value.                                             *)
LEMMA SumPlus ==
    ASSUME NEW S, IsFiniteSet(S), NEW f, NEW g, NEW h,
           \A x \in S : f[x] \in Int /\ g[x] \in Int /\ h[x] = f[x] + g[x]
    PROVE  SumFunctionOnSet(h, S) = SumFunctionOnSet(f, S) + SumFunctionOnSet(g, S)
<1> DEFINE G == {T \in SUBSET S :
                   SumFunctionOnSet(h, T) = SumFunctionOnSet(f, T) + SumFunctionOnSet(g, T)}
<1>1. ASSUME NEW T \in SUBSET S, \A U \in SUBSET T : U # T => U \in G
      PROVE  T \in G
  <2>1. IsFiniteSet(T)
    BY FS_Subset
  <2>2. CASE T = {}
    BY <2>2, SumEmpty
  <2>3. CASE T # {}
    <3> DEFINE U == T \ {Pick(T)}
    <3>1. Pick(T) \in T /\ IsFiniteSet(U) /\ U \in SUBSET S
      BY <2>1, <2>3, PickIn, FS_Subset
    <3>2. SumFunctionOnSet(h, U) = SumFunctionOnSet(f, U) + SumFunctionOnSet(g, U)
      BY <1>1, <3>1
    <3>3. /\ SumFunctionOnSet(f, T) = f[Pick(T)] + SumFunctionOnSet(f, U)
          /\ SumFunctionOnSet(g, T) = g[Pick(T)] + SumFunctionOnSet(g, U)
          /\ SumFunctionOnSet(h, T) = h[Pick(T)] + SumFunctionOnSet(h, U)
      BY <2>1, <2>3, SumPicked
    <3>4. /\ f[Pick(T)] \in Int /\ g[Pick(T)] \in Int /\ h[Pick(T)] = f[Pick(T)] + g[Pick(T)]
          /\ SumFunctionOnSet(f, U) \in Int /\ SumFunctionOnSet(g, U) \in Int
      BY <3>1, SumInt
    <3> HIDE DEF U
    <3> QED BY <3>2, <3>3, <3>4
  <2> QED BY <2>2, <2>3
<1> HIDE DEF G
<1>2. S \in G
  BY <1>1, SubsetInduction
<1> QED BY <1>2 DEF G

(* The sum over a part of a set: the values outside count for nothing.     *)
LEMMA SumWithin ==
    ASSUME NEW S, IsFiniteSet(S), NEW T \in SUBSET S, NEW f, NEW g,
           \A x \in S : f[x] \in Int, \A x \in S : g[x] = IF x \in T THEN f[x] ELSE 0
    PROVE  SumFunctionOnSet(g, S) = SumFunctionOnSet(f, T)
<1> DEFINE G == {U \in SUBSET S : SumFunctionOnSet(g, U) = SumFunctionOnSet(f, U \cap T)}
<1>1. ASSUME NEW U \in SUBSET S, \A V \in SUBSET U : V # U => V \in G
      PROVE  U \in G
  <2>1. IsFiniteSet(U) /\ IsFiniteSet(U \cap T)
    BY FS_Subset
  <2>2. CASE U = {}
    <3>1. U \cap T = {}
      BY <2>2
    <3> QED BY <2>2, <3>1, SumEmpty
  <2>3. CASE U # {}
    <3>0. PICK x \in U : x = Pick(U)
      BY <2>3, PickIn
    <3> DEFINE V == U \ {x}
    <3>1. IsFiniteSet(V) /\ V \in SUBSET S /\ V \in SUBSET U /\ V # U
      BY <2>1, <3>0, FS_Subset
    <3>2. SumFunctionOnSet(g, V) = SumFunctionOnSet(f, V \cap T)
      BY <1>1, <3>1
    <3>3. SumFunctionOnSet(g, U) = g[x] + SumFunctionOnSet(g, V)
      BY <2>1, <2>3, <3>0, SumPicked
    <3>4. CASE x \in T
      <4>1. V \cap T = (U \cap T) \ {x} /\ x \in U \cap T
        BY <3>4
      <4>2. SumFunctionOnSet(f, U \cap T) = f[x] + SumFunctionOnSet(f, (U \cap T) \ {x})
        BY <2>1, <4>1, SumRemove
      <4> QED BY <3>2, <3>3, <3>4, <4>1, <4>2
    <3>5. CASE x \notin T
      <4>1. V \cap T = U \cap T
        BY <3>5
      <4>2. SumFunctionOnSet(f, U \cap T) \in Int
        BY <2>1, SumInt
      <4>3. g[x] = 0
        BY <3>0, <3>5
      <4> HIDE DEF V
      <4> QED BY <3>2, <3>3, <4>1, <4>2, <4>3
    <3> QED BY <3>4, <3>5
  <2> QED BY <2>2, <2>3
<1> HIDE DEF G
<1>2. S \in G
  BY <1>1, SubsetInduction
<1>3. S \cap T = T
  OBVIOUS
<1> QED BY <1>2, <1>3 DEF G
=============================================================================
