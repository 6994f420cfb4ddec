-------------------------- MODULE LiveUsage_proofs --------------------------
(***************************************************************************)
(* The proofs about LiveUsage: the sessions of a printer's prints stay     *)
(* apart, the grams they say were used add up, and what has ended stays    *)
(* ended.                                                                  *)
(*                                                                         *)
(* First come sums over finite sets, which the totals are: what a sum      *)
(* becomes when a member changes, goes, or is renumbered. The library's    *)
(* induction over finite sets takes an operator; instead the sets a law    *)
(* fails for are shown to have a smallest one (WFMin), which then cannot   *)
(* fail.                                                                   *)
(*                                                                         *)
(* Then what each helper of the code does to one session, and what         *)
(* beginning, renaming, merging, showing and closing do to a list of them. *)
(* SameName, SameUse and SameEnd say which part of a session a statement   *)
(* leaves alone; most of a step is that all the other sessions keep        *)
(* theirs.                                                                 *)
(*                                                                         *)
(* The invariant IInv has a part for each way the books can go wrong.      *)
(* Numbered is why keys stay unique although a merge removes a session     *)
(* from the count the next number is made of: the one it removes has the   *)
(* last number. OnePerKey and OneJob say that what a touch finds running   *)
(* is the only one. Directed says what the half-finished merge of a touch  *)
(* has left to do; Totals and Counts say what the totals are meanwhile,    *)
(* the row half moved counted twice. Once a touch was torn between two     *)
(* statements the totals may be wrong for good: they and OneJob speak of   *)
(* the other behaviours only.                                              *)
(*                                                                         *)
(* Each action then keeps the invariant and leaves alone what has ended   *)
(* (the lemmas named for the actions); the theorems are at the end.        *)
(***************************************************************************)
EXTENDS LiveUsage, FiniteSetTheorems, SequenceTheorems, TLAPS

HIDE UsageAssumption

-----------------------------------------------------------------------------
(* Sums over finite sets. *)

\* The library's well-founded induction, for the naturals, without its operator.
LEMMA LeastNatural ==
  ASSUME NEW T \in SUBSET Nat, T # {}
  PROVE  \E n \in T : \A m \in T : n <= m
<1> DEFINE R == {ss \in Nat \X Nat : ss[1] < ss[2]}
<1>1. IsWellFoundedOn(R, Nat)
  BY NatLessThanWellFounded DEF OpToRel
<1>2. PICK n \in T : \A m \in T : ~(<<m, n>> \in R)
  <2> HIDE DEF R
  <2> QED BY <1>1, WFMin
<1>3. \A m, k \in Nat : m < k => <<m, k>> \in R
  OBVIOUS
<1>4. \A m \in T : ~(m < n)
  BY <1>2, <1>3
<1> QED
  BY <1>4

One(s) == CHOOSE x \in s : TRUE
Sums(f, S, g) == g = [s \in SUBSET S |-> IF s = {} THEN 0 ELSE f[One(s)] + g[s \ {One(s)}]]

LEMMA SumIs ==
  ASSUME NEW f, NEW S
  PROVE  SumFunctionOnSet(f, S) = (CHOOSE g : Sums(f, S, g))[S]
BY DEF SumFunctionOnSet, FoldFunctionOnSet, MapThenFoldSet, Sums, One

\* The sets of at most n elements, and a function that adds up f over each.
Upto(S, n) == {s \in SUBSET S : Cardinality(s) <= n}
SumsUpto(f, S, n, g) ==
  g = [s \in Upto(S, n) |-> IF s = {} THEN 0 ELSE f[One(s)] + g[s \ {One(s)}]]

\* A set that is not empty has a member to begin a sum with, and a smaller rest.
LEMMA Smaller ==
  ASSUME NEW S, IsFiniteSet(S), NEW n \in Nat, NEW s \in Upto(S, n), s # {}
  PROVE  /\ One(s) \in s /\ s \ {One(s)} \in SUBSET S
         /\ Cardinality(s \ {One(s)}) = Cardinality(s) - 1 /\ Cardinality(s) \in Nat
         /\ n # 0 /\ s \ {One(s)} \in Upto(S, n - 1)
<1>1. s \in SUBSET S /\ Cardinality(s) <= n
  BY DEF Upto
<1>2. IsFiniteSet(s)
  BY <1>1, FS_Subset
<1>3. Cardinality(s) \in Nat
  BY <1>2, FS_CardinalityType
<1>4. One(s) \in s
  BY DEF One
<1>5. Cardinality(s \ {One(s)}) = Cardinality(s) - 1
  BY <1>2, <1>4, FS_RemoveElement
<1>6. Cardinality(s) # 0
  BY <1>2, FS_EmptySet
<1> QED
  BY <1>1, <1>3, <1>4, <1>5, <1>6 DEF Upto

LEMMA SumsUptoExists ==
  ASSUME NEW f, NEW S, IsFiniteSet(S), NEW n \in Nat
  PROVE  \E g : SumsUpto(f, S, n, g)
<1> DEFINE T == {k \in Nat : ~\E g : SumsUpto(f, S, k, g)}
<1> SUFFICES ASSUME T # {} PROVE FALSE
  OBVIOUS
<1>1. PICK k \in T : \A m \in T : k <= m
  BY LeastNatural
<1>2. k # 0
  <2> SUFFICES ASSUME k = 0 PROVE FALSE
    OBVIOUS
  <2> DEFINE g == [s \in Upto(S, 0) |-> 0]
  <2>1. \A s \in Upto(S, 0) : s = {}
    BY Smaller
  <2>2. SumsUpto(f, S, 0, g)
    BY <2>1 DEF SumsUpto
  <2> QED
    BY <2>2
<1>3. k - 1 \in Nat /\ k - 1 \notin T
  BY <1>1, <1>2
<1>4. PICK h : SumsUpto(f, S, k - 1, h)
  BY <1>3
<1> DEFINE g == [s \in Upto(S, k) |-> IF s = {} THEN 0 ELSE f[One(s)] + h[s \ {One(s)}]]
<1>5. ASSUME NEW s \in Upto(S, k - 1) PROVE s \in Upto(S, k) /\ g[s] = h[s]
  <2>1. s \in Upto(S, k)
    <3>1. s \in SUBSET S /\ Cardinality(s) <= k - 1
      BY DEF Upto
    <3>2. Cardinality(s) \in Nat
      BY <3>1, FS_Subset, FS_CardinalityType
    <3> QED
      BY <3>1, <3>2, <1>3 DEF Upto
  <2>2. h[s] = IF s = {} THEN 0 ELSE f[One(s)] + h[s \ {One(s)}]
    BY <1>4 DEF SumsUpto
  <2> QED
    BY <2>1, <2>2
<1>6. ASSUME NEW s \in Upto(S, k), s # {} PROVE g[s \ {One(s)}] = h[s \ {One(s)}]
  BY <1>5, <1>6, Smaller
<1>7. SumsUpto(f, S, k, g)
  BY <1>6 DEF SumsUpto
<1> QED
  BY <1>7, <1>1

LEMMA SumsExists ==
  ASSUME NEW f, NEW S, IsFiniteSet(S)
  PROVE  \E g : Sums(f, S, g)
<1>1. Cardinality(S) \in Nat
  BY FS_CardinalityType
<1>2. Upto(S, Cardinality(S)) = SUBSET S
  BY FS_Subset DEF Upto
<1>3. PICK g : SumsUpto(f, S, Cardinality(S), g)
  BY <1>1, SumsUptoExists
<1>4. Sums(f, S, g)
  BY <1>2, <1>3 DEF Sums, SumsUpto
<1> QED
  BY <1>4

\* The sums of f over the subsets of S, as the model's sum takes them.
SumFcn(f, S) == CHOOSE g : Sums(f, S, g)

\* Over a finite set the recursion of SumFunctionOnSet has a solution, so CHOOSE finds it.
LEMMA SumsOf ==
  ASSUME NEW f, NEW S, IsFiniteSet(S)
  PROVE  Sums(f, S, SumFcn(f, S))
<1>1. \E g : Sums(f, S, g)
  BY SumsExists
<1> QED
  BY <1>1 DEF SumFcn

\* Two such functions agree wherever both are defined and f is the same.
LEMMA SumsAgree ==
  ASSUME NEW f, NEW h, NEW S, IsFiniteSet(S), NEW U, IsFiniteSet(U), NEW V \in SUBSET S, V \subseteq U,
         \A x \in V : f[x] = h[x],
         NEW a, Sums(f, S, a), NEW b, Sums(h, U, b)
  PROVE  a[V] = b[V]
<1> DEFINE T == {k \in Nat : \E s \in SUBSET V : Cardinality(s) = k /\ a[s] # b[s]}
<1>1. IsFiniteSet(V)
  BY FS_Subset
<1> SUFFICES ASSUME T # {} PROVE FALSE
  <2>1. Cardinality(V) \in Nat
    BY <1>1, FS_CardinalityType
  <2> QED
    BY <2>1
<1>2. PICK k \in T : \A m \in T : k <= m
  BY LeastNatural
<1>3. PICK s \in SUBSET V : Cardinality(s) = k /\ a[s] # b[s]
  BY <1>2
<1>4. s \in SUBSET S /\ s \in SUBSET U
  OBVIOUS
<1>5. /\ a[s] = IF s = {} THEN 0 ELSE f[One(s)] + a[s \ {One(s)}]
      /\ b[s] = IF s = {} THEN 0 ELSE h[One(s)] + b[s \ {One(s)}]
  BY <1>4 DEF Sums
<1>6. s # {}
  BY <1>3, <1>5
<1>7. s \in Upto(V, k)
  BY <1>3, <1>2 DEF Upto
<1>8. /\ One(s) \in s /\ s \ {One(s)} \in SUBSET V
      /\ Cardinality(s \ {One(s)}) = k - 1 /\ k # 0
  BY <1>1, <1>2, <1>3, <1>6, <1>7, Smaller
<1>9. a[s \ {One(s)}] = b[s \ {One(s)}]
  BY <1>2, <1>8
<1> QED
  BY <1>3, <1>5, <1>8, <1>9

\* A sum over a part of S is the same taken within S or by itself.
LEMMA SumOfPart ==
  ASSUME NEW f, NEW S, IsFiniteSet(S), NEW V \in SUBSET S
  PROVE  SumFcn(f, S)[V] = SumFunctionOnSet(f, V)
<1>1. IsFiniteSet(V)
  BY FS_Subset
<1>2. Sums(f, S, SumFcn(f, S)) /\ Sums(f, V, SumFcn(f, V))
  BY <1>1, SumsOf
<1>3. SumFcn(f, S)[V] = SumFcn(f, V)[V]
  BY <1>1, <1>2, SumsAgree
<1> QED
  BY <1>3, SumIs DEF SumFcn

\* A sum depends on the members' numbers only.
LEMMA SumCongruent ==
  ASSUME NEW S, IsFiniteSet(S), NEW f, NEW h, \A x \in S : f[x] = h[x]
  PROVE  SumFunctionOnSet(f, S) = SumFunctionOnSet(h, S)
<1>1. Sums(f, S, SumFcn(f, S)) /\ Sums(h, S, SumFcn(h, S))
  BY SumsOf
<1>2. SumFcn(f, S)[S] = SumFcn(h, S)[S]
  BY <1>1, SumsAgree
<1> QED
  BY <1>2, SumIs DEF SumFcn

LEMMA SumOfNone == ASSUME NEW f PROVE SumFunctionOnSet(f, {}) = 0
<1>1. IsFiniteSet({})
  BY FS_EmptySet
<1>2. Sums(f, {}, SumFcn(f, {}))
  BY <1>1, SumsOf
<1>3. SumFcn(f, {})[{}] = 0
  BY <1>2 DEF Sums
<1> QED
  BY <1>3, SumIs DEF SumFcn

\* A sum is one member and the sum of the rest.
LEMMA SumByOne ==
  ASSUME NEW f, NEW S, IsFiniteSet(S), S # {}
  PROVE  One(S) \in S /\ SumFunctionOnSet(f, S) = f[One(S)] + SumFunctionOnSet(f, S \ {One(S)})
<1>1. One(S) \in S
  BY DEF One
<1>2. Sums(f, S, SumFcn(f, S))
  BY SumsOf
<1>3. SumFcn(f, S)[S] = f[One(S)] + SumFcn(f, S)[S \ {One(S)}]
  BY <1>2 DEF Sums
<1>4. SumFcn(f, S)[S] = SumFunctionOnSet(f, S)
  BY SumOfPart
<1>5. SumFcn(f, S)[S \ {One(S)}] = SumFunctionOnSet(f, S \ {One(S)})
  BY SumOfPart
<1> QED
  BY <1>1, <1>3, <1>4, <1>5

\* Induction over finite sets, without a predicate: the least of the exceptions.
LEMMA LeastSubset ==
  ASSUME NEW S, IsFiniteSet(S), NEW T \in SUBSET SUBSET S, T # {}
  PROVE  \E s \in T : IsFiniteSet(s) /\ \A x \in s : s \ {x} \notin T
<1> DEFINE N == {n \in Nat : \E s \in T : Cardinality(s) = n}
<1>1. \A s \in T : IsFiniteSet(s) /\ Cardinality(s) \in Nat
  BY FS_Subset, FS_CardinalityType
<1>2. N \in SUBSET Nat /\ N # {}
  BY <1>1
<1>3. PICK n \in N : \A m \in N : n <= m
  <2> HIDE DEF N
  <2> QED BY <1>2, LeastNatural
<1>4. PICK s \in T : Cardinality(s) = n
  BY <1>3
<1>5. ASSUME NEW x \in s PROVE s \ {x} \notin T
  <2>1. Cardinality(s \ {x}) = n - 1
    BY <1>1, <1>4, FS_RemoveElement
  <2>2. n - 1 \notin N
    BY <1>2, <1>3
  <2> QED
    BY <1>1, <2>1, <2>2
<1> QED
  BY <1>1, <1>4, <1>5

\* No session, no grams.
LEMMA SumOfZeros ==
  ASSUME NEW S, IsFiniteSet(S), NEW f, \A x \in S : f[x] = 0
  PROVE  SumFunctionOnSet(f, S) = 0
<1> DEFINE T == {s \in SUBSET S : SumFunctionOnSet(f, s) # 0}
<1> SUFFICES ASSUME T # {} PROVE FALSE
  OBVIOUS
<1>1. PICK s \in T : IsFiniteSet(s) /\ \A x \in s : s \ {x} \notin T
  <2>1. T \in SUBSET SUBSET S
    OBVIOUS
  <2> HIDE DEF T
  <2> QED BY <2>1, LeastSubset
<1>2. s # {}
  BY SumOfNone
<1>3. One(s) \in s /\ SumFunctionOnSet(f, s) = f[One(s)] + SumFunctionOnSet(f, s \ {One(s)})
  BY <1>1, <1>2, SumByOne
<1>4. SumFunctionOnSet(f, s \ {One(s)}) = 0
  BY <1>1, <1>3
<1> QED
  BY <1>3, <1>4

\* Grams are naturals, and so are their sums.
LEMMA SumType ==
  ASSUME NEW S, IsFiniteSet(S), NEW f, \A x \in S : f[x] \in Nat
  PROVE  SumFunctionOnSet(f, S) \in Nat
<1> DEFINE T == {s \in SUBSET S : SumFunctionOnSet(f, s) \notin Nat}
<1> SUFFICES ASSUME T # {} PROVE FALSE
  OBVIOUS
<1>1. PICK s \in T : IsFiniteSet(s) /\ \A x \in s : s \ {x} \notin T
  <2>1. T \in SUBSET SUBSET S
    OBVIOUS
  <2> HIDE DEF T
  <2> QED BY <2>1, LeastSubset
<1>2. s # {}
  BY SumOfNone
<1>3. One(s) \in s /\ SumFunctionOnSet(f, s) = f[One(s)] + SumFunctionOnSet(f, s \ {One(s)})
  BY <1>1, <1>2, SumByOne
<1>4. SumFunctionOnSet(f, s \ {One(s)}) \in Nat
  BY <1>1, <1>3
<1> QED
  BY <1>3, <1>4

\* What one member adds to a sum does not depend on the order.
LEMMA SumSplit ==
  ASSUME NEW S, IsFiniteSet(S), NEW f, \A x \in S : f[x] \in Nat, NEW e \in S
  PROVE  SumFunctionOnSet(f, S) = f[e] + SumFunctionOnSet(f, S \ {e})
<1> DEFINE T ==
      {s \in SUBSET S :
         \E d \in s : SumFunctionOnSet(f, s) # f[d] + SumFunctionOnSet(f, s \ {d})}
<1> SUFFICES ASSUME T # {} PROVE FALSE
  OBVIOUS
<1>1. PICK s \in T : IsFiniteSet(s) /\ \A x \in s : s \ {x} \notin T
  <2>1. T \in SUBSET SUBSET S
    OBVIOUS
  <2> HIDE DEF T
  <2> QED BY <2>1, LeastSubset
<1> DEFINE x == One(s)
<1>2. x \in s /\ SumFunctionOnSet(f, s) = f[x] + SumFunctionOnSet(f, s \ {x})
  BY <1>1, SumByOne
<1>3. PICK d \in s : SumFunctionOnSet(f, s) # f[d] + SumFunctionOnSet(f, s \ {d})
  OBVIOUS
<1>4. x # d
  BY <1>2, <1>3
<1>5. SumFunctionOnSet(f, s \ {x}) = f[d] + SumFunctionOnSet(f, (s \ {x}) \ {d})
  BY <1>1, <1>2, <1>4
<1>6. SumFunctionOnSet(f, s \ {d}) = f[x] + SumFunctionOnSet(f, (s \ {d}) \ {x})
  BY <1>1, <1>2, <1>4
<1>7. (s \ {x}) \ {d} = (s \ {d}) \ {x}
  OBVIOUS
<1>8. SumFunctionOnSet(f, (s \ {x}) \ {d}) \in Nat
  BY <1>1, FS_RemoveElement, SumType
<1> QED
  BY <1>2, <1>3, <1>5, <1>6, <1>7, <1>8, SMTT(40)

\* One member changed; one member more.
LEMMA SumChange ==
  ASSUME NEW S, IsFiniteSet(S), NEW f, NEW h, NEW e \in S,
         \A x \in S : f[x] \in Nat, h[e] \in Nat, \A x \in S \ {e} : h[x] = f[x]
  PROVE  SumFunctionOnSet(h, S) = SumFunctionOnSet(f, S) - f[e] + h[e]
<1>1. SumFunctionOnSet(f, S) = f[e] + SumFunctionOnSet(f, S \ {e})
  BY SumSplit
<1>2. \A x \in S : h[x] \in Nat
  OBVIOUS
<1>3. SumFunctionOnSet(h, S) = h[e] + SumFunctionOnSet(h, S \ {e})
  BY <1>2, SumSplit
<1>4. IsFiniteSet(S \ {e})
  BY FS_RemoveElement
<1>5. SumFunctionOnSet(h, S \ {e}) = SumFunctionOnSet(f, S \ {e})
  BY <1>4, SumCongruent
<1>6. SumFunctionOnSet(f, S \ {e}) \in Nat
  BY <1>4, SumType
<1> QED
  BY <1>1, <1>3, <1>5, <1>6

\* A sum does not depend on what the members are called.
LEMMA SumRenamed ==
  ASSUME NEW S, IsFiniteSet(S), NEW f, NEW h, NEW b, \A x \in S : f[x] \in Nat /\ h[b[x]] = f[x],
         \A x, y \in S : b[x] = b[y] => x = y
  PROVE  SumFunctionOnSet(h, {b[x] : x \in S}) = SumFunctionOnSet(f, S)
<1> DEFINE Image(s) == {b[x] : x \in s}
<1> DEFINE T ==
      {s \in SUBSET S :
         ~(IsFiniteSet(Image(s)) /\ SumFunctionOnSet(h, Image(s)) = SumFunctionOnSet(f, s))}
<1> SUFFICES ASSUME T # {} PROVE FALSE
  OBVIOUS
<1>1. PICK s \in T : IsFiniteSet(s) /\ \A x \in s : s \ {x} \notin T
  <2>1. T \in SUBSET SUBSET S
    OBVIOUS
  <2> HIDE DEF T
  <2> QED BY <2>1, LeastSubset
<1>2. s # {}
  <2>1. Image({}) = {}
    OBVIOUS
  <2> QED
    BY <2>1, SumOfNone, FS_EmptySet
<1>3. PICK x : x \in s
  BY <1>2
<1>4. IsFiniteSet(Image(s \ {x}))
      /\ SumFunctionOnSet(h, Image(s \ {x})) = SumFunctionOnSet(f, s \ {x})
  BY <1>1, <1>3
<1>5. Image(s) = Image(s \ {x}) \cup {b[x]} /\ Image(s) \ {b[x]} = Image(s \ {x})
  BY <1>3
<1>6. IsFiniteSet(Image(s))
  <2>1. IsFiniteSet(Image(s \ {x})) /\ Image(s) = Image(s \ {x}) \cup {b[x]}
    BY <1>4, <1>5
  <2> HIDE DEF Image, T
  <2>2. IsFiniteSet(Image(s \ {x}) \cup {b[x]})
    BY <2>1, FS_AddElement
  <2> QED
    BY <2>1, <2>2
<1>7. SumFunctionOnSet(f, s) = f[x] + SumFunctionOnSet(f, s \ {x})
  BY <1>1, <1>3, SumSplit
<1>8. \A y \in Image(s) : h[y] \in Nat
  OBVIOUS
<1>9. b[x] \in Image(s)
  BY <1>3
<1>10. SumFunctionOnSet(h, Image(s)) = h[b[x]] + SumFunctionOnSet(h, Image(s) \ {b[x]})
  <2> HIDE DEF Image
  <2> QED BY <1>6, <1>8, <1>9, SumSplit
<1> QED
  BY <1>3, <1>4, <1>5, <1>6, <1>7, <1>10

\* Two sums side by side.
LEMMA SumOfBoth ==
  ASSUME NEW S, IsFiniteSet(S), NEW f, NEW h, NEW k,
         \A x \in S : f[x] \in Nat /\ h[x] \in Nat /\ k[x] = f[x] + h[x]
  PROVE  SumFunctionOnSet(k, S) = SumFunctionOnSet(f, S) + SumFunctionOnSet(h, S)
<1> DEFINE T == {s \in SUBSET S : SumFunctionOnSet(k, s) # SumFunctionOnSet(f, s) + SumFunctionOnSet(h, s)}
<1> SUFFICES ASSUME T # {} PROVE FALSE
  OBVIOUS
<1>1. PICK s \in T : IsFiniteSet(s) /\ \A x \in s : s \ {x} \notin T
  <2>1. T \in SUBSET SUBSET S
    OBVIOUS
  <2> HIDE DEF T
  <2> QED BY <2>1, LeastSubset
<1>2. s # {}
  <2>1. SumFunctionOnSet(k, {}) = SumFunctionOnSet(f, {}) + SumFunctionOnSet(h, {})
    BY SumOfNone
  <2> QED
    BY <2>1
<1> DEFINE x == One(s)
<1>3. /\ x \in s /\ SumFunctionOnSet(f, s) = f[x] + SumFunctionOnSet(f, s \ {x})
      /\ SumFunctionOnSet(h, s) = h[x] + SumFunctionOnSet(h, s \ {x})
      /\ SumFunctionOnSet(k, s) = k[x] + SumFunctionOnSet(k, s \ {x})
  BY <1>1, <1>2, SumByOne
<1>4. SumFunctionOnSet(k, s \ {x}) = SumFunctionOnSet(f, s \ {x}) + SumFunctionOnSet(h, s \ {x})
  BY <1>1, <1>3
<1>5. SumFunctionOnSet(f, s \ {x}) \in Nat /\ SumFunctionOnSet(h, s \ {x}) \in Nat
  BY <1>1, FS_RemoveElement, SumType
<1>6. f[x] \in Nat /\ h[x] \in Nat /\ k[x] = f[x] + h[x]
  BY <1>3
<1>7. SumFunctionOnSet(k, s) # SumFunctionOnSet(f, s) + SumFunctionOnSet(h, s)
  OBVIOUS
<1> HIDE DEF x, T
<1> QED
  BY <1>3, <1>4, <1>5, <1>6, <1>7

-----------------------------------------------------------------------------
(* The inductive invariant. *)

\* What a report being applied is made of.
PollsOf ==
  [phase : {"idle", "touch", "merge", "drop", "show", "close", "weigh"},
   ctx : Contexts \cup {NoContext}, uses : BOOLEAN,
   grams : UNION {[D -> 0..limit.grams] : D \in SUBSET limit.rolls}, half : SUBSET Rolls]
Shaped ==
  /\ limit \in Limits /\ weight \in [Rolls -> -1..limit.grams] /\ polls \in Nat
  /\ sessions \in Seq(Session) /\ poll \in PollsOf
  /\ taken \in [Rolls -> Int] /\ torn \in BOOLEAN

\* A report that tells of a print has its name; a merge has two sessions, one of
\* which is not named, and what is half moved lies in that one.
Touching == {"touch", "merge", "drop", "show", "close"}
Directed ==
  /\ poll.uses \/ poll.phase \in Touching => poll.ctx \in Contexts
  /\ poll.phase \in {"merge", "drop"} => poll.ctx.key # Active /\ Target # 0 /\ Source # 0
  /\ poll.phase \in {"show", "close"} => Target # 0
  /\ (poll.phase = "drop" => sessions[Source].rolls = {})
  /\ poll.half # {} =>
       poll.phase = "merge" /\ \E r \in Rolls : poll.half = {r} /\ r \in sessions[Source].rolls

\* Runs are counted from one up, and no two sessions of a key have the same.  The
\* session without a name that is running has the last number of all that have
\* none: when it goes, the others still number no more than they are.
Numbered(ss) ==
  /\ \A i \in DOMAIN ss : ss[i].run <= Cardinality(Family(ss, ss[i].key))
  /\ \A i, j \in DOMAIN ss : ss[i].key = ss[j].key /\ ss[i].run = ss[j].run => i = j
  /\ \A i \in Ongoing(ss, Active) : ss[i].run = Cardinality(Family(ss, Active))
\* A name has one print running.
OnePerKey(ss) == \A k \in Keys : \A i, j \in Ongoing(ss, k) : i = j
Distinct(ss) == Numbered(ss) /\ OnePerKey(ss)

\* Between the reports one named print is running.
Single(ss) ==
  \A i, j \in DOMAIN ss :
    (ss[i].status = "RUNNING" /\ ss[i].key # Active)
    /\ (ss[j].status = "RUNNING" /\ ss[j].key # Active)
      => i = j
OneJob ==
  ~torn /\ (poll.phase \notin Touching \ {"touch"} \/ poll.ctx.key = Active) => Single(sessions)

\* Only a roll that is listed was used.
Listed(ss) == \A i \in DOMAIN ss, r \in Rolls : r \notin ss[i].rolls => ss[i].used[r] = 0

\* The totals of a merge's sessions make up their rolls' use, one of them counted
\* twice while it is half moved; all other totals are their own rolls' use.
Adds(s) == s.total = SumFunction(s.used)
Totals ==
  ~torn =>
  /\ \A i \in DOMAIN sessions :
       \/ Adds(sessions[i])
       \/ poll.phase = "merge" /\ i \in {Target, Source}
       \/ poll.phase = "drop" /\ i = Source
  /\ poll.phase = "merge" =>
       LET t == sessions[Target]  s == sessions[Source] IN
       SumFunction(t.used) + SumFunction(s.used) =
         t.total + s.total + (IF poll.half = {} THEN 0 ELSE s.used[CHOOSE r \in poll.half : TRUE])
Counts ==
  ~torn => \A r \in Rolls :
    UsedOf(r) <= taken[r] + (IF r \in poll.half THEN sessions[Source].used[r] ELSE 0)

IInv ==
  /\ Shaped /\ Directed /\ Distinct(sessions) /\ OneJob /\ Listed(sessions)
  /\ Totals /\ Counts

-----------------------------------------------------------------------------
(* Numbers, sequences, and the last of a list. *)

LEMMA GreatestNatural ==
  ASSUME NEW T \in SUBSET Nat, T # {}, NEW n \in Nat, \A m \in T : m <= n
  PROVE  \E g \in T : \A m \in T : m <= g
<1> DEFINE D == {k \in Nat : \E m \in T : k = n - m}
<1>1. D \in SUBSET Nat /\ D # {}
  <2>1. PICK m \in T : TRUE
    OBVIOUS
  <2>2. n - m \in D
    BY <2>1
  <2> QED
    BY <2>2
<1>2. PICK d \in D : \A e \in D : d <= e
  <2> HIDE DEF D
  <2> QED BY <1>1, LeastNatural
<1>3. PICK g \in T : d = n - g
  BY <1>2
<1>4. \A m \in T : n - m \in D
  OBVIOUS
<1>5. ASSUME NEW m \in T PROVE m <= g
  <2>1. n - g <= n - m
    BY <1>2, <1>3, <1>4
  <2> QED
    BY <2>1
<1> QED
  BY <1>3, <1>5

LEMMA MaxIs ==
  ASSUME NEW T \in SUBSET Nat, T # {}, NEW n \in Nat, \A m \in T : m <= n
  PROVE  Max(T) \in T /\ \A m \in T : m <= Max(T)
<1>1. PICK g \in T : \A m \in T : m <= g
  BY GreatestNatural
<1>2. \A m \in T : g >= m
  BY <1>1
<1>3. Max(T) \in T /\ \A m \in T : Max(T) >= m
  BY <1>2 DEF Max
<1> QED
  BY <1>3

LEMMA RemovedAt ==
  ASSUME NEW X, NEW ss \in Seq(X), NEW e \in 1..Len(ss)
  PROVE  /\ RemoveAt(ss, e) \in Seq(X) /\ Len(RemoveAt(ss, e)) = Len(ss) - 1
         /\ DOMAIN RemoveAt(ss, e) = 1..(Len(ss) - 1)
         /\ \A i \in 1..(Len(ss) - 1) : RemoveAt(ss, e)[i] = ss[IF i < e THEN i ELSE i + 1]
<1> DEFINE a == SubSeq(ss, 1, e - 1)  b == SubSeq(ss, e + 1, Len(ss))
<1>1. Len(ss) \in Nat /\ \A i \in 1..Len(ss) : ss[i] \in X
  OBVIOUS
<1>2. a \in Seq(X) /\ Len(a) = e - 1 /\ \A i \in 1..(e - 1) : a[i] = ss[i]
  BY <1>1
<1>3. b \in Seq(X) /\ Len(b) = Len(ss) - e /\ \A i \in 1..(Len(ss) - e) : b[i] = ss[i + e]
  BY <1>1
<1>4. RemoveAt(ss, e) = a \o b
  BY Zenon DEF RemoveAt
<1> HIDE DEF a, b
<1>5. a \o b \in Seq(X) /\ Len(a \o b) = Len(a) + Len(b)
  BY <1>2, <1>3, ConcatProperties
<1>6. ASSUME NEW i \in 1..Len(a) + Len(b)
      PROVE  (a \o b)[i] = IF i <= Len(a) THEN a[i] ELSE b[i - Len(a)]
  BY <1>2, <1>3, ConcatProperties
<1>7. Len(a \o b) = Len(ss) - 1 /\ Len(a) + Len(b) = Len(ss) - 1
  BY <1>1, <1>2, <1>3, <1>5
<1>8. ASSUME NEW i \in 1..(Len(ss) - 1) PROVE (a \o b)[i] = ss[IF i < e THEN i ELSE i + 1]
  <2>1. CASE i < e
    BY <2>1, <1>1, <1>2, <1>6, <1>7
  <2>2. CASE ~(i < e)
    <3>0. i \in 1..Len(a) + Len(b) /\ ~(i <= Len(a)) /\ i - Len(a) = i - (e - 1)
      BY <2>2, <1>2, <1>7
    <3>1. (a \o b)[i] = b[i - (e - 1)]
      BY <3>0, <1>6
    <3>2. i - (e - 1) \in 1..(Len(ss) - e) /\ (i - (e - 1)) + e = i + 1
      BY <2>2, <1>1
    <3> QED
      BY <3>1, <3>2, <1>3, <2>2
  <2> QED
    BY <2>1, <2>2
<1>9. DOMAIN (a \o b) = 1..(Len(ss) - 1)
  BY <1>5, <1>7
<1> QED
  BY <1>4, <1>5, <1>7, <1>8, <1>9, Zenon

-----------------------------------------------------------------------------
(* The sessions of a key, and the grams of a roll. *)

LEMMA ListDomain ==
  ASSUME NEW ss \in Seq(Session)
  PROVE  /\ DOMAIN ss = 1..Len(ss) /\ Len(ss) \in Nat /\ IsFiniteSet(DOMAIN ss)
         /\ \A i \in DOMAIN ss : ss[i] \in Session
<1>1. DOMAIN ss = 1..Len(ss) /\ Len(ss) \in Nat /\ \A i \in DOMAIN ss : ss[i] \in Session
  OBVIOUS
<1> QED
  BY <1>1, FS_Interval

\* The current session of a key is one of its running ones, if there is any.
LEMMA CurrentIs ==
  ASSUME NEW ss \in Seq(Session), NEW k
  PROVE  /\ Current(ss, k) # 0 <=> Ongoing(ss, k) # {}
         /\ Current(ss, k) # 0 => /\ Current(ss, k) \in Ongoing(ss, k)
                                  /\ Current(ss, k) \in DOMAIN ss
                                  /\ ss[Current(ss, k)].key = k
                                  /\ ss[Current(ss, k)].status = "RUNNING"
<1>1. Ongoing(ss, k) \in SUBSET Nat /\ 0 \notin Ongoing(ss, k)
      /\ \A i \in Ongoing(ss, k) : i <= Len(ss) /\ i \in DOMAIN ss
  BY ListDomain DEF Ongoing, Family
<1>2. Len(ss) \in Nat
  BY ListDomain
<1>3. Ongoing(ss, k) # {} => Max(Ongoing(ss, k)) \in Ongoing(ss, k)
  BY <1>1, <1>2, MaxIs
<1>4. Current(ss, k) # 0 <=> Ongoing(ss, k) # {}
  BY <1>1, <1>3 DEF Current
<1>5. Current(ss, k) # 0 => Current(ss, k) \in Ongoing(ss, k)
  BY <1>1, <1>3 DEF Current
<1> QED
  BY <1>1, <1>4, <1>5 DEF Ongoing, Family

LEMMA SessionIs ==
  ASSUME NEW s \in Session
  PROVE  /\ s.key \in Keys /\ s.run \in Nat \ {0}
         /\ s.status \in {"RUNNING", "COMPLETED", "FAILED"}
         /\ s.total \in Nat /\ s.rolls \in SUBSET Rolls /\ s.used \in [Rolls -> Nat]
         /\ s.seen \in 0..polls /\ s.done \in 0..polls /\ s.recent \in BOOLEAN
BY DEF Session

\* The last one seen is one of them.
LEMMA LatestIs ==
  ASSUME polls \in Nat, NEW ss \in Seq(Session), NEW k, Family(ss, k) # {}
  PROVE  Latest(ss, k) \in Family(ss, k) /\ Latest(ss, k) \in DOMAIN ss
<1> DEFINE F == Family(ss, k)
           Times == {n \in Nat : \E i \in F : ss[i].seen = n}
<1>1. F \in SUBSET Nat /\ \A i \in F : i \in DOMAIN ss /\ i <= Len(ss)
  BY ListDomain DEF Family
<1>2. \A i \in F : ss[i].seen \in 0..polls /\ ss[i].seen \in Nat /\ ss[i].seen <= polls
  <2>1. \A i \in F : ss[i] \in Session
    BY <1>1, ListDomain
  <2>2. \A i \in F : ss[i].seen \in 0..polls
    BY <2>1, SessionIs
  <2> QED
    BY <2>2
<1>3. PICK n \in Times : \A m \in Times : m <= n
  <2>1. PICK i \in F : TRUE
    OBVIOUS
  <2>2. Times \in SUBSET Nat /\ Times # {} /\ polls \in Nat /\ \A m \in Times : m <= polls
    BY <1>2, <2>1
  <2> HIDE DEF Times
  <2> QED
    BY <2>2, GreatestNatural
<1> DEFINE G == {i \in F : ss[i].seen = n}
<1>4. G \in SUBSET Nat /\ G # {} /\ Len(ss) \in Nat /\ \A i \in G : i <= Len(ss)
  BY <1>1, <1>3, ListDomain
<1>5. PICK i \in G : \A j \in G : j <= i
  <2> HIDE DEF G
  <2> QED BY <1>4, GreatestNatural
<1>6. \A j \in F : ss[j].seen \in Times
  BY <1>2
<1>7. ASSUME NEW j \in F PROVE ss[j].seen < ss[i].seen \/ (ss[j].seen = ss[i].seen /\ j <= i)
  <2>1. ss[j].seen <= n /\ ss[j].seen \in Nat /\ n \in Nat /\ ss[i].seen = n
    BY <1>2, <1>3, <1>5, <1>6
  <2>2. CASE ss[j].seen = n
    BY <2>2, <1>5
  <2> QED
    BY <2>1, <2>2
<1>8. \E l \in F : \A j \in F : ss[j].seen < ss[l].seen \/ (ss[j].seen = ss[l].seen /\ j <= l)
  BY <1>5, <1>7
<1>9. Latest(ss, k) \in F
  BY <1>8 DEF Latest
<1> QED
  BY <1>1, <1>9

\* The grams that the sessions of a list used of a roll.
UseOf(ss, r) == SumFunction([i \in DOMAIN ss |-> ss[i].used[r]])

LEMMA UsesAreNat ==
  ASSUME NEW ss \in Seq(Session), NEW r \in Rolls
  PROVE  /\ \A i \in DOMAIN ss : ss[i].used[r] \in Nat
         /\ UseOf(ss, r) \in Nat
<1> DEFINE f == [i \in DOMAIN ss |-> ss[i].used[r]]
<1>1. \A i \in DOMAIN ss : ss[i].used[r] \in Nat
  BY ListDomain, SessionIs
<1>2. SumFunctionOnSet(f, DOMAIN ss) \in Nat
  BY <1>1, ListDomain, SumType
<1>3. DOMAIN f = DOMAIN ss
  OBVIOUS
<1> QED
  BY <1>1, <1>2, <1>3 DEF UseOf, SumFunction

\* One session uses more or less.
LEMMA UseChanged ==
  ASSUME NEW ss \in Seq(Session), NEW tt, DOMAIN tt = DOMAIN ss, NEW r \in Rolls,
         NEW e \in DOMAIN ss, tt[e].used[r] \in Nat,
         \A i \in DOMAIN ss \ {e} : tt[i].used[r] = ss[i].used[r]
  PROVE  UseOf(tt, r) = UseOf(ss, r) - ss[e].used[r] + tt[e].used[r]
<1> DEFINE S == DOMAIN ss
           f == [i \in DOMAIN ss |-> ss[i].used[r]]
           h == [i \in DOMAIN tt |-> tt[i].used[r]]
<1>1. e \in S /\ IsFiniteSet(S)
  BY ListDomain
<1>2. \A i \in S : f[i] \in Nat
  BY UsesAreNat
<1>3. h[e] \in Nat
  OBVIOUS
<1>4. \A i \in S \ {e} : h[i] = f[i]
  OBVIOUS
<1>5. f[e] = ss[e].used[r] /\ h[e] = tt[e].used[r] /\ DOMAIN f = S /\ DOMAIN h = S
  OBVIOUS
<1> HIDE DEF f, h, S
<1>6. SumFunctionOnSet(h, S) = SumFunctionOnSet(f, S) - f[e] + h[e]
  BY ONLY <1>1, <1>2, <1>3, <1>4, SumChange
<1> QED
  BY <1>5, <1>6 DEF UseOf, SumFunction, f, h

LEMMA UseKept ==
  ASSUME NEW ss \in Seq(Session), NEW tt, DOMAIN tt = DOMAIN ss, NEW r \in Rolls,
         \A i \in DOMAIN ss : tt[i].used[r] = ss[i].used[r]
  PROVE  UseOf(tt, r) = UseOf(ss, r)
<1>1. [i \in DOMAIN tt |-> tt[i].used[r]] = [i \in DOMAIN ss |-> ss[i].used[r]]
  OBVIOUS
<1> QED
  BY <1>1 DEF UseOf

\* A session without use more; a session less.
LEMMA UseAppended ==
  ASSUME NEW ss \in Seq(Session), NEW s, s.used = [r \in Rolls |-> 0], NEW r \in Rolls
  PROVE  UseOf(Append(ss, s), r) = UseOf(ss, r)
<1> DEFINE tt == Append(ss, s)
           f == [i \in DOMAIN ss |-> ss[i].used[r]]
           h == [i \in DOMAIN tt |-> tt[i].used[r]]
           n == Len(ss) + 1
<1>1. DOMAIN tt = 1..n /\ tt[n] = s /\ \A i \in DOMAIN ss : tt[i] = ss[i]
  BY ListDomain
<1>2. DOMAIN ss = 1..n \ {n} /\ n \in 1..n /\ IsFiniteSet(1..n)
  <2>1. DOMAIN ss = 1..Len(ss) /\ Len(ss) \in Nat
    BY ListDomain
  <2>2. n \in Nat /\ IsFiniteSet(1..n)
    BY <2>1, FS_Interval
  <2> QED
    BY <2>1, <2>2
<1>3. h[n] = 0 /\ \A i \in DOMAIN ss : h[i] = f[i] /\ f[i] \in Nat
  BY <1>1, <1>2, UsesAreNat
<1>4. DOMAIN f = DOMAIN ss /\ DOMAIN h = 1..n
  BY <1>1
<1> HIDE DEF f, h, n
<1>5. SumFunctionOnSet(h, 1..n) = h[n] + SumFunctionOnSet(h, 1..n \ {n})
  BY <1>2, <1>3, SumSplit
<1>6. SumFunctionOnSet(h, DOMAIN ss) = SumFunctionOnSet(f, DOMAIN ss)
  BY <1>3, ListDomain, SumCongruent
<1>7. SumFunctionOnSet(f, DOMAIN ss) \in Nat
  BY <1>3, ListDomain, SumType
<1>8. SumFunction(h) = SumFunction(f)
  BY <1>2, <1>3, <1>4, <1>5, <1>6, <1>7 DEF SumFunction
<1> QED
  BY <1>8 DEF UseOf, f, h

\* Without a session, a roll has been used that much less.
LEMMA UseRemoved ==
  ASSUME NEW ss \in Seq(Session), NEW e \in DOMAIN ss, NEW r \in Rolls
  PROVE  UseOf(RemoveAt(ss, e), r) = UseOf(ss, r) - ss[e].used[r]
<1> DEFINE tt == RemoveAt(ss, e)
           f == [i \in DOMAIN ss |-> ss[i].used[r]]
           h == [i \in DOMAIN tt |-> tt[i].used[r]]
           b == [i \in DOMAIN tt |-> IF i < e THEN i ELSE i + 1]
           D == DOMAIN ss \ {e}
<1>1. /\ DOMAIN tt = 1..(Len(ss) - 1) /\ \A i \in DOMAIN tt : tt[i] = ss[b[i]]
      /\ DOMAIN ss = 1..Len(ss) /\ Len(ss) \in Nat /\ e \in 1..Len(ss)
  <2>1. DOMAIN ss = 1..Len(ss) /\ Len(ss) \in Nat /\ e \in 1..Len(ss)
    BY ListDomain
  <2>2. /\ DOMAIN tt = 1..(Len(ss) - 1)
        /\ \A i \in 1..(Len(ss) - 1) : tt[i] = ss[IF i < e THEN i ELSE i + 1]
    BY <2>1, RemovedAt
  <2> QED
    BY <2>1, <2>2
<1>2. IsFiniteSet(DOMAIN tt)
  BY <1>1, FS_Interval
<1>3. D = {b[i] : i \in DOMAIN tt}
  <2>1. \A i \in DOMAIN tt : b[i] \in D
    BY <1>1
  <2>2. ASSUME NEW j \in D PROVE \E i \in DOMAIN tt : b[i] = j
    <3>1. CASE j < e
      BY <3>1, <1>1
    <3>2. CASE j > e
      <4>1. j - 1 \in DOMAIN tt /\ b[j - 1] = j
        BY <3>2, <1>1
      <4> QED
        BY <4>1
    <3> QED
      BY <3>1, <3>2, <1>1
  <2> QED
    BY <2>1, <2>2
<1>4. \A i, j \in DOMAIN tt : b[i] = b[j] => i = j
  BY <1>1
<1>5. \A i \in DOMAIN tt : h[i] \in Nat /\ f[b[i]] = h[i]
  <2>1. \A i \in DOMAIN tt : b[i] \in DOMAIN ss
    BY <1>1
  <2> QED
    BY <2>1, <1>1, UsesAreNat
<1>6. \A i \in DOMAIN ss : f[i] \in Nat
  BY UsesAreNat
<1>7. f[e] = ss[e].used[r] /\ DOMAIN f = DOMAIN ss /\ DOMAIN h = DOMAIN tt
  OBVIOUS
<1> HIDE DEF tt, f, h, b
<1>8. SumFunctionOnSet(f, {b[i] : i \in DOMAIN tt}) = SumFunctionOnSet(h, DOMAIN tt)
  BY <1>2, <1>4, <1>5, SumRenamed
<1>9. SumFunctionOnSet(f, DOMAIN ss) = f[e] + SumFunctionOnSet(f, D)
  BY <1>6, ListDomain, SumSplit
<1>10. f[e] \in Nat /\ SumFunctionOnSet(h, DOMAIN tt) \in Nat
  BY <1>2, <1>5, <1>6, SumType
<1>11. SumFunction(h) = SumFunction(f) - f[e]
  <2> HIDE DEF D
  <2>1. SumFunctionOnSet(f, D) = SumFunctionOnSet(h, DOMAIN tt)
    BY <1>3, <1>8
  <2> QED
  BY <2>1, <1>7, <1>8, <1>9, <1>10 DEF SumFunction
<1> QED
  BY <1>7, <1>11 DEF UseOf, tt, f, h

-----------------------------------------------------------------------------
(* What the statements do to one session. *)

SameName(s, t) == t.key = s.key /\ t.run = s.run
SameEnd(s, t) == t.status = s.status /\ t.done = s.done /\ t.recent = s.recent
SameUse(s, t) == t.total = s.total /\ t.rolls = s.rolls /\ t.used = s.used
\* t is s with g grams more of a roll.
MoreUse(s, t, r, g) ==
  /\ t.rolls = s.rolls \cup {r} /\ t.used[r] = s.used[r] + g
  /\ \A x \in Rolls \ {r} : t.used[x] = s.used[x]

LEMMA SeenIs ==
  ASSUME polls \in Nat, NEW s \in Session
  PROVE  /\ Seen(s) \in Session /\ SameName(s, Seen(s)) /\ SameEnd(s, Seen(s))
         /\ SameUse(s, Seen(s))
         /\ Seen(s).seen = polls
BY DEF Seen, Session, SameName, SameEnd, SameUse

LEMMA AddedIs ==
  ASSUME NEW s \in Session, NEW r \in Rolls, NEW g \in Nat
  PROVE  /\ Added(s, r, g) \in Session
         /\ SameName(s, Added(s, r, g)) /\ SameEnd(s, Added(s, r, g))
         /\ Added(s, r, g).total = s.total /\ MoreUse(s, Added(s, r, g), r, g)
<1> DEFINE u == [s.used EXCEPT ![r] = s.used[r] + g]
           w == s.rolls \cup {r}
<1>1. s.used \in [Rolls -> Nat] /\ s.rolls \in SUBSET Rolls
  BY SessionIs
<1>2. /\ u \in [Rolls -> Nat] /\ w \in SUBSET Rolls /\ u[r] = s.used[r] + g
      /\ \A x \in Rolls \ {r} : u[x] = s.used[x]
  BY <1>1
<1>3. Added(s, r, g) = [s EXCEPT !.rolls = w, !.used = u]
  BY <1>1 DEF Added, Session
<1> DEFINE t == [s EXCEPT !.rolls = w, !.used = u]
<1> HIDE DEF u
<1>4. t \in Session /\ SameName(s, t) /\ SameEnd(s, t) /\ t.total = s.total /\ t.rolls = w
      /\ t.used = u
  BY <1>2 DEF Session, SameName, SameEnd
<1> HIDE DEF t
<1>5. MoreUse(s, t, r, g)
  BY <1>2, <1>4 DEF MoreUse
<1> QED
  BY <1>3, <1>4, <1>5 DEF t

LEMMA DroppedIs ==
  ASSUME NEW s \in Session, NEW r \in Rolls
  PROVE  LET t == [s EXCEPT !.rolls = @ \ {r}, !.used[r] = 0] IN
         /\ t \in Session /\ SameName(s, t) /\ SameEnd(s, t) /\ t.total = s.total
         /\ t.rolls = s.rolls \ {r} /\ t.used[r] = 0 /\ \A x \in Rolls \ {r} : t.used[x] = s.used[x]
BY DEF Session, SameName, SameEnd

LEMMA CountedIs ==
  ASSUME polls \in Nat, NEW s \in Session, NEW g \in Nat
  PROVE  LET t == Counted(s, g) IN
         /\ t \in Session /\ SameName(s, t) /\ SameEnd(s, t) /\ t.total = s.total + g
         /\ t.rolls = s.rolls /\ t.used = s.used
<1> DEFINE a == Seen(s)  t == [a EXCEPT !.total = @ + g]
<1>1. a \in Session /\ SameName(s, a) /\ SameEnd(s, a) /\ SameUse(s, a)
  BY SeenIs
<1>2. Counted(s, g) = t
  BY DEF Counted
<1> HIDE DEF a
<1>3. /\ t \in Session /\ SameName(a, t) /\ SameEnd(a, t) /\ t.total = a.total + g
      /\ t.rolls = a.rolls /\ t.used = a.used
  BY <1>1 DEF Session, SameName, SameEnd
<1> HIDE DEF t
<1> QED
  BY <1>1, <1>2, <1>3 DEF SameName, SameEnd, SameUse

LEMMA EndedIs ==
  ASSUME polls \in Nat, NEW s \in Session, NEW success \in BOOLEAN
  PROVE  /\ Ended(s, success) \in Session /\ SameName(s, Ended(s, success))
         /\ SameUse(s, Ended(s, success)) /\ Ended(s, success).status # "RUNNING"
<1> DEFINE how == IF success THEN "COMPLETED" ELSE "FAILED"
           t == [s EXCEPT !.status = how, !.recent = success, !.done = polls, !.seen = polls]
<1>1. how \in {"COMPLETED", "FAILED"} /\ how # "RUNNING"
  OBVIOUS
<1>2. Ended(s, success) = t
  BY DEF Ended
<1> HIDE DEF how
<1>3. SameName(s, t) /\ SameUse(s, t) /\ t.status = how
  BY DEF Session, SameName, SameUse
<1>4. polls \in 0..polls
  OBVIOUS
<1>5. ASSUME NEW p \in 0..polls
      PROVE  [s EXCEPT !.status = how, !.recent = success, !.done = p, !.seen = p] \in Session
  BY <1>1 DEF Session
<1>6. t \in Session
  BY <1>4, <1>5
<1> QED
  BY <1>1, <1>2, <1>3, <1>6

LEMMA NamedIs ==
  ASSUME NEW s \in Session, NEW k \in Keys, NEW n \in Nat \ {0}
  PROVE  LET t == [s EXCEPT !.key = k, !.run = n] IN
         /\ t \in Session /\ t.key = k /\ t.run = n /\ SameEnd(s, t) /\ SameUse(s, t)
BY DEF Session, SameEnd, SameUse

LEMMA FamilyIs ==
  ASSUME NEW ss \in Seq(Session), NEW k
  PROVE  /\ Family(ss, k) \in SUBSET DOMAIN ss /\ IsFiniteSet(Family(ss, k))
         /\ Cardinality(Family(ss, k)) \in Nat /\ Run(ss, k) \in Nat \ {0}
<1>1. Family(ss, k) \in SUBSET DOMAIN ss
  BY DEF Family
<1>2. IsFiniteSet(Family(ss, k))
  BY <1>1, ListDomain, FS_Subset
<1>3. Cardinality(Family(ss, k)) \in Nat
  BY <1>2, FS_CardinalityType
<1> QED
  BY <1>1, <1>2, <1>3 DEF Run

LEMMA NewIs ==
  ASSUME polls \in Nat, NEW ss \in Seq(Session), NEW k \in Keys
  PROVE  /\ New(ss, k) \in Session /\ New(ss, k).key = k /\ New(ss, k).run = Run(ss, k)
         /\ New(ss, k).status = "RUNNING" /\ New(ss, k).total = 0
         /\ New(ss, k).used = [r \in Rolls |-> 0]
<1>1. Run(ss, k) \in Nat \ {0}
  BY FamilyIs
<1> HIDE DEF Run
<1> QED
  BY <1>1 DEF New, Session

LEMMA JoinedIs ==
  ASSUME NEW s \in Session, NEW t \in Session
  PROVE  LET j == [s EXCEPT !.rolls = @ \cup t.rolls, !.used = [r \in Rolls |-> @[r] + t.used[r]]] IN
         /\ j \in Session /\ SameName(s, j) /\ SameEnd(s, j) /\ j.total = s.total
         /\ j.rolls = s.rolls \cup t.rolls /\ j.used = [r \in Rolls |-> s.used[r] + t.used[r]]
<1>1. s.used \in [Rolls -> Nat] /\ t.used \in [Rolls -> Nat] /\ t.rolls \in SUBSET Rolls
  BY SessionIs
<1> DEFINE u == [r \in Rolls |-> s.used[r] + t.used[r]]
           w == s.rolls \cup t.rolls
<1>2. u \in [Rolls -> Nat] /\ w \in SUBSET Rolls
  BY <1>1, SessionIs
<1> HIDE DEF u, w
<1>3. LET j == [s EXCEPT !.rolls = w, !.used = u] IN
      j \in Session /\ SameName(s, j) /\ SameEnd(s, j) /\ j.total = s.total /\ j.rolls = w
      /\ j.used = u
  BY <1>2 DEF Session, SameName, SameEnd
<1> QED
  BY <1>3 DEF u, w

\* A late drop adds as much to the roll as to the total.
LEMMA LateIs ==
  ASSUME polls \in Nat, NEW s \in Session, NEW r \in Rolls, NEW d \in Nat
  PROVE  LET t == Counted(Added(s, r, d), d) IN
         /\ t \in Session /\ SameName(s, t) /\ SameEnd(s, t)
         /\ t.total = s.total + d /\ MoreUse(s, t, r, d)
<1> DEFINE a == Added(s, r, d)  t == Counted(a, d)
<1>1. /\ a \in Session /\ SameName(s, a) /\ SameEnd(s, a) /\ a.total = s.total
      /\ MoreUse(s, a, r, d)
  BY AddedIs
<1> HIDE DEF a
<1>2. /\ t \in Session /\ SameName(a, t) /\ SameEnd(a, t) /\ t.total = a.total + d
      /\ t.rolls = a.rolls /\ t.used = a.used
  BY <1>1, CountedIs
<1> HIDE DEF t
<1>3. /\ t \in Session /\ SameName(s, t) /\ SameEnd(s, t) /\ t.total = s.total + d
      /\ MoreUse(s, t, r, d)
  BY <1>1, <1>2 DEF SameName, SameEnd, MoreUse
<1> QED
  BY <1>3 DEF t, a

LEMMA RecordedIs ==
  ASSUME polls \in Nat, NEW s \in Session, NEW c, NEW r \in Rolls, NEW d \in Nat
  PROVE  LET t == Recorded(s, c, r, d) IN
         /\ t \in Session /\ SameName(s, t) /\ SameEnd(s, t)
         /\ \E g \in {0, d} : t.total = s.total + g /\ MoreUse(s, t, r, g)
<1>1. CASE Defers(c, s, r, d)
  <2> DEFINE a == Added(s, r, 0)  t == Seen(a)
  <2>1. /\ a \in Session /\ SameName(s, a) /\ SameEnd(s, a) /\ a.total = s.total
        /\ MoreUse(s, a, r, 0)
    BY AddedIs
  <2> HIDE DEF a
  <2>2. t \in Session /\ SameName(a, t) /\ SameEnd(a, t) /\ SameUse(a, t)
    BY <2>1, SeenIs
  <2>3. s.total \in Nat
    BY SessionIs
  <2>4. Recorded(s, c, r, d) = t
    BY <1>1 DEF Recorded, a
  <2> HIDE DEF t
  <2>5. t \in Session /\ SameName(s, t) /\ SameEnd(s, t) /\ t.total = s.total + 0
        /\ MoreUse(s, t, r, 0)
    BY <2>1, <2>2, <2>3 DEF SameName, SameEnd, SameUse, MoreUse
  <2> QED
    BY <2>4, <2>5
<1>2. CASE ~Defers(c, s, r, d)
  <2>1. Recorded(s, c, r, d) = Counted(Added(s, r, d), d)
    BY <1>2 DEF Recorded
  <2> QED
    BY <2>1, LateIs
<1> QED
  BY <1>1, <1>2

\* A correction takes back what the weight went up by.
LEMMA CorrectionIs ==
  ASSUME polls \in Nat, NEW s \in Session, NEW r \in Rolls, NEW g \in Nat, weight[r] \in Int, g > weight[r],
         Corrected(s, r, g) > 0
  PROVE  LET t == Correction(s, r, g)  less == g - weight[r] IN
         /\ t \in Session /\ SameName(s, t) /\ SameEnd(s, t) /\ t.rolls = s.rolls
         /\ t.used[r] = s.used[r] - less /\ \A x \in Rolls \ {r} : t.used[x] = s.used[x]
         /\ t.total <= s.total /\ (s.used[r] <= s.total => t.total = s.total - less)
<1> DEFINE less == s.used[r] - Corrected(s, r, g)
<1>1. s.used \in [Rolls -> Nat] /\ s.total \in Nat
  BY SessionIs
<1>2. less = g - weight[r] /\ less \in Nat /\ less < s.used[r]
  BY <1>1 DEF Corrected
<1> DEFINE a == Seen(s)
<1>3. a \in Session /\ SameName(s, a) /\ SameEnd(s, a) /\ SameUse(s, a)
  BY SeenIs
<1>4. Correction(s, r, g) =
        [a EXCEPT !.used[r] = @ - less, !.total = IF @ > less THEN @ - less ELSE 0]
  BY DEF Correction
<1> HIDE DEF less, a
<1> DEFINE t == [a EXCEPT !.used[r] = @ - less, !.total = IF @ > less THEN @ - less ELSE 0]
           u == [a.used EXCEPT ![r] = a.used[r] - less]
           n == IF a.total > less THEN a.total - less ELSE 0
<1>5. a.used \in [Rolls -> Nat] /\ a.total \in Nat /\ a.used = s.used /\ a.total = s.total
  BY <1>1, <1>3 DEF SameUse
<1>6. a.used[r] - less \in Nat
  BY <1>2, <1>5
<1>7. t = [a EXCEPT !.used = u, !.total = n]
  BY <1>3, <1>5 DEF Session
<1>8. /\ u \in [Rolls -> Nat] /\ u[r] = s.used[r] - less
      /\ \A x \in Rolls \ {r} : u[x] = s.used[x]
  BY <1>5, <1>6
<1>9. n \in Nat /\ n <= s.total /\ (s.used[r] <= s.total => n = s.total - less)
  BY <1>1, <1>2, <1>5
<1> HIDE DEF t, u, n
<1>10. t \in Session /\ SameName(a, t) /\ SameEnd(a, t) /\ t.rolls = a.rolls /\ t.total = n
       /\ t.used = u
  BY <1>3, <1>7, <1>8, <1>9 DEF Session, SameName, SameEnd
<1>11. SameName(s, t) /\ SameEnd(s, t) /\ t.rolls = s.rolls
  BY <1>3, <1>10 DEF SameName, SameEnd, SameUse
<1>12. /\ t.used[r] = s.used[r] - (g - weight[r]) /\ \A x \in Rolls \ {r} : t.used[x] = s.used[x]
       /\ t.total <= s.total /\ (s.used[r] <= s.total => t.total = s.total - (g - weight[r]))
  BY <1>2, <1>8, <1>9, <1>10
<1> QED
  BY <1>4, <1>10, <1>11, <1>12 DEF t

-----------------------------------------------------------------------------
(* What the statements do to a list of sessions. *)

\* The same sessions under the same names; none runs that did not.
Alike(ss, tt) ==
  /\ DOMAIN tt = DOMAIN ss
  /\ \A i \in DOMAIN ss : SameName(ss[i], tt[i])
  /\ \A i \in DOMAIN ss : tt[i].status = "RUNNING" => ss[i].status = "RUNNING"
\* Nor has any ended.
Level(ss, tt) == Alike(ss, tt) /\ \A i \in DOMAIN ss : tt[i].status = ss[i].status

LEMMA AlikeIs ==
  ASSUME NEW ss, NEW tt, Alike(ss, tt)
  PROVE  /\ \A k : Family(tt, k) = Family(ss, k) /\ Ongoing(tt, k) \subseteq Ongoing(ss, k)
         /\ Distinct(ss) => Distinct(tt)
         /\ Single(ss) => Single(tt)
<1>1. \A k : Family(tt, k) = Family(ss, k) /\ Ongoing(tt, k) \subseteq Ongoing(ss, k)
  BY DEF Alike, SameName, Family, Ongoing
<1>2. Single(ss) => Single(tt)
  BY DEF Alike, SameName, Single
<1>3. OnePerKey(ss) => OnePerKey(tt)
  BY <1>1 DEF OnePerKey
<1>4. ASSUME Numbered(ss) PROVE Numbered(tt)
  <2>1. ASSUME NEW i \in DOMAIN tt PROVE tt[i].run <= Cardinality(Family(tt, tt[i].key))
    BY <1>1, <1>4 DEF Alike, SameName, Numbered
  <2>2. ASSUME NEW i \in DOMAIN tt, NEW j \in DOMAIN tt, tt[i].key = tt[j].key, tt[i].run = tt[j].run
        PROVE  i = j
    BY <2>2, <1>4 DEF Alike, SameName, Numbered
  <2>3. ASSUME NEW i \in Ongoing(tt, Active) PROVE tt[i].run = Cardinality(Family(tt, Active))
    <3>1. i \in Ongoing(ss, Active) /\ i \in DOMAIN ss
      BY <1>1 DEF Ongoing, Family
    <3> QED
      BY <3>1, <1>1, <1>4 DEF Alike, SameName, Numbered
  <2> QED
    BY <2>1, <2>2, <2>3 DEF Numbered
<1> QED
  BY <1>1, <1>2, <1>3, <1>4 DEF Distinct

LEMMA LevelIs ==
  ASSUME NEW ss, NEW tt, Level(ss, tt)
  PROVE  \A k : Ongoing(tt, k) = Ongoing(ss, k) /\ Current(tt, k) = Current(ss, k)
<1>1. \A k : Ongoing(tt, k) = Ongoing(ss, k)
  BY DEF Level, Alike, SameName, Family, Ongoing
<1> QED
  BY <1>1 DEF Current

\* What has ended stays; no gram comes or goes.
Retained(ss, tt) ==
  \A i \in DOMAIN ss : ss[i].status # "RUNNING" => \E j \in DOMAIN tt : tt[j] = ss[i]
SameUses(ss, tt) == \A r \in Rolls : UseOf(tt, r) = UseOf(ss, r)
Balanced(ss) == \A i \in DOMAIN ss : Adds(ss[i])
Sound(ss) == ss \in Seq(Session) /\ Distinct(ss) /\ Listed(ss)
Steady(ss, tt) ==
  Sound(tt) /\ Retained(ss, tt) /\ SameUses(ss, tt) /\ (Balanced(ss) => Balanced(tt))

LEMMA SteadyTwice ==
  ASSUME NEW ss, NEW tt, NEW uu, Steady(ss, tt), Steady(tt, uu)
  PROVE  Steady(ss, uu)
<1>1. Retained(ss, uu)
  <2> SUFFICES ASSUME NEW i \in DOMAIN ss, ss[i].status # "RUNNING"
               PROVE  \E j \in DOMAIN uu : uu[j] = ss[i]
    BY DEF Retained
  <2>1. PICK j \in DOMAIN tt : tt[j] = ss[i]
    BY DEF Steady, Retained
  <2>2. PICK l \in DOMAIN uu : uu[l] = tt[j]
    BY <2>1 DEF Steady, Retained
  <2> QED
    BY <2>1, <2>2
<1> QED
  BY <1>1 DEF Steady, SameUses

LEMMA AddsAgain ==
  ASSUME NEW s, NEW t, SameUse(s, t), Adds(s)
  PROVE  Adds(t)
BY DEF SameUse, Adds

\* An update that changes what only a running session says.
LEMMA QuietIs ==
  ASSUME NEW ss, Sound(ss), NEW tt \in Seq(Session), Alike(ss, tt),
         \A i \in DOMAIN ss : SameUse(ss[i], tt[i]),
         \A i \in DOMAIN ss : ss[i].status # "RUNNING" => tt[i] = ss[i]
  PROVE  Steady(ss, tt) /\ (Single(ss) => Single(tt))
<1>1. DOMAIN tt = DOMAIN ss /\ ss \in Seq(Session)
  BY DEF Alike, Sound
<1>2. Distinct(tt) /\ (Single(ss) => Single(tt))
  BY AlikeIs DEF Sound
<1>3. Listed(tt)
  BY <1>1 DEF Sound, Listed, SameUse
<1>4. Retained(ss, tt)
  BY <1>1 DEF Retained
<1>5. SameUses(ss, tt)
  <2> SUFFICES ASSUME NEW r \in Rolls PROVE UseOf(tt, r) = UseOf(ss, r)
    BY DEF SameUses
  <2>1. \A i \in DOMAIN ss : tt[i].used[r] = ss[i].used[r]
    BY DEF SameUse
  <2> QED
    BY <2>1, <1>1, UseKept
<1>6. Balanced(ss) => Balanced(tt)
  BY <1>1, AddsAgain DEF Balanced
<1> QED
  BY <1>2, <1>3, <1>4, <1>5, <1>6 DEF Steady, Sound

LEMMA UpdatedIs ==
  ASSUME NEW ss \in Seq(Session), NEW e \in DOMAIN ss, NEW s \in Session
  PROVE  /\ [ss EXCEPT ![e] = s] \in Seq(Session) /\ DOMAIN [ss EXCEPT ![e] = s] = DOMAIN ss
         /\ [ss EXCEPT ![e] = s][e] = s
         /\ \A i \in DOMAIN ss \ {e} : [ss EXCEPT ![e] = s][i] = ss[i]
<1>1. e \in 1..Len(ss)
  BY ListDomain
<1>2. [ss EXCEPT ![e] = s] \in Seq(Session)
  BY <1>1, ExceptSeq
<1> QED
  BY <1>2

LEMMA ShownIs ==
  ASSUME polls \in Nat, NEW ss, Sound(ss), NEW k, Current(ss, k) # 0
  PROVE  /\ Steady(ss, Shown(ss, k)) /\ Level(ss, Shown(ss, k))
         /\ Single(ss) => Single(Shown(ss, k))
         /\ \A i \in DOMAIN ss : SameUse(ss[i], Shown(ss, k)[i]) /\ SameEnd(ss[i], Shown(ss, k)[i])
<1> DEFINE e == Current(ss, k)  tt == [ss EXCEPT ![e] = Seen(ss[e])]
<1>1. ss \in Seq(Session) /\ e \in DOMAIN ss /\ ss[e].status = "RUNNING" /\ ss[e] \in Session
  BY CurrentIs, ListDomain DEF Sound
<1>2. /\ Seen(ss[e]) \in Session /\ SameName(ss[e], Seen(ss[e]))
      /\ SameEnd(ss[e], Seen(ss[e])) /\ SameUse(ss[e], Seen(ss[e]))
  BY <1>1, SeenIs
<1>3. Shown(ss, k) = tt
  BY DEF Shown
<1> HIDE DEF e
<1>4. /\ tt \in Seq(Session) /\ DOMAIN tt = DOMAIN ss /\ tt[e] = Seen(ss[e])
      /\ \A i \in DOMAIN ss \ {e} : tt[i] = ss[i]
  BY <1>1, <1>2, UpdatedIs
<1> HIDE DEF tt
<1>5. \A i \in DOMAIN ss : SameName(ss[i], tt[i]) /\ SameEnd(ss[i], tt[i]) /\ SameUse(ss[i], tt[i])
  BY <1>2, <1>4 DEF SameName, SameEnd, SameUse
<1>6. Level(ss, tt) /\ Alike(ss, tt)
  BY <1>4, <1>5 DEF Level, Alike, SameEnd
<1>7. \A i \in DOMAIN ss : ss[i].status # "RUNNING" => tt[i] = ss[i]
  BY <1>1, <1>4
<1>8. Steady(ss, tt) /\ (Single(ss) => Single(tt))
  BY <1>4, <1>5, <1>6, <1>7, QuietIs
<1> QED
  BY <1>3, <1>5, <1>6, <1>8

LEMMA ClosedIs ==
  ASSUME polls \in Nat, NEW ss, Sound(ss), NEW k \in Keys
  PROVE  /\ Steady(ss, Closed(ss, k)) /\ Alike(ss, Closed(ss, k))
         /\ Single(ss) \/ k # Active => Single(Closed(ss, k))
         /\ Current(ss, k) # 0 => Current(Closed(ss, k), k) # 0
<1> DEFINE tt == Closed(ss, k)
<1>1. ss \in Seq(Session) /\ DOMAIN tt = DOMAIN ss
  BY DEF Sound, Closed
<1>2. ASSUME NEW i \in DOMAIN ss
      PROVE  \/ /\ k # Active /\ ss[i].key # k /\ ss[i].status = "RUNNING"
                /\ tt[i] = Ended(ss[i], FALSE)
             \/ /\ k = Active \/ ss[i].key = k \/ ss[i].status # "RUNNING"
                /\ tt[i] = ss[i]
  BY DEF Closed
<1>3. ASSUME NEW i \in DOMAIN ss
      PROVE  /\ tt[i] \in Session /\ SameName(ss[i], tt[i]) /\ SameUse(ss[i], tt[i])
             /\ tt[i].status = "RUNNING" => ss[i].status = "RUNNING"
             /\ ss[i].status # "RUNNING" => tt[i] = ss[i]
             /\ k # Active /\ tt[i].status = "RUNNING" => ss[i].key = k
             /\ ss[i].key = k => tt[i] = ss[i]
  <2>1. ss[i] \in Session
    BY <1>1, ListDomain
  <2>2. CASE tt[i] = Ended(ss[i], FALSE) /\ ss[i].status = "RUNNING" /\ ss[i].key # k
    BY <2>1, <2>2, EndedIs
  <2>3. CASE (k = Active \/ ss[i].key = k \/ ss[i].status # "RUNNING") /\ tt[i] = ss[i]
    BY <2>1, <2>3 DEF SameName, SameUse
  <2> QED
    BY <1>2, <2>2, <2>3
<1>4. tt \in Seq(Session)
  <2>1. DOMAIN ss = 1..Len(ss) /\ Len(ss) \in Nat
    BY <1>1, ListDomain
  <2>2. tt = [i \in 1..Len(ss) |-> tt[i]]
    BY <2>1 DEF Closed
  <2>3. \A i \in 1..Len(ss) : tt[i] \in Session
    BY <1>3, <2>1
  <2> HIDE DEF tt
  <2> QED
    BY <2>1, <2>2, <2>3
<1> HIDE DEF tt
<1>5. Alike(ss, tt)
  BY <1>1, <1>3 DEF Alike
<1>6. Steady(ss, tt) /\ (Single(ss) => Single(tt))
  BY <1>3, <1>4, <1>5, QuietIs
<1>7. ASSUME k # Active PROVE Single(tt)
  <2> SUFFICES ASSUME NEW i \in DOMAIN tt, NEW j \in DOMAIN tt,
                      tt[i].status = "RUNNING", tt[j].status = "RUNNING"
               PROVE  i = j
    BY DEF Single
  <2>1. i \in Ongoing(ss, k) /\ j \in Ongoing(ss, k)
    BY <1>1, <1>3, <1>7 DEF Ongoing, Family
  <2> QED
    BY <2>1 DEF Sound, Distinct, OnePerKey
<1>8. ASSUME Current(ss, k) # 0 PROVE Current(tt, k) # 0
  <2>1. Current(ss, k) \in Ongoing(ss, k) /\ Current(ss, k) \in DOMAIN ss
    BY <1>1, <1>8, CurrentIs
  <2>2. Current(ss, k) \in Ongoing(tt, k)
    BY <1>1, <1>3, <2>1 DEF Ongoing, Family
  <2> QED
    BY <1>4, <2>2, CurrentIs
<1> QED
  BY <1>5, <1>6, <1>7, <1>8 DEF tt

-----------------------------------------------------------------------------
(* A session begins, gets a name, is merged into another. *)

\* A session begins: its number is the first above all of its key.
LEMMA BeginsIs ==
  ASSUME polls \in Nat, NEW ss, Sound(ss), NEW k \in Keys, Ongoing(ss, k) = {}
  PROVE  LET tt == Append(ss, New(ss, k)) IN
         /\ Steady(ss, tt) /\ Current(tt, k) # 0
         /\ k = Active /\ Single(ss) => Single(tt)
<1> DEFINE s == New(ss, k)  tt == Append(ss, s)  n == Len(ss) + 1
<1>1. ss \in Seq(Session) /\ DOMAIN ss = 1..Len(ss) /\ Len(ss) \in Nat
  BY ListDomain DEF Sound
<1>2. /\ s \in Session /\ s.key = k /\ s.run = Run(ss, k) /\ s.status = "RUNNING"
      /\ s.total = 0 /\ s.used = [r \in Rolls |-> 0]
  BY <1>1, NewIs
<1> HIDE DEF s
<1>3. /\ tt \in Seq(Session) /\ DOMAIN tt = 1..n /\ n \in Nat /\ n \notin DOMAIN ss
      /\ tt[n] = s /\ n \in DOMAIN tt
      /\ \A i \in DOMAIN ss : tt[i] = ss[i] /\ i \in DOMAIN tt
      /\ \A i \in DOMAIN tt : i = n \/ i \in DOMAIN ss
  BY <1>1, <1>2
<1> HIDE DEF tt, n
<1>4. /\ Family(tt, k) = Family(ss, k) \cup {n} /\ Ongoing(tt, k) = {n}
      /\ \A x : x # k => Family(tt, x) = Family(ss, x) /\ Ongoing(tt, x) = Ongoing(ss, x)
  BY <1>2, <1>3 DEF Family, Ongoing
<1>5. /\ Cardinality(Family(tt, k)) = Cardinality(Family(ss, k)) + 1
      /\ Cardinality(Family(ss, k)) \in Nat /\ s.run = Cardinality(Family(tt, k))
  <2>1. IsFiniteSet(Family(ss, k)) /\ n \notin Family(ss, k) /\ Cardinality(Family(ss, k)) \in Nat
    BY <1>1, <1>3, FamilyIs
  <2>2. Cardinality(Family(ss, k) \cup {n}) = Cardinality(Family(ss, k)) + 1
    BY <2>1, FS_AddElement
  <2> QED
    BY <2>1, <2>2, <1>2, <1>4 DEF Run
<1>6. \A i \in DOMAIN ss : /\ ss[i].run \in Nat /\ ss[i].run <= Cardinality(Family(ss, ss[i].key))
  BY <1>1, ListDomain, SessionIs DEF Sound, Distinct, Numbered
<1>7. Numbered(tt)
  <2>1. ASSUME NEW i \in DOMAIN tt PROVE tt[i].run <= Cardinality(Family(tt, tt[i].key))
    <3>1. CASE i = n
      BY <3>1, <1>2, <1>3, <1>5
    <3>2. CASE i \in DOMAIN ss /\ ss[i].key = k
      BY <3>2, <1>3, <1>5, <1>6
    <3>3. CASE i \in DOMAIN ss /\ ss[i].key # k
      BY <3>3, <1>3, <1>4, <1>6
    <3> QED
      BY <3>1, <3>2, <3>3, <1>3
  <2>2. ASSUME NEW i \in DOMAIN ss, ss[i].key = k PROVE ss[i].run < s.run
    BY <2>2, <1>5, <1>6
  <2>3. ASSUME NEW i \in DOMAIN tt, NEW j \in DOMAIN tt, tt[i].key = tt[j].key, tt[i].run = tt[j].run
        PROVE  i = j
    <3>1. CASE i \in DOMAIN ss /\ j \in DOMAIN ss
      BY <2>3, <3>1, <1>3 DEF Sound, Distinct, Numbered
    <3>2. CASE i = n /\ j \in DOMAIN ss
      BY <2>2, <2>3, <3>2, <1>2, <1>3, <1>6
    <3>3. CASE j = n /\ i \in DOMAIN ss
      BY <2>2, <2>3, <3>3, <1>2, <1>3, <1>6
    <3> QED
      BY <3>1, <3>2, <3>3, <1>3
  <2>4. ASSUME NEW i \in Ongoing(tt, Active) PROVE tt[i].run = Cardinality(Family(tt, Active))
    <3>1. CASE k = Active
      BY <3>1, <1>3, <1>4, <1>5
    <3>2. CASE k # Active
      <4>1. i \in Ongoing(ss, Active) /\ Family(tt, Active) = Family(ss, Active)
        BY <3>2, <1>4
      <4>2. i \in DOMAIN ss
        BY <4>1 DEF Ongoing, Family
      <4> QED
        BY <4>1, <4>2, <1>3 DEF Sound, Distinct, Numbered
    <3> QED
      BY <3>1, <3>2
  <2> QED
    BY <2>1, <2>3, <2>4 DEF Numbered
<1>8. OnePerKey(tt)
  BY <1>4 DEF OnePerKey, Sound, Distinct
<1>9. Listed(tt)
  BY <1>2, <1>3 DEF Listed, Sound
<1>10. Retained(ss, tt)
  BY <1>3 DEF Retained
<1>11. SameUses(ss, tt)
  BY <1>1, <1>2, UseAppended DEF SameUses, tt
<1>12. Balanced(ss) => Balanced(tt)
  <2>1. Adds(s)
    <3> DEFINE z == [r \in Rolls |-> 0]
    <3>1. \A x \in Rolls : z[x] = 0
      OBVIOUS
    <3>2. SumFunctionOnSet(z, Rolls) = 0
      BY <3>1, SumOfZeros, UsageAssumption
    <3>3. DOMAIN z = Rolls /\ s.used = z /\ s.total = 0
      BY <1>2
    <3> QED
      BY <3>2, <3>3 DEF Adds, SumFunction
  <2> QED
    BY <2>1, <1>3 DEF Balanced
<1>13. Current(tt, k) # 0
  BY <1>3, <1>4, CurrentIs
<1>14. k = Active /\ Single(ss) => Single(tt)
  BY <1>2, <1>3 DEF Single
<1> QED
  BY <1>3, <1>7, <1>8, <1>9, <1>10, <1>11, <1>12, <1>13, <1>14 DEF tt, s, Steady, Sound, Distinct

\* The session without a name gets one: it was the last of those that have none.
LEMMA PromotesIs ==
  ASSUME polls \in Nat, NEW ss, Sound(ss), NEW k \in Keys, k # Active,
         Ongoing(ss, k) = {}, Current(ss, Active) # 0
  PROVE  LET tt == Renamed(ss, Current(ss, Active), k) IN
         Steady(ss, tt) /\ Current(tt, k) # 0
<1> DEFINE e == Current(ss, Active)  n == Run(ss, k)
           x == [Seen(ss[e]) EXCEPT !.key = k, !.run = n]
           tt == [ss EXCEPT ![e] = x]
<1>1. /\ ss \in Seq(Session) /\ e \in DOMAIN ss /\ e \in Ongoing(ss, Active)
      /\ ss[e].status = "RUNNING" /\ ss[e].key = Active /\ ss[e] \in Session
  BY CurrentIs, ListDomain DEF Sound
<1>2. Renamed(ss, e, k) = tt
  BY DEF Renamed
<1>3. n \in Nat \ {0} /\ n = Cardinality(Family(ss, k)) + 1 /\ Cardinality(Family(ss, k)) \in Nat
  BY <1>1, FamilyIs DEF Run
<1>4. /\ x \in Session /\ x.key = k /\ x.run = n /\ x.status = "RUNNING" /\ SameUse(ss[e], x)
  <2> DEFINE s == Seen(ss[e])
  <2>1. s \in Session /\ SameEnd(ss[e], s) /\ SameUse(ss[e], s)
    BY <1>1, SeenIs
  <2>3. n \in Nat \ {0} /\ k \in Keys
    BY <1>3
  <2> HIDE DEF s, n
  <2>2. LET y == [s EXCEPT !.key = k, !.run = n] IN
        y \in Session /\ y.key = k /\ y.run = n /\ SameEnd(s, y) /\ SameUse(s, y)
    BY ONLY <2>1, <2>3, NamedIs
  <2> QED
    BY <2>1, <2>2, <1>1 DEF SameEnd, SameUse, s
<1> HIDE DEF e, n, x
<1>5. /\ tt \in Seq(Session) /\ DOMAIN tt = DOMAIN ss /\ tt[e] = x
      /\ \A i \in DOMAIN ss \ {e} : tt[i] = ss[i]
  BY <1>1, <1>4, UpdatedIs
<1> HIDE DEF tt
<1>6. /\ Family(tt, k) = Family(ss, k) \cup {e} /\ e \notin Family(ss, k)
      /\ Family(tt, Active) = Family(ss, Active) \ {e} /\ e \in Family(ss, Active)
      /\ \A y : y # k /\ y # Active => Family(tt, y) = Family(ss, y)
  BY <1>1, <1>4, <1>5 DEF Family
<1>7. Ongoing(tt, k) = {e} /\ \A y : y # k => Ongoing(tt, y) = Ongoing(ss, y) \ {e}
  BY <1>1, <1>4, <1>5 DEF Family, Ongoing
<1>8. Ongoing(tt, Active) = {}
  BY <1>1, <1>7 DEF Sound, Distinct, OnePerKey, Keys
<1>9. Cardinality(Family(tt, k)) = n
  <2>1. IsFiniteSet(Family(ss, k))
    BY <1>1, FamilyIs
  <2>2. Cardinality(Family(ss, k) \cup {e}) = Cardinality(Family(ss, k)) + 1
    BY <2>1, <1>6, FS_AddElement
  <2> QED
    BY <2>2, <1>3, <1>6
<1>10. /\ Cardinality(Family(tt, Active)) = Cardinality(Family(ss, Active)) - 1
       /\ Cardinality(Family(ss, Active)) \in Nat
  <2>1. IsFiniteSet(Family(ss, Active)) /\ Cardinality(Family(ss, Active)) \in Nat
    BY <1>1, FamilyIs
  <2>2. Cardinality(Family(ss, Active) \ {e}) = Cardinality(Family(ss, Active)) - 1
    BY <2>1, <1>6, FS_RemoveElement
  <2> QED
    BY <2>1, <2>2, <1>6
<1>11. \A i \in DOMAIN ss : ss[i].run \in Nat /\ ss[i].run <= Cardinality(Family(ss, ss[i].key))
  BY <1>1, ListDomain, SessionIs DEF Sound, Distinct, Numbered
<1>12. \A i, j \in DOMAIN ss : ss[i].key = ss[j].key /\ ss[i].run = ss[j].run => i = j
  BY DEF Sound, Distinct, Numbered
<1>13. ss[e].run = Cardinality(Family(ss, Active))
  BY <1>1 DEF Sound, Distinct, Numbered
<1>14. Numbered(tt)
  <2>1. ASSUME NEW i \in DOMAIN ss \ {e}
        PROVE  tt[i] = ss[i] /\ tt[i].run <= Cardinality(Family(tt, tt[i].key))
    <3>1. tt[i] = ss[i] /\ ss[i].run <= Cardinality(Family(ss, ss[i].key)) /\ ss[i].run \in Nat
      BY <1>5, <1>11
    <3>2. CASE ss[i].key = k
      BY <3>1, <3>2, <1>3, <1>9
    <3>3. CASE ss[i].key = Active
      <4>1. ss[i].run # ss[e].run
        BY <3>3, <1>1, <1>12
      <4> QED
        BY <4>1, <3>1, <3>3, <1>10, <1>13
    <3>4. CASE ss[i].key # k /\ ss[i].key # Active
      BY <3>1, <3>4, <1>6
    <3> QED
      BY <3>1, <3>2, <3>3, <3>4
  <2>2. ASSUME NEW i \in DOMAIN ss, ss[i].key = k PROVE ss[i].run < n
    BY <2>2, <1>3, <1>11
  <2>3. ASSUME NEW i \in DOMAIN tt PROVE tt[i].run <= Cardinality(Family(tt, tt[i].key))
    BY <2>1, <1>3, <1>4, <1>5, <1>9
  <2>4. ASSUME NEW i \in DOMAIN tt, NEW j \in DOMAIN tt, tt[i].key = tt[j].key, tt[i].run = tt[j].run
        PROVE  i = j
    <3>1. CASE i # e /\ j # e
      BY <2>4, <3>1, <1>5, <1>12
    <3>2. CASE i = e /\ j # e
      BY <2>2, <2>4, <3>2, <1>3, <1>4, <1>5, <1>11
    <3>3. CASE i # e /\ j = e
      BY <2>2, <2>4, <3>3, <1>3, <1>4, <1>5, <1>11
    <3> QED
      BY <3>1, <3>2, <3>3
  <2> QED
    BY <2>3, <2>4, <1>8 DEF Numbered
<1>15. OnePerKey(tt)
  BY <1>7 DEF OnePerKey, Sound, Distinct
<1>16. Listed(tt)
  BY <1>4, <1>5 DEF Listed, Sound, SameUse
<1>17. Retained(ss, tt)
  BY <1>1, <1>5 DEF Retained
<1>18. SameUses(ss, tt)
  <2> SUFFICES ASSUME NEW r \in Rolls PROVE UseOf(tt, r) = UseOf(ss, r)
    BY DEF SameUses
  <2>1. \A i \in DOMAIN ss : tt[i].used[r] = ss[i].used[r]
    BY <1>4, <1>5 DEF SameUse
  <2> QED
    BY <2>1, <1>1, <1>5, UseKept
<1>19. Balanced(ss) => Balanced(tt)
  BY <1>1, <1>4, <1>5, AddsAgain DEF Balanced
<1>20. Current(tt, k) # 0
  BY <1>5, <1>7, CurrentIs
<1> QED
  BY <1>2, <1>5, <1>14, <1>15, <1>16, <1>17, <1>18, <1>19, <1>20 DEF Steady, Sound, Distinct, e

\* Deleting a row renumbers the others and keeps them all.
LEMMA ShiftIs ==
  ASSUME NEW ss \in Seq(Session), NEW e \in DOMAIN ss
  PROVE  LET tt == RemoveAt(ss, e) IN
         /\ tt \in Seq(Session)
         /\ \E b \in [DOMAIN tt -> DOMAIN ss \ {e}] :
              /\ \A i \in DOMAIN tt : tt[i] = ss[b[i]]
              /\ \A i, j \in DOMAIN tt : b[i] = b[j] => i = j
              /\ \A j \in DOMAIN ss \ {e} : \E i \in DOMAIN tt : b[i] = j
<1> DEFINE tt == RemoveAt(ss, e)
           b == [i \in DOMAIN tt |-> IF i < e THEN i ELSE i + 1]
<1>1. DOMAIN ss = 1..Len(ss) /\ Len(ss) \in Nat /\ e \in 1..Len(ss)
  BY ListDomain
<1>2. /\ tt \in Seq(Session) /\ DOMAIN tt = 1..(Len(ss) - 1)
      /\ \A i \in 1..(Len(ss) - 1) : tt[i] = ss[IF i < e THEN i ELSE i + 1]
  BY <1>1, RemovedAt
<1> HIDE DEF tt
<1>3. b \in [DOMAIN tt -> DOMAIN ss \ {e}]
  BY <1>1, <1>2
<1>4. \A i \in DOMAIN tt : tt[i] = ss[b[i]]
  BY <1>2
<1>5. \A i, j \in DOMAIN tt : b[i] = b[j] => i = j
  BY <1>1, <1>2
<1>6. ASSUME NEW j \in DOMAIN ss \ {e} PROVE \E i \in DOMAIN tt : b[i] = j
  <2>1. CASE j < e
    BY <2>1, <1>1, <1>2
  <2>2. CASE j > e
    <3>1. j - 1 \in DOMAIN tt /\ b[j - 1] = j
      BY <2>2, <1>1, <1>2
    <3> QED
      BY <3>1
  <2> QED
    BY <2>1, <2>2, <1>1
<1> HIDE DEF b
<1> QED
  BY <1>2, <1>3, <1>4, <1>5, <1>6 DEF tt

\* The running session without a name goes: it was the last of those that have none.
LEMMA DropIs ==
  ASSUME NEW ss, Sound(ss), Current(ss, Active) # 0
  PROVE  LET tt == RemoveAt(ss, Current(ss, Active)) IN
         /\ Sound(tt) /\ Retained(ss, tt) /\ (Single(ss) => Single(tt))
         /\ \A k \in Keys \ {Active} : Current(ss, k) # 0 => Current(tt, k) # 0
         /\ \A i \in DOMAIN tt : \E j \in DOMAIN ss \ {Current(ss, Active)} : tt[i] = ss[j]
<1> DEFINE e == Current(ss, Active)  tt == RemoveAt(ss, e)
<1>1. /\ ss \in Seq(Session) /\ e \in DOMAIN ss /\ e \in Ongoing(ss, Active)
      /\ ss[e].status = "RUNNING" /\ ss[e].key = Active
  BY CurrentIs DEF Sound
<1> HIDE DEF e
<1>2. tt \in Seq(Session)
  BY <1>1, ShiftIs
<1>3. PICK b \in [DOMAIN tt -> DOMAIN ss \ {e}] :
              /\ \A i \in DOMAIN tt : tt[i] = ss[b[i]]
              /\ \A i, j \in DOMAIN tt : b[i] = b[j] => i = j
              /\ \A j \in DOMAIN ss \ {e} : \E i \in DOMAIN tt : b[i] = j
  BY <1>1, ShiftIs, SMTT(40)
<1> HIDE DEF tt
<1>4. \A i \in DOMAIN tt : b[i] \in DOMAIN ss /\ b[i] # e /\ tt[i] = ss[b[i]]
  BY <1>3
<1>5. ASSUME NEW k
      PROVE  /\ Cardinality(Family(tt, k)) = Cardinality(Family(ss, k) \ {e})
  <2> DEFINE F == Family(tt, k)  G == Family(ss, k) \ {e}
             h == [i \in F |-> b[i]]
  <2>1. IsFiniteSet(F)
    BY <1>2, FamilyIs
  <2>2. h \in [F -> G]
    BY <1>4 DEF Family
  <2>3. \A i, j \in F : h[i] = h[j] => i = j
    BY <1>3 DEF Family
  <2>4. \A j \in G : \E i \in F : h[i] = j
    <3> SUFFICES ASSUME NEW j \in G PROVE \E i \in F : h[i] = j
      OBVIOUS
    <3>1. j \in DOMAIN ss \ {e} /\ ss[j].key = k
      BY DEF Family
    <3>2. PICK i \in DOMAIN tt : b[i] = j
      BY <3>1, <1>3
    <3>3. i \in F
      BY <3>1, <3>2, <1>4 DEF Family
    <3> QED
      BY <3>2, <3>3
  <2> HIDE DEF F, G, h
  <2>5. ExistsBijection(F, G)
    BY <2>2, <2>3, <2>4 DEF ExistsBijection, Bijection, Injection, Surjection, IsInjective
  <2> QED
    BY <2>1, <2>5, FS_Bijection DEF F, G
<1>6. /\ Cardinality(Family(tt, Active)) = Cardinality(Family(ss, Active)) - 1
      /\ Cardinality(Family(ss, Active)) \in Nat
      /\ \A k : k # Active => Cardinality(Family(tt, k)) = Cardinality(Family(ss, k))
  <2>1. e \in Family(ss, Active) /\ \A k : k # Active => Family(ss, k) \ {e} = Family(ss, k)
    BY <1>1 DEF Family
  <2>2. IsFiniteSet(Family(ss, Active)) /\ Cardinality(Family(ss, Active)) \in Nat
    BY <1>1, FamilyIs
  <2>3. Cardinality(Family(ss, Active) \ {e}) = Cardinality(Family(ss, Active)) - 1
    BY <2>1, <2>2, FS_RemoveElement
  <2> QED
    BY <2>1, <2>2, <2>3, <1>5
<1>7. \A i \in DOMAIN ss : ss[i].run \in Nat /\ ss[i].run <= Cardinality(Family(ss, ss[i].key))
  BY <1>1, ListDomain, SessionIs DEF Sound, Distinct, Numbered
<1>8. \A i, j \in DOMAIN ss : ss[i].key = ss[j].key /\ ss[i].run = ss[j].run => i = j
  BY DEF Sound, Distinct, Numbered
<1>9. ss[e].run = Cardinality(Family(ss, Active))
  BY <1>1 DEF Sound, Distinct, Numbered
<1>10. \A k : \A i \in Ongoing(tt, k) : b[i] \in Ongoing(ss, k) /\ b[i] # e /\ i \in DOMAIN tt
  BY <1>4 DEF Ongoing, Family
<1>11. Ongoing(tt, Active) = {}
  BY <1>1, <1>10 DEF Sound, Distinct, OnePerKey, Keys
<1>12. Numbered(tt)
  <2>1. ASSUME NEW i \in DOMAIN tt PROVE tt[i].run <= Cardinality(Family(tt, tt[i].key))
    <3>1. tt[i] = ss[b[i]] /\ ss[b[i]].run \in Nat
          /\ ss[b[i]].run <= Cardinality(Family(ss, ss[b[i]].key))
      BY <1>4, <1>7
    <3>2. CASE tt[i].key = Active
      <4>1. ss[b[i]].run # ss[e].run
        BY <3>1, <3>2, <1>1, <1>4, <1>8
      <4> QED
        BY <4>1, <3>1, <3>2, <1>6, <1>9
    <3>3. CASE tt[i].key # Active
      BY <3>1, <3>3, <1>6
    <3> QED
      BY <3>2, <3>3
  <2>2. \A i, j \in DOMAIN tt : tt[i].key = tt[j].key /\ tt[i].run = tt[j].run => i = j
    BY <1>3, <1>4, <1>8
  <2> QED
    BY <2>1, <2>2, <1>11 DEF Numbered
<1>13. OnePerKey(tt)
  BY <1>3, <1>10 DEF OnePerKey, Sound, Distinct
<1>14. Listed(tt)
  BY <1>4 DEF Listed, Sound
<1>15. Retained(ss, tt)
  <2> SUFFICES ASSUME NEW j \in DOMAIN ss, ss[j].status # "RUNNING"
               PROVE  \E i \in DOMAIN tt : tt[i] = ss[j]
    BY DEF Retained
  <2>1. j \in DOMAIN ss \ {e}
    BY <1>1
  <2>2. PICK i \in DOMAIN tt : b[i] = j
    BY <2>1, <1>3
  <2> QED
    BY <2>2, <1>4
<1>16. Single(ss) => Single(tt)
  BY <1>3, <1>4 DEF Single
<1>17. ASSUME NEW k \in Keys \ {Active}, Current(ss, k) # 0 PROVE Current(tt, k) # 0
  <2>1. PICK j \in Ongoing(ss, k) : TRUE
    BY <1>1, <1>17, CurrentIs
  <2>2. j \in DOMAIN ss \ {e}
    BY <2>1, <1>1, <1>17 DEF Ongoing, Family
  <2>3. PICK i \in DOMAIN tt : b[i] = j
    BY <2>2, <1>3
  <2>4. i \in Ongoing(tt, k)
    BY <2>1, <2>3, <1>4 DEF Ongoing, Family
  <2> QED
    BY <2>4, <1>2, CurrentIs
<1>18. \A i \in DOMAIN tt : \E j \in DOMAIN ss \ {e} : tt[i] = ss[j]
  BY <1>4
<1> QED
  BY <1>2, <1>12, <1>13, <1>14, <1>15, <1>16, <1>17, <1>18 DEF Sound, Distinct, tt, e

\* The one whose name is known takes over what the other used.
LEMMA MergesIs ==
  ASSUME polls \in Nat, NEW ss, Sound(ss), NEW k \in Keys, Merges(ss, k)
  PROVE  LET tt == Merged(ss, Current(ss, k), Current(ss, Active)) IN
         Steady(ss, tt) /\ (Single(ss) => Single(tt)) /\ Current(tt, k) # 0
<1> DEFINE t == Current(ss, k)  e == Current(ss, Active)
           j == [ss[t] EXCEPT !.rolls = @ \cup ss[e].rolls,
                              !.used = [r \in Rolls |-> @[r] + ss[e].used[r]]]
           s2 == [ss EXCEPT ![t] = j]
           g == Counted(j, ss[e].total)
           uu == [ss EXCEPT ![t] = g]
<1>1. /\ ss \in Seq(Session) /\ t \in DOMAIN ss /\ e \in DOMAIN ss /\ k # Active /\ t # 0 /\ e # 0
      /\ ss[t].status = "RUNNING" /\ ss[t].key = k /\ ss[e].status = "RUNNING"
      /\ ss[e].key = Active
      /\ ss[t] \in Session /\ ss[e] \in Session /\ t # e
  BY CurrentIs, ListDomain DEF Sound, Merges
<1>2. ss[e].total \in Nat /\ ss[e].used \in [Rolls -> Nat] /\ ss[t].used \in [Rolls -> Nat]
  BY <1>1, SessionIs
<1>3. /\ j \in Session /\ SameName(ss[t], j) /\ SameEnd(ss[t], j) /\ j.total = ss[t].total
      /\ j.rolls = ss[t].rolls \cup ss[e].rolls
      /\ j.used = [r \in Rolls |-> ss[t].used[r] + ss[e].used[r]]
  BY <1>1, JoinedIs
<1>4. Merged(ss, t, e) = RemoveAt(TotalAdded(s2, t, e), e)
  <2>1. s2 = [ss EXCEPT ![t].rolls = @ \cup ss[e].rolls,
                        ![t].used = [r \in Rolls |-> @[r] + ss[e].used[r]]]
    BY <1>1 DEF Session
  <2> HIDE DEF s2
  <2> QED
    BY <2>1 DEF Merged
<1>5. TotalAdded(s2, t, e) = uu
  <2>1. s2[t] = j /\ s2[e] = ss[e] /\ DOMAIN s2 = DOMAIN ss
    BY <1>1
  <2>2. TotalAdded(s2, t, e) = [s2 EXCEPT ![t] = g]
    <3> HIDE DEF s2, j
    <3> QED BY <2>1 DEF TotalAdded
  <2>3. [s2 EXCEPT ![t] = g] = uu
    <3> HIDE DEF j, g
    <3> QED OBVIOUS
  <2> QED
    BY <2>2, <2>3
<1> HIDE DEF t, e, j
<1>6. /\ g \in Session /\ SameName(ss[t], g) /\ SameEnd(ss[t], g)
      /\ g.total = ss[t].total + ss[e].total
      /\ g.rolls = ss[t].rolls \cup ss[e].rolls
      /\ g.used = [r \in Rolls |-> ss[t].used[r] + ss[e].used[r]]
  <2>1. /\ g \in Session /\ SameName(j, g) /\ SameEnd(j, g) /\ g.total = j.total + ss[e].total
        /\ g.rolls = j.rolls /\ g.used = j.used
    BY <1>2, <1>3, CountedIs
  <2> QED
    BY <2>1, <1>3 DEF SameName, SameEnd
<1> HIDE DEF g
<1>7. /\ uu \in Seq(Session) /\ DOMAIN uu = DOMAIN ss /\ uu[t] = g
      /\ \A i \in DOMAIN ss \ {t} : uu[i] = ss[i]
  BY <1>1, <1>6, UpdatedIs
<1> HIDE DEF uu
<1>8. Level(ss, uu) /\ Alike(ss, uu)
  BY <1>6, <1>7 DEF Level, Alike, SameName, SameEnd
<1>9. Distinct(uu) /\ (Single(ss) => Single(uu))
  BY <1>8, AlikeIs DEF Sound
<1>10. Listed(uu)
  <2> SUFFICES ASSUME NEW i \in DOMAIN uu, NEW r \in Rolls, r \notin uu[i].rolls
               PROVE  uu[i].used[r] = 0
    BY DEF Listed
  <2>1. CASE i # t
    BY <2>1, <1>7 DEF Sound, Listed
  <2>2. CASE i = t
    <3>1. ss[t].used[r] = 0 /\ ss[e].used[r] = 0
      BY <2>2, <1>1, <1>6, <1>7 DEF Sound, Listed
    <3> QED
      BY <2>2, <3>1, <1>6, <1>7
  <2> QED
    BY <2>1, <2>2
<1>11. Sound(uu)
  BY <1>7, <1>9, <1>10 DEF Sound
<1>12. Current(uu, k) = t /\ Current(uu, Active) = e
  BY <1>8, LevelIs DEF t, e
<1> DEFINE tt == RemoveAt(uu, e)
<1>13. /\ Sound(tt) /\ Retained(uu, tt) /\ (Single(uu) => Single(tt)) /\ Current(tt, k) # 0
       /\ \A i \in DOMAIN tt : \E l \in DOMAIN uu \ {e} : tt[i] = uu[l]
  BY <1>1, <1>11, <1>12, DropIs
<1>14. Retained(ss, tt)
  <2>1. \A i \in DOMAIN ss : ss[i].status # "RUNNING" => i \in DOMAIN uu /\ uu[i] = ss[i]
    BY <1>1, <1>7
  <2> HIDE DEF tt
  <2> QED
    BY <2>1, <1>13 DEF Retained
<1>15. SameUses(ss, tt)
  <2> SUFFICES ASSUME NEW r \in Rolls PROVE UseOf(tt, r) = UseOf(ss, r)
    BY DEF SameUses
  <2>1. ss[t].used[r] \in Nat /\ ss[e].used[r] \in Nat /\ UseOf(ss, r) \in Nat
    BY <1>1, UsesAreNat
  <2>2. uu[t].used[r] = ss[t].used[r] + ss[e].used[r] /\ uu[t].used[r] \in Nat
    BY <2>1, <1>6, <1>7, SMTT(30)
  <2>3. \A i \in DOMAIN ss \ {t} : uu[i].used[r] = ss[i].used[r]
    BY <1>7
  <2>4. UseOf(uu, r) = UseOf(ss, r) - ss[t].used[r] + uu[t].used[r]
    BY <2>2, <2>3, <1>1, <1>7, UseChanged
  <2>5. UseOf(tt, r) = UseOf(uu, r) - uu[e].used[r]
    BY <1>1, <1>7, UseRemoved
  <2>6. uu[e] = ss[e]
    BY <1>1, <1>7
  <2> HIDE DEF tt
  <2> QED
    BY <2>1, <2>2, <2>4, <2>5, <2>6
<1>16. ASSUME Balanced(ss) PROVE Balanced(tt)
  <2>1. Adds(ss[t]) /\ Adds(ss[e])
    BY <1>1, <1>16 DEF Balanced
  <2> DEFINE f == ss[t].used  h == ss[e].used  v == g.used
  <2>2. DOMAIN f = Rolls /\ DOMAIN h = Rolls /\ DOMAIN v = Rolls
        /\ \A x \in Rolls : f[x] \in Nat /\ h[x] \in Nat /\ v[x] = f[x] + h[x]
    BY <1>2, <1>6
  <2>3. IsFiniteSet(Rolls)
    BY UsageAssumption
  <2> HIDE DEF f, h, v
  <2>4. SumFunctionOnSet(v, Rolls) = SumFunctionOnSet(f, Rolls) + SumFunctionOnSet(h, Rolls)
    BY <2>2, <2>3, SumOfBoth
  <2>5. SumFunction(v) = SumFunction(f) + SumFunction(h)
    BY <2>2, <2>4 DEF SumFunction
  <2>6. Adds(g)
    BY <2>1, <2>5, <1>6 DEF Adds, f, h, v
  <2>7. \A i \in DOMAIN uu : Adds(uu[i])
    BY <2>6, <1>7, <1>16 DEF Balanced
  <2> HIDE DEF tt
  <2> QED
    BY <2>7, <1>13 DEF Balanced
<1> HIDE DEF tt
<1>17. Steady(ss, tt) /\ (Single(ss) => Single(tt)) /\ Current(tt, k) # 0
  BY <1>9, <1>13, <1>14, <1>15, <1>16 DEF Steady
<1>18. Merged(ss, t, e) = tt
  BY <1>4, <1>5 DEF tt
<1> QED
  BY <1>17, <1>18 DEF t, e

\* A print that has no running session gets one, new or renamed.
LEMMA BegunIs ==
  ASSUME polls \in Nat, NEW ss, Sound(ss), NEW k \in Keys, Current(ss, k) = 0
  PROVE  /\ Steady(ss, Begun(ss, k)) /\ Current(Begun(ss, k), k) # 0
         /\ k = Active /\ Single(ss) => Single(Begun(ss, k))
<1>1. Ongoing(ss, k) = {}
  BY CurrentIs DEF Sound
<1>2. CASE Promotes(ss, k)
  <2>1. k # Active /\ Current(ss, Active) # 0
        /\ Begun(ss, k) = Renamed(ss, Current(ss, Active), k)
    BY <1>2 DEF Promotes, Begun
  <2> QED
    BY <2>1, <1>1, PromotesIs
<1>3. CASE ~Promotes(ss, k)
  <2>1. Begun(ss, k) = Append(ss, New(ss, k))
    BY <1>3 DEF Begun
  <2> QED
    BY <2>1, <1>1, BeginsIs
<1> QED
  BY <1>2, <1>3

\* ensure_live_usage_session in one transaction.
LEMMA EnsuredIs ==
  ASSUME polls \in Nat, NEW ss, Sound(ss), NEW k \in Keys
  PROVE  /\ Steady(ss, Ensured(ss, k)) /\ Current(Ensured(ss, k), k) # 0
         /\ Single(ss) \/ k # Active => Single(Ensured(ss, k))
<1> DEFINE mm == Merged(ss, Current(ss, k), Current(ss, Active))
           uu == IF Merges(ss, k) THEN Shown(mm, k)
                 ELSE IF Current(ss, k) # 0 THEN Shown(ss, k) ELSE Begun(ss, k)
<1>1. Ensured(ss, k) = Closed(uu, k)
  BY DEF Ensured
<1>2. Steady(ss, uu) /\ Current(uu, k) # 0 /\ (Single(ss) => k # Active \/ Single(uu))
  <2>1. CASE Merges(ss, k)
    <3>1. Steady(ss, mm) /\ (Single(ss) => Single(mm)) /\ Current(mm, k) # 0
      BY <2>1, MergesIs
    <3> HIDE DEF mm
    <3>2. Sound(mm)
      BY <3>1 DEF Steady
    <3>3. Steady(mm, Shown(mm, k)) /\ Level(mm, Shown(mm, k))
          /\ (Single(mm) => Single(Shown(mm, k)))
      BY <3>1, <3>2, ShownIs
    <3>4. Current(Shown(mm, k), k) # 0
      BY <3>1, <3>3, LevelIs
    <3>5. Steady(ss, Shown(mm, k))
      BY <3>1, <3>3, SteadyTwice
    <3> QED
      BY <2>1, <3>1, <3>3, <3>4, <3>5
  <2>2. CASE ~Merges(ss, k) /\ Current(ss, k) # 0
    <3>1. Steady(ss, Shown(ss, k)) /\ Level(ss, Shown(ss, k))
          /\ (Single(ss) => Single(Shown(ss, k)))
      BY <2>2, ShownIs
    <3>2. Current(Shown(ss, k), k) # 0
      BY <3>1, <2>2, LevelIs
    <3> QED
      BY <2>2, <3>1, <3>2
  <2>3. CASE ~Merges(ss, k) /\ Current(ss, k) = 0
    BY <2>3, BegunIs
  <2> QED
    BY <2>1, <2>2, <2>3
<1> HIDE DEF uu
<1>3. Sound(uu)
  BY <1>2 DEF Steady
<1>4. /\ Steady(uu, Closed(uu, k)) /\ (Single(uu) \/ k # Active => Single(Closed(uu, k)))
      /\ Current(uu, k) # 0 => Current(Closed(uu, k), k) # 0
  BY <1>3, ClosedIs
<1>5. Steady(ss, Closed(uu, k))
  BY <1>2, <1>4, SteadyTwice
<1> QED
  BY <1>1, <1>2, <1>4, <1>5

-----------------------------------------------------------------------------
(* One session of the list changes. *)

\* One session of the list changes, not its name.
LEMMA OneChanged ==
  ASSUME NEW ss, Sound(ss), NEW e \in DOMAIN ss, NEW x \in Session,
         SameName(ss[e], x), x.status = ss[e].status,
         \A y \in Rolls : y \notin x.rolls => x.used[y] = 0
  PROVE  LET tt == [ss EXCEPT ![e] = x] IN
         /\ Sound(tt) /\ Level(ss, tt) /\ (Single(ss) => Single(tt))
         /\ DOMAIN tt = DOMAIN ss /\ tt[e] = x /\ \A i \in DOMAIN ss \ {e} : tt[i] = ss[i]
         /\ \A y \in Rolls : UseOf(tt, y) = UseOf(ss, y) - ss[e].used[y] + x.used[y]
<1> DEFINE tt == [ss EXCEPT ![e] = x]
<1>1. ss \in Seq(Session)
  BY DEF Sound
<1>2. /\ tt \in Seq(Session) /\ DOMAIN tt = DOMAIN ss /\ tt[e] = x
      /\ \A i \in DOMAIN ss \ {e} : tt[i] = ss[i]
  BY <1>1, UpdatedIs
<1> HIDE DEF tt
<1>3. Level(ss, tt) /\ Alike(ss, tt)
  BY <1>2 DEF Level, Alike, SameName
<1>4. Distinct(tt) /\ (Single(ss) => Single(tt))
  BY <1>3, AlikeIs DEF Sound
<1>5. Listed(tt)
  BY <1>2 DEF Sound, Listed
<1>6. ASSUME NEW y \in Rolls PROVE UseOf(tt, y) = UseOf(ss, y) - ss[e].used[y] + x.used[y]
  <2>1. tt[e].used[y] \in Nat
    BY <1>2, SessionIs
  <2>2. \A i \in DOMAIN ss \ {e} : tt[i].used[y] = ss[i].used[y]
    BY <1>2
  <2> QED
    BY <2>1, <2>2, <1>1, <1>2, UseChanged
<1> QED
  BY <1>2, <1>3, <1>4, <1>5, <1>6 DEF Sound, tt

\* What a session used in all, when the use of one roll changes.
LEMMA SumOfUse ==
  ASSUME NEW s \in Session, NEW t \in Session, NEW r \in Rolls,
         \A x \in Rolls \ {r} : t.used[x] = s.used[x]
  PROVE  /\ SumFunction(t.used) = SumFunction(s.used) - s.used[r] + t.used[r]
         /\ SumFunction(s.used) \in Nat /\ SumFunction(t.used) \in Nat
         /\ s.used[r] <= SumFunction(s.used)
<1> DEFINE f == s.used  h == t.used
<1>1. f \in [Rolls -> Nat] /\ h \in [Rolls -> Nat]
  BY SessionIs
<1>2. DOMAIN f = Rolls /\ DOMAIN h = Rolls
  BY <1>1
<1>3. \A x \in Rolls : f[x] \in Nat
  BY <1>1
<1>4. \A x \in Rolls : h[x] \in Nat
  BY <1>1
<1>5. \A x \in Rolls \ {r} : h[x] = f[x]
  OBVIOUS
<1>6. IsFiniteSet(Rolls) /\ IsFiniteSet(Rolls \ {r}) /\ r \in Rolls
  BY UsageAssumption, FS_RemoveElement
<1>7. h[r] \in Nat
  BY <1>4
<1> HIDE DEF f, h
<1>8. SumFunctionOnSet(h, Rolls) = SumFunctionOnSet(f, Rolls) - f[r] + h[r]
  BY ONLY <1>3, <1>5, <1>6, <1>7, SumChange
<1>9. SumFunctionOnSet(f, Rolls) \in Nat /\ SumFunctionOnSet(h, Rolls) \in Nat
  BY <1>3, <1>4, <1>6, SumType
<1>10. SumFunctionOnSet(f, Rolls) = f[r] + SumFunctionOnSet(f, Rolls \ {r})
  BY <1>3, <1>6, SumSplit
<1>11. SumFunctionOnSet(f, Rolls \ {r}) \in Nat /\ f[r] \in Nat
  BY <1>3, <1>6, SumType
<1>12. SumFunction(h) = SumFunctionOnSet(h, Rolls) /\ SumFunction(f) = SumFunctionOnSet(f, Rolls)
  BY <1>2 DEF SumFunction
<1>13. f[r] <= SumFunction(f)
  BY <1>10, <1>11, <1>12
<1> QED
  BY <1>8, <1>9, <1>12, <1>13 DEF f, h

-----------------------------------------------------------------------------
(* The invariant at the start, and what it says at each step. *)

LEMMA EmptyUse == ASSUME NEW r PROVE UseOf(<<>>, r) = 0
<1> DEFINE f == [i \in DOMAIN <<>> |-> <<>>[i].used[r]]
<1>1. DOMAIN f = {}
  OBVIOUS
<1>2. SumFunctionOnSet(f, {}) = 0
  BY SumOfNone
<1> HIDE DEF f
<1>3. SumFunction(f) = 0
  BY <1>1, <1>2 DEF SumFunction
<1> QED
  BY <1>3 DEF UseOf, f

LEMMA LimitIs ==
  ASSUME limit \in Limits
  PROVE  /\ limit.jobs \in SUBSET Jobs /\ limit.rolls \in SUBSET Rolls /\ limit.grams \in Nat
         /\ limit.finishes \in SUBSET Finishes /\ limit.stages \in SUBSET Stages
         /\ limit.nozzles \in SUBSET Nozzles
BY UsageAssumption DEF UsageAssumption

\* Before the first report there is no session.
LEMMA InitIInv == Init => IInv
<1> SUFFICES ASSUME Init PROVE IInv
  OBVIOUS
<1> USE DEF Init
<1>1. sessions = <<>> /\ DOMAIN sessions = {} /\ sessions \in Seq(Session)
  OBVIOUS
<1>2. Shaped
  <2>1. weight \in [Rolls -> -1..limit.grams]
    BY LimitIs DEF Unknown
  <2>2. poll \in PollsOf
    <3>1. [r \in {} |-> 0] \in [{} -> 0..limit.grams] /\ {} \in SUBSET limit.rolls
      OBVIOUS
    <3>2. NoContext \in Contexts \cup {NoContext}
      OBVIOUS
    <3>3. [r \in {} |-> 0] \in UNION {[D -> 0..limit.grams] : D \in SUBSET limit.rolls}
      BY <3>1
    <3> QED
      BY <3>2, <3>3 DEF PollsOf, Idle
  <2>3. taken \in [Rolls -> Int] /\ polls \in Nat /\ limit \in Limits
    OBVIOUS
  <2>4. torn \in BOOLEAN
    OBVIOUS
  <2> QED
    BY <1>1, <2>1, <2>2, <2>3, <2>4 DEF Shaped
<1>3. poll.phase = "idle" /\ poll.half = {} /\ poll.uses = FALSE
  BY DEF Idle
<1>4. Directed
  BY <1>3 DEF Directed, Touching
<1>5. Distinct(sessions) /\ Listed(sessions) /\ Single(sessions)
  BY <1>1 DEF Distinct, Numbered, OnePerKey, Listed, Single, Ongoing, Family
<1>6. Totals
  BY <1>1, <1>3 DEF Totals
<1>7. Counts
  <2>1. \A r \in Rolls : UsedOf(r) = 0
    BY <1>1, EmptyUse DEF UsedOf, UseOf
  <2> QED
    BY <2>1, <1>3 DEF Counts
<1> QED
  BY <1>2, <1>4, <1>5, <1>6, <1>7 DEF IInv, OneJob

LEMMA StateIs ==
  ASSUME IInv
  PROVE  /\ polls \in Nat /\ sessions \in Seq(Session) /\ Sound(sessions)
         /\ weight \in [Rolls -> -1..limit.grams] /\ limit.grams \in Nat
         /\ limit.rolls \in SUBSET Rolls
         /\ limit \in Limits /\ torn \in BOOLEAN /\ taken \in [Rolls -> Int]
         /\ poll \in PollsOf
         /\ poll.ctx \in Contexts \cup {NoContext} /\ poll.half \in SUBSET Rolls
         /\ DOMAIN poll.grams \in SUBSET limit.rolls
         /\ \A r \in DOMAIN poll.grams : poll.grams[r] \in 0..limit.grams
<1>1. Shaped /\ limit.grams \in Nat /\ limit.rolls \in SUBSET Rolls
  BY LimitIs DEF IInv, Shaped
<1>2. poll.grams \in UNION {[D -> 0..limit.grams] : D \in SUBSET limit.rolls}
  BY <1>1 DEF Shaped, PollsOf
<1>3. PICK D \in SUBSET limit.rolls : poll.grams \in [D -> 0..limit.grams]
  BY <1>2
<1>4. /\ DOMAIN poll.grams \in SUBSET limit.rolls
      /\ \A r \in DOMAIN poll.grams : poll.grams[r] \in 0..limit.grams
  BY <1>3
<1>5. Sound(sessions)
  BY <1>1 DEF IInv, Shaped, Sound
<1>6. poll.ctx \in Contexts \cup {NoContext} /\ poll.half \in SUBSET Rolls
  BY <1>1 DEF Shaped, PollsOf
<1> QED
  BY <1>1, <1>4, <1>5, <1>6 DEF Shaped

-----------------------------------------------------------------------------
(* What a step leaves of what has ended. *)

FinalStep ==
  \A i \in DOMAIN sessions : sessions[i].status # "RUNNING" =>
    \E j \in DOMAIN sessions' :
      LET s == sessions[i]  t == sessions'[j] IN
      /\ t.key = s.key /\ t.run = s.run /\ t.status = s.status /\ t.done = s.done
      /\ t.total <= s.total + (IF s.recent THEN SmallDrop ELSE 0)

LEMMA RetainedIsFinal ==
  ASSUME sessions \in Seq(Session), Retained(sessions, sessions')
  PROVE  FinalStep
<1> SUFFICES ASSUME NEW i \in DOMAIN sessions, sessions[i].status # "RUNNING"
             PROVE  \E j \in DOMAIN sessions' :
                      LET s == sessions[i]  t == sessions'[j] IN
                      /\ t.key = s.key /\ t.run = s.run /\ t.status = s.status /\ t.done = s.done
                      /\ t.total <= s.total + (IF s.recent THEN SmallDrop ELSE 0)
  BY DEF FinalStep
<1>1. PICK j \in DOMAIN sessions' : sessions'[j] = sessions[i]
  BY DEF Retained
<1>2. sessions[i].total \in Nat /\ SmallDrop \in Nat
  BY ListDomain, SessionIs, UsageAssumption DEF UsageAssumption
<1> QED
  BY <1>1, <1>2

LEMMA SameRetained == ASSUME NEW ss PROVE Retained(ss, ss)
BY DEF Retained

LEMMA SameFinal ==
  ASSUME sessions \in Seq(Session), sessions' = sessions PROVE FinalStep
BY SameRetained, RetainedIsFinal

\* The report goes on to its next statement.
LEMMA GoesIs ==
  ASSUME poll \in PollsOf, limit' = limit,
         NEW p \in {"idle", "touch", "merge", "drop", "show", "close", "weigh"},
         poll' = [poll EXCEPT !.phase = p]
  PROVE  /\ (poll \in PollsOf)' /\ poll'.phase = p /\ poll'.ctx = poll.ctx
         /\ poll'.uses = poll.uses
         /\ poll'.half = poll.half /\ poll'.grams = poll.grams
<1>1. PollsOf' = PollsOf
  BY DEF PollsOf
<1>2. poll' \in PollsOf
  BY DEF PollsOf
<1> QED
  BY <1>1, <1>2 DEF PollsOf

\* What is left to show of a step that only applies a report.
LEMMA ShapedAgain ==
  ASSUME Shaped, UNCHANGED <<polls, limit>>, Sound(sessions'), (poll \in PollsOf)',
         weight' \in [Rolls -> -1..limit.grams], taken' \in [Rolls -> Int], torn' \in BOOLEAN
  PROVE  Shaped' /\ Distinct(sessions)' /\ Listed(sessions)'
<1>1. Session' = Session
  BY DEF Session
<1>2. sessions' \in Seq(Session)' /\ Distinct(sessions') /\ Listed(sessions')
  BY <1>1 DEF Sound
<1>3. Distinct(sessions)' /\ Listed(sessions)'
  BY <1>2 DEF Distinct, Numbered, OnePerKey, Listed, Family, Ongoing
<1> QED
  BY <1>2, <1>3 DEF Shaped

LEMMA RestIs ==
  ASSUME IInv, Rest, Sound(sessions'), (poll \in PollsOf)'
  PROVE  Shaped' /\ Distinct(sessions)' /\ Listed(sessions)'
<1>1. Shaped
  BY DEF IInv
<1>2. UNCHANGED <<polls, limit>> /\ weight' = weight /\ taken' = taken /\ torn' = torn
  BY DEF Rest
<1> QED
  BY <1>1, <1>2, ShapedAgain DEF Shaped

\* A report comes in.
LEMMA ReportStep ==
  ASSUME IInv, NEW c \in Reports \cup {NoContext}, NEW rolls \in SUBSET limit.rolls,
         NEW grams \in [rolls -> 0..limit.grams], Report(c, grams)
  PROVE  IInv' /\ FinalStep
<1>1. /\ poll.phase = "idle" /\ polls' = polls + 1 /\ sessions' = sessions
      /\ weight' = weight /\ taken' = taken /\ torn' = torn /\ limit' = limit
      /\ poll' = [phase |-> IF Touches(c) THEN "touch" ELSE "weigh", ctx |-> c,
                  uses |-> Uses(c), grams |-> grams, half |-> {}]
  BY DEF Report
<1>2. polls \in Nat /\ sessions \in Seq(Session) /\ Shaped /\ Sound(sessions) /\ poll.half = {}
  BY StateIs, <1>1 DEF IInv, Directed
<1>3. c = NoContext \/ c \in Contexts
  BY <1>2, LimitIs DEF Reports, Contexts, Keys, Shaped
<1>4. poll'.phase \in {"touch", "weigh"} /\ (poll'.phase = "touch" => Touches(c)) /\ poll'.ctx = c
      /\ poll'.uses = Uses(c) /\ poll'.half = {}
  BY <1>1
<1>5. Touches(c) \/ Uses(c) => c \in Contexts
  BY <1>3 DEF Touches, Uses
<1>6. Shaped'
  <2>1. sessions' \in Seq(Session)'
    <3>1. Session \subseteq Session'
      BY <1>1, <1>2 DEF Session
    <3> QED
      BY <3>1, <1>1, <1>2, SeqMonotonic
  <2>2. (poll \in PollsOf)'
    <3>1. PollsOf' = PollsOf
      BY <1>1 DEF PollsOf
    <3>2. grams \in UNION {[D -> 0..limit.grams] : D \in SUBSET limit.rolls}
      OBVIOUS
    <3>3. Uses(c) \in BOOLEAN
      BY DEF Uses
    <3>4. poll' \in PollsOf
      BY <1>1, <1>3, <3>2, <3>3 DEF PollsOf
    <3> QED
      BY <3>1, <3>4
  <2> QED
    BY <2>1, <2>2, <1>1, <1>2 DEF Shaped
<1>7. Directed'
  BY <1>4, <1>5 DEF Directed, Touching
<1>8. Distinct(sessions)' /\ Listed(sessions)'
  BY <1>1, <1>2 DEF Sound, Distinct, Numbered, OnePerKey, Listed, Family, Ongoing
<1>9. OneJob'
  BY <1>1, <1>4 DEF IInv, OneJob, Single, Touching
<1>10. Totals'
  BY <1>1, <1>4 DEF IInv, Totals
<1>11. Counts'
  BY <1>1, <1>2, <1>4 DEF IInv, Counts, UsedOf
<1>12. FinalStep
  BY <1>1, <1>2, SameFinal
<1> QED
  BY <1>6, <1>7, <1>8, <1>9, <1>10, <1>11, <1>12 DEF IInv

-----------------------------------------------------------------------------
(* The statements of a touch. *)

LEMMA KeyIs ==
  ASSUME IInv, poll.uses \/ poll.phase \in Touching
  PROVE  poll.ctx \in Contexts /\ poll.ctx.key \in Keys
BY DEF IInv, Directed, Contexts

LEMMA UsedIs == \A r : UsedOf(r) = UseOf(sessions, r) /\ (UsedOf(r))' = UseOf(sessions', r)
BY DEF UsedOf, UseOf

\* A steady step outside a merge leaves the books as they are.
LEMMA SteadyBooks ==
  ASSUME IInv, Rest, Steady(sessions, sessions'), poll.half = {}, poll'.half = {},
         poll.phase \notin {"merge", "drop"}, poll'.phase \notin {"merge", "drop"}
  PROVE  Totals' /\ Counts'
<1>1. torn' = torn /\ taken' = taken
  BY DEF Rest
<1>2. ~torn => Balanced(sessions)
  BY DEF IInv, Totals, Balanced
<1>3. ~torn => Balanced(sessions')
  BY <1>2 DEF Steady
<1>4. Totals'
  BY <1>1, <1>3 DEF Totals, Balanced
<1>5. \A r \in Rolls : (UsedOf(r))' = UsedOf(r)
  BY UsedIs DEF Steady, SameUses
<1>6. Counts'
  BY <1>1, <1>5 DEF IInv, Counts
<1> QED
  BY <1>4, <1>6

LEMMA TouchStep == ASSUME IInv, Touch PROVE IInv' /\ FinalStep
<1> DEFINE k == poll.ctx.key
<1>1. /\ poll.phase = "touch" /\ Rest /\ poll \in PollsOf /\ polls \in Nat
      /\ Sound(sessions) /\ sessions \in Seq(Session) /\ limit' = limit /\ torn' = torn
      /\ taken' = taken
  BY StateIs DEF Touch, Rest
<1>2. poll.ctx \in Contexts /\ k \in Keys /\ poll.half = {}
  BY <1>1, KeyIs DEF IInv, Directed, Touching
<1>3. CASE Merges(sessions, k) /\ Goes("merge") /\ UNCHANGED sessions
  <2>1. /\ (poll \in PollsOf)' /\ poll'.phase = "merge" /\ poll'.ctx = poll.ctx
        /\ poll'.uses = poll.uses
        /\ poll'.half = {}
    BY <1>1, <1>2, <1>3, GoesIs DEF Goes
  <2>2. k # Active /\ Target # 0 /\ Source # 0
    BY <1>3 DEF Merges, Target, Source
  <2>3. Target' = Target /\ Source' = Source
    BY <1>3, <2>1 DEF Target, Source
  <2>4. Target \in DOMAIN sessions /\ Source \in DOMAIN sessions /\ sessions[Target].key = k
        /\ sessions[Source].key = Active
    BY <1>1, <2>2, CurrentIs DEF Target, Source
  <2>5. Shaped' /\ Distinct(sessions)' /\ Listed(sessions)'
    BY <1>1, <1>3, <2>1, RestIs
  <2>6. Directed'
    BY <1>2, <2>1, <2>2, <2>3 DEF Directed
  <2>7. OneJob'
    BY <2>1, <2>2 DEF OneJob, Touching
  <2>8. ~torn => \A i \in DOMAIN sessions : Adds(sessions[i])
    BY <1>1 DEF IInv, Totals
  <2>9. ~torn => SumFunction(sessions[Target].used) + SumFunction(sessions[Source].used)
               = sessions[Target].total + sessions[Source].total + 0
    <3>1. sessions[Target].total \in Nat /\ sessions[Source].total \in Nat
      BY <1>1, <2>4, ListDomain, SessionIs
    <3> QED
      BY <3>1, <2>4, <2>8 DEF Adds
  <2>10. Totals'
    BY <1>1, <1>3, <2>1, <2>3, <2>8, <2>9 DEF Totals
  <2>11. Counts'
    BY <1>1, <1>2, <1>3, <2>1, UsedIs DEF IInv, Counts
  <2> QED
    BY <1>1, <1>3, <2>5, <2>6, <2>7, <2>10, <2>11, SameFinal DEF IInv
<1>4. CASE Target # 0 /\ ~Merges(sessions, k) /\ Goes("show") /\ UNCHANGED sessions
  <2>1. /\ (poll \in PollsOf)' /\ poll'.phase = "show" /\ poll'.ctx = poll.ctx
        /\ poll'.uses = poll.uses
        /\ poll'.half = {}
    BY <1>1, <1>2, <1>4, GoesIs DEF Goes
  <2>2. Target' = Target
    BY <1>4, <2>1 DEF Target
  <2>3. Shaped' /\ Distinct(sessions)' /\ Listed(sessions)'
    BY <1>1, <1>4, <2>1, RestIs
  <2>4. Directed'
    BY <1>2, <1>4, <2>1, <2>2 DEF Directed
  <2>5. OneJob'
    BY <1>1, <1>4, <2>1 DEF IInv, OneJob, Single, Touching
  <2>6. Totals' /\ Counts'
    <3>1. Steady(sessions, sessions')
      BY <1>1, <1>4, SameRetained DEF Steady, SameUses
    <3> QED
      BY <3>1, <1>1, <1>2, <2>1, SteadyBooks
  <2> QED
    BY <1>1, <1>4, <2>3, <2>4, <2>5, <2>6, SameFinal DEF IInv
<1>5. CASE Target = 0 /\ sessions' = Begun(sessions, k) /\ Goes("close")
  <2>1. /\ (poll \in PollsOf)' /\ poll'.phase = "close" /\ poll'.ctx = poll.ctx
        /\ poll'.uses = poll.uses
        /\ poll'.half = {}
    BY <1>1, <1>2, <1>5, GoesIs DEF Goes
  <2>2. /\ Steady(sessions, sessions') /\ Current(sessions', k) # 0
        /\ k = Active /\ Single(sessions) => Single(sessions')
    BY <1>1, <1>2, <1>5, BegunIs DEF Target
  <2>3. Shaped' /\ Distinct(sessions)' /\ Listed(sessions)'
    BY <1>1, <2>1, <2>2, RestIs DEF Steady
  <2>4. Directed'
    <3>1. Target' # 0
      BY <2>1, <2>2 DEF Target
    <3> QED
      BY <3>1, <1>2, <2>1 DEF Directed
  <2>5. OneJob'
    <3>1. ~torn => Single(sessions)
      BY <1>1 DEF IInv, OneJob
    <3> QED
      BY <3>1, <1>1, <2>1, <2>2 DEF OneJob, Touching, Single
  <2>6. Totals' /\ Counts'
    BY <1>1, <1>2, <2>1, <2>2, SteadyBooks
  <2>7. FinalStep
    BY <1>1, <2>2, RetainedIsFinal DEF Steady
  <2> QED
    BY <2>3, <2>4, <2>5, <2>6, <2>7 DEF IInv
<1> QED
  BY <1>3, <1>4, <1>5 DEF Touch

LEMMA ShowStep == ASSUME IInv, Show PROVE IInv' /\ FinalStep
<1> DEFINE k == poll.ctx.key
<1>1. /\ poll.phase = "show" /\ Rest /\ poll \in PollsOf /\ polls \in Nat
      /\ sessions' = Shown(sessions, k)
      /\ Sound(sessions) /\ sessions \in Seq(Session) /\ limit' = limit /\ torn' = torn
      /\ taken' = taken
      /\ Goes("close")
  BY StateIs DEF Show, Rest
<1>2. poll.ctx \in Contexts /\ k \in Keys /\ poll.half = {} /\ Current(sessions, k) # 0
  BY <1>1, KeyIs DEF IInv, Directed, Touching, Target
<1>3. /\ (poll \in PollsOf)' /\ poll'.phase = "close" /\ poll'.ctx = poll.ctx
      /\ poll'.uses = poll.uses
      /\ poll'.half = {}
  BY <1>1, <1>2, GoesIs DEF Goes
<1>4. /\ Steady(sessions, sessions') /\ Level(sessions, sessions')
      /\ Single(sessions) => Single(sessions')
  BY <1>1, <1>2, ShownIs
<1>5. Current(sessions', k) # 0
  BY <1>2, <1>4, LevelIs
<1>6. Shaped' /\ Distinct(sessions)' /\ Listed(sessions)'
  BY <1>1, <1>3, <1>4, RestIs DEF Steady
<1>7. Directed'
  <2>1. Target' # 0
    BY <1>3, <1>5 DEF Target
  <2> QED
    BY <2>1, <1>2, <1>3 DEF Directed
<1>8. OneJob'
  <2>1. ~torn /\ k = Active => Single(sessions)
    BY DEF IInv, OneJob
  <2> QED
    BY <2>1, <1>1, <1>3, <1>4 DEF OneJob, Touching, Single
<1>9. Totals' /\ Counts'
  BY <1>1, <1>2, <1>3, <1>4, SteadyBooks
<1>10. FinalStep
  BY <1>1, <1>4, RetainedIsFinal DEF Steady
<1> QED
  BY <1>6, <1>7, <1>8, <1>9, <1>10 DEF IInv

LEMMA CloseStep == ASSUME IInv, Close PROVE IInv' /\ FinalStep
<1> DEFINE k == poll.ctx.key
<1>1. /\ poll.phase = "close" /\ Rest /\ poll \in PollsOf /\ polls \in Nat
      /\ sessions' = Closed(sessions, k)
      /\ Sound(sessions) /\ sessions \in Seq(Session) /\ limit' = limit /\ torn' = torn
      /\ taken' = taken
      /\ Goes("weigh")
  BY StateIs DEF Close, Rest
<1>2. poll.ctx \in Contexts /\ k \in Keys /\ poll.half = {}
  BY <1>1, KeyIs DEF IInv, Directed, Touching
<1>3. /\ (poll \in PollsOf)' /\ poll'.phase = "weigh" /\ poll'.ctx = poll.ctx
      /\ poll'.uses = poll.uses
      /\ poll'.half = {}
  BY <1>1, <1>2, GoesIs DEF Goes
<1>4. Steady(sessions, sessions') /\ (Single(sessions) \/ k # Active => Single(sessions'))
  BY <1>1, <1>2, ClosedIs
<1>5. Shaped' /\ Distinct(sessions)' /\ Listed(sessions)'
  BY <1>1, <1>3, <1>4, RestIs DEF Steady
<1>6. Directed'
  BY <1>2, <1>3 DEF Directed
<1>7. OneJob'
  <2>1. ~torn /\ k = Active => Single(sessions)
    BY DEF IInv, OneJob
  <2>2. ~torn => Single(sessions')
    BY <2>1, <1>4
  <2> QED
    BY <2>2, <1>1 DEF OneJob, Single
<1>8. Totals' /\ Counts'
  BY <1>1, <1>2, <1>3, <1>4, SteadyBooks
<1>9. FinalStep
  BY <1>1, <1>4, RetainedIsFinal DEF Steady
<1> QED
  BY <1>5, <1>6, <1>7, <1>8, <1>9 DEF IInv

-----------------------------------------------------------------------------
(* The statements of a merge. *)

\* The first statement of a merge: the roll counts for both sessions.
LEMMA RowAddedIs ==
  ASSUME NEW ss, Sound(ss), NEW t \in DOMAIN ss, NEW e \in DOMAIN ss, t # e, NEW r \in Rolls
  PROVE  LET tt == RowAdded(ss, t, e, r)  g == ss[e].used[r] IN
         /\ Sound(tt) /\ Level(ss, tt) /\ DOMAIN tt = DOMAIN ss /\ tt[t] \in Session
         /\ \A i \in DOMAIN ss \ {t} : tt[i] = ss[i]
         /\ SameName(ss[t], tt[t]) /\ SameEnd(ss[t], tt[t]) /\ tt[t].total = ss[t].total
         /\ g \in Nat /\ UseOf(tt, r) = UseOf(ss, r) + g
         /\ \A y \in Rolls \ {r} : UseOf(tt, y) = UseOf(ss, y)
         /\ SumFunction(tt[t].used) = SumFunction(ss[t].used) + g
<1> DEFINE g == ss[e].used[r]  x == Added(ss[t], r, g)  tt == [ss EXCEPT ![t] = x]
<1>1. ss \in Seq(Session) /\ ss[t] \in Session /\ ss[e] \in Session
  BY ListDomain DEF Sound
<1>2. g \in Nat /\ \A y \in Rolls : ss[t].used[y] \in Nat /\ UseOf(ss, y) \in Nat
  BY <1>1, UsesAreNat
<1>3. RowAdded(ss, t, e, r) = tt
  BY DEF RowAdded
<1> HIDE DEF g
<1>4. /\ x \in Session /\ SameName(ss[t], x) /\ SameEnd(ss[t], x)
      /\ x.total = ss[t].total /\ MoreUse(ss[t], x, r, g)
  BY <1>1, <1>2, AddedIs
<1> HIDE DEF x
<1>5. ASSUME NEW y \in Rolls, y \notin x.rolls PROVE x.used[y] = 0
  <2>1. y # r /\ y \notin ss[t].rolls
    BY <1>5, <1>4 DEF MoreUse
  <2>2. ss[t].used[y] = 0
    BY <2>1 DEF Sound, Listed
  <2> QED
    BY <2>1, <2>2, <1>4 DEF MoreUse
<1>6. /\ Sound(tt) /\ Level(ss, tt) /\ DOMAIN tt = DOMAIN ss /\ tt[t] = x
      /\ \A i \in DOMAIN ss \ {t} : tt[i] = ss[i]
      /\ \A y \in Rolls : UseOf(tt, y) = UseOf(ss, y) - ss[t].used[y] + x.used[y]
  <2>1. x \in Session
    BY <1>4
  <2>2. SameName(ss[t], x)
    BY <1>4
  <2>3. x.status = ss[t].status
    BY <1>4 DEF SameEnd
  <2>4. \A y \in Rolls : y \notin x.rolls => x.used[y] = 0
    BY <1>5
  <2> QED
    BY <2>1, <2>2, <2>3, <2>4, OneChanged, ZenonT(40)
<1> HIDE DEF tt
<1>7. UseOf(tt, r) = UseOf(ss, r) + g
  <2>1. UseOf(tt, r) = UseOf(ss, r) - ss[t].used[r] + x.used[r] /\ x.used[r] = ss[t].used[r] + g
    BY <1>4, <1>6 DEF MoreUse
  <2> QED
    BY <2>1, <1>2
<1>8. ASSUME NEW y \in Rolls \ {r} PROVE UseOf(tt, y) = UseOf(ss, y)
  <2>1. UseOf(tt, y) = UseOf(ss, y) - ss[t].used[y] + x.used[y] /\ x.used[y] = ss[t].used[y]
    BY <1>4, <1>6 DEF MoreUse
  <2> QED
    BY <2>1, <1>2
<1>9. SumFunction(x.used) = SumFunction(ss[t].used) + g
  <2>1. x.used[r] = ss[t].used[r] + g
    BY <1>4 DEF MoreUse
  <2>2. \A y \in Rolls \ {r} : x.used[y] = ss[t].used[y]
    BY <1>4 DEF MoreUse
  <2>3. SumFunction(x.used) = SumFunction(ss[t].used) - ss[t].used[r] + x.used[r]
        /\ SumFunction(ss[t].used) \in Nat
    BY <2>2, <1>1, <1>4, SumOfUse
  <2> QED
    BY <2>1, <2>3, <1>2
<1> QED
  BY <1>2, <1>3, <1>4, <1>6, <1>7, <1>8, <1>9 DEF g

\* The second statement: it counts for the named one.
LEMMA RowDroppedIs ==
  ASSUME NEW ss, Sound(ss), NEW e \in DOMAIN ss, NEW r \in Rolls
  PROVE  LET tt == RowDropped(ss, e, r)  g == ss[e].used[r] IN
         /\ Sound(tt) /\ Level(ss, tt) /\ DOMAIN tt = DOMAIN ss /\ tt[e] \in Session
         /\ \A i \in DOMAIN ss \ {e} : tt[i] = ss[i]
         /\ SameName(ss[e], tt[e]) /\ SameEnd(ss[e], tt[e]) /\ tt[e].total = ss[e].total
         /\ tt[e].rolls = ss[e].rolls \ {r} /\ tt[e].used[r] = 0
         /\ g \in Nat /\ UseOf(tt, r) = UseOf(ss, r) - g
         /\ \A y \in Rolls \ {r} : UseOf(tt, y) = UseOf(ss, y)
         /\ SumFunction(tt[e].used) = SumFunction(ss[e].used) - g
         /\ SumFunction(tt[e].used) \in Nat
<1> DEFINE g == ss[e].used[r]
           x == [ss[e] EXCEPT !.rolls = @ \ {r}, !.used[r] = 0]
           tt == [ss EXCEPT ![e] = x]
<1>1. ss \in Seq(Session) /\ ss[e] \in Session
  BY ListDomain DEF Sound
<1>2. g \in Nat /\ \A y \in Rolls : ss[e].used[y] \in Nat /\ UseOf(ss, y) \in Nat
  BY <1>1, UsesAreNat
<1>3. RowDropped(ss, e, r) = tt
  BY <1>1 DEF RowDropped, Session
<1>4. /\ x \in Session /\ SameName(ss[e], x) /\ SameEnd(ss[e], x) /\ x.total = ss[e].total
      /\ x.rolls = ss[e].rolls \ {r} /\ x.used[r] = 0 /\ \A y \in Rolls \ {r} : x.used[y] = ss[e].used[y]
  BY <1>1, DroppedIs
<1> HIDE DEF x
<1>5. ASSUME NEW y \in Rolls, y \notin x.rolls PROVE x.used[y] = 0
  BY <1>4, <1>5 DEF Sound, Listed
<1>6. /\ Sound(tt) /\ Level(ss, tt) /\ DOMAIN tt = DOMAIN ss /\ tt[e] = x
      /\ \A i \in DOMAIN ss \ {e} : tt[i] = ss[i]
      /\ \A y \in Rolls : UseOf(tt, y) = UseOf(ss, y) - ss[e].used[y] + x.used[y]
  <2>1. x \in Session
    BY <1>4
  <2>2. SameName(ss[e], x)
    BY <1>4
  <2>3. x.status = ss[e].status
    BY <1>4 DEF SameEnd
  <2>4. \A y \in Rolls : y \notin x.rolls => x.used[y] = 0
    BY <1>5
  <2> QED
    BY <2>1, <2>2, <2>3, <2>4, OneChanged, ZenonT(40)
<1> HIDE DEF tt
<1>7. UseOf(tt, r) = UseOf(ss, r) - g
  <2>1. UseOf(tt, r) = UseOf(ss, r) - ss[e].used[r] + x.used[r] /\ x.used[r] = 0
    BY <1>4, <1>6
  <2> QED
    BY <2>1, <1>2
<1>8. ASSUME NEW y \in Rolls \ {r} PROVE UseOf(tt, y) = UseOf(ss, y)
  <2>1. UseOf(tt, y) = UseOf(ss, y) - ss[e].used[y] + x.used[y] /\ x.used[y] = ss[e].used[y]
    BY <1>4, <1>6
  <2> QED
    BY <2>1, <1>2
<1>9. SumFunction(x.used) = SumFunction(ss[e].used) - g /\ SumFunction(x.used) \in Nat
  <2>1. \A y \in Rolls \ {r} : x.used[y] = ss[e].used[y]
    BY <1>4
  <2>2. /\ SumFunction(x.used) = SumFunction(ss[e].used) - ss[e].used[r] + x.used[r]
        /\ SumFunction(ss[e].used) \in Nat /\ SumFunction(x.used) \in Nat
    BY <2>1, <1>1, <1>4, SumOfUse
  <2> QED
    BY <2>2, <1>2, <1>4
<1> QED
  BY <1>2, <1>3, <1>4, <1>6, <1>7, <1>8, <1>9

LEMMA MergeRowStep == ASSUME IInv, NEW r \in Rolls, MergeRow(r) PROVE IInv' /\ FinalStep
<1> DEFINE k == poll.ctx.key  t == Target  e == Source  g == sessions[e].used[r]
           mm == RowAdded(sessions, t, e, r)
<1>1. /\ poll.phase = "merge" /\ poll.half = {} /\ r \in sessions[e].rolls /\ Rest
      /\ poll \in PollsOf /\ polls \in Nat /\ UNCHANGED <<polls, limit, taken, torn>>
      /\ Sound(sessions) /\ sessions \in Seq(Session) /\ taken \in [Rolls -> Int]
  BY StateIs DEF MergeRow, Rest
<1>2. poll.ctx \in Contexts /\ k \in Keys /\ k # Active /\ t # 0 /\ e # 0
  BY <1>1, KeyIs DEF IInv, Directed, Touching
<1>3. /\ t \in DOMAIN sessions /\ e \in DOMAIN sessions /\ t # e
      /\ sessions[t].status = "RUNNING" /\ sessions[e].status = "RUNNING"
      /\ sessions[t] \in Session /\ sessions[e] \in Session
  BY <1>1, <1>2, CurrentIs, ListDomain DEF Target, Source
<1>4. /\ sessions[t].total \in Nat /\ sessions[e].total \in Nat /\ g \in Nat
      /\ SumFunction(sessions[t].used) \in Nat /\ SumFunction(sessions[e].used) \in Nat
      /\ \A y \in Rolls : UseOf(sessions, y) \in Nat
  BY <1>1, <1>3, SessionIs, SumOfUse, UsesAreNat
<1>5. ~torn => /\ \A i \in DOMAIN sessions \ {t, e} : Adds(sessions[i])
               /\ SumFunction(sessions[t].used) + SumFunction(sessions[e].used)
                  = sessions[t].total + sessions[e].total
  BY <1>1, <1>4, SMTT(30) DEF IInv, Totals
<1>6. ~torn => \A y \in Rolls : UseOf(sessions, y) <= taken[y]
  BY <1>1, UsedIs DEF IInv, Counts
<1> HIDE DEF t, e
<1>7. /\ Sound(mm) /\ Level(sessions, mm) /\ DOMAIN mm = DOMAIN sessions /\ mm[t] \in Session
      /\ \A i \in DOMAIN sessions \ {t} : mm[i] = sessions[i]
      /\ SameName(sessions[t], mm[t]) /\ SameEnd(sessions[t], mm[t])
      /\ mm[t].total = sessions[t].total
      /\ UseOf(mm, r) = UseOf(sessions, r) + g
      /\ \A y \in Rolls \ {r} : UseOf(mm, y) = UseOf(sessions, y)
      /\ SumFunction(mm[t].used) = SumFunction(sessions[t].used) + g
  BY <1>1, <1>3, RowAddedIs
<1> HIDE DEF mm
<1>8. mm[e] = sessions[e]
  BY <1>3, <1>7
<1>9. CASE poll' = poll /\ sessions' = RowDropped(mm, e, r)
  <2>1. /\ Sound(sessions') /\ Level(mm, sessions') /\ DOMAIN sessions' = DOMAIN mm
        /\ \A i \in DOMAIN mm \ {e} : sessions'[i] = mm[i]
        /\ sessions'[e].total = mm[e].total
        /\ UseOf(sessions', r) = UseOf(mm, r) - g
        /\ \A y \in Rolls \ {r} : UseOf(sessions', y) = UseOf(mm, y)
        /\ SumFunction(sessions'[e].used) = SumFunction(mm[e].used) - g
    BY <1>3, <1>7, <1>8, <1>9, RowDroppedIs
  <2>2. Level(sessions, sessions')
    BY <1>7, <2>1 DEF Level, Alike, SameName
  <2>3. Target' = t /\ Source' = e
    BY <1>9, <2>2, LevelIs DEF Target, Source, t, e
  <2>4. (poll \in PollsOf)'
    BY <1>1, <1>9 DEF PollsOf
  <2>5. Shaped' /\ Distinct(sessions)' /\ Listed(sessions)'
    BY <1>1, <2>1, <2>4, RestIs
  <2>6. Directed'
    BY <1>1, <1>2, <1>9, <2>3 DEF Directed
  <2>7. OneJob'
    BY <1>1, <1>2, <1>9 DEF OneJob, Touching
  <2>8. /\ sessions'[t] = mm[t] /\ sessions'[t].total = sessions[t].total
        /\ sessions'[e].total = sessions[e].total
        /\ SumFunction(sessions'[t].used) = SumFunction(sessions[t].used) + g
        /\ SumFunction(sessions'[e].used) = SumFunction(sessions[e].used) - g
        /\ \A i \in DOMAIN sessions \ {t, e} : sessions'[i] = sessions[i]
    BY <1>3, <1>7, <1>8, <2>1
  <2>9. Totals'
    <3> SUFFICES ASSUME ~torn
                 PROVE  /\ \A i \in DOMAIN sessions' : Adds(sessions'[i]) \/ i \in {t, e}
                        /\ SumFunction(sessions'[t].used) + SumFunction(sessions'[e].used)
                           = sessions'[t].total + sessions'[e].total + 0
      BY <1>1, <1>9, <2>3 DEF Totals
    <3>1. \A i \in DOMAIN sessions' : Adds(sessions'[i]) \/ i \in {t, e}
      BY <1>5, <1>7, <2>1, <2>8
    <3>2. SumFunction(sessions'[t].used) + SumFunction(sessions'[e].used)
          = sessions'[t].total + sessions'[e].total + 0
      BY <1>4, <1>5, <2>8
    <3> QED
      BY <3>1, <3>2
  <2>10. Counts'
    <3>1. UseOf(sessions', r) = UseOf(sessions, r)
      BY <1>4, <1>7, <2>1
    <3>2. \A y \in Rolls : UseOf(sessions', y) = UseOf(sessions, y)
      BY <3>1, <1>7, <2>1
    <3>3. ~torn => \A y \in Rolls : UseOf(sessions', y) <= taken[y] + 0
      BY <1>1, <1>6, <3>2
    <3> QED
      BY <1>1, <1>9, <3>3, UsedIs DEF Counts
  <2>11. Retained(sessions, sessions')
    BY <1>3, <1>7, <2>1, <2>8 DEF Retained
  <2> QED
    BY <1>1, <2>5, <2>6, <2>7, <2>9, <2>10, <2>11, RetainedIsFinal DEF IInv
<1>10. CASE poll' = [poll EXCEPT !.half = {r}] /\ sessions' = mm
  <2>1. /\ poll'.phase = "merge" /\ poll'.ctx = poll.ctx /\ poll'.uses = poll.uses
        /\ poll'.half = {r}
        /\ (poll \in PollsOf)'
    <3>1. PollsOf' = PollsOf
      BY <1>1 DEF PollsOf
    <3>2. poll' \in PollsOf /\ poll'.phase = poll.phase /\ poll'.ctx = poll.ctx
          /\ poll'.uses = poll.uses
          /\ poll'.half = {r}
      BY <1>1, <1>10 DEF PollsOf
    <3> QED
      BY <1>1, <3>1, <3>2
  <2>2. Target' = t /\ Source' = e
    BY <1>7, <1>10, <2>1, LevelIs DEF Target, Source, t, e
  <2>3. Shaped' /\ Distinct(sessions)' /\ Listed(sessions)'
    BY <1>1, <1>7, <1>10, <2>1, RestIs
  <2>4. sessions'[e] = sessions[e]
    BY <1>8, <1>10
  <2>5. Directed'
    <3>1. r \in sessions'[e].rolls
      BY <1>1, <2>4 DEF e
    <3> QED
      BY <1>2, <2>1, <2>2, <3>1 DEF Directed
  <2>6. OneJob'
    BY <1>2, <2>1 DEF OneJob, Touching
  <2>7. Totals'
    <3>1. (CHOOSE x \in poll'.half : TRUE) = r /\ poll'.half # {}
      BY <2>1
    <3> SUFFICES ASSUME ~torn
                 PROVE  /\ \A i \in DOMAIN sessions' : Adds(sessions'[i]) \/ i \in {t, e}
                        /\ SumFunction(sessions'[t].used) + SumFunction(sessions'[e].used)
                           = sessions'[t].total + sessions'[e].total + sessions'[e].used[r]
      BY <1>1, <2>1, <2>2, <3>1 DEF Totals
    <3>2. \A i \in DOMAIN sessions' : Adds(sessions'[i]) \/ i \in {t, e}
      BY <1>5, <1>7, <1>10
    <3>3. SumFunction(sessions'[t].used) + SumFunction(sessions'[e].used)
          = sessions'[t].total + sessions'[e].total + g
      BY <1>4, <1>5, <1>7, <1>10, <2>4
    <3> QED
      BY <3>2, <3>3, <2>4
  <2>8. Counts'
    <3> SUFFICES ASSUME ~torn, NEW y \in Rolls
                 PROVE  UseOf(sessions', y) <= taken[y] + (IF y \in {r} THEN sessions'[e].used[y] ELSE 0)
      BY <1>1, <2>1, <2>2, UsedIs DEF Counts
    <3>1. UseOf(sessions, y) <= taken[y] /\ taken[y] \in Int /\ UseOf(sessions, y) \in Nat
      BY <1>1, <1>4, <1>6
    <3>2. CASE y = r
      BY <3>1, <3>2, <1>4, <1>7, <1>10, <2>4
    <3>3. CASE y # r
      BY <3>1, <3>3, <1>7, <1>10
    <3> QED
      BY <3>2, <3>3
  <2>9. Retained(sessions, sessions')
    BY <1>3, <1>7, <1>10 DEF Retained
  <2> QED
    BY <1>1, <2>3, <2>5, <2>6, <2>7, <2>8, <2>9, RetainedIsFinal DEF IInv
<1> QED
  BY <1>9, <1>10 DEF MergeRow, mm, t, e

LEMMA DropRowStep == ASSUME IInv, NEW r \in Rolls, DropRow(r) PROVE IInv' /\ FinalStep
<1> DEFINE k == poll.ctx.key  t == Target  e == Source  g == sessions[e].used[r]
<1>1. /\ poll.phase = "merge" /\ r \in poll.half /\ Rest
      /\ poll \in PollsOf /\ polls \in Nat /\ UNCHANGED <<polls, limit, taken, torn>>
      /\ Sound(sessions) /\ sessions \in Seq(Session) /\ taken \in [Rolls -> Int]
      /\ sessions' = RowDropped(sessions, e, r) /\ poll' = [poll EXCEPT !.half = {}]
  BY StateIs DEF DropRow, Rest
<1>2. poll.ctx \in Contexts /\ k \in Keys /\ k # Active /\ t # 0 /\ e # 0 /\ poll.half = {r}
  BY <1>1, KeyIs DEF IInv, Directed, Touching
<1>3. /\ t \in DOMAIN sessions /\ e \in DOMAIN sessions /\ t # e
      /\ sessions[t].status = "RUNNING" /\ sessions[e].status = "RUNNING"
      /\ sessions[t] \in Session /\ sessions[e] \in Session
  BY <1>1, <1>2, CurrentIs, ListDomain DEF Target, Source
<1>4. /\ sessions[t].total \in Nat /\ sessions[e].total \in Nat /\ g \in Nat
      /\ SumFunction(sessions[t].used) \in Nat /\ SumFunction(sessions[e].used) \in Nat
      /\ \A y \in Rolls : UseOf(sessions, y) \in Nat
  BY <1>1, <1>3, SessionIs, SumOfUse, UsesAreNat
<1>5. ~torn => /\ \A i \in DOMAIN sessions \ {t, e} : Adds(sessions[i])
               /\ SumFunction(sessions[t].used) + SumFunction(sessions[e].used)
                  = sessions[t].total + sessions[e].total + g
  <2>1. (CHOOSE x \in poll.half : TRUE) = r /\ poll.half # {}
    BY <1>2
  <2> QED
    BY <2>1, <1>1 DEF IInv, Totals
<1>6. ~torn => \A y \in Rolls : UseOf(sessions, y) <= taken[y] + (IF y = r THEN g ELSE 0)
  BY <1>1, <1>2, UsedIs DEF IInv, Counts
<1> HIDE DEF t, e
<1>7. /\ Sound(sessions') /\ Level(sessions, sessions') /\ DOMAIN sessions' = DOMAIN sessions
      /\ \A i \in DOMAIN sessions \ {e} : sessions'[i] = sessions[i]
      /\ sessions'[e].total = sessions[e].total
      /\ UseOf(sessions', r) = UseOf(sessions, r) - g
      /\ \A y \in Rolls \ {r} : UseOf(sessions', y) = UseOf(sessions, y)
      /\ SumFunction(sessions'[e].used) = SumFunction(sessions[e].used) - g
  BY <1>1, <1>3, RowDroppedIs, SMTT(30)
<1>8. /\ poll'.phase = "merge" /\ poll'.ctx = poll.ctx /\ poll'.uses = poll.uses
      /\ poll'.half = {}
      /\ (poll \in PollsOf)'
  <2>1. PollsOf' = PollsOf
    BY <1>1 DEF PollsOf
  <2>2. poll' \in PollsOf /\ poll'.phase = poll.phase /\ poll'.ctx = poll.ctx
        /\ poll'.uses = poll.uses
        /\ poll'.half = {}
    BY <1>1 DEF PollsOf
  <2> QED
    BY <1>1, <2>1, <2>2
<1>9. Target' = t /\ Source' = e
  BY <1>7, <1>8, LevelIs DEF Target, Source, t, e
<1>10. Shaped' /\ Distinct(sessions)' /\ Listed(sessions)'
  BY <1>1, <1>7, <1>8, RestIs
<1>11. Directed'
  BY <1>2, <1>8, <1>9 DEF Directed
<1>12. OneJob'
  BY <1>2, <1>8 DEF OneJob, Touching
<1>13. sessions'[t] = sessions[t]
  BY <1>3, <1>7
<1>14. Totals'
  <2> SUFFICES ASSUME ~torn
               PROVE  /\ \A i \in DOMAIN sessions' : Adds(sessions'[i]) \/ i \in {t, e}
                      /\ SumFunction(sessions'[t].used) + SumFunction(sessions'[e].used)
                         = sessions'[t].total + sessions'[e].total + 0
    BY <1>1, <1>8, <1>9 DEF Totals
  <2>1. \A i \in DOMAIN sessions' : Adds(sessions'[i]) \/ i \in {t, e}
    BY <1>5, <1>7
  <2>2. SumFunction(sessions'[t].used) + SumFunction(sessions'[e].used)
        = sessions'[t].total + sessions'[e].total + 0
    BY <1>4, <1>5, <1>7, <1>13
  <2> QED
    BY <2>1, <2>2
<1>15. Counts'
  <2> SUFFICES ASSUME ~torn, NEW y \in Rolls PROVE UseOf(sessions', y) <= taken[y] + 0
    BY <1>1, <1>8, UsedIs DEF Counts
  <2>1. UseOf(sessions, y) \in Nat /\ taken[y] \in Int
        /\ UseOf(sessions, y) <= taken[y] + (IF y = r THEN g ELSE 0)
    BY <1>1, <1>4, <1>6
  <2>2. CASE y = r
    BY <2>1, <2>2, <1>4, <1>7
  <2>3. CASE y # r
    BY <2>1, <2>3, <1>7
  <2> QED
    BY <2>2, <2>3
<1>16. Retained(sessions, sessions')
  BY <1>3, <1>7 DEF Retained
<1> QED
  BY <1>1, <1>10, <1>11, <1>12, <1>14, <1>15, <1>16, RetainedIsFinal DEF IInv

\* A session that lists no roll used none.
LEMMA NothingUsed ==
  ASSUME NEW ss, Sound(ss), NEW e \in DOMAIN ss, ss[e].rolls = {}
  PROVE  (\A r \in Rolls : ss[e].used[r] = 0) /\ SumFunction(ss[e].used) = 0
<1> DEFINE u == ss[e].used
<1>1. \A r \in Rolls : u[r] = 0
  BY DEF Sound, Listed
<1>2. ss[e] \in Session
  BY ListDomain DEF Sound
<1>3. DOMAIN u = Rolls
  BY <1>2, SessionIs
<1> HIDE DEF u
<1>4. SumFunctionOnSet(u, Rolls) = 0
  BY <1>1, SumOfZeros, UsageAssumption DEF UsageAssumption
<1> QED
  BY <1>1, <1>3, <1>4 DEF SumFunction, u

LEMMA SumIsNat ==
  ASSUME NEW s \in Session
  PROVE  SumFunction(s.used) \in Nat
<1>1. DOMAIN s.used = Rolls /\ \A x \in Rolls : s.used[x] \in Nat
  BY SessionIs
<1>2. SumFunctionOnSet(s.used, Rolls) \in Nat
  BY <1>1, SumType, UsageAssumption DEF UsageAssumption
<1> QED
  BY <1>1, <1>2 DEF SumFunction

LEMMA MergeTotalStep == ASSUME IInv, MergeTotal PROVE IInv' /\ FinalStep
<1> DEFINE k == poll.ctx.key  t == Target  e == Source  n == sessions[e].total
           x == Counted(sessions[t], n)
<1>1. /\ poll.phase = "merge" /\ sessions[e].rolls = {} /\ Rest /\ Goes("drop")
      /\ poll \in PollsOf /\ polls \in Nat /\ UNCHANGED <<polls, limit, taken, torn>>
      /\ Sound(sessions) /\ sessions \in Seq(Session) /\ taken \in [Rolls -> Int]
      /\ sessions' = [sessions EXCEPT ![t] = x]
  BY StateIs DEF MergeTotal, Rest, TotalAdded
<1>2. poll.ctx \in Contexts /\ k \in Keys /\ k # Active /\ t # 0 /\ e # 0 /\ poll.half = {}
  BY <1>1, KeyIs DEF IInv, Directed, Touching
<1>3. /\ t \in DOMAIN sessions /\ e \in DOMAIN sessions /\ t # e
      /\ sessions[t].status = "RUNNING" /\ sessions[e].status = "RUNNING"
      /\ sessions[t] \in Session /\ sessions[e] \in Session
  BY <1>1, <1>2, CurrentIs, ListDomain DEF Target, Source
<1>4. /\ sessions[t].total \in Nat /\ n \in Nat
      /\ SumFunction(sessions[t].used) \in Nat
      /\ SumFunction(sessions[e].used) = 0
      /\ \A y \in Rolls : UseOf(sessions, y) \in Nat /\ sessions[t].used[y] \in Nat
  <2> HIDE DEF t, e
  <2>1. sessions[t].total \in Nat /\ n \in Nat
    BY <1>3, SessionIs
  <2>2. SumFunction(sessions[t].used) \in Nat
    BY <1>3, SumIsNat
  <2>3. SumFunction(sessions[e].used) = 0
    BY <1>1, <1>3, NothingUsed
  <2>4. \A y \in Rolls : UseOf(sessions, y) \in Nat /\ sessions[t].used[y] \in Nat
    BY <1>1, <1>3, UsesAreNat
  <2> QED
    BY <2>1, <2>2, <2>3, <2>4
<1>5. ~torn => /\ \A i \in DOMAIN sessions \ {t, e} : Adds(sessions[i])
               /\ SumFunction(sessions[t].used) + SumFunction(sessions[e].used)
                  = sessions[t].total + n + 0
  BY <1>1, <1>2 DEF IInv, Totals
<1> HIDE DEF t, e, n
<1>6. /\ x \in Session /\ SameName(sessions[t], x) /\ SameEnd(sessions[t], x)
      /\ x.total = sessions[t].total + n
      /\ x.rolls = sessions[t].rolls /\ x.used = sessions[t].used
  BY <1>1, <1>3, <1>4, CountedIs
<1> HIDE DEF x
<1>7. /\ Sound(sessions') /\ Level(sessions, sessions') /\ DOMAIN sessions' = DOMAIN sessions
      /\ sessions'[t] = x /\ \A i \in DOMAIN sessions \ {t} : sessions'[i] = sessions[i]
      /\ \A y \in Rolls : UseOf(sessions', y) = UseOf(sessions, y) - sessions[t].used[y] + x.used[y]
  <2>1. x.status = sessions[t].status
    BY <1>6 DEF SameEnd
  <2>5. SameName(sessions[t], x)
    BY <1>6
  <2>6. x \in Session /\ Sound(sessions) /\ t \in DOMAIN sessions
    BY <1>1, <1>3, <1>6
  <2>2. \A y \in Rolls : y \notin x.rolls => x.used[y] = 0
    BY <1>3, <1>1, <1>6 DEF Sound, Listed
  <2> DEFINE tt == [sessions EXCEPT ![t] = x]
  <2>3. /\ Sound(tt) /\ Level(sessions, tt) /\ DOMAIN tt = DOMAIN sessions
        /\ tt[t] = x /\ \A i \in DOMAIN sessions \ {t} : tt[i] = sessions[i]
        /\ \A y \in Rolls : UseOf(tt, y) = UseOf(sessions, y) - sessions[t].used[y] + x.used[y]
    BY <2>1, <2>2, <2>5, <2>6, OneChanged, ZenonT(40)
  <2>4. sessions' = tt
    BY <1>1
  <2> HIDE DEF tt
  <2> QED
    BY <2>3, <2>4
<1>8. /\ (poll \in PollsOf)' /\ poll'.phase = "drop" /\ poll'.ctx = poll.ctx
      /\ poll'.uses = poll.uses
      /\ poll'.half = {}
  BY <1>1, <1>2, GoesIs DEF Goes
<1>9. Target' = t /\ Source' = e
  BY <1>7, <1>8, LevelIs DEF Target, Source, t, e
<1>10. Shaped' /\ Distinct(sessions)' /\ Listed(sessions)'
  BY <1>1, <1>7, <1>8, RestIs
<1>11. sessions'[e] = sessions[e]
  BY <1>3, <1>7
<1>12. Directed'
  BY <1>1, <1>2, <1>8, <1>9, <1>11 DEF Directed, e
<1>13. OneJob'
  BY <1>2, <1>8 DEF OneJob, Touching
<1>14. Totals'
  <2> SUFFICES ASSUME ~torn, NEW i \in DOMAIN sessions' PROVE Adds(sessions'[i]) \/ i = e
    BY <1>1, <1>8, <1>9 DEF Totals
  <2>1. CASE i = t
    <3>1. SumFunction(x.used) = x.total
      BY <1>4, <1>5, <1>6
    <3> QED
      BY <3>1, <2>1, <1>7 DEF Adds
  <2>2. CASE i # t
    BY <2>2, <1>5, <1>7
  <2> QED
    BY <2>1, <2>2
<1>15. Counts'
  <2>1. \A y \in Rolls : UseOf(sessions', y) = UseOf(sessions, y)
    BY <1>4, <1>6, <1>7
  <2> QED
    BY <2>1, <1>1, <1>2, <1>8, UsedIs DEF IInv, Counts
<1>16. Retained(sessions, sessions')
  BY <1>3, <1>7 DEF Retained
<1> QED
  BY <1>1, <1>10, <1>12, <1>13, <1>14, <1>15, <1>16, RetainedIsFinal DEF IInv

LEMMA DropSourceStep == ASSUME IInv, DropSource PROVE IInv' /\ FinalStep
<1> DEFINE k == poll.ctx.key  t == Target  e == Source
<1>1. /\ poll.phase = "drop" /\ Rest /\ Goes("show")
      /\ poll \in PollsOf /\ polls \in Nat /\ UNCHANGED <<polls, limit, taken, torn>>
      /\ Sound(sessions) /\ sessions \in Seq(Session)
      /\ sessions' = RemoveAt(sessions, e)
  BY StateIs DEF DropSource, Rest
<1>2. /\ poll.ctx \in Contexts /\ k \in Keys /\ k # Active /\ t # 0 /\ e # 0 /\ poll.half = {}
      /\ sessions[e].rolls = {}
  BY <1>1, KeyIs DEF IInv, Directed, Touching
<1>3. e \in DOMAIN sessions /\ e = Current(sessions, Active) /\ t = Current(sessions, k)
  BY <1>1, <1>2, CurrentIs DEF Target, Source
<1>4. \A y \in Rolls : sessions[e].used[y] = 0 /\ UseOf(sessions, y) \in Nat
  BY <1>1, <1>2, <1>3, UsesAreNat, NothingUsed
<1>5. ~torn => \A i \in DOMAIN sessions : Adds(sessions[i]) \/ i = e
  BY <1>1 DEF IInv, Totals
<1> HIDE DEF t, e
<1>6. /\ Sound(sessions') /\ Retained(sessions, sessions') /\ Current(sessions', k) # 0
      /\ \A i \in DOMAIN sessions' : \E j \in DOMAIN sessions \ {e} : sessions'[i] = sessions[j]
  BY <1>1, <1>2, <1>3, DropIs
<1>7. /\ (poll \in PollsOf)' /\ poll'.phase = "show" /\ poll'.ctx = poll.ctx
      /\ poll'.uses = poll.uses
      /\ poll'.half = {}
  BY <1>1, <1>2, GoesIs DEF Goes
<1>8. Shaped' /\ Distinct(sessions)' /\ Listed(sessions)'
  BY <1>1, <1>6, <1>7, RestIs
<1>9. Directed'
  <2>1. Target' # 0
    BY <1>6, <1>7 DEF Target
  <2> QED
    BY <2>1, <1>2, <1>7 DEF Directed
<1>10. OneJob'
  BY <1>2, <1>7 DEF OneJob, Touching
<1>11. Totals'
  <2>1. ~torn => \A i \in DOMAIN sessions' : Adds(sessions'[i])
    BY <1>5, <1>6
  <2> QED
    BY <2>1, <1>1, <1>7 DEF Totals
<1>12. Counts'
  <2>1. \A y \in Rolls : UseOf(sessions', y) = UseOf(sessions, y) - sessions[e].used[y]
    BY <1>1, <1>3, UseRemoved
  <2>2. \A y \in Rolls : UseOf(sessions', y) = UseOf(sessions, y)
    BY <2>1, <1>4
  <2> QED
    BY <2>2, <1>1, <1>2, <1>7, UsedIs DEF IInv, Counts
<1> QED
  BY <1>1, <1>6, <1>8, <1>9, <1>10, <1>11, <1>12, RetainedIsFinal DEF IInv

-----------------------------------------------------------------------------
(* The end of a report, users, time, faults. *)

LEMMA IdleIs ==
  ASSUME limit' = limit, poll' = Idle
  PROVE  /\ (poll \in PollsOf)' /\ poll'.phase = "idle" /\ poll'.half = {} /\ poll'.uses = FALSE
         /\ Directed'
<1>1. Idle \in PollsOf
  <2>1. [r \in {} |-> 0] \in [{} -> 0..limit.grams] /\ {} \in SUBSET limit.rolls
    OBVIOUS
  <2>2. [r \in {} |-> 0] \in UNION {[D -> 0..limit.grams] : D \in SUBSET limit.rolls}
    BY <2>1
  <2>3. NoContext \in Contexts \cup {NoContext}
    OBVIOUS
  <2> QED
    BY <2>2, <2>3 DEF PollsOf, Idle
<1>2. PollsOf' = PollsOf
  BY DEF PollsOf
<1>3. poll'.phase = "idle" /\ poll'.half = {} /\ poll'.uses = FALSE
  BY DEF Idle
<1>4. Directed'
  BY <1>3 DEF Directed, Touching
<1> QED
  BY <1>1, <1>2, <1>3, <1>4

LEMMA FinishStep == ASSUME IInv, Finish PROVE IInv' /\ FinalStep
<1> DEFINE F == IF poll.ctx.finish # "no" THEN Finishing(poll.ctx.key) ELSE {}
           s == poll.ctx.finish = "success"
<1>1. /\ poll.phase = "weigh" /\ Rest /\ poll' = Idle /\ polls \in Nat
      /\ UNCHANGED <<polls, limit, taken, torn>>
      /\ Sound(sessions) /\ sessions \in Seq(Session) /\ poll.half = {}
  BY StateIs DEF Finish, Rest, IInv, Directed
<1>2. sessions' = [i \in DOMAIN sessions |-> IF i \in F THEN Ended(sessions[i], s) ELSE sessions[i]]
  BY DEF Finish
<1>3. \A i \in F : i \in DOMAIN sessions /\ sessions[i].status = "RUNNING"
  <2>1. \A i \in Finishing(poll.ctx.key) : i \in DOMAIN sessions /\ sessions[i].status = "RUNNING"
    BY <1>1, CurrentIs DEF Finishing, Running
  <2> QED
    BY <2>1
<1> HIDE DEF F
<1>4. s \in BOOLEAN
  OBVIOUS
<1> HIDE DEF s
<1>5. ASSUME NEW i \in DOMAIN sessions
      PROVE  /\ sessions'[i] \in Session /\ SameName(sessions[i], sessions'[i])
             /\ SameUse(sessions[i], sessions'[i])
             /\ sessions'[i].status = "RUNNING" => sessions[i].status = "RUNNING"
             /\ sessions[i].status # "RUNNING" => sessions'[i] = sessions[i]
  <2>1. sessions[i] \in Session
    BY <1>1, ListDomain
  <2>2. CASE i \in F
    <3>1. sessions'[i] = Ended(sessions[i], s) /\ sessions[i].status = "RUNNING"
      BY <2>2, <1>2, <1>3
    <3> QED
      BY <3>1, <2>1, <1>1, <1>4, EndedIs
  <2>3. CASE i \notin F
    <3>1. sessions'[i] = sessions[i]
      BY <2>3, <1>2
    <3> QED
      BY <3>1, <2>1 DEF SameName, SameUse
  <2> QED
    BY <2>2, <2>3
<1>6. DOMAIN sessions' = DOMAIN sessions
  BY <1>2
<1>7. sessions' \in Seq(Session)
  <2>1. DOMAIN sessions = 1..Len(sessions) /\ Len(sessions) \in Nat
    BY <1>1, ListDomain
  <2>2. sessions' = [i \in 1..Len(sessions) |-> sessions'[i]]
    BY <1>2, <2>1
  <2>3. \A i \in 1..Len(sessions) : sessions'[i] \in Session
    BY <1>5, <2>1
  <2> QED
    BY <2>1, <2>2, <2>3
<1>8. Alike(sessions, sessions')
  BY <1>5, <1>6 DEF Alike
<1>9. Steady(sessions, sessions') /\ (Single(sessions) => Single(sessions'))
  BY <1>1, <1>5, <1>7, <1>8, QuietIs
<1>10. (poll \in PollsOf)' /\ poll'.phase = "idle" /\ poll'.half = {} /\ Directed'
  BY <1>1, IdleIs
<1>11. Shaped' /\ Distinct(sessions)' /\ Listed(sessions)'
  BY <1>1, <1>9, <1>10, RestIs DEF Steady
<1>12. OneJob'
  <2>1. ~torn => Single(sessions)
    BY <1>1 DEF IInv, OneJob, Touching
  <2> QED
    BY <2>1, <1>1, <1>9 DEF OneJob, Single
<1>13. Totals' /\ Counts'
  BY <1>1, <1>9, <1>10, SteadyBooks
<1> QED
  BY <1>1, <1>9, <1>10, <1>11, <1>12, <1>13, RetainedIsFinal DEF IInv, Steady

LEMMA ReweighStep ==
  ASSUME IInv, NEW r \in limit.rolls, NEW g \in 0..limit.grams, Reweigh(r, g)
  PROVE  IInv' /\ FinalStep
<1>1. /\ weight' = [weight EXCEPT ![r] = g]
      /\ UNCHANGED <<sessions, poll, polls, faults, taken, torn, limit>>
  BY DEF Reweigh
<1>2. /\ Shaped /\ Sound(sessions) /\ sessions \in Seq(Session) /\ r \in Rolls
      /\ limit.grams \in Nat
      /\ poll \in PollsOf /\ taken \in [Rolls -> Int] /\ torn \in BOOLEAN
      /\ weight \in [Rolls -> -1..limit.grams]
  BY StateIs DEF IInv
<1>3. weight' \in [Rolls -> -1..limit.grams] /\ taken' \in [Rolls -> Int] /\ torn' \in BOOLEAN
  BY <1>1, <1>2
<1>4. (poll \in PollsOf)'
  BY <1>1, <1>2 DEF PollsOf
<1>5. Sound(sessions')
  BY <1>1, <1>2
<1>6. Shaped' /\ Distinct(sessions)' /\ Listed(sessions)'
  BY <1>1, <1>2, <1>3, <1>4, <1>5, ShapedAgain
<1>7. Target' = Target /\ Source' = Source
  BY <1>1 DEF Target, Source
<1>8. Directed'
  BY <1>1, <1>7 DEF IInv, Directed
<1>9. OneJob'
  BY <1>1 DEF IInv, OneJob, Single
<1>10. Totals'
  BY <1>1, <1>7 DEF IInv, Totals
<1>11. Counts'
  BY <1>1, <1>7, UsedIs DEF IInv, Counts
<1> QED
  BY <1>1, <1>2, <1>6, <1>8, <1>9, <1>10, <1>11, SameFinal DEF IInv

LEMMA AgeStep == ASSUME IInv, NEW i \in DOMAIN sessions, Age(i) PROVE IInv' /\ FinalStep
<1> DEFINE x == [sessions[i] EXCEPT !.recent = FALSE]  tt == [sessions EXCEPT ![i] = x]
<1>1. /\ poll.phase = "idle" /\ sessions' = tt
      /\ UNCHANGED <<weight, poll, polls, edits, faults, taken, torn, limit>>
  BY DEF Age
<1>2. /\ Shaped /\ Sound(sessions) /\ sessions \in Seq(Session)
      /\ sessions[i] \in Session /\ poll \in PollsOf /\ poll.half = {}
      /\ ~poll.phase \in {"merge", "drop"}
      /\ taken \in [Rolls -> Int] /\ torn \in BOOLEAN /\ weight \in [Rolls -> -1..limit.grams]
  BY <1>1, StateIs, ListDomain DEF IInv, Directed
<1>3. /\ x \in Session /\ SameName(sessions[i], x) /\ SameUse(sessions[i], x)
      /\ x.status = sessions[i].status /\ x.done = sessions[i].done
  BY <1>2 DEF Session, SameName, SameUse
<1> HIDE DEF x
<1>4. /\ Sound(tt) /\ Level(sessions, tt) /\ (Single(sessions) => Single(tt))
      /\ DOMAIN tt = DOMAIN sessions /\ tt[i] = x
      /\ \A j \in DOMAIN sessions \ {i} : tt[j] = sessions[j]
      /\ \A y \in Rolls : UseOf(tt, y) = UseOf(sessions, y) - sessions[i].used[y] + x.used[y]
  <2>1. x \in Session /\ Sound(sessions) /\ i \in DOMAIN sessions
    BY <1>2, <1>3
  <2>2. SameName(sessions[i], x)
    BY <1>3
  <2>3. x.status = sessions[i].status
    BY <1>3
  <2>4. \A y \in Rolls : y \notin x.rolls => x.used[y] = 0
    BY <1>2, <1>3 DEF Sound, Listed, SameUse
  <2> QED
    BY <2>1, <2>2, <2>3, <2>4, OneChanged, ZenonT(40)
<1> HIDE DEF tt
<1>5. (poll \in PollsOf)'
  BY <1>1, <1>2 DEF PollsOf
<1>6. weight' \in [Rolls -> -1..limit.grams] /\ taken' \in [Rolls -> Int] /\ torn' \in BOOLEAN
  BY <1>1, <1>2
<1>7. Shaped' /\ Distinct(sessions)' /\ Listed(sessions)'
  BY <1>1, <1>2, <1>4, <1>5, <1>6, ShapedAgain
<1>8. Directed'
  BY <1>1, <1>2 DEF IInv, Directed, Touching
<1>9. OneJob'
  BY <1>1, <1>4 DEF IInv, OneJob, Touching, Single
<1>10. Totals'
  <2>1. ~torn => \A j \in DOMAIN sessions : Adds(sessions[j])
    BY <1>1 DEF IInv, Totals
  <2>2. ~torn => \A j \in DOMAIN sessions' : Adds(sessions'[j])
    BY <2>1, <1>1, <1>3, <1>4, AddsAgain
  <2> QED
    BY <2>2, <1>1 DEF Totals
<1>11. Counts'
  <2>1. ASSUME NEW y \in Rolls PROVE UseOf(sessions', y) = UseOf(sessions, y)
    <3>1. x.used[y] = sessions[i].used[y] /\ UseOf(sessions, y) \in Nat
          /\ sessions[i].used[y] \in Nat
      BY <1>2, <1>3, UsesAreNat DEF SameUse
    <3> QED
      BY <3>1, <1>1, <1>4
  <2> QED
    BY <2>1, <1>1, <1>2, UsedIs DEF IInv, Counts
<1>12. FinalStep
  <2> SUFFICES ASSUME NEW j \in DOMAIN sessions, sessions[j].status # "RUNNING"
               PROVE  LET s == sessions[j]  t == sessions'[j] IN
                      /\ j \in DOMAIN sessions'
                      /\ t.key = s.key /\ t.run = s.run /\ t.status = s.status /\ t.done = s.done
                      /\ t.total <= s.total + (IF s.recent THEN SmallDrop ELSE 0)
    BY DEF FinalStep
  <2>1. sessions[j].total \in Nat /\ SmallDrop \in Nat
    BY <1>2, ListDomain, SessionIs, UsageAssumption DEF UsageAssumption
  <2>2. CASE j = i
    BY <2>1, <2>2, <1>1, <1>3, <1>4 DEF SameName, SameUse
  <2>3. CASE j # i
    BY <2>1, <2>3, <1>1, <1>4
  <2> QED
    BY <2>2, <2>3
<1> QED
  BY <1>7, <1>8, <1>9, <1>10, <1>11, <1>12 DEF IInv

LEMMA FaultStep == ASSUME IInv, Fault PROVE IInv' /\ FinalStep
<1>1. /\ poll' = Idle /\ torn' = (torn \/ poll.phase \in {"merge", "drop", "show", "close"})
      /\ UNCHANGED <<weight, sessions, polls, edits, taken, limit>> /\ poll.phase # "idle"
  BY DEF Fault
<1>2. /\ Shaped /\ Sound(sessions) /\ sessions \in Seq(Session)
      /\ poll \in PollsOf /\ taken \in [Rolls -> Int] /\ torn \in BOOLEAN
      /\ weight \in [Rolls -> -1..limit.grams]
  BY StateIs DEF IInv
<1>3. (poll \in PollsOf)' /\ poll'.phase = "idle" /\ poll'.half = {} /\ Directed'
  BY <1>1, IdleIs
<1>4. torn' \in BOOLEAN
  BY <1>1
<1>5. ~torn' => ~torn /\ poll.phase \in {"touch", "weigh"}
  BY <1>1, <1>2 DEF PollsOf
<1>6. weight' \in [Rolls -> -1..limit.grams] /\ taken' \in [Rolls -> Int] /\ Sound(sessions')
  BY <1>1, <1>2
<1>7. Shaped' /\ Distinct(sessions)' /\ Listed(sessions)'
  BY <1>1, <1>2, <1>3, <1>4, <1>6, ShapedAgain
<1>8. OneJob'
  BY <1>1, <1>5 DEF IInv, OneJob, Touching, Single
<1>9. Totals'
  BY <1>1, <1>3, <1>5 DEF IInv, Totals
<1>10. Counts'
  <2>1. poll.phase \in {"touch", "weigh"} => poll.half = {}
    BY DEF IInv, Directed
  <2> QED
    BY <2>1, <1>1, <1>3, <1>5, UsedIs DEF IInv, Counts
<1> QED
  BY <1>1, <1>2, <1>3, <1>7, <1>8, <1>9, <1>10, SameFinal DEF IInv

-----------------------------------------------------------------------------
(* The weights. *)

\* A report weighs a roll: what is left to show is what becomes of the sessions.
LEMMA WeighedIs ==
  ASSUME IInv, NEW r \in Rolls, poll.phase = "weigh",
         poll' = [poll EXCEPT !.grams = [x \in DOMAIN @ \ {r} |-> @[x]]],
         UNCHANGED <<polls, edits, faults, torn, limit>>,
         weight' \in [Rolls -> -1..limit.grams], taken' \in [Rolls -> Int],
         Sound(sessions'), FinalStep,
         Single(sessions) => Single(sessions'), Balanced(sessions) => Balanced(sessions'),
         \A y \in Rolls : UseOf(sessions', y) - taken'[y] <= UseOf(sessions, y) - taken[y]
  PROVE  IInv' /\ FinalStep
<1>1. /\ Shaped /\ Sound(sessions) /\ sessions \in Seq(Session) /\ limit.grams \in Nat
      /\ poll \in PollsOf /\ taken \in [Rolls -> Int] /\ torn \in BOOLEAN /\ poll.half = {}
      /\ DOMAIN poll.grams \in SUBSET limit.rolls
      /\ \A x \in DOMAIN poll.grams : poll.grams[x] \in 0..limit.grams
  BY StateIs DEF IInv, Directed
<1>2. /\ (poll \in PollsOf)' /\ poll'.phase = "weigh" /\ poll'.half = {} /\ poll'.ctx = poll.ctx
      /\ poll'.uses = poll.uses
  <2> DEFINE D == DOMAIN poll.grams \ {r}  h == [x \in D |-> poll.grams[x]]
  <2>1. D \in SUBSET limit.rolls /\ h \in [D -> 0..limit.grams]
    BY <1>1
  <2>2. poll' = [poll EXCEPT !.grams = h]
    BY <1>1 DEF PollsOf
  <2> HIDE DEF D, h
  <2>3. h \in UNION {[E -> 0..limit.grams] : E \in SUBSET limit.rolls}
    BY <2>1
  <2>4. /\ poll' \in PollsOf /\ poll'.phase = "weigh" /\ poll'.half = {} /\ poll'.ctx = poll.ctx
        /\ poll'.uses = poll.uses
    BY <1>1, <2>2, <2>3 DEF PollsOf
  <2>5. PollsOf' = PollsOf
    BY DEF PollsOf
  <2> QED
    BY <2>4, <2>5
<1>3. torn' \in BOOLEAN
  BY <1>1
<1>4. Shaped' /\ Distinct(sessions)' /\ Listed(sessions)'
  BY <1>1, <1>2, <1>3, ShapedAgain
<1>5. Directed'
  BY <1>2 DEF IInv, Directed, Touching
<1>6. OneJob'
  BY <1>2 DEF IInv, OneJob, Touching, Single
<1>7. Totals'
  <2>1. ~torn => Balanced(sessions)
    BY DEF IInv, Totals, Balanced
  <2> QED
    BY <2>1, <1>2 DEF Totals, Balanced
<1>8. Counts'
  <2> SUFFICES ASSUME ~torn, NEW y \in Rolls PROVE UseOf(sessions', y) <= taken'[y] + 0
    BY <1>2, UsedIs DEF Counts
  <2>1. UseOf(sessions, y) <= taken[y] + 0
    BY <1>1, UsedIs DEF IInv, Counts
  <2>2. /\ UseOf(sessions, y) \in Nat /\ UseOf(sessions', y) \in Nat
        /\ taken[y] \in Int /\ taken'[y] \in Int
        /\ UseOf(sessions', y) - taken'[y] <= UseOf(sessions, y) - taken[y]
    BY <1>1, UsesAreNat DEF Sound
  <2> QED
    BY <2>1, <2>2
<1> QED
  BY <1>4, <1>5, <1>6, <1>7, <1>8 DEF IInv

\* What g grams more of a roll in one session do to the books.
More(ss, tt, e, r, g) ==
  /\ Sound(tt) /\ DOMAIN tt = DOMAIN ss /\ \A i \in DOMAIN ss \ {e} : tt[i] = ss[i]
  /\ (Single(ss) => Single(tt)) /\ (Balanced(ss) => Balanced(tt))
  /\ UseOf(tt, r) = UseOf(ss, r) + g /\ \A y \in Rolls \ {r} : UseOf(tt, y) = UseOf(ss, y)

\* One session gains grams of one roll.
LEMMA MoreIs ==
  ASSUME NEW ss, NEW tt, NEW e, NEW r \in Rolls, NEW g \in Nat, Sound(ss), e \in DOMAIN ss,
         tt = [ss EXCEPT ![e] = tt[e]], tt[e] \in Session, SameName(ss[e], tt[e]), SameEnd(ss[e], tt[e]),
         tt[e].total = ss[e].total + g, MoreUse(ss[e], tt[e], r, g)
  PROVE  More(ss, tt, e, r, g)
<1> DEFINE x == tt[e]  uu == [ss EXCEPT ![e] = x]
<1>1. ss[e] \in Session /\ ss \in Seq(Session)
  BY ListDomain DEF Sound
<1>2. ss[e].total \in Nat /\ \A y \in Rolls : ss[e].used[y] \in Nat /\ UseOf(ss, y) \in Nat
  BY <1>1, UsesAreNat, SessionIs
<1>3. x.used[r] = ss[e].used[r] + g /\ \A y \in Rolls \ {r} : x.used[y] = ss[e].used[y]
  BY DEF MoreUse
<1>4. tt = uu /\ x \in Session /\ SameName(ss[e], x) /\ x.total = ss[e].total + g
  OBVIOUS
<1>5. x.status = ss[e].status
  BY DEF SameEnd
<1>6. ASSUME NEW y \in Rolls, y \notin x.rolls PROVE x.used[y] = 0
  <2>1. y # r /\ y \notin ss[e].rolls
    BY <1>6 DEF MoreUse
  <2>2. ss[e].used[y] = 0
    BY <2>1 DEF Sound, Listed
  <2> QED
    BY <2>1, <2>2, <1>3
<1> HIDE DEF x
<1>7. /\ Sound(uu) /\ (Single(ss) => Single(uu)) /\ DOMAIN uu = DOMAIN ss /\ uu[e] = x
      /\ \A i \in DOMAIN ss \ {e} : uu[i] = ss[i]
      /\ \A y \in Rolls : UseOf(uu, y) = UseOf(ss, y) - ss[e].used[y] + x.used[y]
  <2>1. x \in Session /\ SameName(ss[e], x)
    BY <1>4
  <2>2. \A y \in Rolls : y \notin x.rolls => x.used[y] = 0
    BY <1>6
  <2> QED
    BY ONLY <2>1, <2>2, <1>5, OneChanged, Sound(ss), e \in DOMAIN ss, ZenonT(40)
<1> HIDE DEF uu
<1>8. UseOf(uu, r) = UseOf(ss, r) + g
  BY ONLY <1>2, <1>3, <1>7, r \in Rolls, g \in Nat
<1>9. \A y \in Rolls \ {r} : UseOf(uu, y) = UseOf(ss, y)
  BY ONLY <1>2, <1>3, <1>7, r \in Rolls
<1>10. ASSUME Balanced(ss) PROVE Balanced(uu)
  <2>1. \A y \in Rolls \ {r} : x.used[y] = ss[e].used[y]
    BY <1>3
  <2>2. /\ SumFunction(x.used) = SumFunction(ss[e].used) - ss[e].used[r] + x.used[r]
        /\ SumFunction(ss[e].used) \in Nat
    BY <2>1, <1>1, <1>4, SumOfUse
  <2>3. SumFunction(ss[e].used) = ss[e].total
    BY <1>10 DEF Balanced, Adds
  <2>4. x.total = SumFunction(x.used)
    BY <2>2, <2>3, <1>2, <1>3, <1>4
  <2> QED
    BY <2>4, <1>7, <1>10 DEF Balanced, Adds
<1> QED
  BY <1>4, <1>7, <1>8, <1>9, <1>10 DEF More

\* A late drop goes to a print that completed a short while ago, or to none.
LEMMA LateStepIs ==
  ASSUME IInv, NEW r \in Rolls, NEW d \in Nat, NEW keys, RecordsLate(r, d, keys)
  PROVE  /\ Sound(sessions') /\ FinalStep
         /\ (Single(sessions) => Single(sessions')) /\ (Balanced(sessions) => Balanced(sessions'))
         /\ UseOf(sessions', r) <= UseOf(sessions, r) + d
         /\ \A y \in Rolls \ {r} : UseOf(sessions', y) = UseOf(sessions, y)
<1>1. Sound(sessions) /\ sessions \in Seq(Session) /\ polls \in Nat
  BY StateIs
<1>2. CASE sessions' = sessions
  <2>1. UseOf(sessions, r) \in Nat
    BY <1>1, UsesAreNat
  <2>2. Sound(sessions') /\ (Single(sessions) => Single(sessions'))
        /\ (Balanced(sessions) => Balanced(sessions'))
        /\ \A y \in Rolls \ {r} : UseOf(sessions', y) = UseOf(sessions, y)
    BY <1>1, <1>2
  <2>3. UseOf(sessions', r) <= UseOf(sessions, r) + d
    BY <1>2, <2>1
  <2> QED
    BY <1>1, <1>2, <2>2, <2>3, SameFinal
<1>3. CASE d <= SmallDrop /\ Tails(r, keys) # {}
  <2> DEFINE T == Tails(r, keys)
             i == CHOOSE i \in T : \A j \in T : sessions[j].done <= sessions[i].done
             x == Counted(Added(sessions[i], r, d), d)
             tt == [sessions EXCEPT ![i] = x]
  <2>1. sessions' = tt
    <3>1. ~(d > SmallDrop \/ Tails(r, keys) = {})
      BY <1>3, UsageAssumption DEF UsageAssumption
    <3> QED
      BY <3>1 DEF RecordsLate
  <2>2. T # {} /\ \A j \in T : j \in DOMAIN sessions /\ sessions[j].recent
    BY <1>3 DEF Tails, Completed
  <2>3. i \in T
    <3> DEFINE Times == {n \in Nat : \E j \in T : sessions[j].done = n}
    <3>1. \A j \in T : sessions[j].done \in Nat /\ sessions[j].done <= polls
      <4>1. \A j \in T : sessions[j] \in Session
        BY <1>1, <2>2, ListDomain
      <4>2. \A j \in T : sessions[j].done \in 0..polls
        BY <4>1, SessionIs
      <4> QED
        BY <4>2, <1>1
    <3>2. Times \in SUBSET Nat /\ Times # {} /\ \A m \in Times : m <= polls
      BY <2>2, <3>1
    <3>3. PICK n \in Times : \A m \in Times : m <= n
      <4> HIDE DEF Times
      <4> QED
        BY <1>1, <3>2, GreatestNatural
    <3>4. PICK l \in T : sessions[l].done = n
      BY <3>3
    <3>5. \A j \in T : sessions[j].done \in Times
      BY <3>1
    <3>6. \A j \in T : sessions[j].done <= sessions[l].done
      BY <3>3, <3>4, <3>5
    <3> HIDE DEF T
    <3> QED
      BY <3>6
  <2> HIDE DEF T, i
  <2>4. i \in DOMAIN sessions /\ sessions[i].recent /\ sessions[i] \in Session
    BY <1>1, <2>2, <2>3, ListDomain
  <2>5. /\ x \in Session /\ SameName(sessions[i], x) /\ SameEnd(sessions[i], x)
        /\ x.total = sessions[i].total + d /\ MoreUse(sessions[i], x, r, d)
    BY <1>1, <2>4, LateIs
  <2> HIDE DEF x
  <2>6. tt[i] = x /\ tt = [sessions EXCEPT ![i] = tt[i]]
    BY <2>4
  <2> HIDE DEF tt
  <2>9. More(sessions, tt, i, r, d)
    BY <1>1, <2>4, <2>5, <2>6, MoreIs
  <2>7. FinalStep
    <3> SUFFICES ASSUME NEW j \in DOMAIN sessions, sessions[j].status # "RUNNING"
                 PROVE  LET s == sessions[j]  t == sessions'[j] IN
                        /\ j \in DOMAIN sessions'
                        /\ t.key = s.key /\ t.run = s.run /\ t.status = s.status
                        /\ t.done = s.done
                        /\ t.total <= s.total + (IF s.recent THEN SmallDrop ELSE 0)
      BY DEF FinalStep
    <3>1. sessions[j].total \in Nat /\ SmallDrop \in Nat
      BY <1>1, ListDomain, SessionIs, UsageAssumption DEF UsageAssumption
    <3>2. CASE j = i
      <4>1. x.key = sessions[i].key /\ x.run = sessions[i].run /\ x.status = sessions[i].status
            /\ x.done = sessions[i].done
        BY <2>5 DEF SameName, SameEnd
      <4>2. x.total <= sessions[i].total + SmallDrop
        BY <1>3, <2>5, <3>1, <3>2
      <4> QED
        BY <4>1, <4>2, <3>2, <2>1, <2>4, <2>6, <2>9 DEF More
    <3>3. CASE j # i
      BY <3>1, <3>3, <2>1, <2>9 DEF More
    <3> QED
      BY <3>2, <3>3
  <2>8. UseOf(sessions, r) \in Nat
    BY <1>1, UsesAreNat
  <2> QED
    BY <2>1, <2>7, <2>8, <2>9 DEF More
<1> QED
  BY <1>2, <1>3, UsageAssumption DEF RecordsLate, UsageAssumption

\* What a report makes of a weight, apart from the report itself.
Weighed ==
  /\ weight' \in [Rolls -> -1..limit.grams] /\ taken' \in [Rolls -> Int]
  /\ Sound(sessions') /\ FinalStep
  /\ Single(sessions) => Single(sessions')
  /\ Balanced(sessions) => Balanced(sessions')
  /\ \A y \in Rolls : UseOf(sessions', y) - taken'[y] <= UseOf(sessions, y) - taken[y]

\* A weight that is saved without its grams being counted for any session.
LEMMA UncountedIs ==
  ASSUME IInv, NEW r \in Rolls, NEW d \in Nat, sessions' = sessions,
         weight' \in [Rolls -> -1..limit.grams],
         taken' = taken \/ taken' = [taken EXCEPT ![r] = @ + d]
  PROVE  Weighed
<1>1. Sound(sessions) /\ sessions \in Seq(Session) /\ taken \in [Rolls -> Int]
  BY StateIs
<1>2. taken' \in [Rolls -> Int]
  BY <1>1
<1>3. ASSUME NEW y \in Rolls
      PROVE  UseOf(sessions', y) - taken'[y] <= UseOf(sessions, y) - taken[y]
  <2>1. UseOf(sessions, y) \in Nat /\ UseOf(sessions', y) = UseOf(sessions, y)
    BY <1>1, UsesAreNat
  <2>2. taken[y] \in Int /\ taken'[y] \in Int /\ taken[y] <= taken'[y]
    BY <1>1, <1>2
  <2> QED
    BY <2>1, <2>2
<1>4. Sound(sessions') /\ (Single(sessions) => Single(sessions'))
      /\ (Balanced(sessions) => Balanced(sessions'))
  BY <1>1
<1>5. FinalStep
  BY <1>1, SameFinal
<1> QED
  BY <1>2, <1>3, <1>4, <1>5 DEF Weighed

\* A roll that is heavier than it was.
LEMMA IncreaseIs ==
  ASSUME IInv, NEW r \in Rolls, NEW g \in 0..limit.grams, NEW c, Increase(c, r, g)
  PROVE  Weighed
<1>1. /\ Sound(sessions) /\ sessions \in Seq(Session) /\ taken \in [Rolls -> Int] /\ polls \in Nat
      /\ weight \in [Rolls -> -1..limit.grams] /\ limit.grams \in Nat
  BY StateIs
<1>2. weight[r] \in Int /\ g \in Nat /\ g > weight[r]
  BY <1>1 DEF Increase
<1>3. [weight EXCEPT ![r] = g] \in [Rolls -> -1..limit.grams]
  BY <1>1
<1>4. CASE sessions' = sessions /\ taken' = taken /\ weight' \in {weight, [weight EXCEPT ![r] = g]}
  <2>1. 0 \in Nat /\ weight' \in [Rolls -> -1..limit.grams]
    BY <1>1, <1>3, <1>4
  <2> QED
    BY <2>1, <1>4, UncountedIs
<1>5. CASE /\ Corrects(c, r, g) /\ weight' = [weight EXCEPT ![r] = g]
           /\ taken' = [taken EXCEPT ![r] = @ - (g - weight[r])]
           /\ sessions' = [sessions EXCEPT ![Latest(sessions, c.key)] = Correction(@, r, g)]
  <2> DEFINE l == Latest(sessions, c.key)  x == Correction(sessions[l], r, g)
             less == g - weight[r]  tt == [sessions EXCEPT ![l] = x]
  <2>1. /\ Family(sessions, c.key) # {} /\ r \in sessions[l].rolls
        /\ Corrected(sessions[l], r, g) > 0
    BY <1>5 DEF Corrects
  <2>2. l \in DOMAIN sessions
    BY <1>1, <2>1, LatestIs
  <2>3. sessions' = tt
    BY <1>5
  <2>4. less \in Nat
    BY <1>2
  <2> HIDE DEF l
  <2>5. sessions[l] \in Session /\ sessions[l].total \in Nat
        /\ \A y \in Rolls : sessions[l].used[y] \in Nat
    BY <1>1, <2>2, ListDomain, SessionIs
  <2>6. /\ x \in Session /\ SameName(sessions[l], x) /\ SameEnd(sessions[l], x)
        /\ x.rolls = sessions[l].rolls
        /\ x.used[r] = sessions[l].used[r] - less
        /\ \A y \in Rolls \ {r} : x.used[y] = sessions[l].used[y]
        /\ x.total <= sessions[l].total
        /\ sessions[l].used[r] <= sessions[l].total => x.total = sessions[l].total - less
    BY <1>1, <1>2, <2>1, <2>5, CorrectionIs, SMTT(30)
  <2> HIDE DEF x, less
  <2>7. ASSUME NEW y \in Rolls, y \notin x.rolls PROVE x.used[y] = 0
    <3>1. y # r /\ y \notin sessions[l].rolls
      BY <2>1, <2>6, <2>7
    <3>2. sessions[l].used[y] = 0
      BY <3>1, <1>1, <2>2 DEF Sound, Listed
    <3> QED
      BY <3>1, <3>2, <2>6
  <2>8. /\ Sound(tt) /\ (Single(sessions) => Single(tt)) /\ DOMAIN tt = DOMAIN sessions
        /\ tt[l] = x
        /\ \A i \in DOMAIN sessions \ {l} : tt[i] = sessions[i]
        /\ \A y \in Rolls : UseOf(tt, y) = UseOf(sessions, y) - sessions[l].used[y] + x.used[y]
    <3>1. x \in Session /\ Sound(sessions) /\ l \in DOMAIN sessions
      BY <1>1, <2>2, <2>6
    <3>2. SameName(sessions[l], x)
      BY <2>6
    <3>3. x.status = sessions[l].status
      BY <2>6 DEF SameEnd
    <3>4. \A y \in Rolls : y \notin x.rolls => x.used[y] = 0
      BY <2>7
    <3> QED
      BY ONLY <3>1, <3>2, <3>3, <3>4, OneChanged, ZenonT(40)
  <2> HIDE DEF tt
  <2>9. ASSUME NEW y \in Rolls
        PROVE  UseOf(sessions', y) - taken'[y] <= UseOf(sessions, y) - taken[y]
    <3>1. UseOf(sessions, y) \in Nat /\ taken[y] \in Int /\ sessions[l].used[y] \in Nat
      BY <1>1, <2>5, UsesAreNat
    <3>2. UseOf(sessions', y) = UseOf(sessions, y) - sessions[l].used[y] + x.used[y]
      BY <2>3, <2>8
    <3>3. CASE y = r
      <4>1. taken'[y] = taken[y] - less
        BY <3>3, <1>1, <1>5 DEF less
      <4> QED
        BY <4>1, <3>1, <3>2, <3>3, <2>4, <2>6
    <3>4. CASE y # r
      <4>1. taken'[y] = taken[y] /\ x.used[y] = sessions[l].used[y]
        BY <3>4, <1>1, <1>5, <2>6
      <4> QED
        BY <4>1, <3>1, <3>2
    <3> QED
      BY <3>3, <3>4
  <2>10. ASSUME Balanced(sessions) PROVE Balanced(tt)
    <3>1. /\ SumFunction(x.used) = SumFunction(sessions[l].used) - sessions[l].used[r] + x.used[r]
          /\ SumFunction(sessions[l].used) \in Nat
          /\ sessions[l].used[r] <= SumFunction(sessions[l].used)
      <4>1. \A y \in Rolls \ {r} : x.used[y] = sessions[l].used[y]
        BY <2>6
      <4> QED
        BY <4>1, <2>5, <2>6, SumOfUse
    <3>2. SumFunction(sessions[l].used) = sessions[l].total
      BY <2>2, <2>10 DEF Balanced, Adds
    <3>3. x.total = SumFunction(x.used)
      BY <3>1, <3>2, <2>4, <2>5, <2>6
    <3> QED
      BY <3>3, <2>8, <2>10 DEF Balanced, Adds
  <2>11. FinalStep
    <3> SUFFICES ASSUME NEW j \in DOMAIN sessions, sessions[j].status # "RUNNING"
                 PROVE  LET s == sessions[j]  t == sessions'[j] IN
                        /\ j \in DOMAIN sessions'
                        /\ t.key = s.key /\ t.run = s.run /\ t.status = s.status
                        /\ t.done = s.done
                        /\ t.total <= s.total + (IF s.recent THEN SmallDrop ELSE 0)
      BY DEF FinalStep
    <3>1. sessions[j].total \in Nat /\ SmallDrop \in Nat
      BY <1>1, ListDomain, SessionIs, UsageAssumption DEF UsageAssumption
    <3>2. CASE j = l
      <4>1. x.key = sessions[l].key /\ x.run = sessions[l].run /\ x.status = sessions[l].status
            /\ x.done = sessions[l].done
        BY <2>6 DEF SameName, SameEnd
      <4>2. x.total \in Nat
        BY <2>6, SessionIs
      <4>3. x.total <= sessions[l].total + (IF sessions[l].recent THEN SmallDrop ELSE 0)
        BY <4>2, <2>6, <3>1, <3>2
      <4> QED
        BY <4>1, <4>3, <3>2, <2>2, <2>3, <2>8
    <3>3. CASE j # l
      BY <3>1, <3>3, <2>3, <2>8
    <3> QED
      BY <3>2, <3>3
  <2>12. taken' \in [Rolls -> Int]
    <3>1. taken[r] - (g - weight[r]) \in Int
      BY <1>1, <1>2
    <3> QED
      BY <3>1, <1>1, <1>5
  <2> QED
    BY <1>3, <1>5, <2>3, <2>8, <2>9, <2>10, <2>11, <2>12 DEF Weighed
<1> QED
  BY <1>4, <1>5 DEF Increase

\* A roll that is lighter: the drop is the running print's, a late one's, or nobody's.
LEMMA DecreaseIs ==
  ASSUME IInv, NEW r \in Rolls, NEW g \in 0..limit.grams, Decrease(poll.ctx, r, g)
  PROVE  Weighed
<1> DEFINE d == weight[r] - g  k == poll.ctx.key
<1>1. /\ Sound(sessions) /\ sessions \in Seq(Session) /\ taken \in [Rolls -> Int] /\ polls \in Nat
      /\ weight \in [Rolls -> -1..limit.grams] /\ limit.grams \in Nat
  BY StateIs
<1>2. d \in Nat /\ g < weight[r]
  BY <1>1 DEF Decrease
<1>3. [weight EXCEPT ![r] = g] \in [Rolls -> -1..limit.grams]
  BY <1>1
<1> HIDE DEF d
<1>4. [taken EXCEPT ![r] = @ + d] \in [Rolls -> Int]
  <2>1. taken[r] + d \in Int
    BY <1>1, <1>2
  <2> QED
    BY <2>1, <1>1
<1>5. CASE /\ sessions' = sessions /\ weight' \in {weight, [weight EXCEPT ![r] = g]}
           /\ taken' \in {taken, [taken EXCEPT ![r] = @ + d]}
  <2>1. weight' \in [Rolls -> -1..limit.grams]
    BY <1>1, <1>3, <1>5
  <2> QED
    BY <2>1, <1>2, <1>5, UncountedIs
<1>6. CASE /\ weight' = [weight EXCEPT ![r] = g] /\ taken' = [taken EXCEPT ![r] = @ + d]
           /\ \E keys \in {{k}, Keys} : RecordsLate(r, d, keys)
  <2>1. PICK keys \in {{k}, Keys} : RecordsLate(r, d, keys)
    BY <1>6
  <2>2. /\ Sound(sessions') /\ FinalStep
        /\ (Single(sessions) => Single(sessions')) /\ (Balanced(sessions) => Balanced(sessions'))
        /\ UseOf(sessions', r) <= UseOf(sessions, r) + d
        /\ \A y \in Rolls \ {r} : UseOf(sessions', y) = UseOf(sessions, y)
    BY <2>1, <1>2, LateStepIs
  <2>3. ASSUME NEW y \in Rolls
        PROVE  UseOf(sessions', y) - taken'[y] <= UseOf(sessions, y) - taken[y]
    <3>1. UseOf(sessions, y) \in Nat /\ UseOf(sessions', y) \in Nat /\ taken[y] \in Int
      BY <1>1, <2>2, UsesAreNat DEF Sound
    <3>2. CASE y = r
      <4>1. taken'[y] = taken[y] + d
        BY <3>2, <1>1, <1>6
      <4> QED
        BY <4>1, <3>1, <3>2, <2>2, <1>2
    <3>3. CASE y # r
      <4>1. taken'[y] = taken[y] /\ UseOf(sessions', y) = UseOf(sessions, y)
        BY <3>3, <1>1, <1>6, <2>2
      <4> QED
        BY <4>1, <3>1
    <3> QED
      BY <3>2, <3>3
  <2> QED
    BY <1>3, <1>4, <1>6, <2>2, <2>3 DEF Weighed
<1>7. CASE /\ weight' = [weight EXCEPT ![r] = g] /\ taken' = [taken EXCEPT ![r] = @ + d]
           /\ poll.uses
           /\ LET ss == Ensured(sessions, k) IN
              sessions' = [ss EXCEPT ![Current(ss, k)] = Recorded(@, poll.ctx, r, d)]
  <2> DEFINE ss == Ensured(sessions, k)  e == Current(ss, k)
             x == Recorded(ss[e], poll.ctx, r, d)  tt == [ss EXCEPT ![e] = x]
  <2>1. sessions' = tt
    BY <1>7
  <2>2. k \in Keys
    BY <1>7, KeyIs
  <2>3. /\ Steady(sessions, ss) /\ e # 0
        /\ Single(sessions) \/ k # Active => Single(ss)
    BY <1>1, <2>2, EnsuredIs
  <2> HIDE DEF ss
  <2>4. ss \in Seq(Session) /\ Sound(ss)
    BY <2>3 DEF Steady, Sound
  <2>5. e \in DOMAIN ss /\ ss[e] \in Session /\ ss[e].status = "RUNNING"
    BY <2>3, <2>4, CurrentIs, ListDomain
  <2> HIDE DEF e
  <2>6. /\ x \in Session /\ SameName(ss[e], x) /\ SameEnd(ss[e], x)
        /\ \E n \in {0, d} : x.total = ss[e].total + n /\ MoreUse(ss[e], x, r, n)
    BY <1>1, <1>2, <2>5, RecordedIs
  <2> HIDE DEF x
  <2>7. PICK n \in {0, d} : x.total = ss[e].total + n /\ MoreUse(ss[e], x, r, n)
    BY <2>6
  <2>8. n \in Nat /\ n <= d
    BY <1>2
  <2>9. tt[e] = x /\ tt = [ss EXCEPT ![e] = tt[e]]
    BY <2>5
  <2> HIDE DEF tt
  <2>10. More(ss, tt, e, r, n)
    BY <2>4, <2>5, <2>6, <2>7, <2>8, <2>9, MoreIs
  <2>11. ASSUME NEW y \in Rolls
         PROVE  UseOf(sessions', y) - taken'[y] <= UseOf(sessions, y) - taken[y]
    <3>1. UseOf(sessions, y) \in Nat /\ taken[y] \in Int
      BY <1>1, UsesAreNat
    <3>2. UseOf(ss, y) = UseOf(sessions, y)
      BY <2>3 DEF Steady, SameUses
    <3>3. CASE y = r
      <4>1. taken'[y] = taken[y] + d /\ UseOf(sessions', y) = UseOf(ss, y) + n
        BY <3>3, <1>1, <1>7, <2>1, <2>10 DEF More
      <4> QED
        BY <4>1, <3>1, <3>2, <2>8, <1>2
    <3>4. CASE y # r
      <4>1. taken'[y] = taken[y] /\ UseOf(sessions', y) = UseOf(ss, y)
        BY <3>4, <1>1, <1>7, <2>1, <2>10 DEF More
      <4> QED
        BY <4>1, <3>1, <3>2
    <3> QED
      BY <3>3, <3>4
  <2>12. Retained(sessions, sessions')
    <3> SUFFICES ASSUME NEW i \in DOMAIN sessions, sessions[i].status # "RUNNING"
                 PROVE  \E j \in DOMAIN sessions' : sessions'[j] = sessions[i]
      BY DEF Retained
    <3>1. PICK j \in DOMAIN ss : ss[j] = sessions[i]
      BY <2>3 DEF Steady, Retained
    <3>2. j # e
      BY <3>1, <2>5
    <3>3. j \in DOMAIN tt /\ tt[j] = ss[j]
      BY <3>1, <3>2, <2>10 DEF More
    <3> QED
      BY <3>1, <3>3, <2>1
  <2>13. FinalStep
    BY <1>1, <2>12, RetainedIsFinal
  <2>14. Sound(sessions') /\ (Single(sessions) => Single(sessions'))
         /\ (Balanced(sessions) => Balanced(sessions'))
    BY <2>1, <2>3, <2>10 DEF More, Steady
  <2> QED
    BY <1>3, <1>4, <1>7, <2>11, <2>13, <2>14 DEF Weighed
<1>8. \/ /\ sessions' = sessions /\ weight' \in {weight, [weight EXCEPT ![r] = g]}
         /\ taken' \in {taken, [taken EXCEPT ![r] = @ + d]}
      \/ /\ weight' = [weight EXCEPT ![r] = g] /\ taken' = [taken EXCEPT ![r] = @ + d]
         /\ \E keys \in {{k}, Keys} : RecordsLate(r, d, keys)
      \/ /\ weight' = [weight EXCEPT ![r] = g] /\ taken' = [taken EXCEPT ![r] = @ + d]
         /\ poll.uses
         /\ LET ss == Ensured(sessions, k) IN
            sessions' = [ss EXCEPT ![Current(ss, k)] = Recorded(@, poll.ctx, r, d)]
  BY Zenon DEF Decrease, d
<1> QED
  BY <1>5, <1>6, <1>7, <1>8

LEMMA WeighStep == ASSUME IInv, NEW r \in Rolls, Weigh(r) PROVE IInv' /\ FinalStep
<1> DEFINE g == poll.grams[r]
<1>1. /\ poll.phase = "weigh" /\ r \in DOMAIN poll.grams
      /\ poll' = [poll EXCEPT !.grams = [x \in DOMAIN @ \ {r} |-> @[x]]]
      /\ UNCHANGED <<polls, edits, faults, torn, limit>>
  BY DEF Weigh
<1>2. /\ \/ g = weight[r] /\ UNCHANGED <<weight, sessions, taken>>
         \/ weight[r] = Unknown /\ weight' = [weight EXCEPT ![r] = g]
            /\ UNCHANGED <<sessions, taken>>
         \/ Increase(poll.ctx, r, g) \/ Decrease(poll.ctx, r, g)
  BY Zenon DEF Weigh
<1>3. g \in 0..limit.grams /\ weight \in [Rolls -> -1..limit.grams] /\ limit.grams \in Nat
  BY <1>1, StateIs
<1> HIDE DEF g
<1>4. Weighed
  <2>1. CASE UNCHANGED <<sessions, taken>> /\ weight' \in {weight, [weight EXCEPT ![r] = g]}
    <3>1. 0 \in Nat /\ weight' \in [Rolls -> -1..limit.grams]
      BY <1>3, <2>1
    <3> QED
      BY <2>1, <3>1, UncountedIs
  <2>2. CASE Increase(poll.ctx, r, g)
    BY <1>3, <2>2, IncreaseIs
  <2>3. CASE Decrease(poll.ctx, r, g)
    BY <1>3, <2>3, DecreaseIs
  <2> QED
    BY <1>2, <2>1, <2>2, <2>3
<1>5. UNCHANGED <<polls, edits, faults, torn, limit>>
  BY <1>1
<1> QED
  BY <1>1, <1>4, <1>5, WeighedIs DEF Weighed

-----------------------------------------------------------------------------
(* The theorems. *)

\* Every step keeps the invariant and what has ended.
LEMMA NextStep == ASSUME IInv, Next PROVE IInv' /\ FinalStep
<1>1. CASE \E c \in Reports \cup {NoContext}, rolls \in SUBSET limit.rolls :
             \E grams \in [rolls -> 0..limit.grams] : Report(c, grams)
  BY <1>1, ReportStep
<1>2. CASE Statement
  <2>1. CASE Touch
    BY <2>1, TouchStep
  <2>2. CASE \E r \in Rolls : MergeRow(r)
    BY <2>2, MergeRowStep
  <2>3. CASE \E r \in Rolls : DropRow(r)
    BY <2>3, DropRowStep
  <2>4. CASE MergeTotal
    BY <2>4, MergeTotalStep
  <2>5. CASE DropSource
    BY <2>5, DropSourceStep
  <2>6. CASE Show
    BY <2>6, ShowStep
  <2>7. CASE Close
    BY <2>7, CloseStep
  <2> QED
    BY <1>2, <2>1, <2>2, <2>3, <2>4, <2>5, <2>6, <2>7 DEF Statement
<1>3. CASE \E r \in Rolls : Weigh(r)
  BY <1>3, WeighStep
<1>4. CASE Finish
  BY <1>4, FinishStep
<1>5. CASE \E r \in limit.rolls, g \in 0..limit.grams : Reweigh(r, g)
  BY <1>5, ReweighStep
<1>6. CASE \E i \in DOMAIN sessions : Age(i)
  BY <1>6, AgeStep
<1>7. CASE Fault
  BY <1>7, FaultStep
<1> QED
  BY <1>1, <1>2, <1>3, <1>4, <1>5, <1>6, <1>7 DEF Next

LEMMA StutterStep == ASSUME IInv, UNCHANGED vars PROVE IInv'
<1>1. /\ weight' = weight /\ sessions' = sessions /\ poll' = poll /\ polls' = polls
      /\ taken' = taken /\ torn' = torn /\ limit' = limit
  BY DEF vars
<1>2. /\ Shaped /\ Sound(sessions) /\ poll \in PollsOf /\ weight \in [Rolls -> -1..limit.grams]
      /\ taken \in [Rolls -> Int] /\ torn \in BOOLEAN
  BY StateIs DEF IInv
<1>3. (poll \in PollsOf)'
  BY <1>1, <1>2 DEF PollsOf
<1>4. Sound(sessions')
  BY <1>1, <1>2
<1>5. Shaped' /\ Distinct(sessions)' /\ Listed(sessions)'
  BY <1>1, <1>2, <1>3, <1>4, ShapedAgain
<1>6. Target' = Target /\ Source' = Source
  BY <1>1 DEF Target, Source
<1>7. Directed' /\ OneJob' /\ Totals'
  BY <1>1, <1>6 DEF IInv, Directed, OneJob, Single, Totals
<1>8. Counts'
  BY <1>1, <1>6, UsedIs DEF IInv, Counts
<1> QED
  BY <1>5, <1>7, <1>8 DEF IInv

\* The invariant holds of every report, statement, fault, and weighing.
THEOREM Invariance == Spec => []IInv
<1>1. IInv /\ [Next]_vars => IInv'
  BY NextStep, StutterStep
<1> QED
  BY <1>1, InitIInv, PTL DEF Spec

LEMMA AtMostOne ==
  ASSUME NEW S, \A i, j \in S : i = j
  PROVE  Cardinality(S) <= 1
<1>1. CASE S = {}
  BY <1>1, FS_EmptySet
<1>2. CASE S # {}
  <2>1. PICK i \in S : TRUE
    BY <1>2
  <2>2. S = {i}
    BY <2>1
  <2>3. Cardinality({i}) = 1
    BY FS_Singleton
  <2> QED
    BY <2>2, <2>3
<1> QED
  BY <1>1, <1>2

\* What each variable holds, and that a merge always finds both its sessions.
THEOREM Typing == Spec => []TypeOK
<1>1. ASSUME IInv PROVE TypeOK
  <2>1. weight \in [Rolls -> -1..limit.grams] /\ poll.ctx \in Contexts \cup {NoContext}
        /\ poll.half \subseteq Rolls /\ sessions \in Seq(Session) /\ poll \in PollsOf
    BY <1>1, StateIs
  <2>2. \A i \in DOMAIN sessions : sessions[i] \in Session
    BY <2>1, ListDomain
  <2>3. poll.phase \in {"idle", "touch", "merge", "drop", "show", "close", "weigh"}
    BY <2>1 DEF PollsOf
  <2>4. poll.phase \in {"merge", "drop"} => Target # 0 /\ Source # 0 /\ Target # Source
    <3>1. poll.phase \in {"merge", "drop"} => poll.ctx.key # Active /\ Target # 0 /\ Source # 0
      BY <1>1 DEF IInv, Directed
    <3>2. /\ Target # 0 => sessions[Target].key = poll.ctx.key
          /\ Source # 0 => sessions[Source].key = Active
      BY <2>1, CurrentIs DEF Target, Source
    <3> QED
      BY <3>1, <3>2
  <2>5. poll.phase \in {"show", "close"} => Target # 0
    BY <1>1 DEF IInv, Directed
  <2> QED
    BY <2>1, <2>2, <2>3, <2>4, <2>5 DEF TypeOK
<1> QED
  BY <1>1, Invariance, PTL

\* The prints of a printer stay apart: no insertion or renaming ever meets the unique
\* key, however many sessions began, were renamed and were merged away, and outside a
\* touch that was torn one print is running.
THEOREM PrintsStayApart == Spec => []SessionsAreDistinct
<1>1. ASSUME IInv PROVE KeysAreUnique
  BY <1>1 DEF IInv, Distinct, Numbered, KeysAreUnique
<1>2. ASSUME IInv PROVE OneJobAtATime
  <2> SUFFICES ASSUME Whole, poll.phase \in {"idle", "weigh"}
               PROVE  /\ Cardinality({i \in Running : sessions[i].key # Active}) <= 1
                      /\ Cardinality(Ongoing(sessions, Active)) <= 1
    BY DEF OneJobAtATime
  <2>1. Single(sessions)
    BY <1>2 DEF IInv, OneJob, Whole, Touching
  <2>2. Cardinality({i \in Running : sessions[i].key # Active}) <= 1
    <3> DEFINE S == {i \in Running : sessions[i].key # Active}
    <3>1. \A i, j \in S : i = j
      BY <2>1 DEF Single, Running
    <3> HIDE DEF S
    <3>2. Cardinality(S) <= 1
      BY <3>1, AtMostOne
    <3> QED
      BY <3>2 DEF S
  <2>3. \A i, j \in Ongoing(sessions, Active) : i = j
    BY <1>2 DEF IInv, Distinct, OnePerKey, Keys
  <2> QED
    BY <2>2, <2>3, AtMostOne
<1>3. ASSUME TypeOK, KeysAreUnique, OneJobAtATime PROVE SessionsAreDistinct
  BY <1>3 DEF SessionsAreDistinct
<1> QED
  BY <1>1, <1>2, <1>3, Typing, Invariance, PTL

\* The grams add up: a session's total is what its rolls used, and the sessions never
\* say more of a roll than the reports took off it.
THEOREM BooksBalance == Spec => []GramsAddUp
<1>1. ASSUME IInv PROVE GramsAddUp
  <2>1. Whole => ~torn /\ poll.phase \notin {"merge", "drop"} /\ poll.half = {}
    BY <1>1 DEF IInv, Directed, Whole
  <2>2. TotalsAddUp
    BY <1>1, <2>1 DEF IInv, Totals, Adds, TotalsAddUp
  <2>3. CountedOnce
    <3> SUFFICES ASSUME Whole, NEW r \in Rolls PROVE UsedOf(r) <= taken[r]
      BY DEF CountedOnce
    <3>1. UsedOf(r) <= taken[r] + 0 /\ taken[r] \in Int
      BY <1>1, <2>1, StateIs DEF IInv, Counts
    <3> QED
      BY <3>1, <1>1, StateIs, UsesAreNat, UsedIs
  <2> QED
    BY <2>2, <2>3 DEF GramsAddUp
<1> QED
  BY <1>1, Invariance, PTL

\* What has ended stays as it ended, under its key, through renamings, merges, closings
\* and faults; a print that completed a short while ago gains a small drop at a time.
THEOREM EndedStays == Spec => FinishedAreFinal
<1>1. IInv /\ [Next]_vars => [FinalStep]_vars
  BY NextStep
<1> QED
  BY <1>1, Invariance, PTL DEF Spec, FinishedAreFinal, FinalStep
=============================================================================
