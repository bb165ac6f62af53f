---------------------------- MODULE LayoutProofs -----------------------------
(***************************************************************************)
(* Lemmas about the operators of Layouts, for every layout, guard and      *)
(* point: what a sum over dims is, what substituting in strides and guards *)
(* does, and where each operation of layout.py and guarded.py leaves what  *)
(* a point resolves to.  The sums and the other folds are reasoned about   *)
(* as functions on the subsets of a finite set: two such functions that    *)
(* take the same step agree, because a least set on which they differed    *)
(* would have a smaller one.                                               *)
(***************************************************************************)
EXTENDS Views, Functions, FiniteSets, FiniteSetTheorems, WellFoundedInduction, TLAPS

\* A property of the subsets of a finite set that fails fails at a least one.
LEMMA LeastSubset ==
  ASSUME NEW S, IsFiniteSet(S), NEW Bad \in SUBSET (SUBSET S), Bad # {}
  PROVE  \E T \in Bad : \A U \in SUBSET T : U # T => U \notin Bad
<1>1. Bad \subseteq FiniteSubsetsOf(S)
  BY FS_Subset DEF FiniteSubsetsOf
<1>2. PICK T \in Bad : \A U \in Bad : ~ (<<U, T>> \in StrictSubsetOrdering(S))
  BY <1>1, FS_StrictSubsetOrderingWellFounded, WFMin
<1>3. ASSUME NEW U \in SUBSET T, U # T, U \in Bad PROVE FALSE
  <2>1. <<U, T>> \in StrictSubsetOrdering(S)
    BY <1>3 DEF StrictSubsetOrdering
  <2>2. QED
    BY <1>2, <1>3, <2>1
<1>4. QED
  BY <1>3

\* Induction over the subsets of a finite set, one element at a time.
LEMMA SubsetInduction ==
  ASSUME NEW S, IsFiniteSet(S), NEW I, {} \in I,
         \A T \in SUBSET S, x \in S : T \in I /\ x \notin T => T \cup {x} \in I
  PROVE  \A T \in SUBSET S : T \in I
<1>. DEFINE Bad == {T \in SUBSET S : T \notin I}
<1>1. SUFFICES ASSUME Bad # {} PROVE FALSE
  OBVIOUS
<1>2. PICK T \in Bad : \A U \in SUBSET T : U # T => U \notin Bad
  <2>1. Bad \in SUBSET (SUBSET S)
    OBVIOUS
  <2>. HIDE DEF Bad
  <2>2. QED
    BY <1>1, <2>1, LeastSubset
<1>3. PICK x \in T : TRUE
  BY <1>2
<1>4. T \ {x} \in I
  BY <1>2, <1>3
<1>5. (T \ {x}) \cup {x} = T
  BY <1>3
<1>6. T \in SUBSET S /\ T \notin I /\ x \in S
  BY <1>2, <1>3
<1>7. T \ {x} \in SUBSET S /\ x \notin T \ {x}
  BY <1>6
<1>8. QED
  BY <1>4, <1>5, <1>6, <1>7

-----------------------------------------------------------------------------
(* FOLDS: a fold takes the elements of a set in an order of its own        *)

Pick(s) == CHOOSE x \in s : TRUE

\* The element a fold takes next is one of those left.
LEMMA Picked == \A s : s # {} => Pick(s) \in s
  BY DEF Pick

\* Two functions of sets are the same if they take the same steps.
SameSteps(F, G, T) ==
  \A s \in SUBSET T : (s # {} => F[s \ {Pick(s)}] = G[s \ {Pick(s)}]) => F[s] = G[s]

\* Two folds that take the same step from each set agree on every set.
LEMMA FoldsAgree ==
  ASSUME NEW T, IsFiniteSet(T), NEW F, NEW G, SameSteps(F, G, T)
  PROVE  \A s \in SUBSET T : F[s] = G[s]
<1>. DEFINE Bad == {s \in SUBSET T : F[s] # G[s]}
<1>1. SUFFICES ASSUME Bad # {} PROVE FALSE
  OBVIOUS
<1>2. PICK s \in Bad : \A u \in SUBSET s : u # s => u \notin Bad
  <2>1. Bad \in SUBSET (SUBSET T)
    OBVIOUS
  <2>. HIDE DEF Bad
  <2>2. QED
    BY <1>1, <2>1, LeastSubset
<1>3. s # {} => Pick(s) \in s
  BY Picked
<1>4. s # {} => F[s \ {Pick(s)}] = G[s \ {Pick(s)}]
  BY <1>2, <1>3
<1>5. QED
  BY <1>2, <1>4 DEF SameSteps

\* ... also when the element is picked otherwise.
SameStepsBy(F, G, pick, T) ==
  \A s \in SUBSET T : /\ s # {} => pick[s] \in s
                      /\ (s # {} => F[s \ {pick[s]}] = G[s \ {pick[s]}]) => F[s] = G[s]

\* The same for folds that pick their next element by a function of the set.
LEMMA FoldsAgreeBy ==
  ASSUME NEW T, IsFiniteSet(T), NEW F, NEW G, NEW pick, SameStepsBy(F, G, pick, T)
  PROVE  \A s \in SUBSET T : F[s] = G[s]
<1>. DEFINE Bad == {s \in SUBSET T : F[s] # G[s]}
<1>1. SUFFICES ASSUME Bad # {} PROVE FALSE
  OBVIOUS
<1>2. PICK s \in Bad : \A u \in SUBSET s : u # s => u \notin Bad
  <2>1. Bad \in SUBSET (SUBSET T)
    OBVIOUS
  <2>. HIDE DEF Bad
  <2>2. QED
    BY <1>1, <2>1, LeastSubset
<1>3. s # {} => pick[s] \in s
  BY <1>2 DEF SameStepsBy
<1>4. s # {} => F[s \ {pick[s]}] = G[s \ {pick[s]}]
  BY <1>2, <1>3
<1>5. QED
  BY <1>2, <1>4 DEF SameStepsBy

\* What a step of a fold makes of an element and of the fold of the others,
\* for elements of S, picked by pick, and values of V; F folds the subsets of S, or those of
\* no more than n elements.
FoldStep(F, base, step, pick, s) == IF s = {} THEN base ELSE step[pick[s]][F[s \ {pick[s]}]]
IsFold(S, V, base, step, pick) ==
  /\ IsFiniteSet(S) /\ base \in V /\ step \in [S -> [V -> V]]
  /\ \A s \in SUBSET S : s # {} => pick[s] \in s
Folds(F, S, V, base, step, pick) == F \in [SUBSET S -> V] /\ \A s \in SUBSET S : F[s] = FoldStep(F, base, step, pick, s)
FoldsUpto(F, S, V, base, step, pick, n) ==
  F \in [SUBSET S -> V] /\ \A s \in SUBSET S : Cardinality(s) <= n => F[s] = FoldStep(F, base, step, pick, s)

\* What is left of a finite set when the fold has taken its next element is smaller by one.
LEMMA Sizes ==
  ASSUME NEW S, IsFiniteSet(S), NEW s \in SUBSET S
  PROVE  /\ IsFiniteSet(s) /\ Cardinality(s) \in Nat /\ Cardinality(s) <= Cardinality(S)
         /\ s = {} => Cardinality(s) = 0
         /\ s # {} => /\ Pick(s) \in s /\ s \ {Pick(s)} \in SUBSET S
                      /\ Cardinality(s \ {Pick(s)}) = Cardinality(s) - 1 /\ Cardinality(s) >= 1
<1>1. IsFiniteSet(s) /\ Cardinality(s) <= Cardinality(S)
  BY FS_Subset
<1>2. Cardinality(s) \in Nat /\ (Cardinality(s) = 0 <=> s = {})
  BY <1>1, FS_CardinalityType, FS_EmptySet
<1>3. s # {} => Pick(s) \in s /\ s \ {Pick(s)} \in SUBSET S /\ Cardinality(s \ {Pick(s)}) = Cardinality(s) - 1
  BY <1>1, Picked, FS_RemoveElement
<1>4. QED
  BY <1>1, <1>2, <1>3

\* A fold of the sets of at most n elements extends to those of n + 1.
LEMMA FoldsOfMore ==
  ASSUME NEW S, NEW V, NEW base, NEW step, NEW pick, IsFold(S, V, base, step, pick), NEW n \in Nat, NEW F, FoldsUpto(F, S, V, base, step, pick, n)
  PROVE  \E G : FoldsUpto(G, S, V, base, step, pick, n + 1)
<1>. DEFINE G == [s \in SUBSET S |-> FoldStep(F, base, step, pick, s)]
<1>0. IsFiniteSet(S) /\ base \in V /\ step \in [S -> [V -> V]] /\ \A s \in SUBSET S : s # {} => pick[s] \in s
  BY DEF IsFold
<1>1. G \in [SUBSET S -> V]
  <2>1. ASSUME NEW s \in SUBSET S PROVE FoldStep(F, base, step, pick, s) \in V
    BY <1>0 DEF FoldStep, FoldsUpto
  <2>2. QED
    BY <2>1
<1>2. ASSUME NEW s \in SUBSET S, Cardinality(s) <= n PROVE F[s] = G[s]
  BY <1>2 DEF FoldsUpto
<1>3. ASSUME NEW s \in SUBSET S, Cardinality(s) <= n + 1 PROVE G[s] = FoldStep(G, base, step, pick, s)
  <2>1. G[s] = FoldStep(F, base, step, pick, s)
    OBVIOUS
  <2>. HIDE DEF G
  <2>2. CASE s = {}
    BY <2>1, <2>2 DEF FoldStep
  <2>3. CASE s # {}
    <3>1. s \ {pick[s]} \in SUBSET S /\ Cardinality(s \ {pick[s]}) <= n
      <4>1. pick[s] \in s /\ IsFiniteSet(s) /\ Cardinality(s) \in Nat
        BY <1>0, <2>3, Sizes
      <4>2. Cardinality(s \ {pick[s]}) = Cardinality(s) - 1
        BY <4>1, FS_RemoveElement
      <4>3. QED
        BY <1>3, <4>1, <4>2
    <3>2. F[s \ {pick[s]}] = G[s \ {pick[s]}]
      BY <1>2, <3>1
    <3>3. QED
      BY <2>1, <2>3, <3>2 DEF FoldStep
  <2>4. QED
    BY <2>2, <2>3
<1>4. QED
  <2>. HIDE DEF G
  <2>. QED
    BY <1>1, <1>3 DEF FoldsUpto

\* A fold in a given order over the subsets of a finite set exists.
LEMMA FoldedAll ==
  ASSUME NEW S, NEW V, NEW base, NEW step, NEW pick, IsFold(S, V, base, step, pick)
  PROVE  \E F : Folds(F, S, V, base, step, pick)
<1>. DEFINE I == {s \in SUBSET S : \E F : FoldsUpto(F, S, V, base, step, pick, Cardinality(s))}
<1>0. IsFiniteSet(S) /\ base \in V
  BY DEF IsFold
<1>1. {} \in I
  <2>1. FoldsUpto([s \in SUBSET S |-> base], S, V, base, step, pick, 0)
    <3>1. ASSUME NEW s \in SUBSET S, Cardinality(s) <= 0 PROVE s = {}
      <4>1. Cardinality(s) \in Nat /\ (s # {} => Cardinality(s) >= 1)
        BY <1>0, Sizes
      <4>2. QED
        BY <3>1, <4>1
    <3>2. QED
      BY <1>0, <3>1 DEF FoldsUpto, FoldStep
  <2>2. Cardinality({}) = 0
    BY FS_EmptySet
  <2>3. QED
    BY <2>1, <2>2
<1>2. ASSUME NEW T \in SUBSET S, NEW x \in S, T \in I, x \notin T PROVE T \cup {x} \in I
  <2>1. IsFiniteSet(T) /\ Cardinality(T) \in Nat
    BY <1>0, Sizes
  <2>2. Cardinality(T \cup {x}) = Cardinality(T) + 1
    BY <1>2, <2>1, FS_AddElement
  <2>3. PICK F : FoldsUpto(F, S, V, base, step, pick, Cardinality(T))
    BY <1>2
  <2>4. \E G : FoldsUpto(G, S, V, base, step, pick, Cardinality(T) + 1)
    BY <2>1, <2>3, FoldsOfMore
  <2>5. QED
    BY <2>2, <2>4
<1>3. S \in I
  <2>. HIDE DEF I
  <2>. QED
    BY <1>0, <1>1, <1>2, SubsetInduction
<1>4. PICK F : FoldsUpto(F, S, V, base, step, pick, Cardinality(S))
  BY <1>3
<1>5. \A s \in SUBSET S : Cardinality(s) <= Cardinality(S)
  BY <1>0, Sizes
<1>6. Folds(F, S, V, base, step, pick)
  BY <1>4, <1>5 DEF Folds, FoldsUpto
<1>7. QED
  BY <1>6

\* The sum over s is made from one over fewer elements.
SumStep(F, g, s) == IF s = {} THEN 0 ELSE g[Pick(s)] + F[s \ {Pick(s)}]
Sums(F, S, g) == F \in [SUBSET S -> Int] /\ \A s \in SUBSET S : F[s] = SumStep(F, g, s)

\* The partial sums of a function on a finite set exist.
LEMMA SummedAll ==
  ASSUME NEW S, IsFiniteSet(S), NEW g \in [S -> Int]
  PROVE  \E F : Sums(F, S, g)
<1>1. PICK step, pick : step = [x \in S |-> [n \in Int |-> g[x] + n]] /\ pick = [s \in SUBSET S |-> Pick(s)]
  OBVIOUS
<1>2. IsFold(S, Int, 0, step, pick)
  BY <1>1, Picked DEF IsFold
<1>3. PICK F : Folds(F, S, Int, 0, step, pick)
  BY <1>2, FoldedAll
<1>4. ASSUME NEW s \in SUBSET S PROVE F[s] = SumStep(F, g, s)
  <2>1. F[s] = FoldStep(F, 0, step, pick, s) /\ pick[s] = Pick(s) /\ F \in [SUBSET S -> Int]
    BY <1>1, <1>3 DEF Folds
  <2>2. CASE s = {}
    BY <2>1, <2>2 DEF FoldStep, SumStep
  <2>3. CASE s # {}
    <3>1. PICK x, n : x = Pick(s) /\ n = F[s \ {x}]
      OBVIOUS
    <3>2. x \in S /\ n \in Int
      BY <2>1, <2>3, <3>1, Picked
    <3>3. step[x][n] = g[x] + n
      BY <1>1, <3>2
    <3>4. QED
      BY <2>1, <2>3, <3>1, <3>3 DEF FoldStep, SumStep
  <2>4. QED
    BY <2>2, <2>3
<1>5. Sums(F, S, g)
  BY <1>3, <1>4 DEF Sums, Folds
<1>6. QED
  BY <1>5

\* SumFunction, the sum over the dims in every address and guard, is the last of those
\* partial sums.
LEMMA SumFunctionSums ==
  ASSUME NEW S, IsFiniteSet(S), NEW g \in [S -> Int]
  PROVE  \E F : Sums(F, S, g) /\ SumFunction(g) = F[S]
<1>. DEFINE Eq(F) == F = [s \in SUBSET S |-> IF s = {} THEN 0 ELSE g[Pick(s)] + F[s \ {Pick(s)}]]
            Iter == CHOOSE F : Eq(F)
<1>1. PICK G : Sums(G, S, g)
  BY SummedAll
<1>2. Eq(G)
  BY <1>1 DEF Sums, SumStep
<1>3. Eq(Iter)
  BY <1>2
<1>4. \A s \in SUBSET S : Iter[s] = IF s = {} THEN 0 ELSE g[Pick(s)] + Iter[s \ {Pick(s)}]
  BY <1>3
<1>. HIDE DEF Iter, Eq
<1>5. SumFunction(g) = Iter[S]
  BY DEF SumFunction, SumFunctionOnSet, FoldFunctionOnSet, MapThenFoldSet, Pick, Iter, Eq
<1>6. PICK H : H = Iter
  OBVIOUS
<1>7. SameSteps(H, G, S)
  BY <1>1, <1>4, <1>6 DEF Sums, SumStep, SameSteps
<1>8. \A s \in SUBSET S : H[s] = G[s]
  BY <1>7, FoldsAgree
<1>9. QED
  BY <1>1, <1>5, <1>6, <1>8

\* A partial sum is the sum of the function restricted to that part.
LEMMA SumsAgree ==
  ASSUME NEW S, IsFiniteSet(S), NEW g \in [S -> Int], NEW F, Sums(F, S, g),
         NEW T \in SUBSET S, NEW h \in [T -> Int], \A x \in T : h[x] = g[x]
  PROVE  SumFunction(h) = F[T]
<1>1. IsFiniteSet(T)
  BY FS_Subset
<1>2. PICK G : Sums(G, T, h) /\ SumFunction(h) = G[T]
  BY <1>1, SumFunctionSums
<1>3. SameSteps(F, G, T)
  <2>1. ASSUME NEW s \in SUBSET T, s # {} => F[s \ {Pick(s)}] = G[s \ {Pick(s)}] PROVE F[s] = G[s]
    <3>1. F[s] = SumStep(F, g, s) /\ G[s] = SumStep(G, h, s)
      BY <1>2 DEF Sums
    <3>2. s # {} => Pick(s) \in T /\ h[Pick(s)] = g[Pick(s)]
      BY Picked
    <3>3. QED
      BY <2>1, <3>1, <3>2 DEF SumStep
  <2>2. QED
    BY <2>1 DEF SameSteps
<1>4. \A s \in SUBSET T : F[s] = G[s]
  BY <1>1, <1>3, FoldsAgree
<1>5. QED
  BY <1>2, <1>4

\* A sum is the same whichever element it takes next: the order of the dims in a layout
\* does not matter to an address.
LEMMA AnyOrder ==
  ASSUME NEW S, IsFiniteSet(S), NEW g \in [S -> Int], NEW F, Sums(F, S, g)
  PROVE  \A s \in SUBSET S : \A x \in s : F[s] = g[x] + F[s \ {x}]
<1>. DEFINE Bad == {s \in SUBSET S : \E x \in s : F[s] # g[x] + F[s \ {x}]}
<1>1. SUFFICES ASSUME Bad # {} PROVE FALSE
  OBVIOUS
<1>2. PICK s \in Bad : \A u \in SUBSET s : u # s => u \notin Bad
  <2>1. Bad \in SUBSET (SUBSET S)
    OBVIOUS
  <2>. HIDE DEF Bad
  <2>2. QED
    BY <1>1, <2>1, LeastSubset
<1>3. PICK x \in s : F[s] # g[x] + F[s \ {x}]
  BY <1>2
<1>4. PICK y \in s : F[s] = g[y] + F[s \ {y}]
  BY <1>2, <1>3, Picked DEF Sums, SumStep
<1>5. x # y
  BY <1>3, <1>4
<1>6. F[s \ {y}] = g[x] + F[(s \ {y}) \ {x}]
  BY <1>2, <1>5
<1>7. F[s \ {x}] = g[y] + F[(s \ {x}) \ {y}]
  BY <1>2, <1>5
<1>8. (s \ {y}) \ {x} = (s \ {x}) \ {y}
  OBVIOUS
<1>9. g[x] \in Int /\ g[y] \in Int /\ F[(s \ {y}) \ {x}] \in Int
  BY <1>2 DEF Sums
<1>10. F[s] = g[y] + (g[x] + F[(s \ {y}) \ {x}]) /\ F[s \ {x}] = g[y] + F[(s \ {y}) \ {x}]
  BY <1>4, <1>6, <1>7, <1>8
<1>11. QED
  <2>. HIDE DEF Bad
  <2>. QED
    BY <1>3, <1>9, <1>10

-----------------------------------------------------------------------------
(* SUMS of functions                                                       *)

\* A sum of integers is an integer.
LEMMA SumInt ==
  ASSUME NEW S, IsFiniteSet(S), NEW g \in [S -> Int]
  PROVE  SumFunction(g) \in Int
<1>1. PICK F : Sums(F, S, g) /\ SumFunction(g) = F[S]
  BY SumFunctionSums
<1>2. QED
  BY <1>1 DEF Sums

\* The sum over no dims is 0.
LEMMA SumEmpty ==
  ASSUME NEW g \in [{} -> Int]
  PROVE  SumFunction(g) = 0
<1>1. PICK F : Sums(F, {}, g) /\ SumFunction(g) = F[{}]
  BY SumFunctionSums, FS_EmptySet
<1>2. QED
  BY <1>1 DEF Sums, SumStep

\* A sum is one of its terms and the sum of the others.
LEMMA SumTake ==
  ASSUME NEW S, IsFiniteSet(S), NEW g \in [S -> Int], NEW x \in S,
         NEW h \in [S \ {x} -> Int], \A y \in S \ {x} : h[y] = g[y]
  PROVE  SumFunction(g) = g[x] + SumFunction(h)
<1>1. PICK F : Sums(F, S, g) /\ SumFunction(g) = F[S]
  BY SumFunctionSums
<1>2. F[S] = g[x] + F[S \ {x}]
  BY <1>1, AnyOrder
<1>3. SumFunction(h) = F[S \ {x}]
  <2>1. S \ {x} \in SUBSET S
    OBVIOUS
  <2>2. QED
    BY <1>1, <2>1, SumsAgree
<1>4. QED
  BY <1>1, <1>2, <1>3

\* The functions g and h have the same values on S.
Agree(g, h, S) == \A x \in S : g[x] = h[x]

\* One more element adds its term.
LEMMA SumAdd ==
  ASSUME NEW T, IsFiniteSet(T), NEW x, x \notin T,
         NEW g \in [T \cup {x} -> Int], NEW h \in [T -> Int], Agree(h, g, T)
  PROVE  SumFunction(g) = g[x] + SumFunction(h)
<1>1. IsFiniteSet(T \cup {x})
  BY FS_AddElement
<1>2. (T \cup {x}) \ {x} = T
  OBVIOUS
<1>3. h \in [(T \cup {x}) \ {x} -> Int] /\ \A y \in (T \cup {x}) \ {x} : h[y] = g[y]
  BY <1>2 DEF Agree
<1>4. QED
  BY <1>1, <1>3, SumTake

\* The sums of the restrictions of one function grow a term at a time.
LEMMA SumParts ==
  ASSUME NEW S, IsFiniteSet(S), NEW f \in [S -> Int]
  PROVE  /\ Restrict(f, S) = f
         /\ SumFunction(Restrict(f, {})) = 0
         /\ \A T \in SUBSET S : SumFunction(Restrict(f, T)) \in Int
         /\ \A T \in SUBSET S, x \in S :
              x \notin T => SumFunction(Restrict(f, T \cup {x})) = f[x] + SumFunction(Restrict(f, T))
<1>1. Restrict(f, S) = f
  BY DEF Restrict
<1>2. \A T \in SUBSET S : Restrict(f, T) \in [T -> Int] /\ IsFiniteSet(T)
  BY FS_Subset DEF Restrict
<1>3. SumFunction(Restrict(f, {})) = 0
  BY <1>2, SumEmpty
<1>4. \A T \in SUBSET S : SumFunction(Restrict(f, T)) \in Int
  BY <1>2, SumInt
<1>5. ASSUME NEW T \in SUBSET S, NEW x \in S, x \notin T
      PROVE  SumFunction(Restrict(f, T \cup {x})) = f[x] + SumFunction(Restrict(f, T))
  <2>1. Restrict(f, T \cup {x}) \in [T \cup {x} -> Int] /\ Restrict(f, T) \in [T -> Int] /\ IsFiniteSet(T)
    BY <1>2
  <2>2. Agree(Restrict(f, T), Restrict(f, T \cup {x}), T) /\ Restrict(f, T \cup {x})[x] = f[x]
    BY DEF Agree, Restrict
  <2>3. PICK g, h : g = Restrict(f, T \cup {x}) /\ h = Restrict(f, T)
    OBVIOUS
  <2>4. g \in [T \cup {x} -> Int] /\ h \in [T -> Int] /\ Agree(h, g, T)
    BY <2>1, <2>2, <2>3
  <2>5. SumFunction(g) = g[x] + SumFunction(h)
    BY <1>5, <2>1, <2>4, SumAdd
  <2>6. QED
    BY <2>2, <2>3, <2>5
<1>6. QED
  BY <1>1, <1>3, <1>4, <1>5

\* A sum of two functions, a multiple of one, and one under another.
IsPlus(k, g, h, S) == \A x \in S : k[x] = g[x] + h[x]

\* The sum of sums.
LEMMA SumPlus ==
  ASSUME NEW S, IsFiniteSet(S), NEW g \in [S -> Int], NEW h \in [S -> Int],
         NEW k \in [S -> Int], IsPlus(k, g, h, S)
  PROVE  SumFunction(k) = SumFunction(g) + SumFunction(h)
<1>. DEFINE I == {T \in SUBSET S : SumFunction(Restrict(k, T)) = SumFunction(Restrict(g, T)) + SumFunction(Restrict(h, T))}
<1>1. {} \in I
  BY SumParts
<1>2. ASSUME NEW T \in SUBSET S, NEW x \in S, T \in I, x \notin T PROVE T \cup {x} \in I
  <2>1. k[x] = g[x] + h[x] /\ g[x] \in Int /\ h[x] \in Int
    BY DEF IsPlus
  <2>2. SumFunction(Restrict(k, T \cup {x})) = k[x] + SumFunction(Restrict(k, T))
    BY <1>2, SumParts
  <2>3. /\ SumFunction(Restrict(g, T \cup {x})) = g[x] + SumFunction(Restrict(g, T))
        /\ SumFunction(Restrict(g, T)) \in Int
    BY <1>2, SumParts
  <2>4. /\ SumFunction(Restrict(h, T \cup {x})) = h[x] + SumFunction(Restrict(h, T))
        /\ SumFunction(Restrict(h, T)) \in Int
    BY <1>2, SumParts
  <2>5. QED
    BY <1>2, <2>1, <2>2, <2>3, <2>4
<1>3. S \in I
  <2>. HIDE DEF I
  <2>. QED
    BY <1>1, <1>2, SubsetInduction
<1>4. QED
  BY <1>3, SumParts

IsTimes(h, k, g, S) == \A x \in S : h[x] = k * g[x]

\* A factor common to all terms comes out of a sum.
LEMMA SumTimes ==
  ASSUME NEW S, IsFiniteSet(S), NEW g \in [S -> Int], NEW h \in [S -> Int], NEW k \in Int, IsTimes(h, k, g, S)
  PROVE  SumFunction(h) = k * SumFunction(g)
<1>. DEFINE I == {T \in SUBSET S : SumFunction(Restrict(h, T)) = k * SumFunction(Restrict(g, T))}
<1>1. {} \in I
  BY SumParts
<1>2. ASSUME NEW T \in SUBSET S, NEW x \in S, T \in I, x \notin T PROVE T \cup {x} \in I
  <2>1. h[x] = k * g[x] /\ g[x] \in Int
    BY DEF IsTimes
  <2>2. SumFunction(Restrict(h, T \cup {x})) = h[x] + SumFunction(Restrict(h, T))
    BY <1>2, SumParts
  <2>3. /\ SumFunction(Restrict(g, T \cup {x})) = g[x] + SumFunction(Restrict(g, T))
        /\ SumFunction(Restrict(g, T)) \in Int
    BY <1>2, SumParts
  <2>4. \A a, b \in Int : k * (a + b) = k * a + k * b
    OBVIOUS
  <2>5. QED
    BY <1>2, <2>1, <2>2, <2>3, <2>4
<1>3. S \in I
  <2>. HIDE DEF I
  <2>. QED
    BY <1>1, <1>2, SubsetInduction
<1>4. QED
  BY <1>3, SumParts

Under(g, h, S) == \A x \in S : g[x] <= h[x]

\* A sum of smaller terms is smaller.
LEMMA SumMono ==
  ASSUME NEW S, IsFiniteSet(S), NEW g \in [S -> Int], NEW h \in [S -> Int], Under(g, h, S)
  PROVE  SumFunction(g) <= SumFunction(h)
<1>. DEFINE I == {T \in SUBSET S : SumFunction(Restrict(g, T)) <= SumFunction(Restrict(h, T))}
<1>1. {} \in I
  BY SumParts
<1>2. ASSUME NEW T \in SUBSET S, NEW x \in S, T \in I, x \notin T PROVE T \cup {x} \in I
  <2>1. g[x] <= h[x] /\ g[x] \in Int /\ h[x] \in Int
    BY DEF Under
  <2>2. /\ SumFunction(Restrict(g, T \cup {x})) = g[x] + SumFunction(Restrict(g, T))
        /\ SumFunction(Restrict(g, T)) \in Int
    BY <1>2, SumParts
  <2>3. /\ SumFunction(Restrict(h, T \cup {x})) = h[x] + SumFunction(Restrict(h, T))
        /\ SumFunction(Restrict(h, T)) \in Int
    BY <1>2, SumParts
  <2>4. QED
    BY <1>2, <2>1, <2>2, <2>3
<1>3. S \in I
  <2>. HIDE DEF I
  <2>. QED
    BY <1>1, <1>2, SubsetInduction
<1>4. QED
  BY <1>3, SumParts

\* A sum is the sum over a part and the sum over the rest.
LEMMA SumUnion ==
  ASSUME NEW S, IsFiniteSet(S), NEW f \in [S -> Int], NEW A \in SUBSET S
  PROVE  SumFunction(f) = SumFunction(Restrict(f, A)) + SumFunction(Restrict(f, S \ A))
<1>. DEFINE I == {T \in SUBSET S :
                    SumFunction(Restrict(f, A \cup T)) = SumFunction(Restrict(f, A)) + SumFunction(Restrict(f, T \ A))}
<1>1. {} \in I
  <2>1. A \cup {} = A /\ {} \ A = {}
    OBVIOUS
  <2>2. QED
    BY <2>1, SumParts
<1>2. ASSUME NEW T \in SUBSET S, NEW x \in S, T \in I, x \notin T PROVE T \cup {x} \in I
  <2>1. PICK U, V : U = A \cup T /\ V = T \ A
    OBVIOUS
  <2>2. U \in SUBSET S /\ V \in SUBSET S
    BY <2>1
  <2>3. f[x] \in Int /\ SumFunction(Restrict(f, A)) \in Int /\ SumFunction(Restrict(f, V)) \in Int
    BY <2>2, SumParts
  <2>4. SumFunction(Restrict(f, U)) = SumFunction(Restrict(f, A)) + SumFunction(Restrict(f, V))
    BY <1>2, <2>1
  <2>5. CASE x \in A
    <3>1. A \cup (T \cup {x}) = U /\ (T \cup {x}) \ A = V
      BY <2>1, <2>5
    <3>2. QED
      BY <2>4, <3>1
  <2>6. CASE x \notin A
    <3>1. A \cup (T \cup {x}) = U \cup {x} /\ (T \cup {x}) \ A = V \cup {x} /\ x \notin U /\ x \notin V
      BY <1>2, <2>1, <2>6
    <3>2. SumFunction(Restrict(f, U \cup {x})) = f[x] + SumFunction(Restrict(f, U))
      BY <2>2, <3>1, SumParts
    <3>3. SumFunction(Restrict(f, V \cup {x})) = f[x] + SumFunction(Restrict(f, V))
      BY <2>2, <3>1, SumParts
    <3>4. SumFunction(Restrict(f, U \cup {x})) = SumFunction(Restrict(f, A)) + SumFunction(Restrict(f, V \cup {x}))
      BY <2>3, <2>4, <3>2, <3>3
    <3>5. QED
      BY <3>1, <3>4
  <2>7. QED
    BY <2>5, <2>6
<1>3. S \in I
  <2>. HIDE DEF I
  <2>. QED
    BY <1>1, <1>2, SubsetInduction
<1>4. A \cup S = S
  OBVIOUS
<1>5. QED
  BY <1>3, <1>4, SumParts

\* A sum of zeros is 0.
LEMMA SumZero ==
  ASSUME NEW S, IsFiniteSet(S), NEW f \in [S -> Int], \A x \in S : f[x] = 0
  PROVE  SumFunction(f) = 0
<1>1. IsTimes(f, 0, f, S)
  BY DEF IsTimes
<1>2. SumFunction(f) = 0 * SumFunction(f) /\ SumFunction(f) \in Int
  BY <1>1, SumTimes, SumInt
<1>3. QED
  BY <1>2

\* The terms that are 0 may be left out of a sum, as Affine drops zero coefficients.
LEMMA SumSupport ==
  ASSUME NEW S, IsFiniteSet(S), NEW f \in [S -> Int], NEW A \in SUBSET S, \A x \in S \ A : f[x] = 0
  PROVE  SumFunction(f) = SumFunction(Restrict(f, A))
<1>1. SumFunction(Restrict(f, S \ A)) = 0
  <2>1. IsFiniteSet(S \ A)
    BY FS_Subset
  <2>2. Restrict(f, S \ A) \in [S \ A -> Int] /\ \A x \in S \ A : Restrict(f, S \ A)[x] = 0
    BY DEF Restrict
  <2>3. QED
    BY <2>1, <2>2, SumZero
<1>2. QED
  BY <1>1, SumUnion, SumParts

\* The sum of one term.
LEMMA SumOne ==
  ASSUME NEW x, NEW f \in [{x} -> Int]
  PROVE  SumFunction(f) = f[x]
<1>1. IsFiniteSet({x}) /\ {} \cup {x} = {x} /\ f[x] \in Int
  BY FS_Singleton
<1>2. QED
  BY <1>1, SumParts

\* The sum of two terms.
LEMMA SumTwo ==
  ASSUME NEW x, NEW y, x # y, NEW f \in [{x, y} -> Int]
  PROVE  SumFunction(f) = f[x] + f[y]
<1>1. PICK h : h = Restrict(f, {y})
  OBVIOUS
<1>2. h \in [{y} -> Int] /\ h[y] = f[y] /\ Agree(h, f, {y})
  BY <1>1 DEF Restrict, Agree
<1>3. IsFiniteSet({y}) /\ x \notin {y} /\ {y} \cup {x} = {x, y}
  BY FS_Singleton
<1>4. SumFunction(f) = f[x] + SumFunction(h)
  BY <1>2, <1>3, SumAdd
<1>5. QED
  BY <1>2, <1>4, SumOne

\* The sum of a table by rows and by columns.
Column(M, A, b) == [a \in A |-> M[a][b]]
Columns(M, A, B, T) == [b \in B |-> SumFunction(Restrict(Column(M, A, b), T))]

\* Summing the rows of a table or its columns gives the same: substituting forms into a
\* form and then evaluating is evaluating the forms first.
LEMMA SumSwap ==
  ASSUME NEW A, IsFiniteSet(A), NEW B, IsFiniteSet(B), NEW M \in [A -> [B -> Int]],
         NEW R \in [A -> Int], \A a \in A : R[a] = SumFunction(M[a])
  PROVE  SumFunction(R) = SumFunction([b \in B |-> SumFunction(Column(M, A, b))])
<1>1. \A b \in B : Column(M, A, b) \in [A -> Int]
  BY DEF Column
<1>2. \A T \in SUBSET A : Columns(M, A, B, T) \in [B -> Int]
  <2>1. ASSUME NEW T \in SUBSET A, NEW b \in B PROVE SumFunction(Restrict(Column(M, A, b), T)) \in Int
    BY <1>1, SumParts
  <2>2. QED
    BY <2>1 DEF Columns
<1>. DEFINE I == {T \in SUBSET A : SumFunction(Restrict(R, T)) = SumFunction(Columns(M, A, B, T))}
<1>3. {} \in I
  <2>1. \A b \in B : Columns(M, A, B, {})[b] = 0
    <3>1. ASSUME NEW b \in B PROVE SumFunction(Restrict(Column(M, A, b), {})) = 0
      BY <1>1, SumParts
    <3>2. QED
      BY <3>1 DEF Columns
  <2>2. SumFunction(Columns(M, A, B, {})) = 0
    BY <1>2, <2>1, SumZero
  <2>3. QED
    BY <2>2, SumParts
<1>4. ASSUME NEW T \in SUBSET A, NEW x \in A, T \in I, x \notin T PROVE T \cup {x} \in I
  <2>1. PICK g, h, k : g = M[x] /\ h = Columns(M, A, B, T) /\ k = Columns(M, A, B, T \cup {x})
    OBVIOUS
  <2>2. g \in [B -> Int] /\ h \in [B -> Int] /\ k \in [B -> Int]
    BY <1>2, <2>1
  <2>3. IsPlus(k, g, h, B)
    <3>1. ASSUME NEW b \in B PROVE k[b] = g[b] + h[b]
      <4>1. PICK f : f = Column(M, A, b)
        OBVIOUS
      <4>2. f \in [A -> Int] /\ f[x] = g[b]
        BY <1>1, <2>1, <4>1 DEF Column
      <4>3. SumFunction(Restrict(f, T \cup {x})) = f[x] + SumFunction(Restrict(f, T))
        BY <1>4, <4>2, SumParts
      <4>4. QED
        BY <2>1, <4>1, <4>2, <4>3 DEF Columns
    <3>2. QED
      BY <3>1 DEF IsPlus
  <2>4. SumFunction(k) = SumFunction(g) + SumFunction(h)
    BY <2>2, <2>3, SumPlus
  <2>5. SumFunction(Restrict(R, T \cup {x})) = R[x] + SumFunction(Restrict(R, T))
    BY <1>4, SumParts
  <2>6. R[x] = SumFunction(g) /\ SumFunction(Restrict(R, T)) = SumFunction(h)
    BY <1>4, <2>1
  <2>7. SumFunction(Restrict(R, T \cup {x})) = SumFunction(k)
    BY <2>4, <2>5, <2>6
  <2>8. QED
    BY <2>1, <2>7
<1>5. A \in I
  <2>. HIDE DEF I
  <2>. QED
    BY <1>3, <1>4, SubsetInduction
<1>6. \A b \in B : Restrict(Column(M, A, b), A) = Column(M, A, b)
  BY <1>1, SumParts
<1>7. Columns(M, A, B, A) = [b \in B |-> SumFunction(Column(M, A, b))]
  BY <1>6 DEF Columns
<1>8. Restrict(R, A) = R
  BY SumParts
<1>9. QED
  BY <1>5, <1>7, <1>8

-----------------------------------------------------------------------------
(* LAYOUTS *)

\* c gives every dim of l a coordinate.
IsPoint(l, c) == \A n \in Names(l) : c[n] \in Int

Terms(l, c) == [n \in Names(l) |-> l.dims[n].stride * c[n]]

\* Products of integers, for the leaves that need only that.
LEMMA IntTimes == \A a, b \in Int : a * b \in Int
  OBVIOUS

\* The terms of an address are integers.
LEMMA TermsInt ==
  ASSUME NEW l, IsLayout(l), NEW c, IsPoint(l, c)
  PROVE  Terms(l, c) \in [Names(l) -> Int]
<1>1. ASSUME NEW n \in Names(l) PROVE l.dims[n].stride * c[n] \in Int
  BY IntTimes DEF IsLayout, IsDim, IsPoint
<1>2. QED
  BY <1>1 DEF Terms

\* get_loc is the offset and the sum of stride times coordinate.
LEMMA LocIs ==
  ASSUME NEW l, NEW c
  PROVE  GetLoc(l, c) = l.offset + SumFunction(Terms(l, c))
BY DEF GetLoc, Sigma, Terms, Names

\* The address of a point is an integer.
LEMMA LocInt ==
  ASSUME NEW l, IsLayout(l), NEW c, IsPoint(l, c)
  PROVE  GetLoc(l, c) \in Int
<1>1. SumFunction(Terms(l, c)) \in Int
  BY TermsInt, SumInt DEF IsLayout
<1>2. QED
  BY <1>1, LocIs DEF IsLayout

\* Dims put in the place of others.
Joins(new, l, gone) ==
  /\ gone \subseteq Names(l) /\ IsFiniteSet(DOMAIN new)
  /\ \A m \in DOMAIN new : IsDim(new[m])
  /\ DOMAIN new \cap (Names(l) \ gone) = {}

\* Put, which every op that renames, splits or merges dims ends in, replaces the dims
\* gone by the new ones and leaves the others.
LEMMA PutIs ==
  ASSUME NEW l, IsLayout(l), NEW gone, NEW new, Joins(new, l, gone), NEW delta \in Int
  PROVE  /\ IsLayout(Put(l, gone, new, delta))
         /\ Names(Put(l, gone, new, delta)) = (Names(l) \ gone) \cup DOMAIN new
         /\ Put(l, gone, new, delta).offset = l.offset + delta
         /\ \A m \in DOMAIN new : Put(l, gone, new, delta).dims[m] = new[m]
         /\ \A m \in Names(l) \ gone : Put(l, gone, new, delta).dims[m] = l.dims[m]
<1>. DEFINE r == Put(l, gone, new, delta)
<1>1. DOMAIN r = {"dims", "offset"} /\ r.dims = Override(new, Drop(l.dims, gone)) /\ r.offset = l.offset + delta
  BY DEF Put
<1>2. Names(r) = (Names(l) \ gone) \cup DOMAIN new
  BY <1>1 DEF Drop, Names, Override
<1>3. \A m \in DOMAIN new : r.dims[m] = new[m]
  BY <1>1 DEF Drop, Names, Override
<1>4. \A m \in Names(l) \ gone : r.dims[m] = l.dims[m]
  BY <1>1 DEF Drop, Names, Override, Joins
<1>5. IsFiniteSet(Names(r))
  BY <1>2, FS_Union, FS_Difference DEF IsLayout, Joins
<1>6. IsLayout(r)
  <2>. HIDE DEF r
  <2>1. \A m \in Names(r) : IsDim(r.dims[m])
    BY <1>2, <1>3, <1>4 DEF IsLayout, Joins
  <2>2. r.offset \in Int
    BY <1>1 DEF IsLayout
  <2>3. QED
    BY <1>1, <1>5, <2>1, <2>2 DEF IsLayout
<1>7. QED
  BY <1>1, <1>2, <1>3, <1>4, <1>6

\* When the new dims add up to what the old ones did, the address is the same.
LEMMA PutMoves ==
  ASSUME NEW l, IsLayout(l), NEW gone, NEW new, Joins(new, l, gone), NEW delta \in Int,
         NEW c, IsPoint(Put(l, gone, new, delta), c), NEW p, IsPoint(l, p),
         \A m \in Names(l) \ gone : p[m] = c[m],
         SumFunction([m \in DOMAIN new |-> new[m].stride * c[m]]) + delta = SumFunction([m \in gone |-> l.dims[m].stride * p[m]])
  PROVE  GetLoc(Put(l, gone, new, delta), c) = GetLoc(l, p)
<1>1. PICK r : r = Put(l, gone, new, delta)
  OBVIOUS
<1>2. /\ IsLayout(r) /\ Names(r) = (Names(l) \ gone) \cup DOMAIN new /\ r.offset = l.offset + delta
      /\ \A m \in DOMAIN new : r.dims[m] = new[m]
      /\ \A m \in Names(l) \ gone : r.dims[m] = l.dims[m]
  BY <1>1, PutIs
<1>3. IsPoint(r, c)
  BY <1>1
<1>4. PICK S : S = Names(l) \ gone
  OBVIOUS
<1>5. PICK f, g : f = Terms(l, p) /\ g = Terms(r, c)
  OBVIOUS
<1>6. f \in [Names(l) -> Int] /\ g \in [Names(r) -> Int] /\ IsFiniteSet(Names(l)) /\ IsFiniteSet(Names(r))
  BY <1>2, <1>3, <1>5, TermsInt DEF IsLayout
<1>7. gone \in SUBSET Names(l) /\ Names(l) \ gone = S
  BY <1>4 DEF Joins
<1>8. SumFunction(f) = SumFunction(Restrict(f, gone)) + SumFunction(Restrict(f, S))
  BY <1>6, <1>7, SumUnion
<1>9. DOMAIN new \in SUBSET Names(r) /\ Names(r) \ DOMAIN new = S
  BY <1>2, <1>4 DEF Joins
<1>10. SumFunction(g) = SumFunction(Restrict(g, DOMAIN new)) + SumFunction(Restrict(g, S))
  BY <1>6, <1>9, SumUnion
<1>11. Restrict(f, S) = Restrict(g, S)
  BY <1>2, <1>4, <1>5 DEF Restrict, Terms
<1>12. Restrict(f, gone) = [m \in gone |-> l.dims[m].stride * p[m]]
  BY <1>5, <1>7 DEF Restrict, Terms
<1>13. Restrict(g, DOMAIN new) = [m \in DOMAIN new |-> new[m].stride * c[m]]
  BY <1>5, <1>9, <1>2 DEF Restrict, Terms
<1>14. SumFunction(Restrict(f, S)) \in Int /\ SumFunction(Restrict(f, gone)) \in Int /\ SumFunction(Restrict(g, DOMAIN new)) \in Int
  BY <1>4, <1>6, <1>7, <1>9, SumParts
<1>15. GetLoc(l, p) = l.offset + SumFunction(f) /\ GetLoc(r, c) = l.offset + delta + SumFunction(g)
  BY <1>2, <1>5, LocIs
<1>16. l.offset \in Int
  BY DEF IsLayout
<1>17. GetLoc(r, c) = GetLoc(l, p)
  BY <1>8, <1>10, <1>11, <1>12, <1>13, <1>14, <1>15, <1>16
<1>18. QED
  BY <1>1, <1>17

\* The dim m, as d, in the place of n.
Replaces(l, n, m, d) == IsLayout(l) /\ n \in Names(l) /\ m \notin Names(l) \ {n} /\ IsDim(d)

\* The same for one dim in place of one.
LEMMA PutOneIs ==
  ASSUME NEW l, NEW n, NEW m, NEW d, Replaces(l, n, m, d), NEW delta \in Int
  PROVE  /\ IsLayout(PutOne(l, n, m, d, delta))
         /\ Names(PutOne(l, n, m, d, delta)) = (Names(l) \ {n}) \cup {m}
         /\ PutOne(l, n, m, d, delta).dims[m] = d
         /\ \A k \in Names(l) \ {n} : PutOne(l, n, m, d, delta).dims[k] = l.dims[k]
<1>1. PICK new, gone : new = Single(m, d) /\ gone = {n}
  OBVIOUS
<1>2. DOMAIN new = {m} /\ new[m] = d
  BY <1>1 DEF Single
<1>3. Joins(new, l, gone)
  BY <1>1, <1>2, FS_Singleton DEF Joins, Replaces
<1>4. /\ IsLayout(Put(l, gone, new, delta))
      /\ Names(Put(l, gone, new, delta)) = (Names(l) \ gone) \cup DOMAIN new
      /\ \A k \in DOMAIN new : Put(l, gone, new, delta).dims[k] = new[k]
      /\ \A k \in Names(l) \ gone : Put(l, gone, new, delta).dims[k] = l.dims[k]
  BY <1>3, PutIs DEF Replaces
<1>5. QED
  BY <1>1, <1>2, <1>3, <1>4 DEF PutOne

\* p is the point of l that c stands for.
Carries(l, n, m, d, delta, c, p) ==
  /\ IsPoint(l, p)
  /\ \A k \in Names(l) \ {n} : p[k] = c[k]
  /\ d.stride * c[m] + delta = l.dims[n].stride * p[n]

\* An address is kept when the new dim steps to the same place as the old.
LEMMA PutOneMoves ==
  ASSUME NEW l, NEW n, NEW m, NEW d, Replaces(l, n, m, d), NEW delta \in Int,
         NEW c, IsPoint(PutOne(l, n, m, d, delta), c), NEW p, Carries(l, n, m, d, delta, c, p)
  PROVE  GetLoc(PutOne(l, n, m, d, delta), c) = GetLoc(l, p)
<1>1. PICK new, gone : new = Single(m, d) /\ gone = {n}
  OBVIOUS
<1>2. DOMAIN new = {m} /\ new[m] = d
  BY <1>1 DEF Single
<1>3. Names(PutOne(l, n, m, d, delta)) = (Names(l) \ {n}) \cup {m}
  BY PutOneIs
<1>4. c[m] \in Int /\ p[n] \in Int /\ d.stride \in Int /\ l.dims[n].stride \in Int
  BY <1>3 DEF IsPoint, IsDim, IsLayout, Replaces, Carries
<1>5. PICK f, g : f = [k \in {m} |-> new[k].stride * c[k]] /\ g = [k \in {n} |-> l.dims[k].stride * p[k]]
  OBVIOUS
<1>6. f \in [{m} -> Int] /\ g \in [{n} -> Int] /\ f[m] = d.stride * c[m] /\ g[n] = l.dims[n].stride * p[n]
  BY <1>2, <1>4, <1>5, IntTimes
<1>7. SumFunction(f) = d.stride * c[m] /\ SumFunction(g) = l.dims[n].stride * p[n]
  BY <1>6, SumOne
<1>8. SumFunction([k \in DOMAIN new |-> new[k].stride * c[k]]) + delta = SumFunction([k \in gone |-> l.dims[k].stride * p[k]])
  BY <1>1, <1>2, <1>5, <1>7 DEF Carries
<1>9. Joins(new, l, gone)
  BY <1>1, <1>2, FS_Singleton DEF Joins, Replaces
<1>10. /\ IsLayout(l) /\ IsPoint(Put(l, gone, new, delta), c) /\ IsPoint(l, p)
      /\ \A k \in Names(l) \ gone : p[k] = c[k]
  BY <1>1, <1>3 DEF Carries, Replaces, PutOne
<1>11. GetLoc(Put(l, gone, new, delta), c) = GetLoc(l, p)
  BY <1>8, <1>9, <1>10, PutMoves
<1>12. QED
  BY <1>1, <1>11 DEF PutOne

-----------------------------------------------------------------------------
(* WHERE A POINT IS, before and after each operation on layouts            *)

\* r has the strides and the offset of l.
SameMap(r, l) ==
  /\ {"dims", "offset"} \subseteq DOMAIN r
  /\ Names(r) = Names(l) /\ r.offset = l.offset
  /\ \A n \in Names(l) : IsDim(r.dims[n]) /\ r.dims[n].stride = l.dims[n].stride

\* A layout with the same strides and offset gives the same addresses.
LEMMA SameMapStays ==
  ASSUME NEW l, IsLayout(l), NEW r, SameMap(r, l)
  PROVE  IsLayout(r) /\ \A c : GetLoc(r, c) = GetLoc(l, c)
<1>1. IsLayout(r)
  BY DEF SameMap, IsLayout
<1>2. ASSUME NEW c PROVE GetLoc(r, c) = GetLoc(l, c)
  <2>1. Terms(r, c) = Terms(l, c)
    BY DEF SameMap, Terms
  <2>2. QED
    BY <2>1, LocIs DEF SameMap
<1>3. QED
  BY <1>1, <1>2

\* SetDim replaces one dim.
LEMMA SetDimIs ==
  ASSUME NEW l, IsLayout(l), NEW n \in Names(l), NEW d, IsDim(d)
  PROVE  /\ {"dims", "offset"} \subseteq DOMAIN SetDim(l, n, d)
         /\ Names(SetDim(l, n, d)) = Names(l) /\ SetDim(l, n, d).offset = l.offset
         /\ SetDim(l, n, d).dims[n] = d
         /\ \A m \in Names(l) \ {n} : SetDim(l, n, d).dims[m] = l.dims[m]
         /\ IsLayout(SetDim(l, n, d))
<1>. DEFINE r == SetDim(l, n, d)
<1>1. {"dims", "offset"} \subseteq DOMAIN r /\ r.offset = l.offset /\ r.dims = [l.dims EXCEPT ![n] = d]
  BY DEF SetDim, IsLayout
<1>2. Names(r) = Names(l) /\ r.dims[n] = d /\ \A m \in Names(l) \ {n} : r.dims[m] = l.dims[m]
  BY <1>1 DEF Names
<1>. HIDE DEF r
<1>3. IsLayout(r)
  <2>1. \A m \in Names(r) : IsDim(r.dims[m])
    BY <1>2 DEF IsLayout
  <2>2. QED
    BY <1>1, <1>2, <2>1 DEF IsLayout
<1>4. QED
  BY <1>1, <1>2, <1>3 DEF r

\* Replacing a dim by one of the same stride keeps every address.
LEMMA SetDimStays ==
  ASSUME NEW l, IsLayout(l), NEW n \in Names(l), NEW d, IsDim(d), d.stride = l.dims[n].stride
  PROVE  SameMap(SetDim(l, n, d), l)
<1>1. PICK r : r = SetDim(l, n, d)
  OBVIOUS
<1>2. /\ {"dims", "offset"} \subseteq DOMAIN r /\ Names(r) = Names(l) /\ r.offset = l.offset
      /\ r.dims[n] = d /\ \A m \in Names(l) \ {n} : r.dims[m] = l.dims[m]
  BY <1>1, SetDimIs
<1>3. ASSUME NEW m \in Names(l) PROVE IsDim(r.dims[m]) /\ r.dims[m].stride = l.dims[m].stride
  BY <1>2 DEF IsLayout
<1>4. QED
  BY <1>1, <1>2, <1>3 DEF SameMap

\* slice changes the bounds of one dim and no address.
LEMMA SliceStays ==
  ASSUME NEW l, IsLayout(l), NEW n \in Names(l), NEW lo \in Int, NEW hi \in Int
  PROVE  /\ SameMap(Slice(l, n, lo, hi), l)
         /\ Slice(l, n, lo, hi).dims[n].start = lo /\ Slice(l, n, lo, hi).dims[n].stop = hi
         /\ \A m \in Names(l) \ {n} : Slice(l, n, lo, hi).dims[m] = l.dims[m]
<1>1. PICK d : d = [l.dims[n] EXCEPT !.start = lo, !.stop = hi,
                     !.labels = IF l.dims[n].labels = None THEN None ELSE SubSeq(l.dims[n].labels, lo - l.dims[n].start + 1, hi - l.dims[n].start)]
  OBVIOUS
<1>2. IsDim(l.dims[n])
  BY DEF IsLayout
<1>3. IsDim(d) /\ d.stride = l.dims[n].stride /\ d.start = lo /\ d.stop = hi
  BY <1>1, <1>2 DEF IsDim, Fields
<1>4. Slice(l, n, lo, hi) = SetDim(l, n, d)
  BY <1>1 DEF Slice
<1>5. QED
  BY <1>3, <1>4, SetDimIs, SetDimStays

-----------------------------------------------------------------------------
(* LINEAR FORMS, and what becomes of one when coordinates are replaced by   *)
(* linear forms of others                                                   *)

Times(w, y, D) == [n \in D |-> w[n] * y[n]]

\* The products of a form and a point are integers.
LEMMA TimesInt ==
  ASSUME NEW D, NEW w, NEW y, \A n \in D : w[n] \in Int /\ y[n] \in Int
  PROVE  Times(w, y, D) \in [D -> Int]
<1>1. ASSUME NEW n \in D PROVE w[n] * y[n] \in Int
  BY IntTimes
<1>2. QED
  BY <1>1 DEF Times

Forms(D, w, gone, names, F, x, y, k) ==
  /\ IsFiniteSet(D) /\ IsFiniteSet(names) /\ gone \subseteq D /\ D \ gone \subseteq names
  /\ \A n \in D : w[n] \in Int /\ y[n] \in Int
  /\ \A m \in names : x[m] \in Int
  /\ \A n \in gone : k[n] \in Int /\ F[n] \in [names -> Int] /\ y[n] = SumFunction(Times(F[n], x, names)) + k[n]
  /\ \A n \in D \ gone : y[n] = x[n]
Weighed(w, F, gone, m) == [n \in gone |-> w[n] * F[n][m]]
\* The coefficients of the form after the replacement.
Gains(D, w, gone, names, F, h) ==
  \A m \in names :
    h[m] = SumFunction(Weighed(w, F, gone, m)) + (IF m \in D \ gone THEN w[m] ELSE 0)

\* A form evaluated at substituted coordinates, coefficient by coefficient.
LEMMA FormRows ==
  ASSUME NEW D, NEW w, NEW gone, NEW names, NEW F, NEW x, NEW y, NEW k, Forms(D, w, gone, names, F, x, y, k)
  PROVE  /\ \A m \in names : Weighed(w, F, gone, m) \in [gone -> Int]
         /\ \A m \in names : SumFunction(Weighed(w, F, gone, m)) \in Int
         /\ SumFunction([m \in names |-> SumFunction(Weighed(w, F, gone, m)) * x[m]]) + SumFunction(Times(w, k, gone))
              = SumFunction(Times(w, y, gone))
<1>1. IsFiniteSet(gone) /\ IsFiniteSet(names)
  BY FS_Subset DEF Forms
<1>2. ASSUME NEW m \in names
      PROVE  /\ Weighed(w, F, gone, m) \in [gone -> Int]
             /\ SumFunction(Weighed(w, F, gone, m)) \in Int
  <2>1. ASSUME NEW n \in gone PROVE w[n] * F[n][m] \in Int
    BY IntTimes DEF Forms
  <2>2. Weighed(w, F, gone, m) \in [gone -> Int]
    BY <2>1 DEF Weighed
  <2>3. QED
    BY <1>1, <2>2, SumInt
<1>3. PICK M : M = [n \in gone |-> [m \in names |-> (w[n] * F[n][m]) * x[m]]]
  OBVIOUS
<1>4. M \in [gone -> [names -> Int]]
  <2>1. ASSUME NEW n \in gone, NEW m \in names PROVE (w[n] * F[n][m]) * x[m] \in Int
    BY IntTimes DEF Forms
  <2>2. QED
    BY <1>3, <2>1
<1>5. PICK R : R = [n \in gone |-> w[n] * (y[n] - k[n])]
  OBVIOUS
<1>6. R \in [gone -> Int]
  <2>1. ASSUME NEW n \in gone PROVE w[n] * (y[n] - k[n]) \in Int
    <3>1. w[n] \in Int /\ y[n] - k[n] \in Int
      BY DEF Forms
    <3>2. QED
      BY <3>1, IntTimes
  <2>2. QED
    BY <1>5, <2>1
<1>7. ASSUME NEW n \in gone PROVE R[n] = SumFunction(M[n])
  <2>1. PICK g : g = Times(F[n], x, names)
    OBVIOUS
  <2>2. g \in [names -> Int]
    BY <2>1, TimesInt DEF Forms
  <2>3. w[n] \in Int /\ M[n] \in [names -> Int]
    BY <1>4 DEF Forms
  <2>4. IsTimes(M[n], w[n], g, names)
    <3>1. ASSUME NEW m \in names PROVE M[n][m] = w[n] * g[m]
      <4>1. w[n] \in Int /\ F[n][m] \in Int /\ x[m] \in Int
        BY DEF Forms
      <4>2. (w[n] * F[n][m]) * x[m] = w[n] * (F[n][m] * x[m])
        BY <4>1
      <4>3. QED
        BY <1>3, <2>1, <4>2 DEF Times
    <3>2. QED
      BY <3>1 DEF IsTimes
  <2>5. SumFunction(M[n]) = w[n] * SumFunction(g)
    BY <1>1, <2>2, <2>3, <2>4, SumTimes
  <2>6. SumFunction(g) \in Int
    BY <1>1, <2>2, SumInt
  <2>7. y[n] - k[n] = SumFunction(g)
    BY <2>1, <2>6 DEF Forms
  <2>8. QED
    BY <1>5, <2>5, <2>7
<1>8. SumFunction(R) = SumFunction([m \in names |-> SumFunction(Column(M, gone, m))])
  BY <1>1, <1>4, <1>6, <1>7, SumSwap
<1>9. ASSUME NEW m \in names PROVE SumFunction(Column(M, gone, m)) = SumFunction(Weighed(w, F, gone, m)) * x[m]
  <2>1. PICK g, h : g = Weighed(w, F, gone, m) /\ h = Column(M, gone, m)
    OBVIOUS
  <2>2. g \in [gone -> Int] /\ SumFunction(g) \in Int
    BY <1>2, <2>1
  <2>3. h \in [gone -> Int]
    BY <1>4, <2>1 DEF Column
  <2>4. x[m] \in Int
    BY DEF Forms
  <2>5. IsTimes(h, x[m], g, gone)
    <3>1. ASSUME NEW n \in gone PROVE h[n] = x[m] * g[n]
      <4>1. g[n] \in Int /\ h[n] = g[n] * x[m]
        BY <1>3, <2>1, <2>2 DEF Column, Weighed
      <4>2. QED
        BY <2>4, <4>1
    <3>2. QED
      BY <3>1 DEF IsTimes
  <2>6. SumFunction(h) = x[m] * SumFunction(g)
    BY <1>1, <2>2, <2>3, <2>4, <2>5, SumTimes
  <2>7. QED
    BY <2>1, <2>2, <2>4, <2>6
<1>10. [m \in names |-> SumFunction(Column(M, gone, m))] = [m \in names |-> SumFunction(Weighed(w, F, gone, m)) * x[m]]
  BY <1>9
<1>11. SumFunction(R) + SumFunction(Times(w, k, gone)) = SumFunction(Times(w, y, gone))
  <2>1. PICK f, g : f = Times(w, y, gone) /\ g = Times(w, k, gone)
    OBVIOUS
  <2>2. \A n \in gone : w[n] \in Int /\ y[n] \in Int /\ k[n] \in Int
    BY DEF Forms
  <2>3. f \in [gone -> Int] /\ g \in [gone -> Int]
    BY <2>1, <2>2, TimesInt
  <2>4. IsPlus(f, R, g, gone)
    <3>1. ASSUME NEW n \in gone PROVE f[n] = R[n] + g[n]
      <4>1. f[n] = w[n] * y[n] /\ R[n] = w[n] * (y[n] - k[n]) /\ g[n] = w[n] * k[n]
        BY <1>5, <2>1 DEF Times
      <4>2. \A a, b, e \in Int : a * b = a * (b - e) + a * e
        OBVIOUS
      <4>3. QED
        BY <2>2, <4>1, <4>2
    <3>2. QED
      BY <3>1 DEF IsPlus
  <2>5. QED
    BY <1>1, <1>6, <2>1, <2>3, <2>4, SumPlus
<1>12. QED
  BY <1>2, <1>8, <1>10, <1>11

\* Substituting affine forms into an affine form keeps its value: the coefficients the
\* substitution collects and the constant it moves out add up.
LEMMA FormMoves ==
  ASSUME NEW D, NEW w, NEW gone, NEW names, NEW F, NEW x, NEW y, NEW k, Forms(D, w, gone, names, F, x, y, k),
         NEW h, Gains(D, w, gone, names, F, h)
  PROVE  /\ \A m \in names : h[m] \in Int
         /\ SumFunction(Times(h, x, names)) + SumFunction(Times(w, k, gone)) = SumFunction(Times(w, y, D))
<1>1. IsFiniteSet(gone) /\ IsFiniteSet(names) /\ IsFiniteSet(D)
  BY FS_Subset DEF Forms
<1>2. PICK G : G = [m \in names |-> SumFunction(Weighed(w, F, gone, m))]
  OBVIOUS
<1>3. \A m \in names : G[m] \in Int
  <2>1. \A m \in names : SumFunction(Weighed(w, F, gone, m)) \in Int
    BY FormRows
  <2>2. QED
    BY <1>2, <2>1
<1>4. PICK u : u = [m \in names |-> IF m \in D \ gone THEN w[m] ELSE 0]
  OBVIOUS
<1>5. \A m \in names : u[m] \in Int
  BY <1>4 DEF Forms
<1>6. \A m \in names : h[m] = G[m] + u[m]
  BY <1>2, <1>4 DEF Gains
<1>7. \A m \in names : h[m] \in Int
  BY <1>3, <1>5, <1>6
<1>8. PICK f, g, e : f = Times(h, x, names) /\ g = Times(G, x, names) /\ e = Times(u, x, names)
  OBVIOUS
<1>9. f \in [names -> Int] /\ g \in [names -> Int] /\ e \in [names -> Int]
  BY <1>3, <1>5, <1>7, <1>8, TimesInt DEF Forms
<1>10. IsPlus(f, g, e, names)
  <2>1. ASSUME NEW m \in names PROVE f[m] = g[m] + e[m]
    <3>1. f[m] = h[m] * x[m] /\ g[m] = G[m] * x[m] /\ e[m] = u[m] * x[m]
      BY <1>8 DEF Times
    <3>2. \A a, b, z \in Int : (a + b) * z = a * z + b * z
      OBVIOUS
    <3>3. x[m] \in Int
      BY DEF Forms
    <3>4. QED
      BY <1>3, <1>5, <1>6, <3>1, <3>2, <3>3
  <2>2. QED
    BY <2>1 DEF IsPlus
<1>11. SumFunction(f) = SumFunction(g) + SumFunction(e)
  BY <1>1, <1>9, <1>10, SumPlus
<1>12. SumFunction(g) + SumFunction(Times(w, k, gone)) = SumFunction(Times(w, y, gone))
  <2>1. g = [m \in names |-> SumFunction(Weighed(w, F, gone, m)) * x[m]]
    BY <1>2, <1>8 DEF Times
  <2>2. QED
    BY <2>1, FormRows
<1>13. PICK K : K = D \ gone
  OBVIOUS
<1>14. PICK q : q = Times(w, y, D)
  OBVIOUS
<1>15. q \in [D -> Int]
  BY <1>14, TimesInt DEF Forms
<1>16. SumFunction(e) = SumFunction(Restrict(e, K))
  <2>1. K \in SUBSET names
    BY <1>13 DEF Forms
  <2>2. \A m \in names \ K : e[m] = 0
    <3>1. ASSUME NEW m \in names \ K PROVE e[m] = 0
      <4>1. x[m] \in Int /\ e[m] = u[m] * x[m] /\ u[m] = 0
        BY <1>4, <1>8, <1>13 DEF Forms, Times
      <4>2. QED
        BY <4>1
    <3>2. QED
      BY <3>1
  <2>3. QED
    BY <1>1, <1>9, <2>1, <2>2, SumSupport
<1>17. Restrict(e, K) = Restrict(q, K)
  <2>1. K \subseteq names /\ K \subseteq D
    BY <1>13 DEF Forms
  <2>2. ASSUME NEW n \in K PROVE e[n] = q[n]
    <3>1. e[n] = u[n] * x[n] /\ u[n] = w[n] /\ q[n] = w[n] * y[n] /\ y[n] = x[n]
      BY <1>4, <1>8, <1>13, <1>14, <2>1 DEF Forms, Times
    <3>2. QED
      BY <3>1
  <2>3. QED
    BY <1>9, <1>15, <2>1, <2>2 DEF Restrict
<1>18. Restrict(q, gone) = Times(w, y, gone)
  BY <1>14 DEF Restrict, Times, Forms
<1>19. SumFunction(q) = SumFunction(Restrict(q, gone)) + SumFunction(Restrict(q, K))
  <2>1. gone \in SUBSET D
    BY DEF Forms
  <2>2. QED
    BY <1>1, <1>13, <1>15, <2>1, SumUnion
<1>20. /\ SumFunction(Restrict(q, gone)) \in Int /\ SumFunction(Restrict(q, K)) \in Int
       /\ SumFunction(g) \in Int /\ SumFunction(Times(w, k, gone)) \in Int
  <2>1. gone \in SUBSET D /\ K \in SUBSET D
    BY <1>13 DEF Forms
  <2>2. Times(w, k, gone) \in [gone -> Int]
    BY TimesInt DEF Forms
  <2>3. QED
    BY <1>1, <1>9, <1>15, <2>1, <2>2, SumParts, SumInt
<1>21. QED
  BY <1>7, <1>8, <1>11, <1>12, <1>14, <1>16, <1>17, <1>18, <1>19, <1>20

-----------------------------------------------------------------------------
(* GUARDS *)

IsForm(f) == IsFiniteSet(DOMAIN f) /\ \A m \in DOMAIN f : f[m] \in Int

\* Guard keeps the bounds and the nonzero coefficients.
LEMMA GuardIs ==
  ASSUME NEW f, IsForm(f), NEW lo \in Int, NEW hi \in Int
  PROVE  /\ IsGuard(Guard(f, lo, hi)) /\ DOMAIN Guard(f, lo, hi).coeffs \subseteq DOMAIN f
         /\ Guard(f, lo, hi).lo = lo /\ Guard(f, lo, hi).hi = hi
         /\ \A n \in DOMAIN Guard(f, lo, hi).coeffs : Guard(f, lo, hi).coeffs[n] = f[n]
         /\ \A n \in DOMAIN f \ DOMAIN Guard(f, lo, hi).coeffs : f[n] = 0
<1>1. PICK g : g = Guard(f, lo, hi)
  OBVIOUS
<1>2. g.lo = lo /\ g.hi = hi /\ g.coeffs = Restrict(f, {n \in DOMAIN f : f[n] # 0})
  BY <1>1 DEF Guard
<1>3. DOMAIN g.coeffs = {n \in DOMAIN f : f[n] # 0} /\ \A n \in DOMAIN g.coeffs : g.coeffs[n] = f[n]
  BY <1>2 DEF Restrict
<1>4. IsFiniteSet(DOMAIN g.coeffs)
  BY <1>3, FS_Subset DEF IsForm
<1>5. QED
  BY <1>1, <1>2, <1>3, <1>4 DEF IsGuard, IsForm

\* The value of a guard at a point is the sum of coefficient times coordinate.
LEMMA ValueIs ==
  ASSUME NEW g, NEW c
  PROVE  Value(g, c) = SumFunction(Times(g.coeffs, c, DOMAIN g.coeffs))
BY DEF Value, Sigma, Times

\* The value of a guard is an integer.
LEMMA ValueInt ==
  ASSUME NEW g, IsGuard(g), NEW c, \A n \in DOMAIN g.coeffs : c[n] \in Int
  PROVE  Value(g, c) \in Int
<1>1. Times(g.coeffs, c, DOMAIN g.coeffs) \in [DOMAIN g.coeffs -> Int]
  BY TimesInt DEF IsGuard
<1>2. QED
  BY <1>1, ValueIs, SumInt DEF IsGuard

\* Dropping the zero coefficients does not change the value.
LEMMA GuardValue ==
  ASSUME NEW f, IsForm(f), NEW lo \in Int, NEW hi \in Int, NEW c, \A n \in DOMAIN f : c[n] \in Int
  PROVE  Value(Guard(f, lo, hi), c) = SumFunction(Times(f, c, DOMAIN f))
<1>1. PICK g : g = Guard(f, lo, hi)
  OBVIOUS
<1>2. /\ DOMAIN g.coeffs \subseteq DOMAIN f
      /\ \A n \in DOMAIN g.coeffs : g.coeffs[n] = f[n]
      /\ \A n \in DOMAIN f \ DOMAIN g.coeffs : f[n] = 0
  BY <1>1, GuardIs
<1>3. PICK A, t : A = DOMAIN g.coeffs /\ t = Times(f, c, DOMAIN f)
  OBVIOUS
<1>4. t \in [DOMAIN f -> Int]
  BY <1>3, TimesInt DEF IsForm
<1>5. \A n \in DOMAIN f \ A : t[n] = 0
  <2>1. ASSUME NEW n \in DOMAIN f \ A PROVE t[n] = 0
    <3>1. t[n] = f[n] * c[n] /\ f[n] = 0 /\ c[n] \in Int
      BY <1>2, <1>3 DEF Times
    <3>2. QED
      BY <3>1
  <2>2. QED
    BY <2>1
<1>6. A \in SUBSET DOMAIN f /\ IsFiniteSet(DOMAIN f)
  BY <1>2, <1>3 DEF IsForm
<1>7. SumFunction(t) = SumFunction(Restrict(t, A))
  BY <1>4, <1>5, <1>6, SumSupport
<1>8. Restrict(t, A) = Times(g.coeffs, c, A)
  BY <1>2, <1>3, <1>6 DEF Restrict, Times
<1>9. QED
  BY <1>1, <1>3, <1>7, <1>8, ValueIs

\* What a substitution takes: forms with integer coefficients and constants.
IsSubstitution(forms, consts) == \A n \in DOMAIN forms : IsForm(forms[n]) /\ consts[n] \in Int
\* The point p of the old dims D that c stands for.
Stands(D, forms, consts, c, p) ==
  /\ \A n \in D : p[n] \in Int
  /\ \A n \in D \ DOMAIN forms : p[n] = c[n]
  /\ \A n \in D \cap DOMAIN forms :
       /\ \A m \in DOMAIN forms[n] : c[m] \in Int
       /\ p[n] = SumFunction(Times(forms[n], c, DOMAIN forms[n])) + consts[n]

Gone(g, forms) == DOMAIN forms \cap DOMAIN g.coeffs
NewNames(g, forms) == (DOMAIN g.coeffs \ Gone(g, forms)) \cup UNION {DOMAIN forms[n] : n \in Gone(g, forms)}
Filled(g, forms) == [n \in Gone(g, forms) |-> [m \in NewNames(g, forms) |-> IF m \in DOMAIN forms[n] THEN forms[n][m] ELSE 0]]
NewCoeffs(g, forms) ==
  [m \in NewNames(g, forms) |-> SumFunction(Weighed(g.coeffs, Filled(g, forms), Gone(g, forms), m))
                                 + (IF m \in Gone(g, forms) THEN 0 ELSE Coeff(g, m))]
Moved(g, forms, consts) == SumFunction(Times(g.coeffs, consts, Gone(g, forms)))

\* substitute collects the coefficients by name and moves the constants to the bounds.
LEMMA SubstituteIs ==
  ASSUME NEW g, NEW forms, NEW consts
  PROVE  Substitute(g, forms, consts)
           = Guard(NewCoeffs(g, forms), g.lo - Moved(g, forms, consts), g.hi - Moved(g, forms, consts))
<1>1. ASSUME NEW m \in NewNames(g, forms)
      PROVE  [n \in Gone(g, forms) |-> g.coeffs[n] * (IF m \in DOMAIN forms[n] THEN forms[n][m] ELSE 0)]
               = Weighed(g.coeffs, Filled(g, forms), Gone(g, forms), m)
  BY DEF Weighed, Filled
<1>2. NewCoeffs(g, forms) =
        [m \in NewNames(g, forms) |->
           SumFunction([n \in Gone(g, forms) |-> g.coeffs[n] * (IF m \in DOMAIN forms[n] THEN forms[n][m] ELSE 0)])
             + (IF m \in Gone(g, forms) THEN 0 ELSE Coeff(g, m))]
  BY <1>1 DEF NewCoeffs
<1>3. QED
  BY <1>2 DEF Substitute, Sigma, Moved, Times, NewNames, Gone

\* The names of a substituted guard are finitely many.
LEMMA NewNamesFinite ==
  ASSUME NEW g, IsGuard(g), NEW forms, NEW consts, IsSubstitution(forms, consts)
  PROVE  IsFiniteSet(NewNames(g, forms)) /\ IsFiniteSet(Gone(g, forms))
<1>1. PICK S : S = {DOMAIN forms[n] : n \in Gone(g, forms)}
  OBVIOUS
<1>2. IsFiniteSet(Gone(g, forms)) /\ IsFiniteSet(DOMAIN g.coeffs \ Gone(g, forms))
  BY FS_Subset DEF IsGuard, Gone
<1>3. IsFiniteSet(S)
  <2>1. PICK f : f = [n \in Gone(g, forms) |-> DOMAIN forms[n]]
    OBVIOUS
  <2>2. f \in Surjection(Gone(g, forms), S)
    BY <1>1, <2>1 DEF Surjection
  <2>3. QED
    BY <1>2, <2>2, FS_Surjection
<1>4. \A T \in S : IsFiniteSet(T)
  BY <1>1 DEF IsSubstitution, IsForm, Gone
<1>5. IsFiniteSet(UNION S)
  BY <1>3, <1>4, FS_UNION
<1>6. QED
  BY <1>1, <1>2, <1>5, FS_Union DEF NewNames

\* The coefficients of a substituted guard, and the constant moved out, are integers.
LEMMA NewCoeffsAre ==
  ASSUME NEW g, IsGuard(g), NEW forms, NEW consts, IsSubstitution(forms, consts)
  PROVE  IsForm(NewCoeffs(g, forms)) /\ Moved(g, forms, consts) \in Int
<1>1. IsFiniteSet(NewNames(g, forms)) /\ IsFiniteSet(Gone(g, forms))
  BY NewNamesFinite
<1>2. \A n \in Gone(g, forms) : g.coeffs[n] \in Int /\ consts[n] \in Int
  BY DEF Gone, IsGuard, IsSubstitution
<1>3. Moved(g, forms, consts) \in Int
  <2>1. Times(g.coeffs, consts, Gone(g, forms)) \in [Gone(g, forms) -> Int]
    BY <1>2, TimesInt
  <2>2. QED
    BY <1>1, <2>1, SumInt DEF Moved
<1>4. ASSUME NEW m \in NewNames(g, forms) PROVE NewCoeffs(g, forms)[m] \in Int
  <2>1. PICK u, F, S : u = Weighed(g.coeffs, F, S, m) /\ F = Filled(g, forms) /\ S = Gone(g, forms)
    OBVIOUS
  <2>2. ASSUME NEW n \in S PROVE g.coeffs[n] * F[n][m] \in Int
    <3>1. F[n][m] \in Int
      BY <2>1 DEF Filled, IsSubstitution, IsForm, Gone
    <3>2. QED
      BY <1>2, <2>1, <3>1, IntTimes
  <2>3. u \in [S -> Int]
    BY <2>1, <2>2 DEF Weighed
  <2>4. SumFunction(u) \in Int
    BY <1>1, <2>1, <2>3, SumInt
  <2>5. (IF m \in S THEN 0 ELSE Coeff(g, m)) \in Int
    BY DEF Coeff, IsGuard
  <2>6. QED
    BY <2>1, <2>4, <2>5 DEF NewCoeffs
<1>5. DOMAIN NewCoeffs(g, forms) = NewNames(g, forms)
  BY DEF NewCoeffs
<1>6. QED
  BY <1>1, <1>3, <1>4, <1>5 DEF IsForm

\* A substituted guard holds at a point exactly when the guard held at the point it
\* stands for: the padding moves with the data.
LEMMA SubstituteHolds ==
  ASSUME NEW g, IsGuard(g), NEW forms, NEW consts, IsSubstitution(forms, consts),
         NEW c, NEW p, Stands(DOMAIN g.coeffs, forms, consts, c, p)
  PROVE  Holds(Substitute(g, forms, consts), c) <=> Holds(g, p)
<1>1. PICK D, w, gone, names, F, h :
        /\ D = DOMAIN g.coeffs /\ w = g.coeffs /\ gone = Gone(g, forms) /\ names = NewNames(g, forms)
        /\ F = Filled(g, forms) /\ h = NewCoeffs(g, forms)
  OBVIOUS
<1>2. IsFiniteSet(names) /\ IsFiniteSet(D) /\ gone \subseteq D /\ D \ gone \subseteq names
  <2>1. IsFiniteSet(NewNames(g, forms))
    BY NewNamesFinite
  <2>2. QED
    BY <1>1, <2>1 DEF IsGuard, Gone, NewNames
<1>3. ASSUME NEW m \in names PROVE c[m] \in Int
  <2>1. CASE m \in D \ gone
    BY <1>1, <2>1 DEF Gone, Stands
  <2>2. CASE m \notin D \ gone
    <3>1. PICK n \in gone : m \in DOMAIN forms[n]
      BY <1>1, <2>2 DEF NewNames
    <3>2. QED
      BY <1>1, <3>1 DEF Gone, Stands
  <2>3. QED
    BY <2>1, <2>2
<1>4. ASSUME NEW n \in gone
      PROVE  consts[n] \in Int /\ F[n] \in [names -> Int] /\ p[n] = SumFunction(Times(F[n], c, names)) + consts[n]
  <2>1. PICK A, f : A = DOMAIN forms[n] /\ f = Times(F[n], c, names)
    OBVIOUS
  <2>2. A \in SUBSET names /\ IsForm(forms[n]) /\ consts[n] \in Int
    BY <1>1, <2>1 DEF NewNames, Gone, IsSubstitution
  <2>3. F[n] = [m \in names |-> IF m \in A THEN forms[n][m] ELSE 0]
    BY <1>1, <2>1 DEF Filled
  <2>4. F[n] \in [names -> Int]
    BY <2>1, <2>2, <2>3 DEF IsForm
  <2>5. f \in [names -> Int]
    BY <1>3, <2>1, <2>4, TimesInt
  <2>6. \A m \in names \ A : f[m] = 0
    <3>1. ASSUME NEW m \in names \ A PROVE f[m] = 0
      <4>1. f[m] = 0 * c[m] /\ c[m] \in Int
        BY <1>3, <2>1, <2>3 DEF Times
      <4>2. QED
        BY <4>1
    <3>2. QED
      BY <3>1
  <2>7. SumFunction(f) = SumFunction(Restrict(f, A))
    BY <1>2, <2>2, <2>5, <2>6, SumSupport
  <2>8. Restrict(f, A) = Times(forms[n], c, A)
    BY <2>1, <2>2, <2>3 DEF Restrict, Times
  <2>9. p[n] = SumFunction(Times(forms[n], c, A)) + consts[n]
    BY <1>1, <2>1 DEF Gone, Stands
  <2>10. QED
    BY <2>1, <2>2, <2>4, <2>7, <2>8, <2>9
<1>5. Forms(D, w, gone, names, F, c, p, consts)
  <2>1. \A n \in D \ gone : p[n] = c[n]
    BY <1>1 DEF Gone, Stands
  <2>2. \A n \in D : w[n] \in Int /\ p[n] \in Int
    BY <1>1 DEF Stands, IsGuard
  <2>3. QED
    BY <1>2, <1>3, <1>4, <2>1, <2>2 DEF Forms
<1>6. Gains(D, w, gone, names, F, h)
  <2>1. ASSUME NEW m \in names
        PROVE  h[m] = SumFunction(Weighed(w, F, gone, m)) + (IF m \in D \ gone THEN w[m] ELSE 0)
    <3>1. (IF m \in gone THEN 0 ELSE Coeff(g, m)) = (IF m \in D \ gone THEN w[m] ELSE 0)
      BY <1>1, <1>2 DEF Coeff
    <3>2. QED
      BY <1>1, <3>1 DEF NewCoeffs
  <2>2. QED
    BY <2>1 DEF Gains
<1>7. SumFunction(Times(h, c, names)) + SumFunction(Times(w, consts, gone)) = SumFunction(Times(w, p, D))
  BY <1>5, <1>6, FormMoves
<1>8. PICK k : k = Moved(g, forms, consts)
  OBVIOUS
<1>9. k \in Int /\ IsForm(h) /\ DOMAIN h = names /\ g.lo - k \in Int /\ g.hi - k \in Int
  BY <1>1, <1>8, NewCoeffsAre DEF IsGuard, NewCoeffs
<1>10. PICK s : s = Substitute(g, forms, consts)
  OBVIOUS
<1>11. s = Guard(h, g.lo - k, g.hi - k)
  BY <1>1, <1>8, <1>10, SubstituteIs
<1>12. Value(s, c) = SumFunction(Times(h, c, names)) /\ s.lo = g.lo - k /\ s.hi = g.hi - k
  <2>1. Value(s, c) = SumFunction(Times(h, c, names))
    BY <1>3, <1>9, <1>11, GuardValue
  <2>2. QED
    BY <1>9, <1>11, <2>1, GuardIs
<1>13. Value(s, c) + k = Value(g, p)
  BY <1>1, <1>7, <1>8, <1>12, ValueIs DEF Moved
<1>14. Value(s, c) \in Int /\ Value(g, p) \in Int
  <2>1. Times(h, c, names) \in [names -> Int]
    BY <1>3, <1>9, TimesInt DEF IsForm
  <2>2. Value(g, p) \in Int
    BY ValueInt DEF Stands
  <2>3. QED
    BY <1>2, <1>12, <2>1, <2>2, SumInt
<1>15. g.lo \in Int /\ g.hi \in Int
  BY DEF IsGuard
<1>16. Holds(s, c) <=> Holds(g, p)
  BY <1>9, <1>12, <1>13, <1>14, <1>15 DEF Holds
<1>17. QED
  BY <1>10, <1>16

\* A substituted guard names only dims the new layout has.
LEMMA SubstituteGuards ==
  ASSUME NEW g, IsGuard(g), NEW forms, NEW consts, IsSubstitution(forms, consts)
  PROVE  /\ IsGuard(Substitute(g, forms, consts))
         /\ DOMAIN Substitute(g, forms, consts).coeffs
              \subseteq (DOMAIN g.coeffs \ DOMAIN forms) \cup UNION {DOMAIN forms[n] : n \in DOMAIN forms}
<1>1. PICK h, k : h = NewCoeffs(g, forms) /\ k = Moved(g, forms, consts)
  OBVIOUS
<1>2. IsForm(h) /\ DOMAIN h = NewNames(g, forms) /\ g.lo - k \in Int /\ g.hi - k \in Int
  BY <1>1, NewCoeffsAre DEF IsGuard, NewCoeffs
<1>3. PICK s : s = Substitute(g, forms, consts)
  OBVIOUS
<1>4. s = Guard(h, g.lo - k, g.hi - k)
  BY <1>1, <1>3, SubstituteIs
<1>5. IsGuard(s) /\ DOMAIN s.coeffs \subseteq NewNames(g, forms)
  BY <1>2, <1>4, GuardIs
<1>6. QED
  BY <1>3, <1>5 DEF NewNames, Gone

-----------------------------------------------------------------------------
(* BOXES *)

\* The points of the dims S, and one dim more.
Grid(b, S) == {c \in [S -> Int] : \A n \in S : b[n].start <= c[n] /\ c[n] < b[n].stop}
GridStep(b, old, x) == {Override(c, Single(x, i)) : c \in old, i \in b[x].start .. b[x].stop - 1}
BoxOf(F, b, s) == IF s = {} THEN {<<>>} ELSE GridStep(b, F[s \ {Pick(s)}], Pick(s))

\* The points of no dims.
LEMMA GridEmpty == \A b : Grid(b, {}) = {<<>>}
<1>1. TAKE b
<1>2. <<>> \in [{} -> Int]
  OBVIOUS
<1>3. \A c \in [{} -> Int] : c = <<>>
  BY <1>2
<1>4. QED
  BY <1>2, <1>3 DEF Grid

\* The points of one dim more.
LEMMA GridGrows ==
  ASSUME NEW s, NEW b, \A n \in s : b[n].start \in Int /\ b[n].stop \in Int, NEW x \in s
  PROVE  Grid(b, s) = GridStep(b, Grid(b, s \ {x}), x)
<1>1. ASSUME NEW c \in Grid(b, s) PROVE c \in GridStep(b, Grid(b, s \ {x}), x)
  <2>1. PICK e : e = [n \in s \ {x} |-> c[n]]
    OBVIOUS
  <2>2. e \in Grid(b, s \ {x})
    BY <2>1 DEF Grid
  <2>3. c[x] \in b[x].start .. b[x].stop - 1
    BY DEF Grid
  <2>4. c \in [s -> Int]
    BY DEF Grid
  <2>5. c = Override(e, Single(x, c[x]))
    <3>1. DOMAIN Override(e, Single(x, c[x])) = s
      BY <2>1 DEF Override, Single
    <3>2. \A n \in s : Override(e, Single(x, c[x]))[n] = c[n]
      BY <2>1, <3>1 DEF Override, Single
    <3>3. Override(e, Single(x, c[x])) = [n \in DOMAIN Override(e, Single(x, c[x])) |-> Override(e, Single(x, c[x]))[n]]
      BY DEF Override
    <3>4. QED
      BY <2>4, <3>1, <3>2, <3>3
  <2>6. QED
    BY <2>2, <2>3, <2>5 DEF GridStep
<1>2. ASSUME NEW e \in Grid(b, s \ {x}), NEW i \in b[x].start .. b[x].stop - 1
      PROVE  Override(e, Single(x, i)) \in Grid(b, s)
  <2>1. e \in [s \ {x} -> Int] /\ \A n \in s \ {x} : b[n].start <= e[n] /\ e[n] < b[n].stop
    BY DEF Grid
  <2>2. Override(e, Single(x, i)) = [n \in s |-> IF n \in s \ {x} THEN e[n] ELSE i]
    BY <2>1 DEF Override, Single
  <2>3. i \in Int /\ b[x].start <= i /\ i < b[x].stop
    OBVIOUS
  <2>4. QED
    BY <2>1, <2>2, <2>3 DEF Grid
<1>3. \A c \in GridStep(b, Grid(b, s \ {x}), x) : c \in Grid(b, s)
  BY <1>2 DEF GridStep
<1>4. QED
  BY <1>1, <1>3

\* Domain, which enumerates the points a dim at a time, is the set of functions from the
\* names into the bounds.
LEMMA DomainIs ==
  ASSUME NEW l, IsLayout(l)
  PROVE  Domain(l) = Grid(l.dims, Names(l))
<1>1. PICK S, b : S = Names(l) /\ b = l.dims
  OBVIOUS
<1>2. IsFiniteSet(S) /\ \A n \in S : b[n].start \in Int /\ b[n].stop \in Int
  BY <1>1 DEF IsLayout, IsDim
<1>. DEFINE Eq(F) == F = [s \in SUBSET S |-> IF s = {} THEN {<<>>}
                                             ELSE GridStep(b, F[s \ {Pick(s)}], Pick(s))]
            Iter == CHOOSE F : Eq(F)
            G == [s \in SUBSET S |-> Grid(b, s)]
<1>3. ASSUME NEW s \in SUBSET S
      PROVE  Grid(b, s) = IF s = {} THEN {<<>>} ELSE GridStep(b, Grid(b, s \ {Pick(s)}), Pick(s))
  <2>1. CASE s = {}
    BY <2>1, GridEmpty
  <2>2. CASE s # {}
    <3>1. Pick(s) \in s /\ \A n \in s : b[n].start \in Int /\ b[n].stop \in Int
      BY <1>2, <2>2, Picked
    <3>2. QED
      BY <2>2, <3>1, GridGrows
  <2>3. QED
    BY <2>1, <2>2
<1>4. ASSUME NEW s \in SUBSET S
      PROVE  G[s] = IF s = {} THEN {<<>>} ELSE GridStep(b, G[s \ {Pick(s)}], Pick(s))
  <2>1. G[s] = Grid(b, s) /\ G[s \ {Pick(s)}] = Grid(b, s \ {Pick(s)})
    OBVIOUS
  <2>. HIDE DEF G
  <2>2. QED
    BY <1>3, <2>1
<1>5. Eq(G)
  <2>1. G = [s \in SUBSET S |-> G[s]]
    OBVIOUS
  <2>. HIDE DEF G
  <2>2. QED
    BY <1>4, <2>1
<1>6. Eq(Iter)
  <2>. HIDE DEF G, Eq
  <2>. QED
    BY <1>5
<1>7. \A s \in SUBSET S : Iter[s] = IF s = {} THEN {<<>>} ELSE GridStep(b, Iter[s \ {Pick(s)}], Pick(s))
  <2>. HIDE DEF Iter
  <2>. QED
    BY <1>6
<1>. HIDE DEF Iter, Eq
<1>8. Domain(l) = Iter[S]
  BY <1>1 DEF Domain, Box, FoldSet, MapThenFoldSet, Pick, Iter, Eq, Names, GridStep
<1>9. PICK F, H : F = Iter /\ H = G
  OBVIOUS
<1>10. SameSteps(F, H, S)
  <2>. HIDE DEF G
  <2>1. \A s \in SUBSET S : F[s] = IF s = {} THEN {<<>>} ELSE GridStep(b, F[s \ {Pick(s)}], Pick(s))
    BY <1>7, <1>9
  <2>2. \A s \in SUBSET S : H[s] = IF s = {} THEN {<<>>} ELSE GridStep(b, H[s \ {Pick(s)}], Pick(s))
    BY <1>4, <1>9
  <2>3. QED
    BY <2>1, <2>2 DEF SameSteps
<1>11. F[S] = H[S]
  <2>. HIDE DEF G
  <2>. QED
    BY <1>2, <1>10, FoldsAgree
<1>12. QED
  BY <1>1, <1>8, <1>9, <1>11

\* A point of a layout has an integer in the bounds of every dim.
LEMMA InDomain ==
  ASSUME NEW l, IsLayout(l), NEW c \in Domain(l)
  PROVE  /\ IsPoint(l, c) /\ DOMAIN c = Names(l)
         /\ \A n \in Names(l) : c[n] \in l.dims[n].start .. l.dims[n].stop - 1
<1>1. c \in Grid(l.dims, Names(l))
  BY DomainIs
<1>2. c \in [Names(l) -> Int] /\ \A n \in Names(l) : l.dims[n].start <= c[n] /\ c[n] < l.dims[n].stop
  BY <1>1 DEF Grid
<1>3. \A n \in Names(l) : l.dims[n].start \in Int /\ l.dims[n].stop \in Int
  BY DEF IsLayout, IsDim
<1>4. QED
  BY <1>2, <1>3 DEF IsPoint

-----------------------------------------------------------------------------
(* VIEWS: a substitution in the layout and in the guards                    *)


\* The point p of v is that of the point c of w, and has the same datum.
InRange(l, p) == \A n \in Names(l) : p[n] \in l.dims[n].start .. l.dims[n].stop - 1
SameAt(w, v, c, p) == Resolve(w, c) = Resolve(v, p)

\* What View changes of a tensor: layout and guards, never the element size.
LEMMA ViewIs ==
  ASSUME NEW v, IsView(v), NEW r, NEW gs
  PROVE  /\ {"base", "guards", "size"} \subseteq DOMAIN View(v, r, gs)
         /\ View(v, r, gs).base = r /\ View(v, r, gs).guards = gs /\ View(v, r, gs).size = v.size
BY DEF View, IsView

\* What Rebase changes of a tensor: the layout alone.
LEMMA RebaseIs ==
  ASSUME NEW v, IsView(v), NEW r
  PROVE  /\ {"base", "guards", "size"} \subseteq DOMAIN Rebase(v, r)
         /\ Rebase(v, r).base = r /\ Rebase(v, r).guards = v.guards /\ Rebase(v, r).size = v.size
BY DEF Rebase, IsView

\* The names of the dims after a substitution for those of l.
Renamed(l, forms) == (Names(l) \ DOMAIN forms) \cup UNION {DOMAIN forms[n] : n \in DOMAIN forms}
Substituted(v, forms, consts, r) ==
  /\ IsView(v) /\ IsLayout(r) /\ IsSubstitution(forms, consts) /\ Renamed(v.base, forms) \subseteq Names(r)

\* Substituting in every guard gives guards over the new dims.
LEMMA EachGuardIs ==
  ASSUME NEW v, NEW forms, NEW consts, NEW r, Substituted(v, forms, consts, r)
  PROVE  /\ IsGuards(EachGuard(v, forms, consts)) /\ On(EachGuard(v, forms, consts), Names(r))
         /\ DOMAIN EachGuard(v, forms, consts) = DOMAIN v.guards
<1>1. PICK gs, hs : gs = v.guards /\ hs = EachGuard(v, forms, consts)
  OBVIOUS
<1>2. /\ IsView(v) /\ gs \in Seq({gs[j] : j \in DOMAIN gs}) /\ IsSubstitution(forms, consts)
      /\ Renamed(v.base, forms) \subseteq Names(r)
  BY <1>1 DEF IsView, IsGuards, Substituted
<1>3. DOMAIN gs = 1 .. Len(gs) /\ Len(gs) \in Nat
  BY <1>2
<1>4. hs = [j \in 1 .. Len(gs) |-> Substitute(gs[j], forms, consts)]
  BY <1>1, <1>3 DEF EachGuard
<1>5. ASSUME NEW j \in DOMAIN gs PROVE IsGuard(hs[j]) /\ DOMAIN hs[j].coeffs \subseteq Names(r)
  <2>1. IsGuard(gs[j]) /\ DOMAIN gs[j].coeffs \subseteq Names(v.base)
    BY <1>1, <1>2 DEF IsView, IsGuards, On
  <2>2. hs[j] = Substitute(gs[j], forms, consts)
    BY <1>3, <1>4
  <2>3. /\ IsGuard(hs[j])
        /\ DOMAIN hs[j].coeffs \subseteq (DOMAIN gs[j].coeffs \ DOMAIN forms) \cup UNION {DOMAIN forms[n] : n \in DOMAIN forms}
    BY <1>2, <2>1, <2>2, SubstituteGuards
  <2>4. QED
    BY <1>2, <2>1, <2>3 DEF Renamed
<1>6. DOMAIN hs = DOMAIN gs /\ hs \in Seq({hs[j] : j \in DOMAIN hs})
  <2>1. DOMAIN hs = 1 .. Len(gs)
    BY <1>4
  <2>2. \A j \in 1 .. Len(gs) : hs[j] \in {hs[i] : i \in DOMAIN hs}
    BY <2>1
  <2>3. hs \in [1 .. Len(gs) -> {hs[i] : i \in DOMAIN hs}]
    BY <1>4, <2>2
  <2>4. QED
    BY <1>3, <2>1, <2>3
<1>7. QED
  BY <1>1, <1>5, <1>6 DEF IsGuards, On

\* After the substitution each guard holds where it held before.
LEMMA EachGuardHolds ==
  ASSUME NEW v, NEW forms, NEW consts, NEW r, Substituted(v, forms, consts, r),
         NEW c, NEW p, Stands(Names(v.base), forms, consts, c, p)
  PROVE  \A j \in DOMAIN v.guards : Holds(EachGuard(v, forms, consts)[j], c) <=> Holds(v.guards[j], p)
<1>1. TAKE j \in DOMAIN v.guards
<1>2. PICK g : g = v.guards[j]
  OBVIOUS
<1>3. IsGuard(g) /\ DOMAIN g.coeffs \subseteq Names(v.base) /\ IsSubstitution(forms, consts)
  BY <1>2 DEF Substituted, IsView, IsGuards, On
<1>4. Stands(DOMAIN g.coeffs, forms, consts, c, p)
  BY <1>3 DEF Stands
<1>5. Holds(Substitute(g, forms, consts), c) <=> Holds(g, p)
  BY <1>3, <1>4, SubstituteHolds
<1>6. QED
  BY <1>2, <1>5 DEF EachGuard

\* A view made by substitution is a tensor.
LEMMA SubstitutedView ==
  ASSUME NEW v, NEW forms, NEW consts, NEW r, Substituted(v, forms, consts, r)
  PROVE  IsView(View(v, r, EachGuard(v, forms, consts))) /\ View(v, r, EachGuard(v, forms, consts)).base = r
<1>1. PICK gs, w : gs = EachGuard(v, forms, consts) /\ w = View(v, r, gs)
  OBVIOUS
<1>2. IsGuards(gs) /\ On(gs, Names(r)) /\ IsView(v) /\ IsLayout(r) /\ v.size \in Nat
  BY <1>1, EachGuardIs DEF Substituted, IsView
<1>3. {"base", "guards", "size"} \subseteq DOMAIN w /\ w.base = r /\ w.guards = gs /\ w.size = v.size
  BY <1>1, <1>2, ViewIs
<1>4. QED
  BY <1>1, <1>2, <1>3 DEF IsView

\* A view made by substitution in the strides and in the guards alike resolves each point
\* to what the point it stands for resolved to.
LEMMA SubstitutedStays ==
  ASSUME NEW v, NEW forms, NEW consts, NEW r, Substituted(v, forms, consts, r),
         NEW c, NEW p, Stands(Names(v.base), forms, consts, c, p), GetLoc(r, c) = GetLoc(v.base, p)
  PROVE  SameAt(View(v, r, EachGuard(v, forms, consts)), v, c, p)
<1>1. PICK gs, w : gs = EachGuard(v, forms, consts) /\ w = View(v, r, gs)
  OBVIOUS
<1>2. w.base = r /\ w.guards = gs
  BY <1>1, ViewIs DEF Substituted
<1>3. DOMAIN gs = DOMAIN v.guards
  BY <1>1, EachGuardIs
<1>4. \A j \in DOMAIN v.guards : Holds(gs[j], c) <=> Holds(v.guards[j], p)
  BY <1>1, EachGuardHolds
<1>5. Resolve(w, c) = Resolve(v, p)
  BY <1>2, <1>3, <1>4 DEF Resolve
<1>6. QED
  BY <1>1, <1>5 DEF SameAt

\* One dim for one: k steps of n for one of m, from e.
OneForOne(v, n, m, d, k, e, delta) ==
  /\ IsView(v) /\ Replaces(v.base, n, m, d) /\ k \in Int /\ e \in Int /\ delta \in Int
  /\ d.stride = v.base.dims[n].stride * k /\ delta = v.base.dims[n].stride * e
OneView(v, n, m, d, k, e, delta) ==
  View(v, PutOne(v.base, n, m, d, delta), EachGuard(v, Single(n, Single(m, k)), Single(n, e)))
StepsTo(l, n, m, k, e, c, p) == p[n] = k * c[m] + e /\ \A i \in Names(l) \ {n} : p[i] = c[i]

\* One dim for one is a substitution.
LEMMA OneSubstituted ==
  ASSUME NEW v, NEW n, NEW m, NEW d, NEW k, NEW e, NEW delta, OneForOne(v, n, m, d, k, e, delta)
  PROVE  Substituted(v, Single(n, Single(m, k)), Single(n, e), PutOne(v.base, n, m, d, delta))
<1>1. PICK l, forms, consts, r : /\ l = v.base /\ forms = Single(n, Single(m, k)) /\ consts = Single(n, e)
                                 /\ r = PutOne(l, n, m, d, delta)
  OBVIOUS
<1>2. DOMAIN forms = {n} /\ forms[n] = Single(m, k) /\ consts[n] = e
  BY <1>1 DEF Single
<1>3. DOMAIN Single(m, k) = {m} /\ Single(m, k)[m] = k
  BY DEF Single
<1>4. IsForm(forms[n])
  <2>1. IsFiniteSet({m}) /\ k \in Int
    BY FS_Singleton DEF OneForOne
  <2>2. PICK f : f = Single(m, k)
    OBVIOUS
  <2>3. IsForm(f)
    BY <1>3, <2>1, <2>2 DEF IsForm
  <2>4. QED
    BY <1>2, <2>2, <2>3
<1>5. IsSubstitution(forms, consts)
  BY <1>2, <1>4 DEF IsSubstitution, OneForOne
<1>6. IsLayout(r) /\ Names(r) = (Names(l) \ {n}) \cup {m}
  BY <1>1, PutOneIs DEF OneForOne
<1>7. Renamed(l, forms) \subseteq Names(r)
  BY <1>2, <1>3, <1>6 DEF Renamed
<1>8. QED
  BY <1>1, <1>5, <1>6, <1>7 DEF Substituted, OneForOne

\* One dim for one gives a tensor over the layout with that dim replaced.
LEMMA OneForOneIs ==
  ASSUME NEW v, NEW n, NEW m, NEW d, NEW k, NEW e, NEW delta, OneForOne(v, n, m, d, k, e, delta)
  PROVE  /\ IsView(OneView(v, n, m, d, k, e, delta))
         /\ OneView(v, n, m, d, k, e, delta).base = PutOne(v.base, n, m, d, delta)
BY OneSubstituted, SubstitutedView DEF OneView

\* One dim for one keeps what each point resolves to.
LEMMA OneForOneStays ==
  ASSUME NEW v, NEW n, NEW m, NEW d, NEW k, NEW e, NEW delta, OneForOne(v, n, m, d, k, e, delta),
         NEW c, IsPoint(PutOne(v.base, n, m, d, delta), c), NEW p, StepsTo(v.base, n, m, k, e, c, p)
  PROVE  SameAt(OneView(v, n, m, d, k, e, delta), v, c, p)
<1>1. PICK l, forms, consts, r : /\ l = v.base /\ forms = Single(n, Single(m, k)) /\ consts = Single(n, e)
                                 /\ r = PutOne(l, n, m, d, delta)
  OBVIOUS
<1>2. DOMAIN forms = {n} /\ forms[n] = Single(m, k) /\ consts[n] = e
  BY <1>1 DEF Single
<1>3. Substituted(v, forms, consts, r)
  BY <1>1, OneSubstituted
<1>4. IsLayout(l) /\ n \in Names(l) /\ Names(r) = (Names(l) \ {n}) \cup {m} /\ k \in Int /\ e \in Int
  <2>1. Replaces(l, n, m, d) /\ delta \in Int /\ k \in Int /\ e \in Int
    BY <1>1 DEF OneForOne
  <2>2. Names(PutOne(l, n, m, d, delta)) = (Names(l) \ {n}) \cup {m}
    BY <2>1, PutOneIs
  <2>3. QED
    BY <1>1, <2>1, <2>2 DEF Replaces
<1>5. c[m] \in Int /\ \A i \in Names(l) \ {n} : c[i] \in Int
  BY <1>1, <1>4 DEF IsPoint
<1>6. p[n] = k * c[m] + e /\ p[n] \in Int /\ \A i \in Names(l) \ {n} : p[i] = c[i] /\ p[i] \in Int
  BY <1>1, <1>4, <1>5, IntTimes DEF StepsTo
<1>7. SumFunction(Times(forms[n], c, DOMAIN forms[n])) = k * c[m]
  <2>1. PICK f : f = Times(Single(m, k), c, {m})
    OBVIOUS
  <2>2. f[m] = k * c[m] /\ f \in [{m} -> Int]
    BY <1>4, <1>5, <2>1, IntTimes DEF Times, Single
  <2>3. SumFunction(f) = k * c[m]
    BY <2>2, SumOne
  <2>4. DOMAIN Single(m, k) = {m}
    BY DEF Single
  <2>5. QED
    BY <1>2, <2>1, <2>3, <2>4
<1>8. Stands(Names(l), forms, consts, c, p)
  <2>1. \A i \in DOMAIN forms[n] : c[i] \in Int
    BY <1>2, <1>5 DEF Single
  <2>2. QED
    BY <1>2, <1>4, <1>6, <1>7, <2>1 DEF Stands
<1>9. GetLoc(r, c) = GetLoc(l, p)
  <2>1. Carries(l, n, m, d, delta, c, p)
    <3>1. d.stride * c[m] + delta = l.dims[n].stride * p[n]
      <4>1. l.dims[n].stride \in Int
        BY <1>4 DEF IsLayout, IsDim
      <4>2. \A a, b, x, y \in Int : (a * b) * x + a * y = a * (b * x + y)
        OBVIOUS
      <4>3. d.stride = l.dims[n].stride * k /\ delta = l.dims[n].stride * e
        BY <1>1 DEF OneForOne
      <4>4. QED
        BY <1>4, <1>5, <1>6, <4>1, <4>2, <4>3
    <3>2. QED
      BY <1>6, <3>1 DEF Carries, IsPoint
  <2>2. Replaces(l, n, m, d) /\ delta \in Int
    BY <1>1 DEF OneForOne
  <2>3. IsPoint(PutOne(l, n, m, d, delta), c)
    BY <1>1
  <2>4. QED
    BY <1>1, <2>1, <2>2, <2>3, PutOneMoves
<1>10. SameAt(View(v, r, EachGuard(v, forms, consts)), v, c, p)
  BY <1>1, <1>3, <1>8, <1>9, SubstitutedStays
<1>11. QED
  BY <1>1, <1>10 DEF OneView

\* Rounding down, as Python's //.
LEMMA DivIs == \A a \in Int, f \in Nat \ {0} : a \div f \in Int /\ f * (a \div f) <= a /\ a < f * (a \div f) + f
  OBVIOUS

\* The remainder of a division that rounds down, as Python's %.
LEMMA ModIs == \A a \in Int, f \in Nat \ {0} : a % f \in Int /\ 0 <= a % f /\ a % f < f /\ a = f * (a \div f) + (a % f)
  OBVIOUS

\* Multiplying by a natural number keeps the order.
LEMMA TimesMono == \A f \in Nat, a, b \in Int : a <= b => f * a <= f * b
  OBVIOUS

\* The point p is one of v, and c of w has its datum.
Lands(w, v, c, p) == InRange(v.base, p) /\ SameAt(w, v, c, p)
Covers(l, n, d, k, e) ==
  \A i \in d.start .. d.stop - 1 : k * i + e \in l.dims[n].start .. l.dims[n].stop - 1

\* Every point of a view that puts one dim in place of another stands for a point inside
\* the old bounds.
LEMMA OneLands ==
  ASSUME NEW v, NEW n, NEW m, NEW d, NEW k, NEW e, NEW delta, OneForOne(v, n, m, d, k, e, delta),
         Covers(v.base, n, d, k, e),
         NEW c, c \in Domain(OneView(v, n, m, d, k, e, delta).base), NEW p, StepsTo(v.base, n, m, k, e, c, p)
  PROVE  Lands(OneView(v, n, m, d, k, e, delta), v, c, p)
<1>1. PICK l, r : l = v.base /\ r = PutOne(l, n, m, d, delta)
  OBVIOUS
<1>2. Replaces(l, n, m, d) /\ delta \in Int
  BY <1>1 DEF OneForOne
<1>3. /\ IsLayout(r) /\ Names(r) = (Names(l) \ {n}) \cup {m}
      /\ r.dims[m] = d /\ \A i \in Names(l) \ {n} : r.dims[i] = l.dims[i]
  BY <1>1, <1>2, PutOneIs
<1>4. c \in Domain(r)
  BY <1>1, OneForOneIs
<1>5. IsPoint(r, c) /\ \A i \in Names(r) : c[i] \in r.dims[i].start .. r.dims[i].stop - 1
  BY <1>3, <1>4, InDomain
<1>6. SameAt(OneView(v, n, m, d, k, e, delta), v, c, p)
  BY <1>1, <1>5, OneForOneStays
<1>7. ASSUME NEW i \in Names(l) PROVE p[i] \in l.dims[i].start .. l.dims[i].stop - 1
  <2>1. CASE i = n
    <3>1. c[m] \in d.start .. d.stop - 1
      BY <1>3, <1>5
    <3>2. p[n] = k * c[m] + e
      BY DEF StepsTo
    <3>3. QED
      BY <1>1, <2>1, <3>1, <3>2 DEF Covers
  <2>2. CASE i # n
    <3>1. i \in Names(l) \ {n} /\ i \in Names(r)
      BY <1>3, <2>2
    <3>2. p[i] = c[i]
      BY <1>1, <3>1 DEF StepsTo
    <3>3. QED
      BY <1>3, <1>5, <3>1, <3>2
  <2>3. QED
    BY <2>1, <2>2
<1>8. QED
  BY <1>1, <1>6, <1>7 DEF Lands, InRange

-----------------------------------------------------------------------------
(* THE OPERATIONS ON ONE DIM *)

ShiftDim(d, s) ==
  [d EXCEPT !.start = @ + s, !.stop = @ + s,
     !.chart = IF d.chart = None THEN None ELSE [d.chart EXCEPT !.origin = @ - s * d.chart.step]]

\* shift is a substitution of one dim for one, and covers its old bounds.
LEMMA ShiftIs ==
  ASSUME NEW v, IsView(v), NEW n, n \in Names(v.base), NEW s \in Int
  PROVE  \E d, delta : /\ GShift(v, n, s) = OneView(v, n, n, d, 1, -s, delta)
                       /\ OneForOne(v, n, n, d, 1, -s, delta) /\ Covers(v.base, n, d, 1, -s)
<1>1. PICK d, l, a : l = v.base /\ a = l.dims[n] /\ d = ShiftDim(a, s)
  OBVIOUS
<1>2. IsDim(a) /\ IsLayout(l) /\ a.stride \in Int /\ a.start \in Int /\ a.stop \in Int
  BY <1>1 DEF IsView, IsLayout, IsDim
<1>3. IsDim(d) /\ d.stride = a.stride /\ d.start = a.start + s /\ d.stop = a.stop + s
  BY <1>1, <1>2 DEF IsDim, Fields, ShiftDim
<1>4. PICK delta : delta = -(a.stride * s)
  OBVIOUS
<1>5. GShift(v, n, s) = OneView(v, n, n, d, 1, -s, delta)
  BY <1>1, <1>4 DEF GShift, Shift, OneView, ShiftDim
<1>6. Replaces(l, n, n, d)
  BY <1>1, <1>2, <1>3 DEF Replaces
<1>7. delta \in Int /\ d.stride = a.stride * 1 /\ delta = a.stride * (-s) /\ -s \in Int
  <2>1. a.stride * s \in Int /\ a.stride * (-s) = -(a.stride * s)
    BY <1>2, IntTimes
  <2>2. QED
    BY <1>2, <1>3, <1>4, <2>1
<1>8. Covers(l, n, d, 1, -s)
  BY <1>1, <1>2, <1>3 DEF Covers
<1>9. QED
  BY <1>1, <1>5, <1>6, <1>7, <1>8 DEF OneForOne

\* rename is a substitution of one dim for one.
LEMMA RenameIs ==
  ASSUME NEW v, IsView(v), NEW n, n \in Names(v.base), NEW m, CanRename(v.base, n, m)
  PROVE  \E d, delta : /\ GRename(v, n, m) = OneView(v, n, m, d, 1, 0, delta)
                       /\ OneForOne(v, n, m, d, 1, 0, delta) /\ Covers(v.base, n, d, 1, 0)
<1>1. PICK l, a : l = v.base /\ a = l.dims[n]
  OBVIOUS
<1>2. IsDim(a) /\ IsLayout(l) /\ a.stride \in Int /\ a.start \in Int /\ a.stop \in Int
  BY <1>1 DEF IsView, IsLayout, IsDim
<1>3. GRename(v, n, m) = OneView(v, n, m, a, 1, 0, 0)
  BY <1>1 DEF GRename, Rename, OneView
<1>4. Replaces(l, n, m, a)
  BY <1>1, <1>2 DEF Replaces, CanRename
<1>5. a.stride = a.stride * 1 /\ 0 = a.stride * 0
  BY <1>2
<1>6. Covers(l, n, a, 1, 0)
  BY <1>1, <1>2 DEF Covers
<1>7. QED
  BY <1>1, <1>3, <1>4, <1>5, <1>6 DEF OneForOne

FlipDim(d) ==
  [d EXCEPT !.stride = -@,
     !.chart = IF d.chart = None THEN None
               ELSE [d.chart EXCEPT !.origin = @ + (d.start + d.stop - 1) * d.chart.step, !.step = -@],
     !.labels = IF d.labels = None THEN None ELSE Reverse(@)]

\* flip is a substitution with the coefficient -1 and the pivot as constant.
LEMMA FlipIs ==
  ASSUME NEW v, IsView(v), NEW n, n \in Names(v.base), NEW pivot, pivot = v.base.dims[n].start + v.base.dims[n].stop - 1
  PROVE  \E d, delta : /\ GFlip(v, n) = OneView(v, n, n, d, -1, pivot, delta)
                       /\ OneForOne(v, n, n, d, -1, pivot, delta) /\ Covers(v.base, n, d, -1, pivot)
<1>1. PICK d, l, a : l = v.base /\ a = l.dims[n] /\ d = FlipDim(a)
  OBVIOUS
<1>2. IsDim(a) /\ IsLayout(l) /\ a.stride \in Int /\ a.start \in Int /\ a.stop \in Int
  BY <1>1 DEF IsView, IsLayout, IsDim
<1>3. IsDim(d) /\ d.stride = -a.stride /\ d.start = a.start /\ d.stop = a.stop
  BY <1>1, <1>2 DEF IsDim, Fields, FlipDim
<1>4. PICK delta : delta = a.stride * pivot
  OBVIOUS
<1>5. GFlip(v, n) = OneView(v, n, n, d, -1, pivot, delta)
  BY <1>1, <1>4 DEF GFlip, Flip, OneView, FlipDim
<1>6. Replaces(l, n, n, d)
  BY <1>1, <1>2, <1>3 DEF Replaces
<1>7. pivot \in Int /\ delta \in Int /\ d.stride = a.stride * (-1)
  BY <1>1, <1>2, <1>3, <1>4, IntTimes
<1>8. Covers(l, n, d, -1, pivot)
  BY <1>1, <1>2, <1>3 DEF Covers
<1>9. QED
  BY <1>1, <1>4, <1>5, <1>6, <1>7, <1>8 DEF OneForOne

DecimateDim(d, factor, p, start, stop) ==
  [d EXCEPT !.stride = @ * factor, !.start = start, !.stop = stop,
     !.chart = IF d.chart = None THEN None ELSE [d.chart EXCEPT !.origin = @ + p * d.chart.step, !.step = @ * factor],
     !.labels = IF d.labels = None THEN None
                ELSE [j \in 1 .. stop - start |-> d.labels[factor * (start + j - 1) + p - d.start + 1]]]

\* decimate is a substitution with the factor as coefficient and the phase as constant,
\* and the bounds it rounds stay inside the old ones.
LEMMA DecimateIs ==
  ASSUME NEW v, IsView(v), NEW n, n \in Names(v.base), NEW factor \in Nat \ {0}, NEW phase \in Int
  PROVE  \E d, delta : /\ GDecimate(v, n, factor, phase) = OneView(v, n, n, d, factor, phase % factor, delta)
                       /\ OneForOne(v, n, n, d, factor, phase % factor, delta)
                       /\ Covers(v.base, n, d, factor, phase % factor)
<1>1. PICK l, a, p, start, stop, d :
        /\ l = v.base /\ a = l.dims[n] /\ p = phase % factor /\ start = Ceiling(a.start - p, factor)
        /\ stop = Most(start, (a.stop - 1 - p) \div factor + 1) /\ d = DecimateDim(a, factor, p, start, stop)
  OBVIOUS
<1>2. IsDim(a) /\ IsLayout(l) /\ a.stride \in Int /\ a.start \in Int /\ a.stop \in Int
  BY <1>1 DEF IsView, IsLayout, IsDim
<1>3. p \in Int
  BY <1>1, ModIs
<1>4. PICK x, y : x = (-(a.start - p)) \div factor /\ y = (a.stop - 1 - p) \div factor
  OBVIOUS
<1>5. x \in Int /\ factor * x <= -(a.start - p) /\ y \in Int /\ factor * y <= a.stop - 1 - p
  <2>1. PICK b, t : b = -(a.start - p) /\ t = a.stop - 1 - p
    OBVIOUS
  <2>2. b \in Int /\ t \in Int
    BY <1>2, <1>3, <2>1
  <2>3. b \div factor \in Int /\ factor * (b \div factor) <= b /\ t \div factor \in Int /\ factor * (t \div factor) <= t
    BY <2>2, DivIs
  <2>4. QED
    BY <1>4, <2>1, <2>3
<1>6. start = -x /\ stop = Most(start, y + 1) /\ start \in Int /\ stop \in Int
  BY <1>1, <1>4, <1>5 DEF Ceiling, Most
<1>7. IsDim(d) /\ d.stride = a.stride * factor /\ d.start = start /\ d.stop = stop
  <2>1. a.stride * factor \in Int
    BY <1>2, IntTimes
  <2>2. /\ Fields \subseteq DOMAIN d /\ d.stride = a.stride * factor /\ d.start = start /\ d.stop = stop
    BY <1>1, <1>2 DEF IsDim, Fields, DecimateDim
  <2>3. QED
    BY <1>6, <2>1, <2>2 DEF IsDim
<1>8. PICK delta : delta = a.stride * p
  OBVIOUS
<1>9. GDecimate(v, n, factor, phase) = OneView(v, n, n, d, factor, p, delta)
  BY <1>1, <1>8 DEF GDecimate, Decimate, OneView, DecimateDim
<1>10. Replaces(l, n, n, d) /\ delta \in Int
  BY <1>1, <1>2, <1>3, <1>7, <1>8, IntTimes DEF Replaces
<1>11. Covers(l, n, d, factor, p)
  <2>1. ASSUME NEW i \in start .. stop - 1 PROVE factor * i + p \in a.start .. a.stop - 1
    <3>1. i \in Int /\ -x <= i /\ i <= y
      BY <1>5, <1>6 DEF Most
    <3>2. factor * (-x) <= factor * i /\ factor * i <= factor * y /\ factor * i \in Int
      BY <1>5, <3>1, TimesMono, IntTimes
    <3>3. factor * (-x) = -(factor * x) /\ factor * x \in Int /\ factor * y \in Int
      BY <1>5, IntTimes
    <3>4. a.start - p <= factor * i /\ factor * i <= a.stop - 1 - p
      BY <1>2, <1>3, <1>5, <3>2, <3>3
    <3>5. QED
      BY <1>2, <1>3, <3>2, <3>4
  <2>2. QED
    BY <1>1, <1>7, <2>1 DEF Covers
<1>12. OneForOne(v, n, n, d, factor, p, delta)
  <2>1. l = v.base /\ a = v.base.dims[n] /\ factor \in Int
    BY <1>1
  <2>2. d.stride = v.base.dims[n].stride * factor /\ delta = v.base.dims[n].stride * p
    BY <1>7, <1>8, <2>1
  <2>3. Replaces(v.base, n, n, d)
    BY <1>10, <2>1
  <2>4. QED
    BY <1>3, <1>10, <2>1, <2>2, <2>3 DEF OneForOne
<1>13. QED
  BY <1>1, <1>9, <1>11, <1>12

-----------------------------------------------------------------------------
(* OPERATIONS THAT KEEP EVERY STRIDE                                        *)

\* A layout with the same strides and offset under the same guards resolves the same.
LEMMA RebaseStays ==
  ASSUME NEW v, IsView(v), NEW r, SameMap(r, v.base)
  PROVE  IsView(Rebase(v, r)) /\ Rebase(v, r).base = r /\ \A c : SameAt(Rebase(v, r), v, c, c)
<1>1. PICK w : w = Rebase(v, r)
  OBVIOUS
<1>2. {"base", "guards", "size"} \subseteq DOMAIN w /\ w.base = r /\ w.guards = v.guards /\ w.size = v.size
  BY <1>1, RebaseIs
<1>3. IsLayout(r) /\ (\A c : GetLoc(r, c) = GetLoc(v.base, c)) /\ Names(r) = Names(v.base)
  <2>1. IsLayout(v.base)
    BY DEF IsView
  <2>2. QED
    BY <2>1, SameMapStays DEF SameMap
<1>4. IsView(w)
  BY <1>2, <1>3 DEF IsView
<1>5. \A c : Resolve(w, c) = Resolve(v, c)
  BY <1>2, <1>3 DEF Resolve
<1>6. QED
  BY <1>1, <1>2, <1>4, <1>5 DEF SameAt

\* The box of r is in that of l.
Inside(r, l) ==
  \A n \in Names(l) : r.dims[n].start .. r.dims[n].stop - 1 \subseteq l.dims[n].start .. l.dims[n].stop - 1

\* The same, when the new bounds lie inside the old.
LEMMA RebaseLands ==
  ASSUME NEW v, IsView(v), NEW r, SameMap(r, v.base), Inside(r, v.base), NEW c, c \in Domain(Rebase(v, r).base)
  PROVE  Lands(Rebase(v, r), v, c, c)
<1>1. Rebase(v, r).base = r /\ SameAt(Rebase(v, r), v, c, c) /\ IsView(Rebase(v, r))
  BY RebaseStays
<1>2. IsLayout(r) /\ c \in Domain(r)
  BY <1>1 DEF IsView
<1>3. \A n \in Names(r) : c[n] \in r.dims[n].start .. r.dims[n].stop - 1
  BY <1>2, InDomain
<1>4. InRange(v.base, c)
  BY <1>3 DEF Inside, InRange, SameMap
<1>5. QED
  BY <1>1, <1>4 DEF Lands

\* A dim that is relabelled only.
Relabelled(d, a) == IsDim(d) /\ d.stride = a.stride /\ d.start = a.start /\ d.stop = a.stop
Relabels(r, l) ==
  /\ SameMap(r, l)
  /\ \A n \in Names(l) : r.dims[n].start = l.dims[n].start /\ r.dims[n].stop = l.dims[n].stop

\* Replacing a dim by one of the same stride and bounds relabels the layout.
LEMMA SetDimRelabels ==
  ASSUME NEW l, IsLayout(l), NEW n \in Names(l), NEW d, Relabelled(d, l.dims[n])
  PROVE  Relabels(SetDim(l, n, d), l)
<1>1. PICK r : r = SetDim(l, n, d)
  OBVIOUS
<1>2. IsDim(d) /\ d.stride = l.dims[n].stride /\ d.start = l.dims[n].start /\ d.stop = l.dims[n].stop
  BY DEF Relabelled
<1>3. SameMap(r, l) /\ r.dims[n] = d /\ \A m \in Names(l) \ {n} : r.dims[m] = l.dims[m]
  BY <1>1, <1>2, SetDimIs, SetDimStays
<1>4. \A m \in Names(l) : r.dims[m].start = l.dims[m].start /\ r.dims[m].stop = l.dims[m].stop
  BY <1>2, <1>3
<1>5. QED
  BY <1>1, <1>3, <1>4 DEF Relabels

\* A relabelled tensor has the same points and resolves them to the same data.
LEMMA RelabelsLands ==
  ASSUME NEW v, IsView(v), NEW r, Relabels(r, v.base), NEW c, c \in Domain(Rebase(v, r).base)
  PROVE  Lands(Rebase(v, r), v, c, c)
<1>1. SameMap(r, v.base) /\ Inside(r, v.base)
  BY DEF Relabels, Inside
<1>2. QED
  BY <1>1, RebaseLands

\* with_charts relabels.
LEMMA WithChartRelabels ==
  ASSUME NEW l, IsLayout(l), NEW n \in Names(l), NEW chart
  PROVE  Relabels(WithChart(l, n, chart), l)
<1>1. PICK d : d = [l.dims[n] EXCEPT !.labels = None,
                     !.chart = IF chart # None /\ chart.axis = None THEN [chart EXCEPT !.axis = n] ELSE chart]
  OBVIOUS
<1>2. IsDim(l.dims[n])
  BY DEF IsLayout
<1>3. Relabelled(d, l.dims[n])
  BY <1>1, <1>2 DEF IsDim, Fields, Relabelled
<1>4. WithChart(l, n, chart) = SetDim(l, n, d)
  BY <1>1 DEF WithChart
<1>5. QED
  BY <1>3, <1>4, SetDimRelabels

\* with_labels relabels.
LEMMA WithLabelsRelabels ==
  ASSUME NEW l, IsLayout(l), NEW n \in Names(l), NEW labels
  PROVE  Relabels(WithLabels(l, n, labels), l)
<1>1. PICK d : d = [l.dims[n] EXCEPT !.labels = labels, !.chart = None]
  OBVIOUS
<1>2. IsDim(l.dims[n])
  BY DEF IsLayout
<1>3. Relabelled(d, l.dims[n])
  BY <1>1, <1>2 DEF IsDim, Fields, Relabelled
<1>4. WithLabels(l, n, labels) = SetDim(l, n, d)
  BY <1>1 DEF WithLabels
<1>5. QED
  BY <1>3, <1>4, SetDimRelabels

\* bind relabels.
LEMMA BindRelabels ==
  ASSUME NEW l, IsLayout(l), NEW n \in Names(l), NEW level
  PROVE  Relabels(Bind(l, n, level), l)
<1>1. PICK d : d = [l.dims[n] EXCEPT !.level = level]
  OBVIOUS
<1>2. IsDim(l.dims[n])
  BY DEF IsLayout
<1>3. Relabelled(d, l.dims[n])
  BY <1>1, <1>2 DEF IsDim, Fields, Relabelled
<1>4. Bind(l, n, level) = SetDim(l, n, d)
  BY <1>1 DEF Bind
<1>5. QED
  BY <1>3, <1>4, SetDimRelabels

\* recenter relabels.
LEMMA RecenterRelabels ==
  ASSUME NEW l, IsLayout(l), NEW n \in Names(l), NEW delta
  PROVE  Relabels(Recenter(l, n, delta), l)
<1>1. PICK d : d = [l.dims[n] EXCEPT !.chart.origin = @ + delta]
  OBVIOUS
<1>2. IsDim(l.dims[n])
  BY DEF IsLayout
<1>3. Relabelled(d, l.dims[n])
  BY <1>1, <1>2 DEF IsDim, Fields, Relabelled
<1>4. Recenter(l, n, delta) = SetDim(l, n, d)
  BY <1>1 DEF Recenter, SetDim, IsLayout, Names
<1>5. QED
  BY <1>3, <1>4, SetDimRelabels

\* strip_charts relabels.
LEMMA StripRelabels ==
  ASSUME NEW l, IsLayout(l)
  PROVE  Relabels(StripCharts(l), l)
<1>1. PICK r : r = StripCharts(l)
  OBVIOUS
<1>2. /\ {"dims", "offset"} \subseteq DOMAIN r /\ r.offset = l.offset
      /\ r.dims = [n \in DOMAIN l.dims |-> [l.dims[n] EXCEPT !.chart = None, !.labels = None]]
  BY <1>1 DEF StripCharts, IsLayout
<1>3. ASSUME NEW n \in Names(l) PROVE Relabelled(r.dims[n], l.dims[n])
  <2>1. IsDim(l.dims[n]) /\ r.dims[n] = [l.dims[n] EXCEPT !.chart = None, !.labels = None]
    BY <1>2 DEF IsLayout, Names
  <2>2. QED
    BY <2>1 DEF IsDim, Fields, Relabelled
<1>4. Names(r) = Names(l)
  BY <1>2 DEF Names
<1>5. QED
  BY <1>1, <1>2, <1>3, <1>4 DEF Relabels, Relabelled, SameMap

\* A slice the code accepts lies inside the old bounds.
LEMMA SliceInside ==
  ASSUME NEW l, IsLayout(l), NEW n \in Names(l), NEW lo \in Int, NEW hi \in Int, CanSlice(l, n, lo, hi)
  PROVE  SameMap(Slice(l, n, lo, hi), l) /\ Inside(Slice(l, n, lo, hi), l)
<1>1. PICK r : r = Slice(l, n, lo, hi)
  OBVIOUS
<1>2. SameMap(r, l) /\ r.dims[n].start = lo /\ r.dims[n].stop = hi /\ \A m \in Names(l) \ {n} : r.dims[m] = l.dims[m]
  BY <1>1, SliceStays
<1>3. l.dims[n].start \in Int /\ l.dims[n].stop \in Int
  BY DEF IsLayout, IsDim
<1>4. ASSUME NEW m \in Names(l)
      PROVE  r.dims[m].start .. r.dims[m].stop - 1 \subseteq l.dims[m].start .. l.dims[m].stop - 1
  <2>1. CASE m = n
    BY <1>2, <1>3, <2>1 DEF CanSlice
  <2>2. CASE m # n
    BY <1>2, <2>2
  <2>3. QED
    BY <2>1, <2>2
<1>5. QED
  BY <1>1, <1>2, <1>4 DEF Inside

\* slice leaves each datum where it is.
LEMMA SliceLands ==
  ASSUME NEW v, IsView(v), NEW n, n \in Names(v.base), NEW lo \in Int, NEW hi \in Int, CanSlice(v.base, n, lo, hi)
  PROVE  /\ IsView(GSlice(v, n, lo, hi))
         /\ \A c \in Domain(GSlice(v, n, lo, hi).base) : Lands(GSlice(v, n, lo, hi), v, c, c)
<1>1. PICK r : r = Slice(v.base, n, lo, hi)
  OBVIOUS
<1>2. IsLayout(v.base)
  BY DEF IsView
<1>3. SameMap(r, v.base) /\ Inside(r, v.base)
  BY <1>1, <1>2, SliceInside
<1>4. GSlice(v, n, lo, hi) = Rebase(v, r)
  BY <1>1 DEF GSlice
<1>5. QED
  BY <1>3, <1>4, RebaseStays, RebaseLands

-----------------------------------------------------------------------------
(* TWO DIMS FOR ONE: splits, windows and stencils                           *)

IsPair(new, f, a, b) == a # b /\ DOMAIN new = {a, b} /\ DOMAIN f = {a, b}
\* a and b take the place of n: f[a] steps of n for one of a, f[b] for one of b, from e.
TwoForOne(v, n, new, f, a, b, e, delta) ==
  /\ IsView(v) /\ n \in Names(v.base) /\ IsPair(new, f, a, b)
  /\ a \notin Names(v.base) \ {n} /\ b \notin Names(v.base) \ {n}
  /\ IsDim(new[a]) /\ IsDim(new[b]) /\ f[a] \in Int /\ f[b] \in Int /\ e \in Int /\ delta \in Int
  /\ new[a].stride = v.base.dims[n].stride * f[a] /\ new[b].stride = v.base.dims[n].stride * f[b]
  /\ delta = v.base.dims[n].stride * e
PutTwo(l, n, new, delta) == Put(l, {n}, new, delta)
TwoView(v, n, new, f, e, delta) ==
  View(v, PutTwo(v.base, n, new, delta), EachGuard(v, Single(n, f), Single(n, e)))
TwoStep(l, n, f, a, b, e, c, p) ==
  p[n] = f[a] * c[a] + f[b] * c[b] + e /\ \A i \in Names(l) \ {n} : p[i] = c[i]

\* Two names are finitely many.
LEMMA PairFinite ==
  ASSUME NEW new, NEW f, NEW a, NEW b, IsPair(new, f, a, b)
  PROVE  IsFiniteSet(DOMAIN new) /\ IsFiniteSet(DOMAIN f)
<1>1. PICK S : S = {a}
  OBVIOUS
<1>2. IsFiniteSet(S)
  BY <1>1, FS_Singleton
<1>3. IsFiniteSet(S \cup {b})
  BY <1>2, FS_AddElement
<1>4. DOMAIN new = S \cup {b} /\ DOMAIN f = S \cup {b}
  BY <1>1 DEF IsPair
<1>5. QED
  BY <1>3, <1>4

\* Put with two dims in place of one.
LEMMA PutTwoIs ==
  ASSUME NEW v, NEW n, NEW new, NEW f, NEW a, NEW b, NEW e, NEW delta, TwoForOne(v, n, new, f, a, b, e, delta)
  PROVE  /\ IsLayout(PutTwo(v.base, n, new, delta))
         /\ Names(PutTwo(v.base, n, new, delta)) = (Names(v.base) \ {n}) \cup {a, b}
         /\ PutTwo(v.base, n, new, delta).dims[a] = new[a] /\ PutTwo(v.base, n, new, delta).dims[b] = new[b]
         /\ \A i \in Names(v.base) \ {n} : PutTwo(v.base, n, new, delta).dims[i] = v.base.dims[i]
<1>1. PICK l, gone, r : l = v.base /\ gone = {n} /\ r = Put(l, gone, new, delta)
  OBVIOUS
<1>2. DOMAIN new = {a, b} /\ IsLayout(l) /\ n \in Names(l) /\ delta \in Int
  BY <1>1 DEF TwoForOne, IsPair, IsView
<1>3. IsFiniteSet(DOMAIN new)
  BY PairFinite DEF TwoForOne
<1>4. Joins(new, l, gone)
  BY <1>1, <1>2, <1>3 DEF Joins, TwoForOne
<1>5. /\ IsLayout(r) /\ Names(r) = (Names(l) \ gone) \cup DOMAIN new
      /\ \A m \in DOMAIN new : r.dims[m] = new[m]
      /\ \A m \in Names(l) \ gone : r.dims[m] = l.dims[m]
  <2>1. IsLayout(l) /\ delta \in Int
    BY <1>2
  <2>2. /\ IsLayout(Put(l, gone, new, delta)) /\ Names(Put(l, gone, new, delta)) = (Names(l) \ gone) \cup DOMAIN new
        /\ \A m \in DOMAIN new : Put(l, gone, new, delta).dims[m] = new[m]
        /\ \A m \in Names(l) \ gone : Put(l, gone, new, delta).dims[m] = l.dims[m]
    BY <1>4, <2>1, PutIs
  <2>3. r = Put(l, gone, new, delta)
    BY <1>1
  <2>4. QED
    BY <2>2, <2>3
<1>6. r = PutTwo(v.base, n, new, delta)
  BY <1>1 DEF PutTwo
<1>7. QED
  BY <1>1, <1>2, <1>5, <1>6

\* Two dims for one are a substitution.
LEMMA TwoSubstituted ==
  ASSUME NEW v, NEW n, NEW new, NEW f, NEW a, NEW b, NEW e, NEW delta, TwoForOne(v, n, new, f, a, b, e, delta)
  PROVE  Substituted(v, Single(n, f), Single(n, e), PutTwo(v.base, n, new, delta))
<1>1. PICK l, forms, consts, r : /\ l = v.base /\ forms = Single(n, f) /\ consts = Single(n, e)
                                 /\ r = PutTwo(l, n, new, delta)
  OBVIOUS
<1>2. DOMAIN forms = {n} /\ forms[n] = f /\ consts[n] = e
  BY <1>1 DEF Single
<1>3. DOMAIN f = {a, b} /\ f[a] \in Int /\ f[b] \in Int /\ e \in Int
  BY DEF TwoForOne, IsPair
<1>4. IsForm(f)
  <2>1. IsFiniteSet(DOMAIN f)
    BY PairFinite DEF TwoForOne
  <2>2. QED
    BY <1>3, <2>1 DEF IsForm
<1>5. IsSubstitution(forms, consts)
  BY <1>2, <1>3, <1>4 DEF IsSubstitution
<1>6. IsLayout(r) /\ Names(r) = (Names(l) \ {n}) \cup {a, b}
  BY <1>1, PutTwoIs
<1>7. Renamed(l, forms) \subseteq Names(r)
  BY <1>2, <1>3, <1>6 DEF Renamed
<1>8. QED
  BY <1>1, <1>5, <1>6, <1>7 DEF Substituted, TwoForOne

\* Two dims for one keep what each point resolves to.
LEMMA TwoForOneStays ==
  ASSUME NEW v, NEW n, NEW new, NEW f, NEW a, NEW b, NEW e, NEW delta, TwoForOne(v, n, new, f, a, b, e, delta),
         NEW c, IsPoint(PutTwo(v.base, n, new, delta), c), NEW p, TwoStep(v.base, n, f, a, b, e, c, p)
  PROVE  SameAt(TwoView(v, n, new, f, e, delta), v, c, p) /\ IsPoint(v.base, p)
<1>1. PICK l, forms, consts, r : /\ l = v.base /\ forms = Single(n, f) /\ consts = Single(n, e)
                                 /\ r = PutTwo(l, n, new, delta)
  OBVIOUS
<1>2. DOMAIN forms = {n} /\ forms[n] = f /\ consts[n] = e
  BY <1>1 DEF Single
<1>3. Substituted(v, forms, consts, r)
  BY <1>1, TwoSubstituted
<1>4. /\ IsLayout(l) /\ n \in Names(l) /\ DOMAIN f = {a, b} /\ a # b /\ DOMAIN new = {a, b}
      /\ f[a] \in Int /\ f[b] \in Int /\ e \in Int /\ delta \in Int
      /\ new[a].stride = l.dims[n].stride * f[a] /\ new[b].stride = l.dims[n].stride * f[b] /\ delta = l.dims[n].stride * e
  BY <1>1 DEF TwoForOne, IsPair, IsView
<1>5. Names(r) = (Names(l) \ {n}) \cup {a, b}
  BY <1>1, PutTwoIs
<1>6. c[a] \in Int /\ c[b] \in Int /\ \A i \in Names(l) \ {n} : c[i] \in Int
  BY <1>1, <1>5 DEF IsPoint
<1>7. f[a] * c[a] \in Int /\ f[b] * c[b] \in Int
  BY <1>4, <1>6, IntTimes
<1>8. p[n] = f[a] * c[a] + f[b] * c[b] + e /\ p[n] \in Int /\ \A i \in Names(l) \ {n} : p[i] = c[i] /\ p[i] \in Int
  BY <1>1, <1>4, <1>6, <1>7 DEF TwoStep
<1>9. SumFunction(Times(f, c, DOMAIN f)) = f[a] * c[a] + f[b] * c[b]
  <2>1. PICK t : t = Times(f, c, {a, b})
    OBVIOUS
  <2>2. t[a] = f[a] * c[a] /\ t[b] = f[b] * c[b] /\ t \in [{a, b} -> Int]
    BY <1>7, <2>1 DEF Times
  <2>3. SumFunction(t) = t[a] + t[b]
    BY <1>4, <2>2, SumTwo
  <2>4. QED
    BY <1>4, <2>1, <2>2, <2>3
<1>10. Stands(Names(l), forms, consts, c, p)
  <2>1. \A i \in DOMAIN forms[n] : c[i] \in Int
    BY <1>2, <1>4, <1>6
  <2>2. QED
    BY <1>2, <1>4, <1>8, <1>9, <2>1 DEF Stands
<1>11. IsPoint(l, p)
  BY <1>8 DEF IsPoint
<1>12. GetLoc(r, c) = GetLoc(l, p)
  <2>1. PICK gone, u, w : /\ gone = {n} /\ u = [m \in DOMAIN new |-> new[m].stride * c[m]]
                          /\ w = [m \in gone |-> l.dims[m].stride * p[m]]
    OBVIOUS
  <2>2. l.dims[n].stride \in Int /\ new[a].stride \in Int /\ new[b].stride \in Int
    BY <1>4 DEF IsLayout, IsDim, TwoForOne
  <2>3. u[a] = new[a].stride * c[a] /\ u[b] = new[b].stride * c[b] /\ u \in [{a, b} -> Int]
    BY <1>4, <1>6, <2>1, <2>2, IntTimes
  <2>4. w[n] = l.dims[n].stride * p[n] /\ w \in [{n} -> Int]
    BY <1>8, <2>1, <2>2, IntTimes
  <2>5. SumFunction(u) = u[a] + u[b] /\ SumFunction(w) = w[n]
    BY <1>4, <2>3, <2>4, SumOne, SumTwo
  <2>6. u[a] + u[b] + delta = w[n]
    <3>1. PICK s, x, y, j, k : s = l.dims[n].stride /\ x = f[a] /\ y = f[b] /\ j = c[a] /\ k = c[b]
      OBVIOUS
    <3>2. s \in Int /\ x \in Int /\ y \in Int /\ j \in Int /\ k \in Int /\ e \in Int
      BY <1>4, <1>6, <2>2, <3>1
    <3>3. u[a] = (s * x) * j /\ u[b] = (s * y) * k /\ delta = s * e /\ w[n] = s * (x * j + y * k + e)
      BY <1>4, <1>8, <2>3, <2>4, <3>1
    <3>4. (s * x) * j + (s * y) * k + s * e = s * (x * j + y * k + e)
      BY <3>2
    <3>5. QED
      BY <3>3, <3>4
  <2>7. Joins(new, l, gone)
    <3>1. IsFiniteSet(DOMAIN new)
      BY PairFinite DEF TwoForOne
    <3>2. QED
      BY <1>1, <1>4, <2>1, <3>1 DEF Joins, TwoForOne
  <2>8. r = Put(l, gone, new, delta)
    BY <1>1, <2>1 DEF PutTwo
  <2>9. IsPoint(Put(l, gone, new, delta), c)
    BY <1>1, <2>8
  <2>10. \A m \in Names(l) \ gone : p[m] = c[m]
    BY <1>8, <2>1
  <2>11. SumFunction([m \in DOMAIN new |-> new[m].stride * c[m]]) + delta = SumFunction([m \in gone |-> l.dims[m].stride * p[m]])
    BY <2>1, <2>5, <2>6
  <2>12. GetLoc(Put(l, gone, new, delta), c) = GetLoc(l, p)
    <3>1. IsLayout(l) /\ delta \in Int
      BY <1>4
    <3>2. QED
      BY <1>11, <2>7, <2>9, <2>10, <2>11, <3>1, PutMoves
  <2>13. QED
    BY <2>8, <2>12
<1>13. SameAt(View(v, r, EachGuard(v, forms, consts)), v, c, p)
  BY <1>1, <1>3, <1>10, <1>12, SubstitutedStays
<1>14. QED
  BY <1>1, <1>11, <1>13 DEF TwoView

\* Two dims for one give a tensor.
LEMMA TwoForOneIs ==
  ASSUME NEW v, NEW n, NEW new, NEW f, NEW a, NEW b, NEW e, NEW delta, TwoForOne(v, n, new, f, a, b, e, delta)
  PROVE  /\ IsView(TwoView(v, n, new, f, e, delta))
         /\ TwoView(v, n, new, f, e, delta).base = PutTwo(v.base, n, new, delta)
BY TwoSubstituted, SubstitutedView DEF TwoView

TwoCovers(l, n, new, f, a, b, e) ==
  \A i \in new[a].start .. new[a].stop - 1, j \in new[b].start .. new[b].stop - 1 :
    f[a] * i + f[b] * j + e \in l.dims[n].start .. l.dims[n].stop - 1

\* Every point of a view that puts two dims in place of one stands for a point inside the
\* old bounds.
LEMMA TwoLands ==
  ASSUME NEW v, NEW n, NEW new, NEW f, NEW a, NEW b, NEW e, NEW delta, TwoForOne(v, n, new, f, a, b, e, delta),
         TwoCovers(v.base, n, new, f, a, b, e),
         NEW c, c \in Domain(TwoView(v, n, new, f, e, delta).base), NEW p, TwoStep(v.base, n, f, a, b, e, c, p)
  PROVE  Lands(TwoView(v, n, new, f, e, delta), v, c, p)
<1>1. PICK l, r : l = v.base /\ r = PutTwo(l, n, new, delta)
  OBVIOUS
<1>2. /\ IsLayout(r) /\ Names(r) = (Names(l) \ {n}) \cup {a, b}
      /\ r.dims[a] = new[a] /\ r.dims[b] = new[b] /\ \A i \in Names(l) \ {n} : r.dims[i] = l.dims[i]
  BY <1>1, PutTwoIs
<1>3. c \in Domain(r)
  BY <1>1, TwoForOneIs
<1>4. IsPoint(r, c) /\ \A i \in Names(r) : c[i] \in r.dims[i].start .. r.dims[i].stop - 1
  BY <1>2, <1>3, InDomain
<1>5. SameAt(TwoView(v, n, new, f, e, delta), v, c, p)
  BY <1>1, <1>4, TwoForOneStays
<1>6. ASSUME NEW i \in Names(l) PROVE p[i] \in l.dims[i].start .. l.dims[i].stop - 1
  <2>1. CASE i = n
    <3>1. c[a] \in new[a].start .. new[a].stop - 1 /\ c[b] \in new[b].start .. new[b].stop - 1
      BY <1>2, <1>4
    <3>2. p[n] = f[a] * c[a] + f[b] * c[b] + e
      BY DEF TwoStep
    <3>3. QED
      BY <1>1, <2>1, <3>1, <3>2 DEF TwoCovers
  <2>2. CASE i # n
    <3>1. i \in Names(l) \ {n} /\ i \in Names(r)
      BY <1>2, <2>2
    <3>2. p[i] = c[i]
      BY <1>1, <3>1 DEF TwoStep
    <3>3. QED
      BY <1>2, <1>4, <3>1, <3>2
  <2>3. QED
    BY <2>1, <2>2
<1>7. QED
  BY <1>1, <1>5, <1>6 DEF Lands, InRange

-----------------------------------------------------------------------------
(* WINDOWS, STENCILS AND PADDING                                            *)

\* The dims n, as d, and k of taps.
Taken(l, n, k, d, lo, hi, dilation) == Override(Single(k, TapDim(l, n, lo, hi, dilation)), Single(n, d))

\* The box d of the dim n: that of a window, or the one it has.
TapsAre(v, n, k, d, lo, hi, dilation) ==
  /\ IsView(v) /\ n \in Names(v.base) /\ k \notin Names(v.base)
  /\ IsDim(d) /\ d.stride = v.base.dims[n].stride /\ lo \in Int /\ hi \in Int /\ dilation \in Nat

\* The dims window and stencil put in place of one: its own and that of the taps.
LEMMA TakenIs ==
  ASSUME NEW v, NEW n, NEW k, NEW d, NEW lo, NEW hi, NEW dilation, TapsAre(v, n, k, d, lo, hi, dilation)
  PROVE  /\ TwoForOne(v, n, Taken(v.base, n, k, d, lo, hi, dilation), Tap(n, k, dilation), n, k, 0, 0)
         /\ Taken(v.base, n, k, d, lo, hi, dilation)[n] = d
         /\ Taken(v.base, n, k, d, lo, hi, dilation)[k] = TapDim(v.base, n, lo, hi, dilation)
<1>1. PICK l, new, f, t : /\ l = v.base /\ new = Taken(l, n, k, d, lo, hi, dilation) /\ f = Tap(n, k, dilation)
                          /\ t = TapDim(l, n, lo, hi, dilation)
  OBVIOUS
<1>2. /\ IsView(v) /\ n \in Names(l) /\ k \notin Names(l) /\ n # k /\ IsLayout(l)
      /\ IsDim(d) /\ d.stride = l.dims[n].stride /\ lo \in Int /\ hi \in Int /\ dilation \in Nat
  BY <1>1 DEF TapsAre, IsView
<1>3. DOMAIN new = {n, k} /\ new[n] = d /\ new[k] = t
  BY <1>1, <1>2 DEF Taken, Override, Single
<1>4. DOMAIN f = {n, k} /\ f[n] = 1 /\ f[k] = dilation
  BY <1>1, <1>2 DEF Tap, Override, Single
<1>5. l.dims[n].stride \in Int /\ l.dims[n].stride * dilation \in Int
  BY <1>2, IntTimes DEF IsLayout, IsDim
<1>6. IsDim(t) /\ t.stride = l.dims[n].stride * dilation
  BY <1>1, <1>2, <1>5 DEF TapDim, Dim, IsDim, Fields
<1>7. d.stride = l.dims[n].stride * 1 /\ 0 = l.dims[n].stride * 0
  BY <1>2, <1>5
<1>8. IsPair(new, f, n, k)
  BY <1>2, <1>3, <1>4 DEF IsPair
<1>9. TwoForOne(v, n, new, f, n, k, 0, 0)
  BY <1>1, <1>2, <1>3, <1>4, <1>6, <1>7, <1>8 DEF TwoForOne
<1>10. QED
  BY <1>1, <1>3, <1>9

\* window is a substitution of two dims for one whose taps stay inside the old bounds.
LEMMA WindowIs ==
  ASSUME NEW v, IsView(v), NEW n, n \in Names(v.base), NEW k, NEW lo \in Int, NEW hi \in Int, NEW dilation \in Nat,
         CanWindow(v.base, n, k, lo, hi, dilation)
  PROVE  \E new, f : /\ GWindow(v, n, k, lo, hi, dilation) = TwoView(v, n, new, f, 0, 0)
                     /\ TwoForOne(v, n, new, f, n, k, 0, 0) /\ TwoCovers(v.base, n, new, f, n, k, 0)
                     /\ f[n] = 1 /\ f[k] = dilation
<1>1. PICK l, a, d, new, f :
        /\ l = v.base /\ a = l.dims[n]
        /\ d = [a EXCEPT !.start = WindowStart(l, n, lo, dilation), !.stop = WindowStop(l, n, hi, dilation)]
        /\ new = Taken(l, n, k, d, lo, hi, dilation) /\ f = Tap(n, k, dilation)
  OBVIOUS
<1>2. IsDim(a) /\ IsLayout(l) /\ a.start \in Int /\ a.stop \in Int /\ k \notin Names(l) /\ n # k
  BY <1>1 DEF IsView, IsLayout, IsDim, CanWindow
<1>3. dilation * lo \in Int /\ dilation * (hi - 1) \in Int
  BY IntTimes
<1>4. d.start = a.start - dilation * lo /\ d.stop = a.stop - dilation * (hi - 1) /\ d.stride = a.stride /\ IsDim(d)
  BY <1>1, <1>2, <1>3 DEF WindowStart, WindowStop, IsDim, Fields
<1>5. TapsAre(v, n, k, d, lo, hi, dilation)
  BY <1>1, <1>2, <1>4 DEF TapsAre
<1>6. TwoForOne(v, n, new, f, n, k, 0, 0) /\ new[n] = d /\ new[k] = TapDim(l, n, lo, hi, dilation)
  BY <1>1, <1>5, TakenIs
<1>7. GWindow(v, n, k, lo, hi, dilation) = TwoView(v, n, new, f, 0, 0)
  BY <1>1 DEF GWindow, Window, TwoView, PutTwo, Taken
<1>8. f[n] = 1 /\ f[k] = dilation
  BY <1>1, <1>2 DEF Tap, Override, Single
<1>9. TwoCovers(l, n, new, f, n, k, 0)
  <2>1. ASSUME NEW i \in d.start .. d.stop - 1, NEW j \in lo .. hi - 1
        PROVE  1 * i + dilation * j + 0 \in a.start .. a.stop - 1
    <3>1. dilation * lo <= dilation * j /\ dilation * j <= dilation * (hi - 1) /\ dilation * j \in Int
      BY TimesMono, IntTimes
    <3>2. i \in Int /\ a.start - dilation * lo <= i /\ i <= a.stop - dilation * (hi - 1) - 1
      BY <1>2, <1>3, <1>4
    <3>3. a.start <= i + dilation * j /\ i + dilation * j <= a.stop - 1
      BY <1>2, <1>3, <3>1, <3>2
    <3>4. QED
      BY <1>2, <3>1, <3>2, <3>3
  <2>2. new[k].start = lo /\ new[k].stop = hi
    BY <1>6 DEF TapDim, Dim
  <2>3. ASSUME NEW i \in new[n].start .. new[n].stop - 1, NEW j \in new[k].start .. new[k].stop - 1
        PROVE  f[n] * i + f[k] * j + 0 \in l.dims[n].start .. l.dims[n].stop - 1
    <3>1. l.dims[n] = a /\ new[n] = d
      BY <1>1, <1>6
    <3>2. i \in d.start .. d.stop - 1 /\ j \in lo .. hi - 1
      BY <2>2, <3>1
    <3>3. QED
      BY <1>8, <2>1, <3>1, <3>2
  <2>4. QED
    BY <2>3 DEF TwoCovers
<1>10. QED
  BY <1>1, <1>6, <1>7, <1>8, <1>9

\* w is u with one guard more.
GuardAdded(w, u, g) ==
  /\ {"base", "guards", "size"} \subseteq DOMAIN w
  /\ w.base = u.base /\ w.guards = Append(u.guards, g) /\ w.size = u.size

\* One more guard: outside it the fill, inside it what it was.
LEMMA GuardAddedIs ==
  ASSUME NEW u, IsView(u), NEW g, IsGuard(g), DOMAIN g.coeffs \subseteq Names(u.base), NEW w, GuardAdded(w, u, g)
  PROVE  IsView(w) /\ \A c : Resolve(w, c) = IF Holds(g, c) THEN Resolve(u, c) ELSE Fill
<1>1. PICK gs, hs : gs = u.guards /\ hs = w.guards
  OBVIOUS
<1>2. /\ gs \in Seq({gs[j] : j \in DOMAIN gs}) /\ hs = Append(gs, g)
      /\ \A j \in DOMAIN gs : IsGuard(gs[j]) /\ DOMAIN gs[j].coeffs \subseteq Names(u.base)
  BY <1>1 DEF IsView, IsGuards, On, GuardAdded
<1>3. PICK N : N = Len(gs)
  OBVIOUS
<1>4. N \in Nat /\ DOMAIN gs = 1 .. N /\ DOMAIN hs = 1 .. N + 1 /\ hs[N + 1] = g /\ \A j \in 1 .. N : hs[j] = gs[j]
  BY <1>2, <1>3
<1>5. hs \in Seq({hs[j] : j \in DOMAIN hs})
  <2>1. PICK T : T = {hs[j] : j \in DOMAIN hs}
    OBVIOUS
  <2>2. g \in T /\ \A j \in 1 .. N : gs[j] \in T
    BY <1>4, <2>1
  <2>3. gs \in [1 .. N -> T]
    BY <1>2, <1>4, <2>2
  <2>4. gs \in Seq(T)
    BY <1>4, <2>3
  <2>5. hs = Append(gs, g) /\ g \in T
    BY <1>2, <2>2
  <2>6. Append(gs, g) \in Seq(T)
    BY <2>4, <2>5
  <2>7. hs \in Seq(T)
    BY <2>5, <2>6
  <2>8. QED
    BY <2>1, <2>7
<1>6. \A j \in DOMAIN hs : IsGuard(hs[j]) /\ DOMAIN hs[j].coeffs \subseteq Names(u.base)
  BY <1>2, <1>4
<1>7. IsView(w)
  BY <1>1, <1>5, <1>6 DEF IsView, IsGuards, On, GuardAdded
<1>8. ASSUME NEW c PROVE Resolve(w, c) = IF Holds(g, c) THEN Resolve(u, c) ELSE Fill
  <2>1. (\A j \in DOMAIN hs : Holds(hs[j], c)) <=> Holds(g, c) /\ \A j \in DOMAIN gs : Holds(gs[j], c)
    BY <1>4
  <2>2. w.base = u.base
    BY DEF GuardAdded
  <2>3. QED
    BY <1>1, <2>1, <2>2 DEF Resolve
<1>9. QED
  BY <1>7, <1>8

\* A guard on a form holds when the form's value lies in its bounds.
LEMMA GuardHolds ==
  ASSUME NEW f, IsForm(f), NEW lo \in Int, NEW hi \in Int, NEW c, \A n \in DOMAIN f : c[n] \in Int,
         NEW x, x = SumFunction(Times(f, c, DOMAIN f))
  PROVE  Holds(Guard(f, lo, hi), c) <=> lo <= x /\ x < hi
<1>1. Guard(f, lo, hi).lo = lo /\ Guard(f, lo, hi).hi = hi
  BY GuardIs
<1>2. Value(Guard(f, lo, hi), c) = x
  BY GuardValue
<1>3. QED
  BY <1>1, <1>2 DEF Holds

\* Where p is in the box of v, c of w has its datum, and elsewhere it is fill.
Fills(w, v, c, p) == IF InRange(v.base, p) THEN SameAt(w, v, c, p) ELSE Resolve(w, c) = Fill

\* pad keeps each datum inside the old bounds and gives the fill outside.
LEMMA PadFills ==
  ASSUME NEW v, IsView(v), NEW n, n \in Names(v.base), NEW lo \in Int, NEW hi \in Int
  PROVE  IsView(Pad(v, n, lo, hi)) /\ \A c \in Domain(Pad(v, n, lo, hi).base) : Fills(Pad(v, n, lo, hi), v, c, c)
<1>1. PICK l, a, d, r, f, g, u, w :
        /\ l = v.base /\ a = l.dims[n] /\ d = [a EXCEPT !.start = lo, !.stop = hi] /\ r = SetDim(l, n, d)
        /\ f = Single(n, 1) /\ g = Guard(f, a.start, a.stop) /\ u = Rebase(v, r) /\ w = Pad(v, n, lo, hi)
  OBVIOUS
<1>2. IsDim(a) /\ IsLayout(l) /\ a.start \in Int /\ a.stop \in Int /\ n \in Names(l)
  BY <1>1 DEF IsView, IsLayout, IsDim
<1>3. IsDim(d) /\ d.stride = a.stride
  BY <1>1, <1>2 DEF IsDim, Fields
<1>4. SameMap(r, l) /\ \A m \in Names(l) \ {n} : r.dims[m] = l.dims[m]
  <2>1. IsDim(d) /\ d.stride = l.dims[n].stride
    BY <1>1, <1>3
  <2>2. SameMap(SetDim(l, n, d), l)
    BY <1>2, <2>1, SetDimStays
  <2>3. \A m \in Names(l) \ {n} : SetDim(l, n, d).dims[m] = l.dims[m]
    BY <1>2, <2>1, SetDimIs
  <2>4. QED
    BY <1>1, <2>2, <2>3
<1>5. IsView(u) /\ u.base = r /\ \A c : Resolve(u, c) = Resolve(v, c)
  BY <1>1, <1>4, RebaseStays DEF SameAt
<1>6. DOMAIN f = {n} /\ f[n] = 1
  BY <1>1 DEF Single
<1>7. IsForm(f)
  <2>1. IsFiniteSet({n})
    BY FS_Singleton
  <2>2. QED
    BY <1>6, <2>1 DEF IsForm
<1>8. IsGuard(g) /\ DOMAIN g.coeffs \subseteq {n}
  BY <1>1, <1>2, <1>6, <1>7, GuardIs
<1>9. GuardAdded(w, u, g)
  <2>0. PICK hs : hs = Append(v.guards, g)
    OBVIOUS
  <2>1. w = View(v, r, hs)
    BY <1>1, <2>0 DEF Pad
  <2>2. {"base", "guards", "size"} \subseteq DOMAIN w /\ w.base = r /\ w.guards = hs /\ w.size = v.size
    BY <2>1, ViewIs
  <2>3. u.base = r /\ u.guards = v.guards /\ u.size = v.size
    BY <1>1, RebaseIs
  <2>4. QED
    BY <2>0, <2>2, <2>3 DEF GuardAdded
<1>10. IsView(w) /\ \A c : Resolve(w, c) = IF Holds(g, c) THEN Resolve(u, c) ELSE Fill
  <2>1. DOMAIN g.coeffs \subseteq Names(u.base)
    BY <1>2, <1>4, <1>5, <1>8 DEF SameMap
  <2>2. QED
    BY <1>5, <1>8, <1>9, <2>1, GuardAddedIs
<1>11. ASSUME NEW c \in Domain(w.base) PROVE Fills(w, v, c, c)
  <2>1. w.base = r /\ IsLayout(r) /\ Names(r) = Names(l)
    BY <1>4, <1>5, <1>9 DEF GuardAdded, IsView, SameMap
  <2>2. IsPoint(r, c) /\ \A m \in Names(r) : c[m] \in r.dims[m].start .. r.dims[m].stop - 1
    BY <2>1, InDomain
  <2>3. c[n] \in Int
    BY <1>2, <2>1, <2>2 DEF IsPoint
  <2>4. SumFunction(Times(f, c, DOMAIN f)) = c[n]
    <3>1. PICK t : t = Times(f, c, {n})
      OBVIOUS
    <3>2. t[n] = 1 * c[n] /\ t \in [{n} -> Int]
      BY <1>6, <2>3, <3>1 DEF Times
    <3>3. SumFunction(t) = t[n]
      BY <3>2, SumOne
    <3>4. QED
      BY <1>6, <2>3, <3>1, <3>2, <3>3
  <2>5. \A m \in DOMAIN f : c[m] \in Int
    BY <1>6, <2>3
  <2>6. Holds(g, c) <=> a.start <= c[n] /\ c[n] < a.stop
    BY <1>1, <1>2, <1>7, <2>4, <2>5, GuardHolds
  <2>7. InRange(l, c) <=> c[n] \in a.start .. a.stop - 1
    BY <1>1, <1>2, <1>4, <2>1, <2>2 DEF InRange
  <2>8. InRange(l, c) <=> Holds(g, c)
    BY <1>2, <2>3, <2>6, <2>7
  <2>9. QED
    BY <1>1, <1>5, <1>10, <2>8 DEF Fills, SameAt
<1>12. QED
  BY <1>1, <1>10, <1>11

\* stencil gives each tap the datum it lands on, and the fill when it lands outside.
LEMMA StencilFills ==
  ASSUME NEW v, IsView(v), NEW n, n \in Names(v.base), NEW k, NEW lo \in Int, NEW hi \in Int, NEW dilation \in Nat,
         CanStencil(v, n, k, lo, hi)
  PROVE  /\ IsView(Stencil(v, n, k, lo, hi, dilation))
         /\ \A c \in Domain(Stencil(v, n, k, lo, hi, dilation).base) :
              \A p : p[n] = c[n] + dilation * c[k] /\ (\A i \in Names(v.base) \ {n} : p[i] = c[i])
                       => Fills(Stencil(v, n, k, lo, hi, dilation), v, c, p)
<1>1. PICK l, a, new, f, g, u, w :
        /\ l = v.base /\ a = l.dims[n] /\ new = Taken(l, n, k, a, lo, hi + 1, dilation) /\ f = Tap(n, k, dilation)
        /\ g = Guard(f, a.start, a.stop) /\ u = TwoView(v, n, new, f, 0, 0) /\ w = Stencil(v, n, k, lo, hi, dilation)
  OBVIOUS
<1>2. IsDim(a) /\ IsLayout(l) /\ a.start \in Int /\ a.stop \in Int /\ n \in Names(l) /\ k \notin Names(l) /\ n # k
  BY <1>1 DEF IsView, IsLayout, IsDim, CanStencil
<1>3. TapsAre(v, n, k, a, lo, hi + 1, dilation)
  BY <1>1, <1>2 DEF TapsAre
<1>4. TwoForOne(v, n, new, f, n, k, 0, 0) /\ new[n] = a
  BY <1>1, <1>3, TakenIs
<1>5. IsView(u) /\ u.base = PutTwo(l, n, new, 0)
  BY <1>1, <1>4, TwoForOneIs
<1>6. PICK r : r = u.base
  OBVIOUS
<1>7. IsLayout(r) /\ Names(r) = Names(l) \cup {k} /\ r.dims[n] = a /\ \A i \in Names(l) \ {n} : r.dims[i] = l.dims[i]
  BY <1>1, <1>2, <1>4, <1>5, <1>6, PutTwoIs
<1>8. DOMAIN f = {n, k} /\ f[n] = 1 /\ f[k] = dilation
  BY <1>1, <1>2 DEF Tap, Override, Single
<1>9. IsForm(f)
  <2>1. IsFiniteSet(DOMAIN f)
    BY <1>4, PairFinite DEF TwoForOne
  <2>2. QED
    BY <1>8, <2>1 DEF IsForm
<1>10. IsGuard(g) /\ DOMAIN g.coeffs \subseteq DOMAIN f
  BY <1>1, <1>2, <1>9, GuardIs
<1>11. GuardAdded(w, u, g)
  <2>1. PICK q : q = Put(l, {}, Single(k, TapDim(l, n, lo, hi + 1, dilation)), 0)
    OBVIOUS
  <2>2. PICK gs : gs = EachGuard(v, Single(n, f), Single(n, 0))
    OBVIOUS
  <2>0. PICK hs : hs = Append(gs, g)
    OBVIOUS
  <2>3. w = View(v, q, hs)
    BY <1>1, <2>0, <2>1, <2>2 DEF Stencil
  <2>4. q = PutTwo(l, n, new, 0)
    <3>1. Override(Single(k, TapDim(l, n, lo, hi + 1, dilation)), Drop(l.dims, {})) = Override(new, Drop(l.dims, {n}))
      BY <1>1, <1>2 DEF Override, Drop, Single, Taken, Names
    <3>2. QED
      BY <2>1, <3>1 DEF Put, PutTwo
  <2>5. u = View(v, q, gs)
    BY <1>1, <2>2, <2>4 DEF TwoView
  <2>6. u.base = q /\ u.guards = gs /\ u.size = v.size
    BY <2>5, ViewIs
  <2>7. {"base", "guards", "size"} \subseteq DOMAIN w /\ w.base = q /\ w.guards = hs /\ w.size = v.size
    BY <2>3, ViewIs
  <2>8. QED
    BY <2>0, <2>6, <2>7 DEF GuardAdded
<1>12. IsView(w) /\ \A c : Resolve(w, c) = IF Holds(g, c) THEN Resolve(u, c) ELSE Fill
  <2>1. DOMAIN g.coeffs \subseteq Names(u.base)
    BY <1>2, <1>6, <1>7, <1>8, <1>10
  <2>2. QED
    BY <1>5, <1>10, <1>11, <2>1, GuardAddedIs
<1>13. ASSUME NEW c \in Domain(w.base), NEW p, p[n] = c[n] + dilation * c[k], \A i \in Names(l) \ {n} : p[i] = c[i]
       PROVE  Fills(w, v, c, p)
  <2>1. w.base = r
    BY <1>6, <1>11 DEF GuardAdded
  <2>2. IsPoint(r, c) /\ \A m \in Names(r) : c[m] \in r.dims[m].start .. r.dims[m].stop - 1
    BY <1>7, <2>1, InDomain
  <2>3. c[n] \in Int /\ c[k] \in Int /\ dilation * c[k] \in Int
    BY <1>2, <1>7, <2>2, IntTimes DEF IsPoint
  <2>4. TwoStep(l, n, f, n, k, 0, c, p)
    BY <1>8, <1>13, <2>3 DEF TwoStep
  <2>5. Resolve(u, c) = Resolve(v, p)
    <3>1. IsPoint(PutTwo(l, n, new, 0), c)
      BY <1>5, <1>6, <2>2
    <3>2. SameAt(TwoView(v, n, new, f, 0, 0), v, c, p)
      BY <1>1, <1>4, <2>4, <3>1, TwoForOneStays
    <3>3. QED
      BY <1>1, <3>2 DEF SameAt
  <2>6. SumFunction(Times(f, c, DOMAIN f)) = p[n]
    <3>1. PICK t : t = Times(f, c, {n, k})
      OBVIOUS
    <3>2. t[n] = 1 * c[n] /\ t[k] = dilation * c[k] /\ t \in [{n, k} -> Int]
      BY <1>8, <2>3, <3>1 DEF Times
    <3>3. SumFunction(t) = t[n] + t[k]
      BY <1>2, <3>2, SumTwo
    <3>4. QED
      BY <1>8, <1>13, <2>3, <3>1, <3>2, <3>3
  <2>7. \A m \in DOMAIN f : c[m] \in Int
    BY <1>8, <2>3
  <2>8. Holds(g, c) <=> a.start <= p[n] /\ p[n] < a.stop
    BY <1>1, <1>2, <1>9, <2>6, <2>7, GuardHolds
  <2>9. \A i \in Names(l) \ {n} : p[i] \in l.dims[i].start .. l.dims[i].stop - 1
    BY <1>7, <1>13, <2>2
  <2>10. p[n] \in Int
    BY <1>13, <2>3
  <2>11. InRange(l, p) <=> Holds(g, c)
    <3>1. InRange(l, p) <=> p[n] \in a.start .. a.stop - 1
      BY <1>1, <1>2, <2>9 DEF InRange
    <3>2. QED
      BY <1>2, <2>8, <2>10, <3>1
  <2>12. QED
    BY <1>1, <1>12, <2>5, <2>11 DEF Fills, SameAt
<1>14. QED
  BY <1>1, <1>12, <1>13

-----------------------------------------------------------------------------
(* PRODUCTS of one or two numbers                                           *)

Mult(g) == FoldFunction(LAMBDA x, p : x * p, 1, g)
Has(g, x, s) == IF x \in s THEN g[x] ELSE 1
BothHave(g, x, y, S) == x # y /\ S \subseteq {x, y} /\ g \in [S -> Int]
MultOf(F, g, s) == IF s = {} THEN 1 ELSE g[Pick(s)] * F[s \ {Pick(s)}]

\* Taking one factor out of a product of two.
LEMMA HasStep ==
  ASSUME NEW g, NEW x, NEW y, NEW S, BothHave(g, x, y, S), NEW s \in SUBSET S, NEW z \in s
  PROVE  Has(g, x, s) * Has(g, y, s) = g[z] * (Has(g, x, s \ {z}) * Has(g, y, s \ {z}))
<1>1. PICK t : t = s \ {z}
  OBVIOUS
<1>2. x # y /\ S \subseteq {x, y} /\ g \in [S -> Int]
  BY DEF BothHave
<1>3. Has(g, x, s) \in Int /\ Has(g, y, s) \in Int /\ g[z] \in Int
  BY <1>2 DEF Has
<1>4. CASE z = x
  <2>1. Has(g, x, t) = 1 /\ Has(g, y, t) = Has(g, y, s) /\ Has(g, x, s) = g[z]
    BY <1>1, <1>2, <1>4 DEF Has
  <2>2. QED
    BY <1>1, <1>3, <2>1
<1>5. CASE z = y
  <2>1. Has(g, y, t) = 1 /\ Has(g, x, t) = Has(g, x, s) /\ Has(g, y, s) = g[z]
    BY <1>1, <1>2, <1>5 DEF Has
  <2>2. Has(g, x, s) * g[z] = g[z] * (Has(g, x, s) * 1)
    BY <1>3
  <2>3. QED
    BY <1>1, <2>1, <2>2
<1>6. QED
  BY <1>2, <1>4, <1>5

\* The product over at most two names.
LEMMA MultIs ==
  ASSUME NEW g, NEW x, NEW y, NEW S, BothHave(g, x, y, S)
  PROVE  Mult(g) = Has(g, x, S) * Has(g, y, S)
<1>1. x # y /\ S \subseteq {x, y} /\ g \in [S -> Int] /\ DOMAIN g = S
  BY DEF BothHave
<1>2. IsFiniteSet(S)
  <2>1. PICK T : T = {x}
    OBVIOUS
  <2>2. IsFiniteSet(T)
    BY <2>1, FS_Singleton
  <2>3. IsFiniteSet(T \cup {y})
    BY <2>2, FS_AddElement
  <2>4. S \subseteq T \cup {y}
    BY <1>1, <2>1
  <2>5. QED
    BY <2>3, <2>4, FS_Subset
<1>. DEFINE Eq(F) == F = [s \in SUBSET S |-> IF s = {} THEN 1 ELSE g[Pick(s)] * F[s \ {Pick(s)}]]
            Iter == CHOOSE F : Eq(F)
            G == [s \in SUBSET S |-> Has(g, x, s) * Has(g, y, s)]
<1>3. ASSUME NEW s \in SUBSET S PROVE G[s] = MultOf(G, g, s)
  <2>1. CASE s = {}
    BY <2>1 DEF Has, MultOf
  <2>2. CASE s # {}
    <3>1. PICK z : z = Pick(s)
      OBVIOUS
    <3>2. z \in s
      BY <2>2, <3>1, Picked
    <3>3. Has(g, x, s) * Has(g, y, s) = g[z] * (Has(g, x, s \ {z}) * Has(g, y, s \ {z}))
      BY <3>2, HasStep
    <3>4. G[s] = Has(g, x, s) * Has(g, y, s) /\ G[s \ {z}] = Has(g, x, s \ {z}) * Has(g, y, s \ {z})
      OBVIOUS
    <3>. HIDE DEF G
    <3>5. QED
      BY <2>2, <3>1, <3>3, <3>4 DEF MultOf
  <2>3. QED
    BY <2>1, <2>2
<1>4. Eq(G)
  <2>1. G = [s \in SUBSET S |-> G[s]]
    OBVIOUS
  <2>. HIDE DEF G
  <2>2. QED
    BY <1>3, <2>1 DEF MultOf
<1>5. Eq(Iter)
  <2>. HIDE DEF G, Eq
  <2>. QED
    BY <1>4
<1>6. \A s \in SUBSET S : Iter[s] = MultOf(Iter, g, s)
  <2>. HIDE DEF Iter
  <2>. QED
    BY <1>5 DEF MultOf
<1>. HIDE DEF Iter, Eq
<1>7. Mult(g) = Iter[S]
  BY <1>1 DEF Mult, FoldFunction, FoldFunctionOnSet, MapThenFoldSet, Pick, Iter, Eq
<1>8. PICK F, H : F = Iter /\ H = G
  OBVIOUS
<1>9. H[S] = Has(g, x, S) * Has(g, y, S)
  BY <1>8
<1>10. SameSteps(F, H, S)
  <2>. HIDE DEF G
  <2>1. \A s \in SUBSET S : F[s] = MultOf(F, g, s) /\ H[s] = MultOf(H, g, s)
    BY <1>3, <1>6, <1>8
  <2>2. QED
    BY <2>1 DEF SameSteps, MultOf
<1>11. F[S] = H[S]
  <2>. HIDE DEF G
  <2>. QED
    BY <1>2, <1>10, FoldsAgree
<1>12. QED
  BY <1>7, <1>8, <1>9, <1>11

\* The weights of two digits.
Extents(x, y, j) == [i \in (j + 1) .. 2 |-> IF i = 1 THEN x ELSE y]

\* The mixed-radix weights of two extents.
LEMMA TwoDigits ==
  ASSUME NEW x \in Int, NEW y \in Int
  PROVE  Mult(Extents(x, y, 0)) = x * y /\ Mult(Extents(x, y, 1)) = y /\ Mult(Extents(x, y, 2)) = 1
<1>1. ASSUME NEW j \in 0 .. 2, NEW S, S = (j + 1) .. 2, NEW g, g = Extents(x, y, j)
      PROVE  Mult(g) = Has(g, 1, S) * Has(g, 2, S)
  <2>1. S \subseteq {1, 2} /\ g \in [S -> Int]
    BY <1>1 DEF Extents
  <2>2. BothHave(g, 1, 2, S)
    BY <2>1 DEF BothHave
  <2>3. QED
    BY <2>2, MultIs
<1>2. PICK g, h, k : g = Extents(x, y, 0) /\ h = Extents(x, y, 1) /\ k = Extents(x, y, 2)
  OBVIOUS
<1>3. Mult(g) = Has(g, 1, 1 .. 2) * Has(g, 2, 1 .. 2)
  BY <1>1, <1>2
<1>4. Mult(h) = Has(h, 1, 2 .. 2) * Has(h, 2, 2 .. 2)
  BY <1>1, <1>2
<1>5. Mult(k) = Has(k, 1, 3 .. 2) * Has(k, 2, 3 .. 2)
  BY <1>1, <1>2
<1>6. Has(g, 1, 1 .. 2) = x /\ Has(g, 2, 1 .. 2) = y
  BY <1>2 DEF Has, Extents
<1>7. Has(h, 1, 2 .. 2) = 1 /\ Has(h, 2, 2 .. 2) = y
  BY <1>2 DEF Has, Extents
<1>8. Has(k, 1, 3 .. 2) = 1 /\ Has(k, 2, 3 .. 2) = 1
  BY <1>2 DEF Has, Extents
<1>9. QED
  BY <1>2, <1>3, <1>4, <1>5, <1>6, <1>7, <1>8

-----------------------------------------------------------------------------
(* SPLITS into two parts                                                    *)

IsPart(x) == x.start \in Int /\ x.stop \in Int
TwoParts(parts, x, y) == parts = <<x, y>> /\ IsPart(x) /\ IsPart(y) /\ x.name # y.name

\* The weights of the two parts of a split: the size of the second, and 1.
LEMMA WeightsAre ==
  ASSUME NEW parts, NEW x, NEW y, TwoParts(parts, x, y)
  PROVE  Weight(parts, 0) = Size(x) * Size(y) /\ Weight(parts, 1) = Size(y) /\ Weight(parts, 2) = 1
<1>1. parts = <<x, y>> /\ Size(x) \in Int /\ Size(y) \in Int
  BY DEF TwoParts, IsPart, Size
<1>2. Len(parts) = 2 /\ parts[1] = x /\ parts[2] = y
  BY <1>1
<1>3. ASSUME NEW j \in 0 .. 2 PROVE Weight(parts, j) = Mult(Extents(Size(x), Size(y), j))
  <2>1. [i \in (j + 1) .. Len(parts) |-> Size(parts[i])] = Extents(Size(x), Size(y), j)
    <3>1. \A i \in (j + 1) .. 2 : i = 1 \/ i = 2
      OBVIOUS
    <3>2. \A i \in (j + 1) .. 2 : Size(parts[i]) = IF i = 1 THEN Size(x) ELSE Size(y)
      BY <1>2, <3>1
    <3>3. QED
      BY <1>2, <3>2 DEF Extents
  <2>2. QED
    BY <2>1 DEF Weight, Product, Mult
<1>4. PICK u, w : u = Size(x) /\ w = Size(y)
  OBVIOUS
<1>5. u \in Int /\ w \in Int
  BY <1>1, <1>4
<1>6. Mult(Extents(u, w, 0)) = u * w /\ Mult(Extents(u, w, 1)) = w /\ Mult(Extents(u, w, 2)) = 1
  BY <1>5, TwoDigits
<1>7. Weight(parts, 0) = Mult(Extents(u, w, 0)) /\ Weight(parts, 1) = Mult(Extents(u, w, 1)) /\ Weight(parts, 2) = Mult(Extents(u, w, 2))
  BY <1>3, <1>4
<1>8. QED
  BY <1>4, <1>6, <1>7

SplitNames(parts) == {parts[j].name : j \in DOMAIN parts}
SplitForm(parts) == [m \in SplitNames(parts) |-> Weight(parts, NameOf(parts, m))]
SplitNew(l, n, parts) == [m \in SplitNames(parts) |-> SplitDim(l, n, parts, NameOf(parts, m))]

\* split is a substitution of two dims for one, with the weights as coefficients.
LEMMA SplitIs ==
  ASSUME NEW v, IsView(v), NEW n, n \in Names(v.base), NEW parts, NEW x, NEW y, TwoParts(parts, x, y),
         CanSplit(v.base, n, parts)
  PROVE  \E new, f, e, delta :
           /\ GSplit(v, n, parts) = TwoView(v, n, new, f, e, delta)
           /\ TwoForOne(v, n, new, f, x.name, y.name, e, delta) /\ TwoCovers(v.base, n, new, f, x.name, y.name, e)
           /\ f[x.name] = Size(y) /\ f[y.name] = 1
           /\ e = v.base.dims[n].start - (Size(y) * x.start + y.start)
<1>1. PICK l, a, W : l = v.base /\ a = l.dims[n] /\ W = Size(y)
  OBVIOUS
<1>2. IsDim(a) /\ IsLayout(l) /\ a.stride \in Int /\ a.start \in Int /\ a.stop \in Int /\ n \in Names(l)
  BY <1>1 DEF IsView, IsLayout, IsDim
<1>3. /\ parts = <<x, y>> /\ x.name # y.name /\ W \in Int /\ W = y.stop - y.start /\ Size(x) = x.stop - x.start
      /\ x.start \in Int /\ x.stop \in Int /\ y.start \in Int /\ y.stop \in Int
  BY <1>1 DEF TwoParts, IsPart, Size
<1>4. parts[1] = x /\ parts[2] = y /\ DOMAIN parts = {1, 2}
  BY <1>3
<1>5. Weight(parts, 0) = Size(x) * W /\ Weight(parts, 1) = W /\ Weight(parts, 2) = 1
  BY <1>1, WeightsAre
<1>6. SplitNames(parts) = {x.name, y.name}
  BY <1>4 DEF SplitNames
<1>7. NameOf(parts, x.name) = 1 /\ NameOf(parts, y.name) = 2
  BY <1>3, <1>4 DEF NameOf
<1>8. PICK e : e = SplitConst(a, parts)
  OBVIOUS
<1>9. e = a.start - (W * x.start + y.start) /\ W * x.start \in Int /\ e \in Int
  <2>1. PICK t : t = [j \in {1, 2} |-> Weight(parts, j) * parts[j].start]
    OBVIOUS
  <2>2. W * x.start \in Int /\ 1 * y.start = y.start
    BY <1>3, IntTimes
  <2>3. t[1] = W * x.start /\ t[2] = y.start /\ t \in [{1, 2} -> Int]
    BY <1>3, <1>4, <1>5, <2>1, <2>2
  <2>4. SumFunction(t) = W * x.start + y.start
    <3>1. PICK i, j : i = 1 /\ j = 2
      OBVIOUS
    <3>2. i # j /\ t \in [{i, j} -> Int]
      BY <2>3, <3>1
    <3>3. SumFunction(t) = t[i] + t[j]
      BY <3>2, SumTwo
    <3>4. QED
      BY <2>3, <3>1, <3>3
  <2>5. e = a.start - SumFunction(t)
    BY <1>4, <1>8, <2>1 DEF SplitConst, Sigma
  <2>6. QED
    BY <1>2, <1>3, <2>2, <2>4, <2>5
<1>10. PICK delta, f, new : delta = a.stride * e /\ f = SplitForm(parts) /\ new = SplitNew(l, n, parts)
  OBVIOUS
<1>11. GSplit(v, n, parts) = TwoView(v, n, new, f, e, delta)
  BY <1>1, <1>8, <1>10 DEF GSplit, Split, TwoView, PutTwo, SplitNames, SplitForm, SplitNew
<1>12. DOMAIN f = {x.name, y.name} /\ f[x.name] = W /\ f[y.name] = 1
  BY <1>5, <1>6, <1>7, <1>10 DEF SplitForm
<1>13. DOMAIN new = {x.name, y.name} /\ new[x.name] = SplitDim(l, n, parts, 1) /\ new[y.name] = SplitDim(l, n, parts, 2)
  BY <1>6, <1>7, <1>10 DEF SplitNew
<1>14. /\ new[x.name].stride = a.stride * W /\ new[x.name].start = x.start /\ new[x.name].stop = x.stop
       /\ new[y.name].stride = a.stride * 1 /\ new[y.name].start = y.start /\ new[y.name].stop = y.stop
       /\ Fields \subseteq DOMAIN new[x.name] /\ Fields \subseteq DOMAIN new[y.name]
  BY <1>1, <1>4, <1>5, <1>13 DEF SplitDim, Dim, Fields
<1>15. IsDim(new[x.name]) /\ IsDim(new[y.name])
  BY <1>2, <1>3, <1>14, IntTimes DEF IsDim
<1>16. x.name \notin Names(l) \ {n} /\ y.name \notin Names(l) \ {n} /\ Size(x) * W = Size(a)
  BY <1>1, <1>4, <1>5 DEF CanSplit
<1>17. TwoForOne(v, n, new, f, x.name, y.name, e, delta)
  <2>1. delta \in Int
    BY <1>2, <1>9, <1>10, IntTimes
  <2>2. IsPair(new, f, x.name, y.name)
    BY <1>3, <1>12, <1>13 DEF IsPair
  <2>3. a = v.base.dims[n] /\ l = v.base
    BY <1>1
  <2>4. QED
    BY <1>2, <1>3, <1>9, <1>10, <1>12, <1>14, <1>15, <1>16, <2>1, <2>2, <2>3 DEF TwoForOne
<1>18. TwoCovers(l, n, new, f, x.name, y.name, e)
  <2>1. ASSUME NEW i \in x.start .. x.stop - 1, NEW j \in y.start .. y.stop - 1
        PROVE  W * i + 1 * j + e \in a.start .. a.stop - 1
    <3>1. PICK u, k, q : u = x.stop - x.start /\ k = i - x.start /\ q = j - y.start
      OBVIOUS
    <3>2. u \in Int /\ k \in Int /\ q \in Int /\ 0 <= k /\ k <= u - 1 /\ 0 <= q /\ q <= W - 1 /\ W \in Nat
      BY <1>3, <3>1
    <3>3. W * k <= W * (u - 1) /\ W * 0 <= W * k /\ W * k \in Int /\ W * (u - 1) \in Int
      BY <3>2, TimesMono, IntTimes
    <3>4. W * (u - 1) = u * W - W /\ W * 0 = 0 /\ u * W \in Int
      BY <3>2, IntTimes
    <3>5. u * W = a.stop - a.start
      BY <1>3, <1>16, <3>1 DEF Size
    <3>6. W * i = W * k + W * x.start
      BY <1>3, <3>1, <3>2
    <3>7. W * i + 1 * j + e = a.start + (W * k + q)
      BY <1>2, <1>3, <1>9, <3>1, <3>2, <3>3, <3>6
    <3>8. 0 <= W * k + q /\ W * k + q <= a.stop - a.start - 1
      BY <1>2, <1>3, <3>2, <3>3, <3>4, <3>5
    <3>9. W * k + q \in Int
      BY <3>2, <3>3
    <3>10. QED
      BY <1>2, <3>7, <3>8, <3>9
  <2>2. ASSUME NEW i \in new[x.name].start .. new[x.name].stop - 1, NEW j \in new[y.name].start .. new[y.name].stop - 1
        PROVE  f[x.name] * i + f[y.name] * j + e \in l.dims[n].start .. l.dims[n].stop - 1
    <3>1. i \in x.start .. x.stop - 1 /\ j \in y.start .. y.stop - 1
      BY <1>14
    <3>2. QED
      BY <1>1, <1>12, <2>1, <3>1
  <2>3. QED
    BY <2>2 DEF TwoCovers
<1>19. QED
  BY <1>1, <1>9, <1>11, <1>12, <1>17, <1>18

-----------------------------------------------------------------------------
(* MERGES of two dims                                                       *)

Merged(v, m, n, parts, name) ==
  /\ IsView(v) /\ m \in Names(v.base) /\ n \in Names(v.base) /\ m # n /\ parts = <<m, n>>
  /\ v.base.dims[m].start <= v.base.dims[m].stop /\ v.base.dims[n].start <= v.base.dims[n].stop
  /\ CanGMerge(v, parts, name)
\* The names a guard keeps.
Others(g, m, n) == DOMAIN g.coeffs \ {m, n}
Unused(l, m, n, name) == name \notin Names(l) \ {m, n}
\* The digits of the merged coordinate.
MergeStep(l, m, n, name, start, c, p) ==
  /\ p[m] = l.dims[m].start + ((c[name] - start) \div Size(l.dims[n]))
  /\ p[n] = l.dims[n].start + ((c[name] - start) % Size(l.dims[n]))
  /\ \A i \in Names(l) \ {m, n} : p[i] = c[i]

\* The weights of the two dims of a merge.
LEMMA RadixWeights ==
  ASSUME NEW l, IsLayout(l), NEW m \in Names(l), NEW n \in Names(l), NEW parts, parts = <<m, n>>
  PROVE  /\ RadixWeight(l, parts, 0) = Size(l.dims[m]) * Size(l.dims[n])
         /\ RadixWeight(l, parts, 1) = Size(l.dims[n]) /\ RadixWeight(l, parts, 2) = 1
<1>1. PICK u, w : u = Size(l.dims[m]) /\ w = Size(l.dims[n])
  OBVIOUS
<1>2. u \in Int /\ w \in Int
  BY <1>1 DEF IsLayout, IsDim, Size
<1>3. Len(parts) = 2 /\ parts[1] = m /\ parts[2] = n
  OBVIOUS
<1>4. ASSUME NEW j \in 0 .. 2 PROVE RadixWeight(l, parts, j) = Mult(Extents(u, w, j))
  <2>1. [i \in (j + 1) .. Len(parts) |-> Size(l.dims[parts[i]])] = Extents(u, w, j)
    <3>1. \A i \in (j + 1) .. 2 : i = 1 \/ i = 2
      OBVIOUS
    <3>2. \A i \in (j + 1) .. 2 : Size(l.dims[parts[i]]) = IF i = 1 THEN u ELSE w
      BY <1>1, <1>3, <3>1
    <3>3. QED
      BY <1>3, <3>2 DEF Extents
  <2>2. QED
    BY <2>1 DEF RadixWeight, Product, Mult
<1>5. Mult(Extents(u, w, 0)) = u * w /\ Mult(Extents(u, w, 1)) = w /\ Mult(Extents(u, w, 2)) = 1
  BY <1>2, TwoDigits
<1>6. QED
  BY <1>1, <1>4, <1>5

\* A sum, two of its terms taken out.
LEMMA SumPair ==
  ASSUME NEW S, IsFiniteSet(S), NEW f \in [S -> Int], NEW m \in S, NEW n \in S, m # n
  PROVE  SumFunction(f) = f[m] + f[n] + SumFunction(Restrict(f, S \ {m, n}))
<1>1. PICK A, B : A = {m, n} /\ B = S \ A
  OBVIOUS
<1>2. A \in SUBSET S /\ B \in SUBSET S
  BY <1>1
<1>3. SumFunction(f) = SumFunction(Restrict(f, A)) + SumFunction(Restrict(f, B))
  BY <1>1, <1>2, SumUnion
<1>4. PICK g : g = Restrict(f, A)
  OBVIOUS
<1>5. g \in [{m, n} -> Int] /\ g[m] = f[m] /\ g[n] = f[n]
  BY <1>1, <1>2, <1>4 DEF Restrict
<1>6. SumFunction(g) = g[m] + g[n]
  BY <1>5, SumTwo
<1>7. QED
  BY <1>1, <1>3, <1>4, <1>5, <1>6

Weighted(g, l, m, n, c0) ==
  /\ IsGuard(g) /\ DOMAIN g.coeffs \subseteq Names(l)
  /\ Coeff(g, n) = c0 /\ Coeff(g, m) = c0 * Size(l.dims[n])

\* The value of a guard that weighs the merged dims in proportion.
LEMMA PairValue ==
  ASSUME NEW g, NEW l, IsLayout(l), NEW m \in Names(l), NEW n \in Names(l), m # n, NEW c0, Weighted(g, l, m, n, c0),
         NEW p, IsPoint(l, p), NEW B, B = Others(g, m, n)
  PROVE  /\ Value(g, p) = c0 * Size(l.dims[n]) * p[m] + c0 * p[n] + SumFunction(Times(g.coeffs, p, B))
         /\ SumFunction(Times(g.coeffs, p, B)) \in Int
<1>1. PICK D, S, f : /\ D = DOMAIN g.coeffs /\ S = D \cup {m, n}
                     /\ f = [i \in S |-> Coeff(g, i) * p[i]]
  OBVIOUS
<1>2. IsFiniteSet(D) /\ D \subseteq Names(l) /\ \A i \in D : g.coeffs[i] \in Int
  BY <1>1 DEF Weighted, IsGuard
<1>3. IsFiniteSet(S) /\ S \subseteq Names(l)
  BY <1>1, <1>2, FS_Subset DEF IsLayout
<1>4. ASSUME NEW i \in S PROVE f[i] \in Int
  <2>1. Coeff(g, i) \in Int
    BY <1>1, <1>2 DEF Coeff
  <2>2. p[i] \in Int
    BY <1>3 DEF IsPoint
  <2>3. QED
    BY <1>1, <2>1, <2>2, IntTimes
<1>5. f \in [S -> Int]
  BY <1>1, <1>4
<1>6. SumFunction(f) = SumFunction(Restrict(f, D))
  <2>1. \A i \in S \ D : f[i] = 0
    <3>1. ASSUME NEW i \in S \ D PROVE f[i] = 0
      <4>1. f[i] = 0 * p[i] /\ p[i] \in Int
        BY <1>1, <1>3 DEF Coeff, IsPoint
      <4>2. QED
        BY <4>1
    <3>2. QED
      BY <3>1
  <2>2. D \in SUBSET S
    BY <1>1
  <2>3. QED
    BY <1>3, <1>5, <2>1, <2>2, SumSupport
<1>7. Restrict(f, D) = Times(g.coeffs, p, D)
  BY <1>1 DEF Restrict, Times, Coeff
<1>8. SumFunction(f) = f[m] + f[n] + SumFunction(Restrict(f, S \ {m, n}))
  <2>1. m \in S /\ n \in S
    BY <1>1
  <2>2. QED
    BY <1>3, <1>5, <2>1, SumPair
<1>9. S \ {m, n} = B /\ B \in SUBSET S
  BY <1>1 DEF Others
<1>10. Restrict(f, B) = Times(g.coeffs, p, B)
  BY <1>1, <1>9 DEF Restrict, Times, Coeff
<1>11. f[n] = c0 * p[n] /\ f[m] = c0 * Size(l.dims[n]) * p[m]
  BY <1>1 DEF Weighted
<1>12. SumFunction(Restrict(f, B)) \in Int
  BY <1>3, <1>5, <1>9, SumParts
<1>13. f[m] \in Int /\ f[n] \in Int
  BY <1>1, <1>4
<1>14. Value(g, p) = SumFunction(f)
  BY <1>1, <1>6, <1>7, ValueIs
<1>15. SumFunction(f) = f[m] + f[n] + SumFunction(Times(g.coeffs, p, B))
  BY <1>8, <1>9, <1>10
<1>16. QED
  BY <1>10, <1>11, <1>12, <1>13, <1>14, <1>15

\* One element more in the sum.
MoreBy(S, T, x) == S = T \cup {x} /\ x \notin T

\* One more element adds its term.
LEMMA SumMore ==
  ASSUME NEW S, NEW T, IsFiniteSet(T), NEW x, MoreBy(S, T, x),
         NEW g \in [S -> Int], NEW h \in [T -> Int], Agree(h, g, T)
  PROVE  SumFunction(g) = g[x] + SumFunction(h)
<1>1. S = T \cup {x} /\ x \notin T
  BY DEF MoreBy
<1>2. g \in [T \cup {x} -> Int]
  BY <1>1
<1>3. QED
  BY <1>1, <1>2, SumAdd

MergeForm(g, m, n, name, c0) == Override(Single(name, c0), Drop(g.coeffs, {m, n}))
IsMerged(f, g, B, name, c0) ==
  /\ IsForm(f) /\ DOMAIN f = B \cup {name} /\ f[name] = c0
  /\ \A i \in B : f[i] = g.coeffs[i]
  /\ name \notin B

\* The form of a merged guard: the other dims, and the merged one with the coefficient of
\* the last part.
LEMMA MergeFormIs ==
  ASSUME NEW g, NEW l, IsLayout(l), NEW m, NEW n, NEW c0 \in Int, NEW name, Weighted(g, l, m, n, c0),
         Unused(l, m, n, name), NEW B, B = Others(g, m, n)
  PROVE  IsMerged(MergeForm(g, m, n, name, c0), g, B, name, c0)
<1>1. PICK f : f = MergeForm(g, m, n, name, c0)
  OBVIOUS
<1>0. B = DOMAIN g.coeffs \ {m, n}
  BY DEF Others
<1>2. name \notin B /\ \A i \in B : g.coeffs[i] \in Int
  BY <1>0, <1>1 DEF Weighted, IsGuard, Unused
<1>3. DOMAIN f = B \cup {name} /\ f[name] = c0 /\ \A i \in B : f[i] = g.coeffs[i]
  BY <1>0, <1>1, <1>2 DEF MergeForm, Override, Single, Drop
<1>4. IsFiniteSet(B)
  BY <1>0, FS_Subset DEF Weighted, IsGuard
<1>5. IsFiniteSet(B \cup {name})
  BY <1>4, FS_AddElement
<1>6. IsForm(f)
  BY <1>2, <1>3, <1>5 DEF IsForm
<1>7. QED
  BY <1>1, <1>2, <1>3, <1>6 DEF IsMerged

\* It holds at a merged point exactly when the guard held at its digits.
LEMMA MergeFormHolds ==
  ASSUME NEW g, NEW l, IsLayout(l), NEW m \in Names(l), NEW n \in Names(l), m # n, NEW c0 \in Int, NEW name,
         Weighted(g, l, m, n, c0), Unused(l, m, n, name), NEW start \in Int,
         NEW c, c[name] \in Int, NEW p, IsPoint(l, p), \A i \in Names(l) \ {m, n} : p[i] = c[i],
         NEW w0 \in Int, Size(l.dims[n]) * p[m] + p[n] = w0 + (c[name] - start)
  PROVE  Holds(Guard(MergeForm(g, m, n, name, c0), g.lo + c0 * (start - w0), g.hi + c0 * (start - w0)), c) <=> Holds(g, p)
<1>1. PICK f, B, k : f = MergeForm(g, m, n, name, c0) /\ B = Others(g, m, n) /\ k = c0 * (start - w0)
  OBVIOUS
<1>2. /\ IsForm(f) /\ DOMAIN f = B \cup {name} /\ f[name] = c0
      /\ (\A i \in B : f[i] = g.coeffs[i]) /\ name \notin B
  <2>1. B = Others(g, m, n) /\ f = MergeForm(g, m, n, name, c0)
    BY <1>1
  <2>2. IsMerged(MergeForm(g, m, n, name, c0), g, B, name, c0)
    BY <2>1, MergeFormIs
  <2>3. QED
    BY <2>1, <2>2 DEF IsMerged
<1>3. PICK t : t = SumFunction(Times(g.coeffs, p, B))
  OBVIOUS
<1>4. Value(g, p) = c0 * Size(l.dims[n]) * p[m] + c0 * p[n] + t /\ t \in Int
  BY <1>1, <1>3, PairValue
<1>5. \A i \in B : i \in Names(l) /\ p[i] = c[i] /\ c[i] \in Int
  BY <1>1 DEF Weighted, IsPoint, Others
<1>6. \A i \in DOMAIN f : c[i] \in Int
  BY <1>2, <1>5
<1>7. SumFunction(Times(f, c, DOMAIN f)) = c0 * c[name] + t
  <2>1. PICK u, h : u = Times(f, c, B \cup {name}) /\ h = Times(g.coeffs, p, B)
    OBVIOUS
  <2>2. u \in [B \cup {name} -> Int]
    BY <1>2, <1>6, <2>1, TimesInt DEF IsForm
  <2>3. h \in [B -> Int] /\ Agree(h, u, B)
    <3>1. \A i \in B : g.coeffs[i] \in Int /\ p[i] \in Int
      BY <1>1, <1>5 DEF Weighted, IsGuard, Others
    <3>2. h \in [B -> Int]
      BY <2>1, <3>1, TimesInt
    <3>3. QED
      BY <1>2, <1>5, <2>1, <3>2 DEF Agree, Times
  <2>4. IsFiniteSet(B)
    BY <1>1, FS_Subset DEF Weighted, IsGuard, Others
  <2>8. PICK S : S = B \cup {name}
    OBVIOUS
  <2>9. MoreBy(S, B, name) /\ u \in [S -> Int]
    BY <1>2, <2>2, <2>8 DEF MoreBy
  <2>10. h \in [B -> Int] /\ Agree(h, u, B)
    BY <2>3
  <2>5. SumFunction(u) = u[name] + SumFunction(h)
    BY <2>4, <2>9, <2>10, SumMore
  <2>6. u[name] = c0 * c[name]
    BY <1>2, <2>1 DEF Times
  <2>7. QED
    BY <1>2, <1>3, <2>1, <2>5, <2>6
<1>8. k \in Int /\ g.lo \in Int /\ g.hi \in Int
  <2>1. start - w0 \in Int
    OBVIOUS
  <2>2. QED
    BY <1>1, <2>1, IntTimes DEF Weighted, IsGuard
<1>9. PICK W, a, b, z : W = Size(l.dims[n]) /\ a = p[m] /\ b = p[n] /\ z = c[name]
  OBVIOUS
<1>10. W \in Int /\ a \in Int /\ b \in Int /\ z \in Int
  BY <1>9 DEF IsPoint, IsLayout, IsDim, Size
<1>11. c0 * z + t = (c0 * W * a + c0 * b + t) + k
  <2>1. W * a + b = w0 + (z - start)
    BY <1>9
  <2>2. c0 * W * a + c0 * b = c0 * (W * a + b)
    BY <1>10
  <2>3. W * a \in Int
    BY <1>10, IntTimes
  <2>4. c0 * (w0 + (z - start)) + c0 * (start - w0) = c0 * z
    BY <1>10
  <2>5. c0 * W * a \in Int /\ c0 * b \in Int /\ c0 * z \in Int
    BY <1>10, IntTimes
  <2>6. QED
    BY <1>1, <1>4, <1>8, <2>1, <2>2, <2>4, <2>5
<1>12. PICK x : x = c0 * c[name] + t
  OBVIOUS
<1>13. Holds(Guard(f, g.lo + k, g.hi + k), c) <=> g.lo + k <= x /\ x < g.hi + k
  BY <1>2, <1>6, <1>7, <1>8, <1>12, GuardHolds
<1>14. x = Value(g, p) + k /\ Value(g, p) \in Int
  <2>1. Value(g, p) \in Int
    BY ValueInt DEF Weighted, IsPoint
  <2>2. QED
    BY <1>4, <1>9, <1>11, <1>12, <2>1
<1>15. QED
  BY <1>1, <1>8, <1>13, <1>14 DEF Holds

-----------------------------------------------------------------------------

\* The digits of a number below a product, and the number from its digits.
LEMMA Digits ==
  ASSUME NEW u \in Nat, NEW w \in Nat, NEW q \in Int, 0 <= q, q < u * w
  PROVE  /\ u > 0 /\ w > 0
         /\ q \div w \in 0 .. u - 1 /\ q % w \in 0 .. w - 1
         /\ w * (q \div w) + (q % w) = q
<1>1. w > 0
  <2>1. w = 0 => u * w = 0
    OBVIOUS
  <2>2. QED
    BY <2>1
<1>2. u > 0
  <2>1. u = 0 => u * w = 0
    OBVIOUS
  <2>2. QED
    BY <2>1
<1>3. PICK a, b : a = q \div w /\ b = q % w
  OBVIOUS
<1>4. a \in Int /\ b \in Int /\ 0 <= b /\ b < w /\ q = w * a + b
  BY <1>1, <1>3, ModIs, DivIs
<1>5. 0 <= a
  <2>1. a <= -1 => w * a <= w * (-1)
    BY <1>4, TimesMono
  <2>2. w * (-1) = -w
    OBVIOUS
  <2>3. w * a \in Int
    BY <1>4, IntTimes
  <2>4. QED
    BY <1>4, <2>1, <2>2, <2>3
<1>6. a < u
  <2>1. u <= a => w * u <= w * a
    BY <1>4, TimesMono
  <2>2. w * u = u * w
    OBVIOUS
  <2>3. w * a \in Int /\ w * u \in Int
    BY <1>4, IntTimes
  <2>4. QED
    BY <1>4, <2>1, <2>2, <2>3
<1>7. QED
  BY <1>1, <1>2, <1>3, <1>4, <1>5, <1>6

\* A merge as a dim put in the place of two.
MergePut(l, m, n, name, d, delta) == Put(l, {m, n}, Single(name, d), delta)
IsMerge(v, m, n, parts, name, start, d, delta) ==
  /\ IsDim(d) /\ delta \in Int
  /\ d.stride = v.base.dims[n].stride
  /\ d.start = start /\ d.stop = start + Size(v.base.dims[m]) * Size(v.base.dims[n])
  /\ delta = (v.base.dims[m].stride * v.base.dims[m].start + v.base.dims[n].stride * v.base.dims[n].start)
               - v.base.dims[n].stride * start
  /\ v.base.dims[m].stride = v.base.dims[n].stride * Size(v.base.dims[n])
  /\ Merge(v.base, parts, name, start) = MergePut(v.base, m, n, name, d, delta)
MergeDim(l, parts, start) ==
  Dim(l.dims[Last(parts)].stride, start, start + RadixWeight(l, parts, 0), MergedChart(l, parts, start), None)

\* merge puts one dim in place of two whose strides are in proportion.
LEMMA MergeIs ==
  ASSUME NEW v, NEW m, NEW n, NEW parts, NEW name, Merged(v, m, n, parts, name), NEW start \in Int
  PROVE  \E d, delta : IsMerge(v, m, n, parts, name, start, d, delta)
<1>1. PICK l, d, delta, f :
        /\ l = v.base /\ d = MergeDim(l, parts, start)
        /\ f = [i \in {m, n} |-> l.dims[i].stride * l.dims[i].start]
        /\ delta = SumFunction(f) - l.dims[n].stride * start
  OBVIOUS
<1>2. IsLayout(l) /\ m \in Names(l) /\ n \in Names(l) /\ m # n /\ parts = <<m, n>>
  BY <1>1 DEF Merged, IsView
<1>3. Len(parts) = 2 /\ parts[1] = m /\ parts[2] = n /\ Last(parts) = n /\ Range(parts) = {m, n}
  <2>1. Len(parts) = 2 /\ parts[1] = m /\ parts[2] = n /\ DOMAIN parts = {1, 2}
    BY <1>2
  <2>2. QED
    BY <2>1 DEF Last, Range
<1>4. l.dims[m].stride = l.dims[n].stride * Size(l.dims[n])
  <2>1. CanMerge(v.base, parts, name)
    BY DEF Merged, CanGMerge
  <2>2. \A j \in 1 .. Len(parts) - 1 :
          l.dims[parts[j]].stride = l.dims[parts[j + 1]].stride * Size(l.dims[parts[j + 1]])
    BY <1>1, <2>1 DEF CanMerge
  <2>3. QED
    BY <1>3, <2>2
<1>5. RadixWeight(l, parts, 0) = Size(l.dims[m]) * Size(l.dims[n])
  BY <1>2, RadixWeights
<1>6. IsDim(l.dims[m]) /\ IsDim(l.dims[n])
  BY <1>2 DEF IsLayout
<1>7. Size(l.dims[m]) * Size(l.dims[n]) \in Int
  <2>1. Size(l.dims[m]) \in Int /\ Size(l.dims[n]) \in Int
    BY <1>6 DEF Size, IsDim
  <2>2. QED
    BY <2>1, IntTimes
<1>8. /\ IsDim(d) /\ d.stride = l.dims[n].stride /\ d.start = start
      /\ d.stop = start + Size(l.dims[m]) * Size(l.dims[n])
  <2>1. /\ d.stride = l.dims[n].stride /\ d.start = start
        /\ d.stop = start + Size(l.dims[m]) * Size(l.dims[n]) /\ Fields \subseteq DOMAIN d
    BY <1>1, <1>3, <1>5 DEF MergeDim, Dim, Fields
  <2>2. QED
    BY <1>6, <1>7, <2>1 DEF IsDim
<1>9. f \in [{m, n} -> Int] /\ f[m] = l.dims[m].stride * l.dims[m].start /\ f[n] = l.dims[n].stride * l.dims[n].start
  <2>1. l.dims[m].stride * l.dims[m].start \in Int /\ l.dims[n].stride * l.dims[n].start \in Int
    BY <1>6, IntTimes DEF IsDim
  <2>2. QED
    BY <1>1, <2>1
<1>10. SumFunction(f) = f[m] + f[n]
  BY <1>2, <1>9, SumTwo
<1>11. delta = (l.dims[m].stride * l.dims[m].start + l.dims[n].stride * l.dims[n].start) - l.dims[n].stride * start
  BY <1>1, <1>9, <1>10
<1>12. delta \in Int
  <2>1. f[m] \in Int /\ f[n] \in Int /\ l.dims[n].stride * start \in Int
    BY <1>6, <1>9, IntTimes DEF IsDim
  <2>2. QED
    BY <1>1, <1>10, <2>1
<1>13. Merge(l, parts, name, start) = MergePut(l, m, n, name, d, delta)
  <2>1. Sigma(LAMBDA i : l.dims[i].stride * l.dims[i].start, Range(parts)) = SumFunction(f)
    BY <1>1, <1>3 DEF Sigma
  <2>2. QED
    BY <1>1, <1>3, <2>1 DEF Merge, MergePut, MergeDim
<1>14. IsMerge(v, m, n, parts, name, start, d, delta)
  BY <1>1, <1>4, <1>8, <1>11, <1>12, <1>13 DEF IsMerge
<1>15. QED
  BY <1>14

\* What a merge is on its own: no product of extents is left out.
MergeSetting(v, m, n, parts, name, start, d, delta, l, r) ==
  /\ Merged(v, m, n, parts, name) /\ start \in Int /\ IsMerge(v, m, n, parts, name, start, d, delta)
  /\ l = v.base /\ r = MergePut(l, m, n, name, d, delta)
MergedNames(l, m, n, name) == (Names(l) \ {m, n}) \cup {name}

MergedLayout(l, r, m, n, name, d) ==
  /\ IsLayout(r) /\ Names(r) = MergedNames(l, m, n, name) /\ r.dims[name] = d
  /\ \A i \in Names(l) \ {m, n} : r.dims[i] = l.dims[i]
  /\ Unused(l, m, n, name) /\ IsLayout(l) /\ m \in Names(l) /\ n \in Names(l) /\ m # n
  /\ Joins(Single(name, d), l, {m, n})

\* The layout of a merge.
LEMMA MergePutIs ==
  ASSUME NEW v, NEW m, NEW n, NEW parts, NEW name, NEW start, NEW d, NEW delta, NEW l, NEW r,
         MergeSetting(v, m, n, parts, name, start, d, delta, l, r)
  PROVE  MergedLayout(l, r, m, n, name, d)
<1>1. /\ IsLayout(l) /\ m \in Names(l) /\ n \in Names(l) /\ m # n /\ parts = <<m, n>> /\ l = v.base
      /\ CanMerge(l, parts, name) /\ IsDim(d) /\ delta \in Int /\ r = MergePut(l, m, n, name, d, delta)
  BY DEF MergeSetting, Merged, IsView, CanGMerge, IsMerge
<1>2. Unused(l, m, n, name)
  <2>1. Range(parts) = {m, n}
    BY <1>1 DEF Range
  <2>2. QED
    BY <1>1, <2>1 DEF CanMerge, Unused
<1>3. PICK gone, new : gone = {m, n} /\ new = Single(name, d)
  OBVIOUS
<1>4. DOMAIN new = {name} /\ new[name] = d
  BY <1>3 DEF Single
<1>5. Joins(new, l, gone)
  BY <1>1, <1>2, <1>3, <1>4, FS_Singleton DEF Joins, Unused
<1>6. /\ IsLayout(Put(l, gone, new, delta))
      /\ Names(Put(l, gone, new, delta)) = (Names(l) \ gone) \cup DOMAIN new
      /\ \A k \in DOMAIN new : Put(l, gone, new, delta).dims[k] = new[k]
      /\ \A k \in Names(l) \ gone : Put(l, gone, new, delta).dims[k] = l.dims[k]
  BY <1>1, <1>5, PutIs
<1>7. r = Put(l, gone, new, delta)
  BY <1>1, <1>3 DEF MergePut
<1>8. Names(r) = MergedNames(l, m, n, name)
  BY <1>3, <1>4, <1>6, <1>7 DEF MergedNames
<1>9. \A i \in Names(l) \ {m, n} : r.dims[i] = l.dims[i]
  BY <1>3, <1>6, <1>7
<1>10. r.dims[name] = d /\ IsLayout(r)
  BY <1>4, <1>6, <1>7
<1>11. QED
  BY <1>1, <1>2, <1>3, <1>5, <1>8, <1>9, <1>10 DEF MergedLayout

\* The digits of a merged coordinate are a point inside the bounds of the parts.
LEMMA MergeDigits ==
  ASSUME NEW v, NEW m, NEW n, NEW parts, NEW name, NEW start, NEW d, NEW delta, NEW l, NEW r,
         MergeSetting(v, m, n, parts, name, start, d, delta, l, r),
         NEW c \in Domain(r), NEW p, MergeStep(l, m, n, name, start, c, p)
  PROVE  /\ IsPoint(r, c) /\ IsPoint(l, p) /\ InRange(l, p) /\ c[name] \in Int
         /\ Size(l.dims[n]) * p[m] + p[n] = (Size(l.dims[n]) * l.dims[m].start + l.dims[n].start) + (c[name] - start)
<1>1. /\ IsLayout(l) /\ m \in Names(l) /\ n \in Names(l) /\ m # n /\ IsLayout(r) /\ r.dims[name] = d
      /\ Names(r) = MergedNames(l, m, n, name) /\ \A i \in Names(l) \ {m, n} : r.dims[i] = l.dims[i]
  <2>1. MergedLayout(l, r, m, n, name, d)
    BY MergePutIs
  <2>2. QED
    BY <2>1 DEF MergedLayout
<1>2. PICK x, y, u, w, q : /\ x = l.dims[m].start /\ y = l.dims[n].start /\ u = Size(l.dims[m]) /\ w = Size(l.dims[n])
                           /\ q = c[name] - start
  OBVIOUS
<1>3. /\ l = v.base /\ l.dims[m].start <= l.dims[m].stop /\ l.dims[n].start <= l.dims[n].stop /\ start \in Int
      /\ d.start = start /\ d.stop = start + u * w
  BY <1>2 DEF MergeSetting, Merged, IsMerge
<1>4. IsDim(l.dims[m]) /\ IsDim(l.dims[n])
  BY <1>1 DEF IsLayout
<1>5. /\ u \in Nat /\ w \in Nat /\ x \in Int /\ y \in Int
      /\ l.dims[m].stop = x + u /\ l.dims[n].stop = y + w
  BY <1>2, <1>3, <1>4 DEF Size, IsDim
<1>6. IsPoint(r, c) /\ \A i \in Names(r) : c[i] \in r.dims[i].start .. r.dims[i].stop - 1
  BY <1>1, InDomain
<1>7. name \in Names(r)
  BY <1>1 DEF MergedNames
<1>8. c[name] \in start .. (start + u * w) - 1
  BY <1>1, <1>3, <1>6, <1>7
<1>9. u * w \in Int
  BY <1>5, IntTimes
<1>10. q \in Int /\ 0 <= q /\ q < u * w /\ c[name] \in Int
  BY <1>2, <1>3, <1>8, <1>9
<1>11. q \div w \in 0 .. u - 1 /\ q % w \in 0 .. w - 1 /\ w * (q \div w) + (q % w) = q
  BY <1>5, <1>10, Digits
<1>12. p[m] = x + (q \div w) /\ p[n] = y + (q % w)
  BY <1>2 DEF MergeStep
<1>13. p[m] \in x .. (x + u) - 1 /\ p[n] \in y .. (y + w) - 1
  BY <1>5, <1>11, <1>12
<1>14. \A i \in Names(l) : p[i] \in l.dims[i].start .. l.dims[i].stop - 1
  <2>1. ASSUME NEW i \in Names(l) \ {m, n} PROVE p[i] \in l.dims[i].start .. l.dims[i].stop - 1
    <3>1. i \in Names(r) /\ p[i] = c[i] /\ r.dims[i] = l.dims[i]
      BY <1>1 DEF MergedNames, MergeStep
    <3>2. QED
      BY <1>6, <3>1
  <2>2. p[m] \in l.dims[m].start .. l.dims[m].stop - 1 /\ p[n] \in l.dims[n].start .. l.dims[n].stop - 1
    BY <1>2, <1>5, <1>13
  <2>3. QED
    BY <2>1, <2>2
<1>15. IsPoint(l, p)
  BY <1>1, <1>14 DEF IsPoint, IsLayout, IsDim
<1>16. w * p[m] + p[n] = (w * x + y) + q
  <2>1. PICK a, b : a = q \div w /\ b = q % w
    OBVIOUS
  <2>2. a \in Int /\ b \in Int /\ w * a + b = q
    BY <1>5, <1>11, <2>1
  <2>3. w * (x + a) = w * x + w * a
    BY <1>5, <2>2
  <2>4. w * x \in Int /\ w * a \in Int
    BY <1>5, <2>2, IntTimes
  <2>5. QED
    BY <1>5, <1>12, <2>1, <2>2, <2>3, <2>4
<1>17. QED
  BY <1>2, <1>6, <1>10, <1>14, <1>15, <1>16 DEF InRange

\* merge keeps every address.
LEMMA MergeMoves ==
  ASSUME NEW v, NEW m, NEW n, NEW parts, NEW name, NEW start, NEW d, NEW delta, NEW l, NEW r,
         MergeSetting(v, m, n, parts, name, start, d, delta, l, r),
         NEW c \in Domain(r), NEW p, MergeStep(l, m, n, name, start, c, p)
  PROVE  GetLoc(r, c) = GetLoc(l, p)
<1>1. /\ IsLayout(l) /\ m \in Names(l) /\ n \in Names(l) /\ m # n /\ Joins(Single(name, d), l, {m, n})
  <2>1. MergedLayout(l, r, m, n, name, d)
    BY MergePutIs
  <2>2. QED
    BY <2>1 DEF MergedLayout
<1>2. PICK x, y, w, q, s, z :
        /\ x = l.dims[m].start /\ y = l.dims[n].start /\ w = Size(l.dims[n])
        /\ q = c[name] - start /\ s = l.dims[n].stride /\ z = c[name]
  OBVIOUS
<1>3. IsPoint(r, c) /\ IsPoint(l, p) /\ z \in Int /\ w * p[m] + p[n] = (w * x + y) + q
  BY <1>2, MergeDigits
<1>4. /\ l = v.base /\ start \in Int /\ d.stride = s /\ l.dims[m].stride = s * w
      /\ delta = (l.dims[m].stride * x + s * y) - s * start /\ delta \in Int
      /\ r = Put(l, {m, n}, Single(name, d), delta)
  BY <1>2 DEF MergeSetting, IsMerge, MergePut
<1>5. IsDim(l.dims[m]) /\ IsDim(l.dims[n])
  BY <1>1 DEF IsLayout
<1>6. s \in Int /\ w \in Int /\ x \in Int /\ y \in Int /\ p[m] \in Int /\ p[n] \in Int
  BY <1>1, <1>2, <1>3, <1>5 DEF IsDim, Size, IsPoint
<1>7. PICK gone, new, f, g : /\ gone = {m, n} /\ new = Single(name, d)
                             /\ f = [i \in DOMAIN new |-> new[i].stride * c[i]]
                             /\ g = [i \in gone |-> l.dims[i].stride * p[i]]
  OBVIOUS
<1>8. f \in [{name} -> Int] /\ f[name] = s * z
  <2>1. s * z \in Int
    BY <1>3, <1>6, IntTimes
  <2>2. DOMAIN new = {name} /\ new[name] = d
    BY <1>7 DEF Single
  <2>3. QED
    BY <1>2, <1>4, <1>7, <2>1, <2>2
<1>9. SumFunction(f) = s * z
  BY <1>8, SumOne
<1>10. g \in [{m, n} -> Int] /\ g[m] = (s * w) * p[m] /\ g[n] = s * p[n]
  <2>1. s * w \in Int
    BY <1>6, IntTimes
  <2>2. (s * w) * p[m] \in Int /\ s * p[n] \in Int
    BY <1>6, <2>1, IntTimes
  <2>3. g[m] = l.dims[m].stride * p[m] /\ g[n] = l.dims[n].stride * p[n] /\ DOMAIN g = {m, n} /\ g = [i \in {m, n} |-> g[i]]
    BY <1>7
  <2>4. QED
    BY <1>2, <1>4, <2>2, <2>3
<1>11. SumFunction(g) = g[m] + g[n]
  BY <1>1, <1>10, SumTwo
<1>12. s * z + delta = (s * w) * p[m] + s * p[n]
  <2>1. PICK a, b : a = p[m] /\ b = p[n]
    OBVIOUS
  <2>2. a \in Int /\ b \in Int /\ w * a + b = (w * x + y) + (z - start)
    BY <1>2, <1>3, <1>6, <2>1
  <2>3. PICK k, h : k = w * a /\ h = w * x
    OBVIOUS
  <2>4. k \in Int /\ h \in Int
    BY <1>6, <2>2, <2>3, IntTimes
  <2>5. s * (k + b) = s * k + s * b
    BY <1>6, <2>2, <2>4
  <2>6. s * ((h + y) + (z - start)) = (s * h + s * y) + (s * z - s * start)
    BY <1>3, <1>4, <1>6, <2>4
  <2>7. (s * w) * a = s * k /\ (s * w) * x = s * h
    BY <1>6, <2>2, <2>3
  <2>8. s * k \in Int /\ s * b \in Int /\ s * h \in Int /\ s * y \in Int /\ s * z \in Int /\ s * start \in Int
    BY <1>3, <1>4, <1>6, <2>2, <2>4, IntTimes
  <2>9. delta = (s * h + s * y) - s * start
    BY <1>4, <2>7
  <2>10. s * k + s * b = (s * h + s * y) + (s * z - s * start)
    BY <2>2, <2>3, <2>5, <2>6
  <2>11. s * z + delta = s * k + s * b
    BY <2>8, <2>9, <2>10
  <2>12. QED
    BY <2>1, <2>7, <2>11
<1>13. SumFunction(f) + delta = SumFunction(g)
  BY <1>9, <1>10, <1>11, <1>12
<1>14. \A i \in Names(l) \ gone : p[i] = c[i]
  BY <1>7 DEF MergeStep
<1>15. SumFunction([i \in DOMAIN new |-> new[i].stride * c[i]]) + delta = SumFunction([i \in gone |-> l.dims[i].stride * p[i]])
  BY <1>7, <1>13
<1>16. Joins(new, l, gone) /\ r = Put(l, gone, new, delta) /\ IsPoint(Put(l, gone, new, delta), c)
  BY <1>1, <1>3, <1>4, <1>7
<1>17. GetLoc(Put(l, gone, new, delta), c) = GetLoc(l, p)
  BY <1>1, <1>3, <1>4, <1>14, <1>15, <1>16, PutMoves
<1>18. QED
  BY <1>16, <1>17

-----------------------------------------------------------------------------
(* The guards of a merge *)
Origin2(l, m, n) == Size(l.dims[n]) * l.dims[m].start + l.dims[n].start
Mergeable(v, m, n, parts, name, start, d, delta, l, r, g) ==
  /\ MergeSetting(v, m, n, parts, name, start, d, delta, l, r)
  /\ IsGuard(g) /\ DOMAIN g.coeffs \subseteq Names(l) /\ Weighs(g, l, parts)
Untouched(g, m, n) == DOMAIN g.coeffs \cap {m, n} = {}

\* What the guards of a merge need to know of its layout.
LEMMA MergeSettingIs ==
  ASSUME NEW v, NEW m, NEW n, NEW parts, NEW name, NEW start, NEW d, NEW delta, NEW l, NEW r,
         MergeSetting(v, m, n, parts, name, start, d, delta, l, r)
  PROVE  /\ Unused(l, m, n, name) /\ IsLayout(l) /\ m \in Names(l) /\ n \in Names(l) /\ m # n
         /\ parts = <<m, n>> /\ start \in Int /\ IsDim(l.dims[m]) /\ IsDim(l.dims[n])
         /\ Last(parts) = n
<1>1. MergedLayout(l, r, m, n, name, d)
  BY MergePutIs
<1>2. Unused(l, m, n, name) /\ IsLayout(l) /\ m \in Names(l) /\ n \in Names(l) /\ m # n
  BY <1>1 DEF MergedLayout
<1>3. parts = <<m, n>> /\ start \in Int
  BY DEF MergeSetting, Merged
<1>4. Last(parts) = n
  BY <1>3 DEF Last
<1>5. QED
  BY <1>2, <1>3, <1>4 DEF IsLayout

Starts(l, parts) == [j \in DOMAIN parts |-> RadixWeight(l, parts, j) * l.dims[parts[j]].start]

\* The start of the merged dim in the digits of the parts.
LEMMA OriginIs ==
  ASSUME NEW l, IsLayout(l), NEW m \in Names(l), NEW n \in Names(l), NEW parts, parts = <<m, n>>
  PROVE  /\ SumFunction(Starts(l, parts)) = Origin2(l, m, n)
         /\ Origin2(l, m, n) \in Int
<1>1. PICK f : f = Starts(l, parts)
  OBVIOUS
<1>2. PICK w, x, y : w = Size(l.dims[n]) /\ x = l.dims[m].start /\ y = l.dims[n].start
  OBVIOUS
<1>3. w \in Int /\ x \in Int /\ y \in Int
  BY <1>2 DEF IsLayout, IsDim, Size
<1>4. RadixWeight(l, parts, 1) = w /\ RadixWeight(l, parts, 2) = 1
  BY <1>2, RadixWeights
<1>5. DOMAIN parts = {1, 2} /\ parts[1] = m /\ parts[2] = n
  OBVIOUS
<1>6. w * x \in Int
  BY <1>3, IntTimes
<1>7. f \in [{1, 2} -> Int] /\ f[1] = w * x /\ f[2] = y
  <2>1. f[1] = w * x /\ f[2] = 1 * y /\ DOMAIN f = {1, 2} /\ f = [j \in {1, 2} |-> f[j]]
    BY <1>1, <1>2, <1>4, <1>5 DEF Starts
  <2>2. 1 * y = y
    BY <1>3
  <2>3. QED
    BY <1>3, <1>6, <2>1, <2>2
<1>8. SumFunction(f) = w * x + y
  <2>1. 1 # 2
    OBVIOUS
  <2>2. SumFunction(f) = f[1] + f[2]
    BY <1>7, <2>1, SumTwo
  <2>3. QED
    BY <1>7, <2>2
<1>10. QED
  BY <1>1, <1>2, <1>3, <1>6, <1>8 DEF Origin2

\* A guard of a merge is untouched, or its form is the merged one.
LEMMA MergeGuardForm ==
  ASSUME NEW v, NEW m, NEW n, NEW parts, NEW name, NEW start, NEW d, NEW delta, NEW l, NEW r, NEW g,
         Mergeable(v, m, n, parts, name, start, d, delta, l, r, g), NEW c0, c0 = Coeff(g, n)
  PROVE  /\ Untouched(g, m, n) => MergeGuard(g, l, parts, name, start) = g
         /\ ~Untouched(g, m, n) =>
              MergeGuard(g, l, parts, name, start)
                = Guard(MergeForm(g, m, n, name, c0), g.lo + c0 * (start - Origin2(l, m, n)),
                        g.hi + c0 * (start - Origin2(l, m, n)))
         /\ c0 \in Int /\ Weighted(g, l, m, n, c0)
<1>1. MergeSetting(v, m, n, parts, name, start, d, delta, l, r)
  BY DEF Mergeable
<1>2. /\ IsLayout(l) /\ m \in Names(l) /\ n \in Names(l) /\ m # n
      /\ parts = <<m, n>> /\ start \in Int /\ IsDim(l.dims[m]) /\ IsDim(l.dims[n]) /\ Last(parts) = n
  BY <1>1, MergeSettingIs
<1>3. Range(parts) = {m, n}
  BY <1>2 DEF Range
<1>4. Sigma(LAMBDA j : RadixWeight(l, parts, j) * l.dims[parts[j]].start, DOMAIN parts) = Origin2(l, m, n)
  <2>1. SumFunction(Starts(l, parts)) = Origin2(l, m, n)
    BY <1>2, OriginIs
  <2>2. QED
    BY <2>1 DEF Sigma, Starts
<1>5. MergeGuard(g, l, parts, name, start)
        = IF DOMAIN g.coeffs \cap {m, n} = {} THEN g
          ELSE Guard(Override(Single(name, c0), Drop(g.coeffs, {m, n})), g.lo + c0 * (start - Origin2(l, m, n)),
                     g.hi + c0 * (start - Origin2(l, m, n)))
  BY <1>2, <1>3, <1>4 DEF MergeGuard
<1>6. c0 \in Int
  BY DEF Mergeable, IsGuard, Coeff
<1>7. Coeff(g, m) = c0 * Size(l.dims[n])
  <2>1. Coeff(g, parts[1]) = Coeff(g, Last(parts)) * RadixWeight(l, parts, 1)
    BY <1>2 DEF Mergeable, Weighs
  <2>2. RadixWeight(l, parts, 1) = Size(l.dims[n])
    BY <1>2, RadixWeights
  <2>3. QED
    BY <1>2, <2>1, <2>2
<1>8. Weighted(g, l, m, n, c0)
  BY <1>7 DEF Weighted, Mergeable
<1>9. QED
  BY <1>5, <1>6, <1>8 DEF MergeForm, Untouched

\* A guard of a merge is a guard over the merged layout.
LEMMA MergeGuardIs ==
  ASSUME NEW v, NEW m, NEW n, NEW parts, NEW name, NEW start, NEW d, NEW delta, NEW l, NEW r, NEW g,
         Mergeable(v, m, n, parts, name, start, d, delta, l, r, g)
  PROVE  /\ IsGuard(MergeGuard(g, l, parts, name, start))
         /\ DOMAIN MergeGuard(g, l, parts, name, start).coeffs \subseteq MergedNames(l, m, n, name)
<1>1. MergeSetting(v, m, n, parts, name, start, d, delta, l, r)
  BY DEF Mergeable
<1>2. /\ Unused(l, m, n, name) /\ IsLayout(l) /\ m \in Names(l) /\ n \in Names(l) /\ m # n /\ parts = <<m, n>> /\ start \in Int
  BY <1>1, MergeSettingIs
<1>3. PICK c0, f, k, B : /\ c0 = Coeff(g, n) /\ f = MergeForm(g, m, n, name, c0) /\ k = c0 * (start - Origin2(l, m, n))
                         /\ B = Others(g, m, n)
  OBVIOUS
<1>4. /\ Untouched(g, m, n) => MergeGuard(g, l, parts, name, start) = g
      /\ ~Untouched(g, m, n) => MergeGuard(g, l, parts, name, start) = Guard(f, g.lo + k, g.hi + k)
      /\ c0 \in Int /\ Weighted(g, l, m, n, c0)
  BY <1>3, MergeGuardForm
<1>5. IsGuard(g) /\ DOMAIN g.coeffs \subseteq Names(l)
  BY DEF Mergeable
<1>6. CASE Untouched(g, m, n)
  BY <1>4, <1>5, <1>6 DEF Untouched, MergedNames
<1>7. CASE ~Untouched(g, m, n)
  <2>1. IsMerged(MergeForm(g, m, n, name, c0), g, B, name, c0)
    BY <1>2, <1>3, <1>4, MergeFormIs
  <2>2. IsForm(f) /\ DOMAIN f \subseteq MergedNames(l, m, n, name)
    BY <1>3, <1>5, <2>1 DEF IsMerged, Others, MergedNames
  <2>3. k \in Int
    <3>1. Origin2(l, m, n) \in Int
      BY <1>2, OriginIs
    <3>2. start - Origin2(l, m, n) \in Int
      BY <1>2, <3>1
    <3>3. QED
      BY <1>3, <1>4, <3>2, IntTimes
  <2>4. g.lo + k \in Int /\ g.hi + k \in Int
    BY <1>5, <2>3 DEF IsGuard
  <2>5. IsGuard(Guard(f, g.lo + k, g.hi + k)) /\ DOMAIN Guard(f, g.lo + k, g.hi + k).coeffs \subseteq DOMAIN f
    BY <2>2, <2>4, GuardIs
  <2>6. QED
    BY <1>4, <1>7, <2>2, <2>5
<1>8. QED
  BY <1>6, <1>7

\* It holds at a merged point exactly when the guard held at its digits.
LEMMA MergeGuardHolds ==
  ASSUME NEW v, NEW m, NEW n, NEW parts, NEW name, NEW start, NEW d, NEW delta, NEW l, NEW r, NEW g,
         Mergeable(v, m, n, parts, name, start, d, delta, l, r, g),
         NEW c \in Domain(r), NEW p, MergeStep(l, m, n, name, start, c, p)
  PROVE  Holds(MergeGuard(g, l, parts, name, start), c) <=> Holds(g, p)
<1>1. MergeSetting(v, m, n, parts, name, start, d, delta, l, r)
  BY DEF Mergeable
<1>2. /\ Unused(l, m, n, name) /\ IsLayout(l) /\ m \in Names(l) /\ n \in Names(l) /\ m # n /\ parts = <<m, n>> /\ start \in Int
  BY <1>1, MergeSettingIs
<1>3. PICK c0, w0 : c0 = Coeff(g, n) /\ w0 = Origin2(l, m, n)
  OBVIOUS
<1>4. /\ Untouched(g, m, n) => MergeGuard(g, l, parts, name, start) = g
      /\ ~Untouched(g, m, n) =>
           MergeGuard(g, l, parts, name, start)
             = Guard(MergeForm(g, m, n, name, c0), g.lo + c0 * (start - w0), g.hi + c0 * (start - w0))
      /\ c0 \in Int /\ Weighted(g, l, m, n, c0)
  BY <1>3, MergeGuardForm
<1>5. /\ IsPoint(l, p) /\ c[name] \in Int
      /\ Size(l.dims[n]) * p[m] + p[n] = w0 + (c[name] - start)
  BY <1>1, <1>3, MergeDigits DEF Origin2
<1>6. \A i \in Names(l) \ {m, n} : p[i] = c[i]
  BY DEF MergeStep
<1>7. w0 \in Int
  BY <1>2, <1>3, OriginIs
<1>8. CASE Untouched(g, m, n)
  <2>1. \A i \in DOMAIN g.coeffs : p[i] = c[i]
    BY <1>6, <1>8 DEF Untouched, Mergeable
  <2>2. Times(g.coeffs, c, DOMAIN g.coeffs) = Times(g.coeffs, p, DOMAIN g.coeffs)
    BY <2>1 DEF Times
  <2>3. Value(g, c) = Value(g, p)
    BY <2>2, ValueIs
  <2>4. QED
    BY <1>4, <1>8, <2>3 DEF Holds
<1>9. CASE ~Untouched(g, m, n)
  <2>1. Holds(Guard(MergeForm(g, m, n, name, c0), g.lo + c0 * (start - w0), g.hi + c0 * (start - w0)), c) <=> Holds(g, p)
    BY <1>2, <1>4, <1>5, <1>6, <1>7, MergeFormHolds
  <2>2. QED
    BY <1>4, <1>9, <2>1
<1>10. QED
  BY <1>8, <1>9

\* merge leaves each datum where its digits say.
LEMMA MergeLands ==
  ASSUME NEW v, NEW m, NEW n, NEW parts, NEW name, Merged(v, m, n, parts, name), NEW start \in Int
  PROVE  /\ IsView(GMerge(v, parts, name, start))
         /\ \A c \in Domain(GMerge(v, parts, name, start).base) :
              \A p : MergeStep(v.base, m, n, name, start, c, p) => Lands(GMerge(v, parts, name, start), v, c, p)
<1>1. PICK d, delta : IsMerge(v, m, n, parts, name, start, d, delta)
  BY MergeIs
<1>2. PICK l, r, gs, hs, w : /\ l = v.base /\ r = MergePut(l, m, n, name, d, delta)
                             /\ gs = v.guards /\ hs = [j \in DOMAIN gs |-> MergeGuard(gs[j], l, parts, name, start)]
                             /\ w = View(v, r, hs)
  OBVIOUS
<1>3. MergeSetting(v, m, n, parts, name, start, d, delta, l, r)
  BY <1>1, <1>2 DEF MergeSetting
<1>4. w = GMerge(v, parts, name, start)
  BY <1>1, <1>2 DEF GMerge, IsMerge
<1>5. MergedLayout(l, r, m, n, name, d)
  BY <1>3, MergePutIs
<1>6. IsLayout(r) /\ Names(r) = MergedNames(l, m, n, name)
  BY <1>5 DEF MergedLayout
<1>7. IsView(v) /\ IsGuards(gs) /\ On(gs, Names(l)) /\ \A j \in DOMAIN gs : Weighs(gs[j], l, parts)
  BY <1>2 DEF Merged, IsView, CanGMerge
<1>8. \A j \in DOMAIN gs : Mergeable(v, m, n, parts, name, start, d, delta, l, r, gs[j])
  BY <1>3, <1>7 DEF Mergeable, IsGuards, On
<1>9. \A j \in DOMAIN gs : IsGuard(hs[j]) /\ DOMAIN hs[j].coeffs \subseteq Names(r)
  <2>1. ASSUME NEW j \in DOMAIN gs PROVE IsGuard(hs[j]) /\ DOMAIN hs[j].coeffs \subseteq Names(r)
    <3>1. PICK g : g = gs[j] /\ Mergeable(v, m, n, parts, name, start, d, delta, l, r, g)
      BY <1>8
    <3>2. IsGuard(MergeGuard(g, l, parts, name, start))
          /\ DOMAIN MergeGuard(g, l, parts, name, start).coeffs \subseteq MergedNames(l, m, n, name)
      BY <3>1, MergeGuardIs
    <3>3. QED
      BY <1>2, <1>6, <3>1, <3>2
  <2>2. QED
    BY <2>1
<1>10. IsGuards(hs)
  <2>1. gs \in Seq({gs[j] : j \in DOMAIN gs})
    BY <1>7 DEF IsGuards
  <2>2. PICK N \in Nat : DOMAIN gs = 1 .. N
    BY <2>1
  <2>3. hs \in Seq({hs[j] : j \in DOMAIN hs})
    <3>1. PICK R : R = {hs[j] : j \in DOMAIN hs}
      OBVIOUS
    <3>2. DOMAIN hs = 1 .. N /\ hs \in [1 .. N -> R]
      BY <1>2, <2>2, <3>1
    <3>3. QED
      BY <3>1, <3>2
  <2>4. DOMAIN hs = DOMAIN gs
    BY <1>2
  <2>5. QED
    BY <1>9, <2>3, <2>4 DEF IsGuards
<1>11. w.base = r /\ w.guards = hs /\ w.size = v.size /\ {"base", "guards", "size"} \subseteq DOMAIN w
  BY <1>2, <1>7, ViewIs
<1>12. DOMAIN hs = DOMAIN gs
  BY <1>2
<1>13. IsView(w)
  BY <1>6, <1>7, <1>9, <1>10, <1>11, <1>12 DEF IsView, On
<1>14. ASSUME NEW c \in Domain(r), NEW p, MergeStep(l, m, n, name, start, c, p) PROVE Lands(w, v, c, p)
  <2>1. InRange(l, p)
    BY <1>3, <1>14, MergeDigits
  <2>2. GetLoc(r, c) = GetLoc(l, p)
    BY <1>3, <1>14, MergeMoves
  <2>3. \A j \in DOMAIN gs : Holds(hs[j], c) <=> Holds(gs[j], p)
    <3>1. ASSUME NEW j \in DOMAIN gs PROVE Holds(hs[j], c) <=> Holds(gs[j], p)
      <4>1. PICK g : g = gs[j] /\ Mergeable(v, m, n, parts, name, start, d, delta, l, r, g)
        BY <1>8
      <4>2. Holds(MergeGuard(g, l, parts, name, start), c) <=> Holds(g, p)
        BY <1>14, <4>1, MergeGuardHolds
      <4>3. QED
        BY <1>2, <4>1, <4>2
    <3>2. QED
      BY <3>1
  <2>4. Resolve(w, c) = Resolve(v, p)
    BY <1>2, <1>11, <1>12, <2>2, <2>3 DEF Resolve
  <2>5. QED
    BY <1>2, <2>1, <2>4 DEF Lands, SameAt
<1>15. QED
  BY <1>2, <1>4, <1>11, <1>13, <1>14

-----------------------------------------------------------------------------
(* DIAGONALS of two dims                                                    *)

\* The greatest and the least of two numbers, as folds that start with one.
Greatest(f, base, S) == FoldSet(LAMBDA n, m : Most(f[n].start, m), base, S)
Smallest(f, base, S) == FoldSet(LAMBDA n, m : Least(f[n].stop, m), base, S)
ItsStart(f, base, x, s) == IF x \in s THEN f[x].start ELSE base
ItsStop(f, base, x, s) == IF x \in s THEN f[x].stop ELSE base
GreatStep(F, f, base, s) == IF s = {} THEN base ELSE Most(f[Pick(s)].start, F[s \ {Pick(s)}])
SmallStep(F, f, base, s) == IF s = {} THEN base ELSE Least(f[Pick(s)].stop, F[s \ {Pick(s)}])
TwoStarts(S, x, y, f, base) ==
  x # y /\ S = {x, y} /\ f[x].start \in Int /\ f[y].start \in Int /\ base \in {f[x].start, f[y].start}
TwoStops(S, x, y, f, base) ==
  x # y /\ S = {x, y} /\ f[x].stop \in Int /\ f[y].stop \in Int /\ base \in {f[x].stop, f[y].stop}
GreatOf(f, base, x, y, s) == Most(ItsStart(f, base, x, s), Most(ItsStart(f, base, y, s), base))
SmallOf(f, base, x, y, s) == Least(ItsStop(f, base, x, s), Least(ItsStop(f, base, y, s), base))

\* Taking one dim out of the greatest of two starts.
LEMMA GreatGrows ==
  ASSUME NEW S, NEW x, NEW y, NEW f, NEW base, TwoStarts(S, x, y, f, base), NEW s \in SUBSET S, NEW z \in s
  PROVE  GreatOf(f, base, x, y, s) = Most(f[z].start, GreatOf(f, base, x, y, s \ {z}))
<1>1. x # y /\ S = {x, y} /\ f[x].start \in Int /\ f[y].start \in Int /\ base \in Int
  BY DEF TwoStarts
<1>2. PICK t : t = s \ {z}
  OBVIOUS
<1>3. CASE z = x
  <2>1. ItsStart(f, base, x, s) = f[x].start /\ ItsStart(f, base, x, t) = base /\ ItsStart(f, base, y, t) = ItsStart(f, base, y, s)
    BY <1>1, <1>2, <1>3 DEF ItsStart
  <2>2. ItsStart(f, base, y, s) \in Int
    BY <1>1 DEF ItsStart
  <2>3. QED
    BY <1>1, <1>2, <1>3, <2>1, <2>2 DEF GreatOf, Most
<1>4. CASE z = y
  <2>1. ItsStart(f, base, y, s) = f[y].start /\ ItsStart(f, base, y, t) = base /\ ItsStart(f, base, x, t) = ItsStart(f, base, x, s)
    BY <1>1, <1>2, <1>4 DEF ItsStart
  <2>2. ItsStart(f, base, x, s) \in Int
    BY <1>1 DEF ItsStart
  <2>3. QED
    BY <1>1, <1>2, <1>4, <2>1, <2>2 DEF GreatOf, Most
<1>5. QED
  BY <1>1, <1>3, <1>4

\* Taking one dim out of the least of two stops.
LEMMA SmallGrows ==
  ASSUME NEW S, NEW x, NEW y, NEW f, NEW base, TwoStops(S, x, y, f, base), NEW s \in SUBSET S, NEW z \in s
  PROVE  SmallOf(f, base, x, y, s) = Least(f[z].stop, SmallOf(f, base, x, y, s \ {z}))
<1>1. x # y /\ S = {x, y} /\ f[x].stop \in Int /\ f[y].stop \in Int /\ base \in Int
  BY DEF TwoStops
<1>2. PICK t : t = s \ {z}
  OBVIOUS
<1>3. CASE z = x
  <2>1. ItsStop(f, base, x, s) = f[x].stop /\ ItsStop(f, base, x, t) = base /\ ItsStop(f, base, y, t) = ItsStop(f, base, y, s)
    BY <1>1, <1>2, <1>3 DEF ItsStop
  <2>2. ItsStop(f, base, y, s) \in Int
    BY <1>1 DEF ItsStop
  <2>3. QED
    BY <1>1, <1>2, <1>3, <2>1, <2>2 DEF SmallOf, Least
<1>4. CASE z = y
  <2>1. ItsStop(f, base, y, s) = f[y].stop /\ ItsStop(f, base, y, t) = base /\ ItsStop(f, base, x, t) = ItsStop(f, base, x, s)
    BY <1>1, <1>2, <1>4 DEF ItsStop
  <2>2. ItsStop(f, base, x, s) \in Int
    BY <1>1 DEF ItsStop
  <2>3. QED
    BY <1>1, <1>2, <1>4, <2>1, <2>2 DEF SmallOf, Least
<1>5. QED
  BY <1>1, <1>3, <1>4

\* The start of a diagonal: the greatest of the parts'.
LEMMA GreatestIs ==
  ASSUME NEW S, NEW x, NEW y, NEW f, NEW base, TwoStarts(S, x, y, f, base)
  PROVE  Greatest(f, base, S) \in Int /\ Greatest(f, base, S) >= f[x].start /\ Greatest(f, base, S) >= f[y].start
         /\ Greatest(f, base, S) \in {f[x].start, f[y].start}
<1>1. x # y /\ S = {x, y} /\ f[x].start \in Int /\ f[y].start \in Int /\ base \in Int /\ base \in {f[x].start, f[y].start}
  BY DEF TwoStarts
<1>2. IsFiniteSet(S)
  <2>1. PICK T : T = {x}
    OBVIOUS
  <2>2. IsFiniteSet(T)
    BY <2>1, FS_Singleton
  <2>3. IsFiniteSet(T \cup {y}) /\ S = T \cup {y}
    BY <1>1, <2>1, <2>2, FS_AddElement
  <2>4. QED
    BY <2>3
<1>. DEFINE Eq(F) == F = [s \in SUBSET S |-> IF s = {} THEN base ELSE Most(f[Pick(s)].start, F[s \ {Pick(s)}])]
            Iter == CHOOSE F : Eq(F)
            G == [s \in SUBSET S |-> GreatOf(f, base, x, y, s)]
<1>3. ASSUME NEW s \in SUBSET S PROVE G[s] = GreatStep(G, f, base, s)
  <2>1. CASE s = {}
    BY <1>1, <2>1 DEF GreatOf, ItsStart, Most, GreatStep
  <2>2. CASE s # {}
    <3>1. PICK z : z = Pick(s)
      OBVIOUS
    <3>2. z \in s
      BY <2>2, <3>1, Picked
    <3>3. GreatOf(f, base, x, y, s) = Most(f[z].start, GreatOf(f, base, x, y, s \ {z}))
      BY <3>2, GreatGrows
    <3>4. G[s] = GreatOf(f, base, x, y, s) /\ G[s \ {z}] = GreatOf(f, base, x, y, s \ {z})
      OBVIOUS
    <3>. HIDE DEF G
    <3>5. QED
      BY <2>2, <3>1, <3>3, <3>4 DEF GreatStep
  <2>3. QED
    BY <2>1, <2>2
<1>4. Eq(G)
  <2>1. G = [s \in SUBSET S |-> G[s]]
    OBVIOUS
  <2>. HIDE DEF G
  <2>2. QED
    BY <1>3, <2>1 DEF GreatStep
<1>5. Eq(Iter)
  <2>. HIDE DEF G, Eq
  <2>. QED
    BY <1>4
<1>6. \A s \in SUBSET S : Iter[s] = GreatStep(Iter, f, base, s)
  <2>. HIDE DEF Iter
  <2>. QED
    BY <1>5 DEF GreatStep
<1>. HIDE DEF Iter, Eq
<1>7. Greatest(f, base, S) = Iter[S]
  BY <1>1 DEF Greatest, FoldSet, MapThenFoldSet, Pick, Iter, Eq
<1>8. PICK F, H : F = Iter /\ H = G
  OBVIOUS
<1>9. H[S] = GreatOf(f, base, x, y, S)
  BY <1>8
<1>10. SameSteps(F, H, S)
  <2>. HIDE DEF G
  <2>1. \A s \in SUBSET S : F[s] = GreatStep(F, f, base, s) /\ H[s] = GreatStep(H, f, base, s)
    BY <1>3, <1>6, <1>8
  <2>2. QED
    BY <2>1 DEF SameSteps, GreatStep
<1>. HIDE DEF G
<1>11. F[S] = H[S]
  BY <1>2, <1>10, FoldsAgree
<1>12. Greatest(f, base, S) = GreatOf(f, base, x, y, S)
  BY <1>7, <1>8, <1>9, <1>11
<1>13. ItsStart(f, base, x, S) = f[x].start /\ ItsStart(f, base, y, S) = f[y].start
  BY <1>1 DEF ItsStart
<1>14. PICK u, w, h : u = f[x].start /\ w = f[y].start /\ h = Greatest(f, base, S)
  OBVIOUS
<1>15. u \in Int /\ w \in Int /\ (base = u \/ base = w) /\ h = Most(u, Most(w, base))
  BY <1>1, <1>12, <1>13, <1>14 DEF GreatOf
<1>16. h \in Int /\ h >= u /\ h >= w /\ (h = u \/ h = w)
  BY <1>15 DEF Most
<1>17. QED
  BY <1>14, <1>16

\* The stop of a diagonal: the least of the parts'.
LEMMA SmallestIs ==
  ASSUME NEW S, NEW x, NEW y, NEW f, NEW base, TwoStops(S, x, y, f, base)
  PROVE  Smallest(f, base, S) \in Int /\ Smallest(f, base, S) <= f[x].stop /\ Smallest(f, base, S) <= f[y].stop
         /\ Smallest(f, base, S) \in {f[x].stop, f[y].stop}
<1>1. x # y /\ S = {x, y} /\ f[x].stop \in Int /\ f[y].stop \in Int /\ base \in Int /\ base \in {f[x].stop, f[y].stop}
  BY DEF TwoStops
<1>2. IsFiniteSet(S)
  <2>1. PICK T : T = {x}
    OBVIOUS
  <2>2. IsFiniteSet(T)
    BY <2>1, FS_Singleton
  <2>3. IsFiniteSet(T \cup {y}) /\ S = T \cup {y}
    BY <1>1, <2>1, <2>2, FS_AddElement
  <2>4. QED
    BY <2>3
<1>. DEFINE Eq(F) == F = [s \in SUBSET S |-> IF s = {} THEN base ELSE Least(f[Pick(s)].stop, F[s \ {Pick(s)}])]
            Iter == CHOOSE F : Eq(F)
            G == [s \in SUBSET S |-> SmallOf(f, base, x, y, s)]
<1>3. ASSUME NEW s \in SUBSET S PROVE G[s] = SmallStep(G, f, base, s)
  <2>1. CASE s = {}
    BY <1>1, <2>1 DEF SmallOf, ItsStop, Least, SmallStep
  <2>2. CASE s # {}
    <3>1. PICK z : z = Pick(s)
      OBVIOUS
    <3>2. z \in s
      BY <2>2, <3>1, Picked
    <3>3. SmallOf(f, base, x, y, s) = Least(f[z].stop, SmallOf(f, base, x, y, s \ {z}))
      BY <3>2, SmallGrows
    <3>4. G[s] = SmallOf(f, base, x, y, s) /\ G[s \ {z}] = SmallOf(f, base, x, y, s \ {z})
      OBVIOUS
    <3>. HIDE DEF G
    <3>5. QED
      BY <2>2, <3>1, <3>3, <3>4 DEF SmallStep
  <2>3. QED
    BY <2>1, <2>2
<1>4. Eq(G)
  <2>1. G = [s \in SUBSET S |-> G[s]]
    OBVIOUS
  <2>. HIDE DEF G
  <2>2. QED
    BY <1>3, <2>1 DEF SmallStep
<1>5. Eq(Iter)
  <2>. HIDE DEF G, Eq
  <2>. QED
    BY <1>4
<1>6. \A s \in SUBSET S : Iter[s] = SmallStep(Iter, f, base, s)
  <2>. HIDE DEF Iter
  <2>. QED
    BY <1>5 DEF SmallStep
<1>. HIDE DEF Iter, Eq
<1>7. Smallest(f, base, S) = Iter[S]
  BY <1>1 DEF Smallest, FoldSet, MapThenFoldSet, Pick, Iter, Eq
<1>8. PICK F, H : F = Iter /\ H = G
  OBVIOUS
<1>9. H[S] = SmallOf(f, base, x, y, S)
  BY <1>8
<1>10. SameSteps(F, H, S)
  <2>. HIDE DEF G
  <2>1. \A s \in SUBSET S : F[s] = SmallStep(F, f, base, s) /\ H[s] = SmallStep(H, f, base, s)
    BY <1>3, <1>6, <1>8
  <2>2. QED
    BY <2>1 DEF SameSteps, SmallStep
<1>. HIDE DEF G
<1>11. F[S] = H[S]
  BY <1>2, <1>10, FoldsAgree
<1>12. Smallest(f, base, S) = SmallOf(f, base, x, y, S)
  BY <1>7, <1>8, <1>9, <1>11
<1>13. ItsStop(f, base, x, S) = f[x].stop /\ ItsStop(f, base, y, S) = f[y].stop
  BY <1>1 DEF ItsStop
<1>14. PICK u, w, h : u = f[x].stop /\ w = f[y].stop /\ h = Smallest(f, base, S)
  OBVIOUS
<1>15. u \in Int /\ w \in Int /\ (base = u \/ base = w) /\ h = Least(u, Least(w, base))
  BY <1>1, <1>12, <1>13, <1>14 DEF SmallOf
<1>16. h \in Int /\ h <= u /\ h <= w /\ (h = u \/ h = w)
  BY <1>15 DEF Least
<1>17. QED
  BY <1>14, <1>16

Diagonals(v, parts, x, y, name) ==
  /\ IsView(v) /\ x \in Names(v.base) /\ y \in Names(v.base) /\ x # y /\ parts = {x, y}
  /\ CanDiagonal(v.base, parts, name)
\* The common coordinate of the parts.
DiagonalStep(l, parts, name, c, p) ==
  (\A i \in parts : p[i] = c[name]) /\ \A i \in Names(l) \ parts : p[i] = c[i]
DiagonalPut(l, parts, name, d) == Put(l, parts, Single(name, d), 0)
IsDiagonal(l, parts, x, y, name, d) ==
  /\ IsDim(d) /\ d.stride = l.dims[x].stride + l.dims[y].stride
  /\ d.start >= l.dims[x].start /\ d.start >= l.dims[y].start
  /\ d.stop <= d.start \/ (d.stop <= l.dims[x].stop /\ d.stop <= l.dims[y].stop)
  /\ Diagonal(l, parts, name) = DiagonalPut(l, parts, name, d)

\* diagonal puts one dim in place of two, its stride their sum, its bounds inside both.
LEMMA DiagonalIs ==
  ASSUME NEW v, NEW parts, NEW x, NEW y, NEW name, Diagonals(v, parts, x, y, name)
  PROVE  \E d : IsDiagonal(v.base, parts, x, y, name, d)
<1>1. PICK l, h, e, start, stop, d :
        /\ l = v.base
        /\ h = [n \in parts |-> l.dims[n].stride] /\ e = (CHOOSE n \in parts : TRUE)
        /\ start = Greatest(l.dims, l.dims[e].start, parts)
        /\ stop = Smallest(l.dims, l.dims[e].stop, parts)
        /\ d = Dim(SumFunction(h), start, Most(start, stop), DiagonalChart(l, parts), None)
  OBVIOUS
<1>2. IsLayout(l) /\ x \in Names(l) /\ y \in Names(l) /\ x # y /\ parts = {x, y}
  BY <1>1 DEF Diagonals, IsView
<1>3. IsDim(l.dims[x]) /\ IsDim(l.dims[y])
  BY <1>2 DEF IsLayout
<1>4. e \in {x, y}
  BY <1>1, <1>2
<1>5. TwoStarts(parts, x, y, l.dims, l.dims[e].start) /\ TwoStops(parts, x, y, l.dims, l.dims[e].stop)
  BY <1>2, <1>3, <1>4 DEF TwoStarts, TwoStops, IsDim
<1>6. start \in Int /\ start >= l.dims[x].start /\ start >= l.dims[y].start
  BY <1>1, <1>5, GreatestIs
<1>7. stop \in Int /\ stop <= l.dims[x].stop /\ stop <= l.dims[y].stop
  BY <1>1, <1>5, SmallestIs
<1>8. h \in [{x, y} -> Int] /\ h[x] = l.dims[x].stride /\ h[y] = l.dims[y].stride
  BY <1>1, <1>2, <1>3 DEF IsDim
<1>9. SumFunction(h) = h[x] + h[y]
  BY <1>2, <1>8, SumTwo
<1>10. /\ d.stride = l.dims[x].stride + l.dims[y].stride /\ d.start = start /\ d.stop = Most(start, stop)
       /\ Fields \subseteq DOMAIN d
  BY <1>1, <1>8, <1>9 DEF Dim, Fields
<1>11. IsDim(d)
  BY <1>3, <1>6, <1>7, <1>10 DEF IsDim, Most
<1>12. d.stop <= d.start \/ (d.stop <= l.dims[x].stop /\ d.stop <= l.dims[y].stop)
  BY <1>3, <1>6, <1>7, <1>10 DEF IsDim, Most
<1>13. Diagonal(l, parts, name) = DiagonalPut(l, parts, name, d)
  <2>1. SumFunction(h) = Sigma(LAMBDA n : l.dims[n].stride, parts)
    BY <1>1 DEF Sigma
  <2>2. /\ start = FoldSet(LAMBDA n, m : Most(l.dims[n].start, m), l.dims[CHOOSE n \in parts : TRUE].start, parts)
        /\ stop = FoldSet(LAMBDA n, m : Least(l.dims[n].stop, m), l.dims[CHOOSE n \in parts : TRUE].stop, parts)
    BY <1>1 DEF Greatest, Smallest
  <2>3. QED
    BY <1>1, <2>1, <2>2 DEF Diagonal, DiagonalPut
<1>14. IsDiagonal(l, parts, x, y, name, d)
  BY <1>6, <1>10, <1>11, <1>12, <1>13 DEF IsDiagonal
<1>15. QED
  BY <1>1, <1>14

\* The substitution of a diagonal.
DiagonalForms(parts, name) == [n \in parts |-> Single(name, 1)]
Zeros(parts) == [n \in parts |-> 0]

\* diagonal leaves each datum at its common coordinate.
LEMMA DiagonalLands ==
  ASSUME NEW v, NEW parts, NEW x, NEW y, NEW name, Diagonals(v, parts, x, y, name)
  PROVE  /\ IsView(GDiagonal(v, parts, name))
         /\ \A c \in Domain(GDiagonal(v, parts, name).base) :
              \A p : DiagonalStep(v.base, parts, name, c, p) => Lands(GDiagonal(v, parts, name), v, c, p)
<1>1. PICK d : IsDiagonal(v.base, parts, x, y, name, d)
  BY DiagonalIs
<1>2. PICK l, r, forms, consts, new, w :
        /\ l = v.base /\ r = DiagonalPut(l, parts, name, d) /\ forms = DiagonalForms(parts, name) /\ consts = Zeros(parts)
        /\ new = Single(name, d) /\ w = View(v, r, EachGuard(v, forms, consts))
  OBVIOUS
<1>3. w = GDiagonal(v, parts, name)
  BY <1>1, <1>2 DEF GDiagonal, IsDiagonal, DiagonalForms, Zeros
<1>4. /\ IsView(v) /\ IsLayout(l) /\ x \in Names(l) /\ y \in Names(l) /\ x # y /\ parts = {x, y}
      /\ name \notin Names(l) \ parts
  BY <1>2 DEF Diagonals, IsView, CanDiagonal
<1>5. IsDim(d) /\ d.stride = l.dims[x].stride + l.dims[y].stride
      /\ d.start >= l.dims[x].start /\ d.start >= l.dims[y].start
      /\ (d.stop <= d.start \/ (d.stop <= l.dims[x].stop /\ d.stop <= l.dims[y].stop))
  BY <1>1, <1>2 DEF IsDiagonal
<1>6. DOMAIN new = {name} /\ new[name] = d
  BY <1>2 DEF Single
<1>7. Joins(new, l, parts)
  BY <1>4, <1>5, <1>6, FS_Singleton DEF Joins
<1>8. r = Put(l, parts, new, 0)
  BY <1>2 DEF DiagonalPut
<1>9. 0 \in Int
  OBVIOUS
<1>10. /\ IsLayout(Put(l, parts, new, 0)) /\ Names(Put(l, parts, new, 0)) = (Names(l) \ parts) \cup DOMAIN new
       /\ \A m \in DOMAIN new : Put(l, parts, new, 0).dims[m] = new[m]
       /\ \A m \in Names(l) \ parts : Put(l, parts, new, 0).dims[m] = l.dims[m]
  <2>1. IsLayout(l)
    BY <1>4
  <2>2. QED
    BY <1>7, <1>9, <2>1, PutIs
<1>11. IsLayout(r) /\ Names(r) = (Names(l) \ parts) \cup {name} /\ r.dims[name] = d /\ \A m \in Names(l) \ parts : r.dims[m] = l.dims[m]
  BY <1>6, <1>8, <1>10
<1>12. DOMAIN forms = parts /\ DOMAIN consts = parts /\ \A n \in parts : forms[n] = Single(name, 1) /\ consts[n] = 0
  BY <1>2 DEF DiagonalForms, Zeros
<1>13. \A n \in parts : DOMAIN forms[n] = {name} /\ forms[n][name] = 1
  BY <1>12 DEF Single
<1>14. IsSubstitution(forms, consts)
  <2>1. IsFiniteSet({name})
    BY FS_Singleton
  <2>2. QED
    BY <1>12, <1>13, <2>1 DEF IsSubstitution, IsForm
<1>15. Renamed(l, forms) \subseteq Names(r)
  BY <1>11, <1>12, <1>13 DEF Renamed
<1>16. Substituted(v, forms, consts, r)
  BY <1>2, <1>4, <1>11, <1>14, <1>15 DEF Substituted
<1>17. IsView(w) /\ w.base = r
  BY <1>2, <1>16, SubstitutedView
<1>18. ASSUME NEW c \in Domain(r), NEW p, DiagonalStep(l, parts, name, c, p) PROVE Lands(w, v, c, p)
  <2>1. IsPoint(r, c) /\ \A n \in Names(r) : c[n] \in r.dims[n].start .. r.dims[n].stop - 1
    BY <1>11, InDomain
  <2>2. c[name] \in Int /\ c[name] \in d.start .. d.stop - 1
    BY <1>11, <2>1 DEF IsPoint
  <2>3. (\A i \in parts : p[i] = c[name]) /\ \A i \in Names(l) \ parts : p[i] = c[i]
    BY <1>18 DEF DiagonalStep
  <2>4. \A i \in Names(l) : p[i] \in l.dims[i].start .. l.dims[i].stop - 1
    <3>1. \A i \in {x, y} : IsDim(l.dims[i])
      BY <1>4 DEF IsLayout
    <3>2. \A i \in {x, y} : p[i] \in l.dims[i].start .. l.dims[i].stop - 1
      BY <1>4, <1>5, <2>2, <2>3, <3>1 DEF IsDim
    <3>3. ASSUME NEW i \in Names(l) \ parts PROVE p[i] \in l.dims[i].start .. l.dims[i].stop - 1
      BY <1>11, <2>1, <2>3, <3>3
    <3>4. QED
      BY <1>4, <3>2, <3>3
  <2>5. IsPoint(l, p)
    BY <1>4, <2>4 DEF IsPoint, IsLayout, IsDim
  <2>6. PICK f, g, z, s, t : /\ f = [i \in DOMAIN new |-> new[i].stride * c[i]] /\ g = [i \in parts |-> l.dims[i].stride * p[i]]
                             /\ z = c[name] /\ s = l.dims[x].stride /\ t = l.dims[y].stride
    OBVIOUS
  <2>7. z \in Int /\ s \in Int /\ t \in Int
    BY <1>4, <2>2, <2>6 DEF IsLayout, IsDim
  <2>8. f \in [{name} -> Int] /\ f[name] = (s + t) * z
    <3>1. (s + t) * z \in Int
      BY <2>7
    <3>2. QED
      BY <1>5, <1>6, <2>6, <3>1
  <2>9. g \in [{x, y} -> Int] /\ g[x] = s * z /\ g[y] = t * z
    <3>1. s * z \in Int /\ t * z \in Int
      BY <2>7
    <3>2. QED
      BY <1>4, <2>3, <2>6, <3>1
  <2>10. SumFunction(f) = (s + t) * z
    BY <2>8, SumOne
  <2>11. SumFunction(g) = s * z + t * z
    BY <1>4, <2>9, SumTwo
  <2>12. SumFunction(f) + 0 = SumFunction(g)
    BY <2>7, <2>10, <2>11
  <2>13. SumFunction([i \in DOMAIN new |-> new[i].stride * c[i]]) + 0 = SumFunction([i \in parts |-> l.dims[i].stride * p[i]])
    BY <2>6, <2>12
  <2>14. IsPoint(Put(l, parts, new, 0), c)
    BY <1>8, <2>1
  <2>15. GetLoc(Put(l, parts, new, 0), c) = GetLoc(l, p)
    <3>1. IsLayout(l)
      BY <1>4
    <3>2. \A m \in Names(l) \ parts : p[m] = c[m]
      BY <2>3
    <3>3. QED
      BY <1>7, <1>9, <2>5, <2>13, <2>14, <3>1, <3>2, PutMoves
  <2>16. Stands(Names(l), forms, consts, c, p)
    <3>1. ASSUME NEW n \in parts
          PROVE  (\A m \in DOMAIN forms[n] : c[m] \in Int) /\ p[n] = SumFunction(Times(forms[n], c, DOMAIN forms[n])) + consts[n]
      <4>1. PICK u : u = Times(forms[n], c, DOMAIN forms[n])
        OBVIOUS
      <4>2. u \in [{name} -> Int] /\ u[name] = 1 * c[name]
        BY <1>13, <2>2, <4>1 DEF Times
      <4>3. SumFunction(u) = 1 * c[name]
        BY <4>2, SumOne
      <4>4. 1 * c[name] + 0 = c[name]
        BY <2>2
      <4>5. QED
        BY <1>12, <1>13, <2>2, <2>3, <4>1, <4>3, <4>4
    <3>2. \A n \in Names(l) : p[n] \in Int
      BY <2>5 DEF IsPoint
    <3>3. QED
      BY <1>12, <2>3, <3>1, <3>2 DEF Stands
  <2>17. SameAt(View(v, r, EachGuard(v, forms, consts)), v, c, p)
    BY <1>2, <1>8, <1>16, <2>15, <2>16, SubstitutedStays
  <2>18. QED
    BY <1>2, <2>4, <2>17 DEF Lands, InRange
<1>19. QED
  BY <1>2, <1>3, <1>17, <1>18

-----------------------------------------------------------------------------
(* SELECTIONS: dims that are gone                                           *)

Selects(v, points) ==
  /\ IsView(v) /\ DOMAIN points \subseteq Names(v.base) /\ CanSelect(v.base, points)
  /\ \A n \in DOMAIN points : points[n] \in Int
SelectStep(l, points, c, p) ==
  (\A n \in DOMAIN points : p[n] = points[n]) /\ \A n \in Names(l) \ DOMAIN points : p[n] = c[n]

\* The labels that go to another dim change no address.
Compensated(l, points, r) ==
  /\ {"dims", "offset"} \subseteq DOMAIN r /\ Names(r) = Names(l) \ DOMAIN points /\ r.offset = l.offset
  /\ \A n \in Names(r) : Relabelled(r.dims[n], l.dims[n])

\* Dropping the dims of a select recharts the others and no more.
LEMMA CompensateIs ==
  ASSUME NEW l, IsLayout(l), NEW points
  PROVE  Compensated(l, points, CompensateAxes(l, points))
<1>1. PICK rest : rest = Drop(l.dims, DOMAIN points)
  OBVIOUS
<1>2. DOMAIN rest = Names(l) \ DOMAIN points /\ \A n \in DOMAIN rest : rest[n] = l.dims[n]
  BY <1>1 DEF Drop, Names
<1>3. PICK r : r = CompensateAxes(l, points)
  OBVIOUS
<1>4. {"dims", "offset"} \subseteq DOMAIN r /\ r.offset = l.offset /\ DOMAIN r.dims = DOMAIN rest
  BY <1>1, <1>3 DEF CompensateAxes, Sigma, IsLayout
<1>5. ASSUME NEW n \in DOMAIN rest PROVE \E a, b : r.dims[n] \in {rest[n], [rest[n] EXCEPT !.chart.origin = a, !.chart.kind = b]}
  BY <1>1, <1>3 DEF CompensateAxes, Sigma, IsLayout
<1>6. ASSUME NEW n \in DOMAIN rest PROVE Relabelled(r.dims[n], l.dims[n])
  <2>1. IsDim(rest[n]) /\ rest[n] = l.dims[n]
    BY <1>2 DEF IsLayout
  <2>2. PICK a, b : r.dims[n] \in {rest[n], [rest[n] EXCEPT !.chart.origin = a, !.chart.kind = b]}
    BY <1>5
  <2>3. QED
    BY <2>1, <2>2 DEF Relabelled, IsDim, Fields
<1>7. QED
  BY <1>2, <1>3, <1>4, <1>6 DEF Compensated, Names

\* select leaves each datum of the chosen points where it was.
LEMMA SelectLands ==
  ASSUME NEW v, NEW points, Selects(v, points)
  PROVE  /\ IsView(GSelect(v, points))
         /\ \A c \in Domain(GSelect(v, points).base) :
              \A p : SelectStep(v.base, points, c, p) => Lands(GSelect(v, points), v, c, p)
<1>1. PICK l, S, k, f, forms, r, w :
        /\ l = v.base /\ S = DOMAIN points /\ k = CompensateAxes(l, points)
        /\ f = [n \in S |-> l.dims[n].stride * points[n]]
        /\ forms = [n \in S |-> <<>>] /\ r = [k EXCEPT !.offset = @ + SumFunction(f)]
        /\ w = View(v, r, EachGuard(v, forms, points))
  OBVIOUS
<1>2. w = GSelect(v, points)
  <2>1. r = Select(l, points)
    BY <1>1 DEF Select, Sigma
  <2>2. QED
    BY <1>1, <2>1 DEF GSelect
<1>3. IsView(v) /\ IsLayout(l) /\ S \subseteq Names(l) /\ \A n \in S : points[n] \in Int /\ InDim(l.dims[n], points[n])
  BY <1>1 DEF Selects, IsView, CanSelect
<1>4. Compensated(l, points, k)
  BY <1>1, <1>3, CompensateIs
<1>5. \A n \in Names(l) : IsDim(l.dims[n])
  BY <1>3 DEF IsLayout
<1>6. IsFiniteSet(Names(l)) /\ IsFiniteSet(S) /\ IsFiniteSet(Names(l) \ S)
  BY <1>3, FS_Subset, FS_Difference DEF IsLayout
<1>7. f \in [S -> Int]
  BY <1>1, <1>3, <1>5, IntTimes DEF IsDim
<1>8. SumFunction(f) \in Int /\ l.offset \in Int
  BY <1>3, <1>6, <1>7, SumInt DEF IsLayout
<1>9. /\ {"dims", "offset"} \subseteq DOMAIN r /\ Names(r) = Names(l) \ S /\ r.offset = l.offset + SumFunction(f)
      /\ \A n \in Names(r) : Relabelled(r.dims[n], l.dims[n])
  BY <1>1, <1>4 DEF Compensated, Names
<1>10. IsLayout(r)
  BY <1>6, <1>8, <1>9 DEF IsLayout, Relabelled
<1>11. DOMAIN forms = S /\ \A n \in S : forms[n] = <<>> /\ DOMAIN forms[n] = {}
  BY <1>1
<1>12. IsSubstitution(forms, points)
  <2>1. IsFiniteSet({})
    BY FS_EmptySet
  <2>2. QED
    BY <1>3, <1>11, <2>1 DEF IsSubstitution, IsForm
<1>13. Substituted(v, forms, points, r)
  BY <1>1, <1>3, <1>9, <1>10, <1>11, <1>12 DEF Substituted, Renamed
<1>14. IsView(w) /\ w.base = r
  BY <1>1, <1>13, SubstitutedView
<1>15. ASSUME NEW c \in Domain(r), NEW p, SelectStep(l, points, c, p) PROVE Lands(w, v, c, p)
  <2>1. IsPoint(r, c) /\ \A n \in Names(r) : c[n] \in r.dims[n].start .. r.dims[n].stop - 1
    BY <1>10, InDomain
  <2>2. (\A n \in S : p[n] = points[n]) /\ \A n \in Names(l) \ S : p[n] = c[n]
    BY <1>1, <1>15 DEF SelectStep
  <2>3. \A i \in Names(l) : p[i] \in l.dims[i].start .. l.dims[i].stop - 1
    <3>1. ASSUME NEW i \in S PROVE p[i] \in l.dims[i].start .. l.dims[i].stop - 1
      BY <1>3, <1>5, <2>2 DEF InDim, IsDim
    <3>2. ASSUME NEW i \in Names(l) \ S PROVE p[i] \in l.dims[i].start .. l.dims[i].stop - 1
      <4>1. i \in Names(r) /\ Relabelled(r.dims[i], l.dims[i])
        BY <1>9
      <4>2. QED
        BY <2>1, <2>2, <4>1 DEF Relabelled
    <3>3. QED
      BY <3>1, <3>2
  <2>4. IsPoint(l, p)
    BY <1>5, <2>3 DEF IsPoint, IsDim
  <2>5. PICK a, b, T : a = Terms(l, p) /\ b = Terms(r, c) /\ T = Names(l) \ S
    OBVIOUS
  <2>6. a \in [Names(l) -> Int] /\ b \in [Names(r) -> Int]
    BY <1>3, <1>10, <2>1, <2>4, <2>5, TermsInt
  <2>7. SumFunction(a) = SumFunction(Restrict(a, S)) + SumFunction(Restrict(a, T))
    <3>1. S \in SUBSET Names(l)
      BY <1>3
    <3>2. QED
      BY <1>6, <2>5, <2>6, <3>1, SumUnion
  <2>8. Restrict(a, S) = f
    <3>1. \A n \in S : a[n] = f[n]
      BY <1>1, <1>3, <2>2, <2>5 DEF Terms
    <3>2. QED
      BY <1>7, <3>1 DEF Restrict
  <2>9. Restrict(a, T) = b
    <3>1. Names(r) = T /\ \A n \in T : r.dims[n].stride = l.dims[n].stride /\ p[n] = c[n]
      BY <1>9, <2>2, <2>5 DEF Relabelled
    <3>2. \A n \in T : a[n] = b[n]
      BY <2>5, <3>1 DEF Terms
    <3>3. QED
      BY <2>5, <2>6, <3>1, <3>2 DEF Restrict
  <2>10. SumFunction(b) \in Int
    <3>1. IsFiniteSet(Names(r))
      BY <1>10 DEF IsLayout
    <3>2. QED
      BY <2>6, <3>1, SumInt
  <2>11. GetLoc(r, c) = GetLoc(l, p)
    <3>1. GetLoc(r, c) = r.offset + SumFunction(b) /\ GetLoc(l, p) = l.offset + SumFunction(a)
      BY <2>5, LocIs
    <3>2. SumFunction(a) = SumFunction(f) + SumFunction(b)
      BY <2>7, <2>8, <2>9
    <3>3. QED
      BY <1>8, <1>9, <2>10, <3>1, <3>2
  <2>12. Stands(Names(l), forms, points, c, p)
    <3>1. ASSUME NEW n \in S
          PROVE  (\A m \in DOMAIN forms[n] : c[m] \in Int) /\ p[n] = SumFunction(Times(forms[n], c, DOMAIN forms[n])) + points[n]
      <4>1. PICK u : u = Times(forms[n], c, DOMAIN forms[n])
        OBVIOUS
      <4>2. u \in [{} -> Int]
        BY <1>11, <4>1 DEF Times
      <4>3. SumFunction(u) = 0
        BY <4>2, SumEmpty
      <4>4. QED
        BY <1>3, <1>11, <2>2, <4>1, <4>3
    <3>2. \A n \in Names(l) : p[n] \in Int
      BY <2>4 DEF IsPoint
    <3>3. QED
      BY <1>11, <2>2, <3>1, <3>2 DEF Stands
  <2>13. SameAt(View(v, r, EachGuard(v, forms, points)), v, c, p)
    BY <1>1, <1>13, <2>11, <2>12, SubstitutedStays
  <2>14. QED
    BY <1>1, <2>3, <2>13 DEF Lands, InRange
<1>16. QED
  BY <1>1, <1>2, <1>14, <1>15

-----------------------------------------------------------------------------
(* FOLDS of sequences take their elements in turn                           *)

\* Induction over the numbers up to N.
LEMMA Upto ==
  ASSUME NEW N \in Nat, NEW I, 0 \in I, \A n \in 0 .. N - 1 : n \in I => n + 1 \in I
  PROVE  \A n \in 0 .. N : n \in I
<1>. DEFINE Bad == {T \in SUBSET (1 .. N) : \E n \in 0 .. N : T = 1 .. n /\ n \notin I}
<1>1. SUFFICES ASSUME NEW n \in 0 .. N, n \notin I PROVE FALSE
  OBVIOUS
<1>2. 1 .. n \in Bad
  BY <1>1
<1>3. PICK T \in Bad : \A U \in SUBSET T : U # T => U \notin Bad
  <2>1. Bad \in SUBSET (SUBSET (1 .. N)) /\ Bad # {}
    BY <1>2
  <2>2. IsFiniteSet(1 .. N)
    BY FS_Interval
  <2>. HIDE DEF Bad
  <2>3. QED
    BY <2>1, <2>2, LeastSubset
<1>4. PICK m \in 0 .. N : T = 1 .. m /\ m \notin I
  BY <1>3
<1>5. m # 0
  BY <1>4
<1>6. m - 1 \in 0 .. N - 1 /\ m - 1 \notin I
  <2>1. m - 1 \in 0 .. N - 1 /\ (m - 1) + 1 = m
    BY <1>5
  <2>2. QED
    BY <1>4, <2>1
<1>7. 1 .. (m - 1) \in SUBSET T /\ 1 .. (m - 1) # T
  <2>1. m \in T /\ m \notin 1 .. (m - 1)
    BY <1>4, <1>5
  <2>2. 1 .. (m - 1) \in SUBSET (1 .. m)
    OBVIOUS
  <2>3. QED
    BY <1>4, <2>1, <2>2
<1>8. 1 .. (m - 1) \in Bad
  <2>1. 1 .. (m - 1) \in SUBSET (1 .. N) /\ m - 1 \in 0 .. N
    BY <1>6
  <2>2. QED
    BY <1>6, <2>1
<1>9. QED
  BY <1>3, <1>7, <1>8

\* Max of a set of numbers up to N is its greatest.
LEMMA Greatests ==
  ASSUME NEW N \in Nat
  PROVE  \A s \in SUBSET (1 .. N) : s # {} => Max(s) \in s /\ \A y \in s : Max(s) >= y
<1>. DEFINE I == {T \in SUBSET (1 .. N) : T = {} \/ \E x \in T : \A y \in T : x >= y}
<1>1. {} \in I
  OBVIOUS
<1>2. ASSUME NEW T \in SUBSET (1 .. N), NEW x \in 1 .. N, T \in I, x \notin T PROVE T \cup {x} \in I
  <2>1. T = {} \/ \E z \in T : \A y \in T : z >= y
    BY <1>2
  <2>2. CASE T = {}
    BY <2>2
  <2>3. CASE \E z \in T : \A y \in T : z >= y
    <3>1. PICK z \in T : \A y \in T : z >= y
      BY <2>3
    <3>2. CASE x >= z
      <4>1. \A y \in T \cup {x} : x >= y
        BY <3>1, <3>2
      <4>2. QED
        BY <4>1
    <3>3. CASE ~(x >= z)
      <4>1. \A y \in T \cup {x} : z >= y
        BY <3>1, <3>3
      <4>2. QED
        BY <4>1
    <3>4. QED
      BY <3>2, <3>3
  <2>4. QED
    BY <2>1, <2>2, <2>3
<1>3. IsFiniteSet(1 .. N)
  BY FS_Interval
<1>4. \A T \in SUBSET (1 .. N) : T \in I
  <2>. HIDE DEF I
  <2>. QED
    BY <1>1, <1>2, <1>3, SubsetInduction
<1>5. ASSUME NEW s \in SUBSET (1 .. N), s # {} PROVE Max(s) \in s /\ \A y \in s : Max(s) >= y
  <2>1. \E x \in s : \A y \in s : x >= y
    BY <1>4, <1>5
  <2>2. QED
    BY <2>1 DEF Max
<1>6. QED
  BY <1>5

LastOf(N) == [s \in SUBSET (1 .. N) |-> Max(s)]
\* G folds the prefixes of a sequence of length N.
FoldsPrefixes(G, N, base, step) ==
  G[1 .. 0] = base /\ \A n \in 1 .. N : G[1 .. n] = step[n][G[1 .. (n - 1)]]

\* A fold over 1 .. N that takes the greatest first, read as a fold over prefixes.
LEMMA PrefixFolds ==
  ASSUME NEW N \in Nat, NEW V, NEW base \in V, NEW step \in [1 .. N -> [V -> V]]
  PROVE  \E G : Folds(G, 1 .. N, V, base, step, LastOf(N)) /\ FoldsPrefixes(G, N, base, step)
<1>1. PICK S, pick : S = 1 .. N /\ pick = LastOf(N)
  OBVIOUS
<1>2. IsFold(S, V, base, step, pick)
  <2>1. IsFiniteSet(S)
    BY <1>1, FS_Interval
  <2>2. \A s \in SUBSET S : s # {} => pick[s] \in s
    BY <1>1, Greatests DEF LastOf
  <2>3. QED
    BY <1>1, <2>1, <2>2 DEF IsFold
<1>3. PICK G : Folds(G, S, V, base, step, pick)
  BY <1>2, FoldedAll
<1>4. \A s \in SUBSET S : G[s] = FoldStep(G, base, step, pick, s)
  BY <1>3 DEF Folds
<1>5. G[1 .. 0] = base
  <2>1. 1 .. 0 = {} /\ {} \in SUBSET S
    OBVIOUS
  <2>2. G[{}] = base
    BY <1>4, <2>1 DEF FoldStep
  <2>3. QED
    BY <2>1, <2>2
<1>6. ASSUME NEW n \in 1 .. N PROVE G[1 .. n] = step[n][G[1 .. (n - 1)]]
  <2>1. PICK s, u : s = 1 .. n /\ u = 1 .. (n - 1)
    OBVIOUS
  <2>2. s \in SUBSET S /\ n \in s /\ s # {}
    BY <1>1, <2>1
  <2>3. pick[s] = n
    <3>1. Max(s) \in s /\ Max(s) >= n
      BY <1>1, <2>2, Greatests
    <3>2. Max(s) = n
      BY <2>1, <3>1
    <3>3. QED
      BY <1>1, <2>2, <3>2 DEF LastOf
  <2>4. s \ {n} = u
    BY <2>1
  <2>5. G[s] = step[n][G[s \ {n}]]
    BY <1>4, <2>2, <2>3 DEF FoldStep
  <2>6. QED
    BY <2>1, <2>4, <2>5
<1>7. QED
  BY <1>1, <1>3, <1>5, <1>6 DEF FoldsPrefixes

-----------------------------------------------------------------------------
(* DISCHARGED GUARDS *)

\* The guards of gs that l does not make vacuous, and how to keep one more.
KeepStep(F, l, gs, n, s) == IF Vacuous(gs[n], l) THEN F[s] ELSE Append(F[s], gs[n])
Kept(l, gs, n) == {gs[j] : j \in {j \in 1 .. n : ~Vacuous(gs[j], l)}}
IsKept(ks, l, gs, n) == ks \in Seq(Kept(l, gs, n)) /\ {ks[j] : j \in DOMAIN ks} = Kept(l, gs, n)

\* Needed keeps exactly the guards that are not vacuous.
LEMMA NeededIs ==
  ASSUME NEW l, NEW gs, NEW N \in Nat, DOMAIN gs = 1 .. N
  PROVE  IsKept(Needed(l, gs), l, gs, N)
<1>1. PICK S, R, V, step, pick :
        /\ S = 1 .. N /\ R = {gs[j] : j \in S} /\ V = Seq(R) /\ pick = LastOf(N)
        /\ step = [n \in S |-> [ks \in V |-> IF Vacuous(gs[n], l) THEN ks ELSE Append(ks, gs[n])]]
  OBVIOUS
<1>2. <<>> \in V /\ step \in [S -> [V -> V]]
  BY <1>1
<1>3. PICK G : Folds(G, S, V, <<>>, step, pick) /\ FoldsPrefixes(G, N, <<>>, step)
  BY <1>1, <1>2, PrefixFolds
<1>4. \A s \in SUBSET S : s # {} => Max(s) \in s
  BY <1>1, Greatests
<1>. DEFINE Eq(F) == F = [s \in SUBSET S |-> IF s = {} THEN <<>>
                                             ELSE IF Vacuous(gs[Max(s)], l) THEN F[s \ {Max(s)}]
                                                  ELSE Append(F[s \ {Max(s)}], gs[Max(s)])]
            Iter == CHOOSE F : Eq(F)
<1>5. ASSUME NEW s \in SUBSET S
      PROVE  G[s] = IF s = {} THEN <<>> ELSE KeepStep(G, l, gs, Max(s), s \ {Max(s)})
  <2>1. G[s] = FoldStep(G, <<>>, step, pick, s) /\ pick[s] = Max(s) /\ G \in [SUBSET S -> V]
    BY <1>1, <1>3 DEF Folds, LastOf
  <2>2. CASE s = {}
    BY <2>1, <2>2 DEF FoldStep
  <2>3. CASE s # {}
    <3>1. PICK n, u : n = Max(s) /\ u = s \ {n}
      OBVIOUS
    <3>2. n \in S /\ u \in SUBSET S /\ G[u] \in V
      BY <1>4, <2>1, <2>3, <3>1
    <3>3. G[s] = step[n][G[u]]
      BY <2>1, <2>3, <3>1 DEF FoldStep
    <3>4. step[n][G[u]] = IF Vacuous(gs[n], l) THEN G[u] ELSE Append(G[u], gs[n])
      BY <1>1, <3>2
    <3>5. QED
      BY <2>3, <3>1, <3>3, <3>4 DEF KeepStep
  <2>4. QED
    BY <2>2, <2>3
<1>6. Eq(G)
  <2>1. G = [s \in SUBSET S |-> G[s]]
    BY <1>3 DEF Folds
  <2>2. QED
    BY <1>5, <2>1 DEF KeepStep
<1>7. Eq(Iter)
  <2>. HIDE DEF Eq
  <2>. QED
    BY <1>6
<1>8. \A s \in SUBSET S : Iter[s] = IF s = {} THEN <<>> ELSE KeepStep(Iter, l, gs, Max(s), s \ {Max(s)})
  <2>. HIDE DEF Iter
  <2>. QED
    BY <1>7 DEF KeepStep
<1>. HIDE DEF Iter, Eq
<1>9. Needed(l, gs) = Iter[S]
  BY <1>1 DEF Needed, FoldLeft, MapThenFoldSet, Iter, Eq
<1>10. PICK F : F = Iter
  OBVIOUS
<1>11. SameStepsBy(F, G, pick, S)
  <2>1. ASSUME NEW s \in SUBSET S
        PROVE  /\ s # {} => pick[s] \in s
               /\ (s # {} => F[s \ {pick[s]}] = G[s \ {pick[s]}]) => F[s] = G[s]
    <3>1. pick[s] = Max(s) /\ (s # {} => Max(s) \in s)
      BY <1>1, <1>4 DEF LastOf
    <3>2. /\ F[s] = IF s = {} THEN <<>> ELSE KeepStep(F, l, gs, Max(s), s \ {Max(s)})
          /\ G[s] = IF s = {} THEN <<>> ELSE KeepStep(G, l, gs, Max(s), s \ {Max(s)})
      BY <1>5, <1>8, <1>10
    <3>3. QED
      BY <3>1, <3>2 DEF KeepStep
  <2>2. QED
    BY <2>1 DEF SameStepsBy
<1>12. F[S] = G[S]
  <2>1. IsFiniteSet(S)
    BY <1>1, FS_Interval
  <2>2. QED
    BY <1>11, <2>1, FoldsAgreeBy
<1>. DEFINE I == {n \in 0 .. N : IsKept(G[1 .. n], l, gs, n)}
<1>13. 0 \in I
  <2>1. G[1 .. 0] = <<>>
    BY <1>3 DEF FoldsPrefixes
  <2>2. Kept(l, gs, 0) = {}
    BY DEF Kept
  <2>3. IsKept(<<>>, l, gs, 0)
    BY <2>2 DEF IsKept
  <2>4. QED
    BY <2>1, <2>3
<1>14. ASSUME NEW n \in 0 .. N - 1, n \in I PROVE n + 1 \in I
  <2>1. PICK m, ks : m = n + 1 /\ ks = G[1 .. n]
    OBVIOUS
  <2>2. m \in S /\ m - 1 = n /\ IsKept(ks, l, gs, n)
    BY <1>1, <1>14, <2>1
  <2>3. G[1 .. m] = step[m][ks]
    BY <1>1, <1>3, <2>1, <2>2 DEF FoldsPrefixes
  <2>4. Kept(l, gs, n) \subseteq R /\ Kept(l, gs, m) = Kept(l, gs, n) \cup (IF Vacuous(gs[m], l) THEN {} ELSE {gs[m]})
    <3>1. 1 .. m = (1 .. n) \cup {m} /\ 1 .. n \subseteq S
      BY <1>1, <2>1
    <3>2. QED
      BY <1>1, <3>1 DEF Kept
  <2>5. ks \in V
    <3>1. ks \in Seq(Kept(l, gs, n))
      BY <2>2 DEF IsKept
    <3>2. QED
      BY <1>1, <2>4, <3>1
  <2>6. step[m][ks] = IF Vacuous(gs[m], l) THEN ks ELSE Append(ks, gs[m])
    BY <1>1, <2>2, <2>5
  <2>7. CASE Vacuous(gs[m], l)
    <3>1. Kept(l, gs, m) = Kept(l, gs, n)
      BY <2>4, <2>7
    <3>2. IsKept(G[1 .. m], l, gs, m)
      BY <2>2, <2>3, <2>6, <2>7, <3>1 DEF IsKept
    <3>3. QED
      BY <1>1, <2>1, <2>2, <3>2
  <2>8. CASE ~Vacuous(gs[m], l)
    <3>1. PICK A, B, g, hs : A = Kept(l, gs, n) /\ B = Kept(l, gs, m) /\ g = gs[m] /\ hs = Append(ks, g)
      OBVIOUS
    <3>2. B = A \cup {g} /\ ks \in Seq(A) /\ {ks[j] : j \in DOMAIN ks} = A
      BY <2>2, <2>4, <2>8, <3>1 DEF IsKept
    <3>3. hs \in Seq(B)
      BY <3>1, <3>2
    <3>4. {hs[j] : j \in DOMAIN hs} = B
      <4>1. Len(ks) \in Nat /\ DOMAIN ks = 1 .. Len(ks)
        BY <3>2
      <4>2. DOMAIN hs = DOMAIN ks \cup {Len(ks) + 1} /\ hs[Len(ks) + 1] = g /\ \A j \in DOMAIN ks : hs[j] = ks[j]
        BY <3>1, <3>2, <4>1
      <4>3. QED
        BY <3>2, <4>2
    <3>5. IsKept(G[1 .. m], l, gs, m)
      BY <2>3, <2>6, <2>8, <3>1, <3>3, <3>4 DEF IsKept
    <3>6. QED
      BY <1>1, <2>1, <2>2, <3>5
  <2>9. QED
    BY <2>7, <2>8
<1>15. N \in I
  <2>1. PICK J : J = I
    OBVIOUS
  <2>2. 0 \in J /\ \A n \in 0 .. N - 1 : n \in J => n + 1 \in J
    BY <1>13, <1>14, <2>1
  <2>3. \A n \in 0 .. N : n \in J
    BY <2>2, Upto
  <2>4. N \in J
    BY <2>3
  <2>5. QED
    BY <2>1, <2>4
<1>16. QED
  BY <1>1, <1>9, <1>10, <1>12, <1>15

-----------------------------------------------------------------------------
(* The product of the sizes of a box, which is 0 only for an empty one      *)

\* The product over a finite set is a fold.
LEMMA MultFolds ==
  ASSUME NEW S, IsFiniteSet(S), NEW g \in [S -> Int]
  PROVE  \E F : F \in [SUBSET S -> Int] /\ (\A s \in SUBSET S : F[s] = MultOf(F, g, s)) /\ Mult(g) = F[S]
<1>. DEFINE Eq(F) == F = [s \in SUBSET S |-> IF s = {} THEN 1 ELSE g[Pick(s)] * F[s \ {Pick(s)}]]
            Iter == CHOOSE F : Eq(F)
<1>1. PICK step, pick : step = [x \in S |-> [n \in Int |-> g[x] * n]] /\ pick = [s \in SUBSET S |-> Pick(s)]
  OBVIOUS
<1>2. IsFold(S, Int, 1, step, pick)
  <2>1. \A x \in S, n \in Int : g[x] * n \in Int
    BY IntTimes
  <2>2. step \in [S -> [Int -> Int]]
    BY <1>1, <2>1
  <2>3. \A s \in SUBSET S : s # {} => pick[s] \in s
    BY <1>1, Picked
  <2>4. QED
    BY <2>2, <2>3 DEF IsFold
<1>3. PICK G : Folds(G, S, Int, 1, step, pick)
  BY <1>2, FoldedAll
<1>4. ASSUME NEW s \in SUBSET S PROVE G[s] = MultOf(G, g, s)
  <2>1. G[s] = FoldStep(G, 1, step, pick, s) /\ pick[s] = Pick(s) /\ G \in [SUBSET S -> Int]
    BY <1>1, <1>3 DEF Folds
  <2>2. CASE s = {}
    BY <2>1, <2>2 DEF FoldStep, MultOf
  <2>3. CASE s # {}
    <3>1. PICK x, n : x = Pick(s) /\ n = G[s \ {x}]
      OBVIOUS
    <3>2. x \in S /\ n \in Int
      BY <2>1, <2>3, <3>1, Picked
    <3>3. step[x][n] = g[x] * n
      BY <1>1, <3>2
    <3>4. QED
      BY <2>1, <2>3, <3>1, <3>3 DEF FoldStep, MultOf
  <2>4. QED
    BY <2>2, <2>3
<1>5. Eq(G)
  BY <1>3, <1>4 DEF Folds, MultOf
<1>6. Eq(Iter)
  <2>. HIDE DEF Eq
  <2>. QED
    BY <1>5
<1>7. \A s \in SUBSET S : Iter[s] = MultOf(Iter, g, s)
  <2>. HIDE DEF Iter
  <2>. QED
    BY <1>6 DEF MultOf
<1>. HIDE DEF Iter, Eq
<1>8. Mult(g) = Iter[S]
  BY DEF Mult, FoldFunction, FoldFunctionOnSet, MapThenFoldSet, Pick, Iter, Eq
<1>9. PICK F : F = Iter
  OBVIOUS
<1>10. SameSteps(F, G, S)
  BY <1>4, <1>7, <1>9 DEF SameSteps, MultOf
<1>11. F[S] = G[S]
  BY <1>10, FoldsAgree
<1>12. QED
  BY <1>3, <1>4, <1>8, <1>9, <1>11 DEF Folds

\* A product of extents that are not 0 is not 0.
LEMMA MultPositive ==
  ASSUME NEW S, IsFiniteSet(S), NEW g \in [S -> Int], \A x \in S : g[x] >= 1
  PROVE  Mult(g) \in Int /\ Mult(g) >= 1
<1>1. PICK F : F \in [SUBSET S -> Int] /\ (\A s \in SUBSET S : F[s] = MultOf(F, g, s)) /\ Mult(g) = F[S]
  BY MultFolds
<1>. DEFINE Bad == {s \in SUBSET S : ~(F[s] >= 1)}
<1>2. SUFFICES ASSUME Bad # {} PROVE FALSE
  BY <1>1
<1>3. PICK s \in Bad : \A u \in SUBSET s : u # s => u \notin Bad
  <2>1. Bad \in SUBSET (SUBSET S)
    OBVIOUS
  <2>. HIDE DEF Bad
  <2>2. QED
    BY <1>2, <2>1, LeastSubset
<1>4. s \in SUBSET S /\ ~(F[s] >= 1)
  BY <1>3
<1>. HIDE DEF Bad
<1>5. s # {}
  <2>1. SUFFICES ASSUME s = {} PROVE FALSE
    OBVIOUS
  <2>2. F[s] = 1
    BY <1>1, <1>4, <2>1 DEF MultOf
  <2>3. QED
    BY <1>4, <2>2
<1>6. PICK x, a, b : x = Pick(s) /\ a = g[x] /\ b = F[s \ {x}]
  OBVIOUS
<1>7. x \in s
  BY <1>5, <1>6, Picked
<1>8. s \ {x} \in SUBSET S /\ s \ {x} \notin Bad
  BY <1>3, <1>4, <1>7
<1>. USE DEF Bad
<1>9. a \in Int /\ a >= 1 /\ b \in Int /\ b >= 1
  BY <1>1, <1>4, <1>6, <1>7, <1>8
<1>10. F[s] = a * b
  BY <1>1, <1>4, <1>5, <1>6 DEF MultOf
<1>11. a * b >= 1
  <2>1. a \in Nat /\ a * 1 <= a * b
    BY <1>9, TimesMono
  <2>2. a * 1 = a /\ a * b \in Int
    BY <1>9, IntTimes
  <2>3. QED
    BY <1>9, <2>1, <2>2
<1>12. QED
  BY <1>4, <1>10, <1>11

\* A product with a factor 0 is 0.
LEMMA MultZero ==
  ASSUME NEW S, IsFiniteSet(S), NEW g \in [S -> Int], NEW x \in S, g[x] = 0
  PROVE  Mult(g) = 0
<1>1. PICK F : F \in [SUBSET S -> Int] /\ (\A s \in SUBSET S : F[s] = MultOf(F, g, s)) /\ Mult(g) = F[S]
  BY MultFolds
<1>. DEFINE Bad == {s \in SUBSET S : x \in s /\ F[s] # 0}
<1>2. SUFFICES ASSUME Bad # {} PROVE FALSE
  BY <1>1
<1>3. PICK s \in Bad : \A u \in SUBSET s : u # s => u \notin Bad
  <2>1. Bad \in SUBSET (SUBSET S)
    OBVIOUS
  <2>. HIDE DEF Bad
  <2>2. QED
    BY <1>2, <2>1, LeastSubset
<1>4. s \in SUBSET S /\ x \in s /\ F[s] # 0
  BY <1>3
<1>5. PICK y, a, b : y = Pick(s) /\ a = g[y] /\ b = F[s \ {y}]
  OBVIOUS
<1>6. y \in s
  BY <1>4, <1>5, Picked
<1>7. s \ {y} \in SUBSET S /\ s \ {y} \notin Bad
  BY <1>3, <1>4, <1>6
<1>8. a \in Int /\ b \in Int
  BY <1>1, <1>4, <1>5, <1>6, <1>7
<1>9. F[s] = a * b
  BY <1>1, <1>4, <1>5 DEF MultOf
<1>10. a = 0 \/ b = 0
  BY <1>4, <1>5, <1>7
<1>11. QED
  BY <1>4, <1>8, <1>9, <1>10

\* Every dim has a coordinate.
Full(l) == \A n \in Names(l) : l.dims[n].start < l.dims[n].stop

\* numel is 0 exactly when a dim has no coordinates.
LEMMA NumelIs ==
  ASSUME NEW l, IsLayout(l)
  PROVE  /\ Full(l) => Numel(l) # 0
         /\ (\E n \in Names(l) : l.dims[n].start = l.dims[n].stop) => Numel(l) = 0
         /\ Domain(l) # {} => Full(l)
<1>1. PICK S, g : S = Names(l) /\ g = [n \in S |-> Size(l.dims[n])]
  OBVIOUS
<1>2. Numel(l) = Mult(g)
  BY <1>1 DEF Numel, Product, Mult
<1>3. IsFiniteSet(S) /\ \A n \in S : l.dims[n].start \in Int /\ l.dims[n].stop \in Int
  BY <1>1 DEF IsLayout, IsDim
<1>4. g \in [S -> Int]
  BY <1>1, <1>3 DEF Size
<1>5. Full(l) => Numel(l) # 0
  <2>1. SUFFICES ASSUME Full(l) PROVE Numel(l) # 0
    OBVIOUS
  <2>2. \A n \in S : g[n] >= 1
    BY <1>1, <1>3, <2>1 DEF Full, Size
  <2>3. Mult(g) \in Int /\ Mult(g) >= 1
    BY <1>3, <1>4, <2>2, MultPositive
  <2>4. QED
    BY <1>2, <2>3
<1>6. ASSUME NEW n \in S, l.dims[n].start = l.dims[n].stop PROVE Numel(l) = 0
  <2>1. g[n] = 0
    BY <1>1, <1>3, <1>6 DEF Size
  <2>2. QED
    BY <1>2, <1>3, <1>4, <2>1, MultZero
<1>7. ASSUME NEW c \in Domain(l) PROVE Full(l)
  <2>1. \A n \in Names(l) : c[n] \in l.dims[n].start .. l.dims[n].stop - 1
    BY InDomain
  <2>2. QED
    BY <1>1, <1>3, <2>1 DEF Full
<1>8. QED
  BY <1>1, <1>5, <1>6, <1>7

-----------------------------------------------------------------------------
(* What a guard can be worth over a box *)

GuardIn(g, l) == IsForm(g.coeffs) /\ g.lo \in Int /\ g.hi \in Int /\ DOMAIN g.coeffs \subseteq Names(l)
Lows(g, l) ==
  [n \in DOMAIN g.coeffs |-> Least(g.coeffs[n] * l.dims[n].start, g.coeffs[n] * (l.dims[n].stop - 1))]
Highs(g, l) ==
  [n \in DOMAIN g.coeffs |-> Most(g.coeffs[n] * l.dims[n].start, g.coeffs[n] * (l.dims[n].stop - 1))]

\* range_over sums the ends of each term.
LEMMA RangeIs ==
  ASSUME NEW g, NEW l
  PROVE  RangeOver(g, l)[1] = SumFunction(Lows(g, l)) /\ RangeOver(g, l)[2] = SumFunction(Highs(g, l))
BY DEF RangeOver, Sigma, Lows, Highs

\* A multiple of a number between two ends lies between their multiples.
LEMMA Between ==
  ASSUME NEW k \in Int, NEW a \in Int, NEW b \in Int, NEW x \in Int, a <= x, x <= b
  PROVE  Least(k * a, k * b) <= k * x /\ k * x <= Most(k * a, k * b)
<1>1. k * a \in Int /\ k * b \in Int /\ k * x \in Int
  BY IntTimes
<1>2. CASE k >= 0
  <2>1. k \in Nat
    BY <1>2
  <2>2. k * a <= k * x /\ k * x <= k * b
    BY <2>1, TimesMono
  <2>3. QED
    BY <1>1, <2>2 DEF Least, Most
<1>3. CASE ~(k >= 0)
  <2>1. PICK h : h = -k
    OBVIOUS
  <2>2. h \in Nat
    BY <1>3, <2>1
  <2>3. h * a <= h * x /\ h * x <= h * b
    BY <2>2, TimesMono
  <2>4. h * a = -(k * a) /\ h * x = -(k * x) /\ h * b = -(k * b)
    BY <2>1
  <2>5. k * b <= k * x /\ k * x <= k * a
    BY <1>1, <2>3, <2>4
  <2>6. QED
    BY <1>1, <2>5 DEF Least, Most
<1>4. QED
  BY <1>2, <1>3

\* The ends of the terms are integers.
LEMMA EndsInt ==
  ASSUME NEW l, IsLayout(l), NEW g, GuardIn(g, l)
  PROVE  /\ Lows(g, l) \in [DOMAIN g.coeffs -> Int] /\ Highs(g, l) \in [DOMAIN g.coeffs -> Int]
         /\ IsFiniteSet(DOMAIN g.coeffs)
<1>1. ASSUME NEW n \in DOMAIN g.coeffs
      PROVE  g.coeffs[n] * l.dims[n].start \in Int /\ g.coeffs[n] * (l.dims[n].stop - 1) \in Int
  <2>1. g.coeffs[n] \in Int /\ l.dims[n].start \in Int /\ l.dims[n].stop - 1 \in Int
    BY DEF GuardIn, IsForm, IsLayout, IsDim
  <2>2. QED
    BY <2>1, IntTimes
<1>2. QED
  BY <1>1 DEF Lows, Highs, Least, Most, GuardIn, IsForm

\* The value of a guard at a point lies in its range_over.
LEMMA ValueBounds ==
  ASSUME NEW l, IsLayout(l), NEW g, GuardIn(g, l), NEW c \in Domain(l)
  PROVE  /\ RangeOver(g, l)[1] <= Value(g, c) /\ Value(g, c) <= RangeOver(g, l)[2]
         /\ RangeOver(g, l)[1] \in Int /\ RangeOver(g, l)[2] \in Int /\ Value(g, c) \in Int
<1>1. PICK D, f, a, b : D = DOMAIN g.coeffs /\ f = Times(g.coeffs, c, D) /\ a = Lows(g, l) /\ b = Highs(g, l)
  OBVIOUS
<1>2. a \in [D -> Int] /\ b \in [D -> Int] /\ IsFiniteSet(D)
  BY <1>1, EndsInt
<1>3. \A n \in Names(l) : c[n] \in l.dims[n].start .. l.dims[n].stop - 1 /\ l.dims[n].start \in Int /\ l.dims[n].stop \in Int
  BY InDomain DEF IsLayout, IsDim
<1>4. \A n \in D : g.coeffs[n] \in Int /\ c[n] \in Int /\ n \in Names(l)
  BY <1>1, <1>3 DEF GuardIn, IsForm
<1>5. f \in [D -> Int]
  BY <1>1, <1>4, TimesInt
<1>6. ASSUME NEW n \in D PROVE a[n] <= f[n] /\ f[n] <= b[n]
  <2>1. PICK k, x, u, w : k = g.coeffs[n] /\ x = c[n] /\ u = l.dims[n].start /\ w = l.dims[n].stop - 1
    OBVIOUS
  <2>2. k \in Int /\ x \in Int /\ u \in Int /\ w \in Int /\ u <= x /\ x <= w
    BY <1>3, <1>4, <2>1
  <2>3. Least(k * u, k * w) <= k * x /\ k * x <= Most(k * u, k * w)
    BY <2>2, Between
  <2>4. a[n] = Least(k * u, k * w) /\ b[n] = Most(k * u, k * w) /\ f[n] = k * x
    BY <1>1, <2>1 DEF Lows, Highs, Times
  <2>5. QED
    BY <2>3, <2>4
<1>7. Under(a, f, D) /\ Under(f, b, D)
  BY <1>6 DEF Under
<1>8. SumFunction(a) <= SumFunction(f) /\ SumFunction(f) <= SumFunction(b)
  BY <1>2, <1>5, <1>7, SumMono
<1>9. SumFunction(a) \in Int /\ SumFunction(b) \in Int /\ SumFunction(f) \in Int
  BY <1>2, <1>5, SumInt
<1>10. Value(g, c) = SumFunction(f)
  BY <1>1, ValueIs
<1>11. QED
  BY <1>1, <1>8, <1>9, <1>10, RangeIs

\* A guard discharge finds vacuous holds at every point.
LEMMA VacuousHolds ==
  ASSUME NEW l, IsLayout(l), NEW g, GuardIn(g, l), Vacuous(g, l), NEW c \in Domain(l)
  PROVE  Holds(g, c)
<1>1. /\ RangeOver(g, l)[1] <= Value(g, c) /\ Value(g, c) <= RangeOver(g, l)[2]
      /\ RangeOver(g, l)[1] \in Int /\ RangeOver(g, l)[2] \in Int /\ Value(g, c) \in Int
  BY ValueBounds
<1>2. g.lo \in Int /\ g.hi \in Int
  BY DEF GuardIn, IsForm
<1>3. QED
  BY <1>1, <1>2 DEF Vacuous, Holds

-----------------------------------------------------------------------------
(* Points that agree on the names of a view                                 *)

\* A guard looks only at the dims of its layout.
LEMMA SameGuards ==
  ASSUME NEW v, IsView(v), NEW p, NEW q, \A n \in Names(v.base) : q[n] = p[n]
  PROVE  \A j \in DOMAIN v.guards : Holds(v.guards[j], q) <=> Holds(v.guards[j], p)
<1>1. ASSUME NEW j \in DOMAIN v.guards PROVE Holds(v.guards[j], q) <=> Holds(v.guards[j], p)
  <2>1. PICK g, D : g = v.guards[j] /\ D = DOMAIN g.coeffs
    OBVIOUS
  <2>2. D \subseteq Names(v.base)
    BY <2>1 DEF IsView, On
  <2>3. Times(g.coeffs, q, D) = Times(g.coeffs, p, D)
    BY <2>2 DEF Times
  <2>4. Value(g, q) = Value(g, p)
    BY <2>1, <2>3, ValueIs
  <2>5. QED
    BY <2>1, <2>4 DEF Holds
<1>2. QED
  BY <1>1

\* What a point resolves to depends only on the dims of the layout.
LEMMA SamePoint ==
  ASSUME NEW v, IsView(v), NEW p, NEW q, \A n \in Names(v.base) : q[n] = p[n]
  PROVE  SameAt(v, v, q, p)
<1>1. GetLoc(v.base, q) = GetLoc(v.base, p)
  <2>1. Terms(v.base, q) = Terms(v.base, p)
    BY DEF Terms
  <2>2. QED
    BY <2>1, LocIs
<1>2. \A j \in DOMAIN v.guards : Holds(v.guards[j], q) <=> Holds(v.guards[j], p)
  BY SameGuards
<1>3. QED
  BY <1>1, <1>2 DEF SameAt, Resolve

\* A point in the bounds agrees with one of the domain.
LEMMA InDomainAlso ==
  ASSUME NEW v, IsView(v), NEW p, InRange(v.base, p)
  PROVE  \E q \in Domain(v.base) : SameAt(v, v, q, p)
<1>1. PICK q : q = [n \in Names(v.base) |-> p[n]]
  OBVIOUS
<1>2. IsLayout(v.base) /\ Domain(v.base) = Grid(v.base.dims, Names(v.base))
  BY DomainIs DEF IsView
<1>3. \A n \in Names(v.base) : v.base.dims[n].start \in Int /\ v.base.dims[n].stop \in Int
  BY <1>2 DEF IsLayout, IsDim
<1>4. \A n \in Names(v.base) : q[n] = p[n] /\ q[n] \in Int /\ v.base.dims[n].start <= q[n] /\ q[n] < v.base.dims[n].stop
  BY <1>1, <1>3 DEF InRange
<1>5. q \in Grid(v.base.dims, Names(v.base))
  BY <1>1, <1>4 DEF Grid
<1>6. SameAt(v, v, q, p)
  BY <1>4, SamePoint
<1>7. QED
  BY <1>2, <1>5, <1>6

-----------------------------------------------------------------------------
(* REPEAT: a dim of stride 0                                                *)

Repeated(v, n, lo, hi) == IsView(v) /\ n \notin Names(v.base) /\ lo \in Int /\ hi \in Int

\* repeat leaves each datum where it was, at every coordinate of the new dim.
LEMMA RepeatLands ==
  ASSUME NEW v, NEW n, NEW lo, NEW hi, Repeated(v, n, lo, hi), NEW chart, NEW labels
  PROVE  /\ IsView(GRepeat(v, n, lo, hi, chart, labels))
         /\ \A c \in Domain(GRepeat(v, n, lo, hi, chart, labels).base) :
              \A p : (\A i \in Names(v.base) : p[i] = c[i]) => Lands(GRepeat(v, n, lo, hi, chart, labels), v, c, p)
<1>1. PICK l, d, new, r, w : /\ l = v.base /\ d = Dim(0, lo, hi, chart, labels) /\ new = Single(n, d)
                             /\ r = Put(l, {}, new, 0) /\ w = Rebase(v, r)
  OBVIOUS
<1>2. w = GRepeat(v, n, lo, hi, chart, labels)
  BY <1>1 DEF GRepeat, Repeat
<1>3. IsView(v) /\ IsLayout(l) /\ n \notin Names(l) /\ IsDim(d) /\ d.stride = 0 /\ d.start = lo /\ d.stop = hi
  BY <1>1 DEF Repeated, IsView, IsDim, Fields, Dim
<1>4. DOMAIN new = {n} /\ new[n] = d
  BY <1>1 DEF Single
<1>5. Joins(new, l, {})
  <2>1. IsFiniteSet(DOMAIN new)
    BY <1>4, FS_Singleton
  <2>2. QED
    BY <1>3, <1>4, <2>1 DEF Joins
<1>6. /\ IsLayout(r) /\ Names(r) = Names(l) \cup {n} /\ r.dims[n] = d
      /\ \A m \in Names(l) : r.dims[m] = l.dims[m]
  <2>1. /\ IsLayout(Put(l, {}, new, 0)) /\ Names(Put(l, {}, new, 0)) = (Names(l) \ {}) \cup DOMAIN new
        /\ \A m \in DOMAIN new : Put(l, {}, new, 0).dims[m] = new[m]
        /\ \A m \in Names(l) \ {} : Put(l, {}, new, 0).dims[m] = l.dims[m]
    BY <1>3, <1>5, PutIs
  <2>2. QED
    BY <1>1, <1>4, <2>1
<1>7. {"base", "guards", "size"} \subseteq DOMAIN w /\ w.base = r /\ w.guards = v.guards /\ w.size = v.size
  BY <1>1, <1>3, RebaseIs
<1>8. IsView(w)
  <2>1. IsGuards(v.guards) /\ On(v.guards, Names(l)) /\ v.size \in Nat
    BY <1>1, <1>3 DEF IsView
  <2>2. On(v.guards, Names(r))
    BY <1>6, <2>1 DEF On
  <2>3. QED
    BY <1>6, <1>7, <2>1, <2>2 DEF IsView
<1>9. ASSUME NEW c \in Domain(r), NEW p, \A i \in Names(l) : p[i] = c[i] PROVE Lands(w, v, c, p)
  <2>1. IsPoint(r, c) /\ \A m \in Names(r) : c[m] \in r.dims[m].start .. r.dims[m].stop - 1
    BY <1>6, InDomain
  <2>2. InRange(l, p) /\ IsPoint(l, p)
    BY <1>6, <1>9, <2>1 DEF InRange, IsPoint
  <2>3. SumFunction([m \in DOMAIN new |-> new[m].stride * c[m]]) = 0
    <3>1. PICK f : f = [m \in DOMAIN new |-> new[m].stride * c[m]]
      OBVIOUS
    <3>2. c[n] \in Int
      BY <1>6, <2>1 DEF IsPoint
    <3>3. IsFiniteSet(DOMAIN new) /\ f \in [DOMAIN new -> Int] /\ \A x \in DOMAIN new : f[x] = 0
      BY <1>3, <1>4, <1>5, <3>1, <3>2 DEF Joins
    <3>4. SumFunction(f) = 0
      BY <3>3, SumZero
    <3>5. QED
      BY <3>1, <3>4
  <2>4. SumFunction([m \in {} |-> l.dims[m].stride * p[m]]) = 0
    <3>1. PICK f : f = [m \in {} |-> l.dims[m].stride * p[m]]
      OBVIOUS
    <3>2. f \in [{} -> Int]
      BY <3>1
    <3>3. QED
      BY <3>1, <3>2, SumEmpty
  <2>5. GetLoc(Put(l, {}, new, 0), c) = GetLoc(l, p)
    <3>1. PICK none, zero : none = {} /\ zero = 0
      OBVIOUS
    <3>2. (\A m \in Names(l) \ none : p[m] = c[m]) /\ Joins(new, l, none) /\ zero \in Int
      BY <1>5, <1>9, <3>1
    <3>3. IsPoint(Put(l, none, new, zero), c)
      BY <1>1, <2>1, <3>1
    <3>4. SumFunction([m \in DOMAIN new |-> new[m].stride * c[m]]) + zero = SumFunction([m \in none |-> l.dims[m].stride * p[m]])
      BY <2>3, <2>4, <3>1
    <3>5. GetLoc(Put(l, none, new, zero), c) = GetLoc(l, p)
      BY <1>3, <2>2, <3>2, <3>3, <3>4, PutMoves
    <3>6. QED
      BY <3>1, <3>5
  <2>7. \A j \in DOMAIN v.guards : Holds(v.guards[j], c) <=> Holds(v.guards[j], p)
    <3>1. \A i \in Names(v.base) : c[i] = p[i]
      BY <1>1, <1>9
    <3>2. QED
      BY <1>3, <3>1, SameGuards
  <2>8. Resolve(w, c) = Resolve(v, p)
    BY <1>1, <1>7, <2>5, <2>7 DEF Resolve
  <2>9. QED
    BY <1>1, <2>2, <2>8 DEF Lands, SameAt
<1>10. QED
  BY <1>1, <1>2, <1>7, <1>8, <1>9

-----------------------------------------------------------------------------
(* DISCHARGING GUARDS                                                       *)

NeededOnly(ks, gs, l) == {ks[j] : j \in DOMAIN ks} = {g \in {gs[j] : j \in DOMAIN gs} : ~Vacuous(g, l)}

\* discharge keeps the layout, and of the guards those that are needed.
LEMMA SimplifyIs ==
  ASSUME NEW v, IsView(v)
  PROVE  /\ IsView(Simplify(v)) /\ Simplify(v).base = v.base /\ Simplify(v).size = v.size
         /\ Numel(v.base) = 0 => Simplify(v).guards = <<>>
         /\ Numel(v.base) # 0 => NeededOnly(Simplify(v).guards, v.guards, v.base)
<1>1. PICK l, gs, N, ks, w, T : /\ l = v.base /\ gs = v.guards /\ N = Len(gs) /\ ks = Needed(l, gs) /\ w = Simplify(v)
                                /\ T = {gs[j] : j \in DOMAIN gs}
  OBVIOUS
<1>2. /\ gs \in Seq(T) /\ \A j \in DOMAIN gs : IsGuard(gs[j]) /\ DOMAIN gs[j].coeffs \subseteq Names(l)
      /\ {"base", "guards", "size"} \subseteq DOMAIN v /\ IsLayout(l) /\ v.size \in Nat
  BY <1>1 DEF IsView, IsGuards, On
<1>3. N \in Nat /\ DOMAIN gs = 1 .. N
  BY <1>1, <1>2
<1>4. IsKept(ks, l, gs, N)
  BY <1>1, <1>3, NeededIs
<1>5. PICK K : K = Kept(l, gs, N)
  OBVIOUS
<1>6. ks \in Seq(K) /\ {ks[j] : j \in DOMAIN ks} = K
  BY <1>4, <1>5 DEF IsKept
<1>7. K = {g \in T : ~Vacuous(g, l)}
  BY <1>1, <1>3, <1>5 DEF Kept
<1>8. /\ {"base", "guards", "size"} \subseteq DOMAIN w /\ w.base = l /\ w.size = v.size
      /\ w.guards = IF Numel(l) = 0 THEN <<>> ELSE ks
  BY <1>1, <1>2 DEF Simplify
<1>9. \A g \in T : IsGuard(g) /\ DOMAIN g.coeffs \subseteq Names(l)
  BY <1>1, <1>2
<1>10. IsView(w)
  <2>1. CASE Numel(l) = 0
    <3>1. IsGuards(<<>>) /\ On(<<>>, Names(l))
      BY DEF IsGuards, On
    <3>2. QED
      BY <1>2, <1>8, <2>1, <3>1 DEF IsView
  <2>2. CASE Numel(l) # 0
    <3>1. ks \in Seq({ks[j] : j \in DOMAIN ks})
      BY <1>6
    <3>2. \A j \in DOMAIN ks : ks[j] \in T
      BY <1>6, <1>7
    <3>3. IsGuards(ks) /\ On(ks, Names(l))
      BY <1>9, <3>1, <3>2 DEF IsGuards, On
    <3>4. QED
      BY <1>2, <1>8, <2>2, <3>3 DEF IsView
  <2>3. QED
    BY <2>1, <2>2
<1>11. QED
  BY <1>1, <1>6, <1>7, <1>8, <1>10 DEF NeededOnly

\* discharge changes nothing a point resolves to.
LEMMA SimplifyStays ==
  ASSUME NEW v, IsView(v), NEW c, c \in Domain(v.base)
  PROVE  SameAt(Simplify(v), v, c, c)
<1>1. PICK l, gs, ks, w : l = v.base /\ gs = v.guards /\ w = Simplify(v) /\ ks = w.guards
  OBVIOUS
<1>2. IsLayout(l)
  BY <1>1 DEF IsView
<1>3. Numel(l) # 0
  <2>1. Full(l)
    BY <1>1, <1>2, NumelIs
  <2>2. QED
    BY <1>2, <2>1, NumelIs
<1>4. w.base = l /\ NeededOnly(ks, gs, l)
  BY <1>1, <1>3, SimplifyIs
<1>5. ASSUME NEW j \in DOMAIN gs, Vacuous(gs[j], l) PROVE Holds(gs[j], c)
  <2>1. PICK g : g = gs[j]
    OBVIOUS
  <2>2. GuardIn(g, l) /\ Vacuous(g, l) /\ c \in Domain(l)
    BY <1>1, <1>5, <2>1 DEF GuardIn, IsForm, IsView, IsGuards, IsGuard, On
  <2>3. Holds(g, c)
    BY <1>2, <2>2, VacuousHolds
  <2>4. QED
    BY <2>1, <2>3
<1>6. (\A j \in DOMAIN ks : Holds(ks[j], c)) <=> (\A j \in DOMAIN gs : Holds(gs[j], c))
  <2>1. \A j \in DOMAIN ks : \E i \in DOMAIN gs : ks[j] = gs[i]
    BY <1>4 DEF NeededOnly
  <2>2. \A i \in DOMAIN gs : ~Vacuous(gs[i], l) => \E j \in DOMAIN ks : ks[j] = gs[i]
    BY <1>4 DEF NeededOnly
  <2>3. QED
    BY <1>5, <2>1, <2>2
<1>7. QED
  BY <1>1, <1>4, <1>6 DEF SameAt, Resolve

-----------------------------------------------------------------------------
(* A guard reaches the ends of its range at corners of the box              *)

\* A function into the bounds is a point of the layout.
LEMMA InBoxOf ==
  ASSUME NEW l, IsLayout(l), NEW q, DOMAIN q = Names(l), q = [n \in Names(l) |-> q[n]],
         \A n \in Names(l) : q[n] \in Int /\ l.dims[n].start <= q[n] /\ q[n] < l.dims[n].stop
  PROVE  q \in Domain(l)
<1>1. q \in Grid(l.dims, Names(l))
  BY DEF Grid
<1>2. QED
  BY <1>1, DomainIs

\* Both ends of range_over are values at some corner of a layout with points.
LEMMA Corners ==
  ASSUME NEW l, IsLayout(l), Full(l), NEW g, GuardIn(g, l)
  PROVE  /\ \E q \in Domain(l) : Value(g, q) = RangeOver(g, l)[1]
         /\ \E q \in Domain(l) : Value(g, q) = RangeOver(g, l)[2]
<1>1. PICK D, S : D = DOMAIN g.coeffs /\ S = Names(l)
  OBVIOUS
<1>2. \A n \in S : l.dims[n].start \in Int /\ l.dims[n].stop \in Int /\ l.dims[n].start < l.dims[n].stop
  BY <1>1 DEF IsLayout, IsDim, Full
<1>3. D \subseteq S /\ \A n \in D : g.coeffs[n] \in Int
  BY <1>1 DEF GuardIn, IsForm
<1>4. \A n \in D : g.coeffs[n] * l.dims[n].start \in Int /\ g.coeffs[n] * (l.dims[n].stop - 1) \in Int
  BY <1>2, <1>3, IntTimes
<1>5. \E q \in Domain(l) : Value(g, q) = RangeOver(g, l)[1]
  <2>1. PICK q : q = [n \in S |-> IF n \in D /\ ~(g.coeffs[n] * l.dims[n].start < g.coeffs[n] * (l.dims[n].stop - 1))
                                  THEN l.dims[n].stop - 1 ELSE l.dims[n].start]
    OBVIOUS
  <2>2. \A n \in S : q[n] \in Int /\ l.dims[n].start <= q[n] /\ q[n] < l.dims[n].stop
    BY <1>2, <2>1
  <2>3. DOMAIN q = S /\ q = [n \in S |-> q[n]]
    BY <2>1
  <2>4. q \in Domain(l)
    BY <1>1, <2>2, <2>3, InBoxOf
  <2>5. PICK f, a : f = Times(g.coeffs, q, D) /\ a = Lows(g, l)
    OBVIOUS
  <2>6. f = a
    <3>1. \A n \in D : q[n] = l.dims[n].start \/ q[n] = l.dims[n].stop - 1
      BY <1>3, <2>1
    <3>2. ASSUME NEW n \in D
          PROVE  g.coeffs[n] * q[n] = Least(g.coeffs[n] * l.dims[n].start, g.coeffs[n] * (l.dims[n].stop - 1))
      <4>1. PICK x, y : x = g.coeffs[n] * l.dims[n].start /\ y = g.coeffs[n] * (l.dims[n].stop - 1)
        OBVIOUS
      <4>2. q[n] = IF ~(x < y) THEN l.dims[n].stop - 1 ELSE l.dims[n].start
        BY <1>3, <2>1, <4>1
      <4>3. x \in Int /\ y \in Int
        BY <1>4, <4>1
      <4>4. g.coeffs[n] * q[n] = IF ~(x < y) THEN y ELSE x
        BY <4>1, <4>2
      <4>5. QED
        BY <4>1, <4>3, <4>4 DEF Least
    <3>3. QED
      BY <1>1, <2>5, <3>2 DEF Times, Lows
  <2>7. Value(g, q) = RangeOver(g, l)[1]
    BY <1>1, <2>5, <2>6, ValueIs, RangeIs
  <2>8. QED
    BY <2>4, <2>7
<1>6. \E q \in Domain(l) : Value(g, q) = RangeOver(g, l)[2]
  <2>1. PICK q : q = [n \in S |-> IF n \in D /\ g.coeffs[n] * l.dims[n].start < g.coeffs[n] * (l.dims[n].stop - 1)
                                  THEN l.dims[n].stop - 1 ELSE l.dims[n].start]
    OBVIOUS
  <2>2. \A n \in S : q[n] \in Int /\ l.dims[n].start <= q[n] /\ q[n] < l.dims[n].stop
    BY <1>2, <2>1
  <2>3. DOMAIN q = S /\ q = [n \in S |-> q[n]]
    BY <2>1
  <2>4. q \in Domain(l)
    BY <1>1, <2>2, <2>3, InBoxOf
  <2>5. PICK f, a : f = Times(g.coeffs, q, D) /\ a = Highs(g, l)
    OBVIOUS
  <2>6. f = a
    <3>2. ASSUME NEW n \in D
          PROVE  g.coeffs[n] * q[n] = Most(g.coeffs[n] * l.dims[n].start, g.coeffs[n] * (l.dims[n].stop - 1))
      <4>1. PICK x, y : x = g.coeffs[n] * l.dims[n].start /\ y = g.coeffs[n] * (l.dims[n].stop - 1)
        OBVIOUS
      <4>2. q[n] = IF x < y THEN l.dims[n].stop - 1 ELSE l.dims[n].start
        BY <1>3, <2>1, <4>1
      <4>3. x \in Int /\ y \in Int
        BY <1>4, <4>1
      <4>4. g.coeffs[n] * q[n] = IF x < y THEN y ELSE x
        BY <4>1, <4>2
      <4>5. QED
        BY <4>1, <4>3, <4>4 DEF Most
    <3>3. QED
      BY <1>1, <2>5, <3>2 DEF Times, Highs
  <2>7. Value(g, q) = RangeOver(g, l)[2]
    BY <1>1, <2>5, <2>6, ValueIs, RangeIs
  <2>8. QED
    BY <2>4, <2>7
<1>7. QED
  BY <1>5, <1>6

Boxed(l) == \A n \in Names(l) : l.dims[n].start <= l.dims[n].stop

\* A layout whose numel is not 0 has a coordinate in every dim.
LEMMA FullUnlessEmpty ==
  ASSUME NEW l, IsLayout(l), Boxed(l), Numel(l) # 0
  PROVE  Full(l)
<1>1. \A n \in Names(l) : l.dims[n].start # l.dims[n].stop
  BY NumelIs
<1>2. \A n \in Names(l) : l.dims[n].start \in Int /\ l.dims[n].stop \in Int
  BY DEF IsLayout, IsDim
<1>3. QED
  BY <1>1, <1>2 DEF Boxed, Full

\* A guard that is not vacuous fails at some point of a layout with points.
LEMMA NeededFails ==
  ASSUME NEW l, IsLayout(l), Full(l), NEW g, GuardIn(g, l), ~Vacuous(g, l)
  PROVE  \E c \in Domain(l) : ~Holds(g, c)
<1>1. PICK a, b : /\ a \in Domain(l) /\ Value(g, a) = RangeOver(g, l)[1]
                  /\ b \in Domain(l) /\ Value(g, b) = RangeOver(g, l)[2]
  BY Corners
<1>2. RangeOver(g, l)[1] \in Int /\ RangeOver(g, l)[2] \in Int
  BY <1>1, ValueBounds
<1>3. g.lo \in Int /\ g.hi \in Int
  BY DEF GuardIn, IsForm
<1>4. ~Holds(g, a) \/ ~Holds(g, b)
  BY <1>1, <1>2, <1>3 DEF Vacuous, Holds
<1>5. QED
  BY <1>1, <1>4

Discharged(v) ==
  /\ \A c \in Domain(v.base) : Resolve(Simplify(v), c) = Resolve(v, c)
  /\ \A j \in DOMAIN Simplify(v).guards : \E c \in Domain(v.base) : ~Holds(Simplify(v).guards[j], c)
  /\ AlwaysFill(v) => \A c \in Domain(v.base) : Resolve(v, c) = Fill

\* discharge drops exactly what it may: the view resolves as before, each guard kept fails
\* somewhere, and a view found always fill is.
LEMMA SimplifyDischarges ==
  ASSUME NEW v, IsView(v), Boxed(v.base)
  PROVE  Discharged(v)
<1>1. PICK l, gs, ks : l = v.base /\ gs = v.guards /\ ks = Simplify(v).guards
  OBVIOUS
<1>2. IsLayout(l) /\ \A j \in DOMAIN gs : GuardIn(gs[j], l)
  BY <1>1 DEF IsView, IsGuards, IsGuard, On, GuardIn, IsForm
<1>3. \A c \in Domain(l) : Resolve(Simplify(v), c) = Resolve(v, c)
  BY <1>1, SimplifyStays DEF SameAt
<1>4. ASSUME NEW j \in DOMAIN ks PROVE \E c \in Domain(l) : ~Holds(ks[j], c)
  <2>1. Numel(l) # 0
    <3>1. Numel(l) = 0 => ks = <<>>
      BY <1>1, SimplifyIs
    <3>2. QED
      BY <1>4, <3>1
  <2>2. NeededOnly(ks, gs, l)
    BY <1>1, <2>1, SimplifyIs
  <2>3. PICK g : g = ks[j]
    OBVIOUS
  <2>4. GuardIn(g, l) /\ ~Vacuous(g, l)
    BY <1>2, <1>4, <2>2, <2>3 DEF NeededOnly
  <2>5. Full(l)
    BY <1>1, <1>2, <2>1, FullUnlessEmpty
  <2>6. \E c \in Domain(l) : ~Holds(g, c)
    BY <1>2, <2>4, <2>5, NeededFails
  <2>7. QED
    BY <2>3, <2>6
<1>5. ASSUME AlwaysFill(v), NEW c \in Domain(l) PROVE Resolve(v, c) = Fill
  <2>1. PICK j \in DOMAIN gs :
          gs[j].lo >= gs[j].hi \/ RangeOver(gs[j], l)[2] < gs[j].lo \/ RangeOver(gs[j], l)[1] >= gs[j].hi
    BY <1>1, <1>5 DEF AlwaysFill
  <2>2. PICK g : g = gs[j]
    OBVIOUS
  <2>3. /\ RangeOver(g, l)[1] <= Value(g, c) /\ Value(g, c) <= RangeOver(g, l)[2]
        /\ RangeOver(g, l)[1] \in Int /\ RangeOver(g, l)[2] \in Int /\ Value(g, c) \in Int
    <3>1. GuardIn(g, l)
      BY <1>2, <2>2
    <3>2. QED
      BY <1>2, <3>1, ValueBounds
  <2>4. g.lo \in Int /\ g.hi \in Int
    BY <1>2, <2>2 DEF GuardIn, IsForm
  <2>5. ~Holds(g, c)
    BY <2>1, <2>2, <2>3, <2>4 DEF Holds
  <2>6. QED
    BY <1>1, <2>2, <2>5 DEF Resolve
<1>6. QED
  BY <1>1, <1>3, <1>4, <1>5 DEF Discharged

-----------------------------------------------------------------------------
(* THE POINT OF THE OLD VIEW                                                *)

\* The sums of PointMaps are those of the layouts.
LEMMA PSum == \A f : P!SumFunction(f) = SumFunction(f)
BY DEF P!SumFunction, P!SumFunctionOnSet, P!FoldFunction, P!FoldFunctionOnSet, P!MapThenFoldSet,
       SumFunction, SumFunctionOnSet, FoldFunction, FoldFunctionOnSet, MapThenFoldSet

\* Its products are those of the layouts.
LEMMA PMult == \A f : P!Multiplied(f) = Mult(f)
BY DEF P!Multiplied, P!FoldFunction, P!FoldFunctionOnSet, P!MapThenFoldSet,
       Mult, FoldFunction, FoldFunctionOnSet, MapThenFoldSet

\* Its sizes of sets are those of the layouts.
LEMMA PSize == \A S : P!Cardinality(S) = Cardinality(S)
BY DEF P!Cardinality, Cardinality

\* Its ends of an interval are the interval's.
LEMMA PEnds == \A a, b \in Int : a <= b => P!Min(a .. b) = a /\ P!Max(a .. b) = b
BY DEF P!Min, P!Max

\* p is c but at n, and at the names of S, where it may be anything.
IsMoved(p, c, n, x, S) == p[n] = x /\ \A i \in DOMAIN c \ (S \cup {n}) : p[i] = c[i]
Elsewhere(n, x, c, S) == P!Override(P!Single(n, x), P!Without(c, S))

\* Override sets one coordinate.
LEMMA AtIs ==
  ASSUME NEW n, NEW x, NEW c
  PROVE  IsMoved(P!Override(P!Single(n, x), c), c, n, x, {})
BY DEF IsMoved, P!Override, P!Single

\* Override after dropping dims sets one coordinate and drops those.
LEMMA ElsewhereIs ==
  ASSUME NEW n, NEW x, NEW c, NEW S
  PROVE  IsMoved(Elsewhere(n, x, c, S), c, n, x, S)
BY DEF IsMoved, Elsewhere, P!Override, P!Single, P!Without

BoxAt(l) == [n \in Names(l) |-> l.dims[n].start .. l.dims[n].stop - 1]

\* A point is in the box of a layout when it is in range.
LEMMA InBoxIs ==
  ASSUME NEW l, NEW p
  PROVE  P!InBox(BoxAt(l), p) <=> InRange(l, p)
BY DEF P!InBox, BoxAt, InRange

\* What a step of the machine does to the data: each stays where it was.
Datum(o, v, w, c, p) ==
  IF P!InBox(BoxAt(v.base), p)
  THEN Resolve(w, c) = IF o.op = "field" /\ Resolve(v, p) # Fill THEN Resolve(v, p) + o.offset ELSE Resolve(v, p)
  ELSE o.op \in {"pad", "stencil"} /\ Resolve(w, c) = Fill

\* A point that lands inside the old bounds and resolves the same has its old datum.
LEMMA LandsDatum ==
  ASSUME NEW o, o.op # "field", NEW v, NEW w, NEW c, NEW p, Lands(w, v, c, p)
  PROVE  Datum(o, v, w, c, p)
BY InBoxIs DEF Datum, Lands, SameAt

\* So has one of pad or stencil that is inside, and outside it has the fill.
LEMMA FillsDatum ==
  ASSUME NEW o, o.op \in {"pad", "stencil"}, NEW v, NEW w, NEW c, NEW p, Fills(w, v, c, p)
  PROVE  Datum(o, v, w, c, p)
BY InBoxIs DEF Datum, Fills, SameAt

DataStays(o, v, w) == \A c \in Domain(w.base) : Datum(o, v, w, c, P!Back(o, BoxAt(v.base), c))
Keeps(o, v, w) == IsView(w) /\ DataStays(o, v, w)

-----------------------------------------------------------------------------
(* ONE DIM FOR ONE                                                          *)

\* The point that o takes c to is k steps of m away, from e.
BacksTo(o, v, n, m, k, e) ==
  o.op # "field" /\
  \A c : DOMAIN c = (Names(v.base) \ {n}) \cup {m} /\ (\A i \in DOMAIN c : c[i] \in Int) =>
    StepsTo(v.base, n, m, k, e, c, P!Back(o, BoxAt(v.base), c))

\* An op that puts one dim in place of one leaves each datum where PointMaps says.
LEMMA OneKeeps ==
  ASSUME NEW o, NEW v, NEW n, NEW m, NEW d, NEW k, NEW e, NEW delta, OneForOne(v, n, m, d, k, e, delta),
         Covers(v.base, n, d, k, e), BacksTo(o, v, n, m, k, e)
  PROVE  Keeps(o, v, OneView(v, n, m, d, k, e, delta))
<1>1. PICK w, r : w = OneView(v, n, m, d, k, e, delta) /\ r = PutOne(v.base, n, m, d, delta)
  OBVIOUS
<1>2. IsView(w) /\ w.base = r
  BY <1>1, OneForOneIs
<1>3. Names(r) = (Names(v.base) \ {n}) \cup {m}
  BY <1>1, PutOneIs DEF OneForOne
<1>4. ASSUME NEW c \in Domain(r) PROVE Datum(o, v, w, c, P!Back(o, BoxAt(v.base), c))
  <2>1. PICK p : p = P!Back(o, BoxAt(v.base), c)
    OBVIOUS
  <2>2. DOMAIN c = Names(r) /\ \A i \in Names(r) : c[i] \in Int
    BY <1>2, InDomain DEF IsView, IsPoint
  <2>3. StepsTo(v.base, n, m, k, e, c, p)
    BY <1>3, <2>1, <2>2 DEF BacksTo
  <2>4. Lands(w, v, c, p)
    BY <1>1, <1>2, <2>3, OneLands
  <2>5. o.op # "field"
    BY DEF BacksTo
  <2>6. QED
    BY <2>1, <2>4, <2>5, LandsDatum
<1>5. QED
  BY <1>1, <1>2, <1>4 DEF Keeps, DataStays

\* shift leaves each datum where PointMaps says.
LEMMA ShiftKeeps ==
  ASSUME NEW v, IsView(v), NEW n, n \in Names(v.base), NEW s \in Int
  PROVE  Keeps([op |-> "shift", dim |-> n, by |-> s], v, GShift(v, n, s))
<1>1. PICK o : o = [op |-> "shift", dim |-> n, by |-> s]
  OBVIOUS
<1>2. ASSUME NEW c, DOMAIN c = (Names(v.base) \ {n}) \cup {n}, \A i \in DOMAIN c : c[i] \in Int
      PROVE  StepsTo(v.base, n, n, 1, -s, c, P!Back(o, BoxAt(v.base), c))
  <2>1. P!Back(o, BoxAt(v.base), c) = P!Override(P!Single(n, c[n] - s), c)
    BY <1>1 DEF P!Back
  <2>2. IsMoved(P!Back(o, BoxAt(v.base), c), c, n, c[n] - s, {})
    BY <2>1, AtIs
  <2>3. c[n] - s = 1 * c[n] + -s
    BY <1>2
  <2>4. QED
    BY <1>2, <2>2, <2>3 DEF IsMoved, StepsTo
<1>3. BacksTo(o, v, n, n, 1, -s)
  BY <1>1, <1>2 DEF BacksTo
<1>4. PICK d, delta : /\ GShift(v, n, s) = OneView(v, n, n, d, 1, -s, delta)
                      /\ OneForOne(v, n, n, d, 1, -s, delta) /\ Covers(v.base, n, d, 1, -s)
  BY ShiftIs
<1>5. QED
  BY <1>1, <1>3, <1>4, OneKeeps

\* rename leaves each datum where PointMaps says.
LEMMA RenameKeeps ==
  ASSUME NEW v, IsView(v), NEW n, n \in Names(v.base), NEW m, CanRename(v.base, n, m), NEW axes
  PROVE  Keeps([op |-> "rename", dim |-> n, new |-> m, axes |-> axes], v, GRename(v, n, m))
<1>1. PICK o : o = [op |-> "rename", dim |-> n, new |-> m, axes |-> axes]
  OBVIOUS
<1>2. ASSUME NEW c, DOMAIN c = (Names(v.base) \ {n}) \cup {m}, \A i \in DOMAIN c : c[i] \in Int
      PROVE  StepsTo(v.base, n, m, 1, 0, c, P!Back(o, BoxAt(v.base), c))
  <2>1. P!Back(o, BoxAt(v.base), c) = Elsewhere(n, c[m], c, {m})
    BY <1>1 DEF P!Back, Elsewhere
  <2>2. IsMoved(P!Back(o, BoxAt(v.base), c), c, n, c[m], {m})
    BY <2>1, ElsewhereIs
  <2>3. c[m] = 1 * c[m] + 0
    BY <1>2
  <2>4. m \notin Names(v.base) \ {n}
    BY DEF CanRename
  <2>5. QED
    BY <1>2, <2>2, <2>3, <2>4 DEF IsMoved, StepsTo
<1>3. BacksTo(o, v, n, m, 1, 0)
  BY <1>1, <1>2 DEF BacksTo
<1>4. PICK d, delta : /\ GRename(v, n, m) = OneView(v, n, m, d, 1, 0, delta)
                      /\ OneForOne(v, n, m, d, 1, 0, delta) /\ Covers(v.base, n, d, 1, 0)
  BY RenameIs
<1>5. QED
  BY <1>1, <1>3, <1>4, OneKeeps

\* decimate leaves each datum where PointMaps says.
LEMMA DecimateKeeps ==
  ASSUME NEW v, IsView(v), NEW n, n \in Names(v.base), NEW factor \in Nat \ {0}, NEW phase \in Int
  PROVE  Keeps([op |-> "decimate", dim |-> n, factor |-> factor, phase |-> phase % factor], v,
               GDecimate(v, n, factor, phase))
<1>1. PICK o, e : o = [op |-> "decimate", dim |-> n, factor |-> factor, phase |-> e] /\ e = phase % factor
  OBVIOUS
<1>2. ASSUME NEW c, DOMAIN c = (Names(v.base) \ {n}) \cup {n}, \A i \in DOMAIN c : c[i] \in Int
      PROVE  StepsTo(v.base, n, n, factor, e, c, P!Back(o, BoxAt(v.base), c))
  <2>1. P!Back(o, BoxAt(v.base), c) = P!Override(P!Single(n, factor * c[n] + e), c)
    BY <1>1 DEF P!Back
  <2>2. IsMoved(P!Back(o, BoxAt(v.base), c), c, n, factor * c[n] + e, {})
    BY <2>1, AtIs
  <2>3. QED
    BY <1>2, <2>2 DEF IsMoved, StepsTo
<1>3. BacksTo(o, v, n, n, factor, e)
  BY <1>1, <1>2 DEF BacksTo
<1>4. PICK d, delta : /\ GDecimate(v, n, factor, phase) = OneView(v, n, n, d, factor, e, delta)
                      /\ OneForOne(v, n, n, d, factor, e, delta) /\ Covers(v.base, n, d, factor, e)
  BY <1>1, DecimateIs
<1>5. QED
  BY <1>1, <1>3, <1>4, OneKeeps

\* flip leaves each datum where PointMaps says.
LEMMA FlipKeeps ==
  ASSUME NEW v, IsView(v), NEW n, n \in Names(v.base)
  PROVE  Keeps([op |-> "flip", dim |-> n], v, GFlip(v, n))
<1>1. PICK o, l, u, x, pivot : o = [op |-> "flip", dim |-> n] /\ l = v.base /\ u = l.dims[n].start /\ x = l.dims[n].stop /\ pivot = u + x - 1
  OBVIOUS
<1>2. PICK d, delta : /\ GFlip(v, n) = OneView(v, n, n, d, -1, pivot, delta)
                      /\ OneForOne(v, n, n, d, -1, pivot, delta) /\ Covers(v.base, n, d, -1, pivot)
  BY <1>1, FlipIs
<1>3. PICK w, r : w = OneView(v, n, n, d, -1, pivot, delta) /\ r = PutOne(v.base, n, n, d, delta)
  OBVIOUS
<1>4. IsView(w) /\ w.base = r
  BY <1>2, <1>3, OneForOneIs
<1>5. Names(r) = Names(l) /\ r.dims[n] = d /\ n \in Names(l) /\ IsLayout(l) /\ IsDim(d)
  <2>1. Replaces(v.base, n, n, d) /\ delta \in Int
    BY <1>2 DEF OneForOne
  <2>2. /\ Names(PutOne(v.base, n, n, d, delta)) = (Names(v.base) \ {n}) \cup {n}
        /\ PutOne(v.base, n, n, d, delta).dims[n] = d
    BY <2>1, PutOneIs
  <2>3. QED
    BY <1>1, <1>3, <2>1, <2>2 DEF Replaces
<1>6. u \in Int /\ x \in Int
  BY <1>1, <1>5 DEF IsLayout, IsDim
<1>7. ASSUME NEW c \in Domain(r) PROVE Datum(o, v, w, c, P!Back(o, BoxAt(v.base), c))
  <2>1. PICK p, i : p = P!Back(o, BoxAt(v.base), c) /\ i = c[n]
    OBVIOUS
  <2>2. DOMAIN c = Names(r) /\ \A j \in Names(r) : c[j] \in r.dims[j].start .. r.dims[j].stop - 1
    BY <1>4, InDomain DEF IsView
  <2>3. i \in Int /\ -1 * i + pivot \in u .. x - 1
    <3>1. i \in d.start .. d.stop - 1 /\ d.start \in Int /\ d.stop \in Int
      BY <1>5, <2>1, <2>2 DEF IsDim
    <3>2. -1 * i + pivot \in l.dims[n].start .. l.dims[n].stop - 1
      BY <1>1, <1>2, <3>1 DEF Covers
    <3>3. QED
      BY <1>1, <3>1, <3>2
  <2>4. u <= x - 1
    BY <1>1, <1>6, <2>3
  <2>5. BoxAt(v.base)[n] = u .. x - 1
    BY <1>1, <1>5 DEF BoxAt
  <2>6. P!Min(BoxAt(v.base)[n]) = u /\ P!Max(BoxAt(v.base)[n]) = x - 1
    BY <1>6, <2>4, <2>5, PEnds
  <2>7. p = P!Override(P!Single(n, u + (x - 1) - i), c)
    BY <1>1, <2>1, <2>6 DEF P!Back
  <2>8. IsMoved(p, c, n, u + (x - 1) - i, {})
    BY <2>7, AtIs
  <2>9. u + (x - 1) - i = -1 * i + pivot
    BY <1>1, <1>6, <2>3
  <2>10. StepsTo(v.base, n, n, -1, pivot, c, p)
    BY <1>1, <1>5, <2>1, <2>2, <2>8, <2>9 DEF IsMoved, StepsTo
  <2>11. Lands(w, v, c, p)
    BY <1>2, <1>3, <1>4, <2>10, OneLands
  <2>12. o.op # "field"
    BY <1>1
  <2>13. QED
    BY <2>1, <2>11, <2>12, LandsDatum
<1>8. QED
  BY <1>1, <1>2, <1>3, <1>4, <1>7 DEF Keeps, DataStays

-----------------------------------------------------------------------------
(* TWO DIMS FOR ONE                                                         *)

Somewhere(l, n) == l.dims[n].start <= l.dims[n].stop - 1
TwoBacks(o, v, n, f, a, b, e) ==
  o.op # "field" /\
  \A c : DOMAIN c = (Names(v.base) \ {n}) \cup {a, b} /\ (\A i \in DOMAIN c : c[i] \in Int) /\ Somewhere(v.base, n) =>
    TwoStep(v.base, n, f, a, b, e, c, P!Back(o, BoxAt(v.base), c))

\* An op that puts two dims in place of one leaves each datum where PointMaps says.
LEMMA TwoKeeps ==
  ASSUME NEW o, NEW v, NEW n, NEW new, NEW f, NEW a, NEW b, NEW e, NEW delta,
         TwoForOne(v, n, new, f, a, b, e, delta), TwoCovers(v.base, n, new, f, a, b, e), TwoBacks(o, v, n, f, a, b, e)
  PROVE  Keeps(o, v, TwoView(v, n, new, f, e, delta))
<1>1. PICK w, r : w = TwoView(v, n, new, f, e, delta) /\ r = PutTwo(v.base, n, new, delta)
  OBVIOUS
<1>2. IsView(w) /\ w.base = r
  BY <1>1, TwoForOneIs
<1>3. Names(r) = (Names(v.base) \ {n}) \cup {a, b} /\ r.dims[a] = new[a] /\ r.dims[b] = new[b]
  BY <1>1, PutTwoIs
<1>4. IsDim(v.base.dims[n]) /\ IsDim(new[a]) /\ IsDim(new[b])
  BY DEF TwoForOne, IsView, IsLayout
<1>5. ASSUME NEW c \in Domain(r) PROVE Datum(o, v, w, c, P!Back(o, BoxAt(v.base), c))
  <2>1. PICK p : p = P!Back(o, BoxAt(v.base), c)
    OBVIOUS
  <2>2. DOMAIN c = Names(r) /\ (\A i \in Names(r) : c[i] \in Int) /\ \A i \in Names(r) : c[i] \in r.dims[i].start .. r.dims[i].stop - 1
    BY <1>2, InDomain DEF IsView, IsPoint
  <2>3. f[a] * c[a] + f[b] * c[b] + e \in v.base.dims[n].start .. v.base.dims[n].stop - 1
    BY <1>3, <2>2 DEF TwoCovers
  <2>4. Somewhere(v.base, n)
    <3>1. PICK z : z = f[a] * c[a] + f[b] * c[b] + e
      OBVIOUS
    <3>2. z \in v.base.dims[n].start .. v.base.dims[n].stop - 1
      BY <2>3, <3>1
    <3>3. QED
      BY <1>4, <3>2 DEF Somewhere, IsDim
  <2>5. TwoStep(v.base, n, f, a, b, e, c, p)
    BY <1>3, <2>1, <2>2, <2>4 DEF TwoBacks
  <2>6. Lands(w, v, c, p)
    BY <1>1, <1>2, <2>5, TwoLands
  <2>7. o.op # "field"
    BY DEF TwoBacks
  <2>8. QED
    BY <2>1, <2>6, <2>7, LandsDatum
<1>6. QED
  BY <1>1, <1>2, <1>5 DEF Keeps, DataStays

\* window leaves each datum where PointMaps says.
LEMMA WindowKeeps ==
  ASSUME NEW v, IsView(v), NEW n, n \in Names(v.base), NEW k, NEW lo \in Int, NEW hi \in Int, NEW dilation \in Nat,
         CanWindow(v.base, n, k, lo, hi, dilation)
  PROVE  Keeps([op |-> "window", dim |-> n, new |-> k, lo |-> lo, hi |-> hi, dilation |-> dilation], v,
               GWindow(v, n, k, lo, hi, dilation))
<1>1. PICK o : o = [op |-> "window", dim |-> n, new |-> k, lo |-> lo, hi |-> hi, dilation |-> dilation]
  OBVIOUS
<1>2. PICK new, f : /\ GWindow(v, n, k, lo, hi, dilation) = TwoView(v, n, new, f, 0, 0)
                    /\ TwoForOne(v, n, new, f, n, k, 0, 0) /\ TwoCovers(v.base, n, new, f, n, k, 0)
                    /\ f[n] = 1 /\ f[k] = dilation
  BY WindowIs
<1>3. k \notin Names(v.base)
  BY DEF CanWindow
<1>4. ASSUME NEW c, DOMAIN c = (Names(v.base) \ {n}) \cup {n, k}, \A i \in DOMAIN c : c[i] \in Int
      PROVE  TwoStep(v.base, n, f, n, k, 0, c, P!Back(o, BoxAt(v.base), c))
  <2>1. P!Back(o, BoxAt(v.base), c) = Elsewhere(n, c[n] + dilation * c[k], c, {k})
    BY <1>1 DEF P!Back, Elsewhere
  <2>2. IsMoved(P!Back(o, BoxAt(v.base), c), c, n, c[n] + dilation * c[k], {k})
    BY <2>1, ElsewhereIs
  <2>3. c[n] + dilation * c[k] = f[n] * c[n] + f[k] * c[k] + 0
    <3>1. c[n] \in Int /\ c[k] \in Int
      BY <1>4
    <3>2. dilation * c[k] \in Int
      BY <3>1, IntTimes
    <3>3. QED
      BY <1>2, <3>1, <3>2
  <2>4. QED
    BY <1>3, <1>4, <2>2, <2>3 DEF IsMoved, TwoStep
<1>5. TwoBacks(o, v, n, f, n, k, 0)
  BY <1>1, <1>4 DEF TwoBacks
<1>6. QED
  BY <1>1, <1>2, <1>5, TwoKeeps

\* The point a point of a split stands for.
LEMMA SplitBack ==
  ASSUME NEW n, NEW parts, NEW x, NEW y, TwoParts(parts, x, y), NEW b, NEW c,
         c[x.name] \in Int, c[y.name] \in Int, P!Min(b[n]) \in Int
  PROVE  IsMoved(P!Back([op |-> "split", dim |-> n, parts |-> parts], b, c), c, n,
                 P!Min(b[n]) + (Size(y) * (c[x.name] - x.start) + (c[y.name] - y.start)), {x.name, y.name})
<1>1. PICK o, S, f : /\ o = [op |-> "split", dim |-> n, parts |-> parts] /\ S = {parts[j].name : j \in DOMAIN parts}
                     /\ f = [j \in DOMAIN parts |-> P!Wide(parts, j) * (c[parts[j].name] - parts[j].start)]
  OBVIOUS
<1>2. /\ parts = <<x, y>> /\ x.start \in Int /\ x.stop \in Int /\ y.start \in Int /\ y.stop \in Int
      /\ DOMAIN parts = 1 .. 2 /\ Len(parts) = 2 /\ parts[1] = x /\ parts[2] = y
  BY DEF TwoParts, IsPart
<1>3. S = {x.name, y.name}
  BY <1>1, <1>2
<1>4. P!Wide(parts, 1) = Size(y) /\ P!Wide(parts, 2) = 1
  <2>1. PICK g, h, s, t : /\ g = [i \in (1 + 1) .. Len(parts) |-> parts[i].stop - parts[i].start]
                          /\ h = [i \in (2 + 1) .. Len(parts) |-> parts[i].stop - parts[i].start]
                          /\ s = Size(x) /\ t = Size(y)
    OBVIOUS
  <2>2. s \in Int /\ t \in Int /\ s = x.stop - x.start /\ t = y.stop - y.start
    BY <1>2, <2>1 DEF Size
  <2>3. g = Extents(s, t, 1) /\ h = Extents(s, t, 2)
    BY <1>2, <2>1, <2>2 DEF Extents
  <2>4. Mult(g) = t /\ Mult(h) = 1
    BY <2>2, <2>3, TwoDigits
  <2>5. P!Wide(parts, 1) = P!Multiplied(g) /\ P!Wide(parts, 2) = P!Multiplied(h)
    BY <2>1 DEF P!Wide
  <2>6. QED
    BY <2>1, <2>4, <2>5, PMult
<1>5. P!SumFunction(f) = Size(y) * (c[x.name] - x.start) + (c[y.name] - y.start)
  <2>1. PICK t, u, z : t = Size(y) /\ u = c[x.name] - x.start /\ z = c[y.name] - y.start
    OBVIOUS
  <2>2. t \in Int /\ u \in Int /\ z \in Int
    BY <1>2, <2>1 DEF Size
  <2>3. f[1] = t * u /\ f[2] = z /\ DOMAIN f = {1, 2} /\ f = [j \in {1, 2} |-> f[j]]
    <3>1. 1 .. 2 = {1, 2}
      OBVIOUS
    <3>2. DOMAIN f = {1, 2} /\ f = [j \in {1, 2} |-> f[j]]
      BY <1>1, <1>2, <3>1
    <3>3. f[1] = P!Wide(parts, 1) * (c[x.name] - x.start) /\ f[2] = P!Wide(parts, 2) * (c[y.name] - y.start)
      BY <1>1, <1>2
    <3>4. f[1] = t * u
      BY <1>4, <2>1, <3>3
    <3>5. f[2] = 1 * z
      BY <1>4, <2>1, <3>3
    <3>6. QED
      BY <2>2, <3>2, <3>4, <3>5
  <2>4. t * u \in Int
    BY <2>2, IntTimes
  <2>5. f \in [{1, 2} -> Int]
    BY <2>2, <2>3, <2>4
  <2>6. 1 # 2
    OBVIOUS
  <2>7. SumFunction(f) = f[1] + f[2]
    BY <2>5, <2>6, SumTwo
  <2>8. QED
    BY <2>1, <2>3, <2>7, PSum
<1>6. P!Back(o, b, c) = Elsewhere(n, P!Min(b[n]) + P!SumFunction(f), c, S)
  BY <1>1 DEF P!Back, Elsewhere
<1>7. IsMoved(P!Back(o, b, c), c, n, P!Min(b[n]) + P!SumFunction(f), S)
  BY <1>6, ElsewhereIs
<1>8. QED
  BY <1>1, <1>3, <1>5, <1>7

\* split leaves each datum where PointMaps says.
LEMMA SplitKeeps ==
  ASSUME NEW v, IsView(v), NEW n, n \in Names(v.base), NEW parts, NEW x, NEW y, TwoParts(parts, x, y),
         CanSplit(v.base, n, parts)
  PROVE  Keeps([op |-> "split", dim |-> n, parts |-> parts], v, GSplit(v, n, parts))
<1>1. PICK o, l, s, t : /\ o = [op |-> "split", dim |-> n, parts |-> parts] /\ l = v.base
                        /\ s = l.dims[n].start /\ t = Size(y)
  OBVIOUS
<1>2. PICK new, f, e, delta :
        /\ GSplit(v, n, parts) = TwoView(v, n, new, f, e, delta)
        /\ TwoForOne(v, n, new, f, x.name, y.name, e, delta) /\ TwoCovers(v.base, n, new, f, x.name, y.name, e)
        /\ f[x.name] = Size(y) /\ f[y.name] = 1
        /\ e = v.base.dims[n].start - (Size(y) * x.start + y.start)
  BY SplitIs
<1>3. x.start \in Int /\ y.start \in Int /\ t \in Int /\ s \in Int /\ l.dims[n].stop \in Int
  BY <1>1 DEF TwoParts, IsPart, Size, IsView, IsLayout, IsDim
<1>4. \A i \in Names(l) \ {n} : i # x.name /\ i # y.name
  BY <1>1, <1>2 DEF TwoForOne
<1>5. ASSUME NEW c, DOMAIN c = (Names(l) \ {n}) \cup {x.name, y.name}, \A i \in DOMAIN c : c[i] \in Int, Somewhere(l, n)
      PROVE  TwoStep(l, n, f, x.name, y.name, e, c, P!Back(o, BoxAt(l), c))
  <2>1. PICK i, j, p : i = c[x.name] /\ j = c[y.name] /\ p = P!Back(o, BoxAt(l), c)
    OBVIOUS
  <2>2. i \in Int /\ j \in Int
    BY <1>5, <2>1
  <2>3. BoxAt(l)[n] = s .. l.dims[n].stop - 1
    BY <1>1 DEF BoxAt
  <2>4. P!Min(BoxAt(l)[n]) = s
    BY <1>1, <1>3, <1>5, <2>3, PEnds DEF Somewhere
  <2>5. IsMoved(p, c, n, P!Min(BoxAt(l)[n]) + (Size(y) * (c[x.name] - x.start) + (c[y.name] - y.start)), {x.name, y.name})
    <3>1. c[x.name] \in Int /\ c[y.name] \in Int /\ P!Min(BoxAt(l)[n]) \in Int
      BY <1>3, <2>1, <2>2, <2>4
    <3>2. QED
      BY <1>1, <2>1, <3>1, SplitBack
  <2>6. IsMoved(p, c, n, s + (t * (i - x.start) + (j - y.start)), {x.name, y.name})
    BY <1>1, <2>1, <2>4, <2>5
  <2>7. s + (t * (i - x.start) + (j - y.start)) = t * i + 1 * j + (s - (t * x.start + y.start))
    <3>1. t * (i - x.start) = t * i - t * x.start
      BY <1>3, <2>2
    <3>2. t * i \in Int /\ t * x.start \in Int
      BY <1>3, <2>2, IntTimes
    <3>3. QED
      BY <1>3, <2>2, <3>1, <3>2
  <2>8. p[n] = f[x.name] * c[x.name] + f[y.name] * c[y.name] + e
    BY <1>1, <1>2, <2>1, <2>6, <2>7 DEF IsMoved
  <2>9. \A m \in Names(l) \ {n} : p[m] = c[m]
    BY <1>4, <1>5, <2>6 DEF IsMoved
  <2>10. QED
    BY <2>1, <2>8, <2>9 DEF TwoStep
<1>6. TwoBacks(o, v, n, f, x.name, y.name, e)
  <2>1. o.op # "field"
    BY <1>1
  <2>2. QED
    BY <1>1, <1>5, <2>1 DEF TwoBacks
<1>7. QED
  BY <1>1, <1>2, <1>6, TwoKeeps

-----------------------------------------------------------------------------
(* CONSTRUCTORS                                                             *)

\* pad leaves each datum where PointMaps says, and fills the rest.
LEMMA PadKeeps ==
  ASSUME NEW v, IsView(v), NEW n, n \in Names(v.base), NEW lo \in Int, NEW hi \in Int
  PROVE  Keeps([op |-> "pad", dim |-> n, lo |-> lo, hi |-> hi], v, Pad(v, n, lo, hi))
<1>1. PICK o, w : o = [op |-> "pad", dim |-> n, lo |-> lo, hi |-> hi] /\ w = Pad(v, n, lo, hi)
  OBVIOUS
<1>2. IsView(w) /\ \A c \in Domain(w.base) : Fills(w, v, c, c)
  BY <1>1, PadFills
<1>3. \A c : P!Back(o, BoxAt(v.base), c) = c
  BY <1>1 DEF P!Back
<1>4. o.op \in {"pad", "stencil"}
  BY <1>1
<1>5. \A c \in Domain(w.base) : Datum(o, v, w, c, P!Back(o, BoxAt(v.base), c))
  BY <1>2, <1>3, <1>4, FillsDatum
<1>6. QED
  BY <1>1, <1>2, <1>5 DEF Keeps, DataStays

\* stencil leaves each datum where PointMaps says, and fills the rest.
LEMMA StencilKeeps ==
  ASSUME NEW v, IsView(v), NEW n, n \in Names(v.base), NEW k, NEW lo \in Int, NEW hi \in Int, NEW dilation \in Nat,
         CanStencil(v, n, k, lo, hi)
  PROVE  Keeps([op |-> "stencil", dim |-> n, new |-> k, lo |-> lo, hi |-> hi, dilation |-> dilation], v,
               Stencil(v, n, k, lo, hi, dilation))
<1>1. PICK o, w : o = [op |-> "stencil", dim |-> n, new |-> k, lo |-> lo, hi |-> hi, dilation |-> dilation]
                  /\ w = Stencil(v, n, k, lo, hi, dilation)
  OBVIOUS
<1>2. /\ IsView(w)
      /\ \A c \in Domain(w.base) : \A p : p[n] = c[n] + dilation * c[k] /\ (\A i \in Names(v.base) \ {n} : p[i] = c[i])
                                           => Fills(w, v, c, p)
  BY <1>1, StencilFills
<1>3. k \notin Names(v.base)
  BY DEF CanStencil
<1>4. Names(v.base) \subseteq Names(w.base)
  <2>1. w.base = Put(v.base, {}, Single(k, TapDim(v.base, n, lo, hi + 1, dilation)), 0)
    BY <1>1, ViewIs DEF Stencil
  <2>2. QED
    BY <2>1 DEF Put, Names, Override, Drop
<1>5. ASSUME NEW c \in Domain(w.base) PROVE Datum(o, v, w, c, P!Back(o, BoxAt(v.base), c))
  <2>1. PICK p : p = P!Back(o, BoxAt(v.base), c)
    OBVIOUS
  <2>2. DOMAIN c = Names(w.base)
    BY <1>2, InDomain DEF IsView
  <2>3. p = Elsewhere(n, c[n] + dilation * c[k], c, {k})
    BY <1>1, <2>1 DEF P!Back, Elsewhere
  <2>4. IsMoved(p, c, n, c[n] + dilation * c[k], {k})
    BY <2>3, ElsewhereIs
  <2>5. p[n] = c[n] + dilation * c[k] /\ \A i \in Names(v.base) \ {n} : p[i] = c[i]
    BY <1>3, <1>4, <2>2, <2>4 DEF IsMoved
  <2>6. Fills(w, v, c, p)
    BY <1>2, <2>5
  <2>7. o.op \in {"pad", "stencil"}
    BY <1>1
  <2>8. QED
    BY <2>1, <2>6, <2>7, FillsDatum
<1>6. QED
  BY <1>1, <1>2, <1>5 DEF Keeps, DataStays

-----------------------------------------------------------------------------
(* MERGE                                                                    *)

\* The size of an interval.
LEMMA IntervalSize ==
  ASSUME NEW a \in Int, NEW b \in Int, a <= b
  PROVE  Cardinality(a .. b - 1) = b - a
<1>1. PICK z : z = b - 1
  OBVIOUS
<1>2. Cardinality(a .. z) = IF a > z THEN 0 ELSE z - a + 1
  BY <1>1, FS_Interval
<1>3. QED
  BY <1>1, <1>2

\* The digits of q in the mixed radix of the sizes u and w.
IsDigits(q, u, w) == u \in Nat /\ w \in Nat /\ q \in Int /\ 0 <= q /\ q < u * w

\* The digits of a number below a product of two.
LEMMA DigitsAre ==
  ASSUME NEW q, NEW u, NEW w, IsDigits(q, u, w)
  PROVE  (q \div w) % u = q \div w /\ (q \div 1) % w = q % w
<1>1. u \in Nat /\ w \in Nat /\ q \in Int /\ q < u * w /\ 0 <= q
  BY DEF IsDigits
<1>2. u > 0 /\ w > 0 /\ q \div w \in 0 .. u - 1
  BY <1>1, Digits
<1>3. PICK z : z = q \div w
  OBVIOUS
<1>4. z \in 0 .. u - 1 /\ u \in Nat \ {0}
  BY <1>1, <1>2, <1>3
<1>5. z % u = z
  BY <1>4
<1>6. q \div 1 = q
  BY <1>1
<1>7. QED
  BY <1>3, <1>5, <1>6

MergeBox(b, m, n, sm, sn, lm, ln) ==
  /\ P!Cardinality(b[m]) = sm /\ P!Cardinality(b[n]) = sn /\ P!Min(b[m]) = lm /\ P!Min(b[n]) = ln
  /\ sm \in Nat /\ sn \in Nat
IsMergeOp(o, m, n, parts, name, start) ==
  m # n /\ parts = <<m, n>> /\ o = [op |-> "merge", parts |-> parts, new |-> name, start |-> start]
MergedBack(p, c, m, n, name, start, sn, lm, ln) ==
  /\ p[m] = lm + ((c[name] - start) \div sn)
  /\ p[n] = ln + ((c[name] - start) % sn)
  /\ \A i \in DOMAIN c \ {m, n, name} : p[i] = c[i]

\* The point a merged point stands for.
LEMMA MergeBack ==
  ASSUME NEW m, NEW n, NEW parts, NEW name, NEW start, NEW b, NEW c, NEW o, IsMergeOp(o, m, n, parts, name, start),
         NEW sm, NEW sn, NEW lm, NEW ln, MergeBox(b, m, n, sm, sn, lm, ln), IsDigits(c[name] - start, sm, sn)
  PROVE  MergedBack(P!Back(o, b, c), c, m, n, name, start, sn, lm, ln)
<1>0. m # n /\ parts = <<m, n>> /\ o = [op |-> "merge", parts |-> parts, new |-> name, start |-> start]
  BY DEF IsMergeOp
<1>1. PICK q, R : q = c[name] - start /\ R = P!Range(parts)
  OBVIOUS
<1>2. DOMAIN parts = {1, 2} /\ Len(parts) = 2 /\ parts[1] = m /\ parts[2] = n
  BY <1>0
<1>3. R = {m, n}
  BY <1>1, <1>2 DEF P!Range
<1>4. P!Below(b, parts, 1) = sn /\ P!Below(b, parts, 2) = 1
  <2>1. PICK g, h : /\ g = [i \in (1 + 1) .. Len(parts) |-> P!Cardinality(b[parts[i]])]
                    /\ h = [i \in (2 + 1) .. Len(parts) |-> P!Cardinality(b[parts[i]])]
    OBVIOUS
  <2>2. sm \in Int /\ sn \in Int
    BY DEF MergeBox
  <2>3. g = Extents(sm, sn, 1) /\ h = Extents(sm, sn, 2)
    <3>1. (1 + 1) .. 2 = {2} /\ (2 + 1) .. 2 = {}
      OBVIOUS
    <3>2. P!Cardinality(b[parts[2]]) = sn
      BY <1>2 DEF MergeBox
    <3>3. QED
      BY <1>2, <2>1, <3>1, <3>2 DEF Extents
  <2>4. Mult(g) = sn /\ Mult(h) = 1
    BY <2>2, <2>3, TwoDigits
  <2>5. P!Below(b, parts, 1) = P!Multiplied(g) /\ P!Below(b, parts, 2) = P!Multiplied(h)
    BY <2>1 DEF P!Below
  <2>6. QED
    BY <2>4, <2>5, PMult
<1>. DEFINE J(k) == CHOOSE j \in DOMAIN parts : parts[j] = k
<1>5. J(m) = 1 /\ J(n) = 2
  BY <1>0, <1>2
<1>. DEFINE F == [k \in R |-> P!Min(b[k]) + ((q \div P!Below(b, parts, J(k))) % P!Cardinality(b[k]))]
<1>6. P!Back(o, b, c) = P!Override(F, P!Without(c, {name}))
  BY <1>0, <1>1 DEF P!Back
<1>7. F[m] = lm + ((q \div sn) % sm) /\ F[n] = ln + ((q \div 1) % sn)
  <2>1. F[m] = P!Min(b[m]) + ((q \div P!Below(b, parts, J(m))) % P!Cardinality(b[m]))
    BY <1>3
  <2>2. F[n] = P!Min(b[n]) + ((q \div P!Below(b, parts, J(n))) % P!Cardinality(b[n]))
    BY <1>3
  <2>. HIDE DEF F, J
  <2>3. QED
    BY <1>4, <1>5, <2>1, <2>2 DEF MergeBox
<1>8. DOMAIN F = {m, n}
  BY <1>3
<1>. HIDE DEF F
<1>9. /\ P!Back(o, b, c)[m] = F[m] /\ P!Back(o, b, c)[n] = F[n]
      /\ \A i \in DOMAIN c \ {m, n, name} : P!Back(o, b, c)[i] = c[i]
  BY <1>6, <1>8 DEF P!Override, P!Without
<1>10. (q \div sn) % sm = q \div sn /\ (q \div 1) % sn = q % sn
  BY <1>1, DigitsAre
<1>11. QED
  BY <1>1, <1>7, <1>9, <1>10 DEF MergedBack

\* merge leaves each datum where PointMaps says.
LEMMA MergeKeeps ==
  ASSUME NEW v, NEW m, NEW n, NEW parts, NEW name, Merged(v, m, n, parts, name), NEW start \in Int
  PROVE  Keeps([op |-> "merge", parts |-> parts, new |-> name, start |-> start], v, GMerge(v, parts, name, start))
<1>1. PICK o, l, w : /\ o = [op |-> "merge", parts |-> parts, new |-> name, start |-> start] /\ l = v.base
                     /\ w = GMerge(v, parts, name, start)
  OBVIOUS
<1>2. PICK d, delta : IsMerge(v, m, n, parts, name, start, d, delta)
  BY MergeIs
<1>3. PICK r : r = MergePut(l, m, n, name, d, delta)
  OBVIOUS
<1>4. MergeSetting(v, m, n, parts, name, start, d, delta, l, r)
  BY <1>1, <1>2, <1>3 DEF MergeSetting
<1>5. MergedLayout(l, r, m, n, name, d)
  BY <1>4, MergePutIs
<1>6. w.base = r /\ IsView(v)
  BY <1>1, <1>2, <1>3, ViewIs DEF GMerge, IsMerge, Merged
<1>7. IsView(w) /\ \A c \in Domain(r) : \A p : MergeStep(l, m, n, name, start, c, p) => Lands(w, v, c, p)
  BY <1>1, <1>6, MergeLands
<1>8. PICK sm, sn, lm, ln : sm = Size(l.dims[m]) /\ sn = Size(l.dims[n]) /\ lm = l.dims[m].start /\ ln = l.dims[n].start
  OBVIOUS
<1>9. /\ m \in Names(l) /\ n \in Names(l) /\ m # n /\ parts = <<m, n>> /\ IsLayout(l)
      /\ l.dims[m].start <= l.dims[m].stop /\ l.dims[n].start <= l.dims[n].stop
  BY <1>1, <1>5 DEF Merged, MergedLayout
<1>10. /\ lm \in Int /\ ln \in Int /\ sm \in Nat /\ sn \in Nat
       /\ l.dims[m].stop \in Int /\ l.dims[n].stop \in Int
       /\ sm = l.dims[m].stop - lm /\ sn = l.dims[n].stop - ln
  BY <1>8, <1>9 DEF IsLayout, IsDim, Size
<1>11. ASSUME NEW c \in Domain(r) PROVE Datum(o, v, w, c, P!Back(o, BoxAt(v.base), c))
  <2>1. PICK b, p, i : b = BoxAt(l) /\ p = P!Back(o, b, c) /\ i = c[name]
    OBVIOUS
  <2>2. /\ DOMAIN c = (Names(l) \ {m, n}) \cup {name} /\ IsDim(d)
        /\ c[name] \in d.start .. d.stop - 1
    <3>1. DOMAIN c = Names(r) /\ \A j \in Names(r) : c[j] \in r.dims[j].start .. r.dims[j].stop - 1
      BY <1>5, InDomain DEF MergedLayout
    <3>2. Names(r) = (Names(l) \ {m, n}) \cup {name} /\ r.dims[name] = d
      BY <1>5 DEF MergedLayout, MergedNames
    <3>3. IsDim(d)
      BY <1>2 DEF IsMerge
    <3>4. QED
      BY <3>1, <3>2, <3>3
  <2>3. IsDigits(i - start, sm, sn)
    <3>1. d.start = start /\ d.stop = start + sm * sn
      BY <1>1, <1>2, <1>8 DEF IsMerge
    <3>2. PICK t : t = sm * sn
      OBVIOUS
    <3>3. t \in Int
      BY <1>10, <3>2, IntTimes
    <3>4. i \in start .. start + t - 1
      BY <2>1, <2>2, <3>1, <3>2
    <3>5. i \in Int /\ 0 <= i - start /\ i - start < t
      BY <3>3, <3>4
    <3>6. QED
      BY <1>10, <3>2, <3>5 DEF IsDigits
  <2>4. sm > 0 /\ sn > 0
    BY <2>3, Digits DEF IsDigits
  <2>5. MergeBox(b, m, n, sm, sn, lm, ln)
    <3>1. b[m] = lm .. l.dims[m].stop - 1 /\ b[n] = ln .. l.dims[n].stop - 1
      BY <1>8, <1>9, <2>1 DEF BoxAt
    <3>2. P!Min(b[m]) = lm /\ P!Min(b[n]) = ln
      BY <1>10, <2>4, <3>1, PEnds
    <3>3. Cardinality(b[m]) = sm /\ Cardinality(b[n]) = sn
      BY <1>8, <1>9, <1>10, <3>1, IntervalSize
    <3>4. QED
      BY <1>10, <3>2, <3>3, PSize DEF MergeBox
  <2>6. /\ p[m] = lm + ((c[name] - start) \div sn) /\ p[n] = ln + ((c[name] - start) % sn)
        /\ \A j \in DOMAIN c \ {m, n, name} : p[j] = c[j]
    <3>1. IsMergeOp(o, m, n, parts, name, start)
      BY <1>1, <1>9 DEF IsMergeOp
    <3>2. IsDigits(c[name] - start, sm, sn)
      BY <2>1, <2>3
    <3>3. MergedBack(P!Back(o, b, c), c, m, n, name, start, sn, lm, ln)
      BY <2>5, <3>1, <3>2, MergeBack
    <3>4. QED
      BY <2>1, <3>3 DEF MergedBack
  <2>7. name \notin Names(l) \ {m, n}
    BY <1>5 DEF MergedLayout, Unused
  <2>8. MergeStep(l, m, n, name, start, c, p)
    BY <1>8, <2>2, <2>6, <2>7 DEF MergeStep
  <2>9. Lands(w, v, c, p)
    BY <1>7, <2>8
  <2>10. o.op # "field"
    BY <1>1
  <2>11. QED
    BY <1>1, <2>1, <2>9, <2>10, LandsDatum
<1>12. QED
  BY <1>1, <1>6, <1>7, <1>11 DEF Keeps, DataStays

-----------------------------------------------------------------------------
(* DIAGONAL, of two dims                                                    *)

\* A set of two elements.
LEMMA TwoElements ==
  ASSUME NEW S, IsFiniteSet(S), Cardinality(S) = 2
  PROVE  \E x, y : x # y /\ S = {x, y}
<1>1. S # {}
  BY FS_EmptySet
<1>2. PICK x : x \in S
  BY <1>1
<1>3. IsFiniteSet(S \ {x}) /\ Cardinality(S \ {x}) = 1
  BY <1>2, FS_RemoveElement
<1>4. S \ {x} # {}
  BY <1>3, FS_EmptySet
<1>5. PICK y : y \in S \ {x}
  BY <1>4
<1>6. IsFiniteSet((S \ {x}) \ {y}) /\ Cardinality((S \ {x}) \ {y}) = 0
  BY <1>3, <1>5, FS_RemoveElement
<1>7. (S \ {x}) \ {y} = {}
  BY <1>6, FS_EmptySet
<1>8. QED
  BY <1>2, <1>5, <1>7

\* diagonal leaves each datum where PointMaps says.
LEMMA DiagonalKeeps ==
  ASSUME NEW v, NEW parts, NEW x, NEW y, NEW name, Diagonals(v, parts, x, y, name)
  PROVE  Keeps([op |-> "diagonal", parts |-> parts, new |-> name], v, GDiagonal(v, parts, name))
<1>1. PICK o, l, w : o = [op |-> "diagonal", parts |-> parts, new |-> name] /\ l = v.base /\ w = GDiagonal(v, parts, name)
  OBVIOUS
<1>2. IsView(w) /\ \A c \in Domain(w.base) : \A p : DiagonalStep(l, parts, name, c, p) => Lands(w, v, c, p)
  BY <1>1, DiagonalLands
<1>3. name \notin Names(l) \ parts
  BY <1>1 DEF Diagonals, CanDiagonal
<1>4. Names(l) \ parts \subseteq Names(w.base)
  <2>1. w.base = Diagonal(l, parts, name)
    BY <1>1, ViewIs DEF GDiagonal, Diagonals
  <2>2. PICK d : IsDiagonal(v.base, parts, x, y, name, d)
    BY DiagonalIs
  <2>3. PICK new : w.base = Put(l, parts, new, 0)
    BY <1>1, <2>1, <2>2 DEF IsDiagonal, DiagonalPut
  <2>4. QED
    BY <2>3 DEF Put, Names, Override, Drop
<1>5. ASSUME NEW c \in Domain(w.base) PROVE Datum(o, v, w, c, P!Back(o, BoxAt(v.base), c))
  <2>1. PICK p : p = P!Back(o, BoxAt(v.base), c)
    OBVIOUS
  <2>2. DOMAIN c = Names(w.base)
    BY <1>2, InDomain DEF IsView
  <2>3. p = P!Override([k \in parts |-> c[name]], P!Without(c, {name}))
    BY <1>1, <2>1 DEF P!Back
  <2>4. DiagonalStep(l, parts, name, c, p)
    BY <1>3, <1>4, <2>2, <2>3 DEF DiagonalStep, P!Override, P!Without
  <2>5. Lands(w, v, c, p)
    BY <1>2, <2>4
  <2>6. o.op # "field"
    BY <1>1
  <2>7. QED
    BY <2>1, <2>5, <2>6, LandsDatum
<1>6. QED
  BY <1>1, <1>2, <1>5 DEF Keeps, DataStays

-----------------------------------------------------------------------------
(* OPERATIONS THAT LEAVE EVERY POINT IN PLACE                               *)

InPlace == {"slice", "simplify", "with_charts", "with_labels", "strip_charts", "bind", "recenter", "frames", "store", "field"}

\* The ops that change bounds or metadata take each point to itself.
LEMMA BackInPlace ==
  ASSUME NEW o, o.op \in InPlace, NEW b, NEW c
  PROVE  P!Back(o, b, c) = c
BY DEF InPlace, P!Back

\* An op that takes each point to itself and lands leaves each datum in place.
LEMMA SameKeeps ==
  ASSUME NEW o, o.op \in InPlace, o.op # "field", NEW v, NEW w, IsView(w), \A c \in Domain(w.base) : Lands(w, v, c, c)
  PROVE  Keeps(o, v, w)
<1>1. ASSUME NEW c \in Domain(w.base) PROVE Datum(o, v, w, c, P!Back(o, BoxAt(v.base), c))
  <2>1. P!Back(o, BoxAt(v.base), c) = c
    BY BackInPlace
  <2>2. Lands(w, v, c, c)
    OBVIOUS
  <2>3. Datum(o, v, w, c, c)
    BY <2>2, LandsDatum
  <2>4. QED
    BY <2>1, <2>3
<1>2. QED
  BY <1>1 DEF Keeps, DataStays

\* slice leaves each datum in place.
LEMMA SliceKeeps ==
  ASSUME NEW o, o.op = "slice", NEW v, IsView(v), NEW n, n \in Names(v.base), NEW lo \in Int, NEW hi \in Int,
         CanSlice(v.base, n, lo, hi)
  PROVE  Keeps(o, v, GSlice(v, n, lo, hi))
<1>1. IsView(GSlice(v, n, lo, hi)) /\ \A c \in Domain(GSlice(v, n, lo, hi).base) : Lands(GSlice(v, n, lo, hi), v, c, c)
  BY SliceLands
<1>2. o.op \in InPlace /\ o.op # "field"
  BY DEF InPlace
<1>3. QED
  BY <1>1, <1>2, SameKeeps

\* An op that relabels leaves each datum in place.
LEMMA RelabelKeeps ==
  ASSUME NEW o, o.op \in InPlace, o.op # "field", NEW v, IsView(v), NEW r, Relabels(r, v.base)
  PROVE  Keeps(o, v, Rebase(v, r))
<1>1. SameMap(r, v.base)
  BY DEF Relabels
<1>2. IsView(Rebase(v, r))
  BY <1>1, RebaseStays
<1>3. \A c \in Domain(Rebase(v, r).base) : Lands(Rebase(v, r), v, c, c)
  BY RelabelsLands
<1>4. QED
  BY <1>2, <1>3, SameKeeps

\* A point of the domain is in the bounds.
LEMMA DomainInRange ==
  ASSUME NEW v, IsView(v), NEW c, c \in Domain(v.base)
  PROVE  InRange(v.base, c)
<1>1. IsLayout(v.base)
  BY DEF IsView
<1>2. QED
  BY <1>1, InDomain DEF InRange

\* discharge leaves each datum in place.
LEMMA SimplifyKeeps ==
  ASSUME NEW o, o.op = "simplify", NEW v, IsView(v)
  PROVE  Keeps(o, v, Simplify(v))
<1>1. IsView(Simplify(v)) /\ Simplify(v).base = v.base
  BY SimplifyIs
<1>2. ASSUME NEW c \in Domain(Simplify(v).base) PROVE Lands(Simplify(v), v, c, c)
  <2>1. c \in Domain(v.base)
    BY <1>1
  <2>2. QED
    BY <2>1, SimplifyStays, DomainInRange DEF Lands
<1>3. o.op \in InPlace /\ o.op # "field"
  BY DEF InPlace
<1>4. QED
  BY <1>1, <1>2, <1>3, SameKeeps

\* Taking a frame or storing leaves the view alone.
LEMMA NothingKeeps ==
  ASSUME NEW o, o.op \in {"frames", "store"}, NEW v, IsView(v)
  PROVE  Keeps(o, v, v)
<1>1. ASSUME NEW c \in Domain(v.base) PROVE Lands(v, v, c, c)
  BY DomainInRange DEF Lands, SameAt
<1>2. o.op \in InPlace /\ o.op # "field"
  BY DEF InPlace
<1>3. QED
  BY <1>1, <1>2, SameKeeps

FieldOf(v, f) == [Rebase(v, [v.base EXCEPT !.offset = @ + f]) EXCEPT !.size = @ - f]

\* field moves each datum by the offset of the field and keeps the fill.
LEMMA FieldKeeps ==
  ASSUME Fill \notin Int, NEW f \in Nat, NEW v, IsView(v), v.size > f
  PROVE  Keeps([op |-> "field", offset |-> f], v, FieldOf(v, f))
<1>1. PICK o, l, r, u, w : /\ o = [op |-> "field", offset |-> f] /\ l = v.base /\ r = [l EXCEPT !.offset = @ + f]
                           /\ u = Rebase(v, r) /\ w = [u EXCEPT !.size = @ - f]
  OBVIOUS
<1>2. w = FieldOf(v, f)
  BY <1>1 DEF FieldOf
<1>3. IsLayout(l) /\ v.size \in Nat
  BY <1>1 DEF IsView
<1>4. Names(r) = Names(l) /\ r.offset = l.offset + f /\ r.dims = l.dims /\ {"dims", "offset"} \subseteq DOMAIN r
  BY <1>1, <1>3 DEF Names, IsLayout
<1>5. IsLayout(r)
  BY <1>3, <1>4 DEF IsLayout
<1>6. {"base", "guards", "size"} \subseteq DOMAIN u /\ u.base = r /\ u.guards = v.guards /\ u.size = v.size
  BY <1>1, RebaseIs
<1>7. {"base", "guards", "size"} \subseteq DOMAIN w /\ w.base = r /\ w.guards = v.guards /\ w.size = v.size - f
  BY <1>1, <1>6
<1>8. IsView(w)
  <2>1. v.size - f \in Nat
    BY <1>3
  <2>2. QED
    BY <1>1, <1>4, <1>5, <1>7, <2>1 DEF IsView
<1>9. ASSUME NEW c \in Domain(r) PROVE Datum(o, v, w, c, P!Back(o, BoxAt(v.base), c))
  <2>1. P!Back(o, BoxAt(v.base), c) = c
    BY <1>1, BackInPlace DEF InPlace
  <2>2. IsPoint(r, c) /\ \A n \in Names(r) : c[n] \in r.dims[n].start .. r.dims[n].stop - 1
    BY <1>5, InDomain
  <2>3. InRange(l, c) /\ IsPoint(l, c)
    BY <1>4, <2>2 DEF InRange, IsPoint
  <2>4. PICK x, y, t : x = GetLoc(l, c) /\ y = GetLoc(r, c) /\ t = SumFunction(Terms(l, c))
    OBVIOUS
  <2>5. Terms(r, c) = Terms(l, c)
    BY <1>4 DEF Terms
  <2>6. x = l.offset + t /\ y = l.offset + f + t
    BY <1>4, <2>4, <2>5, LocIs
  <2>7. x \in Int /\ t \in Int /\ l.offset \in Int
    <3>1. Terms(l, c) \in [Names(l) -> Int] /\ IsFiniteSet(Names(l)) /\ l.offset \in Int
      BY <1>3, <2>3, TermsInt DEF IsLayout
    <3>2. t \in Int
      BY <2>4, <3>1, SumInt
    <3>3. QED
      BY <2>6, <3>1, <3>2
  <2>8. y = x + f
    BY <2>6, <2>7
  <2>9. x # Fill
    BY <2>7
  <2>10. Resolve(w, c) = IF Resolve(v, c) # Fill THEN Resolve(v, c) + f ELSE Resolve(v, c)
    BY <1>1, <1>7, <2>4, <2>8, <2>9 DEF Resolve
  <2>11. P!InBox(BoxAt(v.base), c)
    BY <1>1, <2>3, InBoxIs
  <2>12. o.op = "field" /\ o.offset = f
    BY <1>1
  <2>13. QED
    BY <2>1, <2>10, <2>11, <2>12 DEF Datum
<1>10. QED
  BY <1>1, <1>2, <1>7, <1>8, <1>9 DEF Keeps, DataStays

-----------------------------------------------------------------------------
(* SELECT, REPEAT                                                           *)

\* select drops the dims it fixes.
LEMMA SelectedNames ==
  ASSUME NEW v, NEW points, Selects(v, points)
  PROVE  Names(GSelect(v, points).base) = Names(v.base) \ DOMAIN points
<1>1. PICK r : r = CompensateAxes(v.base, points)
  OBVIOUS
<1>2. IsView(v) /\ IsLayout(v.base)
  BY DEF Selects, IsView
<1>3. Compensated(v.base, points, r)
  BY <1>1, <1>2, CompensateIs
<1>4. GSelect(v, points).base = Select(v.base, points)
  BY <1>2, ViewIs DEF GSelect
<1>5. Select(v.base, points).dims = r.dims
  BY <1>1, <1>3 DEF Select, Compensated
<1>6. QED
  BY <1>3, <1>4, <1>5 DEF Names, Compensated

SelectsBack(o, v, points) ==
  o.op # "field" /\ \A c : DOMAIN c = Names(v.base) \ DOMAIN points => SelectStep(v.base, points, c, P!Back(o, BoxAt(v.base), c))

\* An op that fixes dims leaves each datum at the points it fixes.
LEMMA SelectingKeeps ==
  ASSUME NEW o, NEW v, NEW points, Selects(v, points), SelectsBack(o, v, points)
  PROVE  Keeps(o, v, GSelect(v, points))
<1>1. PICK w : w = GSelect(v, points)
  OBVIOUS
<1>2. IsView(w) /\ \A c \in Domain(w.base) : \A p : SelectStep(v.base, points, c, p) => Lands(w, v, c, p)
  BY <1>1, SelectLands
<1>3. Names(w.base) = Names(v.base) \ DOMAIN points
  BY <1>1, SelectedNames
<1>4. ASSUME NEW c \in Domain(w.base) PROVE Datum(o, v, w, c, P!Back(o, BoxAt(v.base), c))
  <2>1. PICK p : p = P!Back(o, BoxAt(v.base), c)
    OBVIOUS
  <2>2. DOMAIN c = Names(v.base) \ DOMAIN points
    BY <1>2, <1>3, InDomain DEF IsView
  <2>3. SelectStep(v.base, points, c, p) /\ o.op # "field"
    BY <2>1, <2>2 DEF SelectsBack
  <2>4. Lands(w, v, c, p)
    BY <1>2, <2>3
  <2>5. QED
    BY <2>1, <2>3, <2>4, LandsDatum
<1>5. QED
  BY <1>1, <1>2, <1>4 DEF Keeps, DataStays

\* select leaves each datum where PointMaps says.
LEMMA SelectKeeps ==
  ASSUME NEW v, NEW points, Selects(v, points)
  PROVE  Keeps([op |-> "select", points |-> points], v, GSelect(v, points))
<1>1. PICK o : o = [op |-> "select", points |-> points]
  OBVIOUS
<1>2. ASSUME NEW c, DOMAIN c = Names(v.base) \ DOMAIN points
      PROVE  SelectStep(v.base, points, c, P!Back(o, BoxAt(v.base), c))
  <2>1. P!Back(o, BoxAt(v.base), c) = P!Override(points, c)
    BY <1>1 DEF P!Back
  <2>2. QED
    BY <1>2, <2>1 DEF SelectStep, P!Override
<1>3. SelectsBack(o, v, points)
  BY <1>1, <1>2 DEF SelectsBack
<1>4. QED
  BY <1>1, <1>3, SelectingKeeps

\* repeat leaves each datum in place at every new coordinate.
LEMMA RepeatKeeps ==
  ASSUME NEW v, NEW n, NEW lo, NEW hi, Repeated(v, n, lo, hi), NEW chart, NEW labels,
         NEW o, o.op = "repeat", o.dim = n
  PROVE  Keeps(o, v, GRepeat(v, n, lo, hi, chart, labels))
<1>1. PICK w : w = GRepeat(v, n, lo, hi, chart, labels)
  OBVIOUS
<1>2. /\ IsView(w)
      /\ \A c \in Domain(w.base) : \A p : (\A i \in Names(v.base) : p[i] = c[i]) => Lands(w, v, c, p)
  BY <1>1, RepeatLands
<1>3. Names(v.base) \subseteq Names(w.base)
  <2>1. w.base = Repeat(v.base, n, lo, hi, chart, labels)
    BY <1>1, RebaseIs DEF GRepeat, Repeated
  <2>2. QED
    BY <2>1 DEF Repeat, Put, Names, Override, Drop
<1>4. ASSUME NEW c \in Domain(w.base) PROVE Datum(o, v, w, c, P!Back(o, BoxAt(v.base), c))
  <2>1. PICK p : p = P!Back(o, BoxAt(v.base), c)
    OBVIOUS
  <2>2. DOMAIN c = Names(w.base)
    BY <1>2, InDomain DEF IsView
  <2>3. p = P!Without(c, {n})
    BY <2>1 DEF P!Back
  <2>4. \A i \in Names(v.base) : p[i] = c[i]
    BY <1>3, <2>2, <2>3 DEF P!Without, Repeated
  <2>5. Lands(w, v, c, p)
    BY <1>2, <2>4
  <2>6. o.op # "field"
    OBVIOUS
  <2>7. QED
    BY <2>1, <2>5, <2>6, LandsDatum
<1>5. QED
  BY <1>1, <1>2, <1>4 DEF Keeps, DataStays

-----------------------------------------------------------------------------
(* A SUBSCRIPT: a point, or a slice decimated in phase with it              *)

\* A subscript by a coordinate leaves each datum where PointMaps says.
LEMMA PointKeeps ==
  ASSUME NEW v, IsView(v), NEW n, n \in Names(v.base), NEW i \in Int, InDim(v.base.dims[n], i)
  PROVE  Keeps([op |-> "subscript", dim |-> n, lo |-> i, step |-> 0], v, GSelect(v, Single(n, i)))
<1>1. PICK o, points : o = [op |-> "subscript", dim |-> n, lo |-> i, step |-> 0] /\ points = Single(n, i)
  OBVIOUS
<1>2. DOMAIN points = {n} /\ points[n] = i
  BY <1>1 DEF Single
<1>3. Selects(v, points)
  BY <1>2 DEF Selects, CanSelect
<1>4. ASSUME NEW c, DOMAIN c = Names(v.base) \ DOMAIN points
      PROVE  SelectStep(v.base, points, c, P!Back(o, BoxAt(v.base), c))
  <2>1. P!Back(o, BoxAt(v.base), c) = P!Override(P!Single(n, i), c)
    BY <1>1 DEF P!Back
  <2>2. IsMoved(P!Back(o, BoxAt(v.base), c), c, n, i, {})
    BY <2>1, AtIs
  <2>3. QED
    BY <1>2, <1>4, <2>2 DEF SelectStep, IsMoved
<1>5. SelectsBack(o, v, points)
  BY <1>1, <1>4 DEF SelectsBack
<1>6. QED
  BY <1>1, <1>3, <1>5, SelectingKeeps

\* The places a slice visits lie within those the subscript admits.
IsSlicing(v, n, lo, hi, step) ==
  /\ IsView(v) /\ n \in Names(v.base) /\ lo \in Int /\ hi \in Int /\ lo <= hi /\ step \in Nat \ {0}
  /\ lo # hi => v.base.dims[n].start <= lo /\ hi <= v.base.dims[n].stop
Sliced(v, n, lo, hi, step) ==
  IF lo = hi \/ step = 1 THEN GSlice(v, n, lo, hi) ELSE GDecimate(GSlice(v, n, lo, hi), n, step, lo % step)
\* Where the subscript with step takes a point.
Strides(n, lo, step, c, p, l) == p[n] = step * c[n] + (lo % step) /\ \A i \in Names(l) \ {n} : p[i] = c[i]

\* A subscript by a slice, with or without a step, lands.
LEMMA SlicedLands ==
  ASSUME NEW v, NEW n, NEW lo, NEW hi, NEW step, IsSlicing(v, n, lo, hi, step)
  PROVE  /\ IsView(Sliced(v, n, lo, hi, step)) /\ Names(Sliced(v, n, lo, hi, step).base) = Names(v.base)
         /\ Sliced(v, n, lo, hi, step).size = v.size
         /\ \A c \in Domain(Sliced(v, n, lo, hi, step).base) :
              \A p : Strides(n, lo, step, c, p, v.base) => Lands(Sliced(v, n, lo, hi, step), v, c, p)
<1>1. PICK l, r, u : l = v.base /\ r = Slice(l, n, lo, hi) /\ u = Rebase(v, r)
  OBVIOUS
<1>2. u = GSlice(v, n, lo, hi)
  BY <1>1 DEF GSlice
<1>3. /\ IsView(v) /\ n \in Names(l) /\ lo \in Int /\ hi \in Int /\ lo <= hi /\ step \in Nat \ {0} /\ IsLayout(l)
      /\ CanSlice(l, n, lo, hi)
  BY <1>1 DEF IsSlicing, IsView, CanSlice
<1>4. SameMap(r, l) /\ Inside(r, l) /\ r.dims[n].start = lo /\ r.dims[n].stop = hi
  BY <1>1, <1>3, SliceInside, SliceStays
<1>5. IsView(u) /\ u.base = r /\ u.size = v.size /\ (\A c : SameAt(u, v, c, c)) /\ Names(r) = Names(l)
  <2>1. IsView(u) /\ u.base = r /\ \A c : SameAt(u, v, c, c)
    BY <1>1, <1>3, <1>4, RebaseStays
  <2>2. u.size = v.size
    BY <1>1, <1>3, RebaseIs
  <2>3. QED
    BY <1>4, <2>1, <2>2 DEF SameMap
<1>6. ASSUME NEW c, InRange(r, c) PROVE Lands(u, v, c, c)
  BY <1>1, <1>4, <1>5, <1>6 DEF Lands, InRange, Inside, SameMap
<1>7. lo % step \in Int /\ (lo % step) % step = lo % step /\ (step = 1 => lo % step = 0)
  <2>1. PICK e : e = lo % step
    OBVIOUS
  <2>2. e \in Int /\ 0 <= e /\ e < step
    BY <1>3, <2>1, ModIs
  <2>3. e % step = e
    BY <1>3, <2>2
  <2>4. step = 1 => e = 0
    BY <2>2
  <2>5. QED
    BY <2>1, <2>2, <2>3, <2>4
<1>8. CASE lo = hi
  <2>1. Sliced(v, n, lo, hi, step) = u
    BY <1>2, <1>8 DEF Sliced
  <2>2. ASSUME NEW c \in Domain(r) PROVE FALSE
    <3>1. c[n] \in r.dims[n].start .. r.dims[n].stop - 1
      BY <1>3, <1>5, <2>2, InDomain DEF IsView
    <3>2. c[n] \in lo .. hi - 1
      BY <1>4, <3>1
    <3>3. QED
      BY <1>3, <1>8, <3>2
  <2>3. QED
    BY <1>1, <1>5, <2>1, <2>2
<1>9. CASE step = 1
  <2>1. Sliced(v, n, lo, hi, step) = u
    BY <1>2, <1>9 DEF Sliced
  <2>2. ASSUME NEW c \in Domain(r), NEW p, Strides(n, lo, step, c, p, l) PROVE Lands(u, v, c, p)
    <3>1. IsPoint(r, c) /\ \A m \in Names(r) : c[m] \in r.dims[m].start .. r.dims[m].stop - 1
      BY <1>5, InDomain DEF IsView
    <3>2. c[n] \in Int
      BY <1>3, <1>5, <3>1 DEF IsPoint
    <3>3. p[n] = c[n]
      BY <1>7, <1>9, <2>2, <3>2 DEF Strides
    <3>4. \A m \in Names(l) : p[m] = c[m]
      BY <2>2, <3>3 DEF Strides
    <3>5. InRange(r, c)
      BY <3>1 DEF InRange
    <3>6. Lands(u, v, c, c)
      BY <1>6, <3>5
    <3>7. SameAt(v, v, c, p)
      BY <1>1, <1>3, <3>4, SamePoint
    <3>8. InRange(l, p)
      BY <1>1, <3>4, <3>6 DEF Lands, InRange
    <3>9. QED
      BY <1>1, <3>6, <3>7, <3>8 DEF Lands, SameAt
  <2>3. QED
    BY <1>1, <1>5, <2>1, <2>2
<1>10. CASE lo # hi /\ step # 1
  <2>1. PICK w : w = GDecimate(u, n, step, lo % step)
    OBVIOUS
  <2>2. Sliced(v, n, lo, hi, step) = w
    BY <1>2, <1>10, <2>1 DEF Sliced
  <2>3. PICK e : e = lo % step
    OBVIOUS
  <2>4. PICK d, delta : w = OneView(u, n, n, d, step, e, delta) /\ OneForOne(u, n, n, d, step, e, delta) /\ Covers(u.base, n, d, step, e)
    <3>1. n \in Names(u.base)
      BY <1>3, <1>5
    <3>2. \E d, delta : /\ GDecimate(u, n, step, lo % step) = OneView(u, n, n, d, step, (lo % step) % step, delta)
                        /\ OneForOne(u, n, n, d, step, (lo % step) % step, delta)
                        /\ Covers(u.base, n, d, step, (lo % step) % step)
      BY <1>3, <1>5, <1>7, <3>1, DecimateIs
    <3>3. QED
      BY <1>7, <2>1, <2>3, <3>2
  <2>5. IsView(w) /\ w.base = PutOne(u.base, n, n, d, delta)
    BY <2>4, OneForOneIs
  <2>6. Names(w.base) = Names(l)
    <3>1. Replaces(u.base, n, n, d) /\ delta \in Int
      BY <2>4 DEF OneForOne
    <3>2. Names(PutOne(u.base, n, n, d, delta)) = (Names(u.base) \ {n}) \cup {n}
      BY <3>1, PutOneIs
    <3>3. QED
      BY <1>3, <1>5, <2>5, <3>2
  <2>7. w.size = v.size
    <3>1. w.size = u.size
      BY <1>5, <2>1, ViewIs DEF GDecimate
    <3>2. QED
      BY <1>5, <3>1
  <2>8. ASSUME NEW c \in Domain(w.base), NEW p, Strides(n, lo, step, c, p, l) PROVE Lands(w, v, c, p)
    <3>1. StepsTo(u.base, n, n, step, e, c, p)
      BY <1>5, <2>3, <2>8 DEF Strides, StepsTo
    <3>2. Lands(w, u, c, p)
      BY <2>4, <3>1, OneLands
    <3>3. InRange(r, p)
      BY <1>5, <3>2 DEF Lands
    <3>4. Lands(u, v, p, p)
      BY <1>6, <3>3
    <3>5. QED
      BY <3>2, <3>4 DEF Lands, SameAt
  <2>9. QED
    BY <1>1, <2>2, <2>5, <2>6, <2>7, <2>8
<1>11. QED
  BY <1>8, <1>9, <1>10

\* A subscript by a slice leaves each datum where PointMaps says.
LEMMA SlicedKeeps ==
  ASSUME NEW v, NEW n, NEW lo, NEW hi, NEW step, IsSlicing(v, n, lo, hi, step), NEW last
  PROVE  Keeps([op |-> "subscript", dim |-> n, lo |-> lo, hi |-> last, step |-> step], v, Sliced(v, n, lo, hi, step))
<1>1. PICK o, w : o = [op |-> "subscript", dim |-> n, lo |-> lo, hi |-> last, step |-> step] /\ w = Sliced(v, n, lo, hi, step)
  OBVIOUS
<1>2. /\ IsView(w) /\ Names(w.base) = Names(v.base)
      /\ \A c \in Domain(w.base) : \A p : Strides(n, lo, step, c, p, v.base) => Lands(w, v, c, p)
  BY <1>1, SlicedLands
<1>3. ASSUME NEW c \in Domain(w.base) PROVE Datum(o, v, w, c, P!Back(o, BoxAt(v.base), c))
  <2>1. PICK p : p = P!Back(o, BoxAt(v.base), c)
    OBVIOUS
  <2>2. step # 0
    BY DEF IsSlicing
  <2>3. p = P!Override(P!Single(n, (step * c[n]) + (lo % step)), c)
    BY <1>1, <2>1, <2>2 DEF P!Back
  <2>4. IsMoved(p, c, n, (step * c[n]) + (lo % step), {})
    BY <2>3, AtIs
  <2>5. DOMAIN c = Names(v.base)
    BY <1>2, InDomain DEF IsView
  <2>6. Strides(n, lo, step, c, p, v.base)
    BY <2>4, <2>5 DEF Strides, IsMoved
  <2>7. Lands(w, v, c, p)
    BY <1>2, <2>6
  <2>8. o.op # "field"
    BY <1>1
  <2>9. QED
    BY <2>1, <2>7, <2>8, LandsDatum
<1>4. QED
  BY <1>1, <1>2, <1>3 DEF Keeps, DataStays

==============================================================================
