---------------------------- MODULE PointProofs ------------------------------
(***************************************************************************)
(* Lemmas about what a view says of its points, for every layout, guard    *)
(* and chart.  First what one view says: what a store writes, and whether  *)
(* the injectivity verdict, the footprint and the other verdicts are true. *)
(* Then what an operation does to the coordinates: that its box is the one *)
(* of PointMaps, that the old point it names has the same position on each *)
(* axis both views know, and the same labels.  Tells(o, l, r) says the     *)
(* last three things at once, and that the names and the labels stay       *)
(* strings; there is a lemma about it for each operation.                  *)
(***************************************************************************)
EXTENDS LayoutProofs, SequenceTheorems

-----------------------------------------------------------------------------
(* STORES: places, the last point to write each, and what is written        *)

\* The image of a finite set is finite.
Image(f, S) == {f[x] : x \in S}

\* The image of a finite set is finite.
LEMMA ImageFinite ==
  ASSUME NEW S, IsFiniteSet(S), NEW f, DOMAIN f = S, f = [x \in S |-> f[x]]
  PROVE  IsFiniteSet(Image(f, S))
<1>1. PICK T : T = Image(f, S)
  OBVIOUS
<1>2. f \in Surjection(S, T)
  BY <1>1 DEF Surjection, Image
<1>3. QED
  BY <1>1, <1>2, FS_Surjection

\* One dim more keeps the points finitely many.
LEMMA GridStepFinite ==
  ASSUME NEW old, IsFiniteSet(old), NEW b, NEW x, b[x].start \in Int, b[x].stop \in Int
  PROVE  IsFiniteSet(GridStep(b, old, x))
<1>1. PICK I : I = b[x].start .. b[x].stop - 1
  OBVIOUS
<1>2. IsFiniteSet(I)
  BY <1>1, FS_Interval
<1>3. PICK S : S = old \X I
  OBVIOUS
<1>4. IsFiniteSet(S)
  BY <1>2, <1>3, FS_Product
<1>5. PICK f : f = [z \in S |-> Override(z[1], Single(x, z[2]))]
  OBVIOUS
<1>6. IsFiniteSet(Image(f, S))
  BY <1>4, <1>5, ImageFinite
<1>7. Image(f, S) = GridStep(b, old, x)
  <2>1. ASSUME NEW c \in old, NEW i \in I PROVE Override(c, Single(x, i)) \in Image(f, S)
    <3>1. PICK z : z = <<c, i>>
      OBVIOUS
    <3>2. z \in S /\ z[1] = c /\ z[2] = i
      BY <1>3, <3>1
    <3>3. f[z] = Override(c, Single(x, i))
      BY <1>5, <3>2
    <3>4. QED
      BY <3>2, <3>3 DEF Image
  <2>2. ASSUME NEW y \in Image(f, S) PROVE \E c \in old, i \in I : y = Override(c, Single(x, i))
    <3>1. PICK z \in S : y = f[z]
      BY DEF Image
    <3>2. z[1] \in old /\ z[2] \in I
      BY <1>3, <3>1
    <3>3. QED
      BY <1>5, <3>1, <3>2
  <2>3. QED
    BY <1>1, <2>1, <2>2 DEF GridStep
<1>8. QED
  BY <1>6, <1>7

\* A layout has finitely many points.
LEMMA DomainFinite ==
  ASSUME NEW l, IsLayout(l)
  PROVE  IsFiniteSet(Domain(l))
<1>1. PICK S, b : S = Names(l) /\ b = l.dims
  OBVIOUS
<1>2. IsFiniteSet(S) /\ \A n \in S : b[n].start \in Int /\ b[n].stop \in Int
  BY <1>1 DEF IsLayout, IsDim
<1>3. PICK I : I = {s \in SUBSET S : IsFiniteSet(Grid(b, s))}
  OBVIOUS
<1>4. {} \in I
  <2>1. IsFiniteSet(Grid(b, {}))
    <3>1. IsFiniteSet({<<>>})
      BY FS_Singleton, Zenon
    <3>2. Grid(b, {}) = {<<>>}
      BY GridEmpty, Zenon
    <3>3. QED
      BY <3>1, <3>2, Zenon
  <2>2. QED
    BY <1>3, <2>1
<1>5. ASSUME NEW T \in SUBSET S, NEW x \in S, T \in I, x \notin T PROVE T \cup {x} \in I
  <2>1. PICK s : s = T \cup {x}
    OBVIOUS
  <2>2. s \ {x} = T /\ x \in s /\ s \in SUBSET S
    BY <1>5, <2>1
  <2>3. Grid(b, s) = GridStep(b, Grid(b, s \ {x}), x)
    BY <1>2, <2>2, GridGrows
  <2>4. IsFiniteSet(Grid(b, T))
    BY <1>3, <1>5
  <2>5. IsFiniteSet(GridStep(b, Grid(b, T), x))
    BY <1>2, <2>4, GridStepFinite
  <2>6. QED
    BY <1>3, <2>1, <2>2, <2>3, <2>5
<1>6. \A T \in SUBSET S : T \in I
  BY <1>2, <1>4, <1>5, SubsetInduction
<1>7. QED
  BY <1>1, <1>3, <1>6, DomainIs

\* The points of a place.
PointsAt(l, p) == {c \in Domain(l) : GetLoc(l, c) = p}

\* The addresses of a layout are finitely many integers.
LEMMA PlacesFinite ==
  ASSUME NEW l, IsLayout(l)
  PROVE  IsFiniteSet(Places(l)) /\ Places(l) \subseteq Int
<1>1. PICK S, f : S = Domain(l) /\ f = [c \in S |-> GetLoc(l, c)]
  OBVIOUS
<1>2. IsFiniteSet(Image(f, S))
  BY <1>1, ImageFinite, DomainFinite
<1>3. Image(f, S) = Places(l)
  BY <1>1 DEF Image, Places
<1>4. \A c \in Domain(l) : GetLoc(l, c) \in Int
  BY InDomain, LocInt
<1>5. QED
  BY <1>2, <1>3, <1>4 DEF Places

-----------------------------------------------------------------------------
(* CHOICES                                                                  *)

\* The functions that choose a member of A[p] for each p of s.
ChoicesOf(A, D, s) == {f \in [s -> D] : \A p \in s : f[p] \in A[p]}
ChoiceStep(A, old, x) == {Override(f, Single(x, c)) : f \in old, c \in A[x]}

\* There is one choice for no places.
LEMMA NoChoice == \A A, D : ChoicesOf(A, D, {}) = {<<>>}
<1>1. TAKE A, D
<1>2. <<>> \in [{} -> D]
  OBVIOUS
<1>3. \A f \in [{} -> D] : f = <<>>
  BY <1>2
<1>4. QED
  BY <1>2, <1>3 DEF ChoicesOf

\* The choices for one place more.
LEMMA ChoicesGrow ==
  ASSUME NEW s, NEW D, NEW A, \A p \in s : A[p] \subseteq D, NEW x \in s
  PROVE  ChoicesOf(A, D, s) = ChoiceStep(A, ChoicesOf(A, D, s \ {x}), x)
<1>1. ASSUME NEW f \in ChoicesOf(A, D, s) PROVE f \in ChoiceStep(A, ChoicesOf(A, D, s \ {x}), x)
  <2>1. PICK e : e = [n \in s \ {x} |-> f[n]]
    OBVIOUS
  <2>2. e \in ChoicesOf(A, D, s \ {x})
    BY <2>1 DEF ChoicesOf
  <2>3. f[x] \in A[x] /\ f \in [s -> D]
    BY DEF ChoicesOf
  <2>4. f = Override(e, Single(x, f[x]))
    <3>1. DOMAIN Override(e, Single(x, f[x])) = s
      BY <2>1 DEF Override, Single
    <3>2. \A n \in s : Override(e, Single(x, f[x]))[n] = f[n]
      BY <2>1, <3>1 DEF Override, Single
    <3>3. Override(e, Single(x, f[x])) = [n \in DOMAIN Override(e, Single(x, f[x])) |-> Override(e, Single(x, f[x]))[n]]
      BY DEF Override
    <3>4. QED
      BY <2>3, <3>1, <3>2, <3>3
  <2>5. QED
    BY <2>2, <2>3, <2>4 DEF ChoiceStep
<1>2. ASSUME NEW e \in ChoicesOf(A, D, s \ {x}), NEW c \in A[x]
      PROVE  Override(e, Single(x, c)) \in ChoicesOf(A, D, s)
  <2>1. e \in [s \ {x} -> D] /\ \A p \in s \ {x} : e[p] \in A[p]
    BY DEF ChoicesOf
  <2>2. Override(e, Single(x, c)) = [n \in s |-> IF n \in s \ {x} THEN e[n] ELSE c]
    BY <2>1 DEF Override, Single
  <2>3. c \in D
    OBVIOUS
  <2>4. QED
    BY <2>1, <2>2, <2>3 DEF ChoicesOf
<1>3. \A f \in ChoiceStep(A, ChoicesOf(A, D, s \ {x}), x) : f \in ChoicesOf(A, D, s)
  BY <1>2 DEF ChoiceStep
<1>4. QED
  BY <1>1, <1>3

\* Every choice of a last point for each place is made.
AtPlaces(l, S) == [p \in S |-> PointsAt(l, p)]

\* Lasts, built a place at a time, are all the ways to choose which of the points at a
\* place writes last.
LEMMA LastsAre ==
  ASSUME NEW l, NEW S, IsFiniteSet(S)
  PROVE  Lasts(l, S) = ChoicesOf(AtPlaces(l, S), Domain(l), S)
<1>1. PICK A, D : A = AtPlaces(l, S) /\ D = Domain(l)
  OBVIOUS
<1>2. \A p \in S : A[p] \subseteq D /\ A[p] = {c \in Domain(l) : GetLoc(l, c) = p}
  BY <1>1 DEF AtPlaces, PointsAt
<1>. DEFINE Step(F, s) == {Override(f, Single(Pick(s), c)) : f \in F[s \ {Pick(s)}],
                                                               c \in {c \in Domain(l) : GetLoc(l, c) = Pick(s)}}
            Eq(F) == F = [s \in SUBSET S |-> IF s = {} THEN {<<>>} ELSE Step(F, s)]
            Iter == CHOOSE F : Eq(F)
            G == [s \in SUBSET S |-> ChoicesOf(A, D, s)]
<1>3. ASSUME NEW s \in SUBSET S, s # {}
      PROVE  ChoicesOf(A, D, s) = ChoiceStep(A, ChoicesOf(A, D, s \ {Pick(s)}), Pick(s))
  <2>1. Pick(s) \in s /\ \A p \in s : A[p] \subseteq D
    BY <1>2, <1>3, Picked
  <2>2. QED
    BY <2>1, ChoicesGrow
<1>4. ASSUME NEW F, NEW s \in SUBSET S, s # {} PROVE Step(F, s) = ChoiceStep(A, F[s \ {Pick(s)}], Pick(s))
  <2>1. Pick(s) \in S
    BY <1>4, Picked
  <2>2. A[Pick(s)] = {c \in Domain(l) : GetLoc(l, c) = Pick(s)}
    BY <1>2, <2>1
  <2>3. QED
    BY <2>2 DEF ChoiceStep
<1>5. ASSUME NEW s \in SUBSET S PROVE G[s] = IF s = {} THEN {<<>>} ELSE Step(G, s)
  <2>1. G[s] = ChoicesOf(A, D, s) /\ G[s \ {Pick(s)}] = ChoicesOf(A, D, s \ {Pick(s)})
    OBVIOUS
  <2>. HIDE DEF G, Step
  <2>2. QED
    BY <1>3, <1>4, <2>1, NoChoice
<1>6. Eq(G)
  <2>1. G = [s \in SUBSET S |-> G[s]]
    OBVIOUS
  <2>. HIDE DEF G, Step
  <2>2. QED
    BY <1>5, <2>1
<1>7. Eq(Iter)
  <2>. HIDE DEF G, Eq
  <2>. QED
    BY <1>6
<1>8. \A s \in SUBSET S : Iter[s] = IF s = {} THEN {<<>>} ELSE Step(Iter, s)
  <2>. HIDE DEF Iter, Step
  <2>. QED
    BY <1>7
<1>. HIDE DEF Iter, Eq
<1>9. Lasts(l, S) = Iter[S]
  BY DEF Lasts, FoldSet, MapThenFoldSet, Pick, Iter, Eq, Step
<1>. HIDE DEF Step
<1>10. PICK F, H : F = Iter /\ H = G
  OBVIOUS
<1>11. SameSteps(F, H, S)
  <2>. HIDE DEF G
  <2>1. \A s \in SUBSET S : F[s] = IF s = {} THEN {<<>>} ELSE ChoiceStep(A, F[s \ {Pick(s)}], Pick(s))
    BY <1>4, <1>8, <1>10
  <2>2. \A s \in SUBSET S : H[s] = IF s = {} THEN {<<>>} ELSE ChoiceStep(A, H[s \ {Pick(s)}], Pick(s))
    BY <1>4, <1>5, <1>10
  <2>3. QED
    BY <2>1, <2>2 DEF SameSteps
<1>12. F[S] = H[S]
  <2>. HIDE DEF G
  <2>. QED
    BY <1>11, FoldsAgree
<1>13. H[S] = ChoicesOf(A, D, S)
  BY <1>10
<1>14. QED
  BY <1>1, <1>9, <1>10, <1>12, <1>13

-----------------------------------------------------------------------------
(* WHAT A STORE WRITES                                                      *)

\* The bytes p .. p + size - 1 of now replaced.
Written(now, p, size, bytes) == [b \in DOMAIN now |-> IF p <= b /\ b < p + size THEN bytes[b - p] ELSE now[b]]
\* Bytes written at the places S, in some order.
Over(r, m, S, size, val) ==
  /\ r = [b \in DOMAIN m |-> r[b]]
  /\ \A b \in DOMAIN m :
       \/ r[b] = m[b] /\ \A p \in S : ~(p <= b /\ b < p + size)
       \/ \E p \in S : p <= b /\ b < p + size /\ r[b] = val[p][b - p]

\* Writing one more place.
LEMMA OverOne ==
  ASSUME NEW m, NEW S, NEW size, NEW val, NEW r, NEW x, Over(r, m, S, size, val), NEW t, t = Written(r, x, size, val[x]),
         NEW T, x \in T, S = T \ {x}
  PROVE  Over(t, m, T, size, val)
<1>1. DOMAIN r = DOMAIN m
  BY DEF Over
<1>2. t = [b \in DOMAIN m |-> IF x <= b /\ b < x + size THEN val[x][b - x] ELSE r[b]]
  BY <1>1 DEF Written
<1>3. ASSUME NEW b \in DOMAIN m
      PROVE \/ t[b] = m[b] /\ \A p \in T : ~(p <= b /\ b < p + size)
            \/ \E p \in T : p <= b /\ b < p + size /\ t[b] = val[p][b - p]
  <2>1. CASE x <= b /\ b < x + size
    BY <1>2, <2>1
  <2>2. CASE ~(x <= b /\ b < x + size)
    <3>1. t[b] = r[b]
      BY <1>2, <2>2
    <3>2. \/ r[b] = m[b] /\ \A p \in S : ~(p <= b /\ b < p + size)
          \/ \E p \in S : p <= b /\ b < p + size /\ r[b] = val[p][b - p]
      BY DEF Over
    <3>3. QED
      BY <2>2, <3>1, <3>2
  <2>3. QED
    BY <2>1, <2>2
<1>4. t = [b \in DOMAIN m |-> t[b]]
  BY <1>2
<1>5. QED
  BY <1>3, <1>4 DEF Over

\* One write of a value after another gives what was there or what was written.
WriteStep(m, size, val, F, s) == IF s = {} THEN m ELSE Written(F[s \ {Pick(s)}], Pick(s), size, val[Pick(s)])
IsRun(F, Ps, m, size, val) == F = [s \in SUBSET Ps |-> WriteStep(m, size, val, F, s)]

\* A fold of writes leaves every byte as it was or as one of the places wrote it.
LEMMA WritesOver ==
  ASSUME NEW Ps, IsFiniteSet(Ps), NEW m, m = [b \in DOMAIN m |-> m[b]], NEW size, NEW val, NEW F,
         \A s \in SUBSET Ps : F[s] = WriteStep(m, size, val, F, s)
  PROVE  Over(F[Ps], m, Ps, size, val)
<1>1. PICK Bad : Bad = {s \in SUBSET Ps : ~Over(F[s], m, s, size, val)}
  OBVIOUS
<1>2. ASSUME Bad # {} PROVE FALSE
  <2>1. Bad \in SUBSET (SUBSET Ps)
    BY <1>1
  <2>2. PICK s \in Bad : \A U \in SUBSET s : U # s => U \notin Bad
    BY <1>2, <2>1, LeastSubset
  <2>3. s \in SUBSET Ps /\ F[s] = WriteStep(m, size, val, F, s)
    BY <1>1
  <2>4. CASE s = {}
    <3>1. F[s] = m
      BY <2>3, <2>4 DEF WriteStep
    <3>2. Over(m, m, s, size, val)
      BY <2>4 DEF Over
    <3>3. QED
      BY <1>1, <3>1, <3>2
  <2>5. CASE s # {}
    <3>1. PICK x, T : x = Pick(s) /\ T = s \ {x}
      OBVIOUS
    <3>2. x \in s /\ T \in SUBSET s /\ T # s
      BY <2>5, <3>1, Picked
    <3>3. Over(F[T], m, T, size, val)
      BY <1>1, <2>2, <2>3, <3>2
    <3>4. F[s] = Written(F[T], x, size, val[x])
      BY <2>3, <2>5, <3>1 DEF WriteStep
    <3>5. Over(F[s], m, s, size, val)
      BY <3>1, <3>2, <3>3, <3>4, OverOne
    <3>6. QED
      BY <1>1, <3>5
  <2>6. QED
    BY <2>4, <2>5
<1>3. QED
  BY <1>1, <1>2

\* A fold of writes over a finite set of places exists.
LEMMA WritesExist ==
  ASSUME NEW Ps, IsFiniteSet(Ps), Ps \subseteq Int, NEW m, m = [b \in DOMAIN m |-> m[b]], DOMAIN m \subseteq Int, NEW size, NEW val
  PROVE  \E F : IsRun(F, Ps, m, size, val)
<1>. DEFINE D == DOMAIN m
            Old == {m[b] : b \in D}
            New == {val[p][j] : p \in Ps, j \in Int}
            R == Old \cup New
            V == [D -> R]
<1>2. m \in V
  OBVIOUS
<1>3. ASSUME NEW x \in Ps, NEW now \in V PROVE Written(now, x, size, val[x]) \in V
  <2>1. DOMAIN now = D /\ \A b \in D : now[b] \in R
    OBVIOUS
  <2>2. \A b \in D : val[x][b - x] \in R
    <3>1. \A b \in D : b - x \in Int
      OBVIOUS
    <3>2. QED
      BY <3>1
  <2>. HIDE DEF R
  <2>3. QED
    BY <2>1, <2>2 DEF Written
<1>. HIDE DEF V
<1>4. PICK step, pick : /\ step = [x \in Ps |-> [now \in V |-> Written(now, x, size, val[x])]]
                        /\ pick = [s \in SUBSET Ps |-> Pick(s)]
  OBVIOUS
<1>5. step \in [Ps -> [V -> V]]
  BY <1>3, <1>4
<1>6. IsFold(Ps, V, m, step, pick)
  BY <1>2, <1>4, <1>5, Picked DEF IsFold
<1>7. PICK F : Folds(F, Ps, V, m, step, pick)
  BY <1>6, FoldedAll
<1>8. ASSUME NEW s \in SUBSET Ps PROVE F[s] = WriteStep(m, size, val, F, s)
  <2>1. F[s] = FoldStep(F, m, step, pick, s) /\ pick[s] = Pick(s) /\ F \in [SUBSET Ps -> V]
    BY <1>4, <1>7 DEF Folds
  <2>2. CASE s = {}
    BY <2>1, <2>2 DEF FoldStep, WriteStep
  <2>3. CASE s # {}
    <3>1. Pick(s) \in Ps /\ s \ {Pick(s)} \in SUBSET Ps
      BY <2>3, Picked
    <3>2. PICK x, now : x = Pick(s) /\ now = F[s \ {Pick(s)}]
      OBVIOUS
    <3>3. x \in Ps /\ now \in V
      BY <2>1, <3>1, <3>2
    <3>4. step[x][now] = Written(now, x, size, val[x])
      BY <1>4, <3>3
    <3>5. QED
      BY <2>1, <2>3, <3>2, <3>4 DEF FoldStep, WriteStep
  <2>4. QED
    BY <2>2, <2>3
<1>9. F = [s \in SUBSET Ps |-> F[s]]
  BY <1>7 DEF Folds
<1>10. QED
  BY <1>8, <1>9 DEF IsRun

\* What is written at each place.
ValuesOf(m, v, w, last, S) == [p \in S |-> ValueAt(m, v, w, last[p])]

\* WritesOf, one place after another, leaves each byte as it was, or as it was written by
\* a place that covers it.
LEMMA WritesAre ==
  ASSUME NEW v, IsView(v), NEW m, m = [b \in DOMAIN m |-> m[b]], DOMAIN m \subseteq Int, NEW w,
         NEW Ps, Ps = Places(v.base), NEW last, last \in ChoicesOf(AtPlaces(v.base, Ps), Domain(v.base), Ps)
  PROVE  Over(WritesOf(m, v, w, last, Ps), m, Ps, v.size, ValuesOf(m, v, w, last, Ps))
<1>1. PICK size, val : size = v.size /\ val = ValuesOf(m, v, w, last, Ps)
  OBVIOUS
<1>2. IsFiniteSet(Ps) /\ Ps \subseteq Int
  BY PlacesFinite DEF IsView
<1>3. ASSUME NEW p \in Ps, NEW now PROVE Wrote(now, v, last[p], ValueAt(m, v, w, last[p])) = Written(now, p, size, val[p])
  <2>1. GetLoc(v.base, last[p]) = p
    BY DEF ChoicesOf, AtPlaces, PointsAt
  <2>2. val[p] = ValueAt(m, v, w, last[p])
    BY <1>1 DEF ValuesOf
  <2>3. QED
    BY <1>1, <2>1, <2>2 DEF Wrote, Written
<1>. DEFINE Step(F, s) == Wrote(F[s \ {Pick(s)}], v, last[Pick(s)], ValueAt(m, v, w, last[Pick(s)]))
            Eq(F) == F = [s \in SUBSET Ps |-> IF s = {} THEN m ELSE Step(F, s)]
            Iter == CHOOSE F : Eq(F)
<1>4. PICK G : IsRun(G, Ps, m, size, val)
  BY <1>2, WritesExist
<1>5. ASSUME NEW F, NEW s \in SUBSET Ps PROVE WriteStep(m, size, val, F, s) = IF s = {} THEN m ELSE Step(F, s)
  <2>1. CASE s = {}
    BY <2>1 DEF WriteStep
  <2>2. CASE s # {}
    <3>1. Pick(s) \in Ps
      BY <2>2, Picked
    <3>2. QED
      BY <1>3, <2>2, <3>1 DEF WriteStep
  <2>3. QED
    BY <2>1, <2>2
<1>6. Eq(G)
  <2>. HIDE DEF Step
  <2>1. \A s \in SUBSET Ps : WriteStep(m, size, val, G, s) = IF s = {} THEN m ELSE Step(G, s)
    BY <1>5
  <2>2. QED
    BY <1>4, <2>1 DEF IsRun
<1>7. Eq(Iter)
  <2>. HIDE DEF Eq
  <2>. QED
    BY <1>6
<1>8. \A s \in SUBSET Ps : Iter[s] = IF s = {} THEN m ELSE Step(Iter, s)
  <2>. HIDE DEF Iter, Step
  <2>. QED
    BY <1>7
<1>. HIDE DEF Iter, Eq
<1>9. WritesOf(m, v, w, last, Ps) = Iter[Ps]
  BY DEF WritesOf, FoldSet, MapThenFoldSet, Pick, Iter, Eq, Step
<1>. HIDE DEF Step
<1>10. PICK F : F = Iter
  OBVIOUS
<1>11. \A s \in SUBSET Ps : F[s] = WriteStep(m, size, val, F, s)
  BY <1>5, <1>8, <1>10
<1>12. Over(F[Ps], m, Ps, size, val)
  BY <1>2, <1>11, WritesOver
<1>13. QED
  BY <1>1, <1>9, <1>10, <1>12

\* A store writes, at every place of the view, the value of a point of that place.
IsStored(r, m, v, w, last) ==
  /\ last \in ChoicesOf(AtPlaces(v.base, Places(v.base)), Domain(v.base), Places(v.base))
  /\ Over(r, m, Places(v.base), v.size, ValuesOf(m, v, w, last, Places(v.base)))

\* So does a store, for some choice of the points that write last.
LEMMA StoredAre ==
  ASSUME NEW v, IsView(v), NEW m, m = [b \in DOMAIN m |-> m[b]], DOMAIN m \subseteq Int, NEW w, NEW r \in Stored(m, v, w)
  PROVE  \E last : IsStored(r, m, v, w, last)
<1>1. PICK Ps : Ps = Places(v.base)
  OBVIOUS
<1>2. Stored(m, v, w) = {WritesOf(m, v, w, last, Ps) : last \in Lasts(v.base, Ps)}
  BY <1>1 DEF Stored
<1>3. PICK last : last \in Lasts(v.base, Ps) /\ r = WritesOf(m, v, w, last, Ps)
  BY <1>2
<1>4. last \in ChoicesOf(AtPlaces(v.base, Ps), Domain(v.base), Ps)
  BY <1>1, <1>3, LastsAre, PlacesFinite DEF IsView
<1>5. Over(r, m, Ps, v.size, ValuesOf(m, v, w, last, Ps))
  BY <1>1, <1>3, <1>4, WritesAre
<1>6. QED
  BY <1>1, <1>4, <1>5 DEF IsStored

-----------------------------------------------------------------------------
(* THE INJECTIVITY VERDICT                                                  *)

\* A finite set of dims has one of greatest stride.
LEMMA Widest ==
  ASSUME NEW S, IsFiniteSet(S), S # {}, NEW f, \A n \in S : f[n] \in Int
  PROVE  \E n \in S : \A m \in S : f[m] <= f[n]
<1>1. PICK I : I = {T \in SUBSET S : T = {} \/ \E n \in T : \A m \in T : f[m] <= f[n]}
  OBVIOUS
<1>2. {} \in I
  BY <1>1
<1>3. ASSUME NEW T \in SUBSET S, NEW x \in S, T \in I, x \notin T PROVE T \cup {x} \in I
  <2>1. CASE T = {}
    BY <1>1, <2>1
  <2>2. CASE T # {}
    <3>1. PICK n \in T : \A m \in T : f[m] <= f[n]
      BY <1>1, <1>3, <2>2
    <3>2. PICK U : U = T \cup {x}
      OBVIOUS
    <3>3. CASE f[x] <= f[n]
      <4>1. n \in U /\ \A m \in U : f[m] <= f[n]
        BY <3>1, <3>2, <3>3
      <4>2. QED
        BY <1>1, <3>2, <4>1
    <3>4. CASE ~(f[x] <= f[n])
      <4>1. \A m \in T : f[m] <= f[x]
        BY <3>1, <3>4
      <4>2. x \in U /\ \A m \in U : f[m] <= f[x]
        BY <3>2, <4>1
      <4>3. QED
        BY <1>1, <3>2, <4>2
    <3>5. QED
      BY <3>3, <3>4
  <2>3. QED
    BY <2>1, <2>2
<1>4. \A T \in SUBSET S : T \in I
  BY <1>2, <1>3, SubsetInduction
<1>5. QED
  BY <1>1, <1>4

\* Two coordinates of a dim differ by at most its size less one, times its stride.
LEMMA TermWithin ==
  ASSUME NEW s \in Int, NEW x \in Int, NEW y \in Int, NEW a \in Int, NEW b \in Int,
         a <= x, x < b, a <= y, y < b
  PROVE  /\ Abs(s) * (b - a - 1) \in Nat
         /\ s * (x - y) <= Abs(s) * (b - a - 1) /\ -(Abs(s) * (b - a - 1)) <= s * (x - y)
<1>1. PICK k, r, t : k = x - y /\ r = b - a - 1 /\ t = Abs(s)
  OBVIOUS
<1>2. k \in Int /\ r \in Nat /\ k <= r /\ -r <= k /\ t \in Nat /\ (t = s \/ t = -s)
  BY <1>1 DEF Abs
<1>3. t * r \in Nat /\ t * k <= t * r /\ t * (-r) <= t * k
  BY <1>2
<1>4. t * (-r) = -(t * r)
  BY <1>2
<1>5. s * k = t * k \/ s * k = -(t * k)
  <2>1. (-s) * k = -(s * k)
    BY <1>2
  <2>2. QED
    BY <1>2, <2>1
<1>6. t * k \in Int /\ s * k \in Int
  BY <1>2
<1>7. QED
  BY <1>1, <1>3, <1>4, <1>5, <1>6

\* A difference that is not 0 moves an address by a stride at least.
LEMMA TermNot ==
  ASSUME NEW s \in Int, NEW k \in Int, k # 0
  PROVE  Abs(s) <= s * k \/ s * k <= -Abs(s)
<1>1. PICK t : t = Abs(s)
  OBVIOUS
<1>2. t \in Nat /\ (t = s \/ t = -s)
  BY <1>1 DEF Abs
<1>3. s * k = t * k \/ s * k = -(t * k)
  <2>1. (-s) * k = -(s * k)
    OBVIOUS
  <2>2. QED
    BY <1>2, <2>1
<1>4. t * k \in Int /\ (t <= t * k \/ t * k <= -t)
  <2>1. CASE k >= 1
    BY <1>2, <2>1
  <2>2. CASE k <= -1
    <3>1. t * k <= t * (-1)
      BY <1>2, <2>2
    <3>2. t * (-1) = -t
      BY <1>2
    <3>3. QED
      BY <1>2, <3>1, <3>2
  <2>3. QED
    BY <2>1, <2>2
<1>5. QED
  BY <1>1, <1>2, <1>3, <1>4

\* The dims no wider than n, and how far each reaches.
Below(l, n) == {m \in Active(l) \ {n} : Abs(l.dims[m].stride) <= Abs(l.dims[n].stride)}
Reaches(l, B) == [m \in B |-> Abs(l.dims[m].stride) * (Size(l.dims[m]) - 1)]
Separates(l) ==
  \A n \in Active(l) : l.dims[n].stride # 0 /\ SumFunction(Reaches(l, Below(l, n))) < Abs(l.dims[n].stride)

\* The verdict injective means that each stride exceeds the reach of those below it.
LEMMA InjectiveSeparates ==
  ASSUME NEW l, IsLayout(l), Injectivity(l) = "injective"
  PROVE  Separates(l)
<1>1. \A n \in Active(l) : Abs(l.dims[n].stride) # 0
  BY DEF Injectivity
<1>2. \A n \in Active(l) : Abs(l.dims[n].stride) > SumFunction(Reaches(l, Below(l, n)))
  BY DEF Injectivity, Sigma, Reaches, Below
<1>3. ASSUME NEW n \in Active(l)
      PROVE  l.dims[n].stride \in Int /\ Abs(l.dims[n].stride) \in Int /\ SumFunction(Reaches(l, Below(l, n))) \in Int
  <2>1. Below(l, n) \in SUBSET Names(l) /\ IsFiniteSet(Names(l))
    BY DEF Below, Active, IsLayout
  <2>2. IsFiniteSet(Below(l, n))
    BY <2>1, FS_Subset
  <2>3. \A m \in Names(l) : Abs(l.dims[m].stride) * (Size(l.dims[m]) - 1) \in Int
    BY DEF IsLayout, IsDim, Abs, Size
  <2>4. PICK B : B = Below(l, n)
    OBVIOUS
  <2>5. Reaches(l, B) \in [B -> Int]
    BY <2>1, <2>3, <2>4 DEF Reaches
  <2>6. SumFunction(Reaches(l, B)) \in Int
    BY <2>2, <2>4, <2>5, SumInt
  <2>7. n \in Names(l)
    BY DEF Active
  <2>8. QED
    BY <2>4, <2>6, <2>7 DEF IsLayout, IsDim, Abs
<1>4. QED
  BY <1>1, <1>2, <1>3 DEF Separates, Abs

\* The terms of the difference of the addresses of two points.
Gaps(l, c, e) == [n \in Names(l) |-> l.dims[n].stride * (c[n] - e[n])]
Differ(l, c, e) == {n \in Names(l) : c[n] # e[n]}

\* The addresses of two points differ by the sum of stride times difference.
LEMMA GapsAre ==
  ASSUME NEW l, IsLayout(l), NEW c \in Domain(l), NEW e \in Domain(l)
  PROVE  /\ Gaps(l, c, e) \in [Names(l) -> Int]
         /\ GetLoc(l, c) = GetLoc(l, e) + SumFunction(Gaps(l, c, e))
         /\ Differ(l, c, e) \subseteq Active(l)
<1>1. IsPoint(l, c) /\ IsPoint(l, e) /\ IsFiniteSet(Names(l))
  BY InDomain DEF IsLayout
<1>2. PICK f, g, h : f = Terms(l, c) /\ g = Terms(l, e) /\ h = Gaps(l, c, e)
  OBVIOUS
<1>3. f \in [Names(l) -> Int] /\ g \in [Names(l) -> Int]
  BY <1>1, <1>2, TermsInt
<1>4. \A n \in Names(l) : l.dims[n].stride \in Int /\ c[n] \in Int /\ e[n] \in Int
  BY <1>1 DEF IsPoint, IsLayout, IsDim
<1>5. h \in [Names(l) -> Int]
  BY <1>2, <1>4 DEF Gaps
<1>6. IsPlus(f, g, h, Names(l))
  <2>1. ASSUME NEW n \in Names(l) PROVE f[n] = g[n] + h[n]
    <3>1. PICK s, x, y : s = l.dims[n].stride /\ x = c[n] /\ y = e[n]
      OBVIOUS
    <3>2. s * x = s * y + s * (x - y)
      BY <1>4, <3>1
    <3>3. QED
      BY <1>2, <3>1, <3>2 DEF Terms, Gaps
  <2>2. QED
    BY <2>1 DEF IsPlus
<1>7. SumFunction(f) = SumFunction(g) + SumFunction(h)
  BY <1>1, <1>3, <1>5, <1>6, SumPlus
<1>8. SumFunction(f) \in Int /\ SumFunction(g) \in Int /\ SumFunction(h) \in Int /\ l.offset \in Int
  BY <1>1, <1>3, <1>5, SumInt DEF IsLayout
<1>9. GetLoc(l, c) = GetLoc(l, e) + SumFunction(h)
  BY <1>2, <1>7, <1>8, LocIs
<1>10. Differ(l, c, e) \subseteq Active(l)
  <2>1. \A n \in Names(l) : c[n] \in l.dims[n].start .. l.dims[n].stop - 1 /\ e[n] \in l.dims[n].start .. l.dims[n].stop - 1
    BY InDomain
  <2>2. \A n \in Names(l) : l.dims[n].start \in Int /\ l.dims[n].stop \in Int
    BY DEF IsLayout, IsDim
  <2>3. QED
    BY <2>1, <2>2 DEF Differ, Active, Size
<1>11. QED
  BY <1>2, <1>5, <1>9, <1>10

\* Terms within their reaches, over some of the dims, sum within the sum of the reaches.
Within(f, u, S) == \A n \in S : f[n] <= u[n] /\ -u[n] <= f[n] /\ 0 <= u[n]

\* A sum of terms within bounds lies within the sum of the bounds.
LEMMA SumWithin ==
  ASSUME NEW B, IsFiniteSet(B), NEW u \in [B -> Int], NEW T \in SUBSET B, NEW f \in [T -> Int],
         \A n \in B : 0 <= u[n], Within(f, u, T)
  PROVE  /\ SumFunction(f) \in Int /\ SumFunction(u) \in Int
         /\ SumFunction(f) <= SumFunction(u) /\ -SumFunction(u) <= SumFunction(f)
<1>1. PICK g, h : g = [n \in B |-> IF n \in T THEN f[n] ELSE 0] /\ h = [n \in B |-> -1 * u[n]]
  OBVIOUS
<1>2. g \in [B -> Int] /\ h \in [B -> Int] /\ IsFiniteSet(T)
  BY <1>1, FS_Subset
<1>3. \A n \in B \ T : g[n] = 0
  BY <1>1
<1>4. SumFunction(g) = SumFunction(Restrict(g, T))
  BY <1>2, <1>3, SumSupport
<1>5. Restrict(g, T) = f
  BY <1>1 DEF Restrict
<1>6. Under(g, u, B) /\ Under(h, g, B)
  BY <1>1 DEF Under, Within
<1>7. SumFunction(g) <= SumFunction(u) /\ SumFunction(h) <= SumFunction(g)
  BY <1>2, <1>6, SumMono
<1>k. PICK k \in Int : k = -1
  OBVIOUS
<1>8. IsTimes(h, k, u, B)
  BY <1>1, <1>k DEF IsTimes
<1>9. SumFunction(h) = k * SumFunction(u)
  BY <1>2, <1>8, SumTimes
<1>10. SumFunction(u) \in Int /\ SumFunction(g) \in Int
  BY <1>2, SumInt
<1>11. QED
  BY <1>4, <1>5, <1>7, <1>k, <1>9, <1>10

\* The verdict injective (layout.py, injectivity) is a proof: two points at one address are
\* the same point.
LEMMA InjectiveIs ==
  ASSUME NEW l, IsLayout(l), Injectivity(l) = "injective", NEW c \in Domain(l), NEW e \in Domain(l),
         GetLoc(l, c) = GetLoc(l, e)
  PROVE  c = e
<1>1. PICK f, D : f = Gaps(l, c, e) /\ D = Differ(l, c, e)
  OBVIOUS
<1>2. /\ f \in [Names(l) -> Int] /\ GetLoc(l, c) = GetLoc(l, e) + SumFunction(f) /\ D \subseteq Active(l)
      /\ GetLoc(l, e) \in Int /\ SumFunction(f) \in Int
  BY <1>1, GapsAre, InDomain, LocInt, SumInt DEF IsLayout
<1>3. SumFunction(f) = 0
  BY <1>2
<1>4. D \in SUBSET Names(l) /\ IsFiniteSet(Names(l)) /\ IsFiniteSet(D)
  BY <1>1, FS_Subset DEF Differ, IsLayout
<1>5. ASSUME D # {} PROVE FALSE
  <2>1. PICK width : width = [n \in Names(l) |-> Abs(l.dims[n].stride)]
    OBVIOUS
  <2>2. \A n \in D : width[n] \in Int
    BY <1>4, <2>1 DEF IsLayout, IsDim, Abs
  <2>3. PICK n \in D : \A m \in D : width[m] <= width[n]
    BY <1>4, <1>5, <2>2, Widest
  <2>4. PICK B, u : B = Below(l, n) /\ u = Reaches(l, B)
    OBVIOUS
  <2>5. PICK T, h : T = D \ {n} /\ h = Restrict(f, T)
    OBVIOUS
  <2>6. T \in SUBSET B
    BY <1>2, <1>4, <2>1, <2>3, <2>4, <2>5 DEF Below
  <2>7. B \in SUBSET Names(l) /\ IsFiniteSet(B)
    BY <1>4, <2>4, FS_Subset DEF Below, Active
  <2>8. ASSUME NEW m \in Names(l)
        PROVE  /\ Abs(l.dims[m].stride) * (Size(l.dims[m]) - 1) \in Nat
               /\ f[m] <= Abs(l.dims[m].stride) * (Size(l.dims[m]) - 1)
               /\ -(Abs(l.dims[m].stride) * (Size(l.dims[m]) - 1)) <= f[m]
    <3>1. PICK s, x, y, a, b : /\ s = l.dims[m].stride /\ x = c[m] /\ y = e[m]
                               /\ a = l.dims[m].start /\ b = l.dims[m].stop
      OBVIOUS
    <3>2. s \in Int /\ x \in a .. b - 1 /\ y \in a .. b - 1 /\ a \in Int /\ b \in Int
      BY <3>1, InDomain DEF IsLayout, IsDim
    <3>3. /\ Abs(s) * (b - a - 1) \in Nat
          /\ s * (x - y) <= Abs(s) * (b - a - 1) /\ -(Abs(s) * (b - a - 1)) <= s * (x - y)
      BY <3>2, TermWithin
    <3>4. f[m] = s * (x - y) /\ Size(l.dims[m]) - 1 = b - a - 1
      BY <1>1, <3>1 DEF Gaps, Size
    <3>5. QED
      BY <3>1, <3>3, <3>4
  <2>9. u \in [B -> Int] /\ \A m \in B : 0 <= u[m]
    BY <2>4, <2>7, <2>8 DEF Reaches
  <2>10. h \in [T -> Int]
    BY <1>2, <1>4, <2>5 DEF Restrict
  <2>11. Within(h, u, T)
    <3>1. \A m \in T : h[m] = f[m] /\ u[m] = Abs(l.dims[m].stride) * (Size(l.dims[m]) - 1) /\ m \in Names(l)
      BY <2>4, <2>5, <2>6, <2>7 DEF Restrict, Reaches
    <3>2. QED
      BY <2>8, <3>1 DEF Within
  <2>12. /\ SumFunction(h) \in Int /\ SumFunction(u) \in Int
         /\ SumFunction(h) <= SumFunction(u) /\ -SumFunction(u) <= SumFunction(h)
    BY <2>6, <2>7, <2>9, <2>10, <2>11, SumWithin
  <2>13. f[n] + SumFunction(h) = 0
    <3>1. PICK g : g = Restrict(f, D)
      OBVIOUS
    <3>2. g \in [D -> Int] /\ \A m \in D : g[m] = f[m]
      BY <1>2, <1>4, <3>1 DEF Restrict
    <3>3. \A m \in Names(l) \ D : f[m] = 0
      BY <1>1, InDomain DEF Differ, Gaps, IsPoint, IsLayout, IsDim
    <3>4. SumFunction(f) = SumFunction(g)
      BY <1>2, <1>4, <3>1, <3>3, SumSupport
    <3>5. SumFunction(g) = g[n] + SumFunction(h)
      BY <1>4, <2>3, <2>5, <2>10, <3>2, SumTake DEF Restrict
    <3>6. QED
      BY <1>3, <2>3, <3>2, <3>4, <3>5
  <2>14. n \in Active(l) /\ n \in Names(l)
    BY <1>2, <1>4, <2>3
  <2>15. SumFunction(u) < Abs(l.dims[n].stride)
    BY <2>4, <2>14, InjectiveSeparates DEF Separates
  <2>16. PICK s, k : s = l.dims[n].stride /\ k = c[n] - e[n]
    OBVIOUS
  <2>17. s \in Int /\ k \in Int /\ k # 0 /\ f[n] = s * k
    <3>1. s \in Int
      BY <2>14, <2>16 DEF IsLayout, IsDim
    <3>2. c[n] \in Int /\ e[n] \in Int
      BY <2>14, InDomain DEF IsPoint
    <3>3. c[n] # e[n]
      BY <1>1, <2>3 DEF Differ
    <3>4. f[n] = s * k
      BY <1>1, <2>14, <2>16 DEF Gaps
    <3>5. k \in Int /\ k # 0
      <4>1. PICK x, y : x = c[n] /\ y = e[n]
        OBVIOUS
      <4>2. x \in Int /\ y \in Int /\ x # y /\ k = x - y
        BY <2>16, <3>2, <3>3, <4>1
      <4>3. QED
        BY <4>2
    <3>6. QED
      BY <3>1, <3>4, <3>5
  <2>18. Abs(s) <= f[n] \/ f[n] <= -Abs(s)
    BY <2>17, TermNot
  <2>19. f[n] \in Int /\ Abs(s) \in Int
    BY <2>17 DEF Abs
  <2>20. QED
    BY <2>12, <2>13, <2>15, <2>16, <2>18, <2>19
<1>6. \A n \in Names(l) : c[n] = e[n]
  BY <1>1, <1>5 DEF Differ
<1>7. c \in [Names(l) -> Int] /\ e \in [Names(l) -> Int]
  BY DomainIs DEF Grid
<1>8. QED
  BY <1>6, <1>7

-----------------------------------------------------------------------------
(* FOOTPRINTS                                                               *)

Floor(l) == [n \in Names(l) |-> Least(l.dims[n].stride * l.dims[n].start, l.dims[n].stride * (l.dims[n].stop - 1))]
Roof(l) == [n \in Names(l) |-> Most(l.dims[n].stride * l.dims[n].start, l.dims[n].stride * (l.dims[n].stop - 1))]
\* The strides of a layout as the form of a guard.
Strided(l) == [coeffs |-> [n \in Names(l) |-> l.dims[n].stride], lo |-> 0, hi |-> 0]

\* The address of a point is the offset and the value of that form.
LEMMA StridedIs ==
  ASSUME NEW l, IsLayout(l)
  PROVE  /\ GuardIn(Strided(l), l) /\ DOMAIN Strided(l).coeffs = Names(l)
         /\ \A c : GetLoc(l, c) = l.offset + Value(Strided(l), c)
         /\ RangeOver(Strided(l), l)[1] = SumFunction(Floor(l))
         /\ RangeOver(Strided(l), l)[2] = SumFunction(Roof(l))
<1>1. DOMAIN Strided(l).coeffs = Names(l) /\ \A n \in Names(l) : Strided(l).coeffs[n] = l.dims[n].stride
  BY DEF Strided
<1>2. GuardIn(Strided(l), l)
  <2>1. Strided(l).lo \in Int /\ Strided(l).hi \in Int
    BY DEF Strided
  <2>2. QED
    BY <1>1, <2>1 DEF GuardIn, IsForm, IsLayout, IsDim
<1>3. ASSUME NEW c PROVE GetLoc(l, c) = l.offset + Value(Strided(l), c)
  <2>1. Times(Strided(l).coeffs, c, Names(l)) = Terms(l, c)
    BY <1>1 DEF Times, Terms
  <2>2. QED
    BY <1>1, <2>1, LocIs, ValueIs
<1>4. Lows(Strided(l), l) = Floor(l) /\ Highs(Strided(l), l) = Roof(l)
  BY <1>1 DEF Lows, Highs, Floor, Roof
<1>5. QED
  BY <1>1, <1>2, <1>3, <1>4, RangeIs

\* The addresses of a layout lie between the ends of its footprint, and
\* both ends are addresses (footprint of layout.py).
LEMMA AddressBounds ==
  ASSUME NEW l, IsLayout(l), NEW c \in Domain(l)
  PROVE  /\ l.offset + SumFunction(Floor(l)) <= GetLoc(l, c) /\ GetLoc(l, c) <= l.offset + SumFunction(Roof(l))
         /\ SumFunction(Floor(l)) \in Int /\ SumFunction(Roof(l)) \in Int /\ GetLoc(l, c) \in Int
<1>1. GuardIn(Strided(l), l) /\ GetLoc(l, c) = l.offset + Value(Strided(l), c)
  BY StridedIs
<1>2. RangeOver(Strided(l), l)[1] = SumFunction(Floor(l)) /\ RangeOver(Strided(l), l)[2] = SumFunction(Roof(l))
  BY StridedIs
<1>3. PICK a, b, x : a = SumFunction(Floor(l)) /\ b = SumFunction(Roof(l)) /\ x = Value(Strided(l), c)
  OBVIOUS
<1>4. a <= x /\ x <= b /\ a \in Int /\ b \in Int /\ x \in Int
  BY <1>1, <1>2, <1>3, ValueBounds
<1>5. l.offset \in Int
  BY DEF IsLayout
<1>6. QED
  BY <1>1, <1>3, <1>4, <1>5

\* Both ends are addresses of a layout that has a point.
LEMMA AddressCorners ==
  ASSUME NEW l, IsLayout(l), Full(l)
  PROVE  /\ \E q \in Domain(l) : GetLoc(l, q) = l.offset + SumFunction(Floor(l))
         /\ \E q \in Domain(l) : GetLoc(l, q) = l.offset + SumFunction(Roof(l))
<1>1. GuardIn(Strided(l), l)
  BY StridedIs
<1>2. PICK q \in Domain(l) : Value(Strided(l), q) = RangeOver(Strided(l), l)[1]
  BY <1>1, Corners
<1>3. PICK r \in Domain(l) : Value(Strided(l), r) = RangeOver(Strided(l), l)[2]
  BY <1>1, Corners
<1>4. QED
  BY <1>2, <1>3, StridedIs

\* What footprint answers: nothing, or the two ends.
LEMMA FootprintIs ==
  ASSUME NEW l, NEW size
  PROVE  Footprint(l, size) = IF Numel(l) = 0 THEN None
                              ELSE <<l.offset + SumFunction(Floor(l)), l.offset + SumFunction(Roof(l)) + size>>
BY DEF Footprint, Sigma, Floor, Roof, Names

Intervals(l) == [any : BOOLEAN, left : SUBSET Names(l), lo : Int, hi : Int]
Everywhere(l) == [any |-> TRUE, left |-> Names(l), lo |-> l.offset, hi |-> l.offset]
\* The terms of an address that an interval counts.
CountedTerms(l, left, c) == Restrict(Terms(l, c), Names(l) \ left)
\* The interval holds the part of the address of c it counts.
Spans(acc, l, c) ==
  /\ acc.any = TRUE
  /\ acc.lo <= l.offset + SumFunction(CountedTerms(l, acc.left, c))
  /\ l.offset + SumFunction(CountedTerms(l, acc.left, c)) <= acc.hi

\* A factor that is found is an integer, and makes the strides of the
\* guard's dims out of its coefficients.
LEMMA ProportionIs ==
  ASSUME NEW l, IsLayout(l), NEW g, IsGuard(g), DOMAIN g.coeffs \subseteq Names(l), DOMAIN g.coeffs # {},
         Proportion(l, g) # None
  PROVE  Proportion(l, g) \in Int /\ \A n \in DOMAIN g.coeffs : l.dims[n].stride = Proportion(l, g) * g.coeffs[n]
<1>1. PICK first : first = CHOOSE n \in DOMAIN g.coeffs : TRUE
  OBVIOUS
<1>2. first \in DOMAIN g.coeffs
  BY <1>1
<1>3. PICK x, y : x = (IF g.coeffs[first] < 0 THEN -1 ELSE 1) * l.dims[first].stride /\ y = Abs(g.coeffs[first])
  OBVIOUS
<1>4. g.coeffs[first] \in Int \ {0} /\ l.dims[first].stride \in Int
  BY <1>2 DEF IsGuard, IsLayout, IsDim
<1>5. x \in Int /\ y \in Nat \ {0}
  BY <1>3, <1>4 DEF Abs
<1>6. x \div y \in Int
  BY <1>5, DivIs
<1>7. Proportion(l, g) = IF \A n \in DOMAIN g.coeffs : l.dims[n].stride = (x \div y) * g.coeffs[n] THEN x \div y ELSE None
  BY <1>1, <1>3 DEF Proportion
<1>8. QED
  BY <1>6, <1>7

\* The ends of what a guard allows in a box.
LEMMA EndsAre ==
  ASSUME NEW l, IsLayout(l), NEW g, IsGuard(g), DOMAIN g.coeffs \subseteq Names(l)
  PROVE  GuardIn(g, l)
BY DEF GuardIn, IsGuard, IsForm

\* range_over of a guard is a pair of integers.
LEMMA RangeInt ==
  ASSUME NEW l, IsLayout(l), NEW g, GuardIn(g, l)
  PROVE  RangeOver(g, l)[1] \in Int /\ RangeOver(g, l)[2] \in Int
<1>1. Lows(g, l) \in [DOMAIN g.coeffs -> Int] /\ Highs(g, l) \in [DOMAIN g.coeffs -> Int] /\ IsFiniteSet(DOMAIN g.coeffs)
  BY EndsInt
<1>2. QED
  BY <1>1, RangeIs, SumInt

\* Narrowing an interval gives an interval.
LEMMA NarrowIs ==
  ASSUME NEW l, IsLayout(l), NEW g, IsGuard(g), DOMAIN g.coeffs \subseteq Names(l), NEW acc \in Intervals(l)
  PROVE  Narrow(l, acc, g) \in Intervals(l)
<1>1. PICK low, high, lam, S : /\ low = Most(g.lo, RangeOver(g, l)[1]) /\ high = Least(g.hi - 1, RangeOver(g, l)[2])
                               /\ lam = Proportion(l, g) /\ S = DOMAIN g.coeffs
  OBVIOUS
<1>2. low \in Int /\ high \in Int
  BY <1>1, EndsAre, RangeInt DEF IsGuard, Most, Least
<1>3. Nowhere(acc) \in Intervals(l)
  BY DEF Nowhere, Intervals
<1>4. CASE S # {} /\ lam # None
  <2>1. lam \in Int
    BY <1>1, <1>4, ProportionIs
  <2>2. lam * low \in Int /\ lam * high \in Int
    BY <1>2, <2>1, IntTimes
  <2>3. PICK x, y : x = Least(lam * low, lam * high) /\ y = Most(lam * low, lam * high)
    OBVIOUS
  <2>4. x \in Int /\ y \in Int
    BY <2>2, <2>3 DEF Least, Most
  <2>5. acc.lo + x \in Int /\ acc.hi + y \in Int /\ acc.left \ S \in SUBSET Names(l)
    BY <2>4 DEF Intervals
  <2>6. [any |-> TRUE, left |-> acc.left \ S, lo |-> acc.lo + x, hi |-> acc.hi + y] \in Intervals(l)
    BY <2>5 DEF Intervals
  <2>7. Narrow(l, acc, g) \in {acc, Nowhere(acc), [any |-> TRUE, left |-> acc.left \ S, lo |-> acc.lo + x, hi |-> acc.hi + y]}
    BY <1>1, <2>3 DEF Narrow
  <2>8. QED
    BY <1>3, <2>6, <2>7
<1>5. CASE S = {} \/ lam = None
  <2>1. Narrow(l, acc, g) \in {acc, Nowhere(acc)}
    BY <1>1, <1>5 DEF Narrow
  <2>2. QED
    BY <1>3, <2>1
<1>6. QED
  BY <1>4, <1>5

\* The terms a guard's dims add to an address are its value, times the factor.
LEMMA NarrowTerms ==
  ASSUME NEW l, IsLayout(l), NEW g, IsGuard(g), DOMAIN g.coeffs \subseteq Names(l), NEW c, IsPoint(l, c),
         NEW lam \in Int, \A n \in DOMAIN g.coeffs : l.dims[n].stride = lam * g.coeffs[n]
  PROVE  SumFunction(Restrict(Terms(l, c), DOMAIN g.coeffs)) = lam * Value(g, c)
<1>1. PICK D, f, h : D = DOMAIN g.coeffs /\ f = Times(g.coeffs, c, D) /\ h = Restrict(Terms(l, c), D)
  OBVIOUS
<1>2. IsFiniteSet(D) /\ \A n \in D : g.coeffs[n] \in Int /\ c[n] \in Int /\ n \in Names(l)
  BY <1>1 DEF IsGuard, IsPoint
<1>3. f \in [D -> Int]
  BY <1>1, <1>2, TimesInt
<1>4. Terms(l, c) \in [Names(l) -> Int]
  BY TermsInt
<1>5. h \in [D -> Int]
  BY <1>1, <1>2, <1>4 DEF Restrict
<1>6. ASSUME NEW n \in D PROVE h[n] = lam * f[n]
  <2>1. h[n] = l.dims[n].stride * c[n]
    BY <1>1, <1>2, <1>6 DEF Restrict, Terms
  <2>2. PICK k, x : k = g.coeffs[n] /\ x = c[n]
    OBVIOUS
  <2>3. h[n] = (lam * k) * x /\ f[n] = k * x
    BY <1>1, <2>1, <2>2 DEF Times
  <2>4. k \in Int /\ x \in Int
    BY <1>2, <2>2
  <2>5. (lam * k) * x = lam * (k * x)
    BY <2>4
  <2>6. QED
    BY <2>3, <2>5
<1>7. SumFunction(h) = lam * SumFunction(f)
  BY <1>2, <1>3, <1>5, <1>6, SumTimes DEF IsTimes
<1>8. QED
  BY <1>1, <1>7, ValueIs

\* The terms counted once the dims of S are counted too.
LEMMA CountMore ==
  ASSUME NEW l, IsLayout(l), NEW c, IsPoint(l, c), NEW left \in SUBSET Names(l), NEW S \in SUBSET left
  PROVE  /\ SumFunction(CountedTerms(l, left \ S, c)) = SumFunction(CountedTerms(l, left, c)) + SumFunction(Restrict(Terms(l, c), S))
         /\ SumFunction(CountedTerms(l, left, c)) \in Int /\ SumFunction(Restrict(Terms(l, c), S)) \in Int
<1>1. PICK N, f, g, A : N = Names(l) /\ f = Terms(l, c) /\ A = N \ left /\ g = Restrict(f, A \cup S)
  OBVIOUS
<1>2. f \in [N -> Int] /\ IsFiniteSet(N)
  BY <1>1, TermsInt DEF IsLayout
<1>3. A \cup S \in SUBSET N /\ N \ (left \ S) = A \cup S /\ (A \cup S) \ A = S
  BY <1>1
<1>4. IsFiniteSet(A \cup S) /\ g \in [A \cup S -> Int]
  BY <1>1, <1>2, <1>3, FS_Subset DEF Restrict
<1>5. SumFunction(g) = SumFunction(Restrict(g, A)) + SumFunction(Restrict(g, S))
  BY <1>3, <1>4, SumUnion
<1>6. Restrict(g, A) = Restrict(f, A) /\ Restrict(g, S) = Restrict(f, S)
  BY <1>1 DEF Restrict
<1>7. SumFunction(Restrict(f, A)) \in Int /\ SumFunction(Restrict(f, S)) \in Int
  BY <1>2, <1>3, SumParts
<1>8. QED
  BY <1>1, <1>3, <1>5, <1>6, <1>7 DEF CountedTerms

\* A point the guard holds at stays in the narrowed interval.
LEMMA NarrowPlaces ==
  ASSUME NEW l, IsLayout(l), NEW g, IsGuard(g), DOMAIN g.coeffs \subseteq Names(l), NEW acc \in Intervals(l),
         NEW c \in Domain(l), Holds(g, c), Spans(acc, l, c)
  PROVE  Spans(Narrow(l, acc, g), l, c)
<1>1. PICK low, high, lam, S, x : /\ low = Most(g.lo, RangeOver(g, l)[1]) /\ high = Least(g.hi - 1, RangeOver(g, l)[2])
                                  /\ lam = Proportion(l, g) /\ S = DOMAIN g.coeffs /\ x = Value(g, c)
  OBVIOUS
<1>2. GuardIn(g, l) /\ IsPoint(l, c)
  BY EndsAre, InDomain
<1>3. RangeOver(g, l)[1] <= x /\ x <= RangeOver(g, l)[2] /\ RangeOver(g, l)[1] \in Int /\ RangeOver(g, l)[2] \in Int /\ x \in Int
  BY <1>1, <1>2, ValueBounds
<1>4. g.lo \in Int /\ g.hi \in Int /\ g.lo <= x /\ x < g.hi
  BY <1>1 DEF IsGuard, Holds
<1>5. low \in Int /\ high \in Int /\ x \in Int /\ low <= x /\ x <= high
  BY <1>1, <1>3, <1>4 DEF Most, Least
<1>6. CASE S = {}
  <2>1. Times(g.coeffs, c, S) \in [{} -> Int]
    BY <1>6 DEF Times
  <2>2. x = 0
    BY <1>1, <2>1, ValueIs, SumEmpty
  <2>3. Narrow(l, acc, g) = acc
    BY <1>1, <1>4, <1>6, <2>2 DEF Narrow
  <2>4. QED
    BY <2>3
<1>7. CASE S # {} /\ (~(S \subseteq acc.left) \/ lam = None)
  <2>1. Narrow(l, acc, g) = acc
    BY <1>1, <1>7 DEF Narrow
  <2>2. QED
    BY <2>1
<1>8. CASE S # {} /\ S \subseteq acc.left /\ lam # None
  <2>1. PICK r, a, b : /\ r = Narrow(l, acc, g) /\ a = Least(lam * low, lam * high) /\ b = Most(lam * low, lam * high)
    OBVIOUS
  <2>2. r = [any |-> TRUE, left |-> acc.left \ S, lo |-> acc.lo + a, hi |-> acc.hi + b]
    <3>1. ~(low > high)
      BY <1>5
    <3>2. acc.any = TRUE
      BY DEF Spans
    <3>3. QED
      BY <1>1, <1>8, <2>1, <3>1, <3>2, Zenon DEF Narrow
  <2>3. lam \in Int /\ \A n \in S : l.dims[n].stride = lam * g.coeffs[n]
    BY <1>1, <1>8, ProportionIs
  <2>4. a <= lam * x /\ lam * x <= b
    BY <1>5, <2>1, <2>3, Between
  <2>5. a \in Int /\ b \in Int /\ lam * x \in Int
    <3>1. lam * low \in Int /\ lam * high \in Int /\ lam * x \in Int
      BY <1>5, <2>3, IntTimes
    <3>2. QED
      BY <2>1, <3>1 DEF Least, Most
  <2>6. SumFunction(Restrict(Terms(l, c), S)) = lam * x
    BY <1>1, <1>2, <2>3, NarrowTerms
  <2>7. acc.left \in SUBSET Names(l) /\ acc.lo \in Int /\ acc.hi \in Int
    BY DEF Intervals
  <2>8. PICK s, t : s = SumFunction(CountedTerms(l, acc.left, c)) /\ t = SumFunction(CountedTerms(l, acc.left \ S, c))
    OBVIOUS
  <2>9. t = s + lam * x /\ s \in Int
    BY <1>2, <1>8, <2>6, <2>7, <2>8, CountMore
  <2>10. acc.lo <= l.offset + s /\ l.offset + s <= acc.hi
    BY <2>8 DEF Spans
  <2>11. l.offset \in Int
    BY DEF IsLayout
  <2>12. PICK y : y = lam * x
    OBVIOUS
  <2>13. acc.lo + a <= l.offset + t /\ l.offset + t <= acc.hi + b
    BY <2>4, <2>5, <2>7, <2>9, <2>10, <2>11, <2>12
  <2>14. r.any = TRUE /\ r.left = acc.left \ S /\ r.lo = acc.lo + a /\ r.hi = acc.hi + b
    BY <2>2
  <2>15. QED
    BY <2>1, <2>8, <2>13, <2>14 DEF Spans
<1>9. QED
  BY <1>6, <1>7, <1>8

Narrowed(l, gs) == FoldLeft(LAMBDA a, g : Narrow(l, a, g), Everywhere(l), gs)
OnGuards(gs, l, N) == DOMAIN gs = 1 .. N /\ \A j \in 1 .. N : IsGuard(gs[j]) /\ DOMAIN gs[j].coeffs \subseteq Names(l)
\* Every point the first n guards hold at is in the interval.
SpansAll(acc, l, gs, n) == \A c \in Domain(l) : (\A j \in 1 .. n : Holds(gs[j], c)) => Spans(acc, l, c)

\* Before any guard the interval is the offset, and counts no dim.
LEMMA EverywhereSpans ==
  ASSUME NEW l, IsLayout(l), NEW gs
  PROVE  Everywhere(l) \in Intervals(l) /\ SpansAll(Everywhere(l), l, gs, 0)
<1>1. l.offset \in Int
  BY DEF IsLayout
<1>2. Everywhere(l) \in Intervals(l)
  BY <1>1 DEF Everywhere, Intervals
<1>3. ASSUME NEW c \in Domain(l) PROVE Spans(Everywhere(l), l, c)
  <2>1. PICK f : f = CountedTerms(l, Names(l), c)
    OBVIOUS
  <2>2. f \in [{} -> Int]
    BY <2>1 DEF CountedTerms, Restrict
  <2>3. SumFunction(f) = 0
    BY <2>2, SumEmpty
  <2>4. /\ Everywhere(l).any = TRUE /\ Everywhere(l).left = Names(l)
        /\ Everywhere(l).lo = l.offset /\ Everywhere(l).hi = l.offset
    BY DEF Everywhere
  <2>5. QED
    BY <1>1, <2>1, <2>3, <2>4 DEF Spans
<1>4. QED
  BY <1>2, <1>3 DEF SpansAll

\* The fold over the guards of a view spans every point they all hold at.
LEMMA NarrowedIs ==
  ASSUME NEW l, IsLayout(l), NEW N \in Nat, NEW gs, OnGuards(gs, l, N)
  PROVE  Narrowed(l, gs) \in Intervals(l) /\ SpansAll(Narrowed(l, gs), l, gs, N)
<1>1. PICK S, V, step, pick, base :
        /\ S = 1 .. N /\ V = Intervals(l) /\ pick = LastOf(N) /\ base = Everywhere(l)
        /\ step = [n \in S |-> [a \in V |-> Narrow(l, a, gs[n])]]
  OBVIOUS
<1>2. base \in V /\ step \in [S -> [V -> V]]
  <2>1. \A n \in S, a \in V : Narrow(l, a, gs[n]) \in V
    BY <1>1, NarrowIs DEF OnGuards
  <2>2. QED
    BY <1>1, <2>1, EverywhereSpans
<1>3. PICK G : Folds(G, S, V, base, step, pick) /\ FoldsPrefixes(G, N, base, step)
  BY <1>1, <1>2, PrefixFolds
<1>4. \A s \in SUBSET S : s # {} => Max(s) \in s
  BY <1>1, Greatests
<1>. DEFINE Eq(F) == F = [s \in SUBSET S |-> IF s = {} THEN base ELSE Narrow(l, F[s \ {Max(s)}], gs[Max(s)])]
            Iter == CHOOSE F : Eq(F)
<1>5. ASSUME NEW s \in SUBSET S
      PROVE  G[s] = IF s = {} THEN base ELSE Narrow(l, G[s \ {Max(s)}], gs[Max(s)])
  <2>1. G[s] = FoldStep(G, base, step, pick, s) /\ pick[s] = Max(s) /\ G \in [SUBSET S -> V]
    BY <1>1, <1>3 DEF Folds, LastOf
  <2>2. CASE s = {}
    BY <2>1, <2>2 DEF FoldStep
  <2>3. CASE s # {}
    <3>1. PICK n, u : n = Max(s) /\ u = s \ {n}
      OBVIOUS
    <3>2. n \in S /\ u \in SUBSET S /\ G[u] \in V
      BY <1>4, <2>1, <2>3, <3>1
    <3>3. G[s] = step[n][G[u]]
      BY <2>1, <2>3, <3>1 DEF FoldStep
    <3>4. step[n][G[u]] = Narrow(l, G[u], gs[n])
      BY <1>1, <3>2
    <3>5. QED
      BY <2>3, <3>1, <3>3, <3>4
  <2>4. QED
    BY <2>2, <2>3
<1>6. Eq(G)
  <2>1. G = [s \in SUBSET S |-> G[s]]
    BY <1>3 DEF Folds
  <2>2. QED
    BY <1>5, <2>1
<1>7. Eq(Iter)
  <2>. HIDE DEF Eq
  <2>. QED
    BY <1>6
<1>8. \A s \in SUBSET S : Iter[s] = IF s = {} THEN base ELSE Narrow(l, Iter[s \ {Max(s)}], gs[Max(s)])
  <2>. HIDE DEF Iter
  <2>. QED
    BY <1>7
<1>. HIDE DEF Iter, Eq
<1>9. Narrowed(l, gs) = Iter[S]
  <2>1. DOMAIN gs = S
    BY <1>1 DEF OnGuards
  <2>2. QED
    BY <1>1, <2>1 DEF Narrowed, FoldLeft, MapThenFoldSet, Iter, Eq
<1>10. PICK F : F = Iter
  OBVIOUS
<1>11. SameStepsBy(F, G, pick, S)
  <2>1. ASSUME NEW s \in SUBSET S
        PROVE  /\ s # {} => pick[s] \in s
               /\ (s # {} => F[s \ {pick[s]}] = G[s \ {pick[s]}]) => F[s] = G[s]
    <3>1. pick[s] = Max(s) /\ (s # {} => Max(s) \in s)
      BY <1>1, <1>4 DEF LastOf
    <3>2. /\ F[s] = IF s = {} THEN base ELSE Narrow(l, F[s \ {Max(s)}], gs[Max(s)])
          /\ G[s] = IF s = {} THEN base ELSE Narrow(l, G[s \ {Max(s)}], gs[Max(s)])
      BY <1>5, <1>8, <1>10
    <3>3. QED
      BY <3>1, <3>2
  <2>2. QED
    BY <2>1 DEF SameStepsBy
<1>12. F[S] = G[S]
  <2>1. IsFiniteSet(S)
    BY <1>1, FS_Interval
  <2>2. QED
    BY <1>11, <2>1, FoldsAgreeBy
<1>. DEFINE I == {n \in 0 .. N : G[1 .. n] \in V /\ SpansAll(G[1 .. n], l, gs, n)}
<1>13. 0 \in I
  <2>1. G[1 .. 0] = base
    BY <1>3 DEF FoldsPrefixes
  <2>2. QED
    BY <1>1, <2>1, EverywhereSpans
<1>14. ASSUME NEW n \in 0 .. N - 1, n \in I PROVE n + 1 \in I
  <2>1. PICK m, a, g : m = n + 1 /\ a = G[1 .. n] /\ g = gs[m]
    OBVIOUS
  <2>2. m \in S /\ m - 1 = n /\ a \in V /\ SpansAll(a, l, gs, n)
    BY <1>1, <1>14, <2>1
  <2>3. IsGuard(g) /\ DOMAIN g.coeffs \subseteq Names(l)
    BY <1>1, <2>1, <2>2 DEF OnGuards
  <2>4. G[1 .. m] = step[m][a]
    BY <1>1, <1>3, <2>1, <2>2 DEF FoldsPrefixes
  <2>5. G[1 .. m] = Narrow(l, a, g)
    BY <1>1, <2>1, <2>2, <2>4
  <2>6. Narrow(l, a, g) \in V
    BY <1>1, <2>2, <2>3, NarrowIs
  <2>7. ASSUME NEW c \in Domain(l), \A j \in 1 .. m : Holds(gs[j], c) PROVE Spans(Narrow(l, a, g), l, c)
    <3>1. \A j \in 1 .. n : j \in 1 .. m
      BY <2>1
    <3>2. m \in 1 .. m
      BY <2>1
    <3>3. Spans(a, l, c)
      BY <2>2, <2>7, <3>1 DEF SpansAll
    <3>4. Holds(g, c)
      BY <2>1, <2>7, <3>2
    <3>5. QED
      BY <1>1, <2>2, <2>3, <3>3, <3>4, NarrowPlaces
  <2>8. SpansAll(G[1 .. m], l, gs, m)
    BY <2>5, <2>7 DEF SpansAll
  <2>9. QED
    BY <2>1, <2>5, <2>6, <2>8
<1>15. N \in I
  <2>1. PICK J : J = I
    OBVIOUS
  <2>2. 0 \in J /\ \A n \in 0 .. N - 1 : n \in J => n + 1 \in J
    BY <1>13, <1>14, <2>1
  <2>3. \A n \in 0 .. N : n \in J
    BY <2>2, Upto
  <2>4. N \in J
    BY <2>3
  <2>5. QED
    BY <2>1, <2>4
<1>16. QED
  BY <1>1, <1>9, <1>10, <1>12, <1>15

\* The terms of the dims left lie between the ends of those dims.
LEMMA LeftBounds ==
  ASSUME NEW l, IsLayout(l), NEW c \in Domain(l), NEW left \in SUBSET Names(l)
  PROVE  /\ SumFunction(Restrict(Floor(l), left)) <= SumFunction(Restrict(Terms(l, c), left))
         /\ SumFunction(Restrict(Terms(l, c), left)) <= SumFunction(Restrict(Roof(l), left))
         /\ SumFunction(Restrict(Floor(l), left)) \in Int /\ SumFunction(Restrict(Roof(l), left)) \in Int
         /\ SumFunction(Restrict(Terms(l, c), left)) \in Int
<1>1. PICK a, f, b : a = Restrict(Floor(l), left) /\ f = Restrict(Terms(l, c), left) /\ b = Restrict(Roof(l), left)
  OBVIOUS
<1>2. IsFiniteSet(left)
  BY FS_Subset DEF IsLayout
<1>3. ASSUME NEW n \in left PROVE /\ a[n] \in Int /\ f[n] \in Int /\ b[n] \in Int /\ a[n] <= f[n] /\ f[n] <= b[n]
  <2>1. PICK k, x, u, w : k = l.dims[n].stride /\ x = c[n] /\ u = l.dims[n].start /\ w = l.dims[n].stop - 1
    OBVIOUS
  <2>2. n \in Names(l) /\ IsDim(l.dims[n])
    BY <1>3 DEF IsLayout
  <2>3. c[n] \in l.dims[n].start .. l.dims[n].stop - 1
    BY <2>2, InDomain
  <2>4. k \in Int /\ x \in Int /\ u \in Int /\ w \in Int /\ u <= x /\ x <= w
    BY <2>1, <2>2, <2>3 DEF IsDim
  <2>5. Least(k * u, k * w) <= k * x /\ k * x <= Most(k * u, k * w)
    BY <2>4, Between
  <2>6. k * u \in Int /\ k * w \in Int /\ k * x \in Int
    BY <2>4, IntTimes
  <2>7. Least(k * u, k * w) \in Int /\ Most(k * u, k * w) \in Int
    BY <2>6 DEF Least, Most
  <2>8. a[n] = Least(k * u, k * w) /\ b[n] = Most(k * u, k * w) /\ f[n] = k * x
    BY <1>1, <1>3, <2>1, <2>2 DEF Floor, Roof, Terms, Restrict
  <2>9. QED
    BY <2>5, <2>6, <2>7, <2>8
<1>4. a \in [left -> Int] /\ f \in [left -> Int] /\ b \in [left -> Int]
  <2>1. DOMAIN Floor(l) = Names(l) /\ DOMAIN Roof(l) = Names(l) /\ DOMAIN Terms(l, c) = Names(l)
    BY DEF Floor, Roof, Terms
  <2>2. QED
    BY <1>1, <1>3, <2>1 DEF Restrict
<1>5. SumFunction(a) <= SumFunction(f) /\ SumFunction(f) <= SumFunction(b)
  BY <1>2, <1>3, <1>4, SumMono DEF Under
<1>6. SumFunction(a) \in Int /\ SumFunction(b) \in Int /\ SumFunction(f) \in Int
  BY <1>2, <1>4, SumInt
<1>7. QED
  BY <1>1, <1>5, <1>6

\* What the footprint of a guarded view answers.
LEMMA GFootprintIs ==
  ASSUME NEW v, NEW size, ~Plain(v), NEW acc, acc = Narrowed(v.base, v.guards), acc.left \subseteq Names(v.base)
  PROVE  GFootprint(v, size) =
           IF Numel(v.base) = 0 \/ ~acc.any THEN None
           ELSE <<acc.lo + SumFunction(Restrict(Floor(v.base), acc.left)),
                  acc.hi + SumFunction(Restrict(Roof(v.base), acc.left)) + size>>
<1>. DEFINE l == v.base
<1>1. /\ Restrict(Floor(l), acc.left) =
           [n \in acc.left |-> Least(l.dims[n].stride * l.dims[n].start, l.dims[n].stride * (l.dims[n].stop - 1))]
      /\ Restrict(Roof(l), acc.left) =
           [n \in acc.left |-> Most(l.dims[n].stride * l.dims[n].start, l.dims[n].stride * (l.dims[n].stop - 1))]
  BY DEF Floor, Roof, Restrict
<1>2. QED
  BY <1>1 DEF GFootprint, Sigma, Narrowed, Everywhere

\* The footprint of a tensor is a pair that holds every byte it can read,
\* and there is none only when it reads nothing (footprint of guarded.py).
LEMMA FootprintHolds ==
  ASSUME NEW v, IsView(v), WellFormed(v.base), NEW fp, fp = GFootprint(v, v.size)
  PROVE  /\ fp = None => Reals(v) = {}
         /\ fp # None =>
              /\ fp[1] \in Int /\ fp[2] \in Int
              /\ \A c \in Reals(v) : fp[1] <= GetLoc(v.base, c) /\ GetLoc(v.base, c) + v.size <= fp[2]
<1>1. PICK l, gs, size : l = v.base /\ gs = v.guards /\ size = v.size
  OBVIOUS
<1>2. IsLayout(l) /\ size \in Nat /\ l.offset \in Int
  BY <1>1 DEF IsView, IsLayout
<1>3. PICK N \in Nat : OnGuards(gs, l, N)
  <2>1. gs \in Seq({gs[j] : j \in DOMAIN gs})
    BY <1>1 DEF IsView, IsGuards
  <2>2. Len(gs) \in Nat /\ DOMAIN gs = 1 .. Len(gs)
    BY <2>1
  <2>3. OnGuards(gs, l, Len(gs))
    BY <1>1, <2>2 DEF OnGuards, IsView, IsGuards, On
  <2>4. QED
    BY <2>2, <2>3
<1>4. ASSUME NEW c \in Reals(v) PROVE c \in Domain(l) /\ \A j \in 1 .. N : Holds(gs[j], c)
  <2>1. c \in Domain(l) /\ Resolve(v, c) # Fill
    BY <1>1, <1>4 DEF Reals
  <2>2. QED
    BY <1>1, <1>3, <2>1 DEF Resolve, OnGuards
<1>5. Numel(l) = 0 => Reals(v) = {}
  BY <1>1, <1>2, NumelIs DEF Reals
<1>6. Numel(l) # 0 => Full(l)
  BY <1>1, <1>2, FullUnlessEmpty DEF WellFormed, Boxed
<1>7. None \notin Int \X Int
  BY ViewsAssumption
<1>8. CASE Plain(v)
  <2>1. PICK a, b : a = SumFunction(Floor(l)) /\ b = SumFunction(Roof(l))
    OBVIOUS
  <2>2. fp = IF Numel(l) = 0 THEN None ELSE <<l.offset + a, l.offset + b + size>>
    BY <1>1, <1>8, <2>1, FootprintIs DEF GFootprint
  <2>3. ASSUME NEW c \in Domain(l)
        PROVE  /\ l.offset + a <= GetLoc(l, c) /\ GetLoc(l, c) <= l.offset + b
               /\ a \in Int /\ b \in Int /\ GetLoc(l, c) \in Int
    BY <1>2, <2>1, <2>3, AddressBounds
  <2>4. CASE Numel(l) = 0
    BY <1>5, <2>2, <2>4
  <2>5. CASE Numel(l) # 0
    <3>1. PICK q \in Domain(l) : TRUE
      BY <1>2, <1>6, <2>5, AddressCorners
    <3>2. a \in Int /\ b \in Int
      BY <2>3, <3>1
    <3>3. l.offset + a \in Int /\ l.offset + b + size \in Int
      BY <1>2, <3>2
    <3>4. fp # None /\ fp[1] = l.offset + a /\ fp[2] = l.offset + b + size
      BY <1>7, <2>2, <2>5, <3>3
    <3>5. ASSUME NEW c \in Reals(v) PROVE fp[1] <= GetLoc(l, c) /\ GetLoc(l, c) + size <= fp[2]
      <4>1. l.offset + a <= GetLoc(l, c) /\ GetLoc(l, c) <= l.offset + b /\ GetLoc(l, c) \in Int
        BY <1>4, <2>3, <3>5
      <4>2. QED
        BY <1>2, <3>2, <3>4, <4>1
    <3>6. QED
      BY <1>1, <3>3, <3>4, <3>5
  <2>6. QED
    BY <2>4, <2>5
<1>9. CASE ~Plain(v)
  <2>1. PICK acc, a, b : /\ acc = Narrowed(l, gs) /\ a = SumFunction(Restrict(Floor(l), acc.left))
                         /\ b = SumFunction(Restrict(Roof(l), acc.left))
    OBVIOUS
  <2>2. acc \in Intervals(l) /\ SpansAll(acc, l, gs, N)
    BY <1>2, <1>3, <2>1, NarrowedIs
  <2>3. acc.any \in BOOLEAN /\ acc.left \in SUBSET Names(l) /\ acc.lo \in Int /\ acc.hi \in Int
    BY <2>2 DEF Intervals
  <2>4. fp = IF Numel(l) = 0 \/ ~acc.any THEN None ELSE <<acc.lo + a, acc.hi + b + size>>
    BY <1>1, <1>9, <2>1, <2>3, GFootprintIs, Zenon
  <2>5. ASSUME NEW c \in Reals(v)
        PROVE  /\ acc.any = TRUE /\ acc.lo + a <= GetLoc(l, c) /\ GetLoc(l, c) <= acc.hi + b
               /\ GetLoc(l, c) \in Int
    <3>1. c \in Domain(l) /\ Spans(acc, l, c)
      BY <1>4, <2>2, <2>5 DEF SpansAll
    <3>2. PICK s, t : s = SumFunction(CountedTerms(l, acc.left, c)) /\ t = SumFunction(Restrict(Terms(l, c), acc.left))
      OBVIOUS
    <3>3. a <= t /\ t <= b /\ a \in Int /\ b \in Int /\ t \in Int
      BY <1>2, <2>1, <2>3, <3>1, <3>2, LeftBounds
    <3>4. acc.any = TRUE /\ acc.lo <= l.offset + s /\ l.offset + s <= acc.hi
      BY <3>1, <3>2 DEF Spans
    <3>5. GetLoc(l, c) = l.offset + (s + t) /\ s \in Int
      <4>1. IsPoint(l, c) /\ Terms(l, c) \in [Names(l) -> Int] /\ IsFiniteSet(Names(l))
        BY <1>2, <3>1, InDomain, TermsInt DEF IsLayout
      <4>2. PICK A : A = Names(l) \ acc.left
        OBVIOUS
      <4>3. A \in SUBSET Names(l) /\ Names(l) \ A = acc.left
        BY <2>3, <4>2
      <4>4. SumFunction(Terms(l, c)) = SumFunction(Restrict(Terms(l, c), A)) + SumFunction(Restrict(Terms(l, c), Names(l) \ A))
        BY <4>1, <4>3, SumUnion
      <4>5. SumFunction(Terms(l, c)) = s + t /\ s = SumFunction(Restrict(Terms(l, c), A))
        BY <3>2, <4>2, <4>3, <4>4 DEF CountedTerms
      <4>6. s \in Int
        BY <4>1, <4>3, <4>5, SumParts
      <4>7. QED
        BY <4>5, <4>6, LocIs
    <3>6. QED
      BY <1>2, <2>3, <3>3, <3>4, <3>5
  <2>6. CASE Numel(l) = 0 \/ ~acc.any
    <3>1. ~acc.any => Reals(v) = {}
      BY <2>5
    <3>2. fp = None
      BY <2>4, <2>6, Zenon
    <3>3. QED
      BY <1>5, <2>6, <3>1, <3>2, Zenon
  <2>7. CASE ~(Numel(l) = 0 \/ ~acc.any)
    <3>1. fp = <<acc.lo + a, acc.hi + b + size>>
      BY <2>4, <2>7, Zenon
    <3>2. PICK q \in Domain(l) : TRUE
      BY <1>2, <1>6, <2>7, AddressCorners
    <3>3. a \in Int /\ b \in Int
      BY <1>2, <2>1, <2>3, <3>2, LeftBounds
    <3>4. acc.lo + a \in Int /\ acc.hi + b + size \in Int
      BY <1>2, <2>3, <3>3
    <3>5. fp # None /\ fp[1] = acc.lo + a /\ fp[2] = acc.hi + b + size
      BY <1>7, <3>1, <3>4
    <3>6. ASSUME NEW c \in Reals(v) PROVE fp[1] <= GetLoc(l, c) /\ GetLoc(l, c) + size <= fp[2]
      <4>1. acc.lo + a <= GetLoc(l, c) /\ GetLoc(l, c) <= acc.hi + b /\ GetLoc(l, c) \in Int
        BY <2>5, <3>6
      <4>2. QED
        BY <1>2, <2>3, <3>3, <3>5, <4>1
    <3>7. QED
      BY <1>1, <3>4, <3>5, <3>6
  <2>8. QED
    BY <2>6, <2>7
<1>10. QED
  BY <1>8, <1>9

\* A point that does not resolve to the fill resolves to its address.
LEMMA ResolveInt ==
  ASSUME NEW v, IsView(v), NEW c, c \in Domain(v.base), Resolve(v, c) # Fill
  PROVE  Resolve(v, c) \in Int /\ Resolve(v, c) = GetLoc(v.base, c)
<1>1. InRange(v.base, c)
  BY DomainInRange
<1>2. IsPoint(v.base, c) /\ IsLayout(v.base)
  BY <1>1 DEF InRange, IsPoint, IsView, IsLayout, IsDim
<1>3. Resolve(v, c) = GetLoc(v.base, c)
  BY DEF Resolve
<1>4. QED
  BY <1>2, <1>3, LocInt

\* The bytes of a view lie in its footprint.
LEMMA BytesInFootprint ==
  ASSUME NEW v, IsView(v), WellFormed(v.base), NEW fp, fp = GFootprint(v, v.size)
  PROVE  IF fp = None THEN Bytes(v) = {}
         ELSE fp[1] \in Int /\ fp[2] \in Int /\ Bytes(v) \subseteq fp[1] .. fp[2] - 1
<1>1. CASE fp = None
  <2>1. Reals(v) = {}
    BY <1>1, FootprintHolds
  <2>2. QED
    BY <1>1, <2>1 DEF Bytes
<1>2. CASE fp # None
  <2>1. fp[1] \in Int /\ fp[2] \in Int
    BY <1>2, FootprintHolds
  <2>2. ASSUME NEW b \in Bytes(v) PROVE b \in fp[1] .. fp[2] - 1
    <3>1. PICK c \in Reals(v) : b \in GetLoc(v.base, c) .. GetLoc(v.base, c) + v.size - 1
      BY <2>2 DEF Bytes
    <3>2. fp[1] <= GetLoc(v.base, c) /\ GetLoc(v.base, c) + v.size <= fp[2]
      BY <1>2, FootprintHolds
    <3>3. GetLoc(v.base, c) \in Int /\ v.size \in Nat
      BY <3>1, ResolveInt DEF Reals, IsView
    <3>4. QED
      BY <2>1, <3>1, <3>2, <3>3
  <2>3. QED
    BY <1>2, <2>1, <2>2
<1>3. QED
  BY <1>1, <1>2

\* The least and the greatest of a set of integers, when it has them.
LEMMA ExtremesAre ==
  ASSUME NEW S, S \subseteq Int, NEW a \in S, NEW b \in S, \A x \in S : a <= x /\ x <= b
  PROVE  Min(S) = a /\ Max(S) = b
<1>1. Min(S) \in S /\ \A y \in S : Min(S) <= y
  <2>1. \E x \in S : \A y \in S : x <= y
    OBVIOUS
  <2>2. QED
    BY <2>1 DEF Min
<1>2. Max(S) \in S /\ \A y \in S : Max(S) >= y
  <2>1. \E x \in S : \A y \in S : x >= y
    <3>1. \A y \in S : b >= y
      OBVIOUS
    <3>2. QED
      BY <3>1
  <2>2. QED
    BY <2>1 DEF Max
<1>3. PICK m, M : m = Min(S) /\ M = Max(S)
  OBVIOUS
<1>4. m \in Int /\ M \in Int /\ a \in Int /\ b \in Int /\ m <= a /\ a <= m /\ M >= b /\ M <= b
  BY <1>1, <1>2, <1>3
<1>5. QED
  BY <1>3, <1>4

\* The footprint of a plain tensor is exact: its first and last bytes are
\* bytes the tensor reads.
LEMMA FootprintExact ==
  ASSUME NEW v, IsView(v), v.size >= 1, WellFormed(v.base), Plain(v), NEW fp, fp = GFootprint(v, v.size), fp # None
  PROVE  fp[1] = Min(Bytes(v)) /\ fp[2] = Max(Bytes(v)) + 1
<1>1. PICK l, size : l = v.base /\ size = v.size
  OBVIOUS
<1>2. IsLayout(l) /\ size \in Nat /\ size >= 1 /\ l.offset \in Int
  BY <1>1 DEF IsView, IsLayout
<1>3. PICK a, b : a = SumFunction(Floor(l)) /\ b = SumFunction(Roof(l))
  OBVIOUS
<1>4. fp = IF Numel(l) = 0 THEN None ELSE <<l.offset + a, l.offset + b + size>>
  BY <1>1, <1>3, FootprintIs DEF GFootprint
<1>5. Full(l)
  BY <1>1, <1>2, <1>4, FullUnlessEmpty DEF WellFormed, Boxed
<1>6. PICK q \in Domain(l), r \in Domain(l) : GetLoc(l, q) = l.offset + a /\ GetLoc(l, r) = l.offset + b
  BY <1>2, <1>3, <1>5, AddressCorners
<1>7. a \in Int /\ b \in Int
  BY <1>2, <1>3, <1>6, AddressBounds
<1>8. \A c \in Domain(l) : c \in Reals(v)
  <2>1. ASSUME NEW c \in Domain(l) PROVE c \in Reals(v)
    <3>1. v.guards = <<>>
      BY DEF Plain
    <3>2. Resolve(v, c) = GetLoc(l, c)
      BY <1>1, <3>1 DEF Resolve
    <3>3. GetLoc(l, c) \in Int
      BY <1>2, <2>1, AddressBounds
    <3>4. QED
      BY <1>1, <3>2, <3>3, ViewsAssumption DEF Reals
  <2>2. QED
    BY <2>1
<1>9. PICK first, last : first = l.offset + a /\ last = l.offset + b + (size - 1)
  OBVIOUS
<1>10. first \in Int /\ last \in Int /\ fp[1] = first /\ fp[2] = last + 1
  BY <1>2, <1>4, <1>7, <1>9
<1>11. first \in Bytes(v)
  <2>1. first \in GetLoc(l, q) .. GetLoc(l, q) + size - 1
    BY <1>2, <1>6, <1>9, <1>10
  <2>2. QED
    BY <1>1, <1>6, <1>8, <2>1 DEF Bytes
<1>12. last \in Bytes(v)
  <2>1. last \in GetLoc(l, r) .. GetLoc(l, r) + size - 1
    BY <1>2, <1>6, <1>7, <1>9, <1>10
  <2>2. QED
    BY <1>1, <1>6, <1>8, <2>1 DEF Bytes
<1>13. Bytes(v) \subseteq first .. last
  BY <1>10, BytesInFootprint
<1>14. Bytes(v) \subseteq Int /\ \A x \in Bytes(v) : first <= x /\ x <= last
  BY <1>10, <1>13
<1>15. Min(Bytes(v)) = first /\ Max(Bytes(v)) = last
  BY <1>11, <1>12, <1>14, ExtremesAre
<1>16. QED
  BY <1>10, <1>15

\* Tensors that share a byte have footprints that overlap.
LEMMA SharersAre ==
  ASSUME NEW v, IsView(v), WellFormed(v.base), NEW w, IsView(w), WellFormed(w.base), NEW b, b \in Bytes(v), b \in Bytes(w)
  PROVE  Overlaps(v, w)
<1>1. PICK x, y : x = GFootprint(v, v.size) /\ y = GFootprint(w, w.size)
  OBVIOUS
<1>2. x # None /\ x[1] \in Int /\ x[2] \in Int /\ b \in x[1] .. x[2] - 1
  BY <1>1, BytesInFootprint
<1>3. y # None /\ y[1] \in Int /\ y[2] \in Int /\ b \in y[1] .. y[2] - 1
  BY <1>1, BytesInFootprint
<1>4. x[1] < y[2] /\ y[1] < x[2]
  BY <1>2, <1>3
<1>5. QED
  BY <1>1, <1>2, <1>3, <1>4 DEF Overlaps

-----------------------------------------------------------------------------
(* VERDICTS                                                                 *)

\* A dim of stride 0 and of more than one coordinate brings two points to
\* one address.
LEMMA AliasedCollides ==
  ASSUME NEW l, IsLayout(l), Full(l), Injectivity(l) = "aliased"
  PROVE  \E c, e \in Domain(l) : c # e /\ GetLoc(l, c) = GetLoc(l, e)
<1>1. PICK n \in Active(l) : Abs(l.dims[n].stride) = 0
  BY DEF Injectivity
<1>2. n \in Names(l) /\ Size(l.dims[n]) > 1
  BY DEF Active
<1>3. \A m \in Names(l) : l.dims[m].start \in Int /\ l.dims[m].stop \in Int /\ l.dims[m].start < l.dims[m].stop
  BY DEF IsLayout, IsDim, Full
<1>4. l.dims[n].stride = 0
  BY <1>1, <1>2 DEF IsLayout, IsDim, Abs
<1>5. PICK c, e : /\ c = [m \in Names(l) |-> l.dims[m].start]
                  /\ e = [m \in Names(l) |-> IF m = n THEN l.dims[m].start + 1 ELSE l.dims[m].start]
  OBVIOUS
<1>6. c[n] = l.dims[n].start /\ e[n] = l.dims[n].start + 1 /\ l.dims[n].start + 1 < l.dims[n].stop
  BY <1>2, <1>3, <1>5 DEF Size
<1>7. c \in Domain(l)
  BY <1>3, <1>5, InBoxOf
<1>8. e \in Domain(l)
  <2>1. \A m \in Names(l) : e[m] \in Int /\ l.dims[m].start <= e[m] /\ e[m] < l.dims[m].stop
    BY <1>3, <1>5, <1>6
  <2>2. DOMAIN e = Names(l) /\ e = [m \in Names(l) |-> e[m]]
    BY <1>5
  <2>3. QED
    BY <2>1, <2>2, InBoxOf
<1>9. Terms(l, c) = Terms(l, e)
  <2>1. ASSUME NEW m \in Names(l) PROVE l.dims[m].stride * c[m] = l.dims[m].stride * e[m]
    <3>1. CASE m = n
      <4>1. c[m] \in Int /\ e[m] \in Int /\ l.dims[m].stride = 0
        BY <1>2, <1>3, <1>4, <1>6, <3>1
      <4>2. QED
        BY <4>1
    <3>2. CASE m # n
      BY <1>5, <3>2
    <3>3. QED
      BY <3>1, <3>2
  <2>2. QED
    BY <2>1 DEF Terms
<1>10. GetLoc(l, c) = GetLoc(l, e)
  BY <1>9, LocIs
<1>11. c # e
  BY <1>3, <1>2, <1>6
<1>12. QED
  BY <1>7, <1>8, <1>10, <1>11

\* What is collected by a guarded view's verdict.
LEMMA VerdictIs ==
  ASSUME NEW v
  PROVE  /\ GInjectivity(v) = "injective" => Injectivity(v.base) = "injective"
         /\ GInjectivity(v) = "aliased" => Plain(v) /\ Injectivity(v.base) = "aliased"
BY DEF GInjectivity

\* Every point of a plain view is real.
LEMMA PlainReals ==
  ASSUME NEW v, IsView(v), Plain(v)
  PROVE  Reals(v) = Domain(v.base)
<1>1. ASSUME NEW c \in Domain(v.base) PROVE Resolve(v, c) # Fill
  <2>1. v.guards = <<>> /\ IsLayout(v.base)
    BY DEF Plain, IsView
  <2>2. Resolve(v, c) = GetLoc(v.base, c)
    BY <2>1 DEF Resolve
  <2>3. GetLoc(v.base, c) \in Int
    BY <2>1, AddressBounds
  <2>4. QED
    BY <2>2, <2>3, ViewsAssumption
<1>2. QED
  BY <1>1 DEF Reals

\* A partial product is the product of the function restricted to that part.
LEMMA MultsAgree ==
  ASSUME NEW S, IsFiniteSet(S), NEW g \in [S -> Int], NEW F, \A s \in SUBSET S : F[s] = MultOf(F, g, s),
         NEW T \in SUBSET S, NEW h \in [T -> Int], \A x \in T : h[x] = g[x]
  PROVE  Mult(h) = F[T]
<1>1. IsFiniteSet(T)
  BY FS_Subset
<1>2. PICK G : (\A s \in SUBSET T : G[s] = MultOf(G, h, s)) /\ Mult(h) = G[T]
  BY <1>1, MultFolds
<1>3. SameSteps(F, G, T)
  <2>1. ASSUME NEW s \in SUBSET T, s # {} => F[s \ {Pick(s)}] = G[s \ {Pick(s)}] PROVE F[s] = G[s]
    <3>1. F[s] = MultOf(F, g, s) /\ G[s] = MultOf(G, h, s)
      BY <1>2
    <3>2. s # {} => Pick(s) \in T /\ h[Pick(s)] = g[Pick(s)]
      BY Picked
    <3>3. QED
      BY <2>1, <3>1, <3>2 DEF MultOf
  <2>2. QED
    BY <2>1 DEF SameSteps
<1>4. \A s \in SUBSET T : F[s] = G[s]
  BY <1>1, <1>3, FoldsAgree
<1>5. QED
  BY <1>2, <1>4

\* F holds the products of g over the subsets of S.
Mults(F, S, g) == F \in [SUBSET S -> Int] /\ \A s \in SUBSET S : F[s] = MultOf(F, g, s)
\* F takes whichever factor next.
AnyFactor(F, S, g) == \A s \in SUBSET S : \A x \in s : F[s] = g[x] * F[s \ {x}]

\* A product is the same whichever factor it takes next.
LEMMA MultAnyOrder ==
  ASSUME NEW S, IsFiniteSet(S), NEW g \in [S -> Int], NEW F, Mults(F, S, g)
  PROVE  AnyFactor(F, S, g)
<1>0. F \in [SUBSET S -> Int] /\ \A s \in SUBSET S : F[s] = MultOf(F, g, s)
  BY DEF Mults
<1>. DEFINE Bad == {s \in SUBSET S : \E x \in s : F[s] # g[x] * F[s \ {x}]}
<1>1. SUFFICES ASSUME Bad # {} PROVE FALSE
  BY DEF AnyFactor
<1>2. PICK s \in Bad : \A u \in SUBSET s : u # s => u \notin Bad
  <2>1. Bad \in SUBSET (SUBSET S)
    OBVIOUS
  <2>. HIDE DEF Bad
  <2>2. QED
    BY <1>1, <2>1, LeastSubset
<1>3. PICK x \in s : F[s] # g[x] * F[s \ {x}]
  BY <1>2
<1>4. PICK y \in s : F[s] = g[y] * F[s \ {y}]
  <2>1. Pick(s) \in s /\ s \in SUBSET S
    BY <1>2, <1>3, Picked
  <2>2. F[s] = MultOf(F, g, s)
    BY <1>0, <2>1
  <2>3. F[s] = g[Pick(s)] * F[s \ {Pick(s)}]
    BY <2>1, <2>2 DEF MultOf
  <2>4. QED
    BY <2>1, <2>3
<1>5. x # y
  BY <1>3, <1>4
<1>6. F[s \ {y}] = g[x] * F[(s \ {y}) \ {x}]
  BY <1>2, <1>5
<1>7. F[s \ {x}] = g[y] * F[(s \ {x}) \ {y}]
  BY <1>2, <1>5
<1>8. (s \ {y}) \ {x} = (s \ {x}) \ {y}
  OBVIOUS
<1>9. PICK a, b, c : a = g[x] /\ b = g[y] /\ c = F[(s \ {y}) \ {x}]
  OBVIOUS
<1>10. a \in Int /\ b \in Int /\ c \in Int
  BY <1>0, <1>2, <1>9
<1>11. F[s] = b * (a * c) /\ g[x] * F[s \ {x}] = a * (b * c)
  BY <1>4, <1>6, <1>7, <1>8, <1>9
<1>12. b * (a * c) = a * (b * c)
  BY <1>10
<1>13. QED
  <2>. HIDE DEF Bad
  <2>. QED
    BY <1>3, <1>11, <1>12

-----------------------------------------------------------------------------
(* CHARTS                                                                   *)

\* A chart made of integers takes distinct coordinates to distinct positions.
LEMMA ChartIs ==
  ASSUME NEW o \in Int, NEW s \in Int, s # 0, NEW kind, NEW axis
  PROVE  IsChart(Chart(o, s, kind, axis))
BY DEF IsChart, Chart

\* The parts of a chart.
LEMMA ChartHas ==
  ASSUME NEW chart, IsChart(chart), chart # None
  PROVE  /\ {"origin", "step", "kind", "axis"} \subseteq DOMAIN chart
         /\ chart.origin \in Int /\ chart.step \in Int /\ chart.step # 0
         /\ \A i \in Int : Phys(chart, i) \in Int
<1>1. /\ {"origin", "step", "kind", "axis"} \subseteq DOMAIN chart
      /\ chart.origin \in Int /\ chart.step \in Int /\ chart.step # 0
  BY DEF IsChart
<1>2. ASSUME NEW i \in Int PROVE Phys(chart, i) \in Int
  <2>1. i * chart.step \in Int
    BY <1>1, IntTimes
  <2>2. QED
    BY <1>1, <2>1 DEF Phys
<1>3. QED
  BY <1>1, <1>2

\* New dims with charts among old ones.
LEMMA PutCharted ==
  ASSUME NEW l, IsCharted(l), NEW gone, NEW new, \A m \in DOMAIN new : IsChart(new[m].chart), NEW delta
  PROVE  IsCharted(Put(l, gone, new, delta))
BY DEF IsCharted, Put, Override, Drop, Names

\* So does putting one dim of a chart in place of another.
LEMMA PutOneCharted ==
  ASSUME NEW l, IsCharted(l), NEW n, NEW m, NEW d, IsChart(d.chart), NEW delta
  PROVE  IsCharted(PutOne(l, n, m, d, delta))
<1>1. PICK new : new = Single(m, d)
  OBVIOUS
<1>2. \A k \in DOMAIN new : IsChart(new[k].chart)
  BY <1>1 DEF Single
<1>3. QED
  BY <1>1, <1>2, PutCharted DEF PutOne

\* And giving a dim another content with a chart.
LEMMA SetDimCharted ==
  ASSUME NEW l, IsLayout(l), IsCharted(l), NEW n \in Names(l), NEW d, IsDim(d), IsChart(d.chart)
  PROVE  IsCharted(SetDim(l, n, d))
BY SetDimIs DEF IsCharted

\* The operations on one dim keep charts charts.
LEMMA SliceCharted ==
  ASSUME NEW l, IsLayout(l), IsCharted(l), NEW n \in Names(l), NEW lo \in Int, NEW hi \in Int
  PROVE  IsCharted(Slice(l, n, lo, hi))
<1>1. PICK d : d = l.dims[n]
  OBVIOUS
<1>2. IsDim(d) /\ IsChart(d.chart)
  BY <1>1 DEF IsLayout, IsCharted
<1>3. PICK labels : labels = IF d.labels = None THEN None ELSE SubSeq(d.labels, lo - d.start + 1, hi - d.start)
  OBVIOUS
<1>4. PICK e : e = [d EXCEPT !.start = lo, !.stop = hi, !.labels = labels]
  OBVIOUS
<1>5. IsDim(e) /\ IsChart(e.chart)
  BY <1>2, <1>4 DEF IsDim, Fields
<1>6. Slice(l, n, lo, hi) = SetDim(l, n, e)
  BY <1>1, <1>3, <1>4 DEF Slice
<1>7. QED
  BY <1>5, <1>6, SetDimCharted

\* A shift moves the origin of the chart.
LEMMA ShiftCharted ==
  ASSUME NEW l, IsLayout(l), IsCharted(l), NEW n \in Names(l), NEW s \in Int
  PROVE  IsCharted(Shift(l, n, s))
<1>1. PICK d, c : d = l.dims[n] /\ c = d.chart
  OBVIOUS
<1>2. IsDim(d) /\ IsChart(c)
  BY <1>1 DEF IsLayout, IsCharted
<1>3. PICK k : k = IF c = None THEN None ELSE [c EXCEPT !.origin = @ - s * c.step]
  OBVIOUS
<1>4. IsChart(k)
  <2>1. CASE c = None
    BY <1>3, <2>1 DEF IsChart
  <2>2. CASE c # None
    <3>1. {"origin", "step", "kind", "axis"} \subseteq DOMAIN c /\ c.origin \in Int /\ c.step \in Int /\ c.step # 0
      BY <1>2, <2>2, ChartHas
    <3>2. c.origin - s * c.step \in Int
      BY <3>1, IntTimes
    <3>3. QED
      BY <1>3, <2>2, <3>1, <3>2 DEF IsChart
  <2>3. QED
    BY <2>1, <2>2
<1>5. PICK e : e = [d EXCEPT !.start = @ + s, !.stop = @ + s, !.chart = k]
  OBVIOUS
<1>6. e.chart = k
  BY <1>2, <1>5 DEF IsDim, Fields
<1>7. Shift(l, n, s) = PutOne(l, n, n, e, -(d.stride * s))
  BY <1>1, <1>3, <1>5 DEF Shift
<1>8. QED
  BY <1>4, <1>6, <1>7, PutOneCharted

\* A flip turns the step of the chart, which stays non-zero.
LEMMA FlipCharted ==
  ASSUME NEW l, IsLayout(l), IsCharted(l), NEW n \in Names(l)
  PROVE  IsCharted(Flip(l, n))
<1>1. PICK d, c, p : d = l.dims[n] /\ c = d.chart /\ p = d.start + d.stop - 1
  OBVIOUS
<1>2. IsDim(d) /\ IsChart(c) /\ p \in Int
  BY <1>1 DEF IsLayout, IsCharted, IsDim
<1>3. PICK k : k = IF c = None THEN None ELSE [c EXCEPT !.origin = @ + p * c.step, !.step = -@]
  OBVIOUS
<1>4. IsChart(k)
  <2>1. CASE c = None
    BY <1>3, <2>1 DEF IsChart
  <2>2. CASE c # None
    <3>1. {"origin", "step", "kind", "axis"} \subseteq DOMAIN c /\ c.origin \in Int /\ c.step \in Int /\ c.step # 0
      BY <1>2, <2>2, ChartHas
    <3>2. c.origin + p * c.step \in Int /\ -c.step \in Int /\ -c.step # 0
      BY <1>2, <3>1, IntTimes
    <3>3. QED
      BY <1>3, <2>2, <3>1, <3>2 DEF IsChart
  <2>3. QED
    BY <2>1, <2>2
<1>5. PICK labels : labels = IF d.labels = None THEN None ELSE Reverse(d.labels)
  OBVIOUS
<1>6. PICK e : e = [d EXCEPT !.stride = -@, !.chart = k, !.labels = labels]
  OBVIOUS
<1>7. e.chart = k
  BY <1>2, <1>6 DEF IsDim, Fields
<1>8. Flip(l, n) = PutOne(l, n, n, e, d.stride * p)
  BY <1>1, <1>3, <1>5, <1>6 DEF Flip
<1>9. QED
  BY <1>4, <1>7, <1>8, PutOneCharted

\* A decimation multiplies the step of the chart by its factor.
LEMMA DecimateCharted ==
  ASSUME NEW l, IsLayout(l), IsCharted(l), NEW n \in Names(l), NEW factor \in Nat \ {0}, NEW phase \in Int
  PROVE  IsCharted(Decimate(l, n, factor, phase))
<1>1. PICK d, c, p : d = l.dims[n] /\ c = d.chart /\ p = phase % factor
  OBVIOUS
<1>2. IsDim(d) /\ IsChart(c) /\ p \in Int
  BY <1>1 DEF IsLayout, IsCharted, IsDim
<1>3. PICK k : k = IF c = None THEN None ELSE [c EXCEPT !.origin = @ + p * c.step, !.step = @ * factor]
  OBVIOUS
<1>4. IsChart(k)
  <2>1. CASE c = None
    BY <1>3, <2>1 DEF IsChart
  <2>2. CASE c # None
    <3>1. {"origin", "step", "kind", "axis"} \subseteq DOMAIN c /\ c.origin \in Int /\ c.step \in Int /\ c.step # 0
      BY <1>2, <2>2, ChartHas
    <3>2. c.origin + p * c.step \in Int
      BY <1>2, <3>1, IntTimes
    <3>3. c.step * factor \in Int /\ c.step * factor # 0
      BY <3>1
    <3>4. QED
      BY <1>3, <2>2, <3>1, <3>2, <3>3 DEF IsChart
  <2>3. QED
    BY <2>1, <2>2
<1>5. PICK start, stop : start = Ceiling(d.start - p, factor) /\ stop = Most(start, (d.stop - 1 - p) \div factor + 1)
  OBVIOUS
<1>6. PICK labels : labels = IF d.labels = None THEN None
                             ELSE [j \in 1 .. stop - start |-> d.labels[factor * (start + j - 1) + p - d.start + 1]]
  OBVIOUS
<1>7. PICK e : e = [d EXCEPT !.stride = @ * factor, !.start = start, !.stop = stop, !.chart = k, !.labels = labels]
  OBVIOUS
<1>8. e.chart = k
  BY <1>2, <1>7 DEF IsDim, Fields
<1>9. Decimate(l, n, factor, phase) = PutOne(l, n, n, e, d.stride * p)
  BY <1>1, <1>3, <1>5, <1>6, <1>7 DEF Decimate
<1>10. QED
  BY <1>4, <1>8, <1>9, PutOneCharted

\* A dim under another name keeps its chart.
LEMMA RenameCharted ==
  ASSUME NEW l, IsCharted(l), NEW n \in Names(l), NEW m
  PROVE  IsCharted(Rename(l, n, m))
<1>1. IsChart(l.dims[n].chart)
  BY DEF IsCharted
<1>2. QED
  BY <1>1, PutOneCharted DEF Rename

\* A repeated dim has the chart it is given.
LEMMA RepeatCharted ==
  ASSUME NEW l, IsCharted(l), NEW n, NEW lo, NEW hi, NEW chart, IsChart(chart), NEW labels
  PROVE  IsCharted(Repeat(l, n, lo, hi, chart, labels))
<1>1. PICK new : new = Single(n, Dim(0, lo, hi, chart, labels))
  OBVIOUS
<1>2. \A k \in DOMAIN new : IsChart(new[k].chart)
  BY <1>1 DEF Single, Dim
<1>3. QED
  BY <1>1, <1>2, PutCharted DEF Repeat

\* The chart of taps.
LEMMA TapCharted ==
  ASSUME NEW l, IsCharted(l), NEW n \in Names(l), NEW lo, NEW hi, NEW dilation \in Nat \ {0}
  PROVE  IsChart(TapDim(l, n, lo, hi, dilation).chart)
<1>1. PICK c, a : c = l.dims[n].chart /\ a = AxisOf(l, n)
  OBVIOUS
<1>2. IsChart(c)
  BY <1>1 DEF IsCharted
<1>3. TapDim(l, n, lo, hi, dilation).chart = IF c = None THEN None ELSE Chart(0, dilation * c.step, "displacement", a)
  BY <1>1 DEF TapDim, Dim
<1>4. CASE c = None
  BY <1>3, <1>4 DEF IsChart
<1>5. CASE c # None
  <2>1. c.step \in Int /\ c.step # 0
    BY <1>2, <1>5, ChartHas
  <2>2. dilation * c.step \in Int /\ dilation * c.step # 0
    BY <2>1
  <2>3. QED
    BY <1>3, <1>5, <2>2, ChartIs
<1>6. QED
  BY <1>4, <1>5

\* A window keeps the chart of its dim, and its taps get one of displacements.
LEMMA WindowCharted ==
  ASSUME NEW l, IsLayout(l), IsCharted(l), NEW n \in Names(l), NEW k, NEW lo, NEW hi, NEW dilation \in Nat \ {0}
  PROVE  IsCharted(Window(l, n, k, lo, hi, dilation))
<1>1. PICK t, e : /\ t = TapDim(l, n, lo, hi, dilation)
                  /\ e = [l.dims[n] EXCEPT !.start = WindowStart(l, n, lo, dilation), !.stop = WindowStop(l, n, hi, dilation)]
  OBVIOUS
<1>2. IsDim(l.dims[n]) /\ IsChart(l.dims[n].chart)
  BY DEF IsLayout, IsCharted
<1>3. IsChart(e.chart)
  BY <1>1, <1>2 DEF IsDim, Fields
<1>4. IsChart(t.chart)
  BY <1>1, TapCharted
<1>5. PICK new : new = Override(Single(k, t), Single(n, e))
  OBVIOUS
<1>6. \A m \in DOMAIN new : IsChart(new[m].chart)
  BY <1>3, <1>4, <1>5 DEF Override, Single
<1>7. Window(l, n, k, lo, hi, dilation) = Put(l, {n}, new, 0)
  BY <1>1, <1>5 DEF Window
<1>8. QED
  BY <1>6, <1>7, PutCharted

\* A stencil too.
LEMMA StencilCharted ==
  ASSUME NEW v, IsView(v), IsCharted(v.base), NEW n \in Names(v.base), NEW k, NEW lo, NEW hi, NEW dilation \in Nat \ {0}
  PROVE  IsCharted(Stencil(v, n, k, lo, hi, dilation).base)
<1>1. PICK new : new = Single(k, TapDim(v.base, n, lo, hi + 1, dilation))
  OBVIOUS
<1>2. \A m \in DOMAIN new : IsChart(new[m].chart)
  BY <1>1, TapCharted DEF Single
<1>3. Stencil(v, n, k, lo, hi, dilation).base = Put(v.base, {}, new, 0)
  BY <1>1 DEF Stencil, View, IsView
<1>4. QED
  BY <1>2, <1>3, PutCharted

\* The constant of a split into two parts is an integer.
LEMMA SplitConstInt ==
  ASSUME NEW d, IsDim(d), NEW parts, NEW x, NEW y, TwoParts(parts, x, y)
  PROVE  SplitConst(d, parts) \in Int
<1>1. /\ parts = <<x, y>> /\ Size(y) \in Int /\ x.start \in Int /\ y.start \in Int
  BY DEF TwoParts, IsPart, Size
<1>2. parts[1] = x /\ parts[2] = y /\ DOMAIN parts = {1, 2}
  BY <1>1
<1>3. Weight(parts, 1) = Size(y) /\ Weight(parts, 2) = 1
  BY WeightsAre
<1>4. PICK t : t = [j \in {1, 2} |-> Weight(parts, j) * parts[j].start]
  OBVIOUS
<1>5. t \in [{1, 2} -> Int]
  <2>1. Size(y) * x.start \in Int /\ 1 * y.start \in Int
    BY <1>1, IntTimes
  <2>2. t[1] = Size(y) * x.start /\ t[2] = 1 * y.start
    BY <1>2, <1>3, <1>4
  <2>3. QED
    BY <1>4, <2>1, <2>2
<1>7. SumFunction(t) \in Int
  <2>1. PICK i, j : i = 1 /\ j = 2
    OBVIOUS
  <2>2. i # j /\ t \in [{i, j} -> Int]
    BY <1>5, <2>1
  <2>3. SumFunction(t) = t[i] + t[j]
    BY <2>2, SumTwo
  <2>4. QED
    BY <2>2, <2>3
<1>8. SplitConst(d, parts) = d.start - SumFunction(t)
  BY <1>2, <1>4 DEF SplitConst, Sigma
<1>9. QED
  BY <1>7, <1>8 DEF IsDim

\* The parts of a split dim get charts of its step times their weights.
LEMMA SplitCharted ==
  ASSUME NEW l, IsLayout(l), IsCharted(l), NEW n \in Names(l), NEW parts, NEW x, NEW y, TwoParts(parts, x, y), Size(y) # 0
  PROVE  IsCharted(Split(l, n, parts))
<1>1. PICK d, c, a, e : d = l.dims[n] /\ c = d.chart /\ a = AxisOf(l, n) /\ e = SplitConst(d, parts)
  OBVIOUS
<1>2. IsDim(d) /\ IsChart(c)
  BY <1>1 DEF IsLayout, IsCharted
<1>3. e \in Int
  BY <1>1, <1>2, SplitConstInt
<1>4. /\ Weight(parts, 1) = Size(y) /\ Weight(parts, 2) = 1 /\ Size(y) \in Int
      /\ parts = <<x, y>> /\ x.name # y.name
  BY WeightsAre DEF TwoParts, IsPart, Size
<1>5. parts[1] = x /\ parts[2] = y /\ DOMAIN parts = {1, 2}
  BY <1>4
<1>6. ASSUME NEW j \in {1, 2} PROVE IsChart(SplitDim(l, n, parts, j).chart)
  <2>1. CASE c = None
    <3>1. SplitDim(l, n, parts, j).chart = None
      BY <1>1, <2>1 DEF SplitDim, Dim
    <3>2. QED
      BY <3>1 DEF IsChart
  <2>2. CASE c # None
    <3>1. c.origin \in Int /\ c.step \in Int /\ c.step # 0
      BY <1>2, <2>2, ChartHas
    <3>2. PICK w, origin, kind : /\ w = Weight(parts, j) /\ origin = IF j = 1 THEN c.origin + e * c.step ELSE 0
                                 /\ kind = IF j = 1 THEN c.kind ELSE "displacement"
      OBVIOUS
    <3>3. SplitDim(l, n, parts, j).chart = Chart(origin, w * c.step, kind, a)
      BY <1>1, <2>2, <3>2 DEF SplitDim, Dim
    <3>4. w \in Int /\ w # 0
      BY <1>4, <3>2
    <3>5. w * c.step \in Int /\ w * c.step # 0
      BY <3>1, <3>4
    <3>6. origin \in Int
      BY <1>3, <3>1, <3>2, IntTimes
    <3>7. QED
      BY <3>3, <3>5, <3>6, ChartIs
  <2>3. QED
    BY <2>1, <2>2
<1>7. NameOf(parts, x.name) = 1 /\ NameOf(parts, y.name) = 2
  BY <1>4, <1>5 DEF NameOf
<1>8. PICK new : new = [m \in {parts[j].name : j \in DOMAIN parts} |-> SplitDim(l, n, parts, NameOf(parts, m))]
  OBVIOUS
<1>9. ASSUME NEW m \in DOMAIN new PROVE IsChart(new[m].chart)
  <2>1. m = x.name \/ m = y.name
    BY <1>5, <1>8, <1>9
  <2>2. NameOf(parts, m) \in {1, 2}
    BY <1>7, <2>1
  <2>3. new[m] = SplitDim(l, n, parts, NameOf(parts, m))
    BY <1>8, <1>9
  <2>4. QED
    BY <1>6, <2>2, <2>3
<1>10. Split(l, n, parts) = Put(l, {n}, new, d.stride * e)
  BY <1>1, <1>8 DEF Split
<1>11. QED
  BY <1>9, <1>10, PutCharted

\* Dims merge only if their charts do: the chart of the new one has the step of the last.
LEMMA MergeCharted ==
  ASSUME NEW l, IsLayout(l), IsCharted(l), NEW m \in Names(l), NEW n \in Names(l), NEW parts, parts = <<m, n>>,
         NEW name, MergesCharts(l, parts), NEW start \in Int
  PROVE  IsCharted(Merge(l, parts, name, start))
<1>1. Last(parts) = n /\ Range(parts) = {m, n}
  <2>1. Len(parts) = 2 /\ parts[1] = m /\ parts[2] = n /\ DOMAIN parts = {1, 2}
    OBVIOUS
  <2>2. QED
    BY <2>1 DEF Last, Range
<1>2. PICK d : d = MergeDim(l, parts, start)
  OBVIOUS
<1>3. d.chart = MergedChart(l, parts, start)
  BY <1>2 DEF MergeDim, Dim
<1>4. IsChart(d.chart)
  <2>1. CASE Range(parts) \cap Charted(l) = {}
    BY <1>3, <2>1 DEF MergedChart, IsChart
  <2>2. CASE Range(parts) \cap Charted(l) # {}
    <3>1. {m, n} \subseteq Charted(l)
      BY <1>1, <2>2 DEF MergesCharts
    <3>2. \A i \in {m, n} : /\ l.dims[i].chart.step \in Int /\ l.dims[i].chart.step # 0
                            /\ \A k \in Int : Phys(l.dims[i].chart, k) \in Int
      BY <3>1, ChartHas DEF Charted, IsCharted
    <3>3. \A i \in {m, n} : l.dims[i].start \in Int
      BY DEF IsLayout, IsDim
    <3>4. PICK f : f = [i \in {m, n} |-> Phys(l.dims[i].chart, l.dims[i].start)]
      OBVIOUS
    <3>5. f \in [{m, n} -> Int] /\ IsFiniteSet({m, n})
      <4>1. f \in [{m, n} -> Int]
        BY <3>2, <3>3, <3>4
      <4>2. IsFiniteSet({m, n})
        BY FS_Subset DEF IsLayout
      <4>3. QED
        BY <4>1, <4>2
    <3>6. SumFunction(f) \in Int
      BY <3>5, SumInt
    <3>7. PICK s, kind, axis : /\ s = l.dims[n].chart.step /\ kind = AnyPosition(l, Range(parts))
                               /\ axis = AxisOf(l, Head(parts))
      OBVIOUS
    <3>8. d.chart = Chart(SumFunction(f) - start * s, s, kind, axis)
      BY <1>1, <1>3, <2>2, <3>4, <3>7 DEF MergedChart, Sigma
    <3>9. SumFunction(f) - start * s \in Int /\ s \in Int /\ s # 0
      BY <3>2, <3>6, <3>7, IntTimes
    <3>10. QED
      BY <3>8, <3>9, ChartIs
  <2>3. QED
    BY <2>1, <2>2
<1>5. PICK new, delta : /\ new = Single(name, d)
                        /\ delta = Sigma(LAMBDA i : l.dims[i].stride * l.dims[i].start, Range(parts))
                                     - l.dims[Last(parts)].stride * start
  OBVIOUS
<1>6. \A k \in DOMAIN new : IsChart(new[k].chart)
  BY <1>4, <1>5 DEF Single
<1>7. Merge(l, parts, name, start) = Put(l, Range(parts), new, delta)
  BY <1>2, <1>5 DEF Merge, MergeDim
<1>8. QED
  BY <1>6, <1>7, PutCharted

\* The chart of a diagonal has the sum of the steps, if that is not zero, or there is none.
LEMMA DiagonalCharted ==
  ASSUME NEW l, IsLayout(l), IsCharted(l), NEW parts, parts \subseteq Names(l), NEW name
  PROVE  IsCharted(Diagonal(l, parts, name))
<1>1. PICK chart : chart = DiagonalChart(l, parts)
  OBVIOUS
<1>2. IsChart(chart)
  <2>1. CASE chart = None
    BY <2>1 DEF IsChart
  <2>2. CASE chart # None
    <3>1. PICK f, g : f = [n \in parts |-> l.dims[n].chart.step] /\ g = [n \in parts |-> l.dims[n].chart.origin]
      OBVIOUS
    <3>2. SumFunction(f) = Sigma(LAMBDA n : l.dims[n].chart.step, parts)
      BY <3>1 DEF Sigma
    <3>3. SumFunction(g) = Sigma(LAMBDA n : l.dims[n].chart.origin, parts)
      BY <3>1 DEF Sigma
    <3>4. parts \subseteq Charted(l) /\ SumFunction(f) # 0
      BY <1>1, <2>2, <3>2 DEF DiagonalChart
    <3>5. \A n \in parts : l.dims[n].chart.step \in Int /\ l.dims[n].chart.origin \in Int
      BY <3>4, ChartHas DEF Charted, IsCharted
    <3>6. f \in [parts -> Int] /\ g \in [parts -> Int]
      BY <3>1, <3>5
    <3>7. IsFiniteSet(parts)
      BY FS_Subset DEF IsLayout
    <3>8. SumFunction(f) \in Int /\ SumFunction(g) \in Int
      BY <3>6, <3>7, SumInt
    <3>9. \E kind, axis : chart = Chart(SumFunction(g), SumFunction(f), kind, axis)
      BY <1>1, <2>2, <3>2, <3>3 DEF DiagonalChart
    <3>10. QED
      BY <3>4, <3>8, <3>9, ChartIs
  <2>3. QED
    BY <2>1, <2>2
<1>3. \E d : d.chart = chart /\ Diagonal(l, parts, name) = Put(l, parts, Single(name, d), 0)
  BY <1>1 DEF Diagonal, Dim
<1>4. PICK d : d.chart = chart /\ Diagonal(l, parts, name) = Put(l, parts, Single(name, d), 0)
  BY <1>3
<1>5. \A k \in DOMAIN Single(name, d) : IsChart(Single(name, d)[k].chart)
  BY <1>2, <1>4 DEF Single
<1>6. QED
  BY <1>4, <1>5, PutCharted

\* The labels that select gives away, and the dim that takes those of an axis.
GivenUp(l, points) == DOMAIN points \cap Charted(l)
LabelOf(l, points, axis) ==
  Sigma(LAMBDA n : Phys(l.dims[n].chart, points[n]), {n \in GivenUp(l, points) : AxisOf(l, n) = axis})
Left(l, points) == [l EXCEPT !.dims = Drop(l.dims, DOMAIN points)]
TargetOf(l, points, axis) ==
  {n \in OnAxis(Left(l, points), axis) :
     \/ Drop(l.dims, DOMAIN points)[n].chart.kind = "position"
     \/ \A m \in OnAxis(Left(l, points), axis) :
          /\ Drop(l.dims, DOMAIN points)[m].chart.kind # "position"
          /\ Abs(Drop(l.dims, DOMAIN points)[m].chart.step) <= Abs(Drop(l.dims, DOMAIN points)[n].chart.step)}
Heirs(l, points) ==
  [a \in {a \in {AxisOf(l, n) : n \in GivenUp(l, points)} : TargetOf(l, points, a) # {}} |->
     CHOOSE n \in TargetOf(l, points, a) : TRUE]
IsHeir(l, points, n) == \E a \in DOMAIN Heirs(l, points) : Heirs(l, points)[a] = n
Richer(d, x) == [d EXCEPT !.chart.origin = @ + x, !.chart.kind = "position"]

\* The dims _compensate_axes leaves: those of before, the heirs of an axis with its labels added.
LEMMA CompensatedDims ==
  ASSUME NEW l, IsLayout(l), NEW points
  PROVE  CompensateAxes(l, points).dims =
           [n \in DOMAIN Drop(l.dims, DOMAIN points) |->
              IF IsHeir(l, points, n)
              THEN Richer(Drop(l.dims, DOMAIN points)[n], LabelOf(l, points, AxisOf(l, n)))
              ELSE Drop(l.dims, DOMAIN points)[n]]
<1>1. CompensateAxes(l, points) =
        [Left(l, points) EXCEPT !.dims = [n \in DOMAIN Drop(l.dims, DOMAIN points) |->
              IF IsHeir(l, points, n)
              THEN Richer(Drop(l.dims, DOMAIN points)[n], LabelOf(l, points, AxisOf(l, n)))
              ELSE Drop(l.dims, DOMAIN points)[n]]]
  BY DEF CompensateAxes, Left, IsHeir, Heirs, TargetOf, GivenUp, LabelOf, Richer, Sigma
<1>2. "dims" \in DOMAIN Left(l, points)
  BY DEF IsLayout, Left
<1>3. QED
  BY <1>1, <1>2

\* An heir is charted, and what it takes is an integer.
LEMMA HeirsAre ==
  ASSUME NEW l, IsLayout(l), NEW points, NEW n, n \in Names(l) \ DOMAIN points, IsHeir(l, points, n)
  PROVE  l.dims[n].chart # None
<1>1. PICK a \in DOMAIN Heirs(l, points) : Heirs(l, points)[a] = n
  BY DEF IsHeir
<1>2. n \in TargetOf(l, points, a)
  BY <1>1 DEF Heirs
<1>3. n \in Charted(Left(l, points))
  BY <1>2 DEF TargetOf, OnAxis
<1>4. Drop(l.dims, DOMAIN points)[n] = l.dims[n]
  BY DEF Drop, Names
<1>5. QED
  BY <1>3, <1>4 DEF Charted, Left, IsLayout

\* The label given up on an axis is an integer.
LEMMA LabelInt ==
  ASSUME NEW l, IsLayout(l), IsCharted(l), NEW points, DOMAIN points \subseteq Names(l),
         \A n \in DOMAIN points : points[n] \in Int, NEW axis
  PROVE  LabelOf(l, points, axis) \in Int
<1>1. PICK S : S = {n \in GivenUp(l, points) : AxisOf(l, n) = axis}
  OBVIOUS
<1>2. S \subseteq Charted(l) /\ S \subseteq DOMAIN points /\ IsFiniteSet(S)
  <2>1. S \subseteq Charted(l) /\ S \subseteq DOMAIN points
    BY <1>1 DEF GivenUp
  <2>2. QED
    BY <2>1, FS_Subset DEF IsLayout
<1>3. PICK f : f = [n \in S |-> Phys(l.dims[n].chart, points[n])]
  OBVIOUS
<1>4. ASSUME NEW n \in S PROVE Phys(l.dims[n].chart, points[n]) \in Int
  <2>1. IsChart(l.dims[n].chart) /\ l.dims[n].chart # None /\ points[n] \in Int
    BY <1>2 DEF IsCharted, Charted
  <2>2. QED
    BY <2>1, ChartHas
<1>5. f \in [S -> Int]
  BY <1>3, <1>4
<1>6. LabelOf(l, points, axis) = SumFunction(f)
  BY <1>1, <1>3 DEF LabelOf, Sigma
<1>7. QED
  BY <1>2, <1>5, <1>6, SumInt

\* The labels of the selected dims go to charts.
LEMMA SelectCharted ==
  ASSUME NEW l, IsLayout(l), IsCharted(l), NEW points, DOMAIN points \subseteq Names(l),
         \A n \in DOMAIN points : points[n] \in Int
  PROVE  IsCharted(Select(l, points))
<1>1. PICK k, rest : k = CompensateAxes(l, points) /\ rest = Drop(l.dims, DOMAIN points)
  OBVIOUS
<1>2. DOMAIN rest = Names(l) \ DOMAIN points /\ \A n \in DOMAIN rest : rest[n] = l.dims[n]
  BY <1>1 DEF Drop, Names
<1>3. k.dims = [n \in DOMAIN rest |->
                  IF IsHeir(l, points, n) THEN Richer(rest[n], LabelOf(l, points, AxisOf(l, n))) ELSE rest[n]]
  BY <1>1, CompensatedDims
<1>4. Select(l, points).dims = k.dims
  <2>1. "dims" \in DOMAIN k
    BY <1>1, CompensateIs DEF Compensated
  <2>2. QED
    BY <1>1, <2>1 DEF Select
<1>5. ASSUME NEW n \in DOMAIN rest PROVE IsChart(k.dims[n].chart)
  <2>1. n \in Names(l) \ DOMAIN points /\ rest[n] = l.dims[n]
    BY <1>2, <1>5
  <2>2. IsDim(rest[n]) /\ IsChart(rest[n].chart)
    BY <2>1 DEF IsLayout, IsCharted
  <2>3. CASE ~IsHeir(l, points, n)
    BY <1>3, <1>5, <2>2, <2>3
  <2>4. CASE IsHeir(l, points, n)
    <3>1. PICK x, c : x = LabelOf(l, points, AxisOf(l, n)) /\ c = rest[n].chart
      OBVIOUS
    <3>2. x \in Int
      BY <3>1, LabelInt
    <3>3. c # None
      BY <2>1, <2>4, <3>1, HeirsAre
    <3>4. {"origin", "step", "kind", "axis"} \subseteq DOMAIN c /\ c.origin \in Int /\ c.step \in Int /\ c.step # 0
      BY <2>2, <3>1, <3>3, ChartHas
    <3>5. k.dims[n] = Richer(rest[n], x)
      BY <1>3, <1>5, <2>4, <3>1
    <3>6. k.dims[n].chart = [c EXCEPT !.origin = @ + x, !.kind = "position"]
      BY <2>2, <3>1, <3>5 DEF Richer, IsDim, Fields
    <3>7. QED
      BY <3>2, <3>4, <3>6 DEF IsChart
  <2>5. QED
    BY <2>3, <2>4
<1>6. QED
  BY <1>3, <1>4, <1>5 DEF IsCharted, Names

\* Binding a dim to a level leaves its chart alone.
LEMMA BindCharted ==
  ASSUME NEW l, IsLayout(l), IsCharted(l), NEW n \in Names(l), NEW level
  PROVE  IsCharted(Bind(l, n, level))
<1>1. IsDim(l.dims[n]) /\ IsChart(l.dims[n].chart)
  BY DEF IsLayout, IsCharted
<1>2. PICK e : e = [l.dims[n] EXCEPT !.level = level]
  OBVIOUS
<1>3. IsDim(e) /\ IsChart(e.chart)
  BY <1>1, <1>2 DEF IsDim, Fields
<1>4. Bind(l, n, level) = SetDim(l, n, e)
  BY <1>2 DEF Bind
<1>5. QED
  BY <1>3, <1>4, SetDimCharted

-----------------------------------------------------------------------------
(* ONE DIM FOR ANOTHER                                                      *)

\* r has the dims of l, but for n.
ButOne(l, r, n) == Names(r) = Names(l) \cup {n} /\ \A m \in Names(l) \ {n} : r.dims[m] = l.dims[m]

\* Putting a dim in place of itself changes no other.
LEMMA PutOneHas ==
  ASSUME NEW l, NEW n, n \in Names(l), NEW d, NEW delta
  PROVE  ButOne(l, PutOne(l, n, n, d, delta), n) /\ PutOne(l, n, n, d, delta).dims[n] = d
BY DEF PutOne, Put, Override, Single, Drop, Names, ButOne

-----------------------------------------------------------------------------
(* POSITIONS AND LABELS                                                     *)

\* An axis is known when one dim on it has the kind of a position.
LEMMA KnownIs ==
  ASSUME NEW l, IsLayout(l), NEW a
  PROVE  a \in Known(l) <=> \E q : Position(l, a) = {q}
<1>1. IsFiniteSet(Position(l, a))
  <2>1. Position(l, a) \subseteq Names(l) /\ IsFiniteSet(Names(l))
    BY DEF Position, OnAxis, Charted, IsLayout
  <2>2. QED
    BY <2>1, FS_Subset
<1>2. Cardinality(Position(l, a)) = 1 <=> \E q : Position(l, a) = {q}
  BY <1>1, FS_Singleton
<1>3. (\E q : Position(l, a) = {q}) => a \in Axes(l)
  BY DEF Position, OnAxis, Axes
<1>4. QED
  BY <1>2, <1>3 DEF Known

\* The dims N of r stand where G did in l; the others have the charts they had.
Swaps(l, r, G, N) ==
  /\ IsLayout(l) /\ IsLayout(r) /\ IsCharted(l) /\ IsCharted(r)
  /\ G \subseteq Names(l) /\ N \subseteq Names(r) /\ Names(r) \ N = Names(l) \ G
  /\ \A m \in Names(l) \ G : r.dims[m].chart = l.dims[m].chart
OnAmong(l, a, S) == OnAxis(l, a) \cap S
PhysAt(l, a, c) == [n \in OnAxis(l, a) |-> Phys(l.dims[n].chart, c[n])]
PartAt(l, a, c, S) == SumFunction([n \in OnAmong(l, a, S) |-> Phys(l.dims[n].chart, c[n])])

\* The others are on the axes they were on.
LEMMA OthersOnAxis ==
  ASSUME NEW l, NEW r, NEW G, NEW N, Swaps(l, r, G, N), NEW a
  PROVE  /\ OnAxis(r, a) \ N = OnAxis(l, a) \ G
         /\ Position(r, a) \ N = Position(l, a) \ G
<1>1. \A m : m \in Names(r) \ N <=> m \in Names(l) \ G
  BY DEF Swaps
<1>2. \A m \in Names(l) \ G : r.dims[m].chart = l.dims[m].chart
  BY DEF Swaps
<1>3. QED
  BY <1>1, <1>2 DEF OnAxis, Charted, AxisOf, Position

\* The physical coordinates on an axis are integers.
LEMMA PlacesInt ==
  ASSUME NEW l, IsLayout(l), IsCharted(l), NEW a, NEW c, IsPoint(l, c)
  PROVE  /\ PhysAt(l, a, c) \in [OnAxis(l, a) -> Int] /\ IsFiniteSet(OnAxis(l, a))
         /\ PositionAt(l, a, c) = SumFunction(PhysAt(l, a, c))
         /\ \A S : OnAmong(l, a, S) \in SUBSET OnAxis(l, a) /\ PartAt(l, a, c, S) = SumFunction(Restrict(PhysAt(l, a, c), OnAmong(l, a, S)))
         /\ \A S : PartAt(l, a, c, S) \in Int
<1>1. ASSUME NEW n \in OnAxis(l, a) PROVE Phys(l.dims[n].chart, c[n]) \in Int
  <2>1. n \in Names(l) /\ l.dims[n].chart # None
    BY DEF OnAxis, Charted
  <2>2. IsChart(l.dims[n].chart) /\ c[n] \in Int
    BY <2>1 DEF IsCharted, IsPoint
  <2>3. QED
    BY <2>1, <2>2, ChartHas
<1>2. PhysAt(l, a, c) \in [OnAxis(l, a) -> Int]
  BY <1>1 DEF PhysAt
<1>3. IsFiniteSet(OnAxis(l, a))
  <2>1. OnAxis(l, a) \subseteq Names(l) /\ IsFiniteSet(Names(l))
    BY DEF OnAxis, Charted, IsLayout
  <2>2. QED
    BY <2>1, FS_Subset
<1>4. PositionAt(l, a, c) = SumFunction(PhysAt(l, a, c))
  BY DEF PositionAt, Sigma, PhysAt
<1>5. ASSUME NEW S PROVE OnAmong(l, a, S) \in SUBSET OnAxis(l, a) /\ PartAt(l, a, c, S) = SumFunction(Restrict(PhysAt(l, a, c), OnAmong(l, a, S)))
  <2>1. OnAmong(l, a, S) \in SUBSET OnAxis(l, a)
    BY DEF OnAmong
  <2>2. [n \in OnAmong(l, a, S) |-> Phys(l.dims[n].chart, c[n])] = Restrict(PhysAt(l, a, c), OnAmong(l, a, S))
    BY <2>1 DEF Restrict, PhysAt
  <2>3. QED
    BY <2>1, <2>2 DEF PartAt
<1>6. ASSUME NEW S PROVE PartAt(l, a, c, S) \in Int
  BY <1>2, <1>3, <1>5, SumParts
<1>7. QED
  BY <1>2, <1>3, <1>4, <1>5, <1>6

\* When the dims that come add up on an axis to what those that go did, the position on it stays.
LEMMA SwapPlaces ==
  ASSUME NEW l, NEW r, NEW G, NEW N, Swaps(l, r, G, N), NEW a,
         NEW c, IsPoint(r, c), NEW p, IsPoint(l, p), \A m \in Names(l) \ G : p[m] = c[m],
         NEW k \in Int, PartAt(r, a, c, N) = PartAt(l, a, p, G) + k
  PROVE  PositionAt(r, a, c) = PositionAt(l, a, p) + k
<1>1. PICK f, g, A, B, D : /\ f = PhysAt(l, a, p) /\ g = PhysAt(r, a, c)
                           /\ A = OnAmong(l, a, G) /\ B = OnAmong(r, a, N) /\ D = OnAxis(l, a) \ G
  OBVIOUS
<1>2. IsLayout(l) /\ IsLayout(r) /\ IsCharted(l) /\ IsCharted(r)
  BY DEF Swaps
<1>3. /\ f \in [OnAxis(l, a) -> Int] /\ IsFiniteSet(OnAxis(l, a)) /\ PositionAt(l, a, p) = SumFunction(f)
      /\ A \in SUBSET OnAxis(l, a) /\ PartAt(l, a, p, G) = SumFunction(Restrict(f, A))
  BY <1>1, <1>2, PlacesInt
<1>4. /\ g \in [OnAxis(r, a) -> Int] /\ IsFiniteSet(OnAxis(r, a)) /\ PositionAt(r, a, c) = SumFunction(g)
      /\ B \in SUBSET OnAxis(r, a) /\ PartAt(r, a, c, N) = SumFunction(Restrict(g, B))
  BY <1>1, <1>2, PlacesInt
<1>5. OnAxis(l, a) \ A = D /\ OnAxis(r, a) \ B = D
  BY <1>1, OthersOnAxis DEF OnAmong
<1>6. SumFunction(f) = SumFunction(Restrict(f, A)) + SumFunction(Restrict(f, D))
  BY <1>3, <1>5, SumUnion
<1>7. SumFunction(g) = SumFunction(Restrict(g, B)) + SumFunction(Restrict(g, D))
  BY <1>4, <1>5, SumUnion
<1>8. Restrict(f, D) = Restrict(g, D)
  <2>1. ASSUME NEW m \in D PROVE f[m] = g[m]
    <3>1. m \in Names(l) \ G /\ m \in OnAxis(l, a) /\ m \in OnAxis(r, a)
      BY <1>1, <1>5 DEF OnAxis, Charted
    <3>2. p[m] = c[m] /\ r.dims[m].chart = l.dims[m].chart
      BY <3>1 DEF Swaps
    <3>3. QED
      BY <1>1, <3>1, <3>2 DEF PhysAt
  <2>2. QED
    BY <2>1 DEF Restrict
<1>9. SumFunction(Restrict(f, D)) \in Int /\ SumFunction(Restrict(f, A)) \in Int
  BY <1>1, <1>3, SumParts
<1>10. QED
  BY <1>3, <1>4, <1>6, <1>7, <1>8, <1>9

\* The dims that come have a position of an axis when those that go had it.
Hands(l, r, G, N, a) ==
  /\ Position(l, a) \cap G = {} => Position(r, a) \cap N = {}
  /\ \A q \in G : Position(l, a) = {q} => \E x : Position(r, a) \cap N = {x}

\* Then the axis is known if it was.
LEMMA SwapKnown ==
  ASSUME NEW l, NEW r, NEW G, NEW N, Swaps(l, r, G, N), NEW a \in Known(l), Hands(l, r, G, N, a)
  PROVE  a \in Known(r)
<1>1. IsLayout(l) /\ IsLayout(r)
  BY DEF Swaps
<1>2. PICK q : Position(l, a) = {q}
  BY <1>1, KnownIs
<1>3. Position(r, a) \ N = Position(l, a) \ G
  BY OthersOnAxis
<1>4. CASE q \in G
  <2>1. PICK x : Position(r, a) \cap N = {x}
    BY <1>2, <1>4 DEF Hands
  <2>2. Position(r, a) = {x}
    BY <1>2, <1>3, <1>4, <2>1
  <2>3. QED
    BY <1>1, <2>2, KnownIs
<1>5. CASE q \notin G
  <2>1. Position(r, a) \cap N = {}
    BY <1>2, <1>5 DEF Hands
  <2>2. Position(r, a) = {q}
    BY <1>2, <1>3, <1>5, <2>1
  <2>3. QED
    BY <1>1, <2>2, KnownIs
<1>6. QED
  BY <1>4, <1>5

-----------------------------------------------------------------------------
(* WHAT AN OPERATION PROMISES OF BOXES, POSITIONS AND LABELS                *)

\* How far the operation moves the positions of an axis, and the axes whose labels it drops.
Amount(o, a) == IF o.op = "recenter" /\ o.axis = a THEN o.by ELSE 0
Lost(o, l) ==
  IF o.op = "diagonal" /\ DiagonalChart(l, o.parts) = None
  THEN {AxisOf(l, n) : n \in o.parts \cap Charted(l)} ELSE {}
Labelled(l) == {n \in Names(l) : l.dims[n].labels # None}
Placed(o, l, r, c, p) ==
  \A a \in (Known(l) \cap Known(r)) \ (P!Relabelled(o) \cup Lost(o, l)) :
    PositionAt(r, a, c) = PositionAt(l, a, p) + Amount(o, a)
KeepsLabels(o, l, r, c, p) ==
  o.op \notin P!Relabels =>
    \A n \in Names(r) :
      /\ n \in Labelled(r) <=> P!Origin(o, n) \in Labelled(l)
      /\ n \in Labelled(r) => LabelAt(r.dims[n], c[n]) = LabelAt(l.dims[P!Origin(o, n)], p[P!Origin(o, n)])
Sticks(o, l, r, c, p) ==
  /\ p = [n \in Names(l) |-> p[n]]
  /\ InRange(l, p) => Placed(o, l, r, c, p) /\ KeepsLabels(o, l, r, c, p)
Glues(o, l, r) ==
  /\ BoxAt(r) = P!NewBox(o, BoxAt(l))
  /\ o.op \in P!Keeps => Known(l) \subseteq Known(r)
  /\ \A c \in Domain(r) : Sticks(o, l, r, c, P!Back(o, BoxAt(l), c))
\* Two dims that are labelled alike, and the coordinates of them that mean the same.
SameMarks(d, e) ==
  /\ d.chart = None <=> e.chart = None
  /\ d.chart # None => d.chart.kind = e.chart.kind /\ d.chart.axis = e.chart.axis
  /\ d.labels = None <=> e.labels = None
Reads(d, i, e, x, k) ==
  /\ d.chart # None => Phys(d.chart, i) = Phys(e.chart, x) + k
  /\ d.labels # None => LabelAt(d, i) = LabelAt(e, x)

\* A point in range has integer coordinates.
LEMMA InRangeIsPoint ==
  ASSUME NEW l, IsLayout(l), NEW p, InRange(l, p)
  PROVE  IsPoint(l, p)
BY DEF InRange, IsPoint, IsLayout, IsDim

\* The operation changes one dim, and sets its coordinate.
SetsOne(o, l, r, n, c, x) ==
  /\ P!Back(o, BoxAt(l), c) = P!Override(P!Single(n, x), c)
  /\ x \in l.dims[n].start .. l.dims[n].stop - 1 => Reads(r.dims[n], c[n], l.dims[n], x, Amount(o, AxisOf(l, n)))
OneOp(o, l, r, n) ==
  /\ IsLayout(l) /\ IsLayout(r) /\ IsCharted(l) /\ IsCharted(r)
  /\ n \in Names(l) /\ ButOne(l, r, n) /\ SameMarks(r.dims[n], l.dims[n])
  /\ o.op \notin {"rename", "diagonal"}
  /\ \A a : Amount(o, a) \in Int /\ (Amount(o, a) # 0 => n \in OnAxis(l, a))
  /\ BoxAt(r) = P!NewBox(o, BoxAt(l))
  /\ \A c \in Domain(r) : \E x : SetsOne(o, l, r, n, c, x)

\* It swaps the dim for one on the same axis.
LEMMA OneSwaps ==
  ASSUME NEW o, NEW l, NEW r, NEW n, OneOp(o, l, r, n)
  PROVE  /\ Swaps(l, r, {n}, {n})
         /\ \A a : (n \in OnAxis(r, a) <=> n \in OnAxis(l, a)) /\ (n \in Position(r, a) <=> n \in Position(l, a))
         /\ Names(r) = Names(l) /\ \A a : n \in OnAxis(l, a) => AxisOf(l, n) = a
<1>1. Names(r) = Names(l) /\ (\A m \in Names(l) \ {n} : r.dims[m] = l.dims[m]) /\ n \in Names(l)
  BY DEF OneOp, ButOne
<1>2. Swaps(l, r, {n}, {n})
  BY <1>1 DEF Swaps, OneOp
<1>3. SameMarks(r.dims[n], l.dims[n])
  BY DEF OneOp
<1>4. \A a : (n \in OnAxis(r, a) <=> n \in OnAxis(l, a)) /\ (n \in Position(r, a) <=> n \in Position(l, a))
  BY <1>1, <1>3 DEF SameMarks, OnAxis, Charted, AxisOf, Position
<1>5. \A a : n \in OnAxis(l, a) => AxisOf(l, n) = a
  BY DEF OnAxis
<1>6. QED
  BY <1>1, <1>2, <1>4, <1>5

\* Its part of an axis is one dim or none.
LEMMA PartOne ==
  ASSUME NEW l, IsLayout(l), IsCharted(l), NEW a, NEW c, IsPoint(l, c), NEW n
  PROVE  PartAt(l, a, c, {n}) = IF n \in OnAxis(l, a) THEN Phys(l.dims[n].chart, c[n]) ELSE 0
<1>1. CASE n \in OnAxis(l, a)
  <2>1. OnAmong(l, a, {n}) = {n}
    BY <1>1 DEF OnAmong
  <2>2. PICK f : f = [m \in {n} |-> Phys(l.dims[m].chart, c[m])]
    OBVIOUS
  <2>3. f[n] \in Int
    <3>1. n \in Names(l) /\ l.dims[n].chart # None
      BY <1>1 DEF OnAxis, Charted
    <3>2. IsChart(l.dims[n].chart) /\ c[n] \in Int
      BY <3>1 DEF IsCharted, IsPoint
    <3>3. QED
      BY <2>2, <3>1, <3>2, ChartHas
  <2>4. f \in [{n} -> Int]
    BY <2>2, <2>3
  <2>5. SumFunction(f) = f[n]
    BY <2>4, SumOne
  <2>6. QED
    BY <1>1, <2>1, <2>2, <2>5 DEF PartAt
<1>2. CASE n \notin OnAxis(l, a)
  <2>1. OnAmong(l, a, {n}) = {}
    BY <1>2 DEF OnAmong
  <2>2. PICK f : f = [m \in {} |-> Phys(l.dims[m].chart, c[m])]
    OBVIOUS
  <2>3. f \in [{} -> Int]
    BY <2>2
  <2>4. SumFunction(f) = 0
    BY <2>3, SumEmpty
  <2>5. QED
    BY <1>2, <2>1, <2>2, <2>4 DEF PartAt
<1>3. QED
  BY <1>1, <1>2

\* An operation that changes one dim keeps positions and labels with the data.
LEMMA OneGlues ==
  ASSUME NEW o, NEW l, NEW r, NEW n, OneOp(o, l, r, n)
  PROVE  Glues(o, l, r)
<1>1. /\ IsLayout(l) /\ IsLayout(r) /\ IsCharted(l) /\ IsCharted(r) /\ n \in Names(l) /\ SameMarks(r.dims[n], l.dims[n])
      /\ o.op \notin {"rename", "diagonal"} /\ BoxAt(r) = P!NewBox(o, BoxAt(l))
      /\ \A a : Amount(o, a) \in Int /\ (Amount(o, a) # 0 => n \in OnAxis(l, a))
  BY DEF OneOp
<1>2. /\ Swaps(l, r, {n}, {n})
      /\ \A a : (n \in OnAxis(r, a) <=> n \in OnAxis(l, a)) /\ (n \in Position(r, a) <=> n \in Position(l, a))
      /\ Names(r) = Names(l) /\ \A a : n \in OnAxis(l, a) => AxisOf(l, n) = a
  BY OneSwaps
<1>3. \A m \in Names(l) \ {n} : r.dims[m] = l.dims[m]
  BY DEF OneOp, ButOne
<1>4. ASSUME NEW a \in Known(l) PROVE a \in Known(r)
  <2>1. Hands(l, r, {n}, {n}, a)
    BY <1>2 DEF Hands
  <2>2. QED
    BY <1>2, <2>1, SwapKnown
<1>5. ASSUME NEW c \in Domain(r), NEW p, p = P!Back(o, BoxAt(l), c) PROVE Sticks(o, l, r, c, p)
  <2>1. PICK x : SetsOne(o, l, r, n, c, x)
    BY DEF OneOp
  <2>2. p = P!Override(P!Single(n, x), c)
    BY <1>5, <2>1 DEF SetsOne
  <2>3. DOMAIN c = Names(l) /\ IsPoint(r, c)
    BY <1>1, <1>2, InDomain
  <2>4. p[n] = x /\ \A i \in Names(l) \ {n} : p[i] = c[i]
    BY <2>2, <2>3, AtIs DEF IsMoved
  <2>5. p = [i \in Names(l) |-> p[i]]
    BY <1>1, <2>2, <2>3 DEF P!Override, P!Single
  <2>6. ASSUME InRange(l, p) PROVE Placed(o, l, r, c, p) /\ KeepsLabels(o, l, r, c, p)
    <3>1. x \in l.dims[n].start .. l.dims[n].stop - 1 /\ IsPoint(l, p)
      BY <1>1, <2>4, <2>6, InRangeIsPoint DEF InRange
    <3>2. Reads(r.dims[n], c[n], l.dims[n], x, Amount(o, AxisOf(l, n)))
      BY <2>1, <3>1 DEF SetsOne
    <3>3. ASSUME NEW a \in Known(l) \cap Known(r) PROVE PositionAt(r, a, c) = PositionAt(l, a, p) + Amount(o, a)
      <4>1. PartAt(r, a, c, {n}) = IF n \in OnAxis(r, a) THEN Phys(r.dims[n].chart, c[n]) ELSE 0
        BY <1>1, <2>3, PartOne
      <4>2. PartAt(l, a, p, {n}) = IF n \in OnAxis(l, a) THEN Phys(l.dims[n].chart, x) ELSE 0
        BY <1>1, <2>4, <3>1, PartOne
      <4>3. n \in OnAxis(r, a) => r.dims[n].chart # None
        BY DEF OnAxis, Charted
      <4>4. PartAt(r, a, c, {n}) = PartAt(l, a, p, {n}) + Amount(o, a)
        <5>1. CASE n \in OnAxis(l, a)
          BY <1>2, <3>2, <4>1, <4>2, <4>3, <5>1 DEF Reads
        <5>2. CASE n \notin OnAxis(l, a)
          BY <1>1, <1>2, <4>1, <4>2, <5>2
        <5>3. QED
          BY <5>1, <5>2
      <4>5. \A m \in Names(l) \ {n} : p[m] = c[m]
        BY <2>4
      <4>6. QED
        BY <1>1, <1>2, <2>3, <3>1, <4>4, <4>5, SwapPlaces
    <3>4. ASSUME NEW m \in Names(r)
          PROVE  /\ m \in Labelled(r) <=> m \in Labelled(l)
                 /\ m \in Labelled(r) => LabelAt(r.dims[m], c[m]) = LabelAt(l.dims[m], p[m])
      <4>1. CASE m = n
        BY <1>1, <1>2, <2>4, <3>2, <4>1 DEF Labelled, SameMarks, Reads
      <4>2. CASE m # n
        BY <1>2, <1>3, <2>4, <4>2 DEF Labelled
      <4>3. QED
        BY <4>1, <4>2
    <3>5. \A m : P!Origin(o, m) = m
      BY <1>1 DEF P!Origin
    <3>6. QED
      BY <3>3, <3>4, <3>5 DEF Placed, KeepsLabels
  <2>7. QED
    BY <2>5, <2>6 DEF Sticks
<1>6. QED
  BY <1>1, <1>4, <1>5 DEF Glues

-----------------------------------------------------------------------------
(* THE OPERATIONS ON ONE DIM                                                *)

Both(l, r) ==
  IsLayout(l) /\ IsLayout(r) /\ IsCharted(l) /\ IsCharted(r) /\ WellFormed(l) /\ IsTyped(l)
OfTypes(d) == d.chart \in {None} \cup AllCharts /\ d.labels \in {None} \cup Seq(STRING)
Tells(o, l, r) == Glues(o, l, r) /\ IsTyped(r)

\* A layout that differs in one dim has the box that differs there.
LEMMA OneBox ==
  ASSUME NEW l, NEW r, NEW n \in Names(l), ButOne(l, r, n)
  PROVE  /\ BoxAt(r) = P!Override(P!Single(n, r.dims[n].start .. r.dims[n].stop - 1), BoxAt(l))
         /\ r.dims[n].start = l.dims[n].start /\ r.dims[n].stop = l.dims[n].stop => BoxAt(r) = BoxAt(l)
<1>1. Names(r) = Names(l) /\ \A m \in Names(l) \ {n} : r.dims[m] = l.dims[m]
  BY DEF ButOne
<1>2. QED
  BY <1>1 DEF BoxAt, P!Override, P!Single

\* A point is itself with its coordinate of a dim set.
LEMMA SetAgain ==
  ASSUME NEW l, NEW r, NEW n \in Names(l), ButOne(l, r, n), IsLayout(r), NEW c \in Domain(r)
  PROVE  /\ c = P!Override(P!Single(n, c[n]), c)
         /\ c[n] \in Int /\ r.dims[n].start <= c[n] /\ c[n] < r.dims[n].stop
         /\ r.dims[n].start \in Int /\ r.dims[n].stop \in Int
<1>1. n \in Names(r) /\ DOMAIN c = Names(r) /\ c[n] \in r.dims[n].start .. r.dims[n].stop - 1
  BY InDomain DEF ButOne
<1>2. r.dims[n].start \in Int /\ r.dims[n].stop \in Int
  BY <1>1 DEF IsLayout, IsDim
<1>3. c = [m \in DOMAIN c |-> c[m]]
  <2>1. c \in Grid(r.dims, Names(r))
    BY DomainIs
  <2>2. QED
    BY <1>1, <2>1 DEF Grid
<1>4. c = P!Override(P!Single(n, c[n]), c)
  BY <1>1, <1>3 DEF P!Override, P!Single
<1>5. QED
  BY <1>1, <1>2, <1>4

\* What the laws of a layout say of the labels of a dim.
LEMMA LabelsAre ==
  ASSUME NEW l, IsLayout(l), IsCharted(l), WellFormed(l), IsTyped(l), NEW n \in Names(l)
  PROVE  /\ l.dims[n].start \in Int /\ l.dims[n].stop \in Int /\ l.dims[n].start <= l.dims[n].stop
         /\ l.dims[n].labels # None => l.dims[n].chart = None /\ Len(l.dims[n].labels) = l.dims[n].stop - l.dims[n].start
              /\ l.dims[n].labels \in Seq(STRING)
         /\ l.dims[n].chart # None =>
              /\ {"origin", "step", "kind", "axis"} \subseteq DOMAIN l.dims[n].chart
              /\ l.dims[n].chart.origin \in Int /\ l.dims[n].chart.step \in Int
         /\ OfTypes(l.dims[n])
<1>1. IsChart(l.dims[n].chart)
  BY DEF IsCharted
<1>2. l.dims[n].start \in Int /\ l.dims[n].stop \in Int
  BY DEF IsLayout, IsDim
<1>3. QED
  BY <1>1, <1>2, ChartHas DEF WellFormed, Size, IsTyped, OfTypes

\* Names and labels stay strings when the labels of the one dim that changes do.
LEMMA TypedOne ==
  ASSUME NEW l, IsTyped(l), NEW r, NEW n \in Names(l), ButOne(l, r, n), OfTypes(r.dims[n])
  PROVE  IsTyped(r)
<1>1. Names(r) = Names(l) /\ \A m \in Names(l) \ {n} : r.dims[m] = l.dims[m]
  BY DEF ButOne
<1>2. QED
  BY <1>1 DEF IsTyped, OfTypes

\* None is not a sequence of strings, nor a chart, nor a string.
LEMMA NotNone == None \notin Seq(STRING) \cup AllCharts \cup STRING
  BY ViewsAssumption

\* Labels cut out of labels.
LEMMA Cut ==
  ASSUME NEW s \in Seq(STRING), NEW a \in Int, NEW b \in Int, a <= b + 1, a <= b => 1 <= a /\ b <= Len(s)
  PROVE  /\ SubSeq(s, a, b) \in Seq(STRING) /\ Len(SubSeq(s, a, b)) = 1 + b - a
         /\ \A j \in 1 .. 1 + b - a : SubSeq(s, a, b)[j] = s[a + j - 1]
  OBVIOUS

-----------------------------------------------------------------------------
(* ONE DIM CUT, PADDED OR LABELLED                                          *)

\* A change of one dim that leaves its points, chart and labels where they were.
StaysOne(o, l, r, n) ==
  /\ Both(l, r) /\ n \in Names(l) /\ ButOne(l, r, n) /\ SameMarks(r.dims[n], l.dims[n])
  /\ OfTypes(r.dims[n]) /\ o.op \in InPlace \cup {"pad"} /\ BoxAt(r) = P!NewBox(o, BoxAt(l))
  /\ \A a : Amount(o, a) \in Int /\ (Amount(o, a) # 0 => n \in OnAxis(l, a))
  /\ \A i \in r.dims[n].start .. r.dims[n].stop - 1 :
       i \in l.dims[n].start .. l.dims[n].stop - 1 => Reads(r.dims[n], i, l.dims[n], i, Amount(o, AxisOf(l, n)))

\* An operation that cuts one dim keeps positions and labels.
LEMMA StaysGlues ==
  ASSUME NEW o, NEW l, NEW r, NEW n, StaysOne(o, l, r, n)
  PROVE  Tells(o, l, r)
<1>1. /\ Both(l, r) /\ n \in Names(l) /\ ButOne(l, r, n) /\ SameMarks(r.dims[n], l.dims[n])
      /\ o.op \in InPlace \cup {"pad"} /\ BoxAt(r) = P!NewBox(o, BoxAt(l))
      /\ \A a : Amount(o, a) \in Int /\ (Amount(o, a) # 0 => n \in OnAxis(l, a))
  BY DEF StaysOne
<1>2. ASSUME NEW c \in Domain(r) PROVE SetsOne(o, l, r, n, c, c[n])
  <2>1. P!Back(o, BoxAt(l), c) = c
    BY <1>1 DEF InPlace, P!Back
  <2>2. c = P!Override(P!Single(n, c[n]), c) /\ c[n] \in r.dims[n].start .. r.dims[n].stop - 1
    BY <1>1, SetAgain DEF Both
  <2>3. QED
    BY <2>1, <2>2 DEF SetsOne, StaysOne
<1>3. o.op \notin {"rename", "diagonal"}
  BY <1>1 DEF InPlace
<1>4. OneOp(o, l, r, n)
  BY <1>1, <1>2, <1>3 DEF OneOp, Both
<1>5. IsTyped(r)
  BY <1>1, TypedOne DEF StaysOne, Both
<1>6. QED
  BY <1>4, <1>5, OneGlues DEF Tells

\* Nothing moves but with a recentering.
LEMMA NothingMoves ==
  ASSUME NEW o, o.op # "recenter", NEW l, NEW n
  PROVE  \A a : Amount(o, a) = 0 /\ Amount(o, a) \in Int /\ (Amount(o, a) # 0 => n \in OnAxis(l, a))
BY DEF Amount

\* A layout of the same dims has the same points, positions and labels.
LEMMA SameGlues ==
  ASSUME NEW l, NEW r, Both(l, r), r.dims = l.dims, NEW o, o.op \in {"simplify", "field", "frames", "store"}
  PROVE  Tells(o, l, r)
<1>1. /\ Names(r) = Names(l) /\ BoxAt(r) = BoxAt(l) /\ Known(r) = Known(l) /\ Domain(r) = Domain(l)
      /\ \A a : OnAxis(r, a) = OnAxis(l, a)
  <2>1. Names(r) = Names(l) /\ BoxAt(r) = BoxAt(l) /\ Charted(r) = Charted(l) /\ Domain(r) = Domain(l)
    BY DEF Names, BoxAt, Charted, Domain
  <2>2. \A n : AxisOf(r, n) = AxisOf(l, n)
    BY DEF AxisOf
  <2>3. \A a : OnAxis(r, a) = OnAxis(l, a) /\ Position(r, a) = Position(l, a)
    BY <2>1, <2>2 DEF OnAxis, Position
  <2>4. Known(r) = Known(l)
    BY <2>1, <2>2, <2>3 DEF Known, Axes
  <2>5. QED
    BY <2>1, <2>3, <2>4
<1>2. \A a, c : PositionAt(r, a, c) = PositionAt(l, a, c)
  BY <1>1 DEF PositionAt, Sigma
<1>3. BoxAt(r) = P!NewBox(o, BoxAt(l))
  BY <1>1 DEF P!NewBox
<1>4. ASSUME NEW c \in Domain(r), NEW p, p = P!Back(o, BoxAt(l), c) PROVE Sticks(o, l, r, c, p)
  <2>1. p = c
    BY <1>4 DEF P!Back
  <2>2. c = [n \in Names(l) |-> c[n]]
    <3>1. c \in Grid(r.dims, Names(r))
      BY DomainIs DEF Both
    <3>2. QED
      BY <1>1, <3>1 DEF Grid
  <2>3. \A a : Amount(o, a) = 0
    BY DEF Amount
  <2>4. ASSUME NEW a \in Known(l), InRange(l, p) PROVE PositionAt(r, a, c) = PositionAt(l, a, p) + Amount(o, a)
    <3>1. PositionAt(l, a, p) \in Int
      BY <2>4, InRangeIsPoint, PlacesInt, SumInt DEF Both
    <3>2. QED
      BY <1>2, <2>1, <2>3, <3>1
  <2>5. \A n : P!Origin(o, n) = n
    BY DEF P!Origin
  <2>6. KeepsLabels(o, l, r, c, p)
    BY <1>1, <2>1, <2>5 DEF KeepsLabels, Labelled
  <2>7. QED
    BY <2>1, <2>2, <2>4, <2>6 DEF Sticks, Placed
<1>5. IsTyped(r)
  BY <1>1 DEF IsTyped, Both
<1>6. QED
  BY <1>1, <1>3, <1>4, <1>5 DEF Glues, Tells

\* bind (layout.py) changes a level alone.
LEMMA BindGlues ==
  ASSUME NEW l, NEW n \in Names(l), NEW level, Both(l, Bind(l, n, level)), NEW o, o = [op |-> "bind"]
  PROVE  Tells(o, l, Bind(l, n, level))
<1>1. PICK r, d, e : r = Bind(l, n, level) /\ d = l.dims[n] /\ e = [d EXCEPT !.level = level]
  OBVIOUS
<1>2. IsDim(d) /\ IsLayout(l)
  BY <1>1 DEF Both, IsLayout
<1>3. e.start = d.start /\ e.stop = d.stop /\ e.chart = d.chart /\ e.labels = d.labels /\ IsDim(e)
  BY <1>1, <1>2 DEF IsDim, Fields
<1>4. r.dims[n] = e /\ ButOne(l, r, n)
  <2>1. r = SetDim(l, n, e)
    BY <1>1 DEF Bind
  <2>2. QED
    BY <1>2, <1>3, <2>1, SetDimIs DEF ButOne
<1>5. /\ d.start \in Int /\ d.stop \in Int /\ d.start <= d.stop
      /\ d.labels # None => d.labels \in Seq(STRING)
      /\ d.chart # None => {"origin", "step", "kind", "axis"} \subseteq DOMAIN d.chart /\ d.chart.origin \in Int /\ d.chart.step \in Int
      /\ OfTypes(d)
  BY <1>1, LabelsAre DEF Both
<1>6. ASSUME NEW i \in d.start .. d.stop - 1 PROVE Reads(e, i, d, i, 0)
  BY <1>3, <1>5 DEF Reads, Phys, LabelAt
<1>7. BoxAt(r) = P!NewBox(o, BoxAt(l))
  <2>1. BoxAt(r) = BoxAt(l)
    BY <1>1, <1>3, <1>4, OneBox
  <2>2. QED
    BY <2>1 DEF P!NewBox
<1>8. \A a : Amount(o, a) = 0 /\ Amount(o, a) \in Int /\ (Amount(o, a) # 0 => n \in OnAxis(l, a))
  BY NothingMoves
<1>9. SameMarks(e, d) /\ OfTypes(e)
  BY <1>1, <1>3, <1>5 DEF SameMarks, OfTypes
<1>10. StaysOne(o, l, r, n)
  BY <1>1, <1>3, <1>4, <1>5, <1>6, <1>7, <1>8, <1>9 DEF StaysOne, InPlace
<1>11. QED
  BY <1>1, <1>10, StaysGlues

\* pad (guarded.py) keeps the chart over a larger range.
LEMMA PadGlues ==
  ASSUME NEW l, NEW n \in Names(l), NEW lo \in Int, NEW hi \in Int, NEW e, e = [l.dims[n] EXCEPT !.start = lo, !.stop = hi],
         Both(l, SetDim(l, n, e)), l.dims[n].labels = None, NEW o, o = [op |-> "pad", dim |-> n, lo |-> lo, hi |-> hi]
  PROVE  Tells(o, l, SetDim(l, n, e))
<1>1. PICK r, d : r = SetDim(l, n, e) /\ d = l.dims[n]
  OBVIOUS
<1>2. IsDim(d) /\ IsLayout(l)
  BY <1>1 DEF Both, IsLayout
<1>3. e.start = lo /\ e.stop = hi /\ e.chart = d.chart /\ e.labels = d.labels /\ IsDim(e)
  BY <1>1, <1>2 DEF IsDim, Fields
<1>4. r.dims[n] = e /\ ButOne(l, r, n)
  BY <1>1, <1>2, <1>3, SetDimIs DEF ButOne
<1>5. /\ d.start \in Int /\ d.stop \in Int /\ d.start <= d.stop
      /\ d.chart # None => {"origin", "step", "kind", "axis"} \subseteq DOMAIN d.chart /\ d.chart.origin \in Int /\ d.chart.step \in Int
      /\ OfTypes(d)
  BY <1>1, LabelsAre DEF Both
<1>6. ASSUME NEW i \in Int PROVE Reads(e, i, d, i, 0)
  BY <1>1, <1>3, <1>5 DEF Reads, Phys
<1>7. BoxAt(r) = P!NewBox(o, BoxAt(l))
  <2>1. r.dims[n].start = lo /\ r.dims[n].stop = hi /\ ButOne(l, r, n)
    BY <1>3, <1>4
  <2>2. BoxAt(r) = P!Override(P!Single(n, r.dims[n].start .. r.dims[n].stop - 1), BoxAt(l))
    BY <2>1, OneBox
  <2>3. BoxAt(r) = P!Override(P!Single(n, lo .. hi - 1), BoxAt(l))
    BY <2>1, <2>2
  <2>4. QED
    BY <2>3 DEF P!NewBox
<1>8. \A a : Amount(o, a) = 0 /\ Amount(o, a) \in Int /\ (Amount(o, a) # 0 => n \in OnAxis(l, a))
  BY NothingMoves
<1>9. SameMarks(e, d) /\ OfTypes(e)
  BY <1>1, <1>3, <1>5 DEF SameMarks, OfTypes
<1>10. StaysOne(o, l, r, n)
  BY <1>1, <1>3, <1>4, <1>5, <1>6, <1>7, <1>8, <1>9 DEF StaysOne
<1>11. QED
  BY <1>1, <1>10, StaysGlues

\* recenter (layout.py) moves the positions of one axis, all by the same amount.
LEMMA RecenterGlues ==
  ASSUME NEW l, NEW n \in Charted(l), NEW k \in Int, Both(l, Recenter(l, n, k)),
         NEW o, o = [op |-> "recenter", axis |-> AxisOf(l, n), by |-> k]
  PROVE  Tells(o, l, Recenter(l, n, k))
<1>1. PICK r, d : r = Recenter(l, n, k) /\ d = l.dims[n]
  OBVIOUS
<1>2. IsDim(d) /\ IsLayout(l) /\ n \in Names(l) /\ d.chart # None
  BY <1>1 DEF Both, IsLayout, Charted
<1>3. /\ d.start \in Int /\ d.stop \in Int /\ d.start <= d.stop /\ d.labels = None
      /\ {"origin", "step", "kind", "axis"} \subseteq DOMAIN d.chart /\ d.chart.origin \in Int /\ d.chart.step \in Int
      /\ d.chart \in AllCharts
  BY <1>1, <1>2, LabelsAre DEF Both, OfTypes
<1>4. PICK e : e = [d EXCEPT !.chart.origin = @ + k]
  OBVIOUS
<1>5. e.start = d.start /\ e.stop = d.stop /\ e.labels = d.labels /\ IsDim(e)
  BY <1>2, <1>4 DEF IsDim, Fields
<1>6. /\ e.chart.origin = d.chart.origin + k /\ e.chart.step = d.chart.step /\ e.chart.kind = d.chart.kind
      /\ e.chart.axis = d.chart.axis /\ e.chart \in AllCharts
  <2>1. PICK x, y : x = d.chart /\ y = e.chart
    OBVIOUS
  <2>2. x \in AllCharts /\ y = [x EXCEPT !.origin = @ + k]
    BY <1>2, <1>3, <1>4, <2>1 DEF IsDim, Fields
  <2>3. y \in AllCharts /\ y.origin = x.origin + k /\ y.step = x.step /\ y.kind = x.kind /\ y.axis = x.axis
    BY <2>2 DEF AllCharts
  <2>4. QED
    BY <2>1, <2>3
<1>7. r.dims[n] = e /\ ButOne(l, r, n)
  <2>1. r.dims = [l.dims EXCEPT ![n] = e]
    BY <1>1, <1>2, <1>4 DEF Recenter, IsLayout
  <2>2. QED
    BY <1>2, <2>1 DEF ButOne, Names
<1>8. e.chart # None /\ OfTypes(e)
  BY <1>3, <1>5, <1>6, NotNone DEF OfTypes
<1>9. ASSUME NEW i \in d.start .. d.stop - 1 PROVE Reads(e, i, d, i, k)
  <2>1. d.chart.origin + k + i * d.chart.step = d.chart.origin + i * d.chart.step + k
    <3>1. i * d.chart.step \in Int
      BY <1>3
    <3>2. QED
      BY <1>3, <3>1
  <2>2. QED
    BY <1>3, <1>5, <1>6, <2>1 DEF Reads, Phys
<1>10. BoxAt(r) = P!NewBox(o, BoxAt(l))
  <2>1. BoxAt(r) = BoxAt(l)
    BY <1>1, <1>2, <1>5, <1>7, OneBox
  <2>2. QED
    BY <2>1 DEF P!NewBox
<1>11. \A a : Amount(o, a) \in Int /\ (Amount(o, a) # 0 => n \in OnAxis(l, a))
  BY <1>2 DEF Amount, OnAxis
<1>12. SameMarks(e, d)
  BY <1>2, <1>5, <1>6, <1>8 DEF SameMarks
<1>13. Amount(o, AxisOf(l, n)) = k
  BY DEF Amount
<1>14. StaysOne(o, l, r, n)
  <2>1. \A i \in e.start .. e.stop - 1 : Reads(e, i, d, i, k)
    BY <1>5, <1>9
  <2>2. Both(l, r) /\ SameMarks(r.dims[n], l.dims[n]) /\ OfTypes(r.dims[n])
    BY <1>1, <1>7, <1>8, <1>12
  <2>3. \A i \in r.dims[n].start .. r.dims[n].stop - 1 : Reads(r.dims[n], i, l.dims[n], i, Amount(o, AxisOf(l, n)))
    BY <1>1, <1>7, <1>13, <2>1
  <2>4. o.op \in InPlace
    BY DEF InPlace
  <2>5. QED
    BY <1>2, <1>7, <1>10, <1>11, <2>2, <2>3, <2>4 DEF StaysOne
<1>15. QED
  BY <1>1, <1>14, StaysGlues

-----------------------------------------------------------------------------
(* ONE DIM MOVED, FLIPPED OR DECIMATED                                      *)

\* A change of one dim that sets its coordinate.
MovesOne(o, l, r, n) ==
  /\ Both(l, r) /\ n \in Names(l) /\ ButOne(l, r, n) /\ SameMarks(r.dims[n], l.dims[n]) /\ OfTypes(r.dims[n])
  /\ o.op \notin {"rename", "diagonal", "recenter"} /\ BoxAt(r) = P!NewBox(o, BoxAt(l))
  /\ \A c \in Domain(r) : \E x :
       /\ P!Back(o, BoxAt(l), c) = P!Override(P!Single(n, x), c)
       /\ x \in l.dims[n].start .. l.dims[n].stop - 1 => Reads(r.dims[n], c[n], l.dims[n], x, 0)

\* So does one that moves one dim, with its chart and its labels.
LEMMA MovesGlues ==
  ASSUME NEW o, NEW l, NEW r, NEW n, MovesOne(o, l, r, n)
  PROVE  Tells(o, l, r)
<1>1. /\ Both(l, r) /\ n \in Names(l) /\ ButOne(l, r, n) /\ SameMarks(r.dims[n], l.dims[n]) /\ OfTypes(r.dims[n])
      /\ o.op \notin {"rename", "diagonal"} /\ o.op # "recenter" /\ BoxAt(r) = P!NewBox(o, BoxAt(l))
  BY DEF MovesOne
<1>2. \A a : Amount(o, a) = 0 /\ Amount(o, a) \in Int /\ (Amount(o, a) # 0 => n \in OnAxis(l, a))
  BY <1>1, NothingMoves
<1>3. \A c \in Domain(r) : \E x : SetsOne(o, l, r, n, c, x)
  BY <1>2 DEF MovesOne, SetsOne
<1>4. OneOp(o, l, r, n)
  BY <1>1, <1>2, <1>3 DEF OneOp, Both
<1>5. IsTyped(r)
  BY <1>1, TypedOne DEF Both
<1>6. QED
  BY <1>4, <1>5, OneGlues DEF Tells

\* The chart of a dim that another coordinate reads.
ChartMoved(x, y, origin, step) ==
  y = IF x = None THEN None ELSE [x EXCEPT !.origin = origin, !.step = step]

\* A chart that is moved is a chart, of the same kind on the same axis.
LEMMA MovedChart ==
  ASSUME NEW x, x \in {None} \cup AllCharts, NEW origin \in Int, NEW step \in Int, NEW y, ChartMoved(x, y, origin, step)
  PROVE  /\ y \in {None} \cup AllCharts /\ (y = None <=> x = None)
         /\ x # None => y.origin = origin /\ y.step = step /\ y.kind = x.kind /\ y.axis = x.axis
<1>1. CASE x = None
  BY <1>1 DEF ChartMoved
<1>2. CASE x # None
  <2>1. x \in AllCharts /\ y = [x EXCEPT !.origin = origin, !.step = step]
    BY <1>2 DEF ChartMoved
  <2>2. y \in AllCharts /\ y.origin = origin /\ y.step = step /\ y.kind = x.kind /\ y.axis = x.axis
    BY <2>1 DEF AllCharts
  <2>3. QED
    BY <1>2, <2>2, NotNone
<1>3. QED
  BY <1>1, <1>2

\* shift (layout.py)
LEMMA ShiftGlues ==
  ASSUME NEW l, NEW n \in Names(l), NEW s \in Int, Both(l, Shift(l, n, s)),
         NEW o, o = [op |-> "shift", dim |-> n, by |-> s]
  PROVE  Tells(o, l, Shift(l, n, s))
<1>1. PICK r, d : r = Shift(l, n, s) /\ d = l.dims[n]
  OBVIOUS
<1>2. IsDim(d) /\ IsLayout(l) /\ d.start \in Int /\ d.stop \in Int
  BY <1>1 DEF Both, IsLayout, IsDim
<1>3. PICK e : e = [d EXCEPT !.start = @ + s, !.stop = @ + s,
           !.chart = IF d.chart = None THEN None ELSE [d.chart EXCEPT !.origin = @ - s * d.chart.step]]
  OBVIOUS
<1>4. /\ e.start = d.start + s /\ e.stop = d.stop + s /\ e.labels = d.labels
      /\ e.chart = IF d.chart = None THEN None ELSE [d.chart EXCEPT !.origin = @ - s * d.chart.step]
  BY <1>2, <1>3 DEF IsDim, Fields
<1>5. r.dims[n] = e /\ ButOne(l, r, n)
  BY <1>1, <1>3, PutOneHas DEF Shift
<1>6. /\ d.start \in Int /\ d.stop \in Int /\ d.start <= d.stop
      /\ d.labels # None => d.chart = None /\ Len(d.labels) = d.stop - d.start /\ d.labels \in Seq(STRING)
      /\ d.chart # None => {"origin", "step", "kind", "axis"} \subseteq DOMAIN d.chart /\ d.chart.origin \in Int /\ d.chart.step \in Int
      /\ OfTypes(d)
  BY <1>1, LabelsAre DEF Both
<1>7. PICK x, y : x = d.chart /\ y = e.chart
  OBVIOUS
<1>8. x # None => x.origin \in Int /\ x.step \in Int /\ s * x.step \in Int
  BY <1>6, <1>7, IntTimes
<1>9. x \in {None} \cup AllCharts
  BY <1>6, <1>7 DEF OfTypes
<1>10. /\ y \in {None} \cup AllCharts /\ (y = None <=> x = None)
       /\ x # None => y.origin = x.origin - s * x.step /\ y.step = x.step /\ y.kind = x.kind /\ y.axis = x.axis
  <2>1. CASE x = None
    BY <1>4, <1>7, <2>1
  <2>2. CASE x # None
    <3>1. x \in AllCharts /\ x = [x EXCEPT !.step = x.step]
      BY <1>9, <2>2 DEF AllCharts
    <3>2. y = [x EXCEPT !.origin = @ - s * x.step]
      BY <1>4, <1>7, <2>2
    <3>3. y = [x EXCEPT !.origin = x.origin - s * x.step, !.step = x.step]
      BY <3>1, <3>2 DEF AllCharts
    <3>4. ChartMoved(x, y, x.origin - s * x.step, x.step)
      BY <2>2, <3>3 DEF ChartMoved
    <3>5. QED
      BY <1>8, <1>9, <2>2, <3>4, MovedChart
  <2>3. QED
    BY <2>1, <2>2
<1>11. SameMarks(e, d) /\ OfTypes(e)
  BY <1>4, <1>6, <1>7, <1>10 DEF SameMarks, OfTypes
<1>12. ASSUME NEW i \in Int PROVE Reads(e, i, d, i - s, 0)
  <2>1. x # None => Phys(y, i) = Phys(x, i - s) + 0
    <3>1. ASSUME x # None PROVE x.origin - s * x.step + i * x.step = x.origin + (i - s) * x.step + 0
      BY <1>8, <3>1
    <3>2. QED
      BY <1>10, <3>1 DEF Phys
  <2>2. i - (d.start + s) + 1 = i - s - d.start + 1
    BY <1>6
  <2>3. LabelAt(e, i) = LabelAt(d, i - s)
    BY <1>4, <2>2 DEF LabelAt
  <2>4. e.chart # None => Phys(e.chart, i) = Phys(d.chart, i - s) + 0
    BY <1>7, <1>10, <2>1
  <2>5. QED
    BY <2>3, <2>4 DEF Reads
<1>13. BoxAt(r) = P!NewBox(o, BoxAt(l))
  <2>1. r.dims[n].start = d.start + s /\ r.dims[n].stop = d.stop + s
    BY <1>4, <1>5
  <2>2. BoxAt(r) = P!Override(P!Single(n, r.dims[n].start .. r.dims[n].stop - 1), BoxAt(l))
    BY <1>5, OneBox
  <2>3. {i + s : i \in d.start .. d.stop - 1} = d.start + s .. d.stop + s - 1
    <3>1. ASSUME NEW j \in d.start + s .. d.stop + s - 1 PROVE \E i \in d.start .. d.stop - 1 : j = i + s
      <4>1. j - s \in d.start .. d.stop - 1 /\ j = (j - s) + s
        BY <1>6
      <4>2. QED
        BY <4>1
    <3>2. \A i \in d.start .. d.stop - 1 : i + s \in d.start + s .. d.stop + s - 1
      BY <1>6
    <3>3. QED
      BY <3>1, <3>2
  <2>4. BoxAt(l)[n] = d.start .. d.stop - 1
    BY <1>1 DEF BoxAt
  <2>5. P!NewBox(o, BoxAt(l)) = P!Override(P!Single(n, {i + s : i \in BoxAt(l)[n]}), BoxAt(l))
    BY DEF P!NewBox
  <2>6. P!NewBox(o, BoxAt(l)) = P!Override(P!Single(n, d.start + s .. d.stop + s - 1), BoxAt(l))
    BY <2>3, <2>4, <2>5, Zenon
  <2>7. r.dims[n].start .. r.dims[n].stop - 1 = d.start + s .. d.stop + s - 1
    BY <1>6, <2>1
  <2>8. QED
    BY <2>2, <2>6, <2>7
<1>14. ASSUME NEW c \in Domain(r)
       PROVE  \E x1 : /\ P!Back(o, BoxAt(l), c) = P!Override(P!Single(n, x1), c)
                      /\ x1 \in l.dims[n].start .. l.dims[n].stop - 1 => Reads(r.dims[n], c[n], l.dims[n], x1, 0)
  <2>1. c[n] \in Int
    BY <1>1, <1>5, SetAgain DEF Both
  <2>2. P!Back(o, BoxAt(l), c) = P!Override(P!Single(n, c[n] - s), c)
    BY DEF P!Back
  <2>3. Reads(r.dims[n], c[n], l.dims[n], c[n] - s, 0)
    BY <1>1, <1>5, <1>12, <2>1
  <2>4. QED
    BY <2>2, <2>3
<1>15. Both(l, r) /\ SameMarks(r.dims[n], l.dims[n]) /\ OfTypes(r.dims[n])
  BY <1>1, <1>5, <1>11
<1>16. o.op \notin {"rename", "diagonal", "recenter"}
  OBVIOUS
<1>17. MovesOne(o, l, r, n)
  BY <1>5, <1>13, <1>14, <1>15, <1>16 DEF MovesOne
<1>18. QED
  BY <1>1, <1>17, MovesGlues

\* A multiple of a natural number is between two bounds when the factor is between theirs.
LEMMA MultiplesBetween ==
  ASSUME NEW f \in Nat \ {0}, NEW a \in Int, NEW b \in Int, NEW i \in Int
  PROVE  /\ Ceiling(a, f) \in Int /\ (Ceiling(a, f) <= i <=> a <= f * i)
         /\ b \div f \in Int /\ (i <= b \div f <=> f * i <= b)
<1>1. ASSUME NEW x \in Int, NEW y \in Int PROVE y <= x \div f <=> f * y <= x
  <2>1. PICK q : q = x \div f
    OBVIOUS
  <2>2. q \in Int /\ f * q <= x /\ x < f * q + f
    BY <2>1, DivIs
  <2>3. CASE y <= q
    <3>1. f * y <= f * q
      BY <2>2, <2>3, TimesMono
    <3>2. QED
      BY <2>1, <2>2, <2>3, <3>1
  <2>4. CASE q < y
    <3>1. f * (q + 1) <= f * y
      BY <2>2, <2>4, TimesMono
    <3>2. f * (q + 1) = f * q + f
      BY <2>2
    <3>3. f * y \in Int /\ f * q \in Int
      BY <2>2, IntTimes
    <3>4. QED
      BY <2>1, <2>2, <2>4, <3>1, <3>2, <3>3
  <2>5. QED
    BY <2>2, <2>3, <2>4
<1>2. PICK q : q = (-a) \div f
  OBVIOUS
<1>3. q \in Int /\ Ceiling(a, f) = -q
  BY <1>2, DivIs DEF Ceiling
<1>4. -i <= q <=> f * (-i) <= -a
  BY <1>1, <1>2
<1>5. f * (-i) = -(f * i) /\ f * i \in Int
  OBVIOUS
<1>6. -q <= i <=> a <= f * i
  BY <1>3, <1>4, <1>5
<1>7. b \div f \in Int /\ (i <= b \div f <=> f * i <= b)
  BY <1>1, DivIs
<1>8. QED
  BY <1>3, <1>6, <1>7

\* The places of n that a decimation keeps (layout.py).
KeptBetween(d, f, p, u, w) == u = Ceiling(d.start - p, f) /\ w = Most(u, (d.stop - 1 - p) \div f + 1)

\* The coordinates between the first and the last that is kept are those whose multiple is in the dim.
LEMMA KeptAre ==
  ASSUME NEW d, d.start \in Int, d.stop \in Int, NEW f \in Nat \ {0}, NEW p \in Int, NEW u, NEW w, KeptBetween(d, f, p, u, w)
  PROVE  /\ u \in Int /\ w \in Int /\ u <= w
         /\ \A i \in Int : i \in u .. w - 1 <=> f * i + p \in d.start .. d.stop - 1
<1>1. d.start - p \in Int /\ d.stop - 1 - p \in Int
  OBVIOUS
<1>2. PICK q : q = (d.stop - 1 - p) \div f
  OBVIOUS
<1>3. u \in Int /\ q \in Int /\ w = Most(u, q + 1)
  <2>1. Ceiling(d.start - p, f) \in Int /\ q \in Int
    BY <1>1, <1>2, MultiplesBetween
  <2>2. QED
    BY <1>2, <2>1 DEF KeptBetween
<1>4. w \in Int /\ u <= w /\ \A i \in Int : i \in u .. w - 1 <=> u <= i /\ i <= q
  BY <1>3 DEF Most
<1>5. ASSUME NEW i \in Int PROVE u <= i /\ i <= q <=> f * i + p \in d.start .. d.stop - 1
  <2>1. (u <= i <=> d.start - p <= f * i) /\ (i <= q <=> f * i <= d.stop - 1 - p)
    BY <1>1, <1>2, MultiplesBetween DEF KeptBetween
  <2>2. f * i \in Int
    OBVIOUS
  <2>3. QED
    BY <2>1, <2>2
<1>6. QED
  BY <1>3, <1>4, <1>5

\* They are those PointMaps sees.
LEMMA KeptDecimated ==
  ASSUME NEW d, d.start \in Int, d.stop \in Int, NEW f \in Nat \ {0}, NEW p \in Int, NEW u, NEW w, KeptBetween(d, f, p, u, w),
         NEW o, NEW b, b[o.dim] = d.start .. d.stop - 1, o.factor = f, o.phase = p
  PROVE  P!Decimated(o, b) = u .. w - 1
<1>1. /\ u \in Int /\ w \in Int
      /\ \A i \in Int : i \in u .. w - 1 <=> f * i + p \in d.start .. d.stop - 1
  BY KeptAre
<1>2. ASSUME NEW i \in d.start .. d.stop - 1, (i - p) % f = 0 PROVE (i - p) \div f \in u .. w - 1
  <2>1. PICK q : q = (i - p) \div f
    OBVIOUS
  <2>2. i - p \in Int
    OBVIOUS
  <2>3. q \in Int /\ i - p = f * q
    <3>1. PICK t : t = i - p
      OBVIOUS
    <3>2. t \in Int /\ q = t \div f /\ t % f = 0
      BY <1>2, <2>1, <2>2, <3>1
    <3>3. q \in Int /\ t = f * q + (t % f)
      BY <3>2, DivIs, ModIs
    <3>4. f * q \in Int
      BY <3>3, IntTimes
    <3>5. QED
      BY <3>1, <3>2, <3>3, <3>4
  <2>4. f * q + p = i
    <3>1. PICK t : t = f * q
      OBVIOUS
    <3>2. t \in Int
      BY <2>3, <3>1
    <3>3. QED
      BY <2>3, <3>1, <3>2
  <2>5. QED
    BY <1>1, <2>1, <2>3, <2>4
<1>3. ASSUME NEW q \in u .. w - 1
      PROVE  \E i \in d.start .. d.stop - 1 : (i - p) % f = 0 /\ q = (i - p) \div f
  <2>1. PICK t : t = f * q
    OBVIOUS
  <2>2. q \in Int /\ t \in Int /\ t + p \in d.start .. d.stop - 1
    <3>1. q \in Int /\ f \in Int
      BY <1>1
    <3>2. f * q \in Int /\ f * q + p \in d.start .. d.stop - 1
      BY <1>1, <3>1, IntTimes
    <3>3. QED
      BY <2>1, <3>1, <3>2, Zenon
  <2>3. t \div f = q /\ t % f = 0
    <3>0. t \in Int /\ f \in Nat \ {0}
      BY <2>2
    <3>1. PICK z, m : z = t \div f /\ m = t % f
      OBVIOUS
    <3>2. z \in Int /\ m \in Int /\ 0 <= m /\ m < f /\ t = f * z + m
      BY <3>0, <3>1, DivIs, ModIs
    <3>3. z <= q /\ q <= z
      <4>1. q <= t \div f <=> f * q <= t
        BY <2>2, MultiplesBetween
      <4>2. q + 1 <= t \div f <=> f * (q + 1) <= t
        BY <2>2, MultiplesBetween
      <4>3. f * (q + 1) = f * q + f
        BY <2>2
      <4>4. QED
        BY <2>1, <2>2, <3>1, <3>2, <4>1, <4>2, <4>3
    <3>4. z = q
      BY <2>2, <3>2, <3>3
    <3>5. QED
      BY <2>1, <2>2, <3>1, <3>2, <3>4
  <2>4. (t + p) - p = t
    BY <2>2
  <2>5. QED
    BY <2>2, <2>3, <2>4
<1>4. \A q : q \in P!Decimated(o, b) <=> \E i \in d.start .. d.stop - 1 : (i - p) % f = 0 /\ q = (i - p) \div f
  BY DEF P!Decimated
<1>5. \A q : q \in P!Decimated(o, b) <=> q \in u .. w - 1
  BY <1>2, <1>3, <1>4
<1>6. QED
  BY <1>5

\* The labels that a function of indices takes from labels.
LEMMA LabelsTaken ==
  ASSUME NEW s \in Seq(STRING), NEW k \in Nat, NEW g, \A j \in 1 .. k : g[j] \in 1 .. Len(s)
  PROVE  [j \in 1 .. k |-> s[g[j]]] \in Seq(STRING)
<1>1. \A j \in 1 .. Len(s) : s[j] \in STRING
  OBVIOUS
<1>2. [j \in 1 .. k |-> s[g[j]]] \in [1 .. k -> STRING]
  BY <1>1
<1>3. QED
  BY <1>2, SeqDef

\* The one dim that an operation puts in the place of n.
PutsOne(o, l, r, n, e) ==
  /\ Both(l, r) /\ n \in Names(l) /\ ButOne(l, r, n) /\ r.dims[n] = e /\ SameMarks(e, l.dims[n]) /\ OfTypes(e)
  /\ o.op \notin {"rename", "diagonal", "recenter"} /\ e.start \in Int /\ e.stop \in Int
  /\ P!NewBox(o, BoxAt(l)) = P!Override(P!Single(n, e.start .. e.stop - 1), BoxAt(l))
  /\ \A c \in Domain(r) : \A i \in e.start .. e.stop - 1 : c[n] = i =>
       \E x : /\ P!Back(o, BoxAt(l), c) = P!Override(P!Single(n, x), c)
              /\ x \in l.dims[n].start .. l.dims[n].stop - 1 => Reads(e, i, l.dims[n], x, 0)

\* An operation that puts another dim in the place of one, with what it reads, keeps positions and labels.
LEMMA PutsGlues ==
  ASSUME NEW o, NEW l, NEW r, NEW n, NEW e, PutsOne(o, l, r, n, e)
  PROVE  Tells(o, l, r)
<1>1. /\ Both(l, r) /\ n \in Names(l) /\ ButOne(l, r, n) /\ r.dims[n] = e /\ e.start \in Int /\ e.stop \in Int
  BY DEF PutsOne
<1>2. BoxAt(r) = P!NewBox(o, BoxAt(l))
  <2>1. r.dims[n].start .. r.dims[n].stop - 1 = e.start .. e.stop - 1
    BY <1>1
  <2>2. BoxAt(r) = P!Override(P!Single(n, r.dims[n].start .. r.dims[n].stop - 1), BoxAt(l))
    BY <1>1, OneBox
  <2>3. P!NewBox(o, BoxAt(l)) = P!Override(P!Single(n, e.start .. e.stop - 1), BoxAt(l))
    BY DEF PutsOne
  <2>4. QED
    BY <2>1, <2>2, <2>3
<1>3. ASSUME NEW c \in Domain(r)
      PROVE  \E x : /\ P!Back(o, BoxAt(l), c) = P!Override(P!Single(n, x), c)
                    /\ x \in l.dims[n].start .. l.dims[n].stop - 1 => Reads(r.dims[n], c[n], l.dims[n], x, 0)
  <2>1. c[n] \in e.start .. e.stop - 1
    <3>1. c[n] \in Int /\ r.dims[n].start <= c[n] /\ c[n] < r.dims[n].stop
      BY <1>1, SetAgain DEF Both
    <3>2. QED
      BY <1>1, <3>1
  <2>2. PICK x : /\ P!Back(o, BoxAt(l), c) = P!Override(P!Single(n, x), c)
                 /\ x \in l.dims[n].start .. l.dims[n].stop - 1 => Reads(e, c[n], l.dims[n], x, 0)
    BY <2>1 DEF PutsOne
  <2>3. QED
    BY <1>1, <2>2
<1>4. SameMarks(r.dims[n], l.dims[n]) /\ OfTypes(r.dims[n]) /\ o.op \notin {"rename", "diagonal", "recenter"}
  BY <1>1 DEF PutsOne
<1>5. MovesOne(o, l, r, n)
  BY <1>1, <1>2, <1>3, <1>4 DEF MovesOne
<1>6. QED
  BY <1>5, MovesGlues

\* flip (layout.py)
LEMMA FlipGlues ==
  ASSUME NEW l, NEW n \in Names(l), Both(l, Flip(l, n)), NEW o, o = [op |-> "flip", dim |-> n]
  PROVE  Tells(o, l, Flip(l, n))
<1>1. PICK r, d, t : r = Flip(l, n) /\ d = l.dims[n] /\ t = d.start + d.stop - 1
  OBVIOUS
<1>2. IsDim(d) /\ IsLayout(l)
  BY <1>1 DEF Both, IsLayout
<1>3. PICK e : e = [d EXCEPT !.stride = -@,
           !.chart = IF d.chart = None THEN None
                     ELSE [d.chart EXCEPT !.origin = @ + t * d.chart.step, !.step = -@],
           !.labels = IF d.labels = None THEN None ELSE Reverse(@)]
  OBVIOUS
<1>4. /\ e.start = d.start /\ e.stop = d.stop
      /\ e.chart = IF d.chart = None THEN None ELSE [d.chart EXCEPT !.origin = @ + t * d.chart.step, !.step = -@]
      /\ e.labels = IF d.labels = None THEN None ELSE Reverse(d.labels)
  BY <1>2, <1>3 DEF IsDim, Fields
<1>5. r.dims[n] = e /\ ButOne(l, r, n)
  BY <1>1, <1>3, PutOneHas DEF Flip
<1>6. /\ d.start \in Int /\ d.stop \in Int /\ d.start <= d.stop /\ t \in Int
      /\ d.labels # None => d.chart = None /\ Len(d.labels) = d.stop - d.start /\ d.labels \in Seq(STRING)
      /\ d.chart # None => {"origin", "step", "kind", "axis"} \subseteq DOMAIN d.chart /\ d.chart.origin \in Int /\ d.chart.step \in Int
      /\ OfTypes(d)
  <2>1. d.start \in Int /\ d.stop \in Int
    BY <1>2 DEF IsDim
  <2>2. t \in Int
    BY <1>1, <2>1
  <2>3. QED
    BY <1>1, <2>2, LabelsAre DEF Both
<1>7. PICK x, y : x = d.chart /\ y = e.chart
  OBVIOUS
<1>8. x # None => x.origin \in Int /\ x.step \in Int /\ t * x.step \in Int
  BY <1>6, <1>7, IntTimes
<1>9. x \in {None} \cup AllCharts
  BY <1>6, <1>7 DEF OfTypes
<1>10. /\ y \in {None} \cup AllCharts /\ (y = None <=> x = None)
       /\ x # None => y.origin = x.origin + t * x.step /\ y.step = -x.step /\ y.kind = x.kind /\ y.axis = x.axis
  <2>1. CASE x = None
    BY <1>4, <1>7, <2>1
  <2>2. CASE x # None
    <3>1. y = [x EXCEPT !.origin = x.origin + t * x.step, !.step = -x.step]
      BY <1>4, <1>7, <2>2
    <3>2. ChartMoved(x, y, x.origin + t * x.step, -x.step)
      BY <2>2, <3>1 DEF ChartMoved
    <3>3. x.origin + t * x.step \in Int /\ -x.step \in Int
      BY <1>8, <2>2
    <3>4. QED
      BY <1>9, <2>2, <3>2, <3>3, MovedChart
  <2>3. QED
    BY <2>1, <2>2
<1>11. /\ e.labels \in {None} \cup Seq(STRING) /\ (e.labels = None <=> d.labels = None)
       /\ d.labels # None => \A j \in 1 .. Len(d.labels) : e.labels[j] = d.labels[Len(d.labels) - j + 1]
  <2>1. CASE d.labels = None
    BY <1>4, <2>1
  <2>2. CASE d.labels # None
    <3>1. PICK s : s = d.labels /\ s \in Seq(STRING)
      BY <1>6, <2>2
    <3>2. Reverse(s) \in Seq(STRING) /\ \A j \in 1 .. Len(s) : Reverse(s)[j] = s[Len(s) - j + 1]
      BY <3>1 DEF Reverse
    <3>3. e.labels = Reverse(s)
      BY <1>4, <2>2, <3>1
    <3>4. QED
      BY <2>2, <3>1, <3>2, <3>3, NotNone
  <2>3. QED
    BY <2>1, <2>2
<1>12. SameMarks(e, d) /\ OfTypes(e)
  BY <1>7, <1>10, <1>11 DEF SameMarks, OfTypes
<1>13. ASSUME NEW i \in d.start .. d.stop - 1 PROVE Reads(e, i, d, t - i, 0)
  <2>1. i \in Int
    BY <1>6
  <2>2. x # None => Phys(y, i) = Phys(x, t - i) + 0
    <3>1. ASSUME x # None PROVE x.origin + t * x.step + i * (-x.step) = x.origin + (t - i) * x.step + 0
      BY <1>6, <1>8, <2>1, <3>1
    <3>2. QED
      BY <1>10, <3>1 DEF Phys
  <2>3. ASSUME e.labels # None PROVE LabelAt(e, i) = LabelAt(d, t - i)
    <3>1. d.labels # None /\ Len(d.labels) = d.stop - d.start
      BY <1>6, <1>11, <2>3
    <3>2. i - d.start + 1 \in 1 .. Len(d.labels)
      BY <1>6, <3>1
    <3>3. Len(d.labels) - (i - d.start + 1) + 1 = t - i - d.start + 1
      <4>1. PICK a, b, k : a = d.start /\ b = d.stop /\ k = Len(d.labels)
        OBVIOUS
      <4>2. a \in Int /\ b \in Int /\ k = b - a /\ t = a + b - 1
        BY <1>1, <1>6, <3>1, <4>1
      <4>3. k - (i - a + 1) + 1 = t - i - a + 1
        BY <2>1, <4>2
      <4>4. QED
        BY <4>1, <4>3
    <3>4. e.labels[i - d.start + 1] = d.labels[t - i - d.start + 1]
      BY <1>11, <3>1, <3>2, <3>3
    <3>5. QED
      BY <1>4, <3>4 DEF LabelAt
  <2>4. e.chart # None => Phys(e.chart, i) = Phys(d.chart, t - i) + 0
    BY <1>7, <1>10, <2>2
  <2>5. QED
    BY <2>3, <2>4 DEF Reads
<1>14. P!NewBox(o, BoxAt(l)) = P!Override(P!Single(n, e.start .. e.stop - 1), BoxAt(l))
  <2>1. r.dims[n].start = l.dims[n].start /\ r.dims[n].stop = l.dims[n].stop
    BY <1>1, <1>4, <1>5
  <2>2. BoxAt(r) = P!Override(P!Single(n, r.dims[n].start .. r.dims[n].stop - 1), BoxAt(l)) /\ BoxAt(r) = BoxAt(l)
    BY <1>5, <2>1, OneBox
  <2>3. P!NewBox(o, BoxAt(l)) = BoxAt(l)
    BY DEF P!NewBox
  <2>4. r.dims[n].start .. r.dims[n].stop - 1 = e.start .. e.stop - 1
    BY <1>5
  <2>5. QED
    BY <2>2, <2>3, <2>4
<1>15. ASSUME NEW c \in Domain(r), NEW i \in e.start .. e.stop - 1, c[n] = i
       PROVE  \E z : /\ P!Back(o, BoxAt(l), c) = P!Override(P!Single(n, z), c)
                     /\ z \in l.dims[n].start .. l.dims[n].stop - 1 => Reads(e, i, l.dims[n], z, 0)
  <2>1. i \in d.start .. d.stop - 1 /\ i \in Int /\ d.start <= d.stop - 1
    BY <1>4, <1>6, <1>15
  <2>2. BoxAt(l)[n] = d.start .. d.stop - 1
    BY <1>1 DEF BoxAt
  <2>3. P!Min(BoxAt(l)[n]) = d.start /\ P!Max(BoxAt(l)[n]) = d.stop - 1
    BY <1>6, <2>1, <2>2, PEnds
  <2>4. P!Back(o, BoxAt(l), c) = P!Override(P!Single(n, d.start + (d.stop - 1) - i), c)
    BY <1>15, <2>3 DEF P!Back
  <2>5. d.start + (d.stop - 1) - i = t - i
    BY <1>1, <1>6, <2>1
  <2>6. Reads(e, i, l.dims[n], t - i, 0)
    BY <1>1, <1>13, <2>1
  <2>7. QED
    BY <2>4, <2>5, <2>6
<1>16. e.start \in Int /\ e.stop \in Int /\ Both(l, r) /\ o.op \notin {"rename", "diagonal", "recenter"}
  BY <1>1, <1>4, <1>6
<1>17. SameMarks(e, l.dims[n])
  BY <1>1, <1>12
<1>18. PutsOne(o, l, r, n, e)
  BY <1>5, <1>12, <1>14, <1>15, <1>16, <1>17 DEF PutsOne
<1>19. QED
  BY <1>1, <1>18, PutsGlues

\* What a layout's laws say of one dim.
Clean(d) ==
  /\ d.start \in Int /\ d.stop \in Int /\ d.start <= d.stop
  /\ d.labels # None => d.chart = None /\ Len(d.labels) = d.stop - d.start /\ d.labels \in Seq(STRING)
  /\ d.chart # None => {"origin", "step", "kind", "axis"} \subseteq DOMAIN d.chart /\ d.chart.origin \in Int /\ d.chart.step \in Int
  /\ OfTypes(d)
\* r is l but at n, where a coordinate reads what f times it and p more did.
OneReads(l, r, n, f, p) ==
  /\ ButOne(l, r, n) /\ SameMarks(r.dims[n], l.dims[n]) /\ OfTypes(r.dims[n])
  /\ r.dims[n].start \in Int /\ r.dims[n].stop \in Int
  /\ \A i \in r.dims[n].start .. r.dims[n].stop - 1 :
       f * i + p \in l.dims[n].start .. l.dims[n].stop - 1 /\ Reads(r.dims[n], i, l.dims[n], f * i + p, 0)

\* decimate (layout.py)
LEMMA DecimateReads ==
  ASSUME NEW l, IsLayout(l), NEW n \in Names(l), Clean(l.dims[n]), NEW factor \in Nat \ {0}, NEW phase \in Int,
         NEW p, p = phase % factor
  PROVE  /\ OneReads(l, Decimate(l, n, factor, phase), n, factor, p)
         /\ KeptBetween(l.dims[n], factor, p, Decimate(l, n, factor, phase).dims[n].start, Decimate(l, n, factor, phase).dims[n].stop)
<1>1. PICK r, d, u, w : /\ r = Decimate(l, n, factor, phase) /\ d = l.dims[n]
                        /\ u = Ceiling(d.start - p, factor) /\ w = Most(u, (d.stop - 1 - p) \div factor + 1)
  OBVIOUS
<1>2. IsDim(d) /\ IsLayout(l)
  BY <1>1 DEF IsLayout
<1>3. PICK labels : labels = IF d.labels = None THEN None
                             ELSE [j \in 1 .. w - u |-> d.labels[factor * (u + j - 1) + p - d.start + 1]]
  OBVIOUS
<1>4. PICK e : e = [d EXCEPT !.stride = @ * factor, !.start = u, !.stop = w,
           !.chart = IF d.chart = None THEN None ELSE [d.chart EXCEPT !.origin = @ + p * d.chart.step, !.step = @ * factor],
           !.labels = labels]
  OBVIOUS
<1>5. /\ e.start = u /\ e.stop = w /\ e.labels = labels
      /\ e.chart = IF d.chart = None THEN None ELSE [d.chart EXCEPT !.origin = @ + p * d.chart.step, !.step = @ * factor]
  BY <1>2, <1>4 DEF IsDim, Fields
<1>6. r.dims[n] = e /\ ButOne(l, r, n)
  <2>1. r = PutOne(l, n, n, e, d.stride * p)
    BY <1>1, <1>3, <1>4 DEF Decimate
  <2>2. QED
    BY <2>1, PutOneHas
<1>7. /\ d.start \in Int /\ d.stop \in Int /\ d.start <= d.stop
      /\ d.labels # None => d.chart = None /\ Len(d.labels) = d.stop - d.start /\ d.labels \in Seq(STRING)
      /\ d.chart # None => {"origin", "step", "kind", "axis"} \subseteq DOMAIN d.chart /\ d.chart.origin \in Int /\ d.chart.step \in Int
      /\ OfTypes(d)
  BY <1>1 DEF Clean
<1>8. p \in Int
  BY ModIs
<1>9. KeptBetween(d, factor, p, u, w)
  BY <1>1 DEF KeptBetween
<1>10. /\ u \in Int /\ w \in Int /\ u <= w
       /\ \A i \in Int : i \in u .. w - 1 <=> factor * i + p \in d.start .. d.stop - 1
  BY <1>7, <1>8, <1>9, KeptAre
<1>11. PICK x, y : x = d.chart /\ y = e.chart
  OBVIOUS
<1>12. x # None => x.origin \in Int /\ x.step \in Int /\ p * x.step \in Int /\ x.step * factor \in Int
  <2>1. factor \in Int /\ (x # None => x.origin \in Int /\ x.step \in Int)
    BY <1>7, <1>11
  <2>2. QED
    BY <1>8, <2>1, IntTimes
<1>13. x \in {None} \cup AllCharts
  BY <1>7, <1>11 DEF OfTypes
<1>14. /\ y \in {None} \cup AllCharts /\ (y = None <=> x = None)
       /\ x # None => y.origin = x.origin + p * x.step /\ y.step = x.step * factor /\ y.kind = x.kind /\ y.axis = x.axis
  <2>1. CASE x = None
    BY <1>5, <1>11, <2>1
  <2>2. CASE x # None
    <3>1. y = [x EXCEPT !.origin = x.origin + p * x.step, !.step = x.step * factor]
      BY <1>5, <1>11, <2>2
    <3>2. ChartMoved(x, y, x.origin + p * x.step, x.step * factor)
      BY <2>2, <3>1 DEF ChartMoved
    <3>3. x.origin + p * x.step \in Int /\ x.step * factor \in Int
      BY <1>12, <2>2
    <3>4. QED
      BY <1>13, <2>2, <3>2, <3>3, MovedChart
  <2>3. QED
    BY <2>1, <2>2
<1>15. /\ labels \in {None} \cup Seq(STRING) /\ (labels = None <=> d.labels = None)
       /\ d.labels # None => \A j \in 1 .. w - u : labels[j] = d.labels[factor * (u + j - 1) + p - d.start + 1]
  <2>1. CASE d.labels = None
    BY <1>3, <2>1
  <2>2. CASE d.labels # None
    <3>1. PICK s, g : /\ s = d.labels /\ g = [j \in 1 .. w - u |-> factor * (u + j - 1) + p - d.start + 1]
      OBVIOUS
    <3>2. s \in Seq(STRING) /\ Len(s) = d.stop - d.start /\ w - u \in Nat
      BY <1>7, <1>10, <2>2, <3>1
    <3>3. ASSUME NEW j \in 1 .. w - u PROVE g[j] \in 1 .. Len(s)
      <4>1. u + j - 1 \in u .. w - 1 /\ u + j - 1 \in Int
        BY <1>10
      <4>2. factor * (u + j - 1) + p \in d.start .. d.stop - 1
        BY <1>10, <4>1
      <4>3. g[j] = factor * (u + j - 1) + p - d.start + 1
        BY <3>1
      <4>4. PICK z : z = factor * (u + j - 1) + p
        OBVIOUS
      <4>5. z \in Int /\ d.start <= z /\ z <= d.stop - 1 /\ g[j] = z - d.start + 1
        <5>1. z \in d.start .. d.stop - 1
          BY <4>2, <4>4
        <5>2. g[j] = z - d.start + 1
          <6>1. PICK k : k = factor * (u + j - 1)
            OBVIOUS
          <6>2. k \in Int
            <7>1. u + j - 1 \in Int /\ factor \in Int
              BY <1>10
            <7>2. QED
              BY <6>1, <7>1, IntTimes
          <6>3. g[j] = k + p - d.start + 1 /\ z = k + p
            BY <4>3, <4>4, <6>1
          <6>4. QED
            BY <1>7, <1>8, <6>2, <6>3
        <5>3. QED
          BY <1>7, <5>1, <5>2
      <4>6. QED
        BY <1>7, <3>2, <4>5
    <3>4. [j \in 1 .. w - u |-> s[g[j]]] \in Seq(STRING)
      <4>1. PICK k : k = w - u
        OBVIOUS
      <4>2. [j \in 1 .. k |-> s[g[j]]] \in Seq(STRING)
        BY <3>2, <3>3, <4>1, LabelsTaken
      <4>3. QED
        BY <4>1, <4>2
    <3>5. labels = [j \in 1 .. w - u |-> s[g[j]]]
      BY <1>3, <2>2, <3>1
    <3>6. \A j \in 1 .. w - u : labels[j] = d.labels[factor * (u + j - 1) + p - d.start + 1]
      BY <1>3, <2>2
    <3>7. QED
      BY <2>2, <3>4, <3>5, <3>6, NotNone
  <2>3. QED
    BY <2>1, <2>2
<1>16. SameMarks(e, d) /\ OfTypes(e)
  <2>1. d.chart # None => e.chart.kind = d.chart.kind /\ e.chart.axis = d.chart.axis
    BY <1>11, <1>14
  <2>2. QED
    BY <1>5, <1>11, <1>14, <1>15, <2>1 DEF SameMarks, OfTypes
<1>17. ASSUME NEW i \in u .. w - 1 PROVE Reads(e, i, d, factor * i + p, 0)
  <2>1. i \in Int
    BY <1>10
  <2>2. x # None => Phys(y, i) = Phys(x, factor * i + p) + 0
    <3>1. ASSUME x # None PROVE x.origin + p * x.step + i * (x.step * factor) = x.origin + (factor * i + p) * x.step + 0
      BY <1>8, <1>12, <2>1, <3>1
    <3>2. QED
      BY <1>14, <3>1 DEF Phys
  <2>3. ASSUME e.labels # None PROVE LabelAt(e, i) = LabelAt(d, factor * i + p)
    <3>1. PICK k : k = i - u + 1
      OBVIOUS
    <3>2. k \in 1 .. w - u /\ u + k - 1 = i
      BY <1>10, <3>1
    <3>3. labels[k] = d.labels[factor * i + p - d.start + 1]
      BY <1>5, <1>15, <2>3, <3>2
    <3>4. LabelAt(e, i) = labels[k]
      BY <1>5, <3>1 DEF LabelAt
    <3>5. PICK z : z = factor * i + p
      OBVIOUS
    <3>6. LabelAt(d, z) = d.labels[z - d.start + 1]
      BY DEF LabelAt
    <3>7. labels[k] = d.labels[z - d.start + 1]
      BY <1>7, <1>8, <2>1, <3>3, <3>5
    <3>8. QED
      BY <3>4, <3>5, <3>6, <3>7
  <2>4. e.chart # None => Phys(e.chart, i) = Phys(d.chart, factor * i + p) + 0
    BY <1>11, <1>14, <2>2
  <2>5. QED
    BY <2>3, <2>4 DEF Reads
<1>18. ASSUME NEW i \in u .. w - 1 PROVE factor * i + p \in d.start .. d.stop - 1
  <2>1. i \in Int
    BY <1>10
  <2>2. QED
    BY <1>10, <2>1
<1>19. OneReads(l, r, n, factor, p)
  <2>1. r.dims[n].start = u /\ r.dims[n].stop = w /\ SameMarks(r.dims[n], l.dims[n]) /\ OfTypes(r.dims[n])
    BY <1>1, <1>5, <1>6, <1>16
  <2>2. \A i \in u .. w - 1 : factor * i + p \in l.dims[n].start .. l.dims[n].stop - 1 /\ Reads(r.dims[n], i, l.dims[n], factor * i + p, 0)
    BY <1>1, <1>6, <1>17, <1>18
  <2>3. QED
    BY <1>6, <1>10, <2>1, <2>2 DEF OneReads
<1>20. QED
  BY <1>1, <1>5, <1>6, <1>9, <1>19

\* decimate (layout.py): labels and positions stay with the data.
LEMMA DecimateGlues ==
  ASSUME NEW l, NEW n \in Names(l), NEW factor \in Nat \ {0}, NEW phase \in Int, Both(l, Decimate(l, n, factor, phase)),
         NEW p, p = phase % factor, NEW o, o = [op |-> "decimate", dim |-> n, factor |-> factor, phase |-> p]
  PROVE  Tells(o, l, Decimate(l, n, factor, phase))
<1>1. PICK r, d, e : r = Decimate(l, n, factor, phase) /\ d = l.dims[n] /\ e = r.dims[n]
  OBVIOUS
<1>2. Clean(d) /\ IsLayout(l) /\ p \in Int
  BY <1>1, LabelsAre, ModIs DEF Clean, Both
<1>3. OneReads(l, r, n, factor, p) /\ KeptBetween(d, factor, p, e.start, e.stop)
  BY <1>1, <1>2, DecimateReads
<1>4. P!NewBox(o, BoxAt(l)) = P!Override(P!Single(n, e.start .. e.stop - 1), BoxAt(l))
  <2>1. BoxAt(l)[n] = d.start .. d.stop - 1
    BY <1>1 DEF BoxAt
  <2>2. BoxAt(l)[o.dim] = d.start .. d.stop - 1 /\ o.factor = factor /\ o.phase = p
    BY <2>1
  <2>3. P!Decimated(o, BoxAt(l)) = e.start .. e.stop - 1
    BY <1>2, <1>3, <2>2, KeptDecimated DEF Clean
  <2>4. P!NewBox(o, BoxAt(l)) = P!Override(P!Single(n, P!Decimated(o, BoxAt(l))), BoxAt(l))
    BY DEF P!NewBox
  <2>5. QED
    BY <2>3, <2>4
<1>5. ASSUME NEW c \in Domain(r), NEW i \in e.start .. e.stop - 1, c[n] = i
      PROVE  \E z : /\ P!Back(o, BoxAt(l), c) = P!Override(P!Single(n, z), c)
                    /\ z \in l.dims[n].start .. l.dims[n].stop - 1 => Reads(e, i, l.dims[n], z, 0)
  <2>1. P!Back(o, BoxAt(l), c) = P!Override(P!Single(n, factor * i + p), c)
    BY <1>5 DEF P!Back
  <2>2. Reads(e, i, l.dims[n], factor * i + p, 0)
    BY <1>1, <1>3 DEF OneReads
  <2>3. QED
    BY <2>1, <2>2
<1>6. /\ SameMarks(e, l.dims[n]) /\ e.start \in Int /\ e.stop \in Int /\ Both(l, r) /\ ButOne(l, r, n) /\ OfTypes(e)
      /\ o.op \notin {"rename", "diagonal", "recenter"}
  BY <1>1, <1>3 DEF OneReads
<1>7. PutsOne(o, l, r, n, e)
  BY <1>1, <1>4, <1>5, <1>6 DEF PutsOne
<1>8. QED
  BY <1>1, <1>7, PutsGlues

\* slice (layout.py) leaves every place the labels it had.
LEMMA SliceReads ==
  ASSUME NEW l, IsLayout(l), NEW n \in Names(l), Clean(l.dims[n]), NEW lo \in Int, NEW hi \in Int, CanSlice(l, n, lo, hi)
  PROVE  /\ OneReads(l, Slice(l, n, lo, hi), n, 1, 0)
         /\ Slice(l, n, lo, hi).dims[n].start = lo /\ Slice(l, n, lo, hi).dims[n].stop = hi
         /\ Clean(Slice(l, n, lo, hi).dims[n])
<1>1. PICK r, d : r = Slice(l, n, lo, hi) /\ d = l.dims[n]
  OBVIOUS
<1>2. IsDim(d) /\ IsLayout(l)
  BY <1>1 DEF IsLayout
<1>3. PICK e : e = [d EXCEPT !.start = lo, !.stop = hi,
        !.labels = IF d.labels = None THEN None ELSE SubSeq(d.labels, lo - d.start + 1, hi - d.start)]
  OBVIOUS
<1>4. /\ e.start = lo /\ e.stop = hi /\ e.chart = d.chart
      /\ e.labels = IF d.labels = None THEN None ELSE SubSeq(d.labels, lo - d.start + 1, hi - d.start)
  BY <1>2, <1>3 DEF IsDim, Fields
<1>5. r = SetDim(l, n, e)
  BY <1>1, <1>3 DEF Slice
<1>6. IsDim(e)
  BY <1>2, <1>3 DEF IsDim, Fields
<1>7. r.dims[n] = e /\ ButOne(l, r, n)
  BY <1>2, <1>5, <1>6, SetDimIs DEF ButOne
<1>8. /\ d.start \in Int /\ d.stop \in Int /\ d.start <= d.stop
      /\ d.labels # None => d.chart = None /\ Len(d.labels) = d.stop - d.start /\ d.labels \in Seq(STRING)
      /\ d.chart # None => {"origin", "step", "kind", "axis"} \subseteq DOMAIN d.chart /\ d.chart.origin \in Int /\ d.chart.step \in Int
      /\ OfTypes(d)
  BY <1>1 DEF Clean
<1>9. lo <= hi /\ (lo # hi => d.start <= lo /\ hi <= d.stop)
  BY <1>1 DEF CanSlice
<1>10. /\ e.labels \in {None} \cup Seq(STRING) /\ (e.labels = None <=> d.labels = None)
       /\ e.labels # None => Len(e.labels) = hi - lo
  <2>1. CASE d.labels = None
    BY <1>4, <2>1
  <2>2. CASE d.labels # None
    <3>1. /\ SubSeq(d.labels, lo - d.start + 1, hi - d.start) \in Seq(STRING)
          /\ Len(SubSeq(d.labels, lo - d.start + 1, hi - d.start)) = hi - lo
      <4>1. PICK a, b, s : a = lo - d.start + 1 /\ b = hi - d.start /\ s = d.labels
        OBVIOUS
      <4>2. a \in Int /\ b \in Int /\ a <= b + 1 /\ s \in Seq(STRING) /\ Len(s) = d.stop - d.start
        BY <1>8, <1>9, <2>2, <4>1
      <4>3. a <= b => 1 <= a /\ b <= Len(s)
        BY <1>8, <1>9, <4>1, <4>2
      <4>4. SubSeq(s, a, b) \in Seq(STRING) /\ Len(SubSeq(s, a, b)) = 1 + b - a
        BY <4>2, <4>3, Cut
      <4>5. 1 + b - a = hi - lo
        BY <1>8, <4>1
      <4>6. QED
        BY <4>1, <4>4, <4>5
    <3>2. QED
      BY <1>4, <2>2, <3>1, NotNone
  <2>3. QED
    BY <2>1, <2>2
<1>11. ASSUME NEW i \in lo .. hi - 1 PROVE Reads(e, i, d, i, 0)
  <2>1. e.chart # None => Phys(e.chart, i) = Phys(d.chart, i) + 0
    BY <1>4, <1>8 DEF Phys
  <2>2. ASSUME e.labels # None PROVE LabelAt(e, i) = LabelAt(d, i)
    <3>1. /\ \A j \in 1 .. hi - lo : SubSeq(d.labels, lo - d.start + 1, hi - d.start)[j] = d.labels[lo - d.start + 1 + j - 1]
      <4>1. PICK a, b, s : a = lo - d.start + 1 /\ b = hi - d.start /\ s = d.labels
        OBVIOUS
      <4>2. \A j \in 1 .. 1 + b - a : SubSeq(s, a, b)[j] = s[a + j - 1]
        <5>1. a \in Int /\ b \in Int /\ a <= b + 1 /\ s \in Seq(STRING) /\ Len(s) = d.stop - d.start
          <6>1. d.labels # None
            BY <1>10, <2>2
          <6>2. Len(d.labels) = d.stop - d.start /\ d.labels \in Seq(STRING)
            BY <1>8, <6>1
          <6>3. a \in Int /\ b \in Int /\ a <= b + 1
            BY <1>8, <1>9, <4>1
          <6>4. QED
            BY <4>1, <6>2, <6>3
        <5>2. a <= b => 1 <= a /\ b <= Len(s)
          BY <1>8, <1>9, <4>1, <5>1
        <5>3. QED
          BY <5>1, <5>2, Cut
      <4>3. 1 + b - a = hi - lo
        BY <1>8, <4>1
      <4>4. QED
        BY <4>1, <4>2, <4>3
    <3>2. i - lo + 1 \in 1 .. hi - lo /\ lo - d.start + 1 + (i - lo + 1) - 1 = i - d.start + 1
      BY <1>8
    <3>3. QED
      BY <1>4, <1>10, <2>2, <3>1, <3>2 DEF LabelAt
  <2>3. QED
    BY <2>1, <2>2 DEF Reads
<1>12. SameMarks(e, d) /\ OfTypes(e)
  BY <1>4, <1>8, <1>10 DEF SameMarks, OfTypes
<1>13. OneReads(l, r, n, 1, 0)
  <2>1. ASSUME NEW i \in lo .. hi - 1
        PROVE  1 * i + 0 \in l.dims[n].start .. l.dims[n].stop - 1 /\ Reads(r.dims[n], i, l.dims[n], 1 * i + 0, 0)
    <3>1. 1 * i + 0 = i /\ i \in d.start .. d.stop - 1
      BY <1>8, <1>9
    <3>2. Reads(r.dims[n], i, l.dims[n], i, 0)
      BY <1>1, <1>7, <1>11
    <3>3. QED
      BY <1>1, <3>1, <3>2
  <2>2. r.dims[n].start = lo /\ r.dims[n].stop = hi /\ SameMarks(r.dims[n], l.dims[n]) /\ OfTypes(r.dims[n])
    BY <1>1, <1>4, <1>7, <1>12
  <2>3. QED
    BY <1>7, <2>1, <2>2 DEF OneReads
<1>14. Clean(e)
  <2>1. e.labels # None => e.chart = None
    BY <1>4, <1>8, <1>10
  <2>2. QED
    BY <1>4, <1>8, <1>9, <1>10, <1>12, <2>1 DEF Clean
<1>15. QED
  BY <1>1, <1>4, <1>7, <1>13, <1>14

\* slice (layout.py): labels and positions stay with the data.
LEMMA SliceGlues ==
  ASSUME NEW l, NEW n \in Names(l), NEW lo \in Int, NEW hi \in Int, Both(l, Slice(l, n, lo, hi)), CanSlice(l, n, lo, hi),
         NEW o, o = [op |-> "slice", dim |-> n, lo |-> lo, hi |-> hi]
  PROVE  Tells(o, l, Slice(l, n, lo, hi))
<1>1. PICK r, d, e : r = Slice(l, n, lo, hi) /\ d = l.dims[n] /\ e = r.dims[n]
  OBVIOUS
<1>2. Clean(d) /\ IsLayout(l)
  BY <1>1, LabelsAre DEF Clean, Both
<1>3. OneReads(l, r, n, 1, 0) /\ e.start = lo /\ e.stop = hi
  BY <1>1, <1>2, SliceReads
<1>4. BoxAt(r) = P!NewBox(o, BoxAt(l))
  <2>1. r.dims[n].start = lo /\ r.dims[n].stop = hi /\ ButOne(l, r, n)
    BY <1>1, <1>3 DEF OneReads
  <2>2. BoxAt(r) = P!Override(P!Single(n, lo .. hi - 1), BoxAt(l))
    BY <2>1, OneBox
  <2>3. BoxAt(l)[n] \cap lo .. hi - 1 = lo .. hi - 1
    <3>1. lo # hi => d.start <= lo /\ hi <= d.stop
      BY <1>1 DEF CanSlice
    <3>2. lo <= hi /\ d.start \in Int /\ d.stop \in Int
      BY <1>2 DEF CanSlice, Clean
    <3>3. d.start .. d.stop - 1 \cap lo .. hi - 1 = lo .. hi - 1
      BY <3>1, <3>2
    <3>4. QED
      BY <1>1, <3>3 DEF BoxAt
  <2>4. QED
    BY <2>2, <2>3 DEF P!NewBox
<1>5. \A a : Amount(o, a) = 0 /\ Amount(o, a) \in Int /\ (Amount(o, a) # 0 => n \in OnAxis(l, a))
  BY NothingMoves
<1>6. ASSUME NEW i \in lo .. hi - 1 PROVE Reads(e, i, d, i, Amount(o, AxisOf(l, n)))
  <2>1. Reads(e, i, d, 1 * i + 0, 0)
    BY <1>1, <1>3 DEF OneReads
  <2>2. 1 * i + 0 = i
    OBVIOUS
  <2>3. QED
    BY <1>5, <2>1, <2>2
<1>7. Both(l, r) /\ ButOne(l, r, n) /\ SameMarks(e, d) /\ OfTypes(e) /\ o.op \in InPlace
  BY <1>1, <1>3 DEF OneReads, InPlace
<1>8. StaysOne(o, l, r, n)
  BY <1>1, <1>3, <1>4, <1>5, <1>6, <1>7 DEF StaysOne
<1>9. QED
  BY <1>1, <1>8, StaysGlues

\* A quotient and a remainder are those of the division.
LEMMA DivUnique ==
  ASSUME NEW f \in Nat \ {0}, NEW a \in Int, NEW q \in Int, NEW m \in Int, 0 <= m, m < f, a = f * q + m
  PROVE  a \div f = q /\ a % f = m
<1>1. PICK z, w : z = a \div f /\ w = a % f
  OBVIOUS
<1>2. z \in Int /\ w \in Int /\ 0 <= w /\ w < f /\ a = f * z + w
  BY <1>1, DivIs, ModIs
<1>3. f * q \in Int /\ f * z \in Int /\ f * (q + 1) = f * q + f /\ f * (z + 1) = f * z + f
  BY <1>2
<1>4. ~(q < z)
  <2>1. ASSUME q < z PROVE FALSE
    <3>1. f * (q + 1) <= f * z
      BY <1>2, <2>1, TimesMono
    <3>2. QED
      BY <1>2, <1>3, <3>1
  <2>2. QED
    BY <2>1
<1>5. ~(z < q)
  <2>1. ASSUME z < q PROVE FALSE
    <3>1. f * (z + 1) <= f * q
      BY <1>2, <2>1, TimesMono
    <3>2. QED
      BY <1>2, <1>3, <3>1
  <2>2. QED
    BY <2>1
<1>6. z = q
  BY <1>2, <1>4, <1>5
<1>7. w = m
  BY <1>2, <1>3, <1>6
<1>8. QED
  BY <1>1, <1>6, <1>7

-----------------------------------------------------------------------------
(* A SUBSCRIPT BY A SLICE                                                   *)

\* Where the places of a slice of a step end: one after the last that it visits.
StrideEnds(lo, hi, step, k, x) ==
  /\ lo \in Int /\ hi \in Int /\ lo <= hi /\ step \in Nat \ {0}
  /\ k = (hi - lo + step - 1) \div step /\ x = IF k = 0 THEN lo ELSE lo + (k - 1) * step + 1
\* The places of the slice, in units of its step.
InStride(lo, hi, step, q) == \E i \in lo .. hi - 1 : (i - lo) % step = 0 /\ q = i \div step

\* A stride visits the coordinates of the slice that have the remainder of its first.
LEMMA StridePlaces ==
  ASSUME NEW lo, NEW hi, NEW step, NEW k, NEW x, StrideEnds(lo, hi, step, k, x), NEW q \in Int
  PROVE  /\ k \in Nat /\ x \in Int
         /\ InStride(lo, hi, step, q) <=> step * q + (lo % step) \in lo .. x - 1
<1>1. /\ lo \in Int /\ hi \in Int /\ lo <= hi /\ step \in Nat \ {0} /\ step \in Int
      /\ k = (hi - lo + step - 1) \div step /\ x = IF k = 0 THEN lo ELSE lo + (k - 1) * step + 1
  BY DEF StrideEnds
<1>2. PICK y : y = hi - lo + step - 1
  OBVIOUS
<1>3. y \in Int /\ y >= 0
  BY <1>1, <1>2
<1>4. k \in Int /\ step * k <= y /\ y < step * k + step /\ k = y \div step
  BY <1>1, <1>2, <1>3, DivIs
<1>5. PICK sk : sk = step * k
  OBVIOUS
<1>6. sk \in Int /\ sk <= y /\ y < sk + step
  BY <1>1, <1>4, <1>5, IntTimes
<1>7. k \in Nat
  <2>1. ASSUME k < 0 PROVE FALSE
    <3>1. step * k <= step * (-1)
      BY <1>1, <1>4, <2>1, TimesMono
    <3>2. step * (-1) = -step
      BY <1>1
    <3>3. QED
      BY <1>1, <1>3, <1>5, <1>6, <3>1, <3>2
  <2>2. QED
    BY <1>4, <2>1
<1>8. (k - 1) * step = sk - step
  BY <1>1, <1>4, <1>5
<1>9. x = IF k = 0 THEN lo ELSE lo + (sk - step) + 1
  BY <1>1, <1>8
<1>10. x \in Int
  BY <1>1, <1>6, <1>9
<1>11. PICK b, p : b = lo \div step /\ p = lo % step
  OBVIOUS
<1>12. PICK sb : sb = step * b
  OBVIOUS
<1>13. b \in Int /\ p \in Int /\ 0 <= p /\ p < step /\ sb \in Int /\ lo = sb + p
  BY <1>1, <1>11, <1>12, DivIs, ModIs, IntTimes
<1>14. k = 0 => hi = lo
  BY <1>1, <1>2, <1>5, <1>6
<1>15. k # 0 => sk - step <= hi - lo - 1
  BY <1>1, <1>2, <1>6
<1>16. ASSUME InStride(lo, hi, step, q) PROVE step * q + p \in lo .. x - 1
  <2>1. PICK i \in lo .. hi - 1 : (i - lo) % step = 0 /\ q = i \div step
    BY <1>16 DEF InStride
  <2>2. PICK t, j : t = i - lo /\ j = t \div step
    OBVIOUS
  <2>3. i \in Int /\ t \in Int /\ 0 <= t /\ t <= hi - lo - 1 /\ t % step = 0
    BY <1>1, <2>1, <2>2
  <2>4. PICK sj : sj = step * j
    OBVIOUS
  <2>5. j \in Int /\ sj \in Int /\ t = sj
    <3>1. j \in Int /\ t = step * j + (t % step)
      BY <1>1, <2>2, <2>3, DivIs, ModIs
    <3>2. step * j \in Int
      BY <1>1, <3>1, IntTimes
    <3>3. QED
      BY <2>3, <2>4, <3>1, <3>2
  <2>6. j < k
    <3>1. ASSUME k <= j PROVE FALSE
      <4>1. sk <= sj
        BY <1>1, <1>4, <1>5, <2>4, <2>5, <3>1, TimesMono
      <4>2. QED
        BY <1>1, <1>2, <1>6, <2>3, <2>5, <4>1
    <3>2. QED
      BY <1>4, <2>5, <3>1
  <2>7. sj <= sk - step
    <3>1. step * j <= step * (k - 1)
      BY <1>1, <1>4, <2>5, <2>6, TimesMono
    <3>2. step * (k - 1) = (k - 1) * step
      BY <1>1, <1>4
    <3>3. QED
      BY <1>8, <2>4, <3>1, <3>2
  <2>8. q = b + j
    <3>1. step * (b + j) = sb + sj
      BY <1>1, <1>12, <1>13, <2>4, <2>5
    <3>2. i = step * (b + j) + p
      BY <1>1, <1>13, <2>2, <2>3, <2>5, <3>1
    <3>3. b + j \in Int
      BY <1>13, <2>5
    <3>4. QED
      BY <1>1, <1>13, <2>1, <2>3, <3>2, <3>3, DivUnique
  <2>9. step * q = sb + sj
    BY <1>1, <1>12, <1>13, <2>4, <2>5, <2>8
  <2>10. k # 0
    BY <1>1, <1>14, <2>1
  <2>11. QED
    BY <1>1, <1>6, <1>9, <1>10, <1>13, <2>2, <2>3, <2>5, <2>7, <2>9, <2>10
<1>17. ASSUME step * q + p \in lo .. x - 1 PROVE InStride(lo, hi, step, q)
  <2>1. PICK sq, i : sq = step * q /\ i = sq + p
    OBVIOUS
  <2>2. sq \in Int /\ i \in Int /\ lo <= i /\ i <= x - 1
    BY <1>1, <1>10, <1>13, <1>17, <2>1, IntTimes
  <2>3. k # 0
    BY <1>1, <1>9, <2>2
  <2>4. i <= hi - 1
    BY <1>1, <1>6, <1>9, <1>15, <2>2, <2>3
  <2>5. i \div step = q
    BY <1>1, <1>13, <2>1, <2>2, DivUnique
  <2>6. (i - lo) % step = 0
    <3>1. PICK t, j : t = i - lo /\ j = q - b
      OBVIOUS
    <3>2. t \in Int /\ j \in Int
      BY <1>1, <1>13, <2>2, <3>1
    <3>3. step * j = sq - sb
      BY <1>1, <1>12, <1>13, <2>1, <3>1
    <3>4. t = step * j + 0
      BY <1>13, <2>1, <2>2, <3>1, <3>3
    <3>5. t % step = 0
      <4>1. PICK m : m = 0
        OBVIOUS
      <4>2. m \in Int /\ 0 <= m /\ m < step /\ t = step * j + m
        BY <1>1, <3>2, <3>4, <4>1
      <4>3. QED
        BY <1>1, <3>2, <4>1, <4>2, DivUnique
    <3>6. QED
      BY <3>1, <3>5
  <2>7. i \in lo .. hi - 1
    BY <1>1, <2>2, <2>4
  <2>8. QED
    BY <2>5, <2>6, <2>7 DEF InStride
<1>18. QED
  BY <1>7, <1>10, <1>11, <1>16, <1>17

\* A coordinate of one dim reads another's, and that one a third's.
LEMMA ReadsThrough ==
  ASSUME NEW d, Clean(d), NEW e, NEW g, SameMarks(e, d), SameMarks(g, e), NEW i, NEW z \in Int,
         Reads(e, z, d, z, 0), Reads(g, i, e, z, 0)
  PROVE  SameMarks(g, d) /\ Reads(g, i, d, z, 0)
<1>1. SameMarks(g, d)
  BY DEF SameMarks
<1>2. g.chart # None => Phys(g.chart, i) = Phys(d.chart, z) + 0
  <2>1. ASSUME g.chart # None PROVE Phys(g.chart, i) = Phys(d.chart, z) + 0
    <3>1. e.chart # None /\ d.chart # None
      BY <2>1 DEF SameMarks
    <3>2. Phys(d.chart, z) \in Int
      BY <3>1, IntTimes DEF Clean, Phys
    <3>3. Phys(e.chart, z) = Phys(d.chart, z) + 0 /\ Phys(g.chart, i) = Phys(e.chart, z) + 0
      BY <2>1, <3>1 DEF Reads
    <3>4. QED
      BY <3>2, <3>3
  <2>2. QED
    BY <2>1
<1>3. g.labels # None => LabelAt(g, i) = LabelAt(d, z)
  BY DEF SameMarks, Reads
<1>4. QED
  BY <1>1, <1>2, <1>3 DEF Reads

\* A subscript by a slice, on layouts.
StridedOne(l, n, lo, x, step) ==
  IF lo = x \/ step = 1 THEN Slice(l, n, lo, x) ELSE Decimate(Slice(l, n, lo, x), n, step, lo % step)

\* It reads at each place what that many steps from the first did.
LEMMA StrideReads ==
  ASSUME NEW l, IsLayout(l), NEW n \in Names(l), Clean(l.dims[n]), NEW lo \in Int, NEW x \in Int, CanSlice(l, n, lo, x),
         NEW step \in Nat \ {0}, NEW r, r = StridedOne(l, n, lo, x, step)
  PROVE  /\ OneReads(l, r, n, step, lo % step)
         /\ \A q \in Int : q \in r.dims[n].start .. r.dims[n].stop - 1 <=> step * q + (lo % step) \in lo .. x - 1
<1>1. PICK s, d, p : s = Slice(l, n, lo, x) /\ d = l.dims[n] /\ p = lo % step
  OBVIOUS
<1>2. PICK e, g : e = s.dims[n] /\ g = r.dims[n]
  OBVIOUS
<1>3. OneReads(l, s, n, 1, 0) /\ e.start = lo /\ e.stop = x /\ Clean(e) /\ IsLayout(s)
  <2>1. OneReads(l, s, n, 1, 0) /\ e.start = lo /\ e.stop = x /\ Clean(e)
    BY <1>1, <1>2, SliceReads
  <2>2. IsLayout(s)
    BY <1>1, SliceStays, SameMapStays
  <2>3. QED
    BY <2>1, <2>2
<1>4. ButOne(l, s, n) /\ SameMarks(e, d) /\ OfTypes(e)
  BY <1>1, <1>2, <1>3 DEF OneReads
<1>5. \A i \in lo .. x - 1 : i \in d.start .. d.stop - 1 /\ Reads(e, i, d, i, 0)
  <2>1. ASSUME NEW i \in lo .. x - 1 PROVE i \in d.start .. d.stop - 1 /\ Reads(e, i, d, i, 0)
    <3>1. 1 * i + 0 \in d.start .. d.stop - 1 /\ Reads(e, i, d, 1 * i + 0, 0)
      BY <1>1, <1>2, <1>3 DEF OneReads
    <3>2. 1 * i + 0 = i
      OBVIOUS
    <3>3. QED
      BY <3>1, <3>2
  <2>2. QED
    BY <2>1
<1>6. p \in Int /\ 0 <= p /\ p < step
  BY <1>1, ModIs
<1>7. CASE lo = x
  <2>1. r = s /\ g = e
    BY <1>1, <1>2, <1>7 DEF StridedOne
  <2>2. lo .. x - 1 = {}
    BY <1>7
  <2>3. \A q \in Int : q \in g.start .. g.stop - 1 <=> step * q + p \in lo .. x - 1
    BY <1>3, <2>1, <2>2
  <2>4. OneReads(l, r, n, step, p)
    <3>1. r.dims[n].start = lo /\ r.dims[n].stop = x /\ SameMarks(r.dims[n], l.dims[n]) /\ OfTypes(r.dims[n]) /\ ButOne(l, r, n)
      BY <1>1, <1>2, <1>3, <1>4, <2>1
    <3>2. \A i \in r.dims[n].start .. r.dims[n].stop - 1 : FALSE
      BY <2>2, <3>1
    <3>3. QED
      BY <3>1, <3>2 DEF OneReads
  <2>5. QED
    BY <1>1, <1>2, <2>3, <2>4
<1>8. CASE lo # x /\ step = 1
  <2>1. r = s /\ g = e
    BY <1>1, <1>2, <1>8 DEF StridedOne
  <2>2. p = 0
    BY <1>6, <1>8
  <2>3. OneReads(l, r, n, step, p)
    BY <1>3, <1>8, <2>1, <2>2
  <2>4. \A q \in Int : q \in g.start .. g.stop - 1 <=> step * q + p \in lo .. x - 1
    BY <1>3, <1>8, <2>1, <2>2
  <2>5. QED
    BY <1>1, <1>2, <2>3, <2>4
<1>9. CASE lo # x /\ step # 1
  <2>1. r = Decimate(s, n, step, p)
    BY <1>1, <1>9 DEF StridedOne
  <2>2. p = p % step
    <3>1. PICK q : q = 0
      OBVIOUS
    <3>2. q \in Int /\ p = step * q + p
      BY <1>6, <3>1
    <3>3. QED
      BY <1>6, <3>2, DivUnique
  <2>3. n \in Names(s)
    BY <1>4 DEF ButOne
  <2>4. OneReads(s, r, n, step, p) /\ KeptBetween(e, step, p, g.start, g.stop)
    BY <1>2, <1>3, <1>6, <2>1, <2>2, <2>3, DecimateReads
  <2>5. /\ g.start \in Int /\ g.stop \in Int
        /\ \A i \in Int : i \in g.start .. g.stop - 1 <=> step * i + p \in lo .. x - 1
    <3>1. e.start \in Int /\ e.stop \in Int
      BY <1>3
    <3>2. /\ g.start \in Int /\ g.stop \in Int
          /\ \A i \in Int : i \in g.start .. g.stop - 1 <=> step * i + p \in e.start .. e.stop - 1
      BY <1>6, <2>4, <3>1, KeptAre
    <3>3. QED
      BY <1>3, <3>2
  <2>6. ASSUME NEW i \in g.start .. g.stop - 1
        PROVE  step * i + p \in d.start .. d.stop - 1 /\ Reads(g, i, d, step * i + p, 0) /\ SameMarks(g, d)
    <3>1. PICK z : z = step * i + p
      OBVIOUS
    <3>2. i \in Int
      BY <2>5
    <3>3. z \in lo .. x - 1
      BY <2>5, <3>1, <3>2
    <3>4. z \in Int /\ z \in d.start .. d.stop - 1 /\ Reads(e, z, d, z, 0)
      BY <1>5, <3>3
    <3>5. Reads(g, i, e, z, 0) /\ SameMarks(g, e)
      BY <1>2, <2>4, <3>1 DEF OneReads
    <3>6. Reads(g, i, d, z, 0) /\ SameMarks(g, d)
      BY <1>1, <1>4, <3>4, <3>5, ReadsThrough
    <3>7. QED
      BY <3>1, <3>4, <3>6
  <2>7. SameMarks(g, d) /\ OfTypes(g)
    <3>1. SameMarks(g, e) /\ OfTypes(g)
      BY <1>2, <2>4 DEF OneReads
    <3>2. QED
      BY <1>4, <3>1 DEF SameMarks
  <2>8. ButOne(l, r, n)
    <3>1. ButOne(s, r, n)
      BY <2>4 DEF OneReads
    <3>2. QED
      BY <1>4, <3>1 DEF ButOne
  <2>9. OneReads(l, r, n, step, p)
    <3>1. g.start \in Int /\ g.stop \in Int
      BY <2>5
    <3>2. QED
      BY <1>1, <1>2, <2>6, <2>7, <2>8, <3>1 DEF OneReads
  <2>10. QED
    BY <1>1, <1>2, <2>5, <2>9
<1>10. QED
  BY <1>7, <1>8, <1>9

\* A subscript by a slice (tensor.py): labels and positions stay with the data.
LEMMA StrideGlues ==
  ASSUME NEW l, NEW n \in Names(l), NEW lo, NEW hi, NEW step, NEW k, NEW x, StrideEnds(lo, hi, step, k, x),
         CanSlice(l, n, lo, x), NEW r, r = StridedOne(l, n, lo, x, step), Both(l, r),
         NEW o, o = [op |-> "subscript", dim |-> n, lo |-> lo, hi |-> hi, step |-> step]
  PROVE  Tells(o, l, r)
<1>1. PICK d, e, p : d = l.dims[n] /\ e = r.dims[n] /\ p = lo % step
  OBVIOUS
<1>2. lo \in Int /\ hi \in Int /\ step \in Nat \ {0} /\ step # 0 /\ x \in Int
  <2>1. lo \in Int /\ hi \in Int /\ step \in Nat \ {0} /\ step # 0
    BY DEF StrideEnds
  <2>2. PICK q : q = 0
    OBVIOUS
  <2>3. x \in Int
    BY <2>2, StridePlaces
  <2>4. QED
    BY <2>1, <2>3
<1>3. Clean(d) /\ IsLayout(l)
  BY <1>1, LabelsAre DEF Clean, Both
<1>4. /\ OneReads(l, r, n, step, p)
      /\ \A q \in Int : q \in e.start .. e.stop - 1 <=> step * q + p \in lo .. x - 1
  BY <1>1, <1>2, <1>3, StrideReads
<1>5. e.start \in Int /\ e.stop \in Int
  BY <1>1, <1>4 DEF OneReads
<1>6. P!NewBox(o, BoxAt(l)) = P!Override(P!Single(n, e.start .. e.stop - 1), BoxAt(l))
  <2>1. PICK S : S = {i \div step : i \in {i \in lo .. hi - 1 : (i - lo) % step = 0}}
    OBVIOUS
  <2>2. \A q : q \in S <=> InStride(lo, hi, step, q)
    BY <2>1 DEF InStride
  <2>3. \A q \in S : q \in Int
    <3>1. \A i \in lo .. hi - 1 : i \div step \in Int
      BY <1>2, DivIs
    <3>2. QED
      BY <2>2, <3>1 DEF InStride
  <2>4. \A q \in Int : q \in S <=> q \in e.start .. e.stop - 1
    <3>1. \A q \in Int : InStride(lo, hi, step, q) <=> step * q + p \in lo .. x - 1
      BY <1>1, StridePlaces
    <3>2. QED
      BY <1>4, <2>2, <3>1
  <2>5. S = e.start .. e.stop - 1
    <3>1. PICK T : T = e.start .. e.stop - 1
      OBVIOUS
    <3>2. \A q \in T : q \in Int
      BY <1>5, <3>1
    <3>3. \A q : q \in S <=> q \in T
      BY <2>3, <2>4, <3>1, <3>2
    <3>4. S = T
      BY <3>3
    <3>5. QED
      BY <3>1, <3>4
  <2>6. P!NewBox(o, BoxAt(l)) = P!Override(P!Single(n, S), BoxAt(l))
    <3>1. P!NewBox(o, BoxAt(l)) = P!Override(P!Single(n, {i \div step : i \in {i \in lo .. hi - 1 : (i - lo) % step = 0}}), BoxAt(l))
      BY <1>2 DEF P!NewBox
    <3>2. QED
      BY <2>1, <3>1, Zenon
  <2>7. QED
    BY <2>5, <2>6
<1>7. ASSUME NEW c \in Domain(r), NEW i \in e.start .. e.stop - 1, c[n] = i
      PROVE  \E z : /\ P!Back(o, BoxAt(l), c) = P!Override(P!Single(n, z), c)
                    /\ z \in l.dims[n].start .. l.dims[n].stop - 1 => Reads(e, i, l.dims[n], z, 0)
  <2>1. P!Back(o, BoxAt(l), c) = P!Override(P!Single(n, step * i + p), c)
    BY <1>1, <1>2, <1>7 DEF P!Back
  <2>2. Reads(e, i, l.dims[n], step * i + p, 0)
    BY <1>1, <1>4 DEF OneReads
  <2>3. QED
    BY <2>1, <2>2
<1>8. /\ SameMarks(e, l.dims[n]) /\ Both(l, r) /\ ButOne(l, r, n) /\ OfTypes(e)
      /\ o.op \notin {"rename", "diagonal", "recenter"}
  BY <1>1, <1>4 DEF OneReads
<1>9. PutsOne(o, l, r, n, e)
  BY <1>1, <1>5, <1>6, <1>7, <1>8 DEF PutsOne
<1>10. QED
  BY <1>9, PutsGlues

-----------------------------------------------------------------------------
(* RELABELLINGS                                                             *)

\* The dims S of l are not on the axis.
LEMMA PartNone ==
  ASSUME NEW l, NEW a, NEW c, NEW S, OnAxis(l, a) \cap S = {}
  PROVE  PartAt(l, a, c, S) = 0
<1>1. OnAmong(l, a, S) = {}
  BY DEF OnAmong
<1>2. PICK f : f = [m \in {} |-> Phys(l.dims[m].chart, c[m])]
  OBVIOUS
<1>3. f \in [{} -> Int]
  BY <1>2
<1>4. SumFunction(f) = 0
  BY <1>3, SumEmpty
<1>5. QED
  BY <1>1, <1>2, <1>4 DEF PartAt

\* A program that labels some axes itself leaves the others as they were.
Labels(o, l, r, G, N) ==
  /\ o.op \in P!Relabels /\ Swaps(l, r, G, N) /\ IsTyped(r) /\ BoxAt(r) = P!NewBox(o, BoxAt(l))
  /\ \A a \in Known(l) \cap Known(r) : a \notin o.axes => OnAxis(l, a) \cap G = {} /\ OnAxis(r, a) \cap N = {}
  /\ \A c \in Domain(r) : LET p == P!Back(o, BoxAt(l), c)
                          IN  p = [n \in Names(l) |-> p[n]] /\ \A m \in Names(l) \ G : p[m] = c[m]

\* An operation that moves no point and changes charts or labels only keeps the others.
LEMMA LabelsGlues ==
  ASSUME NEW o, NEW l, NEW r, NEW G, NEW N, Labels(o, l, r, G, N)
  PROVE  Tells(o, l, r)
<1>1. /\ o.op \in {"with_charts", "with_labels", "strip_charts", "repeat"} /\ Swaps(l, r, G, N) /\ IsTyped(r)
      /\ BoxAt(r) = P!NewBox(o, BoxAt(l)) /\ IsLayout(l) /\ IsLayout(r)
  BY DEF Labels, Swaps, P!Relabels
<1>2. o.op \notin P!Keeps
  BY <1>1 DEF P!Keeps
<1>3. ASSUME NEW c \in Domain(r), NEW p, p = P!Back(o, BoxAt(l), c) PROVE Sticks(o, l, r, c, p)
  <2>1. p = [n \in Names(l) |-> p[n]] /\ \A m \in Names(l) \ G : p[m] = c[m]
    BY <1>3 DEF Labels
  <2>2. KeepsLabels(o, l, r, c, p)
    BY DEF KeepsLabels, Labels
  <2>3. ASSUME InRange(l, p) PROVE Placed(o, l, r, c, p)
    <3>1. IsPoint(l, p) /\ IsPoint(r, c)
      BY <1>1, <2>3, InRangeIsPoint, InDomain
    <3>2. ASSUME NEW a \in Known(l) \cap Known(r), a \notin o.axes
          PROVE  PositionAt(r, a, c) = PositionAt(l, a, p) + Amount(o, a)
      <4>1. OnAxis(l, a) \cap G = {} /\ OnAxis(r, a) \cap N = {}
        BY <3>2 DEF Labels
      <4>2. PartAt(l, a, p, G) = 0 /\ PartAt(r, a, c, N) = 0
        BY <4>1, PartNone
      <4>3. Amount(o, a) = 0
        BY <1>1 DEF Amount
      <4>4. PartAt(r, a, c, N) = PartAt(l, a, p, G) + Amount(o, a) /\ Amount(o, a) \in Int
        BY <4>2, <4>3
      <4>5. QED
        BY <1>1, <2>1, <3>1, <4>4, SwapPlaces
    <3>3. P!Relabelled(o) = o.axes
      BY <1>1 DEF P!Relabelled, P!Relabels
    <3>4. QED
      BY <3>2, <3>3 DEF Placed
  <2>4. QED
    BY <2>1, <2>2, <2>3 DEF Sticks
<1>4. QED
  BY <1>1, <1>2, <1>3 DEF Glues, Tells

\* The new labels of one dim.
LEMMA OneLabelled ==
  ASSUME NEW o, o.op \in {"with_charts", "with_labels"}, NEW l, NEW r, Both(l, r), NEW n \in Names(l), NEW e, OfTypes(e),
         e.start = l.dims[n].start, e.stop = l.dims[n].stop, ButOne(l, r, n), r.dims[n] = e,
         n \in Charted(l) => AxisOf(l, n) \in o.axes, n \in Charted(r) => AxisOf(r, n) \in o.axes
  PROVE  Tells(o, l, r)
<1>1. Names(r) = Names(l) /\ \A m \in Names(l) \ {n} : r.dims[m] = l.dims[m]
  BY DEF ButOne
<1>2. Swaps(l, r, {n}, {n})
  BY <1>1 DEF Swaps, Both
<1>3. IsTyped(r)
  BY TypedOne DEF Both
<1>4. BoxAt(r) = P!NewBox(o, BoxAt(l))
  <2>1. BoxAt(r) = BoxAt(l)
    BY OneBox
  <2>2. QED
    BY <2>1 DEF P!NewBox
<1>5. ASSUME NEW a, a \notin o.axes PROVE OnAxis(l, a) \cap {n} = {} /\ OnAxis(r, a) \cap {n} = {}
  BY <1>5 DEF OnAxis
<1>6. ASSUME NEW c \in Domain(r), NEW p, p = P!Back(o, BoxAt(l), c)
      PROVE  p = [m \in Names(l) |-> p[m]] /\ \A m \in Names(l) \ {n} : p[m] = c[m]
  <2>1. p = c
    BY <1>6 DEF P!Back
  <2>2. c = [m \in Names(l) |-> c[m]]
    <3>1. c \in Grid(r.dims, Names(r))
      BY DomainIs DEF Both
    <3>2. QED
      BY <1>1, <3>1 DEF Grid
  <2>3. QED
    BY <2>1, <2>2
<1>7. Labels(o, l, r, {n}, {n})
  <2>1. o.op \in P!Relabels
    BY DEF P!Relabels
  <2>2. QED
    BY <1>2, <1>3, <1>4, <1>5, <1>6, <2>1 DEF Labels
<1>8. QED
  BY <1>7, LabelsGlues

\* with_charts (layout.py): the axes the program charts anew are its own to label.
LEMMA ChartGlues ==
  ASSUME NEW l, NEW n \in Names(l), NEW chart, chart \in {None} \cup AllCharts, NEW r, r = WithChart(l, n, chart), Both(l, r),
         NEW o, o.op = "with_charts", n \in Charted(l) => AxisOf(l, n) \in o.axes, n \in Charted(r) => AxisOf(r, n) \in o.axes
  PROVE  Tells(o, l, r)
<1>1. PICK d, named : d = l.dims[n] /\ named = IF chart # None /\ chart.axis = None THEN [chart EXCEPT !.axis = n] ELSE chart
  OBVIOUS
<1>2. PICK e : e = [d EXCEPT !.labels = None, !.chart = named]
  OBVIOUS
<1>3. IsDim(d) /\ IsLayout(l) /\ n \in STRING
  BY <1>1 DEF Both, IsLayout, IsTyped
<1>4. e.start = d.start /\ e.stop = d.stop /\ e.labels = None /\ e.chart = named /\ IsDim(e)
  BY <1>2, <1>3 DEF IsDim, Fields
<1>5. named \in {None} \cup AllCharts
  <2>1. CASE chart # None /\ chart.axis = None
    <3>1. chart \in AllCharts /\ named = [chart EXCEPT !.axis = n]
      BY <1>1, <2>1
    <3>2. QED
      BY <1>3, <3>1 DEF AllCharts
  <2>2. CASE ~(chart # None /\ chart.axis = None)
    BY <1>1, <2>2
  <2>3. QED
    BY <2>1, <2>2
<1>6. OfTypes(e)
  BY <1>4, <1>5 DEF OfTypes
<1>7. r.dims[n] = e /\ ButOne(l, r, n)
  <2>1. r = SetDim(l, n, e)
    BY <1>1, <1>2 DEF WithChart
  <2>2. QED
    BY <1>3, <1>4, <2>1, SetDimIs DEF ButOne
<1>8. (n \in Charted(l) => AxisOf(l, n) \in o.axes) /\ (n \in Charted(r) => AxisOf(r, n) \in o.axes)
  OBVIOUS
<1>9. o.op \in {"with_charts", "with_labels"}
  OBVIOUS
<1>10. QED
  BY <1>1, <1>4, <1>6, <1>7, <1>8, <1>9, OneLabelled

\* with_labels (layout.py)
LEMMA LabelGlues ==
  ASSUME NEW l, NEW n \in Names(l), NEW labels \in Seq(STRING), NEW r, r = WithLabels(l, n, labels), Both(l, r),
         NEW o, o.op = "with_labels", n \in Charted(l) => AxisOf(l, n) \in o.axes
  PROVE  Tells(o, l, r)
<1>1. PICK d, e : d = l.dims[n] /\ e = [d EXCEPT !.labels = labels, !.chart = None]
  OBVIOUS
<1>2. IsDim(d) /\ IsLayout(l)
  BY <1>1 DEF Both, IsLayout
<1>3. e.start = d.start /\ e.stop = d.stop /\ e.labels = labels /\ e.chart = None /\ IsDim(e)
  BY <1>1, <1>2 DEF IsDim, Fields
<1>4. OfTypes(e)
  BY <1>3 DEF OfTypes
<1>5. r.dims[n] = e /\ ButOne(l, r, n)
  <2>1. r = SetDim(l, n, e)
    BY <1>1 DEF WithLabels
  <2>2. QED
    BY <1>2, <1>3, <2>1, SetDimIs DEF ButOne
<1>6. (n \in Charted(l) => AxisOf(l, n) \in o.axes) /\ (n \in Charted(r) => AxisOf(r, n) \in o.axes)
  BY <1>3, <1>5 DEF Charted
<1>7. o.op \in {"with_charts", "with_labels"}
  OBVIOUS
<1>8. e.start = l.dims[n].start /\ e.stop = l.dims[n].stop
  BY <1>1, <1>3
<1>9. QED
  BY <1>4, <1>5, <1>6, <1>7, <1>8, OneLabelled

\* strip_charts (layout.py): no position is known after it.
LEMMA StripGlues ==
  ASSUME NEW l, NEW r, r = StripCharts(l), Both(l, r), NEW o, o = [op |-> "strip_charts", axes |-> Axes(l)]
  PROVE  Tells(o, l, r)
<1>1. IsLayout(l) /\ IsLayout(r) /\ IsTyped(l)
  BY DEF Both
<1>2. r.dims = [n \in DOMAIN l.dims |-> [l.dims[n] EXCEPT !.chart = None, !.labels = None]]
  BY <1>1 DEF StripCharts, IsLayout
<1>3. /\ Names(r) = Names(l)
      /\ \A n \in Names(l) : /\ r.dims[n].start = l.dims[n].start /\ r.dims[n].stop = l.dims[n].stop
                             /\ r.dims[n].chart = None /\ r.dims[n].labels = None
  <2>1. Names(r) = Names(l)
    BY <1>2 DEF Names
  <2>2. ASSUME NEW n \in Names(l)
        PROVE  /\ r.dims[n].start = l.dims[n].start /\ r.dims[n].stop = l.dims[n].stop
               /\ r.dims[n].chart = None /\ r.dims[n].labels = None
    <3>1. IsDim(l.dims[n]) /\ r.dims[n] = [l.dims[n] EXCEPT !.chart = None, !.labels = None]
      BY <1>1, <1>2 DEF IsLayout, Names
    <3>2. QED
      BY <3>1 DEF IsDim, Fields
  <2>3. QED
    BY <2>1, <2>2
<1>4. IsTyped(r)
  BY <1>1, <1>3 DEF IsTyped
<1>5. Swaps(l, r, Names(l), Names(l))
  BY <1>3 DEF Swaps, Both
<1>6. Known(r) = {}
  BY <1>3 DEF Known, Axes, Charted
<1>7. BoxAt(r) = P!NewBox(o, BoxAt(l))
  <2>1. BoxAt(r) = BoxAt(l)
    BY <1>3 DEF BoxAt
  <2>2. QED
    BY <2>1 DEF P!NewBox
<1>8. ASSUME NEW c \in Domain(r), NEW p, p = P!Back(o, BoxAt(l), c)
      PROVE  p = [m \in Names(l) |-> p[m]]
  <2>1. p = c
    BY <1>8 DEF P!Back
  <2>2. c = [m \in Names(l) |-> c[m]]
    <3>1. c \in Grid(r.dims, Names(r))
      BY <1>1, DomainIs
    <3>2. QED
      BY <1>3, <3>1 DEF Grid
  <2>3. QED
    BY <2>1, <2>2
<1>9. o.op \in P!Relabels
  BY DEF P!Relabels
<1>10. Labels(o, l, r, Names(l), Names(l))
  BY <1>4, <1>5, <1>6, <1>7, <1>8, <1>9 DEF Labels
<1>11. QED
  BY <1>10, LabelsGlues

\* repeat (layout.py): the new dim is on an axis the program labels.
LEMMA RepeatGlues ==
  ASSUME NEW l, NEW n \in STRING, n \notin Names(l), NEW lo, NEW hi, NEW chart \in {None} \cup AllCharts,
         NEW labels \in {None} \cup Seq(STRING),
         NEW r, r = Repeat(l, n, lo, hi, chart, labels), Both(l, r),
         NEW o, o.op = "repeat", o.dim = n, o.lo = lo, o.hi = hi, chart # None => AxisOf(r, n) \in o.axes
  PROVE  Tells(o, l, r)
<1>1. IsLayout(l) /\ IsLayout(r) /\ IsTyped(l)
  BY DEF Both
<1>2. PICK d : d = Dim(0, lo, hi, chart, labels)
  OBVIOUS
<1>3. Names(r) = Names(l) \cup {n} /\ r.dims[n] = d /\ \A m \in Names(l) : r.dims[m] = l.dims[m]
  BY <1>2 DEF Repeat, Put, Override, Single, Drop, Names
<1>4. d.start = lo /\ d.stop = hi /\ d.chart = chart /\ d.labels = labels
  BY <1>2 DEF Dim
<1>5. IsTyped(r)
  BY <1>1, <1>3, <1>4 DEF IsTyped
<1>6. Swaps(l, r, {}, {n})
  BY <1>3 DEF Swaps, Both
<1>7. BoxAt(r) = P!NewBox(o, BoxAt(l))
  <2>1. BoxAt(r) = P!Override(P!Single(n, lo .. hi - 1), BoxAt(l))
    BY <1>3, <1>4 DEF BoxAt, P!Override, P!Single
  <2>2. QED
    BY <2>1 DEF P!NewBox
<1>8. ASSUME NEW c \in Domain(r), NEW p, p = P!Back(o, BoxAt(l), c)
      PROVE  p = [m \in Names(l) |-> p[m]] /\ \A m \in Names(l) \ {} : p[m] = c[m]
  <2>1. p = P!Without(c, {n})
    BY <1>8 DEF P!Back
  <2>2. DOMAIN c = Names(r)
    BY <1>1, InDomain
  <2>3. DOMAIN c \ {n} = Names(l)
    BY <1>3, <2>2
  <2>4. QED
    BY <2>1, <2>3 DEF P!Without
<1>9. ASSUME NEW a, a \notin o.axes PROVE OnAxis(l, a) \cap {} = {} /\ OnAxis(r, a) \cap {n} = {}
  BY <1>3, <1>4, <1>9 DEF OnAxis, Charted
<1>10. o.op \in P!Relabels
  BY DEF P!Relabels
<1>11. Labels(o, l, r, {}, {n})
  BY <1>5, <1>6, <1>7, <1>8, <1>9, <1>10 DEF Labels
<1>12. QED
  BY <1>11, LabelsGlues

-----------------------------------------------------------------------------
(* SOME DIMS IN THE PLACE OF OTHERS                                         *)

\* The part of one dim, and of two, which add theirs.
PartOf(l, a, c, n) == IF n \in OnAxis(l, a) THEN Phys(l.dims[n].chart, c[n]) ELSE 0

\* The part of a position that two dims have is the sum of theirs.
LEMMA PartTwo ==
  ASSUME NEW l, IsLayout(l), IsCharted(l), NEW a, NEW c, IsPoint(l, c),
         NEW G, NEW x \in G, NEW y \in G, x # y, \A q \in G : q = x \/ q = y
  PROVE  /\ PartAt(l, a, c, G) = PartOf(l, a, c, x) + PartOf(l, a, c, y)
         /\ PartOf(l, a, c, x) \in Int /\ PartOf(l, a, c, y) \in Int
<1>1. PICK f, A, B : f = PhysAt(l, a, c) /\ A = OnAmong(l, a, {x}) /\ B = OnAmong(l, a, G)
  OBVIOUS
<1>2. /\ f \in [OnAxis(l, a) -> Int] /\ IsFiniteSet(OnAxis(l, a))
      /\ A \in SUBSET OnAxis(l, a) /\ PartAt(l, a, c, {x}) = SumFunction(Restrict(f, A))
      /\ B \in SUBSET OnAxis(l, a) /\ PartAt(l, a, c, G) = SumFunction(Restrict(f, B))
      /\ PartAt(l, a, c, {x}) \in Int /\ PartAt(l, a, c, {y}) \in Int
  BY <1>1, PlacesInt
<1>3. PartAt(l, a, c, {y}) = PartOf(l, a, c, y) /\ PartAt(l, a, c, {x}) = PartOf(l, a, c, x)
  BY PartOne DEF PartOf
<1>4. CASE y \in OnAxis(l, a)
  <2>1. B = A \cup {y} /\ y \notin A
    BY <1>1, <1>4 DEF OnAmong
  <2>2. f[y] = PartOf(l, a, c, y) /\ f[y] \in Int
    BY <1>1, <1>2, <1>4 DEF PhysAt, PartOf
  <2>3. SumFunction(Restrict(f, A \cup {y})) = f[y] + SumFunction(Restrict(f, A))
    BY <1>2, <1>4, <2>1, SumParts
  <2>4. PartAt(l, a, c, G) = PartOf(l, a, c, y) + PartAt(l, a, c, {x})
    BY <1>2, <2>1, <2>2, <2>3
  <2>5. QED
    BY <1>2, <1>3, <2>4
<1>5. CASE y \notin OnAxis(l, a)
  <2>1. B = A
    BY <1>1, <1>5 DEF OnAmong
  <2>2. PartOf(l, a, c, y) = 0
    BY <1>5 DEF PartOf
  <2>3. QED
    BY <1>2, <1>3, <2>1, <2>2
<1>6. QED
  BY <1>4, <1>5

\* The dims that come tell the positions that those that go did, and neither are labelled.
SwapOp(o, l, r, G, N) ==
  /\ Both(l, r) /\ Swaps(l, r, G, N) /\ IsTyped(r) /\ BoxAt(r) = P!NewBox(o, BoxAt(l))
  /\ o.op \notin P!Relabels \cup {"recenter", "rename"}
  /\ \A m \in Names(l) \ G : r.dims[m] = l.dims[m]
  /\ \A m \in G \cap N : l.dims[m].labels = None
  /\ \A m \in N : r.dims[m].labels = None
  /\ o.op \in P!Keeps => \A a \in Known(l) : Hands(l, r, G, N, a)
SwapPoint(o, l, r, G, N, c, p) ==
  /\ p = [m \in Names(l) |-> p[m]] /\ \A m \in Names(l) \ G : p[m] = c[m]
  /\ IsPoint(l, p) => \A a \in (Known(l) \cap Known(r)) \ Lost(o, l) : PartAt(r, a, c, N) = PartAt(l, a, p, G)

\* An operation that swaps some dims for others keeps positions and labels when the parts of the old and the new agree.
LEMMA SwapGlues ==
  ASSUME NEW o, NEW l, NEW r, NEW G, NEW N, SwapOp(o, l, r, G, N),
         \A c \in Domain(r) : SwapPoint(o, l, r, G, N, c, P!Back(o, BoxAt(l), c))
  PROVE  Tells(o, l, r)
<1>1. /\ Swaps(l, r, G, N) /\ IsTyped(r) /\ BoxAt(r) = P!NewBox(o, BoxAt(l)) /\ IsLayout(l) /\ IsLayout(r)
      /\ o.op \notin P!Relabels /\ o.op # "recenter" /\ o.op # "rename" /\ IsCharted(l) /\ IsCharted(r)
  BY DEF SwapOp, Both
<1>2. o.op \in P!Keeps => Known(l) \subseteq Known(r)
  <2>1. ASSUME o.op \in P!Keeps, NEW a \in Known(l) PROVE a \in Known(r)
    BY <1>1, <2>1, SwapKnown DEF SwapOp
  <2>2. QED
    BY <2>1
<1>3. ASSUME NEW c \in Domain(r), NEW p, p = P!Back(o, BoxAt(l), c) PROVE Sticks(o, l, r, c, p)
  <2>1. SwapPoint(o, l, r, G, N, c, p)
    BY <1>3
  <2>2. p = [n \in Names(l) |-> p[n]] /\ \A m \in Names(l) \ G : p[m] = c[m]
    BY <2>1 DEF SwapPoint
  <2>3. ASSUME InRange(l, p) PROVE Placed(o, l, r, c, p)
    <3>1. IsPoint(l, p) /\ IsPoint(r, c)
      BY <1>1, <2>3, InRangeIsPoint, InDomain
    <3>2. ASSUME NEW a \in (Known(l) \cap Known(r)) \ Lost(o, l)
          PROVE  PositionAt(r, a, c) = PositionAt(l, a, p) + Amount(o, a)
      <4>1. PartAt(r, a, c, N) = PartAt(l, a, p, G)
        BY <2>1, <3>1 DEF SwapPoint
      <4>2. Amount(o, a) = 0
        BY <1>1 DEF Amount
      <4>3. PartAt(l, a, p, G) \in Int
        BY <1>1, <3>1, PlacesInt
      <4>4. PartAt(r, a, c, N) = PartAt(l, a, p, G) + Amount(o, a) /\ Amount(o, a) \in Int
        BY <4>1, <4>2, <4>3
      <4>5. QED
        BY <1>1, <2>2, <3>1, <4>4, SwapPlaces
    <3>3. QED
      BY <3>2 DEF Placed
  <2>4. KeepsLabels(o, l, r, c, p)
    <3>1. ASSUME NEW n \in Names(r)
          PROVE  /\ n \in Labelled(r) <=> n \in Labelled(l)
                 /\ n \in Labelled(r) => LabelAt(r.dims[n], c[n]) = LabelAt(l.dims[n], p[n])
      <4>1. Names(r) \ N = Names(l) \ G
        BY <1>1 DEF Swaps
      <4>2. CASE n \in N
        BY <4>1, <4>2 DEF SwapOp, Labelled
      <4>3. CASE n \notin N
        <5>1. n \in Names(l) \ G
          BY <4>1, <4>3
        <5>2. r.dims[n] = l.dims[n] /\ p[n] = c[n]
          BY <2>2, <5>1 DEF SwapOp
        <5>3. QED
          BY <5>1, <5>2 DEF Labelled
      <4>4. QED
        BY <4>2, <4>3
    <3>2. \A n : P!Origin(o, n) = n
      BY <1>1 DEF P!Origin
    <3>3. QED
      BY <3>1, <3>2 DEF KeepsLabels
  <2>5. QED
    BY <2>2, <2>3, <2>4 DEF Sticks
<1>4. QED
  BY <1>1, <1>2, <1>3 DEF Glues, Tells

\* Where a dim alone is on an axis.
LEMMA OnAxisIs ==
  ASSUME NEW l, NEW n \in Names(l), NEW a
  PROVE  /\ n \in OnAxis(l, a) <=> l.dims[n].chart # None /\ AxisOf(l, n) = a
         /\ n \in Position(l, a) <=> l.dims[n].chart # None /\ AxisOf(l, n) = a /\ l.dims[n].chart.kind = "position"
BY DEF OnAxis, Position, Charted

\* An axis is a string.
LEMMA AxisIs ==
  ASSUME NEW l, IsTyped(l), NEW n \in Charted(l)
  PROVE  AxisOf(l, n) \in STRING /\ AxisOf(l, n) # None /\ n \in STRING
<1>1. n \in Names(l) /\ l.dims[n].chart # None
  BY DEF Charted
<1>2. n \in STRING /\ l.dims[n].chart \in AllCharts
  BY <1>1 DEF IsTyped
<1>3. l.dims[n].chart.axis \in {None} \cup STRING
  <2>1. PICK x : x = l.dims[n].chart
    OBVIOUS
  <2>2. x \in AllCharts
    BY <1>2, <2>1
  <2>3. x.axis \in {None} \cup STRING
    BY <2>2 DEF AllCharts
  <2>4. QED
    BY <2>1, <2>3
<1>4. QED
  BY <1>2, <1>3, NotNone DEF AxisOf

-----------------------------------------------------------------------------
(* WINDOWS AND STENCILS                                                     *)

\* r has the taps k of the dim n of l.
Tapped(l, r, n, k, lo, hi, dilation) ==
  /\ Both(l, r) /\ n \in Names(l) /\ k \in STRING /\ k \notin Names(l) /\ dilation \in Int
  /\ l.dims[n].labels = None /\ Names(r) = Names(l) \cup {k}
  /\ \A m \in Names(l) \ {n} : r.dims[m] = l.dims[m]
  /\ r.dims[n].chart = l.dims[n].chart /\ r.dims[n].labels = None
  /\ r.dims[k] = TapDim(l, n, lo, hi, dilation)

\* The chart of the taps is a displacement on the axis of their dim.
LEMMA TapMarks ==
  ASSUME NEW l, NEW r, NEW n, NEW k, NEW lo, NEW hi, NEW dilation, Tapped(l, r, n, k, lo, hi, dilation)
  PROVE  /\ OfTypes(r.dims[k]) /\ r.dims[k].labels = None /\ (r.dims[k].chart = None <=> l.dims[n].chart = None)
         /\ n \in Charted(l) =>
              /\ r.dims[k].chart.kind = "displacement" /\ AxisOf(r, k) = AxisOf(l, n)
              /\ r.dims[k].chart.origin = 0 /\ r.dims[k].chart.step = dilation * l.dims[n].chart.step
<1>1. PICK d, e, x : d = l.dims[n] /\ e = r.dims[k] /\ x = AxisOf(l, n)
  OBVIOUS
<1>2. /\ e.labels = None
      /\ e.chart = IF d.chart = None THEN None ELSE Chart(0, dilation * d.chart.step, "displacement", x)
  BY <1>1 DEF Tapped, TapDim, Dim
<1>3. CASE d.chart = None
  BY <1>1, <1>2, <1>3 DEF OfTypes, Charted
<1>4. CASE d.chart # None
  <2>1. n \in Charted(l) /\ IsTyped(l)
    BY <1>1, <1>4 DEF Charted, Tapped, Both
  <2>2. x \in STRING /\ x # None
    BY <1>1, <2>1, AxisIs
  <2>3. d.chart.step \in Int /\ dilation \in Int
    BY <1>1, <1>4, LabelsAre DEF Tapped, Both
  <2>4. PICK s : s = dilation * d.chart.step
    OBVIOUS
  <2>5. s \in Int
    BY <2>3, <2>4, IntTimes
  <2>6. e.chart = Chart(0, s, "displacement", x)
    BY <1>2, <1>4, <2>4
  <2>7. /\ e.chart \in AllCharts /\ e.chart.kind = "displacement" /\ e.chart.axis = x /\ e.chart.origin = 0 /\ e.chart.step = s
    BY <2>2, <2>5, <2>6 DEF AllCharts, Chart
  <2>8. e.chart # None
    BY <2>7, NotNone
  <2>9. AxisOf(r, k) = x
    BY <1>1, <2>2, <2>7 DEF AxisOf
  <2>10. OfTypes(e)
    BY <1>2, <2>7 DEF OfTypes
  <2>11. QED
    BY <1>1, <1>2, <1>4, <2>4, <2>7, <2>8, <2>9, <2>10
<1>5. QED
  BY <1>3, <1>4

\* A point of the taps reads at the tap of its dim.
LEMMA TapPlaces ==
  ASSUME NEW l, NEW r, NEW n, NEW k, NEW lo, NEW hi, NEW dilation, Tapped(l, r, n, k, lo, hi, dilation), NEW a,
         NEW c, IsPoint(r, c), NEW p, IsPoint(l, p), p[n] = c[n] + dilation * c[k]
  PROVE  PartAt(r, a, c, {n, k}) = PartAt(l, a, p, {n})
<1>1. /\ IsLayout(l) /\ IsLayout(r) /\ IsCharted(l) /\ IsCharted(r) /\ n \in Names(l) /\ n \in Names(r) /\ k \in Names(r)
      /\ n # k /\ dilation \in Int /\ r.dims[n].chart = l.dims[n].chart
  BY DEF Tapped, Both
<1>2. PICK G : G = {n, k}
  OBVIOUS
<1>21. PartAt(r, a, c, G) = PartOf(r, a, c, n) + PartOf(r, a, c, k)
  <2>1. n \in G /\ k \in G /\ n # k /\ \A q \in G : q = n \/ q = k
    BY <1>1, <1>2
  <2>2. QED
    BY <1>1, <2>1, PartTwo
<1>3. /\ PartOf(r, a, c, n) = IF n \in OnAxis(r, a) THEN Phys(r.dims[n].chart, c[n]) ELSE 0
      /\ PartOf(r, a, c, k) = IF k \in OnAxis(r, a) THEN Phys(r.dims[k].chart, c[k]) ELSE 0
      /\ PartAt(l, a, p, {n}) = IF n \in OnAxis(l, a) THEN Phys(l.dims[n].chart, p[n]) ELSE 0
  BY <1>1, PartOne DEF PartOf
<1>4. n \in OnAxis(r, a) <=> n \in OnAxis(l, a)
  BY <1>1, OnAxisIs DEF AxisOf
<1>5. k \in OnAxis(r, a) <=> n \in OnAxis(l, a)
  <2>0. r.dims[k].chart = None <=> l.dims[n].chart = None
    BY TapMarks
  <2>1. l.dims[n].chart # None => AxisOf(r, k) = AxisOf(l, n)
    <3>1. n \in Charted(l) => AxisOf(r, k) = AxisOf(l, n)
      BY TapMarks
    <3>2. QED
      BY <1>1, <3>1 DEF Charted
  <2>2. k \in OnAxis(r, a) <=> r.dims[k].chart # None /\ AxisOf(r, k) = a
    BY <1>1, OnAxisIs
  <2>3. n \in OnAxis(l, a) <=> l.dims[n].chart # None /\ AxisOf(l, n) = a
    BY <1>1, OnAxisIs
  <2>4. QED
    BY <2>0, <2>1, <2>2, <2>3
<1>6. CASE n \notin OnAxis(l, a)
  BY <1>2, <1>21, <1>3, <1>4, <1>5, <1>6
<1>7. CASE n \in OnAxis(l, a)
  <2>1. n \in Charted(l)
    BY <1>7 DEF OnAxis
  <2>2. PICK o, s, u, v, x : o = l.dims[n].chart.origin /\ s = l.dims[n].chart.step /\ u = c[n] /\ v = c[k] /\ x = r.dims[k].chart
    OBVIOUS
  <2>3. o \in Int /\ s \in Int /\ u \in Int /\ v \in Int
    <3>1. l.dims[n].chart # None /\ IsChart(l.dims[n].chart)
      BY <1>1, <2>1 DEF Charted, IsCharted
    <3>2. QED
      BY <1>1, <2>2, <3>1, ChartHas DEF IsPoint
  <2>4. x.origin = 0 /\ x.step = dilation * s
    BY <2>1, <2>2, TapMarks
  <2>5. o + u * s + (0 + v * (dilation * s)) = o + (u + dilation * v) * s
    BY <1>1, <2>3
  <2>6. Phys(x, v) = 0 + v * (dilation * s)
    BY <2>4 DEF Phys
  <2>7. Phys(l.dims[n].chart, u) = o + u * s /\ Phys(l.dims[n].chart, p[n]) = o + (u + dilation * v) * s
    BY <2>2 DEF Phys
  <2>8. QED
    BY <1>1, <1>2, <1>21, <1>3, <1>4, <1>5, <1>7, <2>2, <2>5, <2>6, <2>7
<1>8. QED
  BY <1>6, <1>7

\* The taps of a dim, of a window or of a stencil: positions stay with the data.
LEMMA TapsGlues ==
  ASSUME NEW l, NEW r, NEW n, NEW k, NEW lo, NEW hi, NEW dilation, Tapped(l, r, n, k, lo, hi, dilation),
         NEW o, o.op \in {"window", "stencil"}, o.dim = n, o.new = k, o.dilation = dilation, BoxAt(r) = P!NewBox(o, BoxAt(l))
  PROVE  Tells(o, l, r)
<1>1. /\ Both(l, r) /\ n \in Names(l) /\ k \notin Names(l) /\ k \in STRING /\ Names(r) = Names(l) \cup {k}
      /\ \A m \in Names(l) \ {n} : r.dims[m] = l.dims[m]
      /\ r.dims[n].chart = l.dims[n].chart /\ r.dims[n].labels = None /\ l.dims[n].labels = None
      /\ IsLayout(l) /\ IsLayout(r)
  BY DEF Tapped, Both
<1>2. /\ OfTypes(r.dims[k]) /\ r.dims[k].labels = None
      /\ n \in Charted(l) => r.dims[k].chart.kind = "displacement"
      /\ r.dims[k].chart = None <=> l.dims[n].chart = None
  BY TapMarks
<1>3. Swaps(l, r, {n}, {n, k})
  BY <1>1 DEF Swaps, Both
<1>4. IsTyped(r)
  BY <1>1, <1>2 DEF IsTyped, Both, OfTypes
<1>5. ASSUME NEW a PROVE Hands(l, r, {n}, {n, k}, a)
  <2>1. k \notin Position(r, a)
    BY <1>1, <1>2, OnAxisIs DEF Charted
  <2>2. n \in Position(r, a) <=> n \in Position(l, a)
    BY <1>1, OnAxisIs DEF AxisOf
  <2>3. QED
    BY <2>1, <2>2 DEF Hands
<1>6. SwapOp(o, l, r, {n}, {n, k})
  <2>1. o.op \notin P!Relabels \cup {"recenter", "rename"}
    BY DEF P!Relabels
  <2>2. QED
    BY <1>1, <1>2, <1>3, <1>4, <1>5, <2>1 DEF SwapOp
<1>7. ASSUME NEW c \in Domain(r), NEW p, p = P!Back(o, BoxAt(l), c) PROVE SwapPoint(o, l, r, {n}, {n, k}, c, p)
  <2>1. p = Elsewhere(n, c[n] + dilation * c[k], c, {k})
    BY <1>7 DEF P!Back, Elsewhere
  <2>2. DOMAIN c = Names(l) \cup {k} /\ IsPoint(r, c)
    BY <1>1, InDomain
  <2>3. p[n] = c[n] + dilation * c[k] /\ \A i \in DOMAIN c \ {k, n} : p[i] = c[i]
    BY <2>1, ElsewhereIs DEF IsMoved
  <2>4. p = [m \in Names(l) |-> p[m]]
    <3>1. {n} \cup (DOMAIN c \ {k}) = Names(l)
      BY <1>1, <2>2
    <3>2. QED
      BY <2>1, <3>1 DEF Elsewhere, P!Override, P!Single, P!Without
  <2>5. \A m \in Names(l) \ {n} : p[m] = c[m]
    BY <1>1, <2>2, <2>3
  <2>6. IsPoint(l, p) => \A a : PartAt(r, a, c, {n, k}) = PartAt(l, a, p, {n})
    BY <2>2, <2>3, TapPlaces
  <2>7. QED
    BY <2>4, <2>5, <2>6 DEF SwapPoint
<1>8. QED
  BY <1>6, <1>7, SwapGlues

\* A place a window covers is that of a place, and all its taps are places.
LEMMA CoveredHas ==
  ASSUME NEW o, NEW b, NEW C, C = P!Covered(o, b), NEW i
  PROVE  i \in C <=> /\ \E j \in b[o.dim] : \E t \in o.lo .. o.hi - 1 : i = j - o.dilation * t
                     /\ \A t \in o.lo .. o.hi - 1 : i + o.dilation * t \in b[o.dim]
<1>1. i \in C <=> /\ \E j \in b[o.dim] : i \in {j - o.dilation * t : t \in o.lo .. o.hi - 1}
                  /\ \A t \in o.lo .. o.hi - 1 : i + o.dilation * t \in b[o.dim]
  BY DEF P!Covered
<1>2. \A j : i \in {j - o.dilation * t : t \in o.lo .. o.hi - 1} <=> \E t \in o.lo .. o.hi - 1 : i = j - o.dilation * t
  OBVIOUS
<1>3. QED
  BY <1>1, <1>2, Zenon

\* The places a window covers whole.
LEMMA CoveredIs ==
  ASSUME NEW d, d.start \in Int, d.stop \in Int, NEW lo \in Int, NEW hi \in Int, lo < hi, NEW dilation \in Nat \ {0},
         NEW o, NEW b, b[o.dim] = d.start .. d.stop - 1, o.lo = lo, o.hi = hi, o.dilation = dilation
  PROVE  P!Covered(o, b) = d.start - dilation * lo .. d.stop - dilation * (hi - 1) - 1
<1>1. PICK u, w : u = dilation * lo /\ w = dilation * (hi - 1)
  OBVIOUS
<1>2. u \in Int /\ w \in Int
  BY <1>1, IntTimes
<1>3. PICK C : C = P!Covered(o, b)
  OBVIOUS
<1>31. PICK B, T : B = d.start .. d.stop - 1 /\ T = lo .. hi - 1
  OBVIOUS
<1>32. ASSUME NEW i
       PROVE  i \in C <=> /\ \E j \in B : \E t \in T : i = j - dilation * t
                          /\ \A t \in T : i + dilation * t \in B
  <2>1. B = b[o.dim] /\ T = o.lo .. o.hi - 1 /\ dilation = o.dilation
    BY <1>31
  <2>2. i \in C <=> /\ \E j \in b[o.dim] : \E t \in o.lo .. o.hi - 1 : i = j - o.dilation * t
                    /\ \A t \in o.lo .. o.hi - 1 : i + o.dilation * t \in b[o.dim]
    BY <1>3, CoveredHas
  <2>3. QED
    BY <2>1, <2>2, Zenon
<1>4. ASSUME NEW i \in C PROVE i \in d.start - u .. d.stop - w - 1
  <2>1. PICK j \in B : \E t \in T : i = j - dilation * t
    <3>1. i \in C <=> /\ \E j \in B : \E t \in T : i = j - dilation * t
                      /\ \A t \in T : i + dilation * t \in B
      BY <1>32
    <3>2. QED
      BY <3>1, Zenon
  <2>2. i \in Int
    <3>1. PICK t \in T : i = j - dilation * t
      BY <2>1
    <3>2. dilation * t \in Int
      BY <1>31, <3>1, IntTimes
    <3>3. QED
      BY <1>31, <2>1, <3>1, <3>2
  <2>3. i + u \in d.start .. d.stop - 1 /\ i + w \in d.start .. d.stop - 1
    <3>1. lo \in lo .. hi - 1 /\ hi - 1 \in lo .. hi - 1
      OBVIOUS
    <3>2. QED
      BY <1>1, <1>31, <1>32, <3>1
  <2>4. QED
    BY <1>2, <2>2, <2>3
<1>5. ASSUME NEW i \in d.start - u .. d.stop - w - 1 PROVE i \in C
  <2>1. i \in Int /\ d.start <= i + u /\ i + w <= d.stop - 1
    BY <1>2
  <2>2. ASSUME NEW t \in lo .. hi - 1 PROVE i + dilation * t \in d.start .. d.stop - 1
    <3>1. PICK y : y = dilation * t
      OBVIOUS
    <3>2. lo <= t /\ t <= hi - 1 /\ t \in Int /\ dilation \in Nat /\ hi - 1 \in Int
      OBVIOUS
    <3>3. u <= y /\ y <= w /\ y \in Int
      BY <1>1, <3>1, <3>2, TimesMono, IntTimes
    <3>4. i + y \in d.start .. d.stop - 1
      BY <1>2, <2>1, <3>3
    <3>5. QED
      BY <3>1, <3>4
  <2>21. \A t \in T : i + dilation * t \in B
    BY <1>31, <2>2
  <2>3. lo \in lo .. hi - 1
    OBVIOUS
  <2>4. PICK j : j = i + dilation * lo
    OBVIOUS
  <2>41. j \in d.start .. d.stop - 1
    BY <2>2, <2>3, <2>4
  <2>42. i = j - dilation * lo
    <3>1. i = i + u - u
      BY <1>2, <2>1
    <3>2. QED
      BY <1>1, <2>4, <3>1
  <2>5. j \in B /\ lo \in T /\ i = j - dilation * lo
    BY <1>31, <2>3, <2>41, <2>42
  <2>6. QED
    BY <1>32, <2>21, <2>5
<1>6. PICK S : S = d.start - u .. d.stop - w - 1
  OBVIOUS
<1>7. \A i : i \in C <=> i \in S
  BY <1>4, <1>5, <1>6
<1>8. C = S
  BY <1>7
<1>9. QED
  BY <1>1, <1>3, <1>6, <1>8

\* A dim is added, and those there stay.
LEMMA AddsDim ==
  ASSUME NEW l, NEW k, k \notin Names(l), NEW e, NEW r, r = Put(l, {}, Single(k, e), 0)
  PROVE  Names(r) = Names(l) \cup {k} /\ r.dims[k] = e /\ \A m \in Names(l) : r.dims[m] = l.dims[m]
BY DEF Put, Override, Single, Drop, Names

\* What the window of a dim changes.
LEMMA WindowHas ==
  ASSUME NEW l, IsLayout(l), NEW n \in Names(l), NEW k, k \notin Names(l), NEW lo, NEW hi, NEW dilation,
         NEW r, r = Window(l, n, k, lo, hi, dilation)
  PROVE  /\ Names(r) = Names(l) \cup {k} /\ \A m \in Names(l) \ {n} : r.dims[m] = l.dims[m]
         /\ r.dims[k] = TapDim(l, n, lo, hi, dilation)
         /\ r.dims[n].chart = l.dims[n].chart /\ r.dims[n].labels = l.dims[n].labels
         /\ r.dims[n].start = WindowStart(l, n, lo, dilation) /\ r.dims[n].stop = WindowStop(l, n, hi, dilation)
<1>1. PICK d, t, u, w, e : /\ d = l.dims[n] /\ t = TapDim(l, n, lo, hi, dilation)
                           /\ u = WindowStart(l, n, lo, dilation) /\ w = WindowStop(l, n, hi, dilation)
                           /\ e = [d EXCEPT !.start = u, !.stop = w]
  OBVIOUS
<1>2. Fields \subseteq DOMAIN d
  BY <1>1 DEF IsLayout, IsDim
<1>3. e.chart = d.chart /\ e.labels = d.labels /\ e.start = u /\ e.stop = w
  BY <1>1, <1>2 DEF Fields
<1>4. r = Put(l, {n}, Override(Single(k, t), Single(n, e)), 0)
  BY <1>1 DEF Window
<1>5. /\ Names(r) = Names(l) \cup {k} /\ \A m \in Names(l) \ {n} : r.dims[m] = l.dims[m]
      /\ r.dims[k] = t /\ r.dims[n] = e
  BY <1>4 DEF Put, Override, Single, Drop, Names
<1>6. QED
  BY <1>1, <1>3, <1>5

\* The window of a dim keeps positions with the data.
LEMMA WindowGlues ==
  ASSUME NEW l, NEW n \in Names(l), NEW k \in STRING, NEW lo \in Int, NEW hi \in Int, NEW dilation \in Nat \ {0},
         CanWindow(l, n, k, lo, hi, dilation), NEW r, r = Window(l, n, k, lo, hi, dilation), Both(l, r),
         NEW o, o.op = "window", o.dim = n, o.new = k, o.lo = lo, o.hi = hi, o.dilation = dilation
  PROVE  Tells(o, l, r)
<1>1. k \notin Names(l) /\ l.dims[n].labels = None /\ lo < hi /\ IsLayout(l)
  BY DEF CanWindow, Both
<1>2. /\ Names(r) = Names(l) \cup {k} /\ \A m \in Names(l) \ {n} : r.dims[m] = l.dims[m]
      /\ r.dims[k] = TapDim(l, n, lo, hi, dilation)
      /\ r.dims[n].chart = l.dims[n].chart /\ r.dims[n].labels = None
      /\ r.dims[n].start = WindowStart(l, n, lo, dilation) /\ r.dims[n].stop = WindowStop(l, n, hi, dilation)
  BY <1>1, WindowHas
<1>3. Tapped(l, r, n, k, lo, hi, dilation)
  BY <1>1, <1>2 DEF Tapped
<1>4. PICK b, S : b = BoxAt(l) /\ S = P!Covered(o, b)
  OBVIOUS
<1>5. /\ o.op = "window" /\ o.dim = n /\ o.new = k /\ o.lo = lo /\ o.hi = hi /\ o.dilation = dilation
  OBVIOUS
<1>6. S = r.dims[n].start .. r.dims[n].stop - 1
  <2>1. PICK d : d = l.dims[n]
    OBVIOUS
  <2>2. d.start \in Int /\ d.stop \in Int /\ b[o.dim] = d.start .. d.stop - 1
    BY <1>1, <1>4, <1>5, <2>1 DEF IsLayout, IsDim, BoxAt
  <2>3. S = d.start - dilation * lo .. d.stop - dilation * (hi - 1) - 1
    <3>1. S = P!Covered(o, b) /\ lo < hi
      BY <1>1, <1>4
    <3>2. P!Covered(o, b) = d.start - dilation * lo .. d.stop - dilation * (hi - 1) - 1
      BY <1>1, <1>5, <2>2, CoveredIs
    <3>3. QED
      BY <3>1, <3>2, Zenon
  <2>4. r.dims[n].start = d.start - dilation * lo /\ r.dims[n].stop = d.stop - dilation * (hi - 1)
    <3>1. /\ WindowStart(l, n, lo, dilation) = d.start - dilation * lo
          /\ WindowStop(l, n, hi, dilation) = d.stop - dilation * (hi - 1)
      BY <2>1, Zenon DEF WindowStart, WindowStop
    <3>2. QED
      BY <1>2, <3>1, Zenon
  <2>5. QED
    BY <2>3, <2>4
<1>7. r.dims[k].start = lo /\ r.dims[k].stop = hi
  BY <1>2 DEF TapDim, Dim
<1>8. P!NewBox(o, b) = P!Override(P!Single(n, S), P!Override(P!Single(k, lo .. hi - 1), b))
  BY <1>4, <1>5 DEF P!NewBox
<1>9. BoxAt(r) = P!NewBox(o, b)
  <2>1. PICK T : T = lo .. hi - 1
    OBVIOUS
  <2>2. n # k /\ Names(l) \cup {k} = {n} \cup ({k} \cup Names(l))
    BY <1>1
  <2>3. BoxAt(r) = [m \in Names(l) \cup {k} |-> IF m = n THEN S ELSE IF m = k THEN T ELSE b[m]]
    <3>1. BoxAt(r) = [m \in Names(l) \cup {k} |-> r.dims[m].start .. r.dims[m].stop - 1]
      BY <1>2, Zenon DEF BoxAt
    <3>2. ASSUME NEW m \in Names(l) \cup {k}
          PROVE  r.dims[m].start .. r.dims[m].stop - 1 = IF m = n THEN S ELSE IF m = k THEN T ELSE b[m]
      <4>1. CASE m = n
        BY <1>6, <4>1
      <4>2. CASE m # n /\ m = k
        BY <1>7, <2>1, <4>2
      <4>3. CASE m # n /\ m # k
        <5>1. m \in Names(l) /\ r.dims[m] = l.dims[m]
          BY <1>2, <4>3
        <5>2. b[m] = l.dims[m].start .. l.dims[m].stop - 1
          BY <1>4, <5>1 DEF BoxAt
        <5>3. QED
          BY <4>3, <5>1, <5>2
      <4>4. QED
        BY <4>1, <4>2, <4>3
    <3>3. QED
      BY <3>1, <3>2
  <2>4. P!Override(P!Single(n, S), P!Override(P!Single(k, T), b))
          = [m \in Names(l) \cup {k} |-> IF m = n THEN S ELSE IF m = k THEN T ELSE b[m]]
    BY <1>4, <2>2 DEF BoxAt, P!Override, P!Single
  <2>5. QED
    BY <1>8, <2>1, <2>3, <2>4
<1>10. QED
  BY <1>3, <1>4, <1>5, <1>9, TapsGlues

\* The taps of a stencil keep positions with the data.
LEMMA StencilGlues ==
  ASSUME NEW l, NEW n \in Names(l), NEW k \in STRING, k \notin Names(l), l.dims[n].labels = None,
         NEW lo \in Int, NEW hi \in Int, NEW dilation \in Int,
         NEW r, r = Put(l, {}, Single(k, TapDim(l, n, lo, hi + 1, dilation)), 0), Both(l, r),
         NEW o, o.op = "stencil", o.dim = n, o.new = k, o.lo = lo, o.hi = hi, o.dilation = dilation
  PROVE  Tells(o, l, r)
<1>1. PICK e : e = TapDim(l, n, lo, hi + 1, dilation)
  OBVIOUS
<1>2. Names(r) = Names(l) \cup {k} /\ r.dims[k] = e /\ \A m \in Names(l) : r.dims[m] = l.dims[m]
  BY <1>1, AddsDim
<1>3. Tapped(l, r, n, k, lo, hi + 1, dilation)
  BY <1>1, <1>2 DEF Tapped
<1>4. PICK b : b = BoxAt(l)
  OBVIOUS
<1>5. o.op = "stencil" /\ o.dim = n /\ o.new = k /\ o.lo = lo /\ o.hi = hi /\ o.dilation = dilation
  OBVIOUS
<1>6. r.dims[k].start = lo /\ r.dims[k].stop = hi + 1 /\ hi + 1 - 1 = hi
  BY <1>1, <1>2 DEF TapDim, Dim
<1>7. P!NewBox(o, b) = P!Override(P!Single(k, lo .. hi), b)
  BY <1>4, <1>5 DEF P!NewBox
<1>8. BoxAt(r) = P!NewBox(o, b)
  <2>1. BoxAt(r) = P!Override(P!Single(k, lo .. hi), b)
    BY <1>2, <1>4, <1>6 DEF BoxAt, P!Override, P!Single
  <2>2. QED
    BY <1>7, <2>1
<1>9. QED
  BY <1>3, <1>4, <1>5, <1>8, TapsGlues

-----------------------------------------------------------------------------
(* RENAMES                                                                  *)

\* A renamed dim is where it was on every axis the rename does not label.
RenamesOne(o, l, r, m, k) ==
  /\ Both(l, r) /\ m \in Names(l) /\ k \notin Names(l) \ {m} /\ k \in STRING
  /\ Names(r) = (Names(l) \ {m}) \cup {k} /\ r.dims[k] = l.dims[m]
  /\ \A q \in Names(l) \ {m} : r.dims[q] = l.dims[q]
  /\ o.op = "rename" /\ o.dim = m /\ o.new = k
  /\ m \in Charted(l) /\ l.dims[m].chart.axis = None => m \in o.axes /\ k \in o.axes

\* A dim under another name adds as much to a position as it did.
LEMMA RenamedPlace ==
  ASSUME NEW o, NEW l, NEW r, NEW m, NEW k, RenamesOne(o, l, r, m, k), NEW a, a \notin o.axes,
         NEW c, IsPoint(r, c), NEW p, IsPoint(l, p), p[m] = c[k], \A q \in Names(l) \ {m} : p[q] = c[q]
  PROVE  PositionAt(r, a, c) = PositionAt(l, a, p)
<1>1. /\ IsLayout(l) /\ IsLayout(r) /\ IsCharted(l) /\ IsCharted(r) /\ m \in Names(l) /\ k \in Names(r)
      /\ r.dims[k] = l.dims[m] /\ Names(r) = (Names(l) \ {m}) \cup {k} /\ k \notin Names(l) \ {m}
      /\ \A q \in Names(l) \ {m} : r.dims[q] = l.dims[q]
  BY DEF RenamesOne, Both
<1>2. Swaps(l, r, {m}, {k})
  BY <1>1 DEF Swaps
<1>3. k \in OnAxis(r, a) <=> m \in OnAxis(l, a)
  <2>1. CASE m \in Charted(l) /\ l.dims[m].chart.axis = None
    <3>1. AxisOf(l, m) = m /\ AxisOf(r, k) = k
      BY <1>1, <2>1 DEF AxisOf
    <3>2. m # a /\ k # a
      BY <2>1 DEF RenamesOne
    <3>3. QED
      BY <1>1, <3>1, <3>2, OnAxisIs
  <2>2. CASE m \in Charted(l) /\ l.dims[m].chart.axis # None
    <3>1. AxisOf(l, m) = AxisOf(r, k)
      BY <1>1, <2>2 DEF AxisOf
    <3>2. QED
      BY <1>1, <3>1, OnAxisIs
  <2>3. CASE m \notin Charted(l)
    BY <1>1, <2>3, OnAxisIs DEF Charted
  <2>4. QED
    BY <2>1, <2>2, <2>3
<1>4. PartAt(r, a, c, {k}) = PartAt(l, a, p, {m})
  <2>1. PartAt(r, a, c, {k}) = IF k \in OnAxis(r, a) THEN Phys(r.dims[k].chart, c[k]) ELSE 0
    BY <1>1, PartOne
  <2>2. PartAt(l, a, p, {m}) = IF m \in OnAxis(l, a) THEN Phys(l.dims[m].chart, p[m]) ELSE 0
    BY <1>1, PartOne
  <2>3. QED
    BY <1>1, <1>3, <2>1, <2>2
<1>5. PartAt(l, a, p, {m}) \in Int
  BY <1>1, PlacesInt
<1>6. PICK z : z = 0
  OBVIOUS
<1>7. PartAt(r, a, c, {k}) = PartAt(l, a, p, {m}) + z /\ z \in Int
  BY <1>4, <1>5, <1>6
<1>8. PositionAt(r, a, c) = PositionAt(l, a, p) + z
  BY <1>2, <1>7, SwapPlaces
<1>9. PositionAt(l, a, p) \in Int
  BY <1>1, PlacesInt, SumInt
<1>10. QED
  BY <1>6, <1>8, <1>9

\* The axes of a chart without an axis follow the name; every other position
\* and all labels stay with the data.
LEMMA RenamedGlues ==
  ASSUME NEW o, NEW l, NEW r, NEW m, NEW k, RenamesOne(o, l, r, m, k)
  PROVE  Tells(o, l, r)
<1>1. /\ IsLayout(l) /\ IsLayout(r) /\ m \in Names(l) /\ k \in Names(r)
      /\ r.dims[k] = l.dims[m] /\ Names(r) = (Names(l) \ {m}) \cup {k} /\ k \notin Names(l) \ {m}
      /\ \A q \in Names(l) \ {m} : r.dims[q] = l.dims[q]
      /\ o.op = "rename" /\ o.dim = m /\ o.new = k
  BY DEF RenamesOne, Both
<1>2. IsTyped(r)
  BY <1>1 DEF IsTyped, RenamesOne, Both
<1>3. PICK b : b = BoxAt(l)
  OBVIOUS
<1>4. BoxAt(r) = P!NewBox(o, b)
  <2>1. P!NewBox(o, b) = P!Override(P!Single(k, b[m]), P!Without(b, {m}))
    BY <1>1 DEF P!NewBox
  <2>2. BoxAt(r) = P!Override(P!Single(k, b[m]), P!Without(b, {m}))
    BY <1>1, <1>3 DEF BoxAt, P!Override, P!Single, P!Without
  <2>3. QED
    BY <2>1, <2>2
<1>5. ASSUME NEW c \in Domain(r), NEW p, p = P!Back(o, b, c) PROVE Sticks(o, l, r, c, p)
  <2>1. p = Elsewhere(m, c[k], c, {k})
    BY <1>1, <1>5 DEF P!Back, Elsewhere
  <2>2. DOMAIN c = Names(r) /\ IsPoint(r, c)
    BY <1>1, InDomain
  <2>3. p[m] = c[k] /\ \A i \in DOMAIN c \ {k, m} : p[i] = c[i]
    BY <2>1, ElsewhereIs DEF IsMoved
  <2>4. p = [q \in Names(l) |-> p[q]]
    <3>1. {m} \cup (DOMAIN c \ {k}) = Names(l)
      BY <1>1, <2>2
    <3>2. QED
      BY <2>1, <3>1 DEF Elsewhere, P!Override, P!Single, P!Without
  <2>5. \A q \in Names(l) \ {m} : p[q] = c[q]
    BY <1>1, <2>2, <2>3
  <2>6. \A a : Amount(o, a) = 0
    BY <1>1 DEF Amount
  <2>7. ASSUME InRange(l, p) PROVE Placed(o, l, r, c, p)
    <3>1. IsPoint(l, p)
      BY <1>1, <2>7, InRangeIsPoint
    <3>2. ASSUME NEW a, a \notin o.axes PROVE PositionAt(r, a, c) = PositionAt(l, a, p) + Amount(o, a)
      <4>1. PositionAt(r, a, c) = PositionAt(l, a, p)
        BY <2>2, <2>3, <2>5, <3>1, <3>2, RenamedPlace
      <4>2. PositionAt(l, a, p) \in Int
        BY <3>1, PlacesInt, SumInt DEF RenamesOne, Both
      <4>3. QED
        BY <2>6, <4>1, <4>2
    <3>3. P!Relabelled(o) = o.axes
      BY <1>1 DEF P!Relabelled
    <3>4. QED
      BY <3>2, <3>3 DEF Placed
  <2>8. KeepsLabels(o, l, r, c, p)
    <3>1. ASSUME NEW q \in Names(r)
          PROVE  /\ q \in Labelled(r) <=> P!Origin(o, q) \in Labelled(l)
                 /\ LabelAt(r.dims[q], c[q]) = LabelAt(l.dims[P!Origin(o, q)], p[P!Origin(o, q)])
      <4>1. CASE q = k
        <5>1. P!Origin(o, q) = m
          BY <1>1, <4>1 DEF P!Origin
        <5>2. QED
          BY <1>1, <2>3, <4>1, <5>1 DEF Labelled
      <4>2. CASE q # k
        <5>1. P!Origin(o, q) = q
          BY <1>1, <4>2 DEF P!Origin
        <5>2. q \in Names(l) \ {m}
          BY <1>1, <4>2
        <5>3. QED
          BY <1>1, <2>5, <4>2, <5>1, <5>2 DEF Labelled
      <4>3. QED
        BY <4>1, <4>2
    <3>2. QED
      BY <3>1 DEF KeepsLabels
  <2>9. QED
    BY <2>4, <2>7, <2>8 DEF Sticks
<1>6. o.op \notin P!Keeps
  BY <1>1 DEF P!Keeps
<1>7. QED
  BY <1>2, <1>3, <1>4, <1>5, <1>6 DEF Glues, Tells

\* rename (layout.py).
LEMMA RenameGlues ==
  ASSUME NEW l, NEW m \in Names(l), NEW k \in STRING, CanRename(l, m, k), NEW r, r = Rename(l, m, k), Both(l, r),
         NEW o, o.op = "rename", o.dim = m, o.new = k,
         m \in Charted(l) /\ l.dims[m].chart.axis = None => m \in o.axes /\ k \in o.axes
  PROVE  Tells(o, l, r)
<1>1. PICK d, z : d = l.dims[m] /\ z = 0
  OBVIOUS
<1>2. Replaces(l, m, k, d) /\ z \in Int
  BY <1>1 DEF Replaces, CanRename, Both, IsLayout
<1>3. r = PutOne(l, m, k, d, z)
  BY <1>1 DEF Rename
<1>4. Names(r) = (Names(l) \ {m}) \cup {k} /\ r.dims[k] = d /\ \A q \in Names(l) \ {m} : r.dims[q] = l.dims[q]
  BY <1>2, <1>3, PutOneIs
<1>5. RenamesOne(o, l, r, m, k)
  BY <1>1, <1>4 DEF RenamesOne, CanRename
<1>6. QED
  BY <1>5, RenamedGlues

-----------------------------------------------------------------------------
(* SPLITS                                                                   *)

\* A point with dims S taken out and dim n put in is a point of the names of l.
LEMMA ElsewhereSpans ==
  ASSUME NEW l, NEW n \in Names(l), NEW x, NEW c, NEW S, \A m : m \in DOMAIN c \ S /\ m # n <=> m \in Names(l) \ {n},
         NEW p, p = Elsewhere(n, x, c, S)
  PROVE  /\ p = [m \in Names(l) |-> p[m]] /\ p[n] = x
         /\ \A m \in Names(l) \ {n} : p[m] = c[m]
<1>1. {n} \cup (DOMAIN c \ S) = Names(l)
  OBVIOUS
<1>2. QED
  BY <1>1 DEF Elsewhere, P!Override, P!Single, P!Without

\* What a split in two adds to the coordinates.
LEMMA SplitConstIs ==
  ASSUME NEW d, IsDim(d), NEW parts, NEW x, NEW y, TwoParts(parts, x, y)
  PROVE  SplitConst(d, parts) \in Int /\ SplitConst(d, parts) = d.start - (Size(y) * x.start + y.start)
<1>1. /\ parts = <<x, y>> /\ Size(y) \in Int /\ x.start \in Int /\ y.start \in Int /\ d.start \in Int
  BY DEF TwoParts, IsPart, Size, IsDim
<1>2. parts[1] = x /\ parts[2] = y /\ DOMAIN parts = {1, 2}
  BY <1>1
<1>3. Weight(parts, 1) = Size(y) /\ Weight(parts, 2) = 1
  BY WeightsAre
<1>4. PICK t, u, w : /\ t = [j \in {1, 2} |-> Weight(parts, j) * parts[j].start]
                     /\ u = Size(y) * x.start /\ w = y.start
  OBVIOUS
<1>5. u \in Int /\ w \in Int
  BY <1>1, <1>4, IntTimes
<1>6. t[1] = u /\ t[2] = w /\ t \in [{1, 2} -> Int]
  <2>1. t[1] = u /\ t[2] = 1 * w
    BY <1>2, <1>3, <1>4
  <2>2. 1 * w = w
    BY <1>5
  <2>3. QED
    BY <1>4, <1>5, <2>1, <2>2
<1>7. SumFunction(t) = u + w
  <2>1. PICK i, j : i = 1 /\ j = 2
    OBVIOUS
  <2>2. i # j /\ t \in [{i, j} -> Int]
    BY <1>6, <2>1
  <2>3. SumFunction(t) = t[i] + t[j]
    BY <2>2, SumTwo
  <2>4. QED
    BY <1>6, <2>1, <2>3
<1>8. SplitConst(d, parts) = d.start - SumFunction(t)
  BY <1>2, <1>4 DEF SplitConst, Sigma
<1>9. QED
  BY <1>1, <1>4, <1>5, <1>7, <1>8

\* a and b are dim n of l, w steps of it and one step, from e.
Parted(l, r, n, a, b, w, e) ==
  /\ Both(l, r) /\ n \in Names(l) /\ a # b /\ a \in STRING /\ b \in STRING /\ w \in Int /\ e \in Int
  /\ a \notin Names(l) \ {n} /\ b \notin Names(l) \ {n} /\ l.dims[n].labels = None
  /\ Names(r) = (Names(l) \ {n}) \cup {a, b} /\ \A m \in Names(l) \ {n} : r.dims[m] = l.dims[m]
  /\ r.dims[a].labels = None /\ r.dims[b].labels = None
  /\ l.dims[n].chart = None => r.dims[a].chart = None /\ r.dims[b].chart = None
  /\ l.dims[n].chart # None =>
       LET k == l.dims[n].chart
       IN  /\ r.dims[a].chart = Chart(k.origin + e * k.step, w * k.step, k.kind, AxisOf(l, n))
           /\ r.dims[b].chart = Chart(0, k.step, "displacement", AxisOf(l, n))

\* The first part has the axis and the kind of the dim, and the second tells a displacement.
LEMMA PartedMarks ==
  ASSUME NEW l, NEW r, NEW n, NEW a, NEW b, NEW w, NEW e, Parted(l, r, n, a, b, w, e)
  PROVE  /\ OfTypes(r.dims[a]) /\ OfTypes(r.dims[b])
         /\ \A x : /\ a \in OnAxis(r, x) <=> n \in OnAxis(l, x)
                   /\ b \in OnAxis(r, x) <=> n \in OnAxis(l, x)
                   /\ a \in Position(r, x) <=> n \in Position(l, x)
                   /\ b \notin Position(r, x)
<1>1. PICK k, f, g, x : k = l.dims[n].chart /\ f = r.dims[a].chart /\ g = r.dims[b].chart /\ x = AxisOf(l, n)
  OBVIOUS
<1>2. /\ n \in Names(l) /\ a \in Names(r) /\ b \in Names(r) /\ r.dims[a].labels = None /\ r.dims[b].labels = None
      /\ IsTyped(l) /\ w \in Int /\ e \in Int
  BY DEF Parted, Both
<1>3. CASE k = None
  <2>1. f = None /\ g = None
    BY <1>1, <1>3 DEF Parted
  <2>2. OfTypes(r.dims[a]) /\ OfTypes(r.dims[b])
    BY <1>1, <1>2, <2>1 DEF OfTypes
  <2>3. ASSUME NEW y
        PROVE  a \notin OnAxis(r, y) /\ b \notin OnAxis(r, y) /\ n \notin OnAxis(l, y)
    <3>1. r.dims[a].chart = None /\ r.dims[b].chart = None /\ l.dims[n].chart = None
      BY <1>1, <1>3, <2>1
    <3>2. QED
      BY <3>1 DEF OnAxis, Charted
  <2>4. QED
    BY <2>2, <2>3 DEF Position
<1>4. CASE k # None
  <2>1. n \in Charted(l)
    BY <1>1, <1>2, <1>4 DEF Charted
  <2>2. x \in STRING /\ x # None
    BY <1>1, <1>2, <2>1, AxisIs
  <2>3. k.origin \in Int /\ k.step \in Int /\ k \in AllCharts
    <3>1. k \in AllCharts
      BY <1>1, <1>2, <1>4 DEF IsTyped
    <3>2. QED
      BY <3>1 DEF AllCharts
  <2>4. PICK o, s : o = k.origin + e * k.step /\ s = w * k.step
    OBVIOUS
  <2>5. o \in Int /\ s \in Int
    BY <1>2, <2>3, <2>4, IntTimes
  <2>6. f = Chart(o, s, k.kind, x) /\ g = Chart(0, k.step, "displacement", x)
    BY <1>1, <1>4, <2>4 DEF Parted
  <2>7. k.kind \in {"position", "displacement"}
    BY <2>3 DEF AllCharts
  <2>8. f \in AllCharts /\ g \in AllCharts
    BY <2>2, <2>3, <2>5, <2>6, <2>7 DEF AllCharts, Chart
  <2>9. f.kind = k.kind /\ f.axis = x /\ g.kind = "displacement" /\ g.axis = x
    BY <2>6 DEF Chart
  <2>10. AxisOf(r, a) = x /\ AxisOf(r, b) = x
    BY <1>1, <2>2, <2>9 DEF AxisOf
  <2>11. f # None /\ g # None
    BY <2>8, NotNone
  <2>12. OfTypes(r.dims[a]) /\ OfTypes(r.dims[b])
    BY <1>1, <1>2, <2>8 DEF OfTypes
  <2>13. QED
    BY <1>1, <1>2, <1>4, <2>9, <2>10, <2>11, <2>12, OnAxisIs
<1>5. QED
  BY <1>3, <1>4

\* The two parts tell what their dim did.
LEMMA PartedPlaces ==
  ASSUME NEW l, NEW r, NEW n, NEW a, NEW b, NEW w, NEW e, Parted(l, r, n, a, b, w, e), NEW x,
         NEW c, IsPoint(r, c), NEW p, IsPoint(l, p), p[n] = w * c[a] + c[b] + e, NEW N, N = {a, b}
  PROVE  PartAt(r, x, c, N) = PartAt(l, x, p, {n})
<1>1. /\ IsLayout(l) /\ IsLayout(r) /\ IsCharted(l) /\ IsCharted(r) /\ n \in Names(l) /\ a \in Names(r) /\ b \in Names(r)
      /\ a # b /\ w \in Int /\ e \in Int
  BY DEF Parted, Both
<1>2. a \in N /\ b \in N /\ \A q \in N : q = a \/ q = b
  OBVIOUS
<1>3. PartAt(r, x, c, N) = PartOf(r, x, c, a) + PartOf(r, x, c, b)
  BY <1>1, <1>2, PartTwo
<1>4. /\ PartOf(r, x, c, a) = IF a \in OnAxis(r, x) THEN Phys(r.dims[a].chart, c[a]) ELSE 0
      /\ PartOf(r, x, c, b) = IF b \in OnAxis(r, x) THEN Phys(r.dims[b].chart, c[b]) ELSE 0
      /\ PartAt(l, x, p, {n}) = IF n \in OnAxis(l, x) THEN Phys(l.dims[n].chart, p[n]) ELSE 0
  BY <1>1, PartOne DEF PartOf
<1>5. (a \in OnAxis(r, x) <=> n \in OnAxis(l, x)) /\ (b \in OnAxis(r, x) <=> n \in OnAxis(l, x))
  BY PartedMarks
<1>6. CASE n \notin OnAxis(l, x)
  BY <1>3, <1>4, <1>5, <1>6
<1>7. CASE n \in OnAxis(l, x)
  <2>1. n \in Charted(l) /\ l.dims[n].chart # None
    BY <1>7 DEF OnAxis, Charted
  <2>2. PICK k, o, s, u, v : k = l.dims[n].chart /\ o = k.origin /\ s = k.step /\ u = c[a] /\ v = c[b]
    OBVIOUS
  <2>3. o \in Int /\ s \in Int /\ u \in Int /\ v \in Int
    <3>1. IsChart(k) /\ k # None
      BY <1>1, <2>1, <2>2 DEF IsCharted
    <3>2. QED
      BY <1>1, <2>2, <3>1, ChartHas DEF IsPoint
  <2>4. r.dims[a].chart = Chart(o + e * s, w * s, k.kind, AxisOf(l, n)) /\ r.dims[b].chart = Chart(0, s, "displacement", AxisOf(l, n))
    BY <2>1, <2>2 DEF Parted
  <2>5. Phys(r.dims[a].chart, u) = o + e * s + u * (w * s) /\ Phys(r.dims[b].chart, v) = 0 + v * s
    BY <2>4 DEF Phys, Chart
  <2>6. Phys(k, p[n]) = o + (w * u + v + e) * s
    BY <2>2 DEF Phys
  <2>7. (o + e * s + u * (w * s)) + (0 + v * s) = o + (w * u + v + e) * s
    BY <1>1, <2>3
  <2>8. QED
    BY <1>3, <1>4, <1>5, <1>7, <2>2, <2>5, <2>6, <2>7
<1>8. QED
  BY <1>6, <1>7

\* Where parts of a dim stand for it, positions stay with the data.
PartedBack(l, r, n, a, b, w, e, c, p) ==
  /\ p = [m \in Names(l) |-> p[m]] /\ \A m \in Names(l) \ {n} : p[m] = c[m]
  /\ p[n] = w * c[a] + c[b] + e

\* Two dims in the place of one keep positions and labels when a coordinate of the one is the tile and the remainder.
LEMMA PartedGlues ==
  ASSUME NEW l, NEW r, NEW n, NEW a, NEW b, NEW w, NEW e, Parted(l, r, n, a, b, w, e), NEW o, o.op = "split",
         BoxAt(r) = P!NewBox(o, BoxAt(l)),
         \A c \in Domain(r) : PartedBack(l, r, n, a, b, w, e, c, P!Back(o, BoxAt(l), c))
  PROVE  Tells(o, l, r)
<1>1. /\ Both(l, r) /\ n \in Names(l) /\ l.dims[n].labels = None /\ a # b
      /\ Names(r) = (Names(l) \ {n}) \cup {a, b} /\ \A m \in Names(l) \ {n} : r.dims[m] = l.dims[m]
      /\ r.dims[a].labels = None /\ r.dims[b].labels = None /\ IsLayout(l) /\ IsLayout(r) /\ IsTyped(l)
      /\ a \notin Names(l) \ {n} /\ b \notin Names(l) \ {n} /\ a \in STRING /\ b \in STRING
  BY DEF Parted, Both
<1>2. /\ OfTypes(r.dims[a]) /\ OfTypes(r.dims[b])
      /\ \A x : (a \in Position(r, x) <=> n \in Position(l, x)) /\ b \notin Position(r, x)
  BY PartedMarks
<1>3. PICK G, N : G = {n} /\ N = {a, b}
  OBVIOUS
<1>4. Swaps(l, r, G, N)
  BY <1>1, <1>3 DEF Swaps, Both
<1>5. IsTyped(r)
  BY <1>1, <1>2 DEF IsTyped, OfTypes
<1>6. ASSUME NEW x PROVE Hands(l, r, G, N, x)
  <2>1. (a \in Position(r, x) <=> n \in Position(l, x)) /\ b \notin Position(r, x)
    BY <1>2
  <2>2. Position(l, x) \cap {n} = {} => Position(r, x) \cap {a, b} = {}
    BY <2>1
  <2>3. n \in Position(l, x) => Position(r, x) \cap {a, b} = {a}
    BY <2>1
  <2>4. ASSUME Position(l, x) = {n} PROVE \E q : Position(r, x) \cap N = {q}
    BY <1>3, <2>3, <2>4
  <2>5. QED
    BY <1>3, <2>2, <2>4 DEF Hands
<1>7. SwapOp(o, l, r, G, N)
  <2>1. o.op \notin P!Relabels \cup {"recenter", "rename"}
    BY DEF P!Relabels
  <2>2. \A m \in Names(l) \ G : r.dims[m] = l.dims[m]
    BY <1>1, <1>3
  <2>3. \A m \in N : r.dims[m].labels = None
    BY <1>1, <1>3
  <2>4. \A m \in G : l.dims[m].labels = None
    BY <1>1, <1>3
  <2>5. QED
    BY <1>1, <1>4, <1>5, <1>6, <2>1, <2>2, <2>3, <2>4 DEF SwapOp
<1>8. ASSUME NEW c \in Domain(r), NEW p, p = P!Back(o, BoxAt(l), c) PROVE SwapPoint(o, l, r, G, N, c, p)
  <2>1. PartedBack(l, r, n, a, b, w, e, c, p)
    BY <1>8
  <2>2. IsPoint(r, c)
    BY <1>1, InDomain
  <2>3. IsPoint(l, p) => \A x : PartAt(r, x, c, N) = PartAt(l, x, p, {n})
    BY <1>3, <2>1, <2>2, PartedPlaces DEF PartedBack
  <2>4. QED
    BY <1>3, <2>1, <2>3 DEF SwapPoint, PartedBack
<1>9. QED
  BY <1>7, <1>8, SwapGlues

\* What a split in two changes.
LEMMA SplitHas ==
  ASSUME NEW l, IsLayout(l), NEW n \in Names(l), NEW parts, NEW x, NEW y, TwoParts(parts, x, y), CanSplit(l, n, parts),
         NEW r, r = Split(l, n, parts)
  PROVE  /\ x.name \notin Names(l) \ {n} /\ y.name \notin Names(l) \ {n} /\ l.dims[n].labels = None
         /\ Size(x) * Size(y) = Size(l.dims[n])
         /\ Names(r) = (Names(l) \ {n}) \cup {x.name, y.name}
         /\ \A m \in Names(l) \ {n} : r.dims[m] = l.dims[m]
         /\ r.dims[x.name] = SplitDim(l, n, parts, 1) /\ r.dims[y.name] = SplitDim(l, n, parts, 2)
<1>1. parts = <<x, y>> /\ x.name # y.name
  BY DEF TwoParts
<1>2. parts[1] = x /\ parts[2] = y /\ DOMAIN parts = {1, 2} /\ Len(parts) = 2
  BY <1>1
<1>3. NameOf(parts, x.name) = 1 /\ NameOf(parts, y.name) = 2
  BY <1>1, <1>2 DEF NameOf
<1>4. SplitNames(parts) = {x.name, y.name}
  BY <1>2 DEF SplitNames
<1>5. PICK new, delta : new = SplitNew(l, n, parts) /\ delta = l.dims[n].stride * SplitConst(l.dims[n], parts)
  OBVIOUS
<1>6. DOMAIN new = {x.name, y.name} /\ new[x.name] = SplitDim(l, n, parts, 1) /\ new[y.name] = SplitDim(l, n, parts, 2)
  BY <1>3, <1>4, <1>5 DEF SplitNew
<1>7. r = Put(l, {n}, new, delta)
  BY <1>5 DEF Split, SplitNew, SplitNames
<1>8. /\ x.name \notin Names(l) \ {n} /\ y.name \notin Names(l) \ {n} /\ l.dims[n].labels = None
      /\ Weight(parts, 0) = Size(l.dims[n])
  BY <1>2 DEF CanSplit
<1>9. Weight(parts, 0) = Size(x) * Size(y)
  BY WeightsAre
<1>10. /\ Names(r) = (Names(l) \ {n}) \cup {x.name, y.name}
       /\ \A m \in Names(l) \ {n} : r.dims[m] = l.dims[m]
       /\ r.dims[x.name] = new[x.name] /\ r.dims[y.name] = new[y.name]
  BY <1>6, <1>7, <1>8 DEF Put, Override, Drop, Names
<1>11. QED
  BY <1>6, <1>8, <1>9, <1>10

\* The dims of the two parts.
LEMMA SplitDimsAre ==
  ASSUME NEW l, IsLayout(l), IsCharted(l), NEW n \in Names(l), NEW parts, NEW x, NEW y, TwoParts(parts, x, y),
         NEW e, e = SplitConst(l.dims[n], parts), NEW f, f = SplitDim(l, n, parts, 1), NEW g, g = SplitDim(l, n, parts, 2)
  PROVE  /\ f.start = x.start /\ f.stop = x.stop /\ f.labels = None
         /\ g.start = y.start /\ g.stop = y.stop /\ g.labels = None
         /\ l.dims[n].chart = None => f.chart = None /\ g.chart = None
         /\ l.dims[n].chart # None =>
              LET k == l.dims[n].chart
              IN  /\ f.chart = Chart(k.origin + e * k.step, Size(y) * k.step, k.kind, AxisOf(l, n))
                  /\ g.chart = Chart(0, k.step, "displacement", AxisOf(l, n))
<1>1. parts = <<x, y>> /\ x.name # y.name
  BY DEF TwoParts
<1>2. parts[1] = x /\ parts[2] = y
  BY <1>1
<1>3. Weight(parts, 1) = Size(y) /\ Weight(parts, 2) = 1
  BY WeightsAre
<1>4. /\ f.start = x.start /\ f.stop = x.stop /\ f.labels = None
      /\ g.start = y.start /\ g.stop = y.stop /\ g.labels = None
  BY <1>2 DEF SplitDim, Dim
<1>5. l.dims[n].chart = None => f.chart = None /\ g.chart = None
  BY DEF SplitDim, Dim
<1>6. ASSUME l.dims[n].chart # None, NEW k, k = l.dims[n].chart
      PROVE  /\ f.chart = Chart(k.origin + e * k.step, Size(y) * k.step, k.kind, AxisOf(l, n))
             /\ g.chart = Chart(0, k.step, "displacement", AxisOf(l, n))
  <2>1. /\ f.chart = Chart(k.origin + e * k.step, Weight(parts, 1) * k.step, k.kind, AxisOf(l, n))
        /\ g.chart = Chart(0, Weight(parts, 2) * k.step, "displacement", AxisOf(l, n))
    BY <1>6 DEF SplitDim, Dim
  <2>2. 1 * k.step = k.step
    <3>1. IsChart(k)
      BY <1>6 DEF IsCharted
    <3>2. k.step \in Int
      BY <1>6, <3>1, ChartHas
    <3>3. QED
      BY <3>2
  <2>3. QED
    BY <1>3, <2>1, <2>2
<1>7. QED
  BY <1>4, <1>5, <1>6

\* What the box of a split in two is.
HasSplitBox(o, b, n, parts, x, y) ==
  \E f : /\ P!NewBox(o, b) = P!Override(f, P!Without(b, {n}))
         /\ DOMAIN f = SplitNames(parts) /\ SplitNames(parts) = {x.name, y.name}
         /\ f[x.name] = x.start .. x.stop - 1 /\ f[y.name] = y.start .. y.stop - 1

\* The box of a split in two.
LEMMA SplitBox ==
  ASSUME NEW parts, NEW x, NEW y, TwoParts(parts, x, y), NEW o, o.op = "split", o.parts = parts, NEW n, o.dim = n, NEW b
  PROVE  HasSplitBox(o, b, n, parts, x, y)
<1>1. parts = <<x, y>> /\ x.name # y.name
  BY DEF TwoParts
<1>2. parts[1] = x /\ parts[2] = y /\ DOMAIN parts = {1, 2}
  BY <1>1
<1>3. PICK new : new = [m \in {parts[j].name : j \in DOMAIN parts} |->
                          LET j == CHOOSE j \in DOMAIN parts : parts[j].name = m
                          IN  parts[j].start .. parts[j].stop - 1]
  OBVIOUS
<1>4. P!NewBox(o, b) = P!Override(new, P!Without(b, {n}))
  BY <1>3 DEF P!NewBox
<1>5. {parts[j].name : j \in DOMAIN parts} = {x.name, y.name}
  BY <1>2
<1>6. \A m : NameOf(parts, m) = CHOOSE j \in DOMAIN parts : parts[j].name = m
  BY DEF NameOf
<1>7. NameOf(parts, x.name) = 1 /\ NameOf(parts, y.name) = 2
  BY <1>1, <1>2 DEF NameOf
<1>8. new = [m \in {x.name, y.name} |-> parts[NameOf(parts, m)].start .. parts[NameOf(parts, m)].stop - 1]
  BY <1>3, <1>5 DEF NameOf
<1>9. \A m \in {x.name, y.name} : parts[NameOf(parts, m)] = IF m = x.name THEN x ELSE y
  BY <1>1, <1>2, <1>7
<1>10. new = [m \in {x.name, y.name} |-> IF m = x.name THEN x.start .. x.stop - 1 ELSE y.start .. y.stop - 1]
  BY <1>8, <1>9
<1>11. /\ DOMAIN new = SplitNames(parts) /\ SplitNames(parts) = {x.name, y.name}
       /\ new[x.name] = x.start .. x.stop - 1 /\ new[y.name] = y.start .. y.stop - 1
  BY <1>1, <1>5, <1>10 DEF SplitNames
<1>12. QED
  BY <1>4, <1>11 DEF HasSplitBox

\* The point of the dim that a point of two parts stands for.
LEMMA SplitPoint ==
  ASSUME NEW parts, NEW x, NEW y, TwoParts(parts, x, y), NEW o, o.op = "split", o.parts = parts, NEW n, o.dim = n,
         NEW b, P!Min(b[n]) \in Int, NEW c, c[x.name] \in Int, c[y.name] \in Int
  PROVE  \E z : /\ P!Back(o, b, c) = Elsewhere(n, z, c, SplitNames(parts))
                /\ z = P!Min(b[n]) + (Size(y) * (c[x.name] - x.start) + (c[y.name] - y.start))
<1>1. PICK z : z = P!Min(b[n]) + P!SumFunction([j \in DOMAIN parts |-> P!Wide(parts, j) * (c[parts[j].name] - parts[j].start)])
  OBVIOUS
<1>2. parts = <<x, y>> /\ parts[1] = x /\ parts[2] = y /\ DOMAIN parts = {1, 2}
  BY DEF TwoParts
<1>3. {parts[j].name : j \in DOMAIN parts} = {x.name, y.name}
  BY <1>2
<1>4. P!Back(o, b, c) = Elsewhere(n, z, c, {parts[j].name : j \in DOMAIN parts})
  BY <1>1 DEF P!Back, Elsewhere
<1>5. P!Back(o, b, c) = Elsewhere(n, z, c, {x.name, y.name})
  BY <1>3, <1>4
<1>6. P!Back(o, b, c) = P!Back([op |-> "split", dim |-> n, parts |-> parts], b, c)
  <2>1. P!Back([op |-> "split", dim |-> n, parts |-> parts], b, c) = Elsewhere(n, z, c, {parts[j].name : j \in DOMAIN parts})
    BY <1>1 DEF P!Back, Elsewhere
  <2>2. QED
    BY <1>4, <2>1
<1>7. IsMoved(P!Back(o, b, c), c, n, P!Min(b[n]) + (Size(y) * (c[x.name] - x.start) + (c[y.name] - y.start)), {x.name, y.name})
  BY <1>6, SplitBack
<1>8. IsMoved(P!Back(o, b, c), c, n, z, {x.name, y.name})
  BY <1>5, ElsewhereIs
<1>9. P!Back(o, b, c) = Elsewhere(n, z, c, SplitNames(parts))
  BY <1>4 DEF SplitNames
<1>10. QED
  BY <1>7, <1>8, <1>9 DEF IsMoved

\* split (layout.py) into two parts.
LEMMA SplitGlues ==
  ASSUME NEW l, NEW n \in Names(l), NEW parts, NEW x, NEW y, TwoParts(parts, x, y), CanSplit(l, n, parts),
         x.name \in STRING, y.name \in STRING, NEW r, r = Split(l, n, parts), Both(l, r),
         NEW o, o.op = "split", o.dim = n, o.parts = parts
  PROVE  Tells(o, l, r)
<1>1. PICK d, a, b, w, e, f, g : /\ d = l.dims[n] /\ a = x.name /\ b = y.name /\ w = Size(y) /\ e = SplitConst(d, parts)
                                 /\ f = SplitDim(l, n, parts, 1) /\ g = SplitDim(l, n, parts, 2)
  OBVIOUS
<1>2. /\ IsLayout(l) /\ IsLayout(r) /\ IsCharted(l) /\ IsDim(d) /\ w \in Int /\ a # b /\ d.start \in Int /\ d.stop \in Int
      /\ x.start \in Int /\ x.stop \in Int /\ y.start \in Int /\ y.stop \in Int
      /\ Size(x) = x.stop - x.start /\ Size(y) = y.stop - y.start
  BY <1>1 DEF Both, TwoParts, IsPart, Size, IsLayout, IsDim
<1>3. /\ a \notin Names(l) \ {n} /\ b \notin Names(l) \ {n} /\ l.dims[n].labels = None
      /\ Size(x) * Size(y) = Size(l.dims[n])
      /\ Names(r) = (Names(l) \ {n}) \cup {a, b} /\ \A m \in Names(l) \ {n} : r.dims[m] = l.dims[m]
      /\ r.dims[a] = f /\ r.dims[b] = g
  BY <1>1, <1>2, SplitHas
<1>4. e \in Int /\ e = d.start - (w * x.start + y.start)
  BY <1>1, <1>2, SplitConstIs
<1>5. /\ f.start = x.start /\ f.stop = x.stop /\ f.labels = None
      /\ g.start = y.start /\ g.stop = y.stop /\ g.labels = None
      /\ l.dims[n].chart = None => f.chart = None /\ g.chart = None
      /\ l.dims[n].chart # None =>
           LET k == l.dims[n].chart
           IN  /\ f.chart = Chart(k.origin + e * k.step, Size(y) * k.step, k.kind, AxisOf(l, n))
               /\ g.chart = Chart(0, k.step, "displacement", AxisOf(l, n))
  BY <1>1, <1>2, SplitDimsAre
<1>6. Parted(l, r, n, a, b, w, e)
  BY <1>1, <1>2, <1>3, <1>4, <1>5 DEF Parted
<1>7. PICK B : B = BoxAt(l)
  OBVIOUS
<1>8. BoxAt(r) = P!NewBox(o, B)
  <2>1. PICK X, Y : X = x.start .. x.stop - 1 /\ Y = y.start .. y.stop - 1
    OBVIOUS
  <2>2. PICK h : /\ P!NewBox(o, B) = P!Override(h, P!Without(B, {n}))
                 /\ DOMAIN h = {a, b} /\ h[a] = X /\ h[b] = Y
    <3>1. TwoParts(parts, x, y) /\ o.op = "split" /\ o.parts = parts /\ o.dim = n
      OBVIOUS
    <3>2. PICK h : /\ P!NewBox(o, B) = P!Override(h, P!Without(B, {n}))
                   /\ DOMAIN h = SplitNames(parts) /\ SplitNames(parts) = {x.name, y.name}
                   /\ h[x.name] = x.start .. x.stop - 1 /\ h[y.name] = y.start .. y.stop - 1
      <4>1. HasSplitBox(o, B, n, parts, x, y)
        BY <3>1, SplitBox
      <4>2. QED
        BY <4>1 DEF HasSplitBox
    <3>3. DOMAIN h = {a, b} /\ h[a] = X /\ h[b] = Y
      BY <1>1, <2>1, <3>2
    <3>4. QED
      BY <3>2, <3>3
  <2>3. BoxAt(r) = [m \in (Names(l) \ {n}) \cup {a, b} |-> IF m = a THEN X ELSE IF m = b THEN Y ELSE B[m]]
    <3>1. f.start .. f.stop - 1 = X /\ g.start .. g.stop - 1 = Y
      BY <1>5, <2>1
    <3>2. BoxAt(r) = [m \in (Names(l) \ {n}) \cup {a, b} |-> r.dims[m].start .. r.dims[m].stop - 1]
      BY <1>3 DEF BoxAt
    <3>3. ASSUME NEW m \in (Names(l) \ {n}) \cup {a, b}
          PROVE  r.dims[m].start .. r.dims[m].stop - 1 = IF m = a THEN X ELSE IF m = b THEN Y ELSE B[m]
      <4>1. CASE m = a
        BY <1>3, <3>1, <4>1
      <4>2. CASE m = b
        BY <1>2, <1>3, <3>1, <4>2
      <4>3. CASE m # a /\ m # b
        <5>1. m \in Names(l) \ {n} /\ B[m] = l.dims[m].start .. l.dims[m].stop - 1
          BY <1>7, <4>3 DEF BoxAt
        <5>2. QED
          BY <1>3, <4>3, <5>1
      <4>4. QED
        BY <4>1, <4>2, <4>3
    <3>4. QED
      BY <3>2, <3>3
  <2>4. P!Override(h, P!Without(B, {n}))
          = [m \in (Names(l) \ {n}) \cup {a, b} |-> IF m = a THEN X ELSE IF m = b THEN Y ELSE B[m]]
    <3>1. DOMAIN B = Names(l) /\ {a, b} \cup (Names(l) \ {n}) = (Names(l) \ {n}) \cup {a, b}
      BY <1>7 DEF BoxAt
    <3>2. QED
      BY <1>2, <1>3, <2>2, <3>1 DEF P!Override, P!Without
  <2>5. QED
    BY <2>2, <2>3, <2>4
<1>9. ASSUME NEW c \in Domain(r), NEW p, p = P!Back(o, B, c) PROVE PartedBack(l, r, n, a, b, w, e, c, p)
  <2>1. /\ IsPoint(r, c) /\ DOMAIN c = Names(r)
        /\ c[a] \in x.start .. x.stop - 1 /\ c[b] \in y.start .. y.stop - 1
    <3>1. IsPoint(r, c) /\ DOMAIN c = Names(r) /\ \A m \in Names(r) : c[m] \in r.dims[m].start .. r.dims[m].stop - 1
      BY <1>2, InDomain
    <3>2. a \in Names(r) /\ b \in Names(r)
      BY <1>3
    <3>3. /\ r.dims[a].start = x.start /\ r.dims[a].stop = x.stop
          /\ r.dims[b].start = y.start /\ r.dims[b].stop = y.stop
      BY <1>3, <1>5
    <3>4. QED
      BY <3>1, <3>2, <3>3
  <2>2. PICK i, j : i = c[a] /\ j = c[b]
    OBVIOUS
  <2>3. i \in Int /\ j \in Int /\ x.start <= i /\ i < x.stop /\ y.start <= j /\ j < y.stop
    BY <1>2, <2>1, <2>2
  <2>4. d.start <= d.stop - 1
    <3>1. PICK u, v : u = Size(x) /\ v = Size(y)
      OBVIOUS
    <3>2. u \in Nat \ {0} /\ v \in Nat \ {0}
      BY <1>2, <2>3, <3>1
    <3>3. u * v >= 1
      BY <3>2
    <3>4. d.stop - d.start = u * v
      BY <1>1, <1>3, <3>1 DEF Size
    <3>5. QED
      BY <1>2, <3>2, <3>3, <3>4
  <2>5. P!Min(B[n]) = d.start
    <3>1. B[n] = d.start .. d.stop - 1
      BY <1>1, <1>7 DEF BoxAt
    <3>2. QED
      BY <1>2, <2>4, <3>1, PEnds
  <2>6. PICK z : /\ p = Elsewhere(n, z, c, {a, b})
                 /\ z = d.start + (w * (i - x.start) + (j - y.start))
    <3>1. P!Min(B[n]) \in Int /\ c[x.name] \in Int /\ c[y.name] \in Int
      BY <1>1, <1>2, <2>2, <2>3, <2>5
    <3>2. PICK z : /\ P!Back(o, B, c) = Elsewhere(n, z, c, SplitNames(parts))
                   /\ z = P!Min(B[n]) + (Size(y) * (c[x.name] - x.start) + (c[y.name] - y.start))
      BY <3>1, SplitPoint
    <3>3. SplitNames(parts) = {a, b}
      BY <1>1 DEF SplitNames, TwoParts
    <3>4. QED
      BY <1>1, <1>9, <2>2, <2>5, <3>2, <3>3
  <2>7. z = w * i + j + e
    <3>1. w * (i - x.start) = w * i - w * x.start
      BY <1>2, <2>3
    <3>2. w * i \in Int /\ w * x.start \in Int
      BY <1>2, <2>3, IntTimes
    <3>3. PICK u, v, t : u = w * i /\ v = w * x.start /\ t = w * (i - x.start)
      OBVIOUS
    <3>4. u \in Int /\ v \in Int /\ t = u - v /\ e = d.start - (v + y.start) /\ z = d.start + (t + (j - y.start))
      BY <1>4, <2>6, <3>1, <3>2, <3>3
    <3>5. z = u + j + e
      BY <1>2, <2>3, <3>4
    <3>6. QED
      BY <3>3, <3>5
  <2>8. \A m : m \in DOMAIN c \ {a, b} /\ m # n <=> m \in Names(l) \ {n}
    BY <1>3, <2>1
  <2>9. p = [m \in Names(l) |-> p[m]] /\ p[n] = z /\ \A m \in Names(l) \ {n} : p[m] = c[m]
    BY <2>6, <2>8, ElsewhereSpans
  <2>10. QED
    BY <2>2, <2>7, <2>9 DEF PartedBack
<1>10. QED
  BY <1>6, <1>7, <1>8, <1>9, PartedGlues

-----------------------------------------------------------------------------
(* MERGES                                                                   *)

\* The chart of a dim d that stands for m and n from start on, w steps of n being one of m.
EitherKind(j, k) == IF j.kind = "position" \/ k.kind = "position" THEN "position" ELSE "displacement"
FirstAt(l, m, n) == Phys(l.dims[m].chart, l.dims[m].start) + Phys(l.dims[n].chart, l.dims[n].start)
ChartsJoin(l, m, n, d, w, start) ==
  /\ l.dims[m].chart = None <=> l.dims[n].chart = None
  /\ l.dims[n].chart = None => d.chart = None
  /\ l.dims[n].chart # None =>
       /\ AxisOf(l, m) = AxisOf(l, n) /\ l.dims[m].chart.step = w * l.dims[n].chart.step
       /\ d.chart = Chart(FirstAt(l, m, n) - start * l.dims[n].chart.step, l.dims[n].chart.step,
                          EitherKind(l.dims[m].chart, l.dims[n].chart), AxisOf(l, n))
\* g is dims m and n of l: w steps of n are one of m, and the lowest g is start.
Joined(l, r, m, n, g, w, start) ==
  /\ Both(l, r) /\ m \in Names(l) /\ n \in Names(l) /\ m # n /\ g \in STRING /\ w \in Int /\ start \in Int
  /\ g \notin Names(l) \ {m, n} /\ l.dims[m].labels = None /\ l.dims[n].labels = None /\ r.dims[g].labels = None
  /\ Names(r) = (Names(l) \ {m, n}) \cup {g} /\ \A k \in Names(l) \ {m, n} : r.dims[k] = l.dims[k]
  /\ ChartsJoin(l, m, n, r.dims[g], w, start)

\* What the parts of a merge tell.
LEMMA JoinedCharts ==
  ASSUME NEW l, NEW r, NEW m, NEW n, NEW g, NEW w, NEW start, Joined(l, r, m, n, g, w, start), l.dims[n].chart # None
  PROVE  /\ l.dims[m].chart # None /\ l.dims[m].chart \in AllCharts /\ l.dims[n].chart \in AllCharts
         /\ l.dims[m].chart.origin \in Int /\ l.dims[m].chart.step \in Int
         /\ l.dims[n].chart.origin \in Int /\ l.dims[n].chart.step \in Int
         /\ l.dims[m].start \in Int /\ l.dims[n].start \in Int
<1>1. /\ l.dims[m].chart # None /\ m \in Names(l) /\ n \in Names(l) /\ IsTyped(l) /\ IsLayout(l)
  BY DEF Joined, ChartsJoin, Both
<1>2. l.dims[m].chart \in AllCharts /\ l.dims[n].chart \in AllCharts
  BY <1>1 DEF IsTyped
<1>3. \A k \in AllCharts : k.origin \in Int /\ k.step \in Int
  BY DEF AllCharts
<1>4. IsDim(l.dims[m]) /\ IsDim(l.dims[n])
  BY <1>1 DEF IsLayout
<1>5. QED
  BY <1>1, <1>2, <1>3, <1>4 DEF IsDim

\* A merged dim is on the axis of its parts, and tells a position when one of them does.
LEMMA JoinedMarks ==
  ASSUME NEW l, NEW r, NEW m, NEW n, NEW g, NEW w, NEW start, Joined(l, r, m, n, g, w, start)
  PROVE  /\ OfTypes(r.dims[g])
         /\ \A x : /\ g \in OnAxis(r, x) <=> n \in OnAxis(l, x)
                   /\ m \in OnAxis(l, x) <=> n \in OnAxis(l, x)
                   /\ g \in Position(r, x) <=> m \in Position(l, x) \/ n \in Position(l, x)
<1>1. PICK j, k, f, x : j = l.dims[m].chart /\ k = l.dims[n].chart /\ f = r.dims[g].chart /\ x = AxisOf(l, n)
  OBVIOUS
<1>2. /\ m \in Names(l) /\ n \in Names(l) /\ g \in Names(r) /\ r.dims[g].labels = None
      /\ IsTyped(l) /\ start \in Int
  BY DEF Joined, ChartsJoin, Both
<1>3. CASE k = None
  <2>1. f = None /\ j = None
    BY <1>1, <1>3 DEF Joined, ChartsJoin, FirstAt, EitherKind
  <2>2. OfTypes(r.dims[g])
    BY <1>1, <1>2, <2>1 DEF OfTypes
  <2>3. ASSUME NEW y
        PROVE  g \notin OnAxis(r, y) /\ m \notin OnAxis(l, y) /\ n \notin OnAxis(l, y)
    <3>1. r.dims[g].chart = None /\ l.dims[m].chart = None /\ l.dims[n].chart = None
      BY <1>1, <1>3, <2>1
    <3>2. QED
      BY <3>1 DEF OnAxis, Charted
  <2>4. QED
    BY <2>2, <2>3 DEF Position
<1>4. CASE k # None
  <2>1. n \in Charted(l)
    BY <1>1, <1>2, <1>4 DEF Charted
  <2>2. x \in STRING /\ x # None
    BY <1>1, <1>2, <2>1, AxisIs
  <2>3. /\ j # None /\ j \in AllCharts /\ k \in AllCharts /\ l.dims[m].start \in Int /\ l.dims[n].start \in Int
        /\ j.origin \in Int /\ j.step \in Int /\ k.origin \in Int /\ k.step \in Int
    BY <1>1, <1>4, JoinedCharts
  <2>4. PICK o, q : /\ o = FirstAt(l, m, n) - start * k.step
                    /\ q = EitherKind(j, k)
    OBVIOUS
  <2>5. o \in Int
    <3>1. PICK a, b, c : a = l.dims[m].start * j.step /\ b = l.dims[n].start * k.step /\ c = start * k.step
      OBVIOUS
    <3>2. a \in Int /\ b \in Int /\ c \in Int
      BY <1>2, <2>3, <3>1, IntTimes
    <3>3. FirstAt(l, m, n) = (j.origin + a) + (k.origin + b)
      BY <1>1, <3>1 DEF FirstAt, Phys
    <3>4. QED
      BY <2>3, <2>4, <3>1, <3>2, <3>3
  <2>6. f = Chart(o, k.step, q, x) /\ AxisOf(l, m) = x
    <3>1. /\ AxisOf(l, m) = AxisOf(l, n)
          /\ r.dims[g].chart = Chart(FirstAt(l, m, n) - start * l.dims[n].chart.step, l.dims[n].chart.step,
                                     EitherKind(l.dims[m].chart, l.dims[n].chart), AxisOf(l, n))
      BY <1>1, <1>4 DEF Joined, ChartsJoin
    <3>2. QED
      BY <1>1, <2>4, <3>1
  <2>7. q \in {"position", "displacement"}
    BY <2>4 DEF EitherKind
  <2>8. f \in AllCharts
    BY <2>2, <2>3, <2>5, <2>6, <2>7 DEF AllCharts, Chart
  <2>9. f.kind = q /\ f.axis = x
    BY <2>6 DEF Chart
  <2>10. AxisOf(r, g) = x
    BY <1>1, <2>2, <2>9 DEF AxisOf
  <2>11. f # None
    BY <2>8, NotNone
  <2>12. OfTypes(r.dims[g])
    BY <1>1, <1>2, <2>8 DEF OfTypes
  <2>13. q = "position" <=> j.kind = "position" \/ k.kind = "position"
    BY <2>4 DEF EitherKind
  <2>14. ASSUME NEW y
         PROVE  /\ (g \in OnAxis(r, y) <=> x = y) /\ (m \in OnAxis(l, y) <=> x = y) /\ (n \in OnAxis(l, y) <=> x = y)
                /\ g \in Position(r, y) <=> x = y /\ q = "position"
                /\ m \in Position(l, y) <=> x = y /\ j.kind = "position"
                /\ n \in Position(l, y) <=> x = y /\ k.kind = "position"
    <3>1. (g \in OnAxis(r, y) <=> x = y) /\ (g \in Position(r, y) <=> x = y /\ q = "position")
      BY <1>1, <1>2, <2>9, <2>10, <2>11, OnAxisIs
    <3>2. (m \in OnAxis(l, y) <=> x = y) /\ (m \in Position(l, y) <=> x = y /\ j.kind = "position")
      BY <1>1, <1>2, <2>3, <2>6, OnAxisIs
    <3>3. (n \in OnAxis(l, y) <=> x = y) /\ (n \in Position(l, y) <=> x = y /\ k.kind = "position")
      BY <1>1, <1>2, <1>4, OnAxisIs
    <3>4. QED
      BY <3>1, <3>2, <3>3
  <2>15. QED
    BY <2>12, <2>13, <2>14
<1>5. QED
  BY <1>3, <1>4

\* A merged dim tells what its parts did.
LEMMA JoinedPlaces ==
  ASSUME NEW l, NEW r, NEW m, NEW n, NEW g, NEW w, NEW start, Joined(l, r, m, n, g, w, start), NEW x,
         NEW c, IsPoint(r, c), NEW p, IsPoint(l, p), NEW i \in Int, NEW j \in Int, c[g] = start + (w * i + j),
         p[m] = l.dims[m].start + i, p[n] = l.dims[n].start + j, NEW N, N = {m, n}
  PROVE  PartAt(r, x, c, {g}) = PartAt(l, x, p, N)
<1>1. /\ IsLayout(l) /\ IsLayout(r) /\ IsCharted(l) /\ IsCharted(r) /\ n \in Names(l) /\ m \in Names(l) /\ g \in Names(r)
      /\ m # n /\ w \in Int /\ start \in Int
  BY DEF Joined, ChartsJoin, Both
<1>2. m \in N /\ n \in N /\ \A q \in N : q = m \/ q = n
  OBVIOUS
<1>3. PartAt(l, x, p, N) = PartOf(l, x, p, m) + PartOf(l, x, p, n)
  BY <1>1, <1>2, PartTwo
<1>4. /\ PartOf(l, x, p, m) = IF m \in OnAxis(l, x) THEN Phys(l.dims[m].chart, p[m]) ELSE 0
      /\ PartOf(l, x, p, n) = IF n \in OnAxis(l, x) THEN Phys(l.dims[n].chart, p[n]) ELSE 0
      /\ PartAt(r, x, c, {g}) = IF g \in OnAxis(r, x) THEN Phys(r.dims[g].chart, c[g]) ELSE 0
  BY <1>1, PartOne DEF PartOf
<1>5. (g \in OnAxis(r, x) <=> n \in OnAxis(l, x)) /\ (m \in OnAxis(l, x) <=> n \in OnAxis(l, x))
  BY JoinedMarks
<1>6. CASE n \notin OnAxis(l, x)
  BY <1>3, <1>4, <1>5, <1>6
<1>7. CASE n \in OnAxis(l, x)
  <2>1. l.dims[n].chart # None
    BY <1>7 DEF OnAxis, Charted
  <2>2. PICK h, k, o, e, s, t, a, b : /\ h = l.dims[m].chart /\ k = l.dims[n].chart /\ o = h.origin /\ e = k.origin
                                      /\ s = k.step /\ t = h.step /\ a = l.dims[m].start /\ b = l.dims[n].start
    OBVIOUS
  <2>3. o \in Int /\ e \in Int /\ s \in Int /\ t \in Int /\ a \in Int /\ b \in Int
    BY <2>1, <2>2, JoinedCharts
  <2>4. t = w * s
    BY <2>1, <2>2 DEF Joined, ChartsJoin, FirstAt, EitherKind
  <2>5. /\ r.dims[g].chart.origin = FirstAt(l, m, n) - start * s
        /\ r.dims[g].chart.step = s
    <3>1. r.dims[g].chart = Chart(FirstAt(l, m, n) - start * l.dims[n].chart.step, l.dims[n].chart.step,
                                  EitherKind(l.dims[m].chart, l.dims[n].chart), AxisOf(l, n))
      BY <2>1 DEF Joined, ChartsJoin
    <3>2. r.dims[g].chart.origin = FirstAt(l, m, n) - start * l.dims[n].chart.step /\ r.dims[g].chart.step = l.dims[n].chart.step
      BY <3>1 DEF Chart
    <3>3. QED
      BY <2>2, <3>2
  <2>6. PICK F : /\ F = (o + a * t) + (e + b * s)
                 /\ Phys(r.dims[g].chart, c[g]) = (F - start * s) + (start + (w * i + j)) * s
    <3>1. FirstAt(l, m, n) = (o + a * t) + (e + b * s)
      BY <2>2 DEF FirstAt, Phys
    <3>2. Phys(r.dims[g].chart, c[g]) = (FirstAt(l, m, n) - start * s) + (start + (w * i + j)) * s
      BY <2>5 DEF Phys
    <3>3. QED
      BY <3>1, <3>2
  <2>7. Phys(h, p[m]) = o + (a + i) * t /\ Phys(k, p[n]) = e + (b + j) * s
    BY <2>2 DEF Phys
  <2>8. (F - start * s) + (start + (w * i + j)) * s = (o + (a + i) * t) + (e + (b + j) * s)
    BY <1>1, <2>3, <2>4, <2>6
  <2>9. QED
    BY <1>3, <1>4, <1>5, <1>7, <2>2, <2>6, <2>7, <2>8
<1>8. QED
  BY <1>6, <1>7

\* Where one dim stands for two, positions stay with the data.
JoinedBack(l, r, m, n, g, w, start, c, p) ==
  /\ p = [k \in Names(l) |-> p[k]] /\ \A k \in Names(l) \ {m, n} : p[k] = c[k]
  /\ \E i, j \in Int : c[g] = start + (w * i + j) /\ p[m] = l.dims[m].start + i /\ p[n] = l.dims[n].start + j

\* One dim in the place of two keeps positions and labels when its coordinate counts through both.
LEMMA JoinedGlues ==
  ASSUME NEW l, NEW r, NEW m, NEW n, NEW g, NEW w, NEW start, Joined(l, r, m, n, g, w, start), NEW o, o.op = "merge",
         BoxAt(r) = P!NewBox(o, BoxAt(l)),
         \A c \in Domain(r) : JoinedBack(l, r, m, n, g, w, start, c, P!Back(o, BoxAt(l), c))
  PROVE  Tells(o, l, r)
<1>1. /\ Both(l, r) /\ m \in Names(l) /\ n \in Names(l) /\ l.dims[m].labels = None /\ l.dims[n].labels = None
      /\ Names(r) = (Names(l) \ {m, n}) \cup {g} /\ \A k \in Names(l) \ {m, n} : r.dims[k] = l.dims[k]
      /\ r.dims[g].labels = None /\ IsLayout(l) /\ IsLayout(r) /\ IsTyped(l)
      /\ g \notin Names(l) \ {m, n} /\ g \in STRING
  BY DEF Joined, ChartsJoin, Both
<1>2. /\ OfTypes(r.dims[g])
      /\ \A x : g \in Position(r, x) <=> m \in Position(l, x) \/ n \in Position(l, x)
  BY JoinedMarks
<1>3. PICK G, N : G = {m, n} /\ N = {g}
  OBVIOUS
<1>4. Swaps(l, r, G, N)
  BY <1>1, <1>3 DEF Swaps, Both
<1>5. IsTyped(r)
  BY <1>1, <1>2 DEF IsTyped, OfTypes
<1>6. ASSUME NEW x PROVE Hands(l, r, G, N, x)
  <2>1. ASSUME NEW q \in G, Position(l, x) = {q} PROVE Position(r, x) \cap N = {g}
    BY <1>2, <1>3, <2>1
  <2>2. QED
    BY <1>2, <1>3, <2>1 DEF Hands
<1>7. SwapOp(o, l, r, G, N)
  <2>1. o.op \notin P!Relabels \cup {"recenter", "rename"}
    BY DEF P!Relabels
  <2>2. \A k \in Names(l) \ G : r.dims[k] = l.dims[k]
    BY <1>1, <1>3
  <2>3. \A k \in N : r.dims[k].labels = None
    BY <1>1, <1>3
  <2>4. \A k \in G : l.dims[k].labels = None
    BY <1>1, <1>3
  <2>5. QED
    BY <1>1, <1>4, <1>5, <1>6, <2>1, <2>2, <2>3, <2>4 DEF SwapOp
<1>8. ASSUME NEW c \in Domain(r), NEW p, p = P!Back(o, BoxAt(l), c) PROVE SwapPoint(o, l, r, G, N, c, p)
  <2>1. JoinedBack(l, r, m, n, g, w, start, c, p)
    BY <1>8
  <2>2. IsPoint(r, c)
    BY <1>1, InDomain
  <2>3. IsPoint(l, p) => \A x : PartAt(r, x, c, N) = PartAt(l, x, p, G)
    <3>1. PICK i \in Int, j \in Int : c[g] = start + (w * i + j) /\ p[m] = l.dims[m].start + i /\ p[n] = l.dims[n].start + j
      BY <2>1 DEF JoinedBack
    <3>2. ASSUME IsPoint(l, p), NEW x PROVE PartAt(r, x, c, {g}) = PartAt(l, x, p, G)
      BY <1>3, <2>2, <3>1, <3>2, JoinedPlaces
    <3>3. QED
      BY <1>3, <3>2
  <2>4. QED
    BY <1>3, <2>1, <2>3 DEF SwapPoint, JoinedBack
<1>9. QED
  BY <1>7, <1>8, SwapGlues

\* Two dims of a layout that a merge takes, in that order.
Merges(l, m, n, parts, name, start) ==
  /\ IsLayout(l) /\ IsCharted(l) /\ m \in Names(l) /\ n \in Names(l) /\ m # n /\ parts = <<m, n>>
  /\ CanMerge(l, parts, name) /\ start \in Int
  /\ l.dims[m].start <= l.dims[m].stop /\ l.dims[n].start <= l.dims[n].stop

\* What a merge of two dims changes.
LEMMA MergeHas ==
  ASSUME NEW l, NEW m, NEW n, NEW parts, NEW name, NEW start, Merges(l, m, n, parts, name, start),
         NEW r, r = Merge(l, parts, name, start)
  PROVE  /\ name \notin Names(l) \ {m, n} /\ l.dims[m].labels = None /\ l.dims[n].labels = None
         /\ Names(r) = (Names(l) \ {m, n}) \cup {name}
         /\ \A k \in Names(l) \ {m, n} : r.dims[k] = l.dims[k]
         /\ r.dims[name] = MergeDim(l, parts, start) /\ MergesCharts(l, parts)
<1>1. parts[1] = m /\ parts[2] = n /\ DOMAIN parts = {1, 2} /\ Range(parts) = {m, n} /\ CanMerge(l, parts, name)
  <2>1. parts = <<m, n>>
    BY DEF Merges
  <2>2. parts[1] = m /\ parts[2] = n /\ DOMAIN parts = {1, 2}
    BY <2>1
  <2>3. QED
    BY <2>2 DEF Range, Merges
<1>2. name \notin Names(l) \ {m, n} /\ l.dims[m].labels = None /\ l.dims[n].labels = None /\ MergesCharts(l, parts)
  BY <1>1 DEF CanMerge
<1>3. PICK new, delta : /\ new = Single(name, MergeDim(l, parts, start))
                        /\ delta = Sigma(LAMBDA i : l.dims[i].stride * l.dims[i].start, Range(parts))
                                     - l.dims[Last(parts)].stride * start
  OBVIOUS
<1>4. r = Put(l, Range(parts), new, delta)
  BY <1>3 DEF Merge, MergeDim
<1>5. DOMAIN new = {name} /\ new[name] = MergeDim(l, parts, start)
  BY <1>3 DEF Single
<1>6. /\ Names(r) = (Names(l) \ {m, n}) \cup {name}
      /\ \A k \in Names(l) \ {m, n} : r.dims[k] = l.dims[k]
      /\ r.dims[name] = new[name]
  BY <1>1, <1>2, <1>4, <1>5 DEF Put, Override, Drop, Names
<1>7. QED
  BY <1>2, <1>5, <1>6

\* The dim of a merge.
LEMMA MergeDimIs ==
  ASSUME NEW l, NEW m, NEW n, NEW parts, NEW name, NEW start, Merges(l, m, n, parts, name, start), MergesCharts(l, parts),
         NEW d, d = MergeDim(l, parts, start), NEW w, w = Size(l.dims[n])
  PROVE  /\ d.start = start /\ d.stop = start + Size(l.dims[m]) * w /\ d.labels = None
         /\ ChartsJoin(l, m, n, d, w, start)
<1>1. /\ IsLayout(l) /\ IsCharted(l) /\ m \in Names(l) /\ n \in Names(l) /\ m # n /\ parts = <<m, n>>
  BY DEF Merges
<1>2. /\ parts[1] = m /\ parts[2] = n /\ DOMAIN parts = {1, 2} /\ Len(parts) = 2 /\ Head(parts) = m
  BY <1>1
<1>3. Last(parts) = n /\ Range(parts) = {m, n}
  BY <1>2 DEF Last, Range
<1>4. RadixWeight(l, parts, 0) = Size(l.dims[m]) * w /\ RadixWeight(l, parts, 1) = w
  BY <1>1, RadixWeights
<1>5. /\ d.start = start /\ d.stop = start + Size(l.dims[m]) * w /\ d.labels = None /\ d.chart = MergedChart(l, parts, start)
  BY <1>4 DEF MergeDim, Dim
<1>6. CASE Range(parts) \cap Charted(l) = {}
  <2>1. l.dims[m].chart = None /\ l.dims[n].chart = None
    BY <1>1, <1>3, <1>6 DEF Charted
  <2>2. d.chart = None
    BY <1>5, <1>6 DEF MergedChart
  <2>3. QED
    BY <1>5, <2>1, <2>2 DEF ChartsJoin
<1>7. CASE Range(parts) \cap Charted(l) # {}
  <2>1. PICK C, X : C = Range(parts) \cap Charted(l) /\ X = {AxisOf(l, k) : k \in C}
    OBVIOUS
  <2>2. /\ C = Range(parts) /\ Cardinality(X) = 1
        /\ \A j \in DOMAIN parts : l.dims[parts[j]].chart.step = RadixWeight(l, parts, j) * l.dims[Last(parts)].chart.step
    BY <1>7, <2>1 DEF MergesCharts
  <2>3. m \in C /\ n \in C /\ m \in Charted(l) /\ n \in Charted(l)
    BY <1>3, <2>1, <2>2
  <2>4. AxisOf(l, m) = AxisOf(l, n)
    <3>1. IsFiniteSet(X)
      <4>1. PICK a, b : a = AxisOf(l, m) /\ b = AxisOf(l, n)
        OBVIOUS
      <4>2. X = {a} \cup {b}
        BY <1>3, <2>1, <2>2, <4>1
      <4>3. IsFiniteSet({a} \cup {b})
        BY FS_Singleton, FS_Union
      <4>4. QED
        BY <4>2, <4>3
    <3>2. PICK a : X = {a}
      BY <2>2, <3>1, FS_Singleton
    <3>3. AxisOf(l, m) \in X /\ AxisOf(l, n) \in X
      BY <2>1, <2>3
    <3>4. QED
      BY <3>2, <3>3
  <2>5. l.dims[m].chart.step = w * l.dims[n].chart.step
    BY <1>2, <1>3, <1>4, <2>2
  <2>6. l.dims[m].chart # None /\ l.dims[n].chart # None
    BY <2>3 DEF Charted
  <2>7. PICK f : f = [k \in {m, n} |-> Phys(l.dims[k].chart, l.dims[k].start)]
    OBVIOUS
  <2>8. f[m] = Phys(l.dims[m].chart, l.dims[m].start) /\ f[n] = Phys(l.dims[n].chart, l.dims[n].start)
    BY <2>7
  <2>9. f \in [{m, n} -> Int]
    <3>1. ASSUME NEW k \in {m, n} PROVE Phys(l.dims[k].chart, l.dims[k].start) \in Int
      <4>1. l.dims[k].chart # None /\ IsChart(l.dims[k].chart) /\ l.dims[k].start \in Int
        BY <1>1, <2>6 DEF IsCharted, IsLayout, IsDim
      <4>2. QED
        BY <4>1, ChartHas
    <3>2. QED
      BY <2>7, <3>1
  <2>10. SumFunction(f) = f[m] + f[n]
    BY <1>1, <2>9, SumTwo
  <2>11. Sigma(LAMBDA k : Phys(l.dims[k].chart, l.dims[k].start), Range(parts)) = SumFunction(f)
    BY <1>3, <2>7 DEF Sigma
  <2>12. PICK q : q = AnyPosition(l, Range(parts))
    OBVIOUS
  <2>13. q = IF l.dims[m].chart.kind = "position" \/ l.dims[n].chart.kind = "position" THEN "position" ELSE "displacement"
    BY <1>3, <2>12 DEF AnyPosition
  <2>14. d.chart = Chart(SumFunction(f) - start * l.dims[n].chart.step, l.dims[n].chart.step, q, AxisOf(l, m))
    BY <1>2, <1>3, <1>5, <1>7, <2>11, <2>12 DEF MergedChart
  <2>15. PICK s, o, a : s = l.dims[n].chart.step /\ o = SumFunction(f) - start * s /\ a = AxisOf(l, n)
    OBVIOUS
  <2>16. o = FirstAt(l, m, n) - start * s
    BY <2>8, <2>10, <2>15 DEF FirstAt
  <2>17. d.chart = Chart(o, s, q, a)
    BY <2>4, <2>14, <2>15
  <2>18. d.chart = Chart(FirstAt(l, m, n) - start * l.dims[n].chart.step, l.dims[n].chart.step,
                         EitherKind(l.dims[m].chart, l.dims[n].chart), AxisOf(l, n))
    BY <2>13, <2>15, <2>16, <2>17, Zenon DEF EitherKind
  <2>19. ChartsJoin(l, m, n, d, w, start)
    BY <2>4, <2>5, <2>6, <2>18, Zenon DEF ChartsJoin
  <2>20. QED
    BY <1>5, <2>19
<1>8. QED
  BY <1>6, <1>7

\* The box of a merge of two.
JoinedBox(b, m, n, name, start, t) == P!Override(P!Single(name, start .. start + t - 1), P!Without(b, {m, n}))

\* The box that PointMaps says a merge makes.
LEMMA MergeBoxIs ==
  ASSUME NEW o, o.op = "merge", NEW m, NEW n, NEW parts, parts = <<m, n>>, o.parts = parts,
         NEW name, o.new = name, NEW start, o.start = start,
         NEW b, NEW sm \in Int, NEW sn \in Int, P!Cardinality(b[m]) = sm, P!Cardinality(b[n]) = sn
  PROVE  P!NewBox(o, b) = JoinedBox(b, m, n, name, start, sm * sn)
<1>1. DOMAIN parts = {1, 2} /\ Len(parts) = 2 /\ parts[1] = m /\ parts[2] = n
  OBVIOUS
<1>2. P!Range(parts) = {m, n}
  BY <1>1 DEF P!Range
<1>3. PICK g : g = [i \in (0 + 1) .. Len(parts) |-> P!Cardinality(b[parts[i]])]
  OBVIOUS
<1>4. g = Extents(sm, sn, 0)
  BY <1>1, <1>3 DEF Extents
<1>5. P!Below(b, parts, 0) = sm * sn
  <2>1. P!Below(b, parts, 0) = P!Multiplied(g)
    BY <1>3 DEF P!Below
  <2>2. Mult(g) = sm * sn
    BY <1>4, TwoDigits
  <2>3. QED
    BY <2>1, <2>2, PMult
<1>6. P!NewBox(o, b) = P!Override(P!Single(name, start .. start + P!Below(b, parts, 0) - 1), P!Without(b, P!Range(parts)))
  BY DEF P!NewBox
<1>7. QED
  BY <1>2, <1>5, <1>6 DEF JoinedBox

\* The point two dims have when one stands for them has the names it should.
LEMMA MergeSpans ==
  ASSUME NEW o, o.op = "merge", NEW m, NEW n, NEW parts, parts = <<m, n>>, o.parts = parts,
         NEW name, o.new = name, NEW b, NEW c, NEW p, p = P!Back(o, b, c),
         NEW S, DOMAIN c = (S \ {m, n}) \cup {name}, name \notin S \ {m, n}, m \in S, n \in S
  PROVE  p = [k \in S |-> p[k]]
<1>1. DOMAIN parts = {1, 2} /\ parts[1] = m /\ parts[2] = n
  OBVIOUS
<1>2. P!Range(parts) = {m, n}
  BY <1>1 DEF P!Range
<1>3. PICK f : f = [k \in P!Range(parts) |->
                      LET j == CHOOSE j \in DOMAIN parts : parts[j] = k
                      IN  P!Min(b[k]) + (((c[name] - o.start) \div P!Below(b, parts, j)) % P!Cardinality(b[k]))]
  OBVIOUS
<1>4. p = P!Override(f, P!Without(c, {name}))
  BY <1>3 DEF P!Back
<1>5. DOMAIN f = {m, n}
  BY <1>2, <1>3
<1>6. {m, n} \cup (DOMAIN c \ {name}) = S
  OBVIOUS
<1>7. QED
  BY <1>4, <1>5, <1>6 DEF P!Override, P!Without

\* merge (layout.py) of two dims.
LEMMA MergeGlues ==
  ASSUME NEW l, NEW m, NEW n, NEW parts, NEW name \in STRING, NEW start, Merges(l, m, n, parts, name, start),
         NEW r, r = Merge(l, parts, name, start), Both(l, r),
         NEW o, o.op = "merge", o.parts = parts, o.new = name, o.start = start
  PROVE  Tells(o, l, r)
<1>1. PICK d, sm, sn, lm, ln : /\ d = MergeDim(l, parts, start) /\ sm = Size(l.dims[m]) /\ sn = Size(l.dims[n])
                               /\ lm = l.dims[m].start /\ ln = l.dims[n].start
  OBVIOUS
<1>2. /\ IsLayout(l) /\ IsLayout(r) /\ IsCharted(l) /\ m \in Names(l) /\ n \in Names(l) /\ m # n /\ parts = <<m, n>>
      /\ start \in Int /\ l.dims[m].start <= l.dims[m].stop /\ l.dims[n].start <= l.dims[n].stop
  BY DEF Merges, Both
<1>3. /\ name \notin Names(l) \ {m, n} /\ l.dims[m].labels = None /\ l.dims[n].labels = None
      /\ Names(r) = (Names(l) \ {m, n}) \cup {name}
      /\ \A k \in Names(l) \ {m, n} : r.dims[k] = l.dims[k]
      /\ r.dims[name] = d /\ MergesCharts(l, parts)
  BY <1>1, MergeHas
<1>4. /\ lm \in Int /\ ln \in Int /\ sm \in Nat /\ sn \in Nat
      /\ l.dims[m].stop \in Int /\ l.dims[n].stop \in Int
      /\ sm = l.dims[m].stop - lm /\ sn = l.dims[n].stop - ln
  BY <1>1, <1>2 DEF IsLayout, IsDim, Size
<1>5. Joined(l, r, m, n, name, sn, start) /\ d.start = start /\ d.stop = start + sm * sn
  <2>1. /\ d.start = start /\ d.stop = start + sm * sn /\ d.labels = None
        /\ ChartsJoin(l, m, n, d, sn, start)
    BY <1>1, <1>3, MergeDimIs
  <2>2. QED
    BY <1>2, <1>3, <1>4, <2>1 DEF Joined
<1>6. PICK b : b = BoxAt(l)
  OBVIOUS
<1>7. /\ b[m] = lm .. l.dims[m].stop - 1 /\ b[n] = ln .. l.dims[n].stop - 1 /\ DOMAIN b = Names(l)
      /\ P!Cardinality(b[m]) = sm /\ P!Cardinality(b[n]) = sn
  <2>1. b[m] = lm .. l.dims[m].stop - 1 /\ b[n] = ln .. l.dims[n].stop - 1 /\ DOMAIN b = Names(l)
    BY <1>1, <1>2, <1>6 DEF BoxAt
  <2>2. Cardinality(b[m]) = sm /\ Cardinality(b[n]) = sn
    BY <1>1, <1>2, <1>4, <2>1, IntervalSize
  <2>3. QED
    BY <2>1, <2>2, PSize
<1>8. BoxAt(r) = P!NewBox(o, b)
  <2>1. PICK t : t = sm * sn
    OBVIOUS
  <2>2. P!NewBox(o, b) = JoinedBox(b, m, n, name, start, t)
    <3>1. sm \in Int /\ sn \in Int
      BY <1>4
    <3>2. P!NewBox(o, b) = JoinedBox(b, m, n, name, start, sm * sn)
      BY <1>2, <1>7, <3>1, MergeBoxIs
    <3>3. QED
      BY <2>1, <3>2, Zenon
  <2>3. BoxAt(r) = [k \in (Names(l) \ {m, n}) \cup {name} |-> r.dims[k].start .. r.dims[k].stop - 1]
    BY <1>3 DEF BoxAt
  <2>4. ASSUME NEW k \in (Names(l) \ {m, n}) \cup {name}
        PROVE  r.dims[k].start .. r.dims[k].stop - 1 = IF k = name THEN start .. start + t - 1 ELSE b[k]
    <3>1. CASE k = name
      <4>1. r.dims[k].start = start /\ r.dims[k].stop = start + t
        BY <1>3, <1>5, <2>1, <3>1, Zenon
      <4>2. start .. start + t - 1 = IF k = name THEN start .. start + t - 1 ELSE b[k]
        BY <3>1, Zenon
      <4>3. r.dims[k].start .. r.dims[k].stop - 1 = start .. start + t - 1
        <5>1. t \in Int
          BY <1>4, <2>1, IntTimes
        <5>2. QED
          BY <1>2, <4>1, <5>1
      <4>4. QED
        BY <4>2, <4>3, Zenon
    <3>2. CASE k # name
      <4>1. k \in Names(l) \ {m, n} /\ b[k] = l.dims[k].start .. l.dims[k].stop - 1
        BY <1>6, <3>2 DEF BoxAt
      <4>2. QED
        BY <1>3, <3>2, <4>1
    <3>3. QED
      BY <3>1, <3>2
  <2>5. {name} \cup (DOMAIN b \ {m, n}) = (Names(l) \ {m, n}) \cup {name}
    BY <1>7
  <2>6. JoinedBox(b, m, n, name, start, t)
          = [k \in (Names(l) \ {m, n}) \cup {name} |-> IF k = name THEN start .. start + t - 1 ELSE b[k]]
    BY <1>3, <2>5 DEF JoinedBox, P!Override, P!Single, P!Without
  <2>7. QED
    BY <2>2, <2>3, <2>4, <2>6
<1>9. ASSUME NEW c \in Domain(r), NEW p, p = P!Back(o, b, c) PROVE JoinedBack(l, r, m, n, name, sn, start, c, p)
  <2>1. DOMAIN c = Names(r) /\ \A j \in Names(r) : c[j] \in r.dims[j].start .. r.dims[j].stop - 1
    BY <1>2, InDomain
  <2>2. PICK t, q : t = sm * sn /\ q = c[name] - start
    OBVIOUS
  <2>3. t \in Int
    BY <1>4, <2>2, IntTimes
  <2>4. c[name] \in start .. start + t - 1
    <3>1. c[name] \in d.start .. d.stop - 1
      BY <1>3, <2>1
    <3>2. d.start = start /\ d.stop = start + t
      BY <1>5, <2>2, Zenon
    <3>3. QED
      BY <1>2, <2>3, <3>1, <3>2
  <2>5. IsDigits(q, sm, sn) /\ q \in Int
    BY <1>2, <1>4, <2>2, <2>3, <2>4 DEF IsDigits
  <2>6. sm > 0 /\ sn > 0 /\ q \div sn \in 0 .. sm - 1 /\ q % sn \in 0 .. sn - 1 /\ sn * (q \div sn) + (q % sn) = q
    BY <2>5, Digits DEF IsDigits
  <2>7. MergeBox(b, m, n, sm, sn, lm, ln)
    <3>1. P!Min(b[m]) = lm /\ P!Min(b[n]) = ln
      <4>1. lm <= l.dims[m].stop - 1 /\ ln <= l.dims[n].stop - 1 /\ l.dims[m].stop - 1 \in Int /\ l.dims[n].stop - 1 \in Int
        BY <1>4, <2>6
      <4>2. QED
        BY <1>4, <1>7, <4>1, PEnds
    <3>2. QED
      BY <1>4, <1>7, <3>1 DEF MergeBox
  <2>8. PICK z : z = [op |-> "merge", parts |-> parts, new |-> name, start |-> start]
    OBVIOUS
  <2>9. p = P!Back(z, b, c)
    BY <1>9, <2>8 DEF P!Back
  <2>10. MergedBack(p, c, m, n, name, start, sn, lm, ln)
    <3>1. IsMergeOp(z, m, n, parts, name, start)
      BY <1>2, <2>8 DEF IsMergeOp
    <3>2. IsDigits(c[name] - start, sm, sn)
      BY <2>2, <2>5
    <3>3. MergedBack(P!Back(z, b, c), c, m, n, name, start, sn, lm, ln)
      BY <2>7, <3>1, <3>2, MergeBack
    <3>4. QED
      BY <2>9, <3>3
  <2>11. PICK i \in Int, j \in Int : i = q \div sn /\ j = q % sn
    BY <2>6
  <2>12. /\ p[m] = lm + i /\ p[n] = ln + j /\ \A k \in DOMAIN c \ {m, n, name} : p[k] = c[k]
         /\ c[name] = start + (sn * i + j)
    <3>1. p[m] = lm + i /\ p[n] = ln + j /\ \A k \in DOMAIN c \ {m, n, name} : p[k] = c[k]
      BY <2>2, <2>10, <2>11 DEF MergedBack
    <3>2. sn * i + j = q
      BY <2>6, <2>11
    <3>3. c[name] = start + q
      BY <1>2, <2>2, <2>3, <2>4
    <3>4. QED
      BY <3>1, <3>2, <3>3
  <2>13. p = [k \in Names(l) |-> p[k]]
    <3>1. DOMAIN c = (Names(l) \ {m, n}) \cup {name}
      BY <1>3, <2>1
    <3>2. QED
      BY <1>2, <1>3, <1>9, <3>1, MergeSpans
  <2>14. \A k \in Names(l) \ {m, n} : p[k] = c[k]
    BY <1>3, <2>1, <2>12
  <2>15. QED
    BY <1>1, <2>11, <2>12, <2>13, <2>14 DEF JoinedBack
<1>10. QED
  BY <1>5, <1>6, <1>8, <1>9, JoinedGlues

-----------------------------------------------------------------------------
(* DIAGONALS                                                                *)

\* Two dims of a layout that a diagonal takes.
Crosses(l, parts, x, y, name) ==
  /\ IsLayout(l) /\ IsCharted(l) /\ IsTyped(l) /\ x \in Names(l) /\ y \in Names(l) /\ x # y /\ parts = {x, y}
  /\ CanDiagonal(l, parts, name)

\* The chart of a diagonal, when it has one, adds those of its parts.
LEMMA DiagonalChartIs ==
  ASSUME NEW l, NEW parts, NEW x, NEW y, NEW name, Crosses(l, parts, x, y, name),
         NEW k, k = DiagonalChart(l, parts), k # None
  PROVE  /\ x \in Charted(l) /\ y \in Charted(l) /\ AxisOf(l, x) = AxisOf(l, y) /\ k \in AllCharts
         /\ k.axis = AxisOf(l, x) /\ k.axis \in STRING /\ k.axis # None
         /\ k.origin = l.dims[x].chart.origin + l.dims[y].chart.origin
         /\ k.step = l.dims[x].chart.step + l.dims[y].chart.step
         /\ l.dims[x].chart.origin \in Int /\ l.dims[y].chart.origin \in Int
         /\ l.dims[x].chart.step \in Int /\ l.dims[y].chart.step \in Int
<1>1. IsLayout(l) /\ IsTyped(l) /\ x \in Names(l) /\ y \in Names(l) /\ x # y /\ parts = {x, y}
  BY DEF Crosses
<1>2. PICK f, g, X : /\ f = [n \in parts |-> l.dims[n].chart.step] /\ g = [n \in parts |-> l.dims[n].chart.origin]
                     /\ X = {AxisOf(l, n) : n \in parts}
  OBVIOUS
<1>3. SumFunction(f) = Sigma(LAMBDA n : l.dims[n].chart.step, parts)
  BY <1>2 DEF Sigma
<1>4. SumFunction(g) = Sigma(LAMBDA n : l.dims[n].chart.origin, parts)
  BY <1>2 DEF Sigma
<1>5. PICK q : q = AnyPosition(l, parts)
  OBVIOUS
<1>6. /\ parts \subseteq Charted(l) /\ Cardinality(X) = 1
      /\ k = Chart(SumFunction(g), SumFunction(f), q, CHOOSE a \in X : TRUE)
  BY <1>2, <1>3, <1>4, <1>5 DEF DiagonalChart
<1>7. x \in Charted(l) /\ y \in Charted(l)
  BY <1>1, <1>6
<1>8. \A n \in parts : l.dims[n].chart \in AllCharts
  BY <1>1, <1>6 DEF IsTyped, Charted
<1>9. \A n \in parts : l.dims[n].chart.origin \in Int /\ l.dims[n].chart.step \in Int
  BY <1>8 DEF AllCharts
<1>10. f \in [{x, y} -> Int] /\ g \in [{x, y} -> Int]
  BY <1>1, <1>2, <1>9
<1>11. SumFunction(f) = f[x] + f[y] /\ SumFunction(g) = g[x] + g[y]
  BY <1>1, <1>10, SumTwo
<1>12. /\ f[x] = l.dims[x].chart.step /\ f[y] = l.dims[y].chart.step
       /\ g[x] = l.dims[x].chart.origin /\ g[y] = l.dims[y].chart.origin
  BY <1>1, <1>2
<1>13. AxisOf(l, x) = AxisOf(l, y) /\ (CHOOSE a \in X : TRUE) = AxisOf(l, x)
  <2>1. PICK a, b : a = AxisOf(l, x) /\ b = AxisOf(l, y)
    OBVIOUS
  <2>2. X = {a} \cup {b}
    BY <1>1, <1>2, <2>1
  <2>3. IsFiniteSet({a} \cup {b})
    BY FS_Singleton, FS_Union
  <2>4. PICK e : X = {e}
    BY <1>6, <2>2, <2>3, FS_Singleton
  <2>5. QED
    BY <2>1, <2>2, <2>4
<1>14. k = Chart(SumFunction(g), SumFunction(f), q, AxisOf(l, x))
  BY <1>6, <1>13
<1>15. k.origin = SumFunction(g) /\ k.step = SumFunction(f) /\ k.kind = q /\ k.axis = AxisOf(l, x)
  BY <1>14 DEF Chart
<1>16. AxisOf(l, x) \in STRING /\ AxisOf(l, x) # None
  BY <1>1, <1>7, AxisIs
<1>17. x \in parts /\ y \in parts
  BY <1>1
<1>18. SumFunction(g) \in Int /\ SumFunction(f) \in Int
  BY <1>9, <1>11, <1>12, <1>17
<1>19. q \in {"position", "displacement"}
  BY <1>5 DEF AnyPosition
<1>20. k \in AllCharts
  BY <1>14, <1>16, <1>18, <1>19 DEF AllCharts, Chart
<1>21. QED
  BY <1>7, <1>9, <1>11, <1>12, <1>13, <1>15, <1>16, <1>17, <1>20

\* What a diagonal of two dims changes.
LEMMA DiagonalHas ==
  ASSUME NEW l, NEW parts, NEW x, NEW y, NEW name, Crosses(l, parts, x, y, name),
         NEW r, r = Diagonal(l, parts, name)
  PROVE  /\ name \notin Names(l) \ parts /\ l.dims[x].labels = None /\ l.dims[y].labels = None
         /\ Names(r) = (Names(l) \ parts) \cup {name}
         /\ \A k \in Names(l) \ parts : r.dims[k] = l.dims[k]
         /\ r.dims[name].labels = None /\ r.dims[name].chart = DiagonalChart(l, parts)
<1>1. /\ name \notin Names(l) \ parts /\ \A n \in parts : l.dims[n].labels = None
      /\ x \in parts /\ y \in parts
  BY DEF Crosses, CanDiagonal
<1>2. PICK d : d.labels = None /\ d.chart = DiagonalChart(l, parts) /\ r = Put(l, parts, Single(name, d), 0)
  BY DEF Diagonal, Dim
<1>3. PICK new : new = Single(name, d)
  OBVIOUS
<1>4. DOMAIN new = {name} /\ new[name] = d
  BY <1>3 DEF Single
<1>5. /\ Names(r) = (Names(l) \ parts) \cup {name}
      /\ \A k \in Names(l) \ parts : r.dims[k] = l.dims[k]
      /\ r.dims[name] = new[name]
  BY <1>1, <1>2, <1>3, <1>4 DEF Put, Override, Drop, Names
<1>6. QED
  BY <1>1, <1>2, <1>4, <1>5

\* The bounds of a diagonal are the coordinates both parts have.
LEMMA DiagonalBounds ==
  ASSUME NEW l, NEW parts, NEW x, NEW y, NEW name, Crosses(l, parts, x, y, name),
         NEW r, r = Diagonal(l, parts, name)
  PROVE  r.dims[name].start .. r.dims[name].stop - 1
           = {i \in Int : l.dims[x].start <= i /\ i < l.dims[x].stop /\ l.dims[y].start <= i /\ i < l.dims[y].stop}
<1>1. /\ IsDim(l.dims[x]) /\ IsDim(l.dims[y]) /\ x # y /\ parts = {x, y}
      /\ l.dims[x].start \in Int /\ l.dims[x].stop \in Int /\ l.dims[y].start \in Int /\ l.dims[y].stop \in Int
  BY DEF Crosses, IsLayout, IsDim
<1>2. PICK e, start, stop :
        /\ e = (CHOOSE n \in parts : TRUE)
        /\ start = Greatest(l.dims, l.dims[e].start, parts)
        /\ stop = Smallest(l.dims, l.dims[e].stop, parts)
  OBVIOUS
<1>3. e \in {x, y}
  BY <1>1, <1>2
<1>4. TwoStarts(parts, x, y, l.dims, l.dims[e].start) /\ TwoStops(parts, x, y, l.dims, l.dims[e].stop)
  BY <1>1, <1>3 DEF TwoStarts, TwoStops
<1>5. start \in Int /\ start >= l.dims[x].start /\ start >= l.dims[y].start /\ start \in {l.dims[x].start, l.dims[y].start}
  BY <1>2, <1>4, GreatestIs
<1>6. stop \in Int /\ stop <= l.dims[x].stop /\ stop <= l.dims[y].stop /\ stop \in {l.dims[x].stop, l.dims[y].stop}
  BY <1>2, <1>4, SmallestIs
<1>7. PICK d : d.start = start /\ d.stop = Most(start, stop) /\ r = Put(l, parts, Single(name, d), 0)
  <2>1. /\ start = FoldSet(LAMBDA n, m : Most(l.dims[n].start, m), l.dims[CHOOSE n \in parts : TRUE].start, parts)
        /\ stop = FoldSet(LAMBDA n, m : Least(l.dims[n].stop, m), l.dims[CHOOSE n \in parts : TRUE].stop, parts)
    BY <1>2 DEF Greatest, Smallest
  <2>2. PICK h : h = [n \in parts |-> l.dims[n].stride] /\ SumFunction(h) = Sigma(LAMBDA n : l.dims[n].stride, parts)
    BY DEF Sigma
  <2>3. PICK d : d = Dim(SumFunction(h), start, Most(start, stop), DiagonalChart(l, parts), None)
    OBVIOUS
  <2>4. r = Put(l, parts, Single(name, d), 0)
    BY <2>1, <2>2, <2>3 DEF Diagonal
  <2>5. d.start = start /\ d.stop = Most(start, stop)
    BY <2>3 DEF Dim
  <2>6. QED
    BY <2>4, <2>5
<1>8. r.dims[name] = d
  <2>1. name \notin Names(l) \ parts
    BY DiagonalHas
  <2>2. PICK new : new = Single(name, d)
    OBVIOUS
  <2>3. DOMAIN new = {name} /\ new[name] = d
    BY <2>2 DEF Single
  <2>4. QED
    BY <1>7, <2>1, <2>2, <2>3 DEF Put, Override, Drop, Names
<1>9. PICK u : u = Most(start, stop)
  OBVIOUS
<1>10. u = IF start >= stop THEN start ELSE stop
  BY <1>5, <1>6, <1>9 DEF Most
<1>11. \A i \in Int : start <= i /\ i < u <=> l.dims[x].start <= i /\ i < l.dims[x].stop /\ l.dims[y].start <= i /\ i < l.dims[y].stop
  BY <1>1, <1>5, <1>6, <1>10
<1>12. u \in Int
  BY <1>5, <1>6, <1>10
<1>13. start .. u - 1 = {i \in Int : start <= i /\ i < u}
  BY <1>5, <1>12
<1>14. r.dims[name].start = start /\ r.dims[name].stop = u
  BY <1>7, <1>8, <1>9
<1>15. r.dims[name].start .. r.dims[name].stop - 1 = {i \in Int : start <= i /\ i < u}
  BY <1>5, <1>12, <1>13, <1>14
<1>16. QED
  BY <1>11, <1>15

\* A diagonal is where its parts agree.
CrossedBox(b, parts, x, y, name) == P!Override(P!Single(name, b[x] \cap b[y]), P!Without(b, parts))

\* The box that PointMaps says a diagonal makes.
LEMMA DiagonalBoxIs ==
  ASSUME NEW o, o.op = "diagonal", NEW parts, NEW x \in parts, NEW y \in parts, \A q \in parts : q = x \/ q = y,
         o.parts = parts, NEW name, o.new = name, NEW b
  PROVE  P!NewBox(o, b) = CrossedBox(b, parts, x, y, name)
<1>1. PICK e : e = CHOOSE n \in parts : TRUE
  OBVIOUS
<1>2. e \in parts
  BY <1>1
<1>3. {i \in b[e] : \A n \in parts : i \in b[n]} = b[x] \cap b[y]
  BY <1>2
<1>4. P!NewBox(o, b) = P!Override(P!Single(name, {i \in b[e] : \A n \in parts : i \in b[n]}), P!Without(b, parts))
  BY <1>1 DEF P!NewBox
<1>5. QED
  BY <1>3, <1>4 DEF CrossedBox

\* The positions of the axes a diagonal does not lose stay with the data.
LEMMA DiagonalPlaces ==
  ASSUME NEW l, NEW parts, NEW x, NEW y, NEW name, Crosses(l, parts, x, y, name),
         NEW r, r = Diagonal(l, parts, name), IsLayout(r), IsCharted(r),
         NEW o, o.op = "diagonal", o.parts = parts, NEW a, a \notin Lost(o, l),
         NEW c, IsPoint(r, c), NEW p, IsPoint(l, p), p[x] = c[name], p[y] = c[name]
  PROVE  PartAt(r, a, c, {name}) = PartAt(l, a, p, parts)
<1>1. /\ IsLayout(l) /\ IsCharted(l) /\ IsTyped(l) /\ x \in Names(l) /\ y \in Names(l) /\ x # y
      /\ x \in parts /\ y \in parts /\ \A q \in parts : q = x \/ q = y
  BY DEF Crosses
<1>2. /\ PartAt(l, a, p, parts) = PartOf(l, a, p, x) + PartOf(l, a, p, y)
      /\ PartOf(l, a, p, x) \in Int /\ PartOf(l, a, p, y) \in Int
  BY <1>1, PartTwo
<1>3. /\ PartOf(l, a, p, x) = IF x \in OnAxis(l, a) THEN Phys(l.dims[x].chart, p[x]) ELSE 0
      /\ PartOf(l, a, p, y) = IF y \in OnAxis(l, a) THEN Phys(l.dims[y].chart, p[y]) ELSE 0
      /\ PartAt(r, a, c, {name}) = IF name \in OnAxis(r, a) THEN Phys(r.dims[name].chart, c[name]) ELSE 0
  BY <1>1, PartOne DEF PartOf
<1>4. PICK k : k = DiagonalChart(l, parts)
  OBVIOUS
<1>5. r.dims[name].chart = k /\ name \in Names(r)
  BY <1>4, DiagonalHas
<1>6. CASE k = None
  <2>1. x \notin OnAxis(l, a) /\ y \notin OnAxis(l, a)
    BY <1>1, <1>4, <1>6 DEF Lost, OnAxis
  <2>2. name \notin OnAxis(r, a)
    BY <1>5, <1>6 DEF OnAxis, Charted
  <2>3. QED
    BY <1>2, <1>3, <2>1, <2>2
<1>7. CASE k # None
  <2>1. /\ x \in Charted(l) /\ y \in Charted(l) /\ AxisOf(l, x) = AxisOf(l, y)
        /\ k.axis = AxisOf(l, x) /\ k.axis # None
        /\ k.origin = l.dims[x].chart.origin + l.dims[y].chart.origin
        /\ k.step = l.dims[x].chart.step + l.dims[y].chart.step
        /\ l.dims[x].chart.origin \in Int /\ l.dims[y].chart.origin \in Int
        /\ l.dims[x].chart.step \in Int /\ l.dims[y].chart.step \in Int
    BY <1>4, <1>7, DiagonalChartIs
  <2>2. AxisOf(r, name) = AxisOf(l, x)
    BY <1>5, <2>1 DEF AxisOf
  <2>3. /\ name \in OnAxis(r, a) <=> x \in OnAxis(l, a)
        /\ y \in OnAxis(l, a) <=> x \in OnAxis(l, a)
    BY <1>5, <1>7, <2>1, <2>2 DEF OnAxis, Charted
  <2>4. PICK i, h, j, s, t : /\ i = c[name] /\ h = l.dims[x].chart.origin /\ j = l.dims[y].chart.origin
                             /\ s = l.dims[x].chart.step /\ t = l.dims[y].chart.step
    OBVIOUS
  <2>5. i \in Int /\ h \in Int /\ j \in Int /\ s \in Int /\ t \in Int
    BY <1>5, <2>1, <2>4 DEF IsPoint
  <2>6. Phys(l.dims[x].chart, p[x]) = h + i * s /\ Phys(l.dims[y].chart, p[y]) = j + i * t
    BY <2>4 DEF Phys
  <2>7. Phys(r.dims[name].chart, c[name]) = (h + j) + i * (s + t)
    BY <1>5, <2>1, <2>4 DEF Phys
  <2>8. (h + j) + i * (s + t) = (h + i * s) + (j + i * t)
    BY <2>5
  <2>9. QED
    BY <1>2, <1>3, <2>3, <2>6, <2>7, <2>8
<1>8. QED
  BY <1>6, <1>7

\* diagonal (layout.py) of two dims.
LEMMA DiagonalGlues ==
  ASSUME NEW l, NEW parts, NEW x, NEW y, NEW name \in STRING, Crosses(l, parts, x, y, name),
         NEW r, r = Diagonal(l, parts, name), Both(l, r),
         NEW o, o.op = "diagonal", o.parts = parts, o.new = name
  PROVE  Tells(o, l, r)
<1>1. /\ IsLayout(l) /\ IsLayout(r) /\ IsCharted(l) /\ IsCharted(r) /\ IsTyped(l)
      /\ x \in Names(l) /\ y \in Names(l) /\ x # y
      /\ x \in parts /\ y \in parts /\ (\A q \in parts : q = x \/ q = y) /\ parts \subseteq Names(l)
  BY DEF Crosses, Both
<1>2. /\ name \notin Names(l) \ parts /\ l.dims[x].labels = None /\ l.dims[y].labels = None
      /\ Names(r) = (Names(l) \ parts) \cup {name}
      /\ \A k \in Names(l) \ parts : r.dims[k] = l.dims[k]
      /\ r.dims[name].labels = None /\ r.dims[name].chart = DiagonalChart(l, parts)
  BY DiagonalHas
<1>3. PICK N : N = {name}
  OBVIOUS
<1>4. Swaps(l, r, parts, N)
  BY <1>1, <1>2, <1>3 DEF Swaps
<1>5. IsTyped(r)
  <2>1. r.dims[name].chart \in {None} \cup AllCharts
    BY <1>2, DiagonalChartIs
  <2>2. ASSUME NEW k \in Names(r)
        PROVE  k \in STRING /\ r.dims[k].chart \in {None} \cup AllCharts /\ r.dims[k].labels \in {None} \cup Seq(STRING)
    <3>1. CASE k = name
      BY <1>2, <2>1, <3>1
    <3>2. CASE k # name
      <4>1. k \in Names(l) /\ r.dims[k] = l.dims[k]
        BY <1>2, <3>2
      <4>2. QED
        BY <1>1, <4>1 DEF IsTyped
    <3>3. QED
      BY <3>1, <3>2
  <2>3. QED
    BY <2>2 DEF IsTyped
<1>6. PICK b : b = BoxAt(l)
  OBVIOUS
<1>7. BoxAt(r) = P!NewBox(o, b)
  <2>1. P!NewBox(o, b) = CrossedBox(b, parts, x, y, name)
    BY <1>1, DiagonalBoxIs
  <2>2. BoxAt(r) = [k \in (Names(l) \ parts) \cup {name} |-> r.dims[k].start .. r.dims[k].stop - 1]
    BY <1>2 DEF BoxAt
  <2>3. r.dims[name].start .. r.dims[name].stop - 1 = b[x] \cap b[y]
    <3>1. r.dims[name].start .. r.dims[name].stop - 1
            = {i \in Int : l.dims[x].start <= i /\ i < l.dims[x].stop /\ l.dims[y].start <= i /\ i < l.dims[y].stop}
      BY DiagonalBounds
    <3>2. /\ l.dims[x].start \in Int /\ l.dims[x].stop \in Int /\ l.dims[y].start \in Int /\ l.dims[y].stop \in Int
      BY <1>1 DEF IsLayout, IsDim
    <3>3. b[x] = l.dims[x].start .. l.dims[x].stop - 1 /\ b[y] = l.dims[y].start .. l.dims[y].stop - 1
      BY <1>1, <1>6 DEF BoxAt
    <3>4. b[x] \cap b[y]
            = {i \in Int : l.dims[x].start <= i /\ i < l.dims[x].stop /\ l.dims[y].start <= i /\ i < l.dims[y].stop}
      BY <3>2, <3>3
    <3>5. QED
      BY <3>1, <3>4
  <2>4. PICK B : B = b[x] \cap b[y]
    OBVIOUS
  <2>5. ASSUME NEW k \in (Names(l) \ parts) \cup {name}
        PROVE  r.dims[k].start .. r.dims[k].stop - 1 = IF k = name THEN B ELSE b[k]
    <3>1. CASE k = name
      BY <2>3, <2>4, <3>1, Zenon
    <3>2. CASE k # name
      <4>1. k \in Names(l) \ parts /\ b[k] = l.dims[k].start .. l.dims[k].stop - 1
        BY <1>6, <3>2 DEF BoxAt
      <4>2. QED
        BY <1>2, <3>2, <4>1
    <3>3. QED
      BY <3>1, <3>2
  <2>6. {name} \cup (DOMAIN b \ parts) = (Names(l) \ parts) \cup {name}
    BY <1>6 DEF BoxAt
  <2>7. CrossedBox(b, parts, x, y, name) = [k \in (Names(l) \ parts) \cup {name} |-> IF k = name THEN B ELSE b[k]]
    BY <1>2, <2>4, <2>6 DEF CrossedBox, P!Override, P!Single, P!Without
  <2>8. QED
    BY <2>1, <2>2, <2>5, <2>7
<1>8. SwapOp(o, l, r, parts, N)
  <2>1. o.op \notin P!Relabels \cup {"recenter", "rename"} /\ o.op \notin P!Keeps
    BY DEF P!Relabels, P!Keeps
  <2>2. (\A k \in N : r.dims[k].labels = None) /\ \A k \in parts : l.dims[k].labels = None
    BY <1>1, <1>2, <1>3
  <2>3. QED
    BY <1>2, <1>4, <1>5, <1>6, <1>7, <2>1, <2>2 DEF SwapOp
<1>9. ASSUME NEW c \in Domain(r), NEW p, p = P!Back(o, b, c) PROVE SwapPoint(o, l, r, parts, N, c, p)
  <2>1. IsPoint(r, c) /\ DOMAIN c = Names(r)
    BY <1>1, InDomain
  <2>2. p = P!Override([k \in parts |-> c[name]], P!Without(c, {name}))
    BY <1>9 DEF P!Back
  <2>3. parts \cup (DOMAIN c \ {name}) = Names(l)
    BY <1>1, <1>2, <2>1
  <2>4. /\ p = [m \in Names(l) |-> p[m]] /\ p[x] = c[name] /\ p[y] = c[name]
        /\ \A m \in Names(l) \ parts : p[m] = c[m]
    BY <1>1, <2>2, <2>3 DEF P!Override, P!Without
  <2>5. ASSUME IsPoint(l, p), NEW a, a \notin Lost(o, l) PROVE PartAt(r, a, c, N) = PartAt(l, a, p, parts)
    BY <1>1, <1>3, <2>1, <2>4, <2>5, DiagonalPlaces
  <2>6. QED
    BY <2>4, <2>5 DEF SwapPoint
<1>10. QED
  BY <1>6, <1>8, <1>9, SwapGlues

-----------------------------------------------------------------------------
(* SELECTIONS                                                               *)

\* The dims left by a select are on the axes they were on.
LEMMA LeftIs ==
  ASSUME NEW l, IsLayout(l), NEW points, NEW a
  PROVE  /\ OnAxis(Left(l, points), a) = OnAxis(l, a) \ DOMAIN points
         /\ \A n \in Names(l) \ DOMAIN points : Drop(l.dims, DOMAIN points)[n] = l.dims[n]
<1>1. PICK k : k = Left(l, points)
  OBVIOUS
<1>2. DOMAIN k.dims = Names(l) \ DOMAIN points /\ \A n \in Names(l) \ DOMAIN points : k.dims[n] = l.dims[n]
  BY <1>1 DEF Left, Drop, IsLayout, Names
<1>3. \A n \in Names(l) \ DOMAIN points : Drop(l.dims, DOMAIN points)[n] = l.dims[n]
  BY DEF Drop, Names
<1>4. \A n : n \in OnAxis(k, a) <=> n \in OnAxis(l, a) \ DOMAIN points
  BY <1>2 DEF OnAxis, Charted, Names, AxisOf
<1>5. QED
  BY <1>1, <1>3, <1>4

\* The heirs of a select, and what they are.
HeirsOf(l, points) == {n \in Names(l) \ DOMAIN points : IsHeir(l, points, n)}

\* A selected dim hands its position to the heir of its axis, which is one of those that may have it.
LEMMA HeirIs ==
  ASSUME NEW l, IsLayout(l), NEW points, NEW a
  PROVE  /\ \A n \in HeirsOf(l, points) \cap OnAxis(l, a) : a \in DOMAIN Heirs(l, points) /\ Heirs(l, points)[a] = n
         /\ a \in DOMAIN Heirs(l, points) => Heirs(l, points)[a] \in HeirsOf(l, points) \cap OnAxis(l, a)
<1>1. ASSUME NEW b \in DOMAIN Heirs(l, points), NEW n, n = Heirs(l, points)[b]
      PROVE  n \in OnAxis(l, b) /\ n \in HeirsOf(l, points)
  <2>1. n \in TargetOf(l, points, b)
    BY <1>1 DEF Heirs
  <2>2. n \in OnAxis(Left(l, points), b)
    BY <2>1 DEF TargetOf
  <2>3. n \in OnAxis(l, b) \ DOMAIN points
    BY <2>2, LeftIs
  <2>4. IsHeir(l, points, n)
    BY <1>1 DEF IsHeir
  <2>5. QED
    BY <2>3, <2>4 DEF HeirsOf, OnAxis, Charted
<1>2. ASSUME NEW n \in HeirsOf(l, points) \cap OnAxis(l, a) PROVE a \in DOMAIN Heirs(l, points) /\ Heirs(l, points)[a] = n
  <2>1. PICK b \in DOMAIN Heirs(l, points) : Heirs(l, points)[b] = n
    BY <1>2 DEF HeirsOf, IsHeir
  <2>2. n \in OnAxis(l, b)
    BY <1>1, <2>1
  <2>3. a = b
    BY <1>2, <2>2 DEF OnAxis
  <2>4. QED
    BY <2>1, <2>3
<1>3. QED
  BY <1>1, <1>2

\* The dims of a select: the heirs are richer by the labels given up on their axis.
LEMMA SelectHas ==
  ASSUME NEW l, IsLayout(l), NEW points, NEW r, r = Select(l, points)
  PROVE  /\ Names(r) = Names(l) \ DOMAIN points
         /\ \A n \in Names(r) \ HeirsOf(l, points) : r.dims[n] = l.dims[n]
         /\ \A n \in HeirsOf(l, points) :
              n \in Names(r) /\ r.dims[n] = Richer(l.dims[n], LabelOf(l, points, AxisOf(l, n)))
<1>1. PICK k, rest : k = CompensateAxes(l, points) /\ rest = Drop(l.dims, DOMAIN points)
  OBVIOUS
<1>2. DOMAIN rest = Names(l) \ DOMAIN points /\ \A n \in DOMAIN rest : rest[n] = l.dims[n]
  BY <1>1 DEF Drop, Names
<1>3. k.dims = [n \in DOMAIN rest |->
                  IF IsHeir(l, points, n) THEN Richer(rest[n], LabelOf(l, points, AxisOf(l, n))) ELSE rest[n]]
  BY <1>1, CompensatedDims
<1>4. r.dims = k.dims
  <2>1. "dims" \in DOMAIN k
    BY <1>1, CompensateIs DEF Compensated
  <2>2. QED
    BY <1>1, <2>1 DEF Select
<1>5. Names(r) = Names(l) \ DOMAIN points
  BY <1>2, <1>3, <1>4 DEF Names
<1>6. ASSUME NEW n \in Names(r) \ HeirsOf(l, points) PROVE r.dims[n] = l.dims[n]
  <2>1. n \in DOMAIN rest /\ ~IsHeir(l, points, n)
    BY <1>2, <1>5, <1>6 DEF HeirsOf
  <2>2. QED
    BY <1>2, <1>3, <1>4, <2>1
<1>7. ASSUME NEW n \in HeirsOf(l, points)
      PROVE  n \in Names(r) /\ r.dims[n] = Richer(l.dims[n], LabelOf(l, points, AxisOf(l, n)))
  <2>1. n \in DOMAIN rest /\ IsHeir(l, points, n)
    BY <1>2, <1>7 DEF HeirsOf
  <2>2. rest[n] = l.dims[n] /\ n \in Names(r)
    BY <1>2, <1>5, <2>1
  <2>3. k.dims[n] = Richer(rest[n], LabelOf(l, points, AxisOf(l, n)))
    BY <1>3, <2>1
  <2>4. QED
    BY <1>4, <2>2, <2>3, Zenon
<1>8. QED
  BY <1>5, <1>6, <1>7

\* What an heir is.
LEMMA RicherIs ==
  ASSUME NEW d, IsDim(d), d.chart # None, d.chart \in AllCharts, NEW x \in Int, NEW e, e = Richer(d, x)
  PROVE  /\ e.start = d.start /\ e.stop = d.stop /\ e.labels = d.labels
         /\ e.chart \in AllCharts /\ e.chart # None /\ e.chart.axis = d.chart.axis
         /\ e.chart.origin = d.chart.origin + x /\ e.chart.step = d.chart.step /\ e.chart.kind = "position"
<1>1. PICK c : c = d.chart
  OBVIOUS
<1>2. c \in [origin : Int, step : Int, kind : {"position", "displacement"}, axis : {None} \cup STRING]
  BY <1>1 DEF AllCharts
<1>3. PICK k : k = [c EXCEPT !.origin = @ + x, !.kind = "position"]
  OBVIOUS
<1>4. /\ k \in [origin : Int, step : Int, kind : {"position", "displacement"}, axis : {None} \cup STRING]
      /\ k.origin = c.origin + x /\ k.step = c.step /\ k.kind = "position" /\ k.axis = c.axis
  <2>1. PICK h : h = [c EXCEPT !.origin = @ + x]
    OBVIOUS
  <2>2. /\ h \in [origin : Int, step : Int, kind : {"position", "displacement"}, axis : {None} \cup STRING]
        /\ h.origin = c.origin + x /\ h.step = c.step /\ h.axis = c.axis
    BY <1>2, <2>1
  <2>3. k = [h EXCEPT !.kind = "position"]
    BY <1>3, <2>1
  <2>4. QED
    BY <2>2, <2>3
<1>5. e.chart = k
  BY <1>1, <1>3 DEF Richer, IsDim, Fields
<1>6. e.start = d.start /\ e.stop = d.stop /\ e.labels = d.labels
  BY DEF Richer, IsDim, Fields
<1>7. k \in AllCharts /\ k # None
  BY <1>4, NotNone DEF AllCharts
<1>8. QED
  BY <1>1, <1>4, <1>5, <1>6, <1>7

\* An heir reads as before, and the labels given up on its axis with it.
LEMMA HeirReads ==
  ASSUME NEW l, IsLayout(l), IsCharted(l), WellFormed(l), IsTyped(l),
         NEW points, DOMAIN points \subseteq Names(l), \A n \in DOMAIN points : points[n] \in Int,
         NEW r, r = Select(l, points), NEW n \in HeirsOf(l, points)
  PROVE  /\ n \in Names(r) /\ n \in Names(l) /\ l.dims[n].chart # None /\ l.dims[n].labels = None
         /\ r.dims[n].start = l.dims[n].start /\ r.dims[n].stop = l.dims[n].stop /\ r.dims[n].labels = None
         /\ r.dims[n].chart \in AllCharts /\ r.dims[n].chart # None /\ AxisOf(r, n) = AxisOf(l, n)
         /\ \A i \in Int : Phys(r.dims[n].chart, i) = Phys(l.dims[n].chart, i) + LabelOf(l, points, AxisOf(l, n))
<1>1. PICK x : x = LabelOf(l, points, AxisOf(l, n))
  OBVIOUS
<1>2. x \in Int
  BY <1>1, LabelInt
<1>3. n \in Names(l) \ DOMAIN points /\ IsHeir(l, points, n)
  BY DEF HeirsOf
<1>4. l.dims[n].chart # None
  BY <1>3, HeirsAre
<1>5. IsDim(l.dims[n]) /\ l.dims[n].chart \in AllCharts
  BY <1>3, <1>4 DEF IsLayout, IsTyped
<1>6. n \in Names(r) /\ r.dims[n] = Richer(l.dims[n], x)
  BY <1>1, SelectHas
<1>7. PICK d, e : d = l.dims[n] /\ e = r.dims[n]
  OBVIOUS
<1>8. /\ e.start = d.start /\ e.stop = d.stop /\ e.labels = d.labels
      /\ e.chart \in AllCharts /\ e.chart # None /\ e.chart.axis = d.chart.axis
      /\ e.chart.origin = d.chart.origin + x /\ e.chart.step = d.chart.step
  BY <1>2, <1>4, <1>5, <1>6, <1>7, RicherIs
<1>9. d.labels = None
  BY <1>3, <1>4, <1>7, LabelsAre
<1>10. d.chart.origin \in Int /\ d.chart.step \in Int
  BY <1>5, <1>7 DEF AllCharts
<1>11. ASSUME NEW i \in Int PROVE Phys(e.chart, i) = Phys(d.chart, i) + x
  <2>1. PICK u, v : u = d.chart.origin /\ v = i * d.chart.step
    OBVIOUS
  <2>2. u \in Int /\ v \in Int
    BY <1>10, <2>1, IntTimes
  <2>3. Phys(e.chart, i) = (u + x) + v /\ Phys(d.chart, i) = u + v
    BY <1>8, <2>1 DEF Phys
  <2>4. QED
    BY <1>2, <2>2, <2>3
<1>12. AxisOf(r, n) = AxisOf(l, n)
  BY <1>7, <1>8 DEF AxisOf
<1>13. QED
  BY <1>1, <1>3, <1>4, <1>6, <1>7, <1>8, <1>9, <1>11, <1>12

\* A select of the points of some dims of a layout.
Selecting(l, points, r) ==
  /\ IsLayout(l) /\ IsCharted(l) /\ WellFormed(l) /\ IsTyped(l) /\ IsLayout(r) /\ IsCharted(r)
  /\ DOMAIN points \subseteq Names(l) /\ (\A n \in DOMAIN points : points[n] \in Int)
  /\ r = Select(l, points)

\* The labels given up on an axis are its part at the selected points.
LEMMA LabelIsPart ==
  ASSUME NEW l, NEW points, NEW r, Selecting(l, points, r), NEW a, NEW p, \A n \in DOMAIN points : p[n] = points[n]
  PROVE  LabelOf(l, points, a) = PartAt(l, a, p, DOMAIN points)
<1>1. PICK S : S = {n \in GivenUp(l, points) : AxisOf(l, n) = a}
  OBVIOUS
<1>2. S = OnAmong(l, a, DOMAIN points)
  BY <1>1 DEF OnAmong, GivenUp, OnAxis
<1>3. S \subseteq DOMAIN points
  BY <1>1 DEF GivenUp
<1>4. PICK f, g : f = [n \in S |-> Phys(l.dims[n].chart, points[n])] /\ g = [n \in S |-> Phys(l.dims[n].chart, p[n])]
  OBVIOUS
<1>5. f = g
  BY <1>3, <1>4
<1>6. LabelOf(l, points, a) = SumFunction(f)
  BY <1>1, <1>4 DEF LabelOf, Sigma
<1>7. PartAt(l, a, p, DOMAIN points) = SumFunction(g)
  BY <1>2, <1>4 DEF PartAt
<1>8. QED
  BY <1>5, <1>6, <1>7

\* An axis that no heir takes over has no position left, if any label of it was given up.
LEMMA NoHeirNoPosition ==
  ASSUME NEW l, NEW points, NEW r, Selecting(l, points, r), NEW a, a \notin DOMAIN Heirs(l, points), a \in Known(r)
  PROVE  OnAmong(l, a, DOMAIN points) = {}
<1>1. SUFFICES ASSUME NEW m, m \in OnAmong(l, a, DOMAIN points) PROVE FALSE
  OBVIOUS
<1>2. IsLayout(l) /\ IsLayout(r)
  BY DEF Selecting
<1>3. TargetOf(l, points, a) = {}
  <2>1. m \in GivenUp(l, points) /\ AxisOf(l, m) = a
    BY <1>1 DEF OnAmong, OnAxis, GivenUp
  <2>2. QED
    BY <2>1 DEF Heirs
<1>4. PICK q : Position(r, a) = {q}
  BY <1>2, KnownIs
<1>5. q \in Names(r) /\ r.dims[q].chart # None /\ AxisOf(r, q) = a /\ r.dims[q].chart.kind = "position"
  BY <1>4 DEF Position, OnAxis, Charted
<1>6. CASE q \in HeirsOf(l, points)
  <2>1. AxisOf(l, q) = a /\ q \in Names(l) /\ l.dims[q].chart # None
    BY <1>5, <1>6, HeirReads DEF Selecting
  <2>2. q \in OnAxis(l, a)
    BY <2>1 DEF OnAxis, Charted
  <2>3. QED
    BY <1>2, <1>6, <2>2, HeirIs
<1>7. CASE q \notin HeirsOf(l, points)
  <2>1. q \in Names(l) \ DOMAIN points /\ r.dims[q] = l.dims[q]
    BY <1>2, <1>5, <1>7, SelectHas DEF Selecting
  <2>2. q \in OnAxis(l, a) \ DOMAIN points /\ l.dims[q].chart.kind = "position"
    BY <1>5, <2>1 DEF OnAxis, Charted, AxisOf
  <2>3. q \in TargetOf(l, points, a)
    BY <1>2, <2>1, <2>2, LeftIs DEF TargetOf
  <2>4. QED
    BY <1>3, <2>3
<1>8. QED
  BY <1>6, <1>7

\* The heirs tell what they and the selected dims did.
LEMMA SelectPlaces ==
  ASSUME NEW l, NEW points, NEW r, Selecting(l, points, r), NEW a, a \in Known(r),
         NEW c, IsPoint(r, c), NEW p, IsPoint(l, p), \A n \in DOMAIN points : p[n] = points[n],
         \A n \in Names(l) \ DOMAIN points : p[n] = c[n],
         NEW H, H = HeirsOf(l, points), NEW G, G = DOMAIN points \cup H
  PROVE  PartAt(r, a, c, H) = PartAt(l, a, p, G)
<1>1. /\ IsLayout(l) /\ IsCharted(l) /\ WellFormed(l) /\ IsTyped(l) /\ IsLayout(r) /\ IsCharted(r)
      /\ DOMAIN points \subseteq Names(l)
  BY DEF Selecting
<1>2. \A n \in H : n \in OnAxis(r, a) <=> n \in OnAxis(l, a)
  <2>1. ASSUME NEW n \in H PROVE n \in OnAxis(r, a) <=> n \in OnAxis(l, a)
    <3>1. /\ n \in Names(r) /\ n \in Names(l) /\ l.dims[n].chart # None /\ r.dims[n].chart # None
          /\ AxisOf(r, n) = AxisOf(l, n)
      BY HeirReads DEF Selecting
    <3>2. QED
      BY <3>1, OnAxisIs
  <2>2. QED
    BY <2>1
<1>3. PICK f, T, S : f = PhysAt(l, a, p) /\ T = OnAmong(l, a, DOMAIN points) /\ S = OnAxis(l, a)
  OBVIOUS
<1>4. /\ f \in [S -> Int] /\ IsFiniteSet(S) /\ T \in SUBSET S
      /\ PartAt(l, a, p, DOMAIN points) = SumFunction(Restrict(f, T))
      /\ PartAt(l, a, p, G) = SumFunction(Restrict(f, OnAmong(l, a, G))) /\ PartAt(l, a, p, DOMAIN points) \in Int
  BY <1>1, <1>3, PlacesInt
<1>5. LabelOf(l, points, a) = PartAt(l, a, p, DOMAIN points)
  BY LabelIsPart
<1>6. CASE a \in DOMAIN Heirs(l, points)
  <2>1. PICK h : h = Heirs(l, points)[a]
    OBVIOUS
  <2>2. h \in H /\ h \in S /\ \A n \in H \cap S : n = h
    BY <1>1, <1>3, <1>6, <2>1, HeirIs
  <2>3. h \notin T /\ OnAmong(l, a, G) = T \cup {h} /\ OnAmong(r, a, H) = {h}
    <3>1. h \notin DOMAIN points
      BY <2>2 DEF HeirsOf
    <3>2. OnAmong(l, a, G) = T \cup {h}
      BY <1>3, <2>2 DEF OnAmong
    <3>3. \A n : n \in OnAmong(r, a, H) <=> n = h
      BY <1>2, <1>3, <2>2 DEF OnAmong
    <3>4. QED
      BY <1>3, <3>1, <3>2, <3>3 DEF OnAmong
  <2>4. PartAt(l, a, p, G) = f[h] + PartAt(l, a, p, DOMAIN points)
    <3>1. SumFunction(Restrict(f, T \cup {h})) = f[h] + SumFunction(Restrict(f, T))
      BY <1>4, <2>2, <2>3, SumParts
    <3>2. OnAmong(l, a, G) = T \cup {h}
      BY <2>3
    <3>3. PartAt(l, a, p, G) = SumFunction(Restrict(f, T \cup {h}))
      BY <1>4, <3>2
    <3>4. QED
      BY <1>4, <3>1, <3>3
  <2>5. f[h] = Phys(l.dims[h].chart, c[h])
    <3>1. p[h] = c[h]
      BY <2>2 DEF HeirsOf
    <3>2. QED
      BY <1>3, <2>2, <3>1 DEF PhysAt
  <2>6. PartAt(r, a, c, H) = Phys(r.dims[h].chart, c[h])
    <3>1. PartAt(r, a, c, H) = PartAt(r, a, c, {h})
      <4>1. OnAmong(r, a, {h}) = {h}
        BY <2>3 DEF OnAmong
      <4>2. QED
        BY <2>3, <4>1 DEF PartAt
    <3>2. h \in OnAxis(r, a)
      BY <1>2, <1>3, <2>2
    <3>3. QED
      BY <1>1, <3>1, <3>2, PartOne
  <2>7. Phys(r.dims[h].chart, c[h]) = Phys(l.dims[h].chart, c[h]) + LabelOf(l, points, a)
    <3>1. h \in Names(r) /\ \A i \in Int : Phys(r.dims[h].chart, i) = Phys(l.dims[h].chart, i) + LabelOf(l, points, AxisOf(l, h))
      BY <2>2, HeirReads DEF Selecting
    <3>2. c[h] \in Int /\ AxisOf(l, h) = a
      BY <1>3, <2>2, <3>1 DEF IsPoint, OnAxis
    <3>3. QED
      BY <3>1, <3>2
  <2>8. f[h] \in Int
    BY <1>4, <2>2
  <2>9. QED
    BY <1>4, <1>5, <2>4, <2>5, <2>6, <2>7, <2>8
<1>7. CASE a \notin DOMAIN Heirs(l, points)
  <2>1. T = {}
    BY <1>3, <1>7, NoHeirNoPosition
  <2>2. \A n \in H : n \notin S
    BY <1>1, <1>3, <1>7, HeirIs
  <2>3. OnAmong(l, a, G) = {} /\ OnAmong(r, a, H) = {}
    BY <1>2, <1>3, <2>1, <2>2 DEF OnAmong
  <2>4. PartAt(l, a, p, G) = 0
    BY <1>4, <2>3, SumParts
  <2>5. PartAt(r, a, c, H) = 0
    <3>1. PICK g : g = [n \in {} |-> Phys(r.dims[n].chart, c[n])]
      OBVIOUS
    <3>2. g \in [{} -> Int]
      BY <3>1
    <3>3. PartAt(r, a, c, H) = SumFunction(g)
      BY <2>3, <3>1 DEF PartAt
    <3>4. QED
      BY <3>2, <3>3, SumEmpty
  <2>6. QED
    BY <2>4, <2>5
<1>8. QED
  BY <1>6, <1>7

\* select (layout.py), also by a coordinate.
LEMMA SelectGlues ==
  ASSUME NEW l, NEW points, NEW r, Selecting(l, points, r), NEW o, o.op \in {"select", "subscript"},
         P!NewBox(o, BoxAt(l)) = P!Without(BoxAt(l), DOMAIN points),
         \A c : P!Back(o, BoxAt(l), c) = P!Override(points, c)
  PROVE  Tells(o, l, r)
<1>1. /\ IsLayout(l) /\ IsCharted(l) /\ WellFormed(l) /\ IsTyped(l) /\ IsLayout(r) /\ IsCharted(r)
      /\ DOMAIN points \subseteq Names(l)
  BY DEF Selecting
<1>2. PICK D, H, G : D = DOMAIN points /\ H = HeirsOf(l, points) /\ G = D \cup H
  OBVIOUS
<1>3. /\ Names(r) = Names(l) \ D /\ H \subseteq Names(r) /\ H \subseteq Names(l) /\ (\A n \in Names(r) \ H : r.dims[n] = l.dims[n])
      /\ \A n \in H : /\ r.dims[n].start = l.dims[n].start /\ r.dims[n].stop = l.dims[n].stop
                      /\ l.dims[n].labels = None /\ r.dims[n].labels = None /\ r.dims[n].chart \in AllCharts
  <2>1. Names(r) = Names(l) \ D /\ \A n \in Names(r) \ H : r.dims[n] = l.dims[n]
    BY <1>1, <1>2, SelectHas DEF Selecting
  <2>2. ASSUME NEW n \in H
        PROVE  /\ n \in Names(r) /\ n \in Names(l)
               /\ r.dims[n].start = l.dims[n].start /\ r.dims[n].stop = l.dims[n].stop
               /\ l.dims[n].labels = None /\ r.dims[n].labels = None /\ r.dims[n].chart \in AllCharts
    BY <1>2, <2>2, HeirReads DEF Selecting
  <2>3. QED
    BY <2>1, <2>2
<1>4. Names(r) \ H = Names(l) \ G
  BY <1>2, <1>3
<1>5. Swaps(l, r, G, H)
  BY <1>1, <1>2, <1>3, <1>4 DEF Swaps
<1>6. IsTyped(r)
  <2>1. ASSUME NEW n \in Names(r)
        PROVE  n \in STRING /\ r.dims[n].chart \in {None} \cup AllCharts /\ r.dims[n].labels \in {None} \cup Seq(STRING)
    <3>1. CASE n \in H
      BY <1>1, <1>3, <3>1 DEF IsTyped
    <3>2. CASE n \notin H
      BY <1>1, <1>3, <3>2 DEF IsTyped
    <3>3. QED
      BY <3>1, <3>2
  <2>2. QED
    BY <2>1 DEF IsTyped
<1>7. PICK b : b = BoxAt(l)
  OBVIOUS
<1>8. BoxAt(r) = P!NewBox(o, b)
  <2>1. \A n \in Names(r) : r.dims[n].start .. r.dims[n].stop - 1 = l.dims[n].start .. l.dims[n].stop - 1
    BY <1>3
  <2>2. BoxAt(r) = [n \in Names(r) |-> l.dims[n].start .. l.dims[n].stop - 1]
    BY <2>1 DEF BoxAt
  <2>3. P!Without(b, D) = [n \in Names(r) |-> l.dims[n].start .. l.dims[n].stop - 1]
    BY <1>3, <1>7 DEF BoxAt, P!Without
  <2>4. QED
    BY <1>2, <1>7, <2>2, <2>3
<1>9. SwapOp(o, l, r, G, H)
  <2>1. o.op \notin P!Relabels \cup {"recenter", "rename"} /\ o.op \notin P!Keeps
    BY DEF P!Relabels, P!Keeps
  <2>2. \A n \in Names(l) \ G : r.dims[n] = l.dims[n]
    BY <1>3, <1>4
  <2>3. (\A n \in H : r.dims[n].labels = None) /\ \A n \in G \cap H : l.dims[n].labels = None
    BY <1>3
  <2>4. Both(l, r)
    BY <1>1 DEF Both
  <2>5. QED
    BY <1>5, <1>6, <1>7, <1>8, <2>1, <2>2, <2>3, <2>4 DEF SwapOp
<1>10. ASSUME NEW c \in Domain(r), NEW p, p = P!Back(o, b, c) PROVE SwapPoint(o, l, r, G, H, c, p)
  <2>1. IsPoint(r, c) /\ DOMAIN c = Names(r)
    BY <1>1, InDomain
  <2>2. p = P!Override(points, c)
    BY <1>7, <1>10
  <2>3. D \cup DOMAIN c = Names(l)
    BY <1>1, <1>2, <1>3, <2>1
  <2>4. /\ p = [m \in Names(l) |-> p[m]] /\ (\A n \in DOMAIN points : p[n] = points[n])
        /\ \A n \in Names(l) \ DOMAIN points : p[n] = c[n]
    BY <1>2, <2>2, <2>3 DEF P!Override
  <2>5. ASSUME IsPoint(l, p), NEW a \in Known(r) PROVE PartAt(r, a, c, H) = PartAt(l, a, p, G)
    BY <1>2, <2>1, <2>4, <2>5, SelectPlaces
  <2>6. QED
    BY <1>2, <2>4, <2>5 DEF SwapPoint
<1>11. QED
  BY <1>7, <1>9, <1>10, SwapGlues

==============================================================================
