------------------------------- MODULE Planner -------------------------------
(***************************************************************************)
(* A model written block by block, perhaps differentiated, then carved and *)
(* planned: the rungs of the ladder, the residue, the dissolutions, and a  *)
(* group for each claim (tensorlib partition.py, over fusion.py and        *)
(* certify.py).  Before it, the grid and the launch (launch.py; fusion.py  *)
(* plan_region and _prune_flash): the tiles of the output dims that fit a  *)
(* machine, the three-valued evaluation of closed forests on boxes of      *)
(* coordinates, and the bounds of a fold read off it.  A machine is the    *)
(* capacity of its tightest level and the floor below which tiles do not   *)
(* shrink.  What a forest may evaluate to is a set of truth values or an   *)
(* interval.                                                               *)
(***************************************************************************)
EXTENDS Fusion

-----------------------------------------------------------------------------
(***************************************************************************)
(* CLAIMS                                                                  *)
(*                                                                         *)
(* The anchor-and-absorb partitioner (tensorlib partition.py): the claims  *)
(* of each rung of the ladder, most specific first, on sets of nodes.      *)
(*                                                                         *)
(* A claim is a root, its members and the statistics it puts out beside    *)
(* the root; its operands are what its members read that is not one.  A    *)
(* partition in progress is the claims made so far, the nodes claimed and  *)
(* the nodes whose recomputation travels into the claims that read them.   *)
(***************************************************************************)

FreeOps == ConstOps \cup {"rename", "repeat_like", "repeat"} \cup ChartOps
Epilogue == {"pointwise", "repeat_like"} \cup ChartOps
Compute == {"pointwise", "iota"}

\* The region with its interior, operands first, what reads each node (0 is
\* the yield) and how often, by each place of an operand.
Sink == 0
IsFree(r, i) == OpOf(r, i) \in FreeOps
Graph(r) ==
  LET order == Walk(r)
      Readers1(i) == {j \in Range(order) : i \in ArgsOf(r, j)} \cup (IF i \in Range(r.out) THEN {Sink} ELSE {})
      Places(seq, i) == Len(SelectSeq(seq, LAMBDA a : a = i))
  IN  r @@ [interior |-> SelectSeq(order, LAMBDA i : OpOf(r, i) # "param" /\ ~IsFree(r, i)),
            readers |-> Tabled([i \in DOMAIN r.nodes |-> Readers1(i)]),
            uses |-> Tabled([i \in DOMAIN r.nodes |->
                       FoldFar(LAMBDA c, j : c + Places(r.nodes[j].args, i), Places(r.out, i), order)])]
Interior(r) == r.interior
Readers(r, i) == r.readers[i]
Uses(r, i) == r.uses[i]
FreeViews(r) == {i \in DOMAIN r.nodes : IsFree(r, i) /\ OpOf(r, i) \notin ConstOps}
Inner(r) == {i \in DOMAIN r.nodes : OpOf(r, i) # "param"}

\* S with what it is made of within a pool.
RECURSIVE Within(_, _, _)
Within(r, S, pool) ==
  LET more == S \cup (UNION {ArgsOf(r, i) : i \in S} \cap pool) IN IF more = S THEN S ELSE Within(r, more, pool)
Cone(r, root, stops, allow) == Within(r, {root} \ stops, (allow \cap Inner(r)) \ stops)
AttachFreeFringe(r, M) == Within(r, M, FreeViews(r))
AbsorbTravel(r, M, travel) == Within(r, M, FreeViews(r) \cup travel)

\* Whether the value of i is read outside of M: through a free view of M the
\* reads are those of the view; a read by the root is the claim's output.
RECURSIVE Outside(_, _, _, _)
Outside(r, i, M, root) ==
  \E j \in Readers(r, i) \ {root} : j \notin M \/ (IsFree(r, j) /\ Outside(r, j, M, root))
NoRoot == -1
Leaks(r, root, M, travel) == \E i \in M \ ({root} \cup travel) : ~IsFree(r, i) /\ Outside(r, i, M, root)

\* Upstream: what only the claim reads joins it, and what travels.
RECURSIVE AbsorbUp(_, _, _, _)
AbsorbUp(r, M, claimed, travel) ==
  LET fringe == AttachFreeFringe(r, M)
      above == UNION {ArgsOf(r, i) : i \in fringe} \ fringe
      joins == {a \in above : a \in travel \/ (a \notin claimed /\ OpOf(r, a) \in Compute /\ ~Outside(r, a, fringe, NoRoot))}
  IN  IF joins = {} THEN fringe ELSE AbsorbUp(r, fringe \cup joins, claimed, travel)
\* Downstream: the one reader of the root, while it is an epilogue, with the
\* broadcasts to members that it reads.
\* Variant: what becomes the root does not join.
RECURSIVE Absorb(_, _, _, _)
AbsorbReader(r, root, M, claimed) ==
  LET c == CHOOSE j \in Readers(r, root) : TRUE
  IN  IF Uses(r, root) = 1 /\ c # Sink /\ OpOf(r, c) \in Epilogue /\ c \notin claimed THEN Absorb(r, c, M, claimed)
      ELSE [root |-> root, members |-> M]
Absorb(r, root, M, claimed) ==
  LET readers == Readers(r, root)
      c == CHOOSE j \in readers : TRUE
      sides == {a \in ArgsOf(r, c) \ ({root} \cup M) : OpOf(r, a) = "repeat_like" /\ A(r, a, 2) \in M}
      goes == /\ Uses(r, root) = 1 /\ c # Sink
              /\ OpOf(r, c) \in Epilogue /\ c \notin claimed
              /\ ~(OpOf(r, c) = "repeat_like" /\ A(r, c, 1) = root)
  IN  IF goes THEN Absorb(r, c, M \cup sides \cup {c}, claimed) ELSE [root |-> root, members |-> M]

-----------------------------------------------------------------------------
(* THE LADDER.  p is the partition in progress. *)

Unclaimed == [claims |-> <<>>, claimed |-> {}, travel |-> {}]
Claim(root, members, artifacts) == [root |-> root, members |-> members, artifacts |-> artifacts]
Settle(r, p, claim) ==
  [p EXCEPT !.claims = Append(@, claim), !.claimed = @ \cup {i \in claim.members : ~IsFree(r, i)}]
\* Whether the nodes are still to be had.
Available(p, M) == M \cap p.claimed \subseteq p.travel
MayTake(r, p, root, M) == ~Leaks(r, root, AttachFreeFringe(r, M), p.travel)
Take(r, p, root, M) ==
  IF MayTake(r, p, root, M) THEN Settle(r, p, Claim(root, AttachFreeFringe(r, M), <<>>)) ELSE p

\* A flash that leaks puts out its statistics; what else leaks is recomputed
\* by what reads it: maps and reductions within a tile, never across one.
RECURSIVE FreeBase(_, _)
FreeBase(r, i) == IF IsFree(r, i) /\ r.nodes[i].args # <<>> THEN FreeBase(r, A(r, i, 1)) ELSE i
Duplicable(r, cone, sweep) ==
  \A i \in cone : IF OpOf(r, i) = "reduce" THEN Range(DimsOf(r, i)) \cap sweep = {} ELSE OpOf(r, i) \in FreeOps \cup Compute
TakeFlashArtifacts(r, p, root, M) ==
  LET f == FlashParts(r, root)
      fringe == AttachFreeFringe(r, M)
      stats == {f.m, f.den}
      leaked == {FreeBase(r, i) : i \in {i \in fringe \ ({root} \cup stats) : Outside(r, i, fringe, root)}}
      cones == {Cone(r, i, stats, fringe) : i \in (leaked \cap fringe) \ ({root} \cup stats)}
  IN  IF \A cone \in cones : Duplicable(r, cone, {f.t, f.s})
      THEN [Settle(r, p, Claim(root, fringe, <<f.m, f.den>>)) EXCEPT !.travel = @ \cup UNION cones]
      ELSE p
ClaimFlash(r, p, i) ==
  LET f == FlashParts(r, i)
      M == Cone(r, i, {f.q, f.k, f.v}, DOMAIN r.nodes)
  IN  IF i \in p.claimed \/ OpOf(r, i) # "reduce" THEN p
      ELSE IF ~IsFlash(r, i) THEN p
      ELSE IF ~Available(p, M) THEN p
      ELSE IF MayTake(r, p, i, M) THEN Take(r, p, i, M) ELSE TakeFlashArtifacts(r, p, i, M)
ClaimSoftmax(r, p, i) ==
  LET M == AbsorbTravel(r, Cone(r, i, {SoftmaxParts(r, i).sm}, DOMAIN r.nodes), p.travel)
  IN  IF i \in p.claimed \/ ~IsSoftmax(r, i) THEN p ELSE IF Available(p, M) THEN Take(r, p, i, M) ELSE p
ClaimRowstat(r, p, i) ==
  LET M == AbsorbTravel(r, Cone(r, i, {RowstatParts(r, i).x}, DOMAIN r.nodes), p.travel)
      grown == Absorb(r, i, M, p.claimed)
  IN  IF i \in p.claimed \/ ~IsRowstat(r, i) THEN p ELSE IF Available(p, M) THEN Take(r, p, grown.root, grown.members) ELSE p
ClaimContraction(r, p, i) ==
  LET core == {i} \cup (IF Len(Cores(r, i)) = 2 THEN {ProductOf(r, i)} ELSE {})
      grown == Absorb(r, i, AbsorbUp(r, core, p.claimed, p.travel), p.claimed)
  IN  IF i \in p.claimed \/ OpOf(r, i) # "reduce" THEN p
      ELSE IF /\ r.nodes[i].o.f \in {"sum", "mean"} /\ Len(DimsOf(r, i)) \in {1, 2}
              /\ CarriesDims(r, i) /\ core \cap p.claimed = {}
           THEN Take(r, p, grown.root, grown.members) ELSE p
Rungs == <<"flash", "softmax", "rowstat", "contraction">>
ClaimRung(r, p, rung) ==
  LET Each(acc, i) == CASE rung = "flash" -> ClaimFlash(r, acc, i)
                        [] rung = "softmax" -> ClaimSoftmax(r, acc, i)
                        [] rung = "rowstat" -> ClaimRowstat(r, acc, i)
                        [] rung = "contraction" -> ClaimContraction(r, acc, i)
  IN  FoldFar(Each, p, Interior(r))

-----------------------------------------------------------------------------
(* THE RESIDUE *)

Residue(r, p) == Range(Interior(r)) \ p.claimed
\* The nodes of S connected to i by operands within S.
RECURSIVE Component(_, _, _)
Component(r, S, C) ==
  LET more == C \cup {j \in S : ArgsOf(r, j) \cap C # {} \/ \E k \in C : j \in ArgsOf(r, k)}
  IN  IF more = C THEN C ELSE Component(r, S, more)
Components(r, p) == {Component(r, Residue(r, p), {i}) : i \in Residue(r, p)}
ResidueRoots(r, comp) == {i \in comp : \E j \in Readers(r, i) : j \notin comp}
\* A part for each root, in order; a node some part reads and another has is
\* a root too, until none is.  Variant: such a node is left where it is.
RECURSIVE SplitResidue(_, _, _, _)
UnpromotedParts(r, p, comp, roots) ==
  LET Part1(acc, root) ==
        LET M == AbsorbTravel(r, Cone(r, root, (Range(roots) \ {root}) \cup acc.used, comp \cup p.travel), p.travel)
        IN  [parts |-> Append(acc.parts, Claim(root, M, <<>>)), used |-> acc.used \cup (M \cap comp)]
  IN  FoldLeft(Part1, [parts |-> <<>>, used |-> {}], roots).parts
SplitResidue(r, p, comp, roots) ==
  LET parts == UnpromotedParts(r, p, comp, roots)
      shared == {a \in comp \ Range(roots) :
                   \E j \in DOMAIN parts : a \notin parts[j].members /\ \E i \in parts[j].members : a \in ArgsOf(r, i)}
  IN  IF shared = {} THEN parts ELSE SplitResidue(r, p, comp, roots \o SelectSeq(Walk(r), LAMBDA i : i \in shared))

-----------------------------------------------------------------------------
(* DISSOLUTION: a claim whose root only other claims read is recomputed in  *)
(* each, where its reductions are within their tiles and it saves traffic.  *)

ReduceDimsOf(r, M) == UNION {Range(DimsOf(r, i)) : i \in {i \in M : OpOf(r, i) = "reduce"}}
Sweep(r, p, k) == ReduceDimsOf(r, p.claims[k].members \ p.travel)
\* What reads a value, through free views; they are followed, not counted.
RECURSIVE ValueReaders(_, _)
ValueReaders(r, i) ==
  UNION {IF j # Sink /\ IsFree(r, j) THEN ValueReaders(r, j) ELSE {j} : j \in Readers(r, i)}
Owners(p, i) == {k \in DOMAIN p.claims : i \in p.claims[k].members}
ClaimReads(r, M) == {a \in UNION {ArgsOf(r, i) : i \in M} \ M : OpOf(r, a) \notin ConstOps}
Dissolves(r, p, k) ==
  LET c == p.claims[k]
      readers == ValueReaders(r, c.root)
      Others(j) == Owners(p, j) \ {k}
      eaters == UNION {Others(j) : j \in readers}
      reads == ClaimReads(r, c.members)
  IN  /\ c.artifacts = <<>> /\ readers # {} /\ Sink \notin readers
      /\ \A j \in readers : Others(j) # {}
      /\ \A i \in c.members : OpOf(r, i) \in FreeOps \cup Compute \cup {"reduce"} \/ i \in p.travel
      /\ \A j \in eaters : ReduceDimsOf(r, c.members) \cap Sweep(r, p, j) = {}
      /\ 2 * Volume(TyOf(r, c.root)) > Cardinality(eaters) * MapThenSumSet(LAMBDA a : Volume(TyOf(r, a)), reads)
\* The claims in the order they are tried: fewest reductions first.
Lighter(r, p, k, l) ==
  LET n(j) == Cardinality({i \in p.claims[j].members : OpOf(r, i) = "reduce"}) IN n(k) < n(l) \/ (n(k) = n(l) /\ k < l)
Dissolve(r, p, k) ==
  LET travel == p.travel \cup p.claims[k].members \cup {p.claims[k].root}
      rest == SelectSeq([j \in DOMAIN p.claims |-> j], LAMBDA j : j # k)
  IN  [p EXCEPT !.travel = travel,
                !.claims = [j \in DOMAIN rest |-> LET c == p.claims[rest[j]]
                                                  IN  [c EXCEPT !.members = AbsorbTravel(r, @, travel)]]]

-----------------------------------------------------------------------------
(* EXTRACTION: a claim as a region of its own *)

\* The operands by first use: depth first, the last operand of a node first.
BoundsFrom(r, acc0, root, M) ==
  LET Step(acc, k) ==
        LET i == Head(acc.todo)
            args == Reverse(r.nodes[i].args)
            Meet(c, a) == CASE a \in M -> [c EXCEPT !.todo = <<a>> \o @]
                            [] a \notin M /\ a \notin c.seen /\ OpOf(r, a) \notin ConstOps ->
                                 [c EXCEPT !.seen = @ \cup {a}, !.bounds = Append(@, a)]
                            [] OTHER -> c
        IN  CASE acc.todo = <<>> -> acc
              [] i \in acc.seen -> [acc EXCEPT !.todo = Tail(@)]
              [] OTHER -> FoldLeft(Meet, [acc EXCEPT !.todo = Tail(@), !.seen = @ \cup {i}], args)
  IN  FoldFar(Step, [acc0 EXCEPT !.todo = <<root>>], [k \in 1 .. 3 * Cardinality(M) + 3 |-> k])
RootsOf(claim) == <<claim.root>> \o claim.artifacts
Bounds(r, claim) ==
  FoldLeft(LAMBDA acc, root : BoundsFrom(r, acc, root, claim.members), [todo |-> <<>>, seen |-> {}, bounds |-> <<>>],
           RootsOf(claim)).bounds
\* The region of a claim, its charts elided.
Extract(r, claim) ==
  LET bounds == Bounds(r, claim)
      start == [b |-> Build([j \in DOMAIN bounds |-> TyOf(r, bounds[j])]),
                at |-> [i \in Range(bounds) |-> SelectInSeq(bounds, LAMBDA x : x = i)]]
      all == FoldLeft(LAMBDA acc, i : Rebuilt(acc, r, i, ChartOps), start, RootsOf(claim))
  IN  [r |-> Yield(all.b.r, [j \in DOMAIN RootsOf(claim) |-> all.at[RootsOf(claim)[j]]]), ok |-> all.b.ok, bounds |-> bounds]

-----------------------------------------------------------------------------
(* GRID AND LAUNCH *)

TileItem == 4
Pow2(n) == Min({2 ^ k : k \in {k \in 0 .. n : 2 ^ k >= n}})
\* The padded size of a value, of which the launch clips a dim to a tile.
Clipped(b, launch) ==
  FoldSet(LAMBDA n, p : p * Pow2(Min({Extent(b, n)} \cup {l.tile : l \in {l \in Range(launch) : l.dim = n}})), TileItem, DOMAIN b)
\* Stages are double-buffered; folds hold what they carry; what is in a step is
\* resident too.  A node is counted once; a region is a value here, and so the
\* step of each fold is one of its own, also where the folds share an object.
RECURSIVE Footprint(_, _)
Footprint(r, launch) ==
  LET Sum(nodes, F(_)) == FoldLeft(LAMBDA t, x : t + F(x), 0, nodes)
      Resident(n) == CASE n.o.op = "stage" -> 2 * Clipped(n.ty, launch)
                       [] n.o.op = "fold" -> Sum(SubSeq(n.args, 1, n.o.states), LAMBDA a : Clipped(TyOf(r, a), launch))
                       [] OTHER -> 0
  IN  Sum(Walk(r), LAMBDA i : Resident(r.nodes[i]) + Sum(r.nodes[i].sub, LAMBDA step : Footprint(step, launch)))
Feasible(r, launch, machine) == Footprint(r, launch) <= machine.capacity

\* One dim at a time, tiles that are powers of two, from the whole extent down
\* to the first at which what is left of the output is no more than the floor;
\* those that fit, the smallest first.
DimsInOrder(b) == SelectSeq(DimNames, LAMBDA n : n \in DOMAIN b)
Ladder(b, lead, floor) ==
  LET rest == Volume(Without(b, {lead}))
      tiles == {2 ^ k : k \in {k \in 0 .. Extent(b, lead) : 2 ^ k <= Pow2(Extent(b, lead))}}
      above == {t \in tiles : rest * t > floor}
      stops == {t \in tiles : rest * t <= floor}
  IN  IF stops = {} THEN above ELSE above \cup {Max(stops)}
Propose(r, machine) ==
  LET out == TyOf(r, r.out[1])
      Fitting(lead) == {t \in Ladder(out, lead, machine.floor) : Feasible(r, <<[dim |-> lead, tile |-> t]>>, machine)}
      Rung(lead) == LET tiles == SetToSortSeq(Fitting(lead), LAMBDA s, t : s < t)
                    IN  [k \in DOMAIN tiles |-> <<[dim |-> lead, tile |-> tiles[k]]>>]
  IN  FoldLeft(LAMBDA all, lead : all \o Rung(lead), <<>>, DimsInOrder(out))

-----------------------------------------------------------------------------
(* EMPTINESS *)

Truth(S) == [kind |-> "bool", may |-> S]
Maybe == Truth(BOOLEAN)
Interval(lo, hi) == [kind |-> "num", lo |-> lo, hi |-> hi]
Infinity == 1000000
Hull == Interval(-Infinity, Infinity)
\* Variant: a comparison is decided by the low ends.
ByLowEnds(f, x, y) == Truth({b \in BOOLEAN : b = (x.lo <= y.lo)})
Order(f, x, y) ==
  CASE f = "le" -> Truth({b \in BOOLEAN : IF b THEN x.lo <= y.hi ELSE x.hi > y.lo})
    [] f = "lt" -> Truth({b \in BOOLEAN : IF b THEN x.lo < y.hi ELSE x.hi >= y.lo})
Arithmetic1(f, x) ==
  LET a == x[1]
      b == x[2]
      products == {p * q : p \in {a.lo, a.hi}, q \in {b.lo, b.hi}}
  IN  CASE f = "neg" -> Interval(-a.hi, -a.lo)
        [] f = "add" -> Interval(a.lo + b.lo, a.hi + b.hi)
        [] f = "sub" -> Interval(a.lo - b.hi, a.hi - b.lo)
        [] f = "mul" -> Interval(Min(products), Max(products))
        [] f = "maximum" -> Interval(Max({a.lo, b.lo}), Max({a.hi, b.hi}))
        [] f = "minimum" -> Interval(Min({a.lo, b.lo}), Min({a.hi, b.hi}))
        [] OTHER -> Hull
\* Sound by construction: what is not spelled out may be anything.
TriApply(f, x) ==
  LET All(kind) == \A i \in DOMAIN x : x[i].kind = kind
  IN  CASE All("num") /\ f \in {"le", "lt"} -> Order(f, x[1], x[2])
        [] All("num") /\ f \in {"ge", "gt"} -> Order(IF f = "ge" THEN "le" ELSE "lt", x[2], x[1])
        [] All("num") -> Arithmetic1(f, x)
        [] All("bool") /\ f = "mul" -> Truth({p /\ q : p \in x[1].may, q \in x[2].may})
        [] All("bool") /\ f = "maximum" -> Truth({p \/ q : p \in x[1].may, q \in x[2].may})
        [] f = "where" /\ x[1].kind = "bool" ->
             CASE x[1].may = {TRUE} -> x[2]
               [] x[1].may = {FALSE} -> x[3]
               [] x[2].kind = "bool" /\ x[3].kind = "bool" -> Truth(x[2].may \cup x[3].may)
               [] x[2].kind = "num" /\ x[3].kind = "num" -> Interval(Min({x[2].lo, x[3].lo}), Max({x[2].hi, x[3].hi}))
               [] OTHER -> Maybe
        [] OTHER -> Maybe
\* tri_eval: over inclusive boxes, given for each dim.
RECURSIVE TriEval(_, _, _)
TriEval(r, i, boxes) ==
  LET n == r.nodes[i]
  IN  CASE n.o.op = "iota" -> Interval(boxes[n.o.dim][1], boxes[n.o.dim][2])
        [] n.o.op \in ConstOps -> Interval(n.o.value, n.o.value)
        [] n.o.op \in {"repeat_like", "repeat", "simplify"} -> TriEval(r, n.args[1], boxes)
        [] n.o.op = "pointwise" ->
             TriApply(IF IsPrimitive(n.o.f) THEN n.o.f.prim ELSE "composite", [j \in DOMAIN n.args |-> TriEval(r, n.args[j], boxes)])
        [] OTHER -> Maybe

-----------------------------------------------------------------------------
(* BOUNDS *)

\* A line with a denominator, clamped to the range; exact at every place.
Clamped(fit, g, lo, hi) == Min({hi, Max({lo, (fit.a + fit.d * g) \div fit.c})})
FitOK(fit, seq, lo, hi) == \A g \in DOMAIN seq : Clamped(fit, g - 1, lo, hi) = seq[g]
FirstFit(fits, seq, lo, hi) == SelectSeq(fits, LAMBDA fit : FitOK(fit, seq, lo, hi))
Fit(a, d, c) == [a |-> a, d |-> d, c |-> c]
RoundHalfEven(x, y) == LET q == x \div y
                           twice == 2 * (x % y)
                       IN  IF twice > y \/ (twice = y /\ q % 2 = 1) THEN q + 1 ELSE q
\* The lines through one place with one of the differences; then those with
\* a denominator, and a slope next to that of the ends.
WidestDenominator == 64
FitAffine(seq, lo, hi) ==
  LET n == Len(seq)
      slopes == SetToSortSeq({seq[g + 1] - seq[g] : g \in 1 .. n - 1}, LAMBDA x, y : x < y)
      pure == FlattenSeq([k \in DOMAIN slopes |-> [g \in 1 .. n |-> Fit(seq[g] - slopes[k] * (g - 1), slopes[k], 1)]])
      span == seq[n] - seq[1]
      LinesAt(c, d, g) == [r \in 1 .. c |-> Fit(seq[g + 1] * c - d * g + r - 1, d, c)]
      Near(c) == LET d0 == RoundHalfEven(span * c, n - 1)
                 IN  FlattenSeq([k \in 1 .. 9 |-> LinesAt(c, d0 - 1 + ((k - 1) \div 3), <<0, n \div 2, n - 1>>[((k - 1) % 3) + 1])])
      Try1(found, c) == IF found # <<>> THEN found ELSE FirstFit(Near(c), seq, lo, hi)
  IN  IF n = 1 THEN <<Fit(seq[1], 0, 1)>>
      ELSE FoldLeft(Try1, FirstFit(pure, seq, lo, hi), [k \in 1 .. WidestDenominator - 1 |-> k + 1])
\* The tiles of s that some program of tile rows of t may find live, as bounds
\* affine in the program; none if a program or a row has no such tile.
PruneFlash(r, tile, si) ==
  LET p == FlashParts(r, r.out[1])
      rows == TyOf(r, p.q)[p.t]
      so == (Max(TyOf(r, p.k)[p.s]) + 1) \div si
      first == Min(rows)
      LastOf(g) == Min({first + (g + 1) * tile, Max(rows) + 1}) - 1
      Live(lo, hi) == {q \in 0 .. so - 1 : LET v == TriEval(r, p.mask, p.t :> <<lo, hi>> @@ p.s :> <<q * si, (q + 1) * si - 1>>)
                                           IN  v # Truth({FALSE})}
      programs == (Cardinality(rows) + tile - 1) \div tile
      act == [g \in 1 .. programs |-> Live(first + (g - 1) * tile, LastOf(g - 1))]
      los == FitAffine([g \in DOMAIN act |-> Min(act[g])], 0, so)
      his == FitAffine([g \in DOMAIN act |-> Max(act[g]) + 1], 0, so)
  IN  IF (\E g \in DOMAIN act : act[g] = {}) \/ (\E x \in rows : Live(x, x) = {}) THEN <<>>
      ELSE IF los = <<>> \/ his = <<>> THEN <<>> ELSE <<los[1], his[1]>>

PrunedAs(r, group, launch) ==
  group @@ [launch |-> launch,
            prune |-> IF group.ok /\ group.template = "flash" /\ launch # <<>>
                      THEN PruneFlash(r, launch[1].tile, KiOf("flash", r)) ELSE <<>>]
LaunchedAs(r, group, launches) == PrunedAs(r, group, IF launches = <<>> THEN <<>> ELSE launches[1])
PlannedAs(r, group, machine) ==
  LaunchedAs(r, group, IF group.ok /\ group.template # "uncompiled" THEN Propose(group.kernel, machine) ELSE <<>>)
\* plan_region: the group, the first launch there is, and the bounds of the
\* fold of a flash kernel under it.
PlanRegion(r, machine) ==
  PlannedAs(r, Recognize(r), machine)

-----------------------------------------------------------------------------
(* THE MODEL, CARVED AND PLANNED *)

CONSTANTS Models,      \* records: types, blocks, grow, joint, inputs, machine
          None

VARIABLES family,      \* what the model is written from
          values,      \* what a block may read: the params, and what blocks put out
          model,       \* the region, with its graph once it is written
          stage,       \* "write", a rung of the ladder, "residue", "dissolve", "plan", "done"
          part,        \* the partition in progress
          carves       \* a group for each claim, in order, as far as planned
vars == <<family, values, model, stage, part, carves>>

Init ==
  /\ family \in Models
  /\ model = Start(family.types)
  /\ values = [j \in DOMAIN family.types |-> j]
  /\ stage = "write" /\ part = Unclaimed /\ carves = <<>>

Grown == Len(values) - Len(family.types)
Newest == values[Len(values)]
\* A block reads values of given dims, one of them the latest.
WriteBlock ==
  /\ stage = "write" /\ Grown < family.grow
  /\ \E block \in family.blocks : \E env \in [DOMAIN block.reads -> Range(values)] :
       LET done == Lines([r |-> model, ok |-> TRUE], env, block.lines)
       IN  /\ \A n \in DOMAIN env : DOMAIN model.nodes[env[n]].ty = block.reads[n]
           /\ Grown = 0 \/ Newest \in Range(env)
           /\ done.b.ok
           /\ model' = done.b.r /\ values' = Append(values, New(done.b.r))
  /\ UNCHANGED <<family, stage, part, carves>>
\* The region of the model, or of its gradients.
JointRegion == Grad(model, Newest, TRUE, [j \in DOMAIN model.params |-> j], Whole).r
FinishModel ==
  /\ stage = "write" /\ Grown >= 1
  /\ model' = Graph(IF family.joint THEN JointRegion ELSE Yield(model, <<Newest>>))
  /\ stage' = Head(Rungs)
  /\ UNCHANGED <<family, values, part, carves>>

\* A rung of the ladder: every node of the interior in turn.
AfterRung == IF stage = Last(Rungs) THEN "residue" ELSE Rungs[SelectInSeq(Rungs, LAMBDA x : x = stage) + 1]
ClaimAnchors ==
  /\ stage \in Range(Rungs)
  /\ part' = ClaimRung(model, part, stage)
  /\ stage' = AfterRung
  /\ UNCHANGED <<family, values, model, carves>>
\* The roots of a component are met in no particular order.
ClaimResidue ==
  /\ stage = "residue"
  /\ LET left == {comp \in Components(model, part) : comp \cap UNION {c.members : c \in Range(part.claims)} = {}}
         comp == CHOOSE c \in left : \A d \in left : Min(c) <= Min(d)
     IN  IF left = {} THEN stage' = "dissolve" /\ UNCHANGED part
         ELSE /\ \E roots \in [1 .. Cardinality(ResidueRoots(model, comp)) -> ResidueRoots(model, comp)] :
                   /\ Range(roots) = ResidueRoots(model, comp)
                   /\ part' = [part EXCEPT !.claims = @ \o SplitResidue(model, part, comp, roots)]
              /\ UNCHANGED stage
  /\ UNCHANGED <<family, values, model, carves>>
DissolveOne ==
  /\ stage = "dissolve"
  /\ LET ready == {k \in DOMAIN part.claims : Dissolves(model, part, k)}
         first == CHOOSE k \in ready : \A l \in ready : l = k \/ Lighter(model, part, k, l)
     IN  IF ready = {} THEN stage' = "plan" /\ UNCHANGED part
         ELSE part' = Dissolve(model, part, first) /\ UNCHANGED stage
  /\ UNCHANGED <<family, values, model, carves>>
\* plan_model: a kernel met before, by its content key, has its group already.
\* Variant: by its signature.
Signature(r) == <<r.params, [j \in DOMAIN r.out |-> TyOf(r, r.out[j])]>>
GroupKey(r) == Key(r)
MetAt(key) == SelectInSeq(carves, LAMBDA c : c.ok /\ GroupKey(c.kernel) = key)
GroupFor(extracted, met) ==
  CASE ~extracted.ok -> Red(extracted.r) @@ [launch |-> <<>>, prune |-> <<>>]
    [] met # 0 -> carves[met].group
    [] OTHER -> PlanRegion(extracted.r, family.machine)
NewlyCounted(claim) ==
  {i \in claim.members \ UNION {part.claims[k].members : k \in 1 .. Len(carves)} : ~IsFree(model, i)}
CarveOf(claim, extracted) ==
  [kernel |-> extracted.r, ok |-> extracted.ok, bounds |-> extracted.bounds, nodes |-> Cardinality(NewlyCounted(claim)),
   group |-> GroupFor(extracted, MetAt(GroupKey(extracted.r)))]
PlanOne ==
  /\ stage = "plan" /\ Len(carves) < Len(part.claims)
  /\ LET claim == part.claims[Len(carves) + 1] IN carves' = Append(carves, CarveOf(claim, Extract(model, claim)))
  /\ stage' = IF Len(carves') = Len(part.claims) THEN "done" ELSE stage
  /\ UNCHANGED <<family, values, model, part>>

Next == WriteBlock \/ FinishModel \/ ClaimAnchors \/ ClaimResidue \/ DissolveOne \/ PlanOne
Spec == Init /\ [][Next]_vars

-----------------------------------------------------------------------------
(* PROPERTIES *)

Planned == stage = "done"
Roots(k) == Range(RootsOf(part.claims[k]))
\* What there is once the claims of K are computed: their roots, the params,
\* constants, and free views of those.
RECURSIVE IsThere(_, _)
IsThere(i, K) ==
  \/ OpOf(model, i) \in {"param"} \cup ConstOps
  \/ \E k \in K : i \in Roots(k)
  \/ IsFree(model, i) /\ \A a \in ArgsOf(model, i) : IsThere(a, K)

\* A claim has its roots, and what it claims is claimed; a kernel, and what is
\* generated for it, makes values of the types the roots of the claim have
\* from values of the types its operands have.
TypeOK ==
  /\ stage \in Range(Rungs) \cup {"write", "residue", "dissolve", "plan", "done"}
  /\ \A k \in DOMAIN part.claims : Roots(k) \subseteq part.claims[k].members
  /\ stage \in Range(Rungs) => part.claimed \subseteq UNION {c.members : c \in Range(part.claims)}
  /\ \A k \in DOMAIN carves :
       LET c == carves[k]
            SameTypes(r) == /\ r.params = [j \in DOMAIN c.bounds |-> TyOf(model, c.bounds[j])]
                      /\ \A j \in DOMAIN r.out : TyOf(r, r.out[j]) = TyOf(model, RootsOf(part.claims[k])[j])
       IN  c.ok /\ c.group.ok => SameTypes(c.kernel) /\ SameTypes(c.group.kernel)

\* "Interior members may not leak": a value that is read outside the claim
\* that makes it is the claim's root, or put out beside it, or recomputed by
\* what reads it.
NothingLeaks ==
  \A k \in DOMAIN part.claims :
    LET c == part.claims[k]
    IN  \A i \in c.members \ (Roots(k) \cup part.travel) :
          ~IsFree(model, i) => \A j \in Readers(model, i) : j # Sink /\ (IsFree(model, j) \/ j \in c.members)

\* "Coverage derived, never asserted": the claims are the interior, each node
\* counted once, and no node is in two but what travels.
ClaimsTile ==
  stage \in {"dissolve", "plan", "done"} =>
    /\ \A i \in Range(Interior(model)) : Owners(part, i) # {} /\ (Cardinality(Owners(part, i)) > 1 => i \in part.travel)
    /\ Planned => FoldLeft(LAMBDA n, c : n + c.nodes, 0, carves) = Len(Interior(model))

\* The claims can be computed in some order, each from params and from what
\* others put out, and together they make all the model puts out.
RECURSIVE Reach(_)
Reach(K) ==
  LET more == K \cup {k \in DOMAIN carves : \A j \in DOMAIN carves[k].bounds : IsThere(carves[k].bounds[j], K)}
  IN  IF more = K THEN K ELSE Reach(more)
PlanRuns ==
  Planned => Reach({}) = DOMAIN carves /\ \A j \in DOMAIN model.out : IsThere(model.out[j], DOMAIN carves)

\* Every kernel, the canonical one and the tile program generated for it,
\* makes of the values its operands have in the model the values its roots
\* have there.
CarveComputes(c, given, wanted) == \A j \in 1 .. 2 : Run(<<c.kernel, c.group.kernel>>[j], given) = wanted
CarvesCompute(all) ==
  \A k \in DOMAIN carves :
    LET c == carves[k]
        ValuesAt(places) == [j \in DOMAIN places |-> all[places[j]]]
    IN  c.ok /\ c.group.ok => CarveComputes(c, ValuesAt(c.bounds), ValuesAt(RootsOf(part.claims[k])))
PlanComputes ==
  Planned => \A vals \in family.inputs :
    CarvesCompute(Values(model, [p \in DOMAIN model.params |-> Tabled(Drawn(model.params[p], vals + p, FALSE))]))

\* "Never an exception (the pass reports; callers choose)": so for models that
\* leave no fold to the residue, whose kernel a residue takes without its step.
PlanReports == \A k \in DOMAIN carves : carves[k].ok /\ carves[k].group.ok

\* "A SWEPT-dim reduction refuses": what travels into a claim reduces no dim
\* that the claim sweeps.
TravelStaysInTile ==
  stage \in {"plan", "done"} =>
    \A k \in DOMAIN part.claims : ReduceDimsOf(model, part.claims[k].members \cap part.travel) \cap Sweep(model, part, k) = {}

\* A partition is a tiling of the interior that nothing leaks from.
PartitionIsSound == NothingLeaks /\ ClaimsTile /\ TravelStaysInTile
\* A plan can be run, is right, and is made with no exception, for a model
\* that leaves no fold to the residue.
PlanIsRight == PlanRuns /\ PlanComputes /\ PlanReports

\* A launch that is planned fits the machine: whatever tile of the output a
\* program has, what is staged for it, twice, in the kernel and in the steps of
\* its folds, is no more than the capacity.
RECURSIVE StagedFor(_, _)
StagedFor(r, launch) ==
  LET Side(t, n) == IF n = launch.dim THEN Min({launch.tile, Extent(t, n)}) ELSE Extent(t, n)
      Held(t) == TileItem * FoldSet(LAMBDA n, v : v * Side(t, n), 1, DOMAIN t)
  IN  MapThenSumSet(LAMBDA i : (IF OpOf(r, i) = "stage" THEN 2 * Held(TyOf(r, i)) ELSE 0)
                               + FoldLeft(LAMBDA v, step : v + StagedFor(step, launch), 0, r.nodes[i].sub), DOMAIN r.nodes)
\* "Unproven never means wrong, only unpruned": the tiles the bounds of a fold
\* leave out are masked, for every row of the program, and no row is left with
\* none.
MaskValue(r, p) == Values(r, [j \in DOMAIN r.params |-> [x \in Points(r.params[j]) |-> Lift(1)]])[p.mask]
LiveTiles(mask, p, row, si) == {x[p.s] \div si : x \in {x \in DOMAIN mask : x[p.t] = row /\ mask[x][1] # 0}}
KeepsLive(r, p, group, mask) ==
  LET so == (Max(TyOf(r, p.k)[p.s]) + 1) \div group.params
      rows == TyOf(r, p.q)[p.t]
      Program(row) == (row - Min(rows)) \div group.launch[1].tile
  IN  \A row \in rows :
        LET live == LiveTiles(mask, p, row, group.params)
        IN  live # {} /\ \A q \in live : /\ Clamped(group.prune[1], Program(row), 0, so) <= q
                                         /\ q < Clamped(group.prune[2], Program(row), 0, so)
PruneKeepsLive(r, group) == LET p == FlashParts(r, r.out[1]) IN KeepsLive(r, p, group, MaskValue(r, p))
LaunchIsSafe ==
  \A k \in DOMAIN carves :
    LET g == carves[k].group
    IN  /\ g.launch # <<>> => StagedFor(g.kernel, g.launch[1]) <= family.machine.capacity
        /\ g.prune # <<>> => PruneKeepsLive(carves[k].kernel, g)

\* "The carves in dependency order".  It does not hold.
CarvesInDependencyOrder ==
  \A k \in DOMAIN carves : \A j \in DOMAIN carves[k].bounds : IsThere(carves[k].bounds[j], 1 .. k - 1)
=============================================================================
