------------------------------ MODULE Autodiff ------------------------------
(***************************************************************************)
(* Reverse-mode differentiation as a transformation of regions (tensorlib  *)
(* autodiff.py; dialect.py derive_vjp; dsl derivative.py): the joint       *)
(* region is the forward one with the nodes of every cotangent added.      *)
(*                                                                         *)
(* A derivation in progress is a record: the region, the cotangents each   *)
(* node was given, and for the nodes already passed their sum.  Units and  *)
(* the restamping of charts and labels are not looked at.                  *)
(***************************************************************************)
EXTENDS Dialect

-----------------------------------------------------------------------------
(* SLOPES *)

\* The slope of a marker along its i-th operand: a row of the table for a
\* primitive, the partial of its tree for a composite one.
Slope(f, i) == IF IsPrimitive(f) THEN Table(f.prim)[i] ELSE Diff(f, i)

-----------------------------------------------------------------------------
(* A DERIVATION IN PROGRESS *)

Begin(r) == [r |-> r, cot |-> [i \in {} |-> <<>>], final |-> [i \in {} |-> 0]]
E(g, o, args) == [g EXCEPT !.r = Emit(@, o, args, <<>>)]
EFold(g, o, args, step) == [g EXCEPT !.r = Emit(@, o, args, <<step>>)]
At(g) == New(g.r)
Box(g, i) == g.r.nodes[i].ty
\* A chain of operations on one value; then from the latest.
Through(g, i, ops) ==
  FoldLeft(LAMBDA acc, o : [g |-> E(acc.g, o, <<acc.at>>), at |-> At(acc.g) + 1], [g |-> g, at |-> i], ops)
Onward(g, ops) == Through(g, At(g), ops)
\* Named operations, each of names, one after the other.
Bound1(acc, name, g) == [g |-> g, env |-> (name :> At(g)) @@ acc.env]
Emitted(g, env, lines) ==
  FoldLeft(LAMBDA acc, l : Bound1(acc, l[1], E(acc.g, l[2], [j \in DOMAIN l[3] |-> acc.env[l[3][j]]])), [g |-> g, env |-> env], lines).g
\* An operation for each of a sequence, and where they are; for each of a
\* family of such sequences, what its operations are depending on the others.
Collected(acc, e) == [g |-> e, made |-> Append(acc.made, At(e))]
EmitEach(g, places, Do(_, _)) == FoldFar(LAMBDA acc, j : Collected(acc, Do(acc.g, j)), [g |-> g, made |-> <<>>], places)
Joined(acc, name, all) == [g |-> all.g, made |-> (name :> all.made) @@ acc.made]
Families1(g, names, PlacesOf(_, _), Do(_, _, _, _)) ==
  FoldLeft(LAMBDA acc, name : Joined(acc, name, EmitEach(acc.g, PlacesOf(name, acc.made), LAMBDA a, j : Do(name, acc.made, a, j))),
           [g |-> g, made |-> <<>>], names)

PwOp(f) == [op |-> "pointwise", f |-> f]
Mul == PwOp(Pw("mul"))
AddOp == PwOp(Pw("add"))
SliceOp(n, lo, hi) == [op |-> "slice", dim |-> n, lo |-> lo, hi |-> hi]
PadOp(n, lo, hi) == [op |-> "pad", dim |-> n, lo |-> lo, hi |-> hi, fill |-> 0]
ShiftOp(n, by) == [op |-> "shift", dim |-> n, by |-> by]
FlipOp(n) == [op |-> "flip", dim |-> n]
RenameOp(m, n) == [op |-> "rename", dim |-> m, new |-> n]
RepeatOp(n, S) == [op |-> "repeat", dim |-> n, lo |-> Min(S), hi |-> Max(S) + 1]
\* Variant: the last place is left out.
PadShort(n, S) == PadOp(n, Min(S), Max(S))
PadTo(n, S) == PadOp(n, Min(S), Max(S) + 1)
SumOp(dims) == [op |-> "reduce", f |-> "sum", dims |-> dims]
ConstOp(v, b) == [op |-> "const", value |-> v, box |-> b]

\* contribute: a deferred scalar takes none.
Contribute(g, i, c) ==
  IF IsScalar(g.r.nodes[i]) THEN g
  ELSE [g EXCEPT !.cot = (i :> Append(IF i \in DOMAIN @ THEN @[i] ELSE <<>>, c)) @@ @]
Give(chain, i) == Contribute(chain.g, i, chain.at)
GiveLatest(g, i) == Contribute(g, i, At(g))
SumAll(g, terms) ==
  FoldLeft(LAMBDA acc, t : [g |-> E(acc.g, AddOp, <<acc.at, t>>), at |-> At(acc.g) + 1], [g |-> g, at |-> terms[1]], Tail(terms))
\* finalize: the sum of what a node was given.
Final1(total, i) == [total.g EXCEPT !.final = (i :> total.at) @@ @]
Finalize(g, i) == IF i \in DOMAIN g.final \/ i \notin DOMAIN g.cot THEN g ELSE Final1(SumAll(g, g.cot[i]), i)

-----------------------------------------------------------------------------
(* ONE RULE FOR EACH OPERATION.  n is the node, c its cotangent. *)

TimesLatest(g, c) == E(g, Mul, <<c, At(g)>>)
LatestTimes(g, c) == E(g, Mul, <<At(g), c>>)
PwOperand(acc, n, c, j, slope) ==
  IF slope = Free \/ IsConst(slope, 0) THEN acc
  ELSE IF IsPrimitive(n.o.f) /\ IsConst(slope, 1) THEN Contribute(acc, n.args[j], c)
  ELSE GiveLatest(TimesLatest(E(acc, PwOp(slope), n.args), c), n.args[j])
PwRule(g, n, c) == FoldLeft(LAMBDA acc, j : PwOperand(acc, n, c, j, Slope(n.o.f, j)), g, [j \in DOMAIN n.args |-> j])

RepeatAll(dims, b) == [j \in DOMAIN dims |-> RepeatOp(dims[j], b[dims[j]])]
\* The links of a max or min are its dims, one at a time.
Links(g, n) ==
  FoldLeft(LAMBDA acc, dim : Collected(acc, E(acc.g, [op |-> "reduce", f |-> n.o.f, dims |-> <<dim>>], <<Last(acc.made)>>)),
           [g |-> g, made |-> <<n.args[1]>>], n.o.dims)
\* A tie goes to the first place: the cotangent from after a link to before it.
KinkLines(dim, b) ==
  <<<<"one", ConstOp(1, b), <<>>>>, <<"zero", ConstOp(0, b), <<>>>>, <<"after", RepeatOp(dim, b[dim]), <<"link">>>>,
    <<"most", PwOp(Pw("eq")), <<"src", "after">>>>, <<"num", PwOp(Pw("where")), <<"most", "one", "zero">>>>,
    <<"rank", [op |-> "scan", f |-> "sum", dim |-> dim], <<"num">>>>, <<"firsts", PwOp(Pw("eq")), <<"rank", "one">>>>,
    <<"first", Mul, <<"most", "firsts">>>>, <<"spread", RepeatOp(dim, b[dim]), <<"cot">>>>, <<"out", Mul, <<"spread", "first">>>>>>
Latest1(g) == [g |-> g, at |-> At(g)]
KinkBack(acc, src, link, dim) ==
  Latest1(Emitted(acc.g, [src |-> src, link |-> link, cot |-> acc.at], KinkLines(dim, Box(acc.g, src))))
KinkFrom(links, n, c) ==
  FoldLeft(LAMBDA acc, j : KinkBack(acc, links.made[j], links.made[j + 1], n.o.dims[j]), [g |-> links.g, at |-> c],
           Reverse([j \in DOMAIN n.o.dims |-> j]))
KinkRule(g, n, c) == Give(KinkFrom(Links(g, n), n, c), n.args[1])
MeanOver(spread, b, dims) ==
  Emitted(spread.g, "spread" :> spread.at,
          <<<<"by", ConstOp(FoldLeft(LAMBDA m, d : m * Extent(b, d), 1, dims), b), <<>>>>, <<"mean", PwOp(Pw("div")), <<"spread", "by">>>>>>)
ReduceRule(g, n, c) ==
  LET A == n.args[1]
      b == Box(g, A)
      Spread1 == Through(g, c, RepeatAll(n.o.dims, b))
  IN  CASE n.o.f = "sum" -> Give(Spread1, A)
        [] n.o.f = "mean" -> GiveLatest(MeanOver(Spread1, b, n.o.dims), A)
        [] n.o.f \in {"max", "min"} -> KinkRule(g, n, c)
ScanRule(g, n, c) ==
  Give(Through(g, c, <<FlipOp(n.o.dim), [op |-> "scan", f |-> "sum", dim |-> n.o.dim], FlipOp(n.o.dim)>>), n.args[1])

\* The reducers the adjoint of one with a state of its own is made of: the
\* fold that gives one part of its state, and the linear recurrence
\* r' = M r + v, whose state is the matrix M by rows and then the vector.
StateScanner(by, j) == [by EXCEPT !.project = Arg(j)]
SumNodes(terms) == IF terms = <<>> THEN Const(0) ELSE FoldLeft(LAMBDA t, u : Prim("add", <<t, u>>), Head(terms), Tail(terms))
Products(k, F(_), G(_)) == SumNodes([x \in 1 .. k |-> Prim("mul", <<F(x), G(x)>>)])
\* Entries of the matrix and the vector of the left (0) and right (1) state.
MatrixAt(k, side, r, c) == Arg(side * (k * k + k) + (r - 1) * k + c)
VectorAt(k, side, r) == Arg(side * (k * k + k) + k * k + r)
MatrixPair(k) ==
  [j \in 1 .. k * k |-> LET r == (j - 1) \div k + 1
                            c == ((j - 1) % k) + 1
                        IN  Products(k, LAMBDA x : MatrixAt(k, 1, r, x), LAMBDA x : MatrixAt(k, 0, x, c))]
  \o [r \in 1 .. k |-> Prim("add", <<Products(k, LAMBDA x : MatrixAt(k, 1, r, x), LAMBDA x : VectorAt(k, 0, x)), VectorAt(k, 1, r)>>)]
AdjointScanner(by, i) ==
  LET k == by.state
      parts == 1 .. k * k + k
  IN  [state |-> k * k + k, element |-> k * k + k, lift |-> [j \in parts |-> Arg(j)], combine |-> MatrixPair(k),
       init |-> [j \in parts |-> IF j <= k * k /\ (j - 1) \div k = (j - 1) % k THEN 1 ELSE 0],
       project |-> Arg(k * k + i)]

\* window and stencil: one shifted copy of the cotangent for each tap.
TapOps(o, ty, src, k) ==
  LET hits == src \cap {i + (k * o.dilation) : i \in ty[o.dim]}
  IN  <<[op |-> "select", points |-> o.new :> k], ShiftOp(o.dim, k * o.dilation),
        IF hits = {} THEN SliceOp(o.dim, Min(src), Min(src)) ELSE SliceOp(o.dim, Min(hits), Max(hits) + 1), PadTo(o.dim, src)>>
TapRule(g, n, c) ==
  LET A == n.args[1]
  IN  FoldLeft(LAMBDA acc, k : Give(Through(acc, c, TapOps(n.o, n.ty, Box(g, A)[n.o.dim], k)), A), g, Along(n.ty, n.o.new))
\* decimate: zeros between, by a mask over the phases and a merge.
CanDecimate(n, src) ==
  Cardinality(src) % n.o.factor = 0 /\ Cardinality(src) \div n.o.factor = Cardinality(n.ty[n.o.dim])
\* The value of a chain where a line says so, and zero elsewhere.
MaskedBy(x, lines, same, b) ==
  Emitted(x.g, "x" :> x.at, lines \o <<<<"m", PwOp(Pw("eq")), same>>, <<"z", ConstOp(0, b), <<>>>>, <<"w", PwOp(Pw("where")), <<"m", "x", "z">>>>>>)
IotaLine(name, dim) == <<name, [op |-> "iota", dim |-> dim], <<"x">>>>
AtPhase(x, slot) ==
  MaskedBy(x, <<IotaLine("i", "_ph"), <<"slot", ConstOp(slot, Box(x.g, x.at)), <<>>>>>>, <<"i", "slot">>, Box(x.g, x.at))
DecimateRule(g, n, c) ==
  LET A == n.args[1]
      src == Box(g, A)[n.o.dim]
      f == n.o.factor
      slot == ((n.o.phase % f) - Min(src)) % f
      phases == <<RenameOp(n.o.dim, "_c"), [op |-> "repeat", dim |-> "_ph", lo |-> 0, hi |-> f]>>
  IN  Give(Onward(AtPhase(Through(g, c, phases), slot),
                  <<[op |-> "materialize"], [op |-> "merge", parts |-> <<"_c", "_ph">>, new |-> n.o.dim, start |-> Min(src)]>>), A)
\* diagonal of two dims: the cotangent where they are equal, on what the
\* first has if it has more places.
OnDiagonal(r2, x, y) == MaskedBy(r2, <<IotaLine("ix", x), IotaLine("iy", y)>>, <<"ix", "iy">>, Box(r2.g, r2.at))
DiagonalRule(g, n, c) ==
  LET A == n.args[1]
      b == Box(g, A)
      x == CHOOSE d \in n.o.parts : d = n.o.new \/ n.o.new \notin n.o.parts
      y == CHOOSE d \in n.o.parts : d # x
      back == Through(g, c, (IF n.o.new = x THEN <<>> ELSE <<RenameOp(n.o.new, x)>>) \o <<RepeatOp(y, b[y])>>)
  IN  Give(Onward(OnDiagonal(back, x, y), IF n.ty[n.o.new] = b[x] THEN <<>> ELSE <<PadTo(x, b[x])>>), A)

\* What a view of box b is undone by.
Undone(o, b) ==
  LET names == SetToSeq(DOMAIN o.points)
      part(j) == [name |-> o.parts[j], start |-> Min(b[o.parts[j]]), stop |-> Max(b[o.parts[j]]) + 1]
  IN  CASE o.op = "slice" -> <<PadTo(o.dim, b[o.dim])>>
        [] o.op = "pad" -> <<SliceOp(o.dim, Min(b[o.dim]), Max(b[o.dim]) + 1)>>
        [] o.op = "shift" -> <<ShiftOp(o.dim, -o.by)>>
        [] o.op = "flip" -> <<FlipOp(o.dim)>>
        [] o.op = "rename" -> <<RenameOp(o.new, o.dim)>>
        [] o.op = "repeat" -> <<SumOp(<<o.dim>>)>>
        [] o.op = "select" -> [j \in DOMAIN names |-> RepeatOp(names[j], {o.points[names[j]]})]
                              \o [j \in DOMAIN names |-> PadTo(names[j], b[names[j]])]
        [] o.op = "split" -> <<[op |-> "materialize"],
             [op |-> "merge", parts |-> [j \in DOMAIN o.parts |-> o.parts[j].name], new |-> o.dim, start |-> Min(b[o.dim])]>>
        [] o.op = "merge" -> <<[op |-> "split", dim |-> o.new, parts |-> [j \in DOMAIN o.parts |-> part(j)]]>>
LayoutRule(g, n, c) ==
  LET A == n.args[1]
      o == n.o
  IN  CASE o.op \in {"window", "stencil"} -> TapRule(g, n, c)
        [] o.op = "decimate" -> DecimateRule(g, n, c)
        [] o.op = "diagonal" -> DiagonalRule(g, n, c)
        [] o.op = "round_to" -> IF o.grad = "zero" THEN g ELSE Contribute(g, A, c)
        [] o.op \in Metadata \ {"stage"} -> Contribute(g, A, c)
        [] OTHER -> Give(Through(g, c, Undone(o, Box(g, A))), A)

IndexRule(g, n, c) ==
  LET A == n.args[1]
      idx == n.args[2]
      b == Box(g, A)[n.o.dim]
      over == Spliced(n.o, g.r.nodes[A], g.r.nodes[idx])
      back == IF n.o.op = "take" THEN [op |-> "scatter_add", dim |-> n.o.dim, lo |-> Min(b), hi |-> Max(b) + 1, over |-> over]
              ELSE [op |-> "take", dim |-> n.o.dim]
  IN  GiveLatest(E(g, back, <<c, idx>>), A)
RepeatLikeRule(g, n, c) ==
  LET added == DOMAIN n.ty \ DOMAIN Box(g, n.args[1])
  IN  Give(Through(g, c, IF added = {} THEN <<>> ELSE <<SumOp(SetToSeq(added))>>), n.args[1])

-----------------------------------------------------------------------------
(* FOLD SCHEDULES: what a fold's adjoint runs, as a sequence of advances    *)
(* (from the state at lo to the state at hi) and leaves (the steps from hi  *)
(* down to lo reversed, starting at the state at lo).                       *)

Far == 1000   \* stands for infinity
RECURSIVE RevolveCost(_, _)
RevolveCost(s, length) ==
  IF length <= 1 \/ s >= length THEN 0
  ELSE IF s < 1 THEN Far
  ELSE Min({m + RevolveCost(s - 1, length - m) + RevolveCost(s, m) : m \in 1 .. length - 1})
\* Of the heads that cost least the longest.
RevolveSplit(s, length) ==
  Max({m \in 1 .. length - 1 :
         m + RevolveCost(s - 1, length - m) + RevolveCost(s, m) = RevolveCost(s, length)})
Advance(lo, hi) == [do |-> "advance", lo |-> lo, hi |-> hi]
Leaf(lo, hi) == [do |-> "leaf", lo |-> lo, hi |-> hi]
RECURSIVE Revolve(_, _, _)
Revolve(lo, hi, s) ==
  IF hi - lo <= 1 \/ s >= hi - lo THEN <<Leaf(lo, hi)>>
  ELSE LET c == lo + RevolveSplit(s, hi - lo)
       IN  <<Advance(lo, c)>> \o Revolve(c, hi, s - 1) \o Revolve(lo, c, s)
Segments(lo, hi, k) ==
  LET length == (hi - lo) \div k
      From(j) == lo + (j - 1) * length
  IN  [j \in 1 .. k - 1 |-> Advance(From(j), From(j + 1))] \o Reverse([j \in 1 .. k |-> Leaf(From(j), From(j + 1))])

\* A schedule is K uniform segments or S checkpoint slots.
Whole == [kind |-> "segments", n |-> 1]
Schedulable(schedule, steps) == schedule.kind = "slots" \/ steps % Min({schedule.n, steps}) = 0
Plan(schedule, lo, hi) ==
  IF schedule.kind = "slots" THEN Revolve(lo, hi, schedule.n) ELSE Segments(lo, hi, Min({schedule.n, hi - lo}))

-----------------------------------------------------------------------------
(* FOLD *)

\* The region with more params, and its nodes renumbered.
Insert(r, before, after) ==
  LET p == Len(r.params)
      Place(i) == IF i <= p THEN i + Len(before) ELSE i + Len(before) + Len(after)
      Moved(n) == [n EXCEPT !.args = [j \in DOMAIN @ |-> Place(@[j])]]
      params == before \o r.params \o after
  IN  [params |-> params, out |-> [j \in DOMAIN r.out |-> Place(r.out[j])],
       nodes |-> Start(params).nodes \o [j \in 1 .. Len(r.nodes) - p |-> Moved(r.nodes[p + j])]]

\* The scalar whose gradient is the step's adjoint: the inner products of
\* what the step carries and puts out with their cotangents.  Its params are
\* the adjoint step's: state cotangents, the step's own, the output's.
EndingAt(r) == [r |-> r, at |-> New(r)]
Summed1(r, dims) == IF dims = {} THEN r ELSE Emit(r, SumOp(SetToSeq(dims)), <<New(r)>>, <<>>)
SummedAll(r) == Summed1(r, DOMAIN r.nodes[New(r)].ty)
AddedTo(r, at) == EndingAt(IF at = 0 THEN r ELSE Emit(r, AddOp, <<at, New(r)>>, <<>>))
InnerProduct(acc, pair) == AddedTo(SummedAll(Emit(acc.r, Mul, pair, <<>>)), acc.at)
InnerProducts(r, k, outAt) ==
  FoldLeft(InnerProduct, [r |-> r, at |-> 0], [i \in 1 .. k |-> <<r.out[i], i>>] \o << <<r.out[outAt], Len(r.params)>> >>)
Wrapper(step, k, outAt) ==
  InnerProducts(Insert(step, SubSeq(step.params, 1, k), <<step.nodes[step.out[outAt]].ty>>), k, outAt)

RECURSIVE Grad(_, _, _, _, _)

\* What the two passes of a fold's adjoint share: the step, its adjoint
\* step, and the cotangent of what the fold puts out, step by step.
Carried(z, carry) == [r |-> z, carry |-> Append(carry, New(z))]
Ensured(acc, at, b) ==
  IF at # 0 THEN [acc EXCEPT !.carry = Append(@, at)] ELSE Carried(Emit(acc.r, ConstOp(0, b), <<>>, <<>>), acc.carry)
WithOut(acc) == [acc.r EXCEPT !.out = acc.carry]
AdjointStep(wg, step, k) ==
  WithOut(FoldLeft(LAMBDA acc, i : Ensured(acc, wg.grads[i], step.params[i]), [r |-> wg.r, carry |-> <<>>], [i \in 1 .. k |-> i]))
WrapperGrad(w, step, k) == Grad(w.r, w.at, FALSE, [i \in 1 .. Len(step.params) |-> k + i], Whole)
ContextWith(g, n, yb, k, step, wg) ==
  [n |-> n, k |-> k, yb |-> yb, dim |-> n.o.dim, step |-> step, grads |-> wg.grads, adjoint |-> AdjointStep(wg, step, k),
   box |-> (n.o.dim :> FoldDim(n.o, [i \in DOMAIN n.args |-> g.r.nodes[n.args[i]]]))]
FoldContext(g, n, yb) ==
  LET k == n.o.states
      step == n.sub[1]
      outAt == IF n.o.out[1] = "final" THEN n.o.out[2] ELSE k + 1
  IN  ContextWith(g, n, yb, k, step, WrapperGrad(Wrapper(step, k, outAt), step, k))

\* The sum of a slope times a cotangent for each of the parts that have both.
SumMade(all) == IF all.made = <<>> THEN [g |-> all.g, at |-> 0] ELSE SumAll(all.g, all.made)
SlopesTimes(g, slopes, ops, cots) ==
  SumMade(FoldLeft(LAMBDA acc, i : IF IsConst(slopes[i], 0) \/ cots[i] = 0 THEN acc
                                   ELSE Collected(acc, LatestTimes(E(acc.g, PwOp(slopes[i]), ops), cots[i])),
                   [g |-> g, made |-> <<>>], [i \in DOMAIN slopes |-> i]))
\* The adjoint of a sweep along dim, from the cotangent sc of its answers: the
\* states and the lifted elements as tensors, each also one place on; the
\* matrices of what a state does to the next, and the cotangents of the states,
\* run backwards through the recurrence; what comes out, through combine's
\* right half and lift, is the cotangent of the elements.
SweepStages == <<"states", "lifts", "prev", "next", "matrix", "vector", "cots">>
OnePlaceOn(a, v, dim, back, lo, hi, pad) == Through(a, v, <<ShiftOp(dim, back), SliceOp(dim, lo, hi), pad>>).g
Backwards(a, dim) == E(a, FlipOp(dim), <<At(a)>>)
SweepPart(by, dim, elems, sc, s0, s1, name, made, a, j) ==
  CASE name = "states" -> E(a, [op |-> "sweep", by |-> StateScanner(by, j), dim |-> dim], elems)
    [] name = "lifts" -> E(a, PwOp(by.lift[j]), elems)
    [] name = "prev" -> OnePlaceOn(a, made["states"][j], dim, 1, s0 + 1, s1, [PadOp(dim, s0, s1) EXCEPT !.fill = by.init[j]])
    [] name = "next" -> OnePlaceOn(a, made["lifts"][j], dim, -1, s0, s1 - 1, PadOp(dim, s0, s1))
    [] name = "matrix" ->
         Backwards(E(a, PwOp(Diff(by.combine[((j - 1) % by.state) + 1], (j - 1) \div by.state + 1)), made["states"] \o made["next"]), dim)
    [] name = "vector" -> Backwards(LatestTimes(E(a, PwOp(Diff(by.project, j)), made["states"]), sc), dim)
    [] name = "cots" ->
         Backwards(E(a, [op |-> "sweep", by |-> AdjointScanner(by, j), dim |-> dim], made["matrix"] \o made["vector"]), dim)
SweepFamilies(g, by, dim, elems, sc, s0, s1) ==
  Families1(g, SweepStages, LAMBDA name, made : [j \in 1 .. (IF name = "matrix" THEN by.state * by.state ELSE by.state) |-> j],
            LAMBDA name, made, a, j : SweepPart(by, dim, elems, sc, s0, s1, name, made, a, j))
BarMade(acc, t) == [g |-> t.g, made |-> Append(acc.made, t.at)]
Bars(all, by) ==
  FoldFar(LAMBDA acc, j : BarMade(acc, SlopesTimes(acc.g, [i \in 1 .. by.state |-> Diff(by.combine[i], by.state + j)],
                                                   all.made["prev"] \o all.made["lifts"], all.made["cots"])),
          [g |-> all.g, made |-> <<>>], [j \in 1 .. by.state |-> j])
GiveSum(t, i) == IF t.at = 0 THEN t.g ELSE Contribute(t.g, i, t.at)
ElementCotangents(bars, by, elems) ==
  FoldFar(LAMBDA a, i : GiveSum(SlopesTimes(a, [j \in 1 .. by.state |-> Diff(by.lift[j], i)], elems, bars.made), elems[i]),
          bars.g, [i \in 1 .. by.element |-> i])
SweepAdjoint(y, by, dim, elems, places) ==
  ElementCotangents(Bars(SweepFamilies(y.g, by, dim, elems, y.at, Min(places), Max(places) + 1), by), by, elems)
\* A collapse is a sweep of which the last answer is kept.
LastAnswer(g, c, dim, places) == Through(g, c, <<RepeatOp(dim, {Max(places)}), PadTo(dim, places)>>)
SweepRule(g, n, c) ==
  LET dim == IF n.o.op = "sweep" THEN n.o.dim ELSE n.o.dims[1]
      places == Box(g, n.args[1])[dim]
  IN  SweepAdjoint(IF n.o.op = "sweep" THEN [g |-> g, at |-> c] ELSE LastAnswer(g, c, dim, places), n.o.by, dim, n.args, places)

FoldOp(x, states, out, lo, hi) == [op |-> "fold", dim |-> x.dim, states |-> states, out |-> out, lo |-> lo, hi |-> hi]

\* The state each step of a leaf starts from: the emitted trajectory one
\* step later, and the state at lo first.
Yielding(step, k, i) == [step EXCEPT !.out = SubSeq(@, 1, k) \o <<@[i]>>]
Trajectory(g, x, i, ops, lo, hi) ==
  Onward(EFold(g, FoldOp(x, x.k, <<"emit", 0>>, lo, hi), ops, Yielding(x.step, x.k, i)),
         <<ShiftOp(x.dim, 1), SliceOp(x.dim, lo + 1, hi), PadOp(x.dim, lo, hi)>>)
StartingAt(t, x, s0, lo, hi) ==
  Emitted(t.g, [late |-> t.at, s0 |-> s0],
          <<<<"first", RepeatOp(x.dim, lo .. hi - 1), <<"s0">>>>, <<"i", [op |-> "iota", dim |-> x.dim], <<"late">>>>,
            <<"lo", ConstOp(lo, Box(t.g, t.at)), <<>>>>, <<"m", PwOp(Pw("eq")), <<"i", "lo">>>>,
            <<"w", PwOp(Pw("where")), <<"m", "first", "late">>>>>>)
\* The state at hi from the state at lo.
AdvancePart(acc, x, lo, hi, name, made, a, j) ==
  CASE name = "elements" -> E(a, SliceOp(x.dim, lo, hi), <<j>>)
    [] name = "final" -> EFold(a, FoldOp(x, x.k, <<"final", j>>, lo, hi), acc.at[lo] \o made["elements"], x.step)
AdvanceFamilies(acc, x, lo, hi) ==
  Families1(acc.g, <<"elements", "final">>,
            LAMBDA name, made : IF name = "elements" THEN Elements(x.n.o, x.n.args) ELSE [i \in 1 .. x.k |-> i],
            LAMBDA name, made, a, j : AdvancePart(acc, x, lo, hi, name, made, a, j))
ArrivedAt(acc, s, hi) == [acc EXCEPT !.g = s.g, !.at = (hi :> s.made["final"]) @@ @]
AdvanceRule(acc, x, lo, hi) == ArrivedAt(acc, AdvanceFamilies(acc, x, lo, hi), hi)
\* The steps of a leaf reversed: its elements and answers, the states before
\* each step, all of them flipped; what its elements and then its state are given.
LeafStages == <<"elements", "previous", "answers", "flipped", "given", "cot">>
Answering(x, whole, made) == IF whole THEN <<x.yb>> ELSE made["answers"]
LeafPlaces(x, whole, name, made) ==
  CASE name = "elements" -> Elements(x.n.o, x.n.args)
    [] name = "answers" -> IF whole THEN <<>> ELSE <<x.yb>>
    [] name = "flipped" -> made["previous"] \o made["elements"] \o Answering(x, whole, made)
    [] name = "given" -> SelectSeq([j \in 1 .. Len(x.n.args) - x.k |-> j], LAMBDA j : x.grads[x.k + j] # 0)
    [] OTHER -> [i \in 1 .. x.k |-> i]
ElementStep(x, j) == [x.adjoint EXCEPT !.out = @ \o <<x.grads[x.k + j]>>]
LeafPart(acc, x, lo, hi, whole, name, made, a, j) ==
  CASE name \in {"elements", "answers"} -> E(a, SliceOp(x.dim, lo, hi), <<j>>)
    [] name = "flipped" -> E(a, FlipOp(x.dim), <<j>>)
    [] name = "previous" -> StartingAt(Trajectory(a, x, j, acc.at[lo] \o made["elements"], lo, hi), x, acc.at[lo][j], lo, hi)
    [] name = "given" ->
         Give(Onward(EFold(a, FoldOp(x, x.k, <<"emit", 0>>, lo, hi), acc.cur \o made["flipped"], ElementStep(x, j)),
                     <<FlipOp(x.dim)>> \o (IF whole THEN <<>> ELSE <<PadTo(x.dim, x.box[x.dim])>>)),
              Elements(x.n.o, x.n.args)[j])
    [] name = "cot" -> EFold(a, FoldOp(x, x.k, <<"final", j>>, lo, hi), acc.cur \o made["flipped"], x.adjoint)
LeafFamilies(acc, x, lo, hi, whole) ==
  Families1(acc.g, LeafStages, LAMBDA name, made : LeafPlaces(x, whole, name, made),
            LAMBDA name, made, a, j : LeafPart(acc, x, lo, hi, whole, name, made, a, j))
CotangentAt(acc, s) == [acc EXCEPT !.g = s.g, !.cur = s.made["cot"]]
LeafRule(acc, x, lo, hi) == CotangentAt(acc, LeafFamilies(acc, x, lo, hi, lo .. hi - 1 = x.box[x.dim]))

FoldZeros(g, x) == EmitEach(g, [i \in 1 .. x.k |-> i], LAMBDA a, i : E(a, ConstOp(0, x.step.params[i]), <<>>))
FoldSteps(zeros, x, n, plan, lo) ==
  FoldLeft(LAMBDA acc, s : IF s.do = "advance" THEN AdvanceRule(acc, x, s.lo, s.hi) ELSE LeafRule(acc, x, s.lo, s.hi),
           [g |-> zeros.g, cur |-> zeros.made, at |-> (lo :> States(n.o, n.args))], plan)
GiveStates(done, x, n) ==
  FoldLeft(LAMBDA a, i : IF x.grads[i] = 0 THEN a ELSE Contribute(a, n.args[i], done.cur[i]), done.g, [i \in 1 .. x.k |-> i])
FoldBack(g, x, n, plan, lo) == GiveStates(FoldSteps(FoldZeros(g, x), x, n, plan, lo), x, n)
FoldOver1(y, n, schedule, lo, hi) == FoldBack(y.g, FoldContext(y.g, n, y.at), n, Plan(schedule, lo, hi), lo)
FoldRule(g, n, c, schedule) ==
  LET places == FoldDim(n.o, [i \in DOMAIN n.args |-> g.r.nodes[n.args[i]]])
  IN  FoldOver1(IF n.o.out[1] = "emit" THEN [g |-> g, at |-> c] ELSE LastAnswer(g, c, n.o.dim, places),
                n, schedule, Min(places), Min(places) + Cardinality(places))

-----------------------------------------------------------------------------
(* THE REVERSE WALK *)

Gradientless == {"param", "scalar", "const", "iota", "random", "argsort", "argtopk"}
\* Whether the rules reach through the node.
Derivable(r, n, schedule) ==
  LET src == r.nodes[n.args[1]].ty
  IN  CASE n.o.op \in Gradientless -> TRUE
        [] n.o.op = "reduce" -> n.o.f \in {"sum", "mean", "max", "min"}
        [] n.o.op = "scan" -> n.o.f = "sum"
        [] n.o.op = "decimate" -> CanDecimate(n, src[n.o.dim])
        [] n.o.op = "diagonal" -> Cardinality(n.o.parts) = 2
        [] n.o.op = "fold" -> Schedulable(schedule, Cardinality(FoldDim(n.o, [i \in DOMAIN n.args |-> r.nodes[n.args[i]]])))
        [] n.o.op = "stage" -> FALSE
        [] OTHER -> TRUE
RECURSIVE AllDerivable(_, _, _)
AllDerivable(r, target, schedule) ==
  \A i \in Range(WalkFrom(r, <<target>>)) :
    /\ Derivable(r, r.nodes[i], schedule)
    /\ \A j \in DOMAIN r.nodes[i].sub : \A y \in Range(r.nodes[i].sub[j].out) :
         AllDerivable(r.nodes[i].sub[j], y, Whole)

Adjoint(g, i, schedule) ==
  LET n == g.r.nodes[i]
      c == g.final[i]
  IN  CASE n.o.op \in Gradientless -> g
        [] n.o.op = "pointwise" -> PwRule(g, n, c)
        [] n.o.op = "reduce" -> ReduceRule(g, n, c)
        [] n.o.op = "scan" -> ScanRule(g, n, c)
        [] n.o.op \in {"collapse", "sweep"} -> SweepRule(g, n, c)
        [] n.o.op = "fold" -> FoldRule(g, n, c, schedule)
        [] n.o.op = "repeat_like" -> RepeatLikeRule(g, n, c)
        [] n.o.op \in {"take", "scatter_add"} -> IndexRule(g, n, c)
        [] OTHER -> LayoutRule(g, n, c)
\* grad: the joint region yields the target and the gradients wrt asks for;
\* grads has a 0 where no gradient flows.  With a seed the joint has one
\* more param, the last.
Pass(f, i, schedule) == IF i \in DOMAIN f.final THEN Adjoint(f, i, schedule) ELSE f
WalkBack(g, t, schedule) ==
  FoldFar(LAMBDA acc, i : Pass(Finalize(acc, i), i, schedule), g, Reverse(WalkFrom(g.r, <<t>>)))
Joint(asked, t, grads) == [r |-> Yield(asked.r, <<t>> \o SelectSeq(grads, LAMBDA v : v # 0)), grads |-> grads]
Gradients(asked, t, wrt) ==
  Joint(asked, t, [j \in DOMAIN wrt |-> IF wrt[j] \in DOMAIN asked.final THEN asked.final[wrt[j]] ELSE 0])
GradOf(seeds, t, wrt, schedule) == Gradients(FoldLeft(Finalize, WalkBack(seeds, t, schedule), wrt), t, wrt)
SeedAt(g, t, at) == [g EXCEPT !.cot = (t :> <<at>>)]
SeedOne(g, t) == SeedAt(g, t, At(g))
Grad(r, target, seeded, wrt, schedule) ==
  LET p == Len(r.params)
      Place(i) == IF seeded /\ i > p THEN i + 1 ELSE i
  IN  GradOf(IF seeded THEN SeedAt(Begin(Insert(r, <<>>, <<r.nodes[target].ty>>)), Place(target), p + 1)
             ELSE SeedOne(E(Begin(r), ConstOp(1, <<>>), <<>>), target),
             Place(target), [j \in DOMAIN wrt |-> Place(wrt[j])], schedule)

-----------------------------------------------------------------------------
(* THE GENERAL VJP (dialect.py): the same walk over what kernels are        *)
(* written with, its slopes one operation for each primitive.  An operation *)
(* its type rule refuses stops it: ok is FALSE from there on.               *)

VjpSupported(r) ==
  \A i \in Range(Walk(r)) :
    LET o == r.nodes[i].o
    IN  /\ o.op \in {"pointwise", "reduce", "repeat_like", "scalar", "param"}
        /\ o.op = "pointwise" => IsPrimitive(o.f)
        /\ o.op = "reduce" => o.f \in {"sum", "mean"}
Try(v, o, args) ==
  IF CanEmit(v.r, o, args, <<>>) THEN [v EXCEPT !.r = Emit(@, o, args, <<>>)] ELSE [v EXCEPT !.ok = FALSE]
Ending(v) == [v |-> v, at |-> New(v.r)]
ScalarOp(v) == [op |-> "scalar", value |-> v]
SplicePrim(subs, prim) == Ending(Try(subs.v, PwOp(Pw(prim)), subs.at))
SplicedOn(acc, s) == [v |-> s.v, at |-> Append(acc.at, s.at)]
RECURSIVE Splice(_, _, _)
\* A slope as nodes over the operands at args: its place is at.
Splice(v, t, args) ==
  CASE t.tree = "arg" -> [v |-> v, at |-> args[t.index]]
    [] t.tree = "const" -> Ending(Try(v, ScalarOp(t.value), <<>>))
    [] OTHER -> SplicePrim(FoldLeft(LAMBDA acc, u : SplicedOn(acc, Splice(acc.v, u, args)), [v |-> v, at |-> <<>>], t.sub), t.prim)
\* Variant: the last term takes the place of the others.
Overwrite(v, i, term) == [v EXCEPT !.adj = (i :> term) @@ @]
GivenLatest(v, i) == [v EXCEPT !.adj = (i :> New(v.r)) @@ @]
Accrue(v, i, term) ==
  IF i \notin DOMAIN v.adj THEN [v EXCEPT !.adj = (i :> term) @@ @] ELSE GivenLatest(Try(v, AddOp, <<v.adj[i], term>>), i)
AccrueLatest(v, i) == Accrue(v, i, New(v.r))
TryTimes(s, a) == Try(s.v, Mul, <<s.at, a>>)
PullOperand(v, n, a, j) ==
  LET slope == Table(n.o.f.prim)[j]
  IN  IF slope = Free \/ IsScalar(v.r.nodes[n.args[j]]) THEN v
      ELSE AccrueLatest(TryTimes(Splice(v, slope, n.args), a), n.args[j])
Divided(by, at) == Try(by, PwOp(Pw("div")), <<at, New(by.r)>>)
Averaging(rep, count) == Divided(Try(rep, ScalarOp(count), <<>>), New(rep.r))
\* Through a reduction and through a repeat.
PullSpread(rep, n, b) ==
  IF n.o.f # "mean" THEN rep ELSE Averaging(rep, FoldSet(LAMBDA d, k : k * Extent(b, d), 1, DOMAIN b \ DOMAIN n.ty))
PullAlong(v, n, a, x, b) ==
  IF n.o.op = "repeat_like" THEN Try(v, SumOp(SetToSeq(DOMAIN n.ty \ DOMAIN b)), <<a>>)
  ELSE PullSpread(Try(v, [op |-> "repeat_like"], <<a, x>>), n, b)
Pulled(v, n, a) ==
  CASE n.o.op = "pointwise" -> FoldLeft(LAMBDA acc, j : PullOperand(acc, n, a, j), v, [j \in DOMAIN n.args |-> j])
    [] n.o.op \in {"reduce", "repeat_like"} ->
         AccrueLatest(PullAlong(v, n, a, n.args[1], v.r.nodes[n.args[1]].ty), n.args[1])
    [] OTHER -> v
Pullback(v, i) == IF i \notin DOMAIN v.adj \/ ~v.ok THEN v ELSE Pulled(v, v.r.nodes[i], v.adj[i])
\* The walk over a region and an adjoint of its output of type ty.
WalkedFrom(moved, p) ==
  FoldLeft(Pullback, [r |-> moved, adj |-> (moved.out[1] :> p), ok |-> TRUE],
           Reverse(SelectSeq(WalkFrom(moved, <<moved.out[1]>>), LAMBDA i : i >= p)))
Walked(r, ty) == WalkedFrom(Insert(r, <<>>, <<ty>>), Len(r.params) + 1)
\* derive_vjp of a region of one output: params are its own and the output's
\* adjoint; it yields an adjoint for each of its own params.
VjpZero(z, i) == Try(z, Mul, <<i, New(z.r)>>)
VjpEnsured(v, i) == IF i \in DOMAIN v.adj THEN v ELSE GivenLatest(VjpZero(Try(v, ScalarOp(0), <<>>), i), i)
VjpYield(all, p) == [r |-> Yield(all.r, [i \in 1 .. p |-> all.adj[i]]), ok |-> all.ok]
Vjp(r) == VjpYield(FoldLeft(VjpEnsured, Walked(r, r.nodes[r.out[1]].ty), [i \in DOMAIN r.params |-> i]), Len(r.params))

\* check_fold_step_supported, and derive_step_vjp of a step from a state and an
\* element: params are its own and the next state's adjoint, the state's is
\* yielded, and none may flow to the element.
StepSupported(r) ==
  \A i \in Range(Walk(r)) :
    LET o == r.nodes[i].o IN o.op \in {"pointwise", "scalar", "param"} /\ (o.op = "pointwise" => IsPrimitive(o.f))
StepYield(walked, r) ==
  IF walked.ok /\ 1 \in DOMAIN walked.adj /\ 2 \notin DOMAIN walked.adj
  THEN [r |-> Yield(walked.r, <<walked.adj[1]>>), ok |-> TRUE] ELSE [r |-> r, ok |-> FALSE]
StepVjp(r) == StepYield(Walked(r, r.params[1]), r)
NextState(step, s, x) == Run(step, <<s, x>>)[1]
\* fold_grad: the adjoint of the first state, from the states kept at the start
\* of every segment, the others computed again; of no slots, one segment.
Stride(n, slots) == IF slots = 0 THEN n ELSE (n + slots - 1) \div slots
FoldGrad(step, vjp, init, elems, slots) ==
  LET n == Len(elems)
      stride == Stride(n, slots)
      Step(acc, q) == [s |-> NextState(step, acc.s, elems[q]), kept |-> IF (q - 1) % stride = 0 THEN Append(acc.kept, acc.s) ELSE acc.kept]
      kept == FoldLeft(Step, [s |-> init, kept |-> <<>>], [q \in 1 .. n |-> q]).kept
      Segment(ds, k) ==
        LET base == (k - 1) * stride
            size == Min({stride, n - base})
            states == FoldLeft(LAMBDA ss, q : Append(ss, NextState(step, ss[q], elems[base + q])), <<kept[k]>>, [q \in 1 .. size |-> q])
        IN  FoldLeft(LAMBDA d, q : Run(vjp, <<states[q], elems[base + q], d>>)[1], ds, Reverse([q \in 1 .. size |-> q]))
  IN  FoldLeft(Segment, [p \in DOMAIN init |-> Lift(1)], Reverse([k \in DOMAIN kept |-> k]))
=============================================================================
