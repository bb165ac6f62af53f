------------------------------ MODULE Dialect ------------------------------
(***************************************************************************)
(* The tl dialect (tensorlib dialect.py, compute.py, indexing.py): regions *)
(* of tensor operations, the type rule of each, and what a region denotes. *)
(*                                                                         *)
(* A region is its params' types, its nodes in an order in which operands  *)
(* come first (the params lead) and the nodes it yields.  A node is        *)
(* identified by its place, as the code's are by id().  A type is a box    *)
(* (PointOps); frames, charts, labels and strides are those of Layouts and *)
(* Views.  Floats are exact: the carrier is the integers modulo Modulus,   *)
(* ordered by representative: a field if it is a prime, and with an        *)
(* exponential that is not 1 everywhere if it has a square factor.  A      *)
(* value has a second part, its derivative along some direction of the     *)
(* inputs, which no operation of the program can see: it is what Autodiff  *)
(* is compared with.                                                       *)
(***************************************************************************)
EXTENDS PointOps, Slopes

CONSTANT Modulus
ASSUME ModulusAssumption == Modulus \in Nat \ {0, 1}

\* FoldLeft, a stretch at a time from a value that is at hand: a region may be
\* longer than TLC's stack is deep.
Stretch == 8
FoldFar(op(_, _), base, seq) ==
  LET Upto(k) == SubSeq(seq, (k - 1) * Stretch + 1, IF k * Stretch < Len(seq) THEN k * Stretch ELSE Len(seq))
  IN  FoldLeft(LAMBDA acc, k : CHOOSE v \in {FoldLeft(op, held, Upto(k)) : held \in {acc}} : TRUE, base,
               [k \in 1 .. (Len(seq) + Stretch - 1) \div Stretch |-> k])

-----------------------------------------------------------------------------
(* SCALARS: the marker vocabulary *)

El(v, t) == <<v % Modulus, t % Modulus>>
Lift(v) == El(v, 0)
Bool(b) == IF b THEN <<1, 0>> ELSE <<0, 0>>
\* 1/v, and 0 where there is none.
Inverse1(v) ==
  LET inverses == {w \in 1 .. Modulus - 1 : (v * w) % Modulus = 1} IN IF inverses = {} THEN 0 ELSE CHOOSE w \in inverses : TRUE
\* What squares to zero: a step so small that 1 + Tiny * v is the exponential.
Tiny == Min({w \in 1 .. Modulus : (w * w) % Modulus = 0})
Exponential(v) == (1 + Tiny * v) % Modulus

\* The primitive markers (markers.pw).  At a tie the first operand wins.
Primitive(op, x) ==
  LET a == x[1]
      b == x[2]
  IN  CASE op = "add" -> El(a[1] + b[1], a[2] + b[2])
        [] op = "sub" -> El(a[1] - b[1], a[2] - b[2])
        [] op = "mul" -> El(a[1] * b[1], a[1] * b[2] + a[2] * b[1])
        [] op = "div" -> LET i == Inverse1(b[1]) IN El(a[1] * i, (a[2] - a[1] * i * b[2]) * i)
        [] op = "neg" -> El(-a[1], -a[2])
        [] op = "maximum" -> IF a[1] >= b[1] THEN a ELSE b
        [] op = "minimum" -> IF a[1] <= b[1] THEN a ELSE b
        [] op = "where" -> IF a[1] # 0 THEN b ELSE x[3]
        [] op = "exp" -> El(Exponential(a[1]), Exponential(a[1]) * a[2])
        [] op = "sqrt" -> Lift(Exponential(a[1] * a[1]))
        [] op = "stop_gradient" -> Lift(a[1])
        [] op = "eq" -> Bool(a[1] = b[1])
        [] op = "ne" -> Bool(a[1] # b[1])
        [] op = "lt" -> Bool(a[1] < b[1])
        [] op = "le" -> Bool(a[1] <= b[1])
        [] op = "gt" -> Bool(a[1] > b[1])
        [] op = "ge" -> Bool(a[1] >= b[1])

\* The value of a marker tree (Slopes).
RECURSIVE EvalTree(_, _)
EvalTree(f, x) ==
  CASE f.tree = "arg" -> x[f.index]
    [] f.tree = "const" -> Lift(f.value)
    [] OTHER -> Primitive(f.prim, [i \in DOMAIN f.sub |-> EvalTree(f.sub[i], x)])
\* A primitive as the tree that applies it to its arguments in order.
Marker(op, arity) == Prim(op, [i \in 1 .. arity |-> Arg(i)])
Unary == {"neg", "exp", "sqrt", "stop_gradient"}
Pw(op) == Marker(op, IF op \in Unary THEN 1 ELSE IF op = "where" THEN 3 ELSE 2)
IsPrimitive(f) == f.tree = "prim" /\ f = Marker(f.prim, Len(f.sub))

-----------------------------------------------------------------------------
(* TYPES *)

\* A function written out: the same function.
Tabled(f) == f @@ <<>>
Node(o, args, ty, sub) == [o |-> o, args |-> args, ty |-> ty, sub |-> sub]
IsScalar(n) == n.o.op = "scalar"
ViewOps == {"slice", "select", "shift", "rename", "repeat", "flip", "split", "merge", "diagonal", "window",
            "decimate", "pad", "stencil"}
Metadata == {"with_value_units", "stage", "materialize", "round_to", "strip_charts", "with_charts", "simplify",
             "bind"}
Extent(b, n) == Cardinality(b[n])
Volume(b) == FoldSet(LAMBDA n, p : p * Cardinality(b[n]), 1, DOMAIN b)
States(o, args) == SubSeq(args, 1, o.states)
Elements(o, args) == SubSeq(args, o.states + 1, Len(args))
Tensors(args) == SelectSeq(args, LAMBDA n : ~IsScalar(n))
Aligned(nodes) == \A i, j \in DOMAIN nodes : nodes[i].ty = nodes[j].ty
\* The naming law of the indexing family: a dim of one name is one lattice.
SameLattice(a, b, names) == \A n \in names : n \in DOMAIN a /\ a[n] = b[n]
\* The index dims a take adds to the table's: those it does not have already.
Spliced(o, table, idx) == DOMAIN idx.ty \ (DOMAIN table.ty \ {o.dim})
CanTake(o, table, idx) == o.dim \in DOMAIN table.ty /\ SameLattice(table.ty, idx.ty, DOMAIN idx.ty \ Spliced(o, table, idx))
Taken(o, table, idx) == Without(table.ty, {o.dim}) @@ idx.ty
\* What a scatter consumes is dims of the index; the rest of it rides.
Consumes(o, idx) == o.over \subseteq DOMAIN idx.ty
CanScatter(o, val, idx) ==
  Consumes(o, idx) /\ SameLattice(val.ty, idx.ty, DOMAIN idx.ty) /\ o.dim \notin DOMAIN val.ty \ o.over
Scattered(o, val) == (o.dim :> (o.lo .. o.hi - 1)) @@ Without(val.ty, o.over)
CanRank(o, x) == o.dim \in DOMAIN x.ty
CanTop(o, x) == CanRank(o, x) /\ o.k \in 1 .. Extent(x.ty, o.dim) /\ o.new \notin DOMAIN x.ty \ {o.dim}
TopBox(o, x) == (o.new :> (0 .. o.k - 1)) @@ Without(x.ty, {o.dim})
\* Operands of a reducer with a state of its own: aligned, as many as it says.
CanSweep(by, dim, args) == Len(args) = by.element /\ Aligned(args) /\ dim \in DOMAIN args[1].ty
StepOut(sub, i) == sub[1].nodes[sub[1].out[i]].ty
CanFold(o, args, sub) ==
  /\ o.states >= 1 /\ Len(sub) = 1
  /\ \A i \in DOMAIN Elements(o, args) : o.dim \in DOMAIN Elements(o, args)[i].ty
  /\ sub[1].params = [i \in DOMAIN args |-> IF i <= o.states THEN args[i].ty ELSE Without(args[i].ty, {o.dim})]
  /\ Len(sub[1].out) \in {o.states, o.states + 1}
  /\ o.out[1] = "emit" => Len(sub[1].out) = o.states + 1
  /\ \A i \in 1 .. o.states : StepOut(sub, i) = args[i].ty
FoldDim(o, args) == IF Len(args) > o.states THEN args[o.states + 1].ty[o.dim] ELSE o.lo .. o.hi - 1

Fresh(b, S, names) == names \cap (DOMAIN b \ S) = {}
Names(parts) == {parts[j].name : j \in DOMAIN parts}
Product(parts) == Wide(parts, 0)
\* What a view operation wants of the box it is given.  An empty slice may be
\* taken anywhere, and parts that do not meet, a window one point wider than
\* its dim and a stride over all points leave a dim empty.
Fits(o, b) ==
  /\ o.op \in {"slice", "shift", "rename", "flip", "split", "window", "decimate", "pad", "stencil"} => o.dim \in DOMAIN b
  /\ CASE o.op = "slice" -> o.lo .. o.hi - 1 \subseteq b[o.dim]
       [] o.op = "select" -> \A n \in DOMAIN o.points : n \in DOMAIN b /\ o.points[n] \in b[n]
       [] o.op = "rename" -> Fresh(b, {o.dim}, {o.new})
       [] o.op = "repeat" -> o.dim \notin DOMAIN b
       [] o.op = "split" -> Fresh(b, {o.dim}, Names(o.parts)) /\ Product(o.parts) = Extent(b, o.dim)
       [] o.op = "merge" -> Range(o.parts) \subseteq DOMAIN b /\ Fresh(b, Range(o.parts), {o.new})
       [] o.op = "diagonal" -> /\ o.parts \subseteq DOMAIN b /\ Fresh(b, o.parts, {o.new})
                               /\ Cardinality(o.parts) >= 2
       [] o.op = "window" -> /\ o.lo < o.hi /\ o.dilation * (o.hi - 1 - o.lo) <= Extent(b, o.dim)
                             /\ Fresh(b, {}, {o.new})
       [] o.op = "decimate" -> o.factor >= 1
       [] o.op = "pad" -> b[o.dim] \subseteq o.lo .. o.hi - 1
       [] o.op = "stencil" -> Fresh(b, {}, {o.new})
       [] OTHER -> TRUE

\* What the type rule of o wants of its operands.
WellTyped(o, args, sub) ==
  CASE o.op = "pointwise" -> Tensors(args) # <<>> /\ Aligned(Tensors(args))
    [] o.op \in {"reduce"} -> Range(o.dims) \subseteq DOMAIN args[1].ty /\ IsInjective(o.dims)
    [] o.op \in {"scan", "iota", "argsort"} -> CanRank(o, args[1])
    [] o.op = "collapse" -> Len(o.dims) = 1 /\ CanSweep(o.by, o.dims[1], args)
    [] o.op = "sweep" -> CanSweep(o.by, o.dim, args)
    [] o.op = "argtopk" -> CanTop(o, args[1])
    [] o.op = "take" -> CanTake(o, args[1], args[2])
    [] o.op = "scatter_add" -> CanScatter(o, args[1], args[2])
    [] o.op = "fold" -> CanFold(o, args, sub)
    [] o.op \in ViewOps -> Fits(o, args[1].ty)
    [] OTHER -> TRUE

\* The type of the value o makes of its operands.
TypeOf(o, args, sub) ==
  LET t == args[1].ty
  IN  CASE o.op = "pointwise" -> Head(Tensors(args)).ty
        [] o.op = "const" -> o.box
        [] o.op = "scalar" -> <<>>
        [] o.op \in {"reduce", "collapse"} -> Without(t, Range(o.dims))
        [] o.op = "repeat_like" -> t @@ args[2].ty
        [] o.op = "take" -> Taken(o, args[1], args[2])
        [] o.op = "scatter_add" -> Scattered(o, args[1])
        [] o.op = "argtopk" -> TopBox(o, args[1])
        [] o.op = "fold" -> IF o.out[1] = "final" THEN args[o.out[2]].ty
                            ELSE (o.dim :> FoldDim(o, args)) @@ StepOut(sub, o.states + 1)
        [] o.op \in ViewOps -> NewBox(o, t)
        [] OTHER -> t

-----------------------------------------------------------------------------
(* VALUES: a function from the points of the type to the carrier *)

Along(b, n) == [i \in 1 .. Extent(b, n) |-> Min(b[n]) + i - 1]
\* One dim of a reduction, in lattice order: red.sum, red.max, ...
Combine(f, x, y) ==
  CASE f \in {"sum", "mean"} -> Primitive("add", <<x, y>>)
    [] f = "prod" -> Primitive("mul", <<x, y>>)
    [] f = "max" -> Primitive("maximum", <<x, y>>)
    [] f = "min" -> Primitive("minimum", <<x, y>>)
Accumulate(f, b, val, n, p, last) ==
  LET along == Along(b, n)
      At(i) == val[(n :> i) @@ p]
  IN  FoldLeft(LAMBDA acc, i : Combine(f, acc, At(i)), At(along[1]), SubSeq(along, 2, last))
ReduceDim(f, b, val, n) == [p \in Points(Without(b, {n})) |-> Accumulate(f, b, val, n, p, Extent(b, n))]
MeanOf(total, count) == [p \in DOMAIN total |-> Primitive("div", <<total[p], count>>)]
Totals(o, b, total) == IF o.f = "mean" THEN MeanOf(total, Lift(FoldLeft(LAMBDA c, n : c * Extent(b, n), 1, o.dims))) ELSE total
ReduceDims(o, b, val) ==
  Totals(o, b, FoldLeft(LAMBDA acc, n : <<Without(acc[1], {n}), ReduceDim(o.f, acc[1], acc[2], n)>>, <<b, val>>, o.dims)[2])
Scanned(o, b, val) ==
  [p \in Points(b) |-> Accumulate(o.f, b, val, o.dim, p, p[o.dim] - Min(b[o.dim]) + 1)]

\* A reducer with a state of its own is a record: how many parts its state and
\* its elements have, and trees: lift, of an element, and combine, of two
\* states, give each part of a state; project gives the answer.  init is the
\* identity.  The state after the first places of a dim:
Merge1(by, left, right) == [j \in DOMAIN by.combine |-> EvalTree(by.combine[j], left \o right)]
Swept(by, b, vals, n, p, last) ==
  LET along == Along(b, n)
      Lifted(i) == [j \in DOMAIN by.lift |-> EvalTree(by.lift[j], [m \in DOMAIN vals |-> vals[m][(n :> i) @@ p]])]
  IN  FoldLeft(LAMBDA state, i : Merge1(by, state, Lifted(i)), Lifted(along[1]), SubSeq(along, 2, last))
Collapsed(o, b, vals) ==
  LET n == o.dims[1]
  IN  [p \in Points(Without(b, {n})) |-> EvalTree(o.by.project, Swept(o.by, b, vals, n, p, Extent(b, n)))]
SweptAll(o, b, vals) ==
  [p \in Points(b) |-> EvalTree(o.by.project, Swept(o.by, b, vals, o.dim, p, p[o.dim] - Min(b[o.dim]) + 1))]

\* The places of a dim in the order of the values there, equal values in
\* lattice order: ascending for argsort, descending for argtopk.
Ranked(b, val, n, p, descending) ==
  LET At(i) == val[(n :> i) @@ p][1]
      Before(i, j) == \/ IF descending THEN At(i) > At(j) ELSE At(i) < At(j)
                      \/ At(i) = At(j) /\ i < j
  IN  SetToSortSeq(b[n], Before)
ArgSorted(o, b, val) ==
  [p \in Points(b) |-> Lift(Ranked(b, val, o.dim, p, FALSE)[p[o.dim] - Min(b[o.dim]) + 1])]
TopK(o, b, val, ty) == [p \in Points(ty) |-> Lift(Ranked(b, val, o.dim, Without(p, {o.new}), TRUE)[p[o.new] + 1])]

\* A point of a box as a point of one that has only these dims.
On(p, dims) == [n \in DOMAIN p \cap dims |-> p[n]]
\* _check_bounds: an index outside of the dim it names is refused.
InBounds(o, args, ival) ==
  LET places == IF o.op = "take" THEN args[1].ty[o.dim] ELSE o.lo .. o.hi - 1
  IN  \A p \in DOMAIN ival : ival[p][1] \in places
TakeAt(o, table, idx, tval, ival, p) ==
  tval[(o.dim :> ival[On(p, DOMAIN idx)][1]) @@ On(p, DOMAIN table \ {o.dim})]
ScatterAt(o, box, idx, val, ival, p) ==
  LET lands == {q \in Points(box) : /\ On(q, DOMAIN box \ o.over) = On(p, DOMAIN box \ o.over)
                                    /\ ival[On(q, DOMAIN idx)][1] = p[o.dim]}
  IN  FoldSet(LAMBDA q, acc : Primitive("add", <<acc, val[q]>>), Lift(0), lands)

RECURSIVE Run(_, _)
\* The step of a fold, once for each place of its dim.
Stepped(o, acc, next, q) ==
  [carried |-> SubSeq(next, 1, o.states),
   emitted |-> acc.emitted @@ (q :> (IF o.out[1] = "emit" THEN next[o.states + 1] ELSE <<>>))]
FoldOver(o, args, vals, sub) ==
  LET Slice(i, q) == [p \in Points(Without(args[i].ty, {o.dim})) |-> vals[i][(o.dim :> q) @@ p]]
      Given(acc, q) == acc.carried \o [j \in 1 .. Len(args) - o.states |-> Slice(o.states + j, q)]
  IN  FoldLeft(LAMBDA acc, q : Stepped(o, acc, Run(sub[1], Given(acc, q)), q),
               [carried |-> SubSeq(vals, 1, o.states), emitted |-> <<>>], Along(o.dim :> FoldDim(o, args), o.dim))
FoldValue(o, done, ty) ==
  IF o.out[1] = "final" THEN done.carried[o.out[2]]
  ELSE [p \in Points(ty) |-> done.emitted[p[o.dim]][Without(p, {o.dim})]]

ConstAt(o, ty) == [p \in Points(ty) |-> Lift(o.value)]
\* A draw depends on the key and the place and on nothing else.
RandomAt(o, ty) == [p \in Points(ty) |-> Lift(FoldSet(LAMBDA n, h : 3 * h + p[n], o.key, DOMAIN p))]
IotaAt(o, ty) == [p \in Points(ty) |-> Lift(p[o.dim])]
PointwiseAt(o, args, vals, ty) ==
  [p \in Points(ty) |-> EvalTree(o.f, [i \in DOMAIN args |-> vals[i][IF IsScalar(args[i]) THEN <<>> ELSE p]])]
RepeatAt(src, v, ty) == [p \in Points(ty) |-> v[On(p, DOMAIN src)]]
ReadAt(o, src, v, q) == IF InBox(src, q) THEN v[q] ELSE Lift(o.fill)
ViewAt(o, src, v, ty) == [p \in Points(ty) |-> ReadAt(o, src, v, Back(o, src, p))]
\* What the node makes of the values of its operands.
Denote(n, nodes, val) ==
  LET o == n.o
      args == [i \in DOMAIN n.args |-> nodes[n.args[i]]]
      vals == [i \in DOMAIN n.args |-> val[n.args[i]]]
      src == args[1].ty
      v == vals[1]
  IN  CASE o.op \in {"const", "scalar"} -> ConstAt(o, n.ty)
        [] o.op = "pointwise" -> PointwiseAt(o, args, vals, n.ty)
        [] o.op = "iota" -> IotaAt(o, n.ty)
        [] o.op = "random" -> RandomAt(o, n.ty)
        [] o.op = "collapse" -> Collapsed(o, src, vals)
        [] o.op = "sweep" -> SweptAll(o, src, vals)
        [] o.op = "reduce" -> ReduceDims(o, src, v)
        [] o.op = "scan" -> Scanned(o, src, v)
        [] o.op = "repeat_like" -> RepeatAt(src, v, n.ty)
        [] o.op = "take" -> [p \in Points(n.ty) |-> TakeAt(o, src, args[2].ty, v, vals[2], p)]
        [] o.op = "scatter_add" -> [p \in Points(n.ty) |-> ScatterAt(o, src, args[2].ty, v, vals[2], p)]
        [] o.op = "argsort" -> ArgSorted(o, src, v)
        [] o.op = "argtopk" -> TopK(o, src, v, n.ty)
        [] o.op = "fold" -> FoldValue(o, FoldOver(o, args, vals, n.sub), n.ty)
        [] o.op \in ViewOps -> ViewAt(o, src, v, n.ty)
        [] OTHER -> v

\* run_region: every node once, the params bound to the values given.
Values(r, vals) ==
  FoldFar(LAMBDA acc, n : Append(acc, IF n.o.op = "param" THEN vals[Len(acc) + 1] ELSE Tabled(Denote(n, r.nodes, acc))),
           <<>>, r.nodes)
Outputs(r, all) == [j \in DOMAIN r.out |-> all[r.out[j]]]
Run(r, vals) == Outputs(r, Values(r, vals))

-----------------------------------------------------------------------------
(* REGIONS *)

Param(ty) == Node([op |-> "param"], <<>>, Tabled(ty), <<>>)
Start(types) == [params |-> types, nodes |-> [i \in DOMAIN types |-> Param(types[i])], out |-> <<>>]
\* Builder.emit; the new node is the last.
Emit(r, o, args, sub) ==
  LET operands == [i \in DOMAIN args |-> r.nodes[args[i]]]
  IN  [r EXCEPT !.nodes = Append(@, Node(o, args, Tabled(TypeOf(o, operands, sub)), sub))]
CanEmit(r, o, args, sub) == WellTyped(o, [i \in DOMAIN args |-> r.nodes[args[i]]], sub)
New(r) == Len(r.nodes)
Yield(r, out) == [r EXCEPT !.out = out]
ArgsOf(r, i) == Range(r.nodes[i].args)

\* The nodes that some node of S is made of, and S.
RECURSIVE Ancestors(_, _)
Ancestors(r, S) ==
  LET more == S \cup UNION {ArgsOf(r, i) : i \in S} IN IF more = S THEN S ELSE Ancestors(r, more)
\* walk_region: operands first, each node where it is first met.
WalkFrom(r, roots) ==
  LET Step(acc, k) ==
        LET i == Head(acc.todo)
            first == SelectSeq(r.nodes[i].args, LAMBDA a : a \notin acc.seen)
        IN  CASE acc.todo = <<>> -> acc
              [] i \in acc.seen -> [acc EXCEPT !.todo = Tail(@)]
              [] first = <<>> -> [todo |-> Tail(acc.todo), done |-> Append(acc.done, i), seen |-> acc.seen \cup {i}]
              [] OTHER -> [acc EXCEPT !.todo = <<Head(first)>> \o @]
  IN  FoldFar(Step, [todo |-> roots, done |-> <<>>, seen |-> {}], [k \in 1 .. 2 * Len(r.nodes) + Len(roots) |-> k]).done
Walk(r) == WalkFrom(r, r.out)
\* The content key: equal for regions whose outputs are the same trees.  Each
\* tree is written once, where the walk first meets it.
Entry(n, acc, i) ==
  IF n.o.op = "param" THEN <<"param", i>> ELSE <<n.o, [j \in DOMAIN n.args |-> acc.at[n.args[j]]], acc.subs[i]>>
KnownAt(acc, i, entry, known) ==
  [acc EXCEPT !.trees = IF known = 0 THEN Append(@, entry) ELSE @,
              !.at = @ @@ (i :> IF known = 0 THEN Len(acc.trees) + 1 ELSE known)]
Entered(acc, i, entry) == KnownAt(acc, i, entry, SelectInSeq(acc.trees, LAMBDA e : e = entry))
KeyOf(r, walked) == <<r.params, walked.trees, [j \in DOMAIN r.out |-> walked.at[r.out[j]]]>>
RECURSIVE SubKeys(_, _)
Key(r) ==
  KeyOf(r, FoldFar(LAMBDA acc, i : Entered(acc, i, Entry(r.nodes[i], acc, i)),
                   [trees |-> <<>>, at |-> <<>>, subs |-> [i \in DOMAIN r.nodes |-> SubKeys(r, i)]], Walk(r)))
SubKeys(r, i) == [j \in DOMAIN r.nodes[i].sub |-> Key(r.nodes[i].sub[j])]

-----------------------------------------------------------------------------
(* TIERS: operations fall in families, a tier admits a union of families   *)
(* and some operations by name, and what an operation carries is checked   *)
(* under the tier it declares for it.                                      *)

LayoutFamily == ViewOps \cup {"strip_charts", "with_charts", "with_labels", "bind", "simplify"}
FamilyOf(op) ==
  CASE op \in {"param", "env", "scalar", "yield", "tuple", "extract", "const"} -> "STRUCTURAL"
    [] op \in {"add", "sub", "mul", "div", "neg", "mod", "pow", "cmp", "choose", "cast"} -> "SCALAR"
    [] op = "slot" -> "ABI"
    [] op \in {"iota", "coord"} -> "LATTICE"
    [] op = "pointwise" -> "POINTWISE"
    [] op \in {"reduce", "scan", "fold", "take", "scatter_add", "argtopk", "argsort", "random", "materialize", "stage",
               "round_to", "repeat_like", "with_value_units"} -> "COMPUTE"
    [] op \in LayoutFamily -> "LAYOUT"
    [] op \in {"store", "read", "token"} -> "EFFECT"
    [] op = "sample" -> "GRAPHICS"
    [] OTHER -> "none"

HostTiers == {"tensor", "unit", "step"}
TierFamilies(tier) ==
  {"STRUCTURAL", "SCALAR", "POINTWISE"} \cup
  CASE tier \in HostTiers -> {"COMPUTE", "LAYOUT"}
    [] tier = "compute" -> {"ABI", "LATTICE", "EFFECT"}
    [] tier = "vertex" -> {"ABI"}
    [] tier = "fragment" -> {"ABI", "GRAPHICS"}
    [] tier = "tile" -> {"LAYOUT", "EFFECT"}
TierExtra(tier) ==
  CASE tier \in HostTiers -> {"iota"}
    [] tier = "compute" -> {"split", "merge"}
    [] tier = "vertex" -> {"iota", "select"}
    [] tier = "fragment" -> {}
    [] tier = "tile" -> {"iota", "reduce", "scan", "fold", "repeat_like", "stage", "materialize"}
TierAdmits(op, tier) == FamilyOf(op) \in TierFamilies(tier) \/ op \in TierExtra(tier)

\* The tier of the region an operation carries: a fold's is a step, but
\* inside a tile it stays one.
QuotedTier(op, tier) == IF op # "fold" \/ tier = "tile" THEN tier ELSE "step"
RECURSIVE CheckTier(_, _)
CheckTier(r, tier) ==
  \A i \in Range(Walk(r)) :
    LET n == r.nodes[i]
    IN  /\ TierAdmits(n.o.op, tier)
        /\ tier = "vertex" /\ n.o.op = "select" => r.nodes[n.args[1]].o.op = "param"
        /\ \A j \in DOMAIN n.sub : CheckTier(n.sub[j], QuotedTier(n.o.op, tier))
=============================================================================
