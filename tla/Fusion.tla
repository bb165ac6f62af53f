------------------------------- MODULE Fusion -------------------------------
(***************************************************************************)
(* The fusion templates (tensorlib fusion.py): a whole region matched      *)
(* against each in turn, the tile kernel generated for the one that        *)
(* matches, its certificate; or a red group that names an offender.  And   *)
(* the certificates (certify.py, licenses.py): a tile program and its      *)
(* naive twin are found to be one by rewrites, exact or of a licensed      *)
(* kind, to a content key, and a certificate says by which.                *)
(*                                                                         *)
(* A box has no order of its dims, so shapes that differ by it are one.    *)
(* Launches and pruning are those of Launch.  A build in progress is a     *)
(* region and whether every operation emitted so far was one its type rule *)
(* takes: where the code raises, ok is FALSE.  Tolerances are not looked   *)
(* at: values are exact.                                                   *)
(***************************************************************************)
EXTENDS Autodiff, Transforms

CONSTANTS CertCap,     \* the widest extent that is certified at full size
          DimNames,    \* the dims there are, in some order
          TileCap      \* the widest tile

-----------------------------------------------------------------------------
(* BUILDS *)

Build(types) == [r |-> Start(types), ok |-> TRUE]
Put(b, o, args, sub) ==
  IF b.ok /\ CanEmit(b.r, o, args, sub) THEN [b EXCEPT !.r = Emit(@, o, args, sub)] ELSE [b EXCEPT !.ok = FALSE]
Latest(b) == New(b.r)
\* A node in the place a build has come to, or another; i is at it now.
Hit(b, at) == [hit |-> TRUE, b |-> b, at |-> at]
Landed(b) == Hit(b, Latest(b))
Placed(acc, i, x) == [b |-> x.b, at |-> (i :> x.at) @@ acc.at]
PutFor(acc, i, o, args) == Placed(acc, i, Landed(Put(acc.b, o, args, <<>>)))
\* The nodes of r that i is made of emitted anew, but for those that have a
\* place already and the views to elide; what a node carries is not carried
\* over.
Copied(acc, j, n, elide) ==
  IF n.o.op \in elide THEN [acc EXCEPT !.at = (j :> @[n.args[1]]) @@ @]
  ELSE PutFor(acc, j, n.o, [k \in DOMAIN n.args |-> acc.at[n.args[k]]])
Rebuilt(acc, r, i, elide) ==
  LET need == IF i \in DOMAIN acc.at THEN {} ELSE Recomputed(r, {i}, DOMAIN acc.at)
  IN  FoldFar(LAMBDA c, j : Copied(c, j, r.nodes[j], elide), acc, SelectSeq([j \in DOMAIN r.nodes |-> j], LAMBDA j : j \in need))
\* A list of named lines, each an operation on names.
Named1(acc, name, b) == [b |-> b, env |-> (name :> Latest(b)) @@ acc.env]
Lines(b, env, lines) ==
  FoldFar(LAMBDA acc, l : Named1(acc, l[1], Put(acc.b, l[2], [j \in DOMAIN l[3] |-> acc.env[l[3][j]]], l[4])), [b |-> b, env |-> env], lines)

-----------------------------------------------------------------------------
(* THE RULES: each gives the build and the place of what replaces a node    *)

Monoids == {"sum", "prod", "max", "min"}
PartNames(parts) == [j \in DOMAIN parts |-> parts[j].name]
OpAt(b, i) == b.r.nodes[i].o
Miss(b) == [hit |-> FALSE, b |-> b, at |-> 0]

CancelSplitMerge(b, o, args, sub) ==
  LET src == OpAt(b, args[1])
  IN  IF o.op = "merge" /\ src.op = "split" /\ o.new = src.dim /\ o.parts = PartNames(src.parts) /\ o.start = 0
      THEN Hit(b, b.r.nodes[args[1]].args[1]) ELSE Miss(b)
FuseReduce(b, o, args, sub) ==
  LET src == OpAt(b, args[1])
  IN  IF o.op = "reduce" /\ src.op = "reduce" /\ o.f = src.f /\ o.f \in Monoids
      THEN Landed(Put(b, [o EXCEPT !.dims = @ \o src.dims], <<b.r.nodes[args[1]].args[1]>>, <<>>)) ELSE Miss(b)
\* An operation of the latest node.
PutOver(b, o) == Put(b, o, <<Latest(b)>>, <<>>)
CommuteSplit(b, o, args, sub) ==
  LET tensors == SelectSeq(args, LAMBDA a : OpAt(b, a).op # "scalar")
      spec == OpAt(b, tensors[1])
      inner == [j \in DOMAIN args |-> IF OpAt(b, args[j]).op = "split" THEN b.r.nodes[args[j]].args[1] ELSE args[j]]
  IN  IF /\ o.op \in {"pointwise", "repeat_like"} /\ tensors # <<>>
         /\ \A j \in DOMAIN tensors : OpAt(b, tensors[j]).op = "split" /\ OpAt(b, tensors[j]) = spec
      THEN Landed(PutOver(Put(b, o, inner, <<>>), spec)) ELSE Miss(b)
\* The step adds to its carry, once, something made of the elements alone.
Accumulates(step) ==
  LET y == step.nodes[step.out[1]]
  IN  /\ Len(step.out) = 1
      /\ \A i \in Range(Walk(step)) : step.nodes[i].sub = <<>>
      /\ y.o = [op |-> "pointwise", f |-> Pw("add")] /\ 1 \in Range(y.args)
      /\ FoldLeft(LAMBDA c, i : c + Len(SelectSeq(step.nodes[i].args, LAMBDA a : a = 1)), 0, Walk(step)) = 1
Addend(step) == LET y == step.nodes[step.out[1]] IN IF y.args[1] = 1 THEN y.args[2] ELSE y.args[1]
Summed(acc, i, dim) == Put(acc.b, [op |-> "reduce", f |-> "sum", dims |-> <<dim>>], <<acc.at[i]>>, <<>>)
InlineFold(b, o, args, sub) ==
  LET inlined == Rebuilt([b |-> b, at |-> [j \in 2 .. Len(args) |-> args[j]]], sub[1], Addend(sub[1]), {})
  IN  IF /\ o.op = "fold" /\ o.states = 1 /\ o.out = <<"final", 1>> /\ Len(args) > 1
         /\ OpAt(b, args[1]).op = "const" /\ OpAt(b, args[1]).value = 0 /\ Accumulates(sub[1])
      THEN Landed(Summed(inlined, Addend(sub[1]), o.dim)) ELSE Miss(b)
CancelReduceSplit(b, o, args, sub) ==
  LET src == OpAt(b, args[1])
      parts == PartNames(src.parts)
      kept == SelectSeq(o.dims, LAMBDA d : d = parts[1] \/ d \notin Range(parts))
      dims == [j \in DOMAIN kept |-> IF kept[j] = parts[1] THEN src.dim ELSE kept[j]]
  IN  IF o.op = "reduce" /\ src.op = "split" /\ o.f \in Monoids /\ Range(parts) \subseteq Range(o.dims)
      THEN Landed(Put(b, [o EXCEPT !.dims = dims], <<b.r.nodes[args[1]].args[1]>>, <<>>)) ELSE Miss(b)

Rules == <<"cancel_split_merge", "fuse_reduce", "commute_split", "inline_fold", "cancel_reduce_split">>
RuleKind(rule) == IF rule \in {"inline_fold", "cancel_reduce_split"} THEN "reassociation" ELSE "exact"
Apply(rule, b, o, args, sub) ==
  CASE args = <<>> -> Miss(b)
    [] rule = "cancel_split_merge" -> CancelSplitMerge(b, o, args, sub)
    [] rule = "fuse_reduce" -> FuseReduce(b, o, args, sub)
    [] rule = "commute_split" -> CommuteSplit(b, o, args, sub)
    [] rule = "inline_fold" -> InlineFold(b, o, args, sub)
    [] rule = "cancel_reduce_split" -> CancelReduceSplit(b, o, args, sub)

-----------------------------------------------------------------------------
(* NORMALIZATION *)

\* A node under a rule, or kept, given what its operands and the regions it
\* carries came to.
HitOr(hit, kept) == IF hit.hit THEN hit ELSE Landed(kept)
Replaced(rule, b, o, args, subs) ==
  LET sub == [j \in DOMAIN subs |-> subs[j].r]
      c == [b EXCEPT !.ok = @ /\ \A j \in DOMAIN subs : subs[j].ok]
  IN  HitOr(Apply(rule, c, o, args, sub), Put(c, o, args, sub))
\* What a build that ends with places of the outputs of r yields.
Finished(all, r) == [r |-> Yield(all.b.r, [j \in DOMAIN r.out |-> all.at[r.out[j]]]), ok |-> all.b.ok]
LiveNodes(r) == LET live == Ancestors(r, Range(r.out)) IN SelectSeq([i \in DOMAIN r.nodes |-> i], LAMBDA i : i \in live)
\* One pass of a rule, operands first; the regions a node carries before it.
RECURSIVE RewriteBy(_, _)
RewriteNode(rule, r, acc, i) ==
  LET n == r.nodes[i]
  IN  IF n.o.op = "param" THEN [acc EXCEPT !.at = (i :> i) @@ @]
      ELSE Placed(acc, i, Replaced(rule, acc.b, n.o, [j \in DOMAIN n.args |-> acc.at[n.args[j]]],
                                   [j \in DOMAIN n.sub |-> RewriteBy(rule, n.sub[j])]))
RewriteBy(rule, r) ==
  Finished(FoldFar(LAMBDA acc, i : RewriteNode(rule, r, acc, i), [b |-> Build(r.params), at |-> <<>>], LiveNodes(r)), r)

Rounds == 16
\* Every rule in turn, a pass each, until a round changes no key.
Changed(acc, rule, next) ==
  IF next.ok /\ Key(next.r) = Key(acc.r) THEN acc
  ELSE [acc EXCEPT !.r = next.r, !.ok = next.ok, !.used = @ \cup ({RuleKind(rule)} \ {"exact"})]
TryRule(acc, rule, kinds) ==
  IF ~acc.ok \/ (RuleKind(rule) # "exact" /\ RuleKind(rule) \notin kinds) THEN acc
  ELSE Changed(acc, rule, RewriteBy(rule, acc.r))
Settled(before, after) == [after EXCEPT !.done = ~after.ok \/ Key(after.r) = Key(before.r)]
Round(acc, kinds) == IF acc.done THEN acc ELSE Settled(acc, FoldLeft(LAMBDA c, rule : TryRule(c, rule, kinds), acc, Rules))
Normalize(r, kinds) ==
  FoldLeft(LAMBDA acc, k : Round(acc, kinds), [r |-> r, ok |-> TRUE, used |-> {}, done |-> FALSE], [k \in 1 .. Rounds |-> k])

-----------------------------------------------------------------------------
(* CERTIFICATES *)

\* A licence is a name and a kind; draws are values for the params.
Raised == [verdict |-> "raised", licenses |-> {}, reached |-> FALSE]
Judged(normal, tile, naive, licenses, draws) ==
  LET t == normal.tile
      n == normal.naive
  IN  CASE ~t.ok \/ ~n.ok -> Raised
        [] Key(t.r) = Key(n.r) ->
             [verdict |-> IF t.used = {} THEN "proved-exact" ELSE "proved-licensed",
              licenses |-> {l.name : l \in {l \in licenses : l.kind \in t.used}}, reached |-> TRUE]
        [] licenses = {} \/ draws = {} -> Raised
        [] \E vals \in draws : Run(tile, vals) # Run(naive, vals) -> Raised
        [] OTHER -> [verdict |-> "licensed-differential", licenses |-> {l.name : l \in licenses}, reached |-> FALSE]
Certify(tile, naive, licenses, draws) ==
  LET kinds == {l.kind : l \in licenses}
  IN  Judged(Tabled([side \in {"tile", "naive"} |-> Normalize(IF side = "tile" THEN EraseStages(tile) ELSE naive, kinds)]),
             tile, naive, licenses, draws)

-----------------------------------------------------------------------------
(* SHAPES OF NODES *)

A(r, i, j) == r.nodes[i].args[j]
TyOf(r, i) == r.nodes[i].ty
IsPw(r, i, f) == OpOf(r, i) = "pointwise" /\ r.nodes[i].o.f = Pw(f)
IsReduce(r, i, f) == OpOf(r, i) = "reduce" /\ r.nodes[i].o.f = f
DimsOf(r, i) == r.nodes[i].o.dims
ChartOps == {"with_charts", "strip_charts", "simplify"}
ConstOps == {"scalar", "const"}
MapOps == {"param", "scalar", "pointwise", "iota", "const", "slice", "select", "shift", "rename", "repeat", "flip", "split",
           "merge", "pad", "window", "stencil", "with_labels", "repeat_like"} \cup ChartOps
ExactOps == {"pointwise", "repeat_like", "rename", "repeat", "iota"} \cup ConstOps \cup ChartOps
RECURSIVE Unchart(_, _)
Unchart(r, i) == IF OpOf(r, i) \in ChartOps THEN Unchart(r, A(r, i, 1)) ELSE i
\* Down to the core of an operand: broadcasts are layout, and a marker that
\* is one of its arguments is that operand.
RECURSIVE Uncore(_, _)
Uncore(r, i) ==
  LET u == Unchart(r, i)
  IN  CASE OpOf(r, u) \in {"repeat_like", "repeat"} -> Uncore(r, A(r, u, 1))
        [] OpOf(r, u) = "pointwise" /\ r.nodes[u].o.f.tree = "arg" -> Uncore(r, A(r, u, r.nodes[u].o.f.index))
        [] OTHER -> u

\* exp(x - max x) / sum exp(x - max x) over one dim, x at its root.
SoftmaxParts(r, i) ==
  LET e == A(r, i, 1)
      den == A(r, A(r, i, 2), 1)
      sub == A(r, e, 1)
  IN  [e |-> e, over |-> A(r, i, 2), den |-> den, sub |-> sub, sm |-> A(r, sub, 1), max |-> A(r, A(r, sub, 2), 1)]
IsSoftmax(r, i) ==
  /\ IsPw(r, i, "div") /\ IsPw(r, A(r, i, 1), "exp") /\ OpOf(r, A(r, i, 2)) = "repeat_like"
  /\ LET sub == A(r, A(r, i, 1), 1) IN IsPw(r, sub, "sub") /\ OpOf(r, A(r, sub, 2)) = "repeat_like"
  /\ LET p == SoftmaxParts(r, i)
     IN  /\ IsReduce(r, p.den, "sum") /\ A(r, p.den, 1) = p.e
         /\ A(r, A(r, p.sub, 2), 2) = p.sm
         /\ IsReduce(r, p.max, "max") /\ A(r, p.max, 1) = p.sm
         /\ A(r, p.over, 2) \in {p.sm, p.e}
         /\ DimsOf(r, p.den) = DimsOf(r, p.max) /\ Len(DimsOf(r, p.den)) = 1
SoftmaxDim(r, i) == DimsOf(r, SoftmaxParts(r, i).den)[1]

\* (x - mean x) / sqrt(mean (x - mean x)^2 + eps) over one dim.
RowstatParts(r, i) ==
  LET xc == A(r, i, 1)
      var == A(r, A(r, A(r, A(r, i, 2), 1), 1), 1)
  IN  [xc |-> xc, plus |-> A(r, A(r, A(r, i, 2), 1), 1), var |-> var, x |-> A(r, xc, 1), mu |-> A(r, A(r, xc, 2), 1)]
IsRowstat(r, i) ==
  /\ IsPw(r, i, "div") /\ IsPw(r, A(r, i, 1), "sub") /\ OpOf(r, A(r, i, 2)) = "repeat_like"
  /\ OpOf(r, A(r, A(r, i, 1), 2)) = "repeat_like" /\ IsPw(r, A(r, A(r, i, 2), 1), "sqrt") /\ IsPw(r, A(r, A(r, A(r, i, 2), 1), 1), "add")
  /\ LET p == RowstatParts(r, i)
     IN  /\ OpOf(r, A(r, p.plus, 2)) \in ConstOps
         /\ IsReduce(r, p.var, "mean") /\ IsPw(r, A(r, p.var, 1), "mul") /\ r.nodes[A(r, p.var, 1)].args = <<p.xc, p.xc>>
         /\ IsReduce(r, p.mu, "mean") /\ A(r, p.mu, 1) = p.x
         /\ DimsOf(r, p.var) = DimsOf(r, p.mu) /\ Len(DimsOf(r, p.var)) = 1
RowstatDim(r, i) == DimsOf(r, RowstatParts(r, i).var)[1]

\* sum over one dim of a product of two operands, each aligned to the other.
ContractParts(r, i) ==
  LET prod == A(r, i, 1) IN [x |-> A(r, A(r, prod, 1), 1), y |-> A(r, A(r, prod, 2), 1), dim |-> DimsOf(r, i)[1]]
IsContract(r, i) ==
  /\ IsReduce(r, i, "sum") /\ Len(DimsOf(r, i)) = 1
  /\ LET prod == A(r, i, 1)
     IN  /\ IsPw(r, prod, "mul") /\ \A j \in 1 .. 2 : OpOf(r, A(r, prod, j)) = "repeat_like"
         /\ \A j \in 1 .. 2 : A(r, A(r, prod, j), 2) = A(r, A(r, prod, 3 - j), 1)
\* A mask that is maps alone, down to iotas and constants, or to params.
RECURSIVE ForestIsClosed(_, _)
ForestIsClosed(r, i) ==
  OpOf(r, i) = "iota" \/ (OpOf(r, i) \in MapOps /\ \A a \in ArgsOf(r, i) : ForestIsClosed(r, a))

-----------------------------------------------------------------------------
(* FLASH: contraction, closed mask, softmax, contraction over its dim *)

FlashFrom(r, outer, soft, inner) ==
  [q |-> inner.x, k |-> inner.y, v |-> outer.y, m |-> soft.max, den |-> soft.den, mask |-> A(r, soft.sm, 1),
   fill |-> A(r, soft.sm, 3), s |-> outer.dim, e |-> inner.dim,
   t |-> CHOOSE n \in DOMAIN TyOf(r, inner.x) : n # inner.dim, o |-> CHOOSE n \in DOMAIN TyOf(r, outer.y) : n # outer.dim]
FlashAround(r, outer, soft) == FlashFrom(r, outer, soft, ContractParts(r, A(r, soft.sm, 2)))
FlashIn(r, outer) == FlashAround(r, outer, SoftmaxParts(r, outer.x))
FlashParts(r, i) == FlashIn(r, ContractParts(r, i))
IsFlash(r, i) ==
  /\ IsContract(r, i)
  /\ LET outer == ContractParts(r, i)
     IN  /\ IsSoftmax(r, outer.x) /\ SoftmaxDim(r, outer.x) = outer.dim
         /\ LET sm == SoftmaxParts(r, outer.x).sm
            IN  /\ IsPw(r, sm, "where") /\ OpOf(r, A(r, sm, 3)) \in ConstOps /\ ForestIsClosed(r, A(r, sm, 1))
                /\ IsContract(r, A(r, sm, 2))
                /\ LET inner == ContractParts(r, A(r, sm, 2))
                   IN  /\ Cardinality(DOMAIN TyOf(r, inner.x)) = 2
                       /\ DOMAIN TyOf(r, inner.y) = {outer.dim, inner.dim}
                       /\ Cardinality(DOMAIN TyOf(r, outer.y)) = 2 /\ outer.dim \in DOMAIN TyOf(r, outer.y)
\* The region is one, of its params and no other; it may put out the row
\* statistics too.
MatchesFlash(r) ==
  /\ Len(r.out) \in {1, 3} /\ IsFlash(r, r.out[1])
  /\ LET p == FlashParts(r, r.out[1])
     IN  /\ Len(r.out) = 3 => r.out[2] = p.m /\ r.out[3] = p.den
         /\ {p.q, p.k, p.v} = DOMAIN r.params
         /\ Min(TyOf(r, p.k)[p.s]) = 0

\* The largest divisor within the cap that leaves at least two tiles.
PickKi(extent) ==
  LET fits == {ki \in 1 .. Min({TileCap, extent \div 2}) : extent % ki = 0} IN IF fits = {} THEN extent ELSE Max(fits)
ScalarAt(v) == [op |-> "scalar", value |-> v]
StageOp == [op |-> "stage"]
Like == [op |-> "repeat_like"]
IotaOp(n) == [op |-> "iota", dim |-> n]
ReduceOp(f, dims) == [op |-> "reduce", f |-> f, dims |-> dims]
Part2(n, len) == [name |-> n, start |-> 0, stop |-> len]
TileSplit(dim, outer, inner, extent, ki) ==
  [op |-> "split", dim |-> dim, parts |-> <<Part2(outer, extent \div ki), Part2(inner, ki)>>]
\* A line with no region.
L(name, o, args) == <<name, o, args, <<>>>>

\* The step: the scores of a tile, the running maximum, and what is carried
\* rescaled to it.
FlashTail ==
  <<L("pm", PwOp(Pw("sub")), <<"m", "mNew">>), L("alpha", PwOp(Pw("exp")), <<"pm">>),
    L("mAll", Like, <<"mNew", "sm">>), L("d", PwOp(Pw("sub")), <<"sm", "mAll">>), L("pw", PwOp(Pw("exp")), <<"d">>),
    L("den1", PwOp(Pw("mul")), <<"den", "alpha">>), L("sum", ReduceOp("sum", <<"si">>), <<"pw">>),
    L("denNew", PwOp(Pw("add")), <<"den1", "sum">>),
    L("pl", Like, <<"pw", "vs">>), L("vl", Like, <<"vs", "pw">>), L("pv", PwOp(Pw("mul")), <<"pl", "vl">>),
    L("al", Like, <<"alpha", "o">>), L("o1", PwOp(Pw("mul")), <<"o", "al">>),
    L("opv", ReduceOp("sum", <<"si">>), <<"pv">>), L("oNew", PwOp(Pw("add")), <<"o1", "opv">>)>>
FlashStep(types, e, fill) ==
  LET names == <<"m", "den", "o", "q", "k", "v", "mask">>
      head == <<L("ks", StageOp, <<"k">>), L("vs", StageOp, <<"v">>),
                L("ql", Like, <<"q", "ks">>), L("kl", Like, <<"ks", "q">>), L("qk", PwOp(Pw("mul")), <<"ql", "kl">>),
                L("sc", ReduceOp("sum", <<e>>), <<"qk">>), L("fill", ScalarAt(fill), <<>>),
                L("sm", PwOp(Pw("where")), <<"mask", "sc", "fill">>), L("mx", ReduceOp("max", <<"si">>), <<"sm">>),
                L("mNew", PwOp(Pw("maximum")), <<"m", "mx">>)>>
      all == Lines(Build(types), [n \in Range(names) |-> SelectInSeq(names, LAMBDA x : x = n)], head \o FlashTail)
  IN  [r |-> Yield(all.b.r, <<all.env["mNew"], all.env["denNew"], all.env["oNew"]>>), ok |-> all.b.ok]

\* The fold over tiles of s: the mask rebuilt over a lattice of its own, on
\* which the iotas of the region are.
ParamsAt(r, b) == [b |-> b, at |-> [j \in DOMAIN r.params |-> j]]
MaskOver(r, mask, lattice) ==
  LET iotas == FoldLeft(LAMBDA acc, i : PutFor(acc, i, r.nodes[i].o, <<Latest(lattice)>>), ParamsAt(r, lattice),
                        SelectSeq(Walk(r), LAMBDA i : OpOf(r, i) = "iota"))
  IN  Rebuilt(iotas, r, mask, {})
\* All but the fold: what it carries at first, and its elements.
FlashSources(r, p, si, extent, masked) ==
  LET To(n, b) == 0 .. Max(b[n])
      rows == p.t :> To(p.t, TyOf(r, p.q))
      split == TileSplit(p.s, "so", "si", extent, si)
  IN  Lines(masked.b, [k |-> p.k, v |-> p.v, q |-> p.q, mask |-> masked.at[p.mask]],
        <<L("kt", split, <<"k">>), L("vt", split, <<"v">>), L("mt", split, <<"mask">>),
          L("qr", [op |-> "repeat", dim |-> "so", lo |-> 0, hi |-> extent \div si], <<"q">>),
          L("m0", ConstOp(0, rows), <<>>), L("den0", ConstOp(0, rows), <<>>),
          L("o0", ConstOp(0, rows @@ (p.o :> To(p.o, TyOf(r, p.v)))), <<>>)>>)
FlashArgs == <<"m0", "den0", "o0", "qr", "kt", "vt", "mt">>
FlashStepFor(sources, e, fill) == FlashStep([j \in 1 .. 7 |-> Without(sources.b.r.nodes[sources.env[FlashArgs[j]]].ty, {"so"})], e, fill)
\* One fold for each final, and the output; the running maximum for a region
\* that puts it out.
FlashFinals(sources, step) ==
  LET Final(n, i) == <<n, [op |-> "fold", dim |-> "so", states |-> 3, out |-> <<"final", i>>, lo |-> 0, hi |-> 0], FlashArgs, <<step.r>>>>
  IN  Lines([sources.b EXCEPT !.ok = @ /\ step.ok], sources.env,
            <<Final("fo", 3), Final("fd", 2), L("dl", Like, <<"fd", "fo">>), L("out", PwOp(Pw("div")), <<"fo", "dl">>), Final("fm", 1)>>)
\* A kernel is what its tier takes.
TileKernel(b, out) == [r |-> Yield(b.r, out), ok |-> b.ok /\ CheckTier(b.r, "tile")]
FlashKernel(r, done) ==
  TileKernel(done.b, IF Len(r.out) = 1 THEN <<done.env["out"]>> ELSE <<done.env["out"], done.env["fm"], done.env["fd"]>>)
FlashWith(r, p, sources) == FlashKernel(r, FlashFinals(sources, FlashStepFor(sources, p.e, r.nodes[p.fill].o.value)))
FlashOver(r, p, extent, si) ==
  LET lattice == ConstOp(0, (p.t :> (0 .. Max(TyOf(r, p.q)[p.t]))) @@ (p.s :> (0 .. extent - 1)))
  IN  FlashWith(r, p, FlashSources(r, p, si, extent, MaskOver(r, p.mask, Put(Build(r.params), lattice, <<>>, <<>>))))
FlashExtent(r, p) == Max(TyOf(r, p.k)[p.s]) + 1
GenerateFlash(r, si) == LET p == FlashParts(r, r.out[1]) IN FlashOver(r, p, FlashExtent(r, p), si)

-----------------------------------------------------------------------------
(* CONTRACTION WITH PROLOGUES AND AN EPILOGUE *)

Reduces(r) == SelectSeq(Walk(r), LAMBDA i : OpOf(r, i) = "reduce")
\* The reduce that every other one is a part of.
Outermost(r, all) == SelectSeq(all, LAMBDA i : Len(all) = 1 \/ Range(all) \ {i} \subseteq Ancestors(r, ArgsOf(r, i)))
OuterReduces(r) == Outermost(r, Reduces(r))
ProductOf(r, red) == Unchart(r, A(r, red, 1))
Cores(r, red) ==
  LET prod == ProductOf(r, red) IN IF IsPw(r, prod, "mul") THEN <<Uncore(r, A(r, prod, 1)), Uncore(r, A(r, prod, 2))>> ELSE <<prod>>
\* Both operands carry what is contracted; what they keep is what is left.
CarriesDims(r, red) ==
  LET dims == Range(DimsOf(r, red))
      cores == Range(Cores(r, red))
  IN  /\ \A c \in cores : dims \subseteq DOMAIN TyOf(r, c)
      /\ DOMAIN TyOf(r, red) = UNION {DOMAIN TyOf(r, c) \ dims : c \in cores}
MatchesContraction(r) ==
  /\ Len(r.out) = 1 /\ OuterReduces(r) # <<>>
  /\ LET red == Head(OuterReduces(r))
         dims == Range(DimsOf(r, red))
         cores == Cores(r, red)
     IN  /\ r.nodes[red].o.f \in {"sum", "mean"} /\ Len(DimsOf(r, red)) \in {1, 2}
         /\ \A i \in Range(Reduces(r)) \ {red} : Range(DimsOf(r, i)) \cap dims = {}
         /\ CarriesDims(r, red)
         /\ \A i \in Range(Walk(r)) \ (Range(Reduces(r)) \cup {ProductOf(r, red)}) : OpOf(r, i) \in ExactOps \cup {"param"}
         /\ \A n \in dims, j \in DOMAIN cores : TyOf(r, cores[j])[n] = TyOf(r, cores[1])[n] /\ Min(TyOf(r, cores[1])[n]) = 0
         /\ \A n \in DOMAIN TyOf(r, red) : Min(TyOf(r, red)[n]) = 0
\* The fold runs over the widest dim, the first of those.
ReducedDim(r, red) ==
  LET wide(n) == Extent(TyOf(r, Cores(r, red)[1]), n)
  IN  CHOOSE n \in Range(DimsOf(r, red)) :
        LET i == SelectInSeq(DimsOf(r, red), LAMBDA x : x = n)
        IN  \A j \in DOMAIN DimsOf(r, red) : wide(DimsOf(r, red)[j]) < wide(n) \/ (wide(DimsOf(r, red)[j]) = wide(n) /\ i <= j)
SweptExtent(r) == LET red == Head(OuterReduces(r)) IN Extent(TyOf(r, Cores(r, red)[1]), ReducedDim(r, red))
\* The step: what it does with its operands depends on their spaces.
ContractStep(types, shape, rest) ==
  LET names == SubSeq(<<"acc", "a", "b">>, 1, Len(types))
      staged == [j \in 2 .. Len(names) |-> L(names[j] \o "s", StageOp, <<names[j]>>)]
      product == CASE shape = "plain" -> <<>>
                   [] shape = "rowsum" -> <<L("prod", PwOp(Pw("mul")), <<"as", "bs">>)>>
                   [] shape = "gemm" -> <<L("al", Like, <<"as", "bs">>), L("bl", Like, <<"bs", "as">>),
                                          L("prod", PwOp(Pw("mul")), <<"al", "bl">>)>>
      total == <<L("part", ReduceOp("sum", <<"ki">> \o rest), <<IF shape = "plain" THEN "as" ELSE "prod">>),
                 L("nxt", PwOp(Pw("add")), <<"acc", "part">>)>>
      all == Lines(Build(types), [n \in Range(names) |-> SelectInSeq(names, LAMBDA x : x = n)],
                   [j \in 1 .. Len(names) - 1 |-> staged[j + 1]] \o product \o total)
  IN  [r |-> Yield(all.b.r, <<all.env["nxt"]>>), ok |-> all.b.ok]
\* Both operands split into tiles.
TileOperand(acc, core, split) ==
  LET t == Put(acc.b, split, <<acc.at[core]>>, <<>>) IN [b |-> t, at |-> acc.at, tiles |-> Append(acc.tiles, Latest(t))]
TiledOperands(r, cores, split) ==
  FoldLeft(LAMBDA acc, core : TileOperand(Rebuilt(acc, r, core, {}) @@ [tiles |-> acc.tiles], core, split),
           ParamsAt(r, Build(r.params)) @@ [tiles |-> <<>>], cores)
ContractShape(r, cores) ==
  CASE Len(cores) = 1 -> "plain"
    [] DOMAIN TyOf(r, cores[1]) = DOMAIN TyOf(r, cores[2]) -> "rowsum"
    [] OTHER -> "gemm"
\* The fold over tiles of k, from zero; a mean divides what it comes to.
ContractFold(acc0, args, step) ==
  Put([acc0 EXCEPT !.ok = @ /\ step.ok], [op |-> "fold", dim |-> "ko", states |-> 1, out |-> <<"final", 1>>, lo |-> 0, hi |-> 0],
      args, <<step.r>>)
FoldTiles(acc0, tiles, shape, rest) ==
  LET args == <<Latest(acc0)>> \o tiles
  IN  ContractFold(acc0, args, ContractStep([j \in DOMAIN args |-> Without(acc0.r.nodes[args[j]].ty, {"ko"})], shape, rest))
Averaged(r, red, core, fold) ==
  LET count == FoldLeft(LAMBDA c, n : c * Extent(TyOf(r, core), n), 1, DimsOf(r, red))
  IN  IF r.nodes[red].o.f # "mean" THEN fold
      ELSE Lines(fold, [sum |-> Latest(fold)],
                 <<L("n", ScalarAt(Inverse1(count % Modulus)), <<>>), L("mean", PwOp(Pw("mul")), <<"sum", "n">>)>>).b
\* The rest of the region, the reduce being what was made for it.
WithEpilogue(r, red, b, at) == Rebuilt(Placed([at |-> at], red, Landed(b)), r, r.out[1], {})
GenerateFrom(r, red, cores, k, operands) ==
  LET acc0 == Put(operands.b, ConstOp(0, TyOf(r, red)), <<>>, <<>>)
      folded == FoldTiles(acc0, operands.tiles, ContractShape(r, cores), SelectSeq(DimsOf(r, red), LAMBDA n : n # k))
  IN  WithEpilogue(r, red, Averaged(r, red, cores[1], folded), operands.at)
GenerateOver(r, red, k, ki) ==
  LET cores == Cores(r, red)
  IN  GenerateFrom(r, red, cores, k, TiledOperands(r, cores, TileSplit(k, "ko", "ki", SweptExtent(r), ki)))
KernelAt(tail, i) == TileKernel(tail.b, <<tail.at[i]>>)
GenerateContraction(r, ki) == LET red == Head(OuterReduces(r)) IN KernelAt(GenerateOver(r, red, ReducedDim(r, red), ki), r.out[1])

-----------------------------------------------------------------------------
(* STAGED PARAMS: row chains and stencils *)

KernelOf(all, r) == TileKernel(all.b, [j \in DOMAIN r.out |-> all.at[r.out[j]]])
StageParams(r, staged) ==
  LET staging == FoldLeft(LAMBDA acc, i : PutFor(acc, i, StageOp, <<i>>), ParamsAt(r, Build(r.params)),
                          SelectSeq([i \in DOMAIN r.params |-> i], LAMBDA i : i \in staged))
  IN  KernelOf(FoldLeft(LAMBDA acc, i : Rebuilt(acc, r, i, {}), staging, r.out), r)
RECURSIVE LayoutRoot(_, _)
LayoutRoot(r, i) ==
  IF OpOf(r, i) \in {"shift", "slice", "stage", "rename", "pad", "simplify"} THEN LayoutRoot(r, A(r, i, 1)) ELSE i
\* The params read at two shifts or more.
Neighborhoods(r) ==
  {p \in DOMAIN r.params :
     Cardinality({r.nodes[i].o : i \in {i \in Range(Walk(r)) : OpOf(r, i) = "shift" /\ LayoutRoot(r, A(r, i, 1)) = p}}) >= 2}
RowParams(r, n) == {p \in DOMAIN r.params : n \in DOMAIN r.params[p]}
FirstRowstat(r) == Head(SelectSeq(Walk(r), LAMBDA i : IsRowstat(r, i)))
MatchesRowstat(r) ==
  /\ \E i \in Range(Walk(r)) : IsRowstat(r, i)
  /\ LET n == RowstatDim(r, FirstRowstat(r))
     IN  /\ Len(Reduces(r)) = 2
         /\ \A i \in Range(Reduces(r)) : r.nodes[i].o.f = "mean" /\ DimsOf(r, i) = <<n>>
         /\ \A i \in Range(Walk(r)) : OpOf(r, i) \in ExactOps \cup {"param", "reduce"}
IsMapChain(r) == Len(r.out) = 1 /\ \A i \in Range(Walk(r)) : OpOf(r, i) \in MapOps

-----------------------------------------------------------------------------
(* THE TWIN that is certified: the same program over smaller extents *)

Clamp(b) == [n \in DOMAIN b |-> {i \in b[n] : i < CertCap}]
ClampOp(o) ==
  CASE o.op = "const" -> [o EXCEPT !.box = Clamp(@)]
    [] o.op = "repeat" -> [o EXCEPT !.hi = Min({@, CertCap})]
    [] OTHER -> o
Oversized(r) == \E p \in DOMAIN r.params : \E n \in DOMAIN r.params[p] : Extent(r.params[p], n) > CertCap
Shrinks(r) == \A p \in DOMAIN r.params : \A n \in DOMAIN r.params[p] : Min(r.params[p][n]) = 0
Shrink(r) ==
  Finished(FoldLeft(LAMBDA acc, i : PutFor(acc, i, ClampOp(r.nodes[i].o), [j \in DOMAIN r.nodes[i].args |-> acc.at[r.nodes[i].args[j]]]),
                    ParamsAt(r, Build([p \in DOMAIN r.params |-> Clamp(r.params[p])])),
                    SelectSeq(LiveNodes(r), LAMBDA i : i \notin DOMAIN r.params)), r)

\* The families: values over the whole range, and zeros and ones for what is
\* read as a mask.
RECURSIVE ViewedParam(_, _)
ViewedParam(r, i) ==
  IF OpOf(r, i) \in {"rename", "repeat_like", "repeat", "slice", "shift"} \cup ChartOps THEN ViewedParam(r, A(r, i, 1)) ELSE i
MaskParams(r) ==
  {ViewedParam(r, A(r, i, 1)) : i \in {i \in Range(Walk(r)) : /\ OpOf(r, i) = "pointwise" /\ r.nodes[i].o.f.tree = "prim"
                                                             /\ r.nodes[i].o.f.prim = "where"}}
Spread(p, seed) ==
  FoldLeft(LAMBDA h, n : IF n \in DOMAIN p THEN h * 7 + p[n] + 3 ELSE h, seed, DimNames)
Drawn(b, seed, isMask) == [p \in Points(b) |-> Lift(IF isMask THEN Spread(p, seed) % 2 ELSE (Spread(p, seed) * Spread(p, seed + 5)) \div 5)]
Draw(r, seed) == [p \in DOMAIN r.params |-> Tabled(Drawn(r.params[p], seed + p, p \in MaskParams(r)))]
ScoreFamilies(r) == {Draw(r, seed) : seed \in 1 .. 3}

-----------------------------------------------------------------------------
(* THE PASS *)

Reassoc == {[name |-> "gemm.k-reassoc", kind |-> "reassociation"]}
FlashLicense == {[name |-> "flash.online-softmax", kind |-> "reassociation"]}
Group(template, kernel, certificate, params, artifacts) ==
  [template |-> template, kernel |-> kernel.r, certificate |-> certificate, params |-> params, artifacts |-> artifacts,
   confidence |-> "yellow", ok |-> kernel.ok /\ certificate.verdict # "raised"]
Red(r) == [template |-> "uncompiled", kernel |-> r, certificate |-> Raised, params |-> 0, artifacts |-> 0,
           confidence |-> "red", ok |-> TRUE]
KiOf(template, r) ==
  CASE template = "flash" -> LET p == FlashParts(r, r.out[1]) IN PickKi(Extent(TyOf(r, p.k), p.s))
    [] template = "contraction-epilogue" -> PickKi(SweptExtent(r))
Matches(template, r) ==
  CASE template = "flash" -> MatchesFlash(r)
    [] template = "contraction-epilogue" -> MatchesContraction(r)
Generate(template, r) ==
  CASE template = "flash" -> GenerateFlash(r, KiOf(template, r))
    [] template = "contraction-epilogue" -> GenerateContraction(r, KiOf(template, r))
\* The kernel generated for the region and certified against it, or the one
\* for its smaller twin against that.
Shrunk(r) == Oversized(r) /\ Shrinks(r)
\* A type rule that refuses an operation of the twin raises.
TwinOf(template, r, small) ==
  IF ~small.ok \/ (Shrunk(r) /\ Matches(template, small.r)) THEN small ELSE [small EXCEPT !.r = r]
TileCertificate(kernel, tile, twin, licenses) ==
  IF twin.ok /\ kernel.ok /\ tile.ok THEN Certify(tile.r, twin.r, licenses, ScoreFamilies(twin.r)) ELSE Raised
CertifiedTile(template, r, kernel, twin, licenses) ==
  TileCertificate(kernel, IF twin.r = r THEN kernel ELSE Generate(template, twin.r), twin, licenses)
TiledAs(template, r, kernel, licenses) ==
  Group(template, kernel, CertifiedTile(template, r, kernel, TwinOf(template, r, IF Shrunk(r) THEN Shrink(r) ELSE [r |-> r, ok |-> TRUE]), licenses),
        KiOf(template, r), Len(r.out) - 1)
Tiled(template, r) == TiledAs(template, r, Generate(template, r), IF template = "flash" THEN FlashLicense ELSE Reassoc)
\* The region with params staged, certified with no license.
StagedFirst(template, r) ==
  CASE template = "row-normalization" -> RowParams(r, SoftmaxDim(r, r.out[1]))
    [] template = "row-statistics" -> RowParams(r, RowstatDim(r, FirstRowstat(r)))
    [] template = "stencil" -> Neighborhoods(r)
StagedAs(template, r, kernel, params) == Group(template, kernel, IF kernel.ok THEN Certify(kernel.r, r, {}, {}) ELSE Raised, params, 0)
Staged(template, r) == LET staged == StagedFirst(template, r) IN StagedAs(template, r, StageParams(r, staged), Cardinality(staged))
MapChain(r) == Group("map-chain", [r |-> r, ok |-> CheckTier(r, "tile")], Certify(r, r, {}, {}), 0, 0)
\* Most specific first.
TemplateOf(r) ==
  CASE MatchesFlash(r) -> "flash"
    [] MatchesContraction(r) -> "contraction-epilogue"
    [] Len(r.out) = 1 /\ IsSoftmax(r, r.out[1]) -> "row-normalization"
    [] MatchesRowstat(r) -> "row-statistics"
    [] IsMapChain(r) /\ Neighborhoods(r) # {} -> "stencil"
    [] IsMapChain(r) -> "map-chain"
    [] OTHER -> "uncompiled"
RecognizedAs(template, r) ==
  CASE template \in {"flash", "contraction-epilogue"} -> Tiled(template, r)
    [] template \in {"row-normalization", "row-statistics", "stencil"} -> Staged(template, r)
    [] template = "map-chain" -> MapChain(r)
    [] OTHER -> Red(r)
Recognize(r) == RecognizedAs(TemplateOf(r), r)
=============================================================================
