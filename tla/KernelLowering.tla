--------------------------- MODULE KernelLowering ---------------------------
(***************************************************************************)
(* Compute kernels to regions: the kernel rules (kernel.py) over the       *)
(* tensor rules (dialect.py), with the lift of function arguments.         *)
(*                                                                         *)
(* A function is a record: its name, its parameters, the names its code    *)
(* refers to, its constants and its body, which reads a constant by its    *)
(* place, as bytecode does.  A lowering is a record too: the nodes in the  *)
(* order they were emitted, each known by its place; what the rules keep   *)
(* in the context; the value a rule returned (val) and the reason it       *)
(* refused ("" while it has not).  Numbers are integers; charts, labels    *)
(* and units are left out (Views, Layouts).                                *)
(***************************************************************************)
EXTENDS Integers, Sequences, SequencesExt, FiniteSets, FiniteSetsExt, Functions, TLC

Each(Do(_), s) == [i \in DOMAIN s |-> Do(s[i])]

(* Syntax. *)
Lit(i) == [ast |-> "Constant", at |-> i]
Var(x) == [ast |-> "Name", id |-> x]
Bin(op, l, r) == [ast |-> "BinOp", op |-> op, args |-> <<l, r>>]
Cmp(op, l, r) == [ast |-> "Compare", op |-> op, args |-> <<l, r>>]
Neg(e) == [ast |-> "UnaryOp", op |-> "neg", args |-> <<e>>]
Logic(op, es) == [ast |-> "BoolOp", op |-> op, args |-> es]
Ternary(c, a, b) == [ast |-> "IfExp", args |-> <<c, a, b>>]
Tup(es) == [ast |-> "Tuple", args |-> es]
Item(x, es) == [ast |-> "Subscript", id |-> x, args |-> es]
Call(f, es) == [ast |-> "Call", id |-> f, args |-> es]
Ambient(kind, axes) == [ast |-> "Ambient", op |-> kind, axes |-> axes]
Place(b, t) == [ast |-> "Global", args |-> <<b, t>>]
Coerce(e) == [ast |-> "Coerce", args |-> <<e>>]
Adapt(e, dim) == [ast |-> "Rename", args |-> <<e>>, dim |-> dim]
Stage(f) == [ast |-> "Stage", id |-> f]
Extent(e) == [ast |-> "Extent", args |-> <<e>>]
Let(x, e) == [ast |-> "Assign", names |-> <<x>>, value |-> e, pattern |-> FALSE]
Unpack(xs, e) == [ast |-> "Assign", names |-> xs, value |-> e, pattern |-> TRUE]
Store(x, es, e) == [ast |-> "Store", id |-> x, args |-> es, value |-> e]
If(c, a, b) == [ast |-> "If", test |-> c, body |-> a, orelse |-> b]
For(x, lo, hi, body) == [ast |-> "For", id |-> x, bounds |-> <<lo, hi>>, body |-> body]
\* for x in range(lo, hi): if done: break; carry = step
March(x, lo, hi, carry, step, done) ==
  [ast |-> "March", id |-> x, bounds |-> <<lo, hi>>, carry |-> carry, step |-> step, done |-> done]
Never == Lit(0)
Return(e) == [ast |-> "Return", value |-> e]

Fn(name, params, names, consts, body) ==
  [name |-> name, params |-> params, names |-> names, consts |-> consts, body |-> body]
Const(fn, i) == IF i = 0 THEN 0 ELSE fn.consts[i]
\* A jitted function: what it captures, and the staged transforms applied to it.
Handle(fn, captures) == [fn |-> fn, captures |-> captures, staged |-> <<>>]
Fp(h) == <<h.fn, h.staged>>

PW(f, xs) ==
  CASE f = "add" -> xs[1] + xs[2]
    [] f = "sub" -> xs[1] - xs[2]
    [] f = "mul" -> xs[1] * xs[2]
    [] f = "neg" -> -xs[1]
    [] f = "lt" -> IF xs[1] < xs[2] THEN 1 ELSE 0
    [] f = "ge" -> IF xs[1] >= xs[2] THEN 1 ELSE 0
    [] f = "eq" -> IF xs[1] = xs[2] THEN 1 ELSE 0
    [] f = "maximum" -> IF xs[1] > xs[2] THEN xs[1] ELSE xs[2]
    [] f = "minimum" -> IF xs[1] < xs[2] THEN xs[1] ELSE xs[2]
    [] f = "where" -> IF xs[1] # 0 THEN xs[2] ELSE xs[3]
-----------------------------------------------------------------------------
(* Types, values and emission. *)

Frame(name, lo, hi) == [name |-> name, lo |-> lo, hi |-> hi]
Size(f) == f.hi - f.lo
Scalar == [k |-> "scalar", fs |-> <<>>]
TokenType == [k |-> "token", fs |-> <<>>]
TensorType(fs) == [k |-> "tensor", fs |-> fs]
CoordType(f) == [k |-> "coord", fs |-> <<f>>]
FrameOf(fs, name) == SelectSeq(fs, LAMBDA f : f.name = name)
HasDim(fs, name) == FrameOf(fs, name) # <<>>

Host(n) == <<"host", n>>
Node(i) == <<"node", i>>
Many(vs) == <<"tuple", vs>>
Function(h) == <<"fn", h>>

NodeAt(c, v) == c.nodes[v[2]]
IsNode(v) == v[1] = "node"
IsTensor(c, v) == IsNode(v) /\ NodeAt(c, v).ty.k = "tensor"
IsCoord(c, v) == IsNode(v) /\ NodeAt(c, v).ty.k = "coord"
FramesOf(c, v) == NodeAt(c, v).ty.fs
Backing(c, v) == Node(NodeAt(c, v).args[1])

Refuse(c, why) == IF c.bad = "" THEN [c EXCEPT !.bad = why] ELSE c
Put(c, v) == IF c.bad = "" THEN [c EXCEPT !.val = v] ELSE c
Emit(c, op, vs, ty, at) ==
  IF c.bad # "" THEN c
  ELSE [c EXCEPT !.nodes = Append(@, [op |-> op, args |-> Each(LAMBDA v : v[2], vs), ty |-> ty, at |-> at]),
                 !.val = Node(Len(c.nodes) + 1)]
Aligned(c, vs) == Cardinality({ToSet(FramesOf(c, v)) : v \in {w \in ToSet(vs) : IsTensor(c, w)}}) <= 1

\* tl.pointwise: aligned operands, dense over the dims of the first of them.
Field(c, f, vs) ==
  IF c.bad # "" THEN c
  ELSE IF ~Aligned(c, vs) THEN Refuse(c, "operands not aligned")
  ELSE Emit(c, "tl.pointwise", vs, TensorType(FramesOf(c, SelectSeq(vs, LAMBDA v : IsTensor(c, v))[1])), f)
\* tl.read: an index field for each dim of what is read, aligned.
Read(c, base, vs) ==
  IF c.bad # "" THEN c
  ELSE IF \/ Len(vs) # Len(FramesOf(c, base))
          \/ ~(\E v \in ToSet(vs) : IsTensor(c, v))
          \/ ~Aligned(c, vs) THEN Refuse(c, "index fields")
  ELSE Emit(c, "tl.read", <<base>> \o vs, TensorType(FramesOf(c, SelectSeq(vs, LAMBDA v : IsTensor(c, v))[1])), <<>>)
Coord(c, frame) == IF c.bad # "" THEN c ELSE Emit(c, "tl.coord", <<c.val>>, CoordType(frame), <<>>)
Iota(c, v, dim) ==
  IF c.bad # "" THEN c
  ELSE IF ~HasDim(FramesOf(c, v), dim) THEN Refuse(c, "no such dim")
  ELSE Emit(c, "tl.iota", <<v>>, TensorType(FramesOf(c, v)), <<dim>>)
\* A host number becomes a constant where it meets a node.
Lift(c, v) == IF c.bad # "" THEN c ELSE IF IsNode(v) THEN Put(c, v)
              ELSE IF v[1] = "host" THEN Emit(c, "core.const", <<>>, Scalar, <<v[2]>>) ELSE Refuse(c, "not a value")
\* A rule on each of several things in turn, and the values it returned.
Kept(d, e) == <<e, Append(d[2], e.val)>>
Collected(d) == Put(d[1], Many(d[2]))
InTurn(c, Rule(_, _), xs) == Collected(FoldLeft(LAMBDA d, x : Kept(d, Rule(d[1], x)), <<c, <<>>>>, xs))
LiftAll(c, vs) == InTurn(c, Lift, vs)
\* A field wherever a tensor is in play, a scalar of the value dialect elsewhere.
ApplyTo(l, f) ==
  IF l.bad # "" THEN l
  ELSE IF \E v \in ToSet(l.val[2]) : IsTensor(l, v) THEN Field(l, <<f>>, l.val[2])
  ELSE Emit(l, "core." \o f, l.val[2], Scalar, <<f>>)
Apply(c, f, vs) == ApplyTo(LiftAll(c, vs), f)
\* Operators: no arithmetic on a coordinate; host numbers fold on the host.
Operator(c, f, vs) ==
  IF c.bad # "" THEN c
  ELSE IF \E v \in ToSet(vs) : IsCoord(c, v) THEN Refuse(c, "no arithmetic on a Coordinate")
  ELSE IF \A v \in ToSet(vs) : v[1] = "host" THEN Put(c, Host(PW(f, Each(LAMBDA v : v[2], vs))))
  ELSE Apply(c, f, vs)
-----------------------------------------------------------------------------
(* The geometry of a launch, and the ambient coordinates. *)

NoGeom == [blocks |-> <<>>, threads |-> <<>>]
\* Blocks of one are the default geometry.
NormGeom(g) == IF \A i \in DOMAIN g.blocks : g.blocks[i] = 1 THEN NoGeom ELSE g
Lattice(c) == Node(c.lattice)
BlockOf(dim) == dim \o <<"b">>
ThreadOf(dim) == dim \o <<"t">>

\* one block spans the lattice; the lattice is split to the geometry (pairs);
\* or it is flat and the kernel tiles it (tile).
Form(form, info) == [form |-> form, info |-> info]
SplitPair(ds, i) == <<ds[2 * i - 1], ds[2 * i]>>
Tiles(g, ds) == \A i \in DOMAIN g.blocks : g.blocks[i] * g.threads[i] = Size(ds[i])
Paired(g, ds) ==
  \A i \in DOMAIN g.blocks : 2 * i <= Len(ds) /\ Size(SplitPair(ds, i)[1]) = g.blocks[i] /\ Size(SplitPair(ds, i)[2]) = g.threads[i]
FormOf(g, ds) ==
  CASE g = NoGeom -> Form("one", <<>>)
    [] g # NoGeom /\ Len(ds) = Len(g.blocks) ->
         IF Tiles(g, ds) THEN Form("tile", [i \in DOMAIN g.blocks |-> <<ds[i].name, g.blocks[i], g.threads[i]>>])
         ELSE Form("refused", <<>>)
    [] OTHER ->
         IF Paired(g, ds) THEN Form("pairs", [i \in DOMAIN g.blocks |-> <<SplitPair(ds, i)[1].name, SplitPair(ds, i)[2].name>>])
         ELSE Form("refused", <<>>)
LaunchForm(c) == FormOf(NormGeom(c.geom), FramesOf(c, Lattice(c)))

SplitFrames(fs, t) ==
  FlattenSeq(Each(LAMBDA f : IF f.name # t[1] THEN <<f>>
                             ELSE <<Frame(BlockOf(t[1]), 0, t[2]), Frame(ThreadOf(t[1]), 0, t[3])>>, fs))
\* The lattice of the launch as a node: split once, axis by axis.
SplitOne(d, t) == Emit(d, "tl.split", <<d.val>>, TensorType(SplitFrames(FramesOf(d, d.val), t)), t)
Remembered(made) == [made EXCEPT !.grid = made.val[2]]
GridNode(c, l) ==
  CASE l.form # "tile" -> Put(c, Lattice(c))
    [] l.form = "tile" /\ c.grid # 0 -> Put(c, Node(c.grid))
    [] OTHER -> Remembered(FoldLeft(SplitOne, Put(c, Lattice(c)), l.info))
\* grid_layout(): the same split as a layout.
LayoutOf(fs, l) == IF l.form = "tile" THEN FoldLeft(SplitFrames, fs, l.info) ELSE fs
GridLayout(c) == LayoutOf(FramesOf(c, Lattice(c)), LaunchForm(c))

\* One raw coordinate of an axis, which a call names in order.
RawDim(l, kind, i, axis) ==
  CASE l.form = "pairs" -> l.info[i][IF kind = "block" THEN 1 ELSE 2]
    [] l.form = "one" -> axis
    [] OTHER -> IF kind = "block" THEN BlockOf(axis) ELSE ThreadOf(axis)
RawAt(g, dim) == Coord(Iota(g, g.val, dim), FrameOf(FramesOf(g, g.val), dim)[1])
OneBlock(c, axis) == Coord(Emit(c, "tl.const", <<>>, TensorType(FramesOf(c, Lattice(c))), <<0>>), Frame(BlockOf(axis), 0, 1))
AmbientAt(c, l, kind, i, axis) ==
  CASE l.form = "refused" -> Refuse(c, "geometry")
    [] l.form = "one" /\ kind = "block" -> OneBlock(c, axis)
    [] l.form = "tile" /\ axis \notin {t[1] : t \in ToSet(l.info)} -> Refuse(c, "no such axis")
    [] l.form = "pairs" /\ i \notin DOMAIN l.info -> Refuse(c, "no such axis")
    [] OTHER -> RawAt(GridNode(c, l), RawDim(l, kind, i, axis))
AmbientIota(c, kind, i, axis) == IF c.bad # "" THEN c ELSE AmbientAt(c, LaunchForm(c), kind, i, axis)
Ambients(c, kind, axes) == InTurn(c, LAMBDA d, i : AmbientIota(d, kind, i, axes[i]), [i \in DOMAIN axes |-> i])

\* The merge map, block * T + thread, T read from the grid that was passed.
Stride(fs, dim) == Size(FrameOf(fs, dim)[1])
Scaled(k, b) == Field(k, <<"mul">>, <<Backing(k, b), k.val>>)
AddedTo(p, t) == Field(p, <<"add">>, <<p.val, Backing(p, t)>>)
\* The flat axis that was split, where the lattice has it.
FlatAxis(c, name) == IF name[Len(name)] = "t" THEN FrameOf(FramesOf(c, Lattice(c)), Front(name)) ELSE <<>>
FirstOr(fs, f) == IF fs # <<>> THEN fs[1] ELSE f
MergedAt(c, b, t, name, T) ==
  Coord(AddedTo(Scaled(Emit(c, "core.const", <<>>, Scalar, <<T>>), b), t),
        FirstOr(FlatAxis(c, name), Frame(name, 0, T * Size(FramesOf(c, b)[1]))))
PairMap(c, b, t, grid, name) ==
  IF ~HasDim(grid, name) THEN Refuse(c, "no thread dim") ELSE MergedAt(c, b, t, name, Stride(grid, name))
MergeMap(c, b, t, grid) ==
  CASE c.bad # "" -> c
    [] c.bad = "" /\ ~(IsCoord(c, t) /\ IsCoord(c, b)) -> Refuse(c, "wants the raw pair")
    [] OTHER -> IF NormGeom(c.geom) = NoGeom THEN Put(c, t) ELSE PairMap(c, b, t, grid, FramesOf(c, t)[1].name)
GlobalFromRaws(c, bs, ts, grid) ==
  InTurn(c, LAMBDA d, i : MergeMap(d, bs[i], ts[i], grid), [i \in 1..(IF Len(bs) < Len(ts) THEN Len(bs) ELSE Len(ts)) |-> i])
\* The pairs of the axes, one by one, the first of each the block's.
GlobalOf(l) == IF l.bad # "" THEN l ELSE GlobalFromRaws(l, l.val[2][1][2], l.val[2][2][2], GridLayout(l))
-----------------------------------------------------------------------------
(* The naming law: a name bound once is a site, a name bound twice is not. *)

Site(c, name, v) ==
  LET d == [c EXCEPT !.claimed = @ \cup {name}] IN
  CASE IsCoord(c, v) -> [d EXCEPT !.claims = (name :> Backing(c, v)) @@ @]
    [] IsTensor(c, v) -> [d EXCEPT !.claims = (name :> v) @@ @]
    [] OTHER -> [d EXCEPT !.invalid = @ \cup {name}]
\* Variant: the last binding of a name is its site.
ClaimLast(c, name, v) == IF c.bad # "" THEN c ELSE Site(c, name, v)
Claim(c, name, v) ==
  IF c.bad # "" THEN c
  ELSE IF name \notin c.claimed THEN Site(c, name, v)
  ELSE [c EXCEPT !.claims = [n \in DOMAIN @ \ {name} |-> @[n]], !.invalid = @ \cup {name}]
Bind(c, name, v) == IF c.bad # "" THEN c ELSE Claim([c EXCEPT !.locals = (name :> v) @@ @], name, v)
\* A pattern takes the values there are.
BindAll(c, names, v) ==
  CASE c.bad # "" -> c
    [] c.bad = "" /\ v[1] # "tuple" -> Refuse(c, "destructure")
    [] OTHER -> FoldLeft(LAMBDA d, i : Bind(d, names[i], v[2][i]), c,
                         SelectSeq([i \in DOMAIN names |-> i], LAMBDA i : i \in DOMAIN v[2]))

(* Names: locals first; a literal bakes, a number is a uniform slot. *)

Slot(c, src) == Emit([c EXCEPT !.size = @ + 1], "abi.slot", <<>>, Scalar, <<src, c.size>>)
Uniform(s, x) == [s EXCEPT !.uniforms = (x :> s.val) @@ @]
GlobalName(c, x, v) ==
  CASE v[1] = "literal" -> Emit(c, "core.const", <<>>, Scalar, <<v[2]>>)
    [] v[1] = "data" -> IF x \in DOMAIN c.uniforms THEN Put(c, c.uniforms[x]) ELSE Uniform(Slot(c, <<"env", x>>), x)
    [] OTHER -> Refuse(c, "a host citizen is not a value")
Name(c, x) ==
  CASE c.bad # "" -> c
    [] c.bad = "" /\ x \in DOMAIN c.locals -> Put(c, c.locals[x])
    [] OTHER -> IF x \notin DOMAIN c.globals THEN Refuse(c, "unknown name") ELSE GlobalName(c, x, c.globals[x])
Lookup(c, x) == IF x \in DOMAIN c.locals THEN c.locals[x] ELSE IF x \in DOMAIN c.globals THEN c.globals[x] ELSE <<"none">>

(* Loads: coordinates are typed and order-free, values are a computed read. *)

Admits(target, f) == target.name = f.name /\ target.lo <= f.lo /\ f.hi <= target.hi
FrameAt(c, v) == FramesOf(c, v)[1]
InOrder(c, vs, fs) == Each(LAMBDA f : SelectSeq(vs, LAMBDA v : FrameAt(c, v).name = f.name)[1], fs)
Itself(c, v, f) == FrameAt(c, v) = f /\ NodeAt(c, Backing(c, v)).op = "tl.iota" /\ NodeAt(c, Backing(c, v)).at = <<f.name>>
LoadAt(c, base, fs, vs) ==
  IF \E i \in DOMAIN fs : ~Admits(fs[i], FrameAt(c, vs[i])) THEN Refuse(c, "containment")
  ELSE IF \A i \in DOMAIN fs : Itself(c, vs[i], fs[i]) THEN Put(c, base)
  ELSE Read(c, base, Each(LAMBDA v : Backing(c, v), vs))
LoadCoords(c, base, fs, vs) ==
  LET named == {FrameAt(c, v).name : v \in ToSet(vs)} IN
  IF Cardinality(named) < Len(vs) THEN Refuse(c, "duplicate coordinate")
  ELSE IF named # {f.name : f \in ToSet(fs)} THEN Refuse(c, "does not cover")
  ELSE LoadAt(c, base, fs, InOrder(c, vs, fs))
ReadLifted(l, base) == Read(l, base, l.val[2])
Load(c, base, vs) ==
  CASE c.bad # "" -> c
    [] c.bad = "" /\ (\A v \in ToSet(vs) : ~IsCoord(c, v)) -> ReadLifted(LiftAll(c, vs), base)
    [] OTHER -> IF \E v \in ToSet(vs) : ~IsCoord(c, v) THEN Refuse(c, "mixed subscript")
                ELSE LoadCoords(c, base, FramesOf(c, base), vs)

(* Stores: only at coordinates; a value on the split lattice merges back. *)

MergeDim(fs, dim) ==
  LET b == FrameOf(fs, BlockOf(dim))[1]  t == FrameOf(fs, ThreadOf(dim))[1]
  IN FlattenSeq(Each(LAMBDA f : IF f = b THEN <<Frame(dim, 0, Size(b) * Size(t))>> ELSE IF f = t THEN <<>> ELSE <<f>>, fs))
Merged(c, dim) ==
  IF c.bad = "" /\ IsTensor(c, c.val) /\ HasDim(FramesOf(c, c.val), BlockOf(dim))
  THEN Emit(c, "tl.merge", <<c.val>>, TensorType(MergeDim(FramesOf(c, c.val), dim)), dim)
  ELSE c
\* The token of the last store orders the next.
Threaded(c) == IF c.tok # 0 THEN Put(c, Node(c.tok)) ELSE Emit(c, "tl.token", <<>>, TokenType, <<>>)
StoreOn(t, target, v) == Emit(t, "tl.store", <<t.val, target, v>>, TokenType, <<>>)
Passed(s) == [s EXCEPT !.tok = s.val[2]]
Ordered(c, target, v) ==
  IF c.bad # "" THEN c
  ELSE IF IsTensor(c, v) /\ ToSet(FramesOf(c, v)) # ToSet(FramesOf(c, target)) THEN Refuse(c, "value not aligned to the target")
  ELSE Passed(StoreOn(Threaded(c), target, v))
OrderedLast(c, target) == Ordered(c, target, c.val)
\* A number fills the target, a field on the split lattice merges back.
Fitted(c, target, vs, v) ==
  CASE v[1] = "host" -> Emit(c, "tl.const", <<>>, TensorType(FramesOf(c, target)), <<v[2]>>)
    [] v[1] # "host" /\ IsTensor(c, v) -> FoldLeft(Merged, Put(c, v), Each(LAMBDA w : FramesOf(c, w)[1].name, vs))
    [] OTHER -> Put(c, v)
AmbientIndexed(c, vs) == \A w \in ToSet(vs) : IsCoord(c, w)
StoreAt(c, target, vs, v) ==
  CASE c.bad # "" -> c
    [] c.bad = "" /\ ~(IsNode(target) /\ target[2] \in DOMAIN c.pname) -> Refuse(c, "stores write into a tensor argument")
    [] OTHER ->
       IF ~AmbientIndexed(c, vs) THEN Refuse(c, "stores are ambient-indexed")
       ELSE IF v[1] \notin {"host", "node"} \/ IsCoord(c, v) THEN Refuse(c, "not a storable value")
       ELSE [OrderedLast(Fitted(c, target, vs, v), target) EXCEPT !.stored = Append(@, c.pname[target[2]])]
StoreTo(c, x, vs, v) == StoreAt(c, Lookup(c, x), vs, v)
-----------------------------------------------------------------------------
(* A function argument as a scalar region: terms, and the names it bound.   *)

CapturesAt(fn, x) == CHOOSE i \in DOMAIN fn.names : fn.names[i] = x
RECURSIVE Term(_, _, _)
Term(fn, env, e) ==
  LET args == Each(LAMBDA a : Term(fn, env, a), e.args)
  IN CASE e.ast = "Constant" -> <<"c", Const(fn, e.at)>>
       [] e.ast = "Name" -> IF e.id \in DOMAIN env THEN env[e.id] ELSE <<"env", CapturesAt(fn, e.id)>>
       [] e.ast = "IfExp" -> <<"op", "where", args>>
       [] e.ast = "Tuple" -> <<"tuple", args>>
       [] e.ast \in {"BinOp", "Compare", "UnaryOp"} -> <<"op", e.op, args>>
\* A bounded loop; with an exit, the carry freezes where the exit has fired.
Loop(x, bounds, init, step, done) ==
  <<"for", x, bounds[1], bounds[2], init, IF done = <<>> THEN step ELSE <<"op", "where", <<done[1], <<"carry", x>>, step>>>>, done>>
LoopTerm(fn, env, stmt) ==
  LET inner == (stmt.id :> <<"iv", stmt.id>>) @@ (stmt.carry :> <<"carry", stmt.id>>) @@ env
  IN Loop(stmt.id, Each(LAMBDA e : Term(fn, env, e), stmt.bounds), Term(fn, env, Var(stmt.carry)), Term(fn, inner, stmt.step),
          IF stmt.done = Never THEN <<>> ELSE <<Term(fn, inner, stmt.done)>>)
NamedTerm(s, x, t) == [s EXCEPT !.env = (x :> t) @@ @, !.named = Append(@, <<x, t>>)]
TermStep(fn, s, stmt) ==
  CASE stmt.ast = "Assign" -> NamedTerm(s, stmt.names[1], Term(fn, s.env, stmt.value))
    [] stmt.ast = "March" -> [s EXCEPT !.env = (stmt.carry :> LoopTerm(fn, s.env, stmt)) @@ @]
    [] stmt.ast = "Return" -> [s EXCEPT !.out = Term(fn, s.env, stmt.value)]
\* A staged transform: the function, twice what it returns.
Staged(t) == <<"op", "add", <<t, t>>>>
RegionOf(h, s) == [out |-> FoldLeft(LAMBDA t, w : Staged(t), s.out, h.staged), named |-> s.named]
ScalarRegion(h) ==
  RegionOf(h, FoldLeft(LAMBDA a, stmt : TermStep(h.fn, a, stmt),
                       [env |-> [x \in ToSet(h.fn.params) |-> <<"param", CHOOSE i \in DOMAIN h.fn.params : h.fn.params[i] = x>>],
                        named |-> <<>>, out |-> <<"none">>], h.fn.body))

\* Unrolled: once an exit has fired, neither the carry nor the exit changes.
Freeze(stopped, cur, stepped) == <<"op", "where", <<stopped, cur, stepped>>>>
\* Variant: the exit is asked again at every iteration.
AskedAgain(stopped, done) == done
Stopped(stopped, done) == <<"op", "where", <<stopped, stopped, done>>>>
RECURSIVE Flat(_, _)
Steps(lo, hi) == IF lo < hi THEN [i \in 1..(hi - lo) |-> lo + i - 1] ELSE <<>>
Iterated(s, cur, done) ==
  IF s.stopped = <<>> \/ done = <<>> THEN [cur |-> cur, stopped |-> done]
  ELSE [cur |-> Freeze(s.stopped[1], s.cur, cur), stopped |-> <<Stopped(s.stopped[1], done[1])>>]
IterateOnce(t, s, sub) == Iterated(s, Flat(t[6], sub), Each(LAMBDA done : Flat(done, sub), t[7]))
Unrolled(t, sub, lo, hi) ==
  FoldLeft(LAMBDA s, k : IterateOnce(t, s, (<<"iv", t[2]>> :> <<"c", k>>) @@ (<<"carry", t[2]>> :> s.cur) @@ sub),
           [cur |-> Flat(t[5], sub), stopped |-> <<>>], Steps(lo, hi)).cur
Flat(t, sub) ==
  CASE t[1] \in {"iv", "carry"} -> IF t \in DOMAIN sub THEN sub[t] ELSE t
    [] t[1] = "op" -> <<"op", t[2], Each(LAMBDA a : Flat(a, sub), t[3])>>
    [] t[1] = "tuple" -> <<"tuple", Each(LAMBDA a : Flat(a, sub), t[2])>>
    [] t[1] = "for" -> IF t[3][1] = "c" /\ t[4][1] = "c" THEN Unrolled(t, sub, t[3][2], t[4][2]) ELSE t
    [] OTHER -> t
RECURSIVE Liftable(_)
Liftable(t) ==
  CASE t[1] = "op" -> \A a \in ToSet(t[3]) : Liftable(a)
    [] t[1] = "tuple" -> \A a \in ToSet(t[2]) : Liftable(a)
    [] OTHER -> t[1] # "for"
-----------------------------------------------------------------------------
(* Function arguments.  The liftable ones are spliced in, their captures    *)
(* in a block of slots of their own; the others are dispatched per element. *)

IndexOf(s, x) == CHOOSE i \in DOMAIN s : s[i] = x /\ \A j \in 1..(i - 1) : s[j] # x
\* The parameter a function came from, and the transforms to replay on it.
RECURSIVE Resolve(_, _)
Resolve(c, h) ==
  CASE h \in Range(c.fnparams) -> [param |-> CHOOSE p \in DOMAIN c.fnparams : /\ c.fnparams[p] = h
                                       /\ \A q \in DOMAIN c.fnparams : c.fnparams[q] = h =>
                                            IndexOf(c.fn.params, p) <= IndexOf(c.fn.params, q),
                                   wrap |-> 0]
    [] h \notin Range(c.fnparams) /\ h \in c.recipes ->
         LET r == Resolve(c, [h EXCEPT !.staged = Front(@)]) IN [r EXCEPT !.wrap = @ + 1]
    [] OTHER -> [param |-> "", wrap |-> 0]

\* How many outputs the pattern names, 0 for a plain name.
ShapeResult(d, n) ==
  CASE d.bad # "" -> d
    [] d.bad = "" /\ n = 0 -> IF d.val[1] = "tuple" THEN Refuse(d, "destructure them") ELSE d
    [] OTHER -> IF d.val[1] = "tuple" /\ Len(d.val[2]) = n THEN d ELSE Refuse(d, "the pattern and the result differ")

\* Variant: every block of captures starts the staging bytes.
AtZero(c) == 0
Base(c) == c.size
Block(c, key, h, r) ==
  IF key \in DOMAIN c.blocks THEN c
  ELSE [c EXCEPT !.blocks = (key :> [param |-> r.param, fixed |-> h, wrap |-> r.wrap, base |-> Base(c),
                                     n |-> Len(h.captures), slots |-> <<>>]) @@ @,
                 !.size = @ + Len(h.captures)]
SlotAt(c, b, i) == Emit(c, "abi.slot", <<>>, Scalar, <<<<"arg", b.param, i>>, b.base + i - 1>>)
SlotKept(s, key, i) == [s EXCEPT !.blocks[key].slots = (i :> s.val) @@ @]
BlockSlot(c, key, i) ==
  LET b == c.blocks[key]
  IN IF i \in DOMAIN b.slots THEN Put(c, b.slots[i]) ELSE SlotKept(SlotAt(c, b, i), key, i)

RECURSIVE Go(_, _, _, _)
GoKept(a, e) == <<e, Append(a[2], e.c.val)>>
GoDone(all) == [all[1] EXCEPT !.c = Put(@, Many(all[2]))]
GoAll(d, ts, args, key) == GoDone(FoldLeft(LAMBDA a, t : GoKept(a, Go(a[1], t, args, key)), <<d, <<>>>>, ts))
GoOp(all, f) == [all EXCEPT !.c = IF @.bad # "" THEN @ ELSE Apply(@, f, @.val[2])]
GoNew(d, t, args, key) ==
  CASE t[1] = "param" -> [d EXCEPT !.c = Put(@, args[t[2]])]
    [] t[1] = "c" -> [d EXCEPT !.c = Put(@, Host(t[2]))]
    [] t[1] = "env" -> [d EXCEPT !.c = BlockSlot(@, key, t[2])]
    [] t[1] = "tuple" -> GoAll(d, t[2], args, key)
    [] OTHER -> GoOp(GoAll(d, t[3], args, key), t[2])
Memoed(d, t) == [d EXCEPT !.memo = (t :> d.c.val) @@ @]
Go(d, t, args, key) ==
  IF d.c.bad # "" THEN d
  ELSE IF t \in DOMAIN d.memo THEN [d EXCEPT !.c = Put(@, d.memo[t])]
  ELSE Memoed(GoNew(d, t, args, key), t)
\* What a spliced function binds is claimed too.
ClaimIn(c, made, nm) == IF nm[2] \in DOMAIN made /\ IsNode(made[nm[2]]) THEN Claim(c, nm[1], made[nm[2]]) ELSE c
Spliced(d, named, n) ==
  IF d.c.bad # "" THEN d.c ELSE ShapeResult(FoldLeft(LAMBDA c, nm : ClaimIn(c, d.memo, nm), d.c, named), n)
Splice(c, h, region, args, n, r) ==
  LET key == <<r.param, Fp(h)>>
  IN Spliced(Go([c |-> Block(c, key, h, r), memo |-> <<>>], region.out, args, key), region.named, n)

\* A marker for each output, of one function type; the launch binds it.
MarkerName(h, n, k) == <<Fp(h), n, k>>
Recipe(c, m, wrap) == IF m \in DOMAIN c.made THEN c.made[m] ELSE wrap
Registered(c, m, wrap) == IF m \in DOMAIN c.made THEN c ELSE [c EXCEPT !.made = (m :> wrap) @@ @]
BoundBy(c, m, p) ==
  IF p = "" THEN c
  ELSE [c EXCEPT !.order = IF p \in ToSet(@) THEN @ ELSE Append(@, p), !.markers = @ \cup {<<p, m>>}]
Mark(c, m, args, r) == BoundBy(Registered(Field(c, <<m, Recipe(c, m, r.wrap)>>, args), m, r.wrap), m, r.param)
OutputsOf(d, n) == IF n = 0 /\ d.bad = "" THEN Put(d, d.val[2][1]) ELSE d
Oracle(c, h, args, n, r) ==
  IF c.bad # "" THEN c ELSE IF \A v \in ToSet(args) : ~IsTensor(c, v) THEN Refuse(c, "no tensor operand")
  ELSE OutputsOf(InTurn(c, LAMBDA d, k : Mark(d, MarkerName(h, n, k), args, r), [k \in 1..(IF n = 0 THEN 1 ELSE n) |-> k]), n)
-----------------------------------------------------------------------------
(* The rules. *)

RECURSIVE Low(_, _)
LowAll(c, es) == InTurn(c, LAMBDA d, e : Low(d, e), es)
RECURSIVE Stmt(_, _)
Suite(c, stmts) == FoldLeft(LAMBDA d, s : IF d.bad # "" THEN d ELSE Stmt(d, s), c, stmts)
\* Capture and call: a helper inlines over the same context, and its names claim.
Returned(c, d) == [d EXCEPT !.fn = c.fn, !.locals = c.locals]
Inline(c, fn, args) ==
  IF c.bad # "" THEN c
  ELSE IF Len(args) # Len(fn.params) THEN Refuse(c, "arity")
  ELSE Returned(c, Suite([c EXCEPT !.fn = fn, !.locals = [x \in ToSet(fn.params) |-> args[IndexOf(fn.params, x)]]], fn.body))
\* A function of coordinates inlines, one of values is lifted.
InlineAmbient(c, h, args, n) == IF h.captures # <<>> THEN Refuse(c, "captures data") ELSE ShapeResult(Inline(c, h.fn, args), n)
Flattened(region) == [out |-> Flat(region.out, <<>>), named |-> Each(LAMBDA nm : <<nm[1], Flat(nm[2], <<>>)>>, region.named)]
LiftOr(c, h, region, args, n, r) ==
  IF (\A v \in ToSet(args) : IsNode(v)) /\ Liftable(region.out) THEN Splice(c, h, region, args, n, r) ELSE Oracle(c, h, args, n, r)
FnArgFor(c, h, args, n, r) ==
  CASE c.bad # "" -> c
    [] c.bad = "" /\ h \in c.recipes /\ r.param = "" -> Refuse(c, "exactly one kernel parameter")
    [] OTHER -> IF \E v \in ToSet(args) : IsCoord(c, v) THEN InlineAmbient(c, h, args, n)
                ELSE LiftOr(c, h, Flattened(ScalarRegion(h)), args, n, r)
FnArg(c, h, args, n) == FnArgFor(c, h, args, n, Resolve(c, h))
CallOn(l, f, n) ==
  CASE l.bad # "" -> l
    [] l.bad = "" /\ f[1] = "fn" -> FnArg(l, f[2], l.val[2], n)
    [] l.bad = "" /\ f[1] = "helper" -> Inline(l, f[2], l.val[2])
    [] l.bad = "" /\ f[1] = "marker" -> IF \E v \in ToSet(l.val[2]) : IsCoord(l, v) THEN Refuse(l, "no arithmetic on a Coordinate")
                                        ELSE Apply(l, f[2], l.val[2])
    [] OTHER -> Refuse(l, "not callable")
CallRule(c, e, n) == CallOn(LowAll(c, e.args), Lookup(c, e.id), n)
\* Both arms, and a choice between them.
Select(c, cond, a, b) ==
  CASE c.bad # "" -> c
    [] c.bad = "" /\ IsCoord(c, cond) -> Refuse(c, "no branching on a Coordinate")
    [] OTHER -> Apply(c, "where", <<cond, a, b>>)
Chosen(both, cond) == IF both.bad # "" THEN both ELSE Select(both, cond, both.val[2][1], both.val[2][2])
IfExpOn(t, a, b) ==
  CASE t.bad # "" -> t
    [] t.bad = "" /\ t.val[1] = "host" -> Low(t, IF t.val[2] # 0 THEN a ELSE b)
    [] OTHER -> Chosen(LowAll(t, <<a, b>>), t.val)
IfExpRule(c, e) == IfExpOn(Low(c, e.args[1]), e.args[2], e.args[3])
TrueHost(v) == ~(v[1] = "host" /\ v[2] = 0)
BoolOn(l, op, vs) ==
  CASE l.bad # "" -> l
    [] l.bad = "" /\ \E v \in ToSet(vs) : IsTensor(l, v) ->
         FoldLeft(LAMBDA d, v : Apply(d, IF op = "or" THEN "maximum" ELSE "minimum", <<d.val, v>>), Put(l, vs[1]), Tail(vs))
    [] OTHER -> Put(l, Host(IF IF op = "or" THEN \E v \in ToSet(vs) : TrueHost(v) ELSE \A v \in ToSet(vs) : TrueHost(v)
                            THEN 1 ELSE 0))
BoolRule(l, op) == BoolOn(l, op, l.val[2])
OperatorRule(l, op) == Operator(l, op, l.val[2])
LoadRule(l, base) == IF l.bad # "" THEN l ELSE Load(l, base, l.val[2])
\* The doors of a coordinate: its backing, its extent, a dim of another name.
Coerced(a) == CASE a.val[1] = "host" -> a [] a.val[1] # "host" /\ IsCoord(a, a.val) -> Put(a, Backing(a, a.val)) [] OTHER -> Refuse(a, "already a value")
Renamed(a, f, dim) == Coord(Put(a, Backing(a, a.val)), [f EXCEPT !.name = dim])
CoordRule(a, e) ==
  CASE a.bad # "" -> a
    [] a.bad = "" /\ e.ast = "Coerce" -> Coerced(a)
    [] OTHER -> IF ~IsCoord(a, a.val) THEN Refuse(a, "wants a Coordinate")
                ELSE IF e.ast = "Extent" THEN Put(a, Host(Size(FramesOf(a, a.val)[1])))
                ELSE Renamed(a, FramesOf(a, a.val)[1], e.dim)
Staging(c, h) == [Put(c, Function(h)) EXCEPT !.recipes = @ \cup {h}]
Low(c, e) ==
  LET base == Lookup(c, e.id)
  IN CASE c.bad # "" -> c
       [] c.bad = "" /\ e.ast = "Constant" -> Put(c, Host(Const(c.fn, e.at)))
       [] e.ast = "Name" -> Name(c, e.id)
       [] e.ast = "Tuple" -> LowAll(c, e.args)
       [] e.ast \in {"BinOp", "Compare", "UnaryOp"} -> OperatorRule(LowAll(c, e.args), e.op)
       [] e.ast = "IfExp" -> IfExpRule(c, e)
       [] e.ast = "BoolOp" -> BoolRule(LowAll(c, e.args), e.op)
       [] e.ast = "Call" -> CallRule(c, e, 0)
       [] e.ast = "Subscript" -> IF ~IsTensor(c, base) THEN Refuse(c, "not a tensor") ELSE LoadRule(LowAll(c, e.args), base)
       [] e.ast = "Ambient" /\ e.op # "global" -> Ambients(c, e.op, e.axes)
       [] e.ast = "Ambient" /\ e.op = "global" ->
            GlobalOf(InTurn(c, LAMBDA d, kind : Ambients(d, kind, e.axes), <<"block", "thread">>))
       [] e.ast = "Global" -> GlobalOf(LowAll(c, e.args))
       [] e.ast = "Stage" -> IF base[1] # "fn" THEN Refuse(c, "not a function citizen")
                             ELSE Staging(c, [base[2] EXCEPT !.staged = Append(@, "doubled")])
       [] OTHER -> CoordRule(Low(c, e.args[1]), e)
-----------------------------------------------------------------------------
(* Statements. *)

RECURSIVE StoresIn(_)
StoresIn(stmts) ==
  \E s \in ToSet(stmts) : \/ s.ast = "Store"
                          \/ s.ast = "For" /\ StoresIn(s.body)
                          \/ s.ast = "If" /\ (StoresIn(s.body) \/ StoresIn(s.orelse))
\* Values may branch, effects may not: what both arms supply is joined.
SuppliedBy(before, then, else) ==
  {x \in DOMAIN then \cap DOMAIN else : ~(x \in DOMAIN before /\ then[x] = before[x] /\ else[x] = before[x])}
Rebound1(d, x) == [d EXCEPT !.locals = (x :> d.val) @@ @]
JoinAll(c, cond, names, then, else) ==
  IF names = {} THEN Refuse(c, "binds nothing")
  ELSE FoldLeft(LAMBDA d, x : Rebound1(Select(d, cond, then[x], else[x]), x), c, SetToSeq(names))
Joined(c, cond, before, then, else) ==
  IF c.bad # "" THEN c ELSE JoinAll([c EXCEPT !.locals = before], cond, SuppliedBy(before, then, else), then, else)
ElseArm(t, a, orelse) == Suite([a EXCEPT !.locals = t.locals], orelse)
Meet(t, a, b) == Joined(b, t.val, t.locals, a.locals, b.locals)
BothArms(t, a, orelse) == Meet(t, a, ElseArm(t, a, orelse))
IfOn(t, s) ==
  CASE t.bad # "" -> t
    [] t.bad = "" /\ t.val[1] = "host" -> Suite(t, IF t.val[2] # 0 THEN s.body ELSE s.orelse)
    [] OTHER -> IF IsCoord(t, t.val) THEN Refuse(t, "no branching on a Coordinate") ELSE BothArms(t, Suite(t, s.body), s.orelse)
IfRule(c, s) == IF StoresIn(s.body) \/ StoresIn(s.orelse) THEN Refuse(c, "a store under if") ELSE IfOn(Low(c, s.test), s)
Unroll(d, s, lo, hi) ==
  IF ~(lo[1] = "host" /\ hi[1] = "host") THEN Refuse(d, "kernel loops unroll")
  ELSE FoldLeft(LAMBDA e, k : Suite([e EXCEPT !.locals = (s.id :> Host(k)) @@ @], s.body), d, Steps(lo[2], hi[2]))
ForOn(d, s) == IF d.bad # "" THEN d ELSE Unroll(d, s, d.val[2][1], d.val[2][2])
ForRule(c, s) == ForOn(LowAll(c, s.bounds), s)
AssignOn(v, s) ==
  CASE v.bad # "" -> v
    [] v.bad = "" /\ s.pattern -> BindAll(v, s.names, v.val)
    [] OTHER -> Bind(v, s.names[1], v.val)
Assign(c, s) ==
  AssignOn(IF s.value.ast = "Call" /\ s.pattern /\ Lookup(c, s.value.id)[1] = "fn" THEN CallRule(c, s.value, Len(s.names))
           ELSE Low(c, s.value), s)
StoreOf(l, x) == IF l.bad # "" THEN l ELSE StoreTo(l, x, Front(l.val[2]), Last(l.val[2]))
StoreRule(c, s) == StoreOf(LowAll(c, Append(s.args, s.value)), s.id)
Stmt(c, s) ==
  CASE s.ast = "Assign" -> Assign(c, s)
    [] s.ast = "Store" -> StoreRule(c, s)
    [] s.ast = "If" -> IfRule(c, s)
    [] s.ast = "For" -> ForRule(c, s)
    [] s.ast = "Return" -> Low(c, s.value)
    [] OTHER -> Refuse(c, "kernels do not march")
-----------------------------------------------------------------------------
(* Compilation. *)

IsTensorArg(a) == a.is = "tensor"
\* A kernel fn, its arguments, the taps asked for and the geometry.
Begin(fn, args, geom, globals, made) ==
  LET tensors == SelectSeq([i \in DOMAIN args |-> i], LAMBDA i : IsTensorArg(args[i]))
      node(j) == [op |-> "core.param", args |-> <<>>, ty |-> TensorType(args[tensors[j]].frames), at |-> <<j>>]
      place(i) == CHOOSE j \in DOMAIN tensors : tensors[j] = i
      names == ToSet(fn.params)
      fns == {x \in names : ~IsTensorArg(args[IndexOf(fn.params, x)])}
      arg(x) == args[IndexOf(fn.params, x)].handle
  IN [nodes |-> [j \in DOMAIN tensors |-> node(j)], val |-> <<"none">>, bad |-> "", fn |-> fn, globals |-> globals,
      locals |-> [x \in names |-> IF x \in fns THEN Function(arg(x)) ELSE Node(place(IndexOf(fn.params, x)))],
      fnparams |-> [x \in fns |-> arg(x)], pname |-> [j \in DOMAIN tensors |-> <<"arg", fn.params[tensors[j]]>>],
      lattice |-> Len(tensors), geom |-> geom, grid |-> 0, recipes |-> {}, made |-> made, markers |-> {}, order |-> <<>>,
      claims |-> <<>>, invalid |-> {}, claimed |-> {}, tok |-> 0, stored |-> <<>>,
      uniforms |-> <<>>, size |-> 0, blocks |-> <<>>]
\* A requested tap is a parameter of its own, stored into after the rest.
OfType(c, ty) == Emit(c, "core.param", <<>>, ty, <<0>>)
StoreLast(p, v) == Ordered(p, p.val, v)
Tapped(c, name) ==
  CASE c.bad # "" -> c
    [] c.bad = "" /\ name \notin DOMAIN c.claims -> Refuse(c, IF name \in c.invalid THEN "an invalid tap" ELSE "no tap site")
    [] OTHER -> [StoreLast(OfType(c, NodeAt(c, c.claims[name]).ty), c.claims[name]) EXCEPT !.stored = Append(@, <<"tap", name>>)]
Ready(c, taps) ==
  CASE c.bad # "" -> c [] c.bad = "" /\ c.tok = 0 -> Refuse(c, "stores nothing") [] OTHER -> FoldLeft(Tapped, c, taps)
Compile(fn, args, taps, geom, globals, made) ==
  LET c == Begin(fn, args, geom, globals, made)
  IN IF Len(args) # Len(fn.params) THEN Refuse(c, "arity")
     ELSE IF \A i \in DOMAIN args : ~IsTensorArg(args[i]) THEN Refuse(c, "needs a tensor") ELSE Ready(Suite(c, fn.body), taps)
=============================================================================
