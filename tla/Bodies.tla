------------------------------- MODULE Bodies -------------------------------
(***************************************************************************)
(* Marker and reducer bodies (tensorlib producer.py, mdsl.py): functions   *)
(* of numbers, written in Python and never called, are lowered to trees    *)
(* (Slopes) over the places of their arguments.                            *)
(*                                                                         *)
(* How a Python body over tensors becomes a region (tensorlib dialect.py   *)
(* from _lookup to lower_body, lifting.py, the unit layer of assemblage.py *)
(* and the names of dsl naming.py).                                        *)
(*                                                                         *)
(* A body is never run: a form is lowered to a host value, a node of the   *)
(* region, or a tuple of them.  A helper is inlined, or called if it is    *)
(* given host values only.  Of the vocabulary, fold, random access by      *)
(* subscript, the methods that only touch charts, and calls of markers on  *)
(* numbers are left out, and so are comparisons of host values.            *)
(***************************************************************************)
EXTENDS Autodiff

-----------------------------------------------------------------------------
(* SYNTAX, of both kinds of body: a form, its detail, what it is made of    *)
(* and, of a call, its keyword arguments in order.                          *)

Form(e, d, sub) == [e |-> e, d |-> d, sub |-> sub, kw |-> <<>>]
Lit(x) == Form("lit", x, <<>>)       \* a float
Count1(x) == Form("int", x, <<>>)    \* an int
Var(id) == Form("name", id, <<>>)
Several(es) == Form("tuple", 0, es)
ItemOf(of, k) == Form("item", k, <<of>>)
Dot(of, field) == Form("dot", field, <<of>>)
Infix(op, l, r) == Form("infix", op, <<l, r>>)
NegOf(of) == Form("neg", 0, <<of>>)
CallOf(f, args) == Form("call", f, args)
CallWith(f, args, kw) == [CallOf(f, args) EXCEPT !.kw = kw]
\* name = be, or a, b = be; of no name at all, a statement that is a call.
Let(names, be) == [names |-> names, be |-> be]
Fn(code, params, body, result) ==
  [v |-> "fn", code |-> code, params |-> params, kwonly |-> <<>>, defaults |-> <<>>, body |-> body, result |-> result, free |-> <<>>]
With(fn, free) == [fn EXCEPT !.free = free]

-----------------------------------------------------------------------------
(* THE PRODUCER: a value is a tree, a tuple, or a record with its fields.   *)

Tree(t) == [v |-> "tree", tree |-> t]
Parts(vs) == [v |-> "tuple", of |-> vs]
RecordV(fields, vs) == [v |-> "record", of |-> vs, fields |-> fields]
Refused == [v |-> "refused"]
Trees(vs) == [j \in DOMAIN vs |-> vs[j].tree]
AllTrees(vs) == \A j \in DOMAIN vs : vs[j].v = "tree"
Primitives == {"add", "sub", "mul", "div", "neg", "maximum", "minimum", "where", "exp", "sqrt", "eq", "ne", "lt", "le", "gt", "ge"}
\* Captured numbers and literals are constants; what else is captured is
\* meaningful in calls only.
Lifted(v) == IF v.v = "host" THEN Tree(Const(v.is)) ELSE v
PrimOf(op, vs) == IF AllTrees(vs) /\ Pw(op) = Marker(op, Len(vs)) THEN Tree(Prim(op, Trees(vs))) ELSE Refused
\* The fields of a record are given by place, then by name.
Construct(fields, vs, given) ==
  LET All(n) == {vs[j] : j \in {j \in DOMAIN vs : fields[j] = n}} \cup {given[k][2] : k \in {k \in DOMAIN given : given[k][1] = n}}
  IN  IF Len(vs) + Len(given) = Len(fields) /\ \A j \in DOMAIN fields : All(fields[j]) # {}
      THEN RecordV(fields, [j \in DOMAIN fields |-> CHOOSE x \in All(fields[j]) : TRUE]) ELSE Refused
RECURSIVE Scalar(_, _)
Scalar(env, x) ==
  LET vs == [j \in DOMAIN x.sub |-> Scalar(env, x.sub[j])]
      given == [k \in DOMAIN x.kw |-> <<x.kw[k][1], Scalar(env, x.kw[k][2])>>]
      base == vs[1]
  IN  CASE \E j \in DOMAIN vs : vs[j].v = "refused" -> Refused
        [] x.e \in {"lit", "int"} -> Tree(Const(x.d))
        [] x.e = "name" -> IF x.d \in DOMAIN env THEN Lifted(env[x.d]) ELSE Refused
        [] x.e = "infix" -> PrimOf(x.d, vs)
        [] x.e = "neg" -> PrimOf("neg", vs)
        [] x.e = "tuple" -> Parts(vs)
        [] x.e = "item" -> IF base.v = "tuple" THEN base.of[x.d] ELSE Refused
        [] x.e = "dot" -> IF base.v = "record" /\ x.d \in Range(base.fields) THEN base.of[SelectInSeq(base.fields, LAMBDA n : n = x.d)]
                          ELSE Refused
        [] x.e = "call" -> IF x.d \in DOMAIN env /\ env[x.d].v = "class" THEN Construct(env[x.d].fields, vs, given)
                           ELSE IF x.d \in Primitives /\ x.kw = <<>> THEN PrimOf(x.d, vs) ELSE Refused
        [] OTHER -> Refused
Unpacked(env, names, v) ==
  IF Len(names) = 1 THEN names[1] :> v @@ env
  ELSE IF v.v \in {"tuple", "record"} /\ Len(v.of) = Len(names)
       THEN [n \in Range(names) |-> v.of[SelectInSeq(names, LAMBDA m : m = n)]] @@ env
       ELSE [n \in Range(names) |-> Refused] @@ env
Assigned(env, st) == Unpacked(env, st.names, Scalar(env, st.be))
\* lower: the trees of what the body returns, none of them if it is refused.
TreesOf(vs) == IF AllTrees(vs) THEN Trees(vs) ELSE <<>>
Members(v) == IF v.v \in {"tuple", "record"} THEN v.of ELSE <<v>>
LowerScalar(fn, bindings) ==
  LET env == [n \in Range(fn.params) |-> bindings[SelectInSeq(fn.params, LAMBDA m : m = n)]] @@ fn.free
  IN  IF Len(fn.params) # Len(bindings) THEN <<>> ELSE TreesOf(Members(Scalar(FoldLeft(Assigned, env, fn.body), fn.result)))

ScalarsAt(n, base) == [j \in 1 .. n |-> Tree(Arg(base + j))]
StateAt(fields, n, base) ==
  IF fields = <<>> THEN Parts(ScalarsAt(n, base)) ELSE RecordV(fields, ScalarsAt(n, base))

\* defmarker; <<>> if it is refused.
Sole(trees) == IF Len(trees) = 1 THEN trees ELSE <<>>
DefMarker(d) == Sole(LowerScalar(d.fn, ScalarsAt(Len(d.fn.params), 0)))
\* defreducer: the state is a record class or so many parts.
ReducerOf(d, k, lift, combine, project) ==
  IF Len(lift) = k /\ Len(combine) = k /\ Len(d.init) = k /\ project # <<>>
  THEN <<[state |-> k, element |-> d.element, lift |-> lift, combine |-> combine, init |-> d.init, project |-> project[1]]>> ELSE <<>>
DefReducer(d) ==
  LET k == d.state
  IN  ReducerOf(d, k, LowerScalar(d.lift, ScalarsAt(d.element, 0)),
                LowerScalar(d.combine, <<StateAt(d.fields, k, 0), StateAt(d.fields, k, k)>>),
                LowerScalar(d.project, IF d.fields = <<>> THEN ScalarsAt(k, 0) ELSE <<StateAt(d.fields, k, 0)>>))
Define(d) == IF d.v = "reducer" THEN DefReducer(d) ELSE DefMarker(d)

-----------------------------------------------------------------------------
(* WHAT A BODY MEANS: what Python makes of it, called with numbers. *)

RECURSIVE Called(_, _)
Num(x) == [v |-> "num", num |-> x]
Called(env, x) ==
  LET vs == [j \in DOMAIN x.sub |-> Called(env, x.sub[j])]
      named(n) == Called(env, x.kw[CHOOSE k \in DOMAIN x.kw : x.kw[k][1] = n][2])
      Math(op) == Num(Primitive(op, [j \in DOMAIN vs |-> vs[j].num]))
  IN  CASE x.e \in {"lit", "int"} -> Num(Lift(x.d))
        [] x.e = "name" -> IF env[x.d].v = "host" THEN Num(Lift(env[x.d].is)) ELSE env[x.d]
        [] x.e = "infix" -> Math(x.d)
        [] x.e = "neg" -> Math("neg")
        [] x.e = "tuple" -> Parts(vs)
        [] x.e = "item" -> vs[1].of[x.d]
        [] x.e = "dot" -> vs[1].of[CHOOSE j \in DOMAIN vs[1].fields : vs[1].fields[j] = x.d]
        [] x.d \in DOMAIN env -> LET fields == env[x.d].fields
                                 IN  RecordV(fields, [j \in DOMAIN fields |-> IF j \in DOMAIN vs THEN vs[j] ELSE named(fields[j])])
        [] OTHER -> Math(x.d)
BoundTo(names, v) ==
  IF Len(names) = 1 THEN names[1] :> v ELSE [n \in Range(names) |-> v.of[CHOOSE j \in DOMAIN names : names[j] = n]]
NumbersOf(v) == IF v.v = "num" THEN <<v.num>> ELSE [j \in DOMAIN v.of |-> v.of[j].num]
CallScalar(fn, args) ==
  LET bound == [n \in Range(fn.params) |-> args[CHOOSE j \in DOMAIN fn.params : fn.params[j] = n]]
  IN  NumbersOf(Called(FoldLeft(LAMBDA env, st : BoundTo(st.names, Called(env, st.be)) @@ env, bound @@ fn.free, fn.body), fn.result))
\* A reducer of a sequence of elements, each a tuple of numbers.
Numbers(xs) == [j \in DOMAIN xs |-> Num(xs[j])]
StateOf(d, xs) == IF d.fields = <<>> THEN Parts(Numbers(xs)) ELSE RecordV(d.fields, Numbers(xs))
CombinedAll(d, lifted) ==
  FoldLeft(LAMBDA s, x : CallScalar(d.combine, <<StateOf(d, s), StateOf(d, x)>>), Head(lifted), Tail(lifted))
Projected(d, end) == CallScalar(d.project, IF d.fields = <<>> THEN Numbers(end) ELSE <<StateOf(d, end)>>)[1]
CallReducer(d, elements) ==
  Projected(d, CombinedAll(d, [j \in DOMAIN elements |-> CallScalar(d.lift, Numbers(elements[j]))]))

-----------------------------------------------------------------------------
(* FORMS of these bodies only, and the values they are lowered to.  Host    *)
(* values are numbers, whole or not, and texts; a leaf is a declared param, *)
(* told from others by obj; a site is a place in the scope.                 *)

Text(s) == Form("text", s, <<>>)
\* A method called on a value; an if or a boolean operator, which refuse.
Send(of, method, args, kw) == [Form("send", method, <<of>> \o args) EXCEPT !.kw = kw]
Branch(es) == Form("branch", 0, es)

Host(x) == [v |-> "host", is |-> x, whole |-> FALSE]
HostInt(x) == [v |-> "host", is |-> x, whole |-> TRUE]
TextOf(s) == [v |-> "text", is |-> s]
NodeAt(i) == [v |-> "node", at |-> i]
ParamOf(obj, name, ty) == [v |-> "leaf", obj |-> obj, name |-> name, ty |-> ty]
Site(name, mode, key) == [v |-> "site", name |-> name, mode |-> mode, key |-> key]
MarkerOf(name, def) == [v |-> "marker", name |-> name, def |-> def]
IsNode(v) == v.v = "node"
IsHost(v) == v.v = "host"
Words == {"pointwise", "reduce", "scan", "repeat_like", "const_like", "iota", "extent", "take", "scatter_add", "argsort",
          "argtopk", "contract", "tap", "dropout"}
Globals == [w \in Words |-> [v |-> "vocab", name |-> w]]
             @@ [p \in Primitives |-> MarkerOf(p, 0)]
             @@ [f \in {"sum", "mean", "max", "min", "prod"} |-> TextOf(f)]

\* A lowering in progress: the region, the names in scope, the name each node
\* was first bound to, the leaves adopted in order, the node of each tap, and
\* what the last form came to.
Fresh1(r, registry) ==
  [r |-> r, registry |-> registry, locals |-> <<>>, free |-> <<>>, hints |-> <<>>, leaves |-> <<>>, taps |-> <<>>, ok |-> TRUE,
   out |-> Refused]
Out(c, v) == [c EXCEPT !.out = v]
Fail(c) == [c EXCEPT !.ok = FALSE, !.out = Refused]

Knows(c, id) == id \in DOMAIN c.locals \cup DOMAIN c.free \cup DOMAIN Globals
Resolve(c, id) == IF id \in DOMAIN c.locals THEN c.locals[id] ELSE IF id \in DOMAIN c.free THEN c.free[id] ELSE Globals[id]

\* A captured leaf becomes an input, once for each object.
Within(c, r) == [c EXCEPT !.r = r, !.out = NodeAt(New(r))]
Adopt(c, leaf) ==
  LET known == SelectInSeq(c.leaves, LAMBDA l : l.obj = leaf.obj)
      at == New(c.r) + 1
  IN  IF known # 0 THEN Out(c, NodeAt(c.leaves[known].at))
      ELSE Within([c EXCEPT !.leaves = Append(@, [obj |-> leaf.obj, name |-> leaf.name, at |-> at])],
                  [c.r EXCEPT !.nodes = Append(@, Param(leaf.ty))])

-----------------------------------------------------------------------------
(* EMITTING *)

EmitOn(c, o, vs) ==
  LET args == [j \in DOMAIN vs |-> vs[j].at]
  IN  IF (\A j \in DOMAIN vs : IsNode(vs[j])) /\ CanEmit(c.r, o, args, <<>>)
      THEN Within(c, Emit(c.r, o, args, <<>>)) ELSE Fail(c)
\* Host numbers among the operands become constants.
OutAfter(d, acc) == [d EXCEPT !.out = Append(acc.out, @)]
LiftHost(acc, v) ==
  IF ~acc.ok \/ IsNode(v) THEN [acc EXCEPT !.out = Append(@, v)]
  ELSE IF IsHost(v) THEN OutAfter(EmitOn(acc, ScalarOp(v.is), <<>>), acc)
  ELSE [Fail(acc) EXCEPT !.out = acc.out]
LiftHosts(c, vs) == FoldLeft(LiftHost, Out(c, <<>>), vs)
AppliedTo(d, f) == IF d.ok THEN EmitOn(d, PwOp(f), d.out) ELSE d
Applied(c, f, vs) == AppliedTo(LiftHosts(c, vs), f)
HostMath(op, vs) ==
  LET whole == op \in {"add", "sub", "mul", "neg"} /\ \A j \in DOMAIN vs : vs[j].whole
      x == vs[1].is
  IN  IF whole THEN HostInt(CASE op = "add" -> x + vs[2].is [] op = "sub" -> x - vs[2].is [] op = "mul" -> x * vs[2].is [] OTHER -> -x)
      ELSE Host(Primitive(op, [j \in DOMAIN vs |-> Lift(vs[j].is)])[1])
HostOps == {"add", "sub", "mul", "div", "neg"}
\* An operator: of tensors a node, of host numbers a host number.
Operate(c, op, vs) ==
  CASE \E j \in DOMAIN vs : IsNode(vs[j]) -> Applied(c, Pw(op), vs)
    [] op \in HostOps /\ \A j \in DOMAIN vs : IsHost(vs[j]) -> Out(c, HostMath(op, vs))
    [] OTHER -> Fail(c)

\* Names stand for what the registry has under them.
TreeNamed(c, name) == IF name \in DOMAIN c.registry.markers THEN c.registry.markers[name] ELSE Pw(name)
HasMarker(c, v) == v.v = "marker" /\ v.name \in Primitives \cup DOMAIN c.registry.markers
DimsOf(v) == IF v.v = "text" THEN <<v.is>> ELSE [j \in DOMAIN v.of |-> v.of[j].is]
Domain(v) == IF IsHost(v) THEN 0 .. v.is - 1 ELSE v.of[1].is .. v.of[2].is - 1
Composite(c, f) == f.v = "marker" /\ f.name \in DOMAIN c.registry.reducers
FoldedOver(c, f, dims) ==
  IF Composite(c, f) THEN [op |-> "collapse", by |-> c.registry.reducers[f.name], dims |-> dims] ELSE [op |-> "reduce", f |-> f.is, dims |-> dims]
ScannedOver(c, f, dim) ==
  IF Composite(c, f) THEN [op |-> "sweep", by |-> c.registry.reducers[f.name], dim |-> dim] ELSE [op |-> "scan", f |-> f.is, dim |-> dim]

\* The layout methods, from their arguments and their keyword arguments.
Methods == {"slice", "select", "shift", "rename", "repeat", "flip", "split", "merge", "diagonal", "pad", "strip_charts", "simplify"}
MethodOp(name, a, kw) ==
  LET n == kw[1][1]
      x == kw[1][2]
      span == Domain(x)
  IN  CASE name = "slice" -> SliceOp(n, x.of[1].is, x.of[2].is)
        [] name = "select" -> [op |-> "select", points |-> [m \in {kw[k][1] : k \in DOMAIN kw} |->
                                 kw[CHOOSE k \in DOMAIN kw : kw[k][1] = m][2].is]]
        [] name = "shift" -> ShiftOp(n, x.is)
        [] name = "rename" -> RenameOp(n, x.is)
        [] name = "repeat" -> RepeatOp(a[1].is, Domain(a[2]))
        [] name = "flip" -> FlipOp(a[1].is)
        [] name = "split" -> [op |-> "split", dim |-> a[1].is, parts |-> [k \in DOMAIN kw |->
                                LET d == Domain(kw[k][2]) IN [name |-> kw[k][1], start |-> Min(d), stop |-> Max(d) + 1]]]
        [] name = "merge" -> [op |-> "merge", parts |-> DimsOf(a[1]), new |-> a[2].is, start |-> 0]
        [] name = "diagonal" -> [op |-> "diagonal", parts |-> Range(DimsOf(a[1])), new |-> a[2].is]
        [] name = "pad" -> [op |-> "pad", dim |-> n, lo |-> Min(span), hi |-> Max(span) + 1, fill |-> a[1].is]
        [] OTHER -> [op |-> name]

-----------------------------------------------------------------------------
(* LOWERING *)

\* _host: what may stand where only build-time values may.
RECURSIVE Structural(_, _)
Structural(c, x) ==
  LET All == \A j \in DOMAIN x.sub : Structural(c, x.sub[j])
      Keys == \A k \in DOMAIN x.kw : Structural(c, x.kw[k][2])
      f == Resolve(c, x.d)
  IN  CASE x.e \in {"lit", "int", "text"} -> TRUE
        [] x.e = "name" -> Knows(c, x.d) /\ f.v \notin {"node", "leaf"} /\ (f.v = "tuple" => \A j \in DOMAIN f.of : ~IsNode(f.of[j]))
        [] x.e = "infix" -> x.d \in HostOps /\ All
        [] x.e \in {"tuple", "neg", "dot"} -> All
        [] x.e = "call" -> Knows(c, x.d) /\ IF f.v = "vocab" /\ f.name = "extent" THEN Structural(c, x.sub[2]) ELSE f.v = "fn" /\ All /\ Keys
        [] OTHER -> FALSE
\* Which arguments of the vocabulary are structural slots.
HostSlots(name) ==
  CASE name \in {"reduce", "scan"} -> {1, 3}
    [] name \in {"iota", "extent", "tap"} -> {2}
    [] name = "dropout" -> {2, 3}
    [] name = "contract" -> {3}
    [] OTHER -> {}
SlotsFit(c, name, x) ==
  /\ \A j \in HostSlots(name) \cap DOMAIN x.sub : Structural(c, x.sub[j])
  /\ \A k \in DOMAIN x.kw : Structural(c, x.kw[k][2])

\* What the vocabulary makes of lowered arguments a and keyword arguments k.
TakeOp(k) == [op |-> "take", dim |-> k["dim"].is]
ScatterOp(c, idx, k) ==
  LET span == Domain(k["extent"])
  IN  [op |-> "scatter_add", dim |-> k["dim"].is, lo |-> Min(span), hi |-> Max(span) + 1,
       over |-> IF "over" \in DOMAIN k THEN Range(DimsOf(k["over"])) ELSE DOMAIN c.r.nodes[idx.at].ty]
BoxOf(c, v) == Box(c, v.at)
AlignedTo(c, x, y) == EmitOn(c, [op |-> "repeat_like"], <<x, y>>)
SumOver(product, dims) == IF product.ok THEN EmitOn(product, SumOp(dims), <<product.out>>) ELSE product
ContractBoth(c, left, right, dims) ==
  IF left.ok /\ right.ok THEN SumOver(EmitOn(right, Mul, <<left.out, right.out>>), dims) ELSE Fail(c)
ContractLeft(c, left, a, dims) == ContractBoth(c, left, AlignedTo(left, a[2], a[1]), dims)
Contracted(c, a, dims) == ContractLeft(c, AlignedTo(c, a[1], a[2]), a, dims)
Hint(c, name) == IF IsNode(c.out) /\ c.out.at \notin DOMAIN c.hints THEN [c EXCEPT !.hints = (c.out.at :> name) @@ @] ELSE c
\* dropout: what is drawn below the rate is zero, the rest is made up for it.
DropLines == <<<<"mask", "lt", <<"u", "rate">>>>, <<"keep", "div", <<"x", "rest">>>>, <<"drop", "where", <<"mask", "zero", "keep">>>>>>
NamedLine(acc, name, c) == [c |-> c, env |-> (name :> c.out) @@ acc.env]
DropLine(acc, l) == NamedLine(acc, l[1], Hint(Applied(acc.c, Pw(l[2]), [j \in DOMAIN l[3] |-> acc.env[l[3][j]]]), l[1]))
DropFrom(u, x, rate) ==
  FoldLeft(DropLine, [c |-> u, env |-> [u |-> u.out, x |-> x, rate |-> rate, zero |-> Host(0), rest |-> HostMath("sub", <<Host(1), rate>>)]],
           DropLines).c
Dropout(c, x, rate, site) ==
  IF site.mode = "eval" THEN Out(c, x) ELSE DropFrom(Hint(EmitOn(c, [op |-> "random", key |-> site.key], <<x>>), "u"), x, rate)
\* The words that are one operation each.
WordOp(c, name, a, k, dims) ==
  CASE name = "reduce" -> FoldedOver(c, a[1], DimsOf(dims))
    [] name = "scan" -> ScannedOver(c, a[1], dims.is)
    [] name = "iota" -> [op |-> "iota", dim |-> a[2].is]
    [] name = "take" -> TakeOp(k)
    [] name = "argsort" -> [op |-> "argsort", dim |-> k["dim"].is]
    [] name = "argtopk" -> [op |-> "argtopk", dim |-> k["dim"].is, k |-> k["k"].is, new |-> k["k_name"].is]
    [] name = "repeat_like" -> [op |-> name]
WordArgs(name, a) ==
  CASE name \in {"reduce", "scan"} -> IF a[2].v = "tuple" THEN a[2].of ELSE <<a[2]>>
    [] name = "iota" -> <<a[1]>>
    [] OTHER -> a
ScatterOn(d, idx, k) == EmitOn(d, ScatterOp(d, idx, k), <<d.out, idx>>)
Speak(c, name, a, k) ==
  LET dims == IF 3 \in DOMAIN a THEN a[3] ELSE IF "axis" \in DOMAIN k THEN k["axis"] ELSE k["dims"]
      Tensors1(S) == \A j \in S : j \in DOMAIN a /\ IsNode(a[j])
      arity == [take |-> 2, argsort |-> 1, argtopk |-> 1]
  IN  CASE name \in {"reduce", "scan"} /\ a[1].v # "text" /\ ~Composite(c, a[1]) -> Fail(c)
        [] name \in {"reduce", "scan", "repeat_like", "iota"} \/ (name \in DOMAIN arity /\ Len(a) = arity[name]) ->
             EmitOn(c, WordOp(c, name, a, k, dims), WordArgs(name, a))
        [] name = "extent" -> IF Tensors1({1}) /\ a[2].is \in DOMAIN BoxOf(c, a[1]) THEN Out(c, HostInt(Extent(BoxOf(c, a[1]), a[2].is))) ELSE Fail(c)
        [] name = "scatter_add" /\ Len(a) = 2 /\ Tensors1({2}) ->
             ScatterOn(IF IsHost(a[1]) THEN EmitOn(c, ConstOp(a[1].is, BoxOf(c, a[2])), <<>>) ELSE Out(c, a[1]), a[2], k)
        [] name = "contract" /\ Tensors1({1, 2}) -> Contracted(c, a, DimsOf(dims))
        [] name = "tap" /\ Tensors1({1}) /\ a[2].v = "site" -> [Out(c, a[1]) EXCEPT !.taps = (a[2].name :> a[1].at) @@ @]
        [] name = "dropout" /\ Tensors1({1}) /\ a[3].v = "site" -> Dropout(c, a[1], a[2], a[3])
        [] OTHER -> Fail(c)

ChildOf(c, f, bound) == [c EXCEPT !.locals = bound, !.free = f.free]
\* How the params of a helper are bound: by place, by name, by default.
Binding(f, vs, given) ==
  LET placed == [n \in Range(SubSeq(f.params, 1, Min({Len(vs), Len(f.params)}))) |-> vs[CHOOSE j \in DOMAIN vs : f.params[j] = n]]
      others == (Range(f.params) \cup Range(f.kwonly)) \ DOMAIN placed
      defaulted == f.defaults @@ <<>>
  IN  [ok |-> Len(vs) <= Len(f.params) /\ DOMAIN given \subseteq others /\ others \subseteq DOMAIN given \cup DOMAIN f.defaults,
       bound |-> placed @@ [n \in others \cap (DOMAIN given \cup DOMAIN f.defaults) |-> (given @@ defaulted)[n]]]

RECURSIVE Low(_, _), Body(_, _), LowKw(_, _)
NamedAfter(d, acc, name) == [d EXCEPT !.out = (name :> @) @@ acc.out]
LowAll(c, xs) == FoldLeft(LAMBDA acc, x : OutAfter(Low(acc, x), acc), Out(c, <<>>), xs)
LowKw(c, x) == FoldLeft(LAMBDA acc, kw : NamedAfter(Low(acc, kw[2]), acc, kw[1]), Out(c, <<>>), x.kw)
\* What a form comes to as its parts do, the parts in order.
Returned(c, d) == [d EXCEPT !.locals = c.locals, !.free = c.free]
Inline(c, f, vs, given) ==
  LET b == Binding(f, vs, given) IN IF b.ok THEN Returned(c, Body(ChildOf(c, f, b.bound), f)) ELSE Fail(c)
\* A helper given host values only is called, so that nothing is lowered.
HostOnly(c, d) == IF d.ok /\ New(d.r) = New(c.r) /\ ~IsNode(d.out) THEN d ELSE Fail(c)
HelperCall(c, x, both, f, args) ==
  IF ~both.ok THEN both
  ELSE IF Structural(c, x) THEN HostOnly(both, Inline(both, f, args.out, both.out)) ELSE Inline(both, f, args.out, both.out)
WordCall(c, x, both, name, args) == IF SlotsFit(c, name, x) /\ both.ok THEN Speak(both, name, args.out, both.out) ELSE Fail(c)
Called1(c, x, f, args, both) == IF f.v = "vocab" THEN WordCall(c, x, both, f.name, args) ELSE HelperCall(c, x, both, f, args)
CalledWith(c, x, f, args) == Called1(c, x, f, args, LowKw(args, x))
AppliedAll(rest, f) == IF rest.ok THEN Applied(rest, f, rest.out) ELSE rest
MapCall(c, x, marker) ==
  IF ~Knows(c, x.sub[1].d) \/ ~HasMarker(c, marker) THEN Fail(c)
  ELSE AppliedAll(LowAll(c, Tail(x.sub)), TreeNamed(c, marker.name))
ConstOf(c, value, ref) == IF ref.ok /\ IsNode(ref.out) THEN EmitOn(ref, ConstOp(value.out.is, BoxOf(ref, ref.out)), <<>>) ELSE Fail(c)
ConstCall(c, x, value) ==
  IF ~Structural(c, x.sub[2]) \/ ~value.ok \/ value.out.v # "host" \/ ~value.out.whole THEN value
  ELSE ConstOf(c, value, Low(value, x.sub[1]))
CallForm(c, x) ==
  LET f == Resolve(c, x.d)
  IN  CASE ~Knows(c, x.d) \/ f.v \notin {"vocab", "fn"} -> Fail(c)
        [] f.v = "vocab" /\ f.name = "pointwise" -> MapCall(c, x, Resolve(c, x.sub[1].d))
        [] f.v = "vocab" /\ f.name = "const_like" -> ConstCall(c, x, Low(c, x.sub[2]))
        [] OTHER -> CalledWith(c, x, f, LowAll(c, x.sub))
Sent(c, x, args, both) ==
  LET structural == (\A j \in 2 .. Len(x.sub) : Structural(c, x.sub[j])) /\ \A k \in DOMAIN x.kw : Structural(c, x.kw[k][2])
      pairs == [k \in DOMAIN x.kw |-> <<x.kw[k][1], both.out[x.kw[k][1]]>>]
  IN  IF both.ok /\ structural /\ x.d \in Methods THEN EmitOn(both, MethodOp(x.d, Tail(args.out), pairs), <<Head(args.out)>>) ELSE Fail(c)
SentWith(c, x, args) == Sent(c, x, args, LowKw(args, x))
SendForm(c, x) == SentWith(c, x, LowAll(c, x.sub))
PartOf(c, x, d) ==
  CASE ~d.ok -> d
    [] x.e = "item" /\ d.out.v = "tuple" -> IF x.d \in DOMAIN d.out.of THEN Out(d, d.out.of[x.d]) ELSE Fail(c)
    [] x.e = "dot" /\ d.out.v = "record" /\ x.d \in Range(d.out.fields) ->
         Out(d, d.out.of[SelectInSeq(d.out.fields, LAMBDA n : n = x.d)])
    [] OTHER -> Fail(c)
PartForm(c, x) == PartOf(c, x, Low(c, x.sub[1]))
GroupForm(x, d) ==
  IF ~d.ok THEN Fail(d) ELSE IF x.e = "tuple" THEN Out(d, Parts(d.out)) ELSE Operate(d, IF x.e = "neg" THEN "neg" ELSE x.d, d.out)
NameForm(c, x) ==
  IF ~Knows(c, x.d) THEN Fail(c)
  ELSE LET v == Resolve(c, x.d) IN IF v.v = "leaf" THEN Adopt(c, v) ELSE Out(c, v)
Low(c, x) ==
  IF ~c.ok THEN c
  ELSE CASE x.e = "lit" -> Out(c, Host(x.d))
         [] x.e = "int" -> Out(c, HostInt(x.d))
         [] x.e = "text" -> Out(c, TextOf(x.d))
         [] x.e = "name" -> NameForm(c, x)
         [] x.e \in {"tuple", "infix", "neg"} -> GroupForm(x, LowAll(c, x.sub))
         [] x.e \in {"item", "dot"} -> PartForm(c, x)
         [] x.e = "call" -> CallForm(c, x)
         [] x.e = "send" -> SendForm(c, x)
         [] OTHER -> Fail(c)
\* Names are bound as far as there are values for them.
NameTo(c, name, v) == [Hint(Out(c, v), name) EXCEPT !.locals = (name :> v) @@ @]
Named2(d, names) ==
  CASE ~d.ok \/ Len(names) = 0 -> d
    [] Len(names) = 1 -> NameTo(d, names[1], d.out)
    [] d.out.v = "tuple" -> FoldLeft(LAMBDA acc, j : NameTo(acc, names[j], d.out.of[j]), d, [j \in 1 .. Min({Len(names), Len(d.out.of)}) |-> j])
    [] OTHER -> Fail(d)
Statement(c, st) == Named2(Low(c, st.be), st.names)
Body(c, f) == Low(FoldLeft(LAMBDA acc, st : IF acc.ok THEN Statement(acc, st) ELSE acc, c, f.body), f.result)

-----------------------------------------------------------------------------
(* REGIONS FROM BODIES *)

\* The inputs before the rest, in the order in which they were met; out are
\* the nodes it yields.
Moved2(r, out, order, inputs) ==
  LET Place(i) == CHOOSE j \in DOMAIN order : order[j] = i
  IN  [r |-> [params |-> [j \in 1 .. inputs |-> r.nodes[order[j]].ty],
              nodes |-> [j \in DOMAIN order |-> [r.nodes[order[j]] EXCEPT !.args = [k \in DOMAIN @ |-> Place(@[k])]]],
              out |-> [j \in DOMAIN out |-> Place(out[j])]],
       place |-> [i \in DOMAIN order |-> Place(i)]]
Hoisted(r, out) ==
  LET all == [i \in DOMAIN r.nodes |-> i]
      inputs == SelectSeq(all, LAMBDA i : r.nodes[i].o.op = "param")
  IN  Moved2(r, out, inputs \o SelectSeq(all, LAMBDA i : r.nodes[i].o.op # "param"), Len(inputs))
\* Namer.derive: the hint, or the hint and the first number that is free.
Derive(hint, taken) ==
  IF hint \notin taken THEN hint
  ELSE LET Numbered(k) == hint \o ToString(k)
       IN  Numbered(CHOOSE k \in 1 .. Cardinality(taken) : Numbered(k) \notin taken /\ \A j \in 1 .. k - 1 : Numbered(j) \in taken)
BaseName(op) == CASE op = "collapse" -> "reduce" [] op = "sweep" -> "scan" [] OTHER -> op
\* The inputs claim their names; the rest derive theirs, as they are walked.
RegionNames(r, claimed, hints) ==
  LET Step(acc, i) ==
        IF i \in DOMAIN acc \/ IsScalar(r.nodes[i]) THEN acc
        ELSE (i :> Derive(IF i \in DOMAIN hints THEN hints[i] ELSE BaseName(r.nodes[i].o.op), Range(acc))) @@ acc
  IN  FoldLeft(Step, [i \in DOMAIN claimed |-> claimed[i]] @@ <<>>, Walk(r))
HintsAt(c, place) == [i \in {place[n] : n \in DOMAIN c.hints} |-> c.hints[CHOOSE n \in DOMAIN c.hints : place[n] = i]]

\* lift_step: structural params are bound to host values, the others to boxes.
StepStart(f, inputs, boxes, host, registry) ==
  [Fresh1(Start([j \in DOMAIN inputs |-> boxes[inputs[j]]]), registry) EXCEPT
     !.locals = [n \in Range(f.params) |-> IF n \in DOMAIN host THEN host[n] ELSE NodeAt(CHOOSE j \in DOMAIN inputs : inputs[j] = n)],
     !.free = f.free]
StepNamed(h, inputs, names) ==
  [ok |-> TRUE, r |-> h.r, inputs |-> inputs, outputs |-> [j \in DOMAIN h.r.out |-> names[h.r.out[j]]]]
StepHoisted(d, h, inputs) == StepNamed(h, inputs, RegionNames(h.r, inputs, HintsAt(d, h.place)))
StepFrom(d, outs, inputs) ==
  IF ~d.ok \/ (\E j \in DOMAIN outs : ~IsNode(outs[j]) \/ IsScalar(d.r.nodes[outs[j].at])) \/ d.leaves # <<>> \/ d.taps # <<>>
  THEN [ok |-> FALSE] ELSE StepHoisted(d, Hoisted(d.r, [j \in DOMAIN outs |-> outs[j].at]), inputs)
StepOf1(d, inputs) == StepFrom(d, IF d.out.v = "tuple" THEN d.out.of ELSE <<d.out>>, inputs)
Step1Of(f, boxes, host, registry) ==
  LET inputs == SelectSeq(f.params, LAMBDA n : n \notin DOMAIN host)
  IN  StepOf1(Body(StepStart(f, inputs, boxes, host, registry), f), inputs)
=============================================================================
