------------------------------ MODULE Lowering ------------------------------
(***************************************************************************)
(* Syntax to IR (dsl lower.py), by the rules of the base language          *)
(* (value.py), its derivatives (derivative.py) and batteries               *)
(* (intrinsics.py), with the types of ops.py and the keys of ir.py.        *)
(*                                                                         *)
(* A piece of syntax is a record named by its class in Python's ast.  A    *)
(* build is a record: the nodes emitted, in order, each known by its place *)
(* ("is"); the node a rule returned (val, 0 for None); and the Lowerer     *)
(* that runs.  A rule that raises leaves ok FALSE.  Indices start at 1,    *)
(* and provenance is left out.                                             *)
(***************************************************************************)
EXTENDS Kinds, Slopes, FiniteSets, TLC

CONSTANTS Vocabulary,   \* the overloads a program adds: record classes, functions
          Methods       \* <<class, name>> -> the method of a record

Lit(v) == [ast |-> "Constant", value |-> v]
Var(x) == [ast |-> "Name", id |-> x]
Bin(op, l, r) == [ast |-> "BinOp", op |-> op, args |-> <<l, r>>]
Neg(e) == [ast |-> "UnaryOp", args |-> <<e>>]
Logic(op, es) == [ast |-> "BoolOp", op |-> op, args |-> es]
Chain(ops, es) == [ast |-> "Compare", ops |-> ops, args |-> es]
Ternary(c, a, b) == [ast |-> "IfExp", args |-> <<c, a, b>>]
Tup(es) == [ast |-> "Tuple", args |-> es]
Item(e, i) == [ast |-> "Subscript", args |-> <<e>>, index |-> i]
Dot(e, name) == [ast |-> "Attribute", args |-> <<e>>, name |-> name]
Call(f, es) == [ast |-> "Call", func |-> f, args |-> es]
Send(e, name, es) == [ast |-> "Send", name |-> name, args |-> es, self |-> e]
Let(xs, e) == [ast |-> "Assign", names |-> xs, value |-> e]
Update(x, op, e) == [ast |-> "AugAssign", name |-> x, op |-> op, value |-> e]
Return(e) == [ast |-> "Return", value |-> e]
If(c, a, b) == [ast |-> "If", test |-> c, body |-> a, orelse |-> b]
For(x, bounds, body) == [ast |-> "For", name |-> x, bounds |-> bounds, body |-> body]
Break == [ast |-> "Break"]

IntValue(n) == [is |-> "int", n |-> n]
BoolValue(b) == [is |-> "bool", n |-> IF b THEN 1 ELSE 0]
FloatValue(n) == [is |-> "float", n |-> n]
i64 == Scalar("i64")
f64 == Scalar("f64")
boolean == Scalar("bool")
IsFloat(t) == t = f64

\* A jitted function: its parameters, its captures by name, its body.
Fn(params, env, body) ==
  [is |-> "handle", params |-> params, env |-> env, captures |-> Each(LAMBDA c : c.value, env), body |-> body,
   fntype |-> FnType("fn", Each(LAMBDA c : TypeOf(c.value), env))]
-----------------------------------------------------------------------------
(* OPS: the types of results; NoType where the rule raises. *)

Arith == {"add", "sub", "mul", "div", "mod"}
Unary == {"exp", "abs", "floor", "stop_gradient"}
NoType == [type |-> "none"]
Strict(ts, t) == IF ts[1] = ts[2] THEN t ELSE NoType
TypeRule(op, ts, attr, yields) ==
  CASE op \in Arith -> IF ts[1].type = "scalar" THEN Strict(ts, ts[1]) ELSE NoType
    [] op = "neg" -> ts[1]
    [] op = "cmp" -> Strict(ts, boolean)
    [] op = "select" -> IF ts[1] = boolean THEN Strict(Tail(ts), ts[2]) ELSE NoType
    [] op = "tuple" -> Tuple(ts)
    [] op = "extract" -> IF ts[1].type = "tuple" /\ attr \in DOMAIN ts[1].elems THEN ts[1].elems[attr] ELSE NoType
    [] op = "cast" -> attr
    [] op = "if" -> Strict(yields, yields[1])
    [] op = "for" -> ts[3]
    [] op \in Unary -> IF IsFloat(ts[1]) THEN ts[1] ELSE NoType
    [] OTHER -> Strict(ts, ts[1])

-----------------------------------------------------------------------------
(* IR: a node is known by its place; its key leaves out places.  The keys   *)
(* of args and regions are the places of the first nodes with those keys.   *)

Region(params, out) == [params |-> params, out |-> out]
KeyOf(st, n) == st.nodes[n].first
KeyAll(st, ns) == Each(LAMBDA n : KeyOf(st, n), ns)
Key(st, op, type, attr, args, regions) ==
  <<op, type, attr, KeyAll(st, args), Each(LAMBDA r : <<KeyAll(st, r.params), KeyOf(st, r.out)>>, regions)>>

Refuse(st) == [st EXCEPT !.ok = FALSE, !.val = 0]
\* The place of the first node with a key, the next place if there is none.
FirstWith(nodes, key) ==
  LET same == {i \in DOMAIN nodes : nodes[i].key = key}
  IN  IF same = {} THEN Len(nodes) + 1 ELSE CHOOSE i \in same : \A j \in same : i <= j
PutAs(st, op, args, attr, regions, type, key) ==
  [st EXCEPT !.val = Len(st.nodes) + 1,
             !.nodes = Append(@, [op |-> op, type |-> type, args |-> args, attr |-> attr, regions |-> regions,
                                  key |-> key, first |-> FirstWith(@, key)])]
Put(st, op, args, attr, regions, type) ==
  IF ~st.ok \/ type = NoType THEN Refuse(st)
  ELSE PutAs(st, op, args, attr, regions, type, Key(st, op, type, attr, args, regions))
TypeAt(st, n) == st.nodes[n].type
EmitIn(st, op, args, attr, regions) ==
  IF ~st.ok THEN st
  ELSE Put(st, op, args, attr, regions,
           TypeRule(op, Each(LAMBDA a : TypeAt(st, a), args), attr, Each(LAMBDA r : TypeAt(st, r.out), regions)))
Emit(st, op, args, attr) == EmitIn(st, op, args, attr, <<>>)
Const0(st, v, type) == Put(st, "const", <<>>, v, <<>>, type)
Param(st, index, type) == Put(st, "param", <<>>, index, <<>>, type)
\* A Lowerer counts its binders under its prefix.
Binder(st, type) ==
  Param([st EXCEPT !.binders = @ + 1], <<"b">> \o st.prefix \o <<st.binders>>, type)

-----------------------------------------------------------------------------
(* THE DRIVER *)

RECURSIVE Lower(_, _)
RECURSIVE Do(_, _)
\* A rule on each of several things in turn, and the nodes it returned (vals).
Gathered(s, r) == [r EXCEPT !.vals = Append(s.vals, r.val)]
InTurn(st, Rule(_, _), xs) == FoldLeft(LAMBDA s, x : Gathered(s, Rule(s, x)), [st EXCEPT !.vals = <<>>], xs)
LowerAll(st, es) == InTurn(st, LAMBDA s, e : Lower(s, e), es)
EmitAll(s, op, attr) == Emit(s, op, s.vals, attr)
\* A statement binds, and returns nothing.
Bind(st, x, n) == IF st.ok THEN [st EXCEPT !.locals = (x :> n) @@ @, !.val = 0] ELSE st

Slots(st, x) == {i \in DOMAIN st.handle.env : st.handle.env[i].name = x}
Known(st, x) == x \in DOMAIN st.locals \/ Slots(st, x) # {}
Captured(st, x) == LET i == CHOOSE j \in Slots(st, x) : TRUE IN st.handle.env[i].value
IsCallee(st, x) == x \notin DOMAIN st.locals /\ Slots(st, x) # {} /\ Captured(st, x).is = "handle"
Resolve(st, x) ==
  IF x \in DOMAIN st.locals THEN [st EXCEPT !.val = st.locals[x]]
  ELSE IF Slots(st, x) = {} THEN Refuse(st)
  ELSE Put(st, "env", <<>>, Append(st.prefix, CHOOSE i \in Slots(st, x) : TRUE), <<>>, TypeOf(Captured(st, x)))

\* The statements up to the first that returns a value.
Returned(end) == IF end.val = 0 THEN Refuse(end) ELSE end
RunBody(st, body) == Returned(FoldLeft(LAMBDA s, stmt : IF s.val # 0 THEN s ELSE Do(s, stmt), [st EXCEPT !.val = 0], body))
WithParams(st, h, args) ==
  [st EXCEPT !.handle = h, !.locals = [x \in Range(h.params) |-> args[CHOOSE i \in DOMAIN args : h.params[i] = x]]]
Left(st, sub) == [sub EXCEPT !.handle = st.handle, !.prefix = st.prefix, !.locals = st.locals, !.binders = st.binders]
Inline(st, h, index, args) ==
  IF ~st.ok \/ Len(h.params) # Len(args) THEN Refuse(st)
  ELSE Left(st, RunBody(WithParams([st EXCEPT !.prefix = Append(@, index), !.binders = 0], h, args), h.body))

-----------------------------------------------------------------------------
(* DERIVATIVES: forward, over the nodes there are; 0 is an exact zero. *)

Preds == {"eq", "ne", "le", "lt", "ge", "gt"}
Differentiable == {"add", "sub", "neg", "mul", "div", "select", "maximum", "minimum"} \cup Unary
Row(op) == Table(IF op = "select" THEN "where" ELSE op)

RECURSIVE Splice(_, _, _, _)
\* The condition of a where is a node itself: its op is taken for a predicate.
PredOf(st, c) == IF Len(c.args) < 2 THEN Refuse(st) ELSE Emit(st, "cmp", SubSeq(c.args, 1, 2), c.op)
SpliceAll(st, trees, args, t) == InTurn(st, LAMBDA s, tree : Splice(s, tree, args, t), trees)
SplicePred(st, tree, args, t) ==
  IF tree.tree = "arg" THEN PredOf(st, st.nodes[args[tree.index]])
  ELSE EmitAll(SpliceAll(st, tree.sub, args, t), "cmp", tree.prim)
\* A predicate as a number: one or zero.
OneZero(st, t) == InTurn(st, LAMBDA s, n : Const0(s, FloatValue(n), t), <<1, 0>>)
NumberOf(c, numbers) == Emit(c, "select", <<c.val>> \o numbers, 0)
SpliceTruth(z, tree, args, t) == NumberOf(SplicePred(z, tree, args, t), z.vals)
SpliceWhere(st, sub, args, t) ==
  InTurn(st, LAMBDA s, i : IF i = 1 THEN SplicePred(s, sub[i], args, t) ELSE Splice(s, sub[i], args, t), <<1, 2, 3>>)
Splice(st, tree, args, t) ==
  CASE ~st.ok -> st
    [] tree.tree = "arg" -> [st EXCEPT !.val = args[tree.index]]
    [] tree.tree = "const" -> Const0(st, FloatValue(tree.value), t)
    [] tree.tree = "prim" /\ tree.prim = "where" -> EmitAll(SpliceWhere(st, tree.sub, args, t), "select", 0)
    [] tree.tree = "prim" /\ tree.prim \in Preds -> SpliceTruth(OneZero(st, t), tree, args, t)
    [] OTHER -> EmitAll(SpliceAll(st, tree.sub, args, t), tree.prim, 0)

IsOne(st, n) == st.nodes[n].op = "const" /\ st.nodes[n].attr = FloatValue(1)
RECURSIVE Tangent(_, _, _)
\* One operand's share, added to the total so far.
Times(local, d) ==
  CASE ~local.ok -> local
    [] IsOne(local, d) -> local
    [] IsOne(local, local.val) -> [local EXCEPT !.val = d]
    [] OTHER -> Emit(local, "mul", <<local.val, d>>, 0)
Plus(term, total) == IF ~term.ok \/ total = 0 THEN term ELSE Emit(term, "add", <<total, term.val>>, 0)
ShareOf(d, node, i, total) ==
  IF d.val = 0 THEN [d EXCEPT !.val = total]
  ELSE Plus(Times(Splice(d, Row(node.op)[i], node.args, node.type), d.val), total)
Share(st, node, seed, i, total) ==
  IF ~st.ok THEN st
  ELSE ShareOf(IF Row(node.op)[i] = Free THEN [st EXCEPT !.val = 0] ELSE Tangent(st, node.args[i], seed), node, i, total)
CastOf(d, type) == IF d.val = 0 THEN d ELSE Emit(d, "cast", <<d.val>>, type)
TangentOf(st, node, seed) ==
  CASE node.type.type # "scalar" -> Refuse(st)
    [] ~IsFloat(node.type) -> [st EXCEPT !.val = 0]
    [] node.op \in Differentiable ->
         FoldLeft(LAMBDA s, i : Share(s, node, seed, i, s.val), [st EXCEPT !.val = 0], [i \in DOMAIN node.args |-> i])
    [] node.op \in {"param", "env", "const"} -> [st EXCEPT !.val = 0]
    [] node.op = "cast" -> CastOf(Tangent(st, node.args[1], seed), node.attr)
    [] OTHER -> Refuse(st)
\* Variant: the memo is kept across seeds.
MemoByNode(st, n, seed) == {k \in DOMAIN st.memo : k[2] = KeyOf(st, n)}
Memoized(st, n, seed) == {k \in DOMAIN st.memo : k = <<seed, KeyOf(st, n)>>}
Learned(r, k) == [r EXCEPT !.memo = (k :> r.val) @@ @]
Tangent(st, n, seed) ==
  LET known == Memoized(st, n, seed)
  IN  CASE ~st.ok -> st
        [] KeyOf(st, n) = seed -> Const0(st, FloatValue(1), TypeAt(st, n))
        [] known # {} -> [st EXCEPT !.val = st.memo[CHOOSE k \in known : TRUE]]
        [] OTHER -> Learned(TangentOf(st, st.nodes[n], seed), <<seed, KeyOf(st, n)>>)

\* The derivative has the type of the value: per field for a record built here.
OrZero(st, type) == IF st.ok /\ st.val = 0 THEN Const0(st, FloatValue(0), type) ELSE st
RECURSIVE DerivativeOf(_, _, _)
RecordAs(fields, type) == Put(fields, "tuple", fields.vals, 0, <<>>, type)
DerivativeOf(st, n, seed) ==
  LET node == st.nodes[n]
  IN  CASE ~st.ok -> st
        [] node.type.type = "record" /\ node.op = "tuple" ->
             RecordAs(InTurn(st, LAMBDA s, a : DerivativeOf(s, a, seed), node.args), node.type)
        [] IsFloat(node.type) -> OrZero(Tangent(st, n, seed), node.type)
        [] OTHER -> Refuse(st)
WithRespectTo(st, args) ==
  IF Len(args) # 2 \/ ~IsFloat(TypeAt(st, args[2])) THEN Refuse(st) ELSE DerivativeOf(st, args[1], KeyOf(st, args[2]))

-----------------------------------------------------------------------------
(* THE RULES of expressions *)

Numbers == {"int", "bool", "float"}
Name(st, e) == IF IsCallee(st, e.id) THEN Refuse(st) ELSE Resolve(st, e.id)
\* ast.BinOp, UnaryOp, Tuple and Subscript: the args, then the op.
OpOf(e) == CASE e.ast = "BinOp" -> e.op [] e.ast = "UnaryOp" -> "neg" [] e.ast = "Tuple" -> "tuple" [] OTHER -> "extract"
Operation(st, e) == EmitAll(LowerAll(st, e.args), OpOf(e), IF e.ast = "Subscript" THEN e.index ELSE 0)

\* a and b is if(a){b}{false}; a or b is if(a){true}{b}.
Arms(isAnd, taken, other) == IF isAnd THEN <<Region(<<>>, taken), Region(<<>>, other)>> ELSE <<Region(<<>>, other), Region(<<>>, taken)>>
Decided(const, isAnd, l, r) == EmitIn(const, "if", <<l>>, 0, Arms(isAnd, r, const.val))
ShortCircuit(st, isAnd, l, r) ==
  IF ~st.ok \/ TypeAt(st, l) # boolean \/ TypeAt(st, r) # boolean THEN Refuse(st)
  ELSE Decided(Const0(st, BoolValue(~isAnd), boolean), isAnd, l, r)
AfterThis(r, isAnd, l) == ShortCircuit(r, isAnd, l, r.val)
BoolOp(st, e) ==
  FoldLeft(LAMBDA s, operand : AfterThis(Lower(s, operand), e.op = "and", s.val), Lower(st, Head(e.args)), Tail(e.args))
\* a < b < c: the node of b is shared.
LinkOf(r, s, op, i) == IF i = 1 THEN Emit(r, "cmp", <<s.left, r.val>>, op)
                       ELSE AfterThis(Emit(r, "cmp", <<s.left, r.val>>, op), TRUE, s.val)
Link(r, s, op, i) == [LinkOf(r, s, op, i) EXCEPT !.left = r.val]
ChainFrom(first) == [first EXCEPT !.left = first.val]
Compare(st, e) ==
  FoldLeft(LAMBDA s, i : Link(Lower(s, e.args[i + 1]), s, e.ops[i], i), ChainFrom(Lower(st, e.args[1])), [i \in DOMAIN e.ops |-> i])
Choice(s) == IF ~s.ok THEN s ELSE EmitIn(s, "if", <<s.vals[1]>>, 0, <<Region(<<>>, s.vals[2]), Region(<<>>, s.vals[3])>>)
IfExp(st, e) == Choice(LowerAll(st, e.args))
\* A field of a record built here is the argument it was built from.
FieldAt(t, name) == CHOOSE i \in DOMAIN t.class.fields : t.class.fields[i].name = name
FieldOf(base, node, name) ==
  LET t == node.type
  IN  IF t.type # "record" THEN Refuse(base)
      ELSE IF name \notin Range(Fields(t.class)) THEN Refuse(base)
      ELSE IF node.op = "tuple" THEN [base EXCEPT !.val = node.args[FieldAt(t, name)]]
      ELSE Put(base, "field", <<base.val>>, FieldAt(t, name), <<>>, t.class.fields[FieldAt(t, name)].type)
AttributeOf(base, name) == IF ~base.ok THEN base ELSE FieldOf(base, base.nodes[base.val], name)
Attribute(st, e) == AttributeOf(Lower(st, e.args[1]), e.name)

\* intrinsics.py: the batteries, over the markers maximum, minimum and floor.
One == Lit(FloatValue(1))
Batteries ==
  [clamp |-> Fn(<<"x", "lo", "hi">>, <<>>,
                <<Return(Call("minimum", <<Call("maximum", <<Var("x"), Var("lo")>>), Var("hi")>>))>>),
   mix |-> Fn(<<"a", "b", "t">>, <<>>,
              <<Return(Bin("add", Bin("mul", Var("a"), Bin("sub", One, Var("t"))), Bin("mul", Var("b"), Var("t"))))>>),
   step |-> Fn(<<"edge", "x">>, <<>>, <<Return(Ternary(Chain(<<"ge">>, <<Var("x"), Var("edge")>>), One, Lit(FloatValue(0))))>>),
   smoothstep |->
     Fn(<<"e0", "e1", "x">>, <<>>,
        <<Let(<<"t">>, Call("clamp", <<Bin("div", Bin("sub", Var("x"), Var("e0")), Bin("sub", Var("e1"), Var("e0"))),
                                       Lit(FloatValue(0)), One>>)),
          Return(Bin("mul", Bin("mul", Var("t"), Var("t")),
                     Bin("sub", Lit(FloatValue(3)), Bin("mul", Lit(FloatValue(2)), Var("t")))))>>),
   fract |-> Fn(<<"x">>, <<>>, <<Return(Bin("sub", Var("x"), Call("floor", <<Var("x")>>)))>>)]
\* A bare add(x, y) is the op of x + y.
Marker(op) == [is |-> "marker", op |-> op]
Markers == [add |-> Marker("add"), sub |-> Marker("sub"), neg |-> Marker("neg"), mul |-> Marker("mul"),
            div |-> Marker("div"), where |-> Marker("select"), exp |-> Marker("exp"), abs |-> Marker("abs"),
            floor |-> Marker("floor"), stop_gradient |-> Marker("stop_gradient"),
            maximum |-> Marker("maximum"), minimum |-> Marker("minimum")]
Overloads == Batteries @@ Markers @@ Vocabulary @@ ("with_respect_to" :> [is |-> "macro"])
Casts == [float |-> f64, int |-> i64, bool |-> boolean]

\* A call by name: a cast, a callee, then the overloads; a value is refused.
Applied(st, f, args) ==
  LET impl == Overloads[f]
  IN  CASE ~st.ok -> st
        [] f \in DOMAIN Casts /\ Len(args) = 1 -> Emit(st, "cast", args, Casts[f])
        [] IsCallee(st, f) -> Inline(st, Captured(st, f), CHOOSE i \in Slots(st, f) : TRUE, args)
        [] Known(st, f) \/ f \notin DOMAIN Overloads -> Refuse(st)
        [] impl.is = "class" -> IF Len(args) # Len(impl.class.fields) THEN Refuse(st)
                                ELSE Put(st, "tuple", args, 0, <<>>, Record(impl.class))
        [] impl.is = "macro" -> WithRespectTo(st, args)
        [] impl.is = "marker" -> Emit(st, impl.op, args, 0)   \* with as many args as the marker takes
        [] OTHER -> Inline(st, impl, 1, args)
CallOn(s, f) == Applied(s, f, s.vals)
CallRule(st, e) == CallOn(LowerAll(st, e.args), e.func)
\* The arguments are lowered before the receiver.
MethodOn(base, method, vals) ==
  IF method \notin DOMAIN Methods THEN Refuse(base) ELSE Inline(base, Methods[method], 1, <<base.val>> \o vals)
SendTo(base, t, name, vals) == IF t.type # "record" THEN Refuse(base) ELSE MethodOn(base, <<t.class.name, name>>, vals)
SendOn(base, name, vals) == IF ~base.ok THEN base ELSE SendTo(base, TypeAt(base, base.val), name, vals)
Receive(s, e) == SendOn(Lower(s, e.self), e.name, s.vals)
SendRule(st, e) == Receive(LowerAll(st, e.args), e)

Lower(st, e) ==
  CASE ~st.ok -> st
    [] e.ast = "Constant" -> IF e.value.is \in Numbers THEN Const0(st, e.value, TypeOf(e.value)) ELSE Refuse(st)
    [] e.ast = "Name" -> Name(st, e)
    [] e.ast = "BoolOp" -> BoolOp(st, e)
    [] e.ast = "Compare" -> Compare(st, e)
    [] e.ast = "IfExp" -> IfExp(st, e)
    [] e.ast = "Attribute" -> Attribute(st, e)
    [] e.ast = "Call" -> CallRule(st, e)
    [] e.ast = "Send" -> SendRule(st, e)
    [] OTHER -> Operation(st, e)

-----------------------------------------------------------------------------
(* THE RULES of statements *)

\* Values that ride together are a tuple.
Packed(st, ns) == IF Len(ns) = 1 THEN [st EXCEPT !.val = ns[1]] ELSE Emit(st, "tuple", ns, 0)
BindLast(part, x) == Bind(part, x, part.val)
Unpacked(st, names, n) ==
  IF Len(names) = 1 THEN Bind(st, names[1], n)
  ELSE FoldLeft(LAMBDA s, i : BindLast(Emit(s, "extract", <<n>>, i), names[i]), st, [i \in DOMAIN names |-> i])
UnpackLast(st, names) == Unpacked(st, names, st.val)

Spreads(t, names) == IF t.type # "tuple" THEN FALSE ELSE Len(t.elems) = Len(names)
AssignTo(v, names) ==
  CASE ~v.ok -> v
    [] v.ok /\ Len(names) > 1 /\ ~Spreads(TypeAt(v, v.val), names) -> Refuse(v)
    [] OTHER -> UnpackLast(v, names)
Assign(st, s) == AssignTo(Lower(st, s.value), s.names)
Operated(v, op, current) == Emit(v, op, <<current, v.val>>, 0)
Augment(current, s) == BindLast(Operated(Lower(current, s.value), s.op, current.val), s.name)
AugAssign(st, s) == Augment(Name(st, Var(s.name)), s)

\* Only the last statement of a function returns.
NoValue(r) == IF r.val # 0 THEN Refuse(r) ELSE r
Suite(st, stmts) == FoldLeft(LAMBDA s, stmt : NoValue(Do(s, stmt)), [st EXCEPT !.val = 0], stmts)

\* The names both suites can supply and one rebound; the others die.
Joins(before, then, else) ==
  {n \in DOMAIN then.locals \cap DOMAIN else.locals :
     n \in DOMAIN before => (then.locals[n] # before[n] \/ else.locals[n] # before[n])}
Values(locals, names) == Each(LAMBDA n : locals[n], names)
SameTypes(st, some, others, names) == \A i \in DOMAIN names : TypeAt(st, some[names[i]]) = TypeAt(st, others[names[i]])
IfNode(cond, names, ends) ==
  UnpackLast(EmitIn([ends EXCEPT !.locals = cond.locals], "if", <<cond.val>>, 0, Each(LAMBDA v : Region(<<>>, v), ends.vals)), names)
JoinOf(cond, then, else, names) ==
  IF TypeAt(cond, cond.val) # boolean \/ names = <<>> \/ ~SameTypes(else, then.locals, else.locals, names) THEN Refuse(else)
  ELSE IfNode(cond, names, InTurn(else, LAMBDA s, locals : Packed(s, Values(locals, names)), <<then.locals, else.locals>>))
Join(cond, then, else) == IF ~else.ok THEN else ELSE JoinOf(cond, then, else, SetToSeq(Joins(cond.locals, then, else)))
OrElse(cond, then, stmts) == Join(cond, then, Suite([then EXCEPT !.locals = cond.locals], stmts))
IfOn(cond, s) == OrElse(cond, Suite(cond, s.body), s.orelse)
IfStmt(st, s) == IfOn(Lower(st, s.test), s)

RECURSIVE Assigned(_)
Assigned(stmts) ==
  FlattenSeq(Each(LAMBDA s : CASE s.ast = "Assign" -> s.names
                               [] s.ast = "AugAssign" -> <<s.name>>
                               [] s.ast = "If" -> Assigned(s.body) \o Assigned(s.orelse)
                               [] s.ast = "For" -> Assigned(s.body)
                               [] OTHER -> <<>>, stmts))
Distinct(names) == SelectSeq([i \in DOMAIN names |-> i], LAMBDA i : names[i] \notin Range(SubSeq(names, 1, i - 1)))
Rebound(st, names) == SelectSeq(Each(LAMBDA i : names[i], Distinct(names)), LAMBDA n : n \in DOMAIN st.locals)
Carried(st, body) == Rebound(st, Assigned(body))

IsExit(s) == IF s.ast = "If" THEN s.body = <<Break>> /\ s.orelse = <<>> ELSE FALSE
\* The values of the carried names, those of the break point where done fires.
WithDone(final, done) == Emit(final, "tuple", <<final.val, done>>, 0)
Picked(picks, done) == IF ~picks.ok THEN picks ELSE WithDone(Packed(picks, picks.vals), done)
Finals(st, early, done, names) ==
  IF done = 0 THEN Packed(st, Values(st.locals, names))
  ELSE Picked(InTurn(st, LAMBDA s, n : Emit(s, "select", <<done, early.locals[n], st.locals[n]>>, 0), names), done)
\* range(n) is range(0, n).
FromZero(zero, hi) == [zero EXCEPT !.vals = <<zero.val, hi>>]
Bounds(b) == IF Len(b.vals) = 2 THEN b ELSE FromZero(Const0(b, IntValue(0), i64), b.vals[1])
\* A pass of the body: where it may exit, and where it ends.
AfterExit(early, done, stmts) ==
  [early |-> early, done |-> done.val, asks |-> done.ok /\ TypeAt(done, done.val) = boolean, end |-> Suite(done, stmts)]
ExitAt(early, body, at) == AfterExit(early, Lower(early, body[at].test), SubSeq(body, at + 1, Len(body)))
ThroughExit(inside, body, at) == ExitAt(Suite(inside, SubSeq(body, 1, at - 1)), body, at)
PassOf(inside, body, exits) ==
  IF exits = {} THEN [early |-> inside, done |-> 0, asks |-> TRUE, end |-> Suite(inside, body)]
  ELSE ThroughExit(inside, body, CHOOSE i \in exits : TRUE)
Inside(b, name, names) == Unpacked([b EXCEPT !.locals = (name :> b.vals[1]) @@ @], names, b.vals[2])
LoopNode(st, args, binders, names, exits, out) ==
  IF ~out.ok THEN out
  ELSE UnpackLast(Put([out EXCEPT !.locals = st.locals], "for", args, exits, <<Region(binders, out.val)>>, TypeAt(out, args[3])), names)
LoopOf(st, args, binders, names, exits, pass) ==
  IF ~pass.end.ok \/ ~SameTypes(pass.end, pass.end.locals, st.locals, names) \/ ~pass.asks THEN Refuse(pass.end)
  ELSE LoopNode(st, args, binders, names, exits # {}, Finals(pass.end, pass.early, pass.done, names))
LoopOn(st, s, args, names, exits, b) == LoopOf(st, args, b.vals, names, exits, PassOf(Inside(b, s.name, names), s.body, exits))
LoopFrom(st, s, bounds, names, exits, init) ==
  LoopOn(st, s, Append(bounds, init.val), names, exits, InTurn(init, Binder, <<i64, TypeAt(init, init.val)>>))
ForOver(st, s, from, names, exits) ==
  IF ~from.ok THEN from
  ELSE IF \/ \E n \in Range(from.vals) : TypeAt(from, n) # i64
          \/ Known(st, s.name) \/ names = <<>> \/ Cardinality(exits) > 1 THEN Refuse(from)
  ELSE LoopFrom(st, s, from.vals, names, exits, Packed(from, Values(st.locals, names)))
ForStmt(st, s) ==
  ForOver(st, s, Bounds(LowerAll(st, s.bounds)), Carried(st, s.body), {i \in DOMAIN s.body : IsExit(s.body[i])})

\* while, break, continue and an expression for its effect have no rule.
Do(st, s) ==
  CASE ~st.ok -> st
    [] s.ast = "Assign" -> Assign(st, s)
    [] s.ast = "AugAssign" -> AugAssign(st, s)
    [] s.ast = "Return" -> Lower(st, s.value)
    [] s.ast = "If" -> IfStmt(st, s)
    [] s.ast = "For" -> ForStmt(st, s)
    [] s.ast = "Pass" -> [st EXCEPT !.val = 0]
    [] OTHER -> Refuse(st)

-----------------------------------------------------------------------------
(* BUILDS of a function, a pipe, and a value_and_grad *)

Pipe(stages) == [is |-> "pipe", captures |-> stages]
ValueAndGrad(base, wrt) == [is |-> "value_and_grad", captures |-> <<base>>, wrt |-> wrt]
Fresh(h, types) ==
  LET none == [nodes |-> <<>>, val |-> 0, vals |-> <<>>, left |-> 0, locals |-> <<>>, binders |-> 0, memo |-> <<>>,
               handle |-> h, prefix |-> <<>>, ok |-> TRUE]
  IN  FoldLeft(LAMBDA s, i : Param(s, <<i>>, types[i]), none, [i \in DOMAIN types |-> i])
Params(types) == [i \in DOMAIN types |-> i]   \* the places of the parameters
Staged(st, h, i) == Inline([st EXCEPT !.prefix = <<>>], h, i, <<st.val>>)
PipeFrom(st, pipe, types) ==
  IF Len(types) # 1 THEN Refuse(st)
  ELSE FoldLeft(LAMBDA s, i : Staged(s, pipe.captures[i], i), [st EXCEPT !.val = 1], [i \in DOMAIN pipe.captures |-> i])
BuildPipe(pipe, types) == PipeFrom(Fresh(pipe, types), pipe, types)
\* A tangent of the value for each parameter named, from an empty memo.
GradAt(s, n, types, place) ==
  IF ~IsFloat(types[place]) THEN Refuse(s)
  ELSE OrZero(Tangent([s EXCEPT !.memo = <<>>], n, KeyOf(s, place)), TypeAt(s, n))
GradFor(s, n, types, params, w) ==
  IF ~s.ok \/ w \notin Range(params) THEN Refuse(s) ELSE GradAt(s, n, types, CHOOSE i \in DOMAIN params : params[i] = w)
ValueWith(all, n) == Emit(all, "tuple", <<n, all.val>>, 0)
PairOf(grads, n) == IF ~grads.ok THEN grads ELSE ValueWith(EmitAll(grads, "tuple", 0), n)
GradsOf(value, vg, types) ==
  PairOf(InTurn(value, LAMBDA s, w : GradFor(s, value.val, types, vg.captures[1].params, w), vg.wrt), value.val)
BuildValueAndGrad(vg, types) == GradsOf(Inline(Fresh(vg, types), vg.captures[1], 1, Params(types)), vg, types)
LowerHandle(h, types) ==
  CASE h.is = "pipe" -> BuildPipe(h, types)
    [] h.is = "value_and_grad" -> BuildValueAndGrad(h, types)
    [] Len(h.params) # Len(types) -> Refuse(Fresh(h, types))
    [] OTHER -> RunBody(WithParams(Fresh(h, types), h, Params(types)), h.body)
=============================================================================
