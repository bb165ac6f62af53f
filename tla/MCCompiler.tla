----------------------------- MODULE MCCompiler -----------------------------
(* A family for each part of the language: x, y, k are floats, i, j, n, d   *)
(* integers, b a boolean, p a record.                                       *)
EXTENDS Compiler

MCSize == [i64 |-> 2, u64 |-> 2, f64 |-> 2, bool |-> 1]
Flt(n) == FloatValue(n)
I(n) == Lit(IntValue(n))
F(n) == Lit(FloatValue(n))
Cap(name, v) == [name |-> name, value |-> v]
Set(x, e) == Let(<<x>>, e)
Add(a, b) == Bin("add", a, b)
Sub(a, b) == Bin("sub", a, b)
Mul(a, b) == Bin("mul", a, b)
Div(a, b) == Bin("div", a, b)
Is(op, a, b) == Chain(<<op>>, <<a, b>>)
X == Var("x")
Y == Var("y")
K == Var("k")
IV == Var("i")
J == Var("j")
N == Var("n")
Acc == Var("acc")
Of(params, body) == Fn(params, <<>>, body)
Expr(params, e) == Of(params, <<Return(e)>>)
Wrt(e, x) == Call("with_respect_to", <<e, x>>)

\* A class of two floats with a method, and one that holds a pair of it.
Point == [name |-> "Point", fields |-> <<[name |-> "u", type |-> f64], [name |-> "v", type |-> f64]>>]
PointOf(u, v) == [is |-> "record", class |-> Point, attrs |-> [u |-> Flt(u), v |-> Flt(v)]]
MCVocabulary == [Point |-> [is |-> "class", class |-> Point],
                 twice |-> Expr(<<"x">>, Add(X, X))]
MCMethods == <<"Point", "dot">> :> Expr(<<"self", "x">>, Add(Mul(Dot(Var("self"), "u"), X), Dot(Var("self"), "v")))

Ints == {IntValue(n) : n \in {-1, 0, 2}}
Floats == {Flt(n) : n \in {0, 1, 5}}
Two(s) == {<<a, b>> : a \in s, b \in s}

\* Traps that are computed only when they are wanted, and types that differ.
Scalars ==
  [calls |-> 1, args |-> Two(Ints) \cup Two({IntValue(40000), IntValue(3)}) \cup {<<IntValue(1), Flt(2)>>},
   kernels |->
     {Expr(<<"i", "j">>, Logic("and", <<Is("ne", J, I(0)), Is("ge", Div(IV, J), I(1))>>)),
      Expr(<<"i", "j">>, Logic("or", <<Is("eq", J, I(0)), Is("ge", Div(IV, J), I(0)), Is("ge", Bin("mod", IV, J), I(0))>>)),
      Expr(<<"i", "j">>, Ternary(Is("ne", J, I(0)), Div(IV, J), Sub(IV, J))),
      Expr(<<"i", "j">>, Ternary(Is("lt", IV, J), IV, J)),
      Expr(<<"i", "j">>, Chain(<<"lt", "le">>, <<I(0), Add(IV, J), Div(I(2), J)>>)),
      Of(<<"i", "j">>, <<Set("d", Div(IV, J)), Return(Add(IV, J))>>),
      Of(<<"i", "j">>, <<Set("d", Div(IV, J)), Return(Ternary(Is("ge", IV, I(0)), Var("d"), Bin("mod", Var("d"), J)))>>),
      Expr(<<"i", "j">>, Tup(<<Call("float", <<IV>>), Call("bool", <<J>>), Neg(Call("maximum", <<IV, J>>))>>)),
      Of(<<"i", "j">>, <<Let(<<"a", "b">>, Tup(<<J, IV>>)), Update("a", "sub", Var("b")), Return(Item(Tup(<<Var("b"), Var("a")>>), 2))>>)}]

\* What an if joins, and what dies with it.
PlusX(e) == Set("y", Add(e, X))
Branches ==
  [calls |-> 1, args |-> Two(Floats),
   kernels |->
     {Of(<<"x", "y">>, <<Set("t", Mul(X, Y)), If(Is("gt", X, Y), <<Set("s", Add(Var("t"), X)), PlusX(Var("s"))>>, <<PlusX(Y)>>), Return(Y)>>),
      Of(<<"x", "y">>, <<If(Is("gt", X, Y), <<Set("s", X)>>, <<Set("s", Y), Set("r", X)>>), Return(Var("s"))>>),
      Of(<<"x", "y">>, <<If(Is("gt", X, Y), <<Set("s", X)>>, <<Set("s", Y), Set("r", X)>>), Return(Var("r"))>>),
      Of(<<"x", "y">>, <<If(Is("gt", X, Y), <<Set("s", X), Set("y", F(2))>>, <<>>), Return(Add(X, Y))>>),
      Of(<<"x", "y">>, <<If(Is("gt", X, Y), <<Set("y", X), Set("x", Y)>>, <<>>), Return(Sub(X, Y))>>),
      Of(<<"x", "y">>, <<Set("t", Mul(X, Y)), If(Is("gt", X, F(1)), <<If(Is("gt", Y, F(1)), <<PlusX(Var("t"))>>, <<>>)>>, <<Set("y", Var("t"))>>), Return(Y)>>),
      Of(<<"x", "y">>, <<Return(Ternary(Is("ge", X, Y), X, Ternary(Is("ge", Y, F(2)), Mul(Add(X, Y), Y), Add(X, Y))))>>)}]

\* Loops: what they carry, where they stop, loops in loops.
Count(body) == Of(<<"x", "n">>, <<Set("acc", F(0)), For("i", <<N>>, body), Return(Acc)>>)
Exit(c) == If(c, <<Break>>, <<>>)
Loops ==
  [calls |-> 1, args |-> {<<x, n>> : x \in Floats, n \in {IntValue(m) : m \in {0, 1, 3}}} \cup {<<Flt(1), Flt(1)>>},
   kernels |->
     {Count(<<Update("acc", "add", Mul(X, Call("float", <<IV>>)))>>),
      Count(<<Update("acc", "add", X), Exit(Is("ge", Acc, F(2))), Update("acc", "add", F(1))>>),
      Count(<<Exit(Is("eq", IV, I(1))), Update("acc", "add", X), Update("x", "mul", F(2))>>),
      Count(<<If(Is("gt", X, F(2)), <<Update("acc", "add", X)>>, <<Update("acc", "sub", F(1))>>), Set("x", Acc)>>),
      Count(<<For("j", <<IV, N>>, <<Update("acc", "add", Mul(X, Call("float", <<J>>)))>>), Exit(Is("gt", Acc, F(3)))>>),
      Of(<<"x", "n">>, <<Set("a", X), Set("c", F(1)), For("i", <<I(1), N>>, <<Let(<<"a", "c">>, Tup(<<Var("c"), Add(Var("a"), Var("c"))>>))>>), Return(Var("c"))>>),
      Of(<<"x", "n">>, <<For("i", <<N>>, <<Set("last", X)>>), Return(Var("last"))>>)}]

\* Callees, batteries, methods and records.
Summed == Of(<<"x", "n">>, <<Set("acc", X), For("i", <<N>>, <<Update("acc", "add", Mul(X, X))>>), Return(Acc)>>)
Shifted(k) == Fn(<<"x">>, <<Cap("k", Flt(k))>>, <<Return(Add(X, K))>>)
MakePoint == Call("Point", <<X, Y>>)
Calls ==
  [calls |-> 1, args |-> Two(Floats) \cup {<<Flt(2), PointOf(1, 3)>>},
   kernels |->
     {Fn(<<"x", "y">>, <<Cap("g", Summed)>>, <<Return(Add(Call("g", <<X, I(2)>>), Call("g", <<Call("g", <<Y, I(1)>>), I(2)>>)))>>),
      Fn(<<"x", "y">>, <<Cap("g", Summed)>>,
         <<Set("acc", F(0)), For("i", <<I(2)>>, <<Update("acc", "add", Call("g", <<Add(X, Acc), I(2)>>))>>), Return(Acc)>>),
      Fn(<<"x", "y">>, <<Cap("g", Shifted(2)), Cap("h", Shifted(4)), Cap("k", Flt(1))>>,
         <<Return(Add(Call("g", <<K>>), Mul(Call("h", <<X>>), Y)))>>),
      Fn(<<"x", "y">>, <<Cap("p", PointOf(2, 3)), Cap("q", [is |-> "tuple", elems |-> <<PointOf(4, 1), IntValue(1)>>])>>,
         <<Set("r", Item(Var("q"), 1)), Return(Add(Send(Var("p"), "dot", <<X>>), Dot(Var("r"), "v")))>>),
      Of(<<"x", "y">>, <<Set("r", MakePoint), Return(Add(Send(Var("r"), "dot", <<F(2)>>), Dot(Var("r"), "u")))>>),
      Expr(<<"x", "y">>, Add(Dot(Y, "u"), Send(Y, "dot", <<X>>))),
      Fn(<<"x", "y">>, <<Cap("g", Shifted(2))>>, <<Set("g", X), Return(Call("g", <<Y>>))>>),
      Expr(<<"x", "y">>, Call("clamp", <<Mul(X, Y), F(1), F(4)>>)),
      Expr(<<"x", "y">>, Call("mix", <<X, Y, F(3)>>)),
      Expr(<<"x", "y">>, Add(Call("step", <<X, Y>>), Call("twice", <<Call("smoothstep", <<F(0), X, Y>>)>>))),
      Expr(<<"x", "y">>, Ternary(Is("eq", X, Y), MakePoint, Call("Point", <<Y, Call("fract", <<X>>)>>)))}]

\* Derivatives with respect to what is in scope; pipes and value_and_grad.
Cubed == Expr(<<"x", "y">>, Mul(Mul(X, X), Y))
Slopes1 ==
  [calls |-> 1, args |-> Two(Floats) \cup {<<x>> : x \in Floats},
   kernels |->
     {Expr(<<"x", "y">>, Wrt(Mul(Mul(X, X), Y), X)),
      Expr(<<"x", "y">>, Wrt(Call("maximum", <<Mul(X, Y), Div(X, Add(Y, F(1)))>>), X)),
      Expr(<<"x", "y">>, Add(Wrt(Mul(X, Y), X), Mul(Wrt(Mul(X, Y), Y), Call("exp", <<X>>)))),
      Of(<<"x", "y">>, <<Set("u", Mul(X, Y)), Set("v", Add(Mul(Var("u"), Var("u")), X)), Return(Sub(Wrt(Var("v"), Var("u")), Wrt(Var("v"), X)))>>),
      Expr(<<"x", "y">>, Wrt(MakePoint, X)),
      Expr(<<"x", "y">>, Wrt(Ternary(Is("gt", X, Y), X, Y), X)),
      Expr(<<"x", "y">>, Wrt(Call("stop_gradient", <<Mul(X, Y)>>), X)),
      Fn(<<"x", "y">>, <<Cap("g", Cubed)>>, <<Return(Wrt(Call("g", <<Call("exp", <<X>>), Y>>), X))>>),
      ValueAndGrad(Cubed, <<"x", "y">>), ValueAndGrad(Cubed, <<"y">>),
      ValueAndGrad(Fn(<<"x">>, <<Cap("k", Flt(4))>>, <<Return(Mul(Sub(X, K), Sub(X, K)))>>), <<"x">>),
      Pipe(<<Shifted(2), Expr(<<"x">>, Mul(X, X)), Shifted(3)>>), Pipe(<<Expr(<<"x">>, Tup(<<X, X>>)), Shifted(1)>>)}]

\* Kernels that share artifacts: their captures differ, or nothing that an
\* artifact depends on does.
Scaled(k) == Fn(<<"x">>, <<Cap("k", Flt(k))>>, <<Return(Mul(X, K))>>)
Sharing ==
  [calls |-> 2, args |-> {<<Flt(1)>>, <<Flt(5)>>, <<IntValue(2)>>},
   kernels |->
     {Scaled(2), Scaled(3), Expr(<<"x">>, Mul(X, F(2))), Expr(<<"x">>, Mul(X, F(3))), Expr(<<"x">>, Add(X, X)),
      Fn(<<"x">>, <<Cap("g", Scaled(3))>>, <<Return(Call("g", <<X>>))>>), Pipe(<<Scaled(2)>>),
      Fn(<<"y">>, <<Cap("a", Flt(6))>>, <<Return(Mul(Y, Var("a")))>>)}]
MCFamilies == {Scalars, Branches, Loops, Calls, Slopes1, Sharing}

\* A capture that is not read moves the argument in the buffer.
Offsets ==
  [calls |-> 2, args |-> {<<Flt(1)>>, <<Flt(5)>>},
   kernels |-> {Expr(<<"x">>, Add(X, F(1))), Fn(<<"x">>, <<Cap("k", Flt(4))>>, <<Set("t", K), Return(Add(X, F(1)))>>)}]
\* What the exit guards is computed before it is asked.
Exits ==
  [calls |-> 1, args |-> {<<IntValue(2), IntValue(d)>> : d \in {0, 1}},
   kernels |-> {Of(<<"x", "n">>, <<Set("acc", I(0)), For("i", <<I(2)>>, <<Exit(Is("eq", N, I(0))), Update("acc", "add", Div(X, N))>>), Return(Acc)>>)}]
MCOffsets == {Offsets}
MCExits == {Exits}
=============================================================================
