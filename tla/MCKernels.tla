----------------------------- MODULE MCKernels -----------------------------
(* Kernels over lattices of four cells and of two by two, and the ways a    *)
(* launch can differ from the one before it.                                *)
EXTENDS Kernels

Y == <<"y">>
X == <<"x">>
Tensor(base, fs) == [is |-> "tensor", frames |-> fs, base |-> base]
Fun(h) == [is |-> "fn", handle |-> h]
Four == <<Frame(Y, 0, 4)>>
Square == <<Frame(Y, 0, 2), Frame(X, 0, 2)>>
Tiled == <<Frame(BlockOf(Y), 0, 2), Frame(ThreadOf(Y), 0, 2)>>
Memory(n) == [c \in 0..(n - 1) |-> (c * 3) % 5]
Geom(bs, ts) == [blocks |-> bs, threads |-> ts]
Run(fn, args, geom, taps) == [fn |-> fn, args |-> args, geom |-> geom, taps |-> taps, cells |-> <<>>]
Plain(fn, args) == Run(fn, args, NoGeom, <<>>)
Tap(x, t) == [name |-> x, tensor |-> t]
Add(a, b) == Bin("add", a, b)
Mul(a, b) == Bin("mul", a, b)
V(x) == Var(x)
F(x) == Coerce(Var(x))
At1(kind) == Unpack(<<"y">>, Ambient(kind, <<Y>>))
At2(kind) == Unpack(<<"y", "x">>, Ambient(kind, <<Y, X>>))
Out(e) == Store("out", <<V("y")>>, e)
Out2(e) == Store("out", <<V("y"), V("x")>>, e)
Family(n, m, g, e, ls) == [memory |-> Memory(m), globals |-> g, edits |-> e, launches |-> ls, calls |-> n]

\* One body under every geometry, tapped or not.
Scale == Fn("scale", <<"a", "out">>, <<>>, <<2, 1>>,
            <<At1("global"), Let("d", Add(Mul(F("y"), Lit(1)), Item("a", <<V("y")>>))), Out(Add(V("d"), Lit(2)))>>)
Blocks == Fn("blocks", <<"out">>, <<>>, <<5>>,
             <<Unpack(<<"b">>, Ambient("block", <<Y>>)), Unpack(<<"t">>, Ambient("thread", <<Y>>)),
               Unpack(<<"g">>, Place(Tup(<<V("b")>>), Tup(<<V("t")>>))),
               Let("v", Add(Mul(F("b"), Lit(1)), F("g"))), Store("out", <<V("t"), V("b")>>, V("v"))>>)
Geometries ==
  Family(3, 13, <<>>, {},
    {Run(Scale, <<Tensor(0, Four), Tensor(4, Four)>>, g, <<>>) :
       g \in {NoGeom, Geom(<<2>>, <<2>>), Geom(<<4>>, <<1>>), Geom(<<1>>, <<5>>), Geom(<<1>>, <<3>>), Geom(<<2>>, <<3>>)}}
    \cup {Run(Scale, <<Tensor(0, Four), Tensor(4, Four)>>, NoGeom, <<Tap("d", Tensor(8, Four))>>),
          Run(Scale, <<Tensor(0, Four), Tensor(4, Four)>>, NoGeom, <<Tap("y", Tensor(8, Four))>>),
          Run(Scale, <<Tensor(0, Four), Tensor(4, Four)>>, Geom(<<2>>, <<2>>), <<Tap("d", Tensor(8, Tiled))>>)}
    \cup {Run(Blocks, <<Tensor(4, Tiled)>>, Geom(<<2>>, <<2>>), ts) : ts \in {<<>>, <<Tap("g", Tensor(8, Tiled))>>}})

\* What the bodies refer to changes between launches.
Bump(k) == Fn("bump", <<"v">>, <<"gain">>, <<k>>, <<Let("w", Add(V("v"), Lit(1))), Return(IF k = 1 THEN V("w") ELSE Mul(V("w"), V("w")))>>)
Names == Fn("names", <<"a", "out">>, <<"gain", "step", "bump">>, <<1, 0>>,
            <<At1("thread"), Let("v", Mul(F("y"), V("gain"))), Let("s", Call("bump", <<V("v")>>)),
              If(Cmp("lt", V("s"), V("step")), <<Let("k", Item("a", <<V("y")>>)), Let("z", Lit(1))>>, <<Let("k", Lit(1))>>),
              For("i", Lit(2), Lit(1), <<Let("k", Add(V("k"), V("k")))>>),
              For("i", Lit(1), Extent(V("y")), <<Let("k", Add(V("k"), V("i")))>>),
              Let("m", Logic("or", <<Cmp("eq", V("k"), V("s")), Cmp("ge", V("v"), Lit(1))>>)),
              Out(Add(Add(V("s"), Ternary(V("m"), V("k"), Neg(V("k")))), Ternary(Cmp("lt", V("gain"), Lit(1)), V("gain"), V("step"))))>>)
Again == Fn("twice", <<"a", "out">>, <<"gain">>, <<>>,
            <<At1("thread"), Let("v", Item("a", <<V("y")>>)), Let("v", Add(V("v"), V("gain"))), Out(V("v"))>>)
Globals ==
  Family(3, 12, [gain |-> <<"data", 2>>, step |-> <<"literal", 4>>, bump |-> <<"helper", Bump(1)>>],
    {[name |-> "gain", value |-> <<"data", 0>>], [name |-> "step", value |-> <<"literal", 1>>],
     [name |-> "bump", value |-> <<"helper", Bump(3)>>]},
    {Run(Names, <<Tensor(0, Four), Tensor(4, Four)>>, NoGeom, ts) : ts \in {<<>>, <<Tap("w", Tensor(8, Four))>>, <<Tap("k", Tensor(8, Four))>>}}
    \cup {Run(Again, <<Tensor(0, Four), Tensor(4, Four)>>, NoGeom, ts) : ts \in {<<>>, <<Tap("v", Tensor(8, Four))>>}})

\* Functions of one type and other captures, two at once, staged and not.
Ramp == Fn("ramp", <<"u">>, <<"k", "c">>, <<1>>, <<Let("p", Mul(V("u"), V("k"))), Return(Add(V("p"), Add(V("c"), V("k"))))>>)
Pair == Fn("pair", <<"u", "v">>, <<"k">>, <<0>>,
           <<Return(Tup(<<Ternary(Cmp("lt", V("u"), V("v")), V("k"), V("u")), Neg(V("v"))>>))>>)
Until == Fn("until", <<"u">>, <<"k">>, <<0, 3>>,
            <<Let("acc", V("k")), March("i", Lit(1), Lit(2), "acc", Add(V("acc"), Add(V("u"), V("i"))), Cmp("eq", V("i"), V("u"))), Return(V("acc"))>>)
Data == Fn("data", <<"u">>, <<"k">>, <<0>>,
           <<Let("acc", V("u")), March("i", Lit(1), V("k"), "acc", Add(V("acc"), V("acc")), Never), Return(V("acc"))>>)
Here == Fn("here", <<"c">>, <<>>, <<>>, <<Return(Add(Coerce(V("c")), Extent(V("c"))))>>)
Both == Fn("both", <<"f", "g", "out">>, <<>>, <<>>,
           <<At1("thread"), Let("a", Call("f", <<F("y")>>)), Unpack(<<"p", "q">>, Call("g", <<V("a"), F("y")>>)),
             Let("b", Call("f", <<V("p")>>)), Out(Add(V("b"), V("q")))>>)
Both2 == Fn("sums", <<"f", "g", "out">>, <<>>, <<>>,
            <<At1("thread"), Let("a", Call("f", <<F("y")>>)), Let("b", Call("g", <<F("y")>>)), Out(Add(V("a"), Mul(V("b"), V("b"))))>>)
Clear == Fn("clear", <<"a", "out">>, <<>>, <<1, 0>>,
            <<At1("thread"), Let("v", Add(Item("a", <<V("y")>>), Lit(1))), Store("a", <<V("y")>>, Lit(2)), Out(V("v"))>>)
Doubled == Fn("doubled", <<"f", "out">>, <<>>, <<>>,
              <<At1("thread"), Let("h", Stage("f")), Let("a", Call("h", <<F("y")>>)), Out(Add(V("a"), Call("f", <<V("a")>>)))>>)
Places == Fn("places", <<"f", "out">>, <<>>, <<>>, <<At1("thread"), Out(Call("f", <<V("y")>>))>>)
Handles(fn, caps) == {Fun(Handle(fn, k)) : k \in caps}
Functions2 ==
  Family(2, 8, <<>>, {},
    {Plain(Both, <<f, g, Tensor(0, Four)>>) : f \in Handles(Ramp, {<<1, 2>>, <<2, 0>>}) \cup Handles(Until, {<<0>>, <<2>>}),
                                              g \in Handles(Pair, {<<3>>, <<1>>})}
    \cup {Run(Both, <<f, g, Tensor(0, Four)>>, NoGeom, <<Tap("q", Tensor(4, Four))>>) : f \in Handles(Until, {<<2>>}), g \in Handles(Pair, {<<3>>})}
    \cup {Plain(Doubled, <<f, Tensor(0, Four)>>) : f \in Handles(Ramp, {<<1, 2>>, <<2, 0>>}) \cup Handles(Data, {<<2>>, <<1>>, <<-1>>})}
    \cup {Plain(Places, <<f, Tensor(0, Four)>>) : f \in Handles(Here, {<<>>}) \cup Handles(Ramp, {<<1, 2>>})})

\* Views of one memory, and reads at coordinates and at values.
Shift == Fn("shift", <<"a", "out">>, <<>>, <<1>>, <<At1("thread"), Out(Item("a", <<Add(F("y"), Lit(1))>>))>>)
Copy == Fn("copy", <<"a", "out">>, <<>>, <<>>, <<At1("thread"), Out(Item("a", <<V("y")>>))>>)
Turn2 == Fn("turn", <<"a", "out">>, <<>>, <<1>>,
            <<At2("thread"), Let("t", Item("a", <<Adapt(V("x"), Y), Adapt(V("y"), X)>>)), Let("s", Item("a", <<V("x"), V("y")>>)),
              Out2(Add(V("t"), Mul(V("s"), Lit(1)))), Store("a", <<V("x"), V("y")>>, Mul(V("s"), V("s")))>>)
Inner == <<Frame(Y, 1, 3)>>
Memories ==
  Family(2, 10, <<>>, {},
    {Plain(Copy, <<Tensor(b, Four), Tensor(o, Four)>>) : b \in {0, 4}, o \in {2, 4}}
    \cup {Plain(Copy, <<Tensor(0, Four), Tensor(6, Inner)>>), Plain(Copy, <<Tensor(6, Inner), Tensor(0, Four)>>)}
    \cup {Plain(Shift, <<Tensor(0, Four), Tensor(6, fs)>>) : fs \in {Inner, <<Frame(Y, -1, 1)>>, Four}}
    \cup {Plain(Turn2, <<Tensor(0, Square), Tensor(o, Square)>>) : o \in {4, 5}})

MCFamilies == {Geometries, Globals, Functions2, Memories}

\* Families that LaunchMeansBody does not survive.  One function was given for
\* two parameters when the entry was built, then two of its type are:
OneForBoth == {Family(2, 4, <<>>, {}, {Plain(Both2, <<f, g, Tensor(0, Four)>>) : f, g \in Handles(Ramp, {<<1, 2>>, <<2, 0>>})})}
\* two functions of one type whose bodies cannot be lifted:
TwoOracles == {Family(1, 4, <<>>, {}, {Plain(Both2, <<f, g, Tensor(0, Four)>>) : f, g \in Handles(Data, {<<2>>, <<1>>})})}
\* a helper is edited in a constant alone:
EditedHelper == {Family(3, 8, [gain |-> <<"data", 2>>, step |-> <<"literal", 4>>, bump |-> <<"helper", Bump(3)>>],
            {[name |-> "bump", value |-> <<"helper", Bump(4)>>]}, {Plain(Names, <<Tensor(0, Four), Tensor(4, Four)>>)})}
\* two closures of one body over different numbers:
Closures == {Family(2, 8, [gain |-> <<"data", 0>>], {},
              {[Plain(Again, <<Tensor(0, Four), Tensor(4, Four)>>) EXCEPT !.cells = [gain |-> <<"data", n>>]] : n \in {1, 2}})}
\* what was read before a store is computed after it:
Overwrites == {Family(1, 8, <<>>, {}, {Plain(Clear, <<Tensor(0, Four), Tensor(4, Four)>>)})}
=============================================================================
