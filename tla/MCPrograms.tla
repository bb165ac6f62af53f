----------------------------- MODULE MCPrograms -----------------------------
(* Families of small programs. *)
EXTENDS Assemblages

Verb(o, arity) == [o |-> o, arity |-> arity, sub |-> <<>>]
Line == [a |-> 0 .. 1]
Vals(b, F(_)) == [p \in Points(b) |-> F(p) % Modulus]
Whole1 == {Whole}

\* Scalar arithmetic over one dim, with ties and a division by zero.
Clip == Prim("maximum", <<Prim("mul", <<Arg(1), Arg(2)>>), Prim("sub", <<Arg(2), Const(1)>>)>>)
Arithmetic ==
  [types |-> <<Line, Line>>, grow |-> 2, schedules |-> Whole1, passes |-> {"vjp"}, bans |-> {}, labels |-> {}, rescalings |-> {}, places |-> {},
   ops |-> {Verb(PwOp(Pw(f)), 2) : f \in {"add", "sub", "mul", "div", "maximum", "minimum", "gt"}}
           \cup {Verb(PwOp(Pw("neg")), 1), Verb(PwOp(Pw("stop_gradient")), 1), Verb(PwOp(Pw("where")), 3),
                 Verb(PwOp(Clip), 2), Verb(ScalarOp(2), 0)},
   inputs |-> {<<Vals(Line, LAMBDA p : p["a"] + 1), Vals(Line, LAMBDA p : 3 * p["a"] + 1)>>}]

\* Views of a line that starts below zero.
Long == [a |-> -1 .. 2]
Part(n, lo, hi) == [name |-> n, start |-> lo, stop |-> hi]
Layouts1 ==
  [types |-> <<Long>>, grow |-> 2, schedules |-> Whole1, passes |-> {}, bans |-> {}, labels |-> {}, rescalings |-> {}, places |-> {},
   ops |-> {Verb(o, 1) : o \in
     {SliceOp("a", 0, 2), SliceOp("a", -1, 1), PadOp("a", -2, 3), ShiftOp("a", 2), FlipOp("a"), RenameOp("a", "b"),
      RepeatOp("c", 1 .. 2), [op |-> "select", points |-> "a" :> 1],
      [op |-> "split", dim |-> "a", parts |-> <<Part("a", 1, 3), Part("k", -1, 1)>>],
      [op |-> "merge", parts |-> <<"a", "k">>, new |-> "m", start |-> 3],
      [op |-> "merge", parts |-> <<"c", "a">>, new |-> "a", start |-> 0],
      [op |-> "diagonal", parts |-> {"a", "c"}, new |-> "a"],
      [op |-> "diagonal", parts |-> {"a", "k"}, new |-> "d"],
      [op |-> "window", dim |-> "a", new |-> "k", lo |-> -1, hi |-> 1, dilation |-> 2],
      [op |-> "window", dim |-> "a", new |-> "k", lo |-> 0, hi |-> 2, dilation |-> 1],
      [op |-> "stencil", dim |-> "a", new |-> "k", lo |-> -1, hi |-> 1, dilation |-> 2, fill |-> 3],
      [op |-> "decimate", dim |-> "a", factor |-> 2, phase |-> 1],
      [op |-> "decimate", dim |-> "a", factor |-> 2, phase |-> 0], [op |-> "materialize"]}},
   inputs |-> {<<Vals(Long, LAMBDA p : p["a"] + 2)>>}]

\* Reductions and scans of a square, with ties along both dims.
Square == [a |-> 0 .. 1, b |-> 0 .. 1]
Reductions ==
  [types |-> <<Square, [b |-> 0 .. 1]>>, grow |-> 2, schedules |-> Whole1, passes |-> {"vjp", "dce"}, bans |-> {}, labels |-> {}, rescalings |-> {}, places |-> {},
   ops |-> {Verb([op |-> "reduce", f |-> f, dims |-> d], 1) :
              f \in {"sum", "mean", "max", "min"}, d \in {<<"a">>, <<"b">>, <<"b", "a">>}}
           \cup {Verb([op |-> "scan", f |-> "sum", dim |-> "b"], 1), Verb([op |-> "scan", f |-> "max", dim |-> "b"], 1),
                 Verb([op |-> "repeat_like"], 2), Verb([op |-> "iota", dim |-> "b"], 1), Verb(Mul, 2)},
   inputs |-> {<<Vals(Square, LAMBDA p : 1 + p["a"] * p["b"]), Vals([b |-> 0 .. 1], LAMBDA p : 2 + p["b"])>>,
               <<Vals(Square, LAMBDA p : 4 - 2 * p["a"]), Vals([b |-> 0 .. 1], LAMBDA p : 1)>>}]

\* Reads and additions at computed places.
Table3 == [a |-> 1 .. 3]
Places == [c |-> 0 .. 2]
Indexing ==
  [types |-> <<Table3, Places>>, grow |-> 3, schedules |-> Whole1, passes |-> {}, bans |-> {}, labels |-> {}, rescalings |-> {}, places |-> {},
   ops |-> {Verb([op |-> "take", dim |-> "a"], 2),
            Verb([op |-> "scatter_add", dim |-> "a", lo |-> 1, hi |-> 4, over |-> {"c"}], 2),
            Verb([op |-> "argsort", dim |-> "a"], 1), Verb([op |-> "argtopk", dim |-> "a", k |-> 2, new |-> "t"], 1),
            Verb(Mul, 2)},
   inputs |-> {<<Vals(Table3, LAMBDA p : p["a"] * p["a"]), Vals(Places, LAMBDA p : IF p["c"] = 1 THEN 1 ELSE 3)>>}]

\* A recurrence over four places and one over no element, under every schedule.
Steps4 == [t |-> 1 .. 4]
StepSum == Yield(Emit(Start(<<<<>>, <<>>>>), AddOp, <<1, 2>>, <<>>), <<3, 3>>)
Step1 == Yield(Emit(Emit(Start(<<<<>>, <<>>>>), Mul, <<1, 2>>, <<>>), AddOp, <<3, 2>>, <<>>), <<4, 3>>)
StepMax == Yield(Emit(Emit(Start(<<<<>>, <<>>>>), PwOp(Pw("maximum")), <<1, 2>>, <<>>), Mul, <<3, 1>>, <<>>), <<4, 3>>)
StepAlone == Yield(Emit(Start(<<<<>>>>), Mul, <<1, 1>>, <<>>), <<2>>)
StepTwo == Yield(Emit(Emit(Start(<<<<>>, <<>>, <<>>>>), Mul, <<1, 3>>, <<>>), AddOp, <<1, 2>>, <<>>), <<5, 4, 4>>)
FoldVerb(states, elems, out, step) ==
  [o |-> [op |-> "fold", dim |-> "t", states |-> states, out |-> out, lo |-> 1, hi |-> 4],
   arity |-> states + elems, sub |-> <<step>>]
Folds1 ==
  [types |-> <<<<>>, Steps4>>, grow |-> 1, passes |-> {}, bans |-> {}, labels |-> {}, rescalings |-> {}, places |-> {},
   schedules |-> {[kind |-> "segments", n |-> k] : k \in {1, 2, 3, 4}} \cup {[kind |-> "slots", n |-> s] : s \in 1 .. 3},
   ops |-> {FoldVerb(1, 1, <<"final", 1>>, Step1), FoldVerb(1, 1, <<"emit", 0>>, Step1),
            FoldVerb(1, 1, <<"emit", 0>>, StepMax), FoldVerb(1, 0, <<"final", 1>>, StepAlone),
            FoldVerb(2, 1, <<"final", 2>>, StepTwo), FoldVerb(2, 1, <<"emit", 0>>, StepTwo), Verb(Mul, 2)},
   inputs |-> {<<[p \in {<<>>} |-> 2], Vals(Steps4, LAMBDA p : 3 * p["t"] + 1)>>}]

\* Recurrences with a state of their own: linear (a -> x a + y), one whose
\* state takes part in its own product, one that projects both parts, and one
\* of a single part that adds.
Reducer(state, element, lift, combine, init, project) ==
  [state |-> state, element |-> element, lift |-> lift, combine |-> combine, init |-> init, project |-> project]
Times1(i, j) == Prim("mul", <<Arg(i), Arg(j)>>)
Plus1(x, y) == Prim("add", <<x, y>>)
LinRec == Reducer(2, 2, <<Arg(1), Arg(2)>>, <<Times1(1, 3), Plus1(Times1(3, 2), Arg(4))>>, <<1, 0>>, Arg(2))
Moment == Reducer(2, 1, <<Arg(1), Times1(1, 1)>>, <<Plus1(Arg(1), Arg(3)), Plus1(Plus1(Arg(2), Arg(4)), Times1(1, 3))>>, <<0, 0>>,
                  Plus1(Arg(1), Times1(1, 2)))
Twist == Reducer(2, 2, <<Plus1(Arg(1), Const(2)), Arg(2)>>,
                 <<Plus1(Times1(1, 3), Times1(2, 4)), Plus1(Times1(1, 4), Times1(2, 3))>>, <<1, 0>>, Plus1(Arg(1), Arg(2)))
RunningSum == Reducer(1, 1, <<Arg(1)>>, <<Plus1(Arg(1), Arg(2))>>, <<0>>, Arg(1))
Steps3 == [t |-> 1 .. 3]
Sweeps ==
  [types |-> <<Steps3, Steps3>>, grow |-> 2, schedules |-> Whole1, passes |-> {}, bans |-> {}, labels |-> {}, rescalings |-> {}, places |-> {},
   ops |-> {Verb(Mul, 2)}
           \cup UNION {{Verb([op |-> "sweep", by |-> by, dim |-> "t"], by.element), Verb([op |-> "collapse", by |-> by, dims |-> <<"t">>], by.element)} :
                       by \in {LinRec, Moment, Twist, RunningSum}},
   inputs |-> {<<Vals(Steps3, LAMBDA p : p["t"] + 1), Vals(Steps3, LAMBDA p : 3 * p["t"] - 2)>>}]

\* Steps whose element only decides.
Recurrences ==
  [types |-> <<Line, Line>>, grow |-> 2, schedules |-> {}, passes |-> {"step"}, bans |-> {}, labels |-> {}, rescalings |-> {}, places |-> {},
   ops |-> {Verb(PwOp(Pw(f)), 2) : f \in {"mul", "add", "maximum"}} \cup {Verb(PwOp(Pw("where")), 3), Verb(PwOp(Pw("stop_gradient")), 1), Verb(SumOp(<<"a">>), 1)},
   inputs |-> {<<Vals(Line, LAMBDA p : p["a"] + 2), Vals(Line, LAMBDA p : p["a"])>>}]

\* Chains to checkpoint: a view, a contraction, closed forms, products.
Remats ==
  [types |-> <<Line>>, grow |-> 4, schedules |-> Whole1, passes |-> {"remat"}, bans |-> {DefaultBan}, labels |-> {}, rescalings |-> {}, places |-> {},
   ops |-> {Verb(Mul, 2), Verb(SumOp(<<"a">>), 1), Verb(RepeatOp("a", 0 .. 2), 1)},
   inputs |-> {<<Vals(Line, LAMBDA p : p["a"] + 2)>>}]

\* Stages, in a fold's step too.
StepStaged == Yield(Emit(Emit(Start(<<<<>>, <<>>>>), [op |-> "stage"], <<1>>, <<>>), Mul, <<3, 2>>, <<>>), <<4>>)
Stages ==
  [types |-> <<<<>>, Steps4>>, grow |-> 3, schedules |-> {}, passes |-> {"erase", "dce"}, bans |-> {}, labels |-> {}, rescalings |-> {}, places |-> {},
   ops |-> {Verb([op |-> "stage"], 1), Verb(Mul, 2), FoldVerb(1, 1, <<"final", 1>>, StepStaged)},
   inputs |-> {<<[p \in {<<>>} |-> 2], Vals(Steps4, LAMBDA p : p["t"] + 1)>>}]

\* Lengths, in two scales, times and speeds.
Metre == {BaseUnit("length")}
Milli == {Unit(-1, "length" :> 1)}
Second == {BaseUnit("time")}
Atom(by, name, exp) == [by |-> by, name |-> name, exp |-> exp]
Speed == {ParseUnit("m" :> BaseUnit("length") @@ "s" :> BaseUnit("time"), <<Atom("*", "s", -2), Atom("*", "m", 1), Atom("*", "s", 1)>>)}
Facts(us, vs) == {<<Info(Real, x), Info(Real, y)>> : x \in us, y \in vs}
Positive == {<<Vals(Line, LAMBDA p : p["a"] + 1), Vals(Line, LAMBDA p : 2 - p["a"])>>}
Reduced(f, dims) == Verb([op |-> "reduce", f |-> f, dims |-> dims], 1)
Measures ==
  [types |-> <<Line, Line>>, grow |-> 2, schedules |-> {}, passes |-> {}, bans |-> {},
   labels |-> Facts({Metre, {One}, {}}, {Metre, Milli, Second, Speed}), places |-> {},
   rescalings |-> {[length |-> 2, time |-> 3, scale |-> 5]},
   ops |-> {Verb(PwOp(Pw(f)), 2) : f \in {"add", "mul", "div"}}
           \cup {Verb(ScalarOp(0), 0), Verb(ScalarOp(2), 0), Reduced("sum", <<"a">>), Reduced("mean", <<"a">>),
                 Reduced("prod", <<"a">>)},
   inputs |-> Positive]
\* Comparisons, of values that stay small.
Compared ==
  [Measures EXCEPT !.labels = Facts({Metre, {}}, {Metre, Milli, Second}), !.rescalings = {[length |-> 2, time |-> 3, scale |-> 2]},
   !.ops = {Verb(PwOp(Pw(f)), 2) : f \in {"maximum", "gt", "sub"}}
           \cup {Verb(PwOp(Pw("where")), 3), Verb(ScalarOp(0), 0), Reduced("max", <<"a">>)}]
\* The exponential of pure numbers.
Pures ==
  [Measures EXCEPT !.labels = Facts({Metre, {One}}, {Metre, Second, {One}}),
   !.ops = {Verb(PwOp(Pw("exp")), 1), Verb(PwOp(Pw("div")), 2), Verb(PwOp(Pw("mul")), 2), Verb([op |-> "repeat_like"], 2)}]
\* The exponential of a ratio of two scales, for which units are not honest.
MCRatios == {[Pures EXCEPT !.labels = {<<Info(Real, Metre), Info(Real, Milli)>>}]}
\* A carried length that starts from nothing.
Travelled ==
  [types |-> <<<<>>, Steps4>>, grow |-> 2, schedules |-> {}, passes |-> {}, bans |-> {}, places |-> {},
   labels |-> Facts({{}, {One}, Metre}, {{One}, Metre, Second}), rescalings |-> {[length |-> 2, time |-> 3, scale |-> 5]},
   ops |-> {FoldVerb(1, 1, <<"final", 1>>, StepSum), FoldVerb(1, 1, <<"emit", 0>>, StepSum), FoldVerb(1, 1, <<"final", 1>>, Step1),
            FoldVerb(2, 1, <<"final", 2>>, StepTwo), Verb(ConstOp(0, <<>>), 0)},
   inputs |-> {<<[p \in {<<>>} |-> 0], Vals(Steps4, LAMBDA p : p["t"])>>}]

\* Recurrences of lengths and of pure numbers.
Swept1 ==
  [Measures EXCEPT !.labels = Facts({Metre, {One}, {}}, {Metre, Second, {One}}),
   !.ops = UNION {{Verb([op |-> "sweep", by |-> by, dim |-> "a"], by.element), Verb([op |-> "collapse", by |-> by, dims |-> <<"a">>], by.element)} :
                  by \in {LinRec, Moment, Twist, RunningSum}} \cup {Verb(Mul, 2)}]

\* A matrix over the devices of a node and the nodes of a cluster.
Meshes ==
  [types |-> <<[a |-> 0 .. 1, b |-> 0 .. 1], [b |-> 0 .. 1]>>, grow |-> 3, schedules |-> {}, passes |-> {}, bans |-> {}, labels |-> {},
   rescalings |-> {},
   places |-> {[bound |-> bound, machine |-> machine] :
                 bound \in {<<"a" :> "gpu", <<>>>>, <<"b" :> "gpu", "b" :> "gpu">>, <<[a |-> "gpu", b |-> "node"], "b" :> "node">>},
                 machine \in {[gpu |-> 2, node |-> 3], [gpu |-> 1, node |-> 2]}},
   ops |-> {Reduced("sum", <<"a">>), Reduced("max", <<"b", "a">>), Verb(Mul, 2), Verb([op |-> "repeat_like"], 2),
            Verb([op |-> "merge", parts |-> <<"a", "b">>, new |-> "m", start |-> 0], 1), Verb(RenameOp("b", "c"), 1),
            Verb([op |-> "scan", f |-> "sum", dim |-> "b"], 1), Verb(FlipOp("a"), 1), Verb(BindOp("b" :> "rack"), 1)},
   inputs |-> {}]
\* Rows of a bound matrix added up one at a time, and picked.
StepRow == Yield(Emit(Emit(Start(<<<<>>, [b |-> 0 .. 1]>>), SumOp(<<"b">>), <<2>>, <<>>), AddOp, <<1, 3>>, <<>>), <<4, 3>>)
Rows ==
  [types |-> <<<<>>, [t |-> 1 .. 3, b |-> 0 .. 1], [c |-> 0 .. 1]>>, grow |-> 2, schedules |-> {}, passes |-> {}, bans |-> {}, labels |-> {},
   rescalings |-> {},
   places |-> {[bound |-> <<<<>>, bound, idx>>, machine |-> "gpu" :> 3 @@ "node" :> 2] :
                 bound \in {"b" :> "node", "t" :> "gpu"}, idx \in {<<>>, "c" :> "gpu"}},
   ops |-> {FoldVerb(1, 1, <<"final", 1>>, StepRow), FoldVerb(1, 1, <<"emit", 0>>, StepRow), Verb([op |-> "take", dim |-> "t"], 2),
            Verb([op |-> "take", dim |-> "b"], 2), Verb([op |-> "argsort", dim |-> "t"], 1), Reduced("sum", <<"c">>),
            Verb([op |-> "scatter_add", dim |-> "z", lo |-> 0, hi |-> 2, over |-> {"c"}], 2)},
   inputs |-> {}]

\* Units over a square: a gain with a tap and a dropout, one tied to it, one
\* that declares the gain otherwise.
Fn1(code, body, result) == Fn(code, <<"h">>, body, result)
AsLike(name) == CallOf("repeat_like", <<Var(name), Var("h")>>)
Gain == [as |-> "g", name |-> "g", ty |-> [b |-> 0 .. 1]]
Scaled ==
  [params |-> <<Gain>>, sites |-> <<[as |-> "y_site", name |-> "y", key |-> 1], [as |-> "drop", name |-> "drop", key |-> 2]>>, uses |-> <<>>,
   fn |-> Fn1("scaled", <<Let(<<"y">>, Infix("mul", Var("h"), AsLike("g"))), Let(<<>>, CallOf("tap", <<Var("y"), Var("y_site")>>))>>,
              CallOf("dropout", <<Var("y"), Lit(3), Var("drop")>>))]
Tied ==
  [params |-> <<Gain, [as |-> "w", name |-> "w", ty |-> Square]>>, sites |-> <<>>, uses |-> <<>>,
   fn |-> Fn1("tied", <<Let(<<"y">>, Infix("add", Var("w"), AsLike("g")))>>, Infix("mul", Var("y"), Infix("sub", Var("h"), Lit(1))))]
Clashing == [params |-> <<[as |-> "v", name |-> "v", ty |-> Line], [Gain EXCEPT !.ty = Line]>>, sites |-> <<>>, uses |-> <<>>,
             fn |-> Fn1("clashing", <<>>, NegOf(Var("h")))]
Knob(x) == [params |-> <<>>, sites |-> <<>>, uses |-> <<>>,
            fn |-> With(Fn1("knob", <<>>, Infix("mul", Var("h"), Var("k"))), "k" :> HostInt(x))]
Sessions(more) ==
  more @@ [types |-> <<Square>>, grow |-> 0, schedules |-> Whole1, passes |-> {"vjp", "dce"}, bans |-> {}, labels |-> {}, rescalings |-> {}, places |-> {},
           ops |-> {}, inputs |-> {}]
Plan0 == [makers |-> <<>>, paths |-> {"a"}, defs |-> <<>>, boxes |-> {Square}, requests |-> {{}}, steps |-> <<>>, length |-> 2, builds |-> 2,
          restarts |-> 0, first |-> 1]
\* Shared leaves, taps and policies; conflicting leaves, captured values and
\* what the cache keeps from one scope to the next.
Piped == Sessions([session |-> [Plan0 EXCEPT !.makers = <<Scaled, Tied>>, !.requests = {{}, {"a.y"}}, !.builds = 1]])
Kept1 == Sessions([session |-> [Plan0 EXCEPT !.makers = <<Knob(2), Knob(3), Clashing>>, !.paths = {"a", "c"}, !.restarts = 1, !.length = 1]])
\* An edit of a constant, which the bytecode leaves out: the first is served.
Edited(x) == [params |-> <<>>, sites |-> <<>>, uses |-> <<>>, fn |-> Fn1("edited", <<>>, Infix("mul", Var("h"), Lit(x)))]
MCEdits == {Sessions([session |-> [Plan0 EXCEPT !.makers = <<Edited(2), Edited(3)>>, !.restarts = 1, !.length = 1]])}

\* Markers and reducers: one defined twice, one whose state is a record, one
\* of two parts, one that is refused.
X(n) == Var(n)
Op2(f, x, y) == Infix(f, x, y)
GateAs(c) == [v |-> "marker", name |-> "gate",
              fn |-> With(Fn("gate", <<"x", "y">>, <<Let(<<"t">>, CallOf("maximum", <<X("x"), X("y")>>))>>,
                             Op2("sub", Op2("mul", X("t"), X("c")), NegOf(X("y")))), "c" :> Host(c))]
LinClass == "Lin" :> [v |-> "class", fields |-> <<"a", "b">>]
Lin == [v |-> "reducer", name |-> "lin", fields |-> <<"a", "b">>, state |-> 2, element |-> 2, init |-> <<1, 0>>,
        lift |-> With(Fn("lin.lift", <<"x", "y">>, <<>>, CallWith("Lin", <<X("x")>>, <<<<"b", X("y")>>>>)), LinClass),
        combine |-> With(Fn("lin.combine", <<"l", "r">>, <<>>,
                            CallOf("Lin", <<Op2("mul", Dot(X("l"), "a"), Dot(X("r"), "a")),
                                            Op2("add", Op2("mul", Dot(X("r"), "a"), Dot(X("l"), "b")), Dot(X("r"), "b"))>>)), LinClass),
        project |-> Fn("lin.project", <<"s">>, <<>>, Dot(X("s"), "b"))]
Spread == [v |-> "reducer", name |-> "spread", fields |-> <<>>, state |-> 2, element |-> 1, init |-> <<0, 0>>,
           lift |-> Fn("spread.lift", <<"x">>, <<>>, Several(<<X("x"), Op2("mul", X("x"), Lit(2))>>)),
           combine |-> Fn("spread.combine", <<"l", "r">>, <<Let(<<"a", "b">>, X("l"))>>,
                          Several(<<Op2("add", X("a"), ItemOf(X("r"), 1)), Op2("add", X("b"), Op2("sub", ItemOf(X("r"), 2), ItemOf(X("r"), 1)))>>)),
           project |-> Fn("spread.project", <<"a", "b">>, <<>>, Op2("sub", X("b"), X("a")))]
Lost == [v |-> "marker", name |-> "lost", fn |-> Fn("lost", <<"x">>, <<>>, Op2("mul", X("x"), X("nowhere")))]
Use(as, def) == [as |-> as, def |-> def]
StepOf(fn, boxes, host, uses) == [fn |-> fn, boxes |-> boxes, host |-> host, uses |-> uses]
XW == [x |-> Square, w |-> [b |-> 0 .. 1]]
Like(x, y) == CallOf("repeat_like", <<x, y>>)

\* Helpers: defaults, names their caller has too, numbers only.
Affine == [Fn("affine", <<"h", "s">>, <<>>, Op2("add", Op2("mul", X("h"), X("s")), X("k"))) EXCEPT !.kwonly = <<"k">>, !.defaults = "k" :> Host(2)]
Nudge == With(Fn("nudge", <<"h">>, <<>>, Op2("add", X("h"), X("k"))), "k" :> Host(5))
Twice == [Fn("twice", <<"n", "m">>, <<>>, Op2("add", X("n"), X("m"))) EXCEPT !.defaults = "m" :> HostInt(1)]
Helped == StepOf(With(Fn("helped", <<"x", "w">>,
    <<Let(<<"k">>, Op2("mul", X("x"), Lit(3))), Let(<<"y">>, CallOf("affine", <<X("x"), X("k")>>)),
      Let(<<"z", "y">>, Several(<<CallWith("affine", <<X("y"), Like(X("w"), X("x"))>>, <<<<"k", Lit(1)>>>>), CallOf("nudge", <<X("k")>>)>>))>>,
    Several(<<X("z"), X("y"), NegOf(X("w"))>>)), [affine |-> Affine, nudge |-> Nudge]), XW, <<>>, <<>>)
\* What is known when the body is lowered: extents, numbers, records, texts.
Sized == StepOf(With(Fn("sized", <<"x", "n">>,
    <<Let(<<"m">>, CallOf("twice", <<CallOf("extent", <<X("x"), Text("b")>>)>>)), Let(<<"p">>, Several(<<X("m"), Dot(X("cfg"), "lo")>>)), Let(<<"q">>, ItemOf(X("p"), 1)),
      Let(<<"y">>, CallOf("const_like", <<X("x"), Op2("sub", X("q"), Count1(1))>>)),
      Let(<<"u">>, CallOf("pointwise", <<X("add"), X("y"), CallOf("const_like", <<X("x"), Lit(2)>>)>>)),
      Let(<<"v">>, Send(X("u"), "slice", <<>>, <<<<"b", Several(<<Dot(X("cfg"), "lo"), X("n")>>)>>>>))>>,
    Several(<<X("u"), X("v"), CallOf("iota", <<X("v"), Text("a")>>)>>)),
    [twice |-> Twice, cfg |-> RecordV(<<"lo", "hi">>, <<HostInt(0), HostInt(2)>>)]), "x" :> Square, "n" :> HostInt(1), <<>>)
\* Reads and additions at places computed from the lattice.
TableBox == [a |-> 0 .. 2]
Keyed == <<"dim", Text("a")>>
Picked == StepOf(Fn("picked", <<"t", "i">>,
    <<Let(<<"at">>, CallOf("iota", <<X("i"), Text("c")>>)), Let(<<"got">>, CallWith("take", <<X("t"), X("at")>>, <<Keyed>>)),
      Let(<<"sum1">>, CallWith("scatter_add", <<X("got"), X("at")>>, <<Keyed, <<"extent", Count1(3)>>>>)),
      Let(<<"count">>, CallWith("scatter_add", <<CallOf("const_like", <<X("at"), Lit(1)>>), X("at")>>,
                                <<Keyed, <<"extent", Several(<<Count1(0), Count1(3)>>)>>, <<"over", Text("c")>>>>))>>,
    Several(<<X("sum1"), X("count"), CallWith("argsort", <<X("t")>>, <<Keyed>>),
              CallWith("argtopk", <<X("t")>>, <<Keyed, <<"k", Count1(2)>>, <<"k_name", Text("top")>>>>)>>)),
    [t |-> TableBox, i |-> [c |-> 0 .. 1]], <<>>, <<>>)
\* The methods.
M(x, name, a, kw) == Send(x, name, a, kw)
Viewed == StepOf(Fn("moved", <<"x">>,
    <<Let(<<"y">>, M(M(X("x"), "rename", <<>>, <<<<"a", Text("c")>>>>), "flip", <<Text("b")>>, <<>>)),
      Let(<<"z">>, M(M(X("y"), "repeat", <<Text("r"), Count1(2)>>, <<>>), "shift", <<>>, <<<<"c", Count1(1)>>>>)),
      Let(<<"m">>, M(X("x"), "merge", <<Several(<<Text("a"), Text("b")>>), Text("m")>>, <<>>)),
      Let(<<"s">>, M(X("m"), "split", <<Text("m")>>, <<<<"p", Count1(2)>>, <<"q", Count1(2)>>>>))>>,
    Several(<<M(X("z"), "select", <<>>, <<<<"b", Count1(1)>>, <<"r", Count1(0)>>>>), M(X("s"), "diagonal", <<Several(<<Text("p"), Text("q")>>), Text("d")>>, <<>>),
              M(X("x"), "pad", <<Lit(4)>>, <<<<"a", Several(<<Count1(0), Count1(3)>>)>>>>)>>)), "x" :> Square, <<>>, <<>>)
\* Contractions, markers and reducers.
Reduced1 == StepOf(Fn("reduced", <<"x", "w">>,
    <<Let(<<"c">>, CallOf("contract", <<X("x"), X("w"), Text("b")>>)), Let(<<"g">>, CallOf("pointwise", <<X("gate"), X("x"), Lit(2)>>)),
      Let(<<"r">>, CallOf("scan", <<X("lin"), Several(<<X("g"), X("x")>>), Text("b")>>))>>,
    Several(<<X("c"), X("r"), CallWith("reduce", <<X("spread"), X("x")>>, <<<<"dims", Text("a")>>>>),
              CallOf("reduce", <<X("sum"), X("r"), Several(<<Text("a"), Text("b")>>)>>), CallOf("scan", <<X("max"), X("x"), Text("a")>>)>>)),
    XW, <<>>, <<Use("gate", 1), Use("lin", 3), Use("spread", 4)>>)
\* What is refused: a branch, a value of this body in a structural slot, an
\* argument too many, no such name, and numbers only.
No(result) == StepOf(With(Fn("no", <<"x">>, <<Let(<<"y">>, NegOf(X("x")))>>, result), "nudge" :> Nudge), "x" :> Line, <<>>, <<>>)
Refusing == <<No(Branch(<<X("x")>>)), No(M(X("x"), "repeat", <<Text("r"), X("y")>>, <<>>)), No(CallOf("nudge", <<X("x"), X("x")>>)),
              No(CallOf("nowhere", <<X("x")>>)), No(Op2("add", Lit(1), Lit(2)))>>
Lifted1 == Sessions([session |-> [Plan0 EXCEPT !.defs = <<GateAs(3), GateAs(4), Lin, Spread, Lost>>, !.builds = 0,
                                               !.steps = <<Helped, Sized, Picked, Viewed, Reduced1>> \o Refusing]])

MCFamilies == {Arithmetic, Layouts1, Reductions, Indexing, Folds1, Sweeps, Recurrences, Remats, Stages, Measures, Compared, Pures, Swept1, Travelled, Meshes, Rows, Piped, Kept1, Lifted1}
=============================================================================
