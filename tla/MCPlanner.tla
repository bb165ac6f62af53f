------------------------------ MODULE MCPlanner ------------------------------
(* Blocks of small models: a few tokens t and s, features e and o. *)
EXTENDS Planner

MCDims == <<"t", "s", "e", "o", "so", "si", "ko", "ki">>
TE == [t |-> 0 .. 1, e |-> 0 .. 1]
SE == [s |-> 0 .. 3, e |-> 0 .. 1]
SO == [s |-> 0 .. 3, o |-> 0 .. 1]
EO == [e |-> 0 .. 1, o |-> 0 .. 1]
O1 == [o |-> 0 .. 1]
Block(reads, lines) == [reads |-> reads, lines |-> lines]
XY(x, y) == [x |-> x, y |-> y]
P(f) == PwOp(Pw(f))

\* Product of two over a dim.
Contracted(x, y, dim) ==
  Block(XY(x, y), <<L("a", Like, <<"x", "y">>), L("b", Like, <<"y", "x">>), L("p", P("mul"), <<"a", "b">>),
                    L("z", ReduceOp("sum", <<dim>>), <<"p">>)>>)
Bias(x, y) == Block(XY(x, y), <<L("a", Like, <<"y", "x">>), L("z", P("add"), <<"x", "a">>)>>)
Elementwise(f, x) == Block(XY(x, x), <<L("z", P(f), <<"x", "y">>)>>)
Charted(x) == Block([x |-> x], <<L("c", [op |-> "with_charts", chart |-> "layer"], <<"x">>), L("z", P("mul"), <<"c", "x">>)>>)
SoftmaxLines(from, dim) ==
  <<L("mx", ReduceOp("max", <<dim>>), <<from>>), L("ml", Like, <<"mx", from>>), L("sb", P("sub"), <<from, "ml">>),
    L("ex", P("exp"), <<"sb">>), L("dn", ReduceOp("sum", <<dim>>), <<"ex">>), L("dl", Like, <<"dn", from>>),
    L("pr", P("div"), <<"ex", "dl">>)>>
SoftmaxOf(x, dim) == Block([x |-> x], SoftmaxLines("x", dim))
Normed(x, dim) ==
  Block([x |-> x], <<L("mu", ReduceOp("mean", <<dim>>), <<"x">>), L("ml", Like, <<"mu", "x">>), L("xc", P("sub"), <<"x", "ml">>),
                     L("sq", P("mul"), <<"xc", "xc">>), L("vr", ReduceOp("mean", <<dim>>), <<"sq">>), L("ep", ScalarAt(1), <<>>),
                     L("ve", P("add"), <<"vr", "ep">>), L("sd", P("sqrt"), <<"ve">>), L("sl", Like, <<"sd", "xc">>),
                     L("z", P("div"), <<"xc", "sl">>)>>)
Attention(q, k, v) ==
  Block([q |-> q, k |-> k, v |-> v],
        <<L("ql", Like, <<"q", "k">>), L("kl", Like, <<"k", "q">>), L("qk", P("mul"), <<"ql", "kl">>),
          L("sc", ReduceOp("sum", <<"e">>), <<"qk">>), L("it", IotaOp("t"), <<"sc">>), L("is", IotaOp("s"), <<"sc">>),
          L("mk", P("ge"), <<"it", "is">>), L("fl", ScalarAt(0), <<>>), L("sm", P("where"), <<"mk", "sc", "fl">>)>>
        \o SoftmaxLines("sm", "s") \o
        <<L("pl", Like, <<"pr", "v">>), L("vl", Like, <<"v", "pr">>), L("pv", P("mul"), <<"pl", "vl">>),
          L("z", ReduceOp("sum", <<"s">>), <<"pv">>)>>)
Scanned1(x, dim) == Block([x |-> x], <<L("z", [op |-> "scan", f |-> "sum", dim |-> dim], <<"x">>)>>)
Shifted(x, dim) ==
  Block([x |-> x], <<L("u", [op |-> "pad", dim |-> dim, lo |-> -1, hi |-> 3, fill |-> 0], <<"x">>),
                     L("v", ShiftOp(dim, 1), <<"u">>), L("w", ShiftOp(dim, -1), <<"u">>),
                     L("a", SliceOp(dim, 0, 2), <<"v">>), L("b", SliceOp(dim, 0, 2), <<"w">>), L("z", P("add"), <<"a", "b">>)>>)

\* Machines: bytes for a program, and the least work of one.
Roomy == [capacity |-> 1000, floor |-> 2]
Small == [capacity |-> 64, floor |-> 1]
\* Attention under other masks of the tokens, of which a row sees none or some.
Masked(lines) ==
  Block([q |-> {"t", "e"}, k |-> {"s", "e"}, v |-> {"s", "o"}],
        <<L("ql", Like, <<"q", "k">>), L("kl", Like, <<"k", "q">>), L("qk", P("mul"), <<"ql", "kl">>),
          L("sc", ReduceOp("sum", <<"e">>), <<"qk">>), L("it", IotaOp("t"), <<"sc">>), L("is", IotaOp("s"), <<"sc">>)>> \o lines
        \o <<L("fl", ScalarAt(0), <<>>), L("sm", P("where"), <<"mk", "sc", "fl">>)>> \o SoftmaxLines("sm", "s") \o
        <<L("pl", Like, <<"pr", "v">>), L("vl", Like, <<"v", "pr">>), L("pv", P("mul"), <<"pl", "vl">>),
          L("z", ReduceOp("sum", <<"s">>), <<"pv">>)>>)
Causal == Masked(<<L("mk", P("ge"), <<"it", "is">>)>>)
Banded == Masked(<<L("c", P("ge"), <<"it", "is">>), L("one", ScalarAt(1), <<>>), L("up", P("add"), <<"is", "one">>),
                   L("near", P("le"), <<"it", "up">>), L("mk", P("mul"), <<"c", "near">>)>>)
Strict == Masked(<<L("mk", P("lt"), <<"is", "it">>)>>)
Either == Masked(<<L("one", ScalarAt(1), <<>>), L("a", P("lt"), <<"is", "one">>), L("b", P("gt"), <<"is", "it">>),
                   L("mk", P("maximum"), <<"a", "b">>)>>)
TEd == {"t", "e"}
TOd == {"t", "o"}
Feeding ==
  [types |-> <<TE, EO, O1>>, grow |-> 3, machine |-> Roomy, joint |-> FALSE, inputs |-> {1, 5},
   blocks |-> {Contracted(TEd, {"e", "o"}, "e"), Bias(TOd, {"o"}), Elementwise("mul", TOd), SoftmaxOf(TOd, "o"),
               Normed(TOd, "o"), Scanned1(TOd, "t"), Charted(TOd), Shifted(TOd, "t"), Contracted(TOd, {"e", "o"}, "o")}]
Attending ==
  [types |-> <<TE, SE, SO, EO>>, grow |-> 3, machine |-> Roomy, joint |-> FALSE, inputs |-> {1, 5},
   blocks |-> {Attention(TEd, {"s", "e"}, {"s", "o"}), Contracted(TOd, {"e", "o"}, "o"), Elementwise("mul", TEd), Elementwise("add", TOd)}]
Backward ==
  [types |-> <<TE, EO, O1>>, grow |-> 2, machine |-> Small, joint |-> TRUE, inputs |-> {1, 5},
   blocks |-> {Contracted(TEd, {"e", "o"}, "e"), Bias(TOd, {"o"}), Elementwise("mul", TOd), SoftmaxOf(TOd, "o")}]
AttendingBack ==
  [types |-> <<TE, SE, SO>>, grow |-> 1, machine |-> Roomy, joint |-> TRUE, inputs |-> {1, 5}, blocks |-> {Attention(TEd, {"s", "e"}, {"s", "o"})}]
\* A running product along t, which no template takes.
Multiply == Yield(Emit(Start(<<[e |-> 0 .. 1], [e |-> 0 .. 1]>>), P("mul"), <<1, 2>>, <<>>), <<3>>)
Folded == Block([x |-> TEd], <<L("c", ConstOp(1, [e |-> 0 .. 1]), <<>>),
                              <<"z", [op |-> "fold", dim |-> "t", states |-> 1, out |-> <<"final", 1>>, lo |-> 0, hi |-> 0],
                                <<"c", "x">>, <<Multiply>>>>>>)
Folding == [types |-> <<TE>>, grow |-> 1, machine |-> Roomy, joint |-> FALSE, inputs |-> {1},
            blocks |-> {Folded, Elementwise("mul", TEd)}]
Rows4(machine) ==
  [types |-> <<[t |-> 0 .. 3, e |-> 0 .. 0], [s |-> 0 .. 3, e |-> 0 .. 0], [s |-> 0 .. 3, o |-> 0 .. 1]>>, grow |-> 1, machine |-> machine,
   joint |-> FALSE, inputs |-> {1}, blocks |-> {Causal, Banded, Strict, Either}]
MCFolds == {Folding}
MCModels == {Feeding, Attending, Backward, AttendingBack} \cup {Rows4([capacity |-> 1000, floor |-> f]) : f \in {2, 5}}
=============================================================================
