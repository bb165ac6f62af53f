------------------------------- MODULE Slopes -------------------------------
(***************************************************************************)
(* Trees over the arguments of a marker, and the derivative table that     *)
(* both engines of dsl derivative.py share: the one over trees (diff) and  *)
(* the one over the IR of kernels (Tangents).                              *)
(***************************************************************************)
EXTENDS Integers, Sequences, SequencesExt

\* The schema (nodes.py): arguments, constants, applications.
Arg(i) == [tree |-> "arg", index |-> i]
Const(v) == [tree |-> "const", value |-> v]
Prim(op, args) == [tree |-> "prim", prim |-> op, sub |-> args]

Free == [tree |-> "free"]   \* no gradient flows to this operand
IsConst(t, v) == t.tree = "const" /\ t.value = v
Table(op) ==
  CASE op = "add" -> <<Const(1), Const(1)>>
    [] op = "sub" -> <<Const(1), Const(-1)>>
    [] op = "neg" -> <<Const(-1)>>
    [] op = "mul" -> <<Arg(2), Arg(1)>>
    [] op = "div" -> <<Prim("div", <<Const(1), Arg(2)>>),
                       Prim("neg", <<Prim("div", <<Arg(1), Prim("mul", <<Arg(2), Arg(2)>>)>>)>>)>>
    [] op = "maximum" -> <<Prim("ge", <<Arg(1), Arg(2)>>), Prim("gt", <<Arg(2), Arg(1)>>)>>
    [] op = "minimum" -> <<Prim("le", <<Arg(1), Arg(2)>>), Prim("lt", <<Arg(2), Arg(1)>>)>>
    [] op = "exp" -> <<Prim("exp", <<Arg(1)>>)>>
    [] op = "abs" -> <<Prim("where", <<Prim("ge", <<Arg(1), Const(0)>>), Const(1), Const(-1)>>)>>
    [] op = "where" -> <<Free, Prim("where", <<Arg(1), Const(1), Const(0)>>),
                               Prim("where", <<Arg(1), Const(0), Const(1)>>)>>
    [] OTHER -> <<Free, Free>>

RECURSIVE Subst(_, _)
Subst(t, args) ==
  CASE t.tree = "arg" -> args[t.index]
    [] t.tree = "prim" -> Prim(t.prim, [j \in DOMAIN t.sub |-> Subst(t.sub[j], args)])
    [] OTHER -> t
\* diff: the partial of a tree, zeros and ones folded away.
RECURSIVE Diff(_, _)
Diff(t, i) ==
  LET Term(j) ==
        LET inner == Diff(t.sub[j], i)
            row == Table(t.prim)[j]
            local == Subst(row, t.sub)
        IN  IF row = Free \/ IsConst(inner, 0) \/ IsConst(local, 0) THEN Const(0)
            ELSE IF IsConst(inner, 1) THEN local
            ELSE IF IsConst(local, 1) THEN inner
            ELSE Prim("mul", <<local, inner>>)
      Add(total, j) == LET term == Term(j)
                       IN  IF IsConst(term, 0) THEN total
                           ELSE IF IsConst(total, 0) THEN term ELSE Prim("add", <<total, term>>)
  IN  CASE t.tree = "arg" -> Const(IF t.index = i THEN 1 ELSE 0)
        [] t.tree = "const" -> Const(0)
        [] OTHER -> FoldLeft(Add, Const(0), [j \in DOMAIN t.sub |-> j])
=============================================================================
