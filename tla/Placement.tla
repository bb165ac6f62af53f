----------------------------- MODULE Placement ------------------------------
(***************************************************************************)
(* The machine tree and the traffic pass (tensorlib placement.py): dims    *)
(* are bound to the levels of a machine, and what has to be communicated   *)
(* is read off the operations along bound dims.  The levels of a value are *)
(* a function of its bound dims, which goes where its dims go (dialect.py  *)
(* _infer_base and the layouts).  A machine gives each level how many      *)
(* there are of it.                                                        *)
(***************************************************************************)
EXTENDS Dialect

BindOp(levels) == [op |-> "bind", levels |-> levels]
Only(f, S) == [n \in DOMAIN f \cap S |-> f[n]]
\* The dims a view operation is about.
Touched(o) ==
  CASE o.op = "select" -> DOMAIN o.points
    [] o.op = "merge" -> Range(o.parts)
    [] o.op = "diagonal" -> o.parts
    [] OTHER -> {o.dim}

-----------------------------------------------------------------------------
(* LEVELS *)

\* The levels of what a node makes of operands with levels lev.
LevelsOut(n, args, lev, step) ==
  LET o == n.o
  IN  CASE o.op = "bind" -> o.levels @@ lev[1]
        [] o.op \in {"scalar", "const"} -> <<>>
        [] o.op = "pointwise" -> lev[CHOOSE i \in DOMAIN args : ~IsScalar(args[i])]
        [] o.op = "rename" -> IF o.dim \in DOMAIN lev[1] THEN (o.new :> lev[1][o.dim]) @@ Without(lev[1], {o.dim}) ELSE lev[1]
        [] o.op = "repeat_like" -> lev[1] @@ Without(lev[2], DOMAIN args[1].ty)
        [] o.op = "take" -> Without(lev[1], {o.dim}) @@ Only(lev[2], Spliced(o, args[1], args[2]))
        [] o.op = "scatter_add" -> Without(lev[1], o.over \cup {o.dim})
        [] o.op \in {"split", "merge", "diagonal"} -> Without(lev[1], Touched(o))
        [] o.op = "fold" -> IF o.out[1] = "final" THEN lev[o.out[2]] ELSE step[Len(step)]
        [] OTHER -> Only(lev[1], DOMAIN n.ty)
\* What the step of a fold is given: the states, and elements without its dim.
StepBound(o, lev) == [j \in DOMAIN lev |-> IF j <= o.states THEN lev[j] ELSE Without(lev[j], {o.dim})]
RECURSIVE LevelsOf(_, _)
LevelsOf(r, bound) ==
  LET Yielded(step, given) == LET all == LevelsOf(step, given) IN [j \in DOMAIN step.out |-> all[step.out[j]]]
      Visit(acc, n) ==
        LET lev == [j \in DOMAIN n.args |-> acc[n.args[j]]]
            step == IF n.o.op = "fold" THEN Yielded(n.sub[1], StepBound(n.o, lev)) ELSE <<>>
        IN  Append(acc, IF n.o.op = "param" THEN bound[Len(acc) + 1]
                        ELSE LevelsOut(n, [j \in DOMAIN n.args |-> r.nodes[n.args[j]]], lev, step))
  IN  FoldLeft(Visit, <<>>, r.nodes)
\* Operands that meet have the same levels (tensor.py _frame_issue), and what
\* a fold carries keeps its own.
RECURSIVE Placeable(_, _)
Placeable(r, bound) ==
  LET lev == LevelsOf(r, bound)
  IN  \A i \in DOMAIN r.nodes :
        LET n == r.nodes[i]
            given == StepBound(n.o, [j \in DOMAIN n.args |-> lev[n.args[j]]])
        IN  /\ n.o.op = "pointwise" => \A a \in Range(n.args) : IsScalar(r.nodes[a]) \/ lev[a] = lev[i]
            /\ n.o.op = "fold" =>
                 /\ Placeable(n.sub[1], given)
                 /\ \A j \in 1 .. n.o.states : LevelsOf(n.sub[1], given)[n.sub[1].out[j]] = given[j]

-----------------------------------------------------------------------------
(* TRAFFIC *)

ItemSize == 8
\* Bound dims index devices, not memory.
LocalBytes(b, lev) == ItemSize * Volume(Without(b, DOMAIN lev))
CheckBound(b, lev, machine) ==
  \A n \in DOMAIN lev : lev[n] \in DOMAIN machine /\ Extent(b, n) <= machine[lev[n]]

Surgery == {"slice", "select", "shift", "flip", "decimate", "window", "stencil", "pad", "split", "diagonal"}
\* What the model does not cover refuses.
Modelled(n, args, lev) ==
  LET o == n.o
      Bound(j, d) == d \in DOMAIN lev[j]
      At(j, d) == IF Bound(j, d) THEN lev[j][d] ELSE "unbound"
  IN  CASE o.op \in {"take", "argtopk", "argsort", "scan"} -> ~Bound(1, o.dim)
        [] o.op = "scatter_add" -> \A d \in DOMAIN args[2].ty : At(1, d) = At(2, d) /\ (Bound(2, d) => d \notin o.over)
        [] o.op = "fold" -> Len(args) > o.states => ~Bound(o.states + 1, o.dim)
        [] o.op \in Surgery -> \A d \in Touched(o) : ~Bound(1, d)
        [] OTHER -> TRUE
Event(kind, level, bytes) == [kind |-> kind, level |-> level, bytes |-> bytes]
\* A reduction of a bound dim is an all-reduce, in a ring; a merge of bound
\* parts gathers them.
Implied(n, src, lev, local) ==
  LET o == n.o
      Over1(d, kind, times) == Event(kind, lev[d], (times * (Extent(src, d) - 1) * local) \div Extent(src, d))
      Bound(dims) == SelectSeq(dims, LAMBDA d : d \in DOMAIN lev)
  IN  CASE o.op = "reduce" -> [k \in DOMAIN Bound(o.dims) |-> Over1(Bound(o.dims)[k], "all_reduce", 2)]
        [] o.op = "merge" -> [k \in DOMAIN Bound(o.parts) |-> Over1(Bound(o.parts)[k], "all_gather", 1)]
        [] OTHER -> <<>>
\* Variant: the local part of what is reduced, not of what it is reduced to.
ImpliedBySource(n, src, lev, local) == Implied(n, src, lev, LocalBytes(src, lev))
NodeEvents(n, src, lev, local) == Implied(n, src, lev, local)

\* The events of each node of the region, in order; the report of a region one
\* of whose nodes is not covered, or bound where the machine is not, is none.
RECURSIVE Traffic(_, _, _)
Traffic(r, bound, machine) ==
  LET lev == LevelsOf(r, bound)
      Steps(n, given) ==
        LET sub == Traffic(n.sub[1], StepBound(n.o, given), machine)
            times == Cardinality(FoldDim(n.o, [j \in DOMAIN n.args |-> r.nodes[n.args[j]]]))
        IN  [ok |-> sub.ok, events |-> LET all == FlattenSeq(sub.events)
                                       IN  [k \in DOMAIN all |-> [all[k] EXCEPT !.bytes = @ * times]]]
      Visit(acc, i) ==
        LET n == r.nodes[i]
            args == [j \in DOMAIN n.args |-> r.nodes[n.args[j]]]
            given == [j \in DOMAIN n.args |-> lev[n.args[j]]]
            step == IF n.o.op = "fold" THEN Steps(n, given) ELSE [ok |-> TRUE, events |-> <<>>]
            here == IF n.o.op \in {"reduce", "merge"} THEN NodeEvents(n, args[1].ty, given[1], LocalBytes(n.ty, lev[i])) ELSE step.events
        IN  [ok |-> acc.ok /\ CheckBound(n.ty, lev[i], machine) /\ Modelled(n, args, given) /\ step.ok,
             events |-> Append(acc.events, here)]
  IN  FoldLeft(Visit, [ok |-> TRUE, events |-> <<>>], [i \in DOMAIN r.nodes |-> i])
PerLevel(report, level) == FoldLeft(LAMBDA t, e : IF e.level = level THEN t + e.bytes ELSE t, 0, FlattenSeq(report.events))
=============================================================================
