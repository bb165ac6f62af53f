----------------------------- MODULE Transforms -----------------------------
(***************************************************************************)
(* What is done to a region once it is written (tensorlib transforms.py,   *)
(* memory.py, opcount.py; the general VJP of dialect.py): dead values      *)
(* dropped, stages erased, values recomputed instead of kept, the memory a *)
(* schedule needs, the scalar operations a region does.  Names are not     *)
(* looked at: a node is its place.                                         *)
(***************************************************************************)
EXTENDS Dialect

\* The region of the nodes of r that f gives, in order, then renumbered: the
\* nodes of keep, in the order of their places.
Restrict2(r, keep, out) ==
  LET order == SelectSeq([i \in DOMAIN r.nodes |-> i], LAMBDA i : i \in keep)
      Place(i) == CHOOSE j \in DOMAIN order : order[j] = i
      Moved(n) == [n EXCEPT !.args = [j \in DOMAIN @ |-> Place(@[j])]]
      params == SelectSeq([i \in DOMAIN r.params |-> i], LAMBDA i : i \in keep)
  IN  [params |-> [j \in DOMAIN params |-> r.params[params[j]]],
       nodes |-> [j \in DOMAIN order |-> Moved(r.nodes[order[j]])],
       out |-> [j \in DOMAIN out |-> Place(out[j])]]

-----------------------------------------------------------------------------
(* DEAD VALUES AND STAGES *)

\* dce: the outputs are the kept nodes, the params those they are made of.
Dce(r, kept) == Restrict2(r, Ancestors(r, Range(kept)), kept)
KeptParams(r, kept) == SelectSeq([i \in DOMAIN r.params |-> i], LAMBDA i : i \in Ancestors(r, Range(kept)))

\* erase_stages: every use of a stage is one of what it stages.
RECURSIVE Unstaged(_, _)
Unstaged(r, i) == IF r.nodes[i].o.op = "stage" THEN Unstaged(r, r.nodes[i].args[1]) ELSE i
\* Variant: the stages in the steps of folds stay.
OuterStages(r) ==
  LET out == [j \in DOMAIN r.out |-> Unstaged(r, r.out[j])]
      rebuilt == [r EXCEPT !.nodes = [i \in DOMAIN @ |-> [@[i] EXCEPT !.args = [j \in DOMAIN @ |-> Unstaged(r, @[j])]]],
                           !.out = out]
  IN  Restrict2(rebuilt, DOMAIN r.params \cup Ancestors(rebuilt, Range(out)), out)
RECURSIVE EraseStages(_)
EraseStages(r) ==
  LET Erased(n) == [n EXCEPT !.args = [j \in DOMAIN @ |-> Unstaged(r, @[j])],
                             !.sub = [j \in DOMAIN @ |-> EraseStages(@[j])]]
      out == [j \in DOMAIN r.out |-> Unstaged(r, r.out[j])]
      rebuilt == [r EXCEPT !.nodes = [i \in DOMAIN @ |-> Erased(@[i])], !.out = out]
  IN  Restrict2(rebuilt, DOMAIN r.params \cup Ancestors(rebuilt, Range(out)), out)

-----------------------------------------------------------------------------
(* THE MINIMUM CUT, Edmonds and Karp: an edge is a pair, the residual       *)
(* capacities a function of both directions of every edge.                  *)

Network(edges) ==
  [e \in DOMAIN edges \cup {<<e[2], e[1]>> : e \in DOMAIN edges} |-> IF e \in DOMAIN edges THEN edges[e] ELSE 0]
RECURSIVE Search(_, _)
Search(cap, parent) ==
  LET next == {e \in DOMAIN cap : cap[e] > 0 /\ e[1] \in DOMAIN parent /\ e[2] \notin DOMAIN parent}
  IN  IF next = {} THEN parent
      ELSE Search(cap, parent @@ [v \in {e[2] : e \in next} |-> (CHOOSE e \in next : e[2] = v)[1]])
RECURSIVE PathTo(_, _)
PathTo(parent, v) == IF parent[v] = v THEN {} ELSE {<<parent[v], v>>} \cup PathTo(parent, parent[v])
\* The source side of the residual graph once no path is left.
RECURSIVE SourceSide(_, _, _)
SourceSide(cap, s, t) ==
  LET parent == Search(cap, s :> s)
      path == PathTo(parent, t)
      aug == Min({cap[e] : e \in path})
  IN  IF t \notin DOMAIN parent THEN DOMAIN parent
      ELSE SourceSide([e \in DOMAIN cap |-> CASE e \in path -> cap[e] - aug
                                              [] <<e[2], e[1]>> \in path -> cap[e] + aug
                                              [] OTHER -> cap[e]], s, t)

-----------------------------------------------------------------------------
(* CHECKPOINTING a joint region at its target *)

View == ViewOps \cup {"strip_charts", "with_charts", "simplify", "with_value_units"}
Closed == {"iota", "const"}
DefaultBan == {"reduce", "scan", "collapse", "sweep", "fold"}
OpOf(r, i) == r.nodes[i].o.op
Costless(r, i) == OpOf(r, i) \in View \cup Closed \cup {"param", "scalar"}
\* Bytes in items: what a node is said to take.
Bytes(r, i) == IF Costless(r, i) THEN 0 ELSE Volume(r.nodes[i].ty)
BytesOf(r, S) == MapThenSumSet(LAMBDA i : Bytes(r, i), S)
RECURSIVE Root(_, _)
Root(r, i) == IF OpOf(r, i) \in View THEN Root(r, r.nodes[i].args[1]) ELSE i

Forward(r, target) == Ancestors(r, {target})
\* The forward values the backward part reads; an output is not a read.
ReadSet(r, target) ==
  LET fwd == Forward(r, target) IN UNION {ArgsOf(r, i) : i \in Range(Walk(r)) \ fwd} \cap fwd
\* What recomputing S takes, short of what is available.
RECURSIVE Recomputed(_, _, _)
Recomputed(r, S, available) ==
  LET more == S \cup (UNION {ArgsOf(r, i) : i \in S} \ available) IN IF more = S THEN S ELSE Recomputed(r, more, available)

\* What saving a node costs.  Variant: what is kept anyway costs again.
ForcedCostToo(r, rel, forced, v) ==
  CASE OpOf(r, v) \in Closed \cup {"param", "scalar"} -> 0
    [] OpOf(r, v) \in View -> BytesOf(r, rel) + 1
    [] OTHER -> Bytes(r, v)
Capacity(r, rel, forced, v) ==
  CASE v \in forced \/ OpOf(r, v) \in Closed \cup {"param", "scalar"} -> 0
    [] OpOf(r, v) \in View -> BytesOf(r, rel) + 1
    [] OTHER -> Bytes(r, v)
\* Demand comes from the params and from what recomputation may not redo.
Sources(r, rel, ban) == {v \in rel : OpOf(r, v) \in ban \cup {"param"}}
Edges(r, rel, forced, ban) ==
  LET inf == BytesOf(r, rel) + 1
  IN  [e \in {<<<<"i", v>>, <<"o", v>>>> : v \in rel} |-> Capacity(r, rel, forced, e[1][2])]
      @@ [e \in UNION {{<<<<"o", a>>, <<"i", v>>>> : a \in ArgsOf(r, v)} : v \in rel} |-> inf]
      @@ [e \in {<<<<"src", 0>>, <<"i", v>>>> : v \in Sources(r, rel, ban)} |-> inf]
ChosenCut(r, reads, rel, forced, ban) ==
  LET inf == BytesOf(r, rel) + 1
      sink == [e \in {<<<<"o", v>>, <<"snk", 0>>>> : v \in reads} |-> inf]
      side == SourceSide(Network(Edges(r, rel, forced, ban) @@ sink), <<"src", 0>>, <<"snk", 0>>)
  IN  {v \in rel : <<"i", v>> \in side /\ <<"o", v>> \notin side}

\* The region with a clone of every node of need, and every node of the
\* backward part that reads one rebuilt to read its clone.
Cloned(r, fwd, need) ==
  LET Copy(acc, i) ==
        LET n == r.nodes[i]
            args == [j \in DOMAIN n.args |-> IF n.args[j] \in DOMAIN acc.to THEN acc.to[n.args[j]] ELSE n.args[j]]
        IN  IF i \in need \/ (i \notin fwd /\ args # n.args)
            THEN [r |-> [acc.r EXCEPT !.nodes = Append(@, [n EXCEPT !.args = args])],
                  to |-> (i :> New(acc.r) + 1) @@ acc.to]
            ELSE acc
      all == FoldFar(Copy, [r |-> r, to |-> [i \in {} |-> 0]], [i \in DOMAIN r.nodes |-> i])
  IN  all
WithClones(r, fwd, need) ==
  LET all == Cloned(r, fwd, need)
  IN  [all.r EXCEPT !.out = [j \in DOMAIN @ |-> IF @[j] \in DOMAIN all.to THEN all.to[@[j]] ELSE @[j]]]

Checkpoint(r, target, ban, keep) ==
  LET fwd == Forward(r, target)
      reads == ReadSet(r, target)
      forced == ({target} \cup keep) \cap fwd
      rel == Ancestors(r, reads)
      cut == ChosenCut(r, reads, rel, forced, ban)
      available == cut \cup forced \cup {v \in rel : OpOf(r, v) = "param"}
      need == Recomputed(r, reads \ available, available)
  IN  IF reads = {} THEN [r |-> r, cut |-> {}, need |-> {}, forced |-> forced, before |-> 0, after |-> 0]
      ELSE [r |-> WithClones(r, fwd, need), cut |-> cut, need |-> need, forced |-> forced,
            before |-> BytesOf(r, {Root(r, v) : v \in reads} \ forced), after |-> BytesOf(r, cut)]

-----------------------------------------------------------------------------
(* MEMORY: the peak of the live items over a schedule, by one pass *)

\* The schedule: the params, then the rest as walked.
Scheduled(r) ==
  [i \in DOMAIN r.params |-> i] \o SelectSeq(Walk(r), LAMBDA i : OpOf(r, i) \notin {"param", "scalar"})
Aliases == View \cup {"repeat_like"}
RECURSIVE Allocation(_, _)
\* The node whose storage a value lives in; 0 for a closed form.
Allocation(r, i) ==
  IF OpOf(r, i) \in Aliases THEN Allocation(r, r.nodes[i].args[1]) ELSE IF OpOf(r, i) \in Closed \cup {"scalar", "random"} THEN 0 ELSE i
\* Where in the schedule each allocation is last read, or made if never.
LastUses(r, order, home) ==
  LET Use(acc, k) ==
        LET used == {home[a] : a \in ArgsOf(r, order[k])} \ {0}
            own == {home[order[k]]} \ ({0} \cup DOMAIN acc)
        IN  [a \in used \cup own |-> k] @@ acc
  IN  FoldFar(Use, <<>>, [k \in DOMAIN order |-> k])
RECURSIVE PeakMemory(_, _, _)
\* A fold holds a new carry and one step beside what is live.
Transient(r, i) ==
  LET n == r.nodes[i]
  IN  IF n.o.op # "fold" THEN 0
      ELSE FoldLeft(LAMBDA b, a : b + Volume(r.nodes[a].ty), 0, States(n.o, n.args))
           + PeakMemory(n.sub[1], Scheduled(n.sub[1]), TRUE)
PeakMemory(r, order, freeInputs) ==
  LET home == Tabled([i \in DOMAIN r.nodes |-> Allocation(r, i)])
      last == LastUses(r, order, home)
      Step(acc, k) ==
        LET i == order[k]
            alloc == IF home[i] = i THEN Volume(r.nodes[i].ty) ELSE 0
            held == acc.live \cup (IF home[i] = i THEN {i} ELSE {})
            dead == {a \in held : last[a] = k /\ (freeInputs \/ OpOf(r, a) # "param")}
        IN  [live |-> held \ dead,
             items |-> acc.items + alloc - MapThenSumSet(LAMBDA a : Volume(r.nodes[a].ty), dead),
             peak |-> Max({acc.peak, acc.items + alloc + Transient(r, i)})]
  IN  FoldFar(Step, [live |-> {}, items |-> 0, peak |-> 0], [k \in DOMAIN order |-> k]).peak

-----------------------------------------------------------------------------
(* OPERATION COUNTS: a function from the names of scalar operations *)

RECURSIVE TreeOps(_)
Count(c, op, n) == IF n = 0 THEN c ELSE (op :> (IF op \in DOMAIN c THEN c[op] ELSE 0) + n) @@ c
Together(c, d) == FoldSet(LAMBDA op, acc : Count(acc, op, d[op]), c, DOMAIN d)
Scale(c, n) == IF n = 0 THEN <<>> ELSE [op \in DOMAIN c |-> c[op] * n]
TreeOps(f) ==
  IF f.tree # "prim" THEN <<>> ELSE FoldLeft(LAMBDA c, g : Together(c, TreeOps(g)), f.prim :> 1, f.sub)
CombineName(f) == CASE f \in {"sum", "mean"} -> "add" [] f = "prod" -> "mul" [] f = "max" -> "maximum" [] OTHER -> "minimum"
TreesOps(trees) == FoldLeft(LAMBDA c, f : Together(c, TreeOps(f)), <<>>, trees)
\* A reducer with a state of its own: lift for each element, combine for each
\* but the first of a line, project for each answer.
SweepOps(by, elements, lines, answers) ==
  Together(Together(Scale(TreesOps(by.lift), elements), Scale(TreesOps(by.combine), elements - lines)), Scale(TreeOps(by.project), answers))
RECURSIVE TotalOps(_, _)
NodeOps(r, i, fuse) ==
  LET n == r.nodes[i]
      out == Volume(n.ty)
      in == Volume(r.nodes[n.args[1]].ty)
      lines == IF n.o.op \in {"reduce", "collapse"} THEN out ELSE in \div Extent(n.ty, n.o.dim)
      folds == Count(<<>>, CombineName(n.o.f), in - lines)
  IN  CASE n.o.op = "pointwise" -> Scale(TreeOps(n.o.f), out)
        [] n.o.op \in {"reduce", "scan"} ->
             IF n.o.f = "mean" THEN Count(folds, "div", IF n.o.op = "reduce" THEN lines ELSE in) ELSE folds
        [] n.o.op \in {"collapse", "sweep"} -> SweepOps(n.o.by, in, lines, out)
        [] n.o.op = "materialize" -> Count(<<>>, "copy", out)
        [] n.o.op = "take" -> Count(<<>>, "take", out)
        [] n.o.op = "scatter_add" -> Count(Count(<<>>, "scatter", in), "add", in)
        [] n.o.op \in {"argtopk", "argsort"} -> Count(<<>>, n.o.op, in)
        [] n.o.op = "fold" -> LET args == [j \in DOMAIN n.args |-> r.nodes[n.args[j]]]
                              IN  Scale(TotalOps(n.sub[1], fuse), Cardinality(FoldDim(n.o, args)))
        [] OTHER -> <<>>
\* A product that only a sum reads, once, is done in the sum's accumulator.
Consumers(r, i) ==
  FoldLeft(LAMBDA c, j : c + Cardinality({k \in DOMAIN r.nodes[j].args : r.nodes[j].args[k] = i}), 0, Walk(r))
Fused(r, i) ==
  /\ OpOf(r, i) = "reduce" /\ r.nodes[i].o.f = "sum"
  /\ LET src == r.nodes[i].args[1]
     IN  OpOf(r, src) = "pointwise" /\ r.nodes[src].o.f = Pw("mul") /\ Consumers(r, src) = 1
TotalOps(r, fuse) ==
  LET sums == IF fuse THEN {i \in Range(Walk(r)) : Fused(r, i)} ELSE {}
      products == {r.nodes[i].args[1] : i \in sums}
      Ops(i) == CASE i \in sums -> <<>>
                  [] i \in products -> "mac" :> Volume(r.nodes[i].ty)
                  [] OTHER -> NodeOps(r, i, fuse)
  IN  FoldFar(LAMBDA c, i : Together(c, Ops(i)), <<>>, Walk(r))
=============================================================================
