------------------------------ MODULE Compiler ------------------------------
(***************************************************************************)
(* A call of reference(f) from syntax to value: Lowering, the two ABI      *)
(* stages (pack.py), the artifacts shared by the key of their IR           *)
(* (registry.py _build), the blocks of the rendered source (render.py) and *)
(* their run on the packed staging buffer (reference.py); beside it, what  *)
(* the syntax says in Python.                                              *)
(*                                                                         *)
(* A float is a number modulo a prime, where each has an inverse but zero, *)
(* whose quotients are zero: floats never trap.                            *)
(***************************************************************************)
EXTENDS Lowering

CONSTANTS Modulus,      \* a prime
          Families,     \* sets of [kernels, args, calls]
          None

VARIABLES family,    \* the kernels that are called, and with what
          artifacts, \* the artifacts rendered so far, in order: arguments, key, code
          call,      \* the kernel and the arguments of the last call
          result     \* how it ended, and its value
vars == <<family, artifacts, call, result>>

-----------------------------------------------------------------------------
(* THE NUMERIC POLICY (reference.py) *)

Magnitude(n) == IF n < 0 THEN -n ELSE n
TDiv(a, b) == LET q == Magnitude(a) \div Magnitude(b) IN IF (a < 0) = (b < 0) THEN q ELSE -q
Over(a, b) == IF b = 0 THEN 0 ELSE CHOOSE q \in 0 .. Modulus - 1 : (q * b) % Modulus = a
Like(v, n) == IF v.is = "float" THEN FloatValue(n % Modulus) ELSE IntValue(n)
Holds(pred, a, b) == CASE pred = "lt" -> a < b [] pred = "gt" -> a > b [] pred = "le" -> a <= b
                       [] pred = "ge" -> a >= b [] pred = "eq" -> a = b [] pred = "ne" -> a # b
Cast(t, v) == CASE t = f64 -> FloatValue(v.n % Modulus) [] t = i64 -> IntValue(v.n) [] OTHER -> BoolValue(v.n # 0)
Traps(op, vs) == op \in {"div", "mod"} /\ vs[1].is = "int" /\ vs[2].n = 0
Compute(op, attr, vs) ==
  LET a == vs[1]
      b == vs[2]
  IN  CASE op = "add" -> Like(a, a.n + b.n)
        [] op = "sub" -> Like(a, a.n - b.n)
        [] op = "mul" -> Like(a, a.n * b.n)
        [] op = "div" -> IF a.is = "float" THEN FloatValue(Over(a.n, b.n)) ELSE IntValue(TDiv(a.n, b.n))
        [] op = "mod" -> IF a.is = "float" THEN FloatValue(IF b.n = 0 THEN 0 ELSE a.n % b.n)
                         ELSE IntValue(a.n - TDiv(a.n, b.n) * b.n)
        [] op = "neg" -> Like(a, -a.n)
        [] op = "cmp" -> BoolValue(Holds(attr, a.n, b.n))
        [] op = "cast" -> Cast(attr, a)
        [] op = "select" -> IF a.n = 1 THEN b ELSE vs[3]
        [] op = "maximum" -> IF a.n >= b.n THEN a ELSE b
        [] op = "minimum" -> IF a.n <= b.n THEN a ELSE b
        [] op = "exp" -> FloatValue((a.n * a.n + 3) % Modulus)   \* some function
        [] op = "tuple" -> [is |-> "tuple", elems |-> vs]
        [] op = "extract" -> a.elems[attr]
        [] OTHER -> a   \* abs, floor and stop_gradient of a number from zero

-----------------------------------------------------------------------------
(* THE ABI: the reads of captures become slots of the staging buffer. *)

Types(vs) == Each(TypeOf, vs)
PlanFor(h, args) == Plan(Types(h.captures), Types(args))
BufferOf(plan, h, args) == PackInto(plan, Empty(plan), Extract(plan, Types(h.captures), Types(args), h.captures, args))
Buffer(h, args) == BufferOf(PlanFor(h, args), h, args)
\* The slots of a capture or of an argument; an artifact reads the offset of
\* its own plan, and finds a value of the kind there or something else.
SlotsFor(plan, root, path) ==
  {s \in Range(plan.slots) : s.entry.root = root /\ <<s.entry.index>> \o s.entry.sub = path}
SlotOf(plan, root, path) == CHOOSE s \in SlotsFor(plan, root, path) : TRUE
ReadAt(bytes, slot) ==
  IF ~(Bytes(slot) \subseteq DOMAIN bytes) THEN None
  ELSE LET v == bytes[slot.offset][1]
       IN  IF ScalarOf(v) = slot.entry.kind /\ \A o \in Bytes(slot) : bytes[o] = <<v, o - slot.offset>> THEN v ELSE None

\* NORMALIZE_ENV and legalize_params, node by node.
Legal(nodes, n) ==
  LET base == nodes[n.args[1]]
  IN  IF n.op \in {"extract", "field"}
      THEN IF base.op = "env" THEN [n EXCEPT !.op = "env", !.attr = Append(base.attr, n.attr), !.args = <<>>] ELSE n
      ELSE n
Legalized(st) == FoldLeft(LAMBDA nodes, i : [nodes EXCEPT ![i] = Legal(nodes, nodes[i])],
                             st.nodes, [i \in DOMAIN st.nodes |-> i])

-----------------------------------------------------------------------------
(* RENDERING: each node in the deepest block that dominates its uses. *)

Outs(n) == Each(LAMBDA r : r.out, n.regions)
RECURSIVE Visit(_, _, _)
Visit(nodes, seen, n) ==
  IF n \in Range(seen) THEN seen
  ELSE Append(FoldLeft(LAMBDA s, m : Visit(nodes, s, m), seen, nodes[n].args \o Outs(nodes[n])), n)
Topo(nodes, out) == Visit(nodes, <<>>, out)

\* The places a node is used from: its users' blocks, the regions it ends.
UsePaths(nodes, topo, out, owner, n) ==
  {owner[m] : m \in {u \in Range(topo) : n \in Range(nodes[u].args)}}
    \cup UNION {{Append(owner[m], <<m, i>>) : i \in {j \in DOMAIN nodes[m].regions : nodes[m].regions[j].out = n}} :
                m \in Range(topo)}
    \cup (IF n = out THEN {<<>>} ELSE {})
\* Variant: the block of one of the uses.
WithSomeUser(paths) == CHOOSE p \in paths : TRUE
Dominator(paths) == LongestCommonPrefix(paths)
Owners(nodes, topo, out) ==
  FoldLeft(LAMBDA owner, n : (n :> Dominator(UsePaths(nodes, topo, out, owner, n))) @@ owner, <<>>, Reverse(topo))
Binders(nodes, topo) == UNION {UNION {Range(r.params) : r \in Range(nodes[n].regions)} : n \in Range(topo)}

\* What the reference cannot render: a composite capture or argument used
\* whole, a field of anything else, a predicate it does not know.
Renders(plan, nodes, n) ==
  CASE nodes[n].op = "env" -> SlotsFor(plan, "env", nodes[n].attr) # {}
    [] nodes[n].op = "param" -> SlotsFor(plan, "arg", nodes[n].attr) # {}
    [] nodes[n].op = "field" -> FALSE
    [] nodes[n].op = "cmp" -> nodes[n].attr \in Preds
    [] nodes[n].op = "cast" -> nodes[n].type.type = "scalar"
    [] OTHER -> TRUE
Code(plan, nodes, out, topo, owner, emitted) ==
  [nodes |-> nodes, out |-> out, plan |-> plan, fine |-> \A n \in Range(emitted) : Renders(plan, nodes, n),
   blocks |-> [p \in {owner[n] : n \in Range(topo)} |-> SelectSeq(emitted, LAMBDA n : owner[n] = p)]]
Ordered(plan, nodes, out, topo) ==
  Code(plan, nodes, out, topo, Owners(nodes, topo, out), SelectSeq(topo, LAMBDA n : n \notin Binders(nodes, topo)))
Rendered(plan, nodes, out) == Ordered(plan, nodes, out, Topo(nodes, out))
-----------------------------------------------------------------------------
(* RUNNING the rendered source: its variables, and how it goes. *)

RECURSIVE RunBlock(_, _, _, _)
Assign1(run, n, v) == [run EXCEPT !.names = (n :> v) @@ @]
\* n = m, where m may have no value yet.
Copy(run, n, m) == IF run.how # "ok" THEN run
                   ELSE IF m \in DOMAIN run.names THEN Assign1(run, n, run.names[m]) ELSE [run EXCEPT !.how = "unbound"]
Reads(run, n, v) == IF v = None THEN [run EXCEPT !.how = "garbage"] ELSE Assign1(run, n, v)
Calculated(run, n, node, vs) ==
  IF Traps(node.op, vs) THEN [run EXCEPT !.how = "trap"] ELSE Assign1(run, n, Compute(node.op, node.attr, vs))
Statement(code, bytes, run, n) ==
  LET node == code.nodes[n]
  IN  CASE node.op \in {"env", "param"} ->
             Reads(run, n, ReadAt(bytes, SlotOf(code.plan, IF node.op = "env" THEN "env" ELSE "arg", node.attr)))
        [] node.op = "const" -> Assign1(run, n, node.attr)
        [] OTHER -> Calculated(run, n, node, Each(LAMBDA a : run.names[a], node.args))
BranchJoin(code, bytes, run, path, n) ==
  LET node == code.nodes[n]
      taken == IF run.names[node.args[1]].n # 0 THEN 1 ELSE 2
  IN  Copy(RunBlock(code, bytes, run, Append(path, <<n, taken>>)), n, node.regions[taken].out)
\* The result is the carry between iterations; an exit splits (carry, done).
LoopExit(run, n, pair) == [run |-> Assign1(run, n, pair[1]), stop |-> pair[2].n = 1]
LoopEnd(run, n, exits) ==
  IF exits /\ run.how = "ok" THEN LoopExit(run, n, run.names[n].elems) ELSE [run |-> run, stop |-> FALSE]
LoopPass(code, bytes, run, path, n, loop, i) ==
  LoopEnd(Copy(RunBlock(code, bytes, Copy(Assign1(run, loop.params[1], IntValue(i)), loop.params[2], n), Append(path, <<n, 1>>)),
               n, loop.out), n, code.nodes[n].attr)
Steps(lo, hi) == [k \in 1 .. hi - lo |-> lo + k - 1]
LoopJoin(code, bytes, run, path, n) ==
  LET node == code.nodes[n]
  IN  FoldLeft(LAMBDA state, i : IF state.stop \/ state.run.how # "ok" THEN state
                                 ELSE LoopPass(code, bytes, state.run, path, n, node.regions[1], i),
               [run |-> Copy(run, n, node.args[3]), stop |-> FALSE],
               Steps(run.names[node.args[1]].n, run.names[node.args[2]].n)).run
RunNode(code, bytes, run, path, n) ==
  LET node == code.nodes[n]
  IN  CASE run.how # "ok" -> run
        [] \E i \in DOMAIN node.args : node.args[i] \notin DOMAIN run.names -> [run EXCEPT !.how = "unbound"]
        [] node.op = "if" -> BranchJoin(code, bytes, run, path, n)
        [] node.op = "for" -> LoopJoin(code, bytes, run, path, n)
        [] OTHER -> Statement(code, bytes, run, n)
RunBlock(code, bytes, run, path) ==
  IF path \notin DOMAIN code.blocks THEN run
  ELSE FoldLeft(LAMBDA r, n : RunNode(code, bytes, r, path, n), run, code.blocks[path])

Ended(how, v) == [how |-> how, value |-> v]
RanTo(run, out) == IF run.how = "ok" THEN Ended("ok", run.names[out]) ELSE Ended(run.how, None)
Execute(code, bytes) == RanTo(RunBlock(code, bytes, [how |-> "ok", names |-> <<>>], <<>>), code.out)

-----------------------------------------------------------------------------
(* THE REGISTRY: an artifact for each key *)

RECURSIVE Content(_, _)
ContentOf(nodes, n) ==
  <<nodes[n].op, nodes[n].type, nodes[n].attr, Each(LAMBDA a : Content(nodes, a), nodes[n].args),
    Each(LAMBDA r : <<Each(LAMBDA p : Content(nodes, p), r.params), Content(nodes, r.out)>>, nodes[n].regions)>>
Content(nodes, n) == ContentOf(nodes, n)

Built(h, args) == LowerHandle(h, Types(args))
\* The key of a region: of a slot it holds the offset, of a parameter the
\* place and the type.
OffsetRead(plan, node) == [node EXCEPT !.attr = <<@, SlotOf(plan, "env", @).offset>>]
KeyOver(types, plan, nodes, out, topo) ==
  <<types, Content([n \in DOMAIN nodes |-> IF n \in topo /\ nodes[n].op = "env" THEN OffsetRead(plan, nodes[n]) ELSE nodes[n]], out)>>
ArtifactKey(args, plan, nodes, out) == KeyOver(Types(args), plan, nodes, out, Range(Topo(nodes, out)))

\* Variant: an artifact is looked for in vain.
NeverFound(args, key) == <<>>
\* The artifact there is for the key.
Found(args, key) == SelectSeq(artifacts, LAMBDA a : Len(a.args) = Len(args) /\ a.key = key)
Init == /\ family \in Families
        /\ artifacts = <<>>
        /\ call = None
        /\ result = None
Refusal == result' = Ended("refused", None) /\ UNCHANGED artifacts
\* A call runs the artifact of its key, a new one if there is none.
Serve(h, args, code, key) ==
  \E found \in {Found(args, key)} :
    IF found # <<>> THEN result' = Execute(found[1].code, Buffer(h, args)) /\ UNCHANGED artifacts
    ELSE /\ result' = Execute(code, Buffer(h, args))
         /\ artifacts' = Append(artifacts, [args |-> args, key |-> key, code |-> code])
Render(h, args, plan, nodes, out) ==
  \E code \in {Rendered(plan, nodes, out)} :
    IF ~code.fine THEN Refusal ELSE Serve(h, args, code, ArtifactKey(args, plan, nodes, out))
Call1(h, args) ==
  /\ call' = [kernel |-> h, args |-> args]
  /\ \E st \in {Built(h, args)} : IF ~st.ok THEN Refusal ELSE Render(h, args, PlanFor(h, args), Legalized(st), st.val)
  /\ UNCHANGED family
Next == \E h \in family.kernels, args \in family.args :
          Len(artifacts) < family.calls /\ Call1(h, args)
Spec == Init /\ [][Next]_vars

-----------------------------------------------------------------------------
(* WHAT THE SYNTAX SAYS: a run of the function, with the policy's numbers.  *)
(* A float has an identity (what it is computed from) and the slopes of its *)
(* dependence on the floats it came from; what an if or a loop gives is new.*)

None0 == <<>>
\* A number with its identity, of which its own slope is one.
Known1(v, id, slopes) ==
  v @@ [id |-> id, slope |-> IF v.is = "float" THEN (id :> 1) @@ slopes ELSE None0]
RECURSIVE Named(_, _)
Named(v, id) ==
  CASE v.is = "tuple" -> [v EXCEPT !.elems = [i \in DOMAIN v.elems |-> Named(v.elems[i], Append(id, i))]]
    [] v.is = "record" -> [v EXCEPT !.attrs = [f \in DOMAIN v.attrs |-> Named(v.attrs[f], Append(id, FieldAt(Record(v.class), f)))]]
    [] v.is \in Numbers -> Known1([is |-> v.is, n |-> v.n], id, None0)
    [] OTHER -> v
RECURSIVE Bare(_)
Bare(v) == CASE v.is = "tuple" -> [is |-> "tuple", elems |-> Each(Bare, v.elems)]
             [] v.is = "record" -> [is |-> "tuple", elems |-> Each(Bare, Attributes(v))]
             [] OTHER -> [is |-> v.is, n |-> v.n]

RECURSIVE TreeValue(_, _)
TreeValue(tree, vs) ==
  CASE tree.tree = "free" -> FloatValue(0)
    [] tree.tree = "arg" -> Bare(vs[tree.index])
    [] tree.tree = "const" -> FloatValue(tree.value % Modulus)
    [] tree.prim \in Preds -> LET l == TreeValue(tree.sub[1], vs)
                                  r == TreeValue(tree.sub[2], vs)
                              IN  FloatValue(BoolValue(Holds(tree.prim, l.n, r.n)).n)
    [] tree.prim = "where" -> IF TreeValue(tree.sub[1], vs).n # 0 THEN TreeValue(tree.sub[2], vs) ELSE TreeValue(tree.sub[3], vs)
    [] OTHER -> Compute(tree.prim, 0, Each(LAMBDA t : TreeValue(t, vs), tree.sub))
SlopesOf(op, vs) ==
  LET seeds == UNION {DOMAIN vs[i].slope : i \in DOMAIN vs}
      Toward(s, i) == IF s \in DOMAIN vs[i].slope /\ op \in Differentiable \cup {"cast"}
                      THEN (IF op = "cast" THEN 1 ELSE TreeValue(Row(op)[i], vs).n) * vs[i].slope[s] ELSE 0
  IN  [s \in seeds |-> FoldLeft(LAMBDA sum, i : (sum + Toward(s, i)) % Modulus, 0, [i \in DOMAIN vs |-> i])]
Did(r, op, attr, vs) ==
  IF Traps(op, vs) THEN [r EXCEPT !.how = "trap"]
  ELSE [r EXCEPT !.val = Known1(Compute(op, attr, Each(Bare, vs)),
                                <<op>> \o (IF op = "cmp" THEN <<attr>> ELSE <<>>) \o Each(LAMBDA a : a.id, vs), SlopesOf(op, vs))]
\* A value whose history is not looked at.
New(r, v) == [r EXCEPT !.val = Named(v, <<"new", r.news>>), !.news = @ + 1]

RECURSIVE Read(_, _)
RECURSIVE Perform(_, _)
ReadAll(r, es) == InTurn(r, LAMBDA q, e : Read(q, e), es)
PerformAll(r, stmts) == FoldLeft(Perform, r, stmts)
Bound(r, n, v) == IF r.how = "ok" THEN [r EXCEPT !.vars = (n :> v) @@ @] ELSE r
\* A function is entered with values for its parameters, and left with one.
Leave(r, sub) == [sub EXCEPT !.handle = r.handle, !.prefix = r.prefix, !.vars = r.vars]
Given(h, vs) == [n \in Range(h.params) |-> vs[CHOOSE i \in DOMAIN vs : h.params[i] = n]]
Enter(r, h, index, vs) ==
  Leave(r, PerformAll([r EXCEPT !.handle = h, !.prefix = Append(@, index), !.vars = Given(h, vs)], h.body))

Slope(v, u) == Known1(FloatValue(IF u.id \in DOMAIN v.slope THEN v.slope[u.id] ELSE 0), <<"slope", v.id, u.id>>, None0)
Derivative(v, u) == IF v.is = "record" THEN [v EXCEPT !.attrs = [f \in DOMAIN @ |-> Slope(@[f], u)]] ELSE Slope(v, u)
Made(type, vs) == [is |-> "record", class |-> type.class, attrs |-> [n \in Range(Fields(type.class)) |-> vs[FieldAt(type, n)]]]
CallSaid(r, impl, vs) ==
  CASE impl.is = "class" -> [r EXCEPT !.val = Made(Record(impl.class), vs)]
    [] impl.is = "macro" -> [r EXCEPT !.val = Derivative(vs[1], vs[2])]
    [] impl.is = "marker" -> Did(r, impl.op, 0, vs)
    [] OTHER -> Enter(r, impl, 1, vs)
ReadCall(r, f, vs) ==
  CASE f \in DOMAIN Casts -> Did(r, "cast", Casts[f], vs)
    [] Slots(r, f) # {} -> LET i == CHOOSE j \in Slots(r, f) : TRUE IN Enter(r, r.handle.env[i].value, i, vs)
    [] OTHER -> CallSaid(r, Overloads[f], vs)
\* The operands of and, or and a chain, up to the one that decides.
Decide(r, e) ==
  LET Step(q, i) == IF q.how # "ok" \/ (q.val.n = 1) # (e.op = "and") THEN q ELSE Read(q, e.args[i])
  IN  FoldLeft(Step, Read(r, e.args[1]), [i \in 1 .. Len(e.args) - 1 |-> i + 1])
LinkRead(right, left, op) ==
  IF right.how # "ok" THEN right ELSE [Did(right, "cmp", op, <<left, right.val>>) EXCEPT !.left = right.val]
LinkSaid(q, e, i) ==
  IF q.how # "ok" \/ (i > 1 /\ q.val.n = 0) THEN q ELSE LinkRead(Read(q, e.args[i + 1]), q.left, e.ops[i])
Links(r, e) == FoldLeft(LAMBDA q, i : LinkSaid(q, e, i), ChainFrom(Read(r, e.args[1])), [i \in DOMAIN e.ops |-> i])
Anew(v) == IF v.how # "ok" THEN v ELSE New(v, v.val)
ArmSaid(c, e) == IF c.how # "ok" THEN c ELSE Anew(Read(c, e.args[IF c.val.n # 0 THEN 2 ELSE 3]))
Chosen(r, e) == ArmSaid(Read(r, e.args[1]), e)
CaptureRead(r, i) == [r EXCEPT !.val = Named(r.handle.env[i].value, <<"env">> \o r.prefix \o <<i>>)]
Looked(r, n) ==
  CASE n \in DOMAIN r.vars -> [r EXCEPT !.val = r.vars[n]]
    [] n \notin DOMAIN r.vars /\ Slots(r, n) = {} -> [r EXCEPT !.how = "unbound"]
    [] OTHER -> CaptureRead(r, CHOOSE i \in Slots(r, n) : TRUE)
SendSaid(self, name, vs) ==
  IF self.how # "ok" THEN self ELSE Enter(self, Methods[<<self.val.class.name, name>>], 1, <<self.val>> \o vs)
ApplySaid(q, e) ==
  CASE q.how # "ok" -> q
    [] e.ast = "Tuple" -> [q EXCEPT !.val = [is |-> "tuple", elems |-> q.vals]]
    [] e.ast = "Subscript" -> [q EXCEPT !.val = q.val.elems[e.index]]
    [] e.ast = "Attribute" -> [q EXCEPT !.val = q.val.attrs[e.name]]
    [] e.ast = "Call" -> ReadCall(q, e.func, q.vals)
    [] e.ast = "Send" -> SendSaid(Read(q, e.self), e.name, q.vals)
    [] OTHER -> Did(q, OpOf(e), 0, q.vals)
Applying(r, e) == ApplySaid(ReadAll(r, e.args), e)
Read(r, e) ==
  CASE r.how # "ok" -> r
    [] e.ast = "Constant" -> [r EXCEPT !.val = Known1(e.value, <<"const", e.value.is, e.value.n>>, None0)]
    [] e.ast = "Name" -> Looked(r, e.id)
    [] e.ast = "BoolOp" -> Decide(r, e)
    [] e.ast = "Compare" -> Links(r, e)
    [] e.ast = "IfExp" -> Chosen(r, e)
    [] OTHER -> Applying(r, e)

\* What an if or a loop assigns has no history afterwards.
BoundLast(v, n) == Bound(v, n, v.val)
Renew(r, stmts) ==
  FoldLeft(LAMBDA q, n : IF n \in DOMAIN q.vars THEN BoundLast(New(q, q.vars[n]), n) ELSE q, r, Assigned(stmts))
Asked(c) == [r |-> c, stop |-> c.how = "ok" /\ c.val.n = 1]
StmtSaid(state, stmt) ==
  CASE state.stop -> state
    [] ~state.stop /\ IsExit(stmt) -> Asked(Read(state.r, stmt.test))
    [] OTHER -> [r |-> Perform(state.r, stmt), stop |-> FALSE]
PassSaid(r, s, i) ==
  FoldLeft(StmtSaid, [r |-> Bound(r, s.name, Known1(IntValue(i), <<"i", r.news>>, None0)), stop |-> FALSE], s.body)
LoopSaid(bounds, s, lo, hi) ==
  Renew(FoldLeft(LAMBDA state, i : IF state.stop \/ state.r.how # "ok" THEN state ELSE PassSaid(Renew(state.r, s.body), s, i),
                 [r |-> bounds, stop |-> FALSE], Steps(lo, hi)).r, s.body)
RepeatOver(bounds, s) ==
  IF bounds.how # "ok" THEN bounds
  ELSE LoopSaid(bounds, s, IF Len(s.bounds) = 2 THEN bounds.vals[1].n ELSE 0, bounds.vals[Len(s.bounds)].n)
Repeat(r, s) == RepeatOver(ReadAll(r, s.bounds), s)
AssignSaid(v, s) ==
  CASE v.how # "ok" -> v
    [] v.how = "ok" /\ Len(s.names) = 1 -> Bound(v, s.names[1], v.val)
    [] OTHER -> FoldLeft(LAMBDA q, i : Bound(q, s.names[i], v.val.elems[i]), v, [i \in DOMAIN s.names |-> i])
Forgotten(taken, s) == IF taken.how # "ok" THEN taken ELSE Renew(taken, s.body \o s.orelse)
IfSaid(c, s) == IF c.how # "ok" THEN c ELSE Forgotten(PerformAll(c, IF c.val.n = 1 THEN s.body ELSE s.orelse), s)
Perform(r, s) ==
  CASE r.how # "ok" -> r
    [] s.ast = "Return" -> Read(r, s.value)
    [] s.ast = "Assign" -> AssignSaid(Read(r, s.value), s)
    [] s.ast = "AugAssign" -> Perform(r, Let(<<s.name>>, Bin(s.op, Var(s.name), s.value)))
    [] s.ast = "If" -> IfSaid(Read(r, s.test), s)
    [] s.ast = "For" -> Repeat(r, s)
    [] OTHER -> r

PipeSaid(r, stages) ==
  FoldLeft(LAMBDA q, i : IF q.how # "ok" THEN q ELSE Enter(q, stages[i], i, <<q.val>>), r, [i \in DOMAIN stages |-> i])
SlopesSaid(base, h, given) ==
  Each(LAMBDA w : Slope(base.val, given[CHOOSE i \in DOMAIN given : h.captures[1].params[i] = w]), h.wrt)
GradSaid(base, h, given) ==
  IF base.how # "ok" THEN base
  ELSE [base EXCEPT !.val = [is |-> "tuple", elems |-> <<@, [is |-> "tuple", elems |-> SlopesSaid(base, h, given)]>>]]
HandleSaid(r, h, given) ==
  CASE h.is = "pipe" -> PipeSaid([r EXCEPT !.val = given[1]], h.captures)
    [] h.is = "value_and_grad" -> GradSaid(Enter(r, h.captures[1], 1, given), h, given)
    [] OTHER -> PerformAll([r EXCEPT !.vars = Given(h, given)], h.body)
EndSaid(r) == IF r.how = "ok" THEN Ended("ok", Bare(r.val)) ELSE Ended(r.how, None)
Reading(h, args) ==
  EndSaid(HandleSaid([vars |-> <<>>, val |-> None, vals |-> <<>>, left |-> None, how |-> "ok", news |-> 0, handle |-> h, prefix |-> <<>>],
                     h, [i \in DOMAIN args |-> Named(args[i], <<"arg", i>>)]))

-----------------------------------------------------------------------------
(* PROPERTIES *)

RECURSIVE HasType(_, _)
HasType(v, t) ==
  IF t.type = "scalar" THEN v.is = (CASE t = f64 -> "float" [] t = boolean -> "bool" [] OTHER -> "int")
  ELSE LET parts == Children(t)
       IN  v.is = "tuple" /\ Len(v.elems) = Len(parts) /\ \A i \in DOMAIN parts : HasType(v.elems[i], parts[i])

Called == call # None
TypeOK ==
  /\ family \in Families
  /\ Len(artifacts) <= family.calls
  /\ \A i, j \in DOMAIN artifacts :
       i # j => Len(artifacts[i].args) # Len(artifacts[j].args) \/ artifacts[i].key # artifacts[j].key
  /\ Called => /\ call.kernel \in family.kernels /\ call.args \in family.args
               /\ result.how \in {"ok", "refused", "trap", "unbound", "garbage"}

Says(said) == said.how = "ok" => result = said
\* A call that is not refused ends as its syntax says in Python, with the
\* numbers of the policy; only a computation whose result is never used may
\* be left out with its trap.
CompiledMeansSource ==
  Called /\ result.how # "refused" =>
    Says(Reading(call.kernel, call.args))

\* The rendered source never reads a name that has no value yet, and neither
\* would Python: names that some path leaves unbound are refused.
NothingUnbound ==
  Called /\ result.how # "refused" => result.how # "unbound" /\ Reading(call.kernel, call.args).how # "unbound"

HasTypeIn(v, st) == HasType(v, TypeAt(st, st.val))
\* A value has the type the IR says: types are checked once, when it is built.
ResultHasItsType ==
  Called /\ result.how = "ok" =>
    HasTypeIn(result.value, Built(call.kernel, call.args))

\* What is built is typed: no name without a value is read, and each value
\* has its type.
BuildIsTyped == NothingUnbound /\ ResultHasItsType
=============================================================================
