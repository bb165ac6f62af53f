------------------------------- MODULE Kernels -------------------------------
(***************************************************************************)
(* Launches of compute kernels (kernel.py) on the reference evaluator      *)
(* (run_region, dialect.py): the memo of artifacts, the geometry an entry  *)
(* binds, the overlap refusal, the staging bytes packed anew for every     *)
(* launch, and the one effect, stores.                                     *)
(*                                                                         *)
(* A tensor is a window on one memory: its frames and the cell where it    *)
(* starts, row by row.  A launch is compared with the reading of its body  *)
(* as Python, thread by thread.                                            *)
(***************************************************************************)
EXTENDS KernelLowering

CONSTANTS Families,   \* records: fns, memory, globals, edits, launches, calls
          None

VARIABLES family,
          mem,        \* the cells
          globals,    \* what the names of the bodies refer to now
          memo,       \* KERNELS: key -> artifact
          made,       \* MARKERS: the recipe each oracle marker was made with
          bindings,   \* _ARG_BINDINGS: marker -> the function bound last
          last,       \* the last launch, with the memory it met
          calls
vars == <<family, mem, globals, memo, made, bindings, last, calls>>

-----------------------------------------------------------------------------
(* Tensors over the memory. *)

RECURSIVE PointsOf(_)
PointsOf(fs) ==
  IF fs = <<>> THEN {<<>>}
  ELSE {(Head(fs).name :> i) @@ p : i \in Head(fs).lo..(Head(fs).hi - 1), p \in PointsOf(Tail(fs))}
\* The cell of a point, row by row.
Cell(t, p) == t.base + FoldLeft(LAMBDA n, f : n * Size(f) + p[f.name] - f.lo, 0, t.frames)
Cells(t) == {Cell(t, p) : p \in PointsOf(t.frames)}
Overlaps(t, u) == Cells(t) \cap Cells(u) # {}
Tabled(f) == f @@ <<>>
-----------------------------------------------------------------------------
(* The identity of a launch. *)

\* The bytecode of a function: its constants are not in it.
CodeFp(fn) == <<fn.name, fn.params, fn.body>>
\* What the body can see: data by type, literals by value, helpers by code.
RECURSIVE EnvFp(_, _)
EnvFp(fn, env) ==
  LET entry(x) == LET v == env[x] IN
        <<x, CASE v[1] = "data" -> <<"data">>
               [] v[1] = "literal" -> <<"lit", v[2]>>
               [] v[1] = "fn" -> <<"fn", Fp(v[2])>>
               [] v[1] = "marker" -> <<"marker", v[2]>>
               [] v[1] = "helper" -> <<"code", CodeFp(v[2]), EnvFp(v[2], env)>> >>
  IN {entry(x) : x \in ToSet(fn.names) \cap DOMAIN env}
ArgFp(a) == IF IsTensorArg(a) THEN <<"tensor", a.frames>> ELSE <<"fn", Fp(a.handle)>>
KeyOf(l, env) == <<CodeFp(l.fn), EnvFp(l.fn, env), Each(ArgFp, l.args), Each(LAMBDA t : t.name, l.taps)>>
-----------------------------------------------------------------------------
(* The reading: what a body says in Python, for one thread.  A thread has   *)
(* its coordinates (raw), its variables, and its view of the memory: the    *)
(* memory of the launch under what it has stored itself.                    *)

Num(n) == <<"num", n>>
Point(frame, n) == <<"coord", frame, n>>
View(s, cell) == IF cell \in DOMAIN s.own THEN s.own[cell] ELSE s.mem[cell]
ValueOf(v) == v[IF v[1] = "coord" THEN 3 ELSE 2]
Truth(v) == v[2] # 0

RECURSIVE Says(_, _), Runs(_, _)
\* A call, on the values of its arguments.
Applied(s, fn, captures, args) ==
  LET named == [x \in ToSet(fn.names) |-> Num(captures[CapturesAt(fn, x)])]
      vars0 == [x \in ToSet(fn.params) |-> args[IndexOf(fn.params, x)]] @@ (IF captures = <<>> THEN <<>> ELSE named)
  IN Runs([s EXCEPT !.fn = fn, !.locals = vars0], fn.body).out
Twice(v, n) == IF n = 0 THEN v ELSE IF v[1] = "tuple" THEN Many(Each(LAMBDA w : Num(2 ^ n * w[2]), v[2])) ELSE Num(2 ^ n * v[2])
HandleSays(s, h, args) == Twice(Applied(s, h.fn, h.captures, args), Len(h.staged))
Loaded(s, t, vs) ==
  IF vs[1][1] = "coord"
  THEN View(s, Cell(t, [d \in {f.name : f \in ToSet(t.frames)} |->
                          ValueOf(CHOOSE v \in ToSet(vs) : v[2].name = d)]))
  ELSE View(s, Cell(t, [d \in {f.name : f \in ToSet(t.frames)} |->
                          vs[CHOOSE i \in DOMAIN vs : t.frames[i].name = d][2]]))
PlaceOf(s, b, t) ==
  LET g == s.geom  axis == SubSeq(t[2].name, 1, Len(t[2].name) - 1)
      flat == FrameOf(s.lattice, axis)
  IN IF NormGeom(g) = NoGeom THEN t
     ELSE Point(IF flat # <<>> THEN flat[1] ELSE t[2], b[3] * Size(t[2]) + t[3])
Says(s, e) ==
  LET arg(i) == Says(s, e.args[i])
      args == [i \in DOMAIN e.args |-> arg(i)]
      f == IF e.id \in DOMAIN s.locals THEN s.locals[e.id] ELSE s.globals[e.id]
  IN CASE e.ast = "Constant" -> Num(Const(s.fn, e.at))
       [] e.ast = "Name" -> IF f[1] \in {"data", "literal"} THEN Num(f[2]) ELSE f
       [] e.ast \in {"BinOp", "Compare", "UnaryOp"} -> Num(PW(e.op, Each(ValueOf, args)))
       [] e.ast = "IfExp" -> IF Truth(arg(1)) THEN arg(2) ELSE arg(3)
       [] e.ast = "BoolOp" -> IF e.op = "or" THEN Num(IF \E v \in ToSet(args) : Truth(v) THEN 1 ELSE 0)
                              ELSE Num(IF \A v \in ToSet(args) : Truth(v) THEN 1 ELSE 0)
       [] e.ast = "Tuple" -> Many(args)
       [] e.ast = "Ambient" -> Many([i \in DOMAIN e.axes |->
                                 CASE e.op = "thread" -> s.thread[i] [] e.op = "block" -> s.block[i]
                                   [] OTHER -> PlaceOf(s, s.block[i], s.thread[i])])
       [] e.ast = "Global" -> Many([i \in DOMAIN arg(1)[2] |-> PlaceOf(s, arg(1)[2][i], arg(2)[2][i])])
       [] e.ast = "Coerce" -> Num(ValueOf(arg(1)))
       [] e.ast = "Extent" -> Num(Size(arg(1)[2]))
       [] e.ast = "Rename" -> Point([arg(1)[2] EXCEPT !.name = e.dim], arg(1)[3])
       [] e.ast = "Stage" -> Function([f[2] EXCEPT !.staged = Append(@, "doubled")])
       [] e.ast = "Subscript" -> Num(Loaded(s, f[2], args))
       [] e.ast = "Call" -> CASE f[1] = "fn" -> HandleSays(s, f[2], args)
                              [] f[1] = "helper" -> Applied(s, f[2], <<>>, args)
                              [] f[1] = "marker" -> Num(PW(f[2], Each(ValueOf, args)))
Set(s, x, v) == [s EXCEPT !.locals = (x :> v) @@ @, !.bound = (x :> v) @@ @]
\* A loop ends where its exit is asked and true.
RECURSIVE Marches(_, _, _, _)
Marches(s, stmt, k, hi) ==
  LET i == [s EXCEPT !.locals = (stmt.id :> Num(k)) @@ @]
  IN IF k >= hi \/ (stmt.done # Never /\ Truth(Says(i, stmt.done))) THEN s
     ELSE Marches([i EXCEPT !.locals = (stmt.carry :> Says(i, stmt.step)) @@ @], stmt, k + 1, hi)
Does(s, stmt) ==
  LET v == Says(s, stmt.value)
      lo == Says(s, stmt.bounds[1])[2]
      hi == Says(s, stmt.bounds[2])[2]
      at == Each(LAMBDA e : Says(s, e), stmt.args)
      t == s.locals[stmt.id][2]
      cell == Cell(t, [d \in {f.name : f \in ToSet(t.frames)} |-> (CHOOSE w \in ToSet(at) : w[2].name = d)[3]])
  IN CASE stmt.ast = "Assign" -> IF ~stmt.pattern THEN Set(s, stmt.names[1], v)
                                 ELSE FoldLeft(LAMBDA a, i : Set(a, stmt.names[i], v[2][i]), s, [i \in DOMAIN stmt.names |-> i])
       [] stmt.ast = "Store" -> [s EXCEPT !.own = (cell :> v[2]) @@ @]
       [] stmt.ast = "If" -> Runs(s, IF Truth(Says(s, stmt.test)) THEN stmt.body ELSE stmt.orelse)
       [] stmt.ast = "For" -> FoldLeft(LAMBDA a, k : Runs([a EXCEPT !.locals = (stmt.id :> Num(k)) @@ @], stmt.body), s,
                                       IF lo < hi THEN [i \in 1..(hi - lo) |-> lo + i - 1] ELSE <<>>)
       [] stmt.ast = "March" -> Marches(s, stmt, lo, hi)
       [] stmt.ast = "Return" -> [s EXCEPT !.out = v]
Runs(s, stmts) == FoldLeft(Does, s, stmts)

\* The thread at a point of the lattice, which is the last tensor's.
Thread(l, p) ==
  LET ts == SelectSeq(l.args, IsTensorArg)
      fs == ts[Len(ts)].frames
      g == NormGeom(l.geom)
      n == Len(g.blocks)
      flat == Len(fs) = n
      tile(i) == <<Frame(BlockOf(fs[i].name), 0, g.blocks[i]), Frame(ThreadOf(fs[i].name), 0, g.threads[i])>>
      block(i) == CASE g = NoGeom -> Point(Frame(BlockOf(fs[i].name), 0, 1), 0)
                    [] g # NoGeom /\ flat -> Point(tile(i)[1], p[fs[i].name] \div g.threads[i])
                    [] OTHER -> Point(fs[2 * i - 1], p[fs[2 * i - 1].name])
      thread(i) == CASE g = NoGeom -> Point(fs[i], p[fs[i].name])
                     [] g # NoGeom /\ flat -> Point(tile(i)[2], p[fs[i].name] % g.threads[i])
                     [] OTHER -> Point(fs[2 * i], p[fs[2 * i].name])
      axes == IF g = NoGeom THEN DOMAIN fs ELSE 1..n
      args == [x \in ToSet(l.fn.params) |->
                 LET a == l.args[IndexOf(l.fn.params, x)] IN IF IsTensorArg(a) THEN <<"view", a>> ELSE Function(a.handle)]
  IN [fn |-> l.fn, locals |-> args, globals |-> l.globals, mem |-> l.mem, own |-> <<>>, bound |-> <<>>, out |-> <<"none">>,
      geom |-> l.geom, lattice |-> fs, block |-> [i \in axes |-> block(i)], thread |-> [i \in axes |-> thread(i)]]
Lattice0(l) == LET ts == SelectSeq(l.args, IsTensorArg) IN ts[Len(ts)]
Threads(l) == Tabled([p \in PointsOf(Lattice0(l).frames) |-> Runs(Thread(l, p), l.fn.body)])
-----------------------------------------------------------------------------
(* The evaluator.  A value is a view of an argument, read when it is used, *)
(* a field, a number or a token; r.memo holds the nodes evaluated so far.  *)

Field0(r, v) == IF v[1] = "view" THEN Tabled([p \in PointsOf(v[2].frames) |-> r.mem[Cell(v[2], p)]]) ELSE v[2]
At(v, f, p) == IF v[1] = "num" THEN v[2] ELSE f[p]
Trap(r, why) == [r EXCEPT !.trap = why]
Done(r, i, v) == [r EXCEPT !.memo = (i :> v) @@ @]
Sub(p, fs) == [d \in {f.name : f \in ToSet(fs)} |-> p[d]]

\* One output of the function bound to an oracle marker, through the reference.
OutputAt(v, m) == IF m[2] = 0 THEN v[2] ELSE v[2][m[3]][2]
Dispatched(r, f, xs) ==
  LET s == [fn |-> None, locals |-> <<>>, globals |-> <<>>, mem |-> <<>>, own |-> <<>>, bound |-> <<>>, out |-> <<>>,
            geom |-> NoGeom, lattice |-> <<>>, block |-> <<>>, thread |-> <<>>]
      h == r.bindings[f[1]]
  IN OutputAt(HandleSays(s, [h EXCEPT !.staged = @ \o [i \in 1..f[2] |-> "doubled"]], Each(Num, xs)), f[1])
Rowwise(r, n, vs) ==
  LET fs == Each(LAMBDA v : IF v[1] = "num" THEN <<>> ELSE Field0(r, v), vs)
      f == n.at
      row(p) == [i \in DOMAIN vs |-> At(vs[i], fs[i], Sub(p, n.ty.fs))]
  IN <<"field", Tabled([p \in PointsOf(n.ty.fs) |-> IF Len(f) = 1 THEN PW(f[1], row(p)) ELSE Dispatched(r, f, row(p))])>>
\* A read refuses what is out of bounds.
Indices(r, n, vs, p) == [i \in DOMAIN Tail(vs) |-> At(vs[i + 1], IF vs[i + 1][1] = "num" THEN <<>> ELSE Field0(r, vs[i + 1]), p)]
Gathered(r, n, vs) ==
  LET t == vs[1][2]
      at == Tabled([p \in PointsOf(n.ty.fs) |-> Indices(r, n, vs, p)])
      cell(ix) == Cell(t, [d \in {f.name : f \in ToSet(t.frames)} |-> ix[CHOOSE i \in DOMAIN t.frames : t.frames[i].name = d]])
  IN IF \E p \in DOMAIN at, i \in DOMAIN t.frames : ~(at[p][i] >= t.frames[i].lo /\ at[p][i] < t.frames[i].hi)
     THEN <<"none">>
     ELSE <<"field", Tabled([p \in DOMAIN at |-> r.mem[cell(at[p])]])>>
Rejoined(r, n, v) ==
  LET f == Field0(r, v)  dim == n.at
      T == Size(FrameOf(r.nodes[n.args[1]].ty.fs, ThreadOf(dim))[1])
      apart(p) == (BlockOf(dim) :> p[dim] \div T) @@ (ThreadOf(dim) :> p[dim] % T) @@ p
  IN <<"field", Tabled([p \in PointsOf(n.ty.fs) |-> f[[d \in {g.name : g \in ToSet(r.nodes[n.args[1]].ty.fs)} |-> apart(p)[d]]]])>>
\* The store: through the buffer of its target.
Stored(r, t, v) ==
  LET f == IF v[1] = "num" THEN <<>> ELSE Field0(r, v)
  IN [r EXCEPT !.mem = Tabled([c \in Cells(t) |-> At(v, f, CHOOSE p \in PointsOf(t.frames) : Cell(t, p) = c)]) @@ @]

RECURSIVE Ev(_, _)
Ev(r, i) ==
  LET n == r.nodes[i]
      q == FoldLeft(LAMBDA a, j : IF a.trap # "" THEN a ELSE Ev(a, j), r, n.args)
      vs == Each(LAMBDA j : q.memo[j], n.args)
      dim == n.at[1]
  IN CASE i \in DOMAIN r.memo -> r
       [] i \notin DOMAIN r.memo /\ q.trap # "" -> q
       [] n.op = "core.const" -> Done(q, i, Num(n.at[1]))
       [] n.op = "abi.slot" -> Done(q, i, Num(q.staging[n.at[2]]))
       [] n.op = "tl.token" -> Done(q, i, <<"token">>)
       [] n.op \in {"tl.coord", "tl.split"} -> Done(q, i, vs[1])
       [] n.op = "tl.const" -> Done(q, i, <<"field", Tabled([p \in PointsOf(n.ty.fs) |-> n.at[1]])>>)
       [] n.op = "tl.iota" -> Done(q, i, <<"field", Tabled([p \in PointsOf(n.ty.fs) |-> p[dim]])>>)
       [] n.op = "tl.pointwise" -> IF Len(n.at) = 2 /\ n.at[1] \notin DOMAIN q.bindings THEN Trap(q, "unbound marker")
                                   ELSE Done(q, i, Rowwise(q, n, vs))
       [] n.op = "tl.read" -> LET g == Gathered(q, n, vs) IN IF g = <<"none">> THEN Trap(q, "out of bounds") ELSE Done(q, i, g)
       [] n.op = "tl.merge" -> Done(q, i, Rejoined(q, n, vs[1]))
       [] n.op = "tl.store" -> Done(Stored(q, vs[2][2], vs[3]), i, <<"token">>)
       [] OTHER -> Done(q, i, Num(PW(n.at[1], Each(ValueOf, vs))))
RunRegion(nodes, out, values, m, staging, bound) ==
  Ev([nodes |-> nodes, memo |-> values, mem |-> m, staging |-> staging, bindings |-> bound, trap |-> ""], out)
-----------------------------------------------------------------------------
(* Launches. *)

NoResult == [status |-> "none"]
Env(l) == l.cells @@ globals
\* What an entry of the memo keeps.
Artifact(l, c, taps, geom) ==
  [nodes |-> c.nodes, out |-> c.tok, fn |-> l.fn, cells |-> l.cells, geometry |-> geom, taps |-> taps,
   writable |-> ToSet(c.stored), uniforms |-> [x \in DOMAIN c.uniforms |-> c.nodes[c.uniforms[x][2]].at[2]],
   blocks |-> {[param |-> b.param, fixed |-> b.fixed, wrap |-> b.wrap, base |-> b.base] : b \in Range(c.blocks)},
   size |-> c.size, markers |-> c.markers, order |-> c.order, sites |-> DOMAIN c.claims, invalid |-> c.invalid]

Bound(l) == [x \in {<<"arg", y>> : y \in ToSet(l.fn.params)} |-> l.args[IndexOf(l.fn.params, x[2])]]
            @@ [x \in {<<"tap", t.name>> : t \in ToSet(l.taps)} |-> (CHOOSE t \in ToSet(l.taps) : t.name = x[2]).tensor]
\* A block of several must match the entry; a single one must cover the lattice.
GeometryAgrees(l, art) == NormGeom(l.geom) = NormGeom(art.geometry)
Covers(l) ==
  LET fs == Lattice0(l).frames IN
  NormGeom(l.geom) = NoGeom => \A i \in DOMAIN l.geom.threads : i \in DOMAIN fs => l.geom.threads[i] >= Size(fs[i])
\* Nothing that is written overlaps what is only read.
Disjoint(l, art) ==
  \A w \in art.writable, x \in DOMAIN Bound(l) \ art.writable :
    IsTensorArg(Bound(l)[x]) => ~Overlaps(Bound(l)[w], Bound(l)[x])
Rebound(l, art) ==
  FoldLeft(LAMBDA b, p : [m \in {k[2] : k \in {j \in art.markers : j[1] = p}} |-> Bound(l)[<<"arg", p>>].handle] @@ b,
           bindings, art.order)
\* The staging bytes: the numbers of the environment, the captures of the functions.
Packed(l, art) ==
  LET own == art.cells @@ globals
      handle(b) == IF b.param = "" THEN b.fixed ELSE Bound(l)[<<"arg", b.param>>].handle
      at(o) == {x \in DOMAIN art.uniforms : art.uniforms[x] = o}
      block(o) == {b \in art.blocks : o \in b.base..(b.base + Len(handle(b).captures) - 1)}
      capture(b, o) == handle(b).captures[o - b.base + 1]
  IN [o \in 0..(art.size - 1) |->
        IF at(o) # {} THEN own[CHOOSE x \in at(o) : TRUE][2] ELSE IF block(o) = {} THEN 0 ELSE capture(CHOOSE b \in block(o) : TRUE, o)]
ArgsOf(l) == SelectSeq(l.args, IsTensorArg) \o Each(LAMBDA t : t.tensor, l.taps)
ParamsOf(nodes) == SelectSeq([i \in DOMAIN nodes |-> i], LAMBDA i : nodes[i].op = "core.param")
Given(params, tensors) == [i \in ToSet(params) |-> <<"view", tensors[IndexOf(params, i)]>>]
Executed(l, art, bound) == RunRegion(art.nodes, art.out, Given(ParamsOf(art.nodes), ArgsOf(l)), mem, Packed(l, art), bound)
Result(l, status, art) ==
  [status |-> status, fn |-> l.fn, args |-> l.args, geom |-> l.geom, taps |-> l.taps, mem |-> mem,
   globals |-> Env(l), sites |-> art.sites, invalid |-> art.invalid]
NoArtifact == [sites |-> {}, invalid |-> {}]

\* What the memo has for a launch; a miss builds, and a build may refuse.
FromBuild(l, c, taps, geom) ==
  [bad |-> c.bad, made |-> c.made, art |-> IF c.bad # "" THEN NoArtifact ELSE Artifact(l, c, taps, geom)]
Obtained(l, k, taps, geom) ==
  IF k \in DOMAIN memo THEN [bad |-> "", made |-> made, art |-> memo[k]]
  ELSE FromBuild(l, Compile(l.fn, l.args, taps, geom, Env(l), made), taps, geom)
Keep(k, o) == memo' = (k :> o.art) @@ memo /\ made' = o.made
\* The run, if the launch agrees with its entry.
Outcome(r, bound) == [status |-> IF r.trap # "" THEN "trapped" ELSE "ran", mem |-> r.mem, bindings |-> bound]
Performed(l, art, bound) ==
  IF GeometryAgrees(l, art) /\ Covers(l) /\ Disjoint(l, art) THEN Outcome(Executed(l, art, bound), bound)
  ELSE [status |-> "refused", mem |-> mem, bindings |-> bindings]
\* kernel[config(...)](args)
Launch(l) ==
  \E o \in {Obtained(l, KeyOf(l, Env(l)), Each(LAMBDA t : t.name, l.taps), l.geom)} :
    IF o.bad # "" THEN last' = Result(l, "refused", NoArtifact) /\ UNCHANGED <<mem, memo, made, bindings>>
    ELSE /\ Keep(KeyOf(l, Env(l)), o)
         /\ \E e \in {Performed(l, o.art, Rebound(l, o.art))} :
              mem' = e.mem /\ bindings' = e.bindings /\ last' = Result(l, e.status, o.art)
\* kernel.taps(args): the sites, of an entry built with no tap and no geometry.
Bare(l) == [l EXCEPT !.taps = <<>>, !.geom = NoGeom]
Sites(l) ==
  \E o \in {Obtained(l, KeyOf(l, Env(l)), <<>>, NoGeom)} :
    IF o.bad # "" THEN last' = Result(l, "refused", NoArtifact) /\ UNCHANGED <<memo, made>>
    ELSE Keep(KeyOf(l, Env(l)), o) /\ last' = Result(l, "sites", o.art)

Init ==
  /\ family \in Families
  /\ mem = family.memory /\ globals = family.globals
  /\ memo = <<>> /\ made = <<>> /\ bindings = <<>>
  /\ last = NoResult /\ calls = 0
Turn == calls < family.calls /\ calls' = calls + 1 /\ UNCHANGED family
LaunchOne == Turn /\ (\E l \in family.launches : Launch(l)) /\ UNCHANGED globals
AskSites == Turn /\ (\E l \in family.launches : Sites(Bare(l))) /\ UNCHANGED <<mem, globals, bindings>>
\* The program rebinds a name its kernels refer to.
Rebind ==
  /\ Turn
  /\ \E e \in family.edits : globals[e.name] # e.value /\ globals' = [globals EXCEPT ![e.name] = e.value]
  /\ last' = NoResult
  /\ UNCHANGED <<mem, memo, made, bindings>>
Next == LaunchOne \/ AskSites \/ Rebind
Spec == Init /\ [][Next]_vars
-----------------------------------------------------------------------------
(* Properties. *)

\* An artifact is consistent with itself: nodes refer to earlier nodes, every
\* slot lies in the staging bytes, and no two slots of different sources share
\* a byte (kernel.py, _splice_fn and _name: offsets accumulate).
TypeOK ==
  \A k \in DOMAIN memo :
    LET a == memo[k]
        slots == {<<a.nodes[i].at[1], a.nodes[i].at[2]>> : i \in {j \in DOMAIN a.nodes : a.nodes[j].op = "abi.slot"}}
    IN /\ \A i \in DOMAIN a.nodes : \A j \in ToSet(a.nodes[i].args) : j < i
       /\ \A s \in slots : s[2] \in 0..(a.size - 1)
       /\ \A s, t \in slots : s[2] = t[2] => s[1] = t[1]
       /\ a.sites \cap a.invalid = {}

TapCells(l) == UNION {Cells(t.tensor) : t \in ToSet(l.taps)}
\* What the threads have left of a memory.
LeftBy(ts, c, before) ==
  LET own == {p \in DOMAIN ts : c \in DOMAIN ts[p].own}
  IN IF own = {} THEN before ELSE ts[CHOOSE p \in own : TRUE].own[c]
LeavesAsSaid(ts) == \A c \in DOMAIN mem \ TapCells(last) : mem[c] = LeftBy(ts, c, last.mem[c])
\* A launch leaves in memory what its body says thread by thread, under any
\* geometry, with the numbers and the functions of this launch and not those of
\* a launch before it; one that is refused leaves the memory alone.  What it is
\* served may be another's where a fingerprint takes two for one, namely a
\* helper edited in a constant, closures of one body, or functions of one type
\* that share a lift.
LaunchMeansBody ==
  /\ last.status = "ran" => LeavesAsSaid(Threads(last))
  /\ last.status = "refused" => mem = last.mem

PlaceInTap(l, t, p) ==
  LET g == NormGeom(l.geom)  fs == Lattice0(l).frames
      i(d) == CHOOSE j \in DOMAIN fs : fs[j].name = SubSeq(d, 1, Len(d) - 1)
  IN [d \in {f.name : f \in ToSet(t.frames)} |->
        IF d \in DOMAIN p THEN p[d] ELSE IF d[Len(d)] = "b" THEN p[fs[i(d)].name] \div g.threads[i(d)]
        ELSE p[fs[i(d)].name] % g.threads[i(d)]]
RECURSIVE Binds(_, _)
Binds(stmts, x) ==
  FoldLeft(LAMBDA n, s : n + CASE s.ast = "Assign" -> IF x \in ToSet(s.names) THEN 1 ELSE 0
                               [] s.ast = "If" -> Binds(s.body, x) + Binds(s.orelse, x)
                               [] s.ast = "For" -> 2 * Binds(s.body, x)
                               [] OTHER -> 0, 0, stmts)
TapsHold(ts) ==
  \A t \in ToSet(last.taps), p \in DOMAIN ts :
    t.name \in DOMAIN ts[p].bound => mem[Cell(t.tensor, PlaceInTap(last, t.tensor, p))] = ValueOf(ts[p].bound[t.name])
\* A tap holds, at every thread, the value its name was bound to there, and a
\* name is a site only if the launch binds it once (the naming law).
TapsHoldBindings ==
  /\ last.status = "ran" => TapsHold(Threads(last))
  /\ last.status \in {"ran", "sites"} => \A x \in last.sites : Binds(last.fn.body, x) <= 1
=============================================================================
