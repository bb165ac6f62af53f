----------------------------- MODULE Assemblages -----------------------------
(***************************************************************************)
(* The assemblage tier (tensorlib assemblage.py, scope.py, registry.py):   *)
(* makers declare leaves in a scope and give units, units compose, and a   *)
(* build goes through a cache that outlives the scope.  What is built is   *)
(* handed to Programs as one more program.                                 *)
(*                                                                         *)
(* A session is the state of all this: the registry, the scope's leaves,   *)
(* the pipe of units, the cache, and what was served last.                 *)
(***************************************************************************)
EXTENDS Programs, Bodies

VARIABLE session
allVars == <<family, program, joint, made, session>>
Plan1 == family.session   \* makers, paths, defs, boxes, requests, steps, length, builds, restarts

NoSession ==
  [markers |-> <<>>, reducers |-> <<>>, known |-> {}, leaves |-> <<>>, units |-> <<>>, mode |-> "train", cache |-> <<>>,
   served |-> None, builds |-> 0, restarts |-> 0, handed |-> FALSE]
Open == session # None /\ ~session.handed

-----------------------------------------------------------------------------
(* THE REGISTRY: a name has one content for good. *)

Accepted(table, name, content) == content # <<>> /\ (name \in DOMAIN table => table[name] = content[1])
Registered(table, name, content) == IF name \in DOMAIN table THEN table ELSE (name :> content[1]) @@ table
DefineOne(k) ==
  LET d == Plan1.defs[k]
      table == IF d.v = "reducer" THEN session.reducers ELSE session.markers
  IN  /\ k \notin session.known /\ d.name \notin Primitives
      /\ \E content \in {Define(d)} :
           /\ Accepted(table, d.name, content)
           /\ session' = [session EXCEPT !.markers = IF d.v = "reducer" THEN @ ELSE Registered(@, d.name, content),
                                         !.reducers = IF d.v = "reducer" THEN Registered(@, d.name, content) ELSE @,
                                         !.known = @ \cup {k}]

-----------------------------------------------------------------------------
(* THE SCOPE *)

Full(path, name) == path \o "." \o name
\* Scope.param: the same leaf again if it is declared alike; a conflict
\* refuses.  Those declared before it stay.
Declared(acc, want) ==
  IF acc.refused THEN acc
  ELSE IF want.name \in DOMAIN acc.leaves
       THEN IF acc.leaves[want.name].ty = want.ty THEN acc ELSE [acc EXCEPT !.refused = TRUE]
       ELSE [acc EXCEPT !.leaves = (want.name :> ParamOf(Cardinality(DOMAIN @) + 1, want.name, want.ty)) @@ @]
\* A maker called with the scope at path: its leaves are declared, and its
\* function captures them, its sites under their policies, and markers.
MakeUnit(k, path) ==
  LET m == Plan1.makers[k]
      scope == FoldLeft(Declared, [leaves |-> session.leaves, refused |-> FALSE],
                        [j \in DOMAIN m.params |-> [name |-> Full(path, m.params[j].name), ty |-> m.params[j].ty]])
      Caught(S, F(_)) == [n \in {S[j].as : j \in DOMAIN S} |-> F(S[CHOOSE j \in DOMAIN S : S[j].as = n])]
      free == Caught(m.params, LAMBDA p : scope.leaves[Full(path, p.name)])
                @@ Caught(m.sites, LAMBDA s : Site(Full(path, s.name), session.mode, s.key))
                @@ Caught(m.uses, LAMBDA u : MarkerOf(Plan1.defs[u.def].name, u.def)) @@ m.fn.free
  IN  /\ {m.uses[j].def : j \in DOMAIN m.uses} \subseteq session.known
      /\ Len(session.units) < Plan1.length
      /\ session' = [session EXCEPT !.leaves = scope.leaves, !.served = None,
                                    !.units = IF scope.refused THEN @ ELSE Append(@, With(m.fn, free))]
\* Scope.with_: the policy makers are given from now on.
SetMode == \E mode \in {"train", "eval"} \ {session.mode} : session' = [session EXCEPT !.mode = mode]
\* A new root scope; the registry and the cache are the process's.
Restart ==
  /\ session.restarts < Plan1.restarts /\ session.units # <<>>
  /\ session' = [session EXCEPT !.leaves = <<>>, !.units = <<>>, !.served = None, !.mode = "train", !.restarts = @ + 1]

-----------------------------------------------------------------------------
(* THE BUILD *)

\* The unit bodies one after the other, each given what the last came to.
UnitDone(d) == IF d.ok /\ d.out.v # "tuple" THEN d ELSE Fail(d)
UnitAfter(c, f) == IF ~c.ok \/ Len(f.params) # 1 THEN Fail(c) ELSE UnitDone(Body(ChildOf(c, f, f.params[1] :> c.out), f))
Chain(fns, box, registry) == FoldLeft(UnitAfter, Out(Fresh1(Start(<<box>>), registry), NodeAt(1)), fns)
\* What is asked for of all that could be: the output and some of the sites.
BuildAsked(r, claimed, names, sites, asked, kept, live) ==
  [ok |-> TRUE, r |-> Dce(r, kept), inputs |-> [j \in DOMAIN live |-> claimed[live[j]]],
   outputs |-> [j \in DOMAIN kept |-> names[kept[j]]], sites |-> <<"">> \o [j \in DOMAIN asked |-> sites[asked[j]]]]
BuildKept(r, claimed, names, sites, asked, kept) == BuildAsked(r, claimed, names, sites, asked, kept, KeptParams(r, kept))
BuildNamed(r, claimed, names, sites, asked) ==
  BuildKept(r, claimed, names, sites, asked, <<r.out[1]>> \o [j \in DOMAIN asked |-> r.out[asked[j] + 1]])
BuildHoisted(c, h, claimed, sites, request) ==
  BuildNamed(h.r, claimed, RegionNames(h.r, claimed, HintsAt(c, h.place)), sites,
             SelectSeq([j \in DOMAIN sites |-> j], LAMBDA j : sites[j] \in request))
BuildSites(c, claimed, sites, request) ==
  BuildHoisted(c, Hoisted(c.r, <<c.out.at>> \o [j \in DOMAIN sites |-> c.taps[sites[j]]]), claimed, sites, request)
BuildFrom(c, claimed, request) ==
  IF ~c.ok \/ ~IsNode(c.out) \/ ~IsInjective(claimed) THEN [ok |-> FALSE] ELSE BuildSites(c, claimed, SetToSeq(DOMAIN c.taps), request)
BuildChain(c, fns, request) == BuildFrom(c, <<fns[1].params[1]>> \o [j \in DOMAIN c.leaves |-> c.leaves[j].name], request)
Build(fns, box, registry, request) == BuildChain(Chain(fns, box, registry), fns, request)

\* _canon: what a captured value counts as.  A helper is its code.
RECURSIVE Canon(_)
Canon(v) ==
  CASE v.v = "leaf" -> <<"param", v.name, v.ty>>
    [] v.v = "host" -> <<"number", v.is>>
    [] v.v = "text" -> <<"text", v.is>>
    [] v.v = "site" -> <<"site", v.name, v.mode, v.key>>
    [] v.v = "fn" -> <<"fn", v.code>>
    [] v.v = "tuple" -> <<"tuple", [j \in DOMAIN v.of |-> Canon(v.of[j])]>>
    [] OTHER -> <<"repr", v.name>>
\* Unit.fingerprint.  The code of a function is its name and bytecode, which
\* leave out the constants of its body: edited only in these it is the same.
\* Variant: captured values are not part of it.
CodeOnly(fns) == [j \in DOMAIN fns |-> <<fns[j].code>>]
Fingerprint(fns) == [j \in DOMAIN fns |-> <<fns[j].code, [n \in DOMAIN fns[j].free |-> Canon(fns[j].free[n])]>>]
\* assemblage: through the cache, by code, layout, policies and taps.
Registry == [markers |-> session.markers, reducers |-> session.reducers]
ServedAs(box, request, key, at, asm) ==
  [session EXCEPT !.builds = @ + 1,
                  !.cache = IF at # 0 \/ ~asm.ok THEN @ ELSE Append(@, [key |-> key, asm |-> asm]),
                  !.served = [asm |-> asm, fns |-> session.units, request |-> request, host |-> <<>>,
                              boxes |-> session.units[1].params[1] :> box]]
ServedFor(box, request, key, at) ==
  ServedAs(box, request, key, at, IF at # 0 THEN session.cache[at].asm ELSE Build(session.units, box, Registry, request))
Assemble ==
  \E box \in Plan1.boxes, request \in Plan1.requests :
    LET key == <<Fingerprint(session.units), box, session.mode, request>>
    IN  /\ session.units # <<>> /\ session.builds < Plan1.builds
        /\ session' = ServedFor(box, request, key, SelectInSeq(session.cache, LAMBDA e : e.key = key))
LiftStep ==
  \E k \in DOMAIN Plan1.steps :
    LET s == Plan1.steps[k]
        free == s.fn.free @@ [n \in {s.uses[j].as : j \in DOMAIN s.uses} |->
                                LET d == s.uses[CHOOSE j \in DOMAIN s.uses : s.uses[j].as = n].def IN MarkerOf(Plan1.defs[d].name, d)]
        f == With(s.fn, free)
    IN  /\ {s.uses[j].def : j \in DOMAIN s.uses} \subseteq session.known /\ session.units = <<>>
        /\ session' = [session EXCEPT !.served = [asm |-> Step1Of(f, s.boxes, s.host, Registry), fns |-> <<f>>, request |-> {},
                                                  host |-> s.host, boxes |-> s.boxes]]

\* What is given for an input: different for different inputs.
Number(name) == IF name \in DOMAIN session.leaves THEN session.leaves[name].obj
                ELSE 1 - SelectInSeq(session.served.fns[1].params, LAMBDA n : n = name)
BoxNamed(name) == IF name \in DOMAIN session.leaves THEN session.leaves[name].ty ELSE session.served.boxes[name]
GivenFor(name) ==
  LET b == BoxNamed(name) IN [p \in Points(b) |-> (Plan1.first + 2 * Number(name) + FoldSet(LAMBDA n, h : 2 * h + p[n], 0, DOMAIN p)) % Modulus]
Served == session # None /\ session.served # None /\ session.served.asm.ok
\* The built region is a program like any other.
Deliver ==
  LET asm == session.served.asm
  IN  /\ Served
      /\ program' = Restrict2(asm.r, DOMAIN asm.r.params \cup Ancestors(asm.r, Range(asm.r.out)), asm.r.out)
      /\ family' = [family EXCEPT !.inputs = {[j \in DOMAIN asm.inputs |-> GivenFor(asm.inputs[j])]}]
      /\ session' = [NoSession EXCEPT !.handed = TRUE]
      /\ UNCHANGED <<joint, made>>

AllInit == Init /\ session = IF "session" \in DOMAIN family THEN NoSession ELSE None
InSession ==
  /\ Open
  /\ \/ \E k \in DOMAIN Plan1.defs : DefineOne(k)
     \/ \E k \in DOMAIN Plan1.makers, path \in Plan1.paths : MakeUnit(k, path)
     \/ SetMode
     \/ Restart
     \/ Assemble
     \/ LiftStep
  /\ UNCHANGED vars
AllNext == (Next /\ ~Open /\ UNCHANGED session) \/ InSession \/ (Open /\ Deliver)
AllSpec == AllInit /\ [][AllNext]_allVars

-----------------------------------------------------------------------------
(* WHAT A BODY MEANS: what Python makes of it when every name is a tensor   *)
(* or a host value and every operation is done at once.                     *)

TensorOf(ty, val) == [v |-> "tensor", ty |-> ty, val |-> val]
EagerNode(ts, args, n) == TensorOf(n.ty, Tabled(Denote(n, Append(args, n), [j \in DOMAIN ts |-> ts[j].val])))
Eager(o, ts) ==
  LET args == [j \in DOMAIN ts |-> Node([op |-> "param"], <<>>, ts[j].ty, <<>>)]
  IN  EagerNode(ts, args, Node(o, [j \in DOMAIN ts |-> j], Tabled(TypeOf(o, args, <<>>)), <<>>))
IsTensor(v) == v.v = "tensor"
\* A scalar function at every point, numbers being the same at all of them.
Everywhere(F(_), vs) ==
  LET ty == vs[CHOOSE j \in DOMAIN vs : IsTensor(vs[j])].ty
  IN  TensorOf(ty, [p \in Points(ty) |-> F([j \in DOMAIN vs |-> IF IsTensor(vs[j]) THEN vs[j].val[p] ELSE Lift(vs[j].is)])])
MeaningOf(m, x) == IF m.def = 0 THEN Primitive(m.name, x) ELSE CallScalar(Plan1.defs[m.def].fn, Numbers(x))[1]
\* The elements of a reducer at the first places of a dim.
Elements1(ts, n, p, last) == LET along == Along(ts[1].ty, n) IN [k \in 1 .. last |-> [j \in DOMAIN ts |-> ts[j].val[(n :> along[k]) @@ p]]]
ReadReducer(m, ts, ty, n, LastOf(_)) ==
  TensorOf(ty, [p \in Points(ty) |-> CallReducer(Plan1.defs[m.def], Elements1(ts, n, p, LastOf(p)))])
\* The sum of the products along what both have.
ReadContract(a, b, dims) ==
  LET ty == Without(a.ty @@ b.ty, Range(dims))
      Terms(p) == Points([n \in Range(dims) |-> a.ty[n]])
      Product1(p, q) == Primitive("mul", <<a.val[On(q @@ p, DOMAIN a.ty)], b.val[On(q @@ p, DOMAIN b.ty)]>>)
  IN  TensorOf(ty, [p \in Points(ty) |-> FoldSet(LAMBDA q, acc : Primitive("add", <<acc, Product1(p, q)>>), Lift(0), Terms(p))])
DroppedAt(x, rate, drawn) ==
  LET Kept(p) == Primitive("div", <<x.val[p], Primitive("sub", <<Lift(1), Lift(rate.is)>>)>>)
  IN  TensorOf(x.ty, [p \in DOMAIN x.val |-> IF drawn.val[p][1] < Lift(rate.is)[1] THEN Lift(0) ELSE Kept(p)])
ReadDropout(x, rate, site) ==
  IF site.mode = "eval" THEN x ELSE DroppedAt(x, rate, Eager([op |-> "random", key |-> site.key], <<x>>))
ReadDims(a, k) == IF 3 \in DOMAIN a THEN a[3] ELSE IF "axis" \in DOMAIN k THEN k["axis"] ELSE k["dims"]
\* The words and methods that are one operation each.
ReadOp(name, a, k) ==
  CASE name = "reduce" -> [op |-> "reduce", f |-> a[1].is, dims |-> DimsOf(ReadDims(a, k))]
    [] name = "scan" -> [op |-> "scan", f |-> a[1].is, dim |-> ReadDims(a, k).is]
    [] name = "iota" -> [op |-> "iota", dim |-> a[2].is]
    [] name = "take" -> TakeOp(k)
    [] name = "argtopk" -> [op |-> "argtopk", dim |-> k["dim"].is, k |-> k["k"].is, new |-> k["k_name"].is]
    [] name = "argsort" -> [op |-> "argsort", dim |-> k["dim"].is]
    [] name = "scatter_add" ->
         LET span == Domain(k["extent"])
         IN  [op |-> "scatter_add", dim |-> k["dim"].is, lo |-> Min(span), hi |-> Max(span) + 1,
              over |-> IF "over" \in DOMAIN k THEN Range(DimsOf(k["over"])) ELSE DOMAIN a[2].ty]
    [] OTHER -> [op |-> name]
ReadVocab(name, a, k) ==
  LET operands == IF a[2].v = "tuple" THEN a[2].of ELSE <<a[2]>>
      b == operands[1].ty
      n == ReadDims(a, k).is
      dims == DimsOf(ReadDims(a, k))
  IN  CASE name = "reduce" /\ a[1].v # "text" ->
             ReadReducer(a[1], operands, Without(b, {dims[1]}), dims[1], LAMBDA p : Extent(b, dims[1]))
        [] name = "scan" /\ a[1].v # "text" -> ReadReducer(a[1], operands, b, n, LAMBDA p : p[n] - Min(b[n]) + 1)
        [] name = "pointwise" -> Everywhere(LAMBDA x : MeaningOf(a[1], x), Tail(a))
        [] name = "const_like" -> TensorOf(a[1].ty, [p \in Points(a[1].ty) |-> Lift(a[2].is)])
        [] name = "extent" -> HostInt(Cardinality(a[1].ty[a[2].is]))
        [] name = "contract" -> ReadContract(a[1], a[2], dims)
        [] name = "tap" -> a[1]
        [] name = "dropout" -> ReadDropout(a[1], a[2], a[3])
        [] OTHER -> Eager(ReadOp(name, a, k), IF name \in {"reduce", "scan"} THEN operands ELSE IF name = "iota" THEN <<a[1]>> ELSE a)

LiftedAt(b) == [p \in DOMAIN b |-> Lift(b[p])]
GivenTensor(name, ty) == TensorOf(ty, LiftedAt(GivenFor(name)))
RECURSIVE Read(_, _), ReadFn(_, _, _)
\* A unit's taps are among its own statements.
Noted(env, st, v) ==
  [env EXCEPT !.bind = IF st.names = <<>> THEN @ ELSE BoundTo(st.names, v) @@ @,
              !.taps = IF st.be.e = "call" /\ st.be.d = "tap" THEN (env.bind[st.be.sub[2].d].name :> v) @@ @ ELSE @]
ReadStatement(env, st) == Noted(env, st, Read(env, st.be))
ReadResult(end, f) == <<Read(end, f.result), end.taps>>
ReadFn(f, bound, taps) == ReadResult(FoldLeft(ReadStatement, [bind |-> bound @@ f.free @@ Globals, taps |-> taps], f.body), f)
Read(env, x) ==
  LET vs == [j \in DOMAIN x.sub |-> Read(env, x.sub[j])]
      kw == [n \in {x.kw[k][1] : k \in DOMAIN x.kw} |-> Read(env, x.kw[CHOOSE k \in DOMAIN x.kw : x.kw[k][1] = n][2])]
      Math(op) == IF \E j \in DOMAIN vs : IsTensor(vs[j]) THEN Everywhere(LAMBDA y : Primitive(op, y), vs) ELSE HostMath(op, vs)
      v == env.bind[x.d]
  IN  CASE x.e = "lit" -> Host(x.d)
        [] x.e = "int" -> HostInt(x.d)
        [] x.e = "text" -> TextOf(x.d)
        [] x.e = "name" -> IF v.v = "leaf" THEN GivenTensor(v.name, v.ty) ELSE v
        [] x.e = "tuple" -> Parts(vs)
        [] x.e = "item" -> vs[1].of[x.d]
        [] x.e = "dot" -> vs[1].of[CHOOSE j \in DOMAIN vs[1].fields : vs[1].fields[j] = x.d]
        [] x.e = "infix" -> Math(x.d)
        [] x.e = "neg" -> Math("neg")
        [] x.e = "send" -> Eager(MethodOp(x.d, Tail(vs), [k \in DOMAIN x.kw |-> <<x.kw[k][1], kw[x.kw[k][1]]>>]), <<vs[1]>>)
        [] v.v = "vocab" -> ReadVocab(v.name, vs, kw)
        [] OTHER -> ReadFn(v, [n \in Range(SubSeq(v.params, 1, Len(vs))) |-> vs[CHOOSE j \in DOMAIN vs : v.params[j] = n]] @@ kw @@ v.defaults,
                           <<>>)[1]
\* The units one after the other, from the values given.
ReadUnits(fns, start) ==
  FoldLeft(LAMBDA acc, f : ReadFn(f, f.params[1] :> acc[1], acc[2]), <<start, <<>>>>, fns)
ReadStep(f, boxes, host) ==
  ReadFn(f, [n \in Range(f.params) |-> IF n \in DOMAIN host THEN host[n] ELSE GivenTensor(n, boxes[n])], <<>>)[1]

-----------------------------------------------------------------------------
(* PROPERTIES *)

StepAgrees(out, v) ==
  LET wanted == IF v.v = "tuple" THEN v.of ELSE <<v>> IN out = [j \in DOMAIN wanted |-> wanted[j].val]
UnitsAgree(out, asm, request, read) ==
  /\ out[1] = read[1].val
  /\ {asm.sites[j] : j \in 2 .. Len(asm.sites)} = request \cap DOMAIN read[2]
  /\ \A j \in 2 .. Len(out) : out[j] = read[2][asm.sites[j]].val
  /\ \A i, j \in DOMAIN out : asm.outputs[i] = asm.outputs[j] => out[i] = out[j]
ServedComputes(s, asm, out) ==
  LET first == s.fns[1].params[1]
  IN  IF "sites" \notin DOMAIN asm THEN StepAgrees(out, ReadStep(s.fns[1], s.boxes, s.host))
      ELSE UnitsAgree(out, asm, s.request, ReadUnits(s.fns, GivenTensor(first, s.boxes[first])))
\* "Build identity carries the units' code, the input layouts, the policy map
\* and the requested tap set", "one object captured by two units is one input
\* leaf": what is served, built now or before the last restart, computes what
\* the units in the pipe say, for the values provisioned by name, with one
\* input for each leaf, and gives each tap asked for under its own name.  It
\* takes units that differ in more than constants or what helpers capture.
ServedMeansUnits ==
  Served =>
    LET s == session.served
    IN  /\ IsInjective(s.asm.inputs)
        /\ ServedComputes(s, s.asm, Run(s.asm.r, [j \in DOMAIN s.asm.inputs |-> LiftedAt(GivenFor(s.asm.inputs[j]))]))
=============================================================================
