------------------------------ MODULE Programs ------------------------------
(***************************************************************************)
(* A region written one operation at a time, differentiated, and           *)
(* transformed.  Each family is a vocabulary with the params, the values   *)
(* given for them and what may be done to what is written with it.         *)
(***************************************************************************)
EXTENDS Autodiff, Transforms, Signatures, Placement

CONSTANTS Families,    \* records: types, ops, inputs, grow, schedules, passes, bans, labels, rescalings, places
          None

VARIABLES family, program, joint, made
vars == <<family, program, joint, made>>

Init ==
  /\ family \in Families
  /\ program = Yield(Start(family.types), <<1>>)
  /\ joint = None
  /\ made = None

Grown == New(program) - Len(program.params)
Exact(vals) == [j \in DOMAIN vals |-> [p \in DOMAIN vals[j] |-> Lift(vals[j][p])]]
\* Whether what indexes is in bounds for the values the params are given.
Indexable(o, args) ==
  o.op \in {"take", "scatter_add"} =>
    \A vals \in family.inputs :
      InBounds(o, [j \in DOMAIN args |-> program.nodes[args[j]]], Values(program, Exact(vals))[args[2]])
\* Builder.emit, of an operation its type rule takes.
Author ==
  /\ joint = None /\ made = None /\ Grown < family.grow
  /\ \E v \in family.ops : \E args \in [1 .. v.arity -> DOMAIN program.nodes] :
       /\ v.arity = 0 \/ Grown = 0 \/ New(program) \in Range(args) \/ IsScalar(program.nodes[New(program)])
       /\ CanEmit(program, v.o, args, v.sub) /\ Indexable(v.o, args)
       /\ program' = LET r == Emit(program, v.o, args, v.sub) IN Yield(r, <<New(r)>>)
  /\ UNCHANGED <<family, joint, made>>

Written == made = None /\ Grown >= 1 /\ ~IsScalar(program.nodes[New(program)])
Target == program.out[1]
\* grad: seeded, or of a target without dims.
Differentiate ==
  /\ Written /\ joint = None
  /\ \E schedule \in family.schedules, seeded \in BOOLEAN :
       /\ seeded \/ DOMAIN program.nodes[Target].ty = {}
       /\ AllDerivable(program, Target, schedule)
       /\ joint' = Grad(program, Target, seeded, [j \in DOMAIN program.params |-> j], schedule)
                     @@ [seeded |-> seeded, schedule |-> schedule]
  /\ UNCHANGED <<family, program, made>>
DeriveVjp ==
  /\ Written /\ joint = None /\ "vjp" \in family.passes
  /\ VjpSupported(program)
  /\ made' = Vjp(program) @@ [pass |-> "vjp"]
  /\ UNCHANGED <<family, program, joint>>

\* derive_step_vjp, of the program as a step.
DeriveStep ==
  /\ Written /\ joint = None /\ "step" \in family.passes
  /\ Len(program.params) = 2 /\ program.nodes[Target].ty = program.params[1] /\ StepSupported(program)
  /\ made' = StepVjp(program) @@ [pass |-> "step"]
  /\ UNCHANGED <<family, program, joint>>

\* The region the transformations work on: the joint one once there is one.
Subject == IF joint = None THEN program ELSE joint.r
JointTarget == Subject.out[1]
Prune ==
  /\ Written /\ "dce" \in family.passes
  /\ \E o \in Range(Subject.out), extra \in {<<>>} \cup {<<a>> : a \in Forward(Subject, JointTarget)} :
       LET kept == <<o>> \o extra IN made' = [pass |-> "dce", r |-> Dce(Subject, kept), kept |-> kept]
  /\ UNCHANGED <<family, program, joint>>
Erase ==
  /\ Written /\ "erase" \in family.passes
  /\ made' = [pass |-> "erase", r |-> EraseStages(Subject)]
  /\ UNCHANGED <<family, program, joint>>
Rematerialize ==
  /\ Written /\ joint # None /\ "remat" \in family.passes
  /\ \E ban \in family.bans, keep \in {{}} \cup {{i} : i \in Forward(Subject, JointTarget)} :
       made' = Checkpoint(Subject, JointTarget, ban, keep) @@ [pass |-> "remat", ban |-> ban]
  /\ UNCHANGED <<family, program, joint>>

Next == Author \/ Differentiate \/ DeriveVjp \/ DeriveStep \/ Prune \/ Erase \/ Rematerialize
Spec == Init /\ [][Next]_vars

-----------------------------------------------------------------------------
(* PROPERTIES *)

Made(pass) == made # None /\ made.pass = pass
\* The cotangent given as the seed, different at different points.
Seed(b) == [p \in Points(b) |-> Lift(1 + MapThenSumSet(LAMBDA n : p[n], DOMAIN p))]
Given(vals) == Exact(vals) \o (IF joint # None /\ joint.seeded THEN <<Seed(program.nodes[Target].ty)>> ELSE <<>>)
\* The derivative of the target, contracted with the seed, when the value of
\* param j at point q moves: by the tangents of the values themselves.
Sensitivity(vals, j, q, seed) ==
  LET moved == [Exact(vals) EXCEPT ![j][q] = <<@[1], 1>>]
      out == Run(program, moved)[1]
  IN  FoldSet(LAMBDA p, acc : (acc + seed[p][1] * out[p][2]) % Modulus, 0, DOMAIN out)
\* Whether g is the derivative with respect to param j everywhere.
IsGradient(g, vals, j, seed) ==
  /\ DOMAIN g = Points(program.params[j])
  /\ \A q \in DOMAIN g : g[q][1] = Sensitivity(vals, j, q, seed)
NoGradient(b) == [q \in Points(b) |-> Lift(0)]

\* Every region the passes make is one its builder accepts, and the value of
\* each of its nodes is given at the points of the node's type and no other.
RegionOK(r) ==
  /\ \A i \in DOMAIN r.nodes :
       LET n == r.nodes[i]
           args == [j \in DOMAIN n.args |-> r.nodes[n.args[j]]]
       IN  n.o.op # "param" => WellTyped(n.o, args, n.sub) /\ n.ty = TypeOf(n.o, args, n.sub)
TypeOK ==
  /\ RegionOK(program)
  /\ joint # None => RegionOK(joint.r)
  /\ made # None => RegionOK(made.r)
  /\ \A vals \in family.inputs :
       LET all == Values(Subject, Given(vals)) IN \A i \in DOMAIN all : DOMAIN all[i] = Points(Subject.nodes[i].ty)

\* "One backward pass yields d(target)/d(v) for ALL v": each gradient of the
\* joint region is the derivative, whatever the schedule of its folds and
\* with ties going to the first; where none flows the derivative is zero; and
\* the target it yields is the program's.
GradientIsDerivative ==
  joint # None => \A vals \in family.inputs :
    LET out == Run(joint.r, Given(vals))
        seed == IF joint.seeded THEN Seed(program.nodes[Target].ty) ELSE [p \in {<<>>} |-> Lift(1)]
        flows == SelectSeq([j \in DOMAIN joint.grads |-> j], LAMBDA j : joint.grads[j] # 0)
        Place(j) == CHOOSE k \in DOMAIN flows : flows[k] = j
    IN  /\ out[1] = Run(program, Exact(vals))[1]
        /\ \A j \in DOMAIN joint.grads :
             IsGradient(IF joint.grads[j] = 0 THEN NoGradient(program.params[j]) ELSE out[1 + Place(j)], vals, j, seed)

\* A fold schedule reverses every step once, last first, from states some
\* advance has made; and under revolve the states held at one time are no
\* more than the slots and the one being made, at the least recomputation.
Reversed(plan) == FoldLeft(LAMBDA acc, s : IF s.do = "leaf" THEN acc \o Reverse([k \in 1 .. s.hi - s.lo |-> s.lo + k - 1])
                                           ELSE acc, <<>>, plan)
StepsRun(plan) == FoldLeft(LAMBDA acc, s : IF s.do = "advance" THEN acc + s.hi - s.lo ELSE acc, 0, plan)
\* The states of a plan still to be read at its k-th place, but the first.
Held(plan, k, lo) == {plan[i].lo : i \in k .. Len(plan)} \cap ({plan[i].hi : i \in {i \in 1 .. k : plan[i].do = "advance"}} \ {lo})
ScheduleReverses ==
  joint # None => \A steps \in 1 .. 6 :
    LET plan == Plan(joint.schedule, 0, steps)
    IN  Schedulable(joint.schedule, steps) =>
          /\ Reversed(plan) = Reverse([k \in 1 .. steps |-> k - 1])
          /\ \A k \in DOMAIN plan : plan[k].lo = 0 \/ \E i \in 1 .. k - 1 : plan[i].do = "advance" /\ plan[i].hi = plan[k].lo
          /\ joint.schedule.kind = "slots" =>
               /\ StepsRun(plan) = RevolveCost(joint.schedule.n, steps)
               /\ \A k \in DOMAIN plan :
                    Cardinality(Held(plan, k, 0))
                      + (IF plan[k].do = "leaf" THEN plan[k].hi - plan[k].lo - 1 ELSE 0) <= joint.schedule.n

\* The general VJP, where it is derived, is the derivative too.
VjpIsDerivative ==
  Made("vjp") /\ made.ok => \A vals \in family.inputs :
    LET seed == Seed(program.nodes[Target].ty)
        out == Run(made.r, Exact(vals) \o <<seed>>)
    IN  \A j \in DOMAIN program.params : IsGradient(out[j], vals, j, seed)

\* "Revolve and store-all produce bit-identical gradients": the step's adjoint
\* run backwards over a recurrence, from whatever states were kept, is the
\* derivative of the sum of its last state.
StepGradientIsDerivative ==
  Made("step") /\ made.ok => \A vals \in family.inputs, slots \in 0 .. 4 :
    LET given == Exact(vals)
        elems == [k \in 1 .. 5 |-> [p \in DOMAIN given[2] |-> Lift((k * (k + vals[2][p])) % 3)]]
        g == FoldGrad(program, made.r, given[1], elems, slots)
        After(s) == FoldLeft(LAMBDA acc, x : NextState(program, acc, x), s, elems)
        Moved1(q) == After([given[1] EXCEPT ![q] = <<@[1], 1>>])
    IN  \A q \in DOMAIN given[1] : g[q][1] = FoldSet(LAMBDA p, acc : (acc + Moved1(q)[p][2]) % Modulus, 0, DOMAIN given[1])

\* Gradients, however they are made, are the derivative: by the joint pass,
\* by the general VJP, and by the step's adjoint under any schedule; and a
\* schedule reverses the fold within its slots.
GradientsAreRight == GradientIsDerivative /\ VjpIsDerivative /\ ScheduleReverses /\ StepGradientIsDerivative

\* dce: what is kept is what it was, from no more params than it takes.
PruneKeeps ==
  Made("dce") => \A vals \in family.inputs :
    LET all == Values(Subject, Given(vals))
        params == KeptParams(Subject, made.kept)
    IN  /\ Range(Walk(made.r)) = DOMAIN made.r.nodes
        /\ Run(made.r, [j \in DOMAIN params |-> Given(vals)[params[j]]]) = [j \in DOMAIN made.kept |-> all[made.kept[j]]]

\* "The erased region's denotation is bit-exactly the staged one's", and no
\* stage is left, in the steps of folds neither.
RECURSIVE Stageless(_)
Stageless(r) == \A i \in DOMAIN r.nodes : r.nodes[i].o.op # "stage" /\ \A j \in DOMAIN r.nodes[i].sub : Stageless(r.nodes[i].sub[j])
EraseKeepsMeaning ==
  Made("erase") =>
    /\ Stageless(made.r) /\ made.r.params = Subject.params
    /\ \A vals \in family.inputs : Run(made.r, Given(vals)) = Run(Subject, Given(vals))

\* A checkpointed joint region yields what it yielded, recomputing nothing
\* that is banned.
RematKeepsMeaning ==
  Made("remat") =>
    /\ \A i \in made.need : OpOf(Subject, i) \notin made.ban
    /\ \A vals \in family.inputs : Run(made.r, Given(vals)) = Run(Subject, Given(vals))
\* The set it saves is the cheapest there is: any other from which the
\* backward part can be recomputed within the ban takes at least as many
\* bytes, those of what is live anyway not counted.
Suffices(S) ==
  LET reads == ReadSet(Subject, JointTarget)
      available == S \cup made.forced \cup {i \in DOMAIN Subject.nodes : OpOf(Subject, i) = "param"}
  IN  \A i \in Recomputed(Subject, reads \ available, available) : OpOf(Subject, i) \notin made.ban
RematIsCheapest ==
  Made("remat") =>
    LET own == {i \in Ancestors(Subject, ReadSet(Subject, JointTarget)) : OpOf(Subject, i) \notin View}
    IN  \A S \in SUBSET {i \in own \ made.forced : ~Costless(Subject, i)} :
          Suffices(S \cup {i \in own : OpOf(Subject, i) \in Closed}) =>
            BytesOf(Subject, made.cut \ made.forced) <= BytesOf(Subject, S)
\* Recomputation costs what it says: the operations of the values recomputed,
\* once each, and no other.
RecomputeCostsOnce ==
  Made("remat") =>
    TotalOps(made.r, FALSE)
      = FoldSet(LAMBDA i, c : Together(c, NodeOps(Subject, i, FALSE)), TotalOps(Subject, FALSE), made.need)

\* The passes over a region keep what it yields.
PassesKeepMeaning == PruneKeeps /\ EraseKeepsMeaning /\ RematKeepsMeaning

\* The peak the one pass over the schedule finds is the most that is live at
\* one time: inputs, and what was allocated and some later node, or this one,
\* still reads under some alias.
PeakIsHighWater ==
  \A freeInputs \in BOOLEAN :
    LET r == IF made = None THEN Subject ELSE made.r
        order == Scheduled(r)
        home == Tabled([i \in DOMAIN r.nodes |-> Allocation(r, i)])
        reads == Tabled([k \in DOMAIN order |-> {home[a] : a \in ArgsOf(r, order[k])} \cup {home[order[k]]}])
        Live(k) == {a \in {home[order[i]] : i \in 1 .. k} \ {0} :
                      (OpOf(r, a) = "param" /\ ~freeInputs) \/ \E i \in k .. Len(order) : a \in reads[i]}
        Items(k) == MapThenSumSet(LAMBDA a : Volume(r.nodes[a].ty), Live(k)) + Transient(r, order[k])
    IN  PeakMemory(r, order, freeInputs) = Max({Items(k) : k \in DOMAIN order})

\* What is reported of memory and time is what it is: the checkpointed
\* region saves the cheapest set, costs what it recomputes, and the peak is
\* the high water mark.
RematIsFrugal == RematIsCheapest /\ RecomputeCostsOnce /\ PeakIsHighWater

\* "Two-pass: check first, derive second": the VJP of what the check lets
\* through is derived to the end.  It does not hold.
CheckedIsDerivable == Made("vjp") => made.ok

-----------------------------------------------------------------------------
(* WHAT IS REPORTED OF A REGION *)

\* The factor a unit is scaled by when its base units are.
PowerOf(x, e) == IF e < 0 THEN Inverse1((x ^ (-e)) % Modulus) ELSE (x ^ e) % Modulus
Factor(by, u) == FoldSet(LAMBDA d, f : (f * PowerOf(by[d], u.dims[d])) % Modulus, PowerOf(by["scale"], u.scale), DOMAIN u.dims)
FactorOf(by, info) == IF info.unit = {} THEN 1 ELSE Factor(by, CHOOSE u \in info.unit : TRUE)
\* Nodes all that is known of which is known of everything they are made of:
\* of all but zeros and truth values, which only a where may ask for.
Labelled(sigs, i) ==
  LET n == program.nodes[i]
  IN  /\ sigs[i].unit # {} \/ sigs[i].carrier = Bool1 \/ (IsScalar(n) /\ n.o.value = 0)
      /\ \A k \in DOMAIN n.args : sigs[n.args[k]].carrier = Bool1 => n.o = PwOp(Pw("where")) /\ k = 1
Trusted(sigs) == {i \in DOMAIN sigs : sigs[i].unit # {} /\ \A a \in Ancestors(program, {i}) : Labelled(sigs, a)}
\* The units inferred for a program the pass lets through are the units of its
\* values: measured in other base units, each value is what it was times the
\* factor its own unit is scaled by.  It takes arguments of exp and sqrt that
\* are free of scale: a ratio of two scales has no dims, and passes for one.
UnitsAreHonest ==
  \A labels \in family.labels :
    LET sigs == Signatures(program, labels)
    IN  Refusal \notin Range(sigs) => \A vals \in family.inputs, by \in family.rescalings :
          LET Scaled(val, f) == [p \in DOMAIN val |-> Lift(f * val[p][1])]
              given == Exact(vals)
              before == Values(program, given)
              after == Values(program, [j \in DOMAIN given |-> Scaled(given[j], FactorOf(by, labels[j]))])
          IN  \A i \in Trusted(sigs) : after[i] = Scaled(before[i], FactorOf(by, sigs[i]))

\* What the value of node i at point p is made of: operands and their points.
Reads(r, i, p) ==
  LET n == r.nodes[i]
      o == n.o
      src == r.nodes[n.args[1]].ty
      Column(dims) == {<<1, q>> : q \in {q \in Points(src) : On(q, DOMAIN src \ dims) = On(p, DOMAIN src \ dims)}}
      IndexAt(q) == <<2, On(q, DOMAIN r.nodes[n.args[2]].ty)>>
  IN  CASE n.args = <<>> -> {}
        [] o.op = "pointwise" -> {<<j, p>> : j \in {j \in DOMAIN n.args : ~IsScalar(r.nodes[n.args[j]])}}
        [] o.op = "iota" -> {}
        [] o.op = "reduce" -> Column(Range(o.dims))
        [] o.op \in {"scan", "argsort", "argtopk"} -> Column({o.dim})
        [] o.op = "take" -> Column({o.dim}) \cup {IndexAt(p)}
        [] o.op = "scatter_add" -> Column(o.over) \cup {IndexAt(q[2]) : q \in Column(o.over)}
        [] o.op = "repeat_like" -> {<<1, On(p, DOMAIN src)>>}
        [] o.op \in ViewOps -> {<<1, Back(o, src, p)>>}
        [] OTHER -> {<<1, p>>}
\* A device has a place along every level that takes part, and of a value it
\* has what lies at its place along the bound dims.
Has(dev, b, lev, p) == \A d \in DOMAIN lev : p[d] - Min(b[d]) = dev[lev[d]]
Moved(r, lev, i) ==
  LET n == r.nodes[i]
      seen == {i} \cup Range(n.args)
      Along1(l) == UNION {{Extent(r.nodes[a].ty, d) : d \in {d \in DOMAIN lev[a] : lev[a][d] = l}} : a \in seen}
      devices == Points([l \in UNION {Range(lev[a]) : a \in seen} |-> 0 .. Min(Along1(l)) - 1])
      Needed(dev) == {p \in Points(n.ty) : /\ Has(dev, n.ty, lev[i], p)
                                            /\ \E x \in Reads(r, i, p) : LET a == n.args[x[1]]
                                                 IN  InBox(r.nodes[a].ty, x[2]) /\ ~Has(dev, r.nodes[a].ty, lev[a], x[2])}
  IN  Max({Cardinality(Needed(dev)) : dev \in devices})
RECURSIVE MovedIn(_, _, _)
MovedIn(r, lev, i) ==
  LET n == r.nodes[i]
      step == n.sub[1]
      inside == LevelsOf(step, StepBound(n.o, [j \in DOMAIN n.args |-> lev[n.args[j]]]))
  IN  IF n.o.op # "fold" THEN Moved(r, lev, i)
      ELSE Cardinality(FoldDim(n.o, [j \in DOMAIN n.args |-> r.nodes[n.args[j]]]))
             * MapThenSumSet(LAMBDA k : MovedIn(step, inside, k), DOMAIN step.nodes)
\* "Communication read off the existing algebra": a program the pass reports
\* on moves data between devices at no node but those it has events for, and
\* there no more than their bytes; to gather one bound dim, exactly them.
TrafficCoversReads ==
  \A place \in family.places : Placeable(program, place.bound) =>
    LET report == Traffic(program, place.bound, place.machine)
        lev == LevelsOf(program, place.bound)
    IN  report.ok => \A i \in DOMAIN program.nodes :
          LET bytes == FoldLeft(LAMBDA t, e : t + e.bytes, 0, report.events[i])
              moved == MovedIn(program, lev, i)
          IN  /\ moved = 0 <=> bytes = 0
              /\ ItemSize * moved <= bytes
              /\ OpOf(program, i) = "merge" /\ Len(report.events[i]) = 1 => ItemSize * moved = bytes
=============================================================================
