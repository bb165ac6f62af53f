----------------------------- MODULE Signatures -----------------------------
(***************************************************************************)
(* Units and the signature pass (tensorlib units.py, signatures.py): from  *)
(* what is known of the carrier and the unit of each param, what is known  *)
(* of every node of a region, or a refusal.                                *)
(*                                                                         *)
(* The scale of a unit is a power of one base (a thousand, say), its dims  *)
(* the exponents that are not zero.  The fact about a unit is a set: what  *)
(* is not known is empty, and two facts that agree are joined by \cup.     *)
(***************************************************************************)
EXTENDS Dialect

\* Unit: identity is (scale, dims); the symbol is cosmetic.
Unit(scale, dims) == [scale |-> scale, dims |-> dims]
One == Unit(0, <<>>)
BaseUnit(dim) == Unit(0, dim :> 1)
MergeDims(a, b, sign) ==
  LET At(e, n) == IF n \in DOMAIN e THEN e[n] ELSE 0
      Sum(n) == At(a, n) + sign * At(b, n)
  IN  [n \in {n \in DOMAIN a \cup DOMAIN b : Sum(n) # 0} |-> Sum(n)]
Times(a, b) == Unit(a.scale + b.scale, MergeDims(a.dims, b.dims, 1))
Over(a, b) == Unit(a.scale - b.scale, MergeDims(a.dims, b.dims, -1))
Power(a, n) == Unit(n * a.scale, IF n = 0 THEN <<>> ELSE [d \in DOMAIN a.dims |-> n * a.dims[d]])
\* parse_unit: equal precedence, from left to right; an atom is a name with an
\* exponent, and each but the first comes after an operator.
ParseUnit(units, atoms) ==
  LET Atom(a) == Power(units[a.name], a.exp)
  IN  FoldLeft(LAMBDA acc, a : IF a.by = "*" THEN Times(acc, Atom(a)) ELSE Over(acc, Atom(a)), Atom(Head(atoms)), Tail(atoms))

-----------------------------------------------------------------------------
(* FACTS *)

\* Carriers join to the later one; 0 is unknown.
Bool1 == 1
IntCarrier == 2
Rat == 3
Real == 4
Info(carrier, unit) == [carrier |-> carrier, unit |-> unit]
Unknown == Info(0, {})
Refusal == Info(-1, {})
Join(infos) == Max({infos[i].carrier : i \in DOMAIN infos})
\* _same_unit lets a pair through.
SameUnit(a, b) == a.unit = {} \/ b.unit = {} \/ a.unit = b.unit
\* _dimensionless looks at the dims alone.
Dimensionless(a) == \A u \in a.unit : u.dims = <<>>
\* Zero is unit-polymorphic; any other literal is a pure number.  A scalar is
\* a whole number unless it says what else (a fraction or a float) it is.
LiteralCarrier(o) == IF "literal" \in DOMAIN o THEN o.literal ELSE IntCarrier
ConstInfo(carrier, value) == Info(carrier, IF value = 0 THEN {} ELSE {One})
\* What has no rule, or an operand of which was refused.
Given1(infos, sig) == IF Refusal \in Range(infos) THEN Refusal ELSE sig

\* Variant: the units of a sum need only the same dims.
SameDims(a, b) == a.unit = {} \/ b.unit = {} \/ \A x \in a.unit, y \in b.unit : x.dims = y.dims
Agree(a, b) == SameUnit(a, b)
PrimSig(op, a) ==
  LET join == Max({0} \cup {a[i].carrier : i \in DOMAIN a})
      Demand(p, sig) == IF p THEN sig ELSE Refusal
  IN  CASE op \in {"add", "sub", "maximum", "minimum"} -> Demand(Agree(a[1], a[2]), Info(join, a[1].unit \cup a[2].unit))
        [] op = "neg" -> a[1]
        [] op = "mul" -> Info(join, {Times(x, y) : x \in a[1].unit, y \in a[2].unit})
        [] op = "div" -> Info(Max({join, Rat}), {Over(x, y) : x \in a[1].unit, y \in a[2].unit})
        [] op = "exp" -> Demand(Dimensionless(a[1]), Info(Max({join, Real}), {One}))
        [] op = "sqrt" -> Demand(Dimensionless(a[1]), Info(Max({join, Real}), {One : x \in a[1].unit}))
        [] op = "where" -> Demand(a[1].carrier \in {0, Bool1} /\ Agree(a[2], a[3]),
                                  Info(Max({a[2].carrier, a[3].carrier}), a[2].unit \cup a[3].unit))
        [] op \in {"eq", "ne", "lt", "le", "gt", "ge"} -> Demand(Agree(a[1], a[2]), Info(Bool1, {}))
        [] OTHER -> Unknown
RECURSIVE MarkerSig(_, _)
MarkerSig(f, infos) ==
  CASE f.tree = "arg" -> infos[f.index]
    [] f.tree = "const" -> ConstInfo(IntCarrier, f.value)
    [] OTHER -> LET sub == [j \in DOMAIN f.sub |-> MarkerSig(f.sub[j], infos)] IN Given1(sub, PrimSig(f.prim, sub))
ReducerSig(f, a) ==
  CASE f \in {"sum", "max", "min"} -> a
    [] f = "mean" -> Info(Max({a.carrier, Real}), a.unit)
    [] f = "prod" -> IF a.unit \subseteq {One} THEN a ELSE Refusal

-----------------------------------------------------------------------------
(* REGIONS *)

\* A carried state is what it was joined with what the step makes of it.
Widened(old, new) ==
  IF Refusal \in {old, new} \/ ~SameUnit(old, new) THEN Refusal
  ELSE Info(Max({old.carrier, new.carrier}), old.unit \cup new.unit)
Passes == 6   \* the carriers, and one more

\* A reducer with a state of its own: the facts of its state from lift, joined
\* with those combine makes of two such states until they stay.
SweepSig(by, infos) ==
  LET Of(trees, facts) == [j \in DOMAIN trees |-> MarkerSig(trees[j], facts)]
      Once(state, k) == LET out == Of(by.combine, state \o state)
                        IN  [j \in DOMAIN state |-> Widened(state[j], out[j])]
      state == FoldLeft(Once, Of(by.lift, infos), [k \in 1 .. Passes |-> k])
  IN  IF Refusal \in Range(state) THEN Refusal ELSE MarkerSig(by.project, state)
RECURSIVE Signatures(_, _)
FoldSig(o, step, infos) ==
  LET Once(acc, k) ==
        IF acc.done THEN acc
        ELSE LET all == Signatures(step, acc.infos)
                 out == [j \in DOMAIN step.out |-> all[step.out[j]]]
                 next == [j \in DOMAIN infos |-> IF j <= o.states THEN Widened(acc.infos[j], out[j]) ELSE infos[j]]
                 stuck == Refusal \in Range(next) \cup Range(all)
             IN  [infos |-> IF stuck THEN <<Refusal>> ELSE next, done |-> stuck \/ next = acc.infos, out |-> out, ok |-> ~stuck]
      end == FoldLeft(Once, [infos |-> infos, done |-> FALSE, out |-> <<>>, ok |-> TRUE], [k \in 1 .. Passes |-> k])
  IN  IF end.ok THEN end.out[IF o.out[1] = "final" THEN o.out[2] ELSE o.states + 1] ELSE Refusal
NodeSig(n, infos) ==
  LET o == n.o
  IN  CASE o.op = "scalar" -> ConstInfo(LiteralCarrier(o), o.value)
        [] o.op = "const" -> ConstInfo(Real, o.value)
        [] o.op = "iota" -> IF "atoms" \in DOMAIN o THEN Info(Rat, {ParseUnit(o.units, o.atoms)}) ELSE Info(IntCarrier, {})
        [] o.op = "random" -> Info(IF o.dist = "uniform" THEN Rat ELSE Real, {One})
        [] o.op \in {"argsort", "argtopk"} -> Info(IntCarrier, {})
        [] o.op = "pointwise" -> MarkerSig(o.f, infos)
        [] o.op \in {"reduce", "scan"} -> ReducerSig(o.f, infos[1])
        [] o.op \in {"collapse", "sweep"} -> SweepSig(o.by, infos)
        [] o.op = "with_value_units" -> Info(infos[1].carrier, o.unit)
        [] o.op = "fold" -> FoldSig(o, n.sub[1], infos)
        [] OTHER -> infos[1]
Signatures(r, given) ==
  FoldLeft(LAMBDA acc, n :
             Append(acc, IF n.o.op = "param" THEN given[Len(acc) + 1]
                         ELSE LET infos == [j \in DOMAIN n.args |-> acc[n.args[j]]] IN Given1(infos, NodeSig(n, infos))),
           <<>>, r.nodes)
=============================================================================
