------------------------------ MODULE Layouts ------------------------------
(***************************************************************************)
(* Layouts (tensorlib layout.py, chart.py): an affine map over a box of    *)
(* named dims, and the view operations that rewrite it.  A dim may carry a *)
(* chart, which gives its coordinates exact positions, or labels, or be    *)
(* bound to a level of a machine.                                          *)
(*                                                                         *)
(* Dims are a function from names: their order has no meaning for          *)
(* addresses (D5).  A quantity is an integer in one unit per axis.  An     *)
(* operation F that the code refuses is one whose CanF does not hold, or   *)
(* whose result is not WellFormed.                                         *)
(***************************************************************************)
EXTENDS Integers, Sequences, SequencesExt, FiniteSetsExt, TLC

CONSTANTS
  None,   \* no chart, no labels, no level
  Fill    \* where a guard fails

\* The function on n alone, and f where it is defined or else g.
Single(n, x) == [m \in {n} |-> x]
Override(f, g) == [x \in DOMAIN f \cup DOMAIN g |-> IF x \in DOMAIN f THEN f[x] ELSE g[x]]

Abs(n) == IF n < 0 THEN -n ELSE n
Least(a, b) == IF a < b THEN a ELSE b
Most(a, b) == IF a < b THEN b ELSE a
Ceiling(a, b) == -((-a) \div b)
Sigma(f(_), S) == SumFunction([x \in S |-> f(x)])
Product(f(_), S) == FoldFunction(LAMBDA x, p : x * p, 1, [x \in S |-> f(x)])

Dim(stride, start, stop, chart, labels) ==
  [stride |-> stride, start |-> start, stop |-> stop, chart |-> chart, labels |-> labels, level |-> None]
Chart(origin, step, kind, axis) == [origin |-> origin, step |-> step, kind |-> kind, axis |-> axis]

Size(d) == d.stop - d.start
InDim(d, i) == d.start <= i /\ i < d.stop
Phys(chart, i) == chart.origin + i * chart.step
\* Chart.lattice: exact, so no lattice point for a position between two.
OnLattice(chart, p) == (p - chart.origin) % chart.step = 0
Names(l) == DOMAIN l.dims
AxisOf(l, n) == IF l.dims[n].chart.axis = None THEN n ELSE l.dims[n].chart.axis
Charted(l) == {n \in Names(l) : l.dims[n].chart # None}
OnAxis(l, axis) == {n \in Charted(l) : AxisOf(l, n) = axis}

\* Dim.__post_init__ and Layout.__post_init__.
WellFormed(l) ==
  /\ \A n \in Names(l) :
       LET d == l.dims[n]
       IN  /\ d.start <= d.stop
           /\ d.labels # None => d.chart = None /\ Len(d.labels) = Size(d) /\ IsInjective(d.labels)
           /\ d.level # None => d.chart = None /\ d.labels = None
  /\ \A m, n \in Charted(l) :
       /\ l.dims[m].chart.axis # None /\ l.dims[m].chart.axis = l.dims[n].chart.axis
       /\ l.dims[m].chart.kind = "position" /\ l.dims[n].chart.kind = "position"
       => m = n

-----------------------------------------------------------------------------
(* QUERIES *)

Box(bounds) ==
  FoldSet(LAMBDA n, points : {Override(c, Single(n, i)) : c \in points, i \in bounds[n].start .. bounds[n].stop - 1},
          {<<>>}, DOMAIN bounds)
Domain(l) == Box(l.dims)
Numel(l) == Product(LAMBDA n : Size(l.dims[n]), Names(l))
GetLoc(l, c) == l.offset + Sigma(LAMBDA n : l.dims[n].stride * c[n], DOMAIN l.dims)

\* The half-open interval of bytes a layout can touch; None if none.
Footprint(l, itemsize) ==
  IF Numel(l) = 0 THEN None
  ELSE <<l.offset + Sigma(LAMBDA n : LET d == l.dims[n] IN Least(d.stride * d.start, d.stride * (d.stop - 1)), Names(l)),
         l.offset + Sigma(LAMBDA n : LET d == l.dims[n] IN Most(d.stride * d.start, d.stride * (d.stop - 1)), Names(l))
           + itemsize>>

Active(l) == {n \in Names(l) : Size(l.dims[n]) > 1}
\* The dims of no larger stride span less than one step of this one.
Injectivity(l) ==
  LET Stride(n) == Abs(l.dims[n].stride)
  IN  IF \E n \in Active(l) : Stride(n) = 0 THEN "aliased"
      ELSE IF \A n \in Active(l) :
                Stride(n) > Sigma(LAMBDA m : Stride(m) * (Size(l.dims[m]) - 1),
                                  {m \in Active(l) \ {n} : Stride(m) <= Stride(n)})
           THEN "injective" ELSE "unknown"
IsContiguous(l, itemsize) ==
  \A n \in Active(l) :
    LET below == {m \in Active(l) \ {n} : l.dims[m].stride <= l.dims[n].stride}
    IN  /\ l.dims[n].stride = itemsize * Product(LAMBDA m : Size(l.dims[m]), below)
        /\ \A m \in below : l.dims[m].stride # l.dims[n].stride

-----------------------------------------------------------------------------
(* LABELLING: addresses stay *)

SetDim(l, n, d) == [l EXCEPT !.dims[n] = d]
WithChart(l, n, chart) ==
  SetDim(l, n, [l.dims[n] EXCEPT !.labels = None,
    !.chart = IF chart # None /\ chart.axis = None THEN [chart EXCEPT !.axis = n] ELSE chart])
WithLabels(l, n, labels) == SetDim(l, n, [l.dims[n] EXCEPT !.labels = labels, !.chart = None])
StripCharts(l) == [l EXCEPT !.dims = [n \in DOMAIN @ |-> [@[n] EXCEPT !.chart = None, !.labels = None]]]
CanBind(l, n, level) == level # None => l.dims[n].chart = None /\ l.dims[n].labels = None
Bind(l, n, level) == SetDim(l, n, [l.dims[n] EXCEPT !.level = level])
Recenter(l, n, delta) == [l EXCEPT !.dims[n].chart.origin = @ + delta]

-----------------------------------------------------------------------------
(* VIEW OPERATIONS *)

Drop(f, S) == [x \in DOMAIN f \ S |-> f[x]]
Put(l, gone, new, delta) == [dims |-> Override(new, Drop(l.dims, gone)), offset |-> l.offset + delta]
PutOne(l, n, m, d, delta) == Put(l, {n}, Single(m, d), delta)

CanSlice(l, n, lo, hi) == lo <= hi /\ (lo # hi => l.dims[n].start <= lo /\ hi <= l.dims[n].stop)
Slice(l, n, lo, hi) ==
  LET d == l.dims[n]
  IN  SetDim(l, n, [d EXCEPT !.start = lo, !.stop = hi,
        !.labels = IF d.labels = None THEN None ELSE SubSeq(d.labels, lo - d.start + 1, hi - d.start)])

\* _compensate_axes: the labels of the selected dims go to a dim left on
\* their axis, its position or else its displacement of the widest step.
CompensateAxes(l, points) ==
  LET rest == Drop(l.dims, DOMAIN points)
      left == [l EXCEPT !.dims = rest]
      gone == DOMAIN points \cap Charted(l)
      Label(axis) == Sigma(LAMBDA n : Phys(l.dims[n].chart, points[n]), {n \in gone : AxisOf(l, n) = axis})
      Target(axis) == {n \in OnAxis(left, axis) :
                         \/ rest[n].chart.kind = "position"
                         \/ \A m \in OnAxis(left, axis) :
                              /\ rest[m].chart.kind # "position"
                              /\ Abs(rest[m].chart.step) <= Abs(rest[n].chart.step)}
      axes == {AxisOf(l, n) : n \in gone}
      targets == {a \in axes : Target(a) # {}}
      chosen == [a \in targets |-> CHOOSE n \in Target(a) : TRUE]
  IN  [left EXCEPT !.dims = [n \in DOMAIN rest |->
        IF \E a \in targets : chosen[a] = n
        THEN [rest[n] EXCEPT !.chart.origin = @ + Label(AxisOf(l, n)), !.chart.kind = "position"]
        ELSE rest[n]]]
CanSelect(l, points) == \A n \in DOMAIN points : InDim(l.dims[n], points[n])
Select(l, points) ==
  LET delta == Sigma(LAMBDA n : l.dims[n].stride * points[n], DOMAIN points)
  IN  [CompensateAxes(l, points) EXCEPT !.offset = @ + delta]

Shift(l, n, s) ==
  LET d == l.dims[n]
  IN  PutOne(l, n, n,
        [d EXCEPT !.start = @ + s, !.stop = @ + s,
           !.chart = IF d.chart = None THEN None ELSE [d.chart EXCEPT !.origin = @ - s * d.chart.step]],
        -(d.stride * s))
\* Axis tags do not follow the name.
CanRename(l, m, n) == n \notin Names(l) \ {m}
Rename(l, m, n) == PutOne(l, m, n, l.dims[m], 0)
CanRepeat(l, n, lo, hi) == n \notin Names(l) /\ lo <= hi
Repeat(l, n, lo, hi, chart, labels) == Put(l, {}, Single(n, Dim(0, lo, hi, chart, labels)), 0)

Flip(l, n) ==
  LET d == l.dims[n]
      pivot == d.start + d.stop - 1
  IN  PutOne(l, n, n,
        [d EXCEPT !.stride = -@,
           !.chart = IF d.chart = None THEN None
                     ELSE [d.chart EXCEPT !.origin = @ + pivot * d.chart.step, !.step = -@],
           !.labels = IF d.labels = None THEN None ELSE Reverse(@)],
        d.stride * pivot)

\* Parts are names, starts and stops, the outermost first.
Weight(parts, j) == Product(LAMBDA i : Size(parts[i]), (j + 1) .. Len(parts))
SplitConst(d, parts) == d.start - Sigma(LAMBDA j : Weight(parts, j) * parts[j].start, DOMAIN parts)
CanSplit(l, n, parts) ==
  /\ l.dims[n].labels = None
  /\ parts # <<>> /\ Weight(parts, 0) = Size(l.dims[n])
  /\ \A j \in DOMAIN parts : parts[j].name \notin Names(l) \ {n}
SplitDim(l, n, parts, j) ==
  LET d == l.dims[n]
      w == Weight(parts, j)
      origin == IF j = 1 THEN d.chart.origin + SplitConst(d, parts) * d.chart.step ELSE 0
      kind == IF j = 1 THEN d.chart.kind ELSE "displacement"
  IN  Dim(d.stride * w, parts[j].start, parts[j].stop,
          IF d.chart = None THEN None ELSE Chart(origin, w * d.chart.step, kind, AxisOf(l, n)), None)
NameOf(parts, m) == CHOOSE j \in DOMAIN parts : parts[j].name = m
Split(l, n, parts) ==
  Put(l, {n}, [m \in {parts[j].name : j \in DOMAIN parts} |-> SplitDim(l, n, parts, NameOf(parts, m))],
      l.dims[n].stride * SplitConst(l.dims[n], parts))

\* Parts are names, the outermost first; "w" are the mixed-radix weights.
RadixWeight(l, parts, j) == Product(LAMBDA i : Size(l.dims[parts[i]]), (j + 1) .. Len(parts))
MergesCharts(l, parts) ==
  LET charted == Range(parts) \cap Charted(l)
  IN  \/ charted = {}
      \/ /\ charted = Range(parts)
         /\ Cardinality({AxisOf(l, n) : n \in charted}) = 1
         /\ \A j \in DOMAIN parts :
              l.dims[parts[j]].chart.step = RadixWeight(l, parts, j) * l.dims[Last(parts)].chart.step
CanMerge(l, parts, name) ==
  /\ \A j \in DOMAIN parts : l.dims[parts[j]].labels = None
  /\ \A j \in 1 .. Len(parts) - 1 :
       l.dims[parts[j]].stride = l.dims[parts[j + 1]].stride * Size(l.dims[parts[j + 1]])
  /\ MergesCharts(l, parts)
  /\ name \notin Names(l) \ Range(parts)
AnyPosition(l, S) == IF \E n \in S : l.dims[n].chart.kind = "position" THEN "position" ELSE "displacement"
MergedChart(l, parts, start) ==
  LET step == l.dims[Last(parts)].chart.step
      first == Sigma(LAMBDA n : Phys(l.dims[n].chart, l.dims[n].start), Range(parts))
  IN  IF Range(parts) \cap Charted(l) = {} THEN None
      ELSE Chart(first - start * step, step, AnyPosition(l, Range(parts)), AxisOf(l, Head(parts)))
Merge(l, parts, name, start) ==
  LET stride == l.dims[Last(parts)].stride
  IN  Put(l, Range(parts),
          Single(name, Dim(stride, start, start + RadixWeight(l, parts, 0), MergedChart(l, parts, start), None)),
          Sigma(LAMBDA n : l.dims[n].stride * l.dims[n].start, Range(parts)) - stride * start)

CanDiagonal(l, parts, name) ==
  /\ Cardinality(parts) >= 2
  /\ \A n \in parts : l.dims[n].labels = None
  /\ name \notin Names(l) \ parts
\* The label-sum chart when all parts share an axis (D16).
DiagonalChart(l, parts) ==
  LET step == Sigma(LAMBDA n : l.dims[n].chart.step, parts)
      axes == {AxisOf(l, n) : n \in parts}
  IN  IF ~(parts \subseteq Charted(l)) \/ Cardinality(axes) # 1 \/ step = 0 THEN None
      ELSE Chart(Sigma(LAMBDA n : l.dims[n].chart.origin, parts), step, AnyPosition(l, parts), CHOOSE a \in axes : TRUE)
Diagonal(l, parts, name) ==
  LET start == FoldSet(LAMBDA n, m : Most(l.dims[n].start, m), l.dims[CHOOSE n \in parts : TRUE].start, parts)
      stop == FoldSet(LAMBDA n, m : Least(l.dims[n].stop, m), l.dims[CHOOSE n \in parts : TRUE].stop, parts)
  IN  Put(l, parts, Single(name, Dim(Sigma(LAMBDA n : l.dims[n].stride, parts), start, Most(start, stop),
                                   DiagonalChart(l, parts), None)), 0)

\* The dim of the taps lo .. hi - 1 of n, each dilation steps apart.
TapDim(l, n, lo, hi, dilation) ==
  LET d == l.dims[n]
  IN  Dim(d.stride * dilation, lo, hi,
          IF d.chart = None THEN None ELSE Chart(0, dilation * d.chart.step, "displacement", AxisOf(l, n)), None)
WindowStart(l, n, lo, dilation) == l.dims[n].start - dilation * lo
WindowStop(l, n, hi, dilation) == l.dims[n].stop - dilation * (hi - 1)
CanWindow(l, n, k, lo, hi, dilation) ==
  /\ k \notin Names(l) /\ l.dims[n].labels = None /\ lo < hi
  /\ WindowStart(l, n, lo, dilation) <= WindowStop(l, n, hi, dilation)
Window(l, n, k, lo, hi, dilation) ==
  Put(l, {n},
      Override(Single(k, TapDim(l, n, lo, hi, dilation)),
               Single(n, [l.dims[n] EXCEPT !.start = WindowStart(l, n, lo, dilation), !.stop = WindowStop(l, n, hi, dilation)])),
      0)

Decimate(l, n, factor, phase) ==
  LET d == l.dims[n]
      p == phase % factor
      start == Ceiling(d.start - p, factor)
      stop == Most(start, (d.stop - 1 - p) \div factor + 1)
  IN  PutOne(l, n, n,
        [d EXCEPT !.stride = @ * factor, !.start = start, !.stop = stop,
           !.chart = IF d.chart = None THEN None ELSE [d.chart EXCEPT !.origin = @ + p * d.chart.step, !.step = @ * factor],
           !.labels = IF d.labels = None THEN None
                      ELSE [j \in 1 .. stop - start |-> d.labels[factor * (start + j - 1) + p - d.start + 1]]],
        d.stride * p)

-----------------------------------------------------------------------------
(* GUARDED LAYOUTS (tensorlib guarded.py): a layout whose box is larger    *)
(* than what it addresses, and guards lo <= form < hi, each on a linear    *)
(* form of the coordinates, that tell which points have a location; the    *)
(* others read as the fill of the tensor.  Every view operation rewrites   *)
(* the guards by the substitution it makes.                                *)
(*                                                                         *)
(* A view is a base and a sequence of guards, a plain Layout when there    *)
(* are none (pad() of no dim, which would make a guarded layout without    *)
(* guards, is left out).                                                   *)

\* Guard: zero coefficients are dropped.
Guard(coeffs, lo, hi) ==
  [coeffs |-> Restrict(coeffs, {n \in DOMAIN coeffs : coeffs[n] # 0}), lo |-> lo, hi |-> hi]
Value(g, c) == Sigma(LAMBDA n : g.coeffs[n] * c[n], DOMAIN g.coeffs)
Holds(g, c) == g.lo <= Value(g, c) /\ Value(g, c) < g.hi
RangeOver(g, l) ==
  LET End(n, i) == g.coeffs[n] * i
  IN  <<Sigma(LAMBDA n : Least(End(n, l.dims[n].start), End(n, l.dims[n].stop - 1)), DOMAIN g.coeffs),
        Sigma(LAMBDA n : Most(End(n, l.dims[n].start), End(n, l.dims[n].stop - 1)), DOMAIN g.coeffs)>>

Plain(v) == v.guards = <<>>
Resolve(v, c) == IF \A j \in DOMAIN v.guards : Holds(v.guards[j], c) THEN GetLoc(v.base, c) ELSE Fill
GInjectivity(v) ==
  IF Plain(v) \/ Injectivity(v.base) = "injective" THEN Injectivity(v.base) ELSE "unknown"

\* The factor between the strides of the guard's dims and its coefficients.
Proportion(l, g) ==
  LET first == CHOOSE n \in DOMAIN g.coeffs : TRUE
      sign == IF g.coeffs[first] < 0 THEN -1 ELSE 1
      lam == (sign * l.dims[first].stride) \div Abs(g.coeffs[first])
  IN  IF \A n \in DOMAIN g.coeffs : l.dims[n].stride = lam * g.coeffs[n] THEN lam ELSE None
\* An interval of locations, the dims it does not count yet, and whether
\* any point is left.
Nowhere(acc) == [acc EXCEPT !.any = FALSE]
\* Variant: a guard narrows the interval on dims another one took.
NarrowTwice(l, acc, g) ==
  LET lam == Proportion(l, g)
      low == Most(g.lo, RangeOver(g, l)[1])
      high == Least(g.hi - 1, RangeOver(g, l)[2])
  IN  IF ~acc.any \/ DOMAIN g.coeffs = {} \/ lam = None THEN acc
      ELSE IF low > high THEN Nowhere(acc)
      ELSE [any |-> TRUE, left |-> acc.left \ DOMAIN g.coeffs,
            lo |-> acc.lo + Least(lam * low, lam * high), hi |-> acc.hi + Most(lam * low, lam * high)]
\* One guard narrows the interval if no guard before it took one of its dims.
Narrow(l, acc, g) ==
  LET support == DOMAIN g.coeffs
      lam == Proportion(l, g)
      range == RangeOver(g, l)
      low == Most(g.lo, range[1])
      high == Least(g.hi - 1, range[2])
  IN  IF ~acc.any THEN acc
      ELSE IF support = {} THEN IF g.lo <= 0 /\ 0 < g.hi THEN acc ELSE Nowhere(acc)
      ELSE IF ~(support \subseteq acc.left) \/ lam = None THEN acc
      ELSE IF low > high THEN Nowhere(acc)
      ELSE [any |-> TRUE, left |-> acc.left \ support,
            lo |-> acc.lo + Least(lam * low, lam * high), hi |-> acc.hi + Most(lam * low, lam * high)]
GFootprint(v, itemsize) ==
  LET l == v.base
      all == [any |-> TRUE, left |-> Names(l), lo |-> l.offset, hi |-> l.offset]
      acc == FoldLeft(LAMBDA a, g : Narrow(l, a, g), all, v.guards)
      End(n, i) == l.dims[n].stride * i
  IN  IF Plain(v) THEN Footprint(l, itemsize)
      ELSE IF Numel(l) = 0 \/ ~acc.any THEN None
      ELSE <<acc.lo + Sigma(LAMBDA n : Least(End(n, l.dims[n].start), End(n, l.dims[n].stop - 1)), acc.left),
             acc.hi + Sigma(LAMBDA n : Most(End(n, l.dims[n].start), End(n, l.dims[n].stop - 1)), acc.left) + itemsize>>

Vacuous(g, l) == g.lo <= RangeOver(g, l)[1] /\ RangeOver(g, l)[2] < g.hi
Needed(l, guards) == FoldLeft(LAMBDA kept, g : IF Vacuous(g, l) THEN kept ELSE Append(kept, g), <<>>, guards)
Simplify(v) == [v EXCEPT !.guards = IF Numel(v.base) = 0 THEN <<>> ELSE Needed(v.base, @)]
AlwaysFill(v) ==
  /\ Numel(v.base) # 0
  /\ \E j \in DOMAIN v.guards :
       LET g == v.guards[j]
       IN  g.lo >= g.hi \/ RangeOver(g, v.base)[2] < g.lo \/ RangeOver(g, v.base)[1] >= g.hi

-----------------------------------------------------------------------------
(* VIEW OPERATIONS: the base's operation, and its substitution in guards *)

Rebase(v, l) == [v EXCEPT !.base = l]
Coeff(g, n) == IF n \in DOMAIN g.coeffs THEN g.coeffs[n] ELSE 0
\* Each dim n of DOMAIN forms becomes forms[n] + consts[n].
Substitute(g, forms, consts) ==
  LET gone == DOMAIN forms \cap DOMAIN g.coeffs
      names == (DOMAIN g.coeffs \ gone) \cup UNION {DOMAIN forms[n] : n \in gone}
      Gain(m) == Sigma(LAMBDA n : g.coeffs[n] * (IF m \in DOMAIN forms[n] THEN forms[n][m] ELSE 0), gone)
      move == Sigma(LAMBDA n : g.coeffs[n] * consts[n], gone)
  IN  Guard([m \in names |-> Gain(m) + (IF m \in gone THEN 0 ELSE Coeff(g, m))], g.lo - move, g.hi - move)
EachGuard(v, forms, consts) == [j \in DOMAIN v.guards |-> Substitute(v.guards[j], forms, consts)]
View(v, l, guards) == [v EXCEPT !.base = l, !.guards = guards]

\* Slicing, repeating and labelling leave the guards alone.
GSlice(v, n, lo, hi) == Rebase(v, Slice(v.base, n, lo, hi))
GRepeat(v, n, lo, hi, chart, labels) == Rebase(v, Repeat(v.base, n, lo, hi, chart, labels))
GSelect(v, points) ==
  View(v, Select(v.base, points), EachGuard(v, [n \in DOMAIN points |-> <<>>], points))
GShift(v, n, s) == View(v, Shift(v.base, n, s), EachGuard(v, Single(n, Single(n, 1)), Single(n, -s)))
\* Variant: the guards keep the old name.
RenameForgetsGuards(v, m, n) == Rebase(v, Rename(v.base, m, n))
GRename(v, m, n) == View(v, Rename(v.base, m, n), EachGuard(v, Single(m, Single(n, 1)), Single(m, 0)))
GFlip(v, n) ==
  View(v, Flip(v.base, n), EachGuard(v, Single(n, Single(n, -1)), Single(n, v.base.dims[n].start + v.base.dims[n].stop - 1)))
GSplit(v, n, parts) ==
  LET names == {parts[j].name : j \in DOMAIN parts}
  IN  View(v, Split(v.base, n, parts),
           EachGuard(v, Single(n, [m \in names |-> Weight(parts, NameOf(parts, m))]),
                     Single(n, SplitConst(v.base.dims[n], parts))))
\* A guard survives a merge only if it weighs the parts as the merge does.
Weighs(g, l, parts) ==
  \A j \in DOMAIN parts : Coeff(g, parts[j]) = Coeff(g, Last(parts)) * RadixWeight(l, parts, j)
CanGMerge(v, parts, name) ==
  CanMerge(v.base, parts, name) /\ \A j \in DOMAIN v.guards : Weighs(v.guards[j], v.base, parts)
MergeGuard(g, l, parts, name, start) ==
  LET c == Coeff(g, Last(parts))
      w0 == Sigma(LAMBDA j : RadixWeight(l, parts, j) * l.dims[parts[j]].start, DOMAIN parts)
  IN  IF DOMAIN g.coeffs \cap Range(parts) = {} THEN g
      ELSE Guard(Override(Single(name, c), Drop(g.coeffs, Range(parts))), g.lo + c * (start - w0), g.hi + c * (start - w0))
GMerge(v, parts, name, start) ==
  View(v, Merge(v.base, parts, name, start),
       [j \in DOMAIN v.guards |-> MergeGuard(v.guards[j], v.base, parts, name, start)])
GDiagonal(v, parts, name) ==
  View(v, Diagonal(v.base, parts, name), EachGuard(v, [n \in parts |-> Single(name, 1)], [n \in parts |-> 0]))
\* A tap k of n is dilation steps of n.
Tap(n, k, dilation) == Override(Single(n, 1), Single(k, dilation))
GWindow(v, n, k, lo, hi, dilation) ==
  View(v, Window(v.base, n, k, lo, hi, dilation), EachGuard(v, Single(n, Tap(n, k, dilation)), Single(n, 0)))
GDecimate(v, n, factor, phase) ==
  View(v, Decimate(v.base, n, factor, phase), EachGuard(v, Single(n, Single(n, factor)), Single(n, phase % factor)))

-----------------------------------------------------------------------------
(* CONSTRUCTORS *)

CanPad(v, n, lo, hi) ==
  LET d == v.base.dims[n] IN d.labels = None /\ lo <= d.start /\ d.stop <= hi
Pad(v, n, lo, hi) ==
  LET d == v.base.dims[n]
  IN  View(v, SetDim(v.base, n, [d EXCEPT !.start = lo, !.stop = hi]),
           Append(v.guards, Guard(Single(n, 1), d.start, d.stop)))

CanStencil(v, n, k, lo, hi) == k \notin Names(v.base) /\ v.base.dims[n].labels = None /\ lo <= hi
\* Variant: a guard there already does not see the taps.
StencilForgetsGuards(v, n, k, lo, hi, dilation) ==
  LET d == v.base.dims[n]
  IN  View(v, Put(v.base, {}, Single(k, TapDim(v.base, n, lo, hi + 1, dilation)), 0),
           Append(v.guards, Guard(Tap(n, k, dilation), d.start, d.stop)))
\* Taps lo .. hi, both included; n keeps its box, and the taps that leave
\* it, or the box a guard gave it before, are fill.
Stencil(v, n, k, lo, hi, dilation) ==
  LET d == v.base.dims[n]
  IN  View(v, Put(v.base, {}, Single(k, TapDim(v.base, n, lo, hi + 1, dilation)), 0),
           Append(EachGuard(v, Single(n, Tap(n, k, dilation)), Single(n, 0)),
                  Guard(Tap(n, k, dilation), d.start, d.stop)))
=============================================================================
