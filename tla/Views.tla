------------------------------- MODULE Views -------------------------------
(***************************************************************************)
(* Tensors as views (tensorlib tensor.py): every operation on a tensor     *)
(* gives another over the same buffer; nothing moves.  `view` is the last  *)
(* tensor made, `mem` the bytes of the buffer, `handle` a frame the        *)
(* program holds, of this view or of an earlier one, and `op` the          *)
(* operation just performed with its arguments.                            *)
(***************************************************************************)
EXTENDS Layouts

CONSTANTS
  Tensors,     \* the tensors a run starts from, all on one buffer
  Operands,    \* other tensors on it
  NBytes,      \* of the buffer
  FieldOffset, \* an element has two fields, of one byte and of the rest
  Charts,      \* what with_charts and repeat may attach
  Shifts, Factors, Taps, Levels,
  MaxOps       \* views made, frames taken and stores, in all

-----------------------------------------------------------------------------
(* WHAT A TENSOR IS: dims of integer strides and bounds, guards on them, no *)
(* datum out of the buffer, and no two that overlap in part.                *)

Fields == {"stride", "start", "stop", "chart", "labels", "level"}
IsDim(d) == Fields \subseteq DOMAIN d /\ d.stride \in Int /\ d.start \in Int /\ d.stop \in Int
IsLayout(l) ==
  /\ {"dims", "offset"} \subseteq DOMAIN l
  /\ IsFiniteSet(Names(l)) /\ l.offset \in Int
  /\ \A n \in Names(l) : IsDim(l.dims[n])
IsGuard(g) ==
  /\ IsFiniteSet(DOMAIN g.coeffs) /\ g.lo \in Int /\ g.hi \in Int
  /\ \A n \in DOMAIN g.coeffs : g.coeffs[n] \in Int \ {0}
IsGuards(gs) == gs \in Seq({gs[j] : j \in DOMAIN gs}) /\ \A j \in DOMAIN gs : IsGuard(gs[j])
On(gs, S) == \A j \in DOMAIN gs : DOMAIN gs[j].coeffs \subseteq S
IsView(v) ==
  /\ {"base", "guards", "size"} \subseteq DOMAIN v /\ v.size \in Nat
  /\ IsLayout(v.base) /\ IsGuards(v.guards) /\ On(v.guards, Names(v.base))
InBuffer(v) ==
  \A c \in Domain(v.base) : Resolve(v, c) # Fill => 0 <= Resolve(v, c) /\ Resolve(v, c) + v.size <= NBytes
Apart(v) ==
  \A c, e \in Domain(v.base) :
    LET a == Resolve(v, c)
        b == Resolve(v, e)
    IN  a # Fill /\ b # Fill => a = b \/ a + v.size <= b \/ b + v.size <= a

\* A chart takes distinct coordinates to distinct positions.
IsChart(chart) ==
  \/ chart = None
  \/ /\ {"origin", "step", "kind", "axis"} \subseteq DOMAIN chart
     /\ chart.origin \in Int /\ chart.step \in Int \ {0}
IsCharted(l) == \A n \in Names(l) : IsChart(l.dims[n].chart)
\* Names, axes and labels are strings, and None is none of them nor a chart.
AllCharts == [origin : Int, step : Int, kind : {"position", "displacement"}, axis : {None} \cup STRING]
IsTyped(l) ==
  \A n \in Names(l) :
    /\ n \in STRING /\ l.dims[n].chart \in {None} \cup AllCharts
    /\ l.dims[n].labels \in {None} \cup Seq(STRING)
IsTensor(v) == IsView(v) /\ v.size >= 1 /\ WellFormed(v.base) /\ IsCharted(v.base) /\ IsTyped(v.base)

ASSUME ViewsAssumption ==
  /\ Fill \notin Int /\ NBytes \in Nat /\ FieldOffset \in Nat
  /\ None \notin Int \cup (Int \X Int) \cup STRING \cup Seq(STRING) \cup AllCharts
  /\ Shifts \subseteq Int /\ Factors \subseteq Nat \ {0}
  /\ \A t \in Taps : t[1] \in Int /\ t[2] \in Int
  /\ Charts \subseteq {None} \cup AllCharts /\ \A chart \in Charts : IsChart(chart)
  /\ \A v \in Tensors \cup Operands : IsTensor(v)
  /\ \A v \in Tensors : InBuffer(v) /\ Apart(v)
\* The names and labels the program below gives are strings: a fact of TLA+
\* that TLC evaluates and the provers do not know.
ASSUME LiteralsAssumption ==
  {"new", "r", "o", "i", "g", "z", "k", "t", "R", "G", "p", "q", "s", "u", "v", "w"} \subseteq STRING

-----------------------------------------------------------------------------
(* FRAMES, coordinates and slices (tensorlib coords.py): a frame is a dim   *)
(* without its stride, a coordinate a point of a frame; an index, either of  *)
(* the two or a slice, may be used on any tensor whose dim of that name       *)
(* admits it.                                                               *)

FrameOf(l, n) ==
  LET d == l.dims[n]
  IN  [name |-> n, start |-> d.start, stop |-> d.stop, chart |-> d.chart, labels |-> d.labels, level |-> d.level]
LabelAt(f, i) == f.labels[i - f.start + 1]

\* A coordinate is in the domain of its frame by construction.
CanPoint(f, i) == InDim(f, i)

\* A slice from a coordinate to one of its frame, or to the frame's end.
Progression(f, lo, hi, step) == [frame |-> f, lo |-> lo, hi |-> IF hi = None THEN f.stop ELSE hi, step |-> step]
CanProgress(f, lo, hi, step) ==
  /\ CanPoint(f, lo) /\ (hi # None => CanPoint(f, hi) /\ lo <= hi)
  /\ step >= 1
Visits(s) == (s.hi - s.lo + s.step - 1) \div s.step
LastVisited(s) == s.lo + (Visits(s) - 1) * s.step

SameLabelling(target, f) ==
  /\ f.name = target.name /\ f.chart = target.chart
  /\ (f.labels = None) = (target.labels = None)
  /\ f.level = target.level
LabelsAgree(target, f, points) ==
  f.labels # None => \A i \in points : LabelAt(f, i) = LabelAt(target, i)
AdmitCoordinate(target, f, i) ==
  SameLabelling(target, f) /\ InDim(target, i) /\ LabelsAgree(target, f, {i})
AdmitSlice(target, s) ==
  /\ SameLabelling(target, s.frame)
  /\ Visits(s) > 0 =>
       /\ InDim(target, s.lo) /\ InDim(target, LastVisited(s))
       /\ LabelsAgree(target, s.frame, {s.lo + j * s.step : j \in 0 .. Visits(s) - 1})
\* The whole frame, as a kernel's coordinate ranges over it.
AdmitFrame(target, f) ==
  \/ f = target
  \/ /\ SameLabelling(target, f) /\ target.start <= f.start /\ f.stop <= target.stop
     /\ LabelsAgree(target, f, f.start .. f.stop - 1)

-----------------------------------------------------------------------------
(* ALIGNMENT: what stops two operands, and the view operation that fixes it *)

NoFix == [op |-> "none"]
Bare(op, n) == [op |-> op, dim |-> n]
By(op, n, k) == [op |-> op, dim |-> n, by |-> k]
Issue(problem, fix) == {[problem |-> problem, fix |-> fix]}

LabelIssue(n, rd, d) ==
  IF rd.labels = None \/ d.labels = None THEN Issue("categorical", NoFix)
  ELSE IF rd.labels # d.labels THEN Issue("labels", NoFix)
  ELSE IF rd.start # d.start THEN Issue("label offset", By("shift", n, rd.start - d.start)) ELSE {}
\* The advice to decimate leaves the phase to the caller: no exact fix.
ChartIssue(n, a, b) ==
  IF b.step = -a.step THEN Issue("reversed", Bare("flip", n))
  ELSE IF b.step # a.step THEN Issue("steps", NoFix)
  ELSE IF b.kind # a.kind \/ b.axis # a.axis THEN Issue("kind", NoFix)
  ELSE IF (b.origin - a.origin) % Abs(a.step) # 0 THEN Issue("incommensurable", NoFix)
  ELSE IF b.origin # a.origin
       THEN Issue("offset", By("shift", n, ((b.origin - a.origin) * (IF a.step < 0 THEN -1 ELSE 1)) \div Abs(a.step)))
  ELSE {}
\* _frame_issue: at most one issue, the first that is met.
FrameIssue(n, rd, d) ==
  IF rd.level # d.level THEN Issue("placement", [op |-> "bind", dim |-> n, level |-> rd.level])
  ELSE IF rd.labels # None \/ d.labels # None THEN LabelIssue(n, rd, d)
  ELSE IF rd.chart = None /\ d.chart = None THEN {}
  ELSE IF rd.chart = None \/ d.chart = None THEN Issue("charted", NoFix)
  ELSE ChartIssue(n, rd.chart, d.chart)

\* ls are the layouts of the operands; the first that has a name refers.
Reference(ls, n) == ls[Min({k \in DOMAIN ls : n \in Names(ls[k])})].dims[n]
FrameIssues(ls, n) ==
  UNION {{[operand |-> k, dim |-> n, problem |-> i.problem, fix |-> i.fix] :
            i \in IF n \notin Names(ls[k])
                  THEN LET rd == Reference(ls, n)
                       IN  Issue("missing", [op |-> "repeat", dim |-> n, lo |-> rd.start, hi |-> rd.stop,
                                             chart |-> rd.chart, labels |-> rd.labels])
                  ELSE FrameIssue(n, Reference(ls, n), ls[k].dims[n])} : k \in DOMAIN ls}
DomainIssues(ls, n) ==
  LET lo == Max({ls[k].dims[n].start : k \in DOMAIN ls})
      hi == Most(lo, Min({ls[k].dims[n].stop : k \in DOMAIN ls}))
  IN  {[operand |-> k, dim |-> n, problem |-> "domain", fix |-> [op |-> "slice", dim |-> n, lo |-> lo, hi |-> hi]] :
         k \in {k \in DOMAIN ls : <<ls[k].dims[n].start, ls[k].dims[n].stop>> # <<lo, hi>>}}
\* Domains are compared once every frame of the name agrees.
Alignment(ls) ==
  UNION {IF FrameIssues(ls, n) # {} THEN FrameIssues(ls, n) ELSE DomainIssues(ls, n) :
           n \in UNION {Names(ls[k]) : k \in DOMAIN ls}}

-----------------------------------------------------------------------------
(* THE STATE, and a view operation in general                               *)

VARIABLES mem, view, handle, op, tracked, ops

vars == <<mem, view, handle, op, tracked, ops>>

Letters == <<"p", "q", "r", "s", "t", "u", "v", "w">>
Position(l, a) == {n \in OnAxis(l, a) : l.dims[n].chart.kind = "position"}
Axes(l) == {AxisOf(l, n) : n \in Charted(l)}
Known(l) == {a \in Axes(l) : Cardinality(Position(l, a)) = 1}
PositionAt(l, a, c) == Sigma(LAMBDA n : Phys(l.dims[n].chart, c[n]), OnAxis(l, a))

Init ==
  /\ view \in Tensors
  /\ mem = [b \in 0 .. NBytes - 1 |-> b]
  /\ \E n \in Names(view.base) : handle = FrameOf(view.base, n)
  /\ op = [op |-> "none"]
  /\ tracked = Known(view.base)
  /\ ops = 0

\* The axes whose labels a diagonal drops with its parts.
Unlabelled(o) ==
  IF o.op = "diagonal" /\ DiagonalChart(view.base, o.parts) = None
  THEN {AxisOf(view.base, n) : n \in o.parts \cap Charted(view.base)} ELSE {}
\* The tensor the operation makes; a dim or a layout may refuse to be made.
\* `tracked` are the axes whose position has been known since the program
\* charted them, and no label of theirs dropped by a diagonal; `axes` are
\* those it labels itself with this operation.
Makes(o, v, axes) ==
  /\ ops < MaxOps /\ ops' = ops + 1
  /\ WellFormed(v.base)
  /\ view' = v /\ op' = o
  /\ tracked' = ((tracked \cup axes) \ Unlabelled(o)) \cap Known(v.base)
  /\ UNCHANGED <<mem, handle>>

L == view.base
SliceView ==
  \E n \in Names(L), a, b \in {0, 1} :
    LET d == L.dims[n]
        lo == d.start + a
        hi == d.stop - b
    IN  /\ CanSlice(L, n, lo, hi) /\ a + b > 0
        /\ Makes([op |-> "slice", dim |-> n, lo |-> lo, hi |-> hi], GSlice(view, n, lo, hi), {})
SelectView ==
  \E S \in SUBSET Names(L) \ {{}} :
    LET points == [n \in S |-> L.dims[n].stop - 1]
    IN  /\ Cardinality(S) <= 2 /\ CanSelect(L, points)
        /\ Makes([op |-> "select", points |-> points], GSelect(view, points), {})
ShiftView ==
  \E n \in Names(L), s \in Shifts : Makes([op |-> "shift", dim |-> n, by |-> s], GShift(view, n, s), {})
\* A chart without an axis goes from that of the old name to that of the new.
RenameView ==
  \E n \in Names(L) :
    LET axes == IF n \in Charted(L) /\ L.dims[n].chart.axis = None THEN {n, "new"} ELSE {}
    IN  /\ CanRename(L, n, "new")
        /\ Makes([op |-> "rename", dim |-> n, new |-> "new", axes |-> axes], GRename(view, n, "new"), {})
RepeatView ==
  \E chart \in Charts \cup {None}, labels \in {None, <<"R", "G">>} :
    /\ CanRepeat(L, "r", 1, 3) /\ (chart = None \/ labels = None)
    /\ LET v == GRepeat(view, "r", 1, 3, chart, labels)
           axes == IF chart = None THEN {} ELSE {AxisOf(v.base, "r")}
       IN  Makes([op |-> "repeat", dim |-> "r", lo |-> 1, hi |-> 3, axes |-> axes], v, axes)
FlipView == \E n \in Names(L) : Makes([op |-> "flip", dim |-> n], GFlip(view, n), {})
SplitView ==
  \E n \in Names(L), size \in 2 .. 3, a \in {0, 1} :
    LET outer == Size(L.dims[n]) \div size
        parts == <<[name |-> "o", start |-> a, stop |-> a + outer], [name |-> "i", start |-> -a, stop |-> size - a]>>
    IN  /\ CanSplit(L, n, parts)
        /\ Makes([op |-> "split", dim |-> n, parts |-> parts], GSplit(view, n, parts), {})
MergeView ==
  \E m, n \in Names(L), start \in {0, 2} :
    /\ m # n /\ CanGMerge(view, <<m, n>>, "g")
    /\ Makes([op |-> "merge", parts |-> <<m, n>>, new |-> "g", start |-> start], GMerge(view, <<m, n>>, "g", start), {})
DiagonalView ==
  \E parts \in {S \in SUBSET Names(L) : Cardinality(S) = 2} :
    /\ CanDiagonal(L, parts, "z")
    /\ Makes([op |-> "diagonal", parts |-> parts, new |-> "z"], GDiagonal(view, parts, "z"), {})
WindowView ==
  \E n \in Names(L), taps \in Taps, dilation \in Factors :
    /\ CanWindow(L, n, "k", taps[1], taps[2] + 1, dilation)
    /\ Makes([op |-> "window", dim |-> n, new |-> "k", lo |-> taps[1], hi |-> taps[2] + 1, dilation |-> dilation],
             GWindow(view, n, "k", taps[1], taps[2] + 1, dilation), {})
DecimateView ==
  \E n \in Names(L), factor \in Factors, phase \in {0, 1} :
    Makes([op |-> "decimate", dim |-> n, factor |-> factor, phase |-> phase % factor],
          GDecimate(view, n, factor, phase), {})
PadView ==
  \E n \in Names(L), a \in {0, 1} :
    LET lo == L.dims[n].start - a
        hi == L.dims[n].stop + 1
    IN  /\ CanPad(view, n, lo, hi)
        /\ Makes([op |-> "pad", dim |-> n, lo |-> lo, hi |-> hi], Pad(view, n, lo, hi), {})
StencilView ==
  \E n \in Names(L), taps \in Taps, dilation \in Factors :
    /\ CanStencil(view, n, "t", taps[1], taps[2])
    /\ Makes([op |-> "stencil", dim |-> n, new |-> "t", lo |-> taps[1], hi |-> taps[2], dilation |-> dilation],
             Stencil(view, n, "t", taps[1], taps[2], dilation), {})
SimplifyView == ~Plain(view) /\ Makes([op |-> "simplify"], Simplify(view), {})
FieldView ==
  /\ view.size > FieldOffset
  /\ Makes([op |-> "field", offset |-> FieldOffset],
           [Rebase(view, [L EXCEPT !.offset = @ + FieldOffset]) EXCEPT !.size = @ - FieldOffset], {})
ChartView ==
  \E n \in Names(L), chart \in Charts \cup {None} :
    LET l == WithChart(L, n, chart)
        axes == {AxisOf(m, n) : m \in {m \in {l, L} : n \in Charted(m)}}
    IN  Makes([op |-> "with_charts", axes |-> axes], Rebase(view, l), axes)
LabelView ==
  \E n \in Names(L) :
    /\ Size(L.dims[n]) <= Len(Letters)
    /\ LET axes == IF n \in Charted(L) THEN {AxisOf(L, n)} ELSE {}
       IN  Makes([op |-> "with_labels", axes |-> axes],
                 Rebase(view, WithLabels(L, n, SubSeq(Letters, 1, Size(L.dims[n])))), axes)
StripView == Makes([op |-> "strip_charts", axes |-> Axes(L)], Rebase(view, StripCharts(L)), {})
BindView ==
  \E n \in Names(L), level \in Levels \cup {None} :
    CanBind(L, n, level) /\ Makes([op |-> "bind"], Rebase(view, Bind(L, n, level)), {})
RecenterView ==
  \E n \in Charted(L) :
    Makes([op |-> "recenter", axis |-> AxisOf(L, n), by |-> 5], Rebase(view, Recenter(L, n, 5)), {})

\* The program keeps the frame of a dim, and makes its coordinates later.
TakeFrame ==
  /\ ops < MaxOps /\ ops' = ops + 1
  /\ \E n \in Names(L) : handle' = FrameOf(L, n)
  /\ op' = [op |-> "frames"]
  /\ UNCHANGED <<mem, view, tracked>>
\* __getitem__ of a slice: a slice, then a decimation in phase with it.
SubscriptOf(v, s) ==
  LET n == s.frame.name
      v1 == GSlice(v, n, s.lo, IF Visits(s) = 0 THEN s.lo ELSE LastVisited(s) + 1)
  IN  IF Visits(s) = 0 \/ s.step = 1 THEN v1 ELSE GDecimate(v1, n, s.step, s.lo % s.step)
Subscript ==
  /\ handle.name \in Names(L)
  /\ LET target == FrameOf(L, handle.name)
         ends == {None} \cup handle.start .. handle.stop - 1
     IN  \/ \E i \in handle.start .. handle.stop - 1 :
              /\ AdmitCoordinate(target, handle, i)
              /\ Makes([op |-> "subscript", dim |-> handle.name, lo |-> i, step |-> 0],
                       GSelect(view, Single(handle.name, i)), {})
         \/ \E lo \in handle.start .. handle.stop - 1, hi \in ends, step \in Factors :
              LET s == Progression(handle, lo, hi, step)
              IN  /\ CanProgress(handle, lo, hi, step) /\ AdmitSlice(target, s)
                  /\ Makes([op |-> "subscript", dim |-> handle.name, lo |-> lo, hi |-> s.hi, step |-> step],
                           SubscriptOf(view, s), {})

\* The bytes at a point; the fill of every run is one value.
Read(m, v, c) ==
  LET loc == Resolve(v, c) IN IF loc = Fill THEN Fill ELSE [b \in 0 .. v.size - 1 |-> m[loc + b]]
Scalar(size) == [b \in 0 .. size - 1 |-> NBytes + b]
\* __setitem__: a scalar, or a tensor aligned with the view, on this buffer
\* too or not; its values are all read before one is written.
CanStore(v) == Plain(v) /\ GInjectivity(v) # "aliased"
ValueAt(m, v, w, c) == IF w = None THEN Scalar(v.size) ELSE Read(m, w, c)
Wrote(m, v, c, bytes) ==
  LET loc == GetLoc(v.base, c)
  IN  [b \in DOMAIN m |-> IF loc <= b /\ b < loc + v.size THEN bytes[b - loc] ELSE m[b]]
\* Variant: each value is read when its turn to be written comes.
StoredInPlace(m, v, w) == {FoldSet(LAMBDA c, now : Wrote(now, v, c, ValueAt(now, v, w, c)), m, Domain(v.base))}
\* Two points of one place write in the order of the dims, which a layout
\* does not fix: either may be the last.
Places(l) == {GetLoc(l, c) : c \in Domain(l)}
Lasts(l, places) ==
  FoldSet(LAMBDA p, fs : {Override(f, Single(p, c)) : f \in fs, c \in {c \in Domain(l) : GetLoc(l, c) = p}},
          {<<>>}, places)
WritesOf(m, v, w, last, places) ==
  FoldSet(LAMBDA p, now : Wrote(now, v, last[p], ValueAt(m, v, w, last[p])), m, places)
Stored(m, v, w) ==
  LET places == Places(v.base) IN {WritesOf(m, v, w, last, places) : last \in Lasts(v.base, places)}
\* What is stored: a scalar, or a view of the same bytes.
Sources(v) ==
  {None} \cup {w \in {GFlip(v, n) : n \in Names(v.base)} : Alignment(<<v.base, w.base>>) = {}}
Store ==
  /\ ops < MaxOps /\ ops' = ops + 1
  /\ CanStore(view)
  /\ \E w \in Sources(view) :
       /\ mem' \in Stored(mem, view, w)
       /\ op' = [op |-> "store", value |-> [c \in Domain(L) |-> ValueAt(mem, view, w, c)]]
  /\ UNCHANGED <<view, handle, tracked>>

Next ==
  \/ SliceView \/ SelectView \/ ShiftView \/ RenameView \/ RepeatView \/ FlipView \/ SplitView \/ MergeView
  \/ DiagonalView \/ WindowView \/ DecimateView \/ PadView \/ StencilView \/ SimplifyView \/ FieldView
  \/ ChartView \/ LabelView \/ StripView \/ BindView \/ RecenterView \/ TakeFrame \/ Subscript \/ Store
Spec == Init /\ [][Next]_vars

-----------------------------------------------------------------------------
(* PROPERTIES *)

\* The view is a layout its own checks accept, and its guards are on its dims.
TypeOK ==
  /\ WellFormed(L)
  /\ \A j \in DOMAIN view.guards : DOMAIN view.guards[j].coeffs \subseteq Names(L)
  /\ DOMAIN mem = 0 .. NBytes - 1

\* Every view operation, on strides, offsets, guards and charts, is the
\* composition with its function of points: the data are those of the old
\* points or fill, and positions and labels stay glued to the data (axis
\* invariant of layout.py; the guard rewrites of guarded.py).
P == INSTANCE PointMaps WITH
  box <- [n \in Names(L) |-> L.dims[n].start .. L.dims[n].stop - 1],
  map <- [c \in Domain(L) |->
            [at |-> Resolve(view, c),
             pos |-> [a \in tracked |-> PositionAt(L, a, c)],
             tags |-> [n \in {n \in Names(L) : L.dims[n].labels # None} |-> LabelAt(L.dims[n], c[n])]]]
IsAPointMap == P!Spec

Reals(v) == {c \in Domain(v.base) : Resolve(v, c) # Fill}
Bytes(v) == UNION {GetLoc(v.base, c) .. GetLoc(v.base, c) + v.size - 1 : c \in Reals(v)}
\* The footprint holds every byte the view can read, it is exact for a
\* plain layout, and it stays in the buffer: no operation leaves it.
FootprintIsHonest ==
  LET fp == GFootprint(view, view.size)
  IN  IF fp = None THEN Bytes(view) = {}
      ELSE /\ Bytes(view) \subseteq fp[1] .. fp[2] - 1
           /\ Bytes(view) \subseteq DOMAIN mem
           /\ Plain(view) => fp[1] = Min(Bytes(view)) /\ fp[2] = Max(Bytes(view)) + 1

Overlaps(v, w) ==
  LET a == GFootprint(v, v.size)
      b == GFootprint(w, w.size)
  IN  a # None /\ b # None /\ a[1] < b[2] /\ b[1] < a[2]
\* Two tensors that share a byte are said to overlap.
SharersOverlap == \A w \in Operands : Bytes(view) \cap Bytes(w) # {} => Overlaps(view, w)

\* INJECTIVE and ALIASED are proofs, with or without guards, and a
\* contiguous layout packs one block.  (On an empty box everything is true.)
VerdictsAreProofs ==
  LET collide == \E c, e \in Reals(view) : c # e /\ GetLoc(L, c) = GetLoc(L, e)
  IN  /\ GInjectivity(view) = "injective" => ~collide
      /\ GInjectivity(view) = "aliased" /\ Numel(L) > 0 => collide
      /\ Plain(view) /\ Numel(L) > 0 /\ IsContiguous(L, view.size) =>
           ~collide /\ Cardinality(Bytes(view)) = Max(Bytes(view)) - Min(Bytes(view)) + 1

\* Discharging guards changes no point, and a guard that is kept matters
\* somewhere; a view said to be all fill has no location.
GuardsDischarge ==
  /\ \A c \in Domain(L) : Resolve(Simplify(view), c) = Resolve(view, c)
  /\ \A j \in DOMAIN Simplify(view).guards : \E c \in Domain(L) : ~Holds(Simplify(view).guards[j], c)
  /\ AlwaysFill(view) => Reals(view) = {}

\* One check of a whole frame admits it if each of its points is admitted.
WholeFrameIsPointwise ==
  \A n \in Names(L) : handle.name = n /\ handle.start < handle.stop =>
    (AdmitFrame(FrameOf(L, n), handle) <=>
       \A i \in handle.start .. handle.stop - 1 : AdmitCoordinate(FrameOf(L, n), handle, i))

Applied(l, fix) ==
  CASE fix.op = "flip" -> Flip(l, fix.dim)
    [] fix.op = "shift" -> Shift(l, fix.dim, fix.by)
    [] fix.op = "slice" -> Slice(l, fix.dim, fix.lo, fix.hi)
    [] fix.op = "repeat" -> Repeat(l, fix.dim, fix.lo, fix.hi, fix.chart, fix.labels)
    [] fix.op = "bind" -> Bind(l, fix.dim, fix.level)
Applies(l, fix) == fix # NoFix /\ (fix.op = "bind" => CanBind(l, fix.dim, fix.level)) /\ WellFormed(Applied(l, fix))
Rest(issues) == {[operand |-> i.operand, dim |-> i.dim, problem |-> i.problem] : i \in issues}
\* The fix of an issue, where it is a view operation the operand allows, is
\* a fix: the issue is gone once it is applied, and nothing else is added
\* but on the same dim.
FixesFix ==
  \A w \in Operands :
    LET ls == <<w.base, L>>
    IN  \A i \in Alignment(ls) :
          Applies(ls[i.operand], i.fix) =>
            LET after == Rest(Alignment([ls EXCEPT ![i.operand] = Applied(@, i.fix)]))
            IN  /\ [operand |-> i.operand, dim |-> i.dim, problem |-> i.problem] \notin after
                /\ \A j \in after \ Rest(Alignment(ls)) : j.dim = i.dim

\* What is said of a view without looking at its points is true of them.
ViewsAreHonest ==
  /\ FootprintIsHonest /\ SharersOverlap /\ VerdictsAreProofs /\ GuardsDischarge
  /\ WholeFrameIsPointwise /\ FixesFix

\* What a store writes is what the view then reads, whole and also when the
\* value is a view of the same bytes, and no other byte changes.
ReadsBack ==
  /\ \A c \in Domain(L) : Read(mem', view, c) = op'.value[c]
  /\ \A b \in DOMAIN mem \ Bytes(view) : mem'[b] = mem[b]
Stores == op'.op = "store" /\ ops' # ops
StoreReadsBack == [][Stores /\ GInjectivity(view) = "injective" => ReadsBack]_vars

\* The axis invariant as layout.py states it: every operation keeps the
\* position of every axis that has one before and after.  It does not hold.
OldPoint(c) == P!Back(op', [n \in Names(L) |-> L.dims[n].start .. L.dims[n].stop - 1], c)
OpsKeepPositions ==
  [][op'.op \in {"slice", "select", "shift", "flip", "split", "merge", "diagonal", "window", "decimate"} =>
       \A c \in Domain(view'.base), a \in Known(L) \cap Known(view'.base) :
         PositionAt(view'.base, a, c) = PositionAt(L, a, OldPoint(c))]_vars

\* DESIGN.md D6: "the library should refuse (or at least flag) writes
\* through a view unless is_injective holds".  It does not hold.
StoresReadBack == [][Stores => ReadsBack]_vars
=============================================================================
