---------------------------- MODULE ViewsProofs ------------------------------
(***************************************************************************)
(* Proofs about Views, for every initial tensor, memory and bound that     *)
(* ViewsAssumption admits: the types, that every operation leaves each     *)
(* datum where PointMaps says, that no view leaves its buffer, that        *)
(* discharging guards is right, that a store to an injective view is read  *)
(* back, that what a view claims of itself is true, and that Views         *)
(* implements PointMaps.  The inductive invariant is Sound (the view is a  *)
(* tensor with a well-formed layout), Memory (memory is a function on the  *)
(* bytes of the buffer), InBuffer and Apart (data lie in the buffer and do *)
(* not overlap in part), and for the refinement IsCharted, IsTyped and     *)
(* that the tracked positions are known: an operation makes a tensor of    *)
(* old data, so it keeps InBuffer and Apart, and a store needs both and    *)
(* the first two.                                                          *)
(***************************************************************************)
EXTENDS PointProofs

-----------------------------------------------------------------------------
(* THE OPERATIONS OF THE MACHINE                                            *)

\* What every operation makes of the tensor it is applied to.
Made(o, v, w) ==
  /\ Keeps(o, v, w) /\ WellFormed(w.base)
  /\ IF o.op = "field" THEN o.offset \in Nat /\ w.size + o.offset = v.size /\ w.size >= 1 ELSE w.size = v.size
Stepped == Made(op', view, view') /\ mem' = mem /\ handle' = handle /\ op'.op # "store"
IntHandle == handle.start \in Int /\ handle.stop \in Int
Sound == IsView(view) /\ view.size >= 1 /\ WellFormed(view.base) /\ IntHandle

\* The bounds of a dim of a sound view are integers in order.
LEMMA BoundsInt ==
  ASSUME Sound, NEW n, n \in Names(L)
  PROVE  L.dims[n].start \in Int /\ L.dims[n].stop \in Int /\ L.dims[n].start <= L.dims[n].stop
BY DEF Sound, IsView, IsLayout, IsDim, WellFormed, L

\* The element size of a sound view is a number.
LEMMA SizeInt ==
  ASSUME Sound
  PROVE  view.size \in Nat /\ IsView(view)
BY DEF Sound, IsView

\* A step that makes a tensor which keeps its data and its element size has made it.
LEMMA MakesMade ==
  ASSUME Sound, NEW o, NEW v, NEW axes, Makes(o, v, axes), Keeps(o, view, v), v.size = view.size, o.op \notin {"field", "store"}
  PROVE  Stepped
<1>1. view.size \in Nat
  BY SizeInt
<1>2. WellFormed(v.base) /\ view' = v /\ op' = o /\ mem' = mem /\ handle' = handle
  BY DEF Makes
<1>3. QED
  BY <1>1, <1>2 DEF Stepped, Made

\* slice makes a tensor that keeps its data.
LEMMA SliceSteps ==
  ASSUME Sound, SliceView
  PROVE  Stepped
<1>1. PICK n, a, b, lo, hi, o, v :
        /\ n \in Names(L) /\ a \in {0, 1} /\ b \in {0, 1} /\ lo = L.dims[n].start + a /\ hi = L.dims[n].stop - b
        /\ CanSlice(L, n, lo, hi) /\ o.op = "slice" /\ v = GSlice(view, n, lo, hi) /\ Makes(o, v, {})
  BY DEF SliceView
<1>2. lo \in Int /\ hi \in Int
  BY <1>1, BoundsInt
<1>3. Keeps(o, view, v)
  BY <1>1, <1>2, SliceKeeps, SizeInt DEF L
<1>4. v.size = view.size
  BY <1>1, RebaseIs, SizeInt DEF GSlice
<1>5. QED
  BY <1>1, <1>3, <1>4, MakesMade

\* select makes a tensor that keeps its data.
LEMMA SelectSteps ==
  ASSUME Sound, SelectView
  PROVE  Stepped
<1>1. PICK S, points, o, v :
        /\ S \in SUBSET Names(L) /\ points = [n \in S |-> L.dims[n].stop - 1] /\ CanSelect(L, points)
        /\ o = [op |-> "select", points |-> points] /\ v = GSelect(view, points) /\ Makes(o, v, {})
  BY DEF SelectView
<1>2. \A n \in S : points[n] \in Int
  BY <1>1, BoundsInt
<1>3. Selects(view, points)
  BY <1>1, <1>2, SizeInt DEF Selects, L
<1>4. Keeps(o, view, v)
  BY <1>1, <1>3, SelectKeeps
<1>5. v.size = view.size
  BY <1>1, ViewIs, SizeInt DEF GSelect
<1>6. QED
  BY <1>1, <1>4, <1>5, MakesMade

\* shift makes a tensor that keeps its data.
LEMMA ShiftSteps ==
  ASSUME Sound, ShiftView
  PROVE  Stepped
<1>1. PICK n, s, o, v :
        /\ n \in Names(L) /\ s \in Shifts /\ o = [op |-> "shift", dim |-> n, by |-> s]
        /\ v = GShift(view, n, s) /\ Makes(o, v, {})
  BY DEF ShiftView
<1>2. s \in Int
  BY <1>1, ViewsAssumption
<1>3. Keeps(o, view, v)
  BY <1>1, <1>2, ShiftKeeps, SizeInt DEF L
<1>4. v.size = view.size
  BY <1>1, ViewIs, SizeInt DEF GShift
<1>5. QED
  BY <1>1, <1>3, <1>4, MakesMade

\* rename makes a tensor that keeps its data.
LEMMA RenameSteps ==
  ASSUME Sound, RenameView
  PROVE  Stepped
<1>1. PICK n, axes, o, v :
        /\ n \in Names(L) /\ CanRename(L, n, "new") /\ o = [op |-> "rename", dim |-> n, new |-> "new", axes |-> axes]
        /\ v = GRename(view, n, "new") /\ Makes(o, v, {})
  BY DEF RenameView
<1>2. Keeps(o, view, v)
  BY <1>1, RenameKeeps, SizeInt DEF L
<1>3. v.size = view.size
  BY <1>1, ViewIs, SizeInt DEF GRename
<1>4. QED
  BY <1>1, <1>2, <1>3, MakesMade

\* repeat makes a tensor that keeps its data.
LEMMA RepeatSteps ==
  ASSUME Sound, RepeatView
  PROVE  Stepped
<1>1. PICK chart, labels, o, v, axes :
        /\ CanRepeat(L, "r", 1, 3) /\ o.op = "repeat" /\ o.dim = "r"
        /\ v = GRepeat(view, "r", 1, 3, chart, labels) /\ Makes(o, v, axes)
  BY DEF RepeatView
<1>2. Repeated(view, "r", 1, 3)
  BY <1>1, SizeInt DEF Repeated, CanRepeat, L
<1>3. Keeps(o, view, v)
  BY <1>1, <1>2, RepeatKeeps
<1>4. v.size = view.size
  BY <1>1, RebaseIs, SizeInt DEF GRepeat
<1>5. QED
  BY <1>1, <1>3, <1>4, MakesMade

\* flip makes a tensor that keeps its data.
LEMMA FlipSteps ==
  ASSUME Sound, FlipView
  PROVE  Stepped
<1>1. PICK n, o, v : n \in Names(L) /\ o = [op |-> "flip", dim |-> n] /\ v = GFlip(view, n) /\ Makes(o, v, {})
  BY DEF FlipView
<1>2. Keeps(o, view, v)
  BY <1>1, FlipKeeps, SizeInt DEF L
<1>3. v.size = view.size
  BY <1>1, ViewIs, SizeInt DEF GFlip
<1>4. QED
  BY <1>1, <1>2, <1>3, MakesMade

\* split makes a tensor that keeps its data.
LEMMA SplitSteps ==
  ASSUME Sound, SplitView
  PROVE  Stepped
<1>1. PICK n, size, a, outer, x, y, parts, o, v :
        /\ n \in Names(L) /\ size \in 2 .. 3 /\ a \in {0, 1} /\ outer = Size(L.dims[n]) \div size
        /\ x = [name |-> "o", start |-> a, stop |-> a + outer] /\ y = [name |-> "i", start |-> -a, stop |-> size - a]
        /\ parts = <<x, y>> /\ CanSplit(L, n, parts) /\ o = [op |-> "split", dim |-> n, parts |-> parts]
        /\ v = GSplit(view, n, parts) /\ Makes(o, v, {})
  BY DEF SplitView
<1>2. outer \in Int
  <2>1. Size(L.dims[n]) \in Int /\ size \in Nat \ {0}
    BY <1>1, BoundsInt DEF Size
  <2>2. QED
    BY <1>1, <2>1, DivIs
<1>3. TwoParts(parts, x, y)
  <2>1. x.name = "o" /\ y.name = "i" /\ x.start = a /\ x.stop = a + outer /\ y.start = -a /\ y.stop = size - a
    BY <1>1
  <2>2. a \in Int /\ size \in Int
    BY <1>1
  <2>3. IsPart(x) /\ IsPart(y)
    BY <1>2, <2>1, <2>2 DEF IsPart
  <2>4. "o" # "i"
    OBVIOUS
  <2>5. QED
    BY <1>1, <2>1, <2>3, <2>4 DEF TwoParts
<1>4. Keeps(o, view, v)
  BY <1>1, <1>3, SplitKeeps, SizeInt DEF L
<1>5. v.size = view.size
  BY <1>1, ViewIs, SizeInt DEF GSplit
<1>6. QED
  BY <1>1, <1>4, <1>5, MakesMade

\* merge makes a tensor that keeps its data.
LEMMA MergeSteps ==
  ASSUME Sound, MergeView
  PROVE  Stepped
<1>1. PICK m, n, start, parts, o, v :
        /\ m \in Names(L) /\ n \in Names(L) /\ start \in {0, 2} /\ m # n /\ parts = <<m, n>> /\ CanGMerge(view, parts, "g")
        /\ o = [op |-> "merge", parts |-> parts, new |-> "g", start |-> start]
        /\ v = GMerge(view, parts, "g", start) /\ Makes(o, v, {})
  BY DEF MergeView
<1>2. Merged(view, m, n, parts, "g")
  BY <1>1, BoundsInt, SizeInt DEF Merged, L
<1>3. start \in Int
  BY <1>1
<1>4. Keeps(o, view, v)
  BY <1>1, <1>2, <1>3, MergeKeeps
<1>5. v.size = view.size
  BY <1>1, ViewIs, SizeInt DEF GMerge
<1>6. QED
  BY <1>1, <1>4, <1>5, MakesMade

\* diagonal makes a tensor that keeps its data.
LEMMA DiagonalSteps ==
  ASSUME Sound, DiagonalView
  PROVE  Stepped
<1>1. PICK parts, o, v :
        /\ parts \in SUBSET Names(L) /\ Cardinality(parts) = 2 /\ CanDiagonal(L, parts, "z")
        /\ o = [op |-> "diagonal", parts |-> parts, new |-> "z"] /\ v = GDiagonal(view, parts, "z") /\ Makes(o, v, {})
  BY DEF DiagonalView
<1>2. PICK x, y : x # y /\ parts = {x, y}
  <2>1. IsFiniteSet(Names(L))
    BY DEF Sound, IsView, IsLayout, L
  <2>2. IsFiniteSet(parts)
    BY <1>1, <2>1, FS_Subset
  <2>3. QED
    BY <1>1, <2>2, TwoElements
<1>3. Diagonals(view, parts, x, y, "z")
  BY <1>1, <1>2, SizeInt DEF Diagonals, L
<1>4. Keeps(o, view, v)
  BY <1>1, <1>3, DiagonalKeeps
<1>5. v.size = view.size
  BY <1>1, ViewIs, SizeInt DEF GDiagonal
<1>6. QED
  BY <1>1, <1>4, <1>5, MakesMade

\* window makes a tensor that keeps its data.
LEMMA WindowSteps ==
  ASSUME Sound, WindowView
  PROVE  Stepped
<1>1. PICK n, taps, dilation, lo, hi, o, v :
        /\ n \in Names(L) /\ taps \in Taps /\ dilation \in Factors /\ lo = taps[1] /\ hi = taps[2] + 1
        /\ CanWindow(L, n, "k", lo, hi, dilation)
        /\ o = [op |-> "window", dim |-> n, new |-> "k", lo |-> lo, hi |-> hi, dilation |-> dilation]
        /\ v = GWindow(view, n, "k", lo, hi, dilation) /\ Makes(o, v, {})
  BY DEF WindowView
<1>2. lo \in Int /\ hi \in Int /\ dilation \in Nat
  BY <1>1, ViewsAssumption
<1>3. Keeps(o, view, v)
  BY <1>1, <1>2, WindowKeeps, SizeInt DEF L
<1>4. v.size = view.size
  BY <1>1, ViewIs, SizeInt DEF GWindow
<1>5. QED
  BY <1>1, <1>3, <1>4, MakesMade

\* decimate makes a tensor that keeps its data.
LEMMA DecimateSteps ==
  ASSUME Sound, DecimateView
  PROVE  Stepped
<1>1. PICK n, factor, phase, o, v :
        /\ n \in Names(L) /\ factor \in Factors /\ phase \in {0, 1}
        /\ o = [op |-> "decimate", dim |-> n, factor |-> factor, phase |-> phase % factor]
        /\ v = GDecimate(view, n, factor, phase) /\ Makes(o, v, {})
  BY DEF DecimateView
<1>2. factor \in Nat \ {0} /\ phase \in Int
  BY <1>1, ViewsAssumption
<1>3. Keeps(o, view, v)
  BY <1>1, <1>2, DecimateKeeps, SizeInt DEF L
<1>4. v.size = view.size
  BY <1>1, ViewIs, SizeInt DEF GDecimate
<1>5. QED
  BY <1>1, <1>3, <1>4, MakesMade

\* pad makes a tensor that keeps its data.
LEMMA PadSteps ==
  ASSUME Sound, PadView
  PROVE  Stepped
<1>1. PICK n, a, lo, hi, o, v :
        /\ n \in Names(L) /\ a \in {0, 1} /\ lo = L.dims[n].start - a /\ hi = L.dims[n].stop + 1
        /\ o = [op |-> "pad", dim |-> n, lo |-> lo, hi |-> hi] /\ v = Pad(view, n, lo, hi) /\ Makes(o, v, {})
  BY DEF PadView
<1>2. lo \in Int /\ hi \in Int
  BY <1>1, BoundsInt
<1>3. Keeps(o, view, v)
  BY <1>1, <1>2, PadKeeps, SizeInt DEF L
<1>4. v.size = view.size
  BY <1>1, ViewIs, SizeInt DEF Pad
<1>5. QED
  BY <1>1, <1>3, <1>4, MakesMade

\* stencil makes a tensor that keeps its data.
LEMMA StencilSteps ==
  ASSUME Sound, StencilView
  PROVE  Stepped
<1>1. PICK n, taps, dilation, lo, hi, o, v :
        /\ n \in Names(L) /\ taps \in Taps /\ dilation \in Factors /\ lo = taps[1] /\ hi = taps[2]
        /\ CanStencil(view, n, "t", lo, hi)
        /\ o = [op |-> "stencil", dim |-> n, new |-> "t", lo |-> lo, hi |-> hi, dilation |-> dilation]
        /\ v = Stencil(view, n, "t", lo, hi, dilation) /\ Makes(o, v, {})
  BY DEF StencilView
<1>2. lo \in Int /\ hi \in Int /\ dilation \in Nat
  BY <1>1, ViewsAssumption
<1>3. Keeps(o, view, v)
  BY <1>1, <1>2, StencilKeeps, SizeInt DEF L
<1>4. v.size = view.size
  BY <1>1, ViewIs, SizeInt DEF Stencil
<1>5. QED
  BY <1>1, <1>3, <1>4, MakesMade

\* discharge makes a tensor that keeps its data.
LEMMA SimplifySteps ==
  ASSUME Sound, SimplifyView
  PROVE  Stepped
<1>1. PICK o, v : o.op = "simplify" /\ v = Simplify(view) /\ Makes(o, v, {})
  BY DEF SimplifyView
<1>2. Keeps(o, view, v)
  BY <1>1, SimplifyKeeps, SizeInt
<1>3. v.size = view.size
  BY <1>1, SimplifyIs, SizeInt
<1>4. QED
  BY <1>1, <1>2, <1>3, MakesMade

\* field makes a tensor whose data is that of the field.
LEMMA FieldSteps ==
  ASSUME Sound, FieldView
  PROVE  Stepped
<1>1. PICK f : f = FieldOffset
  OBVIOUS
<1>2. PICK o, v :
        /\ view.size > f /\ o = [op |-> "field", offset |-> f] /\ v = FieldOf(view, f) /\ Makes(o, v, {})
  BY <1>1 DEF FieldView, FieldOf, L
<1>3. f \in Nat /\ Fill \notin Int /\ view.size \in Nat /\ IsView(view)
  BY <1>1, ViewsAssumption, SizeInt
<1>4. Keeps(o, view, v)
  BY <1>2, <1>3, FieldKeeps
<1>5. v.size = view.size - f
  <2>1. PICK r : r = Rebase(view, [view.base EXCEPT !.offset = @ + f])
    OBVIOUS
  <2>2. "size" \in DOMAIN r /\ r.size = view.size
    BY <1>3, <2>1, RebaseIs
  <2>3. v = [r EXCEPT !.size = @ - f]
    BY <1>2, <2>1 DEF FieldOf
  <2>4. QED
    BY <2>2, <2>3
<1>6. WellFormed(v.base) /\ view' = v /\ op' = o /\ mem' = mem /\ handle' = handle /\ o.op = "field"
  BY <1>2 DEF Makes
<1>7. o.offset = f /\ v.size + f = view.size /\ v.size >= 1
  BY <1>2, <1>3, <1>5
<1>8. QED
  BY <1>3, <1>4, <1>6, <1>7 DEF Stepped, Made

\* An op that relabels makes a tensor that keeps its data.
LEMMA RelabelSteps ==
  ASSUME Sound, NEW o, o.op \in InPlace, o.op \notin {"field", "store"}, NEW r, Relabels(r, L), NEW axes, Makes(o, Rebase(view, r), axes)
  PROVE  Stepped
<1>1. Keeps(o, view, Rebase(view, r))
  BY RelabelKeeps, SizeInt DEF L
<1>2. Rebase(view, r).size = view.size
  BY RebaseIs, SizeInt
<1>3. QED
  BY <1>1, <1>2, MakesMade

\* The layout of a sound view is a layout.
LEMMA LayoutOfView ==
  ASSUME Sound
  PROVE  IsLayout(L)
BY DEF Sound, IsView, L

\* with_charts makes a tensor that keeps its data.
LEMMA ChartSteps ==
  ASSUME Sound, ChartView
  PROVE  Stepped
<1>1. PICK n, chart, r, o, axes :
        /\ n \in Names(L) /\ r = WithChart(L, n, chart) /\ o.op = "with_charts" /\ Makes(o, Rebase(view, r), axes)
  BY DEF ChartView
<1>2. Relabels(r, L)
  BY <1>1, LayoutOfView, WithChartRelabels
<1>3. QED
  BY <1>1, <1>2, RelabelSteps DEF InPlace

\* with_labels makes a tensor that keeps its data.
LEMMA LabelSteps ==
  ASSUME Sound, LabelView
  PROVE  Stepped
<1>1. PICK n, labels, r, o, axes :
        /\ n \in Names(L) /\ r = WithLabels(L, n, labels) /\ o.op = "with_labels" /\ Makes(o, Rebase(view, r), axes)
  BY DEF LabelView
<1>2. Relabels(r, L)
  BY <1>1, LayoutOfView, WithLabelsRelabels
<1>3. QED
  BY <1>1, <1>2, RelabelSteps DEF InPlace

\* strip_charts makes a tensor that keeps its data.
LEMMA StripSteps ==
  ASSUME Sound, StripView
  PROVE  Stepped
<1>1. PICK r, o, axes : r = StripCharts(L) /\ o.op = "strip_charts" /\ Makes(o, Rebase(view, r), axes)
  BY DEF StripView
<1>2. Relabels(r, L)
  BY <1>1, LayoutOfView, StripRelabels
<1>3. QED
  BY <1>1, <1>2, RelabelSteps DEF InPlace

\* bind makes a tensor that keeps its data.
LEMMA BindSteps ==
  ASSUME Sound, BindView
  PROVE  Stepped
<1>1. PICK n, level, r, o :
        /\ n \in Names(L) /\ r = Bind(L, n, level) /\ o.op = "bind" /\ Makes(o, Rebase(view, r), {})
  BY DEF BindView
<1>2. Relabels(r, L)
  BY <1>1, LayoutOfView, BindRelabels
<1>3. QED
  BY <1>1, <1>2, RelabelSteps DEF InPlace

\* recenter makes a tensor that keeps its data.
LEMMA RecenterSteps ==
  ASSUME Sound, RecenterView
  PROVE  Stepped
<1>1. PICK n, r, o :
        /\ n \in Charted(L) /\ r = Recenter(L, n, 5) /\ o.op = "recenter" /\ Makes(o, Rebase(view, r), {})
  BY DEF RecenterView
<1>2. n \in Names(L)
  BY <1>1 DEF Charted
<1>3. Relabels(r, L)
  BY <1>1, <1>2, LayoutOfView, RecenterRelabels
<1>4. QED
  BY <1>1, <1>3, RelabelSteps DEF InPlace

\* A subscript by a coordinate makes a tensor that keeps its data.
LEMMA PointSteps ==
  ASSUME Sound, NEW n, n \in Names(L), NEW i \in Int, AdmitCoordinate(FrameOf(L, n), handle, i),
         Makes([op |-> "subscript", dim |-> n, lo |-> i, step |-> 0], GSelect(view, Single(n, i)), {})
  PROVE  Stepped
<1>1. PICK o, v : /\ o = [op |-> "subscript", dim |-> n, lo |-> i, step |-> 0]
                  /\ v = GSelect(view, Single(n, i)) /\ Makes(o, v, {})
  OBVIOUS
<1>2. InDim(L.dims[n], i)
  BY DEF AdmitCoordinate, FrameOf, InDim
<1>3. Keeps(o, view, v)
  BY <1>1, <1>2, PointKeeps, SizeInt DEF L
<1>4. v.size = view.size
  BY <1>1, ViewIs, SizeInt DEF GSelect
<1>5. QED
  BY <1>1, <1>3, <1>4, MakesMade

\* How many coordinates a slice visits, and the last of them.
LEMMA VisitsNat ==
  ASSUME NEW lo \in Int, NEW hi \in Int, lo <= hi, NEW step \in Nat \ {0},
         NEW s, s.lo = lo, s.hi = hi, s.step = step
  PROVE  /\ Visits(s) \in Nat
         /\ LastVisited(s) \in Int /\ (Visits(s) > 0 => lo <= LastVisited(s))
<1>1. PICK k : k = (hi - lo + step - 1) \div step
  OBVIOUS
<1>2. k \in Nat
  BY <1>1
<1>3. Visits(s) = k /\ LastVisited(s) = lo + (k - 1) * step
  BY <1>1 DEF Visits, LastVisited
<1>4. (k - 1) * step \in Int
  BY <1>2
<1>5. k > 0 => (k - 1) * step >= 0
  <2>1. ASSUME k > 0 PROVE (k - 1) * step >= 0
    <3>1. PICK m \in Nat : m = k - 1
      BY <1>2, <2>1
    <3>2. m * step >= 0
      OBVIOUS
    <3>3. QED
      BY <3>1, <3>2
  <2>2. QED
    BY <2>1
<1>6. QED
  BY <1>2, <1>3, <1>4, <1>5

\* A subscript by a slice makes a tensor that keeps its data.
LEMMA StrideSteps ==
  ASSUME Sound, NEW n, n = handle.name, n \in Names(L), NEW lo \in Int, NEW hi \in Int, lo <= hi, NEW step \in Nat \ {0},
         NEW s, s.frame = handle, s.lo = lo, s.hi = hi, s.step = step,
         AdmitSlice(FrameOf(L, n), s), NEW last,
         Makes([op |-> "subscript", dim |-> n, lo |-> lo, hi |-> last, step |-> step], SubscriptOf(view, s), {})
  PROVE  Stepped
<1>1. PICK o, v : /\ o = [op |-> "subscript", dim |-> n, lo |-> lo, hi |-> last, step |-> step]
                  /\ v = SubscriptOf(view, s) /\ Makes(o, v, {})
  OBVIOUS
<1>2. PICK k, e : k = Visits(s) /\ e = LastVisited(s)
  OBVIOUS
<1>3. k \in Nat /\ e \in Int /\ (k > 0 => lo <= e)
  BY <1>2, VisitsNat
<1>4. k > 0 => L.dims[n].start <= lo /\ e < L.dims[n].stop
  BY <1>2 DEF AdmitSlice, FrameOf, InDim
<1>5. PICK x : x = IF k = 0 THEN lo ELSE e + 1
  OBVIOUS
<1>6. x \in Int /\ lo <= x /\ (lo = x <=> k = 0)
  BY <1>3, <1>5
<1>7. L.dims[n].start \in Int /\ L.dims[n].stop \in Int
  BY BoundsInt
<1>8. lo # x => L.dims[n].start <= lo /\ x <= L.dims[n].stop
  BY <1>3, <1>4, <1>5, <1>6, <1>7
<1>9. IsSlicing(view, n, lo, x, step)
  BY <1>6, <1>8, SizeInt DEF IsSlicing, L
<1>10. v = Sliced(view, n, lo, x, step)
  BY <1>1, <1>2, <1>5, <1>6 DEF SubscriptOf, Sliced
<1>11. Keeps(o, view, v)
  BY <1>1, <1>9, <1>10, SlicedKeeps
<1>12. v.size = view.size
  BY <1>9, <1>10, SlicedLands
<1>13. QED
  BY <1>1, <1>11, <1>12, MakesMade

\* Subscripting makes a tensor that keeps its data.
LEMMA SubscriptSteps ==
  ASSUME Sound, Subscript
  PROVE  Stepped
<1>1. PICK n : n = handle.name /\ n \in Names(L)
  BY DEF Subscript
<1>2. handle.start \in Int /\ handle.stop \in Int
  BY DEF Sound, IntHandle
<1>3. CASE \E i \in handle.start .. handle.stop - 1 :
             /\ AdmitCoordinate(FrameOf(L, n), handle, i)
             /\ Makes([op |-> "subscript", dim |-> n, lo |-> i, step |-> 0], GSelect(view, Single(n, i)), {})
  BY <1>1, <1>2, <1>3, PointSteps
<1>4. CASE \E lo \in handle.start .. handle.stop - 1, hi \in {None} \cup handle.start .. handle.stop - 1, step \in Factors :
             /\ CanProgress(handle, lo, hi, step) /\ AdmitSlice(FrameOf(L, n), Progression(handle, lo, hi, step))
             /\ Makes([op |-> "subscript", dim |-> n, lo |-> lo, hi |-> Progression(handle, lo, hi, step).hi, step |-> step],
                      SubscriptOf(view, Progression(handle, lo, hi, step)), {})
  <2>1. PICK lo, hi, step, s :
           /\ lo \in handle.start .. handle.stop - 1 /\ hi \in {None} \cup handle.start .. handle.stop - 1
           /\ step \in Factors /\ s = Progression(handle, lo, hi, step)
           /\ CanProgress(handle, lo, hi, step) /\ AdmitSlice(FrameOf(L, n), s)
           /\ Makes([op |-> "subscript", dim |-> n, lo |-> lo, hi |-> s.hi, step |-> step], SubscriptOf(view, s), {})
    BY <1>4
  <2>2. PICK last : last = IF hi = None THEN handle.stop ELSE hi
    OBVIOUS
  <2>3. s.frame = handle /\ s.lo = lo /\ s.hi = last /\ s.step = step
    BY <2>1, <2>2 DEF Progression
  <2>4. lo \in Int /\ last \in Int /\ lo <= last
    BY <1>2, <2>1, <2>2 DEF CanProgress, CanPoint, InDim
  <2>5. step \in Nat \ {0}
    BY <2>1, ViewsAssumption
  <2>6. Makes([op |-> "subscript", dim |-> n, lo |-> lo, hi |-> last, step |-> step], SubscriptOf(view, s), {})
    BY <2>1, <2>3
  <2>7. AdmitSlice(FrameOf(L, n), s)
    BY <2>1
  <2>8. QED
    BY <1>1, <2>3, <2>4, <2>5, <2>6, <2>7, StrideSteps
<1>5. QED
  BY <1>1, <1>3, <1>4 DEF Subscript

\* What every step does: the tensor is made of the one before, and the frame held is of integers.
Advances == Made(op', view, view') /\ IntHandle'
Quiet == Advances /\ mem' = mem /\ op'.op # "store"

\* A step that makes a tensor leaves the handle well typed.
LEMMA SteppedAdvances ==
  ASSUME Sound, Stepped
  PROVE  Advances
BY DEF Sound, Stepped, Advances, IntHandle

\* Keeping the view makes a tensor too.
LEMMA NothingMade ==
  ASSUME Sound, NEW o, o.op \in {"frames", "store"}
  PROVE  Made(o, view, view)
<1>1. Keeps(o, view, view)
  BY SizeInt, NothingKeeps
<1>2. view.size \in Nat /\ WellFormed(view.base)
  BY SizeInt DEF Sound
<1>3. QED
  BY <1>1, <1>2 DEF Made

\* Taking the frame of a dim leaves the view alone and the handle well typed.
LEMMA TakeFrameSteps ==
  ASSUME Sound, TakeFrame
  PROVE  Quiet
<1>1. PICK n \in Names(L) : handle' = FrameOf(L, n)
  BY DEF TakeFrame
<1>2. handle'.start \in Int /\ handle'.stop \in Int
  BY <1>1, BoundsInt DEF FrameOf
<1>3. view' = view /\ mem' = mem /\ op'.op = "frames"
  BY DEF TakeFrame
<1>4. Made(op', view, view')
  BY <1>3, NothingMade
<1>5. QED
  BY <1>2, <1>3, <1>4 DEF Quiet, Advances, IntHandle

\* A store leaves the view alone and writes what Stored says.
LEMMA StoreSteps ==
  ASSUME Sound, Store
  PROVE  Advances /\ view' = view /\ CanStore(view) /\ \E w \in Sources(view) : mem' \in Stored(mem, view, w)
<1>1. view' = view /\ handle' = handle /\ CanStore(view) /\ op'.op = "store"
  BY DEF Store
<1>2. \E w \in Sources(view) : mem' \in Stored(mem, view, w)
  BY DEF Store
<1>3. Made(op', view, view')
  BY <1>1, NothingMade
<1>4. IntHandle'
  BY <1>1 DEF Sound, IntHandle
<1>5. QED
  BY <1>1, <1>2, <1>3, <1>4 DEF Advances

\* Every step makes a tensor that keeps its data and writes nothing, or is a store.
LEMMA NextAdvances ==
  ASSUME Sound, Next
  PROVE  Quiet \/ Store
<1>1. CASE Stepped
  BY <1>1, SteppedAdvances DEF Stepped, Quiet
<1>2. ASSUME SliceView \/ SelectView \/ ShiftView \/ RenameView \/ RepeatView \/ FlipView \/ SplitView \/ MergeView
      PROVE Stepped
  BY <1>2, SliceSteps, SelectSteps, ShiftSteps, RenameSteps, RepeatSteps, FlipSteps, SplitSteps, MergeSteps
<1>3. ASSUME DiagonalView \/ WindowView \/ DecimateView \/ PadView \/ StencilView \/ SimplifyView \/ FieldView
      PROVE Stepped
  BY <1>3, DiagonalSteps, WindowSteps, DecimateSteps, PadSteps, StencilSteps, SimplifySteps, FieldSteps
<1>4. ASSUME ChartView \/ LabelView \/ StripView \/ BindView \/ RecenterView \/ Subscript
      PROVE Stepped
  BY <1>4, ChartSteps, LabelSteps, StripSteps, BindSteps, RecenterSteps, SubscriptSteps
<1>5. CASE TakeFrame
  BY <1>5, TakeFrameSteps DEF Quiet
<1>6. CASE Store
  BY <1>6
<1>7. QED
  BY <1>1, <1>2, <1>3, <1>4, <1>5, <1>6 DEF Next

\* Every step keeps a sound state sound.
LEMMA SoundStays ==
  ASSUME Sound, [Next]_vars
  PROVE  Sound' /\ (UNCHANGED vars \/ Advances)
<1>1. ASSUME Advances PROVE Sound'
  BY <1>1 DEF Advances, Made, Keeps, Sound
<1>2. CASE Next
  BY <1>1, <1>2, NextAdvances, StoreSteps DEF Quiet
<1>3. CASE UNCHANGED vars
  BY <1>3 DEF vars, Sound, IntHandle
<1>4. QED
  BY <1>2, <1>3

\* The tensors a program starts from are sound.
LEMMA SoundAtFirst ==
  ASSUME Init
  PROVE  Sound
<1>1. IsView(view) /\ view.size >= 1 /\ WellFormed(view.base)
  BY ViewsAssumption DEF Init, IsTensor
<1>2. PICK n \in Names(view.base) : handle = FrameOf(view.base, n)
  BY DEF Init
<1>3. handle.start \in Int /\ handle.stop \in Int
  BY <1>1, <1>2 DEF FrameOf, IsView, IsLayout, IsDim
<1>4. QED
  BY <1>1, <1>3 DEF Sound, IntHandle

\* In every state the view is a tensor with a well-formed layout, and the bounds of the
\* handle are integers: what every op of tensor.py and layout.py takes for granted.
THEOREM SoundAlways == Spec => []Sound
<1>1. Init => Sound
  BY SoundAtFirst
<1>2. Sound /\ [Next]_vars => Sound'
  BY SoundStays
<1>3. QED
  BY <1>1, <1>2, PTL DEF Spec

\* Every step of every program of views leaves each datum where the op says (layout.py,
\* guarded.py): the point c of the new view resolves to the address of the point Back takes
\* it to in the old one, moved by the offset when a field is taken, and to the fill exactly
\* where there was the fill or where pad and stencil reach outside.
THEOREM DataStay == Spec => [][DataStays(op', view, view')]_vars
<1>1. ASSUME Sound, [Next]_vars PROVE [DataStays(op', view, view')]_vars
  BY <1>1, SoundStays DEF Advances, Made, Keeps
<1>2. QED
  BY <1>1, SoundAlways, PTL DEF Spec

-----------------------------------------------------------------------------
(* NO DATUM OUT OF THE BUFFER                                               *)

\* An op that keeps its data keeps the view in the buffer.
LEMMA StaysInBuffer ==
  ASSUME NEW v, IsView(v), InBuffer(v), NEW o, NEW w, Made(o, v, w)
  PROVE  InBuffer(w)
<1>1. SUFFICES ASSUME NEW c, c \in Domain(w.base), Resolve(w, c) # Fill
               PROVE 0 <= Resolve(w, c) /\ Resolve(w, c) + w.size <= NBytes
  BY DEF InBuffer
<1>2. PICK p : p = P!Back(o, BoxAt(v.base), c)
  OBVIOUS
<1>3. Datum(o, v, w, c, p)
  BY <1>1, <1>2 DEF Made, Keeps, DataStays
<1>4. InRange(v.base, p)
  BY <1>1, <1>3, InBoxIs DEF Datum
<1>5. PICK q \in Domain(v.base) : SameAt(v, v, q, p)
  BY <1>4, InDomainAlso
<1>6. PICK old, new : old = Resolve(v, q) /\ new = Resolve(w, c)
  OBVIOUS
<1>7. Resolve(v, p) = old
  BY <1>5, <1>6 DEF SameAt
<1>8. new = IF o.op = "field" /\ old # Fill THEN old + o.offset ELSE old
  BY <1>3, <1>4, <1>6, <1>7, InBoxIs DEF Datum
<1>9. old # Fill
  BY <1>1, <1>6, <1>8
<1>10. old \in Int /\ 0 <= old /\ old + v.size <= NBytes
  BY <1>5, <1>6, <1>9, ResolveInt DEF InBuffer
<1>11. v.size \in Nat /\ w.size \in Nat /\ NBytes \in Nat
  BY ViewsAssumption DEF Made, Keeps, IsView
<1>12. IF o.op = "field" THEN o.offset \in Nat /\ w.size + o.offset = v.size ELSE w.size = v.size
  BY DEF Made
<1>13. QED
  BY <1>6, <1>8, <1>9, <1>10, <1>11, <1>12

\* The bytes of a view in the buffer are bytes of the buffer.
LEMMA BytesInBuffer ==
  ASSUME NEW v, IsView(v), InBuffer(v)
  PROVE  Bytes(v) \subseteq 0 .. NBytes - 1
<1>1. SUFFICES ASSUME NEW b, b \in Bytes(v) PROVE b \in 0 .. NBytes - 1
  OBVIOUS
<1>2. PICK c, r : c \in Reals(v) /\ r = GetLoc(v.base, c) /\ b \in r .. r + v.size - 1
  BY <1>1 DEF Bytes
<1>3. c \in Domain(v.base) /\ Resolve(v, c) # Fill
  BY <1>2 DEF Reals
<1>4. r \in Int /\ 0 <= r /\ r + v.size <= NBytes
  BY <1>2, <1>3, ResolveInt DEF InBuffer
<1>5. v.size \in Nat /\ NBytes \in Nat
  BY ViewsAssumption DEF IsView
<1>6. QED
  BY <1>2, <1>4, <1>5

\* In every state each datum of the view lies in the buffer, whatever chain of ops made
\* it: guarded reads never address outside.
THEOREM BufferAlways == Spec => []InBuffer(view)
<1>1. Init => InBuffer(view)
  BY ViewsAssumption DEF Init
<1>2. ASSUME Sound, InBuffer(view), [Next]_vars PROVE InBuffer(view)'
  <2>1. CASE Advances
    <3>1. PICK w : w = view'
      OBVIOUS
    <3>2. InBuffer(w)
      BY <1>2, <2>1, <3>1, StaysInBuffer DEF Advances, Sound
    <3>3. QED
      BY <3>1, <3>2 DEF InBuffer, Domain, Resolve
  <2>2. CASE UNCHANGED vars
    BY <1>2, <2>2 DEF vars, InBuffer
  <2>3. QED
    BY <1>2, <2>1, <2>2, SoundStays
<1>3. QED
  BY <1>1, <1>2, SoundAlways, PTL DEF Spec

\* No byte a view may read or write lies outside its buffer (tensor.py, _addresses).
THEOREM NoByteOut == Spec => [](Bytes(view) \subseteq 0 .. NBytes - 1)
<1>1. Sound /\ InBuffer(view) => Bytes(view) \subseteq 0 .. NBytes - 1
  BY BytesInBuffer DEF Sound
<1>2. QED
  BY <1>1, SoundAlways, BufferAlways, PTL

-----------------------------------------------------------------------------
(* GUARDS                                                                   *)

\* In a sound state discharge is right.
LEMMA Discharges ==
  ASSUME Sound
  PROVE  GuardsDischarge
<1>1. IsView(view) /\ Boxed(view.base)
  BY DEF Sound, Boxed, WellFormed
<1>2. Discharged(view)
  BY <1>1, SimplifyDischarges
<1>3. QED
  BY <1>2 DEF Discharged, GuardsDischarge, L, Reals

\* In every state discharging the guards of the view (guarded.py, simplify) drops a guard
\* only if it holds everywhere, keeps it only if it fails somewhere, and a view it calls all
\* fill is.
THEOREM GuardsAreRight == Spec => []GuardsDischarge
<1>1. Sound => GuardsDischarge
  BY Discharges
<1>2. QED
  BY <1>1, SoundAlways, PTL

-----------------------------------------------------------------------------
(* THE MEMORY                                                               *)

Memory == mem = [b \in 0 .. NBytes - 1 |-> mem[b]]

\* Every step keeps memory a function on the bytes of the buffer.
LEMMA MemoryStays ==
  ASSUME Sound, Memory, [Next]_vars
  PROVE  Memory'
<1>1. CASE mem' = mem
  BY <1>1 DEF Memory
<1>2. CASE Store
  <2>1. PICK w : mem' \in Stored(mem, view, w)
    BY <1>2, StoreSteps
  <2>2. mem = [b \in DOMAIN mem |-> mem[b]] /\ DOMAIN mem = 0 .. NBytes - 1 /\ DOMAIN mem \subseteq Int
    BY ViewsAssumption DEF Memory
  <2>3. PICK last : IsStored(mem', mem, view, w, last)
    BY <2>1, <2>2, StoredAre, SizeInt
  <2>4. mem' = [b \in DOMAIN mem |-> mem'[b]]
    BY <2>3 DEF IsStored, Over
  <2>5. QED
    BY <2>2, <2>4 DEF Memory
<1>3. QED
  BY <1>1, <1>2, NextAdvances DEF Quiet, vars

\* Memory is always a function on the bytes of the buffer: a store adds none and loses none.
THEOREM MemoryAlways == Spec => []Memory
<1>1. Init => Memory
  BY DEF Init, Memory
<1>2. Sound /\ Memory /\ [Next]_vars => Memory'
  BY MemoryStays
<1>3. QED
  BY <1>1, <1>2, SoundAlways, PTL DEF Spec

\* The types of Views hold in every state, whatever program of views runs.
THEOREM TypeCorrect == Spec => []TypeOK
<1>1. Sound /\ Memory => TypeOK
  BY DEF Sound, Memory, TypeOK, IsView, On, L
<1>2. QED
  BY <1>1, SoundAlways, MemoryAlways, PTL

-----------------------------------------------------------------------------
(* DATA THAT DO NOT OVERLAP IN PART                                         *)

\* Where the datum of a point comes from.
Comes(o, v, w, c, q) ==
  /\ q \in Domain(v.base) /\ Resolve(v, q) # Fill
  /\ Resolve(w, c) = IF o.op = "field" THEN Resolve(v, q) + o.offset ELSE Resolve(v, q)

\* Each datum of a made tensor was one before.
LEMMA DatumComes ==
  ASSUME NEW v, IsView(v), NEW o, NEW w, Made(o, v, w), NEW c, c \in Domain(w.base), Resolve(w, c) # Fill
  PROVE  \E q : Comes(o, v, w, c, q)
<1>2. PICK p : p = P!Back(o, BoxAt(v.base), c)
  OBVIOUS
<1>3. Datum(o, v, w, c, p)
  BY <1>2 DEF Made, Keeps, DataStays
<1>4. InRange(v.base, p)
  BY <1>3, InBoxIs DEF Datum
<1>5. PICK q \in Domain(v.base) : SameAt(v, v, q, p)
  BY <1>4, InDomainAlso
<1>6. Resolve(v, p) = Resolve(v, q)
  BY <1>5 DEF SameAt
<1>7. QED
  BY <1>3, <1>4, <1>5, <1>6, InBoxIs DEF Datum, Comes

\* An op that keeps its data keeps the data apart.
LEMMA StaysApart ==
  ASSUME NEW v, IsView(v), Apart(v), NEW o, NEW w, Made(o, v, w)
  PROVE  Apart(w)
<1>1. SUFFICES ASSUME NEW c \in Domain(w.base), NEW e \in Domain(w.base), NEW a, NEW b,
                      a = Resolve(w, c), b = Resolve(w, e), a # Fill, b # Fill
               PROVE a = b \/ a + w.size <= b \/ b + w.size <= a
  BY DEF Apart
<1>2. PICK q, r : Comes(o, v, w, c, q) /\ Comes(o, v, w, e, r)
  BY <1>1, DatumComes
<1>3. PICK i, j : i = Resolve(v, q) /\ j = Resolve(v, r)
  OBVIOUS
<1>4. i \in Int /\ j \in Int /\ v.size \in Nat /\ w.size \in Nat
  BY <1>2, <1>3, ResolveInt DEF Comes, IsView, Made, Keeps
<1>5. i = j \/ i + v.size <= j \/ j + v.size <= i
  BY <1>2, <1>3 DEF Comes, Apart
<1>6. CASE o.op = "field"
  <2>1. a = i + o.offset /\ b = j + o.offset
    BY <1>1, <1>2, <1>3, <1>6 DEF Comes
  <2>2. o.offset \in Nat /\ w.size + o.offset = v.size
    BY <1>6 DEF Made
  <2>3. QED
    BY <1>4, <1>5, <2>1, <2>2
<1>7. CASE o.op # "field"
  <2>1. a = i /\ b = j /\ w.size = v.size
    BY <1>1, <1>2, <1>3, <1>7 DEF Comes, Made
  <2>2. QED
    BY <1>4, <1>5, <2>1
<1>8. QED
  BY <1>6, <1>7

\* In every state two data of the view are at the same address or share no byte, so the
\* view can be stored to element by element.
THEOREM ApartAlways == Spec => []Apart(view)
<1>1. Init => Apart(view)
  BY ViewsAssumption DEF Init
<1>2. ASSUME Sound, Apart(view), [Next]_vars PROVE Apart(view)'
  <2>1. CASE Advances
    <3>1. PICK w : w = view'
      OBVIOUS
    <3>2. Apart(w)
      BY <1>2, <2>1, <3>1, StaysApart DEF Advances, Sound
    <3>3. QED
      BY <3>1, <3>2 DEF Apart, Domain, Resolve
  <2>2. CASE UNCHANGED vars
    BY <1>2, <2>2 DEF vars, Apart
  <2>3. QED
    BY <1>2, <2>1, <2>2, SoundStays
<1>3. QED
  BY <1>1, <1>2, SoundAlways, PTL DEF Spec

-----------------------------------------------------------------------------
(* WHAT IS STORED IS READ BACK                                              *)

Whole(v) == IsView(v) /\ DOMAIN v.guards = {}

\* Without guards a point resolves to its address.
LEMMA WholeResolve ==
  ASSUME NEW v, Whole(v), NEW c, IsPoint(v.base, c)
  PROVE  Resolve(v, c) = GetLoc(v.base, c) /\ Resolve(v, c) \in Int /\ Resolve(v, c) # Fill
<1>1. Resolve(v, c) = GetLoc(v.base, c)
  BY DEF Resolve, Whole
<1>2. GetLoc(v.base, c) \in Int
  BY LocInt DEF Whole, IsView
<1>3. QED
  BY <1>1, <1>2, ViewsAssumption

\* flip of a view without guards has none.
LEMMA FlippedIs ==
  ASSUME NEW v, Whole(v), NEW n, n \in Names(v.base)
  PROVE  Whole(GFlip(v, n)) /\ Names(GFlip(v, n).base) = Names(v.base) /\ GFlip(v, n).size = v.size
<1>1. PICK pivot, w : pivot = v.base.dims[n].start + v.base.dims[n].stop - 1 /\ w = GFlip(v, n)
  OBVIOUS
<1>2. PICK d, delta : w = OneView(v, n, n, d, -1, pivot, delta) /\ OneForOne(v, n, n, d, -1, pivot, delta)
  BY <1>1, FlipIs DEF Whole
<1>3. IsView(w) /\ w.base = PutOne(v.base, n, n, d, delta)
  BY <1>2, OneForOneIs
<1>4. Names(w.base) = Names(v.base)
  <2>1. Replaces(v.base, n, n, d) /\ delta \in Int
    BY <1>2 DEF OneForOne
  <2>2. Names(PutOne(v.base, n, n, d, delta)) = (Names(v.base) \ {n}) \cup {n}
    BY <2>1, PutOneIs
  <2>3. QED
    BY <1>3, <2>2
<1>5. PICK r, gs, f, k : r = Flip(v.base, n) /\ f = Single(n, Single(n, -1)) /\ k = Single(n, pivot) /\ gs = EachGuard(v, f, k)
  OBVIOUS
<1>6. w = View(v, r, gs)
  BY <1>1, <1>5 DEF GFlip
<1>7. w.guards = gs /\ w.size = v.size
  BY <1>6, ViewIs DEF Whole
<1>8. DOMAIN gs = {}
  BY <1>5 DEF EachGuard, Whole
<1>9. QED
  BY <1>1, <1>3, <1>4, <1>7, <1>8 DEF Whole

\* A value written has the element size.
LEMMA ValueSize ==
  ASSUME NEW m, NEW v, Whole(v), NEW w, w \in Sources(v), NEW c, c \in Domain(v.base)
  PROVE  ValueAt(m, v, w, c) = [b \in 0 .. v.size - 1 |-> ValueAt(m, v, w, c)[b]]
<1>1. CASE w = None
  BY <1>1 DEF ValueAt, Scalar
<1>2. CASE w # None
  <2>1. PICK n \in Names(v.base) : w = GFlip(v, n)
    BY <1>2 DEF Sources
  <2>2. Whole(w) /\ Names(w.base) = Names(v.base) /\ w.size = v.size
    BY <2>1, FlippedIs
  <2>3. IsPoint(w.base, c)
    BY <2>2, InDomain DEF IsPoint, Whole, IsView
  <2>4. Resolve(w, c) # Fill
    BY <2>2, <2>3, WholeResolve
  <2>5. ValueAt(m, v, w, c) = [b \in 0 .. w.size - 1 |-> m[Resolve(w, c) + b]]
    BY <1>2, <2>4 DEF ValueAt, Read
  <2>6. QED
    BY <2>2, <2>5
<1>3. QED
  BY <1>1, <1>2

\* Stored in a view whose places are those of one point each, and do not overlap in part.
OneEach(v) == \A c, e \in Domain(v.base) : GetLoc(v.base, c) = GetLoc(v.base, e) => c = e

\* When each place has one point, the store leaves there the value of that point.
LEMMA StoredOnce ==
  ASSUME NEW v, Whole(v), Apart(v), OneEach(v), NEW m, NEW w, NEW r, NEW last, IsStored(r, m, v, w, last),
         NEW c, c \in Domain(v.base), NEW loc, loc = GetLoc(v.base, c),
         NEW b, b \in 0 .. v.size - 1, loc + b \in DOMAIN m
  PROVE  r[loc + b] = ValueAt(m, v, w, c)[b]
<1>1. PICK Ps, val : Ps = Places(v.base) /\ val = ValuesOf(m, v, w, last, Ps)
  OBVIOUS
<1>2. loc \in Ps /\ loc \in Int /\ v.size \in Nat /\ Ps \subseteq Int
  BY <1>1, PlacesFinite DEF Places, Whole, IsView
<1>3. loc <= loc + b /\ loc + b < loc + v.size
  BY <1>2
<1>4. PICK p \in Ps : p <= loc + b /\ loc + b < p + v.size /\ r[loc + b] = val[p][loc + b - p]
  BY <1>1, <1>2, <1>3 DEF IsStored, Over
<1>5. last[p] \in Domain(v.base) /\ GetLoc(v.base, last[p]) = p
  BY <1>1 DEF IsStored, ChoicesOf, AtPlaces, PointsAt
<1>6. p = loc
  <2>1. \A q \in Domain(v.base) : IsPoint(v.base, q)
    BY InDomain DEF Whole, IsView
  <2>2. Resolve(v, c) = loc /\ loc # Fill
    BY <2>1, WholeResolve
  <2>3. Resolve(v, last[p]) = p /\ p # Fill
    BY <1>5, <2>1, WholeResolve
  <2>4. p = loc \/ p + v.size <= loc \/ loc + v.size <= p
    BY <1>5, <2>2, <2>3 DEF Apart
  <2>5. p \in Int
    BY <1>2
  <2>6. QED
    BY <1>2, <1>4, <2>4, <2>5
<1>7. last[p] = c
  BY <1>5, <1>6 DEF OneEach
<1>8. val[p] = ValueAt(m, v, w, c)
  BY <1>1, <1>7 DEF ValuesOf
<1>9. loc + b - p = b
  BY <1>2, <1>6
<1>10. QED
  BY <1>4, <1>8, <1>9

\* A byte that is no part of the view is as it was.
LEMMA OthersStay ==
  ASSUME NEW v, Whole(v), NEW m, NEW w, NEW r, NEW last, IsStored(r, m, v, w, last), DOMAIN m \subseteq Int,
         NEW b \in DOMAIN m, b \notin Bytes(v)
  PROVE  r[b] = m[b]
<1>1. PICK Ps : Ps = Places(v.base)
  OBVIOUS
<1>2. ASSUME NEW p \in Ps, p <= b, b < p + v.size PROVE FALSE
  <2>1. PICK c \in Domain(v.base) : p = GetLoc(v.base, c)
    BY <1>1 DEF Places
  <2>2. Resolve(v, c) = p /\ Resolve(v, c) # Fill /\ p \in Int
    BY <2>1, InDomain, WholeResolve DEF Whole, IsView
  <2>3. v.size \in Nat /\ b \in Int
    BY DEF Whole, IsView
  <2>4. b \in p .. p + v.size - 1
    BY <1>2, <2>2, <2>3
  <2>5. c \in Reals(v)
    BY <2>2 DEF Reals
  <2>6. QED
    BY <2>1, <2>4, <2>5 DEF Bytes
<1>3. QED
  BY <1>1, <1>2 DEF IsStored, Over

\* A store to an injective view reads back what was stored and leaves the other bytes.
LEMMA StoreReads ==
  ASSUME Sound, Memory, InBuffer(view), Apart(view), Store, GInjectivity(view) = "injective"
  PROVE  ReadsBack
<1>1. PICK v : v = view
  OBVIOUS
<1>2. CanStore(view) /\ IsView(view)
  BY StoreSteps, SizeInt
<1>3. Whole(v)
  BY <1>1, <1>2 DEF CanStore, Plain, Whole
<1>4. OneEach(v)
  <2>1. Injectivity(v.base) = "injective"
    BY <1>1 DEF GInjectivity
  <2>2. IsLayout(v.base)
    BY <1>3 DEF Whole, IsView
  <2>3. QED
    BY <2>1, <2>2, InjectiveIs DEF OneEach
<1>5. PICK w, o : /\ w \in Sources(v) /\ mem' \in Stored(mem, v, w) /\ o = op'
                  /\ o = [op |-> "store", value |-> [c \in Domain(L) |-> ValueAt(mem, view, w, c)]]
  BY <1>1 DEF Store
<1>6. \A c \in Domain(v.base) : o.value[c] = ValueAt(mem, v, w, c)
  BY <1>1, <1>5 DEF L
<1>7. mem = [b \in DOMAIN mem |-> mem[b]] /\ DOMAIN mem = 0 .. NBytes - 1 /\ DOMAIN mem \subseteq Int
  BY ViewsAssumption DEF Memory
<1>8. PICK r : r = mem'
  OBVIOUS
<1>9. PICK last : IsStored(r, mem, v, w, last)
  BY <1>3, <1>5, <1>7, <1>8, StoredAre DEF Whole
<1>10. ASSUME NEW c \in Domain(v.base) PROVE Read(r, v, c) = ValueAt(mem, v, w, c)
  <2>1. PICK loc, size : loc = GetLoc(v.base, c) /\ size = v.size
    OBVIOUS
  <2>2. Resolve(v, c) = loc /\ loc # Fill /\ loc \in Int
    BY <1>3, <2>1, InDomain, WholeResolve DEF Whole, IsView
  <2>3. 0 <= loc /\ loc + size <= NBytes /\ size \in Nat /\ NBytes \in Nat
    BY <1>1, <1>3, <2>1, <2>2, ViewsAssumption DEF InBuffer, Whole, IsView
  <2>4. ASSUME NEW b \in 0 .. size - 1 PROVE r[loc + b] = ValueAt(mem, v, w, c)[b]
    <3>1. loc + b \in DOMAIN mem
      BY <1>7, <2>2, <2>3
    <3>2. QED
      BY <1>1, <1>3, <1>4, <1>9, <2>1, <3>1, StoredOnce
  <2>5. Read(r, v, c) = [b \in 0 .. size - 1 |-> r[loc + b]]
    BY <2>1, <2>2 DEF Read
  <2>6. ValueAt(mem, v, w, c) = [b \in 0 .. size - 1 |-> ValueAt(mem, v, w, c)[b]]
    BY <1>3, <1>5, <2>1, ValueSize
  <2>7. QED
    BY <2>4, <2>5, <2>6
<1>11. ASSUME NEW b \in DOMAIN mem, b \notin Bytes(v) PROVE r[b] = mem[b]
  <2>1. PICK m : m = mem
    OBVIOUS
  <2>2. IsStored(r, m, v, w, last) /\ DOMAIN m \subseteq Int /\ b \in DOMAIN m
    BY <1>7, <1>9, <2>1
  <2>3. r[b] = m[b]
    BY <1>3, <1>11, <2>2, OthersStay
  <2>4. QED
    BY <2>1, <2>3
<1>12. \A c \in Domain(L) : Read(mem', view, c) = op'.value[c]
  BY <1>1, <1>5, <1>6, <1>8, <1>10 DEF L
<1>13. QED
  BY <1>1, <1>8, <1>11, <1>12 DEF ReadsBack

\* Every store the code accepts to a view it calls injective can be read back: each point
\* of the target holds the value of the source's point, even if the source overlaps it, and
\* no byte outside the target changed (tensor.py, _store).
THEOREM StoresAreReadBack == Spec => StoreReadsBack
<1>1. ASSUME Sound, Memory, InBuffer(view), Apart(view), [Next]_vars
      PROVE  [Stores /\ GInjectivity(view) = "injective" => ReadsBack]_vars
  <2>1. CASE Next
    <3>1. ASSUME Quiet PROVE ~Stores
      BY <3>1 DEF Quiet, Stores
    <3>2. QED
      BY <1>1, <2>1, <3>1, NextAdvances, StoreReads
  <2>2. CASE UNCHANGED vars
    BY <2>2
  <2>3. QED
    BY <1>1, <2>1, <2>2
<1>2. QED
  BY <1>1, SoundAlways, MemoryAlways, BufferAlways, ApartAlways, PTL DEF Spec, StoreReadsBack

-----------------------------------------------------------------------------
(* FRAMES                                                                   *)

\* The frame of a dim says what the dim says.
LEMMA FrameIs ==
  ASSUME NEW l, NEW n
  PROVE  /\ FrameOf(l, n).name = n
         /\ FrameOf(l, n).start = l.dims[n].start /\ FrameOf(l, n).stop = l.dims[n].stop
BY DEF FrameOf

\* A frame with a coordinate is admitted as a whole if and only if each of
\* its coordinates is (admit of coords.py, on a frame and on a point).
LEMMA FramePointwise ==
  ASSUME NEW t, t.start \in Int, t.stop \in Int,
         NEW f, f.start \in Int, f.stop \in Int, f.start < f.stop
  PROVE  AdmitFrame(t, f) <=> \A i \in f.start .. f.stop - 1 : AdmitCoordinate(t, f, i)
<1>1. ASSUME AdmitFrame(t, f), NEW i \in f.start .. f.stop - 1 PROVE AdmitCoordinate(t, f, i)
  <2>1. CASE f = t
    BY <2>1 DEF AdmitCoordinate, SameLabelling, InDim, LabelsAgree
  <2>2. CASE f # t
    <3>1. SameLabelling(t, f) /\ t.start <= f.start /\ f.stop <= t.stop /\ LabelsAgree(t, f, f.start .. f.stop - 1)
      BY <1>1, <2>2 DEF AdmitFrame
    <3>2. InDim(t, i)
      BY <3>1 DEF InDim
    <3>3. LabelsAgree(t, f, {i})
      BY <3>1 DEF LabelsAgree
    <3>4. QED
      BY <3>1, <3>2, <3>3 DEF AdmitCoordinate
  <2>3. QED
    BY <2>1, <2>2
<1>2. ASSUME \A i \in f.start .. f.stop - 1 : AdmitCoordinate(t, f, i) PROVE AdmitFrame(t, f)
  <2>1. f.start \in f.start .. f.stop - 1 /\ f.stop - 1 \in f.start .. f.stop - 1
    OBVIOUS
  <2>2. SameLabelling(t, f) /\ InDim(t, f.start) /\ InDim(t, f.stop - 1)
    BY <1>2, <2>1 DEF AdmitCoordinate
  <2>3. t.start <= f.start /\ f.stop <= t.stop
    BY <2>2 DEF InDim
  <2>4. \A i \in f.start .. f.stop - 1 : LabelsAgree(t, f, {i})
    BY <1>2 DEF AdmitCoordinate
  <2>5. LabelsAgree(t, f, f.start .. f.stop - 1)
    BY <2>4 DEF LabelsAgree
  <2>6. QED
    BY <2>2, <2>3, <2>5 DEF AdmitFrame
<1>3. QED
  BY <1>1, <1>2

\* The check of a whole frame is that of its points, in every state.
LEMMA FramesAreChecked ==
  ASSUME Sound
  PROVE  WholeFrameIsPointwise
<1>1. ASSUME NEW n \in Names(L), handle.name = n, handle.start < handle.stop
      PROVE  AdmitFrame(FrameOf(L, n), handle) <=>
               \A i \in handle.start .. handle.stop - 1 : AdmitCoordinate(FrameOf(L, n), handle, i)
  <2>1. FrameOf(L, n).start \in Int /\ FrameOf(L, n).stop \in Int
    BY FrameIs, BoundsInt
  <2>2. handle.start \in Int /\ handle.stop \in Int
    BY DEF Sound, IntHandle
  <2>3. QED
    BY <1>1, <2>1, <2>2, FramePointwise
<1>2. QED
  BY <1>1 DEF WholeFrameIsPointwise

-----------------------------------------------------------------------------
(* FOOTPRINTS                                                               *)

\* The footprint of the view is honest in every state.
LEMMA HonestFootprint ==
  ASSUME Sound, InBuffer(view), Memory
  PROVE  FootprintIsHonest
<1>1. PICK fp : fp = GFootprint(view, view.size)
  OBVIOUS
<1>2. IsView(view) /\ view.size >= 1 /\ WellFormed(view.base)
  BY DEF Sound
<1>3. IF fp = None THEN Bytes(view) = {}
      ELSE fp[1] \in Int /\ fp[2] \in Int /\ Bytes(view) \subseteq fp[1] .. fp[2] - 1
  BY <1>1, <1>2, BytesInFootprint
<1>4. Bytes(view) \subseteq DOMAIN mem
  BY <1>2, BytesInBuffer DEF Memory
<1>5. Plain(view) /\ fp # None => fp[1] = Min(Bytes(view)) /\ fp[2] = Max(Bytes(view)) + 1
  BY <1>1, <1>2, FootprintExact
<1>6. QED
  BY <1>1, <1>3, <1>4, <1>5 DEF FootprintIsHonest

\* The view is said to overlap every operand it shares a byte with.
LEMMA SharersSeen ==
  ASSUME Sound
  PROVE  SharersOverlap
<1>1. IsView(view) /\ WellFormed(view.base)
  BY DEF Sound
<1>2. ASSUME NEW w \in Operands, Bytes(view) \cap Bytes(w) # {} PROVE Overlaps(view, w)
  <2>1. IsView(w) /\ WellFormed(w.base)
    BY ViewsAssumption DEF IsTensor
  <2>2. PICK b : b \in Bytes(view) /\ b \in Bytes(w)
    BY <1>2
  <2>3. QED
    BY <1>1, <2>1, <2>2, SharersAre
<1>3. QED
  BY <1>2 DEF SharersOverlap

-----------------------------------------------------------------------------
(* CONTIGUITY                                                               *)

Extent(l, T) == [m \in T |-> Size(l.dims[m])]
\* How many points the dims of T have.
Count(l, T) == Mult(Extent(l, T))
Beneath(l, n) == {m \in Active(l) \ {n} : l.dims[m].stride <= l.dims[n].stride}
Down(l, T) == T \subseteq Active(l) /\ \A n \in T : Beneath(l, n) \subseteq T
Contiguous(l, size) == IsLayout(l) /\ Full(l) /\ size \in Nat \ {0} /\ IsContiguous(l, size)

\* The active dims are finite, and have sizes.
LEMMA ActiveIs ==
  ASSUME NEW l, IsLayout(l)
  PROVE  /\ IsFiniteSet(Active(l)) /\ Active(l) \subseteq Names(l)
         /\ \A n \in Active(l) : Size(l.dims[n]) \in Int /\ Size(l.dims[n]) > 1 /\ l.dims[n].stride \in Int
<1>1. Active(l) \subseteq Names(l)
  BY DEF Active
<1>2. IsFiniteSet(Active(l))
  BY <1>1, FS_Subset DEF IsLayout
<1>3. QED
  BY <1>1, <1>2 DEF Active, IsLayout, IsDim, Size

\* The number of points is a positive number, one for no dims, and grows
\* with a dim by its size.
LEMMA CountIs ==
  ASSUME NEW l, IsLayout(l)
  PROVE  /\ Count(l, {}) = 1
         /\ \A T \in SUBSET Active(l) : Count(l, T) \in Int /\ Count(l, T) >= 1
         /\ \A T \in SUBSET Active(l) : \A x \in T : Count(l, T) = Size(l.dims[x]) * Count(l, T \ {x})
<1>1. PICK S, g : S = Active(l) /\ g = Extent(l, S)
  OBVIOUS
<1>2. IsFiniteSet(S) /\ \A n \in S : Size(l.dims[n]) \in Int /\ Size(l.dims[n]) > 1
  BY <1>1, ActiveIs
<1>3. g \in [S -> Int]
  BY <1>1, <1>2 DEF Extent
<1>a. IsFiniteSet(S)
  BY <1>2
<1>4. PICK F : F \in [SUBSET S -> Int] /\ (\A s \in SUBSET S : F[s] = MultOf(F, g, s)) /\ Mult(g) = F[S]
  BY <1>a, <1>3, MultFolds
<1>5. ASSUME NEW T \in SUBSET S PROVE Count(l, T) = F[T] /\ Count(l, T) >= 1
  <2>1. PICK h : h = Extent(l, T)
    OBVIOUS
  <2>2. h \in [T -> Int] /\ (\A x \in T : h[x] = g[x]) /\ \A x \in T : h[x] >= 1
    BY <1>1, <1>2, <2>1 DEF Extent
  <2>3. Mult(h) = F[T]
    BY <1>2, <1>3, <1>4, <2>2, MultsAgree
  <2>4. Mult(h) >= 1
    BY <1>2, <2>2, MultPositive, FS_Subset
  <2>5. QED
    BY <2>1, <2>3, <2>4 DEF Count
<1>6. \A s \in SUBSET S : \A x \in s : F[s] = g[x] * F[s \ {x}]
  <2>1. F \in [SUBSET S -> Int] /\ \A s \in SUBSET S : F[s] = MultOf(F, g, s)
    BY <1>4
  <2>2. Mults(F, S, g)
    BY <2>1 DEF Mults
  <2>3. AnyFactor(F, S, g)
    BY <1>a, <1>3, <2>2, MultAnyOrder
  <2>4. QED
    BY <2>3 DEF AnyFactor
<1>7. F[{}] = 1
  BY <1>4 DEF MultOf
<1>8. ASSUME NEW T \in SUBSET S, NEW x \in T PROVE Count(l, T) = Size(l.dims[x]) * Count(l, T \ {x})
  <2>1. F[T] = g[x] * F[T \ {x}]
    BY <1>6
  <2>2. g[x] = Size(l.dims[x])
    BY <1>1 DEF Extent
  <2>3. QED
    BY <1>5, <2>1, <2>2
<1>9. QED
  BY <1>1, <1>4, <1>5, <1>7, <1>8

\* The dim of the widest stride of a set that is closed downwards: the
\* others are those below it.
LEMMA TopOf ==
  ASSUME NEW l, NEW size, Contiguous(l, size), NEW T, Down(l, T), T # {}
  PROVE  \E x \in T : /\ Down(l, T \ {x}) /\ Beneath(l, x) = T \ {x}
                      /\ l.dims[x].stride = size * Count(l, T \ {x})
<1>1. IsLayout(l) /\ T \subseteq Active(l) /\ IsFiniteSet(T)
  BY ActiveIs, FS_Subset DEF Contiguous, Down
<1>2. PICK f : f = [n \in T |-> l.dims[n].stride]
  OBVIOUS
<1>3. \A n \in T : f[n] = l.dims[n].stride /\ l.dims[n].stride \in Int
  BY <1>1, <1>2, ActiveIs
<1>4. PICK x \in T : \A m \in T : f[m] <= f[x]
  BY <1>1, <1>3, Widest
<1>5. \A m \in T : l.dims[m].stride <= l.dims[x].stride
  BY <1>3, <1>4
<1>6. Beneath(l, x) = T \ {x}
  <2>1. Beneath(l, x) \subseteq T \ {x}
    BY <1>4 DEF Down, Beneath
  <2>2. T \ {x} \subseteq Beneath(l, x)
    BY <1>1, <1>5 DEF Beneath
  <2>3. QED
    BY <2>1, <2>2
<1>7. /\ l.dims[x].stride = size * Product(LAMBDA m : Size(l.dims[m]), Beneath(l, x))
      /\ \A m \in Beneath(l, x) : l.dims[m].stride # l.dims[x].stride
  BY <1>1, <1>4 DEF Contiguous, IsContiguous, Beneath
<1>8. Product(LAMBDA m : Size(l.dims[m]), Beneath(l, x)) = Count(l, Beneath(l, x))
  BY DEF Product, Count, Extent, Mult
<1>9. ASSUME NEW n \in T \ {x} PROVE Beneath(l, n) \subseteq T \ {x}
  <2>1. Beneath(l, n) \subseteq T
    BY <1>9 DEF Down
  <2>2. x \notin Beneath(l, n)
    <3>1. n \in T /\ l.dims[n].stride # l.dims[x].stride /\ l.dims[n].stride <= l.dims[x].stride
      BY <1>5, <1>6, <1>7, <1>9
    <3>2. l.dims[n].stride \in Int /\ l.dims[x].stride \in Int
      BY <1>3, <3>1
    <3>3. QED
      BY <3>1, <3>2 DEF Beneath
  <2>3. QED
    BY <2>1, <2>2
<1>10. Down(l, T \ {x})
  BY <1>1, <1>9 DEF Down
<1>11. QED
  BY <1>4, <1>6, <1>7, <1>8, <1>10

\* The address the last coordinate of each dim of T adds.
Far(l, T) == [m \in T |-> l.dims[m].stride * (Size(l.dims[m]) - 1)]

\* A dim's stride packs what is below it, which is closed downwards.
LEMMA PacksBelow ==
  ASSUME NEW l, NEW size, Contiguous(l, size), NEW n \in Active(l)
  PROVE  /\ Down(l, Beneath(l, n)) /\ n \notin Beneath(l, n)
         /\ l.dims[n].stride = size * Count(l, Beneath(l, n))
<1>1. IsLayout(l) /\ size \in Nat \ {0}
  BY DEF Contiguous
<1>2. \A m \in Active(l) : l.dims[m].stride \in Int
  BY <1>1, ActiveIs
<1>3. /\ l.dims[n].stride = size * Product(LAMBDA m : Size(l.dims[m]), Beneath(l, n))
      /\ \A m \in Beneath(l, n) : l.dims[m].stride # l.dims[n].stride
  BY DEF Contiguous, IsContiguous, Beneath
<1>4. Product(LAMBDA m : Size(l.dims[m]), Beneath(l, n)) = Count(l, Beneath(l, n))
  BY DEF Product, Count, Extent, Mult
<1>5. ASSUME NEW m \in Beneath(l, n), NEW k \in Beneath(l, m) PROVE k \in Beneath(l, n)
  <2>1. m \in Active(l) /\ l.dims[m].stride <= l.dims[n].stride /\ k \in Active(l) /\ l.dims[k].stride <= l.dims[m].stride
    BY <1>5 DEF Beneath
  <2>2. l.dims[m].stride # l.dims[n].stride
    BY <1>3, <1>5
  <2>3. l.dims[k].stride < l.dims[n].stride
    BY <1>2, <2>1, <2>2
  <2>4. k # n
    BY <1>2, <2>1, <2>3
  <2>5. QED
    BY <1>2, <2>1, <2>3, <2>4 DEF Beneath
<1>6. QED
  BY <1>3, <1>4, <1>5 DEF Down, Beneath

\* What the far ends of a set of dims that is closed downwards add is the
\* bytes of its points but the last.
LEMMA FarIs ==
  ASSUME NEW l, NEW size, Contiguous(l, size), NEW T, Down(l, T)
  PROVE  SumFunction(Far(l, T)) = size * (Count(l, T) - 1)
<1>. DEFINE Bad == {U \in SUBSET Active(l) : Down(l, U) /\ SumFunction(Far(l, U)) # size * (Count(l, U) - 1)}
<1>1. SUFFICES ASSUME Bad # {} PROVE FALSE
  BY DEF Down
<1>2. IsLayout(l) /\ size \in Int /\ IsFiniteSet(Active(l))
  BY ActiveIs DEF Contiguous
<1>3. PICK U \in Bad : \A V \in SUBSET U : V # U => V \notin Bad
  <2>1. Bad \in SUBSET (SUBSET Active(l))
    OBVIOUS
  <2>. HIDE DEF Bad
  <2>2. QED
    BY <1>1, <1>2, <2>1, LeastSubset
<1>4. U \in SUBSET Active(l) /\ Down(l, U) /\ SumFunction(Far(l, U)) # size * (Count(l, U) - 1) /\ IsFiniteSet(U)
  BY <1>2, <1>3, FS_Subset
<1>5. \A V \in SUBSET Active(l) : Far(l, V) \in [V -> Int]
  <2>1. ASSUME NEW m \in Active(l) PROVE l.dims[m].stride * (Size(l.dims[m]) - 1) \in Int
    <3>1. l.dims[m].stride \in Int /\ Size(l.dims[m]) - 1 \in Int
      BY <1>2, ActiveIs
    <3>2. QED
      BY <3>1, IntTimes
  <2>2. QED
    BY <2>1 DEF Far
<1>6. CASE U = {}
  <2>1. Count(l, U) = 1
    BY <1>2, <1>6, CountIs
  <2>2. SumFunction(Far(l, U)) = 0
    BY <1>4, <1>5, <1>6, SumEmpty
  <2>3. QED
    BY <1>2, <1>4, <2>1, <2>2
<1>7. CASE U # {}
  <2>1. PICK x \in U : Down(l, U \ {x}) /\ Beneath(l, x) = U \ {x} /\ l.dims[x].stride = size * Count(l, U \ {x})
    BY <1>4, <1>7, TopOf
  <2>2. U \ {x} \in SUBSET Active(l) /\ U \ {x} # U
    BY <1>4
  <2>3. SumFunction(Far(l, U \ {x})) = size * (Count(l, U \ {x}) - 1)
    BY <1>3, <2>1, <2>2
  <2>4. SumFunction(Far(l, U)) = Far(l, U)[x] + SumFunction(Far(l, U \ {x}))
    <3>1. Far(l, U) \in [U -> Int] /\ Far(l, U \ {x}) \in [U \ {x} -> Int]
      BY <1>4, <1>5, <2>2
    <3>2. \A y \in U \ {x} : Far(l, U \ {x})[y] = Far(l, U)[y]
      BY DEF Far
    <3>3. QED
      BY <1>4, <3>1, <3>2, SumTake
  <2>5. PICK c, s : c = Count(l, U \ {x}) /\ s = Size(l.dims[x])
    OBVIOUS
  <2>6. c \in Int /\ s \in Int
    BY <1>2, <1>4, <2>2, <2>5, CountIs, ActiveIs
  <2>7. Far(l, U)[x] = (size * c) * (s - 1)
    BY <2>1, <2>5 DEF Far
  <2>8. Count(l, U) = s * c
    BY <1>2, <1>4, <2>5, CountIs
  <2>9. (size * c) * (s - 1) + size * (c - 1) = size * (s * c - 1)
    BY <1>2, <2>6
  <2>10. QED
    BY <1>4, <2>3, <2>4, <2>5, <2>7, <2>8, <2>9
<1>8. QED
  BY <1>6, <1>7

\* A contiguous layout is injective (layout.py, is_contiguous and injectivity).
LEMMA ContiguousIsInjective ==
  ASSUME NEW l, NEW size, Contiguous(l, size)
  PROVE  Injectivity(l) = "injective"
<1>1. IsLayout(l) /\ size \in Int /\ size >= 1
  BY DEF Contiguous
<1>2. ASSUME NEW n \in Active(l) PROVE l.dims[n].stride \in Int /\ l.dims[n].stride >= 1 /\ Abs(l.dims[n].stride) = l.dims[n].stride
  <2>1. PICK c : c = Count(l, Beneath(l, n))
    OBVIOUS
  <2>2. Beneath(l, n) \in SUBSET Active(l)
    BY DEF Beneath
  <2>3. c \in Int /\ c >= 1
    BY <1>1, <2>1, <2>2, CountIs
  <2>4. l.dims[n].stride = size * c
    BY <2>1, PacksBelow
  <2>5. size * c \in Int /\ size * c >= 1
    BY <1>1, <2>3
  <2>6. QED
    BY <2>4, <2>5 DEF Abs
<1>3. ASSUME NEW n \in Active(l)
      PROVE  Abs(l.dims[n].stride) >
               Sigma(LAMBDA m : Abs(l.dims[m].stride) * (Size(l.dims[m]) - 1),
                     {m \in Active(l) \ {n} : Abs(l.dims[m].stride) <= Abs(l.dims[n].stride)})
  <2>1. {m \in Active(l) \ {n} : Abs(l.dims[m].stride) <= Abs(l.dims[n].stride)} = Beneath(l, n)
    BY <1>2 DEF Beneath
  <2>2. [m \in Beneath(l, n) |-> Abs(l.dims[m].stride) * (Size(l.dims[m]) - 1)] = Far(l, Beneath(l, n))
    <3>1. \A m \in Beneath(l, n) : Abs(l.dims[m].stride) = l.dims[m].stride
      BY <1>2 DEF Beneath
    <3>2. QED
      BY <3>1 DEF Far
  <2>3. Sigma(LAMBDA m : Abs(l.dims[m].stride) * (Size(l.dims[m]) - 1), Beneath(l, n)) = SumFunction(Far(l, Beneath(l, n)))
    BY <2>2 DEF Sigma
  <2>4. PICK c : c = Count(l, Beneath(l, n))
    OBVIOUS
  <2>5. SumFunction(Far(l, Beneath(l, n))) = size * (c - 1) /\ l.dims[n].stride = size * c
    BY <2>4, PacksBelow, FarIs
  <2>6. c \in Int
    <3>1. Beneath(l, n) \in SUBSET Active(l)
      BY DEF Beneath
    <3>2. QED
      BY <1>1, <2>4, <3>1, CountIs
  <2>7. size * c > size * (c - 1)
    BY <1>1, <2>6
  <2>8. QED
    BY <1>2, <2>1, <2>3, <2>5, <2>7
<1>4. \A n \in Active(l) : Abs(l.dims[n].stride) # 0
  BY <1>2
<1>5. QED
  BY <1>3, <1>4 DEF Injectivity

\* What the coordinates d of the dims of T add to an address, when each is
\* counted from the start of its dim.
Add(l, T, d) == [m \in T |-> l.dims[m].stride * d[m]]
Steps(l, T, d) == \A m \in T : d[m] \in 0 .. Size(l.dims[m]) - 1
\* Every element up to the number of points of T is at some point.
Reached(l, size, T) ==
  \A k \in 0 .. Count(l, T) - 1 : \E d : Steps(l, T, d) /\ SumFunction(Add(l, T, d)) = size * k

\* What the steps add to an address are integers.
LEMMA AddInt ==
  ASSUME NEW l, IsLayout(l), NEW T \in SUBSET Active(l), NEW d, Steps(l, T, d)
  PROVE  Add(l, T, d) \in [T -> Int]
<1>1. ASSUME NEW m \in T PROVE l.dims[m].stride * d[m] \in Int
  <2>1. l.dims[m].stride \in Int /\ Size(l.dims[m]) \in Int
    BY ActiveIs
  <2>2. d[m] \in Int
    BY <2>1 DEF Steps
  <2>3. QED
    BY <2>1, <2>2, IntTimes
<1>2. QED
  BY <1>1 DEF Add

TakesOut(l, T, y, d, e) == Steps(l, T, d) /\ Steps(l, T \ {y}, e) /\ \A m \in T \ {y} : d[m] = e[m]

\* One dim of those that add to an address taken out.
LEMMA AddTake ==
  ASSUME NEW l, IsLayout(l), NEW T \in SUBSET Active(l), NEW y \in T, NEW d, NEW e, TakesOut(l, T, y, d, e)
  PROVE  SumFunction(Add(l, T, d)) = l.dims[y].stride * d[y] + SumFunction(Add(l, T \ {y}, e))
<1>0. Steps(l, T, d) /\ Steps(l, T \ {y}, e) /\ \A m \in T \ {y} : d[m] = e[m]
  BY DEF TakesOut
<1>1. IsFiniteSet(T)
  BY ActiveIs, FS_Subset
<1>2. PICK g, h : g = Add(l, T, d) /\ h = Add(l, T \ {y}, e)
  OBVIOUS
<1>3. g \in [T -> Int] /\ h \in [T \ {y} -> Int]
  BY <1>0, <1>2, AddInt
<1>4. \A z \in T \ {y} : h[z] = g[z]
  BY <1>0, <1>2 DEF Add
<1>5. SumFunction(g) = g[y] + SumFunction(h)
  BY <1>1, <1>3, <1>4, SumTake
<1>6. g[y] = l.dims[y].stride * d[y]
  BY <1>2 DEF Add
<1>7. QED
  BY <1>2, <1>5, <1>6

\* One more dim, above all others: the element number is its quotient and
\* remainder by the number of points of the others.
LEMMA ReachedMore ==
  ASSUME NEW l, NEW size, Contiguous(l, size), NEW U \in SUBSET Active(l), NEW x \in U,
         l.dims[x].stride = size * Count(l, U \ {x}), Reached(l, size, U \ {x})
  PROVE  Reached(l, size, U)
<1>1. IsLayout(l) /\ size \in Int /\ IsFiniteSet(U)
  BY ActiveIs, FS_Subset DEF Contiguous
<1>2. PICK c, s : c = Count(l, U \ {x}) /\ s = Size(l.dims[x])
  OBVIOUS
<1>3. c \in Int /\ c >= 1 /\ s \in Int /\ s > 1
  BY <1>1, <1>2, CountIs, ActiveIs
<1>4. Count(l, U) = s * c
  BY <1>1, <1>2, CountIs
<1>5. SUFFICES ASSUME NEW k \in 0 .. Count(l, U) - 1
               PROVE  \E d : Steps(l, U, d) /\ SumFunction(Add(l, U, d)) = size * k
  BY DEF Reached
<1>6. PICK q, r : q = k \div c /\ r = k % c
  OBVIOUS
<1>7. s \in Nat /\ c \in Nat /\ k \in Int /\ 0 <= k /\ k < s * c
  BY <1>3, <1>4
<1>8. q \in 0 .. s - 1 /\ r \in 0 .. c - 1 /\ c * q + r = k
  BY <1>6, <1>7, Digits
<1>9. PICK e : Steps(l, U \ {x}, e) /\ SumFunction(Add(l, U \ {x}, e)) = size * r
  BY <1>2, <1>8 DEF Reached
<1>10. PICK d : d = [m \in U |-> IF m = x THEN q ELSE e[m]]
  OBVIOUS
<1>11. d[x] = q /\ \A m \in U \ {x} : d[m] = e[m]
  BY <1>10
<1>12. Steps(l, U, d)
  BY <1>2, <1>8, <1>9, <1>11 DEF Steps
<1>13. SumFunction(Add(l, U, d)) = l.dims[x].stride * d[x] + SumFunction(Add(l, U \ {x}, e))
  <2>1. TakesOut(l, U, x, d, e)
    BY <1>9, <1>11, <1>12 DEF TakesOut
  <2>2. IsLayout(l)
    BY <1>1
  <2>3. QED
    BY <2>1, <2>2, AddTake
<1>14. l.dims[x].stride * d[x] = (size * c) * q
  BY <1>2, <1>11
<1>15. (size * c) * q + size * r = size * (c * q + r)
  BY <1>1, <1>3, <1>8
<1>16. SumFunction(Add(l, U, d)) = size * k
  BY <1>8, <1>9, <1>13, <1>14, <1>15
<1>17. QED
  BY <1>12, <1>16

\* A contiguous layout leaves no element out.
LEMMA AllReached ==
  ASSUME NEW l, NEW size, Contiguous(l, size), NEW T, Down(l, T)
  PROVE  Reached(l, size, T)
<1>. DEFINE Bad == {U \in SUBSET Active(l) : Down(l, U) /\ ~Reached(l, size, U)}
<1>1. SUFFICES ASSUME Bad # {} PROVE FALSE
  BY DEF Down
<1>2. IsLayout(l) /\ size \in Int /\ IsFiniteSet(Active(l))
  BY ActiveIs DEF Contiguous
<1>3. PICK U \in Bad : \A V \in SUBSET U : V # U => V \notin Bad
  <2>1. Bad \in SUBSET (SUBSET Active(l))
    OBVIOUS
  <2>. HIDE DEF Bad
  <2>2. QED
    BY <1>1, <1>2, <2>1, LeastSubset
<1>4. U \in SUBSET Active(l) /\ Down(l, U) /\ ~Reached(l, size, U) /\ IsFiniteSet(U)
  BY <1>2, <1>3, FS_Subset
<1>5. CASE U = {}
  <2>1. Count(l, U) = 1
    BY <1>2, <1>5, CountIs
  <2>2. PICK d : d = [m \in U |-> 0]
    OBVIOUS
  <2>3. Steps(l, U, d) /\ Add(l, U, d) \in [{} -> Int]
    BY <1>5 DEF Steps, Add
  <2>4. SumFunction(Add(l, U, d)) = 0
    BY <2>3, SumEmpty
  <2>5. \A k \in 0 .. Count(l, U) - 1 : size * k = 0
    <3>1. \A k \in 0 .. Count(l, U) - 1 : k = 0
      BY <2>1
    <3>2. size * 0 = 0
      BY <1>2
    <3>3. QED
      BY <3>1, <3>2
  <2>6. Reached(l, size, U)
    BY <2>3, <2>4, <2>5 DEF Reached
  <2>7. QED
    BY <1>4, <2>6
<1>6. CASE U # {}
  <2>1. PICK x \in U : Down(l, U \ {x}) /\ l.dims[x].stride = size * Count(l, U \ {x})
    BY <1>4, <1>6, TopOf
  <2>2. U \ {x} \in SUBSET Active(l) /\ U \ {x} # U
    BY <1>4
  <2>3. Reached(l, size, U \ {x})
    BY <1>3, <2>1, <2>2
  <2>4. QED
    BY <1>4, <2>1, <2>3, ReachedMore
<1>7. QED
  BY <1>5, <1>6

First(l) == [n \in Names(l) |-> l.dims[n].start]
Offset(l, c) == [n \in Names(l) |-> l.dims[n].stride * (c[n] - l.dims[n].start)]

\* An address is that of the first point and what the active dims add.
LEMMA AddressFromFirst ==
  ASSUME NEW l, IsLayout(l), Full(l), NEW c \in Domain(l), NEW d, \A n \in Active(l) : d[n] = c[n] - l.dims[n].start
  PROVE  /\ GetLoc(l, First(l)) \in Int /\ First(l) \in Domain(l) /\ Steps(l, Active(l), d)
         /\ GetLoc(l, c) = GetLoc(l, First(l)) + SumFunction(Add(l, Active(l), d))
<1>1. \A n \in Names(l) : /\ l.dims[n].start \in Int /\ l.dims[n].stop \in Int /\ l.dims[n].start < l.dims[n].stop
                          /\ l.dims[n].stride \in Int
  BY DEF IsLayout, IsDim, Full
<1>2. IsFiniteSet(Names(l)) /\ l.offset \in Int
  BY DEF IsLayout
<1>3. \A n \in Names(l) : c[n] \in Int /\ l.dims[n].start <= c[n] /\ c[n] < l.dims[n].stop
  BY <1>1, InDomain DEF InRange
<1>4. PICK f : f = First(l)
  OBVIOUS
<1>5. \A n \in Names(l) : f[n] = l.dims[n].start
  BY <1>4 DEF First
<1>6. f \in Domain(l)
  BY <1>1, <1>4, InBoxOf DEF First
<1>7. Active(l) \subseteq Names(l)
  BY ActiveIs
<1>8. Steps(l, Active(l), d)
  <2>1. ASSUME NEW n \in Active(l) PROVE d[n] \in 0 .. Size(l.dims[n]) - 1
    BY <1>1, <1>3, <1>7 DEF Size
  <2>2. QED
    BY <2>1 DEF Steps
<1>9. PICK g : g = Offset(l, c)
  OBVIOUS
<1>10. g \in [Names(l) -> Int]
  <2>1. ASSUME NEW n \in Names(l) PROVE l.dims[n].stride * (c[n] - l.dims[n].start) \in Int
    <3>1. c[n] - l.dims[n].start \in Int /\ l.dims[n].stride \in Int
      BY <1>1, <1>3
    <3>2. QED
      BY <3>1, IntTimes
  <2>2. QED
    BY <1>9, <2>1 DEF Offset
<1>11. Terms(l, c) \in [Names(l) -> Int] /\ Terms(l, f) \in [Names(l) -> Int]
  BY <1>1, <1>3, <1>5, TermsInt DEF IsPoint
<1>12. SumFunction(Terms(l, c)) = SumFunction(Terms(l, f)) + SumFunction(g)
  <2>1. IsPlus(Terms(l, c), Terms(l, f), g, Names(l))
    <3>1. ASSUME NEW n \in Names(l)
          PROVE  l.dims[n].stride * c[n] = l.dims[n].stride * f[n] + l.dims[n].stride * (c[n] - l.dims[n].start)
      <4>1. f[n] = l.dims[n].start
        BY <1>5
      <4>2. \A a, b, e \in Int : a * b = a * e + a * (b - e)
        OBVIOUS
      <4>3. QED
        BY <1>1, <1>3, <4>1, <4>2
    <3>2. QED
      BY <1>9, <3>1 DEF IsPlus, Terms, Offset
  <2>2. QED
    BY <1>2, <1>10, <1>11, <2>1, SumPlus
<1>13. SumFunction(g) = SumFunction(Restrict(g, Active(l)))
  <2>1. ASSUME NEW n \in Names(l) \ Active(l) PROVE g[n] = 0
    <3>1. c[n] = l.dims[n].start
      BY <1>1, <1>3 DEF Active, Size
    <3>2. c[n] - l.dims[n].start = 0
      BY <1>1, <3>1
    <3>3. g[n] = l.dims[n].stride * 0
      BY <1>9, <3>2 DEF Offset
    <3>4. QED
      BY <1>1, <3>3
  <2>2. QED
    BY <1>2, <1>7, <1>10, <2>1, SumSupport
<1>14. Restrict(g, Active(l)) = Add(l, Active(l), d)
  BY <1>7, <1>9 DEF Restrict, Add, Offset
<1>15. GetLoc(l, c) = l.offset + SumFunction(Terms(l, c)) /\ GetLoc(l, f) = l.offset + SumFunction(Terms(l, f))
  BY LocIs
<1>16. PICK a, b, e : a = SumFunction(Terms(l, c)) /\ b = SumFunction(Terms(l, f)) /\ e = SumFunction(g)
  OBVIOUS
<1>17. a \in Int /\ b \in Int /\ e \in Int
  BY <1>2, <1>10, <1>11, <1>16, SumInt
<1>18. GetLoc(l, c) = GetLoc(l, f) + e /\ GetLoc(l, f) \in Int
  BY <1>2, <1>12, <1>15, <1>16, <1>17
<1>19. QED
  BY <1>4, <1>6, <1>8, <1>13, <1>14, <1>16, <1>18

\* The addresses of a contiguous layout are those of its elements from its
\* first, one after the other.
LEMMA ContiguousAddresses ==
  ASSUME NEW l, NEW size, Contiguous(l, size), NEW last, last = Count(l, Active(l)) - 1
  PROVE  /\ GetLoc(l, First(l)) \in Int /\ last \in Nat
         /\ \A c \in Domain(l) : /\ GetLoc(l, c) \in Int /\ GetLoc(l, First(l)) <= GetLoc(l, c)
                                 /\ GetLoc(l, c) <= GetLoc(l, First(l)) + size * last
         /\ \A k \in 0 .. last : \E c \in Domain(l) : GetLoc(l, c) = GetLoc(l, First(l)) + size * k
<1>1. IsLayout(l) /\ Full(l) /\ size \in Int /\ size >= 1
  BY DEF Contiguous
<1>2. PICK A : A = Active(l)
  OBVIOUS
<1>3. A \in SUBSET Active(l) /\ IsFiniteSet(A) /\ A \subseteq Names(l)
  BY <1>1, <1>2, ActiveIs
<1>4. Down(l, A)
  BY <1>2 DEF Down, Beneath
<1>5. last \in Nat
  <2>1. Count(l, A) \in Int /\ Count(l, A) >= 1
    BY <1>1, <1>3, CountIs
  <2>2. QED
    BY <1>2, <2>1
<1>6. \A n \in Names(l) : /\ l.dims[n].start \in Int /\ l.dims[n].stop \in Int /\ l.dims[n].start < l.dims[n].stop
                          /\ l.dims[n].stride \in Int
  BY <1>1 DEF IsLayout, IsDim, Full
<1>7. PICK base : base = GetLoc(l, First(l))
  OBVIOUS
<1>8. base \in Int
  <2>1. First(l) \in Domain(l)
    BY <1>1, <1>6, InBoxOf DEF First
  <2>2. QED
    BY <1>1, <1>7, <2>1, AddressBounds
<1>9. ASSUME NEW c \in Domain(l) PROVE GetLoc(l, c) \in Int /\ base <= GetLoc(l, c) /\ GetLoc(l, c) <= base + size * last
  <2>1. PICK d : d = [n \in A |-> c[n] - l.dims[n].start]
    OBVIOUS
  <2>2. \A n \in Active(l) : d[n] = c[n] - l.dims[n].start
    BY <1>2, <2>1
  <2>3. Steps(l, A, d) /\ GetLoc(l, c) = base + SumFunction(Add(l, A, d))
    BY <1>1, <1>2, <1>7, <2>2, AddressFromFirst
  <2>4. Add(l, A, d) \in [A -> Int]
    BY <1>1, <1>3, <2>3, AddInt
  <2>5. PICK z : z = [m \in A |-> 0]
    OBVIOUS
  <2>6. z \in [A -> Int] /\ \A m \in A : z[m] = 0
    BY <2>5
  <2>7. ASSUME NEW m \in A
        PROVE  /\ Add(l, A, d)[m] >= 0 /\ Add(l, A, d)[m] <= Far(l, A)[m] /\ Far(l, A)[m] \in Int
    <3>1. PICK k : k = Count(l, Beneath(l, m))
      OBVIOUS
    <3>2. Beneath(l, m) \in SUBSET Active(l)
      BY DEF Beneath
    <3>3. k \in Int /\ k >= 1
      BY <1>1, <3>1, <3>2, CountIs
    <3>4. PICK t : t = size * k
      OBVIOUS
    <3>5. t \in Int /\ t >= 1
      BY <1>1, <3>3, <3>4
    <3>6. l.dims[m].stride = t
      BY <1>2, <3>1, <3>4, PacksBelow
    <3>7. PICK x, y : x = d[m] /\ y = Size(l.dims[m]) - 1
      OBVIOUS
    <3>8. Size(l.dims[m]) \in Int
      BY <1>1, <1>2, ActiveIs
    <3>9. x \in Int /\ y \in Int /\ 0 <= x /\ x <= y
      BY <2>3, <3>7, <3>8 DEF Steps
    <3>10. t * x \in Int /\ t * y \in Int /\ t * x >= 0 /\ t * x <= t * y
      BY <3>5, <3>9
    <3>11. QED
      BY <3>6, <3>7, <3>10 DEF Add, Far
  <2>8. Far(l, A) \in [A -> Int]
    BY <2>7 DEF Far
  <2>9. SumFunction(Add(l, A, d)) <= SumFunction(Far(l, A))
    BY <1>3, <2>4, <2>7, <2>8, SumMono DEF Under
  <2>10. SumFunction(z) <= SumFunction(Add(l, A, d))
    BY <1>3, <2>4, <2>6, <2>7, SumMono DEF Under
  <2>11. SumFunction(z) = 0
    BY <1>3, <2>6, SumZero
  <2>12. SumFunction(Far(l, A)) = size * last
    BY <1>2, <1>4, FarIs
  <2>13. PICK s : s = SumFunction(Add(l, A, d))
    OBVIOUS
  <2>14. s \in Int /\ size * last \in Int
    BY <1>1, <1>3, <1>5, <2>4, <2>13, SumInt
  <2>15. 0 <= s /\ s <= size * last
    BY <2>9, <2>10, <2>11, <2>12, <2>13
  <2>16. QED
    BY <1>8, <2>3, <2>13, <2>14, <2>15
<1>10. ASSUME NEW k \in 0 .. last PROVE \E c \in Domain(l) : GetLoc(l, c) = base + size * k
  <2>1. PICK d : Steps(l, A, d) /\ SumFunction(Add(l, A, d)) = size * k
    <3>1. Reached(l, size, A)
      BY <1>4, AllReached
    <3>2. k \in 0 .. Count(l, A) - 1
      BY <1>2
    <3>3. QED
      BY <3>1, <3>2 DEF Reached
  <2>2. PICK c : c = [n \in Names(l) |-> IF n \in A THEN l.dims[n].start + d[n] ELSE l.dims[n].start]
    OBVIOUS
  <2>3. \A n \in Names(l) : c[n] \in Int /\ l.dims[n].start <= c[n] /\ c[n] < l.dims[n].stop
    <3>1. ASSUME NEW n \in Names(l), n \in A PROVE c[n] \in Int /\ l.dims[n].start <= c[n] /\ c[n] < l.dims[n].stop
      <4>1. d[n] \in 0 .. Size(l.dims[n]) - 1 /\ c[n] = l.dims[n].start + d[n]
        BY <2>1, <2>2, <3>1 DEF Steps
      <4>2. QED
        BY <1>6, <4>1 DEF Size
    <3>2. ASSUME NEW n \in Names(l), n \notin A PROVE c[n] \in Int /\ l.dims[n].start <= c[n] /\ c[n] < l.dims[n].stop
      BY <1>6, <2>2, <3>2
    <3>3. QED
      BY <3>1, <3>2
  <2>4. c \in Domain(l)
    BY <1>1, <2>2, <2>3, InBoxOf
  <2>5. \A n \in Active(l) : d[n] = c[n] - l.dims[n].start
    <3>1. ASSUME NEW n \in A PROVE d[n] = c[n] - l.dims[n].start
      <4>1. d[n] \in 0 .. Size(l.dims[n]) - 1 /\ Size(l.dims[n]) \in Int
        BY <1>1, <1>2, <2>1, ActiveIs DEF Steps
      <4>2. c[n] = l.dims[n].start + d[n] /\ l.dims[n].start \in Int
        BY <1>3, <1>6, <2>2
      <4>3. QED
        BY <4>1, <4>2
    <3>2. QED
      BY <1>2, <3>1
  <2>6. GetLoc(l, c) = base + SumFunction(Add(l, A, d))
    BY <1>1, <1>2, <1>7, <2>4, <2>5, AddressFromFirst
  <2>7. QED
    BY <2>1, <2>4, <2>6
<1>11. QED
  BY <1>5, <1>7, <1>8, <1>9, <1>10

\* The bytes of a contiguous tensor are one block.
LEMMA ContiguousBlock ==
  ASSUME NEW v, IsView(v), v.size >= 1, Plain(v), Contiguous(v.base, v.size)
  PROVE  Cardinality(Bytes(v)) = Max(Bytes(v)) - Min(Bytes(v)) + 1
<1>1. PICK l, size, last, base : /\ l = v.base /\ size = v.size /\ last = Count(l, Active(l)) - 1
                                 /\ base = GetLoc(l, First(l))
  OBVIOUS
<1>2. Contiguous(l, size) /\ size \in Int /\ size >= 1
  BY <1>1 DEF IsView
<1>3. base \in Int /\ last \in Nat
  BY <1>1, <1>2, ContiguousAddresses
<1>4. \A c \in Domain(l) : GetLoc(l, c) \in Int /\ base <= GetLoc(l, c) /\ GetLoc(l, c) <= base + size * last
  BY <1>1, <1>2, ContiguousAddresses
<1>5. \A k \in 0 .. last : \E c \in Domain(l) : GetLoc(l, c) = base + size * k
  BY <1>1, <1>2, ContiguousAddresses
<1>6. PICK stop : stop = base + size * last + size
  OBVIOUS
<1>7. stop \in Int /\ base < stop
  <2>1. size * last \in Int /\ size * last >= 0
    BY <1>2, <1>3
  <2>2. QED
    BY <1>2, <1>3, <1>6, <2>1
<1>8. Reals(v) = Domain(l)
  BY <1>1, PlainReals
<1>9. Bytes(v) \subseteq base .. stop - 1
  <2>1. ASSUME NEW b \in Bytes(v) PROVE b \in base .. stop - 1
    <3>1. PICK c \in Domain(l) : b \in GetLoc(l, c) .. GetLoc(l, c) + size - 1
      BY <1>1, <1>8, <2>1 DEF Bytes
    <3>2. PICK a, m : a = GetLoc(l, c) /\ m = size * last
      OBVIOUS
    <3>3. a \in Int /\ m \in Int /\ base <= a /\ a <= base + m /\ stop = base + m + size
      BY <1>2, <1>3, <1>4, <1>6, <3>2
    <3>4. QED
      BY <1>2, <1>3, <3>1, <3>2, <3>3
  <2>2. QED
    BY <2>1
<1>10. base .. stop - 1 \subseteq Bytes(v)
  <2>1. ASSUME NEW b \in base .. stop - 1 PROVE b \in Bytes(v)
    <3>1. PICK q, k, r : q = b - base /\ k = q \div size /\ r = q % size
      OBVIOUS
    <3>2. b \in Int /\ q \in Int /\ 0 <= q /\ b = base + q
      BY <1>3, <1>7, <3>1
    <3>3. q < (last + 1) * size
      <4>1. q < size * last + size
        BY <1>2, <1>3, <1>6, <1>7, <3>1
      <4>2. size * last + size = (last + 1) * size
        BY <1>2, <1>3
      <4>3. QED
        BY <4>1, <4>2
    <3>4. k \in 0 .. last /\ r \in 0 .. size - 1 /\ size * k + r = q
      <4>1. last + 1 \in Nat /\ size \in Nat /\ (last + 1) - 1 = last
        BY <1>2, <1>3
      <4>2. QED
        BY <3>1, <3>2, <3>3, <4>1, Digits
    <3>5. PICK c \in Domain(l) : GetLoc(l, c) = base + size * k
      BY <1>5, <3>4
    <3>6. PICK a : a = GetLoc(l, c)
      OBVIOUS
    <3>7. a \in Int /\ b = a + r
      BY <1>2, <1>3, <1>4, <3>2, <3>4, <3>5, <3>6
    <3>8. b \in a .. a + size - 1
      BY <1>2, <3>4, <3>7
    <3>9. QED
      BY <1>1, <1>8, <3>6, <3>8 DEF Bytes
  <2>2. QED
    BY <2>1
<1>11. Bytes(v) = base .. stop - 1
  BY <1>9, <1>10
<1>12. Cardinality(base .. stop - 1) = stop - base
  BY <1>3, <1>7, IntervalSize
<1>13. Min(base .. stop - 1) = base /\ Max(base .. stop - 1) = stop - 1
  <2>1. base \in base .. stop - 1 /\ stop - 1 \in base .. stop - 1 /\ base .. stop - 1 \subseteq Int
    BY <1>3, <1>7
  <2>2. \A x \in base .. stop - 1 : base <= x /\ x <= stop - 1
    BY <1>3, <1>7
  <2>3. QED
    BY <2>1, <2>2, ExtremesAre
<1>14. QED
  BY <1>3, <1>7, <1>11, <1>12, <1>13

\* Every verdict on the view is a proof.
LEMMA VerdictsHold ==
  ASSUME Sound
  PROVE  VerdictsAreProofs
<1>1. PICK v : v = view
  OBVIOUS
<1>2. IsView(v) /\ v.size >= 1 /\ WellFormed(v.base) /\ IsLayout(v.base) /\ L = v.base
  BY <1>1 DEF Sound, IsView, L
<1>3. Reals(v) \subseteq Domain(v.base)
  BY DEF Reals
<1>4. ASSUME Injectivity(v.base) = "injective", NEW c \in Reals(v), NEW e \in Reals(v), GetLoc(v.base, c) = GetLoc(v.base, e)
      PROVE  c = e
  <2>1. c \in Domain(v.base) /\ e \in Domain(v.base)
    BY <1>3, <1>4
  <2>2. QED
    BY <1>2, <1>4, <2>1, InjectiveIs
<1>5. Numel(v.base) > 0 => Full(v.base)
  <2>1. Numel(v.base) > 0 => Numel(v.base) # 0
    OBVIOUS
  <2>2. Boxed(v.base)
    BY <1>2 DEF WellFormed, Boxed
  <2>3. QED
    BY <1>2, <2>1, <2>2, FullUnlessEmpty
<1>6. ASSUME GInjectivity(v) = "aliased", Numel(v.base) > 0
      PROVE  \E c, e \in Reals(v) : c # e /\ GetLoc(v.base, c) = GetLoc(v.base, e)
  <2>1. Plain(v) /\ Injectivity(v.base) = "aliased"
    BY <1>6, VerdictIs
  <2>2. \E c, e \in Domain(v.base) : c # e /\ GetLoc(v.base, c) = GetLoc(v.base, e)
    BY <1>2, <1>5, <1>6, <2>1, AliasedCollides
  <2>3. Reals(v) = Domain(v.base)
    BY <1>2, <2>1, PlainReals
  <2>4. QED
    BY <2>2, <2>3
<1>7. ASSUME Plain(v), Numel(v.base) > 0, IsContiguous(v.base, v.size)
      PROVE  Injectivity(v.base) = "injective" /\ Cardinality(Bytes(v)) = Max(Bytes(v)) - Min(Bytes(v)) + 1
  <2>1. v.size \in Nat \ {0}
    BY <1>2 DEF IsView
  <2>2. Contiguous(v.base, v.size)
    BY <1>2, <1>5, <1>7, <2>1 DEF Contiguous
  <2>3. Injectivity(v.base) = "injective"
    BY <2>2, ContiguousIsInjective
  <2>4. QED
    BY <1>2, <1>7, <2>2, <2>3, ContiguousBlock
<1>8. GInjectivity(v) = "injective" => Injectivity(v.base) = "injective"
  BY VerdictIs
<1>9. QED
  BY <1>1, <1>2, <1>4, <1>6, <1>7, <1>8 DEF VerdictsAreProofs

-----------------------------------------------------------------------------
(* EVERY VIEW'S CHARTS ARE CHARTS                                           *)

\* The layout of the tensor a step makes.
LEMMA MakesCharted ==
  ASSUME Sound, NEW o, NEW l, NEW gs, NEW v, v = View(view, l, gs) \/ v = Rebase(view, l), NEW axes, Makes(o, v, axes),
         IsCharted(l)
  PROVE  IsCharted(view'.base)
<1>1. v.base = l
  BY DEF Sound, IsView, View, Rebase
<1>2. view' = v
  BY DEF Makes
<1>3. QED
  BY <1>1, <1>2

\* Slicing a view.
LEMMA SliceViewCharted ==
  ASSUME Sound, IsCharted(L), SliceView
  PROVE  IsCharted(view'.base)
<1>1. PICK n, a, b, lo, hi, o :
        /\ n \in Names(L) /\ a \in {0, 1} /\ b \in {0, 1} /\ lo = L.dims[n].start + a /\ hi = L.dims[n].stop - b
        /\ Makes(o, GSlice(view, n, lo, hi), {})
  BY DEF SliceView
<1>2. lo \in Int /\ hi \in Int
  BY <1>1, BoundsInt
<1>3. IsCharted(Slice(L, n, lo, hi))
  BY <1>1, <1>2, SliceCharted, LayoutOfView
<1>4. GSlice(view, n, lo, hi) = Rebase(view, Slice(L, n, lo, hi))
  BY DEF GSlice, L
<1>5. QED
  BY <1>1, <1>3, <1>4, MakesCharted

\* Selecting from a view.
LEMMA SelectViewCharted ==
  ASSUME Sound, IsCharted(L), SelectView
  PROVE  IsCharted(view'.base)
<1>1. PICK S, points, o :
        /\ S \in SUBSET Names(L) /\ points = [n \in S |-> L.dims[n].stop - 1]
        /\ Makes(o, GSelect(view, points), {})
  BY DEF SelectView
<1>2. DOMAIN points \subseteq Names(L) /\ \A n \in DOMAIN points : points[n] \in Int
  BY <1>1, BoundsInt
<1>3. IsCharted(Select(L, points))
  BY <1>2, SelectCharted, LayoutOfView
<1>4. PICK gs : GSelect(view, points) = View(view, Select(L, points), gs)
  BY DEF GSelect, L
<1>5. QED
  BY <1>1, <1>3, <1>4, MakesCharted

\* Shifting a view.
LEMMA ShiftViewCharted ==
  ASSUME Sound, IsCharted(L), ShiftView
  PROVE  IsCharted(view'.base)
<1>1. PICK n, s, o : n \in Names(L) /\ s \in Shifts /\ Makes(o, GShift(view, n, s), {})
  BY DEF ShiftView
<1>2. IsCharted(Shift(L, n, s))
  BY <1>1, ShiftCharted, LayoutOfView, ViewsAssumption
<1>3. PICK gs : GShift(view, n, s) = View(view, Shift(L, n, s), gs)
  BY DEF GShift, L
<1>4. QED
  BY <1>1, <1>2, <1>3, MakesCharted

\* Renaming a dim of a view.
LEMMA RenameViewCharted ==
  ASSUME Sound, IsCharted(L), RenameView
  PROVE  IsCharted(view'.base)
<1>1. PICK n, o : n \in Names(L) /\ Makes(o, GRename(view, n, "new"), {})
  BY DEF RenameView
<1>2. IsCharted(Rename(L, n, "new"))
  BY <1>1, RenameCharted
<1>3. PICK gs : GRename(view, n, "new") = View(view, Rename(L, n, "new"), gs)
  BY DEF GRename, L
<1>4. QED
  BY <1>1, <1>2, <1>3, MakesCharted

\* Repeating a view, with a chart or none.
LEMMA RepeatViewCharted ==
  ASSUME Sound, IsCharted(L), RepeatView
  PROVE  IsCharted(view'.base)
<1>1. PICK chart, labels, o, axes :
        chart \in Charts \cup {None} /\ Makes(o, GRepeat(view, "r", 1, 3, chart, labels), axes)
  BY DEF RepeatView
<1>2. IsChart(chart)
  BY <1>1, ViewsAssumption DEF IsChart
<1>3. IsCharted(Repeat(L, "r", 1, 3, chart, labels))
  BY <1>2, RepeatCharted
<1>4. GRepeat(view, "r", 1, 3, chart, labels) = Rebase(view, Repeat(L, "r", 1, 3, chart, labels))
  BY DEF GRepeat, L
<1>5. QED
  BY <1>1, <1>3, <1>4, MakesCharted

\* Flipping a view.
LEMMA FlipViewCharted ==
  ASSUME Sound, IsCharted(L), FlipView
  PROVE  IsCharted(view'.base)
<1>1. PICK n, o : n \in Names(L) /\ Makes(o, GFlip(view, n), {})
  BY DEF FlipView
<1>2. IsCharted(Flip(L, n))
  BY <1>1, FlipCharted, LayoutOfView
<1>3. PICK gs : GFlip(view, n) = View(view, Flip(L, n), gs)
  BY DEF GFlip, L
<1>4. QED
  BY <1>1, <1>2, <1>3, MakesCharted

\* Splitting a dim of a view.
LEMMA SplitViewCharted ==
  ASSUME Sound, IsCharted(L), SplitView
  PROVE  IsCharted(view'.base)
<1>1. PICK n, size, a, outer, x, y, parts, o :
        /\ n \in Names(L) /\ size \in 2 .. 3 /\ a \in {0, 1} /\ outer = Size(L.dims[n]) \div size
        /\ x = [name |-> "o", start |-> a, stop |-> a + outer] /\ y = [name |-> "i", start |-> -a, stop |-> size - a]
        /\ parts = <<x, y>> /\ Makes(o, GSplit(view, n, parts), {})
  BY DEF SplitView
<1>2. outer \in Int
  <2>1. Size(L.dims[n]) \in Int /\ size \in Nat \ {0}
    BY <1>1, BoundsInt DEF Size
  <2>2. QED
    BY <1>1, <2>1, DivIs
<1>3. x.name = "o" /\ y.name = "i" /\ x.start = a /\ x.stop = a + outer /\ y.start = -a /\ y.stop = size - a
  BY <1>1
<1>4. a \in Int /\ size \in Int /\ size >= 2
  BY <1>1
<1>5. TwoParts(parts, x, y) /\ Size(y) # 0
  <2>1. IsPart(x) /\ IsPart(y)
    BY <1>2, <1>3, <1>4 DEF IsPart
  <2>2. "o" # "i"
    OBVIOUS
  <2>3. Size(y) = size
    BY <1>3, <1>4 DEF Size
  <2>4. QED
    BY <1>1, <1>3, <1>4, <2>1, <2>2, <2>3 DEF TwoParts
<1>6. IsCharted(Split(L, n, parts))
  BY <1>1, <1>5, SplitCharted, LayoutOfView
<1>7. PICK gs : GSplit(view, n, parts) = View(view, Split(L, n, parts), gs)
  BY DEF GSplit, L
<1>8. QED
  BY <1>1, <1>6, <1>7, MakesCharted

\* Merging two dims of a view.
LEMMA MergeViewCharted ==
  ASSUME Sound, IsCharted(L), MergeView
  PROVE  IsCharted(view'.base)
<1>1. PICK m, n, start, parts, o :
        /\ m \in Names(L) /\ n \in Names(L) /\ start \in {0, 2} /\ parts = <<m, n>> /\ CanGMerge(view, parts, "g")
        /\ Makes(o, GMerge(view, parts, "g", start), {})
  BY DEF MergeView
<1>2. MergesCharts(L, parts)
  BY <1>1 DEF CanGMerge, CanMerge, L
<1>3. start \in Int
  BY <1>1
<1>4. IsCharted(Merge(L, parts, "g", start))
  BY <1>1, <1>2, <1>3, MergeCharted, LayoutOfView
<1>5. PICK gs : GMerge(view, parts, "g", start) = View(view, Merge(L, parts, "g", start), gs)
  BY DEF GMerge, L
<1>6. QED
  BY <1>1, <1>4, <1>5, MakesCharted

\* Taking a diagonal of a view.
LEMMA DiagonalViewCharted ==
  ASSUME Sound, IsCharted(L), DiagonalView
  PROVE  IsCharted(view'.base)
<1>1. PICK parts, o : parts \in SUBSET Names(L) /\ Makes(o, GDiagonal(view, parts, "z"), {})
  BY DEF DiagonalView
<1>2. IsCharted(Diagonal(L, parts, "z"))
  BY <1>1, DiagonalCharted, LayoutOfView
<1>3. PICK gs : GDiagonal(view, parts, "z") = View(view, Diagonal(L, parts, "z"), gs)
  BY DEF GDiagonal, L
<1>4. QED
  BY <1>1, <1>2, <1>3, MakesCharted

\* Taking the windows of a view.
LEMMA WindowViewCharted ==
  ASSUME Sound, IsCharted(L), WindowView
  PROVE  IsCharted(view'.base)
<1>1. PICK n, lo, hi, dilation, o :
        n \in Names(L) /\ dilation \in Factors /\ Makes(o, GWindow(view, n, "k", lo, hi, dilation), {})
  BY DEF WindowView
<1>2. IsCharted(Window(L, n, "k", lo, hi, dilation))
  BY <1>1, WindowCharted, LayoutOfView, ViewsAssumption
<1>3. PICK gs : GWindow(view, n, "k", lo, hi, dilation) = View(view, Window(L, n, "k", lo, hi, dilation), gs)
  BY DEF GWindow, L
<1>4. QED
  BY <1>1, <1>2, <1>3, MakesCharted

\* Decimating a view.
LEMMA DecimateViewCharted ==
  ASSUME Sound, IsCharted(L), DecimateView
  PROVE  IsCharted(view'.base)
<1>1. PICK n, factor, phase, o :
        n \in Names(L) /\ factor \in Factors /\ phase \in {0, 1} /\ Makes(o, GDecimate(view, n, factor, phase), {})
  BY DEF DecimateView
<1>2. factor \in Nat \ {0} /\ phase \in Int
  <2>1. factor \in Nat \ {0}
    BY <1>1, ViewsAssumption
  <2>2. phase \in Int
    BY <1>1
  <2>3. QED
    BY <2>1, <2>2
<1>3. IsCharted(Decimate(L, n, factor, phase))
  BY <1>1, <1>2, DecimateCharted, LayoutOfView
<1>4. PICK gs : GDecimate(view, n, factor, phase) = View(view, Decimate(L, n, factor, phase), gs)
  BY DEF GDecimate, L
<1>5. QED
  BY <1>1, <1>3, <1>4, MakesCharted

\* Padding a view: the dim gets wider and keeps its chart.
LEMMA PadViewCharted ==
  ASSUME Sound, IsCharted(L), PadView
  PROVE  IsCharted(view'.base)
<1>1. PICK n, a, lo, hi, o :
        /\ n \in Names(L) /\ a \in {0, 1} /\ lo = L.dims[n].start - a /\ hi = L.dims[n].stop + 1
        /\ Makes(o, Pad(view, n, lo, hi), {})
  BY DEF PadView
<1>2. lo \in Int /\ hi \in Int
  BY <1>1, BoundsInt
<1>3. PICK e : e = [L.dims[n] EXCEPT !.start = lo, !.stop = hi]
  OBVIOUS
<1>4. IsDim(L.dims[n]) /\ IsChart(L.dims[n].chart)
  BY <1>1, LayoutOfView DEF IsLayout, IsCharted
<1>5. IsDim(e) /\ IsChart(e.chart)
  BY <1>2, <1>3, <1>4 DEF IsDim, Fields
<1>6. IsCharted(SetDim(L, n, e))
  BY <1>1, <1>5, SetDimCharted, LayoutOfView
<1>7. PICK gs : Pad(view, n, lo, hi) = View(view, SetDim(L, n, e), gs)
  BY <1>3 DEF Pad, L
<1>8. QED
  BY <1>1, <1>6, <1>7, MakesCharted

\* Making a stencil of a view.
LEMMA StencilViewCharted ==
  ASSUME Sound, IsCharted(L), StencilView
  PROVE  IsCharted(view'.base)
<1>1. PICK n, lo, hi, dilation, o :
        n \in Names(L) /\ dilation \in Factors /\ Makes(o, Stencil(view, n, "t", lo, hi, dilation), {})
  BY DEF StencilView
<1>2. dilation \in Nat \ {0}
  BY <1>1, ViewsAssumption
<1>3. IsView(view) /\ IsCharted(view.base) /\ n \in Names(view.base)
  BY <1>1 DEF Sound, L
<1>4. IsCharted(Stencil(view, n, "t", lo, hi, dilation).base)
  BY <1>2, <1>3, StencilCharted
<1>5. view' = Stencil(view, n, "t", lo, hi, dilation)
  BY <1>1 DEF Makes
<1>6. QED
  BY <1>4, <1>5

\* Simplify leaves the layout alone.
LEMMA SimplifyViewCharted ==
  ASSUME Sound, IsCharted(L), SimplifyView
  PROVE  IsCharted(view'.base)
<1>1. PICK o : Makes(o, Simplify(view), {})
  BY DEF SimplifyView
<1>2. view' = Simplify(view)
  BY <1>1 DEF Makes
<1>3. Simplify(view).base = view.base
  BY SimplifyIs, SizeInt
<1>4. QED
  BY <1>2, <1>3 DEF L

\* A field is at another offset, with the same dims.
LEMMA FieldViewCharted ==
  ASSUME Sound, IsCharted(L), FieldView
  PROVE  IsCharted(view'.base)
<1>1. PICK l, r, o, v :
        /\ l = [view.base EXCEPT !.offset = @ + FieldOffset] /\ r = Rebase(view, l) /\ v = [r EXCEPT !.size = @ - FieldOffset]
        /\ Makes(o, v, {})
  BY DEF FieldView, L
<1>2. view' = v
  BY <1>1 DEF Makes
<1>3. v.base = l
  BY <1>1, RebaseIs, SizeInt
<1>4. l.dims = view.base.dims
  BY <1>1
<1>5. QED
  BY <1>2, <1>3, <1>4 DEF L, IsCharted, Names

\* with_charts attaches a chart, on the axis of the dim if it names none.
LEMMA ChartViewCharted ==
  ASSUME Sound, IsCharted(L), ChartView
  PROVE  IsCharted(view'.base)
<1>1. PICK n, chart, o, axes :
        n \in Names(L) /\ chart \in Charts \cup {None} /\ Makes(o, Rebase(view, WithChart(L, n, chart)), axes)
  BY DEF ChartView
<1>2. IsChart(chart)
  BY <1>1, ViewsAssumption DEF IsChart
<1>3. PICK named : named = IF chart # None /\ chart.axis = None THEN [chart EXCEPT !.axis = n] ELSE chart
  OBVIOUS
<1>4. IsChart(named)
  <2>1. CASE chart # None /\ chart.axis = None
    <3>1. named = [chart EXCEPT !.axis = n]
      BY <1>3, <2>1
    <3>2. {"origin", "step", "kind", "axis"} \subseteq DOMAIN chart /\ chart.origin \in Int /\ chart.step \in Int \ {0}
      BY <1>2, <2>1 DEF IsChart
    <3>3. QED
      BY <3>1, <3>2 DEF IsChart
  <2>2. CASE ~(chart # None /\ chart.axis = None)
    BY <1>2, <1>3, <2>2
  <2>3. QED
    BY <2>1, <2>2
<1>5. IsDim(L.dims[n])
  BY <1>1, LayoutOfView DEF IsLayout
<1>6. PICK e : e = [L.dims[n] EXCEPT !.labels = None, !.chart = named]
  OBVIOUS
<1>7. IsDim(e) /\ IsChart(e.chart)
  BY <1>4, <1>5, <1>6 DEF IsDim, Fields
<1>8. WithChart(L, n, chart) = SetDim(L, n, e)
  BY <1>3, <1>6 DEF WithChart
<1>9. IsCharted(WithChart(L, n, chart))
  BY <1>1, <1>7, <1>8, SetDimCharted, LayoutOfView
<1>10. QED
  BY <1>1, <1>9, MakesCharted

\* with_labels and strip_charts take charts away.
LEMMA LabelViewCharted ==
  ASSUME Sound, IsCharted(L), LabelView
  PROVE  IsCharted(view'.base)
<1>1. PICK n, labels, o, axes : n \in Names(L) /\ Makes(o, Rebase(view, WithLabels(L, n, labels)), axes)
  BY DEF LabelView
<1>2. IsDim(L.dims[n])
  BY <1>1, LayoutOfView DEF IsLayout
<1>3. PICK e : e = [L.dims[n] EXCEPT !.labels = labels, !.chart = None]
  OBVIOUS
<1>4. IsDim(e) /\ IsChart(e.chart)
  BY <1>2, <1>3 DEF IsDim, Fields, IsChart
<1>5. WithLabels(L, n, labels) = SetDim(L, n, e)
  BY <1>3 DEF WithLabels
<1>6. IsCharted(WithLabels(L, n, labels))
  BY <1>1, <1>4, <1>5, SetDimCharted, LayoutOfView
<1>7. QED
  BY <1>1, <1>6, MakesCharted

\* Stripping a view of its charts.
LEMMA StripViewCharted ==
  ASSUME Sound, IsCharted(L), StripView
  PROVE  IsCharted(view'.base)
<1>1. PICK o, r : r = StripCharts(L) /\ Makes(o, Rebase(view, r), {})
  BY DEF StripView
<1>2. {"dims", "offset"} \subseteq DOMAIN L /\ \A n \in Names(L) : IsDim(L.dims[n])
  BY LayoutOfView DEF IsLayout
<1>3. Names(r) = Names(L) /\ \A n \in Names(r) : r.dims[n] = [L.dims[n] EXCEPT !.chart = None, !.labels = None]
  BY <1>1, <1>2 DEF StripCharts, Names
<1>4. \A n \in Names(r) : r.dims[n].chart = None
  BY <1>2, <1>3 DEF IsDim, Fields
<1>5. IsCharted(r)
  BY <1>4 DEF IsCharted, IsChart
<1>6. QED
  BY <1>1, <1>5, MakesCharted

\* Binding a dim of a view.
LEMMA BindViewCharted ==
  ASSUME Sound, IsCharted(L), BindView
  PROVE  IsCharted(view'.base)
<1>1. PICK n, level, o : n \in Names(L) /\ Makes(o, Rebase(view, Bind(L, n, level)), {})
  BY DEF BindView
<1>2. IsCharted(Bind(L, n, level))
  BY <1>1, BindCharted, LayoutOfView
<1>3. QED
  BY <1>1, <1>2, MakesCharted

\* recenter moves the origin of a chart.
LEMMA RecenterViewCharted ==
  ASSUME Sound, IsCharted(L), RecenterView
  PROVE  IsCharted(view'.base)
<1>1. PICK n, o, r : n \in Charted(L) /\ r = Recenter(L, n, 5) /\ Makes(o, Rebase(view, r), {})
  BY DEF RecenterView
<1>2. n \in Names(L) /\ L.dims[n].chart # None
  BY <1>1 DEF Charted
<1>3. IsDim(L.dims[n]) /\ IsChart(L.dims[n].chart) /\ {"dims", "offset"} \subseteq DOMAIN L
  BY <1>2, LayoutOfView DEF IsLayout, IsCharted
<1>4. PICK chart : chart = [L.dims[n].chart EXCEPT !.origin = @ + 5]
  OBVIOUS
<1>5. IsChart(chart)
  <2>1. PICK old : old = L.dims[n].chart
    OBVIOUS
  <2>2. {"origin", "step", "kind", "axis"} \subseteq DOMAIN old /\ old.origin \in Int /\ old.step \in Int \ {0}
    BY <1>2, <1>3, <2>1 DEF IsChart
  <2>3. chart = [old EXCEPT !.origin = @ + 5]
    BY <1>4, <2>1
  <2>4. QED
    BY <2>2, <2>3 DEF IsChart
<1>6. r.dims = [L.dims EXCEPT ![n].chart.origin = @ + 5]
  BY <1>1, <1>3 DEF Recenter
<1>7. Names(r) = Names(L) /\ r.dims[n].chart = chart /\ \A m \in Names(L) \ {n} : r.dims[m] = L.dims[m]
  BY <1>2, <1>3, <1>4, <1>6 DEF Names, IsDim, Fields
<1>8. IsCharted(r)
  BY <1>5, <1>7 DEF IsCharted
<1>9. QED
  BY <1>1, <1>8, MakesCharted

\* A subscript by a coordinate is a selection.
LEMMA PointCharted ==
  ASSUME Sound, IsCharted(L), NEW n, n \in Names(L), NEW i \in Int, NEW o, Makes(o, GSelect(view, Single(n, i)), {})
  PROVE  IsCharted(view'.base)
<1>1. PICK points : points = Single(n, i)
  OBVIOUS
<1>2. DOMAIN points \subseteq Names(L) /\ \A m \in DOMAIN points : points[m] \in Int
  BY <1>1 DEF Single
<1>3. IsCharted(Select(L, points))
  BY <1>2, SelectCharted, LayoutOfView
<1>4. PICK gs : GSelect(view, points) = View(view, Select(L, points), gs)
  BY DEF GSelect, L
<1>5. QED
  BY <1>1, <1>3, <1>4, MakesCharted

\* A subscript by a slice is a slice and a decimation.
LEMMA StrideCharted ==
  ASSUME Sound, IsCharted(L), NEW n, n = handle.name, n \in Names(L), NEW lo \in Int, NEW hi \in Int, lo <= hi,
         NEW step \in Nat \ {0}, NEW s, s.frame = handle, s.lo = lo, s.hi = hi, s.step = step, NEW o,
         Makes(o, SubscriptOf(view, s), {})
  PROVE  IsCharted(view'.base)
<1>1. PICK k, e : k = Visits(s) /\ e = LastVisited(s)
  OBVIOUS
<1>2. k \in Nat /\ e \in Int
  BY <1>1, VisitsNat
<1>3. PICK x : x = IF k = 0 THEN lo ELSE e + 1
  OBVIOUS
<1>4. x \in Int
  BY <1>2, <1>3
<1>5. PICK l, v : l = Slice(L, n, lo, x) /\ v = GSlice(view, n, lo, x)
  OBVIOUS
<1>6. IsCharted(l) /\ IsLayout(l) /\ Names(l) = Names(L)
  <2>1. IsLayout(L)
    BY LayoutOfView
  <2>2. SameMap(l, L)
    BY <1>4, <1>5, <2>1, SliceStays
  <2>3. IsLayout(l)
    BY <2>1, <2>2, SameMapStays
  <2>4. IsCharted(l)
    BY <1>4, <1>5, <2>1, SliceCharted
  <2>5. QED
    BY <2>2, <2>3, <2>4 DEF SameMap
<1>7. v = Rebase(view, l) /\ v.base = l
  BY <1>5, RebaseIs, SizeInt DEF GSlice, L
<1>8. SubscriptOf(view, s) = IF k = 0 \/ step = 1 THEN v ELSE GDecimate(v, n, step, lo % step)
  BY <1>1, <1>3, <1>5 DEF SubscriptOf
<1>9. view' = SubscriptOf(view, s)
  BY DEF Makes
<1>10. CASE k = 0 \/ step = 1
  BY <1>6, <1>7, <1>8, <1>9, <1>10
<1>11. CASE ~(k = 0 \/ step = 1)
  <2>1. lo % step \in Int
    BY ModIs
  <2>2. IsCharted(Decimate(l, n, step, lo % step))
    BY <1>6, <2>1, DecimateCharted
  <2>3. GDecimate(v, n, step, lo % step).base = Decimate(l, n, step, lo % step)
    <3>1. PICK gs : GDecimate(v, n, step, lo % step) = View(v, Decimate(l, n, step, lo % step), gs)
      BY <1>7 DEF GDecimate
    <3>2. "base" \in DOMAIN v /\ "guards" \in DOMAIN v
      BY <1>7, RebaseIs, SizeInt
    <3>3. QED
      BY <3>1, <3>2 DEF View
  <2>4. QED
    BY <1>8, <1>9, <1>11, <2>2, <2>3
<1>12. QED
  BY <1>10, <1>11

\* Subscripting a view.
LEMMA SubscriptCharted ==
  ASSUME Sound, IsCharted(L), Subscript
  PROVE  IsCharted(view'.base)
<1>1. PICK n : n = handle.name /\ n \in Names(L)
  BY DEF Subscript
<1>2. handle.start \in Int /\ handle.stop \in Int
  BY DEF Sound, IntHandle
<1>3. CASE \E o : \E i \in handle.start .. handle.stop - 1 : Makes(o, GSelect(view, Single(n, i)), {})
  BY <1>1, <1>2, <1>3, PointCharted
<1>4. CASE \E lo \in handle.start .. handle.stop - 1, hi \in {None} \cup handle.start .. handle.stop - 1, step \in Factors :
             /\ CanProgress(handle, lo, hi, step)
             /\ \E o : Makes(o, SubscriptOf(view, Progression(handle, lo, hi, step)), {})
  <2>1. PICK lo, hi, step, s, o :
           /\ lo \in handle.start .. handle.stop - 1 /\ hi \in {None} \cup handle.start .. handle.stop - 1
           /\ step \in Factors /\ s = Progression(handle, lo, hi, step)
           /\ CanProgress(handle, lo, hi, step) /\ Makes(o, SubscriptOf(view, s), {})
    BY <1>4
  <2>2. PICK last : last = IF hi = None THEN handle.stop ELSE hi
    OBVIOUS
  <2>3. s.frame = handle /\ s.lo = lo /\ s.hi = last /\ s.step = step
    BY <2>1, <2>2 DEF Progression
  <2>4. lo \in Int /\ last \in Int /\ lo <= last
    BY <1>2, <2>1, <2>2 DEF CanProgress, CanPoint, InDim
  <2>5. step \in Nat \ {0}
    BY <2>1, ViewsAssumption
  <2>6. QED
    BY <1>1, <2>1, <2>3, <2>4, <2>5, StrideCharted
<1>5. QED
  BY <1>1, <1>3, <1>4 DEF Subscript

\* Every step leaves charts charts.
LEMMA ChartedStays ==
  ASSUME Sound, IsCharted(L), [Next]_vars
  PROVE  IsCharted(L)'
<1>1. CASE UNCHANGED vars
  BY <1>1 DEF vars, L
<1>2. CASE Next
  <2>1. ASSUME IsCharted(view'.base)
        PROVE  IsCharted(L)'
    BY <2>1 DEF L
  <2>2. CASE TakeFrame \/ Store
    BY <2>2 DEF TakeFrame, Store, L
  <2>3. IsCharted(view'.base) \/ TakeFrame \/ Store
    BY <1>2, SliceViewCharted, SelectViewCharted, ShiftViewCharted, RenameViewCharted, RepeatViewCharted, FlipViewCharted,
       SplitViewCharted, MergeViewCharted, DiagonalViewCharted, WindowViewCharted, DecimateViewCharted, PadViewCharted,
       StencilViewCharted, SimplifyViewCharted, FieldViewCharted, ChartViewCharted, LabelViewCharted, StripViewCharted,
       BindViewCharted, RecenterViewCharted, SubscriptCharted
       DEF Next
  <2>4. QED
    BY <2>1, <2>2, <2>3
<1>3. QED
  BY <1>1, <1>2

\* In every state the charts of the view take distinct coordinates to distinct positions.
THEOREM ChartedAlways == Spec => []IsCharted(L)
<1>1. Init => IsCharted(L)
  BY ViewsAssumption DEF Init, IsTensor, L
<1>2. Sound /\ IsCharted(L) /\ [Next]_vars => IsCharted(L)'
  BY ChartedStays
<1>3. QED
  BY <1>1, <1>2, SoundAlways, PTL DEF Spec

-----------------------------------------------------------------------------
(* A FIX FIXES                                                              *)

Two(ls) == \A k : k \in DOMAIN ls <=> k = 1 \/ k = 2
Named(ls) == UNION {Names(ls[k]) : k \in DOMAIN ls}
NameIssues(ls, n) == IF FrameIssues(ls, n) # {} THEN FrameIssues(ls, n) ELSE DomainIssues(ls, n)
\* What is found of operand k on n.
Found(ls, k, n) ==
  IF n \notin Names(ls[k])
  THEN LET rd == Reference(ls, n)
       IN  Issue("missing", [op |-> "repeat", dim |-> n, lo |-> rd.start, hi |-> rd.stop, chart |-> rd.chart, labels |-> rd.labels])
  ELSE FrameIssue(n, Reference(ls, n), ls[k].dims[n])
Tagged(k, n, j) == [operand |-> k, dim |-> n, problem |-> j.problem, fix |-> j.fix]

\* The issues of an alignment are those of its names.
LEMMA AlignmentIs ==
  ASSUME NEW ls, NEW i
  PROVE  i \in Alignment(ls) <=> \E n \in Named(ls) : i \in NameIssues(ls, n)
BY DEF Alignment, NameIssues, Named

\* The issues of frames are those found of the operands.
LEMMA FrameIssuesAre ==
  ASSUME NEW ls, NEW n, NEW i
  PROVE  i \in FrameIssues(ls, n) <=> \E k \in DOMAIN ls : \E j \in Found(ls, k, n) : i = Tagged(k, n, j)
BY DEF FrameIssues, Found, Tagged

\* The interval of the name on which all operands are.
Lowest(ls, n) == Max({ls[k].dims[n].start : k \in DOMAIN ls})
Highest(ls, n) == Most(Lowest(ls, n), Min({ls[k].dims[n].stop : k \in DOMAIN ls}))

\* The issues of domains are the operands on another interval, each with the slice that puts it there.
LEMMA DomainIssuesAre ==
  ASSUME NEW ls, NEW n, NEW i
  PROVE  i \in DomainIssues(ls, n) <=>
           \E k \in DOMAIN ls :
             /\ <<ls[k].dims[n].start, ls[k].dims[n].stop>> # <<Lowest(ls, n), Highest(ls, n)>>
             /\ i = [operand |-> k, dim |-> n, problem |-> "domain",
                     fix |-> [op |-> "slice", dim |-> n, lo |-> Lowest(ls, n), hi |-> Highest(ls, n)]]
BY DEF DomainIssues, Lowest, Highest

\* An issue of a name is on it.
LEMMA IssueOn ==
  ASSUME NEW ls, NEW n, NEW i \in NameIssues(ls, n)
  PROVE  i.dim = n /\ i.operand \in DOMAIN ls
<1>1. CASE i \in FrameIssues(ls, n)
  BY <1>1, FrameIssuesAre DEF Tagged
<1>2. CASE i \in DomainIssues(ls, n)
  BY <1>2, DomainIssuesAre
<1>3. QED
  BY <1>1, <1>2 DEF NameIssues

\* What an issue of two frames says of them, with its fix.
SameKind(rd, d) == rd.level = d.level /\ rd.labels = None /\ d.labels = None /\ rd.chart # None /\ d.chart # None

\* What is wrong with two charts, and the fix of each problem (_frame_issue of tensor.py).
LEMMA ChartIssueIs ==
  ASSUME NEW n, NEW a, NEW b, NEW j \in ChartIssue(n, a, b)
  PROVE  /\ j.problem \in {"reversed", "steps", "kind", "incommensurable", "offset"}
         /\ j.problem = "reversed" => b.step = -a.step /\ j.fix = Bare("flip", n)
         /\ j.problem = "offset" =>
              /\ b.step = a.step /\ (b.origin - a.origin) % Abs(a.step) = 0 /\ b.origin # a.origin
              /\ j.fix = By("shift", n, ((b.origin - a.origin) * (IF a.step < 0 THEN -1 ELSE 1)) \div Abs(a.step))
         /\ j.problem \notin {"reversed", "offset"} => j.fix = NoFix
<1>1. CASE b.step = -a.step
  BY <1>1 DEF ChartIssue, Issue
<1>2. CASE b.step # -a.step /\ b.step # a.step
  BY <1>2 DEF ChartIssue, Issue
<1>3. CASE b.step # -a.step /\ b.step = a.step /\ (b.kind # a.kind \/ b.axis # a.axis)
  BY <1>3 DEF ChartIssue, Issue
<1>4. CASE /\ b.step # -a.step /\ b.step = a.step /\ ~(b.kind # a.kind \/ b.axis # a.axis)
           /\ (b.origin - a.origin) % Abs(a.step) # 0
  BY <1>4 DEF ChartIssue, Issue
<1>5. CASE /\ b.step # -a.step /\ b.step = a.step /\ ~(b.kind # a.kind \/ b.axis # a.axis)
           /\ (b.origin - a.origin) % Abs(a.step) = 0
  <2>1. PICK s : s = ((b.origin - a.origin) * (IF a.step < 0 THEN -1 ELSE 1)) \div Abs(a.step)
    OBVIOUS
  <2>2. ChartIssue(n, a, b) = IF b.origin # a.origin THEN Issue("offset", By("shift", n, s)) ELSE {}
    BY <1>5, <2>1, Zenon DEF ChartIssue
  <2>3. b.origin # a.origin /\ j = [problem |-> "offset", fix |-> By("shift", n, s)]
    BY <2>2 DEF Issue
  <2>4. QED
    BY <1>5, <2>1, <2>3
<1>6. QED
  BY <1>1, <1>2, <1>3, <1>4, <1>5

LabelSays(n, rd, d, j) ==
  /\ j.problem \in {"categorical", "labels", "label offset"}
  /\ j.problem = "label offset" => j.fix = By("shift", n, rd.start - d.start) /\ rd.start # d.start
  /\ j.problem # "label offset" => j.fix = NoFix

\* What is wrong with two labellings.
LEMMA LabelIssueIs ==
  ASSUME NEW n, NEW rd, NEW d, NEW j \in LabelIssue(n, rd, d)
  PROVE  LabelSays(n, rd, d, j)
<1>1. CASE rd.labels = None \/ d.labels = None
  <2>1. LabelIssue(n, rd, d) = Issue("categorical", NoFix)
    BY <1>1, Zenon DEF LabelIssue
  <2>2. j.problem = "categorical" /\ j.fix = NoFix
    BY <2>1 DEF Issue
  <2>3. QED
    BY <2>2 DEF LabelSays
<1>2. CASE ~(rd.labels = None \/ d.labels = None) /\ rd.labels # d.labels
  <2>1. LabelIssue(n, rd, d) = Issue("labels", NoFix)
    BY <1>2, Zenon DEF LabelIssue
  <2>2. j.problem = "labels" /\ j.fix = NoFix
    BY <2>1 DEF Issue
  <2>3. QED
    BY <2>2 DEF LabelSays
<1>3. CASE ~(rd.labels = None \/ d.labels = None) /\ ~(rd.labels # d.labels)
  <2>1. PICK fix : fix = By("shift", n, rd.start - d.start)
    OBVIOUS
  <2>2. LabelIssue(n, rd, d) = IF rd.start # d.start THEN Issue("label offset", fix) ELSE {}
    BY <1>3, <2>1, Zenon DEF LabelIssue
  <2>3. rd.start # d.start /\ j = [problem |-> "label offset", fix |-> fix]
    BY <2>2 DEF Issue
  <2>4. QED
    BY <2>1, <2>3 DEF LabelSays
<1>4. QED
  BY <1>1, <1>2, <1>3

\* What is wrong with two frames: their levels, their labels, a chart on one alone, or their charts.
LEMMA FrameIssueIs ==
  ASSUME NEW n, NEW rd, NEW d, NEW j \in FrameIssue(n, rd, d)
  PROVE  \/ /\ j.problem = "placement" /\ rd.level # d.level
            /\ j.fix = [op |-> "bind", dim |-> n, level |-> rd.level]
         \/ rd.level = d.level /\ j \in LabelIssue(n, rd, d)
         \/ j.problem = "charted" /\ j.fix = NoFix
         \/ SameKind(rd, d) /\ j \in ChartIssue(n, rd.chart, d.chart)
<1>1. CASE rd.level # d.level
  BY <1>1 DEF FrameIssue, Issue
<1>2. CASE rd.level = d.level /\ (rd.labels # None \/ d.labels # None)
  <2>1. FrameIssue(n, rd, d) = LabelIssue(n, rd, d)
    BY <1>2, Zenon DEF FrameIssue
  <2>2. QED
    BY <1>2, <2>1
<1>3. CASE /\ rd.level = d.level /\ ~(rd.labels # None \/ d.labels # None)
           /\ (rd.chart = None \/ d.chart = None)
  BY <1>3 DEF FrameIssue, Issue
<1>4. CASE SameKind(rd, d)
  <2>1. FrameIssue(n, rd, d) = ChartIssue(n, rd.chart, d.chart)
    BY <1>4, Zenon DEF FrameIssue, SameKind
  <2>2. QED
    BY <1>4, <2>1
<1>5. QED
  BY <1>1, <1>2, <1>3, <1>4 DEF SameKind

\* No issue of two frames is a missing dim, or one of domains.
LEMMA FrameProblem ==
  ASSUME NEW n, NEW rd, NEW d, NEW j \in FrameIssue(n, rd, d)
  PROVE  j.problem # "missing" /\ j.problem # "domain"
<1>1. CASE j \in LabelIssue(n, rd, d)
  <2>1. j.problem \in {"categorical", "labels", "label offset"}
    BY <1>1, LabelIssueIs DEF LabelSays
  <2>2. QED
    BY <2>1
<1>2. CASE j \in ChartIssue(n, rd.chart, d.chart)
  <2>1. j.problem \in {"reversed", "steps", "kind", "incommensurable", "offset"}
    BY <1>2, ChartIssueIs
  <2>2. QED
    BY <2>1
<1>3. CASE j.problem = "placement" \/ j.problem = "charted"
  BY <1>3
<1>4. QED
  BY <1>1, <1>2, <1>3, FrameIssueIs

\* A frame has no issue with itself.
LEMMA NoSelfIssue ==
  ASSUME NEW n, NEW d, IsChart(d.chart)
  PROVE  FrameIssue(n, d, d) = {}
<1>1. SUFFICES ASSUME NEW j \in FrameIssue(n, d, d) PROVE FALSE
  OBVIOUS
<1>2. CASE j \in LabelIssue(n, d, d)
  <2>1. d.labels # None
    <3>1. CASE d.labels = None
      <4>1. j \in ChartIssue(n, d.chart, d.chart) \/ d.labels # None
        BY <1>1, <1>2, <3>1 DEF FrameIssue, Issue, LabelIssue
      <4>2. QED
        BY <1>2, <4>1, <3>1, LabelIssueIs, ChartIssueIs DEF LabelSays
    <3>2. QED
      BY <3>1
  <2>2. QED
    BY <1>2, <2>1 DEF LabelIssue
<1>3. CASE SameKind(d, d) /\ j \in ChartIssue(n, d.chart, d.chart)
  <2>1. PICK c : c = d.chart
    OBVIOUS
  <2>2. PICK st, o : st = c.step /\ o = c.origin
    OBVIOUS
  <2>3. st \in Int /\ st # 0 /\ o \in Int
    BY <1>3, <2>1, <2>2 DEF SameKind, IsChart
  <2>4. st # -st /\ (o - o) % Abs(st) = 0
    <3>1. PICK k : k = Abs(st)
      OBVIOUS
    <3>2. k \in Nat \ {0}
      BY <2>3, <3>1 DEF Abs
    <3>3. (o - o) % k = 0
      BY <2>3, <3>2
    <3>4. QED
      BY <2>3, <3>1, <3>3
  <2>5. ChartIssue(n, c, c) = {}
    BY <2>2, <2>4, Zenon DEF ChartIssue
  <2>6. QED
    BY <1>3, <2>1, <2>5
<1>4. QED
  <2>1. ~(j.problem = "placement" /\ d.level # d.level)
    OBVIOUS
  <2>2. CASE j.problem = "charted"
    <3>1. j \notin LabelIssue(n, d, d) /\ j \notin ChartIssue(n, d.chart, d.chart)
      BY <2>2, LabelIssueIs, ChartIssueIs DEF LabelSays
    <3>2. FrameIssue(n, d, d) \in {LabelIssue(n, d, d), {}, ChartIssue(n, d.chart, d.chart)}
      BY Zenon DEF FrameIssue
    <3>3. QED
      BY <1>1, <3>1, <3>2
  <2>3. QED
    BY <1>1, <1>2, <1>3, <2>2, FrameIssueIs

\* What an issue that is still there says of the two frames.
Remains(rd, e, problem) ==
  /\ problem = "placement" => rd.level # e.level
  /\ problem = "label offset" => rd.start # e.start
  /\ problem = "reversed" => e.chart.step = -rd.chart.step
  /\ problem = "offset" => e.chart.origin # rd.chart.origin

\* A problem two frames have says how they differ.
LEMMA ProblemSays ==
  ASSUME NEW n, NEW rd, NEW e, NEW j \in FrameIssue(n, rd, e)
  PROVE  Remains(rd, e, j.problem)
<1>1. CASE j.problem = "placement" /\ rd.level # e.level
  BY <1>1 DEF Remains
<1>2. CASE j \in LabelIssue(n, rd, e)
  <2>1. LabelSays(n, rd, e, j)
    BY <1>2, LabelIssueIs
  <2>2. QED
    BY <2>1 DEF LabelSays, Remains
<1>3. CASE j.problem = "charted"
  BY <1>3 DEF Remains
<1>4. CASE SameKind(rd, e) /\ j \in ChartIssue(n, rd.chart, e.chart)
  <2>1. rd.chart # None
    BY <1>4 DEF SameKind
  <2>2. PICK a, b : a = rd.chart /\ b = e.chart
    OBVIOUS
  <2>3. /\ j.problem \in {"reversed", "steps", "kind", "incommensurable", "offset"}
        /\ j.problem = "reversed" => b.step = -a.step
        /\ j.problem = "offset" => b.origin # a.origin
    BY <1>4, <2>2, ChartIssueIs
  <2>4. QED
    BY <2>1, <2>2, <2>3 DEF Remains
<1>5. QED
  BY <1>1, <1>2, <1>3, <1>4, FrameIssueIs

\* The fixes there are.
OffBy(a, b) == ((b.origin - a.origin) * (IF a.step < 0 THEN -1 ELSE 1)) \div Abs(a.step)
BindFixes(n, rd, j) == j.problem = "placement" /\ j.fix = [op |-> "bind", dim |-> n, level |-> rd.level]
LabelFixes(n, rd, d, j) == j.problem = "label offset" /\ j.fix = By("shift", n, rd.start - d.start)
FlipFixes(n, rd, d, j) ==
  j.problem = "reversed" /\ j.fix = Bare("flip", n) /\ SameKind(rd, d) /\ d.chart.step = -rd.chart.step
OffsetFixes(n, rd, d, j) ==
  /\ j.problem = "offset" /\ j.fix = By("shift", n, OffBy(rd.chart, d.chart)) /\ SameKind(rd, d)
  /\ d.chart.step = rd.chart.step /\ (d.chart.origin - rd.chart.origin) % Abs(rd.chart.step) = 0

\* Only four problems of two frames have a fix.
LEMMA FixSays ==
  ASSUME NEW n, NEW rd, NEW d, NEW j \in FrameIssue(n, rd, d), j.fix # NoFix
  PROVE  BindFixes(n, rd, j) \/ LabelFixes(n, rd, d, j) \/ FlipFixes(n, rd, d, j) \/ OffsetFixes(n, rd, d, j)
<1>1. CASE j \in LabelIssue(n, rd, d)
  <2>1. LabelSays(n, rd, d, j)
    BY <1>1, LabelIssueIs
  <2>2. QED
    BY <2>1 DEF LabelSays, LabelFixes
<1>2. CASE SameKind(rd, d) /\ j \in ChartIssue(n, rd.chart, d.chart)
  <2>1. PICK a, b : a = rd.chart /\ b = d.chart
    OBVIOUS
  <2>2. /\ j.problem = "reversed" => b.step = -a.step /\ j.fix = Bare("flip", n)
        /\ j.problem = "offset" => /\ b.step = a.step /\ (b.origin - a.origin) % Abs(a.step) = 0
                                   /\ j.fix = By("shift", n, OffBy(a, b))
        /\ j.problem \notin {"reversed", "offset"} => j.fix = NoFix
    BY <1>2, <2>1, ChartIssueIs DEF OffBy
  <2>3. QED
    BY <1>2, <2>1, <2>2 DEF FlipFixes, OffsetFixes
<1>3. QED
  BY <1>1, <1>2, FrameIssueIs DEF BindFixes

\* A flip changes its dim alone, and turns the step of its chart.
LEMMA FlipHas ==
  ASSUME NEW l, IsLayout(l), NEW n, n \in Names(l), IsChart(l.dims[n].chart)
  PROVE  /\ ButOne(l, Flip(l, n), n)
         /\ l.dims[n].chart # None => Flip(l, n).dims[n].chart.step = -l.dims[n].chart.step
<1>1. PICK d : d = l.dims[n]
  OBVIOUS
<1>2. PICK pivot : pivot = d.start + d.stop - 1
  OBVIOUS
<1>3. PICK chart : chart = IF d.chart = None THEN None
                           ELSE [d.chart EXCEPT !.origin = @ + pivot * d.chart.step, !.step = -@]
  OBVIOUS
<1>4. PICK e, delta : e.chart = chart /\ Flip(l, n) = PutOne(l, n, n, e, delta)
  <2>1. PICK labels : labels = IF d.labels = None THEN None ELSE Reverse(d.labels)
    OBVIOUS
  <2>2. IsDim(d)
    BY <1>1 DEF IsLayout
  <2>3. PICK e : e = [d EXCEPT !.stride = -@, !.chart = chart, !.labels = labels]
    OBVIOUS
  <2>4. e.chart = chart
    BY <2>2, <2>3 DEF IsDim, Fields
  <2>5. Flip(l, n) = PutOne(l, n, n, e, d.stride * pivot)
    BY <1>1, <1>2, <1>3, <2>1, <2>3 DEF Flip
  <2>6. QED
    BY <2>4, <2>5
<1>5. ButOne(l, Flip(l, n), n) /\ Flip(l, n).dims[n].chart = chart
  BY <1>4, PutOneHas
<1>6. d.chart # None => chart.step = -d.chart.step
  BY <1>1, <1>3 DEF IsChart
<1>7. QED
  BY <1>1, <1>5, <1>6

\* A shift changes its dim alone, and moves its start and the origin of its chart.
LEMMA ShiftHas ==
  ASSUME NEW l, IsLayout(l), NEW n, n \in Names(l), IsChart(l.dims[n].chart), NEW s
  PROVE  /\ ButOne(l, Shift(l, n, s), n)
         /\ Shift(l, n, s).dims[n].start = l.dims[n].start + s
         /\ l.dims[n].chart # None =>
              Shift(l, n, s).dims[n].chart.origin = l.dims[n].chart.origin - s * l.dims[n].chart.step
<1>1. PICK d : d = l.dims[n]
  OBVIOUS
<1>2. PICK chart : chart = IF d.chart = None THEN None ELSE [d.chart EXCEPT !.origin = @ - s * d.chart.step]
  OBVIOUS
<1>3. PICK e, delta : e.chart = chart /\ e.start = d.start + s /\ Shift(l, n, s) = PutOne(l, n, n, e, delta)
  <2>1. IsDim(d)
    BY <1>1 DEF IsLayout
  <2>2. PICK e : e = [d EXCEPT !.start = @ + s, !.stop = @ + s, !.chart = chart]
    OBVIOUS
  <2>3. e.chart = chart /\ e.start = d.start + s
    BY <2>1, <2>2 DEF IsDim, Fields
  <2>4. Shift(l, n, s) = PutOne(l, n, n, e, -(d.stride * s))
    BY <1>1, <1>2, <2>2 DEF Shift
  <2>5. QED
    BY <2>3, <2>4
<1>4. ButOne(l, Shift(l, n, s), n) /\ Shift(l, n, s).dims[n].chart = chart /\ Shift(l, n, s).dims[n].start = d.start + s
  BY <1>3, PutOneHas
<1>5. d.chart # None => chart.origin = d.chart.origin - s * d.chart.step
  BY <1>1, <1>2 DEF IsChart
<1>6. QED
  BY <1>1, <1>4, <1>5

\* Binding changes the level of its dim alone.
LEMMA BindHas ==
  ASSUME NEW l, IsLayout(l), NEW n, n \in Names(l), NEW level
  PROVE  ButOne(l, Bind(l, n, level), n) /\ Bind(l, n, level).dims[n].level = level
<1>1. IsDim(l.dims[n])
  BY DEF IsLayout
<1>2. PICK e : e = [l.dims[n] EXCEPT !.level = level]
  OBVIOUS
<1>3. IsDim(e) /\ e.level = level
  BY <1>1, <1>2 DEF IsDim, Fields
<1>4. Bind(l, n, level) = SetDim(l, n, e)
  BY <1>2 DEF Bind
<1>5. QED
  BY <1>3, <1>4, SetDimIs DEF ButOne

\* A slice changes the bounds of its dim alone.
LEMMA SliceHas ==
  ASSUME NEW l, IsLayout(l), NEW n, n \in Names(l), NEW lo \in Int, NEW hi \in Int
  PROVE  ButOne(l, Slice(l, n, lo, hi), n) /\ Slice(l, n, lo, hi).dims[n].start = lo /\ Slice(l, n, lo, hi).dims[n].stop = hi
BY SliceStays DEF ButOne, SameMap

\* Repeating adds a dim and changes no other.
LEMMA RepeatHas ==
  ASSUME NEW l, NEW n, n \notin Names(l), NEW lo, NEW hi, NEW chart, NEW labels
  PROVE  ButOne(l, Repeat(l, n, lo, hi, chart, labels), n)
BY DEF ButOne, Repeat, Put, Override, Single, Drop, Names

\* The shift that an offset calls for makes it good.
LEMMA OffsetGone ==
  ASSUME NEW a, NEW b, NEW st \in Int, st # 0, NEW x \in Int, NEW y \in Int,
         a.step = st, b.step = st, a.origin = x, b.origin = y, (y - x) % Abs(st) = 0
  PROVE  y - OffBy(a, b) * st = x
<1>1. PICK k : k = Abs(st)
  OBVIOUS
<1>2. k \in Nat \ {0} /\ (st < 0 => st = -k) /\ (~(st < 0) => st = k)
  BY <1>1 DEF Abs
<1>3. PICK D : D = y - x
  OBVIOUS
<1>4. PICK q : q = D \div k
  OBVIOUS
<1>5. D \in Int /\ q \in Int /\ D = k * q
  <2>1. D \in Int /\ D % k = 0
    BY <1>1, <1>3
  <2>2. q \in Int
    BY <1>2, <1>4, <2>1, DivIs
  <2>3. D = k * (D \div k) + (D % k)
    BY <1>2, <2>1, ModIs
  <2>4. D = k * q + 0
    BY <1>4, <2>1, <2>3
  <2>5. k * q \in Int
    BY <1>2, <2>2
  <2>6. QED
    BY <2>1, <2>2, <2>4, <2>5
<1>6. CASE st < 0
  <2>1. OffBy(a, b) = (D * (-1)) \div k
    BY <1>1, <1>3, <1>6 DEF OffBy
  <2>2. PICK z : z = (D * (-1)) \div k
    OBVIOUS
  <2>3. z \in Int /\ k * z <= D * (-1) /\ D * (-1) < k * z + k
    <3>1. PICK d : d = D * (-1)
      OBVIOUS
    <3>2. d \in Int
      BY <1>5, <3>1
    <3>3. z \in Int /\ k * z <= d /\ d < k * z + k
      BY <1>2, <2>2, <3>1, <3>2, DivIs
    <3>4. QED
      BY <3>1, <3>3
  <2>4. PICK g : g = z + q
    OBVIOUS
  <2>5. g \in Int /\ k * z + k * q = k * g
    BY <1>2, <1>5, <2>3, <2>4
  <2>6. k * g <= 0 /\ 0 < k * g + k
    BY <1>2, <1>5, <2>3, <2>5
  <2>7. g = 0
    BY <1>2, <2>5, <2>6
  <2>8. z = -q
    BY <1>5, <2>3, <2>4, <2>7
  <2>9. z * st = k * q
    BY <1>2, <1>5, <1>6, <2>8
  <2>10. QED
    BY <1>3, <1>5, <2>1, <2>2, <2>9
<1>7. CASE ~(st < 0)
  <2>1. OffBy(a, b) = (D * 1) \div k
    BY <1>1, <1>3, <1>7 DEF OffBy
  <2>2. D * 1 = D
    BY <1>5
  <2>3. OffBy(a, b) = q
    BY <1>4, <2>1, <2>2
  <2>4. q * st = k * q
    BY <1>2, <1>5, <1>7
  <2>5. QED
    BY <1>3, <1>5, <2>3, <2>4
<1>8. QED
  BY <1>6, <1>7

\* What applying a fix does.
LEMMA AppliedIs ==
  ASSUME NEW l, NEW fix
  PROVE  /\ fix.op = "flip" => Applied(l, fix) = Flip(l, fix.dim)
         /\ fix.op = "shift" => Applied(l, fix) = Shift(l, fix.dim, fix.by)
         /\ fix.op = "slice" => Applied(l, fix) = Slice(l, fix.dim, fix.lo, fix.hi)
         /\ fix.op = "repeat" => Applied(l, fix) = Repeat(l, fix.dim, fix.lo, fix.hi, fix.chart, fix.labels)
         /\ fix.op = "bind" => Applied(l, fix) = Bind(l, fix.dim, fix.level)
BY DEF Applied

\* Applying the fix of two frames that disagree, on the layout of the second: it changes
\* that dim alone, and the issue is gone.
LEMMA FrameFixed ==
  ASSUME NEW l, IsLayout(l), NEW n, n \in Names(l), NEW rd, IsDim(rd), IsChart(rd.chart), IsChart(l.dims[n].chart),
         NEW j \in FrameIssue(n, rd, l.dims[n]), j.fix # NoFix
  PROVE  /\ ButOne(l, Applied(l, j.fix), n)
         /\ \A i \in FrameIssue(n, rd, Applied(l, j.fix).dims[n]) : i.problem # j.problem
<1>1. PICK d, r : d = l.dims[n] /\ r = Applied(l, j.fix)
  OBVIOUS
<1>0. SUFFICES ButOne(l, r, n) /\ \A i \in FrameIssue(n, rd, r.dims[n]) : i.problem # j.problem
  BY <1>1
<1>2. IsDim(d) /\ IsChart(d.chart) /\ rd.start \in Int /\ d.start \in Int
  BY <1>1 DEF IsLayout, IsDim
<1>3. CASE BindFixes(n, rd, j)
  <2>0. j.problem = "placement" /\ j.fix = [op |-> "bind", dim |-> n, level |-> rd.level]
    BY <1>3 DEF BindFixes
  <2>1. r = Bind(l, n, rd.level)
    BY <1>1, <2>0 DEF Applied
  <2>2. ButOne(l, r, n) /\ r.dims[n].level = rd.level
    BY <2>1, BindHas
  <2>3. \A i \in FrameIssue(n, rd, r.dims[n]) : i.problem # "placement"
    <3>1. \A i \in FrameIssue(n, rd, r.dims[n]) : Remains(rd, r.dims[n], i.problem)
      BY ProblemSays
    <3>2. ~Remains(rd, r.dims[n], "placement")
      BY <2>2 DEF Remains
    <3>3. QED
      BY <3>1, <3>2
  <2>4. QED
    BY <2>0, <2>2, <2>3
<1>4. CASE LabelFixes(n, rd, d, j)
  <2>0. j.problem = "label offset" /\ j.fix = By("shift", n, rd.start - d.start)
    BY <1>4 DEF LabelFixes
  <2>1. PICK s : s = rd.start - d.start
    OBVIOUS
  <2>2. r = Shift(l, n, s)
    <3>1. PICK fix : fix = j.fix
      OBVIOUS
    <3>2. fix = By("shift", n, s)
      BY <2>0, <2>1, <3>1
    <3>3. fix.op = "shift" /\ fix.dim = n /\ fix.by = s
      BY <3>2 DEF By
    <3>4. QED
      BY <1>1, <3>1, <3>3, AppliedIs
  <2>3. ButOne(l, r, n) /\ r.dims[n].start = d.start + s
    BY <1>1, <1>2, <2>2, ShiftHas
  <2>4. r.dims[n].start = rd.start
    BY <1>2, <2>1, <2>3
  <2>5. \A i \in FrameIssue(n, rd, r.dims[n]) : i.problem # "label offset"
    <3>1. \A i \in FrameIssue(n, rd, r.dims[n]) : Remains(rd, r.dims[n], i.problem)
      BY ProblemSays
    <3>2. ~Remains(rd, r.dims[n], "label offset")
      BY <2>4 DEF Remains
    <3>3. QED
      BY <3>1, <3>2
  <2>6. QED
    BY <2>0, <2>3, <2>5
<1>5. CASE FlipFixes(n, rd, d, j)
  <2>0. j.problem = "reversed" /\ j.fix = Bare("flip", n) /\ SameKind(rd, d) /\ d.chart.step = -rd.chart.step
    BY <1>5 DEF FlipFixes
  <2>1. r = Flip(l, n)
    BY <1>1, <2>0 DEF Applied, Bare
  <2>2. ButOne(l, r, n) /\ r.dims[n].chart.step = -d.chart.step
    BY <1>1, <1>2, <2>0, <2>1, FlipHas DEF SameKind
  <2>3. PICK st : st = rd.chart.step
    OBVIOUS
  <2>4. st \in Int /\ st # 0
    BY <2>0, <2>3, ChartHas DEF SameKind
  <2>5. r.dims[n].chart.step = st
    BY <2>0, <2>2, <2>3, <2>4
  <2>6. r.dims[n].chart.step # -rd.chart.step
    BY <2>3, <2>4, <2>5
  <2>7. \A i \in FrameIssue(n, rd, r.dims[n]) : i.problem # "reversed"
    <3>1. \A i \in FrameIssue(n, rd, r.dims[n]) : Remains(rd, r.dims[n], i.problem)
      BY ProblemSays
    <3>2. ~Remains(rd, r.dims[n], "reversed")
      BY <2>6 DEF Remains
    <3>3. QED
      BY <3>1, <3>2
  <2>8. QED
    BY <2>0, <2>2, <2>7
<1>6. CASE OffsetFixes(n, rd, d, j)
  <2>0. /\ j.problem = "offset" /\ j.fix = By("shift", n, OffBy(rd.chart, d.chart)) /\ SameKind(rd, d)
        /\ d.chart.step = rd.chart.step /\ (d.chart.origin - rd.chart.origin) % Abs(rd.chart.step) = 0
    BY <1>6 DEF OffsetFixes
  <2>1. PICK a, b, s : a = rd.chart /\ b = d.chart /\ s = OffBy(a, b)
    OBVIOUS
  <2>2. r = Shift(l, n, s)
    <3>1. PICK fix : fix = j.fix
      OBVIOUS
    <3>2. fix = By("shift", n, s)
      BY <2>0, <2>1, <3>1
    <3>3. fix.op = "shift" /\ fix.dim = n /\ fix.by = s
      BY <3>2 DEF By
    <3>4. QED
      BY <1>1, <3>1, <3>3, AppliedIs
  <2>3. ButOne(l, r, n) /\ r.dims[n].chart.origin = b.origin - s * b.step
    BY <1>1, <1>2, <2>0, <2>1, <2>2, ShiftHas DEF SameKind
  <2>4. a.step \in Int /\ a.step # 0 /\ a.origin \in Int /\ b.origin \in Int
    BY <1>2, <2>0, <2>1, ChartHas DEF SameKind
  <2>5. PICK st, x, y : st = a.step /\ x = a.origin /\ y = b.origin
    OBVIOUS
  <2>6. y - OffBy(a, b) * st = x
    <3>1. b.step = st /\ (y - x) % Abs(st) = 0
      BY <2>0, <2>1, <2>5
    <3>2. QED
      BY <2>4, <2>5, <3>1, OffsetGone
  <2>7. r.dims[n].chart.origin = rd.chart.origin
    <3>1. b.step = st
      BY <2>0, <2>1, <2>5
    <3>2. QED
      BY <2>1, <2>3, <2>5, <2>6, <3>1
  <2>8. \A i \in FrameIssue(n, rd, r.dims[n]) : i.problem # "offset"
    <3>1. \A i \in FrameIssue(n, rd, r.dims[n]) : Remains(rd, r.dims[n], i.problem)
      BY ProblemSays
    <3>2. ~Remains(rd, r.dims[n], "offset")
      BY <2>7 DEF Remains
    <3>3. QED
      BY <3>1, <3>2
  <2>9. QED
    BY <2>0, <2>3, <2>8
<1>7. QED
  BY <1>1, <1>3, <1>4, <1>5, <1>6, FixSays

\* The first of two operands that has the name refers.
LEMMA ReferenceIs ==
  ASSUME NEW ls, Two(ls), NEW n
  PROVE  /\ n \in Names(ls[1]) => Reference(ls, n) = ls[1].dims[n]
         /\ n \notin Names(ls[1]) /\ n \in Names(ls[2]) => Reference(ls, n) = ls[2].dims[n]
<1>1. PICK K : K = {k \in DOMAIN ls : n \in Names(ls[k])}
  OBVIOUS
<1>2. CASE n \in Names(ls[1])
  <2>1. 1 \in K /\ \A k \in K : k = 1 \/ k = 2
    BY <1>1, <1>2 DEF Two
  <2>2. Min(K) = 1
    <3>1. \E x \in K : \A y \in K : x =< y
      BY <2>1
    <3>2. Min(K) \in K /\ \A y \in K : Min(K) =< y
      BY <3>1 DEF Min
    <3>3. QED
      BY <2>1, <3>2
  <2>3. QED
    BY <1>1, <1>2, <2>2 DEF Reference
<1>3. CASE n \notin Names(ls[1]) /\ n \in Names(ls[2])
  <2>1. 2 \in K /\ \A k \in K : k = 2
    BY <1>1, <1>3 DEF Two
  <2>2. Min(K) = 2
    <3>1. \E x \in K : \A y \in K : x =< y
      BY <2>1
    <3>2. Min(K) \in K
      BY <3>1 DEF Min
    <3>3. QED
      BY <2>1, <3>2
  <2>3. QED
    BY <1>1, <1>3, <2>2 DEF Reference
<1>4. QED
  BY <1>2, <1>3

\* Where there is no issue of frames, both operands have the name.
LEMMA BothNamed ==
  ASSUME NEW ls, Two(ls), NEW n, FrameIssues(ls, n) = {}
  PROVE  \A k \in DOMAIN ls : n \in Names(ls[k])
<1>1. SUFFICES ASSUME NEW k \in DOMAIN ls, n \notin Names(ls[k]) PROVE FALSE
  OBVIOUS
<1>2. \E j : j \in Found(ls, k, n)
  BY <1>1 DEF Found, Issue
<1>3. PICK j : j \in Found(ls, k, n)
  BY <1>2
<1>4. Tagged(k, n, j) \in FrameIssues(ls, n)
  BY <1>1, <1>3, FrameIssuesAre
<1>5. QED
  BY <1>4

\* The issues of a name are of what the operands have of that name.
SameHere(ls, ms, n) ==
  \A k \in {1, 2} : /\ n \in Names(ls[k]) <=> n \in Names(ms[k])
                    /\ n \in Names(ls[k]) => ls[k].dims[n] = ms[k].dims[n]

\* Operands that have the same of a name have the same issues on it.
LEMMA SameIssues ==
  ASSUME NEW ls, Two(ls), NEW ms, Two(ms), NEW n, n \in Named(ls), SameHere(ls, ms, n)
  PROVE  NameIssues(ls, n) = NameIssues(ms, n)
<1>1. DOMAIN ls = DOMAIN ms /\ \A k \in DOMAIN ls : k = 1 \/ k = 2
  BY DEF Two
<1>2. \A k \in DOMAIN ls : /\ n \in Names(ls[k]) <=> n \in Names(ms[k])
                           /\ n \in Names(ls[k]) => ls[k].dims[n] = ms[k].dims[n]
  BY <1>1 DEF SameHere
<1>3. 1 \in DOMAIN ls /\ 2 \in DOMAIN ls
  BY DEF Two
<1>4. n \in Names(ls[1]) \/ n \in Names(ls[2])
  BY <1>1 DEF Named
<1>5. Reference(ls, n) = Reference(ms, n)
  <2>1. CASE n \in Names(ls[1])
    BY <1>2, <1>3, <2>1, ReferenceIs
  <2>2. CASE n \notin Names(ls[1])
    BY <1>2, <1>3, <1>4, <2>2, ReferenceIs
  <2>3. QED
    BY <2>1, <2>2
<1>6. \A k \in DOMAIN ls : Found(ls, k, n) = Found(ms, k, n)
  BY <1>2, <1>5 DEF Found
<1>7. FrameIssues(ls, n) = FrameIssues(ms, n)
  <2>1. \A i : i \in FrameIssues(ls, n) <=> i \in FrameIssues(ms, n)
    BY <1>1, <1>6, FrameIssuesAre
  <2>2. QED
    BY <2>1
<1>8. CASE FrameIssues(ls, n) = {}
  <2>1. \A k \in DOMAIN ls : ls[k].dims[n] = ms[k].dims[n]
    BY <1>2, <1>8, BothNamed
  <2>2. Lowest(ls, n) = Lowest(ms, n) /\ Highest(ls, n) = Highest(ms, n)
    <3>1. {ls[k].dims[n].start : k \in DOMAIN ls} = {ms[k].dims[n].start : k \in DOMAIN ms}
      BY <1>1, <2>1
    <3>2. {ls[k].dims[n].stop : k \in DOMAIN ls} = {ms[k].dims[n].stop : k \in DOMAIN ms}
      BY <1>1, <2>1
    <3>3. QED
      BY <3>1, <3>2 DEF Lowest, Highest
  <2>3. \A i : i \in DomainIssues(ls, n) <=> i \in DomainIssues(ms, n)
    BY <1>1, <2>1, <2>2, DomainIssuesAre
  <2>4. DomainIssues(ls, n) = DomainIssues(ms, n)
    BY <2>3
  <2>5. QED
    BY <1>7, <2>4 DEF NameIssues
<1>9. CASE FrameIssues(ls, n) # {}
  BY <1>7, <1>9 DEF NameIssues
<1>10. QED
  BY <1>8, <1>9

\* The interval of two operands.
LEMMA IntervalIs ==
  ASSUME NEW ls, Two(ls), NEW n, NEW k \in {1, 2}, NEW h \in {1, 2}, h # k, IsDim(ls[1].dims[n]), IsDim(ls[2].dims[n])
  PROVE  /\ Lowest(ls, n) = Most(ls[k].dims[n].start, ls[h].dims[n].start)
         /\ Highest(ls, n) = Most(Lowest(ls, n), Least(ls[k].dims[n].stop, ls[h].dims[n].stop))
         /\ Lowest(ls, n) \in Int /\ Highest(ls, n) \in Int
<1>1. PICK a, b, c, d : a = ls[k].dims[n].start /\ b = ls[h].dims[n].start /\ c = ls[k].dims[n].stop /\ d = ls[h].dims[n].stop
  OBVIOUS
<1>2. a \in Int /\ b \in Int /\ c \in Int /\ d \in Int
  BY <1>1 DEF IsDim
<1>3. \A i : i \in DOMAIN ls <=> i = k \/ i = h
  BY DEF Two
<1>4. {ls[i].dims[n].start : i \in DOMAIN ls} = {a, b}
  BY <1>1, <1>3
<1>5. {ls[i].dims[n].stop : i \in DOMAIN ls} = {c, d}
  BY <1>1, <1>3
<1>6. Max({a, b}) = Most(a, b)
  <2>1. \E x \in {a, b} : \A y \in {a, b} : x >= y
    BY <1>2
  <2>2. Max({a, b}) \in {a, b} /\ \A y \in {a, b} : Max({a, b}) >= y
    BY <2>1 DEF Max
  <2>3. QED
    BY <1>2, <2>2 DEF Most
<1>7. Min({c, d}) = Least(c, d)
  <2>1. \E x \in {c, d} : \A y \in {c, d} : x =< y
    BY <1>2
  <2>2. Min({c, d}) \in {c, d} /\ \A y \in {c, d} : Min({c, d}) =< y
    BY <2>1 DEF Min
  <2>3. QED
    BY <1>2, <2>2 DEF Least
<1>8. Lowest(ls, n) = Most(a, b) /\ Highest(ls, n) = Most(Lowest(ls, n), Least(c, d))
  BY <1>4, <1>5, <1>6, <1>7 DEF Lowest, Highest
<1>9. Lowest(ls, n) \in Int /\ Highest(ls, n) \in Int
  BY <1>2, <1>8 DEF Most, Least
<1>10. QED
  BY <1>1, <1>8, <1>9

\* What is found of an operand is never of domains, and missing only if it is.
LEMMA FoundProblem ==
  ASSUME NEW ls, NEW k, NEW n, NEW x \in Found(ls, k, n)
  PROVE  x.problem # "domain" /\ (n \in Names(ls[k]) => x.problem # "missing")
<1>1. CASE n \in Names(ls[k])
  BY <1>1, FrameProblem DEF Found
<1>2. CASE n \notin Names(ls[k])
  <2>1. PICK fix : Found(ls, k, n) = Issue("missing", fix)
    BY <1>2 DEF Found
  <2>2. x.problem = "missing"
    BY <2>1 DEF Issue
  <2>3. QED
    BY <1>2, <2>2
<1>3. QED
  BY <1>1, <1>2

\* An issue of a name on an operand is found of it, or is one of domains.
LEMMA IssueOf ==
  ASSUME NEW ls, NEW n, NEW i \in NameIssues(ls, n)
  PROVE  \/ \E x \in Found(ls, i.operand, n) : x.problem = i.problem /\ x.fix = i.fix
         \/ /\ i.problem = "domain" /\ FrameIssues(ls, n) = {}
            /\ i.fix = [op |-> "slice", dim |-> n, lo |-> Lowest(ls, n), hi |-> Highest(ls, n)]
            /\ <<ls[i.operand].dims[n].start, ls[i.operand].dims[n].stop>> # <<Lowest(ls, n), Highest(ls, n)>>
<1>1. CASE i \in FrameIssues(ls, n)
  <2>1. PICK k, x : k \in DOMAIN ls /\ x \in Found(ls, k, n) /\ i = Tagged(k, n, x)
    BY <1>1, FrameIssuesAre
  <2>2. i.operand = k /\ i.problem = x.problem /\ i.fix = x.fix
    BY <2>1 DEF Tagged
  <2>3. QED
    BY <2>1, <2>2
<1>2. CASE FrameIssues(ls, n) = {} /\ i \in DomainIssues(ls, n)
  BY <1>2, DomainIssuesAre
<1>3. QED
  BY <1>1, <1>2 DEF NameIssues

\* ms is ls but for operand k, to which the fix of an issue is applied.
IsFixed(ls, ms, n, i, k, h) ==
  /\ Two(ls) /\ Two(ms) /\ k \in {1, 2} /\ h \in {1, 2} /\ h # k
  /\ \A j \in {1, 2} : IsLayout(ls[j]) /\ IsCharted(ls[j])
  /\ i \in NameIssues(ls, n) /\ i.operand = k /\ i.fix # NoFix
  /\ ms[k] = Applied(ls[k], i.fix) /\ ms[h] = ls[h]
NoneLeft(ms, n, i, k) == \A j \in NameIssues(ms, n) : ~(j.operand = k /\ j.problem = i.problem)

\* Repeating an operand along a dim it misses: it misses it no more.
LEMMA MissingFixed ==
  ASSUME NEW ls, NEW ms, NEW n, NEW i, NEW k, NEW h, IsFixed(ls, ms, n, i, k, h),
         NEW x \in Found(ls, k, n), x.problem = i.problem, x.fix = i.fix, n \notin Names(ls[k])
  PROVE  ButOne(ls[k], ms[k], n) /\ NoneLeft(ms, n, i, k)
<1>1. PICK rd, fix : /\ rd = Reference(ls, n)
                     /\ fix = [op |-> "repeat", dim |-> n, lo |-> rd.start, hi |-> rd.stop, chart |-> rd.chart, labels |-> rd.labels]
  OBVIOUS
<1>2. Found(ls, k, n) = Issue("missing", fix)
  BY <1>1 DEF Found
<1>3. x.problem = "missing" /\ x.fix = fix
  BY <1>2 DEF Issue
<1>4. ms[k] = Repeat(ls[k], n, rd.start, rd.stop, rd.chart, rd.labels)
  <2>1. fix.op = "repeat" /\ fix.dim = n /\ fix.lo = rd.start /\ fix.hi = rd.stop /\ fix.chart = rd.chart /\ fix.labels = rd.labels
    BY <1>1
  <2>2. QED
    BY <1>3, <2>1, AppliedIs DEF IsFixed
<1>5. ButOne(ls[k], ms[k], n)
  BY <1>4, RepeatHas
<1>6. n \in Names(ms[k])
  BY <1>5 DEF ButOne
<1>7. ASSUME NEW j \in NameIssues(ms, n), j.operand = k PROVE j.problem # "missing"
  <2>1. CASE \E y \in Found(ms, k, n) : y.problem = j.problem
    BY <1>6, <2>1, FoundProblem
  <2>2. CASE j.problem = "domain"
    BY <2>2
  <2>3. QED
    BY <1>7, <2>1, <2>2, IssueOf
<1>8. QED
  BY <1>3, <1>5, <1>7 DEF NoneLeft

\* Applying to the second operand the fix of a frame that disagrees with the first.
LEMMA FrameIssueFixed ==
  ASSUME NEW ls, NEW ms, NEW n, NEW i, NEW k, NEW h, IsFixed(ls, ms, n, i, k, h),
         NEW x \in Found(ls, k, n), x.problem = i.problem, x.fix = i.fix, n \in Names(ls[k])
  PROVE  ButOne(ls[k], ms[k], n) /\ NoneLeft(ms, n, i, k)
<1>1. /\ Two(ls) /\ Two(ms) /\ k \in {1, 2} /\ h \in {1, 2} /\ h # k /\ i.fix # NoFix
      /\ ms[k] = Applied(ls[k], i.fix) /\ ms[h] = ls[h] /\ IsLayout(ls[1]) /\ IsLayout(ls[2])
      /\ IsCharted(ls[1]) /\ IsCharted(ls[2])
  BY DEF IsFixed
<1>2. x \in FrameIssue(n, Reference(ls, n), ls[k].dims[n])
  BY DEF Found
<1>3. IsChart(ls[k].dims[n].chart)
  BY <1>1 DEF IsCharted
<1>4. Reference(ls, n) # ls[k].dims[n]
  BY <1>2, <1>3, NoSelfIssue
<1>5. k = 2 /\ h = 1 /\ n \in Names(ls[1])
  BY <1>1, <1>4, ReferenceIs
<1>6. PICK rd, l, r : rd = ls[1].dims[n] /\ l = ls[2] /\ r = ms[2]
  OBVIOUS
<1>7. Reference(ls, n) = rd /\ Reference(ms, n) = rd
  BY <1>1, <1>5, <1>6, ReferenceIs
<1>8. IsLayout(l) /\ n \in Names(l) /\ IsDim(rd) /\ IsChart(rd.chart) /\ IsChart(l.dims[n].chart)
  BY <1>1, <1>3, <1>5, <1>6 DEF IsLayout, IsCharted
<1>9. x \in FrameIssue(n, rd, l.dims[n]) /\ x.fix # NoFix /\ r = Applied(l, x.fix)
  BY <1>1, <1>2, <1>5, <1>6, <1>7
<1>10. ButOne(l, r, n) /\ \A y \in FrameIssue(n, rd, r.dims[n]) : y.problem # x.problem
  BY <1>8, <1>9, FrameFixed
<1>11. n \in Names(ms[2])
  BY <1>6, <1>10 DEF ButOne
<1>12. Found(ms, 2, n) = FrameIssue(n, rd, r.dims[n])
  BY <1>6, <1>7, <1>11 DEF Found
<1>13. x.problem # "domain"
  BY FoundProblem
<1>14. ASSUME NEW j \in NameIssues(ms, n), j.operand = k PROVE j.problem # i.problem
  <2>1. CASE \E y \in Found(ms, k, n) : y.problem = j.problem
    BY <1>5, <1>10, <1>12, <2>1
  <2>2. CASE j.problem = "domain"
    BY <1>13, <2>2
  <2>3. QED
    BY <1>14, <2>1, <2>2, IssueOf
<1>15. QED
  BY <1>5, <1>6, <1>10, <1>14 DEF NoneLeft

\* Slicing an operand to the interval of both: that is its interval, and it stays that of both.
LEMMA DomainFixed ==
  ASSUME NEW ls, NEW ms, NEW n, NEW i, NEW k, NEW h, IsFixed(ls, ms, n, i, k, h), FrameIssues(ls, n) = {},
         i.problem = "domain", i.fix = [op |-> "slice", dim |-> n, lo |-> Lowest(ls, n), hi |-> Highest(ls, n)]
  PROVE  ButOne(ls[k], ms[k], n) /\ NoneLeft(ms, n, i, k)
<1>1. /\ Two(ls) /\ Two(ms) /\ k \in {1, 2} /\ h \in {1, 2} /\ h # k
      /\ ms[k] = Applied(ls[k], i.fix) /\ ms[h] = ls[h] /\ IsLayout(ls[k]) /\ IsLayout(ls[h])
  BY DEF IsFixed
<1>2. n \in Names(ls[k]) /\ n \in Names(ls[h])
  BY <1>1, BothNamed DEF Two
<1>3. IsDim(ls[k].dims[n]) /\ IsDim(ls[h].dims[n])
  BY <1>1, <1>2 DEF IsLayout
<1>4. PICK lo, hi, s, t, p, q :
        /\ lo = Lowest(ls, n) /\ hi = Highest(ls, n) /\ s = ls[k].dims[n].start /\ t = ls[h].dims[n].start
        /\ p = ls[k].dims[n].stop /\ q = ls[h].dims[n].stop
  OBVIOUS
<1>5. IsDim(ls[1].dims[n]) /\ IsDim(ls[2].dims[n])
  BY <1>1, <1>3
<1>6. lo = Most(s, t) /\ hi = Most(lo, Least(p, q)) /\ lo \in Int /\ hi \in Int
  BY <1>1, <1>4, <1>5, IntervalIs
<1>7. s \in Int /\ t \in Int /\ p \in Int /\ q \in Int
  BY <1>3, <1>4 DEF IsDim
<1>8. ms[k] = Slice(ls[k], n, lo, hi)
  <2>1. PICK fix : fix = i.fix
    OBVIOUS
  <2>2. fix.op = "slice" /\ fix.dim = n /\ fix.lo = lo /\ fix.hi = hi
    BY <1>4, <2>1
  <2>3. QED
    BY <1>1, <2>1, <2>2, AppliedIs
<1>9. ButOne(ls[k], ms[k], n) /\ ms[k].dims[n].start = lo /\ ms[k].dims[n].stop = hi
  BY <1>1, <1>2, <1>6, <1>8, SliceHas
<1>10. IsDim(ms[k].dims[n])
  <2>1. SameMap(ms[k], ls[k])
    BY <1>1, <1>2, <1>6, <1>8, SliceStays
  <2>2. IsLayout(ms[k])
    BY <1>1, <2>1, SameMapStays
  <2>3. QED
    BY <1>9, <2>2 DEF ButOne, IsLayout
<1>11. IsDim(ms[1].dims[n]) /\ IsDim(ms[2].dims[n])
  BY <1>1, <1>3, <1>10
<1>12. Lowest(ms, n) = Most(lo, t) /\ Highest(ms, n) = Most(Lowest(ms, n), Least(hi, q))
  BY <1>1, <1>4, <1>9, <1>11, IntervalIs
<1>13. Lowest(ms, n) = lo
  BY <1>6, <1>7, <1>12 DEF Most
<1>14. Highest(ms, n) = hi
  BY <1>6, <1>7, <1>12, <1>13 DEF Most, Least
<1>15. ASSUME NEW j \in NameIssues(ms, n), j.operand = k PROVE j.problem # "domain"
  <2>1. CASE \E y \in Found(ms, k, n) : y.problem = j.problem
    BY <2>1, FoundProblem
  <2>2. CASE <<ms[k].dims[n].start, ms[k].dims[n].stop>> # <<Lowest(ms, n), Highest(ms, n)>>
    BY <1>9, <1>13, <1>14, <2>2
  <2>3. QED
    BY <1>15, <2>1, <2>2, IssueOf
<1>16. QED
  BY <1>9, <1>15 DEF NoneLeft

\* The fix of an issue changes the operand on its dim alone, and no such issue of the operand
\* is left on that dim.
LEMMA NameFixed ==
  ASSUME NEW ls, NEW ms, NEW n, NEW i, NEW k, NEW h, IsFixed(ls, ms, n, i, k, h)
  PROVE  ButOne(ls[k], ms[k], n) /\ NoneLeft(ms, n, i, k)
<1>1. i \in NameIssues(ls, n) /\ i.operand = k
  BY DEF IsFixed
<1>2. CASE \E x \in Found(ls, k, n) : x.problem = i.problem /\ x.fix = i.fix
  BY <1>2, MissingFixed, FrameIssueFixed
<1>3. CASE /\ i.problem = "domain" /\ FrameIssues(ls, n) = {}
           /\ i.fix = [op |-> "slice", dim |-> n, lo |-> Lowest(ls, n), hi |-> Highest(ls, n)]
  BY <1>3, DomainFixed
<1>4. QED
  BY <1>1, <1>2, <1>3, IssueOf

\* Only issues of that dim may come up.
AsBefore(ls, ms, n) == \A m \in Named(ms) : m # n => m \in Named(ls) /\ NameIssues(ms, m) = NameIssues(ls, m)

\* The issues of the other names stay.
LEMMA OthersAsBefore ==
  ASSUME NEW ls, NEW ms, NEW n, NEW i, NEW k, NEW h, IsFixed(ls, ms, n, i, k, h), ButOne(ls[k], ms[k], n)
  PROVE  AsBefore(ls, ms, n)
<1> SUFFICES ASSUME NEW m, m \in Named(ms), m # n
             PROVE  m \in Named(ls) /\ NameIssues(ms, m) = NameIssues(ls, m)
  BY DEF AsBefore
<1>1. Two(ls) /\ Two(ms) /\ k \in {1, 2} /\ h \in {1, 2} /\ h # k /\ ms[h] = ls[h]
  BY DEF IsFixed
<1>2. \A j : j \in {1, 2} <=> j = k \/ j = h
  BY <1>1
<1>3. SameHere(ls, ms, m)
  BY <1>1, <1>2 DEF SameHere, ButOne
<1>4. m \in Named(ls)
  BY <1>1, <1>3 DEF Named, SameHere, Two
<1>5. QED
  BY <1>1, <1>3, <1>4, SameIssues

\* The issue i of ls is gone from ms, and nothing else came but on its dim.
Mended(ls, i, ms) ==
  /\ [operand |-> i.operand, dim |-> i.dim, problem |-> i.problem] \notin Rest(Alignment(ms))
  /\ \A j \in Rest(Alignment(ms)) \ Rest(Alignment(ls)) : j.dim = i.dim

\* A fix is a fix.
LEMMA AlignmentFixed ==
  ASSUME NEW a, IsLayout(a), IsCharted(a), NEW b, IsLayout(b), IsCharted(b), NEW ls, ls = <<a, b>>,
         NEW i \in Alignment(ls), Applies(ls[i.operand], i.fix),
         NEW ms, ms = [ls EXCEPT ![i.operand] = Applied(@, i.fix)]
  PROVE  Mended(ls, i, ms)
<1>1. Two(ls) /\ DOMAIN ls = 1 .. 2 /\ ls[1] = a /\ ls[2] = b
  BY DEF Two
<1>2. PICK n \in Named(ls) : i \in NameIssues(ls, n)
  BY AlignmentIs
<1>3. i.dim = n /\ i.operand \in DOMAIN ls
  BY <1>2, IssueOn
<1>4. PICK k, h : k = i.operand /\ k \in {1, 2} /\ h \in {1, 2} /\ h # k
  BY <1>1, <1>3 DEF Two
<1>5. DOMAIN ms = DOMAIN ls /\ ms[k] = Applied(ls[k], i.fix) /\ ms[h] = ls[h]
  BY <1>1, <1>3, <1>4
<1>6. IsFixed(ls, ms, n, i, k, h)
  <2>1. Two(ms)
    BY <1>1, <1>5 DEF Two
  <2>2. \A j \in {1, 2} : IsLayout(ls[j]) /\ IsCharted(ls[j])
    BY <1>1
  <2>3. i.fix # NoFix
    BY DEF Applies
  <2>4. QED
    BY <1>1, <1>2, <1>4, <1>5, <2>1, <2>2, <2>3 DEF IsFixed
<1>7. ButOne(ls[k], ms[k], n) /\ NoneLeft(ms, n, i, k)
  BY <1>6, NameFixed
<1>8. ASSUME NEW j \in Alignment(ms), j.operand = i.operand, j.dim = i.dim, j.problem = i.problem PROVE FALSE
  <2>1. PICK m \in Named(ms) : j \in NameIssues(ms, m)
    BY <1>8, AlignmentIs
  <2>2. m = n
    BY <1>3, <1>8, <2>1, IssueOn
  <2>3. QED
    BY <1>4, <1>7, <1>8, <2>1, <2>2 DEF NoneLeft
<1>9. ASSUME NEW j \in Alignment(ms), j.dim # i.dim PROVE j \in Alignment(ls)
  <2>1. PICK m \in Named(ms) : j \in NameIssues(ms, m)
    BY <1>9, AlignmentIs
  <2>2. m # n
    BY <1>3, <1>9, <2>1, IssueOn
  <2>3. m \in Named(ls) /\ NameIssues(ms, m) = NameIssues(ls, m)
    <3>1. ButOne(ls[k], ms[k], n)
      BY <1>7
    <3>2. AsBefore(ls, ms, n)
      BY <1>6, <3>1, OthersAsBefore
    <3>3. QED
      BY <2>1, <2>2, <3>2 DEF AsBefore
  <2>4. QED
    BY <2>1, <2>3, AlignmentIs
<1>10. [operand |-> i.operand, dim |-> i.dim, problem |-> i.problem] \notin Rest(Alignment(ms))
  <2>1. ASSUME NEW x \in Rest(Alignment(ms)), x = [operand |-> i.operand, dim |-> i.dim, problem |-> i.problem]
        PROVE  FALSE
    <3>1. PICK j \in Alignment(ms) : x = [operand |-> j.operand, dim |-> j.dim, problem |-> j.problem]
      BY <2>1 DEF Rest
    <3>2. j.operand = i.operand /\ j.dim = i.dim /\ j.problem = i.problem
      BY <2>1, <3>1
    <3>3. QED
      BY <1>8, <3>2
  <2>2. QED
    BY <2>1
<1>11. ASSUME NEW x \in Rest(Alignment(ms)), x \notin Rest(Alignment(ls)) PROVE x.dim = i.dim
  <2>1. PICK j \in Alignment(ms) : x = [operand |-> j.operand, dim |-> j.dim, problem |-> j.problem]
    BY <1>11 DEF Rest
  <2>2. j \notin Alignment(ls)
    BY <1>11, <2>1 DEF Rest
  <2>3. j.dim = i.dim
    BY <1>9, <2>2
  <2>4. QED
    BY <2>1, <2>3
<1>12. QED
  BY <1>10, <1>11 DEF Mended

\* Every fix of an issue is one, with any operand there is.
LEMMA FixesHold ==
  ASSUME Sound, IsCharted(L)
  PROVE  FixesFix
<1>1. ASSUME NEW w \in Operands, NEW i \in Alignment(<<w.base, L>>), Applies(<<w.base, L>>[i.operand], i.fix)
      PROVE  Mended(<<w.base, L>>, i, [<<w.base, L>> EXCEPT ![i.operand] = Applied(@, i.fix)])
  <2>1. IsLayout(w.base) /\ IsCharted(w.base)
    BY ViewsAssumption DEF IsTensor, IsView
  <2>2. IsLayout(L)
    BY LayoutOfView
  <2>3. PICK a, ls : a = w.base /\ ls = <<w.base, L>>
    OBVIOUS
  <2>4. PICK ms : ms = [ls EXCEPT ![i.operand] = Applied(@, i.fix)]
    OBVIOUS
  <2>5. IsLayout(a) /\ IsCharted(a) /\ ls = <<a, L>> /\ i \in Alignment(ls) /\ Applies(ls[i.operand], i.fix)
    BY <1>1, <2>1, <2>3
  <2>6. Mended(ls, i, ms)
    BY <2>2, <2>4, <2>5, AlignmentFixed
  <2>7. QED
    BY <2>3, <2>4, <2>6
<1>2. QED
  BY <1>1, Zenon DEF FixesFix, Mended

\* In every state, for every buffer, tensor, operand and bound: what a view says of itself
\* without looking at its points is true of them.  Its footprint (guarded.py, layout.py) holds
\* every byte it reads and is exact for a plain layout, two tensors that share a byte are said
\* to overlap, injective, aliased and contiguous are proofs, simplify discharges only what never
\* matters, a frame is admitted whole if its points are, and the fix of an alignment issue
\* (tensor.py) fixes it and brings no other but on its dim.
THEOREM HonestAlways == Spec => []ViewsAreHonest
<1>1. Sound /\ InBuffer(view) /\ Memory /\ IsCharted(L) => ViewsAreHonest
  BY HonestFootprint, SharersSeen, VerdictsHold, Discharges, FramesAreChecked, FixesHold DEF ViewsAreHonest
<1>2. QED
  BY <1>1, SoundAlways, BufferAlways, MemoryAlways, ChartedAlways, PTL

-----------------------------------------------------------------------------
(* EVERY OPERATION FOLLOWS AXES AND LABELS                                  *)

\* What every step keeps besides what Sound says: charts are charts, and names strings.
Good == Sound /\ IsCharted(L) /\ IsTyped(L)
\* What every step does to the labels and to the axes whose position is tracked.
Follows ==
  /\ Tells(op', L, view'.base)
  /\ tracked' \subseteq Known(view'.base) \ Unlabelled(op')
  /\ op'.op \notin P!Relabels => tracked' \subseteq tracked
  /\ op'.op \in P!Keeps => tracked \cap Known(view'.base) \subseteq tracked'

\* A step is between two layouts with charts.
LEMMA BothSides ==
  ASSUME Good, Next
  PROVE  Both(L, view'.base)
<1>1. Advances
  BY NextAdvances, StoreSteps DEF Good, Quiet
<1>2. IsView(view')
  BY <1>1 DEF Advances, Made, Keeps
<1>3. IsCharted(view'.base)
  BY ChartedStays DEF Good, L
<1>4. IsLayout(L) /\ IsLayout(view'.base) /\ WellFormed(L)
  BY <1>2, LayoutOfView DEF Good, Sound, IsView, L
<1>5. QED
  BY <1>3, <1>4 DEF Both, Good

\* A step that makes a tensor whose labels stick tracks what it should.
LEMMA MakesFollows ==
  ASSUME Good, Next, NEW o, NEW v, NEW axes, Makes(o, v, axes), o.op \notin P!Relabels => axes = {},
         NEW l, v.base = l, Both(L, l) => Tells(o, L, l)
  PROVE  Follows
<1>1. view' = v /\ op' = o /\ tracked' = ((tracked \cup axes) \ Unlabelled(o)) \cap Known(l)
  BY DEF Makes
<1>2. Tells(o, L, l)
  BY <1>1, BothSides
<1>3. o.op \in P!Keeps => Unlabelled(o) = {}
  BY DEF P!Keeps, Unlabelled
<1>4. QED
  BY <1>1, <1>2, <1>3 DEF Follows

\* The layout of a view made by Rebase or View.
LEMMA BaseIs ==
  ASSUME Sound, NEW l
  PROVE  Rebase(view, l).base = l /\ \A gs : View(view, l, gs).base = l
BY SizeInt, RebaseIs, ViewIs

\* A slice follows the axes and the labels.
LEMMA SliceFollows ==
  ASSUME Good, SliceView
  PROVE  Follows
<1>1. PICK n, a, b, lo, hi, o, v :
        /\ n \in Names(L) /\ a \in {0, 1} /\ b \in {0, 1} /\ lo = L.dims[n].start + a /\ hi = L.dims[n].stop - b
        /\ CanSlice(L, n, lo, hi) /\ o = [op |-> "slice", dim |-> n, lo |-> lo, hi |-> hi]
        /\ v = GSlice(view, n, lo, hi) /\ Makes(o, v, {})
  BY DEF SliceView
<1>2. lo \in Int /\ hi \in Int
  BY <1>1, BoundsInt DEF Good
<1>3. v.base = Slice(L, n, lo, hi)
  BY <1>1, BaseIs DEF GSlice, L, Good
<1>4. Both(L, Slice(L, n, lo, hi)) => Tells(o, L, Slice(L, n, lo, hi))
  BY <1>1, <1>2, SliceGlues
<1>5. QED
  BY <1>1, <1>3, <1>4, MakesFollows DEF Next

\* A selection does.
LEMMA SelectFollows ==
  ASSUME Good, SelectView
  PROVE  Follows
<1>1. PICK S, points, o, v :
        /\ S \in SUBSET Names(L) /\ points = [n \in S |-> L.dims[n].stop - 1]
        /\ o = [op |-> "select", points |-> points] /\ v = GSelect(view, points) /\ Makes(o, v, {})
  BY DEF SelectView
<1>2. DOMAIN points \subseteq Names(L) /\ \A n \in DOMAIN points : points[n] \in Int
  BY <1>1, BoundsInt DEF Good
<1>3. v.base = Select(L, points)
  BY <1>1, BaseIs DEF GSelect, L, Good
<1>4. ASSUME Both(L, Select(L, points)) PROVE Tells(o, L, Select(L, points))
  <2>1. Selecting(L, points, Select(L, points))
    BY <1>2, <1>4 DEF Selecting, Both
  <2>2. o.op = "select" /\ o.points = points
    BY <1>1
  <2>3. P!NewBox(o, BoxAt(L)) = P!Without(BoxAt(L), DOMAIN points)
    BY <2>2 DEF P!NewBox
  <2>4. \A c : P!Back(o, BoxAt(L), c) = P!Override(points, c)
    BY <2>2 DEF P!Back
  <2>5. QED
    BY <2>1, <2>2, <2>3, <2>4, SelectGlues
<1>5. QED
  BY <1>1, <1>3, <1>4, MakesFollows DEF Next

\* A shift does.
LEMMA ShiftFollows ==
  ASSUME Good, ShiftView
  PROVE  Follows
<1>1. PICK n, s, o, v :
        /\ n \in Names(L) /\ s \in Shifts /\ o = [op |-> "shift", dim |-> n, by |-> s]
        /\ v = GShift(view, n, s) /\ Makes(o, v, {})
  BY DEF ShiftView
<1>2. s \in Int
  BY <1>1, ViewsAssumption
<1>3. v.base = Shift(L, n, s)
  BY <1>1, BaseIs DEF GShift, L, Good
<1>4. Both(L, Shift(L, n, s)) => Tells(o, L, Shift(L, n, s))
  BY <1>1, <1>2, ShiftGlues
<1>5. QED
  BY <1>1, <1>3, <1>4, MakesFollows DEF Next

\* A rename does.
LEMMA RenameFollows ==
  ASSUME Good, RenameView
  PROVE  Follows
<1>1. PICK n, axes, o, v :
        /\ n \in Names(L) /\ CanRename(L, n, "new") /\ o = [op |-> "rename", dim |-> n, new |-> "new", axes |-> axes]
        /\ axes = (IF n \in Charted(L) /\ L.dims[n].chart.axis = None THEN {n, "new"} ELSE {})
        /\ v = GRename(view, n, "new") /\ Makes(o, v, {})
  BY DEF RenameView
<1>2. v.base = Rename(L, n, "new")
  BY <1>1, BaseIs DEF GRename, L, Good
<1>3. o.op = "rename" /\ o.dim = n /\ o.new = "new" /\ o.axes = axes
  BY <1>1
<1>4. n \in Charted(L) /\ L.dims[n].chart.axis = None => n \in o.axes /\ "new" \in o.axes
  BY <1>1, <1>3
<1>5. Both(L, Rename(L, n, "new")) => Tells(o, L, Rename(L, n, "new"))
  <2>1. "new" \in STRING
    BY LiteralsAssumption
  <2>2. QED
    BY <1>1, <1>3, <1>4, <2>1, RenameGlues
<1>6. QED
  BY <1>1, <1>2, <1>5, MakesFollows DEF Next

\* A repeat does.
LEMMA RepeatFollows ==
  ASSUME Good, RepeatView
  PROVE  Follows
<1>1. PICK chart, labels, o, v, axes :
        /\ chart \in Charts \cup {None} /\ labels \in {None, <<"R", "G">>}
        /\ CanRepeat(L, "r", 1, 3) /\ o = [op |-> "repeat", dim |-> "r", lo |-> 1, hi |-> 3, axes |-> axes]
        /\ axes = (IF chart = None THEN {} ELSE {AxisOf(v.base, "r")})
        /\ v = GRepeat(view, "r", 1, 3, chart, labels) /\ Makes(o, v, axes)
  BY DEF RepeatView
<1>2. PICK r : r = Repeat(L, "r", 1, 3, chart, labels)
  OBVIOUS
<1>3. v.base = r
  BY <1>1, <1>2, BaseIs DEF GRepeat, L, Good
<1>4. o.op = "repeat" /\ o.dim = "r" /\ o.lo = 1 /\ o.hi = 3 /\ (chart # None => AxisOf(r, "r") \in o.axes)
  BY <1>1, <1>3
<1>5. chart \in {None} \cup AllCharts
  BY <1>1, ViewsAssumption
<1>6. labels \in {None} \cup Seq(STRING)
  <2>1. <<"R", "G">> \in Seq(STRING)
    BY LiteralsAssumption
  <2>2. QED
    BY <1>1, <2>1
<1>7. Both(L, r) => Tells(o, L, r)
  <2>1. "r" \in STRING /\ "r" \notin Names(L)
    BY <1>1, LiteralsAssumption DEF CanRepeat
  <2>2. QED
    BY <1>2, <1>4, <1>5, <1>6, <2>1, RepeatGlues
<1>8. o.op \in P!Relabels
  BY <1>4 DEF P!Relabels
<1>9. QED
  BY <1>1, <1>3, <1>7, <1>8, MakesFollows DEF Next

\* A flip does.
LEMMA FlipFollows ==
  ASSUME Good, FlipView
  PROVE  Follows
<1>1. PICK n, o, v : n \in Names(L) /\ o = [op |-> "flip", dim |-> n] /\ v = GFlip(view, n) /\ Makes(o, v, {})
  BY DEF FlipView
<1>2. v.base = Flip(L, n)
  BY <1>1, BaseIs DEF GFlip, L, Good
<1>3. Both(L, Flip(L, n)) => Tells(o, L, Flip(L, n))
  BY <1>1, FlipGlues
<1>4. QED
  BY <1>1, <1>2, <1>3, MakesFollows DEF Next

\* A split does.
LEMMA SplitFollows ==
  ASSUME Good, SplitView
  PROVE  Follows
<1>1. PICK n, size, a, outer, x, y, parts, o, v :
        /\ n \in Names(L) /\ size \in 2 .. 3 /\ a \in {0, 1} /\ outer = Size(L.dims[n]) \div size
        /\ x = [name |-> "o", start |-> a, stop |-> a + outer] /\ y = [name |-> "i", start |-> -a, stop |-> size - a]
        /\ parts = <<x, y>> /\ CanSplit(L, n, parts) /\ o = [op |-> "split", dim |-> n, parts |-> parts]
        /\ v = GSplit(view, n, parts) /\ Makes(o, v, {})
  BY DEF SplitView
<1>2. outer \in Int
  <2>1. Size(L.dims[n]) \in Int /\ size \in Nat \ {0}
    BY <1>1, BoundsInt DEF Size, Good
  <2>2. QED
    BY <1>1, <2>1, DivIs
<1>3. TwoParts(parts, x, y) /\ x.name \in STRING /\ y.name \in STRING
  <2>1. x.name = "o" /\ y.name = "i" /\ x.start = a /\ x.stop = a + outer /\ y.start = -a /\ y.stop = size - a
    BY <1>1
  <2>2. a \in Int /\ size \in Int
    BY <1>1
  <2>3. IsPart(x) /\ IsPart(y)
    BY <1>2, <2>1, <2>2 DEF IsPart
  <2>4. "o" # "i" /\ "o" \in STRING /\ "i" \in STRING
    BY LiteralsAssumption
  <2>5. QED
    BY <1>1, <2>1, <2>3, <2>4 DEF TwoParts
<1>4. v.base = Split(L, n, parts)
  BY <1>1, BaseIs DEF GSplit, L, Good
<1>5. o.op = "split" /\ o.dim = n /\ o.parts = parts
  BY <1>1
<1>6. Both(L, Split(L, n, parts)) => Tells(o, L, Split(L, n, parts))
  BY <1>1, <1>3, <1>5, SplitGlues
<1>7. QED
  BY <1>1, <1>4, <1>6, MakesFollows DEF Next

\* A merge does.
LEMMA MergeFollows ==
  ASSUME Good, MergeView
  PROVE  Follows
<1>1. PICK m, n, start, parts, o, v :
        /\ m \in Names(L) /\ n \in Names(L) /\ start \in {0, 2} /\ m # n /\ parts = <<m, n>> /\ CanGMerge(view, parts, "g")
        /\ o = [op |-> "merge", parts |-> parts, new |-> "g", start |-> start]
        /\ v = GMerge(view, parts, "g", start) /\ Makes(o, v, {})
  BY DEF MergeView
<1>2. Merges(L, m, n, parts, "g", start)
  <2>1. start \in Int /\ CanMerge(L, parts, "g")
    BY <1>1 DEF CanGMerge, L
  <2>2. L.dims[m].start <= L.dims[m].stop /\ L.dims[n].start <= L.dims[n].stop
    BY <1>1, BoundsInt DEF Good
  <2>3. QED
    BY <1>1, <2>1, <2>2, LayoutOfView DEF Merges, Good
<1>3. v.base = Merge(L, parts, "g", start)
  BY <1>1, BaseIs DEF GMerge, L, Good
<1>4. o.op = "merge" /\ o.parts = parts /\ o.new = "g" /\ o.start = start
  BY <1>1
<1>5. Both(L, Merge(L, parts, "g", start)) => Tells(o, L, Merge(L, parts, "g", start))
  <2>1. "g" \in STRING
    BY LiteralsAssumption
  <2>2. QED
    BY <1>2, <1>4, <2>1, MergeGlues
<1>6. QED
  BY <1>1, <1>3, <1>5, MakesFollows DEF Next

\* A diagonal does.
LEMMA DiagonalFollows ==
  ASSUME Good, DiagonalView
  PROVE  Follows
<1>1. PICK parts, o, v :
        /\ parts \in SUBSET Names(L) /\ Cardinality(parts) = 2 /\ CanDiagonal(L, parts, "z")
        /\ o = [op |-> "diagonal", parts |-> parts, new |-> "z"] /\ v = GDiagonal(view, parts, "z") /\ Makes(o, v, {})
  BY DEF DiagonalView
<1>2. PICK x, y : x # y /\ parts = {x, y}
  <2>1. IsFiniteSet(Names(L))
    BY DEF Good, Sound, IsView, IsLayout, L
  <2>2. IsFiniteSet(parts)
    BY <1>1, <2>1, FS_Subset
  <2>3. QED
    BY <1>1, <2>2, TwoElements
<1>3. Crosses(L, parts, x, y, "z")
  <2>1. x \in Names(L) /\ y \in Names(L)
    BY <1>1, <1>2
  <2>2. QED
    BY <1>1, <1>2, <2>1, LayoutOfView DEF Crosses, Good
<1>4. v.base = Diagonal(L, parts, "z")
  BY <1>1, BaseIs DEF GDiagonal, L, Good
<1>5. o.op = "diagonal" /\ o.parts = parts /\ o.new = "z" /\ "z" \in STRING
  BY <1>1, LiteralsAssumption
<1>6. Both(L, Diagonal(L, parts, "z")) => Tells(o, L, Diagonal(L, parts, "z"))
  BY <1>3, <1>5, DiagonalGlues
<1>7. QED
  BY <1>1, <1>4, <1>6, MakesFollows DEF Next

\* A window does.
LEMMA WindowFollows ==
  ASSUME Good, WindowView
  PROVE  Follows
<1>1. PICK n, taps, dilation, lo, hi, o, v :
        /\ n \in Names(L) /\ taps \in Taps /\ dilation \in Factors /\ lo = taps[1] /\ hi = taps[2] + 1
        /\ CanWindow(L, n, "k", lo, hi, dilation)
        /\ o = [op |-> "window", dim |-> n, new |-> "k", lo |-> lo, hi |-> hi, dilation |-> dilation]
        /\ v = GWindow(view, n, "k", lo, hi, dilation) /\ Makes(o, v, {})
  BY DEF WindowView
<1>2. lo \in Int /\ hi \in Int /\ dilation \in Nat \ {0} /\ "k" \in STRING
  BY <1>1, ViewsAssumption, LiteralsAssumption
<1>3. v.base = Window(L, n, "k", lo, hi, dilation)
  BY <1>1, BaseIs DEF GWindow, L, Good
<1>4. o.op = "window" /\ o.dim = n /\ o.new = "k" /\ o.lo = lo /\ o.hi = hi /\ o.dilation = dilation
  BY <1>1
<1>5. Both(L, Window(L, n, "k", lo, hi, dilation)) => Tells(o, L, Window(L, n, "k", lo, hi, dilation))
  BY <1>1, <1>2, <1>4, WindowGlues
<1>6. QED
  BY <1>1, <1>3, <1>5, MakesFollows DEF Next

\* A decimation does.
LEMMA DecimateFollows ==
  ASSUME Good, DecimateView
  PROVE  Follows
<1>1. PICK n, factor, phase, o, v :
        /\ n \in Names(L) /\ factor \in Factors /\ phase \in {0, 1}
        /\ o = [op |-> "decimate", dim |-> n, factor |-> factor, phase |-> phase % factor]
        /\ v = GDecimate(view, n, factor, phase) /\ Makes(o, v, {})
  BY DEF DecimateView
<1>2. factor \in Nat \ {0} /\ phase \in Int
  <2>1. factor \in Nat \ {0}
    BY <1>1, ViewsAssumption
  <2>2. phase \in Int
    BY <1>1
  <2>3. QED
    BY <2>1, <2>2
<1>3. v.base = Decimate(L, n, factor, phase)
  BY <1>1, BaseIs DEF GDecimate, L, Good
<1>4. Both(L, Decimate(L, n, factor, phase)) => Tells(o, L, Decimate(L, n, factor, phase))
  BY <1>1, <1>2, DecimateGlues
<1>5. QED
  BY <1>1, <1>3, <1>4, MakesFollows DEF Next

\* A pad does.
LEMMA PadFollows ==
  ASSUME Good, PadView
  PROVE  Follows
<1>1. PICK n, a, lo, hi, o, v :
        /\ n \in Names(L) /\ a \in {0, 1} /\ lo = L.dims[n].start - a /\ hi = L.dims[n].stop + 1 /\ CanPad(view, n, lo, hi)
        /\ o = [op |-> "pad", dim |-> n, lo |-> lo, hi |-> hi] /\ v = Pad(view, n, lo, hi) /\ Makes(o, v, {})
  BY DEF PadView
<1>2. lo \in Int /\ hi \in Int
  BY <1>1, BoundsInt DEF Good
<1>3. PICK e : e = [L.dims[n] EXCEPT !.start = lo, !.stop = hi]
  OBVIOUS
<1>4. v.base = SetDim(L, n, e)
  BY <1>1, <1>3, BaseIs DEF Pad, L, Good
<1>5. L.dims[n].labels = None
  BY <1>1 DEF CanPad, L
<1>6. Both(L, SetDim(L, n, e)) => Tells(o, L, SetDim(L, n, e))
  BY <1>1, <1>2, <1>3, <1>5, PadGlues
<1>7. QED
  BY <1>1, <1>4, <1>6, MakesFollows DEF Next

\* A stencil does.
LEMMA StencilFollows ==
  ASSUME Good, StencilView
  PROVE  Follows
<1>1. PICK n, taps, dilation, lo, hi, o, v :
        /\ n \in Names(L) /\ taps \in Taps /\ dilation \in Factors /\ lo = taps[1] /\ hi = taps[2]
        /\ CanStencil(view, n, "t", lo, hi)
        /\ o = [op |-> "stencil", dim |-> n, new |-> "t", lo |-> lo, hi |-> hi, dilation |-> dilation]
        /\ v = Stencil(view, n, "t", lo, hi, dilation) /\ Makes(o, v, {})
  BY DEF StencilView
<1>2. lo \in Int /\ hi \in Int /\ dilation \in Int /\ "t" \in STRING
  BY <1>1, ViewsAssumption, LiteralsAssumption
<1>3. "t" \notin Names(L) /\ L.dims[n].labels = None
  BY <1>1 DEF CanStencil, L
<1>4. PICK r : r = Put(L, {}, Single("t", TapDim(L, n, lo, hi + 1, dilation)), 0)
  OBVIOUS
<1>5. v.base = r
  BY <1>1, <1>4, BaseIs DEF Stencil, L, Good
<1>6. o.op = "stencil" /\ o.dim = n /\ o.new = "t" /\ o.lo = lo /\ o.hi = hi /\ o.dilation = dilation
  BY <1>1
<1>7. Both(L, r) => Tells(o, L, r)
  BY <1>1, <1>2, <1>3, <1>4, <1>6, StencilGlues
<1>8. QED
  BY <1>1, <1>5, <1>7, MakesFollows DEF Next

\* Simplifying does.
LEMMA SimplifyFollows ==
  ASSUME Good, SimplifyView
  PROVE  Follows
<1>1. PICK o, v : o.op = "simplify" /\ v = Simplify(view) /\ Makes(o, v, {})
  BY DEF SimplifyView
<1>2. v.base = L
  BY <1>1, SimplifyIs, SizeInt DEF L, Good
<1>3. Both(L, L) => Tells(o, L, L)
  BY <1>1, SameGlues
<1>4. QED
  BY <1>1, <1>2, <1>3, MakesFollows DEF Next

\* A field of a record does.
LEMMA FieldFollows ==
  ASSUME Good, FieldView
  PROVE  Follows
<1>1. PICK l, r, o, v :
        /\ l = [view.base EXCEPT !.offset = @ + FieldOffset] /\ r = Rebase(view, l) /\ v = [r EXCEPT !.size = @ - FieldOffset]
        /\ o.op = "field" /\ Makes(o, v, {})
  BY DEF FieldView, L
<1>2. v.base = l /\ l.dims = L.dims
  BY <1>1, RebaseIs, SizeInt DEF L, Good
<1>3. Both(L, l) => Tells(o, L, l)
  <2>1. o.op \in {"simplify", "field", "frames", "store"}
    BY <1>1
  <2>2. QED
    BY <1>2, <2>1, SameGlues
<1>4. QED
  BY <1>1, <1>2, <1>3, MakesFollows DEF Next

\* A new chart does, of the axes it does not concern.
LEMMA ChartFollows ==
  ASSUME Good, ChartView
  PROVE  Follows
<1>1. PICK n, chart, r, axes, o :
        /\ n \in Names(L) /\ chart \in Charts \cup {None} /\ r = WithChart(L, n, chart)
        /\ axes = {AxisOf(m, n) : m \in {m \in {r, L} : n \in Charted(m)}}
        /\ o = [op |-> "with_charts", axes |-> axes] /\ Makes(o, Rebase(view, r), axes)
  BY DEF ChartView
<1>2. chart \in {None} \cup AllCharts
  BY <1>1, ViewsAssumption
<1>3. o.op = "with_charts" /\ o.axes = axes
  BY <1>1
<1>4. (n \in Charted(L) => AxisOf(L, n) \in axes) /\ (n \in Charted(r) => AxisOf(r, n) \in axes)
  BY <1>1
<1>5. Both(L, r) => Tells(o, L, r)
  BY <1>1, <1>2, <1>3, <1>4, ChartGlues
<1>6. Rebase(view, r).base = r /\ o.op \in P!Relabels
  BY <1>3, BaseIs DEF Good, P!Relabels
<1>7. QED
  BY <1>1, <1>5, <1>6, MakesFollows DEF Next

\* New labels do, and leave every position.
LEMMA LabelFollows ==
  ASSUME Good, LabelView
  PROVE  Follows
<1>1. PICK n, labels, r, axes, o :
        /\ n \in Names(L) /\ Size(L.dims[n]) <= Len(Letters) /\ labels = SubSeq(Letters, 1, Size(L.dims[n]))
        /\ r = WithLabels(L, n, labels) /\ axes = (IF n \in Charted(L) THEN {AxisOf(L, n)} ELSE {})
        /\ o = [op |-> "with_labels", axes |-> axes] /\ Makes(o, Rebase(view, r), axes)
  BY DEF LabelView
<1>2. labels \in Seq(STRING)
  <2>1. Letters \in Seq(STRING)
    BY LiteralsAssumption DEF Letters
  <2>2. Size(L.dims[n]) \in Int
    BY <1>1, BoundsInt DEF Size, Good
  <2>3. QED
    BY <1>1, <2>1, <2>2
<1>3. o.op = "with_labels" /\ o.axes = axes
  BY <1>1
<1>4. n \in Charted(L) => AxisOf(L, n) \in axes
  BY <1>1
<1>5. Both(L, r) => Tells(o, L, r)
  BY <1>1, <1>2, <1>3, <1>4, LabelGlues
<1>6. Rebase(view, r).base = r /\ o.op \in P!Relabels
  BY <1>3, BaseIs DEF Good, P!Relabels
<1>7. QED
  BY <1>1, <1>5, <1>6, MakesFollows DEF Next

\* Stripping the labels does.
LEMMA StripFollows ==
  ASSUME Good, StripView
  PROVE  Follows
<1>1. PICK r, o :
        r = StripCharts(L) /\ o = [op |-> "strip_charts", axes |-> Axes(L)] /\ Makes(o, Rebase(view, r), {})
  BY DEF StripView
<1>2. Both(L, r) => Tells(o, L, r)
  BY <1>1, StripGlues
<1>3. Rebase(view, r).base = r
  BY BaseIs DEF Good
<1>4. QED
  BY <1>1, <1>2, <1>3, MakesFollows DEF Next

\* Binding a value does.
LEMMA BindFollows ==
  ASSUME Good, BindView
  PROVE  Follows
<1>1. PICK n, level, r, o :
        /\ n \in Names(L) /\ r = Bind(L, n, level) /\ o = [op |-> "bind"] /\ Makes(o, Rebase(view, r), {})
  BY DEF BindView
<1>2. Both(L, r) => Tells(o, L, r)
  BY <1>1, BindGlues
<1>3. Rebase(view, r).base = r
  BY BaseIs DEF Good
<1>4. QED
  BY <1>1, <1>2, <1>3, MakesFollows DEF Next

\* A recentring does, and moves the positions of its axis by what it says.
LEMMA RecenterFollows ==
  ASSUME Good, RecenterView
  PROVE  Follows
<1>1. PICK n, r, o :
        /\ n \in Charted(L) /\ r = Recenter(L, n, 5) /\ o = [op |-> "recenter", axis |-> AxisOf(L, n), by |-> 5]
        /\ Makes(o, Rebase(view, r), {})
  BY DEF RecenterView
<1>2. Both(L, r) => Tells(o, L, r)
  BY <1>1, RecenterGlues
<1>3. Rebase(view, r).base = r
  BY BaseIs DEF Good
<1>4. QED
  BY <1>1, <1>2, <1>3, MakesFollows DEF Next

\* A subscript by a point does too,
LEMMA PointFollows ==
  ASSUME Good, Next, NEW n, n \in Names(L), NEW i \in Int,
         Makes([op |-> "subscript", dim |-> n, lo |-> i, step |-> 0], GSelect(view, Single(n, i)), {})
  PROVE  Follows
<1>1. PICK o, v, points : /\ o = [op |-> "subscript", dim |-> n, lo |-> i, step |-> 0] /\ points = Single(n, i)
                          /\ v = GSelect(view, points) /\ Makes(o, v, {})
  OBVIOUS
<1>2. DOMAIN points = {n} /\ DOMAIN points \subseteq Names(L) /\ \A m \in DOMAIN points : points[m] \in Int
  BY <1>1 DEF Single
<1>3. v.base = Select(L, points)
  BY <1>1, BaseIs DEF GSelect, L, Good
<1>4. ASSUME Both(L, Select(L, points)) PROVE Tells(o, L, Select(L, points))
  <2>1. Selecting(L, points, Select(L, points))
    BY <1>2, <1>4 DEF Selecting, Both
  <2>2. o.op = "subscript" /\ o.dim = n /\ o.lo = i /\ o.step = 0
    BY <1>1
  <2>3. P!NewBox(o, BoxAt(L)) = P!Without(BoxAt(L), DOMAIN points)
    BY <1>2, <2>2 DEF P!NewBox
  <2>4. \A c : P!Back(o, BoxAt(L), c) = P!Override(points, c)
    BY <1>1, <2>2 DEF P!Back, P!Single, Single
  <2>5. QED
    BY <2>1, <2>2, <2>3, <2>4, SelectGlues
<1>5. o.op \notin P!Relabels => {} = {}
  OBVIOUS
<1>6. QED
  BY <1>1, <1>3, <1>4, MakesFollows

\* and by a slice, decimated,
LEMMA StrideFollows ==
  ASSUME Good, Next, NEW n, n = handle.name, n \in Names(L), NEW lo \in Int, NEW hi \in Int, lo <= hi, NEW step \in Nat \ {0},
         NEW s, s.frame = handle, s.lo = lo, s.hi = hi, s.step = step, AdmitSlice(FrameOf(L, n), s),
         Makes([op |-> "subscript", dim |-> n, lo |-> lo, hi |-> hi, step |-> step], SubscriptOf(view, s), {})
  PROVE  Follows
<1>1. PICK o, v : /\ o = [op |-> "subscript", dim |-> n, lo |-> lo, hi |-> hi, step |-> step]
                  /\ v = SubscriptOf(view, s) /\ Makes(o, v, {})
  OBVIOUS
<1>2. PICK k, e : k = Visits(s) /\ e = LastVisited(s)
  OBVIOUS
<1>3. k \in Nat /\ e \in Int /\ (k > 0 => lo <= e)
  BY <1>2, VisitsNat
<1>4. k > 0 => L.dims[n].start <= lo /\ e < L.dims[n].stop
  BY <1>2 DEF AdmitSlice, FrameOf, InDim
<1>5. PICK x : x = IF k = 0 THEN lo ELSE e + 1
  OBVIOUS
<1>6. x \in Int /\ lo <= x /\ (lo = x <=> k = 0)
  BY <1>3, <1>5
<1>7. StrideEnds(lo, hi, step, k, x)
  <2>1. k = (hi - lo + step - 1) \div step /\ e = lo + (k - 1) * step
    BY <1>2 DEF Visits, LastVisited
  <2>2. QED
    BY <1>5, <2>1 DEF StrideEnds
<1>8. CanSlice(L, n, lo, x)
  <2>1. L.dims[n].start \in Int /\ L.dims[n].stop \in Int
    BY BoundsInt DEF Good
  <2>2. lo # x => L.dims[n].start <= lo /\ x <= L.dims[n].stop
    BY <1>3, <1>4, <1>5, <1>6, <2>1
  <2>3. QED
    BY <1>6, <2>2 DEF CanSlice
<1>9. PICK l, u : l = Slice(L, n, lo, x) /\ u = GSlice(view, n, lo, x)
  OBVIOUS
<1>10. u = Rebase(view, l) /\ u.base = l /\ {"base", "guards", "size"} \subseteq DOMAIN u
  BY <1>9, RebaseIs, SizeInt DEF GSlice, L, Good
<1>11. v = IF k = 0 \/ step = 1 THEN u ELSE GDecimate(u, n, step, lo % step)
  BY <1>1, <1>2, <1>5, <1>9 DEF SubscriptOf
<1>12. PICK r : r = StridedOne(L, n, lo, x, step)
  OBVIOUS
<1>13. v.base = r
  <2>1. CASE k = 0 \/ step = 1
    BY <1>6, <1>9, <1>10, <1>11, <1>12, <2>1 DEF StridedOne
  <2>2. CASE ~(k = 0 \/ step = 1)
    <3>1. r = Decimate(l, n, step, lo % step)
      BY <1>6, <1>9, <1>12, <2>2 DEF StridedOne
    <3>2. PICK gs : GDecimate(u, n, step, lo % step) = View(u, r, gs)
      BY <1>10, <3>1 DEF GDecimate
    <3>3. QED
      BY <1>10, <1>11, <2>2, <3>2 DEF View
  <2>3. QED
    BY <2>1, <2>2
<1>14. Both(L, r) => Tells(o, L, r)
  BY <1>1, <1>7, <1>8, <1>12, StrideGlues
<1>15. QED
  BY <1>1, <1>13, <1>14, MakesFollows

\* so each subscript does.
LEMMA SubscriptFollows ==
  ASSUME Good, Subscript
  PROVE  Follows
<1>1. PICK n : n = handle.name /\ n \in Names(L)
  BY DEF Subscript
<1>2. handle.start \in Int /\ handle.stop \in Int /\ Next
  BY DEF Good, Sound, IntHandle, Next
<1>3. CASE \E i \in handle.start .. handle.stop - 1 :
             Makes([op |-> "subscript", dim |-> n, lo |-> i, step |-> 0], GSelect(view, Single(n, i)), {})
  BY <1>1, <1>2, <1>3, PointFollows
<1>4. CASE \E lo \in handle.start .. handle.stop - 1, hi \in {None} \cup handle.start .. handle.stop - 1, step \in Factors :
             /\ CanProgress(handle, lo, hi, step) /\ AdmitSlice(FrameOf(L, n), Progression(handle, lo, hi, step))
             /\ Makes([op |-> "subscript", dim |-> n, lo |-> lo, hi |-> Progression(handle, lo, hi, step).hi, step |-> step],
                      SubscriptOf(view, Progression(handle, lo, hi, step)), {})
  <2>1. PICK lo, hi, step, s :
           /\ lo \in handle.start .. handle.stop - 1 /\ hi \in {None} \cup handle.start .. handle.stop - 1
           /\ step \in Factors /\ s = Progression(handle, lo, hi, step)
           /\ CanProgress(handle, lo, hi, step) /\ AdmitSlice(FrameOf(L, n), s)
           /\ Makes([op |-> "subscript", dim |-> n, lo |-> lo, hi |-> s.hi, step |-> step], SubscriptOf(view, s), {})
    BY <1>4
  <2>2. PICK last : last = IF hi = None THEN handle.stop ELSE hi
    OBVIOUS
  <2>3. s.frame = handle /\ s.lo = lo /\ s.hi = last /\ s.step = step
    BY <2>1, <2>2 DEF Progression
  <2>4. lo \in Int /\ last \in Int /\ lo <= last
    BY <1>2, <2>1, <2>2 DEF CanProgress, CanPoint, InDim
  <2>5. step \in Nat \ {0}
    BY <2>1, ViewsAssumption
  <2>6. Makes([op |-> "subscript", dim |-> n, lo |-> lo, hi |-> last, step |-> step], SubscriptOf(view, s), {})
    BY <2>1, <2>3
  <2>7. AdmitSlice(FrameOf(L, n), s)
    BY <2>1
  <2>8. QED
    BY <1>1, <1>2, <2>3, <2>4, <2>5, <2>6, <2>7, StrideFollows
<1>5. QED
  BY <1>1, <1>3, <1>4 DEF Subscript

\* A step that leaves the view alone.
LEMMA NothingFollows ==
  ASSUME Good, Next, view' = view, tracked' = tracked, tracked \subseteq Known(L), op'.op \in {"frames", "store"}
  PROVE  Follows
<1>1. Both(L, L)
  BY BothSides DEF L
<1>2. Tells(op', L, L)
  BY <1>1, SameGlues
<1>3. Unlabelled(op') = {}
  BY DEF Unlabelled
<1>4. QED
  BY <1>2, <1>3 DEF Follows, L

\* Every step keeps the labels glued to the data.
LEMMA NextFollows ==
  ASSUME Good, tracked \subseteq Known(L), Next
  PROVE  Follows
<1>1. ASSUME SliceView \/ SelectView \/ ShiftView \/ RenameView \/ RepeatView \/ FlipView \/ SplitView \/ MergeView
      PROVE Follows
  BY <1>1, SliceFollows, SelectFollows, ShiftFollows, RenameFollows, RepeatFollows, FlipFollows, SplitFollows, MergeFollows
<1>2. ASSUME DiagonalView \/ WindowView \/ DecimateView \/ PadView \/ StencilView \/ SimplifyView \/ FieldView
      PROVE Follows
  BY <1>2, DiagonalFollows, WindowFollows, DecimateFollows, PadFollows, StencilFollows, SimplifyFollows, FieldFollows
<1>3. ASSUME ChartView \/ LabelView \/ StripView \/ BindView \/ RecenterView \/ Subscript
      PROVE Follows
  BY <1>3, ChartFollows, LabelFollows, StripFollows, BindFollows, RecenterFollows, SubscriptFollows
<1>4. CASE TakeFrame
  <2>1. view' = view /\ tracked' = tracked /\ op'.op = "frames"
    BY <1>4 DEF TakeFrame
  <2>2. QED
    BY <2>1, NothingFollows
<1>5. CASE Store
  <2>1. view' = view /\ tracked' = tracked /\ op'.op = "store"
    BY <1>5 DEF Store
  <2>2. QED
    BY <2>1, NothingFollows
<1>6. QED
  BY <1>1, <1>2, <1>3, <1>4, <1>5 DEF Next

PointStep(b, old, x) == {P!Override(c, P!Single(x, i)) : c \in old, i \in b[x]}

\* The points of a box, which PointMaps enumerates a name at a time too, are those of the layout.
LEMMA BoxPoints ==
  ASSUME NEW l, IsLayout(l)
  PROVE  P!Points(BoxAt(l)) = Domain(l)
<1>1. PICK S, d, b : S = Names(l) /\ d = l.dims /\ b = BoxAt(l)
  OBVIOUS
<1>2. IsFiniteSet(S) /\ (\A n \in S : d[n].start \in Int /\ d[n].stop \in Int) /\ DOMAIN b = S
  BY <1>1 DEF IsLayout, IsDim, BoxAt
<1>. DEFINE Eq(F) == F = [s \in SUBSET S |-> IF s = {} THEN {<<>>}
                                             ELSE PointStep(b, F[s \ {Pick(s)}], Pick(s))]
            Iter == CHOOSE F : Eq(F)
            G == [s \in SUBSET S |-> Grid(d, s)]
<1>3. ASSUME NEW x \in S, NEW old PROVE GridStep(d, old, x) = PointStep(b, old, x)
  <2>1. b[x] = d[x].start .. d[x].stop - 1
    BY <1>1 DEF BoxAt
  <2>2. QED
    BY <2>1 DEF GridStep, PointStep, Override, Single, P!Override, P!Single
<1>4. ASSUME NEW s \in SUBSET S
      PROVE  Grid(d, s) = IF s = {} THEN {<<>>} ELSE PointStep(b, Grid(d, s \ {Pick(s)}), Pick(s))
  <2>1. CASE s = {}
    BY <2>1, GridEmpty
  <2>2. CASE s # {}
    <3>1. Pick(s) \in s /\ \A n \in s : d[n].start \in Int /\ d[n].stop \in Int
      BY <1>2, <2>2, Picked
    <3>2. Grid(d, s) = GridStep(d, Grid(d, s \ {Pick(s)}), Pick(s))
      BY <2>2, <3>1, GridGrows
    <3>3. Pick(s) \in S
      BY <3>1
    <3>4. QED
      BY <1>3, <2>2, <3>2, <3>3
  <2>3. QED
    BY <2>1, <2>2
<1>5. ASSUME NEW s \in SUBSET S
      PROVE  G[s] = IF s = {} THEN {<<>>} ELSE PointStep(b, G[s \ {Pick(s)}], Pick(s))
  <2>1. G[s] = Grid(d, s) /\ G[s \ {Pick(s)}] = Grid(d, s \ {Pick(s)})
    OBVIOUS
  <2>. HIDE DEF G
  <2>2. QED
    BY <1>4, <2>1
<1>6. Eq(G)
  <2>1. G = [s \in SUBSET S |-> G[s]]
    OBVIOUS
  <2>. HIDE DEF G
  <2>2. QED
    BY <1>5, <2>1
<1>7. Eq(Iter)
  <2>. HIDE DEF G, Eq
  <2>. QED
    BY <1>6
<1>8. \A s \in SUBSET S : Iter[s] = IF s = {} THEN {<<>>} ELSE PointStep(b, Iter[s \ {Pick(s)}], Pick(s))
  <2>. HIDE DEF Iter
  <2>. QED
    BY <1>7
<1>. HIDE DEF Iter, Eq
<1>9. P!Points(b) = Iter[S]
  BY <1>2 DEF P!Points, P!FoldSet, P!MapThenFoldSet, Pick, Iter, Eq, PointStep
<1>10. PICK F, H : F = Iter /\ H = G
  OBVIOUS
<1>11. SameSteps(F, H, S)
  <2>. HIDE DEF G
  <2>1. \A s \in SUBSET S : F[s] = IF s = {} THEN {<<>>} ELSE PointStep(b, F[s \ {Pick(s)}], Pick(s))
    BY <1>8, <1>10
  <2>2. \A s \in SUBSET S : H[s] = IF s = {} THEN {<<>>} ELSE PointStep(b, H[s \ {Pick(s)}], Pick(s))
    BY <1>5, <1>10
  <2>3. QED
    BY <2>1, <2>2 DEF SameSteps
<1>12. F[S] = H[S]
  <2>. HIDE DEF G
  <2>. QED
    BY <1>2, <1>11, FoldsAgree
<1>13. Domain(l) = Grid(d, S)
  BY <1>1, DomainIs
<1>14. QED
  BY <1>1, <1>9, <1>10, <1>12, <1>13

-----------------------------------------------------------------------------
(* EVERY VIEW IS A MAP OF POINTS                                            *)

\* What PointMaps says of a point of a view, of that of the old one it stands for.
At(v, t, c) ==
  [at |-> Resolve(v, c), pos |-> [a \in t |-> PositionAt(v.base, a, c)],
   tags |-> [n \in Labelled(v.base) |-> LabelAt(v.base.dims[n], c[n])]]
\* A point of w tells what the point of v that it stands for told.
Agrees(o, v, t, w, u, c, p) ==
  /\ P!SameDatum(o, At(w, u, c), At(v, t, p))
  /\ P!SamePositions(o, At(w, u, c), At(v, t, p))
  /\ o.op \in P!Relabels \/
     /\ DOMAIN At(w, u, c).tags = {n \in Names(w.base) : P!Origin(o, n) \in DOMAIN At(v, t, p).tags}
     /\ \A n \in DOMAIN At(w, u, c).tags : At(w, u, c).tags[n] = At(v, t, p).tags[P!Origin(o, n)]

\* A layout operation that keeps labels glued to data that stay does what PointMaps says.
LEMMA GluedAgrees ==
  ASSUME NEW o, NEW v, NEW w, NEW t, NEW u, IsLayout(v.base), t \subseteq Known(v.base), u \subseteq Known(w.base) \ Lost(o, v.base),
         o.op \notin P!Relabels => u \subseteq t, o.op \in P!Keeps => t \cap Known(w.base) \subseteq u,
         Glues(o, v.base, w.base), NEW c \in Domain(w.base), NEW p, p = P!Back(o, BoxAt(v.base), c),
         Datum(o, v, w, c, p), P!InBox(BoxAt(v.base), p)
  PROVE  p \in Domain(v.base) /\ Agrees(o, v, t, w, u, c, p)
<1>1. PICK l, r : l = v.base /\ r = w.base
  OBVIOUS
<1>2. Sticks(o, l, r, c, p)
  BY <1>1 DEF Glues
<1>3. InRange(l, p)
  BY <1>1, InBoxIs
<1>4. p = [n \in Names(l) |-> p[n]] /\ Placed(o, l, r, c, p) /\ KeepsLabels(o, l, r, c, p)
  BY <1>2, <1>3 DEF Sticks
<1>5. p \in Domain(l)
  <2>1. Domain(l) = Grid(l.dims, Names(l)) /\ \A n \in Names(l) : l.dims[n].start \in Int /\ l.dims[n].stop \in Int
    BY <1>1, DomainIs DEF IsLayout, IsDim
  <2>2. \A n \in Names(l) : p[n] \in Int /\ l.dims[n].start <= p[n] /\ p[n] < l.dims[n].stop
    BY <1>3, <2>1 DEF InRange
  <2>3. QED
    BY <1>4, <2>1, <2>2 DEF Grid
<1>6. PICK x, y : x = At(w, u, c) /\ y = At(v, t, p)
  OBVIOUS
<1>7. /\ x.at = Resolve(w, c) /\ DOMAIN x.pos = u /\ (\A a \in u : x.pos[a] = PositionAt(r, a, c))
      /\ DOMAIN x.tags = Labelled(r) /\ \A n \in Labelled(r) : x.tags[n] = LabelAt(r.dims[n], c[n])
  BY <1>1, <1>6 DEF At
<1>8. /\ y.at = Resolve(v, p) /\ DOMAIN y.pos = t /\ (\A a \in t : y.pos[a] = PositionAt(l, a, p))
      /\ DOMAIN y.tags = Labelled(l) /\ \A n \in Labelled(l) : y.tags[n] = LabelAt(l.dims[n], p[n])
  BY <1>1, <1>6 DEF At
<1>9. P!SameDatum(o, x, y)
  <2>1. Resolve(w, c) = IF o.op = "field" /\ Resolve(v, p) # Fill THEN Resolve(v, p) + o.offset ELSE Resolve(v, p)
    BY DEF Datum
  <2>2. QED
    BY <1>7, <1>8, <2>1 DEF P!SameDatum
<1>10. P!SamePositions(o, x, y)
  <2>1. o.op \in P!Keeps => t \subseteq u
    BY <1>1, <1>4 DEF Glues
  <2>2. ASSUME NEW a, a \in u, a \in t, a \notin P!Relabelled(o)
        PROVE  x.pos[a] = y.pos[a] + IF o.op = "recenter" /\ o.axis = a THEN o.by ELSE 0
    <3>1. a \in (Known(l) \cap Known(r)) \ (P!Relabelled(o) \cup Lost(o, l))
      BY <1>1, <2>2
    <3>2. PositionAt(r, a, c) = PositionAt(l, a, p) + Amount(o, a)
      BY <1>4, <3>1 DEF Placed
    <3>3. QED
      BY <1>7, <1>8, <2>2, <3>2 DEF Amount
  <2>3. QED
    BY <1>7, <1>8, <2>1, <2>2 DEF P!SamePositions
<1>11. ASSUME o.op \notin P!Relabels
       PROVE  /\ DOMAIN x.tags = {n \in Names(r) : P!Origin(o, n) \in DOMAIN y.tags}
              /\ \A n \in DOMAIN x.tags : x.tags[n] = y.tags[P!Origin(o, n)]
  <2>1. \A n \in Names(r) : /\ n \in Labelled(r) <=> P!Origin(o, n) \in Labelled(l)
                            /\ n \in Labelled(r) => LabelAt(r.dims[n], c[n]) = LabelAt(l.dims[P!Origin(o, n)], p[P!Origin(o, n)])
    BY <1>4, <1>11 DEF KeepsLabels
  <2>2. Labelled(r) \subseteq Names(r)
    BY DEF Labelled
  <2>3. Labelled(r) = {n \in Names(r) : P!Origin(o, n) \in Labelled(l)}
    BY <2>1, <2>2
  <2>4. QED
    BY <1>7, <1>8, <2>1, <2>2, <2>3
<1>12. QED
  BY <1>1, <1>5, <1>6, <1>9, <1>10, <1>11 DEF Agrees

\* What is tracked is known, and every view has charts and names.
Tracked == Good /\ tracked \subseteq Known(L)
MapOf(v, t) == [c \in Domain(v.base) |-> At(v, t, c)]

\* The box and the map of PointMaps are those of the view.
LEMMA MapIs ==
  /\ [c \in Domain(L) |->
        [at |-> Resolve(view, c), pos |-> [a \in tracked |-> PositionAt(L, a, c)],
         tags |-> [n \in {n \in Names(L) : L.dims[n].labels # None} |-> LabelAt(L.dims[n], c[n])]]] = MapOf(view, tracked)
  /\ [n \in Names(L) |-> L.dims[n].start .. L.dims[n].stop - 1] = BoxAt(L)
BY DEF MapOf, At, Labelled, BoxAt, L

\* A point of the new view is where PointMaps says.
LEMMA PointMoves ==
  ASSUME Tracked, Next, NEW c \in Domain(view'.base), NEW p, p = P!Back(op', BoxAt(L), c)
  PROVE  IF P!InBox(BoxAt(L), p) THEN p \in Domain(L) /\ Agrees(op', view, tracked, view', tracked', c, p)
         ELSE op'.op \in {"pad", "stencil"} /\ Resolve(view', c) = Fill
<1>1. Follows
  BY NextFollows DEF Tracked
<1>2. Advances
  BY NextAdvances, StoreSteps DEF Tracked, Good, Quiet
<1>3. PICK o, w, u : o = op' /\ w = view' /\ u = tracked'
  OBVIOUS
<1>4. Datum(o, view, w, c, p)
  BY <1>2, <1>3 DEF Advances, Made, Keeps, DataStays, L
<1>5. /\ IsLayout(view.base) /\ tracked \subseteq Known(view.base) /\ u \subseteq Known(w.base) \ Lost(o, view.base)
      /\ o.op \notin P!Relabels => u \subseteq tracked
      /\ o.op \in P!Keeps => tracked \cap Known(w.base) \subseteq u
      /\ Glues(o, view.base, w.base)
  <2>1. Unlabelled(o) = Lost(o, view.base)
    BY DEF Unlabelled, Lost
  <2>2. IsLayout(view.base)
    BY LayoutOfView DEF Tracked, Good, L
  <2>3. QED
    BY <1>1, <1>3, <2>1, <2>2 DEF Follows, Tells, Tracked, L
<1>6. CASE P!InBox(BoxAt(L), p)
  <2>1. p \in Domain(view.base) /\ Agrees(o, view, tracked, w, u, c, p)
    BY <1>3, <1>4, <1>5, <1>6, GluedAgrees DEF L
  <2>2. QED
    BY <1>3, <1>6, <2>1 DEF L
<1>7. CASE ~P!InBox(BoxAt(L), p)
  BY <1>3, <1>4, <1>7 DEF Datum, L
<1>8. QED
  BY <1>6, <1>7

BoxOfView == [n \in Names(L) |-> L.dims[n].start .. L.dims[n].stop - 1]
MapOfView ==
  [c \in Domain(L) |->
     [at |-> Resolve(view, c), pos |-> [a \in tracked |-> PositionAt(L, a, c)],
      tags |-> [n \in {n \in Names(L) : L.dims[n].labels # None} |-> LabelAt(L.dims[n], c[n])]]]
\* What PointMaps asks of the boxes and the maps before and after an operation.
MapsTo(o, b, m, b1, m1) ==
  /\ b1 = P!NewBox(o, b)
  /\ DOMAIN m1 = P!Points(b1)
  /\ \A c \in DOMAIN m1 :
       LET p == P!Back(o, b, c)
       IN  IF P!InBox(b, p) THEN /\ P!SameDatum(o, m1[c], m[p])
                                 /\ P!SamePositions(o, m1[c], m[p])
                                 /\ \/ o.op \in P!Relabels
                                    \/ /\ DOMAIN m1[c].tags = {n \in DOMAIN b1 : P!Origin(o, n) \in DOMAIN m[p].tags}
                                       /\ \A n \in DOMAIN m1[c].tags : m1[c].tags[n] = m[p].tags[P!Origin(o, n)]
           ELSE o.op \in {"pad", "stencil"} /\ m1[c].at = Fill

\* Every step of the views is a step of PointMaps.
LEMMA NextMaps ==
  ASSUME Tracked, Next
  PROVE  P!Next
<1>1. Follows
  BY NextFollows DEF Tracked
<1>2. IsView(view')
  BY NextAdvances, StoreSteps DEF Tracked, Good, Quiet, Advances, Made, Keeps
<1>3. PICK b, m, b1, m1, o : /\ b = BoxAt(L) /\ m = MapOf(view, tracked) /\ b1 = BoxAt(view'.base) /\ m1 = MapOf(view', tracked')
                             /\ o = op'
  OBVIOUS
<1>4. b1 = P!NewBox(o, b)
  BY <1>1, <1>3 DEF Follows, Tells, Glues
<1>5. DOMAIN m1 = P!Points(b1) /\ DOMAIN m1 = Domain(view'.base) /\ DOMAIN b1 = Names(view'.base)
  BY <1>2, <1>3, BoxPoints DEF IsView, MapOf, BoxAt
<1>6. ASSUME NEW c \in DOMAIN m1, NEW p, p = P!Back(o, b, c)
      PROVE  IF P!InBox(b, p)
             THEN /\ P!SameDatum(o, m1[c], m[p]) /\ P!SamePositions(o, m1[c], m[p])
                  /\ o.op \in P!Relabels \/ /\ DOMAIN m1[c].tags = {n \in DOMAIN b1 : P!Origin(o, n) \in DOMAIN m[p].tags}
                                            /\ \A n \in DOMAIN m1[c].tags : m1[c].tags[n] = m[p].tags[P!Origin(o, n)]
             ELSE o.op \in {"pad", "stencil"} /\ m1[c].at = Fill
  <2>1. c \in Domain(view'.base)
    BY <1>5
  <2>2. m1[c] = At(view', tracked', c) /\ m1[c].at = Resolve(view', c)
    BY <1>3, <2>1 DEF MapOf, At
  <2>3. CASE P!InBox(b, p)
    <3>1. p \in Domain(L) /\ Agrees(o, view, tracked, view', tracked', c, p)
      BY <1>3, <1>6, <2>1, <2>3, PointMoves
    <3>2. m[p] = At(view, tracked, p)
      BY <1>3, <3>1 DEF MapOf, L
    <3>3. QED
      BY <1>5, <2>2, <2>3, <3>1, <3>2 DEF Agrees
  <2>4. CASE ~P!InBox(b, p)
    BY <1>3, <1>6, <2>1, <2>2, <2>4, PointMoves
  <2>5. QED
    BY <2>3, <2>4
<1>7. /\ [n \in Names(L) |-> L.dims[n].start .. L.dims[n].stop - 1] = b
      /\ [n \in Names(L) |-> L.dims[n].start .. L.dims[n].stop - 1]' = b1
  BY <1>3 DEF BoxAt, L
<1>8. [c \in Domain(L) |->
         [at |-> Resolve(view, c), pos |-> [a \in tracked |-> PositionAt(L, a, c)],
          tags |-> [n \in {n \in Names(L) : L.dims[n].labels # None} |-> LabelAt(L.dims[n], c[n])]]] = m
  BY <1>3, MapIs
<1>9. [c \in Domain(L) |->
         [at |-> Resolve(view, c), pos |-> [a \in tracked |-> PositionAt(L, a, c)],
          tags |-> [n \in {n \in Names(L) : L.dims[n].labels # None} |-> LabelAt(L.dims[n], c[n])]]]' = m1
  BY <1>3 DEF MapOf, At, Labelled, L
<1>10. MapsTo(o, b, m, b1, m1)
  BY <1>4, <1>5, <1>6 DEF MapsTo
<1>11. MapsTo(op', BoxOfView, MapOfView, BoxOfView', MapOfView')
  BY <1>3, <1>7, <1>8, <1>9, <1>10 DEF BoxOfView, MapOfView
<1>12. QED
  BY <1>11 DEF P!Next, P!Do, P!SameTags, MapsTo, BoxOfView, MapOfView

\* The first state has known axes tracked, and a tensor is typed.
LEMMA TrackedAtFirst ==
  ASSUME Init
  PROVE  Tracked
BY SoundAtFirst, ViewsAssumption DEF Init, IsTensor, Tracked, Good, L

\* Every operation tracks only positions that its new view knows.
LEMMA TrackedStays ==
  ASSUME Tracked, [Next]_vars
  PROVE  Tracked'
<1>1. Sound' /\ IsCharted(L)'
  BY SoundStays, ChartedStays DEF Tracked, Good
<1>2. CASE Next
  <2>1. Follows
    BY <1>2, NextFollows DEF Tracked
  <2>2. QED
    BY <1>1, <2>1 DEF Follows, Tells, Tracked, Good, L
<1>3. CASE UNCHANGED vars
  BY <1>1, <1>3 DEF vars, Tracked, Good, L
<1>4. QED
  BY <1>2, <1>3

\* Every view, in every chain of operations, has well-formed charts and names, and the positions it
\* tracks are those it knows: a layout's axis has one tracked dim at most.
THEOREM TrackedAlways == Spec => []Tracked
<1>1. Init => Tracked
  BY TrackedAtFirst
<1>2. Tracked /\ [Next]_vars => Tracked'
  BY TrackedStays
<1>3. QED
  BY <1>1, <1>2, PTL DEF Spec

\* The views implement PointMaps.
THEOREM ViewsAreMaps == Spec => IsAPointMap
<1>1. Init => P!Init
  BY DEF Init, P!Init
<1>2. ASSUME Tracked, [Next]_vars PROVE [P!Next]_P!vars
  <2>1. CASE Next
    BY <1>2, <2>1, NextMaps
  <2>2. CASE UNCHANGED vars
    BY <2>2 DEF vars, P!vars, L
  <2>3. QED
    BY <1>2, <2>1, <2>2
<1>3. QED
  BY <1>1, <1>2, TrackedAlways, PTL DEF Spec, P!Spec, IsAPointMap

==============================================================================
