------------------------------ MODULE MCViews ------------------------------
EXTENDS Views
Line(start, size, stride, chart) == Dim(stride, start, start + size, chart, None)
Plane(dims, offset) == [base |-> [dims |-> dims, offset |-> offset], guards |-> <<>>, size |-> 2]
\* Six elements of two bytes; "x" is charted, on an axis of another name.
ChartX == Chart(10, 3, "position", "X")
Dense == Plane("x" :> Line(0, 6, 2, ChartX), 0)
Grid == Plane("x" :> Line(0, 3, 4, ChartX) @@ "y" :> Line(-1, 2, 2, None), 2)
Named == [Grid EXCEPT !.base = WithLabels(@, "y", <<"q", "p">>)]
Flipped == GFlip(Pad(Dense, "x", -1, 6), "x")
Blocks == GSplit(Dense, "x", <<[name |-> "o", start |-> 0, stop |-> 3], [name |-> "i", start |-> 0, stop |-> 2]>>)
Strip == GDecimate(GSlice(Dense, "x", 1, 6), "x", 2, 1)
Row == Plane("y" :> Line(0, 3, 4, None), 2)
Taps3 == GWindow(Pad(Row, "y", -1, 5), "y", "s", -1, 1, 1)
Empty == GSlice(Grid, "y", 1, 1)
Pairs == GWindow(Dense, "x", "k", 0, 2, 1)
MCTensors == {Dense, Grid, Named, Flipped, Blocks, Taps3, Empty, Pairs}
MCOperands == {Strip, Grid, Blocks, GFlip(Dense, "x")}
MCCharts == {Chart(1, 1, "position", None), Chart(0, 2, "displacement", "X")}
MCShifts == {1, -2}
MCTaps == {<<0, 1>>, <<-1, 1>>}
=============================================================================
