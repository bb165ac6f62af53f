------------------------------ MODULE PointOps ------------------------------
(***************************************************************************)
(* What a view operation does to a box, a set of coordinates for each      *)
(* name, and which point of the old box each point of the new one stands   *)
(* for: nothing else of it is left when strides and offsets are not looked *)
(* at.  An operation is a record of its name and its arguments.            *)
(***************************************************************************)
EXTENDS Integers, Sequences, SequencesExt, FiniteSetsExt, TLC

\* The function on n alone, and f where it is defined or else g.
Single(n, x) == [m \in {n} |-> x]
Override(f, g) == [x \in DOMAIN f \cup DOMAIN g |-> IF x \in DOMAIN f THEN f[x] ELSE g[x]]

Points(b) == FoldSet(LAMBDA n, S : {Override(c, Single(n, i)) : c \in S, i \in b[n]}, {<<>>}, DOMAIN b)
Without(f, S) == [x \in DOMAIN f \ S |-> f[x]]
Multiplied(extents) == FoldFunction(LAMBDA x, p : x * p, 1, extents)
Wide(parts, j) == Multiplied([i \in (j + 1) .. Len(parts) |-> parts[i].stop - parts[i].start])
\* The points of the names parts below the j-th.
Below(b, parts, j) == Multiplied([i \in (j + 1) .. Len(parts) |-> Cardinality(b[parts[i]])])

\* Where a window has all its places, and the places a decimation keeps.
Covered(o, b) ==
  LET reach == UNION {{i - o.dilation * t : t \in o.lo .. o.hi - 1} : i \in b[o.dim]}
  IN  {i \in reach : \A t \in o.lo .. o.hi - 1 : i + o.dilation * t \in b[o.dim]}
Decimated(o, b) == {(i - o.phase) \div o.factor : i \in {i \in b[o.dim] : (i - o.phase) % o.factor = 0}}
\* The box of the view that o makes of box b.
NewBox(o, b) ==
  LET Set(n, coordinates) == Override(Single(n, coordinates), b)
  IN  CASE o.op = "slice" -> Set(o.dim, b[o.dim] \cap o.lo .. o.hi - 1)
        [] o.op = "select" -> Without(b, DOMAIN o.points)
        [] o.op = "shift" -> Set(o.dim, {i + o.by : i \in b[o.dim]})
        [] o.op = "rename" -> Override(Single(o.new, b[o.dim]), Without(b, {o.dim}))
        [] o.op = "repeat" -> Set(o.dim, o.lo .. o.hi - 1)
        [] o.op = "split" -> Override([n \in {o.parts[j].name : j \in DOMAIN o.parts} |->
                                         LET j == CHOOSE j \in DOMAIN o.parts : o.parts[j].name = n
                                         IN  o.parts[j].start .. o.parts[j].stop - 1], Without(b, {o.dim}))
        [] o.op = "merge" ->
             Override(Single(o.new, o.start .. o.start + Below(b, o.parts, 0) - 1), Without(b, Range(o.parts)))
        [] o.op = "diagonal" ->
             Override(Single(o.new, {i \in b[CHOOSE n \in o.parts : TRUE] : \A n \in o.parts : i \in b[n]}), Without(b, o.parts))
        [] o.op = "window" -> Override(Single(o.dim, Covered(o, b)), Set(o.new, o.lo .. o.hi - 1))
        [] o.op = "decimate" -> Set(o.dim, Decimated(o, b))
        [] o.op = "subscript" ->
             IF o.step = 0 THEN Without(b, {o.dim})
             ELSE Set(o.dim, {i \div o.step : i \in {i \in o.lo .. o.hi - 1 : (i - o.lo) % o.step = 0}})
        [] o.op = "pad" -> Set(o.dim, o.lo .. o.hi - 1)
        [] o.op = "stencil" -> Set(o.new, o.lo .. o.hi)
        [] OTHER -> b

\* The point of box b that point c of the new view stands for.
Back(o, b, c) ==
  LET At(n, i) == Override(Single(n, i), c)
      Move(n, i, S) == Override(Single(n, i), Without(c, S))
      Low(n) == Min(b[n])
  IN  CASE o.op = "select" -> Override(o.points, c)
        [] o.op = "shift" -> At(o.dim, c[o.dim] - o.by)
        [] o.op = "rename" -> Move(o.dim, c[o.new], {o.new})
        [] o.op = "repeat" -> Without(c, {o.dim})
        [] o.op = "flip" -> At(o.dim, Low(o.dim) + Max(b[o.dim]) - c[o.dim])
        [] o.op = "split" ->
             LET Digit(j) == Wide(o.parts, j) * (c[o.parts[j].name] - o.parts[j].start)
             IN  Move(o.dim, Low(o.dim) + SumFunction([j \in DOMAIN o.parts |-> Digit(j)]),
                      {o.parts[j].name : j \in DOMAIN o.parts})
        [] o.op = "merge" ->
             Override([n \in Range(o.parts) |->
                         LET j == CHOOSE j \in DOMAIN o.parts : o.parts[j] = n
                         IN  Low(n) + (((c[o.new] - o.start) \div Below(b, o.parts, j)) % Cardinality(b[n]))],
                      Without(c, {o.new}))
        [] o.op = "diagonal" -> Override([n \in o.parts |-> c[o.new]], Without(c, {o.new}))
        [] o.op \in {"window", "stencil"} -> Move(o.dim, c[o.dim] + o.dilation * c[o.new], {o.new})
        [] o.op = "decimate" -> At(o.dim, o.factor * c[o.dim] + o.phase)
        [] o.op = "subscript" ->
             At(o.dim, IF o.step = 0 THEN o.lo ELSE (o.step * c[o.dim]) + (o.lo % o.step))
        [] OTHER -> c

InBox(b, p) == \A n \in DOMAIN b : p[n] \in b[n]
=============================================================================
