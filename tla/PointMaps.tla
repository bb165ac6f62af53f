----------------------------- MODULE PointMaps -----------------------------
(***************************************************************************)
(* What a view promises, without strides, offsets or guards: a set of      *)
(* coordinates for each name, and for every point of their product where   *)
(* its datum is (or Fill), the position it has on each axis whose position *)
(* is known, and the labels of its dims.  Every view operation is the      *)
(* composition with a function of points: `Back` (PointOps) tells which    *)
(* point of the old view a point of the new one stands for.                *)
(***************************************************************************)
EXTENDS PointOps

CONSTANT Fill
VARIABLES op, box, map

vars == <<op, box, map>>

\* The operations by which the program labels the axes o.axes itself.  A
\* rename takes a chart without an axis from o.axes to o.axes.
Relabels == {"with_charts", "with_labels", "strip_charts", "repeat"}
Relabelled(o) == IF o.op \in Relabels \cup {"rename"} THEN o.axes ELSE {}
\* The operations after which every position known before still is (a chart
\* without an axis is on that of its dim's name, which a rename changes).
Keeps == {"slice", "shift", "flip", "split", "merge", "window", "decimate", "pad", "stencil", "bind",
          "simplify", "field", "recenter", "frames", "store"}
Origin(o, n) == IF o.op = "rename" /\ n = o.new THEN o.dim ELSE n

SameDatum(o, new, old) == new.at = IF o.op = "field" /\ old.at # Fill THEN old.at + o.offset ELSE old.at
SamePositions(o, new, old) ==
  /\ o.op \notin Relabels => DOMAIN new.pos \subseteq DOMAIN old.pos
  /\ o.op \in Keeps => DOMAIN old.pos \subseteq DOMAIN new.pos
  /\ \A a \in (DOMAIN new.pos \cap DOMAIN old.pos) \ Relabelled(o) :
       new.pos[a] = old.pos[a] + IF o.op = "recenter" /\ o.axis = a THEN o.by ELSE 0
SameTags(o, new, old) ==
  \/ o.op \in Relabels
  \/ /\ DOMAIN new.tags = {n \in DOMAIN box' : Origin(o, n) \in DOMAIN old.tags}
     /\ \A n \in DOMAIN new.tags : new.tags[n] = old.tags[Origin(o, n)]

Init == op = [op |-> "none"]
Do(o) ==
  /\ box' = NewBox(o, box)
  /\ DOMAIN map' = Points(box')
  /\ \A c \in DOMAIN map' :
       LET p == Back(o, box, c)
       IN  IF InBox(box, p) THEN /\ SameDatum(o, map'[c], map[p])
                                 /\ SamePositions(o, map'[c], map[p])
                                 /\ SameTags(o, map'[c], map[p])
           ELSE o.op \in {"pad", "stencil"} /\ map'[c].at = Fill
Next == Do(op')
Spec == Init /\ [][Next]_vars
=============================================================================
