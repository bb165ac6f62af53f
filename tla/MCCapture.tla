----------------------------- MODULE MCCapture -----------------------------
EXTENDS Capture
Number(n) == [is |-> "int", n |-> n]
Real64(n) == [is |-> "float", n |-> n]
Bool(n) == [is |-> "bool", n |-> n]
Pair(a, b) == [is |-> "tuple", elems |-> <<a, b>>]
MCSize == [i64 |-> 2, u64 |-> 2, f64 |-> 2, bool |-> 1]
AnySort == {"int", "tuple", "record", "handle", "pipeline"}
MCCells == [k1 |-> <<AnySort>>, k2 |-> <<{"int"}, AnySort>>]
\* With three bits an i64 is -4 .. 3, an u64 4 .. 7, and 8 is too big.  Of the
\* others there are two values of each type.
MCPlain == {Number(3), Number(1), Number(4), Number(8), Pair(Real64(2), Bool(1)), Pair(Real64(6), Bool(0))}
Class(n, fs) == [name |-> n, fields |-> fs]
Field(n, t) == [name |-> n, type |-> t]
Point == Class("P", <<Field("x", Scalar("f64")), Field("y", Scalar("bool"))>>)
Segment == Class("Q", <<Field("a", Record(Point)), Field("b", Scalar("i64"))>>)
\* A later class of the same name.
PointAgain == Class("P", <<Field("x", Scalar("bool"))>>)
MCClasses == {Point, Segment}
MCTwins == {Point, PointAgain}
P1 == [is |-> "record", class |-> Point, attrs |-> [x |-> Real64(7), y |-> Bool(1)]]
P0 == [is |-> "record", class |-> Point, attrs |-> [x |-> Real64(5), y |-> Bool(0)]]
MCInstances(c) ==
  CASE c = Point -> {P0, P1}
    \* A field out of the range of its type is only refused when it is packed.
    [] c = Segment -> {[is |-> "record", class |-> Segment, attrs |-> [a |-> P0, b |-> Number(n)]] : n \in {1, 5}}
    [] OTHER -> {[is |-> "record", class |-> PointAgain, attrs |-> [x |-> Bool(1)]]}
MCResults == {Real64(1), Pair(Pair(Number(1), Bool(1)), Real64(2)), Pair(Real64(1), Pair(Number(4), Number(2)))}
=============================================================================
