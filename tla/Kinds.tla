------------------------------- MODULE Kinds -------------------------------
(***************************************************************************)
(* Values and their summaries (types.py, valuekind.py, and the kinds of    *)
(* capture.py, derived.py, pipe.py and surfaces.py record), and marshaling *)
(* (pack.py) from the types of values to bytes and back.                   *)
(*                                                                         *)
(* A value is a tagged record; a handle or a pipeline carries the type and *)
(* the fingerprint it was given when it was made.  A class of records is   *)
(* its name and its fields, in order.                                      *)
(***************************************************************************)
EXTENDS Integers, Sequences, SequencesExt

CONSTANTS
  Width,   \* the bits of an integer: 64 in the code
  Size     \* the bytes of each scalar kind: struct.calcsize of _FMTS

Scalar(k) == [type |-> "scalar", kind |-> k]
Tuple(ts) == [type |-> "tuple", elems |-> ts]
Record(c) == [type |-> "record", class |-> c]
FnType(t, ts) == [type |-> "fn", template |-> t, env |-> ts]

Base(code) == [base |-> code]
Derived(tag, b, static) == [tag |-> tag, base |-> b.base, static |-> static]

Each(f(_), s) == [i \in DOMAIN s |-> f(s[i])]

\* The bucket of an integer; a BigIntError outside all of them.
IntBucket(n) == IF n >= -(2^(Width - 1)) /\ n < 2^(Width - 1) THEN "i64"
                ELSE IF n >= 0 /\ n < 2^Width THEN "u64" ELSE "big"
Fits(n) == IntBucket(n) # "big"

ScalarOf(v) == CASE v.is = "int" -> IntBucket(v.n) [] v.is = "bool" -> "bool" [] v.is = "float" -> "f64"

Fields(c) == Each(LAMBDA f : f.name, c.fields)
Attributes(v) == [i \in DOMAIN v.class.fields |-> v.attrs[v.class.fields[i].name]]

RECURSIVE TypeOf(_)
TypeOf(v) ==
  CASE v.is = "tuple" -> Tuple(Each(TypeOf, v.elems))
    [] v.is = "record" -> Record(v.class)
    [] v.is \in {"handle", "pipeline"} -> v.fntype
    [] OTHER -> Scalar(ScalarOf(v))

\* The fingerprint of a record is the name of its class alone.
RecordFingerprint(v) == <<"rec", v.class.name>>

RECURSIVE Fingerprint(_)
Fingerprint(v) ==
  CASE v.is = "tuple" -> <<"t", Each(Fingerprint, v.elems)>>
    [] v.is = "record" -> RecordFingerprint(v)
    [] v.is \in {"handle", "pipeline"} -> v.fp
    [] OTHER -> <<ScalarOf(v)>>

RECURSIVE Flatten(_)
Flatten(v) ==
  CASE v.is = "tuple" -> FlattenSeq(Each(Flatten, v.elems))
    [] v.is = "record" -> FlattenSeq(Each(Flatten, Attributes(v)))
    [] v.is \in {"handle", "pipeline"} -> FlattenSeq(Each(Flatten, v.captures))
    [] OTHER -> <<v>>

-----------------------------------------------------------------------------
(* PACKING: the leaves of a type, the slots of a plan, the getters of an    *)
(* extractor, staging and reading back.  A byte of staging holds a leaf     *)
(* value and the position of the byte in it.                                *)

\* The types of a composite's children (_CHILDREN).
Children(t) == CASE t.type = "tuple" -> t.elems
                 [] t.type = "fn" -> t.env
                 [] t.type = "record" -> Each(LAMBDA f : f.type, t.class.fields)
                 [] OTHER -> <<>>

\* The sub-path and the scalar kind of each leaf of a type, in order.
RECURSIVE LeafEntries(_)
LeafEntries(t) ==
  IF t.type = "scalar" THEN << [sub |-> <<>>, kind |-> t.kind] >>
  ELSE FlattenSeq([i \in DOMAIN Children(t) |->
         Each(LAMBDA e : [e EXCEPT !.sub = <<i>> \o @], LeafEntries(Children(t)[i]))])

\* The entries of the types under one root.
Entries(root, types) ==
  FlattenSeq([i \in DOMAIN types |->
    Each(LAMBDA e : [root |-> root, index |-> i, sub |-> e.sub, kind |-> e.kind], LeafEntries(types[i]))])

RECURSIVE TotalSize(_)
TotalSize(es) == IF es = <<>> THEN 0 ELSE Size[Head(es).kind] + TotalSize(Tail(es))

\* plan_from_types: each entry at the offset the ones before it leave.
Offset(es, i) == TotalSize(SubSeq(es, 1, i - 1))
PlanOf(es) == [slots |-> [i \in DOMAIN es |-> [entry |-> es[i], offset |-> Offset(es, i)]],
               size |-> TotalSize(es)]
\* Variant: the arguments are placed as if nothing was captured.
PlanOfEach(envTypes, argTypes) ==
  LET env == PlanOf(Entries("env", envTypes))
      arg == PlanOf(Entries("arg", argTypes))
  IN  [slots |-> env.slots \o arg.slots, size |-> env.size + arg.size]
Plan(envTypes, argTypes) == PlanOf(Entries("env", envTypes) \o Entries("arg", argTypes))
ResultPlan(t) == PlanOf(Entries("out", <<t>>))

\* The child aspect: the type and the value one step down, by the TYPE.
ChildValue(t, v, i) == CASE t.type = "tuple" -> v.elems[i]
                         [] t.type = "fn" -> v.captures[i]
                         [] t.type = "record" -> v.attrs[t.class.fields[i].name]
RECURSIVE Descend(_, _, _)
Descend(t, v, sub) ==
  IF sub = <<>> THEN v ELSE Descend(Children(t)[Head(sub)], ChildValue(t, v, Head(sub)), Tail(sub))

\* The leaf values an extractor built from these types reads.
Extract(plan, envTypes, argTypes, env, args) ==
  Each(LAMBDA s : IF s.entry.root = "env"
                  THEN Descend(envTypes[s.entry.index], env[s.entry.index], s.entry.sub)
                  ELSE Descend(argTypes[s.entry.index], args[s.entry.index], s.entry.sub),
       plan.slots)

\* pack_into writes the slots in order; a later write wins a byte.
Bytes(slot) == slot.offset .. (slot.offset + Size[slot.entry.kind] - 1)
Write(staging, slot, v) ==
  [b \in DOMAIN staging |-> IF b \in Bytes(slot) THEN <<v, b - slot.offset>> ELSE staging[b]]
PackInto(plan, staging, values) ==
  FoldLeft(LAMBDA st, i : Write(st, plan.slots[i], values[i]), staging, [i \in DOMAIN values |-> i])

Empty(plan) == [b \in 0 .. plan.size - 1 |-> <<>>]
\* A slot reads v when all of its bytes are there, and else some other value.
Readable(staging, slot, v) == \A b \in Bytes(slot) : staging[b] = <<v, b - slot.offset>>
ReadSlot(staging, slot) == LET v == staging[slot.offset][1]
                           IN  IF Readable(staging, slot, v) THEN v ELSE [is |-> "garbage"]
ReadSlots(plan, staging) == Each(LAMBDA s : ReadSlot(staging, s), plan.slots)

\* unflatten: takes the next leaves, and returns the value and what is left.
RECURSIVE Rebuild(_, _)
RECURSIVE RebuildAll(_, _)
RebuildAll(ts, leaves) ==
  IF ts = <<>> THEN [values |-> <<>>, rest |-> leaves]
  ELSE LET first == Rebuild(Head(ts), leaves)
           others == RebuildAll(Tail(ts), first.rest)
       IN  [values |-> <<first.value>> \o others.values, rest |-> others.rest]
Rebuild(t, leaves) ==
  IF t.type = "scalar" THEN [value |-> Head(leaves), rest |-> Tail(leaves)]
  ELSE LET parts == RebuildAll(t.elems, leaves)
       IN  [value |-> [is |-> "tuple", elems |-> parts.values], rest |-> parts.rest]
=============================================================================
