------------------------------ MODULE Capture ------------------------------
(***************************************************************************)
(* Closures captured, composed and dispatched (capture.py, derived.py,     *)
(* pipe.py, surfaces.py record, and the keys and plans of registry.py).    *)
(*                                                                         *)
(* The program registers classes of records, decorates closures over       *)
(* values it has, pipes them together and calls them.  A handle keeps the  *)
(* type and the fingerprint of its making; the memo of FnTypes and the     *)
(* records of earlier dispatches are found again by fingerprints, so what  *)
(* they hold must fit every value with that fingerprint.                   *)
(***************************************************************************)
EXTENDS Kinds, FiniteSets

CONSTANTS Codes,        \* the code objects of decorated functions
          Cells,        \* Cells[c]: for each cell of c's closures, the sorts of value put there
          Plain,        \* the numbers and tuples at hand
          Classes,      \* the dataclasses the program registers
          Instances(_), \* instances of a class
          Results,      \* values that kernels return
          MaxHeld,      \* bound: handles and pipelines made in a behaviour
          MaxRecords    \* bound: records built in a generation

VARIABLES defined,   \* the classes registered with the kind table
          fntypes,   \* _FNTYPES: code and fingerprints of the cells -> FnType
          held,      \* the handles and pipelines of the program
          records,   \* tier 1 of this generation: key -> types and plan
          launched   \* the last dispatch: its target, arguments, slots and staging

vars == <<defined, fntypes, held, records, launched>>

None == <<>>

\* What the program can capture or pass: each has a kind in the table.
Values == Plain \cup UNION {Instances(c) : c \in defined} \cup held

\* A BigIntError, at the definition or the call, for an integer that fits no
\* bucket, also inside tuples; the summary of a record does not look at its fields.
RECURSIVE Typeable(_)
Typeable(v) == CASE v.is = "int" -> Fits(v.n)
                 [] v.is = "tuple" -> \A i \in DOMAIN v.elems : Typeable(v.elems[i])
                 [] OTHER -> TRUE

-----------------------------------------------------------------------------
HandleFingerprint(code, envFp) == <<"H", code, envFp>>

\* Variant: any FnType of the code.
FnTypeByCode(code, captures) ==
  LET same == {k \in DOMAIN fntypes : k[1] = code}
  IN  IF same # {} THEN fntypes[CHOOSE k \in same : TRUE] ELSE FnType(Base(code), Each(TypeOf, captures))
\* The FnType found under the fingerprints, or one made from the values.
FnTypeFor(code, captures) ==
  LET key == <<code, Each(Fingerprint, captures)>>
  IN  IF key \in DOMAIN fntypes THEN fntypes[key]
      ELSE FnType(Base(code), Each(TypeOf, captures))

Handle(code, captures) ==
  [is |-> "handle", fntype |-> FnTypeFor(code, captures), captures |-> captures,
   fp |-> HandleFingerprint(code, Each(Fingerprint, captures))]

\* Terminal "collect" is the one boundary stage.
Collect == [is |-> "terminal", fp |-> <<"T", "collect">>]
Parts(v) == IF v.is = "pipeline" THEN v.parts ELSE <<v>>
IsStage(p) == p.is = "handle"
PartFingerprint(p) == IF IsStage(p) THEN <<"S", p.fp>> ELSE p.fp

\* Nothing may follow a terminal; a pipeline has a stage.
Composable(parts) ==
  /\ \A i \in 1 .. Len(parts) - 1 : IsStage(parts[i])
  /\ IsStage(parts[1])

Pipeline(parts) ==
  LET stages == SelectSeq(parts, IsStage)
      terminals == SelectSeq(parts, LAMBDA p : ~IsStage(p))
  IN  [is |-> "pipeline", parts |-> parts, captures |-> stages,
       fntype |-> FnType(Derived("pipe", stages[1].fntype.template, Len(terminals)),
                         Each(LAMBDA s : s.fntype, stages)),
       fp |-> <<"P", Each(PartFingerprint, parts)>>]

-----------------------------------------------------------------------------
Init == /\ defined = {}
        /\ fntypes = <<>>
        /\ held = {}
        /\ records = <<>>
        /\ launched = None

\* record: the class has a kind, and both tiers must miss.
DefineRecord(c) ==
  /\ c \notin defined
  /\ defined' = defined \cup {c}
  /\ records' = <<>>
  /\ launched' = None
  /\ UNCHANGED <<fntypes, held>>

\* make_handle.
Decorate(code, captures) ==
  /\ \A i \in DOMAIN captures : captures[i].is \in Cells[code][i]
  /\ Cardinality(held) < MaxHeld
  /\ \A i \in DOMAIN captures : Typeable(captures[i])
  /\ fntypes' = (<<code, Each(Fingerprint, captures)>> :> FnTypeFor(code, captures)) @@ fntypes
  /\ held' = held \cup {Handle(code, captures)}
  /\ launched' = None
  /\ UNCHANGED <<defined, records>>

\* left | right.
Compose(left, right) ==
  /\ Cardinality(held) < MaxHeld
  /\ Composable(Parts(left) \o Parts(right))
  /\ held' = held \cup {Pipeline(Parts(left) \o Parts(right))}
  /\ launched' = None
  /\ UNCHANGED <<defined, fntypes, records>>

\* struct.pack_into takes a value for a slot: an integer in the slot's range.
Packable(kind, leaf) == kind \in {"i64", "u64"} => leaf.is = "int" /\ IntBucket(leaf.n) = kind

Key(target, args) == <<target.fp, Each(Fingerprint, args)>>

\* Variant: a plan of the captures alone.
RecordForEnv(target, args) ==
  [env |-> target.fntype.env, args |-> Each(TypeOf, args), plan |-> Plan(target.fntype.env, <<>>)]
\* _build, as far as types shape it.
RecordFor(target, args) ==
  LET argTypes == Each(TypeOf, args)
  IN  [env |-> target.fntype.env, args |-> argTypes, plan |-> Plan(target.fntype.env, argTypes)]

\* dispatch: find or build the record; then extract, pack and launch.  A field of
\* a record that its slot has no room for raises from pack_into, and the record
\* stays.
Dispatch(target, args) ==
  LET key == Key(target, args)
      record == IF key \in DOMAIN records THEN records[key] ELSE RecordFor(target, args)
      values == Extract(record.plan, record.env, record.args, target.captures, args)
  IN  /\ \A i \in DOMAIN args : Typeable(args[i])
      /\ key \in DOMAIN records \/ Cardinality(DOMAIN records) < MaxRecords
      /\ records' = (key :> record) @@ records
      /\ launched' =
           IF \A i \in DOMAIN values : Packable(record.plan.slots[i].entry.kind, values[i])
           THEN [target |-> target, args |-> args, plan |-> record.plan,
                 staging |-> PackInto(record.plan, Empty(record.plan), values)]
           ELSE None
      /\ UNCHANGED <<defined, fntypes, held>>

Next == \/ \E c \in Classes : DefineRecord(c)
        \/ \E code \in Codes : \E vs \in [DOMAIN Cells[code] -> Values] : Decorate(code, vs)
        \/ \E l \in held, r \in held \cup {Collect} : Compose(l, r)
        \/ \E t \in held, a \in Values : Dispatch(t, <<a>>)

Spec == Init /\ [][Next]_vars

-----------------------------------------------------------------------------
(* PROPERTIES *)

\* The bookkeeping: every memoised FnType is one of its code, everything held
\* is fingerprinted, and a record has a plan of its own types.
TypeOK ==
  /\ defined \subseteq Classes
  /\ \A k \in DOMAIN fntypes : fntypes[k].template = Base(k[1]) /\ Len(fntypes[k].env) = Len(k[2])
  /\ \A h \in held : Len(h.captures) = Len(h.fntype.env)
  /\ \A k \in DOMAIN records : records[k].plan = Plan(records[k].env, records[k].args)

\* The soundness law of valuekind.py: values with equal fingerprints have
\* equal types, also values that were made at different times.
SoundnessLaw == \A u, v \in {x \in Values : Typeable(x)} :
                  Fingerprint(u) = Fingerprint(v) => TypeOf(u) = TypeOf(v)

\* The marshaling law of Handle: captures[i] is a value of env_types[i],
\* though the types may come from the memo, where other values left them.
CapturesHaveTheirTypes ==
  \A h \in held : \A i \in DOMAIN h.captures : TypeOf(h.captures[i]) = h.fntype.env[i]

\* The alignment law: flatten yields one value for each leaf entry of the
\* type, in order, and of its kind, though a field may be out of its range.
IsInt(kind) == kind \in {"i64", "u64", "big"}
AlignmentLaw ==
  \A v \in {x \in Values : Typeable(x)} :
    LET entries == LeafEntries(TypeOf(v))
        leaves == Flatten(v)
    IN  /\ Len(leaves) = Len(entries)
        /\ \A i \in DOMAIN leaves : LET kind == ScalarOf(leaves[i])
                                   IN  kind = entries[i].kind \/ (IsInt(kind) /\ IsInt(entries[i].kind))

\* What the kinds promise about a value.
KindLaws == SoundnessLaw /\ CapturesHaveTheirTypes /\ AlignmentLaw

\* However the record was found, each slot of the staging buffer can be read
\* back whole, and is the leaf that flattening the target's own captures and
\* the arguments of this very call has at that place.
StagingIsTheCall ==
  launched # None =>
    LET slots == launched.plan.slots
        leaves == FlattenSeq(Each(Flatten, launched.target.captures \o launched.args))
    IN  /\ Len(slots) = Len(leaves)
        /\ \A i \in DOMAIN slots : /\ Readable(launched.staging, slots[i], leaves[i])
                                   /\ slots[i].entry.kind = ScalarOf(leaves[i])

\* A result of numbers and tuples, a captured one too, is packed by the plan of
\* its type and read back from the bytes as itself.
ResultsRoundTrip ==
  \A v \in Results \cup {x \in Values : Typeable(x) /\ x.is \notin {"record", "handle", "pipeline"}} :
    LET plan == ResultPlan(TypeOf(v))
        buffer == PackInto(plan, Empty(plan), Flatten(v))
    IN  Rebuild(TypeOf(v), ReadSlots(plan, buffer)).value = v

\* What goes to the buffer, and comes out of it, is what was passed.
BytesAreTheCall == StagingIsTheCall /\ ResultsRoundTrip
=============================================================================
