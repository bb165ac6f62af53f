------------------------------ MODULE Rewrite ------------------------------
(***************************************************************************)
(* The rewrite driver (rewrite.py) under the stages of a build: shared     *)
(* decompositions, then NORMALIZE_ENV, then legalize_params (pack.py), as  *)
(* Registry._build runs them.                                              *)
(*                                                                         *)
(* A node is an object: it has an address, and the driver remembers its    *)
(* results by address.  Objects nobody refers to are freed, and a new node *)
(* may be given the address of a freed one.  "args" are the operands and   *)
(* the bodies of the regions; equality of nodes leaves addresses out.      *)
(***************************************************************************)
EXTENDS Kinds, FiniteSets

CONSTANTS EnvTypes,      \* the types of the captures
          Programs,      \* the programs lowering may give, as nodes
          Decompositions,\* the rule lists of the gated decompositions
          Factor, Slack  \* the budget: Factor * (nodes + Slack) (4 and 16)

VARIABLES lowered,   \* the program as lowering gave it
          stages,    \* the stages of the build
          at,        \* the stage that runs
          program,   \* the region the current stage was given
          stack,     \* the frames of walk and apply_rules, the top one last
          memo,      \* address -> the node it was rewritten to, in this stage
          budget,    \* the rewrites left in this stage
          outcome    \* running, or how the build ended

vars == <<lowered, stages, at, program, stack, memo, budget, outcome>>

Node(id, op, attr, args) == [id |-> id, op |-> op, attr |-> attr, args |-> args]

RECURSIVE Ids(_)
Ids(n) == {n.id} \cup UNION {Ids(n.args[i]) : i \in DOMAIN n.args}

RECURSIVE Term(_)
Term(n) == [op |-> n.op, attr |-> n.attr, args |-> Each(Term, n.args)]

\* A frame: the node walked, its rewritten args, and the locals of
\* apply_rules: the node rebuilt, the current node, and the last rule's out.
Frame(n) == [node |-> n, args |-> <<>>, rebuilt |-> <<>>, current |-> <<>>, out |-> <<>>, steps |-> 0]
InRules(f) == f.rebuilt # <<>>
Held(f) == UNION {UNION {Ids(x[i]) : i \in DOMAIN x} : x \in {f.args, f.rebuilt, f.current, f.out}}
             \cup Ids(f.node)

\* The addresses in use, and those a new node may get: one never keyed, or
\* that of a freed node the memo still has an entry for.
Live == Ids(program) \cup UNION {Held(stack[i]) : i \in DOMAIN stack}
          \cup UNION {Ids(memo[a]) : a \in DOMAIN memo}
Addresses == LET used == Live \cup DOMAIN memo
             IN  {CHOOSE a \in 1 .. Cardinality(used) + 1 : a \notin used} \cup (DOMAIN memo \ Live)

-----------------------------------------------------------------------------
(* RULES: whether one matches a node, and the node it gives, which is new at *)
(* address a unless it is a part of the match.                               *)

Top == stack[Len(stack)]
EnvPlan == Plan(EnvTypes, <<>>)
PathOf(entry) == <<entry.index>> \o entry.sub
\* Variant: any slot beside the path.
SlotsBeside(path) == {i \in DOMAIN EnvPlan.slots : IsPrefix(Front(path), PathOf(EnvPlan.slots[i].entry))}
SlotsAt(path) == {i \in DOMAIN EnvPlan.slots : PathOf(EnvPlan.slots[i].entry) = path}
TypeAt(path) == LET RECURSIVE Down(_, _)
                    Down(t, p) == IF p = <<>> THEN t ELSE Down(Children(t)[Head(p)], Tail(p))
                IN  Down(EnvTypes[Head(path)], Tail(path))

FieldIndex(t, name) == CHOOSE i \in DOMAIN t.class.fields : t.class.fields[i].name = name

Matches(rule, n) ==
  CASE rule = "fold extract" -> n.op = "extract" /\ n.args[1].op = "env"
    [] rule = "fold field" -> n.op = "field" /\ n.args[1].op = "env"
    [] rule = "legalize" -> n.op = "env"
    [] rule = "fold tuple" -> n.op = "extract" /\ n.args[1].op = "tuple"
    [] rule = "grow" -> n.op = "neg"
    [] OTHER -> n.op = rule   \* a dialect's op, spelt with another

\* Which op a decomposition of the dialect ends an op in.
Spelt == [tanh |-> "sinh", sinh |-> "exp"]

Apply(rule, n, a) ==
  CASE rule = "fold extract" -> Node(a, "env", Append(n.args[1].attr, n.attr[1]), <<>>)
    [] rule = "fold field" ->
         Node(a, "env", Append(n.args[1].attr, FieldIndex(TypeAt(n.args[1].attr), n.attr[1])), <<>>)
    [] rule = "legalize" ->
         Node(a, "slot", <<EnvPlan.slots[CHOOSE i \in SlotsAt(n.attr) : TRUE].offset>>, <<>>)
    [] rule = "fold tuple" -> n.args[1].args[n.attr[1]]
    [] rule = "grow" -> Node(a, "neg", <<>>, <<n>>)
    [] OTHER -> Node(a, Spelt[rule], n.attr, n.args)

\* A capture used whole has no slot: legalize_params refuses it.
Refuses(rule, n) == rule = "legalize" /\ SlotsAt(n.attr) = {}

\* The ops of the namespaces core and abi, and those of the registered dialects.
CoreOps == {"env", "extract", "field", "tuple", "param", "slot", "yield", "add", "neg"}
DialectOps == {"tanh", "sinh", "exp"}

\* A stage: its rules, the ops that may be left after it ({}: any), and those
\* that may not.
Stage(rules, legal, forbid) == [rules |-> rules, legal |-> legal, forbid |-> forbid]
Normalize == Stage(<<"fold extract", "fold field">>, {}, {})
Legalize == Stage(<<"legalize">>, CoreOps \cup DialectOps, {"env"})

\* The first rule that matches a node; 0 if none.
FirstMatch(rules, n) ==
  IF \E i \in DOMAIN rules : Matches(rules[i], n)
  THEN CHOOSE i \in DOMAIN rules : Matches(rules[i], n) /\ \A j \in 1 .. i - 1 : ~Matches(rules[j], n)
  ELSE 0

Budget(n) == Factor * (Cardinality(Ids(n)) + Slack)
\* Variant: two at a time.
SpendTwo(b) == b - 2
Spend(b) == b - 1

RECURSIVE Ops(_)
Ops(n) == {n.op} \cup UNION {Ops(n.args[i]) : i \in DOMAIN n.args}
-----------------------------------------------------------------------------
Init == /\ lowered \in Programs
        /\ \E d \in Decompositions :
             stages = IF d = <<>> THEN <<Normalize, Legalize>>
                      ELSE <<Stage(d, {}, {}), Normalize, Legalize>>
        /\ at = 1
        /\ program = lowered
        /\ stack = <<Frame(lowered)>>
        /\ memo = <<>>
        /\ budget = Budget(lowered)
        /\ outcome = "running"

Running == outcome = "running" /\ stack # <<>>
Keep == UNCHANGED <<lowered, stages, at, program, outcome>>

\* The frame below the top one, with v returned to it.
Resumed(v) ==
  LET f == stack[Len(stack) - 1]
  IN  IF InRules(f) THEN [f EXCEPT !.current = <<v>>, !.steps = @ + 1]
                    ELSE [f EXCEPT !.args = Append(@, v)]

Stop(how, v) ==
  /\ outcome' = how
  /\ program' = v
  /\ stack' = <<>> /\ memo' = <<>>
  /\ UNCHANGED <<lowered, stages, at, budget>>

\* run_stage after rewrite: check the stage's legality, then the next stage.
IsLegal(v, stage) == /\ Ops(v) \cap stage.forbid = {}
                     /\ stage.legal # {} => Ops(v) \subseteq stage.legal
EndStage(v) ==
  IF ~IsLegal(v, stages[at]) THEN Stop("illegal", v)
  ELSE IF at = Len(stages) THEN Stop("done", v)
  ELSE /\ at' = at + 1
       /\ program' = v
       /\ stack' = <<Frame(v)>> /\ memo' = <<>>
       /\ budget' = Budget(v)
       /\ UNCHANGED <<lowered, stages, outcome>>

\* walk returns v, with what it remembers.
Return(v, entries) ==
  IF Len(stack) = 1 THEN EndStage(v)
  ELSE /\ stack' = Append(SubSeq(stack, 1, Len(stack) - 2), Resumed(v))
       /\ memo' = entries
       /\ UNCHANGED budget
       /\ Keep

\* walk finds the address in the memo.
Recall ==
  /\ Running /\ ~InRules(Top) /\ Top.args = <<>>
  /\ Top.node.id \in DOMAIN memo
  /\ Return(memo[Top.node.id], memo)

\* Variant: nothing is remembered.
RememberNothing(v) == memo
Remember(v) == (Top.node.id :> v) @@ memo
Entered == Running /\ ~InRules(Top) /\ (Top.args # <<>> \/ Top.node.id \notin DOMAIN memo)

\* Binders are never rewritten.
Binder ==
  /\ Entered /\ Top.node.op = "param"
  /\ Return(Top.node, Remember(Top.node))

\* walk of the next arg.
WalkArg ==
  /\ Entered /\ Top.node.op # "param"
  /\ Len(Top.args) < Len(Top.node.args)
  /\ stack' = Append(stack, Frame(Top.node.args[Len(Top.args) + 1]))
  /\ UNCHANGED <<memo, budget>> /\ Keep

\* All args are walked: the node itself, or a new one if an arg changed.
Rebuilt(a) ==
  IF Each(Term, Top.args) = Each(Term, Top.node.args) THEN Top.node
  ELSE Node(a, Top.node.op, Top.node.attr, Top.args)
Reassemble ==
  /\ Entered /\ Top.node.op # "param"
  /\ Len(Top.args) = Len(Top.node.args)
  /\ \E a \in Addresses :
       stack' = [stack EXCEPT ![Len(stack)].rebuilt = <<Rebuilt(a)>>, ![Len(stack)].current = <<Rebuilt(a)>>]
  /\ UNCHANGED <<memo, budget>> /\ Keep

Current == Top.current[1]
RuleNow == FirstMatch(stages[at].rules, Current)

\* apply_rules: a rule gives another node, which is walked in turn.
Fire ==
  /\ Running /\ InRules(Top) /\ RuleNow # 0
  /\ LET rule == stages[at].rules[RuleNow]
     IN  /\ ~Refuses(rule, Current)
         /\ budget > 0
         /\ \E a \in Addresses :
              stack' = Append([stack EXCEPT ![Len(stack)].out = <<Apply(rule, Current, a)>>],
                              Frame(Apply(rule, Current, a)))
         /\ budget' = Spend(budget)
         /\ UNCHANGED memo /\ Keep

Refuse ==
  /\ Running /\ InRules(Top)
  /\ RuleNow # 0 /\ Refuses(stages[at].rules[RuleNow], Current)
  /\ Stop("refused", program)

\* The budget is exhausted.  The other guard, 64 steps of apply_rules for one
\* node, is left out: BudgetStopsGrowth says that one step is the most.
GiveUp ==
  /\ Running /\ InRules(Top)
  /\ RuleNow # 0 /\ ~Refuses(stages[at].rules[RuleNow], Current)
  /\ budget = 0
  /\ Stop("unstable", program)

\* No rule matches: the node is done, and remembered.
Settle ==
  /\ Running /\ InRules(Top)
  /\ RuleNow = 0
  /\ Return(Current, Remember(Current))

Next == \/ Recall \/ Binder \/ WalkArg \/ Reassemble \/ Fire \/ Refuse \/ GiveUp \/ Settle
        \/ outcome # "running" /\ UNCHANGED vars

Spec == Init /\ [][Next]_vars

-----------------------------------------------------------------------------
(* What the rules say, without a memo. *)

\* The normal form: args first, then the first rule that matches, again.
RECURSIVE Normal(_, _)
Normal(rules, n) ==
  LET m == Node(0, n.op, n.attr, Each(LAMBDA x : Normal(rules, x), n.args))
      r == FirstMatch(rules, m)
  IN  IF r = 0 THEN m ELSE Normal(rules, Apply(rules[r], m, 0))
BeforeLegalize ==
  FoldLeft(LAMBDA n, s : Normal(s.rules, n), lowered, SubSeq(stages, 1, Len(stages) - 1))

\* What a node stands for: leaves of the captures, and ops applied to them.
RECURSIVE Captured(_)
Captured(path) ==
  LET t == TypeAt(path)
  IN  CASE t.type = "scalar" -> <<"leaf", path>>
        [] t.type = "record" ->
             <<"record", [f \in Range(Fields(t.class)) |-> Captured(Append(path, FieldIndex(t, f)))]>>
        [] OTHER -> <<"tuple", [i \in DOMAIN Children(t) |-> Captured(Append(path, i))]>>
AtOffset(o) == CHOOSE i \in DOMAIN EnvPlan.slots : EnvPlan.slots[i].offset = o
Meaning(op) == IF op \in {"tanh", "sinh"} THEN "exp" ELSE op
RECURSIVE Eval(_)
Eval(n) ==
  CASE n.op = "env" -> Captured(n.attr)
    [] n.op = "slot" -> <<"leaf", PathOf(EnvPlan.slots[AtOffset(n.attr[1])].entry)>>
    [] n.op \in {"extract", "field"} -> Eval(n.args[1])[2][n.attr[1]]
    [] n.op = "param" -> <<"param", n.attr>>
    [] OTHER -> <<Meaning(n.op), Each(Eval, n.args)>>

-----------------------------------------------------------------------------
(* PROPERTIES *)

\* A frame of the rules has all its args; the budget is never overdrawn; the
\* memo and the stack are gone once the build has ended.
TypeOK ==
  /\ outcome \in {"running", "done", "refused", "unstable", "illegal"}
  /\ budget \in 0 .. Budget(program)
  /\ \A i \in DOMAIN stack : InRules(stack[i]) => Len(stack[i].args) = Len(stack[i].node.args)
  /\ outcome # "running" <=> stack = <<>>

\* The nodes of the source that the decompositions spell anew, and whether one
\* of them is spelt anew twice.  Then the node of the first spelling is freed
\* with its address still in the memo, and the next new node may be given it.
RECURSIVE Nodes(_)
Nodes(n) == {n} \cup UNION {Nodes(n.args[i]) : i \in DOMAIN n.args}
Spelling == Range(stages[1].rules) \cap DOMAIN Spelt
SpeltAnew == {n \in Nodes(lowered) : n.op \in Spelling}
FreesAKey == \E n \in SpeltAnew : Spelt[n.op] \in Spelling
\* No new node can be taken for a freed one: there is none, or no other node.
NoKeyReused == FreesAKey => Cardinality(SpeltAnew) = 1

\* "Greedy, directional, deterministic": the result of a build is the one its
\* rules determine, in the builds that look up no address a freed node had.
Deterministic ==
  outcome = "done" => Term(program) = Term(Normal(Legalize.rules, BeforeLegalize))

\* A build that ends well computes what was lowered: each slot of the packed
\* captures stands for the very leaf that was read through tuples and fields.
BuildMeansSource == outcome = "done" => Eval(program) = Eval(lowered)

\* One object of the source is one object of the result: a shared
\* computation is not computed twice because of a stage.
SharedStaysShared ==
  outcome = "done" =>
    \A i, j \in DOMAIN lowered.args :
      lowered.args[i].id = lowered.args[j].id => program.args[i].id = program.args[j].id

\* A build is refused exactly for a capture used whole, and so never for one
\* whose uses all end in a leaf once they are folded.
RECURSIVE UsesWhole(_)
UsesWhole(n) == \/ n.op = "env" /\ TypeAt(n.attr).type # "scalar"
                \/ \E i \in DOMAIN n.args : UsesWhole(n.args[i])
RefusesWholeUses ==
  /\ outcome = "refused" => UsesWhole(BeforeLegalize)
  /\ outcome = "done" => ~UsesWhole(BeforeLegalize)

\* Only rules that grow a node for ever run out of the budget, and those do,
\* before the depth of the walk leaves what the budget allows.  What a walk of
\* a rule's result returns is settled, so no node takes a second step.
RECURSIVE Height(_)
Height(n) == 1 + FoldLeft(LAMBDA m, x : IF Height(x) > m THEN Height(x) ELSE m, 0, n.args)
BudgetStopsGrowth ==
  /\ outcome = "unstable" => "grow" \in Range(stages[1].rules)
  /\ outcome = "done" => ~("grow" \in Range(stages[1].rules) /\ "neg" \in Ops(lowered))
  /\ Len(stack) <= Height(lowered) + 2 * Budget(lowered)
  /\ \A i \in DOMAIN stack : stack[i].steps <= 1

\* A build that ends computes what its rules determine and what was lowered,
\* if no new node can have the address of a freed one that is in the memo.  Two
\* nodes that are spelt anew in two steps each refute both without that: the
\* second is taken for the first (MeaningWhateverFreed).
MeaningWhateverFreed == Deterministic /\ BuildMeansSource
MeaningIsKept == NoKeyReused => MeaningWhateverFreed
\* It ends, with a result or for a reason, and repeats no work.
BuildIsDisciplined == SharedStaysShared /\ RefusesWholeUses /\ BudgetStopsGrowth
=============================================================================
