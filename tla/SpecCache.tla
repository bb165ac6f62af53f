----------------------------- MODULE SpecCache -----------------------------
(***************************************************************************)
(* Tier 1 of the cache (cache.py, class SpecializationCache): a TierCache  *)
(* whose keys name a template's code, the argument types and a generation, *)
(* and whose entries can go for three more reasons than the LRU: a guard   *)
(* that drifted, a template edited and run again, a generation bump.       *)
(*                                                                         *)
(* A caller is the hot path of registry.py, which probes and, on a miss,   *)
(* calls get_or_compile, which probes again, retires superseded entries    *)
(* and goes to the base class.  Each of these takes the lock once, and     *)
(* other threads run in between; stage is how far a call has come.         *)
(*                                                                         *)
(* A handle is a decorated closure.  Its fingerprint is its code and the   *)
(* types of its captures, so that two closures of one code share a key;    *)
(* its guards are its own cells, compared by identity with the values      *)
(* captured at decoration.  A record carries the guards of the handle it   *)
(* was built for.  A handle is drifted while a cell of it holds something  *)
(* else than what was captured.                                            *)
(***************************************************************************)
EXTENDS TierCache

CONSTANTS Codes, Locs, Handles, Args,
          LocOf,          \* [Codes -> Locs]: (co_filename, co_qualname)
          CodeOf,         \* [Handles -> Codes]
          MaxGeneration   \* bound on the generation bumps

ASSUME LocAssumption == LocOf \in [Codes -> Locs]
ASSUME CodeAssumption == CodeOf \in [Handles -> Codes]
ASSUME GenerationAssumption == MaxGeneration \in Nat
ASSUME KeysAssumption == Keys = Codes \X Args \X (0..MaxGeneration)
ASSUME NoNestingAssumption == \A k \in Keys : Deps[k] = {}

VARIABLES
  stage,        \* [Calls -> where in the two probes and get_or_compile]
  handle,       \* [Calls -> the handle that is dispatched]
  generation,   \* the generation counter
  currentCode,  \* [Locs -> the code last compiled at a location]
  drifted,      \* the handles with a rebound cell
  guardMisses, retirements

specVars == <<generation, currentCode, guardMisses, retirements>>
allVars == <<vars, stage, handle, specVars, drifted>>

Stages == {"none", "outer", "inner", "retire", "base"}
After(s) == CASE s = "outer" -> "inner" [] s = "inner" -> "retire"
CodeOfKey(k) == k[1]
GenerationOfKey(k) == k[3]
GuardsOk(b) == handle[b] \notin drifted

SpecInit ==
  /\ Init
  /\ stage = [c \in Calls |-> "none"]
  /\ handle = [c \in Calls |-> None]
  /\ generation = 0
  /\ currentCode = [l \in Locs |-> None]
  /\ drifted = {}
  /\ guardMisses = 0 /\ retirements = 0

-----------------------------------------------------------------------------
Advance(c, s) == stage' = [stage EXCEPT ![c] = s] /\ UNCHANGED handle

\* Entries went, and an event says so: the call goes on, to stage s, or the
\* event is forbidden and raises to the caller.
Emit(c, name, s) ==
  /\ \/ name \in forbid[c] /\ Raise(c, "Forbidden")
     \/ name \notin forbid[c] /\ UNCHANGED <<pc, answer, err>>
  /\ Advance(c, s)

\* key_for: the generation is part of the key from the moment it is read.
SpecCall(c, t, h, a, F) ==
  /\ Call(c, t, <<CodeOf[h], a, generation>>, F)
  /\ stage' = [stage EXCEPT ![c] = "outer"]
  /\ handle' = [handle EXCEPT ![c] = h]
  /\ UNCHANGED <<specVars, drifted>>

\* Variant: the guards are not looked at.
ProbeHitUnguarded(c) ==
  /\ stage[c] \in {"outer", "inner"}
  /\ Hit(c)
  /\ UNCHANGED <<stage, handle, specVars, drifted>>

\* probe: the entry is there and its guards hold; touch it and return it.
ProbeHit(c) ==
  /\ stage[c] \in {"outer", "inner"}
  /\ \E i \in DOMAIN ready : key[ready[i]] = key[c] /\ GuardsOk(ready[i])
  /\ Hit(c)
  /\ UNCHANGED <<stage, handle, specVars, drifted>>

\* probe: no entry.
ProbeMiss(c) ==
  /\ pc[c] = "lookup" /\ stage[c] \in {"outer", "inner"}
  /\ key[c] \notin Held(ready)
  /\ Advance(c, After(stage[c]))
  /\ UNCHANGED <<vars, specVars, drifted>>

\* Variant: a drifted entry is dropped without being counted.
ProbeDriftQuiet(c) ==
  /\ pc[c] = "lookup" /\ stage[c] \in {"outer", "inner"}
  /\ \E i \in DOMAIN ready :
       /\ key[ready[i]] = key[c] /\ ~ GuardsOk(ready[i])
       /\ ready' = RemoveAt(ready, i)
  /\ Advance(c, After(stage[c]))
  /\ UNCHANGED <<pc, callVars, target, answer, err, slotVars, evicted, building, stats,
                 specVars, drifted>>

\* probe: a guard of the entry drifted; count it, drop the entry and say so.
ProbeDrift(c) ==
  /\ pc[c] = "lookup" /\ stage[c] \in {"outer", "inner"}
  /\ \E i \in DOMAIN ready :
       /\ key[ready[i]] = key[c] /\ ~ GuardsOk(ready[i])
       /\ ready' = RemoveAt(ready, i)
  /\ guardMisses' = guardMisses + 1
  /\ Emit(c, "drift", After(stage[c]))
  /\ UNCHANGED <<callVars, target, slotVars, evicted, building, stats,
                 generation, currentCode, retirements, drifted>>

\* Where the entries are that do not belong to the code this call replaces.
Current(c) ==
  LET code == CodeOfKey(key[c])
      previous == currentCode[LocOf[code]]
  IN {i \in DOMAIN ready : previous = code \/ CodeOfKey(key[ready[i]]) # previous}

\* _retire_superseded: the code of this call is now the one of its location;
\* the entries of the code it replaces go, which is announced where there are
\* any, and the others keep their order.
Retire(c) ==
  /\ pc[c] = "lookup" /\ stage[c] = "retire"
  /\ currentCode' = [currentCode EXCEPT ![LocOf[CodeOfKey(key[c])]] = CodeOfKey(key[c])]
  /\ \E at \in [1..Cardinality(Current(c)) -> Current(c)] :
       /\ \A i, j \in DOMAIN at : i < j => at[i] < at[j]
       /\ ready' = [i \in DOMAIN at |-> ready[at[i]]]
  /\ retirements' = retirements + Len(ready) - Cardinality(Current(c))
  /\ \/ Current(c) = DOMAIN ready /\ Advance(c, "base") /\ UNCHANGED <<pc, answer, err>>
     \/ Current(c) # DOMAIN ready /\ Emit(c, "retire", "base")
  /\ UNCHANGED <<callVars, target, slotVars, evicted, building, stats,
                 generation, guardMisses, drifted>>

\* The base class takes over; its own lookup does not look at guards.
BaseStep(c) ==
  /\ stage[c] = "base"
  /\ Step(c)
  /\ UNCHANGED <<stage, handle, specVars, drifted>>

\* Variant: builds in flight are forgotten too.
BumpForgetsBuilds(t) ==
  /\ generation < MaxGeneration
  /\ generation' = generation + 1
  /\ retirements' = retirements + Len(ready)
  /\ ready' = <<>>
  /\ building' = [k \in Keys |-> None]
  /\ UNCHANGED <<pc, callVars, target, answer, err, slotVars, evicted, stats,
                 stage, handle, currentCode, guardMisses, drifted>>

\* bump_generation, on a thread that is in no call: clears tier 1.  The event
\* after it may raise to whoever bumped, who is no call and has nothing to undo.
BumpGeneration(t) ==
  /\ \A d \in Calls : thread[d] = t => ~ Active(d)
  /\ generation < MaxGeneration
  /\ generation' = generation + 1
  /\ retirements' = retirements + Len(ready)
  /\ ready' = <<>>
  /\ UNCHANGED <<pc, callVars, target, answer, err, slotVars, evicted, building, stats,
                 stage, handle, currentCode, guardMisses, drifted>>

\* The program rebinds a captured variable, or puts the captured object back.
Rebind(h) ==
  /\ h \notin drifted /\ drifted' = drifted \cup {h}
  /\ UNCHANGED <<vars, stage, handle, specVars>>
Restore(h) ==
  /\ h \in drifted /\ drifted' = drifted \ {h}
  /\ UNCHANGED <<vars, stage, handle, specVars>>

SpecStep(c) == ProbeHit(c) \/ ProbeMiss(c) \/ ProbeDrift(c) \/ Retire(c) \/ BaseStep(c)

SpecNext ==
  \/ \E c \in Calls, t \in Threads, h \in Handles, a \in Args, F \in Contexts :
       SpecCall(c, t, h, a, F)
  \/ \E c \in Calls : SpecStep(c)
  \/ \E t \in Threads : BumpGeneration(t)
  \/ \E h \in Handles : Rebind(h) \/ Restore(h)

SpecSpec == SpecInit /\ [][SpecNext]_allVars

-----------------------------------------------------------------------------
(* Properties                                                              *)

\* The variables tier 1 adds have their types.
SpecTypeOK ==
  /\ stage \in [Calls -> Stages]
  /\ handle \in [Calls -> Handles \cup {None}]
  /\ generation \in 0..MaxGeneration
  /\ currentCode \in [Locs -> Codes \cup {None}]
  /\ drifted \subseteq Handles
  /\ guardMisses \in Nat /\ retirements \in Nat

\* "Per-tier counters": every record ever built is ready, about to be, or was
\* counted when it went, as evicted, drifted or retired.  (Same-key builds are
\* then one more than the drops of that key: nothing recompiles for free.)
EntriesAddUp ==
  stats.compiles = Len(ready) + stats.evictions + guardMisses + retirements
                   + Cardinality({c \in Calls : pc[c] = "publish"})

\* The types, the invariant of the base tier, which probes, retirements and
\* bumps interfere with, and the counters over both.
SpecInv == SpecTypeOK /\ Inv /\ EntriesAddUp

\* Tier 1 is an atomic memo whose owner may drop entries: drifts, retirements
\* and bumps in the middle of a build never make a call get what was not built
\* for its key, build a key twice at once, or keep a failure.
ImplementsForgetfulMemo == Memo!ForgetfulMemoSpec
=============================================================================
