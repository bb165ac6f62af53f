# A TLA+ model of pdum_dsl

The repository holds two packages. `packages/dsl` compiles decorated Python
closures on first call and serves later calls from a two-tier cache.
`packages/tensorlib` is a tensor language on top of it: views of memory, a
dialect of programs with derivatives, passes that transform, check and carve
them into kernels, and compute kernels written as Python. The modules here
model both, check them with TLC on small instances, and prove the concurrent
core and the algebra of views with TLAPS. Files named without a path are of `packages/dsl/src/pdum/dsl`
(first table) and of `packages/tensorlib/src/pdum/tl` (second table).

## The system

### packages/dsl: the compiler and its caches

| Part | State | Operations | Interacts with | Hard about it |
|---|---|---|---|---|
| Cache tier, `cache.py` `_TierCache` | `_ready` (LRU dict), `_building` (slots), counters, one lock | `get_or_compile`, `peek`, `keys` | callers on any thread; `compile_fn` calls back into it; events | concurrent misses, failing and re-entrant compiles, eviction, exceptions handed to waiters |
| Specialization cache, `cache.py` `SpecializationCache` | the above, generation, current code per location, guard and retirement counters | `probe`, `get_or_compile`, `bump_generation`, `_retire_superseded` | dispatch, registrations, cells the program rebinds | several critical sections per call, drift, builds in flight over a bump |
| Dispatch, `registry.py` | registry tables, both tiers, records with a staging buffer | `dispatch`, `_build`, `register_*`, `extend` | all of the above, lowering, backends | reads registry state at many moments of one build |
| Registration doors, `surfaces.py` | none of its own | `defop`, `spell`, `intrinsic`, `overload`, `record`, `_invalidate` | the registry | mutate, bump and swap are three steps |
| Events, `events.py` and `recorder.py` | sinks, the forbid context, span depth, buckets | `emit`, `span`, `forbid`, `record` | everything announces here | sinks come and go while events fire |
| Kinds and capture, `valuekind.py`, `types.py`, `capture.py`, `pipe.py` | kind tables, snapshot and FnType memos | `typeof`, `fingerprint`, `flatten`, `make_handle` | keys of both tiers | a fingerprint must determine the type |
| Packing, `pack.py` | none | slot plans, `legalize_params`, extractors | dispatch | offsets and alignment, paths through nested captures |
| IR and rewriting, `ir.py`, `rewrite.py` | builders, memo tables of one build | `rewrite`, content keys | lowering | termination, identity of freed nodes |
| Lowering, `lower.py`, `value.py`, `ops.py`, `intrinsics.py`, `derivative.py` | the scope of names, blocks, memos of a build | one rule for each node of syntax | IR, kinds, capture | joins of branches and loops, early exits, tangents |
| Rendering and reference run, `render.py`, `reference.py` | the names of one rendering | placing statements, executing them | artifacts by content | a statement must not run before what it needs, nor where it would trap |

### packages/tensorlib: the tensor language

| Part | State | Operations | Interacts with | Hard about it |
|---|---|---|---|---|
| Layouts, `layout.py` | immutable dims, strides, offset | `slice`, `select`, `shift`, `flip`, `split`, `merge`, `diagonal`, `window`, `repeat` and others | tensors, dialect | domains that do not start at 0, strides, overlap |
| Guards, `guarded.py` | a layout and its guards | `pad`, `stencil`, and every view through guards | layouts | a guard follows every later view |
| Coordinates and charts, `coords.py`, `chart.py`, `tensor.py` | charts and labels of dims, frames | points, slices, `admit`, `alignment` and its fixes | kernels, layouts | positions stay with the data |
| Tensors, `tensor.py`, `buffer.py` | a buffer all views share | reads, `__setitem__`, views | layouts | stores through views, aliased values |
| Dialect, `dialect.py` | regions, the evaluator's values | type and shape rules, evaluation, adjoints of each operation | all passes | extents, domains, folds as state machines |
| Gradients, `autodiff.py` | cotangents, checkpoints | `grad`, `derive_vjp`, `derive_step_vjp`, `fold_grad` | dialect | fan-out, reversal of folds in bounded memory |
| Transformations, `transforms.py`, `memory.py` | one walk's tables | DCE, erasing stages, minimum cut, peak memory, counts | regions | last uses through aliases, ties of cuts |
| Units and carriers, `signatures.py`, `units.py` | a substitution under way | inference over regions and folds | dialect | what is learnt late must reach what was seen early |
| Placement, `placement.py` | dims bound to levels of a machine | traffic events of each operation | dialect | motion without an event |
| Fusion and certificates, `certify.py`, `fusion.py` | claims, generated tiles, verdicts | templates of contractions, normalisations, scans, attention; certification | partitioner | when a tile may stand for its source |
| Partitioner and launch, `partition.py`, `launch.py` | claims, members, travel, residue | rungs of templates, absorption, dissolution, extraction, grouping; footprints, masks, loop bounds | fusion | a value held by two claims; bounds off by one |
| Bodies of markers and assemblages, `mdsl.py`, `registry.py`, `assemblage.py`, `scope.py` | registries of names, the scope stack, the assemblage tier | lowering bodies, `register`, `derive`, sites, params, policies, taps | dialect, dsl caches | what a cached assemblage depends on |
| Compute kernels, `kernel.py` | memos of artifacts and lifted functions, bindings of oracle markers | lifting a body, geometry, taps, launches | dialect, tensors, dsl capture | order of reads and stores, staged loops, functions as arguments |
| Ledger, `analysis.py` | the tier of facts, the ledger, its file | measurements, `save_ledger`, `load_ledger` | the cache tier | two tables of one fact, files cut short |

What makes each part correct is stated as properties of its module; the
hazards, each at its line, are listed in `PROJECT.json`.

## Modules

```
THE CACHES                          PROOFS               THE COMPILER
AtomicMemo  what a tier promises                         Kinds      types, leaves, slots, staging
   ^ implements                                             ^ extends
TierCache   _TierCache              TierCacheProofs      Capture    closures over cached types
   | MCTierCache  its history       LruProofs            Rewrite    the rewrite driver
   v extended by                                         Lowering   syntax to IR (and Slopes)
SpecCache   SpecializationCache     SpecCacheProofs         ^ extends
Dispatch    both tiers              DispatchProofs       Compiler   rendering and running
Ledger      facts, files            LedgerProofs         THE PROGRAMS
                                                         Dialect    regions, types, values
THE TENSORS                                                 ^ extends
PointMaps   what a view promises (PointOps)              Autodiff, Transforms, Signatures,
   ^ implements                                          Placement  gradients and passes
Views       tensors, frames         ViewsProofs             ^ extends
   ^ extends                           ^ extends         Programs   a program, then its passes
Layouts     and guards              PointProofs          Bodies <- Assemblages   sessions of units
                                       ^ extends         Fusion <- Planner
                                    LayoutProofs
THE KERNELS
KernelLowering <- Kernels  bodies to regions, launches
```

The modules named `MC...` hold the constants of the small instances; a `.cfg`
is named after its run. `MCPrograms` composes `Programs` and `Assemblages`.

### The caches

**TierCache.** A call of `get_or_compile` is a member of `Calls`; the call
that leads a build also stands for its `_Slot` and for the value built, so
"the same object" is "built by the same call". `pc` names the point between
two steps another thread can run at: the lookup under the lock (118–129), the
wait (133), the announcement of the miss (137–140), the compile (141–142), the
publication under the lock (150–157), the event (158), the announcement of
evictions (159–160), and on failure the removal of the slot under the lock
(145–146) and its event (147). `ready` is the insertion-ordered dict as a
sequence of builds, `building` the dict of slots, `event` and `error` the
fields of the slots. `forbid` is what the `ContextVar` of a call's context
forbids. A `compile_fn` may call back on its own thread (`CallNested`), for
the keys in `Deps`.

**SpecCache** adds the two probes and the retirement in front of the base
class. A handle is a decorated closure; its code and argument kinds are in the
key, its cells in the guards, and a record has the guards of the handle it was
built for. The program rebinds and restores cells at any moment.
`bump_generation` runs on a thread that is in no call. `cache.retire` and
`guard.drift` are announced after the entries went (215, 232), and raise to the
call where its context forbids them (`Emit`); the one of `bump_generation` (196)
raises to who bumped, with nothing left to undo.

**Dispatch** composes both tiers with the registrations. Here a tier is one
lookup that hits, leads or joins; that this is sound is what the refinements
say: `TierCache` implements `AtomicMemo`, `SpecCache` its forgetful form, and
the two tiers of `Dispatch` implement the same two specifications
(`TiersAreMemos`). What a build has read of the registry is kept as the set of
changes it saw. Kinds, ops, rules, overloads and decompositions are read at
moments of their own (`registry.py` 192–205): a build sees all changes made
before it began, and any of those made until its IR is there (`Lower`). A
`record` makes its change in two parts (`surfaces.py` 113–123), of which a build
may see the first alone, and may be refused between them (`Abandon`). Rendering
sees the spellings; `self.artifacts` is read in between. What follows the
artifact (216–224) may raise: then there is no record and the artifact stays
(`InstallFails`). The traced twin of `dispatch` takes the same steps.

**Ledger** (tensorlib `analysis.py`). Calls of ledger analyses and
`load_ledger` go through one tier, a load once per key of its file. `build`
enters the fact in `LEDGER` (115) before the tier publishes it; a load enters
each key (153) before it goes through the tier (154), where it may find
another fact, wait for a measurement, or raise with it; it may also raise where
its own miss is forbidden (`BuildFails`). A save takes its copy
of the ledger (141), empties the file and writes it (142). A process may end
between any two steps. A measured value is named by the call that measured it.

### The compiler

**Kinds** is operators, of kinds and of packing. A value is a tagged record; `TypeOf`,
`Fingerprint` and `Flatten` recurse over it as the kind table does. A plan
gives each leaf of the types a slot at the offset the leaves before it leave;
an extractor goes down the *types* to fetch each leaf, and packing writes it
into a buffer whose bytes remember what was written there, so an overlap or a
gap shows when a slot is read.

**Capture** registers classes of records (`surfaces.py` 78–123), decorates
closures over values it has, other closures included, pipes them together and
calls them. Two memos are found again by fingerprints alone: the `FnType`s
(`capture.py` 169–173), which outlive every registration, and the records of
dispatches (`registry.py` 155–156), which do not. The marshaling of a call
rests on three laws spread over four files, the conjuncts of `KindLaws`;
`BytesAreTheCall` is what they are for.

**Rewrite** runs `rewrite()` as its interpreter does, one step of `walk` or
`apply_rules` at a time, with the Python stack as `stack`. Nodes are objects
with an address, because the memo is keyed by `id(node)`; the body of a region
counts among the arguments of its node. An address is given out again only
when nothing refers to the object; which free address a new node gets is open,
and those without a memo entry are all alike. The stages are the gated
decompositions, `NORMALIZE_ENV` and `legalize_params`, in the order of
`registry.py` 199–205; after a stage, `check_legal` looks for ops that were to
go and for ops of no namespace that may be left.

**Lowering** is the rules from syntax to IR as operators on a build: the nodes
emitted so far, the value the last rule returned, the scope. A rule that
raises leaves `ok` FALSE, and everything after it is skipped as the exception
does. It covers arithmetic, comparisons and their chains, calls of functions,
methods, records and pipelines, branches and their joins, `for` over a
range with its one early exit, and derivatives (`with_respect_to`,
`value_and_grad`) with their memo of tangents; what has no rule is refused. **Slopes** is the rules of
derivatives that both packages share.

**Compiler** runs one call of `reference(f)`: lowering, the two ABI stages,
the artifact found by the key of its IR or rendered, and the run of its blocks
on the packed buffer. `artifacts` (argument types, key, code) are kept from
call to call. Beside it stands
`Reading`, a direct reading of the syntax as Python, which knows nothing of
nodes, blocks or slots; the main property compares the two. Integers are exact,
so no bound is hit; floats are numbers modulo a prime and never trap.

### The tensors

**Layouts** is the operators of `layout.py` and `guarded.py`.
**Views** has those of frames, coordinates and alignment, and is a program that
takes views of a tensor, writes through them and holds frames of them: `view`
is the last view, `mem` the bytes of the buffer, `op` what was done last,
`tracked` the axes whose positions are known. **PointMaps** is what the views
promise, with no strides, guards or charts: a map from points to what is
there, on which an operation is a map between boxes of points (**PointOps**).
That `Views` implements it (`IsAPointMap`) is the axis invariant of
`layout.py` and the pointwise meaning of every guard rewrite at once.

### The programs

**Dialect** has the rules of each operation: its type, its value at each point
and what it refuses. A number is a pair (value, tangent) modulo the square of a
prime, so each run carries a forward derivative that owes nothing to the
adjoints it is compared with. **Autodiff** has the adjoint of each operation,
the joint pass (`grad`), the general one (`derive_vjp`), the step of a fold
(`derive_step_vjp`), the wrapper over a fold, and the schedule of checkpoints.
**Transforms** has the passes of `transforms.py` and `memory.py`,
**Signatures** the inference of carriers and units, **Placement** the traffic
over a tree of devices.

**Programs** writes a region one operation at a time, from the vocabulary of
its `family`, with every choice of operands the type rules accept; then
differentiates it (`joint`) or puts it through one pass (`made`). **Bodies**
lowers marker bodies and tensor bodies; **Assemblages** is a session that
calls units under policies, edits them and calls again, over the assemblage
tier. Both run in `MCPrograms`, as alternatives from the initial state.

**Planner** writes a model block by block, perhaps differentiates it, and
plans it as `partition.py` does: `stage` goes from authoring to claims (one
rung of templates after another, then the residue in parts, then
dissolutions), to carves with their kernels, groups and launches. **Fusion**
states a kernel's equality with its source as canonical forms and draws, and
has the templates and the generated tiles; the worklists of claims come first
in **Planner**.
The launch part evaluates masks on boxes of coordinates in three values and
bounds the loop of a kernel by it.

### The kernels

**KernelLowering** lowers kernel bodies: coordinates as a kind of their own,
reads at coordinates and at values, stores, loops over fixed ranges, branches
as selections, helpers inlined, function arguments lifted to scalar regions
and spliced, staged loops masked, or given to the per-element oracle. What is
in the code as a table keyed by identity is a set of names here. **Kernels**
is a sequence of launches between which globals and helpers are edited:
`memo` the artifacts, `made` and `bindings` the oracle markers and the
functions they stand for, `mem` the memory that all tensors are windows of.
`Threads` reads a body as Python, thread by thread, and is what a launch is
compared with.

## Runs

| Run | Instance | Shows |
|---|---|---|
| TierCache_full | 4 calls, 2 threads, 3 keys, capacity 2, nesting and self re-entry, forbidden misses or evictions, with the history of uses | the inductive invariant; `Safety`: single flight, one entry per key, right answers, no stranded waiter; `Bookkeeping`: exact counters, `_ready` is an LRU; `AtomicMemo` refined |
| SpecCache_full | 3 calls, 2 threads, 3 handles at one location, two of them of one code, a bump, capacity 1, one call that forbids drifts and retirements | the base invariant survives and entries add up; a record with a cell rebound before a call does not answer it; the forgetful memo is refined |
| Dispatch_full | 3 calls on 3 threads, 2 kernels of one IR, a record registered in two parts | own code, one render per content, fresh language; both tiers refine the memo; every dispatch ends |
| Ledger_full | 3 calls, 2 loads, 2 saves, 2 sessions, 2 keys | facts were measured for their key, agree in a session, are not measured again after a load, and reach the ledger |
| Capture_full | 2 codes of 1 and 2 cells, 6 plain values and 4 records, two of each type and one too big, a record in a record, 2 handles or pipelines, 1 dispatch record per generation | fingerprints determine types, memoised types fit, each slot of each dispatch holds the leaf of this very call, also where a record is found that other values of the same types built; results read back |
| Rewrite_full | programs over a captured tuple with nested records, 4 lists of decompositions | where no freed address is looked up a build ends as its rules determine and computes what was lowered; every build keeps sharing, refuses exactly whole uses, stops growth |
| Views_full | 8 tensors on 12 bytes (guarded, flipped, overlapping, empty, labelled, charted), 2 operations each | every view is the map of points it says; footprints, injectivity, alignment verdicts, discharged guards and fixes are true; stores read back where the view is injective |
| Programs_full | 19 families of programs of up to 4 operations and the sessions of assemblages | gradients are derivatives in every form; passes keep what is yielded; cuts are cheapest and reports exact; units are honest under rescaling; traffic covers reads; a served assemblage is the one its units say |
| Planner_full | feeding, attending under 4 masks, both with backward passes, and row kernels on 2 machines | claims tile the interior and leak nothing; plans run, compute the model and are certified; launches fit and pruned loops leave out only masked tiles |
| Compiler_full | 6 families of kernels called with numbers at the edges | what is compiled and cached is what Python says, or it is refused; names are bound and values have their types |
| Kernels_full | 4 families of up to 3 launches on 8 to 13 cells | each launch writes what its body says of every thread; taps hold the bindings they name |
| Compiler_offsets | 2 kernels of one IR | violated: see below |

**Bounds of the caches.** A call is used once, so `Calls` bounds a behaviour:
three calls give a builder, a waiter and a latecomer or an evictor, which is
every role of the tier at once; with four and three keys the LRU of two is
reordered before it evicts. Capacity 0 would evict the build itself and is
covered by the proofs. `MaxGeneration` 1 gives a generation before and one
after. In `Ledger`, two sessions and two saves let a save of the second
session follow its load, a file be cut short, and a loaded fact meet a measured
one. In `Dispatch_full` calls take their turns and their own threads in one
fixed order and the first call has the first kernel (`InTurnSpec`), which loses
nothing, as they are interchangeable. The registration runs on the first call's
thread, so the calls that overlap it are the second and the third, on whatever
the first has left. In `SpecCache_full` (`BoundedSpec`) one handle is rebound and put back,
the handle of the other code is called once, and one call may forbid events;
that is enough for a record shared by two closures, of which one drifts, to be
probed, retired and built again.
Symmetry is over calls, threads and keys without dependencies, only in runs
without liveness. Deadlock is checked in the runs of the caches and of
`Rewrite`; the others stop when they have done all they may.

**Bounds of the data.** With `Width` 3 an integer of `Capture` has three bits,
so 1 and 3, 4, and 8 are in the two buckets and beyond them. Of each other type
there are two values, so that a memo is hit by other values than it was made
with. `MaxHeld` 2 lets a closure capture another or be piped with one. `Factor` 1 and `Slack` 2 of the
rewrite budget stand for 4 and 16. `MaxOps` 2 of `Views` composes any two
views, or a view and a store; the tensors it starts from are views already,
so three are composed. Dims have 2 to 4 points, some not starting at 0, some
empty. `Modulus` of `Programs` and `Planner` is the square of 7 and of 5: a
number is known modulo the prime where it must be divided. `CertCap` is
the widest extent certified at full size, `TileCap` the widest tile. `Modulus` 13 of `Compiler` is the field of its floats. A schedule has 1
to 3 slots or 1 to 4 segments over up to 4 steps, so each split is met.

**Fairness.** Weak fairness of each call's own steps, in `Dispatch_full`: the
scheduler of the operating system runs every thread that can run, and a
compile or a render ends. Nothing is assumed of calls being made, of
registrations, of rebinding. It is what `EveryDispatchEnds` rests on.

**What the violated run says.** Artifacts are cached by the key of the IR and
the backend. What is rendered also depends on the slot plan, which puts
arguments behind captures. A kernel that captures a number it does not use has
the IR of one that captures none; the second is served the artifact of the
first and reads its argument where the capture is. In Python too: after
`mk` of the two is called, `reference(mk(100.0))(5.0)` gives 101.0 for `x + 1`.

## Claims that do not hold

Each is a statement the code or its documents make, in a module beside the
properties that hold. To see it refuted, change the line given, or check the
property, in the `.cfg` named.

| Claim | Where | Why not |
|---|---|---|
| `SpellingIsFresh` (Dispatch) | `Dispatch_full`, `DoorOf <- Spellings`, property added | between the bump and the swap of `_invalidate`, an artifact with the old spelling enters the new generation and stays |
| `LaunchReadsOwnInputs` (Dispatch) | `Dispatch_full`, property added | the staging buffer of a record is shared by the threads that launch it, and one packs over the other's inputs |
| `LedgerIsCache` (Ledger) | `Ledger_full`, invariant added | a load enters its facts in the ledger over those this session measured and goes on serving (`analysis.py` 153–154): a save then keeps another fact than was answered |
| `OwnDriftIsCaught` (MCSpecCache) | `SpecCache_full`, property added | "a capture rebound after decoration is caught at the next call" (`registry.py` 20–25): a record has the guards of the closure it was built for, so another closure of its code is served with a cell of its own rebound |
| `KindLaws` | `Capture_full`, `Classes <- MCTwins` | a record is fingerprinted by the name of its class: two classes of one name have equal fingerprints and different types |
| `MeaningWhateverFreed` (Rewrite) | `Rewrite_full`, invariant added | the memo of `rewrite()` is keyed by `id()` of nodes it does not keep alive: with rules that spell `a` as `b` and `b` as `neg`, `add(a(p), a(q))` becomes `add(neg(p), neg(p))` |
| `ServedMeansUnits` | `Programs_full`, `Families <- MCEdits` | the key of an assemblage has the bytecode of its units without the constants: a unit edited in a constant is served the assemblage of before (`assemblage.py:85`) |
| `UnitsAreHonest` | `Programs_full`, `Families <- MCRatios` | what must be dimensionless is tested by its dims (`signatures.py:76`): `exp` takes a ratio of metres and millimetres |
| `StoresReadBack` (Views) | `Views_full`, property added | D6 of `DESIGN.md` (143–144, 216–219) would refuse stores through any view not known injective; `__setitem__` refuses only those known aliased |
| `OpsKeepPositions` (Views) | `Views_full`, property added | `layout.py` 20–24 says every operation keeps positions; `diagonal` drops labels |
| `CheckedIsDerivable` (Programs) | `Programs_full`, property added | "check first, derive second": `x / c` passes the check and raises in the derivation |
| `CarvesInDependencyOrder` (Planner) | `Planner_full`, property added | `partition.py` 75; carves are in the order of their claims |
| `PlanIsRight` | `Planner_full`, `Models <- MCFolds` | a fold left to the residue is emitted without its step, and verification raises where a report was promised (`partition.py` 16–17, 24–25) |
| `CompiledMeansSource` | `Compiler_full`, `Families <- MCExits` | an early exit is a selection, whose other arm is computed too, and may trap |
| `LaunchMeansBody` | `Kernels_full`, `Families <-` one of `EditedHelper`, `OneForBoth`, `TwoOracles`, `Closures`, `Overwrites` | a helper is fingerprinted by its name and bytecode, so one edited only in a constant is served stale; functions of one type share their lift; a value read before a store is computed after it |

The first two need a second thread: with one, TLC finds them to hold. Other
behaviours worth knowing are in the models: a waiter is given the builder's
`EventForbidden` though its own context forbids nothing; a build in flight
publishes its entry after the bump or the retirement that should have dropped it; a helper
captured by a unit is keyed without the values it captures itself
(`assemblage.py` `_canon`), so an assemblage may be served stale; the dims of
a take whose table and index are bound differently move data with no event;
`derive` gives what is registered under a dotted name, whoever registered it.

## Proofs

`TierCacheProofs` proves `Inv` for all values of the constants, and from it
type correctness and `TierIsSafe`, all of `Safety`: `SingleFlight`,
`OneEntryPerKey`, `ServedOwnKey` and `NoStrandedWaiter`. None of them is
inductive alone: that two builds of a key never overlap needs `_building` to
be exactly the builds in flight (`BuildingInv`), that what is ready is a build
that did not fail needs a slot's error to be fixed before its event is set
(`SlotInv`), and that an answer is right needs both through `WaitInv`. Three
lemmas say what the LRU touch and the eviction do to the sequence
(`RemoveKeeps`, `TouchPermutes`, `DropKeeps`). `MadeInv` says
that finitely many calls have been made, which counting needs: `Calls` itself
may be infinite.

It also proves that the counters are exact (`CountersAreExact`) and that the
tier implements `AtomicMemo` (`TierIsMemo`). The counters are compared with what
the calls say of themselves: `hits` with those that were answered without
building or waiting, `misses` with those that built, failed or are compiling,
`compiles` with what is ready, evicted or on its way to `_ready`. Each
step is reduced to what it adds to each set that is counted (`Booked`), so that
the arithmetic is done once. For the refinement, a call gives its answer to the
abstract memo when its build is published or given up, together with all who
wait for it at that moment (`WaitersShare`); a waiter's own wake-up is a
stutter, and so is all a builder does outside the lock. What makes it work is
`WaitInv`: whoever waits for a build that is over finds in the slot what the
memo gave it then.

`LruProofs` proves that `_ready` is an LRU (`TierIsLru`, all of
`Bookkeeping`), for every capacity, 0 included. `ReadyIsLRU` speaks of ranks,
which count the keys used since; that is not inductive in a form a step can be
followed in. What is kept (`Recency`) is that the entries are in the order of
their last use, that any other key was last used before all of them, and that a
used key is missing only from a full tier; `RecencyIsRank` concludes.

`SpecCacheProofs` proves `SpecInv` (`EntriesAreAccountedFor`), the refinement
of the memo that may forget (`Tier1IsForgetfulMemo`), and `DriftIsCaught`. One
lemma carries the three: whatever a drift, a retirement or a bump takes out of
`_ready`, at any moment of any build, the invariant of the base class stays
(`ThinnedInv`), and the memo sees it as `Forget` (`ThinnedForgets`); all other
steps are the base class's, whose theorems are used as they are.

`DriftsAreCaught` says more than a probe's guard: calls are answered by the base
class too, which looks at no guards. It is stated with a history, `stale`: the
records under a call's key, when it began, that have a rebound cell, as long as
the cell is not put back. None of them is the answer of the call, whatever
closures share the code. The invariant (`StaleInv`) is that such a record
is not in `_ready` once the call is past its first probe, and is not what it
waits for; that it does not come back is that it was published long ago
(`Keeps`).
An event that raises after entries went is `Deny` in the memo.

`DispatchProofs` proves `Inv`, type correctness and `DispatchIsSafe`:
`RendersOnce`, `RunsItsOwnCode` and `LanguageIsFresh`, for any number of
calls, threads, kernels and registrations. The heart is `FreshInv`: of what a
build of the current generation is sure to see from its beginning on, though it
reads the registry at many moments (`Begun`, `Sees`), is every change whose
registration has bumped, so once a generation is over its records keep what they had; this
needs mutation to come before the bump, and the generation to be part of the
key.

It also proves `TiersAreMemos`: each tier, seen through the calls
that come to it, implements the memo that `TierCache` and `SpecCache` are proved
to be, so the way `Dispatch` uses a tier is the way a tier may be used. The
mapping gives a waiter what becomes of the build at the moment it does
(`Got1`, `Failed1`, `Got2`, `Failed2`), a registration is a `Forget` of tier 1
at most, and at tier 2, which is the artifact caches of all eras together,
nothing but a stutter: a swap leaves what is being rendered for the cache it
replaces. Three parts of `Inv` are there for this: a key has one build in flight
at tier 1 and then no record (`FlightInv`); what a call has of its build tells
how far it came, so that a failing render that was waited for is not counted
twice (`ProgressInv`); and the generation is the number of bumps, so that the
keys of the memo are finitely many (`HistoryInv`). The other part, `AgreeInv`,
is inductive alone.

`LedgerProofs` proves `Inv` and `LedgerIsSafe`: `FactsAreMeasured`,
`OneFactPerKey`, `NeverMeasuredTwice` and that the ledger covers the cache,
over any number of sessions. Facts agree because what a waiter's builder built
is what the cache has (`WaitInv`), and the cache still has what it ever gave in
the session (`SessionInv`).

`LayoutProofs` has the lemmas about the operators of `Layouts`, for any number
of dims, any strides, offsets and extents, and any guards. Nearly all of them
are instances of one: an operation replaces coordinates by linear forms of new
ones, and doing the same in the strides and in the guards of a view leaves
every point where the forms take it (`layout.py`'s operations differ in the
forms: a split gives weights to two new dims, a flip a minus, a select drops a
dim, a window adds a tap). Sums over dims are folds over sets in an order the
library does not fix. They are reasoned about as functions on all subsets of
one finite set: two that take the same step agree, for a least subset on which
they differed would have a smaller one (`LeastSubset`, `SubsetInduction`). The
same argument gives the range of a guard over a box and the loop of a store.

`PointProofs` has the lemmas about what one view says of its points, and about
what each operation does to positions and labels (`Glues`, with a lemma for
each operation): its box is the one of `PointMaps`, and a new point has the
positions and labels of the old point it stands for. Those of a split, a merge, a
diagonal and a window are the interesting ones, as they take one dim to two or
two to one, and scale charts.

`ViewsProofs` proves of every program of views, from any tensors
`ViewsAssumption` admits (well-formed, in their buffer, with elements that
coincide or are apart, guards without zero coefficients as `guarded.py:67` drops
them, charts without a zero step as `chart.py:70` refuses it):

- `DataStay`, what the data part of `IsAPointMap` says, operation by operation:
  each point of the new view is at the address of the point `Back` takes it to,
  and is fill exactly where that one is or a pad or stencil reaches outside;
- `TypeCorrect`, all of `TypeOK`;
- `NoByteOut`: guards keep every view inside its buffer;
- `StoresAreReadBack`, the property `StoreReadsBack`;
- `ViewsAreMaps`, the property `IsAPointMap`: the views refine `PointMaps`, that
  is, besides the data also the boxes, the positions on every axis that is
  tracked, and the labels of a new view are those of the points `Back` takes its
  points to;
- `HonestAlways`, the invariant `ViewsAreHonest` with all its conjuncts:
  - footprints hold every byte the view reads, and end at bytes it reads where
    the layout is plain (`HonestFootprint`): a guard whose coefficients are
    proportional to the strides narrows the interval only if the dims it counts
    are counted nowhere else, which is the invariant of the loop over guards
    (`NarrowedIs`; a loop that let two guards narrow one dim is a mutant, and
    breaks it);
  - tensors that share a byte are said to overlap (`SharersSeen`);
  - "injective", "aliased" and "contiguous" are proofs (`VerdictsHold`):
    mixed-radix strides give each point a place, a repeated address is two
    points, and contiguous strides reach every element of one block;
  - a guard is discharged only where it always holds (`GuardsAreRight`);
  - a frame admitted whole is one whose every point is admitted
    (`FramesAreChecked`);
  - the fix offered for an alignment issue mends it, and what issues are left
    are old ones or on the same dim (`FixesHold`, a lemma per kind of issue).

The inductive invariant has five parts. `Sound` says that the view is a tensor
with a well-formed layout, which no operation needs more than. `Memory` says
that memory is a function on the bytes of the buffer. `InBuffer` and `Apart` say
that what a view addresses is in the buffer and that two of its elements never
overlap in part; neither is inductive on strides and offsets, as a window or a
shift may well address outside but for its guards, but both are inductive
through `DataStay`: the data of the new view are data of the old. `IsCharted`
says that every chart has a nonzero step, through everything that scales one;
labels and positions name coordinates only because of it. A store then
reads back because a view called injective has a place for each point
(`InjectiveIs`), the places are apart, so the order in which the loop takes
them does not show, and the loop is over a copy of the source made before.

The proofs assume what the modules name: `None` is none of the other values,
`Deps`, `Contexts` and `Capacity` have their types, `IrOf` and `DoorOf` too,
actors of different kinds are different, and the tensors views are taken of are
tensors (`ViewsAssumption`), with names, axes and labels that are strings, as the
names the program gives are (`LiteralsAssumption`; the provers do not know what a
string is). `Dispatch` has room for every entry, so its calls
are finitely many, as its registrations are. TLC evaluates each assumption on
the instances.

Only model-checked:

- the compiler, the programs and the kernels (`Kinds`, `Capture`, `Rewrite`,
  `Lowering`, `Compiler`, `Dialect`, `Autodiff`, `Transforms`, `Signatures`,
  `Placement`, `Programs`, `Bodies`, `Assemblages`, `Fusion`, `Planner`,
  `KernelLowering`, `Kernels`): their operators recurse over terms, and a module
  that reaches a recursive operator has no theorem here;
- liveness (`EveryDispatchEnds`). Liveness under fairness, `ENABLED`, and
  induction over data given as an operator are beyond the prover.

`PROJECT.json` maps the definitions that stand for an operation, a rule or a
part of the state to their lines; operators that only break one of them up lie
under its lines.

## Not modelled

Everywhere: the text that is rendered, the wording of diagnostics, provenance
of nodes, rounding of floats.

*Caches and compiler.* Increments of `hits`, `misses` and `compiles` outside
the lock are atomic, as they are under a global interpreter lock. Asynchronous
exceptions, sinks and the recorder, the verifier's messages, wildcards and
match logs of rewrite rules, the leaves channel of arrays, layouts of real
backends, cells that are unbound when a closure is made. In `Lowering`:
arithmetic of booleans, second derivatives, keyword arguments, records as
whole arguments; numbers do not overflow.

*Tensors.* Exact rationals and quantities, `FunctionalBuffer`, exports to
numpy, arithmetic of coordinates. `Alignment` takes any of the stride ties of
`compensate`. A fix is claimed to fix only where its operand admits it.

*Programs.* Restamping of charts, folds over nothing, tokens and random draws,
composite reducers over an empty dim; that reducers are associative is
declared in the code, and here too. Peak memory per device; `TrafficReport`'s
time. In bodies and assemblages: `fold` and random access written as Python,
charts, patterns of names, taps in helpers, comparisons of host values. The
tolerance of a certificate, and its many draws: here three draws modulo a
prime.

*Kernels.* Floats, charts, labels and units, textures, shared memory, patterns
of two levels, the device backends. Whether indices of a store are the
thread's own is not looked at by the code, nor here.

*Other parts.* Graphics, random number generators, encodings, provisioning, the
model zoo, conformance suites, notebooks, benchmarks and scripts are numerics,
output or tooling.
