------------------------------ MODULE Dispatch ------------------------------
(***************************************************************************)
(* A dispatch from end to end (registry.py) against registrations          *)
(* (surfaces.py): the two tiers one above the other, the generation, the   *)
(* swap of the artifact cache, and the staging buffer a record owns.       *)
(*                                                                         *)
(* Each tier is used as TierCache shows it to be: a key is served from the *)
(* store, or one call builds it and those that come meanwhile share what   *)
(* becomes of the build.  There is room for every entry, and guards and    *)
(* retirement are left to SpecCache.                                       *)
(*                                                                         *)
(* A call stands for the record it installs in tier 1 and the artifact it  *)
(* renders in tier 2.  A registration changes what the language means (an  *)
(* op, an intrinsic, an overload, a record), how a backend spells an op,   *)
(* or nothing (a plain bump_generation).  A record changes it in two       *)
(* parts: its kind and first methods, then the rest.  What a build has     *)
(* seen is kept as the set of the changes it read; the IR of a kernel      *)
(* depends on the language and never on the spelling.  An artifact cache   *)
(* is named by the registration that installed it, the first one None.     *)
(***************************************************************************)
EXTENDS Integers, FiniteSets

CONSTANTS Calls, Registrations, Threads,
          Kernels,   \* what is dispatched, with the types of its arguments
          IrOf,      \* [Kernels -> the IR they lower to]
          DoorOf,    \* [Registrations -> {"language", "record", "spelling", "bump"}]
          None

ASSUME IrAssumption == DOMAIN IrOf = Kernels
ASSUME DoorAssumption == DoorOf \in [Registrations -> {"language", "record", "spelling", "bump"}]
ASSUME NoneAssumption == None \notin Calls \cup Registrations \cup Threads \cup Kernels
ASSUME DisjointAssumption == Calls \cap Registrations = {} /\ IsFiniteSet(Registrations)
\* There is room for every entry, and how many there may be is a number.
ASSUME RoomAssumption == IsFiniteSet(Calls)

\* The parts in which a registration changes the language.
Parts(r) == CASE DoorOf[r] = "record" -> {<<r, 1>>, <<r, 2>>}
              [] DoorOf[r] = "language" -> {<<r, 2>>}
              [] OTHER -> {}
PartsOf(S) == UNION {Parts(r) : r \in S}
Changes == Registrations \X {1, 2}
\* What a kernel may be lowered to: its IR, with what the language meant.
Contents == {IrOf[k] : k \in Kernels} \X SUBSET Changes
\* A missing key is none of the keys of tier 1, nor of those of tier 2.
ASSUME KeyAssumption ==
  None \notin (Kernels \X Nat) \cup Contents \cup ((Registrations \cup {None}) \X Contents)

VARIABLES
  pc,          \* [Calls \cup Registrations -> where it is]
  thread,      \* [Calls \cup Registrations -> the thread that runs it]
  kernel,      \* [Calls -> what it dispatches]
  gen,         \* [Calls -> the generation in its tier-1 key]
  seen,        \* [Calls -> the changes in the registry when its build began]
  content,     \* [Calls -> the content key its build lowered to]
  era,         \* [Calls -> the artifact cache its build uses]
  spelled,     \* [Calls -> the spellings its render saw]
  slot,        \* [Calls -> the call whose build it waits for]
  artifactOf,  \* [Calls -> the call that rendered the artifact of its build]
  recordOf,    \* [Calls -> the call that built the record it launches]
  bytes,       \* [Calls -> the call whose inputs its launch read]
  completed,   \* [Calls -> the registrations completed before it began]
  language,    \* the changes of the language in the registry
  spellings,   \* the registrations whose spelling is in the registry
  generation, records,  \* tier 1: the counter, and the calls whose records it holds
  current,     \* the artifact cache of the registry
  artifacts,   \* tier 2, all eras: the calls whose artifacts were stored
  staging      \* [Calls -> the call that last packed into the record's buffer]

tier1Vars == <<generation, records>>
worldVars == <<language, spellings, current>>
buildVars == <<seen, content, era, spelled, artifactOf>>
keyVars == <<thread, kernel, gen, completed>>
vars == <<pc, keyVars, buildVars, slot, recordOf, bytes, worldVars, tier1Vars,
          artifacts, staging>>

Actors == Calls \cup Registrations
Ended == {"returned", "raised", "done", "abandoned"}
Building == {"lower", "artifacts", "lookup2", "wait2", "render", "publish", "install", "failed"}
Rendering == {"render", "publish"}
Running(a) == pc[a] \notin Ended \cup {"unused"}
Idle(t) == \A a \in Actors : thread[a] = t => ~ Running(a)
Key(c) == <<kernel[c], gen[c]>>
Content(c) == <<era[c], content[c]>>
Changing(door) == {r \in Registrations : DoorOf[r] = door}

Init ==
  /\ pc = [a \in Actors |-> "unused"]
  /\ thread = [a \in Actors |-> None]
  /\ kernel = [c \in Calls |-> None] /\ gen = [c \in Calls |-> 0]
  /\ seen = [c \in Calls |-> {}]
  /\ content = [c \in Calls |-> None] /\ era = [c \in Calls |-> None]
  /\ spelled = [c \in Calls |-> {}]
  /\ slot = [c \in Calls |-> None]
  /\ artifactOf = [c \in Calls |-> None] /\ recordOf = [c \in Calls |-> None]
  /\ bytes = [c \in Calls |-> None]
  /\ completed = [c \in Calls |-> {}]
  /\ language = {} /\ spellings = {}
  /\ generation = 0 /\ records = {}
  /\ current = None /\ artifacts = {}
  /\ staging = [c \in Calls |-> None]

From(a, here, there) == pc[a] = here /\ pc' = [pc EXCEPT ![a] = there]

-----------------------------------------------------------------------------
(* Registrations                                                           *)

\* A door of surfaces.py writes into the registry's tables; record() begins to.
Mutate(r, t) ==
  /\ Idle(t) /\ From(r, "unused", IF DoorOf[r] = "record" THEN "begun" ELSE "mutated")
  /\ thread' = [thread EXCEPT ![r] = t]
  /\ language' = language \cup (IF DoorOf[r] = "record" THEN {<<r, 1>>} ELSE Parts(r))
  /\ spellings' = spellings \cup ({r} \cap Changing("spelling"))
  /\ UNCHANGED <<kernel, gen, completed, buildVars, slot, recordOf, bytes, tier1Vars,
                 current, artifacts, staging>>

\* record() writes the rest of the methods and the constructor.
MutateRest(r) ==
  /\ From(r, "begun", "mutated")
  /\ language' = language \cup Parts(r)
  /\ UNCHANGED <<keyVars, buildVars, slot, recordOf, bytes, spellings, tier1Vars,
                 current, artifacts, staging>>

\* record(): a method that captures is refused, after the kind and the methods
\* before it have been registered.
Abandon(r) ==
  /\ From(r, "begun", "abandoned")
  /\ UNCHANGED <<keyVars, buildVars, slot, recordOf, bytes, worldVars, tier1Vars,
                 artifacts, staging>>

\* Variant: tier 1 is cleared under the generation it had.
BumpClearsOnly(r) ==
  /\ From(r, "mutated", IF DoorOf[r] = "bump" THEN "done" ELSE "bumped")
  /\ records' = {}
  /\ UNCHANGED <<keyVars, buildVars, slot, recordOf, bytes, worldVars, generation,
                 artifacts, staging>>

\* bump_generation: a new generation and an empty tier 1, under the lock.
Bump(r) ==
  /\ From(r, "mutated", IF DoorOf[r] = "bump" THEN "done" ELSE "bumped")
  /\ generation' = generation + 1 /\ records' = {}
  /\ UNCHANGED <<keyVars, buildVars, slot, recordOf, bytes, worldVars, artifacts, staging>>

\* _invalidate: the registry gets a fresh artifact cache.
Swap(r) ==
  /\ From(r, "bumped", "done")
  /\ current' = r
  /\ UNCHANGED <<keyVars, buildVars, slot, recordOf, bytes, language, spellings,
                 tier1Vars, artifacts, staging>>

-----------------------------------------------------------------------------
(* Dispatch: tier 1                                                        *)

\* The key is made of what is dispatched and of the generation read now.
Begin(c, t, k) ==
  /\ Idle(t) /\ From(c, "unused", "lookup1")
  /\ thread' = [thread EXCEPT ![c] = t]
  /\ kernel' = [kernel EXCEPT ![c] = k]
  /\ gen' = [gen EXCEPT ![c] = generation]
  /\ completed' = [completed EXCEPT ![c] = {r \in Registrations : pc[r] = "done"}]
  /\ UNCHANGED <<buildVars, slot, recordOf, bytes, worldVars, tier1Vars, artifacts, staging>>

RecordHit(c) ==
  /\ From(c, "lookup1", "pack")
  /\ \E b \in records : Key(b) = Key(c) /\ recordOf' = [recordOf EXCEPT ![c] = b]
  /\ UNCHANGED <<keyVars, buildVars, slot, bytes, worldVars, tier1Vars, artifacts, staging>>

NoRecord(c) == \A b \in records : Key(b) # Key(c)
InFlight1(c) == {d \in Calls : pc[d] \in Building /\ Key(d) = Key(c)}

RecordLead(c) ==
  /\ From(c, "lookup1", "lower")
  /\ NoRecord(c) /\ InFlight1(c) = {}
  /\ seen' = [seen EXCEPT ![c] = language]
  /\ UNCHANGED <<keyVars, content, era, spelled, artifactOf, slot, recordOf, bytes, worldVars, tier1Vars,
                 artifacts, staging>>

RecordJoin(c) ==
  /\ From(c, "lookup1", "wait1")
  /\ NoRecord(c)
  /\ \E d \in InFlight1(c) : slot' = [slot EXCEPT ![c] = d]
  /\ UNCHANGED <<keyVars, buildVars, recordOf, bytes, worldVars, tier1Vars, artifacts, staging>>

\* Variant: the waiter takes what there is.
RecordWakeUnchecked(c) ==
  /\ From(c, "wait1", "pack")
  /\ pc[slot[c]] \notin Building
  /\ recordOf' = [recordOf EXCEPT ![c] = recordOf[slot[c]]]
  /\ UNCHANGED <<keyVars, buildVars, slot, bytes, worldVars, tier1Vars, artifacts, staging>>

\* The build the call waited for is over, with a record or with an exception.
RecordWake(c) ==
  /\ \/ From(c, "wait1", "pack") /\ recordOf[slot[c]] # None
     \/ From(c, "wait1", "raised") /\ pc[slot[c]] = "raised"
  /\ recordOf' = [recordOf EXCEPT ![c] = recordOf[slot[c]]]
  /\ UNCHANGED <<keyVars, buildVars, slot, bytes, worldVars, tier1Vars, artifacts, staging>>

-----------------------------------------------------------------------------
(* Dispatch: the build of a record                                         *)

\* typeof, lower_handle, rewrites: the kernel becomes a content key.  The kinds,
\* ops, rules, overloads and decompositions are read one after the other, each
\* at a moment of its own: of the changes made since the build began it sees
\* some.
Lower(c) ==
  /\ From(c, "lower", "artifacts")
  /\ \E late \in SUBSET (language \ seen[c]) :
       content' = [content EXCEPT ![c] = <<IrOf[kernel[c]], seen[c] \cup late>>]
  /\ seen' = [seen EXCEPT ![c] = {}]
  /\ UNCHANGED <<keyVars, era, spelled, artifactOf, slot, recordOf, bytes, worldVars,
                 tier1Vars, artifacts, staging>>

\* A VerifyError or NotImplementedError of the build: nothing is installed.
LowerFails(c) ==
  /\ From(c, "lower", "raised")
  /\ UNCHANGED <<keyVars, buildVars, slot, recordOf, bytes, worldVars, tier1Vars,
                 artifacts, staging>>

\* self.artifacts is read, whatever is installed there later.
ReadArtifacts(c) ==
  /\ From(c, "artifacts", "lookup2")
  /\ era' = [era EXCEPT ![c] = current]
  /\ UNCHANGED <<keyVars, seen, content, spelled, artifactOf, slot, recordOf, bytes, worldVars,
                 tier1Vars, artifacts, staging>>

ArtifactHit(c) ==
  /\ From(c, "lookup2", "install")
  /\ \E b \in artifacts : Content(b) = Content(c)
                          /\ artifactOf' = [artifactOf EXCEPT ![c] = b]
  /\ UNCHANGED <<keyVars, seen, content, era, spelled, slot, recordOf, bytes, worldVars,
                 tier1Vars, artifacts, staging>>

NoArtifact(c) == \A b \in artifacts : Content(b) # Content(c)
InFlight2(c) == {d \in Calls : pc[d] \in Rendering /\ Content(d) = Content(c)}

\* Variant: a build in flight is not looked for.
ArtifactLeadUnchecked(c) ==
  /\ From(c, "lookup2", "render")
  /\ NoArtifact(c)
  /\ UNCHANGED <<keyVars, buildVars, slot, recordOf, bytes, worldVars, tier1Vars,
                 artifacts, staging>>

ArtifactLead(c) ==
  /\ From(c, "lookup2", "render")
  /\ NoArtifact(c) /\ InFlight2(c) = {}
  /\ UNCHANGED <<keyVars, buildVars, slot, recordOf, bytes, worldVars, tier1Vars,
                 artifacts, staging>>

ArtifactJoin(c) ==
  /\ From(c, "lookup2", "wait2")
  /\ NoArtifact(c)
  /\ \E d \in InFlight2(c) : slot' = [slot EXCEPT ![c] = d]
  /\ UNCHANGED <<keyVars, buildVars, recordOf, bytes, worldVars, tier1Vars, artifacts, staging>>

\* Variant: only a render that succeeds lets go of its waiters.
ArtifactWakeOnSuccess(c) ==
  /\ From(c, "wait2", "install") /\ artifactOf[slot[c]] # None
  /\ artifactOf' = [artifactOf EXCEPT ![c] = artifactOf[slot[c]]]
  /\ UNCHANGED <<keyVars, seen, content, era, spelled, slot, recordOf, bytes, worldVars,
                 tier1Vars, artifacts, staging>>

\* The render the call waited for is over.
ArtifactWake(c) ==
  /\ \/ From(c, "wait2", "install") /\ artifactOf[slot[c]] # None
     \/ From(c, "wait2", "failed") /\ artifactOf[slot[c]] = None /\ pc[slot[c]] \in {"failed", "raised"}
  /\ artifactOf' = [artifactOf EXCEPT ![c] = artifactOf[slot[c]]]
  /\ UNCHANGED <<keyVars, seen, content, era, spelled, slot, recordOf, bytes, worldVars,
                 tier1Vars, artifacts, staging>>

\* backend.render and backend.compile: the spelling table is read.
Render(c) ==
  /\ From(c, "render", "publish")
  /\ spelled' = [spelled EXCEPT ![c] = spellings]
  /\ UNCHANGED <<keyVars, seen, content, era, artifactOf, slot, recordOf, bytes, worldVars,
                 tier1Vars, artifacts, staging>>

\* They raise: the build leaves tier 2, and then tier 1.
RenderFails(c) ==
  /\ From(c, "render", "failed")
  /\ UNCHANGED <<keyVars, buildVars, slot, recordOf, bytes, worldVars, tier1Vars,
                 artifacts, staging>>

RecordFails(c) ==
  /\ From(c, "failed", "raised")
  /\ UNCHANGED <<keyVars, buildVars, slot, recordOf, bytes, worldVars, tier1Vars,
                 artifacts, staging>>

PublishArtifact(c) ==
  /\ From(c, "publish", "install")
  /\ artifacts' = artifacts \cup {c}
  /\ artifactOf' = [artifactOf EXCEPT ![c] = c]
  /\ UNCHANGED <<keyVars, seen, content, era, spelled, slot, recordOf, bytes, worldVars,
                 tier1Vars, staging>>

\* The record is ready, under the key it was begun with.
Install(c) ==
  /\ From(c, "install", "pack")
  /\ records' = records \cup {c}
  /\ recordOf' = [recordOf EXCEPT ![c] = c]
  /\ UNCHANGED <<keyVars, buildVars, slot, bytes, worldVars, generation, artifacts, staging>>

\* The extractor, the guards or the launcher raise: there is no record, and the
\* artifact stays.
InstallFails(c) ==
  /\ From(c, "install", "raised")
  /\ UNCHANGED <<keyVars, buildVars, slot, recordOf, bytes, worldVars, tier1Vars,
                 artifacts, staging>>

-----------------------------------------------------------------------------
(* Dispatch: running the record                                            *)

\* extract and pack_into: the inputs go into the record's own buffer.
Pack(c) ==
  /\ From(c, "pack", "launch")
  /\ staging' = [staging EXCEPT ![recordOf[c]] = c]
  /\ UNCHANGED <<keyVars, buildVars, slot, recordOf, bytes, worldVars, tier1Vars, artifacts>>

\* launch(staging, leaves) reads the buffer.
Launch(c) ==
  /\ From(c, "launch", "returned")
  /\ bytes' = [bytes EXCEPT ![c] = staging[recordOf[c]]]
  /\ UNCHANGED <<keyVars, buildVars, slot, recordOf, worldVars, tier1Vars, artifacts, staging>>

Step(c) ==
  \/ RecordHit(c) \/ RecordLead(c) \/ RecordJoin(c) \/ RecordWake(c)
  \/ Lower(c) \/ LowerFails(c) \/ ReadArtifacts(c)
  \/ ArtifactHit(c) \/ ArtifactLead(c) \/ ArtifactJoin(c) \/ ArtifactWake(c)
  \/ Render(c) \/ RenderFails(c) \/ RecordFails(c) \/ PublishArtifact(c) \/ Install(c) \/ InstallFails(c)
  \/ Pack(c) \/ Launch(c)

\* Everything was used and has ended.
Terminated == (\A a \in Actors : pc[a] \in Ended) /\ UNCHANGED vars

Next ==
  \/ \E r \in Registrations, t \in Threads : Mutate(r, t)
  \/ \E r \in Registrations : MutateRest(r) \/ Abandon(r) \/ Bump(r) \/ Swap(r)
  \/ \E c \in Calls, t \in Threads, k \in Kernels : Begin(c, t, k)
  \/ \E c \in Calls : Step(c)
  \/ Terminated

Spec == Init /\ [][Next]_vars

\* A thread inside a dispatch is scheduled, and a render ends.
FairSpec == Spec /\ \A c \in Calls : WF_vars(Step(c))

-----------------------------------------------------------------------------
(* Properties                                                              *)

Served(c) == pc[c] \in {"pack", "launch", "returned"}

CallSteps == Building \cup {"unused", "lookup1", "wait1", "pack", "launch", "returned", "raised"}
RegistrationSteps == {"unused", "begun", "mutated", "bumped", "done", "abandoned"}

\* The variables have their types, which depend on how far a call has come: a
\* call that runs a record has one, a build past tier 2 has an artifact.
TypeOK ==
  /\ pc \in [Actors -> CallSteps \cup RegistrationSteps]
  /\ \A c \in Calls : pc[c] \in CallSteps
  /\ \A r \in Registrations : pc[r] \in RegistrationSteps
  /\ thread \in [Actors -> Threads \cup {None}]
  /\ kernel \in [Calls -> Kernels \cup {None}]
  /\ gen \in [Calls -> Nat] /\ generation \in Nat
  /\ seen \in [Calls -> SUBSET Changes]
  /\ content \in [Calls -> Contents \cup {None}]
  /\ era \in [Calls -> Registrations \cup {None}] /\ current \in Registrations \cup {None}
  /\ spelled \in [Calls -> SUBSET Registrations]
  /\ slot \in [Calls -> Calls \cup {None}]
  /\ artifactOf \in [Calls -> Calls \cup {None}] /\ artifacts \subseteq Calls
  /\ recordOf \in [Calls -> Calls \cup {None}] /\ records \subseteq Calls
  /\ bytes \in [Calls -> Calls \cup {None}] /\ staging \in [Calls -> Calls \cup {None}]
  /\ completed \in [Calls -> SUBSET Registrations]
  /\ language \subseteq Changes /\ spellings \subseteq Registrations
  /\ \A c \in Calls : pc[c] # "unused" => kernel[c] \in Kernels /\ gen[c] <= generation
  /\ \A c \in Calls : pc[c] \in {"wait1", "wait2"} => slot[c] \in Calls \ {c}
  /\ \A c \in Calls : pc[c] = "install" => artifactOf[c] \in Calls
  /\ \A c \in Calls : Served(c) => recordOf[c] \in Calls

\* A dispatch runs the record of its own key, and the record's artifact was
\* rendered from the very content the record was lowered to, whatever sharing
\* between keys, eras and waiters gave it that artifact.
RunsItsOwnCode ==
  \A c \in Calls : Served(c) =>
    LET b == recordOf[c] IN
      /\ Key(b) = Key(c)
      /\ content[b][1] = IrOf[kernel[c]]
      /\ Content(artifactOf[b]) = Content(b)

\* "Identical IR never renders twice, even from different templates", over
\* bumps of the generation too: one artifact cache renders a content once.
RendersOnce ==
  \A c, d \in Calls :
    artifactOf[c] = c /\ artifactOf[d] = d /\ Content(c) = Content(d) => c = d

\* "Registrations change what a build means: both tiers must miss": a dispatch
\* begun after a registration had completed runs code that was lowered with it,
\* however builds begun earlier end.
LanguageIsFresh ==
  \A c \in Calls : Served(c) =>
    PartsOf(completed[c]) \subseteq content[recordOf[c]][2]

\* What a dispatch may rely on.
Safety == RunsItsOwnCode /\ RendersOnce /\ LanguageIsFresh

\* The same for the text: its artifact was rendered with every spelling whose
\* registration had completed when the dispatch began.  It does not hold.
SpellingIsFresh ==
  \A c \in Calls : Served(c) =>
    completed[c] \cap Changing("spelling") \subseteq spelled[artifactOf[recordOf[c]]]

\* "Every input arrives as bytes in the staging buffer": a launch reads the
\* inputs of its own call.  It does not hold.
LaunchReadsOwnInputs == \A c \in Calls : pc[c] = "returned" => bytes[c] = c

\* Waiting at two tiers at once never closes a circle: every dispatch that is
\* begun returns or raises.
EveryDispatchEnds == \A c \in Calls : pc[c] # "unused" ~> pc[c] \in Ended

-----------------------------------------------------------------------------
(* The inductive invariant behind RunsItsOwnCode, RendersOnce and          *)
(* LanguageIsFresh.                                                        *)

\* The build of c is past lowering, and its content key is fixed.
Lowered(c) ==
  pc[c] \in {"artifacts", "lookup2", "wait2", "render", "publish", "install", "failed"}
  \/ recordOf[c] = c
Rendered(c) == pc[c] \in Rendering \/ artifactOf[c] = c

\* A record is referred to under the key it was built for, by its builder too.
RecordInv ==
  /\ \A b \in records : recordOf[b] = b
  /\ \A c \in Calls : recordOf[c] # None =>
       /\ Served(c) /\ Served(recordOf[c])
       /\ recordOf[recordOf[c]] = recordOf[c]
       /\ Key(recordOf[c]) = Key(c)
       /\ artifactOf[recordOf[c]] # None

\* The same for artifacts; the stored ones are exactly those rendered.
ArtifactInv ==
  /\ \A b \in Calls : b \in artifacts <=> artifactOf[b] = b
  /\ \A c \in Calls : artifactOf[c] # None =>
       /\ pc[c] \in {"install", "raised"} \/ recordOf[c] = c
       /\ artifactOf[artifactOf[c]] = artifactOf[c]
       /\ Content(artifactOf[c]) = Content(c)

\* A waiter waits for a build of what it wants, which is under way or over.
WaitInv ==
  \A c \in Calls :
    /\ pc[c] = "wait1" =>
         /\ Key(slot[c]) = Key(c)
         /\ pc[slot[c]] # "unused"
    /\ pc[c] = "wait2" =>
         /\ Content(slot[c]) = Content(c)
         /\ pc[slot[c]] \in Rendering \cup {"failed", "raised"} \/ artifactOf[slot[c]] = slot[c]

\* In one era a content has one render, under way or stored.
RenderInv ==
  \A c, d \in Calls : Rendered(c) /\ Rendered(d) /\ Content(c) = Content(d) => c = d

LoweredInv == \A c \in Calls : Lowered(c) =>
  /\ content[c] \in Contents
  /\ content[c][1] = IrOf[kernel[c]]

\* What a build is sure to see of the language, from its beginning on.
Begun(c) == pc[c] = "lower" \/ Lowered(c)
Sees(c) == IF pc[c] = "lower" THEN seen[c] ELSE content[c][2]
Bumped == {r \in Registrations : pc[r] \in {"bumped", "done"}}

\* What a build of the current generation sees has every change whose
\* registration has bumped; so a generation, once over, keeps what it had.
FreshInv ==
  /\ \A r \in Registrations : pc[r] \in {"mutated", "bumped", "done"} => Parts(r) \subseteq language
  /\ \A c \in Calls : completed[c] \subseteq {r \in Registrations : pc[r] = "done"}
  /\ \A b \in Calls : Begun(b) /\ gen[b] = generation => PartsOf(Bumped) \subseteq Sees(b)
  /\ \A b, c \in Calls : Begun(b) /\ pc[c] # "unused" /\ gen[b] = gen[c] =>
       PartsOf(completed[c]) \subseteq Sees(b)

\* Tier 1, tier 2, the waiters between them and the registrations under way
\* agree at every step.
AgreeInv ==
  /\ TypeOK /\ RecordInv /\ ArtifactInv /\ WaitInv /\ RenderInv /\ LoweredInv /\ FreshInv

\* One build of a key is in flight at tier 1, for a key that has no record.
FlightInv ==
  \A c \in Calls : pc[c] \in Building =>
    /\ NoRecord(c)
    /\ \A d \in Calls : pc[d] \in Building /\ Key(d) = Key(c) => c = d

\* What a call has of its build tells how far it came: who waits at tier 1 has
\* no content of its own, who leads has waited for nobody, and the build a
\* waiter of tier 1 waits for has been begun.
ProgressInv ==
  \A c \in Calls :
    /\ pc[c] \in {"unused", "lookup1", "wait1", "lower"} => content[c] = None
    /\ pc[c] \in {"unused", "lookup1", "lower", "artifacts", "lookup2", "render", "publish"} => slot[c] = None
    /\ pc[c] = "wait1" => pc[slot[c]] \in Building \cup {"raised"} \/ Served(slot[c])

\* A generation is the number of bumps, and what was lowered to holds changes
\* of the language only.
HistoryInv ==
  /\ generation = Cardinality(Bumped)
  /\ language \subseteq PartsOf(Registrations)
  /\ \A c \in Calls : seen[c] \subseteq PartsOf(Registrations)
  /\ \A c \in Calls : content[c] # None =>
       content[c] \in {IrOf[k] : k \in Kernels} \X SUBSET PartsOf(Registrations)

Inv == AgreeInv /\ FlightInv /\ ProgressInv /\ HistoryInv

-----------------------------------------------------------------------------
(* Refinement: each tier, seen through the calls that reach it, is the     *)
(* atomic memo TierCache and SpecCache implement; tier 2 is the artifact   *)
(* caches of all eras, which forget nothing.                               *)

\* The call did not wait at tier 1; its build came to tier 2; and failed there.
Led1(c) == slot[c] = None \/ content[c] # None
Reached2(c) == content[c] # None /\ pc[c] # "artifacts"
Failing2(c) == Reached2(c) /\ pc[c] \in {"failed", "raised"} /\ artifactOf[c] = None

\* What a call asked a tier for, what it was given, and the builds tried: a
\* waiter is given what becomes of the build at the moment it does.
Want1(c) == IF pc[c] = "unused" THEN None ELSE Key(c)
Got1(c) == IF pc[c] = "wait1" THEN recordOf[slot[c]] ELSE recordOf[c]
Failed1(c) == IF pc[c] = "raised" \/ (pc[c] = "wait1" /\ pc[slot[c]] = "raised") THEN "Failed" ELSE "none"
Tried1 == {c \in Calls : recordOf[c] = c \/ (pc[c] = "raised" /\ Led1(c))}

Want2(c) == IF Reached2(c) THEN Content(c) ELSE None
Got2(c) == IF pc[c] = "wait2" THEN artifactOf[slot[c]] ELSE artifactOf[c]
Failed2(c) == IF Failing2(c) \/ (pc[c] = "wait2" /\ Failing2(slot[c])) THEN "Failed" ELSE "none"
Tried2 == {c \in Calls : artifactOf[c] = c \/ (Failing2(c) /\ slot[c] = None)}

Want1Bar == [c \in Calls |-> Want1(c)]
Got1Bar == [c \in Calls |-> Got1(c)]
Failed1Bar == [c \in Calls |-> Failed1(c)]
Attempts1Bar == Cardinality(Tried1)

Tier1 == INSTANCE AtomicMemo
  WITH Keys <- Kernels \X (0..Cardinality(Registrations)), Capacity <- Cardinality(Calls),
       want <- Want1Bar, got <- Got1Bar, failed <- Failed1Bar, store <- records,
       attempts <- Attempts1Bar

\* A dispatch uses tier 1 as an atomic memo whose owner may drop entries.
Tier1IsMemo == Tier1!ForgetfulMemoSpec

Want2Bar == [c \in Calls |-> Want2(c)]
Got2Bar == [c \in Calls |-> Got2(c)]
Failed2Bar == [c \in Calls |-> Failed2(c)]
Attempts2Bar == Cardinality(Tried2)

Tier2 == INSTANCE AtomicMemo
  WITH Keys <- (Registrations \cup {None}) \X
                 ({IrOf[k] : k \in Kernels} \X SUBSET PartsOf(Registrations)),
       Capacity <- Cardinality(Calls),
       want <- Want2Bar, got <- Got2Bar, failed <- Failed2Bar, store <- artifacts,
       attempts <- Attempts2Bar

\* A build uses tier 2 as an atomic memo that forgets nothing: neither a bump
\* nor a swap ever drops or doubles a render in flight.
Tier2IsMemo == Tier2!MemoSpec

TiersAreMemos == Tier1IsMemo /\ Tier2IsMemo
=============================================================================
