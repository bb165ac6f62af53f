----------------------------- MODULE TierCache -----------------------------
(***************************************************************************)
(* One tier of the two-tier cache (cache.py, class _TierCache): an         *)
(* insertion-ordered dict used as an LRU, per-key futures so that          *)
(* concurrent misses compile once, and counters.  Memo and ArtifactCache   *)
(* are this class unchanged; SpecCache extends it to the tier-1 cache.     *)
(*                                                                         *)
(* A call of get_or_compile is a member of Calls and is used once, so      *)
(* Calls bounds the number of calls of a behaviour.  The call that leads a *)
(* build stands for the _Slot it creates and for the value its compile_fn  *)
(* returns: two values are the same object when the same call built them.  *)
(* A compile_fn may itself call get_or_compile (a derived registry item, a *)
(* kernel that needs another one): Deps[k] is the set of keys the          *)
(* compile_fn of key k may ask for, on the same thread.                    *)
(*                                                                         *)
(* A step is the code between two points where another thread can run:     *)
(* each block under the lock is one step, and so is what lies between two  *)
(* blocks.  The counters incremented outside the lock are exact, as in the *)
(* builds of CPython that have a global interpreter lock.                  *)
(***************************************************************************)
EXTENDS Integers, FiniteSets, Sequences, SequencesExt

CONSTANTS Calls, Threads, Keys,
          Capacity,     \* entries kept ready
          Deps,         \* [Keys -> SUBSET Keys]
          Contexts,     \* the sets of events that callers run under forbid() of
          None          \* no call, no key, no thread

ASSUME CapacityAssumption == Capacity \in Nat
ASSUME DepsAssumption == Deps \in [Keys -> SUBSET Keys]
\* The events of both tiers: a miss and an eviction here, and in SpecCache a
\* drift and a retirement.
Announced == {"miss", "evict", "drift", "retire"}
ASSUME ContextsAssumption == Contexts \subseteq SUBSET Announced
ASSUME NoneAssumption == None \notin Calls \cup Threads \cup Keys

VARIABLES
  pc,        \* [Calls -> where the call is]
  thread,    \* [Calls -> the thread that runs it]
  parent,    \* [Calls -> the call whose compile_fn made it]
  key,       \* [Calls -> the key it asks for]
  forbid,    \* [Calls -> the events forbidden in its context]
  target,    \* [Calls -> the build it waits on]
  answer,    \* [Calls -> the build whose value it returned]
  err,       \* [Calls -> the exception it raised]
  event,     \* the calls whose _Slot has its event set
  error,     \* [Calls -> the error of the _Slot it created]
  evicted,   \* [Calls -> the builds its publication pushed out]
  building,  \* [Keys -> the call in flight for the key]
  ready,     \* the builds in _ready, least recently used first
  stats      \* hits, misses, compiles, evictions

callVars == <<thread, parent, key, forbid>>
slotVars == <<event, error>>
tierVars == <<building, ready, stats>>
vars == <<pc, thread, parent, key, forbid, target, answer, err, event, error,
          evicted, building, ready, stats>>

Errors == {"Forbidden", "Reentrant", "Failed"}
Steps == {"unused", "lookup", "wait", "miss", "compile", "publish", "signal",
          "announce", "abort", "release", "returned", "raised"}
Done(c) == pc[c] \in {"returned", "raised"}
Active(c) == pc[c] # "unused" /\ ~ Done(c)
Children(c) == {d \in Calls : parent[d] = c}
Held(S) == {key[S[i]] : i \in DOMAIN S}         \* the keys a sequence of builds serves

Init ==
  /\ pc = [c \in Calls |-> "unused"]
  /\ thread = [c \in Calls |-> None]
  /\ parent = [c \in Calls |-> None]
  /\ key = [c \in Calls |-> None]
  /\ forbid = [c \in Calls |-> {}]
  /\ target = [c \in Calls |-> None]
  /\ answer = [c \in Calls |-> None]
  /\ err = [c \in Calls |-> "none"]
  /\ event = {}
  /\ error = [c \in Calls |-> "none"]
  /\ evicted = [c \in Calls |-> {}]
  /\ building = [k \in Keys |-> None]
  /\ ready = <<>>
  /\ stats = [hits |-> 0, misses |-> 0, compiles |-> 0, evictions |-> 0]

Goto(c, step) == pc' = [pc EXCEPT ![c] = step]
Return(c, b) == Goto(c, "returned") /\ answer' = [answer EXCEPT ![c] = b] /\ UNCHANGED err
Raise(c, e) == Goto(c, "raised") /\ err' = [err EXCEPT ![c] = e] /\ UNCHANGED answer
Count(counter, n) == [stats EXCEPT ![counter] = @ + n]

-----------------------------------------------------------------------------
\* get_or_compile is entered.
Enter(c, t, p, k, F) ==
  /\ pc[c] = "unused"
  /\ Goto(c, "lookup")
  /\ thread' = [thread EXCEPT ![c] = t]
  /\ parent' = [parent EXCEPT ![c] = p]
  /\ key' = [key EXCEPT ![c] = k]
  /\ forbid' = [forbid EXCEPT ![c] = F]
  /\ UNCHANGED <<target, answer, err, slotVars, evicted, tierVars>>

\* A thread that is in no call calls get_or_compile.
Call(c, t, k, F) ==
  /\ \A d \in Calls : thread[d] = t => ~ Active(d)
  /\ Enter(c, t, None, k, F)

\* A compile_fn calls get_or_compile, on its thread and in its context.
CallNested(c, p, k) ==
  /\ pc[p] = "compile"
  /\ \A d \in Children(p) : pc[d] = "returned"
  /\ k \in Deps[key[p]]
  /\ Enter(c, thread[p], p, k, forbid[p])

\* Variant: a hit that leaves the entry where it is.
HitNoTouch(c) ==
  /\ pc[c] = "lookup"
  /\ \E i \in DOMAIN ready : key[ready[i]] = key[c] /\ Return(c, ready[i])
  /\ stats' = Count("hits", 1)
  /\ UNCHANGED <<callVars, target, slotVars, evicted, building, ready>>

\* Under the lock: the key is ready; move it to the end and return the value.
Hit(c) ==
  /\ pc[c] = "lookup"
  /\ \E i \in DOMAIN ready :
       /\ key[ready[i]] = key[c]
       /\ ready' = Append(RemoveAt(ready, i), ready[i])
       /\ Return(c, ready[i])
  /\ stats' = Count("hits", 1)
  /\ UNCHANGED <<callVars, target, slotVars, evicted, building>>

\* Under the lock: nobody builds the key; this call's slot is in flight.
Lead(c) ==
  /\ pc[c] = "lookup"
  /\ key[c] \notin Held(ready)
  /\ building[key[c]] = None
  /\ building' = [building EXCEPT ![key[c]] = c]
  /\ Goto(c, "miss")
  /\ UNCHANGED <<callVars, target, answer, err, slotVars, evicted, ready, stats>>

\* Under the lock: another thread builds the key; wait for its slot.
Join(c) ==
  /\ pc[c] = "lookup"
  /\ key[c] \notin Held(ready)
  /\ building[key[c]] # None
  /\ thread[building[key[c]]] # thread[c]
  /\ target' = [target EXCEPT ![c] = building[key[c]]]
  /\ Goto(c, "wait")
  /\ UNCHANGED <<callVars, answer, err, slotVars, evicted, tierVars>>

\* This thread itself is building the key: ReentrantCompile.
Reenter(c) ==
  /\ pc[c] = "lookup"
  /\ key[c] \notin Held(ready)
  /\ building[key[c]] # None
  /\ thread[building[key[c]]] = thread[c]
  /\ Raise(c, "Reentrant")
  /\ UNCHANGED <<callVars, target, slotVars, evicted, tierVars>>

\* Variant: the waiter does not wait for the event.
WakeEarly(c) ==
  /\ pc[c] = "wait"
  /\ \/ error[target[c]] = "none" /\ Return(c, target[c])
     \/ error[target[c]] # "none" /\ Raise(c, error[target[c]])
  /\ UNCHANGED <<callVars, target, slotVars, evicted, tierVars>>

\* slot.event.wait() returns: the waiter takes over the slot's value or error.
Wake(c) ==
  /\ pc[c] = "wait"
  /\ target[c] \in event
  /\ \/ error[target[c]] = "none" /\ Return(c, target[c])
     \/ error[target[c]] # "none" /\ Raise(c, error[target[c]])
  /\ UNCHANGED <<callVars, target, slotVars, evicted, tierVars>>

\* The body of the try raises e: it is kept in the slot for the waiters.
Fail(c, e) ==
  /\ Goto(c, "abort")
  /\ error' = [error EXCEPT ![c] = e]

\* Variant: the miss is announced outside the try.
MissOutsideTry(c) ==
  /\ pc[c] = "miss"
  /\ stats' = Count("misses", 1)
  /\ IF "miss" \in forbid[c] THEN Raise(c, "Forbidden")
                             ELSE Goto(c, "compile") /\ UNCHANGED <<answer, err>>
  /\ UNCHANGED <<callVars, target, slotVars, evicted, building, ready>>

\* The miss is counted and announced; a forbidden announcement raises.
Miss(c) ==
  /\ pc[c] = "miss"
  /\ stats' = Count("misses", 1)
  /\ \/ "miss" \in forbid[c] /\ Fail(c, "Forbidden")
     \/ "miss" \notin forbid[c] /\ Goto(c, "compile") /\ UNCHANGED error
  /\ UNCHANGED <<callVars, target, answer, err, event, evicted, building, ready>>

\* compile_fn returns; the build is counted.
CompileOk(c) ==
  /\ pc[c] = "compile"
  /\ \A d \in Children(c) : pc[d] = "returned"
  /\ stats' = Count("compiles", 1)
  /\ Goto(c, "publish")
  /\ UNCHANGED <<callVars, target, answer, err, slotVars, evicted, building, ready>>

\* compile_fn raises: an exception of its own, or the one a nested call raised.
CompileFail(c) ==
  /\ pc[c] = "compile"
  /\ \A d \in Children(c) : Done(d)
  /\ LET nested == {d \in Children(c) : pc[d] = "raised"} IN
       \/ nested = {} /\ Fail(c, "Failed")
       \/ \E d \in nested : Fail(c, err[d])
  /\ UNCHANGED <<callVars, target, answer, err, event, evicted, tierVars>>

\* Entries over the capacity once one more is in.
Surplus == IF Len(ready) + 1 > Capacity THEN Len(ready) + 1 - Capacity ELSE 0

\* Under the lock: the slot leaves _building, the value enters _ready, and the
\* entries used least recently go until Capacity are left.
Publish(c) ==
  LET all == Append(ready, c) IN
  /\ pc[c] = "publish"
  /\ building' = [building EXCEPT ![key[c]] = None]
  /\ ready' = SubSeq(all, Surplus + 1, Len(all))
  /\ evicted' = [evicted EXCEPT ![c] = {all[i] : i \in 1..Surplus}]
  /\ stats' = Count("evictions", Surplus)
  /\ Goto(c, "signal")
  /\ UNCHANGED <<callVars, target, answer, err, slotVars>>

\* slot.event.set(); with nothing evicted the call returns its value.
Signal(c) ==
  /\ pc[c] = "signal"
  /\ event' = event \cup {c}
  /\ \/ evicted[c] = {} /\ Return(c, c)
     \/ evicted[c] # {} /\ Goto(c, "announce") /\ UNCHANGED <<answer, err>>
  /\ UNCHANGED <<callVars, target, error, evicted, tierVars>>

\* cache.evict is announced; where it is forbidden the builder itself raises.
Announce(c) ==
  /\ pc[c] = "announce"
  /\ \/ "evict" \in forbid[c] /\ Raise(c, "Forbidden")
     \/ "evict" \notin forbid[c] /\ Return(c, c)
  /\ UNCHANGED <<callVars, target, slotVars, evicted, tierVars>>

\* Variant: the failed slot stays in _building.
AbortKeepsSlot(c) ==
  /\ pc[c] = "abort"
  /\ Goto(c, "release")
  /\ UNCHANGED <<callVars, target, answer, err, slotVars, evicted, tierVars>>

\* Under the lock: the failed build leaves _building.
Abort(c) ==
  /\ pc[c] = "abort"
  /\ building' = [building EXCEPT ![key[c]] = None]
  /\ Goto(c, "release")
  /\ UNCHANGED <<callVars, target, answer, err, slotVars, evicted, ready, stats>>

\* slot.event.set() and the exception goes on to the caller.
Release(c) ==
  /\ pc[c] = "release"
  /\ event' = event \cup {c}
  /\ Raise(c, error[c])
  /\ UNCHANGED <<callVars, target, error, evicted, tierVars>>

-----------------------------------------------------------------------------
Step(c) ==
  \/ Hit(c) \/ Lead(c) \/ Join(c) \/ Reenter(c) \/ Wake(c) \/ Miss(c)
  \/ CompileOk(c) \/ CompileFail(c) \/ Publish(c) \/ Signal(c) \/ Announce(c)
  \/ Abort(c) \/ Release(c)

\* Every call has been used and has ended.
Terminated == (\A c \in Calls : Done(c)) /\ UNCHANGED vars

Next ==
  \/ \E c \in Calls, t \in Threads, k \in Keys, F \in Contexts : Call(c, t, k, F)
  \/ \E c, p \in Calls, k \in Keys : CallNested(c, p, k)
  \/ \E c \in Calls : Step(c)
  \/ Terminated

Spec == Init /\ [][Next]_vars

-----------------------------------------------------------------------------
(* Properties                                                              *)

InFlight(c) == pc[c] \in {"miss", "compile", "publish", "abort"}

\* The variables have their types: calls run on threads, the LRU holds builds.
TypeOK ==
  /\ pc \in [Calls -> Steps]
  /\ thread \in [Calls -> Threads \cup {None}]
  /\ parent \in [Calls -> Calls \cup {None}]
  /\ key \in [Calls -> Keys \cup {None}]
  /\ forbid \in [Calls -> SUBSET Announced]
  /\ target \in [Calls -> Calls \cup {None}]
  /\ answer \in [Calls -> Calls \cup {None}]
  /\ err \in [Calls -> Errors \cup {"none"}]
  /\ event \subseteq Calls
  /\ error \in [Calls -> Errors \cup {"none"}]
  /\ evicted \in [Calls -> SUBSET Calls]
  /\ building \in [Keys -> Calls \cup {None}]
  /\ ready \in Seq(Calls)
  /\ stats \in [{"hits", "misses", "compiles", "evictions"} -> Nat]

\* "Concurrent misses compile once": of two calls between taking the slot and
\* giving it up, no two are for the same key, and a key being built is not ready.
SingleFlight ==
  \A c \in Calls : InFlight(c) =>
    /\ key[c] \notin Held(ready)
    /\ \A d \in Calls : InFlight(d) /\ key[d] = key[c] => d = c

\* _ready is a dict: a key has one entry, and every entry is a finished build.
OneEntryPerKey ==
  \A i, j \in DOMAIN ready :
    /\ key[ready[i]] = key[ready[j]] => i = j
    /\ pc[ready[i]] \notin {"unused", "lookup", "wait"} /\ error[ready[i]] = "none"

\* A call that returns got a value built for its own key by a build that did
\* not fail, however many builds, failures and evictions came between.
ServedOwnKey ==
  \A c \in Calls : pc[c] = "returned" =>
    /\ answer[c] # None
    /\ key[answer[c]] = key[c]
    /\ error[answer[c]] = "none"

\* A waiter is always let go: its slot's event is set, or the builder is
\* still on its way to setting it (every exception of the build included).
NoStrandedWaiter ==
  \A c \in Calls : pc[c] = "wait" =>
    /\ thread[target[c]] # thread[c]
    /\ target[c] \in event \/ InFlight(target[c]) \/ pc[target[c]] \in {"signal", "release"}

\* What a caller may rely on: builds are single, entries unique, answers right
\* and waiters let go.
Safety == SingleFlight /\ OneEntryPerKey /\ ServedOwnKey /\ NoStrandedWaiter

\* The counters add up: a hit is a call answered without building or waiting; a
\* miss was built, failed, or is being built; a build is ready, was evicted, or
\* is about to be published; nothing is evicted that was not built.
CountersAddUp ==
  /\ stats.hits = Cardinality({c \in Calls : pc[c] = "returned" /\ answer[c] # c /\ target[c] = None})
  /\ stats.misses = stats.compiles + Cardinality({c \in Calls : error[c] # "none"})
                     + Cardinality({c \in Calls : pc[c] = "compile"})
  /\ stats.compiles = Len(ready) + stats.evictions + Cardinality({c \in Calls : pc[c] = "publish"})
  /\ Len(ready) <= Capacity

-----------------------------------------------------------------------------
(* The inductive invariant behind the safety properties above.             *)

Past(c) == pc[c] \in {"signal", "announce", "returned", "raised"}

CallsInv ==
  \A c \in Calls : pc[c] # "unused" => thread[c] \in Threads /\ key[c] \in Keys

\* _building is exactly the builds in flight, each under its key.
BuildingInv ==
  /\ \A k \in Keys : building[k] # None => InFlight(building[k]) /\ key[building[k]] = k
  /\ \A c \in Calls : InFlight(c) => building[key[c]] = c

\* A key being built is not ready.
UnreadyInv ==
  \A c \in Calls : InFlight(c) => \A i \in DOMAIN ready : key[ready[i]] # key[c]

\* A slot's error is fixed before its event is set.
SlotInv ==
  \A c \in Calls :
    /\ c \in event => pc[c] \in {"announce", "returned", "raised"}
    /\ pc[c] \in {"abort", "release"} => error[c] # "none"
    /\ pc[c] \notin {"abort", "release", "returned", "raised"} => error[c] = "none"

\* What a reader of _ready can be given: a published build that did not fail.
Good(b) == b \in Calls /\ Past(b) /\ error[b] = "none"

ReadyInv ==
  \A i \in DOMAIN ready :
    /\ Good(ready[i])
    /\ \A j \in DOMAIN ready : key[ready[i]] = key[ready[j]] => i = j

WaitInv ==
  \A c \in Calls : pc[c] = "wait" =>
    /\ target[c] \in Calls /\ key[target[c]] = key[c] /\ thread[target[c]] # thread[c]
    /\ target[c] \in event \/ InFlight(target[c]) \/ pc[target[c]] \in {"signal", "release"}

AnswerInv ==
  \A c \in Calls :
    /\ pc[c] = "returned" => Good(answer[c]) /\ key[answer[c]] = key[c]
    /\ pc[c] = "raised" => err[c] # "none"

\* Finitely many calls have been made, the others have no key yet, and only an
\* eviction is announced.
MadeInv ==
  /\ IsFiniteSet({c \in Calls : pc[c] # "unused"})
  /\ \A c \in Calls : pc[c] = "unused" => key[c] = None
  /\ \A c \in Calls : pc[c] = "announce" => evicted[c] # {}

\* The state the lock protects is consistent at every step: what is building,
\* what is ready, what waiters wait for and what they were given agree.
Inv ==
  /\ TypeOK /\ CallsInv /\ BuildingInv /\ UnreadyInv /\ SlotInv /\ ReadyInv
  /\ WaitInv /\ AnswerInv /\ MadeInv

-----------------------------------------------------------------------------
(* Refinement: a build is decided when it leaves _building, for its builder *)
(* and for every call that waits on its slot.                               *)

Decided(c) == pc[c] = "wait" /\ ~ InFlight(target[c])
Published(c) == pc[c] \in {"signal", "announce"}
EvictionForbidden(c) == evicted[c] # {} /\ "evict" \in forbid[c]

GotOf(c) ==
  CASE pc[c] = "returned" -> answer[c]
    [] Published(c) /\ ~ EvictionForbidden(c) -> c
    [] Decided(c) /\ error[target[c]] = "none" -> target[c]
    [] OTHER -> None

FailedOf(c) ==
  CASE pc[c] = "raised" -> err[c]
    [] Published(c) /\ EvictionForbidden(c) -> "Forbidden"
    [] pc[c] = "release" -> error[c]
    [] Decided(c) -> error[target[c]]
    [] OTHER -> "none"

GotBar == [c \in Calls |-> GotOf(c)]
FailedBar == [c \in Calls |-> FailedOf(c)]

\* The attempts decided so far: the misses less the builds still in flight.
Underway == {c \in Calls : InFlight(c) /\ pc[c] # "miss"}
AttemptsBar == stats.misses - Cardinality(Underway)

Memo == INSTANCE AtomicMemo
  WITH want <- key, got <- GotBar, failed <- FailedBar, store <- ToSet(ready),
       attempts <- AttemptsBar

\* The tier is an atomic memo: every call is answered as if it had been served
\* in one step at some moment while it ran.
ImplementsMemo == Memo!MemoSpec
=============================================================================
