--------------------------- MODULE SpecCacheProofs ---------------------------
(***************************************************************************)
(* Proofs about tier 1 of the cache, for every set of calls, threads,      *)
(* handles and codes: what probes, retirements and generation bumps do     *)
(* between the steps of the base class leaves its invariant, its counters  *)
(* and its promise to the callers as they were.  The base class is proved  *)
(* in TierCacheProofs; what is added here is that the entries of _ready    *)
(* may go at any moment, and that the call that drops them may be denied   *)
(* the event.  Last comes that no stale entry answers a call; the record   *)
(* of what is stale is the history variable of MCSpecCache.                *)
(***************************************************************************)
EXTENDS MCSpecCache, TierCacheProofs

\* All but _ready, the call that drops entries and what tier 1 adds stays as it is.
BaseStays == UNCHANGED <<callVars, target, slotVars, evicted, building, stats>>

\* No call moves, or one that looks a key up is refused the event.
Stays == UNCHANGED <<pc, answer, err>>
Denied(c) == pc[c] = "lookup" /\ Raise(c, "Forbidden")
Denies == Stays \/ \E c \in Calls : Denied(c)

\* Every entry of _ready was one before, and no two come from the same.
Thinned(from) ==
  /\ ready' \in Seq(Calls)
  /\ \A i \in DOMAIN ready' : from[i] \in DOMAIN ready /\ ready'[i] = ready[from[i]]
  /\ \A i, j \in DOMAIN ready' : from[i] = from[j] => i = j

\* And one at least did not stay.
Strictly(from) == \E i \in DOMAIN ready : \A j \in DOMAIN ready' : from[j] # i

\* A call that is denied the event is the only one that moves.
LEMMA DenyEnds ==
  ASSUME Inv, BaseStays, NEW c \in Calls, Denied(c)
  PROVE  Moves(c) /\ pc[c] = "lookup" /\ pc'[c] = "raised" /\ err'[c] = "Forbidden"
  BY DEF Inv, TypeOK, BaseStays, Denied, Raise, Goto, callVars, slotVars, Moves

\* Where the calls are after entries went.
LEMMA WhereCallsAre ==
  ASSUME Inv, BaseStays, Denies
  PROVE  /\ pc' \in [Calls -> Steps] /\ err' \in [Calls -> Errors \cup {"none"}] /\ answer' = answer
         /\ \A d \in Calls : \/ pc'[d] = pc[d] /\ err'[d] = err[d]
                             \/ pc[d] = "lookup" /\ pc'[d] = "raised" /\ err'[d] = "Forbidden"
         /\ {d \in Calls : pc'[d] # "unused"} = {d \in Calls : pc[d] # "unused"}
<1>1. CASE Stays
  BY <1>1 DEF Stays, Inv, TypeOK
<1>2. ASSUME NEW c \in Calls, Denied(c)
      PROVE  /\ pc' \in [Calls -> Steps] /\ err' \in [Calls -> Errors \cup {"none"}] /\ answer' = answer
             /\ \A d \in Calls : \/ pc'[d] = pc[d] /\ err'[d] = err[d]
                                 \/ pc[d] = "lookup" /\ pc'[d] = "raised" /\ err'[d] = "Forbidden"
  BY <1>2 DEF Denied, Raise, Goto, Inv, TypeOK, Steps, Errors
<1>3. QED
  BY <1>1, <1>2 DEF Denies

\* Entries may go: nothing the base class relies on needs them.
LEMMA ThinnedInv ==
  ASSUME Inv, BaseStays, Denies, NEW from, Thinned(from)
  PROVE  Inv' /\ ToSet(ready') \subseteq ToSet(ready)
<1>1. /\ thread' = thread /\ parent' = parent /\ key' = key /\ forbid' = forbid
      /\ target' = target /\ event' = event /\ error' = error
      /\ evicted' = evicted /\ building' = building /\ stats' = stats
  BY DEF BaseStays, callVars, slotVars
<1>2. /\ ready' \in Seq(Calls)
      /\ \A i \in DOMAIN ready' : from[i] \in DOMAIN ready /\ ready'[i] = ready[from[i]]
      /\ \A i, j \in DOMAIN ready' : from[i] = from[j] => i = j
  BY DEF Thinned
<1>3. /\ pc' \in [Calls -> Steps] /\ err' \in [Calls -> Errors \cup {"none"}] /\ answer' = answer
      /\ \A d \in Calls : \/ pc'[d] = pc[d] /\ err'[d] = err[d]
                          \/ pc[d] = "lookup" /\ pc'[d] = "raised" /\ err'[d] = "Forbidden"
      /\ {d \in Calls : pc'[d] # "unused"} = {d \in Calls : pc[d] # "unused"}
  BY WhereCallsAre
<1>4. \A d \in Calls : InFlight(d)' <=> InFlight(d)
  BY <1>3 DEF InFlight
<1>5. \A d \in Calls : Good(d) => Good(d)'
  BY <1>1, <1>3 DEF Good, Past
<1>6. TypeOK'
  BY <1>1, <1>2, <1>3 DEF Inv, TypeOK
<1>7. CallsInv' /\ BuildingInv'
  <2>1. CallsInv'
    BY <1>1, <1>3 DEF Inv, CallsInv
  <2>2. \A k \in Keys : building[k] \in Calls \cup {None}
    BY DEF Inv, TypeOK
  <2>3. QED
    BY <1>1, <1>4, <2>1, <2>2 DEF Inv, BuildingInv
<1>8. UnreadyInv'
  BY <1>1, <1>2, <1>4 DEF Inv, UnreadyInv
<1>9. SlotInv'
  BY <1>1, <1>3 DEF Inv, SlotInv
<1>10. WaitInv'
  <2>1. ASSUME NEW d \in Calls, pc'[d] = "wait"
        PROVE  /\ target[d] \in Calls /\ key[target[d]] = key[d] /\ thread[target[d]] # thread[d]
               /\ target[d] \in event \/ pc'[target[d]] \in {"miss", "compile", "publish", "abort", "signal", "release"}
    <3>1. pc[d] = "wait"
      BY <1>3, <2>1
    <3>2. /\ target[d] \in Calls /\ key[target[d]] = key[d] /\ thread[target[d]] # thread[d]
          /\ target[d] \in event \/ pc[target[d]] \in {"miss", "compile", "publish", "abort", "signal", "release"}
      BY <3>1 DEF Inv, WaitInv, InFlight
    <3>3. QED
      BY <1>3, <3>2
  <2>2. QED
    BY <1>1, <2>1 DEF WaitInv, InFlight
<1>11. AnswerInv'
  BY <1>1, <1>3, <1>5 DEF Inv, AnswerInv, Good, Past
<1>12. MadeInv'
  BY <1>1, <1>3 DEF Inv, MadeInv
<1>13. ReadyInv'
  <2>1. ASSUME NEW i \in DOMAIN ready' PROVE Good(ready[i])'
    <3>1. from[i] \in DOMAIN ready /\ ready'[i] = ready[from[i]] /\ Good(ready[from[i]])
      BY <1>2 DEF Inv, ReadyInv
    <3>2. ready[from[i]] \in Calls
      BY <3>1 DEF Good
    <3>3. QED
      BY <1>5, <3>1, <3>2 DEF Good, Past
  <2>2. ASSUME NEW i \in DOMAIN ready', NEW j \in DOMAIN ready', key[ready'[i]] = key[ready'[j]] PROVE i = j
    <3>1. from[i] \in DOMAIN ready /\ from[j] \in DOMAIN ready /\ key[ready[from[i]]] = key[ready[from[j]]]
      BY <1>2, <2>2
    <3>2. from[i] = from[j]
      BY <3>1 DEF Inv, ReadyInv
    <3>3. QED
      BY <1>2, <3>2
  <2>3. QED
    BY <1>1, <2>1, <2>2 DEF ReadyInv
<1>14. ASSUME NEW x \in ToSet(ready') PROVE x \in ToSet(ready)
  <2>1. PICK i \in DOMAIN ready' : x = ready'[i]
    BY DEF ToSet
  <2>2. from[i] \in DOMAIN ready /\ x = ready[from[i]]
    BY <1>2, <2>1
  <2>3. QED
    BY <2>2 DEF ToSet
<1>15. QED
  BY <1>6, <1>7, <1>8, <1>9, <1>10, <1>11, <1>12, <1>13, <1>14 DEF Inv

\* An entry that does not stay is not in _ready any more: it had its one place.
LEMMA StrictlyLess ==
  ASSUME Inv, NEW from, Thinned(from), Strictly(from)
  PROVE  ToSet(ready') # ToSet(ready)
<1>1. PICK i \in DOMAIN ready : \A j \in DOMAIN ready' : from[j] # i
  BY DEF Strictly
<1>2. ready[i] \in ToSet(ready)
  BY DEF ToSet
<1>3. ASSUME ready[i] \in ToSet(ready') PROVE FALSE
  <2>1. PICK j \in DOMAIN ready' : ready'[j] = ready[i]
    BY <1>3 DEF ToSet
  <2>2. from[j] \in DOMAIN ready /\ ready[from[j]] = ready[i]
    BY <2>1 DEF Thinned
  <2>3. from[j] = i
    BY <2>2 DEF Inv, ReadyInv
  <2>4. QED
    BY <1>1, <2>3
<1>4. QED
  BY <1>2, <1>3

\* What the memo sees of the calls when none of them moves.
LEMMA StaysInMemo ==
  ASSUME BaseStays, Stays
  PROVE  /\ \A d \in Calls : GotOf(d)' = GotOf(d) /\ FailedOf(d)' = FailedOf(d)
         /\ key' = key /\ AttemptsBar' = AttemptsBar
<1>1. /\ pc' = pc /\ key' = key /\ forbid' = forbid /\ target' = target /\ answer' = answer
      /\ err' = err /\ error' = error /\ evicted' = evicted /\ stats' = stats
  BY DEF BaseStays, Stays, callVars, slotVars
<1>2. \A d \in Calls : GotOf(d)' = GotOf(d) /\ FailedOf(d)' = FailedOf(d)
  BY <1>1 DEF GotOf, FailedOf, Published, Decided, EvictionForbidden, InFlight
<1>3. AttemptsBar' = AttemptsBar
  BY <1>1 DEF AttemptsBar, Underway, InFlight
<1>4. QED
  BY <1>1, <1>2, <1>3

\* To the memo, entries that go are forgotten.
LEMMA ThinnedForgets ==
  ASSUME Inv, BaseStays, Stays, NEW from, Thinned(from)
  PROVE  Memo!Forget \/ UNCHANGED Memo!memoVars
<1>1. /\ \A d \in Calls : GotOf(d)' = GotOf(d) /\ FailedOf(d)' = FailedOf(d)
      /\ key' = key /\ AttemptsBar' = AttemptsBar
  BY StaysInMemo
<1>2. ToSet(ready') \subseteq ToSet(ready)
  BY ThinnedInv DEF Denies
<1>3. GotBar' = GotBar /\ FailedBar' = FailedBar
  BY <1>1 DEF GotBar, FailedBar
<1>4. CASE ToSet(ready') = ToSet(ready)
  BY <1>1, <1>4, MemoStutters
<1>5. CASE ToSet(ready') # ToSet(ready)
  BY <1>1, <1>2, <1>3, <1>5 DEF Memo!Forget
<1>6. QED
  BY <1>4, <1>5

\* To the memo, a call that is refused the event of entries that went is denied.
LEMMA ThinnedDenies ==
  ASSUME Inv, BaseStays, NEW c \in Calls, Denied(c), NEW from, Thinned(from), Strictly(from)
  PROVE  Memo!Deny(c)
<1>1. Moves(c) /\ pc[c] = "lookup" /\ pc'[c] = "raised" /\ err'[c] = "Forbidden"
  BY DenyEnds
<1>2. key' = key /\ stats' = stats
  BY DEF BaseStays, callVars
<1>3. \A d \in Calls \ {c} : GotOf(d)' = GotOf(d) /\ FailedOf(d)' = FailedOf(d)
  BY <1>1, NoWaiters, OthersKeep
<1>4. GotOf(c)' = None /\ GotOf(c) = None /\ FailedOf(c)' = "Forbidden"
  BY <1>1 DEF GotOf, FailedOf, Published, Decided
<1>5. GotBar' = GotBar /\ FailedBar' = [FailedBar EXCEPT ![c] = "Forbidden"]
  BY <1>3, <1>4 DEF GotBar, FailedBar
<1>6. AttemptsBar' = AttemptsBar
  BY <1>1, <1>2, SameUnderway DEF Underway, InFlight
<1>7. Memo!Open(c)
  BY <1>1, OpenInMemo
<1>8. ToSet(ready') \subseteq ToSet(ready) /\ ToSet(ready') # ToSet(ready)
  BY ThinnedInv, StrictlyLess DEF Denies
<1>9. QED
  BY <1>2, <1>5, <1>6, <1>7, <1>8 DEF Memo!Deny

\* Where the entries come from when the one at i is dropped.
AfterDrop(n, i) == [j \in 1..(n - 1) |-> IF j < i THEN j ELSE j + 1]

LEMMA DropEntry ==
  ASSUME Inv, NEW i \in DOMAIN ready, ready' = RemoveAt(ready, i)
  PROVE  /\ Thinned(AfterDrop(Len(ready), i)) /\ Strictly(AfterDrop(Len(ready), i))
         /\ Len(ready) \in Nat /\ Len(ready') = Len(ready) - 1
<1>1. PICK s, n, from : s = ready /\ n = Len(ready) /\ from = AfterDrop(n, i)
  OBVIOUS
<1>2. s \in Seq(Calls) /\ i \in DOMAIN s
  BY <1>1 DEF Inv, TypeOK
<1>3. /\ n \in Nat /\ DOMAIN s = 1..n /\ i \in 1..n
      /\ ready' \in Seq(Calls) /\ Len(ready') = n - 1
      /\ \A j \in 1..(n - 1) : ready'[j] = IF j < i THEN s[j] ELSE s[j + 1]
  BY <1>1, <1>2, RemoveKeeps
<1>4. DOMAIN ready' = 1..(n - 1)
  BY <1>3, LenProperties
<1>5. \A j \in 1..(n - 1) : from[j] = IF j < i THEN j ELSE j + 1
  BY <1>1 DEF AfterDrop
<1>6. ASSUME NEW j \in 1..(n - 1) PROVE from[j] \in 1..n /\ ready'[j] = s[from[j]]
  <2>1. CASE j < i
    BY <1>3, <1>5, <2>1
  <2>2. CASE ~ (j < i)
    BY <1>3, <1>5, <2>2
  <2>3. QED
    BY <2>1, <2>2
<1>7. ASSUME NEW j \in 1..(n - 1), NEW l \in 1..(n - 1), from[j] = from[l] PROVE j = l
  BY <1>3, <1>5, <1>7
<1>8. \A j \in 1..(n - 1) : from[j] # i
  BY <1>3, <1>5
<1>9. QED
  BY <1>1, <1>3, <1>4, <1>6, <1>7, <1>8 DEF Thinned, Strictly

\* A retirement keeps entries in their order, and counts those it does not keep.
LEMMA RetireThins ==
  ASSUME Inv, SpecTypeOK, NEW c \in Calls, Retire(c)
  PROVE  /\ \E from : Thinned(from) /\ (Current(c) # DOMAIN ready => Strictly(from))
         /\ Len(ready) \in Nat /\ Len(ready') \in 0..Len(ready)
         /\ retirements' = retirements + Len(ready) - Len(ready')
<1>1. PICK n, m, S : n = Len(ready) /\ S = Current(c) /\ m = Cardinality(S)
  OBVIOUS
<1>2. ready \in Seq(Calls) /\ n \in Nat /\ DOMAIN ready = 1..n
  BY <1>1, LenProperties DEF Inv, TypeOK
<1>3. S \subseteq 1..n
  BY <1>1, <1>2 DEF Current
<1>4. m \in Nat /\ m <= n
  <2>1. IsFiniteSet(1..n) /\ Cardinality(1..n) = n
    BY <1>2, FS_Interval
  <2>2. IsFiniteSet(S) /\ m <= n
    BY <1>1, <1>3, <2>1, FS_Subset
  <2>3. QED
    BY <1>1, <2>2, FS_CardinalityType
<1>5. PICK at \in [1..m -> S] :
        /\ \A i, j \in DOMAIN at : i < j => at[i] < at[j]
        /\ ready' = [i \in DOMAIN at |-> ready[at[i]]]
  BY <1>1 DEF Retire
<1>6. DOMAIN at = 1..m /\ \A i \in 1..m : at[i] \in 1..n
  BY <1>3, <1>5
<1>7. ready' \in [1..m -> Calls] /\ \A i \in 1..m : ready'[i] = ready[at[i]]
  <2>1. \A i \in 1..m : ready[at[i]] \in Calls
    BY <1>1, <1>2, <1>6, ElementOfSeq
  <2>2. QED
    BY <1>5, <1>6, <2>1
<1>8. ready' \in Seq(Calls)
  BY <1>4, <1>7, SeqDef
<1>9. DOMAIN ready' = 1..m /\ Len(ready') = m
  BY <1>4, <1>7, <1>8, LenProperties
<1>10. ASSUME NEW i \in 1..m, NEW j \in 1..m, at[i] = at[j] PROVE i = j
  <2>1. ~ (i < j) /\ ~ (j < i)
    BY <1>5, <1>6, <1>10
  <2>2. QED
    BY <1>4, <2>1
<1>11. Thinned(at)
  BY <1>2, <1>6, <1>7, <1>8, <1>9, <1>10 DEF Thinned
<1>12. retirements' = retirements + n - m
  BY <1>1 DEF Retire
<1>13. S # DOMAIN ready => Strictly(at)
  <2>1. \A i \in DOMAIN ready \ S : \A j \in 1..m : at[j] # i
    BY <1>5
  <2>2. QED
    BY <1>2, <1>3, <1>9, <2>1 DEF Strictly
<1>14. QED
  BY <1>1, <1>2, <1>4, <1>9, <1>11, <1>12, <1>13

\* Entries that went without having been evicted.
Gone == guardMisses + retirements

\* What tier 1 does of its own: entries go and are counted, and where a call is
\* refused the event, one at least went.
Drops ==
  /\ BaseStays
  /\ \E from : Thinned(from) /\ (Stays \/ (Strictly(from) /\ \E c \in Calls : Denied(c)))
  /\ Len(ready') \in Nat
  /\ Gone' - Gone = Len(ready) - Len(ready')
  /\ guardMisses' \in Nat /\ retirements' \in Nat

LEMMA DriftDrops == SpecTypeOK /\ Inv => \A c \in Calls : ProbeDrift(c) => Drops
<1> SUFFICES ASSUME SpecTypeOK, Inv, NEW c \in Calls, ProbeDrift(c) PROVE Drops
  OBVIOUS
<1>1. PICK i \in DOMAIN ready : ready' = RemoveAt(ready, i)
  BY DEF ProbeDrift
<1>2. /\ Thinned(AfterDrop(Len(ready), i)) /\ Strictly(AfterDrop(Len(ready), i))
      /\ Len(ready) \in Nat /\ Len(ready') = Len(ready) - 1
  BY <1>1, DropEntry
<1>3. BaseStays /\ guardMisses' = guardMisses + 1 /\ retirements' = retirements
  BY DEF ProbeDrift, BaseStays
<1>4. guardMisses \in Nat /\ retirements \in Nat
  BY DEF SpecTypeOK
<1>5. Len(ready') \in Nat
  BY <1>2, LenProperties DEF Thinned
<1>6. Stays \/ Denied(c)
  BY DEF ProbeDrift, Emit, Stays, Denied
<1>7. QED
  BY <1>2, <1>3, <1>4, <1>5, <1>6 DEF Drops, Gone

LEMMA RetireDrops == SpecTypeOK /\ Inv => \A c \in Calls : Retire(c) => Drops
<1> SUFFICES ASSUME SpecTypeOK, Inv, NEW c \in Calls, Retire(c) PROVE Drops
  OBVIOUS
<1>1. /\ \E from : Thinned(from) /\ (Current(c) # DOMAIN ready => Strictly(from))
      /\ Len(ready) \in Nat /\ Len(ready') \in 0..Len(ready)
      /\ retirements' = retirements + Len(ready) - Len(ready')
  BY RetireThins
<1>2. BaseStays /\ guardMisses' = guardMisses
  BY DEF Retire, BaseStays
<1>3. guardMisses \in Nat /\ retirements \in Nat
  BY DEF SpecTypeOK
<1>4. Stays \/ (Current(c) # DOMAIN ready /\ Denied(c))
  BY DEF Retire, Emit, Stays, Denied
<1>5. QED
  BY <1>1, <1>2, <1>3, <1>4 DEF Drops, Gone

LEMMA BumpDrops == SpecTypeOK /\ Inv => \A t \in Threads : BumpGeneration(t) => Drops
<1> SUFFICES ASSUME SpecTypeOK, Inv, NEW t \in Threads, BumpGeneration(t) PROVE Drops
  OBVIOUS
<1>1. ready' = <<>> /\ retirements' = retirements + Len(ready) /\ guardMisses' = guardMisses /\ BaseStays /\ Stays
  BY DEF BumpGeneration, BaseStays, Stays
<1>2. Len(ready) \in Nat /\ Len(ready') = 0 /\ ready' \in Seq(Calls) /\ DOMAIN ready' = {}
  BY <1>1, LenProperties DEF Inv, TypeOK
<1>3. Thinned(<<>>)
  BY <1>2 DEF Thinned
<1>4. guardMisses \in Nat /\ retirements \in Nat
  BY DEF SpecTypeOK
<1>5. QED
  BY <1>1, <1>2, <1>3, <1>4 DEF Drops, Gone

\* The keys of the hot path are keys.
LEMMA KeyForIsKey ==
  ASSUME SpecTypeOK, NEW h \in Handles, NEW a \in Args
  PROVE  <<CodeOf[h], a, generation>> \in Keys
  BY KeysAssumption, CodeAssumption DEF SpecTypeOK

\* Every step of tier 1 is a step of the base class or drops entries.
LEMMA SpecSteps ==
  ASSUME SpecTypeOK, Inv, [SpecNext]_allVars
  PROVE  \/ [Next]_vars /\ UNCHANGED <<guardMisses, retirements>>
         \/ Drops
<1>1. ASSUME NEW c \in Calls, NEW t \in Threads, NEW h \in Handles, NEW a \in Args, NEW F \in Contexts,
             SpecCall(c, t, h, a, F)
      PROVE  Next /\ UNCHANGED <<guardMisses, retirements>>
  BY <1>1, KeyForIsKey DEF SpecCall, Next, specVars
<1>2. ASSUME NEW c \in Calls, ProbeHit(c) \/ BaseStep(c)
      PROVE  Next /\ UNCHANGED <<guardMisses, retirements>>
  BY <1>2 DEF ProbeHit, BaseStep, Next, Step, specVars
<1>3. ASSUME NEW c \in Calls, ProbeMiss(c)
      PROVE  UNCHANGED vars /\ UNCHANGED <<guardMisses, retirements>>
  BY <1>3 DEF ProbeMiss, specVars
<1>4. ASSUME NEW h \in Handles, Rebind(h) \/ Restore(h)
      PROVE  UNCHANGED vars /\ UNCHANGED <<guardMisses, retirements>>
  BY <1>4 DEF Rebind, Restore, specVars
<1>5. ASSUME UNCHANGED allVars
      PROVE  UNCHANGED vars /\ UNCHANGED <<guardMisses, retirements>>
  BY <1>5 DEF allVars, specVars
<1>6. QED
  BY <1>1, <1>2, <1>3, <1>4, <1>5, DriftDrops, RetireDrops, BumpDrops DEF SpecNext, SpecStep

-----------------------------------------------------------------------------
(* The invariant                                                           *)

LEMMA SpecTypeStep == SpecTypeOK /\ Inv /\ [SpecNext]_allVars => SpecTypeOK'
<1> SUFFICES ASSUME SpecTypeOK, Inv, [SpecNext]_allVars PROVE SpecTypeOK'
  OBVIOUS
<1>. SpecTypeOK
  OBVIOUS
<1>1. ASSUME NEW c \in Calls, NEW t \in Threads, NEW h \in Handles, NEW a \in Args, NEW F \in Contexts,
             SpecCall(c, t, h, a, F)
      PROVE  SpecTypeOK'
  BY <1>1 DEF SpecCall, SpecTypeOK, Stages, specVars
<1>2. ASSUME NEW c \in Calls, ProbeHit(c) \/ BaseStep(c) PROVE SpecTypeOK'
  BY <1>2 DEF ProbeHit, BaseStep, SpecTypeOK, specVars
<1>3. ASSUME NEW c \in Calls, NEW s \in Stages, Advance(c, s)
      PROVE  stage' \in [Calls -> Stages] /\ handle' \in [Calls -> Handles \cup {None}]
  BY <1>3 DEF Advance, SpecTypeOK
<1>4. \A c \in Calls : stage[c] \in {"outer", "inner"} => After(stage[c]) \in Stages
  BY DEF After, Stages
<1>5. ASSUME NEW c \in Calls, ProbeMiss(c) PROVE SpecTypeOK'
  BY <1>3, <1>4, <1>5 DEF ProbeMiss, SpecTypeOK, specVars
<1>6. ASSUME NEW c \in Calls, ProbeDrift(c) PROVE SpecTypeOK'
  BY <1>3, <1>4, <1>6 DEF ProbeDrift, Emit, SpecTypeOK
<1>7. ASSUME NEW c \in Calls, Retire(c) PROVE SpecTypeOK'
  <2>1. key[c] \in Keys
    BY <1>7 DEF Retire, Inv, CallsInv
  <2>2. CodeOfKey(key[c]) \in Codes
    BY <2>1, KeysAssumption DEF CodeOfKey
  <2>3. currentCode' \in [Locs -> Codes \cup {None}]
    BY <1>7, <2>2 DEF Retire, SpecTypeOK
  <2>4. stage' \in [Calls -> Stages] /\ handle' \in [Calls -> Handles \cup {None}]
    BY <1>3, <1>7 DEF Retire, Emit, Stages
  <2>5. retirements' \in Nat
    BY <1>7, RetireDrops DEF Drops
  <2>6. QED
    BY <1>7, <2>3, <2>4, <2>5 DEF Retire, SpecTypeOK
<1>8. ASSUME NEW t \in Threads, BumpGeneration(t) PROVE SpecTypeOK'
  <2>1. retirements' \in Nat
    BY <1>8, BumpDrops DEF Drops
  <2>2. generation' \in 0..MaxGeneration
    BY <1>8, GenerationAssumption DEF BumpGeneration, SpecTypeOK
  <2>3. QED
    BY <1>8, <2>1, <2>2 DEF BumpGeneration, SpecTypeOK
<1>9. ASSUME NEW h \in Handles, Rebind(h) \/ Restore(h) PROVE SpecTypeOK'
  BY <1>9 DEF Rebind, Restore, SpecTypeOK, specVars
<1>10. CASE UNCHANGED allVars
  BY <1>10 DEF allVars, specVars, SpecTypeOK
<1>11. QED
  BY <1>1, <1>2, <1>5, <1>6, <1>7, <1>8, <1>9, <1>10 DEF SpecNext, SpecStep

LEMMA SpecBaseStep == SpecTypeOK /\ Inv /\ [SpecNext]_allVars => Inv'
<1> SUFFICES ASSUME SpecTypeOK, Inv, [SpecNext]_allVars PROVE Inv'
  OBVIOUS
<1>1. CASE [Next]_vars
  BY <1>1, StepInv
<1>2. CASE Drops
  BY <1>2, ThinnedInv DEF Drops, Denies
<1>3. QED
  BY <1>1, <1>2, SpecSteps

\* What went is counted as what is not booked.
LEMMA EntriesStep == SpecTypeOK /\ Inv /\ EntriesAddUp /\ [SpecNext]_allVars => EntriesAddUp'
<1> SUFFICES ASSUME SpecTypeOK, Inv, EntriesAddUp, [SpecNext]_allVars PROVE EntriesAddUp'
  OBVIOUS
<1>1. SpecTypeOK' /\ Inv'
  BY SpecTypeStep, SpecBaseStep
<1>2. /\ guardMisses \in Nat /\ retirements \in Nat /\ guardMisses' \in Nat /\ retirements' \in Nat
  BY <1>1 DEF SpecTypeOK
<1>3. PICK c, l, e, p, g, r : /\ c = stats.compiles /\ l = Len(ready) /\ e = stats.evictions
                              /\ p = Cardinality(Publishing) /\ g = guardMisses /\ r = retirements
  OBVIOUS
<1>4. PICK c1, l1, e1, p1, g1, r1 :
        /\ c1 = stats'.compiles /\ l1 = Len(ready') /\ e1 = stats'.evictions
        /\ p1 = Cardinality(Publishing') /\ g1 = guardMisses' /\ r1 = retirements'
  OBVIOUS
<1>5. c \in Nat /\ l \in Nat /\ e \in Nat /\ p \in Nat /\ g \in Nat /\ r \in Nat
  BY <1>2, <1>3, BooksType
<1>6. c1 \in Nat /\ l1 \in Nat /\ e1 \in Nat /\ p1 \in Nat /\ g1 \in Nat /\ r1 \in Nat
  BY <1>1, <1>2, <1>4, BooksNext
<1>7. c = l + e + g + r + p
  BY <1>3 DEF EntriesAddUp, Publishing
<1>8. CASE [Next]_vars /\ UNCHANGED <<guardMisses, retirements>>
  <2>1. c1 - (l1 + e1 + p1) = c - (l + e + p) /\ g1 = g /\ r1 = r
    BY <1>3, <1>4, <1>8, BooksStep DEF BooksKept, Booked
  <2>2. c1 = l1 + e1 + g1 + r1 + p1
    BY <1>5, <1>6, <1>7, <2>1
  <2>3. QED
    BY <1>4, <2>2 DEF EntriesAddUp, Publishing
<1>9. CASE Drops
  <2>1. c1 = c /\ e1 = e /\ p1 = p
    <3>1. BaseStays /\ Denies
      BY <1>9 DEF Drops, Denies
    <3>2. Publishing' = Publishing
      BY <3>1, WhereCallsAre DEF Publishing
    <3>3. QED
      BY <1>3, <1>4, <3>1, <3>2 DEF BaseStays
  <2>2. (g1 + r1) - (g + r) = l - l1
    BY <1>3, <1>4, <1>9 DEF Drops, Gone
  <2>3. c1 = l1 + e1 + g1 + r1 + p1
    BY <1>5, <1>6, <1>7, <2>1, <2>2
  <2>4. QED
    BY <1>4, <2>3 DEF EntriesAddUp, Publishing
<1>10. QED
  BY <1>8, <1>9, SpecSteps

LEMMA SpecInitInv == SpecInit => SpecInv
<1> SUFFICES ASSUME SpecInit PROVE SpecInv
  OBVIOUS
<1>1. Inv
  BY InitInv DEF SpecInit
<1>2. SpecTypeOK
  BY GenerationAssumption DEF SpecInit, SpecTypeOK, Stages
<1>3. EntriesAddUp
  <2>1. {c \in Calls : pc[c] = "publish"} = {}
    BY DEF SpecInit, Init
  <2>2. Len(ready) = 0 /\ stats.compiles = 0 /\ stats.evictions = 0 /\ guardMisses = 0 /\ retirements = 0
    BY DEF SpecInit, Init
  <2>3. QED
    <3>1. Cardinality({c \in Calls : pc[c] = "publish"}) = 0
      BY <2>1, FS_EmptySet
    <3>2. QED
      BY <2>2, <3>1 DEF EntriesAddUp
<1>4. QED
  BY <1>1, <1>2, <1>3 DEF SpecInv

\* Tier 1 keeps the invariant of the base class while probes, retirements and
\* generation bumps take entries away in the middle of its builds, and counts
\* every record that was ever built: as ready, evicted, drifted or retired.
THEOREM EntriesAreAccountedFor == SpecSpec => []SpecInv
<1>1. SpecInv /\ [SpecNext]_allVars => SpecInv'
  BY SpecTypeStep, SpecBaseStep, EntriesStep DEF SpecInv
<1>2. QED
  BY <1>1, SpecInitInv, PTL DEF SpecSpec

\* Tier 1 is an atomic memo whose owner may drop entries: a probe that finds a
\* guard drifted, a retirement or a bump in the middle of a build never makes a
\* call get what was not built for its key, builds a key twice at once, or keeps
\* a failure.
THEOREM Tier1IsForgetfulMemo == SpecSpec => ImplementsForgetfulMemo
<1>1. SpecInit => Memo!MemoInit
  BY InitImplements DEF SpecInit
<1>2. SpecInv /\ [SpecNext]_allVars
        => [Memo!MemoNext \/ Memo!Forget \/ \E c \in Calls : Memo!Deny(c)]_(Memo!memoVars)
  <2> SUFFICES ASSUME SpecInv, [SpecNext]_allVars
               PROVE  \/ Memo!MemoNext \/ Memo!Forget \/ \E c \in Calls : Memo!Deny(c)
                      \/ UNCHANGED Memo!memoVars
    OBVIOUS
  <2>1. SpecTypeOK /\ Inv
    BY DEF SpecInv
  <2>2. CASE [Next]_vars
    BY <2>1, <2>2, NextImplements
  <2>3. CASE Drops
    BY <2>1, <2>3, ThinnedForgets, ThinnedDenies DEF Drops
  <2>4. QED
    BY <2>1, <2>2, <2>3, SpecSteps
<1>3. QED
  BY <1>1, <1>2, EntriesAreAccountedFor, PTL DEF SpecSpec, ImplementsForgetfulMemo, Memo!ForgetfulMemoSpec

-----------------------------------------------------------------------------
(* Drift                                                                   *)

\* What a step does to a call whose step it is not.
Rests(d) ==
  /\ pc'[d] = pc[d] /\ key'[d] = key[d] /\ target'[d] = target[d] /\ answer'[d] = answer[d]
  /\ stage'[d] = stage[d] /\ handle'[d] = handle[d]

\* A call that has passed the first probe finds no stale entry of its key, waits
\* for none, and got none; what is stale was built and published before it.
StaleOf(c) ==
  /\ stale[c] \subseteq Calls
  /\ pc[c] = "lookup" => stage[c] \in {"outer", "inner", "retire", "base"}
  /\ pc[c] = "lookup" /\ stage[c] # "outer" => ToSet(ready) \cap stale[c] = {}
  /\ pc[c] = "wait" => target[c] \notin stale[c]
  /\ pc[c] = "returned" => answer[c] \notin stale[c]
  /\ \A b \in stale[c] : b # c /\ key[b] = key[c] /\ Past(b) /\ handle[b] \in drifted

StaleInv == \A c \in Calls : StaleOf(c)

\* What is published stays so, and only what was not published enters _ready.
Keeps ==
  /\ \A b \in Calls : Past(b) => Past(b)' /\ key'[b] = key[b] /\ handle'[b] = handle[b]
  /\ \A x \in ToSet(ready') : x \in ToSet(ready) \/ ~ Past(x)

\* The steps of the base class keep it.
LEMMA BaseKeeps ==
  ASSUME Inv, NEW c \in Calls, Step(c), handle' = handle
  PROVE  Keeps /\ key' = key /\ ~ Done(c) /\ pc[c] # "unused" /\ Moves(c)
<1>1. Moves(c)
  BY StepMoves
<1>2. key' = key /\ ~ Done(c) /\ pc[c] # "unused"
  BY DEF Step, Hit, Lead, Join, Reenter, Wake, Miss, CompileOk, CompileFail, Publish,
         Signal, Announce, Abort, Release, callVars, Done
<1>3. Past(c) => Past(c)'
  <2>1. CASE Signal(c) \/ Announce(c)
    BY <2>1 DEF Signal, Announce, Goto, Return, Raise, Past, Inv, TypeOK
  <2>2. CASE ~ (Signal(c) \/ Announce(c))
    BY <1>2, <2>2 DEF Step, Hit, Lead, Join, Reenter, Wake, Miss, CompileOk, CompileFail, Publish,
                      Abort, Release, Past, Done
  <2>3. QED
    BY <2>1, <2>2
<1>4. \A b \in Calls : Past(b) => Past(b)'
  BY <1>1, <1>3 DEF Moves, Past
<1>5. \A x \in ToSet(ready') : x \in ToSet(ready) \/ ~ Past(x)
  <2>1. CASE Hit(c)
    <3>1. PICK i \in DOMAIN ready : ready' = Append(RemoveAt(ready, i), ready[i])
      BY <2>1 DEF Hit
    <3>2. QED
      BY <3>1, TouchedStore
  <2>2. CASE Publish(c)
    <3>1. ToSet(ready') = (ToSet(ready) \cup {c}) \ evicted'[c]
      BY <2>2, PublishedStore
    <3>2. ~ Past(c)
      BY <2>2 DEF Publish, Past
    <3>3. QED
      BY <3>1, <3>2
  <2>3. CASE ~ Hit(c) /\ ~ Publish(c)
    <3>1. ready' = ready
      BY <2>3 DEF Step, Lead, Join, Reenter, Wake, Miss, CompileOk, CompileFail,
                  Signal, Announce, Abort, Release, tierVars
    <3>2. QED
      BY <3>1
  <2>4. QED
    BY <2>1, <2>2, <2>3
<1>6. QED
  BY <1>1, <1>2, <1>4, <1>5 DEF Keeps

\* So does every step that drops entries.
LEMMA DropsKeep ==
  ASSUME Inv, Drops, handle' = handle
  PROVE  Keeps /\ key' = key /\ ToSet(ready') \subseteq ToSet(ready)
<1>1. BaseStays /\ Denies /\ key' = key
  BY DEF Drops, Denies, BaseStays, callVars
<1>2. ToSet(ready') \subseteq ToSet(ready)
  BY <1>1, ThinnedInv DEF Drops
<1>3. \A b \in Calls : Past(b) => Past(b)'
  BY <1>1, WhereCallsAre DEF Past
<1>4. QED
  BY <1>1, <1>2, <1>3 DEF Keeps

\* Stale entries of a call that is under way get fewer: the cells are put back.
LEMMA StaleShrinks ==
  ASSUME [StaleNext]_<<allVars, stale>>, NEW c \in Calls, pc[c] # "unused"
  PROVE  /\ stale'[c] \subseteq stale[c]
         /\ (\A b \in stale[c] : handle[b] \in drifted) => \A b \in stale'[c] : handle[b] \in drifted'
<1>1. CASE StaleNext
  <2>1. stale'[c] = IF pc'[c] = "unused" THEN {} ELSE {b \in WasStale(c) : handle[b] \in drifted'}
    BY <1>1 DEF StaleNext
  <2>2. WasStale(c) \subseteq stale[c]
    BY DEF WasStale
  <2>3. QED
    BY <2>1, <2>2
<1>2. CASE UNCHANGED <<allVars, stale>>
  BY <1>2 DEF allVars
<1>3. QED
  BY <1>1, <1>2

\* What is stale stays published, of its key and with a rebound cell.
LEMMA StaleStays ==
  ASSUME Keeps, [StaleNext]_<<allVars, stale>>, NEW c \in Calls, StaleOf(c), pc[c] # "unused", key'[c] = key[c]
  PROVE  /\ stale'[c] \subseteq stale[c] /\ stale'[c] \subseteq Calls
         /\ \A b \in stale'[c] : b # c /\ key'[b] = key'[c] /\ Past(b)' /\ handle'[b] \in drifted'
<1>1. stale[c] \subseteq Calls /\ \A b \in stale[c] : b # c /\ key[b] = key[c] /\ Past(b) /\ handle[b] \in drifted
  BY DEF StaleOf
<1>2. stale'[c] \subseteq stale[c] /\ \A b \in stale'[c] : handle[b] \in drifted'
  BY <1>1, StaleShrinks
<1>3. QED
  BY <1>1, <1>2 DEF Keeps

\* A call whose step it is not is not offered what it must not be given.
LEMMA RestsStale ==
  ASSUME Keeps, [StaleNext]_<<allVars, stale>>, NEW d \in Calls, StaleOf(d), Rests(d)
  PROVE  StaleOf(d)'
<1>1. CASE pc[d] = "unused"
  <2>1. CASE StaleNext
    <3>1. stale'[d] = {}
      BY <1>1, <2>1 DEF StaleNext, Rests
    <3>2. QED
      BY <1>1, <3>1 DEF StaleOf, Rests
  <2>2. CASE UNCHANGED <<allVars, stale>>
    <3>1. /\ stale' = stale /\ pc' = pc /\ stage' = stage /\ ready' = ready /\ target' = target
          /\ answer' = answer /\ key' = key /\ handle' = handle /\ drifted' = drifted
      BY <2>2 DEF allVars, vars
    <3>2. QED
      BY <3>1 DEF StaleOf, Past
  <2>3. QED
    BY <2>1, <2>2
<1>2. CASE pc[d] # "unused"
  <2>1. /\ stale'[d] \subseteq stale[d] /\ stale'[d] \subseteq Calls
        /\ \A b \in stale'[d] : b # d /\ key'[b] = key'[d] /\ Past(b)' /\ handle'[b] \in drifted'
    BY <1>2, StaleStays DEF Rests
  <2>2. ASSUME pc'[d] = "lookup", stage'[d] # "outer", NEW x \in ToSet(ready'), x \in stale'[d] PROVE FALSE
    <3>1. x \in stale[d] /\ Past(x) /\ ToSet(ready) \cap stale[d] = {}
      BY <2>1, <2>2 DEF StaleOf, Rests
    <3>2. QED
      BY <2>2, <3>1 DEF Keeps
  <2>3. QED
    BY <2>1, <2>2 DEF StaleOf, Rests
<1>3. QED
  BY <1>1, <1>2

\* Nor is the call that moves, if it gets by without.
LEMMA MovesStale ==
  ASSUME Keeps, [StaleNext]_<<allVars, stale>>, NEW c \in Calls, StaleOf(c), pc[c] # "unused", key'[c] = key[c],
         pc'[c] = "lookup" => /\ stage'[c] \in {"inner", "retire", "base"}
                              /\ ToSet(ready') \cap stale[c] = {},
         pc'[c] = "wait" => target'[c] \notin stale[c],
         pc'[c] = "returned" => answer'[c] \notin stale'[c]
  PROVE  StaleOf(c)'
<1>1. /\ stale'[c] \subseteq stale[c] /\ stale'[c] \subseteq Calls
      /\ \A b \in stale'[c] : b # c /\ key'[b] = key'[c] /\ Past(b)' /\ handle'[b] \in drifted'
  BY StaleStays
<1>2. QED
  BY <1>1 DEF StaleOf

\* What moves no call, and takes nothing into _ready, changes nothing.
LEMMA AllRest ==
  ASSUME StaleInv, Keeps, [StaleNext]_<<allVars, stale>>, \A d \in Calls : Rests(d)
  PROVE  StaleInv'
  BY RestsStale DEF StaleInv

\* A step of one call.
LEMMA OneMoves ==
  ASSUME StaleInv, Keeps, [StaleNext]_<<allVars, stale>>, NEW c \in Calls, StaleOf(c)',
         \A d \in Calls \ {c} : Rests(d)
  PROVE  StaleInv'
  BY RestsStale DEF StaleInv

\* A call that begins has what is stale recorded.
LEMMA CallStale ==
  ASSUME SpecTypeOK, Inv, StaleInv, StaleNext, NEW c \in Calls, NEW t \in Threads, NEW h \in Handles,
         NEW a \in Args, NEW F \in Contexts, SpecCall(c, t, h, a, F)
  PROVE  StaleInv'
<1>1. /\ pc[c] = "unused" /\ pc' = [pc EXCEPT ![c] = "lookup"] /\ ready' = ready
      /\ target' = target /\ answer' = answer /\ drifted' = drifted
      /\ key' = [key EXCEPT ![c] = <<CodeOf[h], a, generation>>]
      /\ stage' = [stage EXCEPT ![c] = "outer"] /\ handle' = [handle EXCEPT ![c] = h]
  BY DEF SpecCall, Call, Enter, Goto, tierVars
<1>2. pc'[c] = "lookup" /\ stage'[c] = "outer" /\ \A d \in Calls \ {c} : Rests(d)
  BY <1>1 DEF SpecTypeOK, Inv, TypeOK, Rests
<1>3. \A b \in Calls : Past(b) => b # c /\ Past(b)' /\ key'[b] = key[b] /\ handle'[b] = handle[b]
  BY <1>1, <1>2 DEF Past, Rests
<1>4. Keeps
  BY <1>1, <1>3 DEF Keeps
<1>5. stale'[c] = {b \in {x \in ToSet(ready) : key[x] = key'[c]} : handle[b] \in drifted'}
  BY <1>1, <1>2 DEF StaleNext, WasStale
<1>6. \A b \in ToSet(ready) : b \in Calls /\ Past(b)
  BY DEF ToSet, Inv, ReadyInv, Good
<1>7. StaleOf(c)'
  BY <1>2, <1>3, <1>5, <1>6 DEF StaleOf
<1>8. QED
  BY <1>2, <1>4, <1>7, OneMoves

\* The calls whose step it is not rest.
LEMMA OthersRest ==
  ASSUME NEW c \in Calls, Moves(c), key' = key, UNCHANGED <<stage, handle>>
  PROVE  \A d \in Calls \ {c} : Rests(d)
  BY DEF Moves, Rests

\* A probe that hits looked at the guards of what it returns.
LEMMA HitStale ==
  ASSUME SpecTypeOK, Inv, StaleInv, StaleNext, NEW c \in Calls, ProbeHit(c)
  PROVE  StaleInv'
<1>1. Step(c) /\ handle' = handle /\ stage' = stage /\ drifted' = drifted
  BY DEF ProbeHit, Step
<1>2. Keeps /\ key' = key /\ pc[c] # "unused" /\ Moves(c)
  BY <1>1, BaseKeeps
<1>3. PICK i \in DOMAIN ready : key[ready[i]] = key[c] /\ pc'[c] = "returned" /\ answer'[c] = ready[i]
  BY DEF ProbeHit, Hit, Return, Goto, Inv, TypeOK
<1>4. handle[ready[i]] \notin drifted
  BY <1>3 DEF ProbeHit, GuardsOk, Inv, ReadyInv
<1>5. StaleOf(c)
  BY DEF StaleInv
<1>6. \A b \in stale'[c] : handle[b] \in drifted
  BY <1>1, <1>2, <1>5, StaleShrinks DEF StaleOf
<1>7. StaleOf(c)'
  BY <1>2, <1>3, <1>4, <1>5, <1>6, MovesStale
<1>8. QED
  BY <1>1, <1>2, <1>7, OneMoves, OthersRest

\* The base class has no stale entry to give.
LEMMA BaseStale ==
  ASSUME SpecTypeOK, Inv, StaleInv, StaleNext, NEW c \in Calls, BaseStep(c)
  PROVE  StaleInv'
<1>1. Step(c) /\ handle' = handle /\ stage' = stage /\ stage[c] = "base"
  BY DEF BaseStep
<1>2. Keeps /\ key' = key /\ pc[c] # "unused" /\ Moves(c)
  BY <1>1, BaseKeeps
<1>3. StaleOf(c) /\ stale'[c] \subseteq stale[c]
  BY <1>2, StaleShrinks DEF StaleInv
<1>4. pc'[c] # "lookup"
  BY <1>1 DEF Step, Hit, Lead, Join, Reenter, Wake, Miss, CompileOk, CompileFail, Publish, Signal, Announce,
              Abort, Release, Goto, Return, Raise, Fail, Inv, TypeOK
<1>5. ASSUME pc'[c] = "wait" PROVE target'[c] \notin stale[c]
  <2>1. Join(c)
    BY <1>1, <1>5 DEF Step, Hit, Lead, Reenter, Wake, Miss, CompileOk, CompileFail, Publish, Signal, Announce,
              Abort, Release, Goto, Return, Raise, Fail, Inv, TypeOK
  <2>2. target'[c] = building[key[c]] /\ building[key[c]] # None /\ key[c] \in Keys
    BY <2>1 DEF Join, Inv, TypeOK, CallsInv
  <2>3. InFlight(target'[c])
    BY <2>2 DEF Inv, BuildingInv
  <2>4. ~ Past(target'[c])
    BY <2>3 DEF InFlight, Past
  <2>5. QED
    BY <1>3, <2>4 DEF StaleOf
<1>6. ASSUME pc'[c] = "returned" PROVE answer'[c] \notin stale[c]
  <2>1. CASE Hit(c)
    <3>1. PICK i \in DOMAIN ready : pc[c] = "lookup" /\ answer'[c] = ready[i]
      BY <2>1 DEF Hit, Return, Inv, TypeOK
    <3>2. ready[i] \in ToSet(ready)
      BY DEF ToSet
    <3>3. QED
      BY <1>1, <1>3, <3>1, <3>2 DEF StaleOf
  <2>2. CASE Wake(c)
    <3>1. pc[c] = "wait"
      BY <2>2 DEF Wake
    <3>2. answer'[c] = target[c]
      BY <1>6, <2>2 DEF Wake, Goto, Return, Raise, Inv, TypeOK
    <3>3. QED
      BY <1>3, <3>1, <3>2 DEF StaleOf
  <2>3. CASE Signal(c) \/ Announce(c)
    <3>1. answer'[c] = c
      BY <1>6, <2>3 DEF Signal, Announce, Goto, Return, Raise, Inv, TypeOK
    <3>2. QED
      BY <1>3, <3>1 DEF StaleOf
  <2>4. CASE ~ Hit(c) /\ ~ Wake(c) /\ ~ Signal(c) /\ ~ Announce(c)
    BY <1>1, <1>6, <2>4 DEF Step, Lead, Join, Reenter, Miss, CompileOk, CompileFail, Publish, Abort, Release,
                            Goto, Raise, Fail, Inv, TypeOK
  <2>5. QED
    BY <2>1, <2>2, <2>3, <2>4
<1>7. StaleOf(c)'
  BY <1>2, <1>3, <1>4, <1>5, <1>6, MovesStale
<1>8. QED
  BY <1>1, <1>2, <1>7, OneMoves, OthersRest

\* A probe that finds nothing leaves no stale entry of its key behind.
LEMMA MissStale ==
  ASSUME SpecTypeOK, Inv, StaleInv, StaleNext, NEW c \in Calls, ProbeMiss(c)
  PROVE  StaleInv'
<1>1. /\ pc' = pc /\ key' = key /\ target' = target /\ answer' = answer /\ ready' = ready /\ handle' = handle
      /\ pc[c] = "lookup" /\ stage[c] \in {"outer", "inner"} /\ key[c] \notin Held(ready)
      /\ stage' = [stage EXCEPT ![c] = After(stage[c])]
  BY DEF ProbeMiss, Advance, vars, callVars
<1>2. stage'[c] \in {"inner", "retire"} /\ \A d \in Calls \ {c} : Rests(d)
  BY <1>1 DEF SpecTypeOK, After, Rests
<1>3. Keeps
  BY <1>1 DEF Keeps, Past
<1>4. StaleOf(c)
  BY DEF StaleInv
<1>5. ToSet(ready') \cap stale[c] = {}
  BY <1>1, <1>4 DEF StaleOf, ToSet, Held
<1>6. StaleOf(c)'
  BY <1>1, <1>2, <1>3, <1>4, <1>5, MovesStale
<1>7. QED
  BY <1>2, <1>3, <1>6, OneMoves

\* A step that drops entries: the call whose step it is goes on or is denied.
LEMMA DropperMoves ==
  ASSUME SpecTypeOK, Inv, Drops, NEW c \in Calls, NEW s, NEW name, Emit(c, name, s) \/ (Stays /\ Advance(c, s)),
         pc[c] = "lookup"
  PROVE  /\ handle' = handle /\ \A d \in Calls \ {c} : Rests(d)
         /\ pc'[c] = "raised" \/ (pc'[c] = "lookup" /\ stage'[c] = s)
<1>1. /\ key' = key /\ target' = target
      /\ stage' = [stage EXCEPT ![c] = s] /\ handle' = handle
  BY DEF Drops, BaseStays, callVars, Emit, Advance
<1>2. Stays \/ Raise(c, "Forbidden")
  BY DEF Emit, Stays
<1>3. CASE Stays
  BY <1>1, <1>3 DEF Stays, SpecTypeOK, Rests
<1>4. CASE Raise(c, "Forbidden")
  BY <1>1, <1>4 DEF Raise, Goto, SpecTypeOK, Inv, TypeOK, Rests
<1>5. QED
  BY <1>2, <1>3, <1>4

\* A probe that finds the guards drifted drops the one entry of its key.
LEMMA DriftStale ==
  ASSUME SpecTypeOK, Inv, StaleInv, StaleNext, NEW c \in Calls, ProbeDrift(c)
  PROVE  StaleInv'
<1>1. Drops /\ pc[c] = "lookup" /\ stage[c] \in {"outer", "inner"} /\ Emit(c, "drift", After(stage[c]))
  BY DriftDrops DEF ProbeDrift
<1>2. /\ handle' = handle /\ \A d \in Calls \ {c} : Rests(d)
      /\ pc'[c] = "raised" \/ (pc'[c] = "lookup" /\ stage'[c] = After(stage[c]))
  BY <1>1, DropperMoves
<1>3. Keeps /\ key' = key
  BY <1>1, <1>2, DropsKeep
<1>4. PICK i \in DOMAIN ready : key[ready[i]] = key[c] /\ ready' = RemoveAt(ready, i)
  BY DEF ProbeDrift
<1>5. PICK from : Thinned(from) /\ \A j \in DOMAIN ready' : from[j] # i
  <2>1. PICK n, f : n = Len(ready) /\ f = AfterDrop(n, i)
    OBVIOUS
  <2>2. Thinned(f) /\ n \in Nat /\ Len(ready') = n - 1
    BY <1>4, <2>1, DropEntry
  <2>3. DOMAIN ready' = 1..(n - 1)
    BY <2>2, LenProperties DEF Thinned
  <2>4. i \in Nat
    BY LenProperties DEF Inv, TypeOK
  <2>5. \A j \in 1..(n - 1) : f[j] = IF j < i THEN j ELSE j + 1
    BY <2>1 DEF AfterDrop
  <2>6. QED
    BY <2>2, <2>3, <2>4, <2>5
<1>6. StaleOf(c)
  BY DEF StaleInv
<1>7. ASSUME NEW x \in ToSet(ready'), x \in stale[c] PROVE FALSE
  <2>1. PICK j \in DOMAIN ready' : x = ready'[j]
    BY <1>7 DEF ToSet
  <2>2. from[j] \in DOMAIN ready /\ x = ready[from[j]] /\ from[j] # i
    BY <1>5, <2>1 DEF Thinned
  <2>3. key[x] = key[ready[i]]
    BY <1>4, <1>6, <1>7 DEF StaleOf
  <2>4. QED
    BY <2>2, <2>3 DEF Inv, ReadyInv
<1>8. StaleOf(c)'
  BY <1>1, <1>2, <1>3, <1>6, <1>7, MovesStale DEF After
<1>9. QED
  BY <1>2, <1>3, <1>8, OneMoves

\* A retirement brings nothing back.
LEMMA RetireStale ==
  ASSUME SpecTypeOK, Inv, StaleInv, StaleNext, NEW c \in Calls, Retire(c)
  PROVE  StaleInv'
<1>1. /\ Drops /\ pc[c] = "lookup" /\ stage[c] = "retire"
      /\ Emit(c, "retire", "base") \/ (Stays /\ Advance(c, "base"))
  BY RetireDrops DEF Retire, Stays
<1>2. /\ handle' = handle /\ \A d \in Calls \ {c} : Rests(d)
      /\ pc'[c] = "raised" \/ (pc'[c] = "lookup" /\ stage'[c] = "base")
  BY <1>1, DropperMoves
<1>3. Keeps /\ key' = key /\ ToSet(ready') \subseteq ToSet(ready)
  BY <1>1, <1>2, DropsKeep
<1>4. StaleOf(c)
  BY DEF StaleInv
<1>5. ToSet(ready') \cap stale[c] = {}
  BY <1>1, <1>3, <1>4 DEF StaleOf
<1>6. StaleOf(c)'
  BY <1>1, <1>2, <1>3, <1>4, <1>5, MovesStale
<1>7. QED
  BY <1>2, <1>3, <1>6, OneMoves

LEMMA StaleStep == SpecTypeOK /\ Inv /\ StaleInv /\ [StaleNext]_<<allVars, stale>> => StaleInv'
<1> SUFFICES ASSUME SpecTypeOK, Inv, StaleInv, [StaleNext]_<<allVars, stale>> PROVE StaleInv'
  OBVIOUS
<1>1. CASE UNCHANGED <<allVars, stale>>
  <2>1. /\ stale' = stale /\ pc' = pc /\ stage' = stage /\ ready' = ready /\ target' = target
        /\ answer' = answer /\ key' = key /\ handle' = handle
    BY <1>1 DEF allVars, vars
  <2>2. Keeps /\ \A d \in Calls : Rests(d)
    BY <2>1 DEF Keeps, Past, Rests
  <2>3. QED
    BY <2>2, AllRest
<1>2. CASE StaleNext
  <2>1. SpecNext
    BY <1>2 DEF StaleNext
  <2>2. ASSUME NEW t \in Threads, BumpGeneration(t) PROVE StaleInv'
    <3>1. Drops
      BY <2>2, BumpDrops
    <3>2. handle' = handle /\ Keeps
      BY <2>2, <3>1, DropsKeep DEF BumpGeneration
    <3>3. \A d \in Calls : Rests(d)
      BY <2>2 DEF BumpGeneration, callVars, Rests
    <3>4. QED
      BY <3>2, <3>3, AllRest
  <2>3. ASSUME NEW h \in Handles, Rebind(h) \/ Restore(h) PROVE StaleInv'
    <3>1. /\ pc' = pc /\ stage' = stage /\ ready' = ready /\ target' = target
          /\ answer' = answer /\ key' = key /\ handle' = handle
      BY <2>3 DEF Rebind, Restore, vars
    <3>2. Keeps /\ \A d \in Calls : Rests(d)
      BY <3>1 DEF Keeps, Past, Rests
    <3>3. QED
      BY <3>2, AllRest
  <2>4. QED
    BY <1>2, <2>1, <2>2, <2>3, CallStale, HitStale, BaseStale, MissStale, DriftStale, RetireStale
       DEF SpecNext, SpecStep
<1>3. QED
  BY <1>1, <1>2

\* A capture rebound after decoration is caught at the next call: whatever is
\* built, retired, bumped and put back meanwhile, a record with a cell that was
\* rebound when a call began and stays so does not answer the call, although the
\* base class, which has the last look at _ready, does not know of guards.
THEOREM DriftsAreCaught == StaleSpec => []DriftIsCaught
<1>1. StaleSpec => SpecSpec
  <2>1. StaleInit => SpecInit
    BY DEF StaleInit
  <2>2. [StaleNext]_<<allVars, stale>> => [SpecNext]_allVars
    BY DEF StaleNext
  <2>3. QED
    BY <2>1, <2>2, PTL DEF StaleSpec, SpecSpec
<1>2. StaleInit => StaleInv
  BY DEF StaleInit, SpecInit, Init, StaleInv, StaleOf
<1>3. SpecInv /\ StaleInv /\ [StaleNext]_<<allVars, stale>> => StaleInv'
  BY StaleStep DEF SpecInv
<1>4. StaleInv => DriftIsCaught
  BY DEF StaleInv, StaleOf, DriftIsCaught
<1>5. QED
  BY <1>1, <1>2, <1>3, <1>4, EntriesAreAccountedFor, PTL DEF StaleSpec
=============================================================================
