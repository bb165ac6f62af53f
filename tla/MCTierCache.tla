---------------------------- MODULE MCTierCache ----------------------------
(***************************************************************************)
(* A small instance of TierCache for TLC, with a record of its uses: the   *)
(* keys hit or published, in the order in which that happened under the    *)
(* lock.  The record gives LRU a reference definition that says nothing of *)
(* how _ready is reordered.                                                *)
(***************************************************************************)
EXTENDS TierCache, TLC

CONSTANT k1

\* The compile_fn of k1 may ask for any key, its own too: a recursion.
DepsSelf == [k \in Keys |-> IF k = k1 THEN Keys ELSE {}]

OneForbidden == {{}, {"miss"}, {"evict"}}

\* Calls are interchangeable, and so are threads; keys are not (Deps).
Symmetry == Permutations(Calls) \cup Permutations(Threads) \cup Permutations(Keys \ {k1})

-----------------------------------------------------------------------------
VARIABLE uses      \* Seq(Keys): the keys hit and published so far

Uses(c) ==
  \/ pc[c] = "lookup" /\ pc'[c] = "returned"
  \/ pc[c] = "publish" /\ pc'[c] = "signal"

HistoryInit == Init /\ uses = <<>>
HistoryNext ==
  /\ Next
  /\ uses' = IF \E c \in Calls : Uses(c)
             THEN Append(uses, key[CHOOSE c \in Calls : Uses(c)])
             ELSE uses
HistorySpec == HistoryInit /\ [][HistoryNext]_<<vars, uses>>

LastUse(k) == CHOOSE i \in DOMAIN uses : uses[i] = k /\ \A j \in i+1..Len(uses) : uses[j] # k

\* What an LRU of this capacity holds after these uses: the Capacity distinct
\* keys used last.
MostRecent ==
  {k \in ToSet(uses) : Cardinality({l \in ToSet(uses) : LastUse(l) > LastUse(k)}) < Capacity}

\* _ready is an LRU: it holds exactly the Capacity most recently used keys, in
\* the order of their last use, whatever hits, builds, waits and failures came
\* between ("LRU eviction", "move-to-end: LRU touch").
ReadyIsLRU ==
  /\ Held(ready) = MostRecent
  /\ \A i, j \in DOMAIN ready : i < j => LastUse(key[ready[i]]) < LastUse(key[ready[j]])

\* Entries and counters agree with each other, and the entries with the uses.
Bookkeeping == CountersAddUp /\ ReadyIsLRU
=============================================================================
