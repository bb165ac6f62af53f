----------------------------- MODULE AtomicMemo -----------------------------
(***************************************************************************)
(* What a tier of the cache promises its callers, with no locks, slots or  *)
(* events: a store of at most Capacity builds, at most one per key, and    *)
(* calls that are answered in one atomic step each.  A call for a key in   *)
(* the store gets the stored build.  Otherwise one call of those that want *)
(* the key builds it, and some of the others share what becomes of the     *)
(* build, be it the value or the exception.  An exception is never stored. *)
(* TierCache is shown to implement this specification: a call is decided   *)
(* at some moment between being made and being answered.  SpecCache, whose *)
(* owner also drops entries, implements ForgetfulMemoSpec.                 *)
(***************************************************************************)
EXTENDS Integers, FiniteSets

CONSTANTS Calls, Keys, Capacity, None

VARIABLES
  want,     \* [Calls -> the key asked for]
  got,      \* [Calls -> the build that answers the call]
  failed,   \* [Calls -> the exception that answers the call]
  store,    \* the builds kept
  attempts  \* how many builds were tried

memoVars == <<want, got, failed, store, attempts>>

Failures == {"Forbidden", "Reentrant", "Failed"}
Open(c) == want[c] # None /\ got[c] = None /\ failed[c] = "none"
Stored(k) == \E b \in store : want[b] = k
Sharers(c) == {d \in Calls \ {c} : Open(d) /\ want[d] = want[c]}

MemoInit ==
  /\ want = [c \in Calls |-> None]
  /\ got = [c \in Calls |-> None]
  /\ failed = [c \in Calls |-> "none"]
  /\ store = {}
  /\ attempts = 0

Ask(c, k) ==
  /\ want[c] = None
  /\ want' = [want EXCEPT ![c] = k]
  /\ UNCHANGED <<got, failed, store, attempts>>

\* The key is in the store.
Recall(c) ==
  /\ Open(c)
  /\ \E b \in store : want[b] = want[c] /\ got' = [got EXCEPT ![c] = b]
  /\ UNCHANGED <<want, failed, store, attempts>>

\* c builds its key for itself and for W, and the builds D give way to it.  A
\* builder that forbids evictions gets an exception where there is one.
Build(c, W, D) ==
  /\ Open(c) /\ ~ Stored(want[c])
  /\ store' = (store \cup {c}) \ D
  /\ Cardinality(store') <= Capacity
  /\ D # {} => Cardinality(store') = Capacity
  /\ \/ got' = [d \in Calls |-> IF d \in W \cup {c} THEN c ELSE got[d]] /\ UNCHANGED failed
     \/ /\ D # {}
        /\ got' = [d \in Calls |-> IF d \in W THEN c ELSE got[d]]
        /\ failed' = [failed EXCEPT ![c] = "Forbidden"]
  /\ attempts' = attempts + 1
  /\ UNCHANGED want

\* The build of c fails, for itself and for W; nothing is stored, and the next
\* call for the key tries again.
Break(c, W, e) ==
  /\ Open(c) /\ ~ Stored(want[c])
  /\ failed' = [d \in Calls |-> IF d \in W \cup {c} THEN e ELSE failed[d]]
  /\ attempts' = attempts + 1
  /\ UNCHANGED <<want, got, store>>

\* c asks for a key from inside the build of that key.
Refuse(c) ==
  /\ Open(c) /\ ~ Stored(want[c])
  /\ failed' = [failed EXCEPT ![c] = "Reentrant"]
  /\ UNCHANGED <<want, got, store, attempts>>

MemoNext ==
  \E c \in Calls :
    \/ \E k \in Keys : Ask(c, k)
    \/ Recall(c) \/ Refuse(c)
    \/ \E W \in SUBSET Sharers(c), D \in SUBSET (store \cup {c}) : Build(c, W, D)
    \/ \E W \in SUBSET Sharers(c), e \in Failures : Break(c, W, e)

\* A memo whose owner may also drop entries, whatever is going on.
Forget ==
  /\ \E S \in SUBSET store : S # store /\ store' = S
  /\ UNCHANGED <<want, got, failed, attempts>>

\* A call that drops entries where that must not happen gets an exception; the
\* entries are gone all the same.
Deny(c) ==
  /\ Open(c)
  /\ failed' = [failed EXCEPT ![c] = "Forbidden"]
  /\ \E S \in SUBSET store : S # store /\ store' = S
  /\ UNCHANGED <<want, got, attempts>>

ForgetfulMemoSpec == MemoInit /\ [][MemoNext \/ Forget \/ \E c \in Calls : Deny(c)]_memoVars

MemoSpec == MemoInit /\ [][MemoNext]_memoVars
=============================================================================
