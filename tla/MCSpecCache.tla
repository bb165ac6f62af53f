---------------------------- MODULE MCSpecCache ----------------------------
(***************************************************************************)
(* A small instance of SpecCache for TLC, with a record of what was stale  *)
(* when a call began: the entries under its key with a rebound cell, as    *)
(* long as the cell is not put back.                                       *)
(***************************************************************************)
EXTENDS SpecCache, TLC

CONSTANTS a1, h1, h2, h3, code1, code2, here

SpecKeys == Codes \X Args \X (0..MaxGeneration)
NoDeps == [k \in Keys |-> {}]
FreeContext == {{}}
OneForbidden == {{}, {"drift", "retire"}}
OneLoc == [c \in Codes |-> here]
\* Two closures of one code, and a closure of another, defined at one location.
TwoCodes == [h \in Handles |-> IF h = h3 THEN code2 ELSE code1]

Symmetry == Permutations(Calls) \cup Permutations(Threads)

-----------------------------------------------------------------------------
VARIABLE stale     \* [Calls -> the entries that must not answer the call]

WasStale(c) ==
  IF pc[c] = "unused" THEN {b \in ToSet(ready) : key[b] = key'[c]}
  ELSE IF Done(c) THEN {} ELSE stale[c]

StaleInit == SpecInit /\ stale = [c \in Calls |-> {}]
StaleNext ==
  /\ SpecNext
  /\ stale' = [c \in Calls |->
                IF pc'[c] = "unused" THEN {} ELSE {b \in WasStale(c) : handle[b] \in drifted'}]
StaleSpec == StaleInit /\ [][StaleNext]_<<allVars, stale>>

\* Bounds: of the handles, h1 is the one that is rebound and h3 is called once
\* at most, and one call at most forbids the events.
Bounded ==
  /\ drifted \subseteq {h1}
  /\ \A c, d \in Calls : handle[c] = h3 /\ handle[d] = h3 => c = d
  /\ \A c, d \in Calls : forbid[c] # {} /\ forbid[d] # {} => c = d
BoundedSpec == StaleInit /\ [][StaleNext /\ Bounded']_<<allVars, stale>>

\* "A capture rebound after decoration is caught at the next call": a record
\* with a cell that was rebound before a call began, and is not put back while
\* the call runs, does not answer it, though the base class serves _ready and
\* what it waited for without a look at the guards: by the time a call gets
\* there, a probe of some call has dropped the record for good.
DriftIsCaught == \A c \in Calls : pc[c] = "returned" => answer[c] \notin stale[c]

\* The same of the cells of the handle that is called.  It does not hold where
\* two closures share a code: the record has the guards of one of them only.
OwnDriftIsCaught ==
  [][\A c \in Calls : pc[c] = "lookup" /\ stage[c] # "base" /\ pc'[c] = "returned"
       => handle[c] \notin drifted]_allVars
=============================================================================
