----------------------------- MODULE MCDispatch -----------------------------
(* Small instances of Dispatch for TLC.                                    *)
EXTENDS Dispatch, TLC

CONSTANTS f, g, ir

\* Two templates that lower to the same IR.
SameIr == [k \in Kernels |-> ir]
Records == [r \in Registrations |-> "record"]
Spellings == [r \in Registrations |-> "spelling"]

\* Which call begins next, on which idle thread, and with which of the kernels,
\* makes no difference: each has its turn and its thread, and the first one has
\* the first kernel.  A registration has the thread of the first one, so that the
\* other two overlap it.
Numbered(S) == CHOOSE n \in [S -> 1 .. Cardinality(S)] : \A x, y \in S : x # y => n[x] # n[y]
Turn == Numbered(Calls)
Seat == Numbered(Threads)
SeatOf == [a \in Actors |-> IF a \in Calls THEN Turn[a] ELSE 1]
InTurn == \A c, d \in Calls : pc[d] # "unused" /\ Turn[c] < Turn[d] => pc[c] # "unused"
Seated == \A a \in Actors : thread[a] # None => Seat[thread[a]] = SeatOf[a]
FirstIsF == \A c \in Calls : Turn[c] = 1 => kernel[c] \in {None, f}
InTurnNext == Next /\ InTurn' /\ Seated' /\ FirstIsF'
InTurnSpec == Init /\ [][InTurnNext]_vars /\ \A c \in Calls : WF_vars(Step(c))
=============================================================================
