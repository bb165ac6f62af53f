------------------------------ MODULE MCLedger ------------------------------
(* Small instances of Ledger for TLC.                                      *)
EXTENDS Ledger, TLC

\* Calls are interchangeable, and so are loads and keys.
Symmetry == Permutations(Calls) \cup Permutations(Loads) \cup Permutations(Keys)
=============================================================================
