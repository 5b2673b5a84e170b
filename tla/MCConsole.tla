------------------------------ MODULE MCConsole -----------------------------
(***************************************************************************)
(* Finite instances of the console.                                        *)
(***************************************************************************)
EXTENDS ConsoleProps, TLC

CONSTANTS d1, d2

\* The databases are interchangeable when none exists at first.
Symmetry == Permutations(Dbs)
=============================================================================
