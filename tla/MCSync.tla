------------------------------- MODULE MCSync -------------------------------
(***************************************************************************)
(* Finite instances of the synchronisation for TLC.                        *)
(***************************************************************************)
EXTENDS SyncProps

\* Every row has a home of its own.
HomesApart == [id \in Ids |-> (id - 1) % Capacity]
=============================================================================
