------------------------------ MODULE MCEngine ------------------------------
(***************************************************************************)
(* Finite instances of the engine for TLC.                                 *)
(***************************************************************************)
EXTENDS EngineProps

\* Every row has a home of its own, or all rows probe from slot 0.
HomesApart == [id \in Ids |-> (id - 1) % Capacity]
HomesClash == [id \in Ids |-> 0]
=============================================================================
