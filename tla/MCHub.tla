-------------------------------- MODULE MCHub -------------------------------
(***************************************************************************)
(* Finite instances of the sync hub.                                       *)
(***************************************************************************)
EXTENDS HubProps

CONSTANTS l1, l2

\* Two links between the same database and lakehouse: one notebook name.
SameEnds == [i \in Ids |-> "one"]
OtherEnds == [i \in Ids |-> IF i = l1 THEN "one" ELSE "two"]
=============================================================================
