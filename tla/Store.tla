------------------------------- MODULE Store --------------------------------
(***************************************************************************)
(* The open-addressing table of src/store.inc: the record array IS the     *)
(* index.  A row is found by probing linearly from the home slot of its id *)
(* until it is met, an EMPTY slot stops the search, or every slot has been *)
(* visited.  A record carries all its columns as one value; the bytes a    *)
(* dead slot keeps are never read again and are left out.                  *)
(***************************************************************************)
EXTENDS Integers, FiniteSets

CONSTANTS
  Ids,        \* row identifiers (non-zero: INSERT refuses id 0)
  Vals,       \* the possible contents of a row, all columns together
  Capacity,   \* g_capacity: the number of slots
  Home        \* store_hash: the slot where the probe for an id starts

Slots == 0 .. Capacity - 1

ASSUME CapacityAssumption == Capacity \in Nat \ {0}
ASSUME IdsAssumption == Ids \subseteq Nat \ {0}
ASSUME HomeAssumption == Home \in [Ids -> Slots]

Empty == [st |-> "EMPTY"]
Deleted == [st |-> "DELETED"]
Row(id, val) == [st |-> "OCCUPIED", id |-> id, val |-> val]

Rows == [st : {"OCCUPIED"}, id : Ids, val : Vals]
Record == Rows \cup {Empty, Deleted}
Tables == [Slots -> Record]

Live(rec) == rec.st = "OCCUPIED"
LiveSlots(t) == {s \in Slots : Live(t[s])}
Holds(rec, id) == Live(rec) /\ rec.id = id

\* The k-th slot of the probe sequence, and whether the probe ends there.
ProbeSlot(id, k) == (Home[id] + k) % Capacity
\* Mutant: a tombstone ends the probe.
ProbeEnds_Tombstone(t, id, k) == ~Live(t[ProbeSlot(id, k)]) \/ Holds(t[ProbeSlot(id, k)], id)
ProbeEnds(t, id, k) ==
  t[ProbeSlot(id, k)] = Empty \/ Holds(t[ProbeSlot(id, k)], id)

\* The probe steps store_locate takes: up to the first that ends the probe.
Visited(t, id) == {k \in Slots : \A j \in 0 .. k - 1 : ~ProbeEnds(t, id, j)}

\* rax: the slot holding id (a set of at most one slot).
Located(t, id) ==
  {ProbeSlot(id, k) : k \in {j \in Visited(t, id) : Holds(t[ProbeSlot(id, j)], id)}}

Found(t, id) == Located(t, id) # {}
SlotOf(t, id) == CHOOSE s \in Located(t, id) : TRUE

\* rdx: the first slot met on the way that holds no row; none when the table is full.
FreeSteps(t, id) == {k \in Visited(t, id) : ~Live(t[ProbeSlot(id, k)])}
HasRoom(t, id) == FreeSteps(t, id) # {}
InsertSlot(t, id) ==
  ProbeSlot(id, CHOOSE k \in FreeSteps(t, id) : \A j \in FreeSteps(t, id) : k <= j)

\* The rows of a table slot by slot: what is left when EMPTY and DELETED are
\* not told apart, and the table as a set of rows.
Content(t) == [s \in Slots |-> IF Live(t[s]) THEN t[s] ELSE Empty]
RowsOf(t) == {t[s] : s \in LiveSlots(t)}
LiveCount(t) == Cardinality(LiveSlots(t))

EmptyTable == [s \in Slots |-> Empty]
\* Mutant: the last slot is left as it is.
Cleared_Short(t) ==
  [s \in Slots |-> IF Live(t[s]) /\ s < Capacity - 1 THEN Deleted ELSE t[s]]
Cleared(t) == [s \in Slots |-> IF Live(t[s]) THEN Deleted ELSE t[s]]

(***************************************************************************)
(* What cmd_verify checks of a table (src/parse.inc): every live row is    *)
(* the one a lookup of its id finds, so no id is held twice and no row is  *)
(* out of reach.                                                           *)
(***************************************************************************)
AllReachable(t) == \A s \in LiveSlots(t) : Located(t, t[s].id) = {s}
=============================================================================
