-------------------------- MODULE EngineTableProofs --------------------------
(***************************************************************************)
(* The rows themselves: for every table and every sequence of commands,    *)
(* crashes and losses of power, memory and the file agree between          *)
(* commands, ROLLBACK brings back what there was, a committed frame holds  *)
(* what its transaction left, and the row count is the number of rows.     *)
(* Together they make every step one of ChangeStore.  At the end, what     *)
(* VERIFY checks, every row is where a lookup of its id finds it, and what *)
(* the change log promises: its frames, applied in order, are the table.   *)
(***************************************************************************)
EXTENDS EngineProofs

-----------------------------------------------------------------------------
(* What a slot holds, and how many rows there are *)

\* Two images of a slot that hold the same row, or no row.
Same(a, b) == ~SlotChanged(a, b)
SameTables(t, v) == \A s \in Slots : Same(t[s], v[s])

LEMMA SameIsEquality ==
  ASSUME NEW a, NEW b, NEW c
  PROVE  /\ Same(a, a)
         /\ Same(a, b) => Same(b, a) /\ (Live(a) <=> Live(b)) /\ (Live(a) => a = b)
         /\ Same(a, b) /\ Same(b, c) => Same(a, c)
         /\ ~Live(a) /\ ~Live(b) => Same(a, b)
BY DEF Same, SlotChanged

LEMMA NotLive == ~Live(Empty) /\ ~Live(Deleted)
BY DEF Live, Empty, Deleted

LEMMA RowLive ==
  ASSUME NEW id, NEW v
  PROVE  Live(Row(id, v))
BY DEF Live, Row

\* Tables with the same rows in the same slots have the same content and count.
LEMMA SameContent ==
  ASSUME NEW t, NEW v, SameTables(t, v)
  PROVE  /\ Content(t) = Content(v)
         /\ LiveSlots(t) = LiveSlots(v)
         /\ LiveCount(t) = LiveCount(v)
<1>1. \A s \in Slots : (Live(t[s]) <=> Live(v[s])) /\ (Live(t[s]) => t[s] = v[s])
  BY SameIsEquality DEF SameTables
<1>2. LiveSlots(t) = LiveSlots(v)
  BY <1>1 DEF LiveSlots
<1>3. Content(t) = Content(v)
  BY <1>1 DEF Content
<1>. QED
  BY <1>2, <1>3 DEF LiveCount

LEMMA SlotsFinite == IsFiniteSet(Slots) /\ Cardinality(Slots) = Capacity
<1>1. Capacity \in Nat \ {0}
  BY CapacityAssumption
<1>. QED
  BY <1>1, FS_Interval DEF Slots

LEMMA LiveSlotsFinite ==
  ASSUME NEW t
  PROVE  /\ IsFiniteSet(LiveSlots(t))
         /\ LiveCount(t) \in 0 .. Capacity
         /\ LiveCount(t) = 0 <=> LiveSlots(t) = {}
<1>1. LiveSlots(t) \in SUBSET Slots
  BY DEF LiveSlots
<1>2. IsFiniteSet(LiveSlots(t)) /\ Cardinality(LiveSlots(t)) <= Cardinality(Slots)
  BY <1>1, SlotsFinite, FS_Subset
<1>3. Cardinality(LiveSlots(t)) \in Nat
  BY <1>2, FS_CardinalityType
<1>4. Cardinality(LiveSlots(t)) = 0 <=> LiveSlots(t) = {}
  BY <1>2, FS_EmptySet
<1>. QED
  BY <1>2, <1>3, <1>4, SlotsFinite, CapacityAssumption DEF LiveCount

\* A table in which one slot is written has one row more, one less or as many.
LEMMA CountOne ==
  ASSUME NEW t \in Tables, NEW s \in Slots, NEW rec
  PROVE  LiveCount([t EXCEPT ![s] = rec]) =
           LiveCount(t) + (IF Live(rec) THEN 1 ELSE 0) - (IF Live(t[s]) THEN 1 ELSE 0)
<1>. DEFINE v == [t EXCEPT ![s] = rec]
            A == LiveSlots(t)
            B == LiveSlots(v)
<1>1. \A o \in Slots : v[o] = IF o = s THEN rec ELSE t[o]
  BY DEF Tables
<1>. HIDE DEF v
<1>2. B = IF Live(rec) THEN A \cup {s} ELSE A \ {s}
  BY <1>1 DEF LiveSlots
<1>3. s \in A <=> Live(t[s])
  BY DEF LiveSlots
<1>4. /\ IsFiniteSet(A) /\ Cardinality(A) \in Nat
  BY LiveSlotsFinite, FS_CardinalityType
<1>5. /\ Cardinality(A \cup {s}) = IF s \in A THEN Cardinality(A) ELSE Cardinality(A) + 1
      /\ Cardinality(A \ {s}) = IF s \in A THEN Cardinality(A) - 1 ELSE Cardinality(A)
  BY <1>4, FS_AddElement, FS_RemoveElement
<1>6. LiveCount(v) = Cardinality(B) /\ LiveCount(t) = Cardinality(A)
  BY DEF LiveCount
<1>. HIDE DEF A, B
<1>. QED
  BY <1>2, <1>3, <1>4, <1>5, <1>6 DEF v

\* No row is left in a cleared table.
LEMMA CountNone ==
  /\ \A t : LiveSlots(Cleared(t)) = {} /\ LiveCount(Cleared(t)) = 0
  /\ LiveSlots(EmptyTable) = {} /\ LiveCount(EmptyTable) = 0
<1>1. ASSUME NEW t PROVE LiveSlots(Cleared(t)) = {}
  BY NotLive DEF LiveSlots, Cleared
<1>2. LiveSlots(EmptyTable) = {}
  BY NotLive DEF LiveSlots, EmptyTable
<1>. QED
  BY <1>1, <1>2, LiveSlotsFinite

\* store_locate: an insert goes to a slot without a row, the others to the row's own.
LEMMA SlotsMeant ==
  ASSUME NEW t, NEW id \in Ids
  PROVE  /\ Found(t, id) => Live(t[SlotOf(t, id)])
         /\ HasRoom(t, id) => ~Live(t[InsertSlot(t, id)])
<1>1. ASSUME Found(t, id) PROVE Live(t[SlotOf(t, id)])
  <2>1. SlotOf(t, id) \in Located(t, id)
    BY <1>1 DEF Found, SlotOf
  <2>. QED
    BY <2>1 DEF Located, Holds
<1>2. ASSUME HasRoom(t, id) PROVE ~Live(t[InsertSlot(t, id)])
  BY <1>2, InsertSlotIsFirst DEF FreeSteps
<1>. QED
  BY <1>1, <1>2

-----------------------------------------------------------------------------
(* What the undo log says of a table: t is what the transaction has made of v *)

UndoExact(u, t, v) ==
  /\ \A i, j \in 1 .. Len(u) : u[i].slot = u[j].slot => i = j
  /\ \A i \in 1 .. Len(u) : Same(u[i].before, v[u[i].slot])
  /\ \A s \in Slots : Captured(u, s) \/ Same(v[s], t[s])

LEMMA NothingUndone ==
  ASSUME NEW t, NEW v
  PROVE  UndoExact(<<>>, t, v) <=> SameTables(v, t)
BY DEF UndoExact, SameTables, Captured

\* cmd_rollback: copying the images back gives the table of before.
LEMMA UndoneIsBefore ==
  ASSUME NEW u \in Seq(UndoEntries), NEW t, NEW v, UndoExact(u, t, v)
  PROVE  SameTables(v, Undone(t, u))
<1>. SUFFICES ASSUME NEW s \in Slots PROVE Same(v[s], Undone(t, u)[s])
  BY DEF SameTables
<1>1. CASE Captured(u, s)
  <2>. DEFINE i == CHOOSE i \in 1 .. Len(u) : u[i].slot = s
  <2>1. i \in 1 .. Len(u) /\ u[i].slot = s
    BY <1>1 DEF Captured
  <2>2. Undone(t, u)[s] = u[i].before
    BY <1>1 DEF Undone
  <2>. HIDE DEF i
  <2>3. Same(u[i].before, v[s])
    BY <2>1 DEF UndoExact
  <2>. QED
    BY <2>2, <2>3, SameIsEquality
<1>2. CASE ~Captured(u, s)
  BY <1>2 DEF Undone, UndoExact
<1>. QED
  BY <1>1, <1>2

\* txn_capture of a slot that is about to change.
LEMMA CaptureExact ==
  ASSUME NEW u \in Seq(UndoEntries), NEW t, NEW v, NEW s \in Slots, UndoExact(u, t, v)
  PROVE  UndoExact(Capture(u, t, s), t, v)
<1>1. CASE Captured(u, s)
  BY <1>1 DEF Capture
<1>2. CASE ~Captured(u, s)
  <2>. DEFINE e == [slot |-> s, before |-> t[s]]
              w == Append(u, e)
  <2>1. Capture(u, t, s) = w
    BY <1>2 DEF Capture
  <2>2. /\ Len(w) = Len(u) + 1 /\ Len(u) \in Nat /\ w[Len(u) + 1] = e
        /\ \A i \in 1 .. Len(u) : w[i] = u[i]
    OBVIOUS
  <2>3. \A i \in 1 .. Len(u) : u[i].slot # s
    BY <1>2 DEF Captured
  <2>4. Same(e.before, v[s]) /\ e.slot = s
    BY <1>2, SameIsEquality DEF UndoExact
  <2>. HIDE DEF e, w
  <2>5. \A i, j \in 1 .. Len(w) : w[i].slot = w[j].slot => i = j
    <3>. SUFFICES ASSUME NEW i \in 1 .. Len(w), NEW j \in 1 .. Len(w), w[i].slot = w[j].slot
                  PROVE i = j
      OBVIOUS
    <3>1. /\ i \in 1 .. Len(u) \/ i = Len(u) + 1
          /\ j \in 1 .. Len(u) \/ j = Len(u) + 1
      BY <2>2
    <3>. QED
      BY <2>2, <2>3, <2>4, <3>1 DEF UndoExact
  <2>6. \A i \in 1 .. Len(w) : Same(w[i].before, v[w[i].slot])
    <3>. SUFFICES ASSUME NEW i \in 1 .. Len(w) PROVE Same(w[i].before, v[w[i].slot])
      OBVIOUS
    <3>1. i \in 1 .. Len(u) \/ i = Len(u) + 1
      BY <2>2
    <3>. QED
      BY <2>2, <2>4, <3>1 DEF UndoExact
  <2>7. \A o \in Slots : Captured(w, o) \/ Same(v[o], t[o])
    BY <2>1, CapturedStays DEF UndoExact
  <2>. QED
    BY <2>1, <2>5, <2>6, <2>7 DEF UndoExact
<1>. QED
  BY <1>1, <1>2

\* A captured slot may be given any content, and so may every captured slot.
LEMMA WriteExact ==
  ASSUME NEW u, NEW t, NEW v, NEW w, UndoExact(u, t, v),
         \A s \in Slots : Captured(u, s) \/ Same(t[s], w[s])
  PROVE  UndoExact(u, w, v)
BY SameIsEquality DEF UndoExact

-----------------------------------------------------------------------------
(* What a frame says of a table: carried out on v it leaves t *)

EntrySlots(f) == {f.entries[i].slot : i \in 1 .. Len(f.entries)}
OneEach(f) ==
  \A i, j \in 1 .. Len(f.entries) : f.entries[i].slot = f.entries[j].slot => i = j

FrameLeads(f, t, v) ==
  /\ \A i \in 1 .. Len(f.entries) : f.entries[i].image = t[f.entries[i].slot]
  /\ \A s \in Slots : s \in EntrySlots(f) \/ Same(v[s], t[s])

\* txn_flush .stage, once the first d images of u have been looked at.
Staged(f, u, d, t) ==
  /\ d <= Len(u)
  /\ OneEach(f)
  /\ \A i \in 1 .. Len(f.entries) : \E k \in 1 .. d :
       f.entries[i].slot = u[k].slot /\ f.entries[i].image = t[u[k].slot]
  /\ \A k \in 1 .. d : Same(u[k].before, t[u[k].slot]) \/ u[k].slot \in EntrySlots(f)

LEMMA StagedNothing ==
  ASSUME NEW u \in Seq(UndoEntries), NEW t
  PROVE  Staged(NoFrame, u, 0, t)
BY NothingYet DEF Staged, OneEach

\* Every image looked at, the frame leads from the table of before to that of now.
LEMMA StagedAll ==
  ASSUME NEW f, NEW u \in Seq(UndoEntries), NEW t, NEW v,
         UndoExact(u, t, v), Staged(f, u, Len(u), t)
  PROVE  FrameLeads(f, t, v) /\ OneEach(f)
<1>1. \A i \in 1 .. Len(f.entries) : f.entries[i].image = t[f.entries[i].slot]
  BY DEF Staged
<1>2. ASSUME NEW s \in Slots, s \notin EntrySlots(f) PROVE Same(v[s], t[s])
  <2>1. CASE ~Captured(u, s)
    BY <2>1 DEF UndoExact
  <2>2. CASE Captured(u, s)
    <3>1. PICK k \in 1 .. Len(u) : u[k].slot = s
      BY <2>2 DEF Captured
    <3>2. Same(u[k].before, t[s])
      BY <1>2, <3>1 DEF Staged
    <3>3. Same(u[k].before, v[s])
      BY <3>1 DEF UndoExact
    <3>. QED
      BY <3>2, <3>3, SameIsEquality
  <2>. QED
    BY <2>1, <2>2
<1>. QED
  BY <1>1, <1>2 DEF FrameLeads, Staged

\* One more image: its slot joins the frame if the row it holds has changed.
LEMMA StagedOne ==
  ASSUME NEW f, NEW g, NEW u \in Seq(UndoEntries), NEW t, NEW v, NEW d \in Nat,
         f.entries \in Seq(WalEntries), d < Len(u),
         UndoExact(u, t, v), Staged(f, u, d, t), u[d + 1] \in UndoEntries, t \in Tables,
         IF SlotChanged(u[d + 1].before, t[u[d + 1].slot])
           THEN g.entries = Append(f.entries, Entry(u[d + 1], t)) ELSE g = f
  PROVE  Staged(g, u, d + 1, t)
<1>. DEFINE e == Entry(u[d + 1], t)
<1>1. CASE Same(u[d + 1].before, t[u[d + 1].slot])
  <2>1. g = f
    BY <1>1 DEF Same
  <2>2. \A k \in 1 .. d + 1 : k \in 1 .. d \/ k = d + 1
    OBVIOUS
  <2>3. \A k \in 1 .. d : k \in 1 .. d + 1
    OBVIOUS
  <2>. QED
    BY <1>1, <2>1, <2>2, <2>3 DEF Staged
<1>2. CASE ~Same(u[d + 1].before, t[u[d + 1].slot])
  <2>1. g.entries = Append(f.entries, e) /\ e \in WalEntries
    BY <1>2, EntryType DEF Same
  <2>2. e.slot = u[d + 1].slot /\ e.image = t[u[d + 1].slot]
    BY DEF Entry
  <2>3. /\ Len(g.entries) = Len(f.entries) + 1 /\ Len(f.entries) \in Nat
        /\ g.entries[Len(f.entries) + 1] = e
        /\ \A i \in 1 .. Len(f.entries) : g.entries[i] = f.entries[i]
    BY <2>1
  <2>. HIDE DEF e
  <2>4. \A i \in 1 .. Len(f.entries) : f.entries[i].slot # e.slot
    <3>. SUFFICES ASSUME NEW i \in 1 .. Len(f.entries) PROVE f.entries[i].slot # e.slot
      OBVIOUS
    <3>1. PICK k \in 1 .. d : f.entries[i].slot = u[k].slot
      BY DEF Staged
    <3>2. k \in 1 .. Len(u) /\ d + 1 \in 1 .. Len(u) /\ k # d + 1
      OBVIOUS
    <3>. QED
      BY <2>2, <3>1, <3>2 DEF UndoExact
  <2>5. \A i \in 1 .. Len(g.entries) : i \in 1 .. Len(f.entries) \/ i = Len(f.entries) + 1
    BY <2>3
  <2>6. OneEach(g)
    BY <2>3, <2>4, <2>5 DEF OneEach, Staged
  <2>7. \A i \in 1 .. Len(g.entries) : \E k \in 1 .. d + 1 :
          g.entries[i].slot = u[k].slot /\ g.entries[i].image = t[u[k].slot]
    <3>. SUFFICES ASSUME NEW i \in 1 .. Len(g.entries)
                  PROVE \E k \in 1 .. d + 1 :
                          g.entries[i].slot = u[k].slot /\ g.entries[i].image = t[u[k].slot]
      OBVIOUS
    <3>1. CASE i \in 1 .. Len(f.entries)
      <4>1. PICK k \in 1 .. d :
              f.entries[i].slot = u[k].slot /\ f.entries[i].image = t[u[k].slot]
        BY <3>1 DEF Staged
      <4>2. k \in 1 .. d + 1
        OBVIOUS
      <4>. QED
        BY <2>3, <3>1, <4>1, <4>2
    <3>2. CASE i = Len(f.entries) + 1
      <4>1. d + 1 \in 1 .. d + 1
        OBVIOUS
      <4>. QED
        BY <2>2, <2>3, <3>2, <4>1
    <3>. QED
      BY <2>5, <3>1, <3>2
  <2>8. EntrySlots(f) \subseteq EntrySlots(g) /\ e.slot \in EntrySlots(g)
    <3>1. Len(f.entries) + 1 \in 1 .. Len(g.entries)
      BY <2>3
    <3>2. \A i \in 1 .. Len(f.entries) : i \in 1 .. Len(g.entries)
      BY <2>3
    <3>. QED
      BY <2>3, <3>1, <3>2 DEF EntrySlots
  <2>9. \A k \in 1 .. d + 1 : Same(u[k].before, t[u[k].slot]) \/ u[k].slot \in EntrySlots(g)
    <3>1. \A k \in 1 .. d + 1 : k \in 1 .. d \/ k = d + 1
      OBVIOUS
    <3>. QED
      BY <2>2, <2>8, <3>1 DEF Staged
  <2>10. d + 1 <= Len(u)
    OBVIOUS
  <2>. QED
    BY <2>6, <2>7, <2>9, <2>10 DEF Staged
<1>. QED
  BY <1>1, <1>2

\* wal_recover: carrying a frame out gives its images in its slots, in the others
\* what was there.
LEMMA ReplayAt ==
  ASSUME NEW w, NEW t, OneEach(w.frame)
  PROVE  /\ ~w.marked => \A s \in Slots : Replay(w, t)[s] = t[s]
         /\ \A s \in Slots : s \notin EntrySlots(w.frame) => Replay(w, t)[s] = t[s]
         /\ w.marked => \A i \in 1 .. Len(w.frame.entries) : w.frame.entries[i].slot \in Slots =>
              Replay(w, t)[w.frame.entries[i].slot] = w.frame.entries[i].image
<1>. DEFINE f == w.frame
            own(s) == {i \in 1 .. Len(f.entries) : f.entries[i].slot = s}
<1>1. \A s \in Slots : Replay(w, t)[s] =
        IF w.marked /\ own(s) # {} THEN f.entries[CHOOSE i \in own(s) : TRUE].image ELSE t[s]
  BY DEF Replay
<1>2. \A s \in Slots : s \notin EntrySlots(f) => own(s) = {}
  BY DEF EntrySlots
<1>3. ASSUME NEW i \in 1 .. Len(f.entries), f.entries[i].slot \in Slots, w.marked
      PROVE  Replay(w, t)[f.entries[i].slot] = f.entries[i].image
  <2>1. own(f.entries[i].slot) = {i}
    BY <1>3 DEF OneEach
  <2>. QED
    BY <1>1, <1>3, <2>1
<1>. HIDE DEF own
<1>. QED
  BY <1>1, <1>2, <1>3

\* A frame that leads to t does so when it is recovered, ...
LEMMA ReplayLeads ==
  ASSUME NEW w \in Wals, NEW t, NEW v, w.marked, OneEach(w.frame), FrameLeads(w.frame, t, v)
  PROVE  SameTables(Replay(w, v), t)
<1>. SUFFICES ASSUME NEW s \in Slots PROVE Same(Replay(w, v)[s], t[s])
  BY DEF SameTables
<1>1. CASE s \in EntrySlots(w.frame)
  <2>1. PICK i \in 1 .. Len(w.frame.entries) : w.frame.entries[i].slot = s
    BY <1>1 DEF EntrySlots
  <2>2. Replay(w, v)[s] = t[s]
    BY <2>1, ReplayAt DEF FrameLeads
  <2>. QED
    BY <2>2, SameIsEquality
<1>2. CASE s \notin EntrySlots(w.frame)
  <2>1. Replay(w, v)[s] = v[s]
    BY <1>2, ReplayAt
  <2>. QED
    BY <1>2, <2>1 DEF FrameLeads
<1>. QED
  BY <1>1, <1>2

\* ... and when its images have been written.
ImagesIn(f, v) ==
  \A i \in 1 .. Len(f.entries) : v[f.entries[i].slot] = f.entries[i].image

LEMMA WrittenLeads ==
  ASSUME NEW f, NEW t, NEW v, FrameLeads(f, t, v), ImagesIn(f, v)
  PROVE  SameTables(v, t)
<1>. SUFFICES ASSUME NEW s \in Slots PROVE Same(v[s], t[s])
  BY DEF SameTables
<1>1. CASE s \in EntrySlots(f)
  <2>1. PICK i \in 1 .. Len(f.entries) : f.entries[i].slot = s
    BY <1>1 DEF EntrySlots
  <2>. QED
    BY <2>1, SameIsEquality DEF FrameLeads, ImagesIn
<1>2. CASE s \notin EntrySlots(f)
  BY <1>2 DEF FrameLeads
<1>. QED
  BY <1>1, <1>2

LEMMA ReplayWritten ==
  ASSUME NEW w \in Wals, NEW v \in Tables, OneEach(w.frame), ImagesIn(w.frame, v)
  PROVE  Replay(w, v) = v
<1>1. \A s \in Slots : Replay(w, v)[s] = v[s]
  <2>. SUFFICES ASSUME NEW s \in Slots PROVE Replay(w, v)[s] = v[s]
    OBVIOUS
  <2>1. CASE s \in EntrySlots(w.frame) /\ w.marked
    <3>1. PICK i \in 1 .. Len(w.frame.entries) : w.frame.entries[i].slot = s
      BY <2>1 DEF EntrySlots
    <3>. QED
      BY <2>1, <3>1, ReplayAt DEF ImagesIn
  <2>2. CASE ~(s \in EntrySlots(w.frame) /\ w.marked)
    BY <2>2, ReplayAt
  <2>. QED
    BY <2>1, <2>2
<1>2. Replay(w, v) = [s \in Slots |-> Replay(w, v)[s]] /\ v = [s \in Slots |-> v[s]]
  BY DEF Replay, Tables
<1>. QED
  BY <1>1, <1>2

\* Until then it does not matter which of them have been.
LEMMA ReplayAgain ==
  ASSUME NEW w \in Wals, w.marked, OneEach(w.frame), NEW t, NEW v,
         \A s \in Slots : t[s] = v[s] \/ s \in EntrySlots(w.frame)
  PROVE  Replay(w, t) = Replay(w, v)
<1>1. \A s \in Slots : Replay(w, t)[s] = Replay(w, v)[s]
  <2>. SUFFICES ASSUME NEW s \in Slots PROVE Replay(w, t)[s] = Replay(w, v)[s]
    OBVIOUS
  <2>1. CASE s \in EntrySlots(w.frame)
    <3>1. PICK i \in 1 .. Len(w.frame.entries) : w.frame.entries[i].slot = s
      BY <2>1 DEF EntrySlots
    <3>. QED
      BY <3>1, ReplayAt
  <2>2. CASE s \notin EntrySlots(w.frame)
    BY <2>2, ReplayAt
  <2>. QED
    BY <2>1, <2>2
<1>2. /\ Replay(w, t) = [s \in Slots |-> Replay(w, t)[s]]
      /\ Replay(w, v) = [s \in Slots |-> Replay(w, v)[s]]
  BY DEF Replay
<1>. QED
  BY <1>1, <1>2

-----------------------------------------------------------------------------
(* The inductive invariant of the rows: at each point of a command, of a commit *)
(* and of an open, what memory, the undo log, the frame and the file say of each *)
(* other                                                                        *)

TxnPcs == {"ready", "capture", "stage", "mark"}
ReplayPcs == {"publish", "apply", "sync", "wal_clear"}

\* Only these points have writes to the .dat that are not yet flushed.
Writing == {"apply", "sync", "truncate", "bulk_sync", "bulk_close", "bulk_closed"}
Flushed == pc \notin Writing => slots = slots_safe /\ hdr = hdr_safe

\* The WAL holds the frame that is being carried out, one image for each slot.
WalPhases ==
  /\ pc \in ReplayPcs => wal.marked
  /\ pc \in ReplayPcs \cup {"mark"} => wal.frame = frame
  /\ wal.marked => pc \in ReplayPcs \cup {"wal_recover", "down", "refused"}
  /\ OneEach(wal.frame)

\* Where a commit has got to in the .dat.
Written ==
  /\ pc = "apply" =>
       /\ done <= Len(frame.entries)
       /\ \A i \in 1 .. done : slots[frame.entries[i].slot] = frame.entries[i].image
  /\ pc \in {"sync", "wal_clear"} => ImagesIn(frame, slots)
  /\ pc \in {"apply", "sync"} =>
       \A s \in Slots : slots[s] = slots_safe[s] \/ s \in EntrySlots(frame)

\* When a transaction and an open may be under way.
TxnPhases ==
  /\ in_txn \/ undo = <<>>
  /\ in_txn => ~opening /\ pc \in TxnPcs \cup ReplayPcs \cup {"refused"}
  /\ pc \in {"capture", "stage", "mark"} => in_txn
  /\ pc \in TxnPcs \cup {"trim", "truncate", "bench"} => ~opening
  /\ pc \in {"wal_recover", "recover_reset", "check", "bulk_clear"} => opening

\* Where the table in memory is the one on disk but for what the undo log says.
Loaded ==
  \/ pc \in {"ready", "capture", "stage", "trim", "truncate", "restore", "bulk_sync",
             "bulk_close", "bulk_closed", "bulk_clear"}
  \/ pc \in {"emit_reset", "clear_reset"} /\ ~opening
UndoHeld ==
  /\ Loaded => UndoExact(undo, table, slots)
  /\ pc = "capture" => \A s \in Slots : s < done /\ Live(table[s]) => Captured(undo, s)

\* What a commit writes is what its transaction left.
FrameHeld ==
  /\ pc = "stage" => Staged(frame, undo, done, table)
  /\ pc \in ReplayPcs \cup {"mark"} /\ ~opening => FrameLeads(frame, table, slots)

\* The globals and the header say the same.
Counted ==
  \/ pc \in {"wal_recover", "recover_reset", "check", "restore", "bench", "bulk_clear",
             "bulk_sync", "bulk_closed", "emit_reset", "clear_reset", "trim", "sync",
             "wal_clear", "truncate"}
  \/ Idle
HeaderMirrors ==
  /\ Running => /\ hdr.seq = seq /\ hdr.bulk = bulk_kind
                /\ hdr.pend = reset_pend /\ hdr.rseq = reset_seq
  /\ Counted => hdr.count = count
  /\ pc \in {"ready", "capture"} /\ in_txn => count_snap = hdr.count
  /\ pc \in {"sync", "wal_clear"} => hdr.count = frame.count

\* A statement changes the count as it changes the rows.
CountMirrors ==
  pc \in {"ready", "capture", "stage"} =>
    count - LiveCount(table) = hdr.count - LiveCount(slots)

TableInv ==
  /\ Flushed
  /\ WalPhases
  /\ Written
  /\ TxnPhases
  /\ UndoHeld
  /\ FrameHeld
  /\ HeaderMirrors
  /\ CountMirrors

LEMMA TableInit == Init => TableInv
<1>. SUFFICES ASSUME Init PROVE TableInv
  OBVIOUS
<1>1. OneEach(wal.frame)
  BY NothingYet DEF Init, OneEach
<1>. QED
  BY <1>1
  DEF Init, TableInv, Flushed, WalPhases, Written, TxnPhases, Loaded, UndoHeld, FrameHeld,
      Counted, HeaderMirrors, CountMirrors, Idle, Ready, Running, Writing, TxnPcs, ReplayPcs,
      NoWal

LEMMA FlushedStep ==
  ASSUME Flushed, Next
  PROVE  Flushed'
<1>. USE DEF Flushed, Writing, Synced, Ready, Idle, txnVars, bulkVars, memVars, logVars, datVars
<1>1. ASSUME NEW id \in Ids, NEW v \in Vals, Insert(id, v) \/ Update(id, v) PROVE Flushed'
  BY <1>1 DEF Insert, Update, Mutate, StartFlush
<1>2. ASSUME NEW id \in Ids, Delete(id) PROVE Flushed'
  BY <1>2 DEF Delete, Mutate, StartFlush
<1>3. CASE Begin \/ Commit \/ Rollback \/ TruncateInTxn \/ CaptureSlot \/ ClearInTxn
  BY <1>3 DEF Begin, Commit, StartFlush, Rollback, TruncateInTxn, CaptureSlot, ClearInTxn
<1>4. CASE TxnStage \/ TxnWrite \/ WalCommit \/ CdcPublish \/ ApplySlot \/ PublishHeader
  BY <1>4 DEF TxnStage, TxnWrite, TxnOver, WalCommit, CdcPublish, ApplySlot, PublishHeader
<1>5. CASE CheckpointSync \/ WalClear \/ Truncate \/ Restore \/ Bench \/ Backup
  BY <1>5 DEF CheckpointSync, WalClear, TxnOver, Truncate, Restore, Bench, BulkBegin, Backup
<1>6. CASE \/ \E s \in 0 .. MaxSeq : TrimBuild(s)
           \/ TruncateSlot \/ TruncateEnd \/ RestoreApply \/ RestoreLost
  BY <1>6 DEF TrimBuild, TruncateSlot, TruncateEnd, RestoreApply, RestoreLost, ReplaceTable
<1>7. CASE (\E v \in Vals : BenchRow(v)) \/ BenchApply \/ BulkSync \/ BulkClose
  BY <1>7 DEF BenchRow, BenchApply, ReplaceTable, BulkSync, BulkClose
<1>8. CASE BulkCloseSync \/ EmitReset \/ ClearReset \/ TrimSwap \/ RecoverReset
  BY <1>8 DEF BulkCloseSync, EmitReset, ClearReset, TrimSwap, RecoverReset
<1>9. CASE CheckAligned \/ BulkClear \/ Open \/ WalRecover
  BY <1>9 DEF CheckAligned, BulkClear, ReplaceTable, Open, WalRecover
<1>10. CASE Close \/ ProcessEnds \/ PowerLoss \/ LoseBackup \/ LoseLog
  BY <1>10 DEF Close, ProcessEnds, PowerLoss, LoseBackup, LoseLog
<1>. QED
  BY <1>1, <1>2, <1>3, <1>4, <1>5, <1>6, <1>7, <1>8, <1>9, <1>10
  DEF Next, Command, Step, Environment

LEMMA TxnPhasesStep ==
  ASSUME TypeOK, TxnPhases, WalPhases, Next
  PROVE  TxnPhases'
<1>. USE DEF TxnPhases, WalPhases, TxnPcs, ReplayPcs, Ready, Idle, txnVars, bulkVars, memVars,
             logVars, datVars
<1>1. ASSUME NEW id \in Ids, NEW v \in Vals, Insert(id, v) \/ Update(id, v) PROVE TxnPhases'
  BY <1>1 DEF Insert, Update, Mutate, StartFlush
<1>2. ASSUME NEW id \in Ids, Delete(id) PROVE TxnPhases'
  BY <1>2 DEF Delete, Mutate, StartFlush
<1>3. CASE Begin \/ Commit \/ Rollback \/ TruncateInTxn \/ CaptureSlot \/ ClearInTxn
  <2>1. CASE Begin
    BY <2>1 DEF Begin, Commit, StartFlush, Rollback, TruncateInTxn, CaptureSlot, ClearInTxn
  <2>2. CASE Commit
    BY <2>2 DEF Begin, Commit, StartFlush, Rollback, TruncateInTxn, CaptureSlot, ClearInTxn
  <2>3. CASE Rollback
    BY <2>3 DEF Begin, Commit, StartFlush, Rollback, TruncateInTxn, CaptureSlot, ClearInTxn
  <2>4. CASE TruncateInTxn
    BY <2>4 DEF Begin, Commit, StartFlush, Rollback, TruncateInTxn, CaptureSlot, ClearInTxn
  <2>5. CASE CaptureSlot
    BY <2>5 DEF Begin, Commit, StartFlush, Rollback, TruncateInTxn, CaptureSlot, ClearInTxn
  <2>6. CASE ClearInTxn
    BY <2>6 DEF Begin, Commit, StartFlush, Rollback, TruncateInTxn, CaptureSlot, ClearInTxn
  <2>. QED
    BY <1>3, <2>1, <2>2, <2>3, <2>4, <2>5, <2>6
<1>4. CASE TxnStage \/ WalCommit \/ CdcPublish \/ ApplySlot \/ PublishHeader
  <2>1. CASE TxnStage
    BY <2>1 DEF TxnStage, WalCommit, CdcPublish, ApplySlot, PublishHeader
  <2>2. CASE WalCommit
    BY <2>2 DEF TxnStage, WalCommit, CdcPublish, ApplySlot, PublishHeader
  <2>3. CASE CdcPublish
    BY <2>3 DEF TxnStage, WalCommit, CdcPublish, ApplySlot, PublishHeader
  <2>4. CASE ApplySlot
    BY <2>4 DEF TxnStage, WalCommit, CdcPublish, ApplySlot, PublishHeader
  <2>5. CASE PublishHeader
    BY <2>5 DEF TxnStage, WalCommit, CdcPublish, ApplySlot, PublishHeader
  <2>. QED
    BY <1>4, <2>1, <2>2, <2>3, <2>4, <2>5
<1>5. CASE CheckpointSync \/ WalClear \/ Truncate \/ Restore \/ Bench \/ Backup
  BY <1>5 DEF CheckpointSync, WalClear, TxnOver, Truncate, Restore, Bench, BulkBegin, Backup
<1>6. CASE \/ \E s \in 0 .. MaxSeq : TrimBuild(s)
           \/ TruncateSlot \/ TruncateEnd \/ RestoreApply \/ RestoreLost
  BY <1>6 DEF TrimBuild, TruncateSlot, TruncateEnd, RestoreApply, RestoreLost, ReplaceTable
<1>7. CASE (\E v \in Vals : BenchRow(v)) \/ BenchApply \/ BulkSync \/ BulkClose
  BY <1>7 DEF BenchRow, BenchApply, ReplaceTable, BulkSync, BulkClose
<1>8. CASE BulkCloseSync \/ EmitReset \/ ClearReset \/ TrimSwap \/ RecoverReset
  BY <1>8 DEF BulkCloseSync, EmitReset, ClearReset, TrimSwap, RecoverReset
<1>9. CASE CheckAligned \/ BulkClear \/ Open \/ WalRecover
  <2>1. CASE CheckAligned
    BY <2>1 DEF CheckAligned, BulkClear, ReplaceTable, Open, WalRecover
  <2>2. CASE BulkClear
    BY <2>2 DEF CheckAligned, BulkClear, ReplaceTable, Open, WalRecover
  <2>3. CASE Open
    BY <2>3 DEF CheckAligned, BulkClear, ReplaceTable, Open, WalRecover
  <2>4. CASE WalRecover
    BY <2>4 DEF CheckAligned, BulkClear, ReplaceTable, Open, WalRecover
  <2>. QED
    BY <1>9, <2>1, <2>2, <2>3, <2>4
<1>10. CASE Close \/ ProcessEnds \/ PowerLoss \/ LoseBackup \/ LoseLog
  BY <1>10 DEF Close, ProcessEnds, PowerLoss, Forget, LoseBackup, LoseLog
<1>11. CASE TxnWrite
  BY <1>11 DEF TxnWrite, TxnOver
<1>. QED
  BY <1>1, <1>2, <1>3, <1>4, <1>5, <1>6, <1>7, <1>8, <1>9, <1>10, <1>11
  DEF Next, Command, Step, Environment

LEMMA HeaderMirrorsStep ==
  ASSUME TypeOK, HeaderMirrors, TxnPhases, WalPhases, UndoHeld, FrameHeld, CountMirrors, Next
  PROVE  HeaderMirrors'
<1>. USE DEF HeaderMirrors, TxnPhases, TxnPcs, ReplayPcs, Counted, Running, Header, Ready,
             Idle, txnVars, bulkVars, memVars, logVars, datVars
<1>1. ASSUME NEW id \in Ids, NEW v \in Vals, Insert(id, v) \/ Update(id, v) PROVE HeaderMirrors'
  BY <1>1 DEF Insert, Update, Mutate, StartFlush
<1>2. ASSUME NEW id \in Ids, Delete(id) PROVE HeaderMirrors'
  BY <1>2 DEF Delete, Mutate, StartFlush
<1>3. CASE Begin \/ Commit \/ Rollback \/ TruncateInTxn \/ CaptureSlot \/ ClearInTxn
  BY <1>3 DEF Begin, Commit, StartFlush, Rollback, TruncateInTxn, CaptureSlot, ClearInTxn
<1>4. CASE TxnStage \/ WalCommit \/ CdcPublish \/ ApplySlot \/ PublishHeader
  <2>1. CASE TxnStage
    BY <2>1 DEF TxnStage, WalCommit, CdcPublish, ApplySlot, PublishHeader
  <2>2. CASE WalCommit
    BY <2>2 DEF TxnStage, WalCommit, CdcPublish, ApplySlot, PublishHeader
  <2>3. CASE CdcPublish
    BY <2>3 DEF TxnStage, WalCommit, CdcPublish, ApplySlot, PublishHeader
  <2>4. CASE ApplySlot
    BY <2>4 DEF TxnStage, WalCommit, CdcPublish, ApplySlot, PublishHeader
  <2>5. CASE PublishHeader
    BY <2>5 DEF TxnStage, WalCommit, CdcPublish, ApplySlot, PublishHeader
  <2>. QED
    BY <1>4, <2>1, <2>2, <2>3, <2>4, <2>5
<1>5. CASE CheckpointSync \/ WalClear \/ Truncate \/ Restore \/ Bench \/ Backup
  BY <1>5 DEF CheckpointSync, WalClear, TxnOver, Truncate, Restore, Bench, BulkBegin, Backup
<1>6. CASE \/ \E s \in 0 .. MaxSeq : TrimBuild(s)
           \/ TruncateSlot \/ TruncateEnd \/ RestoreApply \/ RestoreLost
  BY <1>6 DEF TrimBuild, TruncateSlot, TruncateEnd, RestoreApply, RestoreLost, ReplaceTable
<1>7. CASE (\E v \in Vals : BenchRow(v)) \/ BenchApply \/ BulkSync \/ BulkClose
  BY <1>7 DEF BenchRow, BenchApply, ReplaceTable, BulkSync, BulkClose
<1>8. CASE BulkCloseSync \/ EmitReset \/ ClearReset \/ TrimSwap \/ RecoverReset
  BY <1>8 DEF BulkCloseSync, EmitReset, ClearReset, TrimSwap, RecoverReset
<1>9. CASE CheckAligned \/ BulkClear \/ Open \/ WalRecover
  BY <1>9 DEF CheckAligned, BulkClear, ReplaceTable, Open, WalRecover
<1>10. CASE Close \/ ProcessEnds \/ PowerLoss \/ LoseBackup \/ LoseLog
  BY <1>10 DEF Close, ProcessEnds, PowerLoss, Forget, LoseBackup, LoseLog
<1>11. CASE TxnWrite
  <2>1. CASE frame.entries = <<>> /\ ~txn_reset
    <3>1. undo \in Seq(UndoEntries) /\ hdr.count \in Int /\ count \in Int
      BY DEF TypeOK, TxnTypes, DatTypes, Headers, MemoryTypes
    <3>2. pc = "stage" /\ Staged(frame, undo, Len(undo), table) /\ UndoExact(undo, table, slots)
      BY <1>11 DEF TxnWrite, FrameHeld, UndoHeld, Loaded
    <3>3. FrameLeads(frame, table, slots)
      BY <3>1, <3>2, StagedAll
    <3>4. EntrySlots(frame) = {}
      BY <2>1 DEF EntrySlots
    <3>5. SameTables(slots, table)
      BY <3>3, <3>4 DEF FrameLeads, SameTables
    <3>6. LiveCount(slots) = LiveCount(table) /\ LiveCount(table) \in Nat
      BY <3>5, SameContent, LiveCountType
    <3>7. count = hdr.count
      BY <3>1, <3>2, <3>6 DEF CountMirrors
    <3>. QED
      BY <1>11, <2>1, <3>2, <3>7 DEF TxnWrite, TxnOver
  <2>2. CASE ~(frame.entries = <<>> /\ ~txn_reset)
    BY <1>11, <2>2 DEF TxnWrite
  <2>. QED
    BY <2>1, <2>2
<1>. QED
  BY <1>1, <1>2, <1>3, <1>4, <1>5, <1>6, <1>7, <1>8, <1>9, <1>10, <1>11
  DEF Next, Command, Step, Environment

LEMMA WalPhasesStep ==
  ASSUME TypeOK, WalPhases, TxnPhases, UndoHeld, FrameHeld, Next
  PROVE  WalPhases'
<1>. USE DEF WalPhases, ReplayPcs, Ready, Idle, txnVars, bulkVars, memVars, logVars, datVars
<1>. OneEach(NoWal.frame) /\ ~NoWal.marked
  BY NothingYet DEF OneEach, NoWal
<1>1. ASSUME NEW id \in Ids, NEW v \in Vals, Insert(id, v) \/ Update(id, v) PROVE WalPhases'
  BY <1>1 DEF Insert, Update, Mutate, StartFlush
<1>2. ASSUME NEW id \in Ids, Delete(id) PROVE WalPhases'
  BY <1>2 DEF Delete, Mutate, StartFlush
<1>3. CASE Begin \/ Commit \/ Rollback \/ TruncateInTxn \/ CaptureSlot \/ ClearInTxn
  BY <1>3 DEF Begin, Commit, StartFlush, Rollback, TruncateInTxn, CaptureSlot, ClearInTxn
<1>4. CASE TxnStage \/ WalCommit \/ CdcPublish \/ ApplySlot \/ PublishHeader
  <2>1. CASE TxnStage
    BY <2>1 DEF TxnStage, WalCommit, CdcPublish, ApplySlot, PublishHeader
  <2>2. CASE WalCommit
    BY <2>2 DEF TxnStage, WalCommit, CdcPublish, ApplySlot, PublishHeader
  <2>3. CASE CdcPublish
    BY <2>3 DEF TxnStage, WalCommit, CdcPublish, ApplySlot, PublishHeader
  <2>4. CASE ApplySlot
    BY <2>4 DEF TxnStage, WalCommit, CdcPublish, ApplySlot, PublishHeader
  <2>5. CASE PublishHeader
    BY <2>5 DEF TxnStage, WalCommit, CdcPublish, ApplySlot, PublishHeader
  <2>. QED
    BY <1>4, <2>1, <2>2, <2>3, <2>4, <2>5
<1>5. CASE CheckpointSync \/ WalClear \/ Truncate \/ Restore \/ Bench \/ Backup
  BY <1>5 DEF CheckpointSync, WalClear, TxnOver, Truncate, Restore, Bench, BulkBegin, Backup
<1>6. CASE \/ \E s \in 0 .. MaxSeq : TrimBuild(s)
           \/ TruncateSlot \/ TruncateEnd \/ RestoreApply \/ RestoreLost
  BY <1>6 DEF TrimBuild, TruncateSlot, TruncateEnd, RestoreApply, RestoreLost, ReplaceTable
<1>7. CASE (\E v \in Vals : BenchRow(v)) \/ BenchApply \/ BulkSync \/ BulkClose
  BY <1>7 DEF BenchRow, BenchApply, ReplaceTable, BulkSync, BulkClose
<1>8. CASE BulkCloseSync \/ EmitReset \/ ClearReset \/ TrimSwap \/ RecoverReset
  BY <1>8 DEF BulkCloseSync, EmitReset, ClearReset, TrimSwap, RecoverReset
<1>9. CASE CheckAligned \/ BulkClear \/ Open \/ WalRecover
  BY <1>9 DEF CheckAligned, BulkClear, ReplaceTable, Open, WalRecover
<1>10. CASE Close \/ ProcessEnds \/ PowerLoss \/ LoseBackup \/ LoseLog
  BY <1>10 DEF Close, ProcessEnds, PowerLoss, Forget, LoseBackup, LoseLog
<1>11. CASE TxnWrite
  <2>1. OneEach(frame)
    <3>1. undo \in Seq(UndoEntries)
      BY DEF TypeOK, TxnTypes
    <3>2. Staged(frame, undo, Len(undo), table) /\ UndoExact(undo, table, slots)
      BY <1>11 DEF TxnWrite, FrameHeld, UndoHeld, Loaded
    <3>. QED
      BY <3>1, <3>2, StagedAll
  <2>2. OneEach(wal'.frame)
    BY <1>11, <2>1 DEF TxnWrite, OneEach, Frame
  <2>. QED
    BY <1>11, <2>2 DEF TxnWrite, TxnOver
<1>. QED
  BY <1>1, <1>2, <1>3, <1>4, <1>5, <1>6, <1>7, <1>8, <1>9, <1>10, <1>11
  DEF Next, Command, Step, Environment

\* A step that touches neither table nor file, and does not come to a loaded table.
LEMMA UndoHeldElsewhere ==
  ASSUME UndoHeld, UNCHANGED <<undo, table, slots>>, Loaded' => Loaded, pc' # "capture"
  PROVE  UndoHeld'
BY DEF UndoHeld

\* A step after which memory is the table of the file.
LEMMA UndoHeldSame ==
  ASSUME undo' = <<>>, SameTables(slots', table'), pc' # "capture"
  PROVE  UndoHeld'
BY NothingUndone DEF UndoHeld

LEMMA UndoHeldMutate ==
  ASSUME TypeOK, TxnPhases, UndoHeld, Ready, NEW s \in Slots, NEW rec \in Record, NEW c,
         Mutate(s, rec, c)
  PROVE  UndoHeld'
<1>1. undo \in Seq(UndoEntries) /\ table \in Tables
  BY DEF TypeOK, TxnTypes, MemoryTypes
<1>2. /\ undo' = Capture(undo, table, s) /\ table' = [table EXCEPT ![s] = rec]
      /\ slots' = slots /\ pc' \in {"ready", "stage"}
  BY DEF Mutate, TxnPhases, StartFlush, Ready, datVars
<1>3. UndoExact(undo, table, slots)
  BY DEF UndoHeld, Loaded, Ready
<1>4. UndoExact(undo', table, slots) /\ Captured(undo', s)
  BY <1>1, <1>2, <1>3, CaptureExact, CapturedStays
<1>5. \A o \in Slots : Captured(undo', o) \/ Same(table[o], table'[o])
  BY <1>1, <1>2, <1>4, SameIsEquality DEF Tables
<1>6. UndoExact(undo', table', slots)
  BY <1>4, <1>5, WriteExact
<1>. QED
  BY <1>2, <1>6 DEF UndoHeld

LEMMA UndoHeldStep ==
  ASSUME TypeOK, Flushed, WalPhases, Written, TxnPhases, UndoHeld, FrameHeld, Next
  PROVE  UndoHeld'
<1>. USE DEF Ready, Idle, txnVars, bulkVars, memVars, logVars, datVars
<1>types. undo \in Seq(UndoEntries) /\ table \in Tables /\ slots \in Tables
  BY DEF TypeOK, TxnTypes, MemoryTypes, DatTypes
<1>1. ASSUME NEW id \in Ids, NEW v \in Vals, Insert(id, v) \/ Update(id, v) PROVE UndoHeld'
  BY <1>1, UndoHeldMutate, RowType, SlotOfInTable, InsertSlotInTable DEF Insert, Update
<1>2. ASSUME NEW id \in Ids, Delete(id) PROVE UndoHeld'
  BY <1>2, UndoHeldMutate, DeadType, SlotOfInTable DEF Delete
<1>3. CASE Begin \/ Commit \/ Backup \/ TxnStage
  <2>1. UNCHANGED <<undo, table, slots>> /\ Loaded' /\ Loaded /\ pc' # "capture"
    BY <1>3 DEF Begin, Commit, StartFlush, Backup, TxnStage, Loaded, TxnPhases
  <2>. QED
    BY <2>1, UndoHeldElsewhere
<1>4. CASE Rollback
  <2>1. UndoExact(undo, table, slots)
    BY <1>4 DEF Rollback, UndoHeld, Loaded
  <2>2. SameTables(slots', table') /\ undo' = <<>> /\ pc' # "capture"
    BY <1>types, <1>4, <2>1, UndoneIsBefore DEF Rollback
  <2>. QED
    BY <2>2, UndoHeldSame
<1>5. CASE TruncateInTxn
  <2>1. UndoExact(undo', table', slots') /\ done' = 0
    BY <1>5 DEF TruncateInTxn, UndoHeld, Loaded
  <2>. QED
    BY <2>1 DEF UndoHeld, Slots
<1>6. CASE CaptureSlot
  <2>1. /\ pc = "capture" /\ done \in Slots /\ done' = done + 1 /\ UNCHANGED <<table, slots>>
        /\ undo' = IF Live(table[done]) THEN Capture(undo, table, done) ELSE undo
    BY <1>6, CapacityAssumption DEF CaptureSlot, Slots, TypeOK, ControlTypes
  <2>2. UndoExact(undo, table, slots)
    BY <2>1 DEF UndoHeld, Loaded
  <2>3. UndoExact(undo', table', slots')
    BY <1>types, <2>1, <2>2, CaptureExact
  <2>4. \A s \in Slots : Captured(undo, s) => Captured(undo', s)
    BY <1>types, <2>1, CapturedStays
  <2>5. Live(table[done]) => Captured(undo', done)
    BY <1>types, <2>1, CapturedStays
  <2>6. ASSUME NEW s \in Slots, s < done + 1, Live(table[s]) PROVE Captured(undo', s)
    <3>1. s < done \/ s = done
      BY <2>1, <2>6 DEF Slots
    <3>. QED
      BY <2>1, <2>4, <2>5, <2>6, <3>1 DEF UndoHeld
  <2>. QED
    BY <2>1, <2>3, <2>6 DEF UndoHeld
<1>7. CASE ClearInTxn
  <2>1. /\ pc = "capture" /\ done = Capacity /\ table' = Cleared(table)
        /\ UNCHANGED <<slots, undo>> /\ pc' = "ready"
    BY <1>7 DEF ClearInTxn
  <2>2. \A s \in Slots : Captured(undo, s) \/ Same(table[s], table'[s])
    <3>. SUFFICES ASSUME NEW s \in Slots, ~Captured(undo, s) PROVE Same(table[s], table'[s])
      OBVIOUS
    <3>1. s < done
      BY <2>1, CapacityAssumption DEF Slots
    <3>2. ~Live(table[s])
      BY <2>1, <3>1 DEF UndoHeld
    <3>. QED
      BY <2>1, <3>2, SameIsEquality DEF Cleared
  <2>3. UndoExact(undo, table, slots)
    BY <2>1 DEF UndoHeld, Loaded
  <2>4. UndoExact(undo', table', slots')
    BY <2>1, <2>2, <2>3, WriteExact
  <2>. QED
    BY <2>1, <2>4 DEF UndoHeld
<1>8. CASE TxnWrite
  <2>1. CASE frame.entries = <<>> /\ ~txn_reset
    <3>1. Staged(frame, undo, Len(undo), table) /\ UndoExact(undo, table, slots)
      BY <1>8 DEF TxnWrite, FrameHeld, UndoHeld, Loaded
    <3>2. FrameLeads(frame, table, slots)
      BY <1>types, <3>1, StagedAll
    <3>3. EntrySlots(frame) = {}
      BY <2>1 DEF EntrySlots
    <3>4. SameTables(slots, table)
      BY <3>2, <3>3 DEF FrameLeads, SameTables
    <3>5. undo' = <<>> /\ UNCHANGED <<slots, table>> /\ pc' # "capture"
      BY <1>8, <2>1 DEF TxnWrite, TxnOver
    <3>. QED
      BY <3>4, <3>5, UndoHeldSame
  <2>2. CASE ~(frame.entries = <<>> /\ ~txn_reset)
    BY <1>8, <2>2 DEF TxnWrite, UndoHeld, Loaded
  <2>. QED
    BY <2>1, <2>2
<1>9. CASE WalClear
  <2>1. CASE opening
    BY <1>9, <2>1 DEF WalClear, UndoHeld, Loaded
  <2>2. CASE ~opening
    <3>1. FrameLeads(frame, table, slots) /\ ImagesIn(frame, slots)
      BY <1>9, <2>2 DEF WalClear, FrameHeld, Written, ReplayPcs
    <3>2. SameTables(slots, table)
      BY <3>1, WrittenLeads
    <3>3. undo' = <<>> /\ UNCHANGED <<slots, table>> /\ pc' # "capture"
      BY <1>9, <2>2 DEF WalClear, TxnOver
    <3>. QED
      BY <3>2, <3>3, UndoHeldSame
  <2>. QED
    BY <2>1, <2>2
<1>10. CASE \/ WalCommit \/ CdcPublish \/ ApplySlot \/ PublishHeader \/ CheckpointSync
            \/ Open \/ WalRecover
            \/ Close \/ ProcessEnds \/ PowerLoss
            \/ Bench \/ (\E v \in Vals : BenchRow(v))
  <2>1. ~Loaded' /\ pc' # "capture"
    BY <1>10 DEF WalCommit, CdcPublish, ApplySlot, PublishHeader, CheckpointSync, Loaded, Open,
       WalRecover, Close, ProcessEnds, PowerLoss, Forget, Bench, BulkBegin, BenchRow
  <2>. QED
    BY <2>1 DEF UndoHeld
<1>11. CASE \/ Truncate \/ Restore \/ (\E s \in 0 .. MaxSeq : TrimBuild(s))
            \/ TruncateEnd \/ RestoreLost \/ BulkSync \/ BulkClose
  <2>1. UNCHANGED <<undo, table, slots>> /\ Loaded /\ pc' # "capture"
    BY <1>11 DEF Truncate, Restore, BulkBegin, TrimBuild, TruncateEnd, RestoreLost, BulkSync,
       BulkClose, Loaded
  <2>. QED
    BY <2>1, UndoHeldElsewhere
<1>12. CASE BulkCloseSync \/ EmitReset \/ ClearReset \/ TrimSwap \/ RecoverReset
  <2>1. UNCHANGED <<undo, table, slots>> /\ (Loaded' => Loaded) /\ pc' # "capture"
    <3>1. CASE BulkCloseSync
      BY <3>1 DEF BulkCloseSync, Loaded
    <3>2. CASE EmitReset
      BY <3>2 DEF EmitReset, Loaded
    <3>3. CASE ClearReset
      BY <3>3 DEF ClearReset, Loaded
    <3>4. CASE TrimSwap
      BY <3>4 DEF TrimSwap, Loaded
    <3>5. CASE RecoverReset
      BY <3>5 DEF RecoverReset, Loaded, TxnPhases
    <3>. QED
      BY <1>12, <3>1, <3>2, <3>3, <3>4, <3>5
  <2>. QED
    BY <2>1, UndoHeldElsewhere
<1>13. CASE CheckAligned
  <2>1. undo = <<>> /\ undo' = undo /\ slots' = slots /\ pc' # "capture"
    BY <1>13 DEF CheckAligned, TxnPhases, TxnPcs, ReplayPcs
  <2>2. CASE Loaded'
    <3>1. table' = slots
      BY <1>13, <2>2 DEF CheckAligned, Loaded
    <3>2. SameTables(slots', table')
      BY <2>1, <3>1, SameIsEquality DEF SameTables
    <3>. QED
      BY <2>1, <3>2, UndoHeldSame
  <2>3. CASE ~Loaded'
    BY <2>1, <2>3 DEF UndoHeld
  <2>. QED
    BY <2>2, <2>3
<1>14. CASE TruncateSlot
  <2>1. undo = <<>>
    BY <1>14 DEF TruncateSlot, TxnPhases, TxnPcs, ReplayPcs
  <2>2. PICK s \in Slots : /\ table' = [table EXCEPT ![s] = Deleted]
                           /\ slots' = [slots EXCEPT ![s] = Deleted]
    BY <1>14 DEF TruncateSlot, LiveSlots
  <2>3. SameTables(slots, table)
    BY <1>14, <2>1, NothingUndone DEF TruncateSlot, UndoHeld, Loaded
  <2>4. SameTables(slots', table')
    BY <1>types, <2>2, <2>3, SameIsEquality DEF SameTables, Tables
  <2>. QED
    BY <1>14, <2>1, <2>4, UndoHeldSame DEF TruncateSlot
<1>15. CASE RestoreApply \/ BenchApply \/ BulkClear
  <2>1. undo = <<>>
    BY <1>15 DEF RestoreApply, BenchApply, BulkClear, TxnPhases, TxnPcs, ReplayPcs
  <2>2. undo' = undo /\ slots' = table' /\ pc' # "capture"
    BY <1>15 DEF RestoreApply, BenchApply, BulkClear, ReplaceTable
  <2>3. SameTables(slots', table')
    BY <2>2, SameIsEquality DEF SameTables
  <2>. QED
    BY <2>1, <2>2, <2>3, UndoHeldSame
<1>16. CASE LoseBackup \/ LoseLog
  BY <1>16 DEF LoseBackup, LoseLog, UndoHeld, Loaded
<1>. QED
  BY <1>1, <1>2, <1>3, <1>4, <1>5, <1>6, <1>7, <1>8, <1>9, <1>10, <1>11, <1>12, <1>13,
     <1>14, <1>15, <1>16
  DEF Next, Command, Step, Environment

LEMMA FrameHeldStep ==
  ASSUME TypeOK, TypeOK', WalPhases, TxnPhases, UndoHeld, FrameHeld, Next
  PROVE  FrameHeld'
<1>. USE DEF Ready, Idle, txnVars, bulkVars, memVars, logVars, datVars
<1>types. /\ undo \in Seq(UndoEntries) /\ undo' \in Seq(UndoEntries) /\ table \in Tables
          /\ slots \in Tables /\ frame.entries \in Seq(WalEntries) /\ done \in Nat
  BY DEF TypeOK, TxnTypes, MemoryTypes, DatTypes, FrameTypes, Frames, ControlTypes
<1>1. ASSUME NEW s, NEW rec, NEW c, Mutate(s, rec, c), pc = "ready" PROVE FrameHeld'
  <2>1. \/ pc' = "ready"
        \/ pc' = "stage" /\ frame' = NoFrame /\ done' = 0
    BY <1>1 DEF Mutate, StartFlush
  <2>2. Staged(NoFrame, undo', 0, table')
    BY <1>types, StagedNothing
  <2>. QED
    BY <2>1, <2>2 DEF FrameHeld, ReplayPcs
<1>2. ASSUME NEW id \in Ids, NEW v \in Vals, Insert(id, v) \/ Update(id, v) PROVE FrameHeld'
  BY <1>1, <1>2 DEF Insert, Update
<1>3. ASSUME NEW id \in Ids, Delete(id) PROVE FrameHeld'
  BY <1>1, <1>3 DEF Delete
<1>4. CASE Commit
  <2>1. pc' = "stage" /\ frame' = NoFrame /\ done' = 0
    BY <1>4 DEF Commit, StartFlush
  <2>2. Staged(NoFrame, undo', 0, table')
    BY <1>types, StagedNothing
  <2>. QED
    BY <2>1, <2>2 DEF FrameHeld, ReplayPcs
<1>5. CASE TxnStage
  <2>1. /\ pc = "stage" /\ done < Len(undo) /\ done' = done + 1 /\ UNCHANGED <<pc, undo, table>>
        /\ frame' = IF SlotChanged(undo[done + 1].before, table[undo[done + 1].slot])
                      THEN Frame(0, FALSE, 0, Append(frame.entries, Entry(undo[done + 1], table)))
                      ELSE frame
    BY <1>5 DEF TxnStage
  <2>2. IF SlotChanged(undo[done + 1].before, table[undo[done + 1].slot])
          THEN frame'.entries = Append(frame.entries, Entry(undo[done + 1], table))
          ELSE frame' = frame
    BY <2>1 DEF Frame
  <2>3. UndoExact(undo, table, slots) /\ Staged(frame, undo, done, table)
    BY <2>1 DEF UndoHeld, Loaded, FrameHeld
  <2>4. undo[done + 1] \in UndoEntries
    BY <1>types, <2>1
  <2>5. Staged(frame', undo, done + 1, table)
    BY <1>types, <2>1, <2>2, <2>3, <2>4, StagedOne
  <2>. QED
    BY <2>1, <2>5 DEF FrameHeld, ReplayPcs
<1>6. CASE TxnWrite
  <2>1. CASE frame.entries = <<>> /\ ~txn_reset
    BY <1>6, <2>1 DEF TxnWrite, TxnOver, FrameHeld, ReplayPcs
  <2>2. CASE ~(frame.entries = <<>> /\ ~txn_reset)
    <3>1. /\ pc = "stage" /\ pc' = "mark" /\ frame'.entries = frame.entries
          /\ UNCHANGED <<table, slots>> /\ done = Len(undo)
      BY <1>6, <2>2 DEF TxnWrite, Frame
    <3>2. FrameLeads(frame, table, slots)
      BY <1>types, <3>1, StagedAll DEF FrameHeld, UndoHeld, Loaded
    <3>3. FrameLeads(frame', table', slots')
      BY <3>1, <3>2 DEF FrameLeads, EntrySlots
    <3>. QED
      BY <3>1, <3>3 DEF FrameHeld
  <2>. QED
    BY <2>1, <2>2
<1>7. CASE WalCommit \/ CdcPublish \/ PublishHeader \/ CheckpointSync \/ LoseBackup \/ LoseLog
  <2>1. /\ UNCHANGED <<frame, table, slots, opening>>
        /\ pc' = "stage" => pc = "stage" /\ UNCHANGED <<undo, done>>
        /\ pc' \in ReplayPcs \cup {"mark"} => pc \in ReplayPcs \cup {"mark"}
    <3>1. CASE WalCommit
      BY <3>1 DEF WalCommit, ReplayPcs
    <3>2. CASE CdcPublish
      BY <3>2 DEF CdcPublish, ReplayPcs
    <3>3. CASE PublishHeader \/ CheckpointSync
      BY <3>3 DEF PublishHeader, CheckpointSync, ReplayPcs
    <3>4. CASE LoseBackup \/ LoseLog
      BY <3>4 DEF LoseBackup, LoseLog, ReplayPcs
    <3>. QED
      BY <1>7, <3>1, <3>2, <3>3, <3>4
  <2>. QED
    BY <2>1 DEF FrameHeld
<1>8. CASE ApplySlot
  <2>1. /\ pc = "apply" /\ done < Len(frame.entries) /\ UNCHANGED <<pc, opening, frame, table>>
        /\ slots' = [slots EXCEPT ![frame.entries[done + 1].slot] = frame.entries[done + 1].image]
    BY <1>8 DEF ApplySlot
  <2>2. frame.entries[done + 1].slot \in EntrySlots(frame)
    <3>1. done + 1 \in 1 .. Len(frame.entries)
      BY <1>types, <2>1
    <3>. QED
      BY <3>1 DEF EntrySlots
  <2>3. FrameLeads(frame, table, slots) => FrameLeads(frame, table, slots')
    BY <1>types, <2>1, <2>2 DEF FrameLeads, Tables
  <2>. QED
    BY <2>1, <2>3 DEF FrameHeld, ReplayPcs
<1>9. CASE WalRecover
  BY <1>9 DEF WalRecover, TxnPhases, FrameHeld, ReplayPcs
<1>10. CASE \/ Begin \/ Rollback \/ TruncateInTxn \/ CaptureSlot \/ ClearInTxn
            \/ Truncate \/ Restore \/ Bench \/ Backup \/ (\E s \in 0 .. MaxSeq : TrimBuild(s))
  <2>1. pc' \notin ReplayPcs \cup {"stage", "mark"}
    BY <1>10 DEF Begin, Rollback, TruncateInTxn, CaptureSlot, ClearInTxn, Truncate, Restore,
       Bench, BulkBegin, Backup, TrimBuild, ReplayPcs
  <2>. QED
    BY <2>1 DEF FrameHeld
<1>11. CASE \/ WalClear \/ TruncateSlot \/ TruncateEnd \/ RestoreApply \/ RestoreLost
            \/ (\E v \in Vals : BenchRow(v)) \/ BenchApply \/ BulkSync \/ BulkClose
            \/ BulkCloseSync \/ EmitReset \/ ClearReset
  <2>1. pc' \notin ReplayPcs \cup {"stage", "mark"}
    BY <1>11 DEF WalClear, TxnOver, TruncateSlot, TruncateEnd, RestoreApply, RestoreLost,
       BenchRow, BenchApply, ReplaceTable, BulkSync, BulkClose, BulkCloseSync, EmitReset,
       ClearReset, ReplayPcs
  <2>. QED
    BY <2>1 DEF FrameHeld
<1>12. CASE \/ TrimSwap \/ RecoverReset \/ CheckAligned \/ BulkClear \/ Open
            \/ Close \/ ProcessEnds \/ PowerLoss
  <2>1. pc' \notin ReplayPcs \cup {"stage", "mark"}
    BY <1>12 DEF TrimSwap, RecoverReset, CheckAligned, BulkClear, ReplaceTable, Open, Close,
       ProcessEnds, PowerLoss, Forget, ReplayPcs
  <2>. QED
    BY <2>1 DEF FrameHeld
<1>. QED
  BY <1>2, <1>3, <1>4, <1>5, <1>6, <1>7, <1>8, <1>9, <1>10, <1>11, <1>12
  DEF Next, Command, Step, Environment

LEMMA WrittenStep ==
  ASSUME TypeOK, Flushed, WalPhases, Written, Next
  PROVE  Written'
<1>. USE DEF Ready, Idle, txnVars, bulkVars, memVars, logVars, datVars
<1>types. slots \in Tables /\ frame.entries \in Seq(WalEntries) /\ done \in Nat
  BY DEF TypeOK, DatTypes, FrameTypes, Frames, ControlTypes
<1>1. CASE CdcPublish
  <2>1. slots = slots_safe
    BY <1>1 DEF CdcPublish, Flushed, Writing
  <2>2. UNCHANGED <<slots, slots_safe, frame>> /\ done' = 0 /\ pc' \in {"apply", "refused"}
    BY <1>1 DEF CdcPublish
  <2>. QED
    BY <1>types, <2>1, <2>2 DEF Written
<1>2. CASE ApplySlot
  <2>. DEFINE e == frame.entries[done + 1]
  <2>1. /\ pc = "apply" /\ done < Len(frame.entries) /\ UNCHANGED <<pc, frame, slots_safe>>
        /\ slots' = [slots EXCEPT ![e.slot] = e.image] /\ done' = done + 1
    BY <1>2 DEF ApplySlot
  <2>2. OneEach(frame)
    BY <2>1 DEF WalPhases, ReplayPcs
  <2>3. done + 1 \in 1 .. Len(frame.entries) /\ e \in WalEntries
    BY <1>types, <2>1
  <2>4. e.slot \in Slots /\ e.slot \in EntrySlots(frame)
    BY <2>3 DEF WalEntries, EntrySlots
  <2>5. \A s \in Slots : slots'[s] = IF s = e.slot THEN e.image ELSE slots[s]
    BY <1>types, <2>1 DEF Tables
  <2>6. ASSUME NEW i \in 1 .. done + 1
        PROVE  slots'[frame.entries[i].slot] = frame.entries[i].image
    <3>1. i \in 1 .. Len(frame.entries) /\ frame.entries[i] \in WalEntries
      BY <1>types, <2>1
    <3>2. frame.entries[i].slot \in Slots
      BY <3>1 DEF WalEntries
    <3>3. CASE i = done + 1
      BY <2>4, <2>5, <3>3
    <3>4. CASE i # done + 1
      <4>1. i \in 1 .. done
        BY <1>types, <3>4
      <4>2. frame.entries[i].slot # e.slot
        BY <2>2, <2>3, <3>1, <3>4 DEF OneEach
      <4>3. slots[frame.entries[i].slot] = frame.entries[i].image
        BY <2>1, <4>1 DEF Written
      <4>. QED
        BY <2>5, <3>2, <4>2, <4>3
    <3>. QED
      BY <3>3, <3>4
  <2>7. \A s \in Slots : slots'[s] = slots_safe[s] \/ s \in EntrySlots(frame)
    BY <2>1, <2>4, <2>5 DEF Written
  <2>8. done + 1 <= Len(frame.entries)
    BY <2>3
  <2>. HIDE DEF e
  <2>. QED
    BY <2>1, <2>6, <2>7, <2>8 DEF Written
<1>3. CASE PublishHeader
  <2>1. ImagesIn(frame, slots)
    BY <1>3 DEF PublishHeader, Written, ImagesIn
  <2>. QED
    BY <1>3, <2>1 DEF PublishHeader, Written
<1>4. CASE CheckpointSync
  BY <1>4 DEF CheckpointSync, Written
<1>5. CASE LoseBackup \/ LoseLog
  BY <1>5 DEF LoseBackup, LoseLog, Written
<1>6. CASE \/ (\E id \in Ids, v \in Vals : Insert(id, v) \/ Update(id, v))
           \/ (\E id \in Ids : Delete(id))
           \/ Begin \/ Commit \/ Rollback \/ TruncateInTxn \/ CaptureSlot \/ ClearInTxn
  <2>1. pc' \notin {"apply", "sync", "wal_clear"}
    BY <1>6 DEF Insert, Update, Delete, Mutate, StartFlush, Begin, Commit, Rollback,
       TruncateInTxn, CaptureSlot, ClearInTxn
  <2>. QED
    BY <2>1 DEF Written
<1>7. CASE \/ Truncate \/ Restore \/ Bench \/ Backup \/ (\E s \in 0 .. MaxSeq : TrimBuild(s))
           \/ TxnStage \/ TxnWrite \/ WalCommit \/ WalClear \/ TruncateSlot \/ TruncateEnd
  <2>1. pc' \notin {"apply", "sync", "wal_clear"}
    BY <1>7 DEF Truncate, Restore, Bench, BulkBegin, Backup, TrimBuild, TxnStage, TxnWrite,
       TxnOver, WalCommit, WalClear, TruncateSlot, TruncateEnd
  <2>. QED
    BY <2>1 DEF Written
<1>8. CASE \/ RestoreApply \/ RestoreLost \/ (\E v \in Vals : BenchRow(v)) \/ BenchApply
           \/ BulkSync \/ BulkClose \/ BulkCloseSync \/ EmitReset \/ ClearReset
  <2>1. pc' \notin {"apply", "sync", "wal_clear"}
    BY <1>8 DEF RestoreApply, RestoreLost, BenchRow, BenchApply, ReplaceTable, BulkSync,
       BulkClose, BulkCloseSync, EmitReset, ClearReset
  <2>. QED
    BY <2>1 DEF Written
<1>9. CASE \/ TrimSwap \/ RecoverReset \/ CheckAligned \/ BulkClear \/ Open \/ WalRecover
           \/ Close \/ ProcessEnds \/ PowerLoss
  <2>1. pc' \notin {"apply", "sync", "wal_clear"}
    BY <1>9 DEF TrimSwap, RecoverReset, CheckAligned, BulkClear, ReplaceTable, Open,
       WalRecover, Close, ProcessEnds, PowerLoss, Forget
  <2>. QED
    BY <2>1 DEF Written
<1>. QED
  BY <1>1, <1>2, <1>3, <1>4, <1>5, <1>6, <1>7, <1>8, <1>9
  DEF Next, Command, Step, Environment

\* Between commands nothing is captured, so memory and file hold the same rows.
LEMMA IdleSame ==
  ASSUME TxnPhases, UndoHeld, Idle
  PROVE  SameTables(slots, table)
BY NothingUndone DEF TxnPhases, UndoHeld, Loaded, Idle, Ready

LEMMA CountMutate ==
  ASSUME TypeOK, CountMirrors, pc = "ready", NEW s \in Slots, NEW rec, NEW c, Mutate(s, rec, c),
         c = count + (IF Live(rec) THEN 1 ELSE 0) - (IF Live(table[s]) THEN 1 ELSE 0)
  PROVE  CountMirrors'
<1>1. table' = [table EXCEPT ![s] = rec] /\ count' = c /\ UNCHANGED <<hdr, slots>>
  BY DEF Mutate, datVars
<1>2. LiveCount(table') =
        LiveCount(table) + (IF Live(rec) THEN 1 ELSE 0) - (IF Live(table[s]) THEN 1 ELSE 0)
  BY <1>1, CountOne DEF TypeOK, MemoryTypes
<1>3. /\ LiveCount(table) \in Nat /\ LiveCount(slots) \in Nat /\ count \in Int
      /\ hdr.count \in Int
  BY LiveCountType DEF TypeOK, MemoryTypes, DatTypes, Headers
<1>4. count - LiveCount(table) = hdr.count - LiveCount(slots)
  BY DEF CountMirrors
<1>5. count' - LiveCount(table') = hdr.count - LiveCount(slots)
  BY <1>1, <1>2, <1>3, <1>4
<1>. QED
  BY <1>1, <1>5 DEF CountMirrors

LEMMA CountMirrorsStep ==
  ASSUME TypeOK, TypeOK', CountMirrors, TxnPhases, HeaderMirrors', TxnPhases', UndoHeld', Next
  PROVE  CountMirrors'
<1>. USE DEF Ready, Idle, txnVars, bulkVars, memVars, logVars, datVars
<1>0. ASSUME Idle' PROVE CountMirrors'
  <2>1. undo' = <<>> /\ UndoExact(undo', table', slots')
    BY <1>0 DEF TxnPhases, UndoHeld, Loaded
  <2>2. LiveCount(slots') = LiveCount(table') /\ LiveCount(table') \in Nat
    BY <2>1, NothingUndone, SameContent, LiveCountType
  <2>3. hdr'.count = count' /\ count' \in Int
    BY <1>0 DEF HeaderMirrors, Counted, TypeOK, MemoryTypes
  <2>. QED
    BY <2>2, <2>3 DEF CountMirrors
<1>1. ASSUME NEW id \in Ids, NEW v \in Vals, Insert(id, v) PROVE CountMirrors'
  BY <1>1, CountMutate, InsertSlotInTable, SlotsMeant, RowLive
  DEF Insert, TypeOK, MemoryTypes
<1>2. ASSUME NEW id \in Ids, NEW v \in Vals, Update(id, v) PROVE CountMirrors'
  BY <1>2, CountMutate, SlotOfInTable, SlotsMeant, RowLive
  DEF Update, TypeOK, MemoryTypes
<1>3. ASSUME NEW id \in Ids, Delete(id) PROVE CountMirrors'
  BY <1>3, CountMutate, SlotOfInTable, SlotsMeant, NotLive
  DEF Delete, TypeOK, MemoryTypes
<1>4. CASE Begin \/ Commit \/ TruncateInTxn \/ CaptureSlot \/ TxnStage \/ LoseBackup \/ LoseLog
  <2>1. UNCHANGED <<count, table, hdr, slots>>
        /\ (pc' \in {"ready", "capture", "stage"} => pc \in {"ready", "capture", "stage"})
    BY <1>4 DEF Begin, Commit, StartFlush, TruncateInTxn, CaptureSlot, TxnStage, LoseBackup,
       LoseLog
  <2>. QED
    BY <2>1 DEF CountMirrors
<1>5. CASE ClearInTxn
  <2>1. /\ pc = "capture" /\ count' = count - LiveCount(table) /\ table' = Cleared(table)
        /\ UNCHANGED <<hdr, slots>>
    BY <1>5 DEF ClearInTxn
  <2>2. LiveCount(table') = 0 /\ LiveCount(table) \in Nat /\ count \in Int
    BY <2>1, CountNone, LiveCountType DEF TypeOK, MemoryTypes
  <2>. QED
    BY <2>1, <2>2 DEF CountMirrors
<1>6. CASE Rollback \/ TxnWrite \/ WalClear \/ CheckAligned
  <2>1. Idle' \/ pc' \notin {"ready", "capture", "stage"}
    <3>1. CASE Rollback
      BY <3>1 DEF Rollback
    <3>2. CASE TxnWrite
      BY <3>2 DEF TxnWrite, TxnOver
    <3>3. CASE WalClear
      BY <3>3 DEF WalClear, TxnOver
    <3>4. CASE CheckAligned
      BY <3>4 DEF CheckAligned, TxnPhases, TxnPcs, ReplayPcs
    <3>. QED
      BY <1>6, <3>1, <3>2, <3>3, <3>4
  <2>. QED
    BY <1>0, <2>1 DEF CountMirrors
<1>7. CASE RestoreLost \/ BulkCloseSync \/ ClearReset \/ TrimSwap \/ Backup
  <2>1. Idle' \/ pc' \notin {"ready", "capture", "stage"}
    <3>1. CASE RestoreLost
      BY <3>1 DEF RestoreLost, TxnPhases, TxnPcs, ReplayPcs
    <3>2. CASE BulkCloseSync
      BY <3>2 DEF BulkCloseSync, TxnPhases, TxnPcs, ReplayPcs
    <3>3. CASE ClearReset
      BY <3>3 DEF ClearReset, TxnPhases, TxnPcs, ReplayPcs
    <3>4. CASE TrimSwap
      BY <3>4 DEF TrimSwap, TxnPhases, TxnPcs, ReplayPcs
    <3>5. CASE Backup
      BY <3>5 DEF Backup
    <3>. QED
      BY <1>7, <3>1, <3>2, <3>3, <3>4, <3>5
  <2>. QED
    BY <1>0, <2>1 DEF CountMirrors
<1>8. CASE \/ Truncate \/ Restore \/ Bench \/ (\E s \in 0 .. MaxSeq : TrimBuild(s))
           \/ WalCommit \/ ApplySlot \/ PublishHeader \/ CheckpointSync
  <2>1. pc' \notin {"ready", "capture", "stage"}
    BY <1>8 DEF Truncate, Restore, Bench, BulkBegin, TrimBuild, WalCommit, ApplySlot,
       PublishHeader, CheckpointSync
  <2>. QED
    BY <2>1 DEF CountMirrors
<1>9. CASE \/ TruncateSlot \/ TruncateEnd \/ RestoreApply \/ (\E v \in Vals : BenchRow(v))
           \/ BenchApply \/ BulkSync \/ BulkClose
  <2>1. pc' \notin {"ready", "capture", "stage"}
    BY <1>9 DEF TruncateSlot, TruncateEnd, RestoreApply, BenchRow, BenchApply, ReplaceTable,
       BulkSync, BulkClose
  <2>. QED
    BY <2>1 DEF CountMirrors
<1>10. CASE EmitReset \/ CdcPublish
  <2>1. pc' \notin {"ready", "capture", "stage"}
    BY <1>10 DEF EmitReset, CdcPublish
  <2>. QED
    BY <2>1 DEF CountMirrors
<1>11. CASE \/ RecoverReset \/ BulkClear \/ Open \/ WalRecover
            \/ Close \/ ProcessEnds \/ PowerLoss
  <2>1. pc' \notin {"ready", "capture", "stage"}
    BY <1>11 DEF RecoverReset, BulkClear, ReplaceTable, Open, WalRecover, Close, ProcessEnds,
       PowerLoss, Forget
  <2>. QED
    BY <2>1 DEF CountMirrors
<1>. QED
  BY <1>1, <1>2, <1>3, <1>4, <1>5, <1>6, <1>7, <1>8, <1>9, <1>10, <1>11
  DEF Next, Command, Step, Environment

THEOREM TableStep ==
  ASSUME TypeOK, TypeOK', TableInv, Next
  PROVE  TableInv'
<1>1. Flushed' /\ TxnPhases' /\ WalPhases' /\ Written'
  BY FlushedStep, TxnPhasesStep, WalPhasesStep, WrittenStep DEF TableInv
<1>2. UndoHeld' /\ FrameHeld' /\ HeaderMirrors'
  BY UndoHeldStep, FrameHeldStep, HeaderMirrorsStep DEF TableInv
<1>3. CountMirrors'
  BY <1>1, <1>2, CountMirrorsStep DEF TableInv
<1>. QED
  BY <1>1, <1>2, <1>3 DEF TableInv

\* Whatever commands, crashes, losses and removals: the rows in memory, the undo log,
\* the frame and the file say of each other what TableInv says.
THEOREM TableCorrect == Spec => []TableInv
<1>1. Init => TableInv
  BY TableInit
<1>2. TypeOK /\ TypeOK' /\ TableInv /\ [Next]_vars => TableInv'
  <2>1. ASSUME TableInv, UNCHANGED vars PROVE TableInv'
    BY <2>1
    DEF TableInv, Flushed, WalPhases, Written, TxnPhases, Loaded, UndoHeld, FrameHeld, Counted,
        HeaderMirrors, CountMirrors, Idle, Ready, Running, vars, memVars, txnVars, bulkVars,
        logVars, datVars
  <2>. QED
    BY <2>1, TableStep
<1>. QED
  BY <1>1, <1>2, TypeCorrect, PTL DEF Spec

\* Between commands the file as flushed has the rows of memory and a header that says
\* what the globals say, and no committed frame is left to replay: with no hypothesis
\* on crashes, losses of power and files the operator removes.
THEOREM DurableAtPrompt == Spec => []DurableWhenIdle
<1>1. ASSUME TypeOK, TableInv PROVE DurableWhenIdle
  <2>. SUFFICES ASSUME Idle
                PROVE  /\ Content(table) = Content(slots_safe)
                       /\ slots = slots_safe
                       /\ hdr = Header(count, seq, reset_pend, reset_seq, bulk_kind)
                       /\ hdr_safe = hdr
                       /\ ~wal.marked
    BY DEF DurableWhenIdle
  <2>1. slots = slots_safe /\ hdr_safe = hdr
    BY <1>1 DEF TableInv, Flushed, Writing, Idle, Ready
  <2>2. SameTables(slots, table)
    BY <1>1, IdleSame DEF TableInv
  <2>3. Content(table) = Content(slots_safe)
    BY <2>1, <2>2, SameContent
  <2>4. hdr = Header(count, seq, reset_pend, reset_seq, bulk_kind)
    BY <1>1 DEF TableInv, HeaderMirrors, Counted, Running, Idle, Ready, Header, TypeOK, DatTypes,
       Headers
  <2>5. ~wal.marked
    BY <1>1 DEF TableInv, WalPhases, ReplayPcs, Idle, Ready
  <2>. QED
    BY <2>1, <2>3, <2>4, <2>5
<1>. QED
  BY <1>1, TypeCorrect, TableCorrect, PTL

-----------------------------------------------------------------------------
(* The row count *)

\* TRUNCATE outside a transaction closes the operation in the header before the slots
\* it cleared are known to be on disk: a loss of power in between may leave a count of
\* 0 and live rows.  Every statement about the count is made where that cannot happen.
TruncateFlushed == "TRUNCATE" \notin Commands \/ "power" \notin Faults

\* A committed frame carries the count of the table it leads to.
CommittedCount ==
  /\ wal.marked => wal.frame.count = LiveCount(Replayed)
  /\ pc = "mark" => frame.count = LiveCount(table)

\* The header counts the rows of the file, unless it announces an operation.
HeaderCount ==
  /\ ~wal.marked /\ hdr.bulk = "NONE" => hdr.count = LiveCount(slots)
  /\ pc \in {"ready", "capture", "stage", "mark", "trim"} \/ (pc = "restore" /\ ~opening)
       => hdr.count = LiveCount(slots)
  /\ hdr.count \in 0 .. Capacity
  /\ hdr_safe.count \in 0 .. Capacity

\* So does the count of a whole-table operation once its rows are written, and they
\* are flushed before the operation is closed.
BulkCount ==
  /\ pc \in {"bulk_sync", "bulk_close", "bulk_closed"} => count = LiveCount(slots)
  /\ pc = "truncate" => count = LiveCount(table) + done
  /\ pc \in {"bulk_close", "bulk_closed"} => slots = slots_safe \/ "power" \notin Faults
  /\ pc = "truncate" => "power" \notin Faults

BulkAnnounced ==
  /\ pc \in {"truncate", "restore", "bench", "bulk_sync", "bulk_close", "bulk_clear"}
       => hdr.bulk # "NONE" /\ hdr_safe.bulk # "NONE"
  /\ pc = "bulk_closed" => hdr.bulk = "NONE" /\ hdr_safe.bulk # "NONE"
  /\ pc \in {"emit_reset", "clear_reset"} /\ ~opening => hdr.bulk = "NONE"

BackupCount == backup # NoBackup => backup.count = LiveCount(backup.slots)

CountInv == CommittedCount /\ HeaderCount /\ BulkCount /\ BulkAnnounced /\ BackupCount

LEMMA ReplayUnmarked ==
  ASSUME NEW w, NEW t \in Tables, ~w.marked
  PROVE  Replay(w, t) = t
BY DEF Replay, Tables

LEMMA CountInit == Init => CountInv
<1>. SUFFICES ASSUME Init PROVE CountInv
  OBVIOUS
<1>1. LiveCount(slots) = 0 /\ Capacity \in Nat
  BY CountNone, CapacityAssumption DEF Init
<1>2. ~wal.marked /\ hdr.count = 0 /\ hdr_safe.count = 0 /\ pc = "down" /\ backup = NoBackup
  BY DEF Init, NoWal, Header
<1>. QED
  BY <1>1, <1>2
  DEF CountInv, CommittedCount, HeaderCount, BulkCount, BulkAnnounced, BackupCount

LEMMA BulkAnnouncedStep ==
  ASSUME BulkAnnounced, TableInv, Next
  PROVE  BulkAnnounced'
<1>. USE DEF BulkAnnounced, Ready, Idle, Header, Synced, txnVars, bulkVars, memVars, logVars,
             datVars
<1>1. CASE \/ (\E id \in Ids, v \in Vals : Insert(id, v) \/ Update(id, v))
           \/ (\E id \in Ids : Delete(id))
           \/ Begin \/ Commit \/ Rollback \/ TruncateInTxn \/ CaptureSlot \/ ClearInTxn
  BY <1>1 DEF Insert, Update, Delete, Mutate, StartFlush, Begin, Commit, Rollback,
     TruncateInTxn, CaptureSlot, ClearInTxn
<1>2. CASE TxnStage \/ TxnWrite \/ WalCommit
  BY <1>2 DEF TxnStage, TxnWrite, TxnOver, WalCommit
<1>3. CASE CdcPublish \/ ApplySlot \/ PublishHeader \/ CheckpointSync \/ WalClear
  BY <1>3 DEF CdcPublish, ApplySlot, PublishHeader, CheckpointSync, WalClear, TxnOver
<1>4. CASE Truncate \/ Restore \/ Bench
  BY <1>4 DEF Truncate, Restore, Bench, BulkBegin
<1>5. CASE Backup \/ \E s \in 0 .. MaxSeq : TrimBuild(s)
  BY <1>5 DEF Backup, TrimBuild
<1>6. CASE TruncateSlot \/ TruncateEnd \/ RestoreLost \/ \E v \in Vals : BenchRow(v)
  BY <1>6 DEF TruncateSlot, TruncateEnd, RestoreLost, BenchRow
<1>7. CASE RestoreApply \/ BenchApply \/ BulkClear
  <2>1. bulk_kind = hdr.bulk
    BY <1>7 DEF RestoreApply, BenchApply, BulkClear, TableInv, HeaderMirrors, Running
  <2>. QED
    BY <1>7, <2>1 DEF RestoreApply, BenchApply, BulkClear, ReplaceTable
<1>8. CASE BulkSync \/ BulkClose \/ BulkCloseSync \/ EmitReset
  BY <1>8 DEF BulkSync, BulkClose, BulkCloseSync, EmitReset
<1>9. CASE ClearReset
  <2>1. bulk_kind = hdr.bulk
    BY <1>9 DEF ClearReset, TableInv, HeaderMirrors, Running
  <2>. QED
    BY <1>9, <2>1 DEF ClearReset
<1>10. CASE TrimSwap \/ RecoverReset \/ Open \/ WalRecover
  BY <1>10 DEF TrimSwap, RecoverReset, Open, WalRecover, TableInv, TxnPhases
<1>11. CASE CheckAligned
  <2>1. bulk_kind = hdr.bulk /\ hdr_safe = hdr
    BY <1>11 DEF CheckAligned, TableInv, HeaderMirrors, Running, Flushed, Writing
  <2>. QED
    BY <1>11, <2>1 DEF CheckAligned
<1>12. CASE Close \/ ProcessEnds \/ PowerLoss \/ LoseBackup \/ LoseLog
  BY <1>12 DEF Close, ProcessEnds, PowerLoss, Forget, LoseBackup, LoseLog
<1>. QED
  BY <1>1, <1>2, <1>3, <1>4, <1>5, <1>6, <1>7, <1>8, <1>9, <1>10, <1>11, <1>12
  DEF Next, Command, Step, Environment

LEMMA CountTypes ==
  ASSUME TypeOK
  PROVE  /\ count \in Int /\ hdr.count \in Int /\ hdr_safe.count \in Int /\ done \in Nat
         /\ table \in Tables /\ slots \in Tables /\ slots_safe \in Tables
         /\ hdr \in Headers /\ wal \in Wals /\ frame \in Frames
         /\ frame.entries \in Seq(WalEntries) /\ frame.count \in Int
         /\ undo \in Seq(UndoEntries)
BY DEF TypeOK, MemoryTypes, DatTypes, Headers, ControlTypes, FrameTypes, Frames, TxnTypes

\* Between commands header, memory and both tables count the same rows.
LEMMA CountIdle ==
  ASSUME TypeOK, TableInv, HeaderCount, Idle
  PROVE  /\ hdr.count = count /\ count = LiveCount(slots)
         /\ LiveCount(slots) = LiveCount(table)
         /\ slots = slots_safe /\ hdr = hdr_safe /\ undo = <<>>
<1>1. hdr.count = LiveCount(slots)
  BY DEF HeaderCount, Idle, Ready
<1>2. hdr.count = count
  BY DEF TableInv, HeaderMirrors, Counted
<1>3. LiveCount(slots) = LiveCount(table)
  BY IdleSame, SameContent DEF TableInv
<1>4. slots = slots_safe /\ hdr = hdr_safe /\ undo = <<>>
  BY DEF TableInv, Flushed, Writing, TxnPhases, Idle, Ready
<1>. QED
  BY <1>1, <1>2, <1>3, <1>4

\* Only BACKUP and the operator change the snapshot.
LEMMA BackupChanges ==
  ASSUME Next
  PROVE  backup' = backup \/ Backup \/ LoseBackup
BY DEF Next, Command, Step, Environment, Insert, Update, Delete, Mutate, Begin, Commit,
   Rollback, TruncateInTxn, CaptureSlot, ClearInTxn, Truncate, Restore, Bench, BulkBegin,
   TrimBuild, Close, Forget, TxnStage, TxnWrite, WalCommit, CdcPublish, ApplySlot,
   PublishHeader, CheckpointSync, WalClear, TruncateSlot, TruncateEnd, RestoreApply,
   RestoreLost, BenchRow, BenchApply, ReplaceTable, BulkSync, BulkClose, BulkCloseSync,
   EmitReset, ClearReset, TrimSwap, WalRecover, RecoverReset, CheckAligned, BulkClear, Open,
   ProcessEnds, PowerLoss, LoseLog

LEMMA BackupCountStep ==
  ASSUME TypeOK, TableInv, CountInv, Next
  PROVE  BackupCount'
<1>1. CASE Backup
  <2>1. backup' = [slots |-> table, count |-> count] /\ Idle
    BY <1>1 DEF Backup
  <2>2. count = LiveCount(table)
    BY <2>1, CountIdle DEF CountInv
  <2>. QED
    BY <2>1, <2>2 DEF BackupCount
<1>2. CASE LoseBackup
  BY <1>2 DEF LoseBackup, BackupCount
<1>3. CASE UNCHANGED backup
  BY <1>3 DEF CountInv, BackupCount
<1>4. backup' = backup \/ Backup \/ LoseBackup
  BY BackupChanges
<1>. QED
  BY <1>1, <1>2, <1>3, <1>4

LEMMA BulkCountStep ==
  ASSUME TypeOK, TableInv, CountInv, Next, TruncateFlushed
  PROVE  BulkCount'
<1>. USE DEF Ready, Idle, txnVars, bulkVars, memVars, logVars, datVars
<1>. DEFINE BulkPcs == {"truncate", "bulk_sync", "bulk_close", "bulk_closed"}
<1>0. ASSUME pc' \notin BulkPcs PROVE BulkCount'
  BY <1>0 DEF BulkCount
<1>1. CASE Truncate
  <2>1. /\ pc' = "truncate" /\ count' = count /\ done' = 0 /\ table' = table /\ Idle
        /\ "TRUNCATE" \in Commands
    BY <1>1 DEF Truncate, BulkBegin
  <2>2. count = LiveCount(table) /\ count \in Int
    BY <2>1, CountIdle, CountTypes DEF CountInv
  <2>. QED
    BY <2>1, <2>2 DEF BulkCount, TruncateFlushed
<1>2. CASE TruncateSlot
  <2>1. PICK s \in LiveSlots(table) : table' = [table EXCEPT ![s] = Deleted]
    BY <1>2 DEF TruncateSlot
  <2>2. pc = "truncate" /\ pc' = pc /\ count' = count /\ done' = done + 1
    BY <1>2 DEF TruncateSlot
  <2>3. s \in Slots /\ Live(table[s])
    BY DEF LiveSlots
  <2>4. LiveCount(table') = LiveCount(table) - 1 /\ LiveCount(table) \in Nat
    <3>1. LiveCount(table') =
            LiveCount(table) + (IF Live(Deleted) THEN 1 ELSE 0) - (IF Live(table[s]) THEN 1 ELSE 0)
      BY <2>1, <2>3, CountOne, CountTypes
    <3>. QED
      BY <2>3, <3>1, NotLive, LiveCountType
  <2>5. count = LiveCount(table) + done /\ "power" \notin Faults
    BY <2>2 DEF CountInv, BulkCount
  <2>. QED
    BY <2>2, <2>4, <2>5, CountTypes DEF BulkCount
<1>3. CASE TruncateEnd
  <2>1. /\ pc = "truncate" /\ pc' = "bulk_close" /\ count' = count - done
        /\ UNCHANGED <<table, slots>> /\ LiveSlots(table) = {}
    BY <1>3 DEF TruncateEnd
  <2>2. undo = <<>> /\ UndoExact(undo, table, slots)
    BY <2>1 DEF TableInv, TxnPhases, TxnPcs, ReplayPcs, UndoHeld, Loaded
  <2>3. LiveCount(slots) = LiveCount(table) /\ LiveCount(table) = 0
    BY <2>1, <2>2, NothingUndone, SameContent, LiveSlotsFinite
  <2>4. count = LiveCount(table) + done /\ "power" \notin Faults
    BY <2>1 DEF CountInv, BulkCount
  <2>. QED
    BY <2>1, <2>3, <2>4, CountTypes DEF BulkCount
<1>4. CASE RestoreApply \/ BenchApply \/ BulkClear
  <2>1. pc' = "bulk_sync" /\ count' = LiveCount(slots')
    <3>1. CASE RestoreApply
      BY <3>1 DEF RestoreApply, ReplaceTable, CountInv, BackupCount
    <3>2. CASE BenchApply
      BY <3>2 DEF BenchApply, ReplaceTable
    <3>3. CASE BulkClear
      BY <3>3, CountNone DEF BulkClear, ReplaceTable
    <3>. QED
      BY <1>4, <3>1, <3>2, <3>3
  <2>. QED
    BY <2>1 DEF BulkCount
<1>5. CASE BulkSync \/ BulkClose
  BY <1>5 DEF BulkSync, BulkClose, Synced, CountInv, BulkCount
<1>6. CASE LoseBackup \/ LoseLog
  BY <1>6 DEF LoseBackup, LoseLog, CountInv, BulkCount
<1>7. CASE \/ (\E id \in Ids, v \in Vals : Insert(id, v) \/ Update(id, v))
           \/ (\E id \in Ids : Delete(id))
           \/ Begin \/ Commit \/ Rollback \/ TruncateInTxn \/ CaptureSlot \/ ClearInTxn
  <2>1. pc' \notin BulkPcs
    BY <1>7 DEF Insert, Update, Delete, Mutate, StartFlush, Begin, Commit, Rollback,
       TruncateInTxn, CaptureSlot, ClearInTxn
  <2>. QED
    BY <1>0, <2>1
<1>8. CASE \/ Restore \/ Bench \/ Backup \/ (\E s \in 0 .. MaxSeq : TrimBuild(s))
           \/ TxnStage \/ TxnWrite \/ WalCommit \/ CdcPublish \/ ApplySlot \/ PublishHeader
           \/ CheckpointSync \/ WalClear
  <2>1. pc' \notin BulkPcs
    BY <1>8 DEF Restore, Bench, BulkBegin, Backup, TrimBuild, TxnStage, TxnWrite, TxnOver,
       WalCommit, CdcPublish, ApplySlot, PublishHeader, CheckpointSync, WalClear
  <2>. QED
    BY <1>0, <2>1
<1>9. CASE \/ RestoreLost \/ (\E v \in Vals : BenchRow(v)) \/ BulkCloseSync \/ EmitReset
           \/ ClearReset \/ TrimSwap
  <2>1. pc' \notin BulkPcs
    BY <1>9 DEF RestoreLost, BenchRow, BulkCloseSync, EmitReset, ClearReset, TrimSwap
  <2>. QED
    BY <1>0, <2>1
<1>10. CASE \/ RecoverReset \/ CheckAligned \/ Open \/ WalRecover
            \/ Close \/ ProcessEnds \/ PowerLoss
  <2>1. pc' \notin BulkPcs
    BY <1>10 DEF RecoverReset, CheckAligned, Open, WalRecover, Close, ProcessEnds, PowerLoss,
       Forget
  <2>. QED
    BY <1>0, <2>1
<1>. QED
  BY <1>1, <1>2, <1>3, <1>4, <1>5, <1>6, <1>7, <1>8, <1>9, <1>10
  DEF Next, Command, Step, Environment

\* A loss of power where nothing was left to flush loses nothing, ...
LEMMA PowerAfterFlush ==
  ASSUME TypeOK, PowerLoss, slots = slots_safe
  PROVE  slots' = slots
<1>1. PICK kept \in SUBSET {s \in Slots : slots[s] # slots_safe[s]} :
        slots' = [s \in Slots |-> IF s \in kept THEN slots[s] ELSE slots_safe[s]]
  BY DEF PowerLoss
<1>2. slots' = [s \in Slots |-> slots[s]]
  BY <1>1
<1>. QED
  BY <1>2 DEF TypeOK, DatTypes, Tables

\* ... and during a commit nothing that the frame in the WAL does not bring back.
LEMMA PowerKeepsReplay ==
  ASSUME TypeOK, TableInv, PowerLoss, wal.marked
  PROVE  Replay(wal, slots') = Replay(wal, slots)
<1>1. PICK kept \in SUBSET {s \in Slots : slots[s] # slots_safe[s]} :
        slots' = [s \in Slots |-> IF s \in kept THEN slots[s] ELSE slots_safe[s]]
  BY DEF PowerLoss
<1>2. OneEach(wal.frame) /\ wal \in Wals
  BY CountTypes DEF TableInv, WalPhases
<1>3. CASE pc \in {"apply", "sync"}
  <2>1. \A s \in Slots : slots[s] = slots_safe[s] \/ s \in EntrySlots(wal.frame)
    BY <1>3 DEF TableInv, WalPhases, Written, ReplayPcs
  <2>2. \A s \in Slots : slots'[s] = slots[s] \/ s \in EntrySlots(wal.frame)
    BY <1>1, <2>1
  <2>. QED
    BY <1>2, <2>2, ReplayAgain
<1>4. CASE pc \notin {"apply", "sync"}
  <2>1. slots = slots_safe
    BY <1>4 DEF TableInv, WalPhases, ReplayPcs, Flushed, Writing
  <2>. QED
    BY <2>1, PowerAfterFlush
<1>. QED
  BY <1>3, <1>4

\* An image written over what its slot held is brought back either way.
LEMMA ApplyKeepsReplay ==
  ASSUME TypeOK, TableInv, ApplySlot
  PROVE  Replay(wal, slots') = Replay(wal, slots) /\ wal' = wal /\ wal.marked
<1>. DEFINE e == frame.entries[done + 1]
<1>1. /\ done < Len(frame.entries) /\ wal' = wal
      /\ slots' = [slots EXCEPT ![e.slot] = e.image]
  BY DEF ApplySlot, logVars
<1>2. OneEach(wal.frame) /\ wal \in Wals /\ wal.marked /\ wal.frame = frame
  BY CountTypes DEF ApplySlot, TableInv, WalPhases, ReplayPcs
<1>3. done + 1 \in 1 .. Len(frame.entries)
  BY <1>1, CountTypes
<1>4. e.slot \in EntrySlots(wal.frame)
  BY <1>2, <1>3 DEF EntrySlots
<1>5. \A s \in Slots : slots'[s] = slots[s] \/ s \in EntrySlots(wal.frame)
  BY <1>1, <1>4, CountTypes DEF Tables
<1>. QED
  BY <1>1, <1>2, <1>5, ReplayAgain

LEMMA CommittedCountStep ==
  ASSUME TypeOK, TableInv, CountInv, Next
  PROVE  CommittedCount'
<1>. USE DEF Ready, Idle, txnVars, bulkVars, memVars, logVars, datVars
<1>0. ASSUME wal' = wal, Replay(wal, slots') = Replay(wal, slots), pc' # "mark"
      PROVE  CommittedCount'
  BY <1>0 DEF CountInv, CommittedCount, Replayed
<1>1. CASE WalCommit
  <2>1. /\ pc = "mark" /\ wal'.marked /\ wal'.frame = wal.frame /\ slots' = slots
        /\ pc' = "publish" /\ ~opening /\ wal.frame = frame
    BY <1>1 DEF WalCommit, TableInv, TxnPhases, TxnPcs, WalPhases, ReplayPcs
  <2>2. FrameLeads(wal'.frame, table, slots) /\ OneEach(wal'.frame) /\ wal' \in Wals
    BY <1>1, <2>1, CountTypes, WalType DEF WalCommit, TableInv, FrameHeld, WalPhases, Wals
  <2>3. SameTables(Replay(wal', slots), table)
    BY <2>1, <2>2, ReplayLeads
  <2>4. wal'.frame.count = LiveCount(table)
    BY <2>1 DEF CountInv, CommittedCount
  <2>. QED
    BY <2>1, <2>3, <2>4, SameContent DEF CommittedCount, Replayed
<1>2. CASE TxnWrite
  <2>1. CASE frame.entries = <<>> /\ ~txn_reset
    BY <1>2, <2>1 DEF TxnWrite, TxnOver, NoWal, CommittedCount
  <2>2. CASE ~(frame.entries = <<>> /\ ~txn_reset)
    <3>1. ~wal'.marked /\ frame'.count = count /\ table' = table /\ pc = "stage"
      BY <1>2, <2>2 DEF TxnWrite, Frame
    <3>2. count - LiveCount(table) = hdr.count - LiveCount(slots) /\ hdr.count = LiveCount(slots)
      BY <3>1 DEF TableInv, CountMirrors, CountInv, HeaderCount
    <3>3. count = LiveCount(table)
      BY <3>2, CountTypes, LiveCountType
    <3>. QED
      BY <3>1, <3>3 DEF CommittedCount
  <2>. QED
    BY <2>1, <2>2
<1>3. CASE ApplySlot
  BY <1>0, <1>3, ApplyKeepsReplay DEF ApplySlot
<1>4. CASE PowerLoss
  <2>1. CASE wal.marked
    BY <1>0, <1>4, <2>1, PowerKeepsReplay DEF PowerLoss, Forget
  <2>2. CASE ~wal.marked
    BY <1>4, <2>2 DEF PowerLoss, Forget, CommittedCount
  <2>. QED
    BY <2>1, <2>2
<1>5. CASE \/ (\E id \in Ids, v \in Vals : Insert(id, v) \/ Update(id, v))
           \/ (\E id \in Ids : Delete(id))
           \/ Begin \/ Commit \/ TruncateInTxn \/ CaptureSlot \/ ClearInTxn \/ TxnStage
  <2>1. wal' = wal /\ slots' = slots /\ pc' # "mark"
    BY <1>5 DEF Insert, Update, Delete, Mutate, StartFlush, Begin, Commit,
       TruncateInTxn, CaptureSlot, ClearInTxn, TxnStage
  <2>. QED
    BY <1>0, <2>1
<1>6. CASE \/ Truncate \/ Restore \/ Bench \/ Backup \/ (\E s \in 0 .. MaxSeq : TrimBuild(s))
           \/ CdcPublish \/ PublishHeader \/ CheckpointSync
           \/ TruncateEnd \/ RestoreLost \/ (\E v \in Vals : BenchRow(v))
  <2>1. wal' = wal /\ slots' = slots /\ pc' # "mark"
    BY <1>6 DEF Truncate, Restore, Bench, BulkBegin, Backup, TrimBuild,
       CdcPublish, PublishHeader, CheckpointSync, TruncateEnd, RestoreLost, BenchRow
  <2>. QED
    BY <1>0, <2>1
<1>7. CASE \/ BulkSync \/ BulkClose \/ BulkCloseSync \/ EmitReset \/ ClearReset
           \/ TrimSwap \/ RecoverReset \/ CheckAligned \/ Open
           \/ Close \/ ProcessEnds
  <2>1. wal' = wal /\ slots' = slots /\ pc' # "mark"
    BY <1>7 DEF BulkSync, BulkClose, BulkCloseSync, EmitReset, ClearReset, TrimSwap,
       RecoverReset, CheckAligned, Open, Close, ProcessEnds, Forget
  <2>. QED
    BY <1>0, <2>1
<1>8. CASE LoseBackup \/ LoseLog
  BY <1>8 DEF LoseBackup, LoseLog, CountInv, CommittedCount, Replayed
<1>9. CASE Rollback \/ WalClear
  BY <1>9 DEF Rollback, WalClear, TxnOver, NoWal, CommittedCount
<1>10. CASE WalRecover
  <2>1. wal' = wal \/ ~wal'.marked
    BY <1>10 DEF WalRecover, NoWal
  <2>2. slots' = slots /\ pc' # "mark"
    BY <1>10 DEF WalRecover
  <2>. QED
    BY <1>0, <2>1, <2>2 DEF CommittedCount
<1>11. CASE TruncateSlot \/ RestoreApply \/ BenchApply \/ BulkClear
  <2>1. ~wal.marked
    BY <1>11 DEF TruncateSlot, RestoreApply, BenchApply, BulkClear, TableInv, WalPhases, ReplayPcs
  <2>2. wal' = wal /\ pc' # "mark"
    BY <1>11 DEF TruncateSlot, RestoreApply, BenchApply, BulkClear, ReplaceTable
  <2>. QED
    BY <2>1, <2>2 DEF CommittedCount
<1>. QED
  BY <1>1, <1>2, <1>3, <1>4, <1>5, <1>6, <1>7, <1>8, <1>9, <1>10, <1>11
  DEF Next, Command, Step, Environment

\* A carried out frame leaves the count it carries.
LEMMA CommitCounts ==
  ASSUME TypeOK, TableInv, CountInv, pc \in {"sync", "wal_clear"}
  PROVE  hdr.count = LiveCount(slots)
<1>1. /\ wal.marked /\ wal.frame = frame /\ OneEach(wal.frame) /\ ImagesIn(wal.frame, slots)
      /\ hdr.count = frame.count
  BY DEF TableInv, WalPhases, ReplayPcs, Written, HeaderMirrors
<1>2. Replay(wal, slots) = slots
  BY <1>1, CountTypes, ReplayWritten
<1>. QED
  BY <1>1, <1>2 DEF CountInv, CommittedCount, Replayed

LEMMA HeaderCountStep ==
  ASSUME TypeOK, TableInv, CountInv, TruncateFlushed, Next
  PROVE  HeaderCount'
<1>. USE DEF Ready, Idle, txnVars, bulkVars, memVars, logVars, datVars
<1>. DEFINE Counting == \/ pc \in {"ready", "capture", "stage", "mark", "trim"}
                        \/ pc = "restore" /\ ~opening
<1>old. /\ ~wal.marked /\ hdr.bulk = "NONE" => hdr.count = LiveCount(slots)
        /\ Counting => hdr.count = LiveCount(slots)
        /\ hdr.count \in 0 .. Capacity /\ hdr_safe.count \in 0 .. Capacity
  BY DEF CountInv, HeaderCount
<1>a. ASSUME UNCHANGED <<hdr, hdr_safe, slots>>, wal'.marked <=> wal.marked, Counting' => Counting
      PROVE  HeaderCount'
  BY <1>old, <1>a DEF HeaderCount
<1>b. ASSUME hdr'.count = LiveCount(slots'), hdr_safe' \in {hdr_safe, hdr'}
      PROVE  HeaderCount'
  BY <1>old, <1>b, LiveSlotsFinite DEF HeaderCount
<1>c. ASSUME hdr' \in {hdr, hdr_safe}, hdr_safe' = hdr', ~Counting',
             wal'.marked \/ hdr'.bulk # "NONE" \/ hdr'.count = LiveCount(slots')
      PROVE  HeaderCount'
  BY <1>old, <1>c DEF HeaderCount
<1>1. CASE \/ (\E id \in Ids, v \in Vals : Insert(id, v) \/ Update(id, v))
           \/ (\E id \in Ids : Delete(id))
           \/ Begin \/ Commit \/ TruncateInTxn \/ CaptureSlot \/ ClearInTxn \/ TxnStage
  <2>1. UNCHANGED <<hdr, hdr_safe, slots>> /\ wal' = wal /\ (Counting' => Counting)
    BY <1>1 DEF Insert, Update, Delete, Mutate, StartFlush, Begin, Commit,
       TruncateInTxn, CaptureSlot, ClearInTxn, TxnStage
  <2>. QED
    BY <1>a, <2>1
<1>2. CASE Rollback \/ TxnWrite
  <2>1. UNCHANGED <<hdr, hdr_safe, slots>> /\ Counting
    BY <1>2 DEF Rollback, TxnWrite
  <2>. QED
    BY <1>b, <1>old, <2>1
<1>3. CASE WalCommit \/ CdcPublish
  <2>1. UNCHANGED <<hdr, hdr_safe, slots>> /\ ~Counting' /\ wal'.marked
    <3>1. CASE WalCommit
      BY <3>1 DEF WalCommit
    <3>2. CASE CdcPublish
      BY <3>2 DEF CdcPublish, TableInv, WalPhases, ReplayPcs
    <3>. QED
      BY <1>3, <3>1, <3>2
  <2>. QED
    BY <1>old, <2>1 DEF HeaderCount
<1>4. CASE ApplySlot
  <2>1. UNCHANGED <<hdr, hdr_safe>> /\ ~Counting' /\ wal'.marked
    BY <1>4 DEF ApplySlot, TableInv, WalPhases, ReplayPcs
  <2>. QED
    BY <1>old, <2>1 DEF HeaderCount
<1>5. CASE PublishHeader
  <2>1. /\ hdr'.count = frame.count /\ hdr_safe' = hdr_safe /\ ~Counting' /\ wal' = wal
        /\ wal.marked /\ wal.frame = frame
    BY <1>5 DEF PublishHeader, Header, TableInv, WalPhases, ReplayPcs
  <2>2. hdr'.count \in 0 .. Capacity
    BY <2>1, LiveSlotsFinite DEF CountInv, CommittedCount
  <2>. QED
    BY <1>old, <2>1, <2>2 DEF HeaderCount
<1>6. CASE CheckpointSync \/ WalClear
  <2>1. /\ hdr' = hdr /\ slots' = slots /\ hdr_safe' \in {hdr_safe, hdr'}
        /\ pc \in {"sync", "wal_clear"}
    BY <1>6 DEF CheckpointSync, WalClear, Synced
  <2>. QED
    BY <1>b, <2>1, CommitCounts
<1>7. CASE Truncate \/ Restore \/ Bench
  <2>1. hdr'.count = count /\ slots' = slots /\ hdr_safe' = hdr' /\ Idle
    BY <1>7 DEF Truncate, Restore, Bench, BulkBegin, Synced, Header
  <2>. QED
    BY <1>b, <2>1, CountIdle DEF CountInv
<1>8. CASE \/ Backup \/ (\E s \in 0 .. MaxSeq : TrimBuild(s)) \/ RestoreLost \/ LoseBackup
           \/ LoseLog
  <2>1. UNCHANGED <<hdr, hdr_safe, slots>> /\ wal' = wal /\ (Counting' => Counting)
    BY <1>8 DEF Backup, TrimBuild, RestoreLost, LoseBackup, LoseLog
  <2>. QED
    BY <1>a, <2>1
<1>9. CASE \/ TruncateEnd \/ (\E v \in Vals : BenchRow(v)) \/ Open \/ RecoverReset \/ EmitReset
  <2>1. UNCHANGED <<hdr, hdr_safe, slots>> /\ wal' = wal /\ ~Counting'
    BY <1>9 DEF TruncateEnd, BenchRow, Open, RecoverReset, EmitReset
  <2>. QED
    BY <1>a, <2>1
<1>10. CASE TruncateSlot
  <2>1. UNCHANGED <<hdr, hdr_safe>> /\ ~Counting' /\ hdr.bulk # "NONE"
    BY <1>10 DEF TruncateSlot, CountInv, BulkAnnounced
  <2>. QED
    BY <1>old, <2>1 DEF HeaderCount
<1>11. CASE RestoreApply \/ BenchApply \/ BulkClear
  <2>1. hdr'.count = LiveCount(slots') /\ hdr_safe' = hdr_safe
    <3>1. CASE RestoreApply
      BY <3>1 DEF RestoreApply, ReplaceTable, Header, CountInv, BackupCount
    <3>2. CASE BenchApply
      BY <3>2 DEF BenchApply, ReplaceTable, Header
    <3>3. CASE BulkClear
      BY <3>3, CountNone DEF BulkClear, ReplaceTable, Header
    <3>. QED
      BY <1>11, <3>1, <3>2, <3>3
  <2>. QED
    BY <1>b, <2>1
<1>12. CASE BulkSync \/ BulkClose \/ BulkCloseSync
  <2>1. hdr'.count = LiveCount(slots') /\ hdr_safe' \in {hdr_safe, hdr'}
    <3>1. CASE BulkSync
      BY <3>1 DEF BulkSync, Synced, CountInv, BulkCount, TableInv, HeaderMirrors, Counted
    <3>2. CASE BulkClose
      BY <3>2 DEF BulkClose, Header, CountInv, BulkCount
    <3>3. CASE BulkCloseSync
      BY <3>3 DEF BulkCloseSync, Synced, CountInv, BulkCount, TableInv, HeaderMirrors, Counted
    <3>. QED
      BY <1>12, <3>1, <3>2, <3>3
  <2>. QED
    BY <1>b, <2>1
<1>13. CASE ClearReset
  <2>1. /\ hdr'.count = hdr.count /\ hdr'.bulk = hdr.bulk /\ hdr_safe' = hdr' /\ slots' = slots
        /\ wal' = wal /\ ~wal.marked
    BY <1>13 DEF ClearReset, Synced, Header, TableInv, HeaderMirrors, Counted, Running, WalPhases,
       ReplayPcs
  <2>2. Counting' => hdr.bulk = "NONE"
    BY <1>13 DEF ClearReset, CountInv, BulkAnnounced
  <2>. QED
    BY <1>old, <2>1, <2>2 DEF HeaderCount
<1>14. CASE TrimSwap
  <2>1. UNCHANGED <<hdr, hdr_safe, slots>> /\ wal' = wal /\ Counting
    BY <1>14 DEF TrimSwap
  <2>. QED
    BY <1>a, <2>1
<1>15. CASE CheckAligned
  <2>1. UNCHANGED <<hdr, hdr_safe, slots>> /\ wal' = wal /\ ~wal.marked /\ bulk_kind = hdr.bulk
    BY <1>15 DEF CheckAligned, TableInv, WalPhases, ReplayPcs, HeaderMirrors, Running
  <2>2. Counting' => hdr.bulk = "NONE"
    BY <1>15, <2>1 DEF CheckAligned
  <2>. QED
    BY <1>old, <2>1, <2>2 DEF HeaderCount
<1>16. CASE WalRecover
  <2>1. UNCHANGED <<hdr, hdr_safe, slots>> /\ (wal'.marked <=> wal.marked) /\ ~Counting'
    <3>1. CASE wal.marked
      BY <1>16, <3>1 DEF WalRecover
    <3>2. CASE ~wal.marked
      BY <1>16, <3>2 DEF WalRecover, NoWal
    <3>. QED
      BY <3>1, <3>2
  <2>. QED
    BY <1>a, <2>1
<1>17. CASE Close \/ ProcessEnds
  <2>1. hdr' = hdr /\ slots' = slots /\ hdr_safe' = hdr' /\ wal' = wal /\ ~Counting'
    BY <1>17 DEF Close, ProcessEnds, Synced, Forget
  <2>. QED
    BY <1>c, <1>old, <2>1
<1>18. CASE PowerLoss
  <2>1. /\ hdr' \in {hdr, hdr_safe} /\ hdr_safe' = hdr' /\ wal' = wal /\ ~Counting'
        /\ "power" \in Faults
    BY <1>18 DEF PowerLoss, Synced, Forget
  <2>2. wal'.marked \/ hdr'.bulk # "NONE" \/ hdr'.count = LiveCount(slots')
    <3>1. CASE pc \notin Writing
      <4>1. slots = slots_safe /\ hdr = hdr_safe
        BY <3>1 DEF TableInv, Flushed
      <4>2. slots' = slots
        BY <1>18, <4>1, PowerAfterFlush
      <4>. QED
        BY <1>old, <2>1, <4>1, <4>2
    <3>2. CASE pc \in {"apply", "sync"}
      BY <2>1, <3>2 DEF TableInv, WalPhases, ReplayPcs
    <3>3. CASE pc \in {"truncate", "bulk_sync", "bulk_close"}
      BY <2>1, <3>3 DEF CountInv, BulkCount, BulkAnnounced
    <3>4. CASE pc = "bulk_closed"
      <4>1. slots = slots_safe /\ hdr_safe.bulk # "NONE" /\ hdr.count = LiveCount(slots)
        BY <2>1, <3>4
        DEF CountInv, BulkCount, BulkAnnounced, TableInv, HeaderMirrors, Counted
      <4>2. slots' = slots
        BY <1>18, <4>1, PowerAfterFlush
      <4>. QED
        BY <2>1, <4>1, <4>2
    <3>. QED
      BY <3>1, <3>2, <3>3, <3>4 DEF Writing
  <2>. QED
    BY <1>c, <2>1, <2>2
<1>. QED
  BY <1>1, <1>2, <1>3, <1>4, <1>5, <1>6, <1>7, <1>8, <1>9, <1>10, <1>11, <1>12, <1>13,
     <1>14, <1>15, <1>16, <1>17, <1>18
  DEF Next, Command, Step, Environment

\* Under the one hypothesis of this part, every count is the number of rows it counts.
THEOREM CountCorrect ==
  ASSUME TruncateFlushed
  PROVE  Spec => []CountInv
<1>1. Init => CountInv
  BY CountInit
<1>2. TypeOK /\ TableInv /\ CountInv /\ [Next]_vars => CountInv'
  <2>1. ASSUME CountInv, UNCHANGED vars PROVE CountInv'
    BY <2>1
    DEF CountInv, CommittedCount, HeaderCount, BulkCount, BulkAnnounced, BackupCount, Replayed,
        vars, memVars, txnVars, bulkVars, logVars, datVars
  <2>2. ASSUME TypeOK, TableInv, CountInv, Next PROVE CountInv'
    <3>1. BulkAnnounced'
      BY <2>2, BulkAnnouncedStep DEF CountInv
    <3>2. CommittedCount' /\ BackupCount'
      BY <2>2, CommittedCountStep, BackupCountStep
    <3>3. HeaderCount' /\ BulkCount'
      BY <2>2, HeaderCountStep, BulkCountStep
    <3>. QED
      BY <3>1, <3>2, <3>3 DEF CountInv
  <2>. QED
    BY <2>1, <2>2
<1>. QED
  BY <1>1, <1>2, TypeCorrect, TableCorrect, PTL DEF Spec

\* Between commands the row count is the number of rows, after any crash in the middle
\* of a commit, of a whole-table operation and of an open.
THEOREM CountAtPrompt ==
  ASSUME TruncateFlushed
  PROVE  Spec => []CountExact
<1>1. ASSUME TypeOK, TableInv, CountInv PROVE CountExact
  BY <1>1, CountIdle DEF CountExact, CountInv
<1>. QED
  BY <1>1, TypeCorrect, TableCorrect, CountCorrect, PTL

\* ROLLBACK at any point of a transaction brings back the rows it started from: needs
\* no hypothesis at all ...
RollbackRows ==
  (Ready /\ in_txn) =>
    /\ Content(Undone(table, undo)) = Content(slots)
    /\ count_snap = hdr.count

THEOREM RollbackRestoresRows == Spec => []RollbackRows
<1>1. ASSUME TypeOK, TableInv PROVE RollbackRows
  <2>. SUFFICES ASSUME Ready, in_txn
                PROVE  Content(Undone(table, undo)) = Content(slots) /\ count_snap = hdr.count
    BY DEF RollbackRows
  <2>1. UndoExact(undo, table, slots)
    BY <1>1 DEF TableInv, UndoHeld, Loaded, Ready
  <2>2. SameTables(slots, Undone(table, undo))
    BY <1>1, <2>1, CountTypes, UndoneIsBefore
  <2>3. count_snap = hdr.count
    BY <1>1 DEF TableInv, HeaderMirrors, Ready
  <2>. QED
    BY <2>2, <2>3, SameContent
<1>. QED
  BY <1>1, TypeCorrect, TableCorrect, PTL

\* ... and their count with them.
THEOREM RollbackIsExact ==
  ASSUME TruncateFlushed
  PROVE  Spec => []RollbackExact
<1>1. ASSUME TypeOK, TableInv, CountInv, RollbackRows PROVE RollbackExact
  <2>. SUFFICES ASSUME Ready, in_txn
                PROVE  /\ Content(Undone(table, undo)) = Content(slots)
                       /\ count_snap = LiveCount(slots)
                       /\ count = LiveCount(table)
    BY DEF RollbackExact
  <2>1. hdr.count = LiveCount(slots)
    BY <1>1 DEF CountInv, HeaderCount, Ready
  <2>2. count - LiveCount(table) = hdr.count - LiveCount(slots)
    BY <1>1 DEF TableInv, CountMirrors, Ready
  <2>3. count = LiveCount(table)
    BY <1>1, <2>1, <2>2, CountTypes, LiveCountType
  <2>. QED
    BY <1>1, <2>1, <2>3 DEF RollbackRows
<1>. QED
  BY <1>1, TypeCorrect, TableCorrect, CountCorrect, RollbackRestoresRows, PTL

-----------------------------------------------------------------------------
(* The engine accepts whatever it leaves *)

\* Whatever crash and loss of power, no open, commit, RESET or CDCTRIM meets files that
\* the checks of the engine refuse, as long as the snapshot of an announced RESTORE is
\* not removed: the count of the header is in range because it counts the rows of a
\* table, the sequences because of what SeqInv says of them.
THEOREM OpenAlwaysAccepts ==
  ASSUME "nobackup" \notin Faults, TruncateFlushed
  PROVE  Spec => []NeverRefused
<1>1. Init => NeverRefused
  BY DEF Init, NeverRefused
<1>2. ASSUME TypeOK, SeqInv, CountInv, NeverRefused, Next PROVE NeverRefused'
  <2>. USE DEF NeverRefused, Ready, Idle, txnVars, bulkVars, memVars, logVars, datVars
  <2>0. NotRefusing
    BY <1>2, NothingToRefuse
  <2>1. CASE CdcPublish \/ EmitReset
    BY <2>0, <2>1 DEF CdcPublish, EmitReset, NotRefusing, Gate
  <2>2. CASE Open
    BY <1>2, <2>0, <2>2 DEF Open, NotRefusing, HeaderOk, CountInv, HeaderCount
  <2>3. CASE CheckAligned
    BY <2>0, <2>3 DEF CheckAligned, NotRefusing
  <2>4. CASE TrimSwap
    BY <1>2, <2>0, <2>4 DEF TrimSwap, NotRefusing
  <2>5. CASE RestoreLost
    BY <1>2, <2>5 DEF RestoreLost, SeqInv, SnapshotThere
  <2>6. CASE \/ (\E id \in Ids, v \in Vals : Insert(id, v) \/ Update(id, v))
             \/ (\E id \in Ids : Delete(id))
             \/ Begin \/ Commit \/ Rollback \/ TruncateInTxn \/ CaptureSlot \/ ClearInTxn
    BY <1>2, <2>6 DEF Insert, Update, Delete, Mutate, StartFlush, Begin, Commit, Rollback,
       TruncateInTxn, CaptureSlot, ClearInTxn
  <2>7. CASE \/ Truncate \/ Restore \/ Bench \/ Backup \/ (\E s \in 0 .. MaxSeq : TrimBuild(s))
             \/ WalCommit \/ ApplySlot \/ PublishHeader \/ CheckpointSync
    BY <1>2, <2>7 DEF Truncate, Restore, Bench, BulkBegin, Backup, TrimBuild, WalCommit,
       ApplySlot, PublishHeader, CheckpointSync
  <2>8. CASE \/ TxnStage \/ TxnWrite \/ WalClear \/ TruncateSlot \/ TruncateEnd \/ RestoreApply
             \/ (\E v \in Vals : BenchRow(v)) \/ BenchApply \/ BulkSync \/ BulkClose
    BY <1>2, <2>8 DEF TxnStage, TxnWrite, TxnOver, WalClear, TruncateSlot, TruncateEnd,
       RestoreApply, BenchRow, BenchApply, ReplaceTable, BulkSync, BulkClose
  <2>9. CASE \/ BulkCloseSync \/ ClearReset \/ RecoverReset \/ BulkClear \/ WalRecover
             \/ Close \/ ProcessEnds \/ PowerLoss \/ LoseBackup \/ LoseLog
    BY <1>2, <2>9 DEF BulkCloseSync, ClearReset, RecoverReset, BulkClear, ReplaceTable,
       WalRecover, Close, ProcessEnds, PowerLoss, Forget, LoseBackup, LoseLog
  <2>. QED
    BY <1>2, <2>1, <2>2, <2>3, <2>4, <2>5, <2>6, <2>7, <2>8, <2>9
    DEF Next, Command, Step, Environment
<1>3. TypeOK /\ SeqInv /\ CountInv /\ NeverRefused /\ [Next]_vars => NeverRefused'
  BY <1>2 DEF NeverRefused, vars
<1>. QED
  BY <1>1, <1>3, TypeCorrect, SeqCorrect, CountCorrect, PTL DEF Spec

-----------------------------------------------------------------------------
(* Room in the table: store_locate gives an insert a slot as long as one is free *)

\* Every slot is on the way of every probe.
LEMMA ProbeReaches ==
  ASSUME NEW id \in Ids, NEW s \in Slots
  PROVE  \E k \in Slots : ProbeSlot(id, k) = s
<1>. DEFINE h == Home[id]
<1>1. h \in Slots /\ Capacity \in Nat \ {0}
  BY HomeAssumption, CapacityAssumption
<1>2. CASE s >= h
  <2>1. s - h \in Slots /\ (h + (s - h)) = s /\ s % Capacity = s
    BY <1>1, <1>2 DEF Slots
  <2>. QED
    BY <2>1 DEF ProbeSlot
<1>3. CASE s < h
  <2>. DEFINE k == s - h + Capacity
  <2>1. k \in Slots /\ h + k = s + Capacity
    BY <1>1, <1>3 DEF Slots
  <2>2. (s + Capacity) % Capacity = s
    BY <1>1 DEF Slots
  <2>. QED
    BY <2>1, <2>2 DEF ProbeSlot
<1>. QED
  BY <1>1, <1>2, <1>3 DEF Slots

\* A row that is not there has room in a table that is not full.
LEMMA RoomLeft ==
  ASSUME NEW t, NEW id \in Ids, LiveSlots(t) # Slots,
         \A s \in Slots : ~Holds(t[s], id)
  PROVE  HasRoom(t, id)
<1>. DEFINE Free == {k \in Slots : ~Live(t[ProbeSlot(id, k)])}
            less == OpToRel(<, Nat)
<1>1. PICK s \in Slots : ~Live(t[s])
  BY DEF LiveSlots
<1>2. PICK k \in Slots : ProbeSlot(id, k) = s
  BY ProbeReaches
<1>3. Free \subseteq Nat /\ Free # {}
  BY <1>1, <1>2, CapacityAssumption DEF Slots
<1>4. PICK j \in Free : \A i \in Free : ~(<<i, j>> \in less)
  BY <1>3, NatLessThanWellFounded, WFMin, Zenon
<1>5. Slots \subseteq Nat
  BY CapacityAssumption DEF Slots
<1>a. j \in Nat /\ j \in Slots
  BY <1>3, <1>4, <1>5
<1>. HIDE DEF Free
<1>6. \A i \in Free : ~(i < j)
  BY <1>3, <1>4, <1>5 DEF OpToRel
<1>. USE DEF Free
<1>7. \A i \in 0 .. j - 1 : i \in Slots /\ Live(t[ProbeSlot(id, i)])
  BY <1>5, <1>6, CapacityAssumption DEF Slots
<1>8. \A i \in 0 .. j - 1 : ~ProbeEnds(t, id, i)
  BY <1>7, ProbeInTable, NotLive DEF ProbeEnds
<1>9. j \in FreeSteps(t, id)
  BY <1>4, <1>8 DEF FreeSteps, Visited
<1>. QED
  BY <1>9 DEF HasRoom

\* cmd_bench .loop: one more row in a table of n rows.
IdsOf(t) == {r.id : r \in RowsOf(t)}
Numbered(t, n) == IdsOf(t) = 1 .. n /\ LiveCount(t) = n

LEMMA NumberedNone == Numbered(EmptyTable, 0) /\ \A t : Numbered(Cleared(t), 0)
BY CountNone DEF Numbered, IdsOf, RowsOf

LEMMA NumberedNext ==
  ASSUME NEW t \in Tables, NEW n \in Nat, NEW v, n + 1 \in Ids, n < Capacity, Numbered(t, n)
  PROVE  /\ HasRoom(t, n + 1)
         /\ Numbered([t EXCEPT ![InsertSlot(t, n + 1)] = Row(n + 1, v)], n + 1)
<1>. DEFINE id == n + 1
            s == InsertSlot(t, id)
            w == [t EXCEPT ![s] = Row(id, v)]
<1>1. \A o \in Slots : Live(t[o]) => t[o].id \in 1 .. n
  BY DEF Numbered, IdsOf, RowsOf, LiveSlots
<1>2. LiveSlots(t) # Slots
  BY SlotsFinite, CapacityAssumption DEF Numbered, LiveCount
<1>3. HasRoom(t, id)
  BY <1>1, <1>2, RoomLeft DEF Holds
<1>4. s \in Slots /\ ~Live(t[s])
  BY <1>3, SlotsMeant, InsertSlotInTable
<1>5. Live(Row(id, v)) /\ Row(id, v).id = id
  BY DEF Live, Row
<1>. HIDE DEF id, s
<1>6. \A o \in Slots : w[o] = IF o = s THEN Row(id, v) ELSE t[o]
  BY DEF Tables
<1>7. LiveCount(w) = n + 1
  BY <1>4, <1>5, CountOne DEF Numbered
<1>. HIDE DEF w
<1>8. IdsOf(w) = IdsOf(t) \cup {id}
  <2>1. LiveSlots(w) = LiveSlots(t) \cup {s}
    BY <1>4, <1>5, <1>6 DEF LiveSlots
  <2>2. \A o \in LiveSlots(t) : w[o] = t[o]
    BY <1>4, <1>6 DEF LiveSlots
  <2>3. RowsOf(w) = RowsOf(t) \cup {Row(id, v)}
    BY <1>4, <1>6, <2>1, <2>2 DEF RowsOf
  <2>. QED
    <3>1. \A r : r \in RowsOf(w) <=> r \in RowsOf(t) \/ r = Row(id, v)
      BY <2>3
    <3>. QED
      BY <1>5, <3>1 DEF IdsOf
<1>9. IdsOf(w) = 1 .. n + 1
  <2>1. IdsOf(t) = 1 .. n
    BY DEF Numbered
  <2>. QED
    BY <1>8, <2>1 DEF id
<1>. QED
  BY <1>3, <1>7, <1>9 DEF Numbered, id, s, w

-----------------------------------------------------------------------------
(* Which steps write which file *)

\* The change log is written by a commit, a RESET, CDCTRIM, an open and the operator; the
\* header by a commit, a whole-table operation and a RESET; the slots by the first two.
LEMMA Writers ==
  ASSUME Next
  PROVE  /\ cdc' = cdc \/ CdcPublish \/ EmitReset \/ TrimSwap \/ Open \/ LoseLog
         /\ cdc_part' = cdc_part \/ TrimSwap \/ \E s \in 0 .. MaxSeq : TrimBuild(s)
         /\ \/ wal' = wal \/ Rollback \/ TxnWrite \/ WalCommit \/ WalClear \/ WalRecover
         /\ \/ hdr' = hdr \/ PublishHeader \/ Truncate \/ Restore \/ Bench \/ RestoreApply
            \/ BenchApply \/ BulkClear \/ BulkClose \/ ClearReset \/ PowerLoss
         /\ \/ slots' = slots \/ ApplySlot \/ TruncateSlot \/ RestoreApply \/ BenchApply
            \/ BulkClear \/ PowerLoss
         /\ \/ hdr_safe' = hdr_safe /\ slots_safe' = slots_safe
            \/ hdr_safe' = hdr' /\ slots_safe' = slots'
<1>. USE DEF Ready, Idle, memVars, txnVars, bulkVars, logVars, datVars
<1>1. CASE \/ (\E id \in Ids, v \in Vals : Insert(id, v) \/ Update(id, v))
           \/ (\E id \in Ids : Delete(id)) \/ Begin \/ Commit
  BY <1>1 DEF Insert, Update, Delete, Mutate, Begin, Commit
<1>2. CASE Rollback \/ TruncateInTxn \/ CaptureSlot \/ ClearInTxn \/ TxnStage \/ TxnWrite
  BY <1>2 DEF Rollback, TruncateInTxn, CaptureSlot, ClearInTxn, TxnStage, TxnWrite
<1>3. CASE WalCommit \/ CdcPublish \/ ApplySlot \/ PublishHeader \/ CheckpointSync \/ WalClear
  BY <1>3 DEF WalCommit, CdcPublish, ApplySlot, PublishHeader, CheckpointSync, Synced, WalClear
<1>4. CASE Truncate \/ Restore \/ Bench
  BY <1>4 DEF Truncate, Restore, Bench, BulkBegin, Synced
<1>5. CASE RestoreApply \/ BenchApply \/ BulkClear
  BY <1>5 DEF RestoreApply, BenchApply, BulkClear, ReplaceTable
<1>6. CASE TruncateSlot \/ TruncateEnd \/ RestoreLost \/ \E v \in Vals : BenchRow(v)
  BY <1>6 DEF TruncateSlot, TruncateEnd, RestoreLost, BenchRow
<1>7. CASE BulkSync \/ BulkClose \/ BulkCloseSync \/ EmitReset \/ ClearReset
  BY <1>7 DEF BulkSync, BulkClose, BulkCloseSync, EmitReset, ClearReset, Synced
<1>8. CASE WalRecover \/ RecoverReset \/ CheckAligned \/ Open
  BY <1>8 DEF WalRecover, RecoverReset, CheckAligned, Open
<1>9. CASE TrimSwap \/ Backup \/ \E s \in 0 .. MaxSeq : TrimBuild(s)
  BY <1>9 DEF TrimSwap, Backup, TrimBuild
<1>10. CASE Close \/ ProcessEnds \/ PowerLoss
  BY <1>10 DEF Close, ProcessEnds, PowerLoss, Forget, Synced
<1>11. CASE LoseBackup \/ LoseLog
  BY <1>11 DEF LoseBackup, LoseLog
<1>. QED
  BY <1>1, <1>2, <1>3, <1>4, <1>5, <1>6, <1>7, <1>8, <1>9, <1>10, <1>11
  DEF Next, Command, Step, Environment

-----------------------------------------------------------------------------
(* The refinement of ChangeStore: a whole-table operation is announced from its  *)
(* first write to its last, and what it has written when it is closed is one of  *)
(* its end states                                                                 *)

\* Which whole-table operation is announced where.
BulkPhases ==
  /\ pc # "bulk_closed" => hdr.bulk = hdr_safe.bulk
  /\ wal.marked \/ pc \in TxnPcs \cup {"trim"} => hdr.bulk = "NONE"
  /\ pc = "truncate" => hdr.bulk = "TRUNCATE"
  /\ pc = "restore" => hdr.bulk = "RESTORE"
  /\ pc = "bench" => hdr.bulk = "BENCH"
  /\ pc = "bulk_clear" => hdr.bulk \in {"TRUNCATE", "BENCH"}

\* The operator leaves the log where it is.
LogKept == cdc.there

\* BENCH has inserted the rows 1 .. done.
BenchTable == pc = "bench" /\ done > 0 => Numbered(table, done)

\* The rows that a whole-table operation leaves are written before it is closed.
GoalReached == pc \in {"bulk_sync", "bulk_close", "bulk_closed"} => Content(slots) \in Goals

BulkInv == BulkPhases /\ LogKept /\ BenchTable /\ GoalReached

LEMMA BulkPhasesStep ==
  ASSUME TypeOK, SeqInv, TableInv, BulkAnnounced, BulkPhases, Next, "nobackup" \notin Faults
  PROVE  BulkPhases'
<1>. USE DEF BulkPhases, TxnPcs, Ready, Idle, Header, txnVars, bulkVars, memVars, logVars, datVars
<1>1. CASE \/ (\E id \in Ids, v \in Vals : Insert(id, v) \/ Update(id, v))
           \/ (\E id \in Ids : Delete(id))
           \/ Begin \/ Commit \/ TruncateInTxn \/ CaptureSlot \/ ClearInTxn
  BY <1>1 DEF Insert, Update, Delete, Mutate, StartFlush, Begin, Commit, TruncateInTxn,
     CaptureSlot, ClearInTxn
<1>2. CASE Rollback \/ TxnStage \/ TxnWrite \/ WalCommit
  BY <1>2 DEF Rollback, NoWal, TxnStage, TxnWrite, TxnOver, WalCommit
<1>3. CASE CdcPublish \/ ApplySlot \/ CheckpointSync
  BY <1>3 DEF CdcPublish, Appended, ApplySlot, CheckpointSync, Synced, TableInv, WalPhases,
     ReplayPcs
<1>4. CASE PublishHeader \/ ClearReset
  <2>1. bulk_kind = hdr.bulk
    BY <1>4 DEF PublishHeader, ClearReset, TableInv, HeaderMirrors, Running
  <2>. QED
    BY <1>4, <2>1 DEF PublishHeader, ClearReset, Synced, BulkAnnounced
<1>5. CASE WalClear
  BY <1>5 DEF WalClear, NoWal, TxnOver, TableInv, WalPhases, ReplayPcs
<1>6. CASE Truncate \/ Restore \/ Bench
  BY <1>6 DEF Truncate, Restore, Bench, BulkBegin, Synced, TableInv, WalPhases, ReplayPcs
<1>7. CASE Backup \/ \E s \in 0 .. MaxSeq : TrimBuild(s)
  BY <1>7 DEF Backup, TrimBuild
<1>8. CASE TruncateSlot \/ TruncateEnd \/ \E v \in Vals : BenchRow(v)
  BY <1>8 DEF TruncateSlot, TruncateEnd, BenchRow
<1>9. CASE RestoreApply \/ BenchApply \/ BulkClear
  <2>1. bulk_kind = hdr.bulk
    BY <1>9 DEF RestoreApply, BenchApply, BulkClear, TableInv, HeaderMirrors, Running
  <2>. QED
    BY <1>9, <2>1 DEF RestoreApply, BenchApply, BulkClear, ReplaceTable
<1>10. CASE RestoreLost
  BY <1>10 DEF RestoreLost, SeqInv, SnapshotThere
<1>11. CASE BulkSync \/ BulkClose \/ BulkCloseSync \/ EmitReset
  BY <1>11 DEF BulkSync, BulkClose, BulkCloseSync, EmitReset, Appended, Synced, TableInv,
     WalPhases, ReplayPcs, BulkAnnounced
<1>12. CASE TrimSwap
  BY <1>12 DEF TrimSwap
<1>13. CASE RecoverReset \/ WalRecover
  BY <1>13 DEF RecoverReset, WalRecover, NoWal
<1>14. CASE Open
  BY <1>14 DEF Open
<1>15. CASE CheckAligned
  <2>1. bulk_kind = hdr.bulk /\ hdr.bulk \in BulkKinds \cup {"NONE"}
    BY <1>15 DEF CheckAligned, TableInv, HeaderMirrors, Running, TypeOK, DatTypes, Headers
  <2>. QED
    BY <1>15, <2>1 DEF CheckAligned, BulkKinds
<1>16. CASE Close \/ ProcessEnds \/ PowerLoss
  BY <1>16 DEF Close, ProcessEnds, PowerLoss, Forget, Synced, TableInv, WalPhases, ReplayPcs
<1>17. CASE LoseBackup \/ LoseLog
  BY <1>17 DEF LoseBackup, LoseLog
<1>. QED
  BY <1>1, <1>2, <1>3, <1>4, <1>5, <1>6, <1>7, <1>8, <1>9, <1>10, <1>11, <1>12, <1>13, <1>14,
     <1>15, <1>16, <1>17
  DEF Next, Command, Step, Environment

LEMMA LogKeptStep ==
  ASSUME SeqInv, LogKept, Next, "nolog" \notin Faults
  PROVE  LogKept'
<1>. USE DEF LogKept
<1>1. CASE cdc' = cdc
  BY <1>1
<1>2. CASE cdc' # cdc
  <2>1. CdcPublish \/ EmitReset \/ TrimSwap \/ Open
    BY <1>2, Writers DEF LoseLog
  <2>. QED
    BY <2>1 DEF CdcPublish, EmitReset, Appended, TrimSwap, SeqInv, TrimReady, Open, NewLog
<1>. QED
  BY <1>1, <1>2

LEMMA BenchTableStep ==
  ASSUME TypeOK, BenchTable, Next
  PROVE  BenchTable'
<1>. USE DEF Ready, Idle, txnVars, bulkVars, memVars, logVars, datVars
<1>0. ASSUME pc' # "bench" PROVE BenchTable'
  BY <1>0 DEF BenchTable
<1>1. ASSUME NEW v \in Vals, BenchRow(v) PROVE BenchTable'
  <2>. DEFINE t == IF done = 0 THEN EmptyTable ELSE table
  <2>1. /\ pc = "bench" /\ done + 1 \in Ids /\ done < 3 * (Capacity \div 4) /\ done' = done + 1
        /\ table' = IF HasRoom(t, done + 1)
                      THEN [t EXCEPT ![InsertSlot(t, done + 1)] = Row(done + 1, v)] ELSE t
    BY <1>1 DEF BenchRow
  <2>2. done \in Nat /\ done < Capacity /\ t \in Tables
    BY <2>1, CountTypes, EmptyTableType, CapacityAssumption
  <2>3. Numbered(t, done)
    BY <2>1, <2>2, NumberedNone DEF BenchTable
  <2>. HIDE DEF t
  <2>4. Numbered(table', done')
    BY <2>1, <2>2, <2>3, NumberedNext
  <2>. QED
    BY <2>4 DEF BenchTable
<1>2. CASE Bench
  BY <1>2 DEF Bench, BulkBegin, BenchTable
<1>3. CASE LoseBackup \/ LoseLog
  BY <1>3 DEF LoseBackup, LoseLog, BenchTable
<1>4. CASE \/ (\E id \in Ids, v \in Vals : Insert(id, v) \/ Update(id, v))
           \/ (\E id \in Ids : Delete(id))
           \/ Begin \/ Commit \/ Rollback \/ TruncateInTxn \/ CaptureSlot \/ ClearInTxn
  BY <1>0, <1>4 DEF Insert, Update, Delete, Mutate, StartFlush, Begin, Commit, Rollback,
     TruncateInTxn, CaptureSlot, ClearInTxn
<1>5. CASE \/ Truncate \/ Restore \/ Backup \/ (\E s \in 0 .. MaxSeq : TrimBuild(s))
           \/ TxnStage \/ TxnWrite \/ WalCommit \/ CdcPublish \/ ApplySlot \/ PublishHeader
           \/ CheckpointSync \/ WalClear
  BY <1>0, <1>5 DEF Truncate, Restore, BulkBegin, Backup, TrimBuild, TxnStage, TxnWrite,
     TxnOver, WalCommit, CdcPublish, ApplySlot, PublishHeader, CheckpointSync, WalClear
<1>6. CASE \/ TruncateSlot \/ TruncateEnd \/ RestoreApply \/ RestoreLost \/ BenchApply
           \/ BulkSync \/ BulkClose \/ BulkCloseSync \/ EmitReset \/ ClearReset \/ TrimSwap
  BY <1>0, <1>6 DEF TruncateSlot, TruncateEnd, RestoreApply, RestoreLost, BenchApply,
     ReplaceTable, BulkSync, BulkClose, BulkCloseSync, EmitReset, ClearReset, TrimSwap
<1>7. CASE \/ RecoverReset \/ CheckAligned \/ Open \/ WalRecover \/ BulkClear
           \/ Close \/ ProcessEnds \/ PowerLoss
  BY <1>0, <1>7 DEF RecoverReset, CheckAligned, Open, WalRecover, BulkClear, ReplaceTable,
     Close, ProcessEnds, PowerLoss, Forget
<1>. QED
  BY <1>1, <1>2, <1>3, <1>4, <1>5, <1>6, <1>7
  DEF Next, Command, Step, Environment

\* Contents are the tables without their tombstones.
LEMMA ContentType ==
  ASSUME NEW t \in Tables
  PROVE  Content(t) \in Contents /\ Content(t) # <<>>
<1>1. \A s \in Slots : (IF Live(t[s]) THEN t[s] ELSE Empty) \in Rows \cup {Empty}
  BY LiveType DEF Tables
<1>2. Content(t) \in Contents
  BY <1>1 DEF Content, Contents
<1>3. 0 \in Slots /\ DOMAIN Content(t) = Slots /\ DOMAIN <<>> = {}
  BY CapacityAssumption DEF Slots, Content
<1>4. Content(t) # <<>>
  BY <1>3, Zenon
<1>. QED
  BY <1>2, <1>4

LEMMA NoRows ==
  ASSUME NEW t, LiveSlots(t) = {}
  PROVE  Content(t) = EmptyTable
BY DEF LiveSlots, Content, EmptyTable

LEMMA BenchGoal ==
  ASSUME NEW t \in Tables, NEW n \in Nat, Numbered(t, n)
  PROVE  Content(t) \in BenchContents
<1>. DEFINE c == Content(t)
<1>1. SameTables(c, t)
  BY NotLive DEF SameTables, Same, SlotChanged, Content
<1>2. LiveCount(c) = LiveCount(t) /\ LiveSlots(c) = LiveSlots(t)
  BY <1>1, SameContent
<1>3. \A s \in LiveSlots(t) : c[s] = t[s]
  BY DEF LiveSlots, Content
<1>4. RowsOf(c) = RowsOf(t)
  BY <1>2, <1>3 DEF RowsOf
<1>5. n \in 0 .. Capacity
  BY LiveSlotsFinite DEF Numbered
<1>. HIDE DEF c
<1>6. {r.id : r \in RowsOf(c)} = 1 .. n /\ LiveCount(c) = n
  BY <1>2, <1>4 DEF Numbered, IdsOf
<1>. QED
  BY <1>5, <1>6, ContentType DEF BenchContents, c

LEMMA GoalReachedStep ==
  ASSUME TypeOK, TableInv, BulkAnnounced, SeqInv, BulkInv, Next,
         "nobackup" \notin Faults, "nolog" \notin Faults
  PROVE  GoalReached'
<1>. USE DEF Ready, Idle, txnVars, bulkVars, memVars, logVars, datVars
<1>0. ASSUME pc' \notin {"bulk_sync", "bulk_close", "bulk_closed"} PROVE GoalReached'
  BY <1>0 DEF GoalReached
<1>a. ASSUME Bulk' = Bulk, backup' = backup PROVE Goals' = Goals
  BY <1>a DEF Goals
<1>1. CASE TruncateEnd
  <2>1. /\ pc = "truncate" /\ UNCHANGED <<hdr, hdr_safe, slots>> /\ LiveSlots(table) = {}
    BY <1>1 DEF TruncateEnd
  <2>2. Bulk' = "TRUNCATE"
    BY <2>1 DEF Bulk, BulkInv, BulkPhases
  <2>3. undo = <<>> /\ UndoExact(undo, table, slots)
    BY <2>1 DEF TableInv, TxnPhases, TxnPcs, ReplayPcs, UndoHeld, Loaded
  <2>4. Content(slots') = EmptyTable
    BY <2>1, <2>3, NothingUndone, SameContent, NoRows
  <2>. QED
    BY <2>2, <2>4 DEF GoalReached, Goals
<1>2. CASE RestoreApply
  <2>1. pc = "restore" /\ slots' = backup.slots /\ UNCHANGED <<backup, hdr_safe>>
    BY <1>2 DEF RestoreApply, ReplaceTable
  <2>2. Bulk' = "RESTORE"
    BY <2>1 DEF Bulk, BulkInv, BulkPhases
  <2>. QED
    BY <2>1, <2>2 DEF GoalReached, Goals
<1>3. CASE BenchApply
  <2>1. pc = "bench" /\ done > 0 /\ slots' = table /\ UNCHANGED hdr_safe
    BY <1>3 DEF BenchApply, ReplaceTable
  <2>2. Bulk' = "BENCH"
    BY <2>1 DEF Bulk, BulkInv, BulkPhases
  <2>3. Content(slots') \in BenchContents
    BY <2>1, BenchGoal, CountTypes DEF BulkInv, BenchTable
  <2>. QED
    BY <2>2, <2>3 DEF GoalReached, Goals
<1>4. CASE BulkClear
  <2>1. pc = "bulk_clear" /\ slots' = Cleared(table) /\ UNCHANGED hdr_safe
    BY <1>4 DEF BulkClear, ReplaceTable
  <2>2. Bulk' \in {"TRUNCATE", "BENCH"}
    BY <2>1 DEF Bulk, BulkInv, BulkPhases
  <2>3. Content(slots') = EmptyTable
    BY <2>1, CountNone, NoRows
  <2>4. Content(slots') \in BenchContents
    BY <2>1, CountTypes, ClearedType, NumberedNone, BenchGoal
  <2>. QED
    BY <2>2, <2>3, <2>4 DEF GoalReached, Goals
<1>5. CASE BulkSync \/ BulkClose
  <2>1. Bulk' = Bulk /\ backup' = backup /\ slots' = slots /\ pc \in {"bulk_sync", "bulk_close"}
    BY <1>5 DEF BulkSync, BulkClose, Synced, Bulk, Header, BulkInv, BulkPhases, BulkAnnounced
  <2>. QED
    BY <1>a, <2>1 DEF GoalReached, BulkInv
<1>6. CASE LoseBackup \/ LoseLog
  BY <1>6 DEF LoseBackup, LoseLog
<1>7. CASE \/ (\E id \in Ids, v \in Vals : Insert(id, v) \/ Update(id, v))
           \/ (\E id \in Ids : Delete(id))
           \/ Begin \/ Commit \/ Rollback \/ TruncateInTxn \/ CaptureSlot \/ ClearInTxn
  BY <1>0, <1>7 DEF Insert, Update, Delete, Mutate, StartFlush, Begin, Commit, Rollback,
     TruncateInTxn, CaptureSlot, ClearInTxn
<1>8. CASE \/ Truncate \/ Restore \/ Bench \/ Backup \/ (\E s \in 0 .. MaxSeq : TrimBuild(s))
           \/ TxnStage \/ TxnWrite \/ WalCommit \/ CdcPublish \/ ApplySlot \/ PublishHeader
           \/ CheckpointSync \/ WalClear
  BY <1>0, <1>8 DEF Truncate, Restore, Bench, BulkBegin, Backup, TrimBuild, TxnStage, TxnWrite,
     TxnOver, WalCommit, CdcPublish, ApplySlot, PublishHeader, CheckpointSync, WalClear
<1>9. CASE \/ TruncateSlot \/ RestoreLost \/ (\E v \in Vals : BenchRow(v)) \/ BulkCloseSync
           \/ EmitReset \/ ClearReset \/ TrimSwap
  BY <1>0, <1>9 DEF TruncateSlot, RestoreLost, BenchRow, BulkCloseSync, EmitReset, ClearReset,
     TrimSwap
<1>10. CASE \/ RecoverReset \/ CheckAligned \/ Open \/ WalRecover
            \/ Close \/ ProcessEnds \/ PowerLoss
  BY <1>0, <1>10 DEF RecoverReset, CheckAligned, Open, WalRecover, Close, ProcessEnds,
     PowerLoss, Forget
<1>. QED
  BY <1>1, <1>2, <1>3, <1>4, <1>5, <1>6, <1>7, <1>8, <1>9, <1>10
  DEF Next, Command, Step, Environment

-----------------------------------------------------------------------------
(* Every step is one of ChangeStore, or none *)

EngineInv == TypeOK /\ SeqInv /\ TableInv /\ CountInv /\ BulkInv

\* A step inside a session, of which the promise says nothing.
LEMMA NothingVisible ==
  ASSUME TypeOK', Bulk' = Bulk, Goals' = Goals, DurableTable' = DurableTable,
         ResetOwed' = ResetOwed, LastChange' = LastChange,
         SessionTable = <<>> => SessionTable' = <<>>
  PROVE  [Abs!Next]_Abs!vars
<1>1. SessionTable' \in Contents \cup {<<>>}
  <2>1. table' \in Tables
    BY DEF TypeOK, MemoryTypes
  <2>. QED
    BY <2>1, ContentType DEF SessionTable
<1>2. CASE SessionTable = <<>>
  BY <1>2 DEF Abs!vars
<1>3. CASE SessionTable # <<>>
  <2>1. Abs!Work
    BY <1>1, <1>3 DEF Abs!Work
  <2>. QED
    BY <2>1 DEF Abs!Next
<1>. QED
  BY <1>2, <1>3

LEMMA AbsInit ==
  ASSUME Init
  PROVE  Abs!Init
<1>1. /\ Bulk = "NONE" /\ ~wal.marked /\ slots \in Tables /\ LastSeq(cdc) = 0 /\ hdr.pend = 0
      /\ pc = "down"
  BY DenseNew, EmptyTableType DEF Init, Bulk, Header, NoWal
<1>2. Replayed = slots
  BY <1>1, ReplayUnmarked DEF Replayed
<1>. QED
  BY <1>1, <1>2, ContentType
  DEF Abs!Init, DurableTable, SessionTable, Goals, ResetOwed, LastChange

\* What a marker in the WAL and an owed RESET exclude.
LEMMA WhatIsOwed ==
  ASSUME EngineInv
  PROVE  /\ wal.marked => hdr.pend = 0
         /\ ~wal.marked /\ hdr.pend = 0 => LastSeq(cdc) = hdr.seq
         /\ ~wal.marked /\ hdr.pend = 1 => LastSeq(cdc) \in {hdr.seq, hdr.seq + 1}
         /\ hdr.pend = 1 => hdr.seq = hdr_safe.seq /\ hdr.rseq = hdr.seq + 1
         /\ hdr.seq \in Nat /\ LastSeq(cdc) \in Nat /\ hdr.pend \in {0, 1}
BY SeqTypes
DEF EngineInv, SeqInv, HeadersAgree, LogStanding, CommitPending, ResetPending, Settled, LogEnd,
    CommitPhases, ResetStateOk, BulkInv, BulkPhases, LogKept

LEMMA CommitRefines ==
  ASSUME EngineInv, WalCommit
  PROVE  Abs!Commit
<1>1. /\ pc = "mark" /\ wal' = [marked |-> TRUE, frame |-> wal.frame] /\ pc' = "publish"
      /\ UNCHANGED <<opening, table, cdc, hdr, hdr_safe, slots, backup>>
  BY DEF WalCommit, memVars, datVars
<1>2. /\ ~wal.marked /\ wal.frame = frame /\ OneEach(wal.frame) /\ ~opening
      /\ FrameLeads(frame, table, slots)
  BY <1>1 DEF EngineInv, TableInv, WalPhases, TxnPhases, FrameHeld, ReplayPcs, TxnPcs
<1>3. wal' \in Wals
  BY <1>1, CountTypes DEF EngineInv, Wals
<1>4. Content(Replay(wal', slots)) = Content(table)
  BY <1>1, <1>2, <1>3, ReplayLeads, SameContent
<1>5. Bulk = "NONE"
  BY <1>1 DEF EngineInv, BulkInv, BulkPhases, TxnPcs, Bulk
<1>6. Bulk' = Bulk /\ Goals' = Goals
  BY <1>1 DEF Bulk, Goals
<1>7. SessionTable = Content(table) /\ SessionTable' = SessionTable
  BY <1>1, <1>2 DEF SessionTable
<1>8. SessionTable # <<>>
  BY <1>7, CountTypes, ContentType DEF EngineInv
<1>9. DurableTable' = SessionTable
  BY <1>1, <1>4, <1>5, <1>6, <1>7 DEF DurableTable, Replayed
<1>10. hdr.pend = 0 /\ wal.frame.seq = hdr.seq + 1
  BY <1>1 DEF EngineInv, SeqInv, CommitPhases, ResetPhases
<1>11. LastChange' = LastChange + 1
  BY <1>1, <1>2, <1>10, WhatIsOwed DEF LastChange
<1>12. ~ResetOwed /\ ResetOwed' = ResetOwed
  BY <1>1, <1>10 DEF ResetOwed
<1>. QED
  BY <1>5, <1>6, <1>7, <1>8, <1>9, <1>11, <1>12 DEF Abs!Commit

LEMMA BeginRefines ==
  ASSUME EngineInv, NEW kind \in BulkKinds, NEW next, BulkBegin(kind, next),
         next \in {"truncate", "restore", "bench"}, kind = "RESTORE" => backup # NoBackup
  PROVE  Abs!BeginReplace
<1>1. /\ pc = "ready" /\ pc' = next /\ hdr' = Header(count, seq, 1, seq + 1, kind)
      /\ hdr_safe' = hdr' /\ UNCHANGED <<opening, table, cdc, wal, slots, backup>>
  BY DEF BulkBegin, Synced, Idle, Ready, logVars
<1>2. ~wal.marked /\ ~opening
  BY <1>1 DEF EngineInv, TableInv, WalPhases, TxnPhases, ReplayPcs, TxnPcs
<1>3. Bulk = "NONE" /\ Bulk' = kind
  BY <1>1 DEF EngineInv, BulkInv, BulkPhases, TxnPcs, Bulk, BulkKinds, Header
<1>4. Goals' \in SUBSET Contents
  <2>1. EmptyTable \in Contents
    BY DEF EmptyTable, Contents
  <2>2. kind = "RESTORE" => Content(backup.slots) \in Contents
    BY ContentType DEF EngineInv, TypeOK, BackupTypes
  <2>3. BenchContents \subseteq Contents
    BY DEF BenchContents
  <2>. QED
    BY <1>1, <1>3, <2>1, <2>2, <2>3 DEF Goals, BulkKinds
<1>5. DurableTable' = <<>>
  BY <1>3 DEF DurableTable, BulkKinds
<1>6. hdr.pend = 0 /\ seq = hdr.seq
  BY <1>1 DEF EngineInv, SeqInv, ResetPhases, MemoryAgrees, Running
<1>7. ~ResetOwed /\ ResetOwed'
  BY <1>1, <1>2, <1>6, WhatIsOwed DEF ResetOwed, Header
<1>8. LastChange' = LastChange
  BY <1>1 DEF LastChange
<1>9. SessionTable' = SessionTable
  BY <1>1 DEF SessionTable
<1>. QED
  BY <1>3, <1>4, <1>5, <1>7, <1>8, <1>9 DEF Abs!BeginReplace

LEMMA PublishRefines ==
  ASSUME EngineInv, EmitReset, cdc' # cdc
  PROVE  Abs!PublishReset
<1>1. /\ pc = "emit_reset" /\ cdc' = Appended(cdc, ResetFrame(reset_seq))
      /\ pc' = "clear_reset" /\ UNCHANGED <<opening, table, wal, hdr, hdr_safe, slots, backup>>
      /\ Gate(reset_seq) = "write"
  BY DEF EmitReset, datVars
<1>2. ~wal.marked /\ hdr.pend = 1 /\ reset_seq = hdr.rseq /\ cdc_lastseq = LastSeq(cdc)
  BY <1>1 DEF EngineInv, TableInv, WalPhases, ReplayPcs, SeqInv, ResetPhases, MemoryAgrees,
     Running
<1>3. LastSeq(cdc') = reset_seq
  <2>1. ResetFrame(reset_seq) \in ChangeFrames /\ cdc \in Logs
    BY SeqTypes, ResetFrameType DEF EngineInv
  <2>. QED
    BY <1>1, <2>1 DEF LastSeq, Appended, Logs, ResetFrame
<1>4. LastSeq(cdc) = hdr.seq /\ reset_seq = hdr.seq + 1
  BY <1>1, <1>2, WhatIsOwed DEF Gate
<1>5. ResetOwed /\ ~ResetOwed' /\ LastChange' = LastChange + 1
  BY <1>1, <1>2, <1>3, <1>4, WhatIsOwed DEF ResetOwed, LastChange
<1>6. Bulk' = Bulk /\ Goals' = Goals /\ SessionTable' = SessionTable
  BY <1>1 DEF Bulk, Goals, SessionTable
<1>7. DurableTable' = DurableTable
  BY <1>1, <1>6 DEF DurableTable, Replayed
<1>. QED
  BY <1>5, <1>6, <1>7 DEF Abs!PublishReset

\* The header that closes a whole-table operation, flushed or left by a crash.
LEMMA EndRefines ==
  ASSUME EngineInv, pc = "bulk_closed", hdr' = hdr, hdr_safe' = hdr, slots' = slots,
         wal' = wal, cdc' = cdc, SessionTable' \in {Content(slots), <<>>}
  PROVE  Abs!EndReplace
<1>1. ~wal.marked /\ slots \in Tables
  BY CountTypes DEF EngineInv, TableInv, WalPhases, ReplayPcs
<1>2. hdr.bulk = "NONE" /\ hdr_safe.bulk # "NONE"
  BY DEF EngineInv, CountInv, BulkAnnounced
<1>3. Bulk # "NONE" /\ Bulk' = "NONE"
  BY <1>2 DEF Bulk
<1>4. DurableTable' = Content(slots)
  BY <1>1, <1>3, ReplayUnmarked DEF DurableTable, Replayed
<1>5. Content(slots) \in Goals /\ Goals' = {}
  BY <1>3 DEF EngineInv, BulkInv, GoalReached, Goals
<1>6. ResetOwed' = ResetOwed /\ LastChange' = LastChange
  BY DEF ResetOwed, LastChange
<1>. QED
  BY <1>3, <1>4, <1>5, <1>6 DEF Abs!EndReplace

LEMMA CloseRefines ==
  ASSUME EngineInv, BulkCloseSync
  PROVE  Abs!EndReplace
<1>1. /\ pc = "bulk_closed" /\ UNCHANGED <<hdr, slots, wal, cdc, table>> /\ hdr_safe' = hdr
      /\ pc' \in {"ready", "emit_reset"} /\ opening' = FALSE
  BY DEF BulkCloseSync, Synced, memVars, logVars
<1>2. undo = <<>> /\ UndoExact(undo, table, slots)
  BY <1>1 DEF EngineInv, TableInv, TxnPhases, TxnPcs, ReplayPcs, UndoHeld, Loaded
<1>3. Content(table) = Content(slots)
  BY <1>2, NothingUndone, SameContent
<1>4. SessionTable' = Content(slots)
  BY <1>1, <1>3 DEF SessionTable
<1>. QED
  BY <1>1, <1>4, EndRefines

LEMMA OpenRefines ==
  ASSUME EngineInv, CheckAligned, pc' = "ready"
  PROVE  Abs!OpenSession
<1>1. /\ pc = "check" /\ table' = slots /\ bulk_kind = "NONE" /\ opening' = FALSE
      /\ UNCHANGED <<wal, cdc, hdr, hdr_safe, slots, backup>>
  BY DEF CheckAligned, logVars, datVars
<1>2. ~wal.marked /\ slots \in Tables /\ opening
  BY <1>1, CountTypes DEF EngineInv, TableInv, WalPhases, ReplayPcs, TxnPhases
<1>3. Bulk = "NONE"
  BY <1>1 DEF EngineInv, TableInv, HeaderMirrors, Running, BulkInv, BulkPhases, Bulk
<1>4. Bulk' = Bulk /\ Goals' = Goals /\ ResetOwed' = ResetOwed /\ LastChange' = LastChange
  BY <1>1 DEF Bulk, Goals, ResetOwed, LastChange
<1>5. DurableTable' = DurableTable
  BY <1>1, <1>4 DEF DurableTable, Replayed
<1>6. SessionTable = <<>> /\ SessionTable' = Content(slots)
  BY <1>1, <1>2 DEF SessionTable
<1>7. DurableTable = Content(slots)
  BY <1>2, <1>3, ReplayUnmarked DEF DurableTable, Replayed
<1>. QED
  BY <1>3, <1>4, <1>5, <1>6, <1>7 DEF Abs!OpenSession

\* A crash shows nothing but the end of the session, or that a closed operation was.
LEMMA CrashRefines ==
  ASSUME EngineInv, TypeOK', ProcessEnds \/ PowerLoss
  PROVE  [Abs!Next]_Abs!vars
<1>1. /\ pc' = "down" /\ UNCHANGED <<wal, cdc, backup>> /\ hdr' \in {hdr, hdr_safe}
      /\ hdr_safe' = hdr'
  BY DEF ProcessEnds, PowerLoss, Forget, Synced, logVars
<1>2. SessionTable' = <<>>
  BY <1>1 DEF SessionTable
<1>3. slots' = slots \/ PowerLoss
  BY DEF ProcessEnds
<1>4. ResetOwed' = ResetOwed /\ LastChange' = LastChange
  <2>1. hdr_safe.pend = hdr.pend /\ (hdr.pend = 1 => hdr_safe.seq = hdr.seq)
    BY WhatIsOwed DEF EngineInv, SeqInv, HeadersAgree
  <2>. QED
    BY <1>1, <2>1, WhatIsOwed DEF ResetOwed, LastChange
<1>5. CASE pc # "bulk_closed" \/ hdr' = hdr_safe
  <2>1. Bulk' = Bulk /\ Goals' = Goals
    <3>1. Bulk' = Bulk
      BY <1>1, <1>5 DEF EngineInv, BulkInv, BulkPhases, CountInv, BulkAnnounced, Bulk
    <3>. QED
      BY <1>1, <3>1 DEF Goals
  <2>2. Bulk = "NONE" => DurableTable' = DurableTable
    <3>. SUFFICES ASSUME Bulk = "NONE" PROVE Replayed' = Replayed
      BY <2>1 DEF DurableTable
    <3>1. CASE slots' = slots
      BY <1>1, <3>1 DEF Replayed
    <3>2. CASE PowerLoss /\ wal.marked
      BY <1>1, <3>2, PowerKeepsReplay DEF Replayed, EngineInv
    <3>3. CASE PowerLoss /\ ~wal.marked
      <4>1. pc \notin Writing
        BY <3>3 DEF Bulk, EngineInv, CountInv, BulkAnnounced, Writing, TableInv, WalPhases,
           ReplayPcs
      <4>2. slots' = slots
        BY <3>3, <4>1, PowerAfterFlush DEF EngineInv, TableInv, Flushed
      <4>. QED
        BY <1>1, <4>2 DEF Replayed
    <3>. QED
      BY <1>3, <3>1, <3>2, <3>3
  <2>3. Bulk # "NONE" => DurableTable' = DurableTable
    BY <2>1 DEF DurableTable
  <2>. QED
    BY <1>2, <1>4, <2>1, <2>2, <2>3, NothingVisible
<1>6. CASE pc = "bulk_closed" /\ hdr' = hdr
  <2>1. slots' = slots
    BY <1>3, <1>6, PowerAfterFlush DEF PowerLoss, EngineInv, CountInv, BulkCount
  <2>2. Abs!EndReplace
    BY <1>1, <1>2, <1>6, <2>1, EndRefines
  <2>. QED
    BY <2>2 DEF Abs!Next
<1>. QED
  BY <1>1, <1>5, <1>6

\* Only an open begins a session.
NoSessionBegins ==
  ~opening' /\ pc' \notin {"down", "refused"} => ~opening /\ pc \notin {"down", "refused"}

LEMMA SessionStays ==
  ASSUME EngineInv, NoSessionBegins
  PROVE  SessionTable = <<>> => SessionTable' = <<>>
BY CountTypes, ContentType DEF EngineInv, NoSessionBegins, SessionTable

\* A step that leaves the files as they are, or flushes them where nothing is closed.
LEMMA FilesStay ==
  ASSUME EngineInv, TypeOK', NoSessionBegins, UNCHANGED <<hdr, slots, cdc, backup>>,
         hdr_safe' = hdr_safe \/ (hdr_safe' = hdr /\ pc # "bulk_closed"),
         wal' = wal \/ (~wal.marked /\ ~wal'.marked)
  PROVE  [Abs!Next]_Abs!vars
<1>1. Bulk' = Bulk
  BY DEF EngineInv, BulkInv, BulkPhases, Bulk
<1>2. Goals' = Goals
  BY <1>1 DEF Goals
<1>3. ResetOwed' = ResetOwed /\ LastChange' = LastChange
  BY DEF ResetOwed, LastChange
<1>4. DurableTable' = DurableTable
  <2>1. CASE wal' = wal
    BY <1>1, <2>1 DEF DurableTable, Replayed
  <2>2. CASE ~wal.marked /\ ~wal'.marked
    <3>1. Replay(wal, slots) = slots /\ Replay(wal', slots) = slots
      BY <2>2, ReplayUnmarked, CountTypes DEF EngineInv
    <3>. QED
      BY <1>1, <3>1 DEF DurableTable, Replayed
  <2>. QED
    BY <2>1, <2>2
<1>. QED
  BY <1>1, <1>2, <1>3, <1>4, SessionStays, NothingVisible

\* A step while a whole-table operation is announced: its table is not seen.
LEMMA OperationStays ==
  ASSUME EngineInv, TypeOK', NoSessionBegins, UNCHANGED <<wal, cdc, backup, hdr_safe>>,
         hdr'.seq = hdr.seq, hdr'.pend = hdr.pend, hdr_safe.bulk # "NONE"
  PROVE  [Abs!Next]_Abs!vars
<1>1. Bulk' = Bulk /\ Bulk # "NONE"
  BY DEF Bulk
<1>2. Goals' = Goals
  BY <1>1 DEF Goals
<1>3. ResetOwed' = ResetOwed /\ LastChange' = LastChange
  BY DEF ResetOwed, LastChange
<1>4. DurableTable' = DurableTable
  BY <1>1 DEF DurableTable
<1>. QED
  BY <1>1, <1>2, <1>3, <1>4, SessionStays, NothingVisible

\* A step of a commit that is in the WAL: what it leads to is decided.
LEMMA CommitStays ==
  ASSUME EngineInv, TypeOK', NoSessionBegins, wal.marked, wal' = wal,
         Replay(wal, slots') = Replay(wal, slots), UNCHANGED <<hdr_safe, backup>>,
         hdr'.bulk = hdr.bulk, hdr'.pend = hdr.pend
  PROVE  [Abs!Next]_Abs!vars
<1>1. Bulk' = Bulk
  BY DEF Bulk
<1>2. Goals' = Goals
  BY <1>1 DEF Goals
<1>3. ResetOwed' = ResetOwed /\ LastChange' = LastChange
  BY WhatIsOwed DEF ResetOwed, LastChange
<1>4. DurableTable' = DurableTable
  BY <1>1 DEF DurableTable, Replayed
<1>. QED
  BY <1>1, <1>2, <1>3, <1>4, SessionStays, NothingVisible

LEMMA ClearRefines ==
  ASSUME EngineInv, TypeOK', WalClear
  PROVE  [Abs!Next]_Abs!vars
<1>1. /\ pc = "wal_clear" /\ wal' = NoWal /\ pc' \in {"recover_reset", "ready"}
      /\ UNCHANGED <<opening, table, cdc, hdr, hdr_safe, slots, backup>>
  BY DEF WalClear, TxnOver, datVars
<1>2. /\ wal.marked /\ OneEach(wal.frame) /\ ImagesIn(wal.frame, slots)
  BY <1>1 DEF EngineInv, TableInv, WalPhases, Written, ReplayPcs
<1>3. Replay(wal, slots) = slots /\ Replay(wal', slots) = slots
  BY <1>1, <1>2, ReplayWritten, ReplayUnmarked, CountTypes DEF EngineInv, NoWal
<1>4. Bulk' = Bulk
  BY <1>1 DEF Bulk
<1>5. Goals' = Goals /\ DurableTable' = DurableTable
  BY <1>1, <1>3, <1>4 DEF Goals, DurableTable, Replayed
<1>6. ResetOwed' = ResetOwed
  BY <1>1 DEF ResetOwed
<1>7. LastSeq(cdc) = wal.frame.seq
  BY <1>1 DEF EngineInv, SeqInv, CommitPhases, MemoryAgrees, Running
<1>8. LastChange' = LastChange
  BY <1>1, <1>2, <1>7 DEF LastChange, NoWal
<1>9. NoSessionBegins
  BY <1>1 DEF NoSessionBegins
<1>. QED
  BY <1>4, <1>5, <1>6, <1>8, <1>9, SessionStays, NothingVisible

LEMMA WatermarkRefines ==
  ASSUME EngineInv, TypeOK', ClearReset
  PROVE  [Abs!Next]_Abs!vars
<1>1. /\ pc = "clear_reset" /\ hdr' = Header(count, reset_seq, 0, 0, bulk_kind)
      /\ hdr_safe' = hdr' /\ pc' \in {"check", "ready"}
      /\ UNCHANGED <<opening, table, wal, cdc, slots, backup>>
  BY DEF ClearReset, Synced, logVars
<1>2. bulk_kind = hdr.bulk /\ hdr_safe.bulk = hdr.bulk
  BY <1>1 DEF EngineInv, TableInv, HeaderMirrors, Running, BulkInv, BulkPhases
<1>3. Bulk' = Bulk
  BY <1>1, <1>2 DEF Bulk, Header
<1>4. Goals' = Goals /\ DurableTable' = DurableTable /\ LastChange' = LastChange
  BY <1>1, <1>3 DEF Goals, DurableTable, Replayed, LastChange
<1>5. LastSeq(cdc) = reset_seq /\ reset_seq = hdr.rseq /\ hdr.pend = 1
  BY <1>1 DEF EngineInv, SeqInv, ResetPhases, MemoryAgrees, Running
<1>6. ~ResetOwed /\ ~ResetOwed'
  BY <1>1, <1>5, WhatIsOwed DEF ResetOwed, Header
<1>7. NoSessionBegins
  BY <1>1 DEF NoSessionBegins
<1>. QED
  BY <1>3, <1>4, <1>6, <1>7, SessionStays, NothingVisible DEF ResetOwed

LEMMA TrimRefines ==
  ASSUME EngineInv, TypeOK', TrimSwap
  PROVE  [Abs!Next]_Abs!vars
<1>1. /\ pc = "trim" /\ cdc' = cdc_part /\ pc' \in {"ready", "refused"}
      /\ UNCHANGED <<opening, table, wal, hdr, hdr_safe, slots, backup>>
  BY DEF TrimSwap, datVars
<1>2. Bulk' = Bulk
  BY <1>1 DEF Bulk
<1>3. Goals' = Goals /\ DurableTable' = DurableTable
  BY <1>1, <1>2 DEF Goals, DurableTable, Replayed
<1>4. hdr.pend = 0 /\ ~wal.marked /\ LastSeq(cdc_part) = hdr.seq
  BY <1>1 DEF EngineInv, SeqInv, ResetPhases, TrimReady, TableInv, WalPhases, ReplayPcs
<1>5. LastSeq(cdc') = LastSeq(cdc)
  BY <1>1, <1>4, WhatIsOwed
<1>6. ResetOwed' = ResetOwed /\ LastChange' = LastChange
  BY <1>1, <1>4, <1>5 DEF ResetOwed, LastChange
<1>7. NoSessionBegins
  BY <1>1 DEF NoSessionBegins
<1>. QED
  BY <1>2, <1>3, <1>6, <1>7, SessionStays, NothingVisible

LEMMA StepRefines ==
  ASSUME EngineInv, TypeOK', Next, "nobackup" \notin Faults, "nolog" \notin Faults
  PROVE  [Abs!Next]_Abs!vars
<1>. USE DEF Ready, Idle, NoSessionBegins, txnVars, bulkVars, memVars, logVars, datVars
<1>1. CASE \/ (\E id \in Ids, v \in Vals : Insert(id, v) \/ Update(id, v))
           \/ (\E id \in Ids : Delete(id))
  BY <1>1, FilesStay DEF Insert, Update, Delete, Mutate, StartFlush
<1>2. CASE Begin \/ Commit \/ TruncateInTxn \/ CaptureSlot \/ ClearInTxn \/ TxnStage
  <2>1. CASE Begin
    BY <2>1, FilesStay DEF Begin
  <2>2. CASE Commit
    BY <2>2, FilesStay DEF Commit, StartFlush
  <2>3. CASE TruncateInTxn
    BY <2>3, FilesStay DEF TruncateInTxn
  <2>4. CASE CaptureSlot
    BY <2>4, FilesStay DEF CaptureSlot
  <2>5. CASE ClearInTxn
    BY <2>5, FilesStay DEF ClearInTxn
  <2>6. CASE TxnStage
    BY <2>6, FilesStay DEF TxnStage
  <2>. QED
    BY <1>2, <2>1, <2>2, <2>3, <2>4, <2>5, <2>6
<1>3. CASE Rollback \/ TxnWrite \/ WalRecover
  <2>1. ~wal.marked \/ wal' = wal
    BY <1>3 DEF Rollback, TxnWrite, WalRecover, EngineInv, TableInv, WalPhases, ReplayPcs
  <2>2. ~wal'.marked \/ wal' = wal
    BY <1>3 DEF Rollback, TxnWrite, WalRecover, NoWal
  <2>3. /\ NoSessionBegins /\ UNCHANGED <<hdr, slots, cdc, backup, hdr_safe>>
    BY <1>3 DEF Rollback, TxnWrite, TxnOver, WalRecover
  <2>. QED
    BY <2>1, <2>2, <2>3, FilesStay
<1>4. CASE RecoverReset \/ TruncateEnd \/ Close \/ CheckpointSync \/ BulkSync
  BY <1>4, FilesStay DEF RecoverReset, TruncateEnd, Close, Forget, CheckpointSync, BulkSync,
     Synced
<1>5. CASE Open
  BY <1>5, FilesStay DEF Open, EngineInv, BulkInv, BulkPhases, LogKept
<1>6. CASE CheckAligned
  <2>1. CASE pc' = "ready"
    BY <1>6, <2>1, OpenRefines DEF Abs!Next
  <2>2. CASE pc' # "ready"
    <3>1. /\ NoSessionBegins /\ UNCHANGED <<wal, hdr, slots, cdc, backup, hdr_safe>>
      BY <1>6, <2>2 DEF CheckAligned
    <3>. QED
      BY <3>1, FilesStay
  <2>. QED
    BY <2>1, <2>2
<1>7. CASE (\E v \in Vals : BenchRow(v)) \/ \E s \in 0 .. MaxSeq : TrimBuild(s)
  BY <1>7, FilesStay DEF BenchRow, TrimBuild
<1>8. CASE RestoreLost
  BY <1>8 DEF RestoreLost, EngineInv, SeqInv, SnapshotThere
<1>9. CASE Backup
  <2>1. /\ UNCHANGED <<pc, opening, table, wal, hdr, slots, cdc, hdr_safe>> /\ pc = "ready"
    BY <1>9 DEF Backup
  <2>2. Bulk = "NONE" /\ Bulk' = Bulk
    BY <2>1 DEF EngineInv, BulkInv, BulkPhases, TxnPcs, Bulk
  <2>3. Goals' = Goals
    BY <2>2 DEF Goals
  <2>4. UNCHANGED <<DurableTable, ResetOwed, LastChange, SessionTable>>
    BY <2>1, <2>2 DEF DurableTable, Replayed, ResetOwed, LastChange, SessionTable
  <2>. QED
    BY <2>2, <2>3, <2>4, NothingVisible
<1>10. CASE WalCommit
  BY <1>10, CommitRefines DEF Abs!Next
<1>11. CASE CdcPublish
  <2>1. wal.marked
    BY <1>11 DEF CdcPublish, EngineInv, TableInv, WalPhases, ReplayPcs
  <2>. QED
    BY <1>11, <2>1, CommitStays DEF CdcPublish
<1>12. CASE ApplySlot
  <2>1. Replay(wal, slots') = Replay(wal, slots) /\ wal' = wal /\ wal.marked
    BY <1>12, ApplyKeepsReplay DEF EngineInv
  <2>. QED
    BY <1>12, <2>1, CommitStays DEF ApplySlot
<1>13. CASE PublishHeader
  <2>1. wal.marked /\ bulk_kind = hdr.bulk /\ reset_pend = hdr.pend
    BY <1>13 DEF PublishHeader, EngineInv, TableInv, WalPhases, ReplayPcs, HeaderMirrors, Running
  <2>. QED
    BY <1>13, <2>1, CommitStays DEF PublishHeader, Header
<1>14. CASE WalClear
  BY <1>14, ClearRefines
<1>15. CASE Truncate
  BY <1>15, BeginRefines DEF Truncate, BulkKinds, Abs!Next
<1>16. CASE Restore
  BY <1>16, BeginRefines DEF Restore, BulkKinds, Abs!Next
<1>17. CASE Bench
  BY <1>17, BeginRefines DEF Bench, BulkKinds, Abs!Next
<1>18. CASE TruncateSlot
  <2>1. hdr_safe.bulk # "NONE"
    BY <1>18 DEF TruncateSlot, EngineInv, CountInv, BulkAnnounced
  <2>. QED
    BY <1>18, <2>1, OperationStays DEF TruncateSlot
<1>19. CASE RestoreApply \/ BenchApply \/ BulkClear \/ BulkClose
  <2>1. /\ hdr_safe.bulk # "NONE" /\ seq = hdr.seq /\ reset_pend = hdr.pend
    BY <1>19 DEF RestoreApply, BenchApply, BulkClear, BulkClose, EngineInv, CountInv,
       BulkAnnounced, TableInv, HeaderMirrors, Running
  <2>2. /\ NoSessionBegins /\ UNCHANGED <<wal, cdc, backup, hdr_safe>>
        /\ hdr'.seq = seq /\ hdr'.pend = reset_pend
    BY <1>19 DEF RestoreApply, BenchApply, BulkClear, BulkClose, ReplaceTable, Header
  <2>. QED
    BY <2>1, <2>2, OperationStays
<1>20. CASE BulkCloseSync
  BY <1>20, CloseRefines DEF Abs!Next
<1>21. CASE EmitReset
  <2>1. CASE cdc' = cdc
    BY <1>21, <2>1, FilesStay DEF EmitReset
  <2>2. CASE cdc' # cdc
    BY <1>21, <2>2, PublishRefines DEF Abs!Next
  <2>. QED
    BY <2>1, <2>2
<1>22. CASE ClearReset
  BY <1>22, WatermarkRefines
<1>23. CASE TrimSwap
  BY <1>23, TrimRefines
<1>24. CASE ProcessEnds \/ PowerLoss
  BY <1>24, CrashRefines
<1>25. CASE LoseBackup \/ LoseLog
  BY <1>25 DEF LoseBackup, LoseLog
<1>. QED
  BY <1>1, <1>2, <1>3, <1>4, <1>5, <1>6, <1>7, <1>8, <1>9, <1>10, <1>11, <1>12, <1>13, <1>14,
     <1>15, <1>16, <1>17, <1>18, <1>19, <1>20, <1>21, <1>22, <1>23, <1>24, <1>25
  DEF Next, Command, Step, Environment

\* Every behaviour of the engine is one ChangeStore allows: a commit takes effect at
\* its marker and leaves what its session saw, a whole-table operation at the header
\* that closes it and leaves one of its end states, a RESET at its frame; a crash, a
\* loss of power and an open show nothing else.  The operator leaves the snapshot of
\* an announced RESTORE and the change log where they are.
THEOREM EngineImplements ==
  ASSUME "nobackup" \notin Faults, "nolog" \notin Faults, TruncateFlushed
  PROVE  Spec => Implements
<1>1. Init => BulkInv
  BY DEF Init, BulkInv, BulkPhases, LogKept, BenchTable, GoalReached, TxnPcs, NoWal, Header,
     NewLog
<1>2. TypeOK /\ SeqInv /\ TableInv /\ CountInv /\ BulkInv /\ [Next]_vars => BulkInv'
  <2>1. ASSUME BulkInv, UNCHANGED vars PROVE BulkInv'
    BY <2>1
    DEF BulkInv, BulkPhases, LogKept, BenchTable, GoalReached, Goals, Bulk, vars, memVars,
        txnVars, bulkVars, logVars, datVars
  <2>2. ASSUME TypeOK, SeqInv, TableInv, CountInv, BulkInv, Next PROVE BulkInv'
    BY <2>2, BulkPhasesStep, LogKeptStep, BenchTableStep, GoalReachedStep DEF BulkInv, CountInv
  <2>. QED
    BY <2>1, <2>2
<1>3. Init => Abs!Init
  BY AbsInit
<1>4. EngineInv /\ TypeOK' /\ [Next]_vars => [Abs!Next]_Abs!vars
  <2>1. ASSUME UNCHANGED vars PROVE UNCHANGED Abs!vars
    BY <2>1
    DEF vars, memVars, txnVars, bulkVars, logVars, datVars, Abs!vars, DurableTable, SessionTable,
        Replayed, Goals, Bulk, ResetOwed, LastChange
  <2>. QED
    BY <2>1, StepRefines
<1>5. Spec => []BulkInv
  BY <1>1, <1>2, TypeCorrect, SeqCorrect, TableCorrect, CountCorrect, PTL DEF Spec
<1>6. Spec => []EngineInv
  BY <1>5, TypeCorrect, SeqCorrect, TableCorrect, CountCorrect, PTL DEF EngineInv
<1>7. Spec => Abs!Spec
  BY <1>3, <1>4, <1>6, TypeCorrect, PTL DEF Spec, Abs!Spec
<1>. QED
  BY <1>7 DEF Implements


-----------------------------------------------------------------------------
(* What VERIFY checks: the probe for the id of a row gets to the row, and no other *)
(* row has its id                                                                  *)

Reached(t, s) == \E k \in Visited(t, t[s].id) : ProbeSlot(t[s].id, k) = s
Sound(t) ==
  /\ \A s \in LiveSlots(t) : Reached(t, s)
  /\ \A s, o \in LiveSlots(t) : t[s].id = t[o].id => s = o

LEMMA LiveRow ==
  ASSUME NEW t \in Tables, NEW s \in LiveSlots(t)
  PROVE  s \in Slots /\ Live(t[s]) /\ t[s].id \in Ids
<1>1. s \in Slots /\ Live(t[s]) /\ t[s] \in Record
  BY DEF LiveSlots, Tables
<1>. QED
  BY <1>1, LiveType DEF Rows

LEMMA SoundIsClean ==
  ASSUME NEW t \in Tables, Sound(t)
  PROVE  AllReachable(t)
<1>. SUFFICES ASSUME NEW s \in LiveSlots(t) PROVE Located(t, t[s].id) = {s}
  BY DEF AllReachable
<1>. DEFINE id == t[s].id
<1>1. id \in Ids /\ Live(t[s])
  BY LiveRow
<1>2. PICK k \in Visited(t, id) : ProbeSlot(id, k) = s
  BY DEF Sound, Reached
<1>3. s \in Located(t, id)
  BY <1>1, <1>2 DEF Located, Holds
<1>4. ASSUME NEW o \in Located(t, id) PROVE o = s
  <2>1. o \in Slots /\ Holds(t[o], id)
    BY <1>1, <1>4, ProbeInTable DEF Located, Visited
  <2>. QED
    BY <2>1 DEF Sound, LiveSlots, Holds
<1>. QED
  BY <1>3, <1>4

\* A row that a lookup does not find is not there.
LEMMA NotFound ==
  ASSUME NEW t, NEW id, Sound(t), ~Found(t, id)
  PROVE  \A s \in Slots : ~Holds(t[s], id)
<1>. SUFFICES ASSUME NEW s \in Slots, Holds(t[s], id) PROVE FALSE
  OBVIOUS
<1>1. s \in LiveSlots(t) /\ t[s].id = id
  BY DEF LiveSlots, Holds
<1>2. PICK k \in Visited(t, id) : ProbeSlot(id, k) = s
  BY <1>1 DEF Sound, Reached
<1>. QED
  BY <1>2 DEF Found, Located

LEMMA SoundNone ==
  ASSUME NEW t, LiveSlots(t) = {}
  PROVE  Sound(t)
BY DEF Sound

\* Rows may be deleted and changed where they are: a tombstone does not end a probe.
KeepsChains(t, w) ==
  \A s \in Slots : \/ w[s] = t[s]
                   \/ w[s] = Deleted
                   \/ Live(w[s]) /\ Live(t[s]) /\ w[s].id = t[s].id

LEMMA SoundKept ==
  ASSUME NEW t \in Tables, NEW w, Sound(t), KeepsChains(t, w)
  PROVE  Sound(w)
<1>1. ASSUME NEW s \in LiveSlots(w) PROVE s \in LiveSlots(t) /\ t[s].id = w[s].id
  BY <1>1, NotLive DEF LiveSlots, KeepsChains
<1>2. ASSUME NEW s \in LiveSlots(w) PROVE Reached(w, s)
  <2>. DEFINE id == t[s].id
  <2>1. s \in LiveSlots(t) /\ id = w[s].id /\ id \in Ids
    BY <1>1, <1>2, LiveRow
  <2>2. PICK k \in Visited(t, id) : ProbeSlot(id, k) = s
    BY <2>1 DEF Sound, Reached
  <2>3. \A j \in 0 .. k - 1 : ~ProbeEnds(w, id, j)
    <3>. SUFFICES ASSUME NEW j \in 0 .. k - 1 PROVE ~ProbeEnds(w, id, j)
      OBVIOUS
    <3>1. ~ProbeEnds(t, id, j) /\ j \in Slots
      BY <2>2, CapacityAssumption DEF Visited, Slots
    <3>2. ProbeSlot(id, j) \in Slots
      BY <2>1, <3>1, ProbeInTable
    <3>3. Deleted # Empty
      BY DEF Deleted, Empty
    <3>. QED
      BY <3>1, <3>2, <3>3, NotLive DEF ProbeEnds, Holds, KeepsChains
  <2>4. k \in Visited(w, id)
    BY <2>2, <2>3 DEF Visited
  <2>. QED
    BY <2>1, <2>2, <2>4 DEF Reached
<1>3. ASSUME NEW s \in LiveSlots(w), NEW o \in LiveSlots(w), w[s].id = w[o].id PROVE s = o
  BY <1>1, <1>3 DEF Sound
<1>. QED
  BY <1>2, <1>3 DEF Sound

\* An insert takes the first free slot on the way of its own id, and ends no probe.
LEMMA SoundInsert ==
  ASSUME NEW t \in Tables, Sound(t), NEW id \in Ids, NEW v, HasRoom(t, id),
         \A s \in Slots : ~Holds(t[s], id)
  PROVE  Sound([t EXCEPT ![InsertSlot(t, id)] = Row(id, v)])
<1>1. PICK k \in FreeSteps(t, id) : /\ InsertSlot(t, id) = ProbeSlot(id, k)
                                     /\ \A j \in FreeSteps(t, id) : k <= j
  BY InsertSlotIsFirst
<1>. DEFINE f == ProbeSlot(id, k)
            w == [t EXCEPT ![f] = Row(id, v)]
<1>2. f \in Slots /\ ~Live(t[f]) /\ k \in Visited(t, id)
  BY <1>1, ProbeInTable DEF FreeSteps, Visited
<1>3. Live(Row(id, v)) /\ Row(id, v).id = id /\ Row(id, v) # Empty
  BY DEF Live, Row, Empty
<1>4. \A o \in Slots : w[o] = IF o = f THEN Row(id, v) ELSE t[o]
  BY DEF Tables
<1>. HIDE DEF w
<1>5. ASSUME NEW s \in LiveSlots(w), s # f PROVE s \in LiveSlots(t) /\ w[s] = t[s] /\ t[s].id # id
  BY <1>4, <1>5 DEF LiveSlots, Holds
<1>6. Reached(w, f)
  <2>1. \A j \in 0 .. k - 1 : ~ProbeEnds(w, id, j)
    <3>. SUFFICES ASSUME NEW j \in 0 .. k - 1 PROVE ~ProbeEnds(w, id, j)
      OBVIOUS
    <3>1. ~ProbeEnds(t, id, j) /\ j \in Slots /\ j < k
      BY <1>2, CapacityAssumption DEF Visited, Slots
    <3>2. j \in Visited(t, id)
      BY <1>2, <3>1, CapacityAssumption DEF Visited, Slots
    <3>3. Live(t[ProbeSlot(id, j)])
      BY <1>1, <3>1, <3>2, CapacityAssumption DEF FreeSteps, Visited, Slots
    <3>4. ProbeSlot(id, j) # f /\ ProbeSlot(id, j) \in Slots
      BY <1>2, <3>1, <3>3, ProbeInTable
    <3>. QED
      BY <1>4, <3>1, <3>4 DEF ProbeEnds
  <2>2. k \in Visited(w, id)
    BY <1>2, <2>1 DEF Visited
  <2>. QED
    BY <1>2, <1>3, <1>4, <2>2 DEF Reached
<1>7. ASSUME NEW s \in LiveSlots(w), s # f PROVE Reached(w, s)
  <2>. DEFINE b == t[s].id
  <2>1. s \in LiveSlots(t) /\ w[s] = t[s] /\ b # id /\ b \in Ids
    BY <1>5, <1>7, LiveRow
  <2>2. PICK i \in Visited(t, b) : ProbeSlot(b, i) = s
    BY <2>1 DEF Sound, Reached
  <2>3. \A j \in 0 .. i - 1 : ~ProbeEnds(w, b, j)
    <3>. SUFFICES ASSUME NEW j \in 0 .. i - 1 PROVE ~ProbeEnds(w, b, j)
      OBVIOUS
    <3>1. ~ProbeEnds(t, b, j) /\ j \in Slots
      BY <2>2, CapacityAssumption DEF Visited, Slots
    <3>2. ProbeSlot(b, j) \in Slots
      BY <2>1, <3>1, ProbeInTable
    <3>. QED
      BY <1>3, <1>4, <2>1, <3>1, <3>2 DEF ProbeEnds, Holds
  <2>4. i \in Visited(w, b)
    BY <2>2, <2>3 DEF Visited
  <2>. QED
    BY <2>1, <2>2, <2>4 DEF Reached
<1>8. ASSUME NEW s \in LiveSlots(w), NEW o \in LiveSlots(w), w[s].id = w[o].id PROVE s = o
  <2>1. w[f].id = id
    BY <1>2, <1>3, <1>4
  <2>. QED
    BY <1>5, <1>8, <2>1 DEF Sound
<1>. QED
  BY <1>1, <1>6, <1>7, <1>8 DEF Sound, w

-----------------------------------------------------------------------------
(* The invariant behind VERIFY.  A commit writes the slots whose row changed, so a *)
(* slot that a transaction made and unmade is a tombstone in memory only, and what *)
(* was inserted behind it is cut off by the next open.  A transaction of one       *)
(* statement makes no such slot.                                                   *)

\* No slot is a tombstone in memory and EMPTY in the file.
TombstonesKept(t, v) == \A s \in Slots : ~Live(t[s]) /\ ~Live(v[s]) => t[s] = v[s]

Mapped ==
  \/ pc \in {"ready", "stage", "mark", "trim", "truncate", "bulk_sync", "bulk_close",
             "bulk_closed"}
  \/ pc \in ReplayPcs \cup {"restore", "emit_reset", "clear_reset"} /\ ~opening
TableSound == Mapped => Sound(table) /\ TombstonesKept(table, Replayed)

BenchSound == pc = "bench" /\ done > 0 => Sound(table)
BackupSound == backup # NoBackup => Sound(backup.slots)

\* The file is sound unless it announces an operation, whatever part of a TRUNCATE
\* a loss of power takes back.
FileSound == hdr.bulk = "NONE" => Sound(Replayed)
Thinned(t, v) == \A s \in Slots : t[s] = v[s] \/ (Live(v[s]) /\ t[s] = Deleted)
FlushedSound ==
  pc \in {"truncate", "bulk_close", "bulk_closed"} =>
    Sound(slots_safe) /\ Thinned(slots, slots_safe)

OneStatement == pc \in {"ready", "capture"} => ~in_txn
BulkFlushed == pc # "bulk_closed" => hdr.bulk = hdr_safe.bulk

CleanInv ==
  /\ BulkAnnounced /\ BenchTable
  /\ OneStatement /\ BulkFlushed
  /\ TableSound /\ BenchSound /\ BackupSound /\ FileSound /\ FlushedSound

\* The same rows and the same tombstones: the same table.
LEMMA ExactTables ==
  ASSUME NEW t \in Tables, NEW v \in Tables, SameTables(v, t), TombstonesKept(t, v)
  PROVE  t = v
<1>1. \A s \in Slots : t[s] = v[s]
  BY DEF SameTables, Same, SlotChanged, TombstonesKept
<1>. QED
  BY <1>1 DEF Tables

\* Outside a commit memory is the file, slot by slot.
LEMMA MemoryIsFile ==
  ASSUME TypeOK, TableInv, CleanInv,
         pc \in {"ready", "trim", "truncate", "bulk_sync", "bulk_close", "bulk_closed"}
  PROVE  table = slots /\ ~wal.marked /\ Replayed = slots /\ Sound(table)
<1>1. undo = <<>> /\ UndoExact(undo, table, slots)
  BY DEF CleanInv, OneStatement, TableInv, TxnPhases, TxnPcs, ReplayPcs, UndoHeld, Loaded
<1>2. ~wal.marked
  BY DEF TableInv, WalPhases, ReplayPcs
<1>3. table \in Tables /\ slots \in Tables
  BY CountTypes
<1>4. Replayed = slots
  BY <1>2, <1>3, ReplayUnmarked DEF Replayed
<1>5. Sound(table) /\ TombstonesKept(table, slots)
  BY <1>4 DEF CleanInv, TableSound, Mapped
<1>. QED
  BY <1>1, <1>2, <1>3, <1>4, <1>5, NothingUndone, ExactTables

\* The marker makes the table of the session the one a recovery would make.
LEMMA CommitIsTable ==
  ASSUME TypeOK, TableInv, CleanInv, WalCommit
  PROVE  Replay(wal', slots') = table /\ table' = table /\ Sound(table)
<1>1. /\ pc = "mark" /\ wal' = [marked |-> TRUE, frame |-> wal.frame]
      /\ UNCHANGED <<table, slots>>
  BY DEF WalCommit, memVars, datVars
<1>2. /\ ~wal.marked /\ wal.frame = frame /\ OneEach(wal.frame) /\ ~opening
      /\ FrameLeads(frame, table, slots)
  BY <1>1 DEF TableInv, WalPhases, TxnPhases, FrameHeld, ReplayPcs, TxnPcs
<1>3. /\ wal' \in Wals /\ slots \in Tables /\ table \in Tables
      /\ frame \in Frames
  BY <1>1, CountTypes DEF Wals
<1>4. Replayed = slots
  BY <1>2, <1>3, ReplayUnmarked DEF Replayed
<1>5. Sound(table) /\ TombstonesKept(table, slots)
  BY <1>1, <1>4 DEF CleanInv, TableSound, Mapped
<1>6. ASSUME NEW s \in Slots PROVE Replay(wal', slots)[s] = table[s]
  <2>1. CASE s \in EntrySlots(frame)
    <3>1. PICK i \in 1 .. Len(frame.entries) : frame.entries[i].slot = s
      BY <2>1 DEF EntrySlots
    <3>. QED
      BY <1>1, <1>2, <3>1, ReplayAt DEF FrameLeads
  <2>2. CASE s \notin EntrySlots(frame)
    <3>1. Replay(wal', slots)[s] = slots[s]
      BY <1>1, <1>2, <2>2, ReplayAt
    <3>2. Same(slots[s], table[s])
      BY <1>2, <2>2 DEF FrameLeads
    <3>. QED
      BY <1>5, <3>1, <3>2 DEF Same, SlotChanged, TombstonesKept
  <2>. QED
    BY <2>1, <2>2
<1>7. Replay(wal', slots) = [s \in Slots |-> Replay(wal', slots)[s]]
      /\ table = [s \in Slots |-> table[s]]
  BY <1>3 DEF Replay, Tables
<1>. QED
  BY <1>1, <1>5, <1>6, <1>7

\* Without BEGIN no command finds an open transaction.
LEMMA NoneOpen ==
  ASSUME TableInv, OneStatement, "BEGIN" \notin Commands
  PROVE  ~(Rollback \/ Commit \/ Begin \/ TruncateInTxn \/ CaptureSlot \/ ClearInTxn)
BY DEF Rollback, Commit, Begin, TruncateInTxn, CaptureSlot, ClearInTxn, OneStatement, TableInv,
   TxnPhases, Ready

LEMMA OneStatementStep ==
  ASSUME TableInv, CleanInv, Next, "BEGIN" \notin Commands
  PROVE  OneStatement'
<1>. USE DEF CleanInv, OneStatement, TableInv, TxnPhases, TxnPcs, ReplayPcs, Ready, Idle, txnVars,
             bulkVars, memVars, logVars, datVars
<1>1. ~(Rollback \/ Commit \/ Begin \/ TruncateInTxn \/ CaptureSlot \/ ClearInTxn)
  BY NoneOpen
<1>2. CASE \/ (\E id \in Ids, v \in Vals : Insert(id, v) \/ Update(id, v))
           \/ (\E id \in Ids : Delete(id))
  BY <1>2 DEF Insert, Update, Delete, Mutate, StartFlush
<1>3. CASE \/ Truncate \/ Restore \/ Bench \/ Backup \/ (\E s \in 0 .. MaxSeq : TrimBuild(s))
           \/ TxnStage \/ WalCommit \/ CdcPublish
  BY <1>3 DEF Truncate, Restore, Bench, BulkBegin, Backup, TrimBuild, TxnStage, WalCommit,
     CdcPublish
<1>4. CASE TxnWrite \/ WalClear \/ ApplySlot \/ PublishHeader \/ CheckpointSync
  BY <1>4 DEF TxnWrite, WalClear, TxnOver, ApplySlot, PublishHeader, CheckpointSync
<1>5. CASE \/ TruncateSlot \/ TruncateEnd \/ RestoreApply \/ (\E v \in Vals : BenchRow(v))
           \/ BenchApply \/ BulkSync \/ BulkClose \/ EmitReset
  BY <1>5 DEF TruncateSlot, TruncateEnd, RestoreApply, BenchRow, BenchApply, ReplaceTable,
     BulkSync, BulkClose, EmitReset
<1>6. CASE RestoreLost \/ BulkCloseSync \/ ClearReset \/ TrimSwap
  BY <1>6 DEF RestoreLost, BulkCloseSync, ClearReset, TrimSwap
<1>7. CASE RecoverReset \/ CheckAligned \/ Open \/ WalRecover \/ BulkClear
  BY <1>7 DEF RecoverReset, CheckAligned, Open, WalRecover, BulkClear, ReplaceTable
<1>8. CASE Close \/ ProcessEnds \/ PowerLoss \/ LoseBackup \/ LoseLog
  BY <1>8 DEF Close, ProcessEnds, PowerLoss, Forget, LoseBackup, LoseLog
<1>. QED
  BY <1>1, <1>2, <1>3, <1>4, <1>5, <1>6, <1>7, <1>8
  DEF Next, Command, Step, Environment

LEMMA BulkFlushedStep ==
  ASSUME BulkFlushed, TableInv, Next
  PROVE  BulkFlushed'
<1>. USE DEF BulkFlushed, Header, Synced, Ready, Idle, txnVars, bulkVars, memVars, logVars,
             datVars
<1>1. CASE \/ (\E id \in Ids, v \in Vals : Insert(id, v) \/ Update(id, v))
           \/ (\E id \in Ids : Delete(id))
           \/ Begin \/ Commit \/ Rollback \/ TruncateInTxn \/ CaptureSlot \/ ClearInTxn
  BY <1>1 DEF Insert, Update, Delete, Mutate, StartFlush, Begin, Commit, Rollback,
     TruncateInTxn, CaptureSlot, ClearInTxn
<1>2. CASE \/ Truncate \/ Restore \/ Bench \/ Backup \/ (\E s \in 0 .. MaxSeq : TrimBuild(s))
           \/ TxnStage \/ TxnWrite \/ WalCommit
  BY <1>2 DEF Truncate, Restore, Bench, BulkBegin, Backup, TrimBuild, TxnStage, TxnWrite,
     TxnOver, WalCommit
<1>3. CASE CdcPublish \/ ApplySlot \/ CheckpointSync \/ WalClear
  BY <1>3 DEF CdcPublish, ApplySlot, CheckpointSync, WalClear, TxnOver
<1>4. CASE PublishHeader \/ RestoreApply \/ BenchApply \/ BulkClear \/ ClearReset
  <2>1. bulk_kind = hdr.bulk
    BY <1>4 DEF PublishHeader, RestoreApply, BenchApply, BulkClear, ClearReset, TableInv,
       HeaderMirrors, Running
  <2>. QED
    BY <1>4, <2>1 DEF PublishHeader, RestoreApply, BenchApply, BulkClear, ClearReset,
       ReplaceTable
<1>5. CASE \/ TruncateSlot \/ TruncateEnd \/ RestoreLost \/ (\E v \in Vals : BenchRow(v))
           \/ BulkSync \/ BulkClose \/ BulkCloseSync \/ EmitReset \/ TrimSwap
  BY <1>5 DEF TruncateSlot, TruncateEnd, RestoreLost, BenchRow, BulkSync, BulkClose,
     BulkCloseSync, EmitReset, TrimSwap
<1>6. CASE RecoverReset \/ CheckAligned \/ Open \/ WalRecover
  BY <1>6 DEF RecoverReset, CheckAligned, Open, WalRecover
<1>7. CASE Close \/ ProcessEnds \/ PowerLoss \/ LoseBackup \/ LoseLog
  BY <1>7 DEF Close, ProcessEnds, PowerLoss, Forget, LoseBackup, LoseLog
<1>. QED
  BY <1>1, <1>2, <1>3, <1>4, <1>5, <1>6, <1>7
  DEF Next, Command, Step, Environment

\* What a statement makes of a sound table.
LEMMA SoundStatement ==
  ASSUME NEW t \in Tables, Sound(t), NEW id \in Ids, NEW v
  PROVE  /\ ~Found(t, id) /\ HasRoom(t, id) =>
              Sound([t EXCEPT ![InsertSlot(t, id)] = Row(id, v)])
         /\ Found(t, id) => /\ Sound([t EXCEPT ![SlotOf(t, id)] = Row(id, v)])
                            /\ Sound([t EXCEPT ![SlotOf(t, id)] = Deleted])
<1>1. ASSUME ~Found(t, id), HasRoom(t, id)
      PROVE  Sound([t EXCEPT ![InsertSlot(t, id)] = Row(id, v)])
  BY <1>1, NotFound, SoundInsert
<1>2. ASSUME Found(t, id)
      PROVE  /\ Sound([t EXCEPT ![SlotOf(t, id)] = Row(id, v)])
             /\ Sound([t EXCEPT ![SlotOf(t, id)] = Deleted])
  <2>. DEFINE s == SlotOf(t, id)
  <2>1. s \in Located(t, id)
    BY <1>2 DEF Found, SlotOf
  <2>2. s \in Slots /\ Holds(t[s], id)
    BY <2>1, <1>2, SlotOfInTable DEF Located
  <2>3. Live(Row(id, v)) /\ Row(id, v).id = id
    BY DEF Live, Row
  <2>. HIDE DEF s
  <2>4. KeepsChains(t, [t EXCEPT ![s] = Row(id, v)])
    BY <2>2, <2>3 DEF KeepsChains, Tables, Holds
  <2>5. KeepsChains(t, [t EXCEPT ![s] = Deleted])
    BY <2>2 DEF KeepsChains, Tables
  <2>. QED
    BY <2>4, <2>5, SoundKept DEF s
<1>. QED
  BY <1>1, <1>2

LEMMA TableSoundStep ==
  ASSUME TypeOK, TypeOK', TableInv, CleanInv, Next, "BEGIN" \notin Commands
  PROVE  TableSound'
<1>. USE DEF Ready, Idle, txnVars, bulkVars, memVars, logVars, datVars
<1>0. ASSUME ~Mapped' PROVE TableSound'
  BY <1>0 DEF TableSound
<1>a. ASSUME UNCHANGED table, Replayed' = Replayed, Mapped' => Mapped PROVE TableSound'
  BY <1>a DEF CleanInv, TableSound
<1>1. ASSUME NEW id \in Ids, Delete(id) \/ \E v \in Vals : Insert(id, v) \/ Update(id, v)
      PROVE  TableSound'
  <2>1. ~in_txn /\ pc = "ready"
    BY <1>1 DEF Insert, Update, Delete, CleanInv, OneStatement
  <2>2. table = slots /\ ~wal.marked /\ Sound(table) /\ table \in Tables
    BY <2>1, MemoryIsFile, CountTypes
  <2>3. /\ slots' = slots /\ wal' = wal
        /\ \E s \in Slots : \E rec : /\ table' = [table EXCEPT ![s] = rec]
                                     /\ Live(rec) \/ Live(table[s])
    BY <1>1, InsertSlotInTable, SlotOfInTable, SlotsMeant, RowLive
    DEF Insert, Update, Delete, Mutate
  <2>4. Replay(wal', slots') = table
    BY <2>2, <2>3, ReplayUnmarked
  <2>5. TombstonesKept(table', Replayed')
    BY <2>2, <2>3, <2>4 DEF TombstonesKept, Replayed, Tables
  <2>6. Sound(table')
    <3>1. ASSUME NEW v, Insert(id, v) PROVE Sound(table')
      BY <2>2, <3>1, SoundStatement DEF Insert, Mutate
    <3>2. ASSUME NEW v, Update(id, v) PROVE Sound(table')
      BY <2>2, <3>2, SoundStatement DEF Update, Mutate
    <3>3. CASE Delete(id)
      BY <2>2, <3>3, SoundStatement DEF Delete, Mutate
    <3>. QED
      BY <1>1, <3>1, <3>2, <3>3
  <2>. QED
    BY <2>5, <2>6 DEF TableSound
<1>2. CASE TxnStage \/ CheckpointSync \/ PublishHeader
  <2>1. UNCHANGED <<table, slots, wal, opening>> /\ pc \in {"stage"} \cup ReplayPcs
        /\ pc' \in {"stage"} \cup ReplayPcs /\ (pc' = "stage" => pc = "stage")
    BY <1>2 DEF TxnStage, CheckpointSync, PublishHeader, ReplayPcs
  <2>2. Mapped' => Mapped
    BY <2>1 DEF Mapped, ReplayPcs
  <2>. QED
    BY <1>a, <2>1, <2>2 DEF Replayed
<1>3. CASE TxnWrite
  <2>1. UNCHANGED <<table, slots>> /\ ~wal.marked /\ ~wal'.marked /\ Mapped
    BY <1>3 DEF TxnWrite, NoWal, TableInv, WalPhases, ReplayPcs, Mapped
  <2>2. Replay(wal, slots) = slots /\ Replay(wal', slots) = slots
    BY <2>1, ReplayUnmarked, CountTypes
  <2>. QED
    BY <1>a, <2>1, <2>2 DEF Replayed
<1>4. CASE WalCommit
  <2>1. Replayed' = table /\ table' = table /\ Sound(table)
    BY <1>4, CommitIsTable DEF Replayed
  <2>. QED
    BY <2>1 DEF TableSound, TombstonesKept
<1>5. CASE CdcPublish
  <2>1. UNCHANGED <<table, slots, wal, opening>> /\ pc = "publish" /\ pc' \in {"apply", "refused"}
    BY <1>5 DEF CdcPublish
  <2>2. Mapped' => Mapped
    BY <2>1 DEF Mapped, ReplayPcs
  <2>. QED
    BY <1>a, <2>1, <2>2 DEF Replayed
<1>6. CASE ApplySlot
  <2>1. Replayed' = Replayed
    BY <1>6, ApplyKeepsReplay DEF Replayed
  <2>2. UNCHANGED <<table, pc, opening>>
    BY <1>6 DEF ApplySlot
  <2>. QED
    BY <1>a, <2>1, <2>2 DEF Mapped
<1>7. CASE WalClear
  <2>1. /\ pc = "wal_clear" /\ ~wal'.marked /\ UNCHANGED <<table, slots>>
        /\ pc' = IF opening THEN "recover_reset" ELSE "ready"
    BY <1>7 DEF WalClear, TxnOver, NoWal
  <2>2. OneEach(wal.frame) /\ ImagesIn(wal.frame, slots)
    BY <2>1 DEF TableInv, WalPhases, Written, ReplayPcs
  <2>3. Replayed' = Replayed
    BY <2>1, <2>2, ReplayWritten, ReplayUnmarked, CountTypes DEF Replayed
  <2>. QED
    BY <1>a, <2>1, <2>3 DEF Mapped, ReplayPcs
<1>8. CASE Truncate \/ Restore \/ Bench
  <2>1. UNCHANGED <<table, slots, wal>> /\ pc = "ready"
    BY <1>8 DEF Truncate, Restore, Bench, BulkBegin
  <2>. QED
    BY <1>a, <2>1 DEF Replayed, Mapped
<1>9. CASE Backup \/ LoseBackup \/ LoseLog \/ (\E s \in 0 .. MaxSeq : TrimBuild(s))
  <2>1. /\ UNCHANGED <<table, slots, wal, opening>>
        /\ pc = "ready" \/ pc' = pc
    BY <1>9 DEF Backup, LoseBackup, LoseLog, TrimBuild
  <2>. QED
    BY <1>a, <2>1 DEF Replayed, Mapped
<1>10. CASE RestoreLost \/ TrimSwap \/ EmitReset \/ ClearReset
  <2>1. UNCHANGED <<table, slots, wal, opening>> /\ (Mapped' => Mapped)
    BY <1>10 DEF RestoreLost, TrimSwap, EmitReset, ClearReset, Mapped, ReplayPcs
  <2>. QED
    BY <1>a, <2>1 DEF Replayed
<1>11. CASE BulkSync \/ BulkClose \/ BulkCloseSync \/ TruncateEnd
  <2>1. UNCHANGED <<table, slots, wal>> /\ Mapped
    BY <1>11 DEF BulkSync, BulkClose, BulkCloseSync, TruncateEnd, Mapped
  <2>. QED
    BY <1>a, <2>1 DEF Replayed
<1>12. ASSUME TruncateSlot \/ RestoreApply \/ BenchApply \/ BulkClear PROVE TableSound'
  <2>1. wal' = wal /\ ~wal.marked
    BY <1>12 DEF TruncateSlot, RestoreApply, BenchApply, BulkClear, ReplaceTable, TableInv,
       WalPhases, ReplayPcs
  <2>2. table' = slots' /\ Sound(table')
    <3>1. CASE TruncateSlot
      <4>1. PICK s \in LiveSlots(table) : /\ table' = [table EXCEPT ![s] = Deleted]
                                          /\ slots' = [slots EXCEPT ![s] = Deleted]
        BY <3>1 DEF TruncateSlot
      <4>2. table = slots /\ Sound(table) /\ table \in Tables
        BY <3>1, MemoryIsFile, CountTypes DEF TruncateSlot
      <4>3. KeepsChains(table, [table EXCEPT ![s] = Deleted])
        BY <4>2 DEF KeepsChains, Tables
      <4>. QED
        BY <4>1, <4>2, <4>3, SoundKept
    <3>2. CASE RestoreApply
      BY <3>2 DEF RestoreApply, ReplaceTable, CleanInv, BackupSound
    <3>3. CASE BenchApply
      BY <3>3 DEF BenchApply, ReplaceTable, CleanInv, BenchSound
    <3>4. CASE BulkClear
      BY <3>4, CountNone, SoundNone DEF BulkClear, ReplaceTable
    <3>. QED
      BY <1>12, <3>1, <3>2, <3>3, <3>4
  <2>3. slots' \in Tables
    BY DEF TypeOK, DatTypes
  <2>4. Replayed' = table'
    BY <2>1, <2>2, <2>3, ReplayUnmarked DEF Replayed
  <2>. QED
    BY <2>2, <2>4 DEF TableSound, TombstonesKept
<1>13. CASE CheckAligned
  <2>1. CASE pc' = "ready"
    <3>1. table' = slots /\ wal' = wal /\ slots' = slots /\ bulk_kind = "NONE" /\ pc = "check"
      BY <1>13, <2>1 DEF CheckAligned
    <3>2. hdr.bulk = "NONE" /\ ~wal.marked
      BY <3>1 DEF TableInv, HeaderMirrors, Running, WalPhases, ReplayPcs
    <3>3. Replayed = slots
      BY <3>2, ReplayUnmarked, CountTypes DEF Replayed
    <3>. QED
      BY <3>1, <3>2, <3>3 DEF CleanInv, FileSound, TableSound, TombstonesKept, Replayed
  <2>2. CASE pc' # "ready"
    BY <1>0, <1>13, <2>2 DEF CheckAligned, Mapped, ReplayPcs
  <2>. QED
    BY <2>1, <2>2
<1>14. CASE Open \/ WalRecover \/ RecoverReset
  <2>1. pc = "wal_recover" \/ pc = "recover_reset" => opening
    BY DEF TableInv, TxnPhases
  <2>. QED
    BY <1>0, <1>14, <2>1 DEF Open, WalRecover, RecoverReset, Mapped, ReplayPcs
<1>15. CASE (\E v \in Vals : BenchRow(v)) \/ Close \/ ProcessEnds \/ PowerLoss
  BY <1>0, <1>15 DEF BenchRow, Close, ProcessEnds, PowerLoss, Forget, Mapped, ReplayPcs
<1>16. ~(Rollback \/ Commit \/ Begin \/ TruncateInTxn \/ CaptureSlot \/ ClearInTxn)
  BY NoneOpen DEF CleanInv
<1>. QED
  BY <1>1, <1>2, <1>3, <1>4, <1>5, <1>6, <1>7, <1>8, <1>9, <1>10, <1>11, <1>12, <1>13, <1>14,
     <1>15, <1>16
  DEF Next, Command, Step, Environment

LEMMA BenchSoundStep ==
  ASSUME TypeOK, CleanInv, Next
  PROVE  BenchSound'
<1>. USE DEF Ready, Idle, txnVars, bulkVars, memVars, logVars, datVars
<1>0. ASSUME pc' # "bench" PROVE BenchSound'
  BY <1>0 DEF BenchSound
<1>1. ASSUME NEW v \in Vals, BenchRow(v) PROVE BenchSound'
  <2>. DEFINE t == IF done = 0 THEN EmptyTable ELSE table
  <2>1. /\ pc = "bench" /\ done + 1 \in Ids /\ done' = done + 1
        /\ table' = IF HasRoom(t, done + 1)
                      THEN [t EXCEPT ![InsertSlot(t, done + 1)] = Row(done + 1, v)] ELSE t
    BY <1>1 DEF BenchRow
  <2>2. done \in Nat /\ t \in Tables
    BY CountTypes, EmptyTableType
  <2>3. Numbered(t, done) /\ Sound(t)
    BY <2>1, <2>2, NumberedNone, CountNone, SoundNone DEF CleanInv, BenchTable, BenchSound
  <2>. HIDE DEF t
  <2>4. \A s \in Slots : ~Holds(t[s], done + 1)
    <3>. SUFFICES ASSUME NEW s \in Slots, Holds(t[s], done + 1) PROVE FALSE
      OBVIOUS
    <3>1. done + 1 \in IdsOf(t)
      BY DEF Holds, IdsOf, RowsOf, LiveSlots
    <3>. QED
      BY <2>2, <2>3, <3>1 DEF Numbered
  <2>5. Sound(table')
    BY <2>1, <2>2, <2>3, <2>4, SoundInsert
  <2>. QED
    BY <2>5 DEF BenchSound
<1>2. CASE Bench
  BY <1>2 DEF Bench, BulkBegin, BenchSound
<1>3. CASE LoseBackup \/ LoseLog
  BY <1>3 DEF LoseBackup, LoseLog, CleanInv, BenchSound
<1>4. CASE \/ (\E id \in Ids, v \in Vals : Insert(id, v) \/ Update(id, v))
           \/ (\E id \in Ids : Delete(id))
           \/ Begin \/ Commit \/ Rollback \/ TruncateInTxn \/ CaptureSlot \/ ClearInTxn
  BY <1>0, <1>4 DEF Insert, Update, Delete, Mutate, StartFlush, Begin, Commit, Rollback,
     TruncateInTxn, CaptureSlot, ClearInTxn
<1>5. CASE \/ Truncate \/ Restore \/ Backup \/ (\E s \in 0 .. MaxSeq : TrimBuild(s))
           \/ TxnStage \/ TxnWrite \/ WalCommit \/ CdcPublish \/ ApplySlot \/ PublishHeader
           \/ CheckpointSync \/ WalClear
  BY <1>0, <1>5 DEF Truncate, Restore, BulkBegin, Backup, TrimBuild, TxnStage, TxnWrite,
     TxnOver, WalCommit, CdcPublish, ApplySlot, PublishHeader, CheckpointSync, WalClear
<1>6. CASE \/ TruncateSlot \/ TruncateEnd \/ RestoreApply \/ RestoreLost \/ BenchApply
           \/ BulkSync \/ BulkClose \/ BulkCloseSync \/ EmitReset \/ ClearReset \/ TrimSwap
  BY <1>0, <1>6 DEF TruncateSlot, TruncateEnd, RestoreApply, RestoreLost, BenchApply,
     ReplaceTable, BulkSync, BulkClose, BulkCloseSync, EmitReset, ClearReset, TrimSwap
<1>7. CASE \/ RecoverReset \/ CheckAligned \/ Open \/ WalRecover \/ BulkClear
           \/ Close \/ ProcessEnds \/ PowerLoss
  BY <1>0, <1>7 DEF RecoverReset, CheckAligned, Open, WalRecover, BulkClear, ReplaceTable,
     Close, ProcessEnds, PowerLoss, Forget
<1>. QED
  BY <1>1, <1>2, <1>3, <1>4, <1>5, <1>6, <1>7
  DEF Next, Command, Step, Environment

LEMMA BackupSoundStep ==
  ASSUME TypeOK, TableInv, CleanInv, Next
  PROVE  BackupSound'
<1>1. CASE Backup
  <2>1. backup' = [slots |-> table, count |-> count] /\ pc = "ready"
    BY <1>1 DEF Backup, Idle, Ready
  <2>2. Sound(table)
    BY <2>1, MemoryIsFile
  <2>. QED
    BY <2>1, <2>2 DEF BackupSound
<1>2. CASE LoseBackup
  BY <1>2 DEF LoseBackup, BackupSound
<1>3. CASE UNCHANGED backup
  BY <1>3 DEF CleanInv, BackupSound
<1>4. backup' = backup \/ Backup \/ LoseBackup
  BY BackupChanges
<1>. QED
  BY <1>1, <1>2, <1>3, <1>4

LEMMA ThinnedSound ==
  ASSUME NEW v \in Tables, NEW t, Sound(v), Thinned(t, v)
  PROVE  Sound(t)
<1>1. KeepsChains(v, t)
  BY DEF Thinned, KeepsChains
<1>. QED
  BY <1>1, SoundKept

LEMMA FlushedSoundStep ==
  ASSUME TypeOK, TableInv, CleanInv, Next, "BEGIN" \notin Commands
  PROVE  FlushedSound'
<1>. USE DEF Ready, Idle, txnVars, bulkVars, memVars, logVars, datVars
<1>0. ASSUME pc' \notin {"truncate", "bulk_close", "bulk_closed"} PROVE FlushedSound'
  BY <1>0 DEF FlushedSound
<1>1. CASE Truncate
  <2>1. slots' = slots /\ slots_safe' = slots /\ pc = "ready"
    BY <1>1 DEF Truncate, BulkBegin, Synced
  <2>2. Sound(slots)
    BY <2>1, MemoryIsFile
  <2>. QED
    BY <2>1, <2>2 DEF FlushedSound, Thinned
<1>2. CASE TruncateSlot
  <2>1. PICK s \in LiveSlots(table) : slots' = [slots EXCEPT ![s] = Deleted]
    BY <1>2 DEF TruncateSlot
  <2>2. UNCHANGED slots_safe /\ pc = "truncate"
    BY <1>2 DEF TruncateSlot
  <2>3. table = slots /\ slots \in Tables
    BY <2>2, MemoryIsFile, CountTypes
  <2>4. s \in Slots /\ Live(slots[s])
    BY <2>3 DEF LiveSlots
  <2>5. Sound(slots_safe) /\ Thinned(slots, slots_safe)
    BY <2>2 DEF CleanInv, FlushedSound
  <2>6. Thinned(slots', slots_safe)
    BY <2>1, <2>3, <2>4, <2>5, NotLive DEF Thinned, Tables
  <2>. QED
    BY <2>2, <2>5, <2>6 DEF FlushedSound
<1>3. CASE BulkSync
  <2>1. slots' = slots /\ slots_safe' = slots /\ pc = "bulk_sync"
    BY <1>3 DEF BulkSync, Synced
  <2>2. Sound(slots)
    BY <2>1, MemoryIsFile
  <2>. QED
    BY <2>1, <2>2 DEF FlushedSound, Thinned
<1>4. CASE TruncateEnd \/ BulkClose \/ LoseBackup \/ LoseLog
  BY <1>4 DEF TruncateEnd, BulkClose, LoseBackup, LoseLog, CleanInv, FlushedSound
<1>5. CASE \/ (\E id \in Ids, v \in Vals : Insert(id, v) \/ Update(id, v))
           \/ (\E id \in Ids : Delete(id))
           \/ Begin \/ Commit \/ Rollback \/ TruncateInTxn \/ CaptureSlot \/ ClearInTxn
  BY <1>0, <1>5 DEF Insert, Update, Delete, Mutate, StartFlush, Begin, Commit, Rollback,
     TruncateInTxn, CaptureSlot, ClearInTxn
<1>6. CASE \/ Restore \/ Bench \/ Backup \/ (\E s \in 0 .. MaxSeq : TrimBuild(s))
           \/ TxnStage \/ TxnWrite \/ WalCommit \/ CdcPublish \/ ApplySlot \/ PublishHeader
           \/ CheckpointSync \/ WalClear
  BY <1>0, <1>6 DEF Restore, Bench, BulkBegin, Backup, TrimBuild, TxnStage, TxnWrite, TxnOver,
     WalCommit, CdcPublish, ApplySlot, PublishHeader, CheckpointSync, WalClear
<1>7. CASE \/ RestoreApply \/ RestoreLost \/ (\E v \in Vals : BenchRow(v)) \/ BenchApply
           \/ BulkCloseSync \/ EmitReset \/ ClearReset \/ TrimSwap
  BY <1>0, <1>7 DEF RestoreApply, RestoreLost, BenchRow, BenchApply, ReplaceTable,
     BulkCloseSync, EmitReset, ClearReset, TrimSwap
<1>8. CASE \/ RecoverReset \/ CheckAligned \/ Open \/ WalRecover \/ BulkClear
           \/ Close \/ ProcessEnds \/ PowerLoss
  BY <1>0, <1>8 DEF RecoverReset, CheckAligned, Open, WalRecover, BulkClear, ReplaceTable,
     Close, ProcessEnds, PowerLoss, Forget
<1>. QED
  BY <1>1, <1>2, <1>3, <1>4, <1>5, <1>6, <1>7, <1>8
  DEF Next, Command, Step, Environment

\* A loss of power leaves a sound file, or an operation to be done again.
LEMMA PowerSound ==
  ASSUME TypeOK, TableInv, CleanInv, PowerLoss, hdr'.bulk = "NONE"
  PROVE  Sound(Replayed')
<1>1. /\ wal' = wal /\ hdr' \in {hdr, hdr_safe}
      /\ \A s \in Slots : slots'[s] \in {slots[s], slots_safe[s]}
  BY DEF PowerLoss, Forget, logVars
<1>2. CASE wal.marked
  <2>1. Replayed' = Replayed
    BY <1>1, <1>2, PowerKeepsReplay DEF Replayed
  <2>2. hdr.bulk = hdr_safe.bulk
    BY <1>2 DEF CleanInv, BulkFlushed, TableInv, WalPhases, ReplayPcs
  <2>. QED
    BY <1>1, <2>1, <2>2 DEF CleanInv, FileSound
<1>3. CASE ~wal.marked
  <2>1. slots' \in Tables
    BY <1>1, CountTypes DEF PowerLoss, Tables
  <2>2. Replayed' = slots'
    BY <1>1, <1>3, <2>1, ReplayUnmarked DEF Replayed
  <2>3. CASE pc \in {"truncate", "bulk_close", "bulk_closed"}
    <3>1. Sound(slots_safe) /\ Thinned(slots, slots_safe)
      BY <2>3 DEF CleanInv, FlushedSound
    <3>2. Thinned(slots', slots_safe)
      BY <1>1, <3>1 DEF Thinned
    <3>. QED
      BY <2>2, <3>1, <3>2, ThinnedSound, CountTypes
  <2>4. CASE pc = "bulk_sync"
    BY <1>1, <2>4 DEF CleanInv, BulkAnnounced
  <2>5. CASE pc \notin {"truncate", "bulk_close", "bulk_closed", "bulk_sync"}
    <3>1. slots = slots_safe /\ hdr = hdr_safe
      BY <1>3, <2>5 DEF TableInv, WalPhases, ReplayPcs, Flushed, Writing
    <3>2. slots' = slots
      BY <3>1, PowerAfterFlush
    <3>3. Replayed = slots
      BY <1>3, ReplayUnmarked, CountTypes DEF Replayed
    <3>. QED
      BY <1>1, <2>2, <3>1, <3>2, <3>3 DEF CleanInv, FileSound
  <2>. QED
    BY <2>3, <2>4, <2>5
<1>. QED
  BY <1>2, <1>3

LEMMA FileSoundStep ==
  ASSUME TypeOK, TypeOK', TableInv, CleanInv, Next, "BEGIN" \notin Commands
  PROVE  FileSound'
<1>. USE DEF Header, Ready, Idle, txnVars, bulkVars, memVars, logVars, datVars
<1>0. ASSUME hdr'.bulk = hdr.bulk, Replayed' = Replayed PROVE FileSound'
  BY <1>0 DEF CleanInv, FileSound
<1>a. ASSUME UNCHANGED <<hdr, slots, wal>> PROVE FileSound'
  BY <1>0, <1>a DEF Replayed
<1>b. ASSUME hdr'.bulk # "NONE" PROVE FileSound'
  BY <1>b DEF FileSound
<1>c. ASSUME hdr'.bulk = hdr.bulk, slots' = slots, ~wal.marked, ~wal'.marked PROVE FileSound'
  <2>1. Replay(wal, slots) = slots /\ Replay(wal', slots) = slots
    BY <1>c, ReplayUnmarked, CountTypes
  <2>. QED
    BY <1>0, <1>c, <2>1 DEF Replayed
<1>1. CASE \/ (\E id \in Ids, v \in Vals : Insert(id, v) \/ Update(id, v))
           \/ (\E id \in Ids : Delete(id))
  <2>1. UNCHANGED <<hdr, slots, wal>>
    BY <1>1 DEF Insert, Update, Delete, Mutate
  <2>. QED
    BY <1>a, <2>1
<1>2. CASE \/ Backup \/ (\E s \in 0 .. MaxSeq : TrimBuild(s)) \/ TxnStage \/ CdcPublish
           \/ CheckpointSync \/ TruncateEnd \/ RestoreLost \/ (\E v \in Vals : BenchRow(v))
           \/ BulkSync \/ BulkCloseSync \/ EmitReset \/ TrimSwap
  BY <1>a, <1>2 DEF Backup, TrimBuild, TxnStage, CdcPublish, CheckpointSync, TruncateEnd,
     RestoreLost, BenchRow, BulkSync, BulkCloseSync, EmitReset, TrimSwap
<1>3. CASE RecoverReset \/ CheckAligned \/ Open \/ Close \/ ProcessEnds \/ LoseBackup \/ LoseLog
  BY <1>a, <1>3 DEF RecoverReset, CheckAligned, Open, Close, ProcessEnds, Forget, LoseBackup,
     LoseLog
<1>4. CASE TxnWrite \/ WalRecover
  <2>1. CASE wal' = wal
    BY <1>4, <1>a, <2>1 DEF TxnWrite, WalRecover
  <2>2. CASE wal' # wal
    <3>1. UNCHANGED <<hdr, slots>> /\ ~wal.marked /\ ~wal'.marked
      BY <1>4, <2>2 DEF TxnWrite, WalRecover, NoWal, TableInv, WalPhases, ReplayPcs
    <3>. QED
      BY <1>c, <3>1
  <2>. QED
    BY <2>1, <2>2
<1>5. CASE WalCommit
  <2>1. Replayed' = table /\ Sound(table)
    BY <1>5, CommitIsTable DEF Replayed
  <2>. QED
    BY <2>1 DEF FileSound
<1>6. CASE ApplySlot
  <2>1. Replayed' = Replayed /\ hdr' = hdr
    BY <1>6, ApplyKeepsReplay DEF Replayed, ApplySlot
  <2>. QED
    BY <1>0, <2>1
<1>7. CASE PublishHeader \/ ClearReset
  <2>1. UNCHANGED <<slots, wal>> /\ hdr'.bulk = bulk_kind /\ Running
    BY <1>7 DEF PublishHeader, ClearReset, Running
  <2>2. bulk_kind = hdr.bulk
    BY <2>1 DEF TableInv, HeaderMirrors
  <2>. QED
    BY <1>0, <2>1, <2>2 DEF Replayed
<1>8. CASE WalClear
  <2>1. pc = "wal_clear" /\ ~wal'.marked /\ UNCHANGED <<hdr, slots>>
    BY <1>8 DEF WalClear, NoWal
  <2>2. OneEach(wal.frame) /\ ImagesIn(wal.frame, slots)
    BY <2>1 DEF TableInv, WalPhases, Written, ReplayPcs
  <2>3. Replayed' = Replayed
    BY <2>1, <2>2, ReplayWritten, ReplayUnmarked, CountTypes DEF Replayed
  <2>. QED
    BY <1>0, <2>1, <2>3
<1>9. CASE Truncate \/ Restore \/ Bench
  BY <1>9, <1>b DEF Truncate, Restore, Bench, BulkBegin
<1>10. CASE TruncateSlot
  BY <1>10, <1>b DEF TruncateSlot, CleanInv, BulkAnnounced
<1>11. CASE RestoreApply \/ BenchApply \/ BulkClear
  <2>1. hdr'.bulk = bulk_kind /\ pc \in {"restore", "bench", "bulk_clear"}
    BY <1>11 DEF RestoreApply, BenchApply, BulkClear, ReplaceTable
  <2>2. bulk_kind = hdr.bulk /\ hdr.bulk # "NONE"
    BY <2>1 DEF TableInv, HeaderMirrors, Running, CleanInv, BulkAnnounced
  <2>. QED
    BY <1>b, <2>1, <2>2
<1>12. CASE BulkClose
  <2>1. pc = "bulk_close" /\ UNCHANGED <<slots, wal>>
    BY <1>12 DEF BulkClose
  <2>2. Sound(slots) /\ Replayed = slots
    BY <2>1, MemoryIsFile
  <2>. QED
    BY <2>1, <2>2 DEF FileSound, Replayed
<1>13. CASE PowerLoss
  BY <1>13, PowerSound DEF FileSound
<1>14. ~(Rollback \/ Commit \/ Begin \/ TruncateInTxn \/ CaptureSlot \/ ClearInTxn)
  BY NoneOpen DEF CleanInv
<1>. QED
  BY <1>1, <1>2, <1>3, <1>4, <1>5, <1>6, <1>7, <1>8, <1>9, <1>10, <1>11, <1>12, <1>13, <1>14
  DEF Next, Command, Step, Environment

LEMMA CleanInit == Init => CleanInv
<1>. SUFFICES ASSUME Init PROVE CleanInv
  OBVIOUS
<1>1. pc = "down" /\ ~opening /\ hdr.bulk = "NONE" /\ hdr_safe.bulk = "NONE"
      /\ backup = NoBackup /\ slots = EmptyTable /\ ~wal.marked
  BY DEF Init, Header, NoWal
<1>2. Replayed = EmptyTable
  BY <1>1, ReplayUnmarked, EmptyTableType DEF Replayed
<1>3. Sound(EmptyTable)
  BY CountNone, SoundNone
<1>. QED
  BY <1>1, <1>2, <1>3
  DEF CleanInv, BulkAnnounced, BenchTable, OneStatement, BulkFlushed, TableSound, Mapped,
      BenchSound, BackupSound, FileSound, FlushedSound, ReplayPcs

LEMMA CleanCorrect ==
  ASSUME "BEGIN" \notin Commands
  PROVE  Spec => []CleanInv
<1>1. Init => CleanInv
  BY CleanInit
<1>2. TypeOK /\ TypeOK' /\ TableInv /\ CleanInv /\ [Next]_vars => CleanInv'
  <2>1. ASSUME CleanInv, UNCHANGED vars PROVE CleanInv'
    BY <2>1
    DEF CleanInv, BulkAnnounced, BenchTable, OneStatement, BulkFlushed, TableSound, Mapped,
        BenchSound, BackupSound, FileSound, FlushedSound, Replayed,
        vars, memVars, txnVars, bulkVars, logVars, datVars
  <2>2. ASSUME TypeOK, TypeOK', TableInv, CleanInv, Next PROVE CleanInv'
    <3>1. BulkAnnounced' /\ BenchTable'
      BY <2>2, BulkAnnouncedStep, BenchTableStep DEF CleanInv
    <3>2. OneStatement' /\ BulkFlushed'
      BY <2>2, OneStatementStep, BulkFlushedStep DEF CleanInv
    <3>3. TableSound' /\ BenchSound' /\ BackupSound'
      BY <2>2, TableSoundStep, BenchSoundStep, BackupSoundStep
    <3>4. FileSound' /\ FlushedSound'
      BY <2>2, FileSoundStep, FlushedSoundStep
    <3>. QED
      BY <3>1, <3>2, <3>3, <3>4 DEF CleanInv
  <2>. QED
    BY <2>1, <2>2
<1>. QED
  BY <1>1, <1>2, TypeCorrect, TableCorrect, PTL DEF Spec

\* VERIFY finds nothing: every row is found by its id, in the session that wrote it, in
\* every later one and after any crash of a commit, of a whole-table operation and of an
\* open, as long as a transaction has one statement.
THEOREM RowsAlwaysFound ==
  ASSUME "BEGIN" \notin Commands
  PROVE  Spec => []VerifyClean
<1>1. TypeOK /\ CleanInv => VerifyClean
  <2>. SUFFICES ASSUME TypeOK, CleanInv, Ready PROVE AllReachable(table)
    BY DEF VerifyClean
  <2>1. Sound(table) /\ table \in Tables
    BY CountTypes DEF CleanInv, TableSound, Mapped, Ready
  <2>. QED
    BY <2>1, SoundIsClean
<1>. QED
  BY <1>1, TypeCorrect, CleanCorrect, PTL

-----------------------------------------------------------------------------
(* What a consumer makes of a frame: an induction over its entries *)

LEMMA LeastNumber ==
  ASSUME NEW T, T \subseteq Nat, T # {}
  PROVE  \E x \in T : \A y \in T : x <= y
<1>. DEFINE R == OpToRel(<, Nat)
<1>1. IsWellFoundedOn(R, Nat)
  BY NatLessThanWellFounded
<1>2. \A m, n \in Nat : m < n => <<m, n>> \in R
  BY DEF OpToRel
<1>. HIDE DEF R
<1>3. PICK x \in T : \A y \in T : <<y, x>> \notin R
  BY <1>1, WFMin
<1>4. \A y \in T : ~(y < x)
  BY <1>2, <1>3
<1>. QED
  BY <1>4

\* Induction, on the set of the numbers that have the property.
LEMMA CountingUp ==
  ASSUME NEW S, 0 \in S, \A n \in Nat : n \in S => n + 1 \in S
  PROVE  Nat \subseteq S
<1>. SUFFICES ASSUME Nat \ S # {} PROVE FALSE
  OBVIOUS
<1>1. PICK x \in Nat \ S : \A y \in Nat \ S : x <= y
  BY LeastNumber
<1>2. x # 0 /\ x - 1 \in Nat
  BY <1>1
<1>3. x - 1 \in S
  BY <1>1, <1>2
<1>. QED
  BY <1>1, <1>2, <1>3

\* One or two operations, one after the other.
LEMMA ConsumedNone ==
  ASSUME NEW rows
  PROVE  ConsumedAll(rows, <<>>) = rows
<1>. DEFINE Fix(f) == f = [i \in 0 .. 0 |-> IF i = 0 THEN rows ELSE Consumed(f[i - 1], <<>>[i])]
            all == CHOOSE f : Fix(f)
            g == [i \in 0 .. 0 |-> rows]
<1>1. Fix(g)
  <2>. DEFINE h == [i \in 0 .. 0 |-> IF i = 0 THEN rows ELSE Consumed(g[i - 1], <<>>[i])]
  <2>1. \A i \in 0 .. 0 : g[i] = h[i]
    OBVIOUS
  <2>. QED
    BY <2>1
<1>2. Fix(all)
  BY <1>1
<1>3. all[0] = rows
  BY <1>2
<1>4. ConsumedAll(rows, <<>>) = all[Len(<<>>)]
  BY DEF ConsumedAll
<1>. HIDE DEF all
<1>. QED
  BY <1>3, <1>4

LEMMA ConsumedOne ==
  ASSUME NEW rows, NEW a
  PROVE  ConsumedAll(rows, <<a>>) = Consumed(rows, a)
<1>. DEFINE q == <<a>>
            Fix(f) == f = [i \in 0 .. Len(q) |-> IF i = 0 THEN rows ELSE Consumed(f[i - 1], q[i])]
            all == CHOOSE f : Fix(f)
            g == [i \in 0 .. Len(q) |-> IF i = 0 THEN rows ELSE Consumed(rows, a)]
<1>1. Len(q) = 1 /\ q[1] = a
  OBVIOUS
<1>. HIDE DEF q
<1>2. Fix(g)
  <2>. DEFINE h == [i \in 0 .. Len(q) |-> IF i = 0 THEN rows ELSE Consumed(g[i - 1], q[i])]
  <2>1. \A i \in 0 .. Len(q) : g[i] = h[i]
    BY <1>1
  <2>. QED
    BY <2>1
<1>3. Fix(all)
  BY <1>2
<1>4. ConsumedAll(rows, q) = all[Len(q)]
  BY DEF ConsumedAll
<1>. HIDE DEF all
<1>5. all[0] = rows /\ all[1] = Consumed(all[0], q[1])
  <2>. 0 \in 0 .. Len(q) /\ 1 \in 0 .. Len(q) /\ 1 - 1 = 0
    BY <1>1
  <2>. QED
    BY <1>3
<1>. QED
  BY <1>1, <1>4, <1>5 DEF q

LEMMA ConsumedTwo ==
  ASSUME NEW rows, NEW a, NEW b
  PROVE  ConsumedAll(rows, <<a, b>>) = Consumed(Consumed(rows, a), b)
<1>. DEFINE q == <<a, b>>
            Fix(f) == f = [i \in 0 .. Len(q) |-> IF i = 0 THEN rows ELSE Consumed(f[i - 1], q[i])]
            all == CHOOSE f : Fix(f)
            one == Consumed(rows, a)
            g == [i \in 0 .. Len(q) |-> IF i = 0 THEN rows
                                        ELSE IF i = 1 THEN one ELSE Consumed(one, b)]
<1>1. Len(q) = 2 /\ q[1] = a /\ q[2] = b
  OBVIOUS
<1>. HIDE DEF q
<1>2. Fix(g)
  <2>. DEFINE h == [i \in 0 .. Len(q) |-> IF i = 0 THEN rows ELSE Consumed(g[i - 1], q[i])]
  <2>0. g[0] = rows /\ g[1] = one /\ g[2] = Consumed(one, b)
    BY <1>1
  <2>1. \A i \in 0 .. Len(q) : i = 0 \/ i = 1 \/ i = 2
    BY <1>1
  <2>2. h[0] = rows /\ h[1] = Consumed(g[0], q[1]) /\ h[2] = Consumed(g[1], q[2])
    BY <1>1
  <2>3. \A i \in 0 .. Len(q) : g[i] = h[i]
    BY <1>1, <2>0, <2>1, <2>2
  <2>. QED
    BY <2>3
<1>3. Fix(all)
  BY <1>2
<1>4. ConsumedAll(rows, q) = all[Len(q)]
  BY DEF ConsumedAll
<1>. HIDE DEF all
<1>5. all[0] = rows /\ all[1] = Consumed(all[0], q[1]) /\ all[2] = Consumed(all[1], q[2])
  <2>. /\ 0 \in 0 .. Len(q) /\ 1 \in 0 .. Len(q) /\ 2 \in 0 .. Len(q)
       /\ 1 - 1 = 0 /\ 2 - 1 = 1
    BY <1>1
  <2>. QED
    BY <1>3
<1>. QED
  BY <1>1, <1>4, <1>5 DEF q

\* A consumer that has g[i] after i entries has g[n] after all of them.
Consuming(rows, c, n, D, g) ==
  /\ n \in Nat /\ Len(c.ops) = n
  /\ g \in [0 .. n -> D] /\ g[0] = rows
  /\ \A i \in 1 .. n : g[i] = ConsumedAll(g[i - 1], c.ops[i])

LEMMA ConsumedSteps ==
  ASSUME NEW rows, NEW c, NEW n, NEW D, NEW g, Consuming(rows, c, n, D, g)
  PROVE  ConsumedFrame(rows, c) = g[n]
<1>. /\ n \in Nat /\ Len(c.ops) = n
     /\ g \in [0 .. n -> D] /\ g[0] = rows
     /\ \A i \in 1 .. n : g[i] = ConsumedAll(g[i - 1], c.ops[i])
  BY DEF Consuming
<1>. DEFINE Fix(f) == f = [i \in 0 .. Len(c.ops) |->
                             IF i = 0 THEN rows ELSE ConsumedAll(f[i - 1], c.ops[i])]
            all == CHOOSE f : Fix(f)
<1>1. Fix(g)
  <2>. DEFINE h == [i \in 0 .. Len(c.ops) |->
                      IF i = 0 THEN rows ELSE ConsumedAll(g[i - 1], c.ops[i])]
  <2>1. ASSUME NEW i \in 0 .. n PROVE g[i] = h[i]
    <3>1. h[i] = IF i = 0 THEN rows ELSE ConsumedAll(g[i - 1], c.ops[i])
      OBVIOUS
    <3>. HIDE DEF h
    <3>2. CASE i = 0
      BY <3>1, <3>2
    <3>3. CASE i \in 1 .. n
      BY <3>1, <3>3
    <3>. QED
      BY <3>2, <3>3
  <2>2. h = [i \in 0 .. n |-> h[i]] /\ g = [i \in 0 .. n |-> g[i]]
    OBVIOUS
  <2>. HIDE DEF h
  <2>3. g = h
    BY <2>1, <2>2
  <2>. QED
    BY <2>3 DEF h
<1>2. Fix(all)
  BY <1>1
<1>3. ConsumedFrame(rows, c) = all[Len(c.ops)]
  BY DEF ConsumedFrame
<1>. HIDE DEF all
<1>4. \A i \in 0 .. n : all[i] = IF i = 0 THEN rows ELSE ConsumedAll(all[i - 1], c.ops[i])
  BY <1>2
<1>. DEFINE S == {i \in Nat : i <= n => all[i] = g[i]}
<1>5. 0 \in S
  BY <1>4
<1>6. ASSUME NEW i \in Nat, i \in S PROVE i + 1 \in S
  <2>. SUFFICES ASSUME i + 1 <= n PROVE all[i + 1] = g[i + 1]
    OBVIOUS
  <2>1. i + 1 \in 1 .. n /\ i + 1 \in 0 .. n /\ i + 1 # 0 /\ (i + 1) - 1 = i /\ all[i] = g[i]
    BY <1>6
  <2>. HIDE DEF Fix, S
  <2>2. all[i + 1] = ConsumedAll(all[i], c.ops[i + 1])
    BY <1>4, <2>1
  <2>. QED
    BY <2>1, <2>2
<1>. HIDE DEF S
<1>7. n \in S
  BY <1>5, <1>6, CountingUp
<1>. QED
  BY <1>3, <1>7 DEF S

LEMMA Pair ==
  ASSUME NEW a, NEW b
  PROVE  <<a>> \o <<b>> = <<a, b>> /\ <<a>> \o <<>> = <<a>> /\ <<>> \o <<b>> = <<b>>
<1>. DEFINE S == {a, b}
<1>1. <<a>> \in Seq(S) /\ <<b>> \in Seq(S) /\ <<a, b>> \in Seq(S)
  OBVIOUS
<1>2. <<a>> \o <<b>> \in Seq(S) /\ Len(<<a>> \o <<b>>) = 2
  BY <1>1, ConcatProperties
<1>3. (<<a>> \o <<b>>)[1] = a /\ (<<a>> \o <<b>>)[2] = b
  BY <1>1, ConcatProperties
<1>4. <<a>> \o <<b>> = <<a, b>>
  <2>. DEFINE p == <<a>> \o <<b>>
              q == <<a, b>>
  <2>1. Len(q) = 2 /\ q[1] = a /\ q[2] = b
    OBVIOUS
  <2>. HIDE DEF p, q, S
  <2>2. \A i \in 1 .. Len(p) : p[i] = q[i]
    BY <1>2, <1>3, <2>1 DEF p
  <2>. QED
    BY <1>1, <1>2, <2>1, <2>2, SeqEqual DEF p, q
<1>. QED
  BY <1>1, <1>4, ConcatEmptySeq

\* One entry: its operations take its slot from what it held before, or from its image
\* already, to its image, if no other slot holds one of its rows.
LEMMA EntryConsumed ==
  ASSUME NEW m \in Tables, NEW e \in WalEntries,
         Same(m[e.slot], e.prev) \/ m[e.slot] = e.image,
         \A o \in LiveSlots(m) : o # e.slot =>
           ~Holds(e.prev, m[o].id) /\ ~Holds(e.image, m[o].id)
  PROVE  ConsumedAll(RowsOf(m), EntryOps(e)) = RowsOf([m EXCEPT ![e.slot] = e.image])
<1>. DEFINE s == e.slot
            after == [m EXCEPT ![s] = e.image]
            others == {m[o] : o \in LiveSlots(m) \ {s}}
            own(rec) == IF Live(rec) THEN {rec} ELSE {}
            gone == [op |-> "DELETE", id |-> e.prev.id]
            comes == [op |-> "UPSERT", id |-> e.image.id, val |-> e.image.val]
<1>1. s \in Slots /\ e.prev \in Record /\ e.image \in Record
  BY DEF WalEntries
<1>2. RowsOf(m) = others \cup own(m[s])
  BY <1>1 DEF RowsOf, LiveSlots
<1>3. \A o \in Slots : after[o] = IF o = s THEN e.image ELSE m[o]
  BY <1>1 DEF Tables
<1>. HIDE DEF after
<1>4. LiveSlots(after) \ {s} = LiveSlots(m) \ {s}
  BY <1>3 DEF LiveSlots
<1>5. RowsOf(after) = {after[o] : o \in LiveSlots(after) \ {s}} \cup own(e.image)
  BY <1>1, <1>3 DEF RowsOf, LiveSlots
<1>6. {after[o] : o \in LiveSlots(after) \ {s}} = others
  BY <1>3, <1>4 DEF LiveSlots
<1>7. RowsOf(after) = others \cup own(e.image)
  BY <1>5, <1>6
<1>8. \A r \in others : /\ Live(e.prev) => r.id # e.prev.id
                        /\ Live(e.image) => r.id # e.image.id
  BY DEF Holds, LiveSlots
<1>9. Live(e.image) => e.image = Row(e.image.id, e.image.val)
  BY <1>1, LiveType DEF Rows, Row
<1>10. own(m[s]) = own(e.prev) \/ own(m[s]) = own(e.image)
  BY SameIsEquality
<1>11. EntryOps(e) = IF Live(e.prev) /\ ~Holds(e.image, e.prev.id)
                       THEN IF Live(e.image) THEN <<gone, comes>> ELSE <<gone>>
                       ELSE IF Live(e.image) THEN <<comes>> ELSE <<>>
  <2>1. EntryOps(e) = (IF Live(e.prev) /\ ~Holds(e.image, e.prev.id) THEN <<gone>> ELSE <<>>)
                       \o (IF Live(e.image) THEN <<comes>> ELSE <<>>)
    BY DEF EntryOps
  <2>. HIDE DEF gone, comes
  <2>2. /\ <<gone>> \o <<comes>> = <<gone, comes>>
        /\ <<gone>> \o <<>> = <<gone>> /\ <<>> \o <<comes>> = <<comes>>
        /\ <<>> \o <<>> = <<>>
    BY Pair, ConcatEmptySeq
  <2>. QED
    BY <2>1, <2>2
<1>12. /\ \A rows : Consumed(rows, gone) = {r \in rows : r.id # e.prev.id}
       /\ \A rows : Consumed(rows, comes) =
            {r \in rows : r.id # e.image.id} \cup {Row(e.image.id, e.image.val)}
  BY DEF Consumed
<1>. HIDE DEF others, gone, comes
<1>13. CASE Live(e.prev) /\ ~Holds(e.image, e.prev.id) /\ Live(e.image)
  <2>1. Consumed(RowsOf(m), gone) = others \cup (own(m[s]) \ {e.prev})
    BY <1>2, <1>8, <1>10, <1>12, <1>13 DEF Holds
  <2>2. Consumed(Consumed(RowsOf(m), gone), comes) = others \cup {e.image}
    BY <1>8, <1>9, <1>10, <1>12, <1>13, <2>1
  <2>3. EntryOps(e) = <<gone, comes>> /\ own(e.image) = {e.image}
    BY <1>11, <1>13
  <2>4. ConsumedAll(RowsOf(m), EntryOps(e)) = others \cup {e.image}
    BY <2>2, <2>3, ConsumedTwo
  <2>. QED
    BY <1>7, <2>3, <2>4 DEF after
<1>14. CASE Live(e.prev) /\ ~Holds(e.image, e.prev.id) /\ ~Live(e.image)
  <2>1. Consumed(RowsOf(m), gone) = others
    BY <1>2, <1>8, <1>10, <1>12, <1>14
  <2>. QED
    BY <1>7, <1>11, <1>14, <2>1, ConsumedOne DEF after
<1>15. CASE ~(Live(e.prev) /\ ~Holds(e.image, e.prev.id)) /\ Live(e.image)
  <2>1. Consumed(RowsOf(m), comes) = others \cup {e.image}
    BY <1>2, <1>8, <1>9, <1>10, <1>12, <1>15 DEF Holds
  <2>. QED
    BY <1>7, <1>11, <1>15, <2>1, ConsumedOne DEF after
<1>16. CASE ~(Live(e.prev) /\ ~Holds(e.image, e.prev.id)) /\ ~Live(e.image)
  <2>1. own(m[s]) = {}
    BY <1>10, <1>16 DEF Holds
  <2>. QED
    BY <1>2, <1>7, <1>11, <1>16, <2>1, ConsumedNone DEF after
<1>. QED
  BY <1>13, <1>14, <1>15, <1>16

-----------------------------------------------------------------------------
(* A frame that tells the table: each entry's slot is as it was captured, or as it *)
(* will be, and no row is at home in two slots, before, after or in the frame       *)

FrameFits(f, v) ==
  \A i \in 1 .. Len(f.entries) :
    LET e == f.entries[i] IN Same(v[e.slot], e.prev) \/ v[e.slot] = e.image
Named(f, v, s, id) ==
  \/ Holds(v[s], id)
  \/ \E i \in 1 .. Len(f.entries) :
       LET e == f.entries[i] IN e.slot = s /\ (Holds(e.prev, id) \/ Holds(e.image, id))
Apart(f, v) ==
  \A s, o \in Slots, id \in Ids : Named(f, v, s, id) /\ Named(f, v, o, id) => s = o

LEMMA FrameConsumed ==
  ASSUME NEW w \in Wals, w.marked, NEW v \in Tables, ~w.frame.reset,
         OneEach(w.frame), FrameFits(w.frame, v), Apart(w.frame, v)
  PROVE  ConsumedFrame(RowsOf(v), ChangeFrame(w.frame)) = RowsOf(Replay(w, v))
<1>. DEFINE f == w.frame
            n == Len(f.entries)
            last == Replay(w, v)
            part(i) == [s \in Slots |->
                          IF \E j \in 1 .. i : f.entries[j].slot = s THEN last[s] ELSE v[s]]
            g == [i \in 0 .. n |-> RowsOf(part(i))]
<1>1. /\ f \in Frames /\ n \in Nat
      /\ \A i \in 1 .. n : f.entries[i] \in WalEntries /\ f.entries[i].slot \in Slots
  <2>1. f \in Frames
    BY DEF Wals
  <2>2. f.entries \in Seq(WalEntries) /\ n \in Nat
    BY <2>1 DEF Frames
  <2>3. \A i \in 1 .. n : f.entries[i] \in WalEntries
    BY <2>2
  <2>. QED
    BY <2>1, <2>2, <2>3 DEF WalEntries
<1>2. ChangeFrame(f).ops = [i \in 1 .. n |-> EntryOps(f.entries[i])]
  BY DEF ChangeFrame
<1>3. Len(ChangeFrame(f).ops) = n
  BY <1>1, <1>2
<1>4. /\ \A i \in 1 .. n : last[f.entries[i].slot] = f.entries[i].image
      /\ \A s \in Slots : s \notin EntrySlots(f) => last[s] = v[s]
      /\ last = [s \in Slots |-> last[s]]
  <2>1. last = [s \in Slots |-> last[s]]
    BY DEF Replay
  <2>. QED
    BY <1>1, <2>1, ReplayAt
<1>. HIDE DEF last
<1>5. part(0) = v
  BY DEF Tables
<1>6. part(n) = last
  <2>1. \A s \in Slots : part(n)[s] = last[s]
    BY <1>4 DEF EntrySlots
  <2>. QED
    BY <1>4, <2>1
<1>7. ASSUME NEW i \in 1 .. n
      PROVE  /\ part(i - 1) \in Tables
             /\ part(i) = [part(i - 1) EXCEPT ![f.entries[i].slot] = f.entries[i].image]
             /\ part(i - 1)[f.entries[i].slot] = v[f.entries[i].slot]
  <2>1. \A j \in 1 .. i : j \in 1 .. i - 1 \/ j = i
    BY <1>1
  <2>2. \A j \in 1 .. i - 1 : j \in 1 .. i /\ j \in 1 .. n /\ j # i
    BY <1>1
  <2>3. ~\E j \in 1 .. i - 1 : f.entries[j].slot = f.entries[i].slot
    BY <2>2 DEF OneEach
  <2>4. i \in 1 .. i
    OBVIOUS
  <2>5. \A s \in Slots : part(i)[s] = IF s = f.entries[i].slot THEN f.entries[i].image
                                      ELSE part(i - 1)[s]
    BY <1>4, <2>1, <2>2, <2>4
  <2>6. part(i - 1) \in Tables
    <3>. SUFFICES ASSUME NEW s \in Slots PROVE part(i - 1)[s] \in Record
      BY DEF Tables
    <3>1. \A j \in 1 .. i - 1 : f.entries[j].image \in Record
      BY <1>1, <2>2 DEF WalEntries
    <3>. QED
      BY <1>4, <2>2, <3>1 DEF Tables
  <2>7. part(i - 1)[f.entries[i].slot] = v[f.entries[i].slot]
    BY <1>1, <2>3
  <2>8. part(i) = [s \in Slots |-> part(i)[s]]
    OBVIOUS
  <2>. HIDE DEF part
  <2>9. part(i) = [part(i - 1) EXCEPT ![f.entries[i].slot] = f.entries[i].image]
    BY <1>1, <2>5, <2>6, <2>8 DEF Tables
  <2>. QED
    BY <2>6, <2>7, <2>9
<1>8. ASSUME NEW i \in 1 .. n
      PROVE  ConsumedAll(RowsOf(part(i - 1)), EntryOps(f.entries[i])) = RowsOf(part(i))
  <2>. DEFINE m == part(i - 1)
              e == f.entries[i]
  <2>1. \A s \in Slots : m[s] = v[s] \/ \E j \in 1 .. n : f.entries[j].slot = s
                                                           /\ m[s] = f.entries[j].image
    <3>1. \A j \in 1 .. i - 1 : j \in 1 .. n
      BY <1>1
    <3>. QED
      BY <1>4, <3>1
  <2>2. m \in Tables /\ e \in WalEntries /\ e.slot \in Slots /\ m[e.slot] = v[e.slot]
    BY <1>1, <1>7
  <2>3. Same(m[e.slot], e.prev) \/ m[e.slot] = e.image
    BY <2>2 DEF FrameFits
  <2>. HIDE DEF m
  <2>4. ASSUME NEW o \in LiveSlots(m), o # e.slot
        PROVE  ~Holds(e.prev, m[o].id) /\ ~Holds(e.image, m[o].id)
    <3>1. o \in Slots /\ Live(m[o]) /\ m[o].id \in Ids
      BY <2>2, LiveRow
    <3>2. Named(f, v, o, m[o].id)
      BY <2>1, <3>1 DEF Named, Holds
    <3>3. Holds(e.prev, m[o].id) \/ Holds(e.image, m[o].id) => Named(f, v, e.slot, m[o].id)
      BY DEF Named
    <3>. QED
      BY <2>2, <2>4, <3>1, <3>2, <3>3 DEF Apart
  <2>5. ConsumedAll(RowsOf(m), EntryOps(e)) = RowsOf([m EXCEPT ![e.slot] = e.image])
    BY <2>2, <2>3, <2>4, EntryConsumed
  <2>. QED
    BY <1>7, <2>5 DEF m
<1>. HIDE DEF part
<1>. DEFINE D == {RowsOf(part(i)) : i \in 0 .. n}
<1>9. /\ g \in [0 .. n -> D] /\ g[0] = RowsOf(v) /\ g[n] = RowsOf(last)
      /\ \A i \in 1 .. n : g[i - 1] = RowsOf(part(i - 1)) /\ g[i] = RowsOf(part(i))
  BY <1>1, <1>5, <1>6
<1>. HIDE DEF g, n, f, D
<1>10. \A i \in 1 .. n : g[i] = ConsumedAll(g[i - 1], ChangeFrame(f).ops[i])
  BY <1>2, <1>8, <1>9
<1>11. ConsumedFrame(RowsOf(v), ChangeFrame(f)) = g[n]
  <2>. DEFINE c == ChangeFrame(f)
  <2>1. n \in Nat /\ Len(c.ops) = n
    BY <1>1, <1>3
  <2>2. g \in [0 .. n -> D] /\ g[0] = RowsOf(v)
    BY <1>9
  <2>3. \A i \in 1 .. n : g[i] = ConsumedAll(g[i - 1], c.ops[i])
    BY <1>10
  <2>4. Consuming(RowsOf(v), c, n, D, g)
    BY <2>1, <2>2, <2>3 DEF Consuming
  <2>. QED
    BY <2>4, ConsumedSteps
<1>. QED
  BY <1>9, <1>11 DEF f, last

-----------------------------------------------------------------------------
(* The invariant behind a frame that tells the table: what an entry says its slot  *)
(* held is what the file held when the transaction was staged, and each slot of a  *)
(* committed frame has that or its image, in both states of the file               *)

Before(f, v) ==
  \A i \in 1 .. Len(f.entries) : LET e == f.entries[i] IN Same(v[e.slot], e.prev)
FrameTied ==
  /\ pc \in {"stage", "mark"} => Before(frame, slots)
  /\ wal.marked => FrameFits(wal.frame, slots) /\ FrameFits(wal.frame, slots_safe)

\* No row is named by two slots of a committed frame.
FrameApart == wal.marked => Apart(wal.frame, slots)

\* Writing an image, or losing the write of one, changes neither.
LEMMA FitsKept ==
  ASSUME NEW f, NEW v, NEW w, FrameFits(f, v),
         \A i \in 1 .. Len(f.entries) :
           LET e == f.entries[i]
           IN w[e.slot] = v[e.slot] \/ w[e.slot] = e.image \/ Same(w[e.slot], e.prev)
  PROVE  FrameFits(f, w)
BY DEF FrameFits

LEMMA ApartKept ==
  ASSUME NEW f, NEW v, NEW w, Apart(f, v), FrameFits(f, w),
         \A s \in Slots : w[s] = v[s] \/ s \in EntrySlots(f)
  PROVE  Apart(f, w)
<1>1. ASSUME NEW s \in Slots, NEW id \in Ids, Named(f, w, s, id)
      PROVE  Named(f, v, s, id)
  <2>1. CASE ~Holds(w[s], id) \/ w[s] = v[s]
    BY <1>1, <2>1 DEF Named
  <2>2. CASE Holds(w[s], id) /\ s \in EntrySlots(f)
    <3>1. PICK i \in 1 .. Len(f.entries) : f.entries[i].slot = s
      BY <2>2 DEF EntrySlots
    <3>2. Holds(f.entries[i].prev, id) \/ Holds(f.entries[i].image, id)
      BY <2>2, <3>1, SameIsEquality DEF FrameFits, Holds
    <3>. QED
      BY <3>1, <3>2 DEF Named
  <2>. QED
    BY <2>1, <2>2
<1>. QED
  BY <1>1 DEF Apart

\* While a frame is committed the file changes in its slots only.
LEMMA MarkedWrites ==
  ASSUME TypeOK, TableInv, FrameTied, Next, wal.marked, wal' = wal
  PROVE  /\ \A s \in Slots : slots'[s] = slots[s] \/ s \in EntrySlots(wal.frame)
         /\ FrameFits(wal.frame, slots') /\ FrameFits(wal.frame, slots_safe')
<1>. USE DEF Ready, Idle, txnVars, bulkVars, memVars, logVars, datVars
<1>. DEFINE f == wal.frame
<1>1. /\ pc \in ReplayPcs \cup {"wal_recover", "down", "refused"}
      /\ pc \in ReplayPcs => f = frame
      /\ OneEach(f)
  BY DEF TableInv, WalPhases
<1>2. FrameFits(f, slots) /\ FrameFits(f, slots_safe)
  BY DEF FrameTied
<1>a. \A i \in 1 .. Len(f.entries) : f.entries[i].slot \in Slots
  <2>1. f.entries \in Seq(WalEntries)
    BY CountTypes DEF Wals, Frames
  <2>2. \A i \in 1 .. Len(f.entries) : f.entries[i] \in WalEntries
    BY <2>1
  <2>. QED
    BY <2>2 DEF WalEntries
<1>3. CASE ApplySlot
  <2>. DEFINE e == frame.entries[done + 1]
  <2>1. /\ done < Len(frame.entries) /\ slots_safe' = slots_safe /\ f = frame
        /\ slots' = [slots EXCEPT ![e.slot] = e.image]
    BY <1>1, <1>3 DEF ApplySlot, ReplayPcs
  <2>2. done + 1 \in 1 .. Len(frame.entries)
    BY <2>1, CountTypes
  <2>3. \A s \in Slots : slots'[s] = IF s = e.slot THEN e.image ELSE slots[s]
    BY <2>1, CountTypes DEF Tables
  <2>4. ASSUME NEW i \in 1 .. Len(f.entries)
        PROVE  \/ slots'[f.entries[i].slot] = slots[f.entries[i].slot]
               \/ slots'[f.entries[i].slot] = f.entries[i].image
    <3>1. f.entries[i].slot = e.slot => i = done + 1
      BY <1>1, <2>1, <2>2 DEF OneEach
    <3>. QED
      BY <1>a, <2>1, <2>3, <3>1
  <2>5. FrameFits(f, slots')
    BY <1>2, <2>4, FitsKept
  <2>6. e.slot \in EntrySlots(f)
    BY <2>1, <2>2 DEF EntrySlots
  <2>. QED
    BY <1>2, <2>1, <2>3, <2>5, <2>6
<1>4. CASE PowerLoss
  <2>1. /\ slots_safe' = slots'
        /\ \A s \in Slots : slots'[s] = slots[s] \/ slots'[s] = slots_safe[s]
    BY <1>4 DEF PowerLoss, Synced
  <2>3. FrameFits(f, slots')
    BY <1>2, <1>a, <2>1 DEF FrameFits
  <2>2. \A s \in Slots : slots[s] = slots_safe[s] \/ s \in EntrySlots(f)
    BY <1>1 DEF TableInv, Flushed, Writing, Written, ReplayPcs
  <2>. QED
    BY <2>1, <2>2, <2>3
<1>5. CASE slots' = slots /\ (slots_safe' = slots_safe \/ slots_safe' = slots')
  BY <1>2, <1>5
<1>6. ~(ApplySlot \/ PowerLoss) =>
        slots' = slots /\ (slots_safe' = slots_safe \/ slots_safe' = slots')
  <2>. SUFFICES ASSUME ~(ApplySlot \/ PowerLoss)
                PROVE  slots' = slots /\ (slots_safe' = slots_safe \/ slots_safe' = slots')
    OBVIOUS
  <2>1. CASE CdcPublish \/ PublishHeader \/ CheckpointSync \/ WalClear
    BY <2>1 DEF CdcPublish, PublishHeader, CheckpointSync, WalClear, Synced
  <2>2. CASE WalRecover \/ Open \/ ProcessEnds \/ LoseBackup \/ LoseLog
    BY <2>2 DEF WalRecover, Open, ProcessEnds, LoseBackup, LoseLog, Forget, Synced
  <2>3. ~(Command \/ CaptureSlot \/ ClearInTxn \/ TxnStage \/ TxnWrite \/ WalCommit)
    BY <1>1 DEF Command, Insert, Update, Delete, Begin, Commit, Rollback, TruncateInTxn,
       Truncate, Restore, Bench, BulkBegin, Backup, TrimBuild, Close, CaptureSlot, ClearInTxn,
       TxnStage, TxnWrite, WalCommit, ReplayPcs
  <2>4. ~(TruncateSlot \/ TruncateEnd \/ RestoreApply \/ RestoreLost
          \/ (\E v \in Vals : BenchRow(v)) \/ BenchApply \/ BulkSync \/ BulkClose)
    BY <1>1 DEF TruncateSlot, TruncateEnd, RestoreApply, RestoreLost, BenchRow, BenchApply,
       BulkSync, BulkClose, ReplayPcs
  <2>5. ~(BulkCloseSync \/ EmitReset \/ ClearReset \/ TrimSwap \/ RecoverReset \/ CheckAligned
          \/ BulkClear)
    BY <1>1 DEF BulkCloseSync, EmitReset, ClearReset, TrimSwap, RecoverReset, CheckAligned,
       BulkClear, ReplayPcs
  <2>. QED
    BY <2>1, <2>2, <2>3, <2>4, <2>5 DEF Next, Step, Environment
<1>. QED
  BY <1>3, <1>4, <1>5, <1>6

\* A commit marker is written by WalCommit only.
LEMMA MarkedBy ==
  ASSUME Next, wal'.marked
  PROVE  WalCommit \/ wal' = wal
<1>. USE DEF Ready, Idle, txnVars, bulkVars, memVars, logVars, datVars
<1>1. CASE Command
  <2>1. wal' = wal \/ wal' = NoWal
    BY <1>1 DEF Command, Insert, Update, Delete, Mutate, Begin, Commit, Rollback, TruncateInTxn,
       Truncate, Restore, Bench, BulkBegin, Backup, TrimBuild, Close, Forget
  <2>. QED
    BY <2>1 DEF NoWal
<1>2. CASE Open \/ Environment
  BY <1>2 DEF Open, Environment, ProcessEnds, PowerLoss, Forget, LoseBackup, LoseLog
<1>3. CASE \/ CaptureSlot \/ ClearInTxn \/ TxnStage \/ CdcPublish \/ ApplySlot \/ PublishHeader
           \/ CheckpointSync \/ TruncateSlot \/ TruncateEnd \/ RestoreApply \/ RestoreLost
  BY <1>3 DEF CaptureSlot, ClearInTxn, TxnStage, CdcPublish, ApplySlot, PublishHeader,
     CheckpointSync, TruncateSlot, TruncateEnd, RestoreApply, RestoreLost, ReplaceTable
<1>4. CASE TxnWrite \/ WalClear \/ WalRecover
  BY <1>4 DEF TxnWrite, WalClear, WalRecover, NoWal
<1>5. CASE \/ (\E v \in Vals : BenchRow(v)) \/ BenchApply \/ BulkSync \/ BulkClose
           \/ BulkCloseSync \/ EmitReset \/ ClearReset \/ TrimSwap \/ RecoverReset
           \/ CheckAligned \/ BulkClear
  BY <1>5 DEF BenchRow, BenchApply, BulkSync, BulkClose, BulkCloseSync, EmitReset, ClearReset,
     TrimSwap, RecoverReset, CheckAligned, BulkClear, ReplaceTable
<1>. QED
  BY <1>1, <1>2, <1>3, <1>4, <1>5 DEF Next, Step

LEMMA TiedStep ==
  ASSUME TypeOK, TableInv, FrameTied, Next
  PROVE  FrameTied'
<1>. USE DEF Ready, Idle, txnVars, bulkVars, memVars, logVars, datVars
<1>1. ASSUME pc' \in {"stage", "mark"} PROVE Before(frame', slots')
  <2>1. CASE \/ (\E id \in Ids, v \in Vals : Insert(id, v) \/ Update(id, v))
             \/ (\E id \in Ids : Delete(id)) \/ Commit
    <3>1. frame' = NoFrame
      BY <1>1, <2>1 DEF Insert, Update, Delete, Mutate, Commit, StartFlush
    <3>. QED
      BY <3>1, NothingYet DEF Before
  <2>2. CASE TxnStage
    <3>. DEFINE u == undo[done + 1]
                e == Entry(u, table)
    <3>1. /\ pc = "stage" /\ done < Len(undo) /\ slots' = slots
          /\ frame' = IF SlotChanged(u.before, table[u.slot])
                        THEN Frame(0, FALSE, 0, Append(frame.entries, e)) ELSE frame
      BY <2>2 DEF TxnStage
    <3>2. Before(frame, slots)
      BY <3>1 DEF FrameTied
    <3>3. Same(slots[e.slot], e.prev) /\ e \in WalEntries
      <4>1. UndoExact(undo, table, slots)
        BY <3>1 DEF TableInv, UndoHeld, Loaded
      <4>2. done + 1 \in 1 .. Len(undo)
        BY <3>1, CountTypes
      <4>3. u \in UndoEntries
        BY <4>2, CountTypes
      <4>4. Same(u.before, slots[u.slot])
        BY <4>1, <4>2 DEF UndoExact
      <4>. QED
        BY <4>3, <4>4, EntryType, CountTypes, SameIsEquality DEF Entry
    <3>4. CASE frame' = frame
      BY <3>1, <3>2, <3>4
    <3>5. CASE frame' = Frame(0, FALSE, 0, Append(frame.entries, e))
      <4>. DEFINE g == Append(frame.entries, e)
      <4>1. frame'.entries = g
        BY <3>5 DEF Frame
      <4>2. /\ Len(g) = Len(frame.entries) + 1 /\ Len(frame.entries) \in Nat
            /\ g[Len(frame.entries) + 1] = e
            /\ \A i \in 1 .. Len(frame.entries) : g[i] = frame.entries[i]
        BY <3>3, CountTypes
      <4>. HIDE DEF e, g
      <4>3. \A i \in 1 .. Len(g) : i \in 1 .. Len(frame.entries) \/ i = Len(frame.entries) + 1
        BY <4>2
      <4>. QED
        BY <3>1, <3>2, <3>3, <4>1, <4>2, <4>3 DEF Before
    <3>. QED
      BY <3>1, <3>4, <3>5
  <2>3. CASE TxnWrite
    <3>1. pc = "stage" /\ slots' = slots /\ frame'.entries = frame.entries
      BY <2>3 DEF TxnWrite, Frame
    <3>. QED
      BY <3>1 DEF FrameTied, Before
  <2>4. CASE LoseBackup \/ LoseLog
    BY <1>1, <2>4 DEF LoseBackup, LoseLog, FrameTied
  <2>5. ~(Begin \/ Rollback \/ TruncateInTxn \/ Truncate \/ Restore \/ Bench \/ Backup
          \/ (\E s \in 0 .. MaxSeq : TrimBuild(s)) \/ Close \/ CaptureSlot \/ ClearInTxn
          \/ WalCommit \/ CdcPublish \/ ApplySlot \/ PublishHeader \/ CheckpointSync)
    BY <1>1 DEF Begin, Rollback, TruncateInTxn, Truncate, Restore, Bench, BulkBegin, Backup,
       TrimBuild, Close, Forget, CaptureSlot, ClearInTxn, WalCommit, CdcPublish, ApplySlot,
       PublishHeader, CheckpointSync
  <2>6. ~(WalClear \/ TruncateSlot \/ TruncateEnd \/ RestoreApply \/ RestoreLost
          \/ (\E v \in Vals : BenchRow(v)) \/ BenchApply \/ BulkSync \/ BulkClose)
    BY <1>1 DEF WalClear, TxnOver, TruncateSlot, TruncateEnd, RestoreApply, RestoreLost,
       BenchRow, BenchApply, ReplaceTable, BulkSync, BulkClose
  <2>7. ~(BulkCloseSync \/ EmitReset \/ ClearReset \/ TrimSwap \/ WalRecover \/ RecoverReset
          \/ CheckAligned \/ BulkClear \/ Open \/ ProcessEnds \/ PowerLoss)
    BY <1>1 DEF BulkCloseSync, EmitReset, ClearReset, TrimSwap, WalRecover, RecoverReset,
       CheckAligned, BulkClear, ReplaceTable, Open, ProcessEnds, PowerLoss, Forget
  <2>. QED
    BY <2>1, <2>2, <2>3, <2>4, <2>5, <2>6, <2>7 DEF Next, Command, Step, Environment
<1>2. ASSUME wal'.marked PROVE FrameFits(wal'.frame, slots') /\ FrameFits(wal'.frame, slots_safe')
  <2>1. CASE WalCommit
    <3>1. /\ pc = "mark" /\ wal'.frame = frame /\ slots' = slots /\ slots_safe' = slots
      BY <2>1 DEF WalCommit, TableInv, WalPhases, ReplayPcs, Flushed, Writing
    <3>2. Before(frame, slots)
      BY <3>1 DEF FrameTied
    <3>. QED
      BY <3>1, <3>2 DEF Before, FrameFits
  <2>2. CASE wal' = wal
    BY <1>2, <2>2, MarkedWrites
  <2>. QED
    BY <1>2, <2>1, <2>2, MarkedBy
<1>. QED
  BY <1>1, <1>2 DEF FrameTied

-----------------------------------------------------------------------------
(* No two rows share a home slot: then every row stays in its own, and no row is *)
(* named by two slots of a frame                                                  *)

HomesDiffer == \A a, b \in Ids : Home[a] = Home[b] => a = b

OwnSlot(s, rec) == Live(rec) => Home[rec.id] = s
AtHome(t) == \A s \in Slots : OwnSlot(s, t[s])
UndoAtHome(u) == \A i \in 1 .. Len(u) : OwnSlot(u[i].slot, u[i].before)
EntriesAtHome(f) ==
  \A i \in 1 .. Len(f.entries) :
    LET e == f.entries[i] IN OwnSlot(e.slot, e.prev) /\ OwnSlot(e.slot, e.image)

HomesInv ==
  /\ AtHome(table) /\ AtHome(slots) /\ AtHome(slots_safe)
  /\ backup # NoBackup => AtHome(backup.slots)
  /\ UndoAtHome(undo) /\ EntriesAtHome(frame) /\ EntriesAtHome(wal.frame)

LEMMA HomeNothing ==
  /\ AtHome(EmptyTable) /\ UndoAtHome(<<>>) /\ EntriesAtHome(NoFrame)
  /\ EntriesAtHome(NoWal.frame)
BY NothingYet, NotLive DEF AtHome, OwnSlot, EmptyTable, UndoAtHome, EntriesAtHome

LEMMA HomeWrite ==
  ASSUME NEW t \in Tables, AtHome(t), NEW s \in Slots, NEW rec, OwnSlot(s, rec)
  PROVE  AtHome([t EXCEPT ![s] = rec])
BY DEF AtHome, Tables

\* store_locate: a row that is there is in its home, one that is not gets it.
LEMMA HomeFound ==
  ASSUME NEW t, AtHome(t), NEW id \in Ids, Found(t, id)
  PROVE  SlotOf(t, id) = Home[id]
<1>1. SlotOf(t, id) \in Located(t, id)
  BY DEF Found, SlotOf
<1>2. SlotOf(t, id) \in Slots /\ Holds(t[SlotOf(t, id)], id)
  BY <1>1, SlotOfInTable DEF Located
<1>. QED
  BY <1>2 DEF AtHome, OwnSlot, Holds

LEMMA HomeFree ==
  ASSUME HomesDiffer, NEW t \in Tables, AtHome(t), NEW id \in Ids, HasRoom(t, id)
  PROVE  InsertSlot(t, id) = Home[id]
<1>. DEFINE h == Home[id]
<1>1. h \in Slots /\ 0 \in Slots /\ ProbeSlot(id, 0) = h /\ Slots \subseteq Nat
  BY HomeAssumption, CapacityAssumption DEF Slots, ProbeSlot
<1>2. PICK k \in FreeSteps(t, id) : /\ InsertSlot(t, id) = ProbeSlot(id, k)
                                    /\ \A j \in FreeSteps(t, id) : k <= j
  BY InsertSlotIsFirst
<1>3. k \in Nat /\ k \in Visited(t, id) /\ ~Live(t[ProbeSlot(id, k)])
  BY <1>1, <1>2 DEF FreeSteps, Visited
<1>4. CASE Live(t[h])
  <2>1. t[h].id = id
    BY <1>1, <1>4, LiveRow DEF AtHome, OwnSlot, HomesDiffer, LiveSlots
  <2>2. ProbeEnds(t, id, 0)
    BY <1>1, <1>4, <2>1 DEF ProbeEnds, Holds
  <2>3. k > 0 => 0 \in 0 .. k - 1
    BY <1>3
  <2>4. k = 0
    BY <1>3, <2>2, <2>3 DEF Visited
  <2>. QED
    BY <1>1, <1>3, <1>4, <2>4
<1>5. CASE ~Live(t[h])
  <2>1. 0 \in Visited(t, id)
    BY <1>1 DEF Visited
  <2>2. k <= 0
    BY <1>1, <1>2, <1>5, <2>1 DEF FreeSteps
  <2>. QED
    BY <1>1, <1>2, <1>3, <2>2
<1>. QED
  BY <1>4, <1>5

\* What a statement writes is at home, and so is the image it captures.
LEMMA HomeStatement ==
  ASSUME NEW t \in Tables, AtHome(t), NEW u \in Seq(UndoEntries), UndoAtHome(u), NEW s \in Slots
  PROVE  UndoAtHome(Capture(u, t, s))
<1>. DEFINE e == [slot |-> s, before |-> t[s]]
            w == Append(u, e)
<1>1. CASE Captured(u, s)
  BY <1>1 DEF Capture
<1>2. CASE ~Captured(u, s)
  <2>1. Capture(u, t, s) = w
    BY <1>2 DEF Capture
  <2>2. /\ Len(w) = Len(u) + 1 /\ Len(u) \in Nat /\ w[Len(u) + 1] = e
        /\ \A i \in 1 .. Len(u) : w[i] = u[i]
    OBVIOUS
  <2>3. e.slot = s /\ e.before = t[s]
    OBVIOUS
  <2>. HIDE DEF e, w
  <2>4. \A i \in 1 .. Len(w) : i \in 1 .. Len(u) \/ i = Len(u) + 1
    BY <2>2
  <2>. QED
    BY <2>1, <2>2, <2>3, <2>4 DEF UndoAtHome, AtHome
<1>. QED
  BY <1>1, <1>2

LEMMA HomeEntry ==
  ASSUME NEW t \in Tables, AtHome(t), NEW q \in Seq(WalEntries),
         \A i \in 1 .. Len(q) : OwnSlot(q[i].slot, q[i].prev) /\ OwnSlot(q[i].slot, q[i].image),
         NEW u \in UndoEntries, OwnSlot(u.slot, u.before)
  PROVE  LET w == Append(q, Entry(u, t))
         IN \A i \in 1 .. Len(w) : OwnSlot(w[i].slot, w[i].prev) /\ OwnSlot(w[i].slot, w[i].image)
<1>. DEFINE e == Entry(u, t)
            w == Append(q, e)
<1>1. u.slot \in Slots
  BY DEF UndoEntries
<1>2. OwnSlot(e.slot, e.prev) /\ OwnSlot(e.slot, e.image)
  BY <1>1 DEF Entry, AtHome
<1>3. /\ Len(w) = Len(q) + 1 /\ Len(q) \in Nat /\ w[Len(q) + 1] = e
      /\ \A i \in 1 .. Len(q) : w[i] = q[i]
  BY EntryType
<1>. HIDE DEF e, w
<1>4. \A i \in 1 .. Len(w) : i \in 1 .. Len(q) \/ i = Len(q) + 1
  BY <1>3
<1>5. \A i \in 1 .. Len(w) : OwnSlot(w[i].slot, w[i].prev) /\ OwnSlot(w[i].slot, w[i].image)
  BY <1>2, <1>3, <1>4
<1>. QED
  BY <1>5 DEF e, w

LEMMA HomesInit == Init => HomesInv
BY HomeNothing DEF Init, HomesInv

LEMMA HomesStep ==
  ASSUME HomesDiffer, TypeOK, TypeOK', HomesInv, Next
  PROVE  HomesInv'
<1>. USE DEF Ready, Idle, txnVars, bulkVars, memVars, logVars, datVars
<1>. DEFINE Stays == UNCHANGED <<table, slots, slots_safe, backup, undo, frame, wal>>
<1>0. ASSUME Stays PROVE HomesInv'
  BY <1>0 DEF HomesInv
<1>a. table \in Tables /\ slots \in Tables /\ undo \in Seq(UndoEntries) /\ frame \in Frames
      /\ frame.entries \in Seq(WalEntries)
  BY CountTypes
<1>1. ASSUME NEW s \in Slots, NEW rec, NEW c, Mutate(s, rec, c), OwnSlot(s, rec)
      PROVE  HomesInv'
  <2>1. /\ table' = [table EXCEPT ![s] = rec] /\ UNCHANGED <<slots, slots_safe, backup, wal>>
        /\ undo' = Capture(undo, table, s) \/ undo' = Capture(<<>>, table, s)
        /\ frame' = frame \/ frame' = NoFrame
    BY <1>1 DEF Mutate, StartFlush
  <2>2. UndoAtHome(Capture(undo, table, s)) /\ UndoAtHome(Capture(<<>>, table, s))
    BY <1>a, HomeStatement, HomeNothing, NoEntriesType DEF HomesInv
  <2>. QED
    BY <1>1, <1>a, <2>1, <2>2, HomeWrite, HomeNothing DEF HomesInv
<1>2. ASSUME NEW id \in Ids, NEW v, Insert(id, v) PROVE HomesInv'
  <2>1. InsertSlot(table, id) \in Slots /\ InsertSlot(table, id) = Home[id]
    BY <1>2, <1>a, HomeFree, InsertSlotInTable DEF Insert, HomesInv
  <2>. QED
    BY <1>1, <1>2, <2>1 DEF Insert, OwnSlot, Row
<1>3. ASSUME NEW id \in Ids, NEW v, Update(id, v) PROVE HomesInv'
  <2>1. SlotOf(table, id) \in Slots /\ SlotOf(table, id) = Home[id]
    BY <1>3, HomeFound, SlotOfInTable DEF Update, HomesInv
  <2>. QED
    BY <1>1, <1>3, <2>1 DEF Update, OwnSlot, Row
<1>4. ASSUME NEW id \in Ids, Delete(id) PROVE HomesInv'
  <2>1. SlotOf(table, id) \in Slots /\ OwnSlot(SlotOf(table, id), Deleted)
    BY <1>4, SlotOfInTable, NotLive DEF Delete, OwnSlot
  <2>. QED
    BY <1>1, <1>4, <2>1 DEF Delete
<1>5. CASE Begin \/ Commit
  BY <1>5, HomeNothing DEF Begin, Commit, StartFlush, HomesInv
<1>6. CASE Rollback
  <2>1. /\ table' = Undone(table, undo) /\ undo' = <<>> /\ wal' = NoWal
        /\ UNCHANGED <<slots, slots_safe, backup, frame>>
    BY <1>6 DEF Rollback
  <2>2. ASSUME NEW s \in Slots PROVE OwnSlot(s, Undone(table, undo)[s])
    <3>1. CASE ~Captured(undo, s)
      BY <3>1 DEF Undone, HomesInv, AtHome
    <3>2. CASE Captured(undo, s)
      <4>. DEFINE i == CHOOSE i \in 1 .. Len(undo) : undo[i].slot = s
      <4>1. i \in 1 .. Len(undo) /\ undo[i].slot = s
        BY <3>2 DEF Captured
      <4>2. Undone(table, undo)[s] = undo[i].before
        BY <3>2 DEF Undone
      <4>. HIDE DEF i
      <4>. QED
        BY <4>1, <4>2 DEF HomesInv, UndoAtHome
    <3>. QED
      BY <3>1, <3>2
  <2>. QED
    BY <2>1, <2>2, HomeNothing DEF HomesInv, AtHome
<1>7. CASE CaptureSlot
  <2>1. /\ undo' = undo \/ undo' = Capture(undo, table, done)
        /\ UNCHANGED <<table, slots, slots_safe, backup, frame, wal>>
        /\ done \in Slots
    BY <1>7, CountTypes, CapacityAssumption DEF CaptureSlot, Slots
  <2>. QED
    BY <1>a, <2>1, HomeStatement DEF HomesInv
<1>8. CASE ClearInTxn
  BY <1>8, NotLive DEF ClearInTxn, Cleared, HomesInv, AtHome, OwnSlot
<1>9. CASE TxnStage
  <2>. DEFINE u == undo[done + 1]
              w == Append(frame.entries, Entry(u, table))
  <2>1. /\ UNCHANGED <<table, slots, slots_safe, backup, undo, wal>>
        /\ frame' = frame \/ frame'.entries = w
        /\ done + 1 \in 1 .. Len(undo)
    BY <1>9, CountTypes DEF TxnStage, Frame
  <2>2. u \in UndoEntries /\ OwnSlot(u.slot, u.before)
    BY <1>a, <2>1 DEF HomesInv, UndoAtHome
  <2>3. \A i \in 1 .. Len(w) : OwnSlot(w[i].slot, w[i].prev) /\ OwnSlot(w[i].slot, w[i].image)
    BY <1>a, <2>2, HomeEntry DEF HomesInv, EntriesAtHome
  <2>. HIDE DEF w
  <2>. QED
    BY <2>1, <2>3 DEF HomesInv, EntriesAtHome
<1>10. CASE TxnWrite
  <2>1. /\ UNCHANGED <<table, slots, slots_safe, backup>>
        /\ undo' = undo \/ undo' = <<>>
        /\ frame' = frame \/ frame'.entries = frame.entries
        /\ wal' = NoWal \/ wal'.frame = frame'
    BY <1>10 DEF TxnWrite, TxnOver, Frame
  <2>2. EntriesAtHome(frame')
    BY <2>1 DEF HomesInv, EntriesAtHome
  <2>. QED
    BY <2>1, <2>2, HomeNothing DEF HomesInv
<1>11. CASE WalCommit \/ WalClear \/ WalRecover
  <2>1. /\ UNCHANGED <<table, slots, slots_safe, backup>>
        /\ undo' = undo \/ undo' = <<>>
        /\ frame' = frame \/ frame' = wal.frame
        /\ wal' = wal \/ wal' = NoWal \/ wal'.frame = wal.frame
    BY <1>11 DEF WalCommit, WalClear, TxnOver, WalRecover
  <2>. QED
    BY <2>1, HomeNothing DEF HomesInv
<1>12. CASE ApplySlot
  <2>. DEFINE e == frame.entries[done + 1]
  <2>1. /\ UNCHANGED <<table, slots_safe, backup, undo, frame, wal>>
        /\ slots' = [slots EXCEPT ![e.slot] = e.image]
        /\ done + 1 \in 1 .. Len(frame.entries)
    BY <1>12, CountTypes DEF ApplySlot
  <2>2. e \in WalEntries /\ OwnSlot(e.slot, e.image)
    BY <1>a, <2>1 DEF HomesInv, EntriesAtHome
  <2>3. AtHome(slots')
    BY <1>a, <2>1, <2>2, HomeWrite DEF HomesInv, WalEntries
  <2>. QED
    BY <2>1, <2>3 DEF HomesInv
<1>13. CASE CheckpointSync \/ BulkSync \/ BulkCloseSync \/ ClearReset
            \/ Truncate \/ Restore \/ Bench
  <2>1. UNCHANGED <<table, slots, backup, undo, frame, wal>> /\ slots_safe' = slots
    BY <1>13 DEF CheckpointSync, BulkSync, BulkCloseSync, ClearReset, Truncate, Restore, Bench,
       BulkBegin, Synced
  <2>. QED
    BY <2>1 DEF HomesInv
<1>14. CASE TruncateSlot
  <2>1. PICK s \in LiveSlots(table) : /\ table' = [table EXCEPT ![s] = Deleted]
                                      /\ slots' = [slots EXCEPT ![s] = Deleted]
    BY <1>14 DEF TruncateSlot
  <2>2. s \in Slots /\ OwnSlot(s, Deleted)
    BY NotLive DEF LiveSlots, OwnSlot
  <2>3. AtHome(table') /\ AtHome(slots')
    BY <1>a, <2>1, <2>2, HomeWrite DEF HomesInv
  <2>. QED
    BY <1>14, <2>3 DEF TruncateSlot, HomesInv
<1>15. ASSUME NEW v, BenchRow(v) PROVE HomesInv'
  <2>. DEFINE t == IF done = 0 THEN EmptyTable ELSE table
              id == done + 1
  <2>1. /\ id \in Ids /\ UNCHANGED <<slots, slots_safe, backup, undo, frame, wal>>
        /\ table' = IF HasRoom(t, id) THEN [t EXCEPT ![InsertSlot(t, id)] = Row(id, v)] ELSE t
    BY <1>15 DEF BenchRow
  <2>2. t \in Tables /\ AtHome(t)
    BY <1>a, HomeNothing, EmptyTableType DEF HomesInv
  <2>. HIDE DEF t
  <2>3. HasRoom(t, id) =>
          InsertSlot(t, id) \in Slots /\ OwnSlot(InsertSlot(t, id), Row(id, v))
    BY <2>1, <2>2, HomeFree, InsertSlotInTable DEF OwnSlot, Row
  <2>4. AtHome(table')
    BY <2>1, <2>2, <2>3, HomeWrite
  <2>. QED
    BY <2>1, <2>4 DEF HomesInv
<1>16. CASE RestoreApply \/ BenchApply \/ BulkClear
  <2>1. AtHome(Cleared(table))
    BY NotLive DEF Cleared, HomesInv, AtHome, OwnSlot
  <2>. QED
    BY <1>16, <2>1 DEF RestoreApply, BenchApply, BulkClear, ReplaceTable, HomesInv
<1>17. CASE Backup
  BY <1>17 DEF Backup, HomesInv
<1>18. CASE CheckAligned
  BY <1>18 DEF CheckAligned, HomesInv
<1>19. CASE Close \/ ProcessEnds \/ PowerLoss
  <2>1. /\ table' = EmptyTable /\ undo' = <<>> /\ frame' = NoFrame /\ slots_safe' = slots'
        /\ UNCHANGED <<backup, wal>>
        /\ \A s \in Slots : slots'[s] = slots[s] \/ slots'[s] = slots_safe[s]
    BY <1>19 DEF Close, ProcessEnds, PowerLoss, Forget, Synced
  <2>2. AtHome(slots')
    BY <2>1 DEF HomesInv, AtHome
  <2>. QED
    BY <2>1, <2>2, HomeNothing DEF HomesInv
<1>20. CASE \/ TruncateInTxn \/ (\E s \in 0 .. MaxSeq : TrimBuild(s)) \/ CdcPublish
            \/ PublishHeader \/ TruncateEnd \/ RestoreLost \/ BulkClose \/ EmitReset
            \/ TrimSwap \/ RecoverReset \/ Open \/ LoseLog
  BY <1>0, <1>20 DEF TruncateInTxn, TrimBuild, CdcPublish, PublishHeader, TruncateEnd,
     RestoreLost, BulkClose, EmitReset, TrimSwap, RecoverReset, Open, LoseLog
<1>21. CASE LoseBackup
  BY <1>21 DEF LoseBackup, HomesInv
<1>. QED
  BY <1>2, <1>3, <1>4, <1>5, <1>6, <1>7, <1>8, <1>9, <1>10, <1>11, <1>12, <1>13, <1>14, <1>15,
     <1>16, <1>17, <1>18, <1>19, <1>20, <1>21
  DEF Next, Command, Step, Environment

\* Each of the slots that name a row is its home.
LEMMA HomesKeepApart ==
  ASSUME HomesInv
  PROVE  FrameApart
<1>1. ASSUME NEW s \in Slots, NEW id, Named(wal.frame, slots, s, id) PROVE Home[id] = s
  BY <1>1 DEF Named, Holds, HomesInv, AtHome, EntriesAtHome, OwnSlot
<1>. QED
  BY <1>1 DEF FrameApart, Apart

-----------------------------------------------------------------------------
(* Or each transaction has one statement: then a frame has one entry, and the table *)
(* before it and the table after it name a row once                                 *)

SingleInv ==
  /\ pc \in {"stage", "mark"} => Sound(slots)
  /\ pc = "stage" => Len(undo) <= 1
  /\ pc = "mark" => Len(frame.entries) <= 1
  /\ FrameApart

\* The frame of one statement: its row before, its row after, and no other of that id.
LEMMA OneEntryApart ==
  ASSUME NEW f, NEW t \in Tables, NEW v \in Tables, Len(f.entries) \in Nat, Len(f.entries) <= 1,
         FrameLeads(f, t, v), Before(f, v), Sound(t), Sound(v)
  PROVE  Apart(f, v)
<1>1. \A s, o \in Slots : \A id : Holds(v[s], id) /\ Holds(v[o], id) => s = o
  BY DEF Sound, LiveSlots, Holds
<1>2. \A s, o \in Slots : \A id : Holds(t[s], id) /\ Holds(t[o], id) => s = o
  BY DEF Sound, LiveSlots, Holds
<1>3. \A i, j \in 1 .. Len(f.entries) : i = j
  OBVIOUS
<1>4. ASSUME NEW s \in Slots, NEW id, Named(f, v, s, id), ~Holds(v[s], id)
      PROVE  Holds(t[s], id) /\ s \in EntrySlots(f)
  <2>1. PICK i \in 1 .. Len(f.entries) :
          f.entries[i].slot = s /\ (Holds(f.entries[i].prev, id) \/ Holds(f.entries[i].image, id))
    BY <1>4 DEF Named
  <2>2. ~Holds(f.entries[i].prev, id)
    BY <1>4, <2>1, SameIsEquality DEF Before, Holds
  <2>. QED
    BY <2>1, <2>2 DEF FrameLeads, EntrySlots
<1>5. ASSUME NEW s \in Slots, NEW id, Holds(v[s], id), s \notin EntrySlots(f)
      PROVE  Holds(t[s], id)
  BY <1>5, SameIsEquality DEF FrameLeads, Holds
<1>6. ASSUME NEW s \in EntrySlots(f), NEW o \in EntrySlots(f) PROVE s = o
  BY <1>3, <1>6 DEF EntrySlots
<1>. QED
  BY <1>1, <1>2, <1>4, <1>5, <1>6 DEF Apart

LEMMA SingleInit == Init => SingleInv
BY DEF Init, SingleInv, FrameApart, NoWal

LEMMA SingleStep ==
  ASSUME "BEGIN" \notin Commands, TypeOK, TypeOK', TableInv, CleanInv, FrameTied, SingleInv, Next
  PROVE  SingleInv'
<1>. USE DEF Ready, Idle, txnVars, bulkVars, memVars, logVars, datVars
<1>1. FrameApart'
  <2>. SUFFICES ASSUME wal'.marked PROVE Apart(wal'.frame, slots')
    BY DEF FrameApart
  <2>1. CASE WalCommit
    <3>1. /\ pc = "mark" /\ wal'.frame = frame /\ slots' = slots /\ ~opening
          /\ FrameLeads(frame, table, slots) /\ Before(frame, slots)
      BY <2>1 DEF WalCommit, TableInv, WalPhases, TxnPhases, FrameHeld, FrameTied, ReplayPcs,
         TxnPcs
    <3>2. Sound(table) /\ Sound(slots) /\ Len(frame.entries) <= 1
      BY <3>1 DEF CleanInv, TableSound, Mapped, SingleInv
    <3>3. Len(frame.entries) \in Nat /\ table \in Tables /\ slots \in Tables
      BY CountTypes
    <3>. QED
      BY <3>1, <3>2, <3>3, OneEntryApart
  <2>2. CASE wal' = wal
    BY <2>2, MarkedWrites, ApartKept DEF SingleInv, FrameApart
  <2>. QED
    BY <2>1, <2>2, MarkedBy
<1>2. ASSUME pc' \in {"stage", "mark"}
      PROVE  /\ Sound(slots')
             /\ pc' = "stage" => Len(undo') <= 1
             /\ pc' = "mark" => Len(frame'.entries) <= 1
  <2>1. CASE \/ (\E id \in Ids, v \in Vals : Insert(id, v) \/ Update(id, v))
             \/ (\E id \in Ids : Delete(id))
    <3>1. /\ pc = "ready" /\ slots' = slots /\ pc' = "stage"
          /\ \E s : undo' = Capture(<<>>, table, s)
      BY <1>2, <2>1 DEF Insert, Update, Delete, Mutate, StartFlush
    <3>2. Sound(slots)
      BY <3>1, MemoryIsFile
    <3>3. Len(undo') <= 1
      BY <3>1 DEF Capture, Captured
    <3>. QED
      BY <3>1, <3>2, <3>3
  <2>2. CASE TxnStage
    BY <1>2, <2>2 DEF TxnStage, SingleInv
  <2>3. CASE TxnWrite
    <3>1. /\ pc = "stage" /\ slots' = slots /\ pc' = "mark" /\ frame'.entries = frame.entries
          /\ done = Len(undo)
      BY <1>2, <2>3 DEF TxnWrite, TxnOver, Frame
    <3>2. OneEach(frame) /\ \A i \in 1 .. Len(frame.entries) : \E k \in 1 .. done :
            frame.entries[i].slot = undo[k].slot
      BY <3>1 DEF TableInv, FrameHeld, Staged
    <3>3. Len(undo) <= 1 /\ Len(undo) \in Nat /\ Len(frame.entries) \in Nat
      BY <3>1, CountTypes DEF SingleInv
    <3>4. \A k \in 1 .. done : k = 1
      BY <3>1, <3>3
    <3>5. \A i, j \in 1 .. Len(frame.entries) : i = j
      BY <3>2, <3>4 DEF OneEach
    <3>6. Len(frame.entries) <= 1
      BY <3>3, <3>5
    <3>. QED
      BY <3>1, <3>6 DEF SingleInv
  <2>4. CASE LoseBackup \/ LoseLog
    BY <1>2, <2>4 DEF LoseBackup, LoseLog, SingleInv
  <2>5. ~(Rollback \/ Commit \/ Begin \/ TruncateInTxn \/ CaptureSlot \/ ClearInTxn)
    BY NoneOpen DEF CleanInv
  <2>6. ~(Truncate \/ Restore \/ Bench \/ Backup \/ (\E s \in 0 .. MaxSeq : TrimBuild(s))
          \/ Close \/ WalCommit \/ CdcPublish \/ ApplySlot \/ PublishHeader \/ CheckpointSync)
    BY <1>2 DEF Truncate, Restore, Bench, BulkBegin, Backup, TrimBuild, Close, Forget, WalCommit,
       CdcPublish, ApplySlot, PublishHeader, CheckpointSync
  <2>7. ~(WalClear \/ TruncateSlot \/ TruncateEnd \/ RestoreApply \/ RestoreLost
          \/ (\E v \in Vals : BenchRow(v)) \/ BenchApply \/ BulkSync \/ BulkClose)
    BY <1>2 DEF WalClear, TxnOver, TruncateSlot, TruncateEnd, RestoreApply, RestoreLost,
       BenchRow, BenchApply, ReplaceTable, BulkSync, BulkClose
  <2>8. ~(BulkCloseSync \/ EmitReset \/ ClearReset \/ TrimSwap \/ WalRecover \/ RecoverReset
          \/ CheckAligned \/ BulkClear \/ Open \/ ProcessEnds \/ PowerLoss)
    BY <1>2 DEF BulkCloseSync, EmitReset, ClearReset, TrimSwap, WalRecover, RecoverReset,
       CheckAligned, BulkClear, ReplaceTable, Open, ProcessEnds, PowerLoss, Forget
  <2>. QED
    BY <2>1, <2>2, <2>3, <2>4, <2>5, <2>6, <2>7, <2>8 DEF Next, Command, Step, Environment
<1>. QED
  BY <1>1, <1>2 DEF SingleInv

-----------------------------------------------------------------------------
(* A transaction of one statement changes one row                                 *)

OneRow(a, b) == Live(a) /\ Live(b) => a.id = b.id
OneRowInv ==
  /\ pc = "stage" => \A i \in 1 .. Len(undo) : OneRow(undo[i].before, table[undo[i].slot])
  /\ pc \in {"stage", "mark"} => \A i \in 1 .. Len(frame.entries) :
       OneRow(frame.entries[i].prev, frame.entries[i].image)

\* The slot a statement writes holds no row, or the row of the same id.
LEMMA OneRowMutate ==
  ASSUME TypeOK, TableInv, OneRowInv, pc = "ready", ~in_txn,
         NEW s \in Slots, NEW rec, NEW c, Mutate(s, rec, c), OneRow(table[s], rec)
  PROVE  OneRowInv'
<1>1. /\ pc' = "stage" /\ frame' = NoFrame /\ table' = [table EXCEPT ![s] = rec]
      /\ undo' = Append(<<>>, [slot |-> s, before |-> table[s]])
  BY DEF Mutate, StartFlush, Capture, Captured
<1>2. table'[s] = rec
  BY <1>1 DEF TypeOK, MemoryTypes, Tables
<1>3. Len(undo') = 1 /\ undo'[1] = [slot |-> s, before |-> table[s]]
  BY <1>1
<1>4. \A i \in 1 .. Len(undo') : OneRow(undo'[i].before, table'[undo'[i].slot])
  BY <1>2, <1>3
<1>5. Len(frame'.entries) = 0
  BY <1>1 DEF NoFrame, Frame
<1>. QED
  BY <1>4, <1>5 DEF OneRowInv

LEMMA OneRowStep ==
  ASSUME "BEGIN" \notin Commands, TypeOK, TableInv, CleanInv, OneRowInv, Next
  PROVE  OneRowInv'
<1>. USE DEF Ready, Idle, txnVars, bulkVars, memVars, logVars, datVars
<1>. SUFFICES ASSUME pc' \in {"stage", "mark"} PROVE OneRowInv'
  BY DEF OneRowInv
<1>1. CASE \/ (\E id \in Ids, v \in Vals : Insert(id, v) \/ Update(id, v))
           \/ (\E id \in Ids : Delete(id))
  <2>1. pc = "ready" /\ ~in_txn /\ table \in Tables
    BY <1>1, CountTypes DEF Insert, Update, Delete, CleanInv, OneStatement
  <2>2. ASSUME NEW id \in Ids, NEW v \in Vals, Insert(id, v) PROVE OneRowInv'
    <3>1. HasRoom(table, id) /\ Mutate(InsertSlot(table, id), Row(id, v), count + 1)
      BY <2>2 DEF Insert
    <3>2. InsertSlot(table, id) \in Slots /\ ~Live(table[InsertSlot(table, id)])
      BY <3>1, SlotsMeant, InsertSlotInTable
    <3>. QED
      BY <2>1, <3>1, <3>2, OneRowMutate DEF OneRow
  <2>3. ASSUME NEW id \in Ids, Found(table, id)
        PROVE  SlotOf(table, id) \in Slots /\ Holds(table[SlotOf(table, id)], id)
    <3>1. SlotOf(table, id) \in Located(table, id)
      BY <2>3 DEF Found, SlotOf
    <3>. QED
      BY <2>3, <3>1, SlotOfInTable DEF Located
  <2>4. ASSUME NEW id \in Ids, NEW v \in Vals, Update(id, v) PROVE OneRowInv'
    BY <2>1, <2>3, <2>4, OneRowMutate DEF Update, OneRow, Holds, Row
  <2>5. ASSUME NEW id \in Ids, Delete(id) PROVE OneRowInv'
    BY <2>1, <2>3, <2>5, OneRowMutate, NotLive DEF Delete, OneRow
  <2>. QED
    BY <1>1, <2>2, <2>4, <2>5
<1>2. CASE TxnStage
  <2>. DEFINE u == undo[done + 1]
  <2>1. /\ pc = "stage" /\ pc' = pc /\ done < Len(undo) /\ UNCHANGED <<undo, table>>
        /\ frame' = IF SlotChanged(u.before, table[u.slot])
                      THEN Frame(0, FALSE, 0, Append(frame.entries, Entry(u, table))) ELSE frame
    BY <1>2 DEF TxnStage
  <2>2. OneRow(u.before, table[u.slot])
    <3>1. done + 1 \in 1 .. Len(undo)
      BY <2>1, CountTypes
    <3>. QED
      BY <2>1, <3>1 DEF OneRowInv
  <2>. HIDE DEF u
  <2>3. \A i \in 1 .. Len(frame'.entries) : OneRow(frame'.entries[i].prev, frame'.entries[i].image)
    <3>1. CASE frame' = frame
      BY <2>1, <3>1 DEF OneRowInv
    <3>2. CASE frame'.entries = Append(frame.entries, Entry(u, table))
      <4>1. frame.entries \in Seq(WalEntries)
        BY CountTypes
      <4>2. OneRow(Entry(u, table).prev, Entry(u, table).image)
        BY <2>2 DEF Entry
      <4>3. \A i \in 1 .. Len(frame.entries) : OneRow(frame.entries[i].prev, frame.entries[i].image)
        BY <2>1 DEF OneRowInv
      <4>4. /\ Len(frame'.entries) = Len(frame.entries) + 1
            /\ \A i \in 1 .. Len(frame.entries) : frame'.entries[i] = frame.entries[i]
            /\ frame'.entries[Len(frame.entries) + 1] = Entry(u, table)
        BY <3>2, <4>1
      <4>5. ASSUME NEW i \in 1 .. Len(frame'.entries)
            PROVE  i \in 1 .. Len(frame.entries) \/ i = Len(frame.entries) + 1
        BY <4>1, <4>4
      <4>. QED
        BY <4>2, <4>3, <4>4, <4>5
    <3>. QED
      BY <2>1, <3>1, <3>2 DEF Frame
  <2>. QED
    BY <2>1, <2>3 DEF OneRowInv
<1>3. CASE TxnWrite
  BY <1>3 DEF TxnWrite, TxnOver, Frame, OneRowInv
<1>4. CASE LoseBackup \/ LoseLog
  BY <1>4 DEF LoseBackup, LoseLog, OneRowInv
<1>5. ~(Rollback \/ Commit \/ Begin \/ TruncateInTxn \/ CaptureSlot \/ ClearInTxn)
  BY NoneOpen DEF CleanInv
<1>6. ~(Truncate \/ Restore \/ Bench \/ Backup \/ (\E s \in 0 .. MaxSeq : TrimBuild(s))
        \/ Close \/ WalCommit \/ CdcPublish \/ ApplySlot \/ PublishHeader \/ CheckpointSync)
  BY DEF Truncate, Restore, Bench, BulkBegin, Backup, TrimBuild, Close, Forget, WalCommit,
     CdcPublish, ApplySlot, PublishHeader, CheckpointSync
<1>7. ~(WalClear \/ TruncateSlot \/ TruncateEnd \/ RestoreApply \/ RestoreLost
        \/ (\E v \in Vals : BenchRow(v)) \/ BenchApply \/ BulkSync \/ BulkClose)
  BY DEF WalClear, TxnOver, TruncateSlot, TruncateEnd, RestoreApply, RestoreLost,
     BenchRow, BenchApply, ReplaceTable, BulkSync, BulkClose
<1>8. ~(BulkCloseSync \/ EmitReset \/ ClearReset \/ TrimSwap \/ WalRecover \/ RecoverReset
        \/ CheckAligned \/ BulkClear \/ Open \/ ProcessEnds \/ PowerLoss)
  BY DEF BulkCloseSync, EmitReset, ClearReset, TrimSwap, WalRecover, RecoverReset,
     CheckAligned, BulkClear, ReplaceTable, Open, ProcessEnds, PowerLoss, Forget
<1>. QED
  BY <1>1, <1>2, <1>3, <1>4, <1>5, <1>6, <1>7, <1>8 DEF Next, Command, Step, Environment

\* From Init on, while every transaction is one statement.
LEMMA OneRowCorrect ==
  ASSUME "BEGIN" \notin Commands
  PROVE  Spec => []OneRowInv
<1>1. Init => OneRowInv
  BY DEF Init, OneRowInv
<1>2. TypeOK /\ TableInv /\ CleanInv /\ OneRowInv /\ [Next]_vars => OneRowInv'
  <2>1. ASSUME OneRowInv, UNCHANGED vars PROVE OneRowInv'
    BY <2>1 DEF OneRowInv, vars, memVars, txnVars, bulkVars, logVars, datVars
  <2>. QED
    BY <2>1, OneRowStep
<1>. QED
  BY <1>1, <1>2, TypeCorrect, TableCorrect, CleanCorrect, PTL DEF Spec

-----------------------------------------------------------------------------
(* The change log tells the truth *)

LEMMA TiedCorrect == Spec => []FrameTied
<1>1. Init => FrameTied
  BY DEF Init, FrameTied, NoWal
<1>2. TypeOK /\ TableInv /\ FrameTied /\ [Next]_vars => FrameTied'
  <2>1. ASSUME FrameTied, UNCHANGED vars PROVE FrameTied'
    BY <2>1 DEF FrameTied, vars, memVars, txnVars, bulkVars, logVars, datVars
  <2>. QED
    BY <2>1, TiedStep
<1>. QED
  BY <1>1, <1>2, TypeCorrect, TableCorrect, PTL DEF Spec

\* Rows stay at home where no two share one.
LEMMA HomesCorrect ==
  ASSUME HomesDiffer
  PROVE  Spec => []HomesInv
<1>1. Init => HomesInv
  BY HomesInit
<1>2. TypeOK /\ TypeOK' /\ HomesInv /\ [Next]_vars => HomesInv'
  <2>1. ASSUME HomesInv, UNCHANGED vars PROVE HomesInv'
    BY <2>1 DEF HomesInv, vars, memVars, txnVars, bulkVars, logVars, datVars
  <2>. QED
    BY <2>1, HomesStep
<1>. QED
  BY <1>1, <1>2, TypeCorrect, PTL DEF Spec

\* Transactions of one statement keep their frames to one entry.
LEMMA SingleCorrect ==
  ASSUME "BEGIN" \notin Commands
  PROVE  Spec => []SingleInv
<1>1. Init => SingleInv
  BY SingleInit
<1>2. /\ TypeOK /\ TypeOK' /\ TableInv /\ CleanInv /\ FrameTied /\ SingleInv /\ [Next]_vars
      => SingleInv'
  <2>1. ASSUME SingleInv, UNCHANGED vars PROVE SingleInv'
    BY <2>1
    DEF SingleInv, FrameApart, vars, memVars, txnVars, bulkVars, logVars, datVars
  <2>. QED
    BY <2>1, SingleStep
<1>. QED
  BY <1>1, <1>2, TypeCorrect, TableCorrect, CleanCorrect, TiedCorrect, PTL DEF Spec

\* Rows that do not share a home, or transactions of one statement.
PlainFrames == HomesDiffer \/ "BEGIN" \notin Commands

\* Either way no row is named by two slots of a committed frame.
LEMMA ApartCorrect ==
  ASSUME PlainFrames
  PROVE  Spec => []FrameApart
<1>1. CASE HomesDiffer
  <2>1. HomesInv => FrameApart
    BY HomesKeepApart
  <2>. QED
    BY <1>1, <2>1, HomesCorrect, PTL
<1>2. CASE "BEGIN" \notin Commands
  <2>1. SingleInv => FrameApart
    BY DEF SingleInv
  <2>. QED
    BY <1>2, <2>1, SingleCorrect, PTL
<1>. QED
  BY <1>1, <1>2 DEF PlainFrames

\* A step that publishes appends the changes of the frame in the WAL.
LEMMA PublishedFrame ==
  ASSUME TypeOK, TableInv, Next, Published
  PROVE  /\ NewFrame = ChangeFrame(wal.frame) /\ wal.marked /\ OneEach(wal.frame)
         /\ wal \in Wals /\ slots \in Tables
<1>1. pc = "publish" /\ cdc'.frames # cdc.frames
  BY DEF Published
<1>2. CdcPublish
  <2>1. CASE Command
    BY <1>1, <2>1 DEF Command, Insert, Update, Delete, Begin, Commit, Rollback, TruncateInTxn,
       Truncate, Restore, Bench, BulkBegin, Backup, TrimBuild, Close, Ready, Idle
  <2>2. CASE Open \/ Environment
    BY <1>1, <2>2 DEF Open, Environment, ProcessEnds, PowerLoss, Forget, LoseBackup, LoseLog,
       logVars
  <2>3. CASE Step
    BY <1>1, <2>3
    DEF Step, CaptureSlot, ClearInTxn, TxnStage, TxnWrite, WalCommit, ApplySlot, PublishHeader,
        CheckpointSync, WalClear, TruncateSlot, TruncateEnd, RestoreApply, RestoreLost, BenchRow,
        BenchApply, BulkSync, BulkClose, BulkCloseSync, EmitReset, ClearReset, TrimSwap,
        WalRecover, RecoverReset, CheckAligned, BulkClear
  <2>. QED
    BY <2>1, <2>2, <2>3 DEF Next
<1>3. cdc' = Appended(cdc, ChangeFrame(frame))
  BY <1>1, <1>2 DEF CdcPublish
<1>4. cdc.frames \in Seq(ChangeFrames) /\ ChangeFrame(frame) \in ChangeFrames
  BY ChangeFrameType, CountTypes DEF TypeOK, LogTypes, Logs
<1>5. NewFrame = ChangeFrame(frame)
  BY <1>3, <1>4 DEF Appended, NewFrame
<1>. QED
  BY <1>1, <1>5, CountTypes DEF TableInv, WalPhases, ReplayPcs

\* A consumer that has the rows of the table before a commit and applies the frame of the
\* commit, or the one its recovery appends after a crash at any point, has the rows after
\* it: always when rows do not share a home slot or transactions have one statement.
THEOREM FramesTellTheTable ==
  ASSUME PlainFrames
  PROVE  Spec => FrameExact
<1>1. Spec => []FrameApart
  BY ApartCorrect
<1>2. ASSUME TypeOK, TableInv, FrameTied, FrameApart, Next, Published, ~NewFrame.reset
      PROVE  ConsumedFrame(RowsOf(slots), NewFrame) = RowsOf(Replayed)
  <2>1. /\ NewFrame = ChangeFrame(wal.frame) /\ wal.marked /\ OneEach(wal.frame)
        /\ wal \in Wals /\ slots \in Tables
    BY <1>2, PublishedFrame
  <2>2. ~wal.frame.reset
    BY <1>2, <2>1 DEF ChangeFrame
  <2>3. FrameFits(wal.frame, slots) /\ Apart(wal.frame, slots)
    BY <1>2, <2>1 DEF FrameTied, FrameApart
  <2>. QED
    BY <2>1, <2>2, <2>3, FrameConsumed DEF Replayed
<1>3. TypeOK /\ TableInv /\ FrameTied /\ FrameApart /\ [Next]_vars
      => [(Published /\ ~NewFrame.reset)
            => ConsumedFrame(RowsOf(slots), NewFrame) = RowsOf(Replayed)]_vars
  BY <1>2
<1>. QED
  BY <1>1, <1>3, TypeCorrect, TableCorrect, TiedCorrect, PTL DEF Spec, FrameExact

\* The operations of an entry name its row before and its row after, each once.
LEMMA EntryNames ==
  ASSUME NEW e \in WalEntries
  PROVE  LET ops == EntryOps(e)
         IN /\ \A a \in 1 .. Len(ops) : /\ ops[a].id \in Ids
                                        /\ Holds(e.prev, ops[a].id) \/ Holds(e.image, ops[a].id)
            /\ \A a, b \in 1 .. Len(ops) : ops[a].id = ops[b].id => a = b
<1>. DEFINE gone == [op |-> "DELETE", id |-> e.prev.id]
            comes == [op |-> "UPSERT", id |-> e.image.id, val |-> e.image.val]
<1>1. /\ Live(e.prev) => e.prev.id \in Ids
      /\ Live(e.image) => e.image.id \in Ids
  BY LiveType DEF WalEntries, Rows
<1>2. EntryOps(e) = (IF Live(e.prev) /\ ~Holds(e.image, e.prev.id) THEN <<gone>> ELSE <<>>)
                     \o (IF Live(e.image) THEN <<comes>> ELSE <<>>)
  BY DEF EntryOps
<1>3. gone.id = e.prev.id /\ comes.id = e.image.id
  OBVIOUS
<1>. HIDE DEF gone, comes
<1>4. /\ <<gone>> \o <<comes>> = <<gone, comes>>
      /\ <<gone>> \o <<>> = <<gone>> /\ <<>> \o <<comes>> = <<comes>>
      /\ <<>> \o <<>> = <<>>
  BY Pair, ConcatEmptySeq
<1>5. CASE Live(e.prev) /\ ~Holds(e.image, e.prev.id) /\ Live(e.image)
  <2>1. EntryOps(e) = <<gone, comes>>
    BY <1>2, <1>4, <1>5
  <2>. QED
    BY <1>1, <1>3, <1>5, <2>1 DEF Holds
<1>6. CASE Live(e.prev) /\ ~Holds(e.image, e.prev.id) /\ ~Live(e.image)
  <2>1. EntryOps(e) = <<gone>>
    BY <1>2, <1>4, <1>6
  <2>. QED
    BY <1>1, <1>3, <1>6, <2>1 DEF Holds
<1>7. CASE ~(Live(e.prev) /\ ~Holds(e.image, e.prev.id)) /\ Live(e.image)
  <2>1. EntryOps(e) = <<comes>>
    BY <1>2, <1>4, <1>7
  <2>. QED
    BY <1>1, <1>3, <1>7, <2>1 DEF Holds
<1>8. CASE ~(Live(e.prev) /\ ~Holds(e.image, e.prev.id)) /\ ~Live(e.image)
  <2>1. EntryOps(e) = <<>>
    BY <1>2, <1>4, <1>8
  <2>. QED
    BY <2>1
<1>. QED
  BY <1>5, <1>6, <1>7, <1>8

\* A frame carries at most one event for each row, under the same condition.  Without it
\* a row that moved to another slot in its transaction has two.
THEOREM FramesNameRowsOnce ==
  ASSUME PlainFrames
  PROVE  Spec => OneEventPerRow
<1>. DEFINE Once == \A i, j \in 1 .. Len(NewFrame.ops) :
                      \A a \in 1 .. Len(NewFrame.ops[i]), b \in 1 .. Len(NewFrame.ops[j]) :
                        NewFrame.ops[i][a].id = NewFrame.ops[j][b].id => i = j /\ a = b
<1>1. Spec => []FrameApart
  BY ApartCorrect
<1>2. ASSUME TypeOK, TableInv, FrameApart, Next, Published
      PROVE  Once
  <2>. DEFINE f == wal.frame
              n == Len(f.entries)
  <2>1. /\ NewFrame = ChangeFrame(f) /\ OneEach(f) /\ Apart(f, slots)
        /\ f.entries \in Seq(WalEntries) /\ n \in Nat
    BY <1>2, PublishedFrame DEF FrameApart, Wals, Frames
  <2>2. CASE f.reset
    <3>1. NewFrame.ops = <<>>
      BY <2>1, <2>2 DEF ChangeFrame
    <3>. QED
      BY <3>1
  <2>3. CASE ~f.reset
    <3>1. NewFrame.ops = [i \in 1 .. n |-> EntryOps(f.entries[i])]
      BY <2>1, <2>3 DEF ChangeFrame
    <3>2. /\ Len(NewFrame.ops) = n
          /\ \A i \in 1 .. n : NewFrame.ops[i] = EntryOps(f.entries[i])
      BY <2>1, <3>1
    <3>a. \A i \in 1 .. n : f.entries[i] \in WalEntries
      BY <2>1
    <3>3. \A i \in 1 .. n : f.entries[i] \in WalEntries /\ f.entries[i].slot \in Slots
      BY <3>a DEF WalEntries
    <3>. SUFFICES ASSUME NEW i \in 1 .. n, NEW j \in 1 .. n,
                         NEW a \in 1 .. Len(EntryOps(f.entries[i])),
                         NEW b \in 1 .. Len(EntryOps(f.entries[j])),
                         EntryOps(f.entries[i])[a].id = EntryOps(f.entries[j])[b].id
                  PROVE  i = j /\ a = b
      BY <3>2
    <3>. DEFINE id == EntryOps(f.entries[i])[a].id
    <3>4. /\ id \in Ids
          /\ Named(f, slots, f.entries[i].slot, id) /\ Named(f, slots, f.entries[j].slot, id)
      BY <3>3, EntryNames DEF Named
    <3>5. f.entries[i].slot = f.entries[j].slot
      BY <2>1, <3>3, <3>4 DEF Apart
    <3>6. i = j
      BY <2>1, <3>5 DEF OneEach
    <3>. QED
      BY <3>3, <3>6, EntryNames
  <2>. QED
    BY <2>2, <2>3
<1>3. TypeOK /\ TableInv /\ FrameApart /\ [Next]_vars => [Published => Once]_vars
  BY <1>2
<1>. QED
  BY <1>1, <1>3, TypeCorrect, TableCorrect, PTL DEF Spec, OneEventPerRow
=============================================================================
