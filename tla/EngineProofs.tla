---------------------------- MODULE EngineProofs ----------------------------
(***************************************************************************)
(* Theorems about the engine for every table, every set of rows and every  *)
(* number of changes, crashes and losses of power: types, the undo log,    *)
(* and the change log, which holds what was committed, densely, and is     *)
(* never behind the table on disk.                                         *)
(***************************************************************************)
EXTENDS EngineProps, TLAPS, FiniteSetTheorems, SequenceTheorems, WellFoundedInduction

-----------------------------------------------------------------------------
(* Dense logs *)

\* In a dense log the last sequence is the base plus the number of frames.
LEMMA DenseLast ==
  ASSUME NEW log \in Logs, Dense(log)
  PROVE  LastSeq(log) = log.base + Len(log.frames)
<1>1. log.frames \in Seq(ChangeFrames) /\ log.base \in Nat
  BY DEF Logs
<1>2. CASE log.frames = <<>>
  BY <1>1, <1>2 DEF LastSeq
<1>3. CASE log.frames # <<>>
  <2>1. Len(log.frames) \in 1 .. Len(log.frames)
    BY <1>1, <1>3
  <2>. QED
    BY <1>3, <2>1 DEF LastSeq, Dense
<1>. QED
  BY <1>2, <1>3

\* Appending the next frame keeps a log dense.
LEMMA DenseAppend ==
  ASSUME NEW log \in Logs, Dense(log), NEW f \in ChangeFrames, f.seq = LastSeq(log) + 1
  PROVE  /\ Dense(Appended(log, f))
         /\ LastSeq(Appended(log, f)) = f.seq
         /\ Appended(log, f).there = log.there
<1>. DEFINE more == Append(log.frames, f)
<1>1. log.frames \in Seq(ChangeFrames) /\ log.base \in Nat
  BY DEF Logs
<1>2. /\ more \in Seq(ChangeFrames)
      /\ Len(more) = Len(log.frames) + 1
      /\ more[Len(more)] = f
      /\ \A i \in 1 .. Len(log.frames) : more[i] = log.frames[i]
  BY <1>1
<1>3. f.seq = log.base + Len(more)
  BY <1>1, <1>2, DenseLast
<1>4. \A i \in 1 .. Len(more) : more[i].seq = log.base + i
  BY <1>1, <1>2, <1>3 DEF Dense
<1>5. Appended(log, f) = [there |-> log.there, base |-> log.base, frames |-> more]
  BY DEF Appended
<1>. HIDE DEF more
<1>6. more # <<>>
  BY <1>1, <1>2
<1>. QED
  BY <1>2, <1>4, <1>5, <1>6 DEF Dense, LastSeq

\* The end of a sequence from its m-th element on.
LEMMA KeptFrames ==
  ASSUME NEW S, NEW all \in Seq(S), NEW m \in 1 .. Len(all) + 1
  PROVE  /\ SubSeq(all, m, Len(all)) \in Seq(S)
         /\ Len(SubSeq(all, m, Len(all))) = Len(all) - m + 1
         /\ \A i \in 1 .. Len(all) - m + 1 : SubSeq(all, m, Len(all))[i] = all[m + i - 1]
OBVIOUS

\* Trimming keeps a log a log.
LEMMA TrimmedType ==
  ASSUME NEW log \in Logs, NEW s \in Nat, log.base <= s
  PROVE  Trimmed(log, s) \in Logs
<1>. DEFINE first == s - log.base + 1
<1>1. log.frames \in Seq(ChangeFrames) /\ first \in Nat \ {0} /\ Len(log.frames) \in Nat
  BY DEF Logs
<1>2. \A i \in first .. Len(log.frames) : log.frames[i] \in ChangeFrames
  BY <1>1
<1>3. SubSeq(log.frames, first, Len(log.frames)) \in Seq(ChangeFrames)
  BY <1>1, <1>2, SubSeqProperties
<1>. QED
  BY <1>3 DEF Trimmed, Logs

\* So does dropping its first frames, which leaves its end where it was.
LEMMA DenseTrim ==
  ASSUME NEW log \in Logs, Dense(log), NEW s \in log.base .. LastSeq(log)
  PROVE  /\ Dense(Trimmed(log, s))
         /\ LastSeq(Trimmed(log, s)) = LastSeq(log)
         /\ Trimmed(log, s).there = log.there
<1>. DEFINE all == log.frames
            m == s - log.base + 1
            kept == SubSeq(all, m, Len(all))
<1>1. all \in Seq(ChangeFrames) /\ log.base \in Nat /\ Len(all) \in Nat
  BY DEF Logs
<1>2. LastSeq(log) = log.base + Len(all)
  BY DenseLast
<1>3. s \in Nat /\ log.base <= s /\ m \in 1 .. Len(all) + 1
  BY <1>1, <1>2
<1>4. /\ kept \in Seq(ChangeFrames)
      /\ Len(kept) = Len(all) - m + 1
      /\ \A i \in 1 .. Len(all) - m + 1 : kept[i] = all[m + i - 1]
  BY <1>1, <1>3, KeptFrames
<1>5. Trimmed(log, s) = [there |-> log.there, base |-> s, frames |-> kept]
  BY DEF Trimmed
<1>. HIDE DEF kept
<1>6. \A i \in 1 .. Len(kept) : kept[i].seq = s + i
  <2>. SUFFICES ASSUME NEW i \in 1 .. Len(kept) PROVE kept[i].seq = s + i
    OBVIOUS
  <2>1. kept[i] = all[m + i - 1] /\ m + i - 1 \in 1 .. Len(all)
    BY <1>1, <1>3, <1>4
  <2>2. all[m + i - 1].seq = log.base + (m + i - 1)
    BY <2>1 DEF Dense
  <2>. QED
    BY <1>1, <1>3, <2>1, <2>2
<1>7. Dense(Trimmed(log, s))
  BY <1>5, <1>6 DEF Dense
<1>8. LastSeq(Trimmed(log, s)) = s + Len(kept)
  <2>1. Trimmed(log, s) \in Logs
    BY <1>3, TrimmedType
  <2>. QED
    BY <1>5, <1>7, <2>1, DenseLast
<1>. QED
  BY <1>1, <1>2, <1>3, <1>4, <1>5, <1>7, <1>8

\* A new log is dense and ends at its base.
LEMMA DenseNew ==
  ASSUME NEW s \in Nat
  PROVE  /\ Dense(NewLog(s)) /\ LastSeq(NewLog(s)) = s /\ NewLog(s).there
         /\ Dense(NoLog) /\ ~NoLog.there
BY DEF Dense, LastSeq, NewLog, NoLog

-----------------------------------------------------------------------------
(* The table *)

USE CapacityAssumption, HomeAssumption

\* A probe never leaves the table.
LEMMA ProbeInTable ==
  ASSUME NEW id \in Ids, NEW k \in Slots
  PROVE  ProbeSlot(id, k) \in Slots
<1>1. Home[id] + k \in Int
  BY DEF Slots
<1>. QED
  BY <1>1 DEF ProbeSlot, Slots

\* store_locate returns slots of the table: for a row that is there ...
LEMMA SlotOfInTable ==
  ASSUME NEW t, NEW id \in Ids, Found(t, id)
  PROVE  SlotOf(t, id) \in Slots
<1>1. Located(t, id) \subseteq Slots
  BY ProbeInTable DEF Located, Visited
<1>2. SlotOf(t, id) \in Located(t, id)
  BY DEF Found, SlotOf
<1>. QED
  BY <1>1, <1>2

\* For a row that is not, if there is room, it is the first slot on the way without
\* a row.
LEMMA InsertSlotIsFirst ==
  ASSUME NEW t, NEW id \in Ids, HasRoom(t, id)
  PROVE  \E k \in FreeSteps(t, id) : /\ InsertSlot(t, id) = ProbeSlot(id, k)
                                      /\ \A j \in FreeSteps(t, id) : k <= j
<1>. DEFINE F == FreeSteps(t, id)
            less == OpToRel(<, Nat)
<1>1. F \subseteq Nat /\ F # {}
  BY DEF FreeSteps, Visited, HasRoom, Slots
<1>2. PICK j \in F : \A i \in F : ~(<<i, j>> \in less)
  BY <1>1, NatLessThanWellFounded, WFMin, Zenon
<1>3. \A i \in F : j <= i
  <2>. SUFFICES ASSUME NEW i \in F PROVE j <= i
    OBVIOUS
  <2>1. <<i, j>> \in Nat \X Nat /\ ~(i < j)
    BY <1>1, <1>2 DEF OpToRel
  <2>. QED
    BY <1>1, <2>1
<1>. DEFINE k == CHOOSE k \in F : \A i \in F : k <= i
<1>4. k \in F /\ \A i \in F : k <= i
  BY <1>3
<1>5. InsertSlot(t, id) = ProbeSlot(id, k)
  BY DEF InsertSlot
<1>. QED
  BY <1>4, <1>5

LEMMA InsertSlotInTable ==
  ASSUME NEW t, NEW id \in Ids, HasRoom(t, id)
  PROVE  InsertSlot(t, id) \in Slots
BY InsertSlotIsFirst, ProbeInTable DEF FreeSteps, Visited

-----------------------------------------------------------------------------
(* Types *)

USE UndoAssumption, BoundsAssumption, IdsAssumption

\* A row, a captured image and a staged entry are what they should be.
LEMMA RowType ==
  ASSUME NEW id \in Ids, NEW v \in Vals
  PROVE  Row(id, v) \in Record
BY DEF Row, Record, Rows

LEMMA DeadType == Empty \in Record /\ Deleted \in Record
BY DEF Record

LEMMA LiveType ==
  ASSUME NEW r \in Record, Live(r)
  PROVE  r \in Rows
BY DEF Record, Live, Empty, Deleted, Rows

LEMMA CaptureType ==
  ASSUME NEW u \in Seq(UndoEntries), NEW t \in Tables, NEW s \in Slots
  PROVE  Capture(u, t, s) \in Seq(UndoEntries)
<1>1. [slot |-> s, before |-> t[s]] \in UndoEntries
  BY DEF UndoEntries, Tables
<1>. QED
  BY <1>1 DEF Capture

LEMMA UndoneType ==
  ASSUME NEW u \in Seq(UndoEntries), NEW t \in Tables
  PROVE  Undone(t, u) \in Tables
<1>. SUFFICES ASSUME NEW s \in Slots
              PROVE  (IF Captured(u, s)
                        THEN u[CHOOSE i \in 1 .. Len(u) : u[i].slot = s].before
                        ELSE t[s]) \in Record
  BY DEF Undone, Tables
<1>1. CASE Captured(u, s)
  <2>1. (CHOOSE i \in 1 .. Len(u) : u[i].slot = s) \in 1 .. Len(u)
    BY <1>1 DEF Captured
  <2>2. \A i \in 1 .. Len(u) : u[i] \in UndoEntries
    OBVIOUS
  <2>. QED
    BY <1>1, <2>1, <2>2 DEF UndoEntries
<1>2. CASE ~Captured(u, s)
  BY <1>2 DEF Tables
<1>. QED
  BY <1>1, <1>2

LEMMA ClearedType ==
  ASSUME NEW t \in Tables
  PROVE  Cleared(t) \in Tables
BY DeadType DEF Cleared, Tables

LEMMA EmptyTableType == EmptyTable \in Tables
BY DeadType DEF EmptyTable, Tables

LEMMA LiveCountType ==
  ASSUME NEW t
  PROVE  LiveCount(t) \in Nat
<1>1. IsFiniteSet(Slots)
  BY FS_Interval DEF Slots
<1>2. IsFiniteSet(LiveSlots(t))
  BY <1>1, FS_Subset DEF LiveSlots
<1>. QED
  BY <1>2, FS_CardinalityType DEF LiveCount

LEMMA EntryType ==
  ASSUME NEW u \in UndoEntries, NEW t \in Tables
  PROVE  Entry(u, t) \in WalEntries
BY DEF Entry, UndoEntries, WalEntries, Tables

\* cdc_emit_from_wal: an entry yields a sequence of operations on ids.
LEMMA EntryOpsType ==
  ASSUME NEW e \in WalEntries
  PROVE  EntryOps(e) \in Seq(Operations)
<1>1. ASSUME Live(e.prev) PROVE <<[op |-> "DELETE", id |-> e.prev.id]>> \in Seq(Operations)
  <2>1. e.prev \in Rows
    BY <1>1, LiveType DEF WalEntries
  <2>. QED
    BY <2>1 DEF Operations, Rows
<1>2. ASSUME Live(e.image)
      PROVE <<[op |-> "UPSERT", id |-> e.image.id, val |-> e.image.val]>> \in Seq(Operations)
  <2>1. e.image \in Rows
    BY <1>2, LiveType DEF WalEntries
  <2>. QED
    BY <2>1 DEF Operations, Rows
<1>. QED
  BY <1>1, <1>2 DEF EntryOps

LEMMA ChangeFrameType ==
  ASSUME NEW f \in Frames
  PROVE  ChangeFrame(f) \in ChangeFrames
<1>1. f.entries \in Seq(WalEntries) /\ f.seq \in Nat /\ f.reset \in BOOLEAN
  BY DEF Frames
<1>2. [i \in 1 .. Len(f.entries) |-> EntryOps(f.entries[i])] \in Seq(Seq(Operations))
  BY <1>1, EntryOpsType
<1>. QED
  BY <1>1, <1>2 DEF ChangeFrame, ChangeFrames

LEMMA AppendedType ==
  ASSUME NEW log \in Logs, NEW f \in ChangeFrames
  PROVE  Appended(log, f) \in Logs
BY DEF Appended, Logs

LEMMA ResetFrameType ==
  ASSUME NEW s \in Nat
  PROVE  ResetFrame(s) \in ChangeFrames
BY DEF ResetFrame, ChangeFrames

LEMMA EmptyLogType ==
  ASSUME NEW s \in Nat
  PROVE  NewLog(s) \in Logs /\ NoLog \in Logs
<1>1. <<>> \in Seq(ChangeFrames)
  OBVIOUS
<1>. QED
  BY <1>1 DEF Logs, NewLog, NoLog

LEMMA LastSeqType ==
  ASSUME NEW log \in Logs
  PROVE  LastSeq(log) \in Nat
<1>1. CASE log.frames = <<>>
  BY <1>1 DEF LastSeq, Logs
<1>2. CASE log.frames # <<>>
  <2>1. Len(log.frames) \in 1 .. Len(log.frames) /\ log.frames \in Seq(ChangeFrames)
    BY <1>2 DEF Logs
  <2>2. log.frames[Len(log.frames)] \in ChangeFrames
    BY <2>1
  <2>. QED
    BY <1>2, <2>2 DEF LastSeq, ChangeFrames
<1>. QED
  BY <1>1, <1>2

LEMMA FrameType ==
  ASSUME NEW s \in Nat, NEW r \in BOOLEAN, NEW c \in Int, NEW e \in Seq(WalEntries)
  PROVE  Frame(s, r, c, e) \in Frames
BY DEF Frame, Frames

LEMMA NoEntriesType == <<>> \in Seq(WalEntries) /\ <<>> \in Seq(UndoEntries)
OBVIOUS

LEMMA WalType ==
  ASSUME NEW m \in BOOLEAN, NEW f \in Frames
  PROVE  [marked |-> m, frame |-> f] \in Wals
BY DEF Wals

LEMMA NoFrameType == NoFrame \in Frames
BY NoEntriesType DEF NoFrame, Frame, Frames

LEMMA NoWalType == NoWal \in Wals
BY NoFrameType DEF NoWal, Wals

LEMMA TypeInit == Init => TypeOK
<1>. SUFFICES ASSUME Init PROVE TypeOK
  OBVIOUS
<1>1. ControlTypes
  BY DEF Init, ControlTypes, PCs
<1>2. MemoryTypes
  BY EmptyTableType DEF Init, MemoryTypes
<1>3. TxnTypes
  <2>1. in_txn \in BOOLEAN /\ txn_reset \in BOOLEAN
    BY Zenon DEF Init
  <2>2. undo = <<>> /\ count_snap = 0
    BY DEF Init
  <2>. QED
    BY <2>1, <2>2, NoEntriesType DEF TxnTypes
<1>4. FrameTypes
  BY NoFrameType, NoWalType DEF Init, FrameTypes
<1>5. LogTypes
  BY EmptyLogType DEF Init, LogTypes
<1>6. DatTypes
  BY EmptyTableType DEF Init, DatTypes, Header, Headers
<1>7. BackupTypes
  BY DEF Init, BackupTypes
<1>. QED
  BY <1>1, <1>2, <1>3, <1>4, <1>5, <1>6, <1>7 DEF TypeOK

\* A statement changes one slot of the table and captures it.
LEMMA TypeMutate ==
  ASSUME TypeOK, NEW s \in Slots, NEW rec \in Record, NEW c \in Int, pc = "ready",
         Mutate(s, rec, c)
  PROVE  TypeOK'
<1>1. ControlTypes'
  BY DEF Mutate, StartFlush, TypeOK, ControlTypes, PCs
<1>2. MemoryTypes'
  BY DEF Mutate, TypeOK, MemoryTypes, bulkVars, Tables
<1>3. TxnTypes'
  <2>1. <<>> \in Seq(UndoEntries)
    OBVIOUS
  <2>2. Capture(<<>>, table, s) \in Seq(UndoEntries)
    BY <2>1, CaptureType DEF TypeOK, MemoryTypes
  <2>3. Capture(undo, table, s) \in Seq(UndoEntries)
    BY CaptureType DEF TypeOK, MemoryTypes, TxnTypes
  <2>. QED
    BY <2>2, <2>3 DEF Mutate, TypeOK, TxnTypes, MemoryTypes
<1>4. FrameTypes'
  BY NoFrameType DEF Mutate, StartFlush, TypeOK, FrameTypes, logVars
<1>5. LogTypes' /\ DatTypes' /\ BackupTypes'
  BY DEF Mutate, TypeOK, LogTypes, DatTypes, BackupTypes, logVars, datVars
<1>. QED
  BY <1>1, <1>2, <1>3, <1>4, <1>5 DEF TypeOK

LEMMA TypeBulkBegin ==
  ASSUME TypeOK, NEW kind \in BulkKinds, NEW next \in PCs, BulkBegin(kind, next)
  PROVE  TypeOK'
<1>1. hdr' \in Headers /\ hdr_safe' \in Headers
  BY DEF BulkBegin, Synced, Header, Headers, TypeOK, MemoryTypes
<1>2. ControlTypes' /\ MemoryTypes'
  BY DEF BulkBegin, TypeOK, ControlTypes, MemoryTypes
<1>3. TxnTypes' /\ FrameTypes' /\ LogTypes' /\ BackupTypes'
  BY DEF BulkBegin, TypeOK, TxnTypes, FrameTypes, LogTypes, BackupTypes, txnVars, logVars
<1>4. DatTypes'
  BY <1>1 DEF BulkBegin, Synced, TypeOK, DatTypes
<1>. QED
  BY <1>2, <1>3, <1>4 DEF TypeOK

LEMMA TypeForget ==
  ASSUME TypeOK, Forget, hdr' \in Headers, hdr_safe' \in Headers, slots' \in Tables,
         slots_safe' \in Tables, crashes' \in Nat
  PROVE  TypeOK'
<1>1. ControlTypes'
  BY DEF Forget, ControlTypes, PCs
<1>2. MemoryTypes'
  BY EmptyTableType DEF Forget, MemoryTypes
<1>3. TxnTypes'
  <2>1. in_txn' \in BOOLEAN /\ txn_reset' \in BOOLEAN
    BY Zenon DEF Forget
  <2>. QED
    BY <2>1, NoEntriesType DEF Forget, TxnTypes
<1>4. FrameTypes' /\ LogTypes' /\ BackupTypes'
  BY NoFrameType DEF Forget, TypeOK, FrameTypes, LogTypes, BackupTypes, logVars
<1>5. DatTypes'
  BY DEF DatTypes
<1>. QED
  BY <1>1, <1>2, <1>3, <1>4, <1>5 DEF TypeOK

\* Every step keeps every type: one proof step per action of Next.
THEOREM TypeStep ==
  ASSUME TypeOK, Next
  PROVE  TypeOK'
<1>. USE DEF TypeOK, ControlTypes, MemoryTypes, TxnTypes, FrameTypes, LogTypes, DatTypes,
             BackupTypes, PCs, vars, memVars, txnVars, bulkVars, logVars, datVars
<1>1. ASSUME NEW id \in Ids, NEW v \in Vals, Insert(id, v) PROVE TypeOK'
  BY <1>1, RowType, InsertSlotInTable, TypeMutate DEF Insert, Ready
<1>2. ASSUME NEW id \in Ids, NEW v \in Vals, Update(id, v) PROVE TypeOK'
  BY <1>2, RowType, SlotOfInTable, TypeMutate DEF Update, Ready
<1>3. ASSUME NEW id \in Ids, Delete(id) PROVE TypeOK'
  BY <1>3, DeadType, SlotOfInTable, TypeMutate DEF Delete, Ready
<1>4. ASSUME Begin PROVE TypeOK'
  BY <1>4, NoEntriesType DEF Begin, Ready, Idle
<1>5. ASSUME Commit PROVE TypeOK'
  BY <1>5, NoFrameType DEF Commit, StartFlush, Ready, Idle
<1>6. ASSUME Rollback PROVE TypeOK'
  BY <1>6, UndoneType, NoWalType, NoEntriesType DEF Rollback, Ready, Idle
<1>7. ASSUME TruncateInTxn PROVE TypeOK'
  BY <1>7 DEF TruncateInTxn, Ready, Idle
<1>8. ASSUME CaptureSlot PROVE TypeOK'
  BY <1>8, CaptureType DEF CaptureSlot, Slots, Ready, Idle
<1>9. ASSUME ClearInTxn PROVE TypeOK'
  BY <1>9, ClearedType, LiveCountType DEF ClearInTxn, Ready, Idle
<1>10. ASSUME Truncate PROVE TypeOK'
  BY <1>10, TypeBulkBegin DEF Truncate, BulkKinds
<1>11. ASSUME Restore PROVE TypeOK'
  BY <1>11, TypeBulkBegin DEF Restore, BulkKinds
<1>12. ASSUME Bench PROVE TypeOK'
  BY <1>12, TypeBulkBegin DEF Bench, BulkKinds
<1>13. ASSUME Backup PROVE TypeOK'
  BY <1>13 DEF Backup, Ready, Idle
<1>14. ASSUME NEW s \in 0 .. MaxSeq, TrimBuild(s) PROVE TypeOK'
  <2>1. MemoryTypes' /\ TxnTypes' /\ FrameTypes' /\ DatTypes' /\ BackupTypes'
    BY <1>14 DEF TrimBuild, Ready, Idle
  <2>2. ControlTypes'
    BY <1>14 DEF TrimBuild
  <2>3. LogTypes'
    BY <1>14, TrimmedType DEF TrimBuild, Logs
  <2>. QED
    BY <2>1, <2>2, <2>3
<1>15. ASSUME Close PROVE TypeOK'
  BY <1>15, TypeForget DEF Close, Synced
<1>16. ASSUME TxnStage PROVE TypeOK'
  <2>1. ControlTypes' /\ MemoryTypes' /\ TxnTypes' /\ LogTypes' /\ DatTypes' /\ BackupTypes'
    BY <1>16 DEF TxnStage
  <2>2. FrameTypes'
    <3>1. undo[done + 1] \in UndoEntries
      BY <1>16 DEF TxnStage
    <3>2. Entry(undo[done + 1], table) \in WalEntries
      BY <3>1, EntryType
    <3>3. frame.entries \in Seq(WalEntries)
      BY DEF TypeOK, FrameTypes, Frames
    <3>4. Append(frame.entries, Entry(undo[done + 1], table)) \in Seq(WalEntries)
      BY <3>2, <3>3
    <3>5. Frame(0, FALSE, 0, Append(frame.entries, Entry(undo[done + 1], table))) \in Frames
      BY <3>4 DEF Frame, Frames
    <3>. QED
      BY <1>16, <3>5 DEF TxnStage
  <2>. QED
    BY <2>1, <2>2
<1>17. ASSUME TxnWrite PROVE TypeOK'
  <2>1. ControlTypes' /\ MemoryTypes' /\ DatTypes' /\ BackupTypes'
    BY <1>17 DEF TxnWrite, TxnOver
  <2>2. TxnTypes'
    BY <1>17, NoEntriesType DEF TxnWrite, TxnOver
  <2>3. FrameTypes'
    <3>1. frame.entries \in Seq(WalEntries)
      BY DEF TypeOK, FrameTypes, Frames
    <3>2. Frame(seq + 1, txn_reset, count, frame.entries) \in Frames
      BY <3>1, FrameType
    <3>3. [marked |-> FALSE, frame |-> Frame(seq + 1, txn_reset, count, frame.entries)] \in Wals
      BY <3>2 DEF Wals
    <3>. QED
      BY <1>17, <3>2, <3>3, NoWalType DEF TxnWrite
  <2>4. LogTypes'
    BY <1>17 DEF TxnWrite
  <2>. QED
    BY <2>1, <2>2, <2>3, <2>4
<1>18. ASSUME WalCommit PROVE TypeOK'
  BY <1>18, WalType DEF Wals, WalCommit
<1>19. ASSUME CdcPublish PROVE TypeOK'
  BY <1>19, AppendedType, ChangeFrameType DEF CdcPublish, Frames
<1>20. ASSUME ApplySlot PROVE TypeOK'
  <2>1. ControlTypes' /\ MemoryTypes' /\ TxnTypes' /\ FrameTypes' /\ LogTypes' /\ BackupTypes'
    BY <1>20 DEF ApplySlot
  <2>2. DatTypes'
    <3>1. frame.entries \in Seq(WalEntries)
      BY DEF TypeOK, FrameTypes, Frames
    <3>2. frame.entries[done + 1] \in WalEntries
      BY <1>20, <3>1 DEF ApplySlot
    <3>3. slots' \in Tables
      BY <1>20, <3>2 DEF ApplySlot, Tables, WalEntries
    <3>. QED
      BY <1>20, <3>3 DEF ApplySlot
  <2>. QED
    BY <2>1, <2>2
<1>21. ASSUME PublishHeader PROVE TypeOK'
  BY <1>21 DEF PublishHeader, Header, Headers, Frames
<1>22. ASSUME CheckpointSync PROVE TypeOK'
  BY <1>22 DEF CheckpointSync, Synced
<1>23. ASSUME WalClear PROVE TypeOK'
  BY <1>23, NoWalType, NoEntriesType DEF WalClear, TxnOver
<1>24. ASSUME TruncateSlot PROVE TypeOK'
  <2>1. ControlTypes' /\ TxnTypes' /\ FrameTypes' /\ LogTypes' /\ BackupTypes'
    BY <1>24 DEF TruncateSlot
  <2>2. PICK s \in Slots : /\ table' = [table EXCEPT ![s] = Deleted]
                     /\ slots' = [slots EXCEPT ![s] = Deleted]
    BY <1>24 DEF TruncateSlot, LiveSlots
  <2>3. table' \in Tables /\ slots' \in Tables
    BY <2>2, DeadType DEF Tables
  <2>4. MemoryTypes' /\ DatTypes'
    BY <1>24, <2>3 DEF TruncateSlot
  <2>. QED
    BY <2>1, <2>2, <2>3, <2>4
<1>25. ASSUME TruncateEnd PROVE TypeOK'
  BY <1>25 DEF TruncateEnd
<1>26. ASSUME RestoreApply PROVE TypeOK'
  BY <1>26 DEF RestoreApply, ReplaceTable, Header, Headers
<1>27. ASSUME RestoreLost PROVE TypeOK'
  BY <1>27 DEF RestoreLost
<1>28. ASSUME NEW v \in Vals, BenchRow(v) PROVE TypeOK'
  BY <1>28, RowType, InsertSlotInTable, EmptyTableType DEF BenchRow, Tables
<1>29. ASSUME BenchApply PROVE TypeOK'
  BY <1>29, LiveCountType DEF BenchApply, ReplaceTable, Header, Headers
<1>30. ASSUME BulkSync PROVE TypeOK'
  BY <1>30 DEF BulkSync, Synced
<1>31. ASSUME BulkClose PROVE TypeOK'
  BY <1>31 DEF BulkClose, Header, Headers, BulkKinds
<1>32. ASSUME BulkCloseSync PROVE TypeOK'
  BY <1>32 DEF BulkCloseSync, Synced
<1>33. ASSUME EmitReset PROVE TypeOK'
  BY <1>33, AppendedType, ResetFrameType DEF EmitReset
<1>34. ASSUME ClearReset PROVE TypeOK'
  BY <1>34 DEF ClearReset, Synced, Header, Headers
<1>35. ASSUME TrimSwap PROVE TypeOK'
  <2>1. TxnTypes' /\ FrameTypes' /\ DatTypes' /\ BackupTypes'
    BY <1>35 DEF TrimSwap
  <2>2. ControlTypes'
    BY <1>35 DEF TrimSwap
  <2>3. LogTypes' /\ MemoryTypes'
    BY <1>35, LastSeqType, EmptyLogType DEF TrimSwap
  <2>. QED
    BY <2>1, <2>2, <2>3
<1>36. ASSUME WalRecover PROVE TypeOK'
  <2>1. ControlTypes' /\ MemoryTypes' /\ TxnTypes' /\ LogTypes' /\ DatTypes' /\ BackupTypes'
    BY <1>36 DEF WalRecover
  <2>2. FrameTypes'
    <3>1. wal.frame \in Frames
      BY DEF TypeOK, FrameTypes, Wals
    <3>. QED
      BY <1>36, <3>1, NoWalType DEF WalRecover
  <2>. QED
    BY <2>1, <2>2
<1>37. ASSUME RecoverReset PROVE TypeOK'
  BY <1>37 DEF RecoverReset
<1>38. ASSUME CheckAligned PROVE TypeOK'
  BY <1>38 DEF CheckAligned
<1>39. ASSUME BulkClear PROVE TypeOK'
  BY <1>39, ClearedType DEF BulkClear, ReplaceTable, Header, Headers
<1>40. ASSUME Open PROVE TypeOK'
  <2>1. TxnTypes' /\ FrameTypes' /\ DatTypes' /\ BackupTypes'
    BY <1>40 DEF Open
  <2>2. ControlTypes'
    BY <1>40 DEF Open
  <2>3. ASSUME NEW log \in Logs PROVE LastSeq(log) \in Nat
    BY <2>3, LastSeqType
  <2>4. NewLog(hdr.seq) \in Logs
    BY EmptyLogType DEF Headers
  <2>5. LogTypes' /\ MemoryTypes'
    BY <1>40, <2>3, <2>4 DEF Open, Headers
  <2>. QED
    BY <2>1, <2>2, <2>3, <2>4, <2>5
<1>41. ASSUME ProcessEnds PROVE TypeOK'
  BY <1>41, TypeForget DEF ProcessEnds, Synced
<1>42. ASSUME PowerLoss PROVE TypeOK'
  BY <1>42, TypeForget DEF PowerLoss, Synced, Tables
<1>43. ASSUME LoseBackup PROVE TypeOK'
  BY <1>43 DEF LoseBackup
<1>44. ASSUME LoseLog PROVE TypeOK'
  BY <1>44, EmptyLogType DEF LoseLog
<1>. QED
  BY <1>1, <1>2, <1>3, <1>4, <1>5, <1>6, <1>7, <1>8, <1>9, <1>10, <1>11, <1>12, <1>13,
     <1>14, <1>15, <1>16, <1>17, <1>18, <1>19, <1>20, <1>21, <1>22, <1>23, <1>24, <1>25,
     <1>26, <1>27, <1>28, <1>29, <1>30, <1>31, <1>32, <1>33, <1>34, <1>35, <1>36, <1>37,
     <1>38, <1>39, <1>40, <1>41, <1>42, <1>43, <1>44
  DEF Next, Command, Step, Environment

\* Whatever commands, crashes and losses: every variable keeps its type.
THEOREM TypeCorrect == Spec => []TypeOK
<1>1. Init => TypeOK
  BY TypeInit
<1>2. TypeOK /\ [Next]_vars => TypeOK'
  <2>1. ASSUME TypeOK, UNCHANGED vars PROVE TypeOK'
    BY <2>1 DEF TypeOK, ControlTypes, MemoryTypes, TxnTypes, FrameTypes, LogTypes, DatTypes,
       BackupTypes, PCs, vars, memVars, txnVars, bulkVars, logVars, datVars
  <2>. QED
    BY <2>1, TypeStep
<1>. QED
  BY <1>1, <1>2, PTL DEF Spec

-----------------------------------------------------------------------------
(* The undo log *)

\* The slots from the d-th on that a TRUNCATE still has to capture.
Pending(t, u, d) == {s \in Slots : s >= d /\ Live(t[s]) /\ ~Captured(u, s)}

\* The inductive invariant behind UndoFits: what a TRUNCATE was promised when it
\* began is still there for the slots it has not looked at, and a frame being
\* staged has no more entries than undo images looked at.
UndoInv ==
  /\ Len(undo) <= UndoMax
  /\ Len(frame.entries) <= UndoMax
  /\ Len(wal.frame.entries) <= UndoMax
  /\ pc = "capture" => Len(undo) + Cardinality(Pending(table, undo, done)) <= UndoMax
  /\ pc = "stage" => done <= Len(undo) /\ Len(frame.entries) <= done

LEMMA PendingFinite ==
  ASSUME NEW t, NEW u, NEW d
  PROVE  IsFiniteSet(Pending(t, u, d)) /\ Cardinality(Pending(t, u, d)) \in Nat
<1>1. IsFiniteSet(Slots)
  BY FS_Interval DEF Slots
<1>2. Pending(t, u, d) \in SUBSET Slots
  BY DEF Pending
<1>. QED
  BY <1>1, <1>2, FS_Subset, FS_CardinalityType

\* The images and frames that have been started have no entries.
LEMMA NothingYet == Len(NoFrame.entries) = 0 /\ Len(NoWal.frame.entries) = 0
BY DEF NoFrame, NoWal, Frame

LEMMA CapturedLength ==
  ASSUME NEW u \in Seq(UndoEntries), NEW t, NEW s
  PROVE  /\ Captured(u, s) => Capture(u, t, s) = u
         /\ ~Captured(u, s) => Len(Capture(u, t, s)) = Len(u) + 1
BY DEF Capture

\* A slot that is captured is captured, and so is what was captured before.
LEMMA CapturedStays ==
  ASSUME NEW u \in Seq(UndoEntries), NEW t, NEW s
  PROVE  /\ Captured(Capture(u, t, s), s)
         /\ \A o : Captured(u, o) => Captured(Capture(u, t, s), o)
<1> DEFINE v == Append(u, [slot |-> s, before |-> t[s]])
<1>1. CASE Captured(u, s)
  BY <1>1 DEF Capture
<1>2. CASE ~Captured(u, s)
  <2>1. Capture(u, t, s) = v
    BY <1>2 DEF Capture
  <2>2. /\ Len(v) = Len(u) + 1 /\ Len(u) \in Nat /\ v[Len(u) + 1].slot = s
        /\ \A i \in 1 .. Len(u) : v[i] = u[i]
    OBVIOUS
  <2>. HIDE DEF v
  <2>3. Captured(v, s)
    BY <2>2 DEF Captured
  <2>4. ASSUME NEW o, Captured(u, o) PROVE Captured(v, o)
    <3>1. PICK i \in 1 .. Len(u) : u[i].slot = o
      BY <2>4 DEF Captured
    <3>2. i \in 1 .. Len(v) /\ v[i].slot = o
      BY <2>2, <3>1
    <3>. QED
      BY <3>2 DEF Captured
  <2>. QED
    BY <2>1, <2>3, <2>4
<1>. QED
  BY <1>1, <1>2

\* Capturing a slot of the table uses up what was reserved for it.
LEMMA CaptureUses ==
  ASSUME NEW u \in Seq(UndoEntries), NEW t, NEW d \in Slots
  PROVE  LET v == IF Live(t[d]) THEN Capture(u, t, d) ELSE u
         IN Len(v) + Cardinality(Pending(t, v, d + 1))
              <= Len(u) + Cardinality(Pending(t, u, d))
<1> DEFINE v == IF Live(t[d]) THEN Capture(u, t, d) ELSE u
<1> DEFINE P == Pending(t, u, d)
<1> DEFINE Q == Pending(t, v, d + 1)
<1>1. Captured(u, d) \/ Live(t[d]) => Captured(v, d)
  BY CapturedStays
<1>2. \A o : Captured(u, o) => Captured(v, o)
  BY CapturedStays
<1>3. Q \subseteq P \ {d}
  BY <1>2 DEF Pending, Slots
<1>4. /\ IsFiniteSet(P) /\ Cardinality(P) \in Nat
      /\ IsFiniteSet(Q) /\ Cardinality(Q) \in Nat
  BY PendingFinite
<1>5. /\ IsFiniteSet(P \ {d})
      /\ Cardinality(P \ {d}) = IF d \in P THEN Cardinality(P) - 1 ELSE Cardinality(P)
  BY <1>4, FS_RemoveElement
<1>6. Cardinality(Q) <= Cardinality(P \ {d})
  BY <1>3, <1>5, FS_Subset
<1>7. Len(u) \in Nat
  OBVIOUS
<1>8. CASE Live(t[d]) /\ ~Captured(u, d)
  <2>1. d \in P
    BY <1>8 DEF Pending, Slots
  <2>2. Len(v) = Len(u) + 1
    BY <1>8, CapturedLength
  <2>. HIDE DEF v, P, Q
  <2>3. QED
    BY <1>4, <1>5, <1>6, <1>7, <2>1, <2>2 DEF v, Q, P
<1>9. CASE ~(Live(t[d]) /\ ~Captured(u, d))
  <2>1. v = u
    BY <1>9, CapturedLength
  <2>. HIDE DEF P, Q
  <2>2. Cardinality(Q) <= Cardinality(P)
    BY <1>4, <1>5, <1>6
  <2>. QED
    BY <1>4, <1>7, <2>1, <2>2 DEF P, Q
<1>. QED
  BY <1>8, <1>9

LEMMA UndoInit == Init => UndoInv
BY UndoAssumption, NothingYet DEF Init, UndoInv

\* A step that leaves undo log and frames alone, and is in neither loop after.
LEMMA UndoElsewhere ==
  ASSUME UndoInv, UNCHANGED <<undo, frame, wal>>, pc' \notin {"capture", "stage"}
  PROVE  UndoInv'
BY DEF UndoInv

\* A step after which undo log and frame are empty.
LEMMA UndoEmptied ==
  ASSUME UndoInv, undo' = <<>>, frame' \in {frame, NoFrame}, wal' \in {wal, NoWal},
         pc' \notin {"capture", "stage"}
  PROVE  UndoInv'
BY UndoAssumption, NothingYet DEF UndoInv

LEMMA UndoMutate ==
  ASSUME TypeOK, UndoInv, Ready, NEW s, NEW rec, NEW c, Mutate(s, rec, c)
  PROVE  UndoInv'
<1>1. undo \in Seq(UndoEntries) /\ wal' = wal /\ UndoMax \in Nat \ {0}
  BY UndoAssumption DEF TypeOK, TxnTypes, Mutate, logVars
<1>2. CASE in_txn
  <2>1. undo' = Capture(undo, table, s) /\ frame' = frame /\ pc' = "ready"
    BY <1>2 DEF Mutate, Ready
  <2>2. Captured(undo, s) \/ Len(undo) < UndoMax
    BY <1>2 DEF Mutate, CaptureFits
  <2>3. Len(undo') <= UndoMax
    BY <1>1, <2>1, <2>2, CapturedLength DEF UndoInv
  <2>. QED
    BY <1>1, <2>1, <2>3 DEF UndoInv
<1>3. CASE ~in_txn
  <2>1. undo' = Capture(<<>>, table, s) /\ frame' = NoFrame /\ pc' = "stage" /\ done' = 0
    BY <1>3 DEF Mutate, StartFlush
  <2>2. Len(undo') = 1
    <3>1. Capture(<<>>, table, s) = <<[slot |-> s, before |-> table[s]]>>
      BY DEF Capture, Captured
    <3>. QED
      BY <2>1, <3>1
  <2>3. Len(frame'.entries) = 0
    BY <2>1, NothingYet
  <2>4. Len(undo') <= UndoMax /\ Len(frame'.entries) <= UndoMax /\ Len(wal'.frame.entries) <= UndoMax
    BY <1>1, <2>2, <2>3 DEF UndoInv
  <2>. QED
    BY <2>1, <2>2, <2>3, <2>4 DEF UndoInv
<1>. QED
  BY <1>2, <1>3

\* The steps that use the undo log or a frame.
LEMMA UndoUsed ==
  ASSUME TypeOK, UndoInv,
         \/ Commit \/ TruncateInTxn \/ CaptureSlot
         \/ TxnStage \/ TxnWrite \/ WalCommit \/ WalRecover
  PROVE  UndoInv'
<1>1. /\ undo \in Seq(UndoEntries) /\ Len(undo) \in Nat /\ UndoMax \in Nat \ {0} /\ done \in Nat
      /\ frame.entries \in Seq(WalEntries) /\ Len(frame.entries) \in Nat
  BY UndoAssumption DEF TypeOK, TxnTypes, ControlTypes, FrameTypes, Frames
<1>2. CASE Commit
  <2>1. undo' = undo /\ wal' = wal /\ frame' = NoFrame /\ pc' = "stage" /\ done' = 0
    BY <1>2 DEF Commit, StartFlush, txnVars, logVars
  <2>. QED
    BY <1>1, <2>1, NothingYet DEF UndoInv
<1>3. CASE TruncateInTxn
  <2>1. /\ UNCHANGED <<undo, wal, frame, table>> /\ pc' = "capture" /\ done' = 0
        /\ Len(undo) + Cardinality({s \in LiveSlots(table) : ~Captured(undo, s)}) <= UndoMax
    BY <1>3 DEF TruncateInTxn, txnVars, logVars
  <2>2. Pending(table, undo, 0) = {s \in LiveSlots(table) : ~Captured(undo, s)}
    BY DEF Pending, LiveSlots, Slots
  <2>3. Len(undo') + Cardinality(Pending(table', undo', done')) <= UndoMax
    BY <2>1, <2>2
  <2>. QED
    BY <2>1, <2>3 DEF UndoInv, Pending, Captured
<1>4. CASE CaptureSlot
  <2> DEFINE v == IF Live(table[done]) THEN Capture(undo, table, done) ELSE undo
  <2>1. /\ pc = "capture" /\ pc' = pc /\ done < Capacity /\ done' = done + 1
        /\ undo' = v /\ UNCHANGED <<frame, wal, table>>
    BY <1>4 DEF CaptureSlot, logVars
  <2>2. done \in Slots
    BY <1>1, <2>1 DEF Slots
  <2>3. v \in Seq(UndoEntries)
    BY <1>1, <2>2, CaptureType DEF TypeOK, MemoryTypes
  <2>4. Len(v) + Cardinality(Pending(table, v, done + 1))
          <= Len(undo) + Cardinality(Pending(table, undo, done))
    BY <1>1, <2>2, CaptureUses
  <2>. HIDE DEF v
  <2>5. Len(undo) + Cardinality(Pending(table, undo, done)) <= UndoMax
    BY <2>1 DEF UndoInv
  <2>6. /\ Cardinality(Pending(table, v, done + 1)) \in Nat
        /\ Cardinality(Pending(table, undo, done)) \in Nat /\ Len(v) \in Nat
    BY <2>3, PendingFinite
  <2>7. /\ Len(v) + Cardinality(Pending(table, v, done + 1)) <= UndoMax
        /\ Len(v) <= UndoMax
    BY <1>1, <2>4, <2>5, <2>6
  <2>8. Len(undo') + Cardinality(Pending(table', undo', done')) <= UndoMax
    BY <2>1, <2>7
  <2>. QED
    BY <2>1, <2>7, <2>8 DEF UndoInv, Pending, Captured
<1>5. CASE TxnStage
  <2>1. /\ pc = "stage" /\ pc' = pc /\ done < Len(undo) /\ done' = done + 1
        /\ UNCHANGED <<undo, wal>>
        /\ \/ frame' = frame
           \/ \E e : frame' = Frame(0, FALSE, 0, Append(frame.entries, e))
    BY <1>5 DEF TxnStage, txnVars, logVars
  <2>2. Len(frame'.entries) <= Len(frame.entries) + 1 /\ Len(frame'.entries) \in Nat
    BY <1>1, <2>1 DEF Frame
  <2>. QED
    BY <1>1, <2>1, <2>2 DEF UndoInv
<1>6. CASE TxnWrite
  <2>1. CASE frame.entries = <<>> /\ ~txn_reset
    <3>1. wal' = NoWal /\ undo' = <<>> /\ frame' = frame /\ pc' = "ready"
      BY <1>6, <2>1 DEF TxnWrite, TxnOver
    <3>. QED
      BY <3>1, UndoEmptied
  <2>2. CASE ~(frame.entries = <<>> /\ ~txn_reset)
    <3>1. /\ frame' = Frame(seq + 1, txn_reset, count, frame.entries)
          /\ wal' = [marked |-> FALSE, frame |-> frame'] /\ undo' = undo /\ pc' = "mark"
      BY <1>6, <2>2 DEF TxnWrite, txnVars
    <3>2. frame'.entries = frame.entries /\ wal'.frame.entries = frame.entries
      BY <3>1 DEF Frame
    <3>. QED
      BY <3>1, <3>2 DEF UndoInv
  <2>. QED
    BY <2>1, <2>2
<1>7. CASE WalCommit
  <2>1. wal'.frame = wal.frame /\ UNCHANGED <<undo, frame>> /\ pc' = "publish"
    BY <1>7 DEF WalCommit, memVars, txnVars
  <2>. QED
    BY <2>1 DEF UndoInv
<1>8. CASE WalRecover
  <2>1. /\ undo' = undo /\ pc' \in {"publish", "recover_reset"}
        /\ \/ frame' = wal.frame /\ wal' = wal
           \/ frame' = frame /\ wal' = NoWal
    BY <1>8 DEF WalRecover, txnVars
  <2>. QED
    BY <1>1, <2>1, NothingYet DEF UndoInv
<1>. QED
  BY <1>2, <1>3, <1>4, <1>5, <1>6, <1>7, <1>8

LEMMA UndoStep ==
  ASSUME TypeOK, UndoInv, Next
  PROVE  UndoInv'
<1>1. ASSUME NEW id \in Ids, NEW v \in Vals, Insert(id, v) \/ Update(id, v) PROVE UndoInv'
  BY <1>1, UndoMutate DEF Insert, Update
<1>2. ASSUME NEW id \in Ids, Delete(id) PROVE UndoInv'
  BY <1>2, UndoMutate DEF Delete
<1>3. CASE Begin \/ Rollback
  <2>1. undo' = <<>> /\ frame' = frame /\ wal' \in {wal, NoWal} /\ pc' = "ready"
    BY <1>3 DEF Begin, Rollback, Idle, Ready, logVars
  <2>. QED
    BY <2>1, UndoEmptied
<1>4. CASE \/ Commit \/ TruncateInTxn \/ CaptureSlot
           \/ TxnStage \/ TxnWrite \/ WalCommit \/ WalRecover
  BY <1>4, UndoUsed
<1>5. CASE Close \/ ProcessEnds \/ PowerLoss
  <2>1. Forget
    BY <1>5 DEF Close, ProcessEnds, PowerLoss
  <2>2. undo' = <<>> /\ frame' = NoFrame /\ wal' = wal /\ pc' = "down"
    BY <2>1 DEF Forget, logVars
  <2>. QED
    BY <2>2, UndoEmptied
<1>6. CASE WalClear
  <2>1. /\ frame' = frame /\ wal' = NoWal /\ pc' \in {"ready", "recover_reset"}
        /\ undo' \in {undo, <<>>}
    BY <1>6 DEF WalClear, TxnOver, txnVars
  <2>. QED
    BY <2>1, NothingYet, UndoAssumption DEF UndoInv
<1>7. CASE LoseBackup \/ LoseLog
  <2>1. UNCHANGED <<pc, undo, frame, wal, table, done>>
    BY <1>7 DEF LoseBackup, LoseLog, memVars, txnVars, logVars
  <2>. QED
    BY <2>1 DEF UndoInv, Pending, Captured
<1>8. CASE \/ Truncate \/ Restore \/ Bench
           \/ Backup \/ \E s \in 0 .. MaxSeq : TrimBuild(s)
  <2>1. UNCHANGED <<undo, frame, wal>> /\ pc' \notin {"capture", "stage"}
    BY <1>8 DEF Truncate, Restore, Bench, BulkBegin, Backup, TrimBuild, Idle, Ready, txnVars,
       logVars, memVars
  <2>. QED
    BY <2>1, UndoElsewhere
<1>9. CASE ClearInTxn \/ CdcPublish \/ ApplySlot \/ PublishHeader \/ CheckpointSync
  <2>1. UNCHANGED <<undo, frame, wal>> /\ pc' \notin {"capture", "stage"}
    BY <1>9 DEF ClearInTxn, CdcPublish, ApplySlot, PublishHeader, CheckpointSync, txnVars,
       logVars, memVars
  <2>. QED
    BY <2>1, UndoElsewhere
<1>10. CASE \/ TruncateSlot \/ TruncateEnd \/ RestoreApply \/ RestoreLost
            \/ (\E v \in Vals : BenchRow(v)) \/ BenchApply
            \/ BulkSync \/ BulkClose \/ BulkCloseSync \/ EmitReset \/ ClearReset
  <2>1. UNCHANGED <<undo, frame, wal>> /\ pc' \notin {"capture", "stage"}
    BY <1>10 DEF TruncateSlot, TruncateEnd, RestoreApply, RestoreLost, BenchRow, BenchApply,
       ReplaceTable, BulkSync, BulkClose, BulkCloseSync, EmitReset, ClearReset, txnVars,
       logVars, memVars
  <2>. QED
    BY <2>1, UndoElsewhere
<1>11. CASE TrimSwap \/ RecoverReset \/ CheckAligned \/ BulkClear \/ Open
  <2>1. UNCHANGED <<undo, frame, wal>> /\ pc' \notin {"capture", "stage"}
    BY <1>11 DEF TrimSwap, RecoverReset, CheckAligned, BulkClear, ReplaceTable, Open, txnVars,
       logVars, memVars
  <2>. QED
    BY <2>1, UndoElsewhere
<1>. QED
  BY <1>1, <1>2, <1>3, <1>4, <1>5, <1>6, <1>7, <1>8, <1>9, <1>10, <1>11
  DEF Next, Command, Step, Environment

\* The undo log is never overrun, nor the WAL buffer that is sized after it, by
\* statements and by a TRUNCATE on top of them (wal.inc:449, parse.inc:687).
THEOREM UndoAlwaysFits == Spec => []UndoFits
<1>1. Init => TypeOK /\ UndoInv
  BY TypeInit, UndoInit
<1>2. TypeOK /\ UndoInv /\ [Next]_vars => (TypeOK /\ UndoInv)'
  <2>1. ASSUME TypeOK, UndoInv, UNCHANGED vars PROVE (TypeOK /\ UndoInv)'
    BY <2>1 DEF TypeOK, ControlTypes, MemoryTypes, TxnTypes, FrameTypes, LogTypes, DatTypes,
       BackupTypes, PCs, vars, memVars, txnVars, bulkVars, logVars, datVars, UndoInv, Pending,
       Captured
  <2>. QED
    BY <2>1, TypeStep, UndoStep
<1>3. UndoInv => UndoFits
  BY DEF UndoInv, UndoFits
<1>. QED
  BY <1>1, <1>2, <1>3, PTL DEF Spec

-----------------------------------------------------------------------------
(* The sequence numbers *)

LEMMA SeqTypes ==
  ASSUME TypeOK
  PROVE  /\ hdr.seq \in Nat /\ hdr.rseq \in Nat /\ hdr.pend \in {0, 1}
         /\ hdr_safe.seq \in Nat /\ hdr_safe.rseq \in Nat /\ hdr_safe.pend \in {0, 1}
         /\ wal.frame.seq \in Nat /\ frame.seq \in Nat /\ wal.frame \in Frames
         /\ seq \in Nat /\ reset_seq \in Nat /\ reset_pend \in {0, 1}
         /\ cdc \in Logs /\ LastSeq(cdc) \in Nat /\ frame \in Frames
         /\ cdc_part \in Logs /\ LogEnd \in Nat /\ cdc_lastseq \in Nat
<1>1. cdc \in Logs /\ cdc_part \in Logs /\ frame \in Frames /\ wal \in Wals
  BY DEF TypeOK, LogTypes, FrameTypes
<1>2. LastSeq(cdc) \in Nat
  BY <1>1, LastSeqType
<1>3. hdr \in Headers /\ hdr_safe \in Headers
  BY DEF TypeOK, DatTypes
<1>4. wal.frame \in Frames
  BY <1>1 DEF Wals
<1>. QED
  BY <1>1, <1>2, <1>3, <1>4 DEF Headers, Frames, LogEnd, TypeOK, MemoryTypes

LEMMA SeqInit == Init => SeqInv
<1>. SUFFICES ASSUME Init PROVE SeqInv
  OBVIOUS
<1>. QED
  BY DenseNew
  DEF Init, Header, NoWal, SeqInv, HeadersAgree, MemoryAgrees, LogStanding, CommitPhases,
      ResetPhases, SnapshotThere, TrimReady, Running, LogEnd, ResetPending, Settled,
      ResetStateOk

\* A snapshot is never mistaken for its absence.
LEMMA SomeBackup ==
  ASSUME NEW t \in Tables, NEW c
  PROVE  [slots |-> t, count |-> c] # NoBackup
<1>1. DOMAIN t = Slots /\ DOMAIN <<>> = {}
  BY DEF Tables
<1>2. 0 \in Slots
  BY CapacityAssumption DEF Slots
<1>3. t # <<>>
  BY <1>1, <1>2, Zenon
<1>. QED
  BY <1>3 DEF NoBackup

LEMMA SeqBulkBegin ==
  ASSUME TypeOK, SeqInv, NEW kind, NEW next, BulkBegin(kind, next),
         next \in {"truncate", "restore", "bench"},
         next = "restore" => backup # NoBackup, kind = "RESTORE" => backup # NoBackup
  PROVE  SeqInv'
BY SeqTypes
DEF BulkBegin, Synced, Idle, Ready, Header, SeqInv, HeadersAgree, MemoryAgrees, LogStanding, CommitPhases, ResetPhases, SnapshotThere,
      TrimReady, Running, LogEnd, CommitPending, ResetPending, Settled, ResetStateOk,
      vars, memVars, txnVars, bulkVars, logVars, datVars

LEMMA SeqForget ==
  ASSUME TypeOK, SeqInv, Forget, hdr' \in {hdr, hdr_safe}, Synced
  PROVE  SeqInv'
BY SeqTypes
DEF Forget, Synced, SeqInv, HeadersAgree, MemoryAgrees, LogStanding, CommitPhases, ResetPhases, SnapshotThere,
      TrimReady, Running, LogEnd, CommitPending, ResetPending, Settled, ResetStateOk,
      vars, memVars, txnVars, bulkVars, logVars, datVars

\* Every step keeps the invariant: one proof step per action of Next.
THEOREM SeqStep ==
  ASSUME TypeOK, TypeOK', SeqInv, Next, "nobackup" \notin Faults
  PROVE  SeqInv'
<1>. USE DEF SeqInv, HeadersAgree, MemoryAgrees, LogStanding, CommitPhases, ResetPhases,
             SnapshotThere, TrimReady, Running, LogEnd, CommitPending, ResetPending, Settled,
             ResetStateOk, vars, memVars, txnVars, bulkVars, logVars, datVars
<1>1. ASSUME NEW id \in Ids, NEW v \in Vals, Insert(id, v) PROVE SeqInv'
  BY <1>1, SeqTypes DEF Insert, Mutate, StartFlush, Ready
<1>2. ASSUME NEW id \in Ids, NEW v \in Vals, Update(id, v) PROVE SeqInv'
  BY <1>2, SeqTypes DEF Update, Mutate, StartFlush, Ready
<1>3. ASSUME NEW id \in Ids, Delete(id) PROVE SeqInv'
  BY <1>3, SeqTypes DEF Delete, Mutate, StartFlush, Ready
<1>4. ASSUME Begin PROVE SeqInv'
  BY <1>4, SeqTypes DEF Begin, Ready, Idle
<1>5. ASSUME Commit PROVE SeqInv'
  BY <1>5, SeqTypes DEF Commit, StartFlush, Ready
<1>6. ASSUME Rollback PROVE SeqInv'
  BY <1>6, SeqTypes DEF Rollback, NoWal, Ready
<1>7. ASSUME TruncateInTxn PROVE SeqInv'
  BY <1>7, SeqTypes DEF TruncateInTxn, Ready
<1>8. ASSUME CaptureSlot PROVE SeqInv'
  BY <1>8, SeqTypes DEF CaptureSlot
<1>9. ASSUME ClearInTxn PROVE SeqInv'
  BY <1>9, SeqTypes DEF ClearInTxn
<1>10. ASSUME Truncate PROVE SeqInv'
  BY <1>10, SeqTypes, SeqBulkBegin DEF Truncate
<1>11. ASSUME Restore PROVE SeqInv'
  BY <1>11, SeqTypes, SeqBulkBegin DEF Restore
<1>12. ASSUME Bench PROVE SeqInv'
  BY <1>12, SeqTypes, SeqBulkBegin DEF Bench
<1>13. ASSUME Backup PROVE SeqInv'
  <2>1. backup' # NoBackup
    BY <1>13, SomeBackup DEF Backup, TypeOK, MemoryTypes
  <2>. QED
    BY <1>13, <2>1 DEF Backup, Ready, Idle
<1>14. ASSUME NEW s \in 0 .. MaxSeq, TrimBuild(s) PROVE SeqInv'
  BY <1>14, SeqTypes, DenseTrim DEF TrimBuild, Ready, Idle
<1>15. ASSUME Close PROVE SeqInv'
  BY <1>15, SeqTypes, SeqForget DEF Close, Synced, Ready
<1>16. ASSUME TxnStage PROVE SeqInv'
  BY <1>16, SeqTypes DEF TxnStage
<1>17. ASSUME TxnWrite PROVE SeqInv'
  BY <1>17, SeqTypes DEF TxnWrite, TxnOver, NoWal, Frame
<1>18. ASSUME WalCommit PROVE SeqInv'
  BY <1>18, SeqTypes DEF WalCommit
<1>19. ASSUME CdcPublish PROVE SeqInv'
  BY <1>19, SeqTypes, DenseAppend, ChangeFrameType DEF CdcPublish, Gate, ChangeFrame
<1>20. ASSUME ApplySlot PROVE SeqInv'
  BY <1>20, SeqTypes DEF ApplySlot
<1>21. ASSUME PublishHeader PROVE SeqInv'
  BY <1>21, SeqTypes DEF PublishHeader, Header
<1>22. ASSUME CheckpointSync PROVE SeqInv'
  BY <1>22, SeqTypes DEF CheckpointSync, Synced
<1>23. ASSUME WalClear PROVE SeqInv'
  BY <1>23, SeqTypes DEF WalClear, NoWal, TxnOver
<1>24. ASSUME TruncateSlot PROVE SeqInv'
  BY <1>24, SeqTypes DEF TruncateSlot
<1>25. ASSUME TruncateEnd PROVE SeqInv'
  BY <1>25, SeqTypes DEF TruncateEnd
<1>26. ASSUME RestoreApply PROVE SeqInv'
  BY <1>26, SeqTypes DEF RestoreApply, ReplaceTable, Header
<1>27. ASSUME RestoreLost PROVE SeqInv'
  BY <1>27, SeqTypes DEF RestoreLost
<1>28. ASSUME NEW v \in Vals, BenchRow(v) PROVE SeqInv'
  BY <1>28, SeqTypes DEF BenchRow
<1>29. ASSUME BenchApply PROVE SeqInv'
  BY <1>29, SeqTypes DEF BenchApply, ReplaceTable, Header
<1>30. ASSUME BulkSync PROVE SeqInv'
  BY <1>30, SeqTypes DEF BulkSync, Synced
<1>31. ASSUME BulkClose PROVE SeqInv'
  BY <1>31, SeqTypes DEF BulkClose, Header
<1>32. ASSUME BulkCloseSync PROVE SeqInv'
  BY <1>32, SeqTypes DEF BulkCloseSync, Synced
<1>33. ASSUME EmitReset PROVE SeqInv'
  BY <1>33, SeqTypes, DenseAppend, ResetFrameType DEF EmitReset, Gate, ResetFrame
<1>34. ASSUME ClearReset PROVE SeqInv'
  BY <1>34, SeqTypes DEF ClearReset, Synced, Header
<1>35. ASSUME TrimSwap PROVE SeqInv'
  BY <1>35, SeqTypes DEF TrimSwap, NoLog
<1>36. ASSUME WalRecover PROVE SeqInv'
  BY <1>36, SeqTypes DEF WalRecover, NoWal
<1>37. ASSUME RecoverReset PROVE SeqInv'
  BY <1>37, SeqTypes DEF RecoverReset
<1>38. ASSUME CheckAligned PROVE SeqInv'
  BY <1>38, SeqTypes DEF CheckAligned
<1>39. ASSUME BulkClear PROVE SeqInv'
  BY <1>39, SeqTypes DEF BulkClear, ReplaceTable, Header
<1>40. ASSUME Open PROVE SeqInv'
  BY <1>40, SeqTypes, DenseNew DEF Open, HeaderOk
<1>41. ASSUME ProcessEnds PROVE SeqInv'
  BY <1>41, SeqTypes, SeqForget DEF ProcessEnds, Synced
<1>42. ASSUME PowerLoss PROVE SeqInv'
  BY <1>42, SeqTypes, SeqForget DEF PowerLoss, Synced
<1>43. ASSUME LoseBackup PROVE SeqInv'
  BY <1>43, SeqTypes DEF LoseBackup
<1>44. ASSUME LoseLog PROVE SeqInv'
  BY <1>44, SeqTypes, DenseNew DEF LoseLog
<1>. QED
  BY <1>1, <1>2, <1>3, <1>4, <1>5, <1>6, <1>7, <1>8, <1>9, <1>10, <1>11, <1>12, <1>13,
     <1>14, <1>15, <1>16, <1>17, <1>18, <1>19, <1>20, <1>21, <1>22, <1>23, <1>24, <1>25,
     <1>26, <1>27, <1>28, <1>29, <1>30, <1>31, <1>32, <1>33, <1>34, <1>35, <1>36, <1>37,
     <1>38, <1>39, <1>40, <1>41, <1>42, <1>43, <1>44
  DEF Next, Command, Step, Environment

-----------------------------------------------------------------------------
(* What the invariant gives *)

\* At every point of a session, of an open and of a crash, the header, the WAL, the
\* change log and the globals stand as the protocol says, as long as the snapshot of
\* an announced RESTORE is not removed.
THEOREM SeqCorrect ==
  ASSUME "nobackup" \notin Faults
  PROVE  Spec => []SeqInv
<1>1. Init => SeqInv
  BY SeqInit
<1>2. TypeOK /\ TypeOK' /\ SeqInv /\ [Next]_vars => SeqInv'
  <2>1. ASSUME SeqInv, UNCHANGED vars PROVE SeqInv'
    BY <2>1
    DEF SeqInv, HeadersAgree, MemoryAgrees, LogStanding, CommitPhases, ResetPhases,
        SnapshotThere, TrimReady, Running, LogEnd, CommitPending, ResetPending, Settled,
        ResetStateOk, vars, memVars, txnVars, bulkVars, logVars, datVars
  <2>. QED
    BY <2>1, SeqStep
<1>. QED
  BY <1>1, <1>2, TypeCorrect, PTL DEF Spec

\* cdc_frame_end before the .dat is touched: the log never lacks a change the table on
\* disk has, and what it has ahead of the table is in the WAL or owed by the header.
THEOREM LogIsAhead ==
  ASSUME "nobackup" \notin Faults
  PROVE  Spec => []LogAhead
<1>1. TypeOK /\ SeqInv => LogAhead
  BY SeqTypes
  DEF SeqInv, HeadersAgree, LogStanding, CommitPhases, CommitPending, ResetPending, Settled, LogEnd,
      ResetStateOk, LogAhead
<1>. QED
  BY <1>1, TypeCorrect, SeqCorrect, PTL

\* What the refusals of cdc_seq_gate, cdc_check_aligned and db_open test for.
NotRefusing ==
  /\ pc = "publish" => Gate(frame.seq) # "refuse"
  /\ pc = "emit_reset" => Gate(reset_seq) # "refuse"
  /\ pc = "check" => cdc_lastseq = seq
  /\ pc = "trim" => Dense(cdc_part) /\ LastSeq(cdc_part) = seq
  /\ pc = "down" => ResetStateOk(hdr) /\ Dense(IF cdc.there THEN cdc ELSE NewLog(hdr.seq))

LEMMA NothingToRefuse ==
  ASSUME TypeOK, SeqInv
  PROVE  NotRefusing
<1>1. pc = "publish" => Gate(frame.seq) # "refuse"
  BY SeqTypes
  DEF SeqInv, HeadersAgree, MemoryAgrees, LogStanding, CommitPhases, CommitPending, LogEnd,
      Running, Gate
<1>2. pc = "emit_reset" => Gate(reset_seq) # "refuse"
  BY SeqTypes
  DEF SeqInv, HeadersAgree, MemoryAgrees, LogStanding, CommitPhases, ResetPhases,
      ResetPending, Settled, ResetStateOk, LogEnd, Running, Gate
<1>3. pc = "check" => cdc_lastseq = seq
  BY SeqTypes
  DEF SeqInv, HeadersAgree, MemoryAgrees, LogStanding, CommitPhases, ResetPhases,
      ResetPending, Settled, LogEnd, Running
<1>4. pc = "trim" => Dense(cdc_part) /\ LastSeq(cdc_part) = seq
  BY DEF SeqInv, MemoryAgrees, TrimReady, Running
<1>5. pc = "down" => ResetStateOk(hdr) /\ Dense(IF cdc.there THEN cdc ELSE NewLog(hdr.seq))
  BY SeqTypes, DenseNew DEF SeqInv, HeadersAgree
<1>. QED
  BY <1>1, <1>2, <1>3, <1>4, <1>5 DEF NotRefusing

\* A session, an open and a CDCTRIM never meet a log they would have to refuse: what
\* the checks of cdc_seq_gate, cdc_check_aligned, cdc_scan and db_open stop on is only
\* ever the work of something else than the engine.
THEOREM NeverOutOfStep ==
  ASSUME "nobackup" \notin Faults
  PROVE  Spec => []NotRefusing
BY NothingToRefuse, TypeCorrect, SeqCorrect, PTL

-----------------------------------------------------------------------------
(* The log as its readers find it: dense, whatever the operator removes *)

DenseInv == Dense(cdc) /\ Dense(cdc_part) /\ (Running => cdc_lastseq = LastSeq(cdc))

LEMMA DenseStep ==
  ASSUME TypeOK, DenseInv, Next
  PROVE  DenseInv'
<1>. USE DEF DenseInv, Running, Ready, Idle, txnVars, bulkVars, memVars, logVars
<1>0. cdc \in Logs /\ cdc_part \in Logs
  BY DEF TypeOK, LogTypes
<1>1. CASE \/ (\E id \in Ids, v \in Vals : Insert(id, v) \/ Update(id, v))
           \/ (\E id \in Ids : Delete(id))
           \/ Begin \/ Commit \/ Rollback \/ TruncateInTxn \/ CaptureSlot \/ ClearInTxn
  BY <1>1 DEF Insert, Update, Delete, Mutate, StartFlush, Begin, Commit, Rollback,
     TruncateInTxn, CaptureSlot, ClearInTxn
<1>2. CASE Truncate \/ Restore \/ Bench \/ Backup \/ Close
  BY <1>2 DEF Truncate, Restore, Bench, BulkBegin, Backup, Close, Forget
<1>3. CASE \/ TxnStage \/ TxnWrite \/ WalCommit \/ ApplySlot \/ PublishHeader \/ CheckpointSync
           \/ WalClear
  BY <1>3 DEF TxnStage, TxnWrite, TxnOver, WalCommit, ApplySlot, PublishHeader, CheckpointSync,
     WalClear
<1>4. CASE CdcPublish
  <2>1. CASE cdc' = cdc /\ cdc_lastseq' = cdc_lastseq
    BY <1>4, <2>1 DEF CdcPublish
  <2>2. CASE /\ Gate(frame.seq) = "write" /\ cdc_lastseq' = frame.seq
             /\ cdc' = Appended(cdc, ChangeFrame(frame))
    <3>1. ChangeFrame(frame) \in ChangeFrames /\ ChangeFrame(frame).seq = frame.seq
      BY ChangeFrameType DEF TypeOK, FrameTypes, ChangeFrame
    <3>2. frame.seq = LastSeq(cdc) + 1
      BY <1>4, <2>2 DEF CdcPublish, Gate
    <3>. QED
      BY <1>0, <1>4, <2>2, <3>1, <3>2, DenseAppend DEF CdcPublish
  <2>. QED
    BY <1>4, <2>1, <2>2 DEF CdcPublish
<1>5. CASE EmitReset
  <2>1. CASE cdc' = cdc /\ cdc_lastseq' = cdc_lastseq
    BY <1>5, <2>1 DEF EmitReset
  <2>2. CASE /\ Gate(reset_seq) = "write" /\ cdc_lastseq' = reset_seq
             /\ cdc' = Appended(cdc, ResetFrame(reset_seq))
    <3>1. ResetFrame(reset_seq) \in ChangeFrames /\ ResetFrame(reset_seq).seq = reset_seq
      BY ResetFrameType DEF TypeOK, MemoryTypes, ResetFrame
    <3>2. reset_seq = LastSeq(cdc) + 1
      BY <1>5, <2>2 DEF EmitReset, Gate
    <3>. QED
      BY <1>0, <1>5, <2>2, <3>1, <3>2, DenseAppend DEF EmitReset
  <2>. QED
    BY <1>5, <2>1, <2>2 DEF EmitReset
<1>6. CASE \/ TruncateSlot \/ TruncateEnd \/ RestoreApply \/ RestoreLost
           \/ (\E v \in Vals : BenchRow(v)) \/ BenchApply \/ BulkSync \/ BulkClose \/ BulkCloseSync
           \/ ClearReset
  BY <1>6 DEF TruncateSlot, TruncateEnd, RestoreApply, RestoreLost, BenchRow, BenchApply,
     ReplaceTable, BulkSync, BulkClose, BulkCloseSync, ClearReset
<1>7. ASSUME NEW s \in 0 .. MaxSeq, TrimBuild(s) PROVE DenseInv'
  <2>1. s \in cdc.base .. seq /\ cdc_part' = Trimmed(cdc, s) /\ cdc.base \in Nat /\ seq \in Nat
    BY <1>0, <1>7 DEF TrimBuild, TypeOK, MemoryTypes, Logs
  <2>2. CASE s <= LastSeq(cdc)
    <3>1. s \in cdc.base .. LastSeq(cdc)
      BY <1>0, <2>1, <2>2, LastSeqType
    <3>. QED
      BY <1>0, <1>7, <2>1, <3>1, DenseTrim DEF TrimBuild
  <2>3. CASE ~(s <= LastSeq(cdc))
    <3>. DEFINE all == cdc.frames
                kept == SubSeq(all, s - cdc.base + 1, Len(all))
    <3>1. /\ all \in Seq(ChangeFrames) /\ Len(all) \in Nat /\ s \in Nat
          /\ LastSeq(cdc) = cdc.base + Len(all)
      BY <1>0, <2>1, DenseLast DEF Logs
    <3>2. s - cdc.base + 1 > Len(all)
      BY <2>1, <2>3, <3>1
    <3>3. kept = <<>>
      BY <2>1, <3>1, <3>2
    <3>4. Trimmed(cdc, s) = [there |-> cdc.there, base |-> s, frames |-> kept]
      BY DEF Trimmed
    <3>. HIDE DEF kept
    <3>5. Dense(Trimmed(cdc, s))
      BY <3>3, <3>4 DEF Dense
    <3>. QED
      BY <1>7, <2>1, <3>5 DEF TrimBuild
  <2>. QED
    BY <2>2, <2>3
<1>8. CASE TrimSwap
  BY <1>8, DenseNew DEF TrimSwap
<1>9. CASE WalRecover \/ RecoverReset \/ CheckAligned \/ BulkClear
  BY <1>9 DEF WalRecover, RecoverReset, CheckAligned, BulkClear, ReplaceTable
<1>10. CASE Open
  BY <1>10 DEF Open
<1>11. CASE ProcessEnds \/ PowerLoss
  BY <1>11 DEF ProcessEnds, PowerLoss, Forget
<1>12. CASE LoseBackup \/ LoseLog
  BY <1>12, DenseNew DEF LoseBackup, LoseLog
<1>. QED
  BY <1>1, <1>2, <1>3, <1>4, <1>5, <1>6, <1>7, <1>8, <1>9, <1>10, <1>11, <1>12
  DEF Next, Command, Step, Environment

\* The sequences of the log follow its base one by one, whatever is removed beside the
\* engine and wherever it stops: readCDC of the gateway, which checks that, refuses no
\* log for its sequences (cdc.go:123).
THEOREM LogIsDense == Spec => []Dense(cdc)
<1>1. Init => DenseInv
  BY DenseNew DEF Init, DenseInv, Running
<1>2. TypeOK /\ DenseInv /\ [Next]_vars => DenseInv'
  <2>1. ASSUME DenseInv, UNCHANGED vars PROVE DenseInv'
    BY <2>1 DEF DenseInv, Running, vars, memVars, txnVars, bulkVars, logVars, datVars
  <2>. QED
    BY <2>1, DenseStep
<1>3. DenseInv => Dense(cdc)
  BY DEF DenseInv
<1>. QED
  BY <1>1, <1>2, <1>3, TypeCorrect, PTL DEF Spec
=============================================================================
