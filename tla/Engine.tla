------------------------------- MODULE Engine -------------------------------
(***************************************************************************)
(* The writer process of asmdb and its three files: the table <db>.dat,    *)
(* the write-ahead log <db>.wal and the change log <db>.cdc.  The process  *)
(* is one thread; what interrupts it is the end of the process at any      *)
(* point, with or without the loss of the writes it has not flushed.       *)
(*                                                                         *)
(* Only the .dat can hold several unflushed writes at once, so it has two  *)
(* values: what has been written (hdr, slots) and what is known to be on   *)
(* disk (hdr_safe, slots_safe).  Each write to the two logs is flushed     *)
(* before anything else happens, and a torn one is dropped when the file   *)
(* is next opened (wal_recover .clear, cdc_scan .trim), so those two       *)
(* writes are one step each.                                               *)
(***************************************************************************)
EXTENDS Store, Sequences

CONSTANTS
  UndoMax,      \* UNDO_MAX: the slots one transaction may touch
  MaxSeq,       \* bound of the model: changes in a behaviour
  MaxCrashes,   \* bound of the model: ends of the process in a behaviour
  Commands,     \* which of BEGIN, TRUNCATE IN TXN, TRUNCATE, RESTORE, BENCH,
                \* CDCTRIM are used
  Faults        \* "power": unflushed writes may be lost; "nobackup": the
                \* operator removes the backup; "nolog": he removes the .cdc

ASSUME UndoAssumption == UndoMax \in Nat \ {0}
ASSUME BoundsAssumption == MaxSeq \in Nat /\ MaxCrashes \in Nat

NoBackup == [slots |-> <<>>, count |-> 0]
BulkKinds == {"TRUNCATE", "RESTORE", "BENCH"}   \* BULK_NONE is "NONE"

VARIABLES
  pc,           \* where the thread is
  opening,      \* it is inside db_open
  table, count, seq,                  \* g_table, g_count, g_seq
  reset_pend, reset_seq, bulk_kind,   \* g_reset_pend, g_reset_seq, g_bulk_kind
  in_txn, txn_reset,                  \* g_in_txn, g_txn_reset
  undo, count_snap,                   \* g_undo, g_count_snap
  cdc_lastseq,                        \* g_cdc_lastseq
  frame,        \* g_walbuf: the transaction being committed or replayed
  done,         \* how much of the loop at pc has been done
  wal,          \* <db>.wal: a frame, with or without its commit marker
  cdc,          \* <db>.cdc: base_seq and the frames; there = it exists
  cdc_part,     \* <db>.cdc.part: the log CDCTRIM builds to replace it
  hdr, slots,             \* <db>.dat as written
  hdr_safe, slots_safe,   \* <db>.dat as flushed
  backup,       \* the file BACKUP writes and RESTORE reads
  crashes

txnVars == <<in_txn, txn_reset, undo, count_snap>>
bulkVars == <<reset_pend, reset_seq, bulk_kind>>
memVars == <<table, count, seq, txnVars, bulkVars, cdc_lastseq, frame, done>>
logVars == <<wal, cdc, cdc_part>>
datVars == <<hdr, slots, hdr_safe, slots_safe>>
vars == <<pc, opening, memVars, logVars, datVars, backup, crashes>>

-----------------------------------------------------------------------------
(* Frames and headers *)

\* A transaction: its sequence, whether it declares a reset, the row count it
\* leaves, and its entries.
Frame(s, r, c, entries) == [seq |-> s, reset |-> r, count |-> c, entries |-> entries]
NoFrame == Frame(0, FALSE, 0, <<>>)
NoWal == [marked |-> FALSE, frame |-> NoFrame]

\* db_write_header: the header is rebuilt from the globals every time.
Header(c, s, p, r, b) == [count |-> c, seq |-> s, pend |-> p, rseq |-> r, bulk |-> b]

NewLog(base) == [there |-> TRUE, base |-> base, frames |-> <<>>]
NoLog == [there |-> FALSE, base |-> 0, frames |-> <<>>]
LastSeq(log) == IF log.frames = <<>> THEN log.base ELSE log.frames[Len(log.frames)].seq

\* Mutant: a row that disappears is no change.
SlotChanged_Live(before, after) == Live(after) /\ before # after

\* slot_changed: what counts is the row a slot holds, not its bytes.
SlotChanged(before, after) ==
  (Live(before) \/ Live(after)) /\ before # after

\* txn_flush .stage: the slot of a captured image, its final image, and what it
\* held before.
Entry(u, t) == [slot |-> u.slot, prev |-> u.before, image |-> t[u.slot]]

\* cdc_emit_from_wal: one staged entry yields up to two operations.
EntryOps(e) ==
  (IF Live(e.prev) /\ ~Holds(e.image, e.prev.id)
     THEN <<[op |-> "DELETE", id |-> e.prev.id]>> ELSE <<>>)
  \o
  (IF Live(e.image)
     THEN <<[op |-> "UPSERT", id |-> e.image.id, val |-> e.image.val]>> ELSE <<>>)

\* Mutant: the last entry is left out.
ChangeFrame_Short(f) ==
  [seq |-> f.seq, reset |-> f.reset,
   ops |-> IF f.reset THEN <<>> ELSE [i \in 1 .. Len(f.entries) - 1 |-> EntryOps(f.entries[i])]]

\* A frame lists the operations of one entry after those of the other.
ChangeFrame(f) ==
  [seq |-> f.seq, reset |-> f.reset,
   ops |-> IF f.reset THEN <<>> ELSE [i \in 1 .. Len(f.entries) |-> EntryOps(f.entries[i])]]
ResetFrame(s) == [seq |-> s, reset |-> TRUE, ops |-> <<>>]

Appended(log, f) ==
  [there |-> log.there, base |-> log.base, frames |-> Append(log.frames, f)]

\* cdc_scan accepts a log whose frames follow its base one by one.
Dense(log) == \A i \in 1 .. Len(log.frames) : log.frames[i].seq = log.base + i

-----------------------------------------------------------------------------
(* Statements: cmd_insert, cmd_update, cmd_delete, cmd_truncate in a          *)
(* transaction, cmd_begin, cmd_rollback                                       *)

Ready == pc = "ready"
Idle == Ready /\ ~in_txn

\* txn_capture: a slot is captured at most once, and the first image wins.
Captured(u, s) == \E i \in 1 .. Len(u) : u[i].slot = s
\* Mutants: every change of a slot is captured, or its last image wins.
Capture_Again(u, t, s) == Append(u, [slot |-> s, before |-> t[s]])
Capture_Last(u, t, s) ==
  IF Captured(u, s)
    THEN [i \in 1 .. Len(u) |-> IF u[i].slot = s THEN [u[i] EXCEPT !.before = t[s]] ELSE u[i]]
    ELSE Append(u, [slot |-> s, before |-> t[s]])
Capture(u, t, s) == IF Captured(u, s) THEN u ELSE Append(u, [slot |-> s, before |-> t[s]])
CaptureFits(u, s) == Captured(u, s) \/ Len(u) < UndoMax

\* txn_flush begins: nothing is staged yet.
StartFlush == pc' = "stage" /\ frame' = NoFrame /\ done' = 0

\* A statement that found its slot: it runs in the open transaction, or opens
\* one of its own (auto_begin) and goes on to commit it (auto_commit).
Mutate(s, rec, c) ==
  /\ table' = [table EXCEPT ![s] = rec]
  /\ count' = c
  /\ IF in_txn
       THEN /\ CaptureFits(undo, s)     \* .toobig otherwise, nothing changed
            /\ undo' = Capture(undo, table, s)
            /\ UNCHANGED <<pc, in_txn, txn_reset, count_snap, frame, done>>
       ELSE /\ seq < MaxSeq
            /\ in_txn' = TRUE
            /\ txn_reset' = FALSE
            /\ undo' = Capture(<<>>, table, s)
            /\ count_snap' = count
            /\ StartFlush
  /\ UNCHANGED <<opening, seq, bulkVars, cdc_lastseq, logVars, datVars, backup, crashes>>

Insert(id, v) ==
  /\ Ready
  /\ ~Found(table, id)
  /\ HasRoom(table, id)
  /\ Mutate(InsertSlot(table, id), Row(id, v), count + 1)

Update(id, v) ==
  /\ Ready
  /\ Found(table, id)
  /\ Mutate(SlotOf(table, id), Row(id, v), count)

Delete(id) ==
  /\ Ready
  /\ Found(table, id)
  /\ Mutate(SlotOf(table, id), Deleted, count - 1)

Begin ==
  /\ Idle
  /\ "BEGIN" \in Commands
  /\ seq < MaxSeq
  /\ in_txn' = TRUE
  /\ undo' = <<>>
  /\ txn_reset' = FALSE
  /\ count_snap' = count
  /\ UNCHANGED <<pc, opening, table, count, seq, bulkVars, cdc_lastseq,
                 frame, done, logVars, datVars, backup, crashes>>

\* TRUNCATE in a transaction.  If the undo log cannot hold every live row the
\* captures are unwound and nothing has changed (.unwind): no step.
TruncateInTxn ==
  /\ Ready
  /\ in_txn
  /\ "TRUNCATE IN TXN" \in Commands
  /\ Len(undo) + Cardinality({s \in LiveSlots(table) : ~Captured(undo, s)}) <= UndoMax
  /\ done' = 0
  /\ pc' = "capture"
  /\ UNCHANGED <<opening, table, count, seq, txnVars, bulkVars, cdc_lastseq, frame, logVars,
                 datVars, backup, crashes>>

\* Pass 1 captures the live rows in slot order ...
CaptureSlot ==
  /\ pc = "capture"
  /\ done < Capacity
  /\ undo' = IF Live(table[done]) THEN Capture(undo, table, done) ELSE undo
  /\ done' = done + 1
  /\ UNCHANGED <<pc, opening, table, count, seq, in_txn, txn_reset, count_snap, bulkVars,
                 cdc_lastseq, frame, logVars, datVars, backup, crashes>>

\* ... then the table is cleared, in memory only, and the reset is declared.
ClearInTxn ==
  /\ pc = "capture"
  /\ done = Capacity
  /\ table' = Cleared(table)
  /\ count' = count - LiveCount(table)
  /\ txn_reset' = TRUE
  /\ pc' = "ready"
  /\ UNCHANGED <<opening, seq, in_txn, undo, count_snap, bulkVars, cdc_lastseq, frame,
                 done, logVars, datVars, backup, crashes>>

\* cmd_rollback copies the images back newest first; each slot is there once.
Undone(t, u) ==
  [s \in Slots |->
     IF Captured(u, s)
       THEN u[CHOOSE i \in 1 .. Len(u) : u[i].slot = s].before ELSE t[s]]

Rollback ==
  /\ Ready
  /\ in_txn
  /\ table' = Undone(table, undo)
  /\ count' = count_snap
  /\ in_txn' = FALSE
  /\ txn_reset' = FALSE
  /\ undo' = <<>>
  /\ wal' = NoWal
  /\ UNCHANGED <<pc, opening, seq, count_snap, bulkVars, cdc_lastseq, frame, done,
                 cdc, cdc_part, datVars, backup, crashes>>

Commit ==
  /\ Ready
  /\ in_txn
  /\ StartFlush
  /\ UNCHANGED <<opening, table, count, seq, txnVars, bulkVars, cdc_lastseq, logVars,
                 datVars, backup, crashes>>

-----------------------------------------------------------------------------
(* txn_flush: the commit protocol.  Its tail, from the change log on, is also *)
(* what wal_recover does with a committed frame it finds at open.             *)

\* .stage: only the captured slots whose row changed, in capture order.
TxnStage ==
  /\ pc = "stage"
  /\ done < Len(undo)
  /\ LET u == undo[done + 1]
     IN frame' = IF SlotChanged(u.before, table[u.slot])
                   THEN Frame(0, FALSE, 0, Append(frame.entries, Entry(u, table))) ELSE frame
  /\ done' = done + 1
  /\ UNCHANGED <<pc, opening, table, count, seq, txnVars, bulkVars, cdc_lastseq, logVars,
                 datVars, backup, crashes>>

\* .finish
TxnOver ==
  /\ pc' = "ready"
  /\ in_txn' = FALSE
  /\ txn_reset' = FALSE
  /\ undo' = <<>>
  /\ UNCHANGED count_snap

\* The frame, unless nothing changed: then there is no frame and no sequence.
TxnWrite ==
  /\ pc = "stage"
  /\ done = Len(undo)
  /\ IF frame.entries = <<>> /\ ~txn_reset
       THEN /\ wal' = NoWal
            /\ TxnOver
            /\ UNCHANGED frame
       ELSE /\ frame' = Frame(seq + 1, txn_reset, count, frame.entries)
            /\ wal' = [marked |-> FALSE, frame |-> frame']
            /\ pc' = "mark"
            /\ UNCHANGED txnVars
  /\ UNCHANGED <<opening, table, count, seq, bulkVars, cdc_lastseq, done, cdc, cdc_part,
                 datVars, backup, crashes>>

\* The marker and its checksum, in one write and flush: committed.
WalCommit ==
  /\ pc = "mark"
  /\ wal' = [marked |-> TRUE, frame |-> wal.frame]
  /\ pc' = "publish"
  /\ UNCHANGED <<opening, memVars, cdc, cdc_part, datVars, backup, crashes>>

\* Mutants: a frame that is there is appended again, or is refused.
Gate_Again(s) == IF s <= cdc_lastseq + 1 THEN "write" ELSE "refuse"
Gate_Strict(s) == IF s = cdc_lastseq + 1 THEN "write" ELSE "refuse"

\* cdc_seq_gate: a frame is already there, comes next, or must never be written.
Gate(s) == IF s = cdc_lastseq THEN "skip"
           ELSE IF s = cdc_lastseq + 1 THEN "write" ELSE "refuse"

\* cdc_emit_from_wal and cdc_frame_end: append and flush before the .dat is touched.
CdcPublish ==
  /\ pc = "publish"
  /\ \/ /\ Gate(frame.seq) = "write"
        /\ cdc' = Appended(cdc, ChangeFrame(frame))
        /\ cdc_lastseq' = frame.seq
        /\ pc' = "apply"
     \/ /\ Gate(frame.seq) # "write"
        /\ pc' = IF Gate(frame.seq) = "skip" THEN "apply" ELSE "refused"
        /\ UNCHANGED <<cdc, cdc_lastseq>>
  /\ done' = 0
  /\ UNCHANGED <<opening, table, count, seq, txnVars, bulkVars, frame, wal, cdc_part,
                 datVars, backup, crashes>>

ApplySlot ==
  /\ pc = "apply"
  /\ done < Len(frame.entries)
  /\ LET e == frame.entries[done + 1]
     IN slots' = [slots EXCEPT ![e.slot] = e.image]
  /\ done' = done + 1
  /\ UNCHANGED <<pc, opening, table, count, seq, txnVars, bulkVars, cdc_lastseq, frame,
                 logVars, hdr, hdr_safe, slots_safe, backup, crashes>>

PublishHeader ==
  /\ pc = "apply"
  /\ done = Len(frame.entries)
  /\ seq' = frame.seq
  /\ count' = frame.count
  /\ hdr' = Header(frame.count, frame.seq, reset_pend, reset_seq, bulk_kind)
  /\ pc' = "sync"
  /\ UNCHANGED <<opening, table, txnVars, bulkVars, cdc_lastseq, frame, done, logVars,
                 slots, hdr_safe, slots_safe, backup, crashes>>

\* Mutant: the header is flushed and the slots are not.
Synced_Header == hdr_safe' = hdr' /\ UNCHANGED slots_safe

\* db_flush: everything written to the .dat so far is on disk.
Synced == hdr_safe' = hdr' /\ slots_safe' = slots'

CheckpointSync ==
  /\ pc = "sync"
  /\ UNCHANGED <<hdr, slots>>
  /\ Synced
  /\ pc' = "wal_clear"
  /\ UNCHANGED <<opening, memVars, logVars, backup, crashes>>

\* wal_truncate, then the transaction is over; in db_open, on to the next phase.
WalClear ==
  /\ pc = "wal_clear"
  /\ wal' = NoWal
  /\ IF opening
       THEN /\ pc' = "recover_reset"
            /\ UNCHANGED txnVars
       ELSE TxnOver
  /\ UNCHANGED <<opening, table, count, seq, bulkVars, cdc_lastseq, frame, done, cdc,
                 cdc_part, datVars, backup, crashes>>

-----------------------------------------------------------------------------
(* Whole-table operations: announced in the header before the table is        *)
(* touched, finished by the next open if the process ends on the way          *)

\* bulk_begin and cdc_mark_reset: one header write, flushed.
BulkBegin(kind, next) ==
  /\ Idle
  /\ seq < MaxSeq
  /\ kind \in Commands
  /\ bulk_kind' = kind
  /\ reset_seq' = seq + 1
  /\ reset_pend' = 1
  /\ hdr' = Header(count, seq, 1, seq + 1, kind)
  /\ UNCHANGED slots
  /\ Synced
  /\ done' = 0
  /\ pc' = next
  /\ UNCHANGED <<opening, table, count, seq, txnVars, cdc_lastseq, frame, logVars,
                 backup, crashes>>

\* cmd_truncate .autoreset
Truncate == BulkBegin("TRUNCATE", "truncate")

\* cmd_truncate .loop: each live slot is cleared in memory and written at once.
TruncateSlot ==
  /\ pc = "truncate"
  /\ \E s \in LiveSlots(table) :
       /\ \A o \in LiveSlots(table) : s <= o
       /\ table' = [table EXCEPT ![s] = Deleted]
       /\ slots' = [slots EXCEPT ![s] = Deleted]
  /\ done' = done + 1
  /\ UNCHANGED <<pc, opening, count, seq, txnVars, bulkVars, cdc_lastseq, frame, logVars,
                 hdr, hdr_safe, slots_safe, backup, crashes>>

TruncateEnd ==
  /\ pc = "truncate"
  /\ LiveSlots(table) = {}
  /\ count' = count - done
  /\ pc' = "bulk_close"
  /\ UNCHANGED <<opening, table, seq, txnVars, bulkVars, cdc_lastseq, frame, done, logVars,
                 datVars, backup, crashes>>

\* cmd_restore: the snapshot is validated before anything is announced.
Restore ==
  /\ backup # NoBackup
  /\ BulkBegin("RESTORE", "restore")

\* The whole region and the header are written, then flushed (pc "bulk_sync").
ReplaceTable(t, c) ==
  /\ table' = t
  /\ slots' = t
  /\ count' = c
  /\ hdr' = Header(c, seq, reset_pend, reset_seq, bulk_kind)
  /\ pc' = "bulk_sync"
  /\ UNCHANGED <<opening, seq, txnVars, bulkVars, cdc_lastseq, frame, done, logVars,
                 hdr_safe, slots_safe, backup, crashes>>

\* restore_apply, from cmd_restore or from bulk_recover
RestoreApply ==
  /\ pc = "restore"
  /\ backup # NoBackup
  /\ ReplaceTable(backup.slots, backup.count)

\* Mutant: an open that cannot finish the restore goes on.
RestoreLost_Open ==
  /\ pc = "restore"
  /\ backup = NoBackup
  /\ pc' = "ready"
  /\ opening' = FALSE
  /\ UNCHANGED <<memVars, logVars, datVars, backup, crashes>>

\* The snapshot is gone: cmd_restore goes back to the prompt with the operation
\* still announced (.lost), bulk_recover refuses to open (.nosrc).
RestoreLost ==
  /\ pc = "restore"
  /\ backup = NoBackup
  /\ pc' = IF opening THEN "refused" ELSE "ready"
  /\ UNCHANGED <<opening, memVars, logVars, datVars, backup, crashes>>

Bench == BulkBegin("BENCH", "bench")

\* cmd_bench .loop: rows 1, 2, ... are inserted into an empty table, in memory, up
\* to a load of 3/4; in the model, up to the ids there are.
BenchRow(v) ==
  /\ pc = "bench"
  /\ done + 1 \in Ids
  /\ done < 3 * (Capacity \div 4)
  /\ LET t == IF done = 0 THEN EmptyTable ELSE table
     IN table' = IF HasRoom(t, done + 1)
                   THEN [t EXCEPT ![InsertSlot(t, done + 1)] = Row(done + 1, v)] ELSE t
  /\ done' = done + 1
  /\ UNCHANGED <<pc, opening, count, seq, txnVars, bulkVars, cdc_lastseq, frame, logVars,
                 datVars, backup, crashes>>

BenchApply ==
  /\ pc = "bench"
  /\ done > 0
  /\ ReplaceTable(table, LiveCount(table))

BulkSync ==
  /\ pc = "bulk_sync"
  /\ UNCHANGED <<hdr, slots>>
  /\ Synced
  /\ pc' = "bulk_close"
  /\ UNCHANGED <<opening, memVars, logVars, backup, crashes>>

\* bulk_end, and the end of bulk_recover: the operation is no longer announced.
BulkClose ==
  /\ pc = "bulk_close"
  /\ bulk_kind' = "NONE"
  /\ hdr' = Header(count, seq, reset_pend, reset_seq, "NONE")
  /\ pc' = "bulk_closed"
  /\ UNCHANGED <<opening, table, count, seq, txnVars, reset_pend, reset_seq, cdc_lastseq,
                 frame, done, logVars, slots, hdr_safe, slots_safe, backup, crashes>>

BulkCloseSync ==
  /\ pc = "bulk_closed"
  /\ UNCHANGED <<hdr, slots>>
  /\ Synced
  /\ pc' = IF opening THEN "ready" ELSE "emit_reset"
  /\ opening' = FALSE
  /\ UNCHANGED <<memVars, logVars, backup, crashes>>

\* cdc_finish_reset: first the RESET frame (cdc_emit_reset) ...
EmitReset ==
  /\ pc = "emit_reset"
  /\ \/ /\ Gate(reset_seq) = "write"
        /\ cdc' = Appended(cdc, ResetFrame(reset_seq))
        /\ cdc_lastseq' = reset_seq
        /\ pc' = "clear_reset"
     \/ /\ Gate(reset_seq) # "write"
        /\ pc' = IF Gate(reset_seq) = "skip" THEN "clear_reset" ELSE "refused"
        /\ UNCHANGED <<cdc, cdc_lastseq>>
  /\ UNCHANGED <<opening, table, count, seq, txnVars, bulkVars, frame, done, wal, cdc_part,
                 datVars, backup, crashes>>

\* ... then the watermark, and no reset is owed any more.
ClearReset ==
  /\ pc = "clear_reset"
  /\ seq' = reset_seq
  /\ reset_pend' = 0
  /\ reset_seq' = 0
  /\ hdr' = Header(count, reset_seq, 0, 0, bulk_kind)
  /\ UNCHANGED slots
  /\ Synced
  /\ pc' = IF opening THEN "check" ELSE "ready"
  /\ UNCHANGED <<opening, table, count, txnVars, bulk_kind, cdc_lastseq, frame, done,
                 logVars, backup, crashes>>

-----------------------------------------------------------------------------
(* db_open: the header is classified, the logs are read, a committed frame is *)
(* replayed, an owed RESET is published, an interrupted operation is finished *)

\* Mutant: the owed RESET is expected at the sequence of the header.
ResetStateOk_Same(h) == IF h.pend = 1 THEN h.rseq = h.seq ELSE h.rseq = 0

\* The count is unsigned and at most the capacity, and the reset state of the
\* header is self-consistent (.resetok, .pending).
ResetStateOk(h) == IF h.pend = 1 THEN h.rseq = h.seq + 1 ELSE h.rseq = 0
HeaderOk == hdr.count \in 0 .. Capacity /\ ResetStateOk(hdr)

\* db_open up to wal_recover, with cdc_open: a missing log resumes from the
\* watermark of the header, an existing one is walked to its last frame.
Open ==
  LET log == IF cdc.there THEN cdc ELSE NewLog(hdr.seq)
  IN
  /\ pc = "down"
  /\ IF HeaderOk /\ Dense(log)
       THEN /\ count' = hdr.count
            /\ seq' = hdr.seq
            /\ reset_pend' = hdr.pend
            /\ reset_seq' = hdr.rseq
            /\ bulk_kind' = hdr.bulk
            /\ cdc' = log
            /\ cdc_lastseq' = LastSeq(log)
            /\ opening' = TRUE
            /\ pc' = "wal_recover"
       ELSE /\ pc' = "refused"
            /\ UNCHANGED <<opening, count, seq, bulkVars, cdc, cdc_lastseq>>
  /\ UNCHANGED <<table, txnVars, frame, done, wal, cdc_part, datVars, backup, crashes>>

\* Without its marker a frame is an uncommitted transaction: it is discarded.
WalRecover ==
  /\ pc = "wal_recover"
  /\ IF wal.marked
       THEN /\ frame' = wal.frame
            /\ pc' = "publish"
            /\ UNCHANGED wal
       ELSE /\ wal' = NoWal
            /\ pc' = "recover_reset"
            /\ UNCHANGED frame
  /\ UNCHANGED <<opening, table, count, seq, txnVars, bulkVars, cdc_lastseq, done, cdc,
                 cdc_part, datVars, backup, crashes>>

\* Mutant: an owed RESET is left owed.
RecoverReset_Skip ==
  /\ pc = "recover_reset"
  /\ pc' = "check"
  /\ UNCHANGED <<opening, memVars, logVars, datVars, backup, crashes>>

RecoverReset ==
  /\ pc = "recover_reset"
  /\ pc' = IF reset_pend = 1 THEN "emit_reset" ELSE "check"
  /\ UNCHANGED <<opening, memVars, logVars, datVars, backup, crashes>>

\* cdc_check_aligned, then the table is mapped copy-on-write (.load).
CheckAligned ==
  /\ pc = "check"
  /\ IF cdc_lastseq = seq
       THEN /\ table' = slots
            /\ pc' = IF bulk_kind = "NONE" THEN "ready"
                     ELSE IF bulk_kind = "RESTORE" THEN "restore" ELSE "bulk_clear"
            /\ opening' = (bulk_kind # "NONE")
       ELSE /\ pc' = "refused"
            /\ UNCHANGED <<table, opening>>
  /\ UNCHANGED <<count, seq, txnVars, bulkVars, cdc_lastseq, frame, done, logVars, datVars,
                 backup, crashes>>

\* bulk_recover of TRUNCATE and BENCH: bulk_clear_table
BulkClear ==
  /\ pc = "bulk_clear"
  /\ ReplaceTable(Cleared(table), 0)

-----------------------------------------------------------------------------
(* BACKUP and CDCTRIM *)

\* The snapshot is built beside the target, flushed and renamed: all or nothing.
Backup ==
  /\ Idle
  /\ "RESTORE" \in Commands
  /\ backup' = [slots |-> table, count |-> count]
  /\ UNCHANGED <<pc, opening, memVars, logVars, datVars, crashes>>

\* Mutant: the base is the sequence before the watermark.
Trimmed_Base(log, s) ==
  [there |-> log.there, base |-> s - 1,
   frames |-> SubSeq(log.frames, s - log.base + 1, Len(log.frames))]

\* The frames past s, in a log whose frames are dense (cdc_open checked it).
Trimmed(log, s) ==
  [there |-> log.there, base |-> s,
   frames |-> SubSeq(log.frames, s - log.base + 1, Len(log.frames))]

\* cmd_cdctrim: the replacement is built under a name that must not exist ...
TrimBuild(s) ==
  /\ Idle
  /\ "CDCTRIM" \in Commands
  /\ s \in cdc.base .. seq
  /\ ~cdc_part.there
  /\ cdc_part' = Trimmed(cdc, s)
  /\ pc' = "trim"
  /\ UNCHANGED <<opening, memVars, wal, cdc, datVars, backup, crashes>>

\* ... then takes the place of the log, and is opened and checked.
TrimSwap ==
  /\ pc = "trim"
  /\ cdc' = cdc_part
  /\ cdc_part' = NoLog
  /\ cdc_lastseq' = LastSeq(cdc')
  /\ pc' = IF Dense(cdc') /\ cdc_lastseq' = seq THEN "ready" ELSE "refused"
  /\ UNCHANGED <<opening, table, count, seq, txnVars, bulkVars, frame, done, wal, datVars,
                 backup, crashes>>

-----------------------------------------------------------------------------
(* The end of the process, and what the operator does to the files *)

\* The memory is gone; a transaction or an operation in progress stays as it is
\* in the files.
Forget ==
  /\ pc' = "down"
  /\ opening' = FALSE
  /\ table' = EmptyTable
  /\ count' = 0
  /\ seq' = 0
  /\ reset_pend' = 0
  /\ reset_seq' = 0
  /\ bulk_kind' = "NONE"
  /\ in_txn' = FALSE
  /\ txn_reset' = FALSE
  /\ undo' = <<>>
  /\ count_snap' = 0
  /\ cdc_lastseq' = 0
  /\ frame' = NoFrame
  /\ done' = 0
  /\ UNCHANGED <<logVars, backup>>

\* EXIT or the end of the input: db_close flushes and closes the files; a
\* transaction still open is lost.
Close ==
  /\ Ready
  /\ UNCHANGED <<hdr, slots, crashes>>
  /\ Synced
  /\ Forget

\* A kill or a fatal error between any two writes: what was written stays in the
\* file, and is on disk before the power next fails.
ProcessEnds ==
  /\ pc \notin {"down", "refused"}
  /\ crashes < MaxCrashes
  /\ crashes' = crashes + 1
  /\ UNCHANGED <<hdr, slots>>
  /\ Synced
  /\ Forget

\* A loss of power: any subset of the writes not yet flushed reached the disk.
PowerLoss ==
  /\ "power" \in Faults
  /\ pc \notin {"down", "refused"}
  /\ crashes < MaxCrashes
  /\ crashes' = crashes + 1
  /\ hdr' \in {hdr, hdr_safe}
  /\ \E kept \in SUBSET {s \in Slots : slots[s] # slots_safe[s]} :
       slots' = [s \in Slots |-> IF s \in kept THEN slots[s] ELSE slots_safe[s]]
  /\ Synced
  /\ Forget

LoseBackup ==
  /\ "nobackup" \in Faults
  /\ backup # NoBackup
  /\ backup' = NoBackup
  /\ UNCHANGED <<pc, opening, memVars, logVars, datVars, crashes>>

LoseLog ==
  /\ "nolog" \in Faults
  /\ pc = "down"
  /\ cdc.there
  /\ cdc' = NoLog
  /\ UNCHANGED <<pc, opening, memVars, wal, cdc_part, datVars, backup, crashes>>

-----------------------------------------------------------------------------

\* A database that was created and closed: db_open .newfile
Init ==
  /\ pc = "down"
  /\ opening = FALSE
  /\ table = EmptyTable
  /\ count = 0 /\ seq = 0
  /\ reset_pend = 0 /\ reset_seq = 0 /\ bulk_kind = "NONE"
  /\ in_txn = FALSE /\ txn_reset = FALSE
  /\ undo = <<>> /\ count_snap = 0
  /\ cdc_lastseq = 0
  /\ frame = NoFrame /\ done = 0
  /\ wal = NoWal
  /\ cdc = NewLog(0)
  /\ cdc_part = NoLog
  /\ hdr = Header(0, 0, 0, 0, "NONE") /\ hdr_safe = hdr
  /\ slots = EmptyTable /\ slots_safe = EmptyTable
  /\ backup = NoBackup
  /\ crashes = 0

\* What the session is asked to do.
Command ==
  \/ \E id \in Ids, v \in Vals : Insert(id, v) \/ Update(id, v)
  \/ \E id \in Ids : Delete(id)
  \/ Begin \/ Commit \/ Rollback \/ TruncateInTxn
  \/ Truncate \/ Restore \/ Bench \/ Backup
  \/ \E s \in 0 .. MaxSeq : TrimBuild(s)
  \/ Close

\* What it then does by itself, and what db_open does.
Step ==
  \/ CaptureSlot \/ ClearInTxn
  \/ TxnStage \/ TxnWrite \/ WalCommit
  \/ CdcPublish \/ ApplySlot \/ PublishHeader \/ CheckpointSync \/ WalClear
  \/ TruncateSlot \/ TruncateEnd
  \/ RestoreApply \/ RestoreLost
  \/ (\E v \in Vals : BenchRow(v)) \/ BenchApply
  \/ BulkSync \/ BulkClose \/ BulkCloseSync \/ EmitReset \/ ClearReset
  \/ TrimSwap
  \/ WalRecover \/ RecoverReset \/ CheckAligned \/ BulkClear

Environment == ProcessEnds \/ PowerLoss \/ LoseBackup \/ LoseLog

Next == Command \/ Step \/ Open \/ Environment

Spec == Init /\ [][Next]_vars

\* The thread goes on until it waits for a command, and a process that ended is
\* started again; nobody has to type a command, and nothing has to fail.
FairSpec == Spec /\ WF_vars(Step) /\ WF_vars(Open)
=============================================================================
