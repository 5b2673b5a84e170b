---------------------------- MODULE EngineProps -----------------------------
(***************************************************************************)
(* What the engine must guarantee: its types, the agreement of memory and  *)
(* files, the exactness of the change log, and the promise of ChangeStore, *)
(* to which every step of the engine is mapped.                            *)
(***************************************************************************)
EXTENDS Engine

UndoEntries == [slot : Slots, before : Record]
WalEntries == [slot : Slots, prev : Record, image : Record]
Frames == [seq : Nat, reset : BOOLEAN, count : Int, entries : Seq(WalEntries)]
Wals == [marked : BOOLEAN, frame : Frames]
Operations == [op : {"DELETE"}, id : Ids] \cup [op : {"UPSERT"}, id : Ids, val : Vals]
ChangeFrames == [seq : Nat, reset : BOOLEAN, ops : Seq(Seq(Operations))]
Headers == [count : Int, seq : Nat, pend : {0, 1}, rseq : Nat, bulk : BulkKinds \cup {"NONE"}]
PCs == {"down", "wal_recover", "recover_reset", "check", "ready", "capture", "stage",
        "mark", "publish", "apply", "sync", "wal_clear", "truncate", "restore", "bench",
        "bulk_sync", "bulk_close", "bulk_closed", "bulk_clear", "emit_reset",
        "clear_reset", "trim", "refused"}

Logs == [there : BOOLEAN, base : Nat, frames : Seq(ChangeFrames)]

ControlTypes ==
  /\ pc \in PCs
  /\ opening \in BOOLEAN
  /\ done \in Nat
  /\ crashes \in Nat
MemoryTypes ==
  /\ table \in Tables
  /\ count \in Int
  /\ seq \in Nat
  /\ reset_pend \in {0, 1}
  /\ reset_seq \in Nat
  /\ bulk_kind \in BulkKinds \cup {"NONE"}
  /\ cdc_lastseq \in Nat
TxnTypes ==
  /\ in_txn \in BOOLEAN
  /\ txn_reset \in BOOLEAN
  /\ undo \in Seq(UndoEntries)
  /\ count_snap \in Int
FrameTypes ==
  /\ frame \in Frames
  /\ wal \in Wals
LogTypes ==
  /\ cdc \in Logs
  /\ cdc_part \in Logs
DatTypes ==
  /\ hdr \in Headers
  /\ hdr_safe \in Headers
  /\ slots \in Tables
  /\ slots_safe \in Tables
BackupTypes == backup \in [slots : Tables, count : Int] \cup {NoBackup}

\* Every variable keeps its type: sequences never go below zero, tables keep their
\* slots, and frames hold whole entries.
TypeOK ==
  /\ ControlTypes
  /\ MemoryTypes
  /\ TxnTypes
  /\ FrameTypes
  /\ LogTypes
  /\ DatTypes
  /\ BackupTypes

-----------------------------------------------------------------------------
(* Agreement *)

\* Between commands memory and the file as flushed hold the same rows and the
\* header says what the globals say: what a command reported is what the next
\* open finds.
DurableWhenIdle ==
  Idle =>
    /\ Content(table) = Content(slots_safe)
    /\ slots = slots_safe
    /\ hdr = Header(count, seq, reset_pend, reset_seq, bulk_kind)
    /\ hdr_safe = hdr
    /\ ~wal.marked

\* Between commands the row count is the number of rows: no crash leaves a table
\* half replaced, or a count that belongs to another table.
CountExact == Idle => count = LiveCount(table)

\* At any point of a transaction ROLLBACK would bring back the rows and the count
\* the transaction started from, however often its statements touched a slot.
RollbackExact ==
  (Ready /\ in_txn) =>
    /\ Content(Undone(table, undo)) = Content(slots)
    /\ count_snap = LiveCount(slots)
    /\ count = LiveCount(table)

\* The undo log and the WAL buffer sized after it are never overrun: not by a slot
\* touched again and again, nor by a TRUNCATE on top of other statements.
UndoFits == Len(undo) <= UndoMax /\ Len(frame.entries) <= UndoMax

\* The log is never behind the table on disk and at most one change ahead of it;
\* a committed frame in the WAL or an owed RESET then accounts for the change.
LogAhead ==
  cdc.there =>
    /\ Dense(cdc)
    /\ \/ LastSeq(cdc) = hdr_safe.seq
       \/ /\ LastSeq(cdc) = hdr_safe.seq + 1
          /\ \/ wal.marked /\ wal.frame.seq = LastSeq(cdc)
             \/ hdr_safe.pend = 1 /\ hdr_safe.rseq = LastSeq(cdc)

\* The header a process leaves is one the next open accepts.
HeaderAccepted == pc = "down" => HeaderOk

\* Whatever the crashes, the next open finds files it accepts: no interleaving of
\* writes and losses leaves a state that the engine's own checks refuse.
NeverRefused == pc # "refused"

-----------------------------------------------------------------------------
(* The inductive invariant behind LogAhead: where the header, the WAL, the log *)
(* and the globals stand at each point of the protocol.  It needs the snapshot  *)
(* of a RESTORE to stay where it is.                                            *)

Running == pc \notin {"down", "refused"}

\* The last sequence of the log, or the one it will resume from.
LogEnd == IF cdc.there THEN LastSeq(cdc) ELSE hdr_safe.seq

\* Both values of the header owe the same RESET, and only the last step of a
\* commit has written a sequence it has not flushed.
HeadersAgree ==
  /\ ResetStateOk(hdr)
  /\ hdr_safe.pend = hdr.pend
  /\ hdr_safe.rseq = hdr.rseq
  /\ hdr_safe.seq = hdr.seq \/ (pc = "sync" /\ hdr.seq = hdr_safe.seq + 1)

\* The globals are what the header and the log say.
MemoryAgrees ==
  Running =>
    /\ cdc.there
    /\ cdc_lastseq = LastSeq(cdc)
    /\ seq = hdr.seq
    /\ reset_pend = hdr.pend
    /\ reset_seq = hdr.rseq
    /\ bulk_kind = hdr.bulk

\* The three ways the log and the table on disk can stand to each other.
CommitPending ==
  /\ hdr.pend = 0
  /\ \/ wal.frame.seq = hdr_safe.seq /\ LogEnd = wal.frame.seq
     \/ wal.frame.seq = hdr_safe.seq + 1 /\ LogEnd \in {hdr_safe.seq, wal.frame.seq}
ResetPending == hdr.pend = 1 /\ LogEnd \in {hdr_safe.seq, hdr_safe.seq + 1}
Settled == hdr.pend = 0 /\ LogEnd = hdr_safe.seq
LogStanding == IF wal.marked THEN CommitPending ELSE ResetPending \/ Settled

\* A committed frame is in the WAL exactly while it is being carried out.
CommitPhases ==
  /\ pc \in {"publish", "apply", "sync", "wal_clear"} => wal.marked /\ wal.frame = frame
  /\ pc \in {"apply", "sync", "wal_clear"} => cdc_lastseq = frame.seq
  /\ pc = "sync" => hdr.seq = frame.seq
  /\ pc = "wal_clear" => hdr.seq = frame.seq
  /\ pc = "mark" => wal.frame = frame /\ frame.seq = hdr.seq + 1
  /\ Running /\ pc \notin {"wal_recover", "publish", "apply", "sync", "wal_clear"}
       => ~wal.marked

\* When a RESET is owed, and when db_open may be at work.
ResetPhases ==
  /\ pc \in {"ready", "capture", "stage", "mark", "trim"} => hdr.pend = 0 /\ ~opening
  /\ pc \in {"truncate", "bench"} => hdr.pend = 1 /\ ~opening
  /\ pc \in {"check", "bulk_clear"} => hdr.pend = 0
  /\ pc = "bulk_clear" => opening
  /\ pc \in {"restore", "bulk_sync", "bulk_close", "bulk_closed"}
       => hdr.pend = (IF opening THEN 0 ELSE 1)
  /\ pc \in {"emit_reset", "clear_reset"} => hdr.pend = 1
  /\ pc = "clear_reset" => cdc_lastseq = reset_seq

\* An announced RESTORE has its snapshot.
SnapshotThere ==
  (pc = "restore" \/ hdr.bulk = "RESTORE" \/ hdr_safe.bulk = "RESTORE") => backup # NoBackup

\* The replacement of the log ends where the log ends.
TrimReady == pc = "trim" => cdc_part.there /\ Dense(cdc_part) /\ LastSeq(cdc_part) = hdr.seq

SeqInv ==
  /\ HeadersAgree
  /\ MemoryAgrees
  /\ Dense(cdc)
  /\ LogStanding
  /\ CommitPhases
  /\ ResetPhases
  /\ SnapshotThere
  /\ TrimReady

-----------------------------------------------------------------------------
(* The change log tells what happened to the table *)

\* The table once the committed frame of the WAL, if any, has been replayed.
Replay(w, t) ==
  [s \in Slots |->
     LET own == {i \in 1 .. Len(w.frame.entries) : w.frame.entries[i].slot = s}
     IN IF w.marked /\ own # {} THEN w.frame.entries[CHOOSE i \in own : TRUE].image ELSE t[s]]
Replayed == Replay(wal, slots)

\* What a consumer holding these rows has after one operation, one entry's
\* operations, one frame.
Consumed(rows, o) ==
  LET others == {r \in rows : r.id # o.id}
  IN IF o.op = "DELETE" THEN others ELSE others \cup {Row(o.id, o.val)}
ConsumedAll(rows, ops) ==
  LET all[i \in 0 .. Len(ops)] == IF i = 0 THEN rows ELSE Consumed(all[i - 1], ops[i])
  IN all[Len(ops)]
ConsumedFrame(rows, f) ==
  LET all[i \in 0 .. Len(f.ops)] == IF i = 0 THEN rows ELSE ConsumedAll(all[i - 1], f.ops[i])
  IN all[Len(f.ops)]

Published == cdc'.frames # cdc.frames /\ pc = "publish"
NewFrame == cdc'.frames[Len(cdc'.frames)]

\* A consumer that has the rows of the table before a commit and applies the frame
\* that the commit or its recovery appends, in order, has the rows after it.
FrameExact ==
  [][(Published /\ ~NewFrame.reset)
       => ConsumedFrame(RowsOf(slots), NewFrame) = RowsOf(Replayed)]_vars

\* A frame carries at most one event for each row.
OneEventPerRow ==
  [][Published =>
       \A i, j \in 1 .. Len(NewFrame.ops) :
         \A a \in 1 .. Len(NewFrame.ops[i]), b \in 1 .. Len(NewFrame.ops[j]) :
           NewFrame.ops[i][a].id = NewFrame.ops[j][b].id => i = j /\ a = b]_vars

\* VERIFY finds nothing: every row can be looked up, in the session that wrote it
\* and in every later one.
VerifyClean == Ready => AllReachable(table)

-----------------------------------------------------------------------------
(* Progress, under FairSpec *)

\* Whatever it is doing and however it is interrupted, the engine is back at its
\* prompt in the end.
PromptReturns == []<>Ready

\* A commit that reached the WAL ends in the table and in the log.
CommitCompletes ==
  \A s \in 1 .. MaxSeq :
    (wal.marked /\ wal.frame.seq = s) ~> (hdr_safe.seq >= s /\ LastSeq(cdc) >= s /\ ~wal.marked)

\* An owed RESET is published and an announced operation is finished.
ReplaceCompletes == (hdr_safe.pend = 1) ~> (hdr_safe.pend = 0 /\ hdr_safe.bulk = "NONE")

-----------------------------------------------------------------------------
(* The mapping to ChangeStore *)

Bulk == IF hdr_safe.bulk # "NONE" THEN hdr_safe.bulk ELSE hdr.bulk
Contents == [Slots -> Rows \cup {Empty}]

\* What BENCH may leave: rows 1 .. n, or no row if it had to be recovered.
BenchContents ==
  {c \in Contents : \E n \in 0 .. Capacity :
     {r.id : r \in RowsOf(c)} = 1 .. n /\ LiveCount(c) = n}

Goals ==
  CASE Bulk = "NONE" -> {}
    [] Bulk = "TRUNCATE" -> {EmptyTable}
    [] Bulk = "BENCH" -> BenchContents
    [] Bulk = "RESTORE" -> {Content(backup.slots)}

\* The durable table, that of the session, whether a RESET is owed, and the last
\* change.  Content is a function on Slots, so <<>> stands for no content.
DurableTable == IF Bulk # "NONE" THEN <<>> ELSE Content(Replayed)
SessionTable == IF pc \in {"down", "refused"} \/ opening THEN <<>> ELSE Content(table)
ResetOwed == hdr.pend = 1 /\ LastSeq(cdc) = hdr.seq
LastChange == IF wal.marked THEN wal.frame.seq ELSE LastSeq(cdc)

Abs == INSTANCE ChangeStore WITH
  Contents <- Contents,
  Replacing <- <<>>,
  Kinds <- BulkKinds,
  NoKind <- "NONE",
  Closed <- <<>>,
  content <- DurableTable,
  session <- SessionTable,
  kind <- Bulk,
  goal <- Goals,
  owed <- ResetOwed,
  seq <- LastChange

\* Every behaviour of the engine is one ChangeStore allows: commits are atomic and
\* durable, whole-table operations end in one of their end states, and the
\* sequence counts exactly these changes.
Implements == Abs!Spec
=============================================================================
