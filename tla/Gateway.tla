------------------------------- MODULE Gateway ------------------------------
(***************************************************************************)
(* The CDC gateway (workload/cdc-gateway): it reads <db>.cdc and <db>.dat  *)
(* of a live engine over a read-only share, without any lock.  A request   *)
(* for frames reads the log in one piece; a request for a snapshot page    *)
(* reads the header, then slot after slot, then the header again, and the  *)
(* engine goes on writing in between.  The gateway keeps nothing from one  *)
(* request to the next.  Its callers reach it through the backend of the   *)
(* Fabric workload (workload/backend), which relays its answers up to a    *)
(* size, and shows the first frames of the log as a preview.               *)
(***************************************************************************)
EXTENDS Engine

CONSTANTS
  AskedLimit,    \* PAGE_LIMIT: frames or rows the notebook asks for in one page
  GatewayLimit,  \* GATEWAY_PAGE_LIMIT and maxLimit: what one page holds at most
  RelayCap,      \* notebookCdcBytes: what the relay takes of an answer, in rows
  PreviewLimit,  \* frames asked for by the preview
  Budget         \* snapshotSlotBudget: slots examined for one page

ASSUME PageAssumption ==
  /\ AskedLimit \in Nat \ {0} /\ GatewayLimit \in Nat \ {0} /\ PreviewLimit \in Nat \ {0}
  /\ RelayCap \in Nat /\ Budget \in Nat \ {0}

Smaller(a, b) == IF a < b THEN a ELSE b

\* Mutant: more than a page holds is refused, as an empty page.
Limit_Refused == IF AskedLimit > GatewayLimit THEN 0 ELSE AskedLimit
\* The relay, as the gateway, makes a larger request one for a full page.
Limit == Smaller(AskedLimit, GatewayLimit)

-----------------------------------------------------------------------------
(* GET /cdc: the frames after a sequence *)

\* A position below the base is refused, never answered with what is left.
Gap(log, from) == from < log.base

\* readCDC has checked that the sequences ascend, so the frames it passes over are
\* the first ones.
FramesAfter(log, from) ==
  LET passed == {i \in 1 .. Len(log.frames) : log.frames[i].seq <= from}
  IN SubSeq(log.frames, Cardinality(passed) + 1, Len(log.frames))
FirstOf(fs, n) == SubSeq(fs, 1, Smaller(n, Len(fs)))
\* Mutant: the position asked for is taken as the next frame, not the last one.
VisibleFrames_Next(log, from) == FirstOf(FramesAfter(log, from + 1), Limit)
VisibleFrames(log, from) == FirstOf(FramesAfter(log, from), Limit)
HasMoreFrames(log, from) == Len(FramesAfter(log, from)) > Limit

\* The operations of a sequence of frames, in order.
Flat(opss) ==
  LET all[i \in 0 .. Len(opss)] == IF i = 0 THEN <<>> ELSE all[i - 1] \o opss[i]
  IN all[Len(opss)]
OperationsIn(fs) == Flat([i \in 1 .. Len(fs) |-> Flat(fs[i].ops)])

\* An UPSERT carries its record, a DELETE no more than an id.
RowsIn(fs) == Len(SelectSeq(OperationsIn(fs), LAMBDA o : o.op # "DELETE"))

\* The relay refuses an answer larger than it takes, whole.  A page of a snapshot,
\* GatewayLimit rows at most, is always small enough.
TooLarge(fs) == RowsIn(fs) > RelayCap

-----------------------------------------------------------------------------
(* GET /api/cdc/<id>/preview, and what the page makes of the frames *)

PreviewFrames(log) == FirstOf(FramesAfter(log, 0), PreviewLimit)
\* No log, or one that does not reach back to the first change: no preview.
PreviewFails(log) == ~log.there \/ Gap(log, 0)

ResetsIn(fs) == {fs[i].seq : i \in {j \in 1 .. Len(fs) : fs[j].reset}}
\* Mutant: the oldest RESET of the page.
LastReset_First(fs) ==
  IF ResetsIn(fs) = {} THEN 0 ELSE CHOOSE s \in ResetsIn(fs) : \A t \in ResetsIn(fs) : s <= t
\* lastResetSeq: the newest RESET of the page; sequences start at 1.
LastReset(fs) ==
  IF ResetsIn(fs) = {} THEN 0 ELSE CHOOSE s \in ResetsIn(fs) : \A t \in ResetsIn(fs) : t <= s
\* The entries not shown as superseded.
LiveEntries(fs) ==
  Flat([i \in 1 .. Len(fs) |-> IF fs[i].seq > LastReset(fs) THEN Flat(fs[i].ops) ELSE <<>>])
\* A preview that fails shows none.
PreviewRows(log) == IF PreviewFails(log) THEN <<>> ELSE LiveEntries(PreviewFrames(log))

-----------------------------------------------------------------------------
(* GET /snapshot: the rows of a range of slots *)

\* unstableOperation: the table is being replaced, or a RESET is owed.
Unstable(h) == h.bulk # "NONE" \/ h.pend # 0

\* A page in progress: where it began, the header read first, the next slot, and
\* the rows found with their slots.
NewPage(after, h) == [after |-> after, header |-> h, slot |-> after, rows |-> {}]

\* snapshotFoundAllFromStart: a first page stops once it has as many rows as the
\* header counts.
FoundAll(p) == p.after = 0 /\ Cardinality(p.rows) >= p.header.count

ScanEnds(p) ==
  \/ p.header.count = 0
  \/ p.slot >= Smaller(Capacity, p.after + Budget)
  \/ Cardinality(p.rows) >= Limit
  \/ FoundAll(p)

WithSlot(p, rec) ==
  [p EXCEPT !.slot = @ + 1, !.rows = IF Live(rec) THEN @ \cup {<<p.slot, rec>>} ELSE @]

HasMoreRows(p) == p.header.count # 0 /\ p.slot < Capacity /\ ~FoundAll(p)

\* The page is only good if the table has not moved since the first look.
PageAnswer(p, h) ==
  IF h.seq # p.header.seq THEN "snapshot_moved"
  ELSE IF Unstable(h) THEN "snapshot_unstable" ELSE "page"
=============================================================================
