----------------------------- MODULE SyncProps ------------------------------
(***************************************************************************)
(* What the synchronisation must achieve, stated with two history          *)
(* variables: what the table was at each sequence, and whether the seed    *)
(* the lakehouse rests on was read while a commit was being written.       *)
(***************************************************************************)
EXTENDS Sync, EngineProps

VARIABLES
  truth,        \* the table, slot by slot, at every sequence published so far
  page_torn,    \* a slot of the current seed was read during a commit
  torn          \* the seed behind the lakehouse: "no", "heals" or "wrong"

history == <<truth, page_torn, torn>>

\* A sequence is given to a table once: by the change log, or, for a whole-table
\* operation, by the header that no longer announces it.
Given(s, t) ==
  [q \in DOMAIN truth \cup {s} |-> IF q \in DOMAIN truth THEN truth[q] ELSE Content(t)]
RecordTruth ==
  truth' =
    IF Published THEN Given(frame.seq, Replayed)
    ELSE IF hdr' # hdr /\ ~Unstable(hdr') THEN Given(hdr'.seq, slots')
    ELSE truth

\* The file is the table that the header of the page speaks of.
AtCommit == page.header.seq \in DOMAIN truth /\ Content(slots) = truth[page.header.seq]

RecordTear ==
  page_torn' =
    IF npc' \notin {"page", "scan", "replace"} \/ (npc' = "page" /\ after' = 0) THEN FALSE
    ELSE page_torn \/ (npc = "scan" /\ page'.slot > page.slot /\ ~AtCommit)

\* A torn seed is made good by the frames that follow it, unless it was cut short
\* by the number of rows or holds a row twice.
CutShort == FoundAll(page) /\ page.slot < Capacity
RowTwice == \E p, q \in stage : p # q /\ p[2].id = q[2].id
RecordSeed ==
  torn' =
    CASE npc = "replace" /\ npc' = "seeded" ->
           IF ~page_torn THEN "no" ELSE IF CutShort \/ RowTwice THEN "wrong" ELSE "heals"
      [] npc = "merge" /\ npc' = "mark" -> IF torn = "heals" THEN "no" ELSE torn
      [] OTHER -> torn

CheckedInit ==
  /\ SyncInit
  /\ truth = [s \in {0} |-> EmptyTable]
  /\ page_torn = FALSE
  /\ torn = "no"

Recorded == RecordTruth /\ RecordTear /\ RecordSeed
Engines(step) == step /\ UNCHANGED syncVars /\ Recorded
Notebooks(step) == step /\ UNCHANGED vars /\ Recorded

\* SyncNext with the history kept, action by action.
CheckedNext ==
  \/ Engines(Next)
  \/ Notebooks(StartRun) \/ Notebooks(FetchRefused) \/ Notebooks(FetchTooLarge)
  \/ Notebooks(FetchFrames) \/ Notebooks(FetchReset)
  \/ Notebooks(MergeNothing) \/ Notebooks(Merge) \/ Notebooks(Mark)
  \/ Notebooks(PageBegin) \/ Notebooks(PageSlot) \/ Notebooks(PageEnd)
  \/ Notebooks(Replace) \/ Notebooks(Seeded)
  \/ Notebooks(RunEnds)

CheckedSpec == CheckedInit /\ [][CheckedNext]_<<vars, syncVars, history>>

\* The engine's thread and its restart as in FairSpec; a run that has started goes
\* on, and runs are scheduled again and again.
FairSyncSpec ==
  /\ CheckedSpec
  /\ WF_vars(Step) /\ WF_vars(Open)
  /\ WF_syncVars(Notebook)

-----------------------------------------------------------------------------

\* What a query of the lakehouse table sees: the rows not marked deleted, each once.
Shown == {r \in target : Live(r.image)}
Shows(rows) == {r.image : r \in Shown} = rows /\ Cardinality(Shown) = Cardinality(rows)

\* At every moment, in the middle of a run, after a run that was cut off and after
\* any number of RESETs, the lakehouse shows the table exactly as some commit at or
\* after its watermark left it - unless its seed was read during a commit.
LakehouseIsACommit ==
  torn = "no" => \E s \in DOMAIN truth : s >= watermark /\ Shows(RowsOf(truth[s]))

\* A run never asks for, or keeps, frames past what it will mark: the frames it has
\* continue its watermark without a hole.
NoFrameSkipped ==
  \A i \in 1 .. Len(all_frames) : all_frames[i].seq = last_seq + i

\* The frames after the watermark do not fit through the relay.
Stuck == TooLarge(VisibleFrames(cdc, watermark))

\* Once the engine rests, the lakehouse comes to show its table and stays there -
\* unless the log no longer reaches back to the watermark, the seed was wrong, or
\* the next page is larger than the relay takes.
CatchesUp ==
  <>[]Idle =>
    <>[](Shows(RowsOf(slots)) \/ Gap(cdc, watermark) \/ torn = "wrong" \/ Stuck)

\* A preview that has the whole log tells of each row it shows as live what the
\* table of the last change holds: "a preview happily shows rows that a later
\* TRUNCATE, RESTORE or BENCH has already discarded" (App.tsx:315-320).
PreviewLive ==
  LET fs == PreviewFrames(cdc)
      ops == PreviewRows(cdc)
      told == {id \in Ids : OpsOn(ops, id) # {}}
  IN (fs # <<>> /\ Len(fs) = Len(cdc.frames) /\ fs[Len(fs)].seq \in DOMAIN truth)
     => {Collapsed(ops, id) : id \in told} \ {Deleted}
          = {r \in RowsOf(truth[fs[Len(fs)].seq]) : r.id \in told}

\* When nothing is going on and the watermark is the sequence of the table, the
\* lakehouse shows the table.
LakehouseExact ==
  (Idle /\ npc = "idle" /\ watermark = seq) => Shows(RowsOf(slots))
=============================================================================
