-------------------------------- MODULE Sync --------------------------------
(***************************************************************************)
(* The synchronisation notebook (workload/notebooks/sync_template.py) with *)
(* the gateway and the engine it reads: a scheduled run pulls the frames   *)
(* after its watermark, collapses them to one row per id, merges them into *)
(* a lakehouse table and then moves the watermark, a property of that      *)
(* table.  At a RESET frame it seeds the table from a snapshot instead.    *)
(* A run may end at any point; the next one starts from the watermark.     *)
(*                                                                         *)
(* One run is active at a time.  Sleeping between retries is left out: a   *)
(* retry is a step that may come at any time.  The acknowledgement of a    *)
(* watermark is left out: the gateway has no route for it and the notebook *)
(* goes on without it.                                                     *)
(***************************************************************************)
EXTENDS Gateway

CONSTANTS
  HardDelete,     \* HARD_DELETE: remove deleted rows instead of marking them
  MaxReseeds,     \* MAX_RESEEDS_PER_RUN
  MaxRestarts,    \* max_restarts of seed_from_snapshot
  MaxAttempts,    \* max_attempts of fetch_snapshot_page
  MaxEnds         \* bound of the model: runs that end half-way

ASSUME SyncAssumption ==
  /\ HardDelete \in BOOLEAN
  /\ MaxReseeds \in Nat /\ MaxEnds \in Nat
  /\ MaxRestarts \in Nat \ {0} /\ MaxAttempts \in Nat \ {0}

VARIABLES
  npc,             \* where the notebook is
  last_seq, from_seq,
  all_frames,      \* the frames of the pages pulled so far
  resets,          \* reset_count
  after, snapshot_seq, restart, attempt,
  stage,           \* the staging table: rows with the slots they came from
  page,            \* the answer to the snapshot request, as it is being made
  target,          \* the lakehouse table
  watermark,       \* asmdb.cdc.watermark, a property of the lakehouse table
  ends

lakehouse == <<target, watermark>>
seedVars == <<after, snapshot_seq, restart, attempt, stage, page>>
runVars == <<last_seq, from_seq, all_frames, resets>>
syncVars == <<npc, runVars, seedVars, lakehouse, ends>>

NoSeq == -1
NoPage == NewPage(0, Header(0, 0, 0, 0, "NONE"))

\* A row of the lakehouse table.  A row is its id; copy only tells apart two rows
\* of one id, which two slots of a snapshot would give.
LakeRow(id, copy, image) == [id |-> id, copy |-> copy, image |-> image]

-----------------------------------------------------------------------------
(* A run *)

RunLocals ==
  /\ last_seq' = 0 /\ from_seq' = 0 /\ all_frames' = <<>> /\ resets' = 0
SeedLocals ==
  /\ after' = 0 /\ snapshot_seq' = NoSeq /\ restart' = 0 /\ attempt' = 0
  /\ stage' = {} /\ page' = NoPage

\* The run ends, well or not; what it had in memory is gone.
RunOver == npc' = "idle" /\ RunLocals /\ SeedLocals

StartRun ==
  /\ npc = "idle"
  /\ npc' = "fetch"
  /\ last_seq' = watermark
  /\ from_seq' = watermark
  /\ UNCHANGED <<all_frames, resets, seedVars, lakehouse, ends>>

\* No log (404), or a gap: a replay from the base would need a base of 0, and a
\* gap means that it is not.  The run refuses.
FetchRefused ==
  /\ npc = "fetch"
  /\ ~cdc.there \/ Gap(cdc, from_seq)
  /\ RunOver
  /\ UNCHANGED <<lakehouse, ends>>

\* What the relay brings of the gateway's answer.
Answer == VisibleFrames(cdc, from_seq)
HasReset(fs) == \E i \in 1 .. Len(fs) : fs[i].reset
FetchAnswered == npc = "fetch" /\ cdc.there /\ ~Gap(cdc, from_seq) /\ ~TooLarge(Answer)

\* 502 upstream_too_large: no answer a retry is made for.  The run refuses, and so
\* will the next one, which asks for the same page.
FetchTooLarge ==
  /\ npc = "fetch"
  /\ cdc.there /\ ~Gap(cdc, from_seq)
  /\ TooLarge(Answer)
  /\ RunOver
  /\ UNCHANGED <<lakehouse, ends>>

FetchFrames ==
  /\ FetchAnswered
  /\ ~HasReset(Answer)
  /\ all_frames' = all_frames \o Answer
  /\ IF Answer # <<>> /\ HasMoreFrames(cdc, from_seq)
       THEN npc' = "fetch" /\ from_seq' = Answer[Len(Answer)].seq
       ELSE npc' = "merge" /\ UNCHANGED from_seq
  /\ UNCHANGED <<last_seq, resets, seedVars, lakehouse, ends>>

\* The source was replaced: what has been pulled is void, seed from a snapshot.
FetchReset ==
  /\ FetchAnswered
  /\ HasReset(Answer)
  /\ IF resets < MaxReseeds
       THEN /\ resets' = resets + 1
            /\ npc' = "page"
            /\ SeedLocals
            /\ UNCHANGED <<last_seq, from_seq, all_frames>>
       ELSE RunOver
  /\ UNCHANGED <<lakehouse, ends>>

-----------------------------------------------------------------------------
(* Incremental apply: collapse_frames, apply_incremental_rows *)

OpsOn(ops, id) == {i \in 1 .. Len(ops) : ops[i].id = id}
Image(o) == IF o.op = "DELETE" THEN Deleted ELSE Row(o.id, o.val)

\* Mutant: the first operation on an id wins.
Collapsed_First(ops, id) ==
  Image(ops[CHOOSE i \in OpsOn(ops, id) : \A j \in OpsOn(ops, id) : i <= j])
\* The last operation on an id wins.
Collapsed(ops, id) ==
  Image(ops[CHOOSE i \in OpsOn(ops, id) : \A j \in OpsOn(ops, id) : j <= i])

\* MERGE INTO ... ON target.id = source.id: every row with a changed id is
\* updated, an id the table does not have is inserted.
Merged(t, ops) ==
  LET touched == {id \in Ids : OpsOn(ops, id) # {}}
      known == {r.id : r \in t}
      rows == {r \in t : r.id \notin touched}
              \cup {LakeRow(r.id, r.copy, Collapsed(ops, r.id)) : r \in {q \in t : q.id \in touched}}
              \cup {LakeRow(id, 0, Collapsed(ops, id)) : id \in touched \ known}
  IN IF HardDelete THEN {r \in rows : Live(r.image)} ELSE rows

\* Nothing new: the run is over.
MergeNothing ==
  /\ npc = "merge"
  /\ all_frames = <<>>
  /\ RunOver
  /\ UNCHANGED <<lakehouse, ends>>

Merge ==
  /\ npc = "merge"
  /\ all_frames # <<>>
  /\ target' = Merged(target, OperationsIn(all_frames))
  /\ npc' = "mark"
  /\ UNCHANGED <<runVars, seedVars, watermark, ends>>

\* The watermark follows the data, in a commit of its own.
Mark ==
  /\ npc = "mark"
  /\ watermark' = all_frames[Len(all_frames)].seq
  /\ RunOver
  /\ UNCHANGED <<target, ends>>

-----------------------------------------------------------------------------
(* Seeding: seed_from_snapshot over the gateway's pages *)

\* The snapshot moved: from the first page again, a limited number of times.
RestartSeed ==
  IF restart + 1 < MaxRestarts
    THEN /\ restart' = restart + 1
         /\ npc' = "page"
         /\ after' = 0 /\ snapshot_seq' = NoSeq /\ attempt' = 0
         /\ stage' = {} /\ page' = NoPage
         /\ UNCHANGED runVars
    ELSE RunOver

\* 503: the page is asked for again, a limited number of times.
RetryPage ==
  IF attempt + 1 < MaxAttempts
    THEN /\ attempt' = attempt + 1
         /\ npc' = "page"
         /\ page' = NoPage
         /\ UNCHANGED <<runVars, after, snapshot_seq, restart, stage>>
    ELSE RunOver

\* readSnapshotPage: the first look at the header ...
PageBegin ==
  /\ npc = "page"
  /\ IF Unstable(hdr)
       THEN RetryPage
       ELSE /\ page' = NewPage(after, hdr)
            /\ npc' = "scan"
            /\ UNCHANGED <<runVars, after, snapshot_seq, restart, attempt, stage>>
  /\ UNCHANGED <<lakehouse, ends>>

\* ... the slots, as the file has them at that moment ...
PageSlot ==
  /\ npc = "scan"
  /\ ~ScanEnds(page)
  /\ page' = WithSlot(page, slots[page.slot])
  /\ UNCHANGED <<npc, runVars, after, snapshot_seq, restart, attempt, stage, lakehouse, ends>>

\* ... and the second look.  The notebook pins the pages to one sequence, stages
\* the rows and goes on to the next page, or to the replacement of its table.
PageEnd ==
  /\ npc = "scan"
  /\ ScanEnds(page)
  /\ CASE PageAnswer(page, hdr) = "snapshot_moved" -> RestartSeed
       [] PageAnswer(page, hdr) = "snapshot_unstable" -> RetryPage
       [] OTHER ->
            IF snapshot_seq \notin {NoSeq, page.header.seq}
              THEN RestartSeed
              ELSE /\ snapshot_seq' = page.header.seq
                   /\ stage' = stage \cup page.rows
                   /\ after' = page.slot
                   /\ attempt' = 0
                   /\ npc' = IF HasMoreRows(page) THEN "page" ELSE "replace"
                   /\ UNCHANGED <<runVars, restart, page>>
  /\ UNCHANGED <<lakehouse, ends>>

\* apply_staged_rebuild: CREATE OR REPLACE gives a table without properties ...
Replace ==
  /\ npc = "replace"
  /\ target' = {LakeRow(p[2].id, p[1], p[2]) : p \in stage}
  /\ watermark' = 0
  /\ npc' = "seeded"
  /\ UNCHANGED <<runVars, seedVars, ends>>

\* ... then the watermark is written, and the run goes on from it.
Seeded ==
  /\ npc = "seeded"
  /\ watermark' = snapshot_seq
  /\ last_seq' = snapshot_seq
  /\ from_seq' = snapshot_seq
  /\ all_frames' = <<>>
  /\ npc' = "fetch"
  /\ SeedLocals
  /\ UNCHANGED <<resets, target, ends>>

-----------------------------------------------------------------------------

\* A run is cut off: the session dies, or a request fails for good.
RunEnds ==
  /\ npc # "idle"
  /\ ends < MaxEnds
  /\ ends' = ends + 1
  /\ RunOver
  /\ UNCHANGED lakehouse

SyncInit ==
  /\ Init
  /\ npc = "idle"
  /\ last_seq = 0 /\ from_seq = 0 /\ all_frames = <<>> /\ resets = 0
  /\ after = 0 /\ snapshot_seq = NoSeq /\ restart = 0 /\ attempt = 0
  /\ stage = {} /\ page = NoPage
  /\ target = {}
  /\ watermark = 0
  /\ ends = 0

Notebook ==
  \/ StartRun \/ FetchRefused \/ FetchTooLarge \/ FetchFrames \/ FetchReset
  \/ MergeNothing \/ Merge \/ Mark
  \/ PageBegin \/ PageSlot \/ PageEnd \/ Replace \/ Seeded

SyncNext ==
  \/ Next /\ UNCHANGED syncVars
  \/ (Notebook \/ RunEnds) /\ UNCHANGED vars

SyncSpec == SyncInit /\ [][SyncNext]_<<vars, syncVars>>
=============================================================================
