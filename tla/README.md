# A formal model of asmDB

asmDB is a transactional key-value table written in x86-64 assembly (`src/`), with a
hosted service around it: a Go sidecar that owns one engine process (`saas/sidecar`), a
control plane that provisions instances (`saas/controlplane`) with its web console
(`site/js/console.js`), a gateway that serves the change log and snapshots of a live
instance (`workload/cdc-gateway`), a notebook that replays them into a lakehouse table
(`workload/notebooks`), a Fabric workload whose page and backend link the two
(`workload/frontend`, `workload/backend`), and an MCP server that gives agents a local
engine (`mcp`).  This directory holds TLA+
models of these parts, the TLC configurations that check them on small instances, and
proofs checked by TLAPS.  Paths below are relative to the repository.

## 1. Inventory

| Part | State it keeps | Operations | What is hard | What makes it correct |
|---|---|---|---|---|
| Store (`src/store.inc`) | an open-addressing array of slots, EMPTY / OCCUPIED / DELETED | `store_locate`, the slot an insert takes | tombstones keep probe chains together, also across a restart | a live row is the one a lookup of its id finds (what `VERIFY` checks) |
| Transactions and WAL (`src/wal.inc`) | undo log, frame being built, `<db>.wal` | `BEGIN`, `COMMIT`, `ROLLBACK`, autocommit, `txn_capture`, `txn_flush`, `wal_recover` | a crash between any two writes; a slot touched many times; an undo log that fills up | atomic, durable, exact rollback, the buffers are never overrun |
| Change log (`src/cdc.inc`) | `<db>.cdc`: base sequence and frames; last sequence in memory | append, sequence gate, reset frames, scan at open, `CDCTRIM` | replay after a crash must not publish twice or not at all; a removed or trimmed log must line up with the header | dense, never behind the table, at most one change ahead; a frame reproduces the table |
| Database file (`src/db.inc`, `src/parse.inc`) | `<db>.dat`: header (count, sequence, reset state, announced operation) and slots | open and recovery, `TRUNCATE`, `BACKUP`, `RESTORE`, `BENCH`, close | the replaced table cannot be logged: an announcement in the header and a redo at the next open stand in for it | the table ends in an end state of the operation, one RESET is published, every open accepts what a crash left |
| Concurrent reader (`src/db.inc` `db_open_reader`, `src/main.asm`) | a private mapping, the sequence it was taken at | refresh, run a command, check the fence | a commit writes slots before it moves the sequence | a command's output is of one table |
| Format upgrade (`src/db.inc` `db_upgrade`) | a second file | copy and re-hash | crash half-way | the old file is untouched until the new one is whole |
| Sidecar (`saas/sidecar`) | the child process, its pipes, a generation, two locks | command, restart, watch, upgrade swap | concurrent requests, timeouts, a dying child, late output | a response belongs to its request; one engine per database; a queued request does not cross a restart |
| CDC gateway (`workload/cdc-gateway`) | none: it reads the files of a live engine | frames from a sequence, snapshot pages | torn reads of files that are being written | a page is of one table; a gap is reported |
| Notebook (`workload/notebooks/sync_template.py`) | the lakehouse table and its watermark | incremental apply, rebuild, seed from a snapshot | crash between data and watermark; the log trimmed under it; resets | the table at watermark n is the source's table at n |
| Control plane (`saas/controlplane`) | instances, tokens | provision, rotate, delete | partial failure of cloud calls, retries | no orphan, no lost token |
| MCP session (`mcp/src/asmdb.js`) | the queue of calls, the text not yet cut into frames, frames owed to abandoned calls | `command`, `_onData`, timeouts, drain, `close` | one stream of output, cut anywhere, answers concurrent calls; calls are abandoned, outputs refused, the engine dies | an answer is its own call's; each call returns |
| MCP tools (`mcp/src/server.js`) | none of their own: the engine's transaction and PAGE limit | insert, upsert, update, delete, get, list, count | several handlers interleave their commands on one session, upserts with BEGIN and COMMIT | a transaction has an owner; a failed upsert leaves nothing |
| Web console (`site/js/console.js`) | the page: selected database, tokens held, panels, timers, requests in flight | select, create, rotate, upgrade, delete, terminal, preview, polls | answers in any order for a database that is no longer selected; a page that hides and comes back | what is shown, kept and sent belongs to its database; polling neither stops nor runs in the background |
| Sync hub (`workload/frontend`, `workload/backend/src/services/fabric.ts`) | the links in the page, in `links.json`, the notebooks in Fabric | create, delete, schedule, refresh | a read-modify-write of a file around several awaits; creation that goes on after its caller gave up | links and notebooks match; no link claims a notebook that is not there |
| Relay (`workload/backend/src/routes/sync.ts`, `capped-fetch.ts`, `cdc-gateway.ts`) | caches of tokens | frames, snapshot pages, preview | limits of two services on the same answer | what the notebook asks for can be answered |
| Clients, static pages, deployment, scripts | none that outlives a call | - | - | - |

**Interaction.**  The sidecar writes command lines to the engine's standard input and
reads lines until a status or a prompt.  The engine alone writes the `.dat`, `.wal` and
`.cdc` files.  The gateway and a reader process read them without any lock: the sequence
in the header is the only fence.  The notebook polls the gateway, through the relay of the
workload's backend, and stores its watermark next to its table.  The hub page keeps its
links in an item of OneLake and has the backend create a notebook for each in Fabric.  The
console talks to the control plane, and through it to the sidecar of each instance; the
control plane creates and configures containers.  The MCP server starts an engine of its
own and talks to it over pipes.

## 2. Plan

1. **Engine** (done): `Store`, `Engine`, the promise `ChangeStore`, properties, checks,
   and the proofs (7).
2. **Readers of a live engine** (done), composed with `Engine`, so that the torn states of
   its commit protocol are the ones the readers meet: the gateway's pages, the relay and
   the preview (`Gateway`), the notebook behind them (`Sync`).
3. **MCP server** (done): the session (`McpSession`), what it promises (`McpCalls`), and
   the tools that interleave on that promise (`McpTools`).
4. **Console** (done): what answers do to the page (`Console`), how it stays up to date
   (`ConsolePolling`).
5. **Hub** (done): links and notebooks (`Hub`).
6. **To do**: the sidecar's supervisor (generations, prompt framing, restarts, timeouts;
   abstract specification: a serial server that answers each request with its own response
   or an error) and its upgrade swap; the control plane's provisioning and rotation; the
   reader's fence; a page cache under `Engine` (a kill followed by a power loss), the
   creation, lineage and upgrade of files.
7. **Proofs**: done for the safety of each modelled part, the refinements of
   `ChangeStore` and `McpCalls` included (section 5): every invariant and action property
   of the passing runs.

Runs are kept to one per question: five for the engine's guarantees and one for a
disagreement with its documentation, one for the synchronisation, two each for the MCP
server and the console, one for the hub.

## 3. Modules

| Module | What it is |
|---|---|
| `Store` | the table: probing, insertion slot, tombstones, content; pure operators |
| `Engine` | the writer process and its three files as a state machine |
| `ChangeStore` | the abstract promise: an atomic, durable table with a change sequence |
| `EngineProps` | types, invariants, the inductive invariant `SeqInv`, action properties, liveness, the mapping to `ChangeStore` |
| `MCEngine` | the instances: rows with homes of their own (`HomesApart`) or all with the same (`HomesClash`) |
| `EngineProofs` | types, undo log and change log: `TypeCorrect`, `UndoAlwaysFits`, `SeqCorrect`, `LogIsAhead`, `NeverOutOfStep`, `LogIsDense`, and the lemmas about helpers |
| `EngineTableProofs` | the rows: `TableCorrect`, `DurableAtPrompt`, `CountAtPrompt`, `RollbackRestoresRows`, `RollbackIsExact`, `OpenAlwaysAccepts`, `EngineImplements`, `RowsAlwaysFound`, `FramesTellTheTable`, `FramesNameRowsOnce` |
| `Gateway` | what one request to the gateway answers; pure operators over the files |
| `Sync` | the notebook's run as a state machine, reading a live `Engine` through `Gateway` |
| `SyncProps` | what the lakehouse table must show, with the history needed to say so |
| `MCSync` | its instances |
| `SyncProofs` | the engine under its readers: `EngineUndisturbed`, `LogAheadOfReaders`, `HistoryOnlyRecords`, `RunSkipsNoFrame`; what the log and the lakehouse tell of the tables: `TruthCorrect`, `PreviewTellsTheTable`, `LakehouseShowsACommit` |
| `McpSession` | the session between the MCP server and its engine, the pipe included |
| `McpCalls` | what that session promises: calls in order, each with its own answer or an error |
| `McpProps`, `MCMcp`, `McpProofs` | its properties with the mapping to `McpCalls`, the instance, `OwnAnswers`, `SessionInStep` and `PromiseKept` |
| `McpTools` | tool calls as sequences of commands that interleave on `McpCalls` |
| `McpToolsProps`, `MCMcpTools`, `McpToolsProofs` | its properties, the instance, the proofs about transactions |
| `Console` | the console's page, its requests in flight and the control plane it talks to |
| `ConsoleProps`, `MCConsole`, `ConsoleProofs` | properties, instance, proofs |
| `ConsolePolling` | the console's timer, list, statistics and monitor |
| `ConsolePollingProps`, `MCConsolePolling`, `ConsolePollingProofs` | properties, instance, `MissesAreTold` |
| `Hub` | the hub page, `links.json`, the backend's creation of notebooks, Fabric |
| `HubProps`, `MCHub`, `HubProofs` | properties, instance, `RecordedNotebooksExist`, `NotebooksMatchAtRest`, `OtherLinksUntouched` |

### How `Engine` corresponds to the code

The engine is one thread; `pc` says between which two writes it is.  The globals keep
their names (`g_count` is `count`, `g_reset_pend` is `reset_pend`, ...).

* **Statements.**  `Insert`, `Update` and `Delete` are `cmd_insert`, `cmd_update`,
  `cmd_delete` after the lookup: capture, change of the slot in memory and, outside a
  transaction, the start of the commit (`auto_begin`, `auto_commit`).  The refusals (row
  exists, not found, table full, undo log full) change nothing and are no steps.
  `TRUNCATE` in a transaction captures slot by slot (`CaptureSlot`), then clears.
* **Commit** (`txn_flush`): `TxnStage` per captured slot, `TxnWrite` (frame), `WalCommit`
  (marker), `CdcPublish`, `ApplySlot` per entry, `PublishHeader`, `CheckpointSync`,
  `WalClear`.  Recovery (`wal_recover`) enters the same sequence at `CdcPublish`.
* **Whole-table operations**: `BulkBegin` (announcement and owed RESET in one header
  write), the operation's own writes, `BulkClose`, `BulkCloseSync`, `EmitReset`,
  `ClearReset`; at open `RecoverReset`, `CheckAligned`, then `BulkClear` or `RestoreApply`.
* **The disk.**  The `.dat` has a written and a flushed value of header and slots.  A
  flush makes them equal (`Synced`).  `PowerLoss` keeps any subset of the slots and the
  header written since; `ProcessEnds` keeps all of them.  Each write to the `.wal` and the
  `.cdc` is flushed before the next step, and an append that a crash tears is dropped at
  the next open, so each is one step.  A RESTORE's snapshot can be removed (`LoseBackup`)
  and so can the change log (`LoseLog`).
* **Abstractions.**  All columns of a record are one value; the contents of dead slots,
  checksums, lineages, names, output and parsing are left out.  A write error ends the
  process (`io_fatal`), as `ProcessEnds` does.  `BENCH` fills the table up to the ids of
  the model.

Bounds of the model, all in guards: `MaxSeq` changes, `MaxCrashes` ends of the process,
`UndoMax` (the code's `UNDO_MAX`, 4096), `Capacity` (the code's 2^19 .. 2^22).

### How `Gateway` and `Sync` correspond to the code

* **A request for frames** (`handleCDC`, `visibleFrames`) is one step: an append is seen
  whole or not at all (the checksum).  A position below the base is refused (`Gap`).
* **A request for a snapshot page** (`readSnapshotPage`) is as many steps as the engine
  can get in between: `PageBegin` (first look at the header, `unstableOperation`),
  `PageSlot` per slot (`scanSnapshotRows`), `PageEnd` (second look, and what the notebook
  makes of the answer).
* **A run** (`run_sync`) is `StartRun`, then `FetchFrames` until there is no more,
  `Merge` and `Mark` in this order, as the table and its watermark property are two
  commits of the lakehouse.  A RESET frame leads to `seed_from_snapshot`: pages pinned to
  one sequence, `RestartSeed` when it moves, `RetryPage` for a 503, then `Replace` and
  `Seeded`.  CREATE OR REPLACE makes a table without properties, so that `Replace` drops
  the watermark that `Seeded` writes again.
* **The relay** turns a larger page into a full one (`Limit`, `routes/sync.ts`) and refuses
  an answer above its size with a 502 (`TooLarge`, `FetchTooLarge`, `capped-fetch.ts`),
  which the notebook does not retry.  **The preview** (`PreviewRows`) is the first frames
  of the log without those a RESET voids, as the hub page shows them.
* **A run that ends** (`RunEnds`) may do so anywhere and keeps nothing but the lakehouse.
* **Left out**: content decoders and schemas (a row of the lakehouse is its image), the
  acknowledgement of a watermark (the gateway has no route for it; the notebook goes on
  without), `/head`, tokens, waiting.  `rebuild_from_cdc_base` replays only from base 0,
  and is entered for a gap, which means that the base is not 0, or for a damaged log,
  which `Engine` never writes: what is left of it is the refusal (`FetchRefused`).

Bounds: `AskedLimit`, `GatewayLimit`, `RelayCap`, `PreviewLimit` and `Budget` (what a page
may hold and examine: the code's 5000, 1000, 16 MiB, its preview limit and slot budget),
`MaxReseeds` 2, `MaxRestarts` 2, `MaxAttempts` 2 (the code's 3, 4 and 4), `MaxEnds` runs
cut off.

### How `McpSession` and `McpTools` correspond to the code

* **The stream.**  Text is counted in units, and a position in it is a number of prompts
  and the units after the last; the buffer (`this.buf`) is what has arrived of it from
  `from` on.  `Chunk` ends anywhere in what the engine has printed and is one call of
  `_onData`: frames owed to abandoned calls go first (`Discard`), then a buffer over the
  cap is refused (`RefuseOutput`), else each complete frame answers the oldest entry of
  the queue (`Deliver`).
* **A call** (`Command`) queues its entry, then writes its line, and waits for `drain` when
  the pipe is full.  It ends by `Deliver`, `Timeout` (the oldest entry first: all timers
  have one delay), `RefuseOutput`, `ExitEvent` (`_failAll`), `WriteError`, or at once on a
  closed session (`CommandClosed`).  A rejection that comes while its call still waits for
  `drain` is handled by nobody, and ends the server (`crashed`); so does an error of the
  pipe while no call waits for `drain`, as only such calls listen for it (`UnheardError`).
* **The engine** is external: `Execute` and `EngineExit` may come at any time or never.
* **A tool** is a request with a `pc`: the command it issues next.  As the session runs
  commands in order and answers each with its own output or an error (`McpCalls`), issuing
  one, running it and acting on its answer are one step; another tool's command may come
  between any two.  There are two ways to run a command without its answer being read.  A
  command that times out (`TimesOut`) is run all the same, and its handler goes on with the
  error.  The engine may run a command and end before its output is read (`Unread`): the
  handler waits, and the `exit` event rejects its call (`EngineEnd`, `_failAll`); outputs are
  read in their order, so that nothing behind an unread one is read.
* **The end of the session.**  `Close` may come at any time: lines already written are run,
  EXIT behind them, and every new call is refused at once (`Refused`), a ROLLBACK after an
  error included.  `EngineEnd` may come without it.  Either way an open transaction is undone
  and every handler ends.
* **Left out**: validation of arguments, wording of replies, all columns of a row but its
  key and writer, listings' contents other than their number of rows; an INSERT that a full
  table or undo log refuses, which is one more error on the path of `Throw`; and what
  follows an output refused for its size, after which answers belong to other calls
  (`OwnAnswerAlways` in section 4): a tool that acts on another's answer can do anything.

Bounds: `MaxCommands` calls after the banner, `Size` (the units each prints), `Cap`
(`maxOutputBytes`), `PipeCap` (lines the pipe takes); `Requests`, `MaxTimeouts`, and
`MaxUnread` (commands whose output the engine takes with it).

### How `Console` and `ConsolePolling` correspond to the code

* **A handler** of `console.js` is a function from page to page, and calls nest as in the
  code (`SelectDatabase` calls `LoadPreview` and `ShowTerminal`); `Become` ends it: its
  requests join those in flight.  JavaScript runs a handler to its end, so a step is a
  handler: of the user's events, or of one answer, which may come in any order, or fail.
* **`Console`** has the list, the selection, tokens, preview, terminal, rotation, creation,
  deletion and upgrade.  The control plane (`api.go`) acts when it answers; a rotation is
  prepared there and applied by a commit the console never calls.
* **`ConsolePolling`** has the chain timer - list - statistics - timer, in which each
  request carries what follows it, the page that hides and reappears, and the monitor.
* **Left out**: sign-in, cost estimates, drawing, the reveal of a token for ten seconds,
  the text of the transcript, the length of delays.

Bounds: `MaxInFlight` requests, `MaxTokens` tokens for a database, `MaxStats` statistics
in flight; `SampleSize` is the number of commands of the sample the page runs for its
user, `Threshold` the number of failed statistics before the monitor speaks.

### How `Hub` corresponds to the code

* **A flow** is one call of `createLink` (which goes on as `generateNotebookFor`),
  `deleteLink`, `saveSchedule` or `refresh`.  It stops at each `await`: `Write` and `Read`
  are the two requests of `saveLinkState` (the list is replaced as a whole, then read
  back), `Post` and `Poll` are `createNotebook` of the backend, `Remove` and `Schedule`
  the other calls, `Latest` the `loadLinks` before the last write.  What the page held when
  the flow began is in the flow.
* **Each request may fail**, and may have taken effect all the same (`Caught` is the
  `catch` of the flow).  Fabric finishes a creation that the backend has given up
  (`FabricCreates`).
* **Left out**: run history and schedule panels, lineage, tokens and consent.

Bounds: `MaxFlows` flows at once, `MaxBegun` in all.

## 4. What is checked

| Run | Instance | Question | Properties |
|---|---|---|---|
| `engine_txn` | 2 ids in 3 slots, same home, 2 changes, 2 crashes, power losses | are transactions atomic, durable and exactly undone? | `UndoFits`, `DurableWhenIdle`, `RollbackExact`, `NeverRefused`, `Implements` |
| `engine_log` | 2 ids, own homes, `CDCTRIM`, the log removed while down | where does the change log stand, and does it tell the truth? | `TypeOK`, `LogAhead`, `FrameExact` |
| `engine_bulk` | `RESTORE` and `BENCH` with power losses | does an interrupted replacement end in an end state? | `Implements` |
| `engine_lost` | colliding ids, the snapshot removed at any time | is a half-restored table ever served, can every row be found? | `CountExact`, `VerifyClean` |
| `engine_live` | `BEGIN`, `RESTORE`, `TRUNCATE` outside transactions, `CDCTRIM`, colliding ids, kills, under `FairSpec`; no `BENCH` and no `TRUNCATE` in a transaction | does the prompt come back, does what was logged or announced happen? | `PromptReturns`, `CommitCompletes`, `ReplaceCompletes`, `Implements` |
| `engine_clash_frames` | colliding ids, 3 changes, no faults | is a row named once in a frame? (it is not) | `FrameExact` |
| `sync_pages` | 2 ids in 2 slots, one slot to a page, 3 changes with `TRUNCATE`, a kill, the log removed, a run cut off, an answer too large for the relay, under `FairSyncSpec` | does the lakehouse always show a commit, and the last one in the end; does the preview tell what is live? | `LakehouseIsACommit`, `NoFrameSkipped`, `PreviewLive`, `CatchesUp` |
| `mcp_session` | 4 calls after the banner, outputs of 0, 1 and 3 units, a cap of 2, a pipe of one line, under `FairSpec` | does each call get its own answer, and return? | `OwnAnswer`, `InStep`, `KeepsPromise`, `EveryCallEnds`, `CloseEnds` |
| `mcp_tools` | 6 concurrent calls, two of them upserts of keys that hash to one id, one command that times out, one answer that goes with the engine, the session closed or the engine ended at any time, under `FairSpec` | who owns a transaction, what does a failed upsert leave, is each call answered? | `TransactionOwned`, `FailedUpsertLeavesNothing`, `EveryRequestReplies` |
| `console` | 2 databases, 2 requests in flight, 2 tokens for each | does what the page shows, keeps and sends belong to its database? | `TokensOwn`, `PreviewOwn`, `RotatedTokenOwn`, `PollLeavesPanels` |
| `console_polling` | 2 databases, one that sleeps, a threshold of 2, 2 statistics in flight, under `FairSpec` | does polling go on, go quiet, and reach the monitor? | `MissesTold`, `KeepsPolling`, `HiddenGoesQuiet`, `MonitorCatchesUp` |
| `hub` | 2 links between the same ends, 2 flows at once, 3 operations begun, under `FairSpec` | do links and notebooks match, does each flow end? | `RecordedNotebookExists`, `AtRestMatched`, `OthersUntouched`, `EveryFlowEnds`, `CreateComesBack` |

**Why the bounds are enough.**  A commit involves at most its own sequence and the one
before; two changes let a second one start from what a recovered first one left, and two
crashes let a recovery be interrupted.  Two ids with the same home produce every shape of
a chain (row, tombstone, row behind a tombstone), and three slots leave one EMPTY slot
that ends a probe.  Two values tell an update from none.  `UndoMax` equals the number of
rows so that it is reached, and touched slots beyond it are refused.  For the
synchronisation, three changes let a consumer follow one frame, then a TRUNCATE's RESET,
then a frame after it; one slot to a page makes a snapshot of several pages, between which
the table moves; a kill leaves a RESET owed or a commit half-written for as long as the
reader likes.

Four calls of an MCP session give one that is abandoned, one whose late output arrives
with the next, one that is refused for its size and one behind it; a pipe of one line is
full with two.  The six tools are two upserts, the second of which meets the first one's
transaction, an insert and a delete that come between their commands, a listing and a
count.  An update and a get issue no command that these do not, and are in the proofs, which
take any requests.  One unread answer is enough to lose that of each command; the proofs
take any number.  In the console two requests in flight are enough for an answer
to arrive after the user, or another answer, has changed the selection, and two databases
for it to be the wrong one; a second token tells an old one from a new one.  A threshold
of two misses tells "some" from "enough".  Two flows are enough for one to write a list
read before the other's write; a third operation makes a deletion come between.

**What the properties of the MCP server and the hub except.**  `OwnAnswer` and `InStep`
hold until an output has been refused for its size or the pipe has broken: `RefuseOutput`
throws away a buffer in which later calls' frames may be, and `WriteError` drops entries
whose frames may still come.  `EveryCallEnds` excepts a server that died of an unhandled
rejection or an error of the pipe nobody listened for, and a call made between the error of the pipe and the exit of the engine, which
waits for a `drain` or `error` that never comes.  `TransactionOwned` excepts a BEGIN that
timed out and `FailedUpsertLeavesNothing` a COMMIT that did: both are run late, with
nobody to end them.  `TransactionOwned` also excepts a session that is closing or an engine
that has run what it runs last (`Ending`): the end of the engine undoes what is open.
`FailedUpsertLeavesNothing` also excepts an upsert whose own COMMIT the engine ran just
before its end, with its prompt unread: the `exit` handler (`mcp/src/asmdb.js:49-53`)
rejects the call, so the upsert reports an error, and its row is stored.  The table below
has this case.  `AtRestMatched` and `OthersUntouched` of the hub speak of what is done
one at a time on a loaded page without a failure.

**What the properties of the synchronisation except.**  A page is accepted if the sequence
has not moved although slots of the next commit may be in it.  The frame that follows
makes such a seed good, except where the page stopped early or the same row stood in two
slots: `torn` remembers this.  `LakehouseIsACommit` speaks of the lakehouse once a torn
seed has been made good, `CatchesUp` of the ones that can be; that the others exist is
shown below.  `CatchesUp` also excepts a page of frames the relay refuses (`Stuck`), and a
log that no longer reaches the watermark: the notebook refuses such a run, as
`docs/WORKLOAD.md` 4.5 says, although `workload/cdc-gateway/README.md:73` would have it
reseed.

**Fairness.**  `FairSpec` asks that the thread goes on while it has something to do
(`WF_vars(Step)`: no step waits for anybody) and that a database that is down is opened
again (`WF_vars(Open)`: the sidecar restarts the engine).  No command is assumed to be
typed, no fault to stop other than by `MaxCrashes`.  `FairSyncSpec` adds that the notebook
goes on (`WF_syncVars(Notebook)`): a run waits for nobody and has limited retries, and the
schedule starts another when it is over.  For the MCP session: timers fire, the exit of a
process and the drain or error of its pipe are reported, `close` kills an engine that has
not ended within two seconds; the engine itself may never print anything.  The tools go
on because each call of the session ends (`EveryCallEnds`): a handler that can go on with an
answer does (`GoesOn`), one that a closed session refuses is told, and an engine that was
asked to end, or has run what it runs last, ends.  No timeout, no lost answer and no closing
is assumed to happen.  For the console: timers fire,
and every request is answered, fails or is given up after 30 seconds; it is also assumed
that the body of an answer ends, which no timer watches.  For the hub: every request is
answered or given up, and polling ends at its deadline.

**Deadlock** is not checked where the system may stop.  `engine_lost`: a database whose
restore cannot be finished is refused for good, which is what `bulk_recover` `.nosrc` is
for.  `mcp_session` ends when the session is closed or the server has died, `mcp_tools`
when all calls are answered and the engine has ended, `console` when the user has signed out, `hub` when `MaxBegun`
operations are over.

**Coarser than the code, where no property's outcome depends on it.**  Whole-table writes of
the engine go chunk by chunk in the code (`region_write_sparse`, `bulk_clear_table`) and are
one step here: the announcement stands before the first chunk and after the last.
`TruncateInTxn` asks for the room that the code finds missing while it captures, and then
unwinds.  A new change log's header is written as one, where the code refuses a torn one.
The relay's cap counts operations that carry a row, where the code counts bytes, deletions
included (`Stuck` is narrower for it), and the preview's own cap is left out: a preview above
it is refused whole, so that no row is shown.  Of the console's requests only a rotation can
take effect and be reported as failed; no property speaks of the effect of the others.  A
pasted token is the selected database's, and a database is selected on a visible page.  In
the hub a second refresh waits for the first, as a refresh writes nothing, and an answer is
read and shown in one step: an older answer does not overwrite a newer one, which only flows
that overlap could see.

### Where the code and its documentation disagree

One run expects a violation: `engine_clash_frames` shows that a row deleted and reinserted
into another slot has two events in one frame; if the new slot was captured first, the
DELETE comes last and a consumer loses the row (`docs/CDC.md:46-49`).

The others are not runs of the project.  Each property is defined in the module named;
TLC violates it with the configuration of the run given, the one property in place of the
run's own and, where stated, another specification or command set.

| Property | Configuration | What TLC finds |
|---|---|---|
| `OneEventPerRow` (`EngineProps`) | `engine_clash_frames` | the same frame, as two events on one row |
| `VerifyClean` (`EngineProps`) | `engine_clash_frames` | a tombstone made in the transaction that also made its row is never written; later rows behind it are lost to lookups after a restart |
| `CountExact` (`EngineProps`) | `engine_bulk` with `Commands = {"TRUNCATE"}` | TRUNCATE's slots are not flushed before its announcement is cleared (`src/db.inc:1258-1262`): a loss of power brings rows back |
| `HeaderAccepted` (`EngineProps`) | `engine_lost` | a session that goes on after a failed RESTORE writes a header that no open accepts (`docs/ENGINE.md:880`) |
| `LakehouseExact` (`SyncProps`) | `sync_pages` with `CheckedSpec` | a first snapshot page stops at the number of rows of the header while a commit that is not counted yet has put another row before the last one: the lakehouse lacks a row at a watermark that says it does not (`docs/WORKLOAD.md:265-268`) |
| `LakehouseIsACommit` (`SyncProps`) | `sync_pages` with `CheckedSpec`, `Commands = {"RESTORE"}` and `Faults = {"power"}` | a loss of power keeps the header of a commit and loses its slots: until the replay has written them, the gateway serves the slots of before under the new sequence, and no later frame makes this good (`docs/WORKLOAD.md:265-268`) |
| `CatchesUp` without its disjunct `Stuck` (`SyncProps`) | `sync_pages` | a page of frames above the relay's 16 MiB is refused whole, and every later run asks for it again (`routes/sync.ts:25-31`, `capped-fetch.ts:36`) |
| `OwnAnswerAlways` (`McpProps`) | `mcp_session` with `Spec` | an output over the cap is thrown away with the frames behind it, and every later call is answered with another's output (`mcp/src/asmdb.js:143`, `mcp/README.md:131`) |
| `RollbackUndoesOnlyItsOwn` (`McpToolsProps`) | `mcp_tools` with `Spec` | the ROLLBACK of a failed upsert undoes a row that another tool has reported as stored meanwhile (`mcp/src/server.js:239`) |
| `UpsertErrorMeansNothing` (`McpToolsProps`) | `mcp_tools` with `Spec` | the engine runs the COMMIT of an upsert and ends before its prompt is read: the upsert reports an error although its row is stored (`mcp/src/asmdb.js:49-53`, `mcp/src/server.js:239`) |
| `RotatedTokenWorks` (`ConsoleProps`) | `console` | a rotation is only prepared: the token kept and shown is accepted by no instance, and the old one goes on working (`site/index.html:687`) |
| `DeletedStaysDeleted` (`HubProps`) | `hub` with `Spec` | a flow that overlaps a deletion writes the deleted link back |

Because of these, `FrameExact` is checked on rows that do not share a home, `VerifyClean`
without multi-statement transactions, and `CountExact` and `Implements` for `TRUNCATE`
without power losses.

## 5. What is proved

For every table size, set of ids and values, home function, undo limit, number of changes
and number of crashes (the named assumptions are in `Store` and `Engine`):

* `TypeCorrect` - `Spec => []TypeOK`.  One proof step per action.
* `UndoAlwaysFits` - `Spec => []UndoFits`.
* `SeqCorrect` - `Spec => []SeqInv`, if the snapshot of an announced RESTORE is not
  removed (`"nobackup" \notin Faults`; `HeaderAccepted` above shows why this is needed).
* `LogIsAhead` - `Spec => []LogAhead` under the same hypothesis.
* `NeverOutOfStep` - no commit, recovery, RESET or `CDCTRIM` meets a log that
  `cdc_seq_gate`, `cdc_check_aligned` or `cdc_scan` would have to refuse, under the same
  hypothesis.
* `LogIsDense` - the sequences of the log follow its base, whatever is removed.
* `TableCorrect` - `Spec => []TableInv`, the invariant of the rows described below.
* `DurableAtPrompt` - `Spec => []DurableWhenIdle`.
* `RollbackRestoresRows` - ROLLBACK brings back the rows, whatever the faults;
  `RollbackIsExact` - `[]RollbackExact`, the row count too, under *TruncateFlushed*.
* `CountAtPrompt` - `[]CountExact` under *TruncateFlushed*.
* `OpenAlwaysAccepts` - `[]NeverRefused` under *TruncateFlushed*, if the snapshot of an
  announced RESTORE is not removed.
* `EngineImplements` - `Spec => Implements`, the refinement of `ChangeStore`, under
  *TruncateFlushed*, if neither the snapshot nor the change log is removed.
* `RowsAlwaysFound` - `[]VerifyClean` if there is no multi-statement transaction
  (`"BEGIN" \notin Commands`).
* `FramesTellTheTable` - `Spec => FrameExact`, and `FramesNameRowsOnce` -
  `Spec => OneEventPerRow`, if no two rows share a home slot or there is no multi-statement
  transaction (`PlainFrames`).

*TruncateFlushed* is `"TRUNCATE" \notin Commands \/ "power" \notin Faults`.  It and the
hypotheses of the last two items are the disagreements of section 4 and no convenience:
without them TLC finds the counterexamples listed there.  A change log that is removed is made anew at
the header's sequence, which takes a published RESET back: `ChangeStore` knows no such
step.

* `EngineUndisturbed`, `LogAheadOfReaders` - a behaviour of the engine with gateway and
  notebook is a behaviour of the engine, so that all of this holds under its readers.
  `HistoryOnlyRecords` - the specification the runs check, with its history variables, has
  no behaviour that `SyncSpec` has not.  (That it has all of them is seen in `SyncProps`:
  each history variable is assigned a value in every step and guards none.)
* `RunSkipsNoFrame` - `SyncSpec => []NoFrameSkipped`, with no hypothesis.
* `TruthCorrect` - `CheckedSpec => []TruthInv`, the invariant of what the table has been at
  each sequence (described below), and `PreviewTellsTheTable` -
  `CheckedSpec => []PreviewLive`, both under `PlainFrames` and if the snapshot of an
  announced RESTORE is not removed.
* `LakehouseShowsACommit` - `CheckedSpec => []LakehouseIsACommit`, under the same
  hypotheses, if there is no loss of power (`"power" \notin Faults`) and either the change
  log is not removed or there is no multi-statement transaction.  Engine kills, runs cut off
  at any point, RESETs, trims and refusals are unrestricted, and so are the sizes of pages
  and budgets.

Each hypothesis of the last item stands for a counterexample of TLC.  Power: the row of
section 4.  Removal together with `BEGIN` (`sync_pages` with `Commands = {"BEGIN"}`,
`UndoMax = 2`, `GatewayLimit = 1`): a run merges the frame of sequence 2 and is cut off
before it writes its watermark; the engine was killed before the header of 2, and its log
is removed.  The next run has pulled frame 1 just before; the new log begins at 1, so
there is no second page, and the merge brings the rows of frame 1 back while those of
frame 2 alone stay.  When the replay has published 2 again, a later run makes it good;
the watermark tells nobody in between.

For every number of databases, tokens, calls, links and requests in flight (the
assumptions are in `McpSession`, `McpTools`, `Console`, `ConsolePolling` and `Hub`):

* `OwnAnswers`, `SessionInStep` - of the MCP session, for outputs of any size cut anywhere.
  `PromiseKept` - `Spec => KeepsPromise`, the refinement of `McpCalls`, also after an output
  has been refused or the pipe has broken.
* `TransactionsAreOwned`, `FailedUpsertsLeaveNothing`, `UpsertsTakeTurns`,
  `ToolsTypeCorrect` - of the MCP tools, for any mix of tools, any number of timeouts and of
  answers lost with the engine, and a session closed or an engine ended at any point.
* `TokensStayOwn`, `PreviewStaysOwn`, `RotatedTokenStaysOwn`, `PollsLeavePanels`,
  `ConsoleTypeCorrect` - of the console's page.
* `MissesAreTold`, `PollingTypeCorrect` - of the console's monitor.
* `RecordedNotebooksExist`, `NotebooksMatchAtRest`, `OtherLinksUntouched`,
  `HubTypeCorrect` - of the hub.

**The arguments.**  `LogAhead` is not inductive: that the log may be one ahead of the
header depends on which step the thread is at and on what the WAL and the header would
make of it after a crash.  `SeqInv` says this in three parts.  `HeadersAgree`: written and
flushed header differ in the sequence only, by one, and only at the last step of a commit.
`LogStanding`: if a committed frame is in the WAL, the log ends at the header's sequence
or at the frame's; if a RESET is owed, at the header's or at the next; otherwise both
agree.  `MemoryAgrees`, `CommitPhases` and `ResetPhases` tie the globals and `pc` to the
files, so that each step re-establishes the first two.  A crash only forgets memory, and
`LogStanding` speaks of files alone: this is why it survives `PowerLoss`.  That Dense
survives an append, a trim and a new log are the lemmas `DenseAppend`, `DenseTrim` and
`DenseNew`.

`UndoFits` needs to know, in the middle of a TRUNCATE, that the room it was admitted with
is still there for the live slots it has not looked at (`UndoInv`, `CaptureUses`): the
captures are one loop, and the limit is only tested before it.

`TableInv` follows a slot through memory, undo log, frame and both states of the file.
`UndoHeld`: the table in memory with the captured images put back is the file's.
`FrameHeld`: while a frame is staged or waits to be applied, putting its entries into the
file gives the table in memory; each slot is in a frame once (`OneEach`), so that entries
already applied do no harm when they are applied again.  `Written` and `Flushed` say at
which `pc` the file may differ from what is flushed.  A power loss in a commit keeps any subset
of the slots written: those are slots of the frame, which the replay writes all.
`HeaderMirrors` and `CountMirrors` tie the globals to the header.  `DurableAtPrompt` and
`RollbackRestoresRows` are read off.

`CountInv` adds that the announced count is the number of rows after the replay
(`CommittedCount`), that the header's is that of the file unless a commit or an announced
operation stands between (`HeaderCount`), and what a BACKUP and a redone operation leave
(`BackupCount`, `BulkCount`).  The counting itself is `LiveCount` of a table with one slot
changed.  *TruncateFlushed* is needed for the counts alone: after a TRUNCATE the header is
flushed before the slots.

`EngineImplements` maps the abstract table to the file with the committed frame applied.
Its proof has a step for each action that changes what the promise sees - the marker of a
commit, the header that closes a whole-table operation, a RESET's frame, a prompt, a
crash - and shows of all others that they change nothing (`NothingVisible`).  `BulkInv`
says what a whole-table operation, interrupted or not, works towards: the table it was
begun on, or its end state (`GoalReached`).

`CleanInv` is that each row can be reached from its home over slots that are not EMPTY
(`Sound`), in memory, in both states of the file and in the snapshot.  The file of a
commit of one statement differs from the memory in one slot, so a crash leaves the old
table or the new one, tombstones included; with more statements a tombstone need not be
written, which is the disagreement.  An insert takes the first free slot on its way, which
exists as a least element (`WFMin`).

`FrameExact` takes an induction over the entries of a frame, and this one over sets of
numbers (`CountingUp`), since the library's takes an operator: after i entries the consumer
has the rows of the table with the first i images in it (`FrameConsumed`).  A step of it
holds because the entry's slot has what the entry says it had or has its image already
(`FrameTied`: recovery publishes again after a part of the frame was applied), and no other
slot holds, held or will hold one of its rows (`FrameApart`).  The first is an invariant of
the commit with no hypothesis.  The second is where the hypothesis comes in: with homes of
their own all rows stay in them (`HomesInv`), with one statement the frame has one entry
between two sound tables (`SingleInv`, from `CleanInv`).

`RunInv` says of a run in progress that what it has pulled begins at its watermark and
ends at its position; a page of frames is dense because the log is (`LogIsDense`).

`TruthInv` carries `FrameExact` along the log.  `truth` is the table at each sequence that
has been published; a preview is a list of frames, each of which leads from one table to
the next (`LogTrue`).  That this stays so needs to know that no sequence is given to two
tables, which is where crashes come in: a commit whose frame is in the log is replayed
before anything else, and until then the sequence it will have is tied to what the replay
gives (`CommitTrue`); an operation that is begun again by an open ends in the table it
ended in before, if it got as far as its sequence (`RedoTrue`); a header, written or
flushed, that announces nothing is of a sequence that is known, and the file is its table
unless a commit is under way (`HeaderTrue`, `SafeTrue`); and no table has a sequence past
the header's and the WAL's (`TruthBound`).  The snapshot of a RESTORE must be there for
this: without it an open makes nothing of the operation.  From a list of frames to the rows
of a preview is one induction over the operations in it (`TellsFlat`): the last operation
on a row is what the row is, and a row without one is as it was.

`LakeInv` is the other half: a seed read page by page beside commits, frames merged over
it, and runs cut off between.  It speaks of rows id by id, because that is how a merge and
a torn page mix two tables: `Agrees` says that the lakehouse shows of one id what the
table of one sequence held, `LakeNear` that this is so of every id for some commit from
the watermark on, `LakeAt` that one commit does for all.  `LakeHeld` is `LakeAt`, or
`LakeNear` while a torn seed has not been made good.  A merge turns the second into the
first (`LakeMerge`): ids the frames name are set to the last of them (`MergedRows`,
`RunTells`), the others have not changed in between - provided no commit the lakehouse may
already show a part of is left out.  That is `MergeReady`, which `FramesHeld` and the
length of the log give when the last page is read (`LakeFetch`); it holds of a commit whose
frame is not in the log yet only if that commit is of one row (`OneApart`), since a mixture
of two tables that differ in one row is one of the two.  `StageHeld` and `PageHeld` say that
each slot read so far was read as the pinned sequence has it or, in a torn page, as the
commit after it (`ReadAs`), and `SeedHeld` that the seed leaves out nothing else.

Of the engine this takes `FileInv`: in a stable header's file each slot is as that sequence
has it or as the commit under way will have it (`FileNear`), the header counts the rows of
its sequence (`HeaderCounts`), an operation that an open has to finish has no table yet
(`NotGivenYet`), rows do not move to another slot in a commit (`TruthPlaced`, `CommitPut`) -
or a torn page would miss one row, or show it twice, with no frame to tell - and a sequence
that was published stays in the log while its commit is not over (`LoggedOnce`).  A power
loss breaks `FileNear`, as it may keep the header alone.

`OwnAnswer` follows from `SessionInv`: every call made has its frame, and frames that were
consumed, frames owed to abandoned calls and the queue make up the calls made, in this
order (`Aligned`, `Accounted`).  Each way a call can end moves one unit from one of the
three to another.  `Accounted` stands until the pipe breaks or an output is refused, which
is what the exceptions of `OwnAnswer` say; that the queue holds calls that wait, in their
order and each once (`QueueOK`), stands for ever.  For the entries that `WriteError` filters
out this is an induction over the filter loop (`WithoutOK`, from a least counterexample).
`PromiseKept` then is one step of `McpCalls` for each step that ends calls: a chunk ends
several, in the order of the queue.

`ToolsInv` of the tools is that each handler is where its kind of tool can be (`Shape`),
that an open transaction is of an upsert between its BEGIN and its end, of a BEGIN that
timed out, or about to be undone (`Somebodys`), and, while no COMMIT has timed out, that the
one upsert inside has the engine's transaction (`Holds`) and that nothing of an upsert that
has not been committed (`Unkept`) is in the table, nor in the one a ROLLBACK goes back to
(`Owned`).  An upsert whose COMMIT or ROLLBACK was run unread is inside without having the
transaction.  One that a closed session refused may have left the transaction open
(`Orphan`): what it wrote is still in the table, but not in the one the end of the engine
goes back to.  `OwnInv` of the
console says of a page in the middle of any handler what the properties say of it at the
end (`PageOK`), so that each function of the page has a lemma of its own, used wherever it
is called.  `PollingInv` does the same for the monitor.  `HubInv` is that every list a flow
may still write is backed: what it claims exists in Fabric or is of a link whose deletion
was asked for; the list of a creating flow becomes so only once Fabric has the notebook.
`CalmInv` says, as long as nothing has overlapped or failed, at which point of the one flow
page, stored list and notebooks may differ, and in which link.

**Model-checked only**: liveness, which is out of reach of the prover.

## 6. What is not modelled

See the components of `PROJECT.json`; the plan above says what comes next.

* **The sidecar and the control plane** are programs with concurrency of their own (several
  thousand lines of Go); of the control plane only what the console sees is here.
* **The concurrent reader and the format upgrade** of the engine share nothing with the
  writer but the files; they, the creation and lineage of files and the layout of records
  are left for a module of their own.
* **Parsing, listings and the operating-system layer** are input and output.
* **In the workload**: the on-behalf-of exchange and its caches, consent, rate limits, run
  history and schedule panels, lineage.  **In the console**: sign-in, costs, drawing.
* **Client libraries** make one call at a time over the same pipes as the MCP session and
  keep no state between calls.

Two limits of `Engine` are worth knowing.  A kill is followed by a write-back of the
kernel before the power next fails, so double faults on unflushed data are outside.  And
the directory is assumed to keep a rename, although `os_rename` does not flush it.
