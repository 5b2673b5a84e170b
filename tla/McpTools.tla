------------------------------ MODULE McpTools ------------------------------
(***************************************************************************)
(* The tools of the MCP server (mcp/src/server.js).  Each tool call is an  *)
(* async handler that awaits one engine command after another; several run *)
(* at once over the one session, with nothing between them but its queue.  *)
(*                                                                         *)
(* The session executes the commands in the order they are issued and ends *)
(* each call with its own output or with an error (McpCalls), so issuing a *)
(* command, executing it and deciding what to do with its answer are one   *)
(* step - unless the answer is not read: a command that times out is       *)
(* executed all the same, and so is one whose output is still in the pipe  *)
(* when the engine ends.                                                   *)
(***************************************************************************)
EXTENDS Naturals, FiniteSets

CONSTANTS
  Requests,      \* the tool calls of a behaviour
  Tool,          \* the tool each one calls; insert with upsert:true is "upsert"
  Key,           \* its key argument, or NoKey if it gave an id
  Id,            \* resolveId: the id, given or hashed from the key
  Limit,         \* its page limit (db_list and db_find)
  NoKey,
  MaxTimeouts,   \* commands that may time out in a behaviour (bound)
  MaxUnread      \* commands whose output the engine may take with it (bound)

Ids == {Id[r] : r \in Requests}
Keys == {Key[r] : r \in Requests}
NoRow == [key |-> NoKey, by |-> "nobody"]
Rows == {NoRow} \cup [key : Keys, by : Requests]
Tools == {"insert", "upsert", "update", "get", "delete", "list", "count"}

ASSUME ToolAssumption ==
    /\ Tool \in [Requests -> Tools] /\ Limit \in [Requests -> Nat \ {0}]
    /\ "nobody" \notin Requests /\ MaxTimeouts \in Nat /\ MaxUnread \in Nat

VARIABLES
  rows,          \* the engine's table: the key kept in the row and its writer
  in_txn, saved, \* its transaction, and the table to go back to
  page,          \* its PAGE limit, one for the whole session
  running,       \* the engine runs
  closed,        \* the session takes no more calls
  written,       \* calls that close() left waiting, whose line it lets through
  pc,            \* the command each request issues next
  reply,         \* what it answered, or will answer after its rollback
  lost,          \* the commands that timed out, with their requests
  unread         \* those the engine ran last, whose output it took with it

engine == <<rows, in_txn, saved, page>>
session == <<running, closed>>
vars == <<engine, session, written, pc, reply, lost, unread>>

First(r) == CASE Tool[r] = "insert" -> "INSERT"
              [] Tool[r] = "upsert" -> "BEGIN"
              [] Tool[r] \in {"update", "delete"} ->
                   IF Key[r] # NoKey THEN "SELECT"
                   ELSE IF Tool[r] = "update" THEN "UPDATE" ELSE "DELETE"
              [] Tool[r] = "get" -> "SELECT"
              [] Tool[r] = "list" -> "PAGE"
              [] OTHER -> "COUNT"

Init ==
    /\ rows = [i \in Ids |-> NoRow] /\ in_txn = FALSE /\ saved = rows
    /\ page = 0 /\ running = TRUE /\ closed = FALSE /\ written = {}
    /\ pc = [r \in Requests |-> First(r)]
    /\ reply = [r \in Requests |-> "none"]
    /\ lost = {} /\ unread = {}

-----------------------------------------------------------------------------
(* What a handler does with an answer *)

Goto(r, command) == pc' = [pc EXCEPT ![r] = command] /\ UNCHANGED reply
Return(r, what) == pc' = [pc EXCEPT ![r] = "done"] /\ reply' = [reply EXCEPT ![r] = what]

\* Mutant: a BEGIN that fails is rolled back too.
InTransactional_All(r) == Tool[r] = "upsert"

\* transactional: its BEGIN is awaited outside the try.
InTransactional(r) == Tool[r] = "upsert" /\ pc[r] # "BEGIN"

\* Mutant: an error is answered without ROLLBACK.
Throw_NoRollback(r, why) == Return(r, why)

\* An error after BEGIN is answered once ROLLBACK was tried.
Throw(r, why) ==
    IF InTransactional(r) /\ pc[r] # "ROLLBACK"
    THEN pc' = [pc EXCEPT ![r] = "ROLLBACK"] /\ reply' = [reply EXCEPT ![r] = why]
    ELSE Return(r, IF pc[r] = "ROLLBACK" THEN reply[r] ELSE why)

\* The timer of a call fires; the refusal of its own output for its size is
\* like it.  Timers fire, as answers come, in the order of the calls: no call
\* behind an unread one times out.
TimesOut(r) ==
    /\ unread = {} /\ Cardinality(lost) < MaxTimeouts
    /\ lost' = lost \cup {<<r, pc[r]>>}
    /\ Throw(r, "timeout")
    /\ UNCHANGED unread

\* The engine has run the command and ends before its output is read: the
\* handler waits for the exit event.
Unread(r) ==
    /\ Cardinality(unread) < MaxUnread
    /\ unread' = unread \cup {<<r, pc[r]>>}
    /\ UNCHANGED <<pc, reply, lost>>

\* Outputs are read in their order, so none is after an unread one.
Read(next) == unread = {} /\ next /\ UNCHANGED <<lost, unread>>

Answered(r, next) ==
    /\ written' = written \ {r}
    /\ TimesOut(r) \/ Unread(r) \/ Read(next)

\* verifyKey, with a row that is there.
Collides(r, row) == Key[r] # NoKey /\ row.key # Key[r]

-----------------------------------------------------------------------------
(* The commands, as they act on the engine, and what each handler does next *)

\* The request's next command reaches the engine.
At(r, command) ==
    /\ running /\ pc[r] = command /\ <<r, command>> \notin unread
    /\ closed => r \in written
Here(r) == rows[Id[r]]
Mine(r) == [key |-> Key[r], by |-> r]

\* Mutant: a tool whose BEGIN is refused tries again.
BeginAnswer_Retry(r) == IF in_txn THEN UNCHANGED <<pc, reply>> ELSE Goto(r, "INSERT")

\* Only one transaction is open at a time.
BeginAnswer(r) == IF in_txn THEN Throw(r, "engineError") ELSE Goto(r, "INSERT")

Begin(r) ==
    /\ At(r, "BEGIN")
    /\ in_txn' = TRUE
    /\ saved' = IF in_txn THEN saved ELSE rows
    /\ Answered(r, BeginAnswer(r))
    /\ UNCHANGED <<rows, page, session>>

\* A row that exists is left alone.
Insert(r) ==
    /\ At(r, "INSERT")
    /\ rows' = IF Here(r) = NoRow THEN [rows EXCEPT ![Id[r]] = Mine(r)] ELSE rows
    /\ Answered(r,
         CASE Here(r) = NoRow /\ Tool[r] = "upsert" -> Goto(r, "COMMIT")
           [] Here(r) = NoRow /\ Tool[r] = "insert" -> Return(r, "inserted")
           [] Here(r) # NoRow /\ Key[r] # NoKey     -> Goto(r, "SELECT")
           [] Here(r) # NoRow /\ Key[r] = NoKey /\ Tool[r] = "upsert" -> Goto(r, "UPDATE")
           [] OTHER                                 -> Return(r, "alreadyExists"))
    /\ UNCHANGED <<in_txn, saved, page, session>>

\* selectRow and verifyKey: a missing row and another key's row mean something
\* different to each tool.
Select(r) ==
    /\ At(r, "SELECT")
    /\ LET missing == Here(r) = NoRow
           collides == Collides(r, Here(r))
           go == CASE Tool[r] = "get" -> Return(r, "found")
                   [] Tool[r] = "insert" -> Return(r, "alreadyExists")
                   [] Tool[r] = "delete" -> Goto(r, "DELETE")
                   [] OTHER -> Goto(r, "UPDATE")
       IN  Answered(r,
             CASE missing /\ Tool[r] = "insert"  -> Return(r, "alreadyExists")
               [] missing /\ Tool[r] = "upsert"  -> Throw(r, "keyCollision")
               [] missing /\ Tool[r] \in {"get", "update", "delete"} -> Return(r, "notFound")
               [] ~missing /\ collides           -> Throw(r, "keyCollision")
               [] OTHER                          -> go)
    /\ UNCHANGED <<engine, session>>

Update(r) ==
    /\ At(r, "UPDATE")
    /\ rows' = IF Here(r) = NoRow THEN rows ELSE [rows EXCEPT ![Id[r]] = Mine(r)]
    /\ Answered(r, IF Here(r) = NoRow THEN Throw(r, "notFound")
                   ELSE IF Tool[r] = "upsert" THEN Goto(r, "COMMIT")
                   ELSE Return(r, "updated"))
    /\ UNCHANGED <<in_txn, saved, page, session>>

Delete(r) ==
    /\ At(r, "DELETE")
    /\ rows' = [rows EXCEPT ![Id[r]] = NoRow]
    /\ Answered(r, Return(r, IF Here(r) = NoRow THEN "notFound" ELSE "deleted"))
    /\ UNCHANGED <<in_txn, saved, page, session>>

\* COMMIT outside a transaction is an error.
Commit(r) ==
    /\ At(r, "COMMIT")
    /\ in_txn' = FALSE
    /\ Answered(r, IF in_txn THEN Return(r, "upserted") ELSE Throw(r, "engineError"))
    /\ UNCHANGED <<rows, saved, page, session>>

\* Its own outcome is ignored: the first error is answered.
Rollback(r) ==
    /\ At(r, "ROLLBACK")
    /\ in_txn' = FALSE
    /\ rows' = IF in_txn THEN saved ELSE rows
    /\ Answered(r, Return(r, reply[r]))
    /\ UNCHANGED <<saved, page, session>>

\* db_list and db_find: PAGE, then the listing.
SetPage(r) ==
    /\ At(r, "PAGE")
    /\ page' = Limit[r]
    /\ Answered(r, Goto(r, "LISTING"))
    /\ UNCHANGED <<rows, in_txn, saved, session>>

\* The engine lists at most `page` rows; hasMore is shown = limit.
Listing(r) ==
    /\ At(r, "LISTING")
    /\ LET live == Cardinality({i \in Ids : rows[i] # NoRow})
           shown == IF live < page THEN live ELSE page
       IN  Answered(r, Return(r, CASE shown < Limit[r] -> "all"
                                   [] shown = Limit[r] -> "more"
                                   [] OTHER            -> "over"))
    /\ UNCHANGED <<engine, session>>

Count(r) ==
    /\ At(r, "COUNT")
    /\ Answered(r, Return(r, "counted"))
    /\ UNCHANGED <<engine, session>>

\* close(), when the client disconnects: EXIT is written behind the lines of
\* the calls that wait.  A handler that has begun always waits for one.
Close ==
    /\ running /\ ~closed
    /\ closed' = TRUE
    /\ \E calls \in SUBSET {r \in Requests : pc[r] # "done"} :
         /\ \A r \in Requests \ calls : pc[r] \in {First(r), "done"}
         /\ written' = calls
    /\ UNCHANGED <<engine, running, pc, reply, lost, unread>>

\* A closed session rejects a new call at once, ROLLBACK after an error
\* included.
Refused(r) ==
    /\ running /\ closed /\ r \notin written
    /\ pc[r] # "done" /\ <<r, pc[r]>> \notin unread
    /\ Throw(r, "failed")
    /\ UNCHANGED <<engine, session, written, lost, unread>>

\* The engine ends, by EXIT, killed by close(), or on its own: an open
\* transaction is undone.  Every call still awaited is rejected (_failAll),
\* and so is whatever its handler calls next.
EngineEnd ==
    /\ running
    /\ running' = FALSE /\ closed' = TRUE /\ written' = {}
    /\ in_txn' = FALSE
    /\ rows' = IF in_txn THEN saved ELSE rows
    /\ pc' = [r \in Requests |-> "done"]
    /\ reply' = [r \in Requests |-> IF reply[r] = "none" THEN "failed" ELSE reply[r]]
    /\ UNCHANGED <<saved, page, lost, unread>>

-----------------------------------------------------------------------------
Step(r) ==
    \/ Begin(r) \/ Insert(r) \/ Select(r) \/ Update(r) \/ Delete(r)
    \/ Commit(r) \/ Rollback(r)
    \/ SetPage(r) \/ Listing(r) \/ Count(r)

Next == Close \/ EngineEnd \/ \E r \in Requests : Step(r) \/ Refused(r)

Spec == Init /\ [][Next]_vars

\* The engine is being told to end, or has run what it runs last.
Ending == closed \/ unread # {}

\* Every call of the session ends (McpProps!EveryCallEnds), so a handler
\* always goes on, and none has to lose an answer for it; close() kills an
\* engine that has not ended in time.
GoesOn(r) == Step(r) /\ UNCHANGED <<lost, unread>>
FairSpec ==
    /\ Spec
    /\ \A r \in Requests : WF_vars(GoesOn(r)) /\ WF_vars(Refused(r))
    /\ WF_vars(Ending /\ EngineEnd)
=============================================================================
