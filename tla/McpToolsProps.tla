--------------------------- MODULE McpToolsProps ----------------------------
(***************************************************************************)
(* What is checked of the MCP tools.                                       *)
(***************************************************************************)
EXTENDS McpTools

Replies == {"inserted", "upserted", "updated", "deleted", "found", "all", "more", "over",
            "counted", "engineError", "alreadyExists", "keyCollision", "notFound",
            "timeout", "failed"}

\* Type: each variable has its type, and only a request that is rolling back
\* has its reply before it is done.
ToolsTypeOK ==
    /\ rows \in [Ids -> Rows] /\ saved \in [Ids -> Rows]
    /\ in_txn \in BOOLEAN /\ running \in BOOLEAN /\ closed \in BOOLEAN /\ page \in Nat
    /\ written \subseteq Requests
    /\ reply \in [Requests -> Replies \cup {"none"}]
    /\ \A r \in Requests : reply[r] # "none" <=> pc[r] \in {"done", "ROLLBACK"}

\* The handler is between its BEGIN and its COMMIT or ROLLBACK.
InsideTransaction(r) == InTransactional(r) /\ pc[r] # "done"

LostCommand(command) == \E r \in Requests : <<r, command>> \in lost

\* An open transaction has an upsert that is going to end it, so what other
\* tools write meanwhile does not stay uncommitted for ever - unless a BEGIN
\* timed out: it is executed late and nobody ends it (server.js:192-206,
\* where BEGIN is awaited outside the try).  When the session closes, the end
\* of the engine undoes what is open.
TransactionOwned ==
    in_txn => \/ \E r \in Requests : InsideTransaction(r)
              \/ LostCommand("BEGIN")
              \/ Ending

\* The table as it will be if the session is closing, as it is otherwise.
Stays == IF closed /\ in_txn THEN saved ELSE rows

\* The engine ran its COMMIT and ended before the server read the output.
CommitUnread(r) == <<r, "COMMIT">> \in unread

\* "atomic create-or-update" (server.js:239): an upsert that reports an error
\* leaves nothing in the table, even when other tools ran between its
\* commands and whenever the session is closed or the engine ends.  There are
\* two exceptions.  A COMMIT that timed out may have happened, and the
\* ROLLBACK sent after it may hit the next upsert's transaction.  A COMMIT the
\* engine ran just before its end is reported as an error, its row stored
\* (asmdb.js:49-53).
FailedUpsertLeavesNothing ==
    ~LostCommand("COMMIT") =>
      \A r \in Requests :
        Tool[r] = "upsert" /\ pc[r] = "done" /\ reply[r] # "upserted" /\ ~CommitUnread(r)
          => \A i \in Ids : Stays[i].by # r

\* The same without the second exception: what "atomic create-or-update"
\* (server.js:239) leads a caller who is told of an error to expect.
UpsertErrorMeansNothing ==
    ~LostCommand("COMMIT") =>
      \A r \in Requests :
        Tool[r] = "upsert" /\ pc[r] = "done" /\ reply[r] # "upserted"
          => \A i \in Ids : Stays[i].by # r

\* The ROLLBACK of an upsert undoes that upsert and nothing else: the rows
\* other tools were told are stored stay ("atomic create-or-update",
\* server.js:239, of a tool whose handlers run concurrently).
RollbackUndoesOnlyItsOwn ==
    [][\A r \in Requests : pc[r] = "ROLLBACK" /\ Rollback(r) =>
         \A i \in Ids : rows'[i] # rows[i] => rows[i].by = r]_vars

\* Until a COMMIT is lost two upserts never run inside one another's
\* transaction: between BEGIN and COMMIT an upsert is the only one past BEGIN
\* (server.js:193: the second BEGIN is refused and ends its tool).
OneUpsertAtATime ==
    ~LostCommand("COMMIT") =>
      \A q, r \in Requests : InsideTransaction(q) /\ InsideTransaction(r) => q = r

\* Every tool call is answered, rollback or not (server.js:192-217); an
\* answered call stays so.
EveryRequestReplies == <>(\A r \in Requests : pc[r] = "done")
=============================================================================
