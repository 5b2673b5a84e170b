------------------------------ MODULE Console -------------------------------
(***************************************************************************)
(* The signed-in console (site/js/console.js): one selected database, the  *)
(* panels that show something of it, the instance tokens it holds, and the *)
(* requests it has in flight.  Every handler runs to its end before the    *)
(* next one; what interleaves is the user, and answers that arrive in any  *)
(* order while he goes on.  The state of the page is one record, so that a *)
(* handler is a function from page to page and calls nest as in the code.  *)
(*                                                                         *)
(* The monitor of the selected database and the statistics are in          *)
(* ConsolePolling; the reveal of a token for ten seconds and the costs are *)
(* left out.                                                               *)
(*                                                                         *)
(* The control plane is the part of it the console talks to                *)
(* (saas/controlplane/api.go): which databases exist, the token each       *)
(* instance accepts, and the rotation prepared but not committed.          *)
(***************************************************************************)
EXTENDS Naturals, FiniteSets

CONSTANTS
  Dbs,           \* the databases of a behaviour
  Existing,      \* those that exist when the console opens
  None,          \* no database
  SampleSize,    \* the commands of sampleCommands
  MaxInFlight,   \* bound of the model: requests in flight
  MaxTokens      \* bound of the model: tokens issued for one database

ASSUME ConsoleAssumption ==
    /\ None \notin Dbs /\ Existing \subseteq Dbs
    /\ SampleSize \in Nat \ {0} /\ MaxInFlight \in Nat /\ MaxTokens \in Nat \ {0}

Views == {"create", "access", "database", "cli"}
Token == [db : Dbs, gen : 1..MaxTokens]
NoToken == [db |-> None, gen |-> 0]
Kinds == {"list", "preview", "command", "bench", "sample", "create", "rotate",
          "upgrade", "delete"}

VARIABLES
  page,          \* the page, see PageInit
  inflight,      \* requests sent and not yet answered
  signedOut,     \* signOut has been called; the browser is leaving the page
  exists, accepted, pending, issued    \* the control plane
server == <<exists, accepted, pending, issued>>
vars == <<page, inflight, signedOut, server>>

PageInit == [
  listed   |-> {},                         \* databases
  current  |-> None,                       \* currentDb
  tokens   |-> [d \in Dbs |-> NoToken],    \* tokenById and sessionStorage
  field    |-> NoToken,                    \* termToken.value
  view     |-> "create",                   \* activeView
  preview  |-> None,                       \* whose rows previewRows shows
  rotated  |-> None,                       \* whose new token rotatedTokenOutput shows
  terminal |-> None,                       \* terminalDbId
  busy     |-> TRUE,                       \* termCommand.disabled
  sent     |-> {} ]                        \* requests the handler sends

Init ==
    /\ page = PageInit /\ inflight = {} /\ signedOut = FALSE
    /\ exists = Existing
    /\ accepted = [d \in Dbs |-> 1] /\ issued = accepted
    /\ pending = [d \in Dbs |-> 0]

-----------------------------------------------------------------------------
(* Requests: latest tells whether no later preview was asked for; seen is  *)
(* what a list read; left counts the commands of a sample still to send    *)

Request(kind, d, t) ==
    [kind |-> kind, db |-> d, owner |-> t.db, latest |-> TRUE, seen |-> {}, left |-> 0]
Send(s, r) == [s EXCEPT !.sent = @ \cup {r}]

\* What is left in flight when the handler of a page s ends: a new preview
\* makes the ones before it stale (previewRequestId).
InFlightAfter(rs, s) ==
    {IF r.kind = "preview" /\ (\E q \in s.sent : q.kind \in {"preview", "nopreview"})
     THEN [r EXCEPT !.latest = FALSE] ELSE r : r \in rs}
      \cup {q \in s.sent : q.kind # "nopreview"}

-----------------------------------------------------------------------------
(* The functions of the page *)

Remember(s, d, t) == IF d = None \/ t = NoToken THEN s ELSE [s EXCEPT !.tokens[d] = t]
Forget(s, d) == [s EXCEPT !.tokens[d] = NoToken]
HeldToken(s) == IF s.current = None THEN NoToken ELSE s.tokens[s.current]

LoadPreview(s) ==
    LET blank == [s EXCEPT !.preview = None]
    IN  IF HeldToken(s) = NoToken
        THEN Send(blank, Request("nopreview", None, NoToken))
        ELSE Send(blank, Request("preview", s.current, HeldToken(s)))

\* Without a database, or for another one, the transcript starts again.
\* Selecting a database always takes the controls back.
ShowTerminal(s) ==
    [s EXCEPT !.terminal = s.current, !.busy = s.current = None,
              !.field = IF s.current = None THEN @ ELSE HeldToken(s)]

\* Leaving access takes its tokens off the screen.
ApplyRoute(s, view) ==
    LET off == [s EXCEPT !.rotated = IF s.view = "access" /\ view # "access" THEN None ELSE @,
                         !.view = view]
    IN  CASE view = "database" /\ s.current # None -> LoadPreview(off)
          [] view = "database" /\ s.current = None -> [off EXCEPT !.preview = None]
          [] view = "cli" -> ShowTerminal(off)
          [] OTHER -> off

\* Mutant: what is being typed into the field of the token is kept.
FieldFor_Typed(s, d) == IF s.field = NoToken THEN s.tokens[d] ELSE s.field

\* The field shows the token held for the database selected.
FieldFor(s, d) == s.tokens[d]

\* Mutant: each selection shows the terminal again.
SelectDatabase_Terminal(s, d, refresh) ==
    ShowTerminal([s EXCEPT !.current = d, !.field = FieldFor(s, d)])

\* A change of database clears what belongs to the other one; a refresh of
\* the list or an upgrade leaves the preview and the terminal alone.
SelectDatabase(s, d, refresh) ==
    LET moved == s.current # d
        clear == IF moved THEN [s EXCEPT !.rotated = None, !.preview = None] ELSE s
        at == [clear EXCEPT !.current = d, !.field = FieldFor(s, d)]
        shown == ShowTerminal(at)
    IN  IF refresh \/ ~moved THEN at
        ELSE IF s.view = "database" THEN LoadPreview(shown) ELSE shown

LoadDatabases(s) ==
    IF \E r \in inflight : r.kind = "list" THEN s
    ELSE Send(s, [Request("list", None, NoToken) EXCEPT !.seen = exists])

\* requireInstanceToken, or the way to the Access view.
Exec(s, kind) ==
    IF HeldToken(s) = NoToken THEN ApplyRoute(s, "access")
    ELSE Send(s, [Request(kind, s.current, HeldToken(s)) EXCEPT
                    !.left = IF kind = "sample" THEN SampleSize ELSE 0])

RenderCreated(s, d, t) ==
    LET kept == Remember(s, d, t)
    IN  SelectDatabase([kept EXCEPT !.listed = @ \cup {d}], d, FALSE)

\* Mutant: the new token is shown wherever the user has gone.
RenderRotatedToken_Anywhere(s, d, t) == [Remember(s, d, t) EXCEPT !.rotated = d]

RenderRotatedToken(s, d, t) ==
    LET kept == Remember(s, d, t)
    IN  IF s.current = d /\ s.view = "access" THEN [kept EXCEPT !.rotated = d] ELSE kept

\* No answer came: the old token may be dead and the new one is unknown.
RenderRotationTimeout(s, d) ==
    LET lost == Forget(s, d)
    IN  IF s.current # d THEN lost
        ELSE [lost EXCEPT !.field = NoToken,
                          !.rotated = IF s.view = "access" THEN None ELSE @]

\* Whatever is selected when the answer arrives is taken for the deleted one.
RenderDeleted(s) ==
    LET d == s.current
        gone == [Forget(s, d) EXCEPT !.listed = @ \ {d}, !.current = None,
                   !.field = NoToken, !.preview = None]
    IN  IF d = None THEN [s EXCEPT !.preview = None]
        ELSE ApplyRoute(ShowTerminal(gone), "access")

-----------------------------------------------------------------------------
(* What the user does *)

\* The handler leaves page s; its requests join those of rs.
Become(s, rs) ==
    /\ page' = [s EXCEPT !.sent = {}]
    /\ inflight' = InFlightAfter(rs, s)
    /\ Cardinality(inflight') <= MaxInFlight

User(s) == ~signedOut /\ Become(s, inflight) /\ UNCHANGED <<signedOut, server>>
Sending(kind) == \E r \in inflight : r.kind = kind

Route == \E v \in Views : v # page.view /\ User(ApplyRoute(page, v))
Choose == \E d \in page.listed : User(SelectDatabase(page, d, FALSE))

\* A token of the selected database is pasted into the field ...
PasteToken ==
    /\ page.current # None
    /\ \E g \in 1..issued[page.current] :
         User([page EXCEPT !.field = [db |-> page.current, gen |-> g]])
\* ... and what the field holds is kept when it loses focus or is saved.
SaveToken ==
    /\ page.current # None /\ page.field # NoToken
    /\ LET s == Remember(page, page.current, page.field)
       IN  User(IF s.view = "database" THEN LoadPreview(s) ELSE s)

RunTerminalCommand ==
    /\ page.view = "cli" /\ page.current # None /\ ~page.busy
    /\ User(LET s == Exec(page, "command")
            IN  IF s.sent = {} THEN s ELSE [s EXCEPT !.busy = TRUE])
RunBench ==
    /\ page.view = "cli" /\ page.current # None /\ ~Sending("bench")
    /\ User(LET s == Exec(page, "bench")
            IN  IF s.sent = {} THEN s ELSE [s EXCEPT !.busy = TRUE])
LoadSampleData ==
    /\ page.view = "database" /\ page.current # None
    /\ User([Exec(page, "sample") EXCEPT !.preview = None])

Create ==
    /\ page.view = "create" /\ ~Sending("create")
    /\ \E d \in Dbs \ exists :
         User(Send(page, Request("create", d, NoToken)))
RotateCurrentToken ==
    /\ page.view = "access" /\ page.current # None /\ ~Sending("rotate")
    /\ User(Send([page EXCEPT !.rotated = None], Request("rotate", page.current, NoToken)))
\* The buttons of these two are disabled while their request is in flight, but
\* any list or selection meanwhile enables them again (updateSelectedChrome).
UpgradeCurrentDatabase ==
    /\ page.view = "access" /\ page.current # None
    /\ User(Send(page, Request("upgrade", page.current, NoToken)))
DeleteCurrentDatabase ==
    /\ page.view = "database" /\ page.current # None
    /\ User(Send(page, Request("delete", page.current, NoToken)))

\* A poll, the refresh button, or the page becoming visible.
Load == ~Sending("list") /\ User(LoadDatabases(page))

\* Every token kept for the session is removed before the redirect.
SignOut ==
    /\ ~signedOut /\ signedOut' = TRUE
    /\ page' = [page EXCEPT !.tokens = [d \in Dbs |-> NoToken], !.field = NoToken]
    /\ UNCHANGED <<inflight, server>>

-----------------------------------------------------------------------------
(* Answers.  The control plane acts when it answers. *)

\* The handler of request r leaves page s.
Answer(r, s) == r \in inflight /\ Become(s, inflight \ {r}) /\ UNCHANGED signedOut
Current(r) == page.current = r.db

ListAnswer(r) ==
    /\ r.kind = "list"
    /\ LET s == [page EXCEPT !.listed = r.seen]
       IN  Answer(r, IF s.current \in r.seen THEN SelectDatabase(s, s.current, TRUE) ELSE s)
    /\ UNCHANGED server

\* Mutant: only a later request makes a preview stale.
PreviewWanted_Latest(r) == r.latest

\* isCurrentPreviewRequest
PreviewWanted(r) == r.latest /\ Current(r)

PreviewAnswer(r) ==
    /\ r.kind = "preview"
    /\ Answer(r, IF PreviewWanted(r) THEN [page EXCEPT !.preview = r.db] ELSE page)
    /\ UNCHANGED server

\* runTerminalCommand and runBench: the controls come back, whichever
\* database is selected by now; a command that changes rows refreshes.
ExecAnswer(r) ==
    /\ r.kind \in {"command", "bench"}
    /\ \E changed \in BOOLEAN :
         LET s == IF changed THEN LoadPreview(page) ELSE page
         IN  Answer(r, [s EXCEPT !.busy = FALSE])
    /\ UNCHANGED server

\* runCommandsInOrder: the next command goes to the same database.
SampleAnswer(r) ==
    /\ r.kind = "sample"
    /\ Answer(r, IF r.left > 1 THEN Send(page, [r EXCEPT !.left = @ - 1])
                 ELSE LoadPreview(page))
    /\ UNCHANGED server

CreateAnswer(r) ==
    /\ r.kind = "create" /\ r.db \notin exists
    /\ Answer(r, RenderCreated(page, r.db, [db |-> r.db, gen |-> 1]))
    /\ exists' = exists \cup {r.db}
    /\ accepted' = [accepted EXCEPT ![r.db] = 1]
    /\ pending' = [pending EXCEPT ![r.db] = 0]
    /\ issued' = [issued EXCEPT ![r.db] = 1]

\* handleRotateToken prepares a token, or returns the one prepared before;
\* handleRotateTokenCommit, which applies it, is never called.
PrepareRotation(d) ==
    /\ d \in exists /\ (pending[d] # 0 \/ issued[d] < MaxTokens)
    /\ pending' = [pending EXCEPT ![d] = IF @ = 0 THEN issued[d] + 1 ELSE @]
    /\ issued' = [issued EXCEPT ![d] = IF pending[d] = 0 THEN @ + 1 ELSE @]
    /\ UNCHANGED <<exists, accepted>>

RotateAnswer(r) ==
    /\ r.kind = "rotate"
    /\ PrepareRotation(r.db)
    /\ Answer(r, RenderRotatedToken(page, r.db, [db |-> r.db, gen |-> pending'[r.db]]))

\* Nothing is heard for 30 seconds; the control plane may have prepared it.
RotateTimeout(r) ==
    /\ r.kind = "rotate"
    /\ Answer(r, RenderRotationTimeout(page, r.db))
    /\ PrepareRotation(r.db) \/ UNCHANGED server

\* The answer selects the upgraded database, even if the user has moved on.
UpgradeAnswer(r) ==
    /\ r.kind = "upgrade" /\ r.db \in exists
    /\ Answer(r, LoadDatabases(SelectDatabase(page, r.db, TRUE)))
    /\ UNCHANGED server

DeleteAnswer(r) ==
    /\ r.kind = "delete"
    /\ Answer(r, RenderDeleted(page))
    /\ exists' = exists \ {r.db}
    /\ UNCHANGED <<accepted, pending, issued>>

\* An error, or no answer in time, other than for a rotation.
Failed(r) ==
    /\ Answer(r, CASE r.kind = "preview" /\ PreviewWanted(r) -> [page EXCEPT !.preview = None]
                   [] r.kind \in {"sample", "delete"} -> [page EXCEPT !.preview = None]
                   [] r.kind \in {"command", "bench"} -> [page EXCEPT !.busy = FALSE]
                   [] OTHER -> page)
    /\ UNCHANGED server

-----------------------------------------------------------------------------
Next ==
    \/ Route \/ Choose \/ PasteToken \/ SaveToken
    \/ RunTerminalCommand \/ RunBench \/ LoadSampleData
    \/ Create \/ RotateCurrentToken \/ UpgradeCurrentDatabase \/ DeleteCurrentDatabase
    \/ Load \/ SignOut
    \/ \E r \in inflight :
         \/ ListAnswer(r) \/ PreviewAnswer(r) \/ ExecAnswer(r)
         \/ SampleAnswer(r) \/ CreateAnswer(r) \/ RotateAnswer(r) \/ RotateTimeout(r)
         \/ UpgradeAnswer(r) \/ DeleteAnswer(r) \/ Failed(r)

Spec == Init /\ [][Next]_vars
=============================================================================
