---------------------------- MODULE ConsoleProps ----------------------------
(***************************************************************************)
(* What is checked of the console.                                         *)
(***************************************************************************)
EXTENDS Console

Tokens == Token \cup {NoToken}
Requests == [kind : Kinds \cup {"nopreview"}, db : Dbs \cup {None}, owner : Dbs \cup {None},
             latest : BOOLEAN, seen : SUBSET Dbs, left : Nat]
Pages == [listed : SUBSET Dbs, current : Dbs \cup {None}, tokens : [Dbs -> Tokens],
          field : Tokens, view : Views, preview : Dbs \cup {None},
          rotated : Dbs \cup {None}, terminal : Dbs \cup {None}, busy : BOOLEAN,
          sent : SUBSET Requests]

\* Type: the fields of the page and the requests in flight have their types,
\* and so has what the control plane keeps.
ConsoleTypeOK ==
    /\ page \in Pages /\ inflight \in SUBSET Requests /\ signedOut \in BOOLEAN
    /\ exists \in SUBSET Dbs /\ accepted \in [Dbs -> 1..MaxTokens]
    /\ pending \in [Dbs -> 0..MaxTokens] /\ issued \in [Dbs -> 1..MaxTokens]

\* A token is only ever kept for, shown in the field of, or sent to the
\* database it was issued for, although answers select, rotate, delete and
\* refresh while the user types (console.js:942-945: "a credential pasted
\* against the wrong selection looks identical to the right one").
TokensOwn ==
    /\ \A d \in Dbs : page.tokens[d] # NoToken => page.tokens[d].db = d
    /\ page.field # NoToken => page.field.db = page.current
    /\ \A r \in inflight : r.owner \in {r.db, None}

\* The rows in the preview are those of the selected database, whatever
\* order the answers came in (console.js:1047-1078, 869-878).
PreviewOwn == page.preview # None => page.preview = page.current

\* A rotated token is on the screen only in Access, and never while another
\* database is selected (console.js:133-141, 866-871, 1389-1404).
RotatedTokenOwn ==
    page.rotated # None => page.view = "access" /\ page.current \in {page.rotated, None}

\* "A poll that lands mid-command must not flip running back to ready, nor
\* re-enable controls" (console.js:1212-1216): it leaves the state and the
\* database of the terminal, the preview, a rotated token on the screen and
\* the selection.  The token field is not among them: a refresh puts the token
\* it remembers there (console.js:837-840).
PollLeavesPanels ==
    [][(\E r \in inflight : ListAnswer(r)) =>
         /\ page'.busy = page.busy /\ page'.terminal = page.terminal
         /\ page'.preview = page.preview
         /\ page'.rotated = page.rotated /\ page'.current = page.current]_vars

\* The token the console keeps after a rotation is the one the instance
\* accepts: "Rotation issues a new token, invalidates the old one
\* immediately" (site/index.html:687, console.js:1447).
RotatedTokenWorks ==
    \A d \in exists : page.rotated = d => page.tokens[d].gen = accepted[d]
=============================================================================
