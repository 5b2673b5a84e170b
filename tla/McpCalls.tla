------------------------------ MODULE McpCalls ------------------------------
(***************************************************************************)
(* What the tools of the MCP server rely on when they call                 *)
(* AsmdbSession.command: lines reach the engine in the order they were     *)
(* issued, each at most once; a call ends once, with its own output or     *)
(* with an error; and a line whose call failed may still be executed.      *)
(* The promise holds until one command's output has been refused for its   *)
(* size or the pipe has broken: from then on nothing is promised about     *)
(* which output is returned.                                               *)
(***************************************************************************)
EXTENDS Integers

CONSTANT MaxCommands    \* commands issued after the startup banner (bound)

Calls == 0..MaxCommands

VARIABLES asked,      \* calls made so far; the banner counts as the first
          ran,        \* lines the engine has executed
          outcome,    \* per call: none, waiting, answered or failed
          trusted     \* nothing has been refused for its size, no pipe has broken
callVars == <<asked, ran, outcome, trusted>>

CallInit ==
    /\ asked = 1 /\ ran = 0 /\ trusted = TRUE
    /\ outcome = [c \in Calls |-> IF c = 0 THEN "waiting" ELSE "none"]

\* A call is made, and is refused at once by a closed session.
Ask ==
    /\ asked <= MaxCommands
    /\ asked' = asked + 1
    /\ \E o \in {"waiting", "failed"} : outcome' = [outcome EXCEPT ![asked] = o]
    /\ UNCHANGED <<ran, trusted>>

\* The engine executes the next line, whether or not its caller still waits.
Run ==
    /\ ran < asked
    /\ ran' = ran + 1
    /\ UNCHANGED <<asked, outcome, trusted>>

\* Some waiting calls end: with an answer only if the line was executed.
Ends ==
    /\ outcome' \in [Calls -> {"none", "waiting", "answered", "failed"}]
    /\ \A c \in Calls : outcome'[c] # outcome[c] =>
           /\ outcome[c] = "waiting"
           /\ outcome'[c] = "answered" => c < ran
    /\ UNCHANGED <<asked, ran>>
End == Ends /\ UNCHANGED trusted

\* An output was refused for its size, or the pipe to the engine broke.
Distrust == Ends /\ trusted' = FALSE

\* Afterwards a waiting call may be given any output.
Untrusted ==
    /\ ~trusted
    /\ outcome' \in [Calls -> {"none", "waiting", "answered", "misanswered", "failed"}]
    /\ \A c \in Calls : outcome'[c] # outcome[c] => outcome[c] = "waiting"
    /\ UNCHANGED <<asked, ran, trusted>>

CallNext == Ask \/ Run \/ End \/ Distrust \/ Untrusted
CallSpec == CallInit /\ [][CallNext]_callVars
=============================================================================
