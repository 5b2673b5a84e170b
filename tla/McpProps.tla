------------------------------ MODULE McpProps ------------------------------
(***************************************************************************)
(* What is checked of the session between the MCP server and the engine.   *)
(***************************************************************************)
EXTENDS McpSession

\* Some output has been refused for its size.
Refused == \E c \in Calls : fate[c] = "toolarge"

\* Nothing has been refused, and the pipe to the engine has not broken.
Sound == ~Refused /\ ~broken

\* A call has returned: its promise is settled and command() is past its wait
\* for drain.
Returned(c) == fate[c] \notin {"none", "waiting"} /\ c \notin draining

\* Every answer is the output of the call it answers, whatever timed out
\* before and however the stream was cut, until an output has been refused
\* for its size or the pipe has broken (asmdb.js:143, _onData's accounting).
OwnAnswer ==
    Sound => \A c \in Calls : fate[c] = "answered" => answer[c] = c

\* The same without the exception: "Send one command line, resolving with the
\* text printed before the next prompt" (asmdb.js:143), under a "per-command
\* output cap" (mcp/README.md:131).
OwnAnswerAlways ==
    \A c \in Calls : fate[c] = "answered" /\ Returned(c) => answer[c] = c

\* The frames still to come are those of the abandoned calls, then those of
\* the queue, in order: a waiting call is never skipped (asmdb.js:106-141),
\* until the pipe breaks and the entries of its calls go without their frames.
InStep ==
    Sound => \A i \in 1..Len(queue) : queue[i] = consumed + discardFrames + i - 1

\* Every call returns, even if the engine never prints anything again.  The
\* exceptions: a server that died of what nobody handled, and a call
\* made between the error of the pipe and the exit of the engine.
EveryCallEnds ==
    \A c \in Calls :
        fate[c] = "waiting" ~> (Returned(c) \/ crashed \/ (broken /\ c \in draining))

\* close() ends the engine and is answered (asmdb.js:183-208).
CloseEnds == closed ~> (ended \/ crashed)

\* How a call has ended, as its caller may tell.
Outcome ==
    [c \in Calls |->
       CASE fate[c] \in {"none", "waiting"} -> fate[c]
         [] fate[c] = "answered" -> IF answer[c] = c THEN "answered" ELSE "misanswered"
         [] OTHER -> "failed"]

\* The session keeps its promise to the tools (McpCalls).
Promise == INSTANCE McpCalls WITH
    asked <- issued, ran <- executed, trusted <- Sound, outcome <- Outcome
KeepsPromise == Promise!CallSpec
=============================================================================
