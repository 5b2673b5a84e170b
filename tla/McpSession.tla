----------------------------- MODULE McpSession -----------------------------
(***************************************************************************)
(* AsmdbSession (mcp/src/asmdb.js): the one object through which every     *)
(* tool call of the MCP server talks to the engine process.  Lines go into *)
(* the engine's stdin; what it prints comes back as one stream cut into    *)
(* chunks anywhere, in which a prompt ends the output of each line.  Calls *)
(* are numbered in the order they are made; call 0 is the wait for the     *)
(* banner and the first prompt.                                            *)
(*                                                                         *)
(* Text is counted in units.  A position in the stream is a number of      *)
(* prompts and the units of text after the last of them; the buffer is the *)
(* part of the stream from `from` to the position that has arrived.        *)
(***************************************************************************)
EXTENDS Integers, Sequences, SequencesExt, FiniteSetsExt

CONSTANTS
  MaxCommands,   \* calls made after the banner (bound of the model)
  Size,          \* units of text the engine prints for each call
  Cap,           \* maxOutputBytes
  PipeCap        \* lines that fit between the server and the engine

Calls == 0..MaxCommands
ASSUME SizeAssumption == MaxCommands \in Nat /\ Size \in [Calls -> Nat]
ASSUME CapAssumption == Cap \in Nat \ {0} /\ PipeCap \in Nat

VARIABLES
  issued,        \* calls made so far
  executed,      \* lines the engine has executed and answered
  alive,         \* the engine process runs
  ended,         \* its exit event has been handled
  arrived, pos,  \* how much of its output has arrived
  from,          \* where the buffer starts, in units
  consumed,      \* prompts taken out of the buffer
  queue,         \* this.queue
  discardFrames, \* this.discardFrames
  closed,        \* this.closed
  draining,      \* calls waiting for the drain event
  broken,        \* the pipe to the engine has reported its error
  fate,          \* how each call ended
  answer,        \* whose output it was given
  crashed        \* the server died of a rejection or an error nobody handled

engineVars == <<executed, alive>>
bufVars == <<arrived, pos, from, consumed>>
pipeVars == <<draining, broken>>
vars == <<issued, engineVars, ended, bufVars, queue, discardFrames, closed, pipeVars,
          fate, answer, crashed>>

Fates == {"none", "waiting", "answered", "timeout", "toolarge", "exited", "closed", "write"}
None == -1

\* The units of text printed before the n-th prompt is reached.
Start[n \in Nat] == IF n = 0 THEN 0 ELSE Start[n - 1] + Size[n - 1]
\* Where the buffer starts once it is cut after the n-th prompt.
AfterPrompt(n) == Start[n]
\* Buffer.byteLength(this.buf) when the given amount has arrived.
Held(a, p, f) == Start[a] + p - f

Init ==
    /\ issued = 1 /\ executed = 0 /\ alive = TRUE /\ ended = FALSE
    /\ arrived = 0 /\ pos = 0 /\ from = 0 /\ consumed = 0
    /\ queue = <<0>> /\ discardFrames = 0 /\ closed = FALSE
    /\ draining = {} /\ broken = FALSE
    /\ fate = [c \in Calls |-> IF c = 0 THEN "waiting" ELSE "none"]
    /\ answer = [c \in Calls |-> None]
    /\ crashed = FALSE

-----------------------------------------------------------------------------
(* The engine: external *)

Execute ==
    /\ alive /\ executed < issued
    /\ fate[executed] # "closed"     \* its line was written
    /\ executed' = executed + 1
    /\ UNCHANGED <<issued, alive, ended, bufVars, queue, discardFrames, closed, pipeVars,
                   fate, answer, crashed>>

\* It ends: on EXIT, by the killer of close(), or on its own.
EngineExit ==
    /\ alive
    /\ alive' = FALSE
    /\ UNCHANGED <<issued, executed, ended, bufVars, queue, discardFrames, closed, pipeVars,
                   fate, answer, crashed>>

-----------------------------------------------------------------------------
(* Calls *)

\* The tools are registered once `ready` and FORMAT TSV have been awaited.
Started == fate[0] = "answered"

\* A closed session takes no calls.
Open == ~closed

\* command: the entry is queued, then its line is written; when the pipe is
\* full or broken the call waits for drain before it returns its output.
Command ==
    /\ issued <= MaxCommands /\ Started /\ Open
    /\ issued' = issued + 1
    /\ queue' = Append(queue, issued)
    /\ fate' = [fate EXCEPT ![issued] = "waiting"]
    /\ draining' = IF broken \/ issued - executed > PipeCap
                   THEN draining \cup {issued} ELSE draining
    /\ UNCHANGED <<broken, engineVars, ended, bufVars, discardFrames, closed, answer, crashed>>

\* command on a closed session throws.
CommandClosed ==
    /\ issued <= MaxCommands /\ Started /\ ~Open
    /\ issued' = issued + 1
    /\ fate' = [fate EXCEPT ![issued] = "closed"]
    /\ UNCHANGED <<engineVars, ended, bufVars, queue, discardFrames, closed, pipeVars,
                   answer, crashed>>

Drain ==
    /\ draining # {} /\ alive /\ issued - executed <= PipeCap
    /\ draining' = {}
    /\ UNCHANGED <<broken, issued, engineVars, ended, bufVars, queue, discardFrames, closed, fate,
                   answer, crashed>>

\* this.queue.filter: the entries that are not in S, in their order.
Without(q, S) ==
    LET kept[i \in 0..Len(q)] ==
          IF i = 0 THEN <<>>
          ELSE IF q[i] \in S THEN kept[i - 1] ELSE Append(kept[i - 1], q[i])
    IN  kept[Len(q)]

\* The pipe breaks under the calls that wait for drain: their entries go, and
\* no frame is owed for them.  A stream reports its error once: a call made
\* between this and the exit event waits for an event that never comes.
WriteError ==
    /\ draining # {} /\ ~alive /\ ~broken
    /\ broken' = TRUE
    /\ queue' = Without(queue, draining)
    /\ fate' = [c \in Calls |-> IF c \in draining /\ fate[c] = "waiting" THEN "write" ELSE fate[c]]
    /\ draining' = {}
    /\ UNCHANGED <<issued, engineVars, ended, bufVars, discardFrames, closed, answer, crashed>>

\* The pipe breaks while no call waits for drain, under a line that had not gone
\* out when the engine ended or came after, EXIT included: nobody listens for
\* the error, and Node ends the process.
UnheardError ==
    /\ draining = {} /\ ~alive /\ ~ended /\ ~broken
    /\ closed \/ (executed < issued /\ fate[executed] # "closed")
    /\ broken' = TRUE /\ crashed' = TRUE
    /\ UNCHANGED <<issued, engineVars, ended, bufVars, queue, discardFrames, closed, draining,
                   fate, answer>>

\* Mutant: an entry is dropped and its promise forgotten.
Reject_Silent(S, why) == UNCHANGED <<fate, crashed>>

\* The calls in S are rejected.  Nobody handles the rejection of a call that
\* still waits for drain, and Node ends a process with an unhandled rejection.
Reject(S, why) ==
    /\ fate' = [c \in Calls |-> IF c \in S THEN why ELSE fate[c]]
    /\ crashed' = (S \cap draining # {})

\* Mutant: the late output of an abandoned call is kept.
Owed_No == discardFrames

\* One more frame of the stream belongs to nobody.
Owed == discardFrames + 1

\* The timer of the oldest entry: every timer is set to the same delay.
Timeout ==
    /\ queue # <<>>
    /\ queue' = Tail(queue)
    /\ discardFrames' = Owed
    /\ Reject({Head(queue)}, "timeout")
    /\ UNCHANGED <<issued, engineVars, ended, bufVars, closed, pipeVars, answer>>

\* Mutant: it is not reported to a session that is being closed.
ExitReported_Open == ~alive /\ ~ended /\ ~closed

\* The exit event is reported once, to the session and to close().
ExitReported == ~alive /\ ~ended

\* The exit event: _failAll.
ExitEvent ==
    /\ ExitReported
    /\ ended' = TRUE /\ closed' = TRUE
    /\ queue' = <<>>
    /\ Reject(ToSet(queue), "exited")
    /\ UNCHANGED <<issued, engineVars, bufVars, discardFrames, pipeVars, answer>>

\* close(): EXIT is written; the entries already queued keep waiting.
Close ==
    /\ Started /\ Open
    /\ closed' = TRUE
    /\ UNCHANGED <<issued, engineVars, ended, bufVars, queue, discardFrames, pipeVars, fate,
                   answer, crashed>>

-----------------------------------------------------------------------------
(* _onData *)

\* Frames owed to abandoned calls are dropped; if more are owed, a buffer
\* over the cap is cut down to what may be the start of a prompt.
Discard(a, p) ==
    LET n == Min({discardFrames, a - consumed})
        f == IF n = 0 THEN from ELSE AfterPrompt(consumed + n)
    IN  /\ discardFrames > a - consumed
        /\ consumed' = consumed + n
        /\ discardFrames' = discardFrames - n
        /\ from' = IF Held(a, p, f) > Cap THEN Start[a] + p ELSE f
        /\ UNCHANGED <<queue, pipeVars, fate, answer, crashed>>

\* The size is looked at before the prompt: over the cap, the oldest entry is
\* rejected, the whole buffer goes and one more frame is owed.
RefuseOutput(a, p) ==
    LET d == consumed + discardFrames
        f == IF discardFrames = 0 THEN from ELSE AfterPrompt(d)
    IN  /\ d <= a /\ queue # <<>> /\ Held(a, p, f) > Cap
        /\ queue' = Tail(queue)
        /\ discardFrames' = 1
        /\ consumed' = a
        /\ from' = Start[a] + p
        /\ Reject({Head(queue)}, "toolarge")
        /\ UNCHANGED <<pipeVars, answer>>

\* Each complete frame answers the oldest entry.
Deliver(a, p) ==
    LET d == consumed + discardFrames
        f == IF discardFrames = 0 THEN from ELSE AfterPrompt(d)
        n == Min({Len(queue), a - d})
    IN  /\ d <= a /\ (queue = <<>> \/ Held(a, p, f) <= Cap)
        /\ queue' = SubSeq(queue, n + 1, Len(queue))
        /\ discardFrames' = 0
        /\ consumed' = d + n
        /\ from' = IF n = 0 THEN f ELSE AfterPrompt(d + n)
        /\ fate' = [c \in Calls |-> IF c \in ToSet(SubSeq(queue, 1, n)) THEN "answered" ELSE fate[c]]
        /\ answer' = [c \in Calls |-> IF \E i \in 1..n : queue[i] = c
                                      THEN d - 1 + (CHOOSE i \in 1..n : queue[i] = c)
                                      ELSE answer[c]]
        /\ UNCHANGED <<pipeVars, crashed>>

\* A chunk ends anywhere in what the engine has printed.
Chunk(a, p) ==
    /\ a > arrived \/ p > pos
    /\ p <= IF a < executed THEN Size[a] ELSE 0
    /\ arrived' = a /\ pos' = p
    /\ Discard(a, p) \/ RefuseOutput(a, p) \/ Deliver(a, p)
    /\ UNCHANGED <<issued, engineVars, ended, closed>>

Data == \E a \in arrived..executed : \E p \in 0..Max({Size[c] : c \in Calls}) : Chunk(a, p)

-----------------------------------------------------------------------------
Next ==
    /\ ~crashed
    /\ \/ Execute \/ EngineExit
       \/ Command \/ CommandClosed \/ Drain \/ WriteError \/ UnheardError
       \/ Timeout \/ ExitEvent \/ Close
       \/ Data

Spec == Init /\ [][Next]_vars

\* Timers fire, the exit of a process and the drain or the error of its pipe
\* are reported, and close() kills an engine that has not ended within two
\* seconds.  Nothing is assumed of the
\* engine itself: it may never execute or print anything.
Fairness ==
    /\ WF_vars(~crashed /\ Timeout)
    /\ WF_vars(~crashed /\ ExitEvent)
    /\ WF_vars(~crashed /\ closed /\ EngineExit)
    /\ WF_vars(~crashed /\ Drain)
    /\ WF_vars(~crashed /\ WriteError)

FairSpec == Spec /\ Fairness
=============================================================================
