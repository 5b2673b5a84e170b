----------------------------- MODULE ChangeStore ----------------------------
(***************************************************************************)
(* What the engine promises of <db>.dat, <db>.wal and <db>.cdc taken       *)
(* together, whatever crashes happen on the way:                           *)
(*   - a transaction takes effect at once, and leaves exactly the table    *)
(*     its session saw; nothing else changes a stable table;               *)
(*   - every transaction advances the sequence by one;                     *)
(*   - a whole-table operation ends in one of its end states, and advances *)
(*     the sequence once, for the RESET it owes; nothing commits while it  *)
(*     is unfinished or its RESET is owed.                                 *)
(***************************************************************************)
EXTENDS Naturals

CONSTANTS
  Contents,    \* the possible contents of the table
  Replacing,   \* the content is between two values
  Kinds,       \* the whole-table operations
  NoKind,      \* none is in progress
  Closed       \* no session is running

VARIABLES
  content,     \* the durable table
  session,     \* the table as the running session sees it
  kind,        \* the whole-table operation in progress
  goal,        \* the end states it may reach
  owed,        \* a RESET is owed to the change log
  seq          \* the last sequence given to a change

vars == <<content, session, kind, goal, owed, seq>>

Init ==
  /\ content \in Contents
  /\ session = Closed
  /\ kind = NoKind
  /\ goal = {}
  /\ owed = FALSE
  /\ seq = 0

\* A session opens on the stable table, works privately, and ends at any time.
OpenSession ==
  /\ session = Closed
  /\ kind = NoKind
  /\ session' = content
  /\ UNCHANGED <<content, kind, goal, owed, seq>>

Work ==
  /\ session # Closed
  /\ session' \in Contents \cup {Closed}
  /\ UNCHANGED <<content, kind, goal, owed, seq>>

Commit ==
  /\ kind = NoKind
  /\ ~owed
  /\ session # Closed
  /\ content' = session
  /\ seq' = seq + 1
  /\ UNCHANGED <<session, kind, goal, owed>>

BeginReplace ==
  /\ kind = NoKind
  /\ ~owed
  /\ kind' \in Kinds
  /\ goal' \in SUBSET Contents
  /\ content' = Replacing
  /\ owed' = TRUE
  /\ UNCHANGED <<session, seq>>

EndReplace ==
  /\ kind # NoKind
  /\ content' \in goal
  /\ kind' = NoKind
  /\ goal' = {}
  /\ session' \in {content', Closed}
  /\ UNCHANGED <<owed, seq>>

PublishReset ==
  /\ owed
  /\ owed' = FALSE
  /\ seq' = seq + 1
  /\ UNCHANGED <<content, session, kind, goal>>

Next == OpenSession \/ Work \/ Commit \/ BeginReplace \/ EndReplace \/ PublishReset

Spec == Init /\ [][Next]_vars
=============================================================================
