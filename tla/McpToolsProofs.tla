--------------------------- MODULE McpToolsProofs ---------------------------
(***************************************************************************)
(* The transaction of an upsert among the other tools, for any number of   *)
(* tool calls, rows and timeouts.                                          *)
(***************************************************************************)
EXTENDS McpToolsProps, TLAPS

\* The commands of an upsert, and those of the other tools.
UpsertAt == {"BEGIN", "INSERT", "SELECT", "UPDATE", "COMMIT", "ROLLBACK", "done"}
OtherAt == {"INSERT", "SELECT", "UPDATE", "DELETE", "PAGE", "LISTING", "COUNT", "done"}
Commands(r) == IF Tool[r] = "upsert" THEN UpsertAt ELSE OtherAt

Shape ==
    /\ ToolsTypeOK
    /\ pc \in [Requests -> UpsertAt \cup OtherAt]
    /\ \A r \in Requests : pc[r] \in Commands(r)

\* A request at command c is between its BEGIN and its end.
Inside(r, c) == Tool[r] = "upsert" /\ c \notin {"BEGIN", "done"}
NoneBy(r, table) == \A i \in Ids : table[i].by # r

\* The request has the engine's transaction: it is inside, and the engine has
\* not run its COMMIT or ROLLBACK without an answer being read.
EndUnread(r) == pc[r] \in {"COMMIT", "ROLLBACK"} /\ <<r, pc[r]>> \in unread
Holds(r) == Inside(r, pc[r]) /\ ~EndUnread(r)

\* An upsert that has not been committed: neither told so nor, its answer
\* unread, without being told.
Unkept(r) == Tool[r] = "upsert" /\ ~(pc[r] = "done" /\ reply[r] = "upserted") /\ ~CommitUnread(r)

\* A transaction that nobody ends any more, in a session that is closing: the
\* end of the engine undoes it.
Orphan == closed /\ in_txn /\ \A q \in Requests : ~Holds(q)

\* While no COMMIT has been lost, who holds a transaction has the engine's, and
\* of an upsert that has not been committed the table holds nothing, unless it
\* has the transaction or that one is to be undone; nor does the table the
\* engine would go back to.
Owned ==
    /\ \A r \in Requests : Holds(r) => in_txn
    /\ \A q, r \in Requests : Inside(q, pc[q]) /\ Inside(r, pc[r]) => q = r
    /\ \A r \in Requests : Unkept(r) /\ ~Holds(r) => NoneBy(r, rows) \/ Orphan
    /\ in_txn => \A r \in Requests : Unkept(r) => NoneBy(r, saved)

\* An open transaction is somebody's, or about to be undone.
Somebodys == in_txn => \/ \E r \in Requests : Inside(r, pc[r])
                       \/ \E r \in Requests : <<r, "BEGIN">> \in lost
                       \/ Ending
NoneLost == \A r \in Requests : <<r, "COMMIT">> \notin lost

\* The inductive invariant.
ToolsInv ==
    /\ Shape
    /\ Somebodys
    /\ NoneLost => Owned

-----------------------------------------------------------------------------
(* What a step does to the request that takes it *)

Move(r, x, y) == pc' = [pc EXCEPT ![r] = x] /\ reply' = [reply EXCEPT ![r] = y]

\* Where an error takes a request, and with which reply.
ErrorTo(r) == IF InTransactional(r) /\ pc[r] # "ROLLBACK" THEN "ROLLBACK" ELSE "done"
ErrorReply(r, why) == IF pc[r] = "ROLLBACK" THEN reply[r] ELSE why

LEMMA ThrowMoves ==
    ASSUME NEW r \in Requests, NEW why, Throw(r, why)
    PROVE  Move(r, ErrorTo(r), ErrorReply(r, why))
BY DEF Throw, Return, Move, ErrorTo, ErrorReply, InTransactional

LEMMA GotoMoves ==
    ASSUME Shape, NEW r \in Requests, NEW x, Goto(r, x)
    PROVE  Move(r, x, reply[r])
BY DEF Goto, Move, Shape, ToolsTypeOK

LEMMA ReturnMoves ==
    ASSUME NEW r \in Requests, NEW y, Return(r, y)
    PROVE  Move(r, "done", y)
BY DEF Return, Move

\* What a command that is awaited may lead to: its time is up, its answer is
\* never read, or the handler reads it.
Timed(r, x, y) ==
    /\ x = ErrorTo(r) /\ y = ErrorReply(r, "timeout")
    /\ lost' = lost \cup {<<r, pc[r]>>}
    /\ unread = {} /\ unread' = unread
Unheard(r, x, y) ==
    /\ x = pc[r] /\ y = reply[r]
    /\ unread' = unread \cup {<<r, pc[r]>>} /\ lost' = lost

\* What an upsert does next is a command of its own.
UpsertMoves(r, x, y) ==
    CASE pc[r] = "BEGIN" ->
           IF in_txn THEN x = "done" /\ y = "engineError" ELSE x = "INSERT" /\ y = "none"
      [] pc[r] \in {"INSERT", "SELECT", "UPDATE"} ->
           \/ x \in {"SELECT", "UPDATE", "COMMIT"} /\ y = "none"
           \/ x = "ROLLBACK" /\ y \in Replies \ {"upserted"}
      [] pc[r] = "COMMIT" ->
           IF in_txn THEN x = "done" /\ y = "upserted" ELSE x = "ROLLBACK" /\ y = "engineError"
      [] pc[r] = "ROLLBACK" -> x = "done" /\ y = reply[r]
OtherMoves(r, x, y) ==
    \/ x \in {"SELECT", "UPDATE", "DELETE", "LISTING"} /\ y = "none"
    \/ x = "done" /\ y \in Replies
Moves(r, x, y) ==
    \/ Timed(r, x, y)
    \/ Unheard(r, x, y)
    \/ /\ unread = {} /\ unread' = unread /\ lost' = lost
       /\ IF Tool[r] = "upsert" THEN UpsertMoves(r, x, y) ELSE OtherMoves(r, x, y)

\* What it does to the engine.
Table(r) ==
    CASE pc[r] \in {"INSERT", "UPDATE"} -> rows' \in {rows, [rows EXCEPT ![Id[r]] = Mine(r)]}
      [] pc[r] = "DELETE" -> rows' = [rows EXCEPT ![Id[r]] = NoRow]
      [] pc[r] = "ROLLBACK" -> rows' = IF in_txn THEN saved ELSE rows
      [] OTHER -> rows' = rows
Effects(r) ==
    /\ running /\ running' = running /\ closed' = closed
    /\ written' = written \ {r}
    /\ Table(r)
    /\ in_txn' = CASE pc[r] = "BEGIN" -> TRUE
                   [] pc[r] \in {"COMMIT", "ROLLBACK"} -> FALSE
                   [] OTHER -> in_txn
    /\ saved' = IF pc[r] = "BEGIN" /\ ~in_txn THEN rows ELSE saved
    /\ page' \in Nat

LEMMA StepEffects ==
    ASSUME Shape, NEW r \in Requests, Step(r)
    PROVE  Effects(r)
<1>0. page \in Nat /\ Limit[r] \in Nat
  BY ToolAssumption DEF Shape, ToolsTypeOK
<1>1. CASE Begin(r)
  BY <1>0, <1>1 DEF Begin, At, Answered, session, Effects, Table
<1>2. CASE Insert(r) \/ Update(r)
  BY <1>0, <1>2 DEF Insert, Update, At, Answered, session, Effects, Table
<1>3. CASE Delete(r)
  BY <1>0, <1>3 DEF Delete, At, Answered, session, Effects, Table
<1>4. CASE Commit(r)
  BY <1>0, <1>4 DEF Commit, At, Answered, session, Effects, Table
<1>5. CASE Rollback(r)
  BY <1>0, <1>5 DEF Rollback, At, Answered, session, Effects, Table
<1>6. CASE Select(r) \/ Listing(r) \/ Count(r)
  BY <1>0, <1>6 DEF Select, Listing, Count, At, Answered, session, Effects, Table, engine
<1>7. CASE SetPage(r)
  BY <1>0, <1>7 DEF SetPage, At, Answered, session, Effects, Table
<1>8. QED
  BY <1>1, <1>2, <1>3, <1>4, <1>5, <1>6, <1>7 DEF Step

\* A handler is answered, or its command times out.
LEMMA AnsweredMoves ==
    ASSUME Shape, NEW r \in Requests, NEW next,
           Answered(r, next),
           next => \E x, y : Move(r, x, y)
                     /\ IF Tool[r] = "upsert" THEN UpsertMoves(r, x, y) ELSE OtherMoves(r, x, y)
    PROVE  \E x, y : Move(r, x, y) /\ Moves(r, x, y)
<1>1. CASE TimesOut(r)
  <2>1. /\ Throw(r, "timeout") /\ lost' = lost \cup {<<r, pc[r]>>}
        /\ unread = {} /\ unread' = unread
    BY <1>1 DEF TimesOut
  <2>2. Move(r, ErrorTo(r), ErrorReply(r, "timeout"))
    BY <2>1, ThrowMoves
  <2>3. QED
    BY <2>1, <2>2 DEF Moves, Timed
<1>2. CASE Read(next)
  BY <1>2 DEF Read, Moves
<1>3. CASE Unread(r)
  <2>1. Move(r, pc[r], reply[r])
    BY <1>3 DEF Unread, Move, Shape, ToolsTypeOK
  <2>2. QED
    BY <1>3, <2>1 DEF Unread, Moves, Unheard
<1>4. QED
  BY <1>1, <1>2, <1>3 DEF Answered

LEMMA StepMoves ==
    ASSUME Shape, NEW r \in Requests, Step(r)
    PROVE  \E x, y : Move(r, x, y) /\ Moves(r, x, y)
<1>0. /\ Tool[r] \in Tools /\ pc[r] \in Commands(r)
      /\ pc[r] \notin {"done", "ROLLBACK"} => reply[r] = "none"
  BY ToolAssumption DEF Shape, ToolsTypeOK
<1> DEFINE Led == \E x, y : Move(r, x, y)
              /\ IF Tool[r] = "upsert" THEN UpsertMoves(r, x, y) ELSE OtherMoves(r, x, y)
<1>t. ASSUME NEW why \in Replies \ {"upserted"}, Throw(r, why), pc[r] # "BEGIN", pc[r] # "ROLLBACK",
             pc[r] # "COMMIT", pc[r] # "done"
      PROVE  Led
  <2>1. Move(r, ErrorTo(r), ErrorReply(r, why))
    BY <1>t, ThrowMoves
  <2>2. IF Tool[r] = "upsert" THEN UpsertMoves(r, ErrorTo(r), ErrorReply(r, why))
        ELSE OtherMoves(r, ErrorTo(r), ErrorReply(r, why))
    BY <1>t, <1>0 DEF ErrorTo, ErrorReply, InTransactional, UpsertMoves, OtherMoves, Commands, UpsertAt
  <2>3. QED
    BY <2>1, <2>2
<1>r. ASSUME NEW what \in Replies, Return(r, what), Tool[r] # "upsert"
      PROVE  Led
  <2>1. Move(r, "done", what)
    BY <1>r, ReturnMoves
  <2>2. QED
    BY <2>1, <1>r DEF OtherMoves
<1>g. ASSUME NEW x \in {"SELECT", "UPDATE", "COMMIT", "DELETE", "LISTING"}, Goto(r, x),
             pc[r] \notin {"done", "ROLLBACK"},
             Tool[r] = "upsert" => x \in {"SELECT", "UPDATE", "COMMIT"} /\ pc[r] \in {"INSERT", "SELECT", "UPDATE"},
             Tool[r] # "upsert" => x # "COMMIT"
      PROVE  Led
  <2>1. Move(r, x, "none")
    BY <1>g, <1>0, GotoMoves
  <2>2. QED
    BY <2>1, <1>g DEF UpsertMoves, OtherMoves
<1>1. CASE Begin(r)
  <2>1. pc[r] = "BEGIN" /\ Tool[r] = "upsert" /\ Answered(r, BeginAnswer(r))
    BY <1>0, <1>1 DEF Begin, At, Commands, OtherAt
  <2>2. ASSUME BeginAnswer(r) PROVE Led
    <3>1. CASE in_txn
      <4>1. Move(r, ErrorTo(r), ErrorReply(r, "engineError"))
        BY <2>2, <3>1, ThrowMoves DEF BeginAnswer
      <4>2. QED
        BY <2>1, <3>1, <4>1 DEF ErrorTo, ErrorReply, InTransactional, UpsertMoves
    <3>2. CASE ~in_txn
      <4>1. Move(r, "INSERT", "none")
        BY <1>0, <2>1, <2>2, <3>2, GotoMoves DEF BeginAnswer
      <4>2. QED
        BY <2>1, <3>2, <4>1 DEF UpsertMoves
    <3>3. QED
      BY <3>1, <3>2
  <2>3. QED
    BY <2>1, <2>2, AnsweredMoves
<1>2. CASE Insert(r)
  <2> DEFINE next ==
        CASE Here(r) = NoRow /\ Tool[r] = "upsert" -> Goto(r, "COMMIT")
          [] Here(r) = NoRow /\ Tool[r] = "insert" -> Return(r, "inserted")
          [] Here(r) # NoRow /\ Key[r] # NoKey     -> Goto(r, "SELECT")
          [] Here(r) # NoRow /\ Key[r] = NoKey /\ Tool[r] = "upsert" -> Goto(r, "UPDATE")
          [] OTHER                                 -> Return(r, "alreadyExists")
  <2>1. pc[r] = "INSERT" /\ Answered(r, next)
    BY <1>2 DEF Insert, At
  <2>2. ASSUME next PROVE Led
    <3>1. \/ Goto(r, "COMMIT") /\ Tool[r] = "upsert"
          \/ Goto(r, "SELECT")
          \/ Goto(r, "UPDATE") /\ Tool[r] = "upsert"
          \/ Return(r, "inserted") /\ Tool[r] # "upsert"
          \/ Return(r, "alreadyExists") /\ Tool[r] # "upsert"
      BY <2>2
    <3> HIDE DEF next
    <3>2. QED
      BY <3>1, <2>1, <1>g, <1>r DEF Replies
  <2> HIDE DEF next
  <2>3. QED
    BY <2>1, <2>2, AnsweredMoves
<1>3. CASE Select(r)
  <2> DEFINE missing == Here(r) = NoRow
             collides == Collides(r, Here(r))
             go == CASE Tool[r] = "get" -> Return(r, "found")
                     [] Tool[r] = "insert" -> Return(r, "alreadyExists")
                     [] Tool[r] = "delete" -> Goto(r, "DELETE")
                     [] OTHER -> Goto(r, "UPDATE")
             next ==
               CASE missing /\ Tool[r] = "insert"  -> Return(r, "alreadyExists")
                 [] missing /\ Tool[r] = "upsert"  -> Throw(r, "keyCollision")
                 [] missing /\ Tool[r] \in {"get", "update", "delete"} -> Return(r, "notFound")
                 [] ~missing /\ collides           -> Throw(r, "keyCollision")
                 [] OTHER                          -> go
  <2>1. pc[r] = "SELECT" /\ Answered(r, next)
    BY <1>3 DEF Select, At
  <2>2. ASSUME next PROVE Led
    <3>1. go => \/ Return(r, "found") /\ Tool[r] # "upsert"
                \/ Return(r, "alreadyExists") /\ Tool[r] # "upsert"
                \/ Goto(r, "DELETE") /\ Tool[r] # "upsert"
                \/ Goto(r, "UPDATE")
      OBVIOUS
    <3> HIDE DEF go, missing, collides
    <3>2. \/ Return(r, "alreadyExists") /\ Tool[r] # "upsert"
          \/ Return(r, "notFound") /\ Tool[r] # "upsert"
          \/ Throw(r, "keyCollision")
          \/ go
      BY <2>2
    <3>3. QED
      BY <3>1, <3>2, <2>1, <1>g, <1>r, <1>t DEF Replies
  <2> HIDE DEF next
  <2>3. QED
    BY <2>1, <2>2, AnsweredMoves
<1>4. CASE Update(r)
  <2> DEFINE next == IF Here(r) = NoRow THEN Throw(r, "notFound")
                     ELSE IF Tool[r] = "upsert" THEN Goto(r, "COMMIT")
                     ELSE Return(r, "updated")
  <2>1. pc[r] = "UPDATE" /\ Answered(r, next)
    BY <1>4 DEF Update, At
  <2>2. ASSUME next PROVE Led
    BY <2>1, <2>2, <1>g, <1>r, <1>t DEF Replies
  <2> HIDE DEF next
  <2>3. QED
    BY <2>1, <2>2, AnsweredMoves
<1>5. CASE Delete(r)
  <2> DEFINE next == Return(r, IF Here(r) = NoRow THEN "notFound" ELSE "deleted")
  <2>1. Tool[r] # "upsert" /\ Answered(r, next)
    BY <1>0, <1>5 DEF Delete, At, Commands, UpsertAt
  <2>2. ASSUME next PROVE Led
    BY <2>1, <2>2, <1>r DEF Replies
  <2> HIDE DEF next
  <2>3. QED
    BY <2>1, <2>2, AnsweredMoves
<1>6. CASE Commit(r)
  <2> DEFINE next == IF in_txn THEN Return(r, "upserted") ELSE Throw(r, "engineError")
  <2>1. pc[r] = "COMMIT" /\ Tool[r] = "upsert" /\ Answered(r, next)
    BY <1>0, <1>6 DEF Commit, At, Commands, OtherAt
  <2>2. ASSUME next PROVE Led
    <3>1. CASE in_txn
      BY <2>1, <2>2, <3>1, ReturnMoves DEF UpsertMoves
    <3>2. CASE ~in_txn
      <4>1. Move(r, ErrorTo(r), ErrorReply(r, "engineError"))
        BY <2>2, <3>2, ThrowMoves
      <4>2. QED
        BY <2>1, <3>2, <4>1 DEF ErrorTo, ErrorReply, InTransactional, UpsertMoves
    <3>3. QED
      BY <3>1, <3>2
  <2> HIDE DEF next
  <2>3. QED
    BY <2>1, <2>2, AnsweredMoves
<1>7. CASE Rollback(r)
  <2>1. pc[r] = "ROLLBACK" /\ Tool[r] = "upsert" /\ Answered(r, Return(r, reply[r]))
    BY <1>0, <1>7 DEF Rollback, At, Commands, OtherAt
  <2>2. ASSUME Return(r, reply[r]) PROVE Led
    BY <2>1, <2>2, ReturnMoves DEF UpsertMoves
  <2>3. QED
    BY <2>1, <2>2, AnsweredMoves
<1>8. CASE SetPage(r)
  <2>1. pc[r] = "PAGE" /\ Tool[r] # "upsert" /\ Answered(r, Goto(r, "LISTING"))
    BY <1>0, <1>8 DEF SetPage, At, Commands, UpsertAt
  <2>2. ASSUME Goto(r, "LISTING") PROVE Led
    BY <2>1, <2>2, <1>g
  <2>3. QED
    BY <2>1, <2>2, AnsweredMoves
<1>9. CASE Listing(r) \/ Count(r)
  <2>1. PICK what \in {"all", "more", "over", "counted"} : Answered(r, Return(r, what))
    <3> DEFINE live == Cardinality({i \in Ids : rows[i] # NoRow})
               shown == IF live < page THEN live ELSE page
               told == CASE shown < Limit[r] -> "all"
                         [] shown = Limit[r] -> "more"
                         [] OTHER            -> "over"
    <3>1. CASE Listing(r)
      <4>1. Answered(r, Return(r, told))
        BY <3>1 DEF Listing
      <4>2. told \in {"all", "more", "over", "counted"}
        OBVIOUS
      <4> HIDE DEF told
      <4>3. QED
        BY <4>1, <4>2
    <3>2. CASE Count(r)
      BY <3>2 DEF Count
    <3>3. QED
      BY <1>9, <3>1, <3>2
  <2>2. Tool[r] # "upsert"
    BY <1>0, <1>9 DEF Listing, Count, At, Commands, UpsertAt
  <2>3. ASSUME Return(r, what) PROVE Led
    BY <2>2, <2>3, <1>r DEF Replies
  <2>4. QED
    BY <2>1, <2>3, AnsweredMoves
<1>10. QED
  BY <1>1, <1>2, <1>3, <1>4, <1>5, <1>6, <1>7, <1>8, <1>9 DEF Step

-----------------------------------------------------------------------------
(* The invariant *)

LEMMA ToolsInit == Init => ToolsInv
<1> SUFFICES ASSUME Init PROVE ToolsInv
  OBVIOUS
<1>1. NoRow \in Rows /\ rows \in [Ids -> Rows] /\ saved = rows
  BY DEF Init, Rows
<1>2. \A r \in Requests : /\ pc[r] \in Commands(r) \ {"done", "ROLLBACK"}
                          /\ pc[r] \in UpsertAt \cup OtherAt
                          /\ Tool[r] = "upsert" => pc[r] = "BEGIN"
  BY ToolAssumption DEF Init, First, Tools, Commands, UpsertAt, OtherAt
<1>3. Shape
  BY <1>1, <1>2 DEF Init, Shape, ToolsTypeOK
<1>4. \A r \in Requests : ~Inside(r, pc[r]) /\ NoneBy(r, rows)
  BY <1>1, <1>2, ToolAssumption DEF Inside, NoneBy, Init, NoRow
<1>5. QED
  BY <1>1, <1>3, <1>4 DEF Init, ToolsInv, Somebodys, Owned, Holds

\* A step takes one request from one command to the next.
LEMMA StepShape ==
    ASSUME Shape, NEW r \in Requests, Step(r)
    PROVE  Shape'
<1>0. /\ pc[r] \in Commands(r) \ {"done"} /\ Effects(r)
      /\ pc[r] = "ROLLBACK" => reply[r] \in Replies
      /\ pc[r] # "ROLLBACK" => reply[r] = "none"
      /\ \A q \in Requests : pc[q] \in Commands(q)
      /\ pc \in [Requests -> UpsertAt \cup OtherAt]
      /\ reply \in [Requests -> Replies \cup {"none"}]
      /\ \A q \in Requests : reply[q] # "none" <=> pc[q] \in {"done", "ROLLBACK"}
  <2>1. pc[r] # "done"
    BY DEF Step, Begin, Insert, Select, Update, Delete, Commit, Rollback, SetPage, Listing, Count, At
  <2>2. QED
    BY <2>1, StepEffects DEF Shape, ToolsTypeOK
<1>1. PICK x, y : Move(r, x, y) /\ Moves(r, x, y)
  BY StepMoves
<1>2. /\ x \in Commands(r) /\ y \in Replies \cup {"none"}
      /\ y # "none" <=> x \in {"done", "ROLLBACK"}
  <2>1. CASE Timed(r, x, y)
    BY <1>0, <2>1 DEF Timed, ErrorTo, ErrorReply, InTransactional, Commands, UpsertAt, OtherAt, Replies
  <2>u. CASE Unheard(r, x, y)
    BY <1>0, <2>u DEF Unheard
  <2>2. CASE Tool[r] = "upsert" /\ UpsertMoves(r, x, y)
    BY <1>0, <2>2 DEF UpsertMoves, Commands, UpsertAt, Replies
  <2>3. CASE Tool[r] # "upsert" /\ OtherMoves(r, x, y)
    BY <1>0, <2>3 DEF OtherMoves, Commands, OtherAt, Replies
  <2>4. QED
    BY <1>1, <2>1, <2>u, <2>2, <2>3 DEF Moves
<1>3. x \in UpsertAt \cup OtherAt
  BY <1>2 DEF Commands
<1>4. /\ pc' \in [Requests -> UpsertAt \cup OtherAt]
      /\ \A q \in Requests : pc'[q] \in Commands(q)
      /\ reply' \in [Requests -> Replies \cup {"none"}]
      /\ \A q \in Requests : reply'[q] # "none" <=> pc'[q] \in {"done", "ROLLBACK"}
  BY <1>0, <1>1, <1>2, <1>3 DEF Move
<1>5. rows' \in [Ids -> Rows] /\ saved' \in [Ids -> Rows]
  <2>1. Mine(r) \in Rows /\ NoRow \in Rows /\ Id[r] \in Ids
    BY DEF Mine, Rows, Keys, Ids
  <2>2. rows \in [Ids -> Rows] /\ saved \in [Ids -> Rows]
    BY DEF Shape, ToolsTypeOK
  <2>3. rows' \in {rows, saved, [rows EXCEPT ![Id[r]] = Mine(r)], [rows EXCEPT ![Id[r]] = NoRow]}
    BY <1>0 DEF Effects, Table
  <2>4. QED
    BY <1>0, <2>1, <2>2, <2>3 DEF Effects
<1>6. /\ in_txn' \in BOOLEAN /\ running' \in BOOLEAN /\ page' \in Nat
      /\ closed' \in BOOLEAN /\ written' \subseteq Requests
  BY <1>0 DEF Effects, Shape, ToolsTypeOK
<1>7. QED
  BY <1>4, <1>5, <1>6 DEF Shape, ToolsTypeOK, Commands

\* What a step does to who is inside, who holds the transaction and who is
\* not committed: only the request that takes it moves.
Passes(r) ==
    /\ \A q \in Requests : q # r =>
         /\ Inside(q, pc'[q]) = Inside(q, pc[q])
         /\ Holds(q)' = Holds(q) /\ Unkept(q)' = Unkept(q)
    /\ Unkept(r)' => Unkept(r)
    /\ Tool[r] # "upsert" => ~Inside(r, pc'[r]) /\ pc[r] \notin {"BEGIN", "COMMIT", "ROLLBACK"}
    /\ Inside(r, pc[r]) => Holds(r)
    /\ Inside(r, pc'[r]) => Inside(r, pc[r]) \/ (pc[r] = "BEGIN" /\ ~in_txn /\ unread = {})
    /\ pc[r] = "BEGIN" => ~Inside(r, pc[r])
    /\ Tool[r] = "upsert" /\ pc[r] \notin {"BEGIN", "COMMIT", "ROLLBACK"} =>
         Inside(r, pc[r]) /\ Holds(r)' /\ Inside(r, pc'[r])
    /\ pc[r] = "ROLLBACK" => ~Holds(r)'
    /\ pc[r] = "COMMIT" /\ in_txn /\ <<r, "COMMIT">> \notin lost' => ~Holds(r)' /\ ~Unkept(r)'

LEMMA StepPasses ==
    ASSUME Shape, NEW r \in Requests, Step(r)
    PROVE  Passes(r)
<1>0. /\ pc[r] \in Commands(r) \ {"done"}
      /\ <<r, pc[r]>> \notin unread
  BY DEF Step, Begin, Insert, Select, Update, Delete, Commit, Rollback, SetPage, Listing, Count,
         At, Shape
<1>1. PICK x, y : Move(r, x, y) /\ Moves(r, x, y)
  BY StepMoves
<1>2. /\ pc'[r] = x /\ reply'[r] = y
      /\ \A q \in Requests \ {r} : pc'[q] = pc[q] /\ reply'[q] = reply[q]
  BY <1>1 DEF Move, Shape, ToolsTypeOK
<1>3. unread' = unread \/ unread' = unread \cup {<<r, pc[r]>>}
  BY <1>1 DEF Moves, Timed, Unheard
<1>4. \A q \in Requests : q # r =>
        /\ Inside(q, pc'[q]) = Inside(q, pc[q])
        /\ Holds(q)' = Holds(q) /\ Unkept(q)' = Unkept(q)
  <2> SUFFICES ASSUME NEW q \in Requests, q # r
               PROVE  /\ Inside(q, pc'[q]) = Inside(q, pc[q])
                      /\ Holds(q)' = Holds(q) /\ Unkept(q)' = Unkept(q)
    OBVIOUS
  <2>1. pc'[q] = pc[q] /\ reply'[q] = reply[q]
    BY <1>2
  <2>2. \A c : <<q, c>> \in unread' <=> <<q, c>> \in unread
    BY <1>3
  <2>3. EndUnread(q)' = EndUnread(q)
    BY <2>1, <2>2 DEF EndUnread
  <2>4. Holds(q)' = Holds(q) /\ Inside(q, pc'[q]) = Inside(q, pc[q])
    BY <2>1, <2>3 DEF Holds, Inside
  <2>5. CommitUnread(q)' = CommitUnread(q)
    BY <2>2 DEF CommitUnread
  <2>6. QED
    BY <2>1, <2>4, <2>5 DEF Unkept
<1>5. Unkept(r)' => Unkept(r)
  BY <1>0, <1>3 DEF Unkept, CommitUnread
<1>6. Inside(r, pc[r]) => Holds(r)
  BY <1>0 DEF Holds, EndUnread
<1>7. CASE Tool[r] # "upsert"
  <2>1. x \in OtherAt
    BY <1>0, <1>1, <1>7 DEF Moves, Timed, Unheard, OtherMoves, ErrorTo, InTransactional, OtherAt, Commands
  <2>2. QED
    BY <1>0, <1>2, <1>4, <1>5, <1>6, <1>7, <2>1 DEF Passes, Inside, Commands, OtherAt
<1>8. CASE Tool[r] = "upsert"
  <2>0. pc[r] \in UpsertAt \ {"done"}
    BY <1>0, <1>8 DEF Commands
  <2>1. CASE Timed(r, x, y)
    <3>1. /\ x = IF pc[r] \in {"BEGIN", "ROLLBACK"} THEN "done" ELSE "ROLLBACK"
          /\ unread' = {} /\ <<r, pc[r]>> \in lost'
      BY <2>1, <1>8 DEF Timed, ErrorTo, InTransactional
    <3>2. Holds(r)' <=> Inside(r, x)
      BY <1>2, <3>1 DEF Holds, EndUnread, Inside
    <3>3. QED
      BY <1>2, <1>4, <1>5, <1>6, <1>8, <2>0, <3>1, <3>2 DEF Passes, Inside, UpsertAt
  <2>2. CASE Unheard(r, x, y)
    <3>1. x = pc[r] /\ <<r, pc[r]>> \in unread'
      BY <2>2 DEF Unheard
    <3>2. Holds(r)' <=> Inside(r, pc[r]) /\ pc[r] \notin {"COMMIT", "ROLLBACK"}
      BY <1>2, <3>1 DEF Holds, EndUnread, Inside
    <3>3. pc[r] = "COMMIT" => ~Unkept(r)'
      BY <3>1 DEF Unkept, CommitUnread
    <3>4. QED
      BY <1>2, <1>4, <1>5, <1>6, <1>8, <2>0, <3>1, <3>2, <3>3 DEF Passes, Inside, UpsertAt
  <2>3. CASE unread = {} /\ unread' = unread /\ UpsertMoves(r, x, y)
    <3>1. Holds(r)' <=> Inside(r, x)
      BY <1>2, <2>3 DEF Holds, EndUnread, Inside
    <3>2. /\ pc[r] = "BEGIN" => x = (IF in_txn THEN "done" ELSE "INSERT")
          /\ pc[r] \in {"INSERT", "SELECT", "UPDATE"} => x \in {"SELECT", "UPDATE", "COMMIT", "ROLLBACK"}
          /\ pc[r] = "COMMIT" /\ in_txn => x = "done" /\ y = "upserted"
          /\ pc[r] = "ROLLBACK" => x = "done"
      BY <2>3 DEF UpsertMoves
    <3>3. pc[r] = "COMMIT" /\ in_txn => ~Unkept(r)'
      BY <1>2, <3>2 DEF Unkept
    <3>4. QED
      BY <1>2, <1>4, <1>5, <1>6, <1>8, <2>0, <2>3, <3>1, <3>2, <3>3 DEF Passes, Inside, UpsertAt
  <2>4. QED
    BY <1>1, <1>8, <2>1, <2>2, <2>3 DEF Moves
<1>9. QED
  BY <1>7, <1>8

LEMMA StepSomebodys ==
    ASSUME Shape, Somebodys, NEW r \in Requests, Step(r)
    PROVE  Somebodys'
<1>1. Effects(r) /\ Passes(r)
  BY StepEffects, StepPasses
<1>2. PICK x, y : Move(r, x, y) /\ Moves(r, x, y)
  BY StepMoves
<1>3. Ending => Ending'
  BY <1>1, <1>2 DEF Effects, Moves, Timed, Unheard, Ending
<1>4. (\E q \in Requests : <<q, "BEGIN">> \in lost) => (\E q \in Requests : <<q, "BEGIN">> \in lost')
  BY <1>2 DEF Moves, Timed, Unheard
<1>5. CASE pc[r] \in {"COMMIT", "ROLLBACK"}
  BY <1>5, <1>1 DEF Effects, Somebodys
<1>6. CASE pc[r] = "BEGIN" /\ ~in_txn
  <2>0. pc'[r] = x /\ Tool[r] = "upsert"
    BY <1>1, <1>2, <1>6 DEF Move, Passes, Shape
  <2>1. CASE Timed(r, x, y)
    BY <2>1, <1>6 DEF Timed, Somebodys
  <2>2. CASE Unheard(r, x, y)
    BY <2>2 DEF Unheard, Somebodys, Ending
  <2>3. CASE UpsertMoves(r, x, y)
    BY <2>0, <2>3, <1>6 DEF UpsertMoves, Somebodys, Inside
  <2>4. QED
    BY <1>2, <2>0, <2>1, <2>2, <2>3 DEF Moves
<1>7. CASE pc[r] \notin {"COMMIT", "ROLLBACK"} /\ (pc[r] = "BEGIN" => in_txn)
  <2>1. in_txn' => in_txn
    BY <1>1, <1>7 DEF Effects
  <2>2. ASSUME NEW q \in Requests, Inside(q, pc[q]) PROVE Inside(q, pc'[q])
    BY <1>1, <1>7, <2>2 DEF Passes, Inside
  <2>3. QED
    BY <1>3, <1>4, <2>1, <2>2 DEF Somebodys
<1>8. QED
  BY <1>5, <1>6, <1>7

LEMMA StepOwned ==
    ASSUME Shape, Owned, NEW r \in Requests, Step(r), NoneLost'
    PROVE  Owned'
<1>0. /\ Effects(r) /\ Passes(r)
      /\ <<r, "COMMIT">> \notin lost'
      /\ rows \in [Ids -> Rows] /\ saved \in [Ids -> Rows] /\ Id[r] \in Ids
  BY StepEffects, StepPasses DEF NoneLost, Shape, ToolsTypeOK, Ids
\* Only who holds the transaction ends it.
<1>1. pc[r] \in {"COMMIT", "ROLLBACK"} => Holds(r) /\ in_txn /\ ~Holds(r)'
  <2>1. pc[r] \in {"COMMIT", "ROLLBACK"} => Holds(r)
    BY <1>0 DEF Passes, Inside
  <2>2. QED
    BY <1>0, <2>1 DEF Passes, Owned
<1>2. Holds(r)' => Inside(r, pc'[r])
  BY DEF Holds
<1>3. ASSUME NEW q \in Requests, Holds(q)' PROVE in_txn'
  <2>1. CASE q = r
    <3>1. pc[r] \notin {"COMMIT", "ROLLBACK"}
      BY <1>1, <1>3, <2>1
    <3>2. pc[r] # "BEGIN" => in_txn
      BY <1>0, <1>2, <1>3, <2>1 DEF Passes, Owned
    <3>3. QED
      BY <1>0, <3>1, <3>2 DEF Effects
  <2>2. CASE q # r
    <3>1. Holds(q) /\ in_txn
      BY <1>0, <1>3, <2>2 DEF Passes, Owned
    <3>2. pc[r] \notin {"COMMIT", "ROLLBACK"}
      BY <1>1, <2>2, <3>1 DEF Owned, Holds
    <3>3. QED
      BY <1>0, <3>1, <3>2 DEF Effects
  <2>3. QED
    BY <2>1, <2>2
<1>4. ASSUME NEW p \in Requests, NEW q \in Requests, Inside(p, pc'[p]), Inside(q, pc'[q])
      PROVE  p = q
  \* Who comes in finds nobody inside.
  <2>1. ASSUME NEW s \in Requests, s # r, Inside(s, pc[s]) PROVE ~Inside(r, pc'[r])
    <3>1. ~Inside(r, pc[r])
      BY <2>1 DEF Owned
    <3>2. unread = {} => in_txn
      BY <2>1 DEF Holds, EndUnread, Owned
    <3>3. QED
      BY <1>0, <3>1, <3>2 DEF Passes
  <2>2. \A s \in Requests : s # r => Inside(s, pc'[s]) = Inside(s, pc[s])
    BY <1>0 DEF Passes
  <2>3. QED
    BY <1>4, <2>1, <2>2 DEF Owned
<1>5. ASSUME NEW q \in Requests, Unkept(q)', ~Holds(q)'
      PROVE  NoneBy(q, rows') \/ Orphan'
  <2>0. Unkept(q)
    BY <1>0, <1>5 DEF Passes
  <2>1. CASE pc[r] = "ROLLBACK"
    <3>1. rows' = saved /\ in_txn
      BY <2>1, <1>0, <1>1 DEF Effects, Table
    <3>2. QED
      BY <2>0, <3>1 DEF Owned
  <2>2. CASE pc[r] = "COMMIT"
    <3>1. q # r /\ rows' = rows
      BY <2>2, <1>0, <1>1, <1>5 DEF Passes, Effects, Table
    <3>2. ~Holds(q) /\ ~Orphan
      BY <3>1, <2>2, <1>0, <1>1, <1>5 DEF Passes, Orphan
    <3>3. QED
      BY <2>0, <3>1, <3>2 DEF Owned
  <2>3. CASE pc[r] = "BEGIN"
    <3>1. rows' = rows /\ in_txn' /\ closed' = closed
      BY <2>3, <1>0 DEF Effects, Table
    <3>2. ~Holds(q)
      <4>1. ~Holds(r)
        BY <2>3 DEF Holds, Inside
      <4>2. QED
        BY <4>1, <1>0, <1>5 DEF Passes
    <3>3. Orphan => Orphan'
      <4>1. ASSUME Orphan PROVE \A p \in Requests : ~Holds(p)'
        <5>1. ~Inside(r, pc'[r])
          BY <4>1, <1>0, <2>3 DEF Passes, Orphan
        <5>2. QED
          BY <4>1, <5>1, <1>0, <1>2 DEF Passes, Orphan
      <4>2. QED
        BY <3>1, <4>1 DEF Orphan
    <3>4. QED
      BY <2>0, <3>1, <3>2, <3>3 DEF Owned
  <2>4. CASE pc[r] \notin {"BEGIN", "COMMIT", "ROLLBACK"}
    <3>0. Tool[r] = "upsert" => Holds(r) /\ Holds(r)'
      BY <2>4, <1>0 DEF Passes
    <3>1. Tool[q] = "upsert" /\ q # r
      BY <1>5, <2>0, <3>0 DEF Unkept
    <3>2. ~Holds(q)
      BY <3>1, <1>0, <1>5 DEF Passes
    <3>3. CASE NoneBy(q, rows)
      <4>1. rows' \in {rows, [rows EXCEPT ![Id[r]] = Mine(r)], [rows EXCEPT ![Id[r]] = NoRow]}
        BY <2>4, <1>0 DEF Effects, Table
      <4>2. Mine(r).by # q /\ NoRow.by # q
        BY <3>1, ToolAssumption DEF Mine, NoRow
      <4>3. QED
        BY <3>3, <4>1, <4>2, <1>0 DEF NoneBy
    <3>4. CASE Orphan
      <4>1. ~Holds(r)'
        BY <3>0, <3>4, <1>0, <1>2 DEF Orphan, Passes
      <4>2. in_txn' = in_txn /\ closed' = closed
        BY <2>4, <1>0 DEF Effects
      <4>3. \A p \in Requests : ~Holds(p)'
        BY <3>4, <4>1, <1>0 DEF Orphan, Passes
      <4>4. QED
        BY <3>4, <4>2, <4>3 DEF Orphan
    <3>5. QED
      BY <2>0, <3>2, <3>3, <3>4 DEF Owned
  <2>5. QED
    BY <2>1, <2>2, <2>3, <2>4
<1>6. ASSUME in_txn', NEW q \in Requests, Unkept(q)' PROVE NoneBy(q, saved')
  <2>0. Unkept(q)
    BY <1>0, <1>6 DEF Passes
  <2>1. CASE in_txn
    <3>1. saved' = saved
      BY <2>1, <1>0 DEF Effects
    <3>2. QED
      BY <2>0, <2>1, <3>1 DEF Owned
  <2>2. CASE ~in_txn
    <3>1. saved' = rows
      BY <1>6, <2>2, <1>0 DEF Effects
    <3>2. ~Holds(q) /\ ~Orphan
      BY <2>2 DEF Owned, Orphan
    <3>3. QED
      BY <2>0, <3>1, <3>2 DEF Owned
  <2>3. QED
    BY <2>1, <2>2
<1>7. QED
  <2>1. \A q \in Requests : Holds(q)' => in_txn'
    BY <1>3
  <2>2. \A q \in Requests : Unkept(q)' /\ ~Holds(q)' => NoneBy(q, rows') \/ Orphan'
    BY <1>5
  <2>3. QED
    BY <2>1, <2>2, <1>4, <1>6 DEF Owned, NoneBy

\* A session that closes leaves the engine as it is, and its end undoes what is open.
LEMMA CloseKeeps ==
    ASSUME ToolsInv, Close
    PROVE  ToolsInv'
<1>1. /\ engine' = engine /\ pc' = pc /\ reply' = reply /\ lost' = lost /\ unread' = unread
      /\ running' = running /\ closed' = TRUE /\ written' \subseteq Requests
  BY DEF Close
<1>2. Shape'
  BY <1>1 DEF ToolsInv, Shape, ToolsTypeOK, Commands, engine
<1>3. Somebodys'
  BY <1>1 DEF Somebodys, Ending
<1>4. \A q \in Requests : Holds(q)' = Holds(q) /\ Unkept(q)' = Unkept(q)
  BY <1>1 DEF Holds, EndUnread, Unkept, CommitUnread, Inside
<1>5. Orphan => Orphan'
  BY <1>1, <1>4 DEF Orphan, engine
<1>6. NoneLost' => Owned'
  BY <1>1, <1>4, <1>5 DEF ToolsInv, NoneLost, Owned, NoneBy, engine
<1>7. QED
  BY <1>2, <1>3, <1>6 DEF ToolsInv

\* Who is refused while the session closes leaves the transaction to the
\* engine's end.
LEMMA RefusedKeeps ==
    ASSUME ToolsInv, NEW r \in Requests, Refused(r)
    PROVE  ToolsInv'
<1>0. /\ engine' = engine /\ lost' = lost /\ unread' = unread /\ written' = written
      /\ running' = running /\ closed /\ closed' = closed
      /\ pc[r] # "done" /\ <<r, pc[r]>> \notin unread
      /\ Shape /\ pc[r] \in Commands(r)
  BY DEF Refused, session, ToolsInv, Shape
<1>1. Move(r, ErrorTo(r), ErrorReply(r, "failed"))
  BY ThrowMoves DEF Refused
<1>2. /\ pc'[r] = ErrorTo(r) /\ reply'[r] = ErrorReply(r, "failed")
      /\ \A q \in Requests \ {r} : pc'[q] = pc[q] /\ reply'[q] = reply[q]
      /\ pc' = [pc EXCEPT ![r] = ErrorTo(r)]
      /\ reply' = [reply EXCEPT ![r] = ErrorReply(r, "failed")]
  BY <1>0, <1>1 DEF Move, Shape, ToolsTypeOK
<1>3. Shape'
  <2>1. /\ ErrorTo(r) \in Commands(r) \cap {"done", "ROLLBACK"}
        /\ ErrorReply(r, "failed") \in Replies
    BY <1>0 DEF ErrorTo, ErrorReply, InTransactional, Commands, UpsertAt, OtherAt, Replies,
                Shape, ToolsTypeOK
  <2>2. /\ pc' \in [Requests -> UpsertAt \cup OtherAt]
        /\ \A q \in Requests : pc'[q] \in Commands(q)
    BY <1>0, <1>2, <2>1 DEF Shape, Commands
  <2>3. /\ reply' \in [Requests -> Replies \cup {"none"}]
        /\ \A q \in Requests : reply'[q] # "none" <=> pc'[q] \in {"done", "ROLLBACK"}
    <3>1. "none" \notin Replies
      BY DEF Replies
    <3>2. QED
      BY <1>0, <1>2, <2>1, <3>1 DEF Shape, ToolsTypeOK
  <2>4. QED
    BY <1>0, <2>2, <2>3 DEF Shape, ToolsTypeOK, Commands, engine
<1>4. Somebodys'
  BY <1>0 DEF Somebodys, Ending
<1>5. \A q \in Requests : /\ Holds(q)' => Holds(q)
                          /\ Inside(q, pc'[q]) => Inside(q, pc[q])
                          /\ Unkept(q)' => Unkept(q)
                          /\ q # r => Holds(q)' = Holds(q)
  <2> SUFFICES ASSUME NEW q \in Requests
               PROVE  /\ Holds(q)' => Holds(q)
                      /\ Inside(q, pc'[q]) => Inside(q, pc[q])
                      /\ Unkept(q)' => Unkept(q)
                      /\ q # r => Holds(q)' = Holds(q)
    OBVIOUS
  <2>1. CASE q = r
    <3>1. Inside(r, pc'[r]) => Inside(r, pc[r])
      BY <1>0, <1>2 DEF Inside, ErrorTo, InTransactional
    <3>2. ~EndUnread(r)
      BY <1>0 DEF EndUnread
    <3>3. Unkept(r)' => Unkept(r)
      BY <1>0 DEF Unkept, CommitUnread
    <3>4. QED
      BY <2>1, <3>1, <3>2, <3>3 DEF Holds
  <2>2. CASE q # r
    <3>1. pc'[q] = pc[q] /\ reply'[q] = reply[q]
      BY <1>2, <2>2
    <3>2. QED
      BY <3>1, <1>0 DEF Holds, EndUnread, Inside, Unkept, CommitUnread
  <2>3. QED
    BY <2>1, <2>2
<1>6. ASSUME NoneLost' PROVE Owned'
  <2>1. Owned
    BY <1>0, <1>6 DEF ToolsInv, NoneLost
  <2>2. rows' = rows /\ saved' = saved /\ in_txn' = in_txn
    BY <1>0 DEF engine
  <2>3. ASSUME NEW q \in Requests, Unkept(q)', ~Holds(q)'
        PROVE  NoneBy(q, rows') \/ Orphan'
    <3>1. Orphan => Orphan'
      BY <1>0, <1>5, <2>2 DEF Orphan
    <3>2. CASE Holds(q)
      <4>1. q = r /\ in_txn
        BY <1>5, <2>1, <2>3, <3>2 DEF Owned
      <4>2. \A p \in Requests : ~Holds(p)'
        BY <1>5, <2>1, <2>3, <3>2 DEF Owned, Holds
      <4>3. QED
        BY <1>0, <2>2, <4>1, <4>2 DEF Orphan
    <3>3. CASE ~Holds(q)
      BY <1>5, <2>1, <2>2, <2>3, <3>1, <3>3 DEF Owned
    <3>4. QED
      BY <3>2, <3>3
  <2>4. \A q \in Requests : Holds(q)' => in_txn'
    BY <1>5, <2>1, <2>2 DEF Owned
  <2>5. \A p, q \in Requests : Inside(p, pc'[p]) /\ Inside(q, pc'[q]) => p = q
    BY <1>5, <2>1 DEF Owned
  <2>6. in_txn' => \A q \in Requests : Unkept(q)' => NoneBy(q, saved')
    BY <1>5, <2>1, <2>2 DEF Owned
  <2>7. QED
    BY <2>3, <2>4, <2>5, <2>6 DEF Owned, NoneBy
<1>7. QED
  BY <1>3, <1>4, <1>6 DEF ToolsInv

\* The end of the engine undoes what is open, and ends every call.
LEMMA EngineEndKeeps ==
    ASSUME ToolsInv, EngineEnd
    PROVE  ToolsInv'
<1>1. \A r \in Requests : pc'[r] = "done" /\ ~Inside(r, pc'[r]) /\ ~Holds(r)'
  BY DEF EngineEnd, Inside, Holds
<1>2. Shape'
  BY <1>1 DEF ToolsInv, Shape, ToolsTypeOK, EngineEnd, Commands, UpsertAt, OtherAt, Replies
<1>3. Somebodys'
  BY DEF EngineEnd, Somebodys
<1>4. ASSUME NoneLost' PROVE Owned'
  <2>1. Owned
    BY <1>4 DEF ToolsInv, EngineEnd, NoneLost
  <2>2. ASSUME NEW q \in Requests, Unkept(q)' PROVE NoneBy(q, rows')
    <3>1. Unkept(q)
      <4>1. reply[q] = "upserted" => reply'[q] = "upserted"
        BY DEF EngineEnd
      <4>2. QED
        BY <2>2, <1>1, <4>1 DEF Unkept, CommitUnread, EngineEnd
    <3>2. CASE in_txn
      BY <2>1, <3>1, <3>2 DEF Owned, EngineEnd
    <3>3. CASE ~in_txn
      BY <2>1, <3>1, <3>3 DEF Owned, Orphan, EngineEnd
    <3>4. QED
      BY <3>2, <3>3
  <2>3. ~in_txn'
    BY DEF EngineEnd
  <2>4. QED
    BY <1>1, <2>2, <2>3 DEF Owned, NoneBy
<1>5. QED
  BY <1>2, <1>3, <1>4 DEF ToolsInv

LEMMA ToolsStep == ToolsInv /\ [Next]_vars => ToolsInv'
<1> SUFFICES ASSUME ToolsInv, [Next]_vars PROVE ToolsInv'
  OBVIOUS
<1>1. CASE UNCHANGED vars
  <2>1. \A q \in Requests : Holds(q)' = Holds(q) /\ Unkept(q)' = Unkept(q)
    BY <1>1 DEF vars, Holds, EndUnread, Unkept, CommitUnread, Inside
  <2>2. Shape' /\ Somebodys' /\ (NoneLost' <=> NoneLost)
    BY <1>1 DEF vars, engine, session, ToolsInv, Shape, ToolsTypeOK, Commands, Somebodys,
                Inside, NoneLost, Ending
  <2>3. Owned => Owned'
    BY <1>1, <2>1 DEF vars, engine, session, Owned, Orphan, Inside, NoneBy
  <2>4. QED
    BY <2>2, <2>3 DEF ToolsInv
<1>2. CASE Close
  BY <1>2, CloseKeeps
<1>3. CASE EngineEnd
  BY <1>3, EngineEndKeeps
<1>4. ASSUME NEW r \in Requests, Step(r) PROVE ToolsInv'
  <2>1. NoneLost' => NoneLost
    <3>1. PICK x, y : Move(r, x, y) /\ Moves(r, x, y)
      BY <1>4, StepMoves DEF ToolsInv
    <3>2. QED
      BY <3>1 DEF Moves, Timed, Unheard, NoneLost
  <2>2. QED
    BY <1>4, <2>1, StepShape, StepSomebodys, StepOwned DEF ToolsInv
<1>5. ASSUME NEW r \in Requests, Refused(r) PROVE ToolsInv'
  BY <1>5, RefusedKeeps
<1>6. QED
  BY <1>1, <1>2, <1>3, <1>4, <1>5 DEF Next

LEMMA ToolsAlways == Spec => []ToolsInv
BY ToolsInit, ToolsStep, PTL DEF Spec

-----------------------------------------------------------------------------
(* What the tools promise *)

\* The engine's table, its transaction and each request keep their types.
THEOREM ToolsTypeCorrect == Spec => []ToolsTypeOK
<1>1. ToolsInv => ToolsTypeOK
  BY DEF ToolsInv, Shape
<1>2. QED
  BY <1>1, ToolsAlways, PTL

\* No transaction is left open by tools that are done, unless a BEGIN was lost
\* (server.js:192-206) or the engine is about to end.
THEOREM TransactionsAreOwned == Spec => []TransactionOwned
<1>1. ToolsInv => TransactionOwned
  <2>1. \A r \in Requests : Inside(r, pc[r]) => InsideTransaction(r)
    BY DEF Inside, InsideTransaction, InTransactional
  <2>2. QED
    BY <2>1 DEF ToolsInv, Somebodys, TransactionOwned, LostCommand
<1>2. QED
  BY <1>1, ToolsAlways, PTL

\* An upsert that reports an error has stored nothing (server.js:239), whatever
\* ran beside it and timed out and whenever the engine ends, unless a COMMIT
\* timed out or its own was run and not read (asmdb.js:49-53).
THEOREM FailedUpsertsLeaveNothing == Spec => []FailedUpsertLeavesNothing
<1>1. ToolsInv => FailedUpsertLeavesNothing
  <2> SUFFICES ASSUME Owned, NEW r \in Requests, Tool[r] = "upsert", pc[r] = "done",
                      reply[r] # "upserted", ~CommitUnread(r)
               PROVE  NoneBy(r, Stays)
    BY DEF ToolsInv, NoneLost, LostCommand, NoneBy, FailedUpsertLeavesNothing
  <2>1. Unkept(r) /\ ~Holds(r)
    BY DEF Unkept, Holds, Inside
  <2>2. QED
    BY <2>1 DEF Owned, Orphan, Stays
<1>2. QED
  BY <1>1, ToolsAlways, PTL

\* Until a COMMIT is lost no two upserts are inside one another's transaction
\* (server.js:193).
THEOREM UpsertsTakeTurns == Spec => []OneUpsertAtATime
<1>1. ToolsInv => OneUpsertAtATime
  BY DEF ToolsInv, NoneLost, LostCommand, Owned, OneUpsertAtATime, Inside,
         InsideTransaction, InTransactional
<1>2. QED
  BY <1>1, ToolsAlways, PTL
=============================================================================
