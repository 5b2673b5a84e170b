--------------------------- MODULE ConsoleProofs ----------------------------
(***************************************************************************)
(* Tokens, rows and messages stay with their database: the invariants of   *)
(* ConsoleProps for every number of databases, requests and tokens.        *)
(***************************************************************************)
EXTENDS ConsoleProps, TLAPS

\* A request carries the token of its database, or none.
Owned(r) == r.owner \in {r.db, None} /\ (r.kind \notin {"list", "nopreview"} => r.db \in Dbs)

\* What holds of a page whenever a handler begins, in the middle of each of
\* its calls, and when it ends.
PageOK(s) ==
    /\ s \in Pages
    /\ \A d \in Dbs : s.tokens[d] # NoToken => s.tokens[d].db = d
    /\ s.field # NoToken => s.field.db = s.current
    /\ s.preview # None => s.preview = s.current
    /\ s.rotated # None => s.view = "access" /\ s.current \in {s.rotated, None}
    /\ \A r \in s.sent : Owned(r)

\* The inductive invariant.
OwnInv ==
    /\ ConsoleTypeOK
    /\ PageOK(page)
    /\ \A r \in inflight : Owned(r)

-----------------------------------------------------------------------------
(* The functions of the page *)

\* A field that holds no token has no database; one that holds a token has.
LEMMA TokenShape ==
    /\ None \notin Dbs /\ NoToken \notin Token
    /\ NoToken.db = None /\ NoToken \in Tokens
    /\ \A t \in Token : t.db \in Dbs
BY ConsoleAssumption DEF Token, NoToken, Tokens

LEMMA HeldOK ==
    ASSUME NEW s, PageOK(s)
    PROVE  /\ HeldToken(s) \in Tokens
           /\ HeldToken(s) # NoToken => s.current \in Dbs /\ HeldToken(s).db = s.current
           /\ HeldToken(s).db \in {s.current, None}
BY TokenShape DEF HeldToken, PageOK, Pages

LEMMA SendOK ==
    ASSUME NEW s, PageOK(s), NEW r \in Requests, Owned(r)
    PROVE  PageOK(Send(s, r))
BY DEF Send, PageOK, Pages

LEMMA RequestOK ==
    ASSUME NEW kind \in Kinds \cup {"nopreview"}, NEW d \in Dbs \cup {None}, NEW t \in Tokens,
           t.db \in {d, None}, kind \notin {"list", "nopreview"} => d \in Dbs
    PROVE  Request(kind, d, t) \in Requests /\ Owned(Request(kind, d, t))
BY TokenShape DEF Request, Requests, Owned, Tokens

LEMMA RememberOK ==
    ASSUME NEW s, PageOK(s), NEW d \in Dbs \cup {None}, NEW t \in Tokens, t # NoToken => t.db = d
    PROVE  PageOK(Remember(s, d, t))
BY TokenShape DEF Remember, PageOK, Pages

LEMMA ForgetOK ==
    ASSUME NEW s, PageOK(s), NEW d \in Dbs
    PROVE  PageOK(Forget(s, d))
BY TokenShape DEF Forget, PageOK, Pages

\* Clearing the preview leaves a page as good as it was.
LEMMA BlankOK ==
    ASSUME NEW s, PageOK(s)
    PROVE  PageOK([s EXCEPT !.preview = None])
BY DEF PageOK, Pages

LEMMA LoadPreviewOK ==
    ASSUME NEW s, PageOK(s)
    PROVE  /\ PageOK(LoadPreview(s))
           /\ LoadPreview(s).preview = None
<1> DEFINE blank == [s EXCEPT !.preview = None]
<1>1. PageOK(blank) /\ blank.preview = None
  BY BlankOK DEF PageOK, Pages
<1>2. CASE HeldToken(s) = NoToken
  <2> DEFINE r == Request("nopreview", None, NoToken)
  <2>1. r \in Requests /\ Owned(r)
    BY RequestOK, TokenShape
  <2>2. LoadPreview(s) = Send(blank, r)
    BY <1>2 DEF LoadPreview
  <2>3. PageOK(Send(blank, r))
    BY <1>1, <2>1, SendOK
  <2> HIDE DEF r
  <2>4. Send(blank, r).preview = None
    BY <1>1 DEF Send, PageOK, Pages
  <2>5. QED
    BY <2>2, <2>3, <2>4
<1>3. CASE HeldToken(s) # NoToken
  <2> DEFINE r == Request("preview", s.current, HeldToken(s))
  <2>1. r \in Requests /\ Owned(r)
    BY <1>3, RequestOK, HeldOK DEF Kinds
  <2>2. LoadPreview(s) = Send(blank, r)
    BY <1>3 DEF LoadPreview
  <2>3. PageOK(Send(blank, r))
    BY <1>1, <2>1, SendOK
  <2> HIDE DEF r
  <2>4. Send(blank, r).preview = None
    BY <1>1 DEF Send, PageOK, Pages
  <2>5. QED
    BY <2>2, <2>3, <2>4
<1>4. QED
  BY <1>2, <1>3

LEMMA ShowTerminalOK ==
    ASSUME NEW s, PageOK(s)
    PROVE  PageOK(ShowTerminal(s))
<1>1. /\ HeldToken(s) \in Tokens
      /\ HeldToken(s) # NoToken => HeldToken(s).db = s.current
  BY HeldOK
<1>2. QED
  BY <1>1 DEF ShowTerminal, PageOK, Pages

LEMMA ApplyRouteOK ==
    ASSUME NEW s, PageOK(s), NEW view \in Views
    PROVE  PageOK(ApplyRoute(s, view))
<1> DEFINE off == [s EXCEPT !.rotated = IF s.view = "access" /\ view # "access" THEN None ELSE @,
                            !.view = view]
<1>1. PageOK(off)
  BY DEF PageOK, Pages
<1>2. ApplyRoute(s, view) \in {LoadPreview(off), [off EXCEPT !.preview = None], ShowTerminal(off), off}
  BY DEF ApplyRoute
<1> HIDE DEF off
<1>3. QED
  BY <1>1, <1>2, LoadPreviewOK, BlankOK, ShowTerminalOK

\* Selecting a database gives the field its token and clears what was shown of
\* another; a refresh of the same one changes nothing else.
LEMMA SelectDatabaseOK ==
    ASSUME NEW s, PageOK(s), NEW d \in Dbs, NEW refresh \in BOOLEAN
    PROVE  PageOK(SelectDatabase(s, d, refresh))
<1> DEFINE moved == s.current # d
           clear == IF moved THEN [s EXCEPT !.rotated = None, !.preview = None] ELSE s
           at == [clear EXCEPT !.current = d, !.field = FieldFor(s, d)]
           shown == ShowTerminal(at)
<1>1. /\ PageOK(clear)
      /\ moved => clear.rotated = None /\ clear.preview = None
  BY DEF PageOK, Pages
<1>2. FieldFor(s, d) \in Tokens /\ (FieldFor(s, d) # NoToken => FieldFor(s, d).db = d)
  BY DEF FieldFor, PageOK, Pages
<1>3. clear.tokens = s.tokens /\ (~moved => clear = s)
  BY DEF PageOK, Pages
<1> HIDE DEF clear
<1>4. PageOK(at)
  BY <1>1, <1>2, <1>3, TokenShape DEF PageOK, Pages
<1>5. SelectDatabase(s, d, refresh) \in {at, LoadPreview(shown), shown}
  BY DEF SelectDatabase, clear
<1> HIDE DEF at
<1>6. QED
  BY <1>4, <1>5, ShowTerminalOK, LoadPreviewOK

LEMMA LoadDatabasesOK ==
    ASSUME NEW s, PageOK(s), ConsoleTypeOK
    PROVE  PageOK(LoadDatabases(s))
<1> DEFINE q == Request("list", None, NoToken)
           r == [q EXCEPT !.seen = exists]
<1>1. q \in Requests /\ Owned(q) /\ q.kind = "list"
  BY RequestOK, TokenShape DEF Kinds, Request
<1> HIDE DEF q
<1>2. r \in Requests /\ Owned(r)
  BY <1>1 DEF Requests, Owned, ConsoleTypeOK
<1>3. LoadDatabases(s) \in {s, Send(s, r)}
  BY DEF LoadDatabases, q
<1> HIDE DEF r
<1>4. QED
  BY <1>2, <1>3, SendOK

LEMMA ExecOK ==
    ASSUME NEW s, PageOK(s), NEW kind \in {"command", "bench", "sample"}
    PROVE  PageOK(Exec(s, kind))
<1>1. CASE HeldToken(s) = NoToken
  BY <1>1, ApplyRouteOK DEF Exec, Views
<1>2. CASE HeldToken(s) # NoToken
  <2> DEFINE q == Request(kind, s.current, HeldToken(s))
             r == [q EXCEPT !.left = IF kind = "sample" THEN SampleSize ELSE 0]
  <2>1. q \in Requests /\ Owned(q)
    BY <1>2, RequestOK, HeldOK DEF Kinds
  <2> HIDE DEF q
  <2>2. r \in Requests /\ Owned(r)
    BY <2>1, ConsoleAssumption DEF Requests, Owned
  <2>3. Exec(s, kind) = Send(s, r)
    BY <1>2 DEF Exec, q
  <2> HIDE DEF r
  <2>4. QED
    BY <2>2, <2>3, SendOK
<1>3. QED
  BY <1>1, <1>2

LEMMA RenderCreatedOK ==
    ASSUME NEW s, PageOK(s), NEW d \in Dbs, NEW t \in Tokens, t # NoToken => t.db = d
    PROVE  PageOK(RenderCreated(s, d, t))
<1> DEFINE kept == Remember(s, d, t)
           k2 == [kept EXCEPT !.listed = @ \cup {d}]
<1>1. PageOK(kept)
  BY RememberOK
<1> HIDE DEF kept
<1>2. PageOK(k2)
  BY <1>1 DEF PageOK, Pages
<1>3. RenderCreated(s, d, t) = SelectDatabase(k2, d, FALSE)
  BY DEF RenderCreated, kept
<1> HIDE DEF k2
<1>4. QED
  BY <1>2, <1>3, SelectDatabaseOK

\* The new token is shown only where its database is selected, in Access.
LEMMA RenderRotatedTokenOK ==
    ASSUME NEW s, PageOK(s), NEW d \in Dbs, NEW t \in Tokens, t # NoToken => t.db = d
    PROVE  PageOK(RenderRotatedToken(s, d, t))
<1> DEFINE kept == Remember(s, d, t)
<1>1. PageOK(kept) /\ kept.current = s.current /\ kept.view = s.view
  BY RememberOK DEF Remember, PageOK, Pages
<1> HIDE DEF kept
<1>2. RenderRotatedToken(s, d, t) =
        IF s.current = d /\ s.view = "access" THEN [kept EXCEPT !.rotated = d] ELSE kept
  BY DEF RenderRotatedToken, kept
<1>3. QED
  BY <1>1, <1>2 DEF PageOK, Pages

LEMMA RenderRotationTimeoutOK ==
    ASSUME NEW s, PageOK(s), NEW d \in Dbs
    PROVE  PageOK(RenderRotationTimeout(s, d))
<1> DEFINE lost == Forget(s, d)
<1>1. PageOK(lost)
  BY ForgetOK
<1>2. lost.view = s.view
  BY DEF Forget, PageOK, Pages
<1>3. RenderRotationTimeout(s, d) \in
        {lost, [lost EXCEPT !.field = NoToken],
         [lost EXCEPT !.field = NoToken, !.rotated = None]}
  <2>1. CASE s.view = "access"
    BY <2>1 DEF RenderRotationTimeout
  <2>2. CASE s.view # "access"
    <3>1. [lost EXCEPT !.field = NoToken, !.rotated = @] = [lost EXCEPT !.field = NoToken]
      BY <1>1 DEF PageOK, Pages
    <3>2. QED
      BY <2>2, <3>1 DEF RenderRotationTimeout
  <2>3. QED
    BY <2>1, <2>2
<1> HIDE DEF lost
<1>4. PageOK([lost EXCEPT !.field = NoToken])
  BY <1>1, TokenShape DEF PageOK, Pages
<1>5. PageOK([lost EXCEPT !.field = NoToken, !.rotated = None])
  BY <1>1, TokenShape DEF PageOK, Pages
<1>6. QED
  BY <1>1, <1>3, <1>4, <1>5

\* Nothing selected and nothing shown.
LEMMA RenderDeletedOK ==
    ASSUME NEW s, PageOK(s)
    PROVE  PageOK(RenderDeleted(s))
<1>1. CASE s.current = None
  BY <1>1, BlankOK DEF RenderDeleted
<1>2. CASE s.current # None
  <2> DEFINE f == Forget(s, s.current)
             gone == [f EXCEPT !.listed = @ \ {s.current}, !.current = None,
                               !.field = NoToken, !.preview = None]
  <2>1. PageOK(f)
    BY <1>2, ForgetOK DEF PageOK, Pages
  <2> HIDE DEF f
  <2>2. PageOK(gone)
    BY <2>1, TokenShape DEF PageOK, Pages
  <2>3. RenderDeleted(s) = ApplyRoute(ShowTerminal(gone), "access")
    BY <1>2 DEF RenderDeleted, f
  <2> HIDE DEF gone
  <2>4. PageOK(ShowTerminal(gone))
    BY <2>2, ShowTerminalOK
  <2>5. QED
    BY <2>3, <2>4, ApplyRouteOK DEF Views
<1>3. QED
  BY <1>1, <1>2

-----------------------------------------------------------------------------
(* The handlers *)

\* A handler that leaves a good page, with requests that carry their own
\* tokens, leaves the invariant as it was.
LEMMA BecomeOK ==
    ASSUME NEW s, PageOK(s), NEW rs \in SUBSET Requests, \A r \in rs : Owned(r), Become(s, rs)
    PROVE  PageOK(page') /\ inflight' \in SUBSET Requests /\ \A r \in inflight' : Owned(r)
<1>1. page' = [s EXCEPT !.sent = {}] /\ inflight' = InFlightAfter(rs, s)
  BY DEF Become
<1>2. PageOK(page')
  BY <1>1 DEF PageOK, Pages
<1>3. \A r \in rs : /\ [r EXCEPT !.latest = FALSE] \in Requests
                    /\ Owned([r EXCEPT !.latest = FALSE])
  BY DEF Requests, Owned
<1>4. \A q \in s.sent : q \in Requests /\ Owned(q)
  BY DEF PageOK, Pages
<1>5. \A q \in inflight' : q \in Requests /\ Owned(q)
  BY <1>1, <1>3, <1>4 DEF InFlightAfter
<1>6. QED
  BY <1>2, <1>5

\* The selection, or the page, never leaves the databases.
LEMMA UserOK ==
    ASSUME OwnInv, NEW s, PageOK(s), User(s)
    PROVE  OwnInv'
<1>1. PageOK(page') /\ inflight' \in SUBSET Requests /\ \A r \in inflight' : Owned(r)
  BY BecomeOK DEF User, OwnInv, ConsoleTypeOK
<1>2. UNCHANGED <<signedOut, exists, accepted, pending, issued>>
  BY DEF User, server
<1>3. ConsoleTypeOK'
  BY <1>1, <1>2 DEF OwnInv, ConsoleTypeOK, PageOK
<1>4. PageOK(page)'
  BY <1>1 DEF PageOK, Owned
<1>5. QED
  BY <1>1, <1>3, <1>4 DEF OwnInv, Owned

LEMMA AnswerOK ==
    ASSUME OwnInv, NEW r \in inflight, NEW s, PageOK(s), Answer(r, s),
           exists' \in SUBSET Dbs, accepted' \in [Dbs -> 1..MaxTokens],
           pending' \in [Dbs -> 0..MaxTokens], issued' \in [Dbs -> 1..MaxTokens]
    PROVE  OwnInv'
<1>0. inflight \ {r} \in SUBSET Requests /\ \A q \in inflight \ {r} : Owned(q)
  BY DEF OwnInv, ConsoleTypeOK
<1>1. PageOK(page') /\ inflight' \in SUBSET Requests /\ \A q \in inflight' : Owned(q)
  BY <1>0, BecomeOK DEF Answer
<1>2. UNCHANGED signedOut
  BY DEF Answer
<1>3. ConsoleTypeOK'
  BY <1>1, <1>2 DEF OwnInv, ConsoleTypeOK, PageOK
<1>4. PageOK(page)'
  BY <1>1 DEF PageOK, Owned
<1>5. QED
  BY <1>1, <1>3, <1>4 DEF OwnInv, Owned

\* The controls of the terminal say nothing of the rest.
LEMMA BusyOK ==
    ASSUME NEW s, PageOK(s), NEW b \in BOOLEAN
    PROVE  PageOK([s EXCEPT !.busy = b])
BY DEF PageOK, Pages

\* What a rotation prepared is a token of that database.
LEMMA PrepareRotationOK ==
    ASSUME ConsoleTypeOK, NEW d \in Dbs, PrepareRotation(d)
    PROVE  /\ exists' \in SUBSET Dbs /\ accepted' \in [Dbs -> 1..MaxTokens]
           /\ pending' \in [Dbs -> 0..MaxTokens] /\ issued' \in [Dbs -> 1..MaxTokens]
           /\ [db |-> d, gen |-> pending'[d]] \in Tokens
<1>1. /\ pending[d] \in 0..MaxTokens /\ issued[d] \in 1..MaxTokens
      /\ pending[d] = 0 => issued[d] + 1 \in 1..MaxTokens
  BY ConsoleAssumption DEF PrepareRotation, ConsoleTypeOK
<1>2. pending' = [pending EXCEPT ![d] = IF pending[d] = 0 THEN issued[d] + 1 ELSE pending[d]]
  BY DEF PrepareRotation, ConsoleTypeOK
<1>3. /\ pending' \in [Dbs -> 0..MaxTokens] /\ pending'[d] \in 1..MaxTokens
  BY <1>1, <1>2, ConsoleAssumption DEF ConsoleTypeOK
<1>4. issued' \in [Dbs -> 1..MaxTokens]
  BY <1>1 DEF PrepareRotation, ConsoleTypeOK
<1>5. QED
  BY <1>3, <1>4 DEF PrepareRotation, ConsoleTypeOK, Tokens, Token

-----------------------------------------------------------------------------
(* The invariant *)

LEMMA OwnInit == Init => OwnInv
<1> SUFFICES ASSUME Init PROVE OwnInv
  OBVIOUS
<1>1. PageInit \in Pages
  BY TokenShape DEF PageInit, Pages, Views
<1>2. PageOK(page)
  BY <1>1 DEF Init, PageInit, PageOK
<1>3. /\ accepted \in [Dbs -> 1..MaxTokens] /\ issued \in [Dbs -> 1..MaxTokens]
      /\ pending \in [Dbs -> 0..MaxTokens]
  <2>1. 1 \in 1..MaxTokens /\ 0 \in 0..MaxTokens
    BY ConsoleAssumption
  <2>2. QED
    BY <2>1 DEF Init
<1>4. /\ page \in Pages /\ inflight \in SUBSET Requests /\ signedOut \in BOOLEAN
      /\ exists \in SUBSET Dbs
  BY <1>1, ConsoleAssumption DEF Init
<1>5. ConsoleTypeOK
  BY <1>3, <1>4 DEF ConsoleTypeOK
<1>6. QED
  BY <1>2, <1>5 DEF Init, OwnInv

\* What the user does.
LEMMA OwnUser ==
    ASSUME OwnInv,
           \/ Route \/ Choose \/ PasteToken \/ SaveToken
           \/ RunTerminalCommand \/ RunBench \/ LoadSampleData
           \/ Create \/ RotateCurrentToken \/ UpgradeCurrentDatabase \/ DeleteCurrentDatabase
           \/ Load \/ SignOut
    PROVE  OwnInv'
<1>0. PageOK(page) /\ page \in Pages /\ ConsoleTypeOK
  BY DEF OwnInv, PageOK
<1>1. CASE Route
  BY <1>0, <1>1, ApplyRouteOK, UserOK DEF Route
<1>2. CASE Choose
  <2>1. PICK d \in page.listed : User(SelectDatabase(page, d, FALSE))
    BY <1>2 DEF Choose
  <2>2. d \in Dbs
    BY <1>0 DEF Pages
  <2>3. QED
    BY <1>0, <2>1, <2>2, SelectDatabaseOK, UserOK
<1>3. CASE PasteToken
  <2>1. PICK g \in 1..issued[page.current] :
          User([page EXCEPT !.field = [db |-> page.current, gen |-> g]])
    BY <1>3 DEF PasteToken
  <2>2. page.current \in Dbs /\ g \in 1..MaxTokens
    BY <1>0, <1>3, ConsoleAssumption DEF PasteToken, Pages, ConsoleTypeOK
  <2> DEFINE t == [db |-> page.current, gen |-> g]
  <2>3. t \in Tokens /\ t.db = page.current
    BY <2>2 DEF Token, Tokens
  <2>4. PageOK([page EXCEPT !.field = t])
    <3> HIDE DEF t
    <3> QED BY <1>0, <2>3 DEF PageOK, Pages
  <2>5. QED
    BY <2>1, <2>4, UserOK
<1>4. CASE SaveToken
  <2> DEFINE s == Remember(page, page.current, page.field)
  <2>1. PageOK(s)
    BY <1>0, RememberOK DEF PageOK, Pages
  <2>2. User(IF s.view = "database" THEN LoadPreview(s) ELSE s)
    BY <1>4 DEF SaveToken
  <2> HIDE DEF s
  <2>3. QED
    BY <2>1, <2>2, LoadPreviewOK, UserOK
<1>5. CASE RunTerminalCommand \/ RunBench
  <2>1. PICK kind \in {"command", "bench"} :
          User(IF Exec(page, kind).sent = {} THEN Exec(page, kind)
               ELSE [Exec(page, kind) EXCEPT !.busy = TRUE])
    BY <1>5 DEF RunTerminalCommand, RunBench
  <2>2. PageOK(Exec(page, kind))
    BY <1>0, ExecOK
  <2>3. PageOK([Exec(page, kind) EXCEPT !.busy = TRUE])
    BY <2>2, BusyOK
  <2>4. QED
    BY <2>1, <2>2, <2>3, UserOK
<1>6. CASE LoadSampleData
  <2>1. PageOK([Exec(page, "sample") EXCEPT !.preview = None])
    BY <1>0, ExecOK, BlankOK
  <2>2. QED
    BY <1>6, <2>1, UserOK DEF LoadSampleData
<1>7. CASE Create
  <2>1. PICK d \in Dbs : User(Send(page, Request("create", d, NoToken)))
    BY <1>7 DEF Create
  <2>2. PageOK(Send(page, Request("create", d, NoToken)))
    BY <1>0, SendOK, RequestOK, TokenShape DEF Kinds
  <2>3. QED
    BY <2>1, <2>2, UserOK
<1>8. CASE RotateCurrentToken
  <2> DEFINE s == [page EXCEPT !.rotated = None]
  <2>1. PageOK(s)
    BY <1>0 DEF PageOK, Pages
  <2>2. page.current \in Dbs /\ User(Send(s, Request("rotate", page.current, NoToken)))
    BY <1>0, <1>8 DEF RotateCurrentToken, Pages
  <2> HIDE DEF s
  <2>3. PageOK(Send(s, Request("rotate", page.current, NoToken)))
    BY <2>1, <2>2, SendOK, RequestOK, TokenShape DEF Kinds
  <2>4. QED
    BY <2>2, <2>3, UserOK
<1>9. CASE UpgradeCurrentDatabase \/ DeleteCurrentDatabase
  <2>1. PICK kind \in {"upgrade", "delete"} :
          User(Send(page, Request(kind, page.current, NoToken)))
    BY <1>9 DEF UpgradeCurrentDatabase, DeleteCurrentDatabase
  <2>2. page.current \in Dbs
    BY <1>0, <1>9 DEF UpgradeCurrentDatabase, DeleteCurrentDatabase, Pages
  <2>3. PageOK(Send(page, Request(kind, page.current, NoToken)))
    BY <1>0, <2>2, SendOK, RequestOK, TokenShape DEF Kinds
  <2>4. QED
    BY <2>1, <2>3, UserOK
<1>10. CASE Load
  BY <1>0, <1>10, LoadDatabasesOK, UserOK DEF Load
<1>11. CASE SignOut
  <2>1. page' = [page EXCEPT !.tokens = [d \in Dbs |-> NoToken], !.field = NoToken]
    BY <1>11 DEF SignOut
  <2>2. PageOK(page')
    BY <1>0, <2>1, TokenShape DEF PageOK, Pages
  <2>3. UNCHANGED <<inflight, exists, accepted, pending, issued>> /\ signedOut' = TRUE
    BY <1>11 DEF SignOut, server
  <2>4. ConsoleTypeOK'
    BY <1>0, <2>2, <2>3 DEF ConsoleTypeOK, PageOK
  <2>5. PageOK(page)'
    BY <2>2 DEF PageOK, Owned
  <2>6. QED
    BY <2>3, <2>4, <2>5 DEF OwnInv, Owned
<1>12. QED
  BY <1>1, <1>2, <1>3, <1>4, <1>5, <1>6, <1>7, <1>8, <1>9, <1>10, <1>11

\* What comes back.
LEMMA OwnAnswer ==
    ASSUME OwnInv, NEW r \in inflight,
           \/ ListAnswer(r) \/ PreviewAnswer(r) \/ ExecAnswer(r)
           \/ SampleAnswer(r) \/ CreateAnswer(r) \/ RotateAnswer(r) \/ RotateTimeout(r)
           \/ UpgradeAnswer(r) \/ DeleteAnswer(r) \/ Failed(r)
    PROVE  OwnInv'
<1>0. /\ PageOK(page) /\ page \in Pages /\ ConsoleTypeOK
      /\ r \in Requests /\ Owned(r)
  BY DEF OwnInv, PageOK, ConsoleTypeOK
<1>a. UNCHANGED server =>
        /\ exists' \in SUBSET Dbs /\ accepted' \in [Dbs -> 1..MaxTokens]
        /\ pending' \in [Dbs -> 0..MaxTokens] /\ issued' \in [Dbs -> 1..MaxTokens]
  BY <1>0 DEF server, ConsoleTypeOK
<1>b. r.kind \notin {"list", "nopreview"} => r.db \in Dbs
  BY <1>0 DEF Owned
<1>1. CASE ListAnswer(r)
  <2> DEFINE s == [page EXCEPT !.listed = r.seen]
  <2>1. PageOK(s)
    BY <1>0 DEF PageOK, Pages, Requests
  <2>2. Answer(r, IF s.current \in r.seen THEN SelectDatabase(s, s.current, TRUE) ELSE s)
    BY <1>1 DEF ListAnswer
  <2>3. r.seen \subseteq Dbs
    BY <1>0 DEF Requests
  <2> HIDE DEF s
  <2>4. s.current \in r.seen => PageOK(SelectDatabase(s, s.current, TRUE))
    BY <2>1, <2>3, SelectDatabaseOK
  <2>5. UNCHANGED server
    BY <1>1 DEF ListAnswer
  <2>6. QED
    BY <1>a, <2>1, <2>2, <2>4, <2>5, AnswerOK
<1>2. CASE PreviewAnswer(r)
  <2>1. Answer(r, IF PreviewWanted(r) THEN [page EXCEPT !.preview = r.db] ELSE page)
    BY <1>2 DEF PreviewAnswer
  <2>2. PreviewWanted(r) => PageOK([page EXCEPT !.preview = r.db])
    BY <1>0 DEF PreviewWanted, Current, PageOK, Pages
  <2>3. UNCHANGED server
    BY <1>2 DEF PreviewAnswer
  <2>4. QED
    BY <1>0, <1>a, <2>1, <2>2, <2>3, AnswerOK
<1>3. CASE ExecAnswer(r)
  <2>1. PICK s \in {page, LoadPreview(page)} : Answer(r, [s EXCEPT !.busy = FALSE])
    BY <1>3 DEF ExecAnswer
  <2>2. PageOK([s EXCEPT !.busy = FALSE])
    BY <1>0, <2>1, LoadPreviewOK, BusyOK
  <2>3. UNCHANGED server
    BY <1>3 DEF ExecAnswer
  <2>4. QED
    BY <1>a, <2>1, <2>2, <2>3, AnswerOK
<1>4. CASE SampleAnswer(r)
  <2> DEFINE q == [r EXCEPT !.left = @ - 1]
  <2>1. Answer(r, IF r.left > 1 THEN Send(page, q) ELSE LoadPreview(page))
    BY <1>4 DEF SampleAnswer
  <2>2. r.left > 1 => q \in Requests /\ Owned(q)
    BY <1>0 DEF Requests, Owned
  <2>3. UNCHANGED server
    BY <1>4 DEF SampleAnswer
  <2> HIDE DEF q
  <2>4. r.left > 1 => PageOK(Send(page, q))
    BY <1>0, <2>2, SendOK
  <2>5. QED
    BY <1>0, <1>a, <2>1, <2>3, <2>4, LoadPreviewOK, AnswerOK
<1>5. CASE CreateAnswer(r)
  <2> DEFINE t == [db |-> r.db, gen |-> 1]
  <2>1. r.db \in Dbs
    BY <1>b, <1>5 DEF CreateAnswer
  <2>2. t \in Tokens /\ t.db = r.db
    BY <2>1, ConsoleAssumption DEF Token, Tokens
  <2>3. Answer(r, RenderCreated(page, r.db, t))
    BY <1>5 DEF CreateAnswer
  <2>4. /\ exists' \in SUBSET Dbs /\ accepted' \in [Dbs -> 1..MaxTokens]
        /\ pending' \in [Dbs -> 0..MaxTokens] /\ issued' \in [Dbs -> 1..MaxTokens]
    <3>1. 1 \in 1..MaxTokens /\ 0 \in 0..MaxTokens
      BY ConsoleAssumption
    <3>2. QED
      BY <1>0, <1>5, <2>1, <3>1 DEF CreateAnswer, ConsoleTypeOK
  <2> HIDE DEF t
  <2>5. PageOK(RenderCreated(page, r.db, t))
    BY <1>0, <2>1, <2>2, RenderCreatedOK
  <2>6. QED
    BY <2>3, <2>4, <2>5, AnswerOK
<1>6. CASE RotateAnswer(r)
  <2> DEFINE t == [db |-> r.db, gen |-> pending'[r.db]]
  <2>1. r.db \in Dbs
    BY <1>b, <1>6 DEF RotateAnswer
  <2>2. /\ PrepareRotation(r.db)
        /\ Answer(r, RenderRotatedToken(page, r.db, t))
    BY <1>6 DEF RotateAnswer
  <2>3. /\ exists' \in SUBSET Dbs /\ accepted' \in [Dbs -> 1..MaxTokens]
        /\ pending' \in [Dbs -> 0..MaxTokens] /\ issued' \in [Dbs -> 1..MaxTokens]
        /\ t \in Tokens
    BY <1>0, <2>1, <2>2, PrepareRotationOK
  <2>4. PageOK(RenderRotatedToken(page, r.db, t))
    BY <1>0, <2>1, <2>3, RenderRotatedTokenOK
  <2>5. QED
    BY <2>2, <2>3, <2>4, AnswerOK
<1>7. CASE RotateTimeout(r)
  <2>1. r.db \in Dbs
    BY <1>b, <1>7 DEF RotateTimeout
  <2>2. Answer(r, RenderRotationTimeout(page, r.db))
    BY <1>7 DEF RotateTimeout
  <2>3. PageOK(RenderRotationTimeout(page, r.db))
    BY <1>0, <2>1, RenderRotationTimeoutOK
  <2>4. /\ exists' \in SUBSET Dbs /\ accepted' \in [Dbs -> 1..MaxTokens]
        /\ pending' \in [Dbs -> 0..MaxTokens] /\ issued' \in [Dbs -> 1..MaxTokens]
    BY <1>0, <1>7, <1>a, <2>1, PrepareRotationOK DEF RotateTimeout
  <2>5. QED
    BY <2>2, <2>3, <2>4, AnswerOK
<1>8. CASE UpgradeAnswer(r)
  <2>1. r.db \in Dbs
    BY <1>b, <1>8 DEF UpgradeAnswer
  <2>2. PageOK(SelectDatabase(page, r.db, TRUE))
    BY <1>0, <2>1, SelectDatabaseOK
  <2>3. PageOK(LoadDatabases(SelectDatabase(page, r.db, TRUE)))
    BY <1>0, <2>2, LoadDatabasesOK
  <2>4. QED
    BY <1>8, <1>a, <2>3, AnswerOK DEF UpgradeAnswer
<1>9. CASE DeleteAnswer(r)
  <2>1. PageOK(RenderDeleted(page))
    BY <1>0, RenderDeletedOK
  <2>2. /\ exists' \in SUBSET Dbs /\ accepted' \in [Dbs -> 1..MaxTokens]
        /\ pending' \in [Dbs -> 0..MaxTokens] /\ issued' \in [Dbs -> 1..MaxTokens]
    BY <1>0, <1>9 DEF DeleteAnswer, ConsoleTypeOK
  <2>3. QED
    BY <1>9, <2>1, <2>2, AnswerOK DEF DeleteAnswer
<1>10. CASE Failed(r)
  <2>1. PICK s \in {[page EXCEPT !.preview = None], [page EXCEPT !.busy = FALSE], page} :
          Answer(r, s)
    BY <1>10 DEF Failed
  <2>2. PageOK(s)
    BY <1>0, <2>1, BlankOK, BusyOK
  <2>3. UNCHANGED server
    BY <1>10 DEF Failed
  <2>4. QED
    BY <1>a, <2>1, <2>2, <2>3, AnswerOK
<1>11. QED
  BY <1>1, <1>2, <1>3, <1>4, <1>5, <1>6, <1>7, <1>8, <1>9, <1>10

LEMMA OwnStep == OwnInv /\ [Next]_vars => OwnInv'
<1> SUFFICES ASSUME OwnInv, [Next]_vars PROVE OwnInv'
  OBVIOUS
<1>1. CASE UNCHANGED vars
  BY <1>1 DEF vars, server, OwnInv, ConsoleTypeOK, PageOK, Owned
<1>2. CASE Next
  BY <1>2, OwnUser, OwnAnswer DEF Next
<1>3. QED
  BY <1>1, <1>2

LEMMA OwnAlways == Spec => []OwnInv
BY OwnInit, OwnStep, PTL DEF Spec

-----------------------------------------------------------------------------
(* What the console promises *)

\* The page, its requests and the control plane keep their types.
THEOREM ConsoleTypeCorrect == Spec => []ConsoleTypeOK
<1>1. OwnInv => ConsoleTypeOK
  BY DEF OwnInv
<1>2. QED
  BY <1>1, OwnAlways, PTL

\* A token is only ever kept for, shown for, or sent to its own database
\* (console.js:942-967), however many databases there are and however many
\* requests are in flight.
THEOREM TokensStayOwn == Spec => []TokensOwn
<1>1. OwnInv => TokensOwn
  BY DEF OwnInv, PageOK, TokensOwn, Owned
<1>2. QED
  BY <1>1, OwnAlways, PTL

\* The rows shown are those of the selected database (console.js:1047-1078).
THEOREM PreviewStaysOwn == Spec => []PreviewOwn
<1>1. OwnInv => PreviewOwn
  BY DEF OwnInv, PageOK, PreviewOwn
<1>2. QED
  BY <1>1, OwnAlways, PTL

\* A new token is on the screen only in Access, for the selected database
\* (console.js:1389-1404).
THEOREM RotatedTokenStaysOwn == Spec => []RotatedTokenOwn
<1>1. OwnInv => RotatedTokenOwn
  BY DEF OwnInv, PageOK, RotatedTokenOwn
<1>2. QED
  BY <1>1, OwnAlways, PTL

\* A list that arrives leaves the terminal, the preview, the token on the
\* screen and the selection as they are (console.js:1212-1216).
THEOREM PollsLeavePanels == Spec => PollLeavesPanels
<1> DEFINE Kept == /\ page'.busy = page.busy /\ page'.terminal = page.terminal
                   /\ page'.preview = page.preview
                   /\ page'.rotated = page.rotated /\ page'.current = page.current
<1>1. ASSUME OwnInv, NEW r \in inflight, ListAnswer(r)
      PROVE  Kept
  <2> DEFINE s == [page EXCEPT !.listed = r.seen]
             t == IF s.current \in r.seen THEN SelectDatabase(s, s.current, TRUE) ELSE s
  <2>1. page' = [t EXCEPT !.sent = {}]
    BY <1>1 DEF ListAnswer, Answer, Become
  <2>2. page \in Pages
    BY <1>1 DEF OwnInv, ConsoleTypeOK
  <2>3. s \in Pages /\ s.busy = page.busy /\ s.terminal = page.terminal
        /\ s.preview = page.preview /\ s.rotated = page.rotated /\ s.current = page.current
    <3>1. r.seen \subseteq Dbs
      BY <1>1 DEF OwnInv, ConsoleTypeOK, Requests
    <3>2. QED
      BY <2>2, <3>1 DEF Pages
  <2> HIDE DEF s
  <2>4. t \in {s, [s EXCEPT !.current = s.current, !.field = FieldFor(s, s.current)]}
    BY DEF SelectDatabase
  <2> HIDE DEF t
  <2>5. t.busy = s.busy /\ t.terminal = s.terminal /\ t.preview = s.preview
        /\ t.rotated = s.rotated /\ t.current = s.current
        /\ \A f \in {"busy", "terminal", "preview", "rotated", "current"} :
             [t EXCEPT !.sent = {}][f] = t[f]
    BY <2>3, <2>4 DEF Pages
  <2>6. QED
    BY <2>1, <2>3, <2>5
<1>2. OwnInv /\ [Next]_vars => [(\E r \in inflight : ListAnswer(r)) => Kept]_vars
  BY <1>1
<1>3. QED
  BY <1>2, OwnAlways, PTL DEF Spec, PollLeavesPanels
=============================================================================
