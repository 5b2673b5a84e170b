--------------------------- MODULE ConsolePolling ---------------------------
(***************************************************************************)
(* How the console stays up to date (site/js/console.js): the timer that   *)
(* asks for the list of databases and for the statistics of the selected   *)
(* one, the page going to the background and coming back, and the monitor, *)
(* which keeps the last sample through a few missed ones.  The steps of a  *)
(* poll are chained by promises: each request carries what is to follow    *)
(* its answer.  As in Console, a handler is a function from page to page.  *)
(* How long a timer runs (pollDelay) is left out.                          *)
(***************************************************************************)
EXTENDS Naturals, FiniteSets

CONSTANTS
  Dbs,          \* the databases listed
  Sleepers,     \* those whose instance may scale to zero
  None,         \* no database
  Threshold,    \* STATS_MISS_THRESHOLD
  MaxStats      \* bound of the model: requests for statistics in flight

ASSUME PollingAssumption ==
    /\ None \notin Dbs /\ Sleepers \subseteq Dbs
    /\ Threshold \in Nat \ {0} /\ MaxStats \in Nat \ {0, 1}

Idle == "idle"
Continuations == {"poll", "start", "nothing"}   \* what follows an answer
Slots == 1..MaxStats
Free == [db |-> None, next |-> Idle]

VARIABLES
  visible,      \* document.visibilityState
  page,         \* see PageInit
  stats         \* for each slot, Free or the request for statistics in flight
vars == <<visible, page, stats>>

PageInit == [
  current   |-> None,       \* currentDb
  onMonitor |-> FALSE,      \* activeView is "database"
  asleep    |-> {},         \* the databases whose listed state is asleep
  timer     |-> TRUE,       \* pollTimer is running
  list      |-> "nothing",  \* Idle, or what follows the list in flight
  ask       |-> Idle,       \* the statistics the handler requests, and what follows
  cached    |-> {},         \* statsCache
  misses    |-> [d \in Dbs |-> 0],                   \* statsMisses
  monitor   |-> [of |-> None, shows |-> "empty"] ]   \* the monitor

\* showSignedIn: the list is asked for, unless hidden, and polling starts.
Init ==
    /\ visible \in BOOLEAN
    /\ page = [PageInit EXCEPT !.list = IF visible THEN "nothing" ELSE Idle]
    /\ stats = [n \in Slots |-> Free]

-----------------------------------------------------------------------------
(* The monitor *)

Show(s, d, what) == [s EXCEPT !.monitor = [of |-> d, shows |-> what]]

\* renderStats without a payload: what is known of the selected database.
RenderKnown(s) ==
    Show(s, s.current, CASE s.current = None -> "empty" [] s.current \in s.asleep -> "asleep"
                         [] s.current \in s.cached -> "stale" [] OTHER -> "waiting")

\* Mutant: a sample does not end a series of misses.
RenderSample_Misses(s, d, fresh) ==
    [Show(s, d, IF fresh THEN "sample" ELSE "stale") EXCEPT !.cached = @ \cup {d}]

\* renderStats with a sample; a stale one does not end a series of misses.
RenderSample(s, d, fresh) ==
    [Show(s, d, IF fresh THEN "sample" ELSE "stale") EXCEPT
       !.cached = @ \cup {d}, !.misses[d] = IF fresh THEN 0 ELSE @]

\* Misses beyond the threshold count as the threshold.
RenderStatsMiss(s, d, transient) ==
    LET n == IF s.misses[d] = Threshold THEN Threshold ELSE s.misses[d] + 1
        shown == Show(s, d, IF ~transient /\ n >= Threshold THEN "unavailable"
                            ELSE IF d \in s.cached THEN "stale" ELSE "waiting")
    IN  [shown EXCEPT !.misses[d] = n]

-----------------------------------------------------------------------------
(* The steps of a poll *)

\* schedulePoll replaces the timer that runs; so does startPolling.
Continue(s, next) == IF next = "nothing" THEN s ELSE [s EXCEPT !.timer = TRUE]

RefreshSelectedStats(s, next) ==
    IF s.current = None \/ s.current \in s.asleep THEN Continue(RenderKnown(s), next)
    ELSE [s EXCEPT !.ask = next]

\* Mutant: the poll ends with the list.
AfterList_Ends(s, next) == Continue(s, next)

\* What follows the list: a poll goes on with the statistics.
AfterList(s, next) ==
    IF next = "poll" /\ s.onMonitor THEN RefreshSelectedStats(s, "poll") ELSE Continue(s, next)

\* Mutant: a poll that meets a list in flight leaves it at that.
LoadDatabases_Once(s, seen, next) ==
    IF s.list # Idle \/ ~seen THEN s ELSE [s EXCEPT !.list = next]

\* At once, if a list is in flight or the page is hidden.
LoadDatabases(s, seen, next) ==
    IF s.list # Idle \/ ~seen THEN AfterList(s, next) ELSE [s EXCEPT !.list = next]

\* The handler leaves page s with requests rs in flight, and its own in the
\* first free slot.  The last one is left to polls, so that the bound on the
\* slots never holds a poll up for ever.
Become(s, rs) ==
    LET free == {n \in Slots : rs[n] = Free}
    IN  /\ page' = [s EXCEPT !.ask = Idle]
        /\ IF s.ask = Idle THEN stats' = rs
           ELSE /\ Cardinality(free) > (IF s.ask = "poll" THEN 0 ELSE 1)
                /\ \E n \in free :
                     /\ \A m \in free : n <= m
                     /\ stats' = [rs EXCEPT ![n] = [db |-> s.current, next |-> s.ask]]

\* Mutant: only the requests are left out on a hidden page.
Poll_Hidden ==
    /\ page.timer
    /\ Become(LoadDatabases([page EXCEPT !.timer = FALSE], visible, "poll"), stats)
    /\ UNCHANGED visible

\* The timer fires; on a hidden page it is not started again.
Poll ==
    /\ page.timer
    /\ LET s == [page EXCEPT !.timer = FALSE]
       IN  Become(IF visible THEN LoadDatabases(s, TRUE, "poll") ELSE s, stats)
    /\ UNCHANGED visible

-----------------------------------------------------------------------------
(* Answers *)

\* The list may find other databases asleep; the selected one stays selected
\* and its monitor is left alone.
ListAnswer ==
    /\ page.list # Idle
    /\ \E a \in SUBSET Sleepers :
         Become(AfterList([page EXCEPT !.list = Idle, !.asleep = a], page.list), stats)
    /\ UNCHANGED visible

\* An error, or no answer within 30 seconds: what was to follow follows.
ListFailed ==
    /\ page.list # Idle
    /\ Become(AfterList([page EXCEPT !.list = Idle], page.list), stats)
    /\ UNCHANGED visible

\* The answer is for the database that is still selected.
ForSelected(n) == page.current = stats[n].db

\* The answer to request n leaves page s, or is dropped.
Answered(n, s) ==
    /\ stats[n] # Free
    /\ LET kept == IF ForSelected(n) THEN s ELSE page
       IN  Become(Continue(kept, stats[n].next), [stats EXCEPT ![n] = Free])
    /\ UNCHANGED visible

Sample(n) == \E fresh \in BOOLEAN : Answered(n, RenderSample(page, stats[n].db, fresh))
Refused(n) == Answered(n, Show(page, stats[n].db, "refused"))
\* Busy, or an error: it is told whether the miss will pass.
Missed(n) ==
    \E transient \in BOOLEAN :
      Answered(n, RenderStatsMiss(page, stats[n].db, transient))

StatsAnswer(n) == stats[n] # Free /\ (Sample(n) \/ Refused(n) \/ Missed(n))

-----------------------------------------------------------------------------
(* The user, and other requests of the console coming back *)

User(s) == visible /\ Become(s, stats) /\ UNCHANGED visible

OpenMonitor ==
    ~page.onMonitor /\ User(LET s == [page EXCEPT !.onMonitor = TRUE]
                            IN  IF s.current = None THEN s ELSE RefreshSelectedStats(s, "nothing"))
LeaveMonitor == page.onMonitor /\ User([page EXCEPT !.onMonitor = FALSE])
Choose ==
    \E d \in Dbs \ {page.current} : User(RenderKnown([page EXCEPT !.current = d]))
ListAgain == page.list = Idle /\ User(LoadDatabases(page, TRUE, "nothing"))

\* A command, a bench or a sample that changed rows has been answered.
RowsChanged ==
    page.current # None /\ Become(RefreshSelectedStats(page, "nothing"), stats) /\ UNCHANGED visible

\* The answer to an upgrade selects that database and leaves the monitor as
\* it is; the answer to a deletion selects none.
Upgraded ==
    /\ \E d \in Dbs : Become(LoadDatabases([page EXCEPT !.current = d], visible, "nothing"), stats)
    /\ UNCHANGED visible
Deleted ==
    /\ page.current # None
    /\ Become([RenderKnown([page EXCEPT !.current = None]) EXCEPT !.onMonitor = FALSE], stats)
    /\ UNCHANGED visible

\* visibilitychange
Hide ==
    /\ visible /\ visible' = FALSE
    /\ page' = [page EXCEPT !.timer = FALSE] /\ UNCHANGED stats
Reappear ==
    /\ ~visible /\ visible' = TRUE
    /\ Become(LoadDatabases(page, TRUE, "start"), stats)

-----------------------------------------------------------------------------
Next ==
    \/ Poll \/ ListAnswer \/ ListFailed \/ \E n \in Slots : StatsAnswer(n)
    \/ OpenMonitor \/ LeaveMonitor \/ Choose \/ ListAgain
    \/ RowsChanged \/ Upgraded \/ Deleted \/ Hide \/ Reappear

Spec == Init /\ [][Next]_vars

\* Timers fire, and every request is answered, fails or is given up after 30
\* seconds.
FairSpec ==
    /\ Spec /\ WF_vars(Poll) /\ WF_vars(ListAnswer \/ ListFailed)
    /\ \A n \in Slots : WF_vars(StatsAnswer(n))
=============================================================================
