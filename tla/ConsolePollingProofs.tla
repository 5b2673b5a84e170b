------------------------ MODULE ConsolePollingProofs ------------------------
(***************************************************************************)
(* What the monitor tells of missed samples is true, for any number of     *)
(* databases, of requests in flight and of misses tolerated.               *)
(***************************************************************************)
EXTENDS ConsolePollingProps, TLAPS

\* A page whose monitor tells of the misses what has been counted.
TellsMisses(s) ==
    /\ s.monitor.shows = "unavailable" =>
         s.monitor.of \in Dbs /\ s.misses[s.monitor.of] >= Threshold
    /\ s.monitor.shows = "sample" =>
         s.monitor.of \in s.cached /\ s.misses[s.monitor.of] = 0

\* What holds of a page in the middle of a handler: one that asks for
\* statistics has a database selected.
PageOK(s) ==
    /\ s \in Pages /\ TellsMisses(s)
    /\ s.ask # Idle => s.current # None

\* The inductive invariant.
PollingInv == PollingTypeOK /\ PageOK(page)

-----------------------------------------------------------------------------
(* The functions of the page *)

LEMMA ShowOK ==
    ASSUME NEW s, PageOK(s), NEW d \in Dbs \cup {None},
           NEW what \in Shows \ {"unavailable", "sample"}
    PROVE  PageOK(Show(s, d, what))
BY DEF Show, PageOK, Pages, TellsMisses, Shows

LEMMA RenderKnownOK ==
    ASSUME NEW s, PageOK(s)
    PROVE  PageOK(RenderKnown(s))
<1> DEFINE what == CASE s.current = None -> "empty" [] s.current \in s.asleep -> "asleep"
                     [] s.current \in s.cached -> "stale" [] OTHER -> "waiting"
<1>1. s.current \in Dbs \cup {None}
  BY DEF PageOK, Pages
<1>2. what \in Shows \ {"unavailable", "sample"}
  BY DEF Shows
<1>3. RenderKnown(s) = Show(s, s.current, what)
  BY DEF RenderKnown
<1> HIDE DEF what
<1>4. QED
  BY <1>1, <1>2, <1>3, ShowOK

\* Counting misses and showing what they come to, in one.
LEMMA CountedOK ==
    ASSUME NEW s, PageOK(s), NEW d \in Dbs, NEW n \in 0..Threshold,
           NEW cached \in SUBSET Dbs, s.cached \subseteq cached, NEW what \in Shows,
           what = "unavailable" => n >= Threshold,
           what = "sample" => d \in cached /\ n = 0
    PROVE  PageOK([s EXCEPT !.monitor = [of |-> d, shows |-> what],
                            !.cached = cached, !.misses = [s.misses EXCEPT ![d] = n]])
<1> DEFINE m == [s.misses EXCEPT ![d] = n]
<1>1. m \in [Dbs -> 0..Threshold] /\ m[d] = n
  BY DEF PageOK, Pages
<1> DEFINE t == [s EXCEPT !.monitor = [of |-> d, shows |-> what], !.cached = cached, !.misses = m]
<1> HIDE DEF m
<1>2. /\ t.monitor = [of |-> d, shows |-> what] /\ t.cached = cached /\ t.misses = m
      /\ t.ask = s.ask /\ t.current = s.current /\ t \in Pages
  BY <1>1 DEF PageOK, Pages
<1>3. TellsMisses(t)
  <2> HIDE DEF t
  <2>1. t.monitor.of = d /\ t.monitor.shows = what
    BY <1>2
  <2>2. QED
    BY <1>1, <1>2, <2>1 DEF TellsMisses
<1>4. PageOK(t)
  BY <1>2, <1>3 DEF PageOK
<1>5. QED
  BY <1>4 DEF m

LEMMA RenderSampleOK ==
    ASSUME NEW s, PageOK(s), NEW d \in Dbs, NEW fresh \in BOOLEAN
    PROVE  PageOK(RenderSample(s, d, fresh))
<1> DEFINE n == IF fresh THEN 0 ELSE s.misses[d]
<1> DEFINE what == IF fresh THEN "sample" ELSE "stale"
<1>1. n \in 0..Threshold /\ s.cached \cup {d} \in SUBSET Dbs
  BY PollingAssumption DEF PageOK, Pages
<1>2. what \in Shows /\ what # "unavailable" /\ (what = "sample" => n = 0)
  BY DEF Shows
<1>3. RenderSample(s, d, fresh) =
        [s EXCEPT !.monitor = [of |-> d, shows |-> what],
                  !.cached = s.cached \cup {d}, !.misses = [s.misses EXCEPT ![d] = n]]
  BY DEF RenderSample, Show, PageOK, Pages
<1> DEFINE cached == s.cached \cup {d}
<1>4. s.cached \subseteq cached /\ d \in cached /\ cached \in SUBSET Dbs
  BY <1>1
<1> HIDE DEF n, what, cached
<1>5. PageOK([s EXCEPT !.monitor = [of |-> d, shows |-> what],
                       !.cached = cached, !.misses = [s.misses EXCEPT ![d] = n]])
  BY <1>1, <1>2, <1>4, CountedOK
<1>6. QED
  BY <1>3, <1>5 DEF cached

LEMMA RenderStatsMissOK ==
    ASSUME NEW s, PageOK(s), NEW d \in Dbs, NEW transient \in BOOLEAN
    PROVE  PageOK(RenderStatsMiss(s, d, transient))
<1> DEFINE n == IF s.misses[d] = Threshold THEN Threshold ELSE s.misses[d] + 1
<1> DEFINE what == IF ~transient /\ n >= Threshold THEN "unavailable"
                   ELSE IF d \in s.cached THEN "stale" ELSE "waiting"
<1>1. Threshold \in Nat /\ s.misses[d] \in 0..Threshold /\ s.cached \in SUBSET Dbs
  BY PollingAssumption DEF PageOK, Pages
<1>2. n \in 0..Threshold
  BY <1>1
<1>3. /\ what \in Shows /\ what # "sample" /\ (what = "unavailable" => n >= Threshold)
  BY DEF Shows
<1>4. RenderStatsMiss(s, d, transient) =
        [s EXCEPT !.monitor = [of |-> d, shows |-> what],
                  !.cached = s.cached, !.misses = [s.misses EXCEPT ![d] = n]]
  BY DEF RenderStatsMiss, Show, PageOK, Pages
<1> DEFINE cached == s.cached
<1>5. s.cached \subseteq cached /\ cached \in SUBSET Dbs
  BY <1>1
<1> HIDE DEF n, what, cached
<1>6. PageOK([s EXCEPT !.monitor = [of |-> d, shows |-> what],
                       !.cached = cached, !.misses = [s.misses EXCEPT ![d] = n]])
  BY <1>2, <1>3, <1>5, CountedOK
<1>7. QED
  BY <1>4, <1>6 DEF cached

LEMMA ContinueOK ==
    ASSUME NEW s, PageOK(s), NEW next
    PROVE  PageOK(Continue(s, next))
BY DEF Continue, PageOK, Pages, TellsMisses

LEMMA RefreshSelectedStatsOK ==
    ASSUME NEW s, PageOK(s), NEW next \in {"poll", "nothing"}
    PROVE  PageOK(RefreshSelectedStats(s, next))
<1>1. CASE s.current = None \/ s.current \in s.asleep
  BY <1>1, RenderKnownOK, ContinueOK DEF RefreshSelectedStats
<1>2. CASE ~(s.current = None \/ s.current \in s.asleep)
  <2>1. RefreshSelectedStats(s, next) = [s EXCEPT !.ask = next]
    BY <1>2 DEF RefreshSelectedStats
  <2>2. QED
    BY <1>2, <2>1 DEF PageOK, Pages, TellsMisses
<1>3. QED
  BY <1>1, <1>2

LEMMA AfterListOK ==
    ASSUME NEW s, PageOK(s), NEW next
    PROVE  PageOK(AfterList(s, next))
BY RefreshSelectedStatsOK, ContinueOK DEF AfterList

LEMMA LoadDatabasesOK ==
    ASSUME NEW s, PageOK(s), NEW seen, NEW next \in Continuations
    PROVE  PageOK(LoadDatabases(s, seen, next))
<1>1. PageOK([s EXCEPT !.list = next])
  BY DEF PageOK, Pages, TellsMisses
<1>2. QED
  BY <1>1, AfterListOK DEF LoadDatabases

-----------------------------------------------------------------------------
(* The handlers *)

\* A handler that leaves a page as it should be, and requests as they should
\* be, keeps the invariant.
LEMMA BecomeOK ==
    ASSUME NEW s, PageOK(s), NEW rs \in [Slots -> {Free} \cup Requests], Become(s, rs),
           visible' \in BOOLEAN
    PROVE  PollingInv'
<1>1. page' = [s EXCEPT !.ask = Idle]
  BY DEF Become
<1>2. PageOK(page') /\ page'.ask = Idle
  BY <1>1 DEF PageOK, Pages, TellsMisses, Idle
<1>3. stats' \in [Slots -> {Free} \cup Requests]
  <2>1. CASE s.ask = Idle
    BY <2>1 DEF Become
  <2>2. CASE s.ask # Idle
    <3>1. PICK n \in Slots : stats' = [rs EXCEPT ![n] = [db |-> s.current, next |-> s.ask]]
      BY <2>2 DEF Become
    <3>2. [db |-> s.current, next |-> s.ask] \in Requests
      BY <2>2 DEF PageOK, Pages, Requests
    <3>3. QED
      BY <3>1, <3>2
  <2>3. QED
    BY <2>1, <2>2
<1>4. QED
  BY <1>2, <1>3 DEF PollingInv, PollingTypeOK, PageOK, TellsMisses

LEMMA AnsweredOK ==
    ASSUME PollingInv, NEW n \in Slots, NEW s, PageOK(s), Answered(n, s)
    PROVE  PollingInv'
<1> DEFINE kept == IF ForSelected(n) THEN s ELSE page
<1> DEFINE rs == [stats EXCEPT ![n] = Free]
<1>1. PageOK(kept)
  BY DEF PollingInv
<1>2. Become(Continue(kept, stats[n].next), rs) /\ visible' \in BOOLEAN
  BY DEF Answered, PollingInv, PollingTypeOK
<1>3. rs \in [Slots -> {Free} \cup Requests]
  BY DEF PollingInv, PollingTypeOK
<1> HIDE DEF kept, rs
<1>4. PageOK(Continue(kept, stats[n].next))
  BY <1>1, ContinueOK
<1>5. QED
  BY <1>2, <1>3, <1>4, BecomeOK

LEMMA StatsAnswerOK ==
    ASSUME PollingInv, NEW n \in Slots, StatsAnswer(n)
    PROVE  PollingInv'
<1>1. stats[n].db \in Dbs /\ PageOK(page)
  BY DEF StatsAnswer, PollingInv, PollingTypeOK, Requests
<1>2. CASE Sample(n)
  <2>1. PICK fresh \in BOOLEAN : Answered(n, RenderSample(page, stats[n].db, fresh))
    BY <1>2 DEF Sample
  <2>2. PageOK(RenderSample(page, stats[n].db, fresh))
    BY <1>1, RenderSampleOK
  <2>3. QED
    BY <2>1, <2>2, AnsweredOK
<1>3. CASE Refused(n)
  <2>1. PageOK(Show(page, stats[n].db, "refused"))
    BY <1>1, ShowOK DEF Shows
  <2>2. QED
    BY <1>3, <2>1, AnsweredOK DEF Refused
<1>4. CASE Missed(n)
  <2>1. PICK transient \in BOOLEAN : Answered(n, RenderStatsMiss(page, stats[n].db, transient))
    BY <1>4 DEF Missed
  <2>2. PageOK(RenderStatsMiss(page, stats[n].db, transient))
    BY <1>1, RenderStatsMissOK
  <2>3. QED
    BY <2>1, <2>2, AnsweredOK
<1>5. QED
  BY <1>2, <1>3, <1>4 DEF StatsAnswer

\* The polls and the answers to them.
LEMMA PollsOK ==
    ASSUME PollingInv, Poll \/ ListAnswer \/ ListFailed
    PROVE  PollingInv'
<1>1. /\ PageOK(page) /\ page \in Pages /\ visible \in BOOLEAN
      /\ stats \in [Slots -> {Free} \cup Requests]
  BY DEF PollingInv, PollingTypeOK
<1>2. CASE Poll
  <2> DEFINE s == [page EXCEPT !.timer = FALSE]
  <2>1. PageOK(s)
    BY <1>1 DEF PageOK, Pages, TellsMisses
  <2>2. /\ Become(IF visible THEN LoadDatabases(s, TRUE, "poll") ELSE s, stats)
        /\ visible' = visible
    BY <1>2 DEF Poll
  <2> HIDE DEF s
  <2>3. PageOK(IF visible THEN LoadDatabases(s, TRUE, "poll") ELSE s)
    BY <2>1, LoadDatabasesOK DEF Continuations
  <2>4. QED
    BY <1>1, <2>2, <2>3, BecomeOK
<1>3. CASE ListAnswer
  <2>1. PICK a \in SUBSET Sleepers :
          Become(AfterList([page EXCEPT !.list = Idle, !.asleep = a], page.list), stats)
    BY <1>3 DEF ListAnswer
  <2>2. PageOK([page EXCEPT !.list = Idle, !.asleep = a])
    BY <1>1 DEF PageOK, Pages, TellsMisses
  <2>3. PageOK(AfterList([page EXCEPT !.list = Idle, !.asleep = a], page.list))
    BY <2>2, AfterListOK
  <2>4. visible' \in BOOLEAN
    BY <1>1, <1>3 DEF ListAnswer
  <2>5. QED
    BY <1>1, <2>1, <2>3, <2>4, BecomeOK
<1>4. CASE ListFailed
  <2>1. PageOK([page EXCEPT !.list = Idle])
    BY <1>1 DEF PageOK, Pages, TellsMisses
  <2>2. PageOK(AfterList([page EXCEPT !.list = Idle], page.list))
    BY <2>1, AfterListOK
  <2>3. QED
    BY <1>1, <1>4, <2>2, BecomeOK DEF ListFailed
<1>5. QED
  BY <1>2, <1>3, <1>4

LEMMA UserOK ==
    ASSUME PollingInv, NEW s, PageOK(s), Become(s, stats), visible' = visible
    PROVE  PollingInv'
BY BecomeOK DEF PollingInv, PollingTypeOK

\* What the user does, and what else comes back.
LEMMA OthersOK ==
    ASSUME PollingInv,
           \/ OpenMonitor \/ LeaveMonitor \/ Choose \/ ListAgain
           \/ RowsChanged \/ Upgraded \/ Deleted
    PROVE  PollingInv'
<1>1. PageOK(page) /\ page \in Pages
  BY DEF PollingInv, PollingTypeOK
<1>2. CASE OpenMonitor
  <2> DEFINE s == [page EXCEPT !.onMonitor = TRUE]
  <2>1. PageOK(s)
    BY <1>1 DEF PageOK, Pages, TellsMisses
  <2>2. /\ Become(IF s.current = None THEN s ELSE RefreshSelectedStats(s, "nothing"), stats)
        /\ visible' = visible
    BY <1>2 DEF OpenMonitor, User
  <2> HIDE DEF s
  <2>3. PageOK(IF s.current = None THEN s ELSE RefreshSelectedStats(s, "nothing"))
    BY <2>1, RefreshSelectedStatsOK
  <2>4. QED
    BY <2>2, <2>3, UserOK
<1>3. CASE LeaveMonitor
  <2>1. PageOK([page EXCEPT !.onMonitor = FALSE])
    BY <1>1 DEF PageOK, Pages, TellsMisses
  <2>2. QED
    BY <1>3, <2>1, UserOK DEF LeaveMonitor, User
<1>4. CASE Choose \/ Upgraded
  <2>1. \A d \in Dbs : PageOK([page EXCEPT !.current = d])
    BY <1>1, PollingAssumption DEF PageOK, Pages, TellsMisses
  <2>2. CASE Choose
    <3>1. PICK d \in Dbs : Become(RenderKnown([page EXCEPT !.current = d]), stats)
      BY <2>2 DEF Choose, User
    <3>2. visible' = visible
      BY <2>2 DEF Choose, User
    <3>3. PageOK(RenderKnown([page EXCEPT !.current = d]))
      BY <2>1, RenderKnownOK
    <3>4. QED
      BY <3>1, <3>2, <3>3, UserOK
  <2>3. CASE Upgraded
    <3>1. PICK d \in Dbs :
            Become(LoadDatabases([page EXCEPT !.current = d], visible, "nothing"), stats)
      BY <2>3 DEF Upgraded
    <3>2. PageOK(LoadDatabases([page EXCEPT !.current = d], visible, "nothing"))
      BY <2>1, LoadDatabasesOK DEF Continuations
    <3>3. QED
      BY <2>3, <3>1, <3>2, UserOK DEF Upgraded
  <2>4. QED
    BY <1>4, <2>2, <2>3
<1>5. CASE ListAgain
  <2>1. PageOK(LoadDatabases(page, TRUE, "nothing"))
    BY <1>1, LoadDatabasesOK DEF Continuations
  <2>2. QED
    BY <1>5, <2>1, UserOK DEF ListAgain, User
<1>6. CASE RowsChanged
  <2>1. PageOK(RefreshSelectedStats(page, "nothing"))
    BY <1>1, RefreshSelectedStatsOK
  <2>2. QED
    BY <1>6, <2>1, UserOK DEF RowsChanged
<1>7. CASE Deleted
  <2> DEFINE s == [page EXCEPT !.current = None]
  <2>1. PageOK(s)
    BY <1>1, page.ask = Idle DEF PageOK, Pages, TellsMisses, PollingInv, PollingTypeOK
  <2>2. Become([RenderKnown(s) EXCEPT !.onMonitor = FALSE], stats) /\ visible' = visible
    BY <1>7 DEF Deleted
  <2> HIDE DEF s
  <2>3. PageOK(RenderKnown(s))
    BY <2>1, RenderKnownOK
  <2>4. PageOK([RenderKnown(s) EXCEPT !.onMonitor = FALSE])
    BY <2>3 DEF PageOK, Pages, TellsMisses
  <2>5. QED
    BY <2>2, <2>4, UserOK
<1>8. QED
  BY <1>2, <1>3, <1>4, <1>5, <1>6, <1>7

LEMMA HidingOK ==
    ASSUME PollingInv, Hide \/ Reappear
    PROVE  PollingInv'
<1>1. /\ PageOK(page) /\ page \in Pages /\ page.ask = Idle
      /\ stats \in [Slots -> {Free} \cup Requests]
  BY DEF PollingInv, PollingTypeOK
<1>2. CASE Hide
  <2>1. page' = [page EXCEPT !.timer = FALSE] /\ visible' \in BOOLEAN /\ stats' = stats
    BY <1>2 DEF Hide
  <2>2. PageOK(page') /\ page'.ask = Idle
    BY <1>1, <2>1 DEF PageOK, Pages, TellsMisses
  <2>3. QED
    BY <1>1, <2>1, <2>2 DEF PollingInv, PollingTypeOK, PageOK, TellsMisses
<1>3. CASE Reappear
  <2>1. PageOK(LoadDatabases(page, TRUE, "start"))
    BY <1>1, LoadDatabasesOK DEF Continuations
  <2>2. Become(LoadDatabases(page, TRUE, "start"), stats) /\ visible' \in BOOLEAN
    BY <1>3 DEF Reappear
  <2>3. QED
    BY <1>1, <2>1, <2>2, BecomeOK
<1>4. QED
  BY <1>2, <1>3

-----------------------------------------------------------------------------
(* The theorems *)

LEMMA PollingInit == Init => PollingInv
<1> SUFFICES ASSUME Init PROVE PollingInv
  OBVIOUS
<1>1. PageInit \in Pages /\ PageInit.ask = Idle /\ PageInit.monitor.shows = "empty"
  BY PollingAssumption DEF PageInit, Pages, Shows, Continuations, Idle
<1>2. page \in Pages /\ page.ask = Idle /\ page.monitor.shows = "empty"
  BY <1>1 DEF Init, Pages, Continuations, Idle
<1>3. stats \in [Slots -> {Free} \cup Requests] /\ visible \in BOOLEAN
  BY DEF Init
<1>4. QED
  BY <1>2, <1>3 DEF PollingInv, PollingTypeOK, PageOK, TellsMisses

LEMMA PollingStep == PollingInv /\ [Next]_vars => PollingInv'
<1> SUFFICES ASSUME PollingInv, [Next]_vars PROVE PollingInv'
  OBVIOUS
<1>1. CASE Poll \/ ListAnswer \/ ListFailed
  BY <1>1, PollsOK
<1>2. CASE \E n \in Slots : StatsAnswer(n)
  BY <1>2, StatsAnswerOK
<1>3. CASE \/ OpenMonitor \/ LeaveMonitor \/ Choose \/ ListAgain
           \/ RowsChanged \/ Upgraded \/ Deleted
  BY <1>3, OthersOK
<1>4. CASE Hide \/ Reappear
  BY <1>4, HidingOK
<1>5. CASE UNCHANGED vars
  BY <1>5 DEF vars, PollingInv, PollingTypeOK, PageOK, TellsMisses
<1>6. QED
  BY <1>1, <1>2, <1>3, <1>4, <1>5 DEF Next

LEMMA PollingAlways == Spec => []PollingInv
BY PollingInit, PollingStep, PTL DEF Spec

\* The fields of the page and the requests in flight have their types.
THEOREM PollingTypeCorrect == Spec => []PollingTypeOK
<1>1. PollingInv => PollingTypeOK
  BY DEF PollingInv
<1>2. QED
  BY <1>1, PollingAlways, PTL

\* "unavailable" is only said of a database whose misses have reached the
\* threshold, and a sample shown as current has seen no miss since, however
\* late and in whatever order samples, misses and refusals come back
\* (console.js:584-614, 722-730).
THEOREM MissesAreTold == Spec => []MissesTold
<1>1. PollingInv => MissesTold
  BY DEF PollingInv, PageOK, TellsMisses, MissesTold
<1>2. QED
  BY <1>1, PollingAlways, PTL
=============================================================================
