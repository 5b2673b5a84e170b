------------------------- MODULE ConsolePollingProps ------------------------
(***************************************************************************)
(* What is checked of the polling of the console.                          *)
(***************************************************************************)
EXTENDS ConsolePolling

Requests == [db : Dbs, next : {"poll", "nothing"}]
Shows == {"empty", "asleep", "waiting", "stale", "sample", "refused", "unavailable"}
Pages == [current : Dbs \cup {None}, onMonitor : BOOLEAN, asleep : SUBSET Sleepers,
          timer : BOOLEAN, list : Continuations \cup {Idle},
          ask : {"poll", "nothing", Idle}, cached : SUBSET Dbs,
          misses : [Dbs -> 0..Threshold],
          monitor : [of : Dbs \cup {None}, shows : Shows]]

\* Type: the fields of the page and the requests in flight have their types,
\* and no handler ends with a request it has not sent.
PollingTypeOK ==
    /\ visible \in BOOLEAN /\ page \in Pages /\ page.ask = Idle
    /\ stats \in [Slots -> {Free} \cup Requests]

\* A page that stays in the foreground asks for the list again and again,
\* however often it was hidden before, and whatever fails (console.js:
\* 1079-1107, 1169-1180, 1715-1718).
KeepsPolling == <>[]visible => []<>(page.list # Idle)

\* A page that stays in the background stops: no timer is left running by a
\* poll that was under way when it was hidden.
HiddenGoesQuiet == <>[]~visible => <>[](~page.timer /\ page.list = Idle)

\* While one database stays selected in the database view, the monitor comes
\* to show that one, although answers for the others are dropped and an
\* upgrade selects a database without drawing its monitor (1108-1128, 1376).
MonitorCatchesUp ==
    \A d \in Dbs :
      <>[](visible /\ page.onMonitor /\ page.current = d) => <>[](page.monitor.of = d)

\* "unavailable" is said only after Threshold misses without a sample in
\* between; a sample shown as current has seen no miss (584-614, 722-730).
MissesTold ==
    LET m == page.monitor
    IN  /\ m.shows = "unavailable" => m.of \in Dbs /\ page.misses[m.of] >= Threshold
        /\ m.shows = "sample" => m.of \in page.cached /\ page.misses[m.of] = 0
=============================================================================
