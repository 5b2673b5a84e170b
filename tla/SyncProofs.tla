----------------------------- MODULE SyncProofs -----------------------------
(***************************************************************************)
(* The synchronisation and the engine it reads, for every value of the     *)
(* constants: a reader that takes no lock takes nothing from the engine's  *)
(* guarantees, the history of SyncProps adds no behaviour to it, what a    *)
(* run pulls continues its watermark without a hole, the log, page by page *)
(* or as a preview, tells what the table has been, and the lakehouse shows *)
(* the table as some commit left it.                                       *)
(***************************************************************************)
EXTENDS SyncProps, EngineTableProofs, FunctionTheorems

\* Every step of the composition is a step of the engine or leaves it alone: the
\* gateway and the notebook write none of the files they read.
LEMMA ReadersDoNotWrite ==
  ASSUME [SyncNext]_<<vars, syncVars>>
  PROVE  [Next]_vars
<1>1. CASE Next /\ UNCHANGED syncVars
  BY <1>1
<1>2. CASE (Notebook \/ RunEnds) /\ UNCHANGED vars
  BY <1>2
<1>3. CASE UNCHANGED <<vars, syncVars>>
  BY <1>3
<1>4. QED
  BY <1>1, <1>2, <1>3 DEF SyncNext

\* The engine under a notebook is the engine.
THEOREM EngineUndisturbed == SyncSpec => Spec
<1>1. SyncInit => Init
  BY DEF SyncInit
<1>2. [SyncNext]_<<vars, syncVars>> => [Next]_vars
  BY ReadersDoNotWrite
<1>3. QED
  BY <1>1, <1>2, PTL DEF SyncSpec, Spec

\* A behaviour with the history variables of SyncProps is one of the synchronisation:
\* the history is recorded beside the steps and adds none.
THEOREM HistoryOnlyRecords == CheckedSpec => SyncSpec
<1>1. CheckedInit => SyncInit
  BY DEF CheckedInit
<1>2. [CheckedNext]_<<vars, syncVars, history>> => [SyncNext]_<<vars, syncVars>>
  BY DEF CheckedNext, Engines, Notebooks, SyncNext, Notebook
<1>3. QED
  BY <1>1, <1>2, PTL DEF CheckedSpec, SyncSpec

\* The log a notebook reads is never behind the table it is seeded from, and at most
\* one change ahead of it, whatever engine and notebook are doing.
THEOREM LogAheadOfReaders ==
  ASSUME "nobackup" \notin Faults
  PROVE  SyncSpec => []LogAhead
<1>1. Spec => []LogAhead
  BY LogIsAhead
<1>2. QED
  BY <1>1, EngineUndisturbed, PTL

-----------------------------------------------------------------------------
(* The frames of a run follow its watermark one by one *)

SnapshotPages == [after : Nat, header : Headers, slot : Nat, rows : SUBSET (Slots \X Record)]

\* The types that the frames of a run rest on, and where it has them from.
RunTypes ==
  /\ last_seq \in Nat /\ from_seq \in Nat /\ watermark \in Nat
  /\ all_frames \in Seq(ChangeFrames)
  /\ after \in Nat /\ snapshot_seq \in Nat \cup {NoSeq} /\ page \in SnapshotPages
  /\ npc \in {"replace", "seeded"} => snapshot_seq \in Nat

\* The next request begins where the frames pulled so far end.
RunInv ==
  /\ RunTypes
  /\ NoFrameSkipped
  /\ npc = "idle" => all_frames = <<>>
  /\ npc = "fetch" => from_seq = last_seq + Len(all_frames)
  /\ npc = "mark" => all_frames # <<>>

\* GET /cdc of a dense log: the frames after a position, without a hole, and no more of
\* them only if they reach the end of the log.
LEMMA FramesFollow ==
  ASSUME NEW log \in Logs, Dense(log), NEW from \in Nat, ~Gap(log, from)
  PROVE  /\ VisibleFrames(log, from) \in Seq(ChangeFrames)
         /\ \A i \in 1 .. Len(VisibleFrames(log, from)) : VisibleFrames(log, from)[i].seq = from + i
         /\ \A i \in 1 .. Len(VisibleFrames(log, from)) :
              \E j \in 1 .. Len(log.frames) : VisibleFrames(log, from)[i] = log.frames[j]
         /\ VisibleFrames(log, from) = <<>> \/ ~HasMoreFrames(log, from) =>
              LastSeq(log) <= from + Len(VisibleFrames(log, from))
<1>. DEFINE all == log.frames
            passed == {i \in 1 .. Len(all) : all[i].seq <= from}
            n == Smaller(from - log.base, Len(all))
            next == SubSeq(all, n + 1, Len(all))
<1>1. /\ all \in Seq(ChangeFrames) /\ Len(all) \in Nat /\ log.base \in Nat /\ log.base <= from
      /\ \A i \in 1 .. Len(all) : all[i].seq = log.base + i
  BY DEF Logs, Gap, Dense
<1>2. n \in 0 .. Len(all) /\ n <= from - log.base /\ (n = Len(all) \/ n = from - log.base)
  BY <1>1 DEF Smaller
<1>3. passed = 1 .. n
  BY <1>1, <1>2
<1>5. FramesAfter(log, from) = next
  <2>. HIDE DEF n
  <2>1. Cardinality(1 .. n) = n
    BY <1>1, <1>2, FS_Interval
  <2>. QED
    BY <1>3, <2>1 DEF FramesAfter
<1>. HIDE DEF n
<1>6. /\ next \in Seq(ChangeFrames) /\ Len(next) = Len(all) - n
      /\ \A i \in 1 .. Len(all) - n : next[i] = all[n + i]
  <2>1. n + 1 \in 1 .. Len(all) + 1 /\ Len(all) - (n + 1) + 1 = Len(all) - n
    BY <1>1, <1>2
  <2>2. \A i \in 1 .. Len(all) - n : (n + 1) + i - 1 = n + i
    BY <1>1, <1>2
  <2>. HIDE DEF all
  <2>3. /\ next \in Seq(ChangeFrames) /\ Len(next) = Len(all) - (n + 1) + 1
        /\ \A i \in 1 .. Len(all) - (n + 1) + 1 : next[i] = all[(n + 1) + i - 1]
    BY <1>1, <2>1, KeptFrames
  <2>. QED
    BY <2>1, <2>2, <2>3
<1>. HIDE DEF next
<1>7. \A i \in 1 .. Len(next) : next[i].seq = from + i
  <2>. SUFFICES ASSUME NEW i \in 1 .. Len(next) PROVE next[i].seq = from + i
    OBVIOUS
  <2>1. next[i] = all[n + i] /\ n + i \in 1 .. Len(all) /\ n = from - log.base
    BY <1>1, <1>2, <1>6
  <2>2. all[n + i].seq = log.base + (n + i)
    BY <1>1, <2>1
  <2>. QED
    BY <1>1, <1>2, <2>1, <2>2
<1>8. Limit \in Nat \ {0}
  BY PageAssumption DEF Limit, Smaller
<1>. DEFINE m == Smaller(Limit, Len(next))
<1>9. m \in 0 .. Len(next) /\ (m = 0 \/ Len(next) <= Limit => m = Len(next))
  BY <1>1, <1>2, <1>6, <1>8 DEF Smaller
<1>10. VisibleFrames(log, from) = SubSeq(next, 1, m)
  BY <1>5 DEF VisibleFrames, FirstOf
<1>. HIDE DEF m
<1>11. /\ SubSeq(next, 1, m) \in Seq(ChangeFrames) /\ Len(SubSeq(next, 1, m)) = m
       /\ \A i \in 1 .. m : SubSeq(next, 1, m)[i] = next[i]
  BY <1>6, <1>9
<1>12. \A i \in 1 .. Len(next) : \E j \in 1 .. Len(all) : next[i] = all[j]
  <2>. SUFFICES ASSUME NEW i \in 1 .. Len(next) PROVE \E j \in 1 .. Len(all) : next[i] = all[j]
    OBVIOUS
  <2>1. next[i] = all[n + i] /\ n + i \in 1 .. Len(all)
    BY <1>1, <1>2, <1>6
  <2>. QED
    BY <2>1
<1>13. LastSeq(log) = log.base + Len(all) /\ log.base + Len(all) <= from + Len(next)
  <2>1. LastSeq(log) = log.base + Len(all)
    <3>1. Len(all) # 0 => Len(all) \in 1 .. Len(all)
      BY <1>1
    <3>2. all = <<>> <=> Len(all) = 0
      BY <1>1
    <3>. QED
      BY <1>1, <3>1, <3>2 DEF LastSeq
  <2>. QED
    BY <1>1, <1>2, <1>6, <2>1
<1>14. m = 0 \/ ~HasMoreFrames(log, from) => LastSeq(log) <= from + m
  <2>1. ~HasMoreFrames(log, from) => Len(next) <= Limit
    BY <1>1, <1>2, <1>5, <1>6, <1>8 DEF HasMoreFrames
  <2>. QED
    BY <1>9, <1>13, <2>1
<1>. DEFINE w == SubSeq(next, 1, m)
<1>15. /\ VisibleFrames(log, from) = w /\ w \in Seq(ChangeFrames) /\ Len(w) = m
       /\ \A i \in 1 .. m : w[i] = next[i] /\ i \in 1 .. Len(next)
  BY <1>1, <1>6, <1>9, <1>10, <1>11
<1>. HIDE DEF w
<1>16. w = <<>> => m = 0
  BY <1>15
<1>17. w = <<>> \/ ~HasMoreFrames(log, from) => LastSeq(log) <= from + Len(w)
  BY <1>14, <1>15, <1>16
<1>18. \A i \in 1 .. Len(w) : w[i].seq = from + i /\ \E j \in 1 .. Len(all) : w[i] = all[j]
  BY <1>7, <1>12, <1>15
<1>. QED
  BY <1>15, <1>17, <1>18

\* A run that is over holds no frames, and its watermark is all there is to know.
LEMMA RunOverOK ==
  ASSUME RunInv, RunOver, watermark' \in Nat
  PROVE  RunInv'
<1>1. NoPage \in SnapshotPages
  BY DEF NoPage, NewPage, Header, Headers, SnapshotPages
<1>. QED
  BY <1>1 DEF RunInv, RunTypes, RunOver, RunLocals, SeedLocals, NoFrameSkipped

\* The pages of the log, the merge and the watermark.
LEMMA FramesStep ==
  ASSUME RunInv, TypeOK, Dense(cdc),
         \/ StartRun \/ FetchRefused \/ FetchTooLarge \/ FetchFrames \/ FetchReset
         \/ MergeNothing \/ Merge \/ Mark \/ RunEnds
  PROVE  RunInv'
<1>1. CASE StartRun
  BY <1>1 DEF StartRun, RunInv, RunTypes, NoFrameSkipped, seedVars, lakehouse
<1>2. CASE FetchRefused \/ FetchTooLarge \/ MergeNothing \/ RunEnds
  <2>1. RunOver /\ watermark' = watermark
    BY <1>2 DEF FetchRefused, FetchTooLarge, MergeNothing, RunEnds, lakehouse
  <2>. QED
    BY <2>1, RunOverOK DEF RunInv, RunTypes
<1>3. CASE FetchFrames
  <2>. DEFINE new == VisibleFrames(cdc, from_seq)
  <2>1. /\ all_frames' = all_frames \o new /\ npc = "fetch" /\ ~Gap(cdc, from_seq)
        /\ UNCHANGED <<last_seq, seedVars, watermark>>
        /\ \/ npc' = "fetch" /\ new # <<>> /\ from_seq' = new[Len(new)].seq
           \/ npc' = "merge" /\ from_seq' = from_seq
    BY <1>3 DEF FetchFrames, FetchAnswered, Answer, lakehouse
  <2>2. cdc \in Logs /\ from_seq \in Nat /\ last_seq \in Nat /\ all_frames \in Seq(ChangeFrames)
        /\ from_seq = last_seq + Len(all_frames)
        /\ \A i \in 1 .. Len(all_frames) : all_frames[i].seq = last_seq + i
    BY <2>1 DEF TypeOK, LogTypes, RunInv, RunTypes, NoFrameSkipped
  <2>3. new \in Seq(ChangeFrames) /\ \A i \in 1 .. Len(new) : new[i].seq = from_seq + i
    BY <2>1, <2>2, FramesFollow
  <2>. HIDE DEF new
  <2>4. /\ all_frames' \in Seq(ChangeFrames) /\ Len(all_frames') = Len(all_frames) + Len(new)
        /\ \A i \in 1 .. Len(all_frames) : all_frames'[i] = all_frames[i]
        /\ \A i \in Len(all_frames) + 1 .. Len(all_frames) + Len(new) :
              all_frames'[i] = new[i - Len(all_frames)]
    BY <2>1, <2>2, <2>3
  <2>5. \A i \in 1 .. Len(all_frames') : all_frames'[i].seq = last_seq + i
    <3>. SUFFICES ASSUME NEW i \in 1 .. Len(all_frames') PROVE all_frames'[i].seq = last_seq + i
      OBVIOUS
    <3>1. CASE i <= Len(all_frames)
      BY <2>2, <2>4, <3>1
    <3>2. CASE i > Len(all_frames)
      <4>1. i - Len(all_frames) \in 1 .. Len(new) /\ all_frames'[i] = new[i - Len(all_frames)]
        BY <2>2, <2>3, <2>4, <3>2
      <4>. QED
        BY <2>2, <2>3, <4>1
    <3>. QED
      BY <2>2, <2>3, <2>4, <3>1, <3>2
  <2>6. new # <<>> => new[Len(new)].seq = last_seq + Len(all_frames')
    BY <2>2, <2>3, <2>4
  <2>7. from_seq' \in Nat /\ (npc' = "fetch" => from_seq' = last_seq + Len(all_frames'))
    BY <2>1, <2>2, <2>4, <2>6
  <2>. QED
    BY <2>1, <2>4, <2>5, <2>7 DEF RunInv, RunTypes, NoFrameSkipped, seedVars
<1>4. CASE FetchReset
  <2>1. CASE RunOver
    BY <1>4, <2>1, RunOverOK DEF FetchReset, lakehouse, RunInv, RunTypes
  <2>2. CASE npc' = "page" /\ SeedLocals /\ UNCHANGED <<last_seq, from_seq, all_frames>>
    <3>1. NoPage \in SnapshotPages
      BY DEF NoPage, NewPage, Header, Headers, SnapshotPages
    <3>. QED
      BY <1>4, <2>2, <3>1
      DEF FetchReset, SeedLocals, lakehouse, RunInv, RunTypes, NoFrameSkipped
  <2>. QED
    BY <1>4, <2>1, <2>2 DEF FetchReset
<1>5. CASE Merge
  BY <1>5 DEF Merge, RunInv, RunTypes, NoFrameSkipped, runVars, seedVars
<1>6. CASE Mark
  <2>1. all_frames[Len(all_frames)] \in ChangeFrames
    BY <1>6 DEF Mark, RunInv, RunTypes
  <2>2. watermark' \in Nat /\ RunOver
    BY <1>6, <2>1 DEF Mark, ChangeFrames
  <2>. QED
    BY <2>2, RunOverOK
<1>. QED
  BY <1>1, <1>2, <1>3, <1>4, <1>5, <1>6

\* The pages of a snapshot: the run keeps its frames until it has its seed.
LEMMA SeedStep ==
  ASSUME RunInv, TypeOK, PageBegin \/ PageSlot \/ PageEnd \/ Replace \/ Seeded
  PROVE  RunInv'
<1>. USE DEF RunInv, RunTypes, NoFrameSkipped, runVars, seedVars, lakehouse
<1>0. NoPage \in SnapshotPages /\ hdr \in Headers /\ slots \in Tables
  BY DEF NoPage, NewPage, Header, Headers, SnapshotPages, TypeOK, DatTypes
<1>1. ASSUME RetryPage, UNCHANGED lakehouse PROVE RunInv'
  <2>1. CASE RunOver
    BY <1>1, <2>1, RunOverOK
  <2>2. CASE ~RunOver
    BY <1>0, <1>1, <2>2 DEF RetryPage
  <2>. QED
    BY <2>1, <2>2
<1>2. ASSUME RestartSeed, UNCHANGED lakehouse PROVE RunInv'
  <2>1. CASE RunOver
    BY <1>2, <2>1, RunOverOK
  <2>2. CASE ~RunOver
    BY <1>0, <1>2, <2>2 DEF RestartSeed
  <2>. QED
    BY <2>1, <2>2
<1>3. CASE PageBegin
  <2>1. NewPage(after, hdr) \in SnapshotPages
    BY <1>0 DEF NewPage, SnapshotPages
  <2>. QED
    BY <1>1, <1>3, <2>1 DEF PageBegin
<1>4. CASE PageSlot
  <2>1. page.slot \in Slots
    BY <1>4, CapacityAssumption, PageAssumption
    DEF PageSlot, ScanEnds, Smaller, SnapshotPages, Slots
  <2>2. slots[page.slot] \in Record /\ page.slot + 1 \in Nat
    BY <1>0, <2>1 DEF Tables, SnapshotPages
  <2>3. WithSlot(page, slots[page.slot]) \in SnapshotPages
    <3>1. PICK rec : rec = slots[page.slot]
      OBVIOUS
    <3>2. <<page.slot, rec>> \in Slots \X Record
      BY <2>1, <2>2, <3>1
    <3>3. page.rows \cup {<<page.slot, rec>>} \in SUBSET (Slots \X Record)
      BY <3>2 DEF SnapshotPages
    <3>4. WithSlot(page, rec) \in SnapshotPages
      BY <2>2, <3>3 DEF WithSlot, SnapshotPages
    <3>. QED
      BY <3>1, <3>4
  <2>. QED
    BY <1>4, <2>3 DEF PageSlot
<1>5. CASE PageEnd
  <2>1. page.header.seq \in Nat /\ page.slot \in Nat
    BY DEF SnapshotPages, Headers
  <2>2. CASE RestartSeed \/ RetryPage
    BY <1>1, <1>2, <1>5, <2>2 DEF PageEnd
  <2>3. CASE ~(RestartSeed \/ RetryPage)
    BY <1>5, <2>1, <2>3 DEF PageEnd
  <2>. QED
    BY <2>2, <2>3
<1>6. CASE Replace
  BY <1>6 DEF Replace
<1>7. CASE Seeded
  BY <1>0, <1>7 DEF Seeded, SeedLocals
<1>. QED
  BY <1>3, <1>4, <1>5, <1>6, <1>7

\* The notebook keeps the frames of a run in order, whatever it reads.
LEMMA RunKept == SyncSpec => []RunInv
<1>1. SyncInit => RunInv
  BY DEF SyncInit, RunInv, RunTypes, NoFrameSkipped, NoPage, NewPage, Header, Headers,
     SnapshotPages
<1>2. TypeOK /\ Dense(cdc) /\ RunInv /\ [SyncNext]_<<vars, syncVars>> => RunInv'
  <2>1. ASSUME RunInv, UNCHANGED syncVars PROVE RunInv'
    BY <2>1
    DEF RunInv, RunTypes, NoFrameSkipped, syncVars, runVars, seedVars, lakehouse
  <2>2. ASSUME TypeOK, Dense(cdc), RunInv, Notebook \/ RunEnds PROVE RunInv'
    BY <2>2, FramesStep, SeedStep DEF Notebook
  <2>. QED
    BY <2>1, <2>2 DEF SyncNext
<1>. QED
  BY <1>1, <1>2, EngineUndisturbed, TypeCorrect, LogIsDense, PTL DEF SyncSpec

\* What a run pulls continues its watermark without a hole, over any number of pages,
\* RESETs, cut-off runs and trimmed or removed logs.
THEOREM RunSkipsNoFrame == SyncSpec => []NoFrameSkipped
<1>1. RunInv => NoFrameSkipped
  BY DEF RunInv
<1>. QED
  BY <1>1, RunKept, PTL

-----------------------------------------------------------------------------
(* What a list of operations tells of a table *)

\* The recursion that a step function h makes from x0, and that it is there.
Unfolds(g, D, n, x0, h) ==
  g \in [0 .. n -> D] /\ g[0] = x0 /\ \A i \in 1 .. n : g[i] = h[<<g[i - 1], i>>]

\* A recursion over 1 .. n has a value at each step: an induction on how far it gets.
LEMMA Unfolding ==
  ASSUME NEW D, NEW n \in Nat, NEW x0 \in D, NEW h \in [D \X (1 .. n) -> D]
  PROVE  \E g : Unfolds(g, D, n, x0, h)
<1>. DEFINE Upto(m, g) == /\ g \in [0 .. m -> D] /\ g[0] = x0
                          /\ \A i \in 1 .. m : g[i] = h[<<g[i - 1], i>>]
            S == {m \in Nat : m <= n => \E g : Upto(m, g)}
<1>1. 0 \in S
  <2>. DEFINE g == [i \in 0 .. 0 |-> x0]
  <2>1. Upto(0, g)
    OBVIOUS
  <2>. QED
    BY <2>1
<1>2. ASSUME NEW m \in Nat, m \in S PROVE m + 1 \in S
  <2>. SUFFICES ASSUME m + 1 <= n PROVE \E g : Upto(m + 1, g)
    OBVIOUS
  <2>1. PICK g : Upto(m, g)
    BY <1>2
  <2>2. g[m] \in D /\ m + 1 \in 1 .. n
    BY <2>1
  <2>. DEFINE y == h[<<g[m], m + 1>>]
              f == [i \in 0 .. m + 1 |-> IF i = m + 1 THEN y ELSE g[i]]
  <2>3. y \in D
    BY <2>2
  <2>. HIDE DEF y
  <2>4. \A i \in 0 .. m + 1 : f[i] \in D
    BY <2>1, <2>3
  <2>5. f \in [0 .. m + 1 -> D]
    BY <2>4
  <2>6. f[0] = x0
    BY <2>1
  <2>7. ASSUME NEW i \in 1 .. m + 1 PROVE f[i] = h[<<f[i - 1], i>>]
    <3>1. CASE i = m + 1
      <4>1. f[i] = y /\ f[i - 1] = g[m]
        BY <3>1
      <4>. QED
        BY <3>1, <4>1 DEF y
    <3>2. CASE i # m + 1
      <4>1. i \in 1 .. m /\ f[i] = g[i] /\ f[i - 1] = g[i - 1]
        BY <3>2
      <4>. QED
        BY <2>1, <4>1
    <3>. QED
      BY <3>1, <3>2
  <2>8. Upto(m + 1, f)
    BY <2>5, <2>6, <2>7
  <2>. QED
    BY <2>8
<1>. HIDE DEF S
<1>3. n \in S
  BY <1>1, <1>2, CountingUp
<1>4. PICK g : Upto(n, g)
  BY <1>3 DEF S
<1>. QED
  BY <1>4 DEF Unfolds

\* Two sequences of steps that begin alike and go on alike are the same.
Alike(f, g, n) == f[0] = g[0] /\ \A i \in 1 .. n : f[i - 1] = g[i - 1] => f[i] = g[i]

\* Two functions that begin alike and step alike are alike.
LEMMA SameSteps ==
  ASSUME NEW n \in Nat, NEW f, NEW g, Alike(f, g, n)
  PROVE  \A i \in 0 .. n : f[i] = g[i]
<1>. f[0] = g[0] /\ \A i \in 1 .. n : f[i - 1] = g[i - 1] => f[i] = g[i]
  BY DEF Alike
<1>. DEFINE S == {i \in Nat : i <= n => f[i] = g[i]}
<1>1. 0 \in S
  OBVIOUS
<1>2. ASSUME NEW i \in Nat, i \in S PROVE i + 1 \in S
  <2>1. i + 1 <= n => i + 1 \in 1 .. n /\ f[(i + 1) - 1] = g[(i + 1) - 1]
    BY <1>2
  <2>. QED
    BY <2>1
<1>. HIDE DEF S
<1>3. Nat \subseteq S
  BY <1>1, <1>2, CountingUp
<1>. QED
  BY <1>3 DEF S

\* The operations of a list of lists, list after list.
LEMMA FlatSteps ==
  ASSUME NEW n \in Nat, NEW opss \in [1 .. n -> Seq(Operations)]
  PROVE  \E g \in [0 .. n -> Seq(Operations)] :
           /\ g[0] = <<>> /\ \A i \in 1 .. n : g[i] = g[i - 1] \o opss[i]
           /\ Flat(opss) = g[n]
<1>. DEFINE D == Seq(Operations)
            h == [p \in D \X (1 .. n) |-> p[1] \o opss[p[2]]]
<1>1. <<>> \in D
  OBVIOUS
<1>2. h \in [D \X (1 .. n) -> D]
  <2>1. \A p \in D \X (1 .. n) : p[1] \o opss[p[2]] \in D
    <3>. SUFFICES ASSUME NEW p \in D \X (1 .. n) PROVE p[1] \o opss[p[2]] \in D
      OBVIOUS
    <3>1. p[1] \in Seq(Operations) /\ opss[p[2]] \in Seq(Operations)
      OBVIOUS
    <3>. QED
      BY <3>1, ConcatProperties
  <2>. QED
    BY <2>1
<1>3. \A x \in D, i \in 1 .. n : h[<<x, i>>] = x \o opss[i]
  OBVIOUS
<1>. HIDE DEF D, h
<1>4. PICK g : Unfolds(g, D, n, <<>>, h)
  BY <1>1, <1>2, Unfolding
<1>5. /\ g \in [0 .. n -> D] /\ g[0] = <<>>
      /\ \A i \in 1 .. n : g[i] = g[i - 1] \o opss[i]
  <2>1. g \in [0 .. n -> D] /\ g[0] = <<>> /\ \A i \in 1 .. n : g[i] = h[<<g[i - 1], i>>]
    BY <1>4 DEF Unfolds
  <2>2. \A i \in 1 .. n : i - 1 \in 0 .. n
    OBVIOUS
  <2>3. \A i \in 1 .. n : g[i - 1] \in D
    BY <2>1, <2>2
  <2>. QED
    BY <1>3, <2>1, <2>3
<1>6. Len(opss) = n
  BY DEF D
<1>. DEFINE Fix(f) == f = [i \in 0 .. Len(opss) |-> IF i = 0 THEN <<>> ELSE f[i - 1] \o opss[i]]
            all == CHOOSE f : Fix(f)
<1>7. Fix(g)
  <2>. DEFINE w == [i \in 0 .. Len(opss) |-> IF i = 0 THEN <<>> ELSE g[i - 1] \o opss[i]]
  <2>1. ASSUME NEW i \in 0 .. n PROVE g[i] = w[i]
    <3>1. w[i] = IF i = 0 THEN <<>> ELSE g[i - 1] \o opss[i]
      BY <1>6
    <3>2. i = 0 \/ i \in 1 .. n
      OBVIOUS
    <3>. QED
      BY <1>5, <3>1, <3>2
  <2>2. w = [i \in 0 .. n |-> w[i]] /\ g = [i \in 0 .. n |-> g[i]]
    BY <1>5, <1>6
  <2>. HIDE DEF w
  <2>3. g = w
    BY <2>1, <2>2
  <2>. QED
    BY <2>3 DEF w
<1>8. Fix(all)
  BY <1>7
<1>9. Flat(opss) = all[n]
  BY <1>6 DEF Flat
<1>10. all[0] = <<>> /\ \A i \in 1 .. n : all[i] = all[i - 1] \o opss[i]
  <2>1. \A i \in 0 .. n : all[i] = IF i = 0 THEN <<>> ELSE all[i - 1] \o opss[i]
    BY <1>6, <1>8
  <2>. HIDE DEF all
  <2>2. ASSUME NEW i \in 1 .. n PROVE all[i] = all[i - 1] \o opss[i]
    <3>1. i \in 0 .. n /\ i # 0
      OBVIOUS
    <3>. QED
      BY <2>1, <3>1, Zenon
  <2>3. 0 \in 0 .. n
    OBVIOUS
  <2>4. all[0] = <<>>
    BY <2>1, <2>3, Zenon
  <2>. QED
    BY <2>2, <2>4
<1>. HIDE DEF all
<1>11. \A i \in 0 .. n : all[i] = g[i]
  <2>1. Alike(all, g, n)
    BY <1>5, <1>10 DEF Alike
  <2>. QED
    BY <2>1, SameSteps
<1>12. Flat(opss) = g[n]
  BY <1>9, <1>11
<1>. QED
  BY <1>5, <1>12 DEF D

\* Likewise a consumer, operation after operation.
LEMMA ConsumedAllSteps ==
  ASSUME NEW rows \in SUBSET Rows, NEW ops \in Seq(Operations)
  PROVE  \E g \in [0 .. Len(ops) -> SUBSET Rows] :
           /\ g[0] = rows /\ \A i \in 1 .. Len(ops) : g[i] = Consumed(g[i - 1], ops[i])
           /\ ConsumedAll(rows, ops) = g[Len(ops)]
<1>. DEFINE D == SUBSET Rows
            n == Len(ops)
            h == [p \in D \X (1 .. n) |-> Consumed(p[1], ops[p[2]])]
<1>1. n \in Nat /\ \A i \in 1 .. n : ops[i] \in Operations
  OBVIOUS
<1>2. \A x \in D, o \in Operations : Consumed(x, o) \in D
  BY DEF Consumed, Operations, Row, Rows
<1>3. h \in [D \X (1 .. n) -> D]
  BY <1>1, <1>2
<1>4. \A x \in D, i \in 1 .. n : h[<<x, i>>] = Consumed(x, ops[i])
  OBVIOUS
<1>. HIDE DEF D, h, n
<1>5. PICK g : Unfolds(g, D, n, rows, h)
  BY <1>1, <1>3, Unfolding DEF D
<1>6. /\ g \in [0 .. n -> D] /\ g[0] = rows
      /\ \A i \in 1 .. n : g[i] = Consumed(g[i - 1], ops[i])
  <2>1. g \in [0 .. n -> D] /\ g[0] = rows /\ \A i \in 1 .. n : g[i] = h[<<g[i - 1], i>>]
    BY <1>5 DEF Unfolds
  <2>2. \A i \in 1 .. n : i - 1 \in 0 .. n
    BY <1>1
  <2>3. \A i \in 1 .. n : g[i - 1] \in D
    BY <2>1, <2>2
  <2>. QED
    BY <1>4, <2>1, <2>3
<1>. DEFINE Fix(f) == f = [i \in 0 .. n |-> IF i = 0 THEN rows ELSE Consumed(f[i - 1], ops[i])]
            all == CHOOSE f : Fix(f)
<1>7. Fix(g)
  <2>. DEFINE w == [i \in 0 .. n |-> IF i = 0 THEN rows ELSE Consumed(g[i - 1], ops[i])]
  <2>1. ASSUME NEW i \in 0 .. n PROVE g[i] = w[i]
    <3>1. w[i] = IF i = 0 THEN rows ELSE Consumed(g[i - 1], ops[i])
      OBVIOUS
    <3>2. i = 0 \/ i \in 1 .. n
      BY <1>1
    <3>. QED
      BY <1>6, <3>1, <3>2
  <2>2. w = [i \in 0 .. n |-> w[i]] /\ g = [i \in 0 .. n |-> g[i]]
    BY <1>6
  <2>. HIDE DEF w
  <2>3. g = w
    BY <2>1, <2>2
  <2>. QED
    BY <2>3 DEF w
<1>8. Fix(all)
  BY <1>7
<1>9. ConsumedAll(rows, ops) = all[n]
  BY DEF ConsumedAll, n
<1>10. all[0] = rows /\ \A i \in 1 .. n : all[i] = Consumed(all[i - 1], ops[i])
  <2>1. \A i \in 0 .. n : all[i] = IF i = 0 THEN rows ELSE Consumed(all[i - 1], ops[i])
    BY <1>8
  <2>. QED
    BY <1>1, <2>1
<1>. HIDE DEF all
<1>11. \A i \in 0 .. n : all[i] = g[i]
  <2>1. Alike(all, g, n)
    BY <1>6, <1>10 DEF Alike
  <2>. QED
    BY <1>1, <2>1, SameSteps
<1>. QED
  BY <1>1, <1>6, <1>9, <1>11 DEF D, n

\* Which rows of an id a table has, and what a list of operations tells of a table: the
\* last operation on an id says what its row has become, and the others are as they were.
RowsWith(rows, id) == {r \in rows : r.id = id}
Tells(ops, old, new) ==
  \A id \in Ids :
    RowsWith(new, id) =
      IF OpsOn(ops, id) # {} THEN {Collapsed(ops, id)} \ {Deleted} ELSE RowsWith(old, id)

\* There is a last operation on an id, and it is the one that counts.
LEMMA LastOn ==
  ASSUME NEW ops \in Seq(Operations), NEW id, OpsOn(ops, id) # {}
  PROVE  \E i \in OpsOn(ops, id) :
           (\A j \in OpsOn(ops, id) : j <= i) /\ Collapsed(ops, id) = Image(ops[i])
<1>. DEFINE n == Len(ops)
            T == {n - j : j \in OpsOn(ops, id)}
            Last(i) == \A j \in OpsOn(ops, id) : j <= i
<1>1. n \in Nat /\ OpsOn(ops, id) \subseteq 1 .. n
  BY DEF OpsOn
<1>2. T \subseteq Nat /\ T # {}
  BY <1>1
<1>3. PICK x \in T : \A y \in T : x <= y
  BY <1>2, LeastNumber
<1>4. PICK i \in OpsOn(ops, id) : x = n - i
  BY <1>3
<1>5. ASSUME NEW j \in OpsOn(ops, id) PROVE j <= i
  <2>1. n - j \in T
    OBVIOUS
  <2>2. n - i <= n - j
    BY <1>3, <1>4, <2>1
  <2>. QED
    BY <1>1, <2>2
<1>. DEFINE c == CHOOSE k \in OpsOn(ops, id) : Last(k)
<1>6. c \in OpsOn(ops, id) /\ Last(c)
  BY <1>5
<1>7. Collapsed(ops, id) = Image(ops[c])
  BY DEF Collapsed
<1>. HIDE DEF c
<1>. QED
  BY <1>6, <1>7

\* No operation, one operation, one list after another.
LEMMA TellsNone ==
  ASSUME NEW rows
  PROVE  Tells(<<>>, rows, rows)
BY DEF Tells, OpsOn

\* One operation tells of the step the consumer makes with it.
LEMMA TellsOne ==
  ASSUME NEW rows \in SUBSET Rows, NEW o \in Operations
  PROVE  Tells(<<o>>, rows, Consumed(rows, o))
<1>. DEFINE q == <<o>>
<1>1. q \in Seq(Operations) /\ Len(q) = 1 /\ q[1] = o
  OBVIOUS
<1>. HIDE DEF q
<1>2. ASSUME NEW id \in Ids, o.id # id
      PROVE  OpsOn(q, id) = {} /\ RowsWith(Consumed(rows, o), id) = RowsWith(rows, id)
  <2>1. OpsOn(q, id) = {}
    BY <1>1, <1>2 DEF OpsOn
  <2>. QED
    BY <1>2, <2>1 DEF RowsWith, Consumed, Row
<1>3. ASSUME NEW id \in Ids, o.id = id
      PROVE  /\ OpsOn(q, id) # {}
             /\ RowsWith(Consumed(rows, o), id) = {Collapsed(q, id)} \ {Deleted}
  <2>1. OpsOn(q, id) = {1}
    BY <1>1, <1>3 DEF OpsOn
  <2>2. Collapsed(q, id) = Image(o)
    BY <1>1, <2>1, LastOn
  <2>3. CASE o.op = "DELETE"
    BY <1>3, <2>1, <2>2, <2>3 DEF RowsWith, Consumed, Image
  <2>4. CASE o.op # "DELETE"
    <3>1. Row(o.id, o.val) # Deleted
      BY RowLive, NotLive
    <3>2. RowsWith(Consumed(rows, o), id) = {Row(o.id, o.val)}
      BY <1>3, <2>4 DEF RowsWith, Consumed, Row
    <3>. QED
      BY <2>1, <2>2, <2>4, <3>1, <3>2 DEF Image
  <2>. QED
    BY <2>3, <2>4
<1>. QED
  BY <1>2, <1>3 DEF Tells, q

\* What is told in two parts is told in one.
LEMMA TellsThen ==
  ASSUME NEW p \in Seq(Operations), NEW q \in Seq(Operations), NEW a, NEW b, NEW c,
         Tells(p, a, b), Tells(q, b, c)
  PROVE  Tells(p \o q, a, c)
<1>. DEFINE w == p \o q
<1>1. /\ w \in Seq(Operations) /\ Len(w) = Len(p) + Len(q)
      /\ Len(p) \in Nat /\ Len(q) \in Nat
      /\ \A i \in 1 .. Len(p) : w[i] = p[i]
      /\ \A i \in 1 .. Len(q) : w[Len(p) + i] = q[i]
  <2>1. \A i \in 1 .. Len(p) + Len(q) :
          w[i] = IF i <= Len(p) THEN p[i] ELSE q[i - Len(p)]
    BY ConcatProperties
  <2>2. w \in Seq(Operations) /\ Len(w) = Len(p) + Len(q) /\ Len(p) \in Nat /\ Len(q) \in Nat
    BY ConcatProperties
  <2>. HIDE DEF w
  <2>3. \A i \in 1 .. Len(q) : Len(p) + i \in 1 .. Len(p) + Len(q) /\ ~(Len(p) + i <= Len(p))
          /\ (Len(p) + i) - Len(p) = i
    BY <2>2
  <2>. QED
    BY <2>1, <2>2, <2>3
<1>. HIDE DEF w
<1>2. SUFFICES ASSUME NEW id \in Ids
               PROVE  RowsWith(c, id) = IF OpsOn(w, id) # {} THEN {Collapsed(w, id)} \ {Deleted}
                                        ELSE RowsWith(a, id)
  BY DEF Tells, w
<1>3. OpsOn(w, id) = OpsOn(p, id) \cup {Len(p) + i : i \in OpsOn(q, id)}
  <2>1. ASSUME NEW k \in OpsOn(w, id)
        PROVE  k \in OpsOn(p, id) \cup {Len(p) + i : i \in OpsOn(q, id)}
    <3>1. k \in 1 .. Len(p) + Len(q) /\ w[k].id = id
      BY <1>1, <2>1 DEF OpsOn
    <3>2. CASE k <= Len(p)
      BY <1>1, <3>1, <3>2 DEF OpsOn
    <3>3. CASE k > Len(p)
      <4>1. k - Len(p) \in 1 .. Len(q) /\ k = Len(p) + (k - Len(p))
        BY <1>1, <3>1, <3>3
      <4>. QED
        BY <1>1, <3>1, <4>1 DEF OpsOn
    <3>. QED
      BY <1>1, <3>1, <3>2, <3>3
  <2>2. ASSUME NEW k \in OpsOn(p, id) PROVE k \in OpsOn(w, id)
    BY <1>1 DEF OpsOn
  <2>3. ASSUME NEW i \in OpsOn(q, id) PROVE Len(p) + i \in OpsOn(w, id)
    BY <1>1 DEF OpsOn
  <2>. QED
    BY <2>1, <2>2, <2>3
<1>4. CASE OpsOn(q, id) # {}
  <2>1. PICK i \in OpsOn(q, id) : (\A j \in OpsOn(q, id) : j <= i) /\ Collapsed(q, id) = Image(q[i])
    BY <1>4, LastOn
  <2>2. OpsOn(w, id) # {}
    BY <1>3, <1>4
  <2>3. PICK k \in OpsOn(w, id) : (\A j \in OpsOn(w, id) : j <= k) /\ Collapsed(w, id) = Image(w[k])
    BY <1>1, <2>2, LastOn
  <2>4. Len(p) + i <= k
    BY <1>3, <2>3
  <2>5. OpsOn(p, id) \subseteq 1 .. Len(p) /\ OpsOn(q, id) \subseteq 1 .. Len(q)
    BY DEF OpsOn
  <2>6. k = Len(p) + i
    <3>1. k \notin OpsOn(p, id)
      BY <1>1, <2>4, <2>5
    <3>2. PICK j \in OpsOn(q, id) : k = Len(p) + j
      BY <1>3, <3>1
    <3>3. j <= i /\ i \in Nat /\ j \in Nat
      BY <1>1, <2>1, <2>5, <3>2
    <3>4. Len(p) \in Nat
      BY <1>1
    <3>. QED
      BY ONLY <2>4, <3>2, <3>3, <3>4
  <2>7. w[k] = q[i]
    BY <1>1, <2>5, <2>6
  <2>. QED
    BY <1>4, <2>1, <2>2, <2>3, <2>7 DEF Tells
<1>5. CASE OpsOn(q, id) = {}
  <2>1. OpsOn(w, id) = OpsOn(p, id) /\ RowsWith(c, id) = RowsWith(b, id)
    BY <1>3, <1>5 DEF Tells
  <2>2. CASE OpsOn(p, id) = {}
    BY <2>1, <2>2 DEF Tells
  <2>3. CASE OpsOn(p, id) # {}
    <3>1. PICK i \in OpsOn(p, id) :
            (\A j \in OpsOn(p, id) : j <= i) /\ Collapsed(p, id) = Image(p[i])
      BY <2>3, LastOn
    <3>2. PICK k \in OpsOn(w, id) :
            (\A j \in OpsOn(w, id) : j <= k) /\ Collapsed(w, id) = Image(w[k])
      BY <1>1, <2>1, <2>3, LastOn
    <3>3. OpsOn(p, id) \subseteq 1 .. Len(p)
      BY DEF OpsOn
    <3>4. k = i /\ w[k] = p[i]
      BY <1>1, <2>1, <3>1, <3>2, <3>3
    <3>. QED
      BY <2>1, <2>3, <3>1, <3>2, <3>4 DEF Tells
  <2>. QED
    BY <2>2, <2>3
<1>. QED
  BY <1>4, <1>5

\* A list of lists tells what its parts tell one after the other.
LEMMA TellsFlat ==
  ASSUME NEW n \in Nat, NEW opss \in [1 .. n -> Seq(Operations)], NEW R,
         \A i \in 1 .. n : Tells(opss[i], R[i - 1], R[i])
  PROVE  Flat(opss) \in Seq(Operations) /\ Tells(Flat(opss), R[0], R[n])
<1>1. PICK g \in [0 .. n -> Seq(Operations)] :
        /\ g[0] = <<>> /\ \A i \in 1 .. n : g[i] = g[i - 1] \o opss[i]
        /\ Flat(opss) = g[n]
  BY FlatSteps, Zenon
<1>. DEFINE S == {i \in Nat : i <= n => Tells(g[i], R[0], R[i])}
<1>2. 0 \in S
  BY <1>1, TellsNone
<1>3. ASSUME NEW i \in Nat, i \in S PROVE i + 1 \in S
  <2>. SUFFICES ASSUME i + 1 <= n PROVE Tells(g[i + 1], R[0], R[i + 1])
    OBVIOUS
  <2>1. i + 1 \in 1 .. n /\ (i + 1) - 1 = i /\ i \in 0 .. n
    OBVIOUS
  <2>2. Tells(g[i], R[0], R[i]) /\ Tells(opss[i + 1], R[i], R[i + 1])
    BY <1>3, <2>1
  <2>3. g[i] \in Seq(Operations) /\ opss[i + 1] \in Seq(Operations)
    BY <2>1
  <2>4. g[i + 1] = g[i] \o opss[i + 1]
    BY <1>1, <2>1
  <2>5. Tells(g[i] \o opss[i + 1], R[0], R[i + 1])
    BY <2>2, <2>3, TellsThen
  <2>. QED
    BY <2>4, <2>5
<1>. HIDE DEF S
<1>4. n \in S
  BY <1>2, <1>3, CountingUp
<1>. QED
  BY <1>1, <1>4 DEF S

\* What a consumer of a list of operations ends with is what the list tells.
LEMMA TellsAll ==
  ASSUME NEW rows \in SUBSET Rows, NEW ops \in Seq(Operations)
  PROVE  ConsumedAll(rows, ops) \in SUBSET Rows /\ Tells(ops, rows, ConsumedAll(rows, ops))
<1>. DEFINE n == Len(ops)
            Cut(i) == SubSeq(ops, 1, i)
<1>0. n \in Nat /\ \A i \in 1 .. n : ops[i] \in Operations
  OBVIOUS
<1>1. PICK g \in [0 .. n -> SUBSET Rows] :
        /\ g[0] = rows /\ \A i \in 1 .. n : g[i] = Consumed(g[i - 1], ops[i])
        /\ ConsumedAll(rows, ops) = g[n]
  BY ConsumedAllSteps
<1>2. Cut(0) = <<>> /\ Cut(n) = ops
  OBVIOUS
<1>3. ASSUME NEW i \in Nat, i + 1 <= n
      PROVE  Cut(i) \in Seq(Operations) /\ Cut(i + 1) = Cut(i) \o <<ops[i + 1]>>
  <2>0. i \in 0 .. n /\ i + 1 \in 1 .. n
    BY <1>0, <1>3
  <2>1. Cut(i) \in Seq(Operations) /\ Len(Cut(i)) = i
    BY <2>0
  <2>2. Cut(i + 1) \in Seq(Operations) /\ Len(Cut(i + 1)) = i + 1
    BY <2>0
  <2>3. Cut(i + 1) = Append(Cut(i), ops[i + 1])
    BY <2>0, <2>1, <2>2
  <2>4. Append(Cut(i), ops[i + 1]) = Cut(i) \o <<ops[i + 1]>>
    BY <1>0, <2>0, <2>1, AppendIsConcat
  <2>. QED
    BY <2>1, <2>3, <2>4
<1>. HIDE DEF Cut, n
<1>. DEFINE S == {i \in Nat : i <= n => Tells(Cut(i), rows, g[i])}
<1>4. 0 \in S
  BY <1>1, <1>2, TellsNone
<1>5. ASSUME NEW i \in Nat, i \in S PROVE i + 1 \in S
  <2>. SUFFICES ASSUME i + 1 <= n PROVE Tells(Cut(i + 1), rows, g[i + 1])
    OBVIOUS
  <2>1. i + 1 \in 1 .. n /\ (i + 1) - 1 = i /\ i \in 0 .. n /\ Tells(Cut(i), rows, g[i])
    BY <1>0, <1>5
  <2>2. g[i] \in SUBSET Rows /\ ops[i + 1] \in Operations /\ <<ops[i + 1]>> \in Seq(Operations)
    BY <1>0, <2>1
  <2>3. Tells(<<ops[i + 1]>>, g[i], g[i + 1])
    BY <1>1, <2>1, <2>2, TellsOne
  <2>. QED
    BY <1>3, <2>1, <2>2, <2>3, TellsThen
<1>. HIDE DEF S
<1>6. n \in S
  BY <1>0, <1>4, <1>5, CountingUp
<1>7. g[n] \in SUBSET Rows
  BY <1>0
<1>. QED
  BY <1>0, <1>1, <1>2, <1>6, <1>7 DEF S

\* What a frame tells is what a consumer makes of it.
LEMMA TellsFrame ==
  ASSUME NEW rows \in SUBSET Rows, NEW f \in ChangeFrames
  PROVE  Flat(f.ops) \in Seq(Operations) /\ Tells(Flat(f.ops), rows, ConsumedFrame(rows, f))
<1>. DEFINE D == SUBSET Rows
            n == Len(f.ops)
            h == [p \in D \X (1 .. n) |-> ConsumedAll(p[1], f.ops[p[2]])]
<1>1. f.ops \in Seq(Seq(Operations))
  BY DEF ChangeFrames
<1>2. n \in Nat /\ f.ops \in [1 .. n -> Seq(Operations)]
  BY <1>1
<1>3. h \in [D \X (1 .. n) -> D]
  <2>1. \A x \in D, i \in 1 .. n : ConsumedAll(x, f.ops[i]) \in D
    BY <1>2, TellsAll
  <2>. QED
    BY <2>1
<1>4. \A x \in D, i \in 1 .. n : h[<<x, i>>] = ConsumedAll(x, f.ops[i])
  OBVIOUS
<1>. HIDE DEF D, h
<1>5. PICK g : Unfolds(g, D, n, rows, h)
  BY <1>2, <1>3, Unfolding DEF D
<1>6. /\ g \in [0 .. n -> D] /\ g[0] = rows
      /\ \A i \in 1 .. n : g[i - 1] \in D /\ g[i] = ConsumedAll(g[i - 1], f.ops[i])
  <2>1. g \in [0 .. n -> D] /\ g[0] = rows /\ \A i \in 1 .. n : g[i] = h[<<g[i - 1], i>>]
    BY <1>5 DEF Unfolds
  <2>2. \A i \in 1 .. n : i - 1 \in 0 .. n
    BY <1>2
  <2>3. \A i \in 1 .. n : g[i - 1] \in D
    BY <2>1, <2>2
  <2>. QED
    BY <1>4, <2>1, <2>3
<1>7. ConsumedFrame(rows, f) = g[n]
  <2>1. Consuming(rows, f, n, D, g)
    BY <1>2, <1>6 DEF Consuming
  <2>. QED
    BY <2>1, ConsumedSteps
<1>8. \A i \in 1 .. n : Tells(f.ops[i], g[i - 1], g[i])
  BY <1>2, <1>6, TellsAll DEF D
<1>9. Flat(f.ops) \in Seq(Operations) /\ Tells(Flat(f.ops), g[0], g[n])
  BY <1>2, <1>8, TellsFlat
<1>. QED
  BY <1>6, <1>7, <1>9

-----------------------------------------------------------------------------
(* What the tables have been, and what the log, the header, the WAL and an interrupted *)
(* operation say of them                                                              *)

\* The frames that the change log, or its replacement, holds.
FramesOf(log) == {log.frames[i] : i \in 1 .. Len(log.frames)}

\* The table at s - 1 with the frame s applied to it is the table at s.
FrameTrue(f) ==
  ~f.reset =>
    /\ f.seq - 1 \in DOMAIN truth /\ f.seq \in DOMAIN truth
    /\ ConsumedFrame(RowsOf(truth[f.seq - 1]), f) = RowsOf(truth[f.seq])
LogTrue == \A f \in FramesOf(cdc) \cup FramesOf(cdc_part) : FrameTrue(f)

TruthTypes ==
  /\ DOMAIN truth \subseteq Nat
  /\ truth \in [DOMAIN truth -> Contents]

\* The last sequence that a table can have been given.
LastGiven == IF wal.marked THEN wal.frame.seq ELSE hdr_safe.seq
TruthBound == \A s \in DOMAIN truth : s <= LastGiven

\* A header that announces nothing speaks of the file, unless a commit is on its way.
HeaderTrue ==
  ~Unstable(hdr) =>
    hdr.seq \in DOMAIN truth /\ (~wal.marked => truth[hdr.seq] = Content(slots))

\* The header as flushed, too, speaks of a table that has been.
SafeTrue == ~Unstable(hdr_safe) => hdr_safe.seq \in DOMAIN truth

\* The table that the commit in the WAL starts from, and the one it leaves.
CommitTrue ==
  wal.marked =>
    LET s == wal.frame.seq
    IN /\ s \in Nat \ {0} /\ s - 1 \in DOMAIN truth
       /\ s \in DOMAIN truth => truth[s] = Content(Replayed)
       /\ LogEnd = s => s \in DOMAIN truth
       /\ ~wal.frame.reset =>
            ConsumedFrame(RowsOf(truth[s - 1]), ChangeFrame(wal.frame)) = RowsOf(Replayed)

\* What an interrupted whole-table operation comes to when it is finished by an open.
RedoContent == IF hdr_safe.bulk = "RESTORE" THEN Content(backup.slots) ELSE EmptyTable
RedoTrue ==
  /\ hdr_safe.bulk # "NONE" /\ hdr_safe.pend = 0 /\ hdr_safe.seq \in DOMAIN truth
       => truth[hdr_safe.seq] = RedoContent
  /\ opening /\ pc \in {"bulk_sync", "bulk_close", "bulk_closed"} =>
       Content(slots) = RedoContent
  /\ opening /\ pc \in {"bulk_close", "bulk_closed"} => slots = slots_safe
TruthInv ==
  TruthTypes /\ LogTrue /\ TruthBound /\ HeaderTrue /\ SafeTrue /\ CommitTrue /\ RedoTrue

\* What the engine's own invariants say, together: where the header, the logs and the
\* file stand, and what a frame on its way says of the file.
EngineFacts ==
  /\ TypeOK /\ SeqInv /\ TableInv /\ BulkAnnounced /\ BulkPhases
  /\ FrameTied /\ FrameApart

\* The engine keeps these facts, whatever else is running.
LEMMA FactsHold ==
  ASSUME PlainFrames, "nobackup" \notin Faults
  PROVE  Spec => []EngineFacts
<1>1. Init => BulkAnnounced /\ BulkPhases
  BY DEF Init, BulkAnnounced, BulkPhases, TxnPcs, NoWal, Header
<1>2. TypeOK /\ SeqInv /\ TableInv /\ BulkAnnounced /\ BulkPhases /\ [Next]_vars
        => BulkAnnounced' /\ BulkPhases'
  <2>1. ASSUME BulkAnnounced, BulkPhases, UNCHANGED vars PROVE BulkAnnounced' /\ BulkPhases'
    BY <2>1 DEF BulkAnnounced, BulkPhases, vars, memVars, txnVars, bulkVars, logVars, datVars
  <2>. QED
    BY <2>1, BulkAnnouncedStep, BulkPhasesStep
<1>3. Spec => [](BulkAnnounced /\ BulkPhases)
  BY <1>1, <1>2, TypeCorrect, SeqCorrect, TableCorrect, PTL DEF Spec
<1>4. Spec => []FrameApart
  BY ApartCorrect
<1>. QED
  BY <1>3, <1>4, TypeCorrect, SeqCorrect, TableCorrect, TiedCorrect, PTL DEF EngineFacts

\* The content of a table has its rows and no more.
LEMMA ContentTwice ==
  ASSUME NEW t
  PROVE  Content(Content(t)) = Content(t) /\ RowsOf(Content(t)) = RowsOf(t)
<1>. DEFINE c == Content(t)
<1>1. \A s \in Slots : c[s] = IF Live(t[s]) THEN t[s] ELSE Empty
  BY DEF Content
<1>2. \A s \in Slots : (Live(c[s]) <=> Live(t[s])) /\ (Live(t[s]) => c[s] = t[s])
      /\ (~Live(t[s]) => c[s] = Empty)
  BY <1>1, NotLive
<1>3. LiveSlots(c) = LiveSlots(t)
  BY <1>2 DEF LiveSlots
<1>4. \A s \in LiveSlots(t) : c[s] = t[s]
  BY <1>2 DEF LiveSlots
<1>. HIDE DEF c
<1>5. RowsOf(c) = RowsOf(t)
  BY <1>3, <1>4 DEF RowsOf
<1>6. Content(c) = Content(t)
  BY <1>2 DEF Content
<1>. QED
  BY <1>5, <1>6 DEF c

\* A content is a table, the content of itself, and its rows are rows.
LEMMA ContentsAreTables ==
  ASSUME NEW c \in Contents
  PROVE  c \in Tables /\ Content(c) = c /\ RowsOf(c) \in SUBSET Rows
<1>1. c \in Tables
  BY DEF Contents, Tables, Record
<1>2. \A s \in Slots : c[s] = Empty \/ Live(c[s])
  BY DEF Contents, Rows, Live
<1>3. Content(c) = c
  <2>1. \A s \in Slots : Content(c)[s] = c[s]
    BY <1>2 DEF Content
  <2>2. Content(c) = [s \in Slots |-> Content(c)[s]] /\ c = [s \in Slots |-> c[s]]
    BY DEF Content, Contents
  <2>. QED
    BY <2>1, <2>2
<1>4. \A s \in LiveSlots(c) : c[s] \in Rows
  BY NotLive DEF LiveSlots, Contents
<1>. QED
  BY <1>1, <1>3, <1>4 DEF RowsOf

\* The commit in the WAL leads to the same table at each step of it.
LEMMA ReplayStays ==
  ASSUME TypeOK, TableInv, FrameTied, Next, wal.marked, wal' = wal
  PROVE  Replayed' = Replayed
<1>1. \A s \in Slots : slots'[s] = slots[s] \/ s \in EntrySlots(wal.frame)
  BY MarkedWrites
<1>2. wal \in Wals /\ OneEach(wal.frame)
  BY CountTypes DEF TableInv, WalPhases
<1>3. Replay(wal, slots') = Replay(wal, slots)
  BY <1>1, <1>2, ReplayAgain
<1>. QED
  BY <1>3 DEF Replayed

\* How a whole-table operation gets to the writing of its end.
LEMMA BulkEnds ==
  ASSUME Next, pc' \in {"bulk_sync", "bulk_close", "bulk_closed"}
  PROVE  \/ RestoreApply \/ BenchApply \/ BulkClear \/ TruncateEnd \/ BulkSync \/ BulkClose
         \/ pc' = pc /\ UNCHANGED <<opening, slots, slots_safe, hdr, hdr_safe>>
<1>. USE DEF Ready, Idle, txnVars, bulkVars, memVars, logVars, datVars
<1>1. ~(\/ (\E id \in Ids, v \in Vals : Insert(id, v) \/ Update(id, v))
        \/ (\E id \in Ids : Delete(id)) \/ Begin \/ Commit \/ Rollback \/ TruncateInTxn
        \/ Truncate \/ Restore \/ Bench \/ Backup \/ (\E s \in 0 .. MaxSeq : TrimBuild(s)))
  BY DEF Insert, Update, Delete, Mutate, StartFlush, Begin, Commit, Rollback, TruncateInTxn,
     Truncate, Restore, Bench, BulkBegin, Backup, TrimBuild
<1>2. ~(\/ CaptureSlot \/ ClearInTxn \/ TxnStage \/ TxnWrite \/ WalCommit \/ CdcPublish
        \/ ApplySlot \/ PublishHeader \/ CheckpointSync \/ WalClear \/ TruncateSlot)
  BY DEF CaptureSlot, ClearInTxn, TxnStage, TxnWrite, TxnOver, WalCommit, CdcPublish,
     ApplySlot, PublishHeader, CheckpointSync, WalClear, TruncateSlot
<1>3. ~(\/ RestoreLost \/ (\E v \in Vals : BenchRow(v)) \/ BulkCloseSync \/ EmitReset
        \/ ClearReset \/ TrimSwap \/ WalRecover \/ RecoverReset \/ CheckAligned)
  BY DEF RestoreLost, BenchRow, BulkCloseSync, EmitReset, ClearReset, TrimSwap, WalRecover,
     RecoverReset, CheckAligned
<1>4. ~(Open \/ Close \/ ProcessEnds \/ PowerLoss)
  BY DEF Open, Close, ProcessEnds, PowerLoss, Forget
<1>5. CASE LoseBackup \/ LoseLog
  BY <1>5 DEF LoseBackup, LoseLog
<1>. QED
  BY <1>1, <1>2, <1>3, <1>4, <1>5 DEF Next, Command, Step, Environment

\* The facts at both ends of a step of the engine, with the truth recorded.
TruthStep ==
  /\ EngineFacts /\ EngineFacts' /\ TruthInv
  /\ Next /\ RecordTruth
  /\ "nobackup" \notin Faults

\* A table with a frame replayed is a table.
LEMMA ReplayedType ==
  ASSUME TypeOK
  PROVE  Replayed \in Tables
<1>1. wal.frame.entries \in Seq(WalEntries) /\ slots \in Tables
  BY DEF TypeOK, FrameTypes, Wals, Frames, DatTypes
<1>2. ASSUME NEW s \in Slots PROVE Replayed[s] \in Record
  <2>. DEFINE own == {i \in 1 .. Len(wal.frame.entries) : wal.frame.entries[i].slot = s}
  <2>1. Replayed[s] = IF wal.marked /\ own # {}
                        THEN wal.frame.entries[CHOOSE i \in own : TRUE].image ELSE slots[s]
    BY DEF Replayed, Replay
  <2>2. own # {} => (CHOOSE i \in own : TRUE) \in 1 .. Len(wal.frame.entries)
    OBVIOUS
  <2>3. own # {} => wal.frame.entries[CHOOSE i \in own : TRUE].image \in Record
    <3>. DEFINE k == CHOOSE i \in own : TRUE
    <3>1. own # {} => k \in 1 .. Len(wal.frame.entries)
      BY <2>2
    <3>. HIDE DEF k
    <3>2. own # {} => wal.frame.entries[k] \in WalEntries
      BY <1>1, <3>1
    <3>3. own # {} => wal.frame.entries[k].image \in Record
      BY <3>2 DEF WalEntries
    <3>. QED
      BY <3>3 DEF k
  <2>. QED
    BY <1>1, <2>1, <2>3 DEF Tables
<1>3. Replayed = [s \in Slots |-> Replayed[s]]
  BY DEF Replayed, Replay
<1>. QED
  BY <1>2, <1>3 DEF Tables

\* A sequence that the truth is given: by the log, or by a header.
LEMMA GivenOnce ==
  ASSUME TruthStep
  PROVE  /\ TruthTypes'
         /\ \A s \in DOMAIN truth : s \in DOMAIN truth' /\ truth'[s] = truth[s]
         /\ Published => /\ wal.marked /\ wal' = wal /\ hdr' = hdr
                         /\ DOMAIN truth' = DOMAIN truth \cup {wal.frame.seq}
                         /\ wal.frame.seq \notin DOMAIN truth
                              => truth'[wal.frame.seq] = Content(Replayed)
         /\ ~Published /\ hdr' # hdr /\ ~Unstable(hdr') =>
              /\ DOMAIN truth' = DOMAIN truth \cup {hdr'.seq}
              /\ hdr'.seq \notin DOMAIN truth => truth'[hdr'.seq] = Content(slots')
         /\ ~Published /\ ~(hdr' # hdr /\ ~Unstable(hdr')) => truth' = truth
<1>. USE DEF TruthStep
<1>0. TypeOK /\ TypeOK' /\ TruthTypes
  BY DEF EngineFacts, TruthInv
<1>a. ASSUME NEW s \in Nat, NEW t \in Tables, truth' = Given(s, t)
      PROVE  /\ TruthTypes' /\ DOMAIN truth' = DOMAIN truth \cup {s}
             /\ \A q \in DOMAIN truth : q \in DOMAIN truth' /\ truth'[q] = truth[q]
             /\ s \notin DOMAIN truth => truth'[s] = Content(t)
  <2>1. DOMAIN truth' = DOMAIN truth \cup {s}
    BY <1>a DEF Given
  <2>2. \A q \in DOMAIN truth \cup {s} :
          truth'[q] = IF q \in DOMAIN truth THEN truth[q] ELSE Content(t)
    BY <1>a DEF Given
  <2>3. Content(t) \in Contents
    BY ContentType
  <2>4. truth' = [q \in DOMAIN truth' |-> truth'[q]]
    BY <1>a DEF Given
  <2>5. \A q \in DOMAIN truth' : truth'[q] \in Contents /\ q \in Nat
    BY <1>0, <2>1, <2>2, <2>3 DEF TruthTypes
  <2>. QED
    BY <2>1, <2>2, <2>4, <2>5 DEF TruthTypes
<1>1. CASE Published
  <2>1. CdcPublish
    <3>1. cdc' # cdc /\ pc = "publish"
      BY <1>1 DEF Published
    <3>. QED
      BY <3>1, Writers DEF EmitReset, TrimSwap, Open, LoseLog
  <2>2. wal.marked /\ wal.frame = frame /\ wal' = wal /\ hdr' = hdr
    BY <2>1 DEF CdcPublish, datVars, EngineFacts, TableInv, WalPhases, ReplayPcs
  <2>3. truth' = Given(wal.frame.seq, Replayed)
    BY <1>1, <2>2 DEF RecordTruth
  <2>4. wal.frame.seq \in Nat
    BY <1>0, SeqTypes
  <2>. QED
    BY <1>0, <1>1, <1>a, <2>2, <2>3, <2>4, ReplayedType
<1>2. CASE ~Published /\ hdr' # hdr /\ ~Unstable(hdr')
  <2>1. truth' = Given(hdr'.seq, slots')
    BY <1>2 DEF RecordTruth
  <2>2. hdr'.seq \in Nat /\ slots' \in Tables
    BY <1>0 DEF TypeOK, DatTypes, Headers
  <2>. QED
    BY <1>2, <1>a, <2>1, <2>2
<1>3. CASE ~Published /\ ~(hdr' # hdr /\ ~Unstable(hdr'))
  <2>1. truth' = truth
    BY <1>3 DEF RecordTruth
  <2>. QED
    BY <1>0, <1>3, <2>1 DEF TruthTypes
<1>. QED
  BY <1>1, <1>2, <1>3

\* Which writes of a header give a table its sequence: the last of a RESET, and the
\* closing of an operation that an open has finished.
LEMMA HeaderGives ==
  ASSUME TruthStep, hdr' # hdr, ~Unstable(hdr')
  PROVE  /\ ~Published
         /\ \/ PublishHeader /\ hdr'.seq = wal.frame.seq /\ hdr'.seq \in DOMAIN truth
               /\ wal.marked /\ wal' = wal
            \/ /\ ClearReset /\ hdr'.seq = hdr.seq + 1 /\ hdr.seq = hdr_safe.seq
               /\ hdr_safe' = hdr' /\ ~wal.marked /\ wal' = wal /\ slots' = slots
               /\ hdr'.seq \notin DOMAIN truth
            \/ /\ BulkClose /\ hdr'.seq = hdr.seq /\ hdr.seq = hdr_safe.seq /\ opening
               /\ hdr_safe' = hdr_safe /\ hdr_safe.bulk # "NONE" /\ hdr_safe.pend = 0
               /\ ~wal.marked /\ wal' = wal /\ slots' = slots
               /\ hdr'.seq \in DOMAIN truth => truth[hdr'.seq] = Content(slots)
            \/ /\ PowerLoss /\ wal.marked /\ wal' = wal /\ hdr'.seq \in DOMAIN truth
<1>. USE DEF TruthStep, Header, Unstable, txnVars, bulkVars, memVars, logVars, datVars
<1>1. /\ TypeOK /\ SeqInv /\ TableInv /\ BulkAnnounced /\ BulkPhases
      /\ TruthBound /\ SafeTrue /\ CommitTrue /\ RedoTrue
  BY DEF EngineFacts, TruthInv
<1>0. ~Published
  BY GivenOnce
<1>2. CASE PublishHeader
  <2>1. /\ pc = "apply" /\ hdr'.seq = frame.seq /\ wal' = wal
    BY <1>2 DEF PublishHeader
  <2>2. wal.marked /\ wal.frame = frame /\ LogEnd = frame.seq
    BY <1>1, <2>1 DEF TableInv, WalPhases, ReplayPcs, SeqInv, CommitPhases, MemoryAgrees,
       Running, LogEnd
  <2>. QED
    BY <1>0, <1>1, <1>2, <2>1, <2>2 DEF CommitTrue
<1>3. CASE ClearReset
  <2>1. /\ pc = "clear_reset" /\ hdr'.seq = reset_seq /\ hdr_safe' = hdr' /\ wal' = wal
        /\ slots' = slots
    BY <1>3 DEF ClearReset, Synced
  <2>2. /\ ~wal.marked /\ reset_seq = hdr.seq + 1 /\ hdr.seq = hdr_safe.seq
    BY <1>1, <2>1 DEF SeqInv, CommitPhases, MemoryAgrees, Running, ResetPhases, HeadersAgree,
       ResetStateOk
  <2>3. hdr_safe.seq \in Nat /\ hdr'.seq \notin DOMAIN truth
    BY <1>1, <2>1, <2>2, SeqTypes DEF TruthBound, LastGiven
  <2>. QED
    BY <1>0, <1>3, <2>1, <2>2, <2>3
<1>4. CASE BulkClose
  <2>1. /\ pc = "bulk_close" /\ hdr'.seq = seq /\ hdr'.pend = reset_pend /\ hdr'.pend = 0
        /\ hdr_safe' = hdr_safe /\ wal' = wal /\ slots' = slots
    BY <1>4 DEF BulkClose
  <2>2. /\ ~wal.marked /\ seq = hdr.seq /\ hdr.seq = hdr_safe.seq /\ hdr_safe.pend = 0
        /\ opening /\ hdr_safe.bulk # "NONE"
    BY <1>1, <2>1 DEF SeqInv, CommitPhases, MemoryAgrees, Running, ResetPhases, HeadersAgree,
       BulkAnnounced
  <2>3. hdr'.seq \in DOMAIN truth => truth[hdr'.seq] = Content(slots)
    BY <1>1, <2>1, <2>2 DEF RedoTrue
  <2>. QED
    BY <1>0, <1>4, <2>1, <2>2, <2>3
<1>5. CASE PowerLoss
  <2>1. hdr' = hdr_safe /\ wal' = wal /\ pc \notin {"down", "refused"}
    BY <1>5 DEF PowerLoss, Forget
  <2>2. hdr'.seq \in DOMAIN truth
    BY <1>1, <2>1 DEF SafeTrue
  <2>3. pc \in Writing
    BY <1>1, <2>1 DEF TableInv, Flushed
  <2>4. pc \notin {"truncate", "bulk_sync", "bulk_close", "bulk_closed"}
    BY <1>1, <2>1 DEF BulkAnnounced
  <2>5. wal.marked
    BY <1>1, <2>3, <2>4 DEF Writing, TableInv, WalPhases, ReplayPcs
  <2>. QED
    BY <1>0, <1>5, <2>1, <2>2, <2>5
<1>6. CASE Truncate \/ Restore \/ Bench
  BY <1>6 DEF Truncate, Restore, Bench, BulkBegin
<1>7. CASE RestoreApply \/ BenchApply \/ BulkClear
  <2>1. pc \in {"restore", "bench", "bulk_clear"} /\ hdr'.bulk = bulk_kind
    BY <1>7 DEF RestoreApply, BenchApply, BulkClear, ReplaceTable
  <2>2. bulk_kind = hdr.bulk /\ hdr.bulk # "NONE"
    BY <1>1, <2>1 DEF SeqInv, MemoryAgrees, Running, BulkAnnounced
  <2>. QED
    BY <2>1, <2>2
<1>. QED
  BY <1>2, <1>3, <1>4, <1>5, <1>6, <1>7, Writers

\* What is given, and that nothing is given twice or past the last change.
LEMMA LastGivenGrows ==
  ASSUME TruthStep
  PROVE  LastGiven' >= LastGiven /\ LastGiven \in Nat /\ LastGiven' \in Nat
<1>. USE DEF TruthStep, Header, txnVars, bulkVars, memVars, logVars, datVars
<1>1. /\ TypeOK /\ TypeOK' /\ SeqInv /\ SeqInv' /\ TableInv
  BY DEF EngineFacts
<1>2. LastGiven \in Nat /\ LastGiven' \in Nat
  <2>1. wal.frame.seq \in Nat /\ hdr_safe.seq \in Nat
    BY <1>1, SeqTypes
  <2>2. wal'.frame.seq \in Nat /\ hdr_safe'.seq \in Nat
    BY <1>1 DEF TypeOK, FrameTypes, Wals, Frames, DatTypes, Headers
  <2>. QED
    BY <2>1, <2>2 DEF LastGiven
<1>3. hdr_safe'.seq >= hdr_safe.seq
  <2>1. CASE hdr_safe' = hdr_safe
    BY <1>1, <2>1, SeqTypes
  <2>2. CASE hdr_safe' = hdr'
    <3>1. hdr.seq \in Nat /\ hdr_safe.seq \in Nat /\ hdr.seq >= hdr_safe.seq
      BY <1>1, SeqTypes DEF SeqInv, HeadersAgree
    <3>2. hdr'.seq \in Nat
      BY <1>1 DEF TypeOK, DatTypes, Headers
    <3>3. CASE hdr' = hdr
      BY <2>2, <3>1, <3>3
    <3>4. CASE PublishHeader
      BY <1>1, <2>2, <3>1, <3>2, <3>4, SeqTypes DEF PublishHeader
    <3>5. CASE Truncate \/ Restore \/ Bench
      <4>1. pc = "ready" /\ hdr'.seq = seq
        BY <3>5 DEF Truncate, Restore, Bench, BulkBegin, Idle, Ready
      <4>. QED
        BY <1>1, <2>2, <3>1, <4>1 DEF SeqInv, MemoryAgrees, Running
    <3>6. CASE RestoreApply \/ BenchApply \/ BulkClear \/ BulkClose
      <4>1. pc \in {"restore", "bench", "bulk_clear", "bulk_close"} /\ hdr'.seq = seq
        BY <3>6 DEF RestoreApply, BenchApply, BulkClear, ReplaceTable, BulkClose
      <4>. QED
        BY <1>1, <2>2, <3>1, <4>1 DEF SeqInv, MemoryAgrees, Running
    <3>7. CASE ClearReset
      <4>1. pc = "clear_reset" /\ hdr'.seq = reset_seq
        BY <3>7 DEF ClearReset
      <4>2. reset_seq = hdr.seq + 1
        BY <1>1, <4>1 DEF SeqInv, MemoryAgrees, Running, ResetPhases, HeadersAgree, ResetStateOk
      <4>. QED
        BY <2>2, <3>1, <4>1, <4>2
    <3>8. CASE PowerLoss
      BY <2>2, <3>1, <3>8 DEF PowerLoss
    <3>. QED
      BY <3>3, <3>4, <3>5, <3>6, <3>7, <3>8, Writers
  <2>. QED
    BY <2>1, <2>2, Writers
<1>4. CASE wal' = wal
  BY <1>1, <1>2, <1>3, <1>4, SeqTypes DEF LastGiven
<1>5. CASE ~wal.marked /\ ~wal'.marked
  <2>1. LastGiven = hdr_safe.seq
    BY <1>5 DEF LastGiven
  <2>2. LastGiven' = hdr_safe'.seq
    BY <1>5 DEF LastGiven
  <2>. QED
    BY <1>2, <1>3, <2>1, <2>2
<1>6. CASE WalCommit
  <2>1. pc = "mark" /\ wal'.marked /\ wal'.frame = wal.frame
    BY <1>6 DEF WalCommit
  <2>2. ~wal.marked /\ wal.frame.seq = hdr.seq + 1 /\ hdr.seq = hdr_safe.seq
    BY <1>1, <2>1 DEF SeqInv, CommitPhases, Running, HeadersAgree
  <2>. QED
    BY <1>1, <1>2, <2>1, <2>2, SeqTypes DEF LastGiven
<1>7. CASE WalClear
  <2>1. pc = "wal_clear" /\ ~wal'.marked /\ hdr_safe' = hdr_safe
    BY <1>7 DEF WalClear, NoWal
  <2>2. wal.marked /\ wal.frame.seq = hdr.seq /\ hdr.seq = hdr_safe.seq
    BY <1>1, <2>1 DEF SeqInv, CommitPhases, HeadersAgree
  <2>. QED
    BY <1>1, <1>2, <2>1, <2>2, SeqTypes DEF LastGiven
<1>8. Rollback \/ TxnWrite \/ WalRecover => (~wal.marked /\ ~wal'.marked) \/ wal' = wal
  <2>1. Rollback \/ TxnWrite => ~wal.marked /\ ~wal'.marked
    BY <1>1 DEF Rollback, TxnWrite, NoWal, Ready, SeqInv, CommitPhases, Running
  <2>. QED
    BY <2>1 DEF WalRecover, NoWal
<1>. QED
  BY <1>4, <1>5, <1>6, <1>7, <1>8, Writers

\* No table is given a sequence past the last change.
LEMMA TruthBoundStep ==
  ASSUME TruthStep
  PROVE  TruthBound'
<1>1. \A s \in DOMAIN truth : s \in Nat /\ s <= LastGiven
  BY DEF TruthStep, TruthInv, TruthBound, TruthTypes
<1>2. \A s \in DOMAIN truth : s <= LastGiven'
  BY <1>1, LastGivenGrows
<1>3. CASE Published
  <2>1. DOMAIN truth' = DOMAIN truth \cup {wal.frame.seq} /\ wal.frame.seq = LastGiven'
    BY <1>3, GivenOnce DEF LastGiven
  <2>. QED
    BY <1>2, <2>1, LastGivenGrows DEF TruthBound
<1>4. CASE ~Published /\ hdr' # hdr /\ ~Unstable(hdr')
  <2>1. DOMAIN truth' = DOMAIN truth \cup {hdr'.seq}
    BY <1>4, GivenOnce
  <2>2. hdr'.seq \in DOMAIN truth \/ hdr'.seq = LastGiven'
    BY <1>4, HeaderGives DEF LastGiven
  <2>. QED
    BY <1>2, <2>1, <2>2, LastGivenGrows DEF TruthBound
<1>5. CASE ~Published /\ ~(hdr' # hdr /\ ~Unstable(hdr'))
  <2>1. truth' = truth
    BY <1>5, GivenOnce
  <2>. QED
    BY <1>2, <2>1 DEF TruthBound
<1>. QED
  BY <1>3, <1>4, <1>5

\* The slots of a file whose header announces nothing are written by a commit only.
LEMMA StableSlots ==
  ASSUME TruthStep, ~wal.marked, ~Unstable(hdr), hdr' = hdr
  PROVE  slots' = slots /\ (wal'.marked => WalCommit)
<1>. USE DEF TruthStep, Header, Unstable, txnVars, bulkVars, memVars, logVars, datVars
<1>1. TypeOK /\ TableInv /\ BulkAnnounced /\ BulkPhases /\ SeqInv /\ RedoTrue
  BY DEF EngineFacts, TruthInv
<1>2. slots' = slots
  <2>1. CASE ApplySlot
    BY <1>1, <2>1 DEF ApplySlot, TableInv, WalPhases, ReplayPcs
  <2>2. CASE TruncateSlot \/ RestoreApply \/ BenchApply \/ BulkClear
    BY <1>1, <2>2 DEF TruncateSlot, RestoreApply, BenchApply, BulkClear, BulkAnnounced
  <2>3. CASE PowerLoss
    <3>1. CASE pc \notin Writing
      BY <1>1, <2>3, <3>1, PowerAfterFlush DEF TableInv, Flushed
    <3>2. CASE pc \in Writing
      <4>1. pc = "bulk_closed"
        BY <1>1, <3>2 DEF Writing, TableInv, WalPhases, ReplayPcs, BulkAnnounced
      <4>2. opening
        BY <1>1, <4>1 DEF SeqInv, ResetPhases
      <4>. QED
        BY <1>1, <2>3, <4>1, <4>2, PowerAfterFlush DEF RedoTrue
    <3>. QED
      BY <3>1, <3>2
  <2>. QED
    BY <2>1, <2>2, <2>3, Writers
<1>3. wal'.marked => WalCommit
  BY MarkedBy
<1>. QED
  BY <1>2, <1>3

\* A header that announces nothing goes on speaking of the file.
LEMMA HeaderTrueStep ==
  ASSUME TruthStep
  PROVE  HeaderTrue' /\ SafeTrue'
<1>. USE DEF TruthStep
<1>1. TypeOK /\ SeqInv /\ TableInv /\ HeaderTrue /\ SafeTrue /\ CommitTrue /\ TruthTypes
  BY DEF EngineFacts, TruthInv
<1>2. ASSUME ~Unstable(hdr')
      PROVE  /\ hdr'.seq \in DOMAIN truth'
             /\ ~wal'.marked => truth'[hdr'.seq] = Content(slots')
  <2>1. CASE hdr' # hdr
    <3>1. hdr'.seq \in DOMAIN truth'
      BY <1>2, <2>1, GivenOnce, HeaderGives
    <3>2. ASSUME ~wal'.marked PROVE truth'[hdr'.seq] = Content(slots')
      <4>1. /\ slots' = slots /\ ~Published
            /\ hdr'.seq \in DOMAIN truth => truth[hdr'.seq] = Content(slots)
        BY <1>2, <2>1, <3>2, HeaderGives
      <4>. QED
        BY <1>2, <2>1, <4>1, GivenOnce
    <3>. QED
      BY <3>1, <3>2
  <2>2. CASE hdr' = hdr
    <3>1. hdr.seq \in DOMAIN truth /\ truth'[hdr.seq] = truth[hdr.seq] /\ hdr.seq \in DOMAIN truth'
      BY <1>1, <1>2, <2>2, GivenOnce DEF HeaderTrue
    <3>2. ASSUME ~wal'.marked, ~wal.marked PROVE truth'[hdr'.seq] = Content(slots')
      <4>1. slots' = slots
        BY <1>2, <2>2, <3>2, StableSlots DEF WalCommit
      <4>. QED
        BY <1>1, <1>2, <2>2, <3>1, <3>2, <4>1 DEF HeaderTrue
    <3>3. ASSUME ~wal'.marked, wal.marked PROVE truth'[hdr'.seq] = Content(slots')
      <4>1. WalClear
        BY <1>1, <3>3, Writers DEF Rollback, Ready, TxnWrite, WalCommit, WalRecover, TableInv,
           WalPhases, ReplayPcs
      <4>2. pc = "wal_clear" /\ slots' = slots
        BY <4>1 DEF WalClear, datVars
      <4>3. wal.frame = frame /\ hdr.seq = frame.seq /\ ImagesIn(frame, slots)
            /\ OneEach(wal.frame)
        BY <1>1, <4>2 DEF SeqInv, CommitPhases, TableInv, WalPhases, Written
      <4>4. Replayed = slots
        BY <1>1, <4>3, ReplayWritten, CountTypes DEF Replayed
      <4>5. truth[hdr.seq] = Content(Replayed)
        BY <1>1, <3>1, <3>3, <4>3 DEF CommitTrue
      <4>. QED
        BY <2>2, <3>1, <4>2, <4>4, <4>5
    <3>. QED
      BY <2>2, <3>1, <3>2, <3>3
  <2>. QED
    BY <2>1, <2>2
<1>3. HeaderTrue'
  BY <1>2 DEF HeaderTrue
<1>4. CASE hdr_safe' = hdr_safe
  BY <1>1, <1>3, <1>4, GivenOnce DEF SafeTrue
<1>5. CASE hdr_safe' = hdr'
  BY <1>2, <1>3, <1>5 DEF SafeTrue
<1>. QED
  BY <1>3, <1>4, <1>5, Writers

\* The log's end, as far as a commit in the WAL is concerned.
LEMMA CommitEnd ==
  ASSUME TruthStep, wal.marked, wal' = wal, LogEnd' = wal.frame.seq
  PROVE  wal.frame.seq \in DOMAIN truth'
<1>. USE DEF TruthStep, Unstable, txnVars, bulkVars, memVars, logVars, datVars
<1>1. /\ TypeOK /\ SeqInv /\ SeqInv' /\ TableInv /\ BulkPhases /\ CommitTrue /\ SafeTrue
  BY DEF EngineFacts, TruthInv
<1>2. LogEnd = wal.frame.seq => wal.frame.seq \in DOMAIN truth'
  BY <1>1, GivenOnce DEF CommitTrue
<1>3. CASE Published
  BY <1>3, GivenOnce
<1>4. CASE LoseLog
  <2>1. pc = "down" /\ LogEnd' = hdr_safe.seq
    BY <1>4 DEF LoseLog, LogEnd, NoLog
  <2>2. ~Unstable(hdr_safe)
    BY <1>1, <2>1 DEF SeqInv, LogStanding, CommitPending, HeadersAgree, BulkPhases
  <2>. QED
    BY <1>1, <2>1, <2>2, GivenOnce DEF SafeTrue
<1>5. CASE Open
  <2>1. pc = "down" /\ hdr_safe' = hdr_safe /\ (cdc' = cdc \/ cdc' = IF cdc.there THEN cdc ELSE NewLog(hdr.seq))
    BY <1>5 DEF Open
  <2>2. hdr.seq = hdr_safe.seq
    BY <1>1, <2>1 DEF SeqInv, HeadersAgree
  <2>3. LogEnd' = LogEnd
    <3>1. CASE cdc' = cdc
      BY <2>1, <3>1 DEF LogEnd
    <3>2. CASE ~cdc.there /\ cdc' = NewLog(hdr.seq)
      BY <2>1, <2>2, <3>2 DEF LogEnd, NewLog, LastSeq
    <3>. QED
      BY <2>1, <3>1, <3>2
  <2>. QED
    BY <1>2, <2>3
<1>6. CASE cdc' = cdc
  <2>1. CASE cdc.there
    BY <1>2, <1>6, <2>1 DEF LogEnd
  <2>2. CASE ~cdc.there
    <3>1. pc \in {"down", "refused"}
      BY <1>1, <2>2 DEF SeqInv, MemoryAgrees, Running
    <3>2. hdr = hdr_safe
      BY <1>1, <3>1 DEF TableInv, Flushed, Writing
    <3>3. hdr' = hdr
      BY <3>1, Writers DEF PublishHeader, Truncate, Restore, Bench, BulkBegin, Idle, Ready,
         RestoreApply, BenchApply, BulkClear, BulkClose, ClearReset, PowerLoss
    <3>4. hdr_safe' = hdr_safe
      BY <3>2, <3>3, Writers
    <3>. QED
      BY <1>2, <1>6, <2>2, <3>4 DEF LogEnd
  <2>. QED
    BY <2>1, <2>2
<1>7. CdcPublish => Published \/ cdc' = cdc
  <2>1. \A f : Appended(cdc, f).frames # cdc.frames
    <3>1. cdc.frames \in Seq(ChangeFrames)
      BY <1>1 DEF TypeOK, LogTypes, Logs
    <3>. QED
      BY <3>1 DEF Appended
  <2>. QED
    BY <2>1 DEF CdcPublish, Published
<1>8. ~(EmitReset \/ TrimSwap)
  BY <1>1 DEF EmitReset, TrimSwap, TableInv, WalPhases, ReplayPcs
<1>. QED
  BY <1>3, <1>4, <1>5, <1>6, <1>7, <1>8, Writers

\* A commit goes on from the table of the sequence before it to the table of its own.
LEMMA CommitTrueStep ==
  ASSUME TruthStep
  PROVE  CommitTrue'
<1>. USE DEF TruthStep, Unstable, txnVars, bulkVars, memVars, logVars, datVars
<1>1. /\ TypeOK /\ TypeOK' /\ SeqInv /\ TableInv /\ TableInv' /\ BulkPhases
      /\ HeaderTrue /\ CommitTrue /\ TruthBound /\ TruthTypes
      /\ FrameTied /\ FrameTied' /\ FrameApart'
  BY DEF EngineFacts, TruthInv
<1>2. CASE WalCommit
  <2>1. /\ pc = "mark" /\ wal' = [marked |-> TRUE, frame |-> wal.frame] /\ slots' = slots
        /\ hdr' = hdr /\ hdr_safe' = hdr_safe /\ cdc' = cdc
    BY <1>2 DEF WalCommit
  <2>2. /\ ~wal.marked /\ wal.frame.seq = hdr.seq + 1 /\ hdr.pend = 0 /\ hdr.bulk = "NONE"
        /\ hdr.seq = hdr_safe.seq /\ cdc.there /\ LastSeq(cdc) = hdr_safe.seq
    BY <1>1, <2>1 DEF SeqInv, CommitPhases, Running, ResetPhases, HeadersAgree, MemoryAgrees,
       BulkPhases, TxnPcs, LogStanding, ResetPending, Settled, LogEnd
  <2>3. hdr.seq \in Nat /\ wal.frame.seq - 1 = hdr.seq
    BY <1>1, <2>2, SeqTypes
  <2>4. hdr.seq \in DOMAIN truth /\ truth[hdr.seq] = Content(slots)
    BY <1>1, <2>2 DEF HeaderTrue
  <2>5. truth' = truth
    BY <2>1, GivenOnce DEF Published
  <2>6. wal.frame.seq \notin DOMAIN truth
    BY <1>1, <2>2, <2>3 DEF TruthBound, LastGiven
  <2>7. LogEnd' = hdr.seq
    BY <2>1, <2>2 DEF LogEnd
  <2>8. ASSUME ~wal.frame.reset
        PROVE  ConsumedFrame(RowsOf(slots), ChangeFrame(wal.frame)) = RowsOf(Replayed')
    <3>1. wal' \in Wals /\ wal'.marked /\ slots \in Tables
      BY <1>1, <2>1 DEF TypeOK, FrameTypes, DatTypes
    <3>2. OneEach(wal'.frame) /\ FrameFits(wal'.frame, slots) /\ Apart(wal'.frame, slots)
      BY <1>1, <2>1 DEF TableInv, WalPhases, FrameTied, FrameApart
    <3>3. ConsumedFrame(RowsOf(slots), ChangeFrame(wal'.frame)) = RowsOf(Replay(wal', slots))
      BY <2>1, <2>8, <3>1, <3>2, FrameConsumed
    <3>. QED
      BY <2>1, <3>3 DEF Replayed
  <2>. QED
    BY <2>1, <2>2, <2>3, <2>4, <2>5, <2>6, <2>7, <2>8, ContentTwice DEF CommitTrue
<1>3. CASE wal'.marked /\ wal' = wal
  <2>. DEFINE s == wal.frame.seq
  <2>1. Replayed' = Replayed
    BY <1>1, <1>3, ReplayStays
  <2>2. s \in Nat \ {0} /\ s - 1 \in DOMAIN truth' /\ truth'[s - 1] = truth[s - 1]
    BY <1>1, <1>3, GivenOnce DEF CommitTrue
  <2>3. ASSUME s \in DOMAIN truth' PROVE truth'[s] = Content(Replayed)
    <3>1. CASE s \in DOMAIN truth
      BY <1>1, <1>3, <3>1, GivenOnce DEF CommitTrue
    <3>2. CASE s \notin DOMAIN truth
      <4>1. CASE Published
        BY <3>2, <4>1, GivenOnce
      <4>2. CASE ~Published
        <5>1. hdr' # hdr /\ ~Unstable(hdr') /\ hdr'.seq = s
          BY <2>3, <3>2, <4>2, GivenOnce
        <5>. QED
          BY <1>3, <3>2, <5>1, HeaderGives
      <4>. QED
        BY <4>1, <4>2
    <3>. QED
      BY <3>1, <3>2
  <2>4. LogEnd' = s => s \in DOMAIN truth'
    BY <1>3, CommitEnd
  <2>5. ~wal.frame.reset =>
          ConsumedFrame(RowsOf(truth[s - 1]), ChangeFrame(wal.frame)) = RowsOf(Replayed)
    BY <1>1, <1>3 DEF CommitTrue
  <2>. QED
    BY <1>3, <2>1, <2>2, <2>3, <2>4, <2>5 DEF CommitTrue
<1>4. CASE ~wal'.marked
  BY <1>4 DEF CommitTrue
<1>. QED
  BY <1>2, <1>3, <1>4, MarkedBy

\* What an open finishes comes to the table that the sequence was given, if it was.
LEMMA RedoTrueStep ==
  ASSUME TruthStep
  PROVE  RedoTrue'
<1>. USE DEF TruthStep, Header, Unstable, txnVars, bulkVars, memVars, logVars, datVars
<1>1. /\ TypeOK /\ TypeOK' /\ SeqInv /\ TableInv /\ BulkAnnounced /\ BulkPhases
      /\ TruthBound /\ TruthTypes /\ RedoTrue
  BY DEF EngineFacts, TruthInv
<1>2. backup' # backup => pc = "ready" /\ pc' = pc /\ hdr_safe' = hdr_safe /\ hdr_safe.bulk = "NONE"
  <2>1. ASSUME backup' # backup PROVE Backup
    BY <2>1, BackupChanges DEF LoseBackup
  <2>. QED
    BY <1>1, <2>1 DEF Backup, Idle, Ready, BulkPhases, TxnPcs
<1>3. ASSUME hdr_safe'.bulk # "NONE", hdr_safe'.pend = 0, hdr_safe'.seq \in DOMAIN truth'
      PROVE  truth'[hdr_safe'.seq] = RedoContent'
  <2>1. CASE hdr_safe' = hdr_safe
    <3>1. backup' = backup
      BY <1>2, <1>3, <2>1
    <3>2. RedoContent' = RedoContent
      BY <2>1, <3>1 DEF RedoContent
    <3>3. CASE hdr_safe.seq \in DOMAIN truth
      BY <1>1, <1>3, <2>1, <3>2, <3>3, GivenOnce DEF RedoTrue
    <3>4. CASE hdr_safe.seq \notin DOMAIN truth
      <4>1. ~Published
        BY <1>1, <1>3, <2>1, GivenOnce DEF Published, BulkPhases
      <4>2. hdr' # hdr /\ ~Unstable(hdr') /\ hdr'.seq = hdr_safe.seq
        BY <1>3, <2>1, <3>4, <4>1, GivenOnce
      <4>3. BulkClose
        BY <1>3, <2>1, <3>4, <4>2, HeaderGives
      <4>4. pc = "bulk_close" /\ slots' = slots
        BY <4>3 DEF BulkClose
      <4>5. opening
        BY <1>1, <1>3, <2>1, <4>4 DEF SeqInv, ResetPhases, HeadersAgree
      <4>6. Content(slots) = RedoContent
        BY <1>1, <4>4, <4>5 DEF RedoTrue
      <4>7. truth'[hdr'.seq] = Content(slots')
        BY <3>4, <4>1, <4>2, GivenOnce
      <4>. QED
        BY <2>1, <3>2, <4>2, <4>4, <4>6, <4>7
    <3>. QED
      BY <3>3, <3>4
  <2>2. CASE hdr_safe' = hdr' /\ hdr_safe' # hdr_safe /\ hdr' = hdr
    <3>1. pc \in {"truncate", "bulk_sync", "bulk_close"}
      BY <1>1, <1>3, <2>2 DEF TableInv, Flushed, Writing, WalPhases, ReplayPcs, BulkPhases,
         BulkAnnounced
    <3>2. hdr_safe.bulk = hdr.bulk /\ hdr_safe.pend = hdr.pend /\ hdr_safe.seq = hdr.seq
      BY <1>1, <3>1 DEF BulkPhases, SeqInv, HeadersAgree
    <3>3. truth' = truth /\ backup' = backup
      BY <1>2, <2>2, <3>1, GivenOnce DEF Published
    <3>4. RedoContent' = RedoContent
      BY <2>2, <3>2, <3>3 DEF RedoContent
    <3>. QED
      BY <1>1, <1>3, <2>2, <3>2, <3>3, <3>4 DEF RedoTrue
  <2>3. CASE hdr_safe' = hdr' /\ hdr_safe' # hdr_safe /\ hdr' # hdr
    <3>1. ClearReset
      BY <1>3, <2>3, Writers DEF PublishHeader, Truncate, Restore, Bench, BulkBegin,
         RestoreApply, BenchApply, BulkClear, ReplaceTable, BulkClose, PowerLoss
    <3>2. pc = "clear_reset" /\ hdr'.seq = reset_seq
      BY <3>1 DEF ClearReset
    <3>3. ~wal.marked /\ reset_seq = hdr.seq + 1 /\ hdr.seq = hdr_safe.seq
      BY <1>1, <3>2 DEF SeqInv, CommitPhases, MemoryAgrees, Running, ResetPhases, HeadersAgree,
         ResetStateOk
    <3>4. hdr_safe.seq \in Nat /\ hdr'.seq \notin DOMAIN truth
      BY <1>1, <3>2, <3>3, SeqTypes DEF TruthBound, LastGiven
    <3>5. truth' = truth
      BY <1>3, <2>3, <3>2, GivenOnce DEF Published
    <3>. QED
      BY <1>3, <2>3, <3>4, <3>5
  <2>. QED
    BY <2>1, <2>2, <2>3, Writers
<1>4. ASSUME opening', pc' \in {"bulk_sync", "bulk_close", "bulk_closed"}
      PROVE  /\ Content(slots') = RedoContent'
             /\ pc' \in {"bulk_close", "bulk_closed"} => slots' = slots_safe'
  <2>1. CASE RestoreApply
    <3>1. /\ pc = "restore" /\ pc' = "bulk_sync" /\ slots' = backup.slots /\ backup' = backup
          /\ hdr_safe' = hdr_safe
      BY <2>1 DEF RestoreApply, ReplaceTable
    <3>. QED
      BY <1>1, <3>1 DEF BulkPhases, RedoContent
  <2>2. CASE BulkClear
    <3>1. /\ pc = "bulk_clear" /\ pc' = "bulk_sync" /\ slots' = Cleared(table)
          /\ hdr_safe' = hdr_safe
      BY <2>2 DEF BulkClear, ReplaceTable
    <3>2. Content(slots') = EmptyTable
      BY <3>1, CountNone, NoRows
    <3>. QED
      BY <1>1, <3>1, <3>2 DEF BulkPhases, RedoContent
  <2>3. ~(BenchApply \/ TruncateEnd)
    BY <1>1, <1>4 DEF BenchApply, ReplaceTable, TruncateEnd, SeqInv, ResetPhases
  <2>4. CASE BulkSync
    <3>1. /\ pc = "bulk_sync" /\ slots' = slots /\ hdr_safe' = hdr /\ slots_safe' = slots'
          /\ backup' = backup /\ opening
      BY <1>4, <2>4 DEF BulkSync, Synced
    <3>2. hdr.bulk = hdr_safe.bulk /\ Content(slots) = RedoContent
      BY <1>1, <3>1 DEF BulkPhases, RedoTrue
    <3>. QED
      BY <3>1, <3>2 DEF RedoContent
  <2>5. CASE BulkClose
    <3>1. /\ pc = "bulk_close" /\ slots' = slots /\ hdr_safe' = hdr_safe
          /\ slots_safe' = slots_safe /\ backup' = backup /\ opening
      BY <1>4, <2>5 DEF BulkClose
    <3>. QED
      BY <1>1, <3>1 DEF RedoTrue, RedoContent
  <2>6. CASE pc' = pc /\ UNCHANGED <<opening, slots, slots_safe, hdr, hdr_safe>>
    <3>1. backup' = backup
      BY <1>2, <1>4, <2>6
    <3>. QED
      BY <1>1, <1>4, <2>6, <3>1 DEF RedoTrue, RedoContent
  <2>. QED
    BY <1>4, <2>1, <2>2, <2>3, <2>4, <2>5, <2>6, BulkEnds
<1>. QED
  BY <1>3, <1>4 DEF RedoTrue

\* The frames of a log with one more, of a trimmed one, and of an empty one.
LEMMA FramesAppended ==
  ASSUME NEW log \in Logs, NEW f \in ChangeFrames
  PROVE  FramesOf(Appended(log, f)) = FramesOf(log) \cup {f}
<1>1. log.frames \in Seq(ChangeFrames)
  BY DEF Logs
<1>2. /\ Len(Append(log.frames, f)) = Len(log.frames) + 1
      /\ \A i \in 1 .. Len(log.frames) : Append(log.frames, f)[i] = log.frames[i]
      /\ Append(log.frames, f)[Len(log.frames) + 1] = f
  BY <1>1
<1>. DEFINE more == Append(log.frames, f)
<1>3. Appended(log, f).frames = more
  BY DEF Appended
<1>. HIDE DEF more
<1>4. Len(log.frames) \in Nat /\ 1 .. Len(more) = 1 .. Len(log.frames) \cup {Len(log.frames) + 1}
  BY <1>1, <1>2 DEF more
<1>. QED
  BY <1>2, <1>3, <1>4 DEF FramesOf, more

\* A trimmed log has no frame that was not in it.
LEMMA FramesTrimmed ==
  ASSUME NEW log \in Logs, NEW s \in Nat, s >= log.base
  PROVE  FramesOf(Trimmed(log, s)) \subseteq FramesOf(log)
<1>. DEFINE m == s - log.base + 1
            kept == SubSeq(log.frames, m, Len(log.frames))
<1>1. log.frames \in Seq(ChangeFrames) /\ log.base \in Nat /\ Len(log.frames) \in Nat
  BY DEF Logs
<1>2. m \in Nat \ {0}
  BY <1>1
<1>3. Trimmed(log, s).frames = kept
  BY DEF Trimmed
<1>4. CASE m <= Len(log.frames) + 1
  <2>. DEFINE all == log.frames
  <2>a. all \in Seq(ChangeFrames) /\ m \in 1 .. Len(all) + 1
    BY <1>1, <1>2, <1>4
  <2>1. Len(kept) = Len(log.frames) - m + 1
        /\ \A i \in 1 .. Len(log.frames) - m + 1 : kept[i] = log.frames[m + i - 1]
    <3>. HIDE DEF all, m
    <3>1. /\ Len(SubSeq(all, m, Len(all))) = Len(all) - m + 1
          /\ \A i \in 1 .. Len(all) - m + 1 : SubSeq(all, m, Len(all))[i] = all[m + i - 1]
      BY <2>a, KeptFrames
    <3>. QED
      BY <3>1 DEF all
  <2>2. \A i \in 1 .. Len(log.frames) - m + 1 : m + i - 1 \in 1 .. Len(log.frames)
    BY <1>1, <1>2, <1>4
  <2>. HIDE DEF kept
  <2>. QED
    BY <1>3, <2>1, <2>2 DEF FramesOf
<1>5. CASE m > Len(log.frames) + 1
  <2>1. Len(kept) = 0
    BY <1>1, <1>2, <1>5, SubSeqProperties
  <2>. HIDE DEF kept
  <2>. QED
    BY <1>3, <2>1 DEF FramesOf
<1>. QED
  BY <1>1, <1>2, <1>4, <1>5

\* No log, and a new one, has no frame.
LEMMA NoFrames == FramesOf(NoLog) = {} /\ \A base : FramesOf(NewLog(base)) = {}
BY DEF FramesOf, NoLog, NewLog

\* A frame that enters the log tells the table, and a table told of does not change.
LEMMA LogTrueStep ==
  ASSUME TruthStep, CommitTrue'
  PROVE  LogTrue'
<1>. USE DEF TruthStep, txnVars, bulkVars, memVars, logVars, datVars
<1>1. /\ TypeOK /\ TypeOK' /\ TableInv /\ LogTrue /\ cdc \in Logs /\ cdc_part \in Logs
  BY DEF EngineFacts, TruthInv, TypeOK, LogTypes
<1>2. ASSUME NEW f, FrameTrue(f) PROVE FrameTrue(f)'
  BY <1>2, GivenOnce DEF FrameTrue
<1>3. ASSUME NEW f \in FramesOf(cdc) \cup FramesOf(cdc_part) PROVE FrameTrue(f)'
  BY <1>1, <1>2 DEF LogTrue
<1>4. ASSUME Published, NEW f, f = ChangeFrame(wal.frame) PROVE FrameTrue(f)'
  <2>. DEFINE s == wal.frame.seq
  <2>1. wal.marked /\ wal' = wal /\ s \in DOMAIN truth'
    BY <1>4, GivenOnce
  <2>2. /\ s \in Nat \ {0} /\ s - 1 \in DOMAIN truth' /\ truth'[s] = Content(Replayed')
        /\ ~wal.frame.reset =>
             ConsumedFrame(RowsOf(truth'[s - 1]), ChangeFrame(wal.frame)) = RowsOf(Replayed')
    BY <2>1 DEF CommitTrue
  <2>3. RowsOf(truth'[s]) = RowsOf(Replayed')
    BY <2>2, ContentTwice
  <2>4. f.seq = s /\ f.reset = wal.frame.reset
    BY <1>4 DEF ChangeFrame
  <2>. HIDE DEF s
  <2>. QED
    BY <1>4, <2>1, <2>2, <2>3, <2>4 DEF FrameTrue
<1>5. \A f \in FramesOf(cdc') : f \in FramesOf(cdc) \cup FramesOf(cdc_part) \/ FrameTrue(f)'
  <2>1. CASE cdc' = cdc
    BY <2>1
  <2>2. CASE CdcPublish /\ cdc' # cdc
    <3>1. pc = "publish" /\ cdc' = Appended(cdc, ChangeFrame(frame)) /\ wal.frame = frame
      BY <1>1, <2>2 DEF CdcPublish, TableInv, WalPhases, ReplayPcs
    <3>2. ChangeFrame(frame) \in ChangeFrames
      BY <1>1, ChangeFrameType DEF TypeOK, FrameTypes
    <3>3. Published
      <4>1. cdc.frames \in Seq(ChangeFrames)
        BY <1>1 DEF Logs
      <4>2. cdc'.frames # cdc.frames
        BY <3>1, <4>1 DEF Appended
      <4>. QED
        BY <3>1, <4>2 DEF Published
    <3>4. FramesOf(cdc') = FramesOf(cdc) \cup {ChangeFrame(wal.frame)}
      BY <1>1, <3>1, <3>2, FramesAppended
    <3>. QED
      BY <1>4, <3>3, <3>4
  <2>3. CASE EmitReset
    <3>1. cdc' = cdc \/ cdc' = Appended(cdc, ResetFrame(reset_seq))
      BY <2>3 DEF EmitReset
    <3>2. ResetFrame(reset_seq) \in ChangeFrames
      BY <1>1, ResetFrameType DEF TypeOK, MemoryTypes
    <3>3. \A f : f = ResetFrame(reset_seq) => FrameTrue(f)'
      BY DEF FrameTrue, ResetFrame
    <3>4. FramesOf(cdc') \subseteq FramesOf(cdc) \cup {ResetFrame(reset_seq)}
      BY <1>1, <3>1, <3>2, FramesAppended
    <3>. QED
      BY <3>3, <3>4
  <2>4. CASE TrimSwap
    BY <2>4 DEF TrimSwap
  <2>5. CASE Open
    BY <2>5, NoFrames DEF Open
  <2>6. CASE LoseLog
    BY <2>6, NoFrames DEF LoseLog
  <2>. QED
    BY <2>1, <2>2, <2>3, <2>4, <2>5, <2>6, Writers
<1>6. FramesOf(cdc_part') \subseteq FramesOf(cdc) \cup FramesOf(cdc_part)
  <2>1. CASE cdc_part' = cdc_part
    BY <2>1
  <2>2. CASE TrimSwap
    BY <2>2, NoFrames DEF TrimSwap
  <2>3. ASSUME NEW s \in 0 .. MaxSeq, TrimBuild(s)
        PROVE  FramesOf(cdc_part') \subseteq FramesOf(cdc)
    <3>1. s \in cdc.base .. seq /\ cdc_part' = Trimmed(cdc, s)
      BY <2>3 DEF TrimBuild
    <3>2. s \in Nat /\ s >= cdc.base
      BY <1>1, <3>1 DEF Logs, TypeOK, MemoryTypes
    <3>. QED
      BY <1>1, <3>1, <3>2, FramesTrimmed
  <2>. QED
    BY <2>1, <2>2, <2>3, Writers
<1>. QED
  BY <1>3, <1>5, <1>6 DEF LogTrue

\* An empty log and an empty table agree.
LEMMA TruthInit == CheckedInit => TruthInv
<1>. SUFFICES ASSUME CheckedInit PROVE TruthInv
  OBVIOUS
<1>. USE DEF CheckedInit, SyncInit, Init
<1>1. DOMAIN truth = {0} /\ truth[0] = EmptyTable
  OBVIOUS
<1>2. Content(EmptyTable) = EmptyTable /\ EmptyTable \in Contents
  <2>1. Content(EmptyTable) = EmptyTable
    BY NoRows, NotLive DEF LiveSlots, EmptyTable
  <2>. QED
    BY <2>1 DEF EmptyTable, Contents
<1>3. truth \in [DOMAIN truth -> Contents]
  BY <1>1, <1>2
<1>4. FramesOf(cdc) = {} /\ FramesOf(cdc_part) = {}
  BY NoFrames
<1>5. wal.marked = FALSE /\ hdr.seq = 0 /\ hdr_safe = hdr /\ hdr.bulk = "NONE"
  BY DEF NoWal, Header
<1>. QED
  BY <1>1, <1>2, <1>3, <1>4, <1>5
  DEF TruthInv, TruthTypes, LogTrue, TruthBound, LastGiven, HeaderTrue, SafeTrue, CommitTrue,
      RedoTrue

\* What a step does to the truth: that of the engine records it, any other leaves it.
LEMMA TruthSteps ==
  ASSUME [CheckedNext]_<<vars, syncVars, history>>
  PROVE  (Next /\ RecordTruth) \/ (UNCHANGED vars /\ truth' = truth)
<1>1. CASE Engines(Next)
  BY <1>1 DEF Engines, Recorded
<1>2. CASE UNCHANGED vars /\ Recorded
  <2>1. ~Published /\ hdr' = hdr
    BY <1>2 DEF vars, memVars, logVars, datVars, Published
  <2>. QED
    BY <1>2, <2>1 DEF Recorded, RecordTruth
<1>3. CASE UNCHANGED <<vars, syncVars, history>>
  BY <1>3 DEF history
<1>. QED
  BY <1>1, <1>2, <1>3 DEF CheckedNext, Notebooks

\* The log, the header, the WAL and an interrupted operation speak of the same tables.
THEOREM TruthCorrect ==
  ASSUME PlainFrames, "nobackup" \notin Faults
  PROVE  CheckedSpec => []TruthInv
<1>1. ASSUME EngineFacts, EngineFacts', TruthInv, Next, RecordTruth PROVE TruthInv'
  <2>1. TruthStep
    BY <1>1 DEF TruthStep
  <2>. QED
    BY <2>1, GivenOnce, TruthBoundStep, HeaderTrueStep, CommitTrueStep, LogTrueStep, RedoTrueStep
    DEF TruthInv
<1>2. ASSUME TruthInv, UNCHANGED vars, truth' = truth PROVE TruthInv'
  BY <1>2
  DEF TruthInv, TruthTypes, LogTrue, FrameTrue, TruthBound, LastGiven, HeaderTrue, SafeTrue,
      CommitTrue, LogEnd, Replayed, RedoTrue, RedoContent, vars, memVars, logVars, datVars
<1>3. EngineFacts /\ EngineFacts' /\ TruthInv /\ [CheckedNext]_<<vars, syncVars, history>>
        => TruthInv'
  BY <1>1, <1>2, TruthSteps
<1>4. CheckedSpec => []EngineFacts
  BY HistoryOnlyRecords, EngineUndisturbed, FactsHold
<1>. QED
  BY <1>3, <1>4, TruthInit, PTL DEF CheckedSpec

-----------------------------------------------------------------------------
(* The preview of the log *)

\* The newest RESET among frames counted from 1: none of the frames after it is one.
LEMMA NewestReset ==
  ASSUME NEW fs \in Seq(ChangeFrames), \A i \in 1 .. Len(fs) : fs[i].seq = i
  PROVE  /\ LastReset(fs) \in 0 .. Len(fs)
         /\ \A i \in 1 .. Len(fs) : i > LastReset(fs) => ~fs[i].reset
<1>. DEFINE n == Len(fs)
            S == ResetsIn(fs)
            T == {n - s : s \in S}
            Last(s) == \A t \in S : t <= s
<1>1. n \in Nat /\ S \subseteq 1 .. n /\ \A i \in 1 .. n : fs[i].reset => i \in S
  BY DEF ResetsIn
<1>. HIDE DEF n
<1>2. CASE S = {}
  BY <1>1, <1>2 DEF LastReset, n
<1>3. CASE S # {}
  <2>. HIDE DEF S
  <2>1. T \subseteq Nat /\ T # {}
    <3>1. \A s \in S : s \in 1 .. n /\ n - s \in Nat
      BY <1>1
    <3>2. T \subseteq Nat
      BY <3>1
    <3>3. PICK s : s \in S
      BY <1>3
    <3>4. n - s \in T
      BY <3>3
    <3>. QED
      BY <3>2, <3>4
  <2>2. PICK x \in T : \A y \in T : x <= y
    BY <2>1, LeastNumber
  <2>3. PICK s \in S : x = n - s
    BY <2>2
  <2>4. \A t \in S : n - s <= n - t
    BY <2>2, <2>3
  <2>5. Last(s)
    BY <1>1, <2>3, <2>4
  <2>. DEFINE last == CHOOSE q \in S : Last(q)
  <2>6. last \in S /\ Last(last)
    BY <2>3, <2>5
  <2>7. LastReset(fs) = last
    BY <1>3 DEF LastReset, S
  <2>. HIDE DEF last
  <2>. QED
    BY <1>1, <2>6, <2>7 DEF n
<1>. QED
  BY <1>2, <1>3

\* The entries after the newest RESET tell what the table of the last frame holds.
LEMMA LiveEntriesTell ==
  ASSUME TruthTypes, NEW fs \in Seq(ChangeFrames), fs # <<>>,
         \A i \in 1 .. Len(fs) : fs[i].seq = i /\ FrameTrue(fs[i]),
         Len(fs) \in DOMAIN truth
  PROVE  \E old : Tells(LiveEntries(fs), old, RowsOf(truth[Len(fs)]))
<1>. DEFINE n == Len(fs)
            r == LastReset(fs)
            opss == [i \in 1 .. n |-> IF fs[i].seq > r THEN Flat(fs[i].ops) ELSE <<>>]
            R == [i \in 0 .. n |-> RowsOf(truth[IF i >= r THEN i ELSE r])]
<1>1. n \in Nat \ {0} /\ r \in 0 .. n /\ \A i \in 1 .. n : i > r => ~fs[i].reset
  BY NewestReset
<1>2. \A i \in 1 .. n : fs[i] \in ChangeFrames /\ fs[i].seq = i
  OBVIOUS
<1>3. ASSUME NEW i \in 1 .. n, i > r
      PROVE  /\ RowsOf(truth[i - 1]) \in SUBSET Rows
             /\ ConsumedFrame(RowsOf(truth[i - 1]), fs[i]) = RowsOf(truth[i])
  <2>1. /\ i - 1 \in DOMAIN truth
        /\ ConsumedFrame(RowsOf(truth[i - 1]), fs[i]) = RowsOf(truth[i])
    BY <1>1, <1>2, <1>3 DEF FrameTrue
  <2>2. truth[i - 1] \in Contents
    BY <2>1 DEF TruthTypes
  <2>. QED
    BY <2>1, <2>2, ContentsAreTables
<1>4. LiveEntries(fs) = Flat(opss)
  BY DEF LiveEntries
<1>. HIDE DEF n, r
<1>5. ASSUME NEW i \in 1 .. n
      PROVE  opss[i] \in Seq(Operations) /\ Tells(opss[i], R[i - 1], R[i])
  <2>1. CASE i > r
    <3>1. opss[i] = Flat(fs[i].ops) /\ R[i - 1] = RowsOf(truth[i - 1]) /\ R[i] = RowsOf(truth[i])
      BY <1>1, <1>2, <2>1
    <3>2. /\ Flat(fs[i].ops) \in Seq(Operations)
          /\ Tells(Flat(fs[i].ops), RowsOf(truth[i - 1]), RowsOf(truth[i]))
      BY <1>2, <1>3, <2>1, TellsFrame
    <3>. QED
      BY <3>1, <3>2
  <2>2. CASE i <= r
    <3>1. opss[i] = <<>> /\ R[i - 1] = RowsOf(truth[r]) /\ R[i] = RowsOf(truth[r])
      BY <1>1, <1>2, <2>2
    <3>. HIDE DEF opss, R
    <3>2. opss[i] \in Seq(Operations)
      BY <3>1
    <3>3. Tells(opss[i], R[i - 1], R[i])
      BY <3>1, TellsNone
    <3>. QED
      BY <3>2, <3>3
  <2>. QED
    BY <1>1, <2>1, <2>2
<1>6. opss \in [1 .. n -> Seq(Operations)]
  BY <1>5
<1>7. R[n] = RowsOf(truth[n])
  BY <1>1
<1>. HIDE DEF opss, R
<1>8. Tells(Flat(opss), R[0], R[n])
  BY <1>1, <1>5, <1>6, TellsFlat
<1>. QED
  BY <1>4, <1>7, <1>8 DEF n

\* What is told of an id is what the table has of it.
LEMMA ToldRows ==
  ASSUME NEW ops, NEW old, NEW new \in SUBSET Rows, Tells(ops, old, new)
  PROVE  LET told == {id \in Ids : OpsOn(ops, id) # {}}
         IN {Collapsed(ops, id) : id \in told} \ {Deleted} = {r \in new : r.id \in told}
<1>. DEFINE told == {id \in Ids : OpsOn(ops, id) # {}}
<1>1. \A id \in told : {r \in new : r.id = id} = {Collapsed(ops, id)} \ {Deleted}
  BY DEF Tells, RowsWith
<1>2. \A id \in told : \A x : x = Collapsed(ops, id) /\ x # Deleted => x \in new /\ x.id \in told
  BY <1>1
<1>3. \A r \in new : r.id \in told => r = Collapsed(ops, r.id) /\ r # Deleted
  BY <1>1
<1>. HIDE DEF told
<1>4. {Collapsed(ops, id) : id \in told} \ {Deleted} = {r \in new : r.id \in told}
  BY <1>2, <1>3
<1>. QED
  BY <1>4 DEF told

\* The frames of a preview that begins with the first change.
LEMMA PreviewedFrames ==
  ASSUME NEW log \in Logs, Dense(log), ~Gap(log, 0), Len(PreviewFrames(log)) = Len(log.frames)
  PROVE  /\ PreviewFrames(log) \in Seq(ChangeFrames)
         /\ \A i \in 1 .. Len(log.frames) :
              PreviewFrames(log)[i] = log.frames[i] /\ log.frames[i].seq = i
<1>. DEFINE all == log.frames
            m == Smaller(PreviewLimit, Len(all))
<1>1. all \in Seq(ChangeFrames) /\ Len(all) \in Nat /\ log.base = 0
  BY DEF Logs, Gap
<1>2. \A i \in 1 .. Len(all) : all[i].seq = i
  BY <1>1 DEF Dense
<1>3. {i \in 1 .. Len(all) : all[i].seq <= 0} = {}
  BY <1>1, <1>2
<1>4. FramesAfter(log, 0) = SubSeq(all, 1, Len(all))
  <2>1. Cardinality({}) + 1 = 1
    BY FS_EmptySet
  <2>2. FramesAfter(log, 0)
          = SubSeq(all, Cardinality({i \in 1 .. Len(all) : all[i].seq <= 0}) + 1, Len(all))
    BY DEF FramesAfter
  <2>. QED
    BY <1>3, <2>1, <2>2
<1>. DEFINE cut == SubSeq(all, 1, Len(all))
<1>5. cut \in Seq(ChangeFrames) /\ Len(cut) = Len(all) /\ \A i \in 1 .. Len(all) : cut[i] = all[i]
  BY <1>1
<1>6. m \in 0 .. Len(all) /\ PreviewFrames(log) = SubSeq(cut, 1, m)
  BY <1>1, <1>4, <1>5, PageAssumption DEF PreviewFrames, FirstOf, Smaller
<1>. HIDE DEF cut, m
<1>7. /\ SubSeq(cut, 1, m) \in Seq(ChangeFrames) /\ Len(SubSeq(cut, 1, m)) = m
      /\ \A i \in 1 .. m : SubSeq(cut, 1, m)[i] = cut[i]
  BY <1>1, <1>5, <1>6
<1>. QED
  BY <1>2, <1>5, <1>6, <1>7

\* The operations of the whole log, from the newest RESET on, tell the table.
LEMMA PreviewTells ==
  ASSUME TypeOK, Dense(cdc), TruthTypes, LogTrue
  PROVE  PreviewLive
<1>. DEFINE fs == PreviewFrames(cdc)
            n == Len(fs)
<1>1. CASE PreviewFails(cdc)
  <2>1. PreviewRows(cdc) = <<>>
    BY <1>1 DEF PreviewRows
  <2>2. {id \in Ids : OpsOn(PreviewRows(cdc), id) # {}} = {}
    BY <2>1 DEF OpsOn
  <2>. QED
    BY <2>2 DEF PreviewLive
<1>2. CASE ~PreviewFails(cdc)
  <2>. SUFFICES ASSUME fs # <<>>, n = Len(cdc.frames), fs[n].seq \in DOMAIN truth
                PROVE  LET ops == PreviewRows(cdc)
                           told == {id \in Ids : OpsOn(ops, id) # {}}
                       IN {Collapsed(ops, id) : id \in told} \ {Deleted}
                            = {r \in RowsOf(truth[fs[n].seq]) : r.id \in told}
    BY DEF PreviewLive
  <2>1. cdc \in Logs /\ ~Gap(cdc, 0)
    BY <1>2 DEF TypeOK, LogTypes, PreviewFails
  <2>2. /\ fs \in Seq(ChangeFrames)
        /\ \A i \in 1 .. n : fs[i] = cdc.frames[i] /\ cdc.frames[i].seq = i
    BY <2>1, PreviewedFrames
  <2>3. \A i \in 1 .. n : fs[i].seq = i /\ FrameTrue(fs[i])
    BY <2>2 DEF LogTrue, FramesOf
  <2>. HIDE DEF fs
  <2>4. n \in 1 .. n /\ fs[n].seq = n
    BY <2>2, <2>3
  <2>5. PICK old : Tells(LiveEntries(fs), old, RowsOf(truth[n]))
    BY <2>2, <2>3, <2>4, LiveEntriesTell
  <2>6. RowsOf(truth[n]) \in SUBSET Rows
    BY <2>4, ContentsAreTables DEF TruthTypes
  <2>7. PreviewRows(cdc) = LiveEntries(fs)
    BY <1>2 DEF PreviewRows, fs
  <2>. QED
    BY <2>4, <2>5, <2>6, <2>7, ToldRows
<1>. QED
  BY <1>1, <1>2

\* A preview that has the whole log shows as live what the table of the last change holds,
\* over any commits, RESETs, crashes and restarts of the engine before it.
THEOREM PreviewTellsTheTable ==
  ASSUME PlainFrames, "nobackup" \notin Faults
  PROVE  CheckedSpec => []PreviewLive
<1>1. TypeOK /\ Dense(cdc) /\ TruthInv => PreviewLive
  BY PreviewTells DEF TruthInv
<1>. QED
  BY <1>1, TruthCorrect, HistoryOnlyRecords, EngineUndisturbed, TypeCorrect, LogIsDense, PTL

-----------------------------------------------------------------------------
(* The file as a page of a snapshot meets it *)

\* A content with its rows in places of their own: each id once, and, where homes are
\* apart, at its home.
Placed(c) ==
  /\ \A i, j \in LiveSlots(c) : c[i].id = c[j].id => i = j
  /\ HomesDiffer => AtHome(c)
TruthPlaced == \A s \in DOMAIN truth : Placed(truth[s])

\* From one content to another no row has moved to another slot; no more than one id has
\* another row.
StayPut(c, d) == \A i \in LiveSlots(c), j \in LiveSlots(d) : c[i].id = d[j].id => i = j
OneApart(c, d) ==
  \A a, b \in Ids :
    /\ RowsWith(RowsOf(c), a) # RowsWith(RowsOf(d), a)
    /\ RowsWith(RowsOf(c), b) # RowsWith(RowsOf(d), b)
    => a = b

\* What a commit may do to rows in their slots.
CommitPut ==
  wal.marked =>
    LET old == truth[wal.frame.seq - 1]
    IN /\ StayPut(old, Content(Replayed))
       /\ "BEGIN" \notin Commands => OneApart(old, Content(Replayed))

\* A sequence that has been published stays in the log until its commit is over, unless
\* the log is removed.
LoggedOnce ==
  "nolog" \notin Faults =>
    /\ cdc.there
    /\ wal.marked /\ wal.frame.seq \in DOMAIN truth => LogEnd = wal.frame.seq

\* An operation that an open has to finish, past its RESET, has no table yet.
NotGivenYet == hdr.bulk # "NONE" /\ hdr.pend = 0 => hdr.seq \notin DOMAIN truth

\* A header that announces nothing counts the rows of its sequence, and a slot of the file
\* is as that sequence has it, or as the commit under way will have it.
HeaderCounts == ~Unstable(hdr) => hdr.count = LiveCount(truth[hdr.seq])
FileNear ==
  ~Unstable(hdr) =>
    \A i \in Slots :
      \/ Content(slots)[i] = truth[hdr.seq][i]
      \/ /\ wal.marked /\ wal.frame.seq = hdr.seq + 1 /\ wal.frame.seq \in DOMAIN truth
         /\ Content(slots)[i] = truth[wal.frame.seq][i]

FileInv ==
  /\ TruthPlaced /\ CommitPut /\ LoggedOnce /\ NotGivenYet /\ HeaderCounts /\ FileNear

-----------------------------------------------------------------------------
(* What the pages of a seed say of the tables that have been *)

RowAt(S, i) == {p[2] : p \in {x \in S : x[1] = i}}
LiveAt(c, i) == IF Live(c[i]) THEN {c[i]} ELSE {}

\* A slot was read as the table of a sequence has it; in a torn seed perhaps as the commit
\* after that has it.
ReadAs(S, i, q) ==
  \/ RowAt(S, i) = LiveAt(truth[q], i)
  \/ /\ page_torn
     /\ q + 1 \in DOMAIN truth /\ StayPut(truth[q], truth[q + 1])
     /\ RowAt(S, i) = LiveAt(truth[q + 1], i)

\* The slots before the next page are read, all of one sequence.
StageHeld ==
  npc \in {"page", "scan", "replace"} =>
    /\ \A p \in stage : p[1] < after
    /\ after # 0 => snapshot_seq \in DOMAIN truth
    /\ \A i \in Slots : i < after => ReadAs(stage, i, snapshot_seq)
    /\ npc # "replace" /\ after # 0 => LiveCount(truth[snapshot_seq]) # 0

\* So are those of the page in progress, if its second look will find the header of the first.
PageHeld ==
  npc = "scan" =>
    LET q == page.header.seq
    IN /\ page.after = after /\ page.slot >= after
       /\ q \in DOMAIN truth /\ q <= hdr.seq /\ page.header.count = LiveCount(truth[q])
       /\ \A p \in page.rows : after <= p[1] /\ p[1] < page.slot
       /\ hdr.seq = q /\ ~Unstable(hdr) =>
            \A i \in Slots : after <= i /\ i < page.slot => ReadAs(page.rows, i, q)

\* The last page leaves out no row; a new table has no watermark yet.
SeedHeld ==
  /\ npc = "replace" =>
       /\ snapshot_seq \in DOMAIN truth
       /\ ~page_torn => \A i \in Slots : i >= after => ~Live(truth[snapshot_seq][i])
       /\ page_torn /\ ~CutShort => after >= Capacity
  /\ npc = "seeded" => watermark = 0

-----------------------------------------------------------------------------
(* What the lakehouse shows of each row, and of all rows together *)

LakeOf(id) == {r.image : r \in {x \in target : x.id = id /\ Live(x.image)}}
Agrees(s, id) == LakeOf(id) = RowsWith(RowsOf(truth[s]), id)

\* Each row is as some commit from w on left it; all rows are as one commit left them.
LakeNear(w) == \A id \in Ids : \E s \in DOMAIN truth : s >= w /\ Agrees(s, id)
LakeAt(w) == \E s \in DOMAIN truth : s >= w /\ \A id \in Ids : Agrees(s, id)

LakeTypes ==
  /\ target \subseteq [id : Ids, copy : Nat, image : Record]
  /\ \A r \in target : Live(r.image) => r.image.id = r.id
  /\ stage \subseteq Slots \X Record /\ \A p \in stage : Live(p[2])
  /\ npc = "scan" => \A p \in page.rows : Live(p[2])
  /\ torn \in {"no", "heals", "wrong"} /\ page_torn \in BOOLEAN
  /\ npc = "mark" => torn # "heals"
EachOnce == \A r, q \in target : r.id = q.id => r = q

\* The last sequence that has been pulled, and the one the watermark is about to say.
Pulled == last_seq + Len(all_frames)
LakeMark == IF npc = "seeded" THEN snapshot_seq ELSE watermark
LakeHeld ==
  /\ torn # "wrong" => EachOnce /\ LakeNear(LakeMark)
  /\ torn = "no" => LakeAt(IF npc = "mark" THEN Pulled ELSE LakeMark)

\* The frames of a run tell of the tables after its watermark, and leave out no commit that
\* the lakehouse may already show a part of - or that commit is of one row.
FramesHeld ==
  npc \in {"fetch", "merge", "mark"} =>
    /\ last_seq = watermark
    /\ \A i \in 1 .. Len(all_frames) : ~all_frames[i].reset /\ FrameTrue(all_frames[i])
MergeReady ==
  npc = "merge" /\ all_frames # <<>> /\ torn # "wrong" =>
    \/ \A id \in Ids : \E s \in DOMAIN truth : watermark <= s /\ s <= Pulled /\ Agrees(s, id)
    \/ /\ Pulled + 1 \in DOMAIN truth /\ OneApart(truth[Pulled], truth[Pulled + 1])
       /\ \A id \in Ids : \E s \in DOMAIN truth :
            watermark <= s /\ s <= Pulled + 1 /\ Agrees(s, id)

LakeInv ==
  /\ LakeTypes /\ StageHeld /\ PageHeld /\ SeedHeld
  /\ LakeHeld /\ FramesHeld /\ MergeReady

-----------------------------------------------------------------------------
(* The file keeps to the tables that have been *)

\* All that is known of the rows and their number, together.
TableFacts ==
  /\ EngineFacts /\ CountInv
  /\ HomesDiffer => HomesInv
  /\ "BEGIN" \notin Commands => CleanInv /\ SingleInv /\ OneRowInv

\* What the engine's theorems say of the rows holds together, in every state.
LEMMA TableFactsHold ==
  ASSUME PlainFrames, "nobackup" \notin Faults, "power" \notin Faults
  PROVE  Spec => []TableFacts
<1>1. Spec => []EngineFacts
  BY FactsHold
<1>2. Spec => []CountInv
  BY CountCorrect DEF TruncateFlushed
<1>3. Spec => [](HomesDiffer => HomesInv)
  <2>1. CASE HomesDiffer
    BY <2>1, HomesCorrect, PTL
  <2>2. CASE ~HomesDiffer
    BY <2>2, PTL
  <2>. QED
    BY <2>1, <2>2
<1>4. Spec => []("BEGIN" \notin Commands => CleanInv /\ SingleInv /\ OneRowInv)
  <2>1. CASE "BEGIN" \notin Commands
    BY <2>1, CleanCorrect, SingleCorrect, OneRowCorrect, PTL
  <2>2. CASE ~("BEGIN" \notin Commands)
    BY <2>2, PTL
  <2>. QED
    BY <2>1, <2>2
<1>. QED
  BY <1>1, <1>2, <1>3, <1>4, PTL DEF TableFacts

\* The facts at both ends of a step of an engine that loses no power.
FileStep ==
  /\ TruthStep /\ TableFacts /\ TableFacts' /\ TruthInv' /\ FileInv
  /\ PlainFrames /\ "power" \notin Faults

\* The rows of a content are those of the table, slot by slot.
LEMMA ContentRows ==
  ASSUME NEW t
  PROVE  /\ LiveSlots(Content(t)) = LiveSlots(t) /\ LiveCount(Content(t)) = LiveCount(t)
         /\ \A i \in LiveSlots(t) : Content(t)[i] = t[i]
         /\ RowsOf(Content(t)) = RowsOf(t)
<1>1. \A s \in Slots : Content(t)[s] = IF Live(t[s]) THEN t[s] ELSE Empty
  BY DEF Content
<1>2. LiveSlots(Content(t)) = LiveSlots(t)
  BY <1>1, NotLive DEF LiveSlots
<1>3. \A i \in LiveSlots(t) : Content(t)[i] = t[i]
  BY <1>1 DEF LiveSlots
<1>. QED
  BY <1>2, <1>3, ContentTwice DEF LiveCount

\* A sound table, or one with its rows at home, has its rows in places of their own.
LEMMA PlacedContent ==
  ASSUME NEW t, AtHome(t) \/ (Sound(t) /\ ~HomesDiffer)
  PROVE  Placed(Content(t))
<1>1. CASE AtHome(t)
  <2>1. \A i \in LiveSlots(t) : Home[t[i].id] = i
    BY <1>1 DEF AtHome, OwnSlot, LiveSlots
  <2>2. \A i \in LiveSlots(Content(t)) : Home[Content(t)[i].id] = i
    BY <2>1, ContentRows
  <2>. QED
    BY <2>2 DEF Placed, AtHome, OwnSlot, LiveSlots
<1>2. CASE Sound(t) /\ ~HomesDiffer
  BY <1>2, ContentRows DEF Placed, Sound
<1>. QED
  BY <1>1, <1>2

\* So has the table that the file is, or comes to, unless an operation is announced.
LEMMA ReplayedPlaced ==
  ASSUME TableFacts, PlainFrames, hdr.bulk = "NONE"
  PROVE  Placed(Content(Replayed))
<1>1. CASE HomesDiffer
  <2>1. /\ AtHome(slots) /\ EntriesAtHome(wal.frame) /\ OneEach(wal.frame)
        /\ wal.frame.entries \in Seq(WalEntries)
    BY <1>1 DEF TableFacts, HomesInv, EngineFacts, TableInv, WalPhases, TypeOK, FrameTypes, Wals,
       Frames
  <2>2. ASSUME NEW s \in Slots PROVE OwnSlot(s, Replayed[s])
    <3>1. CASE ~wal.marked \/ s \notin EntrySlots(wal.frame)
      BY <2>1, <3>1, ReplayAt DEF Replayed, AtHome
    <3>2. CASE wal.marked /\ s \in EntrySlots(wal.frame)
      <4>1. PICK i \in 1 .. Len(wal.frame.entries) : wal.frame.entries[i].slot = s
        BY <3>2 DEF EntrySlots
      <4>2. Replayed[s] = wal.frame.entries[i].image
        BY <2>1, <3>2, <4>1, ReplayAt DEF Replayed
      <4>. QED
        BY <2>1, <4>1, <4>2 DEF EntriesAtHome
    <3>. QED
      BY <3>1, <3>2
  <2>. QED
    BY <2>2, PlacedContent DEF AtHome
<1>2. CASE ~HomesDiffer
  <2>1. Sound(Replayed)
    BY <1>2 DEF PlainFrames, TableFacts, CleanInv, FileSound
  <2>. QED
    BY <1>2, <2>1, PlacedContent
<1>. QED
  BY <1>1, <1>2

\* A sequence is given a table with its rows in places of their own.
LEMMA TruthPlacedStep ==
  ASSUME FileStep
  PROVE  TruthPlaced'
<1>1. /\ TruthStep /\ TableFacts /\ TableFacts' /\ PlainFrames /\ TruthPlaced
      /\ TypeOK' /\ BulkPhases
  BY DEF FileStep, FileInv, TruthStep, EngineFacts
<1>2. SUFFICES ASSUME NEW s \in DOMAIN truth', s \notin DOMAIN truth PROVE Placed(truth'[s])
  <2>1. \A s \in DOMAIN truth : s \in DOMAIN truth' /\ truth'[s] = truth[s]
    BY <1>1, GivenOnce
  <2>. QED
    BY <1>1, <2>1 DEF TruthPlaced
<1>3. CASE Published
  <2>1. wal.marked /\ truth'[s] = Content(Replayed)
    BY <1>1, <1>2, <1>3, GivenOnce
  <2>2. hdr.bulk = "NONE"
    BY <1>1, <2>1 DEF BulkPhases
  <2>. QED
    BY <1>1, <2>1, <2>2, ReplayedPlaced
<1>4. CASE ~Published
  <2>1. hdr' # hdr /\ ~Unstable(hdr') /\ s = hdr'.seq /\ truth'[s] = Content(slots')
    BY <1>1, <1>2, <1>4, GivenOnce
  <2>2. ~wal'.marked /\ hdr'.bulk = "NONE"
    BY <1>1, <1>2, <2>1, HeaderGives DEF Unstable
  <2>3. Replayed' = slots'
    BY <1>1, <2>2, ReplayUnmarked DEF Replayed, TypeOK, DatTypes
  <2>4. HomesDiffer => AtHome(slots')
    BY <1>1 DEF TableFacts, HomesInv
  <2>5. ~HomesDiffer => Sound(slots')
    BY <1>1, <2>2, <2>3 DEF PlainFrames, TableFacts, CleanInv, FileSound
  <2>6. Placed(Content(slots'))
    BY <2>4, <2>5, PlacedContent
  <2>. QED
    BY <2>1, <2>6
<1>. QED
  BY <1>3, <1>4

AlikeBut(t, v, e) == \A s \in Slots : s = e \/ t[s] = v[s]

\* Tables that differ in one slot, with at most one id in it, differ in the row of one id.
LEMMA OneSlotApart ==
  ASSUME NEW t, NEW v, NEW e, AlikeBut(t, v, e), OneRow(t[e], v[e])
  PROVE  OneApart(Content(t), Content(v))
<1>1. ASSUME NEW id, RowsWith(RowsOf(t), id) # RowsWith(RowsOf(v), id)
      PROVE  Holds(t[e], id) \/ Holds(v[e], id)
  <2>1. PICK r : ~(r \in RowsWith(RowsOf(t), id) <=> r \in RowsWith(RowsOf(v), id))
    BY <1>1
  <2>2. CASE r \in RowsWith(RowsOf(t), id) /\ r \notin RowsWith(RowsOf(v), id)
    <3>1. PICK s \in Slots : Live(t[s]) /\ r = t[s] /\ r.id = id
      BY <2>2 DEF RowsWith, RowsOf, LiveSlots
    <3>2. ~(Live(v[s]) /\ r = v[s])
      BY <2>2, <3>1 DEF RowsWith, RowsOf, LiveSlots
    <3>. QED
      BY <3>1, <3>2 DEF Holds, AlikeBut
  <2>3. CASE r \notin RowsWith(RowsOf(t), id) /\ r \in RowsWith(RowsOf(v), id)
    <3>1. PICK s \in Slots : Live(v[s]) /\ r = v[s] /\ r.id = id
      BY <2>3 DEF RowsWith, RowsOf, LiveSlots
    <3>2. ~(Live(t[s]) /\ r = t[s])
      BY <2>3, <3>1 DEF RowsWith, RowsOf, LiveSlots
    <3>. QED
      BY <3>1, <3>2 DEF Holds, AlikeBut
  <2>. QED
    BY <2>1, <2>2, <2>3
<1>. QED
  BY <1>1, ContentTwice DEF OneApart, OneRow, Holds

\* A commit leaves the rows it does not delete where they are; one of a single statement
\* changes the row of one id.
LEMMA CommitPutStep ==
  ASSUME FileStep
  PROVE  CommitPut'
<1>1. /\ TruthStep /\ TableFacts /\ TableFacts' /\ PlainFrames /\ CommitPut /\ EngineFacts
      /\ TypeOK /\ SeqInv /\ TableInv /\ BulkPhases /\ FrameTied /\ Next /\ CommitTrue /\ HeaderTrue
  BY DEF FileStep, FileInv, TruthStep, EngineFacts, TruthInv
<1>. SUFFICES ASSUME wal'.marked PROVE CommitPut'
  BY DEF CommitPut
<1>2. CASE wal' = wal
  <2>1. wal.marked /\ Replayed' = Replayed
    BY <1>1, <1>2, ReplayStays
  <2>2. wal.frame.seq - 1 \in DOMAIN truth
    BY <1>1, <2>1 DEF CommitTrue
  <2>3. truth'[wal.frame.seq - 1] = truth[wal.frame.seq - 1]
    BY <1>1, <2>2, GivenOnce
  <2>. QED
    BY <1>1, <1>2, <2>1, <2>3 DEF CommitPut
<1>3. CASE WalCommit
  <2>1. /\ pc = "mark" /\ wal'.frame = frame /\ wal.frame = frame /\ ~wal.marked
        /\ hdr' = hdr /\ slots' = slots /\ cdc' = cdc /\ frame.seq = hdr.seq + 1
        /\ wal' \in Wals /\ OneEach(frame) /\ ~opening /\ hdr.bulk = "NONE" /\ hdr.pend = 0
    BY <1>1, <1>3 DEF WalCommit, datVars, SeqInv, CommitPhases, ResetPhases, BulkPhases, TxnPcs,
       TableInv, WalPhases, ReplayPcs, TypeOK, FrameTypes, TableFacts, EngineFacts, TxnPhases
  <2>2. ~Published
    BY <2>1 DEF Published
  <2>3. truth' = truth
    BY <1>1, <2>1, <2>2, GivenOnce
  <2>4. truth[hdr.seq] = Content(slots) /\ hdr.seq \in Nat
    BY <1>1, <2>1, SeqTypes DEF HeaderTrue, Unstable
  <2>. DEFINE new == Replay(wal', slots)
  <2>5. Replayed' = new /\ wal'.marked /\ OneEach(wal'.frame)
    BY <2>1 DEF Replayed
  <2>6. /\ \A s \in Slots : s \notin EntrySlots(frame) => new[s] = slots[s]
        /\ \A i \in 1 .. Len(frame.entries) : frame.entries[i].slot \in Slots =>
             new[frame.entries[i].slot] = frame.entries[i].image
    BY <2>1, <2>5, ReplayAt
  <2>7. "BEGIN" \notin Commands =>
          /\ Sound(slots) /\ Sound(new) /\ Len(frame.entries) <= 1
          /\ \A i \in 1 .. Len(frame.entries) :
               OneRow(frame.entries[i].prev, frame.entries[i].image)
    BY <1>1, <2>1, <2>5 DEF TableFacts, SingleInv, OneRowInv, CleanInv, FileSound
  <2>8. \A i, j \in EntrySlots(frame) : "BEGIN" \notin Commands => i = j
    <3>1. Len(frame.entries) \in Nat
      BY <1>1, CountTypes
    <3>2. "BEGIN" \notin Commands => \A i, j \in 1 .. Len(frame.entries) : i = j
      BY <2>7, <3>1
    <3>. QED
      BY <3>2 DEF EntrySlots
  <2>9. StayPut(Content(slots), Content(new))
    <3>. SUFFICES ASSUME NEW i \in LiveSlots(slots), NEW j \in LiveSlots(new),
                         slots[i].id = new[j].id
                  PROVE  i = j
      BY ContentRows DEF StayPut
    <3>1. CASE HomesDiffer
      <4>1. AtHome(slots) /\ EntriesAtHome(frame)
        BY <1>1, <2>1, <3>1 DEF TableFacts, HomesInv
      <4>2. Home[slots[i].id] = i
        BY <4>1 DEF AtHome, OwnSlot, LiveSlots
      <4>3. OwnSlot(j, new[j])
        <5>1. CASE j \notin EntrySlots(frame)
          BY <2>6, <4>1, <5>1 DEF AtHome, LiveSlots
        <5>2. CASE j \in EntrySlots(frame)
          <6>1. PICK k \in 1 .. Len(frame.entries) : frame.entries[k].slot = j
            BY <5>2 DEF EntrySlots
          <6>. QED
            BY <2>6, <4>1, <6>1 DEF EntriesAtHome, LiveSlots
        <5>. QED
          BY <5>1, <5>2
      <4>. QED
        BY <4>2, <4>3 DEF OwnSlot, LiveSlots
    <3>2. CASE "BEGIN" \notin Commands
      <4>1. i \notin EntrySlots(frame) => i \in LiveSlots(new) /\ new[i] = slots[i]
        BY <2>6 DEF LiveSlots
      <4>2. j \notin EntrySlots(frame) => j \in LiveSlots(slots) /\ new[j] = slots[j]
        BY <2>6 DEF LiveSlots
      <4>. QED
        BY <2>7, <2>8, <3>2, <4>1, <4>2 DEF Sound
    <3>. QED
      BY <1>1, <3>1, <3>2 DEF PlainFrames
  <2>10. "BEGIN" \notin Commands => OneApart(Content(slots), Content(new))
    <3>. SUFFICES ASSUME "BEGIN" \notin Commands PROVE OneApart(Content(slots), Content(new))
      OBVIOUS
    <3>1. CASE EntrySlots(frame) = {}
      BY <2>6, <3>1, SameContent, SameIsEquality DEF OneApart, SameTables
    <3>2. CASE EntrySlots(frame) # {}
      <4>1. PICK k \in 1 .. Len(frame.entries) : TRUE
        BY <3>2 DEF EntrySlots
      <4>. DEFINE e == frame.entries[k].slot
      <4>2. e \in EntrySlots(frame) /\ e \in Slots
        <5>1. frame.entries[k] \in WalEntries
          BY <1>1, CountTypes
        <5>. QED
          BY <5>1 DEF EntrySlots, WalEntries
      <4>3. AlikeBut(slots, new, e)
        BY <2>6, <2>8, <4>2 DEF AlikeBut
      <4>4. Same(slots[e], frame.entries[k].prev)
        BY <1>1, <2>1 DEF FrameTied, Before
      <4>5. new[e] = frame.entries[k].image
        BY <2>6, <4>2
      <4>6. OneRow(slots[e], new[e])
        BY <2>7, <4>4, <4>5, SameIsEquality DEF OneRow
      <4>. HIDE DEF e, new
      <4>. QED
        BY <4>3, <4>6, OneSlotApart
    <3>. QED
      BY <3>1, <3>2
  <2>11. wal'.frame.seq - 1 = hdr.seq
    BY <2>1, <2>4
  <2>. HIDE DEF new
  <2>. QED
    BY <2>3, <2>4, <2>5, <2>9, <2>10, <2>11 DEF CommitPut
<1>. QED
  BY <1>1, <1>2, <1>3, MarkedBy

\* Only CdcPublish makes a step a publication.
LEMMA PublishedBy ==
  ASSUME Next, Published
  PROVE  CdcPublish
<1>1. cdc' # cdc /\ pc = "publish"
  BY DEF Published
<1>. QED
  BY <1>1, Writers DEF EmitReset, TrimSwap, Open, LoseLog

\* A published sequence stays where a recovery of its commit looks for it.
LEMMA LoggedOnceStep ==
  ASSUME FileStep
  PROVE  LoggedOnce'
<1>1. /\ TruthStep /\ EngineFacts /\ TypeOK /\ TypeOK' /\ SeqInv /\ SeqInv' /\ TableInv
      /\ Next /\ TruthBound /\ LoggedOnce /\ "power" \notin Faults
  BY DEF FileStep, FileInv, TruthStep, EngineFacts, TruthInv
<1>. SUFFICES ASSUME "nolog" \notin Faults PROVE LoggedOnce'
  BY DEF LoggedOnce
<1>2. cdc.there /\ cdc'.there
  BY <1>1, LogKeptStep DEF LoggedOnce, LogKept
<1>. SUFFICES ASSUME wal'.marked, wal'.frame.seq \in DOMAIN truth' PROVE LogEnd' = wal'.frame.seq
  BY <1>2 DEF LoggedOnce
<1>3. CASE WalCommit
  <2>1. /\ pc = "mark" /\ wal'.frame = frame /\ ~wal.marked /\ hdr' = hdr /\ frame.seq = hdr.seq + 1
        /\ hdr.seq = hdr_safe.seq
    BY <1>1, <1>3 DEF WalCommit, datVars, SeqInv, CommitPhases, TableInv, WalPhases, ReplayPcs,
       HeadersAgree
  <2>2. truth' = truth
    BY <1>1, <2>1, GivenOnce DEF Published
  <2>3. hdr.seq \in Nat
    BY <1>1, SeqTypes
  <2>. QED
    BY <1>1, <2>1, <2>2, <2>3 DEF TruthBound, LastGiven
<1>4. CASE wal' = wal
  <2>1. wal.marked
    BY <1>4
  <2>2. CASE Published
    <3>1. CdcPublish /\ cdc' # cdc
      BY <1>1, <2>2, PublishedBy DEF Published
    <3>2. cdc_lastseq' = frame.seq /\ pc = "publish" /\ pc' = "apply"
      BY <3>1 DEF CdcPublish
    <3>3. wal.frame = frame /\ cdc_lastseq' = LastSeq(cdc)'
      BY <1>1, <3>2 DEF TableInv, WalPhases, ReplayPcs, SeqInv, MemoryAgrees, Running
    <3>. QED
      BY <1>2, <1>4, <3>2, <3>3 DEF LogEnd
  <2>3. CASE ~Published
    <3>1. wal.frame.seq \in DOMAIN truth
      <4>1. CASE hdr' # hdr /\ ~Unstable(hdr')
        BY <1>1, <1>4, <2>1, <2>3, <4>1, GivenOnce, HeaderGives
      <4>2. CASE ~(hdr' # hdr /\ ~Unstable(hdr'))
        BY <1>1, <1>4, <2>3, <4>2, GivenOnce
      <4>. QED
        BY <4>1, <4>2
    <3>2. LogEnd = wal.frame.seq
      BY <1>1, <2>1, <3>1 DEF LoggedOnce
    <3>3. cdc' = cdc
      <4>1. ~(EmitReset \/ TrimSwap)
        BY <1>1, <2>1 DEF EmitReset, TrimSwap, TableInv, WalPhases, ReplayPcs
      <4>2. ASSUME Open PROVE cdc' = cdc
        BY <1>2, <4>2 DEF Open
      <4>3. ASSUME LoseLog PROVE FALSE
        BY <4>3 DEF LoseLog
      <4>4. ASSUME CdcPublish PROVE cdc' = cdc
        <5>1. /\ wal.frame = frame /\ cdc_lastseq = LastSeq(cdc) /\ pc = "publish"
          BY <1>1, <4>4 DEF CdcPublish, TableInv, WalPhases, ReplayPcs, SeqInv, MemoryAgrees,
             Running
        <5>2. Gate(frame.seq) = "skip"
          BY <1>2, <3>2, <5>1 DEF Gate, LogEnd
        <5>. QED
          BY <4>4, <5>2 DEF CdcPublish
      <4>. QED
        BY <1>1, <4>1, <4>2, <4>3, <4>4, Writers
    <3>. QED
      BY <1>2, <1>4, <3>2, <3>3 DEF LogEnd
  <2>. QED
    BY <2>2, <2>3
<1>. QED
  BY <1>1, <1>3, <1>4, MarkedBy

\* What an open has to finish gets its table when it is finished.
LEMMA NotGivenYetStep ==
  ASSUME FileStep
  PROVE  NotGivenYet'
<1>1. /\ TruthStep /\ EngineFacts /\ TypeOK /\ SeqInv /\ TableInv /\ BulkPhases
      /\ BulkAnnounced /\ Next /\ TruthBound /\ NotGivenYet /\ "power" \notin Faults
  BY DEF FileStep, FileInv, TruthStep, EngineFacts, TruthInv
<1>. SUFFICES ASSUME hdr'.bulk # "NONE", hdr'.pend = 0 PROVE hdr'.seq \notin DOMAIN truth'
  BY DEF NotGivenYet
<1>2. CASE hdr' = hdr
  <2>1. ~wal.marked
    BY <1>1, <1>2 DEF BulkPhases
  <2>2. truth' = truth
    BY <1>1, <1>2, <2>1, GivenOnce
  <2>. QED
    BY <1>1, <1>2, <2>2 DEF NotGivenYet
<1>3. CASE hdr' # hdr
  <2>1. ~Published
    BY <1>1, <1>3, GivenOnce
  <2>2. truth' = truth
    BY <1>1, <2>1, GivenOnce DEF Unstable
  <2>3. CASE RestoreApply \/ BenchApply \/ BulkClear
    <3>1. /\ hdr'.seq = seq /\ hdr'.pend = reset_pend /\ pc \in {"restore", "bench", "bulk_clear"}
      BY <2>3 DEF RestoreApply, BenchApply, BulkClear, ReplaceTable, Header
    <3>2. hdr'.seq = hdr.seq /\ hdr.pend = 0 /\ hdr.bulk # "NONE"
      BY <1>1, <3>1 DEF SeqInv, MemoryAgrees, Running, BulkAnnounced
    <3>. QED
      BY <1>1, <2>2, <3>2 DEF NotGivenYet
  <2>4. CASE ClearReset
    <3>1. hdr'.seq = reset_seq /\ pc = "clear_reset"
      BY <2>4 DEF ClearReset, Header
    <3>2. ~wal.marked /\ reset_seq = hdr.seq + 1 /\ hdr.seq = hdr_safe.seq /\ hdr.seq \in Nat
      BY <1>1, <3>1, SeqTypes DEF SeqInv, CommitPhases, MemoryAgrees, Running, ResetPhases,
         HeadersAgree, ResetStateOk
    <3>. QED
      BY <1>1, <2>2, <3>1, <3>2 DEF TruthBound, LastGiven
  <2>5. ~(PublishHeader \/ Truncate \/ Restore \/ Bench \/ BulkClose \/ PowerLoss)
    <3>1. ASSUME PublishHeader PROVE FALSE
      BY <1>1, <3>1 DEF PublishHeader, Header, SeqInv, MemoryAgrees, Running, TableInv, WalPhases,
         ReplayPcs, BulkPhases
    <3>2. ~(Truncate \/ Restore \/ Bench \/ BulkClose)
      BY DEF Truncate, Restore, Bench, BulkBegin, BulkClose, Header
    <3>. QED
      BY <1>1, <3>1, <3>2 DEF PowerLoss
  <2>. QED
    BY <1>1, <1>3, <2>3, <2>4, <2>5, Writers
<1>. QED
  BY <1>2, <1>3

\* How the file and the header change while a commit is in the WAL.
LEMMA CommitWrites ==
  ASSUME FileStep, wal.marked, wal' = wal
  PROVE  \/ hdr' = hdr /\ slots' = slots
         \/ /\ ApplySlot /\ hdr' = hdr /\ wal.frame.seq \in DOMAIN truth
            /\ \E e \in EntrySlots(wal.frame) :
                 slots' = [slots EXCEPT ![e] = Replayed[e]]
         \/ /\ PublishHeader /\ slots' = slots /\ wal.frame.seq \in DOMAIN truth
            /\ Content(slots) = truth[wal.frame.seq]
            /\ hdr'.seq = wal.frame.seq /\ hdr'.count = wal.frame.count
<1>1. /\ EngineFacts /\ TypeOK /\ SeqInv /\ TableInv /\ Next /\ CommitTrue /\ "power" \notin Faults
  BY DEF FileStep, TruthStep, EngineFacts, TruthInv
<1>2. /\ ~(\/ Truncate \/ Restore \/ Bench \/ RestoreApply \/ BenchApply \/ BulkClear \/ BulkClose
           \/ ClearReset \/ TruncateSlot \/ PowerLoss)
  BY <1>1 DEF Truncate, Restore, Bench, BulkBegin, Idle, Ready, RestoreApply, BenchApply, BulkClear,
     BulkClose, ClearReset, TruncateSlot, PowerLoss, TableInv, WalPhases, ReplayPcs
<1>3. ASSUME pc = "apply" PROVE wal.frame = frame /\ wal.frame.seq \in DOMAIN truth
  <2>1. wal.frame = frame /\ cdc_lastseq = frame.seq /\ cdc.there /\ cdc_lastseq = LastSeq(cdc)
    BY <1>1, <1>3 DEF TableInv, WalPhases, ReplayPcs, SeqInv, CommitPhases, MemoryAgrees, Running
  <2>. QED
    BY <1>1, <2>1 DEF CommitTrue, LogEnd
<1>4. CASE ApplySlot
  <2>. DEFINE e == frame.entries[done + 1]
  <2>1. pc = "apply" /\ hdr' = hdr /\ slots' = [slots EXCEPT ![e.slot] = e.image]
        /\ done + 1 \in 1 .. Len(frame.entries)
    BY <1>1, <1>4, CountTypes DEF ApplySlot
  <2>2. e.slot \in EntrySlots(wal.frame)
    BY <1>3, <2>1 DEF EntrySlots
  <2>3. e.slot \in Slots
    <3>1. e \in WalEntries
      BY <1>1, <2>1, CountTypes
    <3>. QED
      BY <3>1 DEF WalEntries
  <2>4. Replayed[e.slot] = e.image
    BY <1>1, <1>3, <2>1, <2>3, ReplayAt DEF Replayed, TableInv, WalPhases
  <2>. QED
    BY <1>3, <1>4, <2>1, <2>2, <2>4
<1>5. CASE PublishHeader
  <2>1. pc = "apply" /\ slots' = slots /\ done = Len(frame.entries) /\ hdr'.seq = frame.seq
        /\ hdr'.count = frame.count
    BY <1>5 DEF PublishHeader, Header
  <2>2. ImagesIn(wal.frame, slots)
    BY <1>1, <1>3, <2>1 DEF TableInv, Written, ImagesIn
  <2>3. Replayed = slots
    BY <1>1, <2>2, CountTypes, ReplayWritten DEF Replayed, TableInv, WalPhases
  <2>. QED
    BY <1>1, <1>3, <1>5, <2>1, <2>3 DEF CommitTrue
<1>. QED
  BY <1>1, <1>2, <1>4, <1>5, Writers DEF ApplySlot, PublishHeader

\* The count of a header that announces nothing is that of its table ...
LEMMA HeaderCountsStep ==
  ASSUME FileStep
  PROVE  HeaderCounts'
<1>1. /\ TruthStep /\ TruthInv' /\ CountInv /\ CountInv' /\ HeaderCounts /\ Next /\ HeaderTrue
      /\ CommitTrue /\ TypeOK /\ SeqInv /\ TableInv
  BY DEF FileStep, FileInv, TruthStep, EngineFacts, TableFacts, TruthInv
<1>. SUFFICES ASSUME ~Unstable(hdr') PROVE hdr'.count = LiveCount(truth'[hdr'.seq])
  BY DEF HeaderCounts
<1>2. ASSUME hdr' = hdr PROVE hdr'.count = LiveCount(truth'[hdr'.seq])
  BY <1>1, <1>2, GivenOnce DEF HeaderTrue, HeaderCounts
<1>3. CASE ~wal'.marked
  <2>1. hdr'.count = LiveCount(slots') /\ truth'[hdr'.seq] = Content(slots')
    BY <1>1, <1>3 DEF CountInv, HeaderCount, TruthInv, HeaderTrue, Unstable
  <2>. QED
    BY <2>1, ContentRows
<1>4. CASE wal'.marked
  <2>1. CASE WalCommit
    BY <1>2, <2>1 DEF WalCommit, datVars
  <2>2. CASE wal' = wal
    <3>1. CASE hdr' # hdr
      <4>1. /\ wal.frame.seq \in DOMAIN truth /\ hdr'.seq = wal.frame.seq
            /\ hdr'.count = wal.frame.count
        BY <1>4, <2>2, <3>1, CommitWrites
      <4>2. truth'[hdr'.seq] = Content(Replayed)
        BY <1>1, <1>4, <2>2, <4>1, GivenOnce DEF CommitTrue
      <4>3. wal.frame.count = LiveCount(Replayed)
        BY <1>1, <1>4, <2>2 DEF CountInv, CommittedCount
      <4>. QED
        BY <4>1, <4>2, <4>3, ContentRows
    <3>. QED
      BY <1>2, <3>1
  <2>. QED
    BY <1>1, <1>4, <2>1, <2>2, MarkedBy
<1>. QED
  BY <1>3, <1>4

\* ... and a slot of the file is as that table has it, or as the next.
LEMMA FileNearStep ==
  ASSUME FileStep
  PROVE  FileNear'
<1>1. /\ TruthStep /\ TruthInv' /\ FileNear /\ Next /\ HeaderTrue /\ CommitTrue /\ TypeOK /\ SeqInv
      /\ TableInv
  BY DEF FileStep, FileInv, TruthStep, EngineFacts, TruthInv
<1>. SUFFICES ASSUME ~Unstable(hdr'), NEW i \in Slots
              PROVE  \/ Content(slots')[i] = truth'[hdr'.seq][i]
                     \/ /\ wal'.marked /\ wal'.frame.seq = hdr'.seq + 1
                        /\ wal'.frame.seq \in DOMAIN truth'
                        /\ Content(slots')[i] = truth'[wal'.frame.seq][i]
  BY DEF FileNear
<1>2. CASE ~wal'.marked
  BY <1>1, <1>2 DEF TruthInv, HeaderTrue
<1>3. \A s \in DOMAIN truth : s \in DOMAIN truth' /\ truth'[s] = truth[s]
  BY <1>1, GivenOnce
<1>4. CASE WalCommit
  <2>1. ~wal.marked /\ hdr' = hdr /\ slots' = slots
    BY <1>1, <1>4 DEF WalCommit, datVars, TableInv, WalPhases, ReplayPcs
  <2>. QED
    BY <1>1, <1>3, <2>1 DEF HeaderTrue
<1>5. CASE wal' = wal /\ wal.marked
  <2>1. ASSUME hdr' = hdr, Content(slots')[i] = Content(slots)[i]
        PROVE  \/ Content(slots')[i] = truth'[hdr'.seq][i]
               \/ /\ wal'.marked /\ wal'.frame.seq = hdr'.seq + 1
                  /\ wal'.frame.seq \in DOMAIN truth'
                  /\ Content(slots')[i] = truth'[wal'.frame.seq][i]
    BY <1>1, <1>3, <1>5, <2>1 DEF FileNear, HeaderTrue
  <2>2. CASE /\ ApplySlot /\ hdr' = hdr /\ wal.frame.seq \in DOMAIN truth
             /\ \E e \in EntrySlots(wal.frame) : slots' = [slots EXCEPT ![e] = Replayed[e]]
    <3>1. PICK e \in EntrySlots(wal.frame) : slots' = [slots EXCEPT ![e] = Replayed[e]]
      BY <2>2
    <3>2. slots \in Tables
      BY <1>1 DEF TypeOK, DatTypes
    <3>3. CASE i # e
      BY <2>1, <2>2, <3>1, <3>2, <3>3 DEF Content, Tables
    <3>4. CASE i = e
      <4>1. Content(slots')[i] = Content(Replayed)[i]
        BY <3>1, <3>2, <3>4 DEF Content, Tables
      <4>2. Content(slots')[i] = truth'[wal.frame.seq][i]
        BY <1>1, <1>3, <1>5, <2>2, <4>1 DEF CommitTrue
      <4>3. wal.frame.seq = hdr.seq \/ wal.frame.seq = hdr.seq + 1
        BY <1>1, <1>5, <2>2 DEF SeqInv, LogStanding, CommitPending, HeadersAgree, ApplySlot
      <4>. QED
        BY <1>3, <1>5, <2>2, <4>2, <4>3
    <3>. QED
      BY <3>3, <3>4
  <2>3. CASE PublishHeader /\ slots' = slots /\ Content(slots) = truth[wal.frame.seq]
             /\ hdr'.seq = wal.frame.seq /\ wal.frame.seq \in DOMAIN truth
    BY <1>3, <2>3
  <2>. QED
    BY <1>5, <2>1, <2>2, <2>3, CommitWrites
<1>. QED
  BY <1>1, <1>2, <1>4, <1>5, MarkedBy

\* A new file is the table of the sequence 0.
LEMMA FileInit == CheckedInit => FileInv
<1>. SUFFICES ASSUME CheckedInit PROVE FileInv
  OBVIOUS
<1>1. /\ hdr = Header(0, 0, 0, 0, "NONE") /\ slots = EmptyTable /\ wal = NoWal /\ cdc = NewLog(0)
      /\ truth = [s \in {0} |-> EmptyTable]
  BY DEF CheckedInit, SyncInit, Init
<1>2. Content(EmptyTable) = EmptyTable /\ LiveSlots(EmptyTable) = {} /\ LiveCount(EmptyTable) = 0
  BY CountNone, NoRows
<1>3. Placed(EmptyTable)
  BY <1>2, HomeNothing DEF Placed
<1>. QED
  BY <1>1, <1>2, <1>3
  DEF FileInv, TruthPlaced, CommitPut, LoggedOnce, NotGivenYet, HeaderCounts, FileNear, NoWal,
      NewLog, Header

\* The facts of the engine, with what the truth says of them.
SyncFacts == TableFacts /\ TruthInv /\ FileInv

\* A reader of the file meets the tables that have been.
LEMMA FileCorrect ==
  ASSUME PlainFrames, "nobackup" \notin Faults, "power" \notin Faults
  PROVE  CheckedSpec => []SyncFacts
<1>1. CheckedSpec => []TableFacts
  BY TableFactsHold, HistoryOnlyRecords, EngineUndisturbed, PTL
<1>2. CheckedSpec => []TruthInv
  BY TruthCorrect
<1>3. CheckedInit => FileInv
  BY FileInit
<1>4. TableFacts /\ TableFacts' /\ TruthInv /\ TruthInv' /\ FileInv
        /\ [CheckedNext]_<<vars, syncVars, history>> => FileInv'
  <2>. SUFFICES ASSUME TableFacts, TableFacts', TruthInv, TruthInv', FileInv,
                       [CheckedNext]_<<vars, syncVars, history>>
                PROVE  FileInv'
    OBVIOUS
  <2>1. CASE Next /\ RecordTruth
    <3>1. FileStep
      BY <2>1 DEF FileStep, TruthStep, TableFacts
    <3>. QED
      BY <3>1, TruthPlacedStep, CommitPutStep, LoggedOnceStep, NotGivenYetStep,
         HeaderCountsStep, FileNearStep DEF FileInv
  <2>2. CASE UNCHANGED vars /\ truth' = truth
    BY <2>2
    DEF FileInv, TruthPlaced, CommitPut, LoggedOnce, NotGivenYet, HeaderCounts, FileNear,
        LogEnd, Replayed, vars, logVars, datVars
  <2>. QED
    BY <2>1, <2>2, TruthSteps
<1>. QED
  BY <1>1, <1>2, <1>3, <1>4, PTL DEF CheckedSpec, SyncFacts

-----------------------------------------------------------------------------
(* The engine goes on while the notebook reads *)

\* Without a loss of power the sequence of the header never falls ...
LEMMA HeaderGrows ==
  ASSUME FileStep
  PROVE  hdr'.seq >= hdr.seq
<1>1. /\ TypeOK /\ SeqInv /\ TableInv /\ Next /\ "power" \notin Faults /\ hdr.seq \in Nat
  BY SeqTypes DEF FileStep, TruthStep, EngineFacts
<1>2. CASE PublishHeader
  <2>1. hdr'.seq = frame.seq /\ pc = "apply" /\ wal.frame = frame /\ wal.marked
    BY <1>1, <1>2 DEF PublishHeader, Header, TableInv, WalPhases, ReplayPcs
  <2>. QED
    BY <1>1, <2>1, SeqTypes DEF SeqInv, LogStanding, CommitPending, HeadersAgree
<1>3. CASE ClearReset
  <2>1. hdr'.seq = reset_seq /\ pc = "clear_reset"
    BY <1>3 DEF ClearReset, Header
  <2>2. reset_seq = hdr.seq + 1
    BY <1>1, <2>1 DEF SeqInv, MemoryAgrees, Running, ResetPhases, HeadersAgree, ResetStateOk
  <2>. QED
    BY <1>1, <2>1, <2>2
<1>4. CASE \/ Truncate \/ Restore \/ Bench \/ RestoreApply \/ BenchApply \/ BulkClear \/ BulkClose
  <2>1. hdr'.seq = seq /\ pc \notin {"down", "refused"}
    BY <1>4 DEF Truncate, Restore, Bench, BulkBegin, Idle, Ready, RestoreApply, BenchApply, BulkClear,
       ReplaceTable, BulkClose, Header
  <2>. QED
    BY <1>1, <2>1 DEF SeqInv, MemoryAgrees, Running
<1>. QED
  BY <1>1, <1>2, <1>3, <1>4, Writers DEF PowerLoss

\* ... so a header that says again what a page found at first has said so all the time.
LEMMA StablePin ==
  ASSUME FileStep, NEW q \in DOMAIN truth, q <= hdr.seq, hdr'.seq = q, ~Unstable(hdr')
  PROVE  hdr.seq = q /\ ~Unstable(hdr)
<1>1. /\ TruthStep /\ TypeOK /\ SeqInv /\ TableInv /\ BulkPhases /\ hdr.seq \in Nat /\ q \in Nat
      /\ NotGivenYet /\ "power" \notin Faults
  BY SeqTypes DEF FileStep, FileInv, TruthStep, EngineFacts, TruthInv, TruthTypes
<1>2. hdr.seq = q
  BY <1>1, HeaderGrows
<1>3. CASE hdr' = hdr
  BY <1>2, <1>3
<1>4. CASE hdr' # hdr
  <2>1. CASE PublishHeader /\ wal.marked
    BY <1>1, <1>2, <2>1 DEF Unstable, BulkPhases, SeqInv, LogStanding, CommitPending
  <2>2. CASE hdr'.seq = hdr.seq + 1
    BY <1>1, <1>2, <2>2
  <2>3. CASE BulkClose /\ hdr_safe.bulk # "NONE" /\ hdr_safe.pend = 0
    <3>1. pc = "bulk_close"
      BY <2>3 DEF BulkClose
    <3>2. hdr.bulk = hdr_safe.bulk /\ hdr.pend = hdr_safe.pend
      BY <1>1, <3>1 DEF BulkPhases, SeqInv, HeadersAgree
    <3>. QED
      BY <1>1, <1>2, <2>3, <3>2 DEF NotGivenYet
  <2>. QED
    BY <1>1, <1>4, <2>1, <2>2, <2>3, HeaderGives DEF PowerLoss
<1>. QED
  BY <1>2, <1>3, <1>4

\* What a step of the engine leaves of the history: a sequence keeps its table.
LEMMA HistoryStays ==
  ASSUME FileStep, RunInv, UNCHANGED syncVars, RecordTear, RecordSeed
  PROVE  /\ \A s \in DOMAIN truth : s \in DOMAIN truth' /\ truth'[s] = truth[s]
         /\ torn' = torn
         /\ page_torn \in BOOLEAN => page_torn' \in BOOLEAN
         /\ npc \in {"scan", "replace"} \/ (npc = "page" /\ after # 0) =>
              (page_torn' <=> page_torn)
<1>1. page.slot \in Nat /\ page' = page /\ npc' = npc /\ after' = after
  BY DEF RunInv, RunTypes, SnapshotPages, syncVars, seedVars
<1>2. torn' = torn
  BY <1>1 DEF RecordSeed
<1>3. ~(npc = "scan" /\ page'.slot > page.slot /\ ~AtCommit)
  BY <1>1
<1>4. page_torn' = IF npc \notin {"page", "scan", "replace"} \/ (npc = "page" /\ after = 0) THEN FALSE
                   ELSE page_torn \/ (npc = "scan" /\ page'.slot > page.slot /\ ~AtCommit)
  BY <1>1 DEF RecordTear
<1>5. CASE npc \notin {"page", "scan", "replace"} \/ (npc = "page" /\ after = 0)
  <2>1. page_torn' = FALSE
    BY <1>4, <1>5
  <2>. QED
    BY <1>2, <1>5, <2>1, GivenOnce DEF FileStep
<1>6. CASE ~(npc \notin {"page", "scan", "replace"} \/ (npc = "page" /\ after = 0))
  <2>1. page_torn' = (page_torn \/ FALSE)
    BY <1>3, <1>4, <1>6, Zenon
  <2>. QED
    BY <1>2, <2>1, GivenOnce DEF FileStep
<1>. QED
  BY <1>5, <1>6

\* The sequence of the last frame pulled has a table, and so has the one the frames begin at.
LEMMA PulledGiven ==
  ASSUME RunInv, FramesHeld, npc \in {"fetch", "merge", "mark"}, all_frames # <<>>
  PROVE  /\ Pulled \in DOMAIN truth /\ Pulled \in Nat
         /\ watermark \in DOMAIN truth /\ watermark \in Nat /\ watermark < Pulled
         /\ all_frames[Len(all_frames)].seq = Pulled
<1>. DEFINE n == Len(all_frames)
<1>1. n \in Nat \ {0} /\ last_seq \in Nat /\ last_seq = watermark
  BY DEF RunInv, RunTypes, FramesHeld
<1>2. \A i \in 1 .. n : /\ ~all_frames[i].reset /\ FrameTrue(all_frames[i])
                       /\ all_frames[i].seq = last_seq + i
  BY DEF RunInv, NoFrameSkipped, FramesHeld
<1>3. \A i \in 1 .. n : (last_seq + i) - 1 \in DOMAIN truth /\ last_seq + i \in DOMAIN truth
  BY <1>2 DEF FrameTrue
<1>. HIDE DEF n
<1>4. 1 \in 1 .. n /\ n \in 1 .. n /\ (last_seq + 1) - 1 = last_seq
  BY <1>1
<1>. QED
  BY <1>1, <1>2, <1>3, <1>4 DEF Pulled, n

\* Growth of the truth changes nothing that was said of it.
LEMMA LakeEngine ==
  ASSUME FileStep, RunInv, LakeInv, UNCHANGED syncVars, RecordTear, RecordSeed
  PROVE  LakeInv'
<1>. USE DEF syncVars, runVars, seedVars, lakehouse
<1>1. /\ \A s \in DOMAIN truth : s \in DOMAIN truth' /\ truth'[s] = truth[s]
      /\ torn' = torn
      /\ page_torn \in BOOLEAN => page_torn' \in BOOLEAN
      /\ npc \in {"scan", "replace"} \/ (npc = "page" /\ after # 0) => (page_torn' <=> page_torn)
  BY HistoryStays
<1>2. after \in Nat
  BY DEF RunInv, RunTypes
<1>3. LakeTypes'
  BY <1>1 DEF LakeInv, LakeTypes
<1>4. ASSUME NEW S, NEW i, NEW q \in DOMAIN truth, ReadAs(S, i, q), page_torn' <=> page_torn
      PROVE  ReadAs(S, i, q)'
  BY <1>1, <1>4 DEF ReadAs
<1>5. StageHeld'
  <2>. SUFFICES ASSUME npc \in {"page", "scan", "replace"} PROVE StageHeld'
    BY DEF StageHeld
  <2>1. /\ \A p \in stage : p[1] < after
        /\ after # 0 => snapshot_seq \in DOMAIN truth
        /\ \A i \in Slots : i < after => ReadAs(stage, i, snapshot_seq)
        /\ npc # "replace" /\ after # 0 => LiveCount(truth[snapshot_seq]) # 0
    BY DEF LakeInv, StageHeld
  <2>2. ASSUME NEW i \in Slots, i < after PROVE ReadAs(stage, i, snapshot_seq)'
    <3>1. after # 0
      BY <2>2 DEF Slots
    <3>2. ReadAs(stage, i, snapshot_seq) /\ snapshot_seq \in DOMAIN truth
      BY <2>1, <2>2, <3>1
    <3>3. page_torn' <=> page_torn
      BY <1>1, <3>1
    <3>. QED
      BY <1>1, <3>2, <3>3 DEF ReadAs
  <2>. QED
    BY <1>1, <2>1, <2>2 DEF StageHeld
<1>6. PageHeld'
  <2>. SUFFICES ASSUME npc = "scan" PROVE PageHeld'
    BY DEF PageHeld
  <2>. DEFINE q == page.header.seq
  <2>1. /\ page.after = after /\ page.slot >= after
        /\ q \in DOMAIN truth /\ q <= hdr.seq /\ page.header.count = LiveCount(truth[q])
        /\ \A p \in page.rows : after <= p[1] /\ p[1] < page.slot
        /\ hdr.seq = q /\ ~Unstable(hdr) =>
             \A i \in Slots : after <= i /\ i < page.slot => ReadAs(page.rows, i, q)
    BY DEF LakeInv, PageHeld
  <2>2. q <= hdr'.seq
    <3>1. q \in Nat /\ hdr.seq \in Nat /\ hdr'.seq \in Nat
      BY <2>1 DEF FileStep, TruthStep, TruthInv, TruthTypes, EngineFacts, TypeOK, DatTypes, Headers
    <3>. QED
      BY <2>1, <3>1, HeaderGrows
  <2>3. ASSUME hdr'.seq = q, ~Unstable(hdr'), NEW i \in Slots, after <= i /\ i < page.slot
        PROVE  ReadAs(page.rows, i, q)'
    <3>1. ReadAs(page.rows, i, q)
      BY <2>1, <2>3, StablePin
    <3>. QED
      BY <1>1, <2>1, <3>1 DEF ReadAs
  <2>. HIDE DEF q
  <2>4. q' = q
    BY DEF q
  <2>. QED
    BY <1>1, <2>1, <2>2, <2>3 DEF PageHeld, q
<1>7. SeedHeld'
  BY <1>1 DEF LakeInv, SeedHeld, CutShort
<1>8. ASSUME NEW s \in DOMAIN truth, NEW id PROVE Agrees(s, id)' <=> Agrees(s, id)
  BY <1>1, <1>8 DEF Agrees, LakeOf
<1>9. LakeHeld'
  <2>1. \A w : LakeNear(w) => LakeNear(w)'
    BY <1>1, <1>8 DEF LakeNear
  <2>2. \A w : LakeAt(w) => LakeAt(w)'
    BY <1>1, <1>8 DEF LakeAt
  <2>3. LakeMark' = LakeMark /\ Pulled' = Pulled /\ (EachOnce => EachOnce')
    BY DEF LakeMark, Pulled, EachOnce
  <2>. QED
    BY <1>1, <2>1, <2>2, <2>3 DEF LakeInv, LakeHeld
<1>10. FramesHeld'
  BY <1>1 DEF LakeInv, FramesHeld, FrameTrue
<1>11. MergeReady'
  <2>1. Pulled' = Pulled /\ watermark' = watermark
    BY DEF Pulled
  <2>. SUFFICES ASSUME npc = "merge", all_frames # <<>>, torn # "wrong"
                PROVE  \/ \A id \in Ids : \E s \in DOMAIN truth' :
                            watermark <= s /\ s <= Pulled /\ Agrees(s, id)'
                       \/ /\ Pulled + 1 \in DOMAIN truth'
                          /\ OneApart(truth'[Pulled], truth'[Pulled + 1])
                          /\ \A id \in Ids : \E s \in DOMAIN truth' :
                               watermark <= s /\ s <= Pulled + 1 /\ Agrees(s, id)'
    BY <1>1, <2>1 DEF MergeReady
  <2>2. CASE \A id \in Ids : \E s \in DOMAIN truth : watermark <= s /\ s <= Pulled /\ Agrees(s, id)
    <3>1. \A id \in Ids : \E s \in DOMAIN truth' :
            watermark <= s /\ s <= Pulled /\ Agrees(s, id)'
      BY <1>1, <1>8, <2>2
    <3>. QED
      BY <3>1
  <2>3. CASE /\ Pulled + 1 \in DOMAIN truth /\ OneApart(truth[Pulled], truth[Pulled + 1])
             /\ \A id \in Ids : \E s \in DOMAIN truth :
                  watermark <= s /\ s <= Pulled + 1 /\ Agrees(s, id)
    <3>1. \A id \in Ids : \E s \in DOMAIN truth' :
            watermark <= s /\ s <= Pulled + 1 /\ Agrees(s, id)'
      BY <1>1, <1>8, <2>3
    <3>2. Pulled \in DOMAIN truth
      BY PulledGiven DEF LakeInv
    <3>3. Pulled + 1 \in DOMAIN truth' /\ OneApart(truth'[Pulled], truth'[Pulled + 1])
      BY <1>1, <2>3, <3>2
    <3>. QED
      BY <3>1, <3>3
  <2>. QED
    BY <2>2, <2>3 DEF LakeInv, MergeReady
<1>. QED
  BY <1>3, <1>5, <1>6, <1>7, <1>9, <1>10, <1>11 DEF LakeInv

-----------------------------------------------------------------------------
(* The notebook goes on while the engine rests *)

\* A step of the notebook, with all that is known before it.
NoteStep ==
  /\ UNCHANGED vars /\ truth' = truth /\ RecordTear /\ RecordSeed
  /\ SyncFacts /\ RunInv /\ LakeInv

\* What a step of the notebook may rely on, taken apart once for all of them.
LEMMA NoteFacts ==
  ASSUME NoteStep
  PROVE  /\ UNCHANGED <<hdr, slots, wal, cdc>> /\ truth' = truth
         /\ DOMAIN truth \subseteq Nat /\ \A s \in DOMAIN truth : truth[s] \in Contents
         /\ hdr \in Headers /\ slots \in Tables /\ cdc \in Logs
         /\ RunTypes /\ LakeTypes
         /\ page.slot \in Nat /\ page.header.seq \in Nat /\ after \in Nat
         /\ page.rows \subseteq Slots \X Record
         /\ TruthInv /\ FileInv
<1>1. UNCHANGED <<hdr, slots, wal, cdc>>
  BY DEF NoteStep, vars, datVars, logVars
<1>2. TruthInv /\ FileInv /\ TypeOK
  BY DEF NoteStep, SyncFacts, TableFacts, EngineFacts
<1>3. RunTypes /\ LakeTypes /\ truth' = truth
  BY DEF NoteStep, RunInv, LakeInv
<1>4. DOMAIN truth \subseteq Nat /\ \A s \in DOMAIN truth : truth[s] \in Contents
  BY <1>2 DEF TruthInv, TruthTypes
<1>5. hdr \in Headers /\ slots \in Tables /\ cdc \in Logs
  BY <1>2 DEF TypeOK, DatTypes, LogTypes
<1>6. page.slot \in Nat /\ page.header \in Headers /\ after \in Nat
      /\ page.rows \subseteq Slots \X Record
  BY <1>3 DEF RunTypes, SnapshotPages
<1>7. page.header.seq \in Nat
  BY <1>6 DEF Headers
<1>. QED
  BY <1>1, <1>2, <1>3, <1>4, <1>5, <1>6, <1>7

\* What is true from a sequence on is true from an earlier one on.
LEMMA LakeLater ==
  ASSUME NEW w \in Nat, NEW v \in Nat, v <= w, DOMAIN truth \subseteq Nat
  PROVE  /\ LakeNear(w) => LakeNear(v)
         /\ LakeAt(w) => LakeAt(v)
         /\ LakeAt(w) => LakeNear(w)
<1>1. \A s \in DOMAIN truth : s >= w => s >= v
  OBVIOUS
<1>. QED
  BY <1>1 DEF LakeNear, LakeAt

\* A table that is left alone shows what it has shown.
LEMMA LakeStays ==
  ASSUME truth' = truth, target' = target
  PROVE  /\ \A w : (LakeNear(w)' <=> LakeNear(w)) /\ (LakeAt(w)' <=> LakeAt(w))
         /\ EachOnce => EachOnce'
         /\ \A s, id : Agrees(s, id)' <=> Agrees(s, id)
<1>1. \A s, id : Agrees(s, id)' <=> Agrees(s, id)
  BY DEF Agrees, LakeOf
<1>. QED
  BY <1>1 DEF LakeNear, LakeAt, EachOnce

\* A run that ends leaves the table at its watermark, or at the one it has just written.
LEMMA LakeEnds ==
  ASSUME NoteStep, RunOver, target' = target,
         watermark' = watermark \/ (npc = "mark" /\ watermark' = Pulled)
  PROVE  LakeInv'
<1>. USE DEF RunOver, RunLocals, SeedLocals
<1>1. /\ npc' = "idle" /\ stage' = {} /\ torn' = torn /\ page_torn' = FALSE
      /\ truth' = truth /\ DOMAIN truth \subseteq Nat
  BY NoteFacts DEF NoteStep, RecordSeed, RecordTear
<1>2. LakeTypes'
  BY <1>1, NoteFacts DEF LakeTypes
<1>3. StageHeld' /\ PageHeld' /\ SeedHeld' /\ FramesHeld' /\ MergeReady'
  BY <1>1 DEF StageHeld, PageHeld, SeedHeld, FramesHeld, MergeReady
<1>4. /\ watermark \in Nat /\ watermark' \in Nat
      /\ npc = "mark" => Pulled \in Nat /\ watermark < Pulled
  BY NoteFacts, PulledGiven DEF NoteStep, RunTypes, RunInv, LakeInv
<1>5. /\ npc = "seeded" => snapshot_seq \in Nat /\ watermark = 0
      /\ LakeMark \in Nat
  BY NoteFacts, <1>4 DEF NoteStep, LakeInv, SeedHeld, RunTypes, LakeMark
<1>6. /\ torn # "wrong" => EachOnce /\ LakeNear(LakeMark)
      /\ torn = "no" => LakeAt(IF npc = "mark" THEN Pulled ELSE LakeMark)
      /\ npc = "mark" => torn # "heals"
      /\ torn \in {"no", "heals", "wrong"}
  BY NoteFacts DEF NoteStep, LakeInv, LakeHeld, LakeTypes
<1>7. torn = "no" => LakeAt(watermark')
  <2>1. CASE npc = "mark"
    BY <1>1, <1>4, <1>6, <2>1, LakeLater
  <2>2. CASE npc # "mark"
    <3>1. watermark' <= LakeMark
      BY <1>4, <1>5, <2>2 DEF LakeMark
    <3>. QED
      BY <1>1, <1>4, <1>5, <1>6, <2>2, <3>1, LakeLater
  <2>. QED
    BY <2>1, <2>2
<1>8. torn # "wrong" => LakeNear(watermark')
  <2>1. CASE torn = "no"
    BY <1>1, <1>4, <1>7, <2>1, LakeLater
  <2>2. CASE torn = "heals"
    <3>1. npc # "mark" /\ LakeNear(LakeMark) /\ watermark' <= LakeMark
      BY <1>4, <1>5, <1>6, <2>2 DEF LakeMark
    <3>. QED
      BY <1>1, <1>4, <1>5, <3>1, LakeLater
  <2>. QED
    BY <1>6, <2>1, <2>2
<1>9. LakeHeld'
  BY <1>1, <1>6, <1>7, <1>8, LakeStays DEF LakeHeld, LakeMark
<1>. QED
  BY <1>2, <1>3, <1>9 DEF LakeInv

\* A page begins, anew or after those that have been staged.
LEMMA LakeToPage ==
  ASSUME NoteStep, npc' = "page", npc \in {"fetch", "page", "scan"}, UNCHANGED lakehouse,
         \/ after' = 0 /\ stage' = {}
         \/ npc # "fetch" /\ page' = NoPage /\ UNCHANGED <<after, stage, snapshot_seq>>
  PROVE  LakeInv'
<1>. USE DEF lakehouse
<1>1. torn' = torn /\ truth' = truth /\ LakeMark' = LakeMark
  BY NoteFacts DEF NoteStep, RecordSeed, LakeMark
<1>2. page_torn' \in BOOLEAN /\ (after' # 0 /\ page' = NoPage => (page_torn' <=> page_torn))
  <2>1. page_torn \in BOOLEAN /\ page.slot \in Nat
    BY NoteFacts DEF LakeTypes
  <2>2. page_torn' = IF after' = 0 THEN FALSE
                     ELSE page_torn \/ (npc = "scan" /\ page'.slot > page.slot /\ ~AtCommit)
    BY DEF NoteStep, RecordTear
  <2>3. page' = NoPage => ~(page'.slot > page.slot)
    BY <2>1 DEF NoPage, NewPage
  <2>. QED
    BY <2>1, <2>2, <2>3
<1>3. LakeTypes'
  BY <1>1, <1>2, NoteFacts DEF LakeTypes
<1>4. PageHeld' /\ SeedHeld' /\ FramesHeld' /\ MergeReady'
  BY DEF PageHeld, SeedHeld, FramesHeld, MergeReady
<1>5. StageHeld'
  <2>1. CASE after' = 0 /\ stage' = {}
    <3>1. ~\E i \in Slots : i < 0
      BY DEF Slots
    <3>. QED
      BY <2>1, <3>1 DEF StageHeld
  <2>2. CASE npc # "fetch" /\ page' = NoPage /\ after' # 0 /\ UNCHANGED <<after, stage, snapshot_seq>>
    <3>1. StageHeld /\ npc \in {"page", "scan"}
      BY <2>2 DEF NoteStep, LakeInv
    <3>2. \A S, i, q : ReadAs(S, i, q)' <=> ReadAs(S, i, q)
      BY <1>1, <1>2, <2>2 DEF ReadAs
    <3>3. \A i \in Slots : i < after => ReadAs(stage, i, snapshot_seq)'
      BY <2>2, <3>1, <3>2 DEF StageHeld
    <3>. QED
      BY <1>1, <2>2, <3>1, <3>3 DEF StageHeld
  <2>3. CASE after' = 0 /\ UNCHANGED <<after, stage, snapshot_seq>> /\ npc # "fetch"
    <3>1. ~\E i \in Slots : i < 0
      BY DEF Slots
    <3>2. StageHeld /\ npc \in {"page", "scan"}
      BY <2>3 DEF NoteStep, LakeInv
    <3>. QED
      BY <2>3, <3>1, <3>2 DEF StageHeld
  <2>. QED
    BY <2>1, <2>2, <2>3
<1>6. LakeHeld'
  BY <1>1, LakeStays DEF LakeHeld, NoteStep, LakeInv
<1>. QED
  BY <1>3, <1>4, <1>5, <1>6 DEF LakeInv

\* The steps of a run that leave the lakehouse as it is, or write its watermark.
LEMMA LakeRun ==
  ASSUME NoteStep,
         \/ StartRun \/ FetchRefused \/ FetchTooLarge \/ FetchReset \/ MergeNothing
         \/ Mark \/ Seeded \/ RunEnds
  PROVE  LakeInv'
<1>1. CASE FetchRefused \/ FetchTooLarge \/ MergeNothing \/ RunEnds \/ (FetchReset /\ RunOver)
  BY <1>1, LakeEnds DEF FetchRefused, FetchTooLarge, MergeNothing, RunEnds, FetchReset, lakehouse
<1>2. CASE FetchReset /\ ~RunOver
  BY <1>2, LakeToPage DEF FetchReset, FetchAnswered, SeedLocals
<1>3. CASE Mark
  <2>1. all_frames[Len(all_frames)].seq = Pulled
    BY <1>3, PulledGiven DEF Mark, NoteStep, RunInv, LakeInv
  <2>. QED
    BY <1>3, <2>1, LakeEnds DEF Mark
<1>4. CASE StartRun
  <2>1. /\ npc = "idle" /\ npc' = "fetch" /\ torn' = torn /\ page_torn' = FALSE
        /\ last_seq' = watermark' /\ UNCHANGED lakehouse /\ UNCHANGED seedVars
        /\ all_frames' = <<>>
    BY <1>4 DEF StartRun, NoteStep, RecordSeed, RecordTear, RunInv, lakehouse
  <2>2. LakeMark' = LakeMark /\ LakeMark = watermark
    BY <2>1 DEF LakeMark, lakehouse
  <2>3. LakeHeld'
    BY <2>1, <2>2, LakeStays DEF NoteStep, LakeInv, LakeHeld, lakehouse
  <2>4. LakeTypes'
    BY <2>1, NoteFacts DEF LakeTypes, lakehouse, seedVars
  <2>5. StageHeld' /\ PageHeld' /\ SeedHeld' /\ FramesHeld' /\ MergeReady'
    BY <2>1 DEF StageHeld, PageHeld, SeedHeld, FramesHeld, MergeReady
  <2>. QED
    BY <2>3, <2>4, <2>5 DEF LakeInv
<1>5. CASE Seeded
  <2>1. /\ npc = "seeded" /\ npc' = "fetch" /\ torn' = torn /\ page_torn' = FALSE
        /\ last_seq' = watermark' /\ watermark' = snapshot_seq /\ target' = target
        /\ stage' = {} /\ all_frames' = <<>>
    BY <1>5 DEF Seeded, SeedLocals, NoteStep, RecordSeed, RecordTear
  <2>2. LakeMark' = LakeMark
    BY <2>1 DEF LakeMark
  <2>3. LakeHeld'
    BY <2>1, <2>2, LakeStays DEF NoteStep, LakeInv, LakeHeld
  <2>4. LakeTypes'
    BY <2>1, NoteFacts DEF LakeTypes
  <2>5. StageHeld' /\ PageHeld' /\ SeedHeld' /\ FramesHeld' /\ MergeReady'
    BY <2>1 DEF StageHeld, PageHeld, SeedHeld, FramesHeld, MergeReady
  <2>. QED
    BY <2>3, <2>4, <2>5 DEF LakeInv
<1>. QED
  BY <1>1, <1>2, <1>3, <1>4, <1>5

\* A page that is asked for again, and a seed that begins again.
LEMMA LakeAgain ==
  ASSUME NoteStep, npc \in {"page", "scan"}, RetryPage \/ RestartSeed, UNCHANGED lakehouse
  PROVE  LakeInv'
<1>1. CASE RunOver
  BY <1>1, LakeEnds DEF lakehouse
<1>2. CASE ~RunOver /\ RetryPage
  BY <1>2, LakeToPage DEF RetryPage
<1>3. CASE ~RunOver /\ RestartSeed
  BY <1>3, LakeToPage DEF RestartSeed
<1>. QED
  BY <1>1, <1>2, <1>3

\* The first look of a page: the header speaks of a table that has been, and counts its rows.
LEMMA LakePageBegin ==
  ASSUME NoteStep, PageBegin
  PROVE  LakeInv'
<1>1. npc = "page" /\ UNCHANGED lakehouse
  BY DEF PageBegin
<1>2. CASE Unstable(hdr)
  BY <1>1, <1>2, LakeAgain DEF PageBegin
<1>3. CASE ~Unstable(hdr)
  <2>1. /\ page' = NewPage(after, hdr) /\ npc' = "scan" /\ UNCHANGED <<after, snapshot_seq, stage>>
        /\ target' = target /\ watermark' = watermark
    BY <1>3 DEF PageBegin, lakehouse
  <2>2. /\ torn' = torn /\ truth' = truth /\ page_torn \in BOOLEAN
        /\ page_torn' = (page_torn \/ FALSE)
    <3>1. page_torn' = (page_torn \/ (npc = "scan" /\ page'.slot > page.slot /\ ~AtCommit))
      BY <2>1 DEF NoteStep, RecordTear
    <3>2. ~(npc = "scan" /\ page'.slot > page.slot /\ ~AtCommit)
      BY <1>1
    <3>3. page_torn' = (page_torn \/ FALSE)
      BY <3>1, <3>2, Zenon
    <3>. QED
      BY <1>1, <2>1, <3>3, NoteFacts DEF LakeTypes, NoteStep, RecordSeed
  <2>3. \A S, i, q : ReadAs(S, i, q)' <=> ReadAs(S, i, q)
    BY <2>2 DEF ReadAs
  <2>4. LakeTypes'
    <3>1. page'.rows = {}
      BY <2>1 DEF NewPage
    <3>. QED
      BY <2>1, <2>2, <3>1, NoteFacts DEF LakeTypes
  <2>5. StageHeld'
    <3>1. StageHeld
      BY DEF NoteStep, LakeInv
    <3>2. \A i \in Slots : i < after => ReadAs(stage, i, snapshot_seq)'
      BY <1>1, <2>1, <2>3, <3>1 DEF StageHeld
    <3>. QED
      BY <1>1, <2>1, <2>2, <3>1, <3>2 DEF StageHeld
  <2>6. PageHeld'
    <3>1. /\ page'.after = after /\ page'.header = hdr /\ page'.slot = after /\ page'.rows = {}
      BY <2>1 DEF NewPage
    <3>2. hdr.seq \in DOMAIN truth /\ hdr.count = LiveCount(truth[hdr.seq])
      BY <1>3, NoteFacts DEF TruthInv, HeaderTrue, FileInv, HeaderCounts
    <3>3. hdr' = hdr /\ hdr.seq <= hdr.seq /\ after >= after
      BY <3>2, NoteFacts
    <3>4. ~\E i \in Slots : after <= i /\ i < after
      BY NoteFacts DEF Slots
    <3>. QED
      BY <2>1, <2>2, <3>1, <3>2, <3>3, <3>4 DEF PageHeld
  <2>7. SeedHeld' /\ FramesHeld' /\ MergeReady'
    BY <2>1 DEF SeedHeld, FramesHeld, MergeReady
  <2>8. LakeHeld'
    <3>1. LakeMark' = LakeMark
      BY <1>1, <2>1 DEF LakeMark
    <3>. QED
      BY <1>1, <2>1, <2>2, <3>1, LakeStays DEF LakeHeld, NoteStep, LakeInv
  <2>. QED
    BY <2>4, <2>5, <2>6, <2>7, <2>8 DEF LakeInv
<1>. QED
  BY <1>2, <1>3

\* What a slot of the file says of the table at the header's sequence.
LEMMA SlotRead ==
  ASSUME TruthInv, FileInv, ~Unstable(hdr), NEW i \in Slots
  PROVE  \/ LiveAt(slots, i) = LiveAt(truth[hdr.seq], i)
         \/ /\ hdr.seq + 1 \in DOMAIN truth /\ StayPut(truth[hdr.seq], truth[hdr.seq + 1])
            /\ LiveAt(slots, i) = LiveAt(truth[hdr.seq + 1], i)
<1>1. LiveAt(Content(slots), i) = LiveAt(slots, i)
  BY NotLive DEF LiveAt, Content
<1>2. CASE Content(slots)[i] = truth[hdr.seq][i]
  BY <1>1, <1>2 DEF LiveAt
<1>3. CASE /\ wal.marked /\ wal.frame.seq = hdr.seq + 1 /\ wal.frame.seq \in DOMAIN truth
           /\ Content(slots)[i] = truth[wal.frame.seq][i]
  <2>1. truth[wal.frame.seq] = Content(Replayed)
    BY <1>3 DEF TruthInv, CommitTrue
  <2>2. hdr.seq \in Nat
    BY DEF TruthInv, TruthTypes, HeaderTrue
  <2>3. wal.frame.seq - 1 = hdr.seq
    BY <1>3, <2>2
  <2>4. StayPut(truth[hdr.seq], truth[hdr.seq + 1])
    BY <1>3, <2>1, <2>3 DEF FileInv, CommitPut
  <2>. QED
    BY <1>1, <1>3, <2>4 DEF LiveAt
<1>. QED
  BY <1>2, <1>3 DEF FileInv, FileNear

\* The row of a slot, where there is one.
LEMMA OnlyRow ==
  ASSUME NEW S, NEW i, NEW r, {x \in S : x[1] = i} = {<<i, r>>}
  PROVE  RowAt(S, i) = {r}
<1>1. <<i, r>>[2] = r
  OBVIOUS
<1>2. {p[2] : p \in {<<i, r>>}} = {<<i, r>>[2]}
  OBVIOUS
<1>. QED
  BY <1>1, <1>2 DEF RowAt

\* One slot more: it is as the page's sequence has it, or the seed is torn.
LEMMA LakePageSlot ==
  ASSUME NoteStep, PageSlot
  PROVE  LakeInv'
<1>. DEFINE k == page.slot
            q == page.header.seq
            rec == slots[k]
<1>1. /\ npc = "scan" /\ npc' = "scan" /\ page' = WithSlot(page, rec)
      /\ UNCHANGED <<after, snapshot_seq, stage, target, watermark>>
      /\ torn' = torn /\ truth' = truth
  BY DEF PageSlot, lakehouse, NoteStep, RecordSeed
<1>2. k \in Slots /\ k \in Nat
  BY CapacityAssumption, PageAssumption
  DEF PageSlot, ScanEnds, Smaller, NoteStep, RunInv, RunTypes, SnapshotPages, Slots
<1>3. /\ page'.after = page.after /\ page'.header = page.header /\ page'.slot = k + 1
      /\ page'.rows = IF Live(rec) THEN page.rows \cup {<<k, rec>>} ELSE page.rows
  BY <1>1 DEF WithSlot, NoteStep, RunInv, RunTypes, SnapshotPages
<1>4. page_torn' = (page_torn \/ ~AtCommit)
  <2>1. page'.slot > page.slot
    BY <1>2, <1>3
  <2>2. page_torn' = (page_torn \/ (npc = "scan" /\ page'.slot > page.slot /\ ~AtCommit))
    BY <1>1 DEF NoteStep, RecordTear
  <2>. QED
    BY <1>1, <2>1, <2>2
<1>5. /\ StageHeld /\ PageHeld /\ LakeTypes /\ LakeHeld
      /\ hdr' = hdr /\ TruthInv /\ FileInv /\ q \in Nat /\ after \in Nat /\ slots \in Tables
      /\ page.rows \subseteq Slots \X Record
  BY NoteFacts DEF NoteStep, LakeInv
<1>6. \A S, i, s : ReadAs(S, i, s) => ReadAs(S, i, s)'
  BY <1>1, <1>4 DEF ReadAs
<1>7. LakeTypes'
  <2>1. \A p \in page'.rows : Live(p[2])
    BY <1>1, <1>3, <1>5 DEF LakeTypes
  <2>2. page_torn' \in BOOLEAN
    BY <1>4
  <2>. QED
    BY <1>1, <1>5, <2>1, <2>2 DEF LakeTypes
<1>8. StageHeld'
  <2>1. \A i \in Slots : i < after => ReadAs(stage, i, snapshot_seq)'
    BY <1>1, <1>5, <1>6 DEF StageHeld
  <2>. QED
    BY <1>1, <1>5, <2>1 DEF StageHeld
<1>9. PageHeld'
  <2>1. /\ page.after = after /\ k >= after
        /\ q \in DOMAIN truth /\ q <= hdr.seq /\ page.header.count = LiveCount(truth[q])
        /\ \A p \in page.rows : after <= p[1] /\ p[1] < k
        /\ hdr.seq = q /\ ~Unstable(hdr) =>
             \A i \in Slots : after <= i /\ i < k => ReadAs(page.rows, i, q)
    BY <1>1, <1>5 DEF PageHeld
  <2>. HIDE DEF k, q, rec
  <2>2. \A i \in Slots : i # k => RowAt(page'.rows, i) = RowAt(page.rows, i)
    BY <1>3 DEF RowAt
  <2>3. RowAt(page'.rows, k) = LiveAt(slots, k)
    <3>1. ~\E p \in page.rows : p[1] = k
      <4>1. \A p \in page.rows : p[1] \in Nat
        BY <1>5 DEF Slots
      <4>. QED
        BY <1>2, <2>1, <4>1
    <3>2. CASE Live(rec)
      <4>1. \A x : x \in page'.rows <=> x \in page.rows \/ x = <<k, rec>>
        BY <1>3, <3>2
      <4>2. {x \in page'.rows : x[1] = k} = {<<k, rec>>}
        BY <3>1, <4>1
      <4>3. RowAt(page'.rows, k) = {rec}
        BY <4>2, OnlyRow
      <4>4. LiveAt(slots, k) = {rec}
        BY <3>2 DEF LiveAt, rec
      <4>. QED
        BY <4>3, <4>4
    <3>3. CASE ~Live(rec)
      BY <1>3, <3>1, <3>3 DEF RowAt, LiveAt, rec
    <3>. QED
      BY <3>2, <3>3
  <2>4. \A p \in page'.rows : after <= p[1] /\ p[1] < k + 1
    <3>1. \A p \in page.rows : p[1] \in Nat
      BY <1>5 DEF Slots
    <3>2. \A p \in page'.rows : p \in page.rows \/ p = <<k, rec>>
      BY <1>3
    <3>. QED
      BY <1>2, <1>5, <2>1, <3>1, <3>2
  <2>5. ASSUME hdr.seq = q, ~Unstable(hdr), NEW i \in Slots, after <= i, i < k + 1
        PROVE  ReadAs(page.rows, i, page.header.seq)'
    <3>0. /\ RowAt(page.rows, i)' = RowAt(page'.rows, i) /\ page'.header.seq = q
          /\ LiveAt(truth[q], i) = LiveAt(truth'[page'.header.seq], i)
      BY <1>1, <1>3 DEF RowAt, q
    <3>1. CASE i # k
      <4>1. i < k
        BY <1>2, <2>5, <3>1 DEF Slots
      <4>2. ReadAs(page.rows, i, q)
        BY <2>1, <2>5, <4>1
      <4>. QED
        BY <1>1, <1>4, <2>2, <3>0, <3>1, <4>2 DEF ReadAs
    <3>2. CASE i = k
      <4>1. CASE LiveAt(slots, k) = LiveAt(truth[q], k)
        BY <1>1, <2>3, <3>0, <3>2, <4>1 DEF ReadAs
      <4>2. CASE LiveAt(slots, k) # LiveAt(truth[q], k)
        <5>1. ~AtCommit
          <6>1. LiveAt(Content(slots), k) = LiveAt(slots, k)
            BY <1>2, NotLive DEF LiveAt, Content
          <6>. QED
            BY <4>2, <6>1 DEF AtCommit, q
        <5>2. /\ q + 1 \in DOMAIN truth /\ StayPut(truth[q], truth[q + 1])
              /\ LiveAt(slots, k) = LiveAt(truth[q + 1], k)
          BY <1>2, <1>5, <2>5, <4>2, SlotRead
        <5>. QED
          BY <1>1, <1>4, <2>3, <3>0, <3>2, <5>1, <5>2 DEF ReadAs
      <4>. QED
        BY <4>1, <4>2
    <3>. QED
      BY <3>1, <3>2
  <2>6. page'.header.seq = q /\ page'.header.count = page.header.count
    BY <1>3 DEF q
  <2>7. page'.slot = k + 1 /\ k + 1 >= after /\ page'.after = after'
    BY <1>1, <1>2, <1>3, <1>5, <2>1
  <2>. QED
    BY <1>1, <1>5, <2>1, <2>4, <2>5, <2>6, <2>7 DEF PageHeld
<1>10. SeedHeld' /\ FramesHeld' /\ MergeReady'
  BY <1>1 DEF SeedHeld, FramesHeld, MergeReady
<1>11. LakeHeld'
  <2>1. LakeMark' = LakeMark
    BY <1>1 DEF LakeMark
  <2>. QED
    BY <1>1, <1>5, <2>1, LakeStays DEF LakeHeld
<1>. QED
  BY <1>7, <1>8, <1>9, <1>10, <1>11 DEF LakeInv

\* The row read from a slot is the row it is in some table, so there are not two.
Single(S) == \A p, r \in S : p[1] = r[1] => p = r
\* Where each slot was read as one table or another has it, no slot was read twice.
LEMMA ReadSingle ==
  ASSUME NEW S, S \subseteq Slots \X Record,
         \A p \in S : \E t : RowAt(S, p[1]) = LiveAt(t, p[1])
  PROVE  Single(S)
<1>. SUFFICES ASSUME NEW p \in S, NEW r \in S, p[1] = r[1] PROVE p = r
  BY DEF Single
<1>1. PICK t : RowAt(S, p[1]) = LiveAt(t, p[1])
  OBVIOUS
<1>2. p[2] \in RowAt(S, p[1]) /\ r[2] \in RowAt(S, p[1])
  BY DEF RowAt
<1>3. p[2] = r[2]
  BY <1>1, <1>2 DEF LiveAt
<1>4. p \in Slots \X Record /\ r \in Slots \X Record
  OBVIOUS
<1>. QED
  BY <1>3, <1>4

\* Rows of different slots are as many as their slots.
LEMMA OnePerSlot ==
  ASSUME NEW S, S \subseteq Slots \X Record, Single(S)
  PROVE  /\ IsFiniteSet(S) /\ Cardinality(S) \in Nat
         /\ Cardinality(S) = Cardinality({p[1] : p \in S})
<1>. DEFINE F == {p[1] : p \in S}
            f == [p \in S |-> p[1]]
<1>1. F \in SUBSET Slots
  OBVIOUS
<1>2. IsFiniteSet(F)
  BY <1>1, SlotsFinite, FS_Subset
<1>3. f \in [S -> F] /\ \A p, r \in S : f[p] = f[r] => p = r
  BY DEF Single
<1>4. \A i \in F : \E p \in S : f[p] = i
  OBVIOUS
<1>. HIDE DEF f, F
<1>5. f \in Bijection(S, F)
  BY <1>3, <1>4, Fun_IsBij
<1>6. ExistsBijection(F, S)
  BY <1>5, Fun_ExistsBij, Fun_ExistsBijSymmetric
<1>7. IsFiniteSet(S) /\ Cardinality(S) = Cardinality(F)
  BY <1>2, <1>6, FS_Bijection
<1>. QED
  BY <1>7, FS_CardinalityType DEF F

\* A page that found as many rows of a table as the table has left none out.
LEMMA WholeRead ==
  ASSUME NEW t, NEW S, S \subseteq Slots \X Record, NEW k \in Nat,
         \A p \in S : p[1] < k,
         \A i \in Slots : i < k => RowAt(S, i) = LiveAt(t, i),
         Cardinality(S) >= LiveCount(t)
  PROVE  \A i \in Slots : i >= k => ~Live(t[i])
<1>. DEFINE K == {p[1] : p \in S}
            L == LiveSlots(t)
<1>1. Single(S)
  BY ReadSingle
<1>2. Cardinality(S) = Cardinality(K) /\ Cardinality(S) \in Nat
  BY <1>1, OnePerSlot
<1>3. K \in SUBSET L
  <2>1. ASSUME NEW p \in S PROVE p[1] \in L
    <3>1. p[1] \in Slots /\ p[2] \in RowAt(S, p[1])
      BY DEF RowAt
    <3>2. p[2] \in LiveAt(t, p[1])
      BY <3>1
    <3>. QED
      BY <3>1, <3>2 DEF LiveAt, LiveSlots
  <2>. QED
    BY <2>1
<1>4. IsFiniteSet(L) /\ Cardinality(L) = LiveCount(t) /\ LiveCount(t) \in Nat
  BY LiveSlotsFinite DEF LiveCount
<1>5. L = K
  <2>. HIDE DEF K, L
  <2>1. Cardinality(K) <= Cardinality(L)
    BY <1>3, <1>4, FS_Subset
  <2>2. Cardinality(L) = Cardinality(K)
    BY <1>2, <1>4, <2>1
  <2>. QED
    BY <1>3, <1>4, <2>2, FS_Subset
<1>6. ASSUME NEW i \in Slots, i >= k, Live(t[i]) PROVE FALSE
  <2>1. i \in K
    BY <1>5, <1>6 DEF LiveSlots
  <2>2. i < k
    BY <2>1
  <2>. QED
    BY <1>6, <2>2 DEF Slots
<1>. QED
  BY <1>6

\* The page is good: its rows are those that the table of its sequence has in their slots.
LEMMA LakePageGood ==
  ASSUME NoteStep, npc = "scan", UNCHANGED <<lakehouse, page>>,
         hdr.seq = page.header.seq, ~Unstable(hdr), snapshot_seq \in {NoSeq, page.header.seq},
         snapshot_seq' = page.header.seq, stage' = stage \cup page.rows, after' = page.slot,
         npc' = IF HasMoreRows(page) THEN "page" ELSE "replace"
  PROVE  LakeInv'
<1>. DEFINE q == page.header.seq
            k == page.slot
<1>1. /\ torn' = torn /\ truth' = truth /\ target' = target /\ watermark' = watermark
      /\ page' = page /\ npc' \in {"page", "replace"}
  BY DEF NoteStep, RecordSeed, lakehouse
<1>2. /\ page.after = after /\ k >= after /\ q \in DOMAIN truth
      /\ page.header.count = LiveCount(truth[q])
      /\ \A p \in page.rows : after <= p[1] /\ p[1] < k
      /\ \A i \in Slots : after <= i /\ i < k => ReadAs(page.rows, i, q)
  BY DEF NoteStep, LakeInv, PageHeld
<1>3. /\ \A p \in stage : p[1] < after
      /\ after # 0 => snapshot_seq \in DOMAIN truth
      /\ \A i \in Slots : i < after => ReadAs(stage, i, snapshot_seq)
      /\ after # 0 => LiveCount(truth[snapshot_seq]) # 0
  BY DEF NoteStep, LakeInv, StageHeld
<1>4. /\ DOMAIN truth \subseteq Nat /\ q \in Nat /\ k \in Nat /\ after \in Nat
      /\ page.rows \subseteq Slots \X Record /\ stage \subseteq Slots \X Record
      /\ page_torn \in BOOLEAN /\ (\A p \in page.rows : Live(p[2])) /\ LakeTypes
  BY NoteFacts DEF LakeTypes
<1>5. after # 0 => snapshot_seq = q
  <2>1. NoSeq \notin Nat
    BY DEF NoSeq
  <2>. QED
    BY <1>3, <1>4, <2>1
<1>6. npc' # "page" \/ k # 0 => (page_torn' <=> page_torn)
  <2>1. page_torn' = IF npc' = "page" /\ k = 0 THEN FALSE
                     ELSE page_torn \/ (npc = "scan" /\ page'.slot > page.slot /\ ~AtCommit)
    BY <1>1 DEF NoteStep, RecordTear
  <2>2. ~(page'.slot > page.slot)
    BY <1>1, <1>4
  <2>. QED
    BY <1>4, <2>1, <2>2
<1>7. page_torn' \in BOOLEAN
  BY <1>1, <1>4, <1>6 DEF NoteStep, RecordTear
<1>. HIDE DEF q, k
<1>8. LakeTypes'
  <2>1. stage' \subseteq Slots \X Record /\ \A p \in stage' : Live(p[2])
    BY <1>4 DEF LakeTypes
  <2>. QED
    BY <1>1, <1>4, <1>7, <2>1 DEF LakeTypes
<1>9. ASSUME NEW i \in Slots, i < k PROVE ReadAs(stage', i, q)
  <2>0. i \in Nat /\ \A p \in stage \cup page.rows : p[1] \in Nat
    BY <1>4 DEF Slots
  <2>1. CASE i < after
    <3>1. ReadAs(stage, i, q)
      BY <1>3, <1>4, <1>5, <2>0, <2>1
    <3>2. \A p \in page.rows : p[1] # i
      BY <1>2, <1>4, <2>0, <2>1
    <3>3. RowAt(stage', i) = RowAt(stage, i)
      BY <3>2 DEF RowAt
    <3>. QED
      BY <3>1, <3>3 DEF ReadAs
  <2>2. CASE after <= i
    <3>1. ReadAs(page.rows, i, q)
      BY <1>2, <1>9, <2>2
    <3>2. \A p \in stage : p[1] # i
      BY <1>3, <1>4, <2>0, <2>2
    <3>3. RowAt(stage', i) = RowAt(page.rows, i)
      BY <3>2 DEF RowAt
    <3>. QED
      BY <3>1, <3>3 DEF ReadAs
  <2>. QED
    BY <1>4, <2>0, <2>1, <2>2
<1>10. snapshot_seq' = q /\ after' = k
  BY DEF q, k
<1>11. StageHeld'
  <2>1. \A p \in stage' : p[1] < k
    <3>1. \A p \in stage \cup page.rows : p[1] \in Nat
      BY <1>4 DEF Slots
    <3>. QED
      BY <1>2, <1>3, <1>4, <3>1
  <2>2. ASSUME NEW i \in Slots, i < k PROVE ReadAs(stage, i, snapshot_seq)'
    <3>1. page_torn' <=> page_torn
      BY <1>4, <1>6, <2>2 DEF Slots
    <3>2. ReadAs(stage', i, q)
      BY <1>9, <2>2
    <3>. QED
      BY <1>1, <1>10, <3>1, <3>2 DEF ReadAs
  <2>3. npc' # "replace" => LiveCount(truth[q]) # 0
    BY <1>2 DEF HasMoreRows
  <2>. QED
    BY <1>1, <1>2, <1>10, <2>1, <2>2, <2>3 DEF StageHeld
<1>12. SeedHeld'
  <2>. SUFFICES ASSUME npc' = "replace"
                PROVE  /\ ~page_torn => \A i \in Slots : i >= k => ~Live(truth[q][i])
                       /\ page_torn /\ ~CutShort => k >= Capacity
    <3>1. CASE npc' # "replace"
      BY <1>1, <3>1 DEF SeedHeld
    <3>2. CASE npc' = "replace"
      <4>1. page_torn' <=> page_torn
        BY <1>6, <3>2
      <4>. QED
        BY <1>1, <1>2, <1>10, <3>2, <4>1 DEF SeedHeld, CutShort
    <3>. QED
      BY <3>1, <3>2
  <2>0. LiveCount(truth[q]) \in Nat /\ (LiveCount(truth[q]) = 0 => LiveSlots(truth[q]) = {})
        /\ Capacity \in Nat
    BY LiveSlotsFinite, CapacityAssumption
  <2>1. page.header.count = 0 \/ k >= Capacity \/ FoundAll(page)
    <3>1. ~HasMoreRows(page)
      OBVIOUS
    <3>. QED
      BY <1>4, <2>0, <3>1 DEF HasMoreRows, k
  <2>2. Cardinality(page.rows) \in Nat
    <3>1. ASSUME NEW p \in page.rows PROVE \E t : RowAt(page.rows, p[1]) = LiveAt(t, p[1])
      <4>1. ReadAs(page.rows, p[1], q)
        BY <1>2, <1>4
      <4>. QED
        BY <4>1 DEF ReadAs
    <3>2. Single(page.rows)
      BY <1>4, <3>1, ReadSingle
    <3>. QED
      BY <1>4, <3>2, OnePerSlot
  <2>3. ASSUME ~page_torn, NEW i \in Slots, i >= k PROVE ~Live(truth[q][i])
    <3>1. CASE page.header.count = 0
      BY <1>2, <2>0, <3>1 DEF LiveSlots
    <3>2. CASE k >= Capacity
      BY <1>4, <2>0, <2>3, <3>2 DEF Slots
    <3>3. CASE FoundAll(page)
      <4>1. after = 0 /\ Cardinality(page.rows) >= LiveCount(truth[q])
        BY <1>2, <3>3 DEF FoundAll
      <4>2. \A j \in Slots : j < k => RowAt(page.rows, j) = LiveAt(truth[q], j)
        <5>1. \A j \in Slots : after <= j
          BY <4>1 DEF Slots
        <5>. QED
          BY <1>2, <2>3, <5>1 DEF ReadAs
      <4>. QED
        BY <1>2, <1>4, <2>3, <4>1, <4>2, WholeRead
    <3>. QED
      BY <2>1, <3>1, <3>2, <3>3
  <2>4. ASSUME page_torn, ~CutShort, k < Capacity PROVE FALSE
    <3>1. ~FoundAll(page)
      BY <2>4 DEF CutShort, k
    <3>2. page.header.count = 0
      BY <1>4, <2>0, <2>1, <2>4, <3>1
    <3>3. after = 0
      BY <1>2, <1>3, <1>5, <3>2
    <3>. QED
      BY <1>2, <2>2, <3>1, <3>2, <3>3 DEF FoundAll
  <2>. QED
    BY <1>4, <2>0, <2>3, <2>4
<1>13. PageHeld' /\ FramesHeld' /\ MergeReady'
  BY <1>1 DEF PageHeld, FramesHeld, MergeReady
<1>14. LakeHeld'
  <2>1. LakeMark' = LakeMark
    BY <1>1 DEF LakeMark
  <2>. QED
    BY <1>1, <2>1, LakeStays DEF LakeHeld, NoteStep, LakeInv
<1>. QED
  BY <1>8, <1>11, <1>12, <1>13, <1>14 DEF LakeInv

\* A page that is accepted joins the stage: its slots were read as its sequence has them.
LEMMA LakePageEnd ==
  ASSUME NoteStep, PageEnd
  PROVE  LakeInv'
<1>1. npc = "scan" /\ UNCHANGED lakehouse
  BY DEF PageEnd
<1>2. CASE RestartSeed \/ RetryPage
  BY <1>1, <1>2, LakeAgain
<1>3. CASE ~(RestartSeed \/ RetryPage)
  <2>1. /\ PageAnswer(page, hdr) \notin {"snapshot_moved", "snapshot_unstable"}
        /\ snapshot_seq \in {NoSeq, page.header.seq}
        /\ snapshot_seq' = page.header.seq /\ stage' = stage \cup page.rows /\ after' = page.slot
        /\ npc' = IF HasMoreRows(page) THEN "page" ELSE "replace"
        /\ page' = page
    BY <1>3 DEF PageEnd
  <2>2. hdr.seq = page.header.seq /\ ~Unstable(hdr)
    BY <2>1 DEF PageAnswer
  <2>. QED
    BY <1>1, <2>1, <2>2, LakePageGood
<1>. QED
  BY <1>2, <1>3

\* A row of the lakehouse that a seed puts there.
SeedRow(p) == LakeRow(p[2].id, p[1], p[2])

\* The table that replaces the lakehouse's shows the staged rows.
LEMMA SeededRows ==
  ASSUME LakeTypes, target' = {SeedRow(p) : p \in stage}
  PROVE  /\ target' \subseteq [id : Ids, copy : Nat, image : Record]
         /\ \A r \in target' : Live(r.image) => r.image.id = r.id
         /\ \A id, x : x \in LakeOf(id)' <=> \E p \in stage : p[2].id = id /\ x = p[2]
<1>1. \A p \in stage : p[1] \in Nat /\ p[2] \in Record /\ p[2].id \in Ids /\ Live(p[2])
  <2>. SUFFICES ASSUME NEW p \in stage
                PROVE  p[1] \in Nat /\ p[2] \in Record /\ p[2].id \in Ids /\ Live(p[2])
    OBVIOUS
  <2>1. p[1] \in Slots /\ p[2] \in Record /\ Live(p[2])
    BY DEF LakeTypes
  <2>2. p[2] \in Rows
    BY <2>1, NotLive DEF Record
  <2>. QED
    BY <2>1, <2>2 DEF Rows, Slots
<1>2. \A p \in stage : SeedRow(p) \in [id : Ids, copy : Nat, image : Record]
  BY <1>1 DEF SeedRow, LakeRow
<1>3. \A p : SeedRow(p).id = p[2].id /\ SeedRow(p).image = p[2]
  BY DEF SeedRow, LakeRow
<1>4. ASSUME NEW id, NEW x
      PROVE  x \in LakeOf(id)' <=> \E p \in stage : p[2].id = id /\ x = p[2]
  <2>1. x \in LakeOf(id)' <=> \E r \in target' : r.id = id /\ Live(r.image) /\ x = r.image
    BY DEF LakeOf
  <2>2. (\E r \in target' : r.id = id /\ Live(r.image) /\ x = r.image)
          <=> \E p \in stage : p[2].id = id /\ Live(p[2]) /\ x = p[2]
    BY <1>3
  <2>. QED
    BY <1>1, <2>1, <2>2
<1>. QED
  BY <1>2, <1>3, <1>4

\* The rows of a content, slot by slot.
LEMMA RowsBySlot ==
  ASSUME NEW c, NEW id, NEW x
  PROVE  x \in RowsWith(RowsOf(c), id) <=> \E i \in Slots : x \in LiveAt(c, i) /\ x.id = id
BY DEF RowsWith, RowsOf, LiveSlots, LiveAt

\* A seed that was not torn is the table of its sequence ...
LEMMA WholeSeed ==
  ASSUME NoteStep, npc = "replace", ~page_torn, target' = {SeedRow(p) : p \in stage}
  PROVE  EachOnce' /\ \A id : LakeOf(id)' = RowsWith(RowsOf(truth[snapshot_seq]), id)
<1>. DEFINE t == truth[snapshot_seq]
<1>1. /\ stage \subseteq Slots \X Record /\ LakeTypes /\ after \in Nat
      /\ \A p \in stage : p[1] < after
      /\ \A i \in Slots : i < after => ReadAs(stage, i, snapshot_seq)
      /\ \A i \in Slots : i >= after => ~Live(t[i])
      /\ Placed(t)
  <2>1. StageHeld /\ SeedHeld /\ TruthPlaced
    BY NoteFacts DEF NoteStep, LakeInv, FileInv
  <2>. QED
    BY <2>1, NoteFacts DEF LakeTypes, StageHeld, SeedHeld, TruthPlaced
<1>. HIDE DEF t
<1>2. ASSUME NEW i \in Slots PROVE RowAt(stage, i) = LiveAt(t, i)
  <2>1. CASE i < after
    BY <1>1, <2>1 DEF ReadAs, t
  <2>2. CASE i >= after
    <3>1. \A p \in stage : p[1] # i
      BY <1>1, <2>2 DEF Slots
    <3>2. RowAt(stage, i) = {}
      BY <3>1 DEF RowAt
    <3>. QED
      BY <1>1, <2>2, <3>2 DEF LiveAt
  <2>. QED
    BY <1>1, <2>1, <2>2 DEF Slots
<1>3. ASSUME NEW id PROVE LakeOf(id)' = RowsWith(RowsOf(t), id)
  <2>. SUFFICES ASSUME NEW x PROVE x \in LakeOf(id)' <=> x \in RowsWith(RowsOf(t), id)
    OBVIOUS
  <2>1. x \in LakeOf(id)' <=> \E p \in stage : p[2].id = id /\ x = p[2]
    BY <1>1, SeededRows
  <2>2. x \in RowsWith(RowsOf(t), id) <=> \E i \in Slots : x \in RowAt(stage, i) /\ x.id = id
    BY <1>2, RowsBySlot
  <2>3. (\E p \in stage : p[2].id = id /\ x = p[2])
          <=> \E i \in Slots : x \in RowAt(stage, i) /\ x.id = id
    <3>1. \A p \in stage : p[1] \in Slots
      BY <1>1
    <3>. QED
      BY <3>1 DEF RowAt
  <2>. QED
    BY <2>1, <2>2, <2>3
<1>4. ASSUME NEW p \in stage, NEW r \in stage, p[2].id = r[2].id PROVE p = r
  <2>1. p[1] \in Slots /\ r[1] \in Slots /\ p[2] \in RowAt(stage, p[1]) /\ r[2] \in RowAt(stage, r[1])
        /\ p \in Slots \X Record /\ r \in Slots \X Record
    BY <1>1 DEF RowAt
  <2>2. p[2] \in LiveAt(t, p[1]) /\ r[2] \in LiveAt(t, r[1])
    BY <1>2, <2>1
  <2>3. /\ p[1] \in LiveSlots(t) /\ t[p[1]] = p[2]
        /\ r[1] \in LiveSlots(t) /\ t[r[1]] = r[2]
    BY <2>1, <2>2 DEF LiveAt, LiveSlots
  <2>4. p[1] = r[1]
    BY <1>1, <1>4, <2>3 DEF Placed
  <2>. QED
    BY <2>1, <2>3, <2>4
<1>5. EachOnce'
  <2>1. \A p : SeedRow(p).id = p[2].id
    BY DEF SeedRow, LakeRow
  <2>. QED
    BY <1>4, <2>1 DEF EachOnce
<1>. QED
  BY <1>3, <1>5 DEF t

\* ... and of one that heals, each row is as its sequence or the next left it.
LEMMA TornSeed ==
  ASSUME NoteStep, npc = "replace", page_torn, ~CutShort, ~RowTwice,
         target' = {SeedRow(p) : p \in stage}
  PROVE  /\ EachOnce'
         /\ \A id : \E s \in DOMAIN truth :
              s >= snapshot_seq /\ LakeOf(id)' = RowsWith(RowsOf(truth[s]), id)
<1>. DEFINE q == snapshot_seq
<1>1. /\ stage \subseteq Slots \X Record /\ LakeTypes /\ after \in Nat
      /\ \A i \in Slots : i < after => ReadAs(stage, i, q)
      /\ q \in DOMAIN truth /\ after >= Capacity
      /\ DOMAIN truth \subseteq Nat /\ \A s \in DOMAIN truth : Placed(truth[s])
  <2>1. StageHeld /\ SeedHeld /\ TruthPlaced
    BY NoteFacts DEF NoteStep, LakeInv, FileInv
  <2>. QED
    BY <2>1, NoteFacts DEF LakeTypes, StageHeld, SeedHeld, TruthPlaced
<1>. HIDE DEF q
<1>2. ASSUME NEW i \in Slots PROVE ReadAs(stage, i, q)
  <2>1. i < after
    BY <1>1, CapacityAssumption DEF Slots
  <2>. QED
    BY <1>1, <2>1
<1>3. \A p, r \in stage : p[2].id = r[2].id => p = r
  BY DEF RowTwice
<1>4. EachOnce'
  <2>1. \A p : SeedRow(p).id = p[2].id
    BY DEF SeedRow, LakeRow
  <2>. QED
    BY <1>3, <2>1 DEF EachOnce
<1>5. ASSUME NEW id
      PROVE  \E s \in DOMAIN truth : s >= q /\ LakeOf(id)' = RowsWith(RowsOf(truth[s]), id)
  <2>0. \A x : x \in LakeOf(id)' <=> \E p \in stage : p[2].id = id /\ x = p[2]
    BY <1>1, SeededRows
  <2>1. CASE \E p \in stage : p[2].id = id
    <3>1. PICK p \in stage : p[2].id = id
      BY <2>1
    <3>2. LakeOf(id)' = {p[2]}
      BY <1>3, <2>0, <3>1
    <3>3. p[1] \in Slots /\ p[2] \in RowAt(stage, p[1])
      BY <1>1 DEF RowAt
    <3>4. PICK s \in {q, q + 1} : s \in DOMAIN truth /\ RowAt(stage, p[1]) = LiveAt(truth[s], p[1])
      BY <1>1, <1>2, <3>3 DEF ReadAs
    <3>5. p[2] \in LiveAt(truth[s], p[1])
      BY <3>3, <3>4
    <3>6. p[1] \in LiveSlots(truth[s]) /\ truth[s][p[1]] = p[2]
      BY <3>3, <3>5 DEF LiveAt, LiveSlots
    <3>7. RowsWith(RowsOf(truth[s]), id) = {p[2]}
      <4>1. \A i \in LiveSlots(truth[s]) : truth[s][i].id = id => i = p[1]
        BY <1>1, <3>1, <3>4, <3>6 DEF Placed
      <4>2. \A x : x \in RowsWith(RowsOf(truth[s]), id)
                     <=> \E i \in LiveSlots(truth[s]) : x = truth[s][i] /\ truth[s][i].id = id
        BY DEF RowsWith, RowsOf
      <4>3. ASSUME NEW x PROVE x \in RowsWith(RowsOf(truth[s]), id) <=> x = p[2]
        BY <3>1, <3>6, <4>1, <4>2
      <4>. QED
        BY <4>3
    <3>8. s >= q
      BY <1>1, <3>4
    <3>. QED
      BY <3>2, <3>4, <3>7, <3>8
  <2>2. CASE ~\E p \in stage : p[2].id = id
    <3>1. LakeOf(id)' = {}
      BY <2>0, <2>2
    <3>2. \A i \in Slots : \A x : x \in RowAt(stage, i) => x.id # id
      BY <2>2 DEF RowAt
    <3>3. CASE RowsWith(RowsOf(truth[q]), id) = {}
      BY <1>1, <3>1, <3>3
    <3>4. CASE RowsWith(RowsOf(truth[q]), id) # {}
      <4>1. PICK i \in Slots : Live(truth[q][i]) /\ truth[q][i].id = id
        BY <3>4 DEF RowsWith, RowsOf, LiveSlots
      <4>2. truth[q][i] \in LiveAt(truth[q], i)
        BY <4>1 DEF LiveAt
      <4>3. /\ q + 1 \in DOMAIN truth /\ StayPut(truth[q], truth[q + 1])
            /\ RowAt(stage, i) = LiveAt(truth[q + 1], i)
        BY <1>2, <3>2, <4>1, <4>2 DEF ReadAs
      <4>4. ~\E j \in LiveSlots(truth[q + 1]) : truth[q + 1][j].id = id
        <5>. SUFFICES ASSUME NEW j \in LiveSlots(truth[q + 1]), truth[q + 1][j].id = id
                      PROVE  FALSE
          OBVIOUS
        <5>1. i = j
          BY <4>1, <4>3 DEF StayPut, LiveSlots
        <5>2. truth[q + 1][j] \in LiveAt(truth[q + 1], i)
          BY <5>1 DEF LiveAt, LiveSlots
        <5>. QED
          BY <3>2, <4>3, <5>2
      <4>5. RowsWith(RowsOf(truth[q + 1]), id) = {}
        BY <4>4 DEF RowsWith, RowsOf
      <4>6. q + 1 >= q
        BY <1>1
      <4>. QED
        BY <3>1, <4>3, <4>5, <4>6
    <3>. QED
      BY <3>3, <3>4
  <2>. QED
    BY <2>1, <2>2
<1>. QED
  BY <1>4, <1>5 DEF q

\* The replacement of the table.
LEMMA LakeReplace ==
  ASSUME NoteStep, Replace
  PROVE  LakeInv'
<1>1. /\ npc = "replace" /\ npc' = "seeded" /\ watermark' = 0 /\ snapshot_seq' = snapshot_seq
      /\ stage' = stage /\ page' = page
      /\ target' = {SeedRow(p) : p \in stage} /\ truth' = truth
  BY NoteFacts DEF Replace, seedVars, SeedRow
<1>2. /\ torn' = IF ~page_torn THEN "no" ELSE IF CutShort \/ RowTwice THEN "wrong" ELSE "heals"
      /\ page_torn' = FALSE
  BY <1>1 DEF NoteStep, RecordSeed, RecordTear
<1>3. LakeTypes'
  BY <1>1, <1>2, NoteFacts, SeededRows DEF LakeTypes
<1>4. StageHeld' /\ PageHeld' /\ SeedHeld' /\ FramesHeld' /\ MergeReady'
  BY <1>1 DEF StageHeld, PageHeld, SeedHeld, FramesHeld, MergeReady
<1>5. snapshot_seq \in DOMAIN truth /\ snapshot_seq \in Nat
  BY <1>1, NoteFacts DEF NoteStep, LakeInv, SeedHeld
<1>6. \A s, id : Agrees(s, id)' <=> LakeOf(id)' = RowsWith(RowsOf(truth[s]), id)
  BY <1>1 DEF Agrees
<1>7. LakeMark' = snapshot_seq
  BY <1>1 DEF LakeMark
<1>8. CASE ~page_torn
  <2>1. torn' = "no" /\ EachOnce' /\ \A id : Agrees(snapshot_seq, id)'
    BY <1>1, <1>2, <1>6, <1>8, WholeSeed
  <2>2. snapshot_seq >= snapshot_seq
    BY <1>5
  <2>3. LakeAt(snapshot_seq)' /\ LakeNear(snapshot_seq)'
    BY <1>1, <1>5, <2>1, <2>2 DEF LakeAt, LakeNear
  <2>. QED
    BY <1>1, <1>3, <1>4, <1>7, <2>1, <2>3 DEF LakeInv, LakeHeld
<1>9. CASE page_torn /\ ~(CutShort \/ RowTwice)
  <2>1. torn' = "heals" /\ EachOnce'
        /\ \A id : \E s \in DOMAIN truth : s >= snapshot_seq /\ Agrees(s, id)'
    BY <1>1, <1>2, <1>6, <1>9, TornSeed
  <2>2. LakeNear(snapshot_seq)'
    BY <1>1, <2>1 DEF LakeNear
  <2>. QED
    BY <1>1, <1>3, <1>4, <1>7, <2>1, <2>2 DEF LakeInv, LakeHeld
<1>10. CASE page_torn /\ (CutShort \/ RowTwice)
  BY <1>2, <1>3, <1>4, <1>10 DEF LakeInv, LakeHeld
<1>. QED
  BY <1>8, <1>9, <1>10

\* What is left of the engine's knowledge of a sequence that the log has not told.
LEMMA LastTold ==
  ASSUME SyncFacts, cdc.there, NEW s \in DOMAIN truth, NEW n \in Nat, LastSeq(cdc) <= n, s > n,
         "nolog" \notin Faults \/ "BEGIN" \notin Commands
  PROVE  s = n + 1 /\ OneApart(truth[n], truth[n + 1])
<1>1. /\ TypeOK /\ SeqInv /\ TruthBound /\ CommitTrue /\ CommitPut /\ LoggedOnce /\ s \in Nat
      /\ hdr_safe.seq \in Nat
  BY SeqTypes DEF SyncFacts, TableFacts, EngineFacts, TruthInv, TruthTypes, FileInv
<1>2. s <= LastGiven /\ LogEnd <= n /\ LogEnd \in Int
  <2>1. LogEnd = LastSeq(cdc)
    BY DEF LogEnd
  <2>2. LogEnd \in {hdr_safe.seq, hdr_safe.seq + 1, wal.frame.seq}
    BY <1>1 DEF SeqInv, LogStanding, CommitPending, ResetPending, Settled
  <2>3. wal.marked => wal.frame.seq \in Nat
    BY <1>1 DEF CommitTrue
  <2>4. LogEnd = wal.frame.seq => wal.marked \/ LogEnd \in {hdr_safe.seq, hdr_safe.seq + 1}
    BY <1>1 DEF SeqInv, LogStanding, ResetPending, Settled
  <2>. QED
    BY <1>1, <2>1, <2>2, <2>3, <2>4 DEF TruthBound
<1>3. wal.marked /\ wal.frame.seq \in Nat
  <2>1. ASSUME ~wal.marked PROVE FALSE
    <3>1. LastGiven = hdr_safe.seq /\ hdr_safe.seq <= LogEnd
      BY <1>1, <2>1 DEF LastGiven, SeqInv, LogStanding, ResetPending, Settled
    <3>. QED
      BY <1>1, <1>2, <3>1
  <2>. QED
    BY <1>1, <2>1 DEF CommitTrue
<1>4. LastGiven = wal.frame.seq /\ wal.frame.seq <= LogEnd + 1
  BY <1>1, <1>3 DEF LastGiven, SeqInv, LogStanding, CommitPending
<1>5. s = wal.frame.seq /\ s = n + 1 /\ LogEnd # s
  BY <1>1, <1>2, <1>3, <1>4
<1>6. "BEGIN" \notin Commands
  BY <1>1, <1>3, <1>5 DEF LoggedOnce
<1>7. truth[s] = Content(Replayed) /\ wal.frame.seq - 1 = n
  BY <1>1, <1>3, <1>5 DEF CommitTrue
<1>. QED
  BY <1>1, <1>3, <1>5, <1>6, <1>7 DEF CommitPut

\* Frames are pulled: they tell of the tables that have been; when there are no more, a row
\* that the lakehouse has from a later table is one of a commit of one row.
LEMMA LakeFetch ==
  ASSUME NoteStep, FetchFrames, "nolog" \notin Faults \/ "BEGIN" \notin Commands
  PROVE  LakeInv'
<1>. DEFINE vf == VisibleFrames(cdc, from_seq)
<1>1. /\ npc = "fetch" /\ cdc.there /\ ~Gap(cdc, from_seq) /\ ~HasReset(vf)
      /\ all_frames' = all_frames \o vf
      /\ \/ npc' = "fetch"
         \/ npc' = "merge" /\ (vf = <<>> \/ ~HasMoreFrames(cdc, from_seq))
      /\ UNCHANGED <<last_seq, after, snapshot_seq, stage, page, target, watermark>>
  BY DEF FetchFrames, FetchAnswered, Answer, seedVars, lakehouse
<1>2. /\ torn' = torn /\ page_torn' = FALSE /\ truth' = truth
  <2>1. npc' \notin {"page", "scan", "replace"}
    BY <1>1
  <2>. QED
    BY <1>1, <2>1, NoteFacts DEF NoteStep, RecordSeed, RecordTear
<1>3. /\ cdc \in Logs /\ Dense(cdc) /\ LogTrue /\ TruthInv /\ LakeTypes /\ FramesHeld /\ LakeHeld
      /\ DOMAIN truth \subseteq Nat
      /\ from_seq \in Nat /\ last_seq \in Nat /\ all_frames \in Seq(ChangeFrames)
      /\ from_seq = last_seq + Len(all_frames) /\ watermark = last_seq
  BY <1>1, NoteFacts
  DEF NoteStep, LakeInv, SyncFacts, TableFacts, EngineFacts, SeqInv, TruthInv, RunInv, RunTypes,
      FramesHeld
<1>4. /\ vf \in Seq(ChangeFrames)
      /\ \A i \in 1 .. Len(vf) : \E j \in 1 .. Len(cdc.frames) : vf[i] = cdc.frames[j]
      /\ vf = <<>> \/ ~HasMoreFrames(cdc, from_seq) => LastSeq(cdc) <= from_seq + Len(vf)
  BY <1>1, <1>3, FramesFollow
<1>5. \A i \in 1 .. Len(vf) : ~vf[i].reset
  BY <1>1 DEF HasReset
<1>. HIDE DEF vf
<1>6. ASSUME NEW i \in 1 .. Len(vf) PROVE FrameTrue(vf[i])
  <2>1. PICK j \in 1 .. Len(cdc.frames) : vf[i] = cdc.frames[j]
    BY <1>4
  <2>. QED
    BY <1>3, <2>1 DEF LogTrue, FramesOf
<1>7. /\ all_frames' \in Seq(ChangeFrames) /\ Len(all_frames') = Len(all_frames) + Len(vf)
      /\ \A i \in 1 .. Len(all_frames) : all_frames'[i] = all_frames[i]
      /\ \A i \in Len(all_frames) + 1 .. Len(all_frames) + Len(vf) :
            all_frames'[i] = vf[i - Len(all_frames)]
  BY <1>1, <1>3, <1>4
<1>8. ASSUME NEW i \in 1 .. Len(all_frames')
      PROVE  ~all_frames'[i].reset /\ FrameTrue(all_frames'[i])
  <2>1. CASE i <= Len(all_frames)
    <3>1. i \in 1 .. Len(all_frames)
      BY <1>3, <1>7, <2>1
    <3>. QED
      BY <1>1, <1>3, <1>7, <3>1 DEF FramesHeld
  <2>2. CASE i > Len(all_frames)
    <3>1. i - Len(all_frames) \in 1 .. Len(vf) /\ all_frames'[i] = vf[i - Len(all_frames)]
      BY <1>3, <1>4, <1>7, <2>2
    <3>. QED
      BY <1>5, <1>6, <3>1
  <2>. QED
    BY <1>3, <1>7, <2>1, <2>2
<1>9. FramesHeld'
  <2>1. \A f : FrameTrue(f)' <=> FrameTrue(f)
    BY <1>2 DEF FrameTrue
  <2>2. \A i \in 1 .. Len(all_frames') : ~all_frames'[i].reset /\ FrameTrue(all_frames[i])'
    BY <1>2, <1>8 DEF FrameTrue
  <2>. QED
    BY <1>1, <1>3, <2>2 DEF FramesHeld
<1>10. LakeHeld' /\ LakeTypes'
  <2>1. LakeMark' = LakeMark
    BY <1>1 DEF LakeMark
  <2>. QED
    BY <1>1, <1>2, <1>3, <2>1, LakeStays DEF LakeHeld, LakeTypes
<1>11. StageHeld' /\ PageHeld' /\ SeedHeld'
  BY <1>1 DEF StageHeld, PageHeld, SeedHeld
<1>12. MergeReady'
  <2>. DEFINE n == last_seq + Len(all_frames')
  <2>0. Pulled' = n /\ n \in Nat /\ n = from_seq + Len(vf)
    BY <1>1, <1>3, <1>4, <1>7 DEF Pulled
  <2>. HIDE DEF n
  <2>. SUFFICES ASSUME npc' = "merge", torn # "wrong"
                PROVE  \/ \A id \in Ids : \E s \in DOMAIN truth :
                             watermark <= s /\ s <= n /\ Agrees(s, id)
                       \/ /\ n + 1 \in DOMAIN truth /\ OneApart(truth[n], truth[n + 1])
                          /\ \A id \in Ids : \E s \in DOMAIN truth :
                               watermark <= s /\ s <= n + 1 /\ Agrees(s, id)
    BY <1>1, <1>2, <2>0, LakeStays DEF MergeReady
  <2>1. LastSeq(cdc) <= n
    BY <1>1, <1>4, <2>0
  <2>2. \A id \in Ids : \E s \in DOMAIN truth : s >= watermark /\ Agrees(s, id)
    BY <1>1, <1>3 DEF LakeHeld, LakeNear, LakeMark
  <2>3. CASE \A s \in DOMAIN truth : s <= n
    <3>1. \A id \in Ids : \E s \in DOMAIN truth : watermark <= s /\ s <= n /\ Agrees(s, id)
      BY <1>3, <2>2, <2>3
    <3>. QED
      BY <3>1
  <2>4. CASE ~\A s \in DOMAIN truth : s <= n
    <3>1. PICK s \in DOMAIN truth : s > n
      BY <1>3, <2>0, <2>4
    <3>2. n + 1 \in DOMAIN truth /\ OneApart(truth[n], truth[n + 1])
      BY <1>1, <2>0, <2>1, <3>1, LastTold DEF NoteStep
    <3>3. ASSUME NEW r \in DOMAIN truth PROVE r <= n + 1
      <4>1. CASE r > n
        <5>1. r = n + 1
          BY <1>1, <2>0, <2>1, <4>1, LastTold DEF NoteStep
        <5>. QED
          BY <2>0, <5>1
      <4>. QED
        BY <1>3, <2>0, <4>1
    <3>4. \A id \in Ids : \E r \in DOMAIN truth : watermark <= r /\ r <= n + 1 /\ Agrees(r, id)
      BY <1>3, <2>2, <3>3
    <3>. QED
      BY <3>2, <3>4
  <2>. QED
    BY <2>3, <2>4
<1>. QED
  BY <1>9, <1>10, <1>11, <1>12 DEF LakeInv

\* An id that no list of operations is about in the end, none of its parts is about.
LEMMA Untouched ==
  ASSUME NEW n \in Nat, NEW opss \in [1 .. n -> Seq(Operations)], NEW id,
         OpsOn(Flat(opss), id) = {}
  PROVE  \A i \in 1 .. n : OpsOn(opss[i], id) = {}
<1>1. PICK g \in [0 .. n -> Seq(Operations)] :
        /\ g[0] = <<>> /\ \A i \in 1 .. n : g[i] = g[i - 1] \o opss[i]
        /\ Flat(opss) = g[n]
  BY FlatSteps, Zenon
<1>2. ASSUME NEW i \in 1 .. n, OpsOn(g[i], id) = {}
      PROVE  OpsOn(g[i - 1], id) = {} /\ OpsOn(opss[i], id) = {}
  <2>. DEFINE p == g[i - 1]
              q == opss[i]
              w == p \o q
  <2>0. i - 1 \in 0 .. n
    OBVIOUS
  <2>1. p \in Seq(Operations) /\ q \in Seq(Operations) /\ g[i] = w
    BY <1>1, <2>0, Zenon
  <2>. HIDE DEF p, q
  <2>2. \A k \in 1 .. Len(p) + Len(q) : w[k] = IF k <= Len(p) THEN p[k] ELSE q[k - Len(p)]
    BY <2>1, ConcatProperties
  <2>3. Len(w) = Len(p) + Len(q) /\ Len(p) \in Nat /\ Len(q) \in Nat
    BY <2>1, ConcatProperties
  <2>. HIDE DEF w
  <2>4. \A k \in 1 .. Len(p) + Len(q) : w[k].id # id
    BY <1>2, <2>1, <2>3 DEF OpsOn
  <2>5. ASSUME NEW k \in 1 .. Len(p) PROVE p[k].id # id
    <3>1. k \in 1 .. Len(p) + Len(q) /\ k <= Len(p)
      BY <2>3
    <3>. QED
      BY <2>2, <2>4, <3>1
  <2>6. ASSUME NEW k \in 1 .. Len(q) PROVE q[k].id # id
    <3>1. Len(p) + k \in 1 .. Len(p) + Len(q) /\ ~(Len(p) + k <= Len(p))
          /\ (Len(p) + k) - Len(p) = k
      BY <2>3
    <3>2. w[Len(p) + k] = q[k]
      BY <2>2, <3>1
    <3>. QED
      BY <2>4, <3>1, <3>2
  <2>. QED
    BY <2>5, <2>6 DEF OpsOn, p, q
<1>. DEFINE S == {k \in Nat : k <= n => OpsOn(g[n - k], id) = {}}
<1>3. 0 \in S
  BY <1>1
<1>4. ASSUME NEW k \in Nat, k \in S PROVE k + 1 \in S
  <2>. SUFFICES ASSUME k + 1 <= n PROVE OpsOn(g[n - (k + 1)], id) = {}
    OBVIOUS
  <2>1. n - k \in 1 .. n /\ (n - k) - 1 = n - (k + 1) /\ OpsOn(g[n - k], id) = {}
    BY <1>4
  <2>. QED
    BY <1>2, <2>1
<1>. HIDE DEF S
<1>5. Nat \subseteq S
  BY <1>3, <1>4, CountingUp
<1>6. ASSUME NEW i \in 1 .. n PROVE OpsOn(opss[i], id) = {}
  <2>1. n - i \in Nat /\ n - i <= n /\ n - (n - i) = i
    OBVIOUS
  <2>2. OpsOn(g[i], id) = {}
    BY <1>5, <2>1 DEF S
  <2>. QED
    BY <1>2, <2>2
<1>. QED
  BY <1>6

\* What the frames of a run, one after the other, tell of the tables they lead through.
LEMMA RunTells ==
  ASSUME TruthTypes, NEW fs \in Seq(ChangeFrames), NEW w \in Nat, fs # <<>>,
         \A i \in 1 .. Len(fs) : ~fs[i].reset /\ FrameTrue(fs[i]) /\ fs[i].seq = w + i
  PROVE  LET ops == OperationsIn(fs)
             Was(i) == RowsOf(truth[w + i])
         IN /\ ops \in Seq(Operations)
            /\ Tells(ops, Was(0), Was(Len(fs)))
            /\ \A id \in Ids, i \in 0 .. Len(fs) :
                 OpsOn(ops, id) = {} => RowsWith(Was(i), id) = RowsWith(Was(0), id)
<1>. DEFINE n == Len(fs)
            opss == [i \in 1 .. n |-> Flat(fs[i].ops)]
            R == [i \in 0 .. n |-> RowsOf(truth[w + i])]
<1>1. n \in Nat /\ \A i \in 1 .. n : fs[i] \in ChangeFrames
  OBVIOUS
<1>2. OperationsIn(fs) = Flat(opss)
  BY DEF OperationsIn
<1>. HIDE DEF n
<1>3. ASSUME NEW i \in 1 .. n PROVE opss[i] \in Seq(Operations) /\ Tells(opss[i], R[i - 1], R[i])
  <2>1. /\ (w + i) - 1 \in DOMAIN truth
        /\ ConsumedFrame(RowsOf(truth[(w + i) - 1]), fs[i]) = RowsOf(truth[w + i])
    BY <1>1 DEF FrameTrue, n
  <2>2. RowsOf(truth[(w + i) - 1]) \in SUBSET Rows
    BY <2>1, ContentsAreTables DEF TruthTypes
  <2>3. /\ Flat(fs[i].ops) \in Seq(Operations)
        /\ Tells(Flat(fs[i].ops), RowsOf(truth[(w + i) - 1]), RowsOf(truth[w + i]))
    BY <1>1, <2>1, <2>2, TellsFrame
  <2>4. i - 1 \in 0 .. n /\ i \in 0 .. n /\ w + (i - 1) = (w + i) - 1
    BY <1>1
  <2>5. R[i - 1] = RowsOf(truth[(w + i) - 1]) /\ R[i] = RowsOf(truth[w + i])
    BY <2>4
  <2>. QED
    BY <2>3, <2>5
<1>4. opss \in [1 .. n -> Seq(Operations)]
  BY <1>3
<1>5. \A i \in 0 .. n : R[i] = RowsOf(truth[w + i])
  OBVIOUS
<1>. HIDE DEF opss, R
<1>6. Flat(opss) \in Seq(Operations) /\ Tells(Flat(opss), R[0], R[n])
  BY <1>1, <1>3, <1>4, TellsFlat
<1>7. ASSUME NEW id \in Ids, OpsOn(Flat(opss), id) = {}
      PROVE  \A i \in 0 .. n : RowsWith(R[i], id) = RowsWith(R[0], id)
  <2>1. \A i \in 1 .. n : OpsOn(opss[i], id) = {}
    BY <1>1, <1>4, <1>7, Untouched
  <2>2. ASSUME NEW i \in 1 .. n PROVE RowsWith(R[i], id) = RowsWith(R[i - 1], id)
    BY <1>3, <2>1 DEF Tells
  <2>. DEFINE S == {i \in Nat : i <= n => RowsWith(R[i], id) = RowsWith(R[0], id)}
  <2>3. 0 \in S
    OBVIOUS
  <2>4. ASSUME NEW i \in Nat, i \in S PROVE i + 1 \in S
    <3>. SUFFICES ASSUME i + 1 <= n PROVE RowsWith(R[i + 1], id) = RowsWith(R[0], id)
      OBVIOUS
    <3>1. i + 1 \in 1 .. n /\ (i + 1) - 1 = i /\ RowsWith(R[i], id) = RowsWith(R[0], id)
      BY <1>1, <2>4
    <3>2. RowsWith(R[i + 1], id) = RowsWith(R[(i + 1) - 1], id)
      BY <2>2, <3>1
    <3>. QED
      BY <3>1, <3>2
  <2>. HIDE DEF S
  <2>5. Nat \subseteq S
    BY <2>3, <2>4, CountingUp
  <2>. QED
    BY <1>1, <2>5 DEF S
<1>8. R[0] = RowsOf(truth[w + 0]) /\ R[n] = RowsOf(truth[w + n])
  BY <1>1, <1>5
<1>9. \A id \in Ids, i \in 0 .. n : OpsOn(Flat(opss), id) = {} =>
        RowsWith(RowsOf(truth[w + i]), id) = RowsWith(RowsOf(truth[w + 0]), id)
  BY <1>5, <1>7, <1>8
<1>. QED
  BY <1>2, <1>6, <1>8, <1>9 DEF n

\* The last operation on an id is one on a row of that id.
LEMMA CollapsedRow ==
  ASSUME NEW ops \in Seq(Operations), NEW id, OpsOn(ops, id) # {}
  PROVE  LET rec == Collapsed(ops, id)
         IN rec \in Record /\ (rec # Deleted => Live(rec) /\ rec.id = id)
<1>1. PICK i \in OpsOn(ops, id) : Collapsed(ops, id) = Image(ops[i])
  BY LastOn
<1>2. ops[i] \in Operations /\ ops[i].id = id
  BY DEF OpsOn
<1>3. CASE ops[i].op = "DELETE"
  BY <1>1, <1>3 DEF Image, Record
<1>4. CASE ops[i].op # "DELETE"
  <2>1. ops[i] \in [op : {"UPSERT"}, id : Ids, val : Vals]
    BY <1>2, <1>4 DEF Operations
  <2>2. Collapsed(ops, id) = Row(id, ops[i].val) /\ id \in Ids /\ ops[i].val \in Vals
    BY <1>1, <1>2, <1>4, <2>1 DEF Image
  <2>. QED
    BY <2>2, RowLive DEF Row, Rows, Record
<1>. QED
  BY <1>3, <1>4

\* What MERGE INTO leaves of the rows of an id: those it was told nothing of as they were,
\* and of the others what the last operation says.
LEMMA MergedRows ==
  ASSUME NEW t, t \subseteq [id : Ids, copy : Nat, image : Record],
         \A r \in t : Live(r.image) => r.image.id = r.id,
         NEW ops \in Seq(Operations)
  PROVE  LET new == Merged(t, ops)
         IN /\ new \subseteq [id : Ids, copy : Nat, image : Record]
            /\ \A r \in new : Live(r.image) => r.image.id = r.id
            /\ (\A r, q \in t : r.id = q.id => r = q) => \A r, q \in new : r.id = q.id => r = q
            /\ \A id \in Ids : OpsOn(ops, id) = {} =>
                 \A r : r.id = id /\ Live(r.image) => (r \in new <=> r \in t)
            /\ \A id \in Ids : OpsOn(ops, id) # {} =>
                 \A x : (\E r \in new : r.id = id /\ Live(r.image) /\ x = r.image)
                          <=> x \in {Collapsed(ops, id)} \ {Deleted}
<1>. DEFINE new == Merged(t, ops)
            touched == {id \in Ids : OpsOn(ops, id) # {}}
            known == {r.id : r \in t}
            A == {r \in t : r.id \notin touched}
            B == {LakeRow(r.id, r.copy, Collapsed(ops, r.id)) : r \in {q \in t : q.id \in touched}}
            C == {LakeRow(id, 0, Collapsed(ops, id)) : id \in touched \ known}
            Kept(r) == HardDelete => Live(r.image)
<1>1. \A r : r \in new <=> (r \in A \/ r \in B \/ r \in C) /\ Kept(r)
  <2>1. new = IF HardDelete THEN {r \in A \cup B \cup C : Live(r.image)} ELSE A \cup B \cup C
    BY DEF Merged
  <2>. HIDE DEF new, A, B, C
  <2>. QED
    BY <2>1
<1>2. \A r \in A : r \in t /\ r.id \in Ids /\ OpsOn(ops, r.id) = {}
  OBVIOUS
<1>3. \A r \in B : \E q \in t : /\ q.id \in touched /\ r = LakeRow(q.id, q.copy, Collapsed(ops, q.id))
  OBVIOUS
<1>4. \A q \in t : q.id \in touched => LakeRow(q.id, q.copy, Collapsed(ops, q.id)) \in B
  OBVIOUS
<1>5. \A r \in C : \E id \in touched \ known : r = LakeRow(id, 0, Collapsed(ops, id))
  OBVIOUS
<1>6. \A id \in touched \ known : LakeRow(id, 0, Collapsed(ops, id)) \in C
  OBVIOUS
<1>7. \A id, c, rec : /\ LakeRow(id, c, rec).id = id /\ LakeRow(id, c, rec).image = rec
                      /\ LakeRow(id, c, rec).copy = c
  BY DEF LakeRow
<1>8. \A q \in t : q.id \in Ids /\ q.copy \in Nat /\ q.image \in Record
  OBVIOUS
<1>9. \A id \in touched : /\ id \in Ids /\ OpsOn(ops, id) # {} /\ Collapsed(ops, id) \in Record
                          /\ Collapsed(ops, id) # Deleted =>
                               Live(Collapsed(ops, id)) /\ Collapsed(ops, id).id = id
  BY CollapsedRow
<1>10. /\ \A id \in Ids : OpsOn(ops, id) # {} => id \in touched
       /\ \A q \in t : q.id \in known
       /\ \A id : id \in known => \E q \in t : q.id = id
  OBVIOUS
<1>11. \A r \in A \cup B \cup C : r \in [id : Ids, copy : Nat, image : Record]
  <2>1. \A r \in A : r \in [id : Ids, copy : Nat, image : Record]
    OBVIOUS
  <2>2. ASSUME NEW id \in Ids, NEW c \in Nat, NEW rec \in Record
        PROVE  LakeRow(id, c, rec) \in [id : Ids, copy : Nat, image : Record]
    BY DEF LakeRow
  <2>. HIDE DEF A, B, C, touched, known
  <2>3. \A r \in B : r \in [id : Ids, copy : Nat, image : Record]
    BY <1>3, <1>8, <1>9, <2>2
  <2>4. \A r \in C : r \in [id : Ids, copy : Nat, image : Record]
    BY <1>5, <1>9, <2>2
  <2>. QED
    BY <2>1, <2>3, <2>4
<1>. HIDE DEF new, A, B, C, touched, known
<1>12. new \subseteq [id : Ids, copy : Nat, image : Record]
  BY <1>1, <1>11
\* A row of a touched id has the image of the last operation.
<1>13. \A r : r \in B \/ r \in C => r.id \in touched /\ r.image = Collapsed(ops, r.id)
  BY <1>3, <1>5, <1>7
<1>14. ASSUME NEW r \in new, Live(r.image) PROVE r.image.id = r.id
  <2>1. CASE r \in A
    BY <1>2, <1>14, <2>1
  <2>2. CASE r \in B \/ r \in C
    BY <1>9, <1>13, <1>14, <2>2, NotLive
  <2>. QED
    BY <1>1, <2>1, <2>2
<1>15. ASSUME \A r, q \in t : r.id = q.id => r = q, NEW r \in new, NEW q \in new, r.id = q.id
       PROVE  r = q
  <2>1. CASE r.id \notin touched
    <3>1. r \in A /\ q \in A
      BY <1>1, <1>13, <1>15, <2>1
    <3>. QED
      BY <1>2, <1>15, <3>1
  <2>2. CASE r.id \in touched
    <3>1. r \notin A /\ q \notin A
      BY <1>2, <1>9, <1>15, <2>2
    <3>2. (r \in B \/ r \in C) /\ (q \in B \/ q \in C)
      BY <1>1, <3>1
    <3>3. ASSUME NEW x \in B, NEW y \in B, x.id = y.id PROVE x = y
      <4>1. PICK a \in t : x = LakeRow(a.id, a.copy, Collapsed(ops, a.id))
        BY <1>3
      <4>2. PICK b \in t : y = LakeRow(b.id, b.copy, Collapsed(ops, b.id))
        BY <1>3
      <4>3. a = b
        BY <1>7, <1>15, <3>3, <4>1, <4>2
      <4>. QED
        BY <4>1, <4>2, <4>3
    <3>4. ASSUME NEW x \in C, NEW y \in C, x.id = y.id PROVE x = y
      BY <1>5, <1>7, <3>4
    <3>5. ASSUME NEW x \in B, NEW y \in C, x.id = y.id PROVE FALSE
      BY <1>3, <1>5, <1>7, <1>10, <3>5
    <3>. QED
      BY <1>15, <3>2, <3>3, <3>4, <3>5
  <2>. QED
    BY <2>1, <2>2
<1>16. ASSUME NEW id \in Ids, OpsOn(ops, id) = {}, NEW r, r.id = id, Live(r.image)
       PROVE  r \in new <=> r \in t
  <2>1. id \notin touched
    BY <1>9, <1>16
  <2>2. r \in A <=> r \in t
    BY <1>16, <2>1 DEF A
  <2>3. ~(r \in B \/ r \in C)
    BY <1>13, <1>16, <2>1
  <2>. QED
    BY <1>1, <1>16, <2>2, <2>3
<1>17. ASSUME NEW id \in Ids, OpsOn(ops, id) # {}, NEW x
       PROVE  (\E r \in new : r.id = id /\ Live(r.image) /\ x = r.image)
                <=> x \in {Collapsed(ops, id)} \ {Deleted}
  <2>1. id \in touched
    BY <1>10, <1>17
  <2>2. ASSUME NEW r \in new, r.id = id, Live(r.image), x = r.image
        PROVE  x \in {Collapsed(ops, id)} \ {Deleted}
    <3>1. r \in B \/ r \in C
      BY <1>1, <1>2, <1>17, <2>2
    <3>. QED
      BY <1>13, <2>2, <3>1, NotLive
  <2>3. ASSUME x = Collapsed(ops, id), x # Deleted
        PROVE  \E r \in new : r.id = id /\ Live(r.image) /\ x = r.image
    <3>1. PICK r : (r \in B \/ r \in C) /\ r.id = id /\ r.image = x
      <4>1. CASE id \in known
        <5>1. PICK q \in t : q.id = id
          BY <1>10, <4>1
        <5>. QED
          BY <1>4, <1>7, <2>1, <2>3, <5>1
      <4>2. CASE id \notin known
        <5>1. LakeRow(id, 0, Collapsed(ops, id)) \in C
          BY <1>6, <2>1, <4>2
        <5>. QED
          BY <1>7, <2>3, <5>1
      <4>. QED
        BY <4>1, <4>2
    <3>2. Live(r.image)
      BY <1>9, <2>1, <2>3, <3>1
    <3>. QED
      BY <1>1, <3>1, <3>2
  <2>. QED
    BY <2>2, <2>3
<1>. QED
  BY <1>12, <1>14, <1>15, <1>16, <1>17 DEF new

\* The merge brings every row to the last frame; rows of a commit the log has not told, it
\* leaves, and that is a commit of one row.
LEMMA LakeMerge ==
  ASSUME NoteStep, Merge
  PROVE  LakeInv'
<1>. DEFINE ops == OperationsIn(all_frames)
            n == Len(all_frames)
            w == watermark
<1>1. /\ npc = "merge" /\ npc' = "mark" /\ all_frames # <<>> /\ target' = Merged(target, ops)
      /\ watermark' = w /\ last_seq' = last_seq /\ all_frames' = all_frames
      /\ UNCHANGED <<after, snapshot_seq, stage, page>>
  BY DEF Merge, runVars, seedVars
<1>2. /\ torn' = IF torn = "heals" THEN "no" ELSE torn
      /\ page_torn' = FALSE /\ truth' = truth
  BY <1>1, NoteFacts DEF NoteStep, RecordSeed, RecordTear
<1>3. /\ TruthTypes /\ LakeTypes /\ FramesHeld /\ LakeHeld /\ MergeReady
      /\ w = last_seq /\ all_frames \in Seq(ChangeFrames)
      /\ \A i \in 1 .. n : /\ ~all_frames[i].reset /\ FrameTrue(all_frames[i])
                           /\ all_frames[i].seq = w + i
  BY <1>1, NoteFacts
  DEF NoteStep, LakeInv, TruthInv, RunInv, RunTypes, NoFrameSkipped, FramesHeld
<1>4. /\ Pulled \in DOMAIN truth /\ Pulled = w + n /\ w \in Nat /\ w < Pulled /\ n \in Nat
      /\ Pulled' = Pulled /\ DOMAIN truth \subseteq Nat
  BY <1>1, <1>3, PulledGiven, NoteFacts DEF NoteStep, Pulled
<1>5. /\ ops \in Seq(Operations)
      /\ Tells(ops, RowsOf(truth[w + 0]), RowsOf(truth[w + n]))
      /\ \A id \in Ids, i \in 0 .. n : OpsOn(ops, id) = {} =>
           RowsWith(RowsOf(truth[w + i]), id) = RowsWith(RowsOf(truth[w + 0]), id)
  BY <1>1, <1>3, <1>4, RunTells
<1>. HIDE DEF ops, n, w
<1>6. /\ target' \subseteq [id : Ids, copy : Nat, image : Record]
      /\ \A r \in target' : Live(r.image) => r.image.id = r.id
      /\ EachOnce => EachOnce'
      /\ \A id \in Ids : OpsOn(ops, id) = {} =>
           \A r : r.id = id /\ Live(r.image) => (r \in target' <=> r \in target)
      /\ \A id \in Ids : OpsOn(ops, id) # {} =>
           \A x : (\E r \in target' : r.id = id /\ Live(r.image) /\ x = r.image)
                    <=> x \in {Collapsed(ops, id)} \ {Deleted}
  <2>1. /\ target \subseteq [id : Ids, copy : Nat, image : Record]
        /\ \A r \in target : Live(r.image) => r.image.id = r.id
    BY <1>3 DEF LakeTypes
  <2>. DEFINE new == Merged(target, ops)
  <2>2. /\ new \subseteq [id : Ids, copy : Nat, image : Record]
        /\ \A r \in new : Live(r.image) => r.image.id = r.id
        /\ (\A r, q \in target : r.id = q.id => r = q) => \A r, q \in new : r.id = q.id => r = q
        /\ \A id \in Ids : OpsOn(ops, id) = {} =>
             \A r : r.id = id /\ Live(r.image) => (r \in new <=> r \in target)
        /\ \A id \in Ids : OpsOn(ops, id) # {} =>
             \A x : (\E r \in new : r.id = id /\ Live(r.image) /\ x = r.image)
                      <=> x \in {Collapsed(ops, id)} \ {Deleted}
    BY <1>5, <2>1, MergedRows, Zenon
  <2>3. target' = new
    BY <1>1
  <2>. HIDE DEF new
  <2>4. EachOnce => EachOnce'
    BY <2>2, <2>3 DEF EachOnce
  <2>. QED
    BY <2>2, <2>3, <2>4, Zenon
<1>7. LakeTypes'
  BY <1>1, <1>2, <1>3, <1>6 DEF LakeTypes
<1>8. StageHeld' /\ PageHeld' /\ SeedHeld' /\ MergeReady'
  BY <1>1 DEF StageHeld, PageHeld, SeedHeld, MergeReady
<1>9. FramesHeld'
  <2>1. \A i \in 1 .. Len(all_frames') : ~all_frames'[i].reset /\ FrameTrue(all_frames[i])'
    BY <1>1, <1>2, <1>3 DEF FrameTrue, n
  <2>. QED
    BY <1>1, <1>3, <2>1 DEF FramesHeld, w
\* An id the frames are about is now as the last of them says; another is as it was.
<1>10. ASSUME NEW id \in Ids, OpsOn(ops, id) # {} PROVE Agrees(Pulled, id)'
  <2>1. \A x : x \in LakeOf(id)' <=> x \in {Collapsed(ops, id)} \ {Deleted}
    <3>1. \A x : x \in LakeOf(id)' <=> \E r \in target' : r.id = id /\ Live(r.image) /\ x = r.image
      BY DEF LakeOf
    <3>. QED
      BY <1>6, <1>10, <3>1
  <2>2. LakeOf(id)' = RowsWith(RowsOf(truth[Pulled]), id)
    BY <1>4, <1>5, <1>10, <2>1 DEF Tells
  <2>. QED
    BY <1>2, <1>4, <2>2 DEF Agrees
<1>11. ASSUME NEW id \in Ids, OpsOn(ops, id) = {}
       PROVE  /\ \A s : Agrees(s, id)' <=> Agrees(s, id)
              /\ \A s \in DOMAIN truth : w <= s /\ s <= Pulled /\ Agrees(s, id) => Agrees(Pulled, id)'
  <2>1. LakeOf(id)' = LakeOf(id)
    <3>1. \A x : x \in LakeOf(id)' <=> \E r \in target' : r.id = id /\ Live(r.image) /\ x = r.image
      BY DEF LakeOf
    <3>2. \A x : x \in LakeOf(id) <=> \E r \in target : r.id = id /\ Live(r.image) /\ x = r.image
      BY DEF LakeOf
    <3>3. \A x : x \in LakeOf(id)' <=> x \in LakeOf(id)
      BY <1>6, <1>11, <3>1, <3>2
    <3>. QED
      BY <3>3
  <2>2. \A s : Agrees(s, id)' <=> Agrees(s, id)
    BY <1>2, <2>1 DEF Agrees
  <2>3. ASSUME NEW s \in DOMAIN truth, w <= s, s <= Pulled, Agrees(s, id)
        PROVE  Agrees(Pulled, id)
    <3>1. s - w \in 0 .. n /\ n \in 0 .. n /\ w + (s - w) = s /\ w + n = Pulled
      BY <1>4, <2>3
    <3>2. RowsWith(RowsOf(truth[s]), id) = RowsWith(RowsOf(truth[Pulled]), id)
      BY <1>5, <1>11, <3>1
    <3>. QED
      BY <2>3, <3>2 DEF Agrees
  <2>4. Agrees(Pulled, id)' <=> Agrees(Pulled, id)
    BY <1>4, <2>1, <1>2 DEF Agrees
  <2>. QED
    BY <2>2, <2>3, <2>4
<1>12. ASSUME torn # "wrong" PROVE LakeAt(Pulled)'
  <2>1. CASE \A id \in Ids : \E s \in DOMAIN truth : w <= s /\ s <= Pulled /\ Agrees(s, id)
    <3>1. \A id \in Ids : Agrees(Pulled, id)'
      BY <1>10, <1>11, <2>1
    <3>2. Pulled >= Pulled
      BY <1>4
    <3>. QED
      BY <1>2, <1>4, <3>1, <3>2 DEF LakeAt
  <2>2. CASE /\ Pulled + 1 \in DOMAIN truth /\ OneApart(truth[Pulled], truth[Pulled + 1])
             /\ \A id \in Ids : \E s \in DOMAIN truth :
                  w <= s /\ s <= Pulled + 1 /\ Agrees(s, id)
    <3>1. ASSUME NEW id \in Ids PROVE Agrees(Pulled, id)' \/ Agrees(Pulled + 1, id)'
      <4>1. CASE OpsOn(ops, id) # {}
        BY <1>10, <4>1
      <4>2. CASE OpsOn(ops, id) = {}
        <5>1. PICK s \in DOMAIN truth : w <= s /\ s <= Pulled + 1 /\ Agrees(s, id)
          BY <2>2
        <5>2. CASE s <= Pulled
          BY <1>11, <4>2, <5>1, <5>2
        <5>3. CASE s > Pulled
          <6>1. s = Pulled + 1
            BY <1>4, <5>1, <5>3
          <6>2. LakeOf(id)' = RowsWith(RowsOf(truth[s]), id)
            BY <1>2, <1>11, <4>2, <5>1 DEF Agrees
          <6>. QED
            BY <1>2, <1>4, <6>1, <6>2 DEF Agrees
        <5>. QED
          BY <1>4, <5>1, <5>2, <5>3
      <4>. QED
        BY <4>1, <4>2
    <3>2. CASE \A id \in Ids : Agrees(Pulled, id)'
      <4>1. Pulled >= Pulled
        BY <1>4
      <4>. QED
        BY <1>2, <1>4, <3>2, <4>1 DEF LakeAt
    <3>3. CASE ~\A id \in Ids : Agrees(Pulled, id)'
      <4>1. PICK a \in Ids : ~Agrees(Pulled, a)'
        BY <3>3
      <4>2. \A id : /\ Agrees(Pulled, id)' <=> LakeOf(id)' = RowsWith(RowsOf(truth[Pulled]), id)
                    /\ Agrees(Pulled + 1, id)' <=>
                         LakeOf(id)' = RowsWith(RowsOf(truth[Pulled + 1]), id)
        BY <1>2, <1>4 DEF Agrees
      <4>3. RowsWith(RowsOf(truth[Pulled]), a) # RowsWith(RowsOf(truth[Pulled + 1]), a)
        BY <3>1, <4>1, <4>2
      <4>4. ASSUME NEW id \in Ids PROVE Agrees(Pulled + 1, id)'
        <5>1. CASE id = a
          BY <3>1, <4>1, <5>1
        <5>2. CASE id # a
          <6>1. RowsWith(RowsOf(truth[Pulled]), id) = RowsWith(RowsOf(truth[Pulled + 1]), id)
            BY <2>2, <4>3, <5>2 DEF OneApart
          <6>. QED
            BY <3>1, <4>2, <6>1
        <5>. QED
          BY <5>1, <5>2
      <4>5. Pulled + 1 >= Pulled
        BY <1>4
      <4>. QED
        BY <1>2, <1>4, <2>2, <4>4, <4>5 DEF LakeAt
    <3>. QED
      BY <3>2, <3>3
  <2>. QED
    BY <1>1, <1>3, <1>12, <2>1, <2>2 DEF MergeReady, w
<1>13. LakeHeld'
  <2>1. LakeMark' = w
    BY <1>1 DEF LakeMark
  <2>2. ASSUME torn # "wrong" PROVE LakeNear(w)'
    <3>1. PICK s \in DOMAIN truth : s >= Pulled /\ \A id \in Ids : Agrees(s, id)'
      BY <1>2, <1>4, <1>12, <2>2 DEF LakeAt
    <3>2. s >= w
      BY <1>4, <3>1
    <3>. QED
      BY <1>1, <1>2, <3>1, <3>2 DEF LakeNear, w
  <2>3. torn # "wrong" => EachOnce'
    BY <1>3, <1>6 DEF LakeHeld
  <2>4. torn' # "wrong" => torn # "wrong"
    BY <1>2
  <2>. QED
    BY <1>1, <1>2, <1>12, <2>1, <2>2, <2>3, <2>4 DEF LakeHeld, w
<1>. QED
  BY <1>7, <1>8, <1>9, <1>13 DEF LakeInv

\* An empty lakehouse shows the empty table.
LEMMA LakeInit == CheckedInit => LakeInv
<1>. SUFFICES ASSUME CheckedInit PROVE LakeInv
  OBVIOUS
<1>1. /\ npc = "idle" /\ target = {} /\ watermark = 0 /\ stage = {} /\ all_frames = <<>>
      /\ truth = [s \in {0} |-> EmptyTable] /\ torn = "no" /\ page_torn = FALSE
  BY DEF CheckedInit, SyncInit
<1>2. RowsOf(truth[0]) = {} /\ 0 \in DOMAIN truth
  BY <1>1, CountNone DEF RowsOf
<1>3. \A id \in Ids : Agrees(0, id)
  BY <1>1, <1>2 DEF Agrees, LakeOf, RowsWith
<1>4. LakeAt(0) /\ LakeNear(0)
  BY <1>2, <1>3 DEF LakeAt, LakeNear
<1>5. LakeMark = 0
  BY <1>1 DEF LakeMark
<1>. QED
  BY <1>1, <1>4, <1>5
  DEF LakeInv, LakeTypes, StageHeld, PageHeld, SeedHeld, LakeHeld, FramesHeld, MergeReady, EachOnce

\* Where rows agree id by id, and each is there once, the lakehouse shows the table.
LEMMA ShowsTable ==
  ASSUME LakeTypes, EachOnce, NEW s \in DOMAIN truth, truth[s] \in Contents,
         \A id \in Ids : Agrees(s, id)
  PROVE  Shows(RowsOf(truth[s]))
<1>. DEFINE rows == RowsOf(truth[s])
            f == [r \in Shown |-> r.image]
<1>1. rows \in SUBSET Rows /\ IsFiniteSet(rows)
  <2>1. rows \in SUBSET Rows
    BY ContentsAreTables
  <2>2. IsFiniteSet(LiveSlots(truth[s]))
    BY LiveSlotsFinite
  <2>. DEFINE g == [i \in LiveSlots(truth[s]) |-> truth[s][i]]
  <2>3. g \in Surjection(LiveSlots(truth[s]), rows)
    <3>1. g \in [LiveSlots(truth[s]) -> rows] /\ \A x \in rows : \E i \in LiveSlots(truth[s]) : g[i] = x
      BY DEF RowsOf
    <3>. HIDE DEF g, rows
    <3>. QED
      BY <3>1, Fun_IsSurj
  <2>4. IsFiniteSet(rows)
    BY <2>2, <2>3, FS_Surjection
  <2>. QED
    BY <2>1, <2>4
<1>2. \A r \in Shown : r \in target /\ r.id \in Ids /\ Live(r.image) /\ r.image.id = r.id
  BY DEF Shown, LakeTypes
<1>3. ASSUME NEW r \in Shown PROVE r.image \in rows
  <2>1. r.image \in LakeOf(r.id)
    BY <1>2 DEF LakeOf
  <2>. QED
    BY <1>2, <2>1 DEF Agrees, RowsWith
<1>4. ASSUME NEW x \in rows PROVE \E r \in Shown : r.image = x
  <2>1. x.id \in Ids
    BY <1>1 DEF Rows
  <2>2. x \in LakeOf(x.id)
    BY <2>1 DEF Agrees, RowsWith
  <2>. QED
    BY <2>2 DEF LakeOf, Shown
<1>. HIDE DEF rows
<1>5. {r.image : r \in Shown} = rows
  BY <1>3, <1>4
<1>6. f \in [Shown -> rows] /\ (\A r, q \in Shown : f[r] = f[q] => r = q)
      /\ \A x \in rows : \E r \in Shown : f[r] = x
  <2>1. \A r, q \in Shown : r.image = q.image => r = q
    BY <1>2 DEF EachOnce
  <2>. QED
    BY <1>3, <1>4, <2>1
<1>. HIDE DEF f
<1>7. ExistsBijection(rows, Shown)
  BY <1>6, Fun_IsBij, Fun_ExistsBij, Fun_ExistsBijSymmetric
<1>8. Cardinality(Shown) = Cardinality(rows)
  BY <1>1, <1>7, FS_Bijection
<1>. QED
  BY <1>5, <1>8 DEF Shows, rows

\* At every moment, in the middle of a run, after a run that was cut off and after any
\* number of RESETs, the lakehouse shows the table as some commit at or after its watermark
\* left it, unless its seed was read during a commit.  The engine may be killed at any point;
\* it loses no power, and either its log is never removed or a commit is of one row.
THEOREM LakehouseShowsACommit ==
  ASSUME PlainFrames, "nobackup" \notin Faults, "power" \notin Faults,
         "nolog" \notin Faults \/ "BEGIN" \notin Commands
  PROVE  CheckedSpec => []LakehouseIsACommit
<1>1. CheckedInit => LakeInv
  BY LakeInit
<1>2. SyncFacts /\ SyncFacts' /\ RunInv /\ LakeInv
        /\ [CheckedNext]_<<vars, syncVars, history>> => LakeInv'
  <2>. SUFFICES ASSUME SyncFacts, SyncFacts', RunInv, LakeInv,
                       [CheckedNext]_<<vars, syncVars, history>>
                PROVE  LakeInv'
    OBVIOUS
  <2>1. CASE Engines(Next)
    <3>1. FileStep
      BY <2>1 DEF FileStep, TruthStep, SyncFacts, TableFacts, Engines, Recorded
    <3>. QED
      BY <2>1, <3>1, LakeEngine DEF Engines, Recorded
  <2>2. CASE UNCHANGED vars /\ Recorded /\ (Notebook \/ RunEnds)
    <3>1. NoteStep
      <4>1. ~Published /\ hdr' = hdr
        BY <2>2 DEF vars, memVars, logVars, datVars, Published
      <4>2. truth' = truth
        BY <2>2, <4>1 DEF Recorded, RecordTruth
      <4>. QED
        BY <2>2, <4>2 DEF NoteStep, Recorded
    <3>. QED
      BY <2>2, <3>1, LakeRun, LakeFetch, LakeMerge, LakePageBegin, LakePageSlot, LakePageEnd,
         LakeReplace DEF Notebook
  <2>3. CASE UNCHANGED <<vars, syncVars, history>>
    <3>1. /\ hdr' = hdr /\ truth' = truth /\ torn' = torn /\ page_torn' = page_torn
          /\ target' = target /\ watermark' = watermark /\ npc' = npc /\ stage' = stage
          /\ page' = page /\ after' = after /\ snapshot_seq' = snapshot_seq
          /\ last_seq' = last_seq /\ all_frames' = all_frames
      BY <2>3 DEF vars, datVars, syncVars, runVars, seedVars, lakehouse, history
    <3>2. LakeTypes'
      BY <3>1 DEF LakeInv, LakeTypes
    <3>3. \A S, i, q : ReadAs(S, i, q)' <=> ReadAs(S, i, q)
      BY <3>1 DEF ReadAs
    <3>4. StageHeld'
      BY <3>1, <3>3 DEF LakeInv, StageHeld, ReadAs
    <3>5. PageHeld'
      BY <3>1, <3>3 DEF LakeInv, PageHeld, ReadAs
    <3>6. SeedHeld'
      BY <2>3, <3>1 DEF LakeInv, SeedHeld, CutShort, syncVars, seedVars, runVars, lakehouse
    <3>7. LakeHeld'
      BY <3>1, LakeStays DEF LakeInv, LakeHeld, LakeMark, Pulled
    <3>8. FramesHeld'
      BY <3>1 DEF LakeInv, FramesHeld, FrameTrue
    <3>9. MergeReady'
      BY <3>1, LakeStays DEF LakeInv, MergeReady, Pulled
    <3>. QED
      BY <3>2, <3>4, <3>5, <3>6, <3>7, <3>8, <3>9 DEF LakeInv
  <2>. QED
    BY <2>1, <2>2, <2>3 DEF CheckedNext, Notebooks, Notebook
<1>3. SyncFacts /\ RunInv /\ LakeInv => LakehouseIsACommit
  <2>. SUFFICES ASSUME SyncFacts, RunInv, LakeInv, torn = "no"
                PROVE  \E s \in DOMAIN truth : s >= watermark /\ Shows(RowsOf(truth[s]))
    BY DEF LakehouseIsACommit
  <2>0. /\ DOMAIN truth \subseteq Nat /\ \A s \in DOMAIN truth : truth[s] \in Contents
        /\ watermark \in Nat /\ (npc = "seeded" => watermark = 0 /\ snapshot_seq \in Nat)
        /\ LakeTypes /\ EachOnce /\ LakeAt(IF npc = "mark" THEN Pulled ELSE LakeMark)
    BY DEF SyncFacts, TruthInv, TruthTypes, RunInv, RunTypes, LakeInv, SeedHeld, LakeHeld
  <2>1. /\ (IF npc = "mark" THEN Pulled ELSE LakeMark) \in Nat
        /\ watermark <= IF npc = "mark" THEN Pulled ELSE LakeMark
    <3>1. CASE npc = "mark"
      BY <3>1, PulledGiven DEF RunInv, LakeInv
    <3>2. CASE npc # "mark"
      BY <2>0, <3>2 DEF LakeMark
    <3>. QED
      BY <3>1, <3>2
  <2>2. LakeAt(watermark)
    BY <2>0, <2>1, LakeLater
  <2>. QED
    BY <2>0, <2>2, ShowsTable DEF LakeAt
<1>. QED
  BY <1>1, <1>2, <1>3, FileCorrect, RunKept, HistoryOnlyRecords, PTL DEF CheckedSpec
=============================================================================
