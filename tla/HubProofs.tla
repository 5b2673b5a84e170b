----------------------------- MODULE HubProofs ------------------------------
(***************************************************************************)
(* A link never claims a notebook that was not created, for any number of  *)
(* links, names and overlapping flows; and what is done one operation at a *)
(* time, without a failure, leaves the notebooks and the list matched.     *)
(***************************************************************************)
EXTENDS HubProps, TLAPS

\* The flows that stand at each step.
PhasesAt(step) ==
    CASE step = "lists" -> {"refresh"}
      [] step = "read" -> {"save", "mark", "created", "failed", "delete", "schedule", "refresh"}
      [] step = "write" -> {"save", "mark", "created", "failed", "delete", "schedule"}
      [] step = "remove" -> {"delete"}
      [] step = "schedule" -> {"schedule"}
      [] step = "latest" -> {"created", "failed", "schedule"}
      [] step \in {"post", "poll"} -> {"mark"}
      [] OTHER -> {"none"}

\* A list records only notebooks of B; a flow has only such lists to write, has
\* created one of B if it says so, and may delete one of B.
Backed(list, B) == \A i \in DOMAIN list : list[i].notebook => i \in B
FlowOK(f, B) ==
    /\ f.phase \in PhasesAt(f.at)
    /\ Backed(f.list, B) /\ Backed(f.old, B)
    /\ f.phase = "created" => f.id \in B

\* The notebooks that may be recorded: those that exist, and those of a link
\* whose deletion was asked for, which may be gone.
Good == notebooks \cup deleted

\* The inductive invariant: all the lists a flow may yet write are as good as
\* the one that is stored, and only the flow of a deletion removes.
HubInv ==
    /\ HubTypeOK
    /\ Backed(stored, Good) /\ Backed(page.links, Good)
    /\ \A n \in Slots : FlowOK(flows[n], Good)
    /\ \A n \in Slots : flows[n].phase = "delete" => flows[n].id \in deleted

-----------------------------------------------------------------------------
(* Lists *)

LEMMA ListShape ==
    /\ \A list \in Lists : DOMAIN list \subseteq Ids /\ list \in [DOMAIN list -> Link]
    /\ \A S \in SUBSET Ids : [S -> Link] \subseteq Lists
BY DEF Lists

LEMMA NoLinksOK == NoLinks \in Lists /\ \A B : Backed(NoLinks, B)
<1>1. DOMAIN NoLinks = {} /\ NoLinks \in [{} -> Link]
  BY DEF NoLinks
<1>2. QED
  BY <1>1, ListShape DEF Backed

LEMMA IdleOK == Idle \in Flows /\ Idle.phase = "none" /\ \A B : FlowOK(Idle, B)
<1>1. (CHOOSE i \in Ids : TRUE) \in Ids
  BY HubAssumption
<1>2. QED
  BY <1>1, NoLinksOK DEF Idle, Flow, Flows, FlowOK, PhasesAt

LEMMA WithOK ==
    ASSUME NEW list \in Lists, NEW i \in Ids, NEW link \in Link, NEW B,
           Backed(list, B), link.notebook => i \in B
    PROVE  With(list, i, link) \in Lists /\ Backed(With(list, i, link), B)
<1>1. With(list, i, link) \in [DOMAIN list \cup {i} -> Link]
  BY ListShape DEF With
<1>2. DOMAIN With(list, i, link) = DOMAIN list \cup {i}
  BY DEF With
<1>3. QED
  BY <1>1, <1>2, ListShape DEF With, Backed

LEMMA WithoutOK ==
    ASSUME NEW list \in Lists, NEW i \in Ids, NEW B, Backed(list, B)
    PROVE  Without(list, i) \in Lists /\ Backed(Without(list, i), B)
<1>1. Without(list, i) \in [DOMAIN list \ {i} -> Link]
  BY ListShape DEF Without
<1>2. QED
  BY <1>1, ListShape DEF Without, Backed

\* Only the flow that created it records a notebook.
LEMMA EditedOK ==
    ASSUME NEW f \in Flows, NEW B, FlowOK(f, B), f.at = "write"
    PROVE  Edited(f) \in Lists /\ Backed(Edited(f), B)
<1>0. /\ f.list \in Lists /\ f.id \in Ids /\ Backed(f.list, B)
      /\ f.phase \in {"save", "mark", "created", "failed", "delete", "schedule"}
      /\ f.phase = "created" => f.id \in B
  BY DEF Flows, FlowOK, PhasesAt
<1>1. CASE f.phase = "save"
  <2>1. Planned \in Link /\ ~Planned.notebook
    BY DEF Planned, Link
  <2>2. Edited(f) = With(f.list, f.id, Planned)
    BY <1>1 DEF Edited
  <2>3. QED
    BY <1>0, <2>1, <2>2, WithOK
<1>2. CASE f.phase = "delete"
  BY <1>0, <1>2, WithoutOK DEF Edited
<1>3. CASE f.phase \notin {"save", "delete"} /\ Has(f.list, f.id)
  <2> DEFINE old == f.list[f.id]
             new == CASE f.phase = "mark" -> [old EXCEPT !.status = "creating"]
                      [] f.phase = "created" -> [old EXCEPT !.status = "created", !.notebook = TRUE]
                      [] f.phase = "failed" -> [old EXCEPT !.status = "failed"]
                      [] f.phase = "schedule" -> [old EXCEPT !.status = "scheduled"]
  <2>1. old \in Link /\ (old.notebook => f.id \in B)
    BY <1>0, <1>3, ListShape DEF Has, Backed
  <2>2. Edited(f) = With(f.list, f.id, new)
    BY <1>3 DEF Edited
  <2> HIDE DEF old
  <2>3. new \in Link /\ (new.notebook => f.id \in B)
    BY <1>0, <1>3, <2>1 DEF Link
  <2> HIDE DEF new
  <2>4. QED
    BY <1>0, <2>2, <2>3, WithOK
<1>4. CASE f.phase \notin {"save", "delete"} /\ ~Has(f.list, f.id)
  BY <1>0, <1>4 DEF Edited
<1>5. QED
  BY <1>1, <1>2, <1>3, <1>4

-----------------------------------------------------------------------------
(* The invariant *)

LEMMA HubInit == Init => HubInv
<1> SUFFICES ASSUME Init PROVE HubInv
  OBVIOUS
<1>1. PICK S \in SUBSET Ids : stored = [i \in S |-> Done] /\ notebooks = S /\ used = S
  BY DEF Init
<1>2. stored \in Lists /\ Backed(stored, Good)
  <2>1. Done \in Link
    BY DEF Done, Link
  <2>2. stored \in [S -> Link] /\ DOMAIN stored = S
    BY <1>1, <2>1
  <2>3. QED
    BY <1>1, <2>2, ListShape DEF Backed, Good
<1>3. page \in Pages /\ Backed(page.links, Good)
  BY NoLinksOK DEF Init, Pages
<1>4. \A n \in Slots : flows[n] \in Flows /\ FlowOK(flows[n], Good) /\ flows[n].phase # "delete"
  <2> DEFINE first == Flow("refresh", "lists", Idle.id, NoLinks)
  <2>1. first \in Flows /\ FlowOK(first, Good) /\ first.phase = "refresh"
    <3>1. Idle.id \in Ids
      BY IdleOK DEF Flows
    <3>2. QED
      BY <3>1, NoLinksOK DEF Flow, Flows, FlowOK, PhasesAt, Phases, Steps
  <2>2. \A n \in Slots : flows[n] \in {first, Idle}
    BY DEF Init
  <2> HIDE DEF first
  <2>3. QED
    BY <2>1, <2>2, IdleOK
<1>5. flows \in [Slots -> Flows]
  BY <1>4 DEF Init
<1>6. HubTypeOK
  BY <1>1, <1>2, <1>3, <1>5 DEF Init, HubTypeOK
<1>7. QED
  BY <1>2, <1>3, <1>4, <1>6 DEF HubInv

\* What is recorded stays good while no notebook goes but of a deleted link.
LEMMA StillGood ==
    ASSUME NEW B, NEW C, B \subseteq C
    PROVE  /\ \A list : Backed(list, B) => Backed(list, C)
           /\ \A f : FlowOK(f, B) => FlowOK(f, C)
BY DEF Backed, FlowOK

\* A flow that goes on as f keeps the invariant if f, the page and the stored
\* list are as good as before.
LEMMA GoOK ==
    ASSUME HubInv, NEW n \in Slots, NEW f \in Flows, Go(n, f),
           FlowOK(f, Good'), f.phase = "delete" => f.id \in deleted',
           Good \subseteq Good', deleted \subseteq deleted',
           stored' \in Lists, Backed(stored', Good'),
           page' \in Pages, Backed(page'.links, Good'),
           notebooks' \in SUBSET Ids, creating' \in SUBSET Ids,
           used' \in SUBSET Ids, deleted' \in SUBSET Ids, begun' \in Nat, calm' \in BOOLEAN
    PROVE  HubInv'
<1>1. flows \in [Slots -> Flows] /\ flows' = [flows EXCEPT ![n] = f]
  BY DEF HubInv, HubTypeOK, Go
<1>2. flows' \in [Slots -> Flows]
  BY <1>1
<1>3. HubTypeOK'
  BY <1>2 DEF HubTypeOK
<1>4. \A m \in Slots : FlowOK(flows'[m], Good')
  <2>1. \A m \in Slots : FlowOK(flows[m], Good')
    BY StillGood DEF HubInv
  <2>2. QED
    BY <1>1, <2>1
<1>5. \A m \in Slots : flows'[m].phase = "delete" => flows'[m].id \in deleted'
  BY <1>1 DEF HubInv
<1>6. QED
  BY <1>3, <1>4, <1>5 DEF HubInv

\* The flows of a step, as the invariant has them.
LEMMA FlowAt ==
    ASSUME HubInv, NEW n \in Slots
    PROVE  /\ flows[n] \in Flows /\ FlowOK(flows[n], Good)
           /\ flows[n].phase = "delete" => flows[n].id \in deleted
           /\ page \in Pages /\ Backed(page.links, Good)
           /\ stored \in Lists /\ Backed(stored, Good)
           /\ notebooks \in SUBSET Ids /\ creating \in SUBSET Ids
           /\ used \in SUBSET Ids /\ deleted \in SUBSET Ids
           /\ begun \in Nat /\ calm \in BOOLEAN
BY DEF HubInv, HubTypeOK

LEMMA FreedOK ==
    ASSUME HubInv, NEW n \in Slots
    PROVE  /\ Freed(n) \in Pages /\ Freed(n).links = page.links
           /\ \A list \in Lists :
                [Freed(n) EXCEPT !.links = list, !.state = "ready"] \in Pages
BY FlowAt DEF Freed, Pages

\* Nothing but the flow and the page is touched.
LEMMA QuietOK ==
    ASSUME HubInv, NEW n \in Slots, NEW f \in Flows, Go(n, f), FlowOK(f, Good),
           f.phase = "delete" => f.id \in deleted,
           page' \in Pages, page'.links \in {page.links, stored, NoLinks},
           UNCHANGED <<fabric, history>>, calm' \in BOOLEAN,
           stored' \in Lists, Backed(stored', Good)
    PROVE  HubInv'
<1>1. /\ Good' = Good /\ deleted' = deleted /\ notebooks' = notebooks /\ creating' = creating
      /\ used' = used /\ begun' = begun
  BY DEF fabric, history, Good
<1>2. Backed(page'.links, Good')
  BY <1>1, FlowAt, NoLinksOK
<1>3. QED
  BY <1>1, <1>2, FlowAt, GoOK

LEMMA CaughtOK ==
    ASSUME HubInv, NEW n \in Slots, Caught(n), UNCHANGED history,
           stored' \in Lists, Backed(stored', Good'),
           notebooks' \in SUBSET Ids, creating' \in SUBSET Ids, notebooks \subseteq notebooks'
    PROVE  HubInv'
<1>0. /\ Good \subseteq Good' /\ deleted' = deleted /\ used' = used /\ begun' = begun
      /\ calm' = FALSE
  BY DEF history, Good, Caught
<1>1. CASE Note(n) /\ UNCHANGED page
  <2> DEFINE f == [flows[n] EXCEPT !.phase = "failed", !.at = "latest", !.list = NoLinks,
                                   !.old = flows[n].old]
  <2>1. f \in Flows /\ FlowOK(f, Good') /\ f.phase = "failed"
    <3>1. "failed" \in Phases /\ "latest" \in Steps /\ "failed" \in PhasesAt("latest")
      BY DEF Phases, Steps, PhasesAt
    <3>2. flows[n] \in Flows /\ FlowOK(flows[n], Good')
      BY <1>0, FlowAt, StillGood
    <3>3. QED
      BY <3>1, <3>2, NoLinksOK DEF Flows, FlowOK
  <2>2. Go(n, f)
    BY <1>1, FlowAt DEF Note, Flows
  <2> HIDE DEF f
  <2>3. Backed(page'.links, Good')
    BY <1>0, <1>1, FlowAt, StillGood
  <2>4. QED
    BY <1>0, <1>1, <2>1, <2>2, <2>3, FlowAt, GoOK
<1>2. CASE End(n) /\ page' = Freed(n)
  <2>1. Backed(page'.links, Good') /\ page' \in Pages
    BY <1>0, <1>2, FlowAt, FreedOK, StillGood
  <2>2. QED
    BY <1>0, <1>2, <2>1, FlowAt, IdleOK, GoOK DEF End
<1>3. QED
  BY <1>1, <1>2 DEF Caught

\* What the user begins.
LEMMA BeginOK ==
    ASSUME HubInv, NEW f \in Flows, Begin(f), FlowOK(f, Good'),
           f.phase = "delete" => f.id \in deleted',
           page' \in Pages, page'.links = page.links, UNCHANGED <<stored, fabric>>,
           deleted \subseteq deleted', deleted' \in SUBSET Ids, used' \in SUBSET Ids
    PROVE  HubInv'
<1>1. PICK n \in Slots : Go(n, f)
  BY DEF Begin
<1>2. begun' \in Nat /\ calm' \in BOOLEAN
  BY FlowAt, <1>1 DEF Begin
<1>3. /\ Good \subseteq Good' /\ notebooks' = notebooks /\ creating' = creating
      /\ stored' = stored
  BY DEF Good, fabric
<1>4. Backed(stored', Good') /\ Backed(page'.links, Good')
  BY <1>1, <1>3, FlowAt, StillGood
<1>5. QED
  BY <1>1, <1>2, <1>3, <1>4, FlowAt, GoOK

LEMMA UserOK ==
    ASSUME HubInv, CreateLink \/ DeleteLink \/ SaveSchedule \/ Refresh
    PROVE  HubInv'
<1>0. /\ page \in Pages /\ page.links \in Lists /\ DOMAIN page.links \subseteq Ids
      /\ Backed(page.links, Good) /\ Idle.id \in Ids
      /\ used \in SUBSET Ids /\ deleted \in SUBSET Ids
  BY ListShape, IdleOK DEF HubInv, HubTypeOK, Pages, Flows
<1>1. CASE CreateLink
  <2>1. PICK i \in Ids : /\ Begin(Flow("save", "write", i, page.links))
                        /\ used' = used \cup {i}
    BY <1>1 DEF CreateLink
  <2> DEFINE f == Flow("save", "write", i, page.links)
  <2>2. Good' = Good /\ deleted' = deleted /\ UNCHANGED <<stored, fabric>>
    BY <1>1 DEF CreateLink, Good, fabric
  <2>3. f \in Flows /\ FlowOK(f, Good') /\ f.phase = "save"
    BY <1>0, <2>2, NoLinksOK DEF Flow, Flows, FlowOK, PhasesAt, Phases, Steps
  <2>4. page' \in Pages /\ page'.links = page.links
    BY <1>0, <1>1 DEF CreateLink, Pages
  <2> HIDE DEF f
  <2>5. Begin(f)
    BY <2>1 DEF f
  <2>6. QED
    BY <1>0, <2>1, <2>2, <2>3, <2>4, <2>5, BeginOK
<1>2. CASE DeleteLink
  <2>1. PICK i \in DOMAIN page.links :
          /\ Begin(Flow("delete", IF Removes(page.links[i]) THEN "remove" ELSE "write", i, page.links))
          /\ deleted' = deleted \cup {i}
    BY <1>2 DEF DeleteLink
  <2> DEFINE f == Flow("delete", IF Removes(page.links[i]) THEN "remove" ELSE "write", i, page.links)
  <2>2. Good \subseteq Good' /\ UNCHANGED <<stored, fabric>> /\ used' = used
    BY <1>2, <2>1 DEF DeleteLink, Good, fabric
  <2>3. f \in Flows /\ FlowOK(f, Good') /\ f.phase = "delete" /\ f.id = i
    BY <1>0, <2>2, NoLinksOK, StillGood DEF Flow, Flows, FlowOK, PhasesAt, Phases, Steps
  <2>4. page' \in Pages /\ page'.links = page.links
    BY <1>0, <1>2 DEF DeleteLink, Pages
  <2> HIDE DEF f
  <2>5. Begin(f)
    BY <2>1 DEF f
  <2>6. QED
    BY <1>0, <2>1, <2>2, <2>3, <2>4, <2>5, BeginOK
<1>3. CASE SaveSchedule
  <2>1. PICK i \in DOMAIN page.links : Begin(Flow("schedule", "schedule", i, NoLinks))
    BY <1>3 DEF SaveSchedule
  <2> DEFINE f == Flow("schedule", "schedule", i, NoLinks)
  <2>2. Good' = Good /\ UNCHANGED <<stored, fabric, page, used, deleted>>
    BY <1>3 DEF SaveSchedule, Good, fabric
  <2>3. f \in Flows /\ FlowOK(f, Good') /\ f.phase = "schedule"
    BY <1>0, NoLinksOK DEF Flow, Flows, FlowOK, PhasesAt, Phases, Steps
  <2> HIDE DEF f
  <2>4. Begin(f)
    BY <2>1 DEF f
  <2>5. QED
    BY <1>0, <2>2, <2>3, <2>4, BeginOK
<1>4. CASE Refresh
  <2> DEFINE f == Flow("refresh", "lists", Idle.id, NoLinks)
  <2>1. Begin(f)
    BY <1>4 DEF Refresh
  <2>2. Good' = Good /\ UNCHANGED <<stored, fabric, used, deleted>>
    BY <1>4 DEF Refresh, Good, fabric
  <2>3. f \in Flows /\ FlowOK(f, Good') /\ f.phase = "refresh"
    BY <1>0, NoLinksOK DEF Flow, Flows, FlowOK, PhasesAt, Phases, Steps
  <2>4. page' \in Pages /\ page'.links = page.links
    BY <1>0, <1>4 DEF Refresh, Pages
  <2> HIDE DEF f
  <2>5. QED
    BY <1>0, <2>1, <2>2, <2>3, <2>4, BeginOK
<1>5. QED
  BY <1>1, <1>2, <1>3, <1>4

\* A flow that reads, writes or waits, and changes no notebook.
LEMMA PageStepOK ==
    ASSUME HubInv, NEW n \in Slots,
           ListEnds(n) \/ Write(n) \/ Read(n) \/ Latest(n) \/ Poll(n) \/ Schedule(n)
    PROVE  HubInv'
<1>0. /\ flows[n] \in Flows /\ FlowOK(flows[n], Good) /\ page \in Pages /\ calm \in BOOLEAN
      /\ flows[n].phase = "delete" => flows[n].id \in deleted
      /\ stored \in Lists /\ Backed(stored, Good)
      /\ notebooks \in SUBSET Ids /\ creating \in SUBSET Ids
      /\ flows[n].phase = "created" => flows[n].id \in Good
  BY FlowAt DEF FlowOK
<1>c. ASSUME Caught(n), UNCHANGED <<fabric, history>>, stored' \in Lists, Backed(stored', Good)
      PROVE  HubInv'
  <2>1. Good' = Good /\ notebooks' = notebooks /\ creating' = creating
    BY <1>c DEF fabric, history, Good
  <2>2. QED
    BY <1>0, <1>c, <2>1, CaughtOK
<1>1. CASE ListEnds(n)
  <2> DEFINE f == [flows[n] EXCEPT !.phase = "refresh", !.at = "read", !.list = flows[n].list,
                                   !.old = flows[n].old]
  <2>1. f \in Flows /\ FlowOK(f, Good) /\ f.phase = "refresh"
    <3>1. "refresh" \in Phases /\ "read" \in Steps /\ "refresh" \in PhasesAt("read")
      BY DEF Phases, Steps, PhasesAt
    <3>2. QED
      BY <1>0, <3>1 DEF Flows, FlowOK
  <2>2. Go(n, f)
    BY <1>0, <1>1 DEF ListEnds, At, Next_, Flows
  <2>3. page' \in Pages /\ page'.links = page.links /\ calm' \in BOOLEAN
    BY <1>0, <1>1 DEF ListEnds, Pages
  <2> HIDE DEF f
  <2>4. QED
    BY <1>0, <1>1, <2>1, <2>2, <2>3, QuietOK DEF ListEnds
<1>2. CASE Write(n)
  <2>1. flows[n].at = "write" /\ flows[n].phase \in PhasesAt("write")
    BY <1>0, <1>2 DEF Write, FlowOK
  <2>2. Edited(flows[n]) \in Lists /\ Backed(Edited(flows[n]), Good)
    BY <1>0, <2>1, EditedOK
  <2>3. CASE stored' = Edited(flows[n]) /\ Written(n) /\ UNCHANGED <<page, calm>>
    <3> DEFINE f == [flows[n] EXCEPT !.phase = flows[n].phase, !.at = "read", !.list = NoLinks,
                                     !.old = flows[n].old]
    <3>1. f \in Flows /\ FlowOK(f, Good) /\ f.phase = flows[n].phase /\ f.id = flows[n].id
      <4>1. flows[n].phase \in Phases /\ "read" \in Steps /\ flows[n].phase \in PhasesAt("read")
        BY <2>1 DEF Phases, Steps, PhasesAt
      <4>2. Backed(NoLinks, Good) /\ NoLinks \in Lists
        BY NoLinksOK
      <4>3. QED
        BY <1>0, <4>1, <4>2 DEF Flows, FlowOK
    <3>2. Go(n, f)
      BY <1>0, <2>3 DEF Written, Flows
    <3> HIDE DEF f
    <3>3. QED
      BY <1>0, <1>2, <2>2, <2>3, <3>1, <3>2, QuietOK DEF Write
  <2>4. CASE stored' \in {stored, Edited(flows[n])} /\ Caught(n)
    BY <1>0, <1>2, <1>c, <2>2, <2>4 DEF Write
  <2>5. QED
    BY <1>2, <2>3, <2>4 DEF Write
<1>3. CASE Read(n)
  <2>1. flows[n].at = "read" /\ UNCHANGED <<stored, fabric, history>>
    BY <1>3 DEF Read
  <2>2. CASE Caught(n)
    BY <1>0, <1>c, <2>1, <2>2
  <2>3. CASE /\ page' = [page EXCEPT !.links = NoLinks, !.state = "failed"]
             /\ End(n) /\ calm' = FALSE
    <3>1. page' \in Pages /\ page'.links = NoLinks
      BY <1>0, <2>3, NoLinksOK DEF Pages
    <3>2. QED
      BY <1>0, <2>1, <2>3, <3>1, IdleOK, QuietOK DEF End
  <2>4. CASE /\ page' = [Freed(n) EXCEPT !.links = stored, !.state = "ready"]
             /\ CASE flows[n].phase = "save" ->
                        Go(n, [flows[n] EXCEPT !.phase = "mark", !.at = "write",
                                               !.list = stored, !.old = stored])
                  [] flows[n].phase = "mark" -> Go(n, [flows[n] EXCEPT !.at = "post", !.list = stored])
                  [] OTHER -> End(n)
             /\ UNCHANGED calm
    <3>1. page' \in Pages /\ page'.links = stored
      BY <1>0, <2>4, FreedOK DEF Pages
    <3>2. CASE flows[n].phase = "save"
      <4> DEFINE f == [flows[n] EXCEPT !.phase = "mark", !.at = "write",
                                       !.list = stored, !.old = stored]
      <4>1. f \in Flows /\ FlowOK(f, Good) /\ f.phase = "mark"
        <5>1. "mark" \in Phases /\ "write" \in Steps /\ "mark" \in PhasesAt("write")
          BY DEF Phases, Steps, PhasesAt
        <5>2. QED
          BY <1>0, <5>1 DEF Flows, FlowOK
      <4>2. Go(n, f)
        BY <2>4, <3>2
      <4> HIDE DEF f
      <4>3. QED
        BY <1>0, <2>1, <2>4, <3>1, <4>1, <4>2, QuietOK
    <3>3. CASE flows[n].phase = "mark"
      <4> DEFINE f == [flows[n] EXCEPT !.phase = "mark", !.at = "post",
                                       !.list = stored, !.old = flows[n].old]
      <4>1. f \in Flows /\ FlowOK(f, Good) /\ f.phase = "mark"
        <5>1. "mark" \in Phases /\ "post" \in Steps /\ "mark" \in PhasesAt("post")
          BY DEF Phases, Steps, PhasesAt
        <5>2. QED
          BY <1>0, <5>1 DEF Flows, FlowOK
      <4>2. Go(n, f)
        BY <1>0, <2>4, <3>3 DEF Flows
      <4> HIDE DEF f
      <4>3. QED
        BY <1>0, <2>1, <2>4, <3>1, <4>1, <4>2, QuietOK
    <3>4. CASE flows[n].phase \notin {"save", "mark"}
      BY <1>0, <2>1, <2>4, <3>1, <3>4, IdleOK, QuietOK DEF End
    <3>5. QED
      BY <3>2, <3>3, <3>4
  <2>5. QED
    BY <1>3, <2>2, <2>3, <2>4 DEF Read
<1>4. CASE Latest(n)
  <2>1. flows[n].at = "latest" /\ UNCHANGED <<stored, fabric, history>>
        /\ flows[n].phase \in PhasesAt("latest")
    BY <1>0, <1>4 DEF Latest, FlowOK
  <2>2. CASE Caught(n)
    BY <1>0, <1>c, <2>1, <2>2
  <2>3. CASE ~Caught(n)
    <3>1. PICK base \in {flows[n].list, flows[n].old, stored},
               old \in {flows[n].old, NoLinks} :
            Go(n, [flows[n] EXCEPT !.at = "write", !.list = base, !.old = old])
      BY <1>0, <1>4, <2>3 DEF Latest, Flows
    <3> DEFINE f == [flows[n] EXCEPT !.at = "write", !.list = base, !.old = old]
    <3>2. /\ Backed(base, Good) /\ Backed(old, Good) /\ base \in Lists /\ old \in Lists
          /\ flows[n].phase \in PhasesAt("write") /\ "write" \in Steps
      BY <1>0, <2>1, NoLinksOK DEF FlowOK, Flows, PhasesAt, Steps
    <3>3. f \in Flows /\ FlowOK(f, Good) /\ f.phase = flows[n].phase /\ f.id = flows[n].id
      BY <1>0, <3>2 DEF Flows, FlowOK
    <3>4. Go(n, f) /\ UNCHANGED <<page, calm>>
      BY <1>4, <2>3, <3>1 DEF Latest
    <3> HIDE DEF f
    <3>5. QED
      BY <1>0, <2>1, <3>3, <3>4, QuietOK
  <2>4. QED
    BY <2>2, <2>3
<1>5. CASE Poll(n)
  <2>1. flows[n].phase = "mark" /\ UNCHANGED <<stored, fabric, history>>
    BY <1>5 DEF Poll, At
  <2>2. CASE Caught(n)
    BY <1>0, <1>c, <2>1, <2>2
  <2>3. CASE flows[n].id \in notebooks /\ Created(n) /\ UNCHANGED <<page, calm>>
    <3> DEFINE f == [flows[n] EXCEPT !.phase = "created", !.at = "latest",
                                     !.list = flows[n].list, !.old = flows[n].old]
    <3>1. f \in Flows /\ FlowOK(f, Good) /\ f.phase = "created"
      <4>1. "created" \in Phases /\ "latest" \in Steps /\ "created" \in PhasesAt("latest")
        BY DEF Phases, Steps, PhasesAt
      <4>2. QED
        BY <1>0, <2>3, <4>1 DEF Flows, FlowOK, Good
    <3>2. Go(n, f)
      BY <1>0, <2>3 DEF Created, Flows
    <3> HIDE DEF f
    <3>3. QED
      BY <1>0, <2>1, <2>3, <3>1, <3>2, QuietOK
  <2>4. QED
    BY <1>5, <2>2, <2>3 DEF Poll
<1>6. CASE Schedule(n)
  <2>1. flows[n].phase = "schedule" /\ UNCHANGED <<stored, fabric, history>>
    BY <1>6 DEF Schedule, At
  <2>2. CASE Caught(n)
    BY <1>0, <1>c, <2>1, <2>2
  <2>3. CASE Next_(n, "latest") /\ UNCHANGED <<page, calm>>
    <3> DEFINE f == [flows[n] EXCEPT !.phase = "schedule", !.at = "latest",
                                     !.list = flows[n].list, !.old = flows[n].old]
    <3>1. f \in Flows /\ FlowOK(f, Good) /\ f.phase = "schedule"
      <4>1. "schedule" \in Phases /\ "latest" \in Steps /\ "schedule" \in PhasesAt("latest")
        BY DEF Phases, Steps, PhasesAt
      <4>2. QED
        BY <1>0, <4>1 DEF Flows, FlowOK
    <3>2. Go(n, f)
      BY <1>0, <2>1, <2>3 DEF Next_, Flows
    <3> HIDE DEF f
    <3>3. QED
      BY <1>0, <2>1, <2>3, <3>1, <3>2, QuietOK
  <2>4. QED
    BY <1>6, <2>2, <2>3 DEF Schedule
<1>7. QED
  BY <1>1, <1>2, <1>3, <1>4, <1>5, <1>6

\* The backend, and Fabric: notebooks appear, and go only with their link.
LEMMA NotebookStepOK ==
    ASSUME HubInv, NEW n \in Slots, Post(n) \/ Remove(n)
    PROVE  HubInv'
<1>0. /\ flows[n] \in Flows /\ FlowOK(flows[n], Good) /\ page \in Pages /\ calm \in BOOLEAN
      /\ flows[n].phase = "delete" => flows[n].id \in deleted
      /\ stored \in Lists /\ Backed(stored, Good) /\ Backed(page.links, Good)
      /\ notebooks \in SUBSET Ids /\ creating \in SUBSET Ids /\ deleted \in SUBSET Ids
      /\ used \in SUBSET Ids /\ begun \in Nat /\ flows[n].id \in Ids
  BY FlowAt DEF Flows
<1>1. CASE Post(n)
  <2>1. flows[n].phase = "mark" /\ UNCHANGED <<stored, history>>
    BY <1>1 DEF Post, At
  <2>2. /\ notebooks \subseteq notebooks' /\ notebooks' \in SUBSET Ids
        /\ creating' \in SUBSET Ids /\ deleted' = deleted /\ used' = used /\ begun' = begun
    BY <1>0, <1>1, <2>1 DEF Post, history
  <2>3. Good \subseteq Good'
    BY <2>2 DEF Good
  <2>4. /\ Backed(stored', Good') /\ Backed(page.links, Good') /\ stored' \in Lists
        /\ FlowOK(flows[n], Good')
    BY <1>0, <2>1, <2>3, StillGood
  <2>5. \/ Created(n) /\ UNCHANGED <<page, calm>> /\ flows[n].id \in notebooks'
        \/ Next_(n, "poll") /\ UNCHANGED <<page, calm>>
        \/ Note(n) /\ UNCHANGED <<page, calm>>
        \/ Caught(n)
    BY <1>1 DEF Post, Accepted
  <2>6. CASE Created(n) /\ UNCHANGED <<page, calm>> /\ flows[n].id \in notebooks'
    <3> DEFINE f == [flows[n] EXCEPT !.phase = "created", !.at = "latest"]
    <3>1. /\ "created" \in Phases /\ "latest" \in Steps /\ "created" \in PhasesAt("latest")
          /\ flows[n].id \in Good'
      BY <2>6 DEF Phases, Steps, PhasesAt, Good
    <3>2. f \in Flows /\ FlowOK(f, Good') /\ f.phase = "created"
      BY <1>0, <2>4, <3>1 DEF Flows, FlowOK
    <3>3. Go(n, f)
      BY <2>6 DEF Created
    <3> HIDE DEF f
    <3>4. QED
      BY <1>0, <2>2, <2>3, <2>4, <2>6, <3>2, <3>3, GoOK
  <2>7. CASE Next_(n, "poll") /\ UNCHANGED <<page, calm>>
    <3> DEFINE f == [flows[n] EXCEPT !.at = "poll"]
    <3>1. "poll" \in Steps /\ "mark" \in PhasesAt("poll")
      BY DEF Steps, PhasesAt
    <3>2. f \in Flows /\ FlowOK(f, Good') /\ f.phase = "mark"
      BY <1>0, <2>1, <2>4, <3>1 DEF Flows, FlowOK
    <3>3. Go(n, f)
      BY <2>7 DEF Next_
    <3> HIDE DEF f
    <3>4. QED
      BY <1>0, <2>2, <2>3, <2>4, <2>7, <3>2, <3>3, GoOK
  <2>8. CASE Note(n) /\ UNCHANGED <<page, calm>>
    <3> DEFINE f == [flows[n] EXCEPT !.phase = "failed", !.at = "latest", !.list = NoLinks]
    <3>1. "failed" \in Phases /\ "latest" \in Steps /\ "failed" \in PhasesAt("latest")
      BY DEF Phases, Steps, PhasesAt
    <3>2. f \in Flows /\ FlowOK(f, Good') /\ f.phase = "failed"
      BY <1>0, <2>4, <3>1, NoLinksOK DEF Flows, FlowOK
    <3>3. Go(n, f)
      BY <2>8 DEF Note
    <3> HIDE DEF f
    <3>4. QED
      BY <1>0, <2>2, <2>3, <2>4, <2>8, <3>2, <3>3, GoOK
  <2>9. CASE Caught(n)
    BY <2>1, <2>2, <2>4, <2>9, CaughtOK
  <2>10. QED
    BY <2>5, <2>6, <2>7, <2>8, <2>9
<1>2. CASE Remove(n)
  <2> DEFINE f == [flows[n] EXCEPT !.at = "write"]
  <2>1. /\ flows[n].phase = "delete" /\ UNCHANGED <<stored, creating, page, history>>
        /\ Go(n, f) /\ calm' \in BOOLEAN
        /\ notebooks' \in {notebooks, notebooks \ {flows[n].id}}
    BY <1>0, <1>2 DEF Remove, At, Next_
  <2>2. Good' = Good /\ deleted' = deleted /\ used' = used /\ begun' = begun
    BY <1>0, <2>1 DEF Good, history
  <2>3. f \in Flows /\ FlowOK(f, Good) /\ f.phase = "delete" /\ f.id \in deleted
    <3>1. "write" \in Steps /\ "delete" \in PhasesAt("write")
      BY DEF Steps, PhasesAt
    <3>2. QED
      BY <1>0, <2>1, <3>1 DEF Flows, FlowOK
  <2> HIDE DEF f
  <2>4. QED
    BY <1>0, <2>1, <2>2, <2>3, GoOK
<1>3. QED
  BY <1>1, <1>2

LEMMA FabricCreatesOK ==
    ASSUME HubInv, NEW i \in Ids, FabricCreates(i)
    PROVE  HubInv'
<1>1. /\ Good \subseteq Good' /\ UNCHANGED <<stored, page, flows, history>>
      /\ notebooks' \in SUBSET Ids /\ creating' \in SUBSET Ids /\ calm' \in BOOLEAN
  BY DEF FabricCreates, HubInv, HubTypeOK, Good, history
<1>2. HubTypeOK'
  BY <1>1 DEF HubInv, HubTypeOK, history
<1>3. /\ Backed(stored', Good') /\ Backed(page'.links, Good')
      /\ \A n \in Slots : FlowOK(flows'[n], Good')
  BY <1>1, StillGood DEF HubInv
<1>4. QED
  BY <1>1, <1>2, <1>3 DEF HubInv, history

LEMMA HubStep == HubInv /\ [Next]_vars => HubInv'
<1> SUFFICES ASSUME HubInv, [Next]_vars PROVE HubInv'
  OBVIOUS
<1>1. CASE UNCHANGED vars
  BY <1>1 DEF vars, fabric, history, HubInv, HubTypeOK, Good
<1>2. CASE CreateLink \/ DeleteLink \/ SaveSchedule \/ Refresh
  BY <1>2, UserOK
<1>3. ASSUME NEW n \in Slots, Step(n) PROVE HubInv'
  BY <1>3, PageStepOK, NotebookStepOK DEF Step
<1>4. ASSUME NEW i \in Ids, FabricCreates(i) PROVE HubInv'
  BY <1>4, FabricCreatesOK
<1>5. QED
  BY <1>1, <1>2, <1>3, <1>4 DEF Next

LEMMA HubAlways == Spec => []HubInv
BY HubInit, HubStep, PTL DEF Spec

-----------------------------------------------------------------------------
(* One operation at a time, and nothing fails: where the stored list, the  *)
(* notebooks and the page stand at each step of the one flow there is.  It *)
(* writes the list it has just read, so that nothing else is lost          *)

Recorded(list) == {i \in DOMAIN list : list[i].notebook}
Unfinished(list) == {i \in DOMAIN list : list[i].status = "creating"}

\* The new link is stored and its notebook is not recorded yet.
Midway(f) ==
    \/ f.phase = "save" /\ f.at = "read"
    \/ f.phase = "mark"
    \/ f.phase \in {"created", "failed"} /\ f.at \in {"latest", "write"}

\* What there is in Fabric: the notebooks that the list records, the one of a
\* new link as soon as it is created, the one of a deleted link no more.
InFabric(f, list) ==
    IF f.at = "poll" \/ (f.phase = "created" /\ f.at # "read") THEN Recorded(list) \cup {f.id}
    ELSE IF f.phase = "delete" /\ f.at = "write" THEN Recorded(list) \ {f.id}
    ELSE Recorded(list)

CalmFlow(f, list, exist, coming, saving) ==
    /\ f.at \in {"write", "remove"} => f.list = list
    /\ f.phase = "save" /\ f.at = "write" => ~Has(list, f.id)
    /\ Midway(f) => Has(list, f.id) /\ ~list[f.id].notebook
    /\ exist \cup coming = InFabric(f, list)
    /\ coming = {} \/ (f.at = "poll" /\ coming = {f.id} /\ f.id \notin exist)
    /\ Unfinished(list) \subseteq IF Midway(f) THEN {f.id} ELSE {}
    /\ saving => f.phase \in {"save", "delete"}

AtRest ==
    /\ page.links = stored /\ ~page.saving /\ page.state = "ready"
    /\ notebooks = Recorded(stored) /\ creating = {} /\ Unfinished(stored) = {}

CalmInv ==
    calm =>
      /\ DOMAIN stored \subseteq used
      /\ \A n \in Slots : flows[n].phase = "save" => flows[n].id \in used
      /\ \A m, n \in Slots : flows[m] # Idle /\ flows[n] # Idle => m = n
      /\ \A n \in Slots : flows[n] # Idle =>
            CalmFlow(flows[n], stored, notebooks, creating, page.saving)
      /\ ~Busy => AtRest

LEMMA FlowSteps ==
    ASSUME HubInv, NEW n \in Slots
    PROVE  /\ flows[n].phase \in PhasesAt(flows[n].at) /\ flows[n] \in Flows
           /\ flows[n].at # "none" => flows[n] # Idle /\ flows[n].phase # "none"
BY FlowAt, IdleOK DEF FlowOK, Idle, Flow, PhasesAt, Flows, Steps

\* A link that is put into a list is the only one that changes.
LEMMA WithShape ==
    ASSUME NEW list \in Lists, NEW i, NEW link
    PROVE  /\ DOMAIN With(list, i, link) = DOMAIN list \cup {i}
           /\ With(list, i, link)[i] = link
           /\ \A j \in DOMAIN list \ {i} : With(list, i, link)[j] = list[j]
BY DEF With

LEMMA WithCalm ==
    ASSUME NEW list \in Lists, NEW i, NEW link
    PROVE  /\ link.notebook => Recorded(With(list, i, link)) = Recorded(list) \cup {i}
           /\ ~link.notebook => Recorded(With(list, i, link)) = Recorded(list) \ {i}
           /\ Unfinished(With(list, i, link))
                = IF link.status = "creating" THEN Unfinished(list) \cup {i}
                  ELSE Unfinished(list) \ {i}
<1>. DEFINE w == With(list, i, link)
<1>1. /\ DOMAIN w = DOMAIN list \cup {i} /\ w[i] = link
      /\ \A j \in DOMAIN list \ {i} : w[j] = list[j]
  BY WithShape
<1>. HIDE DEF w
<1>2. \A j : j \in Recorded(w) <=> (j = i /\ link.notebook) \/ (j # i /\ j \in Recorded(list))
  BY <1>1 DEF Recorded
<1>3. \A j : j \in Unfinished(w) <=> \/ j = i /\ link.status = "creating"
                                     \/ j # i /\ j \in Unfinished(list)
  BY <1>1 DEF Unfinished
<1>4. QED
  BY <1>2, <1>3 DEF w

LEMMA WithoutCalm ==
    ASSUME NEW list \in Lists, NEW i
    PROVE  /\ DOMAIN Without(list, i) = DOMAIN list \ {i}
           /\ \A j \in DOMAIN list \ {i} : Without(list, i)[j] = list[j]
           /\ Recorded(Without(list, i)) = Recorded(list) \ {i}
           /\ Unfinished(Without(list, i)) = Unfinished(list) \ {i}
BY DEF Without, Recorded, Unfinished

\* The flow goes on, or ends.
LEMMA CalmGoes ==
    ASSUME HubInv, CalmInv, calm, NEW n \in Slots, flows[n] # Idle, NEW g, Go(n, g),
           g.phase # "none", DOMAIN stored' \subseteq used', g.phase = "save" => g.id \in used',
           CalmFlow(g, stored', notebooks', creating', page'.saving)
    PROVE  CalmInv'
<1>1. flows' = [flows EXCEPT ![n] = g] /\ flows \in [Slots -> Flows]
  BY DEF Go, HubInv, HubTypeOK
<1>2. \A m \in Slots : m # n => flows[m] = Idle
  BY DEF CalmInv
<1>3. g # Idle /\ Idle.phase = "none"
  BY IdleOK
<1>4. flows'[n] = g /\ \A m \in Slots : m # n => flows'[m] = Idle
  BY <1>1, <1>2
<1>5. Busy'
  BY <1>3, <1>4 DEF Busy
<1>6. QED
  BY <1>3, <1>4, <1>5 DEF CalmInv

LEMMA CalmEnds ==
    ASSUME HubInv, CalmInv, calm, NEW n \in Slots, flows[n] # Idle, End(n), AtRest',
           DOMAIN stored' \subseteq used'
    PROVE  CalmInv'
<1>1. flows' = [flows EXCEPT ![n] = Idle] /\ flows \in [Slots -> Flows]
  BY DEF Go, End, HubInv, HubTypeOK
<1>2. \A m \in Slots : m # n => flows[m] = Idle
  BY DEF CalmInv
<1>3. \A m \in Slots : flows'[m] = Idle
  BY <1>1, <1>2
<1>4. QED
  BY <1>3, IdleOK DEF CalmInv

\* The user begins an operation with none under way.
LEMMA CalmBegins ==
    ASSUME HubInv, CalmInv, NEW f, Begin(f), f.phase # "none",
           calm' => DOMAIN stored' \subseteq used' /\ (f.phase = "save" => f.id \in used'),
           calm /\ AtRest /\ calm' => CalmFlow(f, stored', notebooks', creating', page'.saving)
    PROVE  CalmInv'
<1>1. PICK n \in Slots : flows' = [flows EXCEPT ![n] = f]
  BY DEF Begin, Go
<1>. SUFFICES ASSUME calm' PROVE CalmInv'
  BY DEF CalmInv
<1>2. calm /\ ~Busy
  BY DEF Begin
<1>3. AtRest /\ \A m \in Slots : flows[m] = Idle
  BY <1>2 DEF CalmInv, Busy
<1>4. flows'[n] = f /\ \A m \in Slots : m # n => flows'[m] = Idle
  BY <1>1, <1>3 DEF HubInv, HubTypeOK
<1>5. Busy' /\ f # Idle
  BY <1>4, IdleOK DEF Busy
<1>6. QED
  BY <1>2, <1>3, <1>4, <1>5, IdleOK DEF CalmInv

LEMMA CalmInit == Init => CalmInv
<1>. SUFFICES ASSUME Init PROVE CalmInv
  OBVIOUS
<1>1. PICK S \in SUBSET Ids : stored = [i \in S |-> Done] /\ notebooks = S /\ used = S
  BY DEF Init
<1>. DEFINE first == Flow("refresh", "lists", Idle.id, NoLinks)
<1>2. /\ flows = [n \in Slots |-> IF n = 1 THEN first ELSE Idle]
      /\ creating = {} /\ ~page.saving
  BY DEF Init
<1>3. DOMAIN stored = S /\ Recorded(stored) = S /\ Unfinished(stored) = {}
  BY <1>1 DEF Recorded, Unfinished, Done
<1>4. CalmFlow(first, stored, notebooks, creating, page.saving)
  BY <1>1, <1>2, <1>3 DEF CalmFlow, Flow, Midway, InFabric
<1>5. 1 \in Slots /\ first # Idle
  BY HubAssumption, IdleOK DEF Slots, Flow
<1>. HIDE DEF first
<1>6. Busy
  BY <1>2, <1>5 DEF Busy
<1>7. \A n \in Slots : flows[n].phase # "save"
  BY <1>2, IdleOK DEF first, Flow
<1>8. QED
  BY <1>1, <1>2, <1>3, <1>4, <1>5, <1>6, <1>7 DEF CalmInv

LEMMA CalmUser ==
    ASSUME HubInv, CalmInv, CreateLink \/ DeleteLink \/ SaveSchedule \/ Refresh
    PROVE  CalmInv'
<1>1. CASE CreateLink
  <2>1. PICK i \in Ids \ used : /\ Begin(Flow("save", "write", i, page.links))
                                /\ used' = used \cup {i}
    BY <1>1 DEF CreateLink
  <2>2. UNCHANGED <<stored, notebooks, creating>> /\ used' = used \cup {i}
    BY <1>1, <2>1 DEF CreateLink, fabric
  <2>3. calm' => calm
    BY <2>1 DEF Begin
  <2>4. ASSUME calm, AtRest
        PROVE  CalmFlow(Flow("save", "write", i, page.links), stored', notebooks', creating',
                        page'.saving)
    BY <2>2, <2>4 DEF AtRest, CalmInv, Busy, CalmFlow, Flow, Has, Midway, InFabric
  <2>5. QED
    BY <2>1, <2>2, <2>3, <2>4, CalmBegins DEF CalmInv, Flow
<1>2. CASE DeleteLink
  <2>1. PICK i \in DOMAIN page.links :
          Begin(Flow("delete", IF Removes(page.links[i]) THEN "remove" ELSE "write", i, page.links))
    BY <1>2 DEF DeleteLink
  <2>2. UNCHANGED <<stored, notebooks, creating, used>>
    BY <1>2 DEF DeleteLink, fabric
  <2>3. calm' => calm
    BY <2>1 DEF Begin
  <2>4. ASSUME calm, AtRest
        PROVE  CalmFlow(Flow("delete", IF Removes(page.links[i]) THEN "remove" ELSE "write", i,
                             page.links), stored', notebooks', creating', page'.saving)
    BY <2>2, <2>4 DEF AtRest, CalmFlow, Flow, Has, Midway, InFabric, Removes, Recorded
  <2>5. QED
    BY <2>1, <2>2, <2>3, <2>4, CalmBegins DEF CalmInv, Flow
<1>3. CASE SaveSchedule
  <2>1. PICK i \in DOMAIN page.links : Begin(Flow("schedule", "schedule", i, NoLinks))
    BY <1>3 DEF SaveSchedule
  <2>2. UNCHANGED <<stored, notebooks, creating, page, used>>
    BY <1>3 DEF SaveSchedule, fabric
  <2>3. calm' => calm
    BY <2>1 DEF Begin
  <2>4. ASSUME calm, AtRest
        PROVE  CalmFlow(Flow("schedule", "schedule", i, NoLinks), stored', notebooks', creating',
                        page'.saving)
    BY <2>2, <2>4 DEF AtRest, CalmFlow, Flow, Midway, InFabric
  <2>5. QED
    BY <2>1, <2>2, <2>3, <2>4, CalmBegins DEF CalmInv, Flow
<1>4. CASE Refresh
  <2>1. Begin(Flow("refresh", "lists", Idle.id, NoLinks))
    BY <1>4 DEF Refresh
  <2>2. /\ UNCHANGED <<stored, notebooks, creating, used>>
        /\ page' = [page EXCEPT !.state = "checking"]
    BY <1>4 DEF Refresh, fabric
  <2>3. calm' => calm
    BY <2>1 DEF Begin
  <2>4. page'.saving = page.saving
    BY <2>2 DEF HubInv, HubTypeOK, Pages
  <2>5. ASSUME calm, AtRest
        PROVE  CalmFlow(Flow("refresh", "lists", Idle.id, NoLinks), stored', notebooks', creating',
                        page'.saving)
    BY <2>2, <2>4, <2>5 DEF AtRest, CalmFlow, Flow, Midway, InFabric
  <2>6. QED
    BY <2>1, <2>2, <2>3, <2>5, CalmBegins DEF CalmInv, Flow
<1>5. QED
  BY <1>1, <1>2, <1>3, <1>4

\* The flow writes the list it holds, which is the one that is stored.
LEMMA CalmWritten ==
    ASSUME NEW f \in Flows, NEW exist, NEW saving, f.phase \in PhasesAt("write"), f.at = "write",
           CalmFlow(f, f.list, exist, {}, saving)
    PROVE  /\ CalmFlow([f EXCEPT !.at = "read", !.list = NoLinks], Edited(f), exist, {}, saving)
           /\ \A i \in DOMAIN f.list \ {f.id} : Has(Edited(f), i) /\ Edited(f)[i] = f.list[i]
           /\ DOMAIN Edited(f) \subseteq DOMAIN f.list \cup IF f.phase = "save" THEN {f.id} ELSE {}
<1>. DEFINE list == f.list
            g == [f EXCEPT !.at = "read", !.list = NoLinks]
<1>0. /\ list \in Lists /\ f.phase \in {"save", "mark", "created", "failed", "delete", "schedule"}
      /\ g.at = "read" /\ g.phase = f.phase /\ g.id = f.id
      /\ \A i \in DOMAIN list : list[i] \in Link
  BY ListShape DEF Flows, PhasesAt
<1>. HIDE DEF g
<1>1. CASE f.phase = "save"
  <2>1. Edited(f) = With(list, f.id, Planned)
    BY <1>1 DEF Edited
  <2>2. /\ Recorded(Edited(f)) = Recorded(list) \ {f.id}
        /\ Unfinished(Edited(f)) = Unfinished(list) \cup {f.id}
    BY <1>0, <2>1, WithCalm DEF Planned
  <2>3. f.id \notin Recorded(list) /\ Unfinished(list) = {} /\ exist = Recorded(list)
    BY <1>1 DEF CalmFlow, Has, Recorded, Midway, InFabric
  <2>a. /\ DOMAIN Edited(f) = DOMAIN list \cup {f.id} /\ Edited(f)[f.id] = Planned
        /\ \A j \in DOMAIN list \ {f.id} : Edited(f)[j] = list[j]
    BY <2>1 DEF With
  <2>4. Has(Edited(f), f.id) /\ ~Edited(f)[f.id].notebook
    BY <2>a DEF Has, Planned
  <2>5. CalmFlow(g, Edited(f), exist, {}, saving)
    BY <1>0, <1>1, <2>2, <2>3, <2>4 DEF CalmFlow, Midway, InFabric
  <2>6. QED
    BY <1>1, <2>a, <2>5 DEF g, Has
<1>2. CASE f.phase = "delete"
  <2>1. Edited(f) = Without(list, f.id)
    BY <1>2 DEF Edited
  <2>2. /\ Recorded(Edited(f)) = Recorded(list) \ {f.id}
        /\ Unfinished(Edited(f)) = Unfinished(list) \ {f.id}
    BY <1>0, <2>1, WithoutCalm
  <2>3. Unfinished(list) = {} /\ exist = Recorded(list) \ {f.id}
    BY <1>2 DEF CalmFlow, Midway, InFabric
  <2>4. CalmFlow(g, Edited(f), exist, {}, saving)
    BY <1>0, <1>2, <2>2, <2>3 DEF CalmFlow, Midway, InFabric
  <2>5. /\ DOMAIN Edited(f) = DOMAIN list \ {f.id}
        /\ \A j \in DOMAIN list \ {f.id} : Edited(f)[j] = list[j]
    BY <2>1 DEF Without
  <2>6. QED
    BY <1>2, <2>4, <2>5 DEF g, Has
<1>3. CASE f.phase \in {"mark", "created", "failed", "schedule"} /\ Has(list, f.id)
  <2>. DEFINE old == list[f.id]
              new == CASE f.phase = "mark" -> [old EXCEPT !.status = "creating"]
                      [] f.phase = "created" -> [old EXCEPT !.status = "created", !.notebook = TRUE]
                      [] f.phase = "failed" -> [old EXCEPT !.status = "failed"]
                      [] f.phase = "schedule" -> [old EXCEPT !.status = "scheduled"]
  <2>1. Edited(f) = With(list, f.id, new)
    BY <1>3 DEF Edited
  <2>2. old \in Link
    BY <1>0, <1>3 DEF Has
  <2>3. /\ new.status = "creating" <=> f.phase = "mark"
        /\ new.notebook = IF f.phase = "created" THEN TRUE ELSE old.notebook
    BY <1>3, <2>2 DEF Link
  <2>. HIDE DEF new
  <2>a. /\ DOMAIN Edited(f) = DOMAIN list \cup {f.id} /\ Edited(f)[f.id] = new
        /\ \A j \in DOMAIN list \ {f.id} : Edited(f)[j] = list[j]
    BY <2>1 DEF With
  <2>b. Unfinished(Edited(f)) = IF new.status = "creating" THEN Unfinished(list) \cup {f.id}
                                ELSE Unfinished(list) \ {f.id}
    <3>. HIDE DEF old, list
    <3>1. /\ Unfinished(With(list, f.id, new))
               = IF new.status = "creating" THEN Unfinished(list) \cup {f.id}
                 ELSE Unfinished(list) \ {f.id}
      BY <1>0, WithCalm
    <3>2. QED
      BY <2>1, <3>1
  <2>4. /\ new.notebook => Recorded(Edited(f)) = Recorded(list) \cup {f.id}
        /\ ~new.notebook => Recorded(Edited(f)) = Recorded(list) \ {f.id}
        /\ Unfinished(Edited(f)) = IF f.phase = "mark" THEN Unfinished(list) \cup {f.id}
                                   ELSE Unfinished(list) \ {f.id}
    <3>. HIDE DEF old, list
    <3>1. /\ new.notebook => Recorded(With(list, f.id, new)) = Recorded(list) \cup {f.id}
          /\ ~new.notebook => Recorded(With(list, f.id, new)) = Recorded(list) \ {f.id}
      BY <1>0, WithCalm
    <3>2. QED
      BY <2>1, <2>3, <2>b, <3>1
  <2>5. f.id \in Recorded(list) <=> old.notebook
    BY <1>3 DEF Recorded, Has
  <2>6. /\ exist = IF f.phase = "created" THEN Recorded(list) \cup {f.id} ELSE Recorded(list)
        /\ Unfinished(list) \subseteq {f.id} /\ (f.phase = "schedule" => Unfinished(list) = {})
        /\ f.phase = "mark" => ~old.notebook
        /\ saving = FALSE \/ ~saving
    BY <1>3 DEF CalmFlow, Midway, InFabric
  <2>7. exist = Recorded(Edited(f))
    BY <1>3, <2>2, <2>3, <2>4, <2>5, <2>6 DEF Link
  <2>8. Unfinished(Edited(f)) = IF f.phase = "mark" THEN {f.id} ELSE {}
    BY <2>4, <2>6
  <2>9. Has(Edited(f), f.id) /\ (f.phase = "mark" => ~Edited(f)[f.id].notebook)
    BY <1>3, <2>3, <2>6, <2>a DEF Has
  <2>10. saving => f.phase \in {"save", "delete"}
    BY DEF CalmFlow
  <2>11. CalmFlow(g, Edited(f), exist, {}, saving)
    BY <1>0, <1>3, <2>7, <2>8, <2>9, <2>10 DEF CalmFlow, Midway, InFabric
  <2>12. QED
    BY <1>3, <2>11, <2>a DEF g, Has
<1>4. CASE f.phase = "schedule" /\ ~Has(list, f.id)
  <2>1. Edited(f) = list
    BY <1>4 DEF Edited
  <2>2. CalmFlow(g, list, exist, {}, saving)
    BY <1>0, <1>4 DEF CalmFlow, Midway, InFabric
  <2>3. QED
    BY <1>0, <2>1, <2>2 DEF g, Has
<1>5. QED
  <2>1. f.phase \in {"mark", "created", "failed"} => Has(list, f.id)
    BY DEF CalmFlow, Midway
  <2>2. QED
    BY <1>0, <1>1, <1>2, <1>3, <1>4, <2>1

LEMMA CalmWrite ==
    ASSUME HubInv, CalmInv, NEW n \in Slots, Write(n), calm'
    PROVE  /\ CalmInv'
           /\ \A i \in DOMAIN stored \ {flows[n].id} : Has(stored', i) /\ stored'[i] = stored[i]
<1>1. /\ calm /\ stored' = Edited(flows[n]) /\ flows[n].at = "write"
      /\ Go(n, [flows[n] EXCEPT !.at = "read", !.list = NoLinks])
      /\ UNCHANGED <<page, notebooks, creating, used>>
  BY DEF Write, Caught, Written, fabric, history
<1>2. flows[n] # Idle /\ flows[n] \in Flows /\ flows[n].phase \in PhasesAt("write")
  BY <1>1, FlowSteps
<1>3. CalmFlow(flows[n], stored, notebooks, creating, page.saving)
  BY <1>1, <1>2 DEF CalmInv
<1>4. flows[n].list = stored /\ creating = {}
  BY <1>1, <1>3 DEF CalmFlow
<1>5. PICK g : g = [flows[n] EXCEPT !.at = "read", !.list = NoLinks]
  OBVIOUS
<1>6. g.phase = flows[n].phase /\ g.id = flows[n].id /\ g.phase # "none"
  BY <1>1, <1>2, <1>5, FlowSteps DEF Flows
<1>7. /\ CalmFlow(g, stored', notebooks, {}, page.saving)
      /\ \A i \in DOMAIN stored \ {flows[n].id} : Has(stored', i) /\ stored'[i] = stored[i]
      /\ DOMAIN stored' \subseteq DOMAIN stored \cup IF g.phase = "save" THEN {g.id} ELSE {}
  BY <1>1, <1>2, <1>3, <1>4, <1>5, <1>6, CalmWritten
<1>8. DOMAIN stored' \subseteq used' /\ (g.phase = "save" => g.id \in used')
  BY <1>1, <1>6, <1>7 DEF CalmInv
<1>9. CalmFlow(g, stored', notebooks', creating', page'.saving)
  BY <1>1, <1>4, <1>7
<1>10. QED
  BY <1>1, <1>2, <1>5, <1>6, <1>7, <1>8, <1>9, CalmGoes

LEMMA CalmRead ==
    ASSUME HubInv, CalmInv, NEW n \in Slots, Read(n), calm'
    PROVE  CalmInv'
<1>. DEFINE f == flows[n]
<1>1. /\ calm /\ f.at = "read" /\ UNCHANGED <<stored, notebooks, creating, used>>
      /\ page' = [Freed(n) EXCEPT !.links = stored, !.state = "ready"]
      /\ CASE f.phase = "save" -> Go(n, [f EXCEPT !.phase = "mark", !.at = "write",
                                                   !.list = stored, !.old = stored])
           [] f.phase = "mark" -> Go(n, [f EXCEPT !.at = "post", !.list = stored])
           [] OTHER -> End(n)
  BY DEF Read, Caught, fabric, history
<1>2. f # Idle /\ f \in Flows /\ f.phase \in PhasesAt("read") /\ page \in Pages
  BY <1>1, FlowSteps, FlowAt
<1>3. CalmFlow(f, stored, notebooks, creating, page.saving) /\ DOMAIN stored' \subseteq used'
  BY <1>1, <1>2 DEF CalmInv
<1>4. page'.links = stored /\ ~page'.saving /\ page'.state = "ready"
  BY <1>1, <1>2, <1>3 DEF Freed, Pages, CalmFlow
<1>. HIDE DEF f
<1>5. CASE f.phase = "save"
  <2>1. PICK g : g = [f EXCEPT !.phase = "mark", !.at = "write", !.list = stored, !.old = stored]
    OBVIOUS
  <2>2. g.phase = "mark" /\ g.at = "write" /\ g.id = f.id /\ g.list = stored
    BY <1>2, <2>1 DEF Flows
  <2>3. CalmFlow(g, stored', notebooks', creating', page'.saving)
    BY <1>1, <1>3, <1>4, <1>5, <2>2 DEF CalmFlow, Midway, InFabric
  <2>4. Go(n, g)
    BY <1>1, <1>5, <2>1
  <2>5. QED
    BY <1>1, <1>2, <1>3, <2>2, <2>3, <2>4, CalmGoes DEF f
<1>6. CASE f.phase = "mark"
  <2>1. PICK g : g = [f EXCEPT !.at = "post", !.list = stored]
    OBVIOUS
  <2>2. g.phase = "mark" /\ g.at = "post" /\ g.id = f.id
    BY <1>2, <1>6, <2>1 DEF Flows
  <2>3. CalmFlow(g, stored', notebooks', creating', page'.saving)
    BY <1>1, <1>3, <1>4, <1>6, <2>2 DEF CalmFlow, Midway, InFabric
  <2>4. Go(n, g)
    BY <1>1, <1>6, <2>1
  <2>5. QED
    BY <1>1, <1>2, <1>3, <2>2, <2>3, <2>4, CalmGoes DEF f
<1>7. CASE f.phase \notin {"save", "mark"}
  <2>1. End(n)
    BY <1>1, <1>7
  <2>2. notebooks = Recorded(stored) /\ creating = {} /\ Unfinished(stored) = {}
    BY <1>1, <1>3, <1>7 DEF CalmFlow, Midway, InFabric
  <2>3. AtRest'
    BY <1>1, <1>4, <2>2 DEF AtRest
  <2>4. QED
    BY <1>1, <1>2, <1>3, <2>1, <2>3, CalmEnds DEF f
<1>8. QED
  BY <1>5, <1>6, <1>7

\* The steps that neither write nor read the list.
LEMMA CalmOther ==
    ASSUME HubInv, CalmInv, NEW n \in Slots, calm',
           ListEnds(n) \/ Latest(n) \/ Post(n) \/ Poll(n) \/ Remove(n) \/ Schedule(n)
    PROVE  CalmInv'
<1>. DEFINE f == flows[n]
<1>1. /\ calm /\ UNCHANGED <<stored, used>> /\ page'.saving = page.saving /\ f.at # "none"
  BY FlowAt DEF ListEnds, Latest, Post, Poll, Remove, Schedule, Caught, fabric, history, Pages, At
<1>2. f # Idle /\ f \in Flows /\ f.phase \in PhasesAt(f.at) /\ f.phase # "none"
  BY <1>1, FlowSteps
<1>3. /\ CalmFlow(f, stored, notebooks, creating, page.saving)
      /\ DOMAIN stored' \subseteq used' /\ (f.phase = "save" => f.id \in used')
  BY <1>1, <1>2 DEF CalmInv
<1>4. ASSUME NEW g, Go(n, g), g.phase \notin {"none", "save"},
             CalmFlow(g, stored', notebooks', creating', page'.saving)
      PROVE  CalmInv'
  BY <1>1, <1>2, <1>3, <1>4, CalmGoes
<1>5. CASE ListEnds(n)
  <2>1. PICK g : g = [f EXCEPT !.at = "read"]
    OBVIOUS
  <2>2. Go(n, g) /\ f.at = "lists" /\ f.phase = "refresh" /\ UNCHANGED fabric
    BY <1>5, <2>1 DEF ListEnds, Next_, At
  <2>3. g.phase = "refresh" /\ g.at = "read"
    BY <1>2, <2>1, <2>2 DEF Flows
  <2>4. CalmFlow(g, stored', notebooks', creating', page'.saving)
    BY <1>1, <1>3, <2>2, <2>3 DEF CalmFlow, Midway, InFabric, fabric
  <2>5. QED
    BY <1>4, <2>2, <2>3, <2>4
<1>6. CASE Latest(n)
  <2>1. f.at = "latest" /\ UNCHANGED fabric /\ f.phase \in {"created", "failed", "schedule"}
    BY <1>2, <1>6 DEF Latest, PhasesAt
  <2>2. Has(stored, f.id) \/ f.phase = "schedule"
    BY <1>3, <2>1 DEF CalmFlow, Midway
  <2>3. PICK old : Go(n, [f EXCEPT !.at = "write", !.list = stored, !.old = old])
    BY <1>1, <1>6, <2>2 DEF Latest, Caught
  <2>4. PICK g : g = [f EXCEPT !.at = "write", !.list = stored, !.old = old]
    OBVIOUS
  <2>5. g.phase = f.phase /\ g.id = f.id /\ g.at = "write" /\ g.list = stored
    BY <1>2, <2>4 DEF Flows
  <2>6. CalmFlow(g, stored', notebooks', creating', page'.saving)
    BY <1>1, <1>3, <2>1, <2>5 DEF CalmFlow, Midway, InFabric, fabric
  <2>7. QED
    BY <1>4, <2>1, <2>3, <2>4, <2>5, <2>6
<1>7. CASE Post(n)
  <2>1. /\ f.at = "post" /\ f.phase = "mark" /\ Has(stored, f.id) /\ ~stored[f.id].notebook
        /\ notebooks = Recorded(stored) /\ creating = {} /\ Unfinished(stored) \subseteq {f.id}
        /\ ~page.saving /\ f.id \notin notebooks
    BY <1>3, <1>7 DEF Post, At, CalmFlow, Midway, InFabric, Recorded
  <2>2. \/ /\ notebooks' = notebooks \cup {f.id} /\ creating' = creating
           /\ Go(n, [f EXCEPT !.phase = "created", !.at = "latest"])
        \/ /\ creating' = creating \cup {f.id} /\ notebooks' = notebooks
           /\ Go(n, [f EXCEPT !.at = "poll"])
        \/ /\ UNCHANGED <<notebooks, creating>>
           /\ Go(n, [f EXCEPT !.phase = "failed", !.at = "latest", !.list = NoLinks])
    BY <1>7 DEF Post, Caught, Created, Accepted, Next_, Note
  <2>3. CASE /\ notebooks' = notebooks \cup {f.id} /\ creating' = creating
             /\ Go(n, [f EXCEPT !.phase = "created", !.at = "latest"])
    <3>1. PICK g : g = [f EXCEPT !.phase = "created", !.at = "latest"]
      OBVIOUS
    <3>2. g.phase = "created" /\ g.at = "latest" /\ g.id = f.id
      BY <1>2, <3>1 DEF Flows
    <3>3. CalmFlow(g, stored', notebooks', creating', page'.saving)
      BY <1>1, <2>1, <2>3, <3>2 DEF CalmFlow, Midway, InFabric
    <3>4. QED
      BY <1>4, <2>3, <3>1, <3>2, <3>3
  <2>4. CASE /\ creating' = creating \cup {f.id} /\ notebooks' = notebooks
             /\ Go(n, [f EXCEPT !.at = "poll"])
    <3>1. PICK g : g = [f EXCEPT !.at = "poll"]
      OBVIOUS
    <3>2. g.phase = "mark" /\ g.at = "poll" /\ g.id = f.id
      BY <1>2, <2>1, <3>1 DEF Flows
    <3>3. CalmFlow(g, stored', notebooks', creating', page'.saving)
      BY <1>1, <2>1, <2>4, <3>2 DEF CalmFlow, Midway, InFabric
    <3>4. QED
      BY <1>4, <2>4, <3>1, <3>2, <3>3
  <2>5. CASE /\ UNCHANGED <<notebooks, creating>>
             /\ Go(n, [f EXCEPT !.phase = "failed", !.at = "latest", !.list = NoLinks])
    <3>1. PICK g : g = [f EXCEPT !.phase = "failed", !.at = "latest", !.list = NoLinks]
      OBVIOUS
    <3>2. g.phase = "failed" /\ g.at = "latest" /\ g.id = f.id
      BY <1>2, <3>1 DEF Flows
    <3>3. CalmFlow(g, stored', notebooks', creating', page'.saving)
      BY <1>1, <2>1, <2>5, <3>2 DEF CalmFlow, Midway, InFabric
    <3>4. QED
      BY <1>4, <2>5, <3>1, <3>2, <3>3
  <2>6. QED
    BY <2>2, <2>3, <2>4, <2>5
<1>8. CASE Poll(n)
  <2>1. /\ f.at = "poll" /\ f.phase = "mark" /\ f.id \in notebooks /\ UNCHANGED fabric
        /\ Go(n, [f EXCEPT !.phase = "created", !.at = "latest"])
    BY <1>8 DEF Poll, At, Caught, Created
  <2>2. PICK g : g = [f EXCEPT !.phase = "created", !.at = "latest"]
    OBVIOUS
  <2>3. g.phase = "created" /\ g.at = "latest" /\ g.id = f.id
    BY <1>2, <2>2 DEF Flows
  <2>4. creating = {}
    BY <1>3, <2>1 DEF CalmFlow
  <2>5. CalmFlow(g, stored', notebooks', creating', page'.saving)
    BY <1>1, <1>3, <2>1, <2>3, <2>4 DEF CalmFlow, Midway, InFabric, fabric
  <2>6. QED
    BY <1>4, <2>1, <2>2, <2>3, <2>5
<1>9. CASE Remove(n)
  <2>1. /\ f.at = "remove" /\ f.phase = "delete" /\ creating' = creating
        /\ notebooks' = notebooks \ {f.id} /\ Go(n, [f EXCEPT !.at = "write"])
    BY <1>9 DEF Remove, At, Next_
  <2>2. PICK g : g = [f EXCEPT !.at = "write"]
    OBVIOUS
  <2>3. g.phase = "delete" /\ g.at = "write" /\ g.id = f.id /\ g.list = f.list
    BY <1>2, <2>1, <2>2 DEF Flows
  <2>4. CalmFlow(g, stored', notebooks', creating', page'.saving)
    BY <1>1, <1>3, <2>1, <2>3 DEF CalmFlow, Midway, InFabric
  <2>5. QED
    BY <1>4, <2>1, <2>2, <2>3, <2>4
<1>10. CASE Schedule(n)
  <2>1. /\ f.at = "schedule" /\ f.phase = "schedule" /\ UNCHANGED fabric
        /\ Go(n, [f EXCEPT !.at = "latest"])
    BY <1>10 DEF Schedule, At, Caught, Next_
  <2>2. PICK g : g = [f EXCEPT !.at = "latest"]
    OBVIOUS
  <2>3. g.phase = "schedule" /\ g.at = "latest" /\ g.id = f.id
    BY <1>2, <2>1, <2>2 DEF Flows
  <2>4. CalmFlow(g, stored', notebooks', creating', page'.saving)
    BY <1>1, <1>3, <2>1, <2>3 DEF CalmFlow, Midway, InFabric, fabric
  <2>5. QED
    BY <1>4, <2>1, <2>2, <2>3, <2>4
<1>11. QED
  BY <1>5, <1>6, <1>7, <1>8, <1>9, <1>10

\* The notebook that Fabric creates is the one that is polled.
LEMMA CalmCreates ==
    ASSUME HubInv, CalmInv, NEW i \in Ids, FabricCreates(i), calm'
    PROVE  CalmInv'
<1>1. /\ calm /\ i \in creating /\ creating' = creating \ {i} /\ notebooks' = notebooks \cup {i}
      /\ UNCHANGED <<stored, page, flows, used>>
  BY DEF FabricCreates, history
<1>2. ASSUME NEW n \in Slots, flows[n] # Idle
      PROVE  CalmFlow(flows[n], stored, notebooks', creating', page.saving)
  <2>1. CalmFlow(flows[n], stored, notebooks, creating, page.saving)
    BY <1>1, <1>2 DEF CalmInv
  <2>2. QED
    BY <1>1, <2>1 DEF CalmFlow
<1>3. Busy
  BY <1>1 DEF CalmInv, AtRest
<1>4. QED
  BY <1>1, <1>2, <1>3 DEF CalmInv, Busy

LEMMA CalmStep == HubInv /\ CalmInv /\ [Next]_vars => CalmInv'
<1> SUFFICES ASSUME HubInv, CalmInv, [Next]_vars PROVE CalmInv'
  OBVIOUS
<1>1. CASE UNCHANGED vars
  BY <1>1 DEF vars, fabric, history, CalmInv, AtRest, Busy
<1>2. CASE CreateLink \/ DeleteLink \/ SaveSchedule \/ Refresh
  BY <1>2, CalmUser
<1>3. ASSUME ~calm' PROVE CalmInv'
  BY <1>3 DEF CalmInv
<1>4. ASSUME NEW n \in Slots, Step(n), calm' PROVE CalmInv'
  BY <1>4, CalmWrite, CalmRead, CalmOther DEF Step
<1>5. ASSUME NEW i \in Ids, FabricCreates(i), calm' PROVE CalmInv'
  BY <1>5, CalmCreates
<1>6. QED
  BY <1>1, <1>2, <1>3, <1>4, <1>5 DEF Next

LEMMA CalmAlways == Spec => []CalmInv
BY CalmInit, CalmStep, HubAlways, PTL DEF Spec

-----------------------------------------------------------------------------
(* What the hub promises *)

\* The list, the page and every flow keep their types.
THEOREM HubTypeCorrect == Spec => []HubTypeOK
<1>1. HubInv => HubTypeOK
  BY DEF HubInv
<1>2. QED
  BY <1>1, HubAlways, PTL

\* Whatever fails and overlaps, a link never claims a notebook that was not
\* created (App.tsx:809-814).
THEOREM RecordedNotebooksExist == Spec => []RecordedNotebookExists
<1>1. HubInv => RecordedNotebookExists
  BY DEF HubInv, RecordedNotebookExists, Backed, Good
<1>2. QED
  BY <1>1, HubAlways, PTL

\* After any sequence of operations done one at a time that all succeed, the page shows
\* what is stored and the notebooks are those of the links (docs/WORKLOAD.md:117).
THEOREM NotebooksMatchAtRest == Spec => []AtRestMatched
<1>1. CalmInv => AtRestMatched
  BY DEF CalmInv, AtRest, AtRestMatched, Recorded, Unfinished
<1>2. QED
  BY <1>1, CalmAlways, PTL

\* What is done one at a time without a failure changes no other link.
THEOREM OtherLinksUntouched == Spec => OthersUntouched
<1>. DEFINE A == \A n \in Slots : calm' /\ flows[n].at = "write" /\ stored' # stored =>
                   \A i \in DOMAIN stored \ {flows[n].id} : Has(stored', i) /\ stored'[i] = stored[i]
<1>1. HubInv /\ CalmInv /\ [Next]_vars => [A]_vars
  <2>. SUFFICES ASSUME HubInv, CalmInv, Next, NEW n \in Slots, calm', flows[n].at = "write",
                       stored' # stored
                PROVE  \A i \in DOMAIN stored \ {flows[n].id} :
                         Has(stored', i) /\ stored'[i] = stored[i]
    OBVIOUS
  <2>1. PICK m \in Slots : Write(m)
    BY DEF Next, CreateLink, DeleteLink, SaveSchedule, Refresh, Step, ListEnds, Read, Latest, Post,
       Poll, Remove, Schedule, FabricCreates
  <2>2. calm /\ flows[m].at = "write"
    BY <2>1 DEF Write, Caught
  <2>3. flows[m] # Idle /\ flows[n] # Idle
    BY <2>2, FlowSteps
  <2>4. m = n
    BY <2>2, <2>3 DEF CalmInv
  <2>5. QED
    BY <2>1, <2>4, CalmWrite
<1>2. QED
  BY <1>1, HubAlways, CalmAlways, PTL DEF Spec, OthersUntouched
=============================================================================
