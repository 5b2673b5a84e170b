------------------------------ MODULE HubProps ------------------------------
(***************************************************************************)
(* What is checked of the sync hub.                                        *)
(***************************************************************************)
EXTENDS Hub

Pages == [links : Lists, state : {"checking", "ready", "failed"}, saving : BOOLEAN, chosen : BOOLEAN]
Flows == [phase : Phases \cup {"none"}, at : Steps \cup {"none"}, id : Ids, list : Lists, old : Lists]

\* Type: lists, page and flows have their types.
HubTypeOK ==
    /\ stored \in Lists /\ page \in Pages /\ flows \in [Slots -> Flows]
    /\ notebooks \in SUBSET Ids /\ creating \in SUBSET Ids
    /\ used \in SUBSET Ids /\ deleted \in SUBSET Ids
    /\ begun \in Nat /\ calm \in BOOLEAN

\* A notebook that links.json or the page records exists in Fabric, unless
\* the deletion of its link was asked for: whatever fails or overlaps, a
\* link never claims a notebook that was not created (App.tsx:809-814).
RecordedNotebookExists ==
    \A list \in {stored, page.links} : \A i \in DOMAIN list \ deleted :
      list[i].notebook => i \in notebooks

\* The workload "creates a notebook automatically when a link is created,
\* deletes it with the link" (docs/WORKLOAD.md:117): after any sequence of
\* operations done one at a time that all succeed, the page shows what is
\* stored, each link has its notebook unless its name was taken, and no other
\* notebook exists.
AtRestMatched ==
    calm /\ ~Busy =>
      /\ page.links = stored /\ ~page.saving
      /\ notebooks = {i \in DOMAIN stored : stored[i].notebook} /\ creating = {}
      /\ \A i \in DOMAIN stored : stored[i].status # "creating"

\* What is done one at a time without a failure changes no other link.
OthersUntouched ==
    [][\A n \in Slots : calm' /\ flows[n].at = "write" /\ stored' # stored =>
         \A i \in DOMAIN stored \ {flows[n].id} : Has(stored', i) /\ stored'[i] = stored[i]]_vars

\* Every flow ends and Create comes back, whatever fails.
EveryFlowEnds == \A n \in Slots : []<>(flows[n] = Idle)
CreateComesBack == page.saving ~> ~page.saving

\* A link that was deleted, and whose deletion was seen to succeed, stays so.
DeletedStaysDeleted ==
    [][\A i \in deleted : ~Has(stored, i) => ~Has(stored', i)]_vars
=============================================================================
