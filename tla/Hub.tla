-------------------------------- MODULE Hub ---------------------------------
(***************************************************************************)
(* The sync hub of the Fabric workload: the page (frontend/src/App.tsx),   *)
(* the list of links it keeps in the definition of its item                *)
(* (lib/onelake.ts), and the notebooks that the backend                    *)
(* (backend/src/services/fabric.ts) creates for the links in Fabric.       *)
(*                                                                         *)
(* Each of createLink, deleteLink, saveSchedule and refresh is a flow that *)
(* stops at every await; what it took from the page when it began is its   *)
(* own.  Flows interleave at those points, and each request of one may     *)
(* fail, or take effect and have its answer lost.                          *)
(***************************************************************************)
EXTENDS Naturals, FiniteSets

CONSTANTS
  Ids,       \* the links of a behaviour, by id; a notebook bears its link's id
  Name,      \* the display name of the notebook of a link, from its two ends
  MaxFlows,  \* bound of the model: flows under way at once
  MaxBegun   \* bound of the model: operations the user begins

ASSUME HubAssumption == Ids # {} /\ MaxFlows \in Nat \ {0} /\ MaxBegun \in Nat

Phases == {"save", "mark", "created", "failed", "delete", "schedule", "refresh"}
Steps == {"lists", "read", "write", "post", "poll", "remove", "schedule", "latest"}
Link == [status : {"creating", "created", "failed", "scheduled"}, notebook : BOOLEAN]
Lists == UNION {[S -> Link] : S \in SUBSET Ids}   \* links.json
NoLinks == [i \in {} |-> 0]

VARIABLES
  stored,      \* links.json of the item definition
  notebooks,   \* the notebooks that exist in Fabric
  creating,    \* notebooks Fabric has accepted to create and not yet created
  page,        \* what the page holds: links, state, saving, chosen
  flows,       \* for each slot, Idle or a flow
  used,        \* the links created so far
  deleted,     \* the links whose deletion was asked for
  begun,       \* how many operations the user began
  calm         \* one flow at a time, on a loaded page, and no request failed
fabric == <<notebooks, creating>>
history == <<used, deleted, begun>>
vars == <<stored, fabric, page, flows, history, calm>>

Slots == 1..MaxFlows
Flow(phase, at, i, list) == [phase |-> phase, at |-> at, id |-> i, list |-> list, old |-> NoLinks]
Idle == Flow("none", "none", CHOOSE i \in Ids : TRUE, NoLinks)
Planned == [status |-> "creating", notebook |-> FALSE]
Done == [status |-> "created", notebook |-> TRUE]

\* The page has just been opened on an item that may hold links, and refreshes.
Init ==
    /\ \E S \in SUBSET Ids :
         /\ \A i, j \in S : Name[i] = Name[j] => i = j
         /\ stored = [i \in S |-> Done] /\ notebooks = S /\ used = S
    /\ creating = {}
    /\ page = [links |-> NoLinks, state |-> "checking", saving |-> FALSE, chosen |-> FALSE]
    /\ flows = [n \in Slots |-> IF n = 1 THEN Flow("refresh", "lists", Idle.id, NoLinks) ELSE Idle]
    /\ deleted = {} /\ begun = 0 /\ calm = TRUE

-----------------------------------------------------------------------------
(* Lists of links *)

Has(list, i) == i \in DOMAIN list

\* Mutant: the list is the link.
With_Alone(list, i, link) == [j \in {i} |-> link]

With(list, i, link) == [j \in DOMAIN list \cup {i} |-> IF j = i THEN link ELSE list[j]]
Without(list, i) == [j \in DOMAIN list \ {i} |-> list[j]]

\* The list a flow writes: its own link edited in the list it holds.  Only
\* a new link is added; the others are edited where the list still has them.
Edited(f) ==
    LET edit(link) == CASE f.phase = "mark" -> [link EXCEPT !.status = "creating"]
                        [] f.phase = "created" -> [link EXCEPT !.status = "created", !.notebook = TRUE]
                        [] f.phase = "failed" -> [link EXCEPT !.status = "failed"]
                        [] f.phase = "schedule" -> [link EXCEPT !.status = "scheduled"]
    IN  IF f.phase = "save" THEN With(f.list, f.id, Planned)
        ELSE IF f.phase = "delete" THEN Without(f.list, f.id)
        ELSE IF Has(f.list, f.id) THEN With(f.list, f.id, edit(f.list[f.id]))
        ELSE f.list

-----------------------------------------------------------------------------
(* Flows *)

At(n, phases, step) == flows[n].at = step /\ flows[n].phase \in phases
Go(n, f) == flows' = [flows EXCEPT ![n] = f]
Next_(n, step) == Go(n, [flows[n] EXCEPT !.at = step])
Written(n) == Go(n, [flows[n] EXCEPT !.at = "read", !.list = NoLinks])
Note(n) == Go(n, [flows[n] EXCEPT !.phase = "failed", !.at = "latest", !.list = NoLinks])
Created(n) == Go(n, [flows[n] EXCEPT !.phase = "created", !.at = "latest"])
End(n) == Go(n, Idle)
Busy == \E n \in Slots : flows[n] # Idle

\* The user begins flow f; with another under way, or on a page that has not
\* loaded the links, this is no longer calm.
Begin(f) ==
    /\ begun < MaxBegun /\ begun' = begun + 1
    /\ \E n \in Slots : /\ flows[n] = Idle /\ \A m \in 1..(n - 1) : flows[m] # Idle
                        /\ Go(n, f)
    /\ calm' = (calm /\ ~Busy /\ (page.state = "ready" \/ f.phase = "refresh"))

\* Mutant: a link that could not be saved leaves Create disabled.
Freed_Deleted(n) == [page EXCEPT !.saving = @ /\ flows[n].phase # "delete"]

\* saving is saveState "checking", which disables Create.
Freed(n) == [page EXCEPT !.saving = @ /\ flows[n].phase \notin {"save", "delete"}]

\* The catch of a flow: a failed generation is noted in the link, any other
\* flow ends.
Caught(n) ==
    /\ calm' = FALSE
    /\ IF flows[n].phase \in {"mark", "created"}
       THEN Note(n) /\ UNCHANGED page
       ELSE End(n) /\ page' = Freed(n)

CreateLink ==
    /\ page.chosen /\ page.state # "failed" /\ ~page.saving
    /\ \E i \in Ids \ used :
         /\ Begin(Flow("save", "write", i, page.links))
         /\ used' = used \cup {i}
    /\ page' = [page EXCEPT !.saving = TRUE]
    /\ UNCHANGED <<stored, fabric, deleted>>

\* Mutant: a scheduled link keeps its notebook.
Removes_Created(link) == link.status = "created"

\* deleteLink removes the notebook of a link that has one.
Removes(link) == link.notebook

\* Nothing disables the button, so a link may be deleted while its notebook
\* is being created, and twice.
DeleteLink ==
    /\ \E i \in DOMAIN page.links :
         /\ Begin(Flow("delete", IF Removes(page.links[i]) THEN "remove" ELSE "write", i, page.links))
         /\ deleted' = deleted \cup {i}
    /\ page' = [page EXCEPT !.saving = TRUE]
    /\ UNCHANGED <<stored, fabric, used>>

SaveSchedule ==
    /\ \E i \in DOMAIN page.links :
         page.links[i].notebook /\ Begin(Flow("schedule", "schedule", i, NoLinks))
    /\ UNCHANGED <<stored, fabric, page, used, deleted>>

Refresh ==
    /\ Begin(Flow("refresh", "lists", Idle.id, NoLinks))
    /\ \A n \in Slots : flows[n].phase # "refresh"
    /\ page' = [page EXCEPT !.state = "checking"]
    /\ UNCHANGED <<stored, fabric, used, deleted>>

\* The databases and the lakehouses come first; with them a link can be
\* chosen, although the links are still to be read.
ListEnds(n) ==
    /\ At(n, {"refresh"}, "lists")
    /\ \E ok \in BOOLEAN : page' = [page EXCEPT !.chosen = ok] /\ calm' = (calm /\ ok)
    /\ Next_(n, "read")
    /\ UNCHANGED <<stored, fabric, history>>

-----------------------------------------------------------------------------
(* saveLinkState: the list is replaced as a whole, then read back *)

\* The update may be refused, and its answer may be lost.
Write(n) ==
    /\ flows[n].at = "write"
    /\ \/ stored' = Edited(flows[n]) /\ Written(n) /\ UNCHANGED <<page, calm>>
       \/ stored' \in {stored, Edited(flows[n])} /\ Caught(n)
    /\ UNCHANGED <<fabric, history>>

\* What is read back is what the page shows, and what the flow goes on with.
Read(n) ==
    /\ flows[n].at = "read"
    /\ LET f == flows[n]
       IN  \/ /\ page' = [Freed(n) EXCEPT !.links = stored, !.state = "ready"]
              /\ CASE f.phase = "save" -> Go(n, [f EXCEPT !.phase = "mark", !.at = "write",
                                                          !.list = stored, !.old = stored])
                   [] f.phase = "mark" -> Go(n, [f EXCEPT !.at = "post", !.list = stored])
                   [] OTHER -> End(n)
              /\ UNCHANGED calm
           \/ f.phase # "refresh" /\ Caught(n)
           \/ /\ f.phase = "refresh"
              /\ page' = [page EXCEPT !.links = NoLinks, !.state = "failed"]
              /\ End(n) /\ calm' = FALSE
    /\ UNCHANGED <<stored, fabric, history>>

\* loadLinks before the last write.  If the link is gone, the list the flow
\* read before is used instead.
Latest(n) ==
    /\ flows[n].at = "latest"
    /\ LET f == flows[n]
           before == IF f.phase = "created" THEN f.list ELSE f.old
           base == IF Has(stored, f.id) \/ f.phase = "schedule" THEN stored ELSE before
       IN  \/ Go(n, [f EXCEPT !.at = "write", !.list = base,
                          !.old = IF f.phase = "created" THEN @ ELSE NoLinks]) /\ UNCHANGED <<page, calm>>
           \/ Caught(n)
    /\ UNCHANGED <<stored, fabric, history>>

-----------------------------------------------------------------------------
(* createNotebook of the backend.  A name is taken by a notebook that      *)
(* exists or is being created.                                             *)

\* Mutant: a notebook is recorded as soon as Fabric has accepted it.
Accepted_Done(n) == Created(n)

\* 202: the operation is polled.
Accepted(n) == Next_(n, "poll")

Taken(i) == \E j \in notebooks \cup creating : Name[j] = Name[i]

\* Accepted at once (201), accepted to be polled (202), a conflict (409), or
\* any other failure, before Fabric was asked or after.
Post(n) ==
    /\ At(n, {"mark"}, "post")
    /\ LET i == flows[n].id
       IN  \/ /\ ~Taken(i) /\ notebooks' = notebooks \cup {i} /\ UNCHANGED creating
              /\ \/ Created(n) /\ UNCHANGED <<page, calm>>
                 \/ Caught(n)
           \/ /\ ~Taken(i) /\ creating' = creating \cup {i} /\ UNCHANGED notebooks
              /\ \/ Accepted(n) /\ UNCHANGED <<page, calm>>
                 \/ Caught(n)
           \/ /\ Taken(i) /\ UNCHANGED <<notebooks, creating, page, calm>>
              /\ Note(n)
           \/ Caught(n) /\ UNCHANGED <<notebooks, creating>>
    /\ UNCHANGED <<stored, history>>

\* Fabric ends the operation, whether or not the backend still polls it.
FabricCreates(i) ==
    /\ i \in creating /\ creating' = creating \ {i}
    /\ \/ notebooks' = notebooks \cup {i} /\ UNCHANGED calm
       \/ UNCHANGED notebooks /\ calm' = FALSE
    /\ UNCHANGED <<stored, page, flows, history>>

\* Mutant: the operation is polled until it succeeds.
Poll_Forever(n) ==
    /\ At(n, {"mark"}, "poll") /\ flows[n].id \in notebooks
    /\ Created(n)
    /\ UNCHANGED <<stored, fabric, page, history, calm>>

\* pollNotebookCreation: succeeded, or failed, not answered, or past the deadline.
Poll(n) ==
    /\ At(n, {"mark"}, "poll")
    /\ \/ flows[n].id \in notebooks /\ Created(n) /\ UNCHANGED <<page, calm>>
       \/ Caught(n)
    /\ UNCHANGED <<stored, fabric, history>>

\* deleteNotebook: whatever its outcome, the link goes next.
Remove(n) ==
    /\ At(n, {"delete"}, "remove")
    /\ \/ notebooks' = notebooks \ {flows[n].id} /\ UNCHANGED calm
       \/ notebooks' \in {notebooks, notebooks \ {flows[n].id}} /\ calm' = FALSE
    /\ Next_(n, "write")
    /\ UNCHANGED <<stored, creating, page, history>>

\* saveNotebookSchedule, on a notebook that must exist.
Schedule(n) ==
    /\ At(n, {"schedule"}, "schedule")
    /\ \/ flows[n].id \in notebooks /\ Next_(n, "latest") /\ UNCHANGED <<page, calm>>
       \/ Caught(n)
    /\ UNCHANGED <<stored, fabric, history>>

-----------------------------------------------------------------------------
Step(n) ==
    ListEnds(n) \/ Write(n) \/ Read(n) \/ Latest(n) \/ Post(n) \/ Poll(n) \/ Remove(n) \/ Schedule(n)

Next ==
    \/ CreateLink \/ DeleteLink \/ SaveSchedule \/ Refresh
    \/ \E n \in Slots : Step(n)
    \/ \E i \in Ids : FabricCreates(i)

Spec == Init /\ [][Next]_vars

\* Every request is answered or given up; polling stops at its deadline.
FairSpec == Spec /\ \A n \in Slots : WF_vars(Step(n))
=============================================================================
