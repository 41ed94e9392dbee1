--------------------------- MODULE HarvestRegistry ---------------------------
(***************************************************************************)
(* The list of harvestable resources of one harvester: what refresh        *)
(* sessions find on the remote service, page by page, what their finalizer *)
(* deletes, what harvesting sessions copy to the local GeoNode, and what   *)
(* the administrators select and delete meanwhile.                         *)
(*                                                                         *)
(* HarvestSessions models how sessions start, abort and end; here a        *)
(* session only occupies the harvester (`busy`, its status is not READY)   *)
(* and the rows it reads and writes are in the foreground.  A row is read  *)
(* in one step and saved whole in a later one.                             *)
(*                                                                         *)
(* Time is counted in epochs: `clock` advances when a refresh is marked as *)
(* checked, so everything found before the mark is stale for the next      *)
(* refresh and everything found after it is not.                           *)
(***************************************************************************)
EXTENDS Integers, Sequences, FiniteSets, SequencesExt

CONSTANTS
    Ids,          \* unique identifiers of remote resources
    Titles,       \* titles a remote resource may have
    PageSize,     \* resources per page of a refresh
    MaxRefreshes, \* bound: refresh sessions
    MaxHarvests,  \* bound: harvesting sessions
    MaxChanges,   \* bound: changes of the remote service
    MaxRequests,  \* bound: requests of administrators
    Orphans,      \* delete_orphan_resources_automatically
    NewByDefault, \* harvest_new_resources_by_default
    Ops           \* what happens besides refreshes, a subset of AllOps

\* "overlap": sessions are also asked for while the finalizer of a refresh goes on.
AllOps == {"add", "remove", "retitle", "list-fails", "count-fails",
           "finish-fails", "abort", "overlap", "harvest", "harvest-selected",
           "toggle", "delete", "unlink", "check"}

ASSUME ConstantsAssumption ==
    /\ PageSize \in Nat \ {0}
    /\ {MaxRefreshes, MaxHarvests, MaxChanges, MaxRequests} \subseteq Nat
    /\ Orphans \in BOOLEAN /\ NewByDefault \in BOOLEAN
    /\ Ops \subseteq AllOps
    /\ Ids # {} /\ IsFiniteSet(Ids) /\ Titles # {}

VARIABLES
    remote,   \* what the remote service lists, in its order
    title,    \* titles on the remote service
    rows,     \* HarvestableResource rows, by unique identifier
    local,    \* identifiers with a local GeoNode resource
    checked,  \* last_checked_harvestable_resources, -1 for None
    clock,
    busy,     \* the harvester's status is not READY
    refresh,  \* the refresh sessions and their finalizers
    page,     \* the batch tasks of each refresh
    harvest,  \* number of the harvesting session, 0 before the first
    member,   \* the members of the harvesting session
    user,     \* the administrator's request, with its copy of a row
    checker,  \* an availability check, with its copy of `checked`
    used      \* how many changes, requests and primary keys have been used

vars == <<remote, title, rows, local, checked, clock, busy, refresh, page,
          harvest, member, user, checker, used>>

\* Variables that are usually left alone together.
service == <<remote, title>>
mark    == <<checked, clock>>
table   == <<rows, local>>
people  == <<user, checker>>
work    == <<harvest, member>>

Refreshes == 1..MaxRefreshes
\* Mutant: total_pages is rounded down.
M_PageCount(n) == n \div PageSize

PageCount(n) == (n + PageSize - 1) \div PageSize
Pages == 1..PageCount(Cardinality(Ids))

\* A row: pk 0 is no row.
Row == [pk : Nat, title : Titles, wanted : BOOLEAN, geo : BOOLEAN, at : Nat]
NoRow == [pk |-> 0, title |-> CHOOSE t \in Titles : TRUE, wanted |-> FALSE,
          geo |-> FALSE, at |-> 0]

NotStarted == [pc |-> "none", checked |-> -1, abort |-> FALSE, drop |-> {},
               found |-> {}, calm |-> TRUE]
NoPage     == [pc |-> "none", todo |-> <<>>, row |-> NoRow]
NoMember   == [pc |-> "none", row |-> NoRow]
NoRequest  == [op |-> "none", id |-> CHOOSE i \in Ids : TRUE, row |-> NoRow]
NoCheck    == -2

Init ==
    /\ remote \in {<<>>} \cup SetToSeqs(Ids)
    /\ title = [i \in Ids |-> NoRow.title]
    /\ rows = [i \in Ids |-> NoRow]
    /\ local = {}
    /\ checked = -1
    /\ clock = 0
    /\ busy = FALSE
    /\ refresh = [r \in Refreshes |-> NotStarted]
    /\ page = [r \in Refreshes |-> [p \in Pages |-> NoPage]]
    /\ harvest = 0
    /\ member = [i \in Ids |-> NoMember]
    /\ user = NoRequest
    /\ checker = NoCheck
    /\ used = [changes |-> 0, requests |-> 0, pks |-> 0]

Known   == {i \in Ids : rows[i].pk # 0}
Open(r) == refresh[r].pc \notin {"none", "over"}

\* Nothing is under way, neither a refresh or its finalizer nor a harvest.
Quiet == (\A r \in Refreshes : ~Open(r)) /\ \A i \in Ids : member[i].pc = "none"

\* History: what disturbs the refreshes under way, so that their result may
\* differ from what the remote service lists at their end.
Disturb(rs) == [r \in Refreshes |-> IF Open(r) THEN [rs[r] EXCEPT !.calm = FALSE]
                                              ELSE rs[r]]
-----------------------------------------------------------------------------
(***************************************************************************)
(* Model.save() and HarvestableResource.delete() of a copy c of row i.     *)
(***************************************************************************)

\* save() updates the row with the copy's key, or inserts it again if there is
\* none; the unique constraint and the foreign key make it raise.
CanSave(i, c) == rows[i].pk \in {0, c.pk} /\ (c.geo => i \in local)

\* delete() follows the copy's foreign key (DoesNotExist when it dangles), then
\* deletes the local resource (SET_NULL in any row that names it) and the row.
CanDelete(i, c) == c.geo => i \in local

\* Mutant: the queryset deletes the rows in bulk, without calling delete().
M_DeletedLocal(i, c) == local

DeletedLocal(i, c) == IF c.geo /\ Orphans THEN local \ {i} ELSE local
DeletedRow(i, c) == IF rows[i].pk = c.pk THEN NoRow
                    ELSE IF c.geo /\ Orphans THEN [rows[i] EXCEPT !.geo = FALSE]
                    ELSE rows[i]
-----------------------------------------------------------------------------
(***************************************************************************)
(* The remote service.                                                     *)
(***************************************************************************)
RemoteChange ==
    /\ used.changes < MaxChanges
    /\ \/ /\ "add" \in Ops
          /\ \E i \in Ids \ ToSet(remote), k \in 1..(Len(remote) + 1) :
               remote' = InsertAt(remote, k, i)
          /\ UNCHANGED title
       \/ /\ "remove" \in Ops
          /\ \E k \in DOMAIN remote : remote' = RemoveAt(remote, k)
          /\ UNCHANGED title
       \/ /\ "retitle" \in Ops
          /\ \E i \in ToSet(remote), t \in Titles :
               t # title[i] /\ title' = [title EXCEPT ![i] = t]
          /\ UNCHANGED remote
    /\ used' = [used EXCEPT !.changes = @ + 1]
    /\ refresh' = Disturb(refresh)
    /\ UNCHANGED <<mark, table, work, people, busy, page>>
-----------------------------------------------------------------------------
(***************************************************************************)
(* Refresh sessions.                                                       *)
(***************************************************************************)

\* A session starts when the harvester is ready, which it is before the finalizer
\* of a refresh deletes the stale rows and marks the check.
MayStart == ~busy

\* Not a guard of the code but an assumption about its users: without "overlap"
\* they ask for nothing until that finalizer is through.
AskedFor == "overlap" \in Ops \/ \A r \in Refreshes : ~Open(r)

\* update_harvestable_resources: count the remote resources, send one batch
\* task per page.
StartRefresh(r) ==
    /\ MayStart /\ AskedFor
    /\ refresh[r].pc = "none" /\ \A q \in Refreshes : q < r => refresh[q].pc # "none"
    /\ busy' = TRUE
    /\ \/ /\ refresh' = [Disturb(refresh) EXCEPT ![r].pc = "pages", ![r].calm = Quiet]
          /\ page' = [page EXCEPT ![r] = [p \in Pages |->
                        IF p <= PageCount(Len(remote))
                        THEN [NoPage EXCEPT !.pc = "queued"] ELSE NoPage]]
       \/ /\ "count-fails" \in Ops
          /\ refresh' = [Disturb(refresh) EXCEPT ![r].pc = "error", ![r].calm = Quiet]
          /\ UNCHANGED page
    /\ UNCHANGED <<service, mark, table, work, people, used>>

AbortRefresh(r) ==
    /\ "abort" \in Ops
    /\ refresh[r].pc = "pages" /\ ~refresh[r].abort
    /\ refresh' = [refresh EXCEPT ![r].abort = TRUE]
    /\ UNCHANGED <<service, mark, table, work, people, busy, page, used>>

\* _update_harvestable_resources_batch: list one page.  A HarvestingException
\* is logged and the task succeeds with nothing found (so it does when the
\* GeoNode worker gets a bad HTTP status).
ListPage(r, p) ==
    /\ page[r][p].pc = "queued"
    /\ \/ /\ ~refresh[r].abort
          /\ LET ids == SubSeq(remote, (p - 1) * PageSize + 1, Min({p * PageSize, Len(remote)}))
             IN  page' = [page EXCEPT ![r][p] =
                            [pc |-> "find", row |-> NoRow,
                             todo |-> [k \in DOMAIN ids |-> [id |-> ids[k], title |-> title[ids[k]]]]]]
          /\ UNCHANGED refresh
       \/ /\ refresh[r].abort \/ "list-fails" \in Ops
          /\ page' = [page EXCEPT ![r][p].pc = "done"]
          /\ refresh' = [refresh EXCEPT ![r].calm = FALSE]
    /\ UNCHANGED <<service, mark, table, work, people, busy, used>>

\* get_or_create(harvester, unique_identifier, title): a row with the same
\* identifier and another title makes the insertion raise.
FindRow(r, p) ==
    /\ page[r][p].pc = "find" /\ page[r][p].todo # <<>>
    /\ LET f == Head(page[r][p].todo)
           new == [pk |-> used.pks + 1, title |-> f.title, wanted |-> NewByDefault,
                   geo |-> FALSE, at |-> clock]
       IN  \/ /\ rows[f.id].pk = 0
              /\ rows' = [rows EXCEPT ![f.id] = new]
              /\ used' = [used EXCEPT !.pks = @ + 1]
              /\ refresh' = [refresh EXCEPT ![r].found = @ \cup {f.id}]
              /\ page' = [page EXCEPT ![r][p].pc = "save", ![r][p].row = new]
           \/ /\ rows[f.id].pk # 0 /\ rows[f.id].title = f.title
              /\ refresh' = [refresh EXCEPT ![r].found = @ \cup {f.id}]
              /\ page' = [page EXCEPT ![r][p].pc = "save", ![r][p].row = rows[f.id]]
              /\ UNCHANGED <<rows, used>>
           \/ /\ rows[f.id].pk # 0 /\ rows[f.id].title # f.title
              /\ page' = [page EXCEPT ![r][p].pc = "error"]
              /\ UNCHANGED <<rows, used, refresh>>
    /\ UNCHANGED <<service, mark, work, people, local, busy>>

\* The row found is saved whole, with `at` as the time it was found.
SaveRow(r, p, at) ==
    /\ page[r][p].pc = "save"
    /\ LET i == Head(page[r][p].todo).id
           c == [page[r][p].row EXCEPT !.at = at]
       IN  IF CanSave(i, c)
           THEN /\ rows' = [rows EXCEPT ![i] = c]
                /\ page' = [page EXCEPT ![r][p] =
                              [pc |-> "find", row |-> NoRow, todo |-> Tail(@.todo)]]
           ELSE page' = [page EXCEPT ![r][p].pc = "error"] /\ UNCHANGED rows
    /\ UNCHANGED <<service, mark, work, people, local, busy, refresh, used>>

\* Mutants: a row that existed keeps its time; the time is ahead of the clock.
M_SaveFoundOld(r, p)  == SaveRow(r, p, page[r][p].row.at)
M_SaveFoundLate(r, p) == SaveRow(r, p, clock + 1)

SaveFound(r, p) == SaveRow(r, p, clock)

EndPage(r, p) ==
    /\ page[r][p].pc = "find" /\ page[r][p].todo = <<>>
    /\ page' = [page EXCEPT ![r][p].pc = "done"]
    /\ UNCHANGED <<service, mark, table, work, people, busy, refresh, used>>

PagesSettled(r) == \A p \in Pages : page[r][p].pc \in {"none", "done", "error"}
PagesFailed(r)  == \E p \in Pages : page[r][p].pc = "error"

Close(r, p) == refresh' = [refresh EXCEPT ![r].pc = p, ![r].drop = {}]

\* _handle_harvestable_resources_update_error: mark the check, then finish.
FailRefresh(r) ==
    /\ \/ refresh[r].pc = "error"
       \/ refresh[r].pc = "pages" /\ PagesSettled(r) /\ PagesFailed(r)
    /\ checked' = clock
    /\ clock' = clock + 1
    /\ busy' = FALSE
    /\ Close(r, "over")
    /\ UNCHANGED <<service, table, work, people, page, used>>

\* _finish_harvestable_resources_update: read the harvester, finish the session
\* (the harvester becomes ready), go on to the stale rows unless it was aborted
\* or is the first check.
FinishRefresh(r) ==
    /\ refresh[r].pc = "pages" /\ PagesSettled(r) /\ ~PagesFailed(r)
    /\ busy' = FALSE
    /\ refresh' = [refresh EXCEPT
         ![r].checked = checked,
         ![r].pc = IF refresh[r].abort \/ checked = -1 THEN "mark" ELSE "stale"]
    /\ UNCHANGED <<service, mark, table, work, people, page, used>>

\* _delete_stale_harvestable_resources: the queryset is evaluated once ...
SelectStale(r) ==
    /\ refresh[r].pc = "stale"
    /\ refresh' = [refresh EXCEPT
         ![r].pc = "mark",
         ![r].drop = {[id |-> i, row |-> rows[i]] :
                        i \in {j \in Known : rows[j].at <= refresh[r].checked}}]
    /\ UNCHANGED <<service, mark, table, work, people, busy, page, used>>

\* ... and its copies are deleted one by one.
DropStale(r) ==
    /\ \E d \in refresh[r].drop :
         /\ CanDelete(d.id, d.row)
         /\ local' = DeletedLocal(d.id, d.row)
         /\ rows' = [rows EXCEPT ![d.id] = DeletedRow(d.id, d.row)]
         /\ refresh' = [refresh EXCEPT ![r].drop = @ \ {d}]
    /\ UNCHANGED <<service, mark, work, people, busy, page, used>>

\* A deletion that cannot be made raises, and so may anything else: the chord's
\* error callback marks the check and finishes the session a second time.
RaiseFinalizer(r) ==
    /\ refresh[r].pc \in {"stale", "mark"}
    /\ \/ "finish-fails" \in Ops
       \/ \E d \in refresh[r].drop : ~CanDelete(d.id, d.row)
    /\ Close(r, "error")
    /\ UNCHANGED <<service, mark, table, work, people, busy, page, used>>

\* The harvester row is refreshed from the database, marked and saved.
MarkChecked(r) ==
    /\ refresh[r].pc = "mark" /\ refresh[r].drop = {}
    /\ checked' = clock
    /\ clock' = clock + 1
    /\ Close(r, "over")
    /\ UNCHANGED <<service, table, work, people, busy, page, used>>
-----------------------------------------------------------------------------
(***************************************************************************)
(* Harvesting sessions.                                                    *)
(***************************************************************************)

\* harvesting_dispatcher and harvest_resources: one member per resource that
\* should be harvested, or that an administrator selected.
StartHarvest ==
    /\ "harvest" \in Ops
    /\ MayStart /\ AskedFor
    /\ harvest < MaxHarvests
    /\ \E ids \in (SUBSET Known) \ {{}} :
         /\ "harvest-selected" \notin Ops => ids = {i \in Known : rows[i].wanted}
         /\ member' = [i \in Ids |-> IF i \in ids THEN [pc |-> "queued", row |-> rows[i]]
                                                  ELSE NoMember]
    /\ harvest' = harvest + 1
    /\ busy' = TRUE
    /\ refresh' = Disturb(refresh)
    /\ UNCHANGED <<service, mark, table, people, page, used>>

Member(i, p, row) == member' = [member EXCEPT ![i] = [pc |-> p, row |-> row]]

\* _harvest_resource: get the row by its key; it raises when the row is gone.
ReadResource(i) ==
    /\ member[i].pc = "queued"
    /\ IF rows[i].pk = member[i].row.pk THEN Member(i, "work", rows[i])
                                        ELSE Member(i, "done", NoRow)
    /\ UNCHANGED <<service, mark, table, people, busy, refresh, page, harvest, used>>

\* worker.get_resource and update_geonode_resource: create the local resource
\* (by its uuid, so again is the same) or update it.  A failure that the code
\* handles leaves everything as it is; a dangling key raises.
HarvestResource(i) ==
    /\ member[i].pc = "work"
    /\ LET c == member[i].row
       IN  \/ Member(i, "last", c) /\ UNCHANGED local
           \/ /\ i \in ToSet(remote) /\ ~c.geo
              /\ local' = local \cup {i}
              /\ Member(i, "link", [c EXCEPT !.geo = TRUE])
           \/ /\ i \in ToSet(remote) /\ c.geo
              /\ Member(i, IF i \in local THEN "link" ELSE "done", c)
              /\ UNCHANGED local
    /\ UNCHANGED <<service, mark, people, rows, busy, refresh, page, harvest, used>>

\* The copy is saved whole once it is linked and once more at the end.
SaveHarvested(i) ==
    /\ member[i].pc \in {"link", "last"}
    /\ LET c == member[i].row
       IN  IF CanSave(i, c)
           THEN /\ rows' = [rows EXCEPT ![i] = c]
                /\ Member(i, IF member[i].pc = "link" THEN "last" ELSE "done", c)
           ELSE Member(i, "done", c) /\ UNCHANGED rows
    /\ UNCHANGED <<service, mark, people, local, busy, refresh, page, harvest, used>>

\* _finish_harvesting or _handle_harvesting_error.
EndHarvest ==
    /\ \E i \in Ids : member[i].pc # "none"
    /\ \A i \in Ids : member[i].pc \in {"none", "done"}
    /\ member' = [i \in Ids |-> NoMember]
    /\ busy' = FALSE
    /\ UNCHANGED <<service, mark, table, people, refresh, page, harvest, used>>
-----------------------------------------------------------------------------
(***************************************************************************)
(* Administrators, and availability checks.                                *)
(***************************************************************************)

\* A change-list action or an API update reads the row it is about.
UserRead(op, i) ==
    /\ op \in Ops \cap {"toggle", "delete"}
    /\ user.op = "none" /\ used.requests < MaxRequests
    /\ i \in Known
    /\ user' = [op |-> op, id |-> i, row |-> rows[i]]
    /\ used' = [used EXCEPT !.requests = @ + 1]
    /\ UNCHANGED <<service, mark, table, work, busy, refresh, page, checker>>

\* toggle_should_be_harvested, HarvestableResourceSerializer.create.
UserToggle ==
    /\ user.op = "toggle"
    /\ LET c == [user.row EXCEPT !.wanted = ~@]
       IN  rows' = IF CanSave(user.id, c) THEN [rows EXCEPT ![user.id] = c] ELSE rows
    /\ user' = NoRequest
    /\ refresh' = Disturb(refresh)
    /\ UNCHANGED <<service, mark, work, local, busy, page, checker, used>>

\* HarvestableResourceAdmin.delete_queryset.
UserDelete ==
    /\ user.op = "delete"
    /\ IF CanDelete(user.id, user.row)
       THEN /\ local' = DeletedLocal(user.id, user.row)
            /\ rows' = [rows EXCEPT ![user.id] = DeletedRow(user.id, user.row)]
       ELSE UNCHANGED <<table>>
    /\ user' = NoRequest
    /\ refresh' = Disturb(refresh)
    /\ UNCHANGED <<service, mark, work, busy, page, checker, used>>

\* The local resource is deleted elsewhere in GeoNode (SET_NULL).
Unlink(i) ==
    /\ "unlink" \in Ops
    /\ i \in local /\ used.requests < MaxRequests
    /\ local' = local \ {i}
    /\ rows' = [rows EXCEPT ![i].geo = FALSE]
    /\ used' = [used EXCEPT !.requests = @ + 1]
    /\ UNCHANGED <<service, mark, work, people, busy, refresh, page>>

\* Harvester.update_availability saves the whole harvester row, with the
\* last_checked_harvestable_resources it read before asking the remote service.
CheckRead ==
    /\ "check" \in Ops
    /\ checker = NoCheck /\ used.requests < MaxRequests
    /\ checker' = checked
    /\ used' = [used EXCEPT !.requests = @ + 1]
    /\ UNCHANGED <<service, mark, table, work, busy, refresh, page, user>>

CheckSave ==
    /\ checker # NoCheck
    /\ checked' = checker
    /\ checker' = NoCheck
    /\ UNCHANGED <<service, table, work, clock, busy, refresh, page, user, used>>

Next ==
    \/ RemoteChange
    \/ \E r \in Refreshes :
         \/ StartRefresh(r) \/ AbortRefresh(r) \/ FailRefresh(r)
         \/ FinishRefresh(r) \/ SelectStale(r) \/ DropStale(r) \/ RaiseFinalizer(r)
         \/ MarkChecked(r)
         \/ \E p \in Pages : ListPage(r, p) \/ FindRow(r, p) \/ SaveFound(r, p)
                             \/ EndPage(r, p)
    \/ StartHarvest \/ EndHarvest
    \/ \E i \in Ids : ReadResource(i) \/ HarvestResource(i) \/ SaveHarvested(i)
                      \/ Unlink(i)
    \/ \E i \in Ids, op \in Ops : UserRead(op, i)
    \/ UserToggle \/ UserDelete \/ CheckRead \/ CheckSave

Spec == Init /\ [][Next]_vars
-----------------------------------------------------------------------------
(***************************************************************************)
(* Properties.                                                             *)
(***************************************************************************)

\* Types of rows, copies and program points; the last check is in the past and
\* no row was found in the future.
TypeOK ==
    /\ ToSet(remote) \subseteq Ids /\ IsInjective(remote)
    /\ title \in [Ids -> Titles]
    /\ rows \in [Ids -> Row] /\ \A i \in Ids : rows[i].at <= clock
    /\ local \subseteq Ids
    /\ clock \in Nat /\ checked \in -1..(clock - 1)
    /\ busy \in BOOLEAN
    /\ \A r \in Refreshes :
         /\ refresh[r].pc \in {"none", "pages", "error", "stale", "mark", "over"}
         /\ refresh[r].found \subseteq Ids
         /\ \A d \in refresh[r].drop : d.id \in Ids /\ d.row \in Row
         /\ \A p \in Pages : page[r][p].pc \in {"none", "queued", "find", "save", "done", "error"}
    /\ member \in [Ids -> [pc : {"none", "queued", "work", "link", "last", "done"}, row : Row]]

\* The refresh list keeps the promise of ResourceList: what a refresh found is
\* in the list when the refresh closes, and only a refresh that did not find a
\* resource drops it.
List == INSTANCE ResourceList WITH
            running <- \E r \in Refreshes : Open(r),
            known   <- Known,
            found   <- UNION {refresh[r].found : r \in {q \in Refreshes : Open(q)}}
Promise == List!Spec

\* A refresh that was not aborted and during which nothing else happened to the
\* list (no change of the remote service, no other session or finalizer, no save
\* or deletion by an administrator), and which read the mark of the check before
\* it (no availability check had saved an older one over it), ends with exactly
\* the resources that the remote service lists, under their present titles:
\* whatever sessions overlapped, failed or raised, and whatever was saved late,
\* before it.
Undisturbed(r) == /\ refresh[r].pc = "mark" /\ refresh[r].drop = {}
                  /\ refresh[r].calm /\ ~refresh[r].abort
                  /\ refresh[r].checked = clock - 1
EndsSynced ==
    \A r \in Refreshes : Undisturbed(r) =>
        /\ Known = ToSet(remote)
        /\ \A i \in ToSet(remote) : rows[i].title = title[i]

\* With delete_orphan_resources_automatically no local resource survives the
\* row that accounts for it (or is about to, when it has just been created).
LocalOwned ==
    Orphans => \A i \in local : rows[i].geo \/ member[i].pc = "link"
=============================================================================
