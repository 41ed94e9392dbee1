--------------------------- MODULE HarvestSessions ---------------------------
(***************************************************************************)
(* One harvester of geonode.harvesting and the asynchronous sessions that  *)
(* run for it.                                                             *)
(*                                                                         *)
(* The code keeps two kinds of database rows, Harvester and                *)
(* AsynchronousHarvestingSession, and never locks them.  A Django instance *)
(* is a private copy of a row: it is read once, consulted later, and       *)
(* `save()` writes every column of the copy back.  The model keeps each    *)
(* such read and each such write as a step of its own, because what other  *)
(* processes do in between is what the properties are about.  Two saves of *)
(* one row with only assignments between them are one step.                *)
(*                                                                         *)
(* Processes: `Actors` are the web requests (admin actions and API calls), *)
(* the periodic scheduler and the availability-check task; every session   *)
(* has one control task (dispatcher, work-out, finalizer: each enqueues    *)
(* the next) and, while its celery chord runs, one member task per item.   *)
(* An item is a harvestable resource of a harvesting session or a page of  *)
(* remote resources of a refresh session.                                  *)
(***************************************************************************)
EXTENDS Integers, FiniteSets

CONSTANTS
    Actors,      \* processes that issue requests
    Items,       \* harvestable resources, and pages of a refresh
    Ops,         \* the operations the actors may issue (a subset of AllOps)
    MaxSessions, \* bound: sessions ever created
    MaxLost,     \* bound: task executions lost with their worker
    MaxRaised    \* bound: sessions whose finalizer raises

(***************************************************************************)
(* Names of the source: Harvester.STATUS_*, AsynchronousHarvestingSession  *)
(* STATUS_* and TYPE_*.                                                    *)
(***************************************************************************)
READY            == "ready"
UPDATING         == "updating-harvestable-resources"
ABORTING_UPDATE  == "aborting-update-harvestable-resources"
PERFORMING       == "harvesting-resources"
ABORTING_HARVEST == "aborting-harvesting-resources"
CHECKING         == "checking-availability"
HarvesterStatus  == {READY, UPDATING, ABORTING_UPDATE, PERFORMING,
                     ABORTING_HARVEST, CHECKING}

NONE          == "none"     \* the row does not exist yet
PENDING       == "pending"
ON_GOING      == "on-going"
ALL_OK        == "finished-all-ok"
ALL_FAILED    == "finished-all-failed"
SOME_FAILED   == "finished-some-failed"
ABORTING      == "aborting"
ABORTED       == "aborted"
SessionStatus == {NONE, PENDING, ON_GOING, ALL_OK, ALL_FAILED, SOME_FAILED,
                  ABORTING, ABORTED}

DISCOVER    == "discover-harvestable-resources"
HARVEST     == "harvesting"
SessionType == {DISCOVER, HARVEST}

Sessions == 1..MaxSessions

\* Mutant: the session type is stored in the status column.
M_BusyStatus(type) == type

BusyStatus(type)     == IF type = DISCOVER THEN UPDATING ELSE PERFORMING
AbortingStatus(type) == IF type = DISCOVER THEN ABORTING_UPDATE
                                           ELSE ABORTING_HARVEST

(***************************************************************************)
(* The operations, by the status check they make.                          *)
(***************************************************************************)
AdminStart == {"refresh", "harvest", "harvest-selected"}
AdminAbort == {"abort-refresh", "abort-harvest"}
ApiStart   == {"api-refresh", "api-harvest"}
ApiOther   == {"api-abort-refresh", "api-abort-harvest", "api-check", "api-edit"}
AllOps     == AdminStart \cup AdminAbort \cup ApiStart \cup ApiOther
              \cup {"check", "check-task", "schedule", "reset"}
StartOps   == AdminStart \cup ApiStart \cup {"schedule"}

OpType(op) == IF op \in {"refresh", "abort-refresh", "api-refresh",
                         "api-abort-refresh"}
              THEN DISCOVER ELSE HARVEST

ASSUME ConstantsAssumption ==
    /\ Ops \subseteq AllOps
    /\ IsFiniteSet(Items)
    /\ MaxSessions \in Nat
    /\ MaxLost \in Nat
    /\ MaxRaised \in Nat

-----------------------------------------------------------------------------
VARIABLES
    hstatus, \* harvester row: its `status` column
    sess,    \* session rows
    task,    \* the control task of each session
    member,  \* the chord members of each session
    actor,   \* requests in progress, with their copies of rows
    checks,  \* check_harvester_available tasks waiting in the queue
    faults   \* how many executions have been lost, whose finalizer has raised

vars == <<hstatus, sess, task, member, actor, checks, faults>>

\* A session row.  Only F() updates and whole-row saves touch `done`.
Row == [type: SessionType, status: SessionStatus, ended: BOOLEAN, done: Nat]
NoRow == [type |-> DISCOVER, status |-> NONE, ended |-> FALSE, done |-> 0]

NewRow(type) == [type |-> type, status |-> PENDING, ended |-> FALSE, done |-> 0]

ActorPc == {"idle", "avail", "act", "reset", "create", "send", "latest",
            "abort-save", "api", "api-save", "api-send", "api-check"}
Idle == [op |-> "check", pc |-> "idle", h |-> READY, s |-> 0, row |-> NoRow]

TaskPc == {"none", "update", "u-ongoing", "u-harvester", "u-avail", "u-num",
           "u-save", "u-session", "u-error", "dispatch", "harvest",
           "h-harvester", "h-avail", "h-session", "chord", "finish", "free",
           "recheck", "recheck-save", "e-save", "e-finish", "e-free", "over",
           "lost"}

\* A control task at program point p, and what it remembers there: its copy of
\* the harvester's status or of the session row, the final status it decided,
\* the resources to harvest.
At(p)         == [pc |-> p, h |-> READY, row |-> NoRow, final |-> NONE, ids |-> {}]
With(p, h)    == [pc |-> p, h |-> h, row |-> NoRow, final |-> NONE, ids |-> {}]
Finishing(st) == [pc |-> "finish", h |-> READY, row |-> NoRow, final |-> st, ids |-> {}]
Holding(p, row, ids) ==
    [pc |-> p, h |-> READY, row |-> row, final |-> NONE, ids |-> ids]

TaskRecord  == [pc : TaskPc, h : HarvesterStatus, row : Row,
                final : SessionStatus, ids : SUBSET Items]
ActorRecord == [op : AllOps, pc : ActorPc, h : HarvesterStatus,
                s : 0..MaxSessions, row : Row]

\* A harvest counts its success ("counted") before the last save of its row,
\* which may raise ("unsaved") or be lost with the worker ("gone").
MemberState == {"none", "queued", "working", "counted", "ok", "failed", "error",
                "unsaved", "skipped", "lost", "gone"}
AtWork  == {"queued", "working", "counted"}
Settled == {"ok", "failed", "error", "unsaved", "skipped"}
Raised  == {"error", "unsaved"}
Missing == {"lost", "gone"}
Counted == {"counted", "ok", "unsaved", "gone"}
NoMembers == [i \in Items |-> "none"]

Created == {s \in Sessions : sess[s].status # NONE}
Starting == {a \in Actors : /\ actor[a].op \in StartOps /\ actor[a].s = 0
                            /\ actor[a].pc # "idle"
                            /\ actor[a].op = "schedule" => actor[a].pc = "create"}
\* The bound on sessions: a request that will create one is made (by the
\* scheduler: decided on) only if there is room for it and for those under way.
Room == Cardinality(Created) + Cardinality(Starting) < MaxSessions

Init ==
    /\ hstatus = READY
    /\ sess = [s \in Sessions |-> NoRow]
    /\ task = [s \in Sessions |-> At("none")]
    /\ member = [s \in Sessions |-> NoMembers]
    /\ actor = [a \in Actors |-> Idle]
    /\ checks = 0
    /\ faults = [lost |-> 0, raised |-> {}]

-----------------------------------------------------------------------------
(***************************************************************************)
(* Requests: admin.py, api/serializers.py, the scheduler, and the methods  *)
(* of models.Harvester they call.                                          *)
(***************************************************************************)

\* Request a goes on at p, with its copy h of the status, about session s and
\* with its copy of that session's row.
Continue(a, p, h, s, row) ==
    actor' = [actor EXCEPT ![a] = [op |-> actor[a].op, pc |-> p, h |-> h,
                                   s |-> s, row |-> row]]
Done(a) == actor' = [actor EXCEPT ![a] = Idle]

\* Where a request goes on once it has read the row.  The API refuses at once
\* when the copy is not READY; the reset action does nothing when it is; the
\* scheduler checks availability only when that is due.
Enters(op, p) ==
    \/ op = "reset" /\ hstatus # READY /\ p = "reset"
    \/ op \in ApiStart \cup ApiOther /\ hstatus = READY /\ p = "api"
    \/ op = "schedule" /\ p \in {"avail", "act"}
    \/ op \in AdminStart \cup AdminAbort \cup {"check", "check-task"} /\ p = "avail"

ReadHarvester(a, op) ==
    /\ actor[a].pc = "idle"
    /\ op \in AdminStart \cup ApiStart => Room
    /\ op = "check-task" => checks > 0
    /\ op = "api-check" => checks = 0   \* bound: one queued check at a time
    /\ checks' = IF op = "check-task" THEN checks - 1 ELSE checks
    /\ \E p \in ActorPc :
         /\ Enters(op, p)
         /\ actor' = [actor EXCEPT ![a] = [op |-> op, pc |-> p, h |-> hstatus,
                                           s |-> 0, row |-> NoRow]]
    /\ UNCHANGED <<hstatus, sess, task, member, faults>>

\* Harvester.update_availability: ask the remote server, then save the copy.
\* The admin actions go on only if it answered; the scheduler does anyway.
UpdateAvailability(a) ==
    /\ actor[a].pc = "avail"
    /\ hstatus' = actor[a].h
    /\ \E available \in BOOLEAN :
         IF \/ actor[a].op = "schedule"
            \/ available /\ actor[a].op \in AdminStart \cup AdminAbort
         THEN Continue(a, "act", actor[a].h, 0, NoRow)
         ELSE Done(a)
    /\ UNCHANGED <<sess, task, member, checks, faults>>

\* initiate_update_harvestable_resources / initiate_perform_harvesting: the
\* check is made on the copy, the row is marked busy.
InitiateStart(a, type) ==
    /\ actor[a].pc = "act"
    /\ \/ actor[a].op \in AdminStart /\ type = OpType(actor[a].op)
       \/ actor[a].op = "schedule" /\ Room
    /\ actor[a].h = READY
    /\ hstatus' = BusyStatus(type)
    /\ Continue(a, "create", BusyStatus(type), 0, NoRow)
    /\ UNCHANGED <<sess, task, member, checks, faults>>

\* worker_can_perform_action refuses (RuntimeError), or nothing is due.
Refuse(a) ==
    /\ actor[a].pc = "act"
    /\ \/ actor[a].op = "schedule"
       \/ actor[a].op \in AdminStart /\ actor[a].h # READY
       \/ actor[a].op \in AdminAbort /\ actor[a].h # BusyStatus(OpType(actor[a].op))
    /\ Done(a)
    /\ UNCHANGED <<hstatus, sess, task, member, checks, faults>>

IsNext(s) == sess[s].status = NONE /\ \A r \in Sessions : r < s => sess[r].status # NONE

\* AsynchronousHarvestingSession.objects.create: a pending row.
CreateSession(a, s) ==
    /\ actor[a].pc = "create"
    /\ IsNext(s)
    /\ \E type \in SessionType :
         /\ BusyStatus(type) = actor[a].h
         /\ sess' = [sess EXCEPT ![s] = NewRow(type)]
         /\ Continue(a, "send", actor[a].h, s, NewRow(type))
    /\ UNCHANGED <<hstatus, task, member, checks, faults>>

\* AsynchronousHarvestingSession.initiate: save the copy, enqueue the task.
FirstTask(op, type, ids) ==
    IF type = DISCOVER THEN At("update")
    ELSE IF op = "harvest-selected" THEN Holding("harvest", NoRow, ids)
    ELSE At("dispatch")

Initiate(a) ==
    /\ actor[a].pc = "send"
    /\ \E ids \in (SUBSET Items) \ {{}} :
         /\ actor[a].op # "harvest-selected" => ids = Items
         /\ task' = [task EXCEPT ![actor[a].s] =
                       FirstTask(actor[a].op, actor[a].row.type, ids)]
    /\ sess' = [sess EXCEPT ![actor[a].s] = actor[a].row]
    /\ Done(a)
    /\ UNCHANGED <<hstatus, member, checks, faults>>

\* initiate_abort_*: the check is made on the copy, the row marked aborting.
InitiateAbort(a) ==
    /\ actor[a].pc = "act"
    /\ actor[a].op \in AdminAbort
    /\ actor[a].h = BusyStatus(OpType(actor[a].op))
    /\ hstatus' = AbortingStatus(OpType(actor[a].op))
    /\ Continue(a, "latest", AbortingStatus(OpType(actor[a].op)), 0, NoRow)
    /\ UNCHANGED <<sess, task, member, checks, faults>>

\* Mutant: only a pending session is aborted.
M_AbortedStatus(st) == IF st = PENDING THEN ABORTED ELSE st

\* AsynchronousHarvestingSession.abort, computed on a copy of the row.
AbortedStatus(st) ==
    IF st = PENDING THEN ABORTED ELSE IF st = ON_GOING THEN ABORTING ELSE st

AbortedRow(row) == [row EXCEPT !.status = AbortedStatus(row.status)]

OfType(type) == {s \in Created : sess[s].type = type}

\* latest_refresh_session / latest_harvesting_session; None.abort() raises.
ReadLatest(a) ==
    /\ actor[a].pc = "latest"
    /\ \/ /\ OfType(OpType(actor[a].op)) = {}
          /\ Done(a)
       \/ \E s \in OfType(OpType(actor[a].op)) :
            /\ \A r \in OfType(OpType(actor[a].op)) : r <= s
            /\ Continue(a, "abort-save", actor[a].h, s, AbortedRow(sess[s]))
    /\ UNCHANGED <<hstatus, sess, task, member, checks, faults>>

SaveAbort(a) ==
    /\ actor[a].pc = "abort-save"
    /\ sess' = [sess EXCEPT ![actor[a].s] = actor[a].row]
    /\ Done(a)
    /\ UNCHANGED <<hstatus, task, member, checks, faults>>

\* admin: reset_harvester_status.
ResetStatus(a) ==
    /\ actor[a].pc = "reset"
    /\ hstatus' = READY
    /\ Done(a)
    /\ UNCHANGED <<sess, task, member, checks, faults>>

\* HarvesterSerializer.update asked for a busy status: the session is created
\* before the harvester row is saved.
ApiCreateSession(a, s) ==
    /\ actor[a].pc = "api"
    /\ actor[a].op \in ApiStart
    /\ IsNext(s)
    /\ sess' = [sess EXCEPT ![s] = NewRow(OpType(actor[a].op))]
    /\ Continue(a, "api-save", actor[a].h, s, NewRow(OpType(actor[a].op)))
    /\ UNCHANGED <<hstatus, task, member, checks, faults>>

\* super().update saves the whole row ...
ApiSaveBusy(a) ==
    /\ actor[a].pc = "api-save"
    /\ hstatus' = BusyStatus(OpType(actor[a].op))
    /\ Continue(a, "api-send", actor[a].h, actor[a].s, actor[a].row)
    /\ UNCHANGED <<sess, task, member, checks, faults>>

\* ... then the task is enqueued.
ApiStartTask(a) ==
    /\ actor[a].pc = "api-send"
    /\ task' = [task EXCEPT ![actor[a].s] = FirstTask("api", OpType(actor[a].op), {})]
    /\ Done(a)
    /\ UNCHANGED <<hstatus, sess, member, checks, faults>>

\* HarvesterSerializer.update, the requests that create no session: an aborting
\* status is only stored; a change of other fields saves the copy, READY status
\* included; checking-availability is stored before its task is enqueued.
ApiSave(a) ==
    /\ actor[a].pc = "api"
    /\ \/ actor[a].op = "api-edit" /\ hstatus' = actor[a].h
       \/ /\ actor[a].op \in {"api-abort-refresh", "api-abort-harvest"}
          /\ hstatus' = AbortingStatus(OpType(actor[a].op))
    /\ Done(a)
    /\ UNCHANGED <<sess, task, member, checks, faults>>

ApiSaveChecking(a) ==
    /\ actor[a].pc = "api"
    /\ actor[a].op = "api-check"
    /\ hstatus' = CHECKING
    /\ Continue(a, "api-check", actor[a].h, 0, NoRow)
    /\ UNCHANGED <<sess, task, member, checks, faults>>

ApiStartCheck(a) ==
    /\ actor[a].pc = "api-check"
    /\ checks' = checks + 1
    /\ Done(a)
    /\ UNCHANGED <<hstatus, sess, task, member, faults>>

ActorStep(a) ==
    \/ UpdateAvailability(a)
    \/ \E type \in SessionType : InitiateStart(a, type)
    \/ Refuse(a)
    \/ \E s \in Sessions : CreateSession(a, s) \/ ApiCreateSession(a, s)
    \/ Initiate(a)
    \/ InitiateAbort(a)
    \/ ReadLatest(a)
    \/ SaveAbort(a)
    \/ ResetStatus(a)
    \/ ApiSaveBusy(a)
    \/ ApiStartTask(a)
    \/ ApiSave(a)
    \/ ApiSaveChecking(a)
    \/ ApiStartCheck(a)

-----------------------------------------------------------------------------
(***************************************************************************)
(* The control task of a session: tasks.py.                                *)
(***************************************************************************)
Goto(s, p)    == task' = [task EXCEPT ![s].pc = p]
Become(s, t)  == task' = [task EXCEPT ![s] = t]
OnlyTask      == UNCHANGED <<hstatus, sess, member, actor, checks, faults>>

\* update_harvestable_resources: a session found aborted is skipped, and
\* nothing else is done.
StartRefresh(s) ==
    /\ task[s].pc = "update"
    /\ Become(s, IF sess[s].status = ABORTED THEN At("over")
                 ELSE Holding("u-ongoing", [sess[s] EXCEPT !.status = ON_GOING], {}))
    /\ OnlyTask

MarkOnGoing(s) ==
    /\ task[s].pc = "u-ongoing"
    /\ sess' = [sess EXCEPT ![s] = task[s].row]
    /\ Goto(s, "u-harvester")
    /\ UNCHANGED <<hstatus, member, actor, checks, faults>>

\* `session.harvester` is fetched, then its availability is checked.
FetchHarvester(s) ==
    /\ task[s].pc \in {"u-harvester", "h-harvester"}
    /\ task' = [task EXCEPT
                   ![s].h = hstatus,
                   ![s].pc = IF task[s].pc = "u-harvester" THEN "u-avail" ELSE "h-avail"]
    /\ OnlyTask

\* update_availability saves the copy; if the server answered the row is saved
\* again as busy, otherwise the session is finished as all-failed.
CheckRemote(s) ==
    /\ task[s].pc \in {"u-avail", "h-avail"}
    /\ \/ /\ hstatus' = task[s].h
          /\ Become(s, Finishing(ALL_FAILED))
       \/ /\ hstatus' = BusyStatus(sess[s].type)
          /\ Goto(s, IF task[s].pc = "u-avail" THEN "u-num" ELSE "h-session")
    /\ UNCHANGED <<sess, member, actor, checks, faults>>

\* worker.get_num_available_resources: answered, or the error handler runs
\* (it fetches the harvester row first).
CountRemote(s) ==
    /\ task[s].pc = "u-num"
    /\ \/ Goto(s, "u-save")
       \/ Become(s, With("u-error", hstatus))
    /\ OnlyTask

\* num_harvestable_resources is stored with a whole-row save of the copy.
SaveNumber(s) ==
    /\ task[s].pc = "u-save"
    /\ hstatus' = UPDATING
    /\ Goto(s, "u-session")
    /\ UNCHANGED <<sess, member, actor, checks, faults>>

\* The session row is saved whole (its copy says on-going) and the chord of
\* its members is sent; a chord without members runs its body at once.
LaunchChord(s) ==
    /\ task[s].pc \in {"u-session", "h-session"}
    /\ sess' = [sess EXCEPT ![s] = task[s].row]
    /\ \E ids \in SUBSET Items :
         /\ task[s].pc = "h-session" => ids = task[s].ids
         /\ member' = [member EXCEPT ![s] =
                         [i \in Items |-> IF i \in ids THEN "queued" ELSE "none"]]
    /\ Become(s, At("chord"))
    /\ UNCHANGED <<hstatus, actor, checks, faults>>

\* _handle_harvestable_resources_update_error: saves its copy of the harvester
\* row, then finishes the session.
RefreshError(s) ==
    /\ task[s].pc = "u-error"
    /\ hstatus' = task[s].h
    /\ Become(s, Finishing(SOME_FAILED))
    /\ UNCHANGED <<sess, member, actor, checks, faults>>

\* harvesting_dispatcher: collect the resources selected for harvesting.
Dispatch(s) ==
    /\ task[s].pc = "dispatch"
    /\ \E ids \in SUBSET Items :
         Become(s, IF ids = {} THEN Finishing(ALL_OK)
                   ELSE Holding("harvest", NoRow, ids))
    /\ OnlyTask

\* harvest_resources.
StartHarvest(s) ==
    /\ task[s].pc = "harvest"
    /\ Become(s, IF sess[s].status = ABORTED THEN At("over")
                 ELSE Holding("h-harvester", [sess[s] EXCEPT !.status = ON_GOING],
                              task[s].ids))
    /\ OnlyTask

\* A member reads the session's status and works or gives up:
\* _harvest_resource only on ABORTING, a page of a refresh unless ON_GOING.
GivesUp(row) == IF row.type = HARVEST THEN row.status = ABORTING
                                      ELSE row.status # ON_GOING

StartMember(s, i) ==
    /\ member[s][i] = "queued"
    /\ member' = [member EXCEPT ![s][i] = IF GivesUp(sess[s]) THEN "skipped"
                                                             ELSE "working"]
    /\ UNCHANGED <<hstatus, sess, task, actor, checks, faults>>

\* _harvest_resource: once the local resource is stored records_done grows in
\* the database; the last save of the harvestable resource comes after that.
\* Mutant: the member saves its whole copy of the session, not an F() update.
M_CountMember(s, i) ==
    /\ member[s][i] = "working"
    /\ sess[s].type = HARVEST
    /\ member' = [member EXCEPT ![s][i] = "counted"]
    /\ sess' = [sess EXCEPT ![s].done = @ + 1, ![s].status = ON_GOING]
    /\ UNCHANGED <<hstatus, task, actor, checks, faults>>

CountMember(s, i) ==
    /\ member[s][i] = "working"
    /\ sess[s].type = HARVEST
    /\ member' = [member EXCEPT ![s][i] = "counted"]
    /\ sess' = [sess EXCEPT ![s].done = @ + 1]
    /\ UNCHANGED <<hstatus, task, actor, checks, faults>>

\* A page of a refresh counts what it found as its last step.
CountPage(s, i) ==
    /\ member[s][i] = "working"
    /\ sess[s].type = DISCOVER
    /\ member' = [member EXCEPT ![s][i] = "ok"]
    /\ sess' = [sess EXCEPT ![s].done = @ + 1]
    /\ UNCHANGED <<hstatus, task, actor, checks, faults>>

\* The work failed in a way the code handles, or raised; what was counted is
\* saved, or its save raises.
\* Mutant: the counter also grows for handled failures.
M_EndMember(s, i) ==
    /\ \E r \in MemberState :
         /\ \/ member[s][i] = "working" /\ r \in {"failed", "error"}
            \/ member[s][i] = "counted" /\ r \in {"ok", "unsaved"}
         /\ member' = [member EXCEPT ![s][i] = r]
         /\ sess' = IF r = "failed" THEN [sess EXCEPT ![s].done = @ + 1] ELSE sess
    /\ UNCHANGED <<hstatus, task, actor, checks, faults>>

EndMember(s, i) ==
    /\ \E r \in MemberState :
         /\ \/ member[s][i] = "working" /\ r \in {"failed", "error"}
            \/ member[s][i] = "counted" /\ r \in {"ok", "unsaved"}
         /\ member' = [member EXCEPT ![s][i] = r]
    /\ UNCHANGED <<hstatus, sess, task, actor, checks, faults>>

ChordMembers(s) == {i \in Items : member[s][i] # "none"}

\* Mutant: the error callback does not exist, the body runs regardless.
M_ChordFailed(s) == FALSE

ChordFailed(s) == \E i \in Items : member[s][i] \in Raised

\* Mutant: the error callback runs at the first failure.
M_ChordDone(s) == \/ ChordFailed(s)
                  \/ \A i \in ChordMembers(s) : member[s][i] \in Settled

ChordDone(s) == \A i \in ChordMembers(s) : member[s][i] \in Settled

\* Mutant: a failure is logged but the session is not finished.
M_FinishChord(s) ==
    /\ task[s].pc = "chord"
    /\ ChordDone(s)
    /\ Become(s, IF ~ChordFailed(s)
                 THEN Finishing(IF sess[s].status = ABORTING THEN ABORTED ELSE ALL_OK)
                 ELSE At("over"))
    /\ OnlyTask

\* Celery runs the chord's body when every member has returned, or its error
\* callback when one of them raised.  The finalizers read the session to tell
\* an abort from a success; _handle_harvesting_error finishes at once.
FinishChord(s) ==
    /\ task[s].pc = "chord"
    /\ ChordDone(s)
    /\ Become(s, IF ~ChordFailed(s)
                 THEN Finishing(IF sess[s].status = ABORTING THEN ABORTED ELSE ALL_OK)
                 ELSE IF sess[s].type = HARVEST THEN Finishing(SOME_FAILED)
                 ELSE With("u-error", hstatus))
    /\ OnlyTask

\* finish_asynchronous_session: two UPDATE statements, the session first.
FinishSession(s) ==
    /\ task[s].pc = "finish"
    /\ sess' = [sess EXCEPT ![s].status = task[s].final, ![s].ended = TRUE]
    /\ Goto(s, "free")
    /\ UNCHANGED <<hstatus, member, actor, checks, faults>>

\* _finish_harvestable_resources_update goes on after that.
FreeHarvester(s) ==
    /\ task[s].pc = "free"
    /\ hstatus' = READY
    /\ Become(s, At(IF /\ sess[s].type = DISCOVER
                       /\ task[s].final \in {ALL_OK, ABORTED}
                    THEN "recheck" ELSE "over"))
    /\ UNCHANGED <<sess, member, actor, checks, faults>>

\* ... it refreshes its copy from the database and saves it whole.
Recheck(s) ==
    /\ task[s].pc = "recheck"
    /\ Become(s, With("recheck-save", hstatus))
    /\ OnlyTask

SaveChecked(s) ==
    /\ task[s].pc = "recheck-save"
    /\ hstatus' = task[s].h
    /\ Become(s, At("over"))
    /\ UNCHANGED <<sess, member, actor, checks, faults>>

\* A chord's body is at work on its finish, or after it: only a body finishes a
\* session as all-ok or aborted, but for a dispatcher that found nothing to do.
InBody(s) ==
    \/ task[s].pc \in {"recheck", "recheck-save"}
    \/ /\ task[s].pc \in {"finish", "free"}
       /\ task[s].final \in {ALL_OK, ABORTED}
       /\ sess[s].type = DISCOVER \/ ChordMembers(s) # {}

\* The body raises: its on_error callback is the one the members have, so it
\* finishes the session as some-failed, also one that the body had ended.
\* Mutant: the body is linked to no error callback.
M_Raise(s) ==
    /\ Cardinality(faults.raised) < MaxRaised
    /\ InBody(s)
    /\ faults' = [faults EXCEPT !.raised = @ \cup {s}]
    /\ Become(s, At("over"))
    /\ UNCHANGED <<hstatus, sess, member, actor, checks>>

Raise(s) ==
    /\ Cardinality(faults.raised) < MaxRaised
    /\ InBody(s)
    /\ faults' = [faults EXCEPT !.raised = @ \cup {s}]
    /\ Become(s, IF task[s].pc = "finish"
                 THEN IF sess[s].type = HARVEST THEN Finishing(SOME_FAILED)
                      ELSE With("u-error", hstatus)
                 ELSE IF sess[s].type = HARVEST THEN At("e-finish")
                      ELSE With("e-save", hstatus))
    /\ UNCHANGED <<hstatus, sess, member, actor, checks>>

\* The callback of a refresh saves its copy of the harvester row ...
SaveError(s) ==
    /\ task[s].pc = "e-save"
    /\ hstatus' = task[s].h
    /\ Become(s, At("e-finish"))
    /\ UNCHANGED <<sess, member, actor, checks, faults>>

\* ... and both finish the session, and make the harvester ready, again.
FinishAgain(s) ==
    /\ task[s].pc = "e-finish"
    /\ sess' = [sess EXCEPT ![s].status = SOME_FAILED, ![s].ended = TRUE]
    /\ Goto(s, "e-free")
    /\ UNCHANGED <<hstatus, member, actor, checks, faults>>

FreeAgain(s) ==
    /\ task[s].pc = "e-free"
    /\ hstatus' = READY
    /\ Become(s, At("over"))
    /\ UNCHANGED <<sess, member, actor, checks, faults>>

TaskStep(s) ==
    \/ StartRefresh(s) \/ MarkOnGoing(s) \/ FetchHarvester(s)
    \/ CheckRemote(s) \/ CountRemote(s) \/ SaveNumber(s)
    \/ LaunchChord(s) \/ RefreshError(s)
    \/ Dispatch(s) \/ StartHarvest(s)
    \/ FinishChord(s) \/ FinishSession(s) \/ FreeHarvester(s)
    \/ Recheck(s) \/ SaveChecked(s)
    \/ SaveError(s) \/ FinishAgain(s) \/ FreeAgain(s)

MemberStep(s, i) ==
    StartMember(s, i) \/ CountMember(s, i) \/ CountPage(s, i) \/ EndMember(s, i)

\* Every task is declared acks_late=False: when its worker dies the execution is
\* gone, and so is one that raises where neither code nor callback catches it.
LoseTask(s) ==
    /\ faults.lost < MaxLost
    /\ task[s].pc \notin {"none", "chord", "over", "lost"}
    /\ faults' = [faults EXCEPT !.lost = @ + 1]
    /\ Become(s, At("lost"))
    /\ UNCHANGED <<hstatus, sess, member, actor, checks>>

LoseMember(s, i) ==
    /\ faults.lost < MaxLost
    /\ \E r \in Missing :
         /\ \/ member[s][i] = "working" /\ r = "lost"
            \/ member[s][i] = "counted" /\ r = "gone"
         /\ member' = [member EXCEPT ![s][i] = r]
    /\ faults' = [faults EXCEPT !.lost = @ + 1]
    /\ UNCHANGED <<hstatus, sess, task, actor, checks>>

Next ==
    \/ \E a \in Actors : ActorStep(a) \/ \E op \in Ops : ReadHarvester(a, op)
    \/ \E s \in Sessions : TaskStep(s) \/ Raise(s) \/ LoseTask(s)
    \/ \E s \in Sessions, i \in Items : MemberStep(s, i) \/ LoseMember(s, i)

Spec == Init /\ [][Next]_vars

(***************************************************************************)
(* Fairness: a request that has begun goes on, and celery workers take     *)
(* every task from the queue and run it to its end.  Nobody is obliged to  *)
(* issue a request.                                                        *)
(***************************************************************************)
Fairness ==
    /\ \A a \in Actors : WF_vars(ActorStep(a))
    /\ \A s \in Sessions : WF_vars(TaskStep(s))
    /\ \A s \in Sessions, i \in Items : WF_vars(MemberStep(s, i))
    /\ WF_vars("check-task" \in Ops /\ \E a \in Actors : ReadHarvester(a, "check-task"))

FairSpec == Spec /\ Fairness

-----------------------------------------------------------------------------
(***************************************************************************)
(* Properties.                                                             *)
(***************************************************************************)

\* Types of all rows, copies and program points.
TypeOK ==
    /\ hstatus \in HarvesterStatus
    /\ sess \in [Sessions -> Row]
    /\ task \in [Sessions -> TaskRecord]
    /\ member \in [Sessions -> [Items -> MemberState]]
    /\ actor \in [Actors -> ActorRecord]
    /\ checks \in Nat
    /\ faults \in [lost : Nat, raised : SUBSET Sessions]

\* A session that has an end date has no member waiting or at work: what the
\* chord's synchronization step is for (note in AsynchronousHarvestingSession
\* .abort), whatever requests, aborts, failures and lost tasks came in between.
WorkSettledBeforeEnd ==
    \A s \in Sessions : sess[s].ended => \A i \in Items : member[s][i] \notin AtWork

\* Once the control task of a session has finished it, no late save of a stale
\* copy shows the session as pending or on-going again.
NeverResurrected ==
    \A s \in Sessions :
        task[s].pc \in {"free", "recheck", "recheck-save", "e-save", "e-finish",
                        "e-free", "over"} =>
            sess[s].status \notin {PENDING, ON_GOING}

\* records_done never exceeds the number of members that stored what they
\* fetched, although whole-row saves of stale copies race with the F() updates
\* of the members.  (It may exceed the number of those that succeeded: the count
\* comes before the last save.)
NeverOvercounts ==
    \A s \in Sessions :
        sess[s].done <= Cardinality({i \in Items : member[s][i] \in Counted})

\* The final status of a session agrees with what became of its tasks: all-ok or
\* aborted only if no member raised or was lost, all-failed only if none was
\* sent, some-failed only if a member or the finalizer raised, or (a refresh)
\* none was sent.
VerdictSound ==
    \A s \in Sessions :
        LET saw(R) == \E i \in Items : member[s][i] \in R
            sent   == ChordMembers(s) # {}
        IN  /\ sess[s].status = ALL_OK => ~saw(Raised \cup Missing)
            /\ sess[s].status = ABORTED /\ sess[s].ended => ~saw(Raised \cup Missing)
            /\ sess[s].status = ALL_FAILED => ~sent
            /\ sess[s].status = SOME_FAILED =>
                  \/ saw(Raised) \/ s \in faults.raised
                  \/ sess[s].type = DISCOVER /\ ~sent

\* While the chord runs, a session marked aborting is never turned back to
\* on-going: the members that have not started will give up.
AbortNotForgotten ==
    [][\A s \in Sessions :
         task[s].pc = "chord" /\ sess[s].status = ABORTING => sess'[s].status # ON_GOING]_vars

\* The control task of s has not ended its session yet.
Working(s) == task[s].pc \notin {"none", "free", "recheck", "recheck-save", "e-save",
                                 "e-finish", "e-free", "over", "lost"}

\* A harvester reported ready has no session at work: a request is refused with
\* "Please wait until its status is reported as 'ready' before retrying"
\* (worker_can_perform_action).  The code does not keep this.
ReadyMeansIdle == hstatus = READY => \A s \in Sessions : ~Working(s)

\* A busy harvester eventually becomes ready again, also when a member or the
\* finalizer raises.
BusyEnds == (hstatus # READY) ~> (hstatus = READY)

\* A session reported on-going does not stay so for ever.
OnGoingEnds == \A s \in Sessions :
    (sess[s].status = ON_GOING) ~> (sess[s].status # ON_GOING)

\* An abort accepted by the admin action ends with the harvester ready.
AbortEnds == (hstatus \in {ABORTING_UPDATE, ABORTING_HARVEST}) ~> (hstatus = READY)
=============================================================================
