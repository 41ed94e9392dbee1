----------------------------- MODULE CommandJobs -----------------------------
(***************************************************************************)
(* One ManagementCommandJob of geonode.management_commands_http: the       *)
(* requests that create, start, stop, save and delete it, and the celery   *)
(* tasks that run its command.                                             *)
(*                                                                         *)
(* A request reads the row, checks and changes its copy, and saves the     *)
(* whole copy; so does the JobRunner that a task enters and leaves.  The   *)
(* copies are not refreshed in between, which is what the steps here keep. *)
(***************************************************************************)
EXTENDS Integers

CONSTANTS
    Actors,     \* requests that may be in progress at the same time
    Ops,        \* what they may ask for, a subset of AllOps
    MaxReads,   \* bound: requests about the job once it exists
    MaxTasks,   \* bound: tasks sent for the job
    MaxFailures \* bound: workers that die with their task, tasks that cannot be sent

\* "edit" is the Save button of the admin's change page.
AllOps == {"start", "stop", "edit", "delete"}

ASSUME ConstantsAssumption ==
    /\ Ops \subseteq AllOps
    /\ {MaxReads, MaxTasks, MaxFailures} \subseteq Nat

VARIABLES
    row,  \* the job's row
    req,  \* the requests, with their copies of the row
    task, \* the celery tasks, with their copies of the row
    used, \* requests, failures, executions of the command and redeliveries so far
    past  \* history: what happened that nothing in the code guards against

vars == <<row, req, task, used, past>>

Tasks == 1..MaxTasks
CREATED  == "CREATED"
QUEUED   == "QUEUED"
STARTED  == "STARTED"
FINISHED == "FINISHED"

\* celery is the task in celery_result_id, 0 for none: set once one has begun.
Job   == [status : {"none", CREATED, QUEUED}, celery : {0}]
         \cup [status : {STARTED, FINISHED}, celery : Tasks]
NoJob == [status |-> "none", celery |-> 0]

Idle     == [pc |-> "idle", op |-> "start", job |-> NoJob]
NotSent  == [pc |-> "none", job |-> NoJob]

Init ==
    /\ row = NoJob
    /\ req = [a \in Actors |-> Idle]
    /\ task = [t \in Tasks |-> NotSent]
    /\ used = [created |-> FALSE, reads |-> 0, failures |-> 0, runs |-> 0, again |-> 0]
    /\ past = [overlap |-> FALSE, edited |-> FALSE, cut |-> FALSE, unsent |-> FALSE,
               redone |-> FALSE]

Become(a, p, op, job) == req' = [req EXCEPT ![a] = [pc |-> p, op |-> op, job |-> job]]
Done(a) == req' = [req EXCEPT ![a] = Idle]
\* overlap: a request began while another was in progress; edited: a copy that
\* was no longer the row was saved; cut: a job or its task was taken away;
\* unsent: a task could not be sent; redone: celery delivered again a task whose
\* end is stored.
Record(flag) == past' = [past EXCEPT ![flag] = TRUE]
Task(t, p, job) == task' = [task EXCEPT ![t] = [pc |-> p, job |-> job]]
-----------------------------------------------------------------------------
(***************************************************************************)
(* Requests.                                                               *)
(***************************************************************************)

\* CreateJobMixin.perform_create and save_model: insert the row, then start it
\* from the same instance if autostart says so.
Create(a) ==
    /\ req[a].pc = "idle" /\ ~used.created
    /\ row' = [status |-> CREATED, celery |-> 0]
    /\ used' = [used EXCEPT !.created = TRUE]
    /\ \/ Become(a, "act", "start", row')
       \/ UNCHANGED req
    /\ UNCHANGED <<task, past>>

\* get_object, or the evaluation of the action's queryset.
Read(a, op) ==
    /\ req[a].pc = "idle" /\ row.status # "none"
    /\ used.reads < MaxReads
    /\ used' = [used EXCEPT !.reads = @ + 1]
    /\ Become(a, "act", op, row)
    /\ IF \A b \in Actors : req[b].pc = "idle" THEN UNCHANGED past ELSE Record("overlap")
    /\ UNCHANGED <<row, task>>

Acting(a, op) == req[a].pc = "act" /\ req[a].op = op

\* start_task: only the copy's status is checked.
\* Mutant: only a finished job is refused.
M_MayStart(job) == job.status # FINISHED

MayStart(job) == job.status = CREATED

StartTask(a) ==
    /\ Acting(a, "start")
    /\ IF MayStart(req[a].job)
       THEN /\ row' = [req[a].job EXCEPT !.status = QUEUED]
            /\ Become(a, "send", "start", row')
       ELSE Done(a) /\ UNCHANGED row
    /\ UNCHANGED <<task, used, past>>

\* run_management_command_async.delay; when the broker does not take the task
\* the request ends in an error, and the job stays queued.
SendTask(a) ==
    /\ req[a].pc = "send"
    /\ Done(a)
    /\ \/ /\ \E t \in Tasks :
               /\ task[t].pc = "none" /\ \A u \in Tasks : u < t => task[u].pc # "none"
               /\ Task(t, "queued", NoJob)
          /\ UNCHANGED <<used, past>>
       \/ /\ used.failures < MaxFailures
          /\ used' = [used EXCEPT !.failures = @ + 1]
          /\ Record("unsent")
          /\ UNCHANGED task
    /\ UNCHANGED row

\* stop_task: the task named by the copy is revoked, and the process that runs
\* it terminated.  One that waits to be delivered again is revoked if a worker
\* hears of it; a task that never entered its JobRunner is not known.
StopTask(a) ==
    /\ Acting(a, "stop")
    /\ LET t == req[a].job.celery
       IN  \/ /\ t \in Tasks /\ task[t].pc \in {"queued", "loaded", "run"}
              /\ Task(t, "killed", task[t].job) /\ Record("cut")
           \/ /\ ~(t \in Tasks /\ task[t].pc \in {"loaded", "run"})
              /\ UNCHANGED <<task, past>>
    /\ Done(a)
    /\ UNCHANGED <<row, used>>

\* ModelAdmin.save_model of the change page, whose fields are all read-only.
SaveModel(a) ==
    /\ Acting(a, "edit")
    /\ row' = req[a].job
    /\ IF row' = row THEN UNCHANGED past ELSE Record("edited")
    /\ Done(a)
    /\ UNCHANGED <<task, used>>

\* Deletion is permitted while the copy says CREATED.
\* Mutant: it is permitted unless the copy says that the command runs.
M_Delete(a) ==
    /\ Acting(a, "delete")
    /\ IF req[a].job.status # STARTED
       THEN row' = NoJob /\ Record("cut")
       ELSE UNCHANGED <<row, past>>
    /\ Done(a)
    /\ UNCHANGED <<task, used>>

Delete(a) ==
    /\ Acting(a, "delete")
    /\ IF req[a].job.status = CREATED
       THEN row' = NoJob /\ Record("cut")
       ELSE UNCHANGED <<row, past>>
    /\ Done(a)
    /\ UNCHANGED <<task, used>>
-----------------------------------------------------------------------------
(***************************************************************************)
(* The task: run_management_command and its JobRunner.                     *)
(***************************************************************************)

\* The row is loaded; NotFound is raised when there is none.
\* Mutant: a row that is not queued is refused.
M_LoadJob(t) ==
    /\ task[t].pc = "queued"
    /\ IF row.status # QUEUED THEN Task(t, "notfound", NoJob) ELSE Task(t, "loaded", row)
    /\ UNCHANGED <<row, req, used, past>>

LoadJob(t) ==
    /\ task[t].pc = "queued"
    /\ IF row.status = "none" THEN Task(t, "notfound", NoJob) ELSE Task(t, "loaded", row)
    /\ UNCHANGED <<row, req, used, past>>

\* JobRunner.__enter__
\* Mutant: the task's id is not recorded.
M_EnterJob(t) ==
    /\ task[t].pc = "loaded"
    /\ row' = [task[t].job EXCEPT !.status = STARTED]
    /\ Task(t, "run", row')
    /\ used' = [used EXCEPT !.runs = @ + 1]
    /\ UNCHANGED <<req, past>>

EnterJob(t) ==
    /\ task[t].pc = "loaded"
    /\ row' = [status |-> STARTED, celery |-> t]
    /\ Task(t, "run", row')
    /\ used' = [used EXCEPT !.runs = @ + 1]
    /\ UNCHANGED <<req, past>>

\* JobRunner.__exit__, whether the command returned or raised.
\* Mutant: nothing is saved when it raised.
M_ExitJob(t) ==
    /\ task[t].pc = "run"
    /\ row' \in {row, [task[t].job EXCEPT !.status = FINISHED]}
    /\ Task(t, "done", task[t].job)
    /\ UNCHANGED <<req, used, past>>

ExitJob(t) ==
    /\ task[t].pc = "run"
    /\ row' = [task[t].job EXCEPT !.status = FINISHED]
    /\ Task(t, "done", row')
    /\ UNCHANGED <<req, used, past>>

\* The worker acknowledges a task when it has ended, not when it takes it
\* (CELERY_ACKS_LATE): until then the broker keeps it.
Acknowledge(t) ==
    /\ task[t].pc = "done"
    /\ Task(t, "acked", task[t].job)
    /\ UNCHANGED <<row, req, used, past>>

\* A worker dies with the task it has taken, and the broker delivers the task
\* again, even when its end is stored; or it is only the child process that
\* dies, and the worker acknowledges the task as failed.
Crash(t) ==
    /\ used.failures < MaxFailures
    /\ \/ /\ task[t].pc \in {"loaded", "run", "done"}
          /\ Task(t, "queued", NoJob)
          /\ used' = [used EXCEPT !.failures = @ + 1,
                                  !.again = IF task[t].pc = "loaded" THEN @ ELSE @ + 1]
          /\ past' = [past EXCEPT !.redone = @ \/ task[t].pc = "done"]
       \/ /\ task[t].pc \in {"loaded", "run"}
          /\ Task(t, "killed", task[t].job)
          /\ used' = [used EXCEPT !.failures = @ + 1]
          /\ Record("cut")
    /\ UNCHANGED <<row, req>>

RequestStep(a) == StartTask(a) \/ SendTask(a) \/ StopTask(a) \/ SaveModel(a) \/ Delete(a)
TaskStep(t)    == LoadJob(t) \/ EnterJob(t) \/ ExitJob(t) \/ Acknowledge(t)

Next ==
    \/ \E a \in Actors : Create(a) \/ RequestStep(a) \/ \E op \in Ops : Read(a, op)
    \/ \E t \in Tasks : TaskStep(t) \/ Crash(t)

Spec == Init /\ [][Next]_vars

\* Requests in progress go on, workers take tasks and commands end; nobody has
\* to make a request.
FairSpec ==
    /\ Spec
    /\ \A a \in Actors : WF_vars(RequestStep(a))
    /\ \A t \in Tasks : WF_vars(TaskStep(t))
-----------------------------------------------------------------------------
(***************************************************************************)
(* Properties.                                                             *)
(***************************************************************************)

\* Types of the row, its copies and the program points.
TypeOK ==
    /\ row \in Job
    /\ req \in [Actors -> [pc : {"idle", "act", "send"}, op : AllOps, job : Job]]
    /\ task \in [Tasks -> [pc : {"none", "queued", "loaded", "run", "done",
                                 "acked", "killed", "notfound"}, job : Job]]
    /\ used \in [created : BOOLEAN, reads : 0..MaxReads, failures : 0..MaxFailures,
                 runs : Nat, again : Nat]
    /\ past \in [overlap : BOOLEAN, edited : BOOLEAN, cut : BOOLEAN, unsent : BOOLEAN,
                 redone : BOOLEAN]

\* As long as the requests about a job do not overlap, its command is executed
\* once, however often it is asked to start and whatever its change page writes
\* back: it is executed again only when celery delivers its task again because
\* the worker died after the command had begun, once for each such death.
RunsOnce == ~past.overlap => used.runs <= 1 + used.again

\* A job that is shown as started names the task that runs its command, waits to
\* run it again or was terminated: stop_task has no other way to find it.  Only a
\* stale change page can break this, overlapping requests cannot.
StartedIsKnown ==
    row.status = STARTED /\ ~past.edited
        => row.celery \in Tasks /\ task[row.celery].pc \in {"queued", "loaded", "run", "killed"}

\* A finished job is never shown as anything else again, without overlapping
\* requests and stale change pages: no late task or request overwrites the row,
\* except that the same task, delivered again after its end, starts it again.
FinishedIsFinal ==
    [][row.status = FINISHED /\ ~past.overlap /\ ~past'.edited
           => \/ row'.status = FINISHED
              \/ past.redone /\ row' = [row EXCEPT !.status = STARTED]]_<<row, past>>

\* A queued job is finished in the end, with any overlap of requests that start
\* it and though workers die and their tasks are delivered again, unless it is
\* edited, deleted or stopped, its task could not be sent or was acknowledged as
\* failed by a worker whose child process died.
QueuedFinishes ==
    (row.status = QUEUED) ~> (row.status = FINISHED \/ past.edited \/ past.cut \/ past.unsent)
=============================================================================
