-------------------------- MODULE CommandJobsProofs --------------------------
(***************************************************************************)
(* Proofs about CommandJobs: types, and that without overlapping requests  *)
(* a command is executed once, and again only for a worker that died with  *)
(* it, and that the row tells the truth about it.                          *)
(*                                                                         *)
(* The invariant says what every copy of the row may still say when it is  *)
(* saved: a copy in CREATED, or a task about to be sent, exists only while *)
(* no task has been sent; a copy that says FINISHED names a task that has  *)
(* stored its end, and may have been delivered again since; a task that    *)
(* has not begun is one whose execution is not counted yet.                *)
(***************************************************************************)
EXTENDS CommandJobs, TLAPS

\* A task that runs a command has stored its own id.
RunsAsItself == \A t \in Tasks : task[t].pc = "run" => task[t].job.celery = t

\* Nothing happens to a job before it is created.
NotBefore == ~used.created =>
    /\ row = NoJob
    /\ \A a \in Actors : req[a].pc = "idle"
    /\ \A t \in Tasks : task[t].pc = "none"

\* Unless requests overlapped, at most one is in progress.
Alone == ~past.overlap =>
    \A a, b \in Actors : req[a].pc # "idle" /\ req[b].pc # "idle" => a = b

Unsent == \A t \in Tasks : task[t].pc = "none"

\* Unless requests overlapped, only the first start sends a task.
FirstOnly == ~past.overlap =>
    /\ row.status = CREATED => Unsent
    /\ \A a \in Actors : req[a].pc = "act" /\ req[a].job.status = CREATED => Unsent
    /\ \A a \in Actors : req[a].pc = "send" => Unsent /\ row.status = QUEUED
    /\ \A t, u \in Tasks : task[t].pc # "none" /\ task[u].pc # "none" => t = u

\* What a row, or a copy of it, that says FINISHED is based on.
Ended(t) == t \in Tasks /\ task[t].pc # "none" /\ (past.redone \/ task[t].pc \in {"done", "acked"})
Told ==
    /\ row.status = FINISHED => Ended(row.celery)
    /\ \A a \in Actors : req[a].pc = "act" /\ req[a].job.status = FINISHED
                           => Ended(req[a].job.celery)

\* Unless requests overlapped, the executions are the first one and those of the
\* redeliveries, and the one that is to begin is not among them yet.
Counted == ~past.overlap =>
    /\ used.runs <= 1 + used.again
    /\ Unsent => used.runs = 0
    /\ \A t \in Tasks : task[t].pc \in {"queued", "loaded"} => used.runs <= used.again

\* The inductive invariant.
JobInv == TypeOK /\ RunsAsItself /\ NotBefore /\ Alone /\ FirstOnly /\ Told /\ Counted
                 /\ StartedIsKnown
-----------------------------------------------------------------------------
\* Fields of typed copies, and the values that are assigned to the row.
LEMMA JobTypes ==
    /\ NoJob \in Job /\ NoJob.status = "none"
    /\ [status |-> CREATED, celery |-> 0] \in Job
    /\ \A job \in Job : /\ job.status = CREATED => [job EXCEPT !.status = QUEUED] \in Job
                        /\ job.status \in {STARTED, FINISHED} => job.celery \in Tasks
                        /\ job.celery \in Tasks => [job EXCEPT !.status = FINISHED] \in Job
    /\ \A t \in Tasks : [status |-> STARTED, celery |-> t] \in Job
BY DEF Job, NoJob, CREATED, QUEUED, STARTED, FINISHED, Tasks

\* Before the job is created the invariant says nothing but types.
LEMMA InitInv == Init => JobInv
BY ConstantsAssumption, JobTypes
   DEF Init, JobInv, TypeOK, RunsAsItself, NotBefore, Alone, FirstOnly, Told, Counted,
       StartedIsKnown, Unsent, Idle, NotSent, AllOps, NoJob, CREATED, QUEUED, STARTED, FINISHED

-----------------------------------------------------------------------------
\* What Become, Done and Task change, request by request and task by task.
LEMMA RequestChange ==
    ASSUME TypeOK, NEW a \in Actors, NEW p, NEW op, NEW job, Become(a, p, op, job)
    PROVE  /\ req'[a].pc = p /\ req'[a].op = op /\ req'[a].job = job
           /\ \A b \in Actors : b # a => req'[b] = req[b]
BY DEF TypeOK, Become

LEMMA RequestEnd ==
    ASSUME TypeOK, NEW a \in Actors, Done(a)
    PROVE  /\ req'[a].pc = "idle"
           /\ \A b \in Actors : b # a => req'[b] = req[b]
BY DEF TypeOK, Done, Idle

LEMMA TaskChange ==
    ASSUME TypeOK, NEW t \in Tasks, NEW p, NEW job, Task(t, p, job)
    PROVE  /\ task'[t].pc = p /\ task'[t].job = job
           /\ \A u \in Tasks : u # t => task'[u] = task[u]
BY DEF TypeOK, Task

\* ... and of which types they leave the requests and the tasks.
Requests == [Actors -> [pc : {"idle", "act", "send"}, op : AllOps, job : Job]]
TaskSet  == [Tasks -> [pc : {"none", "queued", "loaded", "run", "done", "acked", "killed",
                             "notfound"}, job : Job]]
Counters == [created : BOOLEAN, reads : 0..MaxReads, failures : 0..MaxFailures,
             runs : Nat, again : Nat]
Flags    == [overlap : BOOLEAN, edited : BOOLEAN, cut : BOOLEAN, unsent : BOOLEAN,
             redone : BOOLEAN]

LEMMA RequestsType ==
    ASSUME TypeOK, NEW a \in Actors
    PROVE  /\ Done(a) => req' \in Requests
           /\ \A p \in {"act", "send"}, op \in AllOps, job \in Job :
                  Become(a, p, op, job) => req' \in Requests
<1>1. Idle \in [pc : {"idle", "act", "send"}, op : AllOps, job : Job]
  BY JobTypes DEF Idle, AllOps
<1> QED BY <1>1 DEF TypeOK, Done, Become, Requests

LEMMA TasksType ==
    ASSUME TypeOK, NEW t \in Tasks
    PROVE  \A p \in {"queued", "loaded", "run", "done", "acked", "killed", "notfound"},
              job \in Job : Task(t, p, job) => task' \in TaskSet
BY DEF TypeOK, Task, TaskSet

\* History flags are only raised.
LEMMA Recorded ==
    ASSUME TypeOK, NEW flag \in {"overlap", "edited", "cut", "unsent"}, Record(flag)
    PROVE  /\ past' \in Flags
           /\ past'[flag] = TRUE
           /\ flag # "overlap" => past'.overlap = past.overlap
           /\ flag # "edited" => past'.edited = past.edited
           /\ past'.redone = past.redone
BY DEF TypeOK, Record, Flags

\* What a crash does, to the counters and to the task.
LEMMA CrashChange ==
    ASSUME TypeOK, NEW t \in Tasks, Crash(t)
    PROVE  /\ task[t].pc \in {"loaded", "run", "done"}
           /\ task'[t].pc \in {"queued", "killed"}
           /\ task'[t].pc = "killed" => task[t].pc # "done" /\ used'.again = used.again
           /\ task'[t].pc = "queued" => used'.again = used.again + (IF task[t].pc = "loaded" THEN 0 ELSE 1)
           /\ \A u \in Tasks : u # t => task'[u] = task[u]
           /\ used' \in Counters /\ past' \in Flags /\ task' \in TaskSet
           /\ used'.runs = used.runs /\ used'.created = used.created
           /\ past'.overlap = past.overlap /\ past'.edited = past.edited
           /\ past'.redone = (past.redone \/ (task[t].pc = "done"))
           /\ row' = row /\ req' = req
<1>1. used' \in Counters /\ used'.runs = used.runs /\ used'.created = used.created
  <2>1. MaxFailures \in Nat /\ used \in Counters /\ used.failures < MaxFailures
    BY ConstantsAssumption DEF Crash, TypeOK, Counters, ConstantsAssumption
  <2>2. used.failures + 1 \in 0..MaxFailures /\ used.again + 1 \in Nat
    BY <2>1 DEF Counters
  <2>3. CASE used' = [used EXCEPT !.failures = @ + 1]
    BY <2>1, <2>2, <2>3 DEF Counters
  <2>4. CASE used' = [used EXCEPT !.failures = @ + 1,
                                  !.again = IF task[t].pc = "loaded" THEN @ ELSE @ + 1]
    BY <2>1, <2>2, <2>4 DEF Counters
  <2> QED BY <2>3, <2>4 DEF Crash
<1>2. task[t].job \in Job
  BY DEF TypeOK
<1>3. CASE /\ task[t].pc \in {"loaded", "run", "done"}
           /\ Task(t, "queued", NoJob)
           /\ used' = [used EXCEPT !.failures = @ + 1,
                                   !.again = IF task[t].pc = "loaded" THEN @ ELSE @ + 1]
           /\ past' = [past EXCEPT !.redone = @ \/ task[t].pc = "done"]
  <2>1. /\ past' \in Flags /\ past'.overlap = past.overlap /\ past'.edited = past.edited
        /\ past'.redone = (past.redone \/ (task[t].pc = "done"))
    BY <1>3 DEF TypeOK, Flags
  <2>2. task' \in TaskSet
    BY <1>3, JobTypes, TasksType
  <2>3. used'.again = used.again + (IF task[t].pc = "loaded" THEN 0 ELSE 1)
    BY <1>3 DEF TypeOK
  <2> QED BY <1>1, <1>3, <2>1, <2>2, <2>3, TaskChange DEF Crash
<1>4. CASE /\ task[t].pc \in {"loaded", "run"}
           /\ Task(t, "killed", task[t].job)
           /\ used' = [used EXCEPT !.failures = @ + 1]
           /\ Record("cut")
  <2>1. task' \in TaskSet
    BY <1>2, <1>4, TasksType
  <2>2. used'.again = used.again
    BY <1>4 DEF TypeOK
  <2>3. /\ past' \in Flags /\ past'.overlap = past.overlap /\ past'.edited = past.edited
        /\ past'.redone = past.redone
    BY <1>4, Recorded
  <2>4. task'[t].pc = "killed" /\ \A u \in Tasks : u # t => task'[u] = task[u]
    BY <1>4, TaskChange
  <2>5. past'.redone = (past.redone \/ (task[t].pc = "done"))
    BY <1>4, <2>3 DEF Flags, TypeOK
  <2> QED BY <1>1, <1>4, <2>1, <2>2, <2>3, <2>4, <2>5 DEF Crash
<1> QED BY <1>3, <1>4 DEF Crash

-----------------------------------------------------------------------------
\* Every step keeps the types; a task that ends has stored its own id before.
LEMMA TypeStep == ASSUME TypeOK, RunsAsItself, [Next]_vars PROVE TypeOK'
<1>0. ConstantsAssumption
  BY ConstantsAssumption
<1>1. SUFFICES /\ row' \in Job /\ req' \in Requests /\ task' \in TaskSet
               /\ used' \in Counters
               /\ past' \in Flags
  BY DEF TypeOK, Requests, TaskSet, Counters, Flags
<1>2. /\ row \in Job /\ req \in Requests /\ task \in TaskSet
      /\ used \in Counters
      /\ past \in Flags
      /\ MaxReads \in Nat /\ MaxFailures \in Nat
  BY <1>0 DEF TypeOK, Requests, TaskSet, Counters, Flags, ConstantsAssumption
<1>3. \A a \in Actors : req[a].job \in Job
  BY <1>2 DEF Requests
<1>4. \A t \in Tasks : task[t].job \in Job
  BY <1>2 DEF TaskSet
<1>5. CASE UNCHANGED vars
  BY <1>2, <1>5 DEF vars
<1>6. ASSUME NEW a \in Actors, Create(a) PROVE TypeOK'
  <2>1. row' \in Job
    BY <1>6, JobTypes DEF Create
  <2>2. req' \in Requests
    BY <1>6, <2>1, <1>2, RequestsType DEF Create, AllOps
  <2> QED BY <1>2, <1>6, <2>1, <2>2 DEF Create, TypeOK, Requests, TaskSet, Counters, Flags
<1>7. ASSUME NEW a \in Actors, NEW op \in Ops, Read(a, op) PROVE TypeOK'
  <2>1. req' \in Requests
    BY <1>0, <1>2, <1>7, RequestsType DEF Read, ConstantsAssumption
  <2>2. used' \in Counters
    <3>1. used.reads + 1 \in 0..MaxReads
      BY <1>2, <1>7 DEF Read, Counters
    <3> QED BY <1>2, <1>7, <3>1 DEF Read, Counters
  <2>3. past' \in Flags
    BY <1>2, <1>7, Recorded DEF Read
  <2> QED BY <1>2, <1>7, <2>1, <2>2, <2>3 DEF Read, TypeOK, Requests, TaskSet, Counters, Flags
<1>8. ASSUME NEW a \in Actors, StartTask(a) PROVE TypeOK'
  <2>1. CASE MayStart(req[a].job)
    <3>1. row' \in Job
      BY <1>3, <1>8, <2>1, JobTypes DEF StartTask, MayStart
    <3>2. req' \in Requests
      BY <1>8, <2>1, <3>1, RequestsType DEF StartTask, AllOps
    <3> QED BY <1>2, <1>8, <3>1, <3>2 DEF StartTask, TypeOK, Requests, TaskSet, Counters, Flags
  <2>2. CASE ~MayStart(req[a].job)
    BY <1>2, <1>8, <2>2, RequestsType DEF StartTask, TypeOK, Requests, TaskSet, Counters, Flags
  <2> QED BY <2>1, <2>2
<1>9. ASSUME NEW a \in Actors, SendTask(a) PROVE TypeOK'
  <2>1. task' \in TaskSet
    BY <1>2, <1>9, JobTypes, TasksType DEF SendTask
  <2>2. used' \in Counters
    BY <1>2, <1>9 DEF SendTask, Counters
  <2>3. past' \in Flags
    BY <1>2, <1>9, Recorded DEF SendTask
  <2> QED BY <1>2, <1>9, <2>1, <2>2, <2>3, RequestsType
          DEF SendTask, TypeOK, Requests, TaskSet, Counters, Flags
<1>10. ASSUME NEW a \in Actors, StopTask(a) PROVE TypeOK'
  <2>1. PICK t : \/ t \in Tasks /\ Task(t, "killed", task[t].job) /\ Record("cut")
                 \/ UNCHANGED <<task, past>>
    BY <1>10 DEF StopTask
  <2>2. task' \in TaskSet
    BY <1>2, <1>4, <2>1, TasksType
  <2>3. past' \in Flags
    BY <1>2, <2>1, Recorded
  <2> QED BY <1>2, <1>10, <2>2, <2>3, RequestsType
          DEF StopTask, TypeOK, Requests, TaskSet, Counters, Flags
<1>11. ASSUME NEW a \in Actors, SaveModel(a) PROVE TypeOK'
  <2>1. past' \in Flags
    BY <1>2, <1>11, Recorded DEF SaveModel
  <2> QED BY <1>2, <1>3, <1>11, <2>1, RequestsType DEF SaveModel, TypeOK, Requests, TaskSet, Counters, Flags
<1>12. ASSUME NEW a \in Actors, Delete(a) PROVE TypeOK'
  <2>1. past' \in Flags
    BY <1>2, <1>12, Recorded DEF Delete
  <2>2. row' \in Job
    BY <1>2, <1>12, JobTypes DEF Delete
  <2> QED BY <1>2, <1>12, <2>1, <2>2, RequestsType DEF Delete, TypeOK, Requests, TaskSet, Counters, Flags
<1>13. ASSUME NEW t \in Tasks, TaskStep(t) PROVE TypeOK'
  <2>1. task' \in TaskSet /\ row' \in Job
    <3>1. CASE LoadJob(t)
      BY <1>2, <3>1, JobTypes, TasksType DEF LoadJob
    <3>2. CASE EnterJob(t)
      BY <3>2, JobTypes, TasksType DEF EnterJob
    <3>3. CASE ExitJob(t)
      <4>1. task[t].job.celery \in Tasks
        BY <3>3 DEF ExitJob, RunsAsItself
      <4>2. row' \in Job
        BY <1>4, <3>3, <4>1, JobTypes DEF ExitJob
      <4> QED BY <3>3, <4>2, TasksType DEF ExitJob
    <3>4. CASE Acknowledge(t)
      BY <1>2, <1>4, <3>4, TasksType DEF Acknowledge
    <3> QED BY <1>13, <3>1, <3>2, <3>3, <3>4 DEF TaskStep
  <2>2. used' \in Counters /\ past' = past /\ req' = req
    BY <1>2, <1>13 DEF TaskStep, LoadJob, EnterJob, ExitJob, Acknowledge, Counters
  <2> QED BY <1>2, <2>1, <2>2 DEF TypeOK, Requests, TaskSet, Counters, Flags
<1>14. ASSUME NEW t \in Tasks, Crash(t) PROVE TypeOK'
  BY <1>2, <1>14, CrashChange DEF TypeOK, Requests, TaskSet, Counters, Flags
<1> QED
  BY <1>5, <1>6, <1>7, <1>8, <1>9, <1>10, <1>11, <1>12, <1>13, <1>14
     DEF Next, RequestStep, TypeOK, Requests, TaskSet, Counters, Flags

-----------------------------------------------------------------------------
\* What a step of a task does: it is never as if it had not been sent, and what
\* it has stored stays so.
LEMMA TaskStays ==
    ASSUME TypeOK, NEW t \in Tasks, TaskStep(t)
    PROVE  /\ task[t].pc \in {"queued", "loaded", "run", "done"}
           /\ task'[t].pc \notin {"none", "queued"}
           /\ task[t].pc = "queued" => task'[t].pc \in {"loaded", "notfound"}
           /\ task[t].pc = "loaded" => task'[t].pc = "run"
           /\ task[t].pc = "run" => task'[t].pc = "done"
           /\ task[t].pc = "done" => task'[t].pc = "acked"
           /\ \A u \in Tasks : u # t => task'[u] = task[u]
           /\ req' = req /\ past' = past
           /\ used'.created = used.created /\ used'.again = used.again
<1>1. CASE LoadJob(t)
  <2>1. CASE row.status = "none"
    BY <1>1, <2>1, TaskChange DEF LoadJob
  <2>2. CASE row.status # "none"
    BY <1>1, <2>2, TaskChange DEF LoadJob
  <2> QED BY <2>1, <2>2
<1>2. CASE EnterJob(t)
  BY <1>2, TaskChange DEF EnterJob, TypeOK
<1>3. CASE ExitJob(t)
  BY <1>3, TaskChange DEF ExitJob
<1>4. CASE Acknowledge(t)
  BY <1>4, TaskChange DEF Acknowledge
<1> QED BY <1>1, <1>2, <1>3, <1>4 DEF TaskStep

\* StopTask ends the task it finds, or none.
LEMMA StopStays ==
    ASSUME TypeOK, NEW a \in Actors, StopTask(a)
    PROVE  /\ \A u \in Tasks : \/ task'[u] = task[u]
                               \/ /\ task[u].pc \in {"queued", "loaded", "run"}
                                  /\ task'[u].pc = "killed"
           /\ past'.overlap = past.overlap /\ past'.edited = past.edited
           /\ past'.redone = past.redone
           /\ row' = row /\ used' = used
<1>1. PICK t : \/ /\ t \in Tasks /\ task[t].pc \in {"queued", "loaded", "run"}
                  /\ Task(t, "killed", task[t].job) /\ Record("cut")
               \/ UNCHANGED <<task, past>>
  BY DEF StopTask
<1>2. CASE /\ t \in Tasks /\ task[t].pc \in {"queued", "loaded", "run"}
           /\ Task(t, "killed", task[t].job) /\ Record("cut")
  <2>1. /\ task'[t].pc = "killed" /\ \A u \in Tasks : u # t => task'[u] = task[u]
    BY <1>2, TaskChange
  <2> QED BY <1>2, <2>1, Recorded DEF StopTask
<1>3. CASE UNCHANGED <<task, past>>
  BY <1>3 DEF StopTask
<1> QED BY <1>1, <1>2, <1>3

\* SendTask sends one task, or none.
LEMMA SendChange ==
    ASSUME TypeOK, NEW a \in Actors, SendTask(a)
    PROVE  /\ \/ task' = task
              \/ \E t \in Tasks : /\ task[t].pc = "none" /\ task'[t].pc = "queued"
                                  /\ \A u \in Tasks : u # t => task'[u] = task[u]
           /\ past'.overlap = past.overlap /\ past'.edited = past.edited
           /\ past'.redone = past.redone
           /\ row' = row /\ used'.created = used.created
           /\ used'.runs = used.runs /\ used'.again = used.again
<1>1. CASE UNCHANGED <<used, past>>
  BY <1>1, TaskChange DEF SendTask
<1>2. CASE ~UNCHANGED <<used, past>>
  BY <1>2, Recorded DEF SendTask, TypeOK
<1> QED BY <1>1, <1>2

\* The step of a request leaves that request idle or about to send, and no step
\* of one request is a step of another.
LEMMA RequestStepChange ==
    ASSUME TypeOK, NEW a \in Actors, RequestStep(a)
    PROVE  /\ req[a].pc \in {"act", "send"}
           /\ req'[a].pc \in {"idle", "send"}
           /\ \A b \in Actors : b # a => req'[b] = req[b]
           /\ used'.created = used.created /\ used'.runs = used.runs
           /\ used'.again = used.again
           /\ past'.overlap = past.overlap /\ past'.redone = past.redone
<1>1. CASE StartTask(a)
  <2>1. CASE MayStart(req[a].job)
    BY <1>1, <2>1, RequestChange DEF StartTask, Acting
  <2>2. CASE ~MayStart(req[a].job)
    BY <1>1, <2>2, RequestEnd DEF StartTask, Acting
  <2> QED BY <2>1, <2>2
<1>2. CASE SendTask(a)
  BY <1>2, RequestEnd, SendChange DEF SendTask
<1>3. CASE StopTask(a)
  BY <1>3, RequestEnd, StopStays DEF StopTask, Acting
<1>4. CASE SaveModel(a)
  BY <1>4, RequestEnd, Recorded DEF SaveModel, Acting
<1>5. CASE Delete(a)
  BY <1>5, RequestEnd, Recorded DEF Delete, Acting
<1> QED BY <1>1, <1>2, <1>3, <1>4, <1>5 DEF RequestStep

-----------------------------------------------------------------------------
\* Seen from a task, a step is one of a few: it does nothing to the task, sends
\* it, terminates it or is the task's own.
LEMMA TaskCases ==
    ASSUME TypeOK, [Next]_vars, NEW t \in Tasks
    PROVE  \/ task'[t] = task[t]
           \/ task[t].pc = "none" /\ task'[t].pc = "queued"
           \/ task[t].pc \in {"queued", "loaded", "run"} /\ task'[t].pc = "killed"
           \/ TaskStep(t) \/ Crash(t)
<1>1. CASE UNCHANGED vars
  BY <1>1 DEF vars
<1>2. ASSUME NEW a \in Actors, Create(a) \/ \E op \in Ops : Read(a, op) PROVE task' = task
  BY <1>2 DEF Create, Read
<1>3. ASSUME NEW a \in Actors, RequestStep(a)
      PROVE  \/ task'[t] = task[t]
             \/ task[t].pc = "none" /\ task'[t].pc = "queued"
             \/ task[t].pc \in {"queued", "loaded", "run"} /\ task'[t].pc = "killed"
  <2>1. CASE SendTask(a)
    BY <2>1, SendChange
  <2>2. CASE StopTask(a)
    BY <2>2, StopStays
  <2>3. CASE StartTask(a) \/ SaveModel(a) \/ Delete(a)
    BY <2>3 DEF StartTask, SaveModel, Delete
  <2> QED BY <1>3, <2>1, <2>2, <2>3 DEF RequestStep
<1>4. ASSUME NEW u \in Tasks, TaskStep(u) \/ Crash(u), u # t PROVE task'[t] = task[t]
  BY <1>4, TaskStays, CrashChange
<1> QED BY <1>1, <1>2, <1>3, <1>4 DEF Next

\* A task that was sent stays so; one that has stored its end keeps it unless
\* the worker dies before it acknowledges; one that is or was at work is so, or
\* waits for it, until it has ended.
LEMMA TaskOnward ==
    ASSUME TypeOK, [Next]_vars, NEW t \in Tasks
    PROVE  /\ task[t].pc \in {"done", "acked"} => task'[t].pc \in {"done", "acked"} \/ past'.redone
           /\ task[t].pc = "killed" => task'[t].pc = "killed"
           /\ task[t].pc # "none" => task'[t].pc # "none"
           /\ task[t].pc \in {"queued", "loaded", "run"}
                => \/ task'[t].pc \in {"queued", "loaded", "run", "killed"}
                   \/ ExitJob(t) \/ (LoadJob(t) /\ row.status = "none")
<1>1. CASE TaskStep(t)
  <2>1. CASE LoadJob(t) /\ row.status # "none"
    BY <2>1, TaskChange DEF LoadJob
  <2>2. CASE LoadJob(t) /\ row.status = "none"
    BY <2>2, TaskChange DEF LoadJob
  <2>3. CASE EnterJob(t) \/ ExitJob(t) \/ Acknowledge(t)
    BY <2>3, TaskChange DEF EnterJob, ExitJob, Acknowledge
  <2> QED BY <1>1, <2>1, <2>2, <2>3 DEF TaskStep
<1>2. CASE Crash(t)
  BY <1>2, CrashChange
<1> QED BY <1>1, <1>2, TaskCases

\* Only EnterJob makes a task run, with its own id in its copy.
LEMMA RunsAsItselfStep ==
    ASSUME TypeOK, RunsAsItself, [Next]_vars PROVE RunsAsItself'
<1>1. SUFFICES ASSUME NEW t \in Tasks, task'[t].pc = "run" PROVE task'[t].job.celery = t
  BY DEF RunsAsItself, Tasks
<1>2. CASE TaskStep(t)
  <2>1. CASE EnterJob(t)
    BY <2>1, TaskChange DEF EnterJob
  <2>2. ~EnterJob(t) => task'[t].pc # "run"
    BY <1>2, TaskChange DEF TaskStep, LoadJob, ExitJob, Acknowledge
  <2> QED BY <1>1, <1>2, <2>1, <2>2
<1>3. ~Crash(t)
  BY <1>1, CrashChange
<1> QED BY <1>1, <1>2, <1>3, TaskCases DEF RunsAsItself

\* What was recorded is not forgotten.
LEMMA FlagsStay ==
    ASSUME TypeOK, [Next]_vars
    PROVE  /\ past.overlap => past'.overlap
           /\ past.edited => past'.edited
           /\ past.redone => past'.redone
<1>1. CASE UNCHANGED past
  BY <1>1
<1>2. ASSUME NEW flag \in {"overlap", "edited", "cut", "unsent"}, Record(flag)
      PROVE  /\ past.overlap => past'.overlap
             /\ past.edited => past'.edited
             /\ past.redone => past'.redone
  BY <1>2, Recorded
<1>3. ASSUME NEW t \in Tasks, Crash(t)
      PROVE  /\ past.overlap => past'.overlap
             /\ past.edited => past'.edited
             /\ past.redone => past'.redone
  BY <1>3, CrashChange
<1> QED
  BY <1>1, <1>2, <1>3 DEF Next, vars, RequestStep, TaskStep, Create, Read, StartTask, SendTask,
     StopTask, SaveModel, Delete, LoadJob, EnterJob, ExitJob, Acknowledge

\* Only Create acts before the job exists, and it says so.
LEMMA NotBeforeStep ==
    ASSUME TypeOK, NotBefore, [Next]_vars PROVE NotBefore'
<1>1. CASE UNCHANGED vars
  BY <1>1 DEF vars, NotBefore
<1>2. ASSUME NEW a \in Actors, Create(a) PROVE used'.created
  BY <1>2 DEF Create, TypeOK
<1>3. ASSUME NEW a \in Actors, NEW op \in Ops, Read(a, op) PROVE used.created /\ used'.created
  <2>1. used.created
    BY <1>3, JobTypes DEF Read, NotBefore
  <2> QED BY <1>3, <2>1 DEF Read, TypeOK
<1>4. ASSUME NEW a \in Actors, RequestStep(a) PROVE used.created /\ used'.created
  BY <1>4, RequestStepChange DEF NotBefore
<1>5. ASSUME NEW t \in Tasks, TaskStep(t) \/ Crash(t) PROVE used.created /\ used'.created
  <2>1. used.created
    BY <1>5, TaskStays, CrashChange DEF NotBefore
  <2> QED BY <1>5, <2>1, TaskStays, CrashChange
<1> QED BY <1>1, <1>2, <1>3, <1>4, <1>5 DEF Next, NotBefore

\* A request that begins beside another records the overlap.
LEMMA AloneStep ==
    ASSUME TypeOK, NotBefore, Alone, [Next]_vars PROVE Alone'
<1>1. CASE UNCHANGED vars
  BY <1>1 DEF vars, Alone
<1>2. ASSUME NEW a \in Actors, Create(a) PROVE Alone'
  <2>1. \A b \in Actors : b # a => req'[b].pc = "idle"
    BY <1>2, RequestChange DEF Create, NotBefore
  <2> QED BY <2>1 DEF Alone
<1>3. ASSUME NEW a \in Actors, NEW op \in Ops, Read(a, op) PROVE Alone'
  <2>1. CASE \A b \in Actors : req[b].pc = "idle"
    <3>1. \A b \in Actors : b # a => req'[b].pc = "idle"
      BY <1>3, <2>1, RequestChange DEF Read
    <3> QED BY <3>1 DEF Alone
  <2>2. CASE ~\A b \in Actors : req[b].pc = "idle"
    BY <1>3, <2>2, Recorded DEF Read, Alone
  <2> QED BY <2>1, <2>2
<1>4. ASSUME NEW a \in Actors, RequestStep(a) PROVE Alone'
  <2>1. \A b \in Actors : req'[b].pc # "idle" => req[b].pc # "idle"
    BY <1>4, RequestStepChange
  <2> QED BY <1>4, <2>1, RequestStepChange DEF Alone
<1>5. ASSUME NEW t \in Tasks, TaskStep(t) \/ Crash(t) PROVE Alone'
  BY <1>5, TaskStays, CrashChange DEF Alone
<1> QED BY <1>1, <1>2, <1>3, <1>4, <1>5 DEF Next

-----------------------------------------------------------------------------
\* A row becomes STARTED where a task begins, and stops being so where it ends.
LEMMA KnownStep ==
    ASSUME TypeOK, RunsAsItself, StartedIsKnown, [Next]_vars PROVE StartedIsKnown'
<1> SUFFICES ASSUME row'.status = STARTED, ~past'.edited
             PROVE  /\ row'.celery \in Tasks
                    /\ task'[row'.celery].pc \in {"queued", "loaded", "run", "killed"}
  BY DEF StartedIsKnown
<1>1. ~past.edited
  BY FlagsStay
<1>2. CASE row' = row
  <2>1. row.celery \in Tasks /\ task[row.celery].pc \in {"queued", "loaded", "run", "killed"}
    BY <1>1, <1>2 DEF StartedIsKnown
  <2>2. ~ExitJob(row.celery) /\ row.status # "none"
    BY <1>2 DEF ExitJob, TypeOK, Job, STARTED, FINISHED
  <2> QED BY <1>2, <2>1, <2>2, TaskOnward
<1>3. ASSUME row' # row PROVE \E t \in Tasks : EnterJob(t)
  <2>1. ASSUME NEW a \in Actors, Create(a) PROVE FALSE
    BY <2>1 DEF Create, CREATED, STARTED
  <2>2. ASSUME NEW a \in Actors, RequestStep(a) PROVE FALSE
    <3>1. CASE StartTask(a)
      BY <1>3, <3>1 DEF StartTask, MayStart, TypeOK, Job, CREATED, QUEUED, STARTED
    <3>2. CASE SaveModel(a)
      BY <1>3, <3>2, Recorded DEF SaveModel
    <3>3. CASE Delete(a)
      BY <1>3, <3>3, JobTypes DEF Delete, STARTED
    <3> QED BY <1>3, <2>2, <3>1, <3>2, <3>3 DEF RequestStep, SendTask, StopTask
  <2>3. ASSUME NEW t \in Tasks, LoadJob(t) \/ ExitJob(t) \/ Acknowledge(t) \/ Crash(t) PROVE FALSE
    BY <1>3, <2>3 DEF LoadJob, ExitJob, Acknowledge, Crash, TypeOK, Job, STARTED, FINISHED
  <2> QED BY <1>3, <2>1, <2>2, <2>3 DEF Next, vars, Read, TaskStep
<1>4. CASE row' # row
  <2>1. PICK t \in Tasks : EnterJob(t)
    BY <1>3, <1>4
  <2> QED BY <2>1, TaskChange DEF EnterJob
<1> QED BY <1>2, <1>4

\* What a row, or a copy of it, that says FINISHED is based on stays.
LEMMA ToldStep ==
    ASSUME TypeOK, RunsAsItself, Told, [Next]_vars PROVE Told'
<1> DEFINE Based(job) == job.status = FINISHED
                           => /\ job.celery \in Tasks /\ task[job.celery].pc # "none"
                              /\ past.redone \/ task[job.celery].pc \in {"done", "acked"}
           BasedNext(job) == job.status = FINISHED
                           => /\ job.celery \in Tasks /\ task'[job.celery].pc # "none"
                              /\ past'.redone \/ task'[job.celery].pc \in {"done", "acked"}
<1>1. \A job \in Job : Based(job) => BasedNext(job)
  BY TaskOnward, FlagsStay
<1>2. Based(row) /\ \A a \in Actors : req[a].pc = "act" => Based(req[a].job)
  BY DEF Told, Ended
<1>3. row \in Job /\ \A a \in Actors : req[a].job \in Job
  BY DEF TypeOK
<1>4. BasedNext(row) /\ \A a \in Actors : req[a].pc = "act" => BasedNext(req[a].job)
  BY <1>1, <1>2, <1>3
<1> HIDE DEF Based
<1> SUFFICES BasedNext(row') /\ \A a \in Actors : req'[a].pc = "act" => BasedNext(req'[a].job)
  BY DEF Told, Ended
<1>5. CASE UNCHANGED vars
  BY <1>4, <1>5 DEF vars
<1>6. ASSUME NEW a \in Actors, Create(a)
      PROVE  BasedNext(row') /\ \A b \in Actors : req'[b].pc = "act" => BasedNext(req'[b].job)
  <2>1. BasedNext(row')
    BY <1>6 DEF Create, CREATED, FINISHED
  <2> QED BY <1>4, <1>6, <2>1, RequestChange DEF Create
<1>7. ASSUME NEW a \in Actors, NEW op \in Ops, Read(a, op)
      PROVE  BasedNext(row') /\ \A b \in Actors : req'[b].pc = "act" => BasedNext(req'[b].job)
  BY <1>4, <1>7, RequestChange DEF Read
<1>8. ASSUME NEW a \in Actors, RequestStep(a)
      PROVE  BasedNext(row') /\ \A b \in Actors : req'[b].pc = "act" => BasedNext(req'[b].job)
  <2>1. \A b \in Actors : req'[b].pc = "act" => BasedNext(req'[b].job)
    BY <1>4, <1>8, RequestStepChange
  <2>2. CASE StartTask(a)
    BY <2>1, <1>3, <1>4, <2>2 DEF StartTask, MayStart, Job, CREATED, QUEUED, FINISHED
  <2>3. CASE SaveModel(a)
    BY <2>1, <1>4, <2>3 DEF SaveModel, Acting
  <2>4. CASE Delete(a)
    BY <2>1, <1>4, <2>4, JobTypes DEF Delete, FINISHED
  <2>5. CASE SendTask(a) \/ StopTask(a)
    BY <2>1, <1>4, <2>5 DEF SendTask, StopTask
  <2> QED BY <1>8, <2>1, <2>2, <2>3, <2>4, <2>5 DEF RequestStep
<1>9. ASSUME NEW t \in Tasks, TaskStep(t) \/ Crash(t)
      PROVE  BasedNext(row') /\ \A b \in Actors : req'[b].pc = "act" => BasedNext(req'[b].job)
  <2>0. req' = req
    BY <1>9, TaskStays, CrashChange
  <2>1. CASE ExitJob(t)
    <3>1. task'[t].pc = "done" /\ row'.celery = t
      BY <2>1, TaskChange DEF ExitJob, RunsAsItself, TypeOK, Job
    <3> QED BY <1>4, <2>0, <3>1
  <2>2. CASE EnterJob(t)
    BY <1>4, <2>0, <2>2 DEF EnterJob, STARTED, FINISHED
  <2>3. CASE LoadJob(t) \/ Acknowledge(t) \/ Crash(t)
    BY <1>4, <2>0, <2>3 DEF LoadJob, Acknowledge, Crash
  <2> QED BY <1>9, <2>1, <2>2, <2>3 DEF TaskStep
<1> QED BY <1>5, <1>6, <1>7, <1>8, <1>9 DEF Next

-----------------------------------------------------------------------------
\* The only request in progress is the one that acts; what it saves, and the
\* tasks it finds, are those of the first start or of a job that was started.
LEMMA FirstOnlyStep ==
    ASSUME TypeOK, NotBefore, Alone, FirstOnly, [Next]_vars PROVE FirstOnly'
<1> SUFFICES ASSUME ~past'.overlap
             PROVE  /\ row'.status = CREATED => Unsent'
                    /\ \A a \in Actors : req'[a].pc = "act" /\ req'[a].job.status = CREATED => Unsent'
                    /\ \A a \in Actors : req'[a].pc = "send" => Unsent' /\ row'.status = QUEUED
                    /\ \A t, u \in Tasks : task'[t].pc # "none" /\ task'[u].pc # "none" => t = u
  BY DEF FirstOnly
<1>1. ~past.overlap
  BY FlagsStay
<1>2. /\ row.status = CREATED => Unsent
      /\ \A a \in Actors : req[a].pc = "act" /\ req[a].job.status = CREATED => Unsent
      /\ \A a \in Actors : req[a].pc = "send" => Unsent /\ row.status = QUEUED
      /\ \A t, u \in Tasks : task[t].pc # "none" /\ task[u].pc # "none" => t = u
  BY <1>1 DEF FirstOnly
<1>3. \A a, b \in Actors : req[a].pc # "idle" /\ req[b].pc # "idle" => a = b
  BY <1>1 DEF Alone
<1>4. CREATED # QUEUED /\ CREATED # STARTED /\ CREATED # FINISHED /\ QUEUED # "none" /\ CREATED # "none"
  BY DEF CREATED, QUEUED, STARTED, FINISHED
<1>5. CASE UNCHANGED vars
  BY <1>2, <1>5 DEF vars, Unsent
<1>6. ASSUME NEW a \in Actors, Create(a) PROVE FirstOnly'
  <2>1. Unsent /\ \A b \in Actors : req[b].pc = "idle"
    BY <1>6 DEF Create, NotBefore, Unsent
  <2>2. Unsent'
    BY <1>6, <2>1 DEF Create, Unsent
  <2>3. \A b \in Actors : req'[b].pc # "send"
    BY <1>6, <2>1, RequestChange DEF Create
  <2> QED BY <2>2, <2>3 DEF FirstOnly, Unsent
<1>7. ASSUME NEW a \in Actors, NEW op \in Ops, Read(a, op) PROVE FirstOnly'
  <2>1. \A b \in Actors : req[b].pc = "idle"
    BY <1>7, Recorded DEF Read
  <2>2. /\ req'[a].pc = "act" /\ req'[a].job = row
        /\ \A b \in Actors : b # a => req'[b].pc = "idle"
    BY <1>7, <2>1, RequestChange DEF Read
  <2>3. row' = row /\ task' = task
    BY <1>7 DEF Read
  <2> QED BY <1>2, <2>2, <2>3 DEF FirstOnly, Unsent
<1>8. ASSUME NEW a \in Actors, RequestStep(a) PROVE FirstOnly'
  <2>1. req[a].pc \in {"act", "send"} /\ req'[a].pc \in {"idle", "send"}
    BY <1>8, RequestStepChange
  <2>2. \A b \in Actors : b # a => req'[b].pc = "idle"
    BY <1>3, <1>8, <2>1, RequestStepChange DEF TypeOK
  <2>3. CASE StartTask(a)
    <3>1. CASE MayStart(req[a].job)
      <4>1. Unsent
        BY <1>2, <2>3, <3>1 DEF StartTask, Acting, MayStart
      <4>2. row'.status = QUEUED /\ task' = task
        BY <2>3, <3>1 DEF StartTask, TypeOK, Job
      <4> QED BY <1>2, <1>4, <2>1, <2>2, <4>1, <4>2 DEF FirstOnly, Unsent
    <3>2. CASE ~MayStart(req[a].job)
      BY <1>2, <2>2, <2>3, <3>2, RequestEnd DEF StartTask, FirstOnly, Unsent
    <3> QED BY <3>1, <3>2
  <2>4. CASE SendTask(a)
    <3>1. Unsent /\ row' = row /\ row.status = QUEUED /\ req'[a].pc = "idle"
      BY <1>2, <2>4, RequestEnd DEF SendTask
    <3>2. \A t, u \in Tasks : task'[t].pc # "none" /\ task'[u].pc # "none" => t = u
      BY <2>4, <3>1, SendChange DEF Unsent
    <3> QED BY <1>4, <2>2, <3>1, <3>2 DEF FirstOnly
  <2>5. CASE StopTask(a)
    <3>1. req'[a].pc = "idle" /\ row' = row
      BY <2>5, RequestEnd DEF StopTask
    <3>2. \A t \in Tasks : task'[t].pc = "none" <=> task[t].pc = "none"
      BY <2>5, StopStays
    <3> QED BY <1>2, <2>2, <3>1, <3>2 DEF FirstOnly, Unsent
  <2>6. CASE SaveModel(a)
    <3>1. /\ req'[a].pc = "idle" /\ task' = task
          /\ row'.status = CREATED => Unsent
      BY <1>2, <2>6, RequestEnd DEF SaveModel, Acting
    <3> QED BY <1>2, <2>2, <3>1 DEF FirstOnly, Unsent
  <2>7. CASE Delete(a)
    <3>1. /\ req'[a].pc = "idle" /\ task' = task
          /\ row'.status = CREATED => Unsent
      BY <1>2, <1>4, <2>7, JobTypes, RequestEnd DEF Delete
    <3> QED BY <1>2, <2>2, <3>1 DEF FirstOnly, Unsent
  <2> QED BY <1>8, <2>3, <2>4, <2>5, <2>6, <2>7 DEF RequestStep
<1>9. ASSUME NEW t \in Tasks, TaskStep(t) \/ Crash(t) PROVE FirstOnly'
  <2>1. ~Unsent /\ req' = req
    BY <1>9, TaskStays, CrashChange DEF Unsent
  <2>2. \A u \in Tasks : task'[u].pc # "none" => task[u].pc # "none"
    BY <1>9, TaskStays, CrashChange
  <2>3. row'.status # CREATED
    <3>1. row' = row \/ row'.status = STARTED \/ row'.status = FINISHED
      BY <1>9 DEF TaskStep, LoadJob, EnterJob, ExitJob, Acknowledge, Crash, TypeOK, Job
    <3> QED BY <1>2, <1>4, <2>1, <3>1
  <2> QED BY <1>2, <2>1, <2>2, <2>3 DEF FirstOnly
<1> QED BY <1>5, <1>6, <1>7, <1>8, <1>9 DEF Next, FirstOnly

-----------------------------------------------------------------------------
\* The task that is alone begins once, and again after a death that is counted.
LEMMA CountedStep ==
    ASSUME TypeOK, FirstOnly, Counted, [Next]_vars PROVE Counted'
<1> SUFFICES ASSUME ~past'.overlap
             PROVE  /\ used'.runs <= 1 + used'.again
                    /\ Unsent' => used'.runs = 0
                    /\ \A t \in Tasks : task'[t].pc \in {"queued", "loaded"}
                                          => used'.runs <= used'.again
  BY DEF Counted
<1>1. /\ used.runs <= 1 + used.again
      /\ Unsent => used.runs = 0
      /\ \A t \in Tasks : task[t].pc \in {"queued", "loaded"} => used.runs <= used.again
      /\ \A t, u \in Tasks : task[t].pc # "none" /\ task[u].pc # "none" => t = u
      /\ \A a \in Actors : req[a].pc = "send" => Unsent
  BY FlagsStay DEF Counted, FirstOnly
<1>2. used.runs \in Nat /\ used.again \in Nat
  BY DEF TypeOK
<1>3. CASE UNCHANGED vars
  BY <1>1, <1>3 DEF vars, Unsent
<1>4. ASSUME NEW a \in Actors, Create(a) \/ \E op \in Ops : Read(a, op) PROVE Counted'
  <2>1. task' = task /\ used'.runs = used.runs /\ used'.again = used.again
    BY <1>4 DEF Create, Read, TypeOK
  <2> QED BY <1>1, <2>1 DEF Counted, Unsent
<1>5. ASSUME NEW a \in Actors, RequestStep(a) PROVE Counted'
  <2>1. used'.runs = used.runs /\ used'.again = used.again
    BY <1>5, RequestStepChange
  <2>2. \A t \in Tasks : task[t].pc # "none" => task'[t].pc # "none"
    BY <1>5, TaskOnward DEF Next
  <2>3. Unsent' => Unsent
    BY <2>2 DEF Unsent
  <2>4. CASE SendTask(a)
    <3>1. used.runs = 0
      BY <1>1, <2>4 DEF SendTask
    <3> QED BY <1>1, <1>2, <2>1, <3>1 DEF Counted
  <2>5. CASE ~SendTask(a)
    <3>1. \A t \in Tasks : task'[t] = task[t] \/ task'[t].pc = "killed"
      BY <1>5, <2>5, StopStays DEF RequestStep, StartTask, SaveModel, Delete
    <3> QED BY <1>1, <2>1, <2>3, <3>1 DEF Counted
  <2> QED BY <2>4, <2>5
<1>6. ASSUME NEW t \in Tasks, TaskStep(t) PROVE Counted'
  <2>1. /\ task[t].pc # "none" /\ task'[t].pc # "none" /\ used'.again = used.again
        /\ \A u \in Tasks : u # t => task'[u].pc = "none"
    BY <1>1, <1>6, TaskStays
  <2>2. ~Unsent'
    BY <2>1 DEF Unsent
  <2>3. CASE EnterJob(t)
    <3>1. used'.runs = used.runs + 1 /\ used.runs <= used.again /\ task'[t].pc = "run"
      BY <1>1, <2>3, TaskChange DEF EnterJob, TypeOK
    <3> QED BY <1>2, <2>1, <2>2, <3>1 DEF Counted
  <2>4. CASE ~EnterJob(t)
    <3>1. used' = used /\ task[t].pc # "loaded" /\ task'[t].pc # "queued"
      BY <1>6, <2>4, TaskStays DEF TaskStep, LoadJob, ExitJob, Acknowledge
    <3>2. task'[t].pc = "loaded" => task[t].pc = "queued"
      BY <1>6, TaskStays
    <3> QED BY <1>1, <2>1, <2>2, <3>1, <3>2 DEF Counted
  <2> QED BY <2>3, <2>4
<1>7. ASSUME NEW t \in Tasks, Crash(t) PROVE Counted'
  <2>1. /\ task[t].pc \in {"loaded", "run", "done"} /\ task'[t].pc \in {"queued", "killed"}
        /\ used'.runs = used.runs
        /\ \A u \in Tasks : u # t => task'[u].pc = "none"
    BY <1>1, <1>7, CrashChange
  <2>2. ~Unsent'
    BY <2>1 DEF Unsent
  <2>3. CASE task'[t].pc = "killed"
    <3>1. used'.again = used.again
      BY <1>7, <2>3, CrashChange
    <3> QED BY <1>1, <2>1, <2>2, <2>3, <3>1 DEF Counted
  <2>4. CASE task'[t].pc = "queued" /\ task[t].pc = "loaded"
    <3>1. used'.again = used.again
      BY <1>2, <1>7, <2>4, CrashChange
    <3> QED BY <1>1, <2>1, <2>2, <2>4, <3>1 DEF Counted
  <2>5. CASE task'[t].pc = "queued" /\ task[t].pc # "loaded"
    <3>1. used'.again = used.again + 1
      BY <1>7, <2>5, CrashChange
    <3> QED BY <1>1, <1>2, <2>1, <2>2, <3>1 DEF Counted
  <2> QED BY <2>1, <2>3, <2>4, <2>5
<1> QED BY <1>3, <1>4, <1>5, <1>6, <1>7 DEF Next, Counted

-----------------------------------------------------------------------------
\* The invariant is inductive.
LEMMA InvStep == JobInv /\ [Next]_vars => JobInv'
BY TypeStep, RunsAsItselfStep, NotBeforeStep, AloneStep, FirstOnlyStep, ToldStep, CountedStep,
   KnownStep
   DEF JobInv

\* Hence it holds in every reachable state.
LEMMA JobInvHolds == Spec => []JobInv
BY InitInv, InvStep, PTL DEF Spec

\* The row, every copy of it and every program point have their types; in
\* particular a row that says STARTED or FINISHED names a task.
THEOREM TypeCorrect == Spec => []TypeOK
<1>1. JobInv => TypeOK
  BY DEF JobInv
<1> QED BY <1>1, JobInvHolds, PTL

\* Requests that do not overlap execute the command of a job once, and again only
\* for a redelivery after a worker died with it, for every number of requests,
\* tasks and failures.
THEOREM RunsOnceCorrect == Spec => []RunsOnce
<1>1. JobInv => RunsOnce
  BY DEF JobInv, Counted, RunsOnce
<1> QED BY <1>1, JobInvHolds, PTL

\* A job shown as started names its task, which runs, will run again or was
\* terminated, whatever requests overlap.
THEOREM StartedIsKnownCorrect == Spec => []StartedIsKnown
<1>1. JobInv => StartedIsKnown
  BY DEF JobInv
<1> QED BY <1>1, JobInvHolds, PTL

\* A finished job stays finished, without overlapping requests and stale change
\* pages, unless its own task was delivered again after it had ended.
THEOREM FinishedIsFinalCorrect == Spec => FinishedIsFinal
<1>1. ASSUME JobInv, [Next]_vars, row.status = FINISHED, ~past.overlap, ~past'.edited
      PROVE  \/ row'.status = FINISHED
             \/ past.redone /\ row' = [row EXCEPT !.status = STARTED]
  <2>1. /\ row.celery \in Tasks /\ task[row.celery].pc # "none"
        /\ past.redone \/ task[row.celery].pc \in {"done", "acked"}
    BY <1>1 DEF JobInv, Told, Ended
  <2>2. /\ \A a \in Actors : ~(req[a].pc = "act" /\ req[a].job.status = CREATED)
        /\ \A t \in Tasks : task[t].pc # "none" => t = row.celery
    BY <1>1, <2>1 DEF JobInv, FirstOnly, Unsent
  <2>3. ASSUME NEW a \in Actors, Create(a) PROVE FALSE
    BY <1>1, <2>1, <2>3 DEF Create, JobInv, NotBefore
  <2>4. ASSUME NEW a \in Actors, StartTask(a) \/ Delete(a) PROVE row' = row
    BY <2>2, <2>4 DEF StartTask, Delete, Acting, MayStart
  <2>5. ASSUME NEW a \in Actors, SaveModel(a) PROVE row' = row
    BY <1>1, <2>5, Recorded DEF SaveModel, JobInv
  <2>6. ASSUME NEW t \in Tasks, EnterJob(t)
        PROVE  past.redone /\ row' = [row EXCEPT !.status = STARTED]
    <3>1. t = row.celery /\ past.redone
      BY <2>1, <2>2, <2>6 DEF EnterJob
    <3> QED BY <1>1, <2>6, <3>1 DEF EnterJob, JobInv, TypeOK, Job
  <2>7. ASSUME NEW t \in Tasks, ExitJob(t) PROVE row'.status = FINISHED
    BY <1>1, <2>7 DEF ExitJob, JobInv, TypeOK, Job
  <2> QED
    BY <1>1, <2>3, <2>4, <2>5, <2>6, <2>7
       DEF Next, vars, RequestStep, TaskStep, Read, SendTask, StopTask, LoadJob, Acknowledge, Crash
<1>2. JobInv /\ [Next]_vars
        => [row.status = FINISHED /\ ~past.overlap /\ ~past'.edited
              => \/ row'.status = FINISHED
                 \/ past.redone /\ row' = [row EXCEPT !.status = STARTED]]_<<row, past>>
  BY <1>1
<1> QED BY <1>2, JobInvHolds, PTL DEF Spec, FinishedIsFinal
=============================================================================
