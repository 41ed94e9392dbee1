----------------------- MODULE HarvestSessionsProofs -----------------------
(***************************************************************************)
(* Proofs about HarvestSessions, for every set of actors and items, every  *)
(* set of operations and every bound.  Two inductive invariants:           *)
(*   SafetyInv  what every copy of a session row, in a request or in a     *)
(*              control task, may still say when it is saved: stale saves, *)
(*              lost tasks and finalizers that raise never end a session   *)
(*              before its chord, restart one that has ended, or undo an   *)
(*              abort while its chord runs;                                *)
(*   RowsInv    what the row and every copy of it say about the members    *)
(*              and about the finalizer that raised: the count of what was *)
(*              stored and the final status.                               *)
(***************************************************************************)
EXTENDS HarvestSessions, FiniteSetTheorems, TLAPS

\* The statuses the code assigns are among the choices the models declare.
LEMMA Statuses ==
    /\ {READY, UPDATING, CHECKING} \subseteq HarvesterStatus
    /\ \A type : BusyStatus(type) \in HarvesterStatus /\ AbortingStatus(type) \in HarvesterStatus
    /\ \A op : OpType(op) \in SessionType
    /\ {ON_GOING, ALL_OK, ALL_FAILED, SOME_FAILED, ABORTED, NONE} \subseteq SessionStatus
    /\ \A st \in SessionStatus : AbortedStatus(st) \in SessionStatus
BY DEF HarvesterStatus, SessionStatus, SessionType, BusyStatus, AbortingStatus, OpType,
       AbortedStatus, READY, UPDATING, ABORTING_UPDATE, PERFORMING, ABORTING_HARVEST,
       CHECKING, NONE, PENDING, ON_GOING, ALL_OK, ALL_FAILED, SOME_FAILED, ABORTING,
       ABORTED, DISCOVER, HARVEST

\* A missing row, a fresh row, and the row an abort computes, are rows.
LEMMA RowTypes ==
    /\ NoRow \in Row
    /\ \A type \in SessionType : NewRow(type) \in Row
    /\ \A row \in Row : AbortedRow(row) \in Row
<1>1. NoRow \in Row
  BY DEF NoRow, Row, SessionType, SessionStatus
<1>2. \A type \in SessionType : NewRow(type) \in Row
  BY DEF NewRow, Row, SessionStatus
<1>3. \A row \in Row : AbortedRow(row) \in Row
  BY Statuses DEF AbortedRow, Row
<1> QED BY <1>1, <1>2, <1>3

\* What the control task is set to has the type of a control task.
LEMMA TaskTypes ==
    /\ \A p \in TaskPc : At(p) \in TaskRecord
    /\ \A p \in TaskPc, h \in HarvesterStatus : With(p, h) \in TaskRecord
    /\ \A st \in SessionStatus : Finishing(st) \in TaskRecord
    /\ \A p \in TaskPc, row \in Row, ids \in SUBSET Items : Holding(p, row, ids) \in TaskRecord
    /\ \A op, type, ids : ids \in SUBSET Items => FirstTask(op, type, ids) \in TaskRecord
<1>1. \A p \in TaskPc : At(p) \in TaskRecord
  BY Statuses, RowTypes DEF At, TaskRecord
<1>2. \A p \in TaskPc, h \in HarvesterStatus : With(p, h) \in TaskRecord
  BY Statuses, RowTypes DEF With, TaskRecord
<1>3. \A st \in SessionStatus : Finishing(st) \in TaskRecord
  BY Statuses, RowTypes DEF Finishing, TaskRecord, TaskPc
<1>4. \A p \in TaskPc, row \in Row, ids \in SUBSET Items : Holding(p, row, ids) \in TaskRecord
  BY Statuses DEF Holding, TaskRecord
<1>5. \A op, type, ids : ids \in SUBSET Items => FirstTask(op, type, ids) \in TaskRecord
  BY <1>1, <1>4, RowTypes DEF FirstTask, TaskPc
<1> QED BY <1>1, <1>2, <1>3, <1>4, <1>5

-----------------------------------------------------------------------------
\* A request that is not under way has the type of an actor.
LEMMA IdleType == Idle \in ActorRecord
BY Statuses, RowTypes, ConstantsAssumption DEF Idle, ActorRecord, ActorPc, AllOps

\* A request that goes on, or ends, has the type of an actor.
LEMMA RequestTypes ==
    ASSUME TypeOK, NEW a \in Actors
    PROVE  /\ actor[a].h \in HarvesterStatus /\ actor[a].row \in Row
           /\ actor[a].s \in 0..MaxSessions /\ actor[a].op \in AllOps
           /\ Done(a) => actor' \in [Actors -> ActorRecord]
           /\ \A p \in ActorPc, h \in HarvesterStatus, s \in 0..MaxSessions, row \in Row :
                 Continue(a, p, h, s, row) => actor' \in [Actors -> ActorRecord]
<1>1. actor[a] \in ActorRecord
  BY DEF TypeOK
<1>2. Done(a) => actor' \in [Actors -> ActorRecord]
  BY IdleType DEF TypeOK, Done
<1>3. ASSUME NEW p \in ActorPc, NEW h \in HarvesterStatus, NEW s \in 0..MaxSessions,
             NEW row \in Row, Continue(a, p, h, s, row)
      PROVE  actor' \in [Actors -> ActorRecord]
  <2>1. [op |-> actor[a].op, pc |-> p, h |-> h, s |-> s, row |-> row] \in ActorRecord
    BY <1>1 DEF ActorRecord
  <2> QED BY <1>3, <2>1 DEF TypeOK, Continue
<1> QED BY <1>1, <1>2, <1>3 DEF ActorRecord

\* Steps of requests preserve the type invariant.
LEMMA ActorTypes ==
    ASSUME TypeOK, NEW a \in Actors,
           ActorStep(a) \/ \E op \in Ops : ReadHarvester(a, op)
    PROVE  TypeOK'
<1>0. /\ actor[a].h \in HarvesterStatus /\ actor[a].row \in Row
      /\ actor[a].s \in 0..MaxSessions /\ actor[a].op \in AllOps
      /\ 0 \in 0..MaxSessions /\ Sessions \subseteq 0..MaxSessions
      /\ {"act", "create", "send", "latest", "abort-save", "api-save", "api-send",
          "api-check"} \subseteq ActorPc
      /\ NoRow \in Row
  BY RequestTypes, RowTypes, ConstantsAssumption DEF Sessions, ActorPc
<1>a. ASSUME actor' \in [Actors -> ActorRecord], hstatus' \in HarvesterStatus,
             UNCHANGED <<sess, task, member, checks, faults>>
      PROVE  TypeOK'
  BY <1>a DEF TypeOK
<1>1. CASE \E op \in Ops : ReadHarvester(a, op)
  <2>1. PICK op \in Ops : ReadHarvester(a, op)
    BY <1>1
  <2>2. PICK p \in ActorPc :
          actor' = [actor EXCEPT ![a] = [op |-> op, pc |-> p, h |-> hstatus,
                                         s |-> 0, row |-> NoRow]]
    BY <2>1 DEF ReadHarvester
  <2>3. [op |-> op, pc |-> p, h |-> hstatus, s |-> 0, row |-> NoRow] \in ActorRecord
    BY <1>0, ConstantsAssumption DEF ActorRecord, TypeOK
  <2>4. checks' \in Nat
    BY <2>1 DEF ReadHarvester, TypeOK
  <2> QED BY <2>1, <2>2, <2>3, <2>4 DEF ReadHarvester, TypeOK
<1>2. CASE UpdateAvailability(a)
  <2>1. actor' \in [Actors -> ActorRecord]
    BY <1>0, <1>2, RequestTypes DEF UpdateAvailability
  <2> QED BY <1>0, <1>2, <1>a, <2>1 DEF UpdateAvailability
<1>3. ASSUME NEW type \in SessionType, InitiateStart(a, type) PROVE TypeOK'
  <2>1. actor' \in [Actors -> ActorRecord]
    BY <1>0, <1>3, Statuses, RequestTypes DEF InitiateStart
  <2> QED BY <1>3, <1>a, <2>1, Statuses DEF InitiateStart
<1>4. CASE Refuse(a)
  BY <1>4, <1>a, RequestTypes DEF Refuse, TypeOK
<1>5. ASSUME NEW s \in Sessions, CreateSession(a, s) PROVE TypeOK'
  <2>1. PICK type \in SessionType : /\ sess' = [sess EXCEPT ![s] = NewRow(type)]
                                    /\ Continue(a, "send", actor[a].h, s, NewRow(type))
    BY <1>5 DEF CreateSession
  <2>2. sess' \in [Sessions -> Row] /\ actor' \in [Actors -> ActorRecord]
    BY <1>0, <2>1, RowTypes, RequestTypes DEF TypeOK
  <2> QED BY <1>5, <2>2 DEF CreateSession, TypeOK
<1>6. ASSUME NEW s \in Sessions, ApiCreateSession(a, s) PROVE TypeOK'
  <2>1. NewRow(OpType(actor[a].op)) \in Row
    BY RowTypes, Statuses
  <2>2. sess' \in [Sessions -> Row] /\ actor' \in [Actors -> ActorRecord]
    BY <1>0, <1>6, <2>1, RequestTypes DEF ApiCreateSession, TypeOK
  <2> QED BY <1>6, <2>2 DEF ApiCreateSession, TypeOK
<1>7. CASE Initiate(a)
  <2>1. task' \in [Sessions -> TaskRecord]
    <3>1. PICK ids \in SUBSET Items :
            task' = [task EXCEPT ![actor[a].s] =
                       FirstTask(actor[a].op, actor[a].row.type, ids)]
      BY <1>7 DEF Initiate
    <3>2. FirstTask(actor[a].op, actor[a].row.type, ids) \in TaskRecord
      BY TaskTypes
    <3> QED BY <3>1, <3>2 DEF TypeOK
  <2>2. sess' \in [Sessions -> Row] /\ actor' \in [Actors -> ActorRecord]
    BY <1>0, <1>7, RequestTypes DEF Initiate, TypeOK
  <2> QED BY <1>7, <2>1, <2>2 DEF Initiate, TypeOK
<1>8. CASE InitiateAbort(a)
  <2>1. actor' \in [Actors -> ActorRecord]
    BY <1>0, <1>8, Statuses, RequestTypes DEF InitiateAbort
  <2> QED BY <1>8, <1>a, <2>1, Statuses DEF InitiateAbort
<1>9. CASE ReadLatest(a)
  <2>1. actor' \in [Actors -> ActorRecord]
    <3>1. ASSUME NEW s \in Sessions,
                 Continue(a, "abort-save", actor[a].h, s, AbortedRow(sess[s]))
          PROVE  actor' \in [Actors -> ActorRecord]
      BY <1>0, <3>1, RowTypes, RequestTypes DEF TypeOK
    <3> QED BY <1>9, <3>1, RequestTypes DEF ReadLatest, OfType, Created
  <2> QED BY <1>9, <1>a, <2>1 DEF ReadLatest, TypeOK
<1>10. CASE SaveAbort(a)
  <2>1. sess' \in [Sessions -> Row] /\ actor' \in [Actors -> ActorRecord]
    BY <1>0, <1>10, RequestTypes DEF SaveAbort, TypeOK
  <2> QED BY <1>10, <2>1 DEF SaveAbort, TypeOK
<1>11. CASE ResetStatus(a)
  BY <1>11, <1>a, RequestTypes, Statuses DEF ResetStatus
<1>12. CASE ApiStartTask(a)
  <2>1. task' \in [Sessions -> TaskRecord]
    BY <1>12, TaskTypes DEF ApiStartTask, TypeOK
  <2>2. actor' \in [Actors -> ActorRecord]
    BY <1>12, RequestTypes DEF ApiStartTask
  <2> QED BY <1>12, <2>1, <2>2 DEF ApiStartTask, TypeOK
<1>13. CASE ApiSave(a)
  <2>1. actor' \in [Actors -> ActorRecord] /\ hstatus' \in HarvesterStatus
    BY <1>0, <1>13, RequestTypes, Statuses DEF ApiSave
  <2> QED BY <1>13, <2>1 DEF ApiSave, TypeOK
<1>14. CASE ApiSaveBusy(a)
  <2>1. actor' \in [Actors -> ActorRecord] /\ hstatus' \in HarvesterStatus
    BY <1>0, <1>14, RequestTypes, Statuses DEF ApiSaveBusy
  <2> QED BY <1>14, <1>a, <2>1 DEF ApiSaveBusy
<1>15. CASE ApiSaveChecking(a)
  <2>1. actor' \in [Actors -> ActorRecord] /\ hstatus' \in HarvesterStatus
    BY <1>0, <1>15, RequestTypes, Statuses DEF ApiSaveChecking
  <2> QED BY <1>15, <1>a, <2>1 DEF ApiSaveChecking
<1>16. CASE ApiStartCheck(a)
  <2>1. actor' \in [Actors -> ActorRecord] /\ checks' \in Nat
    BY <1>16, RequestTypes DEF ApiStartCheck, TypeOK
  <2> QED BY <1>16, <2>1 DEF ApiStartCheck, TypeOK
<1> QED BY <1>1, <1>2, <1>3, <1>4, <1>5, <1>6, <1>7, <1>8, <1>9, <1>10, <1>11, <1>12, <1>13,
           <1>14, <1>15, <1>16 DEF ActorStep

\* A control task that moves on, or becomes another, has the type of a task.
LEMMA ControlTypes ==
    ASSUME TypeOK, NEW s \in Sessions
    PROVE  /\ task[s].h \in HarvesterStatus /\ task[s].row \in Row
           /\ task[s].final \in SessionStatus /\ task[s].ids \in SUBSET Items
           /\ [sess[s] EXCEPT !.status = ON_GOING] \in Row
           /\ \A p \in TaskPc : Goto(s, p) => task' \in [Sessions -> TaskRecord]
           /\ \A t \in TaskRecord : Become(s, t) => task' \in [Sessions -> TaskRecord]
<1>1. task[s] \in TaskRecord
  BY DEF TypeOK
<1>2. [sess[s] EXCEPT !.status = ON_GOING] \in Row
  BY Statuses DEF TypeOK, Row
<1>3. ASSUME NEW p \in TaskPc, Goto(s, p)
      PROVE  task' \in [Sessions -> TaskRecord]
  BY <1>1, <1>3 DEF TypeOK, Goto, TaskRecord
<1>4. ASSUME NEW t \in TaskRecord, Become(s, t)
      PROVE  task' \in [Sessions -> TaskRecord]
  BY <1>4 DEF TypeOK, Become
<1> QED BY <1>1, <1>2, <1>3, <1>4 DEF TaskRecord

\* Steps of control tasks preserve the type invariant.
LEMMA TaskStepTypes ==
    ASSUME TypeOK, NEW s \in Sessions, TaskStep(s) \/ Raise(s) \/ LoseTask(s)
    PROVE  TypeOK'
<1>0. /\ task[s].h \in HarvesterStatus /\ task[s].row \in Row
      /\ task[s].final \in SessionStatus /\ task[s].ids \in SUBSET Items
      /\ [sess[s] EXCEPT !.status = ON_GOING] \in Row
      /\ NoRow \in Row /\ {} \in SUBSET Items /\ hstatus \in HarvesterStatus
  BY ControlTypes, RowTypes DEF TypeOK
<1>a. ASSUME task' \in [Sessions -> TaskRecord], OnlyTask PROVE TypeOK'
  BY <1>a DEF TypeOK, OnlyTask
<1>b. ASSUME task' \in [Sessions -> TaskRecord], hstatus' \in HarvesterStatus,
             UNCHANGED <<sess, member, actor, checks, faults>>
      PROVE  TypeOK'
  BY <1>b DEF TypeOK
<1>1. CASE StartRefresh(s)
  <2>1. At("over") \in TaskRecord
        /\ Holding("u-ongoing", [sess[s] EXCEPT !.status = ON_GOING], {}) \in TaskRecord
    BY <1>0, TaskTypes DEF TaskPc
  <2> QED BY <1>1, <1>a, <2>1, ControlTypes DEF StartRefresh
<1>2. CASE MarkOnGoing(s)
  <2>1. task' \in [Sessions -> TaskRecord]
    BY <1>2, ControlTypes DEF MarkOnGoing, TaskPc
  <2>2. sess' \in [Sessions -> Row]
    BY <1>0, <1>2 DEF MarkOnGoing, TypeOK
  <2> QED BY <1>2, <2>1, <2>2 DEF MarkOnGoing, TypeOK
<1>3. CASE FetchHarvester(s)
  <2>1. task' \in [Sessions -> TaskRecord]
    BY <1>3 DEF FetchHarvester, TypeOK, TaskRecord, TaskPc
  <2> QED BY <1>3, <1>a, <2>1 DEF FetchHarvester
<1>4. CASE CheckRemote(s)
  <2>1. Finishing(ALL_FAILED) \in TaskRecord /\ {"u-num", "h-session"} \subseteq TaskPc
    BY TaskTypes, Statuses DEF TaskPc
  <2>2. task' \in [Sessions -> TaskRecord]
    BY <1>4, <2>1, ControlTypes DEF CheckRemote
  <2>3. hstatus' \in HarvesterStatus
    BY <1>0, <1>4, Statuses DEF CheckRemote
  <2> QED BY <1>4, <1>b, <2>2, <2>3 DEF CheckRemote
<1>5. CASE CountRemote(s)
  <2>1. With("u-error", hstatus) \in TaskRecord /\ "u-save" \in TaskPc
    BY <1>0, TaskTypes DEF TaskPc
  <2> QED BY <1>5, <1>a, <2>1, ControlTypes DEF CountRemote
<1>6. CASE SaveNumber(s)
  <2>1. task' \in [Sessions -> TaskRecord]
    BY <1>6, ControlTypes DEF SaveNumber, TaskPc
  <2> QED BY <1>6, <1>b, <2>1, Statuses DEF SaveNumber
<1>7. CASE LaunchChord(s)
  <2>1. PICK ids \in SUBSET Items :
          member' = [member EXCEPT ![s] =
                       [i \in Items |-> IF i \in ids THEN "queued" ELSE "none"]]
    BY <1>7 DEF LaunchChord
  <2>2. member' \in [Sessions -> [Items -> MemberState]]
    BY <2>1 DEF TypeOK, MemberState
  <2>3. At("chord") \in TaskRecord
    BY TaskTypes DEF TaskPc
  <2>4. task' \in [Sessions -> TaskRecord] /\ sess' \in [Sessions -> Row]
    BY <1>0, <1>7, <2>3, ControlTypes DEF LaunchChord, TypeOK
  <2> QED BY <1>7, <2>2, <2>4 DEF LaunchChord, TypeOK
<1>8. CASE RefreshError(s)
  <2>1. Finishing(SOME_FAILED) \in TaskRecord
    BY TaskTypes, Statuses
  <2> QED BY <1>0, <1>8, <1>b, <2>1, ControlTypes DEF RefreshError
<1>9. CASE Dispatch(s)
  <2>1. \A ids \in SUBSET Items : Holding("harvest", NoRow, ids) \in TaskRecord
    BY <1>0, TaskTypes DEF TaskPc
  <2>2. Finishing(ALL_OK) \in TaskRecord
    BY TaskTypes, Statuses
  <2> QED BY <1>9, <1>a, <2>1, <2>2, ControlTypes DEF Dispatch
<1>10. CASE StartHarvest(s)
  <2>1. At("over") \in TaskRecord
        /\ Holding("h-harvester", [sess[s] EXCEPT !.status = ON_GOING], task[s].ids)
             \in TaskRecord
    BY <1>0, TaskTypes DEF TaskPc
  <2> QED BY <1>10, <1>a, <2>1, ControlTypes DEF StartHarvest
<1>11. CASE FinishChord(s)
  <2>1. /\ Finishing(ABORTED) \in TaskRecord /\ Finishing(ALL_OK) \in TaskRecord
        /\ Finishing(SOME_FAILED) \in TaskRecord /\ With("u-error", hstatus) \in TaskRecord
    BY <1>0, TaskTypes, Statuses DEF TaskPc
  <2> QED BY <1>11, <1>a, <2>1, ControlTypes DEF FinishChord
<1>12. CASE FinishSession(s)
  <2>1. task' \in [Sessions -> TaskRecord]
    BY <1>12, ControlTypes DEF FinishSession, TaskPc
  <2>2. sess' \in [Sessions -> Row]
    BY <1>0, <1>12 DEF FinishSession, TypeOK, Row
  <2> QED BY <1>12, <2>1, <2>2 DEF FinishSession, TypeOK
<1>13. CASE FreeHarvester(s)
  <2>1. At("recheck") \in TaskRecord /\ At("over") \in TaskRecord
    BY TaskTypes DEF TaskPc
  <2> QED BY <1>13, <1>b, <2>1, ControlTypes, Statuses DEF FreeHarvester
<1>14. CASE Recheck(s)
  <2>1. With("recheck-save", hstatus) \in TaskRecord
    BY <1>0, TaskTypes DEF TaskPc
  <2> QED BY <1>14, <1>a, <2>1, ControlTypes DEF Recheck
<1>15. CASE SaveChecked(s)
  <2>1. At("over") \in TaskRecord
    BY TaskTypes DEF TaskPc
  <2> QED BY <1>0, <1>15, <1>b, <2>1, ControlTypes DEF SaveChecked
<1>16. CASE LoseTask(s)
  <2>1. At("lost") \in TaskRecord
    BY TaskTypes DEF TaskPc
  <2>2. task' \in [Sessions -> TaskRecord]
    BY <1>16, <2>1, ControlTypes DEF LoseTask
  <2> QED BY <1>16, <2>2 DEF LoseTask, TypeOK
<1>17. CASE Raise(s)
  <2>1. /\ Finishing(SOME_FAILED) \in TaskRecord /\ At("e-finish") \in TaskRecord
        /\ With("u-error", hstatus) \in TaskRecord /\ With("e-save", hstatus) \in TaskRecord
    BY <1>0, TaskTypes, Statuses DEF TaskPc
  <2>2. task' \in [Sessions -> TaskRecord]
    BY <1>17, <2>1, ControlTypes DEF Raise
  <2>3. faults' \in [lost : Nat, raised : SUBSET Sessions]
    BY <1>17 DEF Raise, TypeOK
  <2> QED BY <1>17, <2>2, <2>3 DEF Raise, TypeOK
<1>18. CASE SaveError(s)
  <2>1. At("e-finish") \in TaskRecord
    BY TaskTypes DEF TaskPc
  <2> QED BY <1>0, <1>18, <1>b, <2>1, ControlTypes DEF SaveError
<1>19. CASE FinishAgain(s)
  <2>1. task' \in [Sessions -> TaskRecord]
    BY <1>19, ControlTypes DEF FinishAgain, TaskPc
  <2>2. sess' \in [Sessions -> Row]
    BY <1>19, Statuses DEF FinishAgain, TypeOK, Row
  <2> QED BY <1>19, <2>1, <2>2 DEF FinishAgain, TypeOK
<1>20. CASE FreeAgain(s)
  <2>1. At("over") \in TaskRecord
    BY TaskTypes DEF TaskPc
  <2> QED BY <1>20, <1>b, <2>1, ControlTypes, Statuses DEF FreeAgain
<1> QED BY <1>1, <1>2, <1>3, <1>4, <1>5, <1>6, <1>7, <1>8, <1>9, <1>10, <1>11, <1>12,
           <1>13, <1>14, <1>15, <1>16, <1>17, <1>18, <1>19, <1>20 DEF TaskStep

\* Steps of chord members preserve the type invariant.
LEMMA MemberTypes ==
    ASSUME TypeOK, NEW s \in Sessions, NEW i \in Items, MemberStep(s, i) \/ LoseMember(s, i)
    PROVE  TypeOK'
<1> USE DEF TypeOK
<1>a. [sess[s] EXCEPT !.done = @ + 1] \in Row
  BY DEF Row
<1>1. CASE StartMember(s, i)
  BY <1>1 DEF StartMember, MemberState
<1>2. CASE CountMember(s, i)
  BY <1>2, <1>a DEF CountMember, MemberState
<1>3. CASE CountPage(s, i)
  BY <1>3, <1>a DEF CountPage, MemberState
<1>4. CASE EndMember(s, i)
  BY <1>4 DEF EndMember
<1>5. CASE LoseMember(s, i)
  <2>1. member' \in [Sessions -> [Items -> MemberState]]
    BY <1>5 DEF LoseMember, Missing, MemberState
  <2>2. faults' \in [lost : Nat, raised : SUBSET Sessions]
    BY <1>5 DEF LoseMember
  <2> QED BY <1>5, <2>1, <2>2 DEF LoseMember
<1> QED BY <1>1, <1>2, <1>3, <1>4, <1>5 DEF MemberStep

\* The initial rows and program points have their types.
LEMMA InitTypes == Init => TypeOK
<1> QED BY Statuses, RowTypes, TaskTypes, IdleType DEF TypeOK, Init, NoMembers, MemberState, TaskPc

\* Every reachable state is well-typed: rows hold declared choices whoever
\* saves them.
THEOREM TypeCorrect == Spec => []TypeOK
<1>1. TypeOK /\ [Next]_vars => TypeOK'
  <2> SUFFICES ASSUME TypeOK, [Next]_vars PROVE TypeOK'
    OBVIOUS
  <2>1. CASE UNCHANGED vars
    BY <2>1 DEF vars, TypeOK
  <2> QED BY <2>1, ActorTypes, TaskStepTypes, MemberTypes DEF Next
<1> QED BY <1>1, InitTypes, PTL DEF Spec


-----------------------------------------------------------------------------
\* Program points of a control task after finish_asynchronous_session has
\* updated the session row.
AfterEnd == {"free", "recheck", "recheck-save", "e-save", "e-finish", "e-free",
             "over", "lost"}

\* Program points at which a control task holds a copy of the session row.
HoldingPc == {"u-ongoing", "u-harvester", "u-avail", "u-num", "u-save", "u-session",
              "h-harvester", "h-avail", "h-session"}

Verdicts == {ALL_OK, ALL_FAILED, SOME_FAILED, ABORTED}

\* The request has created a session and has not enqueued its task yet.
Launching(a) == actor[a].pc \in {"send", "api-save", "api-send"}

\* A row that no abort has looked at, and no task has finished.
Fresh(row) == row.status = PENDING /\ row.ended = FALSE

\* What holds of a session: only a running chord has members that wait or work;
\* the end date comes with the end of the control task; the copy the task holds
\* was taken before; no task exists before the row; no verdict is undone.
SessionOK(s) ==
    /\ task[s].pc # "chord" => \A i \in Items : member[s][i] \notin AtWork
    /\ sess[s].ended => task[s].pc \in AfterEnd
    /\ task[s].pc \in HoldingPc => task[s].row.status = ON_GOING /\ task[s].row.ended = FALSE
    /\ task[s].pc = "finish" => task[s].final \in Verdicts
    /\ sess[s].status = NONE => task[s].pc = "none"
    /\ task[s].pc \in AfterEnd \ {"lost"} => sess[s].status \notin {PENDING, ON_GOING}

\* What holds of a request: the session it is about to launch exists and has no
\* task yet; the copy it is about to save as aborted does not say that the
\* session runs, and has an end date only if the session's task is done.
RequestOK(a) ==
    /\ Launching(a) =>
         /\ actor[a].s \in Sessions /\ Fresh(actor[a].row)
         /\ task[actor[a].s].pc = "none" /\ sess[actor[a].s].status # NONE
    /\ actor[a].pc = "abort-save" =>
         /\ actor[a].s \in Sessions
         /\ actor[a].row.status \notin {NONE, PENDING, ON_GOING}
         /\ actor[a].row.ended => task[actor[a].s].pc \in AfterEnd

\* No two requests launch the same session.
LaunchedOnce == \A a, b \in Actors :
    Launching(a) /\ Launching(b) /\ actor[a].s = actor[b].s => a = b

SafetyInv ==
    /\ TypeOK
    /\ \A s \in Sessions : SessionOK(s)
    /\ \A a \in Actors : RequestOK(a)
    /\ LaunchedOnce

-----------------------------------------------------------------------------
\* The session statuses differ from one another.
LEMMA Distinct ==
    /\ NONE \notin {PENDING, ON_GOING, ABORTING} /\ PENDING # ON_GOING
    /\ ON_GOING \notin Verdicts \cup {ABORTING} /\ PENDING \notin Verdicts /\ NONE \notin Verdicts
    /\ \A st \in SessionStatus \ {NONE} : AbortedStatus(st) \notin {NONE, PENDING, ON_GOING}
BY DEF Verdicts, AbortedStatus, SessionStatus, NONE, PENDING, ON_GOING, ALL_OK, ALL_FAILED,
       SOME_FAILED, ABORTING, ABORTED

\* A step of session s, once its control task exists, that keeps what holds of
\* s and does not leave the end of the session, preserves the invariant.
LEMMA SessionFrame ==
    ASSUME SafetyInv, TypeOK', NEW s \in Sessions,
           \A r \in Sessions \ {s} : /\ task'[r] = task[r] /\ sess'[r] = sess[r]
                                     /\ member'[r] = member[r],
           task[s].pc # "none",
           task[s].pc \in AfterEnd => task'[s].pc \in AfterEnd,
           SessionOK(s)', UNCHANGED actor
    PROVE  SafetyInv'
<1>1. ASSUME NEW r \in Sessions PROVE SessionOK(r)'
  <2>1. CASE r = s
    BY <2>1
  <2>2. CASE r # s
    <3>1. SessionOK(r)
      BY DEF SafetyInv
    <3> QED BY <2>2, <3>1 DEF SessionOK
  <2> QED BY <2>1, <2>2
<1>2. ASSUME NEW a \in Actors PROVE RequestOK(a)'
  <2>1. RequestOK(a)
    BY DEF SafetyInv
  <2> QED BY <2>1 DEF RequestOK, Launching
<1>3. LaunchedOnce'
  BY DEF SafetyInv, LaunchedOnce, Launching
<1> QED BY <1>1, <1>2, <1>3 DEF SafetyInv

\* A step of request a that changes no row, no task and no member, and does
\* not lead to a launch, preserves the invariant.
LEMMA RequestFrame ==
    ASSUME SafetyInv, TypeOK', NEW a \in Actors,
           \A b \in Actors \ {a} : actor'[b] = actor[b],
           ~Launching(a)', RequestOK(a)', UNCHANGED <<sess, task, member>>
    PROVE  SafetyInv'
<1>1. ASSUME NEW r \in Sessions PROVE SessionOK(r)'
  BY DEF SafetyInv, SessionOK
<1>2. ASSUME NEW b \in Actors PROVE RequestOK(b)'
  <2>1. RequestOK(b)
    BY DEF SafetyInv
  <2>2. CASE b # a
    BY <2>1, <2>2 DEF RequestOK, Launching
  <2> QED BY <2>2
<1>3. LaunchedOnce'
  BY DEF SafetyInv, LaunchedOnce, Launching
<1> QED BY <1>1, <1>2, <1>3 DEF SafetyInv

\* A request that reaches neither a launch nor the save of an abort.
LEMMA HarmlessRequest ==
    ASSUME SafetyInv, TypeOK', NEW a \in Actors, NEW r,
           actor' = [actor EXCEPT ![a] = r],
           r.pc \notin {"send", "api-save", "api-send", "abort-save"}, UNCHANGED <<sess, task, member>>
    PROVE  SafetyInv'
<1>1. actor'[a] = r /\ \A b \in Actors \ {a} : actor'[b] = actor[b]
  BY DEF SafetyInv, TypeOK
<1>2. ~Launching(a)' /\ RequestOK(a)'
  BY <1>1 DEF Launching, RequestOK
<1> QED BY <1>1, <1>2, RequestFrame

-----------------------------------------------------------------------------
\* Steps of requests preserve the invariant.
LEMMA ActorSafe ==
    ASSUME SafetyInv, NEW a \in Actors,
           ActorStep(a) \/ \E op \in Ops : ReadHarvester(a, op)
    PROVE  SafetyInv'
<1>0. TypeOK' /\ TypeOK
  BY ActorTypes DEF SafetyInv
<1>i. Idle.pc \notin {"send", "api-save", "api-send", "abort-save"}
  BY DEF Idle
<1>1. CASE \E op \in Ops : ReadHarvester(a, op)
  <2>1. PICK op \in Ops, p \in ActorPc :
          /\ Enters(op, p)
          /\ actor' = [actor EXCEPT ![a] = [op |-> op, pc |-> p, h |-> hstatus,
                                            s |-> 0, row |-> NoRow]]
          /\ UNCHANGED <<sess, task, member>>
    BY <1>1 DEF ReadHarvester
  <2>2. p \notin {"send", "api-save", "api-send", "abort-save"}
    BY <2>1 DEF Enters
  <2> QED BY <1>0, <2>1, <2>2, HarmlessRequest
<1>2. CASE UpdateAvailability(a)
  BY <1>0, <1>i, <1>2, HarmlessRequest DEF UpdateAvailability, Continue, Done
<1>3. ASSUME NEW type \in SessionType, InitiateStart(a, type) PROVE SafetyInv'
  BY <1>0, <1>3, HarmlessRequest DEF InitiateStart, Continue
<1>4. CASE Refuse(a)
  BY <1>0, <1>i, <1>4, HarmlessRequest DEF Refuse, Done
<1>8. CASE InitiateAbort(a)
  BY <1>0, <1>8, HarmlessRequest DEF InitiateAbort, Continue
<1>9. CASE ReadLatest(a)
  <2>1. CASE Done(a)
    BY <1>0, <1>i, <1>9, <2>1, HarmlessRequest DEF ReadLatest, Done
  <2>2. ASSUME NEW s \in Created,
               Continue(a, "abort-save", actor[a].h, s, AbortedRow(sess[s]))
        PROVE  SafetyInv'
    <3>1. s \in Sessions /\ SessionOK(s) /\ sess[s] \in Row /\ sess[s].status # NONE
      BY <1>0 DEF Created, SafetyInv, TypeOK
    <3>2. UNCHANGED <<sess, task, member>>
      BY <1>9 DEF ReadLatest
    <3>3. /\ actor'[a].pc = "abort-save" /\ actor'[a].s = s
          /\ actor'[a].row = AbortedRow(sess[s])
          /\ \A b \in Actors \ {a} : actor'[b] = actor[b]
      BY <1>0, <2>2 DEF Continue, TypeOK
    <3>4. /\ AbortedRow(sess[s]).status = AbortedStatus(sess[s].status)
          /\ AbortedRow(sess[s]).ended = sess[s].ended
      BY <3>1 DEF AbortedRow, Row
    <3>5. AbortedStatus(sess[s].status) \notin {NONE, PENDING, ON_GOING}
      BY <3>1, Distinct DEF Row
    <3>6. RequestOK(a)' /\ ~Launching(a)'
      BY <3>1, <3>2, <3>3, <3>4, <3>5 DEF RequestOK, Launching, SessionOK
    <3> QED BY <1>0, <3>2, <3>3, <3>6, RequestFrame
  <2> QED BY <1>9, <2>1, <2>2 DEF ReadLatest, OfType
<1>11. CASE ResetStatus(a)
  BY <1>0, <1>i, <1>11, HarmlessRequest DEF ResetStatus, Done
<1>13. CASE ApiSave(a)
  BY <1>0, <1>i, <1>13, HarmlessRequest DEF ApiSave, Done
<1>15. CASE ApiSaveChecking(a)
  BY <1>0, <1>15, HarmlessRequest DEF ApiSaveChecking, Continue
<1>16. CASE ApiStartCheck(a)
  BY <1>0, <1>i, <1>16, HarmlessRequest DEF ApiStartCheck, Done
<1>17. CASE ApiSaveBusy(a)
  <2>1. /\ Launching(a) /\ UNCHANGED <<sess, task, member>>
        /\ actor'[a].pc = "api-send" /\ actor'[a].s = actor[a].s
        /\ actor'[a].row = actor[a].row
        /\ \A b \in Actors \ {a} : actor'[b] = actor[b]
    BY <1>0, <1>17 DEF ApiSaveBusy, Continue, Launching, TypeOK
  <2>2. \A r \in Sessions : SessionOK(r)'
    BY <2>1 DEF SafetyInv, SessionOK
  <2>3. ASSUME NEW b \in Actors PROVE RequestOK(b)'
    <3>1. RequestOK(b)
      BY DEF SafetyInv
    <3> QED BY <2>1, <3>1 DEF RequestOK, Launching
  <2>4. LaunchedOnce'
    BY <2>1 DEF SafetyInv, LaunchedOnce, Launching
  <2> QED BY <1>0, <2>2, <2>3, <2>4 DEF SafetyInv
<1>5. ASSUME NEW s \in Sessions, NEW type \in SessionType, NEW h,
             NEW p \in {"send", "api-save"}, IsNext(s),
             sess' = [sess EXCEPT ![s] = NewRow(type)],
             Continue(a, p, h, s, NewRow(type)), UNCHANGED <<task, member>>
      PROVE  SafetyInv'
  <2>1. sess[s].status = NONE /\ task[s].pc = "none"
    BY <1>5 DEF IsNext, SafetyInv, SessionOK
  <2>2. /\ sess'[s] = NewRow(type)
        /\ \A r \in Sessions \ {s} : sess'[r] = sess[r]
        /\ actor'[a].pc = p /\ actor'[a].s = s /\ actor'[a].row = NewRow(type)
        /\ \A b \in Actors \ {a} : actor'[b] = actor[b]
    BY <1>0, <1>5 DEF Continue, TypeOK
  <2>3. /\ Fresh(NewRow(type)) /\ NewRow(type).status = PENDING
        /\ NewRow(type).ended = FALSE
    BY DEF NewRow, Fresh
  <2>4. ASSUME NEW r \in Sessions PROVE SessionOK(r)'
    <3>1. SessionOK(r)
      BY DEF SafetyInv
    <3>2. CASE r = s
      BY <1>5, <2>1, <2>2, <2>3, <3>1, <3>2, Distinct DEF SessionOK, AfterEnd
    <3>3. CASE r # s
      BY <1>5, <2>2, <3>1, <3>3 DEF SessionOK
    <3> QED BY <3>2, <3>3
  <2>5. ASSUME NEW b \in Actors PROVE RequestOK(b)'
    <3>1. RequestOK(b)
      BY DEF SafetyInv
    <3>2. CASE b = a
      BY <1>5, <2>1, <2>2, <2>3, <3>2, Distinct DEF RequestOK, Launching
    <3>3. CASE b # a
      <4>1. actor'[b] = actor[b] /\ Launching(b)' = Launching(b)
        BY <2>2, <3>3 DEF Launching
      <4>2. Launching(b) => actor[b].s # s
        BY <2>1, <3>1 DEF RequestOK
      <4> QED BY <1>5, <2>2, <3>1, <4>1, <4>2 DEF RequestOK
    <3> QED BY <3>2, <3>3
  <2>6. LaunchedOnce'
    <3>1. \A b \in Actors : Launching(b) => actor[b].s # s
      BY <2>1 DEF SafetyInv, RequestOK
    <3> QED BY <2>2, <3>1 DEF SafetyInv, LaunchedOnce, Launching
  <2> QED BY <1>0, <2>4, <2>5, <2>6 DEF SafetyInv
<1>6. ASSUME NEW s \in Sessions, CreateSession(a, s) \/ ApiCreateSession(a, s)
      PROVE  SafetyInv'
  <2>1. CASE CreateSession(a, s)
    BY <1>5, <2>1 DEF CreateSession
  <2>2. CASE ApiCreateSession(a, s)
    BY <1>5, <2>2, Statuses DEF ApiCreateSession
  <2> QED BY <1>6, <2>1, <2>2
<1>7. ASSUME NEW s \in Sessions, s = actor[a].s, Launching(a),
             actor'[a].pc = "idle", \A b \in Actors \ {a} : actor'[b] = actor[b],
             task'[s].pc \in {"update", "harvest", "dispatch"},
             sess'[s] = sess[s] \/ sess'[s] = actor[a].row,
             \A r \in Sessions \ {s} : task'[r] = task[r] /\ sess'[r] = sess[r],
             member' = member
      PROVE  SafetyInv'
  <2>1. Fresh(actor[a].row) /\ task[s].pc = "none" /\ sess[s].status # NONE
    BY <1>7 DEF SafetyInv, RequestOK
  <2>2. sess'[s] = sess[s] \/ Fresh(sess'[s])
    BY <1>7, <2>1
  <2>3. SessionOK(s)
    BY <2>1 DEF SafetyInv
  <2>4. SessionOK(s)'
    <3>1. sess'[s].status # NONE /\ sess'[s].ended = FALSE
      BY <1>0, <2>1, <2>2, <2>3, Distinct DEF Fresh, SessionOK, AfterEnd, TypeOK, Row
    <3> QED BY <1>7, <2>1, <2>2, <2>3, <3>1 DEF SessionOK, AfterEnd, HoldingPc
  <2>5. ASSUME NEW r \in Sessions PROVE SessionOK(r)'
    <3>1. CASE r # s
      <4>1. SessionOK(r)
        BY DEF SafetyInv
      <4> QED BY <1>7, <2>2, <3>1, <4>1 DEF SessionOK
    <3> QED BY <2>4, <3>1
  <2>6. ASSUME NEW b \in Actors PROVE RequestOK(b)'
    <3>1. CASE b = a
      BY <1>7, <3>1 DEF RequestOK, Launching
    <3>2. CASE b # a
      <4>1. RequestOK(b) /\ actor'[b] = actor[b] /\ Launching(b)' = Launching(b)
        BY <1>7, <3>2 DEF SafetyInv, Launching
      <4>2. Launching(b) => actor[b].s # s
        BY <1>7, <3>2 DEF SafetyInv, LaunchedOnce
      <4>3. actor[b].pc = "abort-save" /\ actor[b].s \in Sessions =>
              task'[actor[b].s] = task[actor[b].s] \/ task[actor[b].s].pc \notin AfterEnd
        BY <1>7, <2>1 DEF AfterEnd
      <4>4. Launching(b) => /\ task'[actor[b].s] = task[actor[b].s]
                            /\ sess'[actor[b].s] = sess[actor[b].s]
        BY <1>7, <4>1, <4>2 DEF RequestOK
      <4> QED BY <4>1, <4>3, <4>4 DEF RequestOK
    <3> QED BY <3>1, <3>2
  <2>7. LaunchedOnce'
    BY <1>7 DEF SafetyInv, LaunchedOnce, Launching
  <2> QED BY <1>0, <2>5, <2>6, <2>7 DEF SafetyInv
<1>t. \A op, type, ids : FirstTask(op, type, ids).pc \in {"update", "harvest", "dispatch"}
  BY DEF FirstTask, At, Holding
<1>d. Done(a) => actor'[a].pc = "idle" /\ \A b \in Actors \ {a} : actor'[b] = actor[b]
  BY <1>0 DEF Done, Idle, TypeOK
<1>12. CASE Initiate(a)
  <2>1. PICK ids : task' = [task EXCEPT ![actor[a].s] =
                              FirstTask(actor[a].op, actor[a].row.type, ids)]
    BY <1>12 DEF Initiate
  <2>2. /\ Launching(a) /\ Done(a) /\ member' = member
        /\ sess' = [sess EXCEPT ![actor[a].s] = actor[a].row]
    BY <1>12 DEF Initiate, Launching
  <2>3. PICK s \in Sessions : s = actor[a].s
    BY <2>2 DEF SafetyInv, RequestOK
  <2>4. /\ task'[s].pc \in {"update", "harvest", "dispatch"}
        /\ sess'[s] = actor[a].row
        /\ \A r \in Sessions \ {s} : task'[r] = task[r] /\ sess'[r] = sess[r]
    BY <1>0, <1>t, <2>1, <2>2, <2>3 DEF TypeOK
  <2> QED BY <1>7, <1>d, <2>2, <2>3, <2>4
<1>14. CASE ApiStartTask(a)
  <2>1. /\ Launching(a) /\ Done(a) /\ member' = member /\ sess' = sess
        /\ task' = [task EXCEPT ![actor[a].s] = FirstTask("api", OpType(actor[a].op), {})]
    BY <1>14 DEF ApiStartTask, Launching
  <2>2. PICK s \in Sessions : s = actor[a].s
    BY <2>1 DEF SafetyInv, RequestOK
  <2>3. /\ task'[s].pc \in {"update", "harvest", "dispatch"}
        /\ \A r \in Sessions \ {s} : task'[r] = task[r]
    BY <1>0, <1>t, <2>1, <2>2 DEF TypeOK
  <2> QED BY <1>7, <1>d, <2>1, <2>2, <2>3
<1>10. CASE SaveAbort(a)
  <2> DEFINE s == actor[a].s
  <2>1. /\ s \in Sessions /\ actor[a].row.status \notin {NONE, PENDING, ON_GOING}
        /\ actor[a].row.ended => task[s].pc \in AfterEnd
    BY <1>10 DEF SaveAbort, SafetyInv, RequestOK
  <2>2. /\ sess'[s] = actor[a].row
        /\ \A r \in Sessions \ {s} : sess'[r] = sess[r]
        /\ actor'[a].pc = "idle"
        /\ \A b \in Actors \ {a} : actor'[b] = actor[b]
        /\ UNCHANGED <<task, member>>
    BY <1>0, <1>10, <2>1 DEF SaveAbort, Done, Idle, TypeOK
  <2>3. ASSUME NEW r \in Sessions PROVE SessionOK(r)'
    <3>1. SessionOK(r)
      BY DEF SafetyInv
    <3>2. CASE r = s
      BY <2>1, <2>2, <3>1, <3>2 DEF SessionOK
    <3>3. CASE r # s
      BY <2>2, <3>1, <3>3 DEF SessionOK
    <3> QED BY <3>2, <3>3
  <2>4. ASSUME NEW b \in Actors PROVE RequestOK(b)'
    <3>1. CASE b = a
      BY <2>2, <3>1 DEF RequestOK, Launching
    <3>2. CASE b # a
      <4>1. RequestOK(b) /\ actor'[b] = actor[b] /\ Launching(b)' = Launching(b)
        BY <2>2, <3>2 DEF SafetyInv, Launching
      <4> QED BY <2>1, <2>2, <4>1 DEF RequestOK
    <3> QED BY <3>1, <3>2
  <2>5. LaunchedOnce'
    BY <2>2 DEF SafetyInv, LaunchedOnce, Launching
  <2> QED BY <1>0, <2>3, <2>4, <2>5 DEF SafetyInv
<1> QED BY <1>1, <1>2, <1>3, <1>4, <1>6, <1>8, <1>9, <1>10, <1>11, <1>12, <1>13, <1>14,
           <1>15, <1>16, <1>17 DEF ActorStep

-----------------------------------------------------------------------------
\* A step of the control task of s that touches no other session, no member and
\* no request.
LEMMA TaskFrame ==
    ASSUME SafetyInv, TypeOK', NEW s \in Sessions,
           \A r \in Sessions \ {s} : task'[r] = task[r] /\ sess'[r] = sess[r],
           UNCHANGED <<member, actor>>,
           task[s].pc \notin AfterEnd \cup {"none", "chord"},
           task'[s].pc # "chord",
           sess'[s].ended => task'[s].pc \in AfterEnd,
           task'[s].pc \in HoldingPc =>
               task'[s].row.status = ON_GOING /\ task'[s].row.ended = FALSE,
           task'[s].pc = "finish" => task'[s].final \in Verdicts,
           sess'[s].status # NONE,
           task'[s].pc \in AfterEnd \ {"lost"} => sess'[s].status \notin {PENDING, ON_GOING}
    PROVE  SafetyInv'
<1>1. SessionOK(s)
  BY DEF SafetyInv
<1>2. SessionOK(s)'
  BY <1>1 DEF SessionOK
<1> QED BY <1>2, SessionFrame

\* A step of the control task of s, still before the end, that leaves the row.
LEMMA BeforeEnd ==
    ASSUME SafetyInv, TypeOK', NEW s \in Sessions,
           \A r \in Sessions \ {s} : task'[r] = task[r], UNCHANGED <<sess, member, actor>>,
           task[s].pc \notin AfterEnd \cup {"none", "chord"},
           task'[s].pc \notin AfterEnd \cup {"chord"},
           task'[s].pc \in HoldingPc =>
               task'[s].row.status = ON_GOING /\ task'[s].row.ended = FALSE,
           task'[s].pc = "finish" => task'[s].final \in Verdicts
    PROVE  SafetyInv'
<1>1. SessionOK(s)
  BY DEF SafetyInv
<1> QED BY <1>1, TaskFrame DEF SessionOK

\* Steps of control tasks preserve the invariant.
LEMMA TaskSafe ==
    ASSUME SafetyInv, NEW s \in Sessions, TaskStep(s) \/ Raise(s) \/ LoseTask(s)
    PROVE  SafetyInv'
<1>0. /\ TypeOK /\ TypeOK' /\ SessionOK(s)
      /\ task \in [Sessions -> TaskRecord] /\ sess \in [Sessions -> Row]
      /\ task[s] \in TaskRecord /\ sess[s] \in Row
  BY TaskStepTypes DEF SafetyInv, TypeOK
<1>p. ASSUME NEW p, Goto(s, p)
      PROVE  /\ task'[s].pc = p /\ task'[s].row = task[s].row
             /\ task'[s].final = task[s].final
             /\ \A r \in Sessions \ {s} : task'[r] = task[r]
  BY <1>0, <1>p DEF Goto, TaskRecord
<1>b. ASSUME NEW t, Become(s, t)
      PROVE  task'[s] = t /\ \A r \in Sessions \ {s} : task'[r] = task[r]
  BY <1>0, <1>b DEF Become
<1>r. /\ [sess[s] EXCEPT !.status = ON_GOING].status = ON_GOING
      /\ [sess[s] EXCEPT !.status = ON_GOING].ended = sess[s].ended
  BY <1>0 DEF Row
<1>v. {ALL_OK, ALL_FAILED, SOME_FAILED, ABORTED} = Verdicts
  BY DEF Verdicts
<1>1. CASE StartRefresh(s)
  <2>1. CASE sess[s].status = ABORTED
    <3>1. Become(s, At("over")) /\ UNCHANGED <<sess, member, actor>>
      BY <1>1, <2>1 DEF StartRefresh, OnlyTask
    <3>2. task'[s].pc = "over"
      BY <1>b, <3>1 DEF At
    <3>3. sess'[s].ended = FALSE /\ sess'[s].status \notin {NONE, PENDING, ON_GOING}
      BY <1>0, <1>1, <1>v, <2>1, <3>1, Distinct DEF StartRefresh, SessionOK, AfterEnd, Row
    <3> QED BY <1>0, <1>b, <1>1, <3>1, <3>2, <3>3, TaskFrame
            DEF StartRefresh, AfterEnd, HoldingPc
  <2>2. CASE sess[s].status # ABORTED
    <3> DEFINE t == Holding("u-ongoing", [sess[s] EXCEPT !.status = ON_GOING], {})
    <3>1. task'[s] = t /\ \A r \in Sessions \ {s} : task'[r] = task[r]
      BY <1>b, <1>1, <2>2 DEF StartRefresh
    <3>2. t.pc = "u-ongoing" /\ t.row = [sess[s] EXCEPT !.status = ON_GOING]
      BY DEF Holding
    <3>3. sess[s].ended = FALSE
      BY <1>0, <1>1 DEF StartRefresh, SessionOK, AfterEnd, Row
    <3> HIDE DEF t
    <3> QED BY <1>0, <1>1, <1>r, <3>1, <3>2, <3>3, BeforeEnd
            DEF StartRefresh, OnlyTask, AfterEnd
  <2> QED BY <2>1, <2>2
<1>2. CASE MarkOnGoing(s)
  <2>1. task[s].row.status = ON_GOING /\ task[s].row.ended = FALSE
    BY <1>0, <1>2 DEF MarkOnGoing, SessionOK, HoldingPc
  <2>2. /\ task'[s].pc = "u-harvester" /\ task'[s].row = task[s].row
        /\ \A r \in Sessions \ {s} : task'[r] = task[r]
    BY <1>2, <1>p DEF MarkOnGoing
  <2>3. sess'[s] = task[s].row /\ \A r \in Sessions \ {s} : sess'[r] = sess[r]
    BY <1>0, <1>2 DEF MarkOnGoing
  <2> QED BY <1>0, <1>2, <2>1, <2>2, <2>3, Distinct, TaskFrame DEF MarkOnGoing, AfterEnd
<1>3. CASE FetchHarvester(s)
  <2> DEFINE t == [task[s] EXCEPT !.h = hstatus,
                     !.pc = IF task[s].pc = "u-harvester" THEN "u-avail" ELSE "h-avail"]
  <2>1. task'[s] = t /\ \A r \in Sessions \ {s} : task'[r] = task[r]
    BY <1>0, <1>3 DEF FetchHarvester
  <2>2. t.pc \in {"u-avail", "h-avail"} /\ t.row = task[s].row
    BY <1>0 DEF TaskRecord
  <2>3. task[s].row.status = ON_GOING /\ task[s].row.ended = FALSE
    BY <1>0, <1>3 DEF FetchHarvester, SessionOK, HoldingPc
  <2> HIDE DEF t
  <2> QED BY <1>0, <1>3, <2>1, <2>2, <2>3, BeforeEnd DEF FetchHarvester, OnlyTask, AfterEnd
<1>4. CASE CheckRemote(s)
  <2>1. CASE Become(s, Finishing(ALL_FAILED))
    <3>1. Finishing(ALL_FAILED).pc = "finish" /\ Finishing(ALL_FAILED).final = ALL_FAILED
      BY DEF Finishing
    <3> QED BY <1>0, <1>4, <1>b, <1>v, <2>1, <3>1, BeforeEnd
            DEF CheckRemote, AfterEnd, HoldingPc
  <2>2. ASSUME NEW p \in {"u-num", "h-session"}, Goto(s, p) PROVE SafetyInv'
    <3>1. task[s].row.status = ON_GOING /\ task[s].row.ended = FALSE
      BY <1>0, <1>4 DEF CheckRemote, SessionOK, HoldingPc
    <3> QED BY <1>0, <1>4, <1>p, <2>2, <3>1, BeforeEnd DEF CheckRemote, AfterEnd
  <2> QED BY <1>4, <2>1, <2>2 DEF CheckRemote
<1>5. CASE CountRemote(s)
  <2>1. CASE Goto(s, "u-save")
    <3>1. task[s].row.status = ON_GOING /\ task[s].row.ended = FALSE
      BY <1>0, <1>5 DEF CountRemote, SessionOK, HoldingPc
    <3>2. /\ task'[s].pc = "u-save" /\ task'[s].row = task[s].row
          /\ \A r \in Sessions \ {s} : task'[r] = task[r]
      BY <1>p, <2>1
    <3> QED BY <1>0, <1>5, <3>1, <3>2, BeforeEnd DEF CountRemote, OnlyTask, AfterEnd
  <2>2. CASE Become(s, With("u-error", hstatus))
    <3>1. With("u-error", hstatus).pc = "u-error"
      BY DEF With
    <3> QED BY <1>0, <1>5, <1>b, <2>2, <3>1, BeforeEnd
            DEF CountRemote, OnlyTask, AfterEnd, HoldingPc
  <2> QED BY <1>5, <2>1, <2>2 DEF CountRemote
<1>6. CASE SaveNumber(s)
  <2>1. task[s].row.status = ON_GOING /\ task[s].row.ended = FALSE
    BY <1>0, <1>6 DEF SaveNumber, SessionOK, HoldingPc
  <2>2. /\ task'[s].pc = "u-session" /\ task'[s].row = task[s].row
        /\ \A r \in Sessions \ {s} : task'[r] = task[r]
    BY <1>6, <1>p DEF SaveNumber
  <2> QED BY <1>0, <1>6, <2>1, <2>2, BeforeEnd DEF SaveNumber, AfterEnd
<1>7. CASE LaunchChord(s)
  <2>1. task[s].row.status = ON_GOING /\ task[s].row.ended = FALSE
    BY <1>0, <1>7 DEF LaunchChord, SessionOK, HoldingPc
  <2>2. /\ sess'[s] = task[s].row /\ task'[s].pc = "chord"
        /\ \A r \in Sessions \ {s} : task'[r] = task[r] /\ sess'[r] = sess[r]
    BY <1>0, <1>7 DEF LaunchChord, Become, At
  <2>3. \A r \in Sessions \ {s} : member'[r] = member[r]
    BY <1>0, <1>7 DEF LaunchChord, TypeOK
  <2>4. SessionOK(s)'
    BY <2>1, <2>2, Distinct DEF SessionOK, AfterEnd, HoldingPc
  <2> QED BY <1>0, <1>7, <2>2, <2>3, <2>4, SessionFrame DEF LaunchChord, AfterEnd
<1>8. CASE RefreshError(s)
  <2>1. Finishing(SOME_FAILED).pc = "finish" /\ Finishing(SOME_FAILED).final = SOME_FAILED
    BY DEF Finishing
  <2> QED BY <1>0, <1>8, <1>b, <1>v, <2>1, BeforeEnd DEF RefreshError, AfterEnd, HoldingPc
<1>9. CASE Dispatch(s)
  <2>1. ASSUME NEW t, Become(s, t), t.pc \in {"finish", "harvest"},
               t.pc = "finish" => t.final \in Verdicts
        PROVE  SafetyInv'
    BY <1>0, <1>9, <1>b, <2>1, BeforeEnd DEF Dispatch, OnlyTask, AfterEnd, HoldingPc
  <2>2. Finishing(ALL_OK).pc = "finish" /\ Finishing(ALL_OK).final \in Verdicts
    BY <1>v DEF Finishing
  <2>3. \A ids : Holding("harvest", NoRow, ids).pc = "harvest"
    BY DEF Holding
  <2>4. PICK ids \in SUBSET Items : Become(s, Finishing(ALL_OK))
                                    \/ Become(s, Holding("harvest", NoRow, ids))
    BY <1>9 DEF Dispatch
  <2> QED BY <2>1, <2>2, <2>3, <2>4
<1>10. CASE StartHarvest(s)
  <2>1. CASE sess[s].status = ABORTED
    <3>1. Become(s, At("over")) /\ UNCHANGED <<sess, member, actor>>
      BY <1>10, <2>1 DEF StartHarvest, OnlyTask
    <3>2. task'[s].pc = "over"
      BY <1>b, <3>1 DEF At
    <3>3. sess'[s].ended = FALSE /\ sess'[s].status \notin {NONE, PENDING, ON_GOING}
      BY <1>0, <1>10, <1>v, <2>1, <3>1, Distinct DEF StartHarvest, SessionOK, AfterEnd, Row
    <3> QED BY <1>0, <1>b, <1>10, <3>1, <3>2, <3>3, TaskFrame
            DEF StartHarvest, AfterEnd, HoldingPc
  <2>2. CASE sess[s].status # ABORTED
    <3> DEFINE t == Holding("h-harvester", [sess[s] EXCEPT !.status = ON_GOING],
                            task[s].ids)
    <3>1. task'[s] = t /\ \A r \in Sessions \ {s} : task'[r] = task[r]
      BY <1>b, <1>10, <2>2 DEF StartHarvest
    <3>2. t.pc = "h-harvester" /\ t.row = [sess[s] EXCEPT !.status = ON_GOING]
      BY DEF Holding
    <3>3. sess[s].ended = FALSE
      BY <1>0, <1>10 DEF StartHarvest, SessionOK, AfterEnd, Row
    <3> HIDE DEF t
    <3> QED BY <1>0, <1>10, <1>r, <3>1, <3>2, <3>3, BeforeEnd
            DEF StartHarvest, OnlyTask, AfterEnd
  <2> QED BY <2>1, <2>2
<1>11. CASE FinishChord(s)
  <2>1. \A i \in Items : member'[s][i] \notin AtWork
    BY <1>0, <1>11 DEF FinishChord, ChordDone, ChordMembers, Settled, AtWork, OnlyTask
  <2>2. PICK t : /\ Become(s, t) /\ t.pc \in {"finish", "u-error"}
                 /\ t.pc = "finish" => t.final \in Verdicts
    <3>1. /\ \A st \in Verdicts : Finishing(st).pc = "finish" /\ Finishing(st).final = st
          /\ With("u-error", hstatus).pc = "u-error"
      BY DEF Finishing, With
    <3> QED BY <1>11, <1>v, <3>1 DEF FinishChord
  <2>3. /\ task'[s] = t
        /\ \A r \in Sessions \ {s} : task'[r] = task[r]
        /\ UNCHANGED <<sess, member, actor>>
    BY <1>0, <1>11, <2>2 DEF FinishChord, OnlyTask, Become
  <2>4. SessionOK(s)'
    BY <1>0, <1>11, <2>1, <2>2, <2>3 DEF FinishChord, SessionOK, AfterEnd, HoldingPc
  <2> QED BY <1>0, <1>11, <2>3, <2>4, SessionFrame DEF FinishChord, AfterEnd
<1>12. CASE FinishSession(s)
  <2>1. task[s].final \in Verdicts
    BY <1>0, <1>12 DEF FinishSession, SessionOK
  <2>2. /\ sess'[s].status = task[s].final
        /\ \A r \in Sessions \ {s} : sess'[r] = sess[r]
    BY <1>0, <1>12 DEF FinishSession, Row
  <2>3. task'[s].pc = "free" /\ \A r \in Sessions \ {s} : task'[r] = task[r]
    BY <1>12, <1>p DEF FinishSession
  <2> QED BY <1>0, <1>12, <2>1, <2>2, <2>3, Distinct, TaskFrame
          DEF FinishSession, AfterEnd, HoldingPc
<1>a. ASSUME NEW t, Become(s, t), t.pc \in AfterEnd, task[s].pc \in AfterEnd \ {"lost"},
             UNCHANGED <<sess, member, actor>>
      PROVE  SafetyInv'
  <2>1. task'[s] = t /\ \A r \in Sessions \ {s} : task'[r] = task[r]
    BY <1>0, <1>a DEF Become
  <2>2. SessionOK(s)'
    BY <1>0, <1>a, <2>1 DEF SessionOK, AfterEnd, HoldingPc
  <2> QED BY <1>0, <1>a, <2>1, <2>2, SessionFrame DEF AfterEnd
<1>t. \A p : At(p).pc = p /\ \A h : With(p, h).pc = p
  BY DEF At, With
<1>13. CASE FreeHarvester(s)
  BY <1>13, <1>a, <1>t DEF FreeHarvester, AfterEnd
<1>14. CASE Recheck(s)
  BY <1>14, <1>a, <1>t DEF Recheck, OnlyTask, AfterEnd
<1>15. CASE SaveChecked(s)
  BY <1>15, <1>a, <1>t DEF SaveChecked, AfterEnd
<1>16. CASE LoseTask(s)
  <2>1. /\ task'[s] = At("lost") /\ \A r \in Sessions \ {s} : task'[r] = task[r]
        /\ UNCHANGED <<sess, member, actor>> /\ task[s].pc \notin {"none", "chord"}
    BY <1>0, <1>16 DEF LoseTask, Become
  <2>2. SessionOK(s)'
    BY <1>0, <1>t, <2>1 DEF SessionOK, AfterEnd, HoldingPc
  <2> QED BY <1>0, <1>t, <2>1, <2>2, SessionFrame DEF AfterEnd
<1>17. CASE Raise(s)
  <2>1. CASE task[s].pc = "finish"
    <3>1. PICK t : /\ Become(s, t) /\ t.pc \in {"finish", "u-error"}
                   /\ t.pc = "finish" => t.final \in Verdicts
      <4>1. /\ Finishing(SOME_FAILED).pc = "finish" /\ Finishing(SOME_FAILED).final \in Verdicts
            /\ With("u-error", hstatus).pc = "u-error"
        BY <1>v DEF Finishing, With
      <4> QED BY <1>17, <2>1, <4>1 DEF Raise
    <3>2. task'[s] = t /\ (\A r \in Sessions \ {s} : task'[r] = task[r])
          /\ UNCHANGED <<sess, member, actor>>
      BY <1>17, <1>b, <3>1 DEF Raise
    <3> QED BY <1>0, <2>1, <3>1, <3>2, BeforeEnd DEF AfterEnd, HoldingPc
  <2>2. CASE task[s].pc # "finish"
    <3>1. task[s].pc \in AfterEnd \ {"lost"} /\ UNCHANGED <<sess, member, actor>>
      BY <1>17, <2>2 DEF Raise, InBody, AfterEnd
    <3>2. Become(s, At("e-finish")) \/ Become(s, With("e-save", hstatus))
      BY <1>17, <2>2 DEF Raise
    <3> QED BY <1>a, <1>t, <3>1, <3>2 DEF AfterEnd
  <2> QED BY <2>1, <2>2
<1>18. CASE SaveError(s)
  BY <1>18, <1>a, <1>t DEF SaveError, AfterEnd
<1>19. CASE FinishAgain(s)
  <2>1. /\ sess'[s].status = SOME_FAILED
        /\ \A r \in Sessions \ {s} : sess'[r] = sess[r]
    BY <1>0, <1>19 DEF FinishAgain, Row
  <2>2. task'[s].pc = "e-free" /\ \A r \in Sessions \ {s} : task'[r] = task[r]
    BY <1>19, <1>p DEF FinishAgain
  <2>3. SessionOK(s)'
    BY <1>0, <1>19, <1>v, <2>1, <2>2, Distinct DEF FinishAgain, SessionOK, AfterEnd, HoldingPc
  <2> QED BY <1>0, <1>19, <2>1, <2>2, <2>3, SessionFrame DEF FinishAgain, AfterEnd
<1>20. CASE FreeAgain(s)
  BY <1>20, <1>a, <1>t DEF FreeAgain, AfterEnd
<1> QED BY <1>1, <1>2, <1>3, <1>4, <1>5, <1>6, <1>7, <1>8, <1>9, <1>10, <1>11, <1>12,
           <1>13, <1>14, <1>15, <1>16, <1>17, <1>18, <1>19, <1>20 DEF TaskStep

\* Steps of chord members preserve the invariant: they keep the status and the
\* end date of the session, and one is queued or working only while the chord runs.
LEMMA MemberSafe ==
    ASSUME SafetyInv, NEW s \in Sessions, NEW i \in Items,
           MemberStep(s, i) \/ LoseMember(s, i)
    PROVE  SafetyInv'
<1>0. TypeOK /\ TypeOK' /\ SessionOK(s)
  BY MemberTypes DEF SafetyInv
<1>m. \/ StartMember(s, i) \/ CountMember(s, i) \/ CountPage(s, i) \/ EndMember(s, i)
      \/ LoseMember(s, i)
  BY DEF MemberStep
<1>1. task[s].pc = "chord" /\ UNCHANGED <<task, actor>>
  <2>1. member[s][i] \in AtWork /\ UNCHANGED <<task, actor>>
    BY <1>m DEF AtWork, StartMember, CountMember, CountPage, EndMember, LoseMember
  <2> QED BY <1>0, <2>1 DEF SessionOK
<1>2. \A r \in Sessions \ {s} : member'[r] = member[r] /\ sess'[r] = sess[r]
  BY <1>0, <1>m DEF TypeOK, StartMember, CountMember, CountPage, EndMember, LoseMember
<1>3. sess'[s].status = sess[s].status /\ sess'[s].ended = sess[s].ended
  BY <1>0, <1>m DEF TypeOK, Row, StartMember, CountMember, CountPage, EndMember, LoseMember
<1>4. SessionOK(s)'
  BY <1>0, <1>1, <1>3 DEF SessionOK, AfterEnd, HoldingPc
<1> QED BY <1>0, <1>1, <1>2, <1>4, SessionFrame DEF AfterEnd

\* No copy exists before the first request.
LEMMA InitSafe == Init => SafetyInv
<1> SUFFICES ASSUME Init PROVE SafetyInv
  OBVIOUS
<1>1. \A s \in Sessions : /\ task[s].pc = "none" /\ sess[s].status = NONE
                          /\ sess[s].ended = FALSE /\ member[s] = NoMembers
  BY DEF Init, At, NoRow
<1>2. \A a \in Actors : actor[a].pc = "idle"
  BY DEF Init, Idle
<1>3. \A s \in Sessions : SessionOK(s)
  BY <1>1 DEF SessionOK, AfterEnd, HoldingPc, NoMembers, AtWork
<1>4. (\A a \in Actors : RequestOK(a)) /\ LaunchedOnce
  BY <1>2 DEF RequestOK, LaunchedOnce, Launching
<1> QED BY <1>3, <1>4, InitTypes DEF SafetyInv

\* SafetyInv is an inductive invariant of the specification.
THEOREM SafetyCorrect == Spec => []SafetyInv
<1>1. SafetyInv /\ [Next]_vars => SafetyInv'
  <2> SUFFICES ASSUME SafetyInv, [Next]_vars PROVE SafetyInv'
    OBVIOUS
  <2>1. CASE UNCHANGED vars
    BY <2>1 DEF vars, SafetyInv, TypeOK, SessionOK, RequestOK, LaunchedOnce, Launching
  <2> QED BY <2>1, ActorSafe, TaskSafe, MemberSafe DEF Next
<1> QED BY <1>1, InitSafe, PTL DEF Spec

\* A session that has an end date has no member waiting or at work.
THEOREM EndsAfterItsWork == Spec => []WorkSettledBeforeEnd
<1>1. SafetyInv => WorkSettledBeforeEnd
  BY DEF SafetyInv, SessionOK, WorkSettledBeforeEnd, AfterEnd
<1> QED BY <1>1, SafetyCorrect, PTL

\* A session whose control task has finished it is never shown as pending or
\* on-going again by the late save of a stale copy.
THEOREM StaysEnded == Spec => []NeverResurrected
<1>1. SafetyInv => NeverResurrected
  BY DEF SafetyInv, SessionOK, NeverResurrected, AfterEnd
<1> QED BY <1>1, SafetyCorrect, PTL

\* While the chord of an aborting session runs, no save turns it on-going again.
THEOREM AbortKept == Spec => AbortNotForgotten
<1>1. ASSUME SafetyInv, [Next]_vars, NEW s \in Sessions,
             task[s].pc = "chord", sess[s].status = ABORTING
      PROVE  sess'[s].status # ON_GOING
  <2>0. TypeOK /\ SessionOK(s) /\ ABORTING # ON_GOING /\ ABORTING # NONE
    BY <1>1 DEF SafetyInv, ABORTING, ON_GOING, NONE
  <2>1. CASE UNCHANGED vars
    BY <1>1, <2>0, <2>1 DEF vars
  <2>2. ASSUME NEW a \in Actors, ActorStep(a) \/ \E op \in Ops : ReadHarvester(a, op)
        PROVE  sess'[s].status # ON_GOING
    <3>0. RequestOK(a)
      BY <1>1 DEF SafetyInv
    <3>1. CASE sess' = sess
      BY <1>1, <2>0, <3>1
    <3>2. CASE \E r \in Sessions : CreateSession(a, r) \/ ApiCreateSession(a, r)
      <4>1. PICK r \in Sessions : IsNext(r) /\ \A q \in Sessions \ {r} : sess'[q] = sess[q]
        BY <2>0, <3>2 DEF CreateSession, ApiCreateSession, TypeOK
      <4> QED BY <1>1, <2>0, <4>1 DEF IsNext
    <3>3. CASE Initiate(a)
      <4>1. actor[a].s \in Sessions /\ task[actor[a].s].pc = "none"
        BY <3>0, <3>3 DEF RequestOK, Initiate, Launching
      <4> QED BY <1>1, <2>0, <3>3, <4>1 DEF Initiate, TypeOK
    <3>4. CASE SaveAbort(a)
      <4>1. actor[a].s \in Sessions /\ actor[a].row.status # ON_GOING
        BY <3>0, <3>4 DEF RequestOK, SaveAbort
      <4>2. sess'[s] = sess[s] \/ sess'[s] = actor[a].row
        BY <2>0, <3>4, <4>1 DEF SaveAbort, TypeOK
      <4> QED BY <1>1, <2>0, <4>1, <4>2
    <3> QED BY <2>2, <3>1, <3>2, <3>3, <3>4
            DEF ActorStep, ReadHarvester, UpdateAvailability, InitiateStart, Refuse,
                InitiateAbort, ReadLatest, ResetStatus, ApiSaveBusy, ApiStartTask,
                ApiSave, ApiSaveChecking, ApiStartCheck
  <2>3. ASSUME NEW r \in Sessions, TaskStep(r) \/ Raise(r) \/ LoseTask(r)
        PROVE  sess'[s].status # ON_GOING
    <3>1. CASE sess' = sess
      BY <1>1, <2>0, <3>1
    <3>2. CASE MarkOnGoing(r) \/ LaunchChord(r) \/ FinishSession(r) \/ FinishAgain(r)
      <4>1. r # s
        BY <1>1, <3>2 DEF MarkOnGoing, LaunchChord, FinishSession, FinishAgain
      <4>2. sess'[s] = sess[s]
        BY <2>0, <3>2, <4>1 DEF MarkOnGoing, LaunchChord, FinishSession, FinishAgain, TypeOK
      <4> QED BY <1>1, <2>0, <4>2
    <3> QED BY <2>3, <3>1, <3>2
            DEF TaskStep, OnlyTask, StartRefresh, FetchHarvester, CheckRemote, CountRemote,
                SaveNumber, RefreshError, Dispatch, StartHarvest, FinishChord,
                FreeHarvester, Recheck, SaveChecked, Raise, SaveError, FreeAgain, LoseTask
  <2>4. ASSUME NEW r \in Sessions, NEW i \in Items, MemberStep(r, i) \/ LoseMember(r, i)
        PROVE  sess'[s].status # ON_GOING
    <3>1. sess'[s].status = sess[s].status
      BY <2>0, <2>4 DEF TypeOK, Row, MemberStep, StartMember, CountMember, CountPage,
                        EndMember, LoseMember
    <3> QED BY <1>1, <2>0, <3>1
  <2> QED BY <1>1, <2>1, <2>2, <2>3, <2>4 DEF Next
<1>2. SafetyInv /\ [Next]_vars =>
        [\A s \in Sessions :
           task[s].pc = "chord" /\ sess[s].status = ABORTING => sess'[s].status # ON_GOING]_vars
  BY <1>1
<1> QED BY <1>2, SafetyCorrect, PTL DEF Spec, AbortNotForgotten

-----------------------------------------------------------------------------
(* Counts and verdicts.  What the final status and records_done of a session *)
(* say is true of the row and of every copy of it that is yet to be saved:   *)
(* every such row comes from an earlier one by one of a few changes.         *)

\* x is the row of session s, or a copy that its task or a request will save.
Held(s, x) ==
    \/ x = sess[s]
    \/ task[s].pc \in HoldingPc /\ x = task[s].row
    \/ \E a \in Actors : /\ actor[a].pc \in {"send", "abort-save"} /\ actor[a].s = s
                         /\ x = actor[a].row

CountedMembers(s) == {i \in Items : member[s][i] \in Counted}
Saw(s, R) == \E i \in Items : member[s][i] \in R
Broken == Raised \cup Missing

\* Program points before the members of the chord are sent, and those only a
\* refresh reaches.
BeforeChord == {"none", "update", "dispatch", "harvest"} \cup HoldingPc
RefreshPc   == {"update", "u-ongoing", "u-harvester", "u-avail", "u-num", "u-save",
                "u-session", "u-error", "recheck", "recheck-save", "e-save"}

\* The final status st is right about the members of s.
VerdictOf(s, st) ==
    /\ st \in {ALL_OK, ABORTED} => ~Saw(s, Broken)
    /\ st = ALL_FAILED => ChordMembers(s) = {}
    /\ st = SOME_FAILED =>
          \/ Saw(s, Raised) \/ s \in faults.raised
          \/ sess[s].type = DISCOVER /\ ChordMembers(s) = {}

\* What a row or copy x of session s may say.
RowOK(s, x) ==
    /\ x.done <= Cardinality(CountedMembers(s))
    /\ x.type = sess[s].type
    /\ x.status = NONE <=> sess[s].status = NONE
    /\ x.status \in Verdicts \ {ABORTED} => x.ended
    /\ x.ended => /\ x.status \in Verdicts /\ VerdictOf(s, x.status)
                  /\ task[s].pc \in AfterEnd

\* What holds at a program point of the control task of s.
TaskOK(s) ==
    /\ task[s].pc \in BeforeChord => \A i \in Items : member[s][i] = "none"
    /\ task[s].pc \in RefreshPc => sess[s].type = DISCOVER
    /\ task[s].pc = "u-error" =>
          Saw(s, Raised) \/ s \in faults.raised \/ ChordMembers(s) = {}
    /\ task[s].pc = "finish" => VerdictOf(s, task[s].final)
    /\ task[s].pc \in {"e-save", "e-finish", "e-free"} => s \in faults.raised

\* The API enqueues the task of the kind of session it has created.
ApiKind == \A a \in Actors :
    actor[a].pc \in {"api-save", "api-send"} => OpType(actor[a].op) = sess[actor[a].s].type

RowsInv ==
    /\ SafetyInv
    /\ \A s \in Sessions, x \in Row : Held(s, x) => RowOK(s, x)
    /\ \A s \in Sessions : TaskOK(s)
    /\ ApiKind

-----------------------------------------------------------------------------
\* What a step makes of a row or copy y of session s: nothing; the task's copy
\* that says on-going; the copy an abort has changed; the row at the end of the
\* session, or when the error callback ends it again; the row once a member has
\* counted its success.
Flows(s, y, x) ==
    \/ x = y
    \/ /\ y.status # NONE /\ x.type = y.type /\ x.done = y.done
       /\ \/ x.status = ON_GOING /\ x.ended = FALSE
          \/ x.status = AbortedStatus(y.status) /\ x.ended = y.ended
          \/ /\ x.status = task[s].final /\ x.ended = TRUE
             /\ task[s].pc = "finish" /\ task'[s].pc = "free"
          \/ /\ x.status = SOME_FAILED /\ x.ended = TRUE
             /\ task[s].pc = "e-finish" /\ task'[s].pc = "e-free"
    \/ /\ x = [y EXCEPT !.done = y.done + 1]
       /\ \E i \in Items : member[s][i] \notin Counted /\ member'[s][i] \in Counted

\* Session s is created: its row is new and there is no copy of another.
Creates(s) ==
    /\ sess[s].status = NONE /\ sess'[s].status = PENDING
    /\ sess'[s].ended = FALSE /\ sess'[s].done = 0
    /\ \A x : Held(s, x)' => x = sess'[s]

RowsFlow(s) == \A x : Held(s, x)' => \E y \in Row : Held(s, y) /\ Flows(s, y, x)

\* What is held of a session is a row, and the invariant speaks about it.
LEMMA HeldRows ==
    ASSUME RowsInv, NEW s \in Sessions, NEW x, Held(s, x)
    PROVE  x \in Row /\ RowOK(s, x)
<1>1. x \in Row
  <2>1. sess[s] \in Row /\ task[s].row \in Row /\ \A a \in Actors : actor[a].row \in Row
    BY DEF RowsInv, SafetyInv, TypeOK, TaskRecord, ActorRecord
  <2> QED BY <2>1 DEF Held
<1> QED BY <1>1 DEF RowsInv

\* A step of request a that holds no copy afterwards, and saves at most the one
\* it had, adds nothing to what is held of s.
LEMMA RequestFlow ==
    ASSUME RowsInv, NEW s \in Sessions, NEW a \in Actors,
           actor'[a].pc \notin {"send", "abort-save"},
           \A b \in Actors \ {a} : actor'[b] = actor[b],
           task'[s] = task[s] \/ task'[s].pc \notin HoldingPc,
           \/ sess'[s] = sess[s]
           \/ actor[a].pc \in {"send", "abort-save"} /\ actor[a].s = s /\ sess'[s] = actor[a].row
    PROVE  RowsFlow(s)
<1>1. ASSUME NEW x, Held(s, x)' PROVE Held(s, x)
  BY <1>1 DEF Held
<1> QED BY <1>1, HeldRows DEF RowsFlow, Flows

\* A step that leaves the row, the task and the requests as they are.
LEMMA StillFlow ==
    ASSUME RowsInv, NEW s \in Sessions, sess'[s] = sess[s],
           task'[s] = task[s] \/ task'[s].pc \notin HoldingPc
              \/ (task[s].pc \in HoldingPc /\ task'[s].row = task[s].row),
           UNCHANGED actor
    PROVE  RowsFlow(s)
<1>1. ASSUME NEW x, Held(s, x)' PROVE Held(s, x)
  BY <1>1 DEF Held
<1> QED BY <1>1, HeldRows DEF RowsFlow, Flows

\* A session that does not exist has no copy of its row.
LEMMA NoCopies ==
    ASSUME RowsInv, NEW s \in Sessions, sess[s].status = NONE
    PROVE  /\ task[s].pc = "none"
           /\ \A a \in Actors : actor[a].pc \in {"send", "abort-save", "api-save", "api-send"} => actor[a].s # s
<1>1. task[s].pc = "none"
  BY DEF RowsInv, SafetyInv, SessionOK
<1>2. ASSUME NEW a \in Actors, actor[a].pc \in {"send", "abort-save", "api-save", "api-send"}, actor[a].s = s
      PROVE  FALSE
  <2>1. RequestOK(a)
    BY DEF RowsInv, SafetyInv
  <2>2. CASE Launching(a)
    BY <1>2, <2>1, <2>2 DEF RequestOK
  <2>3. CASE actor[a].pc = "abort-save"
    <3>1. Held(s, actor[a].row)
      BY <1>2, <2>3 DEF Held
    <3>2. actor[a].row.status = NONE
      BY <3>1, HeldRows DEF RowOK
    <3> QED BY <2>1, <2>3, <3>2 DEF RequestOK
  <2> QED BY <1>2, <2>2, <2>3 DEF Launching
<1> QED BY <1>1, <1>2

\* Steps of requests.
LEMMA ActorFlow ==
    ASSUME RowsInv, NEW a \in Actors, ActorStep(a) \/ \E op \in Ops : ReadHarvester(a, op),
           NEW s \in Sessions
    PROVE  RowsFlow(s) \/ Creates(s)
<1>0. /\ TypeOK /\ SafetyInv /\ sess[s] \in Row /\ RequestOK(a)
      /\ sess \in [Sessions -> Row] /\ task \in [Sessions -> TaskRecord]
      /\ actor \in [Actors -> ActorRecord]
  BY DEF RowsInv, SafetyInv, TypeOK
<1>c. ASSUME NEW r, actor' = [actor EXCEPT ![a] = r], r.pc \notin {"send", "abort-save"},
             UNCHANGED <<sess, task>>
      PROVE  RowsFlow(s)
  <2>1. actor'[a] = r /\ \A b \in Actors \ {a} : actor'[b] = actor[b]
    BY <1>0, <1>c
  <2> QED BY <1>c, <2>1, RequestFlow
<1>i. Idle.pc \notin {"send", "abort-save"}
  BY DEF Idle
<1>d. Done(a) => actor'[a].pc = "idle" /\ \A b \in Actors \ {a} : actor'[b] = actor[b]
  BY <1>0 DEF Done, Idle
<1>1. CASE \E op \in Ops : ReadHarvester(a, op)
  <2>1. PICK op \in Ops, p \in ActorPc :
          /\ Enters(op, p)
          /\ actor' = [actor EXCEPT ![a] = [op |-> op, pc |-> p, h |-> hstatus,
                                            s |-> 0, row |-> NoRow]]
          /\ UNCHANGED <<sess, task, member>>
    BY <1>1 DEF ReadHarvester
  <2>2. p \notin {"send", "abort-save"}
    BY <2>1 DEF Enters
  <2> QED BY <1>c, <2>1, <2>2
<1>2. CASE UpdateAvailability(a)
  BY <1>c, <1>i, <1>2 DEF UpdateAvailability, Continue, Done
<1>3. ASSUME NEW type \in SessionType, InitiateStart(a, type) PROVE RowsFlow(s)
  BY <1>c, <1>3 DEF InitiateStart, Continue
<1>4. CASE Refuse(a)
  BY <1>c, <1>i, <1>4 DEF Refuse, Done
<1>8. CASE InitiateAbort(a)
  BY <1>c, <1>8 DEF InitiateAbort, Continue
<1>11. CASE ResetStatus(a)
  BY <1>c, <1>i, <1>11 DEF ResetStatus, Done
<1>13. CASE ApiSave(a) \/ ApiStartCheck(a)
  BY <1>c, <1>i, <1>13 DEF ApiSave, ApiStartCheck, Done
<1>15. CASE ApiSaveBusy(a) \/ ApiSaveChecking(a)
  BY <1>c, <1>15 DEF ApiSaveBusy, ApiSaveChecking, Continue
<1>9. CASE ReadLatest(a)
  <2>1. CASE Done(a)
    BY <1>c, <1>i, <1>9, <2>1 DEF ReadLatest, Done
  <2>2. ASSUME NEW r \in Created,
               Continue(a, "abort-save", actor[a].h, r, AbortedRow(sess[r]))
        PROVE  RowsFlow(s)
    <3>1. /\ r \in Sessions /\ sess[r] \in Row /\ sess[r].status # NONE
          /\ UNCHANGED <<sess, task>>
      BY <1>0, <1>9, <2>2 DEF Created, ReadLatest
    <3>2. /\ actor'[a].s = r /\ actor'[a].row = AbortedRow(sess[r])
          /\ \A b \in Actors \ {a} : actor'[b] = actor[b]
      BY <1>0, <2>2 DEF Continue
    <3>3. Flows(r, sess[r], AbortedRow(sess[r]))
      <4>1. /\ AbortedRow(sess[r]).status = AbortedStatus(sess[r].status)
            /\ AbortedRow(sess[r]).ended = sess[r].ended
            /\ AbortedRow(sess[r]).type = sess[r].type
            /\ AbortedRow(sess[r]).done = sess[r].done
        BY <3>1 DEF AbortedRow, Row
      <4> QED BY <3>1, <4>1 DEF Flows
    <3>4. ASSUME NEW x, Held(s, x)' PROVE Held(s, x) \/ (r = s /\ x = AbortedRow(sess[s]))
      BY <3>1, <3>2, <3>4 DEF Held
    <3>5. Held(s, sess[s]) /\ \A x : Flows(s, x, x)
      BY DEF Held, Flows
    <3> QED BY <3>1, <3>3, <3>4, <3>5, HeldRows DEF RowsFlow
  <2> QED BY <1>9, <2>1, <2>2 DEF ReadLatest, OfType
<1>5. ASSUME NEW r \in Sessions, NEW type \in SessionType, NEW h,
             NEW p \in {"send", "api-save"}, IsNext(r),
             sess' = [sess EXCEPT ![r] = NewRow(type)],
             Continue(a, p, h, r, NewRow(type)), UNCHANGED task
      PROVE  RowsFlow(s) \/ Creates(s)
  <2>1. /\ sess'[r] = NewRow(type) /\ \A q \in Sessions \ {r} : sess'[q] = sess[q]
        /\ actor'[a].s = r /\ actor'[a].row = NewRow(type)
        /\ \A b \in Actors \ {a} : actor'[b] = actor[b]
    BY <1>0, <1>5 DEF Continue
  <2>2. CASE r = s
    <3>1. sess[s].status = NONE
      BY <1>5, <2>2 DEF IsNext
    <3>2. ASSUME NEW x, Held(s, x)' PROVE x = NewRow(type)
      BY <1>5, <2>1, <2>2, <3>1, <3>2, NoCopies DEF Held, HoldingPc
    <3>3. /\ NewRow(type).status = PENDING /\ NewRow(type).ended = FALSE
          /\ NewRow(type).done = 0
      BY DEF NewRow
    <3> QED BY <2>1, <2>2, <3>1, <3>2, <3>3 DEF Creates
  <2>3. CASE r # s
    <3>1. ASSUME NEW x, Held(s, x)' PROVE Held(s, x)
      BY <1>5, <2>1, <2>3, <3>1 DEF Held
    <3> QED BY <3>1, HeldRows DEF RowsFlow, Flows
  <2> QED BY <2>2, <2>3
<1>6. ASSUME NEW r \in Sessions, CreateSession(a, r) \/ ApiCreateSession(a, r)
      PROVE  RowsFlow(s) \/ Creates(s)
  <2>1. CASE CreateSession(a, r)
    BY <1>5, <2>1 DEF CreateSession
  <2>2. CASE ApiCreateSession(a, r)
    BY <1>5, <2>2, Statuses DEF ApiCreateSession
  <2> QED BY <1>6, <2>1, <2>2
<1>t. \A op, type, ids : FirstTask(op, type, ids).pc \notin HoldingPc
  BY DEF FirstTask, At, Holding, HoldingPc
<1>12. CASE Initiate(a)
  <2>1. PICK ids : task' = [task EXCEPT ![actor[a].s] =
                              FirstTask(actor[a].op, actor[a].row.type, ids)]
    BY <1>12 DEF Initiate
  <2>2. /\ Done(a) /\ actor[a].pc = "send" /\ actor[a].s \in Sessions
        /\ sess' = [sess EXCEPT ![actor[a].s] = actor[a].row]
    BY <1>0, <1>12 DEF Initiate, RequestOK, Launching
  <2>3. task'[s] = task[s] \/ task'[s].pc \notin HoldingPc
    BY <1>0, <1>t, <2>1, <2>2
  <2>4. sess'[s] = sess[s] \/ (actor[a].s = s /\ sess'[s] = actor[a].row)
    BY <1>0, <2>2
  <2> QED BY <1>d, <2>2, <2>3, <2>4, RequestFlow
<1>14. CASE ApiStartTask(a)
  <2>1. /\ Done(a) /\ sess' = sess /\ actor[a].s \in Sessions
        /\ task' = [task EXCEPT ![actor[a].s] = FirstTask("api", OpType(actor[a].op), {})]
    BY <1>0, <1>14 DEF ApiStartTask, RequestOK, Launching
  <2>3. task'[s] = task[s] \/ task'[s].pc \notin HoldingPc
    BY <1>0, <1>t, <2>1
  <2> QED BY <1>d, <2>1, <2>3, RequestFlow
<1>10. CASE SaveAbort(a)
  <2>1. /\ Done(a) /\ actor[a].pc = "abort-save" /\ actor[a].s \in Sessions /\ task' = task
        /\ sess' = [sess EXCEPT ![actor[a].s] = actor[a].row]
    BY <1>0, <1>10 DEF SaveAbort, RequestOK
  <2>2. sess'[s] = sess[s] \/ (actor[a].s = s /\ sess'[s] = actor[a].row)
    BY <1>0, <2>1
  <2> QED BY <1>d, <2>1, <2>2, RequestFlow
<1> QED BY <1>1, <1>2, <1>3, <1>4, <1>6, <1>8, <1>9, <1>10, <1>11, <1>12, <1>13, <1>14,
        <1>15 DEF ActorStep

\* Steps of control tasks.
LEMMA TaskFlow ==
    ASSUME RowsInv, NEW r \in Sessions, TaskStep(r) \/ Raise(r) \/ LoseTask(r),
           NEW s \in Sessions
    PROVE  RowsFlow(s)
<1>0. /\ TypeOK /\ SafetyInv /\ SessionOK(r) /\ sess[r] \in Row /\ task[r] \in TaskRecord
      /\ sess \in [Sessions -> Row] /\ task \in [Sessions -> TaskRecord]
  BY DEF RowsInv, SafetyInv, TypeOK
<1>o. CASE r # s
  <2>1. task'[s] = task[s] /\ sess'[s] = sess[s] /\ UNCHANGED actor
    BY <1>0, <1>o DEF TaskStep, OnlyTask, Goto, Become, StartRefresh, MarkOnGoing,
       FetchHarvester, CheckRemote, CountRemote, SaveNumber, LaunchChord, RefreshError,
       Dispatch, StartHarvest, FinishChord, FinishSession, FreeHarvester, Recheck,
       SaveChecked, Raise, SaveError, FinishAgain, FreeAgain, LoseTask
  <2> QED BY <2>1, StillFlow
<1>e. CASE r = s
  <2>p. ASSUME NEW p, Goto(s, p)
        PROVE  task'[s].pc = p /\ task'[s].row = task[s].row
    BY <1>0, <1>e, <2>p DEF Goto, TaskRecord
  <2>b. ASSUME NEW t, Become(s, t) PROVE task'[s] = t
    BY <1>0, <1>e, <2>b DEF Become
  <2>t. /\ \A p : At(p).pc = p /\ \A h : With(p, h).pc = p
        /\ \A st : Finishing(st).pc = "finish"
        /\ \A p, row, ids : Holding(p, row, ids).pc = p /\ Holding(p, row, ids).row = row
    BY DEF At, With, Finishing, Holding
  <2>h. Held(s, sess[s]) /\ (task[s].pc \in HoldingPc => Held(s, task[s].row))
    BY DEF Held
  <2>1. ASSUME NEW p \in HoldingPc, NEW ids, sess[s].status # NONE, sess[s].ended = FALSE,
               Become(s, Holding(p, [sess[s] EXCEPT !.status = ON_GOING], ids)),
               UNCHANGED <<sess, actor>>
        PROVE  RowsFlow(s)
    <3> DEFINE c == [sess[s] EXCEPT !.status = ON_GOING]
    <3>1. task'[s].row = c
      BY <2>1, <2>b, <2>t
    <3>2. Flows(s, sess[s], c)
      BY <1>0, <1>e, <2>1 DEF Flows, Row
    <3> HIDE DEF c
    <3>3. ASSUME NEW x, Held(s, x)' PROVE Held(s, x) \/ x = c
      BY <2>1, <3>1, <3>3 DEF Held
    <3> QED BY <2>h, <3>2, <3>3, HeldRows DEF RowsFlow, Flows
  <2>2. CASE StartRefresh(s) \/ StartHarvest(s)
    <3>1. task[s].pc \notin AfterEnd \cup {"none"} /\ UNCHANGED <<sess, actor>>
      BY <2>2 DEF StartRefresh, StartHarvest, OnlyTask, AfterEnd
    <3>2. sess[s].status # NONE /\ sess[s].ended = FALSE
      BY <1>0, <1>e, <3>1 DEF SessionOK, Row
    <3>3. CASE sess[s].status = ABORTED
      <4>1. Become(s, At("over"))
        BY <2>2, <3>3 DEF StartRefresh, StartHarvest
      <4> QED BY <2>b, <2>t, <3>1, <4>1, StillFlow DEF HoldingPc
    <3>4. CASE sess[s].status # ABORTED
      <4>1. \/ Become(s, Holding("u-ongoing", [sess[s] EXCEPT !.status = ON_GOING], {}))
            \/ Become(s, Holding("h-harvester", [sess[s] EXCEPT !.status = ON_GOING],
                                 task[s].ids))
        BY <2>2, <3>4 DEF StartRefresh, StartHarvest
      <4>2. {"u-ongoing", "h-harvester"} \subseteq HoldingPc
        BY DEF HoldingPc
      <4> QED BY <2>1, <3>1, <3>2, <4>1, <4>2
    <3> QED BY <3>3, <3>4
  <2>3. CASE MarkOnGoing(s) \/ LaunchChord(s)
    <3>1. /\ task[s].pc \in HoldingPc /\ sess'[s] = task[s].row /\ UNCHANGED actor
          /\ task'[s].pc \in HoldingPc => task'[s].row = task[s].row
      BY <1>0, <1>e, <2>3, <2>p, <2>b, <2>t DEF MarkOnGoing, LaunchChord, HoldingPc
    <3>2. ASSUME NEW x, Held(s, x)' PROVE Held(s, x)
      BY <3>1, <3>2 DEF Held
    <3> QED BY <3>2, HeldRows DEF RowsFlow, Flows
  <2>4. CASE FetchHarvester(s)
    <3>1. /\ task[s].pc \in HoldingPc /\ task'[s].row = task[s].row
          /\ UNCHANGED <<sess, actor>>
      BY <1>0, <1>e, <2>4 DEF FetchHarvester, OnlyTask, HoldingPc, TaskRecord
    <3> QED BY <3>1, StillFlow
  <2>5. CASE CheckRemote(s) \/ CountRemote(s) \/ SaveNumber(s)
    <3>1. /\ task[s].pc \in HoldingPc
          /\ task'[s].pc \notin HoldingPc \/ task'[s].row = task[s].row
          /\ UNCHANGED <<sess, actor>>
      <4>1. CASE CheckRemote(s)
        BY <4>1, <2>p, <2>b, <2>t DEF CheckRemote, HoldingPc
      <4>2. CASE CountRemote(s)
        BY <4>2, <2>p, <2>b, <2>t DEF CountRemote, OnlyTask, HoldingPc
      <4>3. CASE SaveNumber(s)
        BY <4>3, <2>p DEF SaveNumber, HoldingPc
      <4> QED BY <2>5, <4>1, <4>2, <4>3
    <3> QED BY <3>1, StillFlow
  <2>6. CASE \/ RefreshError(s) \/ Dispatch(s) \/ FinishChord(s) \/ FreeHarvester(s)
             \/ Recheck(s) \/ SaveChecked(s) \/ Raise(s) \/ SaveError(s) \/ FreeAgain(s)
             \/ LoseTask(s)
    <3>1. PICK t : Become(s, t) /\ t.pc \notin HoldingPc
      <4>1. CASE RefreshError(s)
        BY <4>1, <2>t DEF RefreshError, HoldingPc
      <4>2. CASE Dispatch(s)
        <5>1. PICK ids : Become(s, Finishing(ALL_OK)) \/ Become(s, Holding("harvest", NoRow, ids))
          BY <4>2 DEF Dispatch
        <5> QED BY <5>1, <2>t DEF HoldingPc
      <4>3. CASE FinishChord(s)
        BY <4>3, <2>t DEF FinishChord, HoldingPc
      <4>4. CASE FreeHarvester(s) \/ Recheck(s) \/ SaveChecked(s) \/ LoseTask(s)
        BY <4>4, <2>t DEF FreeHarvester, Recheck, SaveChecked, LoseTask, HoldingPc
      <4>5. CASE Raise(s)
        BY <4>5, <2>t DEF Raise, HoldingPc
      <4>6. CASE SaveError(s) \/ FreeAgain(s)
        BY <4>6, <2>t DEF SaveError, FreeAgain, HoldingPc
      <4> QED BY <2>6, <4>1, <4>2, <4>3, <4>4, <4>5, <4>6
    <3>2. UNCHANGED <<sess, actor>>
      BY <2>6 DEF RefreshError, Dispatch, FinishChord, FreeHarvester, Recheck,
         SaveChecked, Raise, SaveError, FreeAgain, LoseTask, OnlyTask
    <3> QED BY <2>b, <3>1, <3>2, StillFlow
  <2>7. CASE FinishSession(s)
    <3> DEFINE c == [sess[s] EXCEPT !.status = task[s].final, !.ended = TRUE]
    <3>1. sess'[s] = c /\ task'[s].pc = "free" /\ UNCHANGED actor /\ task[s].pc = "finish"
      BY <1>0, <1>e, <2>7, <2>p DEF FinishSession
    <3>2. sess[s].status # NONE
      BY <1>0, <1>e, <3>1 DEF SessionOK
    <3>3. Flows(s, sess[s], c)
      BY <1>0, <1>e, <3>1, <3>2 DEF Flows, Row
    <3> HIDE DEF c
    <3>4. ASSUME NEW x, Held(s, x)' PROVE Held(s, x) \/ x = c
      BY <3>1, <3>4 DEF Held, HoldingPc
    <3> QED BY <2>h, <3>3, <3>4, HeldRows DEF RowsFlow, Flows
  <2>8. CASE FinishAgain(s)
    <3> DEFINE c == [sess[s] EXCEPT !.status = SOME_FAILED, !.ended = TRUE]
    <3>1. /\ sess'[s] = c /\ task'[s].pc = "e-free" /\ UNCHANGED actor
          /\ task[s].pc = "e-finish"
      BY <1>0, <1>e, <2>8, <2>p DEF FinishAgain
    <3>2. sess[s].status # NONE
      BY <1>0, <1>e, <3>1 DEF SessionOK
    <3>3. Flows(s, sess[s], c)
      BY <1>0, <1>e, <3>1, <3>2 DEF Flows, Row
    <3> HIDE DEF c
    <3>4. ASSUME NEW x, Held(s, x)' PROVE Held(s, x) \/ x = c
      BY <3>1, <3>4 DEF Held, HoldingPc
    <3> QED BY <2>h, <3>3, <3>4, HeldRows DEF RowsFlow, Flows
  <2> QED BY <1>e, <2>2, <2>3, <2>4, <2>5, <2>6, <2>7, <2>8 DEF TaskStep
<1> QED BY <1>o, <1>e

\* Steps of chord members: one that succeeds counts.
LEMMA MemberFlow ==
    ASSUME RowsInv, NEW r \in Sessions, NEW i \in Items, MemberStep(r, i) \/ LoseMember(r, i),
           NEW s \in Sessions
    PROVE  RowsFlow(s)
<1>0. UNCHANGED <<task, actor>> /\ sess[s] \in Row /\ member[s] \in [Items -> MemberState]
      /\ TypeOK
  BY DEF RowsInv, SafetyInv, TypeOK, MemberStep, StartMember, CountMember, CountPage,
         EndMember, LoseMember
<1>1. CASE sess' = sess
  BY <1>0, <1>1, StillFlow
<1>2. CASE sess' # sess
  <2>1. PICK v \in {"counted", "ok"} :
          /\ member[r][i] = "working" /\ member' = [member EXCEPT ![r][i] = v]
          /\ sess' = [sess EXCEPT ![r].done = @ + 1]
    BY <1>2 DEF MemberStep, StartMember, CountMember, CountPage, EndMember, LoseMember
  <2>2. CASE r # s
    <3>1. sess'[s] = sess[s]
      BY <1>0, <2>1, <2>2 DEF TypeOK
    <3> QED BY <1>0, <3>1, StillFlow
  <2>3. CASE r = s
    <3> DEFINE c == [sess[s] EXCEPT !.done = sess[s].done + 1]
    <3>1. sess'[s] = c /\ member'[s][i] = v
      BY <1>0, <2>1, <2>3 DEF TypeOK
    <3>2. Flows(s, sess[s], c)
      BY <2>1, <2>3, <3>1 DEF Flows, Counted
    <3> HIDE DEF c
    <3>3. ASSUME NEW x, Held(s, x)' PROVE Held(s, x) \/ x = c
      BY <1>0, <3>1, <3>3 DEF Held
    <3>4. Held(s, sess[s])
      BY DEF Held
    <3> QED BY <3>2, <3>3, <3>4, HeldRows DEF RowsFlow, Flows
  <2> QED BY <2>2, <2>3
<1> QED BY <1>1, <1>2

-----------------------------------------------------------------------------
\* Members change only while the chord runs or when it is launched, those that
\* have counted stay counted, and only Raise adds to the finalizers that raised.
LEMMA MembersFlow ==
    ASSUME RowsInv, Next, NEW s \in Sessions
    PROVE  /\ member'[s] = member[s] \/ task[s].pc = "chord" \/ LaunchChord(s)
           /\ CountedMembers(s) \subseteq CountedMembers(s)'
           /\ task[s].pc \in AfterEnd => task'[s].pc \in AfterEnd
           /\ s \in faults.raised => s \in faults'.raised
<1>0. /\ TypeOK /\ SessionOK(s) /\ TaskOK(s)
      /\ member \in [Sessions -> [Items -> MemberState]]
      /\ task \in [Sessions -> TaskRecord]
      /\ faults \in [lost : Nat, raised : SUBSET Sessions]
  BY DEF RowsInv, SafetyInv, TypeOK
<1>1. ASSUME NEW a \in Actors, ActorStep(a) \/ \E op \in Ops : ReadHarvester(a, op)
      PROVE  /\ member' = member /\ (task[s].pc = "none" \/ task'[s] = task[s])
             /\ faults' = faults
  <2>1. member' = member /\ faults' = faults
    BY <1>1 DEF ActorStep, ReadHarvester, UpdateAvailability, InitiateStart, Refuse,
       CreateSession, ApiCreateSession, Initiate, InitiateAbort, ReadLatest, SaveAbort,
       ResetStatus, ApiSaveBusy, ApiStartTask, ApiSave, ApiSaveChecking, ApiStartCheck
  <2>2. CASE Initiate(a) \/ ApiStartTask(a)
    <3>1. actor[a].s \in Sessions /\ task[actor[a].s].pc = "none"
      BY <2>2 DEF RowsInv, SafetyInv, RequestOK, Launching, Initiate, ApiStartTask
    <3>2. \/ \E t : task' = [task EXCEPT ![actor[a].s] = t]
      BY <2>2 DEF Initiate, ApiStartTask
    <3> QED BY <1>0, <2>1, <3>1, <3>2
  <2>3. CASE task' = task
    BY <2>1, <2>3
  <2> QED BY <1>1, <2>1, <2>2, <2>3 DEF ActorStep, ReadHarvester, UpdateAvailability,
       InitiateStart, Refuse, CreateSession, ApiCreateSession, InitiateAbort, ReadLatest,
       SaveAbort, ResetStatus, ApiSaveBusy, ApiSave, ApiSaveChecking, ApiStartCheck
<1>2. ASSUME NEW r \in Sessions, TaskStep(r) \/ Raise(r) \/ LoseTask(r)
      PROVE  /\ member'[s] = member[s] \/ LaunchChord(s)
             /\ task[s].pc \in AfterEnd => task'[s].pc \in AfterEnd
  <2>1. CASE LaunchChord(r)
    <3>1. r # s => member'[s] = member[s] /\ task'[s] = task[s]
      BY <1>0, <2>1 DEF LaunchChord, Become
    <3> QED BY <2>1, <3>1 DEF LaunchChord, AfterEnd
  <2>2. CASE ~LaunchChord(r)
    <3>1. member' = member
      BY <1>2, <2>2 DEF TaskStep, OnlyTask, StartRefresh, MarkOnGoing,
         FetchHarvester, CheckRemote, CountRemote, SaveNumber, RefreshError,
         Dispatch, StartHarvest, FinishChord, FinishSession, FreeHarvester, Recheck,
         SaveChecked, Raise, SaveError, FinishAgain, FreeAgain, LoseTask
    <3>2. task[s].pc \in AfterEnd => task'[s].pc \in AfterEnd
      <4>1. CASE r # s
        <5>1. task'[s] = task[s]
          BY <1>0, <1>2, <4>1 DEF TaskStep, Goto, Become, StartRefresh, MarkOnGoing,
             FetchHarvester, CheckRemote, CountRemote, SaveNumber, LaunchChord, RefreshError,
             Dispatch, StartHarvest, FinishChord, FinishSession, FreeHarvester, Recheck,
             SaveChecked, Raise, SaveError, FinishAgain, FreeAgain, LoseTask
        <5> QED BY <5>1
      <4>2. CASE r = s /\ task[s].pc \in AfterEnd
        <5>1. \/ FreeHarvester(s) \/ Recheck(s) \/ SaveChecked(s) \/ LoseTask(s)
              \/ task[s].pc # "finish" /\ Raise(s)
              \/ SaveError(s) \/ FinishAgain(s) \/ FreeAgain(s)
          BY <1>2, <4>2 DEF AfterEnd, TaskStep, StartRefresh, MarkOnGoing,
             FetchHarvester, CheckRemote, CountRemote, SaveNumber, LaunchChord, RefreshError,
             Dispatch, StartHarvest, FinishChord, FinishSession
        <5>2. /\ \A p : At(p).pc = p /\ \A h : With(p, h).pc = p
              /\ \A t : Become(s, t) => task'[s] = t
              /\ \A p : Goto(s, p) => task'[s].pc = p
          BY <1>0 DEF At, With, Become, Goto, TaskRecord
        <5> QED BY <5>1, <5>2 DEF FreeHarvester, Recheck, SaveChecked, Raise, SaveError,
               FinishAgain, FreeAgain, LoseTask, AfterEnd
      <4> QED BY <4>1, <4>2
    <3> QED BY <3>1, <3>2
  <2> QED BY <2>1, <2>2
<1>3. ASSUME NEW r \in Sessions, NEW i \in Items, MemberStep(r, i) \/ LoseMember(r, i)
      PROVE  /\ task' = task
             /\ member'[s] = member[s] \/ task[s].pc = "chord"
             /\ CountedMembers(s) \subseteq CountedMembers(s)'
             /\ faults'.raised = faults.raised
  <2>1. PICK v : /\ task' = task /\ member[r][i] \in AtWork
                 /\ member' = [member EXCEPT ![r][i] = v]
                 /\ member[r][i] = "counted" => v \in Counted
    BY <1>3 DEF AtWork, Counted, MemberStep, StartMember, CountMember, CountPage, EndMember,
                LoseMember
  <2>2. \A j \in Items : member[s][j] \in Counted => member'[s][j] \in Counted
    BY <1>0, <2>1 DEF AtWork, Counted
  <2>3. member'[s] = member[s] \/ r = s
    BY <1>0, <2>1
  <2>4. faults'.raised = faults.raised
    BY <1>0, <1>3 DEF MemberStep, StartMember, CountMember, CountPage, EndMember, LoseMember
  <2> QED BY <1>0, <2>1, <2>2, <2>3, <2>4 DEF SessionOK, CountedMembers
<1>4. member'[s] = member[s] \/ task[s].pc = "chord" \/ LaunchChord(s)
  BY <1>1, <1>2, <1>3 DEF Next
<1>5. task[s].pc \in AfterEnd => task'[s].pc \in AfterEnd
  BY <1>1, <1>2, <1>3 DEF Next, AfterEnd
<1>6. CountedMembers(s) \subseteq CountedMembers(s)'
  <2>1. CASE member'[s] = member[s]
    BY <2>1 DEF CountedMembers
  <2>2. CASE LaunchChord(s)
    BY <1>0, <2>2 DEF LaunchChord, TaskOK, BeforeChord, HoldingPc, CountedMembers, Counted
  <2> QED BY <1>1, <1>2, <1>3, <2>1, <2>2 DEF Next
<1>7. s \in faults.raised => s \in faults'.raised
  <2>1. ASSUME NEW r \in Sessions, TaskStep(r) \/ Raise(r) \/ LoseTask(r)
        PROVE  s \in faults.raised => s \in faults'.raised
    BY <1>0, <2>1 DEF TaskStep, OnlyTask, StartRefresh, MarkOnGoing, FetchHarvester,
       CheckRemote, CountRemote, SaveNumber, LaunchChord, RefreshError, Dispatch,
       StartHarvest, FinishChord, FinishSession, FreeHarvester, Recheck, SaveChecked, Raise,
       SaveError, FinishAgain, FreeAgain, LoseTask
  <2> QED BY <1>1, <1>3, <2>1 DEF Next
<1> QED BY <1>4, <1>5, <1>6, <1>7

-----------------------------------------------------------------------------
\* The set of members that have counted is finite; a larger one counts more.
LEMMA Counting ==
    ASSUME NEW S \in SUBSET Items, NEW T \in SUBSET Items, S \subseteq T
    PROVE  /\ Cardinality(S) \in Nat /\ Cardinality(T) \in Nat
           /\ Cardinality(S) <= Cardinality(T)
           /\ \A i \in T \ S : Cardinality(S) + 1 <= Cardinality(T)
<1>1. IsFiniteSet(Items)
  BY Zenon, ConstantsAssumption
<1>2. IsFiniteSet(S) /\ IsFiniteSet(T)
  BY <1>1, FS_Subset
<1>3. Cardinality(S) \in Nat /\ Cardinality(T) \in Nat /\ Cardinality(S) <= Cardinality(T)
  BY <1>2, FS_CardinalityType, FS_Subset
<1>4. ASSUME NEW i \in T \ S PROVE Cardinality(S) + 1 <= Cardinality(T)
  <2>1. Cardinality(S \cup {i}) = Cardinality(S) + 1
    BY <1>2, FS_AddElement
  <2>2. S \cup {i} \subseteq T
    OBVIOUS
  <2>3. Cardinality(S \cup {i}) <= Cardinality(T)
    BY <1>2, <2>2, FS_Subset
  <2> QED BY <2>1, <2>3
<1> QED BY <1>3, <1>4

\* A verdict stays right while the members and the kind of the session stay.
LEMMA VerdictKept ==
    ASSUME NEW s, NEW st, VerdictOf(s, st), member'[s] = member[s],
           sess'[s].type = sess[s].type, s \in faults.raised => s \in faults'.raised
    PROVE  VerdictOf(s, st)'
BY DEF VerdictOf, Saw, ChordMembers

\* A session keeps its kind once it has been created, and does not vanish.
LEMMA KindKept ==
    ASSUME RowsInv, NEW s \in Sessions, RowsFlow(s)
    PROVE  sess'[s].type = sess[s].type /\ (sess'[s].status = NONE <=> sess[s].status = NONE)
<1>1. PICK y \in Row : Held(s, y) /\ Flows(s, y, sess'[s])
  <2>1. PICK x : x = sess'[s]
    OBVIOUS
  <2>2. Held(s, x)'
    BY <2>1 DEF Held
  <2> QED BY <2>1, <2>2 DEF RowsFlow
<1>2. RowOK(s, y) /\ SafetyInv /\ SessionOK(s)
  BY <1>1, HeldRows DEF RowsInv, SafetyInv
<1>3. y.type = sess[s].type /\ (y.status = NONE <=> sess[s].status = NONE)
  BY <1>2 DEF RowOK
<1>4. AbortedStatus(y.status) # NONE \/ y.status = NONE
  BY <1>1, Distinct DEF Row
<1>5. task[s].pc = "finish" => task[s].final # NONE
  BY <1>2, Distinct DEF SessionOK
<1>6. CASE sess'[s] = [y EXCEPT !.done = y.done + 1]
  BY <1>3, <1>6, <1>1 DEF Row
<1>7. SOME_FAILED # NONE
  BY DEF SOME_FAILED, NONE
<1> QED BY <1>1, <1>3, <1>4, <1>5, <1>6, <1>7, Distinct DEF Flows

\* What is held of a session after a step is right again.
LEMMA RowsKept ==
    ASSUME RowsInv, Next, TypeOK', NEW s \in Sessions, RowsFlow(s) \/ Creates(s),
           NEW x \in Row, Held(s, x)'
    PROVE  RowOK(s, x)'
<1>0. /\ SessionOK(s) /\ TaskOK(s)
      /\ task[s].pc \in AfterEnd \cup {"finish"} => member'[s] = member[s]
      /\ task[s].pc \in AfterEnd => task'[s].pc \in AfterEnd
      /\ s \in faults.raised => s \in faults'.raised
  <2>1. "chord" \notin AfterEnd \cup {"finish"} /\
        (LaunchChord(s) => task[s].pc \notin AfterEnd \cup {"finish"})
    BY DEF AfterEnd, LaunchChord
  <2> QED BY <2>1, MembersFlow DEF RowsInv, SafetyInv
<1>n. /\ Cardinality(CountedMembers(s)) \in Nat /\ Cardinality(CountedMembers(s)') \in Nat
      /\ Cardinality(CountedMembers(s)) <= Cardinality(CountedMembers(s)')
      /\ \A i \in CountedMembers(s)' \ CountedMembers(s) :
            Cardinality(CountedMembers(s)) + 1 <= Cardinality(CountedMembers(s)')
  <2>1. CountedMembers(s) \in SUBSET Items /\ CountedMembers(s)' \in SUBSET Items
    BY DEF CountedMembers
  <2>2. CountedMembers(s) \subseteq CountedMembers(s)'
    BY MembersFlow
  <2> QED BY <2>1, <2>2, Counting
<1>1. CASE Creates(s)
  <2>1. x = sess'[s]
    BY <1>1 DEF Creates
  <2> QED BY <1>1, <1>n, <2>1, Distinct DEF Creates, RowOK
<1>2. CASE RowsFlow(s)
  <2>1. PICK y \in Row : Held(s, y) /\ Flows(s, y, x)
    BY <1>2 DEF RowsFlow
  <2>2. RowOK(s, y)
    BY <2>1, HeldRows
  <2>3. sess'[s].type = sess[s].type /\ (sess'[s].status = NONE <=> sess[s].status = NONE)
    BY <1>2, KindKept
  <2>4. ASSUME y.ended
        PROVE  /\ y.status \in Verdicts /\ VerdictOf(s, y.status)'
               /\ task'[s].pc \in AfterEnd
    BY <1>0, <2>2, <2>3, <2>4, VerdictKept DEF RowOK
  <2>5. x.type = y.type /\ x.done <= Cardinality(CountedMembers(s)')
    <3>1. y.done \in Nat /\ y.done <= Cardinality(CountedMembers(s)) /\ x.done \in Nat
      BY <2>1, <2>2 DEF Row, RowOK
    <3>2. CASE /\ x = [y EXCEPT !.done = y.done + 1]
               /\ \E i \in Items : member[s][i] \notin Counted /\ member'[s][i] \in Counted
      <4>1. x.type = y.type /\ x.done = y.done + 1
        BY <2>1, <3>2 DEF Row
      <4>2. \E i : i \in CountedMembers(s)' \ CountedMembers(s)
        BY <3>2 DEF CountedMembers
      <4> QED BY <1>n, <3>1, <4>1, <4>2
    <3>3. CASE x.done = y.done /\ x.type = y.type
      BY <1>n, <3>1, <3>3
    <3> QED BY <2>1, <3>2, <3>3 DEF Flows
  <2>6. /\ x.status = NONE <=> y.status = NONE
        /\ x.status \in Verdicts \ {ABORTED} => x.ended
        /\ x.ended => /\ x.status \in Verdicts /\ VerdictOf(s, x.status)'
                      /\ task'[s].pc \in AfterEnd
    <3>1. CASE x.status = y.status /\ x.ended = y.ended
      BY <2>2, <2>4, <3>1 DEF RowOK
    <3>2. CASE x.status = ON_GOING /\ x.ended = FALSE /\ y.status # NONE
      BY <3>2, Distinct
    <3>3. CASE x.status = AbortedStatus(y.status) /\ x.ended = y.ended /\ y.status # NONE
      <4>1. y.status \in Verdicts => x.status = y.status
        BY <3>3 DEF Verdicts, AbortedStatus, PENDING, ON_GOING, ALL_OK, ALL_FAILED,
           SOME_FAILED, ABORTED
      <4>2. y.status \notin Verdicts => x.status \notin Verdicts \ {ABORTED} /\ ~y.ended
        BY <2>2, <3>3 DEF RowOK, Verdicts, AbortedStatus, ABORTING, ABORTED, ALL_OK,
           ALL_FAILED, SOME_FAILED
      <4>3. x.status # NONE
        BY <2>1, <3>3, Distinct DEF Row
      <4>4. CASE y.status \in Verdicts
        BY <2>2, <2>4, <3>3, <4>1, <4>3, <4>4 DEF RowOK
      <4>5. CASE y.status \notin Verdicts
        BY <3>3, <4>2, <4>3, <4>5
      <4> QED BY <4>4, <4>5
    <3>4. CASE /\ x.status = task[s].final /\ x.ended = TRUE /\ y.status # NONE
               /\ task[s].pc = "finish" /\ task'[s].pc = "free"
      <4>1. x.status \in Verdicts /\ VerdictOf(s, x.status)
        BY <1>0, <3>4 DEF SessionOK, TaskOK
      <4>2. VerdictOf(s, x.status)'
        BY <1>0, <2>3, <3>4, <4>1, VerdictKept
      <4> QED BY <3>4, <4>1, <4>2, Distinct DEF AfterEnd
    <3>5. CASE x = [y EXCEPT !.done = y.done + 1]
      <4>1. x.status = y.status /\ x.ended = y.ended
        BY <2>1, <3>5 DEF Row
      <4> QED BY <3>1, <4>1
    <3>6. CASE /\ x.status = SOME_FAILED /\ x.ended = TRUE /\ y.status # NONE
               /\ task[s].pc = "e-finish" /\ task'[s].pc = "e-free"
      <4>1. s \in faults'.raised
        BY <1>0, <3>6 DEF TaskOK
      <4>2. VerdictOf(s, SOME_FAILED)'
        BY <4>1 DEF VerdictOf, ALL_OK, ABORTED, ALL_FAILED, SOME_FAILED
      <4> QED BY <3>6, <4>2, Distinct DEF AfterEnd, Verdicts
    <3> QED BY <2>1, <3>1, <3>2, <3>3, <3>4, <3>5, <3>6 DEF Flows
  <2> QED BY <2>2, <2>3, <2>5, <2>6 DEF RowOK
<1> QED BY <1>1, <1>2

-----------------------------------------------------------------------------
\* A step of the task of s that leaves the members: the program points it may
\* come from, and what it has found out about them.
LEMMA TaskPoints ==
    ASSUME RowsInv, NEW s \in Sessions, TaskStep(s) \/ LoseTask(s), ~LaunchChord(s)
    PROVE  /\ member' = member
           /\ task'[s].pc \in BeforeChord => task[s].pc \in BeforeChord
           /\ task'[s].pc \in RefreshPc => task[s].pc \in RefreshPc \/ sess[s].type = DISCOVER
           /\ task'[s].pc = "u-error" => Saw(s, Raised) \/ ChordMembers(s) = {}
           /\ task'[s].pc = "finish" => \E st : task'[s].final = st /\ VerdictOf(s, st)
           /\ task'[s].pc \in {"e-save", "e-finish", "e-free"} =>
                 task[s].pc \in {"e-save", "e-finish", "e-free"}
<1>0. /\ TaskOK(s) /\ SessionOK(s) /\ sess[s] \in Row
      /\ task[s] \in TaskRecord /\ task \in [Sessions -> TaskRecord]
  BY DEF RowsInv, SafetyInv, TypeOK
<1>p. ASSUME NEW p, Goto(s, p) PROVE task'[s].pc = p
  BY <1>0, <1>p DEF Goto, TaskRecord
<1>b. ASSUME NEW t, Become(s, t) PROVE task'[s] = t
  BY <1>0, <1>b DEF Become
<1>t. /\ \A p : At(p).pc = p /\ \A h : With(p, h).pc = p
      /\ \A st : Finishing(st).pc = "finish" /\ Finishing(st).final = st
      /\ \A p, row, ids : Holding(p, row, ids).pc = p
  BY DEF At, With, Finishing, Holding
<1>n. task[s].pc \in BeforeChord =>
        ChordMembers(s) = {} /\ ~Saw(s, Broken)
  BY <1>0 DEF TaskOK, ChordMembers, Saw, Broken, Raised, Missing
<1>d. /\ ALL_OK # ALL_FAILED /\ ALL_OK # SOME_FAILED /\ ALL_FAILED # SOME_FAILED
      /\ ABORTED \notin {ALL_OK, ALL_FAILED, SOME_FAILED}
  BY DEF ALL_OK, ALL_FAILED, SOME_FAILED, ABORTED
<1>m. member' = member
  BY DEF TaskStep, OnlyTask, StartRefresh, MarkOnGoing, FetchHarvester, CheckRemote,
     CountRemote, SaveNumber, RefreshError, Dispatch, StartHarvest, FinishChord,
     FinishSession, FreeHarvester, Recheck, SaveChecked, SaveError, FinishAgain, FreeAgain,
     LoseTask
<1> USE DEF BeforeChord, RefreshPc, HoldingPc
<1>1. CASE StartRefresh(s)
  BY <1>m, <1>1, <1>b, <1>t DEF StartRefresh
<1>2. CASE MarkOnGoing(s)
  BY <1>m, <1>2, <1>p DEF MarkOnGoing
<1>3. CASE FetchHarvester(s)
  <2>1. /\ task[s].pc = "u-harvester" => task'[s].pc = "u-avail"
        /\ task[s].pc = "h-harvester" => task'[s].pc = "h-avail"
    BY <1>0, <1>3 DEF FetchHarvester, TaskRecord
  <2> QED BY <1>m, <1>3, <2>1 DEF FetchHarvester
<1>4. CASE CheckRemote(s)
  <2>1. CASE Become(s, Finishing(ALL_FAILED))
    <3>1. task'[s].pc = "finish" /\ task'[s].final = ALL_FAILED
      BY <1>b, <1>t, <2>1
    <3>2. VerdictOf(s, ALL_FAILED)
      BY <1>4, <1>n, <1>d DEF CheckRemote, VerdictOf
    <3> QED BY <1>m, <3>1, <3>2
  <2>2. CASE Goto(s, IF task[s].pc = "u-avail" THEN "u-num" ELSE "h-session")
    BY <1>m, <1>4, <1>p, <2>2 DEF CheckRemote
  <2> QED BY <1>4, <2>1, <2>2 DEF CheckRemote
<1>5. CASE CountRemote(s)
  BY <1>m, <1>5, <1>p, <1>b, <1>t, <1>n DEF CountRemote
<1>6. CASE SaveNumber(s)
  BY <1>m, <1>6, <1>p DEF SaveNumber
<1>8. CASE RefreshError(s)
  <2>1. task'[s].pc = "finish" /\ task'[s].final = SOME_FAILED
    BY <1>8, <1>b, <1>t DEF RefreshError
  <2>2. VerdictOf(s, SOME_FAILED)
    BY <1>0, <1>8, <1>d DEF RefreshError, TaskOK, VerdictOf
  <2> QED BY <1>m, <2>1, <2>2
<1>9. CASE Dispatch(s)
  <2>1. PICK ids \in SUBSET Items : Become(s, Finishing(ALL_OK))
                                    \/ Become(s, Holding("harvest", NoRow, ids))
    BY <1>9 DEF Dispatch
  <2>2. CASE Become(s, Finishing(ALL_OK))
    <3>1. task'[s].pc = "finish" /\ task'[s].final = ALL_OK
      BY <1>b, <1>t, <2>2
    <3>2. VerdictOf(s, ALL_OK)
      BY <1>9, <1>n, <1>d DEF Dispatch, VerdictOf
    <3> QED BY <1>m, <3>1, <3>2
  <2>3. CASE Become(s, Holding("harvest", NoRow, ids))
    BY <1>m, <1>9, <1>b, <1>t, <2>3 DEF Dispatch
  <2> QED BY <2>1, <2>2, <2>3
<1>10. CASE StartHarvest(s)
  BY <1>m, <1>10, <1>b, <1>t DEF StartHarvest
<1>11. CASE FinishChord(s)
  <2>1. CASE ~ChordFailed(s)
    <3>1. PICK st \in {ALL_OK, ABORTED} : Become(s, Finishing(st))
      BY <1>11, <2>1 DEF FinishChord
    <3>2. VerdictOf(s, st)
      BY <1>11, <1>d, <2>1, <3>1 DEF FinishChord, ChordDone, ChordMembers, ChordFailed,
         Settled, Raised, Missing, Broken, Saw, VerdictOf
    <3> QED BY <1>m, <1>b, <1>t, <3>1, <3>2
  <2>2. CASE ChordFailed(s) /\ sess[s].type = HARVEST
    <3>1. task'[s].pc = "finish" /\ task'[s].final = SOME_FAILED
      BY <1>11, <1>b, <1>t, <2>2 DEF FinishChord
    <3>2. VerdictOf(s, SOME_FAILED)
      BY <1>d, <2>2 DEF ChordFailed, Saw, VerdictOf
    <3> QED BY <1>m, <3>1, <3>2
  <2>3. CASE ChordFailed(s) /\ sess[s].type # HARVEST
    <3>1. task'[s].pc = "u-error"
      BY <1>11, <1>b, <1>t, <2>3 DEF FinishChord
    <3>2. sess[s].type = DISCOVER /\ Saw(s, Raised)
      BY <1>0, <2>3 DEF ChordFailed, Saw, Row, SessionType
    <3> QED BY <1>m, <3>1, <3>2
  <2> QED BY <2>1, <2>2, <2>3
<1>12. CASE FinishSession(s)
  BY <1>m, <1>12, <1>p DEF FinishSession
<1>13. CASE FreeHarvester(s)
  BY <1>m, <1>13, <1>b, <1>t DEF FreeHarvester
<1>14. CASE Recheck(s) \/ SaveChecked(s) \/ LoseTask(s)
  BY <1>m, <1>14, <1>b, <1>t DEF Recheck, SaveChecked, LoseTask
<1>15. CASE SaveError(s) \/ FinishAgain(s) \/ FreeAgain(s)
  BY <1>m, <1>15, <1>b, <1>t, <1>p DEF SaveError, FinishAgain, FreeAgain
<1> QED BY <1>1, <1>2, <1>3, <1>4, <1>5, <1>6, <1>8, <1>9, <1>10, <1>11, <1>12, <1>13, <1>14,
        <1>15 DEF TaskStep

\* What a task has found out stays true while neither it nor the members of its
\* session move.
LEMMA TaskFrameOK ==
    ASSUME RowsInv, NEW s \in Sessions, task'[s] = task[s],
           member'[s] = member[s] \/ task[s].pc = "chord",
           task[s].pc = "none" \/ sess'[s].type = sess[s].type,
           s \in faults.raised => s \in faults'.raised
    PROVE  TaskOK(s)'
<1>1. TaskOK(s)
  BY DEF RowsInv
<1>2. PICK st : st = task[s].final
  OBVIOUS
<1>3. task[s].pc = "finish" => VerdictOf(s, st)'
  BY <1>1, <1>2, VerdictKept DEF TaskOK
<1>4. task[s].pc \in BeforeChord => \A i \in Items : member'[s][i] = "none"
  BY <1>1 DEF TaskOK, BeforeChord, HoldingPc
<1>5. task[s].pc \in RefreshPc => sess'[s].type = DISCOVER
  BY <1>1 DEF TaskOK, RefreshPc
<1>6. task[s].pc = "u-error" =>
        (Saw(s, Raised) \/ s \in faults.raised \/ ChordMembers(s) = {})'
  BY <1>1 DEF TaskOK, Saw, ChordMembers
<1>7. task[s].pc \in {"e-save", "e-finish", "e-free"} => s \in faults'.raised
  BY <1>1 DEF TaskOK
<1> QED BY <1>2, <1>3, <1>4, <1>5, <1>6, <1>7 DEF TaskOK, VerdictOf, Saw, ChordMembers

\* Every step keeps what the tasks have found out.
LEMMA TasksKept ==
    ASSUME RowsInv, Next, NEW s \in Sessions, RowsFlow(s) \/ Creates(s)
    PROVE  TaskOK(s)'
<1>0. /\ TaskOK(s) /\ TypeOK /\ sess[s] \in Row
      /\ task \in [Sessions -> TaskRecord] /\ actor \in [Actors -> ActorRecord]
      /\ member \in [Sessions -> [Items -> MemberState]]
  BY DEF RowsInv, SafetyInv, TypeOK
<1>k. task[s].pc = "none" \/ sess'[s].type = sess[s].type
  BY KindKept, NoCopies DEF Creates
<1>m. /\ member'[s] = member[s] \/ task[s].pc = "chord" \/ LaunchChord(s)
      /\ s \in faults.raised => s \in faults'.raised
  BY MembersFlow
<1>1. CASE task'[s] = task[s]
  <2>1. LaunchChord(s) => task[s].pc = "chord"
    BY <1>0, <1>1 DEF LaunchChord, Become, At
  <2> QED BY <1>1, <1>k, <1>m, <2>1, TaskFrameOK
<1>2. CASE LaunchChord(s)
  <2>1. task'[s].pc = "chord"
    BY <1>0, <1>2 DEF LaunchChord, Become, At
  <2> QED BY <2>1 DEF TaskOK, BeforeChord, RefreshPc, HoldingPc
<1>3. CASE (TaskStep(s) \/ LoseTask(s)) /\ ~LaunchChord(s)
  <2>1. /\ member'[s] = member[s]
        /\ task'[s].pc \in BeforeChord => task[s].pc \in BeforeChord
        /\ task'[s].pc \in RefreshPc => task[s].pc \in RefreshPc \/ sess[s].type = DISCOVER
        /\ task'[s].pc = "u-error" => Saw(s, Raised) \/ ChordMembers(s) = {}
        /\ task'[s].pc = "finish" => \E st : task'[s].final = st /\ VerdictOf(s, st)
        /\ task'[s].pc \in {"e-save", "e-finish", "e-free"} =>
              task[s].pc \in {"e-save", "e-finish", "e-free"}
    BY <1>3, TaskPoints
  <2>2. sess'[s].type = sess[s].type
    <3>1. task[s].pc # "none"
      BY <1>3 DEF TaskStep, LoseTask, StartRefresh, MarkOnGoing, FetchHarvester,
         CheckRemote, CountRemote, SaveNumber, LaunchChord, RefreshError, Dispatch,
         StartHarvest, FinishChord, FinishSession, FreeHarvester, Recheck, SaveChecked,
         SaveError, FinishAgain, FreeAgain
    <3> QED BY <1>k, <3>1
  <2>3. task'[s].pc = "finish" => \E st : task'[s].final = st /\ VerdictOf(s, st)'
    <3>1. ASSUME NEW st, VerdictOf(s, st) PROVE VerdictOf(s, st)'
      BY <1>m, <2>1, <2>2, <3>1, VerdictKept
    <3> QED BY <2>1, <3>1
  <2>4. task'[s].pc = "u-error" => (Saw(s, Raised) \/ ChordMembers(s) = {})'
    BY <2>1 DEF Saw, ChordMembers
  <2>5. /\ task'[s].pc \in BeforeChord => \A i \in Items : member'[s][i] = "none"
        /\ task'[s].pc \in RefreshPc => sess'[s].type = DISCOVER
    BY <1>0, <2>1, <2>2 DEF TaskOK
  <2>6. task'[s].pc \in {"e-save", "e-finish", "e-free"} => s \in faults'.raised
    BY <1>0, <1>m, <2>1 DEF TaskOK
  <2> QED BY <2>3, <2>4, <2>5, <2>6 DEF TaskOK
<1>9. CASE Raise(s)
  <2>1. /\ s \in faults'.raised /\ member' = member
        /\ task[s].pc \in {"finish", "free", "recheck", "recheck-save"}
    BY <1>0, <1>9 DEF Raise, InBody, TypeOK
  <2>2. sess'[s].type = sess[s].type
    BY <1>k, <2>1
  <2>3. /\ task'[s].pc \in {"finish", "u-error", "e-save", "e-finish"}
        /\ task'[s].pc = "finish" => task'[s].final = SOME_FAILED
        /\ task'[s].pc \in {"u-error", "e-save"} => sess[s].type = DISCOVER
    BY <1>0, <1>9 DEF Raise, Become, At, With, Finishing, Row, SessionType
  <2>4. VerdictOf(s, SOME_FAILED)'
    BY <2>1 DEF VerdictOf, ALL_OK, ABORTED, ALL_FAILED, SOME_FAILED
  <2>5. task'[s].pc = "finish" => VerdictOf(s, task[s].final)'
    BY <2>3, <2>4 DEF VerdictOf, Saw, ChordMembers
  <2> QED BY <2>1, <2>2, <2>3, <2>5 DEF TaskOK, BeforeChord, RefreshPc, HoldingPc
<1>4. ASSUME NEW a \in Actors, Initiate(a) \/ ApiStartTask(a), actor[a].s = s
      PROVE  TaskOK(s)'
  <2>1. RequestOK(a) /\ Launching(a)
    BY <1>4 DEF RowsInv, SafetyInv, Launching, Initiate, ApiStartTask
  <2>2. /\ task[s].pc = "none" /\ sess[s].status # NONE /\ member' = member
    BY <1>4, <2>1 DEF RequestOK, Initiate, ApiStartTask
  <2>3. sess'[s].type = sess[s].type
    BY <2>2, KindKept DEF Creates
  <2>4. PICK op, type, ids : task'[s] = FirstTask(op, type, ids) /\ type = sess[s].type
    <3>1. CASE Initiate(a)
      <4>1. Held(s, actor[a].row)
        BY <1>4, <3>1 DEF Held, Initiate
      <4>2. actor[a].row.type = sess[s].type
        BY <4>1, HeldRows DEF RowOK
      <4> QED BY <1>0, <1>4, <3>1, <4>2 DEF Initiate
    <3>2. CASE ApiStartTask(a)
      BY <1>0, <1>4, <3>2 DEF ApiStartTask, RowsInv, ApiKind
    <3> QED BY <1>4, <3>1, <3>2
  <2>5. /\ task'[s].pc \in {"update", "harvest", "dispatch"}
        /\ task'[s].pc = "update" => sess[s].type = DISCOVER
    BY <2>4 DEF FirstTask, At, Holding
  <2>6. \A i \in Items : member'[s][i] = "none"
    BY <1>0, <2>2 DEF TaskOK, BeforeChord
  <2> QED BY <2>3, <2>5, <2>6 DEF TaskOK, RefreshPc
<1>5. CASE \E r \in Sessions \ {s} : TaskStep(r) \/ Raise(r) \/ LoseTask(r)
  <2>1. task'[s] = task[s]
    BY <1>0, <1>5 DEF TaskStep, Goto, Become, StartRefresh, MarkOnGoing,
       FetchHarvester, CheckRemote, CountRemote, SaveNumber, LaunchChord, RefreshError,
       Dispatch, StartHarvest, FinishChord, FinishSession, FreeHarvester, Recheck,
       SaveChecked, Raise, SaveError, FinishAgain, FreeAgain, LoseTask
  <2> QED BY <1>1, <2>1
<1>6. ASSUME NEW a \in Actors, ActorStep(a) \/ \E op \in Ops : ReadHarvester(a, op)
      PROVE  TaskOK(s)'
  <2>1. CASE Initiate(a) \/ ApiStartTask(a)
    <3>1. actor[a].s # s => task'[s] = task[s]
      BY <1>0, <2>1 DEF Initiate, ApiStartTask
    <3> QED BY <1>1, <1>4, <2>1, <3>1
  <2>2. CASE task' = task
    BY <1>1, <2>2
  <2> QED BY <1>6, <2>1, <2>2 DEF ActorStep, ReadHarvester, UpdateAvailability,
       InitiateStart, Refuse, CreateSession, ApiCreateSession, InitiateAbort, ReadLatest,
       SaveAbort, ResetStatus, ApiSaveBusy, ApiSave, ApiSaveChecking, ApiStartCheck
<1>7. CASE task' = task
  BY <1>1, <1>7
<1>8. ASSUME NEW r \in Sessions, NEW i \in Items, MemberStep(r, i) \/ LoseMember(r, i)
      PROVE  task' = task
  BY <1>8 DEF MemberStep, StartMember, CountMember, CountPage, EndMember, LoseMember
<1> QED BY <1>2, <1>3, <1>5, <1>6, <1>7, <1>8, <1>9 DEF Next

\* Every step keeps the kind of task the API will enqueue.
LEMMA ApiKindKept ==
    ASSUME RowsInv, Next, \A s \in Sessions : RowsFlow(s) \/ Creates(s)
    PROVE  ApiKind'
<1> DEFINE P == {"api-save", "api-send"}
<1>0. /\ TypeOK /\ actor \in [Actors -> ActorRecord] /\ sess \in [Sessions -> Row]
  BY DEF RowsInv, SafetyInv, TypeOK
<1>1. ASSUME NEW a \in Actors, actor[a].pc \in P,
             actor'[a].op = actor[a].op, actor'[a].s = actor[a].s
      PROVE  OpType(actor'[a].op) = sess'[actor'[a].s].type
  <2>1. actor[a].s \in Sessions /\ sess[actor[a].s].status # NONE
    BY <1>1 DEF RowsInv, SafetyInv, RequestOK, Launching
  <2>2. PICK s \in Sessions : s = actor[a].s
    BY <2>1
  <2>3. sess'[s].type = sess[s].type
    BY <2>1, <2>2, KindKept DEF Creates
  <2> QED BY <1>1, <2>2, <2>3 DEF RowsInv, ApiKind
<1>2. ASSUME NEW a \in Actors, actor'[a].pc \in P, actor'[a] # actor[a]
      PROVE  OpType(actor'[a].op) = sess'[actor'[a].s].type
  <2>1. CASE \E s \in Sessions : ApiCreateSession(a, s)
    <3>1. PICK s \in Sessions : ApiCreateSession(a, s)
      BY <2>1
    <3>2. /\ actor'[a].op = actor[a].op /\ actor'[a].s = s
          /\ sess'[s] = NewRow(OpType(actor[a].op))
      BY <1>0, <3>1 DEF ApiCreateSession, Continue
    <3> QED BY <3>2 DEF NewRow
  <2>s. CASE ApiSaveBusy(a)
    <3>1. /\ actor[a].pc \in P
          /\ actor'[a].op = actor[a].op /\ actor'[a].s = actor[a].s
      BY <1>0, <2>s DEF ApiSaveBusy, Continue
    <3> QED BY <1>1, <3>1
  <2>2. ASSUME NEW b \in Actors, ActorStep(b) \/ \E op \in Ops : ReadHarvester(b, op)
        PROVE  ApiSaveBusy(a) \/ \E s \in Sessions : ApiCreateSession(a, s)
    <3>1. /\ \A r : actor' = [actor EXCEPT ![b] = r] => b = a /\ r.pc \in P
          /\ actor' # actor
      BY <1>0, <1>2
    <3>2. ~Done(b)
      <4>1. Idle.pc \notin P
        BY DEF Idle
      <4> QED BY <3>1, <4>1 DEF Done
    <3>3. ASSUME NEW p, NEW h, NEW s, NEW row, Continue(b, p, h, s, row)
          PROVE  p \in P /\ b = a
      <4>1. PICK r : r = [op |-> actor[b].op, pc |-> p, h |-> h, s |-> s, row |-> row]
        OBVIOUS
      <4>2. actor' = [actor EXCEPT ![b] = r] /\ r.pc = p
        BY <3>3, <4>1 DEF Continue
      <4> QED BY <3>1, <4>2
    <3>4. ~ \E op \in Ops : ReadHarvester(b, op)
      <4>1. ASSUME NEW op \in Ops, ReadHarvester(b, op) PROVE FALSE
        <5>1. PICK p \in ActorPc :
                /\ Enters(op, p)
                /\ actor' = [actor EXCEPT ![b] = [op |-> op, pc |-> p, h |-> hstatus,
                                                  s |-> 0, row |-> NoRow]]
          BY <4>1 DEF ReadHarvester
        <5>2. p \notin P
          BY <5>1 DEF Enters
        <5> QED BY <1>0, <1>2, <3>1, <5>1, <5>2
      <4> QED BY <4>1
    <3>5. ApiSaveBusy(b) \/ \E s \in Sessions : ApiCreateSession(b, s)
      BY <2>2, <3>1, <3>2, <3>3, <3>4 DEF ActorStep, UpdateAvailability,
         InitiateStart, Refuse, CreateSession, Initiate, InitiateAbort, ReadLatest,
         SaveAbort, ResetStatus, ApiStartTask, ApiSave, ApiSaveChecking, ApiStartCheck
    <3>6. b = a
      BY <3>3, <3>5 DEF ApiCreateSession, ApiSaveBusy
    <3> QED BY <3>5, <3>6
  <2>3. CASE actor' = actor
    BY <1>2, <2>3
  <2>4. \/ actor' = actor
        \/ \E b \in Actors : ActorStep(b) \/ \E op \in Ops : ReadHarvester(b, op)
    BY DEF Next, TaskStep, OnlyTask, StartRefresh, MarkOnGoing, FetchHarvester, CheckRemote,
       CountRemote, SaveNumber, LaunchChord, RefreshError, Dispatch, StartHarvest,
       FinishChord, FinishSession, FreeHarvester, Recheck, SaveChecked, Raise, SaveError,
       FinishAgain, FreeAgain, LoseTask, MemberStep, StartMember, CountMember, CountPage,
       EndMember, LoseMember
  <2> QED BY <2>1, <2>s, <2>2, <2>3, <2>4
<1> QED BY <1>1, <1>2 DEF ApiKind

\* Nothing is counted and nothing is decided before the first request.
LEMMA InitRows == Init => RowsInv
<1> SUFFICES ASSUME Init PROVE RowsInv
  OBVIOUS
<1>1. ASSUME NEW s \in Sessions
      PROVE  /\ task[s].pc = "none" /\ sess[s] = NoRow /\ CountedMembers(s) = {}
             /\ \A i \in Items : member[s][i] = "none"
  BY <1>1 DEF Init, At, CountedMembers, Counted, NoMembers
<1>2. \A a \in Actors : actor[a].pc = "idle"
  BY DEF Init, Idle
<1>3. ASSUME NEW s \in Sessions, NEW x \in Row, Held(s, x) PROVE RowOK(s, x)
  <2>1. x = NoRow
    BY <1>1, <1>2, <1>3 DEF Held, HoldingPc
  <2>2. Cardinality(CountedMembers(s)) = 0
    BY <1>1, FS_EmptySet
  <2> QED BY <1>1, <2>1, <2>2, Distinct DEF RowOK, NoRow
<1>4. ASSUME NEW s \in Sessions PROVE TaskOK(s)
  BY <1>1, <1>4 DEF TaskOK, RefreshPc
<1>5. ApiKind
  BY <1>2 DEF ApiKind
<1> QED BY <1>3, <1>4, <1>5, InitSafe DEF RowsInv

\* RowsInv is an inductive invariant of the specification.
THEOREM RowsCorrect == Spec => []RowsInv
<1>1. RowsInv /\ [Next]_vars => RowsInv'
  <2> SUFFICES ASSUME RowsInv, [Next]_vars PROVE RowsInv'
    OBVIOUS
  <2>1. CASE UNCHANGED vars
    <3>1. SafetyInv'
      BY <2>1 DEF vars, RowsInv, SafetyInv, TypeOK, SessionOK, RequestOK, LaunchedOnce,
         Launching
    <3>2. ASSUME NEW s \in Sessions, NEW x \in Row, Held(s, x)' PROVE RowOK(s, x)'
      <4>1. Held(s, x)
        BY <2>1, <3>2 DEF vars, Held
      <4>2. RowOK(s, x)
        BY <4>1, HeldRows
      <4> QED BY <2>1, <4>2 DEF vars, RowOK, CountedMembers, VerdictOf, Saw, ChordMembers
    <3>3. ASSUME NEW s \in Sessions PROVE TaskOK(s)'
      BY <2>1, TaskFrameOK DEF vars
    <3>4. ApiKind'
      BY <2>1 DEF vars, RowsInv, ApiKind
    <3> QED BY <3>1, <3>2, <3>3, <3>4 DEF RowsInv
  <2>2. CASE Next
    <3>1. SafetyInv' /\ TypeOK'
      BY <2>2, ActorSafe, TaskSafe, MemberSafe DEF Next, RowsInv, SafetyInv
    <3>2. \A s \in Sessions : RowsFlow(s) \/ Creates(s)
      BY <2>2, ActorFlow, TaskFlow, MemberFlow DEF Next
    <3>3. \A s \in Sessions, x \in Row : Held(s, x)' => RowOK(s, x)'
      BY <2>2, <3>1, <3>2, RowsKept
    <3>4. \A s \in Sessions : TaskOK(s)'
      BY <2>2, <3>2, TasksKept
    <3>5. ApiKind'
      BY <2>2, <3>2, ApiKindKept
    <3> QED BY <3>1, <3>3, <3>4, <3>5 DEF RowsInv
  <2> QED BY <2>1, <2>2
<1> QED BY <1>1, InitRows, PTL DEF Spec

\* records_done never exceeds the number of members that stored what they fetched.
THEOREM CountsNoMore == Spec => []NeverOvercounts
<1>1. RowsInv => NeverOvercounts
  <2> SUFFICES ASSUME RowsInv, NEW s \in Sessions
               PROVE  sess[s].done <= Cardinality({i \in Items : member[s][i] \in Counted})
    BY DEF NeverOvercounts
  <2>1. RowOK(s, sess[s])
    BY HeldRows DEF Held
  <2> QED BY <2>1 DEF RowOK, CountedMembers
<1> QED BY <1>1, RowsCorrect, PTL

\* The final status of a session agrees with what its members and its finalizer
\* did, also when the error callback has finished it a second time.
THEOREM VerdictsRight == Spec => []VerdictSound
<1>1. RowsInv => VerdictSound
  <2> SUFFICES ASSUME RowsInv, NEW s \in Sessions
               PROVE  /\ sess[s].status = ALL_OK => ~Saw(s, Broken)
                      /\ sess[s].status = ABORTED /\ sess[s].ended => ~Saw(s, Broken)
                      /\ sess[s].status = ALL_FAILED => ChordMembers(s) = {}
                      /\ sess[s].status = SOME_FAILED =>
                            \/ Saw(s, Raised) \/ s \in faults.raised
                            \/ sess[s].type = DISCOVER /\ ChordMembers(s) = {}
    BY DEF VerdictSound, Saw, Broken
  <2>1. RowOK(s, sess[s])
    BY HeldRows DEF Held
  <2>2. {ALL_OK, ALL_FAILED, SOME_FAILED} \subseteq Verdicts \ {ABORTED}
    BY DEF Verdicts, ALL_OK, ALL_FAILED, SOME_FAILED, ABORTED
  <2> QED BY <2>1, <2>2 DEF RowOK, VerdictOf
<1> QED BY <1>1, RowsCorrect, PTL
=============================================================================
