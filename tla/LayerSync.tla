------------------------------- MODULE LayerSync -------------------------------
(***************************************************************************)
(* The GeoViz layer sync: jobs.schedule_geonodeLayers_api fetches the list *)
(* of raster layers page by page, saves it to geonodeLayers.json and       *)
(* reports in geonode_sync_status.json.  It is started by a timer in every *)
(* process that loads the geoviz app, by an admin page and by an API call; *)
(* nothing keeps two runs apart.                                           *)
(*                                                                         *)
(* The status file is replaced as a whole; the layer file is truncated and *)
(* then written in chunks, here one per page and one for the rest.         *)
(* Successive status reports of a run with nothing else between them are   *)
(* one step; processing and the ML checks only report, or raise.           *)
(*                                                                         *)
(* update_job_status keeps every failure of its own to itself: a report    *)
(* that cannot be written is lost and the run goes on.  get_job_status     *)
(* answers never_run when three reads fail.                                *)
(***************************************************************************)
EXTENDS Integers, Sequences, FiniteSets, SequencesExt

CONSTANTS
    Entries,    \* layers the GeoNode API may list
    PageSize,   \* entries per page of that API
    Starts,     \* how runs are started, a subset of {"timer", "admin", "api"}
    MaxRuns,    \* bound: runs
    MaxTroubles \* bound: changes of the list on the server, requests, reads and
                \* writes that fail, and processes that end with a run under way

ASSUME ConstantsAssumption ==
    /\ IsFiniteSet(Entries)
    /\ PageSize \in Nat \ {0}
    /\ Starts \subseteq {"timer", "admin", "api"}
    /\ {MaxRuns, MaxTroubles} \subseteq Nat

VARIABLES
    remote, \* the server's list of layers
    status, \* geonode_sync_status.json
    file,   \* geonodeLayers.json: the run that wrote each chunk
    run,    \* the runs, with what they hold in memory
    clock,  \* time stamps given so far; 0 is none
    used    \* troubles so far; whether two runs overlapped

vars == <<remote, status, file, run, clock, used>>

Runs == 1..MaxRuns
HOLE == -1  \* bytes skipped by a writer whose file was truncated meanwhile

\* The API view starts the job without naming a trigger.
\* Mutant: the way it was started is stored as it is.
M_Trigger(how) == how

Trigger(how) == IF how = "admin" THEN "manual" ELSE "scheduled"

Status == [status : {"never_run", "running", "success", "failed"},
           trigger : {"none", "manual", "scheduled"},
           finished : Nat, scheduled : Nat, manual : Nat, run : 0..MaxRuns]

NeverRun == [status |-> "never_run", trigger |-> "none", finished |-> 0,
             scheduled |-> 0, manual |-> 0, run |-> 0]

\* calm: the server's list has not changed during the run; blind: the run could
\* not read the previous report; mute: its latest report was lost.
NoRun == [pc |-> "none", how |-> "timer", scheduled |-> 0, manual |-> 0,
          total |-> 0, todo |-> {}, got |-> <<>>, next |-> 1, finished |-> 0,
          calm |-> TRUE, blind |-> FALSE, mute |-> FALSE]

Init ==
    /\ remote = SetToSeq(Entries)  \* entries are interchangeable
    /\ status = NeverRun
    /\ file = <<0>>
    /\ run = [r \in Runs |-> NoRun]
    /\ clock = 0
    /\ used = [troubles |-> 0, overlap |-> FALSE]

Active(r) == run[r].pc \notin {"none", "over", "dead"}

PageCount(n) == (n + PageSize - 1) \div PageSize
PageOf(p) == SubSeq(remote, (p - 1) * PageSize + 1,
                    IF p * PageSize < Len(remote) THEN p * PageSize ELSE Len(remote))

\* n more troubles: calls that fail, unless said otherwise.
Trouble(n) ==
    /\ used.troubles + n <= MaxTroubles
    /\ used' = [used EXCEPT !.troubles = @ + n]

\* update_job_status, by run r, which goes on as x; n calls failed before it.
\* The report replaces the file, or is lost.
Tell(r, report, x, n) ==
    \/ /\ status' = report
       /\ run' = [run EXCEPT ![r] = [x EXCEPT !.mute = FALSE]]
       /\ Trouble(n)
    \/ /\ UNCHANGED status
       /\ run' = [run EXCEPT ![r] = [x EXCEPT !.mute = TRUE]]
       /\ Trouble(n + 1)

\* A report of run r that is not its success: the time stamps it holds.
Report(r, st, finished) ==
    [status |-> st, trigger |-> Trigger(run[r].how), finished |-> finished,
     scheduled |-> run[r].scheduled, manual |-> run[r].manual, run |-> r]
Running(r, x, n) == Tell(r, Report(r, "running", 0), x, n)

At(r, p) == [run[r] EXCEPT !.pc = p]

\* The run reports that it failed and returns.
Fail(r, n) ==
    /\ clock' = clock + 1
    /\ Tell(r, Report(r, "failed", clock + 1), At(r, "over"), n)

-----------------------------------------------------------------------------
\* The server's list changes between two requests.
RemoteChange ==
    /\ Trouble(1)
    /\ \/ \E k \in DOMAIN remote : remote' = RemoveAt(remote, k)
       \/ \E e \in Entries \ ToSet(remote) : remote' = <<e>> \o remote
    /\ run' = [r \in Runs |-> [run[r] EXCEPT !.calm = @ /\ ~Active(r)]]
    /\ UNCHANGED <<status, file, clock>>

\* The next run reads the previous report and keeps its time stamps; one that is
\* missing is taken from the previous run.  Nothing asks whether another run is
\* active.  A report that cannot be read is a job that has never run.
\* Mutant: they are not kept.
M_Begin(r, how) ==
    /\ run[r].pc = "none" /\ \A q \in Runs : q < r => run[q].pc # "none"
    /\ run' = [run EXCEPT ![r].pc = "start", ![r].how = how]
    /\ used' = [used EXCEPT !.overlap = @ \/ \E q \in Runs : Active(q)]
    /\ UNCHANGED <<remote, status, file, clock>>

Begin(r, how) ==
    /\ run[r].pc = "none" /\ \A q \in Runs : q < r => run[q].pc # "none"
    /\ \E blind \in BOOLEAN :
         LET prev == IF blind THEN NeverRun ELSE status
         IN  /\ blind => used.troubles < MaxTroubles
             /\ run' = [run EXCEPT
                  ![r].pc = "start", ![r].how = how, ![r].blind = blind,
                  ![r].scheduled = IF prev.scheduled = 0 /\ prev.trigger = "scheduled"
                                   THEN prev.finished ELSE prev.scheduled,
                  ![r].manual = IF /\ prev.manual = 0 /\ prev.trigger # "scheduled"
                                   /\ prev.status # "never_run"
                                THEN prev.finished ELSE prev.manual]
             /\ used' = [used EXCEPT !.overlap = @ \/ \E q \in Runs : Active(q),
                                     !.troubles = IF blind THEN @ + 1 ELSE @]
    /\ UNCHANGED <<remote, status, file, clock>>

ReportStart(r) ==
    /\ run[r].pc = "start"
    /\ Running(r, At(r, "first"), 0)
    /\ UNCHANGED <<remote, file, clock>>

\* Page 1 gives the total and the page size, or the run fails.
\* Mutant: it returns without a report.
M_FetchFirst(r) ==
    /\ run[r].pc = "first"
    /\ \/ /\ run' = [run EXCEPT ![r].pc = "pages", ![r].total = Len(remote),
                                ![r].got = PageOf(1), ![r].todo = 2..PageCount(Len(remote))]
          /\ UNCHANGED used
       \/ Trouble(1) /\ run' = [run EXCEPT ![r].pc = "over"]
    /\ UNCHANGED <<remote, status, file, clock>>

FetchFirst(r) ==
    /\ run[r].pc = "first"
    /\ \/ /\ run' = [run EXCEPT ![r].pc = "pages", ![r].total = Len(remote),
                                ![r].got = PageOf(1), ![r].todo = 2..PageCount(Len(remote))]
          /\ UNCHANGED <<status, clock, used>>
       \/ Fail(r, 1)
    /\ UNCHANGED <<remote, file>>

\* The other pages are fetched in parallel; one that fails is left out.
FetchPage(r, p) ==
    /\ run[r].pc = "pages" /\ p \in run[r].todo
    /\ \/ Running(r, [run[r] EXCEPT !.todo = @ \ {p}, !.got = @ \o PageOf(p)], 0)
       \/ Running(r, [run[r] EXCEPT !.todo = @ \ {p}], 1)
    /\ UNCHANGED <<remote, file, clock>>

\* process_resource and knowMlLayer for each entry.
Process(r) ==
    /\ run[r].pc = "pages" /\ run[r].todo = {}
    /\ \/ Running(r, At(r, "save"), 0) /\ UNCHANGED clock
       \/ Fail(r, 1)
    /\ UNCHANGED <<remote, file>>

\* The list is saved when at most one entry is missing or in excess.
\* Mutant: two.
M_Accepts(total, n) == n - total \in -2..2

Accepts(total, n) == n - total \in -1..1

\* open('w+') truncates the file, or raises; the finishing time has been taken.
OpenFile(r) ==
    /\ run[r].pc = "save"
    /\ \/ /\ Accepts(run[r].total, Len(run[r].got))
          /\ clock' = clock + 1
          /\ file' = <<>>
          /\ run' = [run EXCEPT ![r].pc = "write", ![r].finished = clock + 1]
          /\ UNCHANGED <<status, used>>
       \/ /\ Fail(r, IF Accepts(run[r].total, Len(run[r].got)) THEN 1 ELSE 0)
          /\ UNCHANGED file
    /\ UNCHANGED remote

Chunks(r) == (Len(run[r].got) \div PageSize) + 1

\* Each writer has a position of its own in the file.  A write that raises
\* leaves the file as it is.
WriteChunk(r) ==
    /\ run[r].pc = "write" /\ run[r].next <= Chunks(r)
    /\ \/ LET k == run[r].next
          IN  /\ file' = [j \in 1..(IF k > Len(file) THEN k ELSE Len(file)) |->
                            IF j = k THEN r ELSE IF j <= Len(file) THEN file[j] ELSE HOLE]
              /\ run' = [run EXCEPT ![r].next = k + 1]
              /\ UNCHANGED <<status, clock, used>>
       \/ Fail(r, 1) /\ UNCHANGED file
    /\ UNCHANGED remote

Success(r) ==
    LET t == Trigger(run[r].how)
    IN  [status |-> "success", trigger |-> t, finished |-> run[r].finished, run |-> r,
         scheduled |-> IF t = "scheduled" THEN run[r].finished ELSE run[r].scheduled,
         manual |-> IF t = "manual" THEN run[r].finished ELSE run[r].manual]

\* The file is closed, then success is reported.
\* Mutant: success is reported once the file is open.
M_ReportSuccess(r) ==
    /\ run[r].pc = "write"
    /\ Tell(r, Success(r), At(r, "over"), 0)
    /\ UNCHANGED <<remote, file, clock>>

ReportSuccess(r) ==
    /\ run[r].pc = "write" /\ run[r].next > Chunks(r)
    /\ Tell(r, Success(r), At(r, "over"), 0)
    /\ UNCHANGED <<remote, file, clock>>

\* The run is a daemon thread, or serves an API call: it ends with its process,
\* wherever it is.
Crash(r) ==
    /\ Active(r) /\ Trouble(1)
    /\ run' = [run EXCEPT ![r].pc = "dead"]
    /\ UNCHANGED <<remote, status, file, clock>>

Step(r) ==
    \/ ReportStart(r) \/ FetchFirst(r) \/ Process(r) \/ OpenFile(r)
    \/ WriteChunk(r) \/ ReportSuccess(r)
    \/ \E p \in 2..PageCount(Cardinality(Entries)) : FetchPage(r, p)

Next ==
    \/ RemoteChange
    \/ \E r \in Runs : Step(r) \/ Crash(r) \/ \E how \in Starts : Begin(r, how)

Spec == Init /\ [][Next]_vars

\* A run goes on until it ends (requests have a time-out); nobody has to start one.
FairSpec == Spec /\ \A r \in Runs : WF_vars(Step(r))
-----------------------------------------------------------------------------
(***************************************************************************)
(* Properties.                                                             *)
(***************************************************************************)

\* Types; a time stamp is never in the future.
TypeOK ==
    /\ remote \in Seq(Entries)
    /\ status \in Status
    /\ \A t \in {status.finished, status.scheduled, status.manual} : t <= clock
    /\ file \in Seq({HOLE} \cup 0..MaxRuns)
    /\ \A r \in Runs :
         /\ run[r].pc \in {"none", "start", "first", "pages", "save", "write", "over", "dead"}
         /\ run[r].got \in Seq(Entries) /\ run[r].todo \subseteq 2..PageCount(Cardinality(Entries))
         /\ {run[r].scheduled, run[r].manual, run[r].finished} \subseteq 0..clock
    /\ clock \in Nat

\* As long as runs do not overlap, the layer file is whole and is what the run
\* of the report fetched whenever the report says success: also after reads,
\* requests and writes of the layer file that failed, and runs that died in the
\* middle of it.  What undoes it is a later run whose reports are all lost.
SuccessMeansSaved ==
    status.status = "success" /\ ~used.overlap =>
        LET r == status.run
        IN  \/ file = [k \in 1..Chunks(r) |-> r]
            \/ \E q \in Runs : q > r /\ run[q].mute

\* A list that did not change while it was fetched is saved with no duplicate
\* and at most one entry missing, whatever pages failed and whatever other runs
\* do.
NearlyAllSaved ==
    \A r \in Runs : run[r].pc = "write" /\ run[r].calm =>
        /\ IsInjective(run[r].got)
        /\ Cardinality(ToSet(remote) \ ToSet(run[r].got)) <= 1

\* "Last auto update" and "last manual update" never go back, through failures,
\* lost reports and crashes, as long as runs do not overlap: but for the report
\* of a run that could not read the one before.
TimesGoForward ==
    [][~used'.overlap =>
         \/ status'.scheduled >= status.scheduled /\ status'.manual >= status.manual
         \/ status'.run \in Runs /\ run'[status'.run].blind]_<<status, used, run>>

\* The report does not say "running" for ever, however runs overlap and whatever
\* fails, unless the run it is about died with its process or lost its last
\* report.
RunningEnds ==
    (status.status = "running") ~>
        (status.status = "running" =>
            LET r == run[status.run] IN r.pc = "dead" \/ (r.pc = "over" /\ r.mute))
=============================================================================
