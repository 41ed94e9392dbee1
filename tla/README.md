# Formal models of GeoNodeGeoViz

This directory is a TLA+ verification of the parts of this repository where
several requests, celery tasks, threads and processes work on the same database
rows and files, and of the pages whose handlers, timers and late answers work on
the same map, form or list. The repository is a fork of GeoNode (Django, Celery, GeoServer)
with its own GeoViz map viewer, data-management centre and scheduled jobs; all
the code is under `src/geonode/`, and every line number below refers to it.

* [1. The system](#1-the-system): components, state, operations, interactions
* [2. Modules](#2-modules): what models what, and how
* [3. Runs](#3-runs): what TLC checks, bounds, fairness
* [4. Proofs](#4-proofs): what TLAPS proves, from what, along which argument
* [5. Disagreements met while modelling](#5-disagreements-met-while-modelling)
* [6. What is only model-checked, and what is not modelled](#6-limits)
* [7. Plan](#7-plan)

To run it: `tlc -config <run>.cfg MC<module>.tla` and `tlapm <module>Proofs.tla`.

## 1. The system

A deployment is a set of uwsgi processes (8 to 128, recycled after an hour, a
request is cut after 60 s: `uwsgi.ini`), celery workers, a celery beat, a
PostgreSQL database, a message broker, GeoServer, and remote services that are
harvested. There is no `ATOMIC_REQUESTS`, so each `save()` is a transaction of
its own; `save()` writes **every column of the instance in memory**, however
long ago it was read. With `ASYNC_SIGNALS=True` (`settings.py:1735`) tasks go to
workers; results are kept in the database (`settings.py:1744`), which is the
backend whose chords wait for all members. Tasks are acknowledged when they have
ended, "to recover from any unknown crash" (`settings.py:1750-1751`): one whose
worker dies is delivered again. The harvesting tasks say `acks_late=False`
instead: one whose worker dies does not run again. A chord's body is linked to
the same error callback as its members.

That is what makes this system hard: long-lived copies of rows, status fields
used as locks, and finalizers that must run exactly when everything before them
is over. The pages are hard for a like reason: a handler asks the server and its
answer is handled on a page that has moved on, with what global variables say then.

### Components

| Component | State | Operations | Hard behaviour | Correct when |
|---|---|---|---|---|
| **Harvesting sessions** (`harvesting/tasks.py`, `models.py`, `admin.py`, `api/serializers.py`) | `Harvester.status`, `AsynchronousHarvestingSession` rows (type, status, end, `records_done`), queued tasks and chords | scheduler; admin actions (refresh, harvest, harvest selected, abort both, check, reset); API updates; session tasks, members, finalizers, error callbacks | status checked on a copy; whole-row saves after a network call; abort racing with start, members and end; members that raise, give up or are lost; a finalizer that raises, and ends the session again | a session ends after its work and stays ended; an abort is kept; status says what happened; the harvester is given back |
| **Harvestable resources** (`harvesting/tasks.py`, `harvesters/base.py`, `resource/manager.py`) | `HarvestableResource` rows, local resources, `last_checked_harvestable_resources` | pages of a refresh, stale deletion, harvesting of one resource, admin toggle and delete, deletion of the local resource | the remote list moves while pages are listed; rows read, then saved whole; the harvester is ready before its finalizer is; a finalizer that raises marks the check | a refresh ends in step with the remote; it drops only what it did not find; orphans go with their rows |
| **Harvester workers** (`harvesters/{wms,arcgis,geonodeharvester}.py`) | none | list a page, fetch a resource | partial and failing answers | an answer means what it says |
| **GeoViz layer sync** (`jobs/jobs.py`, `jobs/updater.py`, `dmc/views.py`, `dmc/admin.py`) | `geonode_sync_status.json`, `geonodeLayers.json`, threads | timer of each process, admin button, API call; fetch pages in parallel; write; report | nothing keeps runs apart; the layer file is written in place; reports that fail are dropped in silence; a run dies with its process | success means a whole file; the list is complete; times do not go back; the report ends |
| **GeoViz map page** (`geoviz/static/mapMyDrone/js/geoviz_main.js`, `geoviz/views.py`) | markers, table with its selection, charts, drawn shape, circle and its timers, panel, image and ML overlays, popup | load, filter, move, draw, erase, click rows, markers and the map, switch overlays | table rebuilt on several paths with handlers that stay; circles drawn two seconds late; features and labels answered late or never | switch, overlay and panel agree; charts count the table; a popup tells of its own feature |
| **DMC** (`dmc/views.py`, `dmc/static/ddc/dmc/js/ddcEntryForm.js`) | the form (mission, fields, files, maps, loader), the records `ddc_main` and `ddc_upload` | pick a mission, save, upload, delete a file; sync trigger and status | four questions per mission, answered in any order; check, then write with what the form holds by then | one mission per page; records and files are their mission's own; the loader goes |
| **Replacing a dataset** (`static/geonode/js/upload/{upload,LayerInfo}.js`, `layers/views.py`, `resource/manager.py`, `geoserver/manager.py`) | the list of dropped layers, the chain of requests, the dataset's row, its data in GeoServer | drop, remove, clear, upload; validate, import, store, save again | nothing keeps two replacements apart; a time-out while the server works; swallowed import errors; a late save of an old copy | the data is one shapefile; page, row and data agree; every layer is sent |
| **Commands over HTTP** (`management_commands_http/`) | `ManagementCommandJob` rows, celery tasks | create, start, stop, edit, delete; run the command | two requests start one job; stop kills the process that should store the end; a task is delivered again when its worker dies | a command runs once, but for redeliveries; the row says what its task does; a queued job finishes |
| **Upload wizard** (`upload/`) | `Upload` rows with pickled wizard sessions, importer sessions, resources | wizard steps, resume, delete; a periodic task with two chords; expiry and cleanup | the periodic task overlaps itself, the wizard and the user's deletion; one member fails for all | a live upload is not invalidated or deleted; a processed one is never taken back |
| **Resource manager, execution requests** (`resource/`) | `ExecutionRequest` rows, processing state of resources | create, update, ingest, copy, delete, dispatch | dispatcher dies or finds no function; stale whole-row saves | a request ends; a resource is not left dirty |
| **Task locks** (`tasks/tasks.py`) | memcached locks, or a local fallback | acquire, release, expire | expiry under a live holder; the fallback | mutual exclusion, no skipped work |
| **Security** (`security/utils.py`) | object permissions, publishing state | permissions of owners, managers, members and everyone per workflow state | permissions computed from the previous ones | as the table in its docstring says |
| **GeoServer adapter** (`geoserver/`) | GeoServer's catalogue, its copy in the database | publish, sync, secure, delete through REST; asynchronous tasks with locks | lost or repeated tasks | both sides agree |
| **Monitoring** (`monitoring/`) | measurements | collect, aggregate, expire | overlapping collections | counted once |
| **Content apps** (`base`, `layers`, `documents`, `maps`, `geoapps`, `services`, `people`, `groups`, `favorite`, `social`, `invitations`) | rows | CRUD in one request | none of their own | – |
| **Adapters and I/O** (`storage`, `thumbs`, `catalogue`, `proxy`, `messaging`, `br`, `client`, `api`) | files, remote services | conversions, copies | I/O errors | – |

### Interactions

* admin, API and scheduler → `Harvester` row → session row → task → chord of
  members → finalizer → both rows. The **only** mutual exclusion between all of
  them is the test `status == ready` on a copy of the harvester row
  (`harvesting/models.py:321-334`).
* refresh → rows → harvest → local resources (`resource_manager`), and back:
  deleting a row may delete its local resource, deleting a local resource unlinks
  its row.
* sync runs → two files ← GeoViz pages, DMC status API, admin page; the map page
  lists the datasets the layer file names.
* drone data form → questions to the DMC API → fields, files and maps of the
  form → records → the same questions again.
* replace page → one request per layer → view → resource manager → GeoServer
  manager → importer, row, and the resource manager's second save of the row.
* HTTP requests → job row → celery task → `JobRunner` → job row.
* services → harvesters: registering a remote service creates a harvester and
  starts a refresh. Upload, resource manager, GeoServer and security share the
  resource row, its processing state and its permissions.

## 2. Modules

| Module | Models | Reads with |
|---|---|---|
| `HarvestSessions` | one harvester, its sessions, and everyone who starts, aborts, checks and ends them | `HarvestSessionsProofs`, `MCHarvestSessions` |
| `HarvestRegistry` | the harvestable resources of one harvester | `ResourceList`, `HarvestRegistryProofs`, `MCHarvestRegistry` |
| `ResourceList` | what a refresh promises: the abstract specification of `HarvestRegistry` | |
| `LayerSync` | runs of the GeoViz layer sync and their two files | `LayerSyncProofs`, `MCLayerSync` |
| `CommandJobs` | one management-command job, its requests and tasks | `CommandJobsProofs`, `MCCommandJobs` |
| `DroneMap` | the GeoViz map page | `DroneMapProofs`, `MCDroneMap` |
| `FlightForm` | the drone data form and its API | `FlightFormProofs`, `MCFlightForm` |
| `DatasetReplace` | the replace page, the view and the managers behind it | `DatasetReplaceProofs`, `MCDatasetReplace` |
| `CommonLemmas` | facts that several proofs need: least and greatest numbers, lists without duplicates, pages | |

Common conventions.

* **A copy is a variable.** An instance of a Django model is a record held by a
  request or a task. Reading it is one action, saving it a later one that writes
  the whole record; everything may happen in between. Two saves of a row with
  only assignments between them are one action.
* **Actions are handlers** cut at each read, save, enqueue and remote call. A
  function that does one of these is one action.
* **External code** (celery, the remote service, the GeoNode API) is modelled
  from how this code uses it and marked `external` in the map.
* `M_...` operators are mutants: plausible bugs of the definition that follows
  them. None is used by a specification. They show that each property can fail.
* **A page is one thread.** A handler is one action from the event to its return;
  a timer or an answer is an element of a set, taken in any order, and its handler
  reads the page as it is then.
* `past`, `used`, `faults.raised`, `calm`, `hurried`, `raced`, `mixed`, `seen` and
  `told` hold history; they guard nothing. Counters (`clicks`, `drops`, `late`,
  `failed`, `timers`, `troubles`, `failures`, `lost`) guard only the actions that a
  `Max...` constant bounds.

### HarvestSessions

`hstatus` is `Harvester.status`; `sess[s]` the session row; `task[s]` the one
control task a session has at a time (dispatcher → work-out → chord → finalizer;
each enqueues the next, so one program counter suffices) with its copies;
`member[s][i]` the chord members, one per harvestable resource or, in a refresh,
per page; `actor[a]` a request, the scheduler, or the availability-check task,
with its copies; `checks` queued availability checks; `faults` counts lost
executions and holds the sessions whose finalizer has raised.

| Actions | Code |
|---|---|
| `ReadHarvester` … `SaveAbort`, `ResetStatus` | admin actions (`admin.py:109-224`), `harvesting_scheduler` (`tasks.py:40-84`), `Harvester.update_availability`, `initiate_*`, `worker_can_perform_action`, `AsynchronousHarvestingSession.initiate/abort` (`models.py:256-448`) |
| `ApiCreateSession`, `ApiSaveBusy`, `ApiStartTask`, `ApiSave`, `ApiSaveChecking`, `ApiStartCheck` | `HarvesterSerializer.update` (`serializers.py:194-239`): the session, the row, the task |
| `StartRefresh` … `LaunchChord`, `Dispatch`, `StartHarvest` | `update_harvestable_resources`, `harvesting_dispatcher`, `harvest_resources` |
| `StartMember`, `CountMember`, `CountPage`, `EndMember` | `_harvest_resource` (counts at 232, saves its row at 243, and may raise in between), `_update_harvestable_resources_batch` |
| `FinishChord`, `FinishSession`, `FreeHarvester`, `RefreshError`, `Recheck`, `SaveChecked` | the three finalizers and `finish_asynchronous_session` |
| `Raise`, `SaveError`, `FinishAgain`, `FreeAgain` | a chord's body that raises, at whatever point, and its `on_error` (`tasks.py:162-171`, `376-383`, `473-496`): a session that the body had ended is ended again as *some-failed*, and the callback of a refresh saves the harvester it read |
| `LoseTask`, `LoseMember` | `acks_late=False`; a member may be lost before it has counted or after |

Left out: `total_records_to_process`, session details, the content of resources,
and the API request that changes the worker's configuration
(`serializers.py:217-239`), which deletes resources in bulk and then starts a
task with the harvester's id in the place of a session's.

### HarvestRegistry and ResourceList

`rows[i]` is the row of remote identifier `i` (primary key, title,
`should_be_harvested`, link to a local resource, time of the last refresh),
`local` the identifiers with a local resource, `checked` the mark of the last
refresh. Times are epochs: `clock` advances with each mark, so that "found at or
before the mark" is an order on small numbers. A session only occupies the
harvester (`busy`); pages list by offset, then find and save one row at a time
(`get_or_create`, then `save()`), the finalizer reads the harvester, frees it,
selects the stale rows, deletes them one by one and marks the check. A deletion
that cannot be made raises, and so may anything else in the finalizer
(`RaiseFinalizer`): the chord's error callback then marks the check and finishes
the session (`FailRefresh`), as it does for pages that raise. A page whose listing
fails with a `HarvestingException` counts as empty, as it does in the code.
`delete()` of a row deletes its local resource first; both are one action because
nothing in the code looks between them.

A session starts whenever the harvester is ready (`MayStart`), which it is as soon
as the finalizer has freed it. `AskedFor` is an assumption about the users and not
a guard of the code: without the option `"overlap"` nobody asks for a session
before that finalizer is through. Then the registry implements `ResourceList`: a
refresh forgets only what it did not find. `List == INSTANCE ResourceList WITH ...`
is the refinement mapping: a refresh runs from its start to its mark, the list is
the set of rows, and what was found is what `get_or_create` returned.

`EndsSynced` says what the list is for: a refresh that nothing disturbed ends
with what the remote service lists. `calm` is the history of that: it says that
since the refresh started, alone, the remote service has not changed, no page
failed to be listed, no other session started and no administrator saved or
deleted a copy. Everything may have happened before: sessions that overlapped,
finalizers and pages that raised, rows saved late. One thing that happened before
does matter: an availability check may have put back an older mark, and the refresh
then takes what was found since for fresh. `checked = clock - 1` says that it read
the last mark.

### LayerSync

`status` is `geonode_sync_status.json`, which is replaced as a whole
(`jobs.py:51-95`); `file` is `geonodeLayers.json`, which is truncated and then
written in chunks, each by a known run (`HOLE` for bytes that a writer skipped
because another truncated the file); `run[r]` is a run with what it holds in
memory. Each process that loads the geoviz app has a scheduler of its own
(`geoviz/apps.py`, `updater.py`; `max_instances=1` is per scheduler), and the
admin page and the API start threads of their own, so runs may overlap
(`used.overlap` records that they did). Reports with nothing else between them are one action;
`knowMlLayer` and the processing of entries either report or raise.

`update_job_status` keeps its own failures to itself (`jobs.py:51-72`): every
report is written or lost, and the run goes on (`Tell`; `mute` says that a run's
latest report was lost). `get_job_status` answers *never_run* after three failed
reads (82-95): a run that could not read the report starts without the earlier
times (`blind`). Opening or writing the layer file may raise, which leaves it
empty or in pieces under a report of failure (`OpenFile`, `WriteChunk`). A failing
request, read, report or write, a change of the server's list and a process that
ends count as troubles, which `MaxTroubles` bounds.

### CommandJobs

`row` is the job, `req[a]` a request with its copy (read, act, send), `task[t]`
a celery task with its `JobRunner`'s copy. `past` records what the code does not
guard against: overlapping requests, a change page that saved an old copy, a job
or task that was taken away, a task that the broker did not take
(`utils/jobs.py:29-30`), one delivered again after its end. `stop` terminates the
process that runs the task named by the copy, which does not leave its
`JobRunner`.

`run_management_command_async` (`tasks.py:25-30`) does not opt out of
`CELERY_ACKS_LATE` (`settings.py:1751`). So `Crash` has two outcomes: the worker is
gone with its task and the broker delivers the task again, which loads the row anew
and runs the command once more, also when only the acknowledgement was missing
(`Acknowledge`); or only the child process died, and the worker acknowledges the
task as failed. One job. A task that is delivered a second time while its first
execution goes on (a worker that lost only its connection) and tasks that run
inside the request (`ASYNC_SIGNALS=False`) are not modelled.

### DroneMap

`Held(out)` is the table's lock as a move sees it: zooming out lifts it (1276-1286),
then the table follows the map unless it is locked (1062-1064). A map extent, a filter
and a drawn shape are the set of datasets in them. `rows` and `selected` are the
DataTables table; `handlers` how often it was built, since `updateDataTable` destroys
the table but not the handlers it put on its body, so that a double click is answered
once per table built (`Locate(handlers)`). `locateDroneonMap` removes the circle at once
and draws the new one later: `timers` counts those still to come, `circled` the one the
variable `circleMarker` refers to, `stray` one it no longer refers to. `features` and
`labels` are requests to the server; each may be answered late or not at all.

| Actions | Code (`geoviz_main.js`) |
|---|---|
| `Load`, `LoadFails`, `FilterTable` | `loadMapData` 447-478, `markerFunctionForGN` 535, `filterTableMap` 1784 |
| `ClickRow`, `ClickInfo`, `DoubleClickRow`, `TurnPage` | handlers of `updateDataTable` 780-813 |
| `ClickMarker`, `MoveMap`, `StartDrawing`, `FinishDrawing`, `Erase`, `DrawCircle` | 1709, 1276, 360, 295, 379-445, 1023 |
| `ClickOverlay`, `SwitchMl`, `ClickLocate`, `ClickClear` | the panel, 971-1050, 1674 |
| `ClickMap`, `ShowFeature`, `ShowLabel`, `NoFeature`, `NoLabel`, `ClosePopup` | 1288-1407 |

Left out: full screen, legends, swipe, the drawing of the charts and what a
marker or a popup looks like.

### FlightForm

Missions are the options of a multiple select, numbered as listed; `guid` is the
global `flightGUID`, the one thing every later request is made of. A value or a
file is the mission it was entered for, so that "own" is equality. `asked` holds the
questions of the page, `writes` what it sent; the server serves these in any
order. Of equal questions one at a time is awaited. After a click on an option
the page asks for its record and its files, then for the flight, then for the
place; the answer to that draws the marker and sets a timer of two seconds
(`"hide"` in `asked`) that hides the loader, whatever has been selected meanwhile.
The page takes clicks while neither the loader nor a dialog is in front of it
(`Ready`); that the wizard's loader covers the page is external. `Trash` opens the
dialog, `Confirm` reads `flightGUID` when it is answered. `Open` loads the page anew
with or without a mission in the address; writes under way are still served.

### DatasetReplace

Of the files of a layer two parts are kept, the `.shp` (which becomes the main
file) and the others; a version is the number of the drop that brought it, so
"of one drop" is equality. `chains[k]` is what the k-th click still has to send,
`requests` follows each request from the page through the view: `Accept` or
`Refuse` (form, `validate_input_source`), `Commit` (GeoServer's importer has run),
`Record` (`import_dataset` stores the files, `Written`), `Incomplete` and `Raise` (the
importer did not complete, or an exception was logged and swallowed: before or
after the importer touched the data, and before or after the row was written,
`geoserver/manager.py:264-266`), `SaveCopy`
(the transaction of `ResourceManager.update`), `Finish` or `LoseSave` (the save
in its `finally`), `FailUpdate`, `Crash`. `copy` is the row as the request holds
it. The page is answered when the request is over, or gives up after ten
minutes. GeoServer's importer, the database and the worker are external; only
vector datasets are modelled, of rasters section 5 says why.

## 3. Runs

Ten runs pass and two show disagreements (section 5). Deadlock is checked only in
`map_page`: every other system here may stop when the bounds are used up or nobody
asks for anything.

| Run | Question | Bounds |
|---|---|---|
| `sessions_requests` | Does every kind of request keep the rows well-typed, and does a session's verdict agree with what its members and its finalizer did (`VerdictSound`)? | 1 actor, all 15 operations, 2 items, 1 session, 1 lost execution, 1 finalizer that raises |
| `sessions_concurrent` | Do stale saves of two admins end a session before its work (`WorkSettledBeforeEnd`), restart it (`NeverResurrected`), undo an abort during the chord (`AbortNotForgotten`) or inflate its counter (`NeverOvercounts`)? | 2 actors; refresh, harvest and their aborts; 2 items; 1 session; 1 lost execution; 1 finalizer that raises |
| `sessions_ends` | Does harvesting through the API give the harvester back (`BusyEnds`) and end its session (`OnGoingEnds`) on every exit path? | 2 actors, 2 sessions, 2 items, 1 finalizer that raises, no loss; fair |
| `sessions_ready_busy` | Is a ready harvester idle (`ReadyMeansIdle`)? It is not | 2 actors, an availability check and a harvest through the API, 1 item, 1 session |
| `sessions_abort_stuck` | Does an abort end (`AbortEnds`)? It does not | 1 actor, a harvest through the API and its abort, 1 item, 1 session; fair |
| `registry_mixed` | Does an undisturbed refresh end in step with the remote service whatever came before (`EndsSynced`), and do the types hold? | 2 identifiers in a page of 2, 2 titles, 2 refreshes, 1 harvest, 1 change of the remote service, 1 request; overlap, toggles, deletions, checks, finalizers that raise |
| `registry_lists` | One session at a time, do local resources go with their rows (`LocalOwned`), and does the list implement `ResourceList` (`Promise`)? | 3 identifiers in pages of 2, 2 refreshes, 1 harvest, 1 resource gone from the remote service, 1 deletion of a local resource, aborts, failing listings |
| `sync_runs` | `SuccessMeansSaved`, `NearlyAllSaved`, `TimesGoForward`, `RunningEnds` | 4 layers in pages of 2, 2 runs, 2 troubles of any kind; fair |
| `jobs_requests` | `RunsOnce`, `StartedIsKnown`, `FinishedIsFinal`, `QueuedFinishes` | 2 requesters, 3 reads, 3 tasks, 2 failures (workers that die, tasks not taken); fair |
| `map_page` | Do overlay, switch and panel agree (`SwitchTellsOverlay`), the charts count the table (`ChartsCountTable`, `ChartsLeaveByLockedMove`), and do circles and labels go astray only in a race (`StrayNeedsHurry`, `LabelOfItsPopup`)? | 2 datasets, one with ML classes; 2 filters, 2 extents, 2 places; 2 tables told apart, 2 timers, 2 answers of each kind awaited; places symmetric |
| `form_page` | Is a page that takes clicks about one mission (`OneMission`), do records and files stay their mission's (`RecordsAreTheirOwn`, `FilesAreTheirOwn`), does the loader go (`LoaderEnds`)? | 2 missions with or without records and files, 1 file field, 3 clicks; fair |
| `replace_page` | Is the data one shapefile (`OneShapefile`), are replacements served apart (`ServedApart`), do page, row and data agree (`PageRowAndDataAgree`), is every layer sent (`ChainEnds`)? | 2 names with one selector, 2 drops, 2 uploads, 1 time-out or fault; fair |

**Why these bounds are enough to be interesting.** A stale save needs two holders of one
row, so two actors, or one actor and a task, reach every pair. A chord needs two members
to have one settle before the other; a page boundary needs three resources in pages of
two, and four layers so that a lost page is more than the one entry the code tolerates.
Staleness needs a second refresh, and the deletion of an orphan a harvest between two
refreshes. A first run of the sync that is in trouble needs a second to show what it
left, and a second trouble to meet that; the same holds of a worker that dies and a task
delivered again. Nothing in the code counts further than that. On the pages two of
everything lets one thing come while another is shown: two datasets, missions or layers,
two timers or answers under way, two tables for a handler left from the first; the three
clicks of the form are pick, save or upload, and pick again. Every action and disjunct
fires in some passing run.

**Where the conditions come from.** `RunsOnce` and
`FinishedIsFinal` are about requests that do not overlap, `SuccessMeansSaved` and
`TimesGoForward` about runs that do not; with overlap they fail, and section 5
says how. `RunsOnce` counts a redelivery as one more execution, since that is what
the configuration asks for; without overlap nothing else adds one. `SuccessMeansSaved`
and `RunningEnds` except a run whose report was lost, `TimesGoForward` one that
could not read the report, `RunningEnds` also one that died. `StartedIsKnown` holds
with overlap and redelivery; only a change page that saves an old copy breaks it.
The histories are exact: the same run contains the excepted behaviours, for which
the other properties still hold.

`VerdictSound` speaks of members that raise or are lost and of finalizers that raise;
of members whose failure the code handles it says nothing, because the code does
not tell them from successes. `NeverOvercounts` compares `records_done` with the
members that have stored what they fetched, not with those that succeeded: a
member counts before the last save of its row, which may fail. `AbortNotForgotten`
is about the time of the chord; before it, whole-row saves of the control task
forget an abort (section 5).

`registry_lists` leaves `"overlap"` and the administrator's toggle and deletion out
because `Promise` and `LocalOwned` fail with them in the ways section 5 lists, and
finalizers that raise and the availability check to stay small (the theorems
include both); `registry_mixed` has them all.

The conditions of the pages' properties are exact in the same way. `hurried`,
`raced`, `late`, `failed`, `several`, `kept` and `mixed` say that the user or the
network did what the code does not guard against; the same run contains those
behaviours, the properties are silent about them, and section 5 says what happens
then; a hazard whose own case is excepted is not counted as covered in
PROJECT.json. `OneMission` needs only that missions are selected one at a time: saves,
uploads and files may still be awaited, so values are excepted when a mission was
picked during a save (`waiting`), and files until their own answer is in, or when
one of another mission stayed (`kept`). `LoaderEnds` excepts only a missing or
useless answer.

**Fairness.** `HarvestSessions`: weak fairness of each request once it has begun and of
every task and member: workers take what is queued and a request runs to its end (which
may be that they raise); no request is ever obliged to be made, except that a queued
availability check is a task and is taken. `LayerSync`: weak fairness of each run's own
steps (every request to the API has a time-out, pages are joined); a trouble or a crash
is never fair. `CommandJobs`: the same for requests and tasks; a command ends, and the
broker delivers a task again. `FlightForm`: an answer or a failure comes while something
is awaited, and what was sent is served; the user owes nothing. `DatasetReplace`: while
the server has a request or the page an unread answer, something goes on; a time-out, a
fault or a click is never fair. `DroneMap` has no liveness. Nothing is strongly fair.

## 4. Proofs

TLAPS proves, for any numbers of actors, items, sessions, tasks, losses, raising
finalizers, failures and troubles and any set of operations, for any list of layers,
page size and number of sync runs, for any datasets, filters, extents, missions, files,
names, drops, uploads and faults, for any remote resources, titles, refreshes and
harvests, from each module's `ConstantsAssumption` and, where the table says so, a
condition on the set of operations:

| Theorem | Statement |
|---|---|
| `TypeCorrect` (`HarvestSessionsProofs`) | `Spec => []TypeOK` |
| `SafetyCorrect` | `Spec => []SafetyInv` |
| `EndsAfterItsWork` | `Spec => []WorkSettledBeforeEnd` |
| `StaysEnded` | `Spec => []NeverResurrected` |
| `AbortKept` | `Spec => AbortNotForgotten` |
| `RowsCorrect`, `CountsNoMore`, `VerdictsRight` | `Spec => []` of `RowsInv`, `NeverOvercounts`, `VerdictSound` |
| `TypeCorrect` (`HarvestRegistryProofs`) | `Spec => []TypeOK` |
| `InStep` | `Spec => []EndsSynced` |
| `OrphansGo` | `Serial` gives `Spec => []LocalOwned` |
| `KeepsPromise` | `Serial` gives `Spec => Promise`: the list implements `ResourceList` |
| `TypeCorrect` (`CommandJobsProofs`) | `Spec => []TypeOK` |
| `RunsOnceCorrect` | `Spec => []RunsOnce` |
| `StartedIsKnownCorrect` | `Spec => []StartedIsKnown` |
| `FinishedIsFinalCorrect` | `Spec => FinishedIsFinal` |
| `TypeCorrect`, `SuccessIsSaved`, `ListIsSaved` (`LayerSyncProofs`) | `Spec => []` of `TypeOK`, `SuccessMeansSaved`, `NearlyAllSaved` |
| `UpdatesGoForward` | `Spec => TimesGoForward` |
| `TypeCorrect`, `OverlaySafe`, `ChartsSafe`, `CirclesSafe`, `LabelsSafe` (`DroneMapProofs`) | `Spec => []` of `TypeOK`, `SwitchTellsOverlay`, `ChartsCountTable`, `StrayNeedsHurry`, `LabelOfItsPopup` |
| `ChartsLeave` | `Spec => ChartsLeaveByLockedMove` |
| `TypeCorrect`, `OneMissionSafe`, `RecordsSafe`, `FilesSafe` (`FlightFormProofs`) | `Spec => []` of `TypeOK`, `OneMission`, `RecordsAreTheirOwn`, `FilesAreTheirOwn` |
| `TypeCorrect`, `ServedApartCorrect`, `PageRowAndDataAgreeCorrect`, `OneShapefileCorrect` (`DatasetReplaceProofs`) | `Spec => []` of `TypeOK`, `ServedApart`, `PageRowAndDataAgree`, `OneShapefile` |

**Sessions.** The first three properties are not inductive: whether a late save
resurrects a session depends on what the copy says, and the copy was taken long
before. `SafetyInv` says, for each place where a copy of a session row lives,
what it may still say.

* `SessionOK(s)`: members wait or work only while the control task is at its chord; an
  end date exists only after the task has passed `finish_asynchronous_session`, or is in
  the error callback of a body that raised; the copy a control task holds says on-going
  and has no end date; a task exists only for a row that exists; past the end the status
  is neither pending nor on-going.
* `RequestOK(a)`: a request about to enqueue a session's first task holds a
  fresh pending row, and that session has no task yet; a request about to save
  an abort holds a copy that is neither pending nor on-going, and that has an
  end date only if the task is past its end. That is why the stale `abort()` cannot
  resurrect: `AbortedStatus` never yields on-going.
* `LaunchedOnce`: no two requests launch one session.

The step lemmas `ActorSafe`, `TaskSafe` and `MemberSafe` have a step per action;
`SessionFrame`, `RequestFrame` and `TaskFrame` say which parts of the invariant a
step that leaves a row or a copy alone cannot disturb. `AbortNotForgotten` follows
because, while the chord runs, no copy that says on-going is left to be saved:
the control task holds none at its chord, and requests hold only aborted ones.

`VerdictSound` and `NeverOvercounts` need the same view once more, turned to the
members of the chord. `Held(s, x)` says that `x` is the row of session `s` or a copy
of it that somebody will still save, and `RowsFlow`, proved for every action, that
whatever is held after a step comes from something held before by one of a few
changes (`Flows`): the task's copy that says on-going, the abort of a copy, the end
of the session, its second end by the error callback, one more count. So `RowOK`
need be shown once per change instead of once per action and place: no row held
counts more than the members that have counted, an end date comes with a verdict
that agrees with the members and the finalizer, and only past the end of the
control task, when no member moves any more (`MembersFlow`). Two facts carry this:
the members are untouched before the chord, so a copy taken then counts nothing,
and what a task has found out at its program point (`TaskOK`) is still true when
it stores it; past the end only `e-finish` changes the verdict, and only of a
session whose finalizer has raised.

**Registry.** The types and `EndsSynced` hold for every set of operations. The
first part of `EndsSynced` is about time, with any overlap. `SinceInv` says that
what is as new as the clock, in the table or in the copy of a member or an
administrator, was found by a refresh that is still open (`Dates`): whoever closes
a refresh, its finalizer or the error callback, advances the clock, so a copy that
outlives the refresh is stale however late it is saved. The second part is about
one refresh while it is calm (`StillInv`), and a calm refresh is alone (`Single`):
it has found or still has to read what its pages hold of the remote list
(`CalmPage`), so all of it is found when the pages are over, as every place of the
list is on one page (`EveryPage`, from `PageOfEntry` and `PagesGrow`); what it
found is the row it got or created (`HoldsRow`), under its present title, and as new
as the clock once its page is saved; and if it read the last mark, what it did not
find is among the rows it is about to delete, for by `SinceInv` it cannot be as
new as the clock (`Leaving`). The members' late saves, raising finalizers and
deletions need no further case: they either come before the refresh, where
`SinceInv` covers them, or end its calm.

`LocalOwned` and `Promise` are about sessions one at a time: `Serial` says that `Ops`
has neither `"overlap"` nor an administrator who saves or deletes a copy of a row.
Section 5 says how they fail otherwise; everything else may happen, in any number:
changes of the remote service, failing counts, listings, pages, deletions and
finalizers, aborts, harvests of chosen resources, resources deleted elsewhere,
availability checks. `SerialInv` is the invariant of one session at a time. At
most one refresh is open and refreshes start in their order (`Alone`, `InOrder`);
while one is, no member works, and a member works on a row that stays, with a copy
that differs from it in the local resource at most (`MemberOK`). So every late save
is of the row as it is: a page that is about to save holds its row's key and title
(`SavePage`), what was found is in the list, and not stale once its page is saved
(`FoundOK`), and what a finalizer is about to delete was not found and accounts
for its local resource (`DropOK`). `RefreshStep`, `MemberStep` and `HarmlessStep`
say what a step of a refresh, of a member or of neither must keep, so each action
proves its own part. `LocalOwned` is a conjunct (`OwnedOK`). For `Promise` each
step is matched with a step of `ResourceList` or a stutter (`StepKept`): a start is
`Begin`, a page that finds a row `Find`, a deletion `Forget` (of a resource not
found, by `DropOK`), the mark of the finalizer or of the error callback `End`.

**Jobs.** `RunsOnce` counts executions and says nothing of the copies that could
send another task; even the types depend on more, since a task that exits saves
its copy's id and must have stored one (`RunsAsItself`). `JobInv` adds what a copy
may say when it is saved: without overlap at most one request is in progress
(`Alone`), and a row or copy in *CREATED*, or a request about to send, exists only
while no task does, and at most one task ever does (`FirstOnly`); that task's
executions are the first one and those of its redeliveries, and one that is
queued or loaded has not been counted yet (`Counted`); a row or copy that says
*FINISHED* names a task that has stored its end, or has been delivered again
since (`Told`, with any overlap). `FinishedIsFinal` follows: what could overwrite a
finished row is a copy in *CREATED*, a second task, or the same task delivered
again. The conjuncts have a lemma each with a step per action; `TaskCases` and
`RequestStepChange` say what any step looks like from one task or one request.

**Layer sync.** The invariant has three parts, of which the second and the third
rest on the first only. `Types` adds to `TypeOK` that the server's list has no
duplicates (so it has no more pages than the set of entries, `PagesGrow`) and
how far a run has come (`Progress`). `Sole` is about runs that do not overlap:
one is active at most (`One`), it holds no earlier times than the report unless
it could not read it (`Later`), its own report keeps the file's old success from
being believed while it writes, or else that report was lost and the run remembers
so and is later than the one of the status (`Told`), and what it wrote so far is
the whole file (`Writing`). A crash, or a write that raises, keeps this anywhere,
because the report then does not say success, or the run that failed is the
exception. `Like` and the step lemmas say what a report, written or lost, can
change. `Calm` needs no sole run: what a run fetched of a list
that did not change comes from pages it has not left to fetch, so the next page
brings nothing it has (`OnePage`, `Joined`), and as many entries are missing as
the list is longer (`MissingCount`). `Accepts` turns this into at most one.

**Map page.** Most of it is inductive as it stands. `CirclesInOrder` adds to
`StrayNeedsHurry` that while nobody hurried at most one circle is to be drawn and
none is on the map then; `LabelsInOrder` adds to `LabelOfItsPopup` that, when the
popup opened with no label awaited, only its own can be awaited.
`ChartsLeaveByLockedMove` has a case for each action that changes charts or rows.

**Form.** `OneMission` speaks of a page at rest, so `FormInv` says what is true in
between. `PickedInv`: when missions are selected one at a time, one option is
selected, which is `guid`'s and every question's. `ChainInv`: record, flight, place
and timer follow one another behind the loader, so a late timer cannot hide the
loader of a newer selection. `ShownInv`: what each answer so far has left on the
page. `ToldInv` and `RecordInv` carry this to the values and to what was sent:
unless a mission was picked during a check, the values are those of the mission
that a save is about, and so are the records under way. `FileShown`, `FileAsked`
and `FileStored` do it for files: as long as none stayed on the page, a file
shown, chosen, sent or stored is its mission's, or the mission's files are still
awaited and nothing can be uploaded. The page's half is proved first; the others
rest on it.

**Replacement.** `Apart`: unless the user hurried at most one request is awaited,
and unless one was given up, what is at the server is awaited. `Agree` says, for
an undisturbed request, how far row, data and the server's copy have come at each
stage (`Progress`). `Whole` is about the list, not the server: as long as no files
were added to a listed layer, a layer of the dataset's name holds other parts only
from the drop of its main file (`ListWhole`), so what is sent is one drop's or
has no other parts (`RequestsWhole`), and what is accepted has them
(`RequestsValid`). It needs neither `Apart` nor the absence of faults.
`CommonLemmas` gives the first layer and the newest version, from the library's
fact that `<` on the naturals is well-founded.

TLC checks the same properties in `sessions_requests`, `sessions_concurrent`,
`registry_mixed`, `registry_lists`, `jobs_requests`, `sync_runs`, `map_page`,
`form_page` and `replace_page`.

## 5. Disagreements met while modelling

Two runs show one each.

* `sessions_ready_busy`: `update_availability` saves every column of a harvester read
  before a network call (`models.py:265`). A check that read *ready* makes a
  harvester ready whose session is at work, and `worker_can_perform_action`
  (321-334), which tells others to wait for that, lets the next request in.
* `sessions_abort_stuck`: the admin's abort stores *aborting-…* in the harvester,
  then aborts the latest session. If that one is still pending, its task returns
  at once (`tasks.py:194`) and nobody sets `ready` again, although the user is
  told to wait for it (`admin.py:207-209`).

Others were seen in the models and are excepted by the properties, or by the
operations of a run or a theorem, as named.

* Harvesting: the same stale save restores a busy status after the session has
  ended (`BusyEnds` with `schedule`) or undoes the mark of a refresh (`Undisturbed`).
  A refresh's finalizer saves the harvester as it re-read it (`tasks.py:460-464`;
  `BusyEnds` with `api-refresh`). A check asked for through the API is never set back
  (`tasks.py:330`). A harvest whose resources all failed without raising is
  *finished-all-ok* (`tasks.py:266`), and a resource whose last save raises has been
  counted (232-243). A finalizer that raises after the end of its session has the
  error callback end it again: an *all-ok* harvest becomes *some-failed*
  (`FinishAgain`). An abort computed on an old copy shows a finished session as
  *aborting*, without its end date (`models.py:447-448`), and a task that has read its
  session before an abort forgets it (`tasks.py:154`, `351`, `366`).
* Registry: `finish_asynchronous_session` makes the harvester ready before the
  finalizer selects and deletes stale rows (`tasks.py:456-461`). A refresh started
  in between (`Promise` with `overlap`) may save a row that the older finalizer
  then deletes. A deletion that raises, because the local resource of the copy is
  gone (`models.py:509`), leaves the other stale rows where they are; the error
  callback marks the check all the same, so they go with the next refresh. An
  availability check saves an older mark over a newer one; the next refresh then
  takes for fresh what the remote service has dropped since (`checked = clock - 1`
  in `Undisturbed`), although stale resources are to be those that "haven't been
  found on the current refresh" (`tasks.py:500`). A page that could not be listed
  makes its resources look stale (`tasks.py:415`). A renamed resource makes its page
  raise, because `get_or_create` looks the title up too (`tasks.py:419`). A row
  deleted by an administrator while it is harvested comes back with the member's
  last save (`tasks.py:243`; `SaveHarvested` after `UserDelete`). An administrator's
  copy read before a harvest does not know the local resource: deleting it leaves
  that behind, saving it forgets it (`LocalOwned` with `delete` or `toggle`). A page writes back
  the choice it read (`tasks.py:434`).
* Layer sync: overlapping runs tear the file and write back each other's times
  (`jobs.py:245`, `443`); a run that dies leaves *running* (255), and so does one
  whose last report is lost, since `update_job_status` swallows its failures (51-72;
  `mute`). A run that cannot read the report starts from *never_run* and writes both
  earlier times away (82-95; `blind`). A write that fails leaves the truncated file in
  the place of the last good one (443-465). A failed run's finish may become the time
  of the last update (251); the API's "manual" trigger is recorded as scheduled
  (`dmc/views.py:516`).
* Commands: `stop_task` terminates the process that would store the end
  (`utils/jobs.py:33-36`); the job stays *STARTED* with no end time. A task that could
  not be sent leaves it *QUEUED* (29-30; `unsent`). A worker that dies has its task
  delivered again, which runs the command once more, whatever it has done
  (`settings.py:1751`, `redone`), and a redelivered task takes a finished row back to
  *STARTED*. Two overlapping requests start a job twice (`utils/jobs.py:26`); saving
  the read-only change page restores the status it was opened with
  (`admin.py:76`).
* Map page (`geoviz_main.js`): the eraser is to "clear the layer content of edit
  layer and selected icone on map" (378), but it removes only the circle its
  variable refers to; the double-click handlers of earlier tables stay (794), so
  one double click may draw several, and so may two quick ones (`stray`). A label
  asked for one popup is written into the next (1386, `raced`), and a feature
  that comes late opens its popup although its overlay has been switched off. A
  click on a marker whose dataset is not in the table turns to a page that does
  not exist and leaves the table blank (`blank`). The lock that `draw:created`
  sets (350) is undone by the update it ends with (355).
* Form (`ddcEntryForm.js`): the list is a `SelectMultiple` (`dmc/forms.py:98`); the
  comment "force to mutiselect to single" (274) is not what the handler does: with the
  control key two stay selected until the record comes, and what is shown and saved
  differ (`several`). Under "reset data before update" (1094) the reset is commented
  out, so a mission without some file shows, and uploads, that of the one before
  (`kept`). A flight without wind raises (391), a flight *NA* has no GUID, after which a
  new record is stored without one, and a missing answer leaves the loader (`failed`).
  The end of an upload selects its mission once more, also while the answers for another
  are awaited; the loader then goes with the older timer (552; `hurried`). A mission
  picked while the check of a save is awaited gets the values of the one before
  (`waiting`). `configyaml` is not declared by the serializer (`dmc/views.py:228`):
  every upload without it empties it. Cleared values are not sent (121). The field of a
  deleted file is blank whatever the server says.
* Replacement: an exception while importing is logged and swallowed
  (`geoserver/manager.py:278-283`): the page says done and the row names files whose
  data GeoServer does not have (`Raise`). An import that does not complete leaves the
  dataset without name (`manager.py:249`), and every later replacement is refused
  (`Incomplete`, `Valid`). Files added to a listed layer are merged with a main file
  chosen before (`upload.js:82-85`, `LayerInfo.js:254-263`; `mixed`). The last file of a
  layer deletes the layer of its *safe* name (`LayerInfo.js:884`): `roads.v2` takes
  `roads` off the list and stays itself. Nothing stops a second click (`hurried`) or the
  server after a time-out (`late`): two replacements then leave the row of one and the
  data of the other. An exception after the row was written (264-266) leaves the later
  save with the old copy. `checkFiles` looks at the first layer only (`upload.js:142`),
  and clearing the list does not stop what is being sent (263). A refused form ends in a
  `KeyError` (`layers/views.py:1000`) instead of its errors, and so does every raster,
  as `validate_input_source` returns nothing for one (`layers/utils.py:626`); `mode:
  "queue"` (658) has no plug-in.

## 6. Limits

Every invariant and every action property of the passing runs is proved. Only
model-checked, on the instances above, is liveness: `BusyEnds`, `OnGoingEnds`,
`RunningEnds`, `QueuedFinishes`, `LoaderEnds` and `ChainEnds`. Liveness under
fairness and `ENABLED` are out of the prover's reach, and so is induction over data
(what a fold or a recursive function computes for every input).

Not modelled: the data itself (documents, capabilities, metadata, geometry), conversions
and layout; the many CRUD views that read and write one row in one request; GeoServer,
whose adapter is I/O but for the import of a replacement; and the components that
PROJECT.json lists as `not_modelled`, each with its reason. Database constraints are
modelled where the code meets them (the unique identifier of a resource, its foreign
key). Several harvesters do not interact, so one is modelled; the same holds of jobs, of
forms and of datasets.

Most of the repository's JavaScript is vendored: jQuery, jQuery UI, Angular,
moment, DataTables, a rich-text editor and their themes under
`static/lib/` and the like are by far the most of its lines. They are
third-party code; where a page relies on one of them its part is marked external.
The map therefore covers a small share of all lines, and a large one of the
handlers of the pages named above. The rest of the project's own browser code
draws charts, tables and catalogue lists with no state beyond the page it fills.

## 7. Plan

In order of importance to the system.

1. *(done)* `HarvestSessions` with its proofs; `HarvestRegistry` refining
   `ResourceList`; `LayerSync` with its proofs; `CommandJobs` with its proofs.
2. *(done)* the pages and what they talk to, with proofs: `DroneMap`,
   `FlightForm`, `DatasetReplace`.
3. `UploadSessions`: the `Upload` row, the wizard's steps, the user's deletion,
   the periodic task with its two chords (it runs every ten seconds and may
   overlap itself), expiry and cleanup. One failing member of a chord marks every
   upload of the batch invalid (`upload/tasks.py:155`). Properties: a live upload
   is not invalidated by another's failure, a processed one is never taken back.
4. `ExecutionRequests`: the dispatcher, the processing state of resources, and the
   locks of `tasks/tasks.py` with expiry and fallback. Properties: a request is
   run once and ends; two holders of a lock only after expiry.
5. `WorkflowPermissions`: `get_workflow_permissions` as a function checked
   against the table in its docstring over every role and state.
6. *(done)* proofs for `HarvestRegistry`, with the step simulation of
   `ResourceList`, and for the counts and verdicts of `HarvestSessions`.
