---------------------------- MODULE DatasetReplace ------------------------------
(***************************************************************************)
(* Replacing the data of a dataset: the page that lists dropped files and  *)
(* uploads them one layer after the other (upload.js, LayerInfo.js), and   *)
(* the view that imports an upload into GeoServer and stores the files     *)
(* with the dataset (layers/views.py, resource and geoserver managers).    *)
(*                                                                         *)
(* Of the files only shapefiles are kept, as two parts: the .shp and       *)
(* "rest", its .dbf, .shx and .prj.  The version of a file is the number   *)
(* of the drop that brought it; 0 is what the dataset started with, or no  *)
(* file.  A layer of the list goes by the number of the drop that made it, *)
(* so the order of the numbers is the order of the list.                   *)
(***************************************************************************)
EXTENDS Naturals

CONSTANTS
    Names,      \* names of layers files are dropped for
    Ours,       \* the name of the dataset
    Safe,       \* the name as a selector: cut at the first dot, blanks replaced
    MaxDrops,   \* bound on drops
    MaxClicks,  \* bound on uploads started
    MaxFaults   \* bound on time-outs and server faults

ASSUME ConstantsAssumption ==
    /\ Ours \in Names
    /\ Safe \in [Names -> Names] /\ Safe[Ours] = Ours
    /\ MaxDrops \in Nat /\ MaxClicks \in Nat /\ MaxFaults \in Nat

VARIABLES
    infos,      \* the LayerInfo made by each drop
    layers,     \* those listed
    clicks,     \* uploads started so far
    chains,     \* per upload started: the layers still to send
    requests,   \* per upload and layer: what became of its request
    row,        \* the row of the dataset
    data,       \* the files behind its data in GeoServer
    drops,      \* drops so far
    late,       \* requests the page gave up
    failed,     \* faults of the server
    seen,       \* history: names dropped since they were last cleared or removed
    mixed,      \* history: files were added to a layer already listed
    hurried,    \* history: an upload was started while another ran
    told        \* history: the files of the last upload shown as done

listVars == <<infos, layers, drops, seen, mixed>>
sendVars == <<clicks, chains, hurried>>
serverVars == <<row, data, failed>>
vars == <<listVars, sendVars, serverVars, requests, late, told>>

Ids == 1..MaxDrops
Chains == 1..MaxClicks
Sends == Chains \X Ids
Versions == 0..MaxDrops
Files == [shp : Versions, rest : Versions]
Start == [shp |-> 0, rest |-> 0]

Info == [name : Names, shp : SUBSET Versions, rest : SUBSET Versions, main : Versions]
Blank == [name |-> Ours, shp |-> {}, rest |-> {}, main |-> 0]
Row == [named : BOOLEAN, files : Files]
Over == {"ok", "error"}
Step == {"unsent", "sent", "accepted", "committed", "saving", "finishing"} \union Over
Request == [name : Names, files : Files, at : Step, copy : Row, waited : BOOLEAN]
StartRow == [named |-> TRUE, files |-> Start]
Unsent == [name |-> Ours, files |-> Start, at |-> "unsent", copy |-> StartRow,
           waited |-> FALSE]

Init ==
    /\ infos = [i \in Ids |-> Blank] /\ layers = {} /\ drops = 0
    /\ clicks = 0 /\ chains = [k \in Chains |-> {}]
    /\ requests = [q \in Sends |-> Unsent]
    /\ row = StartRow /\ data = Start /\ told = Start
    /\ late = 0 /\ failed = 0
    /\ seen = {} /\ mixed = FALSE /\ hurried = FALSE

First(S) == CHOOSE m \in S : \A n \in S : m <= n
Newest(S) == IF S = {} THEN 0 ELSE CHOOSE m \in S : \A n \in S : n <= m

-----------------------------------------------------------------------------
\* The list of layers.

ListedAs(n) == {i \in layers : infos[i].name = n}

\* Mutant: a layer without a main file stays in the list.
M_HasType(parts) == TRUE

\* displayFiles: a new layer whose type nothing tells leaves the list at once.
HasType(parts) == "shp" \in parts

Brought(part, parts) == IF part \in parts THEN {drops + 1} ELSE {}

Dropped(n) ==
    /\ drops < MaxDrops
    /\ drops' = drops + 1
    /\ seen' = seen \union {n}
    /\ mixed' = (mixed \/ n \in seen)
    /\ UNCHANGED <<sendVars, serverVars, requests, late, told>>

\* Files dropped or chosen for one layer; several layers are several drops.
\* They join a layer of their name, whose type and main file stay.
Join(n, parts) ==
    /\ Dropped(n)
    /\ \E i \in ListedAs(n) :
         infos' = [infos EXCEPT ![i].shp = @ \union Brought("shp", parts),
                                ![i].rest = @ \union Brought("rest", parts)]
    /\ UNCHANGED layers

\* Or make a new one, which guesses its type and its main file.
List(n, parts) ==
    /\ Dropped(n)
    /\ ListedAs(n) = {} /\ HasType(parts)
    /\ infos' = [infos EXCEPT ![drops + 1] =
                    [name |-> n, shp |-> Brought("shp", parts),
                     rest |-> Brought("rest", parts),
                     main |-> IF "shp" \in parts THEN drops + 1 ELSE 0]]
    /\ layers' = layers \union {drops + 1}

\* A file goes by its name, so of two the oldest goes.
AllButOldest(S) == {m \in S : \E n \in S : n < m}
Without(info, part) ==
    IF part = "shp" THEN [info EXCEPT !.shp = AllButOldest(@)]
                    ELSE [info EXCEPT !.rest = AllButOldest(@)]

\* removeFile: the main file stays what it was. With the last file the layer
\* leaves the list, under its safe name.
Remove(i, part) ==
    LET info == Without(infos[i], part)
    IN /\ i \in layers /\ info # infos[i]
       /\ infos' = [infos EXCEPT ![i] = info]
       /\ IF info.shp \union info.rest = {}
            THEN /\ layers' = layers \ ListedAs(Safe[info.name])
                 /\ seen' = seen \ {info.name}
            ELSE UNCHANGED <<layers, seen>>
       /\ UNCHANGED <<drops, mixed, sendVars, serverVars, requests, late, told>>

\* Mutant: the list is redrawn but keeps its layers.
M_Clear ==
    /\ layers # {} /\ seen # {}
    /\ seen' = {}
    /\ UNCHANGED <<infos, layers, drops, mixed, sendVars, serverVars, requests, late, told>>

\* doClearState: what was sent, and what waits to be sent, goes on.
Clear ==
    /\ layers # {}
    /\ layers' = {} /\ seen' = {}
    /\ UNCHANGED <<infos, drops, mixed, sendVars, serverVars, requests, late, told>>

-----------------------------------------------------------------------------
\* Uploading.

\* prepareFormData: the main file, and of the others the newest of each kind.
FormData(info) == [shp |-> info.main, rest |-> Newest(info.rest)]

Sent(i) == [name |-> infos[i].name, files |-> FormData(infos[i]), at |-> "sent",
            copy |-> StartRow, waited |-> TRUE]

\* Mutant: all layers are sent at once.
M_DoUpload(k, left, before) ==
    /\ chains' = [chains EXCEPT ![k] = {}]
    /\ requests' = [q \in Sends |->
                        IF q[1] = k /\ q[2] \in left THEN Sent(q[2]) ELSE before[q]]

\* doUpload: sends the first of what is left; the answer calls it again.
DoUpload(k, left, before) ==
    IF left = {}
      THEN requests' = before /\ chains' = [chains EXCEPT ![k] = {}]
      ELSE LET i == First(left)
           IN /\ requests' = [before EXCEPT ![<<k, i>>] = Sent(i)]
              /\ chains' = [chains EXCEPT ![k] = left \ {i}]

\* checkFiles looks at the first layer of the list only.
CheckFiles == LET info == infos[First(layers)] IN info.shp # {} /\ info.rest # {}

Awaited == {q \in Sends : requests[q].waited}

\* A click on the upload button. Nothing keeps it from starting over while an
\* upload runs.
DoUploads ==
    /\ clicks < MaxClicks
    /\ layers # {} /\ CheckFiles
    /\ clicks' = clicks + 1
    /\ DoUpload(clicks', layers, requests)
    /\ hurried' = (hurried \/ Awaited # {})
    /\ UNCHANGED <<listVars, serverVars, late, told>>

\* Mutant: an error does not call back.
M_Ended(q, verdict) ==
    LET after == [requests EXCEPT ![q].waited = FALSE]
    IN IF verdict = "ok" THEN DoUpload(q[1], chains[q[1]], after)
                         ELSE requests' = after /\ UNCHANGED chains

\* The end of a request on the page, whatever the verdict: the next layer.
Ended(q, verdict) ==
    DoUpload(q[1], chains[q[1]], [requests EXCEPT ![q].waited = FALSE])

Answer(q) ==
    /\ requests[q].waited /\ requests[q].at \in Over
    /\ Ended(q, requests[q].at)
    /\ told' = IF requests[q].at = "ok" THEN requests[q].files ELSE told
    /\ UNCHANGED <<listVars, clicks, hurried, serverVars, late>>

\* Ten minutes without an answer; the server is not told.
TimeOut(q) ==
    /\ requests[q].waited /\ late + failed < MaxFaults
    /\ Ended(q, "error")
    /\ late' = late + 1
    /\ UNCHANGED <<listVars, clicks, hurried, serverVars, told>>

-----------------------------------------------------------------------------
\* The view: dataset_append_replace_view with action_type "replace".

Goes(q, from, to, copy) ==
    /\ requests[q].at = from
    /\ requests' = [requests EXCEPT ![q].at = to, ![q].copy = copy]

Fault == late + failed < MaxFaults /\ failed' = failed + 1

\* A whole shapefile whose layer bears the name the dataset has.
Valid(q) == requests[q].files.rest # 0 /\ row.named /\ requests[q].name = Ours

Accept(q) ==
    /\ Valid(q)
    /\ Goes(q, "sent", "accepted", row)
    /\ UNCHANGED serverVars

\* A form or a source that is not valid, for these reasons or for others (a
\* limit, a different schema), ends in an error answer.
Refuse(q) == Goes(q, "sent", "error", requests[q].copy) /\ UNCHANGED serverVars

\* Mutant: the files of the row are imported.
M_Commit(q) ==
    /\ Goes(q, "accepted", "committed", requests[q].copy)
    /\ data' = row.files
    /\ UNCHANGED <<row, failed>>

\* The importer of GeoServer has run and replaced the data.
Commit(q) ==
    /\ Goes(q, "accepted", "committed", requests[q].copy)
    /\ data' = requests[q].files
    /\ UNCHANGED <<row, failed>>

\* What import_dataset writes in the row: without a complete import no name.
Written(q, complete) == [named |-> complete, files |-> requests[q].files]

\* import_dataset stores the new files and reads the row again.
Record(q) ==
    /\ row' = Written(q, TRUE)
    /\ Goes(q, "committed", "saving", row')
    /\ UNCHANGED <<data, failed>>

\* The importer does not complete: the dataset loses its name.
Incomplete(q) ==
    /\ row' = Written(q, FALSE)
    /\ Goes(q, "accepted", "saving", row')
    /\ data' \in {data, requests[q].files}
    /\ Fault

\* An exception while importing is logged, and the replacement goes on with the
\* copy of the row it has, though the row may have been written and not read again.
Raise(q) ==
    /\ \/ /\ Goes(q, "accepted", "saving", requests[q].copy)
          /\ row' \in {row, Written(q, FALSE)} /\ data' \in {data, requests[q].files}
       \/ /\ Goes(q, "committed", "saving", requests[q].copy)
          /\ row' \in {row, Written(q, TRUE)} /\ UNCHANGED data
    /\ Fault

WithFiles(q) == [requests[q].copy EXCEPT !.files = requests[q].files]

\* update saves its copy and sets the new files on it, in one transaction, and
\* then saves it again.
SaveCopy(q) ==
    /\ row' = WithFiles(q)
    /\ Goes(q, "saving", "finishing", row')
    /\ UNCHANGED <<data, failed>>

Finish(q) ==
    /\ Goes(q, "finishing", "ok", requests[q].copy)
    /\ row' = requests[q].copy
    /\ UNCHANGED <<data, failed>>

\* update raises; it saves its copy all the same before the error is answered,
\* and what was rolled back with it if the copy had it already.
FailUpdate(q) ==
    /\ \/ /\ Goes(q, "saving", "error", requests[q].copy)
          /\ row' \in {requests[q].copy, WithFiles(q)}
       \/ /\ Goes(q, "finishing", "error", requests[q].copy)
          /\ row' = requests[q].copy
    /\ Fault
    /\ UNCHANGED data

\* The last save fails; that is logged and nobody is told.
LoseSave(q) ==
    /\ Goes(q, "finishing", "ok", requests[q].copy)
    /\ Fault
    /\ UNCHANGED <<row, data>>

\* The process that serves the request ends; the page gets an error.
Crash(q) ==
    /\ \E from \in Step \ (Over \union {"unsent"}) : Goes(q, from, "error", requests[q].copy)
    /\ Fault
    /\ UNCHANGED <<row, data>>

ServerStep(q) ==
    \/ Accept(q) \/ Refuse(q) \/ Commit(q) \/ Record(q) \/ Incomplete(q) \/ Raise(q)
    \/ SaveCopy(q) \/ Finish(q) \/ FailUpdate(q) \/ LoseSave(q) \/ Crash(q)

Serve(q) == ServerStep(q) /\ UNCHANGED <<listVars, sendVars, late, told>>

-----------------------------------------------------------------------------
Next ==
    \/ \E n \in Names, parts \in {{"shp"}, {"rest"}, {"shp", "rest"}} :
         Join(n, parts) \/ List(n, parts)
    \/ \E i \in Ids, part \in {"shp", "rest"} : Remove(i, part)
    \/ Clear
    \/ DoUploads
    \/ \E q \in Sends : Serve(q) \/ Answer(q) \/ TimeOut(q)

Spec == Init /\ [][Next]_vars

\* The server does not stop working while it has a request, nor does the page
\* leave an answer that has come unread.
FairSpec ==
    Spec /\ WF_vars(\E q \in Sends : Serve(q) \/ Answer(q))

-----------------------------------------------------------------------------
(* Everything has its type, and a layer of the list has a main file, which    *)
(* prepareFormData reads without asking.                                      *)
TypeOK ==
    /\ infos \in [Ids -> Info]
    /\ layers \subseteq {i \in Ids : infos[i].main # 0}
    /\ clicks \in 0..MaxClicks /\ chains \in [Chains -> SUBSET Ids]
    /\ requests \in [Sends -> Request]
    /\ row \in Row /\ data \in Files /\ told \in Files
    /\ drops \in Versions /\ late \in 0..MaxFaults /\ failed \in 0..MaxFaults
    /\ seen \subseteq Names /\ mixed \in BOOLEAN /\ hurried \in BOOLEAN

(* GeoServer holds one shapefile, never the .shp of one drop with the .dbf of *)
(* another, unless the user added files to a layer that was listed already:   *)
(* whatever was removed, cleared or dropped again while an upload ran.        *)
OneShapefile == mixed \/ data.shp = data.rest

AtServer == {q \in Sends : requests[q].at \notin Over \union {"unsent"}}

(* The view has no lock. It is the page's chain of callbacks that keeps two   *)
(* uploads from being served at once, as long as the user starts no second    *)
(* chain and no request times out.                                            *)
ServedApart == (~hurried /\ late = 0) => \A q, r \in AtServer : q = r

(* With uploads kept apart, no time-out and no fault, the row names the files *)
(* whose data GeoServer has, and these are what the page last showed as done. *)
PageRowAndDataAgree ==
    (~hurried /\ late = 0 /\ failed = 0 /\ Awaited = {}) =>
        row = [named |-> TRUE, files |-> data] /\ data = told

(* Every layer an upload was started for is sent in the end, whatever became  *)
(* of those before it, or of the list.                                        *)
AllSent == \A k \in Chains : chains[k] = {}
ChainEnds == ~AllSent ~> AllSent
=============================================================================
