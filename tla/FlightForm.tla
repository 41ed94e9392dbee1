------------------------------ MODULE FlightForm -------------------------------
(***************************************************************************)
(* The drone data entry form, ddcEntryForm.js, and the API behind it       *)
(* (dmc/views.py): a flight mission is picked from a list, the page asks   *)
(* for its record, its files and its flight, and what the user then enters *)
(* is saved to, uploaded for or deleted from the mission that flightGUID   *)
(* names.                                                                  *)
(*                                                                         *)
(* Every question to the server is answered or not, in any order.  A       *)
(* handler reads the page when the answer arrives, not when it asked.      *)
(* While the wizard shows its loader it takes no clicks.  Missions are     *)
(* numbered as in the list; 0 is the empty or undefined GUID.  Of values   *)
(* and files only the mission they were meant for is kept, 0 for blank.    *)
(***************************************************************************)
EXTENDS Naturals

CONSTANTS
    Missions,     \* the missions of the list
    Files,        \* the file fields of an upload
    Unregistered, \* those uploaddata_serializers does not declare: configyaml
    MaxClicks     \* bound: clicks that ask or tell the server something

ASSUME ConstantsAssumption ==
    Missions \subseteq Nat \ {0} /\ Unregistered \subseteq Files /\ MaxClicks \in Nat

Guid == Missions \union {0}
Ask == [of : {"record", "files", "flight", "place", "hide", "save", "upload", "uploaded"},
        at : Guid, option : Guid]
Write == [of : {"record"}, op : {"add", "update"}, at : Guid, values : Missions]
         \union [of : {"files"}, op : {"add", "update"}, at : Guid, files : [Files -> Guid],
                page : BOOLEAN] \* the page that sent it is still open
         \union [of : {"delete"}, at : Guid, file : Files]

VARIABLES
    guid,     \* flightGUID
    picked,   \* the options selected in the list
    loader,   \* the loader is shown
    values,   \* what the record fields hold; drone_type is checked unless 0
    record,   \* the mission whose record they were filled from
    flight,   \* the mission whose name and weather are shown
    drawn,    \* the missions drawn on the two maps
    urls,     \* data-url and label of each file
    chosen,   \* the file inputs
    dialog,   \* the file whose deletion the user is asked to confirm, if any
    asked,    \* questions of the page awaiting their answers, and its timer
    writes,   \* what the page sent and the server has not served
    records,  \* ddc_main: the values of a mission, 0 for no record
    nameless, \* ddc_main holds a record without GUID
    uploaded, \* ddc_upload: the GUIDs that have a row
    stored,   \* the files of each row
    clicks,   \* clicks so far
    past      \* history: what the user or the network did, see Past

Past == [hurried : BOOLEAN, \* selected before an earlier selection was shown
         several : BOOLEAN, \* selected more than one option, or none
         waiting : BOOLEAN, \* selected while a save or an upload was checked
         kept : BOOLEAN,    \* files of one mission stayed or came on another's page
         failed : BOOLEAN]  \* a question found no answer, or a useless one

formVars == <<values, record, flight, drawn>>
fileVars == <<urls, chosen, dialog>>
serverVars == <<records, nameless, uploaded, stored>>
vars == <<guid, picked, loader, formVars, fileVars, asked, writes, serverVars, clicks, past>>

TypeOK ==
    /\ {guid, values, record, flight} \subseteq Guid
    /\ picked \subseteq Missions /\ drawn \subseteq Guid
    /\ {loader, nameless} \subseteq BOOLEAN
    /\ urls \in [Files -> Guid] /\ chosen \in [Files -> Guid]
    /\ dialog \subseteq Files /\ asked \subseteq Ask /\ writes \subseteq Write
    /\ records \in [Missions -> Guid]
    /\ uploaded \subseteq Guid /\ stored \in [Guid -> [Files -> Guid]]
    /\ clicks \in 0..MaxClicks /\ past \in Past

Blank == [f \in Files |-> 0]

Init ==
    /\ guid = 0 /\ picked = {} /\ loader = FALSE
    /\ values = 0 /\ record = 0 /\ flight = 0 /\ drawn = {}
    /\ urls = Blank /\ chosen = Blank /\ dialog = {}
    /\ asked = {} /\ writes = {} /\ clicks = 0
    /\ records \in [Missions -> Guid] /\ \A m \in Missions : records[m] \in {0, m}
    /\ nameless = FALSE /\ uploaded \in SUBSET Missions
    /\ stored \in [Guid -> [Files -> Guid]]
    /\ \A g \in Guid, f \in Files : stored[g][f] \in IF g \in uploaded THEN {0, g} ELSE {0}
    /\ past = [hurried |-> FALSE, several |-> FALSE, waiting |-> FALSE, kept |-> FALSE,
               failed |-> FALSE]

-----------------------------------------------------------------------------
(* Questions.  Of each at most one is awaited: a handler that would ask it *)
(* again waits until it is answered.                                       *)

Question(of, at) == [of |-> of, at |-> at, option |-> 0]

Replace(old, new) ==
    /\ new \intersect asked = {}
    /\ asked' = (asked \ old) \union new

\* The page takes clicks; a dialog is in front of it.
Ready == ~loader /\ dialog = {}

Click == clicks < MaxClicks /\ clicks' = clicks + 1

\* The value of a list with several options selected is the first of them.
First(S) == IF S = {} THEN 0 ELSE CHOOSE m \in S : \A n \in S : m <= n

\* What is asked, one after the other, to show a selection.
Chain == {"record", "flight", "place", "hide"}

Awaits(kinds) == \E a \in asked : a.of \in kinds

\* The list's handler after option m was clicked and S are selected.
Select(S, m, old) ==
    /\ picked' = S /\ guid' = First(S) /\ loader' = TRUE
    /\ Replace(old, {Question("files", First(S)),
                     [of |-> "record", at |-> First(S), option |-> m]})
    /\ past' = [past EXCEPT
          !.hurried = @ \/ Awaits(Chain),
          !.several = @ \/ S # {m},
          !.waiting = @ \/ Awaits({"save", "upload"}),
          !.kept = @ \/ Awaits({"files"})]

-----------------------------------------------------------------------------
(* The list, and what it asks for. *)

Toggled(m) == (picked \ {m}) \union ({m} \ picked)

\* A click on an option, or on one more of them with the control key.
Pick(m, control) ==
    /\ Ready /\ Click
    /\ Select(IF control THEN Toggled(m) ELSE {m}, m, {})
    /\ UNCHANGED <<formVars, fileVars, writes, serverVars>>

\* Mutant: the maps are not cleared.
M_RecordArrives(a) ==
    /\ a.of = "record"
    /\ values' = IF a.at = 0 THEN 0 ELSE records[a.at]
    /\ record' = a.at /\ UNCHANGED drawn
    /\ picked' = IF picked \ {a.option} = {} THEN picked ELSE picked \ {a.option}
    /\ Replace({a}, {Question("flight", First(picked'))})
    /\ UNCHANGED <<guid, loader, flight, fileVars, past>>

\* Fields for the record, or blank ones; maps cleared; then the clicked option
\* is deselected if there is another, and the flight of the first is asked for.
RecordArrives(a) ==
    /\ a.of = "record"
    /\ values' = IF a.at = 0 THEN 0 ELSE records[a.at]
    /\ record' = a.at /\ drawn' = {}
    /\ picked' = IF picked \ {a.option} = {} THEN picked ELSE picked \ {a.option}
    /\ Replace({a}, {Question("flight", First(picked'))})
    /\ UNCHANGED <<guid, loader, flight, fileVars, past>>

\* A flight without wind fails at W.split, before anything more is asked for.
FlightArrives(a, wind) ==
    /\ a.of = "flight" /\ a.at # 0
    /\ guid' = a.at /\ flight' = a.at
    /\ IF wind THEN /\ drawn' = drawn \union {a.at}
                    /\ Replace({a}, {Question("place", a.at)})
                    /\ UNCHANGED past
               ELSE /\ Replace({a}, {}) /\ UNCHANGED drawn
                    /\ past' = [past EXCEPT !.failed = TRUE]
    /\ UNCHANGED <<picked, loader, values, record, fileVars>>

\* 'NA' has no guid and no name, which are stored, and no weather_detail.
FlightUnknown(a) ==
    /\ a.of = "flight" /\ guid' = 0 /\ flight' = 0 /\ Replace({a}, {})
    /\ past' = [past EXCEPT !.failed = TRUE]
    /\ UNCHANGED <<picked, loader, values, record, drawn, fileVars>>

\* Mutant: an unknown place is told, and that is all.
M_PlaceArrives(a, known) ==
    /\ a.of = "place" /\ Replace({a}, IF known THEN {Question("hide", a.at)} ELSE {})
    /\ drawn' = IF known THEN drawn \union {a.at} ELSE drawn
    /\ UNCHANGED <<guid, picked, loader, values, record, flight, fileVars, past>>

\* The place is drawn, if it is known, and a timer is set.
PlaceArrives(a, known) ==
    /\ a.of = "place" /\ Replace({a}, {Question("hide", a.at)})
    /\ drawn' = IF known THEN drawn \union {a.at} ELSE drawn
    /\ UNCHANGED <<guid, picked, loader, values, record, flight, fileVars, past>>

\* Two seconds later the loader goes, whatever was selected meanwhile.
Hide(a) ==
    /\ a.of = "hide" /\ loader' = FALSE /\ Replace({a}, {})
    /\ UNCHANGED <<guid, picked, formVars, fileVars, past>>

\* Files of another mission than g are left on the page.
Leftover(g) == \E f \in Files : {urls'[f], chosen'[f]} \ {0, g} # {}

\* Mutant: the file inputs are not reset.
M_FilesArrive(a) ==
    /\ a.of = "files" /\ Replace({a}, {}) /\ UNCHANGED <<chosen, dialog>>
    /\ IF a.at \notin uploaded THEN urls' = Blank /\ UNCHANGED past
       ELSE /\ urls' = [f \in Files |-> IF stored[a.at][f] # 0 THEN a.at ELSE urls[f]]
            /\ past' = [past EXCEPT !.kept = @ \/ Leftover(a.at)]
    /\ UNCHANGED <<guid, picked, loader, formVars>>

\* updateDownloadStepEntries: a row that is found replaces only the files it has.
FilesArrive(a) ==
    /\ a.of = "files" /\ Replace({a}, {}) /\ UNCHANGED dialog
    /\ IF a.at \notin uploaded THEN urls' = Blank /\ chosen' = Blank /\ UNCHANGED past
       ELSE /\ urls' = [f \in Files |-> IF stored[a.at][f] # 0 THEN a.at ELSE urls[f]]
            /\ UNCHANGED chosen
            /\ past' = [past EXCEPT !.kept = @ \/ Leftover(a.at)]
    /\ UNCHANGED <<guid, picked, loader, formVars>>

\* No answer: logged, if that.  The loader stays.
NoAnswer(a) ==
    /\ a.of \notin {"uploaded", "hide"} /\ Replace({a}, {})
    /\ UNCHANGED <<guid, picked, loader, formVars, fileVars>>
    /\ past' = [past EXCEPT !.failed = TRUE, !.kept = @ \/ (a.of = "files" /\ Leftover(a.at))]

-----------------------------------------------------------------------------
(* Record fields. *)

\* The user enters values for the mission whose name is shown.
Enter ==
    /\ Ready /\ flight # 0 /\ values' = flight
    /\ UNCHANGED <<guid, picked, loader, record, flight, drawn, fileVars, asked,
                   writes, serverVars, clicks, past>>

\* Mutant: the button also answers while the loader is shown.
M_Save ==
    /\ guid # 0 /\ values # 0 /\ Click
    /\ Replace({}, {Question("save", guid)})
    /\ UNCHANGED <<guid, picked, loader, formVars, fileVars, writes, serverVars, past>>

Save ==
    /\ Ready /\ guid # 0 /\ values # 0 /\ Click
    /\ Replace({}, {Question("save", guid)})
    /\ UNCHANGED <<guid, picked, loader, formVars, fileVars, writes, serverVars, past>>

Send(w) == w \notin writes /\ writes' = writes \union {w}

\* Mutant: the record is sent whether or not drone_type is checked.
M_SaveChecked(a) ==
    /\ a.of = "save" /\ Replace({a}, {})
    /\ Send([of |-> "record", at |-> guid, values |-> values,
             op |-> IF records[a.at] = 0 THEN "add" ELSE "update"])
    /\ UNCHANGED <<guid, picked, loader, formVars, fileVars, past>>

\* The form is read when the check is answered.  Without a drone_type the
\* request is refused.
SaveChecked(a) ==
    /\ a.of = "save" /\ Replace({a}, {})
    /\ IF values = 0 THEN UNCHANGED writes
       ELSE Send([of |-> "record", at |-> guid, values |-> values,
                  op |-> IF records[a.at] = 0 THEN "add" ELSE "update"])
    /\ UNCHANGED <<guid, picked, loader, formVars, fileVars, past>>

\* Without a GUID there is nothing to update, but a record can be added.
StoreRecord(w) ==
    /\ w.of = "record"
    /\ nameless' = (nameless \/ (w.at = 0 /\ w.op = "add"))
    /\ records' = [m \in Missions |->
          IF m = w.at /\ (w.op = "add") = (records[m] = 0) THEN w.values ELSE records[m]]
    /\ UNCHANGED <<uploaded, stored, asked>>

-----------------------------------------------------------------------------
(* Files. *)

Choose(f) ==
    /\ Ready /\ flight # 0 /\ chosen' = [chosen EXCEPT ![f] = flight]
    /\ UNCHANGED <<guid, picked, loader, formVars, urls, dialog, asked, writes, serverVars, clicks, past>>

Upload ==
    /\ Ready /\ guid # 0 /\ Click
    /\ Replace({}, {Question("upload", guid)})
    /\ past' = [past EXCEPT !.kept = @ \/ Awaits({"files"})]
    /\ UNCHANGED <<guid, picked, loader, formVars, fileVars, writes, serverVars>>

UploadChecked(a) ==
    /\ a.of = "upload" /\ Replace({a}, {})
    /\ Send([of |-> "files", at |-> guid, files |-> chosen, page |-> TRUE,
             op |-> IF a.at \in uploaded THEN "update" ELSE "add"])
    /\ UNCHANGED <<guid, picked, loader, formVars, fileVars, past>>

\* Fields left empty keep their file, the unregistered ones lose it.
StoreFiles(w) ==
    /\ w.of = "files"
    /\ IF (w.op = "update") # (w.at \in uploaded) THEN UNCHANGED <<uploaded, stored, asked>>
       ELSE /\ uploaded' = uploaded \union {w.at}
            /\ stored' = [stored EXCEPT ![w.at] = [f \in Files |->
                  IF w.files[f] # 0 \/ f \in Unregistered THEN w.files[f] ELSE @[f]]]
            /\ Replace({}, IF w.page THEN {Question("uploaded", 0)} ELSE {})
    /\ UNCHANGED <<records, nameless>>

\* onloadMissionListClick: the mission of flightGUID is selected once more.
Uploaded(a) ==
    /\ a.of = "uploaded"
    /\ IF guid = 0 THEN Replace({a}, {}) /\ UNCHANGED <<guid, picked, loader, past>>
       ELSE Select(picked \union {guid}, guid, {a})
    /\ UNCHANGED <<formVars, fileVars>>

\* A dialog asks whether the file shown is to be deleted.
Trash(f) ==
    /\ Ready /\ urls[f] # 0 /\ dialog' = {f}
    /\ UNCHANGED <<guid, picked, loader, formVars, urls, chosen, asked, writes, serverVars,
                   clicks, past>>

\* flightGUID is read when the deletion is confirmed.  The field is blank at
\* once, whatever the server will say.
Confirm(f) ==
    /\ f \in dialog /\ Click
    /\ Send([of |-> "delete", at |-> guid, file |-> f])
    /\ urls' = [urls EXCEPT ![f] = 0] /\ chosen' = [chosen EXCEPT ![f] = 0] /\ dialog' = {}
    /\ UNCHANGED <<guid, picked, loader, formVars, asked, serverVars, past>>

Cancel ==
    /\ dialog # {} /\ dialog' = {}
    /\ UNCHANGED <<guid, picked, loader, formVars, urls, chosen, asked, writes, serverVars,
                   clicks, past>>

DeleteFile(w) ==
    /\ w.of = "delete"
    /\ stored' = [stored EXCEPT ![w.at][w.file] = 0]
    /\ UNCHANGED <<records, nameless, uploaded, asked>>

-----------------------------------------------------------------------------
\* The page is loaded anew, perhaps for a mission; what it sent is still served.
Open(g) ==
    /\ Click
    /\ writes' = {IF w.of = "files" THEN [w EXCEPT !.page = FALSE] ELSE w : w \in writes}
    /\ values' = 0 /\ record' = 0 /\ flight' = 0 /\ drawn' = {}
    /\ urls' = Blank /\ chosen' = Blank /\ dialog' = {}
    /\ IF g = 0 THEN asked' = {} /\ guid' = 0 /\ picked' = {} /\ loader' = FALSE
       ELSE /\ picked' = {g} /\ guid' = g /\ loader' = TRUE
            /\ asked' = {Question("files", g), [of |-> "record", at |-> g, option |-> g]}
    /\ UNCHANGED <<serverVars, past>>

Answer(a) ==
    /\ a \in asked
    /\ \/ (\/ RecordArrives(a) \/ \E wind \in BOOLEAN : FlightArrives(a, wind)
           \/ FlightUnknown(a) \/ \E known \in BOOLEAN : PlaceArrives(a, known)
           \/ Hide(a) \/ FilesArrive(a) \/ NoAnswer(a) \/ Uploaded(a)) /\ UNCHANGED writes
       \/ SaveChecked(a) \/ UploadChecked(a)
    /\ UNCHANGED <<serverVars, clicks>>

Serve(w) ==
    /\ w \in writes /\ writes' = writes \ {w}
    /\ StoreRecord(w) \/ StoreFiles(w) \/ DeleteFile(w)
    /\ UNCHANGED <<guid, picked, loader, formVars, fileVars, clicks, past>>

Answered == \E a \in asked : Answer(a)
Served == \E w \in writes : Serve(w)

Next ==
    \/ \E m \in Missions, control \in BOOLEAN : Pick(m, control)
    \/ Enter \/ Save \/ Upload
    \/ \E f \in Files : Choose(f) \/ Trash(f) \/ Confirm(f)
    \/ Cancel
    \/ \E g \in Guid : Open(g)
    \/ Answered
    \/ Served

Spec == Init /\ [][Next]_vars

\* While something is awaited, an answer or a failure comes; what was sent is
\* served.  Nobody has to click.
FairSpec == Spec /\ WF_vars(Answered) /\ WF_vars(Served)

-----------------------------------------------------------------------------
\* One mission at a time: the selection of one is shown before the next is made,
\* by the user or by the end of an upload.
Single == ~past.hurried /\ ~past.several

\* ... and no selection while a save or an upload is checked.
Careful == Single /\ ~past.waiting

\* A page without its loader is about the mission that flightGUID names, though
\* saves, uploads and files of another may still be awaited: record, flight and
\* maps are that mission's.  So are the values, if no late save has stored those
\* of another mission, and the files and file inputs, once their own answer is
\* in, which the loader does not wait for, if none of another stayed or came.
OneMission ==
    Single /\ ~loader /\ guid # 0 =>
        /\ picked = {guid} /\ record = guid /\ flight = guid
        /\ drawn \subseteq {guid}
        /\ past.waiting \/ values \in {0, guid}
        /\ \/ past.kept \/ Awaits({"files"})
           \/ \A f \in Files : {urls[f], chosen[f]} \subseteq {0, guid}

\* No record holds the values of another mission, or of none, unless another
\* mission was selected while a save was checked.
RecordsAreTheirOwn ==
    Careful => ~nameless /\ \A m \in Missions : records[m] \in {0, m}

\* No mission holds the file of another, as long as no file stayed on the page
\* when another mission came and none was selected while an upload was checked.
FilesAreTheirOwn ==
    Careful /\ ~past.kept => \A m \in Missions, f \in Files : stored[m][f] \in {0, m}

\* The loader goes, unless some answer was missing.
LoaderEnds == loader ~> (~loader \/ past.failed)
=============================================================================
