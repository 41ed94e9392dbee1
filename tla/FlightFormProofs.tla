--------------------------- MODULE FlightFormProofs ----------------------------
(***************************************************************************)
(* What FlightForm keeps for any missions, file fields and number of       *)
(* clicks: types, one mission on the page, records and files of their own. *)
(*                                                                         *)
(* As long as one selection is shown before the next is made there is one  *)
(* chain of questions at a time: the record, then the flight, the place    *)
(* and the timer, and the loader hides the page until its end.  So what is *)
(* asked and shown is about the one option picked; what is sent is, too,   *)
(* if no other was selected while it was checked.                          *)
(***************************************************************************)
EXTENDS FlightForm, CommonLemmas

\* The option picked, and what may be asked about it.
PickedInv ==
    /\ picked = {} => guid = 0 /\ flight = 0 /\ ~loader
    /\ \A m \in picked : picked = {m} /\ guid \in {0, m}
    /\ \A a \in asked : a.of \in Chain => a.at \in picked
    /\ \A a \in asked : a.of = "record" => a.option = a.at

\* The chain: one question at a time, behind the loader.
ChainInv ==
    /\ \A a \in asked : a.of \in Chain => loader
    /\ \A a, b \in asked : a.of \in Chain /\ b.of \in Chain => a = b

\* What the answers so far have left on the page.
RecordShown == drawn \subseteq picked /\ (picked # {} => record \in picked)

FlightShown == picked # {} => guid \in picked /\ flight \in picked

ShownInv ==
    /\ ~loader => RecordShown /\ FlightShown
    /\ \A a \in asked : a.of \in {"flight", "place", "hide"} => RecordShown
    /\ \A a \in asked : a.of \in {"place", "hide"} => FlightShown

PageInv == PickedInv /\ ChainInv /\ ShownInv

\* What is to be sent, and the values that may be.
ToldInv ==
    /\ \A a \in asked : a.of \in {"save", "upload"} => a.at \in picked /\ ~loader
    /\ ~loader \/ (\E a \in asked : a.of \in {"flight", "place", "hide"})
          => values \in picked \union {0}

\* What was sent and what is stored.
RecordInv ==
    /\ \A w \in writes : w.of = "record" => w.at # 0 /\ w.values = w.at
    /\ ~nameless /\ \A m \in Missions : records[m] \in {0, m}

\* The files on the page, to be sent, sent and stored.
FileShown ==
    /\ \A a \in asked : a.of = "files" => a.at \in picked
    /\ ~Awaits({"files"}) => \A f \in Files : {urls[f], chosen[f]} \subseteq picked \union {0}

FileAsked == Awaits({"upload"}) => ~Awaits({"files"})

FileStored ==
    /\ \A w \in writes : w.of = "files" => w.at # 0 /\ \A f \in Files : w.files[f] \in {0, w.at}
    /\ \A g \in Guid, f \in Files : stored[g][f] \in {0, g}

FormInv ==
    /\ TypeOK
    /\ Single => PageInv
    /\ Careful => ToldInv /\ RecordInv
    /\ Single /\ ~past.kept => FileShown
    /\ Careful /\ ~past.kept => FileAsked /\ FileStored

\* What the user does.
UserStep ==
    \/ \E m \in Missions, control \in BOOLEAN : Pick(m, control)
    \/ Enter \/ Save \/ Upload
    \/ \E f \in Files : Choose(f) \/ Trash(f) \/ Confirm(f)
    \/ Cancel
    \/ \E g \in Guid : Open(g)
-----------------------------------------------------------------------------
\* The first of one option is that option.
LEMMA FirstOfOne == \A m \in Nat : First({m}) = m
BY DEF First

\* The first of some missions is one of them or none.
LEMMA FirstIsGuid ==
    ASSUME NEW S \in SUBSET Missions
    PROVE First(S) \in Guid
<1>1. CASE S = {} BY <1>1 DEF First, Guid
<1>2. CASE S # {}
  <2>1. \E m \in S : \A n \in S : m <= n BY <1>2, ConstantsAssumption, MinExists
  <2>2. QED BY <1>2, <2>1 DEF First, Guid
<1>3. QED BY <1>1, <1>2

\* Parts of the type invariant.
PageType == {guid, values, record, flight} \subseteq Guid /\ picked \subseteq Missions
            /\ drawn \subseteq Guid
FlagType == {loader, nameless} \subseteq BOOLEAN /\ past \in Past
FilesType == urls \in [Files -> Guid] /\ chosen \in [Files -> Guid] /\ dialog \subseteq Files
SentType == asked \subseteq Ask /\ writes \subseteq Write
StoreType == records \in [Missions -> Guid] /\ uploaded \subseteq Guid
             /\ stored \in [Guid -> [Files -> Guid]]
ClickType == clicks \in 0..MaxClicks

LEMMA TypeParts ==
    TypeOK <=> PageType /\ FlagType /\ FilesType /\ SentType /\ StoreType /\ ClickType
BY DEF TypeOK, PageType, FlagType, FilesType, SentType, StoreType, ClickType

LEMMA TypePartsNext ==
    PageType' /\ FlagType' /\ FilesType' /\ SentType' /\ StoreType' /\ ClickType' => TypeOK'
BY Zenon DEF TypeOK, PageType, FlagType, FilesType, SentType, StoreType, ClickType

\* A question about a mission, and what replaces one.
LEMMA QuestionType ==
    ASSUME NEW of \in {"files", "flight", "place", "hide", "save", "upload", "uploaded"}, NEW g \in Guid
    PROVE Question(of, g) \in Ask
BY DEF Question, Ask, Guid

LEMMA ReplaceType ==
    ASSUME SentType, NEW old, NEW new, new \subseteq Ask, Replace(old, new)
    PROVE asked' \subseteq Ask
BY DEF Replace, SentType

LEMMA ClickTyped ==
    ASSUME ClickType, Click PROVE ClickType'
BY ConstantsAssumption DEF ClickType, Click

LEMMA InitTyped == Init => TypeOK
<1> SUFFICES ASSUME Init PROVE TypeOK OBVIOUS
<1>1. PageType BY DEF Init, PageType, Guid
<1>2. FlagType
  <2>1. past \in Past BY DEF Init, Past
  <2>2. QED BY <2>1 DEF Init, FlagType
<1>3. FilesType BY DEF Init, FilesType, Blank, Guid
<1>4. SentType BY DEF Init, SentType
<1>5. StoreType BY DEF Init, StoreType, Guid
<1>6. ClickType BY ConstantsAssumption DEF Init, ClickType
<1>7. QED BY <1>1, <1>2, <1>3, <1>4, <1>5, <1>6, TypeParts

\* What selecting an option does to the types.
LEMMA SelectType ==
    ASSUME TypeOK, NEW S \in SUBSET Missions, NEW m \in Missions, NEW old, Select(S, m, old)
    PROVE /\ guid' \in Guid /\ picked' \subseteq Missions /\ loader' \in BOOLEAN
          /\ asked' \subseteq Ask /\ past' \in Past
<1>1. guid' \in Guid /\ picked' \subseteq Missions /\ loader' \in BOOLEAN
  BY FirstIsGuid DEF Select
<1>2. [of |-> "record", at |-> First(S), option |-> m] \in Ask
  BY FirstIsGuid DEF Ask, Guid
<1>3. {Question("files", First(S)), [of |-> "record", at |-> First(S), option |-> m]} \subseteq Ask
  BY <1>2, QuestionType, FirstIsGuid
<1>4. asked' \subseteq Ask BY <1>3, ReplaceType, TypeParts DEF Select
<1>5. past' \in Past
  <2>1. past \in Past BY DEF TypeOK
  <2>2. past' = [past EXCEPT
          !.hurried = @ \/ Awaits(Chain), !.several = @ \/ S # {m},
          !.waiting = @ \/ Awaits({"save", "upload"}), !.kept = @ \/ Awaits({"files"})]
    BY DEF Select
  <2>3. /\ (past.hurried \/ Awaits(Chain)) \in BOOLEAN /\ (past.several \/ S # {m}) \in BOOLEAN
        /\ (past.waiting \/ Awaits({"save", "upload"})) \in BOOLEAN
        /\ (past.kept \/ Awaits({"files"})) \in BOOLEAN
    OBVIOUS
  <2>4. QED BY <2>1, <2>2, <2>3 DEF Past
<1>6. QED BY <1>1, <1>4, <1>5

-----------------------------------------------------------------------------
(* Every step keeps the types. *)

LEMMA UserTyped ==
    ASSUME TypeOK, UserStep PROVE TypeOK'
<1> USE TypeParts, TypePartsNext
<1>1. ASSUME NEW m \in Missions, NEW control \in BOOLEAN, Pick(m, control) PROVE TypeOK'
  <2>1. (IF control THEN Toggled(m) ELSE {m}) \in SUBSET Missions
    BY DEF Toggled, PageType
  <2>2. /\ guid' \in Guid /\ picked' \subseteq Missions /\ loader' \in BOOLEAN
        /\ asked' \subseteq Ask /\ past' \in Past
    BY <1>1, <2>1, SelectType DEF Pick
  <2>3. UNCHANGED <<values, record, flight, drawn, urls, chosen, dialog, writes, records, nameless, uploaded, stored>> /\ Click
    BY <1>1 DEF Pick, formVars, fileVars, serverVars
  <2>4. PageType' BY <2>2, <2>3 DEF PageType
  <2>5. FlagType' BY <2>2, <2>3 DEF FlagType
  <2>6. FilesType' /\ SentType' /\ StoreType' BY <2>2, <2>3 DEF FilesType, SentType, StoreType
  <2>7. ClickType' BY <2>3, ClickTyped
  <2>8. QED BY <2>4, <2>5, <2>6, <2>7
<1>2. CASE Enter
  <2>1. PageType' /\ FlagType' BY <1>2 DEF Enter, PageType, FlagType, serverVars
  <2>2. FilesType' /\ SentType' /\ StoreType' /\ ClickType'
    BY <1>2 DEF Enter, FilesType, SentType, StoreType, ClickType, fileVars, serverVars
  <2>3. QED BY <2>1, <2>2
<1>3. CASE Save
  <2>1. {Question("save", guid)} \subseteq Ask BY QuestionType DEF PageType
  <2>2. asked' \subseteq Ask BY <1>3, <2>1, ReplaceType DEF Save
  <2>3. ClickType' BY <1>3, ClickTyped DEF Save
  <2>4. PageType' /\ FlagType' BY <1>3 DEF Save, PageType, FlagType, formVars, serverVars
  <2>5. FilesType' /\ SentType' /\ StoreType'
    BY <1>3, <2>2 DEF Save, FilesType, SentType, StoreType, fileVars, serverVars
  <2>6. QED BY <2>3, <2>4, <2>5
<1>4. CASE Upload
  <2>1. {Question("upload", guid)} \subseteq Ask BY QuestionType DEF PageType
  <2>2. asked' \subseteq Ask BY <1>4, <2>1, ReplaceType DEF Upload
  <2>3. ClickType' BY <1>4, ClickTyped DEF Upload
  <2>4. past' \in Past
    <3>1. (past.kept \/ Awaits({"files"})) \in BOOLEAN OBVIOUS
    <3>2. QED BY <1>4, <3>1 DEF Upload, FlagType, Past
  <2>5. PageType' /\ FlagType' BY <1>4, <2>4 DEF Upload, PageType, FlagType, formVars, serverVars
  <2>6. FilesType' /\ SentType' /\ StoreType'
    BY <1>4, <2>2 DEF Upload, FilesType, SentType, StoreType, fileVars, serverVars
  <2>7. QED BY <2>3, <2>5, <2>6
<1>5. ASSUME NEW f \in Files, Choose(f) PROVE TypeOK'
  <2>1. PageType' /\ FlagType' BY <1>5 DEF Choose, PageType, FlagType, formVars, serverVars
  <2>2. FilesType' BY <1>5 DEF Choose, FilesType, PageType
  <2>3. SentType' /\ StoreType' /\ ClickType'
    BY <1>5 DEF Choose, SentType, StoreType, ClickType, serverVars
  <2>4. QED BY <2>1, <2>2, <2>3
<1>6. ASSUME NEW f \in Files, Confirm(f) PROVE TypeOK'
  <2>1. ClickType' BY <1>6, ClickTyped DEF Confirm
  <2>2. [of |-> "delete", at |-> guid, file |-> f] \in Write BY DEF Write, PageType
  <2>3. writes' \subseteq Write BY <1>6, <2>2 DEF Confirm, Send, SentType
  <2>4. 0 \in Guid BY DEF Guid
  <2>5. FilesType' BY <1>6, <2>4 DEF Confirm, FilesType
  <2>6. PageType' /\ FlagType' BY <1>6 DEF Confirm, PageType, FlagType, formVars, serverVars
  <2>7. SentType' /\ StoreType' BY <1>6, <2>3 DEF Confirm, SentType, StoreType, serverVars
  <2>8. QED BY <2>1, <2>5, <2>6, <2>7
<1>7. ASSUME NEW g \in Guid, Open(g) PROVE TypeOK'
  <2>1. ClickType' BY <1>7, ClickTyped DEF Open
  <2>2. writes' \subseteq Write
    <3>1. ASSUME NEW w \in writes
          PROVE (IF w.of = "files" THEN [w EXCEPT !.page = FALSE] ELSE w) \in Write
      BY DEF SentType, Write
    <3>2. QED BY <1>7, <3>1 DEF Open
  <2>3. 0 \in Guid /\ Missions = Guid \ {0} BY ConstantsAssumption DEF Guid
  <2>4. asked' \subseteq Ask
    BY <1>7, <2>3, QuestionType DEF Open, Ask
  <2>5. FilesType' BY <1>7, <2>3 DEF Open, FilesType, Blank
  <2>6. PageType' BY <1>7, <2>3 DEF Open, PageType
  <2>7. FlagType' BY <1>7 DEF Open, FlagType, serverVars
  <2>8. SentType' /\ StoreType' BY <1>7, <2>2, <2>4 DEF Open, SentType, StoreType, serverVars
  <2>9. QED BY <2>1, <2>5, <2>6, <2>7, <2>8
<1>8. ASSUME Cancel \/ \E f \in Files : Trash(f) PROVE TypeOK'
  <2>1. FilesType' BY <1>8 DEF Cancel, Trash, FilesType
  <2>2. PageType' /\ FlagType' BY <1>8 DEF Cancel, Trash, PageType, FlagType, formVars, serverVars
  <2>3. SentType' /\ StoreType' /\ ClickType'
    BY <1>8 DEF Cancel, Trash, SentType, StoreType, ClickType, serverVars
  <2>4. QED BY <2>1, <2>2, <2>3
<1>9. QED BY <1>1, <1>2, <1>3, <1>4, <1>5, <1>6, <1>7, <1>8 DEF UserStep

\* What an answer that asks nothing or one thing more does to the questions.
LEMMA AskedTyped ==
    ASSUME TypeOK, NEW a,
           \/ Replace({a}, {})
           \/ \E of \in {"flight", "place", "hide"}, g \in Guid : Replace({a}, {Question(of, g)})
    PROVE asked' \subseteq Ask
<1>1. CASE Replace({a}, {}) BY <1>1, ReplaceType, TypeParts
<1>2. ASSUME NEW of \in {"flight", "place", "hide"}, NEW g \in Guid, Replace({a}, {Question(of, g)})
      PROVE asked' \subseteq Ask
  <2>1. {Question(of, g)} \subseteq Ask BY QuestionType
  <2>2. QED BY <1>2, <2>1, ReplaceType, TypeParts
<1>3. QED BY <1>1, <1>2

\* What the page's answers may write, when they leave the server alone.
LEMMA PageAnswerTyped ==
    ASSUME TypeOK, NEW a \in asked,
           \/ RecordArrives(a) \/ \E wind \in BOOLEAN : FlightArrives(a, wind)
           \/ FlightUnknown(a) \/ \E known \in BOOLEAN : PlaceArrives(a, known)
           \/ Hide(a) \/ FilesArrive(a) \/ NoAnswer(a) \/ Uploaded(a)
    PROVE PageType' /\ loader' \in BOOLEAN /\ past' \in Past /\ FilesType' /\ asked' \subseteq Ask
<1> DEFINE Goal == PageType' /\ loader' \in BOOLEAN /\ past' \in Past /\ FilesType' /\ asked' \subseteq Ask
<1> USE TypeParts
<1>0. a.at \in Guid /\ a.option \in Guid /\ 0 \in Guid /\ Missions = Guid \ {0}
  BY ConstantsAssumption DEF SentType, Ask, Guid
<1>1. CASE RecordArrives(a)
  <2>1. picked' \in SUBSET Missions BY <1>1 DEF RecordArrives, PageType
  <2>2. values' \in Guid BY <1>1, <1>0 DEF RecordArrives, StoreType
  <2>3. PageType' BY <1>1, <1>0, <2>1, <2>2 DEF RecordArrives, PageType
  <2>4. First(picked') \in Guid BY <2>1, FirstIsGuid
  <2>5. asked' \subseteq Ask BY <1>1, <2>4, AskedTyped DEF RecordArrives
  <2>6. loader' \in BOOLEAN /\ past' \in Past /\ FilesType'
    BY <1>1 DEF RecordArrives, FlagType, FilesType, fileVars
  <2>7. QED BY <2>3, <2>5, <2>6
<1>2. ASSUME NEW wind \in BOOLEAN, FlightArrives(a, wind) PROVE Goal
  <2>1. PageType' BY <1>2, <1>0 DEF FlightArrives, PageType
  <2>2. asked' \subseteq Ask BY <1>2, <1>0, AskedTyped DEF FlightArrives
  <2>3. past' \in Past BY <1>2 DEF FlightArrives, FlagType, Past
  <2>4. loader' \in BOOLEAN /\ FilesType' BY <1>2 DEF FlightArrives, FlagType, FilesType, fileVars
  <2>5. QED BY <2>1, <2>2, <2>3, <2>4
<1>3. CASE FlightUnknown(a)
  <2>1. PageType' BY <1>3, <1>0 DEF FlightUnknown, PageType
  <2>2. asked' \subseteq Ask BY <1>3, AskedTyped DEF FlightUnknown
  <2>3. past' \in Past BY <1>3 DEF FlightUnknown, FlagType, Past
  <2>4. loader' \in BOOLEAN /\ FilesType' BY <1>3 DEF FlightUnknown, FlagType, FilesType, fileVars
  <2>5. QED BY <2>1, <2>2, <2>3, <2>4
<1>4. ASSUME NEW known \in BOOLEAN, PlaceArrives(a, known) PROVE Goal
  <2>1. drawn' \subseteq Guid BY <1>4, <1>0 DEF PlaceArrives, PageType
  <2>2. asked' \subseteq Ask BY <1>4, <1>0, AskedTyped DEF PlaceArrives
  <2>3. loader' \in BOOLEAN /\ past' \in Past /\ FilesType'
    BY <1>4 DEF PlaceArrives, FlagType, FilesType, fileVars
  <2>4. PageType' BY <1>4, <1>0, <2>1 DEF PlaceArrives, PageType
  <2>5. QED BY <2>2, <2>3, <2>4
<1>5. CASE FilesArrive(a)
  <2>1. FilesType'
    <3>1. CASE a.at \notin uploaded BY <1>5, <3>1, <1>0 DEF FilesArrive, FilesType, Blank
    <3>2. CASE a.at \in uploaded BY <1>5, <3>2, <1>0 DEF FilesArrive, FilesType
    <3>3. QED BY <3>1, <3>2
  <2>2. past' \in Past
    <3>1. (past.kept \/ Leftover(a.at)) \in BOOLEAN OBVIOUS
    <3>2. QED BY <1>5, <3>1 DEF FilesArrive, FlagType, Past
  <2>3. asked' \subseteq Ask BY <1>5, AskedTyped DEF FilesArrive
  <2>4. PageType' /\ loader' \in BOOLEAN BY <1>5 DEF FilesArrive, PageType, FlagType, formVars
  <2>5. QED BY <2>1, <2>2, <2>3, <2>4
<1>6. CASE NoAnswer(a)
  <2>1. past' \in Past
    <3>1. (past.kept \/ (a.of = "files" /\ Leftover(a.at))) \in BOOLEAN OBVIOUS
    <3>2. QED BY <1>6, <3>1 DEF NoAnswer, FlagType, Past
  <2>2. asked' \subseteq Ask BY <1>6, AskedTyped DEF NoAnswer
  <2>3. PageType' /\ loader' \in BOOLEAN BY <1>6 DEF NoAnswer, PageType, FlagType, formVars
  <2>4. FilesType' BY <1>6 DEF NoAnswer, FilesType, fileVars
  <2>5. QED BY <2>1, <2>2, <2>3, <2>4
<1>7. CASE Uploaded(a)
  <2>1. CASE guid = 0
    <3>1. asked' \subseteq Ask BY <1>7, <2>1, AskedTyped DEF Uploaded
    <3>2. QED BY <1>7, <2>1, <3>1 DEF Uploaded, PageType, FlagType, FilesType, formVars, fileVars
  <2>2. CASE guid # 0
    <3>1. guid \in Missions /\ picked \union {guid} \in SUBSET Missions
      BY <2>2, <1>0 DEF PageType
    <3>2. Select(picked \union {guid}, guid, {a}) BY <1>7, <2>2 DEF Uploaded
    <3>3. /\ guid' \in Guid /\ picked' \subseteq Missions /\ loader' \in BOOLEAN
          /\ asked' \subseteq Ask /\ past' \in Past
      BY <3>1, <3>2, SelectType
    <3>4. PageType' /\ FilesType' BY <1>7, <3>3 DEF Uploaded, PageType, FilesType, formVars, fileVars
    <3>5. QED BY <3>3, <3>4
  <2>3. QED BY <2>1, <2>2
<1>8. CASE Hide(a)
  <2>1. asked' \subseteq Ask BY <1>8, AskedTyped DEF Hide
  <2>2. QED BY <1>8, <2>1 DEF Hide, PageType, FlagType, FilesType, formVars, fileVars
<1>9. QED BY <1>1, <1>2, <1>3, <1>4, <1>5, <1>6, <1>7, <1>8

LEMMA AnswerTyped ==
    ASSUME TypeOK, NEW a \in asked, Answer(a) PROVE TypeOK'
<1> USE TypeParts, TypePartsNext
<1>0. a.at \in Guid BY DEF SentType, Ask
<1>1. UNCHANGED serverVars /\ UNCHANGED clicks BY DEF Answer
<1>2. StoreType' /\ ClickType' /\ nameless' \in BOOLEAN
  BY <1>1 DEF serverVars, StoreType, ClickType, FlagType
<1>3. CASE UNCHANGED writes /\ (\/ RecordArrives(a) \/ \E wind \in BOOLEAN : FlightArrives(a, wind)
                \/ FlightUnknown(a) \/ \E known \in BOOLEAN : PlaceArrives(a, known)
                \/ Hide(a) \/ FilesArrive(a) \/ NoAnswer(a) \/ Uploaded(a))
  <2>1. PageType' /\ loader' \in BOOLEAN /\ past' \in Past /\ FilesType' /\ asked' \subseteq Ask
    BY <1>3, PageAnswerTyped
  <2>2. SentType' BY <2>1, <1>3 DEF SentType
  <2>3. FlagType' BY <2>1, <1>2 DEF FlagType
  <2>4. QED BY <1>2, <2>1, <2>2, <2>3
<1>4. CASE SaveChecked(a)
  <2>1. asked' \subseteq Ask BY <1>4, AskedTyped DEF SaveChecked
  <2>2. writes' \subseteq Write
    <3>1. CASE values = 0 BY <1>4, <3>1 DEF SaveChecked, SentType
    <3>2. CASE values # 0
      <4>1. values \in Missions BY <3>2 DEF PageType, Guid
      <4>2. \A op \in {"add", "update"} :
              [of |-> "record", op |-> op, at |-> guid, values |-> values] \in Write
        BY <4>1 DEF Write, PageType
      <4>3. writes' = writes \union {[of |-> "record", at |-> guid, values |-> values,
                                     op |-> IF records[a.at] = 0 THEN "add" ELSE "update"]}
        BY <1>4, <3>2 DEF SaveChecked, Send
      <4>4. QED BY <4>2, <4>3 DEF SentType
    <3>3. QED BY <3>1, <3>2
  <2>3. PageType' /\ FlagType' BY <1>4, <1>2 DEF SaveChecked, PageType, FlagType, formVars
  <2>4. FilesType' BY <1>4 DEF SaveChecked, FilesType, fileVars
  <2>5. SentType' BY <2>1, <2>2 DEF SentType
  <2>6. QED BY <1>2, <2>3, <2>4, <2>5
<1>5. CASE UploadChecked(a)
  <2>1. asked' \subseteq Ask BY <1>5, AskedTyped DEF UploadChecked
  <2>2. writes' \subseteq Write
    <3>1. \A op \in {"add", "update"} :
            [of |-> "files", op |-> op, at |-> guid, files |-> chosen, page |-> TRUE] \in Write
      BY DEF Write, PageType, FilesType
    <3>2. writes' = writes \union {[of |-> "files", at |-> guid, files |-> chosen, page |-> TRUE,
                                   op |-> IF a.at \in uploaded THEN "update" ELSE "add"]}
      BY <1>5 DEF UploadChecked, Send
    <3>3. QED BY <3>1, <3>2 DEF SentType
  <2>3. PageType' /\ FlagType' BY <1>5, <1>2 DEF UploadChecked, PageType, FlagType, formVars
  <2>4. FilesType' BY <1>5 DEF UploadChecked, FilesType, fileVars
  <2>5. SentType' BY <2>1, <2>2 DEF SentType
  <2>6. QED BY <1>2, <2>3, <2>4, <2>5
<1>6. QED BY <1>3, <1>4, <1>5 DEF Answer

LEMMA ServeTyped ==
    ASSUME TypeOK, NEW w \in writes, Serve(w) PROVE TypeOK'
<1> USE TypeParts, TypePartsNext
<1>0. writes' \subseteq Write /\ w \in Write /\ w.at \in Guid BY DEF Serve, SentType, Write
<1>1. PageType' /\ FilesType' /\ ClickType' /\ loader' \in BOOLEAN /\ past' \in Past
  BY DEF Serve, PageType, FilesType, ClickType, FlagType, formVars, fileVars
<1>2. CASE StoreRecord(w)
  <2>1. w.values \in Guid BY <1>2, <1>0 DEF StoreRecord, Write, Guid
  <2>2. StoreType' /\ asked' \subseteq Ask BY <1>2, <2>1 DEF StoreRecord, StoreType, SentType
  <2>3. nameless' \in BOOLEAN BY <1>2 DEF StoreRecord, FlagType
  <2>4. FlagType' /\ SentType' BY <1>0, <1>1, <2>2, <2>3 DEF FlagType, SentType
  <2>5. QED BY <1>1, <2>2, <2>4
<1>3. CASE StoreFiles(w)
  <2>1. w.files \in [Files -> Guid] BY <1>3, <1>0 DEF StoreFiles, Write
  <2>2. stored' \in [Guid -> [Files -> Guid]] /\ uploaded' \subseteq Guid
    <3>1. CASE (w.op = "update") # (w.at \in uploaded)
      BY <1>3, <3>1 DEF StoreFiles, StoreType
    <3>2. CASE (w.op = "update") = (w.at \in uploaded)
      <4>1. [f \in Files |-> IF w.files[f] # 0 \/ f \in Unregistered
                             THEN w.files[f] ELSE stored[w.at][f]] \in [Files -> Guid]
        BY <1>0, <2>1 DEF StoreType
      <4>2. stored' = [stored EXCEPT ![w.at] =
               [f \in Files |-> IF w.files[f] # 0 \/ f \in Unregistered
                                THEN w.files[f] ELSE stored[w.at][f]]]
            /\ uploaded' = uploaded \union {w.at}
        BY <1>3, <3>2, <1>0 DEF StoreFiles, StoreType
      <4>3. QED BY <1>0, <4>1, <4>2 DEF StoreType
    <3>3. QED BY <3>1, <3>2
  <2>3. StoreType' BY <1>3, <2>2 DEF StoreFiles, StoreType
  <2>4. asked' \subseteq Ask
    <3>1. {Question("uploaded", 0)} \subseteq Ask BY QuestionType DEF Guid
    <3>2. (IF w.page THEN {Question("uploaded", 0)} ELSE {}) \subseteq Ask BY <3>1
    <3>3. QED BY <1>3, <3>2, ReplaceType DEF StoreFiles, SentType
  <2>5. FlagType' /\ SentType' BY <1>0, <1>1, <1>3, <2>4 DEF StoreFiles, FlagType, SentType
  <2>6. QED BY <1>1, <2>3, <2>5
<1>4. CASE DeleteFile(w)
  <2>1. 0 \in Guid BY DEF Guid
  <2>2. StoreType' BY <1>4, <2>1, <1>0 DEF DeleteFile, StoreType
  <2>3. FlagType' /\ SentType' BY <1>0, <1>1, <1>4 DEF DeleteFile, FlagType, SentType
  <2>4. QED BY <1>1, <2>2, <2>3
<1>5. QED BY <1>2, <1>3, <1>4 DEF Serve

LEMMA StepTyped == TypeOK /\ [Next]_vars => TypeOK'
<1> SUFFICES ASSUME TypeOK, [Next]_vars PROVE TypeOK' OBVIOUS
<1>1. CASE UNCHANGED vars
  BY <1>1 DEF vars, formVars, fileVars, serverVars, TypeOK
<1>2. CASE Next
  BY <1>2, UserTyped, AnswerTyped, ServeTyped, Zenon DEF Next, UserStep, Answered, Served
<1>3. QED BY <1>1, <1>2

\* Whatever is picked, answered and served in whatever order, the page, the
\* questions and the tables have their types.
THEOREM TypeCorrect == Spec => []TypeOK
<1>1. Init => TypeOK BY InitTyped
<1>2. TypeOK /\ [Next]_vars => TypeOK' BY StepTyped
<1>3. QED BY <1>1, <1>2, PTL DEF Spec

-----------------------------------------------------------------------------
(* The page, when one selection is shown before the next is made. *)

pageVars == <<guid, picked, loader, record, flight, drawn>>

\* What a selection records: which questions were not awaited, if it was nothing.
LEMMA SelectRecords ==
    ASSUME TypeOK, NEW S, NEW m, NEW old, Select(S, m, old)
    PROVE /\ Single' => Single /\ S = {m} /\ ~Awaits(Chain)
          /\ past.waiting' = (past.waiting \/ Awaits({"save", "upload"}))
          /\ past.kept' = (past.kept \/ Awaits({"files"}))
<1>1. past \in Past BY DEF TypeOK
<1>2. past' = [past EXCEPT
          !.hurried = past.hurried \/ Awaits(Chain), !.several = past.several \/ S # {m},
          !.waiting = past.waiting \/ Awaits({"save", "upload"}),
          !.kept = past.kept \/ Awaits({"files"})]
  BY DEF Select
<1>3. /\ past.hurried' = (past.hurried \/ Awaits(Chain))
      /\ past.several' = (past.several \/ S # {m})
      /\ past.waiting' = (past.waiting \/ Awaits({"save", "upload"}))
      /\ past.kept' = (past.kept \/ Awaits({"files"}))
  BY <1>1, <1>2 DEF Past
<1>4. QED BY <1>3 DEF Single

\* Nothing that was recorded is forgotten.
LEMMA PastStays ==
    ASSUME TypeOK, [Next]_vars
    PROVE /\ Single' => Single
          /\ past.waiting => past.waiting'
          /\ past.kept => past.kept'
<1> DEFINE Goal == (Single' => Single) /\ (past.waiting => past.waiting') /\ (past.kept => past.kept')
<1>0. past \in Past BY DEF TypeOK
<1>1. ASSUME past' = past PROVE Goal BY <1>1 DEF Single
<1>2. ASSUME NEW S, NEW m, NEW old, Select(S, m, old) PROVE Goal
  BY <1>2, SelectRecords
<1>3. ASSUME \/ past' = [past EXCEPT !.failed = TRUE]
             \/ \E b \in BOOLEAN : past' = [past EXCEPT !.kept = past.kept \/ b]
             \/ \E b \in BOOLEAN : past' = [past EXCEPT !.failed = TRUE, !.kept = past.kept \/ b]
      PROVE Goal
  <2>1. /\ past'.hurried = past.hurried /\ past'.several = past.several
        /\ past'.waiting = past.waiting /\ (past.kept => past'.kept)
    BY <1>0, <1>3 DEF Past
  <2>2. QED BY <2>1 DEF Single
<1>4. CASE UserStep
  <2>1. ASSUME NEW m \in Missions, NEW control \in BOOLEAN, Pick(m, control) PROVE Goal
    <3>1. PICK S : Select(S, m, {}) BY <2>1 DEF Pick
    <3>2. QED BY <1>2, <3>1
  <2>2. CASE Upload
    <3>1. Awaits({"files"}) \in BOOLEAN BY DEF Awaits
    <3>2. past' = [past EXCEPT !.kept = past.kept \/ Awaits({"files"})] BY <2>2 DEF Upload
    <3>3. QED BY <1>3, <3>1, <3>2
  <2>3. CASE \/ Enter \/ Save \/ Cancel \/ \E f \in Files : Choose(f) \/ Trash(f) \/ Confirm(f)
             \/ \E g \in Guid : Open(g)
    BY <1>1, <2>3 DEF Enter, Save, Cancel, Choose, Trash, Confirm, Open
  <2>4. QED BY <1>4, <2>1, <2>2, <2>3 DEF UserStep
<1>5. ASSUME NEW a \in asked, Answer(a) PROVE Goal
  <2>1. CASE Uploaded(a)
    <3>1. past' = past \/ Select(picked \union {guid}, guid, {a}) BY <2>1 DEF Uploaded
    <3>2. QED BY <1>1, <1>2, <3>1
  <2>2. CASE FilesArrive(a) \/ NoAnswer(a)
    <3>1. Leftover(a.at) \in BOOLEAN /\ (a.of = "files" /\ Leftover(a.at)) \in BOOLEAN
      BY DEF Leftover
    <3>2. \/ past' = past
          \/ past' = [past EXCEPT !.kept = past.kept \/ Leftover(a.at)]
          \/ past' = [past EXCEPT !.failed = TRUE,
                                  !.kept = past.kept \/ (a.of = "files" /\ Leftover(a.at))]
      BY <2>2 DEF FilesArrive, NoAnswer
    <3>3. QED BY <1>1, <1>3, <3>1, <3>2
  <2>3. CASE \/ RecordArrives(a) \/ \E known \in BOOLEAN : PlaceArrives(a, known)
             \/ Hide(a) \/ SaveChecked(a) \/ UploadChecked(a)
    BY <1>1, <2>3 DEF RecordArrives, PlaceArrives, Hide, SaveChecked, UploadChecked
  <2>4. CASE FlightUnknown(a) \/ \E wind \in BOOLEAN : FlightArrives(a, wind)
    BY <1>1, <1>3, <2>4 DEF FlightUnknown, FlightArrives
  <2>5. QED BY <1>5, <2>1, <2>2, <2>3, <2>4 DEF Answer
<1>6. ASSUME NEW w \in writes, Serve(w) PROVE Goal BY <1>1, <1>6 DEF Serve
<1>7. CASE UNCHANGED vars BY <1>1, <1>7 DEF vars
<1>8. QED BY <1>4, <1>5, <1>6, <1>7 DEF Next, UserStep, Answered, Served

\* A new selection, with no chain going on.
LEMMA SelectPage ==
    ASSUME NEW m \in Missions, NEW old, Select({m}, m, old), ~Awaits(Chain)
    PROVE /\ PageInv' /\ guid' = m /\ picked' = {m} /\ loader'
          /\ asked' = (asked \ old) \union {[of |-> "files", at |-> m, option |-> 0],
                                            [of |-> "record", at |-> m, option |-> m]}
<1>1. First({m}) = m BY FirstOfOne, ConstantsAssumption
<1>2. /\ picked' = {m} /\ guid' = m /\ loader' = TRUE
      /\ asked' = (asked \ old) \union {[of |-> "files", at |-> m, option |-> 0],
                                        [of |-> "record", at |-> m, option |-> m]}
  BY <1>1 DEF Select, Replace, Question
<1>3. \A a \in asked' : a.of \in Chain => a = [of |-> "record", at |-> m, option |-> m]
  BY <1>2 DEF Awaits, Chain
<1>4. PickedInv' BY <1>2, <1>3 DEF PickedInv, Chain
<1>5. ChainInv' BY <1>2, <1>3 DEF ChainInv
<1>6. ShownInv' BY <1>2, <1>3 DEF ShownInv, Chain
<1>7. QED BY <1>2, <1>4, <1>5, <1>6 DEF PageInv

\* A step that changes nothing shown and asks nothing of the chain.
LEMMA PageFrame ==
    ASSUME PageInv, UNCHANGED pageVars, \A b \in asked' : b \in asked \/ b.of \notin Chain
    PROVE PageInv'
<1>0. guid' = guid /\ picked' = picked /\ loader' = loader /\ record' = record
      /\ flight' = flight /\ drawn' = drawn
  BY DEF pageVars
<1>1. PickedInv' BY <1>0 DEF PageInv, PickedInv, Chain
<1>2. ChainInv' BY <1>0 DEF PageInv, ChainInv, Chain
<1>3. RecordShown' = RecordShown /\ FlightShown' = FlightShown
  BY <1>0 DEF RecordShown, FlightShown
<1>4. ShownInv' BY <1>0, <1>3 DEF PageInv, ShownInv, Chain
<1>5. QED BY <1>1, <1>2, <1>4 DEF PageInv

\* The page after a click.
LEMMA UserPage ==
    ASSUME TypeOK, PageInv, Single', UserStep
    PROVE PageInv'
<1>1. ASSUME NEW m \in Missions, NEW control \in BOOLEAN, Pick(m, control) PROVE PageInv'
  <2>1. PICK S : Select(S, m, {}) BY <1>1 DEF Pick
  <2>2. S = {m} /\ ~Awaits(Chain) BY <2>1, SelectRecords
  <2>3. QED BY <2>1, <2>2, SelectPage
<1>2. CASE Enter \/ Cancel \/ \E f \in Files : Choose(f) \/ Trash(f) \/ Confirm(f)
  BY <1>2, PageFrame DEF Enter, Cancel, Choose, Trash, Confirm, pageVars, formVars
<1>3. CASE Save \/ Upload
  <2>1. UNCHANGED pageVars /\ \A b \in asked' : b \in asked \/ b.of \in {"save", "upload"}
    BY <1>3 DEF Save, Upload, pageVars, formVars, Replace, Question
  <2>2. QED BY <2>1, PageFrame DEF Chain
<1>4. ASSUME NEW g \in Guid, Open(g) PROVE PageInv'
  <2>1. CASE g = 0
    <3>1. picked' = {} /\ guid' = 0 /\ flight' = 0 /\ loader' = FALSE /\ asked' = {} /\ drawn' = {}
      BY <1>4, <2>1 DEF Open
    <3>2. QED BY <3>1 DEF PageInv, PickedInv, ChainInv, ShownInv, RecordShown, FlightShown
  <2>2. CASE g # 0
    <3>1. /\ picked' = {g} /\ guid' = g /\ loader' = TRUE
          /\ asked' = {Question("files", g), [of |-> "record", at |-> g, option |-> g]}
      BY <1>4, <2>2 DEF Open
    <3>2. \A a \in asked' : a.of \in Chain => a = [of |-> "record", at |-> g, option |-> g]
      BY <3>1 DEF Question, Chain
    <3>3. PickedInv' BY <3>1, <3>2 DEF PickedInv, Chain
    <3>4. ChainInv' BY <3>1, <3>2 DEF ChainInv
    <3>5. ShownInv' BY <3>1, <3>2 DEF ShownInv, Chain
    <3>6. QED BY <3>3, <3>4, <3>5 DEF PageInv
  <2>3. QED BY <2>1, <2>2
<1>5. QED BY <1>1, <1>2, <1>3, <1>4 DEF UserStep

\* The page after an answer.
LEMMA AnswerPage ==
    ASSUME TypeOK, PageInv, Single', NEW a \in asked, Answer(a)
    PROVE PageInv'
<1>0. a \in Ask /\ 0 \notin Missions /\ picked \subseteq Missions BY ConstantsAssumption DEF TypeOK
<1>1. CASE RecordArrives(a)
  <2>1. a.of = "record" /\ loader /\ picked = {a.at} /\ a.option = a.at /\ a.at \in Missions
    BY <1>0, <1>1 DEF RecordArrives, PageInv, PickedInv, ChainInv, Chain
  <2>2. picked' = picked BY <1>1, <2>1 DEF RecordArrives
  <2>3. First(picked') = a.at BY <2>1, <2>2, FirstOfOne, ConstantsAssumption
  <2>4. /\ record' = a.at /\ drawn' = {} /\ guid' = guid /\ loader' = loader /\ flight' = flight
        /\ asked' = (asked \ {a}) \union {[of |-> "flight", at |-> a.at, option |-> 0]}
    BY <1>1, <2>3 DEF RecordArrives, Replace, Question
  <2>5. \A b \in asked' : b.of \in Chain => b = [of |-> "flight", at |-> a.at, option |-> 0]
    BY <2>1, <2>4 DEF PageInv, ChainInv, Chain
  <2>6. PickedInv' BY <2>1, <2>2, <2>4, <2>5 DEF PageInv, PickedInv, Chain
  <2>7. ChainInv' BY <2>1, <2>4, <2>5 DEF ChainInv
  <2>8. RecordShown' BY <2>1, <2>2, <2>4 DEF RecordShown
  <2>9. ShownInv' BY <2>1, <2>4, <2>5, <2>8 DEF ShownInv, Chain
  <2>10. QED BY <2>6, <2>7, <2>9 DEF PageInv
<1>2. ASSUME NEW wind \in BOOLEAN, FlightArrives(a, wind) PROVE PageInv'
  <2>1. a.of = "flight" /\ loader /\ picked = {a.at} /\ RecordShown
    BY <1>0, <1>2 DEF FlightArrives, PageInv, PickedInv, ChainInv, Chain, ShownInv
  <2>2. /\ guid' = a.at /\ flight' = a.at /\ picked' = picked /\ loader' = loader
        /\ record' = record /\ drawn' \subseteq drawn \union {a.at}
        /\ asked' \subseteq (asked \ {a}) \union {[of |-> "place", at |-> a.at, option |-> 0]}
    BY <1>2 DEF FlightArrives, Replace, Question
  <2>3. \A b \in asked' : b.of \in Chain => b = [of |-> "place", at |-> a.at, option |-> 0]
    BY <2>1, <2>2 DEF PageInv, ChainInv, Chain
  <2>4. PickedInv' BY <2>1, <2>2, <2>3 DEF PageInv, PickedInv, Chain
  <2>5. ChainInv' BY <2>1, <2>2, <2>3 DEF ChainInv
  <2>6. RecordShown' /\ FlightShown' BY <2>1, <2>2 DEF RecordShown, FlightShown
  <2>7. ShownInv' BY <2>6 DEF ShownInv
  <2>8. QED BY <2>4, <2>5, <2>7 DEF PageInv
<1>3. CASE FlightUnknown(a)
  <2>1. a.of = "flight" /\ loader /\ picked = {a.at}
    BY <1>0, <1>3 DEF FlightUnknown, PageInv, PickedInv, ChainInv, Chain
  <2>2. guid' = 0 /\ flight' = 0 /\ picked' = picked /\ loader' = loader /\ asked' = asked \ {a}
    BY <1>3 DEF FlightUnknown, Replace
  <2>3. \A b \in asked' : b.of \notin Chain
    BY <2>1, <2>2 DEF PageInv, ChainInv, Chain
  <2>4. PickedInv' BY <2>1, <2>2, <2>3 DEF PageInv, PickedInv, Chain
  <2>5. ChainInv' BY <2>3 DEF ChainInv
  <2>6. ShownInv' BY <2>1, <2>2, <2>3 DEF ShownInv, Chain
  <2>7. QED BY <2>4, <2>5, <2>6 DEF PageInv
<1>4. ASSUME NEW known \in BOOLEAN, PlaceArrives(a, known) PROVE PageInv'
  <2>1. a.of = "place" /\ loader /\ picked = {a.at} /\ RecordShown /\ FlightShown
    BY <1>0, <1>4 DEF PlaceArrives, PageInv, PickedInv, ChainInv, Chain, ShownInv
  <2>2. /\ guid' = guid /\ flight' = flight /\ picked' = picked /\ loader' = loader
        /\ record' = record /\ drawn' \subseteq drawn \union {a.at}
        /\ asked' = (asked \ {a}) \union {[of |-> "hide", at |-> a.at, option |-> 0]}
    BY <1>4 DEF PlaceArrives, Replace, Question
  <2>3. \A b \in asked' : b.of \in Chain => b = [of |-> "hide", at |-> a.at, option |-> 0]
    BY <2>1, <2>2 DEF PageInv, ChainInv, Chain
  <2>4. PickedInv' BY <2>1, <2>2, <2>3 DEF PageInv, PickedInv, Chain
  <2>5. ChainInv' BY <2>1, <2>2, <2>3 DEF ChainInv
  <2>6. RecordShown' /\ FlightShown' BY <2>1, <2>2 DEF RecordShown, FlightShown
  <2>7. ShownInv' BY <2>6 DEF ShownInv
  <2>8. QED BY <2>4, <2>5, <2>7 DEF PageInv
<1>5. CASE Hide(a)
  <2>1. a.of = "hide" /\ loader /\ picked = {a.at} /\ RecordShown /\ FlightShown
    BY <1>0, <1>5 DEF Hide, PageInv, PickedInv, ChainInv, Chain, ShownInv
  <2>2. /\ guid' = guid /\ flight' = flight /\ picked' = picked
        /\ record' = record /\ drawn' = drawn /\ asked' = asked \ {a}
    BY <1>5 DEF Hide, Replace, formVars
  <2>3. \A b \in asked' : b.of \notin Chain
    BY <2>1, <2>2 DEF PageInv, ChainInv, Chain
  <2>4. PickedInv' BY <2>1, <2>2, <2>3 DEF PageInv, PickedInv, Chain
  <2>5. ChainInv' BY <2>3 DEF ChainInv
  <2>6. RecordShown' /\ FlightShown' BY <2>1, <2>2 DEF RecordShown, FlightShown
  <2>7. ShownInv' BY <2>6 DEF ShownInv
  <2>8. QED BY <2>4, <2>5, <2>7 DEF PageInv
<1>6. CASE FilesArrive(a) \/ NoAnswer(a) \/ SaveChecked(a) \/ UploadChecked(a)
  <2>1. UNCHANGED pageVars /\ asked' \subseteq asked
    BY <1>6 DEF FilesArrive, NoAnswer, SaveChecked, UploadChecked, Replace, pageVars, formVars
  <2>2. QED BY <2>1, PageFrame
<1>7. CASE Uploaded(a)
  <2>1. CASE guid = 0
    <3>1. UNCHANGED pageVars /\ asked' \subseteq asked
      BY <1>7, <2>1 DEF Uploaded, Replace, pageVars, formVars
    <3>2. QED BY <3>1, PageFrame
  <2>2. CASE guid # 0
    <3>1. guid \in Missions BY <2>2 DEF TypeOK, Guid
    <3>2. Select(picked \union {guid}, guid, {a}) BY <1>7, <2>2 DEF Uploaded
    <3>3. picked \union {guid} = {guid} /\ ~Awaits(Chain) BY <3>2, SelectRecords
    <3>4. Select({guid}, guid, {a}) BY <3>2, <3>3
    <3>5. QED BY <3>1, <3>3, <3>4, SelectPage
  <2>3. QED BY <2>1, <2>2
<1>8. QED BY <1>1, <1>2, <1>3, <1>4, <1>5, <1>6, <1>7 DEF Answer

\* The page after the server has stored something.
LEMMA ServePage ==
    ASSUME PageInv, NEW w \in writes, Serve(w)
    PROVE PageInv'
<1>1. UNCHANGED pageVars BY DEF Serve, pageVars, formVars
<1>2. \A b \in asked' : b \in asked \/ b.of \notin Chain
  BY DEF Serve, StoreRecord, StoreFiles, DeleteFile, Replace, Question, Chain
<1>3. QED BY <1>1, <1>2, PageFrame

-----------------------------------------------------------------------------
(* What is sent and stored, if nothing is selected while it is checked. *)

\* A step that does not touch the values, the checks or the loader.
LEMMA ToldFrame ==
    ASSUME ToldInv, picked' = picked, values' = values, loader' = loader,
           \A b \in asked' : b \in asked \/ b.of \in {"record", "files", "uploaded"}
    PROVE ToldInv'
BY DEF ToldInv

\* One more check, while the mission in flightGUID is the one picked.
LEMMA ToldCheck ==
    ASSUME PageInv, ToldInv, ~loader, guid # 0, picked' = picked, values' = values,
           loader' = loader, NEW of \in {"save", "upload"},
           asked' = asked \union {[of |-> of, at |-> guid, option |-> 0]}
    PROVE ToldInv'
<1>1. guid \in picked BY DEF PageInv, PickedInv, ShownInv, FlightShown
<1>2. QED BY <1>1 DEF ToldInv

\* After a selection the values wait for the record, and no check is awaited.
LEMMA ToldSelect ==
    ASSUME TypeOK, NEW m \in Missions, NEW old, Select({m}, m, old), Single', ~past.waiting'
    PROVE ToldInv'
<1>1. ~Awaits(Chain) /\ ~Awaits({"save", "upload"}) BY SelectRecords
<1>2. /\ loader'
      /\ asked' = (asked \ old) \union {[of |-> "files", at |-> m, option |-> 0],
                                        [of |-> "record", at |-> m, option |-> m]}
  BY <1>1, SelectPage
<1>3. \A a \in asked' : a.of \notin {"save", "upload", "flight", "place", "hide"}
  BY <1>1, <1>2 DEF Awaits, Chain
<1>4. QED BY <1>2, <1>3 DEF ToldInv

LEMMA UserTold ==
    ASSUME TypeOK, PageInv, ToldInv, Careful', UserStep
    PROVE ToldInv'
<1>1. ASSUME NEW m \in Missions, NEW control \in BOOLEAN, Pick(m, control) PROVE ToldInv'
  <2>1. PICK S : Select(S, m, {}) BY <1>1 DEF Pick
  <2>2. S = {m} BY <2>1, SelectRecords DEF Careful
  <2>3. QED BY <2>1, <2>2, ToldSelect DEF Careful
<1>2. CASE Enter
  <2>1. flight \in picked BY <1>2 DEF Enter, Ready, PageInv, PickedInv, ShownInv, FlightShown
  <2>2. QED BY <1>2, <2>1 DEF Enter, ToldInv
<1>3. CASE Save
  <2>1. asked' = asked \union {[of |-> "save", at |-> guid, option |-> 0]}
    BY <1>3 DEF Save, Replace, Question
  <2>2. QED BY <1>3, <2>1, ToldCheck DEF Save, Ready, formVars
<1>4. CASE Upload
  <2>1. asked' = asked \union {[of |-> "upload", at |-> guid, option |-> 0]}
    BY <1>4 DEF Upload, Replace, Question
  <2>2. QED BY <1>4, <2>1, ToldCheck DEF Upload, Ready, formVars
<1>5. CASE Cancel \/ \E f \in Files : Choose(f) \/ Trash(f) \/ Confirm(f)
  BY <1>5, ToldFrame DEF Cancel, Choose, Trash, Confirm, formVars
<1>6. ASSUME NEW g \in Guid, Open(g) PROVE ToldInv'
  <2>1. values' = 0 /\ \A a \in asked' : a.of \in {"files", "record"}
    BY <1>6 DEF Open, Question
  <2>2. QED BY <2>1 DEF ToldInv
<1>7. QED BY <1>1, <1>2, <1>3, <1>4, <1>5, <1>6 DEF UserStep

LEMMA AnswerTold ==
    ASSUME TypeOK, PageInv, ToldInv, RecordInv, Careful', NEW a \in asked, Answer(a)
    PROVE ToldInv'
<1>0. 0 \notin Missions /\ picked \subseteq Missions BY ConstantsAssumption DEF TypeOK
<1>1. CASE RecordArrives(a)
  <2>1. a.of = "record" /\ loader /\ picked = {a.at} /\ a.option = a.at /\ a.at \in Missions
    BY <1>0, <1>1 DEF RecordArrives, PageInv, PickedInv, ChainInv, Chain
  <2>2. /\ picked' = picked /\ loader' = loader /\ values' = records[a.at]
        /\ \A b \in asked' : b \in asked \/ b.of = "flight"
    BY <1>0, <1>1, <2>1 DEF RecordArrives, Replace, Question
  <2>3. values' \in picked' \union {0} BY <2>1, <2>2 DEF RecordInv
  <2>4. QED BY <2>2, <2>3 DEF ToldInv
<1>2. CASE \/ FlightUnknown(a) \/ \E wind \in BOOLEAN : FlightArrives(a, wind)
           \/ \E known \in BOOLEAN : PlaceArrives(a, known)
  <2>1. /\ a.of \in {"flight", "place"} /\ picked' = picked /\ loader' = loader /\ values' = values
        /\ \A b \in asked' : b \in asked \/ b.of \in {"place", "hide"}
    BY <1>2 DEF FlightUnknown, FlightArrives, PlaceArrives, Replace, Question
  <2>2. a.of = "flight" \/ a.of = "place" BY <2>1
  <2>3. loader BY <2>2 DEF PageInv, ChainInv, Chain
  <2>4. CASE a.of \in {"flight", "place", "hide"}
    <3>1. values \in picked \union {0} BY <2>4 DEF ToldInv
    <3>2. QED BY <2>1, <2>3, <3>1 DEF ToldInv
  <2>5. QED BY <2>2, <2>4
<1>3. CASE Hide(a)
  <2>1. a.of = "hide" /\ picked' = picked /\ values' = values /\ asked' = asked \ {a}
    BY <1>3 DEF Hide, Replace, formVars
  <2>2. loader BY <2>1 DEF PageInv, ChainInv, Chain
  <2>3. values \in picked \union {0} BY <2>1 DEF ToldInv
  <2>4. QED BY <2>1, <2>2, <2>3 DEF ToldInv
<1>4. CASE FilesArrive(a) \/ NoAnswer(a) \/ SaveChecked(a) \/ UploadChecked(a)
  BY <1>4, ToldFrame DEF FilesArrive, NoAnswer, SaveChecked, UploadChecked, Replace, formVars
<1>5. CASE Uploaded(a)
  <2>1. CASE guid = 0 BY <1>5, <2>1, ToldFrame DEF Uploaded, Replace, formVars
  <2>2. CASE guid # 0
    <3>1. guid \in Missions BY <2>2 DEF TypeOK, Guid
    <3>2. Select(picked \union {guid}, guid, {a}) BY <1>5, <2>2 DEF Uploaded
    <3>3. picked \union {guid} = {guid} BY <3>2, SelectRecords DEF Careful
    <3>4. QED BY <3>1, <3>2, <3>3, ToldSelect DEF Careful
  <2>3. QED BY <2>1, <2>2
<1>6. QED BY <1>1, <1>2, <1>3, <1>4, <1>5 DEF Answer

LEMMA ServeTold ==
    ASSUME ToldInv, NEW w \in writes, Serve(w)
    PROVE ToldInv'
<1>1. \A b \in asked' : b \in asked \/ b.of = "uploaded"
  BY DEF Serve, StoreRecord, StoreFiles, DeleteFile, Replace, Question
<1>2. QED BY <1>1, ToldFrame DEF Serve, formVars

\* Opening the page only forgets that it waits for the end of an upload.
LEMMA OpenWrites ==
    ASSUME TypeOK, NEW g, Open(g), NEW v \in writes'
    PROVE \E w \in writes : \/ v = w
                             \/ /\ w.of = "files" /\ v.of = "files" /\ v.at = w.at
                                /\ v.files = w.files
<1>1. PICK w \in writes : v = IF w.of = "files" THEN [w EXCEPT !.page = FALSE] ELSE w
  BY DEF Open
<1>2. w \in Write BY DEF TypeOK
<1>3. CASE w.of = "files"
  <2>1. v = [w EXCEPT !.page = FALSE] BY <1>1, <1>3
  <2>2. v.of = w.of /\ v.at = w.at /\ v.files = w.files BY <1>2, <1>3, <2>1 DEF Write
  <2>3. QED BY <1>3, <2>2
<1>4. CASE w.of # "files" BY <1>1, <1>4
<1>5. QED BY <1>3, <1>4

\* A step that sends and stores no record.
LEMMA RecordFrame ==
    ASSUME RecordInv, records' = records, nameless' = nameless,
           \A w \in writes' : w.of = "record" => w \in writes
    PROVE RecordInv'
BY DEF RecordInv

LEMMA UserRecord ==
    ASSUME TypeOK, RecordInv, UserStep
    PROVE RecordInv'
<1>1. CASE \/ \E m \in Missions, control \in BOOLEAN : Pick(m, control)
           \/ Enter \/ Save \/ Upload \/ Cancel \/ \E f \in Files : Choose(f) \/ Trash(f)
  BY <1>1, RecordFrame DEF Pick, Enter, Save, Upload, Cancel, Choose, Trash, serverVars
<1>2. ASSUME NEW f \in Files, Confirm(f) PROVE RecordInv'
  BY <1>2, RecordFrame DEF Confirm, Send, serverVars
<1>3. ASSUME NEW g \in Guid, Open(g) PROVE RecordInv'
  <2>1. \A w \in writes' : w.of = "record" => w \in writes BY <1>3, OpenWrites
  <2>2. QED BY <1>3, <2>1, RecordFrame DEF Open, serverVars
<1>4. QED BY <1>1, <1>2, <1>3 DEF UserStep

LEMMA AnswerRecord ==
    ASSUME TypeOK, PageInv, ToldInv, RecordInv, NEW a \in asked, Answer(a)
    PROVE RecordInv'
<1>0. records' = records /\ nameless' = nameless BY DEF Answer, serverVars
<1>1. CASE UNCHANGED writes BY <1>0, <1>1, RecordFrame
<1>2. CASE SaveChecked(a)
  <2>1. a.of = "save" /\ a.at \in picked /\ ~loader
    BY <1>2 DEF SaveChecked, ToldInv
  <2>2. guid \in picked /\ picked = {guid} /\ values \in {0, guid} /\ guid # 0
    BY <2>1, ConstantsAssumption DEF PageInv, PickedInv, ShownInv, FlightShown, ToldInv, TypeOK
  <2>3. \A w \in writes' : w.of = "record" => w \in writes \/ (w.at = guid /\ w.values = guid)
    BY <1>2, <2>2 DEF SaveChecked, Send
  <2>4. QED BY <1>0, <2>2, <2>3 DEF RecordInv
<1>3. CASE UploadChecked(a)
  BY <1>0, <1>3, RecordFrame DEF UploadChecked, Send
<1>4. QED BY <1>1, <1>2, <1>3 DEF Answer

LEMMA ServeRecord ==
    ASSUME RecordInv, NEW w \in writes, Serve(w)
    PROVE RecordInv'
<1>0. writes' = writes \ {w} BY DEF Serve
<1>1. CASE StoreRecord(w)
  <2>1. w.at # 0 /\ w.values = w.at BY <1>1 DEF StoreRecord, RecordInv
  <2>2. ~nameless'
    <3>1. ~nameless BY DEF RecordInv
    <3>2. nameless' = (nameless \/ (w.at = 0 /\ w.op = "add")) BY <1>1 DEF StoreRecord
    <3>3. QED BY <2>1, <3>1, <3>2
  <2>3. \A m \in Missions : records'[m] \in {records[m], m} BY <1>1, <2>1 DEF StoreRecord
  <2>4. QED BY <1>0, <2>2, <2>3 DEF RecordInv
<1>2. CASE StoreFiles(w) \/ DeleteFile(w)
  BY <1>0, <1>2, RecordFrame DEF StoreFiles, DeleteFile
<1>3. QED BY <1>1, <1>2 DEF Serve

-----------------------------------------------------------------------------
(* Files, as long as none of one mission is on the page of another. *)

\* What is shown, when no file is newly asked for or answered.
LEMMA FileShownFrame ==
    ASSUME FileShown, urls' = urls, chosen' = chosen, picked' = picked,
           \A a \in asked' : a.of = "files" => a \in asked,
           \A a \in asked : a.of = "files" => a \in asked'
    PROVE FileShown'
BY DEF FileShown, Awaits

\* After a selection the files of the mission are awaited, and no others.
LEMMA FileSelect ==
    ASSUME TypeOK, NEW m \in Missions, NEW old, Select({m}, m, old), Single', ~past.kept',
           \A a \in old : a.of = "uploaded"
    PROVE FileShown'
<1>1. ~Awaits(Chain) /\ ~Awaits({"files"}) BY SelectRecords
<1>2. /\ picked' = {m}
      /\ asked' = (asked \ old) \union {[of |-> "files", at |-> m, option |-> 0],
                                        [of |-> "record", at |-> m, option |-> m]}
  BY <1>1, SelectPage
<1>3. [of |-> "files", at |-> m, option |-> 0] \in asked' BY <1>2
<1>4. Awaits({"files"})'
  <2>1. \E a \in asked' : a.of = "files" BY <1>3
  <2>2. QED BY <2>1 DEF Awaits
<1>5. \A a \in asked' : a.of = "files" => a.at = m BY <1>1, <1>2 DEF Awaits
<1>6. QED BY <1>2, <1>4, <1>5 DEF FileShown

LEMMA UserShown ==
    ASSUME TypeOK, PageInv, FileShown, Single', ~past.kept', UserStep
    PROVE FileShown'
<1>1. ASSUME NEW m \in Missions, NEW control \in BOOLEAN, Pick(m, control) PROVE FileShown'
  <2>1. PICK S : Select(S, m, {}) BY <1>1 DEF Pick
  <2>2. S = {m} BY <2>1, SelectRecords
  <2>3. QED BY <2>1, <2>2, FileSelect
<1>2. CASE Enter \/ Cancel \/ Save \/ Upload \/ \E f \in Files : Trash(f)
  <2>1. /\ urls' = urls /\ chosen' = chosen /\ picked' = picked
        /\ \A a \in asked' : a \in asked \/ a.of \in {"save", "upload"}
        /\ asked \subseteq asked'
    BY <1>2 DEF Enter, Cancel, Save, Upload, Trash, Replace, Question, fileVars
  <2>2. QED BY <2>1, FileShownFrame
<1>3. ASSUME NEW f \in Files, Choose(f) PROVE FileShown'
  <2>1. flight \in picked BY <1>3 DEF Choose, Ready, PageInv, PickedInv, ShownInv, FlightShown
  <2>2. /\ chosen' = [chosen EXCEPT ![f] = flight] /\ urls' = urls /\ picked' = picked
        /\ asked' = asked
    BY <1>3 DEF Choose
  <2>3. \A e \in Files : chosen'[e] \in picked \/ chosen'[e] = chosen[e]
    BY <2>1, <2>2 DEF TypeOK
  <2>4. QED BY <2>2, <2>3 DEF FileShown, Awaits
<1>4. ASSUME NEW f \in Files, Confirm(f) PROVE FileShown'
  <2>1. /\ chosen' = [chosen EXCEPT ![f] = 0] /\ urls' = [urls EXCEPT ![f] = 0]
        /\ picked' = picked /\ asked' = asked
    BY <1>4 DEF Confirm
  <2>2. \A e \in Files : chosen'[e] \in {0, chosen[e]} /\ urls'[e] \in {0, urls[e]}
    BY <2>1 DEF TypeOK
  <2>3. QED BY <2>1, <2>2 DEF FileShown, Awaits
<1>5. ASSUME NEW g \in Guid, Open(g) PROVE FileShown'
  <2>1. /\ chosen' = Blank /\ urls' = Blank
        /\ \A a \in asked' : a.of = "files" => a.at \in picked'
    BY <1>5 DEF Open, Question
  <2>2. QED BY <2>1 DEF FileShown, Blank
<1>6. QED BY <1>1, <1>2, <1>3, <1>4, <1>5 DEF UserStep

\* An answer about files that leaves none of another mission on the page.
LEMMA FilesCome ==
    ASSUME FileShown, NEW a \in asked, a.of = "files", asked' \subseteq asked, picked' = picked,
           \A f \in Files : {urls'[f], chosen'[f]} \subseteq {0, a.at}
    PROVE FileShown'
<1>1. a.at \in picked BY DEF FileShown
<1>2. QED BY <1>1 DEF FileShown

LEMMA AnswerShown ==
    ASSUME TypeOK, PageInv, FileShown, Single', ~past.kept', NEW a \in asked, Answer(a)
    PROVE FileShown'
<1>0. past \in Past BY DEF TypeOK
<1>1. CASE RecordArrives(a)
  <2>1. a.of = "record" /\ picked = {a.at} /\ a.option = a.at
    BY <1>1 DEF RecordArrives, PageInv, PickedInv, Chain
  <2>2. picked' = picked BY <1>1, <2>1 DEF RecordArrives
  <2>3. asked' = (asked \ {a}) \union {[of |-> "flight", at |-> First(picked'), option |-> 0]}
        /\ chosen' = chosen /\ urls' = urls
    BY <1>1 DEF RecordArrives, Replace, Question, fileVars
  <2>4. QED BY <2>1, <2>2, <2>3, FileShownFrame
<1>2. CASE \/ FlightUnknown(a) \/ \E wind \in BOOLEAN : FlightArrives(a, wind)
           \/ \E known \in BOOLEAN : PlaceArrives(a, known)
           \/ Hide(a) \/ SaveChecked(a) \/ UploadChecked(a)
  <2>1. /\ a.of # "files" /\ picked' = picked /\ chosen' = chosen /\ urls' = urls
        /\ \A b \in asked' : b \in asked \/ b.of \in {"place", "hide"}
        /\ asked \ {a} \subseteq asked'
    BY <1>2 DEF FlightUnknown, FlightArrives, PlaceArrives, Hide, SaveChecked, UploadChecked,
                Replace, Question, fileVars
  <2>2. QED BY <2>1, FileShownFrame
<1>3. CASE FilesArrive(a)
  <2>1. a.of = "files" /\ asked' = asked \ {a} /\ picked' = picked
    BY <1>3 DEF FilesArrive, Replace
  <2>2. CASE a.at \notin uploaded
    <3>1. chosen' = Blank /\ urls' = Blank BY <1>3, <2>2 DEF FilesArrive
    <3>2. QED BY <2>1, <3>1, FilesCome DEF Blank
  <2>3. CASE a.at \in uploaded
    <3>1. past.kept' = (past.kept \/ Leftover(a.at)) BY <1>0, <1>3, <2>3 DEF FilesArrive, Past
    <3>2. \A f \in Files : {urls'[f], chosen'[f]} \subseteq {0, a.at} BY <3>1 DEF Leftover
    <3>3. QED BY <2>1, <3>2, FilesCome
  <2>4. QED BY <2>2, <2>3
<1>4. CASE NoAnswer(a)
  <2>1. asked' = asked \ {a} /\ picked' = picked /\ chosen' = chosen /\ urls' = urls
    BY <1>4 DEF NoAnswer, Replace, fileVars
  <2>2. past.kept' = (past.kept \/ (a.of = "files" /\ Leftover(a.at)))
    BY <1>0, <1>4 DEF NoAnswer, Past
  <2>3. CASE a.of = "files"
    <3>1. \A f \in Files : {urls'[f], chosen'[f]} \subseteq {0, a.at} BY <2>2, <2>3 DEF Leftover
    <3>2. QED BY <2>1, <2>3, <3>1, FilesCome
  <2>4. CASE a.of # "files" BY <2>1, <2>4, FileShownFrame
  <2>5. QED BY <2>3, <2>4
<1>5. CASE Uploaded(a)
  <2>0. a.of = "uploaded" BY <1>5 DEF Uploaded
  <2>1. CASE guid = 0
    <3>1. asked' = asked \ {a} /\ picked' = picked /\ chosen' = chosen /\ urls' = urls
      BY <1>5, <2>1 DEF Uploaded, Replace, fileVars
    <3>2. QED BY <2>0, <3>1, FileShownFrame
  <2>2. CASE guid # 0
    <3>1. guid \in Missions BY <2>2 DEF TypeOK, Guid
    <3>2. Select(picked \union {guid}, guid, {a}) BY <1>5, <2>2 DEF Uploaded
    <3>3. picked \union {guid} = {guid} BY <3>2, SelectRecords
    <3>4. QED BY <2>0, <3>1, <3>2, <3>3, FileSelect
  <2>3. QED BY <2>1, <2>2
<1>6. QED BY <1>1, <1>2, <1>3, <1>4, <1>5 DEF Answer

LEMMA ServeShown ==
    ASSUME FileShown, NEW w \in writes, Serve(w)
    PROVE FileShown'
<1>1. /\ chosen' = chosen /\ urls' = urls /\ picked' = picked
      /\ asked \subseteq asked' /\ \A a \in asked' : a \in asked \/ a.of = "uploaded"
  BY DEF Serve, StoreRecord, StoreFiles, DeleteFile, Replace, Question, fileVars
<1>2. QED BY <1>1, FileShownFrame

\* An upload is not checked while the files are awaited.
LEMMA AskedStep ==
    ASSUME TypeOK, FileAsked, Careful', ~past.kept', [Next]_vars
    PROVE FileAsked'
<1>1. ASSUME NEW S, NEW m, NEW old, Select(S, m, old) PROVE FileAsked'
  <2>1. ~Awaits({"save", "upload"}) BY <1>1, SelectRecords DEF Careful
  <2>2. \A a \in asked' : a \in asked \/ a.of \in {"files", "record"}
    BY <1>1 DEF Select, Replace, Question
  <2>3. QED BY <2>1, <2>2 DEF FileAsked, Awaits
<1>2. ASSUME \A a \in asked' : a \in asked \/ a.of \notin {"files", "upload"} PROVE FileAsked'
  BY <1>2 DEF FileAsked, Awaits
<1>3. CASE UserStep
  <2>1. ASSUME NEW m \in Missions, NEW control \in BOOLEAN, Pick(m, control) PROVE FileAsked'
    <3>1. PICK S : Select(S, m, {}) BY <2>1 DEF Pick
    <3>2. QED BY <1>1, <3>1
  <2>2. CASE Upload
    <3>1. past.kept' = (past.kept \/ Awaits({"files"})) BY <2>2 DEF Upload, TypeOK, Past
    <3>2. ~Awaits({"files"}) BY <3>1
    <3>3. asked' = asked \union {[of |-> "upload", at |-> guid, option |-> 0]}
      BY <2>2 DEF Upload, Replace, Question
    <3>4. QED BY <3>2, <3>3 DEF FileAsked, Awaits
  <2>3. CASE Enter \/ Save \/ Cancel \/ \E f \in Files : Choose(f) \/ Trash(f) \/ Confirm(f)
    <3>1. CASE Save BY <1>2, <3>1 DEF Save, Replace, Question
    <3>2. CASE Enter \/ Cancel
      <4>1. asked' = asked BY <3>2 DEF Enter, Cancel
      <4>2. QED BY <4>1 DEF FileAsked, Awaits
    <3>3. ASSUME NEW f \in Files, Choose(f) \/ Trash(f) \/ Confirm(f) PROVE FileAsked'
      <4>1. asked' = asked BY <3>3 DEF Choose, Trash, Confirm
      <4>2. QED BY <4>1 DEF FileAsked, Awaits
    <3>4. QED BY <2>3, <3>1, <3>2, <3>3
  <2>4. ASSUME NEW g \in Guid, Open(g) PROVE FileAsked'
    <3>1. \A a \in asked' : a.of # "upload" BY <2>4 DEF Open, Question
    <3>2. QED BY <3>1 DEF FileAsked, Awaits
  <2>5. QED BY <1>3, <2>1, <2>2, <2>3, <2>4 DEF UserStep
<1>4. ASSUME NEW a \in asked, Answer(a) PROVE FileAsked'
  <2>1. CASE Uploaded(a)
    <3>1. asked' \subseteq asked \/ Select(picked \union {guid}, guid, {a})
      BY <2>1 DEF Uploaded, Replace
    <3>2. QED BY <1>1, <1>2, <3>1
  <2>2. CASE ~Uploaded(a)
    BY <1>2, <1>4, <2>2 DEF Answer, RecordArrives, FlightArrives, FlightUnknown, PlaceArrives,
       Hide, FilesArrive, NoAnswer, SaveChecked, UploadChecked, Replace, Question
  <2>3. QED BY <2>1, <2>2
<1>5. ASSUME NEW w \in writes, Serve(w) PROVE FileAsked'
  BY <1>2, <1>5 DEF Serve, StoreRecord, StoreFiles, DeleteFile, Replace, Question
<1>6. CASE UNCHANGED vars BY <1>2, <1>6 DEF vars
<1>7. QED BY <1>3, <1>4, <1>5, <1>6 DEF Next, UserStep, Answered, Served

LEMMA FileStoredFrame ==
    ASSUME FileStored, stored' = stored, \A w \in writes' : w.of = "files" => w \in writes
    PROVE FileStored'
BY DEF FileStored

LEMMA UserStored ==
    ASSUME TypeOK, FileStored, UserStep
    PROVE FileStored'
<1>1. CASE \/ \E m \in Missions, control \in BOOLEAN : Pick(m, control)
           \/ Enter \/ Save \/ Upload \/ Cancel \/ \E f \in Files : Choose(f) \/ Trash(f)
  BY <1>1, FileStoredFrame DEF Pick, Enter, Save, Upload, Cancel, Choose, Trash, serverVars
<1>2. ASSUME NEW f \in Files, Confirm(f) PROVE FileStored'
  BY <1>2, FileStoredFrame DEF Confirm, Send, serverVars
<1>3. ASSUME NEW g \in Guid, Open(g) PROVE FileStored'
  <2>1. ASSUME NEW v \in writes', v.of = "files"
        PROVE v.at # 0 /\ \A f \in Files : v.files[f] \in {0, v.at}
    <3>1. PICK w \in writes : w.of = "files" /\ v.at = w.at /\ v.files = w.files
      BY <1>3, <2>1, OpenWrites
    <3>2. QED BY <3>1 DEF FileStored
  <2>2. stored' = stored BY <1>3 DEF Open, serverVars
  <2>3. QED BY <2>1, <2>2 DEF FileStored
<1>4. QED BY <1>1, <1>2, <1>3 DEF UserStep

LEMMA AnswerStored ==
    ASSUME TypeOK, PageInv, ToldInv, FileShown, FileAsked, FileStored, NEW a \in asked, Answer(a)
    PROVE FileStored'
<1>0. stored' = stored BY DEF Answer, serverVars
<1>1. CASE UNCHANGED writes BY <1>0, <1>1, FileStoredFrame
<1>2. CASE SaveChecked(a)
  BY <1>0, <1>2, FileStoredFrame DEF SaveChecked, Send
<1>3. CASE UploadChecked(a)
  <2>1. a.of = "upload" BY <1>3 DEF UploadChecked
  <2>2. Awaits({"upload"}) BY <2>1 DEF Awaits
  <2>3. \A f \in Files : chosen[f] \in picked \union {0} BY <2>2 DEF FileShown, FileAsked
  <2>4. a.at \in picked /\ ~loader BY <2>1 DEF ToldInv
  <2>5. guid \in picked /\ picked = {guid} /\ guid # 0
    BY <2>4, ConstantsAssumption DEF PageInv, PickedInv, ShownInv, FlightShown, TypeOK
  <2>6. \A w \in writes' : w \in writes \/ (w.at = guid /\ w.files = chosen)
    BY <1>3 DEF UploadChecked, Send
  <2>7. QED BY <1>0, <2>3, <2>5, <2>6 DEF FileStored
<1>4. QED BY <1>1, <1>2, <1>3 DEF Answer

LEMMA ServeStored ==
    ASSUME TypeOK, FileStored, NEW w \in writes, Serve(w)
    PROVE FileStored'
<1>0. writes' = writes \ {w} /\ w \in Write BY DEF Serve, TypeOK
<1>1. CASE StoreRecord(w)
  BY <1>0, <1>1, FileStoredFrame DEF StoreRecord
<1>2. CASE StoreFiles(w)
  <2>1. w.at \in Guid /\ w.at # 0 /\ \A f \in Files : w.files[f] \in {0, w.at}
    BY <1>0, <1>2 DEF StoreFiles, FileStored, Write
  <2>2. \/ stored' = stored
        \/ stored' = [stored EXCEPT ![w.at] =
              [f \in Files |-> IF w.files[f] # 0 \/ f \in Unregistered
                               THEN w.files[f] ELSE stored[w.at][f]]]
    BY <1>2, <2>1 DEF StoreFiles, TypeOK
  <2>3. ASSUME NEW g \in Guid, NEW f \in Files PROVE stored'[g][f] \in {stored[g][f], 0, g}
    <3> DEFINE kept == [e \in Files |-> IF w.files[e] # 0 \/ e \in Unregistered
                                        THEN w.files[e] ELSE stored[w.at][e]]
    <3>1. DOMAIN stored = Guid BY DEF TypeOK
    <3>2. stored' = stored \/ stored' = [stored EXCEPT ![w.at] = kept] BY <2>2
    <3>3. kept[f] \in {w.files[f], stored[w.at][f]} OBVIOUS
    <3>4. kept[f] \in {0, w.at, stored[w.at][f]} BY <2>1, <3>3
    <3> HIDE DEF kept
    <3>5. stored'[g] = stored[g] \/ (g = w.at /\ stored'[g] = kept) BY <3>1, <3>2
    <3>6. QED BY <3>4, <3>5
  <2>4. QED BY <1>0, <2>3 DEF FileStored
<1>3. CASE DeleteFile(w)
  <2>1. w.at \in Guid /\ w.file \in Files BY <1>0, <1>3 DEF DeleteFile, Write
  <2>2. \A g \in Guid, f \in Files : stored'[g][f] \in {0, stored[g][f]}
    BY <1>3, <2>1 DEF DeleteFile, TypeOK
  <2>3. QED BY <1>0, <2>2 DEF FileStored
<1>4. QED BY <1>1, <1>2, <1>3 DEF Serve

-----------------------------------------------------------------------------
(* The invariant, and what follows from it. *)

LEMMA InitForm == Init => FormInv
<1> SUFFICES ASSUME Init PROVE FormInv OBVIOUS
<1>1. TypeOK BY InitTyped
<1>2. picked = {} /\ asked = {} /\ writes = {} /\ guid = 0 /\ flight = 0 /\ ~loader
      /\ values = 0 /\ drawn = {} /\ chosen = Blank /\ urls = Blank
  BY DEF Init
<1>3. PageInv
  BY <1>2 DEF PageInv, PickedInv, ChainInv, ShownInv, RecordShown, FlightShown
<1>4. ToldInv BY <1>2 DEF ToldInv
<1>5. RecordInv BY DEF Init, RecordInv
<1>6. FileShown /\ FileAsked BY <1>2 DEF FileShown, FileAsked, Awaits, Blank
<1>7. FileStored
  <2>1. \A g \in Guid, f \in Files : stored[g][f] \in {0, g} BY DEF Init
  <2>2. QED BY <1>2, <2>1 DEF FileStored
<1>8. QED BY <1>1, <1>3, <1>4, <1>5, <1>6, <1>7 DEF FormInv

LEMMA StepForm == FormInv /\ [Next]_vars => FormInv'
<1> SUFFICES ASSUME FormInv, [Next]_vars PROVE FormInv' OBVIOUS
<1>0. TypeOK /\ TypeOK' BY StepTyped DEF FormInv
<1>1. Single' => Single /\ PageInv BY <1>0, PastStays DEF FormInv
<1>2. Careful' => Careful /\ ToldInv /\ RecordInv /\ PageInv
  <2>1. past.waiting' = past'.waiting OBVIOUS
  <2>2. Careful' => Single' /\ ~past.waiting' BY DEF Careful
  <2>3. Careful' => Careful BY <1>0, <2>1, <2>2, PastStays DEF Careful
  <2>4. QED BY <2>3 DEF FormInv, Careful
<1>3. ~past.kept' => ~past.kept BY <1>0, PastStays
<1>4. CASE UNCHANGED vars
  <2>1. /\ UNCHANGED <<guid, picked, loader, record, flight, drawn, values, urls, chosen>>
        /\ UNCHANGED <<asked, writes, records, nameless, stored, past>>
    BY <1>4 DEF vars, formVars, fileVars, serverVars
  <2>2. Single' = Single /\ Careful' = Careful BY <2>1 DEF Careful, Single
  <2>3. PageInv => PageInv' BY <2>1, PageFrame DEF pageVars
  <2>4. ToldInv => ToldInv' BY <2>1, ToldFrame
  <2>5. RecordInv => RecordInv' BY <2>1, RecordFrame
  <2>6. FileShown => FileShown' BY <2>1, FileShownFrame
  <2>7. FileAsked => FileAsked' BY <2>1 DEF FileAsked, Awaits
  <2>8. FileStored => FileStored' BY <2>1, FileStoredFrame
  <2>9. QED BY <1>0, <2>1, <2>2, <2>3, <2>4, <2>5, <2>6, <2>7, <2>8 DEF FormInv
<1>5. ASSUME Single' PROVE PageInv'
  BY <1>0, <1>1, <1>4, <1>5, UserPage, AnswerPage, ServePage, PageFrame
     DEF Next, UserStep, Answered, Served, vars, formVars, pageVars
<1>6. ASSUME Careful' PROVE ToldInv' /\ RecordInv'
  <2>1. CASE UserStep BY <1>0, <1>2, <1>6, <2>1, UserTold, UserRecord
  <2>2. ASSUME NEW a \in asked, Answer(a) PROVE ToldInv' /\ RecordInv'
    BY <1>0, <1>2, <1>6, <2>2, AnswerTold, AnswerRecord
  <2>3. ASSUME NEW w \in writes, Serve(w) PROVE ToldInv' /\ RecordInv'
    BY <1>2, <1>6, <2>3, ServeTold, ServeRecord
  <2>4. CASE UNCHANGED vars
    BY <1>2, <1>6, <2>4, ToldFrame, RecordFrame DEF vars, formVars, serverVars
  <2>5. QED BY <2>1, <2>2, <2>3, <2>4 DEF Next, UserStep, Answered, Served
<1>7. ASSUME Single', ~past.kept' PROVE FileShown'
  <2>1. FileShown BY <1>1, <1>3, <1>7 DEF FormInv
  <2>2. CASE UserStep BY <1>0, <1>1, <1>7, <2>1, <2>2, UserShown
  <2>3. ASSUME NEW a \in asked, Answer(a) PROVE FileShown'
    BY <1>0, <1>1, <1>7, <2>1, <2>3, AnswerShown
  <2>4. ASSUME NEW w \in writes, Serve(w) PROVE FileShown'
    BY <2>1, <2>4, ServeShown
  <2>5. CASE UNCHANGED vars BY <2>1, <2>5, FileShownFrame DEF vars, fileVars
  <2>6. QED BY <2>2, <2>3, <2>4, <2>5 DEF Next, UserStep, Answered, Served
<1>8. ASSUME Careful', ~past.kept' PROVE FileAsked' /\ FileStored'
  <2>1. FileAsked /\ FileStored /\ FileShown BY <1>2, <1>3, <1>8 DEF FormInv, Careful
  <2>2. FileAsked' BY <1>0, <1>8, <2>1, AskedStep
  <2>3. CASE UserStep BY <1>0, <2>1, <2>2, <2>3, UserStored
  <2>4. ASSUME NEW a \in asked, Answer(a) PROVE FileStored'
    BY <1>0, <1>2, <1>8, <2>1, <2>4, AnswerStored
  <2>5. ASSUME NEW w \in writes, Serve(w) PROVE FileStored'
    BY <1>0, <2>1, <2>5, ServeStored
  <2>6. CASE UNCHANGED vars
    BY <2>1, <2>2, <2>6, FileStoredFrame DEF vars, serverVars
  <2>7. QED BY <2>2, <2>3, <2>4, <2>5, <2>6 DEF Next, UserStep, Answered, Served
<1>9. QED BY <1>0, <1>5, <1>6, <1>7, <1>8 DEF FormInv

LEMMA FormCorrect == Spec => []FormInv
<1>1. Init => FormInv BY InitForm
<1>2. FormInv /\ [Next]_vars => FormInv' BY StepForm
<1>3. QED BY <1>1, <1>2, PTL DEF Spec

\* Whenever the loader is gone and the page names a mission, its record, its
\* flight and its maps are of that mission, though saves, uploads and files of
\* another may be awaited; its values too, if no other was selected during a
\* check, and its files, if their answer is in and none of another stayed.
THEOREM OneMissionSafe == Spec => []OneMission
<1>1. FormInv => OneMission
  <2> SUFFICES ASSUME FormInv, Single, ~loader, guid # 0
               PROVE /\ picked = {guid} /\ record = guid /\ flight = guid
                     /\ drawn \subseteq {guid}
                     /\ past.waiting \/ values \in {0, guid}
                     /\ \/ past.kept \/ Awaits({"files"})
                        \/ \A f \in Files : {urls[f], chosen[f]} \subseteq {0, guid}
    BY DEF OneMission
  <2>1. PickedInv /\ RecordShown /\ FlightShown BY DEF FormInv, PageInv, ShownInv
  <2>2. picked = {guid}
    <3>1. picked # {} BY <2>1 DEF PickedInv
    <3>2. QED BY <2>1, <3>1 DEF PickedInv, FlightShown
  <2>3. ~past.waiting => values \in {0, guid}
    BY <2>2 DEF FormInv, Careful, ToldInv
  <2>4. ~past.kept /\ ~Awaits({"files"})
           => \A f \in Files : {urls[f], chosen[f]} \subseteq {0, guid}
    BY <2>2 DEF FormInv, FileShown
  <2>5. QED BY <2>1, <2>2, <2>3, <2>4 DEF RecordShown, FlightShown
<1>2. QED BY <1>1, FormCorrect, PTL

\* No order of answers writes the values of one mission to the record of
\* another, if none is selected while a save is checked.
THEOREM RecordsSafe == Spec => []RecordsAreTheirOwn
<1>1. FormInv => RecordsAreTheirOwn BY DEF FormInv, RecordInv, RecordsAreTheirOwn
<1>2. QED BY <1>1, FormCorrect, PTL

\* Nor does the file of one mission reach another, if none of an earlier one
\* stayed on the page.
THEOREM FilesSafe == Spec => []FilesAreTheirOwn
<1>1. FormInv => FilesAreTheirOwn BY DEF FormInv, FileStored, FilesAreTheirOwn, Guid
<1>2. QED BY <1>1, FormCorrect, PTL

=============================================================================
