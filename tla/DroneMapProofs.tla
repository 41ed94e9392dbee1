---------------------------- MODULE DroneMapProofs -----------------------------
(***************************************************************************)
(* What holds of the map page for any list of datasets, any extents and    *)
(* any bounds.  The two facts that are not inductive alone are completed:  *)
(* a stray circle by what the timers are while nobody hurried, the label   *)
(* of a popup by whose labels are awaited.                                 *)
(***************************************************************************)
EXTENDS DroneMap, TLAPS

\* While nobody hurried, at most one circle is to be drawn, and then none is
\* on the map.
CirclesInOrder ==
    ~hurried => ~stray /\ timers <= 1 /\ (timers = 1 => ~circled)

\* Only the label of the popup's own feature is awaited.
LabelsInOrder ==
    popup # None /\ ~raced => labels \subseteq {popup.of}

Inv == /\ TypeOK /\ SwitchTellsOverlay /\ ChartsCountTable
       /\ CirclesInOrder /\ LabelsInOrder /\ LabelOfItsPopup

USE DEF tableVars, lockVars, drawVars, circleVars, layerVars, askVars, vars

-----------------------------------------------------------------------------
(* Each conjunct of the invariant depends on a few of the variables. *)

TableTypes ==
    /\ loaded \in {"waiting", "loaded", "failed"}
    /\ listed \in SUBSET Datasets /\ view \in SUBSET Datasets
    /\ rows \in SUBSET Datasets /\ selected \in SUBSET rows
    /\ charts \in SUBSET Datasets
    /\ handlers \in 0..MaxHandlers

FlagTypes ==
    /\ blank \in BOOLEAN /\ locked \in BOOLEAN /\ lit \in BOOLEAN
    /\ drawing \in BOOLEAN /\ sketch \in BOOLEAN /\ circled \in BOOLEAN
    /\ stray \in BOOLEAN /\ hurried \in BOOLEAN /\ mlShown \in BOOLEAN
    /\ mlChecked \in BOOLEAN /\ raced \in BOOLEAN

LayerTypes == {panel, overlay, mlLayer} \subseteq Datasets \union {None}

AskTypes ==
    /\ popup \in Popup \union {None}
    /\ features \in SUBSET Spot /\ labels \in SUBSET Spot

LEMMA TypeParts ==
    TypeOK <=> TableTypes /\ FlagTypes /\ LayerTypes /\ AskTypes /\ timers \in 0..MaxTimers
  BY Zenon DEF TypeOK, TableTypes, FlagTypes, LayerTypes, AskTypes

\* The assumption without what it says of None.
LEMMA Bounds ==
    /\ HasMl \subseteq Datasets /\ Filters \subseteq SUBSET Datasets
    /\ Extents \subseteq SUBSET Datasets
    /\ MaxHandlers \in Nat /\ MaxTimers \in Nat
    /\ 0 \in 0..MaxHandlers /\ 0 \in 0..MaxTimers
    /\ \A i \in 0..MaxHandlers : i \in Nat /\ (i < MaxHandlers => i + 1 \in 0..MaxHandlers)
  <1>1. /\ HasMl \subseteq Datasets /\ Filters \subseteq SUBSET Datasets
        /\ Extents \subseteq SUBSET Datasets
        /\ MaxHandlers \in Nat /\ MaxTimers \in Nat
    BY ConstantsAssumption, Zenon
  <1> HIDE ConstantsAssumption
  <1> QED
    BY <1>1

LEMMA InitInv == Init => Inv
  <1> SUFFICES ASSUME Init PROVE Inv
    OBVIOUS
  <1>1. TableTypes /\ ChartsCountTable
    BY Bounds, Zenon DEF Init, TableTypes, ChartsCountTable
  <1>2. timers \in 0..MaxTimers /\ timers <= 1 /\ timers # 1
    BY Bounds DEF Init
  <1>3. FlagTypes /\ SwitchTellsOverlay
    BY Zenon DEF Init, FlagTypes, SwitchTellsOverlay
  <1>4. CirclesInOrder
    BY <1>2, Zenon DEF Init, CirclesInOrder
  <1>5. LayerTypes
    BY DEF Init, LayerTypes
  <1>6. AskTypes /\ LabelsInOrder /\ LabelOfItsPopup
    BY DEF Init, AskTypes, LabelsInOrder, LabelOfItsPopup
  <1> QED
    BY <1>1, <1>2, <1>3, <1>4, <1>5, <1>6, TypeParts, Zenon DEF Inv

LEMMA TableStep ==
  ASSUME Inv, [Next]_vars
  PROVE  TableTypes' /\ ChartsCountTable'
  <1> USE DEF TableTypes, ChartsCountTable
  <1>0. TableTypes /\ ChartsCountTable
    BY TypeParts, Zenon DEF Inv
  <1>1. ASSUME NEW S \in SUBSET Datasets, Build(S)
        PROVE  rows' = S /\ selected' = {} /\ handlers' \in 0..MaxHandlers
    BY <1>0, <1>1, Bounds DEF Build
  <1>2. ASSUME NEW S \in SUBSET Datasets, Fill(S), loaded' \in {"loaded"}
        PROVE  TableTypes' /\ ChartsCountTable'
    <2>1. listed' = S /\ Build(S) /\ charts' = S /\ view' = view
      BY <1>2 DEF Fill
    <2> QED
      BY <1>0, <1>1, <1>2, <2>1
  <1>3. CASE Load \/ \E S \in Filters : FilterTable(S)
    <2>1. PICK S \in SUBSET Datasets : Fill(S) /\ loaded' = "loaded"
      BY <1>3, Bounds DEF Load, FilterTable
    <2> QED
      BY <1>2, <2>1
  <1>4. CASE LoadFails
    BY <1>0, <1>4 DEF LoadFails
  <1>5. ASSUME NEW b \in SUBSET Datasets, NEW held, UpdateTable(b, held),
               loaded' = loaded, listed' = listed, view' \in SUBSET Datasets
        PROVE  TableTypes' /\ ChartsCountTable'
    <2>1. CASE charts' = {} /\ UNCHANGED <<rows, selected, blank, handlers>>
      BY <1>0, <1>5, <2>1
    <2>2. CASE charts' = listed \intersect b /\ Build(listed \intersect b)
      <3>1. listed \intersect b \in SUBSET Datasets
        BY <1>0
      <3> QED
        BY <1>0, <1>1, <1>5, <2>2, <3>1
    <2> QED
      BY <1>5, <2>1, <2>2 DEF UpdateTable
  <1>6. ASSUME NEW d \in Datasets, ClickRow(d) \/ ClickInfo(d) \/ DoubleClickRow(d)
        PROVE  TableTypes' /\ ChartsCountTable'
    BY <1>0, <1>6 DEF ClickRow, ClickInfo, DoubleClickRow, Toggle
  <1>7. ASSUME NEW d \in Datasets, ClickMarker(d)
        PROVE  TableTypes' /\ ChartsCountTable'
    BY <1>0, <1>7 DEF ClickMarker
  <1>8. ASSUME NEW v \in Extents, NEW out \in BOOLEAN, MoveMap(v, out)
        PROVE  TableTypes' /\ ChartsCountTable'
    <2>1. v \in SUBSET Datasets
      BY Bounds
    <2>2. UpdateTable(v, Held(out)) /\ view' = v /\ loaded' = loaded /\ listed' = listed
      BY <1>8 DEF MoveMap
    <2> QED
      BY <1>5, <2>1, <2>2
  <1>9. ASSUME NEW b \in Extents, FinishDrawing(b)
        PROVE  TableTypes' /\ ChartsCountTable'
    <2>1. b \in SUBSET Datasets /\ view \in SUBSET Datasets
      BY <1>0, Bounds
    <2>2. CASE UpdateTable(b, FALSE) /\ UNCHANGED <<listed, view, loaded>>
      BY <1>5, <2>1, <2>2
    <2>3. CASE UNCHANGED <<tableVars, loaded>>
      BY <1>0, <2>3
    <2> QED
      BY <1>9, <2>2, <2>3 DEF FinishDrawing
  <1>10. CASE StartDrawing \/ \E escape \in BOOLEAN : Erase(escape)
    <2>1. UNCHANGED <<loaded, listed, view, rows, handlers, charts>> /\ selected' \in {selected, {}}
      BY <1>10 DEF StartDrawing, Erase, EraseAll
    <2> QED
      BY <1>0, <2>1
  <1>11. CASE \/ TurnPage \/ DrawCircle \/ ClickOverlay \/ SwitchMl \/ ClickLocate
              \/ ClickClear \/ ClosePopup \/ (\E p \in Places : ClickMap(p)) \/ UNCHANGED vars
    BY <1>0, <1>11 DEF TurnPage, DrawCircle, ClickOverlay, SwitchMl, ClickLocate, ClickClear,
       ClosePopup, ClickMap
  <1>12. CASE \/ \E s \in Spot : NoFeature(s) \/ ShowLabel(s) \/ NoLabel(s)
              \/ \E s \in Spot, classed \in BOOLEAN : ShowFeature(s, classed)
    <2>1. UNCHANGED <<loaded, tableVars>>
      BY <1>12, Zenon DEF NoFeature, ShowLabel, NoLabel, ShowFeature
    <2> QED
      BY <1>0, <2>1
  <1> QED
    BY <1>3, <1>4, <1>6, <1>7, <1>8, <1>9, <1>10, <1>11, <1>12, Zenon DEF Next

LEMMA FlagStep ==
  ASSUME Inv, [Next]_vars
  PROVE  FlagTypes'
  <1> USE DEF FlagTypes
  <1>0. FlagTypes
    BY TypeParts, Zenon DEF Inv
  <1>1. ASSUME NEW n, Locate(n)
        PROVE  hurried' \in BOOLEAN /\ circled' \in BOOLEAN /\ stray' \in BOOLEAN
    BY <1>0, <1>1, Zenon DEF Locate
  <1>2. ASSUME NEW S, Build(S) PROVE blank' \in BOOLEAN
    BY <1>2, Zenon DEF Build
  <1>3. ASSUME NEW b, NEW held, UpdateTable(b, held)
        PROVE  blank' \in BOOLEAN /\ locked' \in BOOLEAN /\ lit' \in BOOLEAN
    <2>1. Build(listed \intersect b) => blank' \in BOOLEAN
      BY <1>2, Zenon
    <2>2. Build(listed \intersect b) \/ blank' = blank
      BY <1>3, Zenon DEF UpdateTable
    <2> QED
      BY <1>0, <1>3, <2>1, <2>2, Zenon DEF UpdateTable, Unlock
  <1>4. ASSUME EraseAll
        PROVE  /\ sketch' \in BOOLEAN /\ blank' \in BOOLEAN /\ locked' \in BOOLEAN
               /\ lit' \in BOOLEAN /\ circled' \in BOOLEAN /\ stray' \in BOOLEAN
               /\ hurried' \in BOOLEAN /\ mlShown' \in BOOLEAN /\ mlChecked' \in BOOLEAN
    BY <1>0, <1>4, Zenon DEF EraseAll, Unlock
  <1>5. CASE Load \/ LoadFails \/ \E S \in Filters : FilterTable(S)
    <2>1. blank' = blank \/ \E S : Build(S)
      BY <1>5, Zenon DEF Load, LoadFails, FilterTable, Fill
    <2>2. blank' \in BOOLEAN
      BY <1>0, <1>2, <2>1, Zenon
    <2>3. UNCHANGED <<lockVars, drawVars, circleVars, layerVars, raced>>
      BY <1>5, Zenon DEF Load, LoadFails, FilterTable
    <2> QED
      BY <1>0, <2>2, <2>3, Zenon
  <1>6. ASSUME NEW d \in Datasets, ClickRow(d) \/ ClickInfo(d)
        PROVE  FlagTypes'
    BY <1>0, <1>6, Zenon DEF ClickRow, ClickInfo, Lock, SetPanel
  <1>7. ASSUME NEW d \in Datasets, DoubleClickRow(d) \/ ClickMarker(d)
        PROVE  FlagTypes'
    BY <1>0, <1>1, <1>7, Zenon DEF DoubleClickRow, ClickMarker, Lock
  <1>8. ASSUME NEW v \in Extents, NEW out \in BOOLEAN, MoveMap(v, out)
        PROVE  FlagTypes'
    BY <1>0, <1>3, <1>8, Zenon DEF MoveMap
  <1>9. ASSUME NEW b \in Extents, FinishDrawing(b)
        PROVE  FlagTypes'
    BY <1>0, <1>3, <1>9, Zenon DEF FinishDrawing
  <1>10. CASE StartDrawing \/ \E escape \in BOOLEAN : Erase(escape)
    BY <1>0, <1>4, <1>10, Zenon DEF StartDrawing, Erase
  <1>11. CASE DrawCircle \/ ClickLocate
    BY <1>0, <1>1, <1>11, Zenon DEF DrawCircle, ClickLocate
  <1>12. CASE \/ TurnPage \/ ClickOverlay \/ ClickClear \/ ClosePopup \/ UNCHANGED vars
    <2>1. /\ UNCHANGED <<lockVars, drawVars, stray, hurried, mlShown, mlChecked, raced>>
          /\ blank' = blank \/ blank' = FALSE
          /\ circled' = circled \/ circled' = FALSE
      BY <1>12, Zenon DEF TurnPage, ClickOverlay, ClickClear, ClosePopup
    <2> QED
      BY <1>0, <2>1, Zenon
  <1>14. CASE SwitchMl
    <2>1. /\ UNCHANGED <<blank, locked, drawVars, circleVars, raced>>
          /\ lit' = lit \/ lit' = TRUE
      BY <1>14, Zenon DEF SwitchMl
    <2>2. mlShown' \in BOOLEAN /\ mlChecked' \in BOOLEAN
      BY <1>14, Zenon DEF SwitchMl
    <2> QED
      BY <1>0, <2>1, <2>2, Zenon
  <1>15. ASSUME NEW p \in Places, ClickMap(p)
         PROVE  FlagTypes'
    <2>1. /\ UNCHANGED <<blank, lockVars, drawVars, stray, hurried, mlShown, mlChecked, raced>>
          /\ circled' = FALSE
      BY <1>15, Zenon DEF ClickMap
    <2> QED
      BY <1>0, <2>1, Zenon
  <1>13. CASE \/ \E s \in Spot : NoFeature(s) \/ ShowLabel(s) \/ NoLabel(s)
              \/ \E s \in Spot, classed \in BOOLEAN : ShowFeature(s, classed)
    <2>1. UNCHANGED <<blank, lockVars, drawVars, circleVars, mlShown, mlChecked>>
      BY <1>13, Zenon DEF NoFeature, ShowLabel, NoLabel, ShowFeature
    <2>2. raced' = raced \/ raced' = (labels # {})
      BY <1>13, Zenon DEF NoFeature, ShowLabel, NoLabel, ShowFeature
    <2>3. raced' \in BOOLEAN
      BY <1>0, <2>2, Zenon
    <2> QED
      BY <1>0, <2>1, <2>3, Zenon
  <1> QED
    BY <1>5, <1>6, <1>7, <1>8, <1>9, <1>10, <1>11, <1>12, <1>13, <1>14, <1>15, Zenon DEF Next

LEMMA CircleStep ==
  ASSUME Inv, [Next]_vars
  PROVE  timers' \in 0..MaxTimers /\ CirclesInOrder'
  <1>0. /\ timers \in 0..MaxTimers /\ handlers \in 0..MaxHandlers /\ CirclesInOrder
        /\ stray \in BOOLEAN /\ hurried \in BOOLEAN /\ circled \in BOOLEAN
    BY TypeParts, Zenon DEF Inv, TableTypes, FlagTypes
  <1>1. ASSUME NEW n \in Nat, Locate(n)
        PROVE  timers' \in 0..MaxTimers /\ CirclesInOrder'
    <2>1. timers' \in 0..MaxTimers /\ (~(timers + n > 1) => timers' <= 1 /\ timers <= 1)
      BY <1>0, <1>1, Bounds DEF Locate
    <2>2. CASE timers + n > 1
      BY <1>1, <2>1, <2>2, Zenon DEF Locate, CirclesInOrder
    <2>3. CASE ~(timers + n > 1)
      BY <1>0, <1>1, <2>1, <2>3, Zenon DEF Locate, CirclesInOrder
    <2> QED
      BY <2>2, <2>3
  <1>2. CASE DrawCircle
    <2>1. timers' \in 0..MaxTimers /\ (timers <= 1 => timers = 1 /\ timers' <= 1 /\ timers' # 1)
      BY <1>0, <1>2, Bounds DEF DrawCircle
    <2> QED
      BY <1>0, <1>2, <2>1, Zenon DEF DrawCircle, CirclesInOrder
  <1>3. ASSUME UNCHANGED <<stray, timers, hurried>>, circled' \in {circled, FALSE}
        PROVE  timers' \in 0..MaxTimers /\ CirclesInOrder'
    <2>1. circled' => circled
      BY <1>0, <1>3, Zenon
    <2> QED
      BY <1>0, <1>3, <2>1, Zenon DEF CirclesInOrder
  <1>4. ASSUME NEW d \in Datasets, ClickRow(d) \/ ClickInfo(d) \/ DoubleClickRow(d) \/ ClickMarker(d)
        PROVE  timers' \in 0..MaxTimers /\ CirclesInOrder'
    <2>1. handlers \in Nat /\ 1 \in Nat
      BY <1>0, Bounds
    <2>2. (\E n \in Nat : Locate(n)) \/ UNCHANGED circleVars
      BY <1>4, <2>1, Zenon DEF ClickRow, ClickInfo, DoubleClickRow, ClickMarker
    <2> QED
      BY <1>1, <1>3, <2>2, Zenon
  <1>5. CASE ClickLocate
    BY <1>1, <1>5 DEF ClickLocate
  <1>6. CASE \/ Load \/ LoadFails \/ (\E S \in Filters : FilterTable(S)) \/ TurnPage
             \/ (\E v \in Extents, out \in BOOLEAN : MoveMap(v, out))
             \/ (\E b \in Extents : FinishDrawing(b)) \/ ClickOverlay \/ SwitchMl \/ ClosePopup
             \/ (\E s \in Spot : NoFeature(s) \/ ShowLabel(s) \/ NoLabel(s))
             \/ (\E s \in Spot, classed \in BOOLEAN : ShowFeature(s, classed)) \/ UNCHANGED vars
    <2>1. UNCHANGED circleVars
      BY <1>6, Zenon DEF Load, LoadFails, FilterTable, TurnPage, MoveMap, FinishDrawing,
         ClickOverlay, SwitchMl, ClosePopup, NoFeature, ShowLabel, NoLabel, ShowFeature
    <2> QED
      BY <1>3, <2>1, Zenon
  <1>7. CASE \/ StartDrawing \/ (\E escape \in BOOLEAN : Erase(escape)) \/ ClickClear
             \/ (\E p \in Places : ClickMap(p))
    <2>1. UNCHANGED <<stray, timers, hurried>> /\ circled' \in {circled, FALSE}
      BY <1>7, Zenon DEF StartDrawing, Erase, EraseAll, ClickClear, ClickMap
    <2> QED
      BY <1>3, <2>1
  <1> QED
    BY <1>1, <1>2, <1>4, <1>5, <1>6, <1>7, Zenon DEF Next

LEMMA LayerStep ==
  ASSUME Inv, [Next]_vars
  PROVE  LayerTypes' /\ SwitchTellsOverlay'
  <1>0. LayerTypes /\ SwitchTellsOverlay /\ mlChecked \in BOOLEAN /\ mlShown \in BOOLEAN
    BY TypeParts, Zenon DEF Inv, FlagTypes
  <1>1. ASSUME UNCHANGED layerVars
        PROVE  LayerTypes' /\ SwitchTellsOverlay'
    <2>1. LayerTypes'
      BY <1>0, <1>1 DEF LayerTypes
    <2> QED
      BY <1>0, <1>1, <2>1, Zenon DEF SwitchTellsOverlay
  <1>2. ASSUME mlShown' = FALSE, mlChecked' = FALSE, mlLayer' = mlLayer,
               panel' \in Datasets \union {panel}, overlay' \in {overlay, None}
        PROVE  LayerTypes' /\ SwitchTellsOverlay'
    <2>1. LayerTypes'
      BY <1>0, <1>2 DEF LayerTypes
    <2> QED
      BY <1>2, <2>1, Zenon DEF SwitchTellsOverlay
  <1>3. ASSUME NEW d \in Datasets, ClickInfo(d)
        PROVE  LayerTypes' /\ SwitchTellsOverlay'
    BY <1>2, <1>3 DEF ClickInfo, SetPanel
  <1>4. CASE StartDrawing \/ \E escape \in BOOLEAN : Erase(escape)
    <2>1. EraseAll
      BY <1>4, Zenon DEF StartDrawing, Erase
    <2>2. \/ UNCHANGED layerVars
          \/ /\ mlShown' = FALSE /\ mlChecked' = FALSE /\ mlLayer' = mlLayer
             /\ panel' = panel /\ overlay' = None
      BY <2>1, Zenon DEF EraseAll
    <2> QED
      BY <1>1, <1>2, <2>2
  <1>5. CASE ClickOverlay \/ ClickClear
    <2>1. /\ overlay' \in {panel, None} /\ panel' = panel /\ mlLayer' = mlLayer
          /\ mlShown' = mlShown /\ mlChecked' = mlChecked
      BY <1>5, Zenon DEF ClickOverlay, ClickClear
    <2>2. LayerTypes'
      BY <1>0, <2>1 DEF LayerTypes
    <2> QED
      BY <1>0, <2>1, <2>2, Zenon DEF SwitchTellsOverlay
  <1>6. CASE SwitchMl
    <2>1. /\ panel' = panel /\ overlay' = overlay /\ mlLayer' \in {mlLayer, panel}
          /\ (~mlChecked => mlLayer' = panel)
      BY <1>6, Zenon DEF SwitchMl
    <2>2. LayerTypes'
      BY <1>0, <2>1 DEF LayerTypes
    <2> QED
      BY <1>0, <1>6, <2>1, <2>2, Zenon DEF SwitchTellsOverlay, SwitchMl
  <1>7. ASSUME NEW d \in Datasets, ClickRow(d) \/ DoubleClickRow(d) \/ ClickMarker(d)
        PROVE  LayerTypes' /\ SwitchTellsOverlay'
    <2>1. UNCHANGED layerVars
      BY <1>7, Zenon DEF ClickRow, DoubleClickRow, ClickMarker
    <2> QED
      BY <1>1, <2>1
  <1>8. CASE \/ Load \/ LoadFails \/ (\E S \in Filters : FilterTable(S)) \/ TurnPage
             \/ (\E v \in Extents, out \in BOOLEAN : MoveMap(v, out))
             \/ (\E b \in Extents : FinishDrawing(b)) \/ DrawCircle \/ ClickLocate \/ ClosePopup
             \/ (\E p \in Places : ClickMap(p))
             \/ (\E s \in Spot : NoFeature(s) \/ ShowLabel(s) \/ NoLabel(s))
             \/ (\E s \in Spot, classed \in BOOLEAN : ShowFeature(s, classed)) \/ UNCHANGED vars
    <2>1. UNCHANGED layerVars
      BY <1>8, Zenon DEF Load, LoadFails, FilterTable, TurnPage, MoveMap, FinishDrawing, DrawCircle,
         ClickLocate, ClosePopup, ClickMap, NoFeature, ShowLabel, NoLabel, ShowFeature
    <2> QED
      BY <1>1, <2>1
  <1> QED
    BY <1>3, <1>4, <1>5, <1>6, <1>7, <1>8, Zenon DEF Next
LEMMA AskStep ==
  ASSUME Inv, [Next]_vars
  PROVE  AskTypes' /\ LabelsInOrder' /\ LabelOfItsPopup'
  <1> USE DEF LabelsInOrder, LabelOfItsPopup
  <1>0. AskTypes /\ LabelsInOrder /\ LabelOfItsPopup
    BY TypeParts, Zenon DEF Inv
  <1>1. None \notin Popup /\ None \notin Spot
    BY ConstantsAssumption, Zenon
  <1>2. ASSUME popup' \in {popup, None}, features' \in SUBSET Spot,
               labels' \in SUBSET labels, raced' = raced
        PROVE  AskTypes' /\ LabelsInOrder' /\ LabelOfItsPopup'
    BY <1>0, <1>2 DEF AskTypes
  <1>3. ASSUME NEW s \in Spot, NoFeature(s) \/ NoLabel(s)
        PROVE  AskTypes' /\ LabelsInOrder' /\ LabelOfItsPopup'
    BY <1>0, <1>2, <1>3 DEF NoFeature, NoLabel, AskTypes
  <1>4. ASSUME NEW p \in Places, ClickMap(p)
        PROVE  AskTypes' /\ LabelsInOrder' /\ LabelOfItsPopup'
    <2>1. mlLayer \in Datasets \union {None}
      BY TypeParts DEF Inv, LayerTypes
    <2>2. mlLayer # None => [layer |-> mlLayer, at |-> p] \in Spot
      BY <2>1 DEF Spot
    <2>3. features' \in SUBSET Spot
      BY <1>0, <1>4, <2>2 DEF ClickMap, AskTypes
    <2> QED
      BY <1>0, <1>2, <1>4, <2>3 DEF ClickMap
  <1>5. ASSUME NEW s \in Spot, NEW classed \in BOOLEAN, ShowFeature(s, classed)
        PROVE  AskTypes' /\ LabelsInOrder' /\ LabelOfItsPopup'
    <2>1. popup' = [of |-> s, label |-> None] /\ popup' \in Popup
      BY <1>5 DEF ShowFeature, Popup
    <2>2. features' \in SUBSET Spot /\ labels' \in SUBSET Spot /\ labels' \subseteq labels \union {s}
      BY <1>0, <1>5 DEF ShowFeature, AskTypes
    <2>3. ~raced' => labels = {}
      BY <1>5, Zenon DEF ShowFeature
    <2>4. popup'.of = s /\ popup'.label = None
      BY <2>1
    <2> QED
      BY <2>1, <2>2, <2>3, <2>4 DEF AskTypes
  <1>6. ASSUME NEW s \in Spot, ShowLabel(s)
        PROVE  AskTypes' /\ LabelsInOrder' /\ LabelOfItsPopup'
    <2>1. /\ labels' \in SUBSET labels /\ s \in labels
          /\ features' = features /\ raced' = raced
      BY <1>6 DEF ShowLabel
    <2>2. CASE popup' = popup
      BY <1>0, <1>2, <2>1, <2>2 DEF AskTypes
    <2>3. CASE popup # None /\ popup' = [popup EXCEPT !.label = s]
      <3>1. popup \in Popup
        BY <1>0, <2>3, Zenon DEF AskTypes
      <3>2. PICK o \in Spot, l \in Spot \union {None} : popup = [of |-> o, label |-> l]
        BY <3>1 DEF Popup
      <3>3. popup' = [of |-> o, label |-> s] /\ popup' \in Popup
        BY <2>3, <3>2 DEF Popup
      <3>4. popup'.of = popup.of /\ popup'.label = s
        BY <3>2, <3>3
      <3>5. ~raced => s = popup.of /\ labels \subseteq {popup.of}
        BY <1>0, <2>1, <2>3
      <3> QED
        BY <1>0, <2>1, <3>3, <3>4, <3>5 DEF AskTypes
    <2> QED
      BY <1>6, <2>2, <2>3, Zenon DEF ShowLabel
  <1>7. CASE ClosePopup
    BY <1>0, <1>2, <1>7 DEF ClosePopup, AskTypes
  <1>8. ASSUME NEW d \in Datasets, ClickRow(d) \/ ClickInfo(d) \/ DoubleClickRow(d) \/ ClickMarker(d)
        PROVE  AskTypes' /\ LabelsInOrder' /\ LabelOfItsPopup'
    <2>1. (popup' = popup \/ popup' = None) /\ UNCHANGED <<features, labels, raced>>
      BY <1>8, Zenon DEF ClickRow, ClickInfo, DoubleClickRow, ClickMarker
    <2> QED
      BY <1>0, <1>2, <2>1 DEF AskTypes
  <1>9. CASE \/ Load \/ LoadFails \/ (\E S \in Filters : FilterTable(S)) \/ TurnPage
             \/ (\E v \in Extents, out \in BOOLEAN : MoveMap(v, out))
             \/ (\E b \in Extents : FinishDrawing(b)) \/ StartDrawing
             \/ (\E escape \in BOOLEAN : Erase(escape)) \/ DrawCircle \/ ClickOverlay
             \/ SwitchMl \/ ClickLocate \/ ClickClear \/ UNCHANGED vars
    <2>1. UNCHANGED askVars
      BY <1>9, Zenon DEF Load, LoadFails, FilterTable, TurnPage, MoveMap, FinishDrawing,
         StartDrawing, Erase, DrawCircle, ClickOverlay, SwitchMl, ClickLocate, ClickClear
    <2> QED
      BY <1>0, <1>2, <2>1 DEF AskTypes
  <1> QED
    BY <1>3, <1>4, <1>5, <1>6, <1>7, <1>8, <1>9, Zenon DEF Next

LEMMA Invariance == Spec => []Inv
  <1>1. Inv /\ [Next]_vars => Inv'
    <2> SUFFICES ASSUME Inv, [Next]_vars PROVE Inv'
      OBVIOUS
    <2>1. TableTypes' /\ ChartsCountTable' /\ FlagTypes'
      BY TableStep, FlagStep
    <2>2. timers' \in 0..MaxTimers /\ CirclesInOrder'
      BY CircleStep
    <2>3. LayerTypes' /\ SwitchTellsOverlay' /\ AskTypes' /\ LabelsInOrder' /\ LabelOfItsPopup'
      BY LayerStep, AskStep
    <2>4. TypeOK'
      BY <2>1, <2>2, <2>3, Zenon DEF TypeOK, TableTypes, FlagTypes, LayerTypes, AskTypes
    <2> QED
      BY <2>1, <2>2, <2>3, <2>4, Zenon DEF Inv
  <1> QED
    BY InitInv, <1>1, PTL DEF Spec

-----------------------------------------------------------------------------
\* The page's variables keep their types, and only rows of the table are ever
\* selected (geoviz_main.js, every handler).
THEOREM TypeCorrect == Spec => []TypeOK
  BY Invariance, PTL DEF Inv

\* The ML overlay on the map is that of the panel's dataset, and the switch
\* says so (modelparaSetting, #switchMlResults, the eraser).
THEOREM OverlaySafe == Spec => []SwitchTellsOverlay
  BY Invariance, PTL DEF Inv

\* The charts count the rows of the table or nothing (updateMapStateInfo).
THEOREM ChartsSafe == Spec => []ChartsCountTable
  BY Invariance, PTL DEF Inv

\* No circle is left out of the eraser's reach unless one was asked for while
\* another was still to be drawn (locateDroneonMap).
THEOREM CirclesSafe == Spec => []StrayNeedsHurry
  <1>1. Inv => StrayNeedsHurry
    BY Zenon DEF Inv, CirclesInOrder, StrayNeedsHurry
  <1> QED
    BY <1>1, Invariance, PTL

\* A popup shows the class of its own feature unless it opened while another
\* label was awaited (return_ml_classfication_label).
THEOREM LabelsSafe == Spec => []LabelOfItsPopup
  BY Invariance, PTL DEF Inv

\* Only a move of a locked map makes the charts leave the table (updateTableMap).
THEOREM ChartsLeave == Spec => ChartsLeaveByLockedMove
  <1> DEFINE Leave == charts' # rows' => charts # rows \/ (locked /\ ~locked' /\ rows' = rows)
  <1>1. Inv /\ [Next]_vars => [Leave]_vars
    <2> SUFFICES ASSUME Inv, Next PROVE Leave
      BY Zenon
    <2>1. ASSUME NEW b, NEW held, UpdateTable(b, held), held => locked
          PROVE  Leave
      BY <2>1, Zenon DEF UpdateTable, Build, Unlock
    <2>2. CASE Load \/ LoadFails \/ \E S \in Filters : FilterTable(S)
      <3>1. ASSUME NEW S, Fill(S) PROVE charts' = rows'
        BY <3>1, Zenon DEF Fill, Build
      <3>2. (\E S : Fill(S)) \/ UNCHANGED tableVars
        BY <2>2, Zenon DEF Load, LoadFails, FilterTable
      <3> QED
        BY <3>1, <3>2, Zenon
    <2>3. ASSUME NEW d \in Datasets, ClickRow(d) \/ ClickInfo(d) \/ DoubleClickRow(d) \/ ClickMarker(d)
          PROVE  Leave
      BY <2>3, Zenon DEF ClickRow, ClickInfo, DoubleClickRow, ClickMarker
    <2>4. ASSUME NEW v \in Extents, NEW out \in BOOLEAN, MoveMap(v, out)
          PROVE  Leave
      <3>1. UpdateTable(v, Held(out))
        BY <2>4, Zenon DEF MoveMap
      <3>2. Held(out) => locked
        BY Zenon DEF Held
      <3> HIDE DEF Leave
      <3> QED
        BY <2>1, <3>1, <3>2, Zenon
    <2>5. ASSUME NEW b \in Extents, FinishDrawing(b)
          PROVE  Leave
      <3>1. UpdateTable(b, FALSE) \/ UNCHANGED tableVars
        BY <2>5, Zenon DEF FinishDrawing
      <3>2. CASE UNCHANGED tableVars
        BY <3>2, Zenon
      <3> HIDE DEF Leave
      <3> QED
        BY <2>1, <3>1, <3>2, Zenon
    <2>6. CASE StartDrawing \/ \E escape \in BOOLEAN : Erase(escape)
      BY <2>6, Zenon DEF StartDrawing, Erase, EraseAll
    <2>7. CASE \/ TurnPage \/ DrawCircle \/ ClickOverlay \/ SwitchMl \/ ClickLocate \/ ClickClear
               \/ (\E p \in Places : ClickMap(p)) \/ ClosePopup
               \/ (\E s \in Spot : NoFeature(s) \/ ShowLabel(s) \/ NoLabel(s))
               \/ (\E s \in Spot, classed \in BOOLEAN : ShowFeature(s, classed))
      <3>1. rows' = rows /\ charts' = charts
        BY <2>7, Zenon DEF TurnPage, DrawCircle, ClickOverlay, SwitchMl, ClickLocate, ClickClear,
           ClickMap, ClosePopup, NoFeature, ShowLabel, NoLabel, ShowFeature
      <3> QED
        BY <3>1, Zenon
    <2> QED
      BY <2>2, <2>3, <2>4, <2>5, <2>6, <2>7, Zenon DEF Next
  <1> QED
    BY <1>1, Invariance, PTL DEF Spec, ChartsLeaveByLockedMove
=============================================================================
