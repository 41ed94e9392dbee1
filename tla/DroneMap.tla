------------------------------- MODULE DroneMap --------------------------------
(***************************************************************************)
(* The GeoViz map page, geoviz_main.js: a map with one marker per dataset, *)
(* the table that lists the datasets in view, the charts that count them,  *)
(* the panel of one dataset with its image and ML overlays, and the popup  *)
(* that tells what the ML overlay shows at a place.                        *)
(*                                                                         *)
(* Every handler runs to its end before the next one starts; what is left  *)
(* for later is a timer (a circle drawn where a dataset was located) or an *)
(* answer of the server (the lists, a feature, the label of its class),    *)
(* and these come in any order, or fail.  A map extent is the set of       *)
(* datasets in it.  updateDataTable destroys the table and builds a new    *)
(* one; the handlers it adds stay on the page, so a double click is        *)
(* answered once for every table built so far.                             *)
(***************************************************************************)
EXTENDS Naturals, FiniteSets

CONSTANTS
    Datasets,    \* what /api/droneViz/layerlist returns
    HasMl,       \* the datasets with an ML result
    Habitat,     \* those whose theme is Habitat: their ML overlay has classes
    Filters,     \* what a theme or a date range leaves of the list
    Extents,     \* map extents and drawn shapes, as the datasets in them
    Places,      \* where the map is clicked
    None,        \* no dataset, no popup
    MaxHandlers, \* bound: tables built, told apart
    MaxTimers,   \* bound: circles still to be drawn
    MaxAsked     \* bound: answers awaited of each kind

Spot == [layer : Datasets, at : Places]
Popup == [of : Spot, label : Spot \union {None}]

ASSUME ConstantsAssumption ==
    /\ HasMl \subseteq Datasets /\ Habitat \subseteq Datasets
    /\ Filters \subseteq SUBSET Datasets /\ Extents \subseteq SUBSET Datasets
    /\ None \notin Datasets \union Spot \union Popup
    /\ MaxHandlers \in Nat \ {0} /\ MaxTimers \in Nat /\ MaxAsked \in Nat

VARIABLES
    loaded,    \* the lists: "waiting", "loaded" or "failed"; dataGNmain
    listed,    \* droneDataTable, and the markers of markersAll
    view,      \* map.getBounds()
    rows,      \* the rows of dataTB
    selected,  \* its selected rows
    blank,     \* the table shows a page that does not exist
    handlers,  \* tables built, up to MaxHandlers; 0: dataTB is null
    locked,    \* ~dynamicTableUpdateFlag
    lit,       \* the eraser is highlighted
    charts,    \* the datasets the charts count
    drawing,   \* a shape is being drawn
    sketch,    \* editableLayers and selectedItemgrouoLayer: is a shape drawn
    circled,   \* the circle circleMarker refers to is on the map
    stray,     \* a circle circleMarker does not refer to is on the map
    timers,    \* circles still to be drawn
    panel,     \* the dataset of the panel
    overlay,   \* the image overlay on the map
    mlLayer,   \* the layer name of GN_Overlay_ml_layer
    mlShown,   \* GN_Overlay_ml_layer is on the map
    mlChecked, \* #switchMlResults
    popup,     \* the feature popup: what it tells of, and its class label
    features,  \* features asked for
    labels,    \* class labels asked for
    hurried,   \* history: a circle was asked for while one was to be drawn
    raced      \* history: the popup opened while a label was awaited

tableVars == <<listed, view, rows, selected, blank, handlers, charts>>
lockVars == <<locked, lit>>
drawVars == <<drawing, sketch>>
circleVars == <<circled, stray, timers, hurried>>
layerVars == <<panel, overlay, mlLayer, mlShown, mlChecked>>
askVars == <<popup, features, labels, raced>>
vars == <<loaded, tableVars, lockVars, drawVars, circleVars, layerVars, askVars>>

TypeOK ==
    /\ loaded \in {"waiting", "loaded", "failed"}
    /\ listed \in SUBSET Datasets /\ view \in SUBSET Datasets
    /\ rows \in SUBSET Datasets /\ selected \in SUBSET rows
    /\ handlers \in 0..MaxHandlers
    /\ charts \in SUBSET Datasets
    /\ {blank, locked, lit, drawing, sketch} \subseteq BOOLEAN
    /\ {circled, stray, hurried, mlShown, mlChecked, raced} \subseteq BOOLEAN
    /\ timers \in 0..MaxTimers
    /\ {panel, overlay, mlLayer} \subseteq Datasets \union {None}
    /\ popup \in Popup \union {None}
    /\ features \in SUBSET Spot /\ labels \in SUBSET Spot

Init ==
    /\ loaded = "waiting" /\ listed = {} /\ view \in Extents
    /\ rows = {} /\ selected = {} /\ blank = FALSE /\ handlers = 0 /\ charts = {}
    /\ locked = FALSE /\ lit = FALSE /\ drawing = FALSE /\ sketch = FALSE
    /\ circled = FALSE /\ stray = FALSE /\ timers = 0 /\ hurried = FALSE
    /\ panel = None /\ overlay = None /\ mlLayer = None /\ mlShown = FALSE /\ mlChecked = FALSE
    /\ popup = None /\ features = {} /\ labels = {} /\ raced = FALSE

-----------------------------------------------------------------------------
(* What the handlers are made of. *)

\* Mutant: the rows selected in the old table are thought selected in the new.
M_Build(S) ==
    /\ rows' = S /\ blank' = FALSE /\ UNCHANGED selected
    /\ handlers' = IF handlers < MaxHandlers THEN handlers + 1 ELSE handlers

\* updateDataTable: a new table, nothing selected, one more set of handlers.
Build(S) ==
    /\ rows' = S /\ selected' = {} /\ blank' = FALSE
    /\ handlers' = IF handlers < MaxHandlers THEN handlers + 1 ELSE handlers

\* Mutant: the charts are left as they were.
M_Fill(S) == listed' = S /\ Build(S) /\ UNCHANGED <<charts, view>>

\* markerFunctionForGN: markers, table and charts for what is left of the list.
Fill(S) == listed' = S /\ Build(S) /\ charts' = S /\ UNCHANGED view

Lock == locked' = TRUE /\ lit' = TRUE
Unlock == locked' = FALSE /\ lit' = FALSE

\* Mutant: the circle that is on the map is left there.
M_Locate(n) ==
    /\ timers + n <= MaxTimers
    /\ hurried' = (hurried \/ timers + n > 1)
    /\ timers' = timers + n /\ UNCHANGED <<circled, stray>>

\* n calls of locateDroneonMap: the circle goes now, the new one comes later.
Locate(n) ==
    /\ timers + n <= MaxTimers
    /\ hurried' = (hurried \/ timers + n > 1)
    /\ timers' = timers + n /\ circled' = FALSE /\ UNCHANGED stray

\* Mutant: the ML overlay of the dataset shown before stays on the map.
M_SetPanel(d) == panel' = d /\ mlChecked' = FALSE /\ UNCHANGED <<overlay, mlLayer, mlShown>>

\* modelparaSetting
SetPanel(d) ==
    /\ panel' = d /\ mlChecked' = FALSE /\ mlShown' = FALSE
    /\ UNCHANGED <<overlay, mlLayer>>

\* The eraser's handler.  Without a table it fails at dataTB.rows().
EraseAll ==
    /\ sketch' = FALSE
    /\ IF handlers = 0
       THEN UNCHANGED <<tableVars, lockVars, circleVars, layerVars>>
       ELSE /\ selected' = {} /\ circled' = FALSE /\ overlay' = None
            /\ mlChecked' = FALSE /\ mlShown' = FALSE /\ Unlock
            /\ UNCHANGED <<listed, view, rows, blank, handlers, charts, stray, timers,
                           hurried, panel, mlLayer>>

\* Mutant: the charts are never told the rows of the new table.
M_UpdateTable(b, held) ==
    /\ charts' = {}
    /\ IF held THEN UNCHANGED <<rows, selected, blank, handlers>> ELSE Build(listed \intersect b)
    /\ Unlock

\* updateTableMap for the datasets within bounds b.
UpdateTable(b, held) ==
    /\ IF held THEN charts' = {} /\ UNCHANGED <<rows, selected, blank, handlers>>
               ELSE charts' = listed \intersect b /\ Build(listed \intersect b)
    /\ Unlock

-----------------------------------------------------------------------------
(* Lists and filters. *)

Load ==
    /\ loaded = "waiting" /\ loaded' = "loaded" /\ Fill(Datasets)
    /\ UNCHANGED <<lockVars, drawVars, circleVars, layerVars, askVars>>

LoadFails ==
    /\ loaded = "waiting" /\ loaded' = "failed"
    /\ UNCHANGED <<tableVars, lockVars, drawVars, circleVars, layerVars, askVars>>

\* Before the list is there, [...dataGNmain] fails and nothing happens.
FilterTable(S) ==
    /\ loaded = "loaded" /\ Fill(S)
    /\ UNCHANGED <<loaded, lockVars, drawVars, circleVars, layerVars, askVars>>

-----------------------------------------------------------------------------
(* The table. *)

Toggle(d) == selected' = IF d \in selected THEN selected \ {d} ELSE selected \union {d}

ClickRow(d) ==
    /\ d \in rows /\ ~blank /\ Toggle(d) /\ Lock
    /\ UNCHANGED <<loaded, listed, view, rows, blank, handlers, charts, drawVars,
                   circleVars, layerVars, askVars>>

\* The second column: also a click on its row.
ClickInfo(d) ==
    /\ d \in rows /\ ~blank /\ Toggle(d) /\ Lock /\ SetPanel(d)
    /\ UNCHANGED <<loaded, listed, view, rows, blank, handlers, charts, drawVars,
                   circleVars, askVars>>

\* Two clicks on the row, then the handler of every table built so far.
DoubleClickRow(d) ==
    /\ d \in rows /\ ~blank /\ Lock /\ Locate(handlers)
    /\ UNCHANGED <<loaded, tableVars, drawVars, layerVars, askVars>>

\* Paging, sorting and searching bring back a page that exists.
TurnPage ==
    /\ blank /\ blank' = FALSE
    /\ UNCHANGED <<loaded, listed, view, rows, selected, handlers, charts, lockVars,
                   drawVars, circleVars, layerVars, askVars>>

-----------------------------------------------------------------------------
(* The map. *)

\* The marker's handler, then that of the group: a dataset that is not in the
\* table has no row to select and no page to show.
ClickMarker(d) ==
    /\ d \in listed \intersect view
    /\ Locate(1) /\ Lock
    /\ selected' = {d} \intersect rows
    /\ blank' = (d \notin rows /\ rows # {})
    /\ popup' = None
    /\ UNCHANGED <<loaded, listed, view, rows, handlers, charts, drawVars, layerVars,
                   features, labels, raced>>

\* zoomend: zooming out unlocks the table.
Held(out) == locked /\ ~out

\* moveend, after the map was zoomed or dragged.
MoveMap(v, out) ==
    /\ view' = v /\ UpdateTable(v, Held(out))
    /\ UNCHANGED <<loaded, listed, drawVars, circleVars, layerVars, askVars>>

StartDrawing ==
    /\ ~drawing /\ drawing' = TRUE /\ EraseAll
    /\ UNCHANGED <<loaded, askVars>>

\* draw:created selects the rows inside and locks the table, then
\* update_graph_toc_on_drawCreated unlocks it and builds it anew.
\* Without a table it fails at dataTB.rows().
FinishDrawing(b) ==
    /\ drawing /\ drawing' = FALSE /\ sketch' = TRUE
    /\ IF handlers = 0 THEN UNCHANGED <<tableVars, lockVars>>
       ELSE UpdateTable(b, FALSE) /\ UNCHANGED <<listed, view>>
    /\ UNCHANGED <<loaded, circleVars, layerVars, askVars>>

\* The eraser, or the escape key, which also ends a drawing.
Erase(escape) ==
    /\ EraseAll /\ drawing' = (drawing /\ ~escape)
    /\ UNCHANGED <<loaded, askVars>>

DrawCircle ==
    /\ timers > 0 /\ timers' = timers - 1
    /\ stray' = (stray \/ circled) /\ circled' = TRUE
    /\ UNCHANGED <<loaded, tableVars, lockVars, drawVars, layerVars, askVars, hurried>>

-----------------------------------------------------------------------------
(* The panel. *)

ClickOverlay ==
    /\ panel # None /\ overlay' = panel
    /\ UNCHANGED <<loaded, tableVars, lockVars, drawVars, circleVars, panel, mlLayer,
                   mlShown, mlChecked, askVars>>

SwitchMl ==
    /\ panel \in HasMl /\ mlChecked' = ~mlChecked /\ mlShown' = ~mlChecked
    /\ IF mlChecked THEN UNCHANGED <<mlLayer, lit>> ELSE mlLayer' = panel /\ lit' = TRUE
    /\ UNCHANGED <<loaded, tableVars, locked, drawVars, circleVars, panel, overlay, askVars>>

ClickLocate ==
    /\ panel # None /\ Locate(1)
    /\ UNCHANGED <<loaded, tableVars, lockVars, drawVars, layerVars, askVars>>

ClickClear ==
    /\ panel # None /\ overlay' = None /\ circled' = FALSE
    /\ UNCHANGED <<loaded, tableVars, lockVars, drawVars, stray, timers, hurried, panel,
                   mlLayer, mlShown, mlChecked, askVars>>

-----------------------------------------------------------------------------
(* What the ML overlay shows at a place. *)

\* A click on the map removes the circle, closes the popup and asks for the
\* feature of the ML layer.
ClickMap(p) ==
    /\ ~drawing /\ circled' = FALSE /\ popup' = None
    /\ IF mlLayer # None /\ mlChecked
       THEN /\ Cardinality(features) < MaxAsked
            /\ features' = features \union {[layer |-> mlLayer, at |-> p]}
       ELSE UNCHANGED features
    /\ UNCHANGED <<loaded, tableVars, lockVars, drawVars, stray, timers, hurried,
                   layerVars, labels, raced>>

\* No feature there, or no answer.
NoFeature(s) ==
    /\ s \in features /\ features' = features \ {s}
    /\ UNCHANGED <<loaded, tableVars, lockVars, drawVars, circleVars, layerVars,
                   popup, labels, raced>>

\* Mutant: a popup that is open is left open.
M_ShowFeature(s, classed) ==
    /\ s \in features /\ features' = features \ {s}
    /\ popup' = IF popup # None THEN popup ELSE [of |-> s, label |-> None]
    /\ raced' = (labels # {})
    /\ IF classed /\ s.layer \in Habitat
       THEN Cardinality(labels) < MaxAsked /\ labels' = labels \union {s}
       ELSE UNCHANGED labels
    /\ UNCHANGED <<loaded, tableVars, lockVars, drawVars, circleVars, layerVars>>

\* A popup for the feature; a class number is sent off for its label.
ShowFeature(s, classed) ==
    /\ s \in features /\ features' = features \ {s}
    /\ popup' = [of |-> s, label |-> None]
    /\ raced' = (labels # {})
    /\ IF classed /\ s.layer \in Habitat
       THEN Cardinality(labels) < MaxAsked /\ labels' = labels \union {s}
       ELSE UNCHANGED labels
    /\ UNCHANGED <<loaded, tableVars, lockVars, drawVars, circleVars, layerVars>>

\* The label is written in whatever class popup is open.
ShowLabel(s) ==
    /\ s \in labels /\ labels' = labels \ {s}
    /\ popup' = IF popup # None /\ popup.of.layer \in Habitat
                THEN [popup EXCEPT !.label = s] ELSE popup
    /\ UNCHANGED <<loaded, tableVars, lockVars, drawVars, circleVars, layerVars,
                   features, raced>>

NoLabel(s) ==
    /\ s \in labels /\ labels' = labels \ {s}
    /\ UNCHANGED <<loaded, tableVars, lockVars, drawVars, circleVars, layerVars,
                   popup, features, raced>>

ClosePopup ==
    /\ popup # None /\ popup' = None
    /\ UNCHANGED <<loaded, tableVars, lockVars, drawVars, circleVars, layerVars,
                   features, labels, raced>>

-----------------------------------------------------------------------------
Next ==
    \/ Load \/ LoadFails \/ \E S \in Filters : FilterTable(S)
    \/ \E d \in Datasets : ClickRow(d) \/ ClickInfo(d) \/ DoubleClickRow(d) \/ ClickMarker(d)
    \/ TurnPage
    \/ \E v \in Extents, out \in BOOLEAN : MoveMap(v, out)
    \/ StartDrawing \/ \E b \in Extents : FinishDrawing(b)
    \/ \E escape \in BOOLEAN : Erase(escape)
    \/ DrawCircle
    \/ ClickOverlay \/ SwitchMl \/ ClickLocate \/ ClickClear
    \/ \E p \in Places : ClickMap(p)
    \/ \E s \in Spot : NoFeature(s) \/ ShowLabel(s) \/ NoLabel(s)
    \/ \E s \in Spot, classed \in BOOLEAN : ShowFeature(s, classed)
    \/ ClosePopup

Spec == Init /\ [][Next]_vars

-----------------------------------------------------------------------------
\* The ML overlay is on the map exactly while its switch is on, and it is that
\* of the dataset in the panel: erasing, choosing another dataset and switching
\* never leave the classes of one dataset under the name of another.
SwitchTellsOverlay ==
    /\ mlShown = mlChecked
    /\ mlShown => mlLayer = panel /\ panel \in HasMl

\* The charts count the datasets the table lists, or none at all.
ChartsCountTable == rows \subseteq listed /\ charts \in {rows, {}}

\* The charts stop counting the table only in a move of a locked map, which
\* keeps the table as the user left it.
ChartsLeaveByLockedMove ==
    [][charts' # rows' => charts # rows \/ (locked /\ ~locked' /\ rows' = rows)]_vars

\* A circle that the eraser cannot reach takes two requests for a circle of
\* which the second came before the first was drawn.
StrayNeedsHurry == stray => hurried

\* The class label in a popup is that of its feature, unless the popup opened
\* while the label of an earlier one was awaited.
LabelOfItsPopup ==
    popup # None /\ ~raced => popup.label \in {None, popup.of}
=============================================================================
