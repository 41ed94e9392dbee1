----------------------------- MODULE ResourceList -----------------------------
(***************************************************************************)
(* What refreshing the list of harvestable resources promises: while a     *)
(* refresh runs it may add what it found on the remote service and forget  *)
(* only what it did not find; between refreshes only a person forgets a    *)
(* resource.  HarvestRegistry implements this as long as a refresh is not  *)
(* started before the previous one has closed.                             *)
(***************************************************************************)
CONSTANT Ids

VARIABLES
    running, \* a refresh is under way
    known,   \* the list: identifiers with a row
    found    \* what the refresh under way has found so far

vars == <<running, known, found>>

TypeOK == running \in BOOLEAN /\ known \subseteq Ids /\ found \subseteq known

Init == running = FALSE /\ known = {} /\ found = {}

Begin == ~running /\ running' = TRUE /\ found' = {} /\ UNCHANGED known

Find(i) ==
    /\ running
    /\ known' = known \cup {i}
    /\ found' = found \cup {i}
    /\ UNCHANGED running

Forget(i) ==
    /\ running
    /\ i \in known \ found
    /\ known' = known \ {i}
    /\ UNCHANGED <<running, found>>

End == running /\ running' = FALSE /\ found' = {} /\ UNCHANGED known

Next == Begin \/ End \/ \E i \in Ids : Find(i) \/ Forget(i)

Spec == Init /\ [][Next]_vars
=============================================================================
