-------------------------- MODULE DatasetReplaceProofs --------------------------
(***************************************************************************)
(* What DatasetReplace keeps for any names, drops, uploads and faults.     *)
(***************************************************************************)
EXTENDS DatasetReplace, CommonLemmas

\* Parts of the type invariant.
ListType == infos \in [Ids -> Info] /\ layers \subseteq {i \in Ids : infos[i].main # 0}
            /\ seen \subseteq Names
DropType == drops \in Versions
FlagType == mixed \in BOOLEAN /\ hurried \in BOOLEAN
SendType == clicks \in 0..MaxClicks /\ chains \in [Chains -> SUBSET Ids]
RequestType == requests \in [Sends -> Request]
ServerType == row \in Row /\ data \in Files /\ told \in Files
FaultType == late \in 0..MaxFaults /\ failed \in 0..MaxFaults

LEMMA TypeParts ==
    TypeOK <=> ListType /\ DropType /\ FlagType /\ SendType /\ RequestType
               /\ ServerType /\ FaultType
BY Zenon DEF TypeOK, ListType, DropType, FlagType, SendType, RequestType,
             ServerType, FaultType

LEMMA TypePartsNext ==
    TypeOK' <=> ListType' /\ DropType' /\ FlagType' /\ SendType' /\ RequestType'
                /\ ServerType' /\ FaultType'
BY Zenon DEF TypeOK, ListType, DropType, FlagType, SendType, RequestType,
             ServerType, FaultType

-----------------------------------------------------------------------------
\* The first of some layers is one of them.
LEMMA FirstIsOne ==
    ASSUME NEW S \in SUBSET Ids, S # {}
    PROVE First(S) \in S
<1>1. S \subseteq Nat BY DEF Ids
<1>2. \E m \in S : \A n \in S : m <= n BY <1>1, MinExists
<1>3. QED BY <1>2 DEF First

\* The newest of some versions is one of them, or there is none.
LEMMA NewestIsOne ==
    ASSUME NEW S \in SUBSET Versions
    PROVE Newest(S) \in S \union {0}
<1>1. CASE S = {} BY <1>1 DEF Newest
<1>2. CASE S # {}
  <2>1. MaxDrops \in Nat /\ S \subseteq 0..MaxDrops BY ConstantsAssumption DEF Versions
  <2>2. \E m \in S : \A n \in S : n <= m BY <1>2, <2>1, MaxExists
  <2>3. QED BY <1>2, <2>2 DEF Newest
<1>3. QED BY <1>1, <1>2

\* What is sent of a layer is a request.
LEMMA SentIsRequest ==
    ASSUME ListType, NEW i \in Ids
    PROVE Sent(i) \in Request
<1>1. infos[i] \in Info BY DEF ListType
<1>2. Newest(infos[i].rest) \in Versions
  <2>1. infos[i].rest \in SUBSET Versions BY <1>1 DEF Info
  <2>2. 0 \in Versions BY ConstantsAssumption DEF Versions
  <2>3. QED BY <2>1, <2>2, NewestIsOne
<1>3. FormData(infos[i]) \in Files BY <1>1, <1>2 DEF FormData, Info, Files
<1>4. StartRow \in Row BY ConstantsAssumption DEF StartRow, Start, Row, Files, Versions
<1>5. QED BY <1>1, <1>3, <1>4 DEF Sent, Request, Info, Step

\* A click sends one of the listed layers.
LEMMA ClickSends ==
    ASSUME TypeOK, DoUploads
    PROVE /\ clicks + 1 \in Chains
          /\ \E i \in layers :
               /\ requests' = [requests EXCEPT ![<<clicks + 1, i>>] = Sent(i)]
               /\ chains' = [chains EXCEPT ![clicks + 1] = layers \ {i}]
<1>1. layers \in SUBSET Ids /\ layers # {} BY TypeParts DEF ListType, DoUploads
<1>2. First(layers) \in layers BY <1>1, FirstIsOne
<1>3. clicks + 1 \in Chains
  BY TypeParts, ConstantsAssumption DEF SendType, DoUploads, Chains
<1>4. clicks' = clicks + 1 /\ DoUpload(clicks', layers, requests) BY DEF DoUploads
<1>5. QED BY <1>1, <1>2, <1>3, <1>4 DEF DoUpload

\* The end of a request sends nothing more, or one layer of its chain.
LEMMA EndSends ==
    ASSUME TypeOK, NEW q \in Sends, NEW verdict, Ended(q, verdict)
    PROVE \/ /\ requests' = [requests EXCEPT ![q].waited = FALSE]
             /\ chains' = [chains EXCEPT ![q[1]] = {}]
          \/ \E i \in chains[q[1]] :
               /\ requests' = [[requests EXCEPT ![q].waited = FALSE]
                                  EXCEPT ![<<q[1], i>>] = Sent(i)]
               /\ chains' = [chains EXCEPT ![q[1]] = chains[q[1]] \ {i}]
<1>1. chains[q[1]] \in SUBSET Ids BY TypeParts DEF SendType, Sends
<1>2. CASE chains[q[1]] = {} BY <1>2 DEF Ended, DoUpload
<1>3. CASE chains[q[1]] # {}
  <2>1. First(chains[q[1]]) \in chains[q[1]] BY <1>1, <1>3, FirstIsOne
  <2>2. QED BY <1>3, <2>1 DEF Ended, DoUpload
<1>4. QED BY <1>2, <1>3

-----------------------------------------------------------------------------
\* The steps, one lemma for each group of them.

LEMMA DroppedTypes ==
    ASSUME TypeOK, NEW n \in Names, Dropped(n)
    PROVE DropType' /\ FlagType' /\ SendType' /\ RequestType' /\ ServerType'
          /\ FaultType' /\ drops + 1 \in Ids /\ seen' \subseteq Names
<1>1. drops + 1 \in Ids /\ drops' \in Versions
  BY TypeParts, ConstantsAssumption DEF DropType, Dropped, Ids, Versions
<1>2. FlagType' BY TypeParts, Zenon DEF FlagType, Dropped, sendVars
<1>3. SendType' /\ RequestType' /\ ServerType' /\ FaultType'
  BY TypeParts, Zenon DEF SendType, RequestType, ServerType, FaultType, Dropped,
                          sendVars, serverVars
<1>4. seen' \subseteq Names BY TypeParts DEF ListType, Dropped
<1>5. QED BY <1>1, <1>2, <1>3, <1>4 DEF DropType

LEMMA JoinTypes ==
    ASSUME TypeOK, NEW n \in Names, NEW parts, Join(n, parts)
    PROVE TypeOK'
<1>1. Dropped(n) BY DEF Join
<1>2. DropType' /\ FlagType' /\ SendType' /\ RequestType' /\ ServerType'
      /\ FaultType' /\ drops + 1 \in Ids /\ seen' \subseteq Names
  BY <1>1, DroppedTypes
<1>3. PICK i \in ListedAs(n) :
        infos' = [infos EXCEPT ![i].shp = @ \union Brought("shp", parts),
                               ![i].rest = @ \union Brought("rest", parts)]
  BY DEF Join
<1>4. ListType BY TypeParts
<1>5. i \in Ids /\ infos[i] \in Info BY <1>4 DEF ListType, ListedAs
<1>6. {Brought("shp", parts), Brought("rest", parts)} \subseteq SUBSET Versions
  BY <1>2, ConstantsAssumption DEF Brought, Ids, Versions
<1>7. infos'[i] \in Info /\ infos'[i].main = infos[i].main
  BY <1>3, <1>4, <1>5, <1>6 DEF Info, ListType
<1>8. \A j \in Ids \ {i} : infos'[j] = infos[j] BY <1>3, <1>4 DEF ListType
<1>9. infos' \in [Ids -> Info] BY <1>3, <1>4, <1>5, <1>7, <1>8 DEF ListType
<1>10. layers' = layers BY DEF Join
<1>11. ListType' BY <1>2, <1>4, <1>7, <1>8, <1>9, <1>10 DEF ListType
<1>12. QED BY <1>2, <1>11, TypePartsNext

LEMMA ListTypes ==
    ASSUME TypeOK, NEW n \in Names, NEW parts, List(n, parts)
    PROVE TypeOK'
<1>1. Dropped(n) BY DEF List
<1>2. DropType' /\ FlagType' /\ SendType' /\ RequestType' /\ ServerType'
      /\ FaultType' /\ drops + 1 \in Ids /\ seen' \subseteq Names
  BY <1>1, DroppedTypes
<1>3. infos' = [infos EXCEPT ![drops + 1] =
                  [name |-> n, shp |-> Brought("shp", parts),
                   rest |-> Brought("rest", parts), main |-> drops + 1]]
  BY DEF List, HasType
<1>4. ListType BY TypeParts
<1>5. {Brought("shp", parts), Brought("rest", parts)} \subseteq SUBSET Versions
      /\ drops + 1 \in Versions \ {0}
  BY <1>2, ConstantsAssumption DEF Brought, Ids, Versions
<1>6. infos'[drops + 1] \in Info /\ infos'[drops + 1].main # 0
  BY <1>2, <1>3, <1>4, <1>5 DEF Info, ListType
<1>7. \A j \in Ids \ {drops + 1} : infos'[j] = infos[j] BY <1>3, <1>4 DEF ListType
<1>8. infos' \in [Ids -> Info] BY <1>2, <1>3, <1>4, <1>6, <1>7 DEF ListType
<1>9. layers' = layers \union {drops + 1} BY DEF List
<1>10. ListType' BY <1>2, <1>4, <1>6, <1>7, <1>8, <1>9 DEF ListType
<1>11. QED BY <1>2, <1>10, TypePartsNext

\* What stays when the list changes without a drop.
LEMMA ListedTypes ==
    ASSUME TypeOK, UNCHANGED <<drops, mixed, sendVars, serverVars, requests, late, told>>
    PROVE DropType' /\ FlagType' /\ SendType' /\ RequestType' /\ ServerType' /\ FaultType'
BY TypeParts, Zenon DEF DropType, FlagType, SendType, RequestType, ServerType, FaultType,
                        sendVars, serverVars

LEMMA WithoutIsInfo ==
    ASSUME NEW info \in Info, NEW part
    PROVE LET left == Without(info, part)
          IN left \in Info /\ left.main = info.main /\ left.name = info.name
             /\ left.rest \subseteq info.rest /\ left.shp \subseteq info.shp
<1>1. \A S \in SUBSET Versions : AllButOldest(S) \in SUBSET Versions /\ AllButOldest(S) \subseteq S
  BY DEF AllButOldest
<1>2. QED BY <1>1 DEF Without, Info

LEMMA RemoveTypes ==
    ASSUME TypeOK, NEW i \in Ids, NEW part, Remove(i, part)
    PROVE TypeOK'
<1>1. DropType' /\ FlagType' /\ SendType' /\ RequestType' /\ ServerType' /\ FaultType'
  BY ListedTypes DEF Remove
<1> DEFINE info == Without(infos[i], part)
<1>2. ListType BY TypeParts
<1>3. info \in Info /\ info.main = infos[i].main BY <1>2, WithoutIsInfo DEF ListType
<1>4. infos' = [infos EXCEPT ![i] = info] BY DEF Remove
<1>5. layers' \subseteq layers /\ seen' \subseteq seen BY DEF Remove
<1> HIDE DEF info
<1>6. infos' \in [Ids -> Info] /\ \A j \in Ids : infos'[j].main = infos[j].main
  BY <1>2, <1>3, <1>4 DEF ListType
<1>7. ListType' BY <1>2, <1>5, <1>6 DEF ListType
<1>8. QED BY <1>1, <1>7, TypePartsNext

LEMMA ClearTypes == ASSUME TypeOK, Clear PROVE TypeOK'
<1>1. DropType' /\ FlagType' /\ SendType' /\ RequestType' /\ ServerType' /\ FaultType'
  BY ListedTypes DEF Clear
<1>2. ListType' BY TypeParts DEF ListType, Clear
<1>3. QED BY <1>1, <1>2, TypePartsNext

\* One request sent instead of another is a family of requests again.
LEMMA SendTypes ==
    ASSUME TypeOK, NEW k \in Chains, NEW i \in Ids, NEW q \in Sends
    PROVE /\ [requests EXCEPT ![<<k, i>>] = Sent(i)] \in [Sends -> Request]
          /\ [requests EXCEPT ![q].waited = FALSE] \in [Sends -> Request]
          /\ [[requests EXCEPT ![q].waited = FALSE] EXCEPT ![<<k, i>>] = Sent(i)]
                \in [Sends -> Request]
<1>1. Sent(i) \in Request BY TypeParts, SentIsRequest
<1>2. RequestType /\ <<k, i>> \in Sends BY TypeParts DEF Sends
<1>3. requests[q] \in Request BY <1>2 DEF RequestType
<1>4. [requests[q] EXCEPT !.waited = FALSE] \in Request BY <1>3 DEF Request
<1>5. [requests EXCEPT ![q].waited = FALSE] \in [Sends -> Request]
  BY <1>2, <1>4 DEF RequestType
<1>6. QED BY <1>1, <1>2, <1>5 DEF RequestType

LEMMA ClickTypes == ASSUME TypeOK, DoUploads PROVE TypeOK'
<1>1. clicks + 1 \in Chains BY ClickSends
<1>2. PICK i \in layers : /\ requests' = [requests EXCEPT ![<<clicks + 1, i>>] = Sent(i)]
                          /\ chains' = [chains EXCEPT ![clicks + 1] = layers \ {i}]
  BY ClickSends
<1>3. ListType /\ SendType BY TypeParts
<1>4. i \in Ids /\ layers \subseteq Ids BY <1>3 DEF ListType
<1>5. RequestType'
  <2>1. <<clicks + 1, i>> \in Sends BY <1>1, <1>4 DEF Sends
  <2>2. [requests EXCEPT ![<<clicks + 1, i>>] = Sent(i)] \in [Sends -> Request]
    BY <1>1, <1>4, <2>1, SendTypes
  <2>3. QED BY <1>2, <2>2 DEF RequestType
<1>6. chains' \in [Chains -> SUBSET Ids] BY <1>2, <1>3, <1>4 DEF SendType
<1>7. clicks' = clicks + 1 BY DEF DoUploads
<1>8. clicks' \in 0..MaxClicks BY <1>1, <1>7, ConstantsAssumption DEF Chains
<1>9. ListType' /\ DropType' /\ ServerType' /\ FaultType'
  BY TypeParts, Zenon DEF ListType, DropType, ServerType, FaultType, DoUploads, listVars,
                          serverVars
<1>10. FlagType' BY TypeParts, Zenon DEF FlagType, DoUploads, listVars
<1>11. QED BY <1>5, <1>6, <1>8, <1>9, <1>10, TypePartsNext DEF SendType

LEMMA EndTypes ==
    ASSUME TypeOK, NEW q \in Sends, NEW verdict, Ended(q, verdict),
           UNCHANGED <<listVars, clicks, hurried, serverVars>>
    PROVE ListType' /\ DropType' /\ FlagType' /\ SendType' /\ RequestType'
          /\ row' \in Row /\ data' \in Files /\ failed' = failed
<1>1. SendType /\ q[1] \in Chains BY TypeParts DEF Sends
<1>2. chains[q[1]] \in SUBSET Ids BY <1>1 DEF SendType
<1>3. RequestType' /\ chains' \in [Chains -> SUBSET Ids]
  <2>1. CASE /\ requests' = [requests EXCEPT ![q].waited = FALSE]
             /\ chains' = [chains EXCEPT ![q[1]] = {}]
    <3>1. q[2] \in Ids BY DEF Sends
    <3>2. requests' \in [Sends -> Request] BY <1>1, <2>1, <3>1, SendTypes
    <3>3. QED BY <1>1, <2>1, <3>2 DEF RequestType, SendType
  <2>2. ASSUME NEW i \in chains[q[1]],
               requests' = [[requests EXCEPT ![q].waited = FALSE]
                              EXCEPT ![<<q[1], i>>] = Sent(i)],
               chains' = [chains EXCEPT ![q[1]] = chains[q[1]] \ {i}]
        PROVE RequestType' /\ chains' \in [Chains -> SUBSET Ids]
    <3>1. i \in Ids BY <1>2
    <3>2. requests' \in [Sends -> Request] BY <1>1, <2>2, <3>1, SendTypes
    <3>3. chains' \in [Chains -> SUBSET Ids] BY <1>1, <1>2, <2>2 DEF SendType
    <3>4. QED BY <3>2, <3>3 DEF RequestType
  <2>3. QED BY <2>1, <2>2, EndSends
<1>4. ListType' /\ DropType' /\ FlagType'
  BY TypeParts, Zenon DEF ListType, DropType, FlagType, listVars
<1>5. row' \in Row /\ data' \in Files /\ failed' = failed
  BY TypeParts DEF ServerType, serverVars
<1>6. SendType' BY <1>1, <1>3 DEF SendType
<1>7. QED BY <1>3, <1>4, <1>5, <1>6

LEMMA AnswerTypes == ASSUME TypeOK, NEW q \in Sends, Answer(q) PROVE TypeOK'
<1>1. Ended(q, requests[q].at) /\ UNCHANGED <<listVars, clicks, hurried, serverVars>>
      /\ late' = late
  BY DEF Answer
<1>2. ListType' /\ DropType' /\ FlagType' /\ SendType' /\ RequestType'
      /\ row' \in Row /\ data' \in Files /\ failed' = failed
  BY <1>1, EndTypes
<1>3. told' \in Files
  <2>1. requests[q] \in Request /\ told \in Files BY TypeParts DEF RequestType, ServerType
  <2>2. QED BY <2>1 DEF Answer, Request
<1>4. FaultType' BY <1>1, <1>2, TypeParts DEF FaultType
<1>5. QED BY <1>2, <1>3, <1>4, TypePartsNext DEF ServerType

LEMMA TimeOutTypes == ASSUME TypeOK, NEW q \in Sends, TimeOut(q) PROVE TypeOK'
<1>1. Ended(q, "error") /\ UNCHANGED <<listVars, clicks, hurried, serverVars>>
      /\ told' = told
  BY DEF TimeOut
<1>2. ListType' /\ DropType' /\ FlagType' /\ SendType' /\ RequestType'
      /\ row' \in Row /\ data' \in Files /\ failed' = failed
  BY <1>1, EndTypes
<1>3. FaultType'
  BY <1>2, TypeParts, ConstantsAssumption DEF FaultType, TimeOut
<1>4. ServerType' BY <1>1, <1>2, TypeParts DEF ServerType
<1>5. QED BY <1>2, <1>3, <1>4, TypePartsNext

\* Every step of the server moves one request on, as it is but for its copy.
Moves(q, to, copy) == requests' = [requests EXCEPT ![q].at = to, ![q].copy = copy]

LEMMA MovesTypes ==
    ASSUME TypeOK, NEW q \in Sends, NEW to \in Step, NEW copy \in Row, Moves(q, to, copy)
    PROVE RequestType'
<1>1. requests \in [Sends -> Request] /\ requests[q] \in Request
  BY TypeParts DEF RequestType
<1>2. [requests[q] EXCEPT !.at = to, !.copy = copy] \in Request BY <1>1 DEF Request
<1>3. requests' = [requests EXCEPT ![q] = [requests[q] EXCEPT !.at = to, !.copy = copy]]
  BY <1>1 DEF Moves, Request
<1>4. QED BY <1>1, <1>2, <1>3 DEF RequestType

LEMMA FaultTypes ==
    ASSUME TypeOK, late' = late, failed' = failed \/ Fault
    PROVE FaultType'
BY TypeParts, ConstantsAssumption DEF FaultType, Fault

LEMMA ServeTypes == ASSUME TypeOK, NEW q \in Sends, Serve(q) PROVE TypeOK'
<1>1. ListType' /\ DropType' /\ FlagType' /\ SendType'
  BY TypeParts, Zenon DEF ListType, DropType, FlagType, SendType, Serve, listVars, sendVars
<1>2. late' = late /\ told' = told BY DEF Serve
<1>3. ServerType /\ requests[q] \in Request BY TypeParts DEF RequestType
<1>4. /\ requests[q].files \in Files /\ requests[q].copy \in Row /\ row \in Row
      /\ data \in Files /\ told \in Files
  BY <1>3 DEF ServerType, Request
<1>5. Written(q, TRUE) \in Row /\ Written(q, FALSE) \in Row
      /\ WithFiles(q) \in Row
  BY <1>4 DEF Row, WithFiles, Written
<1>6. \A x \in {"accepted", "committed", "saving", "finishing", "ok", "error"} : x \in Step
  BY DEF Step, Over
<1>7. RequestType' /\ row' \in Row /\ data' \in Files /\ (failed' = failed \/ Fault)
  <2>1. CASE Accept(q)
    <3>1. Moves(q, "accepted", row) /\ UNCHANGED serverVars
      BY <2>1 DEF Accept, Goes, Moves
    <3>2. QED BY <1>4, <1>6, <3>1, MovesTypes DEF serverVars
  <2>2. CASE Refuse(q)
    <3>1. Moves(q, "error", requests[q].copy) /\ UNCHANGED serverVars
      BY <2>2 DEF Refuse, Goes, Moves
    <3>2. QED BY <1>4, <1>6, <3>1, MovesTypes DEF serverVars
  <2>3. CASE Commit(q)
    <3>1. Moves(q, "committed", requests[q].copy) BY <2>3 DEF Commit, Goes, Moves
    <3>2. QED BY <1>4, <1>6, <2>3, <3>1, MovesTypes DEF Commit
  <2>4. CASE Record(q)
    <3>1. Moves(q, "saving", Written(q, TRUE)) /\ row' = Written(q, TRUE)
      BY <2>4 DEF Record, Goes, Moves
    <3>2. QED BY <1>4, <1>5, <1>6, <2>4, <3>1, MovesTypes DEF Record
  <2>5. CASE Incomplete(q)
    <3>1. Moves(q, "saving", Written(q, FALSE)) /\ row' = Written(q, FALSE)
      BY <2>5 DEF Incomplete, Goes, Moves
    <3>2. QED BY <1>4, <1>5, <1>6, <2>5, <3>1, MovesTypes DEF Incomplete
  <2>6. CASE Raise(q)
    <3>1. Moves(q, "saving", requests[q].copy) BY <2>6 DEF Raise, Goes, Moves
    <3>2. QED BY <1>4, <1>5, <1>6, <2>6, <3>1, MovesTypes DEF Raise
  <2>7. CASE SaveCopy(q)
    <3>1. Moves(q, "finishing", WithFiles(q)) /\ row' = WithFiles(q)
      BY <2>7 DEF SaveCopy, Goes, Moves
    <3>2. QED BY <1>4, <1>5, <1>6, <2>7, <3>1, MovesTypes DEF SaveCopy
  <2>8. CASE Finish(q)
    <3>1. Moves(q, "ok", requests[q].copy) BY <2>8 DEF Finish, Goes, Moves
    <3>2. QED BY <1>4, <1>6, <2>8, <3>1, MovesTypes DEF Finish
  <2>9. CASE FailUpdate(q)
    <3>1. Moves(q, "error", requests[q].copy) BY <2>9 DEF FailUpdate, Goes, Moves
    <3>2. QED BY <1>4, <1>5, <1>6, <2>9, <3>1, MovesTypes DEF FailUpdate
  <2>10. CASE Crash(q)
    <3>1. Moves(q, "error", requests[q].copy) BY <2>10 DEF Crash, Goes, Moves
    <3>2. QED BY <1>4, <1>6, <2>10, <3>1, MovesTypes DEF Crash
  <2>11. CASE LoseSave(q)
    <3>1. Moves(q, "ok", requests[q].copy) BY <2>11 DEF LoseSave, Goes, Moves
    <3>2. QED BY <1>4, <1>6, <2>11, <3>1, MovesTypes DEF LoseSave
  <2>12. QED
    BY <2>1, <2>2, <2>3, <2>4, <2>5, <2>6, <2>7, <2>8, <2>9, <2>10, <2>11
    DEF Serve, ServerStep
<1>8. FaultType' BY <1>2, <1>7, FaultTypes
<1>9. ServerType' BY <1>2, <1>4, <1>7 DEF ServerType
<1>10. QED BY <1>1, <1>7, <1>8, <1>9, TypePartsNext

LEMMA InitTypes == Init => TypeOK
<1> SUFFICES ASSUME Init PROVE TypeOK OBVIOUS
<1>1. 0 \in Versions BY ConstantsAssumption DEF Versions
<1>2. Start \in Files /\ StartRow \in Row BY <1>1 DEF Start, StartRow, Files, Row
<1>3. Blank \in Info BY <1>1, ConstantsAssumption DEF Blank, Info
<1>4. Unsent \in Request
  BY <1>2, ConstantsAssumption DEF Unsent, Request, Step
<1>5. ListType /\ RequestType BY <1>3, <1>4 DEF Init, ListType, RequestType
<1>6. SendType /\ DropType /\ FaultType
  BY <1>1, ConstantsAssumption DEF Init, SendType, DropType, FaultType
<1>7. FlagType /\ ServerType BY <1>2 DEF Init, FlagType, ServerType
<1>8. QED BY <1>5, <1>6, <1>7, TypeParts

LEMMA StutterTypes == ASSUME TypeOK, UNCHANGED vars PROVE TypeOK'
BY DEF TypeOK, vars, listVars, sendVars, serverVars

LEMMA NextTypes == TypeOK /\ [Next]_vars => TypeOK'
<1> SUFFICES ASSUME TypeOK, [Next]_vars PROVE TypeOK' OBVIOUS
<1>1. CASE UNCHANGED vars BY <1>1, StutterTypes
<1>2. ASSUME NEW n \in Names, NEW parts, Join(n, parts) \/ List(n, parts) PROVE TypeOK'
  BY <1>2, JoinTypes, ListTypes
<1>3. ASSUME NEW i \in Ids, NEW part, Remove(i, part) PROVE TypeOK' BY <1>3, RemoveTypes
<1>4. CASE Clear BY <1>4, ClearTypes
<1>5. CASE DoUploads BY <1>5, ClickTypes
<1>6. ASSUME NEW q \in Sends, Serve(q) \/ Answer(q) \/ TimeOut(q) PROVE TypeOK'
  BY <1>6, ServeTypes, AnswerTypes, TimeOutTypes
<1>7. QED BY <1>1, <1>2, <1>3, <1>4, <1>5, <1>6 DEF Next

(* Everything has its type in every reachable state, and every layer of the   *)
(* list has the main file that prepareFormData reads.                         *)
THEOREM TypeCorrect == Spec => []TypeOK
<1>1. QED BY InitTypes, NextTypes, PTL DEF Spec

-----------------------------------------------------------------------------
\* One request at a time. Unless the user was hurried one request is awaited;
\* unless one was given up, what the server works on is awaited.
Apart ==
    /\ ~hurried => \A q, r \in Awaited : q = r
    /\ late = 0 => AtServer \subseteq Awaited

LEMMA ApartIsServedApart == Apart => ServedApart
BY DEF Apart, ServedApart

\* A request is awaited, or at the server, for what it is itself.
LEMMA AwaitedIs == \A q \in Sends : q \in Awaited <=> requests[q].waited
BY DEF Awaited
LEMMA AwaitedIsNext == \A q \in Sends : q \in Awaited' <=> requests'[q].waited
BY DEF Awaited
LEMMA AtServerIs ==
    \A q \in Sends : q \in AtServer <=> requests[q].at \notin {"ok", "error", "unsent"}
BY DEF AtServer, Over
LEMMA AtServerIsNext ==
    \A q \in Sends : q \in AtServer' <=> requests'[q].at \notin {"ok", "error", "unsent"}
BY DEF AtServer, Over

\* What a click and the end of a request do to the requests.
LEMMA ClickRequests ==
    ASSUME TypeOK, DoUploads
    PROVE \E s \in Sends :
            /\ s[2] \in layers
            /\ requests' = [requests EXCEPT ![s] = Sent(s[2])]
<1>1. clicks + 1 \in Chains BY ClickSends
<1>2. PICK i \in layers : requests' = [requests EXCEPT ![<<clicks + 1, i>>] = Sent(i)]
  BY ClickSends
<1>3. layers \subseteq Ids BY TypeParts DEF ListType
<1>4. <<clicks + 1, i>> \in Sends BY <1>1, <1>3 DEF Sends
<1>5. QED BY <1>2, <1>4

LEMMA EndRequests ==
    ASSUME TypeOK, NEW q \in Sends, NEW verdict, Ended(q, verdict)
    PROVE \/ /\ requests'[q] = [requests[q] EXCEPT !.waited = FALSE]
             /\ \A r \in Sends \ {q} : requests'[r] = requests[r]
          \/ \E s \in Sends :
               /\ requests'[s] = Sent(s[2])
               /\ q # s => requests'[q] = [requests[q] EXCEPT !.waited = FALSE]
               /\ \A r \in Sends \ {q, s} : requests'[r] = requests[r]
<1>1. requests \in [Sends -> Request] BY TypeParts DEF RequestType
<1>2. CASE requests' = [requests EXCEPT ![q].waited = FALSE] BY <1>1, <1>2
<1>3. ASSUME NEW i \in chains[q[1]],
             requests' = [[requests EXCEPT ![q].waited = FALSE]
                            EXCEPT ![<<q[1], i>>] = Sent(i)]
      PROVE \E s \in Sends :
               /\ requests'[s] = Sent(s[2])
               /\ q # s => requests'[q] = [requests[q] EXCEPT !.waited = FALSE]
               /\ \A r \in Sends \ {q, s} : requests'[r] = requests[r]
  <2>1. chains[q[1]] \in SUBSET Ids /\ q[1] \in Chains BY TypeParts DEF SendType, Sends
  <2>2. <<q[1], i>> \in Sends BY <2>1 DEF Sends
  <2>3. requests'[<<q[1], i>>] = Sent(i) BY <1>1, <1>3, <2>2
  <2>4. q # <<q[1], i>> => requests'[q] = [requests[q] EXCEPT !.waited = FALSE]
    BY <1>1, <1>3, <2>2
  <2>5. \A r \in Sends \ {q, <<q[1], i>>} : requests'[r] = requests[r] BY <1>1, <1>3, <2>2
  <2>6. QED BY <2>2, <2>3, <2>4, <2>5
<1>4. QED BY <1>2, <1>3, EndSends

LEMMA ApartClick == ASSUME TypeOK, Apart, DoUploads PROVE Apart'
<1>1. PICK s \in Sends : requests' = [requests EXCEPT ![s] = Sent(s[2])] BY ClickRequests
<1>2. requests \in [Sends -> Request] BY TypeParts DEF RequestType
<1>3. requests'[s].waited = TRUE /\ requests'[s].at = "sent" BY <1>1, <1>2 DEF Sent
<1>4. \A r \in Sends \ {s} : requests'[r] = requests[r] BY <1>1, <1>2
<1>5. Awaited' = Awaited \union {s}
  BY <1>3, <1>4, AwaitedIs, AwaitedIsNext DEF Awaited
<1>6. AtServer' \subseteq AtServer \union {s}
  BY <1>4, AtServerIs, AtServerIsNext DEF AtServer
<1>7. late' = late /\ (hurried' <=> (hurried \/ Awaited # {})) BY DEF DoUploads
<1>8. ~hurried' => \A q, r \in Awaited' : q = r
  <2>1. SUFFICES ASSUME ~hurried' PROVE \A q, r \in Awaited' : q = r OBVIOUS
  <2>2. Awaited = {} BY <1>7, <2>1
  <2>3. QED BY <1>5, <2>2
<1>9. late' = 0 => AtServer' \subseteq Awaited' BY <1>5, <1>6, <1>7 DEF Apart
<1>10. QED BY <1>8, <1>9 DEF Apart

\* The end of an awaited request leaves at most the one that it sends.
LEMMA ApartEnd ==
    ASSUME TypeOK, Apart, NEW q \in Sends, NEW verdict, Ended(q, verdict),
           requests[q].waited, UNCHANGED hurried,
           late' # 0 \/ (late' = late /\ requests[q].at \in Over)
    PROVE Apart'
<1>1. q \in Awaited BY AwaitedIs
<1>2. requests[q] \in Request BY TypeParts DEF RequestType
<1>3. requests'[q] = [requests[q] EXCEPT !.waited = FALSE]
        => ~requests'[q].waited /\ requests'[q].at = requests[q].at
  BY <1>2 DEF Request
<1>4. \A s : Sent(s).waited = TRUE BY DEF Sent
<1>5. ~hurried' => \A r, t \in Awaited' : r = t
  <2>1. SUFFICES ASSUME ~hurried' PROVE \A r, t \in Awaited' : r = t OBVIOUS
  <2>2. \A r \in Sends \ {q} : ~requests[r].waited BY <1>1, <2>1, AwaitedIs DEF Apart
  <2>3. CASE /\ requests'[q] = [requests[q] EXCEPT !.waited = FALSE]
             /\ \A r \in Sends \ {q} : requests'[r] = requests[r]
    BY <1>3, <2>2, <2>3 DEF Awaited
  <2>4. ASSUME NEW s \in Sends,
               requests'[s] = Sent(s[2]),
               q # s => requests'[q] = [requests[q] EXCEPT !.waited = FALSE],
               \A r \in Sends \ {q, s} : requests'[r] = requests[r]
        PROVE \A r, t \in Awaited' : r = t
    BY <1>3, <2>2, <2>4 DEF Awaited
  <2>5. QED BY <2>3, <2>4, EndRequests
<1>6. late' = 0 => AtServer' \subseteq Awaited'
  <2>1. SUFFICES ASSUME late' = 0, NEW r \in AtServer' PROVE r \in Awaited' OBVIOUS
  <2>2. late = 0 /\ requests[q].at \in Over BY <2>1
  <2>3. r \in Sends /\ requests'[r].at \notin {"ok", "error", "unsent"}
    BY AtServerIsNext DEF AtServer
  <2>4. \A t \in Sends : requests[t].at \notin {"ok", "error", "unsent"} => requests[t].waited
    BY <2>2, AtServerIs, AwaitedIs DEF Apart
  <2>5. CASE /\ requests'[q] = [requests[q] EXCEPT !.waited = FALSE]
             /\ \A t \in Sends \ {q} : requests'[t] = requests[t]
    <3>1. r # q BY <1>3, <2>2, <2>3, <2>5 DEF Over
    <3>2. requests'[r] = requests[r] BY <2>3, <2>5, <3>1
    <3>3. QED BY <2>3, <2>4, <3>2, AwaitedIsNext
  <2>6. ASSUME NEW s \in Sends,
               requests'[s] = Sent(s[2]),
               q # s => requests'[q] = [requests[q] EXCEPT !.waited = FALSE],
               \A t \in Sends \ {q, s} : requests'[t] = requests[t]
        PROVE r \in Awaited'
    <3>1. CASE r = s BY <1>4, <2>6, <3>1, AwaitedIsNext
    <3>2. CASE r # s
      <4>1. r # q BY <1>3, <2>2, <2>3, <2>6, <3>2 DEF Over
      <4>2. requests'[r] = requests[r] BY <2>3, <2>6, <3>2, <4>1
      <4>3. QED BY <2>3, <2>4, <4>2, AwaitedIsNext
    <3>3. QED BY <3>1, <3>2
  <2>7. QED BY <2>5, <2>6, EndRequests
<1>7. QED BY <1>5, <1>6 DEF Apart

\* A step of the server moves a request that is there, and leaves it awaited or
\* not as it was.
LEMMA ServeMoves ==
    ASSUME TypeOK, NEW q \in Sends, Serve(q)
    PROVE /\ requests[q].at \notin {"ok", "error", "unsent"}
          /\ requests'[q].at # "unsent" /\ requests'[q].waited = requests[q].waited
          /\ requests'[q].files = requests[q].files /\ requests'[q].name = requests[q].name
          /\ \A r \in Sends \ {q} : requests'[r] = requests[r]
          /\ requests \in [Sends -> Request] /\ requests' \in [Sends -> Request]
<1>1. requests \in [Sends -> Request] /\ requests[q] \in Request
  BY TypeParts DEF RequestType
<1>2. requests' \in [Sends -> Request] BY ServeTypes, TypePartsNext DEF RequestType
<1>3. \E to, copy : /\ Moves(q, to, copy) /\ to # "unsent"
                    /\ requests[q].at \notin {"ok", "error", "unsent"}
  <2>1. CASE Accept(q) BY <2>1 DEF Accept, Goes, Moves
  <2>2. CASE Refuse(q) BY <2>2 DEF Refuse, Goes, Moves
  <2>3. CASE Commit(q) BY <2>3 DEF Commit, Goes, Moves
  <2>4. CASE Record(q) BY <2>4 DEF Record, Goes, Moves
  <2>5. CASE Incomplete(q) BY <2>5 DEF Incomplete, Goes, Moves
  <2>6. CASE Raise(q) BY <2>6 DEF Raise, Goes, Moves
  <2>7. CASE SaveCopy(q) BY <2>7 DEF SaveCopy, Goes, Moves
  <2>8. CASE Finish(q) BY <2>8 DEF Finish, Goes, Moves
  <2>9. CASE FailUpdate(q) BY <2>9 DEF FailUpdate, Goes, Moves
  <2>10. CASE Crash(q) BY <2>10 DEF Crash, Goes, Moves, Step, Over
  <2>11. CASE LoseSave(q) BY <2>11 DEF LoseSave, Goes, Moves
  <2>12. QED
    BY <2>1, <2>2, <2>3, <2>4, <2>5, <2>6, <2>7, <2>8, <2>9, <2>10, <2>11
    DEF Serve, ServerStep
<1>4. PICK to, copy : /\ Moves(q, to, copy) /\ to # "unsent"
                      /\ requests[q].at \notin {"ok", "error", "unsent"}
  BY <1>3
<1>5. requests' = [requests EXCEPT ![q] = [requests[q] EXCEPT !.at = to, !.copy = copy]]
  BY <1>1, <1>4 DEF Moves, Request
<1>6. QED BY <1>1, <1>2, <1>4, <1>5 DEF Request

LEMMA ApartServe == ASSUME TypeOK, Apart, NEW q \in Sends, Serve(q) PROVE Apart'
<1>1. /\ requests[q].at \notin {"ok", "error", "unsent"}
      /\ requests'[q].waited = requests[q].waited
      /\ \A r \in Sends \ {q} : requests'[r] = requests[r]
  BY ServeMoves
<1>2. Awaited' = Awaited BY <1>1, AwaitedIs, AwaitedIsNext DEF Awaited
<1>3. AtServer' \subseteq AtServer BY <1>1, AtServerIs, AtServerIsNext DEF AtServer
<1>4. late' = late /\ hurried' = hurried BY DEF Serve, sendVars
<1>5. QED BY <1>2, <1>3, <1>4 DEF Apart

LEMMA ApartSame ==
    ASSUME Apart, UNCHANGED <<requests, hurried, late>>
    PROVE Apart'
<1>1. Awaited' = Awaited /\ AtServer' = AtServer BY DEF Awaited, AtServer
<1>2. QED BY <1>1 DEF Apart

\* What a step of the list leaves alone.
LEMMA ListSteps ==
    ASSUME \/ Clear \/ UNCHANGED vars
           \/ \E n, parts : Join(n, parts) \/ List(n, parts)
           \/ \E i, part : Remove(i, part)
    PROVE UNCHANGED <<sendVars, serverVars, requests, late, told>>
BY Zenon DEF Clear, Join, List, Dropped, Remove, vars

LEMMA ApartNext == TypeOK /\ Apart /\ [Next]_vars => Apart'
<1> SUFFICES ASSUME TypeOK, Apart, [Next]_vars PROVE Apart' OBVIOUS
<1>1. CASE \/ Clear \/ UNCHANGED vars
           \/ \E n, parts : Join(n, parts) \/ List(n, parts)
           \/ \E i, part : Remove(i, part)
  BY <1>1, ListSteps, ApartSame DEF sendVars
<1>2. CASE DoUploads BY <1>2, ApartClick
<1>3. ASSUME NEW q \in Sends, Serve(q) PROVE Apart' BY <1>3, ApartServe
<1>4. ASSUME NEW q \in Sends, Answer(q) PROVE Apart'
  BY <1>4, ApartEnd DEF Answer
<1>5. ASSUME NEW q \in Sends, TimeOut(q) PROVE Apart'
  <2>1. late' # 0 BY <1>5, TypeParts DEF FaultType, TimeOut
  <2>2. QED BY <1>5, <2>1, ApartEnd DEF TimeOut
<1>6. QED BY <1>1, <1>2, <1>3, <1>4, <1>5 DEF Next

LEMMA ApartInit == Init => Apart
BY DEF Init, Apart, Awaited, AtServer, Unsent, Over

(* The page's callbacks keep two uploads from being served at once, for any   *)
(* number of layers, drops and faults, unless the user starts a second chain  *)
(* or a request times out.                                                    *)
THEOREM ServedApartCorrect == Spec => []ServedApart
<1>1. Spec => []TypeOK BY TypeCorrect
<1>2. Spec => []Apart BY <1>1, ApartInit, ApartNext, PTL DEF Spec
<1>3. QED BY <1>2, ApartIsServedApart, PTL

-----------------------------------------------------------------------------
\* What an undisturbed request has done so far.
Agreed == row = [named |-> TRUE, files |-> data] /\ data = told
Progress(r) ==
    /\ r.at # "unsent"
    /\ r.at \in {"sent", "accepted", "error"} => Agreed
    /\ r.at \in {"committed", "saving", "finishing", "ok"} => data = r.files
    /\ r.at \in {"saving", "finishing", "ok"} => row = [named |-> TRUE, files |-> r.files]
    /\ r.at \in {"saving", "finishing"} => r.copy = row
Quiet == ~hurried /\ late = 0 /\ failed = 0
Agree == Quiet => /\ Awaited = {} => Agreed
                  /\ \A q \in Awaited : Progress(requests[q])

LEMMA AgreeInit == Init => Agree
BY DEF Init, Agree, Agreed, Awaited, Unsent, StartRow

LEMMA AgreeIsProperty == Agree => PageRowAndDataAgree
BY DEF Agree, Agreed, Quiet, PageRowAndDataAgree

LEMMA AgreeSame ==
    ASSUME Agree, UNCHANGED <<sendVars, serverVars, requests, late, told>>
    PROVE Agree'
BY DEF Agree, Agreed, Progress, Quiet, Awaited, sendVars, serverVars

\* A layer just sent has done nothing yet.
LEMMA SentProgress ==
    ASSUME NEW s \in Sends, requests'[s] = Sent(s[2]), Agreed'
    PROVE Progress(requests[s])'
BY DEF Sent, Progress

LEMMA AgreeClick == ASSUME TypeOK, Agree, DoUploads PROVE Agree'
<1>1. PICK s \in Sends : requests' = [requests EXCEPT ![s] = Sent(s[2])] BY ClickRequests
<1>2. requests \in [Sends -> Request] BY TypeParts DEF RequestType
<1>3. requests'[s] = Sent(s[2]) /\ \A r \in Sends \ {s} : requests'[r] = requests[r]
  BY <1>1, <1>2
<1>4. SUFFICES ASSUME Quiet' PROVE (Awaited = {} => Agreed)' /\ \A q \in Awaited' : Progress(requests[q])'
  BY DEF Agree
<1>5. Awaited = {} /\ Quiet BY <1>4 DEF Quiet, DoUploads, serverVars
<1>6. Agreed BY <1>5 DEF Agree
<1>7. Agreed' BY <1>6 DEF Agreed, DoUploads, serverVars
<1>8. Progress(requests[s])' BY <1>3, <1>7, SentProgress
<1>9. \A q \in Awaited' : q = s BY <1>3, <1>5, AwaitedIs, AwaitedIsNext DEF Awaited
<1>10. QED BY <1>7, <1>8, <1>9

\* An answer shows as done what the row and GeoServer have, or changes nothing.
LEMMA AgreeAnswer == ASSUME TypeOK, Apart, Agree, NEW q \in Sends, Answer(q) PROVE Agree'
<1>1. SUFFICES ASSUME Quiet'
               PROVE (Awaited = {} => Agreed)' /\ \A r \in Awaited' : Progress(requests[r])'
  BY DEF Agree
<1>2. /\ hurried' = hurried /\ late' = late /\ row' = row /\ data' = data /\ failed' = failed
      /\ requests[q].waited /\ requests[q].at \in Over /\ Ended(q, requests[q].at)
      /\ told' = IF requests[q].at = "ok" THEN requests[q].files ELSE told
  BY DEF Answer, serverVars
<1>3. Quiet BY <1>1, <1>2 DEF Quiet
<1>4. q \in Awaited /\ \A r \in Sends \ {q} : ~requests[r].waited
  BY <1>2, <1>3, AwaitedIs DEF Apart, Quiet
<1>5. Progress(requests[q]) BY <1>3, <1>4 DEF Agree
<1>6. Agreed' BY <1>2, <1>5 DEF Progress, Agreed, Over
<1>7. requests[q] \in Request BY TypeParts DEF RequestType
<1>8. requests'[q] = [requests[q] EXCEPT !.waited = FALSE] => ~requests'[q].waited
  BY <1>7 DEF Request
<1>9. \A r \in Awaited' : Progress(requests[r])'
  <2>1. CASE /\ requests'[q] = [requests[q] EXCEPT !.waited = FALSE]
             /\ \A r \in Sends \ {q} : requests'[r] = requests[r]
    BY <1>4, <1>8, <2>1 DEF Awaited
  <2>2. ASSUME NEW s \in Sends,
               requests'[s] = Sent(s[2]),
               q # s => requests'[q] = [requests[q] EXCEPT !.waited = FALSE],
               \A r \in Sends \ {q, s} : requests'[r] = requests[r]
        PROVE \A r \in Awaited' : Progress(requests[r])'
    <3>1. \A r \in Awaited' : r = s BY <1>4, <1>8, <2>2 DEF Awaited
    <3>2. Progress(requests[s])' BY <1>6, <2>2, SentProgress
    <3>3. QED BY <3>1, <3>2
  <2>3. QED BY <1>2, <2>1, <2>2, EndRequests
<1>10. QED BY <1>6, <1>9

LEMMA AgreeTimeOut == ASSUME TypeOK, NEW q \in Sends, TimeOut(q) PROVE Agree'
<1>1. late' # 0 BY TypeParts DEF FaultType, TimeOut
<1>2. QED BY <1>1 DEF Agree, Quiet

\* To set the files a row has is to leave it as it is.
LEMMA SameFiles ==
    ASSUME NEW r \in Row, NEW f, r.files = f
    PROVE [r EXCEPT !.files = f] = r
BY DEF Row

\* The server works on the one request that is awaited, and takes it from one
\* stage of its progress to the next.
LEMMA AgreeServe == ASSUME TypeOK, Apart, Agree, NEW q \in Sends, Serve(q) PROVE Agree'
<1>1. SUFFICES ASSUME Quiet'
               PROVE (Awaited = {} => Agreed)' /\ \A r \in Awaited' : Progress(requests[r])'
  BY DEF Agree
<1>2. hurried' = hurried /\ late' = late /\ told' = told BY DEF Serve, sendVars
<1>3. failed' = failed /\ ~Fault
  <2>1. ~Fault BY <1>1, TypeParts DEF Quiet, Fault, FaultType
  <2>2. ~Incomplete(q) /\ ~Raise(q) /\ ~FailUpdate(q) /\ ~LoseSave(q) /\ ~Crash(q)
    BY <2>1 DEF Incomplete, Raise, FailUpdate, LoseSave, Crash
  <2>3. Accept(q) \/ Refuse(q) \/ Commit(q) \/ Record(q) \/ SaveCopy(q) \/ Finish(q)
    BY <2>2 DEF Serve, ServerStep
  <2>4. QED BY <2>1, <2>3 DEF Accept, Refuse, Commit, Record, SaveCopy, Finish, serverVars
<1>4. Quiet BY <1>1, <1>2, <1>3 DEF Quiet
<1>5. /\ requests[q].at \notin {"ok", "error", "unsent"}
      /\ requests'[q].waited = requests[q].waited
      /\ requests'[q].files = requests[q].files
      /\ \A r \in Sends \ {q} : requests'[r] = requests[r]
      /\ requests \in [Sends -> Request]
  BY ServeMoves
<1>6. q \in Awaited BY <1>4, <1>5, AtServerIs DEF Apart, Quiet
<1>7. \A r \in Awaited' : r = q
  BY <1>4, <1>5, <1>6, AwaitedIs, AwaitedIsNext DEF Apart, Quiet, Awaited
<1>8. q \in Awaited' BY <1>5, <1>6, AwaitedIs, AwaitedIsNext
<1>9. Progress(requests[q]) BY <1>4, <1>6 DEF Agree
<1>10. requests[q] \in Request BY <1>5
<1>11. ASSUME NEW to, NEW copy,
              requests' = [requests EXCEPT ![q].at = to, ![q].copy = copy]
       PROVE requests'[q].at = to /\ requests'[q].copy = copy
  BY <1>5, <1>10, <1>11 DEF Request
<1>12. Progress(requests[q])'
  <2>1. CASE Accept(q)
    <3>1. requests[q].at = "sent" /\ requests'[q].at = "accepted" /\ UNCHANGED serverVars
      BY <1>11, <2>1 DEF Accept, Goes
    <3>2. Agreed' BY <1>2, <1>9, <3>1 DEF Progress, Agreed, serverVars
    <3>3. QED BY <3>1, <3>2 DEF Progress
  <2>2. CASE Refuse(q)
    <3>1. requests[q].at = "sent" /\ requests'[q].at = "error" /\ UNCHANGED serverVars
      BY <1>11, <2>2 DEF Refuse, Goes
    <3>2. Agreed' BY <1>2, <1>9, <3>1 DEF Progress, Agreed, serverVars
    <3>3. QED BY <3>1, <3>2 DEF Progress
  <2>3. CASE Commit(q)
    <3>1. requests'[q].at = "committed" /\ data' = requests[q].files
      BY <1>11, <2>3 DEF Commit, Goes
    <3>2. QED BY <1>5, <3>1 DEF Progress
  <2>4. CASE Record(q)
    <3>1. /\ requests[q].at = "committed" /\ requests'[q].at = "saving" /\ data' = data
          /\ row' = [named |-> TRUE, files |-> requests[q].files] /\ requests'[q].copy = row'
      BY <1>11, <2>4 DEF Record, Goes, Written
    <3>2. data = requests[q].files BY <1>9, <3>1 DEF Progress
    <3>3. QED BY <1>5, <3>1, <3>2 DEF Progress
  <2>5. CASE SaveCopy(q)
    <3>1. /\ requests[q].at = "saving" /\ requests'[q].at = "finishing" /\ data' = data
          /\ row' = WithFiles(q) /\ requests'[q].copy = row'
      BY <1>11, <2>5 DEF SaveCopy, Goes
    <3>2. /\ data = requests[q].files /\ requests[q].copy = row
          /\ row = [named |-> TRUE, files |-> requests[q].files]
      BY <1>9, <3>1 DEF Progress
    <3>3. requests[q].copy \in Row /\ requests[q].copy.files = requests[q].files
      BY <1>10, <3>2 DEF Request
    <3>4. WithFiles(q) = requests[q].copy BY <3>3, SameFiles DEF WithFiles
    <3>5. row' = row BY <3>1, <3>2, <3>4
    <3>6. QED BY <1>5, <3>1, <3>2, <3>5 DEF Progress
  <2>6. CASE Finish(q)
    <3>1. /\ requests[q].at = "finishing" /\ requests'[q].at = "ok" /\ data' = data
          /\ row' = requests[q].copy
      BY <1>11, <2>6 DEF Finish, Goes
    <3>2. /\ data = requests[q].files /\ requests[q].copy = row
          /\ row = [named |-> TRUE, files |-> requests[q].files]
      BY <1>9, <3>1 DEF Progress
    <3>3. QED BY <1>5, <3>1, <3>2 DEF Progress
  <2>7. QED
    BY <1>3, <2>1, <2>2, <2>3, <2>4, <2>5, <2>6
    DEF Serve, ServerStep, Incomplete, Raise, FailUpdate, LoseSave, Crash
<1>13. QED BY <1>7, <1>8, <1>12

LEMMA AgreeNext == TypeOK /\ Apart /\ Agree /\ [Next]_vars => Agree'
<1> SUFFICES ASSUME TypeOK, Apart, Agree, [Next]_vars PROVE Agree' OBVIOUS
<1>1. CASE \/ Clear \/ UNCHANGED vars
           \/ \E n, parts : Join(n, parts) \/ List(n, parts)
           \/ \E i, part : Remove(i, part)
  BY <1>1, ListSteps, AgreeSame
<1>2. CASE DoUploads BY <1>2, AgreeClick
<1>3. ASSUME NEW q \in Sends, Serve(q) PROVE Agree' BY <1>3, AgreeServe
<1>4. ASSUME NEW q \in Sends, Answer(q) PROVE Agree' BY <1>4, AgreeAnswer
<1>5. ASSUME NEW q \in Sends, TimeOut(q) PROVE Agree' BY <1>5, AgreeTimeOut
<1>6. QED BY <1>1, <1>2, <1>3, <1>4, <1>5 DEF Next

(* With uploads kept apart, no time-out and no fault, what the row names is   *)
(* what GeoServer has and what the page showed as done, whenever the page     *)
(* waits for nothing.                                                         *)
THEOREM PageRowAndDataAgreeCorrect == Spec => []PageRowAndDataAgree
<1>1. Spec => []TypeOK BY TypeCorrect
<1>2. Spec => []Apart BY <1>1, ApartInit, ApartNext, PTL DEF Spec
<1>3. Spec => []Agree BY <1>1, <1>2, AgreeInit, AgreeNext, PTL DEF Spec
<1>4. QED BY <1>3, AgreeIsProperty, PTL

-----------------------------------------------------------------------------
\* As long as no files were added to a listed layer, a layer of the dataset's
\* name has no file but those of its main file's drop; so has what is sent of
\* it, and what is imported is whole.
ListedSeen == \A i \in layers : infos[i].name = Ours => Ours \in seen
OneDrop(info) == info.name = Ours => info.rest \subseteq {info.main}
SentWhole(r) == r.name = Ours => r.files.rest \in {0, r.files.shp}
Valided(r) == r.at = "accepted" => r.name = Ours /\ r.files.rest # 0
ListWhole == ListedSeen /\ \A i \in Ids : OneDrop(infos[i])
RequestsWhole == \A q \in Sends : SentWhole(requests[q])
RequestsValid == \A q \in Sends : Valided(requests[q])
DataWhole == data.shp = data.rest
Whole == RequestsValid /\ (~mixed => ListWhole /\ RequestsWhole /\ DataWhole)

LEMMA WholeIsProperty == Whole => OneShapefile
BY DEF Whole, OneShapefile, DataWhole

LEMMA WholeInit == Init => Whole
<1> SUFFICES ASSUME Init PROVE Whole OBVIOUS
<1>1. infos = [i \in Ids |-> Blank] /\ layers = {} /\ requests = [q \in Sends |-> Unsent]
      /\ data = Start
  BY DEF Init
<1>2. ListWhole BY <1>1 DEF ListWhole, ListedSeen, OneDrop, Blank
<1>3. RequestsWhole /\ RequestsValid
  BY <1>1 DEF RequestsWhole, RequestsValid, SentWhole, Valided, Unsent, Start
<1>4. DataWhole BY <1>1 DEF DataWhole, Start
<1>5. QED BY <1>2, <1>3, <1>4 DEF Whole

LEMMA SentIsWhole ==
    ASSUME ListType, NEW i \in Ids, OneDrop(infos[i])
    PROVE SentWhole(Sent(i))
<1>1. infos[i] \in Info BY DEF ListType
<1>2. Newest(infos[i].rest) \in infos[i].rest \union {0}
  BY <1>1, NewestIsOne DEF Info
<1>3. /\ Sent(i).name = infos[i].name /\ Sent(i).files.shp = infos[i].main
      /\ Sent(i).files.rest = Newest(infos[i].rest)
  BY DEF Sent, FormData
<1>4. QED BY <1>2, <1>3 DEF SentWhole, OneDrop

LEMMA WholeJoin ==
    ASSUME TypeOK, Whole, NEW n \in Names, NEW parts, Join(n, parts)
    PROVE Whole'
<1>1. PICK i \in ListedAs(n) :
        infos' = [infos EXCEPT ![i].shp = @ \union Brought("shp", parts),
                               ![i].rest = @ \union Brought("rest", parts)]
  BY DEF Join
<1>2. i \in layers /\ i \in Ids /\ infos[i].name = n BY TypeParts DEF ListType, ListedAs
<1>3. infos \in [Ids -> Info] /\ infos[i] \in Info BY <1>2, TypeParts DEF ListType
<1>4. infos'[i].name = n BY <1>1, <1>2, <1>3 DEF Info
<1>5. \A j \in Ids \ {i} : infos'[j] = infos[j] BY <1>1, <1>3
<1>6. requests' = requests /\ data' = data /\ layers' = layers /\ seen' = seen \union {n}
      /\ mixed' = (mixed \/ n \in seen)
  BY DEF Join, Dropped, serverVars
<1>7. RequestsValid' BY <1>6 DEF Whole, RequestsValid
<1>8. ASSUME ~mixed' PROVE ListWhole' /\ RequestsWhole' /\ DataWhole'
  <2>1. ListWhole /\ RequestsWhole /\ DataWhole /\ n \notin seen BY <1>6, <1>8 DEF Whole
  <2>2. n # Ours BY <1>2, <2>1 DEF ListWhole, ListedSeen
  <2>3. ListedSeen'
    BY <1>2, <1>4, <1>5, <1>6, <2>1, <2>2, TypeParts DEF ListWhole, ListedSeen, ListType
  <2>4. \A j \in Ids : OneDrop(infos'[j])
    BY <1>4, <1>5, <2>1, <2>2 DEF ListWhole, OneDrop
  <2>5. ListWhole' BY <2>3, <2>4 DEF ListWhole, OneDrop
  <2>6. QED BY <1>6, <2>1, <2>5 DEF RequestsWhole, DataWhole
<1>9. QED BY <1>7, <1>8 DEF Whole

LEMMA WholeList ==
    ASSUME TypeOK, Whole, NEW n \in Names, NEW parts, List(n, parts)
    PROVE Whole'
<1>1. drops + 1 \in Ids BY DroppedTypes DEF List
<1>2. infos' = [infos EXCEPT ![drops + 1] =
                  [name |-> n, shp |-> Brought("shp", parts),
                   rest |-> Brought("rest", parts), main |-> drops + 1]]
  BY DEF List, HasType
<1>3. infos \in [Ids -> Info] BY TypeParts DEF ListType
<1>4. infos'[drops + 1].name = n /\ OneDrop(infos'[drops + 1])
  BY <1>1, <1>2, <1>3 DEF OneDrop, Brought
<1>5. \A j \in Ids \ {drops + 1} : infos'[j] = infos[j] BY <1>2, <1>3
<1>6. requests' = requests /\ data' = data /\ layers' = layers \union {drops + 1}
      /\ seen' = seen \union {n} /\ mixed' = (mixed \/ n \in seen)
  BY DEF List, Dropped, serverVars
<1>7. RequestsValid' BY <1>6 DEF Whole, RequestsValid
<1>8. ASSUME ~mixed' PROVE ListWhole' /\ RequestsWhole' /\ DataWhole'
  <2>1. ListWhole /\ RequestsWhole /\ DataWhole BY <1>6, <1>8 DEF Whole
  <2>2. ListedSeen'
    BY <1>4, <1>5, <1>6, <2>1, TypeParts DEF ListWhole, ListedSeen, ListType
  <2>3. \A j \in Ids : OneDrop(infos'[j]) BY <1>4, <1>5, <2>1 DEF ListWhole
  <2>4. ListWhole' BY <2>2, <2>3 DEF ListWhole, OneDrop
  <2>5. QED BY <1>6, <2>1, <2>4 DEF RequestsWhole, DataWhole
<1>9. QED BY <1>7, <1>8 DEF Whole

LEMMA WholeRemove ==
    ASSUME TypeOK, Whole, NEW i \in Ids, NEW part, Remove(i, part)
    PROVE Whole'
<1> DEFINE info == Without(infos[i], part)
<1>1. infos \in [Ids -> Info] /\ infos[i] \in Info BY TypeParts DEF ListType
<1>2. info.main = infos[i].main /\ info.name = infos[i].name /\ info.rest \subseteq infos[i].rest
  BY <1>1, WithoutIsInfo
<1>3. infos' = [infos EXCEPT ![i] = info] BY DEF Remove
<1>4. \/ layers' = layers /\ seen' = seen
      \/ layers' = layers \ ListedAs(Safe[info.name]) /\ seen' = seen \ {info.name}
  BY DEF Remove
<1>5. requests' = requests /\ data' = data /\ mixed' = mixed BY DEF Remove, serverVars
<1> HIDE DEF info
<1>6. infos'[i] = info /\ \A j \in Ids \ {i} : infos'[j] = infos[j] BY <1>1, <1>3
<1>7. \A j \in Ids : infos'[j].name = infos[j].name BY <1>2, <1>6
<1>8. RequestsValid' BY <1>5 DEF Whole, RequestsValid
<1>9. ASSUME ~mixed' PROVE ListWhole' /\ RequestsWhole' /\ DataWhole'
  <2>1. ListWhole /\ RequestsWhole /\ DataWhole BY <1>5, <1>9 DEF Whole
  <2>2. layers \subseteq Ids BY TypeParts DEF ListType
  <2>3. ListedSeen'
    <3>1. CASE layers' = layers /\ seen' = seen
      BY <1>7, <2>1, <2>2, <3>1 DEF ListWhole, ListedSeen
    <3>2. CASE layers' = layers \ ListedAs(Safe[info.name]) /\ seen' = seen \ {info.name}
      <4>1. CASE info.name = Ours
        BY <1>7, <2>2, <3>2, <4>1, ConstantsAssumption DEF ListedSeen, ListedAs
      <4>2. CASE info.name # Ours
        BY <1>7, <2>1, <2>2, <3>2, <4>2 DEF ListWhole, ListedSeen
      <4>3. QED BY <4>1, <4>2
    <3>3. QED BY <1>4, <3>1, <3>2
  <2>4. \A j \in Ids : OneDrop(infos'[j]) BY <1>2, <1>6, <2>1 DEF ListWhole, OneDrop
  <2>5. ListWhole' BY <2>3, <2>4 DEF ListWhole, OneDrop
  <2>6. QED BY <1>5, <2>1, <2>5 DEF RequestsWhole, DataWhole
<1>10. QED BY <1>8, <1>9 DEF Whole

LEMMA WholeClear == ASSUME Whole, Clear PROVE Whole'
<1>1. infos' = infos /\ requests' = requests /\ data' = data /\ mixed' = mixed /\ layers' = {}
  BY DEF Clear, serverVars
<1>2. ListWhole => ListWhole' BY <1>1 DEF ListWhole, ListedSeen, OneDrop
<1>3. RequestsWhole' = RequestsWhole /\ RequestsValid' = RequestsValid /\ DataWhole' = DataWhole
  BY <1>1 DEF RequestsWhole, RequestsValid, DataWhole, SentWhole, Valided
<1>4. QED BY <1>1, <1>2, <1>3 DEF Whole

\* A layer sent, and others no longer awaited, keep what is sent whole.
LEMMA WholeSends ==
    ASSUME TypeOK, Whole, UNCHANGED <<listVars, serverVars>>,
           \A r \in Sends :
              \/ /\ requests'[r].name = requests[r].name
                 /\ requests'[r].files = requests[r].files
                 /\ requests'[r].at = requests[r].at
              \/ requests'[r] = Sent(r[2])
    PROVE Whole'
<1>1. infos' = infos /\ layers' = layers /\ seen' = seen /\ mixed' = mixed /\ data' = data
  BY DEF listVars, serverVars
<1>2. \A r \in Sends : Sent(r[2]).at = "sent" BY DEF Sent
<1>3. RequestsValid'
  <2>1. \A r \in Sends : Valided(requests'[r]) BY <1>2 DEF Whole, RequestsValid, Valided
  <2>2. QED BY <2>1 DEF RequestsValid, Valided
<1>4. ASSUME ~mixed' PROVE ListWhole' /\ RequestsWhole' /\ DataWhole'
  <2>1. ListWhole /\ RequestsWhole /\ DataWhole BY <1>1, <1>4 DEF Whole
  <2>2. \A r \in Sends : SentWhole(Sent(r[2]))
    <3>1. \A r \in Sends : r[2] \in Ids BY DEF Sends
    <3>2. ListType BY TypeParts
    <3>3. QED BY <2>1, <3>1, <3>2, SentIsWhole DEF ListWhole
  <2>3. \A r \in Sends : SentWhole(requests'[r])
    BY <2>1, <2>2 DEF RequestsWhole, SentWhole
  <2>4. RequestsWhole' BY <2>3 DEF RequestsWhole, SentWhole
  <2>5. ListWhole' /\ DataWhole'
    BY <1>1, <2>1 DEF ListWhole, ListedSeen, OneDrop, DataWhole
  <2>6. QED BY <2>4, <2>5
<1>5. QED BY <1>3, <1>4 DEF Whole

LEMMA WholeClick == ASSUME TypeOK, Whole, DoUploads PROVE Whole'
<1>1. PICK s \in Sends : requests' = [requests EXCEPT ![s] = Sent(s[2])] BY ClickRequests
<1>2. requests \in [Sends -> Request] BY TypeParts DEF RequestType
<1>3. requests'[s] = Sent(s[2]) /\ \A r \in Sends \ {s} : requests'[r] = requests[r]
  BY <1>1, <1>2
<1>4. UNCHANGED <<listVars, serverVars>> BY DEF DoUploads
<1>5. QED BY <1>3, <1>4, WholeSends

LEMMA WholeEnd ==
    ASSUME TypeOK, Whole, NEW q \in Sends, NEW verdict, Ended(q, verdict),
           UNCHANGED <<listVars, serverVars>>
    PROVE Whole'
<1>1. requests[q] \in Request BY TypeParts DEF RequestType
<1>2. requests'[q] = [requests[q] EXCEPT !.waited = FALSE]
        => /\ requests'[q].name = requests[q].name /\ requests'[q].files = requests[q].files
           /\ requests'[q].at = requests[q].at
  BY <1>1 DEF Request
<1>3. CASE /\ requests'[q] = [requests[q] EXCEPT !.waited = FALSE]
           /\ \A r \in Sends \ {q} : requests'[r] = requests[r]
  BY <1>2, <1>3, WholeSends
<1>4. ASSUME NEW s \in Sends,
             requests'[s] = Sent(s[2]),
             q # s => requests'[q] = [requests[q] EXCEPT !.waited = FALSE],
             \A r \in Sends \ {q, s} : requests'[r] = requests[r]
      PROVE Whole'
  BY <1>2, <1>4, WholeSends
<1>5. QED BY <1>3, <1>4, EndRequests

\* Only what was valid is imported.
LEMMA WholeServe == ASSUME TypeOK, Whole, NEW q \in Sends, Serve(q) PROVE Whole'
<1>1. /\ requests'[q].files = requests[q].files /\ requests'[q].name = requests[q].name
      /\ \A r \in Sends \ {q} : requests'[r] = requests[r]
      /\ requests \in [Sends -> Request] /\ requests' \in [Sends -> Request]
  BY ServeMoves
<1>2. infos' = infos /\ layers' = layers /\ seen' = seen /\ mixed' = mixed
  BY DEF Serve, listVars
<1>3. requests[q] \in Request BY <1>1
<1>4. ASSUME NEW to, NEW copy,
             requests' = [requests EXCEPT ![q].at = to, ![q].copy = copy]
      PROVE requests'[q].at = to
  BY <1>1, <1>3, <1>4 DEF Request
<1>5. /\ requests'[q].at = "accepted" => Valid(q)
      /\ data' \in {data, requests[q].files}
      /\ data' = requests[q].files => data' = data \/ requests[q].at = "accepted"
  <2>1. CASE Accept(q) BY <2>1 DEF Accept, serverVars
  <2>2. CASE Refuse(q) BY <1>4, <2>2 DEF Refuse, Goes, serverVars
  <2>3. CASE Commit(q) BY <1>4, <2>3 DEF Commit, Goes
  <2>4. CASE Record(q) BY <1>4, <2>4 DEF Record, Goes
  <2>5. CASE Incomplete(q) BY <1>4, <2>5 DEF Incomplete, Goes
  <2>6. CASE Raise(q) BY <1>4, <2>6 DEF Raise, Goes
  <2>7. CASE SaveCopy(q) BY <1>4, <2>7 DEF SaveCopy, Goes
  <2>8. CASE Finish(q) BY <1>4, <2>8 DEF Finish, Goes
  <2>9. CASE FailUpdate(q) BY <1>4, <2>9 DEF FailUpdate, Goes
  <2>10. CASE Crash(q) BY <1>4, <2>10 DEF Crash, Goes
  <2>11. CASE LoseSave(q) BY <1>4, <2>11 DEF LoseSave, Goes
  <2>12. QED
    BY <2>1, <2>2, <2>3, <2>4, <2>5, <2>6, <2>7, <2>8, <2>9, <2>10, <2>11
    DEF Serve, ServerStep
<1>6. RequestsValid'
  <2>1. \A r \in Sends : Valided(requests'[r])
    BY <1>1, <1>5 DEF Whole, RequestsValid, Valided, Valid
  <2>2. QED BY <2>1 DEF RequestsValid, Valided
<1>7. ASSUME ~mixed' PROVE ListWhole' /\ RequestsWhole' /\ DataWhole'
  <2>1. ListWhole /\ RequestsWhole /\ DataWhole BY <1>2, <1>7 DEF Whole
  <2>2. ListWhole' BY <1>2, <2>1 DEF ListWhole, ListedSeen, OneDrop
  <2>3. \A r \in Sends : SentWhole(requests'[r]) BY <1>1, <2>1 DEF RequestsWhole, SentWhole
  <2>4. RequestsWhole' BY <2>3 DEF RequestsWhole, SentWhole
  <2>5. DataWhole'
    <3>1. CASE data' = data BY <2>1, <3>1 DEF DataWhole
    <3>2. CASE data' # data
      <4>1. data' = requests[q].files /\ requests[q].at = "accepted" BY <1>5, <3>2
      <4>2. Valided(requests[q]) /\ SentWhole(requests[q])
        BY <2>1 DEF Whole, RequestsValid, RequestsWhole
      <4>3. requests[q].files.rest = requests[q].files.shp
        BY <4>1, <4>2 DEF Valided, SentWhole
      <4>4. QED BY <4>1, <4>3 DEF DataWhole
    <3>3. QED BY <3>1, <3>2
  <2>6. QED BY <2>2, <2>4, <2>5
<1>8. QED BY <1>6, <1>7 DEF Whole

LEMMA WholeSame == ASSUME Whole, UNCHANGED vars PROVE Whole'
BY DEF Whole, ListWhole, ListedSeen, OneDrop, RequestsWhole, SentWhole, RequestsValid,
       Valided, DataWhole, vars, listVars, serverVars

LEMMA WholeNext == TypeOK /\ Whole /\ [Next]_vars => Whole'
<1> SUFFICES ASSUME TypeOK, Whole, [Next]_vars PROVE Whole' OBVIOUS
<1>1. CASE UNCHANGED vars BY <1>1, WholeSame
<1>2. ASSUME NEW n \in Names, NEW parts, Join(n, parts) \/ List(n, parts) PROVE Whole'
  BY <1>2, WholeJoin, WholeList
<1>3. ASSUME NEW i \in Ids, NEW part, Remove(i, part) PROVE Whole' BY <1>3, WholeRemove
<1>4. CASE Clear BY <1>4, WholeClear
<1>5. CASE DoUploads BY <1>5, WholeClick
<1>6. ASSUME NEW q \in Sends, Serve(q) PROVE Whole' BY <1>6, WholeServe
<1>7. ASSUME NEW q \in Sends, Answer(q) PROVE Whole' BY <1>7, WholeEnd DEF Answer
<1>8. ASSUME NEW q \in Sends, TimeOut(q) PROVE Whole' BY <1>8, WholeEnd DEF TimeOut
<1>9. QED BY <1>1, <1>2, <1>3, <1>4, <1>5, <1>6, <1>7, <1>8 DEF Next

(* GeoServer never holds the .shp of one drop with the .dbf of another unless *)
(* files were added to a layer already listed, for any names, drops, uploads, *)
(* time-outs and faults.                                                      *)
THEOREM OneShapefileCorrect == Spec => []OneShapefile
<1>1. Spec => []TypeOK BY TypeCorrect
<1>2. Spec => []Whole BY <1>1, WholeInit, WholeNext, PTL DEF Spec
<1>3. QED BY <1>2, WholeIsProperty, PTL
=============================================================================
