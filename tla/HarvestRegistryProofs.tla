------------------------- MODULE HarvestRegistryProofs -------------------------
(***************************************************************************)
(* What holds of the list of harvestable resources for any identifiers,    *)
(* titles, page size and bounds.  Whatever happens: types, and that a      *)
(* refresh which nothing disturbs ends in step with the remote service.    *)
(* As long as a refresh or a harvesting session starts only when the       *)
(* previous refresh has closed and no administrator saves or deletes a     *)
(* copy of a row: that the list keeps the promise of ResourceList, and     *)
(* that local resources go with their rows.                                *)
(***************************************************************************)
EXTENDS HarvestRegistry, CommonLemmas

-----------------------------------------------------------------------------
(* Constants, rows and copies of rows. *)

LEMMA Constants ==
    /\ PageSize \in Nat \ {0} /\ Cardinality(Ids) \in Nat /\ IsFiniteSet(Ids)
    /\ Orphans \in BOOLEAN /\ NewByDefault \in BOOLEAN
    /\ (CHOOSE i \in Ids : TRUE) \in Ids /\ (CHOOSE t \in Titles : TRUE) \in Titles
  <1>1. IsFiniteSet(Ids) /\ Ids # {} /\ Titles # {}
    BY ConstantsAssumption, Zenon
  <1>2. Cardinality(Ids) \in Nat
    BY <1>1, FS_CardinalityType, Zenon
  <1>3. (CHOOSE i \in Ids : TRUE) \in Ids /\ (CHOOSE t \in Titles : TRUE) \in Titles
    BY <1>1, Zenon
  <1>4. PageSize \in Nat \ {0} /\ Orphans \in BOOLEAN /\ NewByDefault \in BOOLEAN
    BY ConstantsAssumption, Zenon
  <1> QED
    BY <1>1, <1>2, <1>3, <1>4

LEMMA MostPages == PageCount(Cardinality(Ids)) \in Nat /\ Pages \subseteq Nat \ {0}
  <1>1. PageCount(Cardinality(Ids)) \in Nat
    BY Constants, PagesGrow DEF PageCount
  <1> QED
    BY <1>1 DEF Pages

\* Rows, and copies of rows, that were found by time t.
Seen(t) == {x \in Row : x.at <= t}
Entry == [id : Ids, title : Titles]
Copy  == [id : Ids, row : Row]

SessionPcs == {"none", "pages", "error", "stale", "mark", "over"}
PagePcs    == {"none", "queued", "find", "save", "done", "error"}
MemberPcs  == {"none", "queued", "work", "link", "last", "done"}

SessionRecord(t) == [pc : SessionPcs, checked : -1..(t - 1), abort : BOOLEAN,
                     drop : SUBSET Copy, found : SUBSET Ids, calm : BOOLEAN]
PageRecord(t)    == [pc : PagePcs, todo : Seq(Entry), row : Seen(t)]
MemberRecord(t)  == [pc : MemberPcs, row : Seen(t)]
RequestRecord(t) == [op : {"none", "toggle", "delete"}, id : Ids, row : Seen(t)]
UsedRecord       == [changes : Nat, requests : Nat, pks : Nat]

ServiceTypes == remote \in Seq(Ids) /\ Distinct(remote) /\ title \in [Ids -> Titles]
MarkTypes    == clock \in Nat /\ checked \in -1..(clock - 1)
TableTypes   == rows \in [Ids -> Seen(clock)] /\ local \subseteq Ids
BusyTypes    == busy \in BOOLEAN
SessionTypes == refresh \in [Refreshes -> SessionRecord(clock)]
PageTypes    == /\ page \in [Refreshes -> [Pages -> PageRecord(clock)]]
                /\ \A r \in Refreshes, p \in Pages :
                      page[r][p].pc = "save" => page[r][p].todo # <<>>
MemberTypes  == member \in [Ids -> MemberRecord(clock)]
PeopleTypes  == user \in RequestRecord(clock) /\ checker \in {NoCheck} \cup -1..(clock - 1)
UsedTypes    == used \in UsedRecord

Types == /\ ServiceTypes /\ MarkTypes /\ TableTypes /\ BusyTypes /\ SessionTypes
         /\ PageTypes /\ MemberTypes /\ PeopleTypes /\ UsedTypes

\* What the actions make of a row is a row.
LEMMA SeenRows ==
    ASSUME NEW t \in Nat
    PROVE  /\ NoRow \in Seen(t)
           /\ \A x \in Seen(t) : /\ x \in Row /\ x.at <= t /\ x.pk \in Nat
                                 /\ [x EXCEPT !.geo = TRUE] \in Seen(t)
                                 /\ [x EXCEPT !.geo = FALSE] \in Seen(t)
                                 /\ [x EXCEPT !.wanted = ~@] \in Seen(t)
                                 /\ [x EXCEPT !.at = t] \in Seen(t)
           /\ \A n \in Nat, i \in Titles :
                [pk |-> n, title |-> i, wanted |-> NewByDefault, geo |-> FALSE, at |-> t]
                   \in Seen(t)
  <1>1. NoRow \in Seen(t)
    BY Constants DEF Seen, Row, NoRow
  <1>2. \A n \in Nat, i \in Titles :
          [pk |-> n, title |-> i, wanted |-> NewByDefault, geo |-> FALSE, at |-> t] \in Seen(t)
    BY Constants DEF Seen, Row
  <1>3. ASSUME NEW x \in Seen(t)
        PROVE  /\ x \in Row /\ x.at <= t /\ x.pk \in Nat
               /\ [x EXCEPT !.geo = TRUE] \in Seen(t)
               /\ [x EXCEPT !.geo = FALSE] \in Seen(t)
               /\ [x EXCEPT !.wanted = ~@] \in Seen(t)
               /\ [x EXCEPT !.at = t] \in Seen(t)
    <2>1. x \in Row /\ x.at <= t
      BY DEF Seen
    <2>2. x.pk \in Nat
      BY <2>1 DEF Row
    <2>3. \A b \in BOOLEAN : [x EXCEPT !.geo = b] \in Row /\ [x EXCEPT !.geo = b].at = x.at
      BY <2>1 DEF Row
    <2>4. \A b \in BOOLEAN : [x EXCEPT !.wanted = b] \in Row /\ [x EXCEPT !.wanted = b].at = x.at
      BY <2>1 DEF Row
    <2>5. [x EXCEPT !.at = t] \in Row /\ [x EXCEPT !.at = t].at = t
      BY <2>1 DEF Row
    <2>6. x.wanted \in BOOLEAN
      BY <2>1 DEF Row
    <2>7. [x EXCEPT !.wanted = ~@] \in Seen(t)
      <3>1. CASE x.wanted = TRUE
        BY <2>1, <2>4, <3>1 DEF Seen
      <3>2. CASE x.wanted = FALSE
        BY <2>1, <2>4, <3>2 DEF Seen
      <3> QED BY <2>6, <3>1, <3>2
    <2>8. [x EXCEPT !.geo = TRUE] \in Seen(t) /\ [x EXCEPT !.geo = FALSE] \in Seen(t)
      BY <2>1, <2>3 DEF Seen
    <2>9. [x EXCEPT !.at = t] \in Seen(t)
      <3>1. t <= t
        OBVIOUS
      <3> QED BY <2>5, <3>1 DEF Seen
    <2> HIDE DEF Seen
    <2> QED BY <2>1, <2>2, <2>7, <2>8, <2>9, Zenon
  <1> QED
    BY <1>1, <1>2, <1>3

\* Later, what was seen still is.
LEMMA SeenLater ==
    ASSUME NEW t \in Nat
    PROVE  /\ Seen(t) \subseteq Seen(t + 1) /\ SessionRecord(t) \subseteq SessionRecord(t + 1)
           /\ PageRecord(t) \subseteq PageRecord(t + 1)
           /\ MemberRecord(t) \subseteq MemberRecord(t + 1)
           /\ RequestRecord(t) \subseteq RequestRecord(t + 1)
  <1>1. Seen(t) \subseteq Seen(t + 1)
    BY DEF Seen, Row
  <1>2. -1..(t - 1) \subseteq -1..(t + 1 - 1)
    OBVIOUS
  <1> QED
    BY <1>1, <1>2 DEF SessionRecord, PageRecord, MemberRecord, RequestRecord

LEMMA Nothing ==
    ASSUME NEW t \in Nat
    PROVE  /\ NotStarted \in SessionRecord(t) /\ NoPage \in PageRecord(t)
           /\ NoMember \in MemberRecord(t) /\ NoRequest \in RequestRecord(t)
  BY SeenRows, Constants DEF NotStarted, NoPage, NoMember, NoRequest, SessionRecord, SessionPcs,
     PageRecord, PagePcs, MemberRecord, MemberPcs, RequestRecord

\* What a state has of one refresh, one page, one row and one member.
LEMMA RefreshNow ==
    ASSUME Types, NEW r \in Refreshes
    PROVE  /\ refresh[r] \in SessionRecord(clock)
           /\ refresh[r].pc \in SessionPcs /\ refresh[r].abort \in BOOLEAN
           /\ refresh[r].calm \in BOOLEAN /\ refresh[r].drop \subseteq Copy
           /\ refresh[r].found \subseteq Ids
           /\ refresh[r].checked \in -1..(clock - 1)
  BY DEF Types, SessionTypes, SessionRecord

LEMMA PageNow ==
    ASSUME Types, NEW r \in Refreshes, NEW p \in Pages
    PROVE  /\ page[r][p] \in PageRecord(clock) /\ page[r][p].pc \in PagePcs
           /\ page[r][p].todo \in Seq(Entry) /\ page[r][p].row \in Seen(clock)
           /\ page[r][p].pc = "save" => page[r][p].todo # <<>>
  <1>1. page[r][p] \in PageRecord(clock) /\ (page[r][p].pc = "save" => page[r][p].todo # <<>>)
    BY DEF Types, PageTypes
  <1> QED
    BY <1>1 DEF PageRecord

LEMMA RowNow ==
    ASSUME Types, NEW i \in Ids
    PROVE  /\ rows[i] \in Seen(clock) /\ clock \in Nat
           /\ member[i] \in MemberRecord(clock) /\ member[i].pc \in MemberPcs
           /\ member[i].row \in Seen(clock)
  <1>1. rows[i] \in Seen(clock) /\ member[i] \in MemberRecord(clock) /\ clock \in Nat
    BY DEF Types, TableTypes, MemberTypes, MarkTypes
  <1> QED
    BY <1>1 DEF MemberRecord

\* What remains to be read of a page.
LEMMA TodoNow ==
    ASSUME Types, NEW r \in Refreshes, NEW p \in Pages, page[r][p].todo # <<>>
    PROVE  LET todo == page[r][p].todo
           IN  /\ Head(todo) \in Entry /\ Head(todo).id \in Ids /\ Head(todo).title \in Titles
               /\ Head(todo) = todo[1] /\ Tail(todo) \in Seq(Entry) /\ Len(todo) \in Nat \ {0}
               /\ Len(Tail(todo)) = Len(todo) - 1
               /\ \A k \in 1..Len(Tail(todo)) : Tail(todo)[k] = todo[k + 1]
  <1> DEFINE todo == page[r][p].todo
  <1>1. todo \in Seq(Entry) /\ todo # <<>>
    BY PageNow
  <1> HIDE DEF todo
  <1>2. /\ Head(todo) \in Entry /\ Head(todo) = todo[1] /\ Tail(todo) \in Seq(Entry)
        /\ Len(todo) \in Nat \ {0} /\ Len(Tail(todo)) = Len(todo) - 1
        /\ \A k \in 1..Len(Tail(todo)) : Tail(todo)[k] = todo[k + 1]
    BY <1>1, HeadTailProperties
  <1>3. Head(todo).id \in Ids /\ Head(todo).title \in Titles
    BY <1>2 DEF Entry
  <1> QED
    BY <1>2, <1>3 DEF todo

-----------------------------------------------------------------------------
(* Types: what each action keeps. *)

LEMMA InitTypes == Init => Types
  <1> SUFFICES ASSUME Init PROVE Types
    OBVIOUS
  <1>1. remote \in Seq(Ids) /\ Distinct(remote)
    <2>1. <<>> \in Seq(Ids) /\ Distinct(<<>>)
      BY DEF Distinct
    <2>2. ASSUME NEW f \in SetToSeqs(Ids)
          PROVE  f \in Seq(Ids) /\ Distinct(f)
      <3> DEFINE n == Cardinality(Ids)
      <3>1. n \in Nat /\ f \in [1..n -> Ids] /\ \A i, j \in 1..n : i # j => f[i] # f[j]
        BY <2>2, Constants DEF SetToSeqs
      <3> HIDE DEF n
      <3>2. f \in Seq(Ids) /\ Len(f) = n
        BY <3>1
      <3> QED BY <3>1, <3>2 DEF Distinct
    <2> QED BY <2>1, <2>2 DEF Init
  <1>2. title \in [Ids -> Titles]
    BY Constants DEF Init, NoRow
  <1>3. clock = 0 /\ checked \in -1..(clock - 1) /\ busy = FALSE /\ clock \in Nat
    BY DEF Init
  <1>4. NoRow \in Seen(clock) /\ NotStarted \in SessionRecord(clock)
        /\ NoPage \in PageRecord(clock) /\ NoMember \in MemberRecord(clock)
        /\ NoRequest \in RequestRecord(clock)
    BY <1>3, SeenRows, Nothing
  <1>5. TableTypes /\ SessionTypes /\ MemberTypes /\ PeopleTypes
    BY <1>4 DEF Init, TableTypes, SessionTypes, MemberTypes, PeopleTypes
  <1>6. PageTypes
    <2>1. NoPage.pc = "none"
      BY DEF NoPage
    <2> QED BY <1>4, <2>1 DEF Init, PageTypes
  <1>7. UsedTypes
    BY DEF Init, UsedTypes, UsedRecord
  <1> QED
    BY <1>1, <1>2, <1>3, <1>5, <1>6, <1>7 DEF Types, ServiceTypes, MarkTypes, BusyTypes

\* A step that changes one page.
LEMMA OnePage ==
    ASSUME Types, NEW r \in Refreshes, NEW p \in Pages, NEW x \in PageRecord(clock),
           page' = [page EXCEPT ![r][p] = x], clock' = clock,
           x.pc = "save" => x.todo # <<>>
    PROVE  /\ PageTypes' /\ page'[r][p] = x
           /\ \A q \in Refreshes, o \in Pages : q # r \/ o # p => page'[q][o] = page[q][o]
  <1>1. page \in [Refreshes -> [Pages -> PageRecord(clock)]]
    BY DEF Types, PageTypes
  <1>2. /\ page' \in [Refreshes -> [Pages -> PageRecord(clock)]] /\ page'[r][p] = x
        /\ \A q \in Refreshes, o \in Pages : q # r \/ o # p => page'[q][o] = page[q][o]
    BY <1>1
  <1>3. \A q \in Refreshes, o \in Pages :
          page'[q][o].pc = "save" => page'[q][o].todo # <<>>
    BY <1>2 DEF Types, PageTypes
  <1> QED
    BY <1>2, <1>3 DEF PageTypes

\* A step that changes one refresh.
LEMMA OneRefresh ==
    ASSUME Types, NEW r \in Refreshes, NEW x \in SessionRecord(clock),
           refresh' = [refresh EXCEPT ![r] = x], clock' = clock
    PROVE  /\ SessionTypes' /\ refresh'[r] = x
           /\ \A q \in Refreshes : q # r => refresh'[q] = refresh[q]
  BY DEF Types, SessionTypes

LEMMA DisturbTypes ==
    ASSUME Types, refresh' = Disturb(refresh)
    PROVE  /\ refresh' \in [Refreshes -> SessionRecord(clock)]
           /\ \A r \in Refreshes :
                 /\ ~Open(r) => refresh'[r] = refresh[r]
                 /\ Open(r) => refresh'[r] = [refresh[r] EXCEPT !.calm = FALSE]
                 /\ refresh'[r].pc = refresh[r].pc /\ refresh'[r].found = refresh[r].found
                 /\ refresh'[r].drop = refresh[r].drop /\ refresh'[r].abort = refresh[r].abort
                 /\ refresh'[r].checked = refresh[r].checked
  <1>1. \A r \in Refreshes : [refresh[r] EXCEPT !.calm = FALSE] \in SessionRecord(clock)
    BY RefreshNow DEF SessionRecord
  <1> QED
    BY <1>1, RefreshNow DEF Disturb

LEMMA SameSessions ==
    ASSUME Types, refresh' = Disturb(refresh), \A r \in Refreshes : ~Open(r)
    PROVE  refresh' = refresh
  <1>1. refresh \in [Refreshes -> SessionRecord(clock)]
    BY DEF Types, SessionTypes
  <1>2. /\ refresh' \in [Refreshes -> SessionRecord(clock)]
        /\ \A r \in Refreshes : refresh'[r] = refresh[r]
    BY DisturbTypes
  <1> QED
    BY <1>1, <1>2

LEMMA RemoteChangeTypes == Types /\ RemoteChange => Types'
  <1> SUFFICES ASSUME Types, RemoteChange PROVE Types'
    OBVIOUS
  <1>1. ServiceTypes'
    <2>0. remote \in Seq(Ids) /\ Distinct(remote) /\ title \in [Ids -> Titles]
      BY DEF Types, ServiceTypes
    <2>1. CASE /\ \E i \in Ids \ ToSet(remote), k \in 1..(Len(remote) + 1) :
                     remote' = InsertAt(remote, k, i)
               /\ UNCHANGED title
      <3>1. PICK i \in Ids \ ToSet(remote), k \in 1..(Len(remote) + 1) :
                   remote' = InsertAt(remote, k, i)
        BY <2>1
      <3>2. \A j \in 1..Len(remote) : remote[j] # i
        BY <2>0 DEF ToSet
      <3>3. Longer(remote, k, i) \in Seq(Ids) /\ Distinct(Longer(remote, k, i))
        BY <2>0, <3>2, ListInserted, Zenon
      <3>4. remote' = Longer(remote, k, i)
        BY <3>1, Zenon DEF InsertAt, Longer
      <3> QED BY <2>0, <2>1, <3>3, <3>4 DEF ServiceTypes
    <2>2. CASE /\ \E k \in DOMAIN remote : remote' = RemoveAt(remote, k)
               /\ UNCHANGED title
      <3>1. PICK k \in 1..Len(remote) : remote' = RemoveAt(remote, k)
        BY <2>0, <2>2
      <3>2. Shorter(remote, k) \in Seq(Ids) /\ Distinct(Shorter(remote, k))
        BY <2>0, ListWithout, Zenon
      <3>3. remote' = Shorter(remote, k)
        BY <3>1, Zenon DEF RemoveAt, Shorter
      <3> QED BY <2>0, <2>2, <3>2, <3>3 DEF ServiceTypes
    <2>3. CASE /\ \E i \in ToSet(remote), t \in Titles :
                     t # title[i] /\ title' = [title EXCEPT ![i] = t]
               /\ UNCHANGED remote
      BY <2>0, <2>3 DEF ServiceTypes
    <2> QED BY <2>1, <2>2, <2>3 DEF RemoteChange
  <1>2. refresh' \in [Refreshes -> SessionRecord(clock)]
    BY DisturbTypes DEF RemoteChange
  <1>3. UsedTypes'
    BY DEF RemoteChange, Types, UsedTypes, UsedRecord
  <1> QED
    BY <1>1, <1>2, <1>3 DEF RemoteChange, Types, MarkTypes, TableTypes, BusyTypes, SessionTypes,
       PageTypes, MemberTypes, PeopleTypes, mark, table, work, people

\* What a refresh is sent to do, and its pages.
NotCalm(r)     == [refresh[r] EXCEPT !.calm = FALSE]
Starting(r, s) == [refresh[r] EXCEPT !.pc = s, !.calm = Quiet]
Sent           == [p \in Pages |-> IF p <= PageCount(Len(remote))
                                  THEN [NoPage EXCEPT !.pc = "queued"] ELSE NoPage]

LEMMA StartRefreshIs ==
    ASSUME Types, NEW r \in Refreshes, StartRefresh(r)
    PROVE  /\ MayStart /\ AskedFor /\ refresh[r].pc = "none" /\ busy' = TRUE
           /\ \E s \in {"pages", "error"} :
                 /\ refresh' = [q \in Refreshes |-> IF q = r THEN Starting(r, s)
                                                   ELSE IF Open(q) THEN NotCalm(q)
                                                   ELSE refresh[q]]
                 /\ \/ s = "pages" /\ page' = [page EXCEPT ![r] = Sent]
                    \/ s = "error" /\ page' = page
           /\ UNCHANGED <<service, mark, table, work, people, used>>
  <1>1. refresh[r].pc = "none" /\ ~Open(r)
    BY DEF StartRefresh, Open
  <1>2. refresh \in [Refreshes -> SessionRecord(clock)] /\ refresh[r] \in SessionRecord(clock)
    BY DEF Types, SessionTypes
  <1> DEFINE d == Disturb(refresh)
  <1>3. d = [q \in Refreshes |-> IF Open(q) THEN NotCalm(q) ELSE refresh[q]]
    BY DEF Disturb, NotCalm
  <1>4. PICK s \in {"pages", "error"} :
           /\ refresh' = [d EXCEPT ![r].pc = s, ![r].calm = Quiet]
           /\ \/ s = "pages" /\ page' = [page EXCEPT ![r] = Sent]
              \/ s = "error" /\ page' = page
    BY Zenon DEF StartRefresh, Sent
  <1> HIDE DEF d
  <1>5. d[r] = refresh[r]
    BY <1>1, <1>3
  <1>6. refresh' = [d EXCEPT ![r] = Starting(r, s)]
    BY <1>2, <1>3, <1>4, <1>5 DEF Starting, SessionRecord
  <1>7. refresh' = [q \in Refreshes |-> IF q = r THEN Starting(r, s)
                                      ELSE IF Open(q) THEN NotCalm(q) ELSE refresh[q]]
    BY <1>3, <1>6
  <1> QED
    BY <1>4, <1>7 DEF StartRefresh

LEMMA SentIs == \A p \in Pages : Sent[p] = NoPage \/ Sent[p] = [NoPage EXCEPT !.pc = "queued"]
  BY DEF Sent

LEMMA StartRefreshTypes ==
    ASSUME Types, NEW r \in Refreshes, StartRefresh(r)
    PROVE  Types'
  <1>1. clock' = clock
    BY DEF StartRefresh, mark
  <1>2. SessionTypes'
    <2>1. \A s \in {"pages", "error"} : Starting(r, s) \in SessionRecord(clock)
      <3>1. Quiet \in BOOLEAN
        BY DEF Quiet
      <3> QED BY <3>1, RefreshNow DEF Starting, SessionRecord, SessionPcs
    <2>2. \A q \in Refreshes : NotCalm(q) \in SessionRecord(clock)
      BY RefreshNow DEF NotCalm, SessionRecord
    <2>3. refresh' \in [Refreshes -> SessionRecord(clock)]
      BY <2>1, <2>2, RefreshNow, StartRefreshIs
    <2> QED BY <1>1, <2>3 DEF SessionTypes
  <1>3. PageTypes'
    <2>1. CASE UNCHANGED page
      BY <1>1, <2>1 DEF Types, PageTypes
    <2>2. CASE page' = [page EXCEPT ![r] = [p \in Pages |->
                          IF p <= PageCount(Len(remote))
                          THEN [NoPage EXCEPT !.pc = "queued"] ELSE NoPage]]
      <3>1. [NoPage EXCEPT !.pc = "queued"] \in PageRecord(clock) /\ NoPage \in PageRecord(clock)
        BY Nothing DEF PageRecord, PagePcs, Types, MarkTypes
      <3>2. [NoPage EXCEPT !.pc = "queued"].pc # "save" /\ NoPage.pc # "save"
        BY DEF NoPage
      <3>3. page \in [Refreshes -> [Pages -> PageRecord(clock)]]
        BY DEF Types, PageTypes
      <3> DEFINE fresh == [p \in Pages |-> IF p <= PageCount(Len(remote))
                             THEN [NoPage EXCEPT !.pc = "queued"] ELSE NoPage]
      <3>4. fresh \in [Pages -> PageRecord(clock)] /\ \A p \in Pages : fresh[p].pc # "save"
        BY <3>1, <3>2
      <3> HIDE DEF fresh
      <3>5. /\ page' \in [Refreshes -> [Pages -> PageRecord(clock)]] /\ page'[r] = fresh
            /\ \A q \in Refreshes : q # r => page'[q] = page[q]
        BY <2>2, <3>3, <3>4 DEF fresh
      <3>6. \A q \in Refreshes, p \in Pages : page'[q][p].pc = "save" => page'[q][p].todo # <<>>
        BY <3>4, <3>5 DEF Types, PageTypes
      <3> QED BY <1>1, <3>5, <3>6 DEF PageTypes
    <2> QED BY <2>1, <2>2 DEF StartRefresh
  <1> QED
    BY <1>2, <1>3 DEF StartRefresh, Types, ServiceTypes, MarkTypes, TableTypes, BusyTypes,
       MemberTypes, PeopleTypes, UsedTypes, service, mark, table, work, people

LEMMA AbortRefreshTypes ==
    ASSUME Types, NEW r \in Refreshes, AbortRefresh(r)
    PROVE  Types'
  <1>1. [refresh[r] EXCEPT !.abort = TRUE] \in SessionRecord(clock)
    BY RefreshNow DEF SessionRecord
  <1>2. refresh' = [refresh EXCEPT ![r] = [refresh[r] EXCEPT !.abort = TRUE]]
    BY RefreshNow DEF AbortRefresh
  <1>3. SessionTypes'
    BY <1>1, <1>2, OneRefresh DEF AbortRefresh, mark
  <1> QED
    BY <1>3 DEF AbortRefresh, Types, ServiceTypes, MarkTypes, TableTypes, BusyTypes,
       PageTypes, MemberTypes, PeopleTypes, UsedTypes, service, mark, table, work, people

\* The resources on page p, and the entries a listing of it gives.
PageIds(p) == SubSeq(remote, (p - 1) * PageSize + 1, Min({p * PageSize, Len(remote)}))
Listing(p) == [k \in DOMAIN PageIds(p) |-> [id |-> PageIds(p)[k], title |-> title[PageIds(p)[k]]]]

LEMMA Lesser ==
    ASSUME NEW a \in Nat, NEW b \in Nat
    PROVE  Min({a, b}) \in Nat /\ Min({a, b}) <= a /\ Min({a, b}) <= b /\ Min({a, b}) \in {a, b}
  <1>1. \E x \in {a, b} : \A y \in {a, b} : x <= y
    <2>1. CASE a <= b
      BY <2>1
    <2>2. CASE ~(a <= b)
      <3>1. b <= a
        BY <2>2
      <3> QED BY <3>1
    <2> QED BY <2>1, <2>2
  <1>2. Min({a, b}) \in {a, b} /\ \A y \in {a, b} : Min({a, b}) <= y
    BY <1>1 DEF Min
  <1> QED
    BY <1>2

\* The entries of a page, each the title of a resource at its place in the list.
LEMMA PageIs ==
    ASSUME Types, NEW p \in Pages
    PROVE  /\ PageIds(p) \in Seq(Ids) /\ Listing(p) \in Seq(Entry)
           /\ Len(Listing(p)) = Len(PageIds(p)) /\ Len(PageIds(p)) \in Nat
           /\ \A k \in 1..Len(PageIds(p)) :
                 /\ Listing(p)[k] = [id |-> PageIds(p)[k], title |-> title[PageIds(p)[k]]]
                 /\ \E j \in 1..Len(remote) : PageIds(p)[k] = remote[j]
           /\ \A j \in 1..Len(remote) : (p - 1) * PageSize < j /\ j <= p * PageSize =>
                 \E k \in 1..Len(PageIds(p)) : PageIds(p)[k] = remote[j]
  <1> DEFINE m == (p - 1) * PageSize + 1
             n == Min({p * PageSize, Len(remote)})
             g == SubSeq(remote, m, n)
  <1>0. p \in Nat \ {0} /\ PageSize \in Nat \ {0} /\ remote \in Seq(Ids) /\ Len(remote) \in Nat
        /\ title \in [Ids -> Titles]
    BY MostPages, Constants DEF Types, ServiceTypes
  <1>1. m \in Nat /\ m >= 1 /\ (p - 1) * PageSize \in Nat /\ p * PageSize \in Nat
    BY <1>0
  <1>2. n \in Nat /\ n <= Len(remote) /\ n <= p * PageSize /\ n \in {p * PageSize, Len(remote)}
    BY <1>0, <1>1, Lesser
  <1> HIDE DEF n
  <1>3. \A i \in m..n : remote[i] \in Ids /\ i \in 1..Len(remote)
    BY <1>0, <1>1, <1>2
  <1>4. \A j \in 1..Len(remote) : (p - 1) * PageSize < j /\ j <= p * PageSize => j \in m..n
    BY <1>0, <1>1, <1>2
  <1> HIDE DEF m
  <1>5. /\ g \in Seq(Ids) /\ Len(g) = IF m <= n THEN n - m + 1 ELSE 0
        /\ \A i \in 1..(n - m + 1) : g[i] = remote[m + i - 1]
    BY <1>1, <1>2, <1>3, SubSeqProperties
  <1>6. PageIds(p) = g
    BY DEF PageIds, m, n
  <1> HIDE DEF g
  <1>7. \A k \in 1..Len(g) : m + k - 1 \in m..n /\ g[k] = remote[m + k - 1] /\ g[k] \in Ids
    BY <1>1, <1>2, <1>3, <1>5
  <1>8. \A j \in m..n : j - m + 1 \in 1..Len(g) /\ g[j - m + 1] = remote[j]
    <2> SUFFICES ASSUME NEW j \in m..n
                 PROVE  j - m + 1 \in 1..Len(g) /\ g[j - m + 1] = remote[j]
      OBVIOUS
    <2>1. j - m + 1 \in 1..(n - m + 1) /\ m + (j - m + 1) - 1 = j /\ m <= n
      BY <1>1, <1>2
    <2> QED BY <1>5, <2>1
  <1>9. DOMAIN g = 1..Len(g) /\ Len(g) \in Nat
    BY <1>5
  <1> DEFINE entry(k) == [id |-> g[k], title |-> title[g[k]]]
             l == [k \in 1..Len(g) |-> entry(k)]
  <1>10. \A k \in 1..Len(g) : entry(k) \in Entry
    BY <1>0, <1>7 DEF Entry
  <1> HIDE DEF entry
  <1>11. l \in Seq(Entry) /\ Len(l) = Len(g) /\ \A k \in 1..Len(g) : l[k] = entry(k)
    BY <1>9, <1>10
  <1>12. Listing(p) = l
    BY <1>6, <1>9, Zenon DEF Listing, entry
  <1> HIDE DEF l
  <1>13. \A k \in 1..Len(g) : \E j \in 1..Len(remote) : g[k] = remote[j]
    BY <1>3, <1>7
  <1>14. \A j \in 1..Len(remote) : (p - 1) * PageSize < j /\ j <= p * PageSize =>
           \E k \in 1..Len(g) : g[k] = remote[j]
    BY <1>4, <1>8
  <1> QED
    BY <1>5, <1>6, <1>9, <1>11, <1>12, <1>13, <1>14 DEF entry

\* What the tasks of a refresh make of a page.
Listed(p)         == [pc |-> "find", row |-> NoRow, todo |-> Listing(p)]
PageAt(r, p, s)   == [page[r][p] EXCEPT !.pc = s]
Holding(r, p, c)  == [page[r][p] EXCEPT !.pc = "save", !.row = c]
Shortened(r, p)   == [pc |-> "find", row |-> NoRow, todo |-> Tail(page[r][p].todo)]

LEMMA PageRecords ==
    ASSUME Types, NEW r \in Refreshes, NEW p \in Pages
    PROVE  /\ Listed(p) \in PageRecord(clock)
           /\ \A s \in PagePcs : /\ PageAt(r, p, s) \in PageRecord(clock)
                                 /\ PageAt(r, p, s).pc = s
                                 /\ PageAt(r, p, s).todo = page[r][p].todo
           /\ \A c \in Seen(clock) : /\ Holding(r, p, c) \in PageRecord(clock)
                                     /\ Holding(r, p, c).pc = "save"
                                     /\ Holding(r, p, c).row = c
                                     /\ Holding(r, p, c).todo = page[r][p].todo
           /\ page[r][p].todo # <<>> => Shortened(r, p) \in PageRecord(clock)
  <1>1. Listing(p) \in Seq(Entry)
    BY PageIs
  <1>2. clock \in Nat /\ NoRow \in Seen(clock)
    BY SeenRows DEF Types, MarkTypes
  <1>3. page[r][p] \in PageRecord(clock)
    BY PageNow
  <1>4. page[r][p].todo # <<>> => Tail(page[r][p].todo) \in Seq(Entry)
    BY TodoNow
  <1>5. Listed(p) \in PageRecord(clock)
    BY <1>1, <1>2 DEF Listed, PageRecord, PagePcs
  <1>6. \A s \in PagePcs : /\ PageAt(r, p, s) \in PageRecord(clock)
                           /\ PageAt(r, p, s).pc = s
                           /\ PageAt(r, p, s).todo = page[r][p].todo
    BY <1>3 DEF PageAt, PageRecord
  <1>7. \A c \in Seen(clock) : /\ Holding(r, p, c) \in PageRecord(clock)
                               /\ Holding(r, p, c).pc = "save"
                               /\ Holding(r, p, c).row = c
                               /\ Holding(r, p, c).todo = page[r][p].todo
    BY <1>3 DEF Holding, PageRecord, PagePcs
  <1>8. page[r][p].todo # <<>> => Shortened(r, p) \in PageRecord(clock)
    BY <1>2, <1>4 DEF Shortened, PageRecord, PagePcs
  <1> QED
    BY <1>5, <1>6, <1>7, <1>8

\* Marking a refresh that could not list a page as disturbed.
LEMMA ListPageIs ==
    ASSUME Types, NEW r \in Refreshes, NEW p \in Pages, ListPage(r, p)
    PROVE  /\ page[r][p].pc = "queued"
           /\ \/ /\ page' = [page EXCEPT ![r][p] = Listed(p)]
                 /\ UNCHANGED refresh
              \/ /\ page' = [page EXCEPT ![r][p] = PageAt(r, p, "done")]
                 /\ refresh' = [refresh EXCEPT ![r] = NotCalm(r)]
           /\ NotCalm(r) \in SessionRecord(clock)
           /\ UNCHANGED <<service, mark, table, work, people, busy, used>>
  <1>1. NotCalm(r) \in SessionRecord(clock)
    BY RefreshNow DEF NotCalm, SessionRecord
  <1>2. page[r][p].pc = "queued" /\ UNCHANGED <<service, mark, table, work, people, busy, used>>
    BY DEF ListPage
  <1>3. page \in [Refreshes -> [Pages -> PageRecord(clock)]]
        /\ refresh \in [Refreshes -> SessionRecord(clock)]
    BY DEF Types, PageTypes, SessionTypes
  <1>4. CASE /\ refresh' = [refresh EXCEPT ![r].calm = FALSE]
             /\ page' = [page EXCEPT ![r][p].pc = "done"]
    <2>1. page' = [page EXCEPT ![r][p] = PageAt(r, p, "done")]
      BY <1>3, <1>4 DEF PageAt
    <2>2. refresh' = [refresh EXCEPT ![r] = NotCalm(r)]
      BY <1>3, <1>4 DEF NotCalm
    <2> QED BY <1>1, <1>2, <2>1, <2>2
  <1>5. CASE /\ page' = [page EXCEPT ![r][p] =
                  [pc |-> "find", row |-> NoRow,
                   todo |-> [k \in DOMAIN PageIds(p) |->
                               [id |-> PageIds(p)[k], title |-> title[PageIds(p)[k]]]]]]
             /\ UNCHANGED refresh
    BY <1>1, <1>2, <1>5 DEF Listed, Listing
  <1>6. \/ /\ page' = [page EXCEPT ![r][p] =
                  [pc |-> "find", row |-> NoRow,
                   todo |-> [k \in DOMAIN PageIds(p) |->
                               [id |-> PageIds(p)[k], title |-> title[PageIds(p)[k]]]]]]
           /\ UNCHANGED refresh
        \/ /\ refresh' = [refresh EXCEPT ![r].calm = FALSE]
           /\ page' = [page EXCEPT ![r][p].pc = "done"]
    BY Zenon DEF ListPage, PageIds
  <1> QED
    BY <1>4, <1>5, <1>6

LEMMA ListPageTypes ==
    ASSUME Types, NEW r \in Refreshes, NEW p \in Pages, ListPage(r, p)
    PROVE  Types'
  <1>1. clock' = clock
    BY ListPageIs DEF mark
  <1>2. PageTypes'
    <2>1. \E x \in PageRecord(clock) : x.pc # "save" /\ page' = [page EXCEPT ![r][p] = x]
      <3>1. Listed(p) \in PageRecord(clock) /\ Listed(p).pc # "save"
        BY PageRecords DEF Listed
      <3>2. PageAt(r, p, "done") \in PageRecord(clock) /\ PageAt(r, p, "done").pc # "save"
        BY PageRecords DEF PagePcs
      <3> QED BY <3>1, <3>2, ListPageIs
    <2> QED BY <1>1, <2>1, OnePage
  <1>3. SessionTypes'
    <2>1. CASE UNCHANGED refresh
      BY <1>1, <2>1 DEF Types, SessionTypes
    <2>2. CASE refresh' = [refresh EXCEPT ![r] = NotCalm(r)]
      BY <1>1, <2>2, ListPageIs, OneRefresh
    <2> QED BY <2>1, <2>2, ListPageIs
  <1>4. UNCHANGED <<service, mark, table, work, people, busy, used>>
    BY ListPageIs
  <1> QED
    BY <1>2, <1>3, <1>4 DEF Types, ServiceTypes, MarkTypes, TableTypes, BusyTypes,
       MemberTypes, PeopleTypes, UsedTypes, service, mark, table, work, people

\* What get_or_create finds or makes.
NewRow(f)     == [pk |-> used.pks + 1, title |-> f.title, wanted |-> NewByDefault,
                  geo |-> FALSE, at |-> clock]
WithFound(r, i) == [refresh[r] EXCEPT !.found = @ \cup {i}]

LEMMA FindRowIs ==
    ASSUME Types, NEW r \in Refreshes, NEW p \in Pages, FindRow(r, p)
    PROVE  LET f == Head(page[r][p].todo)
           IN  /\ page[r][p].pc = "find" /\ page[r][p].todo # <<>>
               /\ f \in Entry /\ f.id \in Ids /\ f.title \in Titles
               /\ NewRow(f) \in Seen(clock) /\ NewRow(f).pk # 0
               /\ WithFound(r, f.id) \in SessionRecord(clock)
               /\ \/ /\ rows[f.id].pk = 0
                     /\ rows' = [rows EXCEPT ![f.id] = NewRow(f)]
                     /\ used' = [used EXCEPT !.pks = @ + 1]
                     /\ refresh' = [refresh EXCEPT ![r] = WithFound(r, f.id)]
                     /\ page' = [page EXCEPT ![r][p] = Holding(r, p, NewRow(f))]
                  \/ /\ rows[f.id].pk # 0 /\ rows[f.id].title = f.title
                     /\ refresh' = [refresh EXCEPT ![r] = WithFound(r, f.id)]
                     /\ page' = [page EXCEPT ![r][p] = Holding(r, p, rows[f.id])]
                     /\ UNCHANGED <<rows, used>>
                  \/ /\ rows[f.id].pk # 0 /\ rows[f.id].title # f.title
                     /\ page' = [page EXCEPT ![r][p] = PageAt(r, p, "error")]
                     /\ UNCHANGED <<rows, used, refresh>>
               /\ UNCHANGED <<service, mark, work, people, local, busy>>
  <1> DEFINE f == Head(page[r][p].todo)
  <1>1. page[r][p].pc = "find" /\ page[r][p].todo # <<>>
        /\ UNCHANGED <<service, mark, work, people, local, busy>>
    BY DEF FindRow
  <1>2. f \in Entry /\ f.id \in Ids /\ f.title \in Titles
    BY <1>1, TodoNow
  <1>3. used \in UsedRecord /\ used.pks \in Nat /\ used.pks + 1 # 0 /\ clock \in Nat
    BY DEF Types, UsedTypes, UsedRecord, MarkTypes
  <1>4. \A c : [page EXCEPT ![r][p].pc = "save", ![r][p].row = c]
                 = [page EXCEPT ![r][p] = Holding(r, p, c)]
    <2>1. page \in [Refreshes -> [Pages -> PageRecord(clock)]]
      BY DEF Types, PageTypes
    <2> QED BY <2>1 DEF Holding, PageRecord
  <1>5. [page EXCEPT ![r][p].pc = "error"] = [page EXCEPT ![r][p] = PageAt(r, p, "error")]
    <2>1. page \in [Refreshes -> [Pages -> PageRecord(clock)]]
      BY DEF Types, PageTypes
    <2> QED BY <2>1 DEF PageAt, PageRecord
  <1>6. [refresh EXCEPT ![r].found = @ \cup {f.id}] = [refresh EXCEPT ![r] = WithFound(r, f.id)]
    <2>1. refresh \in [Refreshes -> SessionRecord(clock)]
      BY DEF Types, SessionTypes
    <2> QED BY <2>1 DEF WithFound
  <1>7. NewRow(f) \in Seen(clock) /\ NewRow(f).pk # 0
    <2>1. NewRow(f).pk = used.pks + 1
      BY DEF NewRow
    <2>2. NewRow(f) \in Seen(clock)
      BY <1>2, <1>3, SeenRows DEF NewRow
    <2> QED BY <1>3, <2>1, <2>2
  <1>8. WithFound(r, f.id) \in SessionRecord(clock)
    <2>1. refresh[r] \in SessionRecord(clock)
      BY RefreshNow
    <2> HIDE DEF f
    <2> QED BY <1>2, <2>1 DEF WithFound, SessionRecord
  <1>9. \/ /\ rows[f.id].pk = 0
           /\ rows' = [rows EXCEPT ![f.id] = NewRow(f)]
           /\ used' = [used EXCEPT !.pks = @ + 1]
           /\ refresh' = [refresh EXCEPT ![r].found = @ \cup {f.id}]
           /\ page' = [page EXCEPT ![r][p].pc = "save", ![r][p].row = NewRow(f)]
        \/ /\ rows[f.id].pk # 0 /\ rows[f.id].title = f.title
           /\ refresh' = [refresh EXCEPT ![r].found = @ \cup {f.id}]
           /\ page' = [page EXCEPT ![r][p].pc = "save", ![r][p].row = rows[f.id]]
           /\ UNCHANGED <<rows, used>>
        \/ /\ rows[f.id].pk # 0 /\ rows[f.id].title # f.title
           /\ page' = [page EXCEPT ![r][p].pc = "error"]
           /\ UNCHANGED <<rows, used, refresh>>
    BY Zenon DEF FindRow, NewRow
  <1> QED
    BY <1>1, <1>2, <1>4, <1>5, <1>6, <1>7, <1>8, <1>9, Zenon

LEMMA FindRowTypes ==
    ASSUME Types, NEW r \in Refreshes, NEW p \in Pages, FindRow(r, p)
    PROVE  Types'
  <1> DEFINE f == Head(page[r][p].todo)
  <1>1. clock' = clock /\ f.id \in Ids /\ page[r][p].todo # <<>> /\ rows[f.id] \in Seen(clock)
    BY FindRowIs, RowNow DEF mark
  <1>2. PageTypes'
    <2>1. \E x \in PageRecord(clock) : /\ page' = [page EXCEPT ![r][p] = x]
                                       /\ x.pc = "save" => x.todo # <<>>
      <3>1. \A c \in Seen(clock) : /\ Holding(r, p, c) \in PageRecord(clock)
                                   /\ Holding(r, p, c).todo # <<>>
        BY <1>1, PageRecords
      <3>2. PageAt(r, p, "error") \in PageRecord(clock) /\ PageAt(r, p, "error").pc = "error"
        BY PageRecords DEF PagePcs
      <3>3. NewRow(f) \in Seen(clock)
        BY FindRowIs
      <3>4. \/ page' = [page EXCEPT ![r][p] = Holding(r, p, NewRow(f))]
            \/ page' = [page EXCEPT ![r][p] = Holding(r, p, rows[f.id])]
            \/ page' = [page EXCEPT ![r][p] = PageAt(r, p, "error")]
        BY FindRowIs
      <3> QED BY <1>1, <3>1, <3>2, <3>3, <3>4
    <2> QED BY <1>1, <2>1, OnePage
  <1>3. SessionTypes'
    <2>1. CASE UNCHANGED refresh
      BY <1>1, <2>1 DEF Types, SessionTypes
    <2>2. CASE refresh' = [refresh EXCEPT ![r] = WithFound(r, f.id)]
      <3>1. WithFound(r, f.id) \in SessionRecord(clock)
        BY FindRowIs
      <3> QED BY <1>1, <2>2, <3>1, OneRefresh
    <2> QED BY <2>1, <2>2, FindRowIs
  <1>4. TableTypes' /\ UsedTypes'
    <2>1. rows \in [Ids -> Seen(clock)] /\ local \subseteq Ids /\ used \in UsedRecord
      BY DEF Types, TableTypes, UsedTypes
    <2>2. NewRow(f) \in Seen(clock) /\ local' = local
      BY FindRowIs
    <2>3. rows' = rows \/ rows' = [rows EXCEPT ![f.id] = NewRow(f)]
      BY FindRowIs
    <2>4. used' = used \/ used' = [used EXCEPT !.pks = @ + 1]
      BY FindRowIs
    <2>5. used' \in UsedRecord
      BY <2>1, <2>4 DEF UsedRecord
    <2> HIDE DEF f
    <2>6. rows' \in [Ids -> Seen(clock)]
      BY <1>1, <2>1, <2>2, <2>3
    <2> QED BY <1>1, <2>1, <2>2, <2>5, <2>6 DEF TableTypes, UsedTypes
  <1>5. UNCHANGED <<service, mark, work, people, busy>>
    BY FindRowIs
  <1> QED
    BY <1>2, <1>3, <1>4, <1>5 DEF Types, ServiceTypes, MarkTypes, BusyTypes,
       MemberTypes, PeopleTypes, service, mark, work, people

\* The copy a page saves.
Saved(r, p) == [page[r][p].row EXCEPT !.at = clock]

LEMMA SaveFoundIs ==
    ASSUME Types, NEW r \in Refreshes, NEW p \in Pages, SaveFound(r, p)
    PROVE  LET i == Head(page[r][p].todo).id
               c == Saved(r, p)
           IN  /\ page[r][p].pc = "save" /\ page[r][p].todo # <<>>
               /\ i \in Ids /\ c \in Seen(clock) /\ c.at = clock /\ c.pk = page[r][p].row.pk
               /\ c.title = page[r][p].row.title /\ c.geo = page[r][p].row.geo
               /\ \/ /\ CanSave(i, c)
                     /\ rows' = [rows EXCEPT ![i] = c]
                     /\ page' = [page EXCEPT ![r][p] = Shortened(r, p)]
                  \/ /\ ~CanSave(i, c)
                     /\ page' = [page EXCEPT ![r][p] = PageAt(r, p, "error")]
                     /\ UNCHANGED rows
               /\ UNCHANGED <<service, mark, work, people, local, busy, refresh, used>>
  <1> DEFINE i == Head(page[r][p].todo).id
             c == Saved(r, p)
  <1>1. page[r][p].pc = "save" /\ page[r][p].todo # <<>>
        /\ UNCHANGED <<service, mark, work, people, local, busy, refresh, used>>
    BY PageNow DEF SaveFound, SaveRow
  <1>2. i \in Ids
    BY <1>1, TodoNow
  <1>3. c \in Seen(clock)
    BY PageNow, SeenRows DEF Saved, Types, MarkTypes
  <1>4. c.at = clock /\ c.pk = page[r][p].row.pk /\ c.title = page[r][p].row.title
        /\ c.geo = page[r][p].row.geo
    <2>1. page[r][p].row \in Row
      BY PageNow DEF Seen
    <2> QED BY <2>1 DEF Saved, Row
  <1>5. [page EXCEPT ![r][p] = [pc |-> "find", row |-> NoRow, todo |-> Tail(@.todo)]]
          = [page EXCEPT ![r][p] = Shortened(r, p)]
    <2>1. page \in [Refreshes -> [Pages -> PageRecord(clock)]]
      BY DEF Types, PageTypes
    <2> QED BY <2>1 DEF Shortened
  <1>6. [page EXCEPT ![r][p].pc = "error"] = [page EXCEPT ![r][p] = PageAt(r, p, "error")]
    <2>1. page \in [Refreshes -> [Pages -> PageRecord(clock)]]
      BY DEF Types, PageTypes
    <2> QED BY <2>1 DEF PageAt, PageRecord
  <1>7. IF CanSave(i, c)
        THEN /\ rows' = [rows EXCEPT ![i] = c]
             /\ page' = [page EXCEPT ![r][p] = [pc |-> "find", row |-> NoRow, todo |-> Tail(@.todo)]]
        ELSE page' = [page EXCEPT ![r][p].pc = "error"] /\ UNCHANGED rows
    BY DEF SaveFound, SaveRow, Saved
  <1> HIDE DEF i, c
  <1>8. \/ /\ CanSave(i, c)
           /\ rows' = [rows EXCEPT ![i] = c]
           /\ page' = [page EXCEPT ![r][p] = Shortened(r, p)]
        \/ /\ ~CanSave(i, c)
           /\ page' = [page EXCEPT ![r][p] = PageAt(r, p, "error")]
           /\ UNCHANGED rows
    <2>1. CASE CanSave(i, c)
      BY <1>5, <1>7, <2>1
    <2>2. CASE ~CanSave(i, c)
      BY <1>6, <1>7, <2>2
    <2> QED BY <2>1, <2>2
  <1> QED
    BY <1>1, <1>2, <1>3, <1>4, <1>8, Zenon DEF i, c

LEMMA SaveFoundTypes ==
    ASSUME Types, NEW r \in Refreshes, NEW p \in Pages, SaveFound(r, p)
    PROVE  Types'
  <1> DEFINE i == Head(page[r][p].todo).id
             c == Saved(r, p)
  <1>1. clock' = clock /\ i \in Ids /\ page[r][p].todo # <<>> /\ c \in Seen(clock)
    BY SaveFoundIs DEF mark
  <1>2. PageTypes'
    <2>1. \E x \in PageRecord(clock) : x.pc # "save" /\ page' = [page EXCEPT ![r][p] = x]
      <3>1. PageAt(r, p, "error") \in PageRecord(clock) /\ PageAt(r, p, "error").pc # "save"
        BY PageRecords DEF PagePcs
      <3>2. Shortened(r, p) \in PageRecord(clock) /\ Shortened(r, p).pc # "save"
        BY <1>1, PageRecords DEF Shortened
      <3>3. \/ page' = [page EXCEPT ![r][p] = Shortened(r, p)]
            \/ page' = [page EXCEPT ![r][p] = PageAt(r, p, "error")]
        BY SaveFoundIs
      <3> QED BY <3>1, <3>2, <3>3
    <2> QED BY <1>1, <2>1, OnePage
  <1>3. TableTypes'
    <2>1. rows \in [Ids -> Seen(clock)] /\ local \subseteq Ids
      BY DEF Types, TableTypes
    <2>2. (rows' = rows \/ rows' = [rows EXCEPT ![i] = c]) /\ local' = local
      BY SaveFoundIs
    <2> HIDE DEF i, c
    <2> QED BY <1>1, <2>1, <2>2 DEF TableTypes
  <1>4. UNCHANGED <<service, mark, work, people, busy, refresh, used>>
    BY SaveFoundIs
  <1> QED
    BY <1>2, <1>3, <1>4 DEF Types, ServiceTypes, MarkTypes, BusyTypes, SessionTypes, UsedTypes,
       MemberTypes, PeopleTypes, service, mark, work, people

LEMMA EndPageIs ==
    ASSUME Types, NEW r \in Refreshes, NEW p \in Pages, EndPage(r, p)
    PROVE  /\ page[r][p].pc = "find" /\ page[r][p].todo = <<>>
           /\ page' = [page EXCEPT ![r][p] = PageAt(r, p, "done")]
           /\ UNCHANGED <<service, mark, table, work, people, busy, refresh, used>>
  <1>1. page \in [Refreshes -> [Pages -> PageRecord(clock)]]
    BY DEF Types, PageTypes
  <1> QED
    BY <1>1 DEF EndPage, PageAt, PageRecord

LEMMA EndPageTypes ==
    ASSUME Types, NEW r \in Refreshes, NEW p \in Pages, EndPage(r, p)
    PROVE  Types'
  <1>1. UNCHANGED <<service, mark, table, work, people, busy, refresh, used>>
    BY EndPageIs
  <1>2. PageAt(r, p, "done") \in PageRecord(clock) /\ PageAt(r, p, "done").pc # "save"
    BY PageRecords DEF PagePcs
  <1>3. PageTypes'
    BY <1>1, <1>2, EndPageIs, OnePage DEF mark
  <1> QED
    BY <1>1, <1>3 DEF Types, ServiceTypes, MarkTypes, TableTypes, BusyTypes, SessionTypes,
       MemberTypes, PeopleTypes, UsedTypes, service, mark, table, work, people

\* A refresh that ends as p says.
Closed(r, p) == [refresh[r] EXCEPT !.pc = p, !.drop = {}]

LEMMA CloseIs ==
    ASSUME Types, NEW r \in Refreshes, NEW p \in {"over", "error"}, Close(r, p)
    PROVE  /\ refresh' = [refresh EXCEPT ![r] = Closed(r, p)]
           /\ Closed(r, p) \in SessionRecord(clock)
           /\ Closed(r, p).pc = p /\ Closed(r, p).drop = {}
           /\ Closed(r, p).found = refresh[r].found
  <1>1. refresh \in [Refreshes -> SessionRecord(clock)] /\ refresh[r] \in SessionRecord(clock)
    BY DEF Types, SessionTypes
  <1>2. refresh' = [refresh EXCEPT ![r] = Closed(r, p)]
    BY <1>1 DEF Close, Closed, SessionRecord
  <1>3. Closed(r, p) \in SessionRecord(clock)
    BY <1>1 DEF Closed, SessionRecord, SessionPcs
  <1>4. Closed(r, p).pc = p /\ Closed(r, p).drop = {} /\ Closed(r, p).found = refresh[r].found
    BY <1>1 DEF Closed, SessionRecord
  <1> QED
    BY <1>2, <1>3, <1>4

\* A refresh that is marked as checked.
MarkIs(r) == /\ checked' = clock /\ clock' = clock + 1
             /\ busy' \in BOOLEAN
             /\ Close(r, "over")
             /\ UNCHANGED <<service, table, work, people, page, used>>

LEMMA MarkTypesKept ==
    ASSUME Types, NEW r \in Refreshes, MarkIs(r)
    PROVE  Types'
  <1>1. clock \in Nat /\ clock' = clock + 1
    BY DEF Types, MarkTypes, MarkIs
  <1>2. Seen(clock) \subseteq Seen(clock') /\ SessionRecord(clock) \subseteq SessionRecord(clock')
        /\ PageRecord(clock) \subseteq PageRecord(clock')
        /\ MemberRecord(clock) \subseteq MemberRecord(clock')
        /\ RequestRecord(clock) \subseteq RequestRecord(clock')
    BY <1>1, SeenLater
  <1>3. MarkTypes'
    BY <1>1 DEF MarkTypes, MarkIs
  <1>4. SessionTypes'
    <2>1. /\ refresh' = [refresh EXCEPT ![r] = Closed(r, "over")]
          /\ Closed(r, "over") \in SessionRecord(clock)
      BY CloseIs DEF MarkIs
    <2>2. refresh \in [Refreshes -> SessionRecord(clock)]
      BY DEF Types, SessionTypes
    <2>3. refresh' \in [Refreshes -> SessionRecord(clock)]
      BY <2>1, <2>2
    <2> QED BY <1>2, <2>3 DEF SessionTypes
  <1>5. TableTypes'
    BY <1>2 DEF Types, TableTypes, MarkIs, table
  <1>6. PageTypes'
    BY <1>2 DEF Types, PageTypes, MarkIs
  <1>7. MemberTypes'
    BY <1>2 DEF Types, MemberTypes, MarkIs, work
  <1>8. PeopleTypes'
    <2>1. -1..(clock - 1) \subseteq -1..(clock' - 1)
      BY <1>1
    <2> QED BY <1>2, <2>1 DEF Types, PeopleTypes, MarkIs, people
  <1> QED
    BY <1>3, <1>4, <1>5, <1>6, <1>7, <1>8
    DEF Types, MarkIs, ServiceTypes, BusyTypes, UsedTypes, service

LEMMA FailRefreshTypes ==
    ASSUME Types, NEW r \in Refreshes, FailRefresh(r)
    PROVE  Types'
  BY MarkTypesKept DEF FailRefresh, MarkIs

LEMMA MarkCheckedTypes ==
    ASSUME Types, NEW r \in Refreshes, MarkChecked(r)
    PROVE  Types'
  BY MarkTypesKept DEF MarkChecked, MarkIs, Types, BusyTypes

\* A finalizer that starts, and one that knows what is stale.
Finishing(r) == [refresh[r] EXCEPT !.checked = checked,
                                   !.pc = IF refresh[r].abort \/ checked = -1 THEN "mark" ELSE "stale"]
StaleRows(r) == {[id |-> i, row |-> rows[i]] : i \in {j \in Known : rows[j].at <= refresh[r].checked}}
Dropping(r)  == [refresh[r] EXCEPT !.pc = "mark", !.drop = StaleRows(r)]

LEMMA FinishRefreshIs ==
    ASSUME Types, NEW r \in Refreshes, FinishRefresh(r)
    PROVE  /\ refresh[r].pc = "pages" /\ PagesSettled(r) /\ ~PagesFailed(r)
           /\ busy' = FALSE
           /\ refresh' = [refresh EXCEPT ![r] = Finishing(r)]
           /\ Finishing(r) \in SessionRecord(clock)
           /\ Finishing(r).pc = IF refresh[r].abort \/ checked = -1 THEN "mark" ELSE "stale"
           /\ Finishing(r).checked = checked /\ Finishing(r).abort = refresh[r].abort
           /\ Finishing(r).found = refresh[r].found /\ Finishing(r).drop = refresh[r].drop
           /\ Finishing(r).calm = refresh[r].calm
           /\ UNCHANGED <<service, mark, table, work, people, page, used>>
  <1>1. /\ refresh[r].pc = "pages" /\ PagesSettled(r) /\ ~PagesFailed(r)
        /\ busy' = FALSE
        /\ UNCHANGED <<service, mark, table, work, people, page, used>>
    BY DEF FinishRefresh
  <1>2. refresh \in [Refreshes -> SessionRecord(clock)] /\ refresh[r] \in SessionRecord(clock)
        /\ checked \in -1..(clock - 1)
    BY DEF Types, SessionTypes, MarkTypes
  <1>3. refresh' = [refresh EXCEPT ![r] = Finishing(r)]
    BY <1>2, Zenon DEF FinishRefresh, Finishing, SessionRecord
  <1> DEFINE s == IF refresh[r].abort \/ checked = -1 THEN "mark" ELSE "stale"
  <1>4. s \in SessionPcs
    BY DEF SessionPcs
  <1> HIDE DEF s
  <1>5. /\ [refresh[r] EXCEPT !.checked = checked, !.pc = s] \in SessionRecord(clock)
        /\ [refresh[r] EXCEPT !.checked = checked, !.pc = s].pc = s
        /\ [refresh[r] EXCEPT !.checked = checked, !.pc = s].checked = checked
        /\ [refresh[r] EXCEPT !.checked = checked, !.pc = s].abort = refresh[r].abort
        /\ [refresh[r] EXCEPT !.checked = checked, !.pc = s].found = refresh[r].found
        /\ [refresh[r] EXCEPT !.checked = checked, !.pc = s].drop = refresh[r].drop
        /\ [refresh[r] EXCEPT !.checked = checked, !.pc = s].calm = refresh[r].calm
    BY <1>2, <1>4 DEF SessionRecord
  <1> QED
    BY <1>1, <1>3, <1>5, Zenon DEF Finishing, s

LEMMA FinishRefreshTypes ==
    ASSUME Types, NEW r \in Refreshes, FinishRefresh(r)
    PROVE  Types'
  <1>1. SessionTypes'
    BY FinishRefreshIs, OneRefresh DEF mark
  <1>2. busy' = FALSE /\ UNCHANGED <<service, mark, table, work, people, page, used>>
    BY FinishRefreshIs
  <1> QED
    BY <1>1, <1>2 DEF Types, ServiceTypes, MarkTypes, TableTypes, BusyTypes, PageTypes,
       MemberTypes, PeopleTypes, UsedTypes, service, mark, table, work, people

LEMMA SelectStaleIs ==
    ASSUME Types, NEW r \in Refreshes, SelectStale(r)
    PROVE  /\ refresh[r].pc = "stale"
           /\ refresh' = [refresh EXCEPT ![r] = Dropping(r)]
           /\ Dropping(r) \in SessionRecord(clock)
           /\ Dropping(r).pc = "mark" /\ Dropping(r).drop = StaleRows(r)
           /\ Dropping(r).checked = refresh[r].checked /\ Dropping(r).abort = refresh[r].abort
           /\ Dropping(r).found = refresh[r].found /\ Dropping(r).calm = refresh[r].calm
           /\ UNCHANGED <<service, mark, table, work, people, busy, page, used>>
  <1>1. /\ refresh[r].pc = "stale"
        /\ UNCHANGED <<service, mark, table, work, people, busy, page, used>>
    BY DEF SelectStale
  <1>2. refresh \in [Refreshes -> SessionRecord(clock)] /\ refresh[r] \in SessionRecord(clock)
    BY DEF Types, SessionTypes
  <1>3. refresh' = [refresh EXCEPT ![r] = Dropping(r)]
    <2>1. refresh' = [refresh EXCEPT ![r].pc = "mark", ![r].drop = StaleRows(r)]
      BY DEF SelectStale, StaleRows
    <2> QED BY <1>2, <2>1 DEF Dropping, SessionRecord
  <1>4. StaleRows(r) \subseteq Copy
    <2>1. \A i \in Ids : rows[i] \in Row
      BY RowNow DEF Seen
    <2> QED BY <2>1 DEF StaleRows, Copy, Known
  <1>5. /\ Dropping(r) \in SessionRecord(clock)
        /\ Dropping(r).pc = "mark" /\ Dropping(r).drop = StaleRows(r)
        /\ Dropping(r).checked = refresh[r].checked /\ Dropping(r).abort = refresh[r].abort
        /\ Dropping(r).found = refresh[r].found /\ Dropping(r).calm = refresh[r].calm
    BY <1>2, <1>4 DEF Dropping, SessionRecord, SessionPcs
  <1> QED
    BY <1>1, <1>3, <1>5

LEMMA SelectStaleTypes ==
    ASSUME Types, NEW r \in Refreshes, SelectStale(r)
    PROVE  Types'
  <1>1. SessionTypes'
    BY SelectStaleIs, OneRefresh DEF mark
  <1>2. UNCHANGED <<service, mark, table, work, people, busy, page, used>>
    BY SelectStaleIs
  <1> QED
    BY <1>1, <1>2 DEF Types, ServiceTypes, MarkTypes, TableTypes, BusyTypes, PageTypes,
       MemberTypes, PeopleTypes, UsedTypes, service, mark, table, work, people

\* What remains of a row when a copy of it is deleted.
LEMMA DeletedIs ==
    ASSUME Types, NEW i \in Ids, NEW c \in Row
    PROVE  /\ DeletedRow(i, c) \in Seen(clock) /\ DeletedLocal(i, c) \subseteq local
           /\ DeletedRow(i, c) \in {NoRow, rows[i], [rows[i] EXCEPT !.geo = FALSE]}
  <1>1. rows[i] \in Seen(clock) /\ NoRow \in Seen(clock) /\ [rows[i] EXCEPT !.geo = FALSE] \in Seen(clock)
    BY RowNow, SeenRows
  <1>2. DeletedRow(i, c) \in {NoRow, rows[i], [rows[i] EXCEPT !.geo = FALSE]}
    BY DEF DeletedRow
  <1>3. DeletedLocal(i, c) \subseteq local
    BY DEF DeletedLocal
  <1> QED
    BY <1>1, <1>2, <1>3

\* Without one of the copies to delete.
Dropped(r, d) == [refresh[r] EXCEPT !.drop = @ \ {d}]

LEMMA DropStaleIs ==
    ASSUME Types, NEW r \in Refreshes, DropStale(r)
    PROVE  \E d \in refresh[r].drop :
             /\ d \in Copy /\ d.id \in Ids /\ d.row \in Row
             /\ Dropped(r, d) \in SessionRecord(clock)
             /\ Dropped(r, d).pc = refresh[r].pc /\ Dropped(r, d).found = refresh[r].found
             /\ Dropped(r, d).checked = refresh[r].checked /\ Dropped(r, d).abort = refresh[r].abort
             /\ Dropped(r, d).calm = refresh[r].calm /\ Dropped(r, d).drop = refresh[r].drop \ {d}
             /\ CanDelete(d.id, d.row)
             /\ local' = DeletedLocal(d.id, d.row)
             /\ rows' = [rows EXCEPT ![d.id] = DeletedRow(d.id, d.row)]
             /\ refresh' = [refresh EXCEPT ![r] = Dropped(r, d)]
             /\ UNCHANGED <<service, mark, work, people, busy, page, used>>
  <1>1. PICK d \in refresh[r].drop :
          /\ CanDelete(d.id, d.row)
          /\ local' = DeletedLocal(d.id, d.row)
          /\ rows' = [rows EXCEPT ![d.id] = DeletedRow(d.id, d.row)]
          /\ refresh' = [refresh EXCEPT ![r].drop = @ \ {d}]
    BY DEF DropStale
  <1>2. refresh \in [Refreshes -> SessionRecord(clock)] /\ refresh[r] \in SessionRecord(clock)
    BY DEF Types, SessionTypes
  <1>3. d \in Copy /\ d.id \in Ids /\ d.row \in Row
    BY <1>1, RefreshNow DEF Copy
  <1>4. [refresh EXCEPT ![r].drop = @ \ {d}] = [refresh EXCEPT ![r] = Dropped(r, d)]
    BY <1>2 DEF Dropped
  <1>5. /\ Dropped(r, d) \in SessionRecord(clock)
        /\ Dropped(r, d).pc = refresh[r].pc /\ Dropped(r, d).found = refresh[r].found
        /\ Dropped(r, d).checked = refresh[r].checked /\ Dropped(r, d).abort = refresh[r].abort
        /\ Dropped(r, d).calm = refresh[r].calm /\ Dropped(r, d).drop = refresh[r].drop \ {d}
    BY <1>2 DEF Dropped, SessionRecord
  <1>6. UNCHANGED <<service, mark, work, people, busy, page, used>>
    BY DEF DropStale
  <1> QED
    BY <1>1, <1>3, <1>4, <1>5, <1>6

LEMMA DropStaleTypes ==
    ASSUME Types, NEW r \in Refreshes, DropStale(r)
    PROVE  Types'
  <1>1. PICK d \in refresh[r].drop :
             /\ d \in Copy /\ d.id \in Ids /\ d.row \in Row
             /\ Dropped(r, d) \in SessionRecord(clock)
             /\ local' = DeletedLocal(d.id, d.row)
             /\ rows' = [rows EXCEPT ![d.id] = DeletedRow(d.id, d.row)]
             /\ refresh' = [refresh EXCEPT ![r] = Dropped(r, d)]
             /\ UNCHANGED <<service, mark, work, people, busy, page, used>>
    BY DropStaleIs
  <1>2. clock' = clock
    BY <1>1 DEF mark
  <1>3. SessionTypes'
    BY <1>1, <1>2, OneRefresh
  <1>4. TableTypes'
    <2>1. rows \in [Ids -> Seen(clock)] /\ local \subseteq Ids
      BY DEF Types, TableTypes
    <2>2. DeletedRow(d.id, d.row) \in Seen(clock) /\ DeletedLocal(d.id, d.row) \subseteq local
      BY <1>1, DeletedIs
    <2> QED BY <1>1, <1>2, <2>1, <2>2 DEF TableTypes
  <1> QED
    BY <1>1, <1>3, <1>4 DEF Types, ServiceTypes, MarkTypes, BusyTypes, PageTypes, UsedTypes,
       MemberTypes, PeopleTypes, service, mark, work, people

LEMMA RaiseFinalizerTypes ==
    ASSUME Types, NEW r \in Refreshes, RaiseFinalizer(r)
    PROVE  Types'
  <1>1. Close(r, "error") /\ UNCHANGED <<service, mark, table, work, people, busy, page, used>>
    BY DEF RaiseFinalizer
  <1>2. SessionTypes'
    BY <1>1, CloseIs, OneRefresh DEF mark
  <1> QED
    BY <1>1, <1>2 DEF Types, ServiceTypes, MarkTypes, TableTypes, BusyTypes, PageTypes,
       MemberTypes, PeopleTypes, UsedTypes, service, mark, table, work, people

\* A step that changes one member of a harvesting session.
LEMMA OneMember ==
    ASSUME Types, NEW i \in Ids, NEW s \in MemberPcs, NEW c \in Seen(clock), Member(i, s, c)
    PROVE  /\ member' \in [Ids -> MemberRecord(clock)]
           /\ member'[i].pc = s /\ member'[i].row = c
           /\ \A j \in Ids : j # i => member'[j] = member[j]
  <1>1. [pc |-> s, row |-> c] \in MemberRecord(clock)
    BY DEF MemberRecord
  <1>2. member \in [Ids -> MemberRecord(clock)]
    BY DEF Types, MemberTypes
  <1> QED
    BY <1>1, <1>2 DEF Member

LEMMA StartHarvestIs ==
    ASSUME Types, StartHarvest
    PROVE  /\ MayStart /\ AskedFor /\ busy' = TRUE
           /\ \E ids \in SUBSET Known :
                /\ ids # {}
                /\ member' = [i \in Ids |-> IF i \in ids THEN [pc |-> "queued", row |-> rows[i]]
                                                         ELSE NoMember]
           /\ member' \in [Ids -> MemberRecord(clock)]
           /\ refresh' = Disturb(refresh)
           /\ UNCHANGED <<service, mark, table, people, page, used>>
  <1>1. PICK ids \in SUBSET Known :
          /\ ids # {}
          /\ member' = [i \in Ids |-> IF i \in ids THEN [pc |-> "queued", row |-> rows[i]]
                                                   ELSE NoMember]
    BY DEF StartHarvest
  <1>2. \A i \in Ids : [pc |-> "queued", row |-> rows[i]] \in MemberRecord(clock)
    BY RowNow DEF MemberRecord, MemberPcs
  <1>3. NoMember \in MemberRecord(clock)
    BY Nothing DEF Types, MarkTypes
  <1>4. member' \in [Ids -> MemberRecord(clock)]
    BY <1>1, <1>2, <1>3
  <1> QED
    BY <1>1, <1>4 DEF StartHarvest

LEMMA StartHarvestTypes == Types /\ StartHarvest => Types'
  <1> SUFFICES ASSUME Types, StartHarvest PROVE Types'
    OBVIOUS
  <1>1. refresh' \in [Refreshes -> SessionRecord(clock)]
    BY StartHarvestIs, DisturbTypes
  <1> QED
    BY <1>1, StartHarvestIs DEF Types, ServiceTypes, MarkTypes, TableTypes, BusyTypes, SessionTypes,
       PageTypes, MemberTypes, PeopleTypes, UsedTypes, service, mark, table, people

LEMMA EndHarvestIs ==
    ASSUME Types, EndHarvest
    PROVE  /\ \E i \in Ids : member[i].pc # "none"
           /\ \A i \in Ids : member[i].pc \in {"none", "done"}
           /\ busy' = FALSE /\ member' = [i \in Ids |-> NoMember]
           /\ member' \in [Ids -> MemberRecord(clock)]
           /\ UNCHANGED <<service, mark, table, people, refresh, page, harvest, used>>
  BY Nothing DEF EndHarvest, Types, MarkTypes

LEMMA EndHarvestTypes == Types /\ EndHarvest => Types'
  <1> SUFFICES ASSUME Types, EndHarvest PROVE Types'
    OBVIOUS
  <1> QED
    BY EndHarvestIs DEF Types, ServiceTypes, MarkTypes, TableTypes, BusyTypes, SessionTypes,
       PageTypes, MemberTypes, PeopleTypes, UsedTypes, service, mark, table, people

LEMMA ReadResourceIs ==
    ASSUME Types, NEW i \in Ids, ReadResource(i)
    PROVE  /\ member[i].pc = "queued"
           /\ \/ rows[i].pk = member[i].row.pk /\ Member(i, "work", rows[i])
              \/ rows[i].pk # member[i].row.pk /\ Member(i, "done", NoRow)
           /\ NoRow \in Seen(clock) /\ rows[i] \in Seen(clock)
           /\ UNCHANGED <<service, mark, table, people, busy, refresh, page, harvest, used>>
  BY SeenRows, RowNow DEF ReadResource

LEMMA HarvestResourceIs ==
    ASSUME Types, NEW i \in Ids, HarvestResource(i)
    PROVE  LET c == member[i].row
           IN  /\ member[i].pc = "work"
               /\ [c EXCEPT !.geo = TRUE] \in Seen(clock) /\ c \in Seen(clock)
               /\ \/ Member(i, "last", c) /\ UNCHANGED local
                  \/ /\ ~c.geo
                     /\ local' = local \cup {i}
                     /\ Member(i, "link", [c EXCEPT !.geo = TRUE])
                  \/ c.geo /\ i \in local /\ Member(i, "link", c) /\ UNCHANGED local
                  \/ c.geo /\ i \notin local /\ Member(i, "done", c) /\ UNCHANGED local
               /\ UNCHANGED <<service, mark, people, rows, busy, refresh, page, harvest, used>>
  <1> DEFINE c == member[i].row
  <1>1. [c EXCEPT !.geo = TRUE] \in Seen(clock) /\ c \in Seen(clock)
    BY RowNow, SeenRows
  <1>2. member[i].pc = "work"
        /\ UNCHANGED <<service, mark, people, rows, busy, refresh, page, harvest, used>>
    BY DEF HarvestResource
  <1>3. \/ Member(i, "last", c) /\ UNCHANGED local
        \/ /\ ~c.geo
           /\ local' = local \cup {i}
           /\ Member(i, "link", [c EXCEPT !.geo = TRUE])
        \/ /\ c.geo
           /\ Member(i, IF i \in local THEN "link" ELSE "done", c)
           /\ UNCHANGED local
    BY Zenon DEF HarvestResource
  <1>4. CASE i \in local
    BY <1>1, <1>2, <1>3, <1>4
  <1>5. CASE i \notin local
    BY <1>1, <1>2, <1>3, <1>5
  <1> QED
    BY <1>4, <1>5

LEMMA SaveHarvestedIs ==
    ASSUME Types, NEW i \in Ids, SaveHarvested(i)
    PROVE  LET c == member[i].row
           IN  /\ member[i].pc \in {"link", "last"} /\ c \in Seen(clock)
               /\ \/ /\ CanSave(i, c)
                     /\ rows' = [rows EXCEPT ![i] = c]
                     /\ \/ member[i].pc = "link" /\ Member(i, "last", c)
                        \/ member[i].pc = "last" /\ Member(i, "done", c)
                  \/ /\ ~CanSave(i, c)
                     /\ Member(i, "done", c)
                     /\ UNCHANGED rows
               /\ UNCHANGED <<service, mark, people, local, busy, refresh, page, harvest, used>>
  <1> DEFINE c == member[i].row
  <1>1. c \in Seen(clock)
    BY RowNow
  <1>2. member[i].pc \in {"link", "last"}
        /\ UNCHANGED <<service, mark, people, local, busy, refresh, page, harvest, used>>
    BY DEF SaveHarvested
  <1>3. IF CanSave(i, c)
        THEN /\ rows' = [rows EXCEPT ![i] = c]
             /\ Member(i, IF member[i].pc = "link" THEN "last" ELSE "done", c)
        ELSE Member(i, "done", c) /\ UNCHANGED rows
    BY DEF SaveHarvested
  <1> HIDE DEF c
  <1>4. CASE member[i].pc = "link"
    BY <1>1, <1>2, <1>3, <1>4 DEF c
  <1>5. CASE member[i].pc = "last"
    BY <1>1, <1>2, <1>3, <1>5 DEF c
  <1> QED
    BY <1>2, <1>4, <1>5

\* What the steps of a member keep.
LEMMA MemberStepTypes ==
    ASSUME Types, NEW i \in Ids, ReadResource(i) \/ HarvestResource(i) \/ SaveHarvested(i)
    PROVE  Types'
  <1>0. rows \in [Ids -> Seen(clock)] /\ local \subseteq Ids
    BY DEF Types, TableTypes
  <1>1. CASE ReadResource(i)
    <2>1. member' \in [Ids -> MemberRecord(clock)]
      BY <1>1, ReadResourceIs, OneMember DEF MemberPcs
    <2> QED
      BY <1>1, <2>1, ReadResourceIs DEF Types, ServiceTypes, MarkTypes, TableTypes, BusyTypes,
         SessionTypes, PageTypes, MemberTypes, PeopleTypes, UsedTypes, service, mark, table, people
  <1>2. CASE HarvestResource(i)
    <2>1. member' \in [Ids -> MemberRecord(clock)]
      BY <1>2, HarvestResourceIs, OneMember DEF MemberPcs
    <2>2. local' \subseteq Ids /\ rows' = rows
      BY <1>0, <1>2, HarvestResourceIs
    <2>3. UNCHANGED <<service, mark, people, rows, busy, refresh, page, harvest, used>>
      BY <1>2, HarvestResourceIs
    <2> QED
      BY <1>0, <2>1, <2>2, <2>3 DEF Types, ServiceTypes, MarkTypes, TableTypes, BusyTypes,
         SessionTypes, PageTypes, MemberTypes, PeopleTypes, UsedTypes, service, mark, people
  <1>3. CASE SaveHarvested(i)
    <2>1. member' \in [Ids -> MemberRecord(clock)]
      BY <1>3, SaveHarvestedIs, OneMember DEF MemberPcs
    <2>2. rows' = rows \/ rows' = [rows EXCEPT ![i] = member[i].row]
      BY <1>3, SaveHarvestedIs
    <2>3. rows' \in [Ids -> Seen(clock)]
      BY <1>0, <2>2, RowNow
    <2>4. UNCHANGED <<service, mark, people, local, busy, refresh, page, harvest, used>>
      BY <1>3, SaveHarvestedIs
    <2> QED
      BY <1>0, <2>1, <2>3, <2>4 DEF Types, ServiceTypes, MarkTypes, TableTypes, BusyTypes,
         SessionTypes, PageTypes, MemberTypes, PeopleTypes, UsedTypes, service, mark, people
  <1> QED
    BY <1>1, <1>2, <1>3

LEMMA UserReadTypes ==
    ASSUME Types, NEW i \in Ids, NEW op \in Ops, UserRead(op, i)
    PROVE  Types'
  <1>1. op \in {"toggle", "delete"} /\ user' = [op |-> op, id |-> i, row |-> rows[i]]
    BY DEF UserRead
  <1>2. user' \in RequestRecord(clock)
    BY <1>1, RowNow DEF RequestRecord
  <1>3. used' \in UsedRecord
    BY DEF UserRead, Types, UsedTypes, UsedRecord
  <1> QED
    BY <1>2, <1>3 DEF UserRead, Types, ServiceTypes, MarkTypes, TableTypes, BusyTypes,
       SessionTypes, PageTypes, MemberTypes, PeopleTypes, UsedTypes, service, mark, table, work

\* The copy of an administrator's request.
LEMMA UserNow ==
    ASSUME Types
    PROVE  /\ user.id \in Ids /\ user.row \in Seen(clock) /\ user.row \in Row
           /\ user.op \in {"none", "toggle", "delete"}
           /\ NoRequest \in RequestRecord(clock)
           /\ [user.row EXCEPT !.wanted = ~@] \in Seen(clock)
  <1>1. user.id \in Ids /\ user.row \in Seen(clock) /\ user.op \in {"none", "toggle", "delete"}
    BY DEF Types, PeopleTypes, RequestRecord
  <1> QED
    BY <1>1, SeenRows, Nothing DEF Types, MarkTypes

LEMMA UserToggleTypes == Types /\ UserToggle => Types'
  <1> SUFFICES ASSUME Types, UserToggle PROVE Types'
    OBVIOUS
  <1> DEFINE c == [user.row EXCEPT !.wanted = ~@]
  <1>1. rows \in [Ids -> Seen(clock)] /\ local \subseteq Ids
    BY DEF Types, TableTypes
  <1>2. rows' = rows \/ rows' = [rows EXCEPT ![user.id] = c]
    BY DEF UserToggle
  <1>3. c \in Seen(clock) /\ user.id \in Ids /\ NoRequest \in RequestRecord(clock)
    BY UserNow
  <1> HIDE DEF c
  <1>4. rows' \in [Ids -> Seen(clock)]
    BY <1>1, <1>2, <1>3
  <1>5. refresh' \in [Refreshes -> SessionRecord(clock)]
    BY DisturbTypes DEF UserToggle
  <1> QED
    BY <1>1, <1>3, <1>4, <1>5 DEF UserToggle, Types, ServiceTypes, MarkTypes, TableTypes, BusyTypes,
       SessionTypes, PageTypes, MemberTypes, PeopleTypes, UsedTypes, service, mark, work

LEMMA UserDeleteTypes == Types /\ UserDelete => Types'
  <1> SUFFICES ASSUME Types, UserDelete PROVE Types'
    OBVIOUS
  <1>1. rows \in [Ids -> Seen(clock)] /\ local \subseteq Ids
        /\ refresh \in [Refreshes -> SessionRecord(clock)]
    BY DEF Types, TableTypes, SessionTypes
  <1>2. DeletedRow(user.id, user.row) \in Seen(clock) /\ DeletedLocal(user.id, user.row) \subseteq local
        /\ user.id \in Ids /\ NoRequest \in RequestRecord(clock)
    BY UserNow, DeletedIs
  <1>3. \/ /\ local' = DeletedLocal(user.id, user.row)
           /\ rows' = [rows EXCEPT ![user.id] = DeletedRow(user.id, user.row)]
        \/ UNCHANGED table
    BY DEF UserDelete
  <1>4. refresh' \in [Refreshes -> SessionRecord(clock)]
    BY DisturbTypes DEF UserDelete
  <1>5. rows' \in [Ids -> Seen(clock)] /\ local' \subseteq Ids
    BY <1>1, <1>2, <1>3 DEF table
  <1> QED
    BY <1>2, <1>4, <1>5 DEF UserDelete, Types, ServiceTypes, MarkTypes, TableTypes, BusyTypes,
       SessionTypes, PageTypes, MemberTypes, PeopleTypes, UsedTypes, service, mark, work

LEMMA UnlinkIs ==
    ASSUME Types, NEW i \in Ids, Unlink(i)
    PROVE  /\ i \in local /\ local' = local \ {i}
           /\ rows' = [rows EXCEPT ![i] = [rows[i] EXCEPT !.geo = FALSE]]
           /\ [rows[i] EXCEPT !.geo = FALSE] \in Seen(clock)
           /\ UNCHANGED <<service, mark, work, people, busy, refresh, page>>
  <1>1. rows \in [Ids -> Seen(clock)]
    BY DEF Types, TableTypes
  <1>2. rows' = [rows EXCEPT ![i] = [rows[i] EXCEPT !.geo = FALSE]]
    BY <1>1 DEF Unlink
  <1> QED
    BY <1>2, RowNow, SeenRows DEF Unlink

LEMMA UnlinkTypes ==
    ASSUME Types, NEW i \in Ids, Unlink(i)
    PROVE  Types'
  <1>1. rows \in [Ids -> Seen(clock)] /\ local \subseteq Ids
    BY DEF Types, TableTypes
  <1>2. rows' \in [Ids -> Seen(clock)] /\ local' \subseteq Ids
    BY <1>1, UnlinkIs
  <1>3. used' \in UsedRecord
    BY DEF Unlink, Types, UsedTypes, UsedRecord
  <1> QED
    BY <1>2, <1>3, UnlinkIs DEF Types, ServiceTypes, MarkTypes, TableTypes, BusyTypes,
       SessionTypes, PageTypes, MemberTypes, PeopleTypes, UsedTypes, service, mark, work, people

LEMMA CheckTypes == Types /\ (CheckRead \/ CheckSave) => Types'
  <1> SUFFICES ASSUME Types, CheckRead \/ CheckSave PROVE Types'
    OBVIOUS
  <1>1. CASE CheckRead
    <2>1. used' \in UsedRecord
      BY <1>1 DEF CheckRead, Types, UsedTypes, UsedRecord
    <2>2. (PeopleTypes /\ MarkTypes)'
      BY <1>1 DEF CheckRead, Types, PeopleTypes, MarkTypes, mark
    <2> QED
      BY <1>1, <2>1, <2>2 DEF CheckRead, Types, ServiceTypes, MarkTypes, TableTypes, BusyTypes,
         SessionTypes, PageTypes, MemberTypes, UsedTypes, service, mark, table, work
  <1>2. CASE CheckSave
    <2>1. (PeopleTypes /\ MarkTypes)'
      BY <1>2 DEF CheckSave, Types, PeopleTypes, MarkTypes
    <2> QED
      BY <1>2, <2>1 DEF CheckSave, Types, ServiceTypes, TableTypes, BusyTypes,
         SessionTypes, PageTypes, MemberTypes, UsedTypes, service, table, work
  <1> QED
    BY <1>1, <1>2

LEMMA NextTypes == Types /\ [Next]_vars => Types'
  <1> SUFFICES ASSUME Types, [Next]_vars PROVE Types'
    OBVIOUS
  <1>1. CASE RemoteChange
    BY <1>1, RemoteChangeTypes
  <1>2. ASSUME NEW r \in Refreshes,
               \/ StartRefresh(r) \/ AbortRefresh(r) \/ FailRefresh(r) \/ FinishRefresh(r)
               \/ SelectStale(r) \/ DropStale(r) \/ RaiseFinalizer(r) \/ MarkChecked(r)
        PROVE  Types'
    BY <1>2, StartRefreshTypes, AbortRefreshTypes, FailRefreshTypes, FinishRefreshTypes,
       SelectStaleTypes, DropStaleTypes, RaiseFinalizerTypes, MarkCheckedTypes
  <1>3. ASSUME NEW r \in Refreshes, NEW p \in Pages,
               ListPage(r, p) \/ FindRow(r, p) \/ SaveFound(r, p) \/ EndPage(r, p)
        PROVE  Types'
    BY <1>3, ListPageTypes, FindRowTypes, SaveFoundTypes, EndPageTypes
  <1>4. CASE StartHarvest \/ EndHarvest
    BY <1>4, StartHarvestTypes, EndHarvestTypes
  <1>5. ASSUME NEW i \in Ids,
               ReadResource(i) \/ HarvestResource(i) \/ SaveHarvested(i) \/ Unlink(i)
        PROVE  Types'
    BY <1>5, MemberStepTypes, UnlinkTypes
  <1>6. ASSUME NEW i \in Ids, NEW op \in Ops, UserRead(op, i)
        PROVE  Types'
    BY <1>6, UserReadTypes
  <1>7. CASE UserToggle \/ UserDelete \/ CheckRead \/ CheckSave
    BY <1>7, UserToggleTypes, UserDeleteTypes, CheckTypes
  <1>8. CASE UNCHANGED vars
    BY <1>8 DEF vars, Types, ServiceTypes, MarkTypes, TableTypes, BusyTypes,
       SessionTypes, PageTypes, MemberTypes, PeopleTypes, UsedTypes
  <1> QED
    BY <1>1, <1>2, <1>3, <1>4, <1>5, <1>6, <1>7, <1>8, Zenon DEF Next

LEMMA TypesImply == Types => TypeOK
  <1> SUFFICES ASSUME Types PROVE TypeOK
    OBVIOUS
  <1>1. /\ remote \in Seq(Ids) /\ Distinct(remote) /\ title \in [Ids -> Titles]
        /\ clock \in Nat /\ checked \in -1..(clock - 1) /\ busy \in BOOLEAN /\ local \subseteq Ids
    BY DEF Types, ServiceTypes, MarkTypes, BusyTypes, TableTypes
  <1>2. ToSet(remote) \subseteq Ids /\ IsInjective(remote)
    BY <1>1 DEF ToSet, IsInjective, Distinct
  <1>3. rows \in [Ids -> Row] /\ \A i \in Ids : rows[i].at <= clock
    BY DEF Types, TableTypes, Seen
  <1>4. member \in [Ids -> [pc : {"none", "queued", "work", "link", "last", "done"}, row : Row]]
    BY DEF Types, MemberTypes, MemberRecord, MemberPcs, Seen
  <1>5. ASSUME NEW r \in Refreshes
        PROVE  /\ refresh[r].pc \in {"none", "pages", "error", "stale", "mark", "over"}
               /\ refresh[r].found \subseteq Ids
               /\ \A d \in refresh[r].drop : d.id \in Ids /\ d.row \in Row
               /\ \A p \in Pages :
                     page[r][p].pc \in {"none", "queued", "find", "save", "done", "error"}
    BY RefreshNow, PageNow DEF SessionPcs, PagePcs, Copy
  <1> QED
    BY <1>1, <1>2, <1>3, <1>4, <1>5 DEF TypeOK

\* Whatever happens (sessions that overlap, stale copies that administrators and
\* tasks save, checks that save an old mark, lists that change and fail), rows,
\* copies and program points keep their types, the last check is in the past and
\* no row was found in the future.
THEOREM TypeCorrect == Spec => []TypeOK
  <1>1. Spec => []Types
    BY InitTypes, NextTypes, PTL DEF Spec
  <1> QED
    BY <1>1, TypesImply, PTL

-----------------------------------------------------------------------------
(***************************************************************************)
(* One session at a time.  While no session starts before the previous     *)
(* refresh has closed and no administrator saves or deletes a copy of a    *)
(* row, only the refresh under way and its finalizer touch the list, or    *)
(* only the members of a harvesting session do.                            *)
(***************************************************************************)
Serial == Ops \cap {"overlap", "toggle", "delete"} = {}

\* At most one refresh is open, and refreshes start in their order.
Alone   == \A q, r \in Refreshes : Open(q) /\ Open(r) => q = r
InOrder == \A q, r \in Refreshes :
              q < r /\ (refresh[q].pc = "none" \/ Open(q)) => refresh[r].pc = "none"
Unstarted(r) == refresh[r].pc = "none" => refresh[r] = NotStarted

\* A page is read while its refresh waits for its pages; the copy it is about to
\* save is the one of the row as it is, but for the local resource.
SavePage(r, p) ==
    page[r][p].pc = "save" =>
      LET i == Head(page[r][p].todo).id
          c == page[r][p].row
      IN  /\ rows[i].pk = c.pk /\ c.pk # 0 /\ c.title = rows[i].title
          /\ i \in refresh[r].found
          /\ Orphans /\ i \in local => c.geo
PageOK(r, p) ==
    /\ page[r][p].pc \in {"queued", "find", "save"} => refresh[r].pc = "pages"
    /\ refresh[r].pc \in {"stale", "mark"} => page[r][p].pc # "error"
    /\ SavePage(r, p)

\* What a refresh found is in the list, and not stale once its pages are saved.
Pending(r, i) == \E p \in Pages : \/ page[r][p].pc = "error"
                                  \/ page[r][p].pc = "save" /\ Head(page[r][p].todo).id = i
FoundOK(r) == Open(r) => \A i \in refresh[r].found :
                            rows[i].pk # 0 /\ (rows[i].at = clock \/ Pending(r, i))

\* What a finalizer deletes was not found, and accounts for its local resource.
DropOK(r) == /\ refresh[r].drop # {} => refresh[r].pc = "mark"
             /\ \A d \in refresh[r].drop :
                   /\ d.id \notin refresh[r].found /\ d.row.pk # 0
                   /\ Orphans /\ d.id \in local => d.row.geo

RefreshOK(r) == Unstarted(r) /\ FoundOK(r) /\ DropOK(r) /\ \A p \in Pages : PageOK(r, p)

\* A member works while no refresh is open, on a row that stays, with a copy of
\* it as it is, but for the local resource.
CopyOK(i) ==
    /\ member[i].pc \in {"queued", "work", "link", "last"} =>
          rows[i].pk = member[i].row.pk /\ member[i].row.pk # 0
    /\ member[i].pc \in {"work", "link", "last"} =>
          /\ member[i].row.at = rows[i].at /\ member[i].row.title = rows[i].title
          /\ Orphans /\ i \in local => member[i].row.geo
    /\ member[i].pc = "link" => member[i].row.geo
MemberOK(i) == /\ member[i].pc # "none" => busy /\ \A r \in Refreshes : ~Open(r)
               /\ CopyOK(i)

RowOK(i)   == rows[i].pk = 0 => ~rows[i].geo
OwnedOK(i) == Orphans /\ i \in local => rows[i].geo \/ member[i].pc = "link"

SerialInv == /\ Alone /\ InOrder /\ user.op = "none"
             /\ \A r \in Refreshes : RefreshOK(r)
             /\ \A i \in Ids : MemberOK(i) /\ RowOK(i) /\ OwnedOK(i)

LEMMA InitSerial == Init => SerialInv
  <1> SUFFICES ASSUME Init PROVE SerialInv
    OBVIOUS
  <1>1. \A r \in Refreshes : refresh[r] = NotStarted /\ ~Open(r)
    BY DEF Init, Open, NotStarted
  <1>2. \A r \in Refreshes, p \in Pages : page[r][p].pc = "none"
    BY DEF Init, NoPage
  <1>3. \A r \in Refreshes : RefreshOK(r)
    BY <1>1, <1>2 DEF RefreshOK, Unstarted, FoundOK, DropOK, PageOK, SavePage, NotStarted
  <1>4. \A i \in Ids : rows[i].geo = FALSE /\ member[i].pc = "none" /\ i \notin local
    BY DEF Init, NoRow, NoMember
  <1>5. \A i \in Ids : MemberOK(i) /\ RowOK(i) /\ OwnedOK(i)
    BY <1>4 DEF MemberOK, CopyOK, RowOK, OwnedOK
  <1>6. Alone /\ InOrder /\ user.op = "none"
    BY <1>1 DEF Alone, InOrder, Init, NotStarted, NoRequest
  <1> QED
    BY <1>3, <1>5, <1>6 DEF SerialInv

\* A refresh that is not open does not depend on the list.
LEMMA QuietRefresh ==
    ASSUME Types, SerialInv, NEW q \in Refreshes, ~Open(q),
           refresh'[q] = refresh[q], page'[q] = page[q]
    PROVE  RefreshOK(q)'
  <1>1. Unstarted(q) /\ DropOK(q) /\ \A p \in Pages : PageOK(q, p)
    BY DEF SerialInv, RefreshOK
  <1>2. refresh[q].pc \in {"none", "over"}
    BY DEF Open
  <1>3. \A p \in Pages : page[q][p].pc \notin {"queued", "find", "save"}
    BY <1>1, <1>2 DEF PageOK
  <1>4. refresh[q].drop = {}
    BY <1>1, <1>2 DEF DropOK
  <1>5. Unstarted(q)'
    BY <1>1 DEF Unstarted
  <1>6. FoundOK(q)' /\ DropOK(q)'
    BY <1>2, <1>4 DEF FoundOK, DropOK, Open
  <1>7. \A p \in Pages : PageOK(q, p)'
    BY <1>2, <1>3 DEF PageOK, SavePage
  <1> QED
    BY <1>5, <1>6, <1>7 DEF RefreshOK

\* While a refresh is open no other is, and no member is at work.
LEMMA OpenAlone ==
    ASSUME Types, SerialInv, NEW r \in Refreshes, Open(r)
    PROVE  /\ \A q \in Refreshes : q # r => ~Open(q)
           /\ \A i \in Ids : member[i].pc = "none"
  BY DEF SerialInv, Alone, MemberOK

\* A step of the open refresh.
LEMMA RefreshStep ==
    ASSUME Types, SerialInv, NEW r \in Refreshes, Open(r), NEW x,
           refresh' = [refresh EXCEPT ![r] = x], x.pc # "none",
           \A q \in Refreshes : q # r => page'[q] = page[q],
           member' = member, user' = user,
           (FoundOK(r) /\ DropOK(r) /\ \A p \in Pages : PageOK(r, p))',
           \A i \in Ids : RowOK(i)' /\ OwnedOK(i)'
    PROVE  SerialInv'
  <1>1. refresh'[r] = x /\ \A q \in Refreshes : q # r => refresh'[q] = refresh[q]
    BY DEF Types, SessionTypes
  <1>2. \A q \in Refreshes : q # r => ~Open(q) /\ ~Open(q)'
    BY <1>1, OpenAlone DEF Open
  <1>3. \A q \in Refreshes : q # r => RefreshOK(q)'
    BY <1>1, <1>2, QuietRefresh
  <1>4. RefreshOK(r)'
    BY <1>1 DEF RefreshOK, Unstarted
  <1>5. Alone'
    BY <1>2 DEF Alone
  <1>6. InOrder'
    <2> SUFFICES ASSUME NEW q \in Refreshes, NEW s \in Refreshes, q < s,
                        refresh'[q].pc = "none" \/ Open(q)'
                 PROVE  refresh'[s].pc = "none"
      BY DEF InOrder
    <2>1. refresh[q].pc = "none" \/ Open(q)
      BY <1>1, <1>2
    <2>2. refresh[s].pc = "none"
      BY <2>1 DEF SerialInv, InOrder
    <2>3. s # r
      BY <2>2 DEF Open
    <2> QED BY <1>1, <2>2, <2>3
  <1>7. \A i \in Ids : MemberOK(i)'
    BY OpenAlone DEF MemberOK, CopyOK
  <1>8. (user.op = "none")'
    BY DEF SerialInv
  <1> QED
    BY <1>3, <1>4, <1>5, <1>6, <1>7, <1>8 DEF SerialInv

\* Steps that leave the keys, titles and times of the rows, and the program
\* points and findings of the refreshes, as they are.
LEMMA HarmlessStep ==
    ASSUME Types, SerialInv,
           \A r \in Refreshes : /\ refresh'[r].pc = refresh[r].pc
                                /\ refresh'[r].found = refresh[r].found
                                /\ refresh'[r].drop = refresh[r].drop
                                /\ refresh[r].pc = "none" => refresh'[r] = refresh[r],
           \A i \in Ids : /\ rows'[i].pk = rows[i].pk /\ rows'[i].at = rows[i].at
                          /\ rows'[i].title = rows[i].title,
           local' \subseteq local,
           UNCHANGED <<page, member, user, busy, clock>>,
           \A i \in Ids : RowOK(i)' /\ OwnedOK(i)'
    PROVE  SerialInv'
  <1>1. \A r \in Refreshes : Open(r)' <=> Open(r)
    BY DEF Open
  <1>2. Alone' /\ InOrder' /\ (user.op = "none")'
    BY <1>1 DEF SerialInv, Alone, InOrder
  <1>3. ASSUME NEW r \in Refreshes
        PROVE  RefreshOK(r)'
    <2>1. RefreshOK(r) /\ refresh[r].found \subseteq Ids /\ refresh[r].drop \subseteq Copy
      BY RefreshNow DEF SerialInv
    <2>2. Unstarted(r)'
      BY <2>1 DEF RefreshOK, Unstarted
    <2>3. FoundOK(r)'
      BY <1>1, <2>1 DEF RefreshOK, FoundOK, Pending
    <2>4. DropOK(r)'
      BY <2>1 DEF RefreshOK, DropOK
    <2>5. ASSUME NEW p \in Pages
          PROVE  PageOK(r, p)'
      <3>1. PageOK(r, p) /\ page'[r][p] = page[r][p]
        BY <2>1 DEF RefreshOK
      <3>2. page[r][p].pc = "save" => Head(page[r][p].todo).id \in Ids
        BY PageNow, TodoNow
      <3> QED BY <3>1, <3>2 DEF PageOK, SavePage
    <2> QED BY <2>2, <2>3, <2>4, <2>5 DEF RefreshOK
  <1>4. ASSUME NEW i \in Ids
        PROVE  MemberOK(i)'
    BY <1>1 DEF SerialInv, MemberOK, CopyOK
  <1> QED
    BY <1>2, <1>3, <1>4 DEF SerialInv

\* A step of a member, which finds every refresh closed.
LEMMA MemberStep ==
    ASSUME Types, SerialInv, NEW i \in Ids, member[i].pc # "none",
           UNCHANGED <<refresh, page, busy, user>>,
           \A j \in Ids : j # i => /\ member'[j] = member[j] /\ rows'[j] = rows[j]
                                   /\ j \in local' <=> j \in local,
           CopyOK(i)' /\ RowOK(i)' /\ OwnedOK(i)'
    PROVE  SerialInv'
  <1>1. busy /\ \A r \in Refreshes : ~Open(r)
    BY DEF SerialInv, MemberOK
  <1>2. \A r \in Refreshes : RefreshOK(r)' /\ ~Open(r)'
    BY <1>1, QuietRefresh DEF Open
  <1>3. Alone' /\ InOrder' /\ (user.op = "none")'
    BY DEF SerialInv, Alone, InOrder, Open
  <1>4. ASSUME NEW j \in Ids
        PROVE  MemberOK(j)' /\ RowOK(j)' /\ OwnedOK(j)'
    <2>1. CASE j = i
      BY <1>1, <1>2, <2>1 DEF MemberOK
    <2>2. CASE j # i
      <3>1. CopyOK(j)'
        BY <2>2 DEF SerialInv, MemberOK, CopyOK
      <3>2. RowOK(j)' /\ OwnedOK(j)'
        BY <2>2 DEF SerialInv, RowOK, OwnedOK
      <3> QED BY <1>1, <1>2, <3>1, <3>2 DEF MemberOK
    <2> QED BY <2>1, <2>2
  <1> QED
    BY <1>2, <1>3, <1>4 DEF SerialInv

\* A session that may start is the only one.
LEMMA NothingRuns ==
    ASSUME Types, SerialInv, Serial, MayStart, AskedFor
    PROVE  (\A r \in Refreshes : ~Open(r)) /\ \A i \in Ids : member[i].pc = "none"
  BY DEF Serial, MayStart, AskedFor, SerialInv, MemberOK

LEMMA SameTable ==
    ASSUME SerialInv, UNCHANGED <<rows, local, member>>
    PROVE  \A i \in Ids : RowOK(i)' /\ OwnedOK(i)'
  BY DEF SerialInv, RowOK, OwnedOK

LEMMA RemoteChangeSerial == Types /\ SerialInv /\ RemoteChange => SerialInv'
  <1> SUFFICES ASSUME Types, SerialInv, RemoteChange PROVE SerialInv'
    OBVIOUS
  <1>1. refresh' = Disturb(refresh) /\ UNCHANGED <<rows, local, member, page, user, busy, clock>>
    BY DEF RemoteChange, table, work, people, mark
  <1>2. \A r \in Refreshes : /\ refresh'[r].pc = refresh[r].pc
                             /\ refresh'[r].found = refresh[r].found
                             /\ refresh'[r].drop = refresh[r].drop
                             /\ refresh[r].pc = "none" => refresh'[r] = refresh[r]
    <2> SUFFICES ASSUME NEW r \in Refreshes
                 PROVE  /\ refresh'[r].pc = refresh[r].pc
                        /\ refresh'[r].found = refresh[r].found
                        /\ refresh'[r].drop = refresh[r].drop
                        /\ refresh[r].pc = "none" => refresh'[r] = refresh[r]
      OBVIOUS
    <2>1. /\ ~Open(r) => refresh'[r] = refresh[r]
          /\ Open(r) => refresh'[r] = [refresh[r] EXCEPT !.calm = FALSE]
      BY <1>1, DisturbTypes
    <2>2. refresh[r] \in SessionRecord(clock)
      BY RefreshNow
    <2>3. CASE Open(r)
      BY <2>1, <2>2, <2>3 DEF SessionRecord, Open
    <2>4. CASE ~Open(r)
      BY <2>1, <2>4
    <2> QED BY <2>3, <2>4
  <1>3. \A i \in Ids : RowOK(i)' /\ OwnedOK(i)'
    BY <1>1, SameTable
  <1> QED
    BY <1>1, <1>2, <1>3, HarmlessStep

LEMMA CheckSerial == Types /\ SerialInv /\ (CheckRead \/ CheckSave) => SerialInv'
  <1> SUFFICES ASSUME Types, SerialInv, CheckRead \/ CheckSave PROVE SerialInv'
    OBVIOUS
  <1>1. UNCHANGED <<refresh, rows, local, member, page, user, busy, clock>>
    BY DEF CheckRead, CheckSave, table, work, mark
  <1>2. \A i \in Ids : RowOK(i)' /\ OwnedOK(i)'
    BY <1>1, SameTable
  <1> QED
    BY <1>1, <1>2, HarmlessStep

LEMMA UnlinkSerial ==
    ASSUME Types, SerialInv, NEW i \in Ids, Unlink(i)
    PROVE  SerialInv'
  <1>1. rows \in [Ids -> Seen(clock)] /\ rows[i] \in Row
    BY RowNow DEF Types, TableTypes, Seen
  <1>2. /\ rows'[i] = [rows[i] EXCEPT !.geo = FALSE] /\ \A j \in Ids : j # i => rows'[j] = rows[j]
        /\ local' = local \ {i}
        /\ UNCHANGED <<refresh, page, member, user, busy, clock>>
    BY <1>1, UnlinkIs DEF work, people, mark
  <1>3. /\ rows'[i].pk = rows[i].pk /\ rows'[i].at = rows[i].at /\ rows'[i].title = rows[i].title
        /\ ~rows'[i].geo
    BY <1>1, <1>2 DEF Row
  <1>4. \A j \in Ids : RowOK(j)' /\ OwnedOK(j)'
    <2> SUFFICES ASSUME NEW j \in Ids PROVE RowOK(j)' /\ OwnedOK(j)'
      OBVIOUS
    <2>1. CASE j = i
      BY <1>2, <1>3, <2>1 DEF RowOK, OwnedOK
    <2>2. CASE j # i
      BY <1>2, <2>2 DEF SerialInv, RowOK, OwnedOK
    <2> QED BY <2>1, <2>2
  <1>5. \A j \in Ids : /\ rows'[j].pk = rows[j].pk /\ rows'[j].at = rows[j].at
                       /\ rows'[j].title = rows[j].title
    BY <1>2, <1>3
  <1>6. local' \subseteq local
    BY <1>2
  <1>7. \A r \in Refreshes : /\ refresh'[r].pc = refresh[r].pc
                             /\ refresh'[r].found = refresh[r].found
                             /\ refresh'[r].drop = refresh[r].drop
                             /\ refresh[r].pc = "none" => refresh'[r] = refresh[r]
    BY <1>2
  <1> QED
    BY <1>2, <1>4, <1>5, <1>6, <1>7, HarmlessStep

LEMMA AbortRefreshSerial ==
    ASSUME Types, SerialInv, NEW r \in Refreshes, AbortRefresh(r)
    PROVE  SerialInv'
  <1>1. refresh \in [Refreshes -> SessionRecord(clock)] /\ refresh[r].pc = "pages"
    BY DEF Types, SessionTypes, AbortRefresh
  <1>2. \A q \in Refreshes : /\ refresh'[q].pc = refresh[q].pc
                             /\ refresh'[q].found = refresh[q].found
                             /\ refresh'[q].drop = refresh[q].drop
                             /\ refresh[q].pc = "none" => refresh'[q] = refresh[q]
    BY <1>1 DEF AbortRefresh, SessionRecord
  <1>3. UNCHANGED <<rows, local, member, page, user, busy, clock>>
    BY DEF AbortRefresh, table, work, people, mark
  <1>4. \A i \in Ids : RowOK(i)' /\ OwnedOK(i)'
    BY <1>3, SameTable
  <1> QED
    BY <1>2, <1>3, <1>4, HarmlessStep

LEMMA StartRefreshSerial ==
    ASSUME Types, SerialInv, Serial, NEW r \in Refreshes, StartRefresh(r)
    PROVE  SerialInv'
  <1>1. (\A q \in Refreshes : ~Open(q)) /\ \A i \in Ids : member[i].pc = "none"
    BY NothingRuns DEF StartRefresh
  <1>2. refresh \in [Refreshes -> SessionRecord(clock)] /\ refresh[r].pc = "none"
        /\ refresh[r] = NotStarted
    BY DEF Types, SessionTypes, StartRefresh, SerialInv, RefreshOK, Unstarted
  <1>3. PICK s \in {"pages", "error"} :
          /\ refresh' = [q \in Refreshes |-> IF q = r THEN Starting(r, s)
                                            ELSE IF Open(q) THEN NotCalm(q) ELSE refresh[q]]
          /\ \/ s = "pages" /\ page' = [page EXCEPT ![r] = Sent]
             \/ s = "error" /\ page' = page
    BY StartRefreshIs
  <1>4. /\ refresh'[r].pc = s /\ refresh'[r].found = {} /\ refresh'[r].drop = {}
        /\ \A q \in Refreshes : q # r => refresh'[q] = refresh[q]
    <2>1. Starting(r, s).pc = s /\ Starting(r, s).found = {} /\ Starting(r, s).drop = {}
      BY <1>2 DEF NotStarted, Starting
    <2>2. refresh'[r] = Starting(r, s)
      BY <1>3
    <2>3. \A q \in Refreshes : q # r => refresh'[q] = refresh[q]
      BY <1>1, <1>3
    <2> QED BY <2>1, <2>2, <2>3
  <1>5. \A q \in Refreshes : q # r => page'[q] = page[q]
    BY <1>3 DEF Types, PageTypes
  <1>6. \A p \in Pages : \/ s = "error" /\ page'[r][p] = page[r][p]
                         \/ s = "pages" /\ page'[r][p].pc \in {"none", "queued"}
    <2>1. CASE s = "error"
      BY <1>3, <2>1
    <2>2. CASE s = "pages"
      <3>1. page'[r] = Sent
        BY <1>3, <2>2 DEF Types, PageTypes
      <3>2. NoPage.pc = "none" /\ [NoPage EXCEPT !.pc = "queued"].pc = "queued"
        BY DEF NoPage
      <3> QED BY <2>2, <3>1, <3>2, SentIs
    <2> QED BY <2>1, <2>2
  <1>7. UNCHANGED <<rows, local, member, user, clock>>
    BY DEF StartRefresh, table, work, people, mark
  <1>8. \A q \in Refreshes : q # r => RefreshOK(q)' /\ ~Open(q)'
    BY <1>1, <1>4, <1>5, QuietRefresh DEF Open
  <1>9. RefreshOK(r)'
    <2>1. Unstarted(r)' /\ FoundOK(r)' /\ DropOK(r)'
      BY <1>4 DEF Unstarted, FoundOK, DropOK
    <2>2. ASSUME NEW p \in Pages
          PROVE  PageOK(r, p)'
      <3>1. PageOK(r, p)
        BY DEF SerialInv, RefreshOK
      <3> QED BY <1>2, <1>4, <1>6, <3>1 DEF PageOK, SavePage
    <2> QED BY <2>1, <2>2 DEF RefreshOK
  <1>10. Alone'
    BY <1>8 DEF Alone
  <1>11. InOrder'
    <2> SUFFICES ASSUME NEW q \in Refreshes, NEW t \in Refreshes, q < t,
                        refresh'[q].pc = "none" \/ Open(q)'
                 PROVE  refresh'[t].pc = "none"
      BY DEF InOrder
    <2>1. refresh[q].pc = "none"
      BY <1>2, <1>4, <1>8
    <2>2. refresh[t].pc = "none"
      BY <2>1 DEF SerialInv, InOrder
    <2>3. t # r
      BY <2>1 DEF StartRefresh
    <2> QED BY <1>4, <2>2, <2>3
  <1>12. \A i \in Ids : MemberOK(i)'
    BY <1>1, <1>7 DEF MemberOK, CopyOK
  <1>13. \A i \in Ids : RowOK(i)' /\ OwnedOK(i)'
    BY <1>7, SameTable
  <1> QED
    BY <1>7, <1>8, <1>9, <1>10, <1>11, <1>12, <1>13 DEF SerialInv

\* A page that is neither found nor saved by the step.
LEMMA PageStep ==
    ASSUME Types, SerialInv, NEW r \in Refreshes, NEW p \in Pages, NEW x \in PageRecord(clock),
           page[r][p].pc \in {"queued", "find"}, x.pc \in {"find", "done", "error"},
           page' = [page EXCEPT ![r][p] = x],
           rows' = rows, local' = local, member' = member, user' = user, clock' = clock,
           NEW y \in SessionRecord(clock), refresh' = [refresh EXCEPT ![r] = y],
           y.pc = refresh[r].pc, y.found = refresh[r].found, y.drop = refresh[r].drop
    PROVE  SerialInv'
  <1>1. RefreshOK(r) /\ refresh[r].pc = "pages" /\ Open(r)
    BY DEF SerialInv, RefreshOK, PageOK, Open
  <1>2. /\ page'[r][p] = x /\ \A o \in Pages : o # p => page'[r][o] = page[r][o]
        /\ \A q \in Refreshes : q # r => page'[q] = page[q]
    BY DEF Types, PageTypes
  <1>3. refresh'[r] = y
    BY DEF Types, SessionTypes
  <1>4. FoundOK(r)'
    <2>1. \A i : Pending(r, i) => Pending(r, i)'
      BY <1>2 DEF Pending
    <2> QED BY <1>1, <1>3, <2>1 DEF RefreshOK, FoundOK
  <1>5. DropOK(r)'
    BY <1>1, <1>3 DEF RefreshOK, DropOK
  <1>6. ASSUME NEW o \in Pages
        PROVE  PageOK(r, o)'
    <2>1. PageOK(r, o)
      BY <1>1 DEF RefreshOK
    <2>2. CASE o = p
      BY <1>1, <1>2, <1>3, <2>2 DEF PageOK, SavePage
    <2>3. CASE o # p
      BY <1>1, <1>2, <1>3, <2>1, <2>3 DEF PageOK, SavePage
    <2> QED BY <2>2, <2>3
  <1>7. \A i \in Ids : RowOK(i)' /\ OwnedOK(i)'
    BY SameTable
  <1> QED
    BY <1>1, <1>2, <1>4, <1>5, <1>6, <1>7, RefreshStep

LEMMA ListPageSerial ==
    ASSUME Types, SerialInv, NEW r \in Refreshes, NEW p \in Pages, ListPage(r, p)
    PROVE  SerialInv'
  <1>1. rows' = rows /\ local' = local /\ member' = member /\ user' = user /\ clock' = clock
    BY ListPageIs DEF table, work, people, mark
  <1>2. refresh \in [Refreshes -> SessionRecord(clock)]
    BY DEF Types, SessionTypes
  <1>3. Listed(p).pc \in {"find", "done", "error"} /\ PageAt(r, p, "done").pc \in {"find", "done", "error"}
    BY PageRecords DEF Listed, PagePcs
  <1>4. NotCalm(r).pc = refresh[r].pc /\ NotCalm(r).found = refresh[r].found
        /\ NotCalm(r).drop = refresh[r].drop
    BY <1>2 DEF NotCalm, SessionRecord
  <1>8. /\ Listed(p) \in PageRecord(clock) /\ PageAt(r, p, "done") \in PageRecord(clock)
        /\ NotCalm(r) \in SessionRecord(clock) /\ refresh[r] \in SessionRecord(clock)
    BY PageRecords, ListPageIs, RefreshNow DEF PagePcs
  <1>5. page[r][p].pc \in {"queued", "find"}
    BY ListPageIs
  <1>6. CASE page' = [page EXCEPT ![r][p] = Listed(p)] /\ UNCHANGED refresh
    <2>1. refresh' = [refresh EXCEPT ![r] = refresh[r]]
      BY <1>2, <1>6
    <2> QED BY <1>1, <1>3, <1>5, <1>6, <1>8, <2>1, PageStep, Zenon
  <1>7. CASE /\ page' = [page EXCEPT ![r][p] = PageAt(r, p, "done")]
             /\ refresh' = [refresh EXCEPT ![r] = NotCalm(r)]
    BY <1>1, <1>3, <1>4, <1>5, <1>7, <1>8, PageStep, Zenon
  <1> QED
    BY <1>6, <1>7, ListPageIs

LEMMA EndPageSerial ==
    ASSUME Types, SerialInv, NEW r \in Refreshes, NEW p \in Pages, EndPage(r, p)
    PROVE  SerialInv'
  <1>1. /\ rows' = rows /\ local' = local /\ member' = member /\ user' = user /\ clock' = clock
        /\ refresh' = refresh
    BY EndPageIs DEF table, work, people, mark
  <1>2. refresh' = [refresh EXCEPT ![r] = refresh[r]]
    BY <1>1 DEF Types, SessionTypes
  <1>3. /\ PageAt(r, p, "done").pc \in {"find", "done", "error"}
        /\ PageAt(r, p, "done") \in PageRecord(clock) /\ refresh[r] \in SessionRecord(clock)
    BY PageRecords, RefreshNow DEF PagePcs
  <1>4. page[r][p].pc \in {"queued", "find"} /\ page' = [page EXCEPT ![r][p] = PageAt(r, p, "done")]
    BY EndPageIs
  <1> QED
    BY <1>1, <1>2, <1>3, <1>4, PageStep, Zenon

\* A row was found: page p holds copy c of row i until it saves it.
LEMMA FoundStep ==
    ASSUME Types, SerialInv, NEW r \in Refreshes, NEW p \in Pages, NEW c \in Seen(clock),
           page[r][p].pc = "find", page[r][p].todo # <<>>,
           page' = [page EXCEPT ![r][p] = Holding(r, p, c)],
           refresh' = [refresh EXCEPT ![r] = WithFound(r, Head(page[r][p].todo).id)],
           local' = local, member' = member, user' = user, clock' = clock,
           \A j \in Ids : j # Head(page[r][p].todo).id => rows'[j] = rows[j],
           rows'[Head(page[r][p].todo).id] = c, c.pk # 0,
           \/ rows[Head(page[r][p].todo).id].pk = 0 /\ ~c.geo
           \/ rows[Head(page[r][p].todo).id] = c
    PROVE  SerialInv'
  <1> DEFINE i == Head(page[r][p].todo).id
  <1>1. i \in Ids
    BY TodoNow
  <1>2. RefreshOK(r) /\ refresh[r].pc = "pages" /\ Open(r) /\ refresh[r].found \subseteq Ids
    BY RefreshNow DEF SerialInv, RefreshOK, PageOK, Open
  <1>3. refresh[r].drop = {} /\ \A j \in Ids : member[j].pc = "none"
    BY <1>2, OpenAlone DEF RefreshOK, DropOK
  <1>4. /\ WithFound(r, i).pc = refresh[r].pc /\ WithFound(r, i).drop = refresh[r].drop
        /\ WithFound(r, i).found = refresh[r].found \cup {i}
    <2>1. refresh[r] \in SessionRecord(clock)
      BY RefreshNow
    <2> HIDE DEF i
    <2> QED BY <2>1 DEF WithFound, SessionRecord
  <1>5. /\ Holding(r, p, c).pc = "save" /\ Holding(r, p, c).row = c
        /\ Holding(r, p, c).todo = page[r][p].todo
    BY PageRecords
  <1>6. /\ page'[r][p] = Holding(r, p, c)
        /\ \A o \in Pages : o # p => page'[r][o] = page[r][o]
        /\ \A q \in Refreshes : q # r => page'[q] = page[q]
    BY DEF Types, PageTypes
  <1>7. refresh'[r] = WithFound(r, i)
    BY DEF Types, SessionTypes
  <1>8. \A j \in Ids : RowOK(j) /\ OwnedOK(j)
    BY DEF SerialInv
  <1>9. Orphans /\ i \in local => c.geo
    BY <1>1, <1>3, <1>8 DEF RowOK, OwnedOK
  <1>10. /\ \A j \in Ids : j # i => rows'[j] = rows[j]
         /\ rows'[i] = c /\ (rows[i].pk = 0 \/ rows[i] = c)
    OBVIOUS
  <1>11. Head(page'[r][p].todo).id = i
    BY <1>5, <1>6
  <1> HIDE DEF i
  <1>12. FoundOK(r)'
    <2> SUFFICES ASSUME NEW j \in refresh'[r].found
                 PROVE  rows'[j].pk # 0 /\ (rows'[j].at = clock' \/ Pending(r, j)')
      BY DEF FoundOK
    <2>1. CASE j = i
      BY <1>5, <1>6, <1>10, <1>11, <2>1 DEF Pending
    <2>2. CASE j # i
      <3>1. j \in refresh[r].found /\ j \in Ids /\ rows'[j] = rows[j]
        BY <1>2, <1>4, <1>7, <1>10, <2>2
      <3>2. rows[j].pk # 0 /\ (rows[j].at = clock \/ Pending(r, j))
        BY <1>2, <3>1 DEF RefreshOK, FoundOK
      <3>3. Pending(r, j) => Pending(r, j)'
        <4> SUFFICES ASSUME NEW o \in Pages,
                            \/ page[r][o].pc = "error"
                            \/ page[r][o].pc = "save" /\ Head(page[r][o].todo).id = j
                     PROVE  Pending(r, j)'
          BY DEF Pending
        <4>1. page'[r][o] = page[r][o]
          BY <1>6
        <4> QED BY <4>1 DEF Pending
      <3> QED BY <3>1, <3>2, <3>3
    <2> QED BY <2>1, <2>2
  <1>13. DropOK(r)'
    BY <1>3, <1>4, <1>7 DEF DropOK
  <1>14. ASSUME NEW o \in Pages
         PROVE  PageOK(r, o)'
    <2>1. refresh'[r].pc = "pages" /\ PageOK(r, o)
      BY <1>2, <1>4, <1>7 DEF RefreshOK
    <2>2. SavePage(r, o)'
      <3>1. CASE o = p
        <4>1. page'[r][o].row = c /\ Head(page'[r][o].todo).id = i /\ i \in refresh'[r].found
          BY <1>4, <1>5, <1>6, <1>7, <1>11, <3>1
        <4> QED BY <1>9, <1>10, <4>1 DEF SavePage
      <3>2. CASE o # p /\ page[r][o].pc = "save"
        <4>1. page'[r][o] = page[r][o] /\ Head(page[r][o].todo).id \in Ids /\ SavePage(r, o)
          BY <1>6, <2>1, <3>2, PageNow, TodoNow DEF PageOK
        <4>2. rows'[Head(page[r][o].todo).id].pk = rows[Head(page[r][o].todo).id].pk
              /\ rows'[Head(page[r][o].todo).id].title = rows[Head(page[r][o].todo).id].title
          BY <1>10, <3>2, <4>1 DEF SavePage
        <4>3. refresh[r].found \subseteq refresh'[r].found
          BY <1>4, <1>7
        <4>4. local' = local
          OBVIOUS
        <4> HIDE DEF i
        <4> QED BY <3>2, <4>1, <4>2, <4>3, <4>4, Zenon DEF SavePage
      <3>3. CASE o # p /\ page[r][o].pc # "save"
        BY <1>6, <3>3 DEF SavePage
      <3> QED BY <3>1, <3>2, <3>3
    <2> QED BY <2>1, <2>2 DEF PageOK
  <1>15. ASSUME NEW j \in Ids
         PROVE  RowOK(j)' /\ OwnedOK(j)'
    <2>1. CASE j = i
      BY <1>9, <1>10, <2>1 DEF RowOK, OwnedOK
    <2>2. CASE j # i
      BY <1>8, <1>10, <2>2 DEF RowOK, OwnedOK
    <2> QED BY <2>1, <2>2
  <1>16. WithFound(r, i).pc # "none" /\ refresh' = [refresh EXCEPT ![r] = WithFound(r, i)]
    BY <1>2, <1>4 DEF i
  <1> QED
    BY <1>2, <1>6, <1>12, <1>13, <1>14, <1>15, <1>16, RefreshStep

LEMMA FindRowSerial ==
    ASSUME Types, SerialInv, NEW r \in Refreshes, NEW p \in Pages, FindRow(r, p)
    PROVE  SerialInv'
  <1> DEFINE f == Head(page[r][p].todo)
             i == f.id
  <1>1. page[r][p].pc = "find" /\ page[r][p].todo # <<>> /\ i \in Ids /\ clock' = clock
        /\ NewRow(f) \in Seen(clock) /\ NewRow(f).pk # 0
    BY FindRowIs DEF mark
  <1>2. local' = local /\ member' = member /\ user' = user
    BY FindRowIs DEF work, people
  <1>3. rows[i] \in Seen(clock) /\ rows \in [Ids -> Seen(clock)]
        /\ refresh \in [Refreshes -> SessionRecord(clock)]
    BY <1>1, RowNow DEF Types, TableTypes, SessionTypes
  <1>4. CASE /\ rows[i].pk = 0
             /\ rows' = [rows EXCEPT ![i] = NewRow(f)]
             /\ refresh' = [refresh EXCEPT ![r] = WithFound(r, i)]
             /\ page' = [page EXCEPT ![r][p] = Holding(r, p, NewRow(f))]
    <2>1. ~NewRow(f).geo
      BY DEF NewRow
    <2>2. rows'[i] = NewRow(f) /\ \A j \in Ids : j # i => rows'[j] = rows[j]
      BY <1>1, <1>3, <1>4
    <2> QED BY <1>1, <1>2, <1>4, <2>1, <2>2, FoundStep
  <1>5. CASE /\ rows[i].pk # 0
             /\ refresh' = [refresh EXCEPT ![r] = WithFound(r, i)]
             /\ page' = [page EXCEPT ![r][p] = Holding(r, p, rows[i])]
             /\ rows' = rows
    BY <1>1, <1>2, <1>3, <1>5, FoundStep
  <1>6. CASE /\ page' = [page EXCEPT ![r][p] = PageAt(r, p, "error")]
             /\ rows' = rows /\ refresh' = refresh
    <2>1. refresh' = [refresh EXCEPT ![r] = refresh[r]] /\ refresh[r] \in SessionRecord(clock)
      BY <1>3, <1>6
    <2>2. /\ PageAt(r, p, "error").pc \in {"find", "done", "error"}
          /\ PageAt(r, p, "error") \in PageRecord(clock)
          /\ page[r][p].pc \in {"queued", "find"}
      BY <1>1, PageRecords DEF PagePcs
    <2> QED BY <1>1, <1>2, <1>6, <2>1, <2>2, PageStep, Zenon
  <1> QED
    BY <1>4, <1>5, <1>6, FindRowIs

LEMMA SaveFoundSerial ==
    ASSUME Types, SerialInv, NEW r \in Refreshes, NEW p \in Pages, SaveFound(r, p)
    PROVE  SerialInv'
  <1> DEFINE i == Head(page[r][p].todo).id
             c == Saved(r, p)
  <1>1. page[r][p].pc = "save" /\ i \in Ids /\ c \in Seen(clock) /\ clock' = clock
        /\ c.at = clock /\ c.pk = page[r][p].row.pk /\ c.title = page[r][p].row.title
        /\ c.geo = page[r][p].row.geo
    BY SaveFoundIs DEF mark
  <1>2. local' = local /\ member' = member /\ user' = user /\ refresh' = refresh
    BY SaveFoundIs DEF work, people
  <1>3. RefreshOK(r) /\ refresh[r].pc = "pages" /\ Open(r) /\ refresh[r].found \subseteq Ids
    BY <1>1, RefreshNow DEF SerialInv, RefreshOK, PageOK, Open
  <1>4. refresh' = [refresh EXCEPT ![r] = refresh[r]]
    BY <1>2 DEF Types, SessionTypes
  <1>5. \A j \in Ids : RowOK(j) /\ OwnedOK(j)
    BY DEF SerialInv
  <1>6. /\ c.pk = rows[i].pk /\ c.pk # 0 /\ c.title = rows[i].title /\ i \in refresh[r].found
        /\ Orphans /\ i \in local => c.geo
    BY <1>1, <1>3 DEF RefreshOK, PageOK, SavePage
  <1>7. \E x \in PageRecord(clock) :
          /\ page' = [page EXCEPT ![r][p] = x]
          /\ \/ x.pc = "find" /\ rows' = [rows EXCEPT ![i] = c]
             \/ x.pc = "error" /\ rows' = rows
    <2>1. PageAt(r, p, "error") \in PageRecord(clock) /\ PageAt(r, p, "error").pc = "error"
      BY PageRecords DEF PagePcs
    <2>2. Shortened(r, p) \in PageRecord(clock) /\ Shortened(r, p).pc = "find"
      BY SaveFoundIs, PageRecords DEF Shortened
    <2> QED BY <2>1, <2>2, SaveFoundIs
  <1>8. PICK x \in PageRecord(clock) :
          /\ page' = [page EXCEPT ![r][p] = x]
          /\ \/ x.pc = "find" /\ rows' = [rows EXCEPT ![i] = c]
             \/ x.pc = "error" /\ rows' = rows
    BY <1>7
  <1>9. /\ page'[r][p] = x
        /\ \A o \in Pages : o # p => page'[r][o] = page[r][o]
        /\ \A q \in Refreshes : q # r => page'[q] = page[q]
    BY <1>8 DEF Types, PageTypes
  <1>10. rows \in [Ids -> Seen(clock)]
    BY DEF Types, TableTypes
  <1>11. /\ \A j \in Ids : j # i => rows'[j] = rows[j]
         /\ rows'[i] = c \/ (rows'[i] = rows[i] /\ x.pc = "error")
    <2> HIDE DEF c, i
    <2> QED BY <1>1, <1>8, <1>10
  <1>12. \A j \in Ids : rows'[j].pk = rows[j].pk /\ rows'[j].title = rows[j].title
    BY <1>6, <1>11
  <1>13. x.pc \in {"find", "error"}
    BY <1>8
  <1>14. Head(page[r][p].todo).id = i
    OBVIOUS
  <1> HIDE DEF c, i
  <1>15. FoundOK(r)'
    <2> SUFFICES ASSUME NEW j \in refresh[r].found
                 PROVE  rows'[j].pk # 0 /\ (rows'[j].at = clock' \/ Pending(r, j)')
      BY <1>2 DEF FoundOK
    <2>1. j \in Ids /\ rows[j].pk # 0 /\ (rows[j].at = clock \/ Pending(r, j))
      BY <1>3 DEF RefreshOK, FoundOK
    <2>2. CASE x.pc = "error"
      BY <1>9, <1>12, <2>1, <2>2 DEF Pending
    <2>3. CASE x.pc # "error" /\ j = i
      BY <1>1, <1>11, <1>12, <2>1, <2>3
    <2>4. CASE x.pc # "error" /\ j # i
      <3>1. Pending(r, j) => Pending(r, j)'
        <4> SUFFICES ASSUME NEW o \in Pages,
                            \/ page[r][o].pc = "error"
                            \/ page[r][o].pc = "save" /\ Head(page[r][o].todo).id = j
                     PROVE  Pending(r, j)'
          BY DEF Pending
        <4>1. page'[r][o] = page[r][o]
          BY <1>1, <1>9, <1>14, <2>4
        <4> QED BY <4>1 DEF Pending
      <3> QED BY <1>1, <1>11, <2>1, <2>4, <3>1
    <2> QED BY <2>2, <2>3, <2>4
  <1>16. DropOK(r)'
    BY <1>2, <1>3 DEF RefreshOK, DropOK
  <1>17. ASSUME NEW o \in Pages
         PROVE  PageOK(r, o)'
    <2>1. refresh'[r].pc = "pages" /\ PageOK(r, o)
      BY <1>2, <1>3 DEF RefreshOK
    <2>2. SavePage(r, o)'
      <3>1. CASE o = p
        BY <1>9, <1>13, <3>1 DEF SavePage
      <3>2. CASE o # p /\ page[r][o].pc = "save"
        <4>1. page'[r][o] = page[r][o] /\ Head(page[r][o].todo).id \in Ids /\ SavePage(r, o)
          BY <1>9, <2>1, <3>2, PageNow, TodoNow DEF PageOK
        <4> QED BY <1>2, <1>12, <3>2, <4>1 DEF SavePage
      <3>3. CASE o # p /\ page[r][o].pc # "save"
        BY <1>9, <3>3 DEF SavePage
      <3> QED BY <3>1, <3>2, <3>3
    <2> QED BY <2>1, <2>2 DEF PageOK
  <1>18. ASSUME NEW j \in Ids
         PROVE  RowOK(j)' /\ OwnedOK(j)'
    <2>1. CASE rows'[j] = rows[j]
      BY <1>2, <1>5, <2>1 DEF RowOK, OwnedOK
    <2>2. CASE j = i /\ rows'[i] = c
      BY <1>2, <1>6, <2>2 DEF RowOK, OwnedOK
    <2> QED BY <1>11, <2>1, <2>2
  <1> QED
    BY <1>2, <1>3, <1>4, <1>9, <1>15, <1>16, <1>17, <1>18, RefreshStep

\* A refresh closes.
LEMMA CloseStep ==
    ASSUME Types, SerialInv, NEW r \in Refreshes, NEW s \in {"over", "error"}, Close(r, s),
           Open(r), \A p \in Pages : page[r][p].pc \notin {"queued", "find", "save"},
           page' = page, rows' = rows, local' = local, member' = member, user' = user,
           s = "error" => clock' = clock
    PROVE  SerialInv'
  <1>1. /\ refresh' = [refresh EXCEPT ![r] = Closed(r, s)]
        /\ Closed(r, s).pc = s /\ Closed(r, s).drop = {}
    BY CloseIs
  <1>2. refresh'[r] = Closed(r, s)
    BY <1>1 DEF Types, SessionTypes
  <1>3. refresh'[r].pc = s
    BY <1>1, <1>2
  <1>4. FoundOK(r)' /\ DropOK(r)'
    <2>1. DropOK(r)'
      BY <1>1, <1>2, <1>3 DEF DropOK
    <2>2. CASE s = "over"
      BY <1>3, <2>1, <2>2 DEF FoundOK, Open
    <2>3. CASE s = "error"
      <3>1. FoundOK(r) /\ Closed(r, s).found = refresh[r].found
        BY CloseIs DEF SerialInv, RefreshOK
      <3>2. \A i : Pending(r, i)' <=> Pending(r, i)
        BY DEF Pending
      <3> QED BY <1>2, <2>1, <2>3, <3>1, <3>2 DEF FoundOK
    <2> QED BY <2>2, <2>3
  <1>5. \A p \in Pages : PageOK(r, p)'
    BY <1>3 DEF PageOK, SavePage
  <1>6. \A i \in Ids : RowOK(i)' /\ OwnedOK(i)'
    BY SameTable
  <1>7. Closed(r, s).pc # "none"
    BY <1>1
  <1> QED
    BY <1>1, <1>4, <1>5, <1>6, <1>7, RefreshStep

LEMMA FailRefreshSerial ==
    ASSUME Types, SerialInv, NEW r \in Refreshes, FailRefresh(r)
    PROVE  SerialInv'
  <1>1. Open(r) /\ Close(r, "over")
        /\ page' = page /\ rows' = rows /\ local' = local /\ member' = member /\ user' = user
    BY DEF FailRefresh, Open, table, work, people
  <1>2. ASSUME NEW p \in Pages
        PROVE  page[r][p].pc \notin {"queued", "find", "save"}
    BY DEF FailRefresh, PagesSettled, SerialInv, RefreshOK, PageOK
  <1> QED
    BY <1>1, <1>2, CloseStep

LEMMA MarkCheckedSerial ==
    ASSUME Types, SerialInv, NEW r \in Refreshes, MarkChecked(r)
    PROVE  SerialInv'
  <1>1. Open(r) /\ Close(r, "over")
        /\ page' = page /\ rows' = rows /\ local' = local /\ member' = member /\ user' = user
    BY DEF MarkChecked, Open, table, work, people
  <1>2. ASSUME NEW p \in Pages
        PROVE  page[r][p].pc \notin {"queued", "find", "save"}
    BY DEF MarkChecked, SerialInv, RefreshOK, PageOK
  <1> QED
    BY <1>1, <1>2, CloseStep

LEMMA RaiseFinalizerSerial ==
    ASSUME Types, SerialInv, NEW r \in Refreshes, RaiseFinalizer(r)
    PROVE  SerialInv'
  <1>1. Open(r) /\ Close(r, "error")
        /\ page' = page /\ rows' = rows /\ local' = local /\ member' = member /\ user' = user
        /\ clock' = clock
    BY DEF RaiseFinalizer, Open, table, work, people, mark
  <1>2. ASSUME NEW p \in Pages
        PROVE  page[r][p].pc \notin {"queued", "find", "save"}
    BY DEF RaiseFinalizer, SerialInv, RefreshOK, PageOK
  <1> QED
    BY <1>1, <1>2, CloseStep

LEMMA FinishRefreshSerial ==
    ASSUME Types, SerialInv, NEW r \in Refreshes, FinishRefresh(r)
    PROVE  SerialInv'
  <1> DEFINE x == Finishing(r)
  <1>1. /\ refresh[r].pc = "pages" /\ refresh' = [refresh EXCEPT ![r] = x]
        /\ x.pc \in {"mark", "stale"} /\ x.found = refresh[r].found /\ x.drop = refresh[r].drop
        /\ page' = page /\ rows' = rows /\ local' = local /\ member' = member /\ user' = user
        /\ clock' = clock
    BY FinishRefreshIs DEF table, work, people, mark
  <1>2. \A p \in Pages : page[r][p].pc \in {"none", "done"}
    <2>1. PagesSettled(r) /\ ~PagesFailed(r)
      BY FinishRefreshIs
    <2> QED BY <2>1 DEF PagesSettled, PagesFailed
  <1>3. refresh'[r] = x
    BY <1>1 DEF Types, SessionTypes
  <1> HIDE DEF x
  <1>4. Open(r) /\ RefreshOK(r) /\ \A i : ~Pending(r, i)
    BY <1>1, <1>2 DEF Open, SerialInv, Pending
  <1>5. FoundOK(r)'
    BY <1>1, <1>3, <1>4 DEF RefreshOK, FoundOK
  <1>6. DropOK(r)'
    BY <1>1, <1>3, <1>4 DEF RefreshOK, DropOK
  <1>7. \A p \in Pages : PageOK(r, p)'
    BY <1>1, <1>2 DEF PageOK, SavePage
  <1>8. \A i \in Ids : RowOK(i)' /\ OwnedOK(i)'
    BY <1>1, SameTable
  <1>9. x.pc # "none" /\ \A q \in Refreshes : q # r => page'[q] = page[q]
    BY <1>1
  <1> QED
    BY <1>1, <1>4, <1>5, <1>6, <1>7, <1>8, <1>9, RefreshStep

\* What is selected as stale was not found: it is older than what was.
LEMMA SelectStaleSerial ==
    ASSUME Types, SerialInv, NEW r \in Refreshes, SelectStale(r)
    PROVE  SerialInv'
  <1> DEFINE x == Dropping(r)
  <1>1. /\ refresh[r].pc = "stale" /\ refresh' = [refresh EXCEPT ![r] = x]
        /\ x.pc = "mark" /\ x.found = refresh[r].found /\ x.drop = StaleRows(r)
        /\ page' = page /\ rows' = rows /\ local' = local /\ member' = member /\ user' = user
        /\ clock' = clock
    BY SelectStaleIs DEF table, work, people, mark
  <1>2. refresh'[r] = x
    BY <1>1 DEF Types, SessionTypes
  <1> HIDE DEF x
  <1>3. Open(r) /\ RefreshOK(r) /\ refresh[r].checked \in -1..(clock - 1) /\ clock \in Nat
    BY <1>1, RefreshNow DEF Open, SerialInv, Types, MarkTypes
  <1>4. \A p \in Pages : page[r][p].pc \notin {"queued", "find", "save", "error"}
    BY <1>1, <1>3 DEF RefreshOK, PageOK
  <1>5. \A i \in refresh[r].found : rows[i].pk # 0 /\ rows[i].at = clock
    BY <1>3, <1>4 DEF RefreshOK, FoundOK, Pending
  <1>6. \A i \in Ids : member[i].pc = "none"
    BY <1>3, OpenAlone
  <1>7. \A d \in StaleRows(r) : /\ d.id \in Ids /\ rows[d.id].pk # 0 /\ d.row = rows[d.id]
                                /\ rows[d.id].at <= refresh[r].checked
    BY DEF StaleRows, Known
  <1>8. DropOK(r)'
    <2> SUFFICES ASSUME NEW d \in StaleRows(r)
                 PROVE  /\ d.id \notin refresh[r].found /\ d.row.pk # 0
                        /\ Orphans /\ d.id \in local => d.row.geo
      BY <1>1, <1>2 DEF DropOK
    <2>1. d.id \in Ids /\ rows[d.id].pk # 0 /\ d.row = rows[d.id]
          /\ rows[d.id].at <= refresh[r].checked
      BY <1>7
    <2>2. rows[d.id].at # clock
      BY <1>3, <2>1
    <2>3. Orphans /\ d.id \in local => rows[d.id].geo
      BY <1>6, <2>1 DEF SerialInv, OwnedOK
    <2> QED BY <1>5, <2>1, <2>2, <2>3
  <1>9. FoundOK(r)'
    BY <1>1, <1>2, <1>5 DEF FoundOK
  <1>10. \A p \in Pages : PageOK(r, p)'
    BY <1>1, <1>4 DEF PageOK, SavePage
  <1>11. \A i \in Ids : RowOK(i)' /\ OwnedOK(i)'
    BY <1>1, SameTable
  <1>12. x.pc # "none" /\ \A q \in Refreshes : q # r => page'[q] = page[q]
    BY <1>1
  <1> QED
    BY <1>1, <1>3, <1>8, <1>9, <1>10, <1>11, <1>12, RefreshStep

\* A deletion takes the local resource along, and leaves what was found.
LEMMA DropStaleSerial ==
    ASSUME Types, SerialInv, NEW r \in Refreshes, DropStale(r)
    PROVE  SerialInv'
  <1>1. PICK d \in refresh[r].drop :
          /\ d.id \in Ids /\ d.row \in Row
          /\ Dropped(r, d).pc = refresh[r].pc /\ Dropped(r, d).found = refresh[r].found
          /\ Dropped(r, d).drop = refresh[r].drop \ {d}
          /\ local' = DeletedLocal(d.id, d.row)
          /\ rows' = [rows EXCEPT ![d.id] = DeletedRow(d.id, d.row)]
          /\ refresh' = [refresh EXCEPT ![r] = Dropped(r, d)]
          /\ UNCHANGED <<service, mark, work, people, busy, page, used>>
    BY DropStaleIs
  <1>2. RefreshOK(r) /\ refresh[r].pc = "mark" /\ Open(r)
    BY DEF SerialInv, RefreshOK, DropOK, Open
  <1>3. \A p \in Pages : page[r][p].pc \notin {"queued", "find", "save", "error"}
    BY <1>2 DEF RefreshOK, PageOK
  <1>4. page' = page /\ member' = member /\ user' = user /\ clock' = clock
    BY <1>1 DEF work, people, mark
  <1>5. /\ d.id \notin refresh[r].found /\ local' \subseteq local
        /\ Orphans /\ d.id \in local => d.row.geo
    BY <1>1, <1>2, DeletedIs DEF RefreshOK, DropOK
  <1>6. /\ rows'[d.id] = DeletedRow(d.id, d.row)
        /\ \A j \in Ids : j # d.id => rows'[j] = rows[j]
    BY <1>1 DEF Types, TableTypes
  <1>7. refresh'[r] = Dropped(r, d)
    BY <1>1 DEF Types, SessionTypes
  <1>8. refresh[r].found \subseteq Ids /\ \A i : ~Pending(r, i)
    BY <1>3, RefreshNow DEF Pending
  <1>9. FoundOK(r)'
    BY <1>1, <1>2, <1>4, <1>5, <1>6, <1>7, <1>8 DEF RefreshOK, FoundOK
  <1>10. DropOK(r)'
    BY <1>1, <1>2, <1>5, <1>7 DEF RefreshOK, DropOK
  <1>11. \A p \in Pages : PageOK(r, p)'
    BY <1>1, <1>2, <1>3, <1>4, <1>7 DEF PageOK, SavePage
  <1>12. ASSUME NEW j \in Ids
        PROVE  RowOK(j)' /\ OwnedOK(j)'
    <2>1. CASE j # d.id
      BY <1>4, <1>5, <1>6, <2>1 DEF SerialInv, RowOK, OwnedOK
    <2>2. CASE j = d.id
      <3>1. rows'[j] \in {NoRow, rows[j], [rows[j] EXCEPT !.geo = FALSE]}
        BY <1>1, <1>6, <2>2, DeletedIs
      <3>2. rows[j] \in Row /\ RowOK(j)
        BY RowNow DEF Seen, SerialInv
      <3>3. RowOK(j)'
        BY <3>1, <3>2 DEF RowOK, NoRow, Row
      <3>4. Orphans => j \notin local'
        BY <1>1, <1>5, <2>2 DEF DeletedLocal
      <3> QED BY <3>3, <3>4 DEF OwnedOK
    <2> QED BY <2>1, <2>2
  <1>13. Dropped(r, d).pc # "none" /\ \A q \in Refreshes : q # r => page'[q] = page[q]
    BY <1>1, <1>2, <1>4
  <1> QED
    BY <1>1, <1>2, <1>4, <1>9, <1>10, <1>11, <1>12, <1>13, RefreshStep

LEMMA StartHarvestSerial ==
    ASSUME Types, SerialInv, Serial, StartHarvest
    PROVE  SerialInv'
  <1>1. (\A r \in Refreshes : ~Open(r)) /\ \A i \in Ids : member[i].pc = "none"
    BY StartHarvestIs, NothingRuns
  <1>0. refresh' = refresh
    BY <1>1, StartHarvestIs, DisturbTypes, SameSessions
  <1>2. busy' = TRUE /\ UNCHANGED <<refresh, page, rows, local, user>>
    BY <1>0, StartHarvestIs DEF table, people
  <1>3. PICK ids \in SUBSET Known :
          member' = [i \in Ids |-> IF i \in ids THEN [pc |-> "queued", row |-> rows[i]]
                                                ELSE NoMember]
    BY StartHarvestIs
  <1>4. \A r \in Refreshes : RefreshOK(r)' /\ ~Open(r)'
    BY <1>1, <1>2, QuietRefresh DEF Open
  <1>5. Alone' /\ InOrder' /\ (user.op = "none")'
    BY <1>2 DEF SerialInv, Alone, InOrder, Open
  <1>6. ASSUME NEW i \in Ids
        PROVE  MemberOK(i)' /\ RowOK(i)' /\ OwnedOK(i)'
    <2>1. \/ /\ member'[i] = [pc |-> "queued", row |-> rows[i]]
             /\ rows[i].pk # 0
          \/ member'[i] = NoMember
      BY <1>3 DEF Known
    <2>2. \/ member'[i].pc = "queued" /\ member'[i].row = rows[i] /\ rows[i].pk # 0
          \/ member'[i].pc = "none"
      BY <2>1 DEF NoMember
    <2>3. MemberOK(i)'
      BY <1>2, <1>4, <2>2 DEF MemberOK, CopyOK
    <2>4. RowOK(i)' /\ OwnedOK(i)'
      BY <1>1, <1>2, <2>2 DEF SerialInv, RowOK, OwnedOK
    <2> QED BY <2>3, <2>4
  <1> QED
    BY <1>4, <1>5, <1>6 DEF SerialInv

LEMMA EndHarvestSerial == Types /\ SerialInv /\ EndHarvest => SerialInv'
  <1> SUFFICES ASSUME Types, SerialInv, EndHarvest PROVE SerialInv'
    OBVIOUS
  <1>1. \A r \in Refreshes : ~Open(r)
    BY EndHarvestIs DEF SerialInv, MemberOK
  <1>2. \A i \in Ids : member[i].pc \in {"none", "done"} /\ member'[i] = NoMember
    BY EndHarvestIs
  <1>3. UNCHANGED <<refresh, page, rows, local, user>>
    BY EndHarvestIs DEF table, people
  <1>4. \A r \in Refreshes : RefreshOK(r)' /\ ~Open(r)'
    BY <1>1, <1>3, QuietRefresh DEF Open
  <1>5. Alone' /\ InOrder' /\ (user.op = "none")'
    BY <1>3 DEF SerialInv, Alone, InOrder, Open
  <1>6. ASSUME NEW i \in Ids
        PROVE  MemberOK(i)' /\ RowOK(i)' /\ OwnedOK(i)'
    <2>1. member'[i].pc = "none"
      BY <1>2 DEF NoMember
    <2>2. RowOK(i)' /\ OwnedOK(i)'
      BY <1>2, <1>3 DEF SerialInv, RowOK, OwnedOK
    <2> QED BY <2>1, <2>2 DEF MemberOK, CopyOK
  <1> QED
    BY <1>4, <1>5, <1>6 DEF SerialInv

\* What a step of member i leaves of the others.
LEMMA MemberIs ==
    ASSUME Types, NEW i \in Ids, NEW s, NEW c, Member(i, s, c)
    PROVE  /\ member'[i].pc = s /\ member'[i].row = c
           /\ \A j \in Ids : j # i => member'[j] = member[j]
  <1>1. member'[i] = [pc |-> s, row |-> c] /\ \A j \in Ids : j # i => member'[j] = member[j]
    BY DEF Member, Types, MemberTypes
  <1> QED
    BY <1>1

LEMMA ReadResourceSerial ==
    ASSUME Types, SerialInv, NEW i \in Ids, ReadResource(i)
    PROVE  SerialInv'
  <1>1. /\ member[i].pc = "queued" /\ rows' = rows /\ local' = local
        /\ UNCHANGED <<refresh, page, busy, user>>
    BY ReadResourceIs DEF table, people
  <1>2. CopyOK(i) /\ RowOK(i) /\ OwnedOK(i)
    BY DEF SerialInv, MemberOK
  <1>3. \/ member'[i].pc = "work" /\ member'[i].row = rows[i] /\ rows[i].pk = member[i].row.pk
        \/ member'[i].pc = "done"
    BY ReadResourceIs, MemberIs
  <1>4. \A j \in Ids : j # i => member'[j] = member[j]
    BY ReadResourceIs, MemberIs
  <1>5. CopyOK(i)' /\ RowOK(i)' /\ OwnedOK(i)'
    BY <1>1, <1>2, <1>3 DEF CopyOK, RowOK, OwnedOK
  <1> QED
    BY <1>1, <1>4, <1>5, MemberStep

LEMMA HarvestResourceSerial ==
    ASSUME Types, SerialInv, NEW i \in Ids, HarvestResource(i)
    PROVE  SerialInv'
  <1> DEFINE c == member[i].row
             g == [c EXCEPT !.geo = TRUE]
  <1>1. /\ member[i].pc = "work" /\ rows' = rows
        /\ UNCHANGED <<refresh, page, busy, user>>
    BY HarvestResourceIs DEF people
  <1>2. CopyOK(i) /\ RowOK(i) /\ OwnedOK(i)
    BY DEF SerialInv, MemberOK
  <1>3. c \in Row
    BY RowNow DEF Seen
  <1>4. g.pk = c.pk /\ g.title = c.title /\ g.at = c.at /\ g.geo = TRUE
    BY <1>3 DEF Row
  <1>5. \/ local' = local /\ Member(i, "last", c)
        \/ local' = local \cup {i} /\ Member(i, "link", g)
        \/ local' = local /\ c.geo /\ Member(i, "link", c)
        \/ local' = local /\ c.geo /\ i \notin local /\ Member(i, "done", c)
    BY HarvestResourceIs
  <1>6. \A j \in Ids : j # i => member'[j] = member[j] /\ (j \in local' <=> j \in local)
    BY <1>5, MemberIs
  <1>7. \/ local' = local /\ member'[i].pc = "last" /\ member'[i].row = c
        \/ member'[i].pc = "link" /\ member'[i].row = g
        \/ local' = local /\ c.geo /\ member'[i].pc = "link" /\ member'[i].row = c
        \/ local' = local /\ i \notin local /\ member'[i].pc = "done"
    BY <1>5, MemberIs
  <1>8. CopyOK(i)' /\ RowOK(i)' /\ OwnedOK(i)'
    <2> HIDE DEF g
    <2> QED BY <1>1, <1>2, <1>4, <1>7 DEF CopyOK, RowOK, OwnedOK
  <1> QED
    BY <1>1, <1>6, <1>8, MemberStep

LEMMA SaveHarvestedSerial ==
    ASSUME Types, SerialInv, NEW i \in Ids, SaveHarvested(i)
    PROVE  SerialInv'
  <1> DEFINE c == member[i].row
  <1>1. /\ member[i].pc \in {"link", "last"} /\ local' = local
        /\ UNCHANGED <<refresh, page, busy, user>>
    BY SaveHarvestedIs DEF people
  <1>2. CopyOK(i) /\ RowOK(i) /\ OwnedOK(i) /\ rows \in [Ids -> Seen(clock)]
    BY DEF SerialInv, MemberOK, Types, TableTypes
  <1>3. \/ /\ rows' = [rows EXCEPT ![i] = c]
           /\ \/ member[i].pc = "link" /\ Member(i, "last", c)
              \/ member[i].pc = "last" /\ Member(i, "done", c)
        \/ rows' = rows /\ ~CanSave(i, c) /\ Member(i, "done", c)
    BY SaveHarvestedIs
  <1>4. \A j \in Ids : j # i => member'[j] = member[j] /\ rows'[j] = rows[j]
    <2> HIDE DEF c
    <2> QED BY <1>2, <1>3, MemberIs
  <1>5. \/ /\ rows'[i] = c
           /\ \/ member[i].pc = "link" /\ member'[i].pc = "last" /\ member'[i].row = c
              \/ member[i].pc = "last" /\ member'[i].pc = "done" /\ member'[i].row = c
        \/ rows'[i] = rows[i] /\ ~CanSave(i, c) /\ member'[i].pc = "done"
    BY <1>2, <1>3, MemberIs
  <1>6. c.pk = rows[i].pk /\ c.pk # 0 /\ (Orphans /\ i \in local => c.geo)
    BY <1>1, <1>2 DEF CopyOK
  <1>7. ~CanSave(i, c) => i \notin local
    BY <1>6 DEF CanSave
  <1>8. CopyOK(i)' /\ RowOK(i)' /\ OwnedOK(i)'
    BY <1>1, <1>2, <1>5, <1>6, <1>7 DEF CopyOK, RowOK, OwnedOK
  <1> QED
    BY <1>1, <1>4, <1>8, MemberStep

LEMMA NextSerial == Serial /\ Types /\ SerialInv /\ [Next]_vars => SerialInv'
  <1> SUFFICES ASSUME Serial, Types, SerialInv, [Next]_vars PROVE SerialInv'
    OBVIOUS
  <1>1. CASE RemoteChange
    BY <1>1, RemoteChangeSerial
  <1>2. ASSUME NEW r \in Refreshes,
               \/ StartRefresh(r) \/ AbortRefresh(r) \/ FailRefresh(r) \/ FinishRefresh(r)
               \/ SelectStale(r) \/ DropStale(r) \/ RaiseFinalizer(r) \/ MarkChecked(r)
        PROVE  SerialInv'
    BY <1>2, StartRefreshSerial, AbortRefreshSerial, FailRefreshSerial, FinishRefreshSerial,
       SelectStaleSerial, DropStaleSerial, RaiseFinalizerSerial, MarkCheckedSerial
  <1>3. ASSUME NEW r \in Refreshes, NEW p \in Pages,
               ListPage(r, p) \/ FindRow(r, p) \/ SaveFound(r, p) \/ EndPage(r, p)
        PROVE  SerialInv'
    BY <1>3, ListPageSerial, FindRowSerial, SaveFoundSerial, EndPageSerial
  <1>4. CASE StartHarvest \/ EndHarvest
    BY <1>4, StartHarvestSerial, EndHarvestSerial
  <1>5. ASSUME NEW i \in Ids,
               ReadResource(i) \/ HarvestResource(i) \/ SaveHarvested(i) \/ Unlink(i)
        PROVE  SerialInv'
    BY <1>5, ReadResourceSerial, HarvestResourceSerial, SaveHarvestedSerial, UnlinkSerial
  <1>6. ASSUME NEW i \in Ids, NEW op \in Ops
        PROVE  ~UserRead(op, i)
    BY DEF UserRead, Serial
  <1>7. ~UserToggle /\ ~UserDelete
    BY DEF UserToggle, UserDelete, SerialInv
  <1>8. CASE CheckRead \/ CheckSave
    BY <1>8, CheckSerial
  <1>9. CASE UNCHANGED vars
    <2>1. UNCHANGED <<refresh, rows, local, member, page, user, busy, clock>>
      BY <1>9 DEF vars
    <2>2. \A i \in Ids : RowOK(i)' /\ OwnedOK(i)'
      BY <2>1, SameTable
    <2> QED BY <2>1, <2>2, HarmlessStep
  <1> QED
    BY <1>1, <1>2, <1>3, <1>4, <1>5, <1>6, <1>7, <1>8, <1>9, Zenon DEF Next

LEMMA SerialAlways ==
    ASSUME Serial
    PROVE  Spec => [](Types /\ SerialInv)
  <1>1. Types /\ SerialInv /\ [Next]_vars => (Types /\ SerialInv)'
    BY NextTypes, NextSerial
  <1>2. Init => Types /\ SerialInv
    BY InitTypes, InitSerial
  <1> QED
    BY <1>1, <1>2, PTL DEF Spec

\* One session at a time: with delete_orphan_resources_automatically, a local
\* resource does not survive the row that accounts for it, whether a finalizer
\* deletes the row, members of a session create and link resources, or
\* resources are deleted elsewhere.
THEOREM OrphansGo ==
    ASSUME Serial
    PROVE  Spec => []LocalOwned
  <1>1. Types /\ SerialInv => LocalOwned
    BY DEF LocalOwned, SerialInv, OwnedOK, Types, TableTypes
  <1> QED
    BY <1>1, SerialAlways, PTL

-----------------------------------------------------------------------------
(* One session at a time: the list keeps the promise of ResourceList. *)

Running == \E r \in Refreshes : Open(r)
SoFar   == UNION {refresh[r].found : r \in {q \in Refreshes : Open(q)}}

\* The open refresh is all that the abstract list sees.
LEMMA TheOpenOne ==
    /\ \A r \in Refreshes : Alone /\ Open(r) => Running /\ SoFar = refresh[r].found
    /\ (\A r \in Refreshes : ~Open(r)) => ~Running /\ SoFar = {}
  <1>1. ASSUME NEW r \in Refreshes, Alone, Open(r)
        PROVE  Running /\ SoFar = refresh[r].found
    <2>1. {q \in Refreshes : Open(q)} = {r}
      BY <1>1 DEF Alone
    <2> HIDE DEF Open
    <2> QED BY <1>1, <2>1 DEF Running, SoFar
  <1>2. ASSUME \A r \in Refreshes : ~Open(r)
        PROVE  ~Running /\ SoFar = {}
    BY <1>2, Zenon DEF Running, SoFar
  <1> QED
    BY <1>1, <1>2, Zenon

LEMMA TheOpenOneNext ==
    /\ \A r \in Refreshes : Alone' /\ Open(r)' => Running' /\ SoFar' = refresh'[r].found
    /\ (\A r \in Refreshes : ~Open(r)') => ~Running' /\ SoFar' = {}
  <1>1. ASSUME NEW r \in Refreshes, Alone', Open(r)'
        PROVE  Running' /\ SoFar' = refresh'[r].found
    <2>1. {q \in Refreshes : Open(q)'} = {r}
      BY <1>1 DEF Alone
    <2> QED BY <1>1, <2>1, Zenon DEF Running, SoFar
  <1>2. ASSUME \A r \in Refreshes : ~Open(r)'
        PROVE  ~Running' /\ SoFar' = {}
    BY <1>2, Zenon DEF Running, SoFar
  <1> QED
    BY <1>1, <1>2, Zenon

\* Steps that neither open nor close a refresh, find nothing and keep the keys.
LEMMA Unseen ==
    ASSUME \A r \in Refreshes : /\ refresh'[r].pc = refresh[r].pc
                                /\ refresh'[r].found = refresh[r].found,
           \A i \in Ids : rows'[i].pk = rows[i].pk
    PROVE  UNCHANGED <<Running, Known, SoFar>>
  <1>1. \A r \in Refreshes : Open(r)' <=> Open(r)
    BY DEF Open
  <1>2. Running' = Running
    BY <1>1 DEF Running
  <1>3. SoFar' = SoFar
    <2>1. {q \in Refreshes : Open(q)'} = {q \in Refreshes : Open(q)}
      BY <1>1
    <2>2. {q \in Refreshes : Open(q)}' = {q \in Refreshes : Open(q)'}
      OBVIOUS
    <2> QED BY <2>1, <2>2 DEF SoFar
  <1>4. Known' = Known
    BY DEF Known
  <1> QED
    BY <1>2, <1>3, <1>4

\* A refresh that goes on, with what it has found.
LEMMA GoesOn ==
    ASSUME Alone, Alone', NEW r \in Refreshes, Open(r), Open(r)'
    PROVE  /\ Running = TRUE /\ Running' = TRUE /\ Running' = Running
           /\ SoFar = refresh[r].found /\ SoFar' = refresh'[r].found
  <1>1. Running /\ SoFar = refresh[r].found
    BY TheOpenOne, Zenon
  <1>2. Running' /\ SoFar' = refresh'[r].found
    BY TheOpenOneNext, Zenon
  <1> QED
    BY <1>1, <1>2 DEF Running

LEMMA CloseEnds ==
    ASSUME Types, SerialInv, NEW r \in Refreshes, Close(r, "over"), Open(r), rows' = rows
    PROVE  List!End
  <1>1. refresh'[r].pc = "over" /\ \A q \in Refreshes : q # r => refresh'[q] = refresh[q]
    BY CloseIs DEF Types, SessionTypes
  <1>2. \A q \in Refreshes : ~Open(q)'
    BY <1>1, OpenAlone DEF Open
  <1>3. Running /\ ~Running' /\ SoFar' = {}
    BY <1>2, TheOpenOne, TheOpenOneNext, Zenon DEF SerialInv
  <1>4. Known' = Known
    BY DEF Known
  <1> QED
    BY <1>3, <1>4, Zenon DEF List!End, Running, SoFar

\* Late saves and unlinked rows keep the keys.
LEMMA KeptBySave ==
    ASSUME Types, SerialInv, NEW r \in Refreshes, NEW p \in Pages, SaveFound(r, p), NEW i \in Ids
    PROVE  rows'[i].pk = rows[i].pk
  <1> DEFINE j == Head(page[r][p].todo).id
             c == Saved(r, p)
  <1>1. page[r][p].pc = "save" /\ j \in Ids /\ c.pk = page[r][p].row.pk
        /\ (rows' = rows \/ rows' = [rows EXCEPT ![j] = c])
    BY SaveFoundIs
  <1>2. rows[j].pk = c.pk /\ rows \in [Ids -> Seen(clock)]
    BY <1>1 DEF SerialInv, RefreshOK, PageOK, SavePage, Types, TableTypes
  <1> HIDE DEF j, c
  <1> QED BY <1>1, <1>2

LEMMA KeptByMembers ==
    ASSUME Types, SerialInv, NEW j \in Ids, SaveHarvested(j) \/ Unlink(j), NEW i \in Ids
    PROVE  rows'[i].pk = rows[i].pk
  <1>0. rows \in [Ids -> Seen(clock)]
    BY DEF Types, TableTypes
  <1>1. CASE SaveHarvested(j)
    <2>1. member[j].pc \in {"link", "last"}
          /\ (rows' = rows \/ rows' = [rows EXCEPT ![j] = member[j].row])
      BY <1>1, SaveHarvestedIs
    <2>2. rows[j].pk = member[j].row.pk
      BY <2>1 DEF SerialInv, MemberOK, CopyOK
    <2> QED BY <1>0, <2>1, <2>2
  <1>2. CASE Unlink(j)
    <2>1. rows[j] \in Row /\ rows' = [rows EXCEPT ![j] = [rows[j] EXCEPT !.geo = FALSE]]
      BY <1>2, UnlinkIs, RowNow DEF Seen
    <2>2. [rows[j] EXCEPT !.geo = FALSE].pk = rows[j].pk
      BY <2>1 DEF Row
    <2> QED BY <1>0, <2>1, <2>2
  <1> QED
    BY <1>1, <1>2

LEMMA StartBegins ==
    ASSUME Types, SerialInv, SerialInv', Serial, NEW r \in Refreshes, StartRefresh(r)
    PROVE  List!Begin
  <1>1. \A q \in Refreshes : ~Open(q)
    BY NothingRuns DEF StartRefresh
  <1>2. refresh \in [Refreshes -> SessionRecord(clock)] /\ refresh[r] = NotStarted
    BY DEF Types, SessionTypes, StartRefresh, SerialInv, RefreshOK, Unstarted
  <1>3. PICK s \in {"pages", "error"} : refresh'[r] = Starting(r, s)
    BY StartRefreshIs
  <1>4. Open(r)' /\ refresh'[r].found = {}
    BY <1>2, <1>3 DEF Open, NotStarted, Starting
  <1>5. ~Running /\ Running' /\ SoFar' = {}
    BY <1>1, <1>4, TheOpenOne, TheOpenOneNext, Zenon DEF SerialInv
  <1>6. Known' = Known
    BY DEF StartRefresh, table, Known
  <1> QED
    BY <1>5, <1>6, Zenon DEF List!Begin, Running, SoFar

LEMMA FindRowFinds ==
    ASSUME Types, SerialInv, SerialInv', NEW r \in Refreshes, NEW p \in Pages, FindRow(r, p)
    PROVE  (\E i \in Ids : List!Find(i)) \/ UNCHANGED <<Running, Known, SoFar>>
  <1> DEFINE f == Head(page[r][p].todo)
             i == f.id
  <1>1. page[r][p].pc = "find" /\ i \in Ids /\ NewRow(f).pk # 0
    BY FindRowIs
  <1>2. Open(r) /\ Alone /\ Alone' /\ refresh \in [Refreshes -> SessionRecord(clock)]
        /\ rows \in [Ids -> Seen(clock)]
    BY <1>1 DEF Types, SessionTypes, TableTypes, SerialInv, RefreshOK, PageOK, Open
  <1>3. CASE /\ \/ rows' = [rows EXCEPT ![i] = NewRow(f)]
                \/ rows' = rows /\ rows[i].pk # 0
             /\ refresh' = [refresh EXCEPT ![r] = WithFound(r, i)]
    <2>1. refresh'[r].pc = refresh[r].pc /\ refresh'[r].found = refresh[r].found \cup {i}
      <3> HIDE DEF i
      <3>1. WithFound(r, i).pc = refresh[r].pc /\ WithFound(r, i).found = refresh[r].found \cup {i}
        BY <1>2 DEF WithFound, SessionRecord
      <3> QED BY <1>2, <1>3, <3>1
    <2>2. Open(r)'
      BY <1>2, <2>1 DEF Open
    <2>3. Running = TRUE /\ Running' = Running /\ SoFar' = SoFar \cup {i}
      BY <1>2, <2>1, <2>2, GoesOn
    <2>4. Known' = Known \cup {i}
      <3> HIDE DEF f, i
      <3> QED BY <1>1, <1>2, <1>3 DEF Known
    <2>5. PICK j \in Ids : j = i
      BY <1>1
    <2>6. SoFar' = SoFar \cup {j} /\ Known' = Known \cup {j}
      BY <2>3, <2>4, <2>5
    <2>7. List!Find(j)
      BY <2>3, <2>6, Zenon DEF List!Find, Running, SoFar
    <2> QED BY <2>7
  <1>4. CASE rows' = rows /\ refresh' = refresh
    BY <1>4, Unseen
  <1> QED
    BY <1>3, <1>4, FindRowIs

LEMMA DropStaleForgets ==
    ASSUME Types, SerialInv, SerialInv', NEW r \in Refreshes, DropStale(r)
    PROVE  \/ \E i \in Ids : List!Forget(i)
           \/ UNCHANGED <<Running, Known, SoFar>>
  <1>1. PICK d \in refresh[r].drop :
          /\ d.id \in Ids /\ d.row \in Row
          /\ Dropped(r, d).pc = refresh[r].pc /\ Dropped(r, d).found = refresh[r].found
          /\ rows' = [rows EXCEPT ![d.id] = DeletedRow(d.id, d.row)]
          /\ refresh' = [refresh EXCEPT ![r] = Dropped(r, d)]
    BY DropStaleIs
  <1>2. Open(r) /\ d.id \notin refresh[r].found
        /\ refresh \in [Refreshes -> SessionRecord(clock)] /\ rows \in [Ids -> Seen(clock)]
    BY DEF SerialInv, RefreshOK, DropOK, Open, Types, SessionTypes, TableTypes
  <1>3. refresh'[r] = Dropped(r, d) /\ \A q \in Refreshes : q # r => refresh'[q] = refresh[q]
    BY <1>2, <1>1
  <1>4. Open(r)'
    BY <1>1, <1>2, <1>3 DEF Open
  <1>5. Running' = Running /\ Running = TRUE /\ SoFar' = SoFar /\ SoFar = refresh[r].found
    BY <1>1, <1>2, <1>3, <1>4, GoesOn DEF SerialInv
  <1>6. DeletedRow(d.id, d.row).pk \in {0, rows[d.id].pk}
    <2>1. DeletedRow(d.id, d.row) \in {NoRow, rows[d.id], [rows[d.id] EXCEPT !.geo = FALSE]}
          /\ rows[d.id] \in Row
      BY <1>1, DeletedIs, RowNow DEF Seen
    <2> QED BY <2>1 DEF NoRow, Row
  <1>7. rows'[d.id].pk \in {0, rows[d.id].pk} /\ \A j \in Ids : j # d.id => rows'[j] = rows[j]
    BY <1>1, <1>2, <1>6
  <1>8. CASE rows'[d.id].pk = rows[d.id].pk
    <2>1. \A j \in Ids : rows'[j].pk = rows[j].pk
      BY <1>7, <1>8
    <2>2. \A q \in Refreshes : refresh'[q].pc = refresh[q].pc /\ refresh'[q].found = refresh[q].found
      BY <1>1, <1>3
    <2> QED BY <2>1, <2>2, Unseen
  <1>9. CASE rows'[d.id].pk = 0 /\ rows[d.id].pk # 0
    <2>1. Known' = Known \ {d.id} /\ d.id \in Known
      BY <1>1, <1>7, <1>9 DEF Known
    <2>2. List!Forget(d.id)
      BY <1>2, <1>5, <2>1, Zenon DEF List!Forget, Running, SoFar
    <2> QED BY <1>1, <2>2
  <1> QED BY <1>7, <1>8, <1>9

LEMMA FinishUnseen ==
    ASSUME Types, SerialInv, SerialInv', NEW r \in Refreshes,
           FinishRefresh(r) \/ SelectStale(r) \/ RaiseFinalizer(r)
    PROVE  UNCHANGED <<Running, Known, SoFar>>
  <1>1. refresh \in [Refreshes -> SessionRecord(clock)] /\ Alone /\ Alone'
    BY DEF Types, SessionTypes, SerialInv
  <1>2. Open(r) /\ Open(r)' /\ refresh'[r].found = refresh[r].found /\ rows' = rows
    <2>1. CASE FinishRefresh(r)
      <3>1. /\ refresh[r].pc = "pages" /\ refresh'[r] = Finishing(r)
            /\ Finishing(r).pc \in {"mark", "stale"} /\ Finishing(r).found = refresh[r].found
            /\ rows' = rows
        BY <1>1, <2>1, FinishRefreshIs DEF table
      <3> QED BY <3>1 DEF Open
    <2>2. CASE SelectStale(r)
      <3>1. /\ refresh[r].pc = "stale" /\ refresh'[r] = Dropping(r)
            /\ Dropping(r).pc = "mark" /\ Dropping(r).found = refresh[r].found
            /\ rows' = rows
        BY <1>1, <2>2, SelectStaleIs DEF table
      <3> QED BY <3>1 DEF Open
    <2>3. CASE RaiseFinalizer(r)
      <3>1. /\ refresh[r].pc \in {"stale", "mark"} /\ refresh'[r] = Closed(r, "error")
            /\ Closed(r, "error").pc = "error" /\ Closed(r, "error").found = refresh[r].found
            /\ rows' = rows
        BY <1>1, <2>3, CloseIs DEF RaiseFinalizer, table
      <3> QED BY <3>1 DEF Open
    <2> QED BY <2>1, <2>2, <2>3
  <1>3. Running' = Running /\ SoFar' = SoFar
    BY <1>1, <1>2, GoesOn
  <1>4. Known' = Known
    BY <1>2 DEF Known
  <1> QED
    BY <1>3, <1>4

ListStep == \/ List!Begin \/ List!End
            \/ (\E i \in Ids : List!Find(i)) \/ (\E i \in Ids : List!Forget(i))
            \/ UNCHANGED <<Running, Known, SoFar>>

LEMMA StepKept ==
    ASSUME Serial, Types, SerialInv, SerialInv', [Next]_vars
    PROVE  [List!Next]_(List!vars)
  <1>1. ASSUME NEW r \in Refreshes, StartRefresh(r)
        PROVE  ListStep
    BY <1>1, StartBegins DEF ListStep
  <1>2. ASSUME NEW r \in Refreshes, FailRefresh(r) \/ MarkChecked(r)
        PROVE  ListStep
    <2>1. Open(r) /\ Close(r, "over") /\ rows' = rows
      BY <1>2 DEF FailRefresh, MarkChecked, Open, table
    <2> QED BY <2>1, CloseEnds DEF ListStep
  <1>3. ASSUME NEW r \in Refreshes, NEW p \in Pages, FindRow(r, p)
        PROVE  ListStep
    BY <1>3, FindRowFinds DEF ListStep
  <1>4. ASSUME NEW r \in Refreshes, DropStale(r)
        PROVE  ListStep
    BY <1>4, DropStaleForgets DEF ListStep
  <1>5. ASSUME NEW r \in Refreshes, FinishRefresh(r) \/ SelectStale(r) \/ RaiseFinalizer(r)
        PROVE  ListStep
    BY <1>5, FinishUnseen DEF ListStep
  <1>6. ASSUME rows' = rows, refresh' = refresh
        PROVE  ListStep
    BY <1>6, Unseen DEF ListStep
  <1>7. ASSUME StartHarvest \/ EndHarvest \/ CheckRead \/ CheckSave \/ UNCHANGED vars
        PROVE  ListStep
    <2>1. rows' = rows
      BY <1>7 DEF StartHarvest, EndHarvest, CheckRead, CheckSave, vars, table
    <2>2. CASE StartHarvest
      <3>1. \A r \in Refreshes : ~Open(r)
        BY <2>2, NothingRuns DEF StartHarvest
      <3>2. refresh' = refresh
        BY <2>2, <3>1, StartHarvestIs, SameSessions
      <3> QED BY <1>6, <2>1, <3>2
    <2>3. CASE ~StartHarvest
      <3>1. refresh' = refresh
        BY <1>7, <2>3 DEF EndHarvest, CheckRead, CheckSave, vars
      <3> QED BY <1>6, <2>1, <3>1
    <2> QED BY <2>2, <2>3
  <1>8. ASSUME NEW i \in Ids, ReadResource(i) \/ HarvestResource(i)
        PROVE  ListStep
    BY <1>6, <1>8 DEF ReadResource, HarvestResource, table
  <1>9. ASSUME NEW r \in Refreshes, NEW p \in Pages, EndPage(r, p)
        PROVE  ListStep
    BY <1>6, <1>9 DEF EndPage, table
  <1>10. ~UserToggle /\ ~UserDelete /\ \A i \in Ids, op \in Ops : ~UserRead(op, i)
    BY DEF UserToggle, UserDelete, UserRead, SerialInv, Serial
  <1>11. ASSUME NEW i \in Ids, SaveHarvested(i) \/ Unlink(i)
         PROVE  ListStep
    <2>1. \A j \in Ids : rows'[j].pk = rows[j].pk
      BY <1>11, KeptByMembers
    <2>2. refresh' = refresh
      BY <1>11 DEF SaveHarvested, Unlink
    <2> QED BY <2>1, <2>2, Unseen DEF ListStep
  <1>12. ASSUME NEW r \in Refreshes, NEW p \in Pages, SaveFound(r, p)
         PROVE  ListStep
    <2>1. \A j \in Ids : rows'[j].pk = rows[j].pk
      BY <1>12, KeptBySave
    <2>2. refresh' = refresh
      BY <1>12, SaveFoundIs
    <2> QED BY <2>1, <2>2, Unseen DEF ListStep
  <1>13. ASSUME NEW r \in Refreshes, NEW p \in Pages, ListPage(r, p)
         PROVE  ListStep
    <2>1. refresh \in [Refreshes -> SessionRecord(clock)] /\ rows' = rows
          /\ (refresh' = refresh \/ refresh' = [refresh EXCEPT ![r] = NotCalm(r)])
      BY <1>13, ListPageIs DEF Types, SessionTypes, table
    <2>2. NotCalm(r).pc = refresh[r].pc /\ NotCalm(r).found = refresh[r].found
      BY <2>1 DEF NotCalm, SessionRecord
    <2>3. \A q \in Refreshes : refresh'[q].pc = refresh[q].pc /\ refresh'[q].found = refresh[q].found
      BY <2>1, <2>2
    <2> QED BY <2>1, <2>3, Unseen DEF ListStep
  <1>14. ASSUME NEW r \in Refreshes, AbortRefresh(r)
         PROVE  ListStep
    <2>1. rows' = rows /\ \A q \in Refreshes : /\ refresh'[q].pc = refresh[q].pc
                                               /\ refresh'[q].found = refresh[q].found
      BY <1>14 DEF AbortRefresh, Types, SessionTypes, SessionRecord, table
    <2> QED BY <2>1, Unseen DEF ListStep
  <1>15. ASSUME RemoteChange
         PROVE  ListStep
    <2>1. rows' = rows /\ refresh' = Disturb(refresh)
      BY <1>15 DEF RemoteChange, table
    <2>2. ASSUME NEW q \in Refreshes
          PROVE  refresh'[q].pc = refresh[q].pc /\ refresh'[q].found = refresh[q].found
      <3>1. /\ refresh[q] \in SessionRecord(clock)
            /\ refresh'[q] = refresh[q] \/ refresh'[q] = [refresh[q] EXCEPT !.calm = FALSE]
        BY <2>1, DisturbTypes, RefreshNow
      <3> QED BY <3>1 DEF SessionRecord
    <2> QED BY <2>1, <2>2, Unseen DEF ListStep
  <1>16. ListStep
    BY <1>1, <1>2, <1>3, <1>4, <1>5, <1>7, <1>8, <1>9, <1>10, <1>11, <1>12, <1>13, <1>14, <1>15,
       Zenon DEF Next
  <1>17. UNCHANGED <<Running, Known, SoFar>> => UNCHANGED List!vars
    BY Zenon DEF List!vars, Running, SoFar
  <1> QED
    BY <1>16, <1>17, Zenon DEF ListStep, List!Next

\* One session at a time: the list does what ResourceList promises.  What a
\* refresh found is in the list when it closes, and between the moment a refresh
\* begins and the moment its finalizer ends only what it did not find is
\* dropped, whatever pages, list changes, failures, harvests and checks come
\* between.
THEOREM KeepsPromise ==
    ASSUME Serial
    PROVE  Spec => Promise
  <1>1. Init => List!Init
    <2> SUFFICES ASSUME Init PROVE List!Init
      OBVIOUS
    <2>1. \A r \in Refreshes : ~Open(r)
      BY DEF Init, Open, NotStarted
    <2>2. ~Running /\ SoFar = {}
      BY <2>1, TheOpenOne, Zenon
    <2>3. Known = {}
      BY DEF Init, Known, NoRow
    <2> QED BY <2>2, <2>3, Zenon DEF List!Init, Running, SoFar
  <1>2. (Types /\ SerialInv) /\ (Types /\ SerialInv)' /\ [Next]_vars =>
           [List!Next]_(List!vars)
    BY StepKept
  <1> QED
    BY <1>1, <1>2, SerialAlways, PTL DEF Spec, Promise, List!Spec

-----------------------------------------------------------------------------
(***************************************************************************)
(* Whatever overlaps: what is as new as the clock was found by a refresh   *)
(* that is still open.  Rows are copied by members of harvesting sessions  *)
(* and by administrators and saved late, but a copy that outlives the      *)
(* refresh that found it is stale, since a refresh that closes moves the   *)
(* clock.                                                                  *)
(***************************************************************************)
Recent(i)   == \E q \in Refreshes : Open(q) /\ i \in refresh[q].found
Lately(x)   == x.pk # 0 /\ x.at = clock
Dated(x, i) == Lately(x) => Recent(i)
Dates       == /\ \A i \in Ids : Dated(rows[i], i) /\ Dated(member[i].row, i)
               /\ Dated(user.row, user.id)

Placed(r, p) ==
    /\ page[r][p].pc \in {"queued", "find", "save"} => refresh[r].pc = "pages"
    /\ page[r][p].pc = "save" => Head(page[r][p].todo).id \in refresh[r].found
    /\ refresh[r].pc \in {"stale", "mark"} => page[r][p].pc # "error"
Session(r) == /\ Unstarted(r) /\ (refresh[r].drop # {} => refresh[r].pc = "mark")
              /\ \A p \in Pages : Placed(r, p)
Sessions   == \A r \in Refreshes : Session(r)

LEMMA RecentKept ==
    ASSUME NEW i,
           \A q \in Refreshes : Open(q) => Open(q)' /\ refresh[q].found \subseteq refresh'[q].found
    PROVE  Recent(i) => Recent(i)'
  BY DEF Recent

\* Copies are made of copies, or of what a refresh has just found.
LEMMA DatesKept ==
    ASSUME Types, Dates, clock' = clock,
           \A q \in Refreshes : Open(q) => Open(q)' /\ refresh[q].found \subseteq refresh'[q].found,
           \A i \in Ids : /\ Lately(rows'[i]) => \/ Lately(rows[i]) \/ Lately(member[i].row)
                                                 \/ user.id = i /\ Lately(user.row)
                                                 \/ Recent(i)'
                          /\ Lately(member'[i].row) => Lately(rows[i]) \/ Lately(member[i].row),
           \/ user'.id = user.id /\ (Lately(user'.row) => Lately(user.row))
           \/ user'.id \in Ids /\ (Lately(user'.row) => Lately(rows[user'.id]))
    PROVE  Dates'
  <1>1. \A i : Recent(i) => Recent(i)'
    BY RecentKept
  <1>2. ASSUME NEW i \in Ids
        PROVE  /\ Lately(rows'[i]) => Recent(i)'
               /\ Lately(member'[i].row) => Recent(i)'
    BY <1>1 DEF Dates, Dated
  <1>3. ASSUME Lately(user'.row)
        PROVE  \E q \in Refreshes : Open(q)' /\ user'.id \in refresh'[q].found
    <2>1. CASE user'.id = user.id /\ Lately(user.row)
      <3>1. PICK q \in Refreshes : Open(q) /\ user.id \in refresh[q].found
        BY <2>1 DEF Dates, Dated, Recent
      <3> QED BY <2>1, <3>1
    <2>2. CASE user'.id \in Ids /\ Lately(rows[user'.id])
      <3>1. PICK i \in Ids : i = user'.id
        BY <2>2
      <3>2. Lately(rows[i])
        BY <2>2, <3>1
      <3>3. PICK q \in Refreshes : Open(q) /\ i \in refresh[q].found
        BY <3>2 DEF Dates, Dated, Recent
      <3> QED BY <3>1, <3>3
    <2> QED BY <1>3, <2>1, <2>2
  <1>4. Dated(user.row, user.id)'
    BY <1>3 DEF Dated, Lately, Recent
  <1>5. \A i \in Ids : Dated(rows[i], i)' /\ Dated(member[i].row, i)'
    BY <1>2 DEF Dated, Lately, Recent
  <1> QED
    BY <1>4, <1>5 DEF Dates

\* Steps that leave the copies, and the findings of the open refreshes, alone.
LEMMA DatesSame ==
    ASSUME Types, Dates, UNCHANGED <<rows, member, user, clock>>,
           \A q \in Refreshes : Open(q) => Open(q)' /\ refresh[q].found \subseteq refresh'[q].found
    PROVE  Dates'
  BY DatesKept

\* Steps that leave the sessions where they are.
LEMMA SessionsSame ==
    ASSUME Sessions, page' = page,
           \A r \in Refreshes : /\ refresh'[r].pc = refresh[r].pc
                                /\ refresh'[r].found = refresh[r].found
                                /\ refresh'[r].drop = refresh[r].drop
                                /\ refresh[r].pc = "none" => refresh'[r] = refresh[r]
    PROVE  /\ Sessions'
           /\ \A q \in Refreshes : Open(q) => Open(q)' /\ refresh[q].found \subseteq refresh'[q].found
  <1>1. ASSUME NEW r \in Refreshes
        PROVE  Session(r)'
    <2>1. Session(r)
      BY DEF Sessions
    <2> QED BY <2>1 DEF Session, Unstarted, Placed
  <1>2. \A q \in Refreshes : Open(q) => Open(q)' /\ refresh[q].found \subseteq refresh'[q].found
    BY DEF Open
  <1> QED
    BY <1>1, <1>2 DEF Sessions

\* A step of one refresh, or of one of its pages.
LEMMA SessionMoves ==
    ASSUME Types, Sessions, NEW r \in Refreshes, NEW x, refresh' = [refresh EXCEPT ![r] = x],
           \A q \in Refreshes : q # r => page'[q] = page[q],
           Open(r) => x.pc \notin {"none", "over"} /\ refresh[r].found \subseteq x.found,
           Session(r)'
    PROVE  /\ Sessions'
           /\ \A q \in Refreshes : Open(q) => Open(q)' /\ refresh[q].found \subseteq refresh'[q].found
  <1>1. refresh'[r] = x /\ \A q \in Refreshes : q # r => refresh'[q] = refresh[q]
    BY DEF Types, SessionTypes
  <1>2. ASSUME NEW q \in Refreshes
        PROVE  Session(q)'
    <2>1. CASE q = r
      BY <2>1
    <2>2. CASE q # r
      <3>1. Session(q) /\ refresh'[q] = refresh[q] /\ page'[q] = page[q]
        BY <1>1, <2>2 DEF Sessions
      <3> QED BY <3>1 DEF Session, Unstarted, Placed
    <2> QED BY <2>1, <2>2
  <1>3. \A q \in Refreshes : Open(q) => Open(q)' /\ refresh[q].found \subseteq refresh'[q].found
    BY <1>1 DEF Open
  <1> QED
    BY <1>2, <1>3 DEF Sessions

LEMMA PageMoves ==
    ASSUME Types, Sessions, NEW r \in Refreshes, NEW p \in Pages,
           page[r][p].pc \in {"queued", "find", "save"},
           NEW x, page' = [page EXCEPT ![r][p] = x], x.pc # "none",
           NEW y, refresh' = [refresh EXCEPT ![r] = y], y.pc = refresh[r].pc,
           y.drop = refresh[r].drop, refresh[r].found \subseteq y.found,
           x.pc = "save" => Head(x.todo).id \in y.found
    PROVE  /\ Sessions'
           /\ \A q \in Refreshes : Open(q) => Open(q)' /\ refresh[q].found \subseteq refresh'[q].found
  <1>1. /\ page'[r][p] = x /\ \A o \in Pages : o # p => page'[r][o] = page[r][o]
        /\ \A q \in Refreshes : q # r => page'[q] = page[q]
        /\ refresh'[r] = y
    BY DEF Types, PageTypes, SessionTypes
  <1>2. Session(r) /\ refresh[r].pc = "pages"
    BY DEF Sessions, Session, Placed
  <1>3. ASSUME NEW o \in Pages
        PROVE  Placed(r, o)'
    <2>1. CASE o = p
      BY <1>1, <1>2, <2>1 DEF Placed
    <2>2. CASE o # p
      <3>1. Placed(r, o) /\ page'[r][o] = page[r][o]
        BY <1>1, <1>2, <2>2 DEF Session
      <3> QED BY <1>1, <1>2, <3>1 DEF Placed
    <2> QED BY <2>1, <2>2
  <1>4. Session(r)'
    BY <1>1, <1>2, <1>3 DEF Session, Unstarted
  <1>5. y.pc \notin {"none", "over"}
    BY <1>2
  <1> QED
    BY <1>1, <1>4, <1>5, SessionMoves

SinceInv == Sessions /\ Dates

LEMMA InitSince == Init => SinceInv
  <1> SUFFICES ASSUME Init PROVE SinceInv
    OBVIOUS
  <1>1. \A r \in Refreshes : refresh[r] = NotStarted /\ \A p \in Pages : page[r][p].pc = "none"
    BY DEF Init, NoPage
  <1>2. Sessions
    BY <1>1 DEF Sessions, Session, Unstarted, Placed, NotStarted
  <1>3. (\A i \in Ids : rows[i].pk = 0 /\ member[i].row.pk = 0) /\ user.row.pk = 0
    BY DEF Init, NoRow, NoMember, NoRequest
  <1> QED
    BY <1>2, <1>3 DEF SinceInv, Dates, Dated, Lately

\* Steps of others disturb the open refreshes, but leave them where they are.
LEMMA DisturbSince ==
    ASSUME Types, Sessions, refresh' = Disturb(refresh), page' = page
    PROVE  /\ Sessions'
           /\ \A q \in Refreshes : Open(q) => Open(q)' /\ refresh[q].found \subseteq refresh'[q].found
  <1>1. \A r \in Refreshes : /\ refresh'[r].pc = refresh[r].pc
                             /\ refresh'[r].found = refresh[r].found
                             /\ refresh'[r].drop = refresh[r].drop
                             /\ refresh[r].pc = "none" => refresh'[r] = refresh[r]
    BY DisturbTypes DEF Open
  <1> QED
    BY <1>1, SessionsSame

LEMMA OthersSince ==
    ASSUME Types, SinceInv, RemoteChange \/ StartHarvest \/ UserToggle \/ UserDelete
    PROVE  SinceInv'
  <1>1. refresh' = Disturb(refresh) /\ page' = page /\ clock' = clock
    BY StartHarvestIs DEF RemoteChange, UserToggle, UserDelete, mark
  <1>2. /\ Sessions'
        /\ \A q \in Refreshes : Open(q) => Open(q)' /\ refresh[q].found \subseteq refresh'[q].found
    BY <1>1, DisturbSince DEF SinceInv
  <1>3. rows \in [Ids -> Seen(clock)]
    BY DEF Types, TableTypes
  <1>4. CASE RemoteChange
    <2>1. UNCHANGED <<rows, member, user, clock>>
      BY <1>4 DEF RemoteChange, table, work, people, mark
    <2> QED BY <1>2, <2>1, DatesSame DEF SinceInv
  <1>5. CASE StartHarvest
    <2>1. PICK ids \in SUBSET Known :
            member' = [i \in Ids |-> IF i \in ids THEN [pc |-> "queued", row |-> rows[i]]
                                                  ELSE NoMember]
      BY <1>5, StartHarvestIs
    <2>2. \A i \in Ids : member'[i].row = rows[i] \/ member'[i].row = NoRow
      BY <2>1 DEF NoMember
    <2>3. ~Lately(NoRow)
      BY DEF Lately, NoRow
    <2>4. rows' = rows /\ user' = user
      BY <1>5, StartHarvestIs DEF table, people
    <2> QED BY <1>1, <1>2, <2>2, <2>3, <2>4, DatesKept DEF SinceInv
  <1>6. CASE UserToggle
    <2> DEFINE c == [user.row EXCEPT !.wanted = ~@]
    <2>1. (rows' = rows \/ rows' = [rows EXCEPT ![user.id] = c]) /\ member' = member
      BY <1>6 DEF UserToggle, work
    <2>2. c.pk = user.row.pk /\ c.at = user.row.at
      <3>1. user.row \in Row
        BY UserNow
      <3> QED BY <3>1 DEF Row
    <2>3. user' = NoRequest /\ NoRequest.id \in Ids /\ ~Lately(NoRequest.row)
      BY <1>6, Constants DEF UserToggle, NoRequest, NoRow, Lately
    <2> HIDE DEF c
    <2>4. \A i \in Ids : Lately(rows'[i]) => Lately(rows[i]) \/ (user.id = i /\ Lately(user.row))
      BY <1>3, <2>1, <2>2 DEF Lately
    <2> QED BY <1>1, <1>2, <2>1, <2>3, <2>4, DatesKept DEF SinceInv
  <1>7. CASE UserDelete
    <2>1. /\ rows' = rows \/ rows' = [rows EXCEPT ![user.id] = DeletedRow(user.id, user.row)]
          /\ member' = member
      BY <1>7 DEF UserDelete, work, table
    <2>2. user.id \in Ids /\ DeletedRow(user.id, user.row) \in {NoRow, rows[user.id], [rows[user.id] EXCEPT !.geo = FALSE]}
      BY UserNow, DeletedIs
    <2>3. Lately(DeletedRow(user.id, user.row)) => Lately(rows[user.id])
      <3>1. rows[user.id] \in Row
        BY <2>2, RowNow DEF Seen
      <3> QED BY <2>2, <3>1 DEF Lately, NoRow, Row
    <2>4. user' = NoRequest /\ NoRequest.id \in Ids /\ ~Lately(NoRequest.row)
      BY <1>7, Constants DEF UserDelete, NoRequest, NoRow, Lately
    <2>5. \A i \in Ids : Lately(rows'[i]) => Lately(rows[i])
      BY <1>3, <2>1, <2>2, <2>3
    <2> QED BY <1>1, <1>2, <2>1, <2>4, <2>5, DatesKept DEF SinceInv
  <1> QED
    BY <1>2, <1>4, <1>5, <1>6, <1>7 DEF SinceInv

\* Members and administrators copy rows and save their copies.
LEMMA CopiesSince ==
    ASSUME Types, SinceInv,
           \/ EndHarvest \/ CheckRead \/ CheckSave \/ UNCHANGED vars
           \/ \E i \in Ids : \/ ReadResource(i) \/ HarvestResource(i) \/ SaveHarvested(i) \/ Unlink(i)
                             \/ \E op \in Ops : UserRead(op, i)
    PROVE  SinceInv'
  <1>1. refresh' = refresh /\ page' = page /\ clock' = clock
    BY DEF EndHarvest, CheckRead, CheckSave, vars, ReadResource, HarvestResource, SaveHarvested,
       Unlink, UserRead, mark
  <1>2. /\ Sessions'
        /\ \A q \in Refreshes : Open(q) => Open(q)' /\ refresh[q].found \subseteq refresh'[q].found
    BY <1>1, SessionsSame DEF SinceInv
  <1>3. rows \in [Ids -> Seen(clock)] /\ ~Lately(NoRow)
    BY DEF Types, TableTypes, Lately, NoRow
  <1>4. CASE CheckRead \/ CheckSave \/ UNCHANGED vars
    <2>1. UNCHANGED <<rows, member, user, clock>>
      BY <1>1, <1>4 DEF CheckRead, CheckSave, vars, table, work
    <2> QED BY <1>2, <2>1, DatesSame DEF SinceInv
  <1>5. CASE EndHarvest
    <2>1. member' = [i \in Ids |-> NoMember] /\ rows' = rows /\ user' = user /\ NoMember.row = NoRow
      BY <1>5, EndHarvestIs DEF table, people, NoMember
    <2> QED BY <1>1, <1>2, <1>3, <2>1, DatesKept DEF SinceInv
  <1>6. ASSUME NEW i \in Ids, ReadResource(i) \/ HarvestResource(i)
        PROVE  Dates'
    <2>1. rows' = rows /\ user' = user
      BY <1>6, ReadResourceIs, HarvestResourceIs DEF table, people
    <2>2. /\ \/ member'[i].row = rows[i] \/ member'[i].row = NoRow
             \/ member'[i].row.pk = member[i].row.pk /\ member'[i].row.at = member[i].row.at
          /\ \A j \in Ids : j # i => member'[j] = member[j]
      <3>1. CASE ReadResource(i)
        BY <3>1, ReadResourceIs, MemberIs
      <3>2. CASE HarvestResource(i)
        <4> DEFINE c == member[i].row
                   g == [c EXCEPT !.geo = TRUE]
        <4>1. g.pk = c.pk /\ g.at = c.at
          <5>1. c \in Row
            BY RowNow DEF Seen
          <5> QED BY <5>1 DEF Row
        <4>2. \E s \in MemberPcs : Member(i, s, c) \/ Member(i, s, g)
          BY <3>2, HarvestResourceIs DEF MemberPcs
        <4>3. PICK s \in MemberPcs : Member(i, s, c) \/ Member(i, s, g)
          BY <4>2
        <4> HIDE DEF c, g
        <4>4. (member'[i].row = c \/ member'[i].row = g) /\ \A j \in Ids : j # i => member'[j] = member[j]
          BY <4>3, MemberIs
        <4> QED BY <4>1, <4>4 DEF c
      <3> QED BY <1>6, <3>1, <3>2
    <2>3. \A j \in Ids : Lately(member'[j].row) => Lately(rows[j]) \/ Lately(member[j].row)
      BY <1>3, <2>2 DEF Lately
    <2> QED BY <1>1, <1>2, <2>1, <2>3, DatesKept DEF SinceInv
  <1>7. ASSUME NEW i \in Ids, SaveHarvested(i)
        PROVE  Dates'
    <2>1. /\ rows' = rows \/ rows' = [rows EXCEPT ![i] = member[i].row]
          /\ user' = user
          /\ \E s \in MemberPcs : Member(i, s, member[i].row)
      BY <1>7, SaveHarvestedIs DEF people, MemberPcs
    <2>2. /\ \A j \in Ids : Lately(rows'[j]) => Lately(rows[j]) \/ Lately(member[j].row)
          /\ \A j \in Ids : member'[j].row = member[j].row
      BY <1>3, <2>1, MemberIs
    <2> QED BY <1>1, <1>2, <2>1, <2>2, DatesKept DEF SinceInv
  <1>8. ASSUME NEW i \in Ids, Unlink(i)
        PROVE  Dates'
    <2>1. /\ rows' = [rows EXCEPT ![i] = [rows[i] EXCEPT !.geo = FALSE]]
          /\ member' = member /\ user' = user
      BY <1>8, UnlinkIs DEF work, people
    <2>2. [rows[i] EXCEPT !.geo = FALSE].pk = rows[i].pk /\ [rows[i] EXCEPT !.geo = FALSE].at = rows[i].at
      <3>1. rows[i] \in Row
        BY RowNow DEF Seen
      <3> QED BY <3>1 DEF Row
    <2>3. \A j \in Ids : Lately(rows'[j]) => Lately(rows[j])
      BY <1>3, <2>1, <2>2 DEF Lately
    <2> QED BY <1>1, <1>2, <2>1, <2>3, DatesKept DEF SinceInv
  <1>9. ASSUME NEW i \in Ids, NEW op \in Ops, UserRead(op, i)
        PROVE  Dates'
    <2>1. rows' = rows /\ member' = member /\ user' = [op |-> op, id |-> i, row |-> rows[i]]
      BY <1>9 DEF UserRead, table, work
    <2>2. user'.id = i /\ user'.row = rows[i]
      BY <2>1
    <2> QED BY <1>1, <1>2, <2>1, <2>2, DatesKept DEF SinceInv
  <1> QED
    BY <1>2, <1>4, <1>5, <1>6, <1>7, <1>8, <1>9 DEF SinceInv

LEMMA StartRefreshSince ==
    ASSUME Types, SinceInv, NEW r \in Refreshes, StartRefresh(r)
    PROVE  SinceInv'
  <1>1. PICK s \in {"pages", "error"} :
          /\ refresh' = [q \in Refreshes |-> IF q = r THEN Starting(r, s)
                                            ELSE IF Open(q) THEN NotCalm(q) ELSE refresh[q]]
          /\ \/ s = "pages" /\ page' = [page EXCEPT ![r] = Sent]
             \/ s = "error" /\ page' = page
    BY StartRefreshIs
  <1>2. UNCHANGED <<rows, member, user, clock>> /\ refresh[r].pc = "none"
    BY StartRefreshIs DEF table, work, people, mark
  <1>3. Session(r) /\ refresh[r] = NotStarted
    BY <1>2 DEF SinceInv, Sessions, Session, Unstarted
  <1>4. /\ Starting(r, s).pc = s /\ Starting(r, s).found = {} /\ Starting(r, s).drop = {}
        /\ refresh'[r] = Starting(r, s)
    BY <1>1, <1>3 DEF Starting, NotStarted
  <1>5. ASSUME NEW q \in Refreshes, q # r
        PROVE  /\ refresh'[q].pc = refresh[q].pc /\ refresh'[q].found = refresh[q].found
               /\ refresh'[q].drop = refresh[q].drop /\ page'[q] = page[q]
               /\ refresh[q].pc = "none" => refresh'[q] = refresh[q]
    <2>1. refresh'[q] = IF Open(q) THEN NotCalm(q) ELSE refresh[q]
      BY <1>1, <1>5
    <2>2. refresh[q] \in SessionRecord(clock)
      BY RefreshNow
    <2>3. /\ NotCalm(q).pc = refresh[q].pc /\ NotCalm(q).found = refresh[q].found
          /\ NotCalm(q).drop = refresh[q].drop
      BY <2>2 DEF NotCalm, SessionRecord
    <2>4. page'[q] = page[q]
      BY <1>1, <1>5 DEF Types, PageTypes
    <2>5. CASE Open(q)
      BY <2>1, <2>3, <2>4, <2>5 DEF Open
    <2>6. CASE ~Open(q)
      BY <2>1, <2>4, <2>6
    <2> QED BY <2>5, <2>6
  <1>6. ASSUME NEW p \in Pages
        PROVE  Placed(r, p)'
    <2>1. CASE s = "pages"
      <3>1. page'[r] = Sent
        BY <1>1, <2>1 DEF Types, PageTypes
      <3>2. NoPage.pc = "none" /\ [NoPage EXCEPT !.pc = "queued"].pc = "queued"
        BY DEF NoPage
      <3>3. page'[r][p].pc \in {"none", "queued"}
        BY <3>1, <3>2, SentIs
      <3> QED BY <1>4, <2>1, <3>3 DEF Placed
    <2>2. CASE s = "error"
      <3>1. page' = page /\ Placed(r, p)
        BY <1>1, <1>3, <2>2 DEF Session
      <3> QED BY <1>2, <1>4, <2>2, <3>1 DEF Placed
    <2> QED BY <2>1, <2>2
  <1>7. Session(r)'
    BY <1>4, <1>6 DEF Session, Unstarted
  <1>8. ASSUME NEW q \in Refreshes, q # r
        PROVE  Session(q)'
    <2>1. Session(q)
      BY DEF SinceInv, Sessions
    <2> QED BY <1>5, <1>8, <2>1 DEF Session, Unstarted, Placed
  <1>9. \A q \in Refreshes : Open(q) => Open(q)' /\ refresh[q].found \subseteq refresh'[q].found
    BY <1>2, <1>5 DEF Open
  <1>10. Dates'
    BY <1>2, <1>9, DatesSame DEF SinceInv
  <1> QED
    BY <1>7, <1>8, <1>10 DEF SinceInv, Sessions

\* A refresh that closes moves the clock, and nothing is as new any more.
LEMMA ClosesSince ==
    ASSUME Types, SinceInv, NEW r \in Refreshes, FailRefresh(r) \/ MarkChecked(r)
    PROVE  SinceInv'
  <1>1. /\ Close(r, "over") /\ Open(r) /\ clock' = clock + 1
        /\ UNCHANGED <<rows, member, user, page>>
    BY DEF FailRefresh, MarkChecked, Open, table, work, people
  <1>2. /\ refresh' = [refresh EXCEPT ![r] = Closed(r, "over")]
        /\ Closed(r, "over").pc = "over" /\ Closed(r, "over").drop = {}
    BY <1>1, CloseIs
  <1>3. refresh'[r] = Closed(r, "over") /\ \A q \in Refreshes : q # r => refresh'[q] = refresh[q]
    BY <1>2 DEF Types, SessionTypes
  <1>4. ASSUME NEW p \in Pages
        PROVE  page[r][p].pc \notin {"queued", "find", "save"}
    BY DEF FailRefresh, PagesSettled, MarkChecked, SinceInv, Sessions, Session, Placed
  <1>5. Session(r)'
    BY <1>1, <1>2, <1>3, <1>4 DEF Session, Unstarted, Placed
  <1>6. ASSUME NEW q \in Refreshes, q # r
        PROVE  Session(q)'
    <2>1. Session(q) /\ refresh'[q] = refresh[q] /\ page'[q] = page[q]
      BY <1>1, <1>3, <1>6 DEF SinceInv, Sessions
    <2> QED BY <2>1 DEF Session, Unstarted, Placed
  <1>7. \A x \in Seen(clock) : x.at # clock'
    BY <1>1 DEF Seen, Types, MarkTypes, Row
  <1>8. (\A i \in Ids : rows[i] \in Seen(clock) /\ member[i].row \in Seen(clock))
        /\ user.row \in Seen(clock)
    BY RowNow, UserNow
  <1>9. Dates'
    BY <1>1, <1>7, <1>8 DEF Dates, Dated, Lately
  <1> QED
    BY <1>5, <1>6, <1>9 DEF SinceInv, Sessions

\* The finalizer.
LEMMA FinalizerSince ==
    ASSUME Types, SinceInv, NEW r \in Refreshes,
           FinishRefresh(r) \/ SelectStale(r) \/ DropStale(r) \/ RaiseFinalizer(r)
    PROVE  SinceInv'
  <1>1. Session(r) /\ refresh[r] \in SessionRecord(clock)
    BY RefreshNow DEF SinceInv, Sessions
  <1>2. CASE FinishRefresh(r)
    <2>1. /\ refresh[r].pc = "pages" /\ PagesSettled(r) /\ ~PagesFailed(r)
          /\ refresh' = [refresh EXCEPT ![r] = Finishing(r)]
          /\ Finishing(r).pc \in {"mark", "stale"}
          /\ Finishing(r).found = refresh[r].found /\ Finishing(r).drop = refresh[r].drop
          /\ UNCHANGED <<rows, member, user, clock, page>>
      BY <1>2, FinishRefreshIs DEF table, work, people, mark
    <2>2. refresh'[r] = Finishing(r)
      BY <2>1 DEF Types, SessionTypes
    <2>3. \A p \in Pages : page[r][p].pc \in {"none", "done"}
      BY <2>1 DEF PagesSettled, PagesFailed
    <2>4. refresh[r].drop = {}
      BY <1>1, <2>1 DEF Session
    <2>5. \A p \in Pages : Placed(r, p)'
      BY <2>1, <2>3 DEF Placed
    <2>6. Session(r)'
      BY <2>1, <2>2, <2>4, <2>5 DEF Session, Unstarted
    <2>7. /\ Sessions'
          /\ \A q \in Refreshes : Open(q) => Open(q)' /\ refresh[q].found \subseteq refresh'[q].found
      BY <2>1, <2>6, SessionMoves DEF SinceInv
    <2> QED BY <2>1, <2>7, DatesSame DEF SinceInv
  <1>3. CASE SelectStale(r)
    <2>1. /\ refresh[r].pc = "stale" /\ refresh' = [refresh EXCEPT ![r] = Dropping(r)]
          /\ Dropping(r).pc = "mark" /\ Dropping(r).found = refresh[r].found
          /\ UNCHANGED <<rows, member, user, clock, page>>
      BY <1>3, SelectStaleIs DEF table, work, people, mark
    <2>2. refresh'[r] = Dropping(r)
      BY <2>1 DEF Types, SessionTypes
    <2>3. \A p \in Pages : Placed(r, p)'
      BY <1>1, <2>1, <2>2 DEF Session, Placed
    <2>4. Session(r)'
      BY <2>1, <2>2, <2>3 DEF Session, Unstarted
    <2>5. /\ Sessions'
          /\ \A q \in Refreshes : Open(q) => Open(q)' /\ refresh[q].found \subseteq refresh'[q].found
      BY <2>1, <2>4, SessionMoves DEF SinceInv
    <2> QED BY <2>1, <2>5, DatesSame DEF SinceInv
  <1>4. CASE RaiseFinalizer(r)
    <2>1. /\ refresh[r].pc \in {"stale", "mark"}
          /\ refresh' = [refresh EXCEPT ![r] = Closed(r, "error")]
          /\ Closed(r, "error").pc = "error" /\ Closed(r, "error").drop = {}
          /\ Closed(r, "error").found = refresh[r].found
          /\ UNCHANGED <<rows, member, user, clock, page>>
      BY <1>4, CloseIs DEF RaiseFinalizer, table, work, people, mark
    <2>2. refresh'[r] = Closed(r, "error")
      BY <2>1 DEF Types, SessionTypes
    <2>3. \A p \in Pages : Placed(r, p)'
      BY <1>1, <2>1, <2>2 DEF Session, Placed
    <2>4. Session(r)'
      BY <2>1, <2>2, <2>3 DEF Session, Unstarted
    <2>5. /\ Sessions'
          /\ \A q \in Refreshes : Open(q) => Open(q)' /\ refresh[q].found \subseteq refresh'[q].found
      BY <2>1, <2>4, SessionMoves DEF SinceInv
    <2> QED BY <2>1, <2>5, DatesSame DEF SinceInv
  <1>5. CASE DropStale(r)
    <2>1. PICK d \in refresh[r].drop :
            /\ d.id \in Ids /\ d.row \in Row
            /\ Dropped(r, d).pc = refresh[r].pc /\ Dropped(r, d).found = refresh[r].found
            /\ Dropped(r, d).drop = refresh[r].drop \ {d}
            /\ rows' = [rows EXCEPT ![d.id] = DeletedRow(d.id, d.row)]
            /\ refresh' = [refresh EXCEPT ![r] = Dropped(r, d)]
            /\ UNCHANGED <<service, mark, work, people, busy, page, used>>
      BY <1>5, DropStaleIs
    <2>2. refresh'[r] = Dropped(r, d) /\ page' = page /\ UNCHANGED <<member, user, clock>>
      BY <2>1 DEF Types, SessionTypes, work, people, mark
    <2>3. refresh[r].pc = "mark"
      BY <1>1, <2>1 DEF Session
    <2>4. \A p \in Pages : Placed(r, p)'
      BY <1>1, <2>1, <2>2, <2>3 DEF Session, Placed
    <2>5. Session(r)'
      BY <2>1, <2>2, <2>3, <2>4 DEF Session, Unstarted
    <2>6. /\ Sessions'
          /\ \A q \in Refreshes : Open(q) => Open(q)' /\ refresh[q].found \subseteq refresh'[q].found
      BY <2>1, <2>2, <2>3, <2>5, SessionMoves DEF SinceInv
    <2>7. Lately(DeletedRow(d.id, d.row)) => Lately(rows[d.id])
      <3>1. DeletedRow(d.id, d.row) \in {NoRow, rows[d.id], [rows[d.id] EXCEPT !.geo = FALSE]}
            /\ rows[d.id] \in Row
        BY <2>1, DeletedIs, RowNow DEF Seen
      <3> QED BY <3>1 DEF Lately, NoRow, Row
    <2>8. \A i \in Ids : Lately(rows'[i]) => Lately(rows[i])
      BY <2>1, <2>7 DEF Types, TableTypes
    <2> QED BY <2>2, <2>6, <2>8, DatesKept DEF SinceInv
  <1> QED
    BY <1>2, <1>3, <1>4, <1>5

\* What a page saves, or gets or creates, its refresh has found.
LEMMA PageSince ==
    ASSUME Types, SinceInv, NEW r \in Refreshes, NEW p \in Pages,
           ListPage(r, p) \/ FindRow(r, p) \/ SaveFound(r, p) \/ EndPage(r, p)
    PROVE  SinceInv'
  <1>0. /\ refresh \in [Refreshes -> SessionRecord(clock)] /\ refresh[r] \in SessionRecord(clock)
        /\ rows \in [Ids -> Seen(clock)]
    BY DEF Types, SessionTypes, TableTypes
  <1>1. refresh = [refresh EXCEPT ![r] = refresh[r]]
    BY <1>0
  <1>2. CASE ListPage(r, p)
    <2>1. /\ page[r][p].pc = "queued" /\ UNCHANGED <<rows, member, user, clock>>
          /\ \/ /\ page' = [page EXCEPT ![r][p] = Listed(p)]
                /\ refresh' = [refresh EXCEPT ![r] = refresh[r]]
             \/ /\ page' = [page EXCEPT ![r][p] = PageAt(r, p, "done")]
                /\ refresh' = [refresh EXCEPT ![r] = NotCalm(r)]
      BY <1>1, <1>2, ListPageIs DEF table, work, people, mark
    <2>2. Listed(p).pc = "find" /\ PageAt(r, p, "done").pc = "done"
      BY PageRecords DEF Listed, PagePcs
    <2>3. /\ NotCalm(r).pc = refresh[r].pc /\ NotCalm(r).found = refresh[r].found
          /\ NotCalm(r).drop = refresh[r].drop
      BY <1>0 DEF NotCalm, SessionRecord
    <2>4. /\ Sessions'
          /\ \A q \in Refreshes : Open(q) => Open(q)' /\ refresh[q].found \subseteq refresh'[q].found
      <3>1. CASE /\ page' = [page EXCEPT ![r][p] = Listed(p)]
                 /\ refresh' = [refresh EXCEPT ![r] = refresh[r]]
        BY <2>1, <2>2, <3>1, PageMoves DEF SinceInv
      <3>2. CASE /\ page' = [page EXCEPT ![r][p] = PageAt(r, p, "done")]
                 /\ refresh' = [refresh EXCEPT ![r] = NotCalm(r)]
        BY <2>1, <2>2, <2>3, <3>2, PageMoves DEF SinceInv
      <3> QED BY <2>1, <3>1, <3>2
    <2> QED BY <2>1, <2>4, DatesSame DEF SinceInv
  <1>3. CASE EndPage(r, p)
    <2>1. /\ page[r][p].pc = "find" /\ page' = [page EXCEPT ![r][p] = PageAt(r, p, "done")]
          /\ refresh' = [refresh EXCEPT ![r] = refresh[r]]
          /\ UNCHANGED <<rows, member, user, clock>>
      BY <1>1, <1>3, EndPageIs DEF table, work, people, mark
    <2>2. PageAt(r, p, "done").pc = "done"
      BY PageRecords DEF PagePcs
    <2>3. /\ Sessions'
          /\ \A q \in Refreshes : Open(q) => Open(q)' /\ refresh[q].found \subseteq refresh'[q].found
      BY <2>1, <2>2, PageMoves DEF SinceInv
    <2> QED BY <2>1, <2>3, DatesSame DEF SinceInv
  <1>4. CASE FindRow(r, p)
    <2> DEFINE f == Head(page[r][p].todo)
    <2>1. page[r][p].pc = "find" /\ UNCHANGED <<member, user, clock>> /\ f.id \in Ids
          /\ NewRow(f) \in Seen(clock)
      BY <1>4, FindRowIs DEF work, people, mark
    <2>2. PICK i \in Ids : i = f.id
      BY <2>1
    <2>3. /\ WithFound(r, i).pc = refresh[r].pc /\ WithFound(r, i).drop = refresh[r].drop
          /\ WithFound(r, i).found = refresh[r].found \cup {i}
      BY <1>0 DEF WithFound, SessionRecord
    <2>4. \A c \in Seen(clock) : /\ Holding(r, p, c).pc = "save"
                                 /\ Holding(r, p, c).todo = page[r][p].todo
      BY PageRecords
    <2>5. CASE \E c \in Seen(clock) :
                 /\ rows' = rows \/ rows' = [rows EXCEPT ![i] = c]
                 /\ refresh' = [refresh EXCEPT ![r] = WithFound(r, i)]
                 /\ page' = [page EXCEPT ![r][p] = Holding(r, p, c)]
      <3>1. PICK c \in Seen(clock) :
                 /\ rows' = rows \/ rows' = [rows EXCEPT ![i] = c]
                 /\ refresh' = [refresh EXCEPT ![r] = WithFound(r, i)]
                 /\ page' = [page EXCEPT ![r][p] = Holding(r, p, c)]
        BY <2>5
      <3>2. Head(Holding(r, p, c).todo).id \in WithFound(r, i).found
        BY <2>2, <2>3, <2>4
      <3>3. /\ Sessions'
            /\ \A q \in Refreshes : Open(q) => Open(q)' /\ refresh[q].found \subseteq refresh'[q].found
        BY <2>1, <2>3, <2>4, <3>1, <3>2, PageMoves DEF SinceInv
      <3>4. Recent(i)'
        <4>1. refresh'[r] = WithFound(r, i) /\ refresh[r].pc = "pages"
          BY <1>0, <2>1, <3>1 DEF SinceInv, Sessions, Session, Placed
        <4>2. Open(r)' /\ i \in refresh'[r].found
          BY <2>3, <4>1 DEF Open
        <4> QED BY <4>2 DEF Recent
      <3>5. \A j \in Ids : Lately(rows'[j]) => Lately(rows[j]) \/ Recent(j)'
        BY <1>0, <3>1, <3>4
      <3> QED BY <2>1, <3>3, <3>5, DatesKept DEF SinceInv
    <2>6. CASE /\ page' = [page EXCEPT ![r][p] = PageAt(r, p, "error")]
               /\ rows' = rows /\ refresh' = refresh
      <3>1. PageAt(r, p, "error").pc = "error"
        BY PageRecords DEF PagePcs
      <3>2. refresh' = [refresh EXCEPT ![r] = refresh[r]]
        BY <1>1, <2>6
      <3>3. /\ Sessions'
            /\ \A q \in Refreshes : Open(q) => Open(q)' /\ refresh[q].found \subseteq refresh'[q].found
        BY <2>1, <2>6, <3>1, <3>2, PageMoves DEF SinceInv
      <3> QED BY <2>1, <2>6, <3>3, DatesSame DEF SinceInv
    <2>7. rows[i] \in Seen(clock)
      BY <1>0
    <2> QED BY <1>4, <2>1, <2>2, <2>5, <2>6, <2>7, FindRowIs
  <1>5. CASE SaveFound(r, p)
    <2>1. PICK i \in Ids : i = Head(page[r][p].todo).id
      BY <1>5, SaveFoundIs
    <2>2. /\ page[r][p].pc = "save" /\ UNCHANGED <<member, user, clock, refresh>>
          /\ \/ /\ rows' = [rows EXCEPT ![i] = Saved(r, p)]
                /\ page' = [page EXCEPT ![r][p] = Shortened(r, p)]
             \/ /\ rows' = rows
                /\ page' = [page EXCEPT ![r][p] = PageAt(r, p, "error")]
      BY <1>5, <2>1, SaveFoundIs DEF work, people, mark
    <2>3. Shortened(r, p).pc = "find" /\ PageAt(r, p, "error").pc = "error"
      BY PageRecords DEF Shortened, PagePcs
    <2>4. refresh' = [refresh EXCEPT ![r] = refresh[r]]
      BY <1>1, <2>2
    <2>5. /\ Sessions'
          /\ \A q \in Refreshes : Open(q) => Open(q)' /\ refresh[q].found \subseteq refresh'[q].found
      <3>1. page[r][p].pc = "save"
        BY <2>2
      <3>2. CASE page' = [page EXCEPT ![r][p] = Shortened(r, p)]
        BY <2>3, <2>4, <3>1, <3>2, PageMoves DEF SinceInv
      <3>3. CASE page' = [page EXCEPT ![r][p] = PageAt(r, p, "error")]
        BY <2>3, <2>4, <3>1, <3>3, PageMoves DEF SinceInv
      <3> QED BY <2>2, <3>2, <3>3
    <2>6. Recent(i)'
      <3>1. refresh[r].pc = "pages" /\ i \in refresh[r].found
        BY <2>1, <2>2 DEF SinceInv, Sessions, Session, Placed
      <3> QED BY <2>2, <3>1 DEF Recent, Open
    <2>7. \A j \in Ids : Lately(rows'[j]) => Lately(rows[j]) \/ Recent(j)'
      BY <1>0, <2>2, <2>6
    <2> QED BY <2>2, <2>5, <2>7, DatesKept DEF SinceInv
  <1> QED
    BY <1>2, <1>3, <1>4, <1>5

LEMMA NextSince == Types /\ SinceInv /\ [Next]_vars => SinceInv'
  <1> SUFFICES ASSUME Types, SinceInv, [Next]_vars PROVE SinceInv'
    OBVIOUS
  <1>1. CASE RemoteChange \/ StartHarvest \/ UserToggle \/ UserDelete
    BY <1>1, OthersSince
  <1>2. CASE \/ EndHarvest \/ CheckRead \/ CheckSave \/ UNCHANGED vars
             \/ \E i \in Ids : \/ ReadResource(i) \/ HarvestResource(i) \/ SaveHarvested(i) \/ Unlink(i)
                               \/ \E op \in Ops : UserRead(op, i)
    BY <1>2, CopiesSince
  <1>3. ASSUME NEW r \in Refreshes, AbortRefresh(r)
        PROVE  SinceInv'
    <2>1. refresh \in [Refreshes -> SessionRecord(clock)] /\ refresh[r].pc = "pages"
      BY <1>3 DEF Types, SessionTypes, AbortRefresh
    <2>2. \A q \in Refreshes : /\ refresh'[q].pc = refresh[q].pc
                               /\ refresh'[q].found = refresh[q].found
                               /\ refresh'[q].drop = refresh[q].drop
                               /\ refresh[q].pc = "none" => refresh'[q] = refresh[q]
      BY <1>3, <2>1 DEF AbortRefresh, SessionRecord
    <2>3. UNCHANGED <<rows, member, page, user, clock>>
      BY <1>3 DEF AbortRefresh, table, work, people, mark
    <2>4. /\ Sessions'
          /\ \A q \in Refreshes : Open(q) => Open(q)' /\ refresh[q].found \subseteq refresh'[q].found
      BY <2>2, <2>3, SessionsSame DEF SinceInv
    <2> QED BY <2>3, <2>4, DatesSame DEF SinceInv
  <1>4. ASSUME NEW r \in Refreshes,
               \/ StartRefresh(r) \/ FailRefresh(r) \/ FinishRefresh(r)
               \/ SelectStale(r) \/ DropStale(r) \/ RaiseFinalizer(r) \/ MarkChecked(r)
        PROVE  SinceInv'
    BY <1>4, StartRefreshSince, ClosesSince, FinalizerSince
  <1>5. ASSUME NEW r \in Refreshes, NEW p \in Pages,
               ListPage(r, p) \/ FindRow(r, p) \/ SaveFound(r, p) \/ EndPage(r, p)
        PROVE  SinceInv'
    BY <1>5, PageSince
  <1> QED
    BY <1>1, <1>2, <1>3, <1>4, <1>5, Zenon DEF Next

-----------------------------------------------------------------------------

(***************************************************************************)
(* In step with the remote service, whatever overlaps, fails or is saved   *)
(* late before the refresh.  A refresh stays calm only while it is alone,  *)
(* so what it reads, finds and selects is as it left it; and what it does  *)
(* not find is not as new as the clock (SinceInv), so it is stale when the *)
(* mark that the refresh read is one epoch behind the clock.               *)
(***************************************************************************)

\* What page p of the remote list holds, and what remains to be found of it.
OnPage(p)    == {remote[j] : j \in {k \in 1..Len(remote) : (p - 1) * PageSize < k
                                                           /\ k <= p * PageSize}}
Coming(r, p) == {page[r][p].todo[k].id : k \in 1..Len(page[r][p].todo)}

\* A refresh that nothing disturbs finds the pages of the list as it is ...
CalmPage(r, p) ==
    /\ page[r][p].pc = "none" => p > PageCount(Len(remote))
    /\ page[r][p].pc \in {"find", "save"} =>
          /\ OnPage(p) \subseteq refresh[r].found \cup Coming(r, p)
          /\ \A k \in 1..Len(page[r][p].todo) :
                LET f == page[r][p].todo[k]
                IN  f.id \in ToSet(remote) /\ f.title = title[f.id]
    /\ page[r][p].pc = "done" => OnPage(p) \subseteq refresh[r].found

\* ... and saves what is still the row it got or created.
SameRow(x, row) == row.pk = x.row.pk /\ row.pk # 0 /\ row.title = x.row.title
HoldsRow(r, p) == page[r][p].pc = "save" =>
                    LET i == Head(page[r][p].todo).id IN SameRow(page[r][p], rows[i])

Still(r)  == refresh[r].calm /\ refresh[r].pc \in {"pages", "stale", "mark"}
Single(r) == /\ \A q \in Refreshes : q # r => ~Open(q)
             /\ \A i \in Ids : member[i].pc = "none"
FoundAs(r, i) == /\ i \in ToSet(remote) /\ rows[i].pk # 0 /\ rows[i].title = title[i]
                 /\ rows[i].at = clock \/ Pending(r, i)
Finding(r) ==
    /\ \A i \in refresh[r].found : FoundAs(r, i)
    /\ refresh[r].pc \in {"stale", "mark"} => ToSet(remote) \subseteq refresh[r].found
    /\ refresh[r].pc = "pages" => \A p \in Pages : CalmPage(r, p)
    /\ \A p \in Pages : HoldsRow(r, p)
Leaving(r) == /\ \A d \in refresh[r].drop : d.id \notin refresh[r].found
              /\ refresh[r].pc = "mark" /\ ~refresh[r].abort /\ refresh[r].checked = clock - 1 =>
                    \A i \in Known \ refresh[r].found :
                       \E d \in refresh[r].drop : d.id = i /\ d.row.pk = rows[i].pk
StillOK(r) == Still(r) => Single(r) /\ Finding(r) /\ Leaving(r)
StillInv   == \A r \in Refreshes : StillOK(r)

\* What a page lists is on the page, and every resource is on one of the pages.
LEMMA PageHolds ==
    ASSUME Types, NEW p \in Pages
    PROVE  /\ \A i \in OnPage(p) : \E k \in 1..Len(Listing(p)) : Listing(p)[k].id = i
           /\ \A k \in 1..Len(Listing(p)) :
                 /\ Listing(p)[k].id \in ToSet(remote)
                 /\ Listing(p)[k].title = title[Listing(p)[k].id]
  <1>1. /\ Len(Listing(p)) = Len(PageIds(p))
        /\ \A k \in 1..Len(PageIds(p)) :
              /\ Listing(p)[k].id = PageIds(p)[k] /\ Listing(p)[k].title = title[PageIds(p)[k]]
              /\ \E j \in 1..Len(remote) : PageIds(p)[k] = remote[j]
        /\ \A j \in 1..Len(remote) : (p - 1) * PageSize < j /\ j <= p * PageSize =>
              \E k \in 1..Len(PageIds(p)) : PageIds(p)[k] = remote[j]
    <2>1. \A k \in 1..Len(PageIds(p)) :
             Listing(p)[k] = [id |-> PageIds(p)[k], title |-> title[PageIds(p)[k]]]
      BY PageIs, Zenon
    <2>2. \A k \in 1..Len(PageIds(p)) :
             Listing(p)[k].id = PageIds(p)[k] /\ Listing(p)[k].title = title[PageIds(p)[k]]
      <3> SUFFICES ASSUME NEW k \in 1..Len(PageIds(p))
                   PROVE  Listing(p)[k].id = PageIds(p)[k] /\ Listing(p)[k].title = title[PageIds(p)[k]]
        OBVIOUS
      <3>1. Listing(p)[k] = [id |-> PageIds(p)[k], title |-> title[PageIds(p)[k]]]
        BY <2>1
      <3> QED BY <3>1
    <2> QED BY <2>2, PageIs, Zenon
  <1>2. \A j \in 1..Len(remote) : remote[j] \in ToSet(remote)
    BY DEF Types, ServiceTypes, ToSet
  <1>3. ASSUME NEW i \in OnPage(p)
        PROVE  \E k \in 1..Len(Listing(p)) : Listing(p)[k].id = i
    <2>1. PICK j \in 1..Len(remote) : /\ i = remote[j]
                                      /\ (p - 1) * PageSize < j /\ j <= p * PageSize
      BY DEF OnPage
    <2> QED BY <1>1, <2>1
  <1> QED
    BY <1>1, <1>2, <1>3

LEMMA EveryPage ==
    ASSUME Types, NEW i \in ToSet(remote)
    PROVE  \E p \in Pages : p <= PageCount(Len(remote)) /\ i \in OnPage(p)
  <1>1. /\ remote \in Seq(Ids) /\ Distinct(remote) /\ Len(remote) \in Nat
        /\ PageSize \in Nat \ {0} /\ IsFiniteSet(Ids) /\ Cardinality(Ids) \in Nat
    BY Constants DEF Types, ServiceTypes
  <1>2. PICK j \in 1..Len(remote) : remote[j] = i
    BY <1>1 DEF ToSet
  <1>3. Len(remote) <= Cardinality(Ids)
    BY <1>1, AtMostAll
  <1>4. /\ PageCount(j) <= PageCount(Len(remote)) /\ PageCount(j) \in Nat
        /\ PageCount(Len(remote)) <= PageCount(Cardinality(Ids))
        /\ PageCount(Len(remote)) \in Nat /\ PageCount(Cardinality(Ids)) \in Nat
    <2>1. \A x, y \in Nat : x <= y => /\ PageCount(x) <= PageCount(y)
                                     /\ PageCount(x) \in Nat /\ PageCount(y) \in Nat
      BY <1>1, PagesGrow, Zenon DEF PageCount
    <2>2. j \in Nat /\ j <= Len(remote)
      BY <1>1
    <2> QED BY <1>1, <1>3, <2>1, <2>2, Zenon
  <1>5. /\ PageCount(j) >= 1
        /\ (PageCount(j) - 1) * PageSize < j /\ j <= PageCount(j) * PageSize
    BY <1>1, PageOfEntry DEF PageCount
  <1>6. PageCount(j) \in Pages
    BY <1>4, <1>5 DEF Pages
  <1>7. i \in OnPage(PageCount(j))
    BY <1>2, <1>5 DEF OnPage
  <1> QED
    BY <1>4, <1>6, <1>7

LEMMA InitStill == Init => StillInv
  BY DEF Init, NotStarted, StillInv, StillOK, Still

\* Steps after which no refresh is calm.
LEMMA NoneStill ==
    ASSUME Types, refresh' = Disturb(refresh)
    PROVE  StillInv'
  <1>1. ASSUME NEW r \in Refreshes
        PROVE  ~Still(r)'
    <2>1. refresh[r] \in SessionRecord(clock)
      BY RefreshNow
    <2>2. CASE Open(r)
      <3>1. refresh'[r].calm = FALSE
        BY <2>1, <2>2, DisturbTypes DEF SessionRecord
      <3> QED BY <3>1 DEF Still
    <2>3. CASE ~Open(r)
      BY <2>3, DisturbTypes DEF Open, Still
    <2> QED BY <2>2, <2>3
  <1> QED
    BY <1>1 DEF StillInv, StillOK

\* Steps of a harvesting session: no refresh has been calm since it began.
LEMMA MembersStill ==
    ASSUME StillInv, refresh' = refresh, NEW i \in Ids, member[i].pc # "none"
    PROVE  StillInv'
  BY DEF StillInv, StillOK, Single, Still

\* Steps of refresh r, the only one under way if any is calm.
LEMMA StepStill ==
    ASSUME StillInv, NEW r \in Refreshes, Open(r),
           \A q \in Refreshes : q # r => refresh'[q] = refresh[q],
           StillOK(r)'
    PROVE  StillInv'
  <1>1. ASSUME NEW q \in Refreshes, q # r
        PROVE  StillOK(q)'
    <2>1. ~Still(q)
      BY <1>1 DEF StillInv, StillOK, Single
    <2> QED BY <1>1, <2>1 DEF StillOK, Still
  <1> QED
    BY <1>1 DEF StillInv

\* Steps of nobody: the rows keep their keys, times and titles.
LEMMA KeptStill ==
    ASSUME Types, StillInv, UNCHANGED <<remote, title, clock, member, page>>,
           \A r \in Refreshes :
              /\ refresh'[r].pc = refresh[r].pc /\ refresh'[r].found = refresh[r].found
              /\ refresh'[r].drop = refresh[r].drop /\ refresh'[r].checked = refresh[r].checked
              /\ refresh'[r].calm = refresh[r].calm /\ (~refresh'[r].abort => ~refresh[r].abort),
           \A i \in Ids : /\ rows'[i].pk = rows[i].pk /\ rows'[i].at = rows[i].at
                          /\ rows'[i].title = rows[i].title
    PROVE  StillInv'
  <1> SUFFICES ASSUME NEW r \in Refreshes, Still(r)' PROVE (Single(r) /\ Finding(r) /\ Leaving(r))'
    BY DEF StillInv, StillOK
  <1>1. Single(r) /\ Finding(r) /\ Leaving(r) /\ refresh[r].found \subseteq Ids
    BY RefreshNow DEF StillInv, StillOK, Still
  <1>2. Single(r)'
    BY <1>1 DEF Single, Open
  <1>3. Known' = Known /\ Known \subseteq Ids
    BY DEF Known
  <1>4. Leaving(r)'
    BY <1>1, <1>3 DEF Leaving
  <1>5. ASSUME NEW p \in Pages
        PROVE  HoldsRow(r, p)' /\ (CalmPage(r, p) => CalmPage(r, p)')
    <2>1. OnPage(p)' = OnPage(p) /\ Coming(r, p)' = Coming(r, p)
      BY DEF OnPage, Coming
    <2>2. CalmPage(r, p) => CalmPage(r, p)'
      BY <2>1 DEF CalmPage
    <2>3. HoldsRow(r, p)'
      <3> SUFFICES ASSUME page[r][p].pc = "save" PROVE HoldsRow(r, p)'
        BY DEF HoldsRow
      <3>1. PICK i \in Ids : i = Head(page[r][p].todo).id
        BY PageNow, TodoNow
      <3>2. SameRow(page[r][p], rows[i])
        BY <1>1, <3>1 DEF Finding, HoldsRow
      <3>3. SameRow(page[r][p], rows'[i])
        BY <3>2 DEF SameRow
      <3> QED BY <3>1, <3>3 DEF HoldsRow, SameRow
    <2> QED BY <2>2, <2>3
  <1>6. ASSUME NEW i \in refresh[r].found
        PROVE  FoundAs(r, i)'
    <2>1. FoundAs(r, i) /\ i \in Ids
      BY <1>1 DEF Finding
    <2>2. Pending(r, i)' <=> Pending(r, i)
      BY DEF Pending
    <2> QED BY <2>1, <2>2 DEF FoundAs
  <1>7. Finding(r)'
    BY <1>1, <1>5, <1>6 DEF Finding
  <1> QED
    BY <1>2, <1>4, <1>7

\* A step of page p of refresh r.
LEMMA PageStill ==
    ASSUME Types, SinceInv, StillInv, NEW r \in Refreshes, NEW p \in Pages,
           page[r][p].pc \in {"queued", "find", "save"},
           NEW y \in SessionRecord(clock), refresh' = [refresh EXCEPT ![r] = y],
           y.pc = refresh[r].pc, y.drop = refresh[r].drop, y.calm => refresh[r].calm,
           NEW x \in PageRecord(clock), page' = [page EXCEPT ![r][p] = x],
           UNCHANGED <<remote, title, clock, member>>,
           refresh[r].found \subseteq y.found,
           Still(r) /\ y.calm => /\ \A i \in y.found : FoundAs(r, i)'
                                 /\ \A o \in Pages : HoldsRow(r, o)'
                                 /\ CalmPage(r, p)'
    PROVE  StillInv'
  <1>1. /\ refresh'[r] = y /\ \A q \in Refreshes : q # r => refresh'[q] = refresh[q]
        /\ \A o \in Pages : o # p => page'[r][o] = page[r][o]
    BY DEF Types, SessionTypes, PageTypes
  <1>2. refresh[r].pc = "pages" /\ refresh[r].drop = {}
    BY DEF SinceInv, Sessions, Session, Placed
  <1>3. StillOK(r)'
    <2> SUFFICES ASSUME Still(r)' PROVE (Single(r) /\ Finding(r) /\ Leaving(r))'
      BY DEF StillOK
    <2>1. Still(r) /\ y.calm
      BY <1>1 DEF Still
    <2>2. Single(r) /\ Finding(r)
      BY <2>1 DEF StillInv, StillOK
    <2>3. Single(r)'
      BY <1>1, <2>2 DEF Single, Open
    <2>4. Leaving(r)'
      BY <1>1, <1>2 DEF Leaving
    <2>5. ASSUME NEW o \in Pages, o # p
          PROVE  CalmPage(r, o)'
      <3>1. CalmPage(r, o) /\ page'[r][o] = page[r][o]
        BY <1>1, <1>2, <2>2, <2>5 DEF Finding
      <3>2. OnPage(o)' = OnPage(o) /\ Coming(r, o)' = Coming(r, o)
        BY <3>1 DEF OnPage, Coming
      <3> QED BY <1>1, <3>1, <3>2 DEF CalmPage
    <2>6. Finding(r)'
      BY <1>1, <1>2, <2>1, <2>5 DEF Finding
    <2> QED BY <2>3, <2>4, <2>6
  <1>4. Open(r)
    BY <1>2 DEF Open
  <1> QED
    BY <1>1, <1>3, <1>4, StepStill

\* Where refresh r is while page p is open.
LEMMA PageCalm ==
    ASSUME Types, SinceInv, StillInv, NEW r \in Refreshes, NEW p \in Pages,
           page[r][p].pc \in {"queued", "find", "save"}
    PROVE  /\ refresh[r].pc = "pages" /\ refresh[r] \in SessionRecord(clock)
           /\ refresh \in [Refreshes -> SessionRecord(clock)] /\ refresh[r].found \subseteq Ids
           /\ rows \in [Ids -> Seen(clock)]
           /\ Still(r) => /\ \A i \in refresh[r].found : FoundAs(r, i)
                          /\ \A o \in Pages : HoldsRow(r, o)
                          /\ CalmPage(r, p)
  <1>1. refresh[r].pc = "pages"
    BY DEF SinceInv, Sessions, Session, Placed
  <1>2. refresh[r].found \subseteq Ids
    BY RefreshNow
  <1>3. /\ refresh \in [Refreshes -> SessionRecord(clock)] /\ refresh[r] \in SessionRecord(clock)
        /\ rows \in [Ids -> Seen(clock)]
    BY DEF Types, SessionTypes, TableTypes
  <1> QED
    BY <1>1, <1>2, <1>3 DEF StillInv, StillOK, Finding

\* A page that is not saving goes on without touching the rows.
LEMMA ReadingStill ==
    ASSUME Types, SinceInv, StillInv, NEW r \in Refreshes, NEW p \in Pages,
           page[r][p].pc \in {"queued", "find"},
           NEW x \in PageRecord(clock), page' = [page EXCEPT ![r][p] = x], x.pc # "save",
           UNCHANGED <<remote, title, clock, member, rows, refresh>>,
           Still(r) => CalmPage(r, p)'
    PROVE  StillInv'
  <1>1. /\ page'[r][p] = x /\ \A o \in Pages : o # p => page'[r][o] = page[r][o]
    BY DEF Types, PageTypes
  <1>2. refresh \in [Refreshes -> SessionRecord(clock)] /\ refresh[r] \in SessionRecord(clock)
    BY PageCalm
  <1>3. refresh' = [refresh EXCEPT ![r] = refresh[r]]
    BY <1>2
  <1>4. ASSUME Still(r), NEW i \in refresh[r].found
        PROVE  FoundAs(r, i)'
    <2>1. FoundAs(r, i)
      BY <1>4, PageCalm
    <2>2. Pending(r, i) => Pending(r, i)'
      BY <1>1 DEF Pending
    <2> QED BY <2>1, <2>2 DEF FoundAs
  <1>5. ASSUME Still(r), NEW o \in Pages
        PROVE  HoldsRow(r, o)'
    <2>1. HoldsRow(r, o)
      BY <1>5, PageCalm
    <2>2. CASE o = p
      BY <1>1, <2>2 DEF HoldsRow
    <2>3. CASE o # p
      <3>1. page'[r][o] = page[r][o]
        BY <1>1, <2>3
      <3> QED BY <2>1, <3>1 DEF HoldsRow, SameRow
    <2> QED BY <2>2, <2>3
  <1> QED
    BY <1>2, <1>3, <1>4, <1>5, PageStill

LEMMA ListPageStill ==
    ASSUME Types, SinceInv, StillInv, NEW r \in Refreshes, NEW p \in Pages, ListPage(r, p)
    PROVE  StillInv'
  <1>1. page[r][p].pc = "queued" /\ UNCHANGED <<remote, title, clock, member, rows>>
    BY ListPageIs DEF service, table, mark, work
  <1>2. refresh[r].pc = "pages" /\ refresh[r] \in SessionRecord(clock)
    BY <1>1, PageCalm
  <1>3. /\ NotCalm(r).pc = refresh[r].pc /\ NotCalm(r).found = refresh[r].found
        /\ NotCalm(r).drop = refresh[r].drop /\ NotCalm(r).calm = FALSE
        /\ NotCalm(r) \in SessionRecord(clock)
    BY <1>2, ListPageIs DEF NotCalm, SessionRecord
  <1>4. /\ Listed(p) \in PageRecord(clock) /\ Listed(p).pc = "find"
        /\ PageAt(r, p, "done") \in PageRecord(clock)
    BY PageRecords DEF PagePcs, Listed
  <1>5. CASE page' = [page EXCEPT ![r][p] = Listed(p)] /\ UNCHANGED refresh
    <2>1. page'[r][p] = Listed(p)
      BY <1>5 DEF Types, PageTypes
    <2>2. page'[r][p].pc = "find" /\ page'[r][p].todo = Listing(p)
      BY <2>1 DEF Listed
    <2>3. CalmPage(r, p)'
      <3>1. OnPage(p)' = OnPage(p)
        BY <1>1 DEF OnPage
      <3>2. OnPage(p) \subseteq Coming(r, p)'
        BY <2>2, PageHolds DEF Coming
      <3> QED BY <1>1, <2>2, <3>1, <3>2, PageHolds DEF CalmPage
    <2> QED BY <1>1, <1>4, <1>5, <2>3, ReadingStill
  <1>6. CASE /\ page' = [page EXCEPT ![r][p] = PageAt(r, p, "done")]
             /\ refresh' = [refresh EXCEPT ![r] = NotCalm(r)]
    BY <1>1, <1>3, <1>4, <1>6, PageStill
  <1> QED
    BY <1>5, <1>6, ListPageIs

LEMMA EndPageStill ==
    ASSUME Types, SinceInv, StillInv, NEW r \in Refreshes, NEW p \in Pages, EndPage(r, p)
    PROVE  StillInv'
  <1>1. /\ page[r][p].pc = "find" /\ page[r][p].todo = <<>>
        /\ page' = [page EXCEPT ![r][p] = PageAt(r, p, "done")]
        /\ UNCHANGED <<remote, title, clock, member, rows, refresh>>
    BY EndPageIs DEF service, table, mark, work
  <1>2. PageAt(r, p, "done") \in PageRecord(clock) /\ PageAt(r, p, "done").pc = "done"
    BY PageRecords DEF PagePcs
  <1>3. page'[r][p].pc = "done"
    BY <1>1, <1>2 DEF Types, PageTypes
  <1>4. ASSUME Still(r)
        PROVE  CalmPage(r, p)'
    <2>1. CalmPage(r, p)
      BY <1>1, <1>4, PageCalm
    <2>2. Coming(r, p) = {}
      BY <1>1 DEF Coming
    <2>3. OnPage(p)' = OnPage(p)
      BY <1>1 DEF OnPage
    <2> QED BY <1>1, <1>3, <2>1, <2>2, <2>3 DEF CalmPage
  <1> QED
    BY <1>1, <1>2, <1>4, ReadingStill

\* A page that raises: what its refresh found may still wait to be saved.
LEMMA RaisedStill ==
    ASSUME Types, SinceInv, StillInv, NEW r \in Refreshes, NEW p \in Pages,
           page[r][p].pc \in {"find", "save"},
           page' = [page EXCEPT ![r][p] = PageAt(r, p, "error")],
           UNCHANGED <<remote, title, clock, member, rows, refresh>>
    PROVE  StillInv'
  <1>1. PageAt(r, p, "error") \in PageRecord(clock) /\ PageAt(r, p, "error").pc = "error"
    BY PageRecords DEF PagePcs
  <1>2. page'[r][p].pc = "error" /\ \A o \in Pages : o # p => page'[r][o] = page[r][o]
    BY <1>1 DEF Types, PageTypes
  <1>3. refresh \in [Refreshes -> SessionRecord(clock)] /\ refresh[r] \in SessionRecord(clock)
    BY PageCalm
  <1>4. refresh' = [refresh EXCEPT ![r] = refresh[r]]
    BY <1>3
  <1>5. ASSUME Still(r), NEW i \in refresh[r].found
        PROVE  FoundAs(r, i)'
    <2>1. FoundAs(r, i)
      BY <1>5, PageCalm
    <2>2. Pending(r, i)'
      BY <1>2 DEF Pending
    <2> QED BY <2>1, <2>2 DEF FoundAs
  <1>6. ASSUME Still(r), NEW o \in Pages
        PROVE  HoldsRow(r, o)'
    <2>1. HoldsRow(r, o)
      BY <1>6, PageCalm
    <2>2. CASE o = p
      BY <1>2, <2>2 DEF HoldsRow
    <2>3. CASE o # p
      <3>1. page'[r][o] = page[r][o]
        BY <1>2, <2>3
      <3> QED BY <2>1, <3>1 DEF HoldsRow, SameRow
    <2> QED BY <2>2, <2>3
  <1>7. CalmPage(r, p)'
    BY <1>2 DEF CalmPage
  <1> QED
    BY <1>1, <1>3, <1>4, <1>5, <1>6, <1>7, PageStill

\* Page p finds its next resource, whose row is, or becomes, c.
LEMMA FoundStill ==
    ASSUME Types, SinceInv, StillInv, NEW r \in Refreshes, NEW p \in Pages,
           page[r][p].pc = "find", page[r][p].todo # <<>>,
           NEW i \in Ids, Head(page[r][p].todo).id = i,
           NEW c \in Seen(clock), c.pk # 0, Head(page[r][p].todo).title = c.title,
           rows[i].pk = 0 \/ rows[i] = c, rows' = [rows EXCEPT ![i] = c],
           NEW x \in PageRecord(clock), page' = [page EXCEPT ![r][p] = x],
           x.pc = "save", x.todo = page[r][p].todo, x.row = c,
           NEW y \in SessionRecord(clock), y = WithFound(r, i), refresh' = [refresh EXCEPT ![r] = y],
           UNCHANGED <<remote, title, clock, member>>
    PROVE  StillInv'
  <1>1. /\ refresh[r].pc = "pages" /\ refresh[r] \in SessionRecord(clock)
        /\ rows \in [Ids -> Seen(clock)] /\ refresh[r].found \subseteq Ids
    BY PageCalm
  <1>2. /\ y.pc = refresh[r].pc /\ y.calm = refresh[r].calm /\ y.drop = refresh[r].drop
        /\ y.found = refresh[r].found \cup {i}
    BY <1>1 DEF WithFound, SessionRecord
  <1>3. /\ refresh'[r] = y /\ page'[r][p] = x
        /\ \A o \in Pages : o # p => page'[r][o] = page[r][o]
    BY DEF Types, PageTypes, SessionTypes
  <1>4. rows'[i] = c /\ \A j \in Ids : j # i => rows'[j] = rows[j]
    BY <1>1
  <1>5. /\ page[r][p].todo[1].id = i /\ page[r][p].todo[1].title = c.title
        /\ 1 \in 1..Len(page[r][p].todo)
    BY TodoNow
  <1>6. ASSUME Still(r)
        PROVE  CalmPage(r, p)' /\ FoundAs(r, i)'
    <2>1. CalmPage(r, p)
      BY <1>6, PageCalm
    <2>2. i \in ToSet(remote) /\ c.title = title[i]
      BY <1>5, <2>1 DEF CalmPage
    <2>3. Pending(r, i)'
      BY <1>3 DEF Pending
    <2>4. FoundAs(r, i)'
      BY <1>4, <2>2, <2>3 DEF FoundAs
    <2>5. OnPage(p)' = OnPage(p)
      BY DEF OnPage
    <2>6. Coming(r, p)' = Coming(r, p)
      BY <1>3 DEF Coming
    <2>7. CalmPage(r, p)'
      BY <1>2, <1>3, <2>1, <2>5, <2>6 DEF CalmPage
    <2> QED BY <2>4, <2>7
  <1>7. ASSUME Still(r), NEW j \in refresh[r].found
        PROVE  FoundAs(r, j)'
    <2>1. FoundAs(r, j) /\ j \in Ids
      BY <1>1, <1>7, PageCalm
    <2>2. Pending(r, j) => Pending(r, j)'
      BY <1>3 DEF Pending
    <2>3. rows'[j] = rows[j]
      BY <1>4, <2>1 DEF FoundAs
    <2> QED BY <2>1, <2>2, <2>3 DEF FoundAs
  <1>8. ASSUME Still(r), NEW o \in Pages
        PROVE  HoldsRow(r, o)'
    <2>1. CASE o = p
      <3>1. SameRow(x, c)
        BY DEF SameRow
      <3> QED BY <1>3, <1>4, <2>1, <3>1 DEF HoldsRow, SameRow
    <2>2. CASE o # p /\ page[r][o].pc = "save"
      <3>1. PICK j \in Ids : j = Head(page[r][o].todo).id
        BY <2>2, PageNow, TodoNow
      <3>2. SameRow(page[r][o], rows[j])
        BY <1>8, <2>2, <3>1, PageCalm DEF HoldsRow
      <3>3. rows'[j] = rows[j]
        BY <1>4, <3>2 DEF SameRow
      <3> QED BY <1>3, <2>2, <3>1, <3>2, <3>3 DEF HoldsRow, SameRow
    <2>3. CASE o # p /\ page[r][o].pc # "save"
      BY <1>3, <2>3 DEF HoldsRow
    <2> QED BY <2>1, <2>2, <2>3
  <1> QED
    BY <1>2, <1>6, <1>7, <1>8, PageStill

LEMMA FindRowStill ==
    ASSUME Types, SinceInv, StillInv, NEW r \in Refreshes, NEW p \in Pages, FindRow(r, p)
    PROVE  StillInv'
  <1> DEFINE f == Head(page[r][p].todo)
  <1>1. /\ page[r][p].pc = "find" /\ page[r][p].todo # <<>> /\ f.id \in Ids
        /\ NewRow(f) \in Seen(clock) /\ NewRow(f).pk # 0 /\ NewRow(f).title = f.title
        /\ UNCHANGED <<remote, title, clock, member>>
    BY FindRowIs DEF service, mark, work, NewRow
  <1>2. PICK i \in Ids : f.id = i
    BY <1>1
  <1>3. rows[i] \in Seen(clock) /\ rows \in [Ids -> Seen(clock)]
    BY <1>1, PageCalm
  <1>4. WithFound(r, i) \in SessionRecord(clock)
    BY <1>2, FindRowIs
  <1>5. ASSUME NEW c \in Seen(clock), c.pk # 0, f.title = c.title,
               rows[i].pk = 0 \/ rows[i] = c, rows' = [rows EXCEPT ![i] = c],
               refresh' = [refresh EXCEPT ![r] = WithFound(r, i)],
               page' = [page EXCEPT ![r][p] = Holding(r, p, c)]
        PROVE  StillInv'
    <2>1. PICK x \in PageRecord(clock) : x = Holding(r, p, c)
      BY PageRecords
    <2>2. x.pc = "save" /\ x.todo = page[r][p].todo /\ x.row = c
      BY <2>1, PageRecords
    <2>3. PICK y \in SessionRecord(clock) : y = WithFound(r, i)
      BY <1>4
    <2>4. page' = [page EXCEPT ![r][p] = x] /\ refresh' = [refresh EXCEPT ![r] = y]
      BY <1>5, <2>1, <2>3
    <2> QED BY <1>1, <1>2, <1>5, <2>2, <2>3, <2>4, FoundStill
  <1>6. CASE /\ rows[i].pk = 0 /\ rows' = [rows EXCEPT ![i] = NewRow(f)]
             /\ refresh' = [refresh EXCEPT ![r] = WithFound(r, i)]
             /\ page' = [page EXCEPT ![r][p] = Holding(r, p, NewRow(f))]
    <2>1. PICK c \in Seen(clock) : c = NewRow(f)
      BY <1>1
    <2> QED BY <1>1, <1>5, <1>6, <2>1
  <1>7. CASE /\ rows[i].pk # 0 /\ rows[i].title = f.title
             /\ refresh' = [refresh EXCEPT ![r] = WithFound(r, i)]
             /\ page' = [page EXCEPT ![r][p] = Holding(r, p, rows[i])]
             /\ rows' = rows
    <2>1. PICK c \in Seen(clock) : c = rows[i]
      BY <1>3
    <2>2. rows' = [rows EXCEPT ![i] = c]
      BY <1>3, <1>7, <2>1
    <2> QED BY <1>5, <1>7, <2>1, <2>2
  <1>8. CASE /\ page' = [page EXCEPT ![r][p] = PageAt(r, p, "error")]
             /\ rows' = rows /\ refresh' = refresh
    BY <1>1, <1>8, RaisedStill
  <1> QED
    BY <1>2, <1>6, <1>7, <1>8, FindRowIs

LEMMA SaveFoundStill ==
    ASSUME Types, SinceInv, StillInv, NEW r \in Refreshes, NEW p \in Pages, SaveFound(r, p)
    PROVE  StillInv'
  <1>1. PICK i \in Ids : Head(page[r][p].todo).id = i
    BY SaveFoundIs
  <1>2. PICK c \in Seen(clock) : c = Saved(r, p)
    BY SaveFoundIs
  <1>3. /\ page[r][p].pc = "save" /\ page[r][p].todo # <<>>
        /\ c.title = page[r][p].row.title /\ c.pk = page[r][p].row.pk /\ c.at = clock
        /\ UNCHANGED <<remote, title, clock, member, refresh>>
        /\ \/ /\ rows' = [rows EXCEPT ![i] = c]
              /\ page' = [page EXCEPT ![r][p] = Shortened(r, p)]
           \/ /\ rows' = rows
              /\ page' = [page EXCEPT ![r][p] = PageAt(r, p, "error")]
    BY <1>1, <1>2, SaveFoundIs DEF service, mark, work
  <1>4. /\ refresh[r].pc = "pages" /\ refresh[r] \in SessionRecord(clock)
        /\ refresh \in [Refreshes -> SessionRecord(clock)]
        /\ rows \in [Ids -> Seen(clock)] /\ refresh[r].found \subseteq Ids
    BY <1>3, PageCalm
  <1>5. CASE /\ rows' = rows
             /\ page' = [page EXCEPT ![r][p] = PageAt(r, p, "error")]
    BY <1>3, <1>5, RaisedStill
  <1>6. CASE /\ rows' = [rows EXCEPT ![i] = c]
             /\ page' = [page EXCEPT ![r][p] = Shortened(r, p)]
    <2>1. PICK x \in PageRecord(clock) : x = Shortened(r, p)
      BY <1>3, PageRecords
    <2>2. x.pc = "find" /\ x.todo = Tail(page[r][p].todo) /\ page' = [page EXCEPT ![r][p] = x]
      BY <1>6, <2>1 DEF Shortened
    <2>3. page'[r][p] = x /\ \A o \in Pages : o # p => page'[r][o] = page[r][o]
      BY <2>2 DEF Types, PageTypes
    <2>4. rows'[i] = c /\ \A j \in Ids : j # i => rows'[j] = rows[j]
      BY <1>4, <1>6
    <2>5. refresh' = [refresh EXCEPT ![r] = refresh[r]]
      BY <1>3, <1>4
    <2>6. ASSUME Still(r)
          PROVE  rows[i].pk = c.pk /\ c.pk # 0 /\ c.title = rows[i].title
      <3>1. HoldsRow(r, p)
        BY <1>3, <2>6, PageCalm
      <3> QED BY <1>1, <1>3, <3>1 DEF HoldsRow, SameRow
    <2>7. ASSUME Still(r), NEW j \in refresh[r].found
          PROVE  FoundAs(r, j)'
      <3>1. FoundAs(r, j) /\ j \in Ids
        BY <1>3, <1>4, <2>7, PageCalm
      <3>2. CASE j = i
        BY <1>3, <2>4, <2>6, <2>7, <3>1, <3>2 DEF FoundAs
      <3>3. CASE j # i
        <4>1. Pending(r, j) => Pending(r, j)'
          BY <1>1, <1>3, <2>3, <3>3 DEF Pending
        <4> QED BY <1>3, <2>4, <3>1, <3>3, <4>1 DEF FoundAs
      <3> QED BY <3>2, <3>3
    <2>8. ASSUME Still(r), NEW o \in Pages
          PROVE  HoldsRow(r, o)'
      <3>1. CASE o = p
        BY <2>2, <2>3, <3>1 DEF HoldsRow
      <3>2. CASE o # p /\ page[r][o].pc = "save"
        <4>1. PICK j \in Ids : j = Head(page[r][o].todo).id
          BY <3>2, PageNow, TodoNow
        <4>2. SameRow(page[r][o], rows[j])
          BY <1>3, <2>8, <3>2, <4>1, PageCalm DEF HoldsRow
        <4>3. SameRow(page[r][o], rows'[j])
          BY <2>4, <2>6, <2>8, <4>2 DEF SameRow
        <4> QED BY <2>3, <3>2, <4>1, <4>3 DEF HoldsRow, SameRow
      <3>3. CASE o # p /\ page[r][o].pc # "save"
        BY <2>3, <3>3 DEF HoldsRow
      <3> QED BY <3>1, <3>2, <3>3
    <2>9. ASSUME Still(r)
          PROVE  CalmPage(r, p)'
      <3>1. CalmPage(r, p) /\ HoldsRow(r, p)
        BY <1>3, <2>9, PageCalm
      <3>2. i \in refresh[r].found
        BY <1>1, <1>3 DEF SinceInv, Sessions, Session, Placed
      <3>3. /\ Head(page[r][p].todo) = page[r][p].todo[1]
            /\ Len(page[r][p].todo) \in Nat \ {0}
            /\ Len(page'[r][p].todo) = Len(page[r][p].todo) - 1
            /\ \A k \in 1..Len(page'[r][p].todo) : page'[r][p].todo[k] = page[r][p].todo[k + 1]
        <4>1. page'[r][p].todo = Tail(page[r][p].todo)
          BY <2>2, <2>3
        <4>2. LET todo == page[r][p].todo
              IN  /\ Head(todo) = todo[1] /\ Len(todo) \in Nat \ {0}
                  /\ Len(Tail(todo)) = Len(todo) - 1
                  /\ \A k \in 1..Len(Tail(todo)) : Tail(todo)[k] = todo[k + 1]
          BY <1>3, TodoNow, Zenon
        <4> QED BY <4>1, <4>2, Zenon
      <3>4. Coming(r, p) \subseteq Coming(r, p)' \cup {i}
        <4> SUFFICES ASSUME NEW k \in 1..Len(page[r][p].todo), page[r][p].todo[k].id # i
                     PROVE  page[r][p].todo[k].id \in Coming(r, p)'
          BY DEF Coming
        <4>1. k # 1
          BY <1>1, <3>3
        <4>2. k - 1 \in 1..Len(page'[r][p].todo) /\ page'[r][p].todo[k - 1] = page[r][p].todo[k]
          BY <3>3, <4>1
        <4> QED BY <4>2 DEF Coming
      <3>5. OnPage(p)' = OnPage(p)
        BY <1>3 DEF OnPage
      <3>6. OnPage(p)' \subseteq refresh'[r].found \cup Coming(r, p)'
        BY <1>3, <3>1, <3>2, <3>4, <3>5 DEF CalmPage
      <3>7. ASSUME NEW k \in 1..Len(page'[r][p].todo)
            PROVE  /\ page'[r][p].todo[k].id \in ToSet(remote)
                   /\ page'[r][p].todo[k].title = title[page'[r][p].todo[k].id]
        <4>1. page'[r][p].todo[k] = page[r][p].todo[k + 1]
          BY <3>3, Zenon
        <4>2. k + 1 \in 1..Len(page[r][p].todo)
          BY <3>3
        <4> QED BY <1>3, <3>1, <4>1, <4>2 DEF CalmPage
      <3> QED BY <1>3, <2>2, <2>3, <3>6, <3>7 DEF CalmPage
    <2> QED BY <1>3, <1>4, <2>2, <2>5, <2>7, <2>8, <2>9, PageStill
  <1> QED
    BY <1>3, <1>5, <1>6

LEMMA StartRefreshStill ==
    ASSUME Types, SinceInv, StillInv, NEW r \in Refreshes, StartRefresh(r)
    PROVE  StillInv'
  <1>1. PICK s \in {"pages", "error"} :
          /\ refresh' = [q \in Refreshes |-> IF q = r THEN Starting(r, s)
                                            ELSE IF Open(q) THEN NotCalm(q) ELSE refresh[q]]
          /\ \/ s = "pages" /\ page' = [page EXCEPT ![r] = Sent]
             \/ s = "error" /\ page' = page
    BY StartRefreshIs
  <1>2. UNCHANGED <<rows, remote, title, member, clock>> /\ refresh[r].pc = "none"
    BY StartRefreshIs DEF table, service, work, mark
  <1>3. refresh[r] = NotStarted
    BY <1>2 DEF SinceInv, Sessions, Session, Unstarted
  <1>4. /\ Starting(r, s).pc = s /\ Starting(r, s).found = {} /\ Starting(r, s).drop = {}
        /\ Starting(r, s).calm = Quiet /\ refresh'[r] = Starting(r, s)
    BY <1>1, <1>3 DEF Starting, NotStarted
  <1>5. ASSUME NEW q \in Refreshes, q # r
        PROVE  /\ ~Still(q)'
               /\ ~Open(q) => refresh'[q] = refresh[q]
    <2>1. refresh'[q] = IF Open(q) THEN NotCalm(q) ELSE refresh[q]
      BY <1>1, <1>5
    <2>2. NotCalm(q).calm = FALSE
      BY RefreshNow DEF NotCalm, SessionRecord
    <2>3. CASE Open(q)
      BY <2>1, <2>2, <2>3 DEF Still
    <2>4. CASE ~Open(q)
      BY <2>1, <2>4 DEF Still, Open
    <2> QED BY <2>3, <2>4
  <1>6. StillOK(r)'
    <2> SUFFICES ASSUME Still(r)' PROVE (Single(r) /\ Finding(r) /\ Leaving(r))'
      BY DEF StillOK
    <2>1. Quiet /\ s = "pages"
      BY <1>1, <1>4 DEF Still
    <2>2. Single(r)'
      BY <1>2, <1>5, <2>1 DEF Quiet, Single, Open
    <2>3. Leaving(r)'
      BY <1>4, <2>1 DEF Leaving
    <2>4. page'[r] = Sent
      BY <1>1, <2>1 DEF Types, PageTypes
    <2>5. ASSUME NEW p \in Pages
          PROVE  CalmPage(r, p)' /\ HoldsRow(r, p)'
      <3>1. NoPage.pc = "none" /\ [NoPage EXCEPT !.pc = "queued"].pc = "queued"
        BY DEF NoPage
      <3>2. /\ p <= PageCount(Len(remote)) => page'[r][p] = [NoPage EXCEPT !.pc = "queued"]
            /\ ~(p <= PageCount(Len(remote))) => page'[r][p] = NoPage
        BY <2>4 DEF Sent
      <3>3. p \in Nat /\ PageCount(Len(remote)) \in Nat
        <4>1. Len(remote) \in Nat
          BY DEF Types, ServiceTypes
        <4> QED BY <4>1, MostPages, Constants, PagesGrow DEF PageCount
      <3>4. \/ page'[r][p].pc = "queued"
            \/ page'[r][p].pc = "none" /\ p > PageCount(Len(remote))
        <4>1. CASE p <= PageCount(Len(remote))
          BY <3>1, <3>2, <4>1, Zenon
        <4>2. CASE ~(p <= PageCount(Len(remote)))
          <5>1. p > PageCount(Len(remote))
            BY <3>3, <4>2
          <5> QED BY <3>1, <3>2, <4>2, <5>1, Zenon
        <4> QED BY <4>1, <4>2
      <3> QED BY <1>2, <3>4 DEF CalmPage, HoldsRow
    <2>6. Finding(r)'
      BY <1>4, <2>1, <2>5 DEF Finding
    <2> QED BY <2>2, <2>3, <2>6
  <1> QED
    BY <1>5, <1>6 DEF StillInv, StillOK

\* Sessions that end, or that are about to be ended once more.
LEMMA ClosesStill ==
    ASSUME Types, StillInv, NEW r \in Refreshes,
           FailRefresh(r) \/ RaiseFinalizer(r) \/ MarkChecked(r)
    PROVE  StillInv'
  <1>1. PICK p \in {"over", "error"} : Close(r, p)
    BY DEF FailRefresh, RaiseFinalizer, MarkChecked
  <1>2. Open(r)
    BY DEF FailRefresh, RaiseFinalizer, MarkChecked, Open
  <1>3. /\ refresh'[r].pc = p /\ \A q \in Refreshes : q # r => refresh'[q] = refresh[q]
    BY <1>1, CloseIs DEF Types, SessionTypes
  <1>4. StillOK(r)'
    BY <1>3 DEF StillOK, Still
  <1> QED
    BY <1>2, <1>3, <1>4, StepStill

\* While a calm refresh is open, what is as new as the clock is what it found.
LEMMA NewIsFound ==
    ASSUME SinceInv, NEW r \in Refreshes, Single(r), NEW i \in Known, rows[i].at = clock
    PROVE  i \in refresh[r].found
  <1>1. i \in Ids /\ rows[i].pk # 0
    BY DEF Known
  <1>2. PICK q \in Refreshes : Open(q) /\ i \in refresh[q].found
    BY <1>1 DEF SinceInv, Dates, Dated, Lately, Recent
  <1> QED
    BY <1>2 DEF Single

LEMMA FinishRefreshStill ==
    ASSUME Types, SinceInv, StillInv, NEW r \in Refreshes, FinishRefresh(r)
    PROVE  StillInv'
  <1>1. /\ refresh[r].pc = "pages" /\ PagesSettled(r) /\ ~PagesFailed(r)
        /\ refresh' = [refresh EXCEPT ![r] = Finishing(r)]
        /\ Finishing(r).pc = IF refresh[r].abort \/ checked = -1 THEN "mark" ELSE "stale"
        /\ Finishing(r).checked = checked /\ Finishing(r).abort = refresh[r].abort
        /\ Finishing(r).found = refresh[r].found /\ Finishing(r).drop = refresh[r].drop
        /\ Finishing(r).calm = refresh[r].calm
        /\ UNCHANGED <<rows, remote, title, clock, member, page>>
    BY FinishRefreshIs DEF table, service, mark, work
  <1>2. refresh'[r] = Finishing(r) /\ \A q \in Refreshes : q # r => refresh'[q] = refresh[q]
    BY <1>1 DEF Types, SessionTypes
  <1>3. Open(r) /\ refresh[r].drop = {}
    BY <1>1 DEF Open, SinceInv, Sessions, Session
  <1>4. \A p \in Pages : page[r][p].pc \in {"none", "done"}
    BY <1>1 DEF PagesSettled, PagesFailed
  <1> HIDE DEF Finishing
  <1>5. StillOK(r)'
    <2> SUFFICES ASSUME Still(r)' PROVE (Single(r) /\ Finding(r) /\ Leaving(r))'
      BY DEF StillOK
    <2>1. Single(r) /\ Finding(r) /\ refresh[r].found \subseteq Ids
      BY <1>1, <1>2, RefreshNow DEF Still, StillInv, StillOK
    <2>2. Single(r)'
      BY <1>1, <1>2, <2>1 DEF Single, Open
    <2>3. ASSUME NEW i \in ToSet(remote)
          PROVE  i \in refresh[r].found
      <3>1. PICK p \in Pages : p <= PageCount(Len(remote)) /\ i \in OnPage(p)
        BY EveryPage
      <3>2. CalmPage(r, p)
        BY <1>1, <2>1 DEF Finding
      <3>3. ~(p > PageCount(Len(remote)))
        <4>1. Len(remote) \in Nat
          BY DEF Types, ServiceTypes
        <4>2. p \in Nat /\ PageCount(Len(remote)) \in Nat
          BY <4>1, MostPages, Constants, PagesGrow DEF PageCount
        <4> QED BY <3>1, <4>2
      <3>4. page[r][p].pc = "done"
        BY <1>4, <3>2, <3>3 DEF CalmPage
      <3> QED BY <3>1, <3>2, <3>4 DEF CalmPage
    <2>4. ASSUME NEW i \in refresh[r].found
          PROVE  FoundAs(r, i)'
      <3>1. FoundAs(r, i)
        BY <2>1 DEF Finding
      <3>2. Pending(r, i) => Pending(r, i)'
        BY <1>1 DEF Pending
      <3> QED BY <1>1, <3>1, <3>2 DEF FoundAs
    <2>5. \A p \in Pages : HoldsRow(r, p)'
      BY <1>1, <1>4 DEF HoldsRow
    <2>6. Finding(r)'
      BY <1>1, <1>2, <2>3, <2>4, <2>5 DEF Finding
    <2>7. Leaving(r)'
      <3> SUFFICES ASSUME refresh'[r].pc = "mark", ~refresh'[r].abort,
                          refresh'[r].checked = clock' - 1, NEW i \in Known
                   PROVE  i \in refresh[r].found
        BY <1>1, <1>2, <1>3 DEF Leaving, Known
      <3>1. checked = -1 /\ checked = clock - 1
        BY <1>1, <1>2
      <3>2. clock = 0 /\ rows[i].at \in Nat /\ rows[i].at <= clock
        BY <3>1 DEF Known, Types, MarkTypes, TableTypes, Seen, Row
      <3>3. rows[i].at = clock
        BY <3>2
      <3> QED BY <2>1, <3>3, NewIsFound
    <2> QED BY <2>2, <2>6, <2>7
  <1> QED
    BY <1>2, <1>3, <1>5, StepStill

LEMMA SelectStaleStill ==
    ASSUME Types, SinceInv, StillInv, NEW r \in Refreshes, SelectStale(r)
    PROVE  StillInv'
  <1>1. /\ refresh[r].pc = "stale" /\ refresh' = [refresh EXCEPT ![r] = Dropping(r)]
        /\ Dropping(r).pc = "mark" /\ Dropping(r).drop = StaleRows(r)
        /\ Dropping(r).found = refresh[r].found /\ Dropping(r).calm = refresh[r].calm
        /\ Dropping(r).checked = refresh[r].checked
        /\ UNCHANGED <<rows, remote, title, clock, member, page>>
    BY SelectStaleIs DEF table, service, mark, work
  <1>2. refresh'[r] = Dropping(r) /\ \A q \in Refreshes : q # r => refresh'[q] = refresh[q]
    BY <1>1 DEF Types, SessionTypes
  <1> HIDE DEF Dropping
  <1>3. Open(r) /\ refresh[r].checked \in -1..(clock - 1) /\ clock \in Nat
    BY <1>1, RefreshNow DEF Open, Types, MarkTypes
  <1>4. \A p \in Pages : page[r][p].pc \notin {"queued", "find", "save", "error"}
    BY <1>1 DEF SinceInv, Sessions, Session, Placed
  <1>5. StillOK(r)'
    <2> SUFFICES ASSUME Still(r)' PROVE (Single(r) /\ Finding(r) /\ Leaving(r))'
      BY DEF StillOK
    <2>1. Single(r) /\ Finding(r) /\ refresh[r].found \subseteq Ids
      BY <1>1, <1>2, RefreshNow DEF Still, StillInv, StillOK
    <2>2. Single(r)'
      BY <1>1, <1>2, <2>1 DEF Single, Open
    <2>3. ASSUME NEW i \in refresh[r].found
          PROVE  FoundAs(r, i)' /\ rows[i].at = clock
      <3>1. FoundAs(r, i)
        BY <2>1 DEF Finding
      <3>2. ~Pending(r, i)
        BY <1>4 DEF Pending
      <3> QED BY <1>1, <3>1, <3>2 DEF FoundAs
    <2>4. \A p \in Pages : HoldsRow(r, p)'
      BY <1>1, <1>4 DEF HoldsRow
    <2>5. Finding(r)'
      BY <1>1, <1>2, <2>1, <2>3, <2>4 DEF Finding
    <2>6. ASSUME NEW d \in StaleRows(r)
          PROVE  d.id \notin refresh[r].found
      <3>1. PICK j \in Known : /\ rows[j].at <= refresh[r].checked
                               /\ d = [id |-> j, row |-> rows[j]]
        BY DEF StaleRows
      <3>2. d.id = j /\ rows[j].at # clock
        BY <1>3, <3>1
      <3> QED BY <2>3, <3>2
    <2>7. ASSUME refresh[r].checked = clock - 1, NEW i \in Known \ refresh[r].found
          PROVE  \E d \in StaleRows(r) : d.id = i /\ d.row.pk = rows[i].pk
      <3>1. rows[i].at # clock
        BY <2>1, <2>7, NewIsFound
      <3>2. rows[i].at \in Nat /\ rows[i].at <= clock
        BY DEF Known, Types, TableTypes, Seen, Row
      <3>3. rows[i].at <= refresh[r].checked
        BY <1>3, <2>7, <3>1, <3>2
      <3>4. [id |-> i, row |-> rows[i]] \in StaleRows(r)
        BY <3>3 DEF StaleRows
      <3> QED BY <3>4
    <2>8. Leaving(r)'
      <3>1. Known' = Known
        BY <1>1 DEF Known
      <3> QED BY <1>1, <1>2, <2>6, <2>7, <3>1 DEF Leaving
    <2> QED BY <2>2, <2>5, <2>8
  <1> QED
    BY <1>2, <1>3, <1>5, StepStill

LEMMA DropStaleStill ==
    ASSUME Types, SinceInv, StillInv, NEW r \in Refreshes, DropStale(r)
    PROVE  StillInv'
  <1>1. PICK d \in refresh[r].drop :
          /\ d.id \in Ids /\ d.row \in Row
          /\ Dropped(r, d).pc = refresh[r].pc /\ Dropped(r, d).found = refresh[r].found
          /\ Dropped(r, d).calm = refresh[r].calm /\ Dropped(r, d).abort = refresh[r].abort
          /\ Dropped(r, d).checked = refresh[r].checked
          /\ Dropped(r, d).drop = refresh[r].drop \ {d}
          /\ rows' = [rows EXCEPT ![d.id] = DeletedRow(d.id, d.row)]
          /\ refresh' = [refresh EXCEPT ![r] = Dropped(r, d)]
          /\ UNCHANGED <<service, mark, work, people, busy, page, used>>
    BY DropStaleIs
  <1>2. UNCHANGED <<remote, title, clock, member, page>>
    BY <1>1 DEF service, mark, work
  <1>3. refresh[r].pc = "mark" /\ Open(r)
    BY <1>1 DEF SinceInv, Sessions, Session, Open
  <1>4. refresh'[r] = Dropped(r, d) /\ \A q \in Refreshes : q # r => refresh'[q] = refresh[q]
    BY <1>1 DEF Types, SessionTypes
  <1> HIDE DEF Dropped
  <1>5. /\ rows'[d.id] = DeletedRow(d.id, d.row)
        /\ \A j \in Ids : j # d.id => rows'[j] = rows[j]
    BY <1>1 DEF Types, TableTypes
  <1>6. \/ rows'[d.id].pk = 0
        \/ rows'[d.id].pk = rows[d.id].pk /\ rows[d.id].pk # d.row.pk
    <2>1. /\ NoRow.pk = 0 /\ [rows[d.id] EXCEPT !.geo = FALSE].pk = rows[d.id].pk
      BY <1>1, RowNow DEF Seen, Row, NoRow
    <2> QED BY <1>5, <2>1 DEF DeletedRow
  <1>7. \A p \in Pages : page[r][p].pc # "save"
    BY <1>3 DEF SinceInv, Sessions, Session, Placed
  <1>8. StillOK(r)'
    <2> SUFFICES ASSUME Still(r)' PROVE (Single(r) /\ Finding(r) /\ Leaving(r))'
      BY DEF StillOK
    <2>1. Single(r) /\ Finding(r) /\ Leaving(r) /\ refresh[r].found \subseteq Ids
      BY <1>1, <1>4, RefreshNow DEF Still, StillInv, StillOK
    <2>2. Single(r)'
      BY <1>2, <1>4, <2>1 DEF Single, Open
    <2>3. d.id \notin refresh[r].found
      BY <1>1, <2>1 DEF Leaving
    <2>4. ASSUME NEW i \in refresh[r].found
          PROVE  FoundAs(r, i)'
      <3>1. FoundAs(r, i) /\ rows'[i] = rows[i]
        BY <1>5, <2>1, <2>3 DEF Finding
      <3>2. Pending(r, i) => Pending(r, i)'
        BY <1>2 DEF Pending
      <3> QED BY <1>2, <3>1, <3>2 DEF FoundAs
    <2>5. \A p \in Pages : HoldsRow(r, p)'
      BY <1>2, <1>7 DEF HoldsRow
    <2>6. Finding(r)'
      BY <1>1, <1>2, <1>3, <1>4, <2>1, <2>4, <2>5 DEF Finding
    <2>7. Leaving(r)'
      <3>1. \A e \in refresh'[r].drop : e.id \notin refresh'[r].found
        BY <1>1, <1>4, <2>1 DEF Leaving
      <3>2. ASSUME ~refresh[r].abort, refresh[r].checked = clock - 1,
                   NEW i \in Ids, rows'[i].pk # 0, i \notin refresh[r].found
            PROVE  \E e \in refresh[r].drop \ {d} : e.id = i /\ e.row.pk = rows'[i].pk
        <4>1. rows'[i].pk = rows[i].pk /\ (i = d.id => rows[i].pk # d.row.pk)
          BY <1>5, <1>6, <3>2
        <4>2. PICK e \in refresh[r].drop : e.id = i /\ e.row.pk = rows[i].pk
          BY <1>3, <2>1, <3>2, <4>1 DEF Leaving, Known
        <4> QED BY <4>1, <4>2
      <3> QED BY <1>1, <1>2, <1>4, <3>1, <3>2 DEF Leaving, Known
    <2> QED BY <2>2, <2>6, <2>7
  <1> QED
    BY <1>3, <1>4, <1>8, StepStill

LEMMA NextStill == Types /\ SinceInv /\ StillInv /\ [Next]_vars => StillInv'
  <1> SUFFICES ASSUME Types, SinceInv, StillInv, [Next]_vars PROVE StillInv'
    OBVIOUS
  <1>1. CASE RemoteChange \/ StartHarvest \/ UserToggle \/ UserDelete
    BY <1>1, NoneStill DEF RemoteChange, StartHarvest, UserToggle, UserDelete
  <1>2. ASSUME NEW r \in Refreshes,
               \/ StartRefresh(r) \/ FailRefresh(r) \/ FinishRefresh(r)
               \/ SelectStale(r) \/ DropStale(r) \/ RaiseFinalizer(r) \/ MarkChecked(r)
        PROVE  StillInv'
    BY <1>2, StartRefreshStill, ClosesStill, FinishRefreshStill, SelectStaleStill, DropStaleStill
  <1>3. ASSUME NEW r \in Refreshes, NEW p \in Pages,
               ListPage(r, p) \/ FindRow(r, p) \/ SaveFound(r, p) \/ EndPage(r, p)
        PROVE  StillInv'
    BY <1>3, ListPageStill, FindRowStill, SaveFoundStill, EndPageStill
  <1>4. ASSUME NEW r \in Refreshes, AbortRefresh(r)
        PROVE  StillInv'
    <2>1. refresh \in [Refreshes -> SessionRecord(clock)] /\ UNCHANGED <<remote, title, clock, member, page, rows>>
      BY <1>4 DEF AbortRefresh, Types, SessionTypes, service, mark, work, table
    <2>2. \A q \in Refreshes :
             /\ refresh'[q].pc = refresh[q].pc /\ refresh'[q].found = refresh[q].found
             /\ refresh'[q].drop = refresh[q].drop /\ refresh'[q].checked = refresh[q].checked
             /\ refresh'[q].calm = refresh[q].calm /\ (~refresh'[q].abort => ~refresh[q].abort)
      BY <1>4, <2>1 DEF AbortRefresh, SessionRecord
    <2> QED BY <2>1, <2>2, KeptStill
  <1>5. CASE EndHarvest
    <2>1. PICK i \in Ids : member[i].pc # "none"
      BY <1>5 DEF EndHarvest
    <2>2. refresh' = refresh
      BY <1>5 DEF EndHarvest
    <2> QED BY <2>1, <2>2, MembersStill
  <1>6. ASSUME NEW i \in Ids, ReadResource(i) \/ HarvestResource(i) \/ SaveHarvested(i)
        PROVE  StillInv'
    <2>1. member[i].pc # "none" /\ refresh' = refresh
      BY <1>6 DEF ReadResource, HarvestResource, SaveHarvested
    <2> QED BY <2>1, MembersStill
  <1>7. ASSUME NEW i \in Ids, Unlink(i)
        PROVE  StillInv'
    <2>1. /\ rows' = [rows EXCEPT ![i] = [rows[i] EXCEPT !.geo = FALSE]]
          /\ UNCHANGED <<remote, title, clock, member, page, refresh>>
      BY <1>7, UnlinkIs DEF service, mark, work
    <2>2. rows \in [Ids -> Seen(clock)] /\ rows[i] \in Row
      BY RowNow DEF Types, TableTypes, Seen
    <2>3. /\ [rows[i] EXCEPT !.geo = FALSE].pk = rows[i].pk
          /\ [rows[i] EXCEPT !.geo = FALSE].at = rows[i].at
          /\ [rows[i] EXCEPT !.geo = FALSE].title = rows[i].title
      BY <2>2 DEF Row
    <2>4. \A j \in Ids : /\ rows'[j].pk = rows[j].pk /\ rows'[j].at = rows[j].at
                         /\ rows'[j].title = rows[j].title
      BY <2>1, <2>2, <2>3
    <2> QED BY <2>1, <2>4, KeptStill
  <1>8. CASE CheckRead \/ CheckSave \/ UNCHANGED vars \/ \E i \in Ids, op \in Ops : UserRead(op, i)
    <2>1. UNCHANGED <<remote, title, clock, member, page, refresh, rows>>
      BY <1>8 DEF CheckRead, CheckSave, UserRead, vars, service, mark, work, table
    <2> QED BY <2>1, KeptStill
  <1> QED
    BY <1>1, <1>2, <1>3, <1>4, <1>5, <1>6, <1>7, <1>8, Zenon DEF Next

\* A refresh which nothing disturbs or aborts, and which read the mark of the
\* check before it, ends with exactly the resources that the remote service
\* lists, under their present titles: whatever sessions overlapped, failed or
\* raised before it, whatever was saved late, and however the pages of the list
\* and the deletions of the finalizer follow one another.
THEOREM InStep == Spec => []EndsSynced
  <1>1. Types /\ StillInv => EndsSynced
    <2> SUFFICES ASSUME Types, StillInv, NEW r \in Refreshes, Undisturbed(r)
                 PROVE  /\ Known = ToSet(remote)
                        /\ \A i \in ToSet(remote) : rows[i].title = title[i]
      BY DEF EndsSynced
    <2>1. /\ refresh[r].pc = "mark" /\ refresh[r].drop = {} /\ ~refresh[r].abort
          /\ refresh[r].checked = clock - 1 /\ refresh[r].found \subseteq Ids
          /\ Finding(r) /\ Leaving(r)
      BY RefreshNow DEF Undisturbed, Still, StillInv, StillOK
    <2>2. refresh[r].found = ToSet(remote)
          /\ \A i \in refresh[r].found : rows[i].title = title[i] /\ rows[i].pk # 0
      BY <2>1 DEF Finding, FoundAs
    <2>3. refresh[r].found \subseteq Known
      BY <2>1, <2>2 DEF Known
    <2>4. Known \subseteq refresh[r].found
      BY <2>1 DEF Leaving
    <2> QED BY <2>2, <2>3, <2>4
  <1>2. Types /\ SinceInv /\ [Next]_vars => SinceInv'
    BY NextSince
  <1>3. Types /\ SinceInv /\ StillInv /\ [Next]_vars => StillInv'
    BY NextStill
  <1>4. Init => SinceInv /\ StillInv
    BY InitSince, InitStill
  <1>5. Spec => []Types
    BY InitTypes, NextTypes, PTL DEF Spec
  <1> QED
    BY <1>1, <1>2, <1>3, <1>4, <1>5, PTL DEF Spec

=============================================================================
