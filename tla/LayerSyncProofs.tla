---------------------------- MODULE LayerSyncProofs ----------------------------
(***************************************************************************)
(* What holds of the layer sync for any list of layers, any page size and  *)
(* any number of runs, failures, lost reports, changes and crashes: types; *)
(* while no two runs overlap, that success means a whole file, unless a    *)
(* later run could not report, and that the times of the last updates do   *)
(* not go back, unless a run could not read them; and, however runs        *)
(* overlap, that a list that did not change is saved but for one entry.    *)
(***************************************************************************)
EXTENDS LayerSync, CommonLemmas

-----------------------------------------------------------------------------
(* Lists of entries, and their pages. *)

LEMMA Bounds ==
    /\ Cardinality(Entries) \in Nat /\ PageSize \in Nat /\ PageSize > 0
    /\ Starts \subseteq {"timer", "admin", "api"} /\ MaxRuns \in Nat
    /\ MaxTroubles \in Nat
  <1>1. IsFiniteSet(Entries)
    BY ConstantsAssumption, Zenon
  <1>2. Cardinality(Entries) \in Nat
    BY <1>1, FS_CardinalityType, Zenon
  <1> QED
    BY <1>2, ConstantsAssumption

\* The list the server starts with has every entry once.
LEMMA FirstList == SetToSeq(Entries) \in Seq(Entries) /\ Distinct(SetToSeq(Entries))
  <1> DEFINE n == Cardinality(Entries)
             Fits(f) == f \in [1..n -> Entries] /\ IsInjective(f)
  <1>1. IsFiniteSet(Entries)
    BY ConstantsAssumption, Zenon
  <1>2. n \in Nat /\ ExistsBijection(1..n, Entries)
    BY <1>1, FS_CardinalityType, Zenon
  <1>3. PICK g : Fits(g)
    BY <1>2, Zenon DEF ExistsBijection, Bijection, Injection
  <1>4. Fits(SetToSeq(Entries))
    BY <1>3, Zenon DEF SetToSeq
  <1> HIDE DEF n
  <1>5. SetToSeq(Entries) \in Seq(Entries) /\ Len(SetToSeq(Entries)) = n
    BY <1>2, <1>4
  <1> QED
    BY <1>4, <1>5 DEF IsInjective, Distinct

LEMMA ListWith ==
    ASSUME NEW s \in Seq(Entries), Distinct(s), NEW e \in Entries \ ToSet(s)
    PROVE  <<e>> \o s \in Seq(Entries) /\ Distinct(<<e>> \o s)
  <1>1. <<e>> \in Seq(Entries) /\ Len(<<e>>) = 1 /\ <<e>>[1] = e /\ Len(s) \in Nat
    OBVIOUS
  <1>2. \A i \in 1..Len(s) : s[i] # e
    BY DEF ToSet
  <1>3. /\ <<e>> \o s \in Seq(Entries) /\ Len(<<e>> \o s) = 1 + Len(s)
        /\ \A i \in 1..(1 + Len(s)) :
              (<<e>> \o s)[i] = IF i <= 1 THEN <<e>>[i] ELSE s[i - 1]
    BY <1>1, ConcatProperties
  <1>4. \A i \in 1..(1 + Len(s)) : (<<e>> \o s)[i] = IF i = 1 THEN e ELSE s[i - 1]
    BY <1>1, <1>3
  <1> HIDE DEF ToSet
  <1>5. Distinct(<<e>> \o s)
    <2> SUFFICES ASSUME NEW i \in 1..(1 + Len(s)), NEW j \in 1..(1 + Len(s)),
                        (<<e>> \o s)[i] = (<<e>> \o s)[j]
                 PROVE  i = j
      BY <1>3 DEF Distinct
    <2>1. /\ i # 1 => i - 1 \in 1..Len(s)
          /\ j # 1 => j - 1 \in 1..Len(s)
      BY <1>1
    <2> QED BY <1>1, <1>2, <1>4, <2>1 DEF Distinct
  <1> QED
    BY <1>3, <1>5

\* A page is a part of the list, empty when the list became too short for it.
LEMMA PageType ==
    ASSUME NEW p \in Nat \ {0}, remote \in Seq(Entries)
    PROVE  PageOf(p) \in Seq(Entries)
  <1> DEFINE m == (p - 1) * PageSize + 1
             n == IF p * PageSize < Len(remote) THEN p * PageSize ELSE Len(remote)
  <1>1. m \in Nat /\ m >= 1
    BY Bounds
  <1>2. n \in Nat /\ n <= Len(remote)
    BY Bounds
  <1> HIDE DEF m, n
  <1>3. \A i \in m..n : remote[i] \in Entries
    BY <1>1, <1>2
  <1>4. SubSeq(remote, m, n) \in Seq(Entries)
    BY <1>1, <1>2, <1>3, SubSeqProperties
  <1> QED
    BY <1>4 DEF PageOf, m, n

\* A longer list has no fewer pages.
LEMMA MorePages ==
    ASSUME NEW x \in Nat, NEW y \in Nat, x <= y
    PROVE  PageCount(x) \in Int /\ PageCount(y) \in Int /\ PageCount(x) <= PageCount(y)
  <1>1. PageSize \in Nat \ {0}
    BY Bounds
  <1> QED
    BY <1>1, PagesGrow DEF PageCount

-----------------------------------------------------------------------------
(* Types, and what the records of a run and of the report say of time.       *)

PageNumbers == 2..PageCount(Cardinality(Entries))
Pcs == {"none", "start", "first", "pages", "save", "write", "over", "dead"}

RunRecord ==
    [pc : Pcs, how : {"timer", "admin", "api"}, scheduled : Nat, manual : Nat,
     total : Nat, todo : SUBSET PageNumbers, got : Seq(Entries), next : Nat \ {0},
     finished : Nat, calm : BOOLEAN, blind : BOOLEAN, mute : BOOLEAN]

UsedRecord == [troubles : Nat, overlap : BOOLEAN]
Chunk == {HOLE} \cup 0..MaxRuns

RemoteTypes == remote \in Seq(Entries) /\ Distinct(remote)
RunTypes == run \in [Runs -> RunRecord]
UsedTypes == used \in UsedRecord
ReportTypes == status \in Status /\ clock \in Nat
FileTypes == file \in Seq(Chunk)

\* No time stamp is in the future.
Past(r) == run[r].scheduled <= clock /\ run[r].manual <= clock /\ run[r].finished <= clock
ReportPast == status.finished <= clock /\ status.scheduled <= clock /\ status.manual <= clock

\* Before a run writes it has no chunk written; while it writes, it has not
\* passed the end, and its finishing time is its latest.
Progress(r) ==
    /\ run[r].pc \in {"none", "start", "first", "pages", "save"} => run[r].next = 1
    /\ run[r].pc = "write" => /\ run[r].next <= Chunks(r) + 1
                              /\ run[r].scheduled <= run[r].finished
                              /\ run[r].manual <= run[r].finished

Types == /\ RemoteTypes /\ RunTypes /\ UsedTypes /\ ReportTypes /\ FileTypes
         /\ ReportPast /\ \A r \in Runs : Past(r) /\ Progress(r)

\* A page that is asked for has a number.
LEMMA PageNumber ==
    /\ PageNumbers \subseteq Nat \ {0}
    /\ RemoteTypes => 2..PageCount(Len(remote)) \subseteq PageNumbers
  <1>1. PageCount(Cardinality(Entries)) \in Int
    BY Bounds, MorePages
  <1>2. PageNumbers \subseteq Nat \ {0}
    BY <1>1 DEF PageNumbers
  <1>3. ASSUME RemoteTypes
        PROVE  2..PageCount(Len(remote)) \subseteq PageNumbers
    <2>1. Len(remote) \in Nat /\ Len(remote) <= Cardinality(Entries)
      <3>1. IsFiniteSet(Entries)
        BY ConstantsAssumption, Zenon
      <3> QED BY <1>3, <3>1, AtMostAll DEF RemoteTypes
    <2>2. /\ PageCount(Len(remote)) \in Int
          /\ PageCount(Len(remote)) <= PageCount(Cardinality(Entries))
      BY <2>1, Bounds, MorePages
    <2> QED BY <1>1, <2>2 DEF PageNumbers
  <1> QED
    BY <1>2, <1>3

LEMMA InitTypes == Init => Types
  <1> SUFFICES ASSUME Init PROVE Types
    OBVIOUS
  <1>1. RemoteTypes
    BY FirstList DEF Init, RemoteTypes
  <1>2. RunTypes /\ \A r \in Runs : Past(r) /\ Progress(r)
    <2>1. NoRun \in RunRecord
      BY DEF NoRun, RunRecord, Pcs
    <2> QED BY <2>1 DEF Init, RunTypes, Past, Progress, NoRun
  <1>3. UsedTypes
    BY DEF Init, UsedTypes, UsedRecord
  <1>4. ReportTypes /\ ReportPast
    BY Bounds DEF Init, NeverRun, ReportTypes, ReportPast, Status
  <1>5. FileTypes
    <2>1. 0 \in Chunk
      BY Bounds DEF Chunk
    <2> QED BY <2>1 DEF Init, FileTypes
  <1> QED
    BY <1>1, <1>2, <1>3, <1>4, <1>5 DEF Types

\* A report of a run: the times in it are not in the future of c.
LEMMA ReportIs ==
    ASSUME Types, NEW r \in Runs, NEW st \in {"running", "failed"}, NEW t \in Nat,
           NEW c \in Nat, t <= c, clock <= c
    PROVE  /\ Report(r, st, t) \in Status
           /\ Report(r, st, t).scheduled <= c /\ Report(r, st, t).manual <= c
           /\ Report(r, st, t).finished <= c
  <1>1. run[r] \in RunRecord /\ Past(r) /\ clock \in Nat
    BY DEF Types, RunTypes, ReportTypes
  <1>2. Trigger(run[r].how) \in {"manual", "scheduled"}
    BY DEF Trigger
  <1>3. r \in 0..MaxRuns
    BY Bounds DEF Runs
  <1>4. run[r].scheduled \in Nat /\ run[r].manual \in Nat
    BY <1>1 DEF RunRecord
  <1> QED
    BY <1>1, <1>2, <1>3, <1>4 DEF Report, Status, Past

\* A list has a number of chunks.
LEMMA ChunkNumber == \A got \in Seq(Entries) : Len(got) \div PageSize \in Nat
  <1>1. \A n \in Nat, k \in Nat \ {0} : n \div k \in Nat
    OBVIOUS
  <1> QED
    BY <1>1, Bounds

\* What a step keeps of the other runs, and what it needs to show of its own.
LEMMA OneRun ==
    ASSUME Types, NEW r \in Runs, NEW x \in RunRecord, run' = [run EXCEPT ![r] = x],
           clock' \in Nat, clock <= clock',
           x.scheduled <= clock' /\ x.manual <= clock' /\ x.finished <= clock',
           x.pc \in {"none", "start", "first", "pages", "save"} => x.next = 1,
           x.pc = "write" => /\ x.next <= Len(x.got) \div PageSize + 2
                             /\ x.scheduled <= x.finished /\ x.manual <= x.finished
    PROVE  (RunTypes /\ \A q \in Runs : Past(q) /\ Progress(q))'
  <1>1. run \in [Runs -> RunRecord] /\ clock \in Nat
    BY DEF Types, RunTypes, ReportTypes
  <1>2. run' \in [Runs -> RunRecord] /\ run'[r] = x /\ \A q \in Runs : q # r => run'[q] = run[q]
    BY <1>1
  <1>3. Len(x.got) \in Nat /\ Len(x.got) \div PageSize \in Nat
    BY ChunkNumber DEF RunRecord
  <1>4. (Past(r) /\ Progress(r))'
    BY <1>2, <1>3 DEF Past, Progress, Chunks
  <1>5. ASSUME NEW q \in Runs, q # r
        PROVE  (Past(q) /\ Progress(q))'
    <2>1. run'[q] = run[q] /\ Past(q) /\ Progress(q) /\ run[q] \in RunRecord
      BY <1>1, <1>2, <1>5 DEF Types
    <2>2. run[q].scheduled \in Nat /\ run[q].manual \in Nat /\ run[q].finished \in Nat
      BY <2>1 DEF RunRecord
    <2>3. Past(q)'
      BY <1>1, <2>1, <2>2 DEF Past
    <2> QED BY <2>1, <2>3 DEF Progress, Chunks
  <1> QED
    BY <1>2, <1>4, <1>5 DEF RunTypes

\* What is known of a run and of the clock before a step.
LEMMA RunNow ==
    ASSUME Types, NEW r \in Runs
    PROVE  /\ run[r] \in RunRecord /\ run \in [Runs -> RunRecord]
           /\ clock \in Nat /\ clock + 1 \in Nat /\ clock <= clock /\ clock <= clock + 1
           /\ run[r].scheduled \in Nat /\ run[r].manual \in Nat /\ run[r].finished \in Nat
           /\ run[r].next \in Nat \ {0} /\ run[r].got \in Seq(Entries) /\ Len(run[r].got) \in Nat
           /\ run[r].todo \subseteq PageNumbers
           /\ run[r].scheduled <= clock /\ run[r].manual <= clock /\ run[r].finished <= clock
           /\ Progress(r)
  <1>1. run[r] \in RunRecord /\ run \in [Runs -> RunRecord] /\ clock \in Nat /\ Past(r) /\ Progress(r)
    BY DEF Types, RunTypes, ReportTypes
  <1>2. /\ run[r].scheduled \in Nat /\ run[r].manual \in Nat /\ run[r].finished \in Nat
        /\ run[r].next \in Nat \ {0} /\ run[r].got \in Seq(Entries)
        /\ run[r].todo \subseteq PageNumbers
    BY <1>1 DEF RunRecord
  <1>3. Len(run[r].got) \in Nat
    BY <1>2
  <1> QED
    BY <1>1, <1>2, <1>3 DEF Past

\* Two records of a run, the same but for whether its latest report was lost.
Like(y, x) ==
    /\ y.pc = x.pc /\ y.how = x.how /\ y.scheduled = x.scheduled /\ y.manual = x.manual
    /\ y.total = x.total /\ y.todo = x.todo /\ y.got = x.got /\ y.next = x.next
    /\ y.finished = x.finished /\ y.calm = x.calm /\ y.blind = x.blind

LEMMA TroubleTypes ==
    ASSUME UsedTypes, NEW n \in Nat, Trouble(n)
    PROVE  UsedTypes' /\ used'.overlap = used.overlap
  BY DEF UsedTypes, UsedRecord, Trouble

\* A report that is written replaces the one before; a run remembers one that
\* is lost.
LEMMA TellIs ==
    ASSUME Types, NEW r \in Runs, NEW report, NEW x \in RunRecord, NEW n \in Nat,
           Tell(r, report, x, n)
    PROVE  /\ \E y \in RunRecord :
                 /\ run' = [run EXCEPT ![r] = y] /\ Like(y, x)
                 /\ \/ status' = report /\ ~y.mute
                    \/ status' = status /\ y.mute
           /\ UsedTypes' /\ used'.overlap = used.overlap
  <1> DEFINE y(b) == [x EXCEPT !.mute = b]
  <1>1. \A b \in BOOLEAN : y(b) \in RunRecord /\ Like(y(b), x) /\ y(b).mute = b
    BY DEF RunRecord, Like
  <1>2. UsedTypes
    BY DEF Types
  <1>3. CASE /\ status' = report
             /\ run' = [run EXCEPT ![r] = [x EXCEPT !.mute = FALSE]]
             /\ Trouble(n)
    <2>1. UsedTypes' /\ used'.overlap = used.overlap
      BY <1>2, <1>3, TroubleTypes
    <2>2. run' = [run EXCEPT ![r] = y(FALSE)]
      BY <1>3
    <2> HIDE DEF y
    <2> QED BY <1>1, <1>3, <2>1, <2>2
  <1>4. CASE /\ UNCHANGED status
             /\ run' = [run EXCEPT ![r] = [x EXCEPT !.mute = TRUE]]
             /\ Trouble(n + 1)
    <2>1. UsedTypes' /\ used'.overlap = used.overlap
      <3>1. n + 1 \in Nat
        OBVIOUS
      <3> QED BY <1>2, <1>4, <3>1, TroubleTypes
    <2>2. run' = [run EXCEPT ![r] = y(TRUE)]
      BY <1>4
    <2> HIDE DEF y
    <2> QED BY <1>1, <1>4, <2>1, <2>2
  <1> QED
    BY <1>3, <1>4, Zenon DEF Tell

\* The same run at another point.
LEMMA AtIs ==
    ASSUME Types, NEW r \in Runs, NEW p \in Pcs
    PROVE  /\ At(r, p) \in RunRecord /\ At(r, p).pc = p
           /\ At(r, p).scheduled = run[r].scheduled /\ At(r, p).manual = run[r].manual
           /\ At(r, p).finished = run[r].finished /\ At(r, p).next = run[r].next
           /\ At(r, p).got = run[r].got /\ At(r, p).todo = run[r].todo
           /\ At(r, p).total = run[r].total /\ At(r, p).calm = run[r].calm
           /\ At(r, p).blind = run[r].blind /\ At(r, p).mute = run[r].mute
  <1>1. run[r] \in RunRecord
    BY RunNow
  <1> QED
    BY <1>1 DEF At, RunRecord

\* What a report leaves, and what of the run it needs to.
LEMMA TellTypes ==
    ASSUME Types, NEW r \in Runs, NEW report \in Status, NEW x \in RunRecord, NEW n \in Nat,
           Tell(r, report, x, n), clock' \in Nat, clock <= clock',
           report.scheduled <= clock', report.manual <= clock', report.finished <= clock',
           x.scheduled <= clock', x.manual <= clock', x.finished <= clock',
           x.pc \in {"none", "start", "first", "pages", "save"} => x.next = 1,
           x.pc # "write"
    PROVE  /\ (RunTypes /\ \A q \in Runs : Past(q) /\ Progress(q))'
           /\ (ReportTypes /\ ReportPast)' /\ UsedTypes'
  <1>1. UsedTypes'
    BY TellIs
  <1>2. PICK y \in RunRecord :
                 /\ run' = [run EXCEPT ![r] = y] /\ Like(y, x)
                 /\ status' = report \/ status' = status
    BY TellIs
  <1>3. (RunTypes /\ \A q \in Runs : Past(q) /\ Progress(q))'
    BY <1>2, OneRun DEF Like
  <1>4. /\ status \in Status /\ status.scheduled <= clock /\ status.manual <= clock
        /\ status.finished <= clock /\ clock \in Nat
    BY DEF Types, ReportTypes, ReportPast
  <1>5. status.scheduled \in Nat /\ status.manual \in Nat /\ status.finished \in Nat
    BY <1>4 DEF Status
  <1>6. /\ status' \in Status /\ status'.scheduled <= clock' /\ status'.manual <= clock'
        /\ status'.finished <= clock'
    BY <1>2, <1>4, <1>5
  <1> QED
    BY <1>1, <1>3, <1>6 DEF ReportTypes, ReportPast

\* A run that fails reports it at the time of the report.
LEMMA FailTypes ==
    ASSUME Types, NEW r \in Runs, NEW n \in Nat, Fail(r, n)
    PROVE  /\ (RunTypes /\ \A q \in Runs : Past(q) /\ Progress(q))'
           /\ (ReportTypes /\ ReportPast)' /\ UsedTypes'
  <1>1. clock' = clock + 1 /\ clock' \in Nat /\ clock <= clock' /\ clock + 1 <= clock'
    BY RunNow DEF Fail
  <1> DEFINE rep == Report(r, "failed", clock + 1)
             x == At(r, "over")
  <1>2. /\ rep \in Status /\ rep.scheduled <= clock + 1 /\ rep.manual <= clock + 1
        /\ rep.finished <= clock + 1
    BY <1>1, ReportIs, RunNow
  <1>3. /\ x \in RunRecord /\ x.pc = "over" /\ x.scheduled <= clock + 1
        /\ x.manual <= clock + 1 /\ x.finished <= clock + 1
    BY AtIs, RunNow DEF Pcs
  <1>4. Tell(r, rep, x, n)
    BY DEF Fail
  <1> HIDE DEF rep, x
  <1>5. x.pc \notin {"none", "start", "first", "pages", "save", "write"}
    BY <1>3
  <1> QED
    BY <1>1, <1>2, <1>3, <1>4, <1>5, TellTypes

\* A run that goes on, and does not write, reports so.
LEMMA RunningTypes ==
    ASSUME Types, NEW r \in Runs, UNCHANGED clock, NEW x \in RunRecord, NEW n \in Nat,
           Running(r, x, n), x.pc # "write", x.next = 1,
           x.scheduled = run[r].scheduled, x.manual = run[r].manual,
           x.finished = run[r].finished
    PROVE  /\ (RunTypes /\ \A q \in Runs : Past(q) /\ Progress(q))'
           /\ (ReportTypes /\ ReportPast)' /\ UsedTypes'
  <1>1. clock' = clock /\ clock' \in Nat /\ 0 <= clock' /\ clock <= clock' /\ 0 \in Nat
    BY RunNow
  <1> DEFINE rep == Report(r, "running", 0)
  <1>2. /\ rep \in Status /\ rep.scheduled <= clock' /\ rep.manual <= clock'
        /\ rep.finished <= clock'
    BY <1>1, ReportIs, RunNow
  <1>3. x.scheduled <= clock' /\ x.manual <= clock' /\ x.finished <= clock'
    BY <1>1, RunNow
  <1>4. Tell(r, rep, x, n)
    BY DEF Running
  <1> HIDE DEF rep
  <1> QED
    BY <1>1, <1>2, <1>3, <1>4, TellTypes

-----------------------------------------------------------------------------
(* Each step keeps the types. *)

LEMMA RemoteChangeTypes == Types /\ RemoteChange => Types'
  <1> SUFFICES ASSUME Types, RemoteChange PROVE Types'
    OBVIOUS
  <1>1. RemoteTypes'
    <2>1. remote \in Seq(Entries) /\ Distinct(remote)
      BY DEF Types, RemoteTypes
    <2>2. CASE \E k \in DOMAIN remote : remote' = RemoveAt(remote, k)
      <3>1. PICK k \in 1..Len(remote) : remote' = RemoveAt(remote, k)
        BY <2>1, <2>2
      <3>2. RemoveAt(remote, k) \in Seq(Entries) /\ Distinct(RemoveAt(remote, k))
        <4>1. Shorter(remote, k) \in Seq(Entries) /\ Distinct(Shorter(remote, k))
          BY <2>1, ListWithout, Zenon
        <4> QED BY <4>1, Zenon DEF RemoveAt, Shorter
      <3> QED BY <3>1, <3>2, Zenon DEF RemoteTypes
    <2>3. CASE \E e \in Entries \ ToSet(remote) : remote' = <<e>> \o remote
      <3>1. PICK e \in Entries \ ToSet(remote) : remote' = <<e>> \o remote
        BY <2>3
      <3>2. <<e>> \o remote \in Seq(Entries) /\ Distinct(<<e>> \o remote)
        BY <2>1, ListWith, Zenon
      <3> QED BY <3>1, <3>2, Zenon DEF RemoteTypes
    <2> QED BY <2>2, <2>3 DEF RemoteChange
  <1>2. /\ run' = [r \in Runs |-> [run[r] EXCEPT !.calm = @ /\ ~Active(r)]]
        /\ clock' = clock /\ status' = status /\ file' = file
    BY DEF RemoteChange
  <1>3. ASSUME NEW r \in Runs
        PROVE  run'[r] \in RunRecord /\ (Past(r) /\ Progress(r))'
    <2> DEFINE b == run[r].calm /\ ~Active(r)
    <2>1. run[r] \in RunRecord /\ b \in BOOLEAN /\ Past(r) /\ Progress(r)
      BY RunNow DEF Types
    <2>2. run'[r] = [run[r] EXCEPT !.calm = b]
      BY <1>2
    <2> HIDE DEF b
    <2>3. run'[r] \in RunRecord
      BY <2>1, <2>2 DEF RunRecord
    <2>4. /\ run'[r].pc = run[r].pc /\ run'[r].next = run[r].next /\ run'[r].got = run[r].got
          /\ run'[r].scheduled = run[r].scheduled /\ run'[r].manual = run[r].manual
          /\ run'[r].finished = run[r].finished
      BY <2>1, <2>2 DEF RunRecord
    <2>5. (Past(r) /\ Progress(r))'
      BY <1>2, <2>1, <2>4 DEF Past, Progress, Chunks
    <2> QED BY <2>3, <2>5
  <1>4. RunTypes'
    BY <1>2, <1>3 DEF RunTypes
  <1>5. UsedTypes'
    <2>1. UsedTypes /\ Trouble(1) /\ 1 \in Nat
      BY DEF RemoteChange, Types
    <2> QED BY <2>1, TroubleTypes
  <1>6. (ReportTypes /\ ReportPast /\ FileTypes)'
    BY <1>2 DEF Types, ReportTypes, ReportPast, FileTypes
  <1> QED
    BY <1>1, <1>3, <1>4, <1>5, <1>6 DEF Types

\* The times a run takes over from the report it read, and what becomes of it.
KeptScheduled(prev) == IF prev.scheduled = 0 /\ prev.trigger = "scheduled"
                       THEN prev.finished ELSE prev.scheduled
KeptManual(prev) == IF /\ prev.manual = 0 /\ prev.trigger # "scheduled"
                       /\ prev.status # "never_run"
                    THEN prev.finished ELSE prev.manual
Begun(r, how, blind, prev) ==
    [run[r] EXCEPT !.pc = "start", !.how = how, !.blind = blind,
                   !.scheduled = KeptScheduled(prev), !.manual = KeptManual(prev)]

\* The times taken over are not before the ones of the report that was read.
LEMMA Kept ==
    ASSUME Types, NEW prev \in {status, NeverRun}
    PROVE  /\ KeptScheduled(prev) \in Nat /\ KeptScheduled(prev) <= clock
           /\ KeptManual(prev) \in Nat /\ KeptManual(prev) <= clock
           /\ prev.scheduled <= KeptScheduled(prev) /\ prev.manual <= KeptManual(prev)
  <1>1. /\ status.finished \in Nat /\ status.scheduled \in Nat /\ status.manual \in Nat
        /\ ReportPast /\ clock \in Nat
    BY DEF Types, ReportTypes, Status
  <1>2. CASE prev = status
    BY <1>1, <1>2 DEF KeptScheduled, KeptManual, ReportPast
  <1>3. CASE prev = NeverRun
    BY <1>1, <1>3 DEF KeptScheduled, KeptManual, NeverRun
  <1> QED
    BY <1>2, <1>3

LEMMA BeginIs ==
    ASSUME Types, NEW r \in Runs, NEW how \in Starts, Begin(r, how)
    PROVE  /\ \E x \in RunRecord :
                 /\ run' = [run EXCEPT ![r] = x]
                 /\ x.pc = "start" /\ x.next = 1
                 /\ x.scheduled <= clock /\ x.manual <= clock
                 /\ x.finished = run[r].finished /\ x.got = run[r].got /\ x.mute = run[r].mute
                 /\ x.blind \/ (status.scheduled <= x.scheduled /\ status.manual <= x.manual)
           /\ UsedTypes'
           /\ used'.overlap = (used.overlap \/ \E q \in Runs : Active(q))
  <1>1. PICK blind \in BOOLEAN :
         LET prev == IF blind THEN NeverRun ELSE status
         IN  /\ run' = [run EXCEPT
                  ![r].pc = "start", ![r].how = how, ![r].blind = blind,
                  ![r].scheduled = IF prev.scheduled = 0 /\ prev.trigger = "scheduled"
                                   THEN prev.finished ELSE prev.scheduled,
                  ![r].manual = IF /\ prev.manual = 0 /\ prev.trigger # "scheduled"
                                   /\ prev.status # "never_run"
                                THEN prev.finished ELSE prev.manual]
             /\ used' = [used EXCEPT !.overlap = @ \/ \E q \in Runs : Active(q),
                                     !.troubles = IF blind THEN @ + 1 ELSE @]
    BY Zenon DEF Begin
  <1> DEFINE prev == IF blind THEN NeverRun ELSE status
             x == Begun(r, how, blind, prev)
             o == used.overlap \/ \E q \in Runs : Active(q)
  <1>2. run[r] \in RunRecord /\ how \in {"timer", "admin", "api"} /\ "start" \in Pcs
    BY RunNow, Bounds DEF Pcs
  <1>3. prev \in {status, NeverRun} /\ (~blind => prev = status)
    OBVIOUS
  <1>4. run[r].next = 1
    BY RunNow DEF Begin, Progress
  <1>5. run' = [run EXCEPT ![r] = x]
    BY <1>1, RunNow DEF Begun, KeptScheduled, KeptManual
  <1>6. UsedTypes' /\ used'.overlap = o
    <2> DEFINE t == IF blind THEN used.troubles + 1 ELSE used.troubles
    <2>1. used \in UsedRecord
      BY DEF Types, UsedTypes
    <2>2. used.troubles \in Nat /\ used.overlap \in BOOLEAN
      BY <2>1 DEF UsedRecord
    <2>3. o \in BOOLEAN /\ t \in Nat
      BY <2>2
    <2>4. used' = [used EXCEPT !.overlap = o, !.troubles = t]
      BY <1>1, Zenon
    <2> HIDE DEF o, t, x, prev
    <2>5. used' \in UsedRecord /\ used'.overlap = o
      BY <2>1, <2>3, <2>4 DEF UsedRecord
    <2> QED BY <2>5 DEF UsedTypes
  <1> HIDE DEF prev, o
  <1>7. /\ KeptScheduled(prev) \in Nat /\ KeptScheduled(prev) <= clock
        /\ KeptManual(prev) \in Nat /\ KeptManual(prev) <= clock
        /\ prev.scheduled <= KeptScheduled(prev) /\ prev.manual <= KeptManual(prev)
    BY <1>3, Kept
  <1>8. /\ x \in RunRecord /\ x.pc = "start" /\ x.next = 1 /\ x.blind = blind
        /\ x.scheduled = KeptScheduled(prev) /\ x.manual = KeptManual(prev)
        /\ x.finished = run[r].finished /\ x.got = run[r].got /\ x.mute = run[r].mute
    BY <1>2, <1>4, <1>7 DEF Begun, RunRecord
  <1>9. x.blind \/ (status.scheduled <= x.scheduled /\ status.manual <= x.manual)
    BY <1>3, <1>7, <1>8
  <1> HIDE DEF x
  <1> QED
    BY <1>5, <1>6, <1>7, <1>8, <1>9, Zenon DEF o

LEMMA BeginTypes ==
    ASSUME Types, NEW r \in Runs, NEW how \in Starts, Begin(r, how)
    PROVE  Types'
  <1>1. PICK x \in RunRecord :
                 /\ run' = [run EXCEPT ![r] = x] /\ x.pc = "start" /\ x.next = 1
                 /\ x.scheduled <= clock /\ x.manual <= clock
                 /\ x.finished = run[r].finished
    BY BeginIs
  <1>2. clock' = clock /\ status' = status /\ file' = file /\ remote' = remote
    BY DEF Begin
  <1>3. (RunTypes /\ \A q \in Runs : Past(q) /\ Progress(q))'
    <2>1. x.pc # "write" /\ clock' \in Nat /\ clock <= clock'
      BY <1>1, <1>2, RunNow
    <2>2. x.scheduled <= clock' /\ x.manual <= clock' /\ x.finished <= clock'
      BY <1>1, <1>2, RunNow
    <2> QED BY <1>1, <2>1, <2>2, OneRun
  <1>4. UsedTypes'
    BY BeginIs
  <1> QED
    BY <1>2, <1>3, <1>4 DEF Types, RemoteTypes, ReportTypes, FileTypes, ReportPast

LEMMA ReportStartTypes ==
    ASSUME Types, NEW r \in Runs, ReportStart(r) PROVE Types'
  <1> DEFINE x == At(r, "first")
  <1>1. /\ x \in RunRecord /\ x.pc = "first" /\ x.next = run[r].next
        /\ x.scheduled = run[r].scheduled /\ x.manual = run[r].manual
        /\ x.finished = run[r].finished
    BY AtIs DEF Pcs
  <1>2. Running(r, x, 0) /\ 0 \in Nat /\ run[r].next = 1 /\ UNCHANGED clock
    BY RunNow DEF ReportStart, Progress
  <1> HIDE DEF x
  <1>3. x.pc # "write" /\ x.next = 1
    BY <1>1, <1>2
  <1>4. /\ (RunTypes /\ \A q \in Runs : Past(q) /\ Progress(q))'
        /\ (ReportTypes /\ ReportPast)' /\ UsedTypes'
    BY <1>1, <1>2, <1>3, RunningTypes
  <1> QED
    BY <1>4 DEF ReportStart, Types, RemoteTypes, FileTypes

\* What page 1 gives to a run.
Listed(r) == [run[r] EXCEPT !.pc = "pages", !.total = Len(remote), !.got = PageOf(1),
                            !.todo = 2..PageCount(Len(remote))]

LEMMA ListedIs ==
    ASSUME Types, NEW r \in Runs, run[r].pc = "first"
    PROVE  /\ Listed(r) \in RunRecord
           /\ Listed(r).pc = "pages" /\ Listed(r).next = 1
           /\ Listed(r).scheduled = run[r].scheduled /\ Listed(r).manual = run[r].manual
           /\ Listed(r).finished = run[r].finished
  <1>1. remote \in Seq(Entries) /\ RemoteTypes
    BY DEF Types, RemoteTypes
  <1>2. PageOf(1) \in Seq(Entries)
    BY <1>1, PageType
  <1>3. 2..PageCount(Len(remote)) \subseteq PageNumbers
    BY <1>1, PageNumber
  <1>4. run[r] \in RunRecord /\ run[r].next = 1 /\ Len(remote) \in Nat /\ "pages" \in Pcs
    BY <1>1, RunNow DEF Progress, Pcs
  <1>5. Listed(r) \in RunRecord
    BY <1>2, <1>3, <1>4 DEF Listed, RunRecord
  <1> QED
    BY <1>4, <1>5 DEF Listed, RunRecord

LEMMA FetchFirstTypes ==
    ASSUME Types, NEW r \in Runs, FetchFirst(r) PROVE Types'
  <1>1. CASE Fail(r, 1)
    <2>1. /\ (RunTypes /\ \A q \in Runs : Past(q) /\ Progress(q))'
          /\ (ReportTypes /\ ReportPast)' /\ UsedTypes'
      BY <1>1, FailTypes
    <2> QED BY <2>1 DEF FetchFirst, Types, RemoteTypes, FileTypes
  <1>2. CASE /\ run' = [run EXCEPT ![r].pc = "pages", ![r].total = Len(remote),
                                   ![r].got = PageOf(1), ![r].todo = 2..PageCount(Len(remote))]
             /\ UNCHANGED <<status, clock, used>>
    <2> DEFINE x == Listed(r)
    <2>1. run[r].pc = "first" /\ run[r].scheduled <= clock /\ run[r].manual <= clock
          /\ run[r].finished <= clock
      BY RunNow DEF FetchFirst
    <2>2. /\ x \in RunRecord /\ x.pc = "pages" /\ x.next = 1
          /\ x.scheduled = run[r].scheduled /\ x.manual = run[r].manual
          /\ x.finished = run[r].finished
      BY <2>1, ListedIs
    <2>3. run' = [run EXCEPT ![r] = x] /\ clock' = clock /\ clock' \in Nat /\ clock <= clock'
      BY <1>2, RunNow DEF Listed
    <2> HIDE DEF x
    <2>4. x.scheduled <= clock' /\ x.manual <= clock' /\ x.finished <= clock' /\ x.pc # "write"
      BY <2>1, <2>2, <2>3
    <2>5. (RunTypes /\ \A q \in Runs : Past(q) /\ Progress(q))'
      BY <2>2, <2>3, <2>4, OneRun
    <2> QED BY <1>2, <2>5
            DEF FetchFirst, Types, RemoteTypes, FileTypes, UsedTypes, ReportTypes, ReportPast
  <1> QED
    BY <1>1, <1>2, Zenon DEF FetchFirst

\* What a run holds once a page was fetched, or failed.
Fetched(r, p, some) == [run[r] EXCEPT !.todo = @ \ {p}, !.got = some]

LEMMA FetchedIs ==
    ASSUME Types, NEW r \in Runs, NEW p \in 2..PageCount(Cardinality(Entries)),
           NEW some \in Seq(Entries)
    PROVE  /\ Fetched(r, p, some) \in RunRecord
           /\ Fetched(r, p, some).pc = run[r].pc /\ Fetched(r, p, some).next = run[r].next
           /\ Fetched(r, p, some).scheduled = run[r].scheduled
           /\ Fetched(r, p, some).manual = run[r].manual
           /\ Fetched(r, p, some).finished = run[r].finished
           /\ Fetched(r, p, some).blind = run[r].blind
           /\ Fetched(r, p, some).got = some /\ Fetched(r, p, some).total = run[r].total
           /\ Fetched(r, p, some).todo = run[r].todo \ {p}
           /\ Fetched(r, p, some).calm = run[r].calm
  <1>1. run[r] \in RunRecord
    BY RunNow
  <1> QED
    BY <1>1 DEF Fetched, RunRecord

LEMMA FetchPageIs ==
    ASSUME Types, NEW r \in Runs, NEW p \in 2..PageCount(Cardinality(Entries)), FetchPage(r, p)
    PROVE  /\ run[r].got \o PageOf(p) \in Seq(Entries)
           /\ \E some \in {run[r].got, run[r].got \o PageOf(p)}, n \in Nat :
                 Running(r, Fetched(r, p, some), n)
  <1>1. p \in Nat \ {0}
    BY PageNumber DEF PageNumbers
  <1>2. PageOf(p) \in Seq(Entries)
    BY <1>1, PageType DEF Types, RemoteTypes
  <1>3. run[r].got \in Seq(Entries) /\ run[r].got \o PageOf(p) \in Seq(Entries)
    BY <1>2, RunNow, ConcatProperties
  <1>4. run[r] \in RunRecord
    BY RunNow
  <1>5. [run[r] EXCEPT !.todo = @ \ {p}, !.got = @ \o PageOf(p)]
            = Fetched(r, p, run[r].got \o PageOf(p))
    BY <1>4 DEF Fetched, RunRecord
  <1>6. [run[r] EXCEPT !.todo = @ \ {p}] = Fetched(r, p, run[r].got)
    BY <1>4 DEF Fetched, RunRecord
  <1>7. \/ Running(r, Fetched(r, p, run[r].got \o PageOf(p)), 0)
        \/ Running(r, Fetched(r, p, run[r].got), 1)
    BY <1>5, <1>6 DEF FetchPage
  <1> QED
    BY <1>3, <1>7

LEMMA FetchPageTypes ==
    ASSUME Types, NEW r \in Runs, NEW p \in 2..PageCount(Cardinality(Entries)), FetchPage(r, p)
    PROVE  Types'
  <1>1. PICK some \in Seq(Entries), n \in Nat : Running(r, Fetched(r, p, some), n)
    BY FetchPageIs, RunNow
  <1> DEFINE x == Fetched(r, p, some)
  <1>2. run[r].pc = "pages" /\ run[r].next = 1 /\ UNCHANGED clock
    BY RunNow DEF FetchPage, Progress
  <1>3. /\ x \in RunRecord /\ x.pc # "write" /\ x.next = 1
        /\ x.scheduled = run[r].scheduled /\ x.manual = run[r].manual
        /\ x.finished = run[r].finished
    BY <1>2, FetchedIs
  <1>4. Running(r, x, n)
    BY <1>1
  <1> HIDE DEF x
  <1>5. /\ (RunTypes /\ \A q \in Runs : Past(q) /\ Progress(q))'
        /\ (ReportTypes /\ ReportPast)' /\ UsedTypes'
    BY <1>2, <1>3, <1>4, RunningTypes
  <1> QED
    BY <1>5 DEF FetchPage, Types, RemoteTypes, FileTypes

LEMMA ProcessTypes ==
    ASSUME Types, NEW r \in Runs, Process(r) PROVE Types'
  <1>1. CASE Fail(r, 1)
    <2>1. /\ (RunTypes /\ \A q \in Runs : Past(q) /\ Progress(q))'
          /\ (ReportTypes /\ ReportPast)' /\ UsedTypes'
      BY <1>1, FailTypes
    <2> QED BY <2>1 DEF Process, Types, RemoteTypes, FileTypes
  <1>2. CASE Running(r, At(r, "save"), 0) /\ UNCHANGED clock
    <2> DEFINE x == At(r, "save")
    <2>1. /\ x \in RunRecord /\ x.pc = "save" /\ x.next = run[r].next
          /\ x.scheduled = run[r].scheduled /\ x.manual = run[r].manual
          /\ x.finished = run[r].finished
      BY AtIs DEF Pcs
    <2>2. Running(r, x, 0) /\ 0 \in Nat /\ run[r].next = 1
      BY <1>2, RunNow DEF Process, Progress
    <2> HIDE DEF x
    <2>3. x.pc # "write" /\ x.next = 1
      BY <2>1, <2>2
    <2>4. /\ (RunTypes /\ \A q \in Runs : Past(q) /\ Progress(q))'
          /\ (ReportTypes /\ ReportPast)' /\ UsedTypes'
      BY <1>2, <2>1, <2>2, <2>3, RunningTypes
    <2> QED BY <2>4 DEF Process, Types, RemoteTypes, FileTypes
  <1> QED
    BY <1>1, <1>2, Zenon DEF Process

\* A run that opened the file.
Opened(r) == [run[r] EXCEPT !.pc = "write", !.finished = clock + 1]

LEMMA OpenedIs ==
    ASSUME Types, NEW r \in Runs, run[r].pc = "save"
    PROVE  /\ Opened(r) \in RunRecord
           /\ Opened(r).pc = "write" /\ Opened(r).next = 1 /\ Opened(r).got = run[r].got
           /\ Opened(r).finished = clock + 1
           /\ Opened(r).scheduled = run[r].scheduled /\ Opened(r).manual = run[r].manual
  <1>1. run[r] \in RunRecord /\ run[r].next = 1 /\ clock + 1 \in Nat /\ "write" \in Pcs
    BY RunNow DEF Progress, Pcs
  <1> QED
    BY <1>1 DEF Opened, RunRecord

LEMMA OpenFileTypes ==
    ASSUME Types, NEW r \in Runs, OpenFile(r) PROVE Types'
  <1>1. CASE /\ Fail(r, IF Accepts(run[r].total, Len(run[r].got)) THEN 1 ELSE 0)
             /\ UNCHANGED file
    <2> DEFINE n == IF Accepts(run[r].total, Len(run[r].got)) THEN 1 ELSE 0
    <2>1. n \in Nat /\ Fail(r, n)
      BY <1>1
    <2> HIDE DEF n
    <2>2. /\ (RunTypes /\ \A q \in Runs : Past(q) /\ Progress(q))'
          /\ (ReportTypes /\ ReportPast)' /\ UsedTypes'
      BY <2>1, FailTypes
    <2> QED BY <1>1, <2>2 DEF OpenFile, Types, RemoteTypes, FileTypes
  <1>2. CASE /\ clock' = clock + 1 /\ file' = <<>> /\ UNCHANGED <<status, used>>
             /\ run' = [run EXCEPT ![r].pc = "write", ![r].finished = clock + 1]
    <2> DEFINE x == Opened(r)
    <2>1. /\ x \in RunRecord /\ x.pc = "write" /\ x.next = 1 /\ x.finished = clock + 1
          /\ x.scheduled = run[r].scheduled /\ x.manual = run[r].manual
          /\ Len(x.got) \in Nat
      <3>1. run[r].pc = "save" /\ Len(run[r].got) \in Nat
        BY RunNow DEF OpenFile
      <3> QED BY <3>1, OpenedIs
    <2>2. run' = [run EXCEPT ![r] = x]
      BY <1>2, RunNow DEF Opened
    <2> HIDE DEF x
    <2>3. /\ clock' \in Nat /\ clock <= clock'
          /\ x.scheduled <= clock' /\ x.manual <= clock' /\ x.finished <= clock'
          /\ x.scheduled <= x.finished /\ x.manual <= x.finished
      BY <1>2, <2>1, RunNow
    <2> x.next <= Len(x.got) \div PageSize + 2
      BY <2>1, ChunkNumber DEF RunRecord
    <2>4. x.pc \notin {"none", "start", "first", "pages", "save"}
      BY <2>1
    <2>5. (RunTypes /\ \A q \in Runs : Past(q) /\ Progress(q))'
      BY <2>1, <2>2, <2>3, <2>4, OneRun
    <2>6. (ReportTypes /\ ReportPast)'
      <3>1. /\ status' = status /\ status \in Status /\ clock \in Nat /\ ReportPast
            /\ clock' = clock + 1
        BY <1>2 DEF Types, ReportTypes
      <3>2. status.finished \in Nat /\ status.scheduled \in Nat /\ status.manual \in Nat
        BY <3>1 DEF Status
      <3> QED BY <3>1, <3>2 DEF ReportTypes, ReportPast
    <2>7. FileTypes'
      BY <1>2 DEF FileTypes
    <2> QED BY <1>2, <2>5, <2>6, <2>7 DEF OpenFile, Types, RemoteTypes, UsedTypes
  <1> QED
    BY <1>1, <1>2 DEF OpenFile

\* A run that wrote a chunk.
Wrote(r) == [run[r] EXCEPT !.next = run[r].next + 1]

LEMMA WroteIs ==
    ASSUME Types, NEW r \in Runs
    PROVE  /\ Wrote(r) \in RunRecord /\ Wrote(r).next = run[r].next + 1
           /\ Wrote(r).pc = run[r].pc /\ Wrote(r).got = run[r].got
           /\ Wrote(r).scheduled = run[r].scheduled /\ Wrote(r).manual = run[r].manual
           /\ Wrote(r).finished = run[r].finished
  <1>1. run[r] \in RunRecord /\ run[r].next + 1 \in Nat \ {0}
    BY RunNow
  <1> QED
    BY <1>1 DEF Wrote, RunRecord

LEMMA ChunkTypes ==
    ASSUME Types, NEW r \in Runs, WriteChunk(r),
           ~(Fail(r, 1) /\ UNCHANGED file)
    PROVE  Types'
  <1> DEFINE x == Wrote(r)
             k == run[r].next
             n == IF k > Len(file) THEN k ELSE Len(file)
  <1>1. /\ x \in RunRecord /\ x.next = k + 1 /\ x.pc = "write" /\ x.got = run[r].got
        /\ x.scheduled = run[r].scheduled /\ x.manual = run[r].manual
        /\ x.finished = run[r].finished /\ k \in Nat \ {0}
        /\ k <= Len(run[r].got) \div PageSize + 1
    BY WroteIs, RunNow DEF WriteChunk, Chunks
  <1>2. /\ run' = [run EXCEPT ![r] = x] /\ clock' = clock /\ clock \in Nat
        /\ UNCHANGED <<remote, status, used>>
    BY RunNow DEF WriteChunk, Wrote
  <1>3. file' = [j \in 1..n |-> IF j = k THEN r ELSE IF j <= Len(file) THEN file[j] ELSE HOLE]
    BY Zenon DEF WriteChunk
  <1> HIDE DEF x
  <1>4. /\ clock' \in Nat /\ clock <= clock'
        /\ x.scheduled <= clock' /\ x.manual <= clock' /\ x.finished <= clock'
    BY <1>1, <1>2, RunNow
  <1>5. /\ x.scheduled <= x.finished /\ x.manual <= x.finished
        /\ x.next <= Len(x.got) \div PageSize + 2
    <2>1. run[r].scheduled <= run[r].finished /\ run[r].manual <= run[r].finished
      BY RunNow DEF Progress, WriteChunk
    <2>2. Len(run[r].got) \div PageSize \in Nat
      BY RunNow, ChunkNumber
    <2> QED BY <1>1, <2>1, <2>2
  <1>6. x.pc \notin {"none", "start", "first", "pages", "save"}
    BY <1>1
  <1>7. (RunTypes /\ \A q \in Runs : Past(q) /\ Progress(q))'
    BY <1>1, <1>2, <1>4, <1>5, <1>6, OneRun
  <1>8. FileTypes'
    <2>1. file \in Seq(Chunk) /\ Len(file) \in Nat /\ r \in Chunk /\ HOLE \in Chunk
      BY Bounds DEF Types, FileTypes, Chunk, Runs
    <2>2. n \in Nat
      BY <1>1, <2>1
    <2>3. \A j \in 1..n :
             (IF j = k THEN r ELSE IF j <= Len(file) THEN file[j] ELSE HOLE) \in Chunk
      BY <2>1
    <2> HIDE DEF n, k
    <2>4. file' \in Seq(Chunk)
      BY <1>3, <2>2, <2>3
    <2> QED BY <2>4 DEF FileTypes
  <1> QED
    BY <1>2, <1>7, <1>8
       DEF WriteChunk, Types, RemoteTypes, UsedTypes, ReportTypes, ReportPast

LEMMA WriteChunkTypes ==
    ASSUME Types, NEW r \in Runs, WriteChunk(r) PROVE Types'
  <1>1. CASE Fail(r, 1) /\ UNCHANGED file
    <2>1. /\ (RunTypes /\ \A q \in Runs : Past(q) /\ Progress(q))'
          /\ (ReportTypes /\ ReportPast)' /\ UsedTypes'
      BY <1>1, FailTypes
    <2> QED BY <1>1, <2>1 DEF WriteChunk, Types, RemoteTypes, FileTypes
  <1>2. CASE ~(Fail(r, 1) /\ UNCHANGED file)
    BY <1>2, ChunkTypes
  <1> QED
    BY <1>1, <1>2

\* The report of a run's success.
LEMMA SuccessIs ==
    ASSUME Types, NEW r \in Runs
    PROVE  /\ Success(r) \in Status /\ Success(r).status = "success" /\ Success(r).run = r
           /\ Success(r).scheduled <= clock /\ Success(r).manual <= clock
           /\ Success(r).finished <= clock
           /\ Success(r).scheduled \in {run[r].scheduled, run[r].finished}
           /\ Success(r).manual \in {run[r].manual, run[r].finished}
  <1> DEFINE t == Trigger(run[r].how)
             sch == IF t = "scheduled" THEN run[r].finished ELSE run[r].scheduled
             man == IF t = "manual" THEN run[r].finished ELSE run[r].manual
  <1>1. t \in {"manual", "scheduled"}
    BY DEF Trigger
  <1>2. sch \in Nat /\ man \in Nat /\ sch <= clock /\ man <= clock
    BY RunNow
  <1>3. Success(r) = [status |-> "success", trigger |-> t, finished |-> run[r].finished,
                      run |-> r, scheduled |-> sch, manual |-> man]
    BY Zenon DEF Success
  <1>4. sch \in {run[r].scheduled, run[r].finished} /\ man \in {run[r].manual, run[r].finished}
    OBVIOUS
  <1> HIDE DEF t, sch, man
  <1>5. r \in 0..MaxRuns /\ run[r].finished \in Nat /\ run[r].finished <= clock
    BY Bounds, RunNow DEF Runs
  <1> QED
    BY <1>1, <1>2, <1>3, <1>4, <1>5 DEF Status

LEMMA ReportSuccessTypes ==
    ASSUME Types, NEW r \in Runs, ReportSuccess(r) PROVE Types'
  <1> DEFINE x == At(r, "over")
             rep == Success(r)
  <1>1. /\ clock' = clock /\ clock' \in Nat /\ clock <= clock' /\ 0 \in Nat
        /\ Tell(r, rep, x, 0)
    BY RunNow DEF ReportSuccess
  <1>2. /\ rep \in Status /\ rep.scheduled <= clock' /\ rep.manual <= clock'
        /\ rep.finished <= clock'
    BY <1>1, SuccessIs
  <1>3. /\ x \in RunRecord /\ x.pc = "over" /\ x.scheduled <= clock'
        /\ x.manual <= clock' /\ x.finished <= clock'
    BY <1>1, AtIs, RunNow DEF Pcs
  <1> HIDE DEF x, rep
  <1>4. x.pc \notin {"none", "start", "first", "pages", "save", "write"}
    BY <1>3
  <1>5. /\ (RunTypes /\ \A q \in Runs : Past(q) /\ Progress(q))'
        /\ (ReportTypes /\ ReportPast)' /\ UsedTypes'
    BY <1>1, <1>2, <1>3, <1>4, TellTypes
  <1> QED
    BY <1>5 DEF ReportSuccess, Types, RemoteTypes, FileTypes

LEMMA CrashTypes ==
    ASSUME Types, NEW r \in Runs, Crash(r) PROVE Types'
  <1> DEFINE x == At(r, "dead")
  <1>1. clock' = clock /\ clock' \in Nat /\ clock <= clock'
    BY RunNow DEF Crash
  <1>2. run' = [run EXCEPT ![r] = x]
    BY RunNow DEF Crash, At
  <1>3. /\ x \in RunRecord /\ x.pc = "dead" /\ x.scheduled <= clock'
        /\ x.manual <= clock' /\ x.finished <= clock'
    BY <1>1, AtIs, RunNow DEF Pcs
  <1> HIDE DEF x
  <1>4. x.pc \notin {"none", "start", "first", "pages", "save", "write"}
    BY <1>3
  <1>5. (RunTypes /\ \A q \in Runs : Past(q) /\ Progress(q))'
    BY <1>1, <1>2, <1>3, <1>4, OneRun
  <1>6. UsedTypes'
    <2>1. UsedTypes /\ Trouble(1) /\ 1 \in Nat
      BY DEF Crash, Types
    <2> QED BY <2>1, TroubleTypes
  <1> QED
    BY <1>5, <1>6
       DEF Crash, Types, RemoteTypes, FileTypes, ReportTypes, ReportPast

LEMMA NextTypes == Types /\ [Next]_vars => Types'
  <1> SUFFICES ASSUME Types, [Next]_vars PROVE Types'
    OBVIOUS
  <1>1. CASE RemoteChange
    BY <1>1, RemoteChangeTypes
  <1>2. ASSUME NEW r \in Runs, Step(r) PROVE Types'
    BY <1>2, ReportStartTypes, FetchFirstTypes, ProcessTypes, OpenFileTypes,
       WriteChunkTypes, ReportSuccessTypes, FetchPageTypes, Zenon DEF Step
  <1>3. ASSUME NEW r \in Runs, Crash(r) PROVE Types'
    BY <1>3, CrashTypes
  <1>4. ASSUME NEW r \in Runs, NEW how \in Starts, Begin(r, how) PROVE Types'
    BY <1>4, BeginTypes
  <1>5. CASE UNCHANGED vars
    BY <1>5 DEF vars, Types, RemoteTypes, RunTypes, UsedTypes, ReportTypes, FileTypes,
                ReportPast, Past, Progress, Chunks
  <1> QED
    BY <1>1, <1>2, <1>3, <1>4, <1>5, Zenon DEF Next

\* Every variable has its type, no time stamp is in the future: for any list,
\* page size, number of runs and failures (TypeOK).
THEOREM TypeCorrect == Spec => []TypeOK
  <1>1. ASSUME Types PROVE TypeOK
    <2>1. remote \in Seq(Entries)
      BY <1>1 DEF Types, RemoteTypes
    <2>2. status \in Status /\ clock \in Nat
      BY <1>1 DEF Types, ReportTypes
    <2>3. \A t \in {status.finished, status.scheduled, status.manual} : t <= clock
      BY <1>1 DEF Types, ReportPast
    <2>4. file \in Seq({HOLE} \cup 0..MaxRuns)
      BY <1>1 DEF Types, FileTypes, Chunk
    <2>5. ASSUME NEW r \in Runs
          PROVE  /\ run[r].pc \in {"none", "start", "first", "pages", "save", "write", "over", "dead"}
                 /\ run[r].got \in Seq(Entries)
                 /\ run[r].todo \subseteq 2..PageCount(Cardinality(Entries))
                 /\ {run[r].scheduled, run[r].manual, run[r].finished} \subseteq 0..clock
      <3>1. run[r].pc \in Pcs
        BY <1>1, RunNow DEF RunRecord
      <3> QED BY <1>1, <3>1, RunNow DEF Pcs, PageNumbers
    <2> QED BY <2>1, <2>2, <2>3, <2>4, <2>5 DEF TypeOK
  <1> QED
    BY <1>1, InitTypes, NextTypes, PTL DEF Spec

-----------------------------------------------------------------------------
(* While no two runs overlap.  What SuccessMeansSaved says of the file is    *)
(* not inductive: between truncation and the report the file is in pieces,   *)
(* and it is the report "running" of the one active run, given before, that  *)
(* keeps the status from saying success meanwhile; or, when that report was  *)
(* lost, that the run is later than the one of the status and remembers it.  *)

One == \A q, s \in Runs : Active(q) /\ Active(s) => q = s

\* Runs begin in order, and the run of the report has begun.
InOrder ==
    /\ \A q, s \in Runs : q < s /\ run[s].pc # "none" => run[q].pc # "none"
    /\ status.run \in Runs => run[status.run].pc # "none"

\* No later run than the active one reported; and the times an active run holds
\* are not before those of the report, if it could read the one it found.
Later(r) ==
    Active(r) => /\ status.run <= r
                 /\ \/ run[r].blind
                    \/ status.scheduled <= run[r].scheduled /\ status.manual <= run[r].manual

\* A run that reported itself keeps the report from saying success, unless that
\* and every later report was lost.
Told(r) ==
    run[r].pc \in {"first", "pages", "save", "write"} /\ status.status = "success" =>
        status.run < r /\ run[r].mute

\* What a run wrote is all there is in the file.
Writing(r) == run[r].pc = "write" => file = [k \in 1..(run[r].next - 1) |-> r]

\* The run of a report of success is over, and the file is its, unless a later
\* one could not report.
Saved == status.status = "success" =>
           /\ status.run \in Runs /\ run[status.run].pc = "over"
           /\ \/ file = [k \in 1..Chunks(status.run) |-> status.run]
              \/ \E q \in Runs : q > status.run /\ run[q].mute

Serially == One /\ InOrder /\ Saved /\ \A r \in Runs : Later(r) /\ Told(r) /\ Writing(r)
Sole == ~used.overlap => Serially

LEMMA StatusRun == Types => status.run \in Int /\ \A r \in Runs : r \in Int
  BY Bounds DEF Types, ReportTypes, Status, Runs

\* A step of the one active run leaves nothing to show of the others.
LEMMA Lone ==
    ASSUME Types, Serially, NEW r \in Runs, Active(r),
           NEW x \in RunRecord, run' = [run EXCEPT ![r] = x], x.pc # "none",
           status'.run \in {status.run, r}
    PROVE  /\ run'[r] = x /\ \A q \in Runs : q # r => run'[q] = run[q]
           /\ One' /\ InOrder'
           /\ \A q \in Runs : q # r => (Later(q) /\ Told(q) /\ Writing(q))'
           /\ status.status = "success" => status.run < r /\ run'[status.run] = run[status.run]
  <1>1. run'[r] = x /\ \A q \in Runs : q # r => run'[q] = run[q]
    BY RunNow
  <1>2. \A q \in Runs : q # r => ~Active(q)
    BY DEF Serially, One
  <1>3. \A q \in Runs : q # r => ~Active(q)'
    BY <1>1, <1>2 DEF Active
  <1>4. One'
    BY <1>3 DEF One
  <1>5. ASSUME NEW q \in Runs, q # r
        PROVE  (Later(q) /\ Told(q) /\ Writing(q))'
    <2>1. run'[q].pc \in {"none", "over", "dead"}
      BY <1>3, <1>5 DEF Active
    <2> QED BY <2>1 DEF Later, Told, Writing, Active
  <1>6. status.status = "success" => status.run < r /\ run'[status.run] = run[status.run]
    <2> SUFFICES ASSUME status.status = "success"
                 PROVE  status.run < r /\ run'[status.run] = run[status.run]
      OBVIOUS
    <2>1. status.run \in Runs /\ run[status.run].pc = "over"
      BY DEF Serially, Saved
    <2>2. status.run # r
      BY <2>1 DEF Active
    <2>3. status.run <= r
      BY DEF Serially, Later
    <2> QED BY <1>1, <2>1, <2>2, <2>3, StatusRun
  <1>7. InOrder'
    <2>1. \A q \in Runs : run[q].pc # "none" => run'[q].pc # "none"
      BY <1>1
    <2>2. \A q \in Runs : run'[q].pc # "none" => run[q].pc # "none"
      BY <1>1 DEF Active
    <2>3. status'.run \in Runs => run'[status'.run].pc # "none"
      BY <1>1, <2>1 DEF Serially, InOrder
    <2> QED BY <2>1, <2>2, <2>3 DEF Serially, InOrder
  <1> QED
    BY <1>1, <1>4, <1>5, <1>6, <1>7

\* The run reports how it goes, or fails, or does not report; it does not write.
\* A report it loses it remembers, and what it remembers it does not forget
\* before a report of its is written.
LEMMA NoWriting ==
    ASSUME Types, Sole, NEW r \in Runs, Active(r), NEW x \in RunRecord,
           run' = [run EXCEPT ![r] = x],
           x.pc \in {"first", "pages", "save", "over", "dead"},
           x.scheduled = run[r].scheduled, x.manual = run[r].manual, x.blind = run[r].blind,
           UNCHANGED file, used'.overlap = used.overlap,
           \/ \E st \in {"running", "failed"}, t \in Nat : status' = Report(r, st, t)
           \/ /\ status' = status
              /\ \/ x.mute
                 \/ /\ x.mute = run[r].mute
                    /\ x.pc \in {"over", "dead"} \/ run[r].pc \in {"first", "pages", "save"}
    PROVE  Sole'
  <1> SUFFICES ASSUME ~used.overlap PROVE Serially'
    BY DEF Sole
  <1>0. Serially
    BY DEF Sole
  <1>1. Saved /\ Later(r) /\ Told(r)
    BY <1>0 DEF Serially
  <1>2. CASE \E st \in {"running", "failed"}, t \in Nat : status' = Report(r, st, t)
    <2>1. PICK st \in {"running", "failed"}, t \in Nat : status' = Report(r, st, t)
      BY <1>2
    <2>2. /\ status'.status # "success" /\ status'.run = r
          /\ status'.scheduled = run[r].scheduled /\ status'.manual = run[r].manual
      BY <2>1 DEF Report
    <2>3. /\ run'[r] = x /\ One' /\ InOrder'
          /\ \A q \in Runs : q # r => (Later(q) /\ Told(q) /\ Writing(q))'
      BY <1>0, <2>2, Lone
    <2>4. Saved' /\ Told(r)' /\ Writing(r)'
      BY <2>2, <2>3 DEF Saved, Told, Writing
    <2>5. Later(r)'
      BY <2>2, <2>3, RunNow, StatusRun DEF Later
    <2> QED BY <2>3, <2>4, <2>5 DEF Serially
  <1>3. CASE /\ status' = status
             /\ \/ x.mute
                \/ /\ x.mute = run[r].mute
                   /\ x.pc \in {"over", "dead"} \/ run[r].pc \in {"first", "pages", "save"}
    <2>1. /\ run'[r] = x /\ \A q \in Runs : q # r => run'[q] = run[q]
          /\ One' /\ InOrder'
          /\ \A q \in Runs : q # r => (Later(q) /\ Told(q) /\ Writing(q))'
          /\ status.status = "success" => status.run < r /\ run'[status.run] = run[status.run]
      BY <1>0, <1>3, Lone
    <2>2. \A q \in Runs : run[q].mute => run'[q].mute
      BY <1>3, <2>1
    <2>3. Saved'
      BY <1>1, <1>3, <2>1, <2>2 DEF Saved, Chunks
    <2>4. Told(r)' /\ Writing(r)'
      BY <1>1, <1>3, <2>1 DEF Told, Writing
    <2>5. Later(r)'
      BY <1>1, <1>3, <2>1 DEF Later
    <2> QED BY <2>1, <2>3, <2>4, <2>5 DEF Serially
  <1> QED
    BY <1>2, <1>3

\* A report that is no success, written or lost.
LEMMA TellSole ==
    ASSUME Types, Sole, NEW r \in Runs, Active(r), NEW x \in RunRecord, NEW n \in Nat,
           NEW st \in {"running", "failed"}, NEW t \in Nat, Tell(r, Report(r, st, t), x, n),
           x.pc \in {"first", "pages", "save", "over", "dead"},
           x.scheduled = run[r].scheduled, x.manual = run[r].manual, x.blind = run[r].blind,
           UNCHANGED file
    PROVE  Sole'
  <1> DEFINE rep == Report(r, st, t)
  <1>1. Tell(r, rep, x, n)
    OBVIOUS
  <1> HIDE DEF rep
  <1>2. used'.overlap = used.overlap
    BY <1>1, TellIs
  <1>3. PICK y \in RunRecord :
                 /\ run' = [run EXCEPT ![r] = y] /\ Like(y, x)
                 /\ \/ status' = rep
                    \/ status' = status /\ y.mute
    BY <1>1, TellIs
  <1>4. /\ y.pc \in {"first", "pages", "save", "over", "dead"} /\ y.blind = run[r].blind
        /\ y.scheduled = run[r].scheduled /\ y.manual = run[r].manual
    BY <1>3 DEF Like
  <1>5. CASE status' = rep
    BY <1>2, <1>3, <1>4, <1>5, NoWriting DEF rep
  <1>6. CASE status' = status /\ y.mute
    BY <1>2, <1>3, <1>4, <1>6, NoWriting
  <1> QED
    BY <1>3, <1>5, <1>6

LEMMA RunningSole ==
    ASSUME Types, Sole, NEW r \in Runs, Active(r), NEW x \in RunRecord, NEW n \in Nat,
           Running(r, x, n), x.pc \in {"first", "pages", "save"},
           x.scheduled = run[r].scheduled, x.manual = run[r].manual, x.blind = run[r].blind,
           UNCHANGED file
    PROVE  Sole'
  BY TellSole DEF Running

LEMMA FailSole ==
    ASSUME Types, Sole, NEW r \in Runs, Active(r), NEW n \in Nat, Fail(r, n), UNCHANGED file
    PROVE  Sole'
  <1> DEFINE x == At(r, "over")
  <1>1. /\ x \in RunRecord /\ x.pc = "over" /\ x.blind = run[r].blind
        /\ x.scheduled = run[r].scheduled /\ x.manual = run[r].manual
    BY AtIs DEF Pcs
  <1>2. Tell(r, Report(r, "failed", clock + 1), x, n) /\ clock + 1 \in Nat
    BY RunNow DEF Fail
  <1> HIDE DEF x
  <1> QED
    BY <1>1, <1>2, TellSole

-----------------------------------------------------------------------------
(* Each step keeps what holds while runs do not overlap. *)

LEMMA RemoteChangeSole == Types /\ Sole /\ RemoteChange => Sole'
  <1> SUFFICES ASSUME Types, Sole, RemoteChange PROVE Sole'
    OBVIOUS
  <1>1. used'.overlap = used.overlap
    <2>1. UsedTypes /\ Trouble(1) /\ 1 \in Nat
      BY DEF RemoteChange, Types
    <2> QED BY <2>1, TroubleTypes
  <1>2. ASSUME NEW r \in Runs
        PROVE  /\ run'[r].pc = run[r].pc /\ run'[r].next = run[r].next
               /\ run'[r].got = run[r].got /\ run'[r].scheduled = run[r].scheduled
               /\ run'[r].manual = run[r].manual /\ run'[r].blind = run[r].blind
               /\ run'[r].mute = run[r].mute
    <2> DEFINE b == run[r].calm /\ ~Active(r)
    <2>1. run[r] \in RunRecord /\ run'[r] = [run[r] EXCEPT !.calm = b]
      BY RunNow DEF RemoteChange
    <2> HIDE DEF b
    <2> QED BY <2>1 DEF RunRecord
  <1>3. status' = status /\ file' = file
    BY DEF RemoteChange
  <1>4. One /\ InOrder => (One /\ InOrder)'
    BY <1>2, <1>3 DEF One, InOrder, Active
  <1>5. Saved => Saved'
    BY <1>2, <1>3 DEF Saved, Chunks
  <1>6. ASSUME NEW r \in Runs, Later(r), Told(r), Writing(r)
        PROVE  (Later(r) /\ Told(r) /\ Writing(r))'
    BY <1>2, <1>3, <1>6 DEF Later, Told, Writing, Active
  <1> QED
    BY <1>1, <1>4, <1>5, <1>6 DEF Sole, Serially

LEMMA BeginSole ==
    ASSUME Types, Sole, NEW r \in Runs, NEW how \in Starts, Begin(r, how)
    PROVE  Sole'
  <1> SUFFICES ASSUME ~used'.overlap PROVE Serially'
    BY DEF Sole
  <1>1. ~used.overlap /\ \A q \in Runs : ~Active(q)
    BY BeginIs
  <1>2. /\ run[r].pc = "none" /\ status' = status /\ file' = file
        /\ \A q \in Runs : q < r => run[q].pc # "none"
    BY DEF Begin
  <1>3. PICK x \in RunRecord :
                 /\ run' = [run EXCEPT ![r] = x] /\ x.pc = "start" /\ x.mute = run[r].mute
                 /\ x.blind \/ (status.scheduled <= x.scheduled /\ status.manual <= x.manual)
    BY BeginIs
  <1>4. run'[r] = x /\ \A q \in Runs : q # r => run'[q] = run[q]
    BY <1>3, RunNow
  <1>5. \A q \in Runs : q # r => ~Active(q)'
    BY <1>1, <1>4 DEF Active
  <1>6. One'
    BY <1>5 DEF One
  <1>7. Serially
    BY <1>1 DEF Sole
  <1>8. InOrder'
    <2>1. \A q \in Runs : run[q].pc # "none" => run'[q].pc # "none"
      BY <1>3, <1>4
    <2>2. \A q, t \in Runs : q < t /\ run'[t].pc # "none" => run'[q].pc # "none"
      BY <1>2, <1>4, <1>7, <2>1 DEF Serially, InOrder
    <2> QED BY <1>2, <1>7, <2>1, <2>2 DEF Serially, InOrder
  <1>9. Saved'
    <2>1. \A q \in Runs : run[q].mute => run'[q].mute
      BY <1>3, <1>4
    <2>2. status.status = "success" => run'[status.run] = run[status.run]
      BY <1>2, <1>4, <1>7 DEF Serially, Saved
    <2> QED BY <1>2, <1>7, <2>1, <2>2 DEF Serially, Saved, Chunks
  <1>10. (Later(r) /\ Told(r) /\ Writing(r))'
    <2>1. status.run \in 0..MaxRuns /\ r \in 1..MaxRuns /\ MaxRuns \in Nat
      BY Bounds DEF Types, ReportTypes, Status, Runs
    <2>2. status.run <= r
      <3>1. CASE status.run \in Runs
        BY <1>2, <1>7, <2>1, <3>1 DEF Serially, InOrder
      <3>2. CASE status.run \notin Runs
        BY <2>1, <3>2 DEF Runs
      <3> QED BY <3>1, <3>2
    <2> QED BY <1>2, <1>3, <1>4, <2>2 DEF Later, Told, Writing
  <1>11. ASSUME NEW q \in Runs, q # r PROVE (Later(q) /\ Told(q) /\ Writing(q))'
    BY <1>5, <1>11 DEF Later, Told, Writing, Active
  <1> QED
    BY <1>6, <1>8, <1>9, <1>10, <1>11 DEF Serially

LEMMA ReportStartSole ==
    ASSUME Types, Sole, NEW r \in Runs, ReportStart(r) PROVE Sole'
  <1> DEFINE x == At(r, "first")
  <1>1. Active(r) /\ UNCHANGED file /\ Running(r, x, 0) /\ 0 \in Nat
    BY DEF ReportStart, Active
  <1>2. /\ x \in RunRecord /\ x.pc = "first" /\ x.blind = run[r].blind
        /\ x.scheduled = run[r].scheduled /\ x.manual = run[r].manual
    BY AtIs DEF Pcs
  <1> HIDE DEF x
  <1> QED
    BY <1>1, <1>2, RunningSole

LEMMA FetchFirstSole ==
    ASSUME Types, Sole, NEW r \in Runs, FetchFirst(r) PROVE Sole'
  <1>1. Active(r) /\ UNCHANGED file /\ run[r].pc = "first"
    BY DEF FetchFirst, Active
  <1>2. CASE Fail(r, 1)
    BY <1>1, <1>2, FailSole
  <1>3. CASE /\ run' = [run EXCEPT ![r].pc = "pages", ![r].total = Len(remote),
                                   ![r].got = PageOf(1), ![r].todo = 2..PageCount(Len(remote))]
             /\ UNCHANGED <<status, clock, used>>
    <2> DEFINE x == Listed(r)
    <2>1. run' = [run EXCEPT ![r] = x]
      BY <1>3, RunNow DEF Listed
    <2>2. /\ x \in RunRecord /\ x.pc = "pages"
          /\ x.scheduled = run[r].scheduled /\ x.manual = run[r].manual
      BY <1>1, ListedIs
    <2>3. x.blind = run[r].blind /\ x.mute = run[r].mute
      BY RunNow DEF Listed, RunRecord
    <2> HIDE DEF x
    <2> QED BY <1>1, <1>3, <2>1, <2>2, <2>3, NoWriting
  <1> QED
    BY <1>2, <1>3, Zenon DEF FetchFirst

LEMMA FetchPageSole ==
    ASSUME Types, Sole, NEW r \in Runs, NEW p \in 2..PageCount(Cardinality(Entries)),
           FetchPage(r, p)
    PROVE  Sole'
  <1>1. PICK some \in Seq(Entries), n \in Nat : Running(r, Fetched(r, p, some), n)
    BY FetchPageIs, RunNow
  <1>2. Active(r) /\ UNCHANGED file /\ run[r].pc = "pages"
    BY DEF FetchPage, Active
  <1> DEFINE x == Fetched(r, p, some)
  <1>3. /\ x \in RunRecord /\ x.pc = "pages" /\ x.blind = run[r].blind
        /\ x.scheduled = run[r].scheduled /\ x.manual = run[r].manual
    BY <1>2, FetchedIs
  <1>4. Running(r, x, n)
    BY <1>1
  <1> HIDE DEF x
  <1> QED
    BY <1>2, <1>3, <1>4, RunningSole

LEMMA ProcessSole ==
    ASSUME Types, Sole, NEW r \in Runs, Process(r) PROVE Sole'
  <1>1. Active(r) /\ UNCHANGED file
    BY DEF Process, Active
  <1>2. CASE Fail(r, 1)
    BY <1>1, <1>2, FailSole
  <1>3. CASE Running(r, At(r, "save"), 0) /\ UNCHANGED clock
    <2> DEFINE x == At(r, "save")
    <2>1. /\ x \in RunRecord /\ x.pc = "save" /\ x.blind = run[r].blind
          /\ x.scheduled = run[r].scheduled /\ x.manual = run[r].manual
      BY AtIs DEF Pcs
    <2>2. Running(r, x, 0) /\ 0 \in Nat
      BY <1>3
    <2> HIDE DEF x
    <2> QED BY <1>1, <2>1, <2>2, RunningSole
  <1> QED
    BY <1>2, <1>3, Zenon DEF Process

LEMMA OpenFileSole ==
    ASSUME Types, Sole, NEW r \in Runs, OpenFile(r) PROVE Sole'
  <1>1. Active(r) /\ run[r].pc = "save"
    BY DEF OpenFile, Active
  <1>2. CASE /\ Fail(r, IF Accepts(run[r].total, Len(run[r].got)) THEN 1 ELSE 0)
             /\ UNCHANGED file
    <2> DEFINE n == IF Accepts(run[r].total, Len(run[r].got)) THEN 1 ELSE 0
    <2>1. n \in Nat /\ Fail(r, n)
      BY <1>2
    <2> HIDE DEF n
    <2> QED BY <1>1, <1>2, <2>1, FailSole
  <1>3. CASE /\ clock' = clock + 1 /\ file' = <<>> /\ UNCHANGED <<status, used>>
             /\ run' = [run EXCEPT ![r].pc = "write", ![r].finished = clock + 1]
    <2> SUFFICES ASSUME ~used.overlap PROVE Serially'
      BY <1>3 DEF Sole
    <2> DEFINE x == Opened(r)
    <2>1. /\ x \in RunRecord /\ x.pc = "write" /\ x.next = 1
          /\ x.scheduled = run[r].scheduled /\ x.manual = run[r].manual
      BY <1>1, OpenedIs
    <2>2. run' = [run EXCEPT ![r] = x]
      BY <1>3, RunNow DEF Opened
    <2>3. x.blind = run[r].blind /\ x.mute = run[r].mute
      BY RunNow DEF Opened, RunRecord
    <2> HIDE DEF x
    <2>4. Serially /\ status' = status
      BY <1>3 DEF Sole
    <2>5. /\ run'[r] = x /\ One' /\ InOrder'
          /\ \A q \in Runs : q # r => (Later(q) /\ Told(q) /\ Writing(q))'
          /\ status.status = "success" => status.run < r /\ run'[status.run] = run[status.run]
      BY <1>1, <2>1, <2>2, <2>4, Lone
    <2>6. /\ Later(r) /\ Saved
          /\ status.status = "success" => status.run < r /\ run[r].mute
      BY <1>1, <2>4 DEF Serially, Told
    <2>7. Saved' /\ Told(r)'
      BY <2>1, <2>3, <2>4, <2>5, <2>6, StatusRun DEF Saved, Told
    <2>8. Later(r)'
      BY <1>1, <2>1, <2>3, <2>4, <2>5, <2>6 DEF Later
    <2>9. Writing(r)'
      <3>1. <<>> = [k \in 1..(1 - 1) |-> r]
        OBVIOUS
      <3> QED BY <1>3, <2>1, <2>5, <3>1 DEF Writing
    <2> QED BY <2>5, <2>7, <2>8, <2>9 DEF Serially
  <1> QED
    BY <1>2, <1>3, Zenon DEF OpenFile

LEMMA WriteChunkSole ==
    ASSUME Types, Sole, NEW r \in Runs, WriteChunk(r) PROVE Sole'
  <1>1. Active(r) /\ run[r].pc = "write"
    BY DEF WriteChunk, Active
  <1> DEFINE k == run[r].next
             whole == [j \in 1..(IF k > Len(file) THEN k ELSE Len(file)) |->
                         IF j = k THEN r ELSE IF j <= Len(file) THEN file[j] ELSE HOLE]
  <1>2. CASE Fail(r, 1) /\ UNCHANGED file
    BY <1>1, <1>2, FailSole
  <1>3. CASE /\ file' = whole /\ run' = [run EXCEPT ![r].next = k + 1]
             /\ UNCHANGED <<status, clock, used>>
    <2> SUFFICES ASSUME ~used.overlap PROVE Serially'
      BY <1>3 DEF Sole
    <2> DEFINE x == Wrote(r)
    <2>1. /\ x \in RunRecord /\ x.pc = "write" /\ x.next = k + 1
          /\ x.scheduled = run[r].scheduled /\ x.manual = run[r].manual /\ k \in Nat \ {0}
      BY <1>1, WroteIs, RunNow
    <2>2. run' = [run EXCEPT ![r] = x]
      BY <1>3, RunNow DEF Wrote
    <2>3. x.blind = run[r].blind /\ x.mute = run[r].mute
      BY RunNow DEF Wrote, RunRecord
    <2> HIDE DEF x
    <2>4. Serially /\ status' = status
      BY <1>3 DEF Sole
    <2>5. /\ run'[r] = x /\ One' /\ InOrder'
          /\ \A q \in Runs : q # r => (Later(q) /\ Told(q) /\ Writing(q))'
          /\ status.status = "success" => status.run < r /\ run'[status.run] = run[status.run]
      BY <1>1, <2>1, <2>2, <2>4, Lone
    <2>6. /\ Later(r) /\ Saved /\ file = [j \in 1..(k - 1) |-> r]
          /\ status.status = "success" => status.run < r /\ run[r].mute
      BY <1>1, <2>4 DEF Serially, Told, Writing
    <2>7. Saved' /\ Told(r)'
      BY <2>1, <2>3, <2>4, <2>5, <2>6, StatusRun DEF Saved, Told
    <2>8. Later(r)'
      BY <1>1, <2>1, <2>3, <2>4, <2>5, <2>6 DEF Later
    <2>9. Writing(r)'
      <3>1. Len(file) = k - 1
        BY <2>1, <2>6
      <3>2. run'[r].next - 1 = k
        BY <2>1, <2>5
      <3> HIDE DEF k
      <3>3. (IF k > Len(file) THEN k ELSE Len(file)) = k
        BY <2>1, <3>1
      <3>4. \A j \in 1..k : (IF j = k THEN r ELSE IF j <= Len(file) THEN file[j] ELSE HOLE) = r
        BY <2>1, <2>6, <3>1
      <3>5. file' = [j \in 1..k |-> r]
        BY <1>3, <3>3, <3>4
      <3> QED BY <3>2, <3>5 DEF Writing
    <2> QED BY <2>5, <2>7, <2>8, <2>9 DEF Serially
  <1> QED
    BY <1>2, <1>3, Zenon DEF WriteChunk

LEMMA ReportSuccessSole ==
    ASSUME Types, Sole, NEW r \in Runs, ReportSuccess(r) PROVE Sole'
  <1> DEFINE x == At(r, "over")
             rep == Success(r)
  <1>1. /\ Active(r) /\ run[r].pc = "write" /\ file' = file
        /\ run[r].next > Chunks(r) /\ Tell(r, rep, x, 0) /\ 0 \in Nat
    BY DEF ReportSuccess, Active
  <1>2. /\ x \in RunRecord /\ x.pc = "over" /\ x.blind = run[r].blind /\ x.got = run[r].got
        /\ x.scheduled = run[r].scheduled /\ x.manual = run[r].manual
    BY AtIs DEF Pcs
  <1>3. rep.run = r
    BY SuccessIs
  <1> HIDE DEF x, rep
  <1>4. used'.overlap = used.overlap
    BY <1>1, <1>2, TellIs
  <1>5. PICK y \in RunRecord :
                 /\ run' = [run EXCEPT ![r] = y] /\ Like(y, x)
                 /\ \/ status' = rep
                    \/ status' = status /\ y.mute
    BY <1>1, <1>2, TellIs
  <1>6. /\ y.pc = "over" /\ y.blind = run[r].blind /\ y.got = run[r].got
        /\ y.scheduled = run[r].scheduled /\ y.manual = run[r].manual
    BY <1>2, <1>5 DEF Like
  <1>7. CASE status' = status /\ y.mute
    BY <1>1, <1>4, <1>5, <1>6, <1>7, NoWriting
  <1>8. CASE status' = rep
    <2> SUFFICES ASSUME ~used.overlap PROVE Serially'
      BY <1>4 DEF Sole
    <2>1. Serially
      BY DEF Sole
    <2>2. /\ run'[r] = y /\ One' /\ InOrder'
          /\ \A q \in Runs : q # r => (Later(q) /\ Told(q) /\ Writing(q))'
      BY <1>1, <1>3, <1>5, <1>6, <1>8, <2>1, Lone
    <2>3. (Later(r) /\ Told(r) /\ Writing(r))'
      BY <1>6, <2>2 DEF Later, Told, Writing, Active
    <2>4. run[r].next - 1 = Chunks(r)
      <3>1. run[r].next \in Nat /\ run[r].next <= Chunks(r) + 1 /\ Chunks(r) \in Nat
        BY <1>1, RunNow, ChunkNumber DEF Progress, Chunks
      <3> QED BY <1>1, <3>1
    <2>5. file = [k \in 1..Chunks(r) |-> r]
      BY <1>1, <2>1, <2>4 DEF Serially, Writing
    <2>6. Chunks(r)' = Chunks(r)
      BY <1>6, <2>2 DEF Chunks
    <2>7. Saved'
      BY <1>1, <1>3, <1>6, <1>8, <2>2, <2>5, <2>6 DEF Saved
    <2> QED BY <2>2, <2>3, <2>7 DEF Serially
  <1> QED
    BY <1>5, <1>7, <1>8

LEMMA CrashSole ==
    ASSUME Types, Sole, NEW r \in Runs, Crash(r) PROVE Sole'
  <1> DEFINE x == At(r, "dead")
  <1>1. Active(r) /\ status' = status /\ file' = file /\ run' = [run EXCEPT ![r] = x]
    BY RunNow DEF Crash, At
  <1>2. /\ x \in RunRecord /\ x.pc = "dead" /\ x.blind = run[r].blind /\ x.mute = run[r].mute
        /\ x.scheduled = run[r].scheduled /\ x.manual = run[r].manual
    BY AtIs DEF Pcs
  <1> HIDE DEF x
  <1>3. used'.overlap = used.overlap
    <2>1. UsedTypes /\ Trouble(1) /\ 1 \in Nat
      BY DEF Crash, Types
    <2> QED BY <2>1, TroubleTypes
  <1> QED
    BY <1>1, <1>2, <1>3, NoWriting

LEMMA InitSole == Init => Sole
  BY Bounds DEF Init, NeverRun, Sole, Serially, One, InOrder, Saved, Later, Told, Writing,
                Active, NoRun, Runs

LEMMA NextSole == Types /\ Sole /\ [Next]_vars => Sole'
  <1> SUFFICES ASSUME Types, Sole, [Next]_vars PROVE Sole'
    OBVIOUS
  <1>1. CASE RemoteChange
    BY <1>1, RemoteChangeSole
  <1>2. ASSUME NEW r \in Runs, Step(r) PROVE Sole'
    BY <1>2, ReportStartSole, FetchFirstSole, ProcessSole, OpenFileSole,
       WriteChunkSole, ReportSuccessSole, FetchPageSole, Zenon DEF Step
  <1>3. ASSUME NEW r \in Runs, Crash(r) PROVE Sole'
    BY <1>3, CrashSole
  <1>4. ASSUME NEW r \in Runs, NEW how \in Starts, Begin(r, how) PROVE Sole'
    BY <1>4, BeginSole
  <1>5. CASE UNCHANGED vars
    BY <1>5 DEF vars, Sole, Serially, One, InOrder, Saved, Later, Told, Writing, Active,
                Chunks
  <1> QED
    BY <1>1, <1>2, <1>3, <1>4, <1>5, Zenon DEF Next

-----------------------------------------------------------------------------
\* As long as runs do not overlap, a report of success means a whole file of
\* the run it reports, unless a later run lost every report: for any number of
\* runs, failures and crashes.
THEOREM SuccessIsSaved == Spec => []SuccessMeansSaved
  <1>1. Sole => SuccessMeansSaved
    BY DEF Sole, Serially, Saved, SuccessMeansSaved
  <1> QED
    BY <1>1, InitTypes, NextTypes, InitSole, NextSole, PTL DEF Spec

\* What TimesGoForward says of a step.
Forward ==
    ~used'.overlap =>
         \/ status'.scheduled >= status.scheduled /\ status'.manual >= status.manual
         \/ status'.run \in Runs /\ run'[status'.run].blind

\* A report of an active run that is not its success says the times it holds,
\* one of its success has a later one; those it holds are not before those of
\* the report, if it could read it.
LEMMA TellForward ==
    ASSUME Types, Sole, NEW r \in Runs, Active(r), NEW x \in RunRecord, NEW n \in Nat,
           NEW report, Tell(r, report, x, n), x.blind = run[r].blind, report.run = r,
           report.scheduled \in Nat, report.manual \in Nat,
           run[r].scheduled <= report.scheduled, run[r].manual <= report.manual
    PROVE  Forward
  <1>1. status.scheduled \in Nat /\ status.manual \in Nat
    BY DEF Types, ReportTypes, Status
  <1>2. used'.overlap = used.overlap
    BY TellIs
  <1>3. PICK y \in RunRecord :
                 /\ run' = [run EXCEPT ![r] = y] /\ Like(y, x)
                 /\ status' = report \/ status' = status
    BY TellIs
  <1>4. ASSUME ~used'.overlap
        PROVE  \/ run[r].blind
               \/ status.scheduled <= run[r].scheduled /\ status.manual <= run[r].manual
    BY <1>2, <1>4 DEF Sole, Serially, Later
  <1>5. run'[r] = y /\ y.blind = run[r].blind
    BY <1>3, RunNow DEF Like
  <1>6. CASE status' = status
    BY <1>1, <1>6 DEF Forward
  <1>7. CASE status' = report
    BY <1>1, <1>4, <1>5, <1>7, RunNow DEF Forward
  <1> QED
    BY <1>3, <1>6, <1>7

\* So does a report that the run goes on, or that it failed.
LEMMA ReportForward ==
    ASSUME Types, Sole, NEW r \in Runs, Active(r), NEW x \in RunRecord, NEW n \in Nat,
           NEW st \in {"running", "failed"}, NEW t \in Nat, Tell(r, Report(r, st, t), x, n),
           x.blind = run[r].blind
    PROVE  Forward
  <1> DEFINE rep == Report(r, st, t)
  <1>1. rep.run = r /\ rep.scheduled = run[r].scheduled /\ rep.manual = run[r].manual
    BY DEF Report
  <1>2. Tell(r, rep, x, n)
    OBVIOUS
  <1> HIDE DEF rep
  <1> QED
    BY <1>1, <1>2, RunNow, TellForward

LEMMA FailForward ==
    ASSUME Types, Sole, NEW r \in Runs, Active(r), NEW n \in Nat, Fail(r, n)
    PROVE  Forward
  <1> DEFINE x == At(r, "over")
  <1>1. x \in RunRecord /\ x.blind = run[r].blind
    BY AtIs DEF Pcs
  <1>2. Tell(r, Report(r, "failed", clock + 1), x, n) /\ clock + 1 \in Nat
    BY RunNow DEF Fail
  <1> HIDE DEF x
  <1> QED
    BY <1>1, <1>2, ReportForward

LEMMA AtForward ==
    ASSUME Types, Sole, NEW r \in Runs, Active(r), NEW p \in Pcs, Running(r, At(r, p), 0)
    PROVE  Forward
  <1> DEFINE x == At(r, p)
  <1>1. x \in RunRecord /\ x.blind = run[r].blind
    BY AtIs
  <1>2. Tell(r, Report(r, "running", 0), x, 0) /\ 0 \in Nat
    BY DEF Running
  <1> HIDE DEF x
  <1> QED
    BY <1>1, <1>2, ReportForward

LEMMA SuccessForward ==
    ASSUME Types, Sole, NEW r \in Runs, ReportSuccess(r) PROVE Forward
  <1> DEFINE x == At(r, "over")
             rep == Success(r)
  <1>1. x \in RunRecord /\ x.blind = run[r].blind
    BY AtIs DEF Pcs
  <1>2. Active(r) /\ run[r].pc = "write" /\ Tell(r, rep, x, 0) /\ 0 \in Nat
    BY DEF ReportSuccess, Active
  <1>3. run[r].scheduled <= run[r].finished /\ run[r].manual <= run[r].finished
    BY <1>2, RunNow DEF Progress
  <1>4. /\ rep.run = r /\ rep \in Status
        /\ rep.scheduled \in {run[r].scheduled, run[r].finished}
        /\ rep.manual \in {run[r].manual, run[r].finished}
    BY SuccessIs
  <1> HIDE DEF x, rep
  <1>5. /\ rep.scheduled \in Nat /\ rep.manual \in Nat
        /\ run[r].scheduled <= rep.scheduled /\ run[r].manual <= rep.manual
    BY <1>3, <1>4, RunNow
  <1> QED
    BY <1>1, <1>2, <1>4, <1>5, TellForward

LEMMA FetchPageForward ==
    ASSUME Types, Sole, NEW r \in Runs, NEW p \in 2..PageCount(Cardinality(Entries)),
           FetchPage(r, p)
    PROVE  Forward
  <1>1. PICK some \in Seq(Entries), n \in Nat : Running(r, Fetched(r, p, some), n)
    BY FetchPageIs, RunNow
  <1> DEFINE x == Fetched(r, p, some)
  <1>2. x \in RunRecord /\ x.blind = run[r].blind
    BY FetchedIs
  <1>3. Tell(r, Report(r, "running", 0), x, n) /\ 0 \in Nat /\ Active(r)
    BY <1>1 DEF Running, FetchPage, Active
  <1> HIDE DEF x
  <1> QED
    BY <1>2, <1>3, ReportForward

LEMMA StepForward ==
    ASSUME Types, Sole, NEW r \in Runs, Step(r) PROVE Forward
  <1>1. Active(r)
    BY DEF Step, ReportStart, FetchFirst, Process, OpenFile, WriteChunk, ReportSuccess,
           FetchPage, Active
  <1>2. UNCHANGED status => Forward
    <2>1. status.scheduled \in Nat /\ status.manual \in Nat
      BY DEF Types, ReportTypes, Status
    <2> QED BY <2>1 DEF Forward
  <1>3. CASE ReportStart(r)
    BY <1>1, <1>3, AtForward DEF ReportStart, Pcs
  <1>4. CASE FetchFirst(r)
    BY <1>1, <1>2, <1>4, FailForward DEF FetchFirst
  <1>5. CASE Process(r)
    BY <1>1, <1>5, FailForward, AtForward DEF Process, Pcs
  <1>6. CASE OpenFile(r)
    <2>1. UNCHANGED status \/ \E n \in Nat : Fail(r, n)
      <3>1. (IF Accepts(run[r].total, Len(run[r].got)) THEN 1 ELSE 0) \in Nat
        OBVIOUS
      <3> QED BY <1>6, <3>1, Zenon DEF OpenFile
    <2> QED BY <1>1, <1>2, <2>1, FailForward
  <1>7. CASE WriteChunk(r)
    <2>1. UNCHANGED status \/ Fail(r, 1)
      BY <1>7, Zenon DEF WriteChunk
    <2> QED BY <1>1, <1>2, <2>1, FailForward
  <1> QED
    BY <1>3, <1>4, <1>5, <1>6, <1>7, SuccessForward, FetchPageForward, Zenon DEF Step

LEMMA NextForward == Types /\ Sole /\ [Next]_vars => [Forward]_<<status, used, run>>
  <1> SUFFICES ASSUME Types, Sole, [Next]_vars
               PROVE  Forward \/ UNCHANGED <<status, used, run>>
    OBVIOUS
  <1>1. status.scheduled \in Nat /\ status.manual \in Nat
    BY DEF Types, ReportTypes, Status
  <1>2. UNCHANGED status => Forward
    BY <1>1 DEF Forward
  <1>3. CASE RemoteChange
    BY <1>2, <1>3 DEF RemoteChange
  <1>4. ASSUME NEW r \in Runs, Step(r) PROVE Forward
    BY <1>4, StepForward
  <1>5. ASSUME NEW r \in Runs, Crash(r) PROVE Forward
    BY <1>2, <1>5 DEF Crash
  <1>6. ASSUME NEW r \in Runs, NEW how \in Starts, Begin(r, how) PROVE Forward
    BY <1>2, <1>6 DEF Begin
  <1>7. CASE UNCHANGED vars
    BY <1>7 DEF vars
  <1> QED
    BY <1>3, <1>4, <1>5, <1>6, <1>7, Zenon DEF Next

\* As long as runs do not overlap, the times of the last automatic and of the
\* last manual update never go back, whatever fails or crashes and whatever
\* reports are lost, but by a run that could not read the report before it.
THEOREM UpdatesGoForward == Spec => TimesGoForward
  <1>1. Types /\ Sole /\ [Next]_vars
            => [~used'.overlap =>
                  \/ status'.scheduled >= status.scheduled /\ status'.manual >= status.manual
                  \/ status'.run \in Runs /\ run'[status'.run].blind]_<<status, used, run>>
    BY NextForward DEF Forward
  <1> QED
    BY <1>1, InitTypes, NextTypes, InitSole, NextSole, PTL DEF Spec, TimesGoForward

-----------------------------------------------------------------------------
(* A run during which the list did not change.  What it fetched comes from   *)
(* pages it has not left to fetch, so that the next page brings nothing it   *)
(* has; what it fetched and the list then differ by a number of entries.     *)

OnPage(j, p) == (p - 1) * PageSize < j /\ j <= p * PageSize

LEMMA OnePage ==
    ASSUME NEW j \in Nat, NEW p \in Nat \ {0}, NEW q \in Nat \ {0}, OnPage(j, p), OnPage(j, q)
    PROVE  p = q
  <1>1. \A x, y \in Nat : x <= y => x * PageSize <= y * PageSize
    BY Bounds
  <1>2. p - 1 \in Nat /\ q - 1 \in Nat
    OBVIOUS
  <1>3. /\ p * PageSize \in Nat /\ q * PageSize \in Nat
        /\ (p - 1) * PageSize \in Nat /\ (q - 1) * PageSize \in Nat
    BY <1>2, Bounds
  <1>4. ~(p < q)
    <2> SUFFICES ASSUME p < q PROVE FALSE
      OBVIOUS
    <2>1. p * PageSize <= (q - 1) * PageSize
      BY <1>1, <1>2
    <2> QED BY <1>3, <2>1 DEF OnPage
  <1>5. ~(q < p)
    <2> SUFFICES ASSUME q < p PROVE FALSE
      OBVIOUS
    <2>1. q * PageSize <= (p - 1) * PageSize
      BY <1>1, <1>2
    <2> QED BY <1>3, <2>1 DEF OnPage
  <1> QED
    BY <1>4, <1>5

\* The entries of a page are entries of the list, each at its place on the page.
LEMMA PageIs ==
    ASSUME NEW p \in Nat \ {0}, RemoteTypes
    PROVE  /\ PageOf(p) \in Seq(Entries) /\ Distinct(PageOf(p))
           /\ \A i \in 1..Len(PageOf(p)) :
                 \E j \in 1..Len(remote) : PageOf(p)[i] = remote[j] /\ OnPage(j, p)
  <1> DEFINE m == (p - 1) * PageSize + 1
             n == IF p * PageSize < Len(remote) THEN p * PageSize ELSE Len(remote)
             g == SubSeq(remote, m, n)
  <1>1. m \in Nat /\ m >= 1 /\ m > (p - 1) * PageSize
    BY Bounds
  <1>2. n \in Nat /\ n <= Len(remote) /\ n <= p * PageSize
    BY Bounds DEF RemoteTypes
  <1>3. (p - 1) * PageSize \in Nat /\ p * PageSize \in Nat
    BY Bounds
  <1>4. PageOf(p) = g
    BY DEF PageOf
  <1> HIDE DEF m, n
  <1>5. \A i \in m..n : remote[i] \in Entries /\ i \in 1..Len(remote) /\ OnPage(i, p)
    BY <1>1, <1>2, <1>3 DEF RemoteTypes, OnPage
  <1>6. /\ g \in Seq(Entries) /\ Len(g) = IF m <= n THEN n - m + 1 ELSE 0
        /\ \A i \in 1..(n - m + 1) : g[i] = remote[m + i - 1]
    BY <1>1, <1>2, <1>5, SubSeqProperties
  <1> HIDE DEF g
  <1>7. \A i \in 1..Len(g) : m + i - 1 \in m..n /\ g[i] = remote[m + i - 1]
    BY <1>1, <1>2, <1>6
  <1>8. Distinct(g)
    <2> SUFFICES ASSUME NEW i \in 1..Len(g), NEW k \in 1..Len(g), g[i] = g[k] PROVE i = k
      BY DEF Distinct
    <2>1. m + i - 1 \in 1..Len(remote) /\ m + k - 1 \in 1..Len(remote)
      BY <1>5, <1>7
    <2>2. m + i - 1 = m + k - 1
      BY <1>7, <2>1 DEF RemoteTypes, Distinct
    <2>3. i \in Nat /\ k \in Nat
      BY <1>6
    <2> QED BY <1>1, <2>2, <2>3
  <1> QED
    BY <1>4, <1>5, <1>6, <1>7, <1>8

\* Two lists without duplicates that share no entry, one after the other.
LEMMA Joined ==
    ASSUME NEW s \in Seq(Entries), NEW t \in Seq(Entries), Distinct(s), Distinct(t),
           \A i \in 1..Len(s), k \in 1..Len(t) : s[i] # t[k]
    PROVE  /\ s \o t \in Seq(Entries) /\ Distinct(s \o t)
           /\ \A i \in 1..Len(s \o t) : \/ \E k \in 1..Len(s) : (s \o t)[i] = s[k]
                                        \/ \E k \in 1..Len(t) : (s \o t)[i] = t[k]
  <1>1. /\ s \o t \in Seq(Entries) /\ Len(s \o t) = Len(s) + Len(t)
        /\ \A i \in 1..(Len(s) + Len(t)) :
              (s \o t)[i] = IF i <= Len(s) THEN s[i] ELSE t[i - Len(s)]
    BY ConcatProperties
  <1>2. Len(s) \in Nat /\ Len(t) \in Nat
    OBVIOUS
  <1>3. \A i \in 1..(Len(s) + Len(t)) : /\ i <= Len(s) => i \in 1..Len(s)
                                        /\ ~(i <= Len(s)) => i - Len(s) \in 1..Len(t)
    BY <1>2
  <1>4. Distinct(s \o t)
    <2> SUFFICES ASSUME NEW i \in 1..(Len(s) + Len(t)), NEW j \in 1..(Len(s) + Len(t)),
                        (s \o t)[i] = (s \o t)[j]
                 PROVE  i = j
      BY <1>1 DEF Distinct
    <2>1. CASE i <= Len(s) /\ j <= Len(s)
      BY <1>1, <1>3, <2>1 DEF Distinct
    <2>2. CASE ~(i <= Len(s)) /\ ~(j <= Len(s))
      <3>1. i - Len(s) = j - Len(s)
        BY <1>1, <1>3, <2>2 DEF Distinct
      <3> QED BY <1>2, <3>1
    <2>3. CASE i <= Len(s) /\ ~(j <= Len(s))
      BY <1>1, <1>3, <2>3
    <2>4. CASE ~(i <= Len(s)) /\ j <= Len(s)
      <3>1. (s \o t)[i] = t[i - Len(s)] /\ (s \o t)[j] = s[j]
        BY <1>1, <2>4
      <3> QED BY <1>3, <2>4, <3>1
    <2> QED BY <2>1, <2>2, <2>3, <2>4
  <1> QED
    BY <1>1, <1>3, <1>4

\* As many entries of the list are missing as it is longer than what was fetched.
LEMMA MissingCount ==
    ASSUME NEW s \in Seq(Entries), NEW t \in Seq(Entries), Distinct(s), Distinct(t),
           \A i \in 1..Len(t) : \E j \in 1..Len(s) : t[i] = s[j]
    PROVE  Cardinality(ToSet(s) \ ToSet(t)) = Len(s) - Len(t)
  <1>1. \A u \in Seq(Entries) : Distinct(u) =>
            IsFiniteSet(ToSet(u)) /\ Cardinality(ToSet(u)) = Len(u)
    <2> SUFFICES ASSUME NEW u \in Seq(Entries), Distinct(u)
                 PROVE  IsFiniteSet(ToSet(u)) /\ Cardinality(ToSet(u)) = Len(u)
      OBVIOUS
    <2>1. DOMAIN u = 1..Len(u) /\ Len(u) \in Nat
      OBVIOUS
    <2>2. u \in [1..Len(u) -> ToSet(u)] /\ \A e \in ToSet(u) : \E i \in 1..Len(u) : u[i] = e
      BY <2>1 DEF ToSet
    <2>3. u \in Bijection(1..Len(u), ToSet(u))
      BY <2>1, <2>2 DEF Bijection, Injection, Surjection, IsInjective, Distinct
    <2>4. IsFiniteSet(1..Len(u)) /\ Cardinality(1..Len(u)) = Len(u)
      <3>1. 1 \in Int /\ Len(u) \in Int
        BY <2>1
      <3>2. /\ IsFiniteSet(1..Len(u))
            /\ Cardinality(1..Len(u)) = IF 1 > Len(u) THEN 0 ELSE Len(u) - 1 + 1
        BY <3>1, FS_Interval, Zenon
      <3> QED BY <2>1, <3>2
    <2>5. ExistsBijection(1..Len(u), ToSet(u))
      BY <2>3 DEF ExistsBijection
    <2> QED BY <2>4, <2>5, FS_Bijection
  <1>2. /\ IsFiniteSet(ToSet(s)) /\ Cardinality(ToSet(s)) = Len(s)
        /\ Cardinality(ToSet(t)) = Len(t)
    BY <1>1
  <1>3. ToSet(s) \cap ToSet(t) = ToSet(t)
    BY DEF ToSet
  <1>4. Cardinality(ToSet(s) \ ToSet(t))
            = Cardinality(ToSet(s)) - Cardinality(ToSet(s) \cap ToSet(t))
    BY <1>2, FS_Difference
  <1> QED
    BY <1>2, <1>3, <1>4

Fetching == {"pages", "save", "write"}

\* What a run fetched of a list that did not change since.
CalmRun(x) ==
    /\ x.total = Len(remote) /\ Distinct(x.got)
    /\ \A i \in 1..Len(x.got) : \E j \in 1..Len(remote) :
          x.got[i] = remote[j] /\ \A p \in x.todo : ~OnPage(j, p)
    /\ x.pc = "write" => Accepts(x.total, Len(x.got))

Calm == \A r \in Runs : run[r].calm /\ run[r].pc \in Fetching => CalmRun(run[r])

\* A step of one run, while the list stays.
LEMMA CalmStep ==
    ASSUME Types, Calm, NEW r \in Runs, NEW x \in RunRecord, run' = [run EXCEPT ![r] = x],
           UNCHANGED remote, x.calm /\ x.pc \in Fetching => CalmRun(x)
    PROVE  Calm'
  <1>1. run'[r] = x /\ \A q \in Runs : q # r => run'[q] = run[q]
    BY RunNow
  <1>2. \A y : CalmRun(y) => CalmRun(y)'
    BY DEF CalmRun
  <1>3. ASSUME NEW q \in Runs, run'[q].calm, run'[q].pc \in Fetching
        PROVE  CalmRun(run[q])'
    <2>1. CASE q = r
      BY <1>1, <1>2, <1>3, <2>1
    <2>2. CASE q # r
      <3>1. run'[q] = run[q] /\ CalmRun(run[q])
        BY <1>1, <1>3, <2>2 DEF Calm
      <3> QED BY <1>2, <3>1
    <2> QED BY <2>1, <2>2
  <1> QED
    BY <1>3 DEF Calm

\* A run that fetches nothing more, as one that fetched it already.
LEMMA CalmKept ==
    ASSUME Types, Calm, NEW r \in Runs, NEW x \in RunRecord, run' = [run EXCEPT ![r] = x],
           UNCHANGED remote, x.calm = run[r].calm, x.total = run[r].total, x.got = run[r].got,
           x.todo \subseteq run[r].todo,
           x.pc \in Fetching => run[r].pc \in Fetching,
           x.pc = "write" => run[r].pc = "write" \/ Accepts(x.total, Len(x.got))
    PROVE  Calm'
  <1>1. run[r].calm /\ run[r].pc \in Fetching => CalmRun(run[r])
    BY DEF Calm
  <1>2. x.calm /\ x.pc \in Fetching => CalmRun(x)
    BY <1>1 DEF CalmRun
  <1> QED
    BY <1>2, CalmStep

\* So is one that reports, whether or not the report is written.
LEMMA TellCalm ==
    ASSUME Types, Calm, NEW r \in Runs, NEW x \in RunRecord, NEW n \in Nat, NEW report,
           Tell(r, report, x, n), UNCHANGED remote,
           x.calm /\ x.pc \in Fetching => CalmRun(x)
    PROVE  Calm'
  <1>1. PICK y \in RunRecord : run' = [run EXCEPT ![r] = y] /\ Like(y, x)
    BY TellIs
  <1>2. y.calm /\ y.pc \in Fetching => CalmRun(y)
    BY <1>1 DEF Like, CalmRun
  <1> QED
    BY <1>1, <1>2, CalmStep

LEMMA AtCalm ==
    ASSUME Types, Calm, NEW r \in Runs, NEW p \in Pcs, p # "write",
           p \in Fetching => run[r].pc \in Fetching
    PROVE  /\ At(r, p) \in RunRecord
           /\ At(r, p).calm /\ At(r, p).pc \in Fetching => CalmRun(At(r, p))
  <1>1. run[r].calm /\ run[r].pc \in Fetching => CalmRun(run[r])
    BY DEF Calm
  <1> QED
    BY <1>1, AtIs DEF CalmRun

LEMMA GotoCalm ==
    ASSUME Types, Calm, NEW r \in Runs, NEW p \in Pcs, NEW n \in Nat, NEW report,
           Tell(r, report, At(r, p), n), UNCHANGED remote,
           p # "write", p \in Fetching => run[r].pc \in Fetching
    PROVE  Calm'
  <1> DEFINE x == At(r, p)
  <1>1. x \in RunRecord /\ (x.calm /\ x.pc \in Fetching => CalmRun(x))
    BY AtCalm
  <1>2. Tell(r, report, x, n)
    OBVIOUS
  <1> HIDE DEF x
  <1> QED
    BY <1>1, <1>2, TellCalm

LEMMA FailCalm ==
    ASSUME Types, Calm, NEW r \in Runs, NEW n \in Nat, Fail(r, n), UNCHANGED remote
    PROVE  Calm'
  BY GotoCalm DEF Fail, Pcs, Fetching

LEMMA RemoteChangeCalm == Types /\ Calm /\ RemoteChange => Calm'
  <1> SUFFICES ASSUME Types, RemoteChange, NEW r \in Runs, run'[r].pc \in Fetching
               PROVE  ~run'[r].calm
    BY DEF Calm
  <1> DEFINE b == run[r].calm /\ ~Active(r)
  <1>1. run[r] \in RunRecord /\ run'[r] = [run[r] EXCEPT !.calm = b] /\ b \in BOOLEAN
    BY RunNow DEF RemoteChange
  <1>2. b => ~Active(r)
    OBVIOUS
  <1> HIDE DEF b
  <1>3. run'[r].calm = b /\ run'[r].pc = run[r].pc
    BY <1>1 DEF RunRecord
  <1>4. Active(r)
    BY <1>3 DEF Active, Fetching
  <1> QED
    BY <1>2, <1>3, <1>4

LEMMA BeginCalm ==
    ASSUME Types, Calm, NEW r \in Runs, NEW how \in Starts, Begin(r, how)
    PROVE  Calm'
  <1>1. PICK x \in RunRecord : run' = [run EXCEPT ![r] = x] /\ x.pc = "start"
    BY BeginIs
  <1>2. UNCHANGED remote /\ x.pc \notin Fetching
    BY <1>1 DEF Begin, Fetching
  <1> QED
    BY <1>1, <1>2, CalmStep

LEMMA FetchFirstCalm ==
    ASSUME Types, Calm, NEW r \in Runs, FetchFirst(r) PROVE Calm'
  <1>1. run[r].pc = "first" /\ UNCHANGED remote
    BY DEF FetchFirst
  <1>2. CASE Fail(r, 1)
    BY <1>1, <1>2, FailCalm
  <1>3. CASE run' = [run EXCEPT ![r].pc = "pages", ![r].total = Len(remote),
                                ![r].got = PageOf(1), ![r].todo = 2..PageCount(Len(remote))]
    <2>1. run' = [run EXCEPT ![r] = Listed(r)]
      BY <1>3, RunNow DEF Listed
    <2>2. Listed(r) \in RunRecord
      BY <1>1, ListedIs
    <2>3. /\ Listed(r).total = Len(remote) /\ Listed(r).got = PageOf(1)
          /\ Listed(r).todo = 2..PageCount(Len(remote)) /\ Listed(r).pc = "pages"
      BY RunNow DEF Listed, RunRecord
    <2>4. RemoteTypes /\ 1 \in Nat \ {0}
      BY DEF Types
    <2>5. /\ Distinct(PageOf(1))
          /\ \A i \in 1..Len(PageOf(1)) :
                \E j \in 1..Len(remote) : PageOf(1)[i] = remote[j] /\ OnPage(j, 1)
      BY <2>4, PageIs
    <2>6. \A j \in 1..Len(remote) : OnPage(j, 1) =>
             \A p \in 2..PageCount(Len(remote)) : ~OnPage(j, p)
      <3> SUFFICES ASSUME NEW j \in 1..Len(remote), OnPage(j, 1),
                          NEW p \in 2..PageCount(Len(remote)), OnPage(j, p)
                   PROVE  FALSE
        OBVIOUS
      <3>1. p \in Nat \ {0} /\ p # 1
        BY <2>4, PageNumber
      <3>2. j \in Nat
        BY <2>4 DEF RemoteTypes
      <3> QED BY <2>4, <3>1, <3>2, OnePage
    <2>7. CalmRun(Listed(r))
      BY <2>3, <2>5, <2>6 DEF CalmRun
    <2> QED BY <1>1, <2>1, <2>2, <2>7, CalmStep
  <1> QED
    BY <1>2, <1>3 DEF FetchFirst

LEMMA FetchPageCalm ==
    ASSUME Types, Calm, NEW r \in Runs, NEW p \in 2..PageCount(Cardinality(Entries)),
           FetchPage(r, p)
    PROVE  Calm'
  <1>1. run[r].pc = "pages" /\ UNCHANGED remote /\ p \in run[r].todo /\ RemoteTypes
    BY DEF FetchPage, Types
  <1>2. p \in Nat \ {0} /\ run[r].todo \subseteq Nat \ {0}
    BY PageNumber, RunNow DEF PageNumbers
  <1>3. PICK some \in {run[r].got, run[r].got \o PageOf(p)}, n \in Nat :
                 Running(r, Fetched(r, p, some), n)
    BY FetchPageIs
  <1>4. CASE some = run[r].got
    <2> DEFINE x == Fetched(r, p, some)
    <2>1. /\ x \in RunRecord /\ x.got = run[r].got /\ x.todo = run[r].todo \ {p}
          /\ x.total = run[r].total /\ x.calm = run[r].calm /\ x.pc = "pages"
      BY <1>1, <1>4, FetchedIs, RunNow
    <2>2. Tell(r, Report(r, "running", 0), x, n)
      BY <1>3 DEF Running
    <2> HIDE DEF x
    <2>3. x.calm => CalmRun(run[r])
      BY <1>1, <2>1 DEF Calm, Fetching
    <2>4. CalmRun(run[r]) => CalmRun(x)
      BY <2>1 DEF CalmRun
    <2> QED BY <1>1, <2>1, <2>2, <2>3, <2>4, TellCalm
  <1>5. CASE some = run[r].got \o PageOf(p)
    <2> DEFINE s == run[r].got
               t == PageOf(p)
               x == Fetched(r, p, s \o t)
    <2>1. /\ t \in Seq(Entries) /\ Distinct(t)
          /\ \A i \in 1..Len(t) : \E j \in 1..Len(remote) : t[i] = remote[j] /\ OnPage(j, p)
      BY <1>1, <1>2, PageIs
    <2>2. s \in Seq(Entries) /\ s \o t \in Seq(Entries)
      BY <2>1, RunNow, ConcatProperties
    <2>3. Tell(r, Report(r, "running", 0), x, n)
      BY <1>3, <1>5 DEF Running
    <2>4. /\ x \in RunRecord /\ x.got = s \o t /\ x.todo = run[r].todo \ {p}
          /\ x.total = run[r].total /\ x.calm = run[r].calm /\ x.pc = "pages"
      <3> DEFINE u == s \o t
      <3>1. u \in Seq(Entries)
        BY <2>2
      <3> HIDE DEF u
      <3>2. /\ Fetched(r, p, u) \in RunRecord /\ Fetched(r, p, u).got = u
            /\ Fetched(r, p, u).todo = run[r].todo \ {p}
            /\ Fetched(r, p, u).total = run[r].total
            /\ Fetched(r, p, u).calm = run[r].calm /\ Fetched(r, p, u).pc = "pages"
        BY <1>1, <3>1, FetchedIs
      <3> QED BY <3>2 DEF u
    <2>5. ASSUME run[r].calm
          PROVE  /\ run[r].total = Len(remote) /\ Distinct(s)
                 /\ \A i \in 1..Len(s) : \E j \in 1..Len(remote) :
                       s[i] = remote[j] /\ \A q \in run[r].todo : ~OnPage(j, q)
      BY <1>1, <2>5 DEF Calm, CalmRun, Fetching
    <2> HIDE DEF s, t, x
    <2>6. ASSUME run[r].calm PROVE CalmRun(x)
      <3>1. \A i \in 1..Len(s), k \in 1..Len(t) : s[i] # t[k]
        <4> SUFFICES ASSUME NEW i \in 1..Len(s), NEW k \in 1..Len(t), s[i] = t[k]
                     PROVE  FALSE
          OBVIOUS
        <4>1. PICK j \in 1..Len(remote) : s[i] = remote[j] /\ ~OnPage(j, p)
          BY <1>1, <2>5, <2>6
        <4>2. PICK m \in 1..Len(remote) : t[k] = remote[m] /\ OnPage(m, p)
          BY <2>1
        <4>3. j = m
          BY <1>1, <4>1, <4>2 DEF RemoteTypes, Distinct
        <4> QED BY <4>1, <4>2, <4>3
      <3>2. /\ Distinct(s \o t)
            /\ \A i \in 1..Len(s \o t) : \/ \E k \in 1..Len(s) : (s \o t)[i] = s[k]
                                         \/ \E k \in 1..Len(t) : (s \o t)[i] = t[k]
        BY <2>1, <2>2, <2>5, <2>6, <3>1, Joined
      <3>3. \A j \in 1..Len(remote) : OnPage(j, p) =>
               \A q \in run[r].todo \ {p} : ~OnPage(j, q)
        BY <1>1, <1>2, OnePage DEF RemoteTypes
      <3>4. ASSUME NEW i \in 1..Len(s \o t)
            PROVE  \E j \in 1..Len(remote) :
                      (s \o t)[i] = remote[j] /\ \A q \in run[r].todo \ {p} : ~OnPage(j, q)
        <4>1. ASSUME NEW k \in 1..Len(s), (s \o t)[i] = s[k]
              PROVE  \E j \in 1..Len(remote) :
                        (s \o t)[i] = remote[j] /\ \A q \in run[r].todo \ {p} : ~OnPage(j, q)
          BY <2>5, <2>6, <4>1
        <4>2. ASSUME NEW k \in 1..Len(t), (s \o t)[i] = t[k]
              PROVE  \E j \in 1..Len(remote) :
                        (s \o t)[i] = remote[j] /\ \A q \in run[r].todo \ {p} : ~OnPage(j, q)
          BY <2>1, <3>3, <4>2
        <4> QED BY <3>2, <4>1, <4>2
      <3>5. x.total = Len(remote) /\ x.pc # "write"
        BY <2>4, <2>5, <2>6
      <3> QED BY <2>4, <3>2, <3>4, <3>5 DEF CalmRun
    <2> QED BY <1>1, <2>3, <2>4, <2>6, TellCalm
  <1> QED
    BY <1>3, <1>4, <1>5

LEMMA OpenFileCalm ==
    ASSUME Types, Calm, NEW r \in Runs, OpenFile(r) PROVE Calm'
  <1>1. UNCHANGED remote /\ run[r].pc = "save"
    BY DEF OpenFile
  <1>2. CASE Fail(r, IF Accepts(run[r].total, Len(run[r].got)) THEN 1 ELSE 0)
    <2>1. (IF Accepts(run[r].total, Len(run[r].got)) THEN 1 ELSE 0) \in Nat
      OBVIOUS
    <2> QED BY <1>1, <1>2, <2>1, FailCalm
  <1>3. CASE /\ Accepts(run[r].total, Len(run[r].got))
             /\ run' = [run EXCEPT ![r].pc = "write", ![r].finished = clock + 1]
    <2> DEFINE x == Opened(r)
    <2>1. run' = [run EXCEPT ![r] = x]
      BY <1>3, RunNow DEF Opened
    <2>2. x \in RunRecord
      BY <1>1, OpenedIs
    <2>3. /\ x.pc = "write" /\ x.got = run[r].got /\ x.todo = run[r].todo
          /\ x.calm = run[r].calm /\ x.total = run[r].total
      BY RunNow DEF Opened, RunRecord
    <2> HIDE DEF x
    <2>4. Accepts(x.total, Len(x.got))
      BY <1>3, <2>3
    <2> QED BY <1>1, <2>1, <2>2, <2>3, <2>4, CalmKept DEF Fetching
  <1> QED
    BY <1>2, <1>3, Zenon DEF OpenFile

LEMMA ChunkCalm ==
    ASSUME Types, Calm, NEW r \in Runs, WriteChunk(r), ~Fail(r, 1) PROVE Calm'
  <1> DEFINE x == Wrote(r)
  <1>1. /\ x \in RunRecord /\ x.pc = "write" /\ x.got = run[r].got /\ x.todo = run[r].todo
        /\ x.calm = run[r].calm /\ x.total = run[r].total /\ run[r].pc = "write"
    BY WroteIs, RunNow DEF Wrote, RunRecord, WriteChunk
  <1>2. run' = [run EXCEPT ![r] = x] /\ UNCHANGED remote
    BY RunNow DEF WriteChunk, Wrote
  <1> HIDE DEF x
  <1> QED
    BY <1>1, <1>2, CalmKept

LEMMA StepCalm ==
    ASSUME Types, Calm, NEW r \in Runs, Step(r) PROVE Calm'
  <1>1. CASE ReportStart(r)
    BY <1>1, GotoCalm DEF ReportStart, Running, Pcs, Fetching
  <1>2. CASE Process(r)
    <2>1. CASE Fail(r, 1)
      BY <1>2, <2>1, FailCalm DEF Process
    <2>2. CASE Running(r, At(r, "save"), 0)
      BY <1>2, <2>2, GotoCalm DEF Process, Running, Pcs, Fetching
    <2> QED BY <1>2, <2>1, <2>2, Zenon DEF Process
  <1>3. CASE ReportSuccess(r)
    BY <1>3, GotoCalm DEF ReportSuccess, Pcs, Fetching
  <1>4. CASE WriteChunk(r)
    <2>1. UNCHANGED remote
      BY <1>4 DEF WriteChunk
    <2> QED BY <1>4, <2>1, FailCalm, ChunkCalm
  <1> QED
    BY <1>1, <1>2, <1>3, <1>4, FetchFirstCalm, FetchPageCalm, OpenFileCalm, Zenon DEF Step

LEMMA NextCalm == Types /\ Calm /\ [Next]_vars => Calm'
  <1> SUFFICES ASSUME Types, Calm, [Next]_vars PROVE Calm'
    OBVIOUS
  <1>1. CASE RemoteChange
    BY <1>1, RemoteChangeCalm
  <1>2. ASSUME NEW r \in Runs, Step(r) PROVE Calm'
    BY <1>2, StepCalm
  <1>3. ASSUME NEW r \in Runs, Crash(r) PROVE Calm'
    <2> DEFINE x == At(r, "dead")
    <2>1. x \in RunRecord /\ x.pc = "dead" /\ x.pc \notin Fetching
      BY AtIs DEF Pcs, Fetching
    <2>2. run' = [run EXCEPT ![r] = x] /\ UNCHANGED remote
      BY <1>3, RunNow DEF Crash, At
    <2> HIDE DEF x
    <2> QED BY <2>1, <2>2, CalmStep
  <1>4. ASSUME NEW r \in Runs, NEW how \in Starts, Begin(r, how) PROVE Calm'
    BY <1>4, BeginCalm
  <1>5. CASE UNCHANGED vars
    BY <1>5 DEF vars, Calm, CalmRun
  <1> QED
    BY <1>1, <1>2, <1>3, <1>4, <1>5, Zenon DEF Next

\* A list that did not change while it was fetched is saved with no duplicate
\* and at most one entry missing, for any page size, whatever pages failed and
\* however many other runs there are.
THEOREM ListIsSaved == Spec => []NearlyAllSaved
  <1>1. Init => Calm
    BY DEF Init, NoRun, Calm, Fetching
  <1>2. ASSUME Types, Calm PROVE NearlyAllSaved
    <2> SUFFICES ASSUME NEW r \in Runs, run[r].pc = "write", run[r].calm
                 PROVE  /\ IsInjective(run[r].got)
                        /\ Cardinality(ToSet(remote) \ ToSet(run[r].got)) <= 1
      BY DEF NearlyAllSaved
    <2> DEFINE g == run[r].got
    <2>1. CalmRun(run[r]) /\ g \in Seq(Entries) /\ RemoteTypes
      BY <1>2, RunNow DEF Calm, Fetching, Types
    <2>2. /\ Distinct(g) /\ Accepts(Len(remote), Len(g))
          /\ \A i \in 1..Len(g) : \E j \in 1..Len(remote) : g[i] = remote[j]
      BY <2>1 DEF CalmRun
    <2> HIDE DEF g
    <2>3. IsInjective(g)
      BY <2>1, <2>2 DEF IsInjective, Distinct
    <2>4. Cardinality(ToSet(remote) \ ToSet(g)) = Len(remote) - Len(g)
      BY <2>1, <2>2, MissingCount DEF RemoteTypes
    <2>5. Len(g) - Len(remote) \in -1..1 /\ Len(g) \in Nat /\ Len(remote) \in Nat
      BY <2>1, <2>2 DEF Accepts, RemoteTypes
    <2> QED BY <2>3, <2>4, <2>5 DEF g
  <1> QED
    BY <1>1, <1>2, InitTypes, NextTypes, NextCalm, PTL DEF Spec
=============================================================================
