--------------------------- MODULE DriveSync_proofs ---------------------------
(***************************************************************************)
(* Theorems of DriveSync: its type invariant, that a file in Drive is one    *)
(* script in LPOS, that what is in the project's folders is in the table,    *)
(* and that what is in the trash is not, for any folders, files and scripts, *)
(* any number of changes in Drive, of scans, deltas, renewals and crashes.   *)
(***************************************************************************)
EXTENDS DriveSync, TLAPS

Record == [kind : {"idle", "delta", "assets", "scripts", "project"},
           pc : {"idle", "asking", "collecting", "loop", "meta", "listing", "download"},
           todo : SUBSET Handles, at : SUBSET Handles, from : Nat, mine : BOOLEAN,
           live : SUBSET Items, flawed : BOOLEAN, dirty : SUBSET Items]

\* What reader w holds: items it was shown, files where it downloads and folders where it
\* lists; and the scan of a project never meets a script.
ReaderOK(w, r) ==
  /\ \A h \in r.todo : h.id \in Items \/ (w = "project" /\ r.pc = "collecting")
  /\ \A h \in r.at :
       /\ h.id \in Items
       /\ r.pc = "download" => h.id \in Files
       /\ r.pc \in {"meta", "listing"} => h.id \in Folders
  /\ r.kind = "idle" => r.pc = "idle"
  /\ w = "project" => /\ r.kind \in {"idle", "project"} /\ r.pc # "download"
                      /\ \A h \in r.todo : h.parent # "scripts"

ReadersOK == \A w \in Readers : ReaderOK(w, work[w])

\* A channel under registration starts no further than the feed reaches.
TokensOK == \A n \in renew : n <= Len(log)

ScriptsAreFiles == \A x \in Items : row[x].kind = "script" => x \in Files

Shape == TypeOK /\ ReadersOK /\ TokensOK /\ ScriptsAreFiles

\* What withWriteLock promises.
Locked == work["delta"].kind = "idle" \/ work["scan"].kind = "idle"

\* LPOS or the feed has heard of item x.
Named(x) ==
  \/ \E i \in 1..Len(log) : log[i] = x
  \/ \E w \in Readers : \E h \in work[w].todo \cup work[w].at : h.id = x
  \/ \E s \in Scripts : script[s].file = x
  \/ \E p \in push : p.file = x
  \/ row[x].kind # "none" \/ x \in trashed

\* An item that does not exist yet is known nowhere: the file a push makes is new.
Fresh == \A x \in Items : Named(x) => place[x] # "none"

Has(s, x) == script[s].state = "there" /\ script[s].file = x
Downloads(w, x) == work[w].pc = "download" /\ \E h \in work[w].at : h.id = x

\* Who may come to have file x: the script its row names, one download, or one push.
OneOwner(x) ==
  /\ \A s \in Scripts : Has(s, x) => row[x].kind = "script" /\ row[x].script = s
  /\ \A w \in Readers : Downloads(w, x) => \A s \in Scripts : ~Has(s, x)
  /\ \A w \in Readers : Downloads(w, x) => \A p \in push : p.file # x
  /\ \A p \in push : p.file = x => \A s \in Scripts : ~Has(s, x)
  /\ \A p, q \in push : p.file = x /\ q.file = x => p = q

OwnerInv == \A x \in Files \ doubled : OneOwner(x)

DriveInv == Shape /\ Locked /\ Fresh /\ OwnerInv
-----------------------------------------------------------------------------
(* The readers *)

LEMMA RecordIs == TypeOK => work \in [Readers -> Record]
  BY DEF TypeOK, Record

\* Handles of items are handles.
LEMMA SeenIs ==
  ASSUME TypeOK, NEW x \in Items
  PROVE  Seen(x) \in Handles /\ Seen(x).id = x /\ Seen(x).parent = place[x]
  BY DEF TypeOK, Seen, Handles, InTrash

LEMMA AboutIsItems == \A S \in SUBSET Items : About(S) \in SUBSET Items
  BY DEF About

\* A step replaces one reader's record and touches no other but for what is out of its sight.
LEMMA StepKeeps ==
  ASSUME TypeOK, ReadersOK, NEW w, NEW r, NEW S \in SUBSET Items, Step(w, r, S),
         w \in Readers => r \in Record /\ ReaderOK(w, r)
  PROVE  work' \in [Readers -> Record] /\ ReadersOK'
<1>1. About(S) \in SUBSET Items
  BY AboutIsItems
<1>2. ASSUME NEW v \in Readers
      PROVE  work'[v] \in Record /\ ReaderOK(v, work'[v])
  <2>1. work[v] \in Record /\ ReaderOK(v, work[v])
    BY RecordIs DEF ReadersOK
  <2>2. CASE v = w
    BY <2>2 DEF Step
  <2>3. CASE v # w
    <3>1. work'[v] = work[v] \/ work'[v] = [work[v] EXCEPT !.dirty = @ \cup About(S)]
      BY <2>3 DEF Step
    <3>2. [work[v] EXCEPT !.dirty = @ \cup About(S)] \in Record
      BY <2>1, <1>1 DEF Record
    <3>3. ReaderOK(v, [work[v] EXCEPT !.dirty = @ \cup About(S)])
      BY <2>1 DEF Record, ReaderOK
    <3>4. QED BY <2>1, <3>1, <3>2, <3>3
  <2>4. QED BY <2>2, <2>3
<1>3. work' = [v \in Readers |-> work'[v]]
  BY DEF Step
<1>4. QED BY <1>2, <1>3 DEF ReadersOK

\* The next record of a reader in three forms: at rest, done with h, waiting for h.
LEMMA RestingIs == \A w \in Readers : Resting \in Record /\ ReaderOK(w, Resting)
  BY DEF Resting, Record, ReaderOK

LEMMA RestIs ==
  ASSUME TypeOK, ReadersOK, NEW w \in Readers, NEW h, work[w].pc # "collecting", work[w].kind # "idle"
  PROVE  Rest(w, h) \in Record /\ ReaderOK(w, Rest(w, h))
<1>1. work[w] \in Record /\ ReaderOK(w, work[w])
  BY RecordIs DEF ReadersOK
<1>2. QED BY <1>1 DEF Rest, Record, ReaderOK

LEMMA AwaitsIs ==
  ASSUME TypeOK, ReadersOK, NEW w \in Readers, NEW h, NEW pc, Takes(w, h),
         \/ pc = "download" /\ h.id \in Files /\ h.parent = "scripts"
         \/ pc \in {"meta", "listing"} /\ h.id \in Folders
  PROVE  Awaits(w, h, pc) \in Record /\ ReaderOK(w, Awaits(w, h, pc))
<1>1. work[w] \in Record /\ ReaderOK(w, work[w]) /\ h \in work[w].todo /\ work[w].pc = "loop"
  BY RecordIs DEF ReadersOK, Takes
<1>2. work[w].kind # "idle" /\ h.id \in Items /\ h \in Handles
  BY <1>1 DEF ReaderOK, Record
<1>3. Awaits(w, h, pc) \in Record
  BY <1>1, <1>2 DEF Awaits, Record
<1>4. ReaderOK(w, Awaits(w, h, pc))
  BY <1>1, <1>2 DEF Awaits, Record, ReaderOK
<1>5. QED BY <1>3, <1>4
-----------------------------------------------------------------------------
(* Types *)

WorkOK == work \in [Readers -> Record] /\ ReadersOK

\* TypeOK with the readers' part by its name.
RestTyped ==
  /\ place \in [Items -> Places] /\ trashed \subseteq Items /\ log \in Seq(Items)
  /\ row \in [Items -> [kind : {"none", "asset", "script"}, parent : Places, script : Scripts \cup {NoScript}]]
  /\ script \in [Scripts -> [state : {"none", "there", "gone", "forgotten"}, file : Files \cup {NoFile}]]
  /\ channel \subseteq Nat /\ renew \subseteq Nat
  /\ push \subseteq [script : Scripts, file : Files \cup {NoFile}]
  /\ del \subseteq [id : Items, script : Scripts \cup {NoScript}, same : BOOLEAN]
  /\ lost \subseteq Items /\ stale \subseteq Items /\ doubled \subseteq Files
  /\ handed \in Nat /\ steps \in Nat

LEMMA ShapeIs == Shape <=> WorkOK /\ RestTyped /\ TokensOK /\ ScriptsAreFiles
  BY DEF Shape, TypeOK, WorkOK, RestTyped, Record

LEMMA ShapeNext == (WorkOK /\ RestTyped /\ TokensOK /\ ScriptsAreFiles)' => Shape'
  BY DEF Shape, TypeOK, WorkOK, RestTyped, Record

LEMMA ShapeInit == Init => Shape
<1> SUFFICES ASSUME Init PROVE Shape
  OBVIOUS
<1>1. WorkOK
  BY RestingIs DEF Init, WorkOK, ReadersOK
<1>2. RestTyped
  <2>1. place \in [Items -> {"none", "assets"} \cup Folders] /\ Folders \subseteq Places
    BY DEF Init, Places
  <2>2. place \in [Items -> Places]
    BY <2>1 DEF Places, Roots
  <2>3. \A x \in Items : NoRow \in [kind : {"none", "asset", "script"}, parent : Places, script : Scripts \cup {NoScript}]
    BY DEF NoRow, Places
  <2>4. \A p \in Places : Indexed(p) \in [kind : {"none", "asset", "script"}, parent : Places, script : Scripts \cup {NoScript}]
    BY DEF Indexed, NoRow
  <2>5. row \in [Items -> [kind : {"none", "asset", "script"}, parent : Places, script : Scripts \cup {NoScript}]]
    BY <2>2, <2>3, <2>4 DEF Init
  <2>6. QED BY <2>2, <2>5 DEF Init, RestTyped
<1>3. TokensOK /\ ScriptsAreFiles
  BY DEF Init, TokensOK, ScriptsAreFiles, NoRow, Indexed
<1>4. QED BY <1>1, <1>2, <1>3, ShapeIs

LEMMA ChangedIs == RestTyped => \A i, j \in Nat : j <= Len(log) => ChangedIn(i, j) \in SUBSET Items
  BY DEF RestTyped, ChangedIn

LEMMA ChangesShape ==
  ASSUME Shape, NEW x \in Items, NEW p \in Places, NEW t \in SUBSET Items, Changes(x, p, t)
  PROVE  /\ WorkOK' /\ place' \in [Items -> Places] /\ trashed' \in SUBSET Items
         /\ log' \in Seq(Items) /\ Len(log') = Len(log) + 1
<1>1. WorkOK'
  BY StepKeeps, {x} \in SUBSET Items, "drive" \notin Readers DEF Changes, WorkOK, Shape, Readers
<1>2. QED BY <1>1 DEF Changes, Shape, TypeOK

LEMMA DriveShape ==
  ASSUME Shape, DriveUser
  PROVE  Shape'
<1>1. PICK x \in Items, p \in Places, t \in SUBSET Items :
        /\ Changes(x, p, t)
        /\ UNCHANGED <<tables, channel, renew, routes, ghosts, steps>>
  BY DEF DriveUser, UserPuts, UserTrashes, UserRestores, Places, Shape, TypeOK
<1>2. /\ WorkOK' /\ place' \in [Items -> Places] /\ trashed' \in SUBSET Items
      /\ log' \in Seq(Items) /\ Len(log') = Len(log) + 1
  BY <1>1, ChangesShape
<1>3. RestTyped' /\ TokensOK' /\ ScriptsAreFiles'
  BY <1>1, <1>2 DEF Shape, TypeOK, RestTyped, TokensOK, ScriptsAreFiles, tables, routes, ghosts
<1>4. QED BY <1>2, <1>3, ShapeNext

\* A reader starts: what it begins with, and everything else but the counter as it was.
LEMMA StartShape ==
  ASSUME Shape, StartDelta \/ \E k \in {"assets", "scripts"} : StartScan(k)
  PROVE  Shape'
<1>1. PICK w \in Readers, r \in Record :
        /\ Step(w, r, {}) /\ ReaderOK(w, r)
        /\ UNCHANGED <<drive, tables, channel, renew, routes, ghosts>> /\ steps' = steps + 1
  <2>1. CASE StartDelta
    <3>1. PICK t \in channel :
            Step("delta", [Resting EXCEPT !.kind = "delta", !.pc = "asking", !.from = t], {})
      BY <2>1 DEF StartDelta
    <3>2. t \in Nat
      BY DEF Shape, TypeOK
    <3>3. [Resting EXCEPT !.kind = "delta", !.pc = "asking", !.from = t] \in Record
      BY <3>2 DEF Resting, Record
    <3>4. ReaderOK("delta", [Resting EXCEPT !.kind = "delta", !.pc = "asking", !.from = t])
      BY DEF Resting, ReaderOK
    <3>5. QED BY <2>1, <3>1, <3>3, <3>4 DEF StartDelta, Counts, Readers
  <2>2. CASE \E k \in {"assets", "scripts"} : StartScan(k)
    <3>1. PICK k \in {"assets", "scripts"} : StartScan(k)
      BY <2>2
    <3>2. [Resting EXCEPT !.kind = k, !.pc = "asking"] \in Record
      BY DEF Resting, Record
    <3>3. ReaderOK("scan", [Resting EXCEPT !.kind = k, !.pc = "asking"])
      BY DEF Resting, ReaderOK
    <3>4. QED BY <3>1, <3>2, <3>3 DEF StartScan, Counts, Readers
  <2>3. QED BY <2>1, <2>2
<1>2. WorkOK'
  BY <1>1, StepKeeps DEF Shape, WorkOK
<1>3. RestTyped' /\ TokensOK' /\ ScriptsAreFiles'
  BY <1>1 DEF Shape, TypeOK, RestTyped, TokensOK, ScriptsAreFiles, drive, tables, routes, ghosts
<1>4. QED BY <1>2, <1>3, ShapeNext

LEMMA DeltaShape ==
  ASSUME Shape, Delta
  PROVE  Shape'
<1> DEFINE w == work["delta"]
           S == ChangedIn(w.from, Len(log))
           r == [w EXCEPT !.pc = "loop", !.todo = {Seen(x) : x \in S}, !.from = 0, !.mine = TRUE]
<1>1. w \in Record /\ ReaderOK("delta", w) /\ w.pc = "asking"
  BY RecordIs DEF Delta, Shape, ReadersOK, Readers
<1>2. S \in SUBSET Items /\ Len(log) \in Nat
  BY <1>1, ChangedIs, ShapeIs DEF Record, Shape, TypeOK
<1>3. r \in Record
  <2>1. {Seen(x) : x \in S} \in SUBSET Handles
    BY <1>2, SeenIs DEF Shape
  <2>2. QED BY <1>1, <2>1 DEF Record
<1>4. ReaderOK("delta", r)
  BY <1>1, <1>2, SeenIs DEF Record, Shape, ReaderOK
<1>5. Step("delta", r, S)
  BY DEF Delta
<1> HIDE DEF S, r
<1>6. WorkOK'
  BY <1>2, <1>3, <1>4, <1>5, StepKeeps DEF Shape, WorkOK
<1>7. RestTyped' /\ TokensOK' /\ ScriptsAreFiles'
  BY <1>2 DEF Delta, Shape, TypeOK, RestTyped, TokensOK, ScriptsAreFiles, drive, tables, routes
<1>8. QED BY <1>6, <1>7, ShapeNext

LEMMA ProjectStartsShape ==
  ASSUME Shape, StartProject
  PROVE  Shape'
<1> DEFINE known == UNION {work[w].todo \cup work[w].at : w \in {"delta", "scan"}}
           D == About({h.id : h \in known})
           r == [Resting EXCEPT !.kind = "project", !.pc = "collecting",
                   !.todo = {[id |-> "assets", parent |-> "none", gone |-> FALSE]}, !.dirty = D]
<1>1. \A w \in {"delta", "scan"} : ReaderOK(w, work[w])
  BY DEF Shape, ReadersOK, Readers
<1>2. {h.id : h \in known} \in SUBSET Items
  BY <1>1 DEF ReaderOK
<1>3. D \in SUBSET Items
  BY <1>2, AboutIsItems
<1>4. Step("project", r, {})
  BY DEF StartProject
<1> HIDE DEF D, known
<1>5. r \in Record
  <2>1. {[id |-> "assets", parent |-> "none", gone |-> FALSE]} \in SUBSET Handles
    BY DEF Handles, Places
  <2>2. QED BY <1>3, <2>1 DEF Resting, Record
<1>6. ReaderOK("project", r)
  BY <1>3 DEF Resting, ReaderOK
<1> HIDE DEF r
<1>7. WorkOK'
  BY <1>4, <1>5, <1>6, StepKeeps DEF Shape, WorkOK, Readers
<1>8. RestTyped' /\ TokensOK' /\ ScriptsAreFiles'
  BY DEF StartProject, Counts, Shape, TypeOK, RestTyped, TokensOK, ScriptsAreFiles, drive, tables, routes, ghosts
<1>9. QED BY <1>7, <1>8, ShapeNext

LEMMA CollectShape ==
  ASSUME Shape, NEW h, Collect(h)
  PROVE  Shape'
<1> DEFINE w == work["project"]
           rest == (w.todo \ {h}) \cup {Seen(x) : x \in Children(h.id) \cap Folders}
           r == [w EXCEPT !.live = @ \cup Children(h.id), !.todo = rest,
                          !.pc = IF rest = {} THEN "asking" ELSE @]
<1>1. w \in Record /\ ReaderOK("project", w) /\ w.pc = "collecting" /\ h \in w.todo
  BY RecordIs DEF Collect, Shape, ReadersOK, Readers
<1>2. Children(h.id) \in SUBSET Items
  BY DEF Children
<1>3. h.id # "scripts"
  BY <1>1, DriveAssumption DEF Record, Handles, Roots
<1>4. \A x \in Children(h.id) : Seen(x) \in Handles /\ Seen(x).id \in Items /\ Seen(x).parent # "scripts"
  BY <1>2, <1>3, SeenIs DEF Shape, Children
<1>5. rest \in SUBSET Handles /\ \A g \in rest : g \in w.todo \/ (g.id \in Items /\ g.parent # "scripts")
  BY <1>1, <1>4 DEF Record
<1>6. Step("project", r, {})
  BY DEF Collect
<1> HIDE DEF rest
<1>7. r \in Record
  BY <1>1, <1>2, <1>5 DEF Record
<1>8. ReaderOK("project", r)
  BY <1>1, <1>5 DEF Record, ReaderOK
<1> HIDE DEF r
<1>9. WorkOK'
  BY <1>6, <1>7, <1>8, StepKeeps DEF Shape, WorkOK, Readers
<1>10. RestTyped' /\ TokensOK' /\ ScriptsAreFiles'
  BY DEF Collect, Shape, TypeOK, RestTyped, TokensOK, ScriptsAreFiles, drive, tables, routes, ghosts
<1>11. QED BY <1>9, <1>10, ShapeNext

LEMMA RootShape ==
  ASSUME Shape, NEW w \in Readers, RootListed(w)
  PROVE  Shape'
<1> DEFINE k == work[w].kind
           kids == IF k = "scripts" THEN Children("scripts") \cap Files ELSE Children("assets")
           r == [work[w] EXCEPT !.pc = "loop", !.todo = {Seen(x) : x \in kids}]
<1>1. work[w] \in Record /\ ReaderOK(w, work[w]) /\ work[w].pc = "asking"
  BY RecordIs DEF RootListed, Shape, ReadersOK
<1>2. kids \in SUBSET Items /\ (w = "project" => kids = Children("assets"))
  BY <1>1 DEF Children, ReaderOK
<1>3. \A x \in kids : Seen(x) \in Handles /\ Seen(x).id \in Items /\ (w = "project" => Seen(x).parent # "scripts")
  BY <1>2, SeenIs DEF Shape, Children
<1>4. Step(w, r, {})
  BY DEF RootListed
<1> HIDE DEF kids
<1>5. r \in Record
  BY <1>1, <1>3 DEF Record
<1>6. ReaderOK(w, r)
  BY <1>1, <1>3 DEF Record, ReaderOK
<1> HIDE DEF r
<1>7. WorkOK'
  BY <1>4, <1>5, <1>6, StepKeeps DEF Shape, WorkOK
<1>8. RestTyped' /\ TokensOK' /\ ScriptsAreFiles'
  BY DEF RootListed, Shape, TypeOK, RestTyped, TokensOK, ScriptsAreFiles, drive, tables, routes, ghosts
<1>9. QED BY <1>7, <1>8, ShapeNext

LEMMA NotSameIs ==
  ASSUME TypeOK, NEW R
  PROVE  NotSame(R) \subseteq [id : Items, script : Scripts \cup {NoScript}, same : BOOLEAN]
<1> SUFFICES ASSUME NEW e \in del
             PROVE  [e EXCEPT !.same = @ /\ e.id \notin R] \in [id : Items, script : Scripts \cup {NoScript}, same : BOOLEAN]
  BY DEF NotSame
<1>1. e \in [id : Items, script : Scripts \cup {NoScript}, same : BOOLEAN]
  BY DEF TypeOK
<1>2. (e.same /\ e.id \notin R) \in BOOLEAN
  OBVIOUS
<1>3. QED BY <1>1, <1>2

LEMMA EndShape ==
  ASSUME Shape, NEW w \in Readers, ReaderFails(w) \/ Finish(w) \/ Prune
  PROVE  Shape'
<1>1. \A v \in Readers : work[v].dirty \in SUBSET Items /\ work[v].live \in SUBSET Items
  BY RecordIs DEF Shape, Record
<1>2. CASE ReaderFails(w)
  <2>1. WorkOK'
    BY <1>2, StepKeeps, RestingIs DEF Shape, WorkOK, ReaderFails
  <2>2. lost' \in SUBSET Items /\ stale' \in SUBSET Items
    BY <1>1, <1>2 DEF ReaderFails, Shape, TypeOK
  <2>3. RestTyped' /\ TokensOK' /\ ScriptsAreFiles'
    BY <1>2, <2>2 DEF ReaderFails, Shape, TypeOK, RestTyped, TokensOK, ScriptsAreFiles, drive, tables, routes
  <2>4. QED BY <2>1, <2>3, ShapeNext
<1>3. CASE Finish(w)
  <2>1. WorkOK'
    BY <1>3, StepKeeps, RestingIs DEF Shape, WorkOK, Finish
  <2>2. lost' \in SUBSET Items
    BY <1>3 DEF Finish, Shape, TypeOK
  <2>3. RestTyped' /\ TokensOK' /\ ScriptsAreFiles'
    BY <1>3, <2>2 DEF Finish, Shape, TypeOK, RestTyped, TokensOK, ScriptsAreFiles, drive, tables, routes
  <2>4. QED BY <2>1, <2>3, ShapeNext
<1>4. CASE Prune
  <2> DEFINE R == {x \in Items : row[x].kind = "asset" /\ x \notin work["project"].live}
  <2>1. WorkOK'
    <3>1. Step("project", Resting, R) /\ R \in SUBSET Items
      BY <1>4 DEF Prune
    <3> HIDE DEF R
    <3>2. QED BY <3>1, StepKeeps, RestingIs DEF Shape, WorkOK, Readers
  <2>2. row' = Without(R) /\ del' = NotSame(R)
    BY <1>4 DEF Prune
  <2>3. lost' \in SUBSET Items /\ stale' \in SUBSET Items
    BY <1>1, <1>4 DEF Prune, Unlinked, Shape, TypeOK, Readers
  <2> HIDE DEF R
  <2>4. row' \in [Items -> [kind : {"none", "asset", "script"}, parent : Places, script : Scripts \cup {NoScript}]]
    BY <2>2 DEF Without, NoRow, Places, Shape, TypeOK
  <2>5. del' \subseteq [id : Items, script : Scripts \cup {NoScript}, same : BOOLEAN]
    BY <2>2, NotSameIs DEF Shape
  <2>6. RestTyped' /\ TokensOK'
    BY <1>4, <2>3, <2>4, <2>5 DEF Prune, Shape, TypeOK, RestTyped, TokensOK, drive
  <2>7. ScriptsAreFiles'
    BY <2>2 DEF Without, NoRow, Shape, ScriptsAreFiles
  <2>8. QED BY <2>1, <2>6, <2>7, ShapeNext
<1>5. QED BY <1>2, <1>3, <1>4

-----------------------------------------------------------------------------
(* Types: one item *)

RowType == [kind : {"none", "asset", "script"}, parent : Places, script : Scripts \cup {NoScript}]

LEMMA TakesIs ==
  ASSUME Shape, NEW w \in Readers, NEW h, Takes(w, h)
  PROVE  h \in Handles /\ h.id \in Items /\ h.parent \in Places /\ Rest(w, h) \in Record /\ ReaderOK(w, Rest(w, h))
<1>1. work[w] \in Record /\ ReaderOK(w, work[w]) /\ h \in work[w].todo /\ work[w].pc = "loop"
  BY RecordIs DEF Takes, Shape, ReadersOK
<1>2. h \in Handles /\ h.id \in Items /\ work[w].kind # "idle"
  BY <1>1 DEF Record, ReaderOK
<1>3. h.parent \in Places
  BY <1>2 DEF Handles
<1>4. QED BY <1>1, <1>2, <1>3, RestIs DEF Shape

LEMMA AtIs ==
  ASSUME Shape, NEW w \in Readers, work[w].pc \in {"meta", "listing", "download"}, NEW h \in work[w].at
  PROVE  /\ h \in Handles /\ h.id \in Items /\ h.parent \in Places
         /\ Rest(w, h) \in Record /\ ReaderOK(w, Rest(w, h))
         /\ work[w].pc = "download" => h.id \in Files
         /\ work[w].pc \in {"meta", "listing"} => h.id \in Folders
<1>1. work[w] \in Record /\ ReaderOK(w, work[w])
  BY RecordIs DEF Shape, ReadersOK
<1>2. h \in Handles /\ h.id \in Items /\ work[w].kind # "idle" /\ work[w].pc # "collecting"
  BY <1>1 DEF Record, ReaderOK
<1>3. h.parent \in Places
  BY <1>2 DEF Handles
<1>4. QED BY <1>1, <1>2, <1>3, RestIs DEF Shape, ReaderOK

\* Rows that go and rows that come keep the types of both tables.
LEMMA RowsGo ==
  ASSUME Shape, NEW R, row' = Without(R)
  PROVE  row' \in [Items -> RowType] /\ ScriptsAreFiles'
<1>1. row \in [Items -> RowType]
  BY DEF Shape, TypeOK, RowType
<1>2. NoRow \in RowType
  BY DEF NoRow, RowType, Places
<1>3. row' \in [Items -> RowType]
  BY <1>1, <1>2 DEF Without
<1>4. ScriptsAreFiles'
  BY DEF Without, NoRow, Shape, ScriptsAreFiles
<1>5. QED BY <1>3, <1>4

LEMMA RowComes ==
  ASSUME Shape, NEW x \in Items, NEW r \in RowType, r.kind = "script" => x \in Files,
         row' = [row EXCEPT ![x] = r]
  PROVE  row' \in [Items -> RowType] /\ ScriptsAreFiles'
  BY DEF Shape, TypeOK, RowType, ScriptsAreFiles

LEMMA IndexedIs == \A p \in Places : Indexed(p) \in RowType /\ Indexed(p).kind = "asset"
  BY DEF Indexed, NoRow, RowType

LEMMA MissedIs == \A w, x : x \in Items => Missed(w, x) \in SUBSET Items
  BY AboutIsItems DEF Missed

LEMMA DropRowShape ==
  ASSUME Shape, NEW w \in Readers, NEW h, DropRow(w, h)
  PROVE  Shape'
<1> DEFINE x == h.id
           R == IF row[x].kind = "none" THEN {} ELSE IF row[x].kind = "asset" THEN Subtree(x) ELSE {x}
<1>1. x \in Items /\ Rest(w, h) \in Record /\ ReaderOK(w, Rest(w, h))
  BY TakesIs DEF DropRow
<1>2. R \in SUBSET Items
  BY <1>1 DEF Subtree
<1>3. /\ row' = Without(R) /\ del' = NotSame(R) /\ doubled' = doubled \cup (Unlinked(R) \ {x})
      /\ Step(w, Rest(w, h), {x} \cup R)
  BY DEF DropRow
<1> HIDE DEF R
<1>4. WorkOK'
  BY <1>1, <1>2, <1>3, StepKeeps DEF Shape, WorkOK
<1>5. row' \in [Items -> RowType] /\ ScriptsAreFiles'
  BY <1>3, RowsGo
<1>6. del' \subseteq [id : Items, script : Scripts \cup {NoScript}, same : BOOLEAN]
  BY <1>3, NotSameIs DEF Shape
<1>7. doubled' \subseteq Files
  BY <1>2, <1>3 DEF Unlinked, Shape, TypeOK, ScriptsAreFiles
<1>8. script' \in [Scripts -> [state : {"none", "there", "gone", "forgotten"}, file : Files \cup {NoFile}]]
  BY DEF DropRow, Shape, TypeOK
<1>9. RestTyped' /\ TokensOK'
  BY <1>5, <1>6, <1>7, <1>8 DEF DropRow, Shape, TypeOK, RestTyped, TokensOK, RowType, drive
<1>10. QED BY <1>4, <1>5, <1>9, ShapeNext

LEMMA FileShape ==
  ASSUME Shape, NEW w \in Readers, NEW h, SkipFile(w, h) \/ UpdateRow(w, h) \/ IndexFile(w, h) \/ PullScript(w, h)
  PROVE  Shape'
<1>1. Takes(w, h)
  BY DEF SkipFile, UpdateRow, IndexFile, PullScript, Known, New
<1>2. h.id \in Items /\ h.parent \in Places /\ Rest(w, h) \in Record /\ ReaderOK(w, Rest(w, h))
  BY <1>1, TakesIs
<1>3. {h.id} \in SUBSET Items /\ Missed(w, h.id) \in SUBSET Items
  BY <1>2, MissedIs
<1>4. CASE SkipFile(w, h)
  <2>1. WorkOK'
    BY <1>2, <1>3, <1>4, StepKeeps DEF SkipFile, Shape, WorkOK
  <2>2. lost' \in SUBSET Items /\ stale' \in SUBSET Items
    BY <1>3, <1>4 DEF SkipFile, Shape, TypeOK
  <2>3. RestTyped' /\ TokensOK' /\ ScriptsAreFiles'
    BY <1>4, <2>2 DEF SkipFile, Shape, TypeOK, RestTyped, TokensOK, ScriptsAreFiles, drive, tables, routes
  <2>4. QED BY <2>1, <2>3, ShapeNext
<1>5. CASE UpdateRow(w, h)
  <2>1. WorkOK'
    BY <1>2, <1>3, <1>5, StepKeeps DEF UpdateRow, Shape, WorkOK
  <2>2. [row[h.id] EXCEPT !.parent = h.parent] \in RowType /\ row' = [row EXCEPT ![h.id] = [row[h.id] EXCEPT !.parent = h.parent]]
    BY <1>2, <1>5 DEF UpdateRow, Shape, TypeOK, RowType
  <2>3. row' \in [Items -> RowType] /\ ScriptsAreFiles'
    BY <1>2, <1>5, <2>2, RowComes DEF UpdateRow
  <2>4. RestTyped' /\ TokensOK'
    BY <1>5, <2>3 DEF UpdateRow, Shape, TypeOK, RestTyped, TokensOK, RowType, drive, routes, ghosts
  <2>5. QED BY <2>1, <2>3, <2>4, ShapeNext
<1>6. CASE IndexFile(w, h)
  <2>1. WorkOK'
    BY <1>2, <1>3, <1>6, StepKeeps DEF IndexFile, Shape, WorkOK
  <2>2. row' \in [Items -> RowType] /\ ScriptsAreFiles'
    BY <1>2, <1>6, IndexedIs, RowComes DEF IndexFile
  <2>3. RestTyped' /\ TokensOK'
    BY <1>6, <2>2 DEF IndexFile, Shape, TypeOK, RestTyped, TokensOK, RowType, drive, routes, ghosts
  <2>4. QED BY <2>1, <2>2, <2>3, ShapeNext
<1>7. CASE PullScript(w, h)
  <2>1. h.id \in Files /\ h.parent = "scripts"
    <3>1. h.id \in Files /\ Context(h.parent) = "scripts"
      BY <1>7 DEF PullScript
    <3>2. QED BY <3>1 DEF Context
  <2>2. Awaits(w, h, "download") \in Record /\ ReaderOK(w, Awaits(w, h, "download"))
    BY <1>1, <2>1, AwaitsIs DEF Shape
  <2>3. WorkOK'
    BY <1>3, <1>7, <2>2, StepKeeps DEF PullScript, Shape, WorkOK
  <2>4. doubled' \subseteq Files
    BY <1>7, <2>1 DEF PullScript, Shape, TypeOK
  <2>5. RestTyped' /\ TokensOK' /\ ScriptsAreFiles'
    BY <1>7, <2>4 DEF PullScript, Shape, TypeOK, RestTyped, TokensOK, ScriptsAreFiles, drive, tables, routes
  <2>6. QED BY <2>3, <2>5, ShapeNext
<1>8. QED BY <1>4, <1>5, <1>6, <1>7

LEMMA DownloadedShape ==
  ASSUME Shape, NEW w \in Readers, NEW s \in Scripts, Downloaded(w, s)
  PROVE  Shape'
<1>1. PICK h \in work[w].at :
       /\ script' = [script EXCEPT ![s] = [state |-> "there", file |-> h.id]]
       /\ row' = [row EXCEPT ![h.id] = [kind |-> "script", parent |-> h.parent, script |-> s]]
       /\ del' = NotSame({h.id})
       /\ Step(w, Rest(w, h), {h.id})
  BY DEF Downloaded
<1>2. /\ h.id \in Files /\ h.id \in Items /\ h.parent \in Places
      /\ Rest(w, h) \in Record /\ ReaderOK(w, Rest(w, h))
  BY AtIs DEF Downloaded
<1>3. WorkOK'
  BY <1>1, <1>2, {h.id} \in SUBSET Items, StepKeeps DEF Shape, WorkOK
<1>4. row' \in [Items -> RowType] /\ ScriptsAreFiles'
  <2>1. [kind |-> "script", parent |-> h.parent, script |-> s] \in RowType
    BY <1>2 DEF RowType
  <2>2. QED BY <1>1, <1>2, <2>1, RowComes
<1>5. del' \subseteq [id : Items, script : Scripts \cup {NoScript}, same : BOOLEAN]
  BY <1>1, NotSameIs DEF Shape
<1>6. script' \in [Scripts -> [state : {"none", "there", "gone", "forgotten"}, file : Files \cup {NoFile}]]
  BY <1>1, <1>2 DEF Shape, TypeOK
<1>7. RestTyped' /\ TokensOK'
  BY <1>4, <1>5, <1>6 DEF Downloaded, Shape, TypeOK, RestTyped, TokensOK, RowType, drive, ghosts
<1>8. QED BY <1>3, <1>4, <1>7, ShapeNext

LEMMA FolderShape ==
  ASSUME Shape, NEW w \in Readers, (\E h \in work[w].todo : OpenFolder(w, h)) \/ FolderListed(w) \/ ItemFails(w)
  PROVE  Shape'
<1>1. CASE \E h \in work[w].todo : OpenFolder(w, h)
  <2>1. PICK h \in work[w].todo : OpenFolder(w, h)
    BY <1>1
  <2>2. PICK pc \in {"meta", "listing"} : Step(w, Awaits(w, h, pc), {h.id})
    BY <2>1 DEF OpenFolder
  <2>3. Takes(w, h) /\ h.id \in Folders
    BY <2>1 DEF OpenFolder
  <2>4. Awaits(w, h, pc) \in Record /\ ReaderOK(w, Awaits(w, h, pc))
    BY <2>3, AwaitsIs DEF Shape
  <2>5. {h.id} \in SUBSET Items
    BY <2>3 DEF Items
  <2>6. WorkOK'
    BY <2>2, <2>4, <2>5, StepKeeps DEF Shape, WorkOK
  <2>7. RestTyped' /\ TokensOK' /\ ScriptsAreFiles'
    BY <2>1 DEF OpenFolder, Shape, TypeOK, RestTyped, TokensOK, ScriptsAreFiles, drive, tables, routes, ghosts
  <2>8. QED BY <2>6, <2>7, ShapeNext
<1>2. CASE FolderListed(w)
  <2>1. PICK h \in work[w].at :
          Step(w, [Rest(w, h) EXCEPT !.todo = @ \cup {Seen(x) : x \in Children(h.id) \cap Files}], {h.id})
    BY <1>2 DEF FolderListed
  <2> DEFINE new == {Seen(x) : x \in Children(h.id) \cap Files}
  <2>2. h.id \in Folders /\ h.id \in Items /\ Rest(w, h) \in Record /\ ReaderOK(w, Rest(w, h))
    BY <1>2, AtIs DEF FolderListed
  <2>3. Children(h.id) \in SUBSET Items /\ h.id # "scripts"
    BY <2>2, DriveAssumption DEF Children, Roots
  <2>4. \A x \in Children(h.id) : Seen(x) \in Handles /\ Seen(x).id \in Items /\ Seen(x).parent # "scripts"
    BY <2>3, SeenIs DEF Shape, Children
  <2>5. new \in SUBSET Handles /\ \A g \in new : g.id \in Items /\ g.parent # "scripts"
    BY <2>4
  <2> HIDE DEF new
  <2>6. [Rest(w, h) EXCEPT !.todo = @ \cup new] \in Record
    BY <2>2, <2>5 DEF Record
  <2>7. ReaderOK(w, [Rest(w, h) EXCEPT !.todo = @ \cup new])
    BY <2>2, <2>5 DEF Record, ReaderOK
  <2>8. Step(w, [Rest(w, h) EXCEPT !.todo = @ \cup new], {h.id}) /\ {h.id} \in SUBSET Items
    BY <2>1, <2>2 DEF new
  <2>9. WorkOK'
    BY <2>6, <2>7, <2>8, StepKeeps DEF Shape, WorkOK
  <2>10. RestTyped' /\ TokensOK' /\ ScriptsAreFiles'
    BY <1>2 DEF FolderListed, Shape, TypeOK, RestTyped, TokensOK, ScriptsAreFiles, drive, tables, routes, ghosts
  <2>11. QED BY <2>9, <2>10, ShapeNext
<1>3. CASE ItemFails(w)
  <2>1. PICK h \in work[w].at :
          /\ lost' = lost \cup Missed(w, h.id) /\ stale' = stale \cup Missed(w, h.id)
          /\ Step(w, [Rest(w, h) EXCEPT !.flawed = TRUE], {h.id})
    BY <1>3 DEF ItemFails
  <2>2. h.id \in Items /\ Rest(w, h) \in Record /\ ReaderOK(w, Rest(w, h))
    BY <1>3, AtIs DEF ItemFails
  <2>3. [Rest(w, h) EXCEPT !.flawed = TRUE] \in Record
    BY <2>2 DEF Record
  <2>4. ReaderOK(w, [Rest(w, h) EXCEPT !.flawed = TRUE])
    BY <2>2 DEF Record, ReaderOK
  <2>5. WorkOK'
    BY <2>1, <2>2, <2>3, <2>4, {h.id} \in SUBSET Items, StepKeeps DEF Shape, WorkOK
  <2>6. lost' \in SUBSET Items /\ stale' \in SUBSET Items
    BY <2>1, <2>2, MissedIs DEF Shape, TypeOK
  <2>7. RestTyped' /\ TokensOK' /\ ScriptsAreFiles'
    BY <1>3, <2>6 DEF ItemFails, Shape, TypeOK, RestTyped, TokensOK, ScriptsAreFiles, drive, tables, routes
  <2>8. QED BY <2>5, <2>7, ShapeNext
<1>4. QED BY <1>1, <1>2, <1>3

LEMMA FoundShape ==
  ASSUME Shape, NEW w \in Readers, FolderFound(w)
  PROVE  Shape'
<1>1. PICK h \in work[w].at :
       IF InTrash(h.id) \/ Context(place[h.id]) # "assets"
       THEN Step(w, Rest(w, h), {h.id}) /\ UNCHANGED <<row, del>>
       ELSE /\ row' = [row EXCEPT ![h.id] = Indexed(place[h.id])] /\ del' = NotSame({h.id})
            /\ Step(w, [work[w] EXCEPT !.pc = "listing"], {h.id})
  BY DEF FolderFound
<1>2. h.id \in Items /\ Rest(w, h) \in Record /\ ReaderOK(w, Rest(w, h)) /\ {h.id} \in SUBSET Items
  BY AtIs DEF FolderFound
<1>3. CASE InTrash(h.id) \/ Context(place[h.id]) # "assets"
  <2>1. WorkOK'
    BY <1>1, <1>2, <1>3, StepKeeps DEF Shape, WorkOK
  <2>2. RestTyped' /\ TokensOK' /\ ScriptsAreFiles'
    BY <1>1, <1>3 DEF FolderFound, Shape, TypeOK, RestTyped, TokensOK, ScriptsAreFiles, drive, ghosts
  <2>3. QED BY <2>1, <2>2, ShapeNext
<1>4. CASE ~(InTrash(h.id) \/ Context(place[h.id]) # "assets")
  <2>1. work[w] \in Record /\ ReaderOK(w, work[w]) /\ work[w].pc = "meta"
    BY RecordIs DEF Shape, ReadersOK, FolderFound
  <2>2. [work[w] EXCEPT !.pc = "listing"] \in Record
    BY <2>1 DEF Record
  <2>3. ReaderOK(w, [work[w] EXCEPT !.pc = "listing"])
    BY <2>1 DEF Record, ReaderOK
  <2>4. WorkOK'
    BY <1>1, <1>2, <1>4, <2>2, <2>3, StepKeeps DEF Shape, WorkOK
  <2>5. row' \in [Items -> RowType] /\ ScriptsAreFiles'
    <3>1. place[h.id] \in Places
      BY <1>2 DEF Shape, TypeOK
    <3>2. QED BY <1>1, <1>2, <1>4, <3>1, IndexedIs, RowComes
  <2>6. del' \subseteq [id : Items, script : Scripts \cup {NoScript}, same : BOOLEAN]
    BY <1>1, <1>4, NotSameIs DEF Shape
  <2>7. RestTyped' /\ TokensOK'
    BY <2>5, <2>6 DEF FolderFound, Shape, TypeOK, RestTyped, TokensOK, RowType, drive, ghosts
  <2>8. QED BY <2>4, <2>5, <2>7, ShapeNext
<1>5. QED BY <1>3, <1>4

-----------------------------------------------------------------------------
(* Types: the channel, the routes, a crash *)

LEMMA RenewalShape ==
  ASSUME Shape, Renewal
  PROVE  Shape'
<1>1. CASE DropChannel
  <2> DEFINE r == [work["delta"] EXCEPT !.mine = (@ /\ work["delta"].pc # "asking")]
  <2>1. work["delta"] \in Record /\ ReaderOK("delta", work["delta"])
    BY RecordIs DEF Shape, ReadersOK, Readers
  <2>2. (work["delta"].mine /\ work["delta"].pc # "asking") \in BOOLEAN
    OBVIOUS
  <2>3. r \in Record
    BY <2>1, <2>2 DEF Record
  <2>4. ReaderOK("delta", r)
    BY <2>1 DEF Record, ReaderOK
  <2>5. Step("delta", r, {})
    BY <1>1 DEF DropChannel
  <2> HIDE DEF r
  <2>6. WorkOK'
    BY <2>3, <2>4, <2>5, StepKeeps DEF Shape, WorkOK
  <2>7. RestTyped' /\ TokensOK' /\ ScriptsAreFiles'
    BY <1>1 DEF DropChannel, Counts, Shape, TypeOK, RestTyped, TokensOK, ScriptsAreFiles, drive, tables, routes, ghosts
  <2>8. QED BY <2>6, <2>7, ShapeNext
<1>2. CASE FetchToken
  <2>1. WorkOK'
    BY <1>2, ShapeIs DEF FetchToken, WorkOK, ReadersOK
  <2>2. RestTyped' /\ TokensOK' /\ ScriptsAreFiles'
    BY <1>2 DEF FetchToken, Shape, TypeOK, RestTyped, TokensOK, ScriptsAreFiles, drive, tables, routes, ghosts
  <2>3. QED BY <2>1, <2>2, ShapeNext
<1>3. CASE Registered
  <2>1. WorkOK'
    BY <1>3, ShapeIs DEF Registered, WorkOK, ReadersOK
  <2>2. PICK n \in renew : /\ handed' = n
                           /\ lost' = lost \cup About(ChangedIn(handed, n))
                           /\ stale' = stale \cup About(ChangedIn(handed, n))
    BY <1>3 DEF Registered
  <2>3. About(ChangedIn(handed, n)) \in SUBSET Items /\ n \in Nat
    <3>1. n \in Nat /\ handed \in Nat /\ n <= Len(log)
      BY DEF Shape, TypeOK, TokensOK
    <3>2. ChangedIn(handed, n) \in SUBSET Items
      BY <3>1, ChangedIs, ShapeIs
    <3>3. QED BY <3>1, <3>2, AboutIsItems
  <2>4. RestTyped' /\ TokensOK' /\ ScriptsAreFiles'
    BY <1>3, <2>2, <2>3 DEF Registered, Shape, TypeOK, RestTyped, TokensOK, ScriptsAreFiles, drive, tables, routes
  <2>5. QED BY <2>1, <2>4, ShapeNext
<1>4. CASE RenewalFails
  <2>1. WorkOK'
    BY <1>4, ShapeIs DEF RenewalFails, WorkOK, ReadersOK
  <2>2. RestTyped' /\ TokensOK' /\ ScriptsAreFiles'
    BY <1>4 DEF RenewalFails, Shape, TypeOK, RestTyped, TokensOK, ScriptsAreFiles, drive, tables, routes, ghosts
  <2>3. QED BY <2>1, <2>2, ShapeNext
<1>5. QED BY <1>1, <1>2, <1>3, <1>4 DEF Renewal

ScriptType == [state : {"none", "there", "gone", "forgotten"}, file : Files \cup {NoFile}]
PushType == [script : Scripts, file : Files \cup {NoFile}]
DelType == [id : Items, script : Scripts \cup {NoScript}, same : BOOLEAN]

LEMMA ScriptRouteShape ==
  ASSUME Shape, NEW s \in Scripts, AddScript(s) \/ DeleteUnlinked(s) \/ ForgetScript(s)
  PROVE  Shape'
<1>1. WorkOK'
  BY ShapeIs DEF AddScript, DeleteUnlinked, ForgetScript, WorkOK, ReadersOK
<1>2. script' \in [Scripts -> ScriptType]
  <2>1. script \in [Scripts -> ScriptType]
    BY DEF Shape, TypeOK, ScriptType
  <2>2. \A st \in {"gone", "forgotten"} : [script[s] EXCEPT !.state = st] \in ScriptType
    BY <2>1 DEF ScriptType
  <2>3. [state |-> "there", file |-> NoFile] \in ScriptType
    BY DEF ScriptType
  <2>4. \E r \in ScriptType : script' = [script EXCEPT ![s] = r]
    BY <2>2, <2>3 DEF AddScript, DeleteUnlinked, ForgetScript
  <2>5. QED BY <2>1, <2>4
<1>3. push' \subseteq PushType
  BY DEF AddScript, DeleteUnlinked, ForgetScript, Shape, TypeOK, PushType, routes
<1>4. RestTyped' /\ TokensOK' /\ ScriptsAreFiles'
  BY <1>2, <1>3 DEF AddScript, DeleteUnlinked, ForgetScript, Counts, Shape, TypeOK, RestTyped, TokensOK, ScriptsAreFiles, drive, tables, routes, ghosts, ScriptType, PushType
<1>5. QED BY <1>1, <1>4, ShapeNext

LEMMA PushShape ==
  ASSUME Shape, NEW p \in push, PushAnswered(p) \/ PushFails(p) \/ \E x \in Files : PushArrives(p, x)
  PROVE  Shape'
<1>1. p \in PushType /\ push \subseteq PushType
  BY DEF Shape, TypeOK, PushType
<1>2. CASE \E x \in Files : PushArrives(p, x)
  <2>1. PICK x \in Files : PushArrives(p, x)
    BY <1>2
  <2>2. /\ WorkOK' /\ place' \in [Items -> Places] /\ trashed' \in SUBSET Items
        /\ log' \in Seq(Items) /\ Len(log') = Len(log) + 1
    <3>1. x \in Items /\ "scripts" \in Places /\ trashed \in SUBSET Items
      BY DEF Items, Places, Roots, Shape, TypeOK
    <3>2. QED BY <2>1, <3>1, ChangesShape DEF PushArrives
  <2>3. push' \subseteq PushType
    BY <1>1, <2>1 DEF PushArrives, PushType
  <2>4. RestTyped' /\ TokensOK' /\ ScriptsAreFiles'
    BY <2>1, <2>2, <2>3 DEF PushArrives, Shape, TypeOK, RestTyped, TokensOK, ScriptsAreFiles, tables, ghosts, PushType
  <2>5. QED BY <2>2, <2>4, ShapeNext
<1>3. CASE PushAnswered(p)
  <2>1. p.file \in Files /\ p.file \in Items /\ p.script \in Scripts
    BY <1>1, <1>3 DEF PushAnswered, PushType, Items
  <2>2. WorkOK'
    BY <1>3, <2>1, {p.file} \in SUBSET Items, StepKeeps, "push" \notin Readers DEF PushAnswered, Shape, WorkOK, Readers
  <2>3. row' \in [Items -> RowType] /\ ScriptsAreFiles'
    <3>1. [NoRow EXCEPT !.kind = "script", !.script = p.script] \in RowType
      BY <2>1 DEF NoRow, RowType, Places
    <3>2. row' = [row EXCEPT ![p.file] = [NoRow EXCEPT !.kind = "script", !.script = p.script]]
      BY <1>3 DEF PushAnswered
    <3>3. QED BY <2>1, <3>1, <3>2, RowComes
  <2>4. del' \subseteq DelType
    BY <1>3, NotSameIs DEF PushAnswered, Shape, DelType
  <2>5. script' \in [Scripts -> ScriptType]
    BY <1>3, <2>1 DEF PushAnswered, Shape, TypeOK, ScriptType
  <2>6. stale' \subseteq Items
    BY <1>3, <2>1 DEF PushAnswered, Shape, TypeOK
  <2>7. RestTyped' /\ TokensOK'
    BY <1>3, <2>3, <2>4, <2>5, <2>6 DEF PushAnswered, Shape, TypeOK, RestTyped, TokensOK, RowType, DelType, ScriptType, drive
  <2>8. QED BY <2>2, <2>3, <2>7, ShapeNext
<1>4. CASE PushFails(p)
  <2>1. WorkOK'
    BY <1>4, ShapeIs DEF PushFails, WorkOK, ReadersOK
  <2>2. RestTyped' /\ TokensOK' /\ ScriptsAreFiles'
    BY <1>4 DEF PushFails, Shape, TypeOK, RestTyped, TokensOK, ScriptsAreFiles, drive, tables, ghosts
  <2>3. QED BY <2>1, <2>2, ShapeNext
<1>5. QED BY <1>2, <1>3, <1>4

LEMMA TrashShape ==
  ASSUME Shape, (\E s \in Scripts : TrashScript(s)) \/ (\E x \in Items : TrashAsset(x))
  PROVE  Shape'
<1>1. PICK x \in Items, s \in Scripts \cup {NoScript} :
        /\ Trash(x) /\ del' = del \cup {[id |-> x, script |-> s, same |-> TRUE]}
        /\ steps' = steps + 1 /\ UNCHANGED <<tables, channel, renew, push, ghosts>>
  <2>1. CASE \E s \in Scripts : TrashScript(s)
    <3>1. PICK s \in Scripts : TrashScript(s)
      BY <2>1
    <3>2. script[s].file \in Items
      BY <3>1 DEF TrashScript, Shape, TypeOK, Items
    <3>3. QED BY <3>1, <3>2 DEF TrashScript, Counts
  <2>2. CASE \E x \in Items : TrashAsset(x)
    BY <2>2 DEF TrashAsset, Counts
  <2>3. QED BY <2>1, <2>2
<1>2. /\ WorkOK' /\ place' \in [Items -> Places] /\ trashed' \in SUBSET Items
      /\ log' \in Seq(Items) /\ Len(log') >= Len(log)
  <2>1. CASE x \in trashed
    BY <1>1, <2>1, ShapeIs DEF Trash, drive, WorkOK, ReadersOK, Shape, TypeOK
  <2>2. CASE x \notin trashed
    <3>1. Changes(x, place[x], trashed \cup {x}) /\ place[x] \in Places /\ trashed \cup {x} \in SUBSET Items
      BY <1>1, <2>2 DEF Trash, Shape, TypeOK
    <3>2. Len(log) \in Nat
      BY DEF Shape, TypeOK
    <3>3. QED BY <3>1, <3>2, ChangesShape
  <2>3. QED BY <2>1, <2>2
<1>3. del' \subseteq DelType
  <2>1. [id |-> x, script |-> s, same |-> TRUE] \in DelType /\ del \subseteq DelType
    BY <1>1 DEF Shape, TypeOK, DelType
  <2>2. QED BY <1>1, <2>1
<1>4. RestTyped' /\ TokensOK' /\ ScriptsAreFiles'
  BY <1>1, <1>2, <1>3 DEF Shape, TypeOK, RestTyped, TokensOK, ScriptsAreFiles, tables, ghosts, DelType
<1>5. QED BY <1>2, <1>4, ShapeNext

LEMMA DropShape ==
  ASSUME Shape, NEW e \in del, DropScript(e) \/ DropAsset(e)
  PROVE  Shape'
<1>0. e \in DelType /\ del \subseteq DelType /\ e.id \in Items /\ "route" \notin Readers
  BY DEF Shape, TypeOK, DelType, Readers
<1>1. CASE DropScript(e)
  <2> DEFINE R == {x \in Items : row[x].script = e.script}
  <2>1. Step("route", Resting, R) /\ R \in SUBSET Items /\ row' = Without(R)
    BY <1>1 DEF DropScript
  <2>2. script' \in [Scripts -> ScriptType]
    <3>1. script \in [Scripts -> ScriptType] /\ e.script \in Scripts
      BY <1>0, <1>1 DEF Shape, TypeOK, ScriptType, DelType, DropScript
    <3>2. [script[e.script] EXCEPT !.state = "gone"] \in ScriptType
      BY <3>1 DEF ScriptType
    <3>3. \E r \in ScriptType : script' = [script EXCEPT ![e.script] = r]
      BY <1>1, <3>1, <3>2 DEF DropScript
    <3>4. QED BY <3>1, <3>3
  <2>3. lost' \subseteq Items
    BY <1>1 DEF DropScript, Shape, TypeOK
  <2> HIDE DEF R
  <2>4. WorkOK'
    BY <1>0, <2>1, StepKeeps DEF Shape, WorkOK
  <2>5. row' \in [Items -> RowType] /\ ScriptsAreFiles'
    BY <2>1, RowsGo
  <2>6. RestTyped' /\ TokensOK'
    BY <1>0, <1>1, <2>2, <2>3, <2>5 DEF DropScript, Shape, TypeOK, RestTyped, TokensOK, RowType, ScriptType, drive
  <2>7. QED BY <2>4, <2>5, <2>6, ShapeNext
<1>2. CASE DropAsset(e)
  <2> DEFINE R == IF e.same THEN Subtree(e.id) ELSE Subtree(e.id) \ {e.id}
  <2>1. R \in SUBSET Items
    BY <1>0 DEF Subtree
  <2>2. /\ Step("route", Resting, R) /\ row' = Without(R)
        /\ del' = NotSame(R) \ {e, [e EXCEPT !.same = FALSE]}
        /\ lost' = lost \cup {x \in R : ~InTrash(x)} /\ doubled' = doubled \cup Unlinked(R)
    BY <1>2 DEF DropAsset
  <2> HIDE DEF R
  <2>3. WorkOK'
    BY <1>0, <2>1, <2>2, StepKeeps DEF Shape, WorkOK
  <2>4. row' \in [Items -> RowType] /\ ScriptsAreFiles'
    BY <2>2, RowsGo
  <2>5. del' \subseteq DelType
    BY <2>2, NotSameIs DEF Shape, DelType
  <2>6. lost' \subseteq Items /\ doubled' \subseteq Files
    BY <2>1, <2>2 DEF Unlinked, Shape, TypeOK, ScriptsAreFiles
  <2>7. RestTyped' /\ TokensOK'
    BY <1>2, <2>4, <2>5, <2>6 DEF DropAsset, Shape, TypeOK, RestTyped, TokensOK, RowType, DelType, drive
  <2>8. QED BY <2>3, <2>4, <2>7, ShapeNext
<1>3. QED BY <1>1, <1>2

LEMMA CrashShape ==
  ASSUME Shape, Crash \/ \E w \in Readers, s \in Scripts : CrashInPull(w, s)
  PROVE  Shape'
<1>1. Dies
  BY DEF Crash, CrashInPull
<1>2. WorkOK'
  BY <1>1, RestingIs DEF Dies, WorkOK, ReadersOK
<1>3. push' = {} /\ del' = {} /\ renew' = {} /\ steps' \in Nat
  BY <1>1 DEF Dies, Counts, Shape, TypeOK
<1>4. lost' \subseteq Items /\ stale' \subseteq Items
  <2>1. ReaderOK("delta", work["delta"]) /\ work["project"].dirty \subseteq Items
    BY RecordIs DEF Shape, ReadersOK, Readers, Record
  <2> DEFINE left == {h.id : h \in work["delta"].todo \cup work["delta"].at}
  <2>2. left \in SUBSET Items
    BY <2>1 DEF ReaderOK
  <2>3. About(left) \in SUBSET Items
    BY <2>2, AboutIsItems
  <2>4. lost' = lost \cup (About(left) \cup work["project"].dirty) /\ stale' = stale \cup (About(left) \cup work["project"].dirty)
    BY <1>1 DEF Dies
  <2> HIDE DEF left
  <2>5. QED BY <2>1, <2>3, <2>4 DEF Shape, TypeOK
<1>5. CASE Crash
  <2>1. RestTyped' /\ TokensOK' /\ ScriptsAreFiles'
    BY <1>3, <1>4, <1>5 DEF Crash, Shape, TypeOK, RestTyped, TokensOK, ScriptsAreFiles, drive, tables
  <2>2. QED BY <1>2, <2>1, ShapeNext
<1>6. CASE \E w \in Readers, s \in Scripts : CrashInPull(w, s)
  <2>1. PICK w \in Readers, s \in Scripts : CrashInPull(w, s)
    BY <1>6
  <2>2. PICK h \in work[w].at : script' = [script EXCEPT ![s] = [state |-> "there", file |-> h.id]] /\ doubled' = doubled \cup {h.id}
    BY <2>1 DEF CrashInPull
  <2>3. h.id \in Files
    BY <2>1, AtIs DEF CrashInPull
  <2>4. script' \in [Scripts -> ScriptType] /\ doubled' \subseteq Files
    BY <2>2, <2>3 DEF Shape, TypeOK, ScriptType
  <2>5. RestTyped' /\ TokensOK' /\ ScriptsAreFiles'
    BY <1>3, <1>4, <2>1, <2>4 DEF CrashInPull, Shape, TypeOK, RestTyped, TokensOK, ScriptsAreFiles, drive, ScriptType
  <2>6. QED BY <1>2, <2>5, ShapeNext
<1>7. QED BY <1>5, <1>6

LEMMA ShapeStep ==
  ASSUME Shape, [Next]_vars
  PROVE  Shape'
<1>1. CASE DriveUser
  BY <1>1, DriveShape
<1>2. CASE Reading
  <2>1. CASE \E w \in Readers : Read(w)
    <3>1. PICK w \in Readers : Read(w)
      BY <2>1
    <3>2. QED BY <3>1, RootShape, EndShape, DropRowShape, FileShape, DownloadedShape, FolderShape, FoundShape DEF Read
  <2>2. CASE Prune
    BY <2>2, EndShape DEF Readers
  <2>3. QED BY <1>2, <2>1, <2>2, StartShape, DeltaShape, ProjectStartsShape, CollectShape DEF Reading
<1>3. CASE Renewal
  BY <1>3, RenewalShape
<1>4. CASE Route
  BY <1>4, ScriptRouteShape, PushShape, TrashShape, DropShape DEF Route
<1>5. CASE Crash \/ \E w \in Readers, s \in Scripts : CrashInPull(w, s)
  BY <1>5, CrashShape
<1>6. CASE UNCHANGED vars
  BY <1>6 DEF vars, drive, tables, routes, ghosts, Shape, TypeOK, ReadersOK, TokensOK, ScriptsAreFiles
<1>7. QED BY <1>1, <1>2, <1>3, <1>4, <1>5, <1>6 DEF Next

-----------------------------------------------------------------------------
(* What a step does to the readers *)

\* Reader w starts no delta or scan, learns of no item that does not exist, begins no download.
Calm(w, r) ==
  /\ w = "project" \/ r.kind \in {work[w].kind, "idle"}
  /\ \A h \in r.todo \cup r.at :
       \/ \E g \in work[w].todo \cup work[w].at : g.id = h.id
       \/ h.id \in Items => place[h.id] # "none"
  /\ r.pc = "download" => work[w].pc = "download" /\ r.at \subseteq work[w].at

CalmWork == \A w \in Readers : Calm(w, work'[w])

LEMMA StepElsewhere ==
  ASSUME TypeOK, NEW w, NEW r, NEW S, Step(w, r, S), NEW v \in Readers, v # w
  PROVE  /\ work'[v].kind = work[v].kind /\ work'[v].pc = work[v].pc
         /\ work'[v].todo = work[v].todo /\ work'[v].at = work[v].at
  BY RecordIs DEF Step, Record

LEMMA StepCalm ==
  ASSUME TypeOK, NEW w, NEW r, NEW S, Step(w, r, S), w \in Readers => Calm(w, r)
  PROVE  CalmWork
<1> SUFFICES ASSUME NEW v \in Readers
             PROVE  Calm(v, work'[v])
  BY DEF CalmWork
<1>1. CASE v = w
  BY <1>1 DEF Step
<1>2. CASE v # w
  BY <1>2, StepElsewhere DEF Calm
<1>3. QED BY <1>1, <1>2

LEMMA SameCalm == UNCHANGED work => CalmWork
  BY DEF CalmWork, Calm

LEMMA RestingCalm == \A w \in Readers : Calm(w, Resting)
  BY DEF Calm, Resting

LEMMA RestCalm ==
  ASSUME TypeOK, NEW w \in Readers, NEW h
  PROVE  Calm(w, Rest(w, h))
  BY RecordIs DEF Calm, Rest, Record

LEMMA ChangesCalm ==
  ASSUME TypeOK, NEW x, NEW p, NEW t, Changes(x, p, t)
  PROVE  CalmWork
  BY StepCalm, "drive" \notin Readers DEF Changes, Readers

\* Items that are found exist: the change feed and the listings name them.
LEMMA ShownCalm ==
  ASSUME Shape, NEW w \in Readers, NEW r, NEW S \in SUBSET Items,
         r.kind = work[w].kind, r.at \subseteq work[w].at,
         r.pc = "download" => work[w].pc = "download",
         \A x \in S : place[x] # "none",
         \A h \in r.todo : h \in work[w].todo \/ \E x \in S : h = Seen(x)
  PROVE  Calm(w, r)
<1>1. \A x \in S : Seen(x).id = x
  BY SeenIs DEF Shape
<1>2. QED BY <1>1 DEF Calm

LEMMA ChildrenExist == \A p \in Items \cup {"assets", "scripts"} : \A x \in Children(p) : x \in Items /\ place[x] # "none"
  BY DriveAssumption DEF Children, Roots

LEMMA ReadCalm ==
  ASSUME Shape, Locked, NEW w \in Readers, Read(w)
  PROVE  CalmWork \/ \E h \in work[w].todo : PullScript(w, h)
<1>1. work[w] \in Record /\ ReaderOK(w, work[w])
  BY RecordIs DEF Shape, ReadersOK
<1>2. CASE RootListed(w)
  <2> DEFINE kids == IF work[w].kind = "scripts" THEN Children("scripts") \cap Files ELSE Children("assets")
             r == [work[w] EXCEPT !.pc = "loop", !.todo = {Seen(x) : x \in kids}]
  <2>1. kids \in SUBSET Items /\ \A x \in kids : place[x] # "none"
    BY ChildrenExist
  <2>2. Step(w, r, {})
    BY <1>2 DEF RootListed
  <2> HIDE DEF kids
  <2>3. r.kind = work[w].kind /\ r.pc = "loop" /\ r.at = work[w].at /\ r.todo = {Seen(x) : x \in kids}
    BY <1>1 DEF Record
  <2> HIDE DEF r
  <2>4. Calm(w, r)
    BY <2>1, <2>3, ShownCalm
  <2>5. QED BY <2>2, <2>4, StepCalm DEF Shape
<1>3. CASE ReaderFails(w) \/ Finish(w)
  BY <1>3, RestingCalm, StepCalm DEF ReaderFails, Finish, Shape
<1>4. CASE \E h \in work[w].todo : DropRow(w, h) \/ SkipFile(w, h) \/ UpdateRow(w, h) \/ IndexFile(w, h)
  BY <1>4, RestCalm, StepCalm DEF DropRow, SkipFile, UpdateRow, IndexFile, Shape
<1>5. CASE \E h \in work[w].todo : OpenFolder(w, h)
  <2>1. PICK h \in work[w].todo : \E pc \in {"meta", "listing"} : Step(w, Awaits(w, h, pc), {h.id})
    BY <1>5 DEF OpenFolder
  <2>2. PICK pc \in {"meta", "listing"} : Step(w, Awaits(w, h, pc), {h.id})
    BY <2>1
  <2>3. Calm(w, Awaits(w, h, pc))
    BY <1>1 DEF Calm, Awaits, Record
  <2>4. QED BY <2>2, <2>3, StepCalm DEF Shape
<1>6. CASE \E s \in Scripts : Downloaded(w, s)
  BY <1>6, RestCalm, StepCalm DEF Downloaded, Shape
<1>7. CASE FolderFound(w)
  <2>1. PICK h \in work[w].at : Step(w, Rest(w, h), {h.id}) \/ Step(w, [work[w] EXCEPT !.pc = "listing"], {h.id})
    BY <1>7 DEF FolderFound
  <2>2. Calm(w, [work[w] EXCEPT !.pc = "listing"])
    BY <1>1 DEF Calm, Record
  <2>3. QED BY <2>1, <2>2, RestCalm, StepCalm DEF Shape
<1>8. CASE FolderListed(w)
  <2>1. PICK h \in work[w].at :
          Step(w, [Rest(w, h) EXCEPT !.todo = @ \cup {Seen(x) : x \in Children(h.id) \cap Files}], {h.id})
    BY <1>8 DEF FolderListed
  <2> DEFINE kids == Children(h.id) \cap Files
             r == [Rest(w, h) EXCEPT !.todo = @ \cup {Seen(x) : x \in kids}]
  <2>2. kids \in SUBSET Items /\ \A x \in kids : place[x] # "none"
    BY <1>8, AtIs, ChildrenExist DEF FolderListed
  <2>3. Step(w, r, {h.id})
    BY <2>1
  <2> HIDE DEF kids
  <2>4. /\ r.kind = work[w].kind /\ r.pc = "loop" /\ r.at = {}
        /\ r.todo = (work[w].todo \ {h}) \cup {Seen(x) : x \in kids}
    BY <1>1 DEF Record, Rest
  <2> HIDE DEF r
  <2>5. Calm(w, r)
    BY <2>2, <2>4, ShownCalm
  <2>6. QED BY <2>3, <2>5, StepCalm DEF Shape
<1>9. CASE ItemFails(w)
  <2>1. PICK h \in work[w].at : Step(w, [Rest(w, h) EXCEPT !.flawed = TRUE], {h.id})
    BY <1>9 DEF ItemFails
  <2>2. Calm(w, [Rest(w, h) EXCEPT !.flawed = TRUE])
    BY <1>1 DEF Calm, Rest, Record
  <2>3. QED BY <2>1, <2>2, StepCalm DEF Shape
<1>10. QED BY <1>2, <1>3, <1>4, <1>5, <1>6, <1>7, <1>8, <1>9 DEF Read

\* Every step is calm but for a delta or a scan that starts and a script that is pulled.
LEMMA WorkSteps ==
  ASSUME Shape, Locked, Fresh, [Next]_vars
  PROVE  \/ CalmWork
         \/ StartDelta \/ \E k \in {"assets", "scripts"} : StartScan(k)
         \/ \E w \in Readers : \E h \in work[w].todo : PullScript(w, h)
<1>1. CASE DriveUser
  BY <1>1, ChangesCalm DEF DriveUser, UserPuts, UserTrashes, UserRestores, Shape
<1>2. CASE Delta
  <2> DEFINE w == work["delta"]
             S == ChangedIn(w.from, Len(log))
             r == [w EXCEPT !.pc = "loop", !.todo = {Seen(x) : x \in S}, !.from = 0, !.mine = TRUE]
  <2>1. w \in Record /\ "delta" \in Readers
    BY RecordIs DEF Shape, Readers
  <2>2. S \in SUBSET Items
    BY <2>1, ChangedIs, ShapeIs DEF Record, Shape, TypeOK
  <2>3. \A x \in S : place[x] # "none"
    <3>1. \A x \in S : \E i \in 1..Len(log) : log[i] = x
      BY <2>1 DEF ChangedIn, Record
    <3>2. QED BY <2>2, <3>1 DEF Fresh, Named
  <2>4. Step("delta", r, S)
    BY <1>2 DEF Delta
  <2> HIDE DEF S
  <2>5. r.kind = w.kind /\ r.pc = "loop" /\ r.at = w.at /\ r.todo = {Seen(x) : x \in S}
    BY <2>1 DEF Record
  <2> HIDE DEF r
  <2>6. Calm("delta", r)
    BY <2>1, <2>2, <2>3, <2>5, ShownCalm
  <2>7. QED BY <2>4, <2>6, StepCalm DEF Shape
<1>3. CASE StartProject
  <2>1. PICK D : Step("project", [Resting EXCEPT !.kind = "project", !.pc = "collecting",
                   !.todo = {[id |-> "assets", parent |-> "none", gone |-> FALSE]}, !.dirty = D], {})
    BY <1>3 DEF StartProject
  <2>2. Calm("project", [Resting EXCEPT !.kind = "project", !.pc = "collecting",
                   !.todo = {[id |-> "assets", parent |-> "none", gone |-> FALSE]}, !.dirty = D])
    BY DriveAssumption DEF Calm, Resting, Roots
  <2>3. QED BY <2>1, <2>2, StepCalm DEF Shape
<1>4. CASE Prune
  BY <1>4, RestingCalm, StepCalm DEF Prune, Shape
<1>5. CASE \E h \in work["project"].todo : Collect(h)
  <2>1. PICK h \in work["project"].todo : Collect(h)
    BY <1>5
  <2> DEFINE w == work["project"]
             kids == Children(h.id) \cap Folders
             rest == (w.todo \ {h}) \cup {Seen(x) : x \in kids}
             r == [w EXCEPT !.live = @ \cup Children(h.id), !.todo = rest,
                            !.pc = IF rest = {} THEN "asking" ELSE @]
  <2>2. w \in Record /\ "project" \in Readers /\ w.pc = "collecting"
    BY <2>1, RecordIs DEF Shape, Readers, Collect
  <2>3. h.id \in Items \cup {"assets"}
    BY <2>2 DEF Record, Handles
  <2>4. kids \in SUBSET Items /\ \A x \in kids : place[x] # "none"
    BY <2>3, ChildrenExist
  <2>5. Step("project", r, {})
    BY <2>1 DEF Collect
  <2> HIDE DEF kids
  <2>6. r.kind = w.kind /\ r.pc # "download" /\ r.at = w.at /\ r.todo = (w.todo \ {h}) \cup {Seen(x) : x \in kids}
    BY <2>2 DEF Record
  <2> HIDE DEF r
  <2>7. Calm("project", r)
    BY <2>2, <2>4, <2>6, ShownCalm
  <2>8. QED BY <2>5, <2>7, StepCalm DEF Shape
<1>6. CASE \E w \in Readers : Read(w)
  BY <1>6, ReadCalm
<1>7. CASE Renewal
  <2>1. CASE DropChannel
    <3>1. Calm("delta", [work["delta"] EXCEPT !.mine = (@ /\ work["delta"].pc # "asking")])
      BY RecordIs DEF Calm, Record, Shape, Readers
    <3>2. QED BY <2>1, <3>1, StepCalm DEF DropChannel, Shape
  <2>2. QED BY <1>7, <2>1, SameCalm DEF Renewal, FetchToken, Registered, RenewalFails
<1>8. CASE Route
  <2>1. CASE \E x : Trash(x)
    BY <2>1, SameCalm, ChangesCalm DEF Trash, Shape
  <2>2. CASE \E s \in Scripts : AddScript(s) \/ DeleteUnlinked(s) \/ ForgetScript(s)
    BY <2>2, SameCalm DEF AddScript, DeleteUnlinked, ForgetScript
  <2>3. CASE \E p \in push : PushAnswered(p) \/ PushFails(p) \/ \E x \in Files : PushArrives(p, x)
    BY <2>3, SameCalm, ChangesCalm, StepCalm, "push" \notin Readers DEF PushAnswered, PushFails, PushArrives, Shape, Readers
  <2>4. CASE \E e \in del : DropScript(e) \/ DropAsset(e)
    BY <2>4, StepCalm, "route" \notin Readers DEF DropScript, DropAsset, Shape, Readers
  <2>5. QED BY <1>8, <2>1, <2>2, <2>3, <2>4 DEF Route, TrashScript, TrashAsset
<1>9. CASE Crash \/ \E w \in Readers, s \in Scripts : CrashInPull(w, s)
  BY <1>9, RestingCalm DEF Crash, CrashInPull, Dies, CalmWork
<1>10. CASE UNCHANGED vars
  BY <1>10, SameCalm DEF vars
<1>11. QED BY <1>1, <1>2, <1>3, <1>4, <1>5, <1>6, <1>7, <1>8, <1>9, <1>10 DEF Next, Reading

LEMMA LockedStep ==
  ASSUME Shape, Locked, Fresh, [Next]_vars
  PROVE  Locked'
<1>1. CASE CalmWork
  BY <1>1 DEF CalmWork, Calm, Locked, Readers
<1>2. CASE StartDelta \/ \E k \in {"assets", "scripts"} : StartScan(k)
  BY <1>2, StepElsewhere DEF StartDelta, StartScan, LockFree, Locked, Readers, Shape
<1>3. CASE \E w \in Readers : \E h \in work[w].todo : PullScript(w, h)
  <2>1. PICK w \in Readers : \E h \in work[w].todo : Step(w, Awaits(w, h, "download"), {h.id})
    BY <1>3 DEF PullScript
  <2>2. \A v \in Readers : work'[v].kind = work[v].kind
    BY <2>1, StepElsewhere, RecordIs DEF Step, Awaits, Record, Shape
  <2>3. QED BY <2>2 DEF Locked, Readers
<1>4. QED BY <1>1, <1>2, <1>3, WorkSteps

-----------------------------------------------------------------------------
(* An item that does not exist is known nowhere *)

LEMMA DriveSteps ==
  ASSUME Shape, Fresh, [Next]_vars
  PROVE  \/ UNCHANGED drive
         \/ \E x \in Items, p \in Places : \E t : p # "none" /\ t \subseteq trashed \cup {x} /\ Changes(x, p, t)
<1>1. CASE DriveUser
  <2>1. PICK x \in Items : (\E p \in Roots \cup Folders : UserPuts(x, p)) \/ UserTrashes(x) \/ UserRestores(x)
    BY <1>1 DEF DriveUser
  <2>2. CASE \E p \in Roots \cup Folders : UserPuts(x, p)
    BY <2>2, DriveAssumption DEF UserPuts, Places, Roots, Items
  <2>3. CASE UserTrashes(x)
    BY <2>3 DEF UserTrashes, Shape, TypeOK
  <2>4. CASE UserRestores(x)
    BY <2>4 DEF UserRestores, Shape, TypeOK, Fresh, Named
  <2>5. QED BY <2>1, <2>2, <2>3, <2>4
<1>2. CASE Route
  <2>1. CASE \E x \in Items : Named(x) /\ Trash(x)
    BY <2>1 DEF Trash, Fresh, Shape, TypeOK
  <2>2. CASE \E s \in Scripts : TrashScript(s)
    BY <2>1, <2>2 DEF TrashScript, Named, Shape, TypeOK, Items
  <2>3. CASE \E x \in Items : TrashAsset(x)
    BY <2>1, <2>3 DEF TrashAsset, Named
  <2>4. CASE \E p \in push : \E x \in Files : PushArrives(p, x)
    BY <2>4 DEF PushArrives, Places, Roots, Items
  <2>5. QED BY <1>2, <2>2, <2>3, <2>4 DEF Route, AddScript, DeleteUnlinked, ForgetScript, PushAnswered, PushFails, DropScript, DropAsset
<1>3. CASE Reading
  <2>1. \A w \in Readers : \A h : DropRow(w, h) \/ SkipFile(w, h) \/ UpdateRow(w, h) \/ IndexFile(w, h) \/ PullScript(w, h) \/ OpenFolder(w, h) => UNCHANGED drive
    BY DEF DropRow, SkipFile, UpdateRow, IndexFile, PullScript, OpenFolder
  <2>2. \A w \in Readers : RootListed(w) \/ ReaderFails(w) \/ Finish(w) => UNCHANGED drive
    BY DEF RootListed, ReaderFails, Finish
  <2>3. \A w \in Readers : FolderFound(w) \/ FolderListed(w) \/ ItemFails(w) => UNCHANGED drive
    BY DEF FolderFound, FolderListed, ItemFails
  <2>4. \A w \in Readers, s \in Scripts : Downloaded(w, s) => UNCHANGED drive
    BY DEF Downloaded
  <2>5. \A w \in Readers : Read(w) => UNCHANGED drive
    BY <2>1, <2>2, <2>3, <2>4 DEF Read
  <2>6. QED BY <1>3, <2>5 DEF Reading, StartDelta, Delta, StartProject, Prune, StartScan, Collect
<1>4. CASE Renewal
  BY <1>4 DEF Renewal, DropChannel, FetchToken, Registered, RenewalFails
<1>5. CASE Crash \/ \E w \in Readers, s \in Scripts : CrashInPull(w, s)
  BY <1>5 DEF Crash, CrashInPull
<1>6. CASE UNCHANGED vars
  BY <1>6 DEF vars
<1>7. QED BY <1>1, <1>2, <1>3, <1>4, <1>5, <1>6 DEF Next

LEMMA PlaceSteps ==
  ASSUME Shape, Fresh, [Next]_vars
  PROVE  /\ \A x \in Items : place[x] # "none" => place'[x] # "none"
         /\ \A x \in Items : (\E i \in 1..Len(log') : log'[i] = x) \/ x \in trashed' => place'[x] # "none"
<1>1. CASE UNCHANGED drive
  BY <1>1 DEF drive, Fresh, Named
<1>2. CASE \E x \in Items, p \in Places : \E t : p # "none" /\ t \subseteq trashed \cup {x} /\ Changes(x, p, t)
  <2>8. PICK x \in Items, p \in Places : \E t : p # "none" /\ t \subseteq trashed \cup {x} /\ Changes(x, p, t)
    BY <1>2
  <2>1. PICK t : p # "none" /\ t \subseteq trashed \cup {x} /\ Changes(x, p, t)
    BY <2>8
  <2>2. place' = [place EXCEPT ![x] = p] /\ trashed' \subseteq trashed \cup {x} /\ log' = Append(log, x)
    BY <2>1 DEF Changes
  <2>3. \A y \in Items : place[y] # "none" => place'[y] # "none"
    BY <2>1, <2>2 DEF Shape, TypeOK
  <2>4. place'[x] # "none"
    BY <2>1, <2>2 DEF Shape, TypeOK
  <2>5. \A i \in 1..Len(log') : log'[i] = x \/ \E j \in 1..Len(log) : log[j] = log'[i]
    BY <2>2 DEF Shape, TypeOK
  <2>6. \A y \in Items : (\E i \in 1..Len(log') : log'[i] = y) \/ y \in trashed' => y = x \/ Named(y)
    BY <2>2, <2>5 DEF Named
  <2>7. QED BY <2>3, <2>4, <2>6 DEF Fresh
<1>3. QED BY <1>1, <1>2, DriveSteps

\* No step puts an unknown item in the tables, nor in a push, but the file a push just made.
TableNames ==
  /\ \A s \in Scripts : script'[s].file # NoFile => Named(script'[s].file)
  /\ \A x \in Items : row'[x].kind # "none" => Named(x)
  /\ \A p \in push' : p.file # NoFile => Named(p.file) \/ place'[p.file] # "none"

LEMMA SameTables ==
  ASSUME \A s \in Scripts : script'[s].file \in {script[s].file, NoFile},
         \A x \in Items : row'[x].kind \in {row[x].kind, "none"},
         push' \subseteq push
  PROVE  TableNames
  BY DEF TableNames, Named

LEMMA ReadNames ==
  ASSUME Shape, NEW w \in Readers, Read(w)
  PROVE  TableNames
<1>1. row \in [Items -> RowType] /\ script \in [Scripts -> ScriptType]
  BY DEF Shape, TypeOK, RowType, ScriptType
<1>2. CASE RootListed(w) \/ ReaderFails(w) \/ Finish(w) \/ FolderListed(w) \/ ItemFails(w)
  BY <1>2, SameTables DEF RootListed, ReaderFails, Finish, FolderListed, ItemFails, tables, routes
<1>3. CASE \E h \in work[w].todo : SkipFile(w, h) \/ PullScript(w, h) \/ OpenFolder(w, h)
  BY <1>3, SameTables DEF SkipFile, PullScript, OpenFolder, tables, routes
<1>4. CASE \E h \in work[w].todo : DropRow(w, h)
  <2>1. PICK R : row' = Without(R)
    BY <1>4 DEF DropRow
  <2>2. \A x \in Items : row'[x].kind \in {row[x].kind, "none"}
    BY <2>1 DEF Without, NoRow
  <2>3. \A s \in Scripts : script'[s].file = script[s].file
    BY <1>1, <1>4 DEF DropRow, ScriptType
  <2>4. QED BY <1>4, <2>2, <2>3, SameTables DEF DropRow
<1>5. CASE \E h \in work[w].todo : UpdateRow(w, h)
  <2>1. \A x \in Items : row'[x].kind = row[x].kind
    BY <1>1, <1>5 DEF UpdateRow, RowType
  <2>2. QED BY <1>5, <2>1, SameTables DEF UpdateRow, routes
<1>6. CASE \E h \in work[w].todo : IndexFile(w, h)
  <2>1. PICK h \in work[w].todo : IndexFile(w, h)
    BY <1>6
  <2>2. \A x \in Items : x = h.id \/ row'[x].kind = row[x].kind
    BY <1>1, <2>1 DEF IndexFile
  <2>3. QED BY <2>1, <2>2 DEF IndexFile, TableNames, Named, routes
<1>7. CASE \E s \in Scripts : Downloaded(w, s)
  <2>1. PICK s \in Scripts : Downloaded(w, s)
    BY <1>7
  <2>2. PICK h \in work[w].at :
          /\ script' = [script EXCEPT ![s] = [state |-> "there", file |-> h.id]]
          /\ row' = [row EXCEPT ![h.id] = [kind |-> "script", parent |-> h.parent, script |-> s]]
    BY <2>1 DEF Downloaded
  <2>3. \A x \in Items : x = h.id \/ row'[x].kind = row[x].kind
    BY <1>1, <2>2
  <2>4. \A t \in Scripts : script'[t].file \in {script[t].file, h.id}
    BY <1>1, <2>2
  <2>5. push' = push
    BY <2>1 DEF Downloaded
  <2>6. QED BY <2>3, <2>4, <2>5 DEF TableNames, Named
<1>8. CASE FolderFound(w)
  <2>1. PICK h \in work[w].at : row' = row \/ row' = [row EXCEPT ![h.id] = Indexed(place[h.id])]
    BY <1>8 DEF FolderFound
  <2>2. \A x \in Items : x = h.id \/ row'[x].kind = row[x].kind
    BY <1>1, <2>1
  <2>3. QED BY <1>8, <2>2 DEF FolderFound, TableNames, Named
<1>9. QED BY <1>2, <1>3, <1>4, <1>5, <1>6, <1>7, <1>8 DEF Read

LEMMA TableSteps ==
  ASSUME Shape, [Next]_vars
  PROVE  TableNames
<1>1. row \in [Items -> RowType] /\ script \in [Scripts -> ScriptType] /\ push \subseteq PushType
  BY DEF Shape, TypeOK, RowType, ScriptType, PushType
<1>2. CASE DriveUser
  BY <1>2, SameTables DEF DriveUser, UserPuts, UserTrashes, UserRestores, tables, routes
<1>3. CASE \E w \in Readers : Read(w)
  BY <1>3, ReadNames
<1>4. CASE Reading /\ ~\E w \in Readers : Read(w)
  <2>1. CASE Prune
    <3>1. PICK R : row' = Without(R)
      BY <2>1 DEF Prune
    <3>2. \A x \in Items : row'[x].kind \in {row[x].kind, "none"}
      BY <3>1 DEF Without, NoRow
    <3>3. QED BY <2>1, <3>2, SameTables DEF Prune
  <2>2. QED BY <1>4, <2>1, SameTables DEF Reading, StartDelta, Delta, StartProject, StartScan, Collect, tables, routes
<1>5. CASE Renewal
  BY <1>5, SameTables DEF Renewal, DropChannel, FetchToken, Registered, RenewalFails, tables, routes
<1>6. CASE \E s \in Scripts : AddScript(s) \/ DeleteUnlinked(s) \/ ForgetScript(s)
  <2>1. PICK s \in Scripts : AddScript(s) \/ DeleteUnlinked(s) \/ ForgetScript(s)
    BY <1>6
  <2>2. \A t \in Scripts : script'[t].file \in {script[t].file, NoFile}
    BY <1>1, <2>1 DEF AddScript, DeleteUnlinked, ForgetScript, ScriptType
  <2>3. \A p \in push' : p \in push \/ p.file = NoFile
    BY <2>1 DEF AddScript, DeleteUnlinked, ForgetScript, routes
  <2>4. row' = row
    BY <2>1 DEF AddScript, DeleteUnlinked, ForgetScript
  <2>5. QED BY <2>2, <2>3, <2>4 DEF TableNames, Named
<1>7. CASE \E s \in Scripts : TrashScript(s)
  BY <1>7, SameTables DEF TrashScript, tables
<1>8. CASE \E x \in Items : TrashAsset(x)
  BY <1>8, SameTables DEF TrashAsset, tables
<1>9. CASE \E p \in push : PushFails(p)
  BY <1>9, SameTables DEF PushFails, tables
<1>10. CASE \E p \in push : PushAnswered(p)
  <2>1. PICK p \in push : PushAnswered(p)
    BY <1>10
  <2>2. \A t \in Scripts : script'[t].file \in {script[t].file, p.file}
    BY <1>1, <2>1 DEF PushAnswered, ScriptType
  <2>3. \A x \in Items : x = p.file \/ row'[x].kind = row[x].kind
    BY <1>1, <2>1 DEF PushAnswered
  <2>4. push' \subseteq push
    BY <2>1 DEF PushAnswered
  <2>5. QED BY <2>2, <2>3, <2>4 DEF TableNames, Named
<1>11. CASE \E p \in push : \E x \in Files : PushArrives(p, x)
  <2>1. PICK p \in push, x \in Files : PushArrives(p, x)
    BY <1>11
  <2>2. place'[x] # "none"
    BY <2>1 DEF PushArrives, Changes, Shape, TypeOK, Items
  <2>3. \A q \in push' : q \in push \/ q.file = x
    BY <1>1, <2>1 DEF PushArrives, PushType
  <2>4. QED BY <2>1, <2>2, <2>3 DEF PushArrives, tables, TableNames, Named
<1>12. CASE \E e \in del : DropScript(e) \/ DropAsset(e)
  <2>1. PICK e \in del : DropScript(e) \/ DropAsset(e)
    BY <1>12
  <2>2. \A s \in Scripts : script'[s].file = script[s].file
    BY <1>1, <2>1 DEF DropScript, DropAsset, ScriptType
  <2>3. PICK R : row' = Without(R)
    BY <2>1 DEF DropScript, DropAsset
  <2>4. \A x \in Items : row'[x].kind \in {row[x].kind, "none"}
    BY <2>3 DEF Without, NoRow
  <2>5. QED BY <2>1, <2>2, <2>4, SameTables DEF DropScript, DropAsset
<1>13. CASE Crash
  BY <1>13, SameTables DEF Crash, Dies, tables
<1>14. CASE \E w \in Readers, s \in Scripts : CrashInPull(w, s)
  <2>1. PICK w \in Readers, s \in Scripts : CrashInPull(w, s)
    BY <1>14
  <2>2. PICK h \in work[w].at : script' = [script EXCEPT ![s] = [state |-> "there", file |-> h.id]]
    BY <2>1 DEF CrashInPull
  <2>3. \A t \in Scripts : script'[t].file \in {script[t].file, h.id}
    BY <1>1, <2>2
  <2>4. row' = row /\ push' = {}
    BY <2>1 DEF CrashInPull, Dies
  <2>5. QED BY <2>3, <2>4 DEF TableNames, Named
<1>15. CASE UNCHANGED vars
  BY <1>15, SameTables DEF vars, tables, routes
<1>16. CASE Reading
  BY <1>3, <1>4, <1>16
<1>17. CASE Route
  BY <1>6, <1>7, <1>8, <1>9, <1>10, <1>11, <1>12, <1>17 DEF Route
<1>18. QED BY <1>2, <1>5, <1>13, <1>14, <1>15, <1>16, <1>17 DEF Next

LEMMA StartsEmpty ==
  ASSUME Shape, StartDelta \/ \E k \in {"assets", "scripts"} : StartScan(k)
  PROVE  \A w \in Readers : /\ work'[w].todo \subseteq work[w].todo /\ work'[w].at \subseteq work[w].at
                            /\ work'[w].pc = "download" => work[w].pc = "download"
<1>4. PICK w \in Readers : \E r : Step(w, r, {}) /\ r.todo = {} /\ r.at = {} /\ r.pc = "asking"
  <2>1. CASE StartDelta
    <3>1. PICK t \in channel :
            Step("delta", [Resting EXCEPT !.kind = "delta", !.pc = "asking", !.from = t], {})
      BY <2>1 DEF StartDelta
    <3> DEFINE d == [Resting EXCEPT !.kind = "delta", !.pc = "asking", !.from = t]
    <3>2. d.todo = {} /\ d.at = {} /\ d.pc = "asking"
      BY DEF Resting
    <3>3. Step("delta", d, {})
      BY <3>1
    <3> HIDE DEF d
    <3>4. "delta" \in Readers
      BY DEF Readers
    <3>5. QED BY <3>2, <3>3, <3>4
  <2>2. CASE \E k \in {"assets", "scripts"} : StartScan(k)
    <3>1. PICK k \in {"assets", "scripts"} : Step("scan", [Resting EXCEPT !.kind = k, !.pc = "asking"], {})
      BY <2>2 DEF StartScan
    <3> DEFINE d == [Resting EXCEPT !.kind = k, !.pc = "asking"]
    <3>2. d.todo = {} /\ d.at = {} /\ d.pc = "asking"
      BY DEF Resting
    <3>3. Step("scan", d, {})
      BY <3>1
    <3> HIDE DEF d
    <3>4. "scan" \in Readers
      BY DEF Readers
    <3>5. QED BY <3>2, <3>3, <3>4
  <2>3. QED BY <2>1, <2>2
<1>1. PICK r : Step(w, r, {}) /\ r.todo = {} /\ r.at = {} /\ r.pc = "asking"
  BY <1>4
<1>2. work'[w] = r
  BY <1>1 DEF Step
<1>3. QED BY <1>1, <1>2, StepElsewhere DEF Shape

LEMMA FreshStep ==
  ASSUME Shape, Locked, Fresh, [Next]_vars
  PROVE  Fresh'
<1> SUFFICES ASSUME NEW x \in Items, Named(x)'
             PROVE  place'[x] # "none"
  BY DEF Fresh
<1>1. Named(x) => place'[x] # "none"
  BY PlaceSteps DEF Fresh
<1>2. TableNames
  BY TableSteps
<1>3. CASE (\E i \in 1..Len(log') : log'[i] = x) \/ x \in trashed'
  BY <1>3, PlaceSteps
<1>4. CASE \E w \in Readers : \E h \in work'[w].todo \cup work'[w].at : h.id = x
  <2>1. CASE CalmWork
    <3>1. PICK w \in Readers : \E h \in work'[w].todo \cup work'[w].at : h.id = x
      BY <1>4
    <3>2. (\E g \in work[w].todo \cup work[w].at : g.id = x) \/ place[x] # "none"
      BY <2>1, <3>1 DEF CalmWork, Calm
    <3>3. QED BY <1>1, <3>2, PlaceSteps DEF Named
  <2>2. CASE StartDelta \/ \E k \in {"assets", "scripts"} : StartScan(k)
    <3>1. \A w \in Readers : work'[w].todo \subseteq work[w].todo /\ work'[w].at \subseteq work[w].at
      BY <2>2, StartsEmpty
    <3>2. QED BY <1>1, <1>4, <3>1 DEF Named
  <2>3. CASE \E w \in Readers : \E h \in work[w].todo : PullScript(w, h)
    <3>1. PICK w \in Readers : \E h \in work[w].todo : PullScript(w, h)
      BY <2>3
    <3>2. PICK h \in work[w].todo : Step(w, Awaits(w, h, "download"), {h.id})
      BY <3>1 DEF PullScript
    <3>3. \A v \in Readers : work'[v].todo \cup work'[v].at \subseteq work[v].todo \cup work[v].at
      BY <3>2, StepElsewhere, RecordIs DEF Step, Awaits, Record, Shape
    <3>4. QED BY <1>1, <1>4, <3>3 DEF Named
  <2>4. QED BY <2>1, <2>2, <2>3, WorkSteps
<1>5. CASE \E s \in Scripts : script'[s].file = x
  BY <1>1, <1>2, <1>5, DriveAssumption DEF TableNames
<1>6. CASE \E p \in push' : p.file = x
  BY <1>1, <1>2, <1>6, DriveAssumption DEF TableNames
<1>7. CASE row'[x].kind # "none"
  BY <1>1, <1>2, <1>7 DEF TableNames
<1>8. QED BY <1>3, <1>4, <1>5, <1>6, <1>7 DEF Named

-----------------------------------------------------------------------------
(* One script for a file *)

\* A step that gives no script a file and takes from no script the row of its file.
QuietTables ==
  /\ doubled \subseteq doubled'
  /\ \A s \in Scripts, x \in Files : Has(s, x)' => Has(s, x)
  /\ \A s \in Scripts, x \in Files \ doubled' :
       Has(s, x)' => row'[x].kind = row[x].kind /\ row'[x].script = row[x].script
  /\ \A p \in push' : p.file \in Files => p \in push

QuietWork == \A w \in Readers, x \in Files : Downloads(w, x)' => Downloads(w, x)

LEMMA QuietKeeps ==
  ASSUME OwnerInv, QuietTables, QuietWork
  PROVE  OwnerInv'
<1> SUFFICES ASSUME NEW x \in Files \ doubled'
             PROVE  OneOwner(x)'
  BY DEF OwnerInv
<1>1. OneOwner(x)
  BY DEF OwnerInv, QuietTables
<1>2. QED BY <1>1 DEF OneOwner, QuietTables, QuietWork

LEMMA SameQuiet ==
  ASSUME UNCHANGED tables, doubled \subseteq doubled', push' \subseteq push
  PROVE  QuietTables
  BY DEF QuietTables, tables, Has

LEMMA CalmQuiet ==
  ASSUME Shape, Locked, Fresh, [Next]_vars, ~\E w \in Readers : \E h \in work[w].todo : PullScript(w, h)
  PROVE  QuietWork
<1>1. CASE CalmWork
  BY <1>1 DEF CalmWork, Calm, QuietWork, Downloads
<1>2. CASE StartDelta \/ \E k \in {"assets", "scripts"} : StartScan(k)
  BY <1>2, StartsEmpty DEF QuietWork, Downloads
<1>3. QED BY <1>1, <1>2, WorkSteps

\* Rows that go are those of no script, or of files that are excepted from then on, or of
\* scripts that go with them.
LEMMA RowsQuiet ==
  ASSUME Shape, OwnerInv, NEW R, row' = Without(R), push' \subseteq push,
         doubled \subseteq doubled',
         \A s \in Scripts, x \in Files : Has(s, x)' => Has(s, x),
         \A s \in Scripts, x \in R \cap Files :
           row[x].kind = "script" /\ row[x].script = s => x \in doubled' \/ script'[s].state # "there"
  PROVE  QuietTables
<1> SUFFICES ASSUME NEW s \in Scripts, NEW x \in Files \ doubled', Has(s, x)'
             PROVE  row'[x].kind = row[x].kind /\ row'[x].script = row[x].script
  BY DEF QuietTables
<1>1. Has(s, x) /\ x \in Files \ doubled /\ x \in Items
  BY DEF Items
<1>2. row[x].kind = "script" /\ row[x].script = s
  BY <1>1 DEF OwnerInv, OneOwner
<1>3. x \notin R
  BY <1>2 DEF Has
<1>4. QED BY <1>1, <1>3 DEF Without

\* A row that is written is that of an item without a script.
LEMMA WrittenQuiet ==
  ASSUME Shape, OwnerInv, NEW x \in Items, NEW r, row' = [row EXCEPT ![x] = r],
         UNCHANGED <<script, push, doubled>>,
         \/ x \notin Files
         \/ row[x].kind = "none"
         \/ r.kind = row[x].kind /\ r.script = row[x].script
  PROVE  QuietTables
<1>1. row \in [Items -> RowType]
  BY DEF Shape, TypeOK, RowType
<1>2. \A s \in Scripts, y \in Files : Has(s, y)' => Has(s, y)
  BY DEF Has
<1>3. ASSUME NEW s \in Scripts, NEW y \in Files \ doubled', Has(s, y)'
      PROVE  row'[y].kind = row[y].kind /\ row'[y].script = row[y].script
  <2>1. Has(s, y) /\ y \in Files \ doubled /\ y \in Items
    BY <1>2, <1>3 DEF Items
  <2>2. row[y].kind = "script"
    BY <2>1 DEF OwnerInv, OneOwner
  <2>3. QED BY <1>1, <2>1, <2>2
<1>4. QED BY <1>2, <1>3 DEF QuietTables

LEMMA ReadQuiet ==
  ASSUME Shape, OwnerInv, NEW w \in Readers, Read(w), ~\E s \in Scripts : Downloaded(w, s)
  PROVE  QuietTables
<1>1. CASE RootListed(w) \/ ReaderFails(w) \/ Finish(w) \/ FolderListed(w) \/ ItemFails(w)
  BY <1>1, SameQuiet DEF RootListed, ReaderFails, Finish, FolderListed, ItemFails, tables, routes, ghosts
<1>2. CASE \E h \in work[w].todo : SkipFile(w, h) \/ PullScript(w, h) \/ OpenFolder(w, h)
  BY <1>2, SameQuiet DEF SkipFile, PullScript, OpenFolder, tables, routes, ghosts
<1>3. CASE \E h \in work[w].todo : DropRow(w, h)
  <2>1. PICK h \in work[w].todo : DropRow(w, h)
    BY <1>3
  <2> DEFINE x == h.id
             R == IF row[x].kind = "none" THEN {} ELSE IF row[x].kind = "asset" THEN Subtree(x) ELSE {x}
  <2>2. /\ row' = Without(R) /\ push' = push /\ doubled' = doubled \cup (Unlinked(R) \ {x})
        /\ script' = [s \in Scripts |->
             IF row[x].script = s
             THEN [script[s] EXCEPT !.state = IF @ = "there" THEN "gone" ELSE @]
             ELSE script[s]]
    BY <2>1 DEF DropRow
  <2>3. script \in [Scripts -> ScriptType]
    BY DEF Shape, TypeOK, ScriptType
  <2>4. \A s \in Scripts : script'[s].file = script[s].file
    BY <2>2, <2>3 DEF ScriptType
  <2>5. \A s \in Scripts : script'[s].state = "there" => script[s].state = "there" /\ row[x].script # s
    BY <2>2, <2>3 DEF ScriptType
  <2>6. \A y \in R : row[y].kind = "script" => y = x \/ y \in Unlinked(R) \ {x}
    BY DEF Unlinked
  <2>7. \A s \in Scripts, y \in R \cap Files :
          row[y].kind = "script" /\ row[y].script = s => y \in doubled' \/ script'[s].state # "there"
    BY <2>2, <2>5, <2>6
  <2>8. \A s \in Scripts, y \in Files : Has(s, y)' => Has(s, y)
    BY <2>4, <2>5 DEF Has
  <2> HIDE DEF R
  <2>9. QED BY <2>2, <2>7, <2>8, RowsQuiet
<1>4. CASE \E h \in work[w].todo : UpdateRow(w, h) \/ IndexFile(w, h)
  <2>1. PICK h \in work[w].todo : UpdateRow(w, h) \/ IndexFile(w, h)
    BY <1>4
  <2>2. h.id \in Items
    BY <2>1, TakesIs DEF UpdateRow, IndexFile, Known, New
  <2>3. CASE UpdateRow(w, h)
    <3>1. row' = [row EXCEPT ![h.id] = [row[h.id] EXCEPT !.parent = h.parent]]
      BY <2>3 DEF UpdateRow
    <3>2. row[h.id] \in RowType
      BY <2>2 DEF Shape, TypeOK, RowType
    <3>3. /\ [row[h.id] EXCEPT !.parent = h.parent].kind = row[h.id].kind
          /\ [row[h.id] EXCEPT !.parent = h.parent].script = row[h.id].script
      BY <3>2 DEF RowType
    <3>4. QED BY <2>2, <2>3, <3>1, <3>3, WrittenQuiet DEF UpdateRow, routes, ghosts
  <2>4. CASE IndexFile(w, h)
    BY <2>2, <2>4, WrittenQuiet DEF IndexFile, New, routes, ghosts
  <2>5. QED BY <2>1, <2>3, <2>4
<1>5. CASE FolderFound(w)
  <2>1. PICK h \in work[w].at : row' = row \/ row' = [row EXCEPT ![h.id] = Indexed(place[h.id])]
    BY <1>5 DEF FolderFound
  <2>2. h.id \in Items /\ h.id \notin Files
    BY <1>5, AtIs, DriveAssumption DEF FolderFound
  <2>3. UNCHANGED <<script, push, doubled>>
    BY <1>5 DEF FolderFound, ghosts
  <2>4. QED BY <2>1, <2>2, <2>3, WrittenQuiet, SameQuiet DEF tables
<1>6. QED BY <1>1, <1>2, <1>3, <1>4, <1>5 DEF Read

LEMMA TablesQuiet ==
  ASSUME Shape, OwnerInv, [Next]_vars
  PROVE  \/ QuietTables
         \/ \E w \in Readers, s \in Scripts : Downloaded(w, s) \/ CrashInPull(w, s)
         \/ \E p \in push : PushAnswered(p) \/ \E x \in Files : PushArrives(p, x)
<1>1. script \in [Scripts -> ScriptType]
  BY DEF Shape, TypeOK, ScriptType
<1>2. CASE DriveUser
  BY <1>2, SameQuiet DEF DriveUser, UserPuts, UserTrashes, UserRestores, routes, ghosts
<1>3. CASE \E w \in Readers : Read(w)
  BY <1>3, ReadQuiet
<1>4. CASE Prune
  <2>1. row' = Without({x \in Items : row[x].kind = "asset" /\ x \notin work["project"].live})
    BY <1>4 DEF Prune
  <2>2. UNCHANGED <<script, push, doubled>>
    BY <1>4 DEF Prune
  <2>3. \A s \in Scripts, x \in Files : Has(s, x)' => Has(s, x)
    BY <2>2 DEF Has
  <2>4. QED BY <2>1, <2>2, <2>3, RowsQuiet
<1>5. CASE Reading /\ ~Prune /\ ~\E w \in Readers : Read(w)
  BY <1>5, SameQuiet DEF Reading, StartDelta, Delta, StartProject, StartScan, Collect, routes, ghosts
<1>6. CASE Renewal
  BY <1>6, SameQuiet DEF Renewal, DropChannel, FetchToken, Registered, RenewalFails, routes, ghosts
<1>7. CASE \E s \in Scripts : AddScript(s) \/ DeleteUnlinked(s) \/ ForgetScript(s)
  <2>1. PICK s \in Scripts : AddScript(s) \/ DeleteUnlinked(s) \/ ForgetScript(s)
    BY <1>7
  <2>2. \A t \in Scripts, x \in Files : Has(t, x)' => Has(t, x)
    BY <1>1, <2>1, DriveAssumption DEF AddScript, DeleteUnlinked, ForgetScript, Has, Items, ScriptType
  <2>3. row' = row /\ doubled' = doubled
    BY <2>1 DEF AddScript, DeleteUnlinked, ForgetScript, ghosts
  <2>4. \A p \in push' : p.file \in Files => p \in push
    BY <2>1, DriveAssumption DEF AddScript, DeleteUnlinked, ForgetScript, routes, Items
  <2>5. QED BY <2>2, <2>3, <2>4 DEF QuietTables
<1>8. CASE (\E s \in Scripts : TrashScript(s)) \/ (\E x \in Items : TrashAsset(x)) \/ (\E p \in push : PushFails(p))
  BY <1>8, SameQuiet DEF TrashScript, TrashAsset, PushFails, ghosts
<1>9. CASE \E e \in del : DropScript(e)
  <2>1. PICK e \in del : DropScript(e)
    BY <1>9
  <2>2. /\ row' = Without({x \in Items : row[x].script = e.script}) /\ UNCHANGED <<push, doubled>>
        /\ script' = [script EXCEPT ![e.script] = IF @.state = "there" THEN [@ EXCEPT !.state = "gone"] ELSE @]
    BY <2>1 DEF DropScript
  <2>3. \A s \in Scripts : script'[s].file = script[s].file
    BY <1>1, <2>2 DEF ScriptType
  <2>4. \A s \in Scripts : script'[s].state = "there" => script[s].state = "there" /\ s # e.script
    BY <1>1, <2>2 DEF ScriptType
  <2>5. \A s \in Scripts, x \in Files : Has(s, x)' => Has(s, x)
    BY <2>3, <2>4 DEF Has
  <2>6. QED BY <2>2, <2>4, <2>5, RowsQuiet
<1>10. CASE \E e \in del : DropAsset(e)
  <2>1. PICK e \in del : DropAsset(e)
    BY <1>10
  <2>2. PICK R : row' = Without(R) /\ doubled' = doubled \cup Unlinked(R) /\ UNCHANGED <<script, push>>
    BY <2>1 DEF DropAsset
  <2>3. \A s \in Scripts, x \in Files : Has(s, x)' => Has(s, x)
    BY <2>2 DEF Has
  <2>4. QED BY <2>2, <2>3, RowsQuiet DEF Unlinked
<1>11. CASE Crash
  BY <1>11, SameQuiet DEF Crash, Dies
<1>12. CASE UNCHANGED vars
  BY <1>12, SameQuiet DEF vars, routes, ghosts
<1>13. CASE Route
  BY <1>7, <1>8, <1>9, <1>10, <1>13 DEF Route
<1>14. CASE Reading
  BY <1>3, <1>4, <1>5, <1>14
<1>15. QED BY <1>2, <1>6, <1>11, <1>12, <1>13, <1>14 DEF Next

LEMMA PullOwner ==
  ASSUME Shape, OwnerInv, NEW w \in Readers, NEW h \in work[w].todo, PullScript(w, h)
  PROVE  OwnerInv'
<1> SUFFICES ASSUME NEW x \in Files \ doubled'
             PROVE  OneOwner(x)'
  BY DEF OwnerInv
<1>1. /\ doubled' = doubled \cup {p.file : p \in {q \in push : q.file = h.id}}
      /\ row[h.id].kind = "none" /\ Step(w, Awaits(w, h, "download"), {h.id})
      /\ UNCHANGED <<row, script, push>>
  BY DEF PullScript, New, tables, routes
<1>2. OneOwner(x)
  BY <1>1 DEF OwnerInv
<1>3. \A v \in Readers : Downloads(v, x)' => Downloads(v, x) \/ x = h.id
  <2>1. \A v \in Readers : v = w => work'[v] = Awaits(w, h, "download")
    BY <1>1 DEF Step
  <2>2. Awaits(w, h, "download").at = {h}
    BY RecordIs DEF Awaits, Record, Shape
  <2>3. QED BY <1>1, <2>1, <2>2, StepElsewhere DEF Downloads, Shape
<1>4. \A v \in Readers : Downloads(v, x)' => (\A s \in Scripts : ~Has(s, x)) /\ (\A p \in push : p.file # x)
  BY <1>1, <1>2, <1>3 DEF OneOwner
<1>5. QED BY <1>1, <1>2, <1>4 DEF OneOwner, Has

LEMMA DownloadedOwner ==
  ASSUME Shape, Locked, OwnerInv, NEW w \in Readers, NEW s \in Scripts, Downloaded(w, s)
  PROVE  OwnerInv'
<1> SUFFICES ASSUME NEW x \in Files \ doubled'
             PROVE  OneOwner(x)'
  BY DEF OwnerInv
<1>1. PICK h \in work[w].at :
       /\ script' = [script EXCEPT ![s] = [state |-> "there", file |-> h.id]]
       /\ row' = [row EXCEPT ![h.id] = [kind |-> "script", parent |-> h.parent, script |-> s]]
       /\ Step(w, Rest(w, h), {h.id})
  BY DEF Downloaded
<1>2. push' = push /\ doubled' = doubled /\ work[w].pc = "download"
  BY DEF Downloaded, ghosts
<1>3. row \in [Items -> RowType] /\ script \in [Scripts -> ScriptType] /\ x \in Items /\ h.id \in Items
  BY <1>2, AtIs DEF Shape, TypeOK, RowType, ScriptType, Items
<1>4. OneOwner(x) /\ Downloads(w, h.id)
  BY <1>2 DEF OwnerInv, Downloads
<1>5. \A v \in Readers : ~Downloads(v, x)'
  <2>1. \A v \in Readers : ReaderOK(v, work[v]) /\ work[v] \in Record
    BY RecordIs DEF Shape, ReadersOK
  <2>2. \A v \in Readers : work[v].pc = "download" => v # "project" /\ work[v].kind # "idle"
    BY <2>1 DEF ReaderOK
  <2>3. \A v \in Readers : v # w => work[v].pc # "download"
    BY <1>2, <2>2 DEF Locked, Readers
  <2>4. work'[w].pc = "loop"
    BY <1>1, <2>1 DEF Step, Rest, Record
  <2>5. QED BY <1>1, <2>3, <2>4, StepElsewhere DEF Downloads, Shape
<1>6. \A t \in Scripts : Has(t, x)' => (t = s /\ x = h.id) \/ (t # s /\ x # h.id /\ Has(t, x))
  BY <1>1, <1>3, <1>4 DEF Has, OneOwner
<1>7. \A t \in Scripts : Has(t, x)' => row'[x].kind = "script" /\ row'[x].script = t
  BY <1>1, <1>3, <1>4, <1>6 DEF OneOwner
<1>8. \A p \in push' : p.file = x => \A t \in Scripts : ~Has(t, x)'
  BY <1>2, <1>4, <1>6 DEF OneOwner
<1>9. QED BY <1>2, <1>4, <1>5, <1>7, <1>8 DEF OneOwner

LEMMA AnsweredOwner ==
  ASSUME Shape, OwnerInv, NEW p \in push, PushAnswered(p)
  PROVE  OwnerInv'
<1> SUFFICES ASSUME NEW x \in Files \ doubled'
             PROVE  OneOwner(x)'
  BY DEF OwnerInv
<1>1. /\ p.file # NoFile /\ push' = push \ {p} /\ doubled' = doubled
      /\ script' = [script EXCEPT ![p.script].file = IF script[p.script].state = "there" THEN p.file ELSE @]
      /\ row' = [row EXCEPT ![p.file] = [NoRow EXCEPT !.kind = "script", !.script = p.script]]
      /\ Step("push", Resting, {p.file})
  BY DEF PushAnswered
<1>2. /\ row \in [Items -> RowType] /\ script \in [Scripts -> ScriptType]
      /\ x \in Items /\ p.file \in Items /\ p.script \in Scripts
  BY <1>1 DEF Shape, TypeOK, RowType, ScriptType, Items
<1>3. OneOwner(x)
  BY <1>1 DEF OwnerInv
<1>4. \A v \in Readers : Downloads(v, x)' => Downloads(v, x)
  BY <1>1, StepElsewhere, "push" \notin Readers DEF Downloads, Shape, Readers
<1>5. \A t \in Scripts : Has(t, x)' => (t = p.script /\ x = p.file) \/ (x # p.file /\ Has(t, x))
  <2>1. \A t \in Scripts : script'[t].state = script[t].state
    BY <1>1, <1>2 DEF ScriptType
  <2>2. \A t \in Scripts : t # p.script => script'[t].file = script[t].file
    BY <1>1, <1>2 DEF ScriptType
  <2>3. script[p.script].state = "there" => script'[p.script].file = p.file
    BY <1>1, <1>2 DEF ScriptType
  <2>4. QED BY <1>3, <2>1, <2>2, <2>3 DEF Has, OneOwner
<1>6. \A t \in Scripts : Has(t, x)' => row'[x].kind = "script" /\ row'[x].script = t
  BY <1>1, <1>2, <1>3, <1>5 DEF OneOwner, NoRow
<1>7. \A v \in Readers : Downloads(v, x)' => x # p.file
  BY <1>3, <1>4 DEF OneOwner
<1>8. \A q \in push' : q \in push /\ (q.file = x => x # p.file)
  BY <1>1, <1>3 DEF OneOwner
<1>9. QED BY <1>3, <1>4, <1>5, <1>6, <1>7, <1>8 DEF OneOwner

LEMMA ArrivesOwner ==
  ASSUME Shape, Fresh, OwnerInv, NEW p \in push, NEW y \in Files, PushArrives(p, y)
  PROVE  OwnerInv'
<1> SUFFICES ASSUME NEW x \in Files \ doubled'
             PROVE  OneOwner(x)'
  BY DEF OwnerInv
<1>1. /\ push' = (push \ {p}) \cup {[p EXCEPT !.file = y]} /\ UNCHANGED <<row, script, doubled>>
      /\ place[y] = "none" /\ Changes(y, "scripts", trashed)
  BY DEF PushArrives, tables, ghosts
<1>2. OneOwner(x)
  BY <1>1 DEF OwnerInv
<1>3. \A v \in Readers : Downloads(v, x)' => Downloads(v, x)
  BY <1>1, StepElsewhere, "drive" \notin Readers DEF Changes, Downloads, Shape, Readers
<1>4. ~Named(y)
  BY <1>1 DEF Fresh, Items
<1>5. \A q \in push' : q.file = x => q \in push \/ (x = y /\ q = [p EXCEPT !.file = y])
  BY <1>1 DEF Shape, TypeOK
<1>6. \A q \in push : q.file # y
  BY <1>4 DEF Named
<1>7. x = y => \A s \in Scripts : ~Has(s, x)
  BY <1>4 DEF Named, Has
<1>8. x = y => \A v \in Readers : ~Downloads(v, x)
  BY <1>4 DEF Named, Downloads
<1>9. QED BY <1>1, <1>2, <1>3, <1>5, <1>6, <1>7, <1>8 DEF OneOwner, Has

LEMMA CrashOwner ==
  ASSUME Shape, OwnerInv, NEW w \in Readers, NEW s \in Scripts, CrashInPull(w, s)
  PROVE  OwnerInv'
<1> SUFFICES ASSUME NEW x \in Files \ doubled'
             PROVE  OneOwner(x)'
  BY DEF OwnerInv
<1>1. PICK h \in work[w].at : script' = [script EXCEPT ![s] = [state |-> "there", file |-> h.id]] /\ doubled' = doubled \cup {h.id}
  BY DEF CrashInPull
<1>2. row' = row /\ push' = {} /\ work' = [v \in Readers |-> Resting]
  BY DEF CrashInPull, Dies
<1>3. script \in [Scripts -> ScriptType] /\ OneOwner(x)
  BY <1>1 DEF Shape, TypeOK, ScriptType, OwnerInv
<1>4. \A v \in Readers : ~Downloads(v, x)'
  BY <1>2 DEF Downloads, Resting
<1>5. \A t \in Scripts : Has(t, x)' => Has(t, x)
  BY <1>1, <1>3 DEF Has
<1>6. QED BY <1>2, <1>3, <1>4, <1>5 DEF OneOwner

LEMMA OwnerStep ==
  ASSUME Shape, Locked, Fresh, OwnerInv, [Next]_vars
  PROVE  OwnerInv'
<1>1. CASE \E w \in Readers : \E h \in work[w].todo : PullScript(w, h)
  BY <1>1, PullOwner
<1>2. CASE \E w \in Readers, s \in Scripts : Downloaded(w, s) \/ CrashInPull(w, s)
  BY <1>2, DownloadedOwner, CrashOwner
<1>3. CASE \E p \in push : PushAnswered(p) \/ \E x \in Files : PushArrives(p, x)
  BY <1>3, AnsweredOwner, ArrivesOwner
<1>4. QED BY <1>1, <1>2, <1>3, TablesQuiet, CalmQuiet, QuietKeeps

-----------------------------------------------------------------------------
(* The invariant of the table *)

\* The items that changed after what was last handed to a delta.
Due == ChangedIn(handed, Len(log))

\* x may lack its row, or keep it, until a delta or a scan of the project makes up for it.
MayLack(x) == x \in lost \cup work["project"].dirty \cup Due
MayKeep(x) == x \in stale \cup work["project"].dirty \cup Due

\* What reader w was shown and has not dealt with.
Holds(w) == work[w].todo \cup work[w].at

\* Folders hold files only, in Drive and in the table, and are no scripts.
FoldersFlat ==
  /\ \A f \in Folders : place[f] \notin Folders \cup {"scripts"} /\ row[f].parent \notin Folders
  /\ \A x \in Items : row[x].kind # "script" => row[x].script = NoScript

\* The channel's token is where the feed was last handed out, for a delta that asks with it too.
ChannelKnows ==
  /\ channel \subseteq {handed} /\ handed <= Len(log)
  /\ work["delta"].pc = "asking" /\ work["delta"].mine => channel = {work["delta"].from}
  /\ renew # {} => channel = {}
  /\ \A m, n \in renew : m = n

\* Where a reader holds one item, where none, and what a scan is never shown.
HoldsOne(w) ==
  /\ work[w].pc \notin {"meta", "listing", "download"} => work[w].at = {}
  /\ work[w].pc \in {"meta", "listing", "download"} => \E h \in work[w].at : work[w].at = {h}
  /\ work[w].pc = "asking" => work[w].todo = {}
  /\ work[w].todo \cap work[w].at = {}
  /\ work[w].kind = "idle" => work[w] = Resting
  /\ work[w].pc = "idle" => work[w].kind = "idle"
  /\ work[w].pc = "collecting" => w = "project"
  /\ \A h \in work[w].at : h.gone = FALSE
  /\ work[w].pc = "download" => \A h \in work[w].at : h.parent = "scripts"
  /\ w = "delta" => work[w].kind \in {"idle", "delta"}
  /\ w = "scan" => work[w].kind \in {"idle", "assets", "scripts"}
  /\ w # "delta" => \A h \in work[w].todo : h.gone = FALSE

Orderly == FoldersFlat /\ ChannelKnows /\ \A w \in Readers : HoldsOne(w)

\* With a folder, its files are out of a scan's sight.
DirtyClosed == \A w \in {"scan", "project"} : \A x \in Items :
  place[x] \in work[w].dirty => x \in work[w].dirty

\* Out of sight or as Drive shows it: what a scan holds, and beside a scan of the project the others.
OwnShown == \A w \in {"scan", "project"} : \A h \in Holds(w) :
  h.id \in Items => h.id \in work[w].dirty \/ h = Seen(h.id)
OthersShown == work["project"].kind # "idle" => \A w \in {"delta", "scan"} : \A h \in Holds(w) :
  h.id \in work["project"].dirty \/ h = Seen(h.id)

\* What a delta or a scan holds that Drive has changed since.
ParentsShown == \A w \in {"delta", "scan"} : \A h \in Holds(w) :
  h.parent = place[h.id] \/ (MayLack(h.id) /\ MayKeep(h.id))
GoneShown == \A h \in work["delta"].todo : h.gone /\ ~InTrash(h.id) =>
  \/ h.id \in Due \/ place[h.id] \in Due
  \/ \A y \in Items : y = h.id \/ place[y] = h.id => MayLack(y)
ThereShown == \A w \in {"delta", "scan"} : \A h \in Holds(w) : ~h.gone =>
  /\ h.id \in trashed => MayKeep(h.id)
  /\ InTrash(h.id) => MayKeep(h.id) \/ place[h.id] \in Due

Shown == DirtyClosed /\ OwnShown /\ OthersShown /\ ParentsShown /\ GoneShown /\ ThereShown

\* The row an item of the project has where nothing was missed.
HasFolder(y) == place[y] \notin Folders \/ row[place[y]].kind # "none"
RowRight(y) == row[y].kind # "none" /\ (y \in Files => row[y].parent = place[y]) /\ HasFolder(y)

\* Scan w holds y or its folder, or need not.
Reached(w, y) ==
  \/ InTrash(y) \/ RowRight(y)
  \/ \E h \in work[w].todo : h.id \in {y, place[y]}
  \/ \E h \in work[w].at : h.id = place[y] \/ (h.id = y /\ work[w].pc # "listing")

InScope(w) == Repaired(IF w = "project" THEN "assets" ELSE work[w].kind)

\* What a scan covers, once it has listed its root: all in its scope and sight, if no request failed.
Covered(w) == work[w].pc \in {"loop", "meta", "listing", "download"} =>
  /\ work[w].flawed \/ \A y \in InScope(w) : y \in work[w].dirty \/ Reached(w, y)
  /\ \A h \in work[w].todo : h.id \in work[w].dirty \/ HasFolder(h.id)
  /\ work[w].pc = "listing" => \A h \in work[w].at : h.id \in work[w].dirty \/ row[h.id].kind # "none"

\* What the scan of a project has collected.
Collected == LET w == work["project"] IN w.kind # "idle" =>
  /\ \A y \in w.live \ w.dirty :
       ~InTrash(y) /\ (place[y] = "assets" \/ (place[y] \in w.live /\ place[place[y]] = "assets"))
  /\ \A y \in Repaired("assets") \ w.dirty :
       \/ InTrash(y) \/ y \in w.live
       \/ w.pc = "collecting" /\ \E h \in w.todo : h.id \in {place[y], "assets"}
  /\ w.pc = "collecting" => \A h \in w.todo : h.id = "assets" \/ h.id \in w.live \cap Folders

Scanned == Covered("scan") /\ Covered("project") /\ Collected

\* A delta holds x as it is there, or its folder, which it will list.
Coming(x) ==
  \/ \E h \in work["delta"].todo : ~h.gone /\ h.id \in {x, place[x]}
  \/ \E h \in work["delta"].at : h.id = place[x] \/ (h.id = x /\ work["delta"].pc # "listing")

\* A delta holds x as gone.
Going(x) == \E h \in work["delta"].todo : h.gone /\ h.id = x

\* An item in the tree has its row, or the feed or a delta still owes it.
TreeAt(x) == InTree(x) =>
  \/ MayLack(x) \/ place[x] \in Due \/ Coming(x)
  \/ row[x].kind # "none" /\ (row[x].parent \in Folders => row[x].parent = place[x])

\* A row of what is in the trash, by itself or with its folder, will be dropped.
TrashAt(x) == row[x].kind # "none" =>
  /\ x \in trashed => MayKeep(x) \/ Going(x)
  /\ place[x] \in trashed =>
       \/ MayKeep(x) \/ place[x] \in Due \/ Going(x)
       \/ Going(place[x]) /\ row[place[x]].kind # "none" /\ row[x].parent = place[x]

\* A row names the folder its file is in, and that folder has a row.
PlaceAt(x) == row[x].kind # "none" /\ place[x] \in Folders =>
  \/ MayKeep(x) \/ \E h \in Holds("delta") : h.id = x
  \/ row[x].parent = place[x] /\ row[place[x]].kind # "none"

Owed == \A x \in Items : TreeAt(x) /\ TrashAt(x) /\ PlaceAt(x)

-----------------------------------------------------------------------------
(* What a step does to the records of the readers *)

\* All readers but w: what is done to S is out of the sight of the scans among them.
Aside(w, S) == \A v \in Readers : v # w =>
  /\ work'[v].kind = work[v].kind /\ work'[v].pc = work[v].pc
  /\ work'[v].todo = work[v].todo /\ work'[v].at = work[v].at
  /\ work'[v].live = work[v].live /\ work'[v].flawed = work[v].flawed
  /\ work'[v].from = work[v].from /\ work'[v].mine = work[v].mine
  /\ work'[v].dirty = work[v].dirty \/ work'[v].dirty = work[v].dirty \cup About(S)
  /\ v # "delta" /\ work[v].kind # "idle" => work'[v].dirty = work[v].dirty \cup About(S)
  /\ work[v].kind = "idle" => work'[v] = work[v]

LEMMA StepAside ==
  ASSUME TypeOK, NEW w, NEW r, NEW S, Step(w, r, S)
  PROVE  Aside(w, S) /\ (w \in Readers => work'[w] = r)
<1>1. w \in Readers => work'[w] = r
  BY DEF Step
<1>2. ASSUME NEW v \in Readers, v # w
      PROVE  IF v # "delta" /\ work[v].kind # "idle"
             THEN work'[v] = [work[v] EXCEPT !.dirty = @ \cup About(S)] ELSE work'[v] = work[v]
  BY <1>2 DEF Step
<1>3. \A v \in Readers : work[v] \in Record
  BY RecordIs
<1>4. ASSUME NEW v \in Readers, v # w
      PROVE  /\ work'[v].kind = work[v].kind /\ work'[v].pc = work[v].pc
             /\ work'[v].todo = work[v].todo /\ work'[v].at = work[v].at
             /\ work'[v].live = work[v].live /\ work'[v].flawed = work[v].flawed
             /\ work'[v].from = work[v].from /\ work'[v].mine = work[v].mine
             /\ work'[v].dirty = IF v # "delta" /\ work[v].kind # "idle" THEN work[v].dirty \cup About(S) ELSE work[v].dirty
  <2>1. work[v] \in Record
    BY <1>3
  <2>2. CASE v # "delta" /\ work[v].kind # "idle"
    <3>1. work'[v] = [work[v] EXCEPT !.dirty = @ \cup About(S)]
      BY <1>2, <1>4, <2>2
    <3>2. QED BY <2>1, <2>2, <3>1 DEF Record
  <2>3. CASE ~(v # "delta" /\ work[v].kind # "idle")
    <3>1. work'[v] = work[v]
      BY <1>2, <1>4, <2>3
    <3>2. QED BY <2>3, <3>1
  <2>4. QED BY <2>2, <2>3
<1>5. Aside(w, S)
  BY <1>2, <1>4 DEF Aside
<1>6. QED BY <1>1, <1>5

\* The reader that acts keeps its kind and what it collected, and holds this now.
Becomes(w, pc, todo, at) ==
  /\ work'[w].pc = pc /\ work'[w].todo = todo /\ work'[w].at = at
  /\ work'[w].kind = work[w].kind /\ work'[w].live = work[w].live /\ work'[w].dirty = work[w].dirty

LEMMA RestBecomes ==
  ASSUME TypeOK, NEW w \in Readers, NEW h, NEW S, Step(w, Rest(w, h), S)
  PROVE  Aside(w, S) /\ Becomes(w, "loop", work[w].todo \ {h}, {}) /\ work'[w].flawed = work[w].flawed
<1>1. work'[w] = Rest(w, h) /\ Aside(w, S)
  BY StepAside
<1>2. QED BY <1>1, RecordIs DEF Rest, Becomes, Record

LEMMA AwaitsBecomes ==
  ASSUME TypeOK, NEW w \in Readers, NEW h, NEW pc, NEW S, Step(w, Awaits(w, h, pc), S)
  PROVE  Aside(w, S) /\ Becomes(w, pc, work[w].todo \ {h}, {h}) /\ work'[w].flawed = work[w].flawed
<1>1. work'[w] = Awaits(w, h, pc) /\ Aside(w, S)
  BY StepAside
<1>2. QED BY <1>1, RecordIs DEF Awaits, Becomes, Record

\* The steps of a reader on one item: how it goes on.
LEMMA RestActs ==
  ASSUME Shape, NEW w \in Readers, NEW h,
         DropRow(w, h) \/ SkipFile(w, h) \/ UpdateRow(w, h) \/ IndexFile(w, h)
  PROVE  /\ Takes(w, h) /\ Becomes(w, "loop", work[w].todo \ {h}, {}) /\ work'[w].flawed = work[w].flawed
         /\ UNCHANGED <<drive, channel, renew, handed>>
         /\ ~DropRow(w, h) => Aside(w, {h.id})
<1>1. CASE DropRow(w, h)
  <2>1. PICK S : Step(w, Rest(w, h), S)
    BY <1>1 DEF DropRow
  <2>2. QED BY <1>1, <2>1, RestBecomes DEF DropRow, Shape
<1>2. CASE SkipFile(w, h)
  BY <1>2, RestBecomes DEF SkipFile, Shape
<1>3. CASE UpdateRow(w, h)
  BY <1>3, RestBecomes DEF UpdateRow, Known, Shape, ghosts
<1>4. CASE IndexFile(w, h)
  BY <1>4, RestBecomes DEF IndexFile, New, Shape, ghosts
<1>5. QED BY <1>1, <1>2, <1>3, <1>4

LEMMA DropRowActs ==
  ASSUME Shape, NEW w \in Readers, NEW h, DropRow(w, h)
  PROVE  \E R : /\ R = (IF row[h.id].kind = "none" THEN {} ELSE IF row[h.id].kind = "asset" THEN Subtree(h.id) ELSE {h.id})
                /\ row' = Without(R) /\ Aside(w, {h.id} \cup R)
                /\ h.gone /\ Takes(w, h) /\ lost' = lost /\ stale' = stale
<1> DEFINE R == IF row[h.id].kind = "none" THEN {} ELSE IF row[h.id].kind = "asset" THEN Subtree(h.id) ELSE {h.id}
<1>1. Step(w, Rest(w, h), {h.id} \cup R) /\ row' = Without(R) /\ h.gone /\ Takes(w, h) /\ lost' = lost /\ stale' = stale
  BY DEF DropRow
<1> HIDE DEF R
<1>2. Aside(w, {h.id} \cup R)
  BY <1>1, RestBecomes DEF Shape
<1>3. QED BY <1>1, <1>2 DEF R

LEMMA AwaitsActs ==
  ASSUME Shape, NEW w \in Readers, NEW h, PullScript(w, h) \/ OpenFolder(w, h)
  PROVE  /\ Takes(w, h) /\ Aside(w, {h.id}) /\ work'[w].flawed = work[w].flawed
         /\ ~h.gone /\ UNCHANGED <<drive, row, channel, renew, lost, stale, handed>>
         /\ PullScript(w, h) => Becomes(w, "download", work[w].todo \ {h}, {h})
         /\ OpenFolder(w, h) => Becomes(w, IF row[h.id].kind # "none" THEN "listing" ELSE "meta", work[w].todo \ {h}, {h})
<1>1. CASE PullScript(w, h)
  BY <1>1, AwaitsBecomes DEF PullScript, New, Context, OpenFolder, tables, Shape, DriveAssumption, Items
<1>2. CASE OpenFolder(w, h)
  BY <1>2, AwaitsBecomes DEF OpenFolder, PullScript, tables, ghosts, Shape, DriveAssumption
<1>3. QED BY <1>1, <1>2

LEMMA DownloadedActs ==
  ASSUME Shape, NEW w \in Readers, NEW s \in Scripts, Downloaded(w, s)
  PROVE  \E h \in work[w].at :
           /\ work[w].pc = "download" /\ Becomes(w, "loop", work[w].todo \ {h}, {}) /\ work'[w].flawed = work[w].flawed
           /\ Aside(w, {h.id}) /\ UNCHANGED <<drive, channel, renew, lost, stale, handed>>
           /\ row' = [row EXCEPT ![h.id] = [kind |-> "script", parent |-> h.parent, script |-> s]]
<1>1. PICK h \in work[w].at :
        /\ row' = [row EXCEPT ![h.id] = [kind |-> "script", parent |-> h.parent, script |-> s]]
        /\ Step(w, Rest(w, h), {h.id})
  BY DEF Downloaded
<1>2. QED BY <1>1, RestBecomes DEF Downloaded, Shape, ghosts

LEMMA FoundActs ==
  ASSUME Shape, NEW w \in Readers, FolderFound(w)
  PROVE  \E h \in work[w].at :
           /\ work[w].pc = "meta" /\ work'[w].flawed = work[w].flawed
           /\ Aside(w, {h.id}) /\ UNCHANGED <<drive, channel, renew, lost, stale, handed>>
           /\ \/ /\ InTrash(h.id) \/ Context(place[h.id]) # "assets"
                 /\ Becomes(w, "loop", work[w].todo \ {h}, {}) /\ row' = row
              \/ /\ ~InTrash(h.id) /\ Context(place[h.id]) = "assets"
                 /\ Becomes(w, "listing", work[w].todo, work[w].at)
                 /\ row' = [row EXCEPT ![h.id] = Indexed(place[h.id])]
<1>1. PICK h \in work[w].at :
        IF InTrash(h.id) \/ Context(place[h.id]) # "assets"
        THEN Step(w, Rest(w, h), {h.id}) /\ row' = row
        ELSE row' = [row EXCEPT ![h.id] = Indexed(place[h.id])] /\ Step(w, [work[w] EXCEPT !.pc = "listing"], {h.id})
  BY DEF FolderFound
<1>2. work[w].pc = "meta" /\ UNCHANGED <<drive, channel, renew, lost, stale, handed>>
  BY DEF FolderFound, ghosts
<1>3. CASE InTrash(h.id) \/ Context(place[h.id]) # "assets"
  BY <1>1, <1>2, <1>3, RestBecomes DEF Shape
<1>4. CASE ~(InTrash(h.id) \/ Context(place[h.id]) # "assets")
  <2>1. work'[w] = [work[w] EXCEPT !.pc = "listing"] /\ Aside(w, {h.id})
    BY <1>1, <1>4, StepAside DEF Shape
  <2>2. Becomes(w, "listing", work[w].todo, work[w].at) /\ work'[w].flawed = work[w].flawed
    BY <2>1, RecordIs DEF Becomes, Record, Shape
  <2>3. QED BY <1>1, <1>2, <1>4, <2>1, <2>2
<1>5. QED BY <1>3, <1>4

LEMMA ListedActs ==
  ASSUME Shape, NEW w \in Readers, FolderListed(w)
  PROVE  \E h \in work[w].at :
           /\ work[w].pc = "listing" /\ work'[w].flawed = work[w].flawed
           /\ Aside(w, {h.id}) /\ UNCHANGED <<drive, row, channel, renew, lost, stale, handed>>
           /\ Becomes(w, "loop", (work[w].todo \ {h}) \cup {Seen(x) : x \in Children(h.id) \cap Files}, {})
<1>1. PICK h \in work[w].at : Step(w, [Rest(w, h) EXCEPT !.todo = @ \cup {Seen(x) : x \in Children(h.id) \cap Files}], {h.id})
  BY DEF FolderListed
<1> DEFINE new == {Seen(x) : x \in Children(h.id) \cap Files}
<1>2. work'[w] = [Rest(w, h) EXCEPT !.todo = @ \cup new] /\ Aside(w, {h.id})
  BY <1>1, StepAside DEF Shape
<1> HIDE DEF new
<1>3. Becomes(w, "loop", (work[w].todo \ {h}) \cup new, {}) /\ work'[w].flawed = work[w].flawed
  BY <1>2, RecordIs DEF Becomes, Rest, Record, Shape
<1>4. work[w].pc = "listing" /\ UNCHANGED <<drive, row, channel, renew, lost, stale, handed>>
  BY DEF FolderListed, tables, ghosts
<1>5. QED BY <1>2, <1>3, <1>4 DEF new

LEMMA FailsActs ==
  ASSUME Shape, NEW w \in Readers, ItemFails(w)
  PROVE  \E h \in work[w].at :
           /\ work[w].pc \in {"meta", "listing", "download"} /\ work'[w].flawed = TRUE
           /\ Becomes(w, "loop", work[w].todo \ {h}, {})
           /\ Aside(w, {h.id}) /\ UNCHANGED <<drive, row, channel, renew, handed>>
           /\ lost' = lost \cup Missed(w, h.id) /\ stale' = stale \cup Missed(w, h.id)
<1>1. PICK h \in work[w].at :
        /\ lost' = lost \cup Missed(w, h.id) /\ stale' = stale \cup Missed(w, h.id)
        /\ Step(w, [Rest(w, h) EXCEPT !.flawed = TRUE], {h.id})
  BY DEF ItemFails
<1>2. work'[w] = [Rest(w, h) EXCEPT !.flawed = TRUE] /\ Aside(w, {h.id})
  BY <1>1, StepAside DEF Shape
<1>3. Becomes(w, "loop", work[w].todo \ {h}, {}) /\ work'[w].flawed = TRUE
  BY <1>2, RecordIs DEF Becomes, Rest, Record, Shape
<1>4. QED BY <1>1, <1>2, <1>3 DEF ItemFails, tables

LEMMA RootActs ==
  ASSUME Shape, NEW w \in Readers, RootListed(w)
  PROVE  /\ work[w].pc = "asking" /\ work[w].kind # "delta" /\ work'[w].flawed = work[w].flawed
         /\ Becomes(w, "loop", {Seen(x) : x \in IF work[w].kind = "scripts" THEN Children("scripts") \cap Files ELSE Children("assets")}, work[w].at)
         /\ Aside(w, {}) /\ UNCHANGED <<drive, row, channel, renew, lost, stale, handed>>
<1> DEFINE new == {Seen(x) : x \in IF work[w].kind = "scripts" THEN Children("scripts") \cap Files ELSE Children("assets")}
<1>1. Step(w, [work[w] EXCEPT !.pc = "loop", !.todo = new], {})
  BY DEF RootListed
<1> HIDE DEF new
<1>2. work'[w] = [work[w] EXCEPT !.pc = "loop", !.todo = new] /\ Aside(w, {})
  BY <1>1, StepAside DEF Shape
<1>3. Becomes(w, "loop", new, work[w].at) /\ work'[w].flawed = work[w].flawed
  BY <1>2, RecordIs DEF Becomes, Record, Shape
<1>4. work[w].pc = "asking" /\ work[w].kind # "delta" /\ UNCHANGED <<drive, row, channel, renew, lost, stale, handed>>
  BY DEF RootListed, tables, ghosts
<1>5. QED BY <1>2, <1>3, <1>4 DEF new

LEMMA EndActs ==
  ASSUME Shape, NEW w \in Readers, ReaderFails(w) \/ Finish(w)
  PROVE  work'[w] = Resting /\ Aside(w, {}) /\ UNCHANGED <<drive, row, channel, renew, handed>>
<1>1. Step(w, Resting, {}) /\ UNCHANGED <<drive, row, channel, renew, handed>>
  BY DEF ReaderFails, Finish, tables
<1>2. QED BY <1>1, StepAside DEF Shape

LEMMA RestingFields ==
  /\ Resting.kind = "idle" /\ Resting.pc = "idle" /\ Resting.todo = {} /\ Resting.at = {}
  /\ Resting.live = {} /\ Resting.dirty = {} /\ Resting.flawed = FALSE
  BY DEF Resting

LEMMA ReadActs ==
  ASSUME Shape, NEW w \in Readers, Read(w)
  PROVE  UNCHANGED <<drive, channel, renew, handed>> /\ work'[w].pc \notin {"asking", "collecting"} /\ \E S : Aside(w, S)
<1>1. CASE RootListed(w)
  BY <1>1, RootActs DEF Becomes
<1>2. CASE ReaderFails(w) \/ Finish(w)
  BY <1>2, EndActs, RestingFields
<1>3. CASE \E h \in work[w].todo : DropRow(w, h)
  BY <1>3, RestActs, DropRowActs DEF Becomes
<1>4. CASE \E h \in work[w].todo : SkipFile(w, h) \/ UpdateRow(w, h) \/ IndexFile(w, h)
  <2>1. PICK h \in work[w].todo : SkipFile(w, h) \/ UpdateRow(w, h) \/ IndexFile(w, h)
    BY <1>4
  <2>2. ~DropRow(w, h)
    BY <2>1 DEF DropRow, SkipFile, UpdateRow, IndexFile, Known, New
  <2>3. QED BY <2>1, <2>2, RestActs DEF Becomes
<1>5. CASE \E h \in work[w].todo : PullScript(w, h) \/ OpenFolder(w, h)
  BY <1>5, AwaitsActs DEF Becomes
<1>6. CASE \E s \in Scripts : Downloaded(w, s)
  BY <1>6, DownloadedActs DEF Becomes
<1>7. CASE FolderFound(w) \/ FolderListed(w) \/ ItemFails(w)
  BY <1>7, FoundActs, ListedActs, FailsActs DEF Becomes
<1>8. QED BY <1>1, <1>2, <1>3, <1>4, <1>5, <1>6, <1>7 DEF Read

-----------------------------------------------------------------------------
(* The kinds of steps *)

\* Drive puts x in p or in the trash, and the table is as it was.
Moved(x, p, t) ==
  /\ Changes(x, p, t) /\ p # "none"
  /\ \A y \in Items : y # x => (y \in t <=> y \in trashed)
  /\ x \in Folders => p \notin Folders \cup {"scripts"}
  /\ UNCHANGED <<row, channel, renew, lost, stale, handed>>

view == <<drive, row, channel, work, lost, stale, handed>>

LEMMA TrashMoves ==
  ASSUME Shape, Fresh, FoldersFlat, NEW x \in Items, Named(x), Trash(x),
         UNCHANGED <<row, channel, renew, lost, stale, handed>>
  PROVE  UNCHANGED view \/ \E y \in Items, p \in Places, t \in SUBSET Items : Moved(y, p, t)
<1>1. CASE x \in trashed
  BY <1>1 DEF Trash, view
<1>2. CASE x \notin trashed
  <2>1. Changes(x, place[x], trashed \cup {x}) /\ place[x] \in Places /\ trashed \cup {x} \in SUBSET Items
    BY <1>2 DEF Trash, Shape, TypeOK
  <2>2. Moved(x, place[x], trashed \cup {x})
    BY <2>1 DEF Moved, FoldersFlat, Fresh
  <2>3. QED BY <2>1, <2>2
<1>3. QED BY <1>1, <1>2

LEMMA DriveMoves ==
  ASSUME Shape, Fresh, FoldersFlat, DriveUser \/ \E p \in push : \E x \in Files : PushArrives(p, x)
  PROVE  \E y \in Items, p \in Places, t \in SUBSET Items : Moved(y, p, t)
<1>1. CASE \E x \in Items : \E p \in Roots \cup Folders : UserPuts(x, p)
  <2>1. PICK x \in Items, p \in Roots \cup Folders : UserPuts(x, p)
    BY <1>1
  <2>2. p \in Places /\ p # "none" /\ trashed \in SUBSET Items
    BY DriveAssumption DEF Places, Roots, Items, Shape, TypeOK
  <2>3. x \in Folders => p \notin Folders \cup {"scripts"}
    BY <2>1, DriveAssumption DEF UserPuts, Roots, Items
  <2>4. Moved(x, p, trashed)
    BY <2>1, <2>2, <2>3 DEF UserPuts, Moved, tables, ghosts
  <2>5. QED BY <2>2, <2>4
<1>2. CASE \E x \in Items : UserTrashes(x)
  <2>1. PICK x \in Items : UserTrashes(x)
    BY <1>2
  <2>2. Moved(x, place[x], trashed \cup {x}) /\ place[x] \in Places /\ trashed \cup {x} \in SUBSET Items
    BY <2>1 DEF UserTrashes, Moved, FoldersFlat, tables, ghosts, Shape, TypeOK
  <2>3. QED BY <2>2
<1>3. CASE \E x \in Items : UserRestores(x)
  <2>1. PICK x \in Items : UserRestores(x)
    BY <1>3
  <2>2. Moved(x, place[x], trashed \ {x}) /\ place[x] \in Places /\ trashed \ {x} \in SUBSET Items
    BY <2>1 DEF UserRestores, Moved, FoldersFlat, Fresh, Named, tables, ghosts, Shape, TypeOK
  <2>3. QED BY <2>2
<1>4. CASE \E p \in push : \E x \in Files : PushArrives(p, x)
  <2>1. PICK x \in Files : \E p \in push : PushArrives(p, x)
    BY <1>4
  <2>2. Moved(x, "scripts", trashed) /\ x \in Items /\ "scripts" \in Places /\ trashed \in SUBSET Items
    BY <2>1, DriveAssumption DEF PushArrives, Moved, Places, Roots, Items, tables, ghosts, Shape, TypeOK
  <2>3. QED BY <2>2
<1>5. QED BY <1>1, <1>2, <1>3, <1>4 DEF DriveUser

LEMMA StepKinds ==
  ASSUME Shape, Fresh, FoldersFlat, [Next]_vars
  PROVE  \/ UNCHANGED view /\ (FetchToken \/ renew' = {} \/ UNCHANGED renew)
         \/ \E x \in Items, p \in Places, t \in SUBSET Items : Moved(x, p, t)
         \/ StartDelta \/ Delta \/ StartProject \/ Prune
         \/ \E k \in {"assets", "scripts"} : StartScan(k)
         \/ \E h \in work["project"].todo : Collect(h)
         \/ \E w \in Readers : Read(w)
         \/ DropChannel \/ Registered
         \/ \E p \in push : PushAnswered(p)
         \/ \E e \in del : DropScript(e) \/ DropAsset(e)
         \/ Dies /\ UNCHANGED <<drive, row, channel, handed>>
<1>1. CASE DriveUser
  BY <1>1, DriveMoves
<1>2. CASE Reading
  BY <1>2 DEF Reading
<1>3. CASE Renewal
  BY <1>3 DEF Renewal, FetchToken, RenewalFails, view, tables, ghosts
<1>4. CASE Route
  <2>1. CASE \E s \in Scripts : AddScript(s) \/ DeleteUnlinked(s) \/ ForgetScript(s)
    BY <2>1 DEF AddScript, DeleteUnlinked, ForgetScript, view, ghosts
  <2>2. CASE \E s \in Scripts : TrashScript(s)
    <3>1. PICK s \in Scripts : TrashScript(s)
      BY <2>2
    <3>2. script[s].file \in Items /\ Named(script[s].file)
      BY <3>1 DEF TrashScript, Named, Shape, TypeOK, Items
    <3>3. QED BY <3>1, <3>2, TrashMoves DEF TrashScript, tables, ghosts
  <2>3. CASE \E x \in Items : TrashAsset(x)
    <3>1. PICK x \in Items : TrashAsset(x)
      BY <2>3
    <3>2. Named(x)
      BY <3>1 DEF TrashAsset, Named
    <3>3. QED BY <3>1, <3>2, TrashMoves DEF TrashAsset, tables, ghosts
  <2>4. CASE \E p \in push : \E x \in Files : PushArrives(p, x)
    BY <2>4, DriveMoves
  <2>5. CASE \E p \in push : PushFails(p)
    BY <2>5 DEF PushFails, view, tables, ghosts
  <2>6. QED BY <1>4, <2>1, <2>2, <2>3, <2>4, <2>5 DEF Route
<1>5. CASE Crash \/ \E w \in Readers, s \in Scripts : CrashInPull(w, s)
  BY <1>5 DEF Crash, CrashInPull, tables
<1>6. CASE UNCHANGED vars
  BY <1>6 DEF vars, view, tables, ghosts
<1>7. QED BY <1>1, <1>2, <1>3, <1>4, <1>5, <1>6 DEF Next

-----------------------------------------------------------------------------
(* Folders, the channel and the readers in order *)

\* A row that is written or dropped is that of a file, a script's, or one in a root.
Rewritten(x) ==
  \/ row'[x] = row[x] \/ row'[x] = NoRow \/ row'[x] = Indexed(place[x])
  \/ x \in Files /\ row'[x].kind = row[x].kind /\ row'[x].script = row[x].script
  \/ x \in Files /\ row'[x].kind = "script"
  \/ x \in Files /\ row'[x].script = NoScript

LEMMA FlatRows ==
  ASSUME Shape, FoldersFlat, UNCHANGED drive, \A x \in Items : Rewritten(x)
  PROVE  FoldersFlat'
<1>1. \A p \in Places : Indexed(p).parent = p /\ Indexed(p).script = NoScript /\ NoRow.parent = "none" /\ NoRow.script = NoScript
  BY DEF Indexed, NoRow
<1>2. place' = place /\ \A x \in Items : place[x] \in Places
  BY DEF drive, Shape, TypeOK
<1>3. \A f \in Folders : row'[f].parent \notin Folders
  BY <1>1, <1>2, DriveAssumption DEF Rewritten, FoldersFlat, Items, Roots
<1>4. \A x \in Items : row'[x].kind # "script" => row'[x].script = NoScript
  BY <1>1, <1>2 DEF Rewritten, FoldersFlat
<1>5. QED BY <1>2, <1>3, <1>4 DEF FoldersFlat

LEMMA WithoutFlat ==
  ASSUME Shape, FoldersFlat, UNCHANGED drive, NEW R, row' = Without(R)
  PROVE  FoldersFlat'
<1>1. \A x \in Items : Rewritten(x)
  BY DEF Without, Rewritten
<1>2. QED BY <1>1, FlatRows

LEMMA SameFlat == FoldersFlat /\ UNCHANGED <<place, row>> => FoldersFlat'
  BY DEF FoldersFlat

LEMMA ReadFlat ==
  ASSUME Shape, FoldersFlat, NEW w \in Readers, Read(w)
  PROVE  FoldersFlat'
<1>1. UNCHANGED drive /\ row \in [Items -> RowType]
  BY ReadActs DEF Shape, TypeOK, RowType
<1>2. CASE RootListed(w) \/ ReaderFails(w) \/ Finish(w) \/ FolderListed(w) \/ ItemFails(w)
  BY <1>2, SameFlat DEF RootListed, ReaderFails, Finish, FolderListed, ItemFails, drive, tables
<1>3. CASE \E h \in work[w].todo : SkipFile(w, h) \/ PullScript(w, h) \/ OpenFolder(w, h)
  BY <1>3, SameFlat DEF SkipFile, PullScript, OpenFolder, drive, tables
<1>4. CASE \E h \in work[w].todo : DropRow(w, h)
  BY <1>1, <1>4, DropRowActs, WithoutFlat
<1>5. CASE \E h \in work[w].todo : UpdateRow(w, h)
  <2>1. PICK h \in work[w].todo : row' = [row EXCEPT ![h.id].parent = h.parent] /\ h.id \in Files
    BY <1>5 DEF UpdateRow
  <2>2. \A x \in Items : Rewritten(x)
    BY <1>1, <2>1 DEF RowType, Rewritten
  <2>3. QED BY <1>1, <2>2, FlatRows
<1>6. CASE \E h \in work[w].todo : IndexFile(w, h)
  <2>1. PICK h \in work[w].todo : row' = [row EXCEPT ![h.id] = Indexed(h.parent)] /\ h.id \in Files
    BY <1>6 DEF IndexFile
  <2>2. Indexed(h.parent).script = NoScript
    BY DEF Indexed, NoRow
  <2>3. \A x \in Items : Rewritten(x)
    BY <1>1, <2>1, <2>2 DEF Rewritten
  <2>4. QED BY <1>1, <2>3, FlatRows
<1>7. CASE \E s \in Scripts : Downloaded(w, s)
  <2>1. PICK s \in Scripts : Downloaded(w, s)
    BY <1>7
  <2>2. PICK h \in work[w].at : /\ work[w].pc = "download"
                                /\ row' = [row EXCEPT ![h.id] = [kind |-> "script", parent |-> h.parent, script |-> s]]
    BY <2>1, DownloadedActs
  <2>3. h.id \in Files
    BY <2>2, AtIs
  <2>4. \A x \in Items : Rewritten(x)
    BY <1>1, <2>2, <2>3 DEF Rewritten
  <2>5. QED BY <1>1, <2>4, FlatRows
<1>8. CASE FolderFound(w)
  <2>1. PICK h \in work[w].at : row' = row \/ row' = [row EXCEPT ![h.id] = Indexed(place[h.id])]
    BY <1>8 DEF FolderFound
  <2>2. \A x \in Items : Rewritten(x)
    BY <1>1, <2>1 DEF Rewritten
  <2>3. QED BY <1>1, <2>2, FlatRows
<1>9. QED BY <1>2, <1>3, <1>4, <1>5, <1>6, <1>7, <1>8 DEF Read

LEMMA FlatStep ==
  ASSUME Shape, Fresh, FoldersFlat, [Next]_vars
  PROVE  FoldersFlat'
<1>1. CASE UNCHANGED view \/ Registered \/ DropChannel \/ (Dies /\ UNCHANGED <<drive, row, channel, handed>>)
  BY <1>1, SameFlat DEF view, Registered, DropChannel, drive, tables
<1>2. CASE \E x \in Items, p \in Places, t \in SUBSET Items : Moved(x, p, t)
  BY <1>2 DEF Moved, Changes, FoldersFlat, Shape, TypeOK
<1>3. CASE StartDelta \/ Delta \/ StartProject \/ (\E k \in {"assets", "scripts"} : StartScan(k)) \/ \E h \in work["project"].todo : Collect(h)
  BY <1>3, SameFlat DEF StartDelta, Delta, StartProject, StartScan, Collect, drive, tables
<1>4. CASE Prune
  <2>1. PICK R : row' = Without(R) /\ UNCHANGED drive
    BY <1>4 DEF Prune
  <2>2. QED BY <2>1, WithoutFlat
<1>5. CASE \E w \in Readers : Read(w)
  BY <1>5, ReadFlat
<1>6. CASE \E p \in push : PushAnswered(p)
  <2>1. PICK p \in push : PushAnswered(p)
    BY <1>6
  <2>2. row' = [row EXCEPT ![p.file] = [NoRow EXCEPT !.kind = "script", !.script = p.script]] /\ UNCHANGED drive /\ p.file # NoFile
    BY <2>1 DEF PushAnswered
  <2>3. p.file \in Files
    BY <2>2 DEF Shape, TypeOK
  <2>4. [NoRow EXCEPT !.kind = "script", !.script = p.script].kind = "script"
    BY DEF NoRow
  <2>5. \A x \in Items : Rewritten(x)
    BY <2>2, <2>3, <2>4 DEF Shape, TypeOK, Rewritten
  <2>6. QED BY <2>2, <2>5, FlatRows
<1>7. CASE \E e \in del : DropScript(e) \/ DropAsset(e)
  <2>1. PICK R : row' = Without(R) /\ UNCHANGED drive
    BY <1>7 DEF DropScript, DropAsset
  <2>2. QED BY <2>1, WithoutFlat
<1>8. QED BY <1>1, <1>2, <1>3, <1>4, <1>5, <1>6, <1>7, StepKinds

\* The delta that asks is as it was, and so are the channel and the feed.
LEMMA SameChannel ==
  ASSUME ChannelKnows, UNCHANGED <<channel, handed, renew>>, Len(log') >= Len(log), Shape, Shape',
         work'["delta"].pc = "asking" => /\ work["delta"].pc = "asking" /\ work'["delta"].mine = work["delta"].mine
                                         /\ work'["delta"].from = work["delta"].from
  PROVE  ChannelKnows'
  BY DEF ChannelKnows, Shape, TypeOK

LEMMA AsideChannel ==
  ASSUME Shape, Shape', ChannelKnows, UNCHANGED <<channel, handed, renew, log>>, NEW w, NEW S, Aside(w, S),
         w = "delta" => work'["delta"].pc # "asking"
  PROVE  ChannelKnows'
  BY SameChannel DEF Aside, Readers, Shape, TypeOK

LEMMA ChannelStep ==
  ASSUME Shape, Shape', Fresh, FoldersFlat, ChannelKnows, \A w \in Readers : HoldsOne(w), [Next]_vars
  PROVE  ChannelKnows'
<1> USE DEF Readers
<1>0. Len(log) \in Nat /\ handed \in Nat
  BY DEF Shape, TypeOK
<1>1. CASE UNCHANGED view /\ (FetchToken \/ renew' = {} \/ UNCHANGED renew)
  BY <1>1, <1>0 DEF view, drive, FetchToken, ChannelKnows
<1>2. CASE \E x \in Items, p \in Places, t \in SUBSET Items : Moved(x, p, t)
  <2>1. PICK x \in Items, p \in Places, t \in SUBSET Items : Moved(x, p, t)
    BY <1>2
  <2>2. Aside("drive", {x}) /\ UNCHANGED <<channel, renew, handed>> /\ log' = Append(log, x)
    BY <2>1, StepAside DEF Moved, Changes, Shape
  <2>3. Len(log') >= Len(log)
    BY <2>2 DEF Shape, TypeOK
  <2>4. QED BY <2>2, <2>3, SameChannel DEF Aside
<1>3. CASE StartDelta
  <2>1. PICK t \in channel : Step("delta", [Resting EXCEPT !.kind = "delta", !.pc = "asking", !.from = t], {})
    BY <1>3 DEF StartDelta
  <2>2. work'["delta"] = [Resting EXCEPT !.kind = "delta", !.pc = "asking", !.from = t]
    BY <2>1, StepAside DEF Shape
  <2>3. work'["delta"].from = t
    BY <2>2 DEF Resting
  <2>4. QED BY <1>3, <2>1, <2>3 DEF StartDelta, ChannelKnows, drive, ghosts
<1>4. CASE Delta
  <2>1. PICK r, S : /\ Step("delta", r, S) /\ r.pc = "loop"
    <3> DEFINE r == [work["delta"] EXCEPT !.pc = "loop", !.todo = {Seen(x) : x \in ChangedIn(work["delta"].from, Len(log))}, !.from = 0, !.mine = TRUE]
    <3>1. work["delta"] \in Record
      BY RecordIs DEF Shape
    <3>2. r.pc = "loop"
      BY <3>1 DEF Record
    <3>3. Step("delta", r, ChangedIn(work["delta"].from, Len(log)))
      BY <1>4 DEF Delta
    <3> HIDE DEF r
    <3>4. QED BY <3>2, <3>3
  <2>2. work'["delta"].pc = "loop" /\ work["delta"].pc = "asking"
    BY <1>4, <2>1, StepAside DEF Shape, Delta
  <2>3. UNCHANGED <<renew, log>> /\ channel' = (IF work["delta"].mine THEN {Len(log)} ELSE channel)
        /\ handed' = (IF work["delta"].mine THEN Len(log) ELSE handed)
    BY <1>4 DEF Delta, drive
  <2>4. CASE work["delta"].mine
    <3>1. renew = {}
      BY <2>2, <2>4 DEF ChannelKnows
    <3>2. channel' = {Len(log)} /\ handed' = Len(log) /\ renew' = {} /\ Len(log') = Len(log)
      BY <2>3, <2>4, <3>1
    <3>3. QED BY <1>0, <2>2, <3>2 DEF ChannelKnows
  <2>5. CASE ~work["delta"].mine
    BY <1>0, <2>2, <2>3, <2>5 DEF ChannelKnows
  <2>6. QED BY <2>4, <2>5
<1>5. CASE StartProject \/ (\E k \in {"assets", "scripts"} : StartScan(k)) \/ \E h \in work["project"].todo : Collect(h)
  <2>1. PICK w, r, S : Step(w, r, S) /\ w # "delta" /\ UNCHANGED <<channel, handed, renew, log>>
    BY <1>5 DEF StartProject, StartScan, Collect, drive, ghosts
  <2>2. QED BY <2>1, StepAside, AsideChannel DEF Shape
<1>6. CASE Prune \/ (\E p \in push : PushAnswered(p)) \/ \E e \in del : DropScript(e) \/ DropAsset(e)
  <2>1. PICK w, r, S : Step(w, r, S) /\ w # "delta" /\ UNCHANGED <<channel, handed, renew, log>>
    BY <1>6 DEF Prune, PushAnswered, DropScript, DropAsset, drive
  <2>2. QED BY <2>1, StepAside, AsideChannel DEF Shape
<1>7. CASE \E w \in Readers : Read(w)
  <2>1. PICK w \in Readers : Read(w)
    BY <1>7
  <2>2. QED BY <2>1, ReadActs, AsideChannel DEF drive
<1>8. CASE DropChannel
  <2>1. work'["delta"] = [work["delta"] EXCEPT !.mine = (@ /\ work["delta"].pc # "asking")]
    BY <1>8, StepAside DEF DropChannel, Shape
  <2>2. work'["delta"].pc = work["delta"].pc /\ (work["delta"].pc = "asking" => work'["delta"].mine = FALSE)
    BY <2>1, RecordIs DEF Record, Shape
  <2>3. QED BY <1>8, <2>2 DEF DropChannel, ChannelKnows, drive, ghosts
<1>9. CASE Registered
  BY <1>9, <1>0 DEF Registered, ChannelKnows, drive, tables, Shape, TypeOK, TokensOK
<1>10. CASE Dies /\ UNCHANGED <<drive, row, channel, handed>>
  BY <1>10, RestingFields DEF Dies, ChannelKnows, drive
<1>11. QED BY <1>1, <1>2, <1>3, <1>4, <1>5, <1>6, <1>7, <1>8, <1>9, <1>10, StepKinds

LEMMA OneAside ==
  ASSUME NEW w, NEW S, Aside(w, S), NEW v \in Readers, v # w, HoldsOne(v)
  PROVE  HoldsOne(v)'
  BY DEF Aside, HoldsOne

LEMMA OneResting == \A v \in Readers : work'[v] = Resting => HoldsOne(v)'
  BY RestingFields DEF HoldsOne, Readers

\* A reader at work holds nothing at hand, or one item.
LEMMA OneLoop ==
  ASSUME NEW w \in Readers, HoldsOne(w), work[w].kind # "idle",
         work'[w].kind = work[w].kind, work'[w].pc = "loop", work'[w].at = {},
         w # "delta" => \A h \in work'[w].todo : h.gone = FALSE
  PROVE  HoldsOne(w)'
  BY DEF HoldsOne, Readers

LEMMA OneAwaits ==
  ASSUME Shape, NEW w \in Readers, HoldsOne(w), work[w].kind # "idle", NEW h, NEW pc, pc \in {"meta", "listing", "download"},
         Becomes(w, pc, work[w].todo \ {h}, {h}), h.gone = FALSE, pc = "download" => h.parent = "scripts"
  PROVE  HoldsOne(w)'
  BY DEF Becomes, HoldsOne, Readers

LEMMA BusyIs ==
  ASSUME Shape, NEW w \in Readers, work[w].pc # "idle"
  PROVE  work[w].kind # "idle"
  BY DEF Shape, ReadersOK, ReaderOK

\* Children of a folder are shown as they are there.
LEMMA ChildSeen ==
  ASSUME NEW p, NEW x \in Children(p)
  PROVE  x \in Items /\ ~InTrash(x) /\ Seen(x).gone = FALSE /\ Seen(x).id = x /\ Seen(x).parent = place[x] /\ place[x] = p
<1>1. x \in Items /\ ~InTrash(x) /\ place[x] = p
  BY DEF Children
<1>2. InTrash(x) = FALSE
  BY <1>1 DEF InTrash
<1>3. QED BY <1>1, <1>2 DEF Seen

LEMMA SeenThere == \A p : \A h \in {Seen(x) : x \in Children(p)} : h.gone = FALSE
<1> SUFFICES ASSUME NEW p, NEW x \in Children(p) PROVE Seen(x).gone = FALSE
  OBVIOUS
<1>1. QED BY ChildSeen

LEMMA ReadOne ==
  ASSUME Shape, NEW w \in Readers, HoldsOne(w), Read(w)
  PROVE  HoldsOne(w)'
<1>0. \A h \in work[w].todo : h.gone \in BOOLEAN
  BY RecordIs DEF Shape, Record, Handles
<1>1. CASE RootListed(w)
  <2>1. \A h \in work'[w].todo : h.gone = FALSE
    <3> DEFINE kids == IF work[w].kind = "scripts" THEN Children("scripts") \cap Files ELSE Children("assets")
    <3>1. work'[w].todo = {Seen(x) : x \in kids}
      BY <1>1, RootActs DEF Becomes
    <3>2. kids \subseteq Children("scripts") \/ kids \subseteq Children("assets")
      OBVIOUS
    <3> HIDE DEF kids
    <3>3. \E p : work'[w].todo \subseteq {Seen(x) : x \in Children(p)}
      BY <3>1, <3>2
    <3>4. QED BY <3>3, SeenThere
  <2>2. work[w].kind # "idle" /\ work'[w].kind = work[w].kind /\ work'[w].pc = "loop" /\ work'[w].at = {}
    BY <1>1, RootActs, BusyIs DEF Becomes, HoldsOne
  <2>3. QED BY <2>1, <2>2, OneLoop
<1>2. CASE ReaderFails(w) \/ Finish(w)
  BY <1>2, EndActs, OneResting
<1>3. CASE \E h \in work[w].todo : DropRow(w, h) \/ SkipFile(w, h) \/ UpdateRow(w, h) \/ IndexFile(w, h)
  <2>1. PICK h : Takes(w, h) /\ Becomes(w, "loop", work[w].todo \ {h}, {})
    BY <1>3, RestActs
  <2>2. work[w].kind # "idle"
    BY <2>1, BusyIs DEF Takes
  <2>3. QED BY <2>1, <2>2, OneLoop DEF Becomes, HoldsOne
<1>4. CASE \E h \in work[w].todo : PullScript(w, h)
  <2>1. PICK h \in work[w].todo : PullScript(w, h)
    BY <1>4
  <2>2. Takes(w, h) /\ ~h.gone /\ Becomes(w, "download", work[w].todo \ {h}, {h})
    BY <2>1, AwaitsActs
  <2>3. h.parent = "scripts"
    BY <2>1 DEF PullScript, Context
  <2>4. work[w].kind # "idle" /\ h.gone = FALSE
    BY <1>0, <2>2, BusyIs DEF Takes
  <2>5. QED BY <2>2, <2>3, <2>4, OneAwaits
<1>5. CASE \E h \in work[w].todo : OpenFolder(w, h)
  <2>1. PICK h \in work[w].todo, pc \in {"meta", "listing"} : Takes(w, h) /\ ~h.gone /\ Becomes(w, pc, work[w].todo \ {h}, {h})
    BY <1>5, AwaitsActs
  <2>2. work[w].kind # "idle" /\ h.gone = FALSE
    BY <1>0, <2>1, BusyIs DEF Takes
  <2>3. QED BY <2>1, <2>2, OneAwaits
<1>6. CASE (\E s \in Scripts : Downloaded(w, s)) \/ ItemFails(w)
  <2>1. PICK h : work[w].pc # "idle" /\ Becomes(w, "loop", work[w].todo \ {h}, {})
    <3>1. CASE \E s \in Scripts : Downloaded(w, s)
      <4>1. PICK s \in Scripts : Downloaded(w, s)
        BY <3>1
      <4>2. PICK h \in work[w].at : work[w].pc # "idle" /\ Becomes(w, "loop", work[w].todo \ {h}, {})
        BY <4>1, DownloadedActs
      <4>3. QED BY <4>2
    <3>2. CASE ItemFails(w)
      <4>1. PICK h \in work[w].at : work[w].pc # "idle" /\ Becomes(w, "loop", work[w].todo \ {h}, {})
        BY <3>2, FailsActs
      <4>2. QED BY <4>1
    <3>3. QED BY <1>6, <3>1, <3>2
  <2>2. work[w].kind # "idle"
    BY <2>1, BusyIs
  <2>3. QED BY <2>1, <2>2, OneLoop DEF Becomes, HoldsOne
<1>7. CASE FolderFound(w)
  <2>1. PICK h \in work[w].at : /\ work[w].pc = "meta"
                                /\ \/ Becomes(w, "loop", work[w].todo \ {h}, {})
                                   \/ Becomes(w, "listing", work[w].todo, work[w].at)
    BY <1>7, FoundActs
  <2>2. work[w].kind # "idle"
    BY <2>1, BusyIs
  <2>3. CASE Becomes(w, "loop", work[w].todo \ {h}, {})
    BY <2>2, <2>3, OneLoop DEF Becomes, HoldsOne
  <2>4. CASE Becomes(w, "listing", work[w].todo, work[w].at)
    BY <2>1, <2>2, <2>4 DEF Becomes, HoldsOne, Readers
  <2>5. QED BY <2>1, <2>3, <2>4
<1>8. CASE FolderListed(w)
  <2>1. PICK h \in work[w].at : /\ work[w].pc = "listing"
                                /\ Becomes(w, "loop", (work[w].todo \ {h}) \cup {Seen(x) : x \in Children(h.id) \cap Files}, {})
    BY <1>8, ListedActs
  <2>2. work[w].kind # "idle"
    BY <2>1, BusyIs
  <2>3. w # "delta" => \A g \in work'[w].todo : g.gone = FALSE
    <3>1. {Seen(x) : x \in Children(h.id) \cap Files} \subseteq {Seen(x) : x \in Children(h.id)}
      OBVIOUS
    <3>2. \A g \in {Seen(x) : x \in Children(h.id) \cap Files} : g.gone = FALSE
      BY <3>1, SeenThere
    <3>3. QED BY <2>1, <3>2 DEF Becomes, HoldsOne
  <2>4. QED BY <2>1, <2>2, <2>3, OneLoop DEF Becomes
<1>9. QED BY <1>1, <1>2, <1>3, <1>4, <1>5, <1>6, <1>7, <1>8 DEF Read

LEMMA HoldsOneStep ==
  ASSUME Shape, Fresh, FoldersFlat, \A w \in Readers : HoldsOne(w), [Next]_vars
  PROVE  \A w \in Readers : HoldsOne(w)'
<1>1. CASE UNCHANGED work
  BY <1>1 DEF HoldsOne
<1>2. CASE \E x \in Items, p \in Places, t \in SUBSET Items : Moved(x, p, t)
  <2>1. PICK S : Step("drive", Resting, S)
    BY <1>2 DEF Moved, Changes
  <2>2. QED BY <2>1, StepAside, OneAside DEF Shape, Readers
<1>3. CASE \E w \in Readers : \E r, S : Step(w, r, S) /\ (work'[w] = r => HoldsOne(w)')
  BY <1>3, StepAside, OneAside DEF Shape
<1>4. CASE StartDelta
  <2>1. PICK t \in channel : Step("delta", [Resting EXCEPT !.kind = "delta", !.pc = "asking", !.from = t], {})
    BY <1>4 DEF StartDelta
  <2>2. ASSUME work'["delta"] = [Resting EXCEPT !.kind = "delta", !.pc = "asking", !.from = t]
        PROVE  HoldsOne("delta")'
    BY <2>2 DEF HoldsOne, Resting
  <2>3. QED BY <1>3, <2>1, <2>2 DEF Readers
<1>5. CASE Delta
  <2> DEFINE new == {Seen(x) : x \in ChangedIn(work["delta"].from, Len(log))}
             r == [work["delta"] EXCEPT !.pc = "loop", !.todo = new, !.from = 0, !.mine = TRUE]
  <2>1. Step("delta", r, ChangedIn(work["delta"].from, Len(log))) /\ work["delta"].pc = "asking"
    BY <1>5 DEF Delta
  <2> HIDE DEF new
  <2>2. work["delta"] \in Record /\ work["delta"].kind # "idle"
    BY <2>1, RecordIs, BusyIs DEF Shape, Readers
  <2>3. r.kind = work["delta"].kind /\ r.pc = "loop" /\ r.at = work["delta"].at
    BY <2>2 DEF Record
  <2> HIDE DEF r
  <2>4. work["delta"].at = {}
    BY <2>1 DEF HoldsOne, Readers
  <2>5. work'["delta"] = r => HoldsOne("delta")'
    BY <2>2, <2>3, <2>4, OneLoop DEF Readers
  <2>6. QED BY <1>3, <2>1, <2>5 DEF Readers
<1>6. CASE StartProject
  <2>1. PICK D : Step("project", [Resting EXCEPT !.kind = "project", !.pc = "collecting",
                   !.todo = {[id |-> "assets", parent |-> "none", gone |-> FALSE]}, !.dirty = D], {})
    BY <1>6 DEF StartProject
  <2>2. ASSUME work'["project"] = [Resting EXCEPT !.kind = "project", !.pc = "collecting",
                   !.todo = {[id |-> "assets", parent |-> "none", gone |-> FALSE]}, !.dirty = D]
        PROVE  HoldsOne("project")'
    BY <2>2 DEF HoldsOne, Resting
  <2>3. QED BY <1>3, <2>1, <2>2 DEF Readers
<1>7. CASE Prune
  BY <1>3, <1>7, OneResting DEF Prune, Readers
<1>8. CASE \E k \in {"assets", "scripts"} : StartScan(k)
  <2>1. PICK k \in {"assets", "scripts"} : StartScan(k)
    BY <1>8
  <2>2. ASSUME work'["scan"] = [Resting EXCEPT !.kind = k, !.pc = "asking"]
        PROVE  HoldsOne("scan")'
    BY <2>2 DEF HoldsOne, Resting
  <2>3. QED BY <1>3, <2>1, <2>2 DEF StartScan, Readers
<1>9. CASE \E h \in work["project"].todo : Collect(h)
  <2>1. PICK h \in work["project"].todo : Collect(h)
    BY <1>9
  <2> DEFINE w == work["project"]
             new == {Seen(x) : x \in Children(h.id) \cap Folders}
             rest == (w.todo \ {h}) \cup new
             r == [w EXCEPT !.live = @ \cup Children(h.id), !.todo = rest,
                            !.pc = IF rest = {} THEN "asking" ELSE @]
  <2>2. w \in Record /\ w.pc = "collecting" /\ w.kind # "idle" /\ Step("project", r, {})
    BY <2>1, RecordIs, BusyIs DEF Shape, Readers, Collect
  <2>3. HoldsOne("project")
    BY DEF Readers
  <2>4. \A g \in new : g.gone = FALSE
    <3>1. new \subseteq {Seen(x) : x \in Children(h.id)}
      OBVIOUS
    <3> HIDE DEF new
    <3>2. QED BY <3>1, SeenThere
  <2> HIDE DEF new
  <2>5. r.kind = w.kind /\ r.at = w.at /\ r.todo = rest /\ r.pc = (IF rest = {} THEN "asking" ELSE "collecting")
    BY <2>2 DEF Record
  <2> HIDE DEF r
  <2>6. \A g \in rest : g.gone = FALSE
    BY <2>3, <2>4 DEF HoldsOne
  <2> HIDE DEF rest
  <2>7. ASSUME work'["project"] = r
        PROVE  HoldsOne("project")'
    BY <2>2, <2>3, <2>5, <2>6, <2>7 DEF HoldsOne
  <2>8. QED BY <1>3, <2>2, <2>7 DEF Readers
<1>10. CASE \E w \in Readers : Read(w)
  BY <1>10, ReadActs, ReadOne, OneAside
<1>11. CASE DropChannel
  <2>1. work["delta"] \in Record /\ HoldsOne("delta")
    BY RecordIs DEF Shape, Readers
  <2> DEFINE r == [work["delta"] EXCEPT !.mine = (@ /\ work["delta"].pc # "asking")]
  <2>2. /\ r.kind = work["delta"].kind /\ r.pc = work["delta"].pc /\ r.todo = work["delta"].todo
        /\ r.at = work["delta"].at
        /\ work["delta"] = Resting => r = Resting
    BY <2>1 DEF Record, Resting
  <2>3. Step("delta", r, {})
    BY <1>11 DEF DropChannel
  <2> HIDE DEF r
  <2>4. work'["delta"] = r => HoldsOne("delta")'
    BY <2>1, <2>2 DEF HoldsOne
  <2>5. QED BY <1>3, <2>3, <2>4 DEF Readers
<1>12. CASE (\E p \in push : PushAnswered(p)) \/ \E e \in del : DropScript(e) \/ DropAsset(e)
  <2>1. PICK w, S : w \notin Readers /\ Step(w, Resting, S)
    BY <1>12 DEF PushAnswered, DropScript, DropAsset, Readers
  <2>2. QED BY <2>1, StepAside, OneAside DEF Shape
<1>13. CASE Dies
  BY <1>13, OneResting DEF Dies
<1>14. QED BY <1>1, <1>2, <1>4, <1>5, <1>6, <1>7, <1>8, <1>9, <1>10, <1>11, <1>12, <1>13, StepKinds DEF view, Registered

LEMMA OrderlyStep ==
  ASSUME Shape, Fresh, Orderly, [Next]_vars
  PROVE  Orderly'
<1>1. FoldersFlat'
  BY FlatStep DEF Orderly
<1>2. ChannelKnows'
  BY ChannelStep, ShapeStep DEF Orderly
<1>3. \A w \in Readers : HoldsOne(w)'
  BY HoldsOneStep DEF Orderly
<1>4. QED BY <1>1, <1>2, <1>3 DEF Orderly

LEMMA OrderlyInit == Init => Orderly
<1> SUFFICES ASSUME Init PROVE Orderly
  OBVIOUS
<1>1. FoldersFlat
  <2>1. \A x \in Items : row[x] = NoRow \/ row[x] = Indexed(place[x])
    BY DEF Init
  <2>2. \A p : Indexed(p).parent = p /\ Indexed(p).script = NoScript /\ NoRow.parent = "none" /\ NoRow.script = NoScript
    BY DEF Indexed, NoRow
  <2>3. \A f \in Folders : place[f] \notin Folders \cup {"scripts"}
    <3>1. place \in [Items -> {"none", "assets"} \cup Folders] /\ \A x \in Items : place[x] \in Folders => x \in Files
      BY DEF Init
    <3>2. QED BY <3>1, DriveAssumption DEF Items, Roots
  <2>4. QED BY <2>1, <2>2, <2>3, DriveAssumption DEF FoldersFlat, Items, Roots
<1>2. \A w \in Readers : HoldsOne(w)
  BY RestingFields DEF Init, HoldsOne, Readers
<1>3. ChannelKnows
  BY RestingFields DEF Init, ChannelKnows, Readers
<1>4. QED BY <1>1, <1>2, <1>3 DEF Orderly

-----------------------------------------------------------------------------
(* Steps that forget nothing *)

\* Drive and the feed are as they were, what is done to S is marked, and the reader that acts
\* was shown what is there now.
Gentle(w, S) ==
  /\ S \in SUBSET Items /\ Aside(w, S)
  /\ UNCHANGED <<drive, handed>> /\ lost \subseteq lost' /\ stale \subseteq stale'
  /\ \A x \in Items : x \notin S => row'[x] = row[x]
  /\ w \in Readers =>
       /\ \/ work'[w].dirty = work[w].dirty
          \/ w # "project" /\ work'[w].dirty = {} /\ work'[w].todo \cup work'[w].at = {}
       /\ \A h \in work'[w].todo \cup work'[w].at : h \in Holds(w) \/ \E x \in Items : h = Seen(x) /\ ~InTrash(x)
       /\ \A h \in work'[w].todo : h \in work[w].todo \/ h.gone = FALSE
       /\ w = "project" => work'[w].kind = work[w].kind /\ work'[w].live = work[w].live

\* Becoming what it is after an item, a reader is gentle.
LEMMA GentleBecomes ==
  ASSUME NEW w \in Readers, NEW S \in SUBSET Items, Aside(w, S), NEW pc, NEW todo, NEW at, Becomes(w, pc, todo, at),
         UNCHANGED <<drive, handed>>, lost \subseteq lost', stale \subseteq stale',
         \A x \in Items : x \notin S => row'[x] = row[x],
         \A h \in todo : h \in work[w].todo \/ \E x \in Items : h = Seen(x) /\ ~InTrash(x) /\ h.gone = FALSE,
         \A h \in at : h \in Holds(w)
  PROVE  Gentle(w, S)
  BY DEF Gentle, Becomes, Holds

LEMMA ReadGentle ==
  ASSUME Shape, Orderly, NEW w \in Readers, Read(w), ~(w = "project" /\ ReaderFails(w)), ~(w = "scan" /\ Finish(w))
  PROVE  \E S : Gentle(w, S)
<1>0. row \in [Items -> RowType]
  BY DEF Shape, TypeOK, RowType
<1>1. CASE RootListed(w)
  <2> DEFINE kids == IF work[w].kind = "scripts" THEN Children("scripts") \cap Files ELSE Children("assets")
  <2>1. /\ Becomes(w, "loop", {Seen(x) : x \in kids}, work[w].at) /\ Aside(w, {})
        /\ UNCHANGED <<drive, row, channel, renew, lost, stale, handed>>
    BY <1>1, RootActs
  <2>2. \A x \in kids : x \in Items /\ ~InTrash(x) /\ Seen(x).gone = FALSE
    BY ChildSeen
  <2> HIDE DEF kids
  <2>3. \A h \in {Seen(x) : x \in kids} : \E x \in Items : h = Seen(x) /\ ~InTrash(x) /\ h.gone = FALSE
    BY <2>2
  <2>4. QED BY <2>1, <2>3, GentleBecomes DEF Holds
<1>2. CASE ReaderFails(w) \/ Finish(w)
  <2>1. w # "project" /\ lost \subseteq lost' /\ stale \subseteq stale'
    <3>1. CASE ReaderFails(w)
      BY <1>2, <3>1 DEF ReaderFails
    <3>2. CASE Finish(w)
      <4>1. w = "delta" /\ work[w].kind # "idle"
        BY <3>2, BusyIs DEF Finish
      <4>2. work[w].kind = "delta"
        BY <4>1 DEF Orderly, HoldsOne
      <4>3. QED BY <3>2, <4>1, <4>2 DEF Finish, Repaired
    <3>3. QED BY <1>2, <3>1, <3>2
  <2>2. Aside(w, {}) /\ UNCHANGED <<drive, row, channel, renew, handed>> /\ work'[w] = Resting
    BY <1>2, EndActs
  <2>3. Gentle(w, {})
    BY <2>1, <2>2, RestingFields DEF Gentle
  <2>4. QED BY <2>3
<1>3. CASE \E h \in work[w].todo : DropRow(w, h)
  <2>1. PICK h \in work[w].todo : DropRow(w, h)
    BY <1>3
  <2>2. h.id \in Items /\ Becomes(w, "loop", work[w].todo \ {h}, {}) /\ UNCHANGED <<drive, handed>>
    BY <2>1, RestActs, TakesIs
  <2>3. PICK R : /\ R = (IF row[h.id].kind = "none" THEN {} ELSE IF row[h.id].kind = "asset" THEN Subtree(h.id) ELSE {h.id})
                 /\ row' = Without(R) /\ Aside(w, {h.id} \cup R) /\ lost' = lost /\ stale' = stale
    BY <2>1, DropRowActs
  <2>4. {h.id} \cup R \in SUBSET Items
    BY <2>2, <2>3 DEF Subtree
  <2>5. \A x \in Items : x \notin {h.id} \cup R => row'[x] = row[x]
    BY <2>3 DEF Without
  <2>6. Gentle(w, {h.id} \cup R)
    BY <2>2, <2>3, <2>4, <2>5 DEF Gentle, Becomes, Holds
  <2>7. QED BY <2>6
<1>4. CASE \E h \in work[w].todo : SkipFile(w, h) \/ UpdateRow(w, h) \/ IndexFile(w, h)
  <2>1. PICK h \in work[w].todo : SkipFile(w, h) \/ UpdateRow(w, h) \/ IndexFile(w, h)
    BY <1>4
  <2>2. ~DropRow(w, h)
    BY <2>1 DEF DropRow, SkipFile, UpdateRow, IndexFile, Known, New
  <2>3. h.id \in Items /\ Becomes(w, "loop", work[w].todo \ {h}, {}) /\ UNCHANGED <<drive, handed>> /\ Aside(w, {h.id})
    BY <2>1, <2>2, RestActs, TakesIs
  <2>4. lost \subseteq lost' /\ stale \subseteq stale'
    BY <2>1 DEF SkipFile, UpdateRow, IndexFile, ghosts
  <2>5. \A x \in Items : x \notin {h.id} => row'[x] = row[x]
    BY <1>0, <2>1 DEF SkipFile, UpdateRow, IndexFile, tables
  <2>6. Gentle(w, {h.id})
    BY <2>3, <2>4, <2>5 DEF Gentle, Becomes, Holds
  <2>7. QED BY <2>6
<1>5. CASE \E h \in work[w].todo : PullScript(w, h) \/ OpenFolder(w, h)
  <2>1. PICK h \in work[w].todo : PullScript(w, h) \/ OpenFolder(w, h)
    BY <1>5
  <2>2. h.id \in Items /\ Aside(w, {h.id}) /\ UNCHANGED <<drive, row, lost, stale, handed>>
    BY <2>1, AwaitsActs, TakesIs
  <2>3. PICK pc : Becomes(w, pc, work[w].todo \ {h}, {h})
    BY <2>1, AwaitsActs
  <2>4. Gentle(w, {h.id})
    BY <2>2, <2>3 DEF Gentle, Becomes, Holds
  <2>5. QED BY <2>4
<1>6. CASE \E s \in Scripts : Downloaded(w, s)
  <2>1. PICK s \in Scripts : Downloaded(w, s)
    BY <1>6
  <2>2. PICK h \in work[w].at :
          /\ work[w].pc = "download" /\ Becomes(w, "loop", work[w].todo \ {h}, {}) /\ Aside(w, {h.id})
          /\ UNCHANGED <<drive, lost, stale, handed>>
          /\ row' = [row EXCEPT ![h.id] = [kind |-> "script", parent |-> h.parent, script |-> s]]
    BY <2>1, DownloadedActs
  <2>3. h.id \in Items
    BY <2>2, AtIs
  <2>4. Gentle(w, {h.id})
    BY <1>0, <2>2, <2>3 DEF Gentle, Becomes, Holds
  <2>5. QED BY <2>4
<1>7. CASE FolderFound(w)
  <2>1. PICK h \in work[w].at :
          /\ work[w].pc = "meta" /\ Aside(w, {h.id}) /\ UNCHANGED <<drive, lost, stale, handed>>
          /\ \/ Becomes(w, "loop", work[w].todo \ {h}, {}) /\ row' = row
             \/ Becomes(w, "listing", work[w].todo, work[w].at) /\ row' = [row EXCEPT ![h.id] = Indexed(place[h.id])]
    BY <1>7, FoundActs
  <2>2. h.id \in Items
    BY <2>1, AtIs
  <2>3. \A x \in Items : x \notin {h.id} => row'[x] = row[x]
    BY <1>0, <2>1
  <2>4. PICK pc, todo, at : Becomes(w, pc, todo, at) /\ todo \subseteq work[w].todo /\ at \subseteq work[w].at
    <3>1. CASE Becomes(w, "loop", work[w].todo \ {h}, {})
      BY <3>1
    <3>2. CASE Becomes(w, "listing", work[w].todo, work[w].at)
      BY <3>2
    <3>3. QED BY <2>1, <3>1, <3>2
  <2>5. Gentle(w, {h.id})
    BY <2>1, <2>2, <2>3, <2>4 DEF Gentle, Becomes, Holds
  <2>6. QED BY <2>5
<1>8. CASE FolderListed(w)
  <2>1. PICK h \in work[w].at :
          /\ work[w].pc = "listing" /\ Aside(w, {h.id}) /\ UNCHANGED <<drive, row, lost, stale, handed>>
          /\ Becomes(w, "loop", (work[w].todo \ {h}) \cup {Seen(x) : x \in Children(h.id) \cap Files}, {})
    BY <1>8, ListedActs
  <2>2. h.id \in Items
    BY <2>1, AtIs
  <2>3. \A x \in Children(h.id) \cap Files : x \in Items /\ ~InTrash(x) /\ Seen(x).gone = FALSE
    BY ChildSeen
  <2>4. \A g \in {Seen(x) : x \in Children(h.id) \cap Files} : \E x \in Items : g = Seen(x) /\ ~InTrash(x) /\ g.gone = FALSE
    BY <2>3
  <2>5. Gentle(w, {h.id})
    BY <2>1, <2>2, <2>4 DEF Gentle, Becomes, Holds
  <2>6. QED BY <2>5
<1>9. CASE ItemFails(w)
  <2>1. PICK h \in work[w].at :
          /\ work[w].pc \in {"meta", "listing", "download"} /\ Becomes(w, "loop", work[w].todo \ {h}, {})
          /\ Aside(w, {h.id}) /\ UNCHANGED <<drive, row, handed>> /\ lost \subseteq lost' /\ stale \subseteq stale'
    BY <1>9, FailsActs
  <2>2. h.id \in Items
    BY <2>1, AtIs
  <2>3. Gentle(w, {h.id})
    BY <2>1, <2>2 DEF Gentle, Becomes, Holds
  <2>4. QED BY <2>3
<1>10. QED BY <1>1, <1>2, <1>3, <1>4, <1>5, <1>6, <1>7, <1>8, <1>9 DEF Read

LEMMA GentleSteps ==
  ASSUME Shape, Orderly, Fresh, [Next]_vars
  PROVE  \/ UNCHANGED view
         \/ \E w, S : Gentle(w, S) /\ (w = "scan" => Read(w) \/ work'[w].pc = "asking") /\ (w = "project" => Read(w))
         \/ \E x \in Items, p \in Places, t \in SUBSET Items : Moved(x, p, t)
         \/ Delta \/ StartProject \/ Prune \/ ReaderFails("project") \/ Finish("scan")
         \/ \E h \in work["project"].todo : Collect(h)
         \/ Registered \/ (Dies /\ UNCHANGED <<drive, row, channel, handed>>)
<1>1. CASE StartDelta
  <2>1. PICK t \in channel : Step("delta", [Resting EXCEPT !.kind = "delta", !.pc = "asking", !.from = t], {})
    BY <1>1 DEF StartDelta
  <2>2. /\ work'["delta"] = [Resting EXCEPT !.kind = "delta", !.pc = "asking", !.from = t] /\ Aside("delta", {})
        /\ work["delta"].kind = "idle"
    BY <1>1, <2>1, StepAside DEF Shape, Readers, StartDelta, LockFree
  <2>3. work'["delta"].dirty = {} /\ work'["delta"].todo = {} /\ work'["delta"].at = {}
    BY <2>2 DEF Resting
  <2>4. Gentle("delta", {})
    BY <1>1, <2>2, <2>3 DEF Gentle, StartDelta, tables, ghosts
  <2>5. QED BY <2>4
<1>2. CASE \E k \in {"assets", "scripts"} : StartScan(k)
  <2>1. PICK k \in {"assets", "scripts"} : StartScan(k)
    BY <1>2
  <2>2. work'["scan"] = [Resting EXCEPT !.kind = k, !.pc = "asking"] /\ Aside("scan", {})
    BY <2>1, StepAside DEF Shape, Readers, StartScan
  <2>3. work'["scan"].dirty = {} /\ work'["scan"].todo = {} /\ work'["scan"].at = {} /\ work'["scan"].pc = "asking"
    BY <2>2 DEF Resting
  <2>4. Gentle("scan", {})
    BY <2>1, <2>2, <2>3 DEF Gentle, StartScan, tables, ghosts
  <2>5. QED BY <2>3, <2>4
<1>3. CASE \E w \in Readers : Read(w)
  BY <1>3, ReadGentle DEF Read
<1>4. CASE DropChannel
  <2> DEFINE r == [work["delta"] EXCEPT !.mine = (@ /\ work["delta"].pc # "asking")]
  <2>1. work["delta"] \in Record /\ "delta" \in Readers
    BY RecordIs DEF Shape, Readers
  <2>2. r.todo = work["delta"].todo /\ r.at = work["delta"].at /\ r.dirty = work["delta"].dirty
    BY <2>1 DEF Record
  <2>3. work'["delta"] = r /\ Aside("delta", {})
    BY <1>4, <2>1, StepAside DEF DropChannel, Shape
  <2> HIDE DEF r
  <2>4. Gentle("delta", {})
    BY <1>4, <2>2, <2>3 DEF Gentle, DropChannel, tables, ghosts, Holds
  <2>5. QED BY <2>4
<1>5. CASE \E p \in push : PushAnswered(p)
  <2>1. PICK p \in push : PushAnswered(p)
    BY <1>5
  <2>2. Aside("push", {p.file}) /\ p.file \in Files
    BY <2>1, StepAside DEF PushAnswered, Shape, TypeOK
  <2>3. lost \subseteq lost' /\ stale \subseteq stale' /\ UNCHANGED <<drive, handed>>
    BY <2>1 DEF PushAnswered
  <2>4. \A x \in Items : x \notin {p.file} => row'[x] = row[x]
    BY <2>1 DEF PushAnswered, Shape, TypeOK
  <2>5. Gentle("push", {p.file})
    BY <2>2, <2>3, <2>4 DEF Gentle, Readers, Items
  <2>6. QED BY <2>5
<1>6. CASE \E e \in del : DropScript(e) \/ DropAsset(e)
  <2>1. PICK R : /\ Step("route", Resting, R) /\ row' = Without(R) /\ R \in SUBSET Items
                 /\ lost \subseteq lost' /\ stale \subseteq stale' /\ UNCHANGED <<drive, handed>>
    <3>1. PICK e \in del : DropScript(e) \/ DropAsset(e)
      BY <1>6
    <3>2. e.id \in Items
      BY DEF Shape, TypeOK
    <3>3. CASE DropScript(e)
      BY <3>3 DEF DropScript
    <3>4. CASE DropAsset(e)
      <4>1. Subtree(e.id) \in SUBSET Items /\ Subtree(e.id) \ {e.id} \in SUBSET Items
        BY <3>2 DEF Subtree
      <4>2. QED BY <3>4, <4>1 DEF DropAsset
    <3>5. QED BY <3>1, <3>3, <3>4
  <2>2. Gentle("route", R)
    BY <2>1, StepAside DEF Gentle, Readers, Without, Shape
  <2>3. QED BY <2>2
<1>7. FoldersFlat
  BY DEF Orderly
<1>8. CASE UNCHANGED view /\ (FetchToken \/ renew' = {} \/ UNCHANGED renew)
  BY <1>8
<1>9. CASE \/ \E x \in Items, p \in Places, t \in SUBSET Items : Moved(x, p, t)
           \/ Delta \/ StartProject \/ Prune \/ Registered
           \/ \E h \in work["project"].todo : Collect(h)
           \/ (Dies /\ UNCHANGED <<drive, row, channel, handed>>)
  BY <1>9
<1>10. QED
  <2>1. ~(\/ StartDelta \/ (\E k \in {"assets", "scripts"} : StartScan(k)) \/ (\E w \in Readers : Read(w)) \/ DropChannel
           \/ (\E p \in push : PushAnswered(p)) \/ (\E e \in del : DropScript(e) \/ DropAsset(e))) =>
        \/ UNCHANGED view
        \/ \E x \in Items, p \in Places, t \in SUBSET Items : Moved(x, p, t)
        \/ Delta \/ StartProject \/ Prune \/ Registered
        \/ \E h \in work["project"].todo : Collect(h)
        \/ Dies /\ UNCHANGED <<drive, row, channel, handed>>
    BY <1>7, StepKinds
  <2>2. QED BY <1>1, <1>2, <1>3, <1>4, <1>5, <1>6, <1>8, <1>9, <2>1

-----------------------------------------------------------------------------
(* What the readers were shown *)

LEMMA DueIsItems == ASSUME Shape, ChannelKnows PROVE Due \in SUBSET Items
  BY ChangedIs, ShapeIs DEF Due, ChannelKnows, Shape, TypeOK

\* One level of folders is all there is.
LEMMA AboutClosed ==
  ASSUME Shape, FoldersFlat, NEW S \in SUBSET Items, NEW x \in Items, place[x] \in About(S)
  PROVE  x \in About(S)
<1>1. place[x] \in Places /\ place[x] \in Items
  BY AboutIsItems DEF Shape, TypeOK
<1>2. place[x] \in Folders
  BY <1>1, DriveAssumption DEF Places
<1>3. place[place[x]] \notin Folders /\ row[place[x]].parent \notin Folders
  BY <1>2 DEF FoldersFlat
<1>4. place[place[x]] \in Places /\ row[place[x]].parent \in Places
  BY <1>1 DEF Shape, TypeOK
<1>5. place[x] \in S
  BY <1>1, <1>3, <1>4, DriveAssumption DEF About, Places
<1>6. QED BY <1>5 DEF About

LEMMA PlaceIs ==
  ASSUME Shape, NEW x \in Items
  PROVE  place[x] \in Places /\ (place[x] \in Items => place[x] \in Folders)
  BY DriveAssumption DEF Shape, TypeOK, Places

\* Handles of items, in what a reader holds.
LEMMA HeldIs ==
  ASSUME Shape, NEW w \in Readers, NEW h \in Holds(w)
  PROVE  h \in Handles /\ h.gone \in BOOLEAN /\ (w # "project" => h.id \in Items)
  BY RecordIs DEF Holds, Shape, ReadersOK, ReaderOK, Record, Handles

LEMMA SeenFields == \A x : Seen(x).id = x /\ Seen(x).parent = place[x] /\ (Seen(x).gone <=> InTrash(x))
  BY DEF Seen

LEMMA GentleKeeps ==
  ASSUME Shape, NEW w, NEW S, Gentle(w, S)
  PROVE  /\ Due' = Due /\ \A x \in Items : (MayLack(x) => MayLack(x)') /\ (MayKeep(x) => MayKeep(x)')
         /\ \A x : Seen(x)' = Seen(x) /\ InTrash(x)' = InTrash(x)
         /\ work["project"].dirty \subseteq work'["project"].dirty /\ work'["project"].kind = work["project"].kind
<1>1. UNCHANGED <<place, trashed, log, handed>>
  BY DEF Gentle, drive
<1>2. Due' = Due
  BY <1>1 DEF Due, ChangedIn
<1>3. work["project"].dirty \subseteq work'["project"].dirty /\ work'["project"].kind = work["project"].kind
  BY DEF Gentle, Aside, Readers
<1>4. \A x \in Items : (MayLack(x) => MayLack(x)') /\ (MayKeep(x) => MayKeep(x)')
  BY <1>2, <1>3 DEF Gentle, MayLack, MayKeep
<1>5. \A x : Seen(x)' = Seen(x) /\ InTrash(x)' = InTrash(x)
  BY <1>1 DEF Seen, InTrash
<1>6. QED BY <1>2, <1>3, <1>4, <1>5

LEMMA GentleShown ==
  ASSUME Shape, Orderly, Shown, NEW w, NEW S, Gentle(w, S)
  PROVE  Shown'
<1>0. S \in SUBSET Items /\ UNCHANGED <<place, trashed>>
  BY DEF Gentle, drive
<1>1. /\ Due' = Due /\ \A x \in Items : (MayLack(x) => MayLack(x)') /\ (MayKeep(x) => MayKeep(x)')
      /\ \A x : Seen(x)' = Seen(x) /\ InTrash(x)' = InTrash(x)
      /\ work["project"].dirty \subseteq work'["project"].dirty /\ work'["project"].kind = work["project"].kind
  BY GentleKeeps
<1>2. \A v \in Readers : \A h \in Holds(v)' : h \in Holds(v) \/ \E x \in Items : h = Seen(x) /\ ~InTrash(x)
  BY DEF Gentle, Aside, Holds
<1>3. \A v \in {"scan", "project"} : \/ work[v].dirty \subseteq work'[v].dirty
                                     \/ Holds(v)' = {} /\ work'[v].dirty = {}
  BY DEF Gentle, Aside, Holds, Readers
<1>4. DirtyClosed'
  <2> SUFFICES ASSUME NEW v \in {"scan", "project"}, NEW x \in Items, place[x] \in work'[v].dirty
               PROVE  x \in work'[v].dirty
    BY <1>0 DEF DirtyClosed
  <2>1. \/ work'[v].dirty = work[v].dirty \/ work'[v].dirty = {}
        \/ work'[v].dirty = work[v].dirty \cup About(S)
    BY DEF Gentle, Aside, Readers
  <2>2. place[x] \in work[v].dirty => x \in work[v].dirty
    BY DEF Shown, DirtyClosed
  <2>3. place[x] \in About(S) => x \in About(S)
    BY <1>0, AboutClosed DEF Orderly
  <2>4. QED BY <2>1, <2>2, <2>3
<1>5. OwnShown'
  <2> SUFFICES ASSUME NEW v \in {"scan", "project"}, NEW h \in Holds(v)', h.id \in Items
               PROVE  h.id \in work'[v].dirty \/ h = Seen(h.id)'
    BY DEF OwnShown
  <2>1. h \in Holds(v) \/ \E x \in Items : h = Seen(x)
    BY <1>2 DEF Readers
  <2>2. QED BY <1>1, <1>3, <2>1, SeenFields DEF Shown, OwnShown
<1>6. OthersShown'
  <2> SUFFICES ASSUME work["project"].kind # "idle", NEW v \in {"delta", "scan"}, NEW h \in Holds(v)'
               PROVE  h.id \in work'["project"].dirty \/ h = Seen(h.id)'
    BY <1>1 DEF OthersShown
  <2>1. h \in Holds(v) \/ \E x \in Items : h = Seen(x)
    BY <1>2 DEF Readers
  <2>2. QED BY <1>1, <2>1, SeenFields DEF Shown, OthersShown
<1>7. ParentsShown'
  <2> SUFFICES ASSUME NEW v \in {"delta", "scan"}, NEW h \in Holds(v)'
               PROVE  h.parent = place[h.id] \/ (MayLack(h.id)' /\ MayKeep(h.id)')
    BY <1>0 DEF ParentsShown
  <2>1. h \in Holds(v) \/ \E x \in Items : h = Seen(x)
    BY <1>2 DEF Readers
  <2>2. CASE h \in Holds(v)
    <3>1. h.id \in Items
      BY <2>2, HeldIs DEF Readers
    <3>2. QED BY <1>1, <2>2, <3>1 DEF Shown, ParentsShown
  <2>3. QED BY <2>1, <2>2, SeenFields
<1>8. GoneShown'
  <2> SUFFICES ASSUME NEW h \in work'["delta"].todo, h.gone, ~InTrash(h.id)
               PROVE  \/ h.id \in Due \/ place[h.id] \in Due
                      \/ \A y \in Items : y = h.id \/ place[y] = h.id => MayLack(y)'
    BY <1>0, <1>1 DEF GoneShown
  <2>1. h \in work["delta"].todo
    BY DEF Gentle, Aside, Readers
  <2>2. QED BY <1>1, <2>1 DEF Shown, GoneShown
<1>9. ThereShown'
  <2> SUFFICES ASSUME NEW v \in {"delta", "scan"}, NEW h \in Holds(v)', ~h.gone
               PROVE  /\ h.id \in trashed => MayKeep(h.id)'
                      /\ InTrash(h.id) => MayKeep(h.id)' \/ place[h.id] \in Due
    BY <1>0, <1>1 DEF ThereShown
  <2>1. h \in Holds(v) \/ \E x \in Items : h = Seen(x) /\ ~InTrash(x)
    BY <1>2 DEF Readers
  <2>2. CASE h \in Holds(v)
    <3>1. h.id \in Items
      BY <2>2, HeldIs DEF Readers
    <3>2. QED BY <1>1, <2>2, <3>1 DEF Shown, ThereShown
  <2>3. QED BY <2>1, <2>2, SeenFields DEF InTrash
<1>10. QED BY <1>4, <1>5, <1>6, <1>7, <1>8, <1>9 DEF Shown

\* Drive moves x: what hangs on it is due, and out of the sight of the scans.
LEMMA MovedIs ==
  ASSUME Shape, Orderly, NEW x \in Items, NEW p \in Places, NEW t \in SUBSET Items, Moved(x, p, t)
  PROVE  /\ Aside("drive", {x}) /\ Due' = Due \cup {x}
         /\ \A y \in Items : y # x => place'[y] = place[y] /\ (y \in trashed' <=> y \in trashed)
         /\ place'[x] = p /\ trashed' = t /\ UNCHANGED <<row, channel, renew, lost, stale, handed>>
         /\ \A y \in Items : (MayLack(y) => MayLack(y)') /\ (MayKeep(y) => MayKeep(y)')
         /\ MayLack(x)' /\ MayKeep(x)'
         /\ \A y \in Items : y # x /\ place[y] # x => Seen(y)' = Seen(y) /\ (InTrash(y)' <=> InTrash(y))
<1>1. Aside("drive", {x}) /\ place' = [place EXCEPT ![x] = p] /\ trashed' = t /\ log' = Append(log, x)
      /\ UNCHANGED <<row, channel, renew, lost, stale, handed>>
  BY StepAside DEF Moved, Changes, Shape
<1>2. \A y \in Items : y # x => place'[y] = place[y] /\ (y \in trashed' <=> y \in trashed)
  BY <1>1 DEF Moved, Shape, TypeOK
<1>3. place'[x] = p
  BY <1>1 DEF Shape, TypeOK
<1>4. Due' = Due \cup {x}
  <2>1. log \in Seq(Items) /\ handed \in Nat /\ handed <= Len(log) /\ handed' = handed
    BY <1>1 DEF Shape, TypeOK, Orderly, ChannelKnows
  <2>2. Len(log') = Len(log) + 1 /\ log'[Len(log) + 1] = x /\ \A i \in 1..Len(log) : log'[i] = log[i]
    BY <1>1, <2>1
  <2>3. (handed + 1)..(Len(log) + 1) = ((handed + 1)..Len(log)) \cup {Len(log) + 1}
    BY <2>1
  <2>4. QED BY <2>1, <2>2, <2>3 DEF Due, ChangedIn
<1>5. work["project"].dirty \subseteq work'["project"].dirty
  BY <1>1 DEF Aside, Readers
<1>6. \A y \in Items : (MayLack(y) => MayLack(y)') /\ (MayKeep(y) => MayKeep(y)')
  BY <1>1, <1>4, <1>5 DEF MayLack, MayKeep
<1>7. MayLack(x)' /\ MayKeep(x)'
  BY <1>4 DEF MayLack, MayKeep
<1>8. \A y \in Items : y # x /\ place[y] # x => Seen(y)' = Seen(y) /\ (InTrash(y)' <=> InTrash(y))
  <2> SUFFICES ASSUME NEW y \in Items, y # x, place[y] # x
               PROVE  Seen(y)' = Seen(y) /\ (InTrash(y)' <=> InTrash(y))
    OBVIOUS
  <2>1. place[y] \in trashed' <=> place[y] \in trashed
    BY <1>1, <1>2 DEF Shape, TypeOK
  <2>2. InTrash(y)' = InTrash(y)
    BY <1>2, <2>1 DEF InTrash
  <2>3. QED BY <1>2, <2>2 DEF Seen
<1>9. QED BY <1>1, <1>2, <1>3, <1>4, <1>6, <1>7, <1>8

LEMMA MovedShown ==
  ASSUME Shape, Orderly, Orderly', Shape', Shown, NEW x \in Items, NEW p \in Places, NEW t \in SUBSET Items, Moved(x, p, t)
  PROVE  Shown'
<1>1. /\ Aside("drive", {x}) /\ Due' = Due \cup {x}
      /\ \A y \in Items : y # x => place'[y] = place[y] /\ (y \in trashed' <=> y \in trashed)
      /\ place'[x] = p /\ UNCHANGED <<row, lost, stale, handed>>
      /\ \A y \in Items : (MayLack(y) => MayLack(y)') /\ (MayKeep(y) => MayKeep(y)')
      /\ MayLack(x)' /\ MayKeep(x)'
      /\ \A y \in Items : y # x /\ place[y] # x => Seen(y)' = Seen(y) /\ (InTrash(y)' <=> InTrash(y))
  BY MovedIs
<1>2. \A v \in Readers : Holds(v)' = Holds(v) /\ work'[v].todo = work[v].todo
  BY <1>1 DEF Aside, Holds, Readers
<1>3. \A v \in {"scan", "project"} : work[v].kind # "idle" => work'[v].dirty = work[v].dirty \cup About({x})
  BY <1>1 DEF Aside, Readers
<1>4. \A v \in {"scan", "project"} : work[v].kind = "idle" => work'[v].dirty = {} /\ Holds(v) = {} /\ work'[v].kind = "idle"
  BY <1>1, RestingFields DEF Aside, Readers, Orderly, HoldsOne, Holds
<1>5. \A y \in Items : y = x \/ place[y] = x => y \in About({x})
  BY DEF About
<1>6. DirtyClosed'
  <2> SUFFICES ASSUME NEW v \in {"scan", "project"}, NEW y \in Items, place'[y] \in work'[v].dirty, work[v].kind # "idle"
               PROVE  y \in work'[v].dirty
    BY <1>4 DEF DirtyClosed
  <2>1. CASE y = x
    BY <1>3, <1>5, <2>1
  <2>2. CASE y # x
    <3>1. place[y] \in work[v].dirty \cup About({x})
      BY <1>1, <1>3, <2>2
    <3>2. place[y] \in work[v].dirty => y \in work[v].dirty
      BY DEF Shown, DirtyClosed
    <3>3. place[y] \in About({x}) => y \in About({x})
      BY AboutClosed DEF Orderly
    <3>4. QED BY <1>3, <3>1, <3>2, <3>3
  <2>3. QED BY <2>1, <2>2
<1>7. OwnShown'
  <2> SUFFICES ASSUME NEW v \in {"scan", "project"}, NEW h \in Holds(v), h.id \in Items
               PROVE  h.id \in work'[v].dirty \/ h = Seen(h.id)'
    BY <1>2 DEF OwnShown, Readers
  <2>1. h.id \in work[v].dirty \/ h = Seen(h.id)
    BY DEF Shown, OwnShown
  <2>2. QED BY <1>1, <1>3, <1>4, <1>5, <2>1
<1>8. OthersShown'
  <2> SUFFICES ASSUME work["project"].kind # "idle", NEW v \in {"delta", "scan"}, NEW h \in Holds(v)
               PROVE  h.id \in work'["project"].dirty \/ h = Seen(h.id)'
    BY <1>1, <1>2 DEF OthersShown, Aside, Readers
  <2>1. h.id \in work["project"].dirty \/ h = Seen(h.id)
    BY DEF Shown, OthersShown
  <2>2. h.id \in Items
    BY HeldIs DEF Readers
  <2>3. QED BY <1>1, <1>3, <1>5, <2>1, <2>2
<1>9. ParentsShown'
  <2> SUFFICES ASSUME NEW v \in {"delta", "scan"}, NEW h \in Holds(v)
               PROVE  h.parent = place'[h.id] \/ (MayLack(h.id)' /\ MayKeep(h.id)')
    BY <1>2 DEF ParentsShown, Readers
  <2>1. h.id \in Items
    BY HeldIs DEF Readers
  <2>2. QED BY <1>1, <2>1 DEF Shown, ParentsShown
<1>10. GoneShown'
  <2> SUFFICES ASSUME NEW h \in work["delta"].todo, h.gone, ~InTrash(h.id)'
               PROVE  \/ h.id \in Due' \/ place'[h.id] \in Due'
                      \/ \A y \in Items : y = h.id \/ place'[y] = h.id => MayLack(y)'
    BY <1>2 DEF GoneShown, Readers
  <2>1. h.id \in Items
    BY HeldIs DEF Readers, Holds
  <2>2. CASE h.id = x \/ place[h.id] = x
    BY <1>1, <2>1, <2>2
  <2>3. CASE h.id # x /\ place[h.id] # x
    <3>1. ~InTrash(h.id) /\ place'[h.id] = place[h.id]
      BY <1>1, <2>1, <2>3
    <3>2. \/ h.id \in Due \/ place[h.id] \in Due
          \/ \A y \in Items : y = h.id \/ place[y] = h.id => MayLack(y)
      BY <3>1 DEF Shown, GoneShown
    <3>3. QED BY <1>1, <3>1, <3>2
  <2>4. QED BY <2>2, <2>3
<1>11. ThereShown'
  <2> SUFFICES ASSUME NEW v \in {"delta", "scan"}, NEW h \in Holds(v), ~h.gone
               PROVE  /\ h.id \in trashed' => MayKeep(h.id)'
                      /\ InTrash(h.id)' => MayKeep(h.id)' \/ place'[h.id] \in Due'
    BY <1>2 DEF ThereShown, Readers
  <2>1. h.id \in Items
    BY HeldIs DEF Readers
  <2>2. CASE h.id = x
    BY <1>1, <2>2
  <2>3. CASE h.id # x
    BY <1>1, <2>1, <2>3 DEF Shown, ThereShown
  <2>4. QED BY <2>2, <2>3
<1>12. QED BY <1>6, <1>7, <1>8, <1>9, <1>10, <1>11 DEF Shown

LEMMA DeltaActs ==
  ASSUME Shape, Orderly, Locked, Delta
  PROVE  \E S \in SUBSET Items :
           /\ Aside("delta", S) /\ work["delta"].pc = "asking" /\ work["delta"].todo = {} /\ work["delta"].at = {}
           /\ Becomes("delta", "loop", {Seen(x) : x \in S}, {}) /\ work["scan"] = Resting /\ work["delta"].kind = "delta"
           /\ UNCHANGED <<drive, row, lost, stale>>
           /\ \/ S = Due /\ Due' = {}
              \/ Due' = Due
<1> DEFINE S == ChangedIn(work["delta"].from, Len(log))
           r == [work["delta"] EXCEPT !.pc = "loop", !.todo = {Seen(x) : x \in S}, !.from = 0, !.mine = TRUE]
<1>1. work["delta"] \in Record /\ work["delta"].pc = "asking" /\ work["delta"].kind # "idle" /\ Len(log) \in Nat
  BY RecordIs, BusyIs DEF Delta, Shape, Readers, TypeOK
<1>2. S \in SUBSET Items
  BY <1>1, ChangedIs, ShapeIs DEF Record, Shape, TypeOK
<1>3. Step("delta", r, S) /\ UNCHANGED <<drive, row, lost, stale>>
  BY DEF Delta, tables
<1>4. work["delta"].todo = {} /\ work["delta"].at = {} /\ work["scan"] = Resting /\ work["delta"].kind = "delta"
  BY <1>1 DEF Orderly, HoldsOne, Locked, Readers
<1>5. (S = Due /\ Due' = {}) \/ Due' = Due
  <2>1. log' = log /\ handed' = (IF work["delta"].mine THEN Len(log) ELSE handed)
    BY DEF Delta, drive
  <2>2. CASE work["delta"].mine
    <3>1. channel = {work["delta"].from} /\ channel \subseteq {handed}
      BY <1>1, <2>2 DEF Orderly, ChannelKnows
    <3>2. work["delta"].from = handed
      BY <3>1
    <3>3. (Len(log) + 1)..Len(log) = {}
      BY <1>1
    <3>4. QED BY <2>1, <2>2, <3>2, <3>3 DEF Due, ChangedIn
  <2>3. CASE ~work["delta"].mine
    BY <2>1, <2>3 DEF Due, ChangedIn
  <2>4. QED BY <2>2, <2>3
<1> HIDE DEF S
<1>6. Becomes("delta", "loop", {Seen(x) : x \in S}, {})
  <2>1. work'["delta"] = r
    BY <1>3, StepAside DEF Shape, Readers
  <2>2. /\ r.pc = "loop" /\ r.todo = {Seen(x) : x \in S} /\ r.at = work["delta"].at
        /\ r.kind = work["delta"].kind /\ r.live = work["delta"].live /\ r.dirty = work["delta"].dirty
    BY <1>1 DEF Record
  <2>3. QED BY <1>4, <2>1, <2>2 DEF Becomes
<1>7. Aside("delta", S)
  BY <1>3, StepAside DEF Shape
<1>8. QED BY <1>1, <1>2, <1>3, <1>4, <1>5, <1>6, <1>7

LEMMA SameSeen ==
  ASSUME UNCHANGED drive
  PROVE  \A x : Seen(x)' = Seen(x) /\ InTrash(x)' = InTrash(x)
  BY DEF drive, Seen, InTrash

LEMMA DeltaShown ==
  ASSUME Shape, Orderly, Locked, Shown, Delta
  PROVE  Shown'
<1>1. PICK S \in SUBSET Items :
        /\ Aside("delta", S) /\ Becomes("delta", "loop", {Seen(x) : x \in S}, {}) /\ work["scan"] = Resting
        /\ UNCHANGED <<drive, row, lost, stale>>
  BY DeltaActs
<1>2. UNCHANGED <<place, trashed>> /\ \A x : Seen(x)' = Seen(x) /\ InTrash(x)' = InTrash(x)
  BY <1>1, SameSeen DEF drive
<1>3. work'["scan"] = Resting
  BY <1>1, RestingFields DEF Aside, Readers
<1>4. Holds("scan")' = {} /\ Holds("project")' = Holds("project") /\ \A h \in Holds("delta")' : \E x \in Items : h = Seen(x)
  BY <1>1, <1>3, RestingFields DEF Aside, Becomes, Holds, Readers
<1>5. work["project"].dirty \subseteq work'["project"].dirty
      /\ (work'["project"].dirty = work["project"].dirty \/ work'["project"].dirty = work["project"].dirty \cup About(S))
  BY <1>1 DEF Aside, Readers
<1>6. DirtyClosed'
  <2> SUFFICES ASSUME NEW x \in Items, place[x] \in work'["project"].dirty
               PROVE  x \in work'["project"].dirty
    BY <1>2, <1>3, RestingFields DEF DirtyClosed
  <2>1. place[x] \in work["project"].dirty => x \in work["project"].dirty
    BY DEF Shown, DirtyClosed
  <2>2. place[x] \in About(S) => x \in About(S)
    BY AboutClosed DEF Orderly
  <2>3. QED BY <1>5, <2>1, <2>2
<1>7. OwnShown'
  BY <1>2, <1>4, <1>5 DEF Shown, OwnShown
<1>8. OthersShown'
  BY <1>2, <1>4, SeenFields DEF OthersShown
<1>9. ParentsShown'
  BY <1>2, <1>4, SeenFields DEF ParentsShown
<1>10. GoneShown'
  BY <1>2, <1>4, SeenFields DEF GoneShown, Holds
<1>11. ThereShown'
  BY <1>2, <1>4, SeenFields DEF ThereShown, InTrash
<1>12. QED BY <1>6, <1>7, <1>8, <1>9, <1>10, <1>11 DEF Shown

LEMMA ProjectStartsActs ==
  ASSUME Shape, StartProject
  PROVE  /\ Aside("project", {}) /\ work["project"].kind = "idle"
         /\ UNCHANGED <<drive, row, channel, lost, stale, handed>>
         /\ work'["project"].dirty = About({h.id : h \in Holds("delta") \cup Holds("scan")})
         /\ work'["project"].kind = "project" /\ work'["project"].pc = "collecting" /\ work'["project"].at = {}
         /\ work'["project"].todo = {[id |-> "assets", parent |-> "none", gone |-> FALSE]}
         /\ work'["project"].live = {} /\ work'["project"].flawed = FALSE
<1> DEFINE D == About({h.id : h \in UNION {work[w].todo \cup work[w].at : w \in {"delta", "scan"}}})
<1>1. Step("project", [Resting EXCEPT !.kind = "project", !.pc = "collecting",
              !.todo = {[id |-> "assets", parent |-> "none", gone |-> FALSE]}, !.dirty = D], {})
  BY DEF StartProject
<1>2. D = About({h.id : h \in Holds("delta") \cup Holds("scan")})
  <2>1. UNION {work[w].todo \cup work[w].at : w \in {"delta", "scan"}} = Holds("delta") \cup Holds("scan")
    BY DEF Holds
  <2>2. QED BY <2>1
<1> HIDE DEF D
<1>3. work'["project"] = [Resting EXCEPT !.kind = "project", !.pc = "collecting",
              !.todo = {[id |-> "assets", parent |-> "none", gone |-> FALSE]}, !.dirty = D] /\ Aside("project", {})
  BY <1>1, StepAside DEF Shape, Readers
<1>4. /\ work'["project"].dirty = D /\ work'["project"].kind = "project" /\ work'["project"].pc = "collecting"
      /\ work'["project"].at = {} /\ work'["project"].todo = {[id |-> "assets", parent |-> "none", gone |-> FALSE]}
      /\ work'["project"].live = {} /\ work'["project"].flawed = FALSE
  BY <1>3 DEF Resting
<1>5. QED BY <1>2, <1>3, <1>4 DEF StartProject, tables, ghosts

LEMMA SetOfIds == \A h, T : h \in T => h.id \in {g.id : g \in T}
  OBVIOUS



LEMMA ProjectStartsShown ==
  ASSUME Shape, Orderly, Shown, StartProject
  PROVE  Shown'
<1> DEFINE I == {h.id : h \in Holds("delta") \cup Holds("scan")}
<1>1. /\ Aside("project", {}) /\ UNCHANGED <<drive, row, lost, stale, handed>> /\ work["project"].kind = "idle"
      /\ work'["project"].dirty = About(I)
      /\ work'["project"].todo = {[id |-> "assets", parent |-> "none", gone |-> FALSE]} /\ work'["project"].at = {}
  BY ProjectStartsActs
<1>2. UNCHANGED <<place, trashed, log>> /\ \A x : Seen(x)' = Seen(x) /\ InTrash(x)' = InTrash(x)
  BY <1>1, SameSeen DEF drive
<1>3. Due' = Due
  BY <1>1, <1>2 DEF Due, ChangedIn
<1>4. work["project"].dirty = {}
  BY <1>1, RestingFields DEF Orderly, HoldsOne, Readers
<1>5. I \in SUBSET Items
  BY HeldIs DEF Readers
<1>6. \A v \in {"delta", "scan"} : \A h \in Holds(v) : h.id \in I
  BY SetOfIds
<1> HIDE DEF I
<1>7. Holds("scan")' = Holds("scan") /\ Holds("delta")' = Holds("delta") /\ work'["delta"].todo = work["delta"].todo
      /\ work["scan"].dirty \subseteq work'["scan"].dirty
      /\ (work'["scan"].dirty = work["scan"].dirty \/ work'["scan"].dirty = work["scan"].dirty \cup About({}))
  BY <1>1 DEF Aside, Readers, Holds
<1>8. \A x \in Items : (MayLack(x) => MayLack(x)') /\ (MayKeep(x) => MayKeep(x)')
  BY <1>1, <1>3, <1>4 DEF MayLack, MayKeep
<1>9. \A h \in Holds("project")' : h.id \notin Items
  BY <1>1, DriveAssumption DEF Holds, Roots
<1>10. DirtyClosed'
  <2> SUFFICES ASSUME NEW v \in {"scan", "project"}, NEW x \in Items, place[x] \in work'[v].dirty
               PROVE  x \in work'[v].dirty
    BY <1>2 DEF DirtyClosed
  <2>1. place[x] \in work["scan"].dirty => x \in work["scan"].dirty
    BY DEF Shown, DirtyClosed
  <2>2. \A T \in SUBSET Items : place[x] \in About(T) => x \in About(T)
    BY AboutClosed DEF Orderly
  <2>3. QED BY <1>1, <1>5, <1>7, <2>1, <2>2
<1>11. OwnShown'
  BY <1>2, <1>7, <1>9 DEF Shown, OwnShown
<1>12. OthersShown'
  BY <1>1, <1>6, <1>7 DEF OthersShown, About
<1>13. ParentsShown'
  BY <1>2, <1>7, <1>8, HeldIs DEF Shown, ParentsShown, Readers
<1>14. GoneShown'
  BY <1>2, <1>3, <1>7, <1>8 DEF Shown, GoneShown
<1>15. ThereShown'
  BY <1>2, <1>3, <1>7, <1>8, HeldIs DEF Shown, ThereShown, Readers
<1>16. QED BY <1>10, <1>11, <1>12, <1>13, <1>14, <1>15 DEF Shown

LEMMA CollectActs ==
  ASSUME Shape, Orderly, NEW h, Collect(h)
  PROVE  /\ Aside("project", {}) /\ UNCHANGED <<drive, row, channel, lost, stale, handed>>
         /\ work["project"].pc = "collecting" /\ h \in work["project"].todo /\ work["project"].kind = "project"
         /\ work'["project"].kind = "project" /\ work'["project"].dirty = work["project"].dirty
         /\ work'["project"].at = {} /\ work["project"].at = {}
         /\ work'["project"].live = work["project"].live \cup Children(h.id)
         /\ work'["project"].todo = (work["project"].todo \ {h}) \cup {Seen(x) : x \in Children(h.id) \cap Folders}
         /\ work'["project"].pc = (IF work'["project"].todo = {} THEN "asking" ELSE "collecting")
<1> DEFINE w == work["project"]
           rest == (w.todo \ {h}) \cup {Seen(x) : x \in Children(h.id) \cap Folders}
           r == [w EXCEPT !.live = @ \cup Children(h.id), !.todo = rest,
                          !.pc = IF rest = {} THEN "asking" ELSE @]
<1>1. w \in Record /\ w.pc = "collecting" /\ h \in w.todo /\ w.kind = "project" /\ w.at = {}
  BY RecordIs, BusyIs DEF Shape, Readers, Collect, ReadersOK, ReaderOK, Orderly, HoldsOne
<1>2. Step("project", r, {}) /\ UNCHANGED <<drive, row, channel, lost, stale, handed>>
  BY DEF Collect, tables, ghosts
<1> HIDE DEF rest
<1>3. /\ r.kind = w.kind /\ r.dirty = w.dirty /\ r.at = w.at /\ r.live = w.live \cup Children(h.id) /\ r.todo = rest
      /\ r.pc = (IF rest = {} THEN "asking" ELSE "collecting")
  BY <1>1 DEF Record
<1> HIDE DEF r
<1>4. work'["project"] = r /\ Aside("project", {})
  BY <1>2, StepAside DEF Shape, Readers
<1>5. QED BY <1>1, <1>2, <1>3, <1>4 DEF rest

LEMMA CollectShown ==
  ASSUME Shape, Orderly, Shown, NEW h, Collect(h)
  PROVE  Shown'
<1>1. /\ Aside("project", {}) /\ UNCHANGED <<drive, row, channel, lost, stale, handed>>
      /\ work'["project"].kind = work["project"].kind /\ work'["project"].dirty = work["project"].dirty
      /\ work'["project"].at = work["project"].at /\ work'["project"].live = work["project"].live \cup Children(h.id)
      /\ work'["project"].todo = (work["project"].todo \ {h}) \cup {Seen(x) : x \in Children(h.id) \cap Folders}
  BY CollectActs
<1>2. \A g \in {Seen(x) : x \in Children(h.id) \cap Folders} : \E x \in Items : g = Seen(x) /\ ~InTrash(x)
  BY ChildSeen
<1>3. UNCHANGED <<place, trashed, log>> /\ \A x : Seen(x)' = Seen(x) /\ InTrash(x)' = InTrash(x)
  BY <1>1, SameSeen DEF drive
<1>4. Due' = Due
  BY <1>1, <1>3 DEF Due, ChangedIn
<1>5. Holds("scan")' = Holds("scan") /\ Holds("delta")' = Holds("delta") /\ work'["delta"].todo = work["delta"].todo
      /\ work["scan"].dirty \subseteq work'["scan"].dirty
      /\ (work'["scan"].dirty = work["scan"].dirty \/ work'["scan"].dirty = work["scan"].dirty \cup About({}))
  BY <1>1 DEF Aside, Readers, Holds
<1>6. \A x \in Items : (MayLack(x) => MayLack(x)') /\ (MayKeep(x) => MayKeep(x)')
  BY <1>1, <1>4 DEF MayLack, MayKeep
<1>7. \A g \in Holds("project")' : g \in Holds("project") \/ \E x \in Items : g = Seen(x)
  BY <1>1, <1>2 DEF Holds
<1>8. DirtyClosed'
  <2> SUFFICES ASSUME NEW v \in {"scan", "project"}, NEW x \in Items, place[x] \in work'[v].dirty
               PROVE  x \in work'[v].dirty
    BY <1>3 DEF DirtyClosed
  <2>1. place[x] \in work[v].dirty => x \in work[v].dirty
    BY DEF Shown, DirtyClosed
  <2>2. place[x] \in About({}) => x \in About({})
    BY AboutClosed DEF Orderly
  <2>3. QED BY <1>1, <1>5, <2>1, <2>2
<1>9. OwnShown'
  BY <1>1, <1>3, <1>5, <1>7, SeenFields DEF Shown, OwnShown
<1>10. OthersShown'
  BY <1>1, <1>3, <1>5 DEF Shown, OthersShown
<1>11. ParentsShown'
  BY <1>3, <1>5, <1>6, HeldIs DEF Shown, ParentsShown, Readers
<1>12. GoneShown'
  BY <1>3, <1>4, <1>5, <1>6 DEF Shown, GoneShown
<1>13. ThereShown'
  BY <1>3, <1>4, <1>5, <1>6, HeldIs DEF Shown, ThereShown, Readers
<1>14. QED BY <1>8, <1>9, <1>10, <1>11, <1>12, <1>13 DEF Shown

\* A scan that ends: the others and the marks of the other scan stay.
LEMMA ScanEndsShown ==
  ASSUME Shape, Orderly, Locked, Shown, Finish("scan")
  PROVE  Shown'
<1>1. work'["scan"] = Resting /\ Aside("scan", {}) /\ UNCHANGED <<drive, row, channel, renew, handed>>
  BY EndActs DEF Readers
<1>2. work["delta"] = Resting
  <2>1. work["scan"].kind # "idle"
    BY BusyIs DEF Finish, Readers
  <2>2. QED BY <2>1 DEF Locked, Orderly, HoldsOne, Readers
<1>3. Holds("delta")' = {} /\ Holds("scan")' = {} /\ work'["delta"].todo = {} /\ Holds("project")' = Holds("project")
  BY <1>1, <1>2, RestingFields DEF Aside, Holds, Readers
<1>4. UNCHANGED <<place, trashed, log>> /\ \A x : Seen(x)' = Seen(x) /\ InTrash(x)' = InTrash(x)
  BY <1>1, SameSeen DEF drive
<1>5. work'["scan"].dirty = {} /\ work["project"].dirty \subseteq work'["project"].dirty
      /\ (work'["project"].dirty = work["project"].dirty \/ work'["project"].dirty = work["project"].dirty \cup About({}))
  BY <1>1, RestingFields DEF Aside, Readers
<1>6. DirtyClosed'
  <2> SUFFICES ASSUME NEW x \in Items, place[x] \in work'["project"].dirty
               PROVE  x \in work'["project"].dirty
    BY <1>4, <1>5 DEF DirtyClosed
  <2>1. place[x] \in work["project"].dirty => x \in work["project"].dirty
    BY DEF Shown, DirtyClosed
  <2>2. place[x] \in About({}) => x \in About({})
    BY AboutClosed DEF Orderly
  <2>3. QED BY <1>5, <2>1, <2>2
<1>7. OwnShown'
  BY <1>3, <1>4, <1>5 DEF Shown, OwnShown
<1>8. QED BY <1>3, <1>6, <1>7 DEF Shown, OthersShown, ParentsShown, GoneShown, ThereShown

\* The scan of the project ends, or dies with its first answer: what it did not see is doubtful.
LEMMA ProjectEndsShown ==
  ASSUME Shape, Orderly, Shown, work'["project"] = Resting, NEW S \in SUBSET Items, Aside("project", S),
         UNCHANGED <<drive, handed>>, work["project"].kind # "idle",
         work["project"].dirty \subseteq lost', work["project"].dirty \subseteq stale'
  PROVE  Shown'
<1>1. Holds("delta")' = Holds("delta") /\ Holds("scan")' = Holds("scan") /\ work'["delta"].todo = work["delta"].todo
      /\ Holds("project")' = {} /\ work'["project"].dirty = {} /\ work'["project"].kind = "idle"
      /\ work["scan"].dirty \subseteq work'["scan"].dirty
      /\ (work'["scan"].dirty = work["scan"].dirty \/ work'["scan"].dirty = work["scan"].dirty \cup About(S))
  BY RestingFields DEF Aside, Holds, Readers
<1>2. UNCHANGED <<place, trashed, log>> /\ \A x : Seen(x)' = Seen(x) /\ InTrash(x)' = InTrash(x)
  BY SameSeen DEF drive
<1>3. Due' = Due
  BY <1>2 DEF Due, ChangedIn
<1>4. \A v \in {"delta", "scan"} : \A h \in Holds(v) : h.id \in work["project"].dirty \/ h = Seen(h.id)
  BY DEF Shown, OthersShown
<1>5. \A x \in work["project"].dirty : MayLack(x)' /\ MayKeep(x)'
  BY DEF MayLack, MayKeep
<1>6. DirtyClosed'
  <2> SUFFICES ASSUME NEW x \in Items, place[x] \in work'["scan"].dirty
               PROVE  x \in work'["scan"].dirty
    BY <1>1, <1>2 DEF DirtyClosed
  <2>1. place[x] \in work["scan"].dirty => x \in work["scan"].dirty
    BY DEF Shown, DirtyClosed
  <2>2. place[x] \in About(S) => x \in About(S)
    BY AboutClosed DEF Orderly
  <2>3. QED BY <1>1, <2>1, <2>2
<1>7. OwnShown'
  BY <1>1, <1>2 DEF Shown, OwnShown
<1>8. OthersShown'
  BY <1>1 DEF OthersShown
<1>9. ParentsShown'
  BY <1>1, <1>2, <1>4, <1>5, SeenFields DEF ParentsShown
<1>10. GoneShown'
  <2> SUFFICES ASSUME NEW h \in work["delta"].todo, h.gone, ~InTrash(h.id)
               PROVE  \A y \in Items : y = h.id \/ place[y] = h.id => MayLack(y)'
    BY <1>1, <1>2, <1>3 DEF GoneShown
  <2>1. h.id \in work["project"].dirty
    BY <1>4, SeenFields DEF Holds
  <2>2. QED BY <1>5, <2>1 DEF Shown, DirtyClosed
<1>11. ThereShown'
  <2> SUFFICES ASSUME NEW v \in {"delta", "scan"}, NEW h \in Holds(v), ~h.gone, InTrash(h.id)
               PROVE  MayKeep(h.id)'
    BY <1>1, <1>2, <1>3 DEF ThereShown, InTrash
  <2>1. h.id \in work["project"].dirty
    BY <1>4, SeenFields
  <2>2. QED BY <1>5, <2>1
<1>12. QED BY <1>6, <1>7, <1>8, <1>9, <1>10, <1>11 DEF Shown

LEMMA PruneActs ==
  ASSUME Shape, Prune
  PROVE  \E R \in SUBSET Items :
           /\ R = {x \in Items : row[x].kind = "asset" /\ x \notin work["project"].live}
           /\ work'["project"] = Resting /\ Aside("project", R) /\ row' = Without(R)
           /\ UNCHANGED <<drive, channel, renew, handed>>
           /\ work["project"].kind = "project" /\ work["project"].pc = "loop" /\ work["project"].todo = {}
           /\ lost' = (lost \ (IF work["project"].flawed THEN {} ELSE Repaired("assets") \ work["project"].dirty))
                      \cup work["project"].dirty \cup {x \in R : place[x] = "scripts"}
           /\ stale' = (stale \cap (IF work["project"].flawed THEN Items ELSE {x \in Items : row[x].kind = "script"}))
                       \cup work["project"].dirty \cup {x \in Unlinked(Items) : row[x].parent \in R}
<1> DEFINE R == {x \in Items : row[x].kind = "asset" /\ x \notin work["project"].live}
<1>1. R \in SUBSET Items /\ Step("project", Resting, R)
  BY DEF Prune
<1> HIDE DEF R
<1>2. work'["project"] = Resting /\ Aside("project", R)
  BY <1>1, StepAside DEF Shape, Readers
<1> USE DEF R
<1>3. QED BY <1>1, <1>2 DEF Prune

LEMMA RegisteredActs ==
  ASSUME Shape, Orderly, Registered
  PROVE  \E G \in SUBSET Items :
           /\ UNCHANGED <<drive, row, work>> /\ Due \subseteq Due' \cup G
           /\ lost' = lost \cup About(G) /\ stale' = stale \cup About(G)
<1>1. PICK n \in renew : handed' = n /\ lost' = lost \cup About(ChangedIn(handed, n)) /\ stale' = stale \cup About(ChangedIn(handed, n))
  BY DEF Registered
<1>2. n \in Nat /\ n <= Len(log) /\ Len(log) \in Nat /\ handed \in Nat
  BY DEF Shape, TypeOK, TokensOK
<1>3. ChangedIn(handed, n) \in SUBSET Items
  BY <1>2, ChangedIs, ShapeIs
<1>4. log' = log /\ UNCHANGED <<drive, row, work>>
  BY DEF Registered, drive, tables
<1>5. Due \subseteq Due' \cup ChangedIn(handed, n)
  <2>1. (handed + 1)..Len(log) \subseteq ((n + 1)..Len(log)) \cup ((handed + 1)..n)
    BY <1>2
  <2>2. QED BY <1>1, <1>4, <2>1 DEF Due, ChangedIn
<1>6. QED BY <1>1, <1>3, <1>4, <1>5

\* What the new channel does not report is doubtful from now on.
LEMMA RegisteredKeeps ==
  ASSUME Shape, Orderly, Registered
  PROVE  /\ UNCHANGED <<drive, row, work>>
         /\ \A x \in Items : (MayLack(x) => MayLack(x)') /\ (MayKeep(x) => MayKeep(x)')
         /\ \A x \in Items : place[x] \in Due => place[x] \in Due' \/ (MayLack(x)' /\ MayKeep(x)')
         /\ \A x \in Due : x \in Due' \/ \A y \in Items : y = x \/ place[y] = x => MayLack(y)'
<1>1. PICK G \in SUBSET Items :
        /\ UNCHANGED <<drive, row, work>> /\ Due \subseteq Due' \cup G
        /\ lost' = lost \cup About(G) /\ stale' = stale \cup About(G)
  BY RegisteredActs
<1>2. \A x \in Items : x \in About(G) => MayLack(x)' /\ MayKeep(x)'
  BY <1>1 DEF MayLack, MayKeep
<1>3. \A x \in Items : x \in G \/ place[x] \in G => x \in About(G)
  BY DEF About
<1>4. \A x \in Items : (MayLack(x) => MayLack(x)') /\ (MayKeep(x) => MayKeep(x)')
  BY <1>1, <1>2, <1>3 DEF MayLack, MayKeep
<1>5. \A x \in Items : place[x] \in Due => place[x] \in Due' \/ (MayLack(x)' /\ MayKeep(x)')
  BY <1>1, <1>2, <1>3
<1>6. \A x \in Due : x \in Due' \/ \A y \in Items : y = x \/ place[y] = x => MayLack(y)'
  BY <1>1, <1>2, <1>3
<1>7. QED BY <1>1, <1>4, <1>5, <1>6

LEMMA RegisteredShown ==
  ASSUME Shape, Orderly, Shown, Registered
  PROVE  Shown'
<1>1. /\ UNCHANGED <<drive, row, work>>
      /\ \A x \in Items : (MayLack(x) => MayLack(x)') /\ (MayKeep(x) => MayKeep(x)')
      /\ \A x \in Items : place[x] \in Due => place[x] \in Due' \/ (MayLack(x)' /\ MayKeep(x)')
      /\ \A x \in Due : x \in Due' \/ \A y \in Items : y = x \/ place[y] = x => MayLack(y)'
  BY RegisteredKeeps
<1>2. UNCHANGED <<place, trashed, log>> /\ \A x : Seen(x)' = Seen(x) /\ InTrash(x)' = InTrash(x)
  BY <1>1, SameSeen DEF drive
<1>3. \A v \in Readers : Holds(v)' = Holds(v)
  BY <1>1 DEF Holds
<1>4. DirtyClosed' /\ OwnShown' /\ OthersShown'
  BY <1>1, <1>2, <1>3 DEF Shown, DirtyClosed, OwnShown, OthersShown, Readers
<1>5. ParentsShown'
  BY <1>1, <1>2, <1>3, HeldIs DEF Shown, ParentsShown, Readers
<1>6. GoneShown'
  <2> SUFFICES ASSUME NEW h \in work["delta"].todo, h.gone, ~InTrash(h.id)
               PROVE  \/ h.id \in Due' \/ place[h.id] \in Due'
                      \/ \A y \in Items : y = h.id \/ place[y] = h.id => MayLack(y)'
    BY <1>1, <1>2 DEF GoneShown
  <2>1. h.id \in Items
    BY HeldIs DEF Readers, Holds
  <2>2. \/ h.id \in Due \/ place[h.id] \in Due
        \/ \A y \in Items : y = h.id \/ place[y] = h.id => MayLack(y)
    BY DEF Shown, GoneShown
  <2>3. CASE place[h.id] \in Due /\ place[h.id] \notin Due'
    <3>1. place[h.id] \in Folders
      BY <2>1, <2>3, PlaceIs, DueIsItems DEF Orderly
    <3>2. h.id \notin Folders
      BY <3>1 DEF Orderly, FoldersFlat
    <3>3. \A y \in Items : place[y] # h.id
      BY <2>1, <3>2, PlaceIs
    <3>4. QED BY <1>1, <2>1, <2>3, <3>3
  <2>4. QED BY <1>1, <2>2, <2>3
<1>7. ThereShown'
  BY <1>1, <1>2, <1>3, HeldIs DEF Shown, ThereShown, Readers
<1>8. QED BY <1>4, <1>5, <1>6, <1>7 DEF Shown

LEMMA DiesActs ==
  ASSUME Shape, Dies
  PROVE  /\ \A v \in Readers : work'[v] = Resting
         /\ \A x \in Items : \/ x \in work["project"].dirty \/ x \in lost \/ \E h \in Holds("delta") : h.id \in {x, place[x]}
                             => x \in lost'
         /\ \A x \in Items : \/ x \in work["project"].dirty \/ x \in stale \/ \E h \in Holds("delta") : h.id \in {x, place[x]}
                             => x \in stale'
<1> DEFINE left == {h.id : h \in work["delta"].todo \cup work["delta"].at}
           S == About(left) \cup work["project"].dirty
<1>1. lost' = lost \cup S /\ stale' = stale \cup S /\ \A v \in Readers : work'[v] = Resting
  BY DEF Dies
<1>2. \A h \in Holds("delta") : h.id \in left
  BY DEF Holds
<1>3. \A x \in Items : x \in left \/ place[x] \in left => x \in About(left)
  BY DEF About
<1> HIDE DEF left
<1>4. QED BY <1>1, <1>2, <1>3

LEMMA DiesShown ==
  ASSUME Shape, Orderly, Shown, Dies
  PROVE  Shown'
<1>1. \A v \in Readers : work'[v] = Resting
  BY DiesActs
<1>2. \A v \in Readers : Holds(v)' = {} /\ work'[v].todo = {} /\ work'[v].dirty = {}
  BY <1>1, RestingFields DEF Holds
<1>3. QED BY <1>2 DEF Shown, DirtyClosed, OwnShown, OthersShown, ParentsShown, GoneShown, ThereShown, Readers

LEMMA ShownStep ==
  ASSUME Shape, Fresh, Locked, Orderly, Shown, [Next]_vars
  PROVE  Shown'
<1>1. CASE UNCHANGED view
  <2>1. UNCHANGED <<place, trashed, log, work, lost, stale, handed>>
    BY <1>1 DEF view, drive
  <2>2. QED BY <2>1 DEF Shown, DirtyClosed, OwnShown, OthersShown, ParentsShown, GoneShown, ThereShown,
                    Holds, Seen, InTrash, MayLack, MayKeep, Due, ChangedIn
<1>2. CASE ReaderFails("project")
  <2>1. work'["project"] = Resting /\ Aside("project", {}) /\ UNCHANGED <<drive, row, channel, renew, handed>>
    BY <1>2, EndActs DEF Readers
  <2>2. work["project"].kind # "idle" /\ work["project"].dirty \subseteq lost' /\ work["project"].dirty \subseteq stale'
    BY <1>2, BusyIs DEF ReaderFails, Readers
  <2>3. QED BY <2>1, <2>2, ProjectEndsShown
<1>3. CASE Prune
  <2>1. PICK R \in SUBSET Items :
          /\ work'["project"] = Resting /\ Aside("project", R) /\ UNCHANGED <<drive, channel, renew, handed>>
          /\ work["project"].kind = "project"
          /\ work["project"].dirty \subseteq lost' /\ work["project"].dirty \subseteq stale'
    BY <1>3, PruneActs
  <2>2. QED BY <2>1, ProjectEndsShown
<1>4. CASE \E x \in Items, p \in Places, t \in SUBSET Items : Moved(x, p, t)
  BY <1>4, MovedShown, OrderlyStep, ShapeStep
<1>5. QED BY <1>1, <1>2, <1>3, <1>4, GentleSteps, GentleShown, DeltaShown, ProjectStartsShown, ScanEndsShown,
             CollectShown, RegisteredShown, DiesShown

-----------------------------------------------------------------------------
(* What a scan covers *)

LEMMA RepairedIs ==
  /\ Repaired("assets") = {x \in Items : place[x] = "assets" \/ place[x] \in Children("assets")}
  /\ Repaired("scripts") = {x \in Items : place[x] = "scripts"}
  BY DEF Repaired

LEMMA ScopeIs ==
  ASSUME Orderly, NEW w \in {"scan", "project"}, work[w].kind # "idle", NEW y \in InScope(w)
  PROVE  y \in Items /\ (place[y] = "assets" \/ place[y] \in Children("assets") \/ place[y] = "scripts")
<1>1. w = "project" \/ work[w].kind \in {"assets", "scripts"}
  BY DEF Orderly, HoldsOne, Readers
<1>2. InScope(w) = Repaired("assets") \/ InScope(w) = Repaired("scripts")
  BY <1>1 DEF InScope
<1>3. QED BY <1>2, RepairedIs

LEMMA SameScope ==
  ASSUME Orderly, NEW w \in {"scan", "project"}, work[w].kind # "idle", UNCHANGED drive, work'[w].kind = work[w].kind
  PROVE  InScope(w)' = InScope(w)
<1>1. w = "project" \/ work[w].kind \in {"assets", "scripts"}
  BY DEF Orderly, HoldsOne, Readers
<1>2. \A p : Children(p)' = Children(p)
  BY DEF Children, InTrash, drive
<1>3. Repaired("assets")' = Repaired("assets") /\ Repaired("scripts")' = Repaired("scripts")
  BY <1>2, RepairedIs DEF Repaired, drive
<1>4. CASE w = "project" \/ work[w].kind = "assets"
  BY <1>3, <1>4 DEF InScope
<1>5. CASE w # "project" /\ work[w].kind = "scripts"
  BY <1>3, <1>5 DEF InScope
<1>6. QED BY <1>1, <1>4, <1>5

\* What others do to S is out of the sight of scan v, and the rest is as it was.
LEMMA AsideCovered ==
  ASSUME Shape, Orderly, NEW w, NEW S \in SUBSET Items, Aside(w, S), NEW v \in {"scan", "project"}, v # w, Covered(v),
         UNCHANGED drive, \A x \in Items : x \notin S => row'[x] = row[x]
  PROVE  Covered(v)'
<1> SUFFICES ASSUME work'[v].pc \in {"loop", "meta", "listing", "download"}
             PROVE  Covered(v)'
  BY DEF Covered
<1>1. /\ work'[v].kind = work[v].kind /\ work'[v].pc = work[v].pc /\ work'[v].todo = work[v].todo /\ work'[v].at = work[v].at
      /\ work'[v].flawed = work[v].flawed
  BY DEF Aside, Readers
<1>2. work[v].kind # "idle"
  BY <1>1, BusyIs DEF Readers
<1>3. work'[v].dirty = work[v].dirty \cup About(S)
  BY <1>2 DEF Aside, Readers
<1>4. InScope(v)' = InScope(v)
  BY <1>1, <1>2, SameScope
<1>5. \A x \in Items : place'[x] = place[x] /\ InTrash(x)' = InTrash(x)
  BY SameSeen DEF drive
<1>6. \A x \in Items : x \notin About(S) => row'[x] = row[x] /\ (place[x] \in Items => row'[place[x]] = row[place[x]])
  BY DEF About
<1>7. \A x \in Items : x \notin About(S) => (HasFolder(x)' <=> HasFolder(x)) /\ (RowRight(x)' <=> RowRight(x))
  BY <1>5, <1>6 DEF HasFolder, RowRight, Items
<1>8. \A x \in Items : x \notin About(S) => (Reached(v, x) => Reached(v, x)')
  BY <1>1, <1>5, <1>7 DEF Reached
<1>9. \A y \in InScope(v) : y \in Items
  BY <1>2, ScopeIs
<1>10. \A h \in work[v].todo : h.id \in Items
  BY <1>1 DEF Shape, ReadersOK, ReaderOK, Readers
<1>11. \A h \in work[v].at : h.id \in Items
  BY DEF Shape, ReadersOK, ReaderOK, Readers
<1>12. work'[v].flawed \/ \A y \in InScope(v)' : y \in work'[v].dirty \/ Reached(v, y)'
  BY <1>1, <1>3, <1>4, <1>8, <1>9 DEF Covered
<1>13. \A h \in work'[v].todo : h.id \in work'[v].dirty \/ HasFolder(h.id)'
  BY <1>1, <1>3, <1>7, <1>10 DEF Covered
<1>14. work'[v].pc = "listing" => \A h \in work'[v].at : h.id \in work'[v].dirty \/ row'[h.id].kind # "none"
  BY <1>1, <1>3, <1>6, <1>11 DEF Covered
<1>15. QED BY <1>12, <1>13, <1>14 DEF Covered

\* What hangs on the item that Drive moves is out of sight.
LEMMA MovedCovered ==
  ASSUME Shape, Orderly, NEW x \in Items, NEW p \in Places, NEW t \in SUBSET Items, Moved(x, p, t),
         NEW v \in {"scan", "project"}, Covered(v)
  PROVE  Covered(v)'
<1> SUFFICES ASSUME work'[v].pc \in {"loop", "meta", "listing", "download"}
             PROVE  Covered(v)'
  BY DEF Covered
<1>0. /\ Aside("drive", {x}) /\ UNCHANGED row
      /\ \A y \in Items : y # x => place'[y] = place[y] /\ (y \in trashed' <=> y \in trashed)
      /\ \A y \in Items : y # x /\ place[y] # x => (InTrash(y)' <=> InTrash(y))
      /\ place' \in [Items -> Places]
  BY MovedIs, ChangesShape DEF Moved
<1>1. /\ work'[v].kind = work[v].kind /\ work'[v].pc = work[v].pc /\ work'[v].todo = work[v].todo /\ work'[v].at = work[v].at
      /\ work'[v].flawed = work[v].flawed
  BY <1>0 DEF Aside, Readers
<1>2. work[v].kind # "idle"
  BY <1>1, BusyIs DEF Readers
<1>3. work'[v].dirty = work[v].dirty \cup About({x})
  BY <1>0, <1>2 DEF Aside, Readers
<1>4. \A y \in Items : y # x /\ place[y] # x =>
        (HasFolder(y)' <=> HasFolder(y)) /\ (Reached(v, y) => Reached(v, y)')
  BY <1>0, <1>1 DEF HasFolder, RowRight, Reached
<1>5. \A y \in Items : y = x \/ place[y] = x => y \in work'[v].dirty
  BY <1>3 DEF About
<1>6. \A y \in InScope(v)' : y \in Items /\ (y = x \/ place[y] = x \/ y \in InScope(v))
  <2> SUFFICES ASSUME NEW y \in InScope(v)', y # x, place[y] # x
               PROVE  y \in Items /\ y \in InScope(v)
    <3>1. v = "project" \/ work[v].kind \in {"assets", "scripts"}
      BY <1>2 DEF Orderly, HoldsOne, Readers
    <3>2. InScope(v)' \subseteq Items
      BY <1>1, <3>1 DEF InScope, Repaired
    <3>3. QED BY <3>2
  <2>1. CASE v = "project" \/ work[v].kind = "assets"
    <3>1. InScope(v)' = Repaired("assets")' /\ InScope(v) = Repaired("assets")
      BY <1>1, <2>1 DEF InScope
    <3>2. y \in Items /\ (place'[y] = "assets" \/ place'[y] \in Children("assets")')
      BY <3>1 DEF Repaired
    <3>3. place'[y] = place[y]
      BY <1>0, <3>2
    <3>4. ASSUME NEW f \in Items, f \in Children("assets")'
          PROVE  f \in Children("assets") \/ f = x
      <4>1. place'[f] = "assets" /\ ~InTrash(f)'
        BY <3>4 DEF Children
      <4>2. "assets" # x
        BY DriveAssumption DEF Roots
      <4>3. QED BY <1>0, <4>1, <4>2 DEF Children
    <3>5. place[y] \in Children("assets")' => place[y] \in Items
      BY DEF Children
    <3>6. QED BY <3>1, <3>2, <3>3, <3>4, <3>5, RepairedIs
  <2>2. CASE v # "project" /\ work[v].kind = "scripts"
    <3>1. InScope(v)' = Repaired("scripts")' /\ InScope(v) = Repaired("scripts")
      BY <1>1, <2>2 DEF InScope
    <3>2. y \in Items /\ place'[y] = "scripts"
      BY <3>1 DEF Repaired
    <3>3. QED BY <1>0, <3>1, <3>2, RepairedIs
  <2>3. QED BY <1>2, <2>1, <2>2 DEF Orderly, HoldsOne, Readers
<1>7. \A h \in work[v].todo : h.id \in Items
  BY <1>1 DEF Shape, ReadersOK, ReaderOK, Readers
<1>8. work'[v].flawed \/ \A y \in InScope(v)' : y \in work'[v].dirty \/ Reached(v, y)'
  BY <1>1, <1>3, <1>4, <1>5, <1>6 DEF Covered
<1>9. \A h \in work'[v].todo : h.id \in work'[v].dirty \/ HasFolder(h.id)'
  BY <1>1, <1>3, <1>4, <1>5, <1>7 DEF Covered
<1>10. work'[v].pc = "listing" => \A h \in work'[v].at : h.id \in work'[v].dirty \/ row'[h.id].kind # "none"
  BY <1>0, <1>1, <1>3 DEF Covered
<1>11. QED BY <1>8, <1>9, <1>10 DEF Covered

\* A scan deals with h: what does not hang on h is as covered as it was.
LEMMA OnCovered ==
  ASSUME Shape, Orderly, NEW w \in {"scan", "project"}, Covered(w), work[w].pc \in {"loop", "meta", "listing", "download"},
         NEW h, h.id \in Items, UNCHANGED drive,
         work'[w].kind = work[w].kind, work'[w].dirty = work[w].dirty, work'[w].flawed = work[w].flawed,
         work[w].todo \subseteq work'[w].todo \cup {h}, work[w].at \subseteq {h},
         \A x \in Items : x # h.id => row'[x] = row[x],
         row[h.id].kind # "none" => row'[h.id].kind # "none",
         \A g \in work'[w].todo : g \in work[w].todo \/ g.id \in work[w].dirty \/ HasFolder(g.id)',
         work'[w].pc = "listing" => \A g \in work'[w].at : g.id \in work[w].dirty \/ row'[g.id].kind # "none",
         \A y \in InScope(w) : y \notin work[w].dirty /\ y \in {h.id} /\ Reached(w, y) => Reached(w, y)',
         \A y \in InScope(w) : y \notin work[w].dirty /\ place[y] \in {h.id} /\ Reached(w, y) => Reached(w, y)'
  PROVE  Covered(w)'
<1>1. work[w].kind # "idle"
  BY BusyIs DEF Readers
<1>2. InScope(w)' = InScope(w) /\ \A y \in InScope(w) : y \in Items
  BY <1>1, SameScope, ScopeIs
<1>3. \A x \in Items : place'[x] = place[x] /\ InTrash(x)' = InTrash(x) /\ (row[x].kind # "none" => row'[x].kind # "none")
  BY SameSeen DEF drive
<1>4. \A y \in Items : place[y] \in Folders => place[y] \in Items
  BY DEF Items
<1>5. \A y \in Items : HasFolder(y) => HasFolder(y)'
  BY <1>3, <1>4 DEF HasFolder
<1>6. \A y \in Items : y # h.id /\ place[y] # h.id /\ Reached(w, y) => Reached(w, y)'
  BY <1>3, <1>5 DEF Reached, RowRight
<1>7. \A y \in InScope(w) : y \in work[w].dirty \/ ~Reached(w, y) \/ Reached(w, y)'
  BY <1>2, <1>6
<1>8. \A g \in work[w].todo : g.id \in Items
  BY DEF Shape, ReadersOK, ReaderOK, Readers
<1>9. work'[w].flawed \/ \A y \in InScope(w)' : y \in work'[w].dirty \/ Reached(w, y)'
  BY <1>2, <1>7 DEF Covered
<1>10. \A g \in work'[w].todo : g.id \in work'[w].dirty \/ HasFolder(g.id)'
  BY <1>5, <1>8 DEF Covered
<1>11. QED BY <1>9, <1>10 DEF Covered

LEMMA ScanItem ==
  ASSUME Shape, Orderly, Shown, NEW w \in {"scan", "project"}, NEW h \in Holds(w), h.id \in Items
  PROVE  /\ w \in Readers /\ h.gone = FALSE
         /\ h.id \in work[w].dirty \/ (h.parent = place[h.id] /\ ~InTrash(h.id))
         /\ h.id \in Files => \A y \in Items : place[y] # h.id
         /\ h.id \in Folders => place[h.id] \notin Folders \cup {"scripts"}
<1>1. w \in Readers /\ h.gone = FALSE
  BY DEF Readers, Orderly, HoldsOne, Holds
<1>2. h.id \in work[w].dirty \/ (h.parent = place[h.id] /\ ~InTrash(h.id))
  BY <1>1, SeenFields DEF Shown, OwnShown
<1>3. h.id \in Files => \A y \in Items : place[y] # h.id
  BY PlaceIs, DriveAssumption DEF Items
<1>4. QED BY <1>1, <1>2, <1>3 DEF Orderly, FoldersFlat

\* The files a scan deals with.
LEMMA FileCovered ==
  ASSUME Shape, Orderly, Shown, NEW w \in {"scan", "project"}, Covered(w), NEW h \in work[w].todo,
         SkipFile(w, h) \/ UpdateRow(w, h) \/ IndexFile(w, h)
  PROVE  Covered(w)'
<1>0. row \in [Items -> RowType]
  BY DEF Shape, TypeOK, RowType
<1>1. /\ w \in Readers /\ h.gone = FALSE
      /\ h.id \in work[w].dirty \/ (h.parent = place[h.id] /\ ~InTrash(h.id))
      /\ h.id \in Files /\ h.id \in Items /\ work[w].pc = "loop" /\ \A y \in Items : place[y] # h.id
  <2>1. h.id \in Files /\ work[w].pc = "loop"
    BY DEF SkipFile, UpdateRow, Known, IndexFile, New, Takes
  <2>2. QED BY <2>1, ScanItem DEF Holds, Items
<1>2. /\ Becomes(w, "loop", work[w].todo \ {h}, {}) /\ work'[w].flawed = work[w].flawed /\ UNCHANGED drive
  BY <1>1, RestActs
<1>3. \A x \in Items : x # h.id => row'[x] = row[x]
  BY <1>0 DEF SkipFile, UpdateRow, IndexFile, tables
<1>4. row[h.id].kind # "none" => row'[h.id].kind # "none"
  BY <1>0, <1>1 DEF SkipFile, UpdateRow, IndexFile, New, tables, RowType
<1>5. work[w].at = {} /\ work[w].kind # "idle"
  BY <1>1, BusyIs DEF Orderly, HoldsOne
<1>6. h.id \in work[w].dirty \/ HasFolder(h.id)
  BY <1>1 DEF Covered
<1>7. h.id \in InScope(w) /\ h.id \notin work[w].dirty => Reached(w, h.id)'
  <2> SUFFICES ASSUME h.id \in InScope(w), h.id \notin work[w].dirty
               PROVE  Reached(w, h.id)'
    OBVIOUS
  <2>1. h.parent = place[h.id] /\ HasFolder(h.id)
    BY <1>1, <1>6
  <2>2. place[h.id] = "assets" \/ place[h.id] = "scripts" \/ place[h.id] \in Folders
    <3>1. place[h.id] \in Children("assets") => place[h.id] \in Folders
      BY <1>1, PlaceIs DEF Children
    <3>2. QED BY <1>5, <3>1, ScopeIs
  <2>3. Context(h.parent) # "none"
    BY <2>1, <2>2 DEF Context, HasFolder
  <2>4. row'[h.id].kind # "none" /\ row'[h.id].parent = place[h.id]
    <3>1. CASE UpdateRow(w, h)
      BY <1>0, <1>1, <2>1, <3>1 DEF UpdateRow, Known, RowType
    <3>2. CASE IndexFile(w, h)
      <4>1. row'[h.id] = Indexed(h.parent)
        BY <1>0, <1>1, <3>2 DEF IndexFile
      <4>2. QED BY <2>1, <4>1 DEF Indexed, NoRow
    <3>3. QED BY <2>3, <3>1, <3>2 DEF SkipFile
  <2>5. place[h.id] # h.id /\ place' = place
    BY <1>1, <1>2 DEF drive
  <2>6. HasFolder(h.id)'
    BY <1>3, <2>1, <2>5, <1>1 DEF HasFolder, Items
  <2>7. RowRight(h.id)'
    BY <2>4, <2>5, <2>6 DEF RowRight
  <2>8. QED BY <2>7 DEF Reached
<1>8. QED BY <1>1, <1>2, <1>3, <1>4, <1>5, <1>7, OnCovered, ScopeIs DEF Becomes

LEMMA PullCovered ==
  ASSUME Shape, Orderly, Shown, NEW w \in {"scan", "project"}, Covered(w), NEW h \in work[w].todo, PullScript(w, h)
  PROVE  Covered(w)'
<1>1. /\ w \in Readers /\ h.id \in Files /\ h.id \in Items /\ work[w].pc = "loop" /\ \A y \in Items : place[y] # h.id
  <2>1. h.id \in Files /\ work[w].pc = "loop"
    BY DEF PullScript, New, Takes
  <2>2. QED BY <2>1, ScanItem DEF Holds, Items
<1>2. Becomes(w, "download", work[w].todo \ {h}, {h}) /\ work'[w].flawed = work[w].flawed /\ UNCHANGED <<drive, row>>
  BY <1>1, AwaitsActs
<1>3. work[w].at = {} /\ work[w].kind # "idle"
  BY <1>1, BusyIs DEF Orderly, HoldsOne
<1>4. Reached(w, h.id)'
  BY <1>2 DEF Reached, Becomes
<1>5. QED BY <1>1, <1>2, <1>3, <1>4, OnCovered, ScopeIs DEF Becomes

LEMMA DownloadCovered ==
  ASSUME Shape, Orderly, Shown, NEW w \in {"scan", "project"}, Covered(w), NEW s \in Scripts, Downloaded(w, s)
  PROVE  Covered(w)'
<1>0. row \in [Items -> RowType] /\ w \in Readers
  BY DEF Shape, TypeOK, RowType, Readers
<1>1. PICK h \in work[w].at :
           /\ work[w].pc = "download" /\ Becomes(w, "loop", work[w].todo \ {h}, {}) /\ work'[w].flawed = work[w].flawed
           /\ Aside(w, {h.id}) /\ UNCHANGED <<drive, channel, renew, lost, stale, handed>>
           /\ row' = [row EXCEPT ![h.id] = [kind |-> "script", parent |-> h.parent, script |-> s]]
  BY <1>0, DownloadedActs
<1>2. h.id \in Files /\ h.id \in Items /\ h.parent = "scripts" /\ work[w].at = {h} /\ work[w].kind # "idle"
  BY <1>0, <1>1, AtIs, BusyIs DEF Orderly, HoldsOne
<1>3. /\ h.id \in work[w].dirty \/ h.parent = place[h.id]
      /\ \A y \in Items : place[y] # h.id
  BY <1>1, <1>2, ScanItem DEF Holds
<1>4. h.id \notin work[w].dirty => RowRight(h.id)'
  BY <1>0, <1>1, <1>2, <1>3, DriveAssumption DEF RowRight, HasFolder, drive, Items, Roots
<1>5. h.id \notin work[w].dirty => Reached(w, h.id)'
  BY <1>4 DEF Reached
<1>6. QED BY <1>0, <1>1, <1>2, <1>3, <1>5, OnCovered, ScopeIs DEF Becomes

\* The folders a scan deals with.
LEMMA OpenCovered ==
  ASSUME Shape, Orderly, Shown, NEW w \in {"scan", "project"}, Covered(w), NEW h \in work[w].todo, OpenFolder(w, h)
  PROVE  Covered(w)'
<1>1. /\ w \in Readers /\ h.id \in Folders /\ h.id \in Items /\ work[w].pc = "loop"
      /\ place[h.id] \notin Folders
  <2>1. h.id \in Folders /\ work[w].pc = "loop"
    BY DEF OpenFolder, Takes
  <2>2. QED BY <2>1, ScanItem DEF Holds, Items
<1>2. PICK pc : /\ Becomes(w, pc, work[w].todo \ {h}, {h}) /\ pc = (IF row[h.id].kind # "none" THEN "listing" ELSE "meta")
                /\ work'[w].flawed = work[w].flawed /\ UNCHANGED <<drive, row>>
  BY <1>1, AwaitsActs
<1>3. work[w].at = {} /\ work[w].kind # "idle"
  BY <1>1, BusyIs DEF Orderly, HoldsOne
<1>4. \A y : place[y] = h.id => Reached(w, y)'
  BY <1>2 DEF Reached, Becomes, drive
<1>5. Reached(w, h.id)'
  <2>1. CASE row[h.id].kind # "none"
    <3>1. RowRight(h.id)'
      BY <1>1, <1>2, <2>1, DriveAssumption DEF RowRight, HasFolder, drive
    <3>2. QED BY <3>1 DEF Reached
  <2>2. CASE row[h.id].kind = "none"
    BY <1>2, <2>2 DEF Reached, Becomes
  <2>3. QED BY <2>1, <2>2
<1>6. QED BY <1>1, <1>2, <1>3, <1>4, <1>5, OnCovered DEF Becomes

LEMMA FoundCovered ==
  ASSUME Shape, Orderly, Shown, NEW w \in {"scan", "project"}, Covered(w), FolderFound(w)
  PROVE  Covered(w)'
<1>0. row \in [Items -> RowType] /\ w \in Readers
  BY DEF Shape, TypeOK, RowType, Readers
<1>1. PICK h \in work[w].at :
           /\ work[w].pc = "meta" /\ work'[w].flawed = work[w].flawed
           /\ Aside(w, {h.id}) /\ UNCHANGED <<drive, channel, renew, lost, stale, handed>>
           /\ \/ /\ InTrash(h.id) \/ Context(place[h.id]) # "assets"
                 /\ Becomes(w, "loop", work[w].todo \ {h}, {}) /\ row' = row
              \/ /\ ~InTrash(h.id) /\ Context(place[h.id]) = "assets"
                 /\ Becomes(w, "listing", work[w].todo, work[w].at)
                 /\ row' = [row EXCEPT ![h.id] = Indexed(place[h.id])]
  BY <1>0, FoundActs
<1>2. h.id \in Folders /\ h.id \in Items /\ work[w].at = {h} /\ work[w].kind # "idle"
  BY <1>0, <1>1, AtIs, BusyIs DEF Orderly, HoldsOne
<1>3. place[h.id] \notin Folders \cup {"scripts"} /\ h.id \notin Roots
  BY <1>2, DriveAssumption DEF Orderly, FoldersFlat
<1>4. CASE row' = row /\ (InTrash(h.id) \/ Context(place[h.id]) # "assets") /\ Becomes(w, "loop", work[w].todo \ {h}, {})
  <2>1. InTrash(h.id) \/ place[h.id] # "assets"
    BY <1>4 DEF Context
  <2>2. h.id \in InScope(w) => InTrash(h.id)
    <3>1. place[h.id] \notin Children("assets")
      BY <1>2, <1>3, PlaceIs DEF Children
    <3>2. QED BY <1>2, <1>3, <2>1, <3>1, ScopeIs
  <2>3. h.id \in InScope(w) => Reached(w, h.id)'
    BY <1>1, <2>2 DEF Reached, InTrash, drive
  <2>4. \A y \in InScope(w) : place[y] # h.id
    BY <1>2, <1>3, <2>1, ScopeIs DEF Children, Roots
  <2>5. QED BY <1>1, <1>2, <1>4, <2>3, <2>4, OnCovered DEF Becomes
<1>5. CASE Becomes(w, "listing", work[w].todo, work[w].at) /\ row' = [row EXCEPT ![h.id] = Indexed(place[h.id])]
  <2>1. row'[h.id].kind # "none" /\ \A x \in Items : x # h.id => row'[x] = row[x]
    BY <1>0, <1>2, <1>5 DEF Indexed, NoRow
  <2>2. RowRight(h.id)'
    BY <1>1, <1>2, <1>3, <2>1, DriveAssumption DEF RowRight, HasFolder, drive
  <2>3. Reached(w, h.id)'
    BY <2>2 DEF Reached
  <2>4. \A y : place[y] = h.id => Reached(w, y)'
    BY <1>1, <1>5 DEF Reached, Becomes, drive
  <2>5. QED BY <1>1, <1>2, <1>5, <2>1, <2>3, <2>4, OnCovered DEF Becomes
<1>6. QED BY <1>1, <1>4, <1>5

LEMMA ListedCovered ==
  ASSUME Shape, Orderly, Shown, NEW w \in {"scan", "project"}, Covered(w), FolderListed(w)
  PROVE  Covered(w)'
<1>0. w \in Readers
  BY DEF Readers
<1>1. PICK h \in work[w].at :
           /\ work[w].pc = "listing" /\ work'[w].flawed = work[w].flawed
           /\ Aside(w, {h.id}) /\ UNCHANGED <<drive, row, channel, renew, lost, stale, handed>>
           /\ Becomes(w, "loop", (work[w].todo \ {h}) \cup {Seen(x) : x \in Children(h.id) \cap Files}, {})
  BY <1>0, ListedActs
<1>2. h.id \in Folders /\ h.id \in Items /\ work[w].at = {h} /\ work[w].kind # "idle"
  BY <1>0, <1>1, AtIs, BusyIs DEF Orderly, HoldsOne
<1>3. h.id \in work[w].dirty \/ row[h.id].kind # "none"
  BY <1>1 DEF Covered
<1>4. \A g \in {Seen(x) : x \in Children(h.id) \cap Files} : g.id \in work[w].dirty \/ HasFolder(g.id)'
  <2> SUFFICES ASSUME NEW g \in {Seen(x) : x \in Children(h.id) \cap Files}
               PROVE  g.id \in work[w].dirty \/ HasFolder(g.id)'
    OBVIOUS
  <2>1. PICK x \in Children(h.id) : g = Seen(x)
    OBVIOUS
  <2>2. x \in Items /\ g.id = x /\ place[x] = h.id
    BY <2>1, ChildSeen
  <2>3. h.id \in work[w].dirty => x \in work[w].dirty
    BY <2>2 DEF Shown, DirtyClosed
  <2>4. row[h.id].kind # "none" => HasFolder(x)'
    BY <1>1, <2>2 DEF HasFolder, drive
  <2>5. QED BY <1>3, <2>2, <2>3, <2>4
<1>5. \A g \in work'[w].todo : g \in work[w].todo \/ g.id \in work[w].dirty \/ HasFolder(g.id)'
  BY <1>1, <1>4 DEF Becomes
<1>6. h.id \notin work[w].dirty => Reached(w, h.id)'
  <2>1. place[h.id] \notin Folders /\ h.id \notin Files
    BY <1>2, DriveAssumption DEF Orderly, FoldersFlat
  <2>2. row[h.id].kind # "none" => RowRight(h.id)'
    BY <1>1, <2>1 DEF RowRight, HasFolder, drive
  <2>3. QED BY <1>3, <2>2 DEF Reached
<1>7. \A y \in Items : place[y] = h.id => Reached(w, y)'
  <2> SUFFICES ASSUME NEW y \in Items, place[y] = h.id, ~InTrash(y)
               PROVE  Reached(w, y)'
    BY <1>1 DEF Reached, InTrash, drive
  <2>1. y \in Children(h.id) /\ y \in Files
    BY <1>2 DEF Children, Items, Orderly, FoldersFlat
  <2>2. Seen(y) \in work'[w].todo /\ Seen(y).id = y
    BY <1>1, <2>1, SeenFields DEF Becomes
  <2>3. QED BY <2>2 DEF Reached
<1>8. QED BY <1>1, <1>2, <1>5, <1>6, <1>7, OnCovered, ScopeIs DEF Becomes

LEMMA FailsCovered ==
  ASSUME Shape, NEW w \in {"scan", "project"}, Covered(w), ItemFails(w)
  PROVE  Covered(w)'
<1>0. w \in Readers
  BY DEF Readers
<1>1. PICK h \in work[w].at :
           /\ work[w].pc \in {"meta", "listing", "download"} /\ work'[w].flawed = TRUE
           /\ Becomes(w, "loop", work[w].todo \ {h}, {})
           /\ Aside(w, {h.id}) /\ UNCHANGED <<drive, row, channel, renew, handed>>
           /\ lost' = lost \cup Missed(w, h.id) /\ stale' = stale \cup Missed(w, h.id)
  BY <1>0, FailsActs
<1>2. \A x : HasFolder(x)' = HasFolder(x)
  BY <1>1 DEF HasFolder, drive
<1>3. QED BY <1>1, <1>2 DEF Covered, Becomes

\* The root is listed: all below it is there to do.
LEMMA RootCovered ==
  ASSUME Shape, Orderly, NEW w \in {"scan", "project"}, RootListed(w)
  PROVE  Covered(w)'
<1> DEFINE kids == IF work[w].kind = "scripts" THEN Children("scripts") \cap Files ELSE Children("assets")
<1>0. w \in Readers
  BY DEF Readers
<1>1. /\ work[w].pc = "asking" /\ work[w].kind # "delta" /\ work'[w].flawed = work[w].flawed
      /\ Becomes(w, "loop", {Seen(x) : x \in kids}, work[w].at)
      /\ UNCHANGED <<drive, row, channel, renew, lost, stale, handed>>
  BY <1>0, RootActs
<1>2. work[w].kind # "idle" /\ (w = "project" => work[w].kind = "project") /\ (w = "scan" => work[w].kind \in {"assets", "scripts"})
  BY <1>0, <1>1, BusyIs DEF Orderly, HoldsOne, Shape, ReadersOK, ReaderOK
<1>3. InScope(w)' = InScope(w) /\ \A y \in InScope(w) : y \in Items
  BY <1>1, <1>2, SameScope, ScopeIs DEF Becomes
<1>4. \A x \in kids : x \in Items /\ place[x] \in {"assets", "scripts"}
  BY ChildSeen
<1>5. \A x \in kids : HasFolder(x)'
  BY <1>1, <1>4, DriveAssumption DEF HasFolder, drive, Roots, Items
<1>6. \A y \in InScope(w) : InTrash(y) \/ y \in kids \/ place[y] \in kids
  <2>1. CASE w = "project" \/ work[w].kind = "assets"
    <3>1. InScope(w) = Repaired("assets") /\ kids = Children("assets")
      BY <1>2, <2>1 DEF InScope
    <3>2. QED BY <3>1, RepairedIs DEF Children
  <2>2. CASE w # "project" /\ work[w].kind = "scripts"
    <3>1. InScope(w) = Repaired("scripts") /\ kids = Children("scripts") \cap Files
      BY <2>2 DEF InScope
    <3>2. QED BY <3>1, RepairedIs DEF Children, Orderly, FoldersFlat, Items
  <2>3. QED BY <1>2, <2>1, <2>2
<1>7. \A x \in kids : Seen(x) \in work'[w].todo /\ Seen(x).id = x
  BY <1>1, SeenFields DEF Becomes
<1>8. \A g \in work'[w].todo : g.id \in kids
  BY <1>1, SeenFields DEF Becomes
<1> HIDE DEF kids
<1>9. \A y \in InScope(w) : Reached(w, y)'
  <2> SUFFICES ASSUME NEW y \in InScope(w)
               PROVE  Reached(w, y)'
    OBVIOUS
  <2>1. InTrash(y)' = InTrash(y) /\ place' = place
    BY <1>1, SameSeen DEF drive
  <2>2. QED BY <1>6, <1>7, <2>1 DEF Reached
<1>10. work'[w].pc = "loop"
  BY <1>1 DEF Becomes
<1>11. QED BY <1>3, <1>5, <1>8, <1>9, <1>10 DEF Covered

\* A step of scan w itself.
LEMMA ReadCovered ==
  ASSUME Shape, Orderly, Shown, NEW w \in {"scan", "project"}, Covered(w), Read(w)
  PROVE  Covered(w)'
<1>0. w \in Readers
  BY DEF Readers
<1>1. CASE ReaderFails(w) \/ Finish(w)
  BY <1>0, <1>1, EndActs, RestingFields DEF Covered
<1>2. \A h \in work[w].todo : ~DropRow(w, h)
  BY <1>0 DEF DropRow, Orderly, HoldsOne
<1>3. QED BY <1>1, <1>2, RootCovered, FileCovered, PullCovered, OpenCovered, DownloadCovered, FoundCovered, ListedCovered, FailsCovered DEF Read

\* A step of another reader or of a route, or no step of the scan.
LEMMA CoveredStep ==
  ASSUME Shape, Fresh, Orderly, Locked, Shown, NEW v \in {"scan", "project"}, Covered(v), [Next]_vars
  PROVE  Covered(v)'
<1>0. v \in Readers
  BY DEF Readers
<1>1. CASE UNCHANGED view \/ Registered
  <2>1. UNCHANGED <<place, trashed, row, work>>
    BY <1>1 DEF view, drive, Registered, tables
  <2>2. \A x : HasFolder(x)' = HasFolder(x) /\ InTrash(x)' = InTrash(x)
    BY <2>1 DEF HasFolder, InTrash
  <2>3. Repaired("assets")' = Repaired("assets") /\ Repaired("scripts")' = Repaired("scripts") /\ Repaired("delta")' = Repaired("delta")
    BY <2>1, <2>2 DEF Repaired, Children
  <2>4. CASE work'[v].pc \in {"loop", "meta", "listing", "download"}
    <3>1. work[v].kind # "idle"
      BY <1>0, <2>1, <2>4, BusyIs
    <3>2. InScope(v)' = InScope(v)
      <4>1. v = "project" \/ work[v].kind \in {"assets", "scripts"}
        BY <3>1 DEF Orderly, HoldsOne, Readers
      <4>2. QED BY <2>1, <2>3, <4>1 DEF InScope
    <3>3. \A x : Reached(v, x)' = Reached(v, x)
      BY <2>1, <2>2 DEF Reached, RowRight
    <3>4. QED BY <2>1, <2>2, <3>2, <3>3 DEF Covered
  <2>5. QED BY <2>4 DEF Covered
<1>2. CASE \E w, S : Gentle(w, S) /\ (w = "scan" => Read(w) \/ work'[w].pc = "asking") /\ (w = "project" => Read(w))
  <2>1. PICK w, S : Gentle(w, S) /\ (w = "scan" => Read(w) \/ work'[w].pc = "asking") /\ (w = "project" => Read(w))
    BY <1>2
  <2>2. CASE w # v
    BY <2>1, <2>2, AsideCovered DEF Gentle
  <2>3. CASE w = v
    BY <2>1, <2>3, ReadCovered DEF Covered
  <2>4. QED BY <2>2, <2>3
<1>3. CASE \E x \in Items, p \in Places, t \in SUBSET Items : Moved(x, p, t)
  BY <1>3, MovedCovered
<1>4. CASE Delta
  <2>1. PICK S \in SUBSET Items : Aside("delta", S) /\ UNCHANGED <<drive, row>>
    BY <1>4, DeltaActs
  <2>2. QED BY <2>1, AsideCovered
<1>5. CASE StartProject \/ \E h \in work["project"].todo : Collect(h)
  <2>1. Aside("project", {}) /\ UNCHANGED <<drive, row>> /\ work'["project"].pc \in {"asking", "collecting"}
    BY <1>5, ProjectStartsActs, CollectActs
  <2>2. QED BY <2>1, AsideCovered DEF Covered
<1>6. CASE Prune
  <2>1. PICK R \in SUBSET Items : work'["project"] = Resting /\ Aside("project", R) /\ row' = Without(R) /\ UNCHANGED drive
    BY <1>6, PruneActs
  <2>2. \A x \in Items : x \notin R => row'[x] = row[x]
    BY <2>1 DEF Without
  <2>3. QED BY <2>1, <2>2, AsideCovered, RestingFields DEF Covered
<1>7. CASE ReaderFails("project") \/ Finish("scan")
  <2>1. PICK w \in {"scan", "project"} : work'[w] = Resting /\ Aside(w, {}) /\ UNCHANGED <<drive, row>>
    BY <1>7, EndActs DEF Readers
  <2>2. QED BY <2>1, AsideCovered, RestingFields DEF Covered
<1>8. CASE Dies
  BY <1>0, <1>8, DiesActs, RestingFields DEF Covered
<1>9. QED BY <1>1, <1>2, <1>3, <1>4, <1>5, <1>6, <1>7, <1>8, GentleSteps

-----------------------------------------------------------------------------
(* What the scan of a project has collected *)

LEMMA SameCollected ==
  ASSUME Collected, UNCHANGED drive, work'["project"].kind = work["project"].kind,
         work'["project"].live = work["project"].live, work["project"].dirty \subseteq work'["project"].dirty,
         \/ work'["project"].pc = work["project"].pc /\ work'["project"].todo = work["project"].todo
         \/ work["project"].pc # "collecting" /\ work'["project"].pc # "collecting"
  PROVE  Collected'
<1>1. place' = place /\ \A x : InTrash(x)' = InTrash(x)
  BY SameSeen DEF drive
<1>2. Repaired("assets")' = Repaired("assets")
  BY <1>1 DEF Repaired, Children
<1>3. QED BY <1>1, <1>2 DEF Collected

LEMMA AsideCollected ==
  ASSUME Collected, UNCHANGED drive, NEW w, w # "project", NEW S, Aside(w, S)
  PROVE  Collected'
  BY SameCollected DEF Aside, Readers

LEMMA MovedCollected ==
  ASSUME Shape, Orderly, NEW x \in Items, NEW p \in Places, NEW t \in SUBSET Items, Moved(x, p, t), Collected
  PROVE  Collected'
<1> SUFFICES ASSUME work'["project"].kind # "idle"
             PROVE  Collected'
  BY DEF Collected
<1>0. /\ Aside("drive", {x})
      /\ \A y \in Items : y # x => place'[y] = place[y]
      /\ \A y \in Items : y # x /\ place[y] # x => (InTrash(y)' <=> InTrash(y))
      /\ place' \in [Items -> Places]
  BY MovedIs, ChangesShape DEF Moved
<1>1. /\ work["project"].kind # "idle" /\ work'["project"].pc = work["project"].pc /\ work'["project"].todo = work["project"].todo
      /\ work'["project"].live = work["project"].live /\ work'["project"].dirty = work["project"].dirty \cup About({x})
  BY <1>0 DEF Aside, Readers
<1>2. \A y \in Items : y = x \/ place[y] = x => y \in work'["project"].dirty
  BY <1>1 DEF About
<1>3. \A y \in Repaired("assets")' : y \in Items /\ (y = x \/ place[y] = x \/ y \in Repaired("assets"))
  <2> SUFFICES ASSUME NEW y \in Repaired("assets")', y # x, place[y] # x
               PROVE  y \in Items /\ y \in Repaired("assets")
    BY DEF Repaired
  <2>1. y \in Items /\ (place'[y] = "assets" \/ place'[y] \in Children("assets")')
    BY DEF Repaired
  <2>2. place'[y] = place[y]
    BY <1>0, <2>1
  <2>3. ASSUME NEW f \in Items, f \in Children("assets")', f # x
        PROVE  f \in Children("assets")
    <3>1. place'[f] = "assets" /\ ~InTrash(f)' /\ "assets" # x
      BY <2>3, DriveAssumption DEF Children, Roots
    <3>2. QED BY <1>0, <2>3, <3>1 DEF Children
  <2>5. place[y] \in Children("assets")' => place[y] \in Items
    BY DEF Children
  <2>6. QED BY <2>1, <2>2, <2>3, <2>5, RepairedIs
<1>4. work["project"].live \subseteq Items
  BY RecordIs DEF Shape, Record, Readers
<1>5. \A y \in work'["project"].live \ work'["project"].dirty :
        ~InTrash(y)' /\ (place'[y] = "assets" \/ (place'[y] \in work'["project"].live /\ place'[place'[y]] = "assets"))
  <2> SUFFICES ASSUME NEW y \in work["project"].live, y \notin work'["project"].dirty
               PROVE  ~InTrash(y)' /\ (place'[y] = "assets" \/ (place'[y] \in work["project"].live /\ place'[place'[y]] = "assets"))
    BY <1>1
  <2>1. y \in Items /\ y # x /\ place[y] # x /\ y \notin work["project"].dirty
    BY <1>1, <1>2, <1>4
  <2>2. ~InTrash(y) /\ (place[y] = "assets" \/ (place[y] \in work["project"].live /\ place[place[y]] = "assets"))
    BY <1>1, <2>1 DEF Collected
  <2>3. place'[y] = place[y] /\ ~InTrash(y)'
    BY <1>0, <2>1, <2>2
  <2>4. place[y] \in work["project"].live => place'[place[y]] = place[place[y]]
    BY <1>0, <1>4, <2>1
  <2>5. QED BY <2>2, <2>3, <2>4
<1>6. \A y \in Repaired("assets")' \ work'["project"].dirty :
        \/ InTrash(y)' \/ y \in work'["project"].live
        \/ work'["project"].pc = "collecting" /\ \E h \in work'["project"].todo : h.id \in {place'[y], "assets"}
  <2> SUFFICES ASSUME NEW y \in Repaired("assets")', y \notin work'["project"].dirty
               PROVE  \/ InTrash(y)' \/ y \in work'["project"].live
                      \/ work'["project"].pc = "collecting" /\ \E h \in work'["project"].todo : h.id \in {place'[y], "assets"}
    OBVIOUS
  <2>1. y \in Repaired("assets") /\ y \in Items /\ y # x /\ place[y] # x /\ y \notin work["project"].dirty
    BY <1>1, <1>2, <1>3
  <2>2. \/ InTrash(y) \/ y \in work["project"].live
        \/ work["project"].pc = "collecting" /\ \E h \in work["project"].todo : h.id \in {place[y], "assets"}
    BY <1>1, <2>1 DEF Collected
  <2>3. QED BY <1>0, <1>1, <2>1, <2>2
<1>7. work'["project"].pc = "collecting" => \A h \in work'["project"].todo : h.id = "assets" \/ h.id \in work'["project"].live \cap Folders
  BY <1>1 DEF Collected
<1>8. QED BY <1>5, <1>6, <1>7 DEF Collected

LEMMA CollectCollected ==
  ASSUME Shape, Orderly, Shown, Collected, NEW h, Collect(h)
  PROVE  Collected'
<1> DEFINE w == work["project"]
<1>1. /\ UNCHANGED drive /\ w.pc = "collecting" /\ h \in w.todo /\ w.kind = "project"
      /\ work'["project"].dirty = w.dirty /\ work'["project"].live = w.live \cup Children(h.id)
      /\ work'["project"].todo = (w.todo \ {h}) \cup {Seen(x) : x \in Children(h.id) \cap Folders}
      /\ work'["project"].pc = (IF work'["project"].todo = {} THEN "asking" ELSE "collecting")
  BY CollectActs
<1>2. place' = place /\ \A x : InTrash(x)' = InTrash(x)
  BY <1>1, SameSeen DEF drive
<1>3. Repaired("assets")' = Repaired("assets")
  BY <1>2 DEF Repaired, Children
<1>4. h.id = "assets" \/ h.id \in w.live \cap Folders
  BY <1>1 DEF Collected
<1>5. w.live \subseteq Items
  BY RecordIs DEF Shape, Record, Readers
<1>6. \A g \in work'["project"].todo : g.id = "assets" \/ g.id \in work'["project"].live \cap Folders
  <2>1. \A g \in w.todo : g.id = "assets" \/ g.id \in w.live \cap Folders
    BY <1>1 DEF Collected
  <2>2. \A g \in {Seen(x) : x \in Children(h.id) \cap Folders} : g.id \in Children(h.id) \cap Folders
    BY SeenFields
  <2>3. QED BY <1>1, <2>1, <2>2
<1>7. ASSUME NEW y \in work'["project"].live, y \notin w.dirty
      PROVE  ~InTrash(y) /\ (place[y] = "assets" \/ (place[y] \in work'["project"].live /\ place[place[y]] = "assets"))
  <2>1. CASE y \in w.live
    BY <1>1, <1>7, <2>1 DEF Collected
  <2>2. CASE y \in Children(h.id)
    <3>1. y \in Items /\ ~InTrash(y) /\ place[y] = h.id
      BY <2>2 DEF Children
    <3>2. CASE h.id \in w.live \cap Folders
      <4>1. h.id \notin w.dirty
        BY <1>7, <3>1 DEF Shown, DirtyClosed
      <4>2. place[h.id] = "assets" \/ place[h.id] \in w.live
        BY <1>1, <3>2, <4>1 DEF Collected
      <4>3. place[h.id] \notin w.live
        BY <1>5, <3>2, PlaceIs DEF Orderly, FoldersFlat
      <4>4. QED BY <1>1, <3>1, <3>2, <4>2, <4>3
    <3>3. QED BY <1>4, <3>1, <3>2
  <2>3. QED BY <1>1, <1>7, <2>1, <2>2
<1>8. ASSUME NEW y \in Repaired("assets"), y \notin w.dirty
      PROVE  \/ InTrash(y) \/ y \in work'["project"].live
             \/ work'["project"].pc = "collecting" /\ \E g \in work'["project"].todo : g.id \in {place[y], "assets"}
  <2>1. y \in Items /\ (place[y] = "assets" \/ place[y] \in Children("assets"))
    BY RepairedIs
  <2>2. \/ InTrash(y) \/ y \in w.live \/ \E g \in w.todo : g.id \in {place[y], "assets"}
    BY <1>1, <1>8 DEF Collected
  <2>3. (\E g \in work'["project"].todo : g.id \in {place[y], "assets"}) => work'["project"].pc = "collecting"
    BY <1>1
  <2>4. CASE h.id = place[y]
    BY <1>1, <2>1, <2>4 DEF Children
  <2>5. CASE h.id = "assets" /\ place[y] \in Children("assets")
    <3>1. place[y] \in Folders
      BY <2>1, <2>5, PlaceIs DEF Children
    <3>2. Seen(place[y]) \in work'["project"].todo /\ Seen(place[y]).id = place[y]
      BY <1>1, <2>5, <3>1, SeenFields
    <3>3. QED BY <2>3, <3>2
  <2>6. CASE \E g \in w.todo : g.id \in {place[y], "assets"} /\ g # h
    BY <1>1, <2>3, <2>6
  <2>7. QED BY <1>1, <2>1, <2>2, <2>4, <2>5, <2>6
<1>9. QED BY <1>1, <1>2, <1>3, <1>6, <1>7, <1>8 DEF Collected

LEMMA CollectedStep ==
  ASSUME Shape, Fresh, Orderly, Locked, Shown, Collected, [Next]_vars
  PROVE  Collected'
<1>0. "project" \in Readers
  BY DEF Readers
<1>1. CASE UNCHANGED view \/ Registered
  BY <1>1, SameCollected DEF view, Registered
<1>2. CASE \E w, S : Gentle(w, S) /\ (w = "scan" => Read(w) \/ work'[w].pc = "asking") /\ (w = "project" => Read(w))
  <2>1. PICK w, S : Gentle(w, S) /\ (w = "scan" => Read(w) \/ work'[w].pc = "asking") /\ (w = "project" => Read(w))
    BY <1>2
  <2>2. CASE w # "project"
    BY <2>1, <2>2, AsideCollected DEF Gentle
  <2>3. CASE w = "project" /\ Read("project") /\ work["project"].pc # "collecting"
    <3>1. work'["project"].pc # "collecting"
      BY <1>0, <2>3, ReadActs
    <3>2. QED BY <1>0, <2>1, <2>3, <3>1, SameCollected DEF Gentle
  <2>4. CASE w = "project" /\ Read("project") /\ work["project"].pc = "collecting"
    <3>1. ReaderFails("project")
      BY <2>4 DEF Read, RootListed, Finish, DropRow, SkipFile, UpdateRow, IndexFile, PullScript, OpenFolder,
                  Known, New, Takes, Downloaded, FolderFound, FolderListed, ItemFails
    <3>2. QED BY <1>0, <3>1, EndActs, RestingFields DEF Collected
  <2>5. QED BY <2>1, <2>2, <2>3, <2>4
<1>3. CASE \E x \in Items, p \in Places, t \in SUBSET Items : Moved(x, p, t)
  BY <1>3, MovedCollected
<1>4. CASE Delta
  <2>1. PICK S \in SUBSET Items : Aside("delta", S) /\ UNCHANGED <<drive, row>>
    BY <1>4, DeltaActs
  <2>2. QED BY <2>1, AsideCollected
<1>5. CASE StartProject
  <2>1. work'["project"].todo = {[id |-> "assets", parent |-> "none", gone |-> FALSE]} /\ work'["project"].live = {}
        /\ work'["project"].pc = "collecting"
    BY <1>5, ProjectStartsActs
  <2>2. QED BY <2>1 DEF Collected
<1>6. CASE \E h \in work["project"].todo : Collect(h)
  BY <1>6, CollectCollected
<1>7. CASE Prune
  BY <1>7, PruneActs, RestingFields DEF Collected
<1>8. CASE ReaderFails("project")
  BY <1>0, <1>8, EndActs, RestingFields DEF Collected
<1>9. CASE Finish("scan")
  BY <1>9, EndActs, AsideCollected DEF Readers
<1>10. CASE Dies
  BY <1>0, <1>10, DiesActs, RestingFields DEF Collected
<1>11. QED BY <1>1, <1>2, <1>3, <1>4, <1>5, <1>6, <1>7, <1>8, <1>9, <1>10, GentleSteps

-----------------------------------------------------------------------------
(* What the feed, a delta and the scans owe to the table *)

\* Nothing is moved, and what is doubtful remains so.
Kept ==
  /\ UNCHANGED drive /\ Due' = Due
  /\ \A x \in Items : (MayLack(x) => MayLack(x)') /\ (MayKeep(x) => MayKeep(x)')

SameDelta ==
  /\ work'["delta"].todo = work["delta"].todo /\ work'["delta"].at = work["delta"].at
  /\ work'["delta"].pc = work["delta"].pc

\* An item whose row stays, and which the delta holds as before.
LEMMA OwedFrame ==
  ASSUME Shape, Kept, NEW x \in Items, TreeAt(x), TrashAt(x), PlaceAt(x), row'[x] = row[x], NEW p, p = place[x],
         p \in Folders /\ row[p].kind # "none" /\ row[x].parent = p => row'[p].kind # "none",
         \A g \in work["delta"].todo : g.gone /\ g.id \in {x, p} => g \in work'["delta"].todo,
         Coming(x) /\ InTree(x) => Coming(x)' \/ MayLack(x)',
         \A g \in Holds("delta") : g.id = x => g \in Holds("delta")' \/ MayKeep(x)'
  PROVE  TreeAt(x)' /\ TrashAt(x)' /\ PlaceAt(x)'
<1>1. UNCHANGED <<place, trashed>> /\ Due' = Due /\ (MayLack(x) => MayLack(x)') /\ (MayKeep(x) => MayKeep(x)')
  BY DEF Kept, drive
<1>2. InTree(x)' = InTree(x)
  BY <1>1 DEF InTree, InTrash
<1>3. Going(x) => Going(x)'
  BY DEF Going
<1>4. Going(p) => Going(p)'
  BY DEF Going
<1>5. TreeAt(x)'
  BY <1>1, <1>2 DEF TreeAt
<1>6. PlaceAt(x)'
  <2> SUFFICES ASSUME row[x].kind # "none", p \in Folders
               PROVE  MayKeep(x)' \/ (\E h \in Holds("delta")' : h.id = x) \/ (row'[x].parent = p /\ row'[p].kind # "none")
    BY <1>1 DEF PlaceAt
  <2>1. MayKeep(x) \/ (\E h \in Holds("delta") : h.id = x) \/ (row[x].parent = p /\ row[p].kind # "none")
    BY DEF PlaceAt
  <2>2. QED BY <1>1, <2>1
<1>7. TrashAt(x)'
  <2> SUFFICES ASSUME row[x].kind # "none"
               PROVE  /\ x \in trashed => MayKeep(x)' \/ Going(x)'
                      /\ p \in trashed => \/ MayKeep(x)' \/ p \in Due \/ Going(x)'
                                          \/ Going(p)' /\ row'[p].kind # "none" /\ row'[x].parent = p
    BY <1>1 DEF TrashAt
  <2>1. /\ x \in trashed => MayKeep(x) \/ Going(x)
        /\ p \in trashed => \/ MayKeep(x) \/ p \in Due \/ Going(x)
                            \/ Going(p) /\ row[p].kind # "none" /\ row[x].parent = p
    BY DEF TrashAt
  <2>2. p \in trashed => p \in Folders
    BY PlaceIs DEF Shape, TypeOK
  <2>3. QED BY <1>1, <1>3, <1>4, <2>1, <2>2
<1>8. QED BY <1>5, <1>6, <1>7

LEMMA OwedAway ==
  ASSUME Shape, Kept, SameDelta, NEW x \in Items, TreeAt(x), TrashAt(x), PlaceAt(x), row'[x] = row[x],
         place[x] \in Folders /\ row[place[x]].kind # "none" /\ row[x].parent = place[x] => row'[place[x]].kind # "none"
  PROVE  TreeAt(x)' /\ TrashAt(x)' /\ PlaceAt(x)'
<1>1. Coming(x) => Coming(x)'
  BY DEF Coming, SameDelta, Kept, drive
<1>2. Holds("delta")' = Holds("delta")
  BY DEF Holds, SameDelta
<1>3. work'["delta"].todo = work["delta"].todo
  BY DEF SameDelta
<1>4. QED BY <1>1, <1>2, <1>3, OwedFrame

\* Rows stay and the delta is as it was.
LEMMA OwedSame ==
  ASSUME Shape, Kept, SameDelta, UNCHANGED row, Owed
  PROVE  Owed'
  BY OwedAway DEF Owed

LEMMA GentleKept ==
  ASSUME Shape, NEW w, NEW S, Gentle(w, S)
  PROVE  Kept
  BY GentleKeeps DEF Kept, Gentle

LEMMA ReadKept ==
  ASSUME Shape, Orderly, NEW w \in Readers, Read(w), ~(w = "project" /\ ReaderFails(w)), ~(w = "scan" /\ Finish(w))
  PROVE  Kept
  BY ReadGentle, GentleKept

LEMMA AsideDelta ==
  ASSUME NEW w, NEW S, Aside(w, S), w # "delta"
  PROVE  SameDelta
  BY DEF Aside, SameDelta, Readers

\* In the tree, and so is its folder.
LEMMA TreeIs ==
  ASSUME Shape, Orderly, NEW x \in Items, InTree(x)
  PROVE  /\ ~InTrash(x)
         /\ \/ place[x] = "assets" \/ (place[x] = "scripts" /\ x \in Files)
            \/ /\ place[x] \in Folders /\ x \in Files /\ ~InTrash(place[x]) /\ InTree(place[x])
               /\ place[place[x]] = "assets" /\ x \in Children(place[x])
<1>1. ~InTrash(x) /\ (place[x] \in {"assets", "scripts"} \/ (place[x] \in Folders /\ place[place[x]] = "assets"))
  BY DEF InTree
<1>2. "assets" \notin trashed
  BY DriveAssumption DEF Shape, TypeOK, Roots
<1>3. x \in Folders => place[x] \notin Folders \cup {"scripts"}
  BY DEF Orderly, FoldersFlat
<1>4. CASE place[x] \in Folders /\ place[place[x]] = "assets"
  <2>1. ~InTrash(place[x]) /\ x \in Files
    BY <1>1, <1>2, <1>3, <1>4 DEF InTrash, Items
  <2>2. InTree(place[x])
    BY <1>4, <2>1 DEF InTree
  <2>3. QED BY <1>1, <1>4, <2>1, <2>2 DEF Children
<1>5. QED BY <1>1, <1>3, <1>4 DEF Items

\* What a reader was shown of an item that is there.
LEMMA HeldParent ==
  ASSUME Shape, Orderly, Shown, NEW w \in Readers, NEW h \in Holds(w), h.id \in Items
  PROVE  h.parent = place[h.id] \/ (MayLack(h.id) /\ MayKeep(h.id))
<1>1. CASE w \in {"delta", "scan"}
  BY <1>1 DEF Shown, ParentsShown
<1>2. CASE w = "project"
  BY <1>2, SeenFields DEF Shown, OwnShown, MayLack, MayKeep
<1>3. QED BY <1>1, <1>2 DEF Readers

LEMMA HeldThere ==
  ASSUME Shape, Orderly, Shown, NEW w \in Readers, NEW h \in Holds(w), h.id \in Items, ~h.gone
  PROVE  /\ h.id \in trashed => MayKeep(h.id)
         /\ InTrash(h.id) => MayKeep(h.id) \/ place[h.id] \in Due
<1>1. CASE w \in {"delta", "scan"}
  BY <1>1 DEF Shown, ThereShown
<1>2. CASE w = "project"
  BY <1>2, SeenFields DEF Shown, OwnShown, MayKeep, InTrash
<1>3. QED BY <1>1, <1>2 DEF Readers

\* A reader deals with h: what does not hang on h is owed as it was.
LEMMA ItemOwed ==
  ASSUME Shape, Orderly, Kept, Owed, NEW w \in Readers, NEW h, h.id \in Items, ~h.gone,
         \A x \in Items : x # h.id => row'[x] = row[x],
         row[h.id].kind # "none" => row'[h.id].kind # "none",
         w # "delta" => SameDelta,
         w = "delta" => work["delta"].at \subseteq {h} /\ \A g \in work["delta"].todo : g = h \/ g \in work'["delta"].todo,
         \A x \in Items : place[x] = h.id /\ InTree(x) /\ w = "delta" => Coming(x)' \/ MayLack(x)',
         TreeAt(h.id)' /\ TrashAt(h.id)' /\ PlaceAt(h.id)'
  PROVE  Owed'
<1> SUFFICES ASSUME NEW x \in Items, x # h.id
             PROVE  TreeAt(x)' /\ TrashAt(x)' /\ PlaceAt(x)'
  BY DEF Owed
<1>1. TreeAt(x) /\ TrashAt(x) /\ PlaceAt(x) /\ row'[x] = row[x]
  BY DEF Owed
<1>2. place[x] \in Folders /\ row[place[x]].kind # "none" => row'[place[x]].kind # "none"
  BY DEF Items
<1>3. CASE w # "delta"
  BY <1>1, <1>2, <1>3, OwedAway
<1>4. CASE w = "delta"
  <2>1. \A g \in work["delta"].todo : g.gone => g \in work'["delta"].todo
    BY <1>4
  <2>2. Coming(x) /\ InTree(x) => Coming(x)' \/ MayLack(x)'
    <3>1. CASE place[x] = h.id
      BY <1>4, <3>1
    <3>2. CASE place[x] # h.id
      BY <1>4, <3>2 DEF Coming, Kept, drive
    <3>3. QED BY <3>1, <3>2
  <2>3. \A g \in Holds("delta") : g.id = x => g \in Holds("delta")'
    BY <1>4 DEF Holds
  <2>4. QED BY <1>1, <1>2, <2>1, <2>2, <2>3, OwedFrame
<1>5. QED BY <1>3, <1>4

\* The item itself, where its row stays.
LEMMA SelfOwed ==
  ASSUME Shape, Orderly, Kept, Owed, NEW w \in Readers, NEW h, h.id \in Items, ~h.gone, UNCHANGED row,
         w # "delta" => SameDelta,
         w = "delta" => \A g \in work["delta"].todo : g = h \/ g \in work'["delta"].todo,
         w = "delta" => (InTree(h.id) => Coming(h.id)' \/ MayLack(h.id)'),
         w = "delta" => MayKeep(h.id)' \/ h \in Holds("delta")' \/ place[h.id] \notin Folders
  PROVE  TreeAt(h.id)' /\ TrashAt(h.id)' /\ PlaceAt(h.id)'
<1> DEFINE x == h.id
<1>1. TreeAt(x) /\ TrashAt(x) /\ PlaceAt(x) /\ row'[x] = row[x]
  BY DEF Owed
<1>3. CASE w # "delta"
  BY <1>1, <1>3, OwedAway
<1>4. CASE w = "delta"
  <2>1. \A g \in work["delta"].todo : g.gone => g \in work'["delta"].todo
    BY <1>4
  <2>2. Kept /\ UNCHANGED <<place, trashed, row>>
    BY DEF Kept, drive
  <2>3. TreeAt(x)'
    BY <1>4, <2>2 DEF TreeAt, InTree, InTrash
  <2>4. PlaceAt(x)'
    BY <1>4, <2>2 DEF PlaceAt
  <2>5. TrashAt(x)'
    <3>1. Going(x) => Going(x)'
      BY <2>1 DEF Going
    <3>2. PICK p : p = place[x]
      OBVIOUS
    <3>3. Going(p) => Going(p)'
      BY <2>1 DEF Going
    <3>4. MayKeep(x) => MayKeep(x)'
      BY DEF Kept
    <3>5. Due' = Due
      BY DEF Kept
    <3>6. QED BY <1>1, <2>2, <3>1, <3>2, <3>3, <3>4, <3>5 DEF TrashAt
  <2>6. QED BY <2>3, <2>4, <2>5
<1>5. QED BY <1>3, <1>4

\* A reader takes an item that is not gone.
LEMMA ItemTaken ==
  ASSUME Shape, Orderly, NEW w \in Readers, NEW h \in work[w].todo,
         SkipFile(w, h) \/ UpdateRow(w, h) \/ IndexFile(w, h) \/ PullScript(w, h) \/ OpenFolder(w, h)
  PROVE  /\ Kept /\ h \in Holds(w) /\ h.id \in Items /\ ~h.gone /\ work[w].at = {} /\ work'[w].todo = work[w].todo \ {h}
         /\ w # "delta" => SameDelta
         /\ w = "delta" => work["delta"].at \subseteq {h} /\ \A g \in work["delta"].todo : g = h \/ g \in work'["delta"].todo
<1>1. Takes(w, h) /\ ~h.gone
  BY DEF SkipFile, UpdateRow, IndexFile, PullScript, OpenFolder, Known, New
<1>2. work[w].at = {} /\ h \in Holds(w) /\ h.id \in Items
  BY <1>1, TakesIs DEF Takes, Orderly, HoldsOne, Holds
<1>3. Kept
  <2>1. Read(w)
    BY DEF Read
  <2>2. ~(w = "project" /\ ReaderFails(w)) /\ ~(w = "scan" /\ Finish(w))
    BY <1>1 DEF Takes, ReaderFails, Finish
  <2>3. QED BY <2>1, <2>2, ReadKept
<1>4. Aside(w, {h.id}) /\ work'[w].todo = work[w].todo \ {h}
  <2>1. CASE SkipFile(w, h) \/ UpdateRow(w, h) \/ IndexFile(w, h)
    BY <1>1, <2>1, RestActs DEF DropRow, Becomes
  <2>2. CASE PullScript(w, h) \/ OpenFolder(w, h)
    BY <2>2, AwaitsActs DEF Becomes
  <2>3. QED BY <2>1, <2>2
<1>5. w # "delta" => SameDelta
  BY <1>4, AsideDelta
<1>6. QED BY <1>1, <1>2, <1>3, <1>4, <1>5

LEMMA SkipOwed ==
  ASSUME Shape, Orderly, Shown, Owed, NEW w \in Readers, NEW h \in work[w].todo, SkipFile(w, h)
  PROVE  Owed'
<1>1. /\ Kept /\ h.id \in Items /\ ~h.gone /\ UNCHANGED row
      /\ w # "delta" => SameDelta
      /\ w = "delta" => work["delta"].at \subseteq {h} /\ \A g \in work["delta"].todo : g = h \/ g \in work'["delta"].todo
  BY ItemTaken DEF SkipFile, tables
<1>2. \A x \in Items : x = h.id \/ place[x] = h.id => x \in About({h.id})
  BY DEF About
<1>3. w = "delta" => \A x \in Items : x = h.id \/ place[x] = h.id => MayLack(x)' /\ MayKeep(x)'
  BY <1>2 DEF SkipFile, Missed, MayLack, MayKeep
<1>4. TreeAt(h.id)' /\ TrashAt(h.id)' /\ PlaceAt(h.id)'
  BY <1>1, <1>3, SelfOwed
<1>5. QED BY <1>1, <1>3, <1>4, ItemOwed

\* A row that is written anew, of a file in a folder with a row.
LEMMA WrittenOwed ==
  ASSUME Shape, Orderly, Shown, Owed, Kept, NEW w \in Readers, NEW h \in Holds(w), h.id \in Files, ~h.gone,
         row'[h.id].kind # "none", row'[h.id].parent = h.parent,
         h.parent \in Folders => row'[h.parent].kind # "none"
  PROVE  TreeAt(h.id)' /\ TrashAt(h.id)' /\ PlaceAt(h.id)'
<1> DEFINE x == h.id
<1>0. x \in Items /\ UNCHANGED <<place, trashed>> /\ Due' = Due /\ (MayLack(x) => MayLack(x)') /\ (MayKeep(x) => MayKeep(x)')
  BY DEF Items, Kept, drive
<1>1. h.parent = place[x] \/ (MayLack(x)' /\ MayKeep(x)')
  BY <1>0, HeldParent
<1>2. TreeAt(x)'
  BY <1>0, <1>1 DEF TreeAt
<1>3. PlaceAt(x)'
  BY <1>0, <1>1 DEF PlaceAt
<1>4. TrashAt(x)'
  <2>1. /\ x \in trashed => MayKeep(x)'
        /\ place[x] \in trashed => MayKeep(x)' \/ place[x] \in Due'
    BY <1>0, HeldThere DEF InTrash
  <2>2. QED BY <1>0, <2>1 DEF TrashAt
<1>5. QED BY <1>2, <1>3, <1>4

LEMMA FileOwed ==
  ASSUME Shape, Orderly, Shown, Owed, NEW w \in Readers, NEW h \in work[w].todo, UpdateRow(w, h) \/ IndexFile(w, h)
  PROVE  Owed'
<1>0. row \in [Items -> RowType]
  BY DEF Shape, TypeOK, RowType
<1>1. /\ Kept /\ h \in Holds(w) /\ h.id \in Items /\ ~h.gone
      /\ w # "delta" => SameDelta
      /\ w = "delta" => work["delta"].at \subseteq {h} /\ \A g \in work["delta"].todo : g = h \/ g \in work'["delta"].todo
  BY ItemTaken
<1>2. h.id \in Files /\ Context(h.parent) # "none"
  BY DEF UpdateRow, IndexFile
<1>3. \A x \in Items : x # h.id => row'[x] = row[x]
  BY <1>0 DEF UpdateRow, IndexFile
<1>4. row'[h.id].kind # "none" /\ row'[h.id].parent = h.parent
  <2>1. CASE UpdateRow(w, h)
    BY <1>0, <1>1, <2>1 DEF UpdateRow, Known, RowType
  <2>2. CASE IndexFile(w, h)
    <3>1. row'[h.id] = Indexed(h.parent)
      BY <1>0, <1>1, <2>2 DEF IndexFile
    <3>2. QED BY <3>1 DEF Indexed, NoRow
  <2>3. QED BY <2>1, <2>2
<1>5. h.parent \in Folders => row'[h.parent].kind # "none"
  BY <1>2, <1>3, DriveAssumption DEF Context, Items, Roots
<1>6. TreeAt(h.id)' /\ TrashAt(h.id)' /\ PlaceAt(h.id)'
  BY <1>1, <1>2, <1>4, <1>5, WrittenOwed
<1>7. \A x \in Items : place[x] # h.id
  BY <1>1, <1>2, PlaceIs, DriveAssumption
<1>8. QED BY <1>1, <1>3, <1>4, <1>6, <1>7, ItemOwed

LEMMA PullOwed ==
  ASSUME Shape, Orderly, Shown, Owed, NEW w \in Readers, NEW h \in work[w].todo, PullScript(w, h)
  PROVE  Owed'
<1>1. /\ Kept /\ h \in Holds(w) /\ h.id \in Items /\ ~h.gone
      /\ w # "delta" => SameDelta
      /\ w = "delta" => work["delta"].at \subseteq {h} /\ \A g \in work["delta"].todo : g = h \/ g \in work'["delta"].todo
  BY ItemTaken
<1>2. Becomes(w, "download", work[w].todo \ {h}, {h}) /\ UNCHANGED row /\ h.id \in Files
  BY AwaitsActs DEF PullScript
<1>3. w = "delta" => Coming(h.id)' /\ h \in Holds("delta")'
  BY <1>2 DEF Coming, Holds, Becomes
<1>4. \A x \in Items : place[x] # h.id
  BY <1>1, <1>2, PlaceIs, DriveAssumption
<1>5. TreeAt(h.id)' /\ TrashAt(h.id)' /\ PlaceAt(h.id)'
  BY <1>1, <1>2, <1>3, SelfOwed
<1>6. QED BY <1>1, <1>2, <1>4, <1>5, ItemOwed

LEMMA OpenOwed ==
  ASSUME Shape, Orderly, Shown, Owed, NEW w \in Readers, NEW h \in work[w].todo, OpenFolder(w, h)
  PROVE  Owed'
<1>1. /\ Kept /\ h \in Holds(w) /\ h.id \in Items /\ ~h.gone
      /\ w # "delta" => SameDelta
      /\ w = "delta" => work["delta"].at \subseteq {h} /\ \A g \in work["delta"].todo : g = h \/ g \in work'["delta"].todo
  BY ItemTaken
<1>2. PICK pc : /\ Becomes(w, pc, work[w].todo \ {h}, {h}) /\ pc = (IF row[h.id].kind # "none" THEN "listing" ELSE "meta")
                /\ UNCHANGED row /\ h.id \in Folders
  BY AwaitsActs DEF OpenFolder
<1>3. place[h.id] \notin Folders /\ row[h.id].parent \notin Folders /\ UNCHANGED <<place, trashed>>
  BY <1>1, <1>2 DEF Orderly, FoldersFlat, Kept, drive
<1>4. w = "delta" => \A x \in Items : place[x] = h.id => Coming(x)'
  BY <1>2, <1>3 DEF Coming, Becomes
<1>5. h \in Holds("delta")' \/ w # "delta"
  BY <1>2 DEF Holds, Becomes
<1>6. TreeAt(h.id)' /\ TrashAt(h.id)' /\ PlaceAt(h.id)'
  <2>1. CASE row[h.id].kind = "none"
    <3>1. w = "delta" => Coming(h.id)'
      BY <1>2, <2>1 DEF Coming, Becomes
    <3>2. QED BY <1>1, <1>2, <1>5, <3>1, SelfOwed
  <2>2. CASE row[h.id].kind # "none"
    <3>1. TreeAt(h.id)'
      BY <1>2, <1>3, <2>2 DEF TreeAt
    <3>2. PlaceAt(h.id)'
      BY <1>3 DEF PlaceAt
    <3>3. TrashAt(h.id)'
      <4>1. TrashAt(h.id) /\ (MayKeep(h.id) => MayKeep(h.id)') /\ Due' = Due
        BY <1>1 DEF Owed, Kept
      <4>2. place[h.id] \notin trashed
        BY <1>1, <1>3, PlaceIs DEF Shape, TypeOK
      <4>3. Going(h.id) => Going(h.id)'
        BY <1>1 DEF Going, SameDelta
      <4>4. QED BY <1>2, <1>3, <4>1, <4>2, <4>3 DEF TrashAt
    <3>4. QED BY <3>1, <3>2, <3>3
  <2>3. QED BY <2>1, <2>2
<1>7. QED BY <1>1, <1>2, <1>4, <1>6, ItemOwed

\* A reader goes on with the item it has at hand.
LEMMA ItemHeld ==
  ASSUME Shape, Orderly, NEW w \in Readers, NEW h \in work[w].at, Read(w), Aside(w, {h.id}),
         work[w].pc \in {"meta", "listing", "download"}, work[w].todo \subseteq work'[w].todo \cup {h}
  PROVE  /\ Kept /\ h \in Holds(w) /\ h.id \in Items /\ ~h.gone /\ work[w].at = {h} /\ work[w].todo \subseteq work'[w].todo
         /\ work[w].pc \in {"meta", "listing"} => h.id \in Folders
         /\ w # "delta" => SameDelta
         /\ w = "delta" => work["delta"].at \subseteq {h} /\ \A g \in work["delta"].todo : g = h \/ g \in work'["delta"].todo
<1>1. work[w].at = {h} /\ h \in Holds(w) /\ h.id \in Items /\ ~h.gone /\ work[w].todo \cap work[w].at = {}
      /\ (work[w].pc \in {"meta", "listing"} => h.id \in Folders)
  BY AtIs DEF Orderly, HoldsOne, Holds
<1>2. ~(w = "project" /\ ReaderFails(w)) /\ ~(w = "scan" /\ Finish(w))
  BY DEF ReaderFails, Finish
<1>3. Kept
  BY <1>2, ReadKept
<1>4. w # "delta" => SameDelta
  BY AsideDelta
<1>5. QED BY <1>1, <1>3, <1>4

LEMMA DownloadOwed ==
  ASSUME Shape, Orderly, Shown, Owed, NEW w \in Readers, NEW s \in Scripts, Downloaded(w, s)
  PROVE  Owed'
<1>0. row \in [Items -> RowType]
  BY DEF Shape, TypeOK, RowType
<1>1. PICK h \in work[w].at :
           /\ work[w].pc = "download" /\ Becomes(w, "loop", work[w].todo \ {h}, {}) /\ work'[w].flawed = work[w].flawed
           /\ Aside(w, {h.id}) /\ UNCHANGED <<drive, channel, renew, lost, stale, handed>>
           /\ row' = [row EXCEPT ![h.id] = [kind |-> "script", parent |-> h.parent, script |-> s]]
  BY DownloadedActs
<1>2. /\ Kept /\ h \in Holds(w) /\ h.id \in Items /\ ~h.gone
      /\ w # "delta" => SameDelta
      /\ w = "delta" => work["delta"].at \subseteq {h} /\ \A g \in work["delta"].todo : g = h \/ g \in work'["delta"].todo
  BY <1>1, ItemHeld DEF Read, Becomes
<1>3. h.id \in Files /\ h.parent = "scripts"
  BY <1>1, AtIs DEF Orderly, HoldsOne
<1>4. \A x \in Items : x # h.id => row'[x] = row[x]
  BY <1>0, <1>1
<1>5. row'[h.id].kind # "none" /\ row'[h.id].parent = h.parent /\ h.parent \notin Folders
  BY <1>0, <1>1, <1>2, <1>3, DriveAssumption DEF Roots, Items
<1>6. TreeAt(h.id)' /\ TrashAt(h.id)' /\ PlaceAt(h.id)'
  BY <1>2, <1>3, <1>5, WrittenOwed
<1>7. \A x \in Items : place[x] # h.id
  BY <1>2, <1>3, PlaceIs, DriveAssumption
<1>8. QED BY <1>2, <1>4, <1>5, <1>6, <1>7, ItemOwed

LEMMA FoundOwed ==
  ASSUME Shape, Orderly, Shown, Owed, NEW w \in Readers, FolderFound(w)
  PROVE  Owed'
<1>0. row \in [Items -> RowType]
  BY DEF Shape, TypeOK, RowType
<1>1. PICK h \in work[w].at :
           /\ work[w].pc = "meta" /\ work'[w].flawed = work[w].flawed
           /\ Aside(w, {h.id}) /\ UNCHANGED <<drive, channel, renew, lost, stale, handed>>
           /\ \/ /\ InTrash(h.id) \/ Context(place[h.id]) # "assets"
                 /\ Becomes(w, "loop", work[w].todo \ {h}, {}) /\ row' = row
              \/ /\ ~InTrash(h.id) /\ Context(place[h.id]) = "assets"
                 /\ Becomes(w, "listing", work[w].todo, work[w].at)
                 /\ row' = [row EXCEPT ![h.id] = Indexed(place[h.id])]
  BY FoundActs
<1>2. /\ Kept /\ h \in Holds(w) /\ h.id \in Items /\ ~h.gone /\ work[w].at = {h} /\ h.id \in Folders
      /\ w # "delta" => SameDelta
      /\ w = "delta" => work["delta"].at \subseteq {h} /\ \A g \in work["delta"].todo : g = h \/ g \in work'["delta"].todo
  BY <1>1, ItemHeld DEF Read, Becomes
<1>3. place[h.id] \notin Folders \cup {"scripts"} /\ UNCHANGED <<place, trashed>>
  BY <1>2 DEF Orderly, FoldersFlat, Kept, drive
<1>4. CASE row' = row /\ (InTrash(h.id) \/ Context(place[h.id]) # "assets") /\ Becomes(w, "loop", work[w].todo \ {h}, {})
  <2>1. ~InTree(h.id)
    BY <1>3, <1>4 DEF InTree, Context
  <2>2. \A x \in Items : place[x] = h.id => ~InTree(x)
    BY <1>2, <2>1, TreeIs, DriveAssumption DEF Roots
  <2>3. TreeAt(h.id)' /\ TrashAt(h.id)' /\ PlaceAt(h.id)'
    BY <1>2, <1>3, <1>4, <2>1, SelfOwed
  <2>4. QED BY <1>2, <1>4, <2>2, <2>3, ItemOwed
<1>5. CASE /\ ~InTrash(h.id) /\ Becomes(w, "listing", work[w].todo, work[w].at)
           /\ row' = [row EXCEPT ![h.id] = Indexed(place[h.id])]
  <2>1. row'[h.id].kind # "none" /\ row'[h.id].parent = place[h.id] /\ \A x \in Items : x # h.id => row'[x] = row[x]
    BY <1>0, <1>2, <1>5 DEF Indexed, NoRow
  <2>2. w = "delta" => \A x \in Items : place[x] = h.id => Coming(x)'
    BY <1>2, <1>3, <1>5 DEF Coming, Becomes
  <2>3. TreeAt(h.id)' /\ TrashAt(h.id)' /\ PlaceAt(h.id)'
    BY <1>3, <1>5, <2>1 DEF TreeAt, TrashAt, PlaceAt, InTrash
  <2>4. QED BY <1>2, <2>1, <2>2, <2>3, ItemOwed
<1>6. QED BY <1>1, <1>4, <1>5

LEMMA ListedOwed ==
  ASSUME Shape, Orderly, Shown, Owed, NEW w \in Readers, FolderListed(w)
  PROVE  Owed'
<1>1. PICK h \in work[w].at :
           /\ work[w].pc = "listing" /\ work'[w].flawed = work[w].flawed
           /\ Aside(w, {h.id}) /\ UNCHANGED <<drive, row, channel, renew, lost, stale, handed>>
           /\ Becomes(w, "loop", (work[w].todo \ {h}) \cup {Seen(x) : x \in Children(h.id) \cap Files}, {})
  BY ListedActs
<1>2. /\ Kept /\ h \in Holds(w) /\ h.id \in Items /\ ~h.gone /\ work[w].at = {h} /\ h.id \in Folders
      /\ work[w].todo \subseteq work'[w].todo
      /\ w # "delta" => SameDelta
      /\ w = "delta" => work["delta"].at \subseteq {h} /\ \A g \in work["delta"].todo : g = h \/ g \in work'["delta"].todo
  BY <1>1, ItemHeld DEF Read, Becomes
<1>3. place[h.id] \notin Folders \cup {"scripts"} /\ UNCHANGED <<place, trashed>> /\ "assets" \notin Items
  BY <1>2, DriveAssumption DEF Orderly, FoldersFlat, Kept, drive, Roots
<1>4. w = "delta" => \A x \in Items : place[x] = h.id /\ InTree(x) => Coming(x)'
  <2> SUFFICES ASSUME w = "delta", NEW x \in Items, place[x] = h.id, InTree(x)
               PROVE  Coming(x)'
    OBVIOUS
  <2>1. x \in Children(h.id) \cap Files
    BY <1>2, <1>3, TreeIs, DriveAssumption DEF Roots
  <2>2. Seen(x) \in work'["delta"].todo /\ Seen(x).id = x /\ ~Seen(x).gone
    BY <1>1, <2>1, ChildSeen DEF Becomes
  <2>3. QED BY <2>2 DEF Coming
<1>5. w = "delta" /\ Coming(h.id) => Coming(h.id)'
  BY <1>1, <1>2, <1>3 DEF Coming
<1>6. TreeAt(h.id)' /\ TrashAt(h.id)' /\ PlaceAt(h.id)'
  <2>1. CASE w # "delta"
    BY <1>1, <1>2, <2>1, OwedAway DEF Owed
  <2>2. CASE w = "delta"
    <3>1. TreeAt(h.id) /\ TrashAt(h.id) /\ PlaceAt(h.id) /\ row'[h.id] = row[h.id]
      BY <1>1, <1>2 DEF Owed
    <3>2. \A g \in work["delta"].todo : g \in work'["delta"].todo
      BY <1>2, <2>2
    <3>3. TreeAt(h.id)'
      BY <1>2, <1>3, <1>5, <2>2, <3>1 DEF TreeAt, Kept, InTree, InTrash
    <3>4. PlaceAt(h.id)'
      BY <1>3 DEF PlaceAt
    <3>5. Going(h.id) => Going(h.id)'
      BY <3>2 DEF Going
    <3>6. place[h.id] \notin trashed
      BY <1>2, <1>3, PlaceIs DEF Shape, TypeOK
    <3>7. TrashAt(h.id)'
      BY <1>2, <1>3, <3>1, <3>5, <3>6 DEF TrashAt, Kept
    <3>8. QED BY <3>3, <3>4, <3>7
  <2>3. QED BY <2>1, <2>2
<1>7. QED BY <1>1, <1>2, <1>4, <1>6, ItemOwed

LEMMA FailsOwed ==
  ASSUME Shape, Orderly, Shown, Owed, NEW w \in Readers, ItemFails(w)
  PROVE  Owed'
<1>1. PICK h \in work[w].at :
           /\ work[w].pc \in {"meta", "listing", "download"} /\ work'[w].flawed = TRUE
           /\ Becomes(w, "loop", work[w].todo \ {h}, {})
           /\ Aside(w, {h.id}) /\ UNCHANGED <<drive, row, channel, renew, handed>>
           /\ lost' = lost \cup Missed(w, h.id) /\ stale' = stale \cup Missed(w, h.id)
  BY FailsActs
<1>2. /\ Kept /\ h \in Holds(w) /\ h.id \in Items /\ ~h.gone
      /\ w # "delta" => SameDelta
      /\ w = "delta" => work["delta"].at \subseteq {h} /\ \A g \in work["delta"].todo : g = h \/ g \in work'["delta"].todo
  BY <1>1, ItemHeld DEF Read, Becomes
<1>3. \A x \in Items : x = h.id \/ place[x] = h.id => x \in About({h.id})
  BY DEF About
<1>4. w = "delta" => \A x \in Items : x = h.id \/ place[x] = h.id => MayLack(x)' /\ MayKeep(x)'
  BY <1>1, <1>3 DEF Missed, MayLack, MayKeep
<1>5. TreeAt(h.id)' /\ TrashAt(h.id)' /\ PlaceAt(h.id)'
  BY <1>1, <1>2, <1>4, SelfOwed
<1>6. QED BY <1>1, <1>2, <1>4, <1>5, ItemOwed

\* A delta drops the rows of an item that is gone.
LEMMA DropOwed ==
  ASSUME Shape, Orderly, Shown, Owed, NEW w \in Readers, NEW h \in work[w].todo, DropRow(w, h)
  PROVE  Owed'
<1>1. PICK R : /\ R = (IF row[h.id].kind = "none" THEN {} ELSE IF row[h.id].kind = "asset" THEN Subtree(h.id) ELSE {h.id})
               /\ row' = Without(R) /\ Aside(w, {h.id} \cup R)
               /\ h.gone /\ Takes(w, h) /\ lost' = lost /\ stale' = stale
  BY DropRowActs
<1>2. w = "delta"
  BY <1>1 DEF Orderly, HoldsOne
<1>3. work'["delta"].todo = work["delta"].todo \ {h} /\ work'["delta"].at = work["delta"].at /\ work["delta"].at = {}
  <2>1. Becomes("delta", "loop", work["delta"].todo \ {h}, {}) /\ Takes("delta", h)
    BY <1>2, RestActs
  <2>2. work["delta"].at = {}
    BY <1>2, <2>1 DEF Takes, Orderly, HoldsOne
  <2>3. QED BY <2>1, <2>2 DEF Becomes
<1>4. h.id \in Items
  BY <1>1, TakesIs
<1>5. Kept
  <2>1. Read(w)
    BY DEF Read
  <2>2. QED BY <1>2, <2>1, ReadKept
<1>6. UNCHANGED <<place, trashed>> /\ Due' = Due /\ \A x \in Items : (MayLack(x) => MayLack(x)') /\ (MayKeep(x) => MayKeep(x)')
  BY <1>5 DEF Kept, drive
<1>7. \A x \in Items : row'[x] = IF x \in R THEN NoRow ELSE row[x]
  BY <1>1 DEF Without
<1>8. NoRow.kind = "none"
  BY DEF NoRow
<1>9. \A x \in R : x \in Items /\ (x = h.id \/ (h.id \in Folders /\ row[x].parent = h.id))
  BY <1>1, <1>4 DEF Subtree
<1>10. \A x \in Items : Coming(x) => Coming(x)'
  BY <1>1, <1>2, <1>3, <1>6 DEF Coming, Takes
<1>11. h.id \notin R => row[h.id].kind = "none"
  BY <1>1 DEF Subtree
<1>12. \A x \in Items : h.id \in Folders /\ row[h.id].kind # "none" /\ row[x].parent = h.id => x \in R
  <2> SUFFICES ASSUME NEW x \in Items, h.id \in Folders, row[h.id].kind # "none", row[x].parent = h.id
               PROVE  x \in R
    OBVIOUS
  <2>1. row[h.id].kind = "asset"
    BY <1>4, DriveAssumption DEF Shape, ScriptsAreFiles, TypeOK
  <2>2. QED BY <1>1, <2>1 DEF Subtree
<1>13. ASSUME NEW x \in Items, x \in R
       PROVE  TreeAt(x)' /\ TrashAt(x)' /\ PlaceAt(x)'
  <2>1. row'[x].kind = "none"
    BY <1>7, <1>8, <1>13
  <2>2. TrashAt(x)' /\ PlaceAt(x)'
    BY <2>1 DEF TrashAt, PlaceAt
  <2>3. TreeAt(x)'
    <3> SUFFICES ASSUME InTree(x)
                 PROVE  MayLack(x)' \/ place[x] \in Due \/ Coming(x)'
      BY <1>6 DEF TreeAt, InTree, InTrash
    <3>1. CASE x = h.id
      BY <1>1, <1>2, <1>6, <3>1, TreeIs DEF Shown, GoneShown, Takes, MayLack
    <3>2. CASE x # h.id
      <4>1. h.id \in Folders /\ row[x].parent = h.id
        BY <1>9, <1>13, <3>2
      <4>2. MayLack(x) \/ place[x] \in Due \/ Coming(x) \/ place[x] = h.id
        BY <4>1 DEF Owed, TreeAt
      <4>3. CASE place[x] = h.id
        <5>1. ~InTrash(h.id) /\ place[h.id] = "assets"
          BY <4>1, <4>3, TreeIs, DriveAssumption DEF Roots, Items
        <5>2. "assets" \notin Due
          BY DueIsItems, DriveAssumption DEF Orderly, Roots
        <5>3. h.id \in Due \/ MayLack(x)
          BY <1>1, <1>2, <4>3, <5>1, <5>2 DEF Shown, GoneShown, Takes
        <5>4. QED BY <1>6, <4>3, <5>3
      <4>4. QED BY <1>6, <1>10, <4>2, <4>3
    <3>3. QED BY <3>1, <3>2
  <2>4. QED BY <2>2, <2>3
<1>14. ASSUME NEW x \in Items, x \notin R
       PROVE  TreeAt(x)' /\ TrashAt(x)' /\ PlaceAt(x)'
  <2>1. row'[x] = row[x] /\ TreeAt(x) /\ TrashAt(x) /\ PlaceAt(x)
    BY <1>7, <1>14 DEF Owed
  <2>2. CASE row[x].kind = "none"
    <3>1. TrashAt(x)' /\ PlaceAt(x)'
      BY <2>1, <2>2 DEF TrashAt, PlaceAt
    <3>2. TreeAt(x)'
      BY <1>6, <1>10, <2>1 DEF TreeAt, InTree, InTrash
    <3>3. QED BY <3>1, <3>2
  <2>3. CASE row[x].kind # "none"
    <3>1. x # h.id
      BY <1>11, <1>14, <2>3
    <3>2. PICK p : p = place[x]
      OBVIOUS
    <3>3. p \in Folders /\ row[p].kind # "none" /\ row[x].parent = p => p # h.id /\ row'[p].kind # "none"
      <4> SUFFICES ASSUME p \in Folders, row[p].kind # "none", row[x].parent = p
                   PROVE  p # h.id /\ row'[p].kind # "none"
        OBVIOUS
      <4>1. p # h.id
        BY <1>12, <1>14
      <4>2. p \notin R
        BY <1>9, <4>1 DEF Orderly, FoldersFlat
      <4>3. QED BY <1>7, <4>1, <4>2 DEF Items
    <3>4. TreeAt(x)'
      BY <1>6, <1>10, <2>1 DEF TreeAt, InTree, InTrash
    <3>5. Going(x) => Going(x)'
      BY <1>3, <3>1 DEF Going
    <3>6. p # h.id /\ Going(p) => Going(p)'
      BY <1>3 DEF Going
    <3>7. p \in trashed => p \in Folders
      BY <3>2, PlaceIs DEF Shape, TypeOK
    <3>8. TrashAt(x)'
      <4> SUFFICES /\ x \in trashed => MayKeep(x)' \/ Going(x)'
                   /\ p \in trashed => \/ MayKeep(x)' \/ p \in Due \/ Going(x)'
                                       \/ Going(p)' /\ row'[p].kind # "none" /\ row'[x].parent = p
        BY <1>6, <3>2 DEF TrashAt
      <4>1. /\ x \in trashed => MayKeep(x) \/ Going(x)
            /\ p \in trashed => \/ MayKeep(x) \/ p \in Due \/ Going(x)
                                \/ Going(p) /\ row[p].kind # "none" /\ row[x].parent = p
        BY <2>1, <2>3, <3>2 DEF TrashAt
      <4>2. QED BY <1>6, <2>1, <3>3, <3>5, <3>6, <3>7, <4>1
    <3>9. PlaceAt(x)'
      <4> SUFFICES ASSUME p \in Folders
                   PROVE  MayKeep(x)' \/ (\E g \in Holds("delta")' : g.id = x) \/ (row'[x].parent = p /\ row'[p].kind # "none")
        BY <1>6, <3>2 DEF PlaceAt
      <4>1. MayKeep(x) \/ (\E g \in Holds("delta") : g.id = x) \/ (row[x].parent = p /\ row[p].kind # "none")
        BY <2>1, <2>3, <3>2 DEF PlaceAt
      <4>2. \A g \in Holds("delta") : g.id = x => g \in Holds("delta")'
        BY <1>3, <3>1 DEF Holds
      <4>3. QED BY <1>6, <2>1, <3>3, <4>1, <4>2
    <3>10. QED BY <3>4, <3>8, <3>9
  <2>4. QED BY <2>2, <2>3
<1>15. QED BY <1>13, <1>14 DEF Owed

\* A reader that ends with nothing left to do, or with its first answer.
LEMMA EndsOwed ==
  ASSUME Shape, Orderly, Shown, Owed, NEW w \in Readers, ReaderFails(w) \/ (w # "scan" /\ Finish(w))
  PROVE  Owed'
<1>1. work'[w] = Resting /\ Aside(w, {}) /\ UNCHANGED <<drive, row, channel, renew, handed>>
  BY EndActs
<1>2. Kept
  <2>1. CASE w = "project" /\ ReaderFails(w)
    <3>1. Due' = Due
      BY <1>1 DEF Due, ChangedIn, drive
    <3>2. QED BY <1>1, <2>1, <3>1 DEF Kept, MayLack, MayKeep, ReaderFails
  <2>2. CASE ~(w = "project" /\ ReaderFails(w))
    BY <2>2, ReadKept DEF Read, ReaderFails, Finish
  <2>3. QED BY <2>1, <2>2
<1>3. CASE w # "delta"
  BY <1>1, <1>2, <1>3, AsideDelta, OwedSame
<1>4. CASE w = "delta"
  <2>1. work["delta"].todo = {} /\ work["delta"].at = {}
    BY <1>4 DEF ReaderFails, Finish, Orderly, HoldsOne
  <2>2. work'["delta"].todo = {} /\ work'["delta"].at = {}
    BY <1>1, <1>4, RestingFields
  <2>3. ASSUME NEW x \in Items
        PROVE  TreeAt(x)' /\ TrashAt(x)' /\ PlaceAt(x)'
    <3>1. TreeAt(x) /\ TrashAt(x) /\ PlaceAt(x) /\ ~Coming(x) /\ Holds("delta") = {} /\ row'[x] = row[x] /\ row'[place[x]] = row[place[x]]
      BY <1>1, <2>1 DEF Owed, Coming, Holds
    <3>2. QED BY <1>2, <2>1, <3>1, OwedFrame
  <2>4. QED BY <2>3 DEF Owed
<1>5. QED BY <1>3, <1>4

\* A scan that ends without failure leaves what it covered in order.
LEMMA ScanEndsOwed ==
  ASSUME Shape, Orderly, Locked, Shown, Covered("scan"), Owed, Finish("scan")
  PROVE  Owed'
<1>1. work'["scan"] = Resting /\ Aside("scan", {}) /\ UNCHANGED <<drive, row, channel, renew, handed>>
  BY EndActs DEF Readers
<1>2. SameDelta /\ work["project"].dirty \subseteq work'["project"].dirty
  BY <1>1, AsideDelta DEF Aside, Readers
<1>3. UNCHANGED <<place, trashed>> /\ Due' = Due /\ stale' = stale
  BY <1>1 DEF Due, ChangedIn, drive, Finish
<1>4. \A x \in Items : MayKeep(x) => MayKeep(x)'
  BY <1>2, <1>3 DEF MayKeep
<1>5. /\ work["scan"].pc = "loop" /\ work["scan"].todo = {} /\ work["scan"].at = {} /\ work["scan"].kind \in {"assets", "scripts"}
  <2>1. work["scan"].pc = "loop" /\ work["scan"].todo = {}
    BY DEF Finish
  <2>2. QED BY <2>1, BusyIs DEF Orderly, HoldsOne, Readers
<1>6. lost' = IF work["scan"].flawed THEN lost ELSE lost \ (InScope("scan") \ work["scan"].dirty)
  BY DEF Finish, InScope
<1>7. ASSUME NEW x \in Items
      PROVE  TreeAt(x)' /\ TrashAt(x)' /\ PlaceAt(x)'
  <2>1. TreeAt(x) /\ TrashAt(x) /\ PlaceAt(x) /\ row' = row
    BY <1>1 DEF Owed
  <2>2. TrashAt(x)'
    <3>1. PICK p : p = place[x]
      OBVIOUS
    <3>2. (Going(x) => Going(x)') /\ (Going(p) => Going(p)')
      BY <1>2 DEF Going, SameDelta
    <3>3. QED BY <1>3, <1>4, <2>1, <3>1, <3>2 DEF TrashAt
  <2>3. PlaceAt(x)'
    BY <1>2, <1>3, <1>4, <2>1 DEF PlaceAt, Holds, SameDelta
  <2>4. TreeAt(x)'
    <3> SUFFICES ASSUME InTree(x)
                 PROVE  \/ MayLack(x)' \/ place[x] \in Due \/ Coming(x)'
                        \/ row[x].kind # "none" /\ (row[x].parent \in Folders => row[x].parent = place[x])
      BY <1>3, <2>1 DEF TreeAt, InTree, InTrash
    <3>1. Coming(x) => Coming(x)'
      BY <1>2, <1>3 DEF Coming, SameDelta
    <3>2. CASE MayLack(x) /\ ~MayLack(x)'
      <4>1. ~work["scan"].flawed /\ x \in InScope("scan") /\ x \notin work["scan"].dirty
        BY <1>2, <1>3, <1>6, <3>2 DEF MayLack
      <4>2. Reached("scan", x) /\ ~InTrash(x)
        BY <1>5, <4>1, TreeIs DEF Covered
      <4>3. RowRight(x)
        BY <1>5, <4>2 DEF Reached
      <4>4. QED BY <4>3 DEF RowRight, Orderly, FoldersFlat, Items
    <3>3. QED BY <2>1, <3>1, <3>2 DEF TreeAt
  <2>5. QED BY <2>2, <2>3, <2>4
<1>8. QED BY <1>7 DEF Owed

\* The changes arrive: what was due is with the delta.
LEMMA DeltaOwed ==
  ASSUME Shape, Orderly, Locked, Owed, Delta
  PROVE  Owed'
<1>1. PICK S \in SUBSET Items :
           /\ Aside("delta", S) /\ work["delta"].pc = "asking" /\ work["delta"].todo = {} /\ work["delta"].at = {}
           /\ Becomes("delta", "loop", {Seen(x) : x \in S}, {}) /\ work["scan"] = Resting /\ work["delta"].kind = "delta"
           /\ UNCHANGED <<drive, row, lost, stale>>
           /\ \/ S = Due /\ Due' = {}
              \/ Due' = Due
  BY DeltaActs
<1>2. UNCHANGED <<place, trashed, row, lost, stale>> /\ work["project"].dirty \subseteq work'["project"].dirty
  BY <1>1 DEF drive, Aside, Readers
<1>3. Due \in SUBSET Items
  BY DueIsItems DEF Orderly
<1>4. \A x \in Items : Seen(x).id = x /\ (Seen(x).gone <=> InTrash(x))
  BY SeenFields
<1>5. \A x \in Due : x \in Due' \/ Seen(x) \in work'["delta"].todo
  BY <1>1 DEF Becomes
<1>6. \A x \in Items : (MayLack(x) => MayLack(x)' \/ x \in Due) /\ (MayKeep(x) => MayKeep(x)' \/ x \in Due)
  BY <1>2 DEF MayLack, MayKeep
<1>7. \A x \in Due : x \notin Due' => (IF InTrash(x) THEN Going(x)' ELSE \E h \in work'["delta"].todo : ~h.gone /\ h.id = x)
  BY <1>3, <1>4, <1>5 DEF Going
<1>8. \A x : ~Going(x) /\ ~Coming(x)
  BY <1>1 DEF Going, Coming
<1>9. \A x \in Due' : MayLack(x)' /\ MayKeep(x)'
  BY DEF MayLack, MayKeep
<1>10. ASSUME NEW x \in Items
       PROVE  TreeAt(x)' /\ TrashAt(x)' /\ PlaceAt(x)'
  <2>1. TreeAt(x) /\ TrashAt(x) /\ PlaceAt(x)
    BY DEF Owed
  <2>2. PICK p : p = place[x]
    OBVIOUS
  <2>3. p \in Items => p \in Folders
    BY <2>2, PlaceIs
  <2>4. TreeAt(x)'
    <3> SUFFICES ASSUME InTree(x)
                 PROVE  \/ MayLack(x)' \/ p \in Due' \/ Coming(x)'
                        \/ row[x].kind # "none" /\ (row[x].parent \in Folders => row[x].parent = p)
      BY <1>2, <2>2 DEF TreeAt, InTree, InTrash
    <3>1. x \in Due => x \in Due' \/ Coming(x)'
      BY <1>7, TreeIs DEF Coming
    <3>2. p \in Due => p \in Due' \/ Coming(x)'
      <4>1. p \in Items => ~InTrash(p)
        BY <2>2, <2>3, TreeIs, DriveAssumption DEF Roots, Items
      <4>2. QED BY <1>2, <1>3, <1>7, <2>2, <4>1 DEF Coming
    <3>3. QED BY <1>6, <1>8, <1>9, <2>1, <2>2, <3>1, <3>2 DEF TreeAt
  <2>5. x \in Due => MayKeep(x)' \/ \E h \in Holds("delta")' : h.id = x
    BY <1>4, <1>5, <1>9 DEF Holds
  <2>6. PlaceAt(x)'
    <3> SUFFICES ASSUME row[x].kind # "none", p \in Folders
                 PROVE  MayKeep(x)' \/ (\E h \in Holds("delta")' : h.id = x) \/ (row[x].parent = p /\ row[p].kind # "none")
      BY <1>2, <2>2 DEF PlaceAt
    <3>1. MayKeep(x) \/ (row[x].parent = p /\ row[p].kind # "none")
      BY <1>1, <2>1, <2>2 DEF PlaceAt, Holds
    <3>2. QED BY <1>6, <2>5, <3>1
  <2>7. TrashAt(x)'
    <3> SUFFICES ASSUME row[x].kind # "none"
                 PROVE  /\ x \in trashed => MayKeep(x)' \/ Going(x)'
                        /\ p \in trashed => \/ MayKeep(x)' \/ p \in Due' \/ Going(x)'
                                            \/ Going(p)' /\ row[p].kind # "none" /\ row[x].parent = p
      BY <1>2, <2>2 DEF TrashAt
    <3>1. InTrash(x) /\ MayKeep(x) => MayKeep(x)' \/ Going(x)'
      BY <1>6, <1>7, <1>9
    <3>2. (x \in trashed \/ p \in trashed) => InTrash(x)
      BY <2>2 DEF InTrash
    <3>3. x \in trashed => MayKeep(x)
      BY <1>8, <2>1 DEF TrashAt
    <3>4. p \in trashed => MayKeep(x) \/ p \in Due
      BY <1>8, <2>1, <2>2 DEF TrashAt
    <3>5. p \in trashed /\ p \in Due => p \in Due' \/ Going(p)'
      BY <1>3, <1>7 DEF InTrash
    <3>6. p \in trashed => p \in Folders
      BY <2>3 DEF Shape, TypeOK
    <3>7. p \in Folders => MayKeep(x) \/ (row[x].parent = p /\ row[p].kind # "none")
      BY <1>1, <2>1, <2>2 DEF PlaceAt, Holds
    <3>8. QED BY <3>1, <3>2, <3>3, <3>4, <3>5, <3>6, <3>7
  <2>8. QED BY <2>4, <2>6, <2>7
<1>11. QED BY <1>10 DEF Owed

\* A scan of the project starts, and collects.
LEMMA StartsOwed ==
  ASSUME Shape, Orderly, Owed, StartProject \/ \E h \in work["project"].todo : Collect(h)
  PROVE  Owed'
<1>1. Aside("project", {}) /\ UNCHANGED <<drive, row, lost, stale, handed>> /\ work["project"].dirty \subseteq work'["project"].dirty
  <2>1. CASE StartProject
    <3>1. work["project"].kind = "idle"
      BY <2>1, ProjectStartsActs
    <3>2. work["project"].dirty = {}
      BY <3>1, RestingFields DEF Orderly, HoldsOne, Readers
    <3>3. QED BY <2>1, <3>2, ProjectStartsActs
  <2>2. CASE \E h \in work["project"].todo : Collect(h)
    BY <2>2, CollectActs
  <2>3. QED BY <2>1, <2>2
<1>2. SameDelta
  BY <1>1, AsideDelta
<1>3. Due' = Due
  BY <1>1 DEF Due, ChangedIn, drive
<1>4. Kept
  BY <1>1, <1>3 DEF Kept, MayLack, MayKeep
<1>5. QED BY <1>1, <1>2, <1>4, OwedSame

LEMMA RegisteredOwed ==
  ASSUME Shape, Orderly, Owed, Registered
  PROVE  Owed'
<1>1. /\ UNCHANGED <<drive, row, work>>
      /\ \A x \in Items : (MayLack(x) => MayLack(x)') /\ (MayKeep(x) => MayKeep(x)')
      /\ \A x \in Items : place[x] \in Due => place[x] \in Due' \/ (MayLack(x)' /\ MayKeep(x)')
  BY RegisteredKeeps
<1>2. UNCHANGED <<place, trashed, row, work>>
  BY <1>1 DEF drive
<1>3. ASSUME NEW x \in Items
      PROVE  TreeAt(x)' /\ TrashAt(x)' /\ PlaceAt(x)'
  <2>1. TreeAt(x) /\ TrashAt(x) /\ PlaceAt(x)
    BY DEF Owed
  <2>2. Coming(x)' = Coming(x) /\ InTree(x)' = InTree(x)
    BY <1>2 DEF Coming, InTree, InTrash
  <2>3. \A p : Going(p)' = Going(p)
    BY <1>2 DEF Going
  <2>4. TreeAt(x)'
    BY <1>1, <1>2, <2>1, <2>2 DEF TreeAt
  <2>5. PICK p : p = place[x]
    OBVIOUS
  <2>6. TrashAt(x)'
    BY <1>1, <1>2, <2>1, <2>3, <2>5 DEF TrashAt
  <2>7. PlaceAt(x)'
    BY <1>1, <1>2, <2>1 DEF PlaceAt, Holds
  <2>8. QED BY <2>4, <2>6, <2>7
<1>4. QED BY <1>3 DEF Owed

\* The server dies: what the delta held is doubtful.
LEMMA DiesOwed ==
  ASSUME Shape, Orderly, Owed, Dies, UNCHANGED <<drive, row, channel, handed>>
  PROVE  Owed'
<1>1. /\ \A v \in Readers : work'[v] = Resting
      /\ \A x \in Items : \/ x \in work["project"].dirty \/ x \in lost \/ \E h \in Holds("delta") : h.id \in {x, place[x]}
                          => x \in lost'
      /\ \A x \in Items : \/ x \in work["project"].dirty \/ x \in stale \/ \E h \in Holds("delta") : h.id \in {x, place[x]}
                          => x \in stale'
  BY DiesActs
<1>2. UNCHANGED <<place, trashed, row>> /\ Due' = Due
  BY DEF Due, ChangedIn, drive
<1>3. \A x \in Items : /\ MayLack(x) \/ (\E h \in Holds("delta") : h.id \in {x, place[x]}) => MayLack(x)'
                       /\ MayKeep(x) \/ (\E h \in Holds("delta") : h.id \in {x, place[x]}) => MayKeep(x)'
  BY <1>1, <1>2 DEF MayLack, MayKeep
<1>4. ASSUME NEW x \in Items
      PROVE  TreeAt(x)' /\ TrashAt(x)' /\ PlaceAt(x)'
  <2>1. TreeAt(x) /\ TrashAt(x) /\ PlaceAt(x)
    BY DEF Owed
  <2>2. Coming(x) \/ Going(x) \/ Going(place[x]) => \E h \in Holds("delta") : h.id \in {x, place[x]}
    BY DEF Coming, Going, Holds
  <2>3. TreeAt(x)'
    BY <1>2, <1>3, <2>1, <2>2 DEF TreeAt, InTree, InTrash
  <2>4. TrashAt(x)'
    BY <1>2, <1>3, <2>1, <2>2 DEF TrashAt
  <2>5. PlaceAt(x)'
    BY <1>2, <1>3, <2>1 DEF PlaceAt
  <2>6. QED BY <2>3, <2>4, <2>5
<1>5. QED BY <1>4 DEF Owed

LEMMA MovedOwed ==
  ASSUME Shape, Orderly, Owed, NEW x \in Items, NEW p \in Places, NEW t \in SUBSET Items, Moved(x, p, t)
  PROVE  Owed'
<1>1. /\ Aside("drive", {x}) /\ Due' = Due \cup {x}
      /\ \A y \in Items : y # x => place'[y] = place[y] /\ (y \in trashed' <=> y \in trashed)
      /\ UNCHANGED row
      /\ \A y \in Items : (MayLack(y) => MayLack(y)') /\ (MayKeep(y) => MayKeep(y)')
      /\ MayLack(x)' /\ MayKeep(x)'
      /\ \A y \in Items : y # x /\ place[y] # x => (InTrash(y)' <=> InTrash(y))
  BY MovedIs
<1>2. SameDelta /\ Holds("delta")' = Holds("delta")
  BY <1>1, AsideDelta DEF SameDelta, Holds
<1>3. \A y : Going(y)' = Going(y)
  BY <1>2 DEF Going, SameDelta
<1>4. ASSUME NEW y \in Items, y # x
      PROVE  TreeAt(y)' /\ TrashAt(y)' /\ PlaceAt(y)'
  <2>1. TreeAt(y) /\ TrashAt(y) /\ PlaceAt(y) /\ place'[y] = place[y] /\ row' = row
    BY <1>1, <1>4 DEF Owed
  <2>2. PICK q : q = place[y]
    OBVIOUS
  <2>3. TreeAt(y)'
    <3>1. CASE q = x
      BY <1>1, <2>1, <2>2, <3>1 DEF TreeAt
    <3>2. CASE q # x
      <4>1. InTree(y)' => InTree(y)
        BY <1>1, <1>4, <2>1, <2>2, <3>2 DEF InTree, Items
      <4>2. Coming(y) => Coming(y)'
        BY <1>2, <2>1 DEF Coming, SameDelta
      <4>3. QED BY <1>1, <2>1, <2>2, <4>1, <4>2 DEF TreeAt
    <3>3. QED BY <3>1, <3>2
  <2>4. PlaceAt(y)'
    BY <1>1, <1>2, <2>1 DEF PlaceAt
  <2>5. TrashAt(y)'
    <3>1. q # x => (q \in trashed' <=> q \in trashed)
      BY <1>1, ChangesShape DEF Shape, TypeOK, Moved
    <3>2. QED BY <1>1, <1>3, <1>4, <2>1, <2>2, <3>1 DEF TrashAt
  <2>6. QED BY <2>3, <2>4, <2>5
<1>5. TreeAt(x)' /\ TrashAt(x)' /\ PlaceAt(x)'
  BY <1>1 DEF TreeAt, TrashAt, PlaceAt
<1>6. QED BY <1>4, <1>5 DEF Owed

\* The scan of the project ends: what it covered is in order, and the rows it drops are of nothing in its sight.
LEMMA PruneOwed ==
  ASSUME Shape, Orderly, Covered("project"), Collected, Owed, Prune
  PROVE  Owed'
<1>1. PICK R \in SUBSET Items :
           /\ R = {x \in Items : row[x].kind = "asset" /\ x \notin work["project"].live}
           /\ work'["project"] = Resting /\ Aside("project", R) /\ row' = Without(R)
           /\ UNCHANGED <<drive, channel, renew, handed>>
           /\ work["project"].kind = "project" /\ work["project"].pc = "loop" /\ work["project"].todo = {}
           /\ lost' = (lost \ (IF work["project"].flawed THEN {} ELSE Repaired("assets") \ work["project"].dirty))
                      \cup work["project"].dirty \cup {x \in R : place[x] = "scripts"}
           /\ stale' = (stale \cap (IF work["project"].flawed THEN Items ELSE {x \in Items : row[x].kind = "script"}))
                       \cup work["project"].dirty \cup {x \in Unlinked(Items) : row[x].parent \in R}
  BY PruneActs
<1>2. PICK live, D, flawed : live = work["project"].live /\ D = work["project"].dirty /\ flawed = work["project"].flawed
  OBVIOUS
<1>3. SameDelta /\ Holds("delta")' = Holds("delta")
  BY <1>1, AsideDelta DEF SameDelta, Holds
<1>4. UNCHANGED <<place, trashed>> /\ Due' = Due /\ D \subseteq lost' /\ D \subseteq stale'
  BY <1>1, <1>2 DEF Due, ChangedIn, drive
<1>5. work["project"].at = {}
  BY <1>1 DEF Orderly, HoldsOne, Readers
<1>6. \A y \in Repaired("assets") \ D : ~flawed => InTrash(y) \/ RowRight(y)
  <2>1. InScope("project") = Repaired("assets")
    BY DEF InScope
  <2>2. QED BY <1>1, <1>2, <1>5, <2>1 DEF Covered, Reached
<1>7. \A y \in live \ D : ~InTrash(y) /\ (place[y] = "assets" \/ (place[y] \in live /\ place[place[y]] = "assets"))
  BY <1>1, <1>2 DEF Collected
<1>8. \A y \in Repaired("assets") \ D : InTrash(y) \/ y \in live
  BY <1>1, <1>2 DEF Collected
<1>9. \A x \in Items : row'[x] = IF x \in R THEN NoRow ELSE row[x]
  BY <1>1 DEF Without
<1>10. \A x \in Items : (MayLack(x)' <=> x \in lost' \cup Due) /\ (MayKeep(x)' <=> x \in stale' \cup Due)
  BY <1>1, <1>4, RestingFields DEF MayLack, MayKeep
<1>11. \A x \in Items : MayLack(x) => MayLack(x)' \/ (~flawed /\ x \in Repaired("assets") \ D)
  BY <1>1, <1>2, <1>4, <1>10 DEF MayLack
<1>12. \A x \in Items : MayKeep(x) => MayKeep(x)' \/ (~flawed /\ row[x].kind # "script" /\ x \notin D)
  BY <1>1, <1>2, <1>4, <1>10 DEF MayKeep
<1>13. \A x \in Items : (Coming(x)' <=> Coming(x)) /\ (InTree(x)' <=> InTree(x)) /\ (InTrash(x)' <=> InTrash(x))
  BY <1>3, <1>4 DEF Coming, InTree, InTrash, SameDelta
<1>14. \A p : Going(p)' <=> Going(p)
  BY <1>3 DEF Going, SameDelta
<1>15. \A x \in Items : row[x].kind = "script" /\ row[x].parent \in R => MayKeep(x)'
  BY <1>1, <1>10 DEF Unlinked
<1>16. \A x \in Items : row[x].kind \in {"none", "asset", "script"}
  BY DEF Shape, TypeOK
<1>17. \A x \in Items \ R : row[x].kind \notin {"none", "script"} => x \in live
  BY <1>1, <1>2, <1>16
<1>18. NoRow.kind = "none" /\ "assets" \notin Items /\ "scripts" \notin Items /\ Folders \cap Files = {}
  BY DriveAssumption DEF NoRow, Roots
<1>19. ASSUME NEW x \in Items
       PROVE  TreeAt(x)' /\ TrashAt(x)' /\ PlaceAt(x)'
  <2>1. TreeAt(x) /\ TrashAt(x) /\ PlaceAt(x)
    BY DEF Owed
  <2>2. PICK p : p = place[x]
    OBVIOUS
  <2>3. p \in Items => p \in Folders
    BY <2>2, PlaceIs
  <2>4. p \in Folders => x \in Files
    BY <2>2 DEF Orderly, FoldersFlat, Items
  <2>5. TreeAt(x)'
    <3> SUFFICES ASSUME InTree(x)
                 PROVE  \/ MayLack(x)' \/ p \in Due \/ Coming(x)
                        \/ row'[x].kind # "none" /\ (row'[x].parent \in Folders => row'[x].parent = p)
      BY <1>4, <1>13, <2>2 DEF TreeAt
    <3>1. ~InTrash(x) /\ (p = "scripts" \/ x \in Repaired("assets"))
      <4>1. /\ ~InTrash(x)
            /\ \/ p = "assets" \/ p = "scripts"
               \/ p \in Folders /\ ~InTrash(p) /\ place[p] = "assets"
        BY <2>2, TreeIs
      <4>2. p \in Folders /\ ~InTrash(p) /\ place[p] = "assets" => p \in Children("assets")
        BY DEF Children, Items
      <4>3. QED BY <2>2, <4>1, <4>2, RepairedIs
    <3>2. CASE x \in R
      <4>1. p = "scripts" => x \in lost'
        BY <1>1, <2>2, <3>2
      <4>2. x \notin live
        BY <1>1, <1>2, <3>2
      <4>3. QED BY <1>4, <1>8, <1>10, <3>1, <4>1, <4>2
    <3>3. CASE x \notin R
      <4>1. row'[x] = row[x]
        BY <1>9, <3>3
      <4>2. ~flawed /\ x \in Repaired("assets") \ D => RowRight(x)
        BY <1>6, <3>1
      <4>3. RowRight(x) => row[x].kind # "none" /\ (row[x].parent \in Folders => row[x].parent = p)
        BY <2>2 DEF RowRight, Orderly, FoldersFlat, Items
      <4>4. QED BY <1>11, <2>1, <2>2, <4>1, <4>2, <4>3 DEF TreeAt
    <3>4. QED BY <3>2, <3>3
  <2>6. CASE x \in R
    <3>1. row'[x].kind = "none"
      BY <1>9, <1>18, <2>6
    <3>2. QED BY <2>5, <3>1 DEF TrashAt, PlaceAt
  <2>7. CASE row[x].kind = "none"
    <3>1. row'[x].kind = "none"
      BY <1>9, <1>18, <2>7
    <3>2. QED BY <2>5, <3>1 DEF TrashAt, PlaceAt
  <2>8. CASE x \notin R /\ row[x].kind # "none"
    <3>1. row'[x] = row[x] /\ row[x].kind # "none"
      BY <1>9, <2>8
    <3>2. row[x].kind # "script" => x \in live
      BY <1>17, <2>8
    <3>3. D \subseteq stale' /\ (x \in D => MayKeep(x)')
      BY <1>4, <1>10
    <3>4. (x \in trashed \/ p \in trashed) <=> InTrash(x)
      BY <2>2 DEF InTrash
    <3>5. InTrash(x) /\ row[x].kind # "script" => MayKeep(x)'
      BY <1>7, <3>2, <3>3
    <3>6. p \in Folders /\ row[p].kind # "none" /\ p \notin R => row'[p].kind # "none"
      BY <1>9 DEF Items
    <3>7. TrashAt(x)'
      <4> SUFFICES /\ x \in trashed => MayKeep(x)' \/ Going(x)
                   /\ p \in trashed => \/ MayKeep(x)' \/ p \in Due \/ Going(x)
                                       \/ Going(p) /\ row'[p].kind # "none" /\ row'[x].parent = p
        BY <1>4, <1>14, <2>2 DEF TrashAt
      <4>1. /\ x \in trashed => MayKeep(x) \/ Going(x)
            /\ p \in trashed => \/ MayKeep(x) \/ p \in Due \/ Going(x)
                                \/ Going(p) /\ row[p].kind # "none" /\ row[x].parent = p
        BY <2>1, <2>2, <3>1 DEF TrashAt
      <4>2. p \in trashed => p \in Folders
        BY <2>3 DEF Shape, TypeOK
      <4>3. CASE row[x].kind # "script"
        BY <3>4, <3>5, <4>3
      <4>4. CASE row[x].kind = "script"
        BY <1>12, <1>15, <3>1, <3>6, <4>1, <4>2, <4>4
      <4>5. QED BY <4>3, <4>4
    <3>8. PlaceAt(x)'
      <4> SUFFICES ASSUME p \in Folders
                   PROVE  MayKeep(x)' \/ (\E g \in Holds("delta") : g.id = x) \/ (row'[x].parent = p /\ row'[p].kind # "none")
        BY <1>3, <1>4, <2>2 DEF PlaceAt
      <4>1. MayKeep(x) \/ (\E g \in Holds("delta") : g.id = x) \/ (row[x].parent = p /\ row[p].kind # "none")
        BY <2>1, <2>2, <3>1 DEF PlaceAt
      <4>2. CASE row[x].kind = "script"
        BY <1>12, <1>15, <3>1, <3>6, <4>1, <4>2
      <4>3. CASE row[x].kind # "script" /\ x \notin D
        <5>1. p \in live /\ place[p] = "assets" /\ ~InTrash(x)
          BY <1>7, <1>18, <2>2, <3>2, <4>3 DEF Items
        <5>2. p \notin R
          BY <1>1, <1>2, <5>1
        <5>3. "assets" \notin trashed
          BY <1>18 DEF Shape, TypeOK
        <5>4. x \in Repaired("assets")
          <6>1. p \in Children("assets")
            BY <3>4, <5>1, <5>3 DEF Children, InTrash, Items
          <6>2. QED BY <2>2, <6>1, RepairedIs
        <5>5. ~flawed => RowRight(x)
          BY <1>6, <4>3, <5>1, <5>4
        <5>6. RowRight(x) => row[x].parent = p /\ row[p].kind # "none"
          BY <2>2, <2>4 DEF RowRight, HasFolder
        <5>7. QED BY <1>12, <3>1, <3>6, <4>1, <5>2, <5>5, <5>6
      <4>4. QED BY <3>3, <4>2, <4>3
    <3>9. QED BY <2>5, <3>7, <3>8
  <2>9. QED BY <2>6, <2>7, <2>8
<1>20. QED BY <1>19 DEF Owed

\* A route touches rows and no reader.
LEMMA RouteKept ==
  ASSUME Shape, UNCHANGED <<drive, handed>>, lost \subseteq lost', stale \subseteq stale',
         NEW w, w \notin Readers, NEW S, Step(w, Resting, S)
  PROVE  Kept /\ SameDelta
<1>1. Aside(w, S)
  BY StepAside DEF Shape
<1>2. SameDelta /\ work["project"].dirty \subseteq work'["project"].dirty
  BY <1>1, AsideDelta DEF Aside, Readers
<1>3. Due' = Due
  BY DEF Due, ChangedIn, drive
<1>4. Kept
  BY <1>2, <1>3 DEF Kept, MayLack, MayKeep
<1>5. QED BY <1>2, <1>4

\* The file a push made is the script's, wherever it is by now.
LEMMA AnsweredOwed ==
  ASSUME Shape, Orderly, Owed, NEW p \in push, PushAnswered(p)
  PROVE  Owed'
<1> DEFINE x == p.file
<1>1. /\ row' = [row EXCEPT ![x] = [NoRow EXCEPT !.kind = "script", !.script = p.script]]
      /\ stale' = IF InTrash(x) \/ place[x] # "scripts" THEN stale \cup {x} ELSE stale
      /\ Step("push", Resting, {x}) /\ UNCHANGED <<drive, handed>> /\ lost' = lost /\ x \in Files
  BY DEF PushAnswered, Shape, TypeOK
<1> HIDE DEF x
<1>2. Kept /\ SameDelta
  BY <1>1, RouteKept DEF Readers
<1>3. \A y \in Items : y # x => row'[y] = row[y]
  BY <1>1
<1>4. row'[x].kind = "script" /\ row'[x].parent = "none"
  BY <1>1 DEF NoRow, Shape, TypeOK, Items
<1>5. UNCHANGED <<place, trashed>>
  BY <1>1 DEF drive
<1>6. InTrash(x) \/ place[x] # "scripts" => MayKeep(x)'
  BY <1>1 DEF MayKeep
<1>7. TreeAt(x)'
  BY <1>4, DriveAssumption DEF TreeAt, Items
<1>8. TrashAt(x)'
  BY <1>5, <1>6 DEF TrashAt, InTrash
<1>9. PlaceAt(x)'
  BY <1>5, <1>6, DriveAssumption DEF PlaceAt, Roots, Items
<1>10. ASSUME NEW y \in Items, y # x
       PROVE  TreeAt(y)' /\ TrashAt(y)' /\ PlaceAt(y)'
  <2>1. place[y] \in Folders => row'[place[y]] = row[place[y]]
    BY <1>1, <1>3, DriveAssumption DEF Items
  <2>2. TreeAt(y) /\ TrashAt(y) /\ PlaceAt(y) /\ row'[y] = row[y]
    BY <1>3, <1>10 DEF Owed
  <2>3. QED BY <1>2, <2>1, <2>2, OwedAway
<1>11. QED BY <1>7, <1>8, <1>9, <1>10 DEF Owed

\* A deletion in LPOS drops the rows of R: with a folder those of its files, and what stays in Drive is doubtful.
LEMMA DroppedOwed ==
  ASSUME Shape, Orderly, Owed, Kept, SameDelta, NEW R, row' = Without(R),
         \A x \in R : ~InTrash(x) => x \in lost',
         \A x \in Items \ R : place[x] \in Folders /\ row[x].parent = place[x] => place[x] \notin R
  PROVE  Owed'
<1>1. UNCHANGED <<place, trashed>>
  BY DEF Kept, drive
<1>2. \A x \in Items : row'[x] = IF x \in R THEN NoRow ELSE row[x]
  BY DEF Without
<1>3. ASSUME NEW x \in Items, x \in R
      PROVE  TreeAt(x)' /\ TrashAt(x)' /\ PlaceAt(x)'
  <2>1. row'[x].kind = "none"
    BY <1>2, <1>3 DEF NoRow
  <2>2. InTree(x)' => MayLack(x)'
    BY <1>1, <1>3 DEF InTree, InTrash, MayLack
  <2>3. QED BY <2>1, <2>2 DEF TreeAt, TrashAt, PlaceAt
<1>4. ASSUME NEW x \in Items, x \notin R
      PROVE  TreeAt(x)' /\ TrashAt(x)' /\ PlaceAt(x)'
  <2>1. TreeAt(x) /\ TrashAt(x) /\ PlaceAt(x) /\ row'[x] = row[x]
    BY <1>2, <1>4 DEF Owed
  <2>2. place[x] \in Folders /\ row[x].parent = place[x] => row'[place[x]] = row[place[x]]
    BY <1>2, <1>4 DEF Items
  <2>3. QED BY <2>1, <2>2, OwedAway
<1>5. QED BY <1>3, <1>4 DEF Owed

LEMMA DropScriptOwed ==
  ASSUME Shape, Orderly, Owed, NEW e \in del, DropScript(e)
  PROVE  Owed'
<1> DEFINE R == {x \in Items : row[x].script = e.script}
<1>1. /\ row' = Without(R) /\ lost' = lost \cup {x \in R : ~InTrash(x)} /\ stale' = stale
      /\ Step("route", Resting, R) /\ UNCHANGED <<drive, handed>> /\ e.script # NoScript
  BY DEF DropScript
<1>2. \A x \in R : x \in Files
  BY <1>1 DEF Orderly, FoldersFlat, Shape, ScriptsAreFiles
<1> HIDE DEF R
<1>3. Kept /\ SameDelta
  BY <1>1, RouteKept DEF Readers
<1>4. \A x \in Items \ R : place[x] \in Folders /\ row[x].parent = place[x] => place[x] \notin R
  BY <1>2, DriveAssumption
<1>5. QED BY <1>1, <1>3, <1>4, DroppedOwed

LEMMA DropAssetOwed ==
  ASSUME Shape, Orderly, Owed, NEW e \in del, DropAsset(e)
  PROVE  Owed'
<1> DEFINE R == IF e.same THEN Subtree(e.id) ELSE Subtree(e.id) \ {e.id}
<1>1. /\ row' = Without(R) /\ lost' = lost \cup {x \in R : ~InTrash(x)} /\ stale' = stale
      /\ Step("route", Resting, R) /\ UNCHANGED <<drive, handed>>
  BY DEF DropAsset
<1>2. \A x \in R : x = e.id \/ (x \in Items /\ e.id \in Folders /\ row[x].parent = e.id)
  BY DEF Subtree
<1>3. \A x \in Items : e.id \in Folders /\ row[x].parent = e.id /\ x # e.id => x \in R
  BY DEF Subtree
<1> HIDE DEF R
<1>4. Kept /\ SameDelta
  BY <1>1, RouteKept DEF Readers
<1>5. ASSUME NEW x \in Items, x \notin R, place[x] \in Folders, row[x].parent = place[x], place[x] \in R
      PROVE  FALSE
  <2>1. place[x] = e.id
    BY <1>2, <1>5 DEF Orderly, FoldersFlat
  <2>2. x # e.id
    BY <1>5, <2>1 DEF Orderly, FoldersFlat
  <2>3. QED BY <1>3, <1>5, <2>1, <2>2
<1>6. QED BY <1>1, <1>4, <1>5, DroppedOwed

\* The root is listed, for a scan.
LEMMA RootOwed ==
  ASSUME Shape, Orderly, Owed, NEW w \in Readers, RootListed(w)
  PROVE  Owed'
<1>1. work[w].pc = "asking" /\ work[w].kind # "delta" /\ Aside(w, {}) /\ UNCHANGED row
  BY RootActs
<1>2. w # "delta"
  BY <1>1, BusyIs DEF Orderly, HoldsOne
<1>3. Kept
  <2>1. work'[w].pc = "loop"
    BY RootActs DEF Becomes
  <2>2. ~ReaderFails(w) /\ ~Finish(w)
    BY <2>1, EndActs, RestingFields
  <2>3. QED BY <2>2, ReadKept DEF Read
<1>4. QED BY <1>1, <1>2, <1>3, AsideDelta, OwedSame

\* A delta or a scan starts, with nothing to do yet; or the channel goes.
LEMMA BeginsOwed ==
  ASSUME Shape, Orderly, Owed, StartDelta \/ DropChannel \/ \E k \in {"assets", "scripts"} : StartScan(k)
  PROVE  Owed'
<1>1. \E w \in {"delta", "scan"} : \E r : Step(w, r, {})
  BY DEF StartDelta, DropChannel, StartScan
<1>2. UNCHANGED <<drive, row, lost, stale, handed>>
  BY DEF StartDelta, DropChannel, StartScan, tables, ghosts
<1>3. work["project"].dirty \subseteq work'["project"].dirty
  BY <1>1, StepAside DEF Aside, Readers, Shape
<1>4. Due' = Due
  BY <1>2 DEF Due, ChangedIn, drive
<1>5. Kept
  BY <1>2, <1>3, <1>4 DEF Kept, MayLack, MayKeep
<1>6. CASE StartDelta
  <2>1. work["delta"].todo = {} /\ work["delta"].at = {}
    BY <1>6, RestingFields DEF StartDelta, Orderly, HoldsOne, Readers
  <2>2. ASSUME NEW x \in Items
        PROVE  TreeAt(x)' /\ TrashAt(x)' /\ PlaceAt(x)'
    <3>1. TreeAt(x) /\ TrashAt(x) /\ PlaceAt(x) /\ ~Coming(x) /\ Holds("delta") = {} /\ row' = row
      BY <1>2, <2>1 DEF Owed, Coming, Holds
    <3>2. QED BY <1>5, <2>1, <3>1, OwedFrame
  <2>3. QED BY <2>2 DEF Owed
<1>7. CASE DropChannel \/ \E k \in {"assets", "scripts"} : StartScan(k)
  <2>1. SameDelta
    <3>1. CASE DropChannel
      <4>1. work'["delta"] = [work["delta"] EXCEPT !.mine = (@ /\ work["delta"].pc # "asking")]
        BY <3>1 DEF DropChannel, Step, Readers
      <4>2. QED BY <4>1, RecordIs DEF SameDelta, Record, Shape, Readers
    <3>2. CASE \E k \in {"assets", "scripts"} : StartScan(k)
      <4>1. \E r : Step("scan", r, {})
        BY <3>2 DEF StartScan
      <4>2. QED BY <4>1, StepAside, AsideDelta DEF Shape
    <3>3. QED BY <1>7, <3>1, <3>2
  <2>2. QED BY <1>2, <1>5, <2>1, OwedSame
<1>8. QED BY <1>6, <1>7

\* A step that reads what is owed as it was.
LEMMA SameOwed ==
  ASSUME Shape, Owed, UNCHANGED view
  PROVE  Owed'
<1>1. Kept /\ SameDelta /\ UNCHANGED row
  BY DEF view, Kept, SameDelta, MayLack, MayKeep, Due, ChangedIn, drive
<1>2. QED BY <1>1, OwedSame

LEMMA ReadOwed ==
  ASSUME Shape, Orderly, Locked, Shown, Scanned, Owed, NEW w \in Readers, Read(w)
  PROVE  Owed'
<1>1. CASE RootListed(w)
  BY <1>1, RootOwed
<1>2. CASE ReaderFails(w) \/ Finish(w)
  BY <1>2, EndsOwed, ScanEndsOwed DEF Scanned
<1>3. CASE \E h \in work[w].todo :
       DropRow(w, h) \/ SkipFile(w, h) \/ UpdateRow(w, h) \/ IndexFile(w, h) \/ PullScript(w, h) \/ OpenFolder(w, h)
  BY <1>3, DropOwed, SkipOwed, FileOwed, PullOwed, OpenOwed
<1>4. CASE (\E s \in Scripts : Downloaded(w, s)) \/ FolderFound(w) \/ FolderListed(w) \/ ItemFails(w)
  BY <1>4, DownloadOwed, FoundOwed, ListedOwed, FailsOwed
<1>5. QED BY <1>1, <1>2, <1>3, <1>4 DEF Read

LEMMA OwedStep ==
  ASSUME Shape, Fresh, Locked, Orderly, Shown, Scanned, Owed, [Next]_vars
  PROVE  Owed'
<1>1. CASE UNCHANGED view
  BY <1>1, SameOwed
<1>2. CASE \E x \in Items, p \in Places, t \in SUBSET Items : Moved(x, p, t)
  BY <1>2, MovedOwed
<1>3. CASE StartDelta \/ DropChannel \/ \E k \in {"assets", "scripts"} : StartScan(k)
  BY <1>3, BeginsOwed
<1>4. CASE Delta
  BY <1>4, DeltaOwed
<1>5. CASE StartProject \/ \E h \in work["project"].todo : Collect(h)
  BY <1>5, StartsOwed
<1>6. CASE Prune
  BY <1>6, PruneOwed DEF Scanned
<1>7. CASE \E w \in Readers : Read(w)
  BY <1>7, ReadOwed
<1>8. CASE Registered
  BY <1>8, RegisteredOwed
<1>9. CASE (\E p \in push : PushAnswered(p)) \/ \E e \in del : DropScript(e) \/ DropAsset(e)
  BY <1>9, AnsweredOwed, DropScriptOwed, DropAssetOwed
<1>10. CASE Dies /\ UNCHANGED <<drive, row, channel, handed>>
  BY <1>10, DiesOwed
<1>11. QED BY <1>1, <1>2, <1>3, <1>4, <1>5, <1>6, <1>7, <1>8, <1>9, <1>10, StepKinds DEF Orderly

-----------------------------------------------------------------------------
(* The theorems *)

LEMMA DriveInit == Init => DriveInv
<1> SUFFICES ASSUME Init PROVE DriveInv
  OBVIOUS
<1>1. Shape
  BY ShapeInit
<1>2. Locked
  BY DEF Init, Locked, Readers, Resting
<1>3. \A w \in Readers : work[w].todo = {} /\ work[w].at = {} /\ work[w].pc = "idle"
  BY DEF Init, Resting
<1>4. Fresh
  BY <1>3, DriveAssumption DEF Init, Fresh, Named, NoRow
<1>5. OwnerInv
  BY <1>3 DEF Init, OwnerInv, OneOwner, Has, Downloads
<1>6. QED BY <1>1, <1>2, <1>4, <1>5 DEF DriveInv

LEMMA DriveStep == DriveInv /\ [Next]_vars => DriveInv'
  BY ShapeStep, LockedStep, FreshStep, OwnerStep DEF DriveInv

LEMMA ScannedStep ==
  ASSUME Shape, Fresh, Orderly, Locked, Shown, Scanned, [Next]_vars
  PROVE  Scanned'
  BY CoveredStep, CollectedStep DEF Scanned

\* What the table owes to Drive, with what the readers of Drive hold and have covered.
TableInv == DriveInv /\ Orderly /\ Shown /\ Scanned /\ Owed

LEMMA TableInit == Init => TableInv
<1> SUFFICES ASSUME Init PROVE TableInv
  OBVIOUS
<1>1. DriveInv /\ Orderly
  BY DriveInit, OrderlyInit
<1>2. \A w \in Readers : /\ work[w].kind = "idle" /\ work[w].pc = "idle" /\ work[w].todo = {} /\ work[w].at = {}
                         /\ work[w].dirty = {}
  BY RestingFields DEF Init
<1>3. \A w \in {"delta", "scan", "project"} : Holds(w) = {} /\ work[w].kind = "idle" /\ work[w].pc = "idle" /\ work[w].dirty = {} /\ work[w].todo = {}
  BY <1>2 DEF Holds, Readers
<1>4. Shown
  BY <1>3 DEF Shown, DirtyClosed, OwnShown, OthersShown, ParentsShown, GoneShown, ThereShown
<1>5. Scanned
  BY <1>3 DEF Scanned, Covered, Collected
<1>6. ASSUME NEW x \in Items
      PROVE  TreeAt(x) /\ TrashAt(x) /\ PlaceAt(x)
  <2>1. row[x] = (IF place[x] = "none" THEN NoRow ELSE Indexed(place[x])) /\ trashed = {}
    BY DEF Init
  <2>2. row[x].kind # "none" => row[x].parent = place[x]
    BY <2>1 DEF NoRow, Indexed
  <2>3. place[x] # "none" => row[x].kind # "none"
    BY <2>1 DEF NoRow, Indexed
  <2>4. place[x] \in Folders => row[place[x]].kind # "none"
    BY DEF Init, Indexed, NoRow, Items
  <2>5. "none" \notin Folders
    BY DriveAssumption DEF Items
  <2>6. QED BY <2>1, <2>2, <2>3, <2>4, <2>5 DEF TreeAt, TrashAt, PlaceAt, InTree
<1>7. QED BY <1>1, <1>4, <1>5, <1>6 DEF TableInv, Owed

LEMMA TableStep == TableInv /\ [Next]_vars => TableInv'
  BY DriveStep, OrderlyStep, ShownStep, ScannedStep, OwedStep DEF TableInv, DriveInv

\* At rest nothing is due, and neither a delta nor a scan of the project holds anything.
LEMMA RestIsQuiet ==
  ASSUME TableInv, NEW x, AtRest(x)
  PROVE  /\ x \notin Due /\ place[x] \notin Due /\ work["project"].dirty = {}
         /\ ~Coming(x) /\ \A y : ~Going(y)
<1>1. PICK t \in channel : {x, place[x]} \cap ChangedIn(t, Len(log)) = {}
  BY DEF AtRest
<1>2. t = handed
  BY DEF TableInv, Orderly, ChannelKnows
<1>3. work["delta"] = Resting /\ work["project"] = Resting
  BY DEF AtRest, TableInv, Orderly, HoldsOne, Readers
<1>4. QED BY <1>1, <1>2, <1>3, RestingFields DEF Due, Coming, Going

\* The types of Drive, of the tables, of what each reader holds and of the requests under way:
\* a scan of the project never comes to hold a script, a registration never a token past the feed.
THEOREM DriveTyped == Spec => []TypeOK
<1>1. DriveInv => TypeOK
  BY DEF DriveInv, Shape
<1>2. QED BY <1>1, DriveInit, DriveStep, PTL DEF Spec

\* A file in Drive is one script in LPOS, however deltas, scans, pushes and deletions interleave,
\* but for the files in doubled.
THEOREM OneScriptEach == Spec => []OneScriptPerFile
<1>1. DriveInv => OneScriptPerFile
  BY DEF DriveInv, OwnerInv, OneOwner, Has, OneScriptPerFile
<1>2. QED BY <1>1, DriveInit, DriveStep, PTL DEF Spec

\* What withWriteLock promises: a delta and a scan of all projects are never under way together.
THEOREM ScansExclude == Spec => []Locked
<1>1. DriveInv => Locked
  BY DEF DriveInv
<1>2. QED BY <1>1, DriveInit, DriveStep, PTL DEF Spec

\* What is in the project's folders is in the table once its changes are handled, whatever scans
\* run beside them and wherever a reader fails or the server dies, but for the items in lost.
THEOREM TreeIsIndexed == Spec => []InTreeIsIndexed
<1>1. TableInv => InTreeIsIndexed
  <2> SUFFICES ASSUME TableInv, NEW x \in Items, AtRest(x), InTree(x), {x, place[x]} \cap lost = {}
               PROVE  row[x].kind # "none"
    BY DEF InTreeIsIndexed
  <2>1. QED BY RestIsQuiet DEF TableInv, Owed, TreeAt, MayLack
<1>2. QED BY <1>1, TableInit, TableStep, PTL DEF Spec

\* What is in the trash, by itself or with its folder, is not in the table once that is handled,
\* though scans, pushes and renewals meet it as it was before, but for the items in stale.
THEOREM TrashIsDropped == Spec => []TrashedIsDropped
<1>1. TableInv => TrashedIsDropped
  <2> SUFFICES ASSUME TableInv, NEW x \in Items, AtRest(x), InTrash(x), {x, place[x]} \cap stale = {}
               PROVE  row[x].kind = "none"
    BY DEF TrashedIsDropped
  <2>1. QED BY RestIsQuiet DEF TableInv, Owed, TrashAt, InTrash, MayKeep
<1>2. QED BY <1>1, TableInit, TableStep, PTL DEF Spec
===============================================================================
