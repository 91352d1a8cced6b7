------------------------------ MODULE DriveSync ------------------------------
(* Google Drive and the index LPOS keeps of it (drive_assets), for one       *)
(* project: the change feed read from a page token, the scans that look for  *)
(* what the feed missed, the renewal of the watch channel, the scripts       *)
(* pulled from and pushed to Drive, and the deletion of assets and scripts   *)
(* in LPOS.  Drive and its users are the environment.                        *)
(*                                                                           *)
(* A scan is suspended at each request to Drive; what it was answered and    *)
(* has not handled yet is its todo, which it takes in any order.  Folders    *)
(* are not nested, and any file may be a script.                             *)
(*                                                                           *)
(* Definitions marked "Mutation" are wrong on purpose and used nowhere: the  *)
(* properties below fail when one of them replaces the definition after it.  *)
EXTENDS Naturals, Sequences, FiniteSets

CONSTANTS Folders, Files, Scripts, NoFile, NoScript, MaxChanges, MaxSteps

Items == Folders \cup Files
Roots == {"assets", "scripts", "out"}

ASSUME DriveAssumption ==
  /\ Folders \cap Files = {} /\ (Roots \cup {"none"}) \cap Items = {}
  /\ NoFile \notin Items /\ NoScript \notin Scripts
  /\ MaxChanges \in Nat /\ MaxSteps \in Nat

VARIABLES
  place,    \* Drive: the folder of each item
  trashed,  \* Drive: the items in its trash by themselves
  log,      \* Drive: the items that changed, in order
  row,      \* drive_assets: the row of each item
  script,   \* the scripts registry: the state and the Drive file of each script
  channel,  \* the watch channel: {} or the set of its page token
  work,     \* the readers of Drive
  renew,    \* a registration under way: {} or the set of its start token
  push,     \* scripts on their way to Drive
  del,      \* deletions in LPOS whose request to Drive was carried out
  lost,     \* ghost: items that may lack a row until a scan
  stale,    \* ghost: items that may keep a row until a scan of the project
  doubled,  \* ghost: files that may have been pulled although a script had them
  handed,   \* ghost: up to where the log was handed to some delta
  steps     \* reads, renewals, requests of users and crashes so far

drive == <<place, trashed, log>>
tables == <<row, script>>
routes == <<push, del>>
ghosts == <<lost, stale, doubled, handed>>
vars == <<drive, tables, channel, work, renew, routes, ghosts, steps>>

NoRow == [kind |-> "none", parent |-> "none", script |-> NoScript]

Readers == {"delta", "scan", "project"}
Resting == [kind |-> "idle", pc |-> "idle", todo |-> {}, at |-> {}, from |-> 0, mine |-> TRUE,
            live |-> {}, flawed |-> FALSE, dirty |-> {}]

Indexed(p) == [NoRow EXCEPT !.kind = "asset", !.parent = p]

\* LPOS starts with a channel and with a table that has the Assets folder as it is.
Init ==
  /\ place \in {p \in [Items -> {"none", "assets"} \cup Folders] :
                  \A x \in Items : p[x] \in Folders => x \in Files /\ p[p[x]] = "assets"}
  /\ row = [x \in Items |-> IF place[x] = "none" THEN NoRow ELSE Indexed(place[x])]
  /\ script = [s \in Scripts |-> [state |-> "none", file |-> NoFile]]
  /\ trashed = {} /\ log = <<>>
  /\ channel = {0} /\ work = [w \in Readers |-> Resting] /\ renew = {}
  /\ push = {} /\ del = {}
  /\ lost = {} /\ stale = {} /\ doubled = {} /\ handed = 0 /\ steps = 0

-----------------------------------------------------------------------------
(* Drive, and what LPOS reads from it *)

Counts == steps < MaxSteps /\ steps' = steps + 1

InTrash(x) == x \in trashed \/ place[x] \in trashed

\* listChildren: the items of a folder that are not in the trash.
Children(p) == {x \in Items : place[x] = p /\ ~InTrash(x)}

\* An item as an answer of Drive shows it.
Seen(x) == [id |-> x, parent |-> place[x], gone |-> InTrash(x)]

ChangedIn(i, j) == {log[k] : k \in (i + 1)..j}

\* The items whose rows depend on those of S.
About(S) == S \cup {y \in Items : place[y] \in S \/ row[y].parent \in S}

\* The record of reader w becomes r; what is done to the items of S meanwhile is out of the
\* sight of a scan under way.
Step(w, r, S) ==
  work' = [v \in Readers |->
    IF v = w THEN r
    ELSE IF v # "delta" /\ work[v].kind # "idle" THEN [work[v] EXCEPT !.dirty = @ \cup About(S)]
    ELSE work[v]]

\* Drive puts x in a folder or in the trash, and logs it.
Changes(x, p, t) ==
  /\ Len(log) < MaxChanges
  /\ place' = [place EXCEPT ![x] = p] /\ trashed' = t
  /\ log' = Append(log, x)
  /\ Step("drive", Resting, {x})

UserPuts(x, p) ==
  /\ p \in Roots \cup Folders /\ p # place[x]
  /\ x \in Folders => p \in {"assets", "out"}
  /\ p \in Folders => place[p] # "none" /\ ~InTrash(p)
  /\ ~InTrash(x)
  /\ Changes(x, p, trashed)
  /\ UNCHANGED <<tables, channel, renew, routes, ghosts, steps>>

UserTrashes(x) ==
  /\ place[x] # "none" /\ ~InTrash(x)
  /\ Changes(x, place[x], trashed \cup {x})
  /\ UNCHANGED <<tables, channel, renew, routes, ghosts, steps>>

UserRestores(x) ==
  /\ x \in trashed
  /\ Changes(x, place[x], trashed \ {x})
  /\ UNCHANGED <<tables, channel, renew, routes, ghosts, steps>>

-----------------------------------------------------------------------------
(* The table *)

\* resolveContext: the fixed folders of the project, or a folder with a row.
Context(p) ==
  IF p \in {"assets", "scripts"} THEN p
  ELSE IF p \in Folders /\ row[p].kind # "none" THEN "assets"
  ELSE "none"

\* Mutation: only the folder's own row goes.
OwnRow(x) == {x}

\* purgeDriveAssetSubtree: x and the rows below it.
Subtree(x) == {x} \cup {y \in Items : x \in Folders /\ row[y].parent = x}

Without(R) == [x \in Items |-> IF x \in R THEN NoRow ELSE row[x]]

\* Deletions under way know rows by their entity id: a row made anew is another.
NotSame(R) == {[e EXCEPT !.same = @ /\ e.id \notin R] : e \in del}

\* Scripts that lose their row and stay registered.
Unlinked(R) == {x \in R : row[x].kind = "script"}
-----------------------------------------------------------------------------
(* The readers: starting, asking, ending *)

\* Mutation: a scan waits for no delta, nor a delta for a scan.
NeverHeld == TRUE

\* withWriteLock: one delta or one scan of all projects at a time.
LockFree == work["delta"].kind = "idle" /\ work["scan"].kind = "idle"

\* processIncomingChanges, on a nudge from Drive.
StartDelta ==
  /\ Counts
  /\ LockFree /\ work["delta"].kind = "idle"
  /\ \E t \in channel :
       Step("delta", [Resting EXCEPT !.kind = "delta", !.pc = "asking", !.from = t], {})
  /\ UNCHANGED <<drive, tables, channel, renew, routes, ghosts>>

\* The changes arrive: the new token is stored, then they are handled.
Delta ==
  LET w == work["delta"]
      S == ChangedIn(w.from, Len(log))
  IN  /\ w.pc = "asking"
      /\ channel' = IF w.mine THEN {Len(log)} ELSE channel
      /\ handed' = IF w.mine THEN Len(log) ELSE handed
      /\ Step("delta", [w EXCEPT !.pc = "loop", !.todo = {Seen(x) : x \in S}, !.from = 0, !.mine = TRUE], S)
      /\ UNCHANGED <<drive, tables, renew, routes, lost, stale, doubled, steps>>

\* scanAllProjectAssets and scanAllProjectScripts.
StartScan(k) ==
  /\ Counts
  /\ LockFree /\ work["scan"].kind = "idle"
  /\ k \in {"assets", "scripts"}
  /\ Step("scan", [Resting EXCEPT !.kind = k, !.pc = "asking"], {})
  /\ UNCHANGED <<drive, tables, channel, renew, routes, ghosts>>

\* scanProjectAssets, which takes no lock.
StartProject ==
  /\ Counts
  /\ work["project"].kind = "idle"
  /\ LET known == UNION {work[w].todo \cup work[w].at : w \in {"delta", "scan"}}
     IN  Step("project", [Resting EXCEPT !.kind = "project", !.pc = "collecting",
                            !.todo = {[id |-> "assets", parent |-> "none", gone |-> FALSE]},
                            !.dirty = About({h.id : h \in known})], {})
  /\ UNCHANGED <<drive, tables, channel, renew, routes, ghosts>>

\* collectIds: the ids of one folder.
Collect(h) ==
  LET w == work["project"]
      rest == (w.todo \ {h}) \cup {Seen(x) : x \in Children(h.id) \cap Folders}
  IN  /\ w.pc = "collecting" /\ h \in w.todo
      /\ Step("project", [w EXCEPT !.live = @ \cup Children(h.id), !.todo = rest,
                                   !.pc = IF rest = {} THEN "asking" ELSE @], {})
      /\ UNCHANGED <<drive, tables, channel, renew, routes, ghosts, steps>>

\* The children of the Assets or Scripts folder arrive.
RootListed(w) ==
  LET k == work[w].kind
      kids == IF k = "scripts" THEN Children("scripts") \cap Files ELSE Children("assets")
  IN  /\ work[w].pc = "asking" /\ k # "delta"
      /\ Step(w, [work[w] EXCEPT !.pc = "loop", !.todo = {Seen(x) : x \in kids}], {})
      /\ UNCHANGED <<drive, tables, channel, renew, routes, ghosts, steps>>

\* The first answer fails, and with it the reader; a scan of the project leaves what it did.
ReaderFails(w) ==
  /\ work[w].pc \in {"asking", "collecting"}
  /\ LET S == IF w = "project" THEN work[w].dirty ELSE {}
     IN  lost' = lost \cup S /\ stale' = stale \cup S
  /\ Step(w, Resting, {})
  /\ UNCHANGED <<drive, tables, channel, renew, routes, doubled, handed, steps>>

\* What a scan without failure leaves in order.
Repaired(k) ==
  CASE k = "assets"  -> {x \in Items : place[x] = "assets" \/ place[x] \in Children("assets")}
    [] k = "scripts" -> {x \in Items : place[x] = "scripts"}
    [] k = "delta"   -> {}

Finish(w) ==
  /\ w \in {"delta", "scan"} /\ work[w].pc = "loop" /\ work[w].todo = {}
  /\ lost' = IF work[w].flawed THEN lost ELSE lost \ (Repaired(work[w].kind) \ work[w].dirty)
  /\ Step(w, Resting, {})
  /\ UNCHANGED <<drive, tables, channel, renew, routes, stale, doubled, handed, steps>>

\* The scan of a project ends: rows of assets it has not seen are dropped. A script keeps its
\* row when that of its folder goes, and the folder's deletion no longer reaches it.
Prune ==
  LET w == work["project"]
      R == {x \in Items : row[x].kind = "asset" /\ x \notin w.live}
      seen == IF w.flawed THEN {} ELSE Repaired("assets") \ w.dirty
      kept == IF w.flawed THEN Items ELSE {x \in Items : row[x].kind = "script"}
  IN  /\ w.kind = "project" /\ w.pc = "loop" /\ w.todo = {}
      /\ row' = Without(R) /\ del' = NotSame(R)
      /\ lost' = (lost \ seen) \cup w.dirty \cup {x \in R : place[x] = "scripts"}
      /\ stale' = (stale \cap kept) \cup w.dirty \cup {x \in Unlinked(Items) : row[x].parent \in R}
      /\ Step("project", Resting, R)
      /\ UNCHANGED <<drive, script, channel, renew, push, doubled, handed, steps>>

-----------------------------------------------------------------------------
(* The readers: one item *)

Rest(w, h) == [work[w] EXCEPT !.todo = @ \ {h}, !.at = {}, !.pc = "loop"]
Awaits(w, h, pc) == [work[w] EXCEPT !.todo = @ \ {h}, !.at = {h}, !.pc = pc]
Takes(w, h) == work[w].pc = "loop" /\ h \in work[w].todo

\* What a failed request for x makes doubtful: a change is not handed out twice.
Missed(w, x) == IF w = "delta" THEN About({x}) ELSE {}

\* handleDriveDelete, for rows LPOS knows.
DropRow(w, h) ==
  LET x == h.id
      R == IF row[x].kind = "none" THEN {} ELSE IF row[x].kind = "asset" THEN Subtree(x) ELSE {x}
  IN  /\ Takes(w, h) /\ h.gone
      /\ row' = Without(R) /\ del' = NotSame(R)
      /\ script' = [s \in Scripts |->
           IF row[x].script = s
           THEN [script[s] EXCEPT !.state = IF @ = "there" THEN "gone" ELSE @]
           ELSE script[s]]
      /\ doubled' = doubled \cup (Unlinked(R) \ {x})
      /\ Step(w, Rest(w, h), {x} \cup R)
      /\ UNCHANGED <<drive, channel, renew, push, lost, stale, handed, steps>>

\* A file outside of the project's folders is not looked at.
SkipFile(w, h) ==
  /\ Takes(w, h) /\ ~h.gone /\ h.id \in Files /\ Context(h.parent) = "none"
  /\ lost' = lost \cup Missed(w, h.id) /\ stale' = stale \cup Missed(w, h.id)
  /\ Step(w, Rest(w, h), {h.id})
  /\ UNCHANGED <<drive, tables, channel, renew, routes, doubled, handed, steps>>

Known(w, h) == Takes(w, h) /\ ~h.gone /\ row[h.id].kind # "none"

\* The row of a known file is written again.
UpdateRow(w, h) ==
  /\ Known(w, h) /\ h.id \in Files /\ Context(h.parent) # "none"
  /\ row' = [row EXCEPT ![h.id].parent = h.parent]
  /\ Step(w, Rest(w, h), {h.id})
  /\ UNCHANGED <<drive, script, channel, renew, routes, ghosts, steps>>

New(w, h) == Takes(w, h) /\ ~h.gone /\ row[h.id].kind = "none"

IndexFile(w, h) ==
  /\ New(w, h) /\ h.id \in Files /\ Context(h.parent) = "assets"
  /\ row' = [row EXCEPT ![h.id] = Indexed(h.parent)]
  /\ Step(w, Rest(w, h), {h.id})
  /\ UNCHANGED <<drive, script, channel, renew, routes, ghosts, steps>>

\* A new script is downloaded first.
PullScript(w, h) ==
  /\ New(w, h) /\ h.id \in Files /\ Context(h.parent) = "scripts"
  /\ doubled' = doubled \cup {p.file : p \in {q \in push : q.file = h.id}}
  /\ Step(w, Awaits(w, h, "download"), {h.id})
  /\ UNCHANGED <<drive, tables, channel, renew, routes, lost, stale, handed, steps>>

\* The download arrives: entry and row are made.
Downloaded(w, s) ==
  /\ work[w].pc = "download" /\ script[s].state = "none"
  /\ \E h \in work[w].at :
       /\ script' = [script EXCEPT ![s] = [state |-> "there", file |-> h.id]]
       /\ row' = [row EXCEPT ![h.id] = [kind |-> "script", parent |-> h.parent, script |-> s]]
       /\ del' = NotSame({h.id})
       /\ Step(w, Rest(w, h), {h.id})
  /\ UNCHANGED <<drive, channel, renew, push, ghosts, steps>>

\* Mutation: a folder with a row is not opened again.
OpenNewFolder(w, h) ==
  /\ Takes(w, h) /\ ~h.gone /\ h.id \in Folders
  /\ Step(w, IF row[h.id].kind # "none" THEN Rest(w, h) ELSE Awaits(w, h, "meta"), {h.id})
  /\ UNCHANGED <<drive, tables, channel, renew, routes, ghosts, steps>>

\* A folder with a row is listed; a new one is looked up first.
OpenFolder(w, h) ==
  /\ Takes(w, h) /\ ~h.gone /\ h.id \in Folders
  /\ Step(w, Awaits(w, h, IF row[h.id].kind # "none" THEN "listing" ELSE "meta"), {h.id})
  /\ UNCHANGED <<drive, tables, channel, renew, routes, ghosts, steps>>

\* The folder as it is now: in the Assets tree it gets a row and is listed.
FolderFound(w) ==
  /\ work[w].pc = "meta"
  /\ \E h \in work[w].at :
       LET x == h.id IN
       IF InTrash(x) \/ Context(place[x]) # "assets"
       THEN Step(w, Rest(w, h), {x}) /\ UNCHANGED <<row, del>>
       ELSE /\ row' = [row EXCEPT ![x] = Indexed(place[x])] /\ del' = NotSame({x})
            /\ Step(w, [work[w] EXCEPT !.pc = "listing"], {x})
  /\ UNCHANGED <<drive, script, channel, renew, push, ghosts, steps>>

FolderListed(w) ==
  /\ work[w].pc = "listing"
  /\ \E h \in work[w].at :
       Step(w, [Rest(w, h) EXCEPT !.todo = @ \cup {Seen(x) : x \in Children(h.id) \cap Files}], {h.id})
  /\ UNCHANGED <<drive, tables, channel, renew, routes, ghosts, steps>>

\* A lookup, a listing or a download fails: the item is left out, and the reader goes on.
\* A deletion that throws (moving the local file, the database) is not modelled: it would end a
\* delta, whose other changes are then left to nobody, as after a crash.
ItemFails(w) ==
  /\ work[w].pc \in {"meta", "listing", "download"}
  /\ \E h \in work[w].at :
       /\ lost' = lost \cup Missed(w, h.id) /\ stale' = stale \cup Missed(w, h.id)
       /\ Step(w, [Rest(w, h) EXCEPT !.flawed = TRUE], {h.id})
  /\ UNCHANGED <<drive, tables, channel, renew, routes, doubled, handed, steps>>
-----------------------------------------------------------------------------
(* The watch channel *)

\* A channel that expires, or is replaced by an administrator, is deleted first.
DropChannel ==
  /\ Counts
  /\ channel # {}
  /\ channel' = {}
  /\ Step("delta", [work["delta"] EXCEPT !.mine = (@ /\ work["delta"].pc # "asking")], {})
  /\ UNCHANGED <<drive, tables, renew, routes, ghosts>>

\* The start token of the new channel, fetched before the channel is watched.  One renewal at
\* a time: an administrator's that crosses the timer's, which nothing prevents, is left out.
FetchToken ==
  /\ channel = {} /\ renew = {}
  /\ renew' = {Len(log)}
  /\ UNCHANGED <<drive, tables, channel, work, routes, ghosts, steps>>

\* The channel is stored; what changed since the last token of the old one is nobody's.
Registered ==
  /\ renew # {}
  /\ channel' = renew /\ renew' = {}
  /\ \E n \in renew :
       /\ handed' = n
       /\ lost' = lost \cup About(ChangedIn(handed, n)) /\ stale' = stale \cup About(ChangedIn(handed, n))
  /\ UNCHANGED <<drive, tables, work, routes, doubled, steps>>

RenewalFails ==
  /\ renew # {}
  /\ renew' = {}
  /\ UNCHANGED <<drive, tables, channel, work, routes, ghosts, steps>>

-----------------------------------------------------------------------------
(* Scripts and assets in LPOS *)

\* A script is uploaded to LPOS and pushed to Drive.
AddScript(s) ==
  /\ Counts
  /\ script[s].state = "none"
  /\ script' = [script EXCEPT ![s] = [state |-> "there", file |-> NoFile]]
  /\ push' = push \cup {[script |-> s, file |-> NoFile]}
  /\ UNCHANGED <<drive, row, channel, work, renew, del, ghosts>>

\* Drive makes a file; an upload whose answer was an error is sent again and makes another.
PushArrives(p, x) ==
  /\ p \in push /\ x \in Files /\ place[x] = "none"
  /\ Changes(x, "scripts", trashed)
  /\ push' = (push \ {p}) \cup {[p EXCEPT !.file = x]}
  /\ UNCHANGED <<tables, channel, renew, del, ghosts, steps>>

\* The answer: the script learns its file, and the file's row names the script.
PushAnswered(p) ==
  LET x == p.file IN
  /\ p \in push /\ x # NoFile
  /\ push' = push \ {p} /\ del' = NotSame({x})
  /\ script' = [script EXCEPT ![p.script].file = IF script[p.script].state = "there" THEN x ELSE @]
  /\ row' = [row EXCEPT ![x] = [NoRow EXCEPT !.kind = "script", !.script = p.script]]
  /\ stale' = IF InTrash(x) \/ place[x] # "scripts" THEN stale \cup {x} ELSE stale
  /\ Step("push", Resting, {x})
  /\ UNCHANGED <<drive, channel, renew, lost, doubled, handed, steps>>

PushFails(p) ==
  /\ p \in push
  /\ push' = push \ {p}
  /\ UNCHANGED <<drive, tables, channel, work, renew, del, ghosts, steps>>

\* A script without a copy in Drive is deleted at once.
DeleteUnlinked(s) ==
  /\ Counts
  /\ script[s].state = "there" /\ script[s].file = NoFile
  /\ script' = [script EXCEPT ![s].state = "gone"]
  /\ UNCHANGED <<drive, row, channel, work, renew, routes, ghosts>>

\* Only the entry is deleted: the files stay, here and in Drive.
ForgetScript(s) ==
  /\ Counts
  /\ script[s].state = "there"
  /\ script' = [script EXCEPT ![s].state = "forgotten"]
  /\ UNCHANGED <<drive, row, channel, work, renew, routes, ghosts>>

\* Otherwise the copy in Drive is put in the trash first.
Trash(x) ==
  IF x \in trashed THEN UNCHANGED <<drive, work>> ELSE Changes(x, place[x], trashed \cup {x})

TrashScript(s) ==
  /\ Counts
  /\ script[s].state = "there" /\ script[s].file # NoFile
  /\ Trash(script[s].file)
  /\ del' = del \cup {[id |-> script[s].file, script |-> s, same |-> TRUE]}
  /\ UNCHANGED <<tables, channel, renew, push, ghosts>>

DropScript(e) ==
  LET R == {x \in Items : row[x].script = e.script} IN
  /\ e \in del /\ e.script # NoScript
  /\ script' = [script EXCEPT ![e.script] =
       IF @.state = "there" THEN [@ EXCEPT !.state = "gone"] ELSE @]
  /\ row' = Without(R)
  /\ del' = del \ {e}
  /\ lost' = lost \cup {x \in R : ~InTrash(x)}
  /\ Step("route", Resting, R)
  /\ UNCHANGED <<drive, channel, renew, push, stale, doubled, handed, steps>>

TrashAsset(x) ==
  /\ Counts
  /\ row[x].kind = "asset"
  /\ Trash(x)
  /\ del' = del \cup {[id |-> x, script |-> NoScript, same |-> TRUE]}
  /\ UNCHANGED <<tables, channel, renew, push, ghosts>>

DropAsset(e) ==
  LET R == IF e.same THEN Subtree(e.id) ELSE Subtree(e.id) \ {e.id} IN
  /\ e \in del /\ e.script = NoScript
  /\ row' = Without(R)
  /\ del' = NotSame(R) \ {e, [e EXCEPT !.same = FALSE]}
  /\ lost' = lost \cup {x \in R : ~InTrash(x)} /\ doubled' = doubled \cup Unlinked(R)
  /\ Step("route", Resting, R)
  /\ UNCHANGED <<drive, script, channel, renew, push, stale, handed, steps>>

-----------------------------------------------------------------------------
(* The server dies *)

Dies ==
  LET left == {h.id : h \in work["delta"].todo \cup work["delta"].at}
      S == About(left) \cup work["project"].dirty
  IN  /\ Counts
      /\ work' = [w \in Readers |-> Resting]
      /\ push' = {} /\ del' = {} /\ renew' = {}
      /\ lost' = lost \cup S /\ stale' = stale \cup S

Crash ==
  /\ Dies
  /\ UNCHANGED <<drive, tables, channel, doubled, handed>>

\* Between the registry, which has the script, and the row.
CrashInPull(w, s) ==
  /\ work[w].pc = "download" /\ script[s].state = "none"
  /\ Dies
  /\ \E h \in work[w].at :
       /\ script' = [script EXCEPT ![s] = [state |-> "there", file |-> h.id]]
       /\ doubled' = doubled \cup {h.id}
  /\ UNCHANGED <<drive, row, channel, handed>>

-----------------------------------------------------------------------------
DriveUser == \E x \in Items :
  \/ \E p \in Roots \cup Folders : UserPuts(x, p)
  \/ UserTrashes(x)
  \/ UserRestores(x)

Read(w) ==
  \/ RootListed(w) \/ ReaderFails(w) \/ Finish(w)
  \/ \E h \in work[w].todo :
       DropRow(w, h) \/ SkipFile(w, h) \/ UpdateRow(w, h) \/ IndexFile(w, h) \/ PullScript(w, h) \/ OpenFolder(w, h)
  \/ \E s \in Scripts : Downloaded(w, s)
  \/ FolderFound(w) \/ FolderListed(w) \/ ItemFails(w)

Reading ==
  \/ StartDelta \/ Delta \/ StartProject \/ Prune
  \/ \E k \in {"assets", "scripts"} : StartScan(k)
  \/ \E h \in work["project"].todo : Collect(h)
  \/ \E w \in Readers : Read(w)

Renewal == DropChannel \/ FetchToken \/ Registered \/ RenewalFails

Route ==
  \/ \E s \in Scripts : AddScript(s) \/ DeleteUnlinked(s) \/ ForgetScript(s) \/ TrashScript(s)
  \/ \E p \in push : PushAnswered(p) \/ PushFails(p) \/ \E x \in Files : PushArrives(p, x)
  \/ \E e \in del : DropScript(e) \/ DropAsset(e)
  \/ \E x \in Items : TrashAsset(x)

Next ==
  \/ DriveUser \/ Reading \/ Renewal \/ Route
  \/ Crash \/ \E w \in Readers, s \in Scripts : CrashInPull(w, s)

Spec == Init /\ [][Next]_vars

-----------------------------------------------------------------------------
(* Properties *)

Places == Roots \cup Folders \cup {"none"}
Handles == [id : Items \cup {"assets"}, parent : Places, gone : BOOLEAN]

TypeOK ==
  /\ place \in [Items -> Places] /\ trashed \subseteq Items /\ log \in Seq(Items)
  /\ row \in [Items -> [kind : {"none", "asset", "script"}, parent : Places, script : Scripts \cup {NoScript}]]
  /\ script \in [Scripts -> [state : {"none", "there", "gone", "forgotten"}, file : Files \cup {NoFile}]]
  /\ channel \subseteq Nat /\ renew \subseteq Nat
  /\ work \in [Readers -> [kind : {"idle", "delta", "assets", "scripts", "project"},
                            pc : {"idle", "asking", "collecting", "loop", "meta", "listing", "download"},
                            todo : SUBSET Handles, at : SUBSET Handles, from : Nat, mine : BOOLEAN,
                            live : SUBSET Items, flawed : BOOLEAN, dirty : SUBSET Items]]
  /\ push \subseteq [script : Scripts, file : Files \cup {NoFile}]
  /\ del \subseteq [id : Items, script : Scripts \cup {NoScript}, same : BOOLEAN]
  /\ lost \subseteq Items /\ stale \subseteq Items /\ doubled \subseteq Files
  /\ handed \in Nat /\ steps \in Nat

\* x has no change under way: none in the feed past the token, none with a delta, a scan
\* of the project, a push or a deletion.
AtRest(x) ==
  /\ \E t \in channel : {x, place[x]} \cap ChangedIn(t, Len(log)) = {}
  /\ work["delta"].kind = "idle" /\ work["project"].kind = "idle"
  /\ \A p \in push : p.file # x
  /\ \A e \in del : e.id \notin {x, place[x]}

InTree(x) ==
  /\ ~InTrash(x)
  /\ \/ place[x] \in {"assets", "scripts"}
     \/ place[x] \in Folders /\ place[place[x]] = "assets"

\* What is in the project's folders is in the table once its changes are handled, whatever
\* scans run beside them, and a scan finds what a crash, a failed request or a renewal made
\* the feed miss.
InTreeIsIndexed ==
  \A x \in Items : AtRest(x) /\ InTree(x) /\ {x, place[x]} \cap lost = {} => row[x].kind # "none"

\* What is in the trash, by itself or with its folder, is not in the table once that is
\* handled: no scan puts back for good what it was shown before.
TrashedIsDropped ==
  \A x \in Items : AtRest(x) /\ InTrash(x) /\ {x, place[x]} \cap stale = {} => row[x].kind = "none"

\* A file in Drive is one script in LPOS, though feed and scans both bring it: unless it was
\* pulled before the answer to the push that made it, a crash cut a pull in half, or its row
\* went with that of a folder.
OneScriptPerFile ==
  \A x \in Files \ doubled : \A s, t \in Scripts :
    script[s].state = "there" /\ script[s].file = x /\ script[t].state = "there" /\ script[t].file = x => s = t
=============================================================================
