----------------------------- MODULE ColdStorage -----------------------------
(***************************************************************************)
(* Cold storage of raw footage: B2MediaSyncService, which reconciles the    *)
(* source directories, a bucket and the table b2_cold_storage_objects, and  *)
(* the administrators' approvals (single, by prefix and in bulk) and spares.*)
(*                                                                         *)
(* An action is a segment of one call between awaits; a request to the      *)
(* bucket takes effect there in one step and is answered in a later one.    *)
(* Files, sizes and the bucket's current versions are kept; of the versions *)
(* a purge has listed only the current one is told apart.                   *)
(*                                                                         *)
(* Definitions marked "Mutation" are wrong on purpose and used nowhere: the *)
(* properties are shown to fail when one replaces the definition after it. *)
(***************************************************************************)
EXTENDS Naturals

CONSTANTS
  Keys,       \* object keys, one per file of the source directories
  DirOf,      \* key -> its source directory
  Sizes,      \* sizes of a file; 0 is a file or an object that is not there
  RetainDays, \* retainDays of the configuration
  AuditDays,  \* days a deleted row is kept (90)
  MaxTime     \* bound: runs and days

ASSUME ColdStorageAssumption ==
  /\ Sizes \subseteq Nat \ {0}
  /\ RetainDays \in Nat /\ AuditDays \in Nat /\ MaxTime \in Nat

VARIABLES
  source,          \* the files: key -> size
  bucket,          \* the bucket: key -> size of the current version
  rows,            \* b2_cold_storage_objects: key -> row
  now,             \* the time; no two runs start at the same one
  run,             \* the call of runSync
  cancelRequested,
  purges,          \* calls of deleteOne and deletePrefix in progress
  bulk,            \* keys runApproveAll has still to delete; its guard is "running"
  purgedAt,        \* history: when a purge last took an object out of the bucket
  steady           \* history: keys whose file is there since the run began

store == <<source, bucket, rows, now>>
vars == <<source, bucket, rows, now, run, cancelRequested, purges, bulk,
          purgedAt, steady>>

Dirs == {DirOf[k] : k \in Keys}
Purgers == {"admin", "bulk"}

\* Times start at 1: in seen 0 is the epoch, in missing and deleted it is NULL.
RowType == [tracked : BOOLEAN, uploaded : Nat, seen : Nat, missing : Nat, deleted : Nat]
Untracked == [tracked |-> FALSE, uploaded |-> 0, seen |-> 0, missing |-> 0, deleted |-> 0]

RunPcs == {"idle", "list", "listed", "collect", "upload", "put"}
RunType == [pc : RunPcs, start : Nat, objects : [Keys -> Sizes \cup {0}],
            dirs : SUBSET Dirs, dir : SUBSET Dirs, todo : SUBSET Keys,
            uploading : SUBSET Keys, size : Sizes \cup {0}, clean : BOOLEAN]
NoObjects == [k \in Keys |-> 0]
NoRun == [pc |-> "idle", start |-> 0, objects |-> NoObjects, dirs |-> {}, dir |-> {},
          todo |-> {}, uploading |-> {}, size |-> 0, clean |-> TRUE]

PurgeType == [pc : {"idle", "ask", "listed", "deleted"}, one : BOOLEAN, keys : SUBSET Keys,
              hit : SUBSET Keys, current : SUBSET Keys, refused : SUBSET Keys,
              went : SUBSET Keys]
NoPurge == [pc |-> "idle", one |-> TRUE, keys |-> {}, hit |-> {}, current |-> {},
            refused |-> {}, went |-> {}]

TypeOK ==
  /\ source \in [Keys -> Sizes \cup {0}]
  /\ bucket \in [Keys -> Sizes \cup {0}]
  /\ rows \in [Keys -> RowType]
  /\ now \in Nat \ {0}
  /\ run \in RunType
  /\ cancelRequested \in BOOLEAN
  /\ purges \in [Purgers -> PurgeType]
  /\ bulk \subseteq Keys
  /\ purgedAt \in [Keys -> Nat]
  /\ steady \subseteq Keys

-----------------------------------------------------------------------------
(* b2-cold-storage-store and the service's own statements, as functions of the table. *)

Active(row) == row.tracked /\ row.deleted = 0

\* Mutation: a file that came back keeps its missing_since.
SeenKeepsMissing(row, t) ==
  [row EXCEPT !.tracked = TRUE, !.uploaded = IF row.tracked THEN @ ELSE t,
              !.seen = t, !.deleted = 0]

\* upsertSeen
Seen(row, t) ==
  [tracked |-> TRUE, uploaded |-> IF row.tracked THEN row.uploaded ELSE t,
   seen |-> t, missing |-> 0, deleted |-> 0]

SeenAll(S, t) == [k \in Keys |-> IF k \in S THEN Seen(rows[k], t) ELSE rows[k]]

\* bootstrapUntracked: INSERT OR IGNORE, last seen at the epoch
Bootstrapped(row, t) ==
  IF row.tracked THEN row ELSE [Untracked EXCEPT !.tracked = TRUE, !.uploaded = t]

\* Mutation: rows seen by this very run are stamped as well (<= for <).
StampedToo(row, t) ==
  IF Active(row) /\ row.missing = 0 /\ row.seen <= t THEN [row EXCEPT !.missing = t] ELSE row

\* markMissingNotSeenSince
Stamped(row, t) ==
  IF Active(row) /\ row.missing = 0 /\ row.seen < t THEN [row EXCEPT !.missing = t] ELSE row

\* pruneAudit
Pruned(row, t) == IF row.deleted # 0 /\ row.deleted + AuditDays < t THEN Untracked ELSE row

\* markDeleted: an UPDATE
Deleted(row, t) == IF row.tracked THEN [row EXCEPT !.deleted = t] ELSE row

\* listQueuedForDeletion
AwaitsReview(row, t) == Active(row) /\ row.missing # 0 /\ row.missing + RetainDays <= t

-----------------------------------------------------------------------------
(* runSync *)

Begin ==
  /\ run.pc = "idle" /\ now < MaxTime
  /\ now' = now + 1
  /\ run' = [NoRun EXCEPT !.pc = "list", !.start = now + 1, !.dirs = Dirs]
  /\ cancelRequested' = FALSE
  /\ steady' = {k \in Keys : source[k] # 0}
  /\ UNCHANGED <<source, bucket, rows, purges, bulk, purgedAt>>

\* Mutation: a cancelled run returns before isRunning is reset.
FinishUnlessCancelled(table, cancelled) ==
  /\ rows' = IF cancelled THEN table
             ELSE [k \in Keys |-> Pruned(Stamped(table[k], run.start), run.start)]
  /\ run' = IF cancelled THEN [run EXCEPT !.pc = "returned"] ELSE NoRun
  /\ UNCHANGED cancelRequested

\* Steps 4 to 6, which a cancelled run skips, and the end of the run.  That the database
\* throws in them, which would leave isRunning set, is not modelled.
Finish(table, cancelled) ==
  /\ rows' = IF cancelled THEN table
             ELSE [k \in Keys |-> Pruned(Stamped(table[k], run.start), run.start)]
  /\ run' = NoRun
  /\ cancelRequested' = FALSE

\* Files the loop passes without an await: stat fails, or the listing has that size.
Quiet(r) == {k \in r.todo : source[k] = 0 \/ r.objects[k] = source[k]}

\* The loops over directories and files up to the next await.
Proceed(r, seen) ==
  LET leave == cancelRequested /\ (r.todo # {} \/ r.dirs # {})
  IN \/ /\ leave
        /\ Finish(SeenAll(seen, r.start), TRUE)
     \/ /\ ~leave
        /\ \E V \in SUBSET Quiet(r), k \in r.todo \ Quiet(r) :
             /\ rows' = SeenAll(seen \cup {v \in V : source[v] # 0}, r.start)
             /\ run' = [r EXCEPT !.pc = "upload", !.todo = @ \ (V \cup {k}),
                                 !.uploading = {k}, !.size = source[k]]
        /\ UNCHANGED cancelRequested
     \/ /\ ~leave /\ r.todo = Quiet(r) /\ r.dirs # {}
        /\ rows' = SeenAll(seen \cup {v \in r.todo : source[v] # 0}, r.start)
        /\ \E d \in r.dirs :
             run' = [r EXCEPT !.pc = "collect", !.todo = {}, !.dirs = @ \ {d}, !.dir = {d},
                              !.uploading = {}, !.size = 0]
        /\ UNCHANGED cancelRequested
     \/ /\ ~leave /\ r.todo = Quiet(r) /\ r.dirs = {}
        /\ Finish(SeenAll(seen \cup {v \in r.todo : source[v] # 0}, r.start), FALSE)

Elsewhere == UNCHANGED <<source, now, purges, bulk, purgedAt, steady>>

\* The bucket reads its objects (the listing's pages, taken as one).
ListRead ==
  /\ run.pc = "list"
  /\ run' = [run EXCEPT !.pc = "listed", !.objects = bucket]
  /\ UNCHANGED <<store, cancelRequested, purges, bulk, purgedAt, steady>>

\* The listing arrives: untracked objects get a row, then the walk begins.
ListAnswered ==
  /\ run.pc = "listed"
  /\ LET leave == cancelRequested /\ run.dirs # {}
         table == [k \in Keys |-> IF run.objects[k] # 0 THEN Bootstrapped(rows[k], run.start)
                                  ELSE rows[k]]
     IN \/ leave /\ Finish(table, TRUE)
        \/ /\ ~leave
           /\ rows' = table
           /\ \E d \in run.dirs :
                run' = [run EXCEPT !.pc = "collect", !.dirs = @ \ {d}, !.dir = {d}]
           /\ UNCHANGED cancelRequested
  /\ UNCHANGED bucket /\ Elsewhere

\* The fatal catch: the run goes on to its last steps.
ListFails ==
  /\ run.pc \in {"list", "listed"}
  /\ Finish(rows, FALSE)
  /\ UNCHANGED bucket /\ Elsewhere

Found == {k \in Keys : DirOf[k] \in run.dir /\ source[k] # 0}

\* collectFiles of a directory
Collected ==
  /\ run.pc = "collect"
  /\ Proceed([run EXCEPT !.dir = {}, !.todo = Found], {})
  /\ UNCHANGED bucket /\ Elsewhere

\* A readdir fails (an unmounted drive): what is below it is left out.
CollectedLess ==
  /\ run.pc = "collect"
  /\ \E F \in SUBSET Found \ {Found} :
       Proceed([run EXCEPT !.dir = {}, !.todo = F, !.clean = FALSE], {})
  /\ UNCHANGED bucket /\ Elsewhere

\* The object is in place; a purge that listed versions before did not list this one.
PutApplied ==
  /\ run.pc = "upload"
  /\ \E k \in run.uploading :
       /\ \E size \in {run.size, source[k]} \ {0} : bucket' = [bucket EXCEPT ![k] = size]
       /\ purges' = [p \in Purgers |-> [purges[p] EXCEPT !.current = @ \ {k}]]
  /\ run' = [run EXCEPT !.pc = "put"]
  /\ UNCHANGED <<source, rows, now, cancelRequested, bulk, purgedAt, steady>>

PutAnswered ==
  /\ run.pc = "put"
  /\ Proceed([run EXCEPT !.uploading = {}, !.size = 0], run.uploading)
  /\ UNCHANGED bucket /\ Elsewhere

\* Mutation: the row is written before the upload is known to have worked.
PutFailsAsSeen ==
  /\ run.pc \in {"upload", "put"}
  /\ Proceed([run EXCEPT !.uploading = {}, !.size = 0, !.clean = FALSE], run.uploading)
  /\ UNCHANGED bucket /\ Elsewhere

\* upload.done() rejects: aborted by a cancel, or an error; the object may be there.
PutFails ==
  /\ run.pc \in {"upload", "put"}
  /\ \/ cancelRequested /\ Finish(rows, TRUE)
     \/ /\ ~cancelRequested
        /\ Proceed([run EXCEPT !.uploading = {}, !.size = 0, !.clean = FALSE], {})
  /\ UNCHANGED bucket /\ Elsewhere

\* cancelCurrentRun
Cancel ==
  /\ run.pc # "idle" /\ ~cancelRequested
  /\ cancelRequested' = TRUE
  /\ UNCHANGED <<store, run, purges, bulk, purgedAt, steady>>

-----------------------------------------------------------------------------
(* Approvals and spares. *)

Review == {k \in Keys : AwaitsReview(rows[k], now)}

Asking(K, one) == [NoPurge EXCEPT !.pc = "ask", !.one = one, !.keys = K]

Others == UNCHANGED <<source, now, run, cancelRequested, steady>>

\* DELETE objects?key=, from the review list or from the browser of the bucket
DeleteOne(k) ==
  /\ purges["admin"].pc = "idle"
  /\ purges' = [purges EXCEPT !["admin"] = Asking({k}, TRUE)]
  /\ UNCHANGED <<bucket, rows, bulk, purgedAt>> /\ Others

\* DELETE objects?prefix=
DeletePrefix(d) ==
  /\ purges["admin"].pc = "idle"
  /\ purges' = [purges EXCEPT !["admin"] = Asking({k \in Keys : DirOf[k] = d}, FALSE)]
  /\ UNCHANGED <<bucket, rows, bulk, purgedAt>> /\ Others

\* startApproveAll: the review list as it is now, one key after the other.
ApproveAll ==
  /\ bulk = {} /\ purges["bulk"].pc = "idle" /\ Review # {}
  /\ \E k \in Review :
       /\ bulk' = Review \ {k}
       /\ purges' = [purges EXCEPT !["bulk"] = Asking({k}, TRUE)]
  /\ UNCHANGED <<bucket, rows, purgedAt>> /\ Others

\* ListObjectVersions: the keys that have versions; current says whose current one
\* is among them.
VersionsListed(p) ==
  /\ purges[p].pc = "ask"
  /\ LET K == {k \in purges[p].keys : bucket[k] # 0}
     IN purges' = [purges EXCEPT ![p].pc = "listed", ![p].hit = K, ![p].current = K]
  /\ UNCHANGED <<bucket, rows, bulk, purgedAt>> /\ Others

\* DeleteObjects refuses versions of the keys in R; the keys in W lose a version, those
\* in G the current one.
VersionsDeleted(p) ==
  /\ purges[p].pc = "listed"
  /\ \E R, W \in SUBSET purges[p].hit, G \in SUBSET purges[p].current :
       /\ purges[p].hit \ R \subseteq W
       /\ purges[p].current \ R \subseteq G /\ G \subseteq W
       /\ bucket' = [k \in Keys |-> IF k \in G THEN 0 ELSE bucket[k]]
       /\ purgedAt' = [k \in Keys |-> IF k \in G THEN now ELSE purgedAt[k]]
       /\ purges' = [q \in Purgers |->
            IF q = p
            THEN [purges[p] EXCEPT !.pc = "deleted", !.current = {}, !.refused = R, !.went = W]
            ELSE [purges[q] EXCEPT !.current = @ \ G]]
  /\ UNCHANGED <<rows, bulk>> /\ Others

\* A call of the bulk run has ended, one way or the other: its next key.
Ended(p) ==
  \/ /\ p = "bulk" /\ bulk # {}
     /\ \E k \in bulk :
          /\ bulk' = bulk \ {k}
          /\ purges' = [purges EXCEPT ![p] = Asking({k}, TRUE)]
  \/ /\ p # "bulk" \/ bulk = {}
     /\ purges' = [purges EXCEPT ![p] = NoPurge]
     /\ UNCHANGED bulk

\* deleteOne stamps its key even if it had no version, but not if one was refused;
\* deletePrefix stamps the keys that lost a version (with the time of its call, which
\* only pruneAudit could tell from the time of the stamp).
StampedBy(purge) ==
  IF ~purge.one THEN purge.went
  ELSE IF purge.refused = {} THEN purge.keys ELSE {}

Purged(p) ==
  /\ purges[p].pc = "deleted"
  /\ rows' = [k \in Keys |-> IF k \in StampedBy(purges[p]) THEN Deleted(rows[k], now) ELSE rows[k]]
  /\ Ended(p)
  /\ UNCHANGED <<bucket, purgedAt>> /\ Others

\* A request fails, before or after it took effect.
PurgeThrows(p) ==
  /\ purges[p].pc # "idle"
  /\ Ended(p)
  /\ UNCHANGED <<bucket, rows, purgedAt>> /\ Others

\* spareObject
Spare(k) ==
  /\ Active(rows[k]) /\ rows[k].missing # 0
  /\ rows' = [rows EXCEPT ![k].missing = 0]
  /\ UNCHANGED <<bucket, purges, bulk, purgedAt>> /\ Others

-----------------------------------------------------------------------------
(* The world. *)

FileChanges(k) ==
  /\ \E size \in (Sizes \cup {0}) \ {source[k]} :
       /\ source' = [source EXCEPT ![k] = size]
       /\ steady' = IF size = 0 THEN steady \ {k} ELSE steady
  /\ UNCHANGED <<bucket, rows, now, run, cancelRequested, purges, bulk, purgedAt>>

Day ==
  /\ now < MaxTime /\ now' = now + 1
  /\ UNCHANGED <<source, bucket, rows, run, cancelRequested, purges, bulk,
                 purgedAt, steady>>

\* The process dies; the table, the status file and the bucket stay.
Restart ==
  /\ run.pc # "idle" \/ \E p \in Purgers : purges[p].pc # "idle"
  /\ run' = NoRun /\ cancelRequested' = FALSE
  /\ purges' = [p \in Purgers |-> NoPurge] /\ bulk' = {}
  /\ UNCHANGED <<store, purgedAt, steady>>

-----------------------------------------------------------------------------

Init ==
  /\ source \in [Keys -> Sizes \cup {0}]
  /\ bucket = NoObjects /\ rows = [k \in Keys |-> Untracked] /\ now = 1
  /\ run = NoRun /\ cancelRequested = FALSE
  /\ purges = [p \in Purgers |-> NoPurge] /\ bulk = {}
  /\ purgedAt = NoObjects /\ steady = {}

RunStep ==
  ListRead \/ ListAnswered \/ ListFails \/ Collected \/ CollectedLess
    \/ PutApplied \/ PutAnswered \/ PutFails

PurgeStep(p) == VersionsListed(p) \/ VersionsDeleted(p) \/ Purged(p) \/ PurgeThrows(p)

Next ==
  \/ Begin \/ RunStep \/ Cancel \/ ApproveAll \/ Day \/ Restart
  \/ \E k \in Keys : DeleteOne(k) \/ Spare(k) \/ FileChanges(k)
  \/ \E d \in Dirs : DeletePrefix(d)
  \/ \E p \in Purgers : PurgeStep(p)

Spec == Init /\ [][Next]_vars

\* Requests to the bucket and reads of a directory settle.
FairSpec == Spec /\ WF_vars(RunStep)

-----------------------------------------------------------------------------
(* Properties *)

Later(s, t) == IF s >= t THEN s ELSE t

\* What the table counts as stored is in the bucket, unless it was purged after the
\* run that last saw it, or that found it untracked, began.
StoredUnlessPurged ==
  \A k \in Keys : Active(rows[k]) =>
    bucket[k] # 0 \/ purgedAt[k] >= Later(rows[k].seen, rows[k].uploaded)

\* An object that awaits review was seen by no run of the whole retention time.
ReviewIsOld ==
  \A k \in Review : rows[k].seen + RetainDays < now

\* A run in which nothing failed comes to its last steps.
CleanEnd == (Collected \/ PutAnswered) /\ run.clean /\ run'.pc = "idle"

Missing(row) == Active(row) /\ row.missing # 0

\* A run in which nothing failed reports no file as missing that was there all along.
CleanRunStampsAbsent ==
  [][CleanEnd =>
       \A k \in steady : Missing(rows'[k]) => Missing(rows[k])]_vars

\* Every run ends, so that the guard against a second one lets the next night's run in.
RunEnds == run.pc # "idle" ~> run.pc = "idle"
=============================================================================
