----------------------------- MODULE ChunkedUpload -----------------------------
(***************************************************************************)
(* The chunked upload of a media file and the ingest queue beside it: the  *)
(* create / PATCH / finalize / confirm / DELETE routes, the shared         *)
(* finalization code, the ingest job rows, the sweeps and boot recovery.   *)
(*                                                                         *)
(* The server is one Node process.  A handler runs without interruption    *)
(* from one await on real I/O to the next, so each action below is such a  *)
(* segment of a handler; what the handler knows across an await is kept in *)
(* req[r].  A file system read takes effect in the segment that continues  *)
(* after it.  A crash drops every handler and the in-memory set of         *)
(* cancelled jobs; database rows and files stay.                           *)
(*                                                                         *)
(* Definitions marked "Mutation" are wrong on purpose and used nowhere: the *)
(* properties are shown to fail when one replaces the definition after it. *)
(***************************************************************************)
EXTENDS Naturals, Sequences

CONSTANTS
  Jobs,         \* ingest job ids
  Uploads,      \* upload session ids, each with its own temp file
  Reqs,         \* slots for handlers that are in flight at the same time
  NoJob, NoUpload,
  FileSize,     \* size of every file, in chunks
  KeyOf,        \* job -> normalised file name (normalizeAssetKey)
  BaseOf,       \* normalised name -> the name without its version suffix
  ContentOf,    \* job -> the bytes of the file the client holds
  BatchOf,      \* job -> the reserve call that created it
  MaxRestarts   \* bound: crashes of the server explored

ASSUME UploadAssumption ==
  /\ FileSize \in Nat \ {0}
  /\ NoUpload \notin Uploads
  /\ NoJob \notin Jobs
  /\ MaxRestarts \in Nat
  /\ KeyOf \in [Jobs -> DOMAIN BaseOf]

VARIABLES
  jobStatus,    \* ingest_jobs.status; "none" before add, "purged" once deleted
  jobTemp,      \* ingest_jobs.temp_path: the session whose temp file it names
  jobStable,    \* ingest_jobs.stable_path: the asset whose file it names; 0 = unset
  jobAsset,     \* ingest_jobs.asset_id; 0 = unset
  cancelledIds, \* IngestQueueService.cancelledIds, in memory only
  session,      \* the upload_sessions rows
  temp,         \* temp files on disk
  written,      \* chunks at the front of a temp file that hold the client's bytes
  lib,          \* media_files rows of the canonical asset store, oldest first
  stable,       \* the stable files on disk: whose bytes each asset's file has
  req,          \* handlers suspended at an await
  recovery,     \* recoverOnBoot suspended at an await
  running,      \* FALSE after a crash in the middle of a segment, until the restart
  restarts,
  refused,      \* ghost: sessions whose row could not be inserted
  torn          \* ghost: assets whose upload died between its job's stable path and asset id

jobVars  == <<jobStatus, jobTemp, jobStable, jobAsset>>
fileVars == <<temp, written, refused>>
libVars  == <<lib, stable, torn>>
bootVars == <<recovery, running, restarts>>
vars == <<jobVars, cancelledIds, session, fileVars, libVars, req, bootVars>>

JobStatuses == {"none", "queued", "ingesting", "awaiting_confirmation",
                "done", "failed", "cancelled", "purged"}
SessionStatuses == {"none", "uploading", "awaiting_confirmation",
                    "finalized", "cancelled", "purged"}

NoSession == [status |-> "none", job |-> NoJob, received |-> 0, replace |-> 0]
Idle == [pc |-> "idle", via |-> "none", u |-> NoUpload, j |-> NoJob,
         off |-> 0, target |-> 0]
NoRow == [job |-> NoJob, asset |-> 0, stable |-> 0, temp |-> NoUpload]
NotRecovering == [todo |-> {}, pc |-> "idle", row |-> NoRow, u |-> NoUpload]

------------------------------------------------------------------------------
(* The ingest queue's status updates, as functions of the row's status.    *)

HasRow(st) == st \notin {"none", "purged"}

\* Mutation: fail() leaves every status alone that setProgress leaves alone.
FailedIfActive(st) == IF st \in {"queued", "ingesting"} THEN "failed" ELSE st

Progressed(st) == IF st \in {"queued", "ingesting"} THEN "ingesting" ELSE st
Failed(st)     == IF st \in {"none", "purged", "done", "cancelled"} THEN st ELSE "failed"
Awaiting(st)   == IF st \in {"none", "purged", "done", "cancelled"} THEN st
                  ELSE "awaiting_confirmation"
Completed(st)  == IF HasRow(st) THEN "done" ELSE st
Cancelled(st)  == IF HasRow(st) THEN "cancelled" ELSE st

Becomes(j, Status(_)) == jobStatus' = [jobStatus EXCEPT ![j] = Status(@)]
IsCancelled(j) == j \in cancelledIds \/ jobStatus[j] = "cancelled"
SessionBecomes(u, st) == session' = [session EXCEPT ![u].status = st]
UploadingSessions(j) ==
  {u \in Uploads : session[u].status = "uploading" /\ session[u].job = j}

------------------------------------------------------------------------------
(* The canonical asset store, as far as finalization uses it.  An asset is  *)
(* named by the index of its first row in lib.                              *)

AssetIds == {lib[i].asset : i \in DOMAIN lib}
RowsOf(a) == {i \in DOMAIN lib : lib[i].asset = a}
Last(S) == CHOOSE i \in S : \A k \in S : k <= i
LatestRow(a) == Last(RowsOf(a))                                 \* any status
CurrentRow(a) == Last({i \in RowsOf(a) : ~lib[i].dup})          \* non-duplicate

\* The bytes of a temp file; two complete files are equal iff their clients' are.
HashOf(u) == [bytes |-> ContentOf[session[u].job], size |-> written[u]]

Named(a, Matches(_)) ==
  Matches(lib[a].key) \/ Matches(lib[CurrentRow(a)].key)
ByKey(k) == {a \in AssetIds : Named(a, LAMBDA x : x = k)}
ByBase(k) == IF BaseOf[k] = k THEN {}
             ELSE {a \in AssetIds : Named(a, LAMBDA x : BaseOf[x] = BaseOf[k])}

IsExactHashMatch(a, h) == a \in AssetIds /\ lib[CurrentRow(a)].hash = h

\* What findCanonicalVersionCandidate says of a finished upload.
VersionCandidate(u) ==
  LET k == KeyOf[session[u].job]
  IN  IF ByKey(k) # {}
      THEN IF IsExactHashMatch(Last(ByKey(k)), HashOf(u)) THEN "duplicate" ELSE "version"
      ELSE IF ByBase(k) # {} THEN "version" ELSE "none"

\* Mutation: the row is written with the stable path before the rename.
RegisterAsStable(u, a) ==
  lib' = Append(lib,
    [asset |-> IF a = 0 THEN Len(lib) + 1 ELSE a,
     key   |-> KeyOf[session[u].job],
     hash  |-> HashOf(u),
     src   |-> u,
     at    |-> "stable",
     dup   |-> a # 0 /\ lib[LatestRow(a)].hash = HashOf(u)])

\* registerCanonicalMediaAsset: a new version of asset a, or a new asset when a = 0.
Register(u, a) ==
  lib' = Append(lib,
    [asset |-> IF a = 0 THEN Len(lib) + 1 ELSE a,
     key   |-> KeyOf[session[u].job],
     hash  |-> HashOf(u),
     src   |-> u,
     at    |-> "temp",
     dup   |-> a # 0 /\ lib[LatestRow(a)].hash = HashOf(u)])

------------------------------------------------------------------------------
Free(r) == running /\ req[r] = Idle
At(r, pcs) == running /\ req[r].pc \in pcs

Init ==
  /\ jobStatus = [j \in Jobs |-> "none"]
  /\ jobTemp = [j \in Jobs |-> NoUpload]
  /\ jobStable = [j \in Jobs |-> 0]
  /\ jobAsset = [j \in Jobs |-> 0]
  /\ cancelledIds = {}
  /\ session = [u \in Uploads |-> NoSession]
  /\ temp = {}
  /\ written = [u \in Uploads |-> 0]
  /\ lib = <<>>
  /\ stable = {}
  /\ req = [r \in Reqs |-> Idle]
  /\ recovery = NotRecovering
  /\ running = TRUE
  /\ restarts = 0
  /\ refused = {}
  /\ torn = {}

Reserve(b) ==
  LET js == {j \in Jobs : BatchOf[j] = b}
  IN  /\ running
      /\ \A j \in js : jobStatus[j] = "none"
      /\ jobStatus' = [j \in Jobs |-> IF j \in js THEN "queued" ELSE jobStatus[j]]
      /\ UNCHANGED <<jobTemp, jobStable, jobAsset, cancelledIds, session, fileVars, libVars, req, bootVars>>

------------------------------------------------------------------------------
(* POST /media/upload *)

NoUploadInProgress(j) == UploadingSessions(j) = {}

\* Ids no session and no file has had: randomUUID gives one of them.
FreshUploads == {u \in Uploads \ temp : session[u] = NoSession /\ \A q \in Reqs : req[q].u # u}

\* Checks done, the empty temp file is created; suspended on the open.
CreateBegin(r, j, a) ==
  /\ Free(r)
  /\ ~IsCancelled(j)
  /\ NoUploadInProgress(j)
  /\ FreshUploads # {}
  /\ LET u == CHOOSE u \in FreshUploads : TRUE IN
       /\ temp' = temp \cup {u}
       /\ req' = [req EXCEPT ![r] =
            [Idle EXCEPT !.pc = "create", !.u = u, !.j = j, !.target = a]]
  /\ UNCHANGED <<jobVars, cancelledIds, session, written, refused, libVars, bootVars>>

\* The session row is inserted and the job learns its temp path.  The insert
\* needs the job's row (a foreign key).
CreateInsert(r) ==
  LET q == req[r]
  IN  /\ At(r, {"create"})
      /\ HasRow(jobStatus[q.j])
      /\ session' = [session EXCEPT ![q.u] =
           [status |-> "uploading", job |-> q.j, received |-> 0, replace |-> q.target]]
      /\ jobTemp' = [jobTemp EXCEPT ![q.j] = q.u]
      /\ req' = [req EXCEPT ![r] = Idle]
      /\ UNCHANGED <<jobStatus, jobStable, jobAsset, cancelledIds, fileVars, libVars, bootVars>>

\* The insert throws, because the job has no row or the database refuses it: the
\* call ends with an error and nobody unlinks the file it made.
InsertRefused(r) ==
  /\ At(r, {"create"})
  /\ refused' = refused \cup {req[r].u}
  /\ req' = [req EXCEPT ![r] = Idle]
  /\ UNCHANGED <<jobVars, cancelledIds, session, temp, written, libVars, bootVars>>

------------------------------------------------------------------------------
(* PATCH /media/upload/[uploadId] *)

\* Mutation: the Upload-Offset header is taken as it comes.
AnyOffset(u, off) == off \in Nat

OffsetMatches(u, off) == off = session[u].received

ChunkBegin(r, u, off) ==
  /\ Free(r)
  /\ session[u].status = "uploading"
  /\ OffsetMatches(u, off)
  /\ ~IsCancelled(session[u].job)
  /\ u \in temp      \* else the write fails and nothing changes
  /\ req' = [req EXCEPT ![r] = [Idle EXCEPT !.pc = "write", !.u = u, !.off = off]]
  /\ UNCHANGED <<jobVars, cancelledIds, session, fileVars, libVars, bootVars>>

ChunkCancelled(u) ==
  /\ running
  /\ session[u].status = "uploading"
  /\ IsCancelled(session[u].job)
  /\ SessionBecomes(u, "cancelled")
  /\ temp' = temp \ {u}
  /\ UNCHANGED <<jobVars, cancelledIds, written, refused, libVars, req, bootVars>>

\* A PATCH carries one chunk, or nothing when the file has no more.
EndOf(off) == IF off < FileSize THEN off + 1 ELSE off

\* The write stream finished.  If the file was unlinked after the stream had
\* opened it the write still succeeds, into a file that has no name any more.
ChunkWritten(r) ==
  LET q == req[r]
  IN  /\ At(r, {"write"})
      /\ written' = IF q.u \in temp /\ q.off = written[q.u]
                    THEN [written EXCEPT ![q.u] = EndOf(q.off)] ELSE written
      /\ session' = [session EXCEPT ![q.u].received = EndOf(q.off)]
      /\ Becomes(session[q.u].job, Progressed)
      /\ req' = [req EXCEPT ![r] = Idle]
      /\ UNCHANGED <<jobTemp, jobStable, jobAsset, cancelledIds, temp, refused, libVars, bootVars>>

\* The client's connection or the drive failed: an error reply, no update.
ChunkFailed(r) ==
  /\ At(r, {"write"})
  /\ req' = [req EXCEPT ![r] = Idle]
  /\ UNCHANGED <<jobVars, cancelledIds, session, fileVars, libVars, bootVars>>

\* Mutation: DELETE forgets the temp file.
AbortKeepsTemp(u) ==
  /\ running
  /\ session[u].status \notin {"none", "purged", "finalized"}
  /\ SessionBecomes(u, "cancelled")
  /\ cancelledIds' = cancelledIds \cup {session[u].job}
  /\ Becomes(session[u].job, Cancelled)
  /\ UNCHANGED <<jobTemp, jobStable, jobAsset, fileVars, libVars, req, bootVars>>

(* DELETE /media/upload/[uploadId] *)
AbortUpload(u) ==
  /\ running
  /\ session[u].status \notin {"none", "purged", "finalized"}
  /\ temp' = temp \ {u}
  /\ SessionBecomes(u, "cancelled")
  /\ cancelledIds' = cancelledIds \cup {session[u].job}
  /\ Becomes(session[u].job, Cancelled)
  /\ UNCHANGED <<jobTemp, jobStable, jobAsset, written, refused, libVars, req, bootVars>>

(* The tray's 'cancel' event, or the pipeline tracker's. *)
CancelJob(j) ==
  /\ running
  /\ HasRow(jobStatus[j])
  /\ cancelledIds' = cancelledIds \cup {j}
  /\ Becomes(j, Cancelled)
  /\ UNCHANGED <<jobTemp, jobStable, jobAsset, session, fileVars, libVars, req, bootVars>>

------------------------------------------------------------------------------
(* POST .../finalize and POST .../confirm; both run finalizeUploadedAsset. *)

\* Mutation: off by one chunk.
NearlyReceived(u) == session[u].received >= FileSize - 1

FullyReceived(u) == session[u].received = FileSize

FinalizeBegin(r, u) ==
  /\ Free(r)
  /\ session[u].status = "uploading"
  /\ FullyReceived(u)
  /\ ~IsCancelled(session[u].job)
  /\ Becomes(session[u].job, Progressed)
  /\ req' = [req EXCEPT ![r] =
       [Idle EXCEPT !.pc = IF u \in temp THEN "hash" ELSE "unreadable",
                    !.via = "finalize", !.u = u, !.target = session[u].replace]]
  /\ UNCHANGED <<jobTemp, jobStable, jobAsset, cancelledIds, session, fileVars, libVars, bootVars>>

\* The project is gone or its storage volume is not mounted: an error reply.
FinalizeUnavailable(u) ==
  /\ running
  /\ session[u].status = "uploading"
  /\ FullyReceived(u)
  /\ ~IsCancelled(session[u].job)
  /\ Becomes(session[u].job, Progressed)
  /\ UNCHANGED <<jobTemp, jobStable, jobAsset, cancelledIds, session, fileVars, libVars, req, bootVars>>

FinalizeCancelled(u) ==
  /\ running
  /\ session[u].status = "uploading"
  /\ FullyReceived(u)
  /\ IsCancelled(session[u].job)
  /\ temp' = temp \ {u}
  /\ SessionBecomes(u, "cancelled")
  /\ cancelledIds' = cancelledIds \cup {session[u].job}
  /\ Becomes(session[u].job, Cancelled)
  /\ UNCHANGED <<jobTemp, jobStable, jobAsset, written, refused, libVars, req, bootVars>>

\* The client names the asset the upload is a version of; 0 is "Upload as
\* separate asset" (forceNewAsset).
ConfirmBegin(r, u, a) ==
  /\ Free(r)
  /\ session[u].status = "awaiting_confirmation"
  /\ req' = [req EXCEPT ![r] =
       [Idle EXCEPT !.pc = "access", !.via = "confirm", !.u = u, !.target = a]]
  /\ UNCHANGED <<jobVars, cancelledIds, session, fileVars, libVars, bootVars>>

ConfirmMissing(r) ==
  LET q == req[r]
  IN  /\ At(r, {"access"})
      /\ q.u \notin temp
      /\ SessionBecomes(q.u, "cancelled")
      /\ Becomes(session[q.u].job, Failed)
      /\ req' = [req EXCEPT ![r] = Idle]
      /\ UNCHANGED <<jobTemp, jobStable, jobAsset, cancelledIds, fileVars, libVars, bootVars>>

ConfirmProceed(r) ==
  /\ At(r, {"access"})
  /\ req[r].u \in temp
  /\ Becomes(session[req[r].u].job, Progressed)
  /\ req' = [req EXCEPT ![r].pc = "hash"]
  /\ UNCHANGED <<jobTemp, jobStable, jobAsset, cancelledIds, session, fileVars, libVars, bootVars>>

ConfirmUnavailable(r) ==
  /\ At(r, {"access"})
  /\ req[r].u \in temp
  /\ req' = [req EXCEPT ![r] = Idle]
  /\ UNCHANGED <<jobVars, cancelledIds, session, fileVars, libVars, bootVars>>

\* hashFile rejected: the temp file is gone or cannot be read.
HashFailed(r) ==
  /\ At(r, {"hash", "unreadable"})
  /\ Becomes(session[req[r].u].job, Failed)
  /\ req' = [req EXCEPT ![r] = Idle]
  /\ UNCHANGED <<jobTemp, jobStable, jobAsset, cancelledIds, session, fileVars, libVars, bootVars>>

\* What finalizeUploadedAsset decides once the hash is known.
Outcome(q) ==
  IF q.target # 0
  THEN IF IsExactHashMatch(q.target, HashOf(q.u)) THEN "duplicate" ELSE "none"
  ELSE IF q.via = "confirm" THEN "none" ELSE VersionCandidate(q.u)

\* A hash that began before the file was unlinked still completes.
HashedDuplicate(r) ==
  LET q == req[r]
  IN  /\ At(r, {"hash"})
      /\ Outcome(q) = "duplicate"
      /\ temp' = temp \ {q.u}
      /\ \/ /\ q.via = "finalize"
            /\ SessionBecomes(q.u, "cancelled")
            /\ Becomes(session[q.u].job, Failed)
         \/ /\ q.via = "confirm"
            /\ SessionBecomes(q.u, "finalized")
            /\ Becomes(session[q.u].job, Completed)
      /\ req' = [req EXCEPT ![r] = Idle]
      /\ UNCHANGED <<jobTemp, jobStable, jobAsset, cancelledIds, written, refused, libVars, bootVars>>

HashedVersion(r) ==
  LET q == req[r]
  IN  /\ At(r, {"hash"})
      /\ Outcome(q) = "version"
      /\ SessionBecomes(q.u, "awaiting_confirmation")
      /\ Becomes(session[q.u].job, Awaiting)
      /\ req' = [req EXCEPT ![r] = Idle]
      /\ UNCHANGED <<jobTemp, jobStable, jobAsset, cancelledIds, fileVars, libVars, bootVars>>

\* Mutation: the job is completed before its asset is registered.
HashedCompletesEarly(r) ==
  /\ At(r, {"hash"})
  /\ Outcome(req[r]) = "none"
  /\ Becomes(session[req[r].u].job, Completed)
  /\ req' = [req EXCEPT ![r].pc = "stat"]
  /\ UNCHANGED <<jobTemp, jobStable, jobAsset, cancelledIds, session, fileVars, libVars, bootVars>>

HashedNew(r) ==
  /\ At(r, {"hash"})
  /\ Outcome(req[r]) = "none"
  /\ req' = [req EXCEPT ![r].pc = "stat"]
  /\ UNCHANGED <<jobVars, cancelledIds, session, fileVars, libVars, bootVars>>

\* stat succeeded: the asset row is written while the file still has its temp name.
RegisterAsset(r) ==
  LET q == req[r]
  IN  /\ At(r, {"stat"})
      /\ q.u \in temp
      /\ Register(q.u, q.target)
      /\ req' = [req EXCEPT ![r].pc = "rename", ![r].target = lib'[Len(lib')].asset]
      /\ UNCHANGED <<jobVars, cancelledIds, session, fileVars, stable, torn, bootVars>>

\* Mutation: the move does not replace a file that is already there.
RenameUnlessExists(r) ==
  LET q == req[r]
  IN  /\ At(r, {"rename"})
      /\ q.u \in temp
      /\ temp' = temp \ {q.u}
      /\ stable' = IF \E s \in stable : s.asset = q.target THEN stable
                   ELSE stable \cup {[asset |-> q.target, src |-> q.u]}
      /\ req' = [req EXCEPT ![r].pc = "commit"]
      /\ UNCHANGED <<jobVars, cancelledIds, session, written, refused, lib, torn, bootVars>>

\* rename(temp, stable) takes effect on disk; the handler has not resumed yet.
RenameFile(r) ==
  LET q == req[r]
  IN  /\ At(r, {"rename"})
      /\ q.u \in temp
      /\ temp' = temp \ {q.u}
      /\ stable' = {s \in stable : s.asset # q.target} \cup {[asset |-> q.target, src |-> q.u]}
      /\ req' = [req EXCEPT ![r].pc = "commit"]
      /\ UNCHANGED <<jobVars, cancelledIds, session, written, refused, lib, torn, bootVars>>

\* stat or rename threw: the catch block fails the job and removes the temp file.
FinalizeThrows(r) ==
  LET q == req[r]
  IN  /\ At(r, {"stat", "rename"})
      /\ Becomes(session[q.u].job, Failed)
      /\ temp' = temp \ {q.u}
      /\ req' = [req EXCEPT ![r] = Idle]
      /\ UNCHANGED <<jobTemp, jobStable, jobAsset, cancelledIds, session, written, refused, libVars, bootVars>>

\* After the rename: setStablePath, setAssetId, patchAsset (which updates the
\* asset's latest row), complete, and the route's own session update.
CommitUpload(r) ==
  LET q == req[r]
  IN  /\ At(r, {"commit"})
      /\ jobStable' = [jobStable EXCEPT ![session[q.u].job] = q.target]
      /\ jobAsset' = [jobAsset EXCEPT ![session[q.u].job] = q.target]
      /\ lib' = [lib EXCEPT ![LatestRow(q.target)].at = "stable"]
      /\ Becomes(session[q.u].job, Completed)
      /\ SessionBecomes(q.u, "finalized")
      /\ req' = [req EXCEPT ![r] = Idle]
      /\ UNCHANGED <<jobTemp, cancelledIds, fileVars, stable, torn, bootVars>>

------------------------------------------------------------------------------
(* The timers: the two-minute sweeps and the pipeline tracker's tick.  What *)
(* is stale is a matter of time, so any candidate may be.                   *)

\* Mutation: the sweep cancels the session and leaves its job as it was.
SweepKeepsJob(u) ==
  /\ running
  /\ session[u].status \in {"uploading", "awaiting_confirmation"}
  /\ temp' = temp \ {u}
  /\ SessionBecomes(u, "cancelled")
  /\ UNCHANGED <<jobVars, cancelledIds, written, refused, libVars, req, bootVars>>

SweepUploadSession(u) ==
  /\ running
  /\ session[u].status \in {"uploading", "awaiting_confirmation"}
  /\ temp' = temp \ {u}
  /\ SessionBecomes(u, "cancelled")
  /\ Becomes(session[u].job, Failed)
  /\ UNCHANGED <<jobTemp, jobStable, jobAsset, cancelledIds, written, refused, libVars, req, bootVars>>

SweepQueuedJob(j) ==
  /\ running
  /\ jobStatus[j] = "queued"
  /\ \A k \in Jobs : BatchOf[k] = BatchOf[j] => jobTemp[k] = NoUpload
  /\ jobStatus' = [jobStatus EXCEPT ![j] = "failed"]
  /\ UNCHANGED <<jobTemp, jobStable, jobAsset, cancelledIds, session, fileVars, libVars, req, bootVars>>

\* PipelineTrackerService.tick auto-fails a started ingest that shows no activity.
TrackerFail(j) ==
  /\ running
  /\ jobStatus[j] = "ingesting"
  /\ Becomes(j, Failed)
  /\ UNCHANGED <<jobTemp, jobStable, jobAsset, cancelledIds, session, fileVars, libVars, req, bootVars>>

------------------------------------------------------------------------------
(* Crash, restart, and recoverOnBoot, which runs beside the first requests. *)

Terminal == {"done", "failed", "cancelled"}

\* The server dies and starts again.  start() reads the incomplete jobs and
\* purges jobs that ended long ago (the set P) before any request is served.
Restart(P) ==
  /\ restarts < MaxRestarts
  /\ P \subseteq {j \in Jobs : jobStatus[j] \in Terminal}
  /\ restarts' = restarts + 1
  /\ running' = TRUE
  /\ req' = [r \in Reqs |-> Idle]
  /\ cancelledIds' = {}
  /\ jobStatus' = [j \in Jobs |-> IF j \in P THEN "purged" ELSE jobStatus[j]]
  /\ jobTemp' = [j \in Jobs |-> IF j \in P THEN NoUpload ELSE jobTemp[j]]
  /\ session' = [u \in Uploads |->
       IF session[u].job \in P THEN [session[u] EXCEPT !.status = "purged"] ELSE session[u]]
  /\ recovery' = [NotRecovering EXCEPT !.todo =
       {[job |-> j, asset |-> jobAsset[j], stable |-> jobStable[j], temp |-> jobTemp[j]] :
          j \in {k \in Jobs : jobStatus[k] \in {"queued", "ingesting"}}}]
  /\ UNCHANGED <<jobStable, jobAsset, fileVars, libVars>>

\* A kill does not wait for the end of a segment: it can fall between two of
\* its statements.  These are the segments that write more than one row.
Crash ==
  /\ restarts < MaxRestarts
  /\ running' = FALSE
  /\ UNCHANGED <<cancelledIds, req, recovery, restarts>>

CrashInCreate(r) ==
  /\ Crash
  /\ At(r, {"create"})
  /\ HasRow(jobStatus[req[r].j])
  /\ session' = [session EXCEPT ![req[r].u] =
       [status |-> "uploading", job |-> req[r].j, received |-> 0, replace |-> req[r].target]]
  /\ UNCHANGED <<jobVars, fileVars, libVars>>

CrashInVersion(r) ==
  /\ Crash
  /\ At(r, {"hash"})
  /\ Outcome(req[r]) = "version"
  /\ SessionBecomes(req[r].u, "awaiting_confirmation")
  /\ UNCHANGED <<jobVars, fileVars, libVars>>

CrashInSweep(u) ==
  /\ Crash
  /\ running
  /\ session[u].status \in {"uploading", "awaiting_confirmation"}
  /\ temp' = temp \ {u}
  /\ SessionBecomes(u, "cancelled")
  /\ UNCHANGED <<jobVars, written, refused, libVars>>

\* Mutation: the asset row is patched before the job learns its asset id.
CrashInSwappedCommit(r, n) ==
  LET q == req[r]
      j == session[q.u].job
  IN  /\ Crash
      /\ At(r, {"commit"})
      /\ jobStable' = [jobStable EXCEPT ![j] = q.target]
      /\ lib' = IF n >= 2 THEN [lib EXCEPT ![LatestRow(q.target)].at = "stable"] ELSE lib
      /\ jobAsset' = IF n >= 3 THEN [jobAsset EXCEPT ![j] = q.target] ELSE jobAsset
      /\ jobStatus' = IF n >= 4 THEN [jobStatus EXCEPT ![j] = Completed(@)] ELSE jobStatus
      /\ torn' = IF n = 1 THEN torn \cup {q.target} ELSE torn
      /\ UNCHANGED <<jobTemp, session, fileVars, stable>>

\* The first n of setStablePath, setAssetId, patchAsset and complete were done.
CrashInCommit(r, n) ==
  LET q == req[r]
      j == session[q.u].job
  IN  /\ Crash
      /\ At(r, {"commit"})
      /\ jobStable' = [jobStable EXCEPT ![j] = q.target]
      /\ jobAsset' = IF n >= 2 THEN [jobAsset EXCEPT ![j] = q.target] ELSE jobAsset
      /\ lib' = IF n >= 3 THEN [lib EXCEPT ![LatestRow(q.target)].at = "stable"] ELSE lib
      /\ jobStatus' = IF n >= 4 THEN [jobStatus EXCEPT ![j] = Completed(@)] ELSE jobStatus
      /\ torn' = IF n = 1 THEN torn \cup {q.target} ELSE torn
      /\ UNCHANGED <<jobTemp, session, fileVars, stable>>

CrashMidway ==
  \/ \E r \in Reqs : CrashInCreate(r) \/ CrashInVersion(r)
  \/ \E u \in Uploads : CrashInSweep(u)
  \/ \E r \in Reqs, n \in 1 .. 4 : CrashInCommit(r, n)

RowDone(row, st) ==
  /\ jobStatus' = [jobStatus EXCEPT ![row.job] = st]
  /\ recovery' = [recovery EXCEPT !.todo = @ \ {row}, !.pc = "idle", !.row = NoRow, !.u = NoUpload]

\* The clean-up of a row that cannot be resumed: unlink the temp file it names, then
\* the stable file if it has no asset, awaiting each, then mark the job failed.
CleanUpStable(row) ==
  IF row.stable # 0 /\ row.asset = 0
  THEN /\ recovery' = [recovery EXCEPT !.pc = "unlinkStable", !.row = row, !.u = NoUpload]
       /\ UNCHANGED jobStatus
  ELSE RowDone(row, "failed")

CleanUp(row) ==
  IF row.temp = NoUpload
  THEN CleanUpStable(row)
  ELSE /\ recovery' = [recovery EXCEPT !.pc = "unlink", !.row = row, !.u = NoUpload]
       /\ UNCHANGED jobStatus

LookUpSession(row) ==
  IF UploadingSessions(row.job) = {}
  THEN CleanUp(row)
  ELSE /\ \E u \in UploadingSessions(row.job) :
            recovery' = [recovery EXCEPT !.pc = "temp", !.row = row, !.u = u]
       /\ UNCHANGED jobStatus

RecoverRow(row) ==
  /\ running
  /\ recovery.pc = "idle"
  /\ row \in recovery.todo
  /\ IF row.asset # 0 /\ row.stable # 0
     THEN /\ recovery' = [recovery EXCEPT !.pc = "stable", !.row = row]
          /\ UNCHANGED jobStatus
     ELSE LookUpSession(row)
  /\ UNCHANGED <<jobTemp, jobStable, jobAsset, cancelledIds, session, fileVars, libVars, req, running, restarts>>

RecoverStable ==
  /\ running
  /\ recovery.pc = "stable"
  /\ IF \E s \in stable : s.asset = recovery.row.asset
     THEN RowDone(recovery.row, "done")
     ELSE LookUpSession(recovery.row)
  /\ UNCHANGED <<jobTemp, jobStable, jobAsset, cancelledIds, session, fileVars, libVars, req, running, restarts>>

\* Mutation: an upload whose bytes are all there is taken for a finished one.
RecoverTempAsDone ==
  /\ running
  /\ recovery.pc = "temp"
  /\ IF recovery.u \in temp
     THEN /\ RowDone(recovery.row, IF FullyReceived(recovery.u) THEN "done" ELSE "queued")
          /\ UNCHANGED session
     ELSE /\ SessionBecomes(recovery.u, "cancelled")
          /\ CleanUp(recovery.row)
  /\ UNCHANGED <<jobTemp, jobStable, jobAsset, cancelledIds, fileVars, libVars, req, running, restarts>>

RecoverTemp ==
  /\ running
  /\ recovery.pc = "temp"
  /\ IF recovery.u \in temp
     THEN /\ RowDone(recovery.row, "queued")
          /\ UNCHANGED session
     ELSE /\ SessionBecomes(recovery.u, "cancelled")
          /\ CleanUp(recovery.row)
  /\ UNCHANGED <<jobTemp, jobStable, jobAsset, cancelledIds, fileVars, libVars, req, running, restarts>>

RecoverUnlinkTemp ==
  /\ running
  /\ recovery.pc = "unlink"
  /\ temp' = temp \ {recovery.row.temp}
  /\ CleanUpStable(recovery.row)
  /\ UNCHANGED <<jobTemp, jobStable, jobAsset, cancelledIds, session, written, refused, libVars, req, running, restarts>>

RecoverUnlinkStable ==
  /\ running
  /\ recovery.pc = "unlinkStable"
  /\ stable' = {s \in stable : s.asset # recovery.row.stable}
  /\ RowDone(recovery.row, "failed")
  /\ UNCHANGED <<jobTemp, jobStable, jobAsset, cancelledIds, session, fileVars, lib, torn, req, running, restarts>>

------------------------------------------------------------------------------
ClientStep ==
  \/ \E b \in {BatchOf[j] : j \in Jobs} : Reserve(b)
  \/ \E r \in Reqs, j \in Jobs, a \in AssetIds \cup {0} : CreateBegin(r, j, a)
  \/ \E r \in Reqs, u \in Uploads, off \in 0 .. FileSize : ChunkBegin(r, u, off)
  \/ \E r \in Reqs, u \in Uploads : FinalizeBegin(r, u)
  \/ \E r \in Reqs, u \in Uploads, a \in AssetIds \cup {0} : ConfirmBegin(r, u, a)
  \/ \E u \in Uploads : ChunkCancelled(u) \/ FinalizeUnavailable(u)
                        \/ FinalizeCancelled(u) \/ AbortUpload(u)
  \/ \E j \in Jobs : CancelJob(j)

Resume(r) ==
  \/ CreateInsert(r) \/ InsertRefused(r)
  \/ ChunkWritten(r) \/ ChunkFailed(r)
  \/ ConfirmMissing(r) \/ ConfirmProceed(r) \/ ConfirmUnavailable(r)
  \/ HashFailed(r) \/ HashedDuplicate(r) \/ HashedVersion(r) \/ HashedNew(r)
  \/ RegisterAsset(r) \/ RenameFile(r) \/ FinalizeThrows(r) \/ CommitUpload(r)

Sweep ==
  \/ \E u \in Uploads : SweepUploadSession(u)
  \/ \E j \in Jobs : SweepQueuedJob(j)

Recover ==
  \/ \E row \in recovery.todo : RecoverRow(row)
  \/ RecoverStable \/ RecoverTemp \/ RecoverUnlinkTemp \/ RecoverUnlinkStable

Next ==
  \/ ClientStep
  \/ \E r \in Reqs : Resume(r)
  \/ Sweep
  \/ \E j \in Jobs : TrackerFail(j)
  \/ Recover
  \/ CrashMidway
  \/ \E P \in SUBSET Jobs : Restart(P)

Spec == Init /\ [][Next]_vars

\* Promises settle, the sweep timer keeps firing and recovery runs to its end;
\* clients, cancels, crashes and the tracker promise nothing.
Fairness ==
  /\ \A r \in Reqs : WF_vars(Resume(r))
  /\ WF_vars(Sweep) /\ WF_vars(Recover)

FairSpec == Spec /\ Fairness

------------------------------------------------------------------------------
(* Properties *)

RequestType ==
  [pc : {"idle", "create", "write", "access", "hash", "unreadable", "stat", "rename", "commit"},
   via : {"none", "finalize", "confirm"},
   u : Uploads \cup {NoUpload}, j : Jobs \cup {NoJob}, off : Nat, target : Nat]

SessionType == [status : SessionStatuses, job : Jobs \cup {NoJob}, received : Nat, replace : Nat]

VersionType ==
  [asset : Nat, key : DOMAIN BaseOf, at : {"temp", "stable"}, dup : BOOLEAN, src : Uploads,
   hash : [bytes : {ContentOf[j] : j \in Jobs}, size : Nat]]

RowType == [job : Jobs \cup {NoJob}, asset : Nat, stable : Nat, temp : Uploads \cup {NoUpload}]

RecoveryType ==
  [todo : SUBSET RowType, pc : {"idle", "stable", "temp", "unlink", "unlinkStable"}, row : RowType,
   u : Uploads \cup {NoUpload}]

\* Every variable keeps its shape, whatever handlers, sweeps and restarts do.
TypeOK ==
  /\ jobStatus \in [Jobs -> JobStatuses]
  /\ jobTemp \in [Jobs -> Uploads \cup {NoUpload}]
  /\ jobStable \in [Jobs -> Nat]
  /\ jobAsset \in [Jobs -> Nat]
  /\ cancelledIds \subseteq Jobs
  /\ session \in [Uploads -> SessionType]
  /\ temp \subseteq Uploads
  /\ written \in [Uploads -> Nat]
  /\ lib \in Seq(VersionType)
  /\ stable \subseteq [asset : Nat, src : Uploads]
  /\ req \in [Reqs -> RequestType]
  /\ recovery \in RecoveryType
  /\ running \in BOOLEAN
  /\ restarts \in Nat
  /\ refused \subseteq Uploads
  /\ torn \subseteq Nat

\* The offset the server acknowledges to a client, and resumes from, never runs
\* ahead of the bytes in the temp file, even with duplicate PATCHes in flight.
AckedBytesOnDisk ==
  \A u \in temp : session[u].status = "uploading" => session[u].received <= written[u]

\* No version in the asset library was made from a partly received file.
OnlyCompleteFiles == \A i \in DOMAIN lib : lib[i].hash.size = FileSize

\* A job shown as done has its client's bytes registered in the library: a
\* complete() never outlives or overtakes the registration it reports.
DoneIsInLibrary ==
  \A j \in Jobs : jobStatus[j] = "done" =>
    \E i \in DOMAIN lib : lib[i].hash.bytes = ContentOf[j]

\* An asset row that names a stable path names a file that exists, whatever sweeps,
\* cancels and failing renames do around it, and also after crashes and while boot
\* recovery deletes beside new uploads what it takes for orphans.  The exception is an
\* asset whose commit died between setStablePath and setAssetId: its file looks like one.
StableFileExists ==
  \A i \in DOMAIN lib : lib[i].at = "stable" =>
    \/ lib[i].asset \in torn
    \/ \E s \in stable : s.asset = lib[i].asset

\* While the server stays up, a job awaiting confirmation has the session that
\* the tray's confirm and decline buttons act on (rowToJob looks it up).
AwaitingHasSession ==
  \A j \in Jobs : jobStatus[j] = "awaiting_confirmation" =>
    \E u \in Uploads : session[u].job = j /\ session[u].status = "awaiting_confirmation"

\* While the server stays up, a temp file on disk belongs to a session a sweep can
\* still expire or to a handler that is working on it: nothing leaks but the empty file
\* of a create call whose insert is refused, which no session will ever name.
NoOrphanTemp ==
  \A u \in temp \ refused :
    \/ session[u].status \in {"uploading", "awaiting_confirmation"}
    \/ \E r \in Reqs : req[r].u = u

FilePresent(i) ==
  IF lib[i].at = "temp" THEN lib[i].src \in temp
  ELSE \E s \in stable : s.asset = lib[i].asset

DuplicateOf(q) == IF q.target # 0 THEN q.target ELSE Last(ByKey(KeyOf[session[q.u].job]))

\* An upload is thrown away as "already matches the current version" only when
\* that version's file is still there.
DuplicateHasFile ==
  [][\A r \in Reqs : \A i \in DOMAIN lib :
       HashedDuplicate(r) /\ i = CurrentRow(DuplicateOf(req[r])) => FilePresent(i)']_vars

\* While one handler at a time runs, the file at an asset's stable path is that of its
\* current version: through failed renames and sweeps, through crashes between the
\* registration, the rename and the commit, and through recovery beside new uploads.
StableHoldsCurrent ==
  \A a \in AssetIds \ torn : lib[CurrentRow(a)].at = "stable" =>
    \E s \in stable : s.asset = a /\ HashOf(s.src) = lib[CurrentRow(a)].hash

\* A reserved job the sweep of queued jobs never takes: it was not started, and a file
\* of the same batch was.
HeldByBatch(j) ==
  /\ jobStatus[j] = "queued"
  /\ jobTemp[j] = NoUpload
  /\ NoUploadInProgress(j)
  /\ \E k \in Jobs : BatchOf[k] = BatchOf[j] /\ jobTemp[k] # NoUpload

\* The jobs come to rest once their clients are gone, also when the server dies in the
\* midst of an upload and boot recovery runs beside the retries: uploads finish, or sweeps
\* and recovery fail them.  Two kinds of job may stay queued for ever: one that was never
\* started in a batch of which another file was, and one whose cancel recovery overtook,
\* for the sweeps leave cancelled ids alone.
JobSettles ==
  []<>(\A j \in Jobs : \/ jobStatus[j] \notin {"queued", "ingesting"}
                       \/ HeldByBatch(j)
                       \/ j \in cancelledIds
                       \/ ~running)
=============================================================================
