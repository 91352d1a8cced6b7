# Verification of LPOS

LPOS is one Node/Next.js process with SQLite databases, a media volume and
several remote services (Google Drive, Frame.io, Cloudflare Stream, Backblaze
B2, the share app, the client ingest database).  This directory holds TLA+
models of the parts in which the *order* of steps decides whether media is
lost, reported wrongly, or left hanging; TLC configurations that check them on
small instances; and TLAPS proofs of the properties that matter most, for every
value of the constants.

How the code runs decides how it is modelled.  JavaScript is never preempted: a
handler runs from one `await` on real input or output to the next without
interruption, and `better-sqlite3` and the `fs.*Sync` calls are synchronous.  So
an action is always *a segment of one call between two awaits*, with everything
it calls, and what a call remembers across an await is part of the state.  A
crash may fall between any two segments and, where two durable effects share a
segment, inside it.

Line references are to `src/`; the mapping of every definition to its lines is
in `PROJECT.json`.

## 1. Inventory

### Modelled

| Component | State | Operations | Interacts with | What is hard | What makes it correct |
|---|---|---|---|---|---|
| **Chunked upload and ingest queue** (`app/api/projects/[projectId]/media/upload/**`, `media-finalization.ts`, `ingest-queue-service.ts`, `ingest-queue-db.ts`, part of `canonical-asset-store.ts`) | `upload_sessions` and `ingest_jobs` rows, cancelled ids in memory, temp files, stable files, asset/version rows | reserve, create, PATCH, finalize, confirm, DELETE, cancel over the socket, sweeps, boot purge, boot recovery | client (resumes, retries, disappears), asset store, file system, pipeline tracker | handlers interleave at every read, write, hash and rename; database and files have no common transaction; crash between them | no acknowledged byte is lost; no partial file enters the library; what is called done is in the library; every started upload ends |
| **Promotion of client files** (`promote/route.ts`, `promotion-queue-service.ts`, `promotion-processor.ts`, `job-record-store.ts`) | jobs Map, job records, set of active jobs, calls of `process` suspended at an await, `drive_assets` rows, processed submissions | add, process, cancel, retry, auto-fail, interrupt at boot | ingest bucket and database, Google Drive, tracker | every change broadcasts and every broadcast starts jobs, re-entrantly; status changes only after the first await | a slot is given back; no queued job is forgotten; done means promoted; memory and record agree |
| **Upload queue** (`upload-queue-service.ts`, `job-record-store.ts`, auto-fail in `pipeline-tracker-service.ts`) | jobs Map, set of cancelled ids, job records, two timers | add, reports, complete, fail, cancel, timeout sweep, tracker tick, interrupt at boot | workers of five providers, users, tracker | the queue does not know its workers: any of them may be late, hung or doubled | a job ends once; nothing brings it back; a worker that stops does so because the job was cancelled; a silent job is failed |
| **Raw-footage cold storage** (`b2-media-sync-service.ts`, `b2-cold-storage-browser.ts`, `cold-storage-approve-all.ts`, `b2-cold-storage-store.ts`) | table of objects, bucket, source directories, state of the nightly run, purges in progress, remaining bulk approval | nightly run, cancel, review list, delete one / by prefix / all approved, spare, 90-day prune | B2, mounted volumes, administrators | a run of hours works from one listing while purges go on; failures of single steps are swallowed | what the table calls stored is in the bucket; nothing comes up for deletion early; a run that met no failure reports no present file as missing |
| **Transcription** (`transcripter-service.ts`, `media-processor.ts`, callbacks in `container.ts`) | jobs Map, active processors and translations, transcripts and metas on disk, the asset's record of its transcript | enqueue (video, Spanish, sidecar), process, timeout, cancel, auto-fail, prune, delete, clear duplicates | child processes, tracker, asset store, users | a timeout, a cancel, a late progress report and the result race; no status is final; two prunes cross | no worker idles; the asset's record tells the truth about its job; a finished transcript stays on disk; every job comes to rest |
| **LP.AI provisioning** (`lpai-provisioning.ts`) | calls in progress, the marker of a reusable transcript | provision one asset or a project; wait; push | the transcription queue's completion callbacks | a call waits for a callback that a cancel never fires (:355) | a marked transcript exists; a waiting call goes on |
| **Media comments and the Frame.io mirror** (`media-comment-store.ts`, `media-comment-mirror.ts`, `frameio-comment-sync.ts`, webhook route) | comment rows, mirror jobs with attempts, the tick in progress | post, edit, complete, delete; tick, defer, ask, record; webhook; pull | Frame.io, whose events and answers come late, twice or never | the same comment comes back by three ways; a job and an edit cross | one copy of each comment; texts and deletions arrive or are on record |
| **Client sharing** (`share-app.ts`, share links) | comments and shares, hashes of pushed content, pull cursor, the tick in progress | pull, apply, acknowledge, push shares, remove, push threads | LP Share, its clients, staff | acknowledgement, cursor and hash are separate effects (:444); what a push overwrites | both sides show the same; nothing acknowledged is lost; a revoked share can be taken down |
| **Google Drive sync** (`drive-watcher-service.ts`, `drive-sync-db.ts`, `drive-sync/adapters/*`, `drive-script-sync.ts`, the routes that delete assets and scripts) | watch channel with its page token, `drive_assets`, scripts registry, the readers suspended at their requests | delta on a nudge, scan of all assets or scripts under the lock, scan of one project beside them, renewal, pull and push of a script, delete | Google Drive and its users, LPOS users | the token is saved before its changes are applied (:170); the unlocked scan prunes with an old set (:242); feed, scan and push bring the same file | at rest the table is what Drive shows: what is in the tree has a row, what is in the trash has none, and a file is one script |

### Not yet modelled, planned (section 6)

| Component | State | Operations and interactions | What is hard |
|---|---|---|---|
| **Cloudflare Stream publishing** (`cloudflare-publish.ts`) | distribution record per asset, retry timers | upload, adopt, wait, replace, retry | await between guard and status (:224) |
| **Merge worker** (`merge-worker.ts`) | `asset_merge_jobs` | scan, conflict, resume, chain | only a success starts the next job (:207) |
| **Canonical asset store, asset moves** | versions, files, distributions; two databases | reconcile, move | no common transaction |
| **Pipeline tracker** | entries and stages rebuilt from the broadcasts of all queues | tick, retry, cancel | re-pointing of jobs; a stage left behind |

### Not modelled

Frame.io, Sardius and LeaderPass clients (request/response; what their jobs
report is covered by `UploadQueue`, where a worker may call anything); slate,
cameras, mixer and lights (the state is in the devices); presence and
presentation (each event is one synchronous handler); tasks, notifications,
prospects, hiring, passes, clients and settings (single-statement updates of
SQLite); the service container, sessions and routes (wiring); backup, volumes
and releases (file copies); search, transcript editing and chat (text processing
with unit tests); the user interface (its calls are the client steps of the
models).  `PROJECT.json` lists them with their sources and reasons.

## 2. Modules

| Module | Role |
|---|---|
| `ChunkedUpload` | upload routes, ingest queue, finalization, recovery |
| `Promotion` | promotion queue and processor |
| `JobLifecycle` | abstract: what a queue with job records promises |
| `UploadQueue` | the upload queue; instances `JobLifecycle` as `Lifecycle` |
| `ColdStorage` | nightly run, table, bucket, approvals |
| `Transcripter` | the transcription queue, its workers, files and pruning, the asset's record |
| `Provisioning` | LP.AI provisioning; extends `Transcripter`, so that the two run together |
| `CommentMirror` | comment rows, mirror queue and worker, Frame.io, webhook and pull |
| `ShareSync` | the tick of the share app, staff's and clients' changes, LP Share |
| `DriveSync` | Drive and its change feed, the watcher with its three readers, the index, the scripts registry and its push, the deletions |
| `MC…` | constants of the small instances |
| `…_proofs` | inductive invariants and theorems |

A definition marked *Mutation* is a deliberately wrong variant of the definition
after it and is used nowhere: every checked property is shown to fail when the
variant takes the place of the original, so no property holds by construction.

### ChunkedUpload

`req[r]` is a handler in flight: the route, the await it is suspended at (`pc`),
its session, job and what it had read.  `ClientStep` starts a handler (create,
PATCH, finalize, confirm, DELETE, socket cancel), `Resume(r)` runs the next
segment of one.

| Code | Model |
|---|---|
| `upload_sessions` rows | `session[u]` (status, job, received, replace) |
| `ingest_jobs` rows | `jobStatus`, `jobTemp`, `jobStable`, `jobAsset` |
| temp file and its bytes | `temp`, `written[u]`: chunks at its front that hold the client's bytes |
| `media_files` rows, versions | `lib`, oldest first: asset, key, hash, the session it came from, temp or stable path, duplicate or not |
| stable files | `stable`: whose bytes each asset's file has |
| `cancelledIds` | `cancelledIds`, lost in a crash |
| `recoverOnBoot` | `recovery`, suspended at its `access` calls and its two `unlink`s, beside new requests |
| the process | `running`: FALSE after `CrashMidway` until `Restart` |

Names are reduced to what `findCanonicalVersionCandidate` tells apart: `KeyOf`
is the normalised name of a job's file, `BaseOf` the name without its version
suffix, `ContentOf` the bytes, standing for the hash.  Files are `FileSize`
chunks.  `CrashMidway` stops the process between two durable effects of one
segment; `Restart(P)` purges the set `P` of old jobs (age is not modelled, so
any ended jobs may be old enough), then runs the boot sequence.  A sweep may end
any session or job its conditions allow at any time: ages are not counted.

### Promotion

`State` is a record of jobs, records, active set and runs; `ProcessNext`,
`Patch`, `End`, `Added` and `Leaves` are functions on it, because one segment often
broadcasts several times and each broadcast may start a job.  A run is one call
of `process(job)`; its `pc` names the await it is suspended at: the ingest
database (`token`), the download, the upload or local write, the UPDATE
(`mark`, `marked`), `setImmediate` (`leaving`).  `jobs[j].at` is the millisecond
`addedAt`, which the newest-first sort compares, ties included.  Chunks of a
download report progress (`Chunk`).  Cancel, retry and the tracker's auto-fail
are `JobStep`s.

### UploadQueue and JobLifecycle

`status` is the jobs Map, `record` the rows of `upload_job_records`, `age` the
minutes since `updatedAt`.  `Call(j)` is any method for any job; `TimeoutSweep`
and `TrackerTick` are the two timers, `Minute` the passing of time, `Restart`
the loss of memory with `markInterrupted`.

`JobLifecycle` has only the promise: a job is submitted; it ends, once, alone or
with others, as done, failed or cancelled, and its record says how; memory may be
lost, after which jobs that were live are interrupted.  `Disown` is the one
liberty the code takes: `cancel` of an id the memory no longer holds writes
the record whatever it said.  The refinement maps a live status to *live*.

### ColdStorage

`run.pc` is the await `runSync` is suspended at: the listing request (`list`,
`listed`), reading a directory (`collect`), an upload before and after B2 has
the object (`upload`, `put`).  `Finish` is everything after the loop:
`markMissingNotSeenSince`, the prune, the status.  A purge (`purges`) asks for
versions, deletes them with refusals, and stamps its rows; `bulk` is what
`runApproveAll` has left of its snapshot.  `now` is a logical time that moves
with each run and each day.

### Transcripter and Provisioning

Job `i` is the `i`-th entry of the jobs Map, so ids are ages.

| Code | Model |
|---|---|
| jobs Map | `job[i]`: asset, purpose (English, Spanish, sidecar), status |
| the call that works on a job, and its child | `call[i]`: `audio` and `whisper` and `words` are the three passes of a `MediaProcessor`, `translate` the request, `meta` the write of `.meta.json` |
| `activeProcessors`, `activeTranslations` | `procs`, `trans` |
| aborted children that have not closed | `killed` |
| `setImmediate(processNext)` not run yet | `wakes` |
| transcript, `.words.json`, `.meta.json`, `completedAt` | `files`, `words`, `metas`, `stamp` |
| a prune, suspended before its listing and at each meta it reads | `listing`, `todo[i]` |
| transcription records of the asset registry | `entry[a][language]` |
| assets deleted, callbacks run | `removed`, `fired` |

`writing_outputs` is set and left in one segment.  `Timeout` ends the call and kills the
child, which may still report (`Progress`) before it closes (`Exit`).  In
`Provisioning` a call `prov[p]` does the assets of its list in turn; a step of the
transcripter that runs the callbacks of a job (`fired'`) is conjoined with `Tell`, which
takes the calls that wait for it to their push.  `marker` is `lpai.turbo.*`.

### CommentMirror

One file on Frame.io.  `row[r]` is a comment: those written in LPOS have their own
names, those the webhook or a pull inserts are named by their Frame.io id.  `jobs` is
the mirror queue, oldest first; `worker` the tick in progress: the batch it took,
the job whose request it sent (`asked`), the answer (`answered`) with the id it
brought.  `remote` is Frame.io, which obeys the request (`Obey`) or not (`Refused`),
is used by others (`GuestStep`), and has `hooks` it may deliver, repeat or lose.
`pulled` is what a pull was answered and has not inserted.  `Tick(D)`: the due times of
jobs that failed before are not counted, any of them may be due.

### ShareSync

`row`, `share`, `hashed`, `shared`, `cursor` are LPOS's tables: comments, share
links, hashes of the pushed threads and shares, the pull cursor.  `thread`,
`page`, `log` and `acked` are LP Share's.  `tick` is `syncShareAppOnce`, with what
it read before each request: `asking`, `got`, `acking`, `acked` (pull), `posting`,
`posted`, `removing`, `removed` (shares), `commenting`, `sending`, `sent`
(threads).  A request arrives in one step and is answered in the next;
`Abandon` ends the tick between any two: the request failed, its answer was
lost, or the process died.

### DriveSync

One project.  Drive is `place` (the folder of each item), `trashed` and `log`, the feed.
`row` is `drive_assets`, `script` the scripts registry, `channel` the stored page
token, `renew` the start token of a registration under way, `push` the scripts on
their way to Drive and `del` the deletions whose trash request was carried out.

| Code | Model |
|---|---|
| `processIncomingChanges` | `work["delta"]`: `StartDelta`, `Delta` stores the new token and takes the changes, then one item at a time |
| `scanAllProjectAssets`, `scanAllProjectScripts` | `work["scan"]`, which excludes the delta (`LockFree`) |
| `scanProjectAssets` | `work["project"]`: `Collect` until all folders are read, `RootListed`, the items, `Prune`; no lock |
| `processFolder`, `processFile` | `OpenFolder`, `FolderFound`, `FolderListed`; `SkipFile`, `UpdateRow`, `IndexFile`, `PullScript` |
| `onDrivePull`, `onDriveDelete` of the adapters | `Downloaded`, `CrashInPull`; `DropRow` |
| renewal | `DropChannel`, `FetchToken`, `Registered`, `RenewalFails` |
| `pushScriptToDrive` | `PushArrives`, `PushAnswered`, `PushFails` |
| the DELETE routes | `TrashScript` or `ForgetScript` or `DeleteUnlinked`, `DropScript`; `TrashAsset`, `DropAsset` |

An item is in `todo` as Drive showed it (`Seen`), whatever became of it since; `at` is
the item whose request is under way.  `from` is the token a delta asked with and `mine`
whether its channel is still the stored one: an update of a deleted channel's token changes nothing.

Five modules have ghost variables, which remember the past for the
properties and guard nothing: in `ChunkedUpload` `refused` and `torn` (sessions whose insert
threw after their temp file was made, assets whose commit died between the stable path and
the asset id of the job); in the last four `overlapped` and `deleted` (jobs of one asset under way
together, transcripts a user deleted), `lost` and `touched` (ids that did not come back,
texts Frame.io changed), `unsure`, `skipped` and `stray` (pushes that went wrong, changes
that could not be applied, shares whose first push had no answer), and in `DriveSync` `lost`
and `stale` (items whose change no reader got to handle: until a scan finds them, or until
the scan of the project does; in `stale` also scripts that keep a row below a folder whose own
was pruned, which the folder's trashing then misses), `doubled` (files pulled although a script had them) and `dirty`
(what was touched while a scan ran).  They make the exceptions
of a property explicit: outside of them it holds without reserve.

## 3. What TLC checks

| Run | Instance | What it shows |
|---|---|---|
| `upload_concurrent` | 2 jobs with one base name and different bytes, 2 sessions, 2 handlers, 2-chunk files, no restart | no acknowledged byte is missing from disk (`AckedBytesOnDisk`); only whole files enter the library (`OnlyCompleteFiles`); temp files end with their sessions (`NoOrphanTemp`); done means in the library (`DoneIsInLibrary`); a job that awaits a confirmation has a session to confirm (`AwaitingHasSession`); a recorded stable path names a file (`StableFileExists`).  But for the file of a create call whose insert was refused |
| `upload_restart` | 2 versions of one asset in one batch, 1 handler, 1 crash at any point, fairness | done survives a crash, with boot recovery running beside new requests (`DoneIsInLibrary`); so does the file of a recorded stable path (`StableFileExists`), which has the current version's bytes (`StableHoldsCurrent`), but for `torn` assets; every started upload ends though its client may vanish and the server crash (`JobSettles`, but for jobs `HeldByBatch` and jobs whose cancel recovery overtook) |
| `promotion_queue` | 2 jobs (Drive and local), 2 slots, 4 calls of `process`, 1 restart | done means a row and a processed submission; an ended job's record says so; a slot is held only for a job some call works on; only a second call for the same job undoes a done |
| `promotion_ends` | 3 jobs, 1 slot, 5 calls, fairness | while a job is queued somebody will look for it (`QueuedHasWaker`); every job ends |
| `queue_lifecycle` | 2 jobs of different providers, real timeouts in minutes, 1 restart, fairness | the queue implements `JobLifecycle`, so memory and records agree; a worker that polls `isCancelled` stops for the cancelled jobs and no others (`CancelledIsMarked`); a job nobody reports on is failed |
| `cold_table` | 1 file, 4 times, purges, spares, failures, cancels, fairness | a row that counts as stored has its object unless a purge took it later (`StoredUnlessPurged`); an object is up for review only after the retention time (`ReviewIsOld`); a run without failure stamps no present file (`CleanRunStampsAbsent`); every run ends (`RunEnds`) |
| `transcripts` | 1 video, 2 workers, 2 jobs, 1 provisioning call, 1 restart | no slot is idle while a job waits (`NoIdleWorker`); the asset's record and the job it names agree (`RecordFollowsJob`); a finished transcript is there (`TranscriptIsThere`), and so is the one provisioning marked for reuse (`CacheHolds`) |
| `transcripts_end` | 1 worker, 2 jobs, fairness | every job comes to rest for good (`TranscriptSettles`); a call of provisioning goes on unless its sidecar was canceled (`ProvisionGoesOn`) |
| `comment_mirror` | 1 comment, 2 texts, 2 comments on Frame.io, 3 jobs, 3 steps of users, 2 attempts, 1 restart | a comment has one copy (`OneCopy`); its text and its deletion arrive or are on record (`ChangesReach`) |
| `share_sync` | 1 share, 1 asset, 1 comment, 2 texts, 2 changes by clients, 3 by staff, any request failing | clients and staff see the same thread (`InSync`); a comment whose creation was acknowledged is in the table (`AckedIsApplied`); what is shown can be taken down (`RevokedIsRemoved`) |
| `drive_sync` | 1 folder, 1 file, 2 scripts, 2 changes in Drive, 3 readings, renewals, requests or crashes | what is in the project's folders is in the index once its changes are handled (`InTreeIsIndexed`), what is in the trash is not (`TrashedIsDropped`), but for `lost` and `stale`; feed, scans and pushes make one script of a file (`OneScriptPerFile`) |
| `lost_duplicate` | 1 job, 1 crash | **violation** |

### Finding

**A resumed upload deletes its only copy** (`lost_duplicate`).
`finalizeUploadedAsset` registers the row under the temp path and renames
afterwards.  After a crash between the two the session is offered again,
finalize finds its own row as an identical version, unlinks the temp file and
answers "already matches".

Behaviour met while modelling that the models follow, and no run reports:

*Uploads and queues*

- `finalize` looks at `isCancelled` once (`finalize/route.ts:52`), before it hashes: a
  cancel during the hash is overwritten by `complete()` and the asset stays, though
  `ingest-queue-service.ts:291` says "route discards the file on finish"; and after a
  restart `recoverOnBoot` may put back in the queue a job whose id is still in the
  cancelled set;
- `processNext` of the promotion looks only at the status, which stays `queued` until
  the first query answers, so the next broadcast starts the same file again;
- two create calls of one job both pass the check and both insert a session
  (`upload/route.ts:85`); and when the insert throws, for a job that was purged or never
  reserved, the empty temp file made before it stays, and no sweep knows of it (`:85-89`):
  the files of `refused` in `NoOrphanTemp`;
- the sweep of reserved jobs skips every job of a batch of which one was started
  (`ingest-queue-service.ts:561`), so a job of such a batch that never starts stays queued
  for good (`HeldByBatch` in `JobSettles`), where `:60-61` says that reserved jobs without an
  upload are "auto-failed so they don't linger";
- recovery unlinks the stable file of a registered asset if the crash fell
  between `stable_path` and `asset_id` (`:491`): the assets of `torn` in `StableFileExists`
  and `StableHoldsCurrent`;
- with two handlers, two versions may be registered in one order and renamed in
  the other (`media-finalization.ts:118`), which is why `StableHoldsCurrent` is
  checked with one;
- the active set forgets a job that runs twice, and the tracker then fails it
  under a live worker (`promotion-processor.ts:49`); `patch` writes over a
  cancel (`promotion-queue-service.ts:170`);
- the tracker cuts a processing job at twice its stall threshold, before the
  queue's own 25 minutes, and the queue's sweep fails jobs that only wait in
  line (`upload-queue-service.ts:176`);

*Cold storage*

- a failed listing, an unreadable directory or a failed upload ends in
  `markMissingNotSeenSince`, which takes what was not visited for missing;
- the bulk approval deletes objects spared after its snapshot
  (`cold-storage-approve-all.ts:103`), and a purge by prefix stamps keys whose
  current version B2 refused to delete (`b2-cold-storage-browser.ts:145`).

*Transcription*

- two jobs of the same asset and language that were under way together prune each other's
  transcript, and both are gone; `clear-duplicates` compares assets and not languages, while
  the prune says it keeps them apart (`transcripter-service.ts:242`);
- after a cancel and then a timeout a late progress report sets a sidecar back to
  `transcribing`, and nothing fails it; the tracker fails a live translation, which has no
  processor, and its result then writes `done` over the failure, or over a cancel;
- a canceled job runs no completion callback (`transcripter-service.ts:109`), so a call of
  provisioning that waits for it hangs;
- the patch of a retry passes a null job id, which keeps the old one
  (`canonical-asset-store.ts:1008`); the files of sidecars outlive their asset.

*Comments*

- when the webhook or a pull inserts the row of a new comment before its answer arrives,
  `setFrameioIdOnComment` throws on the UNIQUE id, where its comment says "duplicate writes
  are a no-op" (`media-comment-store.ts:237`), and the retry posts the comment again;
- a job that is `in_flight` when the process dies is never tried again
  (`media-comment-mirror.ts:63`); a delete passes when the create before it failed, and the
  create lands later; complete, uncomplete and complete in one tick end uncompleted on
  Frame.io, since the third is taken for the first;
- a stale `updated` event writes over a newer text.

*Client sharing*

- a tick that fails after its ack forgets which threads it had to push again; their hash is
  current, so the client keeps seeing the thread as it was before, where the comment says
  "a push that fails after the ack is retried next tick" (`share-app.ts:438`).  The
  same follows when the answer of a push is lost and the thread returns to what was recorded;
- a share whose first push was not answered and that is revoked then is never removed from LP
  Share; a change whose `applyChange` throws is skipped and acknowledged; changes delivered
  again after a lost ack overwrite what staff wrote since; an asset that is in no open share
  when its change is pulled loses its push.

*Google Drive*

- the new page token is stored before its changes are handled, where `getChanges` says "save
  newPageToken back after processing" (`drive-client.ts:483`): what a crash or a failed lookup
  leaves is handled by no later delta.  A full scan finds items without a row; rows whose item is gone stay
  until someone scans the project, since only that scan prunes, and only `asset` rows: a
  script whose trashing was missed stays for good, and so does one that was in a folder whose
  row that scan dropped, once the folder goes to the trash;
- a renewal stops the old channel, then fetches a start token: changes between
  the last token and the new one are nobody's;
- the scan of one project is not under the write lock, whose comment says scan and webhook
  writes "never overlap" (`drive-watcher-service.ts:79`).  It drops rows made after it
  collected its ids, puts back rows of items trashed since, and infers deletion from
  absence, where the delta says "never inferred from absence" (`:176`);
- a file moved out of the project's folders keeps its row until a scan of the project, since
  its change is skipped before the row is looked for (`:476`); an asset moved to Scripts
  stays an asset, then is pruned, and comes back as a script with the next scan;
- `UpdateRow` passes no `localPath`, which the upsert sets to null, and the push never
  sets one: a script trashed in Drive after that leaves its local file in place, where the adapter
  says "bytes moved to the project .trash dir" (`adapters/scripts.ts:7`);
- a pull that overtakes the answer of the push that made the file, or a crash between
  registry and row, makes a second script of one file; an answer that comes after the file
  went to the trash makes a row for it.

### Bounds, and why they are enough

- *Two handlers, two sessions, two jobs* in the upload: every race in these
  routes is between two calls (two PATCHes, finalize with abort, confirm with
  sweep, two finalizes); a third would only repeat one of the two roles.  Two
  jobs are needed for versions and duplicates of one asset.  `FileSize = 2` is
  the least with an offset that is neither the start nor the end.
- *One restart*: the boot sequence reads only durable state, so a second crash
  starts from a state the first already reaches; the theorems hold for any
  number.
- *Two slots, two jobs, four calls* in promotion: enough for one job to be
  started twice while the other waits.  One slot and three jobs make jobs wait,
  and five calls let two of them be started twice or retried.
- *`MaxAge = 31` minutes*: above every threshold that applies to the two
  providers, 3 and 25 minutes in the queue and 4, 20 and 30 in the tracker; ages
  beyond are not told apart.  Frame.io (2 minutes to a stall) stands for the quick
  providers, Sardius (15) for those whose uploads are allowed to be slow.
- *Four times with `RetainDays = AuditDays = 1`*: a file is uploaded, lost,
  reported, and purged or back again.  One file is enough for the table, whose
  statements act on each row alone.
- *Two transcription jobs*: a rival, a retry, or a job and the sidecar of provisioning; the
  races of a job are with its own timeout, cancel, tracker and prune.  Two workers let two
  jobs of one asset cross.  For the liveness properties one worker, so that one has to wait.
- *One comment, two ids, three jobs, three steps*: a comment, a second copy if there were
  one, and a create with the two changes that can be queued behind it.  Two attempts are a
  retry and the give-up; a batch of two leaves a job for the next tick.  The
  theorems hold for any number of each.
- *One share, one asset, one comment*: a tick treats assets and shares one by one, and
  what can go wrong is between its phases.  Two changes and three steps let a change arrive
  during a tick, staff answer it, and the share close.

- *One folder, one file, two scripts, two changes, three readings*: the file is in the
  folder, in a fixed folder or outside, so a folder's trashing reaches it; a reading of
  each kind overlaps two changes.  Two scripts are what it takes for one file to have two.
  One scan of a project runs at a time; `Folders` are not nested.

The bounds `MaxRestarts`, `MaxRuns`, `MaxJobs`, `MaxAge`, `MaxTime`, `MaxRemote`,
`MaxEvents`, `MaxSteps`, `MaxChanges` and `MaxLog` are the only ones, and are guards of the actions they limit.  Every configuration says
`CHECK_DEADLOCK FALSE`, since the systems really may stop: the server waits for
clients that may do nothing more, all jobs may have ended, and at a bound no
further call is explored.

### Fairness, and why the code justifies it

- A suspended call is continued (`WF(Resume(r))`, `WF` of a run's step,
  `WF(RunStep)` of the cold run): an awaited promise settles, because files
  are local and the clients of Postgres, `fetch`, Drive and S3 time out.  Either
  outcome is allowed.
- Timers fire (`WF` of the sweeps, of `TimeoutSweep`), and `Minute` passes:
  `setInterval` in a live process.
- The transcripter's event loop goes on (`WF(EventLoop)`): `setImmediate` runs, a child
  closes because its timeout kills it if nothing else does, requests and writes are
  answered.  The tracker ticks while a stage is past its limit (`WF(Tick)`), and a call of
  provisioning is continued (`WF(ProvStep)`), whose fetches time out.
- Boot recovery continues (`WF(Recover)`).
- Nothing else is fair: clients, cancels, administrators, crashes, workers'
  reports and the tracker promise nothing.  `SilentJobsEnd` does not count on
  the tracker.

## 4. What is proved

All theorems hold for every value of the constants that satisfies the named
assumption of the module (non-zero sizes and slots, distinct null values); no
fact is assumed otherwise.

- **`ChunkedUpload_proofs`**: `TypesCorrect`, `AcknowledgedBytes`,
  `CompleteFilesOnly`.  The last two are not inductive: a PATCH compares the
  offset before the await in which it writes, and finalize registers several
  awaits after it compared sizes.  `UploadInv` adds what a handler still knows
  when it continues: a PATCH waiting for its write begins no further than the
  bytes on disk reach (`OffsetsCovered`), a finalize or confirm past its check has
  a whole file in hand whatever became of the session meanwhile
  (`CompleteInHand`, `CompleteAwaiting`), and handlers and recovery only name
  sessions that were made (`Sessions`, `Handlers`, `Recovering`).  The proof
  first summarises what any step does to sessions, files and handlers
  (`SessionSteps`, `FileSteps`, `HandlerSteps`), so each conjunct is proved
  against a few summaries and not against forty segments.
  Then `DoneJobsInLibrary`, from `LibraryInv`, through any number of crashes: a job is
  marked done after its bytes were registered (`Registered`), by a duplicate
  whose asset is in the library with these bytes (`KnownTargets`, `AssetKnown`), or by
  recovery from a session whose `asset_id` was stored after the registration (`RowsKnown`);
  and no step takes a row away.
  `StableRowsHaveFiles`, from `FilesInv`, also through any number of crashes: a handler past its
  rename finds its file at the stable path when it writes the row, for nothing but recovery
  deletes there (`Moved`), and recovery deletes only what a job without an asset id names, which
  a torn commit left (`TornKnown`).
  `StableFileIsCurrent` has the hypothesis of its run, one handler at a
  time, since of two versions finalized side by side the older may be renamed last;
  its `CurrentInv` says that what a rename is about to put at the stable path has the bytes of
  the asset's current version (`RenamesCurrent`), which its latest row has too (`LatestIsCurrent`).
  Only `NoTempLeaks` and `ConfirmHasSession` speak of the
  time until the server first goes down (`Up`), as the run without restarts does: a crash
  between two statements does leave such files and jobs.  `WhileUp` says that
  while it stays up each temp file not in `refused` has a session on its way or the create call that
  opened it (`TempOwned`), and that a job awaiting a confirmation has its session.
- **`Promotion_proofs`**: `PromotionTyped`, `NoSlotLeaks`, `NoJobForgotten`,
  `DoneMeansPromoted`, `EndsAreRecorded` and the action property `DoneUndoneByTwin`, from `PromotionInv`.  The invariant is
  stated for a *state record*, since a segment passes through several states while
  it broadcasts; each function on states has a lemma that it keeps the
  invariant, and an action is a chain of them.  `OnlyOf` says of the states of one segment
  that they differ in the status of one job only, whatever the broadcasts started.
- **`UploadQueue_proofs`**: `QueueRefines` (the queue implements
  `JobLifecycle`), `CancelsAgree`, `QueueTyped`, from
  `QueueInv`, which adds that the record says of a job in memory what the memory says
  (`RecordMatches`), and that an id is marked as cancelled only once
  it has a record, so a job that is added starts unmarked.
- **`ColdStorage_proofs`**: `StoredIsThere`, `ReviewWaits`,
  `CleanRunsAreRight` (an action property), `ColdTyped`, from `ColdInv`.  `Held`
  says of a key that its object is there or was purged since; `RowOK` relates
  a row's four times to each other and to it; `Covers` says of a run without
  failure that each file present since its start is seen, still to do, or in a
  directory still to be read: this is what makes the final stamp right.

- **`ShareSync_proofs`**: `ShareSyncTypes`, `RevokedCanBeRemoved` from `ShareInv`,
  `NothingAckedIsLost` from `AckInv`, `SidesAgree` from `SyncInv`.  The types are kept with
  what a tick knows of the log (`TickOK`: it asked from the cursor and was answered no
  further than the log's end).  `AckInv` says that what a tick is about to acknowledge is
  applied already.  `SyncInv` says of an asset whose hash is recorded that LP Share shows
  what was recorded, or it is in doubt: changed by a client past the cursor, to be pushed
  again by this tick, being pushed, or in `unsure`.
- **`CommentMirror_proofs`**: `MirrorTypes`, `CommentOnce`, `ChangesAreMirrored` from
  `MirrorInv`.  `CopyInv`: a comment has one create job, no copy before that job's request
  was carried out, and its row has the copy's id as soon as the job succeeded.
  `TextInv` and `DeleteInv`: a difference between the row and its copy is in the
  request under way or in another job; because a tick takes every job that never
  failed and is older than one it takes, a delete can pass a create only when the create failed
  before.
- **`DriveSync_proofs`**: `DriveTyped`, `OneScriptEach`, `ScansExclude` from `DriveInv`, four
  parts that need each other.  `Shape`: the types, with what each reader holds (`ReaderOK`:
  items it was shown; where it downloads a file, where it lists a folder; the scan of a project
  never a script).  `Locked`: a delta and a scan of all projects exclude each other.  `Fresh`:
  neither LPOS nor the feed has heard of an item that does not exist, so the file a push makes
  is new.  `OwnerInv`, for each file not in `doubled`: the row of the file names the one
  script that has it, and who may yet give a script the file (one download, or one push) excludes
  the other and finds no script that has it.
  `TreeIsIndexed` and `TrashIsDropped` come from `TableInv`, which adds four parts.
  `Owed` is what the feed, a delta and the scans owe to the table: an item in the tree has its
  row, naming its folder if it names one, or is doubtful (`MayLack`), due in the feed, or held by
  a delta as it is there (`TreeAt`); a row of what is in the trash is doubtful (`MayKeep`), due,
  or held as gone, the row itself or that of its folder, with which it goes (`TrashAt`); and
  a row outside of doubt names the folder its file is in, which has a row too (`PlaceAt`).
  Doubt ends in a scan only, so two parts say why a scan may end it: `Covered` (of what
  is in a scan's scope and sight, it holds the item or its folder, unless the row is as it
  should be) and `Collected` (the ids a scan of the project prunes with are those of
  the tree).  `Shown` says what a reader was shown long ago: as it is now, or
  changed since by something still due or doubtful.  `Orderly` says that the channel's token is
  where the feed was last handed out, and what a reader holds at each of its points.  At rest
  nothing is due and no delta or scan of the project holds anything (`RestIsQuiet`), which
  leaves the row.  The proof splits a step by its kind (`StepKinds`), and
  steps of readers that hide nothing are one kind (`Gentle`).
- **`Provisioning_proofs`**: of `Transcripter` `TranscripterTyped`, `NoWorkerIdles`,
  `RegistryFollows`, `TranscriptStays`, from `TInv`; of `Provisioning` `ProvisioningTyped` and
  `CacheStays`, from `PInv`; and `ProvisioningImplements`: every behaviour of the composition
  is one of the transcripter, so what is proved of it holds there too.  `JobsOK` says of every
  point of the work on a job (`call`) which statuses, slots, files and prunes go with it.
  `Records` needs that the job a record waits for is no sidecar, since a
  sidecar tells the registry nothing.  `TranscriptIsThere` needs `Overlaps` (a job queued while an earlier
  one of its asset and language was unsettled is in `overlapped`) and `Latest` (else a record
  says done only of the last such job): a prune that takes a recorded transcript
  belongs to an earlier job, which `Overlaps` covers, or to a later one, which `Latest` excludes.

Only model-checked: every liveness property (`JobSettles`, `EveryJobEnds`,
`SilentJobsEnd`, `RunEnds`, `TranscriptSettles`, `ProvisionGoesOn`), since liveness
under fairness is out of reach of the installed provers.  Every safety property of a passing
run is proved.

## 5. Abstractions

- A reply of B2 with several pages is one listing; of the versions of a key only
  whether the current one went is kept; the order of a bulk approval is not.
- Notification mails, status files, progress numbers, broadcasts to browsers and
  activity records are left out: nothing reads them back into a decision.
- The legacy single-request upload and the remote side of a promotion are not
  in the models; a remote call may succeed, fail, or succeed and lose its answer.
- Ages in the upload module and in purges are not counted; whatever may be old
  enough is allowed to be.
- A disk write is durable when its promise settles.
- Throws of the local database and file system are modelled where they leave something
  behind (`InsertRefused`), not everywhere: in the steps after the nightly walk
  (`b2-media-sync-service.ts:310-331`) one would leave `isRunning` set until the next start;
  in the deletion of one item of a delta (`drive-watcher-service.ts:177`) it would end the
  delta, whose other changes nobody handles then, as after a crash.
- A request to Frame.io that the 15 s limit aborts (`frameio.ts:58-60`) was carried out before
  the abort or never is; that it lands afterwards, beside the retry, is left out.
- A user deletes transcripts that the page lists, those with a `.meta.json`; the route takes any id.
- Renewals of the watch channel do not overlap, though nothing keeps an administrator's
  from crossing the timer's.  Which scripts a pull takes by their extension is left out.

## 6. Plan

In this order; each module keeps the style above and gets a proof module where the
invariant is worth it.

1. **`CloudflarePublish`**, composed with `UploadQueue` (its jobs) and the asset
   store: one remote copy per asset at rest, the old one deleted only after the
   new one is ready.
2. **`MergeWorker`**, **asset moves** and the **tracker's entries**.
3. **`DriveSync`** with nested folders and the routes that move and rename.
4. Proofs for each of them; of what is modelled now, only the liveness is not proved.
