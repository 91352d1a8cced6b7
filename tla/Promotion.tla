------------------------------- MODULE Promotion -------------------------------
(***************************************************************************)
(* Promotion of client files from the ingest bucket into Google Drive or   *)
(* local storage: the promote route, PromotionQueueService and its job     *)
(* records, PromotionProcessor, and the pipeline tracker's cancel, retry   *)
(* and auto-fail of a promotion.                                           *)
(*                                                                         *)
(* Every change of a job is broadcast, and the processor answers each      *)
(* broadcast, synchronously, by starting the newest queued job when it has *)
(* a free slot.  An action below is a segment of one call between awaits,  *)
(* with all the broadcasts it makes; a run is one call of process(job).    *)
(*                                                                         *)
(* Definitions marked "Mutation" are wrong on purpose and used nowhere: the *)
(* properties are shown to fail when one replaces the definition after it. *)
(***************************************************************************)
EXTENDS Naturals, Sequences, FiniteSets

CONSTANTS
  Files,          \* object keys in the ingest bucket
  StorageOf,      \* file -> "drive" or "local" (video), from its MIME type
  MaxConcurrency, \* MAX_CONCURRENCY
  MaxJobs,        \* bound: jobs ever added
  MaxRuns,        \* bound: calls of process ever made
  MaxRestarts     \* bound: restarts of the server

ASSUME PromotionAssumption ==
  /\ StorageOf \in [Files -> {"drive", "local"}]
  /\ MaxConcurrency \in Nat \ {0}
  /\ MaxJobs \in Nat /\ MaxRuns \in Nat /\ MaxRestarts \in Nat

VARIABLES
  jobs,      \* the jobs Map in insertion order; status "gone" once the memory is lost
  record,    \* promotion_job_records.status of each job
  active,    \* PromotionProcessor.active
  runs,      \* calls of process: the job and the await each is suspended at
  assets,    \* runs whose drive_assets row exists (each run mints its own entityId)
  processed, \* files whose ingest_submissions row is marked processed
  restarts

vars == <<jobs, record, active, runs, assets, processed, restarts>>

Live == {"queued", "downloading", "promoting"}
Terminal == {"done", "failed", "cancelled"}
Statuses == Live \cup Terminal \cup {"gone"}
RecordStatuses == {"in_progress", "interrupted"} \cup Terminal
InFlight == {"token", "download", "upload", "mark", "marked"}
Pcs == InFlight \cup {"leaving", "over"}

JobType == [file : Files, at : Nat, status : Statuses]
RunType == [job : Nat, pc : Pcs]

TypeOK ==
  /\ jobs \in Seq(JobType)
  /\ record \in Seq(RecordStatuses) /\ Len(record) = Len(jobs)
  /\ active \subseteq DOMAIN jobs
  /\ runs \in Seq(RunType)
  /\ \A r \in DOMAIN runs : runs[r].job \in DOMAIN jobs
  /\ assets \subseteq DOMAIN runs
  /\ processed \subseteq Files
  /\ restarts \in Nat

-----------------------------------------------------------------------------
(* The queue and the processor, as functions of their state. *)

State == [jobs |-> jobs, record |-> record, active |-> active, runs |-> runs]

\* What a segment leaves behind; the bound on runs is a guard of every action.
Settle(s) ==
  /\ Len(s.runs) <= MaxRuns
  /\ jobs' = s.jobs /\ record' = s.record
  /\ active' = s.active /\ runs' = s.runs

Queued(s) == {j \in DOMAIN s.jobs : s.jobs[j].status = "queued"}

\* getQueue().find(queued): newest first; jobs of one millisecond keep the Map's order.
Precedes(s, i, j) ==
  \/ s.jobs[i].at > s.jobs[j].at
  \/ s.jobs[i].at = s.jobs[j].at /\ i <= j

NextQueued(s) == CHOOSE i \in Queued(s) : \A j \in Queued(s) : Precedes(s, i, j)

\* The job stays "queued" until its run's first query answers.
Start(s, j) ==
  [s EXCEPT !.active = @ \cup {j}, !.runs = Append(@, [job |-> j, pc |-> "token"])]

ProcessNext(s) ==
  IF Cardinality(s.active) >= MaxConcurrency \/ Queued(s) = {} THEN s
  ELSE Start(s, NextQueued(s))

\* patch: no check that the job is still live, then the broadcast.
Patch(s, j, status) == ProcessNext([s EXCEPT !.jobs[j].status = status])

\* Mutation: a failed job keeps its record in progress.
EndUnrecorded(s, j, status) == Patch(s, j, status)

\* complete, fail and cancel: patch, then the job record.
End(s, j, status) ==
  [Patch(s, j, status) EXCEPT !.record[j] = status]

\* queuedAt of a new job: the millisecond of the job before it, or a later one.
Instants(s) ==
  IF s.jobs = <<>> THEN {0}
  ELSE LET last == s.jobs[Len(s.jobs)].at IN {last, last + 1}

\* add: the Map, the job record, the broadcast.
Added(s, f, at) ==
  ProcessNext([s EXCEPT !.jobs = Append(@, [file |-> f, at |-> at, status |-> "queued"]),
                        !.record = Append(@, "in_progress")])

Resumed(s, r, pc) == [s EXCEPT !.runs[r].pc = pc]

\* Mutation: the slot is given back only by a run that succeeds (then for finally).
LeavesKeeping(s, r) ==
  IF s.jobs[s.runs[r].job].status = "failed" THEN Resumed(s, r, "leaving")
  ELSE [Resumed(s, r, "leaving") EXCEPT !.active = @ \ {s.runs[r].job}]

\* finally: the slot is free again and processNext waits for its setImmediate.
Leaves(s, r) ==
  [Resumed(s, r, "leaving") EXCEPT !.active = @ \ {s.runs[r].job}]

Throws(s, r) == Leaves(End(s, s.runs[r].job, "failed"), r)

-----------------------------------------------------------------------------
(* The route and the pipeline tracker. *)

\* POST promote: one add per file, in one synchronous loop.
Promote(fs) ==
  /\ Len(jobs) + Len(fs) <= MaxJobs
  /\ \/ Len(fs) = 1 /\ \E t \in Instants(State) : Settle(Added(State, fs[1], t))
     \/ /\ Len(fs) = 2
        /\ \E t \in Instants(State) :
             LET s == Added(State, fs[1], t)
             IN \E u \in Instants(s) : Settle(Added(s, fs[2], u))
  /\ UNCHANGED <<assets, processed, restarts>>

\* handleRetry: the file of a failed job is queued again, as a new job.
Retry(j) ==
  /\ jobs[j].status = "failed" /\ Len(jobs) < MaxJobs
  /\ \E t \in Instants(State) : Settle(Added(State, jobs[j].file, t))
  /\ UNCHANGED <<assets, processed, restarts>>

\* Mutation: neither the tracker nor the queue asks whether the job has ended.
CancelAny(j) ==
  /\ jobs[j].status # "gone"
  /\ Settle(End(State, j, "cancelled"))
  /\ UNCHANGED <<assets, processed, restarts>>

\* handleCancel and cancel: a stage that has not ended.
Cancel(j) ==
  /\ jobs[j].status \in Live
  /\ Settle(End(State, j, "cancelled"))
  /\ UNCHANGED <<assets, processed, restarts>>

\* tick, for a stage past its hard timeout: a worker that is alive vetoes the kill.
TickVetoed(j) ==
  /\ jobs[j].status \in Live \ {"queued"} /\ j \in active
  /\ Settle(ProcessNext(State))
  /\ UNCHANGED <<assets, processed, restarts>>

AutoFail(j) ==
  /\ jobs[j].status \in Live \ {"queued"} /\ j \notin active
  /\ Settle(End(State, j, "failed"))
  /\ UNCHANGED <<assets, processed, restarts>>

-----------------------------------------------------------------------------
(* PromotionProcessor.process *)

JobOf(r) == runs[r].job
FileOf(r) == jobs[JobOf(r)].file
At(r, pc) == runs[r].pc = pc

\* The project's ingest token is known: the download begins.
GotToken(r) ==
  /\ At(r, "token")
  /\ Settle(Resumed(Patch(State, JobOf(r), "downloading"), r, "download"))
  /\ UNCHANGED <<assets, processed, restarts>>

\* A chunk arrives: setDownloading with the new percentage.
Chunk(r) ==
  /\ At(r, "download")
  /\ Settle(Patch(State, JobOf(r), "downloading"))
  /\ UNCHANGED <<assets, processed, restarts>>

Promoting(s, r) == Patch(s, s.runs[r].job, "promoting")

\* promoteToDrive up to the upload.
SendToDrive(r) ==
  /\ At(r, "download") /\ StorageOf[FileOf(r)] = "drive"
  /\ Settle(Resumed(Promoting(Promoting(State, r), r), r, "upload"))
  /\ UNCHANGED <<assets, processed, restarts>>

\* Mutation: the local branch returns before the drive_assets row is written.
WriteLocalUnlisted(r) ==
  /\ At(r, "download") /\ StorageOf[FileOf(r)] = "local"
  /\ Settle(Resumed(Promoting(Promoting(Promoting(State, r), r), r), r, "mark"))
  /\ UNCHANGED <<assets, processed, restarts>>

\* promoteToLocal: the file and its row are written synchronously.
WriteLocal(r) ==
  /\ At(r, "download") /\ StorageOf[FileOf(r)] = "local"
  /\ Settle(Resumed(Promoting(Promoting(Promoting(State, r), r), r), r, "mark"))
  /\ assets' = assets \cup {r}
  /\ UNCHANGED <<processed, restarts>>

Uploaded(r) ==
  /\ At(r, "upload")
  /\ Settle(Resumed(Promoting(State, r), r, "mark"))
  /\ assets' = assets \cup {r}
  /\ UNCHANGED <<processed, restarts>>

\* The ingest database (Postgres) has applied the UPDATE; its answer is on the way.
MarkProcessed(r) ==
  /\ At(r, "mark")
  /\ Settle(Resumed(State, r, "marked"))
  /\ processed' = processed \cup {FileOf(r)}
  /\ UNCHANGED <<assets, restarts>>

Complete(r) ==
  /\ At(r, "marked")
  /\ Settle(Leaves(End(State, JobOf(r), "done"), r))
  /\ UNCHANGED <<assets, processed, restarts>>

\* No client row, a failed download, upload or UPDATE: the catch block.
Fail(r) ==
  /\ runs[r].pc \in InFlight
  /\ Settle(Throws(State, r))
  /\ UNCHANGED <<assets, processed, restarts>>

\* No Drive folder, no storage volume: thrown after the file was downloaded.
NoDestination(r) ==
  /\ At(r, "download")
  /\ Settle(Throws(Promoting(State, r), r))
  /\ UNCHANGED <<assets, processed, restarts>>

\* Mutation: finally frees the slot and never looks for the next job.
NextRunForgotten(r) ==
  /\ At(r, "leaving")
  /\ Settle(Resumed(State, r, "over"))
  /\ UNCHANGED <<assets, processed, restarts>>

\* The setImmediate of a finished run.
NextRun(r) ==
  /\ At(r, "leaving")
  /\ Settle(ProcessNext(Resumed(State, r, "over")))
  /\ UNCHANGED <<assets, processed, restarts>>

\* The process dies; at boot the records in progress become interrupted.
Restart ==
  /\ restarts < MaxRestarts
  /\ restarts' = restarts + 1
  /\ jobs' = [j \in DOMAIN jobs |-> [jobs[j] EXCEPT !.status = "gone"]]
  /\ record' = [j \in DOMAIN record |->
                  IF record[j] = "in_progress" THEN "interrupted" ELSE record[j]]
  /\ runs' = [r \in DOMAIN runs |-> [runs[r] EXCEPT !.pc = "over"]]
  /\ active' = {}
  /\ UNCHANGED <<assets, processed>>

-----------------------------------------------------------------------------

Init ==
  /\ jobs = <<>> /\ record = <<>> /\ active = {} /\ runs = <<>>
  /\ assets = {} /\ processed = {} /\ restarts = 0

Requests == {<<f>> : f \in Files} \cup (Files \X Files)

JobStep(j) == Retry(j) \/ Cancel(j) \/ TickVetoed(j) \/ AutoFail(j)

\* What answers an await, or the event loop, does for a run; every promise settles.
RunStep(r) ==
  \/ GotToken(r) \/ SendToDrive(r) \/ WriteLocal(r) \/ Uploaded(r) \/ MarkProcessed(r)
  \/ Complete(r) \/ Fail(r) \/ NoDestination(r) \/ NextRun(r)

Next ==
  \/ \E fs \in Requests : Promote(fs)
  \/ \E j \in DOMAIN jobs : JobStep(j)
  \/ \E r \in DOMAIN runs : RunStep(r) \/ Chunk(r)
  \/ Restart

Spec == Init /\ [][Next]_vars

\* Awaited calls settle (pg, fetch and the Drive client time out) and a setImmediate
\* is run; a run makes finitely many steps, so no run is passed over for ever.
Fairness == WF_vars(\E r \in DOMAIN runs : RunStep(r))

FairSpec == Spec /\ Fairness

-----------------------------------------------------------------------------
(* Properties *)

\* A slot of the processor is held only for a job that a call of process still
\* works on: whatever throws, and however often a job was started, no slot leaks.
SlotsHaveWorkers ==
  \A j \in active : \E r \in DOMAIN runs : JobOf(r) = j /\ runs[r].pc \in InFlight

\* While a job is queued some call of process, or its setImmediate, has still to
\* end and will look for the next job: no queued job is forgotten.
QueuedHasWaker ==
  Queued(State) # {} => \E r \in DOMAIN runs : runs[r].pc # "over"

\* A job whose record says done, before or after a restart, left a drive_assets row
\* of its own, and its submission is marked processed in the ingest database.
DoneIsPromoted ==
  \A j \in DOMAIN jobs : record[j] = "done" =>
    /\ \E r \in assets : JobOf(r) = j
    /\ jobs[j].file \in processed

\* A job that ended in memory has a record that says the same: a boot never finds
\* a finished job in progress and calls it interrupted.
EndIsRecorded ==
  \A j \in DOMAIN jobs : jobs[j].status \in Terminal => record[j] = jobs[j].status

\* A job that was done stops being done only while a second call of process for
\* the same job is in flight, or by a restart.
OnlyTwinUndoesDone ==
  [][\A j \in DOMAIN jobs : jobs[j].status = "done" /\ jobs'[j].status # "done" =>
       \/ jobs'[j].status = "gone"
       \/ \E r \in DOMAIN runs : JobOf(r) = j /\ runs[r].pc \in InFlight]_vars

LiveJob(j) == j \in DOMAIN jobs /\ jobs[j].status \in Live
\* Every job that was added comes to an end, or is lost in a restart.
EveryJobEnds == \A j \in 1..MaxJobs : LiveJob(j) ~> ~LiveJob(j)
=============================================================================
