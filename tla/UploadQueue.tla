----------------------------- MODULE UploadQueue -----------------------------
(***************************************************************************)
(* UploadQueueService: the in-memory queue of outgoing uploads (Frame.io,   *)
(* Cloudflare, LeaderPass, Sardius, delivery), its job records, its timeout *)
(* sweep, and the pipeline tracker's auto-fail of an upload stage.          *)
(*                                                                         *)
(* The queue does not know its workers: any of its methods may be called    *)
(* for any job at any time, by a worker that is behind, by a timer or by a  *)
(* user.  Time is in minutes, as the age of a job's updatedAt.              *)
(*                                                                         *)
(* Definitions marked "Mutation" are wrong on purpose and used nowhere: the *)
(* properties are shown to fail when one replaces the definition after it. *)
(***************************************************************************)
EXTENDS Naturals

CONSTANTS
  Jobs,
  UploadTimeout,     \* UPLOAD_TIMEOUT_MS
  ProcessingTimeout, \* PROCESSING_TIMEOUT_MS
  ActiveWindow,      \* the window of isJobActive
  StallOf,           \* job -> STALL_THRESHOLDS of its provider's stage
  ProcessingStall,   \* PROCESSING_STALL_MS
  HardTimeoutMult,   \* HARD_TIMEOUT_MULT
  MaxAge,            \* bound: ages above it are not told apart
  MaxRestarts        \* bound: restarts of the server

ASSUME QueueAssumption ==
  /\ UploadTimeout \in Nat /\ ProcessingTimeout \in Nat /\ ActiveWindow \in Nat
  /\ ProcessingStall \in Nat /\ HardTimeoutMult \in Nat /\ StallOf \in [Jobs -> Nat]
  /\ MaxAge \in Nat /\ MaxRestarts \in Nat

VARIABLES
  status,       \* the jobs Map: "absent", or the job's status
  age,          \* minutes since the job's updatedAt
  cancelledIds, \* ids for which cancel was called
  record,       \* upload_job_records.status; "none" before the job was added
  restarts

vars == <<status, age, cancelledIds, record, restarts>>

Working == {"compressing", "uploading", "processing"}
Live == {"queued"} \cup Working
Terminal == {"done", "failed", "cancelled"}

TypeOK ==
  /\ status \in [Jobs -> {"absent"} \cup Live \cup Terminal]
  /\ age \in [Jobs -> Nat]
  /\ cancelledIds \subseteq Jobs
  /\ record \in [Jobs -> {"none", "in_progress", "interrupted"} \cup Terminal]
  /\ restarts \in Nat

-----------------------------------------------------------------------------
(* The methods. *)

Add(j) ==
  /\ record[j] = "none"
  /\ status' = [status EXCEPT ![j] = "queued"]
  /\ age' = [age EXCEPT ![j] = 0]
  /\ record' = [record EXCEPT ![j] = "in_progress"]
  /\ UNCHANGED <<cancelledIds, restarts>>

\* Mutation: patch does not refuse a job that has ended.
PatchAny(j, s) ==
  /\ status' = [status EXCEPT ![j] = IF status[j] = "absent" THEN @ ELSE s]
  /\ age' = [age EXCEPT ![j] = IF status[j] = "absent" THEN @ ELSE 0]

\* patch: a job that is unknown or has ended stays as it is.
Patch(j, s) ==
  /\ status' = [status EXCEPT ![j] = IF status[j] \in Live THEN s ELSE @]
  /\ age' = [age EXCEPT ![j] = IF status[j] \in Live THEN 0 ELSE @]

\* setCompressing, setProgress, setProcessing
Report(j, s) ==
  /\ Patch(j, s)
  /\ UNCHANGED <<cancelledIds, record, restarts>>

Heartbeat(j) ==
  /\ status[j] \in Live
  /\ age' = [age EXCEPT ![j] = 0]
  /\ UNCHANGED <<status, cancelledIds, record, restarts>>

Complete(j) ==
  /\ status[j] \in Live
  /\ Patch(j, "done")
  /\ record' = [record EXCEPT ![j] = "done"]
  /\ UNCHANGED <<cancelledIds, restarts>>

Fail(j) ==
  /\ status[j] \in Live
  /\ Patch(j, "failed")
  /\ record' = [record EXCEPT ![j] = "failed"]
  /\ UNCHANGED <<cancelledIds, restarts>>

\* Mutation: the id is marked before the job is known to have ended.
CancelMarksFirst(j) ==
  /\ record[j] # "none"
  /\ cancelledIds' = cancelledIds \cup {j}
  /\ Patch(j, "cancelled")
  /\ record' = [record EXCEPT ![j] = IF status[j] \in Terminal THEN @ ELSE "cancelled"]
  /\ UNCHANGED restarts

\* Mutation: the status is spelt the way the transcription jobs spell it.
CancelMisspelt(j) ==
  /\ record[j] # "none"
  /\ status[j] \notin Terminal
  /\ cancelledIds' = cancelledIds \cup {j}
  /\ Patch(j, "canceled")
  /\ record' = [record EXCEPT ![j] = "cancelled"]
  /\ UNCHANGED restarts

\* cancel: also for an id the Map does not have (a page older than the restart).
Cancel(j) ==
  /\ record[j] # "none"
  /\ status[j] \notin Terminal
  /\ cancelledIds' = cancelledIds \cup {j}
  /\ Patch(j, "cancelled")
  /\ record' = [record EXCEPT ![j] = "cancelled"]
  /\ UNCHANGED restarts

-----------------------------------------------------------------------------
(* The timers. *)

\* fail for every job of S, in one pass over the Map.
FailAll(S) ==
  /\ status' = [j \in Jobs |-> IF j \in S THEN "failed" ELSE status[j]]
  /\ age' = [j \in Jobs |-> IF j \in S THEN 0 ELSE age[j]]
  /\ record' = [j \in Jobs |-> IF j \in S THEN "failed" ELSE record[j]]
  /\ UNCHANGED <<cancelledIds, restarts>>

\* Mutation: the sweep passes over jobs that never started.
ExpiredStarted ==
  {j \in Jobs : /\ status[j] \in Working
                /\ age[j] > IF status[j] = "processing" THEN ProcessingTimeout ELSE UploadTimeout}

Expired ==
  {j \in Jobs : /\ status[j] \in Live
                /\ age[j] > IF status[j] = "processing" THEN ProcessingTimeout ELSE UploadTimeout}

TimeoutSweep ==
  /\ Expired # {}
  /\ FailAll(Expired)

IsJobActive(j) == status[j] \in Live /\ age[j] < ActiveWindow

\* Stages past twice their stall threshold whose job is not active.
Overdue ==
  {j \in Jobs : /\ status[j] \in Working
                /\ age[j] >= HardTimeoutMult *
                     (IF status[j] = "processing" THEN ProcessingStall ELSE StallOf[j])
                /\ ~IsJobActive(j)}

\* tick: a job of an asset the tracker has not met yet has no stage.
TrackerTick ==
  \E S \in SUBSET Overdue : S # {} /\ FailAll(S)

Minute ==
  /\ \E j \in Jobs : status[j] \in Live /\ age[j] < MaxAge
  /\ age' = [j \in Jobs |-> IF status[j] \in Live /\ age[j] < MaxAge THEN age[j] + 1 ELSE age[j]]
  /\ UNCHANGED <<status, cancelledIds, record, restarts>>

\* The Map and the set of cancelled ids are lost; start() sweeps the records.
Restart ==
  /\ restarts < MaxRestarts
  /\ status' = [j \in Jobs |-> "absent"]
  /\ age' = [j \in Jobs |-> 0]
  /\ cancelledIds' = {}
  /\ record' = [j \in Jobs |-> IF record[j] = "in_progress" THEN "interrupted" ELSE record[j]]
  /\ restarts' = restarts + 1

-----------------------------------------------------------------------------

Init ==
  /\ status = [j \in Jobs |-> "absent"]
  /\ age = [j \in Jobs |-> 0]
  /\ cancelledIds = {}
  /\ record = [j \in Jobs |-> "none"]
  /\ restarts = 0

Call(j) ==
  \/ Add(j)
  \/ \E s \in Working : Report(j, s)
  \/ Heartbeat(j) \/ Complete(j) \/ Fail(j) \/ Cancel(j)

Next ==
  \/ \E j \in Jobs : Call(j)
  \/ TimeoutSweep \/ TrackerTick \/ Minute \/ Restart

Spec == Init /\ [][Next]_vars

\* Time passes and the sweep's interval fires; callers and the tracker promise nothing.
FairSpec == Spec /\ WF_vars(Minute) /\ WF_vars(TimeoutSweep)

-----------------------------------------------------------------------------
(* Properties *)

\* What a job is to a user of the queue: a job that is not in the Map and has a
\* record belongs to an earlier life of the server.
Life(j) ==
  CASE status[j] = "absent" -> IF record[j] = "none" THEN "new" ELSE "lost"
    [] status[j] \in Live -> "live"
    [] OTHER -> status[j]

Lifecycle == INSTANCE JobLifecycle WITH life <- [j \in Jobs |-> Life(j)], outcome <- record

\* The queue keeps the promise of JobLifecycle: a late report, heartbeat, timer or
\* cancel never brings back a job that ended, nor changes how it ended.
ImplementsLifecycle == Lifecycle!Spec

\* Workers learn of a cancel by polling isCancelled: the set of cancelled ids and the
\* status of the job they belong to agree, so no worker stops for a job that ended
\* otherwise, and none goes on with a cancelled one.
CancelledIsMarked ==
  \A j \in Jobs : status[j] # "absent" => (j \in cancelledIds <=> status[j] = "cancelled")

\* A job whose worker went silent comes to an end: one that never ends is heard of
\* again and again.
SilentJobsEnd ==
  \A j \in Jobs : <>[](status[j] \in Live) => []<>(age[j] = 0)
=============================================================================
