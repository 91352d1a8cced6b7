------------------------------ MODULE Transcripter ------------------------------
(***************************************************************************)
(* TranscripterService: the queue of transcription jobs, its workers       *)
(* (MediaProcessor children and Spanish translations), cancel, timeout and *)
(* auto-fail, the transcripts on disk with their pruning, and the asset    *)
(* registry's record of the transcript, which the completion callback of   *)
(* container.ts writes.                                                    *)
(*                                                                         *)
(* An action is a segment of one call between awaits.  Job i is the i-th   *)
(* entry of the jobs Map.  The ghosts lowest, overlapped and deleted       *)
(* remember the past for the properties and guard nothing.                 *)
(*                                                                         *)
(* Definitions marked "Mutation" are wrong on purpose and used nowhere: the *)
(* properties are shown to fail when one replaces the definition after it. *)
(***************************************************************************)
EXTENDS Naturals, FiniteSets

CONSTANTS
  Assets,      \* media assets of one project
  MaxWorkers,  \* the setting transcription workers is at most this (8)
  MaxJobs,     \* bound: jobs ever queued
  MaxRestarts  \* bound: restarts of the server

ASSUME TranscripterAssumption ==
  /\ Assets # {} /\ MaxWorkers \in Nat \ {0}
  /\ MaxJobs \in Nat /\ MaxRestarts \in Nat

Ids == 1..MaxJobs
NoJob == 0

VARIABLES
  job,        \* the jobs Map; status "new" before the enqueue, "gone" after a restart
  call,       \* where the worker of a job is: its child, its request, its meta write
  procs,      \* activeProcessors
  trans,      \* activeTranslations
  killed,     \* jobs whose MediaProcessor was aborted and whose child has not closed
  wakes,      \* setImmediate(processNext) not run yet
  workers,    \* the setting
  files,      \* jobs with a transcript (.txt, .json, .srt, .vtt) on disk
  words,      \* sidecars with a .words.json (of another job nobody reads it)
  metas,      \* jobs with a .meta.json
  stamp,      \* completedAt, as the rank of the job among the completed ones
  listing,    \* jobs whose prune has not read the directory yet
  todo,       \* meta files a prune has still to look at
  entry,      \* transcription and transcriptionEs of an asset
  removed,    \* assets deleted from the registry
  fired,      \* jobs whose completion callbacks have run
  restarts,
  lowest,     \* ghost: the lowest worker setting so far
  overlapped, \* ghost: jobs that met another unsettled job of their asset and language
  deleted,    \* ghost: transcripts deleted at a user's request
  canceled    \* ghost: jobs canceled at a user's request

disk == <<files, words, metas, stamp>>
prunes == <<listing, todo>>
ghosts == <<lowest, overlapped, deleted, canceled>>
vars == <<job, call, procs, trans, killed, wakes, workers, disk, prunes, entry, removed,
          fired, restarts, ghosts>>

Running == {"extracting_audio", "transcribing"}  \* writing_outputs lasts no longer than a segment
Live == Running \cup {"queued"}
Terminal == {"done", "failed", "canceled"}
Purposes == {"standard", "spanish", "lpai_sidecar"}
Langs == {"en", "es"}
Child == {"audio", "whisper", "words"}
Calls == Child \cup {"none", "translate", "meta", "over"}

JobType == [asset : Assets, purpose : Purposes, status : Live \cup Terminal \cup {"new", "gone"}]
EntryType == [status : {"none", "queued", "done", "failed"}, job : Ids \cup {NoJob}]

TypeOK ==
  /\ job \in [Ids -> JobType] /\ call \in [Ids -> Calls]
  /\ procs \subseteq Ids /\ trans \subseteq Ids /\ killed \subseteq Ids
  /\ wakes \in Nat /\ workers \in 1..MaxWorkers /\ lowest \in 1..MaxWorkers
  /\ files \subseteq Ids /\ words \subseteq Ids /\ metas \subseteq Ids
  /\ stamp \in [Ids -> Nat]
  /\ listing \subseteq Ids /\ todo \in [Ids -> SUBSET Ids]
  /\ entry \in [Assets -> [Langs -> EntryType]] /\ removed \subseteq Assets
  /\ fired \subseteq Ids /\ restarts \in Nat
  /\ overlapped \subseteq Ids /\ deleted \subseteq Ids /\ canceled \subseteq Ids

-----------------------------------------------------------------------------
(* Pieces of a segment. *)

Min2(m, n) == IF m <= n THEN m ELSE n

Lang(p) == IF p = "spanish" THEN "es" ELSE "en"
Status(i) == job[i].status
AssetOf(i) == job[i].asset
LangOf(i) == Lang(job[i].purpose)
IsSidecar(i) == job[i].purpose = "lpai_sidecar"

\* Two transcripts of which the later replaces the earlier.
Rivals(i, k) ==
  i # k /\ AssetOf(i) = AssetOf(k) /\ LangOf(i) = LangOf(k) /\ ~IsSidecar(i) /\ ~IsSidecar(k)

Queued == {i \in Ids : Status(i) = "queued"}
Busy == procs \cup trans

\* Ids after which nothing happens to a job: no worker and no prune.
Unsettled(k) ==
  Status(k) \in Live \/ call[k] \notin {"none", "over"} \/ k \in listing \/ todo[k] # {}

SetStatus(i, s) == job' = [job EXCEPT ![i].status = s]

\* Mutation: finally does not look for the next job.
LeaveQuietly(i) == procs' = procs \ {i} /\ trans' = trans \ {i} /\ wakes' = wakes

\* finally: the worker leaves, and the next job is looked for when one waits.
Leave(i) ==
  /\ procs' = procs \ {i} /\ trans' = trans \ {i}
  /\ wakes' = IF Queued # {} THEN wakes + 1 ELSE wakes

\* The callback of container.ts for a job that ended with status s.
Recorded(i, s) ==
  IF IsSidecar(i) \/ AssetOf(i) \in removed THEN entry
  ELSE [entry EXCEPT ![AssetOf(i)][LangOf(i)] =
          [status |-> IF s = "done" THEN "done" ELSE "failed", job |-> i]]

\* fireCompletion, with the status the job has by then.
Fire(i, s) == fired' = fired \cup {i} /\ entry' = Recorded(i, s)

\* Mutation: an external failure tells nobody.
FailSilently(i) == SetStatus(i, "failed") /\ UNCHANGED <<fired, entry>>

\* updateJob(failed) and the callbacks, as failJob and the catch blocks do.
FailNow(i) == SetStatus(i, "failed") /\ Fire(i, "failed")

\* Mutation: the catch block does not run the callbacks.
CatchSilently(i) ==
  IF Status(i) = "canceled" THEN UNCHANGED <<job, fired, entry>>
  ELSE SetStatus(i, "failed") /\ UNCHANGED <<fired, entry>>

\* The catch block of processNext: a job that was canceled meanwhile stays so, silently.
CatchError(i) ==
  IF Status(i) = "canceled" THEN UNCHANGED <<job, fired, entry>> ELSE FailNow(i)

-----------------------------------------------------------------------------
(* Adding jobs. *)

\* The gate of the three enqueue methods looks at the processors only.
WakeOnEnqueue == wakes' = IF Cardinality(procs) < workers THEN wakes + 1 ELSE wakes

IsNextId(i) == Status(i) = "new" /\ \A k \in Ids : k < i => Status(k) # "new"

Enqueue(i, a, p) ==
  /\ IsNextId(i)
  /\ job' = [job EXCEPT ![i] = [asset |-> a, purpose |-> p, status |-> "queued"]]
  /\ WakeOnEnqueue
  /\ LET met == {k \in Ids : /\ Unsettled(k) /\ ~IsSidecar(k)
                             /\ AssetOf(k) = a /\ LangOf(k) = Lang(p)}
     IN overlapped' = IF p = "lpai_sidecar" \/ met = {} THEN overlapped
                      ELSE overlapped \cup met \cup {i}
  /\ UNCHANGED <<call, procs, trans, killed, workers, disk, prunes, removed, fired, restarts,
                 lowest, deleted, canceled>>

\* The routes retranscribe and transcribe-es and the finalization of an upload: enqueue,
\* then point the asset's record at the job.
Request(i, a, p) ==
  /\ a \notin removed /\ p # "lpai_sidecar"
  /\ Enqueue(i, a, p)
  /\ entry' = [entry EXCEPT ![a][Lang(p)] = [status |-> "queued", job |-> i]]

\* handleRetry of a failed stage: the null jobId of its patch leaves the old one in the row,
\* and the asset is not asked for again.
Retry(i, k) ==
  /\ Status(k) = "failed" /\ ~IsSidecar(k)
  /\ Enqueue(i, AssetOf(k), job[k].purpose)
  /\ entry' = IF AssetOf(k) \in removed THEN entry
              ELSE [entry EXCEPT ![AssetOf(k)][LangOf(k)].status = "queued"]

\* enqueueSidecar: no record of the asset changes.
EnqueueSidecar(i, a) == Enqueue(i, a, "lpai_sidecar") /\ UNCHANGED entry

-----------------------------------------------------------------------------
(* The queue runner. *)

\* The English transcript a translation starts from: finished, and its JSON on disk.
HasEnglish(a) ==
  LET en == entry[a]["en"]
  IN a \notin removed /\ en.status = "done" /\ en.job \in files

StartWhisper(i) ==
  /\ ~(job[i].purpose = "spanish")
  /\ SetStatus(i, "extracting_audio")
  /\ procs' = procs \cup {i} /\ call' = [call EXCEPT ![i] = "audio"]
  /\ wakes' = wakes - 1
  /\ UNCHANGED <<trans, fired, entry>>

StartTranslation(i) ==
  /\ job[i].purpose = "spanish" /\ HasEnglish(AssetOf(i))
  /\ SetStatus(i, "transcribing")
  /\ trans' = trans \cup {i} /\ call' = [call EXCEPT ![i] = "translate"]
  /\ wakes' = wakes - 1
  /\ UNCHANGED <<procs, fired, entry>>

\* No English transcript: the job fails, and its finally looks for the next one.
NothingToTranslate(i) ==
  /\ job[i].purpose = "spanish" /\ ~HasEnglish(AssetOf(i))
  /\ FailNow(i)
  /\ call' = [call EXCEPT ![i] = "over"]
  /\ wakes' = IF Queued \ {i} # {} THEN wakes ELSE wakes - 1
  /\ UNCHANGED <<procs, trans>>

NothingToStart ==
  /\ Queued = {} \/ Cardinality(Busy) >= workers
  /\ wakes' = wakes - 1
  /\ UNCHANGED <<job, call, procs, trans, fired, entry>>

\* The oldest queued job, when fewer than the setting are being worked on.
StartNext ==
  /\ Cardinality(Busy) < workers
  /\ \E i \in Queued :
       /\ \A k \in Queued : i <= k
       /\ StartWhisper(i) \/ StartTranslation(i) \/ NothingToTranslate(i)

ProcessNext ==
  /\ wakes > 0
  /\ NothingToStart \/ StartNext
  /\ UNCHANGED <<killed, workers, disk, prunes, removed, restarts, ghosts>>

-----------------------------------------------------------------------------
(* A MediaProcessor and the call that waits for it. *)

Untouched == UNCHANGED <<workers, prunes, removed, restarts, ghosts>>

\* Mutation: the child's own name for what it does becomes the status.
PhaseOfChild(c) == c

Phase(c) == IF c = "audio" THEN "extracting_audio" ELSE "transcribing"

\* ffmpeg has closed; whisper is started and its phase reported.
AudioDone(i) ==
  /\ call[i] = "audio" /\ i \notin killed
  /\ SetStatus(i, "transcribing") /\ call' = [call EXCEPT ![i] = "whisper"]
  /\ UNCHANGED <<procs, trans, killed, wakes, disk, entry, fired>> /\ Untouched

\* The first pass has written the transcript; the word-level pass is started.
WhisperDone(i) ==
  /\ call[i] = "whisper" /\ i \notin killed
  /\ files' = files \cup {i} /\ call' = [call EXCEPT ![i] = "words"]
  /\ UNCHANGED <<job, procs, trans, killed, wakes, words, metas, stamp, entry, fired>>
  /\ Untouched

\* Mutation: a sidecar writes a meta like any other job.
ResultWithMeta(i) ==
  /\ call[i] = "words" /\ i \notin killed
  /\ SetStatus(i, "done")
  /\ (words' = words) \/ (IsSidecar(i) /\ words' = words \cup {i})
  /\ stamp' = [stamp EXCEPT ![i] = Cardinality({k \in Ids : stamp[k] > 0}) + 1]
  /\ call' = [call EXCEPT ![i] = "meta"]
  /\ UNCHANGED <<procs, trans, wakes, entry, fired, killed, files, metas>> /\ Untouched

\* The result: the word-level pass may have failed.  A sidecar has no meta to write.
Result(i) ==
  /\ call[i] = "words" /\ i \notin killed
  /\ SetStatus(i, "done")
  /\ (words' = words) \/ (IsSidecar(i) /\ words' = words \cup {i})
  /\ stamp' = [stamp EXCEPT ![i] = Cardinality({k \in Ids : stamp[k] > 0}) + 1]
  /\ IF IsSidecar(i)
     THEN /\ call' = [call EXCEPT ![i] = "over"] /\ Leave(i) /\ Fire(i, "done")
     ELSE /\ call' = [call EXCEPT ![i] = "meta"]
          /\ UNCHANGED <<procs, trans, wakes, entry, fired>>
  /\ UNCHANGED <<killed, files, metas>> /\ Untouched

\* ffmpeg or whisper failed, or its processor was aborted: process() rejects.
ChildFails(i) ==
  /\ i \in procs /\ (call[i] \in {"audio", "whisper"} \/ (call[i] = "words" /\ i \in killed))
  /\ CatchError(i) /\ Leave(i)
  /\ call' = [call EXCEPT ![i] = "over"] /\ killed' = killed \ {i}
  /\ UNCHANGED disk /\ Untouched

\* The timeout wins the race: the child is killed, and the call leaves before it is dead.
Timeout(i) ==
  /\ i \in procs /\ call[i] \in Child
  /\ killed' = killed \cup {i}
  /\ CatchError(i) /\ Leave(i)
  /\ UNCHANGED <<call, disk>> /\ Untouched

\* A progress tick of a child that has not closed, aborted or not: no status is final.
Progress(i) ==
  /\ call[i] \in Child
  /\ SetStatus(i, Phase(call[i]))
  /\ UNCHANGED <<call, procs, trans, killed, wakes, disk, entry, fired>> /\ Untouched

\* The child of a call that has left closes.
Exit(i) ==
  /\ call[i] \in Child /\ i \notin procs
  /\ call' = [call EXCEPT ![i] = "over"] /\ killed' = killed \ {i}
  /\ UNCHANGED <<job, procs, trans, wakes, disk, entry, fired>> /\ Untouched

\* The last batch is translated: the files are written, and the status is done whatever
\* it was.
Translated(i) ==
  /\ call[i] = "translate"
  /\ SetStatus(i, "done") /\ call' = [call EXCEPT ![i] = "meta"]
  /\ files' = files \cup {i}
  /\ stamp' = [stamp EXCEPT ![i] = Cardinality({k \in Ids : stamp[k] > 0}) + 1]
  /\ UNCHANGED <<procs, trans, killed, wakes, words, metas, entry, fired>> /\ Untouched

TranslationFails(i) ==
  /\ call[i] = "translate"
  /\ CatchError(i) /\ Leave(i)
  /\ call' = [call EXCEPT ![i] = "over"]
  /\ UNCHANGED <<killed, disk>> /\ Untouched

\* The meta is written, or could not be; the prune is started and not waited for.
MetaWritten(i) ==
  /\ call[i] = "meta"
  /\ \E ok \in BOOLEAN : metas' = IF ok THEN metas \cup {i} ELSE metas
  /\ call' = [call EXCEPT ![i] = "over"]
  /\ listing' = listing \cup {i}
  /\ Leave(i) /\ Fire(i, Status(i))
  /\ UNCHANGED <<job, killed, files, words, stamp, todo, workers, removed, restarts, ghosts>>

-----------------------------------------------------------------------------
(* pruneOldTranscripts *)

OnlyPrunes == UNCHANGED <<job, call, procs, trans, killed, wakes, workers, stamp, entry, removed,
                          fired, restarts, ghosts>>

PruneLists(i) ==
  /\ i \in listing
  /\ listing' = listing \ {i}
  /\ todo' = [todo EXCEPT ![i] = metas \ {i}]
  /\ UNCHANGED <<files, words, metas>> /\ OnlyPrunes

\* Mutation: the meta's asset is compared, its language is not.
SameAsset(i, k) == AssetOf(k) = AssetOf(i)

\* Whether a meta file that is still there belongs to the asset and language of the prune.
Outdated(i, k) == AssetOf(k) = AssetOf(i) /\ LangOf(k) = LangOf(i)

PruneOne(i, k) ==
  /\ k \in todo[i]
  /\ todo' = [todo EXCEPT ![i] = @ \ {k}]
  /\ IF k \in metas /\ Outdated(i, k)
     THEN files' = files \ {k} /\ words' = words \ {k} /\ metas' = metas \ {k}
     ELSE UNCHANGED <<files, words, metas>>
  /\ UNCHANGED listing /\ OnlyPrunes

-----------------------------------------------------------------------------
(* Cancel, the tracker, users and the server. *)

\* cancelJob, from the socket: nobody is told but the queue's listeners.
Cancel(i) ==
  /\ Status(i) \in Live
  /\ SetStatus(i, "canceled")
  /\ killed' = killed \cup ({i} \cap procs) /\ canceled' = canceled \cup {i}
  /\ UNCHANGED <<call, procs, trans, wakes, disk, entry, fired, workers, prunes, removed, restarts,
                 lowest, overlapped, deleted>>

\* tick of the pipeline tracker: a started stage without a processor is failed; a live
\* translation has none, and a sidecar is no stage of its own.
AutoFail(i) ==
  /\ Status(i) \in Running /\ i \notin procs /\ ~IsSidecar(i)
  /\ FailNow(i)
  /\ UNCHANGED <<call, procs, trans, killed, wakes, disk>> /\ Untouched

\* DELETE of an asset: cancelByAsset, deleteTranscriptsByAsset, removeAsset.
DeleteAsset(a) ==
  /\ a \notin removed
  /\ LET live == {i \in Ids : AssetOf(i) = a /\ Status(i) \in Live}
         drop == live \cup {i \in metas : AssetOf(i) = a}
     IN /\ job' = [i \in Ids |-> IF i \in live THEN [job[i] EXCEPT !.status = "canceled"]
                                 ELSE job[i]]
        /\ killed' = killed \cup (live \cap procs) /\ canceled' = canceled \cup live
        /\ files' = files \ drop /\ words' = words \ drop /\ metas' = metas \ drop
        /\ deleted' = deleted \cup drop
  /\ removed' = removed \cup {a}
  /\ UNCHANGED <<call, procs, trans, wakes, workers, stamp, prunes, entry, fired, restarts,
                 lowest, overlapped>>

OnlyDeletes == UNCHANGED <<job, call, procs, trans, killed, wakes, workers, words, stamp, prunes,
                           entry, removed, fired, restarts, lowest, overlapped, canceled>>

\* DELETE transcripts, and delete-all: the transcripts a user names.  The route takes any id;
\* the pages offer the transcripts that are listed, which are those with a .meta.json.
DeleteTranscripts(S) ==
  /\ S # {} /\ S \subseteq metas
  /\ files' = files \ S /\ metas' = metas \ S /\ deleted' = deleted \cup S
  /\ OnlyDeletes

\* clear-duplicates: of an asset's transcripts, in whatever language, the newest stays.
ClearDuplicates ==
  LET older == {i \in metas : \E k \in metas : AssetOf(k) = AssetOf(i) /\ stamp[k] > stamp[i]}
  IN /\ older # {}
     /\ files' = files \ older /\ metas' = metas \ older /\ deleted' = deleted \cup older
     /\ OnlyDeletes

SetWorkers(n) ==
  /\ workers' = n /\ lowest' = Min2(lowest, n)
  /\ UNCHANGED <<job, call, procs, trans, killed, wakes, disk, prunes, entry, removed, fired,
                 restarts, overlapped, deleted, canceled>>

\* The process dies: jobs, workers, prunes and callbacks are gone.
Restart ==
  /\ restarts < MaxRestarts /\ restarts' = restarts + 1
  /\ job' = [i \in Ids |-> IF Status(i) = "new" THEN job[i] ELSE [job[i] EXCEPT !.status = "gone"]]
  /\ call' = [i \in Ids |-> IF call[i] = "none" THEN "none" ELSE "over"]
  /\ procs' = {} /\ trans' = {} /\ killed' = {} /\ wakes' = 0
  /\ listing' = {} /\ todo' = [i \in Ids |-> {}]
  /\ UNCHANGED <<workers, disk, entry, removed, fired, ghosts>>

-----------------------------------------------------------------------------

Blank == [asset |-> CHOOSE a \in Assets : TRUE, purpose |-> "standard", status |-> "new"]

Init ==
  /\ job = [i \in Ids |-> Blank] /\ call = [i \in Ids |-> "none"]
  /\ procs = {} /\ trans = {} /\ killed = {} /\ wakes = 0
  /\ workers \in 1..MaxWorkers /\ lowest = workers
  /\ files = {} /\ words = {} /\ metas = {} /\ stamp = [i \in Ids |-> 0]
  /\ listing = {} /\ todo = [i \in Ids |-> {}]
  /\ entry = [a \in Assets |-> [l \in Langs |-> [status |-> "none", job |-> NoJob]]]
  /\ removed = {} /\ fired = {} /\ restarts = 0
  /\ overlapped = {} /\ deleted = {} /\ canceled = {}

\* What a child, a request or a write that was waited for does.
WorkerStep(i) ==
  \/ AudioDone(i) \/ WhisperDone(i) \/ Result(i) \/ ChildFails(i) \/ Exit(i)
  \/ Translated(i) \/ TranslationFails(i) \/ MetaWritten(i)

JobStep(i) ==
  \/ \E a \in Assets, p \in Purposes : Request(i, a, p)
  \/ \E k \in Ids : Retry(i, k)
  \/ WorkerStep(i) \/ Timeout(i) \/ Progress(i)
  \/ PruneLists(i)
  \/ \E k \in Ids : PruneOne(i, k)
  \/ Cancel(i) \/ AutoFail(i)

UserStep ==
  \/ \E a \in Assets : DeleteAsset(a)
  \/ \E S \in SUBSET metas : DeleteTranscripts(S)
  \/ ClearDuplicates
  \/ \E n \in 1..MaxWorkers : SetWorkers(n)

\* Every step but the enqueue of a sidecar, which provisioning makes.
OwnStep == ProcessNext \/ (\E i \in Ids : JobStep(i)) \/ UserStep \/ Restart

Next == OwnStep \/ \E i \in Ids, a \in Assets : EnqueueSidecar(i, a)

Spec == Init /\ [][Next]_vars

\* What the event loop brings: each of these happens at most a few times for a job.
EventLoop == ProcessNext \/ \E i \in Ids : WorkerStep(i)
Tick == \E i \in Ids : AutoFail(i)

\* setImmediate runs; a child closes (the timeout kills it if nothing else does); requests
\* and writes are answered; the tracker ticks for as long as a stage is past its limit.
Fairness == WF_vars(EventLoop) /\ WF_vars(Tick)

FairSpec == Spec /\ Fairness

-----------------------------------------------------------------------------
(* Properties *)

\* No worker idles: of the slots the setting has always allowed, as many as there are
\* queued jobs are busy or about to be filled by a setImmediate on its way.
NoIdleWorker ==
  Min2(Cardinality(Queued) + Cardinality(Busy), lowest) <= wakes + Cardinality(Busy)

\* The asset's record tells the truth about the job it names: queued means that one is
\* still to report, or was canceled or lost in a restart, which reports nothing; done
\* means that job is done; failed, that it is not, or is about to say otherwise.
Coming(i) == Status(i) \in Live \cup {"canceled", "gone"} \/ call[i] = "meta"

RecordFollowsJob ==
  \A a \in Assets \ removed, l \in Langs :
    LET e == entry[a][l]
    IN /\ e.status = "queued" => \E i \in Ids : /\ AssetOf(i) = a /\ LangOf(i) = l
                                              /\ ~IsSidecar(i) /\ Coming(i)
       /\ e.status = "done" => e.job \in Ids /\ Status(e.job) \in {"done", "gone"}
       /\ e.status = "failed" => e.job \in Ids /\ (Status(e.job) = "done" => call[e.job] = "meta")

\* A finished transcript is on disk for as long as the asset's record points at it, unless
\* a user deleted it or two jobs for the same asset and language were under way at once:
\* no prune of an earlier or a later job takes it away.
TranscriptIsThere ==
  \A a \in Assets \ removed, l \in Langs :
    LET e == entry[a][l]
    IN e.status = "done" /\ e.job \notin overlapped \cup deleted => e.job \in files

\* Every job comes to rest: it ends as done, failed or canceled and stays so, whatever
\* ticks and timeouts cross (a sidecar has no tracker to fail it).
TranscriptSettles ==
  \A i \in Ids :
    (Status(i) = "queued" /\ ~IsSidecar(i)) ~> [](Status(i) \in Terminal \cup {"gone"})
=============================================================================
